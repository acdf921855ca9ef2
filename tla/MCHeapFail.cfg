\* Two threads and too few pages.
SPECIFICATION HeapSpec
CONSTANTS
  a = a
  b = b
  HeapIdle = idle
  ReleaseThresh = 1
  MaxHeapSem = 2
  HeapUses <- TooFew
INVARIANT HeapLocked
CHECK_DEADLOCK FALSE
