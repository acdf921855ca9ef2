\* Sequential parts of the kernel, each on its own.
SPECIFICATION PartsSpec
CONSTANTS
  Node = {n1, n2, n3}
  Lists = {l1, l2}
  Nil = Nil
  NULL = NULL
  tx = tx
  ty = ty
  Timer = {tx, ty}
  W = 4
  StartTick = 14
  MaxTicks = 5
  Time = {1, 3}
  Callback <- OneStops
INVARIANT Faithful
 
 
INVARIANT ActiveInTree
 
INVARIANT NamesFound
INVARIANT OpenCounted
INVARIANT RingExact
PROPERTY ImplementsCountdown
