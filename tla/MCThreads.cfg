\* Threads with distinct priorities, a thread that controls another, and the heap.
SPECIFICATION ThreadsSpec
CONSTANTS
  r = r
  a = a
  b = b
  i = i
  NULL = NULL
  Thread = {r, a, b, i}
  Idle = i
  Root = r
  PrioMax = 4
  InitPrio <- DistinctPrio
  InitTick <- Slice
  IpcObject = {}
  MaxTime = 2
  MaxNest = 2
  Sleepers = {r, a, b}
  Exiters = {r, b}
  Lockers = {a}
  Controllers = {}
  Commands = {}
INVARIANT NextThreadExists
INVARIANT TimeoutsSafe
INVARIANT ReadyExact
INVARIANT FreedIsDead
INVARIANT HeapExact
INVARIANT BlocksApart
INVARIANT HeapLocked
INVARIANT IdleNeverWaits
