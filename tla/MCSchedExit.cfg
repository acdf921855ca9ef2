\* Threads of one priority that sleep and exit.
SPECIFICATION Spec
CONSTANTS
  r = r
  a = a
  b = b
  i = i
  NULL = NULL
  Thread = {r, a, b, i}
  Idle = i
  Root = r
  PrioMax = 3
  InitPrio <- PeerPrio
  InitTick <- Slice
  IpcObject = {}
  MaxTime = 2
  MaxNest = 1
  Sleepers = {r, b}
  Exiters = {a}
  Lockers = {}
  Controllers = {}
  Commands = {}
INVARIANT FreedIsDead
