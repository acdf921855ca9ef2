\* Two threads of one priority below the root thread, under fairness.
SPECIFICATION BothSpec
CONSTANTS
  r = r
  a = a
  b = b
  i = i
  NULL = NULL
  Thread = {r, a, b, i}
  Idle = i
  Root = r
  PrioMax = 3
  InitPrio <- PeerPrio
  InitTick <- Slice
  IpcObject = {}
  MaxTime = 3
  MaxNest = 1
  Sleepers = {r, a}
  Exiters = {}
  Lockers = {}
  Controllers = {}
  Commands = {}
 
 
INVARIANT HighestRuns
INVARIANT TimeoutsExact
INVARIANT NotEarly
PROPERTY TimersServed
