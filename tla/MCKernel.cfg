\* Programs that use a lock and a signal, a mutex, a mailbox, a message
\* queue and an event set.
SPECIFICATION KernelSpec
CONSTANTS
  r = r
  a = a
  b = b
  i = i
  lk = lk
  sg = sg
  mt = mt
  bx = bx
  bxs = bxs
  mqu = mqu
  ev = ev
  NULL = NULL
  Thread = {r, a, b, i}
  Idle = i
  Root = r
  PrioMax = 4
  InitPrio <- DistinctPrio
  InitTick <- ShortSlice
  IpcObject = {lk, sg, mt, bx, bxs, mqu, ev}
  MaxTime = 1
  MaxNest = 0
  Sleepers = {r, a}
  Exiters = {}
  Lockers = {}
  Controllers = {}
  Commands = {}
  Programs <- EachProgram
  Semaphores = {lk, sg}
  InitValue <- LockAndSignal
  MaxValue = 2
  Locks = {lk}
  Mutexes = {mt}
  MaxHold = 2
  MailBoxes = {bx}
  Senders <- BoxSenders
  Size = 2
  Mail = {1, 2}
  Queues = {mqu}
  MaxMsgs = 2
  Message = {1, 2}
  Events = {ev}
  Bit = {1, 2}
INVARIANT MostUrgentRuns
INVARIANT Conservation
INVARIANT WaitersServed
PROPERTY ReleaseWakes
INVARIANT OwnerHolds
 
 
 
PROPERTY EventsTaken
