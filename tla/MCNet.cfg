\* TCP between two hosts, and address resolution.
SPECIFICATION NetSpec
CONSTANTS
  Client = client
  Server = server
  TCP_MSS = 2
  TCP_WND = 4
  TCP_SND_BUF = 4
  SeqSpace = 64
  FirstIss = 3
  TickStep = 12
  TCP_MAXRTX = 2
  TCP_SYNMAXRTX = 1
  RecvSize = 1
  TcpUses <- Uses
  host1 = host1
  host2 = host2
  gateway = gateway
  mac1 = mac1
  mac2 = mac2
 
INVARIANT AckIsDelivered
 
INVARIANT NothingForgotten
PROPERTY WindowNeverShrinks
 
INVARIANT SentToLatest
INVARIANT SentInOrder
CHECK_DEADLOCK FALSE
