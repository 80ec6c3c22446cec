SPECIFICATION Spec
CONSTANTS
  Program <- ServerLast
  SlabLen = 2
  Addrs = 2
  MaxAccepts = 2
INVARIANTS OneUserEach HandlesAccountedFor SocketsClosed ReceivesReachTheirUser
CHECK_DEADLOCK FALSE
