SPECIFICATION Spec
CONSTANTS
  Program <- ServerFirst
  SlabLen = 2
  Addrs = 2
  MaxAccepts = 2
INVARIANTS OneUserEach
CHECK_DEADLOCK FALSE
