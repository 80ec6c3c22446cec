SPECIFICATION FairSpec
CONSTANTS
  w1 = w1
  w2 = w2
  r1 = r1
  r2 = r2
  NoOwner = NoOwner
  Writers <- TwoWriters
  Readers <- OneReader
  BlbCount = 3
  Capacity = 2
  MaxTs = 3
  SizesUsed <- OnlyFits
  Mortal <- Everybody
INVARIANTS HeldMessagesIntact
PROPERTIES HeadNeverGoesBack ImplementsMutex LockGivenBack
CHECK_DEADLOCK FALSE
