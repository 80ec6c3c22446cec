SPECIFICATION FairSpec
CONSTANTS
  t1 = t1
  t2 = t2
  t3 = t3
  NoOwner = NoOwner
  Proc <- MCProc
  TryRounds <- MCTryRounds
INVARIANTS WordIsHolder
PROPERTIES ImplementsMutex TryReturns WordKeepsMoving
