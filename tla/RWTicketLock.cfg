SPECIFICATION FairSpec
CONSTANTS
  p1 = p1
  p2 = p2
  p3 = p3
  Proc <- ThreeProcs
  Triers <- TwoProcs
  Base = 4
INVARIANTS CountersAgreeAtRest
PROPERTIES ImplementsRWLock FirstComeFirstServed TryNeverOvertakes TryFailsForAReason EveryWaiterServed
