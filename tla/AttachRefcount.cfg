SPECIFICATION Spec
CONSTANTS
  Creator = creator
  o1 = o1
  o2 = o2
  Openers <- TwoOpeners
  MaxOpens = 3
INVARIANTS HeaderCountIsReferences
CHECK_DEADLOCK FALSE
