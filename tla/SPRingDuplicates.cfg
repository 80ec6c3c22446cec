SPECIFICATION Spec
CONSTANTS
  w1 = w1
  w2 = w2
  r1 = r1
  r2 = r2
  NoOwner = NoOwner
  Writers <- OneWriter
  Readers <- OneReader
  BlbCount = 3
  Capacity = 2
  MaxTs = 2
  SizesUsed <- OnlyFits
  Mortal <- Nobody
INVARIANTS OneElementPerWrite
