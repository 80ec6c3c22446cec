SPECIFICATION Spec
CONSTANTS
  w1 = w1
  w2 = w2
  r1 = r1
  r2 = r2
  NoOwner = NoOwner
  Writers <- OneWriter
  Readers <- TwoReaders
  BlbCount = 3
  Capacity = 2
  MaxTs = 3
  SizesUsed <- AllSizes
  Mortal <- Nobody
INVARIANTS TypeOK NewestFirst BlocksDistinct ReleaseFindsItsElements StatusCountsPins DroppedOnlyIfStaleOrPinned
PROPERTIES HeldBlocksUntouched
SYMMETRY ReaderSymmetry
