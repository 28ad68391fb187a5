CONSTANTS
  i1 = i1
  i2 = i2
  NoItem = NoItem
  Items <- MCItems
  FreeBit <- MCFreeBit
  MaxEntries <- MCMaxEntries
  MaxRefs <- MCMaxRefs
SPECIFICATION Spec
INVARIANTS TypeOK FreeListSound CountsMatch
PROPERTY ImplementsSpec
