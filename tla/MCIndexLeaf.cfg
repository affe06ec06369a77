CONSTANTS
  Indexes <- MCIndexes
  RowIDs = {1, 2, 3}
  Rows <- MCRows
  IndexedSize = 2
  Capacity = 2
  MaxOps = 3
  Null = Null
  NoRow = NoRow
SPECIFICATION Spec
INVARIANTS
  LeafEqualsRebuild
  EqualKeysKeepOrder
  UniqueKeysDiffer
  LookupsAreExact
