CONSTANTS
  Tables = {1, 2}
  Pages = {1, 2}
  Keys = {1, 2, 3}
  SlotsPerPage = 2
  ListCapacity = 2
  LeafCapacity = 3
  MaxChanges = 3
  MaxChangesDamaged = 0
  MaxDrops = 1
SPECIFICATION Spec
INVARIANTS
  TypeOK
  IndexMatchesRows
  CountsMatchRows
PROPERTIES
  CommitsAreAccepted
  WritesAreTransactions
