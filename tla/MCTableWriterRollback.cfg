CONSTANTS
  Tables = {1}
  Pages = {1, 2}
  Keys = {1, 2}
  SlotsPerPage = 1
  ListCapacity = 2
  LeafCapacity = 2
  MaxChanges = 2
  MaxChangesDamaged = 2
  MaxDrops = 0
SPECIFICATION Spec
PROPERTIES
  RollbackIsExact
