CONSTANTS
  PagesInExtent = 4
  MappablePages = 18
  Names = {T1, T2}
  IndexNames = {I1}
  DatabasePages = 5
  SystemChain = 2
  Columns = 1
  SlotsPerPage = 16
  Batches = {16}
  MaxListed = 2
  MaxObjectID = 7
SPECIFICATION Spec
SYMMETRY Symmetry
INVARIANTS
  TypeOK
  PagesHaveOneOwner
  EvidenceIsRight
PROPERTIES
  DropsAreExact
CHECK_DEADLOCK FALSE
