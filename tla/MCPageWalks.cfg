CONSTANTS
  PageCount = 6
  PageUnits = 2
  MaxChainPages = 3
  MaxTreeDepth = 3
  ChainPages = 4
  TreePages = 3
  Walks <- MCWalks
SPECIFICATION Spec
INVARIANTS
  TypeOK
  NoPageReadTwice
  WholeChainsAreRead
  NothingIsMissing
  SearchesAgreeWithScans
  ScansAreComplete
PROPERTY
  WalksReturn
