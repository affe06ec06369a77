CONSTANTS
  PagesInExtent = 2
  MappablePages = 7
  InitialPages = 3
  SystemPages = 2
  MaxCalls = 2
  MaxRequest = 3
SPECIFICATION Spec
INVARIANTS
  TypeOK
  LivePagesAllocated
  MapsAgree
  LastUsedExact
PROPERTIES
  GrowthIsMinimal
  ReserveBeforePublish
