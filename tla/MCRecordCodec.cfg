CONSTANTS
  ByteBits = 2
  Formats <- MCFormats
  NewColumns <- MCNewColumns
  Values <- MCValues
  EngineBytes = {0, 1, 3}
  MsPerDay = 5
  MonthDays <- MCMonthDays
  Hours = {0, 1}
  MaxColumns = 3
  MaxCalls = 3
SPECIFICATION Spec
INVARIANTS
  RowReadsBack
  RecordsOpenAgain
  OwnRowsCanBeRewritten
CHECK_DEADLOCK FALSE
