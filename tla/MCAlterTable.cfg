CONSTANTS
  Starts <- MCStarts
  ColumnNames = {"B", "A"}
  NewKinds = {"string", "autoinc"}
  FieldSize <- MCFieldSize
  FlagBits = 2
  PayloadSize = 17
  Pages = {5, 6}
  MaxInt = 3
  MaxChanges = 3
  MaxAlters = 2
SPECIFICATION Spec
INVARIANTS
  PagesFollowSchema
  IndexPointsAtRecords
  ConstraintsHold
  CountersKeepUp
PROPERTIES
  AlterationsKeepRecords
  CompactionsKeepRecords
CHECK_DEADLOCK FALSE
