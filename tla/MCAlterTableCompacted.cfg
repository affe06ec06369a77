CONSTANTS
  Starts <- MCStarts
  ColumnNames = {"B", "A"}
  NewKinds = {"string", "autoinc"}
  FieldSize <- MCFieldSize
  FlagBits = 2
  PayloadSize = 23
  Pages = {5}
  MaxInt = 3
  MaxChanges = 1
  MaxAlters = 2
SPECIFICATION Spec
PROPERTIES
  CompactionsChangeNothing
CHECK_DEADLOCK FALSE
