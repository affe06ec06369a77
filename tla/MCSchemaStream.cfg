CONSTANTS
  a = a
  b = b
  c = c
  i = i
  j = j
  t = t
  u = u
  Tables = {t, u}
  ColumnNames = {a, b, c}
  IndexNames = {i, j}
  NoName = NoName
  VarcharColumns = {b}
  ColumnLists <- MCColumnLists
  ConstraintLists <- MCConstraintLists
  Pages = {1, 2, 3, 4, 5, 6, 7, 8, 9, 10, 11, 12, 13}
  Capacity = 42
  MaxEdits = 4
SPECIFICATION Spec
SYMMETRY Symmetry
INVARIANTS
  StreamsSayWhatWasDeclared
  CutStreamsAreRefused
  ChainsAreSeparate
  IDsAreUnique
CHECK_DEADLOCK FALSE
