SPECIFICATION Spec
CONSTANTS
  Paths = {p}
  Content = {a, b, x}
  Undecodable = {x}
  Tools = {"write_file", "export_document"}
  Absent = Absent
  Dirty = Dirty
  Unopened = Unopened
  Rotates = TRUE
  MaxTurns = 1
  MaxRecords = 2
  MaxEdits = 2
SYMMETRY TextSymmetry
CHECK_DEADLOCK FALSE
INVARIANTS WrittenIsJournaled
PROPERTIES NoBlindOverwrite UndoSparesUserText UndoRestoresPreTurn
