SPECIFICATION Spec
CONSTANTS
  Paths = {p}
  Content = {a, b}
  Undecodable = {}
  Tools = {"write_file"}
  Absent = Absent
  Dirty = Dirty
  Unopened = Unopened
  Rotates = TRUE
  MaxTurns = 2
  MaxRecords = 3
  MaxEdits = 0
SYMMETRY TextSymmetry
CHECK_DEADLOCK FALSE
INVARIANTS TypeOK UndoneTogether
PROPERTIES JournalOnlyGrows UndoMarksLast
