SPECIFICATION EditorSpec
CONSTANTS
  Tabs = {ta, tb}
  Output = Output
  Notice = Notice
  NoEdit = NoEdit
  MaxCells = 3
  MaxTokens = 2
  MaxEdits = 1
  Exports = {e1}
  NoExport = NoExport
  Expiry = 2
  Period = 1
  MaxAge = 4
CHECK_DEADLOCK FALSE
INVARIANT EditKeepsTheRest
