CONSTANTS
  Proc = {p, q}
  NoProc = NoProc
  File = {f1, f2}
  Outside = {}
  Content = {a, b}
  Absent = Absent
  Torn = Torn
  Unreadable = Unreadable
  Depth = 1
  Verbs = {"edit", "patch", "undo"}
  MaxFiles = 2
  MaxIds = 2
  MaxFaults = 1
SPECIFICATION Spec
SYMMETRY Symmetry
INVARIANTS
  HistoryKept
  ChangesHavePreImages
  UndoAccepted
  UndoOverwritesOnlyItsEdit
  HalfStackUnseen
PROPERTIES
  NoLostUpdate
  UndoRestores
