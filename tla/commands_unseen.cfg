CONSTANTS
  Proc = {p, q}
  NoProc = NoProc
  File = {f1, f2}
  Outside = {f1}
  Content = {a, b}
  Absent = Absent
  Torn = Torn
  Unreadable = Unreadable
  Depth = 1
  Verbs = {"edit", "undo"}
  MaxFiles = 1
  MaxIds = 2
  MaxFaults = 1
SPECIFICATION Spec
SYMMETRY ContentSymmetry
PROPERTIES
  UndoSparesUnseenBytes
