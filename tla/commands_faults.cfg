CONSTANTS
  Proc = {p}
  NoProc = NoProc
  File = {f1, f2}
  Outside = {f1}
  Content = {a, b}
  Absent = Absent
  Torn = Torn
  Unreadable = Unreadable
  Depth = 1
  Verbs = {"patch", "rename", "undo"}
  MaxFiles = 2
  MaxIds = 1
  MaxFaults = 3
SPECIFICATION Spec
SYMMETRY ContentSymmetry
INVARIANTS
  TypeOK
  ChangesHavePreImages
