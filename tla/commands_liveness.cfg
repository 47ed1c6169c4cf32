CONSTANTS
  Proc = {p, q}
  NoProc = NoProc
  File = {f1}
  Outside = {}
  Content = {a, b}
  Absent = Absent
  Torn = Torn
  Unreadable = Unreadable
  Depth = 2
  Verbs = {"edit", "patch", "undo"}
  MaxFiles = 1
  MaxIds = 2
  MaxFaults = 1
SPECIFICATION FairSpec
INVARIANTS
  UndoOverwritesOnlyItsEdit
PROPERTIES
  LockedCommandReturns
