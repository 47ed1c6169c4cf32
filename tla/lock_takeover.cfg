CONSTANTS
  Proc = {p1, p2, p3}
  NoProc = NoProc
  NoFile = NoFile
  MaxAttempts = 4
  MaxRounds = 1
  MaxIoErrors = 0
SPECIFICATION Spec
CHECK_DEADLOCK FALSE
INVARIANT NewLockNeverDeleted
