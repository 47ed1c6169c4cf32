CONSTANTS
  Proc = {p1, p2, p3}
  NoProc = NoProc
  NoFile = NoFile
  MaxAttempts = 2
  MaxRounds = 1
  MaxIoErrors = 1
SPECIFICATION FairSpec
CHECK_DEADLOCK FALSE
INVARIANTS
  TypeOK
  MutexUnlessStolen
  TheftNeedsAbandonment
PROPERTY OrphanIsReplaced
