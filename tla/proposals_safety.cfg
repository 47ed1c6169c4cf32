CONSTANTS
  Proc = {x, y}
  NoProc = NoProc
  r1 = r1
  r2 = r2
  Run = {r1, r2}
  NoRun = NoRun
  Path = {1, 2}
  Delta <- MCDelta
  Deleted <- MCDeleted
  Flags <- MCFlags
  MaxEdits = 1
  MaxFaults = 1
SPECIFICATION Spec
SYMMETRY Symmetry
INVARIANTS
  TypeOK
  PublicationWhole
  RefIsBacked
  LeaseExcludesWriters
  HalfAppliedHasJournal
  AppliedStays
PROPERTIES
  UserEditKept
