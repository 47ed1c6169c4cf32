CONSTANTS
  Proc = {x}
  NoProc = NoProc
  r1 = r1
  r2 = r2
  Run = {r1}
  NoRun = NoRun
  Path = {1, 2}
  Delta <- MCDelta
  Deleted <- MCDeleted
  Flags <- MCFlags
  MaxEdits = 0
  MaxFaults = 1
SPECIFICATION FairSpec
PROPERTIES
  PublicationRecovered
