CONSTANTS
  File = {f1, f2}
  Shared = {}
  Content = {a, b}
  Torn = Torn
  NoBlob = NoBlob
  NoJournal = NoJournal
  MaxFiles = 2
  MaxEvents = 0
CHECK_DEADLOCK FALSE
SPECIFICATION FairSpec
PROPERTIES
  CallsReturn
  RecoveryConverges
