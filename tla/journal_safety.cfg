CONSTANTS
  File = {f1, f2}
  Shared = {f1}
  Content = {a, b}
  Torn = Torn
  NoBlob = NoBlob
  NoJournal = NoJournal
  MaxFiles = 2
  MaxEvents = 0
SPECIFICATION Spec
SYMMETRY ContentSymmetry
INVARIANTS
  TypeOK
  Recoverable
PROPERTIES
  CleanRecoveryNeverRefused
  JournalOutlivesHalfApplied
  ReportIsTrue
  AllOrNothing
