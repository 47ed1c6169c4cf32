CONSTANTS
  File = {f1, f2}
  Shared = {}
  Content = {a, b}
  Torn = Torn
  NoBlob = NoBlob
  NoJournal = NoJournal
  MaxFiles = 2
  MaxEvents = 4
SPECIFICATION Spec
SYMMETRY Symmetry
PROPERTIES
  CrashedTransactionStaysRecoverable
