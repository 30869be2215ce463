SPECIFICATION Spec
CONSTANTS
  j1 = j1
  j2 = j2
  r1 = r1
  r2 = r2
  None = None
  Jobs <- OneJob
  Retries <- TwoRetries
  MaxFiles = 2
  MaxConcurrent = 2
  FaultyWrites <- RetryableFaults
  MaxCrashes = 1
INVARIANTS
  IInv
  FateInv
  TypeOK
  OneConverterPerInput
  PendingHasWorker
  DoneIffTerminal
  FirstRunKeepsJob
  DoneHasDownload
  OrphansHaveACause
PROPERTIES
  DoneIsFinal
  ImplementsLedger
