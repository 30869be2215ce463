SPECIFICATION FairSpec
CONSTANTS
  j1 = j1
  j2 = j2
  r1 = r1
  r2 = r2
  None = None
  Jobs <- OneJob
  Retries <- OneRetry
  MaxFiles = 2
  MaxConcurrent = 0
  FaultyWrites <- AnyFault
  MaxCrashes = 1
INVARIANTS
  SlotDiscipline
PROPERTIES
  JobCompletes
  EveryDirSwept
  EveryRequestEnds
