SPECIFICATION Spec
CONSTANTS
  j1 = j1
  j2 = j2
  r1 = r1
  r2 = r2
  None = None
  Jobs <- OneJob
  Retries <- OneRetry
  MaxFiles = 1
  MaxConcurrent = 1
  FaultyWrites <- Reliable
  MaxCrashes = 0
PROPERTIES
  NeverDeletesLiveJob
