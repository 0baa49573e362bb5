SPECIFICATION FairSpec
CONSTANTS
  MaxAttempts = 2
  WorkerMayOutlast = TRUE
  SiteRefuses = TRUE
INVARIANTS
  UnloadIsSafe
  DetachedMeansUntouched
  
PROPERTIES
  InstalledOnce
  DetachIsAnswered
  ScanReachesVerdict
  RepeatedDetachUnloads
CHECK_DEADLOCK FALSE
