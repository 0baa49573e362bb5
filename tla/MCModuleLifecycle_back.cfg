SPECIFICATION Spec
CONSTANTS
  MaxAttempts = 2
  WorkerMayOutlast = TRUE
  SiteRefuses = FALSE
INVARIANTS
  BytesStayBack
CHECK_DEADLOCK FALSE
