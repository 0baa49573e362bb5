SPECIFICATION Spec
CONSTANTS
  MaxGames = 1
  Keys <- MCKeys
  Home <- MCHome
  FindMayFail = FALSE
  SnapshotMayFail = FALSE
  LoaderMayOutlast = FALSE
  InjectMayFail = FALSE
  PipeMayFail = FALSE
INVARIANTS LeavingRestores
