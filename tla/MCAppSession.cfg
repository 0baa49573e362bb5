SPECIFICATION FairSpec
CONSTANTS
  MaxGames = 2
  Keys <- MCKeys
  Home <- MCHome
  FindMayFail = TRUE
  SnapshotMayFail = TRUE
  LoaderMayOutlast = TRUE
  InjectMayFail = TRUE
  PipeMayFail = TRUE
INVARIANTS LeftStaysLeft LoadedOnce CommandsReachTheirGame WaitingAsks
PROPERTIES DetachedModuleGoes GetsIn HotkeySettles ExitEnds
