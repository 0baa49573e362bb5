SPECIFICATION FairSpec
CONSTANTS
  MaxCopies = 2
  MayBeDenied = {}
  Paths <- MCPaths
  Folders <- MCFolders
  None = "none"
CHECK_DEADLOCK FALSE
PROPERTIES EveryClickIsAnswered
