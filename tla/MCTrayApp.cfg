SPECIFICATION FairSpec
CONSTANTS
  MaxCopies = 3
  MayBeDenied = {2}
  Paths <- MCPaths
  Folders <- MCFolders
  None = "none"
CHECK_DEADLOCK FALSE
INVARIANTS OneRunner WindowIsAskedFor EnabledAsChosen
PROPERTIES ClickIsAnswered
