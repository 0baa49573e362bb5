SPECIFICATION FairSpec
CONSTANTS
  c1 = c1
  c2 = c2
  d1 = d1
  d2 = d2
  Clients = {c1, c2}
  Drainers = {d1, d2}
  MaxRequests = 3
  OvertakesDrain = FALSE
INVARIANTS
  AnswerIsOwn
PROPERTIES
  ImplementsContract
  WithdrawnNeverRuns
  CallsReturn
  SlotIsFreed

