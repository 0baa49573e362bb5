SPECIFICATION Spec
CONSTANTS
  c1 = c1
  c2 = c2
  d1 = d1
  d2 = d2
  Clients = {c1}
  Drainers = {d1}
  MaxRequests = 2
  OvertakesDrain = TRUE
INVARIANTS
  AnswerIsOwn
