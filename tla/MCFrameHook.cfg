SPECIFICATION FairSpec
CONSTANTS
  t1 = t1
  t2 = t2
  p1 = p1
  p2 = p2
  FrameThreads = {t1, t2}
  Pages = {p1, p2}
  NoPage = NoPage
  MaxTrampolinePages = 2
  MaxPasses = 1
  ReinstallWhileWarm = FALSE
  CallsMayBeRefused = TRUE
INVARIANTS
  UnloadIsSafe
  NoThreadUnderWrite
  TrampolineIsThere
PROPERTIES
  VerifiedMeansRestored
  ImplementsContract
  CallsReturn
  RepeatedDetachFinishes
