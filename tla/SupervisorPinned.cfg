SPECIFICATION FairSpec
CONSTANTS
  Process = {p1, p2, p3}
  None = None
  Pinned = TRUE
  FixedPort = FixedPort
  MaxVersion = 3
  MaxQueue = 1
  Diagnostics = {d1}
  NoDiagnostics = NoDiagnostics
  NoEvent = NoEvent
INVARIANTS
  PinnedExclusive
  RestartedMeansNewest
PROPERTIES
  NoSignalAfterReap
  ImplementsBuildEvents
  RetiredGone
  CrashNoticed
CHECK_DEADLOCK FALSE
