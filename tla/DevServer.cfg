SPECIFICATION DevFairSpec
CONSTANTS
  Process = {p1, p2}
  None = None
  Pinned = FALSE
  FixedPort = FixedPort
  MaxVersion = 2
  MaxQueue = 2
  Diagnostics = {NoDiagnostics}
  NoDiagnostics = NoDiagnostics
  NoEvent = NoEvent
  Path = {src, dist}
  Ignored = {dist}
  MaxInbox = 1
INVARIANTS
  NoOrphan
  HandoverBeforeRetire
PROPERTIES
  TriggersAnswer
  EditReachesBuild
CHECK_DEADLOCK FALSE
