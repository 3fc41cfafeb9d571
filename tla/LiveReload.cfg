SPECIFICATION FairSpec
CONSTANTS
  Tab = {t1}
  Capacity = 2
  WireCapacity = 1
  Diagnostics = {d1, d2}
  NoDiagnostics = NoDiagnostics
  NoEvent = NoEvent
  Targets <- MCTargets
  d1 = d1
  d2 = d2
  l1 = l1
  l2 = l2
  l3 = l3
INVARIANTS
  OverlayIsCurrent
  ClickOpensShown
PROPERTIES
  RestartReloads
  TabsSettle
