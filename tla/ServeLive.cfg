SPECIFICATION FairSpec
CONSTANTS
  Tab = {t1, t2}
  Capacity = 1
  MaxVersion = 3
  MaxInbox = 1
INVARIANTS
  ReloadUnderWay
PROPERTIES
  ChangeReloads
  ReloadsLetUp
