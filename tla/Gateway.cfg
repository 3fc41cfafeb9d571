SPECIFICATION FairSpec
CONSTANTS
  Nobody = Nobody
  Request = {r1, r2}
  Configs <- MCConfigs
  Addresses <- MCAddresses
  Visits <- MCVisits
INVARIANTS
  NothingCutOff
  AnnouncedWhole
  StagesAgree
  CertificateOfHost
PROPERTIES
  ShutdownCompletes
CHECK_DEADLOCK FALSE
