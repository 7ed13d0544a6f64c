SPECIFICATION FairSpec
CONSTANTS
  granted = granted
  other = other
  foreign = foreign
  P = P
  Q = Q
  R = R
  oid1 = oid1
  oid2 = oid2
  addr1 = addr1
  addr2 = addr2
  ca1 = ca1
  ca2 = ca2
  NoTrigger = NoTrigger
  NoProfile = NoProfile
  NoCa = NoCa
  Absent = Absent
  Profile <- MCProfile
  SmdpOid <- MCSmdpOid
  SmdpAddress <- MCSmdpAddress
  Ca <- MCCa
  AutoEnableCfgs <- MCAutoEnableCfgs
  EmuEnabled = TRUE
  ConsentCb = TRUE
  Triggers = {granted, other, foreign}
  EuiccCas = {ca1, ca2}
  AllowedCa = ca1
  AuthAnswers = {"dpe", "dse", "error"}
  CardFaults = {"unseen", "unheard"}
  HttpFaults = {"unseen", "unheard"}
  Segments = 2
  MaxTx = 2
  MaxOrders = 2
  MaxCrashes = 1
INVARIANTS
  TypeOK
  InstalledAsAgreed
  NoSessionLeft
PROPERTIES
  AutoEnabledAsOrdered
  DownloadSessionSpec
  ResultTold
