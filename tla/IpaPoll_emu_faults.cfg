SPECIFICATION FairSpec
CONSTANTS
  A = A
  B = B
  C = C
  switch = switch
  switchBack = switchBack
  swap = swap
  plain = plain
  list = list
  data = data
  NoProfile = NoProfile
  Same = Same
  NoRes = NoRes
  NoPackage = NoPackage
  EuiccPackages <- MCEuiccPackages
  Ops <- MCOps
  EmuEnabled = TRUE
  Profiles = {A, B}
  Packages = {switch, list, data}
  Notifying = {B}
  InitInstalled = {A, B}
  InitActive = A
  InitNotifs = {1}
  InitSeq = 2
  CompactSeqs = {}
  ErrorCodes = {3}
  CatBusy = FALSE
  RollbackCarries = {TRUE}
  CardFaults = {"lostReq", "lostRes", "refused", "badRes"}
  HttpFaults = {"lostReq", "lostRes", "refused", "badRes"}
  MaxSeq = 2
  MaxOffers = 2
  MaxCrashes = 1
INVARIANTS
  PollCodeTruthful
PROPERTIES
  FailedSwitchTold
  ReportCycleSpec
  PendingResolved
  DeliveredEventually
