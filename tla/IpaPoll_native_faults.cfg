SPECIFICATION Spec
CONSTANTS
  A = A
  B = B
  C = C
  switch = switch
  switchBack = switchBack
  swap = swap
  plain = plain
  list = list
  data = data
  NoProfile = NoProfile
  Same = Same
  NoRes = NoRes
  NoPackage = NoPackage
  EuiccPackages <- MCEuiccPackages
  Ops <- MCOps
  EmuEnabled = FALSE
  Profiles = {A, B, C}
  Packages = {switch, plain}
  Notifying = {B}
  InitInstalled = {A, B, C}
  InitActive = A
  InitNotifs = {1, 2}
  InitSeq = 3
  CompactSeqs = {2}
  ErrorCodes = {3}
  CatBusy = TRUE
  RollbackCarries = {TRUE}
  CardFaults = {"lostReq", "lostRes", "refused", "badRes"}
  HttpFaults = {"lostReq", "lostRes", "refused", "badRes"}
  MaxSeq = 9
  MaxOffers = 2
  MaxCrashes = 1
INVARIANTS
  ConfirmedViewAccurate
PROPERTIES
  RemovedOnlyDelivered
