SPECIFICATION Spec
CONSTANTS
  A = A
  B = B
  C = C
  switch = switch
  switchBack = switchBack
  swap = swap
  plain = plain
  list = list
  data = data
  NoProfile = NoProfile
  Same = Same
  NoRes = NoRes
  NoPackage = NoPackage
  EuiccPackages <- MCEuiccPackages
  Ops <- MCOps
  EmuEnabled = TRUE
  Profiles = {A, B, C}
  Packages = {plain, switch}
  Notifying = {B}
  InitInstalled = {A, B, C}
  InitActive = A
  InitNotifs = {}
  InitSeq = 1
  CompactSeqs = {}
  ErrorCodes = {3}
  CatBusy = FALSE
  RollbackCarries = {TRUE}
  CardFaults = {"lostReq"}
  HttpFaults = {"lostReq", "lostRes", "refused", "badRes"}
  MaxSeq = 4
  MaxOffers = 2
  MaxCrashes = 1
INVARIANTS
  RollbackRestores
