SPECIFICATION Spec
CONSTANTS
  A = A
  B = B
  C = C
  switch = switch
  switchBack = switchBack
  swap = swap
  plain = plain
  list = list
  data = data
  NoProfile = NoProfile
  Same = Same
  NoRes = NoRes
  NoPackage = NoPackage
  EuiccPackages <- MCEuiccPackages
  Ops <- MCOps
  EmuEnabled = TRUE
  Profiles = {A, B, C}
  Packages = {switch, switchBack, swap, plain}
  Notifying = {B}
  InitInstalled = {A, B, C}
  InitActive = A
  InitNotifs = {}
  InitSeq = 1
  CompactSeqs = {}
  ErrorCodes = {3}
  CatBusy = TRUE
  RollbackCarries = {TRUE}
  CardFaults = {}
  HttpFaults = {"lostReq", "lostRes", "refused", "badRes", "emptyErr"}
  MaxSeq = 4
  MaxOffers = 2
  MaxCrashes = 1
INVARIANTS
  TypeOK
  ConfirmedViewAccurate
  RollbackRestores
PROPERTIES
  AbandonedSwitchUndone
