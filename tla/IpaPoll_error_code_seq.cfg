SPECIFICATION Spec
CONSTANTS
  A = A
  B = B
  C = C
  switch = switch
  switchBack = switchBack
  swap = swap
  plain = plain
  list = list
  data = data
  NoProfile = NoProfile
  Same = Same
  NoRes = NoRes
  NoPackage = NoPackage
  EuiccPackages <- MCEuiccPackages
  Ops <- MCOps
  EmuEnabled = FALSE
  Profiles = {A, B}
  Packages = {list}
  Notifying = {B}
  InitInstalled = {A, B}
  InitActive = A
  InitNotifs = {3}
  InitSeq = 4
  CompactSeqs = {}
  ErrorCodes = {3}
  CatBusy = FALSE
  RollbackCarries = {TRUE}
  CardFaults = {}
  HttpFaults = {"lostReq"}
  MaxSeq = 6
  MaxOffers = 2
  MaxCrashes = 1
PROPERTIES
  RemovesOnlyResult
