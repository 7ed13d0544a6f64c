SPECIFICATION Spec
CONSTANTS
  e1 = e1
  e2 = e2
  e3 = e3
  f1 = f1
  f2 = f2
  NoFqdn = NoFqdn
  NoCounter = NoCounter
  NoToken = NoToken
  NoEim = NoEim
  NoFile = NoFile
  Torn = Torn
  InitCfgs <- MCInitCfgs
  Additions <- MCAdditions
  Updates <- MCUpdates
  EimIds = {e1, e2, e3}
  Fqdns = {f1, f2}
  Preferred = NoEim
  CardOutcomes = {"ok", "failed"}
  MaxToken = 3
  MaxVersion = 1
  MaxCrashes = 0
PROPERTIES
  OtherVersionSurvived
