SPECIFICATION FairSpec
CONSTANTS
  MaxBlockTx = 2
  MaxBlocks = 3
  MaxBlockRx = 2
  MaxCalls = 2
  ReqLens = {2, 5, 6, 7}
  ResLens = {0, 2, 3}
  Channels = {0, 1}
  CardFaults = {"lostReq", "lostRes", "noSw", "cardErr"}
  MaxCrashes = 1
  MaxResets = 1
INVARIANTS
  TypeOK
  PerformedWhole
  AnswerWhole
  LimitExact
PROPERTIES
  CallSpec
  CallReturns
  LinkRestored
