SPECIFICATION Spec
CONSTANTS
  Char = {"1", "x", "$"}
  Null = Null
  MaxText = 2
  MaxParts = 5
  TlvTags <- MCTags
  Lengths = {0, 1, 30, 64, 126, 127, 128, 255, 256, 65535, 65536, 16777215}
  IscrSizes = {50, 120}
  TlvSizes = {30, 62, 65, 127, 200}
  MaxTlvs = 2
  MaxTags = 3
INVARIANTS
  SegmentsAlwaysThePackage
CHECK_DEADLOCK FALSE
