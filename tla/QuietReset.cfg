SPECIFICATION FairQuietResetSpec
CONSTANTS
  MAX_N = 2
  Dims <- MCDims
  Words = {0}
INVARIANTS NoLostStart IdleMeansNoDma NoStuckLine
PROPERTY StartCompletes
