SPECIFICATION FairWaitingSpec
CONSTANTS
  MAX_N = 2
  Dims <- MCDims
  Words = {0}
PROPERTY StartCompletes
