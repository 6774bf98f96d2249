SPECIFICATION WaitingSpec
CONSTANTS
  MAX_N = 2
  Dims <- MCDims
  Words = {0}
INVARIANT NoLostInterrupt
