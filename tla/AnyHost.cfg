SPECIFICATION HistorySpec
CONSTANTS
  MAX_N = 2
  Dims <- MCDims
  Words = {0}
INVARIANTS TypeOK BusyJobSound IrqDormant LossNeedsEarlyStart
PROPERTIES BusyEnds InterruptDelivered
