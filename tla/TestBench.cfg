SPECIFICATION BenchSpec
CONSTANTS
  MAX_N = 2
  WORD = 16
  MemSize = 12
  Words <- MCWords
  Dims <- MCDims
  Values <- MCValues
  Contents <- MCContents
  Scenarios <- MCScenarios
INVARIANTS BenchTypeOK TestPasses OnlyCWritten NoLostInterrupt
PROPERTIES TestTerminates DriverDisciplined
CHECK_DEADLOCK FALSE
