SPECIFICATION FairDisciplinedSpec
CONSTANTS
  MAX_N = 2
  Dims <- MCDims
  Words = {0, 1}
PROPERTIES ImplementsAccelerator TasksEnd
