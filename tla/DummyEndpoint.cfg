SPECIFICATION Spec
CONSTANTS
  p1 = p1
  p2 = p2
  app = app
  other = other
  Nobody = Nobody
  DIM = 2
  Procs <- MCProcs
  Programs <- MCPrograms
  Multiplying <- MCMultiplying
SYMMETRY Symmetric
INVARIANT ResultMustBe
