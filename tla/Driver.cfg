SPECIFICATION Spec
CONSTANTS
  u1 = u1
  u2 = u2
  Users <- MCUsers
  IoWords = 16
  MayFail <- MostFailures
SYMMETRY UserSymmetry
INVARIANTS
  TypeOK NodeBacked AllOrNothing IrqHandlerMapped UnloadReleases
  CleanReleases OpenAccessMapped
