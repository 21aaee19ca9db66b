CONSTANTS
  Sha = {a, b, c, d}
  None = None
  Keep = 2
  Bounds <- DisturbedBounds
SPECIFICATION Spec
SYMMETRY CommitSymmetry
INVARIANTS Unwedged RefusedWhereKilled
PROPERTIES IsRegister StrandsNone JustTriedKept
CHECK_DEADLOCK FALSE
