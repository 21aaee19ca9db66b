CONSTANTS
  Sha = {a, b, c}
  None = None
  Branch = {main, next}
  Dog = dog
  Operator = {o1}
  Commands = {"stage", "branch", "watch"}
  Keep = 2
  NoReload = NoReload
  Accepted = Accepted
  Skips <- NoSkips
  Bounds <- UnattendedBounds
SPECIFICATION Spec
SYMMETRY CommitSymmetry
INVARIANTS Agreement DeployedVerified NeverHoldsWhatServes
PROPERTIES HoldRespected HoldOnlyFromAttempt
