CONSTANTS
  Sha = {a, b, c}
  None = None
  Branch = {main}
  Dog = dog
  Operator = {o1}
  Commands = {"deploy"}
  Keep = 2
  NoReload = NoReload
  Accepted = Accepted
  Skips <- NoSkips
  Bounds <- StaleBounds
SPECIFICATION Spec
SYMMETRY CommitSymmetry
INVARIANT Agreement
