CONSTANTS
  Sha = {a, b, c}
  None = None
  Branch = {main}
  Dog = dog
  Operator = {o1, o2}
  Commands = {"stage", "promote"}
  Keep = 2
  NoReload = NoReload
  Accepted = Accepted
  Skips <- AllSkips
  Bounds <- StagingBounds
SPECIFICATION Spec
SYMMETRY Symmetry
INVARIANTS RecordedKept ServedIntact
PROPERTY StagedUntilLanded
