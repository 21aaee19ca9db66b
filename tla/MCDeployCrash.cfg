CONSTANTS
  Sha = {a, b, c}
  None = None
  Branch = {main}
  Dog = dog
  Operator = {o1}
  Commands = {"deploy", "promote", "stage"}
  Keep = 3
  NoReload = NoReload
  Accepted = Accepted
  Skips <- NoSkips
  Bounds <- CrashBounds
SPECIFICATION Spec
SYMMETRY CommitSymmetry
INVARIANTS TypeOK Exclusive BuildsWhole VerdictIsOfHead
