CONSTANTS
  Sha = {a, b}
  None = None
  Branch = {main, next}
  Dog = dog
  Operator = {o1}
  Commands = {"branch", "watch"}
  Keep = 2
  NoReload = NoReload
  Accepted = Accepted
  Skips <- NoSkips
  Bounds <- SettleBounds
SPECIFICATION FairSpec
PROPERTY Settles
