CONSTANTS
  Process = {p, q}
  Tree = {t, u}
  Repo = {r1}
  None = None
  LockLast = FALSE
  Bounds <- RaceBounds
SPECIFICATION Spec
PROPERTY IsRegistry
CHECK_DEADLOCK FALSE
