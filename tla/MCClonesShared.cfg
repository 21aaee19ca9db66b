CONSTANTS
  Process = {p, q, s}
  Tree = {t, u}
  Repo = {r1, r2}
  None = None
  LockLast = TRUE
  Bounds <- SharedBounds
SPECIFICATION FairSpec
INVARIANTS OneInside FetchesWhole LastOneOut
PROPERTIES IsRegistry Ends
CHECK_DEADLOCK FALSE
