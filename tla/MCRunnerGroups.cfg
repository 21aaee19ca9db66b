CONSTANTS
  Pid = {p1, p2, p3, p4}
  None = None
  Bounds <- MCBounds
SPECIFICATION FairSpec
INVARIANTS NothingLeft GroupReserved
PROPERTIES KillsOnlyOurs Ends
CHECK_DEADLOCK FALSE
