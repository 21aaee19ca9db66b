CONSTANTS
  init1 = init1
  init2 = init2
  remove1 = remove1
  remove2 = remove2
  Process = {init1, remove1}
  Command <- Commands
  None = None
  Instances <- OneThenTwo
  Patient = FALSE
  Bounds <- RemovedBounds
SPECIFICATION Spec
INVARIANT StaysRegistered
CHECK_DEADLOCK FALSE
