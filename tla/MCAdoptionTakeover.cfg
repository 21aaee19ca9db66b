CONSTANTS
  init1 = init1
  init2 = init2
  remove1 = remove1
  remove2 = remove2
  Process = {init1, init2, remove1, remove2}
  Command <- Commands
  None = None
  Instances <- OneThenTwo
  Patient = TRUE
  Bounds <- TakeoverBounds
SPECIFICATION FairSpec
INVARIANTS TypeOK OriginalsKept AutoIsWhole StaysRegistered CloneKeptForTree
PROPERTIES HandsOverLiving TellsTheTruth Ends 
CHECK_DEADLOCK FALSE
