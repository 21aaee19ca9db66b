\* Nothing moves any more once a verdict is reached and the flock is at rest.
CONSTANTS
  Places = 2
  MaxPid = 9
  Earlier = TRUE
  Looks = 1
  Troubles = 1
SPECIFICATION FairSpec
CHECK_DEADLOCK FALSE
INVARIANTS NoFalseAlarm
PROPERTIES PassRunsNew PassFullStrength PassSurvived Decides
