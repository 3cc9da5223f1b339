SPECIFICATION Spec
CONSTANTS
  MaxPresses = 3
  MaxCreates = 3
INVARIANTS TypeOK DestroyReleasesAll
PROPERTIES KeysTaken QuitReachesProducer
CHECK_DEADLOCK FALSE
