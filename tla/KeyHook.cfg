SPECIFICATION Spec
CONSTANTS
  Keys = {a}
  Any = any
  MaxPresses = 3
  MaxCreates = 2
  MaxBinds = 2
INVARIANTS TypeOK DestroyReleasesAll
PROPERTIES KeysTaken OnlyMissAndReadHoldDestroy
CHECK_DEADLOCK FALSE
