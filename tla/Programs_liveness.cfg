SPECIFICATION FairSpec
CONSTANTS
  Chosen = {"poc1", "poc4", "poc6", "poc8", "poc9", "parakeet", "capture"}
  RingSize = 1
  Interval = 1
  MaxBuffered = 1
PROPERTY ShutsDown
CHECK_DEADLOCK FALSE
