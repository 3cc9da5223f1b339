SPECIFICATION Spec
CONSTANTS
  Chosen = {"poc1", "poc4", "poc6", "poc7", "poc8", "poc9", "poc11", "poc12", "parakeet", "sherpa", "capture"}
  RingSize = 1
  Interval = 2
  MaxBuffered = 2
INVARIANTS TypeOK UsesOnlyWhatIsSetUp EndsJoined LeavesNothingElse TearsDownWhatIsSetUp NoWakeUpIsOwed NeverTranscribesNothing
PROPERTY HandsOverThroughBox
CHECK_DEADLOCK FALSE
