SPECIFICATION Spec
CONSTANTS
  RingSize = 2
  InferenceBufferSize = 1
  ResampleCap = 2
  MaxBurst = 1
  MaxCaptured = 2
  MaxPresses = 2
PROPERTIES
  AudioConsumed
  HandOverAnswered
CHECK_DEADLOCK FALSE
