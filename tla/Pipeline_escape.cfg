SPECIFICATION Spec
CONSTANTS
  RingSize = 2
  InferenceBufferSize = 1
  ResampleCap = 2
  MaxBurst = 1
  MaxCaptured = 3
  MaxPresses = 2
PROPERTY EscapeStops
CHECK_DEADLOCK FALSE
