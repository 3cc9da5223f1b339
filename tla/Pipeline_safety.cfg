SPECIFICATION Spec
CONSTANTS
  RingSize = 3
  InferenceBufferSize = 2
  ResampleCap = 1
  MaxBurst = 2
  MaxCaptured = 5
  MaxPresses = 2
INVARIANTS TypeOK RingWindows FrameAccounting NeverTranscribesNothing CaptureOrder TeardownSafe EachUtteranceHasItsAudio
PROPERTY ImplementsChannel
CHECK_DEADLOCK FALSE
