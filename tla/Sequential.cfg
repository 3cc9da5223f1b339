SPECIFICATION SequentialSpec
CONSTANTS
  MaxDevices = 2
  Careful = TRUE
  Version = {"library", "unified"}
  Built = {"whisper", "parakeet", "sherpa"}
  Letters = {a, b}
  MaxLength = 3
  Full = 6
  Sentences = {0, 1}
  MaxTests = 3
INVARIANTS TypeOK ThreeShapes CallbackHasRing
INVARIANTS DestroyLeavesNothing TouchesOnlyWhatIsThere LosesNothing AnswersTruly CallbackKeepsItsRing
INVARIANTS DispatchesToOwner UsesWhatIsThere
INVARIANTS AccuracyIsEditDistance PercentilesAreNearestRank
PROPERTY ImplementsLifecycle
CHECK_DEADLOCK FALSE
