SPECIFICATION Spec
CONSTANTS
  MaxPresses = 0
  MaxCreates = 1
PROPERTY ProducerUnblocked
CHECK_DEADLOCK FALSE
