SPECIFICATION Spec
CONSTANTS
  MaxDevices = 1
  Careful = TRUE
INVARIANT IndicesValid
