CONSTANTS
  Packages <- MCPackages
  Length <- MCLength
  Word = 2
  Inc = 3
  Limit = 9
  Wrong = {0, 3}
  Uses <- Streaming
SPECIFICATION Spec
INVARIANTS Intact
CHECK_DEADLOCK FALSE
