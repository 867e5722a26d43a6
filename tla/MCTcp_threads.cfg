CONSTANTS
  Packages <- MCPackages
  Length <- MCLength
  Word = 2
  Inc = 3
  Limit = 9
  Wrong = {0, 3}
  Uses <- Threading
SPECIFICATION Spec
INVARIANTS Attended
CHECK_DEADLOCK FALSE
