CONSTANTS
  Collections = {3}
  Limit = 2
  MaxGiven = 3
SPECIFICATION Spec
PROPERTIES Ends
CHECK_DEADLOCK FALSE
