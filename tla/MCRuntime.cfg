CONSTANTS
  Team <- MCTeam
  Foreign <- MCForeign
  Setups <- MCSetups
  Tasks <- MCTasks
  Program <- MCProgram
  After <- MCAfter
  Room = 1
  Tries = 1
SPECIFICATION FairSpec
INVARIANTS RuntimeInv
PROPERTIES ImplementsParas
CHECK_DEADLOCK FALSE
