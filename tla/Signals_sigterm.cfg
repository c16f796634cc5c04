SPECIFICATION SignalsSpec
CONSTANTS
  Times = 3
  Shots = 3
  MaxLines = 2
PROPERTY SigtermQuits
CHECK_DEADLOCK FALSE
