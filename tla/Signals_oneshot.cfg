SPECIFICATION SignalsSpec
CONSTANTS
  Times = 3
  Shots = 3
  MaxLines = 2
INVARIANT SurvivesWhatItCatches
CHECK_DEADLOCK FALSE
