SPECIFICATION LocalSpec
CONSTANTS
  Counters = 3
  Loops = 2
  Items = 3
  Readers = 2
  Writers = 2
  Times = 3
  Shots = 3
  MaxLines = 2
  MaxOutput = 3
  PipeSize = 2
  Size = 5
  IntMax = 19
  LongMax = 255
INVARIANTS
  EveryIncrementCounts ReadStaysTrue NothingTakenTwice
  WcCountsAll
  ReverseReverses TrimTrims ParsesExactly
PROPERTIES
  ThreadsEnd ParentFinishes QuitsAtNextInput ProcessesEnd
CHECK_DEADLOCK FALSE
