SPECIFICATION IpcSpec
CONSTANTS
  d1 = d1
  d2 = d2
  d3 = d3
  w1 = w1
  w2 = w2
  p1 = p1
  p2 = p2
  c1 = c1
  c2 = c2
  MaxStarts = 3
  Dispatcher = {d1, d2, d3}
  Worker = {w1, w2}
  Priority = {1, 2}
  MaxMessages = 2
  MaxWorkerRuns = 2
  Producer = {p1, p2}
  Consumer = {c1, c2}
  Field = {"id", "price"}
  Room = 2
INVARIANTS
  StartsAgain
  NameLostUnread
  NobodyHangs
PROPERTIES
  ClientEndsUnlessLost SentIsProcessed DispatcherReturns PrintsWhatWasWritten TasksSpec
  SendAlwaysReturns BlockedTogether ExitIsSeen
CHECK_DEADLOCK FALSE
