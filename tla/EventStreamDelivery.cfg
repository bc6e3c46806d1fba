SPECIFICATION FairSpec
CONSTANTS
  w1 = w1  w2 = w2  s1 = s1
  Workers = {w1, w2}
  Closer = closer
  Streams = {s1}
  Capacity = 1
  MaxEvents = 3
  MaxRuns = 2
  MaxConnects = 2
INVARIANTS
  ReplayHeals
  NoSilentLoss
  EndsWithTerminal
PROPERTIES
  EventuallyDelivered
CHECK_DEADLOCK FALSE
