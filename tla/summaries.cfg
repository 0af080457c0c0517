SPECIFICATION ChunkedSpec
CONSTANTS
  Projects = {p1}
  Workers = {m1, m2}
  HourlyLimit = 5
  DailyLimit = 6
  MaxPerHour <- HourlyLimits
  MaxPerDay <- DailyLimits
  Hour = 1
  Day = 3
  PruneWindow = 4
  Skew = 1
  MaxClock = 1
  EventSizes = {1, 3}
  SummarySizes = {1, 2}
  PreviousSizes = {0, 1}
  MaxEvents = 3
  ChunkThreshold = 4
  ChunkSize = 3
  InputLimit = 4
SYMMETRY WorkerSymmetry
INVARIANTS
  EveryEventOnce
  CallsBounded
CHECK_DEADLOCK FALSE
