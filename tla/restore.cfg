SPECIFICATION Spec
CONSTANTS
  MaxRevision = 3
  FirstUploads = {1}
  MaxRuns = 1
  MaxFaults = 1
INVARIANTS
  RestoredIsArchived
  RerunIsFree
PROPERTIES
  CleanExitIsWhole
  HarnessKept
  LiveTranscriptKept
CHECK_DEADLOCK FALSE
