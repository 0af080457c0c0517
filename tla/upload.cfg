SPECIFICATION FairSpec
CONSTANTS
  MaxAttempts = 2
  MaxRevision = 2
  MaxBody = 3
  MaxFaults = 2
INVARIANTS
  UploadedRevisionIsHeld
  NoDuplicateCapture
PROPERTIES
  RearchiveIsExact
  LiveSnapshotKept
  UploadSettles
CHECK_DEADLOCK FALSE
