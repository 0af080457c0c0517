SPECIFICATION Spec
CONSTANTS
  MaxAttempts = 2
  MaxRevision = 1
  MaxBody = 2
  MaxFaults = 1
INVARIANTS
  UploadedMarkdownIsHeld
CHECK_DEADLOCK FALSE
