SPECIFICATION FairSpec
CONSTANTS
  Sessions = {s1}
  ParkThreshold = 2
  MaxConcurrency = 1
  GitHistory = FALSE
  WorthyFrom = 1
  MaxVersion = 2
  MaxGeneration = 3
  MaxRevision = 2
  MaxAttempts = 2
  MaxCrashes = 1
  Env = {"timeout", "unresolved", "spawn-fails", "lose", "return", "settle"}
PROPERTIES
  EvidenceIsServed
  ClaimIsReleased
CHECK_DEADLOCK FALSE
