SPECIFICATION Spec
CONSTANTS
  Clients = {p1, p2}
  Sessions = {s1}
  Directories = {d1}
  UserPath = user
  Paths <- VaultPaths
  Provision = FALSE
  HistoryRequired = TRUE
  MaxAttempts = 2
  MaxFaults = 1
  MaxOverlaps = 1
  MaxRevision = 2
  Contents = {text1, text2}
  MaxMemory = 3
  MaxNews = 4
SYMMETRY VaultSymmetry
INVARIANTS
  DeliveredIsCorrelated
  DeliveredIsPreserved
  UnchangedIsMirrored
CHECK_DEADLOCK FALSE
