SPECIFICATION Spec
CONSTANTS
  Processes = {p1, p2}
  ClaudeHomes = {c1, c2}
  Projects = {j1}
  Legacy = {"job", "result"}
  None = None
  MaxCommands = 3
  MaxEdits = 1
  MaxCrashes = 1
INVARIANTS
  AcknowledgedSurvives
  OneClient
  HooksOnRecord
  OthersKept
  LegacyOnce
PROPERTIES
  ForeignKept
CHECK_DEADLOCK FALSE
