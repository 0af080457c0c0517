SPECIFICATION Spec
CONSTANTS
  MaxTokens = 6
  MaxFaults = 1
INVARIANTS
  DeltasAddUp
  ExhaustNeverArchived
  OperatorAsked
  TicketsRedeem
CHECK_DEADLOCK FALSE
