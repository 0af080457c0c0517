SPECIFICATION Spec
CONSTANTS
  Projects = {p1, p2}
  Workers = {m1, m2}
  HourlyLimit = 1
  DailyLimit = 2
  MaxPerHour <- HourlyLimits
  MaxPerDay <- DailyLimits
  Hour = 1
  Day = 3
  PruneWindow = 4
  Skew = 1
  MaxClock = 7
SYMMETRY BudgetSymmetry
INVARIANTS
  BudgetHolds
  PrunedAreOver
