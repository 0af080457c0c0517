------------------------- MODULE MCSummarizerBudget -------------------------
(* SummarizerBudget for TLC: interchangeable workers and projects, all with *)
(* the same limits.                                                         *)
EXTENDS SummarizerBudget, TLC

CONSTANTS HourlyLimit, DailyLimit

HourlyLimits == [p \in Projects |-> HourlyLimit]
DailyLimits == [p \in Projects |-> DailyLimit]

BudgetSymmetry == Permutations(Workers) \cup Permutations(Projects)
=============================================================================
