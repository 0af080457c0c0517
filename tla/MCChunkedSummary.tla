--------------------------- MODULE MCChunkedSummary ---------------------------
(* ChunkedSummary for TLC: interchangeable workers, all projects with the   *)
(* same limits.                                                             *)
EXTENDS ChunkedSummary

CONSTANTS HourlyLimit, DailyLimit

HourlyLimits == [p \in Projects |-> HourlyLimit]
DailyLimits == [p \in Projects |-> DailyLimit]

WorkerSymmetry == Permutations(Workers)
=============================================================================
