--------------------------- MODULE MCArchiveWorker ---------------------------
(* ArchiveWorker for TLC: the sessions are interchangeable. *)
EXTENDS ArchiveWorker, TLC

SessionSymmetry == Permutations(Sessions)
=============================================================================
