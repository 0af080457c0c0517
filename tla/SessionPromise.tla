---------------------------- MODULE SessionPromise ----------------------------
(***************************************************************************)
(* What the archival pipeline promises for each session, without rows,      *)
(* claims, workers or files: evidence of the transcript is reported, the    *)
(* recorded archive advances, and the pipeline may say that the archive is  *)
(* complete.  Once said, that is taken back only by new evidence.           *)
(* ArchiveWorker implements this module (ImplementsPromise).                *)
(***************************************************************************)
EXTENDS Naturals

CONSTANT Sessions

VARIABLES
  evidence,   \* transcript version at the last evidence recorded
  doc,        \* the archive recorded: [rev, ver, kind]
  said        \* the session is said to be archived

promiseVars == <<evidence, doc, said>>

Blank == [rev |-> 0, ver |-> 0, kind |-> "none"]

Init ==
  /\ evidence = [s \in Sessions |-> 0]
  /\ doc = [s \in Sessions |-> Blank]
  /\ said = [s \in Sessions |-> FALSE]

\* new may take the place of old: one revision on, or the same revision over
\* more of the transcript; a summary is never replaced by a placeholder.
Supersedes(new, old) ==
  /\ new.rev \in {old.rev, old.rev + 1} /\ new.ver >= old.ver
  /\ old.kind = "real" => new.kind = "real"
  /\ new.rev = old.rev => new.kind = old.kind

\* New evidence withdraws what was said of the session and touches no archive.
Report(s) ==
  /\ evidence'[s] >= evidence[s]
  /\ evidence' = [evidence EXCEPT ![s] = evidence'[s]]
  /\ said' = [said EXCEPT ![s] = FALSE]
  /\ UNCHANGED doc

\* The archive advances; it may be said complete only over all the evidence,
\* as a real summary, and what was said before stays said.
Record(s) ==
  /\ Supersedes(doc'[s], doc[s])
  /\ doc' = [doc EXCEPT ![s] = doc'[s]]
  /\ said[s] => said'[s]
  /\ said'[s] => doc'[s].ver >= evidence[s] /\ doc'[s].kind = "real"
  /\ said' = [said EXCEPT ![s] = said'[s]]
  /\ UNCHANGED evidence

Next == \E s \in Sessions : Report(s) \/ Record(s)

Spec == Init /\ [][Next]_promiseVars
=============================================================================
