----------------------------- MODULE SessionRow -----------------------------
(***************************************************************************)
(* One row of the `sessions` table (crates/munshi/src/state.rs) and the     *)
(* effect each SQL statement that archives a session has on it.  No state   *)
(* here: a row is a record, a statement an operator from row to row, so     *)
(* the modules that schedule the statements stay short and each statement   *)
(* has its own typing lemma.                                                *)
(*                                                                          *)
(* What a column keeps of its data:                                         *)
(*   life       lifecycle_state; "absent" is a missing row, and             *)
(*              "summary-pending" stands for `interrupted` too, which every *)
(*              guard modelled here treats alike                            *)
(*   active, gen, retryState, err, path      the column itself              *)
(*   doc        current_summary_revision, the cursor and the Markdown hash: *)
(*              the document the row records                                *)
(*   nextRetry  next_retry_at_ms: "now" is NULL or due, "later" a backoff   *)
(*              still running, "parked" the -1 of a permanent park          *)
(*   streak, streakCat, streakGen            failure_streak and its key     *)
(*   token      claim_token, as the id of the attempt that owns it, 0 NULL  *)
(*   resv       worker_spawned_at_ms: "none", "fresh" or "stale"            *)
(*   ended      last_session_end_ms IS NOT NULL                             *)
(*   stopNewer  last_agent_stop_ms is set and later than last_session_end_ms*)
(*   lost       transcript_lost_at_ms IS NOT NULL                           *)
(***************************************************************************)
EXTENDS Naturals

CONSTANT ParkThreshold      \* RETRY_PARK_THRESHOLD

ASSUME ParkThresholdAssumption == ParkThreshold \in Nat \ {0}

None == "none"

Pending == {"summary-pending", "revision-pending"}
Lives == Pending \cup {"absent", "observed", "processing", "failed", "archived"}

\* worker_error_code and worker_error_retryable, the classes told apart here.
Retryable == {"summary-failed", "summary-input-limit", "source-changed",
              "archive-git-busy", "io-failed", "transcript-unresolved"}
Permanent == {"source-oversized", "source-missing", "source-not-archive-worthy",
              "archive-write-failed", "archive-git-failed"}
Failures == Retryable \cup Permanent
Labels == {None, "transcript-unresolved", "worker-interrupted", "deferred"}

\* A rendered revision: its number, the transcript version it covers and
\* whether its summary is the summarizer's or the placeholder of issue #43.
Documents == [rev : Nat, ver : Nat, kind : {None, "real", "placeholder"}]
NoDocument == [rev |-> 0, ver |-> 0, kind |-> None]

\* An open row of processing_attempts (outcome='processing').
\* live: its lease still runs; plan, git: the stored plan, NoDocument before.
Attempts == [id : Nat \ {0}, gen : Nat, retryState : Pending, live : BOOLEAN,
             plan : Documents, git : BOOLEAN]

Rows == [life : Lives, active : BOOLEAN, gen : Nat, doc : Documents,
         retryState : Pending \cup {None}, nextRetry : {"now", "later", "parked"},
         streak : Nat, streakCat : Failures \cup {None}, streakGen : Nat,
         err : Failures \cup Labels, token : Nat, resv : {None, "fresh", "stale"},
         path : BOOLEAN, ended : BOOLEAN, stopNewer : BOOLEAN, lost : BOOLEAN]

NoRow == [life |-> "absent", active |-> FALSE, gen |-> 0, doc |-> NoDocument,
          retryState |-> None, nextRetry |-> "now", streak |-> 0,
          streakCat |-> None, streakGen |-> 0, err |-> None, token |-> 0,
          resv |-> None, path |-> FALSE, ended |-> FALSE, stopNewer |-> FALSE,
          lost |-> FALSE]

Parked(r) == r.life = "failed" /\ r.nextRetry = "parked"

-----------------------------------------------------------------------------
(* Evidence: hooks and the recovery sweep.                                  *)

\* The lifecycle new evidence moves a row to: a claimed row keeps its claim.
EvidenceLife(r, unarchived) ==
  IF r.life = "processing" THEN "processing"
  ELSE IF r.doc.rev > 0 THEN "revision-pending" ELSE unarchived

\* ingest_agent_stop; newer: its timestamp is past the recorded session end.
AgentStopRow(r, newer) ==
  [r EXCEPT !.life = EvidenceLife(r, "observed"), !.active = TRUE,
            !.gen = @ + 1, !.path = TRUE,
            !.stopNewer = @ \/ newer \/ ~r.ended]

\* ingest_session_end; resolved: the hook or the fallback names a transcript;
\* newest: its timestamp is past every stop recorded so far.
SessionEndRow(r, resolved, newest) ==
  [r EXCEPT !.life = EvidenceLife(r, "summary-pending"), !.active = FALSE,
            !.gen = @ + 1, !.path = @ \/ resolved,
            !.retryState = None, !.nextRetry = "now",
            !.err = IF r.path \/ resolved THEN None ELSE "transcript-unresolved",
            !.ended = TRUE, !.stopNewer = @ /\ ~newest]

\* mark_recovery_interrupted (a quiet known session, or a discovered one).
MarkInterruptedRow(r) ==
  [r EXCEPT !.life = EvidenceLife(r, "summary-pending"), !.active = FALSE,
            !.gen = @ + 1, !.path = TRUE, !.err = None]

\* attach_recovered_transcript
AttachRow(r) ==
  [r EXCEPT !.life = EvidenceLife(r, "summary-pending"), !.gen = @ + 1,
            !.path = TRUE, !.err = None]

\* rescue_observed_session: the shape it re-checks, and the requeue.
StuckObserved(r) == r.life = "observed" /\ ~r.active /\ ~r.ended /\ r.path
RescueRow(r) ==
  [r EXCEPT !.life = EvidenceLife(r, "summary-pending"), !.gen = @ + 1,
            !.err = None, !.stopNewer = TRUE]

-----------------------------------------------------------------------------
(* Reservations, parks and claims.                                          *)

\* Mutants: a stale reservation still blocks; a claim is never taken over.
ReservableOnceOnly(r, expired, force) ==
  /\ ~r.active /\ r.path /\ r.resv = None
  /\ r.life \in Pending \cup {"failed", "processing"}
  /\ r.life = "processing" => expired
  /\ r.life = "failed" => force \/ r.nextRetry = "now"
ReservableUnclaimed(r, expired, force) ==
  /\ ~r.active /\ r.path /\ r.resv # "fresh"
  /\ r.life \in Pending \cup {"failed"}
  /\ r.life = "failed" => force \/ r.nextRetry = "now"

\* reserve_worker_in_transaction; expired: some open attempt's lease ran out.
Reservable(r, expired, force) ==
  /\ ~r.active /\ r.path /\ r.resv # "fresh"
  /\ r.life \in Pending \cup {"failed", "processing"}
  /\ r.life = "processing" => expired
  /\ r.life = "failed" => force \/ r.nextRetry = "now"

ReserveRow(r) == [r EXCEPT !.resv = "fresh"]
ClearReservationRow(r) == [r EXCEPT !.resv = None]

ResetStreak(r) == [r EXCEPT !.streak = 0, !.streakCat = None, !.streakGen = 0]
Unpark(r) == [ResetStreak(r) EXCEPT !.nextRetry = "now"]

\* lift_failure_park, lift_source_limit_park, and reserve_worker's force.
LiftFailurePark(r) ==
  IF Parked(r) /\ r.streak >= ParkThreshold THEN Unpark(r) ELSE r
LiftSourceLimitPark(r) ==
  IF Parked(r) /\ r.err = "source-oversized" THEN Unpark(r) ELSE r
ForceLift(r) == IF r.life = "failed" THEN Unpark(r) ELSE r

\* settle_transcript_lost: the operator's verdict on a session that was read
\* and whose transcript is gone; and its lift when the transcript is back.  The
\* lift looks at the verdict and the claim, whatever the row has become since.
LosableRow(r) ==
  Parked(r) /\ r.token = 0 /\ r.err = "source-missing" /\ r.doc.rev > 0
SettleLostRow(r) ==
  IF LosableRow(r)
  THEN [Unpark(r) EXCEPT !.life = "observed", !.lost = TRUE, !.retryState = None,
                         !.err = None]
  ELSE r
\* Mutant: the reappeared transcript is left to the stuck-session rescue.
LiftLostToObserved(r) ==
  IF r.lost /\ r.token = 0
  THEN [Unpark(r) EXCEPT !.life = "observed", !.lost = FALSE, !.retryState = None,
                         !.err = None]
  ELSE r
LiftLostRow(r) ==
  IF r.lost /\ r.token = 0
  THEN [Unpark(r) EXCEPT !.life = "failed", !.lost = FALSE, !.retryState = None,
                         !.err = None]
  ELSE r

\* claim_session: the refusal, and the pending state a failure returns to.
Claimable(r) ==
  /\ ~r.active /\ r.life \in Pending \cup {"failed"}
  /\ r.life = "failed" => r.nextRetry = "now"
ClaimRetryState(r) ==
  IF r.life # "failed" THEN r.life
  ELSE IF r.retryState # None THEN r.retryState
  ELSE IF r.doc.rev > 0 THEN "revision-pending" ELSE "summary-pending"
ClaimRow(r, id) ==
  [r EXCEPT !.life = "processing", !.retryState = ClaimRetryState(r),
            !.token = id, !.resv = None]

DeferRow(r) == [r EXCEPT !.err = "deferred"]      \* record_deferred

-----------------------------------------------------------------------------
(* The ends of an attempt.  a is the attempt the claim names; a statement   *)
(* whose WHERE names the claim token leaves another owner's row alone.      *)

Release(r) == [r EXCEPT !.token = 0, !.resv = None]

\* Mutants: the row's retry_state instead of the attempt's; the token stays.
AbandonToRowState(r, a, category) ==
  [Release(r) EXCEPT !.life = r.retryState, !.retryState = None,
                     !.nextRetry = "now", !.err = category]
AbandonKeepingToken(r, a, category) ==
  [r EXCEPT !.life = a.retryState, !.retryState = None, !.nextRetry = "now",
            !.err = category, !.resv = None]

\* abandon_processing: reads no token.
AbandonRow(r, a, category) ==
  [Release(r) EXCEPT !.life = a.retryState, !.retryState = None,
                     !.nextRetry = "now", !.err = category]

\* next_failure_streak
NextStreak(r, category, gen) ==
  IF r.streakCat = category /\ r.streakGen = gen THEN r.streak + 1 ELSE 1

ParkedRow(r, category, streak, gen) ==
  [r EXCEPT !.life = "failed", !.nextRetry = "parked", !.err = category,
            !.streak = streak, !.streakCat = category, !.streakGen = gen]

\* Mutant: the escalation parks one failure early.
FailParkingEarly(r, a, category) ==
  LET streak == NextStreak(r, category, a.gen)
      parks  == category \in Permanent \/ streak + 1 >= ParkThreshold
  IN  IF r.token # a.id THEN r
      ELSE [ParkedRow(Release(r), category, streak, a.gen) EXCEPT
              !.retryState = a.retryState,
              !.nextRetry = IF parks THEN "parked" ELSE "later"]

\* fail_attempt
FailRow(r, a, category) ==
  LET streak == NextStreak(r, category, a.gen)
      parks  == category \in Permanent \/ streak >= ParkThreshold
  IN  IF r.token # a.id THEN r
      ELSE [ParkedRow(Release(r), category, streak, a.gen) EXCEPT
              !.retryState = a.retryState,
              !.nextRetry = IF parks THEN "parked" ELSE "later"]

\* Mutant: the park without the lifecycle.
VerdictKeepingLife(r, a, category) ==
  [ParkedRow(r, category, ParkThreshold, a.gen) EXCEPT
     !.retryState = "revision-pending", !.life = r.life]

\* record_placeholder_verdict and complete_placeholder_attempt's park: at
\* least the threshold, whatever streak the failure had reached.
VerdictRow(r, a, category) ==
  [ParkedRow(r, category, ParkThreshold, a.gen) EXCEPT
     !.retryState = "revision-pending"]

\* A clean settlement, shared by the three completions below.
Settled(r, life) ==
  [ResetStreak(Release(r)) EXCEPT !.life = life, !.retryState = None,
                                  !.nextRetry = "now", !.err = None]

\* Mutant: evidence that arrived under the claim is forgotten.
CompleteForgetting(r, a, doc) == [Settled(r, "archived") EXCEPT !.doc = doc]

\* complete_attempt_inner
CompleteRow(r, a, doc) ==
  [Settled(r, IF r.gen = a.gen THEN "archived" ELSE "revision-pending")
     EXCEPT !.doc = doc]

\* complete_no_change
NoChangeRow(r, a) ==
  IF r.token # a.id THEN r
  ELSE Settled(r, IF r.doc.rev > 0
                  THEN IF r.gen = a.gen THEN "archived" ELSE "revision-pending"
                  ELSE IF r.gen = a.gen THEN "observed" ELSE "summary-pending")

\* complete_not_archive_worthy
NotWorthyRow(r, a) == IF r.token # a.id THEN r ELSE Settled(r, "observed")

\* import_archive_record, from hydrate_session_from_archives: file is newer.
ImportRow(r, file) ==
  LET imported == [r EXCEPT !.doc = file]
  IN  CASE r.life = "processing" -> imported
        [] r.life \in Pending \cup {"failed"} ->
             [imported EXCEPT !.life = "revision-pending"]
        [] OTHER ->
             IF file.kind = "placeholder"
             THEN [ParkedRow(imported, "summary-failed", ParkThreshold, r.gen)
                     EXCEPT !.retryState = "revision-pending"]
             ELSE [imported EXCEPT !.life = "archived"]
=============================================================================
