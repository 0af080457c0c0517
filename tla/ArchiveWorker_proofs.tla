------------------------ MODULE ArchiveWorker_proofs ------------------------
(***************************************************************************)
(* For every set of sessions, every bound and every subset of the external  *)
(* outcomes: the variables keep their types, a claim is exclusive, and the  *)
(* Markdown on disk is always accounted for.                                *)
(*                                                                          *)
(* The argument separates the actions that run under no lock (hooks, time,  *)
(* sweeps, retries), which keep every claim and every document, from those  *)
(* of the worker that holds the session lock, which touch one session.      *)
(***************************************************************************)
EXTENDS ArchiveWorker, FiniteSetTheorems, TLAPS

-----------------------------------------------------------------------------
(* What each SQL statement of SessionRow keeps of the row it updates.        *)

\* A statement outside a claim: it may not touch the claim token nor the
\* recorded document, and it may not put a row into processing.
KeepsClaim(r, q) ==
  /\ q \in Rows
  /\ q.token = r.token /\ q.doc = r.doc
  /\ q.life = "processing" => r.life = "processing"

\* A statement that ends a claim: the token goes, the document stays.
EndsClaim(r, q) ==
  /\ q \in Rows
  /\ q.token = 0 /\ q.doc = r.doc
  /\ q.life # "processing"

\* The hooks and the sweep never touch a claim.
LEMMA EvidenceKeeps ==
  ASSUME NEW r \in Rows, NEW b \in BOOLEAN, NEW c \in BOOLEAN
  PROVE  /\ KeepsClaim(r, AgentStopRow(r, b))
         /\ KeepsClaim(r, SessionEndRow(r, b, c))
         /\ KeepsClaim(r, MarkInterruptedRow(r))
         /\ KeepsClaim(r, AttachRow(r))
         /\ KeepsClaim(r, RescueRow(r))
<1>0. {None, "transcript-unresolved"} \subseteq Labels
  BY DEF Labels
<1>1. /\ r.gen + 1 \in Nat /\ (r.stopNewer \/ b \/ ~r.ended) \in BOOLEAN
      /\ (r.path \/ b) \in BOOLEAN /\ (r.stopNewer /\ ~c) \in BOOLEAN
      /\ \A life \in {"observed", "summary-pending"} :
           /\ EvidenceLife(r, life) \in Lives
           /\ EvidenceLife(r, life) = "processing" => r.life = "processing"
  BY <1>0 DEF EvidenceLife, Lives, Pending, Rows
<1>3. KeepsClaim(r, AgentStopRow(r, b))
  <2> DEFINE q(life, gen, newer) == 
       [r EXCEPT !.life = life, !.active = TRUE, !.gen = gen, !.path = TRUE,
                 !.stopNewer = newer]
  <2>1. ASSUME NEW life \in Lives, NEW gen \in Nat,
               NEW newer \in BOOLEAN
        PROVE  q(life, gen, newer) \in Rows /\ q(life, gen, newer).token = r.token
               /\ q(life, gen, newer).doc = r.doc /\ q(life, gen, newer).life = life
    BY <1>0 DEF Rows
  <2>0. PICK newer \in BOOLEAN : newer = (r.stopNewer \/ b \/ ~r.ended)
    BY <1>1
  <2>2. AgentStopRow(r, b) = q(EvidenceLife(r, "observed"), r.gen + 1, newer)
    BY <2>0 DEF AgentStopRow
  <2> HIDE DEF q
  <2> QED  BY <1>1, <2>1, <2>2 DEF KeepsClaim
<1>4. KeepsClaim(r, SessionEndRow(r, b, c))
  <2> DEFINE q(life, gen, path, err, newer) == 
       [r EXCEPT !.life = life, !.active = FALSE, !.gen = gen, !.path = path,
                 !.retryState = None, !.nextRetry = "now", !.err = err,
                 !.ended = TRUE, !.stopNewer = newer]
  <2>1. ASSUME NEW life \in Lives, NEW gen \in Nat,
               NEW path \in BOOLEAN, NEW err \in Labels, NEW newer \in BOOLEAN
        PROVE  q(life, gen, path, err, newer) \in Rows /\ q(life, gen, path, err, newer).token = r.token
               /\ q(life, gen, path, err, newer).doc = r.doc /\ q(life, gen, path, err, newer).life = life
    BY ZenonT(100), <1>0 DEF Rows
  <2>0. PICK path \in BOOLEAN, newer \in BOOLEAN :
          path = (r.path \/ b) /\ newer = (r.stopNewer /\ ~c)
    BY <1>1
  <2>2. SessionEndRow(r, b, c) =
          q(EvidenceLife(r, "summary-pending"), r.gen + 1, path,
            IF path THEN None ELSE "transcript-unresolved", newer)
    BY <2>0 DEF SessionEndRow
  <2>3. (IF path THEN None ELSE "transcript-unresolved") \in Labels
    BY <1>0
  <2> HIDE DEF q
  <2> QED  BY <1>1, <2>1, <2>2, <2>3 DEF KeepsClaim
<1>5. KeepsClaim(r, MarkInterruptedRow(r))
  <2> DEFINE q(life, gen) == 
       [r EXCEPT !.life = life, !.active = FALSE, !.gen = gen, !.path = TRUE,
                 !.err = None]
  <2>1. ASSUME NEW life \in Lives, NEW gen \in Nat
        PROVE  q(life, gen) \in Rows /\ q(life, gen).token = r.token
               /\ q(life, gen).doc = r.doc /\ q(life, gen).life = life
    BY <1>0 DEF Rows
  <2>2. MarkInterruptedRow(r) = q(EvidenceLife(r, "summary-pending"), r.gen + 1)
    BY DEF MarkInterruptedRow
  <2> HIDE DEF q
  <2> QED  BY <1>1, <2>1, <2>2 DEF KeepsClaim
<1>6. KeepsClaim(r, AttachRow(r))
  <2> DEFINE q(life, gen) == 
       [r EXCEPT !.life = life, !.gen = gen, !.path = TRUE, !.err = None]
  <2>1. ASSUME NEW life \in Lives, NEW gen \in Nat
        PROVE  q(life, gen) \in Rows /\ q(life, gen).token = r.token
               /\ q(life, gen).doc = r.doc /\ q(life, gen).life = life
    BY <1>0 DEF Rows
  <2>2. AttachRow(r) = q(EvidenceLife(r, "summary-pending"), r.gen + 1)
    BY DEF AttachRow
  <2> HIDE DEF q
  <2> QED  BY <1>1, <2>1, <2>2 DEF KeepsClaim
<1>7. KeepsClaim(r, RescueRow(r))
  <2> DEFINE q(life, gen) == 
       [r EXCEPT !.life = life, !.gen = gen, !.err = None, !.stopNewer = TRUE]
  <2>1. ASSUME NEW life \in Lives, NEW gen \in Nat
        PROVE  q(life, gen) \in Rows /\ q(life, gen).token = r.token
               /\ q(life, gen).doc = r.doc /\ q(life, gen).life = life
    BY <1>0 DEF Rows
  <2>2. RescueRow(r) = q(EvidenceLife(r, "summary-pending"), r.gen + 1)
    BY DEF RescueRow
  <2> HIDE DEF q
  <2> QED  BY <1>1, <2>1, <2>2 DEF KeepsClaim
<1> QED  BY <1>3, <1>4, <1>5, <1>6, <1>7

\* Nor do reservations, deferrals and the lifts of a park.
LEMMA ReservationKeeps ==
  ASSUME NEW r \in Rows
  PROVE  /\ KeepsClaim(r, r)
         /\ KeepsClaim(r, ReserveRow(r))
         /\ KeepsClaim(r, ClearReservationRow(r))
         /\ KeepsClaim(r, LiftFailurePark(r))
         /\ KeepsClaim(r, LiftSourceLimitPark(r))
         /\ KeepsClaim(r, ForceLift(r))
         /\ KeepsClaim(r, SettleLostRow(r))
         /\ KeepsClaim(r, LiftLostRow(r))
         /\ KeepsClaim(r, DeferRow(r))
<1>1. KeepsClaim(r, Unpark(r))
  BY DEF KeepsClaim, Unpark, ResetStreak, Rows
<1>2. KeepsClaim(r, r)
  BY DEF KeepsClaim
<1>3. KeepsClaim(r, ReserveRow(r)) /\ KeepsClaim(r, ClearReservationRow(r))
  BY DEF KeepsClaim, ReserveRow, ClearReservationRow, Rows
<1>4. KeepsClaim(r, DeferRow(r))
  BY DEF KeepsClaim, DeferRow, Rows, Labels
<1>5. ASSUME NEW life \in {"observed", "failed"}, NEW lost \in BOOLEAN
      PROVE  KeepsClaim(r, [Unpark(r) EXCEPT !.life = life, !.lost = lost,
                                             !.retryState = None, !.err = None])
  <2> DEFINE q == [r EXCEPT !.streak = 0, !.streakCat = None, !.streakGen = 0,
                            !.nextRetry = "now", !.life = life, !.lost = lost,
                            !.retryState = None, !.err = None]
  <2>1. q = [Unpark(r) EXCEPT !.life = life, !.lost = lost,
                              !.retryState = None, !.err = None]
    BY DEF Unpark, ResetStreak, Rows
  <2>2. q \in Rows /\ q.token = r.token /\ q.doc = r.doc /\ q.life # "processing"
    BY DEF Rows, Lives, Labels
  <2> HIDE DEF q
  <2> QED  BY <2>1, <2>2 DEF KeepsClaim
<1>6. KeepsClaim(r, SettleLostRow(r)) /\ KeepsClaim(r, LiftLostRow(r))
  BY <1>2, <1>5 DEF SettleLostRow, LiftLostRow
<1> QED
  BY <1>1, <1>2, <1>3, <1>4, <1>6 DEF LiftFailurePark, LiftSourceLimitPark, ForceLift

\* What keeps a claim in two steps keeps it in one.
LEMMA KeepsTwice ==
  ASSUME NEW r, NEW q, NEW p, KeepsClaim(r, q), KeepsClaim(q, p)
  PROVE  KeepsClaim(r, p)
BY DEF KeepsClaim

\* A verdict parks the row under its claim.
LEMMA VerdictKeeps ==
  ASSUME NEW r \in Rows, NEW a \in Attempts, NEW category \in Failures \cup {None}
  PROVE  /\ KeepsClaim(r, VerdictRow(r, a, category))
         /\ VerdictRow(r, a, category).life # "processing"
<1>1. ParkThreshold \in Nat /\ a.gen \in Nat /\ category \in Failures \cup Labels
  BY ParkThresholdAssumption DEF Attempts, Labels
<1> QED
  BY ZenonT(100), <1>1 DEF KeepsClaim, VerdictRow, ParkedRow, Rows, Lives, Pending

\* Claiming a row names its attempt and puts it into processing.
LEMMA ClaimTypes ==
  ASSUME NEW r \in Rows, NEW id \in Nat, Claimable(r)
  PROVE  /\ ClaimRow(r, id) \in Rows
         /\ ClaimRow(r, id).token = id /\ ClaimRow(r, id).doc = r.doc
         /\ ClaimRetryState(r) \in Pending
<1>1. ClaimRetryState(r) \in Pending
  BY DEF ClaimRetryState, Claimable, Rows, Lives, Pending
<1> QED  BY <1>1 DEF ClaimRow, Rows, Lives

\* Every settlement without a document ends the claim it names.
LEMMA SettlementEnds ==
  ASSUME NEW r \in Rows, NEW a \in Attempts, r.token = a.id,
         NEW category \in Failures \cup {None}
  PROVE  /\ EndsClaim(r, FailRow(r, a, category))
         /\ EndsClaim(r, NoChangeRow(r, a))
         /\ EndsClaim(r, NotWorthyRow(r, a))
<1>1. /\ NextStreak(r, category, a.gen) \in Nat
      /\ a.gen \in Nat /\ a.retryState \in Pending
      /\ category \in Failures \cup Labels
  BY DEF NextStreak, Rows, Attempts, Labels
<1>2. EndsClaim(r, FailRow(r, a, category))
  <2> DEFINE q(streak, when) ==
        [r EXCEPT !.token = 0, !.resv = None, !.life = "failed",
                  !.nextRetry = when, !.err = category, !.streak = streak,
                  !.streakCat = category, !.streakGen = a.gen,
                  !.retryState = a.retryState]
  <2>1. ASSUME NEW streak \in Nat, NEW when \in {"later", "parked"}
        PROVE  EndsClaim(r, q(streak, when))
    BY ZenonT(100), <1>1 DEF EndsClaim, Rows, Lives, Pending
  <2>2. \E when \in {"later", "parked"} :
          FailRow(r, a, category) = q(NextStreak(r, category, a.gen), when)
    BY <1>1 DEF FailRow, ParkedRow, Release
  <2> HIDE DEF q
  <2> QED  BY <1>1, <2>1, <2>2
<1>3. ASSUME NEW life \in Lives \ {"processing"}
      PROVE  EndsClaim(r, Settled(r, life))
  BY DEF EndsClaim, Settled, ResetStreak, Release, Rows, Labels
<1>4. EndsClaim(r, NoChangeRow(r, a))
  BY <1>3 DEF NoChangeRow, Lives, Pending
<1>5. EndsClaim(r, NotWorthyRow(r, a))
  BY <1>3 DEF NotWorthyRow, Lives, Pending
<1> QED  BY <1>2, <1>4, <1>5

\* Abandoning does so whichever attempt the row names.
LEMMA AbandonEnds ==
  ASSUME NEW r \in Rows, NEW a \in Attempts,
         NEW category \in Labels
  PROVE  EndsClaim(r, AbandonRow(r, a, category))
<1>1. a.retryState \in Pending
  BY DEF Attempts
<1> QED
  BY <1>1 DEF EndsClaim, AbandonRow, Release, Rows, Lives, Pending

\* A completion ends the claim and records the document.
LEMMA CompleteEnds ==
  ASSUME NEW r \in Rows, NEW a \in Attempts, NEW doc \in Documents
  PROVE  EndsClaim([r EXCEPT !.doc = doc], CompleteRow(r, a, doc))
<1> DEFINE q(life) ==
      [r EXCEPT !.token = 0, !.resv = None, !.streak = 0, !.streakCat = None,
                !.streakGen = 0, !.life = life, !.retryState = None,
                !.nextRetry = "now", !.err = None, !.doc = doc]
<1>1. ASSUME NEW life \in {"archived", "revision-pending"}
      PROVE  /\ EndsClaim([r EXCEPT !.doc = doc], q(life))
             /\ [Settled(r, life) EXCEPT !.doc = doc] = q(life)
  <2>1. EndsClaim([r EXCEPT !.doc = doc], q(life))
    BY ZenonT(100) DEF EndsClaim, Rows, Labels, Lives, Pending
  <2>2. [Settled(r, life) EXCEPT !.doc = doc] = q(life)
    BY DEF Settled, ResetStreak, Release, Rows
  <2> QED  BY <2>1, <2>2
<1> HIDE DEF q
<1> QED  BY <1>1 DEF CompleteRow

\* An import records the file and leaves the claim alone.
LEMMA ImportKeeps ==
  ASSUME NEW r \in Rows, NEW found \in Documents
  PROVE  KeepsClaim([r EXCEPT !.doc = found], ImportRow(r, found))
<1>1. ParkThreshold \in Nat /\ "summary-failed" \in Failures
  BY ParkThresholdAssumption DEF Failures, Retryable
<1> DEFINE q == [r EXCEPT !.doc = found]
<1>2. q \in Rows /\ q.life = r.life
  BY DEF Rows
<1>3. ImportRow(r, found) \in
        {q, [q EXCEPT !.life = "revision-pending"], [q EXCEPT !.life = "archived"],
         [ParkedRow(q, "summary-failed", ParkThreshold, r.gen) EXCEPT
            !.retryState = "revision-pending"]}
  BY DEF ImportRow
<1>4. KeepsClaim(q, q) /\ r.gen \in Nat
  BY <1>2 DEF KeepsClaim, Rows
<1> HIDE DEF q
<1>5. /\ KeepsClaim(q, [q EXCEPT !.life = "revision-pending"])
      /\ KeepsClaim(q, [q EXCEPT !.life = "archived"])
  BY <1>2 DEF KeepsClaim, Rows, Lives, Pending
<1>6. KeepsClaim(q, [ParkedRow(q, "summary-failed", ParkThreshold, r.gen) EXCEPT
                       !.retryState = "revision-pending"])
  BY ZenonT(100), <1>1, <1>2, <1>4 DEF KeepsClaim, ParkedRow, Rows, Lives, Pending
<1>7. KeepsClaim(q, ImportRow(r, found))
  BY <1>3, <1>4, <1>5, <1>6
<1> QED  BY <1>7 DEF q
-----------------------------------------------------------------------------
(* What a statement says of the archive, beside the claim.                  *)

\* A failed row is parked exactly when its failure is final.
ParkEarned(r) ==
  LET final == r.streakCat \in Permanent \/ r.streak >= ParkThreshold
  IN  r.life = "failed" =>
        /\ r.nextRetry = "parked" => final
        /\ r.nextRetry = "later" => ~final

\* New evidence: a generation more, and nothing is said to be archived.
Reports(r, q) ==
  /\ q.gen = r.gen + 1
  /\ q.life # "archived"
  /\ r.life = "processing" /\ r.token # 0 => q.life = "processing"
  /\ ParkEarned(q)

\* No evidence: a claimed row stays in processing, none becomes archived, an
\* archived one stays so unless it had been given up for lost, and a park stays
\* earned.
Idles(r, q) ==
  /\ q.gen = r.gen
  /\ r.life = "processing" /\ r.token # 0 => q.life = "processing"
  /\ q.life = "archived" => r.life = "archived"
  /\ r.life = "archived" /\ ~r.lost => q.life = "archived" /\ ~q.lost
  /\ ParkEarned(r) => ParkEarned(q)

\* What a statement sets of the columns that matter to these.
LEMMA EvidenceReports ==
  ASSUME NEW r \in Rows, NEW b \in BOOLEAN, NEW c \in BOOLEAN
  PROVE  /\ Reports(r, AgentStopRow(r, b))
         /\ Reports(r, SessionEndRow(r, b, c))
         /\ Reports(r, MarkInterruptedRow(r))
         /\ Reports(r, AttachRow(r))
         /\ Reports(r, RescueRow(r))
<1>1. ASSUME NEW life \in {"observed", "summary-pending"}
      PROVE  /\ EvidenceLife(r, life) \notin {"archived", "failed"}
             /\ r.life = "processing" => EvidenceLife(r, life) = "processing"
  BY DEF EvidenceLife
<1>2. Reports(r, AgentStopRow(r, b))
  BY <1>1 DEF Reports, ParkEarned, AgentStopRow, Rows
<1>3. Reports(r, SessionEndRow(r, b, c))
  BY <1>1 DEF Reports, ParkEarned, SessionEndRow, Rows
<1>4. /\ Reports(r, MarkInterruptedRow(r))
      /\ Reports(r, AttachRow(r))
      /\ Reports(r, RescueRow(r))
  BY <1>1 DEF Reports, ParkEarned, MarkInterruptedRow, AttachRow, RescueRow, Rows
<1> QED  BY <1>2, <1>3, <1>4

\* Reservations, deferrals, lifts and verdicts of loss are no evidence.
LEMMA ReservationIdles ==
  ASSUME NEW r \in Rows
  PROVE  /\ Idles(r, r)
         /\ Idles(r, ReserveRow(r))
         /\ Idles(r, ClearReservationRow(r))
         /\ Idles(r, LiftFailurePark(r))
         /\ Idles(r, LiftSourceLimitPark(r))
         /\ Idles(r, ForceLift(r))
         /\ Idles(r, SettleLostRow(r))
         /\ Idles(r, LiftLostRow(r))
         /\ Idles(r, DeferRow(r))
<1>1. Idles(r, r)
  BY DEF Idles
<1>2. /\ Idles(r, ReserveRow(r))
      /\ Idles(r, ClearReservationRow(r))
      /\ Idles(r, DeferRow(r))
  BY DEF Idles, ParkEarned, ReserveRow, ClearReservationRow, DeferRow, Rows
<1>3. /\ Unpark(r).gen = r.gen /\ Unpark(r).life = r.life /\ Unpark(r).nextRetry = "now"
      /\ Unpark(r).lost = r.lost
  BY DEF Unpark, ResetStreak, Rows
<1>4. Idles(r, Unpark(r))
  BY <1>3 DEF Idles, ParkEarned
<1>5. ASSUME NEW life \in {"observed", "failed"}, NEW lost \in BOOLEAN,
             r.life = "processing" => r.token = 0, r.life = "archived" => r.lost
      PROVE  Idles(r, [Unpark(r) EXCEPT !.life = life, !.lost = lost,
                                        !.retryState = None, !.err = None])
  <2> DEFINE q == [Unpark(r) EXCEPT !.life = life, !.lost = lost,
                                    !.retryState = None, !.err = None]
  <2>1. q.gen = r.gen /\ q.nextRetry = "now" /\ q.life = life
    BY DEF Unpark, ResetStreak, Rows
  <2> HIDE DEF q
  <2>2. Idles(r, q)
    BY <1>5, <2>1 DEF Idles, ParkEarned
  <2> QED  BY <2>2 DEF q
<1>6. Idles(r, SettleLostRow(r)) /\ Idles(r, LiftLostRow(r))
  BY <1>1, <1>5 DEF SettleLostRow, LiftLostRow, LosableRow, Parked
<1> QED
  BY <1>1, <1>2, <1>4, <1>6 DEF LiftFailurePark, LiftSourceLimitPark, ForceLift

\* What reports no evidence in two steps reports none in one.
LEMMA IdlesTwice ==
  ASSUME NEW r, NEW q, NEW p, Idles(r, q), Idles(q, p), q.token = r.token
  PROVE  Idles(r, p)
BY DEF Idles


\* What reports evidence, and is then reserved or lifted, reports it.
LEMMA ReportsThenIdles ==
  ASSUME NEW r, NEW q, NEW p, Reports(r, q), Idles(q, p), q.token = r.token
  PROVE  Reports(r, p)
BY DEF Reports, Idles

\* A claim and an abandonment change neither the generation nor what is parked.
LEMMA ClaimProcesses ==
  ASSUME NEW r \in Rows, NEW a \in Attempts, NEW id, NEW category
  PROVE  /\ ClaimRow(r, id).gen = r.gen /\ ClaimRow(r, id).life = "processing"
         /\ AbandonRow(r, a, category).gen = r.gen
         /\ AbandonRow(r, a, category).life \in Pending
<1>1. a.retryState \in Pending
  BY DEF Attempts
<1> QED  BY <1>1 DEF ClaimRow, AbandonRow, Release, Rows

\* A verdict's park is earned: its streak is the threshold.
LEMMA VerdictParks ==
  ASSUME NEW r \in Rows, NEW a \in Attempts, NEW category
  PROVE  LET q == VerdictRow(r, a, category)
         IN  q.gen = r.gen /\ q.life = "failed" /\ ParkEarned(q)
<1> DEFINE q == VerdictRow(r, a, category)
<1>1. /\ q.gen = r.gen /\ q.life = "failed" /\ q.nextRetry = "parked"
      /\ q.streak = ParkThreshold
  BY DEF VerdictRow, ParkedRow, Rows
<1> HIDE DEF q
<1>2. ParkEarned(q)
  BY <1>1, ParkThresholdAssumption DEF ParkEarned
<1>3. q.gen = r.gen /\ q.life = "failed" /\ ParkEarned(q)
  BY <1>1, <1>2
<1> QED  BY <1>3 DEF q

\* A failure parks exactly when it is final, and waits otherwise.
LEMMA FailParks ==
  ASSUME NEW r \in Rows, NEW a \in Attempts, NEW category, r.token = a.id
  PROVE  LET q == FailRow(r, a, category)
         IN  q.gen = r.gen /\ q.life = "failed" /\ ParkEarned(q)
<1> DEFINE streak == NextStreak(r, category, a.gen)
           final == category \in Permanent \/ streak >= ParkThreshold
           q == FailRow(r, a, category)
<1>1. /\ q.gen = r.gen /\ q.life = "failed" /\ q.streak = streak
      /\ q.streakCat = category
      /\ q.nextRetry = IF final THEN "parked" ELSE "later"
  BY DEF FailRow, ParkedRow, Release, Rows
<1> HIDE DEF q, streak
<1>2. ParkEarned(q)
  BY <1>1 DEF ParkEarned
<1>3. q.gen = r.gen /\ q.life = "failed" /\ ParkEarned(q)
  BY <1>1, <1>2
<1> QED  BY <1>3 DEF q

\* A settled row is archived only if no evidence came under the claim.
LEMMA SettledSays ==
  ASSUME NEW r \in Rows, NEW a \in Attempts, r.token = a.id
  PROVE  /\ NoChangeRow(r, a).gen = r.gen /\ NoChangeRow(r, a).life # "failed"
         /\ NoChangeRow(r, a).life = "archived" => r.gen = a.gen
         /\ NotWorthyRow(r, a).gen = r.gen /\ NotWorthyRow(r, a).life = "observed"
<1>1. ASSUME NEW life PROVE Settled(r, life).gen = r.gen /\ Settled(r, life).life = life
  BY DEF Settled, ResetStreak, Release, Rows
<1> QED  BY <1>1 DEF NoChangeRow, NotWorthyRow

\* So is a completed one.
LEMMA CompleteSays ==
  ASSUME NEW r \in Rows, NEW a \in Attempts, NEW doc
  PROVE  /\ CompleteRow(r, a, doc).gen = r.gen
         /\ CompleteRow(r, a, doc).life =
              IF r.gen = a.gen THEN "archived" ELSE "revision-pending"
BY DEF CompleteRow, Settled, ResetStreak, Release, Rows

\* An import leaves a claim in processing, requeues what waits or has failed,
\* parks a placeholder, and says archived of nothing else but a summary.
LEMMA ImportSays ==
  ASSUME NEW r \in Rows, NEW found \in Documents
  PROVE  LET q == ImportRow(r, found)
         IN  /\ q.gen = r.gen
             /\ r.life = "processing" => q.life = "processing"
             /\ ParkEarned(r) => ParkEarned(q)
             /\ q.life = "archived" =>
                  /\ r.life \notin Pending \cup {"processing", "failed"}
                  /\ found.kind # "placeholder"
<1> DEFINE p == [r EXCEPT !.doc = found]
           q == ImportRow(r, found)
<1>0. p \in Rows /\ p.gen = r.gen /\ p.life = r.life /\ p.nextRetry = r.nextRetry
      /\ p.streak = r.streak /\ p.streakCat = r.streakCat
  BY DEF Rows
<1>1. /\ r.life = "processing" => q = p
      /\ r.life \in Pending \cup {"failed"} => q = [p EXCEPT !.life = "revision-pending"]
      /\ r.life \notin Pending \cup {"failed", "processing"} =>
           q = IF found.kind = "placeholder"
               THEN [ParkedRow(p, "summary-failed", ParkThreshold, r.gen)
                       EXCEPT !.retryState = "revision-pending"]
               ELSE [p EXCEPT !.life = "archived"]
  BY DEF ImportRow, Pending
<1>2. LET v == [ParkedRow(p, "summary-failed", ParkThreshold, r.gen)
                  EXCEPT !.retryState = "revision-pending"]
      IN  v.gen = r.gen /\ v.life = "failed" /\ v.streak = ParkThreshold
          /\ v.nextRetry = "parked"
  BY <1>0 DEF ParkedRow, Rows
<1> HIDE DEF p, q
<1>3. /\ [p EXCEPT !.life = "revision-pending"].gen = r.gen
      /\ [p EXCEPT !.life = "revision-pending"].life = "revision-pending"
      /\ [p EXCEPT !.life = "archived"].gen = r.gen
      /\ [p EXCEPT !.life = "archived"].life = "archived"
  BY <1>0 DEF Rows
<1>4. CASE r.life = "processing"
  <2>1. q = p
    BY <1>1, <1>4
  <2>2. q.gen = r.gen /\ q.life = "processing" /\ ParkEarned(q)
    BY <1>0, <1>4, <2>1 DEF ParkEarned
  <2> QED  BY <2>2 DEF q
<1>5. CASE r.life \in Pending \cup {"failed"}
  <2>1. q.gen = r.gen /\ q.life = "revision-pending" /\ r.life # "processing"
    BY <1>1, <1>3, <1>5 DEF Pending
  <2>2. ParkEarned(q)
    BY <2>1 DEF ParkEarned
  <2> QED  BY <2>1, <2>2 DEF q
<1>6. CASE r.life \notin Pending \cup {"failed", "processing"}
  <2>1. CASE found.kind = "placeholder"
    <3>1. q.gen = r.gen /\ q.life = "failed" /\ q.streak = ParkThreshold
          /\ q.nextRetry = "parked"
      BY <1>1, <1>2, <1>6, <2>1
    <3>2. ParkEarned(q)
      BY <3>1, ParkThresholdAssumption DEF ParkEarned
    <3> QED  BY <1>6, <3>1, <3>2 DEF q
  <2>2. CASE found.kind # "placeholder"
    <3>1. q.gen = r.gen /\ q.life = "archived"
      BY <1>1, <1>3, <1>6, <2>2
    <3>2. ParkEarned(q)
      BY <3>1 DEF ParkEarned
    <3> QED  BY <1>6, <2>2, <3>1, <3>2 DEF q
  <2> QED  BY <2>1, <2>2
<1> QED  BY <1>4, <1>5, <1>6

-----------------------------------------------------------------------------
(* The invariant.                                                            *)

\* What one session contributes to the inductive invariant.
Good(s) == ClaimIsExclusive(s) /\ DocumentIsDurable(s) /\ FileFollowsWorker(s)

IInv == TypeOK /\ \A s \in Sessions : Good(s)

\* An update of rows that keeps every claim.
RowsKept ==
  /\ row' \in [Sessions -> Rows]
  /\ \A x \in Sessions : KeepsClaim(row[x], row'[x])

\* Writing a row that keeps its claim keeps every row's claim.
LEMMA SetRowKeeps ==
  ASSUME TypeOK, NEW s \in Sessions, NEW q, KeepsClaim(row[s], q), SetRow(s, q)
  PROVE  RowsKept
<1>1. row \in [Sessions -> Rows] /\ q \in Rows
  BY DEF TypeOK, KeepsClaim
<1>2. \A x \in Sessions : KeepsClaim(row[x], row[x])
  BY <1>1, ReservationKeeps
<1> QED  BY <1>1, <1>2 DEF SetRow, RowsKept

\* A step that leaves the rows alone keeps their claims.
LEMMA NoRowKeeps ==
  ASSUME TypeOK, row' = row
  PROVE  RowsKept
BY ReservationKeeps DEF TypeOK, RowsKept

\* Handing a session to a worker, launched or lost, keeps its claim.
LEMMA HandOffKeeps ==
  ASSUME TypeOK, NEW s \in Sessions, NEW r, KeepsClaim(row[s], r), NEW reserves,
         HandOff(s, r, reserves)
  PROVE  RowsKept /\ spawned' \subseteq Sessions /\ crashes' \in Nat
<1>1. row[s] \in Rows /\ r \in Rows /\ spawned \subseteq Sessions /\ crashes \in Nat
  BY DEF TypeOK, KeepsClaim
<1>2. /\ KeepsClaim(row[s], ReserveRow(r))
      /\ KeepsClaim(row[s], ClearReservationRow(r))
  BY <1>1, ReservationKeeps, KeepsTwice
<1>3. \/ SetRow(s, r) \/ SetRow(s, ReserveRow(r)) \/ SetRow(s, ClearReservationRow(r))
  BY DEF HandOff
<1>4. RowsKept
  BY <1>2, <1>3, SetRowKeeps
<1>5. spawned' \subseteq Sessions /\ crashes' \in Nat
  BY <1>1 DEF HandOff
<1> QED  BY <1>4, <1>5

-----------------------------------------------------------------------------
(* The steps that run under no lock.                                        *)

\* Hooks and transcript writes keep claims, attempts, files and workers.
LEMMA AgentSteps ==
  ASSUME TypeOK, NEW s \in Sessions, Agent(s)
  PROVE  TypeOK' /\ RowsKept /\ UNCHANGED <<open, file, w>>
<1> USE DEF hookVars, diskVars, sweepVars
<1>0. row[s] \in Rows /\ tx[s] \in [ver : Nat, present : BOOLEAN]
  BY DEF TypeOK
<1>1. CASE AgentStop(s)
  <2>1. RowsKept
    BY <1>0, <1>1, EvidenceKeeps, SetRowKeeps DEF AgentStop
  <2>2. tx[s].ver + 1 \in Nat
    BY <1>0
  <2>3. /\ tx' \in [Sessions -> [ver : Nat, present : BOOLEAN]]
        /\ evidence' \in [Sessions -> Nat]
    BY <1>1, <2>2 DEF AgentStop, TypeOK
  <2> QED  BY <1>1, <2>1, <2>3 DEF AgentStop, TypeOK, RowsKept
<1>2. CASE LateAgentStop(s)
  <2>1. RowsKept
    BY <1>0, <1>2, EvidenceKeeps, SetRowKeeps DEF LateAgentStop
  <2> QED  BY <1>0, <1>2, <2>1 DEF LateAgentStop, TypeOK, RowsKept
<1>3. CASE SessionEnd(s)
  <2>1. PICK resolved \in BOOLEAN, newest \in BOOLEAN, grows \in 0 .. 1 :
          /\ tx' = [tx EXCEPT ![s] = [ver |-> @.ver + grows,
                                      present |-> @.present \/ grows = 1]]
          /\ evidence' = [evidence EXCEPT ![s] = tx[s].ver + grows]
          /\ HandOff(s, SessionEndRow(row[s], resolved, newest),
                     Reservable(SessionEndRow(row[s], resolved, newest), FALSE, FALSE))
    BY <1>3 DEF SessionEnd
  <2>2. RowsKept /\ spawned' \subseteq Sessions /\ crashes' \in Nat
    BY <1>0, <2>1, EvidenceKeeps, HandOffKeeps
  <2>3. tx' \in [Sessions -> [ver : Nat, present : BOOLEAN]]
    <3>1. PICK p \in BOOLEAN : p = (tx[s].present \/ grows = 1)
      OBVIOUS
    <3>2. tx' = [tx EXCEPT ![s] = [ver |-> tx[s].ver + grows, present |-> p]]
      BY <2>1, <3>1
    <3>3. tx[s].ver + grows \in Nat
      BY <1>0
    <3> QED  BY <3>2, <3>3 DEF TypeOK
  <2>4. evidence' \in [Sessions -> Nat]
    BY <1>0, <2>1 DEF TypeOK
  <2> QED  BY <1>3, <2>2, <2>3, <2>4 DEF SessionEnd, TypeOK, RowsKept
<1>4. CASE WriteUnreported(s)
  BY <1>0, <1>4, NoRowKeeps DEF WriteUnreported, TypeOK, RowsKept
<1>5. CASE TranscriptVanishes(s)
  BY <1>0, <1>5, NoRowKeeps DEF TranscriptVanishes, TypeOK, RowsKept
<1>6. CASE TranscriptReturns(s)
  BY <1>0, <1>6, NoRowKeeps DEF TranscriptReturns, TypeOK, RowsKept
<1> QED  BY <1>1, <1>2, <1>3, <1>4, <1>5, <1>6 DEF Agent

\* So do backoffs and reservations that run out.
LEMMA WaitingSteps ==
  ASSUME TypeOK, NEW s \in Sessions, BackoffElapses(s) \/ ReservationGoesStale(s)
  PROVE  TypeOK' /\ RowsKept /\ UNCHANGED <<open, file, w>>
<1> USE DEF hookVars, diskVars, sweepVars
<1>0. row[s] \in Rows
  BY DEF TypeOK
<1>1. /\ KeepsClaim(row[s], [row[s] EXCEPT !.nextRetry = "now"])
      /\ KeepsClaim(row[s], [row[s] EXCEPT !.resv = "stale"])
  BY <1>0 DEF KeepsClaim, Rows
<1>2. RowsKept
  BY <1>1, SetRowKeeps DEF BackoffElapses, ReservationGoesStale
<1>3. UNCHANGED <<hookVars, open, sweepVars, diskVars, w, spawned, crashes, judged>>
  BY DEF BackoffElapses, ReservationGoesStale
<1> QED  BY <1>2, <1>3 DEF TypeOK, RowsKept

\* One observation of the sweep, whichever row it would write.
LEMMA ObserveKeeps ==
  ASSUME TypeOK, NEW s \in Sessions, NEW r, KeepsClaim(row[s], r),
         NEW kind \in {"scan", "observed", "path"}, Observe(s, kind, r)
  PROVE  /\ RowsKept /\ spawned' \subseteq Sessions /\ crashes' \in Nat
         /\ seen' \in [Sessions -> SUBSET ({"scan", "observed", "path"} \X Nat)]
         /\ evidence' \in [Sessions -> Nat]
<1>0. tx[s].ver \in Nat
  BY DEF TypeOK
<1>1. CASE <<kind, tx[s].ver>> \in seen[s]
  <2>1. UNCHANGED <<row, seen, spawned, crashes, evidence>>
    BY <1>1 DEF Observe
  <2> QED  BY <2>1, NoRowKeeps DEF TypeOK
<1>2. CASE <<kind, tx[s].ver>> \notin seen[s]
  <2>1. /\ seen' = [seen EXCEPT ![s] = @ \cup {<<kind, tx[s].ver>>}]
        /\ evidence' = [evidence EXCEPT ![s] = tx[s].ver]
        /\ HandOff(s, r, Reservable(r, LeaseExpired(s), FALSE))
    BY <1>2 DEF Observe
  <2>2. RowsKept /\ spawned' \subseteq Sessions /\ crashes' \in Nat
    BY <2>1, HandOffKeeps
  <2>3. <<kind, tx[s].ver>> \in {"scan", "observed", "path"} \X Nat
    BY <1>0
  <2> QED  BY <1>0, <2>1, <2>2, <2>3 DEF TypeOK
<1> QED  BY <1>1, <1>2

\* So do the sweep's marks, rescues, lifts and reservations, and the operator's
\* retries and verdicts.
LEMMA SweepSteps ==
  ASSUME TypeOK, NEW s \in Sessions, Sweep(s) \/ Operator(s)
  PROVE  TypeOK' /\ RowsKept /\ UNCHANGED <<open, file, w>>
<1> USE DEF hookVars, diskVars, sweepVars
<1>0. row[s] \in Rows
  BY DEF TypeOK
<1>1. CASE SweepStale(s)
  <2>1. \/ Observe(s, "scan", MarkInterruptedRow(row[s]))
        \/ UNCHANGED <<row, seen, spawned, crashes, evidence>>
    BY <1>1 DEF SweepStale
  <2>2. /\ RowsKept /\ spawned' \subseteq Sessions /\ crashes' \in Nat
        /\ seen' \in [Sessions -> SUBSET ({"scan", "observed", "path"} \X Nat)]
        /\ evidence' \in [Sessions -> Nat]
    BY <1>0, <2>1, EvidenceKeeps, ObserveKeeps, NoRowKeeps DEF TypeOK
  <2> QED  BY <1>1, <2>2 DEF SweepStale, TypeOK, RowsKept
<1>2. CASE SweepUnresolved(s)
  <2>1. \/ Observe(s, "path", AttachRow(row[s]))
        \/ UNCHANGED <<row, seen, spawned, crashes, evidence>>
    BY <1>2 DEF SweepUnresolved
  <2>2. /\ RowsKept /\ spawned' \subseteq Sessions /\ crashes' \in Nat
        /\ seen' \in [Sessions -> SUBSET ({"scan", "observed", "path"} \X Nat)]
        /\ evidence' \in [Sessions -> Nat]
    BY <1>0, <2>1, EvidenceKeeps, ObserveKeeps, NoRowKeeps DEF TypeOK
  <2> QED  BY <1>2, <2>2 DEF SweepUnresolved, TypeOK, RowsKept
<1>3. CASE SweepObserved(s)
  <2>1. \/ Observe(s, "observed", RescueRow(row[s]))
        \/ UNCHANGED <<row, seen, spawned, crashes, evidence>>
    BY <1>3 DEF SweepObserved
  <2>2. /\ RowsKept /\ spawned' \subseteq Sessions /\ crashes' \in Nat
        /\ seen' \in [Sessions -> SUBSET ({"scan", "observed", "path"} \X Nat)]
        /\ evidence' \in [Sessions -> Nat]
    BY <1>0, <2>1, EvidenceKeeps, ObserveKeeps, NoRowKeeps DEF TypeOK
  <2> QED  BY <1>3, <2>2 DEF SweepObserved, TypeOK, RowsKept
<1>4. CASE SweepDiscovers(s)
  <2>1. /\ RowsKept /\ spawned' \subseteq Sessions /\ crashes' \in Nat
        /\ seen' \in [Sessions -> SUBSET ({"scan", "observed", "path"} \X Nat)]
        /\ evidence' \in [Sessions -> Nat]
    BY <1>0, <1>4, EvidenceKeeps, ObserveKeeps DEF SweepDiscovers
  <2> QED  BY <1>4, <2>1 DEF SweepDiscovers, TypeOK, RowsKept
<1>5. CASE SweepLifts(s)
  <2>1. RowsKept
    BY <1>0, <1>5, ReservationKeeps, SetRowKeeps DEF SweepLifts
  <2> QED  BY <1>5, <2>1 DEF SweepLifts, TypeOK, RowsKept
<1>6. CASE SweepReserves(s)
  <2>1. PICK force \in BOOLEAN :
          HandOff(s, IF force THEN ForceLift(row[s]) ELSE row[s], TRUE)
    BY <1>6 DEF SweepReserves
  <2>2. KeepsClaim(row[s], IF force THEN ForceLift(row[s]) ELSE row[s])
    BY <1>0, ReservationKeeps
  <2>3. RowsKept /\ spawned' \subseteq Sessions /\ crashes' \in Nat
    BY <2>1, <2>2, HandOffKeeps
  <2> QED  BY <1>6, <2>3 DEF SweepReserves, TypeOK, RowsKept
<1>7. CASE Retry(s)
  <2> DEFINE r == LiftFailurePark(row[s])
  <2>1. \E q \in {r, ReserveRow(ForceLift(r)), ReserveRow(r)} : SetRow(s, q)
    BY <1>7 DEF Retry
  <2>2. KeepsClaim(row[s], r) /\ r \in Rows
    BY <1>0, ReservationKeeps DEF KeepsClaim
  <2> HIDE DEF r
  <2>3. KeepsClaim(r, ForceLift(r)) /\ ForceLift(r) \in Rows
    BY <2>2, ReservationKeeps DEF KeepsClaim
  <2>4. \A q \in {r, ReserveRow(ForceLift(r)), ReserveRow(r)} : KeepsClaim(row[s], q)
    BY <2>2, <2>3, ReservationKeeps, KeepsTwice
  <2>5. RowsKept
    BY <2>1, <2>4, SetRowKeeps
  <2> QED  BY <1>7, <2>5 DEF Retry, TypeOK, RowsKept
<1>8. CASE SweepReactivates(s)
  <2>1. RowsKept
    BY <1>0, <1>8, ReservationKeeps, SetRowKeeps DEF SweepReactivates
  <2> QED  BY <1>8, <2>1 DEF SweepReactivates, TypeOK, RowsKept
<1>9. CASE SettleChecks(s)
  <2>1. RowsKept
    BY <1>9, NoRowKeeps DEF SettleChecks
  <2> QED  BY <1>9, <2>1 DEF SettleChecks, TypeOK, RowsKept
<1>10. CASE SettleLost(s)
  <2>1. RowsKept
    BY <1>0, <1>10, ReservationKeeps, SetRowKeeps DEF SettleLost
  <2> QED  BY <1>10, <2>1 DEF SettleLost, TypeOK, RowsKept
<1> QED
  BY <1>1, <1>2, <1>3, <1>4, <1>5, <1>6, <1>7, <1>8, <1>9, <1>10 DEF Sweep, Operator

\* So does the sweep's reading of its lists.
LEMMA SweepBeginsSteps ==
  ASSUME TypeOK, SweepBegins
  PROVE  TypeOK' /\ RowsKept /\ UNCHANGED <<open, file, w>>
<1>1. worklist' \in [stale : SUBSET Sessions, unresolved : SUBSET Sessions,
                       observed : SUBSET Sessions, lost : SUBSET Sessions]
  BY DEF SweepBegins, TypeOK
<1> QED
  BY <1>1, NoRowKeeps
  DEF SweepBegins, TypeOK, RowsKept, hookVars, diskVars

\* None of them disturbs the invariant.
LEMMA UnlockedStepsAreGood ==
  ASSUME IInv, RowsKept, UNCHANGED <<open, file, w>>, NEW s \in Sessions
  PROVE  Good(s)'
BY DEF IInv, RowsKept, KeepsClaim, Good, ClaimIsExclusive, DocumentIsDurable,
       FileFollowsWorker, Planned

\* A lease that runs out changes neither the ids nor the plans.
LEMMA LeaseStep ==
  ASSUME IInv, NEW s \in Sessions, LeaseExpires(s)
  PROVE  TypeOK' /\ Good(s)'
<1> USE DEF hookVars, diskVars, sweepVars
<1>1. PICK a \in open[s] :
        open' = [open EXCEPT ![s] = (@ \ {a}) \cup {[a EXCEPT !.live = FALSE]}]
  BY DEF LeaseExpires
<1> DEFINE b == [a EXCEPT !.live = FALSE]
<1>2. open \in [Sessions -> SUBSET Attempts] /\ a \in Attempts
  BY DEF IInv, TypeOK
<1>3. b \in Attempts /\ b.id = a.id /\ b.plan = a.plan
  BY <1>2 DEF Attempts
<1>4. open'[s] = (open[s] \ {a}) \cup {b} /\ open' \in [Sessions -> SUBSET Attempts]
  BY <1>1, <1>2, <1>3
<1> HIDE DEF b
<1>5. UNCHANGED <<hookVars, row, sweepVars, diskVars, w, spawned, crashes, judged>>
  BY DEF LeaseExpires
<1>6. TypeOK'
  BY <1>4, <1>5 DEF IInv, TypeOK
<1>7. Good(s)
  BY DEF IInv
<1>8. ClaimIsExclusive(s)'
  BY <1>3, <1>4, <1>5, <1>7 DEF Good, ClaimIsExclusive
<1>9. DocumentIsDurable(s)'
  BY <1>3, <1>4, <1>5, <1>7 DEF Good, DocumentIsDurable, Planned
<1>10. FileFollowsWorker(s)'
  BY <1>3, <1>4, <1>5, <1>7 DEF Good, FileFollowsWorker
<1> QED  BY <1>6, <1>8, <1>9, <1>10 DEF Good

-----------------------------------------------------------------------------
(* The steps of the worker that holds the session lock.                     *)

\* The worker's session is the only one it changes.
Elsewhere(s) ==
  \A x \in Sessions \ {s} :
    row'[x] = row[x] /\ open'[x] = open[x] /\ file'[x] = file[x] /\ w'[x] = w[x]

\* A step confined to one session leaves every other one good.
LEMMA OneSession ==
  ASSUME IInv, NEW s \in Sessions, TypeOK', Good(s)', Elsewhere(s)
  PROVE  IInv'
<1> SUFFICES ASSUME NEW x \in Sessions PROVE Good(x)'
  BY DEF IInv
<1>1. CASE x = s
  BY <1>1
<1>2. CASE x # s
  BY <1>2 DEF IInv, Elsewhere, Good, ClaimIsExclusive, DocumentIsDurable,
              FileFollowsWorker, Planned
<1> QED  BY <1>1, <1>2

\* The idle worker and the missing document have their types.
LEMMA IdleTypes == Idle \in WorkerStates /\ NoDocument \in Documents
BY DEF Idle, WorkerStates, PCs, NoDocument, Documents

\* Leaving keeps whatever the row, the file and the attempts were worth.
LEMMA ExitIsGood ==
  ASSUME IInv, NEW s \in Sessions, w' = [w EXCEPT ![s] = Idle],
         KeepsClaim(row[s], row'[s]), open'[s] = open[s],
         file'[s] = file[s]
  PROVE  Good(s)'
<1>1. w'[s].pc = "idle" /\ Good(s)
  BY DEF IInv, TypeOK, Idle
<1> QED
  BY <1>1 DEF Good, ClaimIsExclusive, DocumentIsDurable, FileFollowsWorker,
              Planned, Holding, KeepsClaim

\* A worker that leaves on an error keeps the types.
LEMMA ErrorExitTypes ==
  ASSUME TypeOK, NEW s \in Sessions, ErrorExit(s)
  PROVE  /\ RowsKept /\ w' \in [Sessions -> WorkerStates]
         /\ w' = [w EXCEPT ![s] = Idle]
         /\ \A x \in Sessions \ {s} : row'[x] = row[x] /\ w'[x] = w[x]
<1>1. RowsKept
  BY ReservationKeeps, SetRowKeeps DEF ErrorExit, TypeOK
<1> QED
  BY <1>1, IdleTypes DEF ErrorExit, Exit, SetRow, TypeOK

\* A worker that takes the lock, hydrating its row, keeps the invariant.
LEMMA WorkerStartsStep ==
  ASSUME IInv, NEW s \in Sessions, WorkerStarts(s)
  PROVE  IInv'
<1> USE DEF hookVars, diskVars, sweepVars
<1>1. /\ row[s] \in Rows /\ file[s] \in Documents /\ w[s] \in WorkerStates
      /\ Good(s) /\ TypeOK
  BY DEF IInv, TypeOK
<1>2. /\ w' = [w EXCEPT ![s].pc = "reconcile"]
      /\ UNCHANGED <<hookVars, sweepVars, open, diskVars, crashes, judged>>
      /\ spawned' \subseteq spawned
  BY DEF WorkerStarts, Go
<1>3. PICK q : /\ row' = [row EXCEPT ![s] = q]
               /\ \/ q = row[s]
                  \/ q = ImportRow(row[s], file[s])
  BY DEF WorkerStarts, SetRow
<1>4. /\ q \in Rows /\ q.token = row[s].token
      /\ q.life = "processing" => row[s].life = "processing"
      /\ q.doc = row[s].doc \/ q.doc = file[s]
  <2>1. CASE q = row[s]
    BY <1>1, <2>1
  <2>2. CASE q = ImportRow(row[s], file[s])
    <3>1. KeepsClaim([row[s] EXCEPT !.doc = file[s]], q)
      BY <1>1, <2>2, ImportKeeps
    <3> QED  BY <1>1, <3>1 DEF KeepsClaim, Rows
  <2> QED  BY <1>3, <2>1, <2>2
<1>5. w' \in [Sessions -> WorkerStates] /\ w'[s].pc = "reconcile"
  BY <1>1, <1>2 DEF TypeOK, WorkerStates, PCs
<1>6. row'[s] = q
  BY <1>1, <1>3 DEF TypeOK
<1>7. TypeOK'
  BY <1>1, <1>2, <1>3, <1>4, <1>5 DEF TypeOK
<1>8. Good(s)'
  BY <1>1, <1>2, <1>4, <1>5, <1>6
  DEF Good, ClaimIsExclusive, DocumentIsDurable, FileFollowsWorker, Planned, Holding
<1>9. Elsewhere(s)
  BY <1>2, <1>3 DEF Elsewhere, IInv, TypeOK
<1> QED  BY <1>7, <1>8, <1>9, OneSession

\* A plan found on disk is resumed; otherwise, the file is the recorded
\* document, for the owner's plan would have been found.
LEMMA ReconcileStep ==
  ASSUME IInv, NEW s \in Sessions, Reconcile(s)
  PROVE  IInv'
<1> USE DEF workerVars, hookVars, diskVars, sweepVars
<1>1. Good(s) /\ TypeOK /\ w[s] \in WorkerStates /\ w[s].pc = "reconcile"
  BY DEF IInv, TypeOK, Reconcile
<1>2. UNCHANGED <<workerVars, row, open, diskVars, judged>>
  BY DEF Reconcile
<1>3. CASE \A a \in open[s] : ~Reconcilable(s, a)
  <2>1. \/ w' = [w EXCEPT ![s].pc = "abandon"]
        \/ \E a \in open[s] : Reconcilable(s, a)
    BY DEF Reconcile, Go
  <2>2. w' = [w EXCEPT ![s].pc = "abandon"]
    BY <1>3, <2>1
  <2>3. file[s] = row[s].doc
    <3> SUFFICES ASSUME NEW a \in Planned(s), a.id = row[s].token, a.plan = file[s]
                 PROVE  FALSE
      BY <1>1 DEF Good, DocumentIsDurable
    <3>1. a \in open[s] /\ a.id # 0
      BY DEF Planned, IInv, TypeOK, Attempts
    <3>2. \A b \in Planned(s) : b.id <= a.id
      BY <1>1, <3>1 DEF Good, FileFollowsWorker, Planned
    <3> QED  BY <1>3, <3>1, <3>2 DEF Reconcilable
  <2>4. w' \in [Sessions -> WorkerStates] /\ w'[s].pc = "abandon"
    BY <1>1, <2>2 DEF TypeOK, WorkerStates, PCs
  <2>5. TypeOK' /\ Elsewhere(s)
    BY <1>1, <1>2, <2>2, <2>4 DEF TypeOK, Elsewhere
  <2>6. Good(s)'
    BY <1>1, <1>2, <2>3, <2>4
    DEF Good, ClaimIsExclusive, DocumentIsDurable, FileFollowsWorker, Planned, Holding
  <2> QED  BY <2>5, <2>6, OneSession
<1>4. CASE \E a \in open[s] : Reconcilable(s, a)
  <2>1. PICK a \in open[s] :
          /\ Reconcilable(s, a)
          /\ w' = [w EXCEPT ![s] = [Idle EXCEPT !.pc = ResumePC(a), !.att = a.id,
                                               !.new = a.plan, !.cat = "summary-failed"]]
    BY <1>4 DEF Reconcile
  <2>2. a \in Attempts /\ ResumePC(a) \in {"recommit", "complete"} /\ file[s] = a.plan
    BY <2>1 DEF IInv, TypeOK, ResumePC, Reconcilable
  <2> DEFINE v == [Idle EXCEPT !.pc = ResumePC(a), !.att = a.id,
                               !.new = a.plan, !.cat = "summary-failed"]
  <2>3. v \in WorkerStates /\ v.pc \in {"recommit", "complete"} /\ v.new = a.plan
    <3>1. a.plan \in Documents /\ a.id \in Nat
          /\ "summary-failed" \in Failures /\ {"recommit", "complete"} \subseteq PCs
      BY <2>2 DEF Attempts, Failures, Retryable, PCs
    <3> QED  BY <2>2, <3>1, IdleTypes DEF Idle, WorkerStates
  <2> HIDE DEF v
  <2>4. w' = [w EXCEPT ![s] = v]
    BY <2>1 DEF v
  <2>5. TypeOK' /\ Elsewhere(s) /\ w'[s] = v
    BY <1>1, <1>2, <2>3, <2>4 DEF TypeOK, Elsewhere
  <2>6. Good(s)'
    BY <1>1, <1>2, <2>2, <2>3, <2>5
    DEF Good, ClaimIsExclusive, DocumentIsDurable, FileFollowsWorker, Planned, Holding
  <2> QED  BY <2>5, <2>6, OneSession
<1> QED  BY <1>3, <1>4

\* A commit keeps the type of the history.
LEMMA CommitTypes ==
  ASSUME TypeOK, NEW s \in Sessions, NEW rev, CommitRevision(s, rev)
  PROVE  gitlog' \in [Sessions -> SUBSET Documents]
<1>1. file[s] \in Documents /\ gitlog \in [Sessions -> SUBSET Documents]
  BY DEF TypeOK
<1> QED  BY <1>1 DEF CommitRevision

\* The commit of a recovered revision keeps the invariant.
LEMMA RecommitStep ==
  ASSUME IInv, NEW s \in Sessions, Recommit(s)
  PROVE  IInv'
<1> USE DEF workerVars, hookVars, diskVars, sweepVars
<1>1. Good(s) /\ TypeOK /\ w[s] \in WorkerStates /\ w[s].pc = "recommit"
  BY DEF IInv, TypeOK, Recommit
<1>2. UNCHANGED <<workerVars, open, file, judged>>
  BY DEF Recommit
<1>3. CASE CommitRevision(s, w[s].new.rev) /\ Go(s, "complete") /\ UNCHANGED row
  <2>1. /\ w' \in [Sessions -> WorkerStates] /\ w'[s].pc = "complete"
        /\ w'[s].new = w[s].new
        /\ w' = [w EXCEPT ![s].pc = "complete"]
    BY <1>1, <1>3 DEF Go, TypeOK, WorkerStates, PCs
  <2>2. TypeOK' /\ Elsewhere(s)
    BY <1>1, <1>2, <1>3, <2>1, CommitTypes DEF TypeOK, Elsewhere
  <2>3. Good(s)'
    BY <1>1, <1>2, <1>3, <2>1
    DEF Good, ClaimIsExclusive, DocumentIsDurable, FileFollowsWorker, Planned, Holding
  <2> QED  BY <2>2, <2>3, OneSession
<1>4. CASE ErrorExit(s) /\ UNCHANGED gitlog
  <2>1. /\ RowsKept /\ w' \in [Sessions -> WorkerStates]
        /\ w' = [w EXCEPT ![s] = Idle]
        /\ \A x \in Sessions \ {s} : row'[x] = row[x] /\ w'[x] = w[x]
    BY <1>1, <1>4, ErrorExitTypes
  <2>2. TypeOK' /\ Elsewhere(s)
    BY <1>1, <1>2, <1>4, <2>1 DEF TypeOK, Elsewhere, RowsKept
  <2>3. Good(s)'
    BY <1>2, <2>1, ExitIsGood DEF RowsKept
  <2> QED  BY <2>2, <2>3, OneSession
<1> QED  BY <1>3, <1>4 DEF Recommit

\* Abandoning releases the row of the latest attempt, its only owner.
LEMMA AbandonLatestEnds ==
  ASSUME IInv, NEW s \in Sessions, NEW category \in Labels,
         AbandonLatest(s, category)
  PROVE  /\ EndsClaim(row[s], row'[s]) /\ row' \in [Sessions -> Rows]
         /\ open'[s] \subseteq open[s] /\ open' \in [Sessions -> SUBSET Attempts]
         /\ \A x \in Sessions \ {s} : row'[x] = row[x] /\ open'[x] = open[x]
<1>1. /\ row \in [Sessions -> Rows] /\ open \in [Sessions -> SUBSET Attempts]
  BY DEF IInv, TypeOK
<1>2. PICK a \in open[s] : /\ SetRow(s, AbandonRow(row[s], a, category))
                           /\ open' = [open EXCEPT ![s] = @ \ {a}]
  BY DEF AbandonLatest
<1>3. EndsClaim(row[s], AbandonRow(row[s], a, category))
  BY <1>1, AbandonEnds
<1>4. AbandonRow(row[s], a, category) \in Rows
  BY <1>3 DEF EndsClaim
<1> QED  BY <1>1, <1>2, <1>3, <1>4 DEF SetRow

\* Abandoning an interrupted claim keeps the invariant.
LEMMA AbandonStep ==
  ASSUME IInv, NEW s \in Sessions, Abandon(s)
  PROVE  IInv'
<1> USE DEF workerVars, hookVars, diskVars, sweepVars
<1>1. Good(s) /\ TypeOK /\ w[s] \in WorkerStates /\ w[s].pc = "abandon"
  BY DEF IInv, TypeOK, Abandon
<1>2. /\ UNCHANGED <<workerVars, diskVars, judged>>
      /\ w' = [w EXCEPT ![s].pc = "lift"]
  BY DEF Abandon, Go
<1>3. w' \in [Sessions -> WorkerStates] /\ w'[s].pc = "lift"
  BY <1>1, <1>2 DEF TypeOK, WorkerStates, PCs
<1>4. CASE UNCHANGED <<row, open>>
  <2>1. TypeOK' /\ Elsewhere(s)
    BY <1>1, <1>2, <1>3, <1>4 DEF TypeOK, Elsewhere
  <2>2. Good(s)'
    BY <1>1, <1>2, <1>3, <1>4
    DEF Good, ClaimIsExclusive, DocumentIsDurable, FileFollowsWorker, Planned, Holding
  <2> QED  BY <2>1, <2>2, OneSession
<1>5. CASE AbandonLatest(s, "worker-interrupted")
  <2>1. /\ EndsClaim(row[s], row'[s]) /\ row' \in [Sessions -> Rows]
        /\ open'[s] \subseteq open[s] /\ open' \in [Sessions -> SUBSET Attempts]
        /\ \A x \in Sessions \ {s} : row'[x] = row[x] /\ open'[x] = open[x]
    BY <1>5, AbandonLatestEnds DEF Labels
  <2>2. TypeOK' /\ Elsewhere(s)
    BY <1>1, <1>2, <1>3, <2>1 DEF TypeOK, Elsewhere
  <2>3. Good(s)'
    BY <1>1, <1>2, <1>3, <2>1
    DEF Good, ClaimIsExclusive, DocumentIsDurable, FileFollowsWorker, Planned,
        Holding, EndsClaim
  <2> QED  BY <2>2, <2>3, OneSession
<1> QED  BY <1>4, <1>5 DEF Abandon

\* Lifting a source-limit park keeps the invariant.
LEMMA LiftStep ==
  ASSUME IInv, NEW s \in Sessions, Lift(s)
  PROVE  IInv'
<1> USE DEF workerVars, hookVars, diskVars, sweepVars
<1>1. Good(s) /\ TypeOK /\ w[s] \in WorkerStates /\ w[s].pc = "lift"
      /\ row[s] \in Rows
  BY DEF IInv, TypeOK, Lift
<1>2. /\ UNCHANGED <<workerVars, open, diskVars, judged>>
      /\ w' = [w EXCEPT ![s].pc = "gate"]
  BY DEF Lift, Go
<1>3. SetRow(s, row[s]) \/ SetRow(s, LiftSourceLimitPark(row[s]))
  BY DEF Lift
<1>4. RowsKept
  BY <1>1, <1>3, ReservationKeeps, SetRowKeeps
<1>5. w' \in [Sessions -> WorkerStates] /\ w'[s].pc = "gate"
  BY <1>1, <1>2 DEF TypeOK, WorkerStates, PCs
<1>6. TypeOK' /\ Elsewhere(s)
  BY <1>1, <1>2, <1>3, <1>4, <1>5 DEF TypeOK, Elsewhere, RowsKept, SetRow
<1>7. Good(s)'
  BY <1>1, <1>2, <1>4, <1>5
  DEF Good, ClaimIsExclusive, DocumentIsDurable, FileFollowsWorker, Planned,
      Holding, RowsKept, KeepsClaim
<1> QED  BY <1>6, <1>7, OneSession

\* Setting a row that keeps its claim and leaving.
LEMMA LeavingStep ==
  ASSUME IInv, NEW s \in Sessions, NEW q, KeepsClaim(row[s], q), SetRow(s, q),
         Exit(s), UNCHANGED <<workerVars, open, diskVars, judged>>
  PROVE  IInv'
<1> USE DEF workerVars, hookVars, diskVars, sweepVars
<1>1. RowsKept /\ TypeOK
  BY SetRowKeeps DEF IInv
<1>2. w' = [w EXCEPT ![s] = Idle] /\ w' \in [Sessions -> WorkerStates]
  BY <1>1, IdleTypes DEF Exit, TypeOK
<1>3. TypeOK' /\ Elsewhere(s)
  BY <1>1, <1>2 DEF TypeOK, Elsewhere, RowsKept, SetRow
<1>4. Good(s)'
  BY <1>1, <1>2, ExitIsGood DEF RowsKept
<1> QED  BY <1>3, <1>4, OneSession

\* The policy gate keeps the invariant, whether it lets the worker pass or not.
LEMMA GateStep ==
  ASSUME IInv, NEW s \in Sessions, Gate(s)
  PROVE  IInv'
<1>1. Good(s) /\ TypeOK /\ w[s] \in WorkerStates /\ w[s].pc = "gate"
      /\ row[s] \in Rows
  BY DEF IInv, TypeOK, Gate
<1>2. UNCHANGED <<workerVars, open, diskVars, judged>>
  BY DEF Gate
<1>3. CASE Go(s, "claim") /\ UNCHANGED row
  <2> USE DEF workerVars, hookVars, diskVars, sweepVars
  <2>1. /\ w' \in [Sessions -> WorkerStates] /\ w'[s].pc = "claim"
        /\ w' = [w EXCEPT ![s].pc = "claim"]
    BY <1>1, <1>3 DEF Go, TypeOK, WorkerStates, PCs
  <2>2. TypeOK' /\ Elsewhere(s)
    BY <1>1, <1>2, <1>3, <2>1 DEF TypeOK, Elsewhere
  <2>3. Good(s)'
    BY <1>1, <1>2, <1>3, <2>1
    DEF Good, ClaimIsExclusive, DocumentIsDurable, FileFollowsWorker, Planned, Holding
  <2> QED  BY <2>2, <2>3, OneSession
<1>4. CASE SetRow(s, ClearReservationRow(DeferRow(row[s]))) /\ Exit(s)
  <2>1. KeepsClaim(row[s], ClearReservationRow(DeferRow(row[s])))
    <3>1. KeepsClaim(row[s], DeferRow(row[s])) /\ DeferRow(row[s]) \in Rows
      BY <1>1, ReservationKeeps DEF KeepsClaim
    <3> QED  BY <3>1, ReservationKeeps, KeepsTwice
  <2> QED  BY <1>2, <1>4, <2>1, LeavingStep
<1> QED  BY <1>3, <1>4 DEF Gate

\* A claim takes an id past every open attempt, so its owner is the latest.
LEMMA ClaimStep ==
  ASSUME IInv, NEW s \in Sessions, Claim(s)
  PROVE  IInv'
<1>1. Good(s) /\ TypeOK /\ w[s] \in WorkerStates /\ w[s].pc = "claim"
      /\ row[s] \in Rows
  BY DEF IInv, TypeOK, Claim
<1>2. UNCHANGED <<workerVars, diskVars, judged>>
  BY DEF Claim
<1>3. CASE Exit(s) /\ UNCHANGED <<row, open>>
  <2>1. KeepsClaim(row[s], row[s]) /\ SetRow(s, row[s])
    BY <1>1, <1>3, ReservationKeeps DEF SetRow, TypeOK
  <2> QED  BY <1>2, <1>3, <2>1, LeavingStep
<1>4. CASE SetRow(s, ClearReservationRow(DeferRow(row[s]))) /\ Exit(s) /\ UNCHANGED open
  <2>1. KeepsClaim(row[s], ClearReservationRow(DeferRow(row[s])))
    <3>1. KeepsClaim(row[s], DeferRow(row[s])) /\ DeferRow(row[s]) \in Rows
      BY <1>1, ReservationKeeps DEF KeepsClaim
    <3> QED  BY <3>1, ReservationKeeps, KeepsTwice
  <2> QED  BY <1>2, <1>4, <2>1, LeavingStep
<1>5. ASSUME Claimable(row[s]), NEW id \in 1 .. MaxAttempts,
             \A a \in open[s] : a.id < id,
             open' = [open EXCEPT ![s] = @ \cup
               {[id |-> id, gen |-> row[s].gen,
                 retryState |-> ClaimRetryState(row[s]), live |-> TRUE,
                 plan |-> NoDocument, git |-> FALSE]}],
             SetRow(s, ClaimRow(row[s], id)),
             w' = [w EXCEPT ![s] = [Idle EXCEPT !.pc = "load", !.att = id]]
      PROVE  IInv'
  <2> USE DEF workerVars, hookVars, diskVars, sweepVars
  <2> DEFINE new == [id |-> id, gen |-> row[s].gen,
                     retryState |-> ClaimRetryState(row[s]), live |-> TRUE,
                     plan |-> NoDocument, git |-> FALSE]
             v   == [Idle EXCEPT !.pc = "load", !.att = id]
             q   == ClaimRow(row[s], id)
  <2>1. id \in Nat \ {0}
    BY ArchiveWorkerAssumption
  <2>2. q \in Rows /\ q.token = id /\ q.doc = row[s].doc
        /\ ClaimRetryState(row[s]) \in Pending
    BY <1>1, <1>5, <2>1, ClaimTypes
  <2>3. new \in Attempts /\ new.id = id
    BY <1>1, <2>1, <2>2, IdleTypes DEF Attempts, Rows
  <2>4. v \in WorkerStates /\ v.pc = "load" /\ v.att = id
    BY <2>1, IdleTypes DEF Idle, WorkerStates, PCs
  <2>5. \A a \in open[s] : a.id \in Nat
    BY <1>1 DEF TypeOK, Attempts
  <2>6. /\ open' = [open EXCEPT ![s] = @ \cup {new}]
        /\ row' = [row EXCEPT ![s] = q] /\ w' = [w EXCEPT ![s] = v]
    BY <1>5 DEF SetRow
  <2> HIDE DEF new, v, q
  <2>7. TypeOK' /\ Elsewhere(s)
    BY <1>1, <1>2, <2>2, <2>3, <2>4, <2>6 DEF TypeOK, Elsewhere
  <2>8. open'[s] = open[s] \cup {new} /\ row'[s] = q /\ w'[s] = v
    BY <1>1, <2>6 DEF TypeOK
  <2>9. file'[s] = row'[s].doc
    BY <1>1, <1>2, <2>2, <2>8 DEF Good, FileFollowsWorker
  <2>10. ClaimIsExclusive(s)'
    BY <1>1, <1>5, <2>1, <2>2, <2>3, <2>4, <2>5, <2>8
    DEF Good, ClaimIsExclusive, Holding
  <2>11. FileFollowsWorker(s)'
    BY <1>1, <1>5, <2>1, <2>2, <2>3, <2>4, <2>5, <2>8, <2>9
    DEF Good, FileFollowsWorker, Holding
  <2> QED  BY <2>7, <2>9, <2>10, <2>11, OneSession DEF Good, DocumentIsDurable
<1> QED  BY <1>3, <1>4, <1>5 DEF Claim

\* Moves of the worker between its claim and its first write.
LEMMA HeldMove ==
  ASSUME IInv, NEW s \in Sessions, w[s].pc \in {"load", "summarize"},
         NEW v \in WorkerStates, w' = [w EXCEPT ![s] = v], v.att = w[s].att,
         v.pc \in {"nochange", "summarize", "unworthy", "fail", "plan", "defer"},
         v.pc = "plan" => v.new # NoDocument,
         UNCHANGED <<workerVars, row, open, diskVars, judged>>
  PROVE  IInv'
<1> USE DEF workerVars, hookVars, diskVars, sweepVars
<1>1. Good(s) /\ TypeOK
  BY DEF IInv
<1>2. TypeOK' /\ Elsewhere(s) /\ w'[s] = v
  BY <1>1 DEF TypeOK, Elsewhere
<1>3. Good(s)'
  BY <1>1, <1>2
  DEF Good, ClaimIsExclusive, DocumentIsDurable, FileFollowsWorker, Planned, Holding
<1> QED  BY <1>2, <1>3, OneSession

\* The moves those steps are made of, as the next state of the worker.
LEMMA GoMoves ==
  ASSUME TypeOK, NEW s \in Sessions, NEW pc \in PCs, Go(s, pc)
  PROVE  \E v \in WorkerStates : /\ w' = [w EXCEPT ![s] = v]
                                 /\ v.att = w[s].att /\ v.pc = pc
<1>1. w[s] \in WorkerStates
  BY DEF TypeOK
<1>2. [w[s] EXCEPT !.pc = pc] \in WorkerStates
  BY <1>1 DEF WorkerStates
<1> WITNESS [w[s] EXCEPT !.pc = pc] \in WorkerStates
<1> QED  BY <1>1 DEF Go, TypeOK, WorkerStates

\* A failure's move to its settlement is a move under the claim.
LEMMA FailMoves ==
  ASSUME TypeOK, NEW s \in Sessions, NEW category \in Failures, FailWith(s, category)
  PROVE  \E v \in WorkerStates : /\ w' = [w EXCEPT ![s] = v]
                                 /\ v.att = w[s].att /\ v.pc = "fail"
<1>1. w[s] \in WorkerStates
  BY DEF TypeOK
<1>2. [w[s] EXCEPT !.pc = "fail", !.cat = category] \in WorkerStates
  BY <1>1 DEF WorkerStates, PCs
<1> WITNESS [w[s] EXCEPT !.pc = "fail", !.cat = category] \in WorkerStates
<1> QED  BY <1>1 DEF FailWith, TypeOK, WorkerStates

\* So is the move of a missing transcript.
LEMMA FailMissingMoves ==
  ASSUME TypeOK, NEW s \in Sessions, FailMissing(s)
  PROVE  \E v \in WorkerStates : /\ w' = [w EXCEPT ![s] = v]
                                 /\ v.att = w[s].att /\ v.pc \in {"fail", "unworthy"}
BY GoMoves, FailMoves DEF FailMissing, PCs, Failures, Permanent

\* A rendered revision's move to its plan is a move under the claim.
LEMMA RenderMoves ==
  ASSUME TypeOK, NEW s \in Sessions, NEW kind \in {"real", "placeholder"},
         NEW category \in Failures \cup {None}, Render(s, kind, category)
  PROVE  \E v \in WorkerStates :
           /\ w' = [w EXCEPT ![s] = v] /\ v.att = w[s].att
           /\ v.pc \in {"fail", "unworthy", "plan"}
           /\ v.pc = "plan" => v.new # NoDocument
<1>1. w[s] \in WorkerStates /\ row[s] \in Rows
  BY DEF TypeOK
<1>2. CASE ~tx[s].present
  BY <1>2, FailMissingMoves DEF Render
<1>3. CASE tx[s].present /\ tx[s].ver # w[s].ver
  BY <1>3, FailMoves DEF Render, Failures, Retryable
<1>4. CASE tx[s].present /\ tx[s].ver = w[s].ver
  <2> DEFINE doc == [rev |-> row[s].doc.rev + (IF w[s].quiet THEN 0 ELSE 1),
                     ver |-> w[s].ver, kind |-> kind]
             v   == [w[s] EXCEPT !.pc = "plan", !.cat = category, !.new = doc]
  <2>1. row[s].doc.rev + (IF w[s].quiet THEN 0 ELSE 1) \in Nat
    BY <1>1 DEF Rows, Documents
  <2>2. doc \in Documents /\ doc # NoDocument
    BY <1>1, <2>1 DEF Documents, NoDocument, WorkerStates, None
  <2>3. w' = [w EXCEPT ![s].pc = "plan", ![s].cat = category, ![s].new = doc]
    BY <1>4 DEF Render
  <2> HIDE DEF doc
  <2>4. v \in WorkerStates /\ v.pc = "plan" /\ v.att = w[s].att /\ v.new = doc
    BY <1>1, <2>2 DEF WorkerStates, PCs
  <2>5. w' = [w EXCEPT ![s] = v]
    BY <1>1, <2>3 DEF TypeOK, WorkerStates
  <2> HIDE DEF v
  <2> QED  BY <2>2, <2>4, <2>5
<1> QED  BY <1>2, <1>3, <1>4

\* Loading the session keeps the invariant.
LEMMA LoadStep ==
  ASSUME IInv, NEW s \in Sessions, Load(s)
  PROVE  IInv'
<1> DEFINE Snapshot(pc, quiet) ==
      w' = [w EXCEPT ![s].pc = pc, ![s].ver = tx[s].ver, ![s].quiet = quiet]
<1>1. TypeOK /\ w[s] \in WorkerStates /\ tx[s].ver \in Nat /\ w[s].pc = "load"
      /\ UNCHANGED <<workerVars, row, open, diskVars, judged>>
  BY DEF IInv, TypeOK, Load
<1>2. \/ FailMissing(s) \/ FailWith(s, "transcript-unresolved")
      \/ FailWith(s, "source-oversized") \/ FailWith(s, "source-not-archive-worthy")
      \/ \E pc \in {"nochange", "summarize", "unworthy"}, quiet \in BOOLEAN :
           Snapshot(pc, quiet)
  BY DEF Load
<1>3. CASE FailMissing(s)
  BY <1>1, <1>3, FailMissingMoves, HeldMove
<1>4. ASSUME NEW c \in {"transcript-unresolved", "source-oversized",
                         "source-not-archive-worthy"},
             FailWith(s, c)
      PROVE  IInv'
  BY <1>1, <1>4, FailMoves, HeldMove DEF Failures, Retryable, Permanent
<1>5. ASSUME NEW pc \in {"nochange", "summarize", "unworthy"}, NEW quiet \in BOOLEAN,
             Snapshot(pc, quiet)
      PROVE  IInv'
  <2> DEFINE v == [w[s] EXCEPT !.pc = pc, !.ver = tx[s].ver, !.quiet = quiet]
  <2>1. v \in WorkerStates /\ v.pc = pc /\ v.att = w[s].att
    BY <1>1 DEF WorkerStates, PCs
  <2>2. w' = [w EXCEPT ![s] = v]
    BY <1>1, <1>5 DEF TypeOK, WorkerStates
  <2> HIDE DEF v
  <2> QED  BY <1>1, <2>1, <2>2, HeldMove
<1> QED  BY <1>2, <1>3, <1>4, <1>5

\* The summarizer's outcomes keep the invariant.
LEMMA SummarizeStep ==
  ASSUME IInv, NEW s \in Sessions, Summarize(s)
  PROVE  IInv'
<1>1. TypeOK /\ w[s].pc = "summarize"
      /\ UNCHANGED <<workerVars, row, open, diskVars, judged>>
  BY DEF IInv, Summarize
<1>2. {"summary-failed", "summary-input-limit"} \subseteq Failures
      /\ SummaryErrors \subseteq {"summary-failed", "summary-input-limit"}
  BY DEF SummaryErrors, Failures, Retryable
<1>3. \/ \E kind \in {"real", "placeholder"}, c \in Failures \cup {None} : Render(s, kind, c)
      \/ \E c \in Failures : FailWith(s, c)
      \/ Go(s, "defer")
  BY <1>2 DEF Summarize
<1>4. CASE \E kind \in {"real", "placeholder"}, c \in Failures \cup {None} :
             Render(s, kind, c)
  BY <1>1, <1>4, RenderMoves, HeldMove
<1>5. CASE \E c \in Failures : FailWith(s, c)
  BY <1>1, <1>5, FailMoves, HeldMove
<1>6. CASE Go(s, "defer")
  BY <1>1, <1>6, GoMoves, HeldMove DEF PCs
<1> QED  BY <1>3, <1>4, <1>5, <1>6

\* store_plan puts into the owner's attempt the document to be written.
LEMMA StorePlanStep ==
  ASSUME IInv, NEW s \in Sessions, StorePlan(s)
  PROVE  IInv'
<1> USE DEF workerVars, hookVars, diskVars, sweepVars
<1>1. Good(s) /\ TypeOK /\ w[s] \in WorkerStates /\ w[s].pc = "plan"
      /\ UNCHANGED <<workerVars, row, diskVars, judged>>
  BY DEF IInv, TypeOK, StorePlan
<1>2. PICK a \in open[s] :
        /\ a.id = w[s].att
        /\ open' = [open EXCEPT ![s] = (@ \ {a}) \cup
             {[a EXCEPT !.plan = w[s].new, !.git = GitHistory /\ ~w[s].quiet]}]
  BY DEF StorePlan
<1>3. PICK git \in BOOLEAN : git = (GitHistory /\ ~w[s].quiet)
  OBVIOUS
<1>4. PICK pc \in {"verdict", "replace"} :
        w' = [w EXCEPT ![s].prev = file[s], ![s].pc = pc]
  BY DEF StorePlan
<1> DEFINE b == [a EXCEPT !.plan = w[s].new, !.git = git]
           v == [w[s] EXCEPT !.prev = file[s], !.pc = pc]
<1>5. a \in Attempts /\ file[s] \in Documents
  BY <1>1 DEF TypeOK
<1>6. b \in Attempts /\ b.id = a.id /\ b.plan = w[s].new
  BY <1>1, <1>5 DEF Attempts, WorkerStates
<1>7. v \in WorkerStates /\ v.pc = pc /\ v.prev = file[s] /\ v.new = w[s].new
      /\ v.att = w[s].att
  BY <1>1, <1>5 DEF WorkerStates, PCs
<1>8. w' = [w EXCEPT ![s] = v] /\ open' = [open EXCEPT ![s] = (@ \ {a}) \cup {b}]
  BY <1>1, <1>2, <1>3, <1>4 DEF TypeOK, WorkerStates
<1> HIDE DEF b, v
<1>9. TypeOK' /\ Elsewhere(s)
  BY <1>1, <1>6, <1>7, <1>8 DEF TypeOK, Elsewhere
<1>10. w'[s] = v /\ open'[s] = (open[s] \ {a}) \cup {b}
  BY <1>1, <1>8 DEF TypeOK
<1>11. file[s] = row[s].doc /\ v.new # NoDocument
  BY <1>1, <1>7 DEF Good, FileFollowsWorker, Holding
<1>12. ClaimIsExclusive(s)'
  BY <1>1, <1>2, <1>6, <1>7, <1>10 DEF Good, ClaimIsExclusive, Holding
<1>13. FileFollowsWorker(s)'
  BY <1>1, <1>2, <1>6, <1>7, <1>10, <1>11 DEF Good, FileFollowsWorker, Holding
<1>14. DocumentIsDurable(s)'
  BY <1>1, <1>11 DEF DocumentIsDurable
<1> QED  BY <1>9, <1>12, <1>13, <1>14, OneSession DEF Good

\* The placeholder verdict keeps the claim and the plan.
LEMMA RecordVerdictStep ==
  ASSUME IInv, NEW s \in Sessions, RecordVerdict(s)
  PROVE  IInv'
<1> USE DEF workerVars, hookVars, diskVars, sweepVars
<1>1. Good(s) /\ TypeOK /\ w[s] \in WorkerStates /\ w[s].pc = "verdict"
      /\ row[s] \in Rows /\ w[s].cat \in Failures \cup {None}
      /\ UNCHANGED <<workerVars, open, diskVars, judged>>
      /\ w' = [w EXCEPT ![s].pc = "replace"]
  BY DEF IInv, TypeOK, RecordVerdict, Go, WorkerStates
<1>2. PICK a \in open[s] : SetRow(s, VerdictRow(row[s], a, w[s].cat))
  BY DEF RecordVerdict
<1>3. KeepsClaim(row[s], VerdictRow(row[s], a, w[s].cat))
  BY <1>1, VerdictKeeps DEF TypeOK
<1>4. RowsKept
  BY <1>1, <1>2, <1>3, SetRowKeeps
<1>5. /\ w' \in [Sessions -> WorkerStates] /\ w'[s].pc = "replace"
      /\ w'[s].att = w[s].att /\ w'[s].new = w[s].new /\ w'[s].prev = w[s].prev
  BY <1>1 DEF TypeOK, WorkerStates, PCs
<1>6. TypeOK' /\ Elsewhere(s)
  BY <1>1, <1>2, <1>4, <1>5 DEF TypeOK, Elsewhere, RowsKept, SetRow
<1>7. Good(s)'
  BY <1>1, <1>4, <1>5
  DEF Good, ClaimIsExclusive, DocumentIsDurable, FileFollowsWorker, Planned,
      Holding, RowsKept, KeepsClaim
<1> QED  BY <1>6, <1>7, OneSession

\* A worker that leaves on an error after touching the file: the file is
\* still the recorded document or its own plan.
LEMMA ErrorExitGood ==
  ASSUME IInv, NEW s \in Sessions, ErrorExit(s), UNCHANGED <<workerVars, open, judged>>,
         file' \in [Sessions -> Documents], gitlog' \in [Sessions -> SUBSET Documents],
         \A x \in Sessions \ {s} : file'[x] = file[x],
         \/ file'[s] = file[s]
         \/ file'[s] = row[s].doc
         \/ \E a \in Planned(s) : a.id = row[s].token /\ a.plan = file'[s]
  PROVE  IInv'
<1> USE DEF workerVars, hookVars, sweepVars
<1>1. TypeOK /\ Good(s)
  BY DEF IInv
<1>2. /\ RowsKept /\ w' \in [Sessions -> WorkerStates]
      /\ w' = [w EXCEPT ![s] = Idle]
      /\ \A x \in Sessions \ {s} : row'[x] = row[x] /\ w'[x] = w[x]
  BY <1>1, ErrorExitTypes
<1>3. TypeOK' /\ Elsewhere(s)
  BY <1>1, <1>2 DEF TypeOK, Elsewhere, RowsKept
<1>4. w'[s].pc = "idle"
  BY <1>1, <1>2 DEF TypeOK, Idle
<1>5. Good(s)'
  BY <1>1, <1>2, <1>4
  DEF Good, ClaimIsExclusive, DocumentIsDurable, FileFollowsWorker, Planned,
      Holding, RowsKept, KeepsClaim
<1> QED  BY <1>3, <1>5, OneSession

\* While a worker writes, its plan is in the row of its attempt, and its
\* attempt owns the row of the session.
LEMMA WriterOwnsPlan ==
  ASSUME IInv, NEW s \in Sessions, w[s].pc \in {"replace", "commit"}
  PROVE  \E a \in Planned(s) : a.id = row[s].token /\ a.plan = w[s].new
BY DEF IInv, Good, ClaimIsExclusive, FileFollowsWorker, Planned, Holding

\* The write of the file puts the owner's plan on disk, or nothing.
LEMMA ReplaceStep ==
  ASSUME IInv, NEW s \in Sessions, Replace(s)
  PROVE  IInv'
<1> USE DEF workerVars, hookVars, sweepVars
<1>1. Good(s) /\ TypeOK /\ w[s] \in WorkerStates /\ w[s].pc = "replace"
      /\ w[s].new \in Documents /\ file \in [Sessions -> Documents]
      /\ UNCHANGED <<workerVars, open, gitlog, judged>>
  BY DEF IInv, TypeOK, Replace, WorkerStates
<1>2. \E a \in Planned(s) : a.id = row[s].token /\ a.plan = w[s].new
  BY <1>1, WriterOwnsPlan
<1>3. ASSUME file' = [file EXCEPT ![s] = w[s].new], UNCHANGED row,
             NEW pc \in {"commit", "complete"}, Go(s, pc)
      PROVE  IInv'
  <2>1. /\ w' = [w EXCEPT ![s].pc = pc] /\ w' \in [Sessions -> WorkerStates]
        /\ w'[s].pc = pc /\ w'[s].att = w[s].att
        /\ w'[s].new = w[s].new /\ w'[s].prev = w[s].prev
    BY <1>1, <1>3 DEF Go, TypeOK, WorkerStates, PCs
  <2>2. file' \in [Sessions -> Documents] /\ file'[s] = w[s].new
        /\ \A x \in Sessions \ {s} : file'[x] = file[x]
    BY <1>1, <1>3
  <2>3. TypeOK' /\ Elsewhere(s)
    BY <1>1, <1>3, <2>1, <2>2 DEF TypeOK, Elsewhere
  <2>4. DocumentIsDurable(s)'
    BY <1>1, <1>2, <1>3, <2>2 DEF DocumentIsDurable, Planned
  <2>5. ClaimIsExclusive(s)' /\ FileFollowsWorker(s)'
    BY <1>1, <1>3, <2>1, <2>2
    DEF Good, ClaimIsExclusive, FileFollowsWorker, Holding
  <2> QED  BY <2>3, <2>4, <2>5, OneSession DEF Good
<1>4. CASE FailWith(s, "archive-write-failed") /\ UNCHANGED <<file, row>>
  <2>1. PICK v \in WorkerStates : /\ w' = [w EXCEPT ![s] = v]
                                  /\ v.att = w[s].att /\ v.pc = "fail"
    BY <1>1, <1>4, FailMoves DEF Failures, Permanent
  <2>2. TypeOK' /\ Elsewhere(s) /\ w'[s] = v
    BY <1>1, <1>4, <2>1 DEF TypeOK, Elsewhere
  <2>3. Good(s)'
    BY <1>1, <1>4, <2>1, <2>2
    DEF Good, ClaimIsExclusive, DocumentIsDurable, FileFollowsWorker, Planned, Holding
  <2> QED  BY <2>2, <2>3, OneSession
<1>5. CASE file' = [file EXCEPT ![s] = w[s].new] /\ ErrorExit(s)
  <2>1. file' \in [Sessions -> Documents] /\ file'[s] = w[s].new
        /\ \A x \in Sessions \ {s} : file'[x] = file[x]
    BY <1>1, <1>5
  <2>2. gitlog' \in [Sessions -> SUBSET Documents]
    BY <1>1 DEF TypeOK
  <2> QED  BY <1>1, <1>2, <1>5, <2>1, <2>2, ErrorExitGood
<1> QED  BY <1>3, <1>4, <1>5 DEF Replace

\* A failed commit puts the recorded document back.
LEMMA CommitStep ==
  ASSUME IInv, NEW s \in Sessions, Commit(s)
  PROVE  IInv'
<1> USE DEF workerVars, hookVars, sweepVars
<1>1. Good(s) /\ TypeOK /\ w[s] \in WorkerStates /\ w[s].pc = "commit"
      /\ w[s].prev \in Documents /\ file \in [Sessions -> Documents]
      /\ UNCHANGED <<workerVars, open, judged>>
  BY DEF IInv, TypeOK, Commit, WorkerStates
<1>2. CASE CommitRevision(s, w[s].new.rev) /\ Go(s, "complete") /\ UNCHANGED <<file, row>>
  <2>1. /\ w' = [w EXCEPT ![s].pc = "complete"] /\ w' \in [Sessions -> WorkerStates]
        /\ w'[s].pc = "complete" /\ w'[s].new = w[s].new
    BY <1>1, <1>2 DEF Go, TypeOK, WorkerStates, PCs
  <2>2. TypeOK' /\ Elsewhere(s)
    BY <1>1, <1>2, <2>1, CommitTypes DEF TypeOK, Elsewhere
  <2>3. Good(s)'
    BY <1>1, <1>2, <2>1
    DEF Good, ClaimIsExclusive, DocumentIsDurable, FileFollowsWorker, Planned, Holding
  <2> QED  BY <2>2, <2>3, OneSession
<1>3. ASSUME Rollback(s), NEW c \in {"archive-git-busy", "archive-git-failed"},
             FailWith(s, c), UNCHANGED <<gitlog, row>>
      PROVE  IInv'
  <2>1. PICK v \in WorkerStates : /\ w' = [w EXCEPT ![s] = v]
                                  /\ v.att = w[s].att /\ v.pc = "fail"
    BY <1>1, <1>3, FailMoves DEF Failures, Retryable, Permanent
  <2>2. file' \in [Sessions -> Documents] /\ file'[s] = w[s].prev
        /\ \A x \in Sessions \ {s} : file'[x] = file[x]
    BY <1>1, <1>3 DEF Rollback
  <2>3. TypeOK' /\ Elsewhere(s) /\ w'[s] = v
    BY <1>1, <1>3, <2>1, <2>2 DEF TypeOK, Elsewhere
  <2>4. file'[s] = row'[s].doc
    BY <1>1, <1>3, <2>2 DEF Good, FileFollowsWorker
  <2>5. ClaimIsExclusive(s)' /\ FileFollowsWorker(s)'
    BY <1>1, <1>3, <2>1, <2>3, <2>4
    DEF Good, ClaimIsExclusive, FileFollowsWorker, Holding
  <2> QED  BY <2>3, <2>4, <2>5, OneSession DEF Good, DocumentIsDurable
<1>4. CASE ErrorExit(s) /\ (Rollback(s) \/ UNCHANGED file) /\ UNCHANGED gitlog
  <2>1. w[s].prev = row[s].doc
    BY <1>1 DEF Good, FileFollowsWorker
  <2>2. /\ file' \in [Sessions -> Documents]
        /\ file'[s] = file[s] \/ file'[s] = row[s].doc
        /\ \A x \in Sessions \ {s} : file'[x] = file[x]
    BY <1>1, <1>4, <2>1 DEF Rollback
  <2>3. gitlog' \in [Sessions -> SUBSET Documents]
    BY <1>1, <1>4 DEF TypeOK
  <2> QED  BY <1>1, <1>4, <2>2, <2>3, ErrorExitGood
<1> QED  BY <1>2, <1>3, <1>4 DEF Commit

\* A completion records exactly the file.
LEMMA CompleteStep ==
  ASSUME IInv, NEW s \in Sessions, Complete(s)
  PROVE  IInv'
<1>1. Good(s) /\ TypeOK /\ w[s] \in WorkerStates /\ w[s].pc = "complete"
      /\ row[s] \in Rows /\ w[s].new \in Documents
      /\ w[s].cat \in Failures \cup {None}
      /\ UNCHANGED <<workerVars, diskVars, judged>>
  BY DEF IInv, TypeOK, Complete, WorkerStates
<1>2. PICK a \in open[s] :
        /\ a.id = w[s].att
        /\ IF row[s].token = a.id
           THEN LET r == CompleteRow(row[s], a, w[s].new)
                IN  /\ SetRow(s, IF w[s].new.kind = "placeholder"
                                 THEN VerdictRow(r, a, w[s].cat) ELSE r)
                    /\ open' = [open EXCEPT ![s] = @ \ {a}]
                    /\ Exit(s)
           ELSE ErrorExit(s) /\ UNCHANGED open
  BY DEF Complete
<1>3. CASE row[s].token # a.id
  BY <1>1, <1>2, <1>3, ErrorExitGood DEF diskVars, TypeOK
<1>4. CASE row[s].token = a.id
  <2> USE DEF workerVars, hookVars, sweepVars, diskVars
  <2> DEFINE r == CompleteRow(row[s], a, w[s].new)
             q == IF w[s].new.kind = "placeholder"
                  THEN VerdictRow(r, a, w[s].cat) ELSE r
  <2>1. a \in Attempts
    BY <1>1 DEF TypeOK
  <2>2. r \in Rows /\ r.token = 0 /\ r.doc = w[s].new /\ r.life # "processing"
    BY <1>1, <2>1, CompleteEnds DEF EndsClaim, Rows
  <2> HIDE DEF r
  <2>3. q \in Rows /\ q.token = 0 /\ q.doc = w[s].new /\ q.life # "processing"
    BY <1>1, <2>1, <2>2, VerdictKeeps DEF KeepsClaim
  <2>4. /\ row' = [row EXCEPT ![s] = q] /\ open' = [open EXCEPT ![s] = @ \ {a}]
        /\ w' = [w EXCEPT ![s] = Idle]
    BY <1>2, <1>4 DEF SetRow, Exit, r
  <2> HIDE DEF q
  <2>5. TypeOK' /\ Elsewhere(s)
    BY <1>1, <2>3, <2>4, IdleTypes DEF TypeOK, Elsewhere
  <2>6. /\ row'[s] = q /\ open'[s] = open[s] \ {a} /\ w'[s].pc = "idle"
        /\ file'[s] = w[s].new
    BY <1>1, <2>4 DEF TypeOK, Idle, Good, FileFollowsWorker
  <2>7. Good(s)'
    BY <1>1, <2>3, <2>6
    DEF Good, ClaimIsExclusive, DocumentIsDurable, FileFollowsWorker, Holding
  <2> QED  BY <2>5, <2>7, OneSession
<1> QED  BY <1>3, <1>4

\* The settlements that write no document leave the recorded one on disk.
LEMMA SettleStep ==
  ASSUME IInv, NEW s \in Sessions, Settle(s)
  PROVE  IInv'
<1> USE DEF workerVars, hookVars, sweepVars, diskVars
<1>1. Good(s) /\ TypeOK /\ w[s] \in WorkerStates /\ row[s] \in Rows
      /\ w[s].cat \in Failures \cup {None}
      /\ w[s].pc \in {"defer", "nochange", "unworthy", "fail"}
      /\ UNCHANGED <<workerVars, diskVars>> /\ w' = [w EXCEPT ![s] = Idle]
  BY DEF IInv, TypeOK, Settle, Exit, WorkerStates
<1>2. /\ EndsClaim(row[s], row'[s]) /\ row' \in [Sessions -> Rows]
      /\ open'[s] \subseteq open[s] /\ open' \in [Sessions -> SUBSET Attempts]
      /\ \A x \in Sessions \ {s} : row'[x] = row[x] /\ open'[x] = open[x]
  <2>1. CASE AbandonLatest(s, "deferred")
    BY <2>1, AbandonLatestEnds DEF Labels
  <2>2. ASSUME NEW a \in open[s], a.id = w[s].att,
               open' = [open EXCEPT ![s] = @ \ {a}],
               \/ SetRow(s, NoChangeRow(row[s], a))
               \/ SetRow(s, NotWorthyRow(row[s], a))
               \/ SetRow(s, FailRow(row[s], a, w[s].cat)),
               w[s].pc \in {"nochange", "unworthy", "fail"}
        PROVE  /\ EndsClaim(row[s], row'[s]) /\ row' \in [Sessions -> Rows]
               /\ open'[s] \subseteq open[s] /\ open' \in [Sessions -> SUBSET Attempts]
               /\ \A x \in Sessions \ {s} : row'[x] = row[x] /\ open'[x] = open[x]
    <3>1. row[s].token = a.id /\ a \in Attempts
      BY <1>1, <2>2 DEF Good, ClaimIsExclusive, Holding, TypeOK
    <3>2. PICK q : SetRow(s, q) /\ EndsClaim(row[s], q)
      BY <1>1, <2>2, <3>1, SettlementEnds
    <3> QED  BY <1>1, <2>2, <3>2 DEF SetRow, EndsClaim, TypeOK
  <2> QED  BY <2>1, <2>2 DEF Settle
<1>3. judged' \in [Sessions -> Nat]
  BY <1>1 DEF Settle, TypeOK, WorkerStates
<1>4. TypeOK' /\ Elsewhere(s)
  BY <1>1, <1>2, <1>3, IdleTypes DEF TypeOK, Elsewhere
<1>5. w'[s].pc = "idle" /\ file'[s] = row'[s].doc
  BY <1>1, <1>2 DEF TypeOK, Idle, Good, FileFollowsWorker, Holding, EndsClaim
<1>6. Good(s)'
  BY <1>1, <1>2, <1>5
  DEF Good, ClaimIsExclusive, DocumentIsDurable, FileFollowsWorker, Holding, EndsClaim
<1> QED  BY <1>4, <1>6, OneSession

\* A worker that dies leaves its claim, plan and file as they are.
LEMMA WorkerDiesStep ==
  ASSUME IInv, NEW s \in Sessions, WorkerDies(s)
  PROVE  IInv'
<1> USE DEF workerVars, hookVars, sweepVars, diskVars
<1>1. Good(s) /\ TypeOK /\ row[s] \in Rows
      /\ UNCHANGED <<hookVars, sweepVars, row, open, diskVars, judged>>
      /\ crashes' \in Nat /\ spawned' \subseteq Sessions
  BY DEF IInv, TypeOK, WorkerDies
<1>2. CASE w' = w
  <2>1. TypeOK' /\ Elsewhere(s) /\ Good(s)'
    BY <1>1, <1>2 DEF TypeOK, Elsewhere, Good, ClaimIsExclusive,
                      DocumentIsDurable, FileFollowsWorker, Planned
  <2> QED  BY <2>1, OneSession
<1>3. CASE w' = [w EXCEPT ![s] = Idle]
  <2>1. TypeOK' /\ Elsewhere(s)
    BY <1>1, <1>3, IdleTypes DEF TypeOK, Elsewhere
  <2>2. Good(s)'
    BY <1>1, <1>3, ReservationKeeps, ExitIsGood
  <2> QED  BY <2>1, <2>2, OneSession
<1> QED  BY <1>2, <1>3 DEF WorkerDies, Exit

\* A second worker that finds the lock taken changes nothing.
LEMMA LockBusyStep ==
  ASSUME IInv, NEW s \in Sessions, WorkerFindsLockBusy(s)
  PROVE  TypeOK' /\ RowsKept /\ UNCHANGED <<open, file, w>>
BY NoRowKeeps
DEF IInv, WorkerFindsLockBusy, hookVars, sweepVars, diskVars, TypeOK, RowsKept

-----------------------------------------------------------------------------
(* The invariant is inductive.                                              *)

\* The initial state satisfies the invariant.
LEMMA InitInv == Init => IInv
<1> SUFFICES ASSUME Init PROVE IInv
  OBVIOUS
<1>1. NoRow \in Rows
  BY DEF NoRow, Rows, Lives, Pending, Labels, NoDocument, Documents
<1>2. TypeOK
  BY <1>1, IdleTypes DEF Init, TypeOK
<1>3. ASSUME NEW s \in Sessions PROVE Good(s)
  BY DEF Init, Good, ClaimIsExclusive, DocumentIsDurable, FileFollowsWorker,
         Holding, Idle, NoRow
<1> QED  BY <1>2, <1>3 DEF IInv

\* Every step of a worker keeps the invariant.
LEMMA WorkerStep ==
  ASSUME IInv, NEW s \in Sessions, Worker(s)
  PROVE  IInv'
BY WorkerStartsStep, ReconcileStep, RecommitStep, AbandonStep, LiftStep, GateStep,
   ClaimStep, LoadStep, SummarizeStep, StorePlanStep, RecordVerdictStep,
   ReplaceStep, CommitStep, CompleteStep, SettleStep
DEF Worker

\* Every step keeps the invariant.
LEMMA StepInv == IInv /\ [Next]_vars => IInv'
<1> SUFFICES ASSUME IInv, [Next]_vars PROVE IInv'
  OBVIOUS
<1>1. TypeOK
  BY DEF IInv
<1>2. ASSUME TypeOK', RowsKept, UNCHANGED <<open, file, w>> PROVE IInv'
  BY <1>2, UnlockedStepsAreGood DEF IInv
<1>3. CASE SweepBegins
  BY <1>1, <1>2, <1>3, SweepBeginsSteps
<1>4. ASSUME NEW s \in Sessions, Agent(s) \/ Sweep(s) \/ Operator(s) PROVE IInv'
  BY <1>1, <1>2, <1>4, AgentSteps, SweepSteps
<1>5. ASSUME NEW s \in Sessions, Time(s) PROVE IInv'
  <2>1. CASE BackoffElapses(s) \/ ReservationGoesStale(s)
    BY <1>1, <1>2, <2>1, WaitingSteps
  <2>2. CASE LeaseExpires(s)
    <3>1. TypeOK' /\ Good(s)'
      BY <2>2, LeaseStep
    <3>2. Elsewhere(s)
      BY <1>1, <2>2 DEF LeaseExpires, Elsewhere, diskVars, TypeOK
    <3> QED  BY <3>1, <3>2, OneSession
  <2> QED  BY <1>5, <2>1, <2>2 DEF Time
<1>6. ASSUME NEW s \in Sessions, WorkerFindsLockBusy(s) PROVE IInv'
  BY <1>2, <1>6, LockBusyStep
<1>7. CASE UNCHANGED vars
  <2>1. TypeOK' /\ UNCHANGED <<row, open, file, w>>
    BY <1>1, <1>7 DEF vars, TypeOK
  <2> QED  BY <1>1, <1>2, <2>1, NoRowKeeps
<1> QED
  BY <1>3, <1>4, <1>5, <1>6, <1>7, WorkerStep, WorkerDiesStep DEF Next

\* Types, claims and files are as the invariant says, forever.
THEOREM Invariance == Spec => []IInv
BY InitInv, StepInv, PTL DEF Spec

\* Every variable keeps its type.
THEOREM TypeCorrect == Spec => []TypeOK
<1>1. IInv => TypeOK
  BY DEF IInv
<1> QED  BY <1>1, Invariance, PTL

\* Hooks, sweeps, retries, expired leases and dead processes notwithstanding,
\* a worker under a claim owns its session's row, and every row in processing
\* has an open attempt that owns it.
THEOREM ClaimsAreExclusive == Spec => []ClaimDiscipline
<1>1. IInv => ClaimDiscipline
  BY DEF IInv, Good, ClaimDiscipline
<1> QED  BY <1>1, Invariance, PTL

\* The Markdown on disk is the recorded document or the stored plan of the
\* row's owner, through every crash, failed write and failed commit.
THEOREM RecordsAreDurable == Spec => []DurableRecord
<1>1. IInv => DurableRecord
  BY DEF IInv, Good, DurableRecord
<1> QED  BY <1>1, Invariance, PTL

\* A worker past its reconciliation reads, and restores, the recorded document.
THEOREM FilesFollowWorkers == Spec => []FileDiscipline
<1>1. IInv => FileDiscipline
  BY DEF IInv, Good, FileDiscipline
<1> QED  BY <1>1, Invariance, PTL
=============================================================================
