---------------------------- MODULE ArchiveWorker ----------------------------
(***************************************************************************)
(* The local archival pipeline of munshi: hook ingestion, the recovery      *)
(* sweep, the per-session archive worker and `munshi retry`, over the       *)
(* SQLite rows of SessionRow, the Markdown archive and its git history.     *)
(*                                                                          *)
(* Every SQLite transaction is one step, and so is every write of a file,   *)
(* so hooks, sweeps and workers of different processes interleave between   *)
(* them, and a worker may die between any two.  The flock a worker holds on *)
(* its session is `w[s].pc # "idle"`: the kernel drops it with the process. *)
(*                                                                          *)
(* Simplified: every row has an origin (the origin-less hydration of issue  *)
(* #39 is not here), one source, one project; time is three events (a       *)
(* backoff, a reservation or a lease runs out); the contents of a           *)
(* transcript are its version number.                                       *)
(***************************************************************************)
EXTENDS SessionRow, FiniteSets

CONSTANTS
  Sessions,
  MaxConcurrency,   \* policy.max_concurrency
  GitHistory,       \* archive_git_history
  WorthyFrom,       \* first transcript version that is archive-worthy
  MaxVersion,       \* bound: versions a transcript reaches
  MaxGeneration,    \* bound: hooks stop at this state_generation
  MaxRevision,      \* bound: the operator retries below this revision
  MaxAttempts,      \* bound: attempt ids of one session
  MaxCrashes,       \* bound: processes that die
  Env               \* external outcomes that may happen, see EnvKinds

EnvKinds == {"unreported", "late-hooks", "unresolved", "vanish", "oversized",
             "rewrite", "exhaust", "defer", "no-events", "timeout", "reject",
             "input-limit", "write-fails", "git-fails", "spawn-fails", "overrun",
             "phantom", "operator", "force", "lose", "return", "settle"}

ASSUME ArchiveWorkerAssumption ==
  /\ MaxConcurrency \in Nat \ {0}
  /\ GitHistory \in BOOLEAN
  /\ {WorthyFrom, MaxVersion, MaxGeneration, MaxRevision, MaxAttempts,
      MaxCrashes} \subseteq Nat
  /\ Env \subseteq EnvKinds

VARIABLES
  tx,         \* transcript of a session: [ver, present]
  row,        \* its row of `sessions`
  open,       \* its open rows of processing_attempts
  seen,       \* the recovery evidence already in source_observations
  file,       \* its Markdown archive on disk
  gitlog,     \* the revisions committed to the archive repository
  w,          \* the worker that holds its session lock
  spawned,    \* sessions with a worker process launched and not yet running
  worklist,   \* the lists of the sweep and of settle-lost, read before they write
  crashes,    \* processes that have died
  evidence,   \* history: transcript version at the last evidence recorded
  judged      \* history: version the last not-archive-worthy verdict read

vars == <<tx, row, open, seen, file, gitlog, w, spawned, worklist, crashes,
          evidence, judged>>
hookVars == <<tx, evidence>>
diskVars == <<file, gitlog>>
sweepVars == <<seen, worklist>>

PCs == {"idle", "reconcile", "recommit", "abandon", "lift", "gate", "claim",
        "load", "summarize", "plan", "verdict", "replace", "commit", "complete",
        "nochange", "unworthy", "defer", "fail"}

\* att, ver, quiet: claim, snapshot, and whether the delta had no events;
\* new, prev: rendered document and the file it replaces; cat: the failure.
WorkerStates == [pc : PCs, att : Nat, ver : Nat, quiet : BOOLEAN,
                 new : Documents, prev : Documents, cat : Failures \cup {None}]
Idle == [pc |-> "idle", att |-> 0, ver |-> 0, quiet |-> FALSE,
         new |-> NoDocument, prev |-> NoDocument, cat |-> None]

Init ==
  /\ tx = [s \in Sessions |-> [ver |-> 0, present |-> FALSE]]
  /\ row = [s \in Sessions |-> NoRow]
  /\ open = [s \in Sessions |-> {}]
  /\ seen = [s \in Sessions |-> {}]
  /\ file = [s \in Sessions |-> NoDocument]
  /\ gitlog = [s \in Sessions |-> {}]
  /\ w = [s \in Sessions |-> Idle]
  /\ spawned = {}
  /\ worklist = [stale |-> {}, unresolved |-> {}, observed |-> {}, lost |-> {}]
  /\ crashes = 0
  /\ evidence = [s \in Sessions |-> 0]
  /\ judged = [s \in Sessions |-> 0]

-----------------------------------------------------------------------------
(* The agent, its hooks and time.                                           *)

SetRow(s, r) == row' = [row EXCEPT ![s] = r]
LeaseExpired(s) == \E a \in open[s] : ~a.live

\* Commits r and, when its transaction reserves a worker, launches it: the
\* launch may fail, which clears the reservation, or die before it happens.
HandOff(s, r, reserves) ==
  \/ /\ ~reserves
     /\ SetRow(s, r)
     /\ UNCHANGED <<spawned, crashes>>
  \/ /\ reserves
     /\ \/ /\ SetRow(s, ReserveRow(r))
           /\ spawned' = spawned \cup {s}
           /\ UNCHANGED crashes
        \/ /\ "spawn-fails" \in Env
           /\ SetRow(s, ClearReservationRow(r))
           /\ UNCHANGED <<spawned, crashes>>
        \/ /\ crashes < MaxCrashes
           /\ SetRow(s, ReserveRow(r))
           /\ crashes' = crashes + 1
           /\ UNCHANGED spawned

\* A turn ends: the agent has written to the transcript and its stop hook runs.
AgentStop(s) ==
  /\ tx[s].ver < MaxVersion
  /\ row[s].gen < MaxGeneration
  /\ tx' = [tx EXCEPT ![s] = [ver |-> @.ver + 1, present |-> TRUE]]
  /\ evidence' = [evidence EXCEPT ![s] = tx[s].ver + 1]
  /\ SetRow(s, AgentStopRow(row[s], TRUE))
  /\ UNCHANGED <<open, sweepVars, diskVars, w, spawned, crashes, judged>>

\* A stop hook that commits after other evidence of the session, carrying the
\* timestamp of its own turn: nothing is written to the transcript meanwhile.
LateAgentStop(s) ==
  /\ "late-hooks" \in Env
  /\ row[s].ended /\ row[s].gen < MaxGeneration
  /\ SetRow(s, AgentStopRow(row[s], FALSE))
  /\ evidence' = [evidence EXCEPT ![s] = tx[s].ver]
  /\ UNCHANGED <<tx, open, sweepVars, diskVars, w, spawned, crashes, judged>>

\* The session ends, possibly after the last turn wrote once more; a phantom
\* invocation ends with no transcript.  A row in processing is left to its
\* claim, expired or not.
SessionEnd(s) ==
  /\ row[s].gen < MaxGeneration
  /\ \E resolved \in {TRUE} \cup (IF "unresolved" \in Env THEN {FALSE} ELSE {}),
        newest \in {TRUE} \cup (IF "late-hooks" \in Env THEN {FALSE} ELSE {}),
        grows \in 0 .. 1 :
       /\ tx[s].ver + grows <= MaxVersion
       /\ "phantom" \in Env \/ tx[s].ver + grows > 0
       /\ tx' = [tx EXCEPT ![s] = [ver |-> @.ver + grows,
                                   present |-> @.present \/ grows = 1]]
       /\ evidence' = [evidence EXCEPT ![s] = tx[s].ver + grows]
       /\ LET r == SessionEndRow(row[s], resolved, newest)
          IN  HandOff(s, r, Reservable(r, FALSE, FALSE))
  /\ UNCHANGED <<open, sweepVars, diskVars, w, judged>>

\* The agent writes and no hook follows: none was installed, or it was killed.
WriteUnreported(s) ==
  /\ "unreported" \in Env
  /\ tx[s].ver < MaxVersion
  /\ tx' = [tx EXCEPT ![s] = [ver |-> @.ver + 1, present |-> TRUE]]
  /\ UNCHANGED <<row, open, sweepVars, diskVars, w, spawned, crashes, evidence, judged>>

\* "lose": only of a session that has been archived.
TranscriptVanishes(s) ==
  /\ "vanish" \in Env \/ ("lose" \in Env /\ row[s].doc.rev > 0)
  /\ tx[s].present
  /\ tx' = [tx EXCEPT ![s].present = FALSE]
  /\ UNCHANGED <<row, open, sweepVars, diskVars, w, spawned, crashes, evidence, judged>>

\* Restored from a backup, or put back by the agent.  Bound: not before the
\* operator has looked for it.
TranscriptReturns(s) ==
  /\ "return" \in Env
  /\ row[s].lost \/ s \in worklist.lost
  /\ tx[s].ver > 0 /\ ~tx[s].present
  /\ tx' = [tx EXCEPT ![s].present = TRUE]
  /\ UNCHANGED <<row, open, sweepVars, diskVars, w, spawned, crashes, evidence, judged>>

BackoffElapses(s) ==
  /\ row[s].nextRetry = "later"
  /\ SetRow(s, [row[s] EXCEPT !.nextRetry = "now"])
  /\ UNCHANGED <<hookVars, open, sweepVars, diskVars, w, spawned, crashes, judged>>

ReservationGoesStale(s) ==
  /\ row[s].resv = "fresh"
  /\ SetRow(s, [row[s] EXCEPT !.resv = "stale"])
  /\ UNCHANGED <<hookVars, open, sweepVars, diskVars, w, spawned, crashes, judged>>

\* A lease is the summarizer timeout and a minute.  It outlives a run of one
\* call, unless .munshi.toml raises the timeout over the one the lease is
\* computed from, and not a chunked run of many calls ("overrun").
LeaseExpires(s) ==
  /\ \E a \in open[s] :
       /\ a.live
       /\ "overrun" \in Env \/ w[s].att # a.id
       /\ open' = [open EXCEPT ![s] = (@ \ {a}) \cup {[a EXCEPT !.live = FALSE]}]
  /\ UNCHANGED <<hookVars, row, sweepVars, diskVars, w, spawned, crashes, judged>>

-----------------------------------------------------------------------------
(* run_recovery and `munshi retry`.                                         *)

\* The lists are read up front, so their sessions may have moved on when the
\* sweep reaches them.
SweepBegins ==
  /\ worklist.stale = {} /\ worklist.unresolved = {} /\ worklist.observed = {}
  /\ worklist' =
       [worklist EXCEPT
          !.stale = {s \in Sessions : /\ row[s].active /\ row[s].path
                                      /\ row[s].stopNewer},
          !.unresolved = {s \in Sessions : /\ ~row[s].path
                                           /\ row[s].life \in Pending \cup {"failed"}},
          !.observed = {s \in Sessions : StuckObserved(row[s]) /\ ~row[s].lost}]
  /\ worklist' # worklist
  /\ UNCHANGED <<hookVars, row, open, seen, diskVars, w, spawned, crashes, judged>>

\* One recovery-scan observation of the transcript, deduplicated on its bytes.
Observe(s, kind, r) ==
  LET key == <<kind, tx[s].ver>>
  IN  IF key \in seen[s] THEN UNCHANGED <<row, seen, spawned, crashes, evidence>>
      ELSE /\ seen' = [seen EXCEPT ![s] = @ \cup {key}]
           /\ evidence' = [evidence EXCEPT ![s] = tx[s].ver]
           /\ HandOff(s, r, Reservable(r, LeaseExpired(s), FALSE))

\* mark_recovery_interrupted for a listed session whose transcript is quiet.
SweepStale(s) ==
  /\ s \in worklist.stale
  /\ worklist' = [worklist EXCEPT !.stale = @ \ {s}]
  /\ IF tx[s].present THEN Observe(s, "scan", MarkInterruptedRow(row[s]))
     ELSE UNCHANGED <<row, seen, spawned, crashes, evidence>>
  /\ UNCHANGED <<tx, open, diskVars, w, judged>>

\* attach_recovered_transcript for a listed session whose file resolves.
SweepUnresolved(s) ==
  /\ s \in worklist.unresolved
  /\ worklist' = [worklist EXCEPT !.unresolved = @ \ {s}]
  /\ IF tx[s].present THEN Observe(s, "path", AttachRow(row[s]))
     ELSE UNCHANGED <<row, seen, spawned, crashes, evidence>>
  /\ UNCHANGED <<tx, open, diskVars, w, judged>>

\* rescue_observed_session re-checks the stuck shape in its transaction, but
\* not whether the row was settled as lost since the list was read.
SweepObserved(s) ==
  /\ s \in worklist.observed
  /\ worklist' = [worklist EXCEPT !.observed = @ \ {s}]
  /\ IF tx[s].present /\ StuckObserved(row[s])
     THEN Observe(s, "observed", RescueRow(row[s]))
     ELSE UNCHANGED <<row, seen, spawned, crashes, evidence>>
  /\ UNCHANGED <<tx, open, diskVars, w, judged>>

\* discover_unknown_sessions: a transcript on disk that has no row.
SweepDiscovers(s) ==
  /\ row[s].life = "absent" /\ tx[s].present
  /\ Observe(s, "scan", MarkInterruptedRow(row[s]))
  /\ UNCHANGED <<tx, worklist, open, diskVars, w, judged>>

\* lift_stale_source_limit_parks, once the operator has raised the limit.
SweepLifts(s) ==
  /\ LiftSourceLimitPark(row[s]) # row[s] /\ tx[s].present
  /\ SetRow(s, LiftSourceLimitPark(row[s]))
  /\ UNCHANGED <<hookVars, open, sweepVars, diskVars, w, spawned, crashes, judged>>

\* build_settle_lost_report: the operator's command looks for the transcript of
\* each parked session first, and settles in a transaction of its own.
SettleChecks(s) ==
  /\ "settle" \in Env /\ s \notin worklist.lost
  /\ Parked(row[s]) /\ row[s].err = "source-missing" /\ ~tx[s].present
  /\ worklist' = [worklist EXCEPT !.lost = @ \cup {s}]
  /\ UNCHANGED <<hookVars, row, open, seen, diskVars, w, spawned, crashes, judged>>

SettleLost(s) ==
  /\ s \in worklist.lost
  /\ worklist' = [worklist EXCEPT !.lost = @ \ {s}]
  /\ SetRow(s, SettleLostRow(row[s]))
  /\ UNCHANGED <<hookVars, open, seen, diskVars, w, spawned, crashes, judged>>

\* reactivate_regrown_lost_transcripts
SweepReactivates(s) ==
  /\ LiftLostRow(row[s]) # row[s] /\ row[s].path /\ tx[s].present
  /\ SetRow(s, LiftLostRow(row[s]))
  /\ UNCHANGED <<hookVars, open, sweepVars, diskVars, w, spawned, crashes, judged>>

\* reserve_eligible_workers; force: `munshi retry --all --force`.
SweepReserves(s) ==
  /\ \E force \in {FALSE} \cup (IF "force" \in Env THEN {TRUE} ELSE {}) :
       /\ force => row[s].doc.rev < MaxRevision
       /\ Reservable(row[s], LeaseExpired(s), force)
       /\ HandOff(s, IF force THEN ForceLift(row[s]) ELSE row[s], TRUE)
  /\ UNCHANGED <<hookVars, sweepVars, open, diskVars, w, judged>>

\* build_retry_report: lift the park, reserve, then run a worker in any case.
Retry(s) ==
  /\ "operator" \in Env /\ row[s].doc.rev < MaxRevision
  /\ row[s].life \in Pending \cup {"failed", "processing"}
  /\ s \notin spawned
  /\ \E force \in {FALSE} \cup (IF "force" \in Env THEN {TRUE} ELSE {}) :
       LET r == LiftFailurePark(row[s])
       IN  SetRow(s, IF ~Reservable(r, LeaseExpired(s), force) THEN r
                     ELSE ReserveRow(IF force THEN ForceLift(r) ELSE r))
  /\ spawned' = spawned \cup {s}
  /\ UNCHANGED <<hookVars, sweepVars, open, diskVars, w, crashes, judged>>

-----------------------------------------------------------------------------
(* run_archive_worker: the steps before the claim.                          *)

Go(s, pc) == w' = [w EXCEPT ![s].pc = pc]
Exit(s) == w' = [w EXCEPT ![s] = Idle]

\* An error of the worker itself: the reservation goes, the claim stays.
ErrorExit(s) ==
  /\ Exit(s)
  /\ SetRow(s, ClearReservationRow(row[s]))

workerVars == <<hookVars, sweepVars, spawned, crashes>>

\* Takes the session lock and hydrates a row that records no revision yet.
WorkerStarts(s) ==
  /\ s \in spawned /\ w[s].pc = "idle"
  /\ spawned' = spawned \ {s}
  /\ SetRow(s, IF row[s].doc.rev = 0 /\ file[s].rev > 0
               THEN ImportRow(row[s], file[s]) ELSE row[s])
  /\ Go(s, "reconcile")
  /\ UNCHANGED <<hookVars, sweepVars, open, diskVars, crashes, judged>>

\* "worker-busy": another worker holds the session lock.
WorkerFindsLockBusy(s) ==
  /\ s \in spawned /\ w[s].pc # "idle"
  /\ spawned' = spawned \ {s}
  /\ UNCHANGED <<hookVars, sweepVars, row, open, diskVars, w, crashes, judged>>

Planned(s) == {a \in open[s] : a.plan # NoDocument}
\* pending_plan and the check of the file against it.
Reconcilable(s, a) ==
  /\ a \in Planned(s) /\ \A b \in Planned(s) : b.id <= a.id
  /\ file[s] = a.plan

\* Mutant: a recovered revision is not committed.
ResumeUncommitted(a) == "complete"

ResumePC(a) == IF a.git THEN "recommit" ELSE "complete"

\* reconcile_persisted_attempt, up to its completion.
Reconcile(s) ==
  /\ w[s].pc = "reconcile"
  /\ \/ \E a \in open[s] :
          /\ Reconcilable(s, a)
          /\ w' = [w EXCEPT ![s] = [Idle EXCEPT
                     !.pc = ResumePC(a),
                     !.att = a.id, !.new = a.plan, !.cat = "summary-failed"]]
     \/ /\ \A a \in open[s] : ~Reconcilable(s, a)
        /\ Go(s, "abandon")
  /\ UNCHANGED <<workerVars, row, open, diskVars, judged>>

\* commit_archive_revision commits a revision once, with the file it finds.
CommitRevision(s, rev) ==
  gitlog' = [gitlog EXCEPT ![s] =
    IF \E d \in @ : d.rev = rev THEN @ ELSE @ \cup {file[s]}]

\* A recovered attempt's commit: its failure leaves file and claim as found.
Recommit(s) ==
  /\ w[s].pc = "recommit"
  /\ \/ /\ CommitRevision(s, w[s].new.rev)
        /\ Go(s, "complete")
        /\ UNCHANGED row
     \/ /\ "git-fails" \in Env
        /\ ErrorExit(s)
        /\ UNCHANGED gitlog
  /\ UNCHANGED <<workerVars, open, file, judged>>

\* abandon_processing returns the latest open attempt's session to its queue.
AbandonLatest(s, category) ==
  \E a \in open[s] :
    /\ \A b \in open[s] : b.id <= a.id
    /\ SetRow(s, AbandonRow(row[s], a, category))
    /\ open' = [open EXCEPT ![s] = @ \ {a}]

\* A row still "processing" under the session lock is an interrupted claim.
Abandon(s) ==
  /\ w[s].pc = "abandon"
  /\ \/ row[s].life = "processing" /\ AbandonLatest(s, "worker-interrupted")
     \/ row[s].life # "processing" /\ UNCHANGED <<row, open>>
  /\ Go(s, "lift")
  /\ UNCHANGED <<workerVars, diskVars, judged>>

\* lift_stale_source_limit_park: lifts when the limit has been raised.
Lift(s) ==
  /\ w[s].pc = "lift"
  /\ \E r \in {row[s]} \cup (IF tx[s].present THEN {LiftSourceLimitPark(row[s])}
                             ELSE {}) : SetRow(s, r)
  /\ Go(s, "gate")
  /\ UNCHANGED <<workerVars, open, diskVars, judged>>

\* policy_gate: a disabled project defers the session and lets go of it.
Gate(s) ==
  /\ w[s].pc = "gate"
  /\ \/ /\ Go(s, "claim")
        /\ UNCHANGED row
     \/ /\ "defer" \in Env
        /\ SetRow(s, ClearReservationRow(DeferRow(row[s])))
        /\ Exit(s)
  /\ UNCHANGED <<workerVars, open, diskVars, judged>>

\* Mutant: the cap counts the leases that ran out.
ExpiredLeases == {sa \in UNION {{s} \X open[s] : s \in Sessions} : ~sa[2].live}

LiveLeases == {sa \in UNION {{s} \X open[s] : s \in Sessions} : sa[2].live}

\* claim_session: refuses, defers to the concurrency cap, or claims.
Claim(s) ==
  /\ w[s].pc = "claim"
  /\ \/ /\ ~Claimable(row[s])
        /\ Exit(s)
        /\ UNCHANGED <<row, open>>
     \/ /\ Claimable(row[s])
        /\ Cardinality(LiveLeases) >= MaxConcurrency
        /\ SetRow(s, ClearReservationRow(DeferRow(row[s])))
        /\ Exit(s)
        /\ UNCHANGED open
     \/ /\ Claimable(row[s])
        /\ Cardinality(LiveLeases) < MaxConcurrency
        /\ \E id \in 1 .. MaxAttempts :
             /\ \A a \in open[s] : a.id < id
             /\ id = 1 \/ \E a \in open[s] : a.id = id - 1
             /\ open' = [open EXCEPT ![s] = @ \cup
                  {[id |-> id, gen |-> row[s].gen,
                    retryState |-> ClaimRetryState(row[s]), live |-> TRUE,
                    plan |-> NoDocument, git |-> FALSE]}]
             /\ SetRow(s, ClaimRow(row[s], id))
             /\ w' = [w EXCEPT ![s] = [Idle EXCEPT !.pc = "load", !.att = id]]
  /\ UNCHANGED <<workerVars, diskVars, judged>>

-----------------------------------------------------------------------------
(* process_claim.                                                           *)

FailWith(s, category) == w' = [w EXCEPT ![s].pc = "fail", ![s].cat = category]

\* A vanished transcript: nothing ever read of it is no session at all.
FailMissing(s) ==
  IF row[s].doc.rev = 0 THEN Go(s, "unworthy") ELSE FailWith(s, "source-missing")

\* load_session_update and the worthiness tests.  A row without a path finds the
\* transcript, if at all, in Copilot's home.  A real prior makes the load
\* a delta (or nothing new); a placeholder prior is dropped: a full load.
Load(s) ==
  LET doc  == row[s].doc
      full == doc.kind # "real"
      reread == full \/ ("rewrite" \in Env /\ doc.ver # tx[s].ver)
      Snapshot(pc, quiet) ==
        w' = [w EXCEPT ![s].pc = pc, ![s].ver = tx[s].ver, ![s].quiet = quiet]
  IN
  /\ w[s].pc = "load"
  /\ \/ ~row[s].path /\ FailWith(s, "transcript-unresolved")
     \/ ~tx[s].present /\ row[s].path /\ FailMissing(s)
     \/ /\ tx[s].present
        /\ \/ "oversized" \in Env /\ FailWith(s, "source-oversized")
           \/ ~full /\ doc.ver = tx[s].ver /\ Snapshot("nochange", FALSE)
           \/ ~full /\ doc.ver # tx[s].ver /\ Snapshot("summarize", FALSE)
           \/ /\ "no-events" \in Env
              /\ ~full /\ doc.ver # tx[s].ver /\ Snapshot("summarize", TRUE)
           \/ /\ reread /\ tx[s].ver >= WorthyFrom
              /\ Snapshot("summarize", FALSE)
           \/ reread /\ "exhaust" \in Env /\ Snapshot("unworthy", FALSE)
           \/ /\ full /\ doc.rev = 0 /\ tx[s].ver < WorthyFrom
              /\ Snapshot("unworthy", FALSE)
           \/ /\ doc.rev > 0 /\ reread
              /\ "rewrite" \in Env \/ tx[s].ver < WorthyFrom
              /\ FailWith(s, "source-not-archive-worthy")
  /\ UNCHANGED <<workerVars, row, open, diskVars, judged>>

\* verify_unchanged, and the revision the summary is rendered as.
Render(s, kind, category) ==
  IF ~tx[s].present THEN FailMissing(s)
  ELSE IF tx[s].ver # w[s].ver THEN FailWith(s, "source-changed")
  ELSE w' = [w EXCEPT ![s].pc = "plan", ![s].cat = category, ![s].new =
               [rev |-> row[s].doc.rev + (IF w[s].quiet THEN 0 ELSE 1),
                ver |-> w[s].ver, kind |-> kind]]

\* Mutant: the floor also goes under a real summary.
FloorsAnySummary(s, a, category) ==
  \/ category = "summary-input-limit"
  \/ NextStreak(row[s], category, a.gen) >= ParkThreshold

\* decide_placeholder: the floor under a summary that deterministically fails.
Floors(s, a, category) ==
  /\ row[s].doc.kind # "real"
  /\ \/ category = "summary-input-limit"
     \/ NextStreak(row[s], category, a.gen) >= ParkThreshold

SummaryErrors ==
  (IF "input-limit" \in Env THEN {"summary-input-limit"} ELSE {})
    \cup (IF "reject" \in Env THEN {"summary-failed"} ELSE {})

\* The summarizer's outcome; a delta with no events reuses the prior summary.
Summarize(s) ==
  /\ w[s].pc = "summarize"
  /\ \/ Render(s, "real", None)
     \/ /\ ~w[s].quiet
        /\ \E a \in open[s], c \in SummaryErrors :
             /\ a.id = w[s].att
             /\ IF Floors(s, a, c) THEN Render(s, "placeholder", c)
                ELSE FailWith(s, c)
     \/ "timeout" \in Env /\ ~w[s].quiet /\ FailWith(s, "summary-failed")
     \/ "defer" \in Env /\ Go(s, "defer")
  /\ UNCHANGED <<workerVars, row, open, diskVars, judged>>

\* store_plan
StorePlan(s) ==
  /\ w[s].pc = "plan"
  /\ \E a \in open[s] :
       /\ a.id = w[s].att
       /\ open' = [open EXCEPT ![s] = (@ \ {a}) \cup
            {[a EXCEPT !.plan = w[s].new, !.git = GitHistory /\ ~w[s].quiet]}]
  /\ w' = [w EXCEPT ![s].prev = file[s],
       ![s].pc = IF w[s].new.kind = "placeholder" THEN "verdict" ELSE "replace"]
  /\ UNCHANGED <<workerVars, row, diskVars, judged>>

\* record_placeholder_verdict: the park is visible before the file is.
RecordVerdict(s) ==
  /\ w[s].pc = "verdict"
  /\ \E a \in open[s] :
       a.id = w[s].att /\ SetRow(s, VerdictRow(row[s], a, w[s].cat))
  /\ Go(s, "replace")
  /\ UNCHANGED <<workerVars, open, diskVars, judged>>

\* atomic_replace; it may fail before the rename, or at the final sync with
\* the file already in place, which leaves the claim to be reconciled.
Replace(s) ==
  /\ w[s].pc = "replace"
  /\ \/ /\ file' = [file EXCEPT ![s] = w[s].new]
        /\ Go(s, IF GitHistory /\ ~w[s].quiet THEN "commit" ELSE "complete")
        /\ UNCHANGED row
     \/ /\ "write-fails" \in Env
        /\ FailWith(s, "archive-write-failed")
        /\ UNCHANGED <<file, row>>
     \/ /\ "write-fails" \in Env
        /\ file' = [file EXCEPT ![s] = w[s].new]
        /\ ErrorExit(s)
  /\ UNCHANGED <<workerVars, open, gitlog, judged>>

\* Mutant: the rollback always deletes.
RollbackByDeleting(s) == file' = [file EXCEPT ![s] = NoDocument]

\* rollback_markdown_after_failed_commit
Rollback(s) == file' = [file EXCEPT ![s] = w[s].prev]

\* commit_archive_revision, and the rollback of the file when it fails.
Commit(s) ==
  /\ w[s].pc = "commit"
  /\ \/ /\ CommitRevision(s, w[s].new.rev)
        /\ Go(s, "complete")
        /\ UNCHANGED <<file, row>>
     \/ /\ "git-fails" \in Env
        /\ Rollback(s)
        /\ \E c \in {"archive-git-busy", "archive-git-failed"} : FailWith(s, c)
        /\ UNCHANGED <<gitlog, row>>
     \/ /\ "git-fails" \in Env
        /\ Rollback(s) \/ UNCHANGED file
        /\ ErrorExit(s)
        /\ UNCHANGED gitlog
  /\ UNCHANGED <<workerVars, open, judged>>

\* complete_attempt and complete_placeholder_attempt, of a fresh attempt or of
\* a reconciled one; a row another attempt claimed refuses (InvalidState).
Complete(s) ==
  /\ w[s].pc = "complete"
  /\ \E a \in open[s] :
       /\ a.id = w[s].att
       /\ IF row[s].token = a.id
          THEN LET r == CompleteRow(row[s], a, w[s].new)
               IN  /\ SetRow(s, IF w[s].new.kind = "placeholder"
                                THEN VerdictRow(r, a, w[s].cat) ELSE r)
                   /\ open' = [open EXCEPT ![s] = @ \ {a}]
                   /\ Exit(s)
          ELSE ErrorExit(s) /\ UNCHANGED open
  /\ UNCHANGED <<workerVars, diskVars, judged>>

\* The settlements that write no archive.
Settle(s) ==
  /\ \/ /\ w[s].pc = "defer"
        /\ AbandonLatest(s, "deferred")
        /\ UNCHANGED judged
     \/ \E a \in open[s] :
          /\ a.id = w[s].att
          /\ open' = [open EXCEPT ![s] = @ \ {a}]
          /\ \/ /\ w[s].pc = "nochange"
                /\ SetRow(s, NoChangeRow(row[s], a))
                /\ UNCHANGED judged
             \/ /\ w[s].pc = "unworthy"
                /\ SetRow(s, NotWorthyRow(row[s], a))
                /\ judged' = [judged EXCEPT ![s] = w[s].ver]
             \/ /\ w[s].pc = "fail"
                /\ SetRow(s, FailRow(row[s], a, w[s].cat))
                /\ UNCHANGED judged
  /\ Exit(s)
  /\ UNCHANGED <<workerVars, diskVars>>

\* A worker process dies, before or while it holds the lock.
WorkerDies(s) ==
  /\ crashes < MaxCrashes
  /\ crashes' = crashes + 1
  /\ \/ w[s].pc # "idle" /\ Exit(s) /\ UNCHANGED spawned
     \/ s \in spawned /\ spawned' = spawned \ {s} /\ UNCHANGED w
  /\ UNCHANGED <<hookVars, sweepVars, row, open, diskVars, judged>>

-----------------------------------------------------------------------------
Agent(s) == AgentStop(s) \/ LateAgentStop(s) \/ SessionEnd(s)
              \/ WriteUnreported(s) \/ TranscriptVanishes(s)
              \/ TranscriptReturns(s)
Time(s) == BackoffElapses(s) \/ ReservationGoesStale(s) \/ LeaseExpires(s)
Sweep(s) == SweepStale(s) \/ SweepUnresolved(s) \/ SweepObserved(s)
              \/ SweepDiscovers(s) \/ SweepLifts(s) \/ SweepReactivates(s)
              \/ SweepReserves(s)
Operator(s) == Retry(s) \/ SettleChecks(s) \/ SettleLost(s)
Worker(s) == WorkerStarts(s) \/ Reconcile(s) \/ Recommit(s) \/ Abandon(s)
               \/ Lift(s) \/ Gate(s) \/ Claim(s) \/ Load(s) \/ Summarize(s)
               \/ StorePlan(s) \/ RecordVerdict(s) \/ Replace(s) \/ Commit(s)
               \/ Complete(s) \/ Settle(s)

Next ==
  \/ SweepBegins
  \/ \E s \in Sessions : Agent(s) \/ Time(s) \/ Sweep(s) \/ Operator(s)
                            \/ Worker(s) \/ WorkerFindsLockBusy(s)
                            \/ WorkerDies(s)

Spec == Init /\ [][Next]_vars

\* A worker that runs makes progress, time passes, and a sweep follows every
\* hook and every tick of the scheduler; a sweep reaches all it lists.
Fairness ==
  /\ WF_vars(SweepBegins)
  /\ \A s \in Sessions :
       /\ WF_vars(Worker(s)) /\ WF_vars(WorkerFindsLockBusy(s))
       /\ WF_vars(BackoffElapses(s)) /\ WF_vars(ReservationGoesStale(s))
       /\ WF_vars(LeaseExpires(s))
       /\ SF_vars(SweepStale(s)) /\ SF_vars(SweepUnresolved(s))
       /\ WF_vars(SweepObserved(s)) /\ WF_vars(SweepDiscovers(s))
       /\ SF_vars(SweepReserves(s)) /\ SF_vars(SweepReactivates(s))

FairSpec == Spec /\ Fairness

-----------------------------------------------------------------------------
(* Invariants.                                                              *)

\* The type of every variable.
TypeOK ==
  /\ tx \in [Sessions -> [ver : Nat, present : BOOLEAN]]
  /\ row \in [Sessions -> Rows]
  /\ open \in [Sessions -> SUBSET Attempts]
  /\ seen \in [Sessions -> SUBSET ({"scan", "observed", "path"} \X Nat)]
  /\ file \in [Sessions -> Documents]
  /\ gitlog \in [Sessions -> SUBSET Documents]
  /\ w \in [Sessions -> WorkerStates]
  /\ spawned \subseteq Sessions
  /\ worklist \in [stale : SUBSET Sessions, unresolved : SUBSET Sessions,
                   observed : SUBSET Sessions, lost : SUBSET Sessions]
  /\ crashes \in Nat
  /\ evidence \in [Sessions -> Nat] /\ judged \in [Sessions -> Nat]

\* The states of a worker between its claim and its last transaction.
Holding == {"load", "summarize", "plan", "verdict", "replace", "commit",
            "nochange", "unworthy", "defer", "fail"}

\* A claim is exclusive: while a worker works under one, its attempt is open
\* and the row names it, whatever hooks, sweeps and retries commit meanwhile; a
\* row names only open attempts, and a row in processing has an owner.
ClaimIsExclusive(s) ==
  /\ w[s].pc \in Holding => row[s].token = w[s].att /\ row[s].token # 0
  /\ row[s].token # 0 => \E a \in open[s] : a.id = row[s].token
  /\ row[s].life = "processing" => row[s].token # 0
  /\ \A a, b \in open[s] : a.id = b.id => a = b
ClaimDiscipline == \A s \in Sessions : ClaimIsExclusive(s)

\* The Markdown on disk is the document the row records, or exactly the plan
\* stored by the attempt that owns the row, which the next worker reconciles:
\* no crash and no failed write or commit leaves a third possibility.
DocumentIsDurable(s) ==
  \/ file[s] = row[s].doc
  \/ \E a \in Planned(s) : a.id = row[s].token /\ a.plan = file[s]
DurableRecord == \A s \in Sessions : DocumentIsDurable(s)

\* Where a worker stands, in terms of the file.  Past its reconciliation, and
\* until it writes, the file is the recorded document, so load_prior_archive
\* never meets a Markdown whose hash is not the row's, and the rollback of a
\* failed commit restores that document; from the write on, the file is what
\* the completion will record.  The owner of a row is its latest attempt.
FileFollowsWorker(s) ==
  /\ w[s].pc \in {"abandon", "lift", "gate", "claim"} \cup (Holding \ {"commit"})
       => file[s] = row[s].doc
  /\ w[s].pc \in {"plan", "verdict", "replace", "commit"} => w[s].new # NoDocument
  /\ w[s].pc \in {"verdict", "replace", "commit"} =>
       /\ w[s].prev = row[s].doc
       /\ \E a \in open[s] : a.id = w[s].att /\ a.plan = w[s].new
  /\ w[s].pc \in {"commit", "complete", "recommit"} => file[s] = w[s].new
  /\ row[s].token # 0 => \A a \in open[s] : a.id <= row[s].token
FileDiscipline == \A s \in Sessions : FileFollowsWorker(s)

\* With archive_git_history every recorded revision is committed exactly once
\* (or is the plan the row's owner left for the next worker to commit), and
\* the commit of the current one holds its summary and no later content.
GitRecordsEveryRevision ==
  GitHistory =>
    \A s \in Sessions :
      /\ \A d, e \in gitlog[s] : d.rev = e.rev => d = e
      /\ \A n \in 1 .. row[s].doc.rev :
           \/ \E d \in gitlog[s] : d.rev = n
           \/ \E a \in open[s] : /\ a.id = row[s].token /\ a.git
                                /\ a.plan = file[s] /\ a.plan.rev = n
      /\ \A d \in gitlog[s] : d.rev = row[s].doc.rev =>
           d.kind = row[s].doc.kind /\ d.ver <= row[s].doc.ver

\* "archived" is a promise: the recorded revision covers the transcript as of
\* the last hook or sweep observation, including those that committed while
\* the worker held its claim.
ArchivedCoversEvidence ==
  \A s \in Sessions :
    row[s].life = "archived" => row[s].doc.ver >= evidence[s]

\* A placeholder is never laundered into a clean "archived" (issue #43).
NeverLaundered ==
  \A s \in Sessions : row[s].life = "archived" => row[s].doc.kind = "real"

\* A failed row is parked exactly when its failure is permanent or repeated up
\* to the threshold; any other waits for a backoff (issue #38).
ParkIsEarned ==
  \A s \in Sessions :
    LET final == row[s].streakCat \in Permanent \/ row[s].streak >= ParkThreshold
    IN  row[s].life = "failed" =>
          /\ row[s].nextRetry = "parked" => final
          /\ row[s].nextRetry = "later" => ~final

\* No more sessions are summarized at once than max_concurrency allows.
SummarizersWithinCap ==
  Cardinality({s \in Sessions : w[s].pc \in Holding}) <= MaxConcurrency

-----------------------------------------------------------------------------
(* Refinement.                                                              *)

Promise == INSTANCE SessionPromise WITH
  doc  <- [s \in Sessions |-> row[s].doc],
  said <- [s \in Sessions |-> row[s].life = "archived"]

\* Rows, claims, workers, crashes and reconciliations together do no more than
\* report evidence and advance the archive: "archived" is said only of a real
\* summary over all the evidence and is withdrawn only by new evidence.
ImplementsPromise == Promise!Spec

-----------------------------------------------------------------------------
(* Liveness.                                                                *)

Served(s) ==
  \/ row[s].doc.ver >= evidence[s] \/ judged[s] >= evidence[s] \/ Parked(row[s])
  \/ ~tx[s].present

\* Evidence of a session is served in the end: its transcript is archived or
\* judged as of that evidence, or its failures park it for the operator.  One
\* that was given up for lost is served when its transcript comes back.
EvidenceIsServed == \A s \in Sessions : ~Served(s) ~> Served(s)

\* A claim is released in the end, by its worker or by the sweep that finds
\* its lease expired.
ClaimIsReleased ==
  \A s \in Sessions : row[s].token # 0 ~> row[s].token = 0 \/ ~tx[s].present
=============================================================================
