--------------------------- MODULE SummaryDelivery ---------------------------
(***************************************************************************)
(* Delivery of archived summaries to the vault: deliver_one and the table   *)
(* `deliveries`, under the three callers that run it without a common lock: *)
(* a worker right after it archived, `tick` (failed deliveries) and the     *)
(* operator's retry and backfill.                                           *)
(*                                                                          *)
(* Every statement on `deliveries` and every request is a step.  A run      *)
(* selects its candidates before its first request and delivers the RECORDS *)
(* it selected; the body is the Markdown file as it is then.                *)
(*                                                                          *)
(* Simplified: one endpoint and one vault, no project disabled, a note      *)
(* keeps its path (its folder setting is not edited), an archive's record   *)
(* and file change together (ArchiveWorker shows when), and no limit cuts a *)
(* run short.  `next_attempt_at_ms` is left out: it is written by every     *)
(* failure and read by no selection.                                        *)
(***************************************************************************)
EXTENDS NotesmithVault

CONSTANTS
  Sessions,
  HistoryRequired,   \* history_required: archive_git_history with delivery on
  MaxRevision        \* bound: revisions archived of a session

ASSUME SummaryDeliveryAssumption ==
  /\ HistoryRequired \in BOOLEAN /\ MaxRevision \in Nat
  /\ \A s \in Sessions : <<"note", s>> \in Paths

VARIABLES
  archived,   \* current_revision of a session's record and file
  delivery    \* its row of `deliveries`

deliveryVars == <<archived, delivery>>

NotePath(s) == <<"note", s>>

\* Mutant: the message of a commit does not name the revision.
SubjectOfSession(s, rev) == <<s, 1>>

\* The commit message, "munshi: <source>:<session> revision <n>".
Subject(s, rev) == <<s, rev>>

States == {"absent", "pending", "delivered", "failed", "blocked", "dead-letter"}
NoDelivery == [state |-> "absent", rev |-> 0, commit |-> 0, attempts |-> 0]

DeliveryInit ==
  /\ archived = [s \in Sessions |-> 0]
  /\ delivery = [s \in Sessions |-> NoDelivery]

SetDelivery(s, r) == delivery' = [delivery EXCEPT ![s] = r]

Records(ss) == {[of |-> s, ver |-> archived[s]] : s \in ss}

\* is_current_delivery
Current(r, rev) == r.state = "delivered" /\ r.rev = rev

\* A worker archives a revision and goes on to deliver_after_archive, holding
\* the session lock.
WorkerArchives(p, s) ==
  /\ archived[s] < MaxRevision
  /\ \A q \in Clients : client[q].lock # s
  /\ archived' = [archived EXCEPT ![s] = @ + 1]
  /\ Starts(p, [Idle EXCEPT !.pc = "next", !.lock = s,
                            !.todo = {[of |-> s, ver |-> archived[s] + 1]}],
            HistoryRequired)
  /\ UNCHANGED delivery

\* Selection::Failed, of `tick` and of retry.
Failed(force) ==
  {s \in Sessions :
     \/ delivery[s].state \in {"failed", "blocked"}
     \/ delivery[s].state = "dead-letter" /\ force}
\* Selection::Backfill
Outdated == {s \in Sessions : ~Current(delivery[s], archived[s])}

\* run, up to its first delivery.
RunBegins(p, ss, force) ==
  LET todo == {r \in Records(ss) : r.ver > 0}
  IN  /\ todo # {}
      /\ Starts(p, [Idle EXCEPT !.pc = "next", !.todo = todo, !.force = force],
                HistoryRequired)
      /\ UNCHANGED deliveryVars
TickBegins(p) == RunBegins(p, Failed(FALSE), FALSE)
OperatorBegins(p) ==
  \/ RunBegins(p, Failed(TRUE), TRUE) \/ RunBegins(p, Outdated, FALSE)
  \/ \E s \in Sessions, force \in BOOLEAN : RunBegins(p, {s}, force)

\* The next candidate: the forced reset of its row, ensure_delivery_target,
\* the tests on the row it returns, and the read of the Markdown file.
DeliverNext(p) ==
  LET c == client[p]
  IN
  /\ c.pc = "next"
  /\ \E i \in c.todo :
       LET r    == TargetRow(delivery[i.of], NoDelivery, c.force)
           next == [c EXCEPT !.item = i, !.todo = @ \ {i}]
       IN
       /\ SetDelivery(i.of, r)
       /\ Moves(p,
            CASE r.state = "dead-letter" \/ Current(r, i.ver) -> Done(next, "next")
              [] c.gate \in {"unavailable", "error"} -> [next EXCEPT !.pc = "block"]
              [] c.gate = "available" ->
                   [next EXCEPT !.pc = "preflight", !.read = archived[i.of]]
              [] OTHER -> [next EXCEPT !.pc = "write", !.read = archived[i.of]])
  /\ UNCHANGED <<vaultVars, archived>>

\* The clean-tree check: the commit would stage whatever else is dirty.
Preflight(p) ==
  /\ client[p].pc = "preflight"
  /\ \/ /\ Goes(p, IF Dirty \subseteq {NotePath(client[p].item.of)}
                   THEN "write" ELSE "block")
        /\ UNCHANGED vaultVars
     \/ /\ Request([vault |-> vault, fault |-> 1])
        /\ Goes(p, "fail")
  /\ UNCHANGED deliveryVars

\* replace_or_create, create_or_adopt: the document carries the record's
\* revision and the file's body.
WriteNote(p) ==
  LET c == client[p]
      document == [rev |-> c.item.ver, body |-> c.read]
  IN
  /\ c.pc = "write"
  /\ \E o \in WriteOutcomes(WithNote(NotePath(c.item.of), document)) :
       /\ Request(o)
       /\ Goes(p, IF ~o.ok THEN "fail"
                  ELSE IF c.gate = "available" THEN "commit" ELSE "record")
  /\ UNCHANGED deliveryVars

CommitNote(p) ==
  LET c == client[p]
  IN
  /\ c.pc = "commit"
  /\ \E o \in Correlate(Subject(c.item.of, c.item.ver)) :
       /\ Request(o)
       /\ Moves(p, [c EXCEPT !.pc = IF o.commit = 0 THEN "fail" ELSE "record",
                             !.commit = o.commit])
  /\ UNCHANGED deliveryVars

\* record_delivery_success, record_delivery_blocked, record_delivery_failure:
\* each overwrites the row, whatever another client made of it meanwhile.
RecordDelivery(p) ==
  LET c == client[p]
      s == c.item.of
  IN
  /\ \/ /\ c.pc = "record"
        /\ SetDelivery(s, [state |-> "delivered", rev |-> c.item.ver,
                           commit |-> c.commit, attempts |-> 0])
     \/ c.pc = "block" /\ SetDelivery(s, BlockedRow(delivery[s]))
     \/ c.pc = "fail" /\ SetDelivery(s, FailedRow(delivery[s]))
  /\ Moves(p, Done(c, "next"))
  /\ UNCHANGED <<vaultVars, archived>>

Delivers(p) ==
  DeliverNext(p) \/ Preflight(p) \/ WriteNote(p) \/ CommitNote(p)
    \/ RecordDelivery(p)

-----------------------------------------------------------------------------
(* Properties of delivery.                                                  *)

\* Versioned delivery never degrades to latest-only (issue #9): a delivered
\* row names a commit of exactly its session and revision, however clients
\* race, die and lose answers.
DeliveredIsCorrelated ==
  \A s \in Sessions :
    HistoryRequired /\ delivery[s].state = "delivered" =>
      /\ delivery[s].commit \in DOMAIN vault.log
      /\ vault.log[delivery[s].commit].subject = Subject(s, delivery[s].rev)

\* While clients take turns, that commit holds the revision's own note, and
\* crashes, lost answers and retries never commit a revision twice.
DeliveredIsPreserved ==
  overlaps = 0 =>
    \A s \in Sessions :
      /\ HistoryRequired /\ delivery[s].state = "delivered" =>
           vault.log[delivery[s].commit].tree[NotePath(s)]
             = [rev |-> delivery[s].rev, body |-> delivery[s].rev]
      /\ \A i, j \in DOMAIN vault.log :
           vault.log[i].subject = vault.log[j].subject
             /\ vault.log[i].subject[1] = s => i = j
=============================================================================
