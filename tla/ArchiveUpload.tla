---------------------------- MODULE ArchiveUpload ----------------------------
(***************************************************************************)
(* Upload of archived sessions to a Patwari server: upload_one, the table   *)
(* `archive_uploads` and the server as munshi sees it                       *)
(* (crates/munshi/src/patwari.rs, state.rs), for one session: sessions      *)
(* share nothing here.                                                      *)
(*                                                                          *)
(* Every transaction and every request is a step.  A worker, the sweep, the *)
(* retry and backfill commands, rearchive and its abandon hold the lock of  *)
(* the session (`job` is its holder); reconcile takes no lock.              *)
(*                                                                          *)
(* Simplified: one endpoint; the content of a snapshot is the revision, the *)
(* Markdown body and the version of its artifact set; the chunks of an      *)
(* upload arrive all or none; the saved inspection document of rearchive is *)
(* that of any snapshot there ever was; the byte totals and the Patwari     *)
(* session id of a row are left out.                                        *)
(***************************************************************************)
EXTENDS Naturals, Sequences, FiniteSetsExt

CONSTANTS
  MaxAttempts,    \* archive_upload.max_attempts
  MaxRevision,    \* bound: revisions of the session
  MaxBody,        \* bound: renderings of its Markdown
  MaxFaults       \* bound: failures, deaths and commands of the operator

ASSUME ArchiveUploadAssumption ==
  /\ MaxAttempts \in Nat \ {0}
  /\ {MaxRevision, MaxBody, MaxFaults} \subseteq Nat \ {0}

VARIABLES
  doc,       \* the session's record and Markdown: [rev, body]
  row,       \* its row of archive_uploads
  server,    \* [uploads, snaps]
  job,       \* what the holder of the session lock is doing
  check,     \* the snapshot a reconcile found missing, or 0
  faults,    \* the bounded events that have happened
  cleared    \* history: times the row's capture identity was forgotten

vars == <<doc, row, server, job, check, faults, cleared>>

\* capRev: capture_revision; due: no backoff is running; upBody: the recorded
\* Markdown hash, 0 for a row that predates it or its list of artifacts.
NoRow == [state |-> "absent", cap |-> 0, capRev |-> 0, upload |-> 0,
          upRev |-> 0, upBody |-> 0, snap |-> 0, attempts |-> 0, due |-> TRUE]

Parked == {"rearchive-pending", "rearchive-failed"}
States == Parked \cup {"absent", "pending", "failed", "dead-letter", "uploaded"}

Document(set) == [rev |-> doc.rev, body |-> doc.body, set |-> set]
Nothing == [rev |-> 0, body |-> 0, set |-> "none"]

\* saved: the snapshot a rearchive restores, else 0.
Idle == [pc |-> "idle", saved |-> 0, cap |-> 0, upload |-> 0, content |-> Nothing,
         snap |-> 0]

\* A session never uploaded, or uploaded by a version of munshi that recorded
\* neither Markdown hash nor artifacts.
Init ==
  /\ doc = [rev |-> 1, body |-> 1]
  /\ \/ row = NoRow /\ server = [uploads |-> <<>>, snaps |-> <<>>]
     \/ /\ row = [NoRow EXCEPT !.state = "uploaded", !.upRev = 1, !.snap = 1]
        /\ server = [uploads |-> <<>>,
                     snaps |-> <<[content |-> Document("old"), live |-> TRUE]>>]
  /\ job = Idle /\ check = 0 /\ faults = 0 /\ cleared = 0

Goes(pc) == job' = [job EXCEPT !.pc = pc]
Faulty == faults < MaxFaults /\ faults' = faults + 1

-----------------------------------------------------------------------------
(* The server (external).                                                   *)

\* A later create may find the capture under an upload that still counts.
UploadOf(capture) ==
  Max({0} \cup {u \in DOMAIN server.uploads :
                  server.uploads[u].capture = capture /\ server.uploads[u].status # "gone"})

Created(capture, content) ==
  [server EXCEPT !.uploads =
     Append(@, [capture |-> capture, content |-> content, full |-> FALSE,
                status |-> "open", snap |-> 0])]

\* Completion coalesces into a live snapshot of the same fingerprint.
SnapshotFor(content) ==
  Max({0} \cup {k \in DOMAIN server.snaps :
                  server.snaps[k].live /\ server.snaps[k].content = content})
Completed(u) ==
  LET upload == server.uploads[u]
      same   == SnapshotFor(upload.content)
      snap   == IF same = 0 THEN Len(server.snaps) + 1 ELSE same
  IN  IF upload.status = "completed" THEN server
      ELSE [uploads |-> [server.uploads EXCEPT ![u].status = "completed", ![u].snap = snap],
            snaps   |-> IF same # 0 THEN server.snaps
                        ELSE Append(server.snaps, [content |-> upload.content, live |-> TRUE])]

\* The operator tombstones the snapshots of the server; an upload never
\* completed expires.
Tombstone(k) ==
  /\ server.snaps[k].live
  /\ Faulty
  /\ server' = [server EXCEPT !.snaps[k].live = FALSE]
  /\ UNCHANGED <<doc, row, job, check, cleared>>
UploadExpires(u) ==
  /\ server.uploads[u].status = "open"
  /\ Faulty
  /\ server' = [server EXCEPT !.uploads[u].status = "gone"]
  /\ UNCHANGED <<doc, row, job, check, cleared>>

-----------------------------------------------------------------------------
(* Who takes the lock of the session to upload it.                          *)

\* upload_after_archive: the worker archived a revision, or rendered the same
\* one again for a cursor that moved.
WorkerUploads ==
  /\ job = Idle
  /\ doc.body < MaxBody
  /\ \/ doc.rev < MaxRevision /\ doc' = [rev |-> doc.rev + 1, body |-> doc.body + 1]
     \/ doc' = [doc EXCEPT !.body = @ + 1]
  /\ Goes("ensure")
  /\ UNCHANGED <<row, server, check, faults, cleared>>

\* Mutant: a failed upload is never swept.
SweepPendingOnly ==
  /\ job = Idle
  /\ row.state = "pending"
  /\ Goes("ensure")
  /\ UNCHANGED <<doc, row, server, check, faults, cleared>>

\* eligible_archive_uploads, in retry_pending_uploads.
SweepUploads ==
  /\ job = Idle
  /\ row.state \in {"pending", "failed"} /\ row.due
  /\ Goes("ensure")
  /\ UNCHANGED <<doc, row, server, check, faults, cleared>>

\* reset_archive_upload_for_retry
ResetRow(force) == [row EXCEPT !.state = "pending", !.due = TRUE,
                               !.attempts = IF force THEN 0 ELSE @]

\* retry, of `tick` and of the operator, who may name the session and force.
RetryUploads(force) ==
  /\ job = Idle
  /\ row.state \in {"pending", "failed", "uploaded"} \cup (IF force THEN {"dead-letter"} ELSE {})
  /\ IF force THEN Faulty ELSE UNCHANGED faults
  /\ row' = ResetRow(force)
  /\ Goes("ensure")
  /\ UNCHANGED <<doc, server, check, cleared>>

\* backfill: no row, a row that does not record the Markdown as it is, or one
\* a reconcile reset.
BackfillUploads ==
  /\ job = Idle
  /\ \/ row.state = "absent"
     \/ row.state = "uploaded" /\ row.upBody # doc.body
     \/ row.state = "pending" /\ row.snap = 0 /\ row.upRev > 0
  /\ Goes("ensure")
  /\ UNCHANGED <<doc, row, server, check, faults, cleared>>

-----------------------------------------------------------------------------
(* upload_one.                                                              *)

UpToDate(r) == r.state = "uploaded" /\ r.upRev = doc.rev /\ r.upBody = doc.body

\* The tests of upload_one that end it with nothing done.
Skipped(r) == \/ r.state \in Parked \cup {"dead-letter"}
              \/ r.state = "failed" /\ ~r.due
              \/ UpToDate(r)

\* ensure_archive_upload_target, those tests, and the collection of the
\* artifacts: it ends with nothing done when a required one is not readable,
\* and fails the attempt when the transcript has changed.
EnsureRow ==
  LET r == IF row.state = "absent" THEN [NoRow EXCEPT !.state = "pending"] ELSE row
  IN
  /\ job.pc = "ensure"
  /\ row' = r
  /\ \/ Skipped(r) /\ job' = Idle /\ UNCHANGED faults
     \/ /\ ~Skipped(r)
        /\ \/ job' = [job EXCEPT !.pc = "prepare", !.content = Document("current")]
              /\ UNCHANGED faults
           \/ Faulty /\ (Goes("fail") \/ job' = Idle)
  /\ UNCHANGED <<doc, server, check, cleared>>

\* Mutants: a failed attempt always starts afresh; any revision resumes.
FreshAfterFailure(r) == r.cap # 0 /\ r.capRev = doc.rev /\ r.state \in {"pending"} \cup Parked
ResumesAnyRevision(r) == r.cap # 0 /\ r.state \in {"pending", "failed"} \cup Parked

\* prepare_archive_capture: the attempts that reuse the identity.
Resumes(r) == r.cap # 0 /\ r.capRev = doc.rev /\ r.state \in {"pending", "failed"} \cup Parked

FreshCapture ==
  1 + Max({0, row.cap} \cup {server.uploads[u].capture : u \in DOMAIN server.uploads})

PrepareCapture ==
  /\ job.pc = "prepare"
  /\ row' = IF Resumes(row) THEN row
            ELSE [row EXCEPT !.cap = FreshCapture, !.capRev = doc.rev, !.upload = 0,
                             !.state = IF @ \in Parked THEN "rearchive-pending"
                                       ELSE "pending"]
  /\ job' = [job EXCEPT !.pc = IF row'.upload = 0 THEN "create" ELSE "status",
                        !.cap = row'.cap, !.upload = row'.upload]
  /\ UNCHANGED <<doc, server, check, faults, cleared>>

\* A request fails before it reaches the server.
RequestFails ==
  /\ job.pc \in {"status", "create", "chunks", "complete"}
  /\ Faulty
  /\ Goes("fail")
  /\ UNCHANGED <<doc, row, server, check, cleared>>

\* upload_status of the upload to resume.
UploadStatus ==
  /\ job.pc = "status"
  /\ Goes(CASE server.uploads[job.upload].status = "completed" -> "complete"
            [] server.uploads[job.upload].status = "gone" -> "create"
            [] OTHER -> "chunks")
  /\ UNCHANGED <<doc, row, server, check, faults, cleared>>

\* create_upload: a capture already known is resumed, unless its manifest is
\* another one; the answer may be lost.
CreateUpload ==
  LET known == UploadOf(job.cap)
  IN
  /\ job.pc = "create"
  /\ \/ /\ known = 0
        /\ server' = Created(job.cap, job.content)
        /\ \/ /\ job' = [job EXCEPT !.pc = "persist", !.upload = Len(server.uploads) + 1]
              /\ UNCHANGED faults
           \/ Faulty /\ Goes("fail")
     \/ /\ known # 0
        /\ job' = IF server.uploads[known].content = job.content
                  THEN [job EXCEPT !.pc = "persist", !.upload = known]
                  ELSE [job EXCEPT !.pc = "fail"]
        /\ UNCHANGED <<server, faults>>
  /\ UNCHANGED <<doc, row, check, cleared>>

\* record_archive_upload_id, whose own failure is ignored.
PersistUploadId ==
  /\ job.pc = "persist"
  /\ \/ row' = [row EXCEPT !.upload = job.upload] /\ UNCHANGED faults
     \/ Faulty /\ UNCHANGED row
  /\ Goes("chunks")
  /\ UNCHANGED <<doc, server, check, cleared>>

\* upload_missing_chunks, index_artifacts_by_path: the paths the server lists
\* must be ours, and the chunks it misses must fit those it holds.
UploadChunks ==
  LET u == server.uploads[job.upload]
      accepted == \/ u.content = job.content
                  \/ (u.full \/ u.status = "completed") /\ u.content.set = job.content.set
  IN
  /\ job.pc = "chunks"
  /\ server' = IF accepted /\ u.status = "open"
               THEN [server EXCEPT !.uploads[job.upload].full = TRUE] ELSE server
  /\ Goes(IF accepted /\ u.status # "gone" THEN "complete" ELSE "fail")
  /\ UNCHANGED <<doc, row, check, faults, cleared>>

\* complete_upload: the receipt names the snapshot; the answer may be lost.
CompleteUpload ==
  /\ job.pc = "complete"
  /\ \/ /\ server.uploads[job.upload].status # "gone"
        /\ server' = Completed(job.upload)
        /\ \/ /\ job' = [job EXCEPT !.pc = "record",
                                    !.snap = server'.uploads[job.upload].snap]
              /\ UNCHANGED faults
           \/ Faulty /\ Goes("fail")
     \/ /\ server.uploads[job.upload].status = "gone"
        /\ Goes("fail")
        /\ UNCHANGED <<server, faults>>
  /\ UNCHANGED <<doc, row, check, cleared>>

\* record_archive_upload_success
SuccessRow == [row EXCEPT !.state = "uploaded", !.upRev = doc.rev, !.upBody = doc.body,
                          !.snap = job.snap, !.attempts = 0, !.due = TRUE]

\* record_archive_upload_failure
FailureRow == [row EXCEPT !.attempts = @ + 1, !.due = (row.attempts + 1 >= MaxAttempts),
                          !.state = IF row.attempts + 1 >= MaxAttempts
                                    THEN "dead-letter" ELSE "failed"]

RecordUpload ==
  /\ job.saved = 0
  /\ \/ job.pc = "record" /\ row' = SuccessRow
     \/ job.pc = "fail" /\ row' = FailureRow
  /\ job' = Idle
  /\ UNCHANGED <<doc, server, check, faults, cleared>>

-----------------------------------------------------------------------------
(* Rearchive: a snapshot the operator tombstoned is uploaded again exactly, *)
(* from its saved inspection document and the files it restored.            *)

Forgotten(state) == [row EXCEPT !.cap = 0, !.capRev = 0, !.upload = 0, !.snap = 0,
                                !.state = state, !.attempts = 0, !.due = TRUE]

\* ensure_archive_rearchive_target, of a row that names no snapshot.
RearchiveRow ==
  IF row.state = "absent" THEN [NoRow EXCEPT !.state = "rearchive-pending"]
  ELSE [(IF row.state \in Parked THEN row ELSE Forgotten("rearchive-pending"))
          EXCEPT !.state = "rearchive-pending", !.attempts = 0, !.due = TRUE]

\* rearchive, up to its capture: every local byte is that of the saved
\* snapshot, and the row names that snapshot, gone from the server
\* (repair_missing_archive_upload_for_rearchive), or none.  Anything else is
\* refused and changes nothing.
Rearchive(k) ==
  /\ job = Idle
  /\ server.snaps[k].content.body = doc.body
  /\ \/ /\ row.snap = k /\ ~server.snaps[k].live
        /\ row' = Forgotten("rearchive-pending")
     \/ row.snap = 0 /\ row' = RearchiveRow
  /\ cleared' = cleared + (IF row'.cap # row.cap THEN 1 ELSE 0)
  /\ job' = [Idle EXCEPT !.pc = "prepare", !.saved = k,
                         !.content = server.snaps[k].content]
  /\ UNCHANGED <<doc, server, check, faults>>

\* Mutant: the receipt's fingerprint is not compared.
RecordRearchiveUnchecked ==
  /\ job.saved # 0
  /\ \/ job.pc = "record" /\ row' = SuccessRow
     \/ job.pc = "fail" /\ row' = [row EXCEPT !.state = "rearchive-failed", !.attempts = @ + 1]
  /\ job' = Idle
  /\ UNCHANGED <<doc, server, check, faults, cleared>>

\* record_archive_rearchive_fingerprint_mismatch, _failure, and success.
RecordRearchive ==
  LET mismatch == server.snaps[job.snap].content # server.snaps[job.saved].content
  IN
  /\ job.saved # 0
  /\ \/ job.pc = "record" /\ ~mismatch /\ row' = SuccessRow /\ UNCHANGED cleared
     \/ /\ job.pc = "record" /\ mismatch
        /\ row' = [Forgotten("rearchive-failed") EXCEPT !.attempts = row.attempts + 1]
        /\ cleared' = cleared + 1
     \/ /\ job.pc = "fail"
        /\ row' = [row EXCEPT !.state = "rearchive-failed", !.attempts = @ + 1]
        /\ UNCHANGED cleared
  /\ job' = Idle
  /\ UNCHANGED <<doc, server, check, faults>>

\* abandon_rearchive
AbandonRearchive ==
  /\ job = Idle /\ row.state \in Parked
  /\ row' = Forgotten("pending")
  /\ cleared' = cleared + 1
  /\ UNCHANGED <<doc, server, job, check, faults>>

-----------------------------------------------------------------------------
(* reconcile --repair-missing, beside whoever holds the lock.               *)

\* snapshot_exists, of the snapshot the listed row names.
ReconcileChecks ==
  /\ check = 0 /\ row.snap # 0 /\ ~server.snaps[row.snap].live
  /\ check' = row.snap
  /\ UNCHANGED <<doc, row, server, job, faults, cleared>>

\* Mutant: the statement does not name the snapshot that was found missing.
ReconcileUnguarded ==
  /\ check # 0
  /\ row' = Forgotten("pending") /\ cleared' = cleared + 1
  /\ check' = 0
  /\ UNCHANGED <<doc, server, job, faults>>

\* repair_missing_archive_upload: only the row that still names the snapshot.
ReconcileRepairs ==
  /\ check # 0
  /\ IF row.snap = check THEN row' = Forgotten("pending") /\ cleared' = cleared + 1
     ELSE UNCHANGED <<row, cleared>>
  /\ check' = 0
  /\ UNCHANGED <<doc, server, job, faults>>

-----------------------------------------------------------------------------
BackoffElapses ==
  /\ row.state = "failed" /\ ~row.due
  /\ row' = [row EXCEPT !.due = TRUE]
  /\ UNCHANGED <<doc, server, job, check, faults, cleared>>

\* The process that holds the lock dies.
JobDies ==
  /\ job # Idle
  /\ Faulty
  /\ job' = Idle
  /\ UNCHANGED <<doc, row, server, check, cleared>>

UploadOne == EnsureRow \/ PrepareCapture \/ UploadStatus \/ CreateUpload
               \/ PersistUploadId \/ UploadChunks \/ CompleteUpload
               \/ RecordUpload \/ RecordRearchive

Next ==
  \/ WorkerUploads \/ SweepUploads \/ BackfillUploads
  \/ \E force \in BOOLEAN : RetryUploads(force)
  \/ \E k \in DOMAIN server.snaps : Rearchive(k) \/ Tombstone(k)
  \/ \E u \in DOMAIN server.uploads : UploadExpires(u)
  \/ UploadOne \/ RequestFails \/ JobDies \/ AbandonRearchive
  \/ ReconcileChecks \/ ReconcileRepairs \/ BackoffElapses

Spec == Init /\ [][Next]_vars

\* A holder of the lock goes on, backoffs end, and the sweep comes back.
FairSpec ==
  Spec /\ WF_vars(UploadOne) /\ WF_vars(BackoffElapses) /\ SF_vars(SweepUploads)

-----------------------------------------------------------------------------
\* The type of every variable; what the row names exists on the server.
TypeOK ==
  /\ doc \in [rev : 1 .. MaxRevision, body : 1 .. MaxBody]
  /\ row.state \in States
  /\ row.upload \in {0} \cup DOMAIN server.uploads
  /\ row.snap \in {0} \cup DOMAIN server.snaps
  /\ \A u \in DOMAIN server.uploads : server.uploads[u].snap \in {0} \cup DOMAIN server.snaps
  /\ check \in {0} \cup DOMAIN server.snaps
  /\ faults \in 0 .. MaxFaults

\* A capture identity is kept through failures and dropped with its revision:
\* the snapshot an uploaded row names is of the revision the row records,
\* whichever attempt or command completed it.
UploadedRevisionIsHeld ==
  row.state = "uploaded" /\ row.upBody # 0 =>
    server.snaps[row.snap].content.rev = row.upRev

\* "an interrupted upload resumes rather than creating a duplicate capture":
\* content is completed under a second capture only after the row's identity
\* was deliberately forgotten.
NoDuplicateCapture ==
  \A u \in DOMAIN server.uploads :
    server.uploads[u].status = "completed" =>
      Cardinality({v \in DOMAIN server.uploads :
                     /\ server.uploads[v].status = "completed"
                     /\ server.uploads[v].content = server.uploads[u].content})
        <= 1 + cleared

\* A parked row leaves its park only by a rearchive that restored the very
\* fingerprint it was asked for, or by an explicit abandon, which forgets all
\* of the row and uploads nothing itself: never by the sweep, a retry or a
\* backfill, whose step takes the lock, nor by a reconcile, which has checked.
RearchiveIsExact ==
  [][row.state \in Parked /\ row'.state \notin Parked =>
       \/ /\ row'.state = "uploaded" /\ job.saved # 0
          /\ server.snaps[row'.snap].content = server.snaps[job.saved].content
       \/ row' = Forgotten("pending") /\ job = Idle /\ UNCHANGED <<job, check>>]_row

\* No command makes the row forget a snapshot the server still holds.
LiveSnapshotKept ==
  [][row.snap # 0 /\ row'.snap = 0 => ~server.snaps[row.snap].live]_row

\* An upload that was begun is settled in the end, whoever dies or fails.
UploadSettles == row.state \in {"pending", "failed"} ~> row.state \notin {"pending", "failed"}

-----------------------------------------------------------------------------
(* What the documentation says and the code does not keep.                  *)

\* "the markdown hash must match too or the archive's newest snapshot silently
\* lags the local markdown" (upload_one): a row recorded with the current
\* Markdown names a snapshot that holds it.
UploadedMarkdownIsHeld ==
  row.state = "uploaded" /\ row.upBody = doc.body =>
    server.snaps[row.snap].content.body = doc.body
=============================================================================
