-------------------------------- MODULE Restore --------------------------------
(***************************************************************************)
(* `munshi restore` (crates/munshi/src/restore.rs, restore_resume.rs and    *)
(* the read client patwari_read.rs) for one session: a run that puts its    *)
(* newest snapshot back on disk, optionally the transcript in the home of   *)
(* the harness, and imports the record, while a worker archives and the     *)
(* harness talks on.  A run takes no lock, so each file it reads or writes, *)
(* and each request, is a step.                                             *)
(*                                                                          *)
(* The content of an artifact is the revision it was archived with; 0 is    *)
(* absent, Forged is whatever else a server may send.                       *)
(*                                                                          *)
(* Simplified: a snapshot has one sidecar file and one extracted output;    *)
(* one run at a time; the registered Claude home is the one resumed into;   *)
(* failures to read a local file are as failures to write it; the byte      *)
(* totals, the versions and the wording of the reports are left out.        *)
(***************************************************************************)
EXTENDS Naturals, Sequences, FiniteSetsExt

CONSTANTS
  MaxRevision,    \* bound: revisions of the session
  FirstUploads,   \* bound: those the first snapshot may be of
  MaxRuns,        \* bound: restore runs
  MaxFaults       \* bound: failures, deaths and losses

ASSUME RestoreAssumption == /\ {MaxRevision, MaxRuns, MaxFaults} \subseteq Nat \ {0}
                            /\ FirstUploads \subseteq 1 .. MaxRevision

VARIABLES
  snaps,     \* the snapshots of the server, in order of completion
  disk,      \* the archive directory of the machine: artifact -> content
  home,      \* the harness's transcript: the revision it has, or more
  row,       \* the session's row: its revision and where its transcript is
  worker,    \* the archiving under way: its revision, is its file in place
  run,       \* the restore under way
  runs,      \* how many there have been
  faults     \* the bounded events that have happened

vars == <<snaps, disk, home, row, worker, run, runs, faults>>

Revisions == 1 .. MaxRevision
Forged == MaxRevision + 1

\* A worker writes the first two; nothing but restore writes the other two.
Artifacts == {"summary", "sidecar", "transcript", "output"}
Order == <<"summary", "sidecar", "transcript", "output", "stray">>

\* stray: it also has an artifact no local path is for; big: an artifact, named,
\* is declared larger than the cap; bare: it has no summary, or an artifact-set
\* version unknown to this build.  The snapshots of a session are of a kind.
Big == [summary |-> "big summary", transcript |-> "big transcript"]
Kinds == {"whole", "stray", "bare", "unusable"}
         \cup {Big[a] : a \in DOMAIN Big}

NoRow == [rev |-> 0, path |-> "none"]
NoWorker == [rev |-> 0, placed |-> FALSE]
NoHome == [of |-> 0, more |-> FALSE]
EmptyDisk == [a \in Artifacts |-> 0]

\* asks: the options; snap: what is being restored; known: the summaries the
\* index of local records found; results: what became of each artifact; whole:
\* it was all there at the start; alone: no worker has written since.
NoAsk == [force |-> FALSE, dry |-> FALSE, skip |-> FALSE, resume |-> "no", import |-> FALSE]
Results == {"present", "written", "replaced", "would", "refused", "requested",
            "skipped", "local", "transport", "verification"}
Idle == [pc |-> "idle", asks |-> NoAsk, snap |-> 0, known |-> {}, bytes |-> 0,
         results |-> <<>>, code |-> 0, resumed |-> FALSE, whole |-> FALSE,
         alone |-> FALSE, sent |-> 0]

\* A machine that lost everything, or one in use, restored once or never.
Init ==
  /\ \E rev \in FirstUploads, kind \in Kinds :
       snaps = <<[rev |-> rev, live |-> TRUE, kind |-> kind]>>
  /\ \/ disk = EmptyDisk /\ home = NoHome /\ row = NoRow
     \/ /\ \E restored \in {0, 1} :
             disk = [a \in Artifacts |-> IF a \in {"summary", "sidecar"} THEN 1 ELSE restored]
        /\ home = [of |-> 1, more |-> FALSE]
        /\ row = [rev |-> 1, path |-> "harness"]
  /\ worker = NoWorker /\ run = Idle /\ runs = 0 /\ faults = 0

\* select_newest_per_session: the listing is newest first.
Newest == Max({0} \cup {k \in DOMAIN snaps : snaps[k].live})

Faulty == faults < MaxFaults /\ faults' = faults + 1
Goes(pc) == run' = [run EXCEPT !.pc = pc]

-----------------------------------------------------------------------------
(* Around a run: the server, the harness and the archive worker.            *)

\* An upload, or a rearchive of any earlier revision, completes (external); a
\* run has its listing already.  Or one is tombstoned.
SnapshotCompletes ==
  /\ run = Idle /\ Len(snaps) < 2
  /\ \E rev \in Revisions :
       snaps' = Append(snaps, [rev |-> rev, live |-> TRUE, kind |-> snaps[1].kind])
  /\ UNCHANGED <<disk, home, row, worker, run, faults>>
SnapshotDies ==
  /\ Faulty
  /\ Newest # 0 /\ snaps' = [snaps EXCEPT ![Newest].live = FALSE]
  /\ UNCHANGED <<disk, home, row, worker, run>>

\* The harness continues a transcript that is there (external).
HarnessContinues ==
  /\ home.of # 0 /\ ~home.more
  /\ home' = [home EXCEPT !.more = TRUE]
  /\ UNCHANGED <<snaps, disk, row, worker, run, faults>>

\* A worker takes the transcript up, on top of the archive its row describes;
\* writes the Markdown and its sidecars; and enters them in the row, whatever
\* the row says by now.
WorkerLoads ==
  /\ worker = NoWorker /\ home.more /\ row.path = "harness"
  /\ row.rev = 0 \/ disk["summary"] = row.rev
  /\ row.rev + 1 \in Revisions
  /\ worker' = [rev |-> row.rev + 1, placed |-> FALSE]
  /\ UNCHANGED <<snaps, disk, home, row, run, faults>>
WorkerPlaces ==
  /\ worker.rev # 0 /\ ~worker.placed
  /\ worker' = [worker EXCEPT !.placed = TRUE]
  /\ disk' = [disk EXCEPT !["summary"] = worker.rev, !["sidecar"] = worker.rev]
  /\ run' = [run EXCEPT !.alone = FALSE]
  /\ UNCHANGED <<snaps, home, row, faults>>
WorkerArchives ==
  /\ worker.placed
  /\ worker' = NoWorker
  /\ home' = [of |-> worker.rev, more |-> FALSE]
  /\ row' = [row EXCEPT !.rev = worker.rev]
  /\ run' = [run EXCEPT !.alone = FALSE]
  /\ UNCHANGED <<snaps, disk, faults>>
\* Dead, it is finished by the next one if its file is the one it planned.
WorkerDies ==
  /\ worker # NoWorker /\ Faulty
  /\ worker.placed => disk["summary"] # worker.rev
  /\ worker' = NoWorker
  /\ UNCHANGED <<snaps, disk, home, row, run>>

\* Between runs the machine loses its archive, its harness home or its
\* database (external).
MachineLoses ==
  /\ run = Idle /\ worker = NoWorker /\ Faulty
  /\ \/ disk' = EmptyDisk /\ UNCHANGED <<home, row>>
     \/ home' = NoHome /\ UNCHANGED <<disk, row>>
     \/ row' = NoRow /\ UNCHANGED <<disk, home>>
  /\ UNCHANGED <<snaps, worker, run>>

-----------------------------------------------------------------------------
(* Exit codes.                                                              *)

\* rank_max
Severity == [c \in {0, 1, 4, 5, 6} |-> CASE c = 6 -> 4 [] c = 5 -> 3 [] c = 1 -> 2
                                         [] c = 4 -> 1 [] OTHER -> 0]
RankMax(c, d) == IF Severity[d] > Severity[c] THEN d ELSE c

\* RestoreError::exit_code, ReadError and DownloadError as failures.
TransportCode == 5
FindingCode == 4
LocalCode == 1
ClassCode == [verification |-> 6, transport |-> TransportCode, local |-> LocalCode]

\* snapshot_status: the class of the first artifact that failed.
StatusCode(results) ==
  LET failed == {i \in DOMAIN results : results[i] \in DOMAIN ClassCode}
  IN  CASE failed # {} -> ClassCode[results[Min(failed)]]
        [] failed = {} /\ \E i \in DOMAIN results : results[i] = "refused" -> FindingCode
        [] OTHER -> 0

\* Mutant: an artifact over the cap is as one the operator asked to skip.
ForgivesSkips(results) == StatusCode(results)

\* build_report and exit_code: a skip is a finding unless it was asked for.
ReportCode(results) ==
  IF \E i \in DOMAIN results : results[i] = "skipped"
    THEN RankMax(StatusCode(results), FindingCode)
    ELSE StatusCode(results)

-----------------------------------------------------------------------------
(* The record.                                                              *)

Snap == snaps[run.snap]

\* LocalRecordIndex: the summaries on disk, by digest.  Mutant: none.
IndexesNothing == {}
LocalRecordIndex == {disk["summary"]} \ {0}

\* Is the record there already, all of it?
Holds(d, snap) == \A a \in Artifacts : d[a] = snap.rev

\* The options a command line may combine: --resume excludes --dry-run.  import
\* also says that the machine is registered with this archive directory.
Options == {a \in [force : BOOLEAN, dry : BOOLEAN, skip : BOOLEAN,
                   resume : {"no", "plan", "yes"}, import : BOOLEAN] :
              a.resume # "no" => ~a.dry}

RestoreBegins(asks) ==
  /\ run = Idle /\ runs < MaxRuns
  /\ Newest # 0
  /\ runs' = runs + 1
  /\ run' = [Idle EXCEPT !.pc = "manifest", !.asks = asks, !.snap = Newest,
                         !.known = LocalRecordIndex, !.alone = TRUE,
                         !.whole = Holds(disk, snaps[Newest])]
  /\ UNCHANGED <<snaps, disk, home, row, faults>>

\* The snapshot yields no record: it goes on to the resume and the import,
\* which then have nothing to work from.
Yields(code) == run' = [run EXCEPT !.pc = "resume", !.code = code]

\* snapshot_provenance and list_snapshot_artifacts
Manifest ==
  /\ run.pc = "manifest"
  /\ \/ /\ Snap.live
        /\ CASE Snap.kind = "bare" -> Yields(FindingCode)
             [] OTHER -> Goes(IF Snap.rev \in run.known THEN "check" ELSE "summary")
        /\ UNCHANGED faults
     \/ Yields(TransportCode) /\ (IF Snap.live THEN Faulty ELSE UNCHANGED faults)
  /\ UNCHANGED <<snaps, disk, home, row>>

\* size_refusal
TooBig(a) == a \in DOMAIN Big /\ Snap.kind = Big[a]

\* The bytes a server may send for an artifact: those it listed, or others that
\* agree with its own headers.  "lost" is every failure of the exchange.
Answers == {"lost", "forged", "listed"}
Contents(answer) == IF answer = "listed" THEN Snap.rev ELSE Forged

\* download_verified: the recovered original must have the listed digest.
\* Mutant: it need only agree with the headers that came with it.
TrustsHeaders(answer) == IF answer = "lost" THEN "transport" ELSE "verified"
Verified(answer) ==
  CASE answer = "lost" -> "transport"
    [] answer # "lost" /\ Contents(answer) # Snap.rev -> "verification"
    [] OTHER -> "verified"

Answered(answer) == IF answer = "listed" /\ Snap.live THEN UNCHANGED faults ELSE Faulty

\* The summary, when no local record has it, says where the record belongs.
FetchSummary(answer) ==
  LET verdict == Verified(answer)
      fetched == [run EXCEPT !.sent = @ + 1]
  IN  /\ run.pc = "summary"
      /\ answer # "lost" => Snap.live
      /\ IF TooBig("summary")
           THEN Yields(FindingCode) /\ UNCHANGED faults
           ELSE /\ Answered(answer)
                /\ run' = CASE verdict # "verified" ->
                                 [fetched EXCEPT !.pc = "resume", !.code = ClassCode[verdict]]
                            [] verdict = "verified" /\ Snap.kind = "unusable" ->
                                 [fetched EXCEPT !.pc = "resume", !.code = FindingCode]
                            [] OTHER -> [fetched EXCEPT !.pc = "check", !.bytes = Contents(answer)]
      /\ UNCHANGED <<snaps, disk, home, row>>

\* The artifact being placed, and the steps after it.
Next1 == Order[Len(run.results) + 1]
Last == IF Snap.kind = "stray" THEN 5 ELSE 4
Placed(result, r) ==
  LET results == Append(run.results, result)
  IN  [r EXCEPT !.results = results, !.bytes = 0,
                !.pc = IF Len(results) = Last THEN "resume" ELSE "check",
                !.code = IF Len(results) = Last THEN ReportCode(results) ELSE 0]

\* local_relative_path: no place for a stray, none asked for an output skipped.
Unplaced(a) == a = "stray" \/ (a = "output" /\ run.asks.skip)

\* place, and place_known up to the download
CheckArtifact ==
  LET a    == Next1
      mine == IF a = "stray" THEN 0 ELSE disk[a]
  IN  /\ run.pc = "check"
      /\ run' = CASE Unplaced(a) ->
                       Placed(IF a = "stray" THEN "skipped" ELSE "requested", run)
                  [] ~Unplaced(a) /\ mine = Snap.rev -> Placed("present", run)
                  [] ~Unplaced(a) /\ mine \notin {0, Snap.rev} /\ ~run.asks.force ->
                       Placed("refused", run)
                  [] ~Unplaced(a) /\ mine # Snap.rev /\ (mine = 0 \/ run.asks.force)
                       /\ run.asks.dry -> Placed("would", run)
                  [] OTHER -> [run EXCEPT !.pc = IF mine = 0 THEN "write" ELSE "replace"]
      /\ UNCHANGED <<snaps, disk, home, row, faults>>

\* place_known from the download on: the bytes in hand or downloaded are put in
\* place of whatever is there by now.
PlaceArtifact(answer, writes) ==
  LET a       == Next1
      held    == run.bytes # 0
      verdict == IF held THEN "verified" ELSE Verified(answer)
      fetched == [run EXCEPT !.sent = IF held THEN @ ELSE @ + 1]
      done    == IF run.pc = "write" THEN "written" ELSE "replaced"
  IN  /\ run.pc \in {"write", "replace"}
      /\ IF TooBig(a) /\ ~held
           THEN run' = Placed("skipped", run) /\ UNCHANGED <<disk, faults>>
           ELSE /\ answer # "lost" => Snap.live \/ held
                /\ IF writes /\ (held \/ (answer = "listed" /\ Snap.live))
                     THEN UNCHANGED faults ELSE Faulty
                /\ IF verdict = "verified" /\ writes
                     THEN disk' = [disk EXCEPT ![a] = IF held THEN run.bytes
                                                      ELSE Contents(answer)]
                     ELSE UNCHANGED disk
                /\ run' = Placed(CASE verdict # "verified" -> verdict
                                   [] verdict = "verified" /\ ~writes -> "local"
                                   [] OTHER -> done, fetched)
      /\ UNCHANGED <<snaps, home, row>>

-----------------------------------------------------------------------------
(* The harness home and the database.                                       *)

Ranked(code) == [run EXCEPT !.pc = "import", !.code = RankMax(@, code)]
ResultOf(i) == IF i \in DOMAIN run.results THEN run.results[i] ELSE "none"
IsOnDisk(i) == ResultOf(i) \in {"present", "written", "replaced"}

\* resume: every refusal before the target is looked at.  Any snapshot may be
\* one whose harness, origin or home is unknown.
NoResume ==
  /\ run.pc = "resume"
  /\ run' = IF run.asks.resume = "no" THEN [run EXCEPT !.pc = "import"]
            ELSE Ranked(FindingCode)
  /\ UNCHANGED <<snaps, disk, home, row, faults>>

\* Mutant: --force also replaces what the harness home has.
ForcesHome == home = NoHome \/ run.asks.force
MayPlace == home = NoHome

\* resume: the target is read; the staged transcript is what this run verified.
\* The harness writes only a transcript that is there, so nothing comes between
\* the reading and the placing.
ResumeSession(writes) ==
  /\ run.pc = "resume" /\ run.asks.resume # "no"
  /\ IsOnDisk(1) /\ IsOnDisk(3)
  /\ LET same   == home = [of |-> disk["transcript"], more |-> FALSE]
         places == MayPlace /\ ~same /\ run.asks.resume = "yes"
     IN  /\ run' = CASE same -> [Ranked(0) EXCEPT !.resumed = TRUE]
                     [] places /\ writes -> [Ranked(0) EXCEPT !.resumed = TRUE]
                     [] places /\ ~writes -> Ranked(LocalCode)
                     [] OTHER -> Ranked(FindingCode)
         /\ home' = IF places /\ writes THEN [of |-> disk["transcript"], more |-> FALSE]
                    ELSE home
         /\ IF places /\ ~writes THEN Faulty ELSE writes /\ UNCHANGED faults
  /\ UNCHANGED <<snaps, disk, row>>

Readable(path) == CASE path = "harness" -> home # NoHome
                    [] path = "restored" -> disk["transcript"] # 0
                    [] OTHER -> FALSE

\* import_archive_record: the path found again in the harness home wins, a
\* revision is only ever raised.
ImportedRow(r) ==
  [rev  |-> Max({r.rev, disk["summary"]}),
   path |-> IF home # NoHome THEN "harness" ELSE r.path]

\* record_derived_transcript_path, under the guard of import_restored_sessions.
\* Mutant: the transcript restored is linked whatever the row has.
LinksAlways(r, path) == IF Readable(path) THEN [r EXCEPT !.path = path] ELSE r
LinkedRow(r, path) ==
  IF /\ Readable(path)
     /\ ~Readable(r.path) \/ (run.resumed /\ r.path = "restored")
    THEN [r EXCEPT !.path = path] ELSE r

\* rebuild_state and import_restored_sessions
Import(writes) ==
  /\ run.pc = "import"
  /\ IF run.asks.import /\ ~run.asks.dry /\ IsOnDisk(1)
       THEN IF writes
              THEN /\ row' = LinkedRow(ImportedRow(row),
                                       IF run.resumed THEN "harness" ELSE "restored")
                   /\ Goes("exit") /\ UNCHANGED faults
              ELSE run' = [Ranked(LocalCode) EXCEPT !.pc = "exit"] /\ Faulty /\ UNCHANGED row
       ELSE writes /\ Goes("exit") /\ UNCHANGED <<row, faults>>
  /\ UNCHANGED <<snaps, disk, home>>

Exit ==
  /\ run.pc = "exit"
  /\ run' = Idle
  /\ UNCHANGED <<snaps, disk, home, row, faults>>
RunDies ==
  /\ run # Idle /\ Faulty
  /\ run' = Idle
  /\ UNCHANGED <<snaps, disk, home, row>>

-----------------------------------------------------------------------------

Environment == SnapshotCompletes \/ SnapshotDies \/ HarnessContinues
               \/ MachineLoses
WorkerStep == WorkerLoads \/ WorkerPlaces \/ WorkerArchives \/ WorkerDies
RunStep ==
  \/ \E asks \in Options : RestoreBegins(asks)
  \/ /\ \/ Manifest \/ CheckArtifact \/ NoResume \/ Exit \/ RunDies
        \/ \E answer \in Answers :
             FetchSummary(answer) \/ \E writes \in BOOLEAN : PlaceArtifact(answer, writes)
        \/ \E writes \in BOOLEAN : ResumeSession(writes) \/ Import(writes)
     /\ UNCHANGED runs

Next == \/ (Environment \/ WorkerStep) /\ UNCHANGED runs
        \/ RunStep /\ UNCHANGED worker
Spec == Init /\ [][Next]_vars

-----------------------------------------------------------------------------
(* Properties.                                                              *)

\* The variables have their types; a run holds bytes only to place them.
TypeOK ==
  /\ \A k \in DOMAIN snaps : snaps[k] \in [rev : Revisions, live : BOOLEAN, kind : Kinds]
  /\ disk \in [Artifacts -> 0 .. Forged]
  /\ home \in [of : 0 .. MaxRevision, more : BOOLEAN]
  /\ row \in [rev : 0 .. MaxRevision, path : {"none", "harness", "restored"}]
  /\ worker \in [rev : 0 .. MaxRevision, placed : BOOLEAN]
  /\ run.pc \in {"idle", "manifest", "summary", "check", "write", "replace",
                 "resume", "import", "exit"}
  /\ run.asks \in Options
  /\ \A i \in DOMAIN run.results : i <= 5 /\ run.results[i] \in Results
  /\ run.code \in DOMAIN Severity
  /\ run.bytes # 0 => Next1 = "summary"
  /\ runs \in 0 .. MaxRuns /\ faults \in 0 .. MaxFaults

\* No byte that is not some archived original reaches the archive directory,
\* the harness home or the row, whatever a server answers.
RestoredIsArchived ==
  /\ \A a \in Artifacts : disk[a] # Forged
  /\ home.of # Forged /\ row.rev # Forged

\* "A completed run rerun transfers nothing - including the summary": a run
\* over a record all there, and left alone, downloads no artifact.
RerunIsFree == run.whole /\ run.alone => run.sent = 0

\* A run that ends with code 0 and was no dry run leaves the whole record: what
\* only restore writes is the snapshot's (but for outputs the operator did not
\* want), there is a summary, the resume asked for is in the harness home, and
\* after the import asked for the row's transcript can be read.  With no worker
\* about the rest is the snapshot's too, and the row is as far as it is: a
\* worker may write an older revision over what was restored.
CleanExitIsWhole ==
  [][(Exit /\ run.code = 0 /\ ~run.asks.dry) =>
       /\ disk["transcript"] = Snap.rev
       /\ disk["output"] = Snap.rev \/ run.asks.skip
       /\ disk["summary"] # 0
       /\ run.asks.resume # "no" => home # NoHome
       /\ run.asks.import => Readable(row.path)
       /\ run.alone => /\ disk["summary"] = Snap.rev /\ disk["sidecar"] = Snap.rev
                       /\ run.asks.import => row.rev >= Snap.rev]_vars

\* A transcript in the harness home is never replaced by an archived one, with
\* --force or without: "a differing file is a live conversation".
HarnessKept == [][RunStep /\ home # NoHome => home' = home]_vars

\* "A healthy machine's live harness path is never overwritten by an archived
\* copy": a row that names a transcript the harness has goes on naming it.
LiveTranscriptKept ==
  [][RunStep /\ row.path = "harness" /\ home # NoHome => row'.path = "harness"]_vars
=============================================================================
