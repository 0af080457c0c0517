---------------------------- MODULE Restore_proofs ----------------------------
(***************************************************************************)
(* For every number of revisions, runs and faults: whatever a server        *)
(* answers, only archived originals reach the machine; a record that is     *)
(* whole and left alone is never downloaded again; a run that exits with 0  *)
(* has restored all it was asked for; and neither the transcript of a live  *)
(* conversation nor the row's path to it is replaced.                       *)
(*                                                                          *)
(* The argument: what the report says of an artifact stays true of the      *)
(* file, unless a worker writes the two files that are its own; and an exit *)
(* code of 0 leaves no room in the report for anything but the good         *)
(* results.                                                                 *)
(***************************************************************************)
EXTENDS Restore, TLAPS

Contents0 == 0 .. MaxRevision
Snapshots == [rev : Revisions, live : BOOLEAN, kind : Kinds]
PCs == {"idle", "manifest", "summary", "check", "write", "replace",
        "resume", "import", "exit"}
Placing == {"check", "write", "replace"}
After == {"resume", "import", "exit"}
Runs == [pc : PCs, asks : Options, snap : Nat, known : SUBSET Nat, bytes : Contents0,
         results : Seq(Results), code : DOMAIN Severity, resumed : BOOLEAN,
         whole : BOOLEAN, alone : BOOLEAN, sent : Nat]

\* No file, no home and no row ever holds anything but an archived revision.
Types ==
  /\ snaps \in Seq(Snapshots) /\ Len(snaps) \in {1, 2}
  /\ disk \in [Artifacts -> Contents0]
  /\ home \in [of : Contents0, more : BOOLEAN]
  /\ row \in [rev : Contents0, path : {"none", "harness", "restored"}]
  /\ worker \in [rev : Contents0, placed : BOOLEAN]
  /\ run \in Runs
  /\ runs \in 0 .. MaxRuns /\ faults \in 0 .. MaxFaults

\* A worker with a file has a revision, and a transcript that grows is there.
WorkerSound ==
  /\ worker.placed => worker.rev # 0
  /\ home.more => home.of # 0

\* Where a run is, and what it holds there.
PhaseSound ==
  /\ run.pc = "idle" => run = Idle
  /\ run.pc # "idle" => run.snap \in DOMAIN snaps
  /\ run.pc \in {"manifest", "summary"} => run.results = <<>> /\ run.bytes = 0
  /\ run.pc \in Placing => Len(run.results) < Last
  /\ run.pc \in {"write", "replace"} => Next1 # "stray"
  /\ Len(run.results) <= 5
  /\ run.bytes # 0 => run.pc \in Placing /\ run.results = <<>> /\ run.bytes = Snap.rev

OnDisk == {"present", "written", "replaced"}

\* What the report says of an artifact is so.
ResultSound(i) ==
  /\ run.results[i] \in OnDisk =>
       /\ i # 5 /\ disk[Order[i]] # 0
       /\ i \in {3, 4} \/ run.alone => disk[Order[i]] = Snap.rev
  /\ run.results[i] = "would" => run.asks.dry
  /\ run.results[i] = "requested" => i = 4 /\ run.asks.skip
  /\ i = 5 => run.results[i] = "skipped"
ReportSound == \A i \in DOMAIN run.results : ResultSound(i)

\* An exit code of 0 leaves only good results, and a resume that was done.
Good == OnDisk \cup {"would", "requested"}
CodeSound ==
  run.pc \in After /\ run.code = 0 =>
    /\ Len(run.results) = 4 /\ \A i \in 1 .. 4 : run.results[i] \in Good
    /\ run.pc # "resume" /\ run.asks.resume # "no" => run.resumed
ResumeSound == run.resumed => home # NoHome

\* After the import the row is as far as the restored summary.
ImportSound ==
  run.pc = "exit" /\ run.code = 0 /\ run.asks.import /\ ~run.asks.dry =>
    Readable(row.path) /\ (run.alone => row.rev >= Snap.rev)

\* A run over a whole record finds it by its index and fetches nothing.
WholeSound ==
  run.whole /\ run.alone =>
    /\ Holds(disk, Snap) /\ run.sent = 0
    /\ run.pc \notin {"summary", "write", "replace"}
    /\ run.pc = "manifest" => Snap.rev \in run.known

RInv == /\ Types /\ WorkerSound /\ PhaseSound /\ ReportSound /\ CodeSound
        /\ ResumeSound /\ ImportSound /\ WholeSound

-----------------------------------------------------------------------------
(* The operators of the model.                                              *)

LEMMA OptionTypes ==
  ASSUME NEW a \in Options
  PROVE  /\ a \in [force : BOOLEAN, dry : BOOLEAN, skip : BOOLEAN,
                   resume : {"no", "plan", "yes"}, import : BOOLEAN]
         /\ a.resume # "no" => ~a.dry
BY DEF Options

\* The exit codes and their ranking.
LEMMA Codes ==
  /\ DOMAIN Severity = {0, 1, 4, 5, 6}
  /\ DOMAIN ClassCode = {"verification", "transport", "local"}
  /\ \A c \in DOMAIN ClassCode : ClassCode[c] \in {1, 5, 6}
  /\ FindingCode = 4 /\ TransportCode = 5 /\ LocalCode = 1
BY DEF Severity, ClassCode, FindingCode, TransportCode, LocalCode

\* Ranking never loses a failure.
LEMMA RankIsSound ==
  ASSUME NEW c \in DOMAIN Severity, NEW d \in DOMAIN Severity
  PROVE  /\ RankMax(c, d) \in DOMAIN Severity
         /\ RankMax(c, d) = 0 <=> c = 0 /\ d = 0
         /\ d = 0 => RankMax(c, d) = c
<1>1. /\ Severity[0] = 0 /\ Severity[4] = 1 /\ Severity[1] = 2
      /\ Severity[5] = 3 /\ Severity[6] = 4
  BY DEF Severity
<1> QED
  BY <1>1, Codes DEF RankMax

\* A nonempty set of the first numbers has a least element.
LEMMA MinIs ==
  ASSUME NEW S \in SUBSET (1 .. 5), S # {}
  PROVE  Min(S) \in S
<1>1. \E x \in S : \A y \in S : x <= y
  <2>1. CASE 1 \in S
    BY <2>1
  <2>2. CASE 1 \notin S /\ 2 \in S
    BY <2>2
  <2>3. CASE 1 \notin S /\ 2 \notin S /\ 3 \in S
    BY <2>3
  <2>4. CASE 1 \notin S /\ 2 \notin S /\ 3 \notin S /\ 4 \in S
    BY <2>4
  <2>5. CASE 1 \notin S /\ 2 \notin S /\ 3 \notin S /\ 4 \notin S
    <3>1. \A y \in S : y = 5
      BY <2>5
    <3>2. PICK x \in S : TRUE
      OBVIOUS
    <3>3. x = 5 /\ \A y \in S : 5 <= y
      BY <3>1, <3>2
    <3> QED
      BY <3>2, <3>3
  <2> QED
    BY <2>1, <2>2, <2>3, <2>4, <2>5
<1> QED
  BY <1>1 DEF Min

\* A code of 0 is only given to a report in which nothing failed, nothing was
\* refused and nothing was skipped without having been asked for.
LEMMA ReportCodeIsSound ==
  ASSUME NEW results \in Seq(Results), Len(results) <= 5
  PROVE  /\ ReportCode(results) \in DOMAIN Severity
         /\ ReportCode(results) = 0 => \A i \in DOMAIN results : results[i] \in Good
<1> DEFINE failed == {i \in DOMAIN results : results[i] \in DOMAIN ClassCode}
<1>1. failed \subseteq 1 .. 5
  OBVIOUS
<1>2. failed # {} => StatusCode(results) \in {1, 5, 6}
  <2>1. SUFFICES ASSUME failed # {} PROVE StatusCode(results) \in {1, 5, 6}
    OBVIOUS
  <2>2. Min(failed) \in failed
    BY <1>1, <2>1, MinIs
  <2>3. StatusCode(results) = ClassCode[results[Min(failed)]]
    BY <2>1 DEF StatusCode
  <2> QED
    BY <2>2, <2>3, Codes
<1>3. failed = {} /\ (\E i \in DOMAIN results : results[i] = "refused")
      => StatusCode(results) = 4
  BY Codes DEF StatusCode
<1>4. failed = {} /\ ~(\E i \in DOMAIN results : results[i] = "refused")
      => StatusCode(results) = 0
  BY DEF StatusCode
<1>5. StatusCode(results) \in DOMAIN Severity
  BY <1>2, <1>3, <1>4, Codes
<1>6. ReportCode(results) \in DOMAIN Severity
  BY <1>5, Codes, RankIsSound DEF ReportCode
<1>7. ASSUME ReportCode(results) = 0
      PROVE  /\ StatusCode(results) = 0
             /\ ~(\E i \in DOMAIN results : results[i] = "skipped")
  <2>1. 4 \in DOMAIN Severity
    BY Codes
  <2> QED
    BY <1>5, <1>7, <2>1, Codes, RankIsSound DEF ReportCode
<1>8. ASSUME ReportCode(results) = 0, NEW i \in DOMAIN results
      PROVE  results[i] \in Good
  <2>1. failed = {} /\ results[i] # "refused" /\ results[i] # "skipped"
    BY <1>2, <1>3, <1>7, <1>8
  <2>2. results[i] \in Results /\ results[i] \notin {"verification", "transport", "local"}
    BY <2>1, Codes
  <2> QED
    BY <2>1, <2>2 DEF Results, Good, OnDisk
<1> QED
  BY <1>6, <1>8

\* The artifacts and their places in the order.
LEMMA Orders ==
  /\ Order[1] = "summary" /\ Order[2] = "sidecar" /\ Order[3] = "transcript"
  /\ Order[4] = "output" /\ Order[5] = "stray"
  /\ \A i \in 1 .. 4 : Order[i] \in Artifacts
  /\ \A i, j \in 1 .. 4 : Order[i] = Order[j] => i = j
BY DEF Order, Artifacts

LEMMA Assumed ==
  /\ MaxRevision \in Nat /\ MaxRevision >= 1
  /\ MaxRuns \in Nat /\ MaxFaults \in Nat
  /\ FirstUploads \subseteq Revisions
BY RestoreAssumption DEF Revisions

\* The snapshot being restored is one the server has had.
LEMMA SnapIs ==
  ASSUME Types, run.snap \in DOMAIN snaps
  PROVE  /\ Snap \in Snapshots
         /\ Snap.rev \in Revisions /\ Snap.rev \in Contents0 /\ Snap.rev # 0
         /\ Snap.kind \in Kinds
         /\ Last \in {4, 5}
<1>1. Snap \in Snapshots
  BY DEF Types, Snap
<1> QED
  BY <1>1, Assumed DEF Snapshots, Revisions, Contents0, Last

\* The newest snapshot is one of them.
LEMMA NewestIs ==
  ASSUME Types
  PROVE  Newest \in 0 .. 2 /\ (Newest # 0 => Newest \in DOMAIN snaps)
<1> DEFINE S == {k \in DOMAIN snaps : snaps[k].live}
           T == {0} \cup S
<1>1. S \subseteq {1, 2} /\ S \subseteq DOMAIN snaps
  BY DEF Types
<1>2. \E x \in T : \A y \in T : x >= y
  <2>1. CASE 2 \in S
    BY <1>1, <2>1
  <2>2. CASE 2 \notin S /\ 1 \in S
    BY <1>1, <2>2
  <2>3. CASE 2 \notin S /\ 1 \notin S
    BY <1>1, <2>3
  <2> QED
    BY <2>1, <2>2, <2>3
<1>3. Max(T) \in T
  BY <1>2 DEF Max
<1> HIDE DEF S
<1>4. Newest = Max(T)
  BY DEF Newest, S
<1>5. Newest = 0 \/ Newest \in S
  BY <1>3, <1>4
<1>6. 0 \in 0 .. 2 /\ 1 \in 0 .. 2 /\ 2 \in 0 .. 2
  OBVIOUS
<1> QED
  BY <1>1, <1>5, <1>6

\* The next artifact and the local path it has.
LEMMA Next1Is ==
  ASSUME Types, PhaseSound, run.pc \in Placing
  PROVE  /\ Len(run.results) \in 0 .. 4
         /\ Next1 = Order[Len(run.results) + 1]
         /\ Next1 = "stray" <=> Len(run.results) = 4
         /\ Next1 # "stray" => Next1 \in Artifacts
         /\ Next1 = "summary" <=> Len(run.results) = 0
<1> DEFINE n == Len(run.results)
<1>1. run.snap \in DOMAIN snaps
  BY DEF PhaseSound, Placing
<1>2. n \in Nat /\ n < Last
  BY DEF Types, PhaseSound, Runs
<1>3. Last = 4 \/ Last = 5
  BY <1>1, SnapIs
<1>4. Next1 = Order[n + 1]
  BY DEF Next1
<1> HIDE DEF n
<1>5. n < 5
  BY <1>2, <1>3
<1>6. n \in 0 .. 4
  BY <1>2, <1>5
<1>7. /\ Next1 = "stray" <=> n = 4
      /\ Next1 # "stray" => Next1 \in Artifacts
      /\ Next1 = "summary" <=> n = 0
  BY <1>4, <1>6, Orders DEF Artifacts
<1> QED
  BY <1>4, <1>6, <1>7 DEF n

-----------------------------------------------------------------------------
(* A machine without a run.                                                 *)

\* What is said of a run holds when there is none.
LEMMA IdleIs ==
  /\ Idle.pc = "idle" /\ Idle.asks = NoAsk /\ Idle.snap = 0 /\ Idle.known = {}
  /\ Idle.bytes = 0 /\ Idle.results = <<>> /\ Idle.code = 0 /\ Idle.resumed = FALSE
  /\ Idle.whole = FALSE /\ Idle.alone = FALSE /\ Idle.sent = 0
  /\ Idle \in Runs
<1>1. /\ Idle.pc = "idle" /\ Idle.asks = NoAsk /\ Idle.snap = 0 /\ Idle.known = {}
      /\ Idle.bytes = 0 /\ Idle.results = <<>> /\ Idle.code = 0 /\ Idle.resumed = FALSE
      /\ Idle.whole = FALSE /\ Idle.alone = FALSE /\ Idle.sent = 0
  BY DEF Idle
<1>2. NoAsk \in Options
  BY DEF NoAsk, Options
<1>3. Idle \in Runs
  BY <1>2, Codes, Assumed DEF Idle, Runs, PCs, Contents0
<1> QED
  BY <1>1, <1>3

LEMMA IdleIsSound ==
  ASSUME run = Idle
  PROVE  /\ PhaseSound /\ ReportSound /\ CodeSound /\ ResumeSound /\ ImportSound
         /\ WholeSound
<1> QED
  BY IdleIs DEF PhaseSound, ReportSound, CodeSound, ResumeSound, ImportSound, WholeSound,
             Placing, After

LEMMA NextIdleIsSound ==
  ASSUME run' = Idle
  PROVE  /\ PhaseSound' /\ ReportSound' /\ CodeSound' /\ ResumeSound' /\ ImportSound'
         /\ WholeSound'
<1> QED
  BY IdleIs DEF PhaseSound, ReportSound, CodeSound, ResumeSound, ImportSound, WholeSound,
             Placing, After

\* The machines and servers the runs start from.
LEMMA InitIsSound == Init => RInv
<1> SUFFICES ASSUME Init PROVE RInv
  OBVIOUS
<1>1. run = Idle /\ runs = 0 /\ faults = 0 /\ worker = NoWorker
  BY DEF Init
<1>2. snaps \in Seq(Snapshots) /\ Len(snaps) \in {1, 2}
  <2>1. PICK rev \in FirstUploads, kind \in Kinds :
          snaps = <<[rev |-> rev, live |-> TRUE, kind |-> kind]>>
    BY DEF Init
  <2>2. [rev |-> rev, live |-> TRUE, kind |-> kind] \in Snapshots
    BY Assumed DEF Snapshots
  <2> QED
    BY <2>1, <2>2
<1>3. /\ disk \in [Artifacts -> Contents0]
      /\ home \in [of : Contents0, more : BOOLEAN]
      /\ home.more => home.of # 0
      /\ row \in [rev : Contents0, path : {"none", "harness", "restored"}]
  <2>1. 0 \in Contents0 /\ 1 \in Contents0
    BY Assumed DEF Contents0
  <2>2. CASE disk = EmptyDisk /\ home = NoHome /\ row = NoRow
    BY <2>1, <2>2 DEF EmptyDisk, NoHome, NoRow
  <2>3. CASE /\ \E restored \in {0, 1} :
                  disk = [a \in Artifacts |-> IF a \in {"summary", "sidecar"} THEN 1
                                              ELSE restored]
             /\ home = [of |-> 1, more |-> FALSE]
             /\ row = [rev |-> 1, path |-> "harness"]
    <3>1. disk \in [Artifacts -> Contents0]
      BY <2>1, <2>3
    <3> QED
      BY <2>1, <2>3, <3>1
  <2> QED
    BY <2>2, <2>3 DEF Init
<1>4. worker \in [rev : Contents0, placed : BOOLEAN] /\ WorkerSound
  <2>1. 0 \in Contents0
    BY Assumed DEF Contents0
  <2>2. worker \in [rev : Contents0, placed : BOOLEAN] /\ worker.placed = FALSE
    BY <1>1, <2>1 DEF NoWorker
  <2> QED
    BY <1>3, <2>2 DEF WorkerSound
<1>5. runs \in 0 .. MaxRuns /\ faults \in 0 .. MaxFaults
  BY <1>1, Assumed
<1>6. Types
  <2>1. run \in Runs
    BY <1>1, IdleIs
  <2> QED
    BY <2>1, <1>2, <1>3, <1>4, <1>5 DEF Types
<1> QED
  BY <1>1, <1>4, <1>6, IdleIsSound DEF RInv

-----------------------------------------------------------------------------
(* Around a run.                                                            *)

\* What is said of a run survives what goes on around it: a worker takes the
\* two files that are its own, and with them the run's claim to be alone.
LEMMA AroundIsSound ==
  ASSUME RInv, Types',
         run' \in {run, [run EXCEPT !.alone = FALSE]},
         DOMAIN snaps' = DOMAIN snaps,
         \A k \in DOMAIN snaps : snaps'[k].rev = snaps[k].rev /\ snaps'[k].kind = snaps[k].kind,
         home # NoHome => home' # NoHome,
         disk'["transcript"] = disk["transcript"], disk'["output"] = disk["output"],
         \/ disk' = disk
         \/ ~run'.alone /\ disk'["summary"] # 0 /\ disk'["sidecar"] # 0,
         row'.path = row.path,
         row'.rev = row.rev \/ ~run'.alone
  PROVE  /\ PhaseSound' /\ ReportSound' /\ CodeSound' /\ ResumeSound' /\ ImportSound'
         /\ WholeSound'
<1>1. /\ run'.pc = run.pc /\ run'.asks = run.asks /\ run'.snap = run.snap
      /\ run'.known = run.known /\ run'.bytes = run.bytes /\ run'.results = run.results
      /\ run'.code = run.code /\ run'.resumed = run.resumed /\ run'.whole = run.whole
      /\ run'.sent = run.sent
      /\ run'.alone => run.alone
  BY DEF RInv, Types, Runs
<1>2. run = Idle => run' = Idle
  <2>1. SUFFICES ASSUME run = Idle PROVE [run EXCEPT !.alone = FALSE] = Idle
    OBVIOUS
  <2> QED
    BY <2>1, IdleIs DEF Runs
<1>3. /\ run.pc # "idle" => Snap'.rev = Snap.rev /\ Snap'.kind = Snap.kind /\ Last' = Last
      /\ Next1' = Next1
  BY <1>1 DEF RInv, PhaseSound, Snap, Last, Next1
<1>4. PhaseSound'
  BY <1>1, <1>2, <1>3 DEF RInv, PhaseSound, Placing
<1>5. CASE run.pc = "idle"
  BY <1>2, <1>5, NextIdleIsSound DEF RInv, PhaseSound
<1>6. CASE run.pc # "idle"
  <2>1. ReportSound'
    <3>1. SUFFICES ASSUME NEW i \in DOMAIN run.results PROVE ResultSound(i)'
      BY <1>1 DEF ReportSound
    <3>2. ResultSound(i)
      BY DEF RInv, ReportSound
    <3>3. i \in 1 .. 5
      BY DEF RInv, Types, Runs, PhaseSound
    <3>4. ASSUME run.results[i] \in OnDisk
          PROVE  /\ i # 5 /\ disk'[Order[i]] # 0
                 /\ i \in {3, 4} \/ run'.alone => disk'[Order[i]] = Snap'.rev
      <4>1. /\ i # 5 /\ disk[Order[i]] # 0
            /\ i \in {3, 4} => disk[Order[i]] = Snap.rev
            /\ run.alone => disk[Order[i]] = Snap.rev
        BY <3>2, <3>4 DEF ResultSound
      <4>2. i = 1 \/ i = 2 \/ i = 3 \/ i = 4
        BY <3>3, <4>1
      <4>3. CASE i = 3 \/ i = 4
        BY <4>1, <4>3, <1>3, <1>6, Orders
      <4>4. CASE (i = 1 \/ i = 2) /\ disk' = disk
        BY <4>1, <4>4, <1>1, <1>3, <1>6
      <4>5. CASE (i = 1 \/ i = 2) /\ ~run'.alone /\ disk'["summary"] # 0
                 /\ disk'["sidecar"] # 0
        BY <4>5, Orders
      <4> QED
        BY <4>2, <4>3, <4>4, <4>5
    <3> QED
      BY <1>1, <3>2, <3>4 DEF ResultSound
  <2>2. CodeSound' /\ ResumeSound'
    BY <1>1 DEF RInv, CodeSound, ResumeSound
  <2>3. ImportSound'
    <3>1. Readable(row.path) => Readable(row.path)'
      BY DEF Readable
    <3> QED
      BY <1>1, <1>3, <1>6, <3>1 DEF RInv, ImportSound
  <2>4. WholeSound'
    <3>1. run'.alone => disk' = disk
      OBVIOUS
    <3> QED
      BY <1>1, <1>3, <1>6, <3>1 DEF RInv, WholeSound, Holds
  <2> QED
    BY <1>4, <2>1, <2>2, <2>3, <2>4
<1> QED
  BY <1>5, <1>6

\* The bounded events stay within their bound.
LEMMA FaultsAreBounded ==
  ASSUME Types, Faulty \/ UNCHANGED faults
  PROVE  faults' \in 0 .. MaxFaults
BY Assumed DEF Types, Faulty

\* Uploads and tombstones, the harness, and the loss of a part of the machine.
LEMMA EnvironmentIsSound == RInv /\ Environment /\ UNCHANGED runs => RInv'
<1> SUFFICES ASSUME RInv, Environment, UNCHANGED runs PROVE RInv'
  OBVIOUS
<1>t. Types /\ WorkerSound /\ PhaseSound
  BY DEF RInv
<1>1. CASE SnapshotCompletes
  <2>1. /\ run = Idle /\ run' = run /\ UNCHANGED <<disk, home, row, worker, faults>>
        /\ Len(snaps) < 2
    BY <1>1 DEF SnapshotCompletes
  <2>2. snaps' \in Seq(Snapshots) /\ Len(snaps') \in {1, 2}
    <3>1. PICK rev \in Revisions :
            snaps' = Append(snaps, [rev |-> rev, live |-> TRUE, kind |-> snaps[1].kind])
      BY <1>1 DEF SnapshotCompletes
    <3>2. snaps \in Seq(Snapshots) /\ Len(snaps) = 1
      <4>1. snaps \in Seq(Snapshots) /\ Len(snaps) \in {1, 2}
        BY <1>t DEF Types
      <4> QED
        BY <2>1, <4>1
    <3>3. snaps[1] \in Snapshots
      BY <3>2
    <3> DEFINE s == [rev |-> rev, live |-> TRUE, kind |-> snaps[1].kind]
    <3>4. s \in Snapshots
      BY <3>3 DEF Snapshots
    <3>5. snaps' = Append(snaps, s)
      BY <3>1
    <3> HIDE DEF s
    <3>6. Append(snaps, s) \in Seq(Snapshots) /\ Len(Append(snaps, s)) = Len(snaps) + 1
      BY <3>2, <3>4
    <3> QED
      BY <3>2, <3>5, <3>6
  <2>3. Types' /\ WorkerSound'
    BY <1>t, <2>1, <2>2 DEF Types, WorkerSound
  <2> QED
    BY <2>1, <2>3, NextIdleIsSound DEF RInv
<1>2. CASE SnapshotDies
  <2>1. /\ UNCHANGED <<disk, home, row, worker, run>>
        /\ Newest # 0 /\ snaps' = [snaps EXCEPT ![Newest].live = FALSE]
    BY <1>2 DEF SnapshotDies
  <2>2. Newest \in DOMAIN snaps /\ snaps \in Seq(Snapshots) /\ Len(snaps) \in {1, 2}
    BY <1>t, <2>1, NewestIs DEF Types
  <2>3. [snaps[Newest] EXCEPT !.live = FALSE] \in Snapshots
    <3>1. snaps[Newest] \in Snapshots
      BY <2>2
    <3> QED
      BY <3>1 DEF Snapshots
  <2>4. /\ snaps' \in Seq(Snapshots) /\ Len(snaps') \in {1, 2}
        /\ DOMAIN snaps' = DOMAIN snaps
    BY <2>1, <2>2, <2>3
  <2>5. \A k \in DOMAIN snaps : snaps'[k].rev = snaps[k].rev /\ snaps'[k].kind = snaps[k].kind
    BY <2>1, <2>2 DEF Snapshots
  <2>6. faults' \in 0 .. MaxFaults
    BY <1>2, <1>t, FaultsAreBounded DEF SnapshotDies
  <2>7. Types' /\ WorkerSound'
    BY <1>t, <2>1, <2>4, <2>6 DEF Types, WorkerSound
  <2> QED
    BY <2>1, <2>4, <2>5, <2>7, AroundIsSound DEF RInv
<1>3. CASE HarnessContinues
  <2>1. /\ UNCHANGED <<snaps, disk, row, worker, run, faults>>
        /\ home.of # 0 /\ home' = [home EXCEPT !.more = TRUE]
    BY <1>3 DEF HarnessContinues
  <2>2. /\ home' \in [of : Contents0, more : BOOLEAN]
        /\ home'.of # 0 /\ home' # NoHome
    BY <1>t, <2>1 DEF Types, NoHome
  <2>3. Types' /\ WorkerSound'
    BY <1>t, <2>1, <2>2 DEF Types, WorkerSound
  <2> QED
    BY <2>1, <2>2, <2>3, AroundIsSound DEF RInv
<1>4. CASE MachineLoses
  <2>1. run = Idle /\ worker = NoWorker /\ UNCHANGED <<snaps, worker, run>>
    BY <1>4 DEF MachineLoses
  <2>2. 0 \in Contents0
    BY Assumed DEF Contents0
  <2>3. /\ disk' \in [Artifacts -> Contents0]
        /\ home' \in [of : Contents0, more : BOOLEAN]
        /\ row' \in [rev : Contents0, path : {"none", "harness", "restored"}]
        /\ home' = home \/ home' = NoHome
    <3>1. /\ EmptyDisk \in [Artifacts -> Contents0]
          /\ NoHome \in [of : Contents0, more : BOOLEAN]
          /\ NoRow \in [rev : Contents0, path : {"none", "harness", "restored"}]
      BY <2>2 DEF EmptyDisk, NoHome, NoRow
    <3>2. /\ disk' \in {disk, EmptyDisk} /\ home' \in {home, NoHome} /\ row' \in {row, NoRow}
      BY <1>4 DEF MachineLoses
    <3> QED
      BY <1>t, <3>1, <3>2 DEF Types
  <2>4. faults' \in 0 .. MaxFaults
    BY <1>4, <1>t, FaultsAreBounded DEF MachineLoses
  <2>5. Types' /\ WorkerSound'
    BY <1>t, <2>1, <2>3, <2>4 DEF Types, WorkerSound, NoHome
  <2> QED
    BY <2>1, <2>5, NextIdleIsSound DEF RInv
<1> QED
  BY <1>1, <1>2, <1>3, <1>4 DEF Environment

\* The archive worker.
LEMMA WorkerIsSound == RInv /\ WorkerStep /\ UNCHANGED runs => RInv'
<1> SUFFICES ASSUME RInv, WorkerStep, UNCHANGED runs PROVE RInv'
  OBVIOUS
<1>t. Types /\ WorkerSound /\ PhaseSound
  BY DEF RInv
<1>1. CASE WorkerLoads
  <2>1. /\ UNCHANGED <<snaps, disk, home, row, run, faults>>
        /\ row.rev + 1 \in Revisions
        /\ worker' = [rev |-> row.rev + 1, placed |-> FALSE]
    BY <1>1 DEF WorkerLoads
  <2>2. row.rev + 1 \in Contents0
    BY <2>1, Assumed DEF Revisions, Contents0
  <2>3. worker' \in [rev : Contents0, placed : BOOLEAN] /\ ~worker'.placed
    BY <2>1, <2>2
  <2>4. Types'
    BY <1>t, <2>1, <2>3 DEF Types
  <2>5. WorkerSound'
    BY <1>t, <2>1, <2>3 DEF WorkerSound
  <2> QED
    BY <2>1, <2>4, <2>5, AroundIsSound DEF RInv
<1>2. CASE WorkerPlaces
  <2>1. /\ UNCHANGED <<snaps, home, row, faults>>
        /\ worker.rev # 0
        /\ worker' = [worker EXCEPT !.placed = TRUE]
        /\ disk' = [disk EXCEPT !["summary"] = worker.rev, !["sidecar"] = worker.rev]
        /\ run' = [run EXCEPT !.alone = FALSE]
    BY <1>2 DEF WorkerPlaces
  <2>2. /\ disk' \in [Artifacts -> Contents0]
        /\ disk'["summary"] # 0 /\ disk'["sidecar"] # 0
        /\ disk'["transcript"] = disk["transcript"] /\ disk'["output"] = disk["output"]
    BY <1>t, <2>1 DEF Types, Artifacts
  <2>3. worker' \in [rev : Contents0, placed : BOOLEAN] /\ worker'.rev = worker.rev
    BY <1>t, <2>1 DEF Types
  <2>4. run' \in Runs /\ ~run'.alone
    BY <1>t, <2>1 DEF Types, Runs
  <2>5. Types'
    BY <1>t, <2>1, <2>2, <2>3, <2>4 DEF Types
  <2>6. WorkerSound'
    BY <1>t, <2>1, <2>3 DEF WorkerSound
  <2> QED
    BY <2>1, <2>2, <2>4, <2>5, <2>6, AroundIsSound DEF RInv
<1>3. CASE WorkerArchives
  <2>1. /\ UNCHANGED <<snaps, disk, faults>>
        /\ worker.placed /\ worker' = NoWorker
        /\ home' = [of |-> worker.rev, more |-> FALSE]
        /\ row' = [row EXCEPT !.rev = worker.rev]
        /\ run' = [run EXCEPT !.alone = FALSE]
    BY <1>3 DEF WorkerArchives
  <2>2. worker.rev \in Contents0 /\ worker.rev # 0 /\ 0 \in Contents0
    BY <1>t, <2>1, Assumed DEF Types, WorkerSound, Contents0
  <2>3. /\ home' \in [of : Contents0, more : BOOLEAN]
        /\ home'.of # 0 /\ home' # NoHome
    BY <2>1, <2>2 DEF NoHome
  <2>4. /\ row' \in [rev : Contents0, path : {"none", "harness", "restored"}]
        /\ row'.path = row.path
    BY <1>t, <2>1, <2>2 DEF Types
  <2>5. worker' \in [rev : Contents0, placed : BOOLEAN] /\ ~worker'.placed
    BY <2>1, <2>2 DEF NoWorker
  <2>6. run' \in Runs /\ ~run'.alone
    BY <1>t, <2>1 DEF Types, Runs
  <2>7. Types'
    BY <1>t, <2>1, <2>3, <2>4, <2>5, <2>6 DEF Types
  <2>8. WorkerSound'
    BY <2>3, <2>5 DEF WorkerSound
  <2> QED
    BY <2>1, <2>3, <2>4, <2>6, <2>7, <2>8, AroundIsSound DEF RInv
<1>4. CASE WorkerDies
  <2>1. UNCHANGED <<snaps, disk, home, row, run>> /\ worker' = NoWorker
    BY <1>4 DEF WorkerDies
  <2>2. faults' \in 0 .. MaxFaults
    BY <1>4, <1>t, FaultsAreBounded DEF WorkerDies
  <2>3. worker' \in [rev : Contents0, placed : BOOLEAN] /\ ~worker'.placed
    BY <2>1, Assumed DEF NoWorker, Contents0
  <2>4. Types'
    BY <1>t, <2>1, <2>2, <2>3 DEF Types
  <2>5. WorkerSound'
    BY <1>t, <2>1, <2>3 DEF WorkerSound
  <2> QED
    BY <2>1, <2>4, <2>5, AroundIsSound DEF RInv
<1> QED
  BY <1>1, <1>2, <1>3, <1>4 DEF WorkerStep

-----------------------------------------------------------------------------
(* Placing the artifacts.                                                   *)

\* An entry of the report that says what is so, of a file nobody else's: the
\* rest of the report stays true, and a code of 0 means that all of it is good.
LEMMA PlacedIsSound ==
  ASSUME RInv, run.pc \in Placing,
         NEW result \in Results, NEW r \in Runs,
         r.asks = run.asks, r.snap = run.snap, r.known = run.known,
         r.results = run.results, r.resumed = run.resumed, r.whole = run.whole,
         r.alone = run.alone,
         run' = Placed(result, r),
         UNCHANGED <<snaps, home, row, worker, runs>>,
         faults' \in 0 .. MaxFaults,
         disk' \in [Artifacts -> Contents0],
         \A a \in Artifacts : a # Next1 => disk'[a] = disk[a],
         result \in OnDisk => Next1 # "stray" /\ disk'[Next1] = Snap.rev,
         result = "would" => run.asks.dry,
         result = "requested" => Next1 = "output" /\ run.asks.skip,
         Next1 = "stray" => result = "skipped",
         run.whole /\ run.alone => disk' = disk /\ r.sent = 0
  PROVE  RInv'
<1> DEFINE n == Len(run.results)
           results == Append(run.results, result)
<1>1. /\ Types /\ WorkerSound /\ PhaseSound /\ ReportSound /\ ResumeSound /\ WholeSound
      /\ run.snap \in DOMAIN snaps
  BY DEF RInv, PhaseSound, Placing
<1>2. /\ n \in 0 .. 4
      /\ Next1 = Order[n + 1]
      /\ Next1 = "stray" <=> n = 4
      /\ Next1 # "stray" => Next1 \in Artifacts
  BY <1>1, Next1Is
<1>3. /\ Snap.rev \in Contents0 /\ Snap.rev # 0
      /\ Last \in {4, 5} /\ n < Last
  BY <1>1, SnapIs DEF PhaseSound
<1>4. /\ results \in Seq(Results) /\ Len(results) = n + 1
      /\ DOMAIN run.results = 1 .. n /\ DOMAIN results = 1 .. (n + 1)
      /\ \A i \in 1 .. n : results[i] = run.results[i]
      /\ results[n + 1] = result
  <2>1. run.results \in Seq(Results)
    BY <1>1 DEF Types, Runs
  <2> QED
    BY <2>1
<1>5. run' = [r EXCEPT !.results = results, !.bytes = 0,
                !.pc = IF Len(results) = Last THEN "resume" ELSE "check",
                !.code = IF Len(results) = Last THEN ReportCode(results) ELSE 0]
  BY DEF Placed
<1>a. result \in OnDisk => Next1 # "stray" /\ disk'[Next1] = Snap.rev
  OBVIOUS
<1> HIDE DEF n, results
<1>6. n + 1 <= 5 /\ n + 1 <= Last
  BY <1>2, <1>3
<1>7. ReportCode(results) \in DOMAIN Severity /\ 0 \in DOMAIN Severity
  BY <1>4, <1>6, ReportCodeIsSound, Codes
<1>8. /\ run'.asks = run.asks /\ run'.snap = run.snap /\ run'.results = results
      /\ run'.bytes = 0
      /\ run'.resumed = run.resumed /\ run'.whole = run.whole
      /\ run'.alone = run.alone /\ run'.sent = r.sent
      /\ n + 1 = Last => run'.pc = "resume" /\ run'.code = ReportCode(results)
      /\ n + 1 # Last => run'.pc = "check"
  BY <1>4, <1>5 DEF Runs
<1>9. run' \in Runs
  <2>1. 0 \in Contents0
    BY Assumed DEF Contents0
  <2> QED
    BY <1>4, <1>5, <1>7, <2>1 DEF Runs, PCs
<1>10. Snap' = Snap /\ Last' = Last
  BY <1>8 DEF Snap, Last
<1>11. Types' /\ WorkerSound'
  BY <1>1, <1>9 DEF Types, WorkerSound
<1>12. PhaseSound'
  <2>1. run'.pc \in {"resume", "check"} /\ (run'.pc = "check" => n + 1 < Last)
    BY <1>3, <1>6, <1>8, <1>2
  <2> QED
    BY <1>1, <1>4, <1>6, <1>8, <1>10, <2>1 DEF PhaseSound, Placing
<1>13. ReportSound'
  <2>1. SUFFICES ASSUME NEW i \in 1 .. (n + 1) PROVE ResultSound(i)'
    BY <1>4, <1>8 DEF ReportSound
  <2>2. CASE i \in 1 .. n
    <3>1. ResultSound(i) /\ results[i] = run.results[i]
      BY <1>1, <1>4, <2>2 DEF ReportSound
    <3>2. i \in 1 .. 4 /\ Order[i] # Next1 /\ Order[i] \in Artifacts
      <4>1. i \in 1 .. 4 /\ i # n + 1
        BY <1>2, <2>2
      <4>2. CASE n = 4
        BY <4>1, <4>2, <1>2, Orders DEF Artifacts
      <4>3. CASE n # 4
        <5>1. n + 1 \in 1 .. 4
          BY <1>2, <4>3
        <5> QED
          BY <4>1, <5>1, <1>2, Orders
      <4> QED
        BY <4>2, <4>3
    <3>3. disk'[Order[i]] = disk[Order[i]]
      BY <3>2
    <3> QED
      BY <3>1, <3>3, <1>8, <1>10 DEF ResultSound
  <2>3. CASE i = n + 1
    <3>1. results[i] = result /\ Order[i] = Next1
      BY <1>2, <1>4, <2>3
    <3>2. i = 5 <=> n = 4
      BY <1>2, <2>3
    <3>3. result \in OnDisk => i # 5 /\ disk'[Order[i]] # 0 /\ disk'[Order[i]] = Snap.rev
      BY <1>2, <1>3, <1>a, <3>1, <3>2
    <3>4. result = "requested" => i = 4
      BY <1>2, <2>3, Orders
    <3>5. i = 5 => result = "skipped"
      BY <1>2, <3>2
    <3> QED
      BY <3>1, <3>3, <3>4, <3>5, <1>8, <1>10 DEF ResultSound
  <2> QED
    BY <1>2, <2>1, <2>2, <2>3
<1>14. CodeSound'
  <2>1. SUFFICES ASSUME run'.pc \in After, run'.code = 0
                 PROVE  /\ Len(results) = 4 /\ \A i \in 1 .. 4 : results[i] \in Good
                        /\ run'.pc = "resume"
    BY <1>8 DEF CodeSound
  <2>2. n + 1 = Last /\ run'.pc = "resume" /\ ReportCode(results) = 0
    BY <1>8, <2>1 DEF After
  <2>3. \A i \in 1 .. (n + 1) : results[i] \in Good
    BY <1>4, <1>6, <2>2, ReportCodeIsSound
  <2>4. n # 4
    <3>1. SUFFICES ASSUME n = 4 PROVE FALSE
      OBVIOUS
    <3>2. results[5] = "skipped" /\ results[5] \in Good
      BY <1>2, <1>4, <2>3, <3>1
    <3> QED
      BY <3>2 DEF Good, OnDisk
  <2>5. n + 1 = 4
    BY <1>2, <1>3, <2>2, <2>4
  <2> QED
    BY <1>4, <2>2, <2>3, <2>5
<1>15. ResumeSound' /\ ImportSound'
  <2>1. run'.pc # "exit"
    BY <1>8
  <2> QED
    BY <1>1, <1>8, <2>1 DEF ResumeSound, ImportSound
<1>16. WholeSound'
  <2>1. run'.pc \in {"resume", "check"}
    BY <1>8
  <2> QED
    BY <1>1, <1>8, <1>10, <2>1 DEF WholeSound, Holds
<1> QED
  BY <1>11, <1>12, <1>13, <1>14, <1>15, <1>16 DEF RInv

\* An artifact passed over, refused, found or announced; or one to be placed.
LEMMA CheckIsSound == RInv /\ CheckArtifact /\ UNCHANGED <<runs, worker>> => RInv'
<1> SUFFICES ASSUME RInv, CheckArtifact, UNCHANGED <<runs, worker>> PROVE RInv'
  OBVIOUS
<1> DEFINE a == Next1
           mine == IF a = "stray" THEN 0 ELSE disk[a]
<1>1. /\ Types /\ WorkerSound /\ PhaseSound /\ ReportSound /\ ResumeSound /\ WholeSound
      /\ run.pc = "check" /\ run.pc \in Placing /\ run.snap \in DOMAIN snaps
  BY DEF RInv, PhaseSound, Placing, CheckArtifact
<1>2. UNCHANGED <<snaps, disk, home, row, faults>>
  BY DEF CheckArtifact
<1>3. a # "stray" => a \in Artifacts
  BY <1>1, Next1Is
<1>4. run.asks \in Options /\ run \in Runs
  BY <1>1 DEF Types, Runs
<1>5. disk' \in [Artifacts -> Contents0] /\ faults' \in 0 .. MaxFaults
  BY <1>1, <1>2 DEF Types
<1>6. run.whole /\ run.alone => disk' = disk /\ run.sent = 0
  BY <1>1, <1>2 DEF WholeSound
<1>7. ASSUME NEW result \in Results, run' = Placed(result, run),
             result \in OnDisk => a # "stray" /\ disk[a] = Snap.rev,
             result = "would" => run.asks.dry,
             result = "requested" => a = "output" /\ run.asks.skip,
             a = "stray" => result = "skipped"
      PROVE  RInv'
  <2>1. result \in OnDisk => Next1 # "stray" /\ disk'[Next1] = Snap.rev
    BY <1>2, <1>7
  <2> QED
    BY <1>1, <1>2, <1>4, <1>5, <1>6, <1>7, <2>1, PlacedIsSound
<1>8. CASE a = "stray"
  <2>1. run' = Placed("skipped", run)
    BY <1>8 DEF CheckArtifact, Unplaced
  <2>2. "skipped" \in Results /\ "skipped" \notin OnDisk
    BY DEF Results, OnDisk
  <2> QED
    BY <1>7, <2>1, <2>2
<1>9. CASE a = "output" /\ run.asks.skip
  <2>1. run' = Placed("requested", run)
    BY <1>9 DEF CheckArtifact, Unplaced
  <2>2. "requested" \in Results /\ "requested" \notin OnDisk
    BY DEF Results, OnDisk
  <2> QED
    BY <1>7, <1>9, <2>1, <2>2
<1>10. CASE a # "stray" /\ ~Unplaced(a)
  <2>1. a \in Artifacts /\ mine = disk[a]
    BY <1>3, <1>10
  <2>2. CASE mine = Snap.rev
    <3>1. run' = Placed("present", run)
      BY <1>10, <2>2 DEF CheckArtifact
    <3>2. "present" \in Results
      BY DEF Results
    <3> QED
      BY <1>7, <1>10, <2>1, <2>2, <3>1, <3>2
  <2>3. CASE mine \notin {0, Snap.rev} /\ ~run.asks.force
    <3>1. run' = Placed("refused", run)
      BY <1>10, <2>3 DEF CheckArtifact
    <3>2. "refused" \in Results /\ "refused" \notin OnDisk
      BY DEF Results, OnDisk
    <3> QED
      BY <1>7, <1>10, <3>1, <3>2
  <2>4. CASE mine # Snap.rev /\ (mine = 0 \/ run.asks.force) /\ run.asks.dry
    <3>1. run' = Placed("would", run)
      BY <1>10, <2>4 DEF CheckArtifact
    <3>2. "would" \in Results /\ "would" \notin OnDisk
      BY DEF Results, OnDisk
    <3> QED
      BY <1>7, <1>10, <2>4, <3>1, <3>2
  <2>5. CASE mine # Snap.rev /\ (mine = 0 \/ run.asks.force) /\ ~run.asks.dry
    <3>1. run' = [run EXCEPT !.pc = IF mine = 0 THEN "write" ELSE "replace"]
      BY <1>10, <2>5 DEF CheckArtifact
    <3>2. /\ run' \in Runs /\ run'.pc \in {"write", "replace"}
          /\ run'.asks = run.asks /\ run'.snap = run.snap /\ run'.results = run.results
          /\ run'.bytes = run.bytes /\ run'.code = run.code /\ run'.resumed = run.resumed
          /\ run'.whole = run.whole /\ run'.alone = run.alone
      BY <1>4, <3>1 DEF Runs, PCs
    <3>3. Snap' = Snap /\ Last' = Last /\ Next1' = Next1
      BY <1>2, <3>2 DEF Snap, Last, Next1
    <3>4. Types' /\ WorkerSound'
      BY <1>1, <1>2, <3>2 DEF Types, WorkerSound
    <3>5. PhaseSound'
      BY <1>1, <1>2, <1>10, <3>2, <3>3 DEF PhaseSound, Placing
    <3>6. ReportSound'
      BY <1>1, <1>2, <3>2, <3>3 DEF ReportSound, ResultSound
    <3>7. CodeSound' /\ ResumeSound' /\ ImportSound'
      BY <1>1, <1>2, <3>2 DEF CodeSound, ResumeSound, ImportSound, After
    <3>8. ~(run.whole /\ run.alone)
      BY <1>1, <2>1, <2>5 DEF WholeSound, Holds
    <3>9. WholeSound'
      BY <3>2, <3>8 DEF WholeSound
    <3> QED
      BY <3>4, <3>5, <3>6, <3>7, <3>9 DEF RInv
  <2>6. run.asks.force \in BOOLEAN /\ run.asks.dry \in BOOLEAN
    BY <1>4, OptionTypes
  <2> QED
    BY <2>2, <2>3, <2>4, <2>5, <2>6
<1> QED
  BY <1>8, <1>9, <1>10 DEF Unplaced

\* What passes for verified is the archived original.
LEMMA VerifiedIsSound ==
  ASSUME NEW answer \in Answers
  PROVE  /\ Verified(answer) \in {"transport", "verification", "verified"}
         /\ Verified(answer) = "verified" => Contents(answer) = Snap.rev
BY DEF Verified, Answers

\* The download of an artifact, and its file.
LEMMA PlaceIsSound ==
  ASSUME NEW answer \in Answers, NEW writes \in BOOLEAN
  PROVE  RInv /\ PlaceArtifact(answer, writes) /\ UNCHANGED <<runs, worker>> => RInv'
<1> SUFFICES ASSUME RInv, PlaceArtifact(answer, writes), UNCHANGED <<runs, worker>>
             PROVE  RInv'
  OBVIOUS
<1> DEFINE a       == Next1
           held    == run.bytes # 0
           verdict == IF held THEN "verified" ELSE Verified(answer)
           fetched == [run EXCEPT !.sent = IF held THEN @ ELSE @ + 1]
           done    == IF run.pc = "write" THEN "written" ELSE "replaced"
           result  == CASE verdict # "verified" -> verdict
                        [] verdict = "verified" /\ ~writes -> "local"
                        [] OTHER -> done
<1>1. /\ Types /\ WorkerSound /\ PhaseSound /\ ReportSound /\ ResumeSound /\ WholeSound
      /\ run.pc \in {"write", "replace"} /\ run.pc \in Placing /\ run.snap \in DOMAIN snaps
  BY DEF RInv, PhaseSound, Placing, PlaceArtifact
<1>2. UNCHANGED <<snaps, home, row>>
  BY DEF PlaceArtifact
<1>3. a # "stray" /\ a \in Artifacts
  BY <1>1, Next1Is DEF PhaseSound
<1>4. run \in Runs
  BY <1>1 DEF Types
<1>5. faults' \in 0 .. MaxFaults
  <2>1. Faulty \/ UNCHANGED faults
    BY DEF PlaceArtifact
  <2> QED
    BY <1>1, <2>1, FaultsAreBounded
<1>6. ~(run.whole /\ run.alone)
  BY <1>1 DEF WholeSound
<1>7. CASE TooBig(a) /\ ~held
  <2>1. run' = Placed("skipped", run) /\ UNCHANGED disk
    BY <1>7 DEF PlaceArtifact
  <2>2. "skipped" \in Results /\ "skipped" \notin OnDisk
    BY DEF Results, OnDisk
  <2>3. disk' \in [Artifacts -> Contents0] /\ \A b \in Artifacts : disk'[b] = disk[b]
    BY <1>1, <2>1 DEF Types
  <2> QED
    BY <1>1, <1>2, <1>4, <1>5, <1>6, <2>1, <2>2, <2>3, PlacedIsSound
<1>8. CASE ~(TooBig(a) /\ ~held)
  <2>1. /\ run' = Placed(result, fetched)
        /\ IF verdict = "verified" /\ writes
             THEN disk' = [disk EXCEPT ![a] = IF held THEN run.bytes ELSE Contents(answer)]
             ELSE UNCHANGED disk
    BY <1>8 DEF PlaceArtifact
  <2>2. Snap.rev \in Contents0
    BY <1>1, SnapIs
  <2>3. verdict = "verified" => (IF held THEN run.bytes ELSE Contents(answer)) = Snap.rev
    BY <1>1, VerifiedIsSound DEF PhaseSound
  <2>4. /\ disk' \in [Artifacts -> Contents0]
        /\ \A b \in Artifacts : b # a => disk'[b] = disk[b]
        /\ verdict = "verified" /\ writes => disk'[a] = Snap.rev
    BY <1>1, <1>3, <2>1, <2>2, <2>3 DEF Types
  <2>5. /\ result \in Results
        /\ result \in OnDisk => verdict = "verified" /\ writes
        /\ result \notin {"would", "requested"}
    <3>1. verdict \in {"transport", "verification", "verified"}
      BY VerifiedIsSound
    <3> QED
      BY <3>1 DEF Results, OnDisk
  <2>6. /\ fetched \in Runs
        /\ fetched.asks = run.asks /\ fetched.snap = run.snap
        /\ fetched.known = run.known /\ fetched.results = run.results
        /\ fetched.resumed = run.resumed /\ fetched.whole = run.whole
        /\ fetched.alone = run.alone
    BY <1>4 DEF Runs
  <2> HIDE DEF fetched, result, verdict
  <2> QED
    BY <1>1, <1>2, <1>3, <1>5, <1>6, <2>1, <2>4, <2>5, <2>6, PlacedIsSound
<1> QED
  BY <1>7, <1>8

-----------------------------------------------------------------------------
(* The record: its manifest and its summary.                                *)

\* Before the first artifact: a run goes on to one, or yields nothing.
LEMMA EarlyIsSound ==
  ASSUME RInv, run.pc \in {"manifest", "summary"}, run' \in Runs,
         UNCHANGED <<snaps, disk, home, row, worker, runs>>, faults' \in 0 .. MaxFaults,
         run'.asks = run.asks, run'.snap = run.snap, run'.results = run.results,
         run'.resumed = run.resumed, run'.whole = run.whole, run'.alone = run.alone,
         \/ run'.pc = "resume" /\ run'.code # 0 /\ run'.bytes = 0
         \/ run'.pc = "check" /\ run'.bytes \in {0, Snap.rev}
         \/ run'.pc = "summary" /\ run'.bytes = 0,
         run.whole /\ run.alone => run'.pc # "summary" /\ run'.sent = 0
  PROVE  RInv'
<1>1. /\ Types /\ WorkerSound /\ PhaseSound /\ ResumeSound /\ WholeSound
      /\ run.snap \in DOMAIN snaps /\ run.results = <<>>
  BY DEF RInv, PhaseSound
<1>2. Snap' = Snap /\ Last' = Last
  BY DEF Snap, Last
<1>3. Types' /\ WorkerSound'
  BY <1>1 DEF Types, WorkerSound
<1>4. PhaseSound'
  <2>1. Last = 4 \/ Last = 5
    BY <1>1, SnapIs
  <2>2. Len(run'.results) = 0 /\ 0 < Last /\ 0 <= 5
    BY <1>1, <2>1
  <2> QED
    BY <1>1, <1>2, <2>2 DEF PhaseSound, Placing
<1>5. ReportSound'
  BY <1>1 DEF ReportSound
<1>6. CodeSound' /\ ResumeSound' /\ ImportSound'
  BY <1>1 DEF CodeSound, ResumeSound, ImportSound, After
<1>7. WholeSound'
  BY <1>1, <1>2 DEF WholeSound, Holds
<1> QED
  BY <1>3, <1>4, <1>5, <1>6, <1>7 DEF RInv

\* The manifest and the artifact listing.
LEMMA ManifestIsSound == RInv /\ Manifest /\ UNCHANGED <<runs, worker>> => RInv'
<1> SUFFICES ASSUME RInv, Manifest, UNCHANGED <<runs, worker>> PROVE RInv'
  OBVIOUS
<1>1. /\ Types /\ WholeSound /\ run \in Runs /\ run.pc = "manifest"
      /\ run.bytes = 0
      /\ UNCHANGED <<snaps, disk, home, row>>
  BY DEF RInv, PhaseSound, Manifest, Types
<1>2. faults' \in 0 .. MaxFaults
  <2>1. Faulty \/ UNCHANGED faults
    BY DEF Manifest
  <2> QED
    BY <1>1, <2>1, FaultsAreBounded
<1>3. \/ run' = [run EXCEPT !.pc = "resume", !.code = FindingCode]
      \/ run' = [run EXCEPT !.pc = "resume", !.code = TransportCode]
      \/ Snap.rev \in run.known /\ run' = [run EXCEPT !.pc = "check"]
      \/ Snap.rev \notin run.known /\ run' = [run EXCEPT !.pc = "summary"]
  BY DEF Manifest, Yields, Goes
<1>4. run.whole /\ run.alone => Snap.rev \in run.known /\ run.sent = 0
  BY <1>1 DEF WholeSound
<1>5. /\ run' \in Runs
      /\ run'.asks = run.asks /\ run'.snap = run.snap /\ run'.results = run.results
      /\ run'.resumed = run.resumed /\ run'.whole = run.whole /\ run'.alone = run.alone
      /\ run'.bytes = 0 /\ run'.sent = run.sent
  BY <1>1, <1>3, Codes, ZenonT(60) DEF Runs, PCs
<1>6. \/ run'.pc = "resume" /\ run'.code # 0
      \/ run'.pc = "check" /\ Snap.rev \in run.known
      \/ run'.pc = "summary" /\ Snap.rev \notin run.known
  <2>1. CASE \/ run' = [run EXCEPT !.pc = "resume", !.code = FindingCode]
             \/ run' = [run EXCEPT !.pc = "resume", !.code = TransportCode]
    <3>1. FindingCode # 0 /\ TransportCode # 0
      BY Codes
    <3>2. run'.pc = "resume" /\ (run'.code = FindingCode \/ run'.code = TransportCode)
      BY <1>1, <2>1 DEF Runs
    <3> QED
      BY <3>1, <3>2
  <2>2. CASE Snap.rev \in run.known /\ run' = [run EXCEPT !.pc = "check"]
    BY <1>1, <2>2 DEF Runs
  <2>3. CASE Snap.rev \notin run.known /\ run' = [run EXCEPT !.pc = "summary"]
    BY <1>1, <2>3 DEF Runs
  <2> QED
    BY <1>3, <2>1, <2>2, <2>3
<1> QED
  BY <1>1, <1>2, <1>4, <1>5, <1>6, EarlyIsSound

\* The summary, when no local record has it.
LEMMA FetchIsSound ==
  ASSUME NEW answer \in Answers
  PROVE  RInv /\ FetchSummary(answer) /\ UNCHANGED <<runs, worker>> => RInv'
<1> SUFFICES ASSUME RInv, FetchSummary(answer), UNCHANGED <<runs, worker>> PROVE RInv'
  OBVIOUS
<1> DEFINE verdict == Verified(answer)
           fetched == [run EXCEPT !.sent = @ + 1]
<1>1. /\ Types /\ WholeSound /\ run \in Runs /\ run.pc = "summary"
      /\ run.bytes = 0 /\ run.snap \in DOMAIN snaps
      /\ UNCHANGED <<snaps, disk, home, row>>
  BY DEF RInv, PhaseSound, FetchSummary, Types
<1>2. faults' \in 0 .. MaxFaults
  <2>1. Faulty \/ UNCHANGED faults
    BY DEF FetchSummary, Answered
  <2> QED
    BY <1>1, <2>1, FaultsAreBounded
<1>3. ~(run.whole /\ run.alone)
  BY <1>1 DEF WholeSound
<1>4. /\ Snap.rev \in Contents0 /\ verdict \in {"transport", "verification", "verified"}
      /\ verdict = "verified" => Contents(answer) = Snap.rev
  BY <1>1, SnapIs, VerifiedIsSound
<1>5. \/ run' = [run EXCEPT !.pc = "resume", !.code = FindingCode]
      \/ /\ verdict # "verified"
         /\ run' = [fetched EXCEPT !.pc = "resume", !.code = ClassCode[verdict]]
      \/ run' = [fetched EXCEPT !.pc = "resume", !.code = FindingCode]
      \/ /\ verdict = "verified"
         /\ run' = [fetched EXCEPT !.pc = "check", !.bytes = Contents(answer)]
  BY DEF FetchSummary, Yields
<1>6. /\ fetched \in Runs
      /\ fetched.asks = run.asks /\ fetched.snap = run.snap /\ fetched.results = run.results
      /\ fetched.resumed = run.resumed /\ fetched.whole = run.whole
      /\ fetched.alone = run.alone /\ fetched.bytes = 0
  BY <1>1 DEF Runs
<1>7. verdict # "verified" => ClassCode[verdict] \in DOMAIN Severity /\ ClassCode[verdict] # 0
  BY <1>4, Codes
<1> HIDE DEF fetched, verdict
<1>8. ASSUME NEW r \in {run, fetched}, NEW code \in DOMAIN Severity, code # 0,
             run' = [r EXCEPT !.pc = "resume", !.code = code]
      PROVE  RInv'
  <2>1. /\ run' \in Runs /\ run'.pc = "resume" /\ run'.code # 0 /\ run'.bytes = 0
        /\ run'.asks = run.asks /\ run'.snap = run.snap /\ run'.results = run.results
        /\ run'.resumed = run.resumed /\ run'.whole = run.whole /\ run'.alone = run.alone
    BY <1>1, <1>6, <1>8 DEF Runs, PCs
  <2> QED
    BY <1>1, <1>2, <1>3, <2>1, EarlyIsSound
<1>9. ASSUME verdict = "verified",
             run' = [fetched EXCEPT !.pc = "check", !.bytes = Contents(answer)]
      PROVE  RInv'
  <2>1. /\ run' \in Runs /\ run'.pc = "check" /\ run'.bytes = Snap.rev
        /\ run'.asks = run.asks /\ run'.snap = run.snap /\ run'.results = run.results
        /\ run'.resumed = run.resumed /\ run'.whole = run.whole /\ run'.alone = run.alone
    BY <1>4, <1>6, <1>9 DEF Runs, PCs
  <2> QED
    BY <1>1, <1>2, <1>3, <2>1, EarlyIsSound
<1>10. FindingCode \in DOMAIN Severity /\ FindingCode # 0
  BY Codes
<1> QED
  BY <1>5, <1>7, <1>8, <1>9, <1>10

\* A run begins on the newest snapshot.
LEMMA BeginIsSound ==
  ASSUME NEW asks \in Options
  PROVE  RInv /\ RestoreBegins(asks) /\ UNCHANGED worker => RInv'
<1> SUFFICES ASSUME RInv, RestoreBegins(asks), UNCHANGED worker PROVE RInv'
  OBVIOUS
<1>1. /\ Types /\ WorkerSound /\ UNCHANGED <<snaps, disk, home, row, faults>>
      /\ runs < MaxRuns /\ runs' = runs + 1 /\ Newest # 0
      /\ run' = [Idle EXCEPT !.pc = "manifest", !.asks = asks, !.snap = Newest,
                             !.known = LocalRecordIndex, !.alone = TRUE,
                             !.whole = Holds(disk, snaps[Newest])]
  BY DEF RInv, RestoreBegins
<1>2. Newest \in DOMAIN snaps /\ Newest \in Nat
  BY <1>1, NewestIs
<1>3. LocalRecordIndex \subseteq Nat
  BY <1>1, Assumed DEF LocalRecordIndex, Types, Artifacts, Contents0
<1>4. Holds(disk, snaps[Newest]) \in BOOLEAN
  BY DEF Holds
<1>5. /\ run'.pc = "manifest" /\ run'.snap = Newest /\ run'.known = LocalRecordIndex
      /\ run'.whole = Holds(disk, snaps[Newest])
      /\ run'.bytes = 0 /\ run'.results = <<>> /\ run'.sent = 0 /\ ~run'.resumed
  BY <1>1, IdleIs DEF Runs
<1>6. run' \in Runs
  BY <1>1, <1>2, <1>3, <1>4, IdleIs DEF Runs, PCs
<1>7. Types' /\ WorkerSound'
  <2>1. runs' \in 0 .. MaxRuns
    BY <1>1, Assumed DEF Types
  <2> QED
    BY <1>1, <1>6, <2>1 DEF Types, WorkerSound
<1>8. PhaseSound'
  BY <1>1, <1>2, <1>5 DEF PhaseSound, Placing
<1>9. ReportSound' /\ CodeSound' /\ ResumeSound' /\ ImportSound'
  BY <1>5 DEF ReportSound, CodeSound, ResumeSound, ImportSound, After
<1>10. WholeSound'
  <2>1. SUFFICES ASSUME run'.whole
                 PROVE  Holds(disk, snaps[Newest]) /\ snaps[Newest].rev \in LocalRecordIndex
    BY <1>1, <1>5 DEF WholeSound, Snap, Holds
  <2>2. Holds(disk, snaps[Newest])
    BY <1>5, <2>1
  <2>3. disk["summary"] = snaps[Newest].rev
    BY <2>2 DEF Holds, Artifacts
  <2>4. snaps[Newest].rev # 0
    <3>1. snaps[Newest] \in Snapshots
      BY <1>1, <1>2 DEF Types
    <3> QED
      BY <3>1, Assumed DEF Snapshots, Revisions
  <2> QED
    BY <2>2, <2>3, <2>4 DEF LocalRecordIndex
<1> QED
  BY <1>7, <1>8, <1>9, <1>10 DEF RInv

-----------------------------------------------------------------------------
(* The harness home, the database and the end.                              *)

\* The larger of two numbers.
LEMMA MaxOfTwo ==
  ASSUME NEW x \in Contents0, NEW y \in Contents0
  PROVE  Max({x, y}) \in Contents0 /\ Max({x, y}) >= x /\ Max({x, y}) >= y
<1>1. x \in Nat /\ y \in Nat
  BY Assumed DEF Contents0
<1>2. \E m \in {x, y} : \A z \in {x, y} : m >= z
  BY <1>1
<1>3. Max({x, y}) \in {x, y} /\ \A z \in {x, y} : Max({x, y}) >= z
  BY <1>2 DEF Max
<1> QED
  BY <1>3

\* An artifact the report says is on disk is there.
LEMMA OnDiskIs ==
  ASSUME Types, ReportSound, NEW i \in 1 .. 4, IsOnDisk(i)
  PROVE  /\ i \in DOMAIN run.results /\ run.results[i] \in OnDisk
         /\ disk[Order[i]] # 0
         /\ i \in {3, 4} \/ run.alone => disk[Order[i]] = Snap.rev
<1>1. i \in DOMAIN run.results /\ run.results[i] \in OnDisk
  BY DEF IsOnDisk, ResultOf, OnDisk
<1>2. ResultSound(i)
  BY <1>1 DEF ReportSound
<1> QED
  BY <1>1, <1>2 DEF ResultSound

\* With a code of 0 and no dry run, all but an output nobody wanted is there.
LEMMA GoodIs ==
  ASSUME Types, ReportSound, CodeSound, run.pc \in After, run.code = 0, ~run.asks.dry
  PROVE  /\ \A i \in 1 .. 3 : IsOnDisk(i)
         /\ IsOnDisk(4) \/ run.asks.skip
<1>1. Len(run.results) = 4 /\ \A i \in 1 .. 4 : run.results[i] \in Good
  BY DEF CodeSound
<1>2. DOMAIN run.results = 1 .. 4
  <2>1. run.results \in Seq(Results)
    BY DEF Types, Runs
  <2> QED
    BY <1>1, <2>1
<1>3. ASSUME NEW i \in 1 .. 4
      PROVE  IsOnDisk(i) \/ (i = 4 /\ run.asks.skip)
  <2>1. ResultSound(i) /\ run.results[i] \in Good
    BY <1>1, <1>2 DEF ReportSound
  <2>2. CASE run.results[i] \in OnDisk
    BY <1>2, <2>2 DEF IsOnDisk, ResultOf, OnDisk
  <2>3. CASE run.results[i] \in {"would", "requested"}
    BY <2>1, <2>3 DEF ResultSound
  <2> QED
    BY <2>1, <2>2, <2>3 DEF Good
<1> QED
  BY <1>3

\* From the resume to the import: what is said of the files stays.
LEMMA ResumeEndsSound ==
  ASSUME RInv, run.pc = "resume", run' \in Runs, run'.pc = "import",
         run'.asks = run.asks, run'.snap = run.snap, run'.bytes = run.bytes,
         run'.results = run.results, run'.whole = run.whole, run'.alone = run.alone,
         run'.sent = run.sent,
         run'.code = 0 => run.code = 0 /\ (run.asks.resume = "no" \/ run'.resumed),
         run'.resumed => home' # NoHome,
         home' \in [of : Contents0, more : BOOLEAN], home'.more => home'.of # 0,
         faults' \in 0 .. MaxFaults,
         UNCHANGED <<snaps, disk, row, worker, runs>>
  PROVE  RInv'
<1>1. /\ Types /\ WorkerSound /\ PhaseSound /\ ReportSound /\ CodeSound /\ ResumeSound
      /\ WholeSound /\ run.snap \in DOMAIN snaps
  BY DEF RInv, PhaseSound
<1>2. Snap' = Snap /\ Last' = Last
  BY DEF Snap, Last
<1>3. Types' /\ WorkerSound'
  BY <1>1 DEF Types, WorkerSound
<1>4. PhaseSound'
  BY <1>1 DEF PhaseSound, Placing
<1>5. ReportSound'
  BY <1>1, <1>2 DEF ReportSound, ResultSound
<1>6. CodeSound'
  BY <1>1 DEF CodeSound, After
<1>7. ResumeSound' /\ ImportSound'
  BY DEF ResumeSound, ImportSound
<1>8. WholeSound'
  BY <1>1, <1>2 DEF WholeSound, Holds
<1> QED
  BY <1>3, <1>4, <1>5, <1>6, <1>7, <1>8 DEF RInv

LEMMA NoResumeIsSound == RInv /\ NoResume /\ UNCHANGED <<runs, worker>> => RInv'
<1> SUFFICES ASSUME RInv, NoResume, UNCHANGED <<runs, worker>> PROVE RInv'
  OBVIOUS
<1>1. /\ run.pc = "resume" /\ run \in Runs /\ UNCHANGED <<snaps, disk, home, row, faults>>
      /\ home \in [of : Contents0, more : BOOLEAN] /\ faults \in 0 .. MaxFaults
  BY DEF RInv, Types, NoResume
<1>2. (home.more => home.of # 0) /\ (run.resumed => home # NoHome)
  BY DEF RInv, WorkerSound, ResumeSound
<1>3. CASE run.asks.resume = "no"
  <2>1. run' = [run EXCEPT !.pc = "import"]
    BY <1>3 DEF NoResume
  <2>2. /\ run' \in Runs /\ run'.pc = "import" /\ run'.asks = run.asks
        /\ run'.snap = run.snap /\ run'.bytes = run.bytes /\ run'.results = run.results
        /\ run'.whole = run.whole /\ run'.alone = run.alone /\ run'.sent = run.sent
        /\ run'.code = run.code /\ run'.resumed = run.resumed
    BY <1>1, <2>1 DEF Runs, PCs
  <2> QED
    BY <1>1, <1>2, <1>3, <2>2, ResumeEndsSound
<1>4. CASE run.asks.resume # "no"
  <2> DEFINE code == RankMax(run.code, FindingCode)
  <2>1. run' = [run EXCEPT !.pc = "import", !.code = code]
    BY <1>4 DEF NoResume, Ranked
  <2>2. code \in DOMAIN Severity /\ code # 0
    <3>1. FindingCode \in DOMAIN Severity /\ FindingCode # 0 /\ run.code \in DOMAIN Severity
      BY <1>1, Codes DEF Runs
    <3> QED
      BY <3>1, RankIsSound
  <2> HIDE DEF code
  <2>3. /\ run' \in Runs /\ run'.pc = "import" /\ run'.asks = run.asks
        /\ run'.snap = run.snap /\ run'.bytes = run.bytes /\ run'.results = run.results
        /\ run'.whole = run.whole /\ run'.alone = run.alone /\ run'.sent = run.sent
        /\ run'.code # 0 /\ run'.resumed = run.resumed
    BY <1>1, <2>1, <2>2 DEF Runs, PCs
  <2> QED
    BY <1>1, <1>2, <2>3, ResumeEndsSound
<1> QED
  BY <1>3, <1>4

\* The transcript placed in the harness home, or found there, or refused.
LEMMA ResumeIsSound ==
  ASSUME NEW writes \in BOOLEAN
  PROVE  RInv /\ ResumeSession(writes) /\ UNCHANGED <<runs, worker>> => RInv'
<1> SUFFICES ASSUME RInv, ResumeSession(writes), UNCHANGED <<runs, worker>> PROVE RInv'
  OBVIOUS
<1> DEFINE there  == [of |-> disk["transcript"], more |-> FALSE]
           same   == home = there
           places == MayPlace /\ ~same /\ run.asks.resume = "yes"
<1>1. /\ Types /\ ReportSound /\ run \in Runs /\ run.pc = "resume"
      /\ run.asks.resume # "no" /\ IsOnDisk(3)
      /\ home \in [of : Contents0, more : BOOLEAN]
      /\ UNCHANGED <<snaps, disk, row>>
  BY DEF RInv, Types, ResumeSession
<1>2. (home.more => home.of # 0) /\ (run.resumed => home # NoHome)
  BY DEF RInv, WorkerSound, ResumeSound
<1>3. disk["transcript"] # 0 /\ disk["transcript"] \in Contents0
  <2>1. disk[Order[3]] # 0
    BY <1>1, OnDiskIs
  <2> QED
    BY <1>1, <2>1, Orders DEF Types, Artifacts
<1>4. /\ there \in [of : Contents0, more : BOOLEAN]
      /\ there.of # 0 /\ there # NoHome
  BY <1>3 DEF NoHome
<1>5. faults' \in 0 .. MaxFaults
  <2>1. Faulty \/ UNCHANGED faults
    BY DEF ResumeSession
  <2> QED
    BY <1>1, <2>1, FaultsAreBounded
<1>6. /\ home' = IF places /\ writes THEN there ELSE home
      /\ \/ same /\ run' = [Ranked(0) EXCEPT !.resumed = TRUE]
         \/ places /\ writes /\ run' = [Ranked(0) EXCEPT !.resumed = TRUE]
         \/ places /\ ~writes /\ run' = Ranked(LocalCode)
         \/ ~same /\ ~places /\ run' = Ranked(FindingCode)
  BY DEF ResumeSession
<1> HIDE DEF there, places
<1>7. /\ home' \in [of : Contents0, more : BOOLEAN]
      /\ home'.more => home'.of # 0
      /\ home # NoHome => home' # NoHome
  BY <1>1, <1>2, <1>4, <1>6
<1>8. /\ 0 \in DOMAIN Severity /\ LocalCode \in DOMAIN Severity /\ LocalCode # 0
      /\ FindingCode \in DOMAIN Severity /\ FindingCode # 0 /\ run.code \in DOMAIN Severity
  BY <1>1, Codes DEF Runs
<1>9. CASE (same \/ (places /\ writes)) /\ run' = [Ranked(0) EXCEPT !.resumed = TRUE]
  <2> DEFINE code == RankMax(run.code, 0)
  <2>1. code = run.code
    BY <1>8, RankIsSound
  <2>2. run' = [[run EXCEPT !.pc = "import", !.code = code] EXCEPT !.resumed = TRUE]
    BY <1>9 DEF Ranked
  <2> HIDE DEF code
  <2>3. /\ run' \in Runs /\ run'.pc = "import" /\ run'.asks = run.asks
        /\ run'.snap = run.snap /\ run'.bytes = run.bytes /\ run'.results = run.results
        /\ run'.whole = run.whole /\ run'.alone = run.alone /\ run'.sent = run.sent
        /\ run'.code = run.code /\ run'.resumed
    BY <1>1, <2>1, <2>2 DEF Runs, PCs
  <2>4. home' # NoHome
    BY <1>4, <1>6, <1>9
  <2> QED
    BY <1>1, <1>5, <1>7, <2>3, <2>4, ResumeEndsSound
<1>10. ASSUME NEW c \in {LocalCode, FindingCode}, run' = Ranked(c)
       PROVE  RInv'
  <2> DEFINE code == RankMax(run.code, c)
  <2>1. code \in DOMAIN Severity /\ code # 0
    <3>1. c \in DOMAIN Severity /\ c # 0
      BY <1>8
    <3> QED
      BY <1>8, <3>1, RankIsSound
  <2>2. run' = [run EXCEPT !.pc = "import", !.code = code]
    BY <1>10 DEF Ranked
  <2> HIDE DEF code
  <2>3. /\ run' \in Runs /\ run'.pc = "import" /\ run'.asks = run.asks
        /\ run'.snap = run.snap /\ run'.bytes = run.bytes /\ run'.results = run.results
        /\ run'.whole = run.whole /\ run'.alone = run.alone /\ run'.sent = run.sent
        /\ run'.code # 0 /\ run'.resumed = run.resumed
    BY <1>1, <2>1, <2>2 DEF Runs, PCs
  <2>4. run'.resumed => home' # NoHome
    BY <1>2, <1>7, <2>3
  <2> QED
    BY <1>1, <1>5, <1>7, <2>3, <2>4, ResumeEndsSound
<1> QED
  BY <1>6, <1>9, <1>10

\* The row after an import names a transcript that can be read, if one can.
LEMMA ImportedIs ==
  ASSUME Types, NEW resumed \in BOOLEAN, resumed => home # NoHome,
         run.resumed = resumed, disk["transcript"] # 0
  PROVE  LET linked == LinkedRow(ImportedRow(row), IF resumed THEN "harness" ELSE "restored")
         IN  Readable(linked.path)
<1> DEFINE path   == IF resumed THEN "harness" ELSE "restored"
           r      == ImportedRow(row)
           linked == LinkedRow(r, path)
<1> SUFFICES Readable(linked.path)
  OBVIOUS
<1>1. Readable(path)
  BY DEF Readable
<1>2. r = [rev |-> Max({row.rev, disk["summary"]}),
           path |-> IF home # NoHome THEN "harness" ELSE row.path]
  BY DEF ImportedRow
<1> HIDE DEF path, r
<1>3. CASE Readable(r.path)
  <2>1. linked.path = path \/ linked.path = r.path
    BY <1>2 DEF LinkedRow
  <2> QED
    BY <1>1, <1>3, <2>1
<1>4. CASE ~Readable(r.path)
  <2>1. linked = [r EXCEPT !.path = path]
    BY <1>1, <1>4 DEF LinkedRow
  <2>2. linked.path = path
    BY <1>2, <2>1
  <2> QED
    BY <1>1, <2>2
<1> QED
  BY <1>3, <1>4

\* The record imported, and the row linked to a transcript.
LEMMA ImportIsSound ==
  ASSUME NEW writes \in BOOLEAN
  PROVE  RInv /\ Import(writes) /\ UNCHANGED <<runs, worker>> => RInv'
<1> SUFFICES ASSUME RInv, Import(writes), UNCHANGED <<runs, worker>> PROVE RInv'
  OBVIOUS
<1> DEFINE asked  == run.asks.import /\ ~run.asks.dry /\ IsOnDisk(1)
           path   == IF run.resumed THEN "harness" ELSE "restored"
           linked == LinkedRow(ImportedRow(row), path)
<1>1. /\ Types /\ WorkerSound /\ PhaseSound /\ ReportSound /\ CodeSound /\ ResumeSound
      /\ WholeSound /\ run \in Runs /\ run.pc = "import" /\ run.pc \in After
      /\ run.snap \in DOMAIN snaps /\ run.resumed \in BOOLEAN
      /\ UNCHANGED <<snaps, disk, home>>
  BY DEF RInv, Types, Runs, PhaseSound, After, Import
<1>2. faults' \in 0 .. MaxFaults
  <2>1. Faulty \/ UNCHANGED faults
    BY DEF Import
  <2> QED
    BY <1>1, <2>1, FaultsAreBounded
<1>3. row.rev \in Contents0 /\ disk["summary"] \in Contents0
  BY <1>1 DEF Types, Artifacts
<1>4. /\ linked \in [rev : Contents0, path : {"none", "harness", "restored"}]
      /\ linked.rev >= disk["summary"]
  <2> DEFINE rev == Max({row.rev, disk["summary"]})
             r   == ImportedRow(row)
  <2>1. rev \in Contents0 /\ rev >= disk["summary"]
    BY <1>3, MaxOfTwo
  <2>2. r = [rev |-> rev, path |-> IF home # NoHome THEN "harness" ELSE row.path]
    BY DEF ImportedRow
  <2> HIDE DEF rev, r
  <2>3. r \in [rev : Contents0, path : {"none", "harness", "restored"}] /\ r.rev = rev
    BY <1>1, <2>1, <2>2 DEF Types
  <2>4. path \in {"harness", "restored"}
    OBVIOUS
  <2> HIDE DEF path
  <2>5. LinkedRow(r, path) \in {r, [r EXCEPT !.path = path]}
    BY DEF LinkedRow
  <2>6. /\ LinkedRow(r, path) \in [rev : Contents0, path : {"none", "harness", "restored"}]
        /\ LinkedRow(r, path).rev = rev
    BY <2>3, <2>4, <2>5
  <2> QED
    BY <2>1, <2>6 DEF r
<1>5. \/ asked /\ row' = linked /\ run' = [run EXCEPT !.pc = "exit"]
      \/ row' = row /\ run' = [Ranked(LocalCode) EXCEPT !.pc = "exit"]
      \/ ~asked /\ row' = row /\ run' = [run EXCEPT !.pc = "exit"]
  BY DEF Import, Goes
<1>6. Snap' = Snap /\ Last' = Last
  <2>1. run'.snap = run.snap
    BY <1>1, <1>5 DEF Runs, Ranked
  <2> QED
    BY <1>1, <2>1 DEF Snap, Last
<1>7. row' \in [rev : Contents0, path : {"none", "harness", "restored"}]
  BY <1>1, <1>4, <1>5 DEF Types
<1>8. ASSUME NEW code \in DOMAIN Severity, code = 0 => run.code = 0,
             run' = [run EXCEPT !.pc = "exit", !.code = code],
             code = 0 => \/ asked /\ row' = linked
                         \/ ~asked /\ row' = row
      PROVE  RInv'
  <2>1. /\ run' \in Runs /\ run'.pc = "exit" /\ run'.asks = run.asks
        /\ run'.snap = run.snap /\ run'.bytes = run.bytes /\ run'.results = run.results
        /\ run'.whole = run.whole /\ run'.alone = run.alone /\ run'.sent = run.sent
        /\ run'.code = code /\ run'.resumed = run.resumed
    BY <1>1, <1>8 DEF Runs, PCs
  <2>2. Types' /\ WorkerSound'
    BY <1>1, <1>2, <1>7, <2>1 DEF Types, WorkerSound
  <2>3. PhaseSound'
    BY <1>1, <2>1 DEF PhaseSound, Placing
  <2>4. ReportSound'
    BY <1>1, <1>6, <2>1 DEF ReportSound, ResultSound
  <2>5. CodeSound'
    BY <1>1, <1>8, <2>1 DEF CodeSound, After
  <2>6. ResumeSound'
    BY <1>1, <2>1 DEF ResumeSound
  <2>7. ImportSound'
    <3>1. SUFFICES ASSUME code = 0, run.asks.import, ~run.asks.dry
                   PROVE  Readable(row'.path) /\ (run.alone => row'.rev >= Snap.rev)
      BY <1>1, <1>6, <2>1 DEF ImportSound, Readable
    <3>2. run.code = 0
      BY <1>8, <3>1
    <3>3. IsOnDisk(1) /\ IsOnDisk(3)
      BY <1>1, <3>1, <3>2, GoodIs
    <3>4. row' = linked
      BY <1>8, <3>1, <3>3
    <3>5. /\ disk["transcript"] # 0
          /\ run.alone => disk["summary"] = Snap.rev
      <4>1. disk[Order[3]] # 0
        BY <1>1, <3>3, OnDiskIs
      <4>2. run.alone => disk[Order[1]] = Snap.rev
        BY <1>1, <3>3, OnDiskIs
      <4> QED
        BY <4>1, <4>2, Orders
    <3>6. Readable(linked.path)
      BY <1>1, <3>5, ImportedIs DEF ResumeSound
    <3> QED
      BY <1>4, <3>4, <3>5, <3>6
  <2>8. WholeSound'
    BY <1>1, <1>6, <2>1 DEF WholeSound, Holds
  <2> QED
    BY <2>2, <2>3, <2>4, <2>5, <2>6, <2>7, <2>8 DEF RInv
<1>9. run.code \in DOMAIN Severity /\ LocalCode \in DOMAIN Severity /\ LocalCode # 0
  BY <1>1, Codes DEF Runs
<1>10. CASE run' = [run EXCEPT !.pc = "exit"]
            /\ \/ asked /\ row' = linked
               \/ ~asked /\ row' = row
  <2>1. run' = [run EXCEPT !.pc = "exit", !.code = run.code]
    BY <1>1, <1>10 DEF Runs
  <2> QED
    BY <1>8, <1>9, <1>10, <2>1
<1>11. CASE run' = [Ranked(LocalCode) EXCEPT !.pc = "exit"]
  <2> DEFINE code == RankMax(run.code, LocalCode)
  <2>1. code \in DOMAIN Severity /\ code # 0
    BY <1>9, RankIsSound
  <2>2. run' = [run EXCEPT !.pc = "exit", !.code = code]
    <3>1. run' = [[run EXCEPT !.pc = "import", !.code = code] EXCEPT !.pc = "exit"]
      BY <1>11 DEF Ranked
    <3> HIDE DEF code
    <3> QED
      BY <1>1, <3>1 DEF Runs
  <2> QED
    BY <1>8, <2>1, <2>2
<1> QED
  BY <1>5, <1>10, <1>11

\* The end of a run, at its exit or before.
LEMMA EndIsSound == RInv /\ (Exit \/ RunDies) /\ UNCHANGED <<runs, worker>> => RInv'
<1> SUFFICES ASSUME RInv, Exit \/ RunDies, UNCHANGED <<runs, worker>> PROVE RInv'
  OBVIOUS
<1>1. run' = Idle /\ UNCHANGED <<snaps, disk, home, row>>
  BY DEF Exit, RunDies
<1>2. faults' \in 0 .. MaxFaults
  <2>1. Types /\ (Faulty \/ UNCHANGED faults)
    BY DEF RInv, Exit, RunDies
  <2> QED
    BY <2>1, FaultsAreBounded
<1>3. Types' /\ WorkerSound'
  BY <1>1, <1>2, IdleIs DEF RInv, Types, WorkerSound
<1> QED
  BY <1>1, <1>3, NextIdleIsSound DEF RInv

-----------------------------------------------------------------------------
(* The theorems.                                                            *)

\* Every step keeps the invariant.
LEMMA NextIsSound == RInv /\ [Next]_vars => RInv'
<1> SUFFICES ASSUME RInv, [Next]_vars PROVE RInv'
  OBVIOUS
<1>1. CASE (Environment \/ WorkerStep) /\ UNCHANGED runs
  BY <1>1, EnvironmentIsSound, WorkerIsSound
<1>2. CASE RunStep /\ UNCHANGED worker
  <2>1. CASE \E asks \in Options : RestoreBegins(asks)
    BY <1>2, <2>1, BeginIsSound
  <2>2. CASE (Manifest \/ CheckArtifact \/ NoResume \/ Exit \/ RunDies) /\ UNCHANGED runs
    BY <1>2, <2>2, ManifestIsSound, CheckIsSound, NoResumeIsSound, EndIsSound
  <2>3. CASE /\ \E answer \in Answers :
                  \/ FetchSummary(answer)
                  \/ \E writes \in BOOLEAN : PlaceArtifact(answer, writes)
             /\ UNCHANGED runs
    BY <1>2, <2>3, FetchIsSound, PlaceIsSound
  <2>4. CASE /\ \E writes \in BOOLEAN : ResumeSession(writes) \/ Import(writes)
             /\ UNCHANGED runs
    BY <1>2, <2>4, ResumeIsSound, ImportIsSound
  <2> QED
    BY <1>2, <2>1, <2>2, <2>3, <2>4 DEF RunStep
<1>3. CASE UNCHANGED vars
  <2>1. run' \in {run, [run EXCEPT !.alone = FALSE]}
    BY <1>3 DEF vars
  <2>2. Types' /\ WorkerSound'
    BY <1>3 DEF vars, RInv, Types, WorkerSound
  <2> QED
    BY <1>3, <2>1, <2>2, AroundIsSound DEF vars, RInv
<1> QED
  BY <1>1, <1>2, <1>3 DEF Next

\* What a run reports, what it has placed and what it has imported agree with
\* the snapshot it restores, whatever goes on around it.
THEOREM RestoreIsSound == Spec => []RInv
<1>1. Init => RInv
  BY InitIsSound
<1>2. RInv /\ [Next]_vars => RInv'
  BY NextIsSound
<1> QED
  BY <1>1, <1>2, PTL DEF Spec

\* No content reaches the archive directory, the harness home or the row that
\* is not some archived original: download_verified compares the recovered
\* bytes with the digest listed, never with the headers that came along.
THEOREM OnlyOriginalsAreRestored == Spec => []RestoredIsArchived
<1>1. RInv => RestoredIsArchived
  BY Assumed DEF RInv, Types, RestoredIsArchived, Forged, Contents0
<1> QED
  BY <1>1, RestoreIsSound, PTL

\* A run over a record that is all there, and that no worker touches, finds the
\* summary by the index of local records and downloads nothing.
THEOREM RerunsAreFree == Spec => []RerunIsFree
<1>1. RInv => RerunIsFree
  BY DEF RInv, WholeSound, RerunIsFree
<1> QED
  BY <1>1, RestoreIsSound, PTL

\* A run that exits with 0 has placed what only it places, done the resume and
\* the import it was asked for, and, but for a worker, left the whole record.
THEOREM CleanExitsAreWhole == Spec => CleanExitIsWhole
<1> DEFINE Whole ==
      (Exit /\ run.code = 0 /\ ~run.asks.dry) =>
        /\ disk["transcript"] = Snap.rev
        /\ disk["output"] = Snap.rev \/ run.asks.skip
        /\ disk["summary"] # 0
        /\ run.asks.resume # "no" => home # NoHome
        /\ run.asks.import => Readable(row.path)
        /\ run.alone => /\ disk["summary"] = Snap.rev /\ disk["sidecar"] = Snap.rev
                        /\ run.asks.import => row.rev >= Snap.rev
<1>1. RInv => Whole
  <2>1. SUFFICES ASSUME RInv, Exit, run.code = 0, ~run.asks.dry
                 PROVE  /\ disk["transcript"] = Snap.rev
                        /\ disk["output"] = Snap.rev \/ run.asks.skip
                        /\ disk["summary"] # 0
                        /\ run.asks.resume # "no" => home # NoHome
                        /\ run.asks.import => Readable(row.path)
                        /\ run.alone => /\ disk["summary"] = Snap.rev
                                        /\ disk["sidecar"] = Snap.rev
                                        /\ run.asks.import => row.rev >= Snap.rev
    OBVIOUS
  <2>2. /\ Types /\ ReportSound /\ CodeSound /\ ResumeSound /\ ImportSound
        /\ run.pc = "exit" /\ run.pc \in After
    BY <2>1 DEF RInv, Exit, After
  <2>3. IsOnDisk(1) /\ IsOnDisk(2) /\ IsOnDisk(3) /\ (IsOnDisk(4) \/ run.asks.skip)
    BY <2>1, <2>2, GoodIs
  <2>4. disk[Order[1]] # 0 /\ (run.alone => disk[Order[1]] = Snap.rev)
    BY <2>2, <2>3, OnDiskIs
  <2>5. run.alone => disk[Order[2]] = Snap.rev
    BY <2>2, <2>3, OnDiskIs
  <2>6. disk[Order[3]] = Snap.rev
    BY <2>2, <2>3, OnDiskIs
  <2>7. disk[Order[4]] = Snap.rev \/ run.asks.skip
    BY <2>2, <2>3, OnDiskIs
  <2>8. run.asks.resume # "no" => home # NoHome
    BY <2>1, <2>2 DEF CodeSound, ResumeSound
  <2>9. run.asks.import => Readable(row.path) /\ (run.alone => row.rev >= Snap.rev)
    BY <2>1, <2>2 DEF ImportSound
  <2> QED
    BY <2>4, <2>5, <2>6, <2>7, <2>8, <2>9, Orders
<1>2. RInv => [Whole]_vars
  BY <1>1
<1> QED
  BY <1>2, RestoreIsSound, PTL DEF CleanExitIsWhole

\* Whatever is in the harness home stays there: resume looks at the target and
\* places only where there is nothing, --force or not.
THEOREM LiveConversationsAreKept == Spec => HarnessKept
<1>1. RunStep /\ home # NoHome => home' = home
  <2>1. SUFFICES ASSUME RunStep, home # NoHome PROVE home' = home
    OBVIOUS
  <2>2. ASSUME NEW writes \in BOOLEAN, ResumeSession(writes) PROVE home' = home
    BY <2>1, <2>2 DEF ResumeSession, MayPlace
  <2> QED
    BY <2>1, <2>2 DEF RunStep, RestoreBegins, Manifest, CheckArtifact, NoResume, Exit,
       RunDies, FetchSummary, PlaceArtifact, Import
<1>2. [Next]_vars => [RunStep /\ home # NoHome => home' = home]_vars
  BY <1>1
<1> QED
  BY <1>2, PTL DEF Spec, HarnessKept

\* A row that names the transcript of a harness that has one goes on naming it:
\* the import derives that path again and links nothing over it.
THEOREM LivePathsAreKept == Spec => LiveTranscriptKept
<1> DEFINE Kept == RunStep /\ row.path = "harness" /\ home # NoHome => row'.path = "harness"
<1>1. Kept
  <2>1. SUFFICES ASSUME RunStep, row.path = "harness", home # NoHome
                 PROVE  row'.path = "harness"
    OBVIOUS
  <2>2. ASSUME NEW writes \in BOOLEAN, Import(writes) PROVE row'.path = "harness"
    <3>1. ImportedRow(row).path = "harness"
      BY <2>1 DEF ImportedRow
    <3>2. Readable("harness")
      BY <2>1 DEF Readable
    <3> DEFINE r == ImportedRow(row)
               linked == LinkedRow(r, IF run.resumed THEN "harness" ELSE "restored")
    <3> HIDE DEF r
    <3>3. linked.path = "harness"
      BY <3>1, <3>2 DEF LinkedRow, r
    <3> QED
      BY <2>1, <2>2, <3>3 DEF Import, r
  <2> QED
    BY <2>1, <2>2 DEF RunStep, RestoreBegins, Manifest, CheckArtifact, NoResume, Exit,
       RunDies, FetchSummary, PlaceArtifact, ResumeSession
<1>2. [Next]_vars => [Kept]_vars
  BY <1>1
<1> QED
  BY <1>2, PTL DEF Spec, LiveTranscriptKept
=============================================================================
