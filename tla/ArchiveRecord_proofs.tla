------------------------ MODULE ArchiveRecord_proofs ------------------------
(***************************************************************************)
(* What the record of a session is worth, for every set of sessions, every  *)
(* bound and every subset of the external outcomes: parks are earned,       *)
(* "archived" is said of a real summary over all the evidence, git holds    *)
(* every recorded revision, and the pipeline keeps SessionPromise.          *)
(*                                                                          *)
(* The argument rests on IInv of ArchiveWorker_proofs and adds what is true *)
(* of the documents themselves: how the stored plan of a row's owner        *)
(* relates to the recorded document, to the evidence and to the history.    *)
(***************************************************************************)
EXTENDS ArchiveWorker_proofs

-----------------------------------------------------------------------------
(* The inductive invariant, one session at a time.                          *)

\* The attempts that own the row and have stored their plan: at most one.
Owned(s) == {a \in Planned(s) : a.id = row[s].token}

\* A revision has a number exactly when it has a kind.
Numbered(d) == d.rev = 0 <=> d.kind = None

\* ver covers the evidence, unless more came since a was claimed.
Covers(s, a, ver) == row[s].gen = a.gen => ver >= evidence[s]

\* A plan past the recorded document, or over more of the transcript.
NextRev(d, doc) == d.rev = doc.rev + 1 /\ (doc.kind = "real" => d.kind = "real")
SameRev(d, doc) == d.rev = doc.rev /\ doc.kind = "real" /\ d.kind = "real"

\* The states in which a plan found on disk may be the owner's.
Early == {"idle", "reconcile", "recommit", "complete"}

\* Hydration has recorded the owner's plan, its first revision, from the file.
Imported(s) ==
  /\ w[s].pc \in Early
  /\ row[s].doc.rev = 1 /\ file[s] = row[s].doc
  /\ \E a \in Owned(s) : a.plan = row[s].doc /\ a.git = GitHistory

\* Documents and evidence never run ahead of the transcript.
Documented(s) ==
  /\ Numbered(row[s].doc)
  /\ row[s].doc.ver <= tx[s].ver
  /\ evidence[s] <= tx[s].ver
  /\ \A a \in Planned(s) : a.plan.rev > 0 /\ a.plan.kind # None

\* The owner's plan supersedes the recorded document, unless it is that one.
Planning(s) ==
  /\ \A a \in open[s] : a.gen <= row[s].gen
  /\ \A a \in Owned(s) :
       /\ a.plan.ver >= row[s].doc.ver /\ a.plan.ver <= tx[s].ver
       /\ Covers(s, a, a.plan.ver)
       /\ \/ NextRev(a.plan, row[s].doc) /\ a.git = GitHistory
          \/ SameRev(a.plan, row[s].doc) /\ ~a.git
          \/ Imported(s)

\* A claimed row leaves "processing" only for a placeholder's verdict, and an
\* archived one is unclaimed, real and complete.
Living(s) ==
  /\ row[s].token # 0 =>
       row[s].life = "processing" \/ \E a \in Owned(s) : a.plan.kind = "placeholder"
  /\ row[s].life = "archived" =>
       /\ row[s].token = 0 /\ row[s].doc.kind = "real"
       /\ row[s].doc.ver >= evidence[s]

\* A worker that has read the transcript: its snapshot covers the evidence of
\* its claim, and what it renders supersedes what is recorded.
Reading(s) ==
  /\ w[s].pc \in {"load", "summarize", "plan", "nochange"} =>
       \A a \in open[s] : a.id = w[s].att => a.plan = NoDocument
  /\ w[s].pc \in {"summarize", "plan", "nochange"} =>
       /\ w[s].ver >= row[s].doc.ver /\ w[s].ver <= tx[s].ver
       /\ \A a \in open[s] : a.id = w[s].att => Covers(s, a, w[s].ver)
       /\ w[s].quiet => row[s].doc.kind = "real"
  /\ w[s].pc = "nochange" => row[s].doc.kind = "real" /\ row[s].doc.ver = w[s].ver
  /\ w[s].pc = "plan" =>
       /\ w[s].new.ver = w[s].ver /\ w[s].new.rev > 0 /\ w[s].new.kind # None
       /\ IF w[s].quiet THEN SameRev(w[s].new, row[s].doc)
          ELSE NextRev(w[s].new, row[s].doc)

\* A worker that writes or resumes: what its attempt's stored plan says.
Writing(s) ==
  /\ w[s].pc = "verdict" => w[s].new.kind = "placeholder"
  /\ w[s].pc \in {"verdict", "replace", "commit"} =>
       \E a \in open[s] : /\ a.id = w[s].att /\ a.plan = w[s].new
                          /\ a.git = (GitHistory /\ ~w[s].quiet)
  /\ w[s].pc = "commit" => GitHistory /\ ~w[s].quiet
  /\ w[s].pc \in {"recommit", "complete"} =>
       \E a \in Planned(s) : a.id = w[s].att /\ a.plan = w[s].new
  /\ w[s].pc = "recommit" => \E a \in Planned(s) : a.id = w[s].att /\ a.git

Committed(s, n) == \E d \in gitlog[s] : d.rev = n

\* The history holds each recorded revision once, and of the revisions past
\* the recorded one only the owner's plan, once it is on disk.
Recorded(s) ==
  GitHistory =>
    /\ \A d, e \in gitlog[s] : d.rev = e.rev => d = e
    /\ \/ \A n \in 1 .. row[s].doc.rev : Committed(s, n)
       \/ Imported(s) /\ w[s].pc # "complete"
    /\ \A d \in gitlog[s] : d.rev = row[s].doc.rev =>
         d.kind = row[s].doc.kind /\ d.ver <= row[s].doc.ver
    /\ \A d \in gitlog[s] :
         \/ d.rev <= row[s].doc.rev
         \/ /\ w[s].pc \in Early
            /\ d = file[s] /\ \E a \in Owned(s) : a.plan = d
    /\ w[s].pc = "complete" /\ w[s].att = row[s].token => Committed(s, w[s].new.rev)

Sound(s) ==
  /\ ParkEarned(row[s]) /\ Documented(s) /\ Planning(s) /\ Living(s)
  /\ Reading(s) /\ Writing(s) /\ Recorded(s)

SInv == \A s \in Sessions : Sound(s)

-----------------------------------------------------------------------------
(* The steps that neither write a document nor end an attempt.              *)

\* What such a step does to a session: its files, attempts and claim stay, the
\* transcript does not shrink, evidence of all of it is reported or none, and
\* the worker stays, leaves, or moves on among the states that hold no document.
Stirs(s) ==
  /\ open'[s] = open[s] /\ file'[s] = file[s] /\ gitlog'[s] = gitlog[s]
  /\ KeepsClaim(row[s], row'[s])
  /\ tx'[s].ver >= tx[s].ver
  /\ \/ Reports(row[s], row'[s]) /\ evidence'[s] = tx'[s].ver
     \/ Idles(row[s], row'[s]) /\ evidence'[s] = evidence[s]
  /\ \/ w'[s] = w[s]
     \/ w'[s].pc = "idle"
     \/ /\ w'[s].pc \in {"abandon", "lift", "gate", "claim", "defer", "unworthy", "fail"}
        /\ w[s].pc \notin Early

\* What every session's variables are, in an invariant state.
LEMMA SessionTypes ==
  ASSUME TypeOK, NEW s \in Sessions
  PROVE  /\ tx[s].ver \in Nat /\ evidence[s] \in Nat
         /\ row[s] \in Rows /\ row[s].doc \in Documents
         /\ row[s].gen \in Nat /\ row[s].token \in Nat /\ row[s].life \in Lives
         /\ row[s].doc.rev \in Nat /\ row[s].doc.ver \in Nat
         /\ open[s] \subseteq Attempts /\ file[s] \in Documents
         /\ gitlog[s] \subseteq Documents /\ w[s] \in WorkerStates
         /\ w[s].pc \in PCs /\ w[s].att \in Nat /\ w[s].ver \in Nat
         /\ w[s].quiet \in BOOLEAN /\ w[s].new \in Documents
         /\ \A a \in Attempts : /\ a.id \in Nat \ {0} /\ a.gen \in Nat
                                /\ a.plan \in Documents /\ a.git \in BOOLEAN
         /\ \A d \in Documents : /\ d.rev \in Nat /\ d.ver \in Nat
                                 /\ d.kind \in {None, "real", "placeholder"}
<1>1. /\ tx[s].ver \in Nat /\ evidence[s] \in Nat /\ row[s] \in Rows
      /\ open[s] \subseteq Attempts /\ file[s] \in Documents
      /\ gitlog[s] \subseteq Documents /\ w[s] \in WorkerStates
  BY DEF TypeOK
<1>2. /\ \A a \in Attempts : /\ a.id \in Nat \ {0} /\ a.gen \in Nat
                             /\ a.plan \in Documents /\ a.git \in BOOLEAN
      /\ \A d \in Documents : /\ d.rev \in Nat /\ d.ver \in Nat
                              /\ d.kind \in {None, "real", "placeholder"}
  BY DEF Attempts, Documents
<1>3. /\ row[s].doc \in Documents
      /\ row[s].gen \in Nat /\ row[s].token \in Nat /\ row[s].life \in Lives
  BY <1>1 DEF Rows
<1>4. /\ w[s].pc \in PCs /\ w[s].att \in Nat /\ w[s].ver \in Nat
      /\ w[s].quiet \in BOOLEAN /\ w[s].new \in Documents
  BY <1>1 DEF WorkerStates
<1> QED  BY <1>1, <1>2, <1>3, <1>4

\* They keep the session sound.
LEMMA StirredIsSound ==
  ASSUME TypeOK, TypeOK', NEW s \in Sessions, Sound(s), Stirs(s)
  PROVE  Sound(s)'
<1>1. /\ row'[s].token = row[s].token /\ row'[s].doc = row[s].doc
      /\ open'[s] = open[s] /\ file'[s] = file[s] /\ gitlog'[s] = gitlog[s]
      /\ Owned(s)' = Owned(s) /\ Planned(s)' = Planned(s)
  BY DEF Stirs, KeepsClaim, Owned, Planned
<1>2. /\ tx[s].ver \in Nat /\ tx'[s].ver \in Nat /\ tx'[s].ver >= tx[s].ver
      /\ evidence[s] \in Nat /\ evidence'[s] \in Nat
      /\ row[s].gen \in Nat /\ row'[s].gen \in Nat
      /\ row[s].doc.ver \in Nat /\ w[s].ver \in Nat
      /\ \A a \in open[s] : a.gen \in Nat /\ a.plan.ver \in Nat
  BY SessionTypes DEF Stirs, TypeOK, Rows
<1>3. /\ row'[s].gen >= row[s].gen
      /\ row'[s].gen = row[s].gen => evidence'[s] = evidence[s]
      /\ evidence'[s] <= tx'[s].ver
  BY <1>2 DEF Stirs, Reports, Idles, Sound, Documented
<1>4. ParkEarned(row[s])'
  BY DEF Stirs, Reports, Idles, Sound
<1>5. Documented(s)'
  BY <1>1, <1>2, <1>3 DEF Sound, Documented
<1>6. ASSUME NEW a \in open[s], a.gen <= row[s].gen, NEW ver \in Nat, Covers(s, a, ver)
      PROVE  row'[s].gen = a.gen => ver >= evidence'[s]
  BY <1>2, <1>3, <1>6 DEF Covers
<1>7. Imported(s) => Imported(s)'
  BY <1>1 DEF Imported, Stirs, Early
<1>8. Planning(s)'
  BY <1>1, <1>2, <1>3, <1>6, <1>7 DEF Sound, Planning, Owned, Planned, Covers
<1>9. Living(s)'
  BY <1>1 DEF Sound, Living, Stirs, Reports, Idles
<1>10. Reading(s)'
  BY <1>1, <1>2, <1>3, <1>6 DEF Sound, Reading, Planning, Covers, Stirs
<1>11. Writing(s)'
  BY <1>1 DEF Sound, Writing, Stirs
<1>12. Recorded(s)'
  BY <1>1, <1>7, ZenonT(60) DEF Sound, Recorded, Committed, Stirs, Early, Imported
<1> QED  BY <1>4, <1>5, <1>8, <1>9, <1>10, <1>11, <1>12 DEF Sound
\* A session that a step leaves alone.
Still(s) ==
  /\ tx'[s] = tx[s] /\ evidence'[s] = evidence[s] /\ row'[s] = row[s]
  /\ open'[s] = open[s] /\ file'[s] = file[s] /\ gitlog'[s] = gitlog[s]
  /\ w'[s] = w[s]

\* Leaving a session alone is the least of these steps.
LEMMA StillStirs ==
  ASSUME TypeOK, NEW s \in Sessions, Still(s)
  PROVE  Stirs(s)
BY SessionTypes, ReservationKeeps, ReservationIdles DEF Still, Stirs

\* A row handed to a worker, launched or lost, says what it said.
LEMMA HandOffSays ==
  ASSUME TypeOK, NEW s \in Sessions, NEW r, KeepsClaim(row[s], r), NEW reserves,
         HandOff(s, r, reserves)
  PROVE  /\ KeepsClaim(row[s], row'[s])
         /\ Reports(row[s], r) => Reports(row[s], row'[s])
         /\ Idles(row[s], r) => Idles(row[s], row'[s])
         /\ \A x \in Sessions \ {s} : row'[x] = row[x]
<1>1. row \in [Sessions -> Rows] /\ row[s] \in Rows /\ r \in Rows /\ r.token = row[s].token
  BY DEF TypeOK, KeepsClaim
<1>2. SetRow(s, r) \/ SetRow(s, ReserveRow(r)) \/ SetRow(s, ClearReservationRow(r))
  BY DEF HandOff
<1>3. PICK q \in {r, ReserveRow(r), ClearReservationRow(r)} :
        row'[s] = q /\ \A x \in Sessions \ {s} : row'[x] = row[x]
  BY <1>1, <1>2 DEF SetRow
<1>4. KeepsClaim(r, q) /\ Idles(r, q)
  BY <1>1, <1>3, ReservationKeeps, ReservationIdles
<1> QED  BY <1>1, <1>3, <1>4, KeepsTwice, IdlesTwice, ReportsThenIdles

\* The sweep reports what it observes, once.
LEMMA ObserveSays ==
  ASSUME TypeOK, NEW s \in Sessions, Sound(s), NEW r, KeepsClaim(row[s], r),
         Reports(row[s], r), NEW kind, Observe(s, kind, r),
         UNCHANGED <<tx, open, diskVars, w>>
  PROVE  \A x \in Sessions : Stirs(x)
<1> USE DEF diskVars
<1>1. CASE UNCHANGED <<row, evidence>>
  BY <1>1, StillStirs DEF Still
<1>2. CASE /\ HandOff(s, r, Reservable(r, LeaseExpired(s), FALSE))
           /\ evidence' = [evidence EXCEPT ![s] = tx[s].ver]
  <2>1. /\ KeepsClaim(row[s], row'[s]) /\ Reports(row[s], row'[s])
        /\ \A x \in Sessions \ {s} : row'[x] = row[x]
    BY <1>2, HandOffSays
  <2>2. /\ evidence'[s] = tx[s].ver /\ tx[s].ver \in Nat
        /\ \A x \in Sessions \ {s} : evidence'[x] = evidence[x]
    BY <1>2 DEF TypeOK
  <2>3. Stirs(s)
    BY <2>1, <2>2 DEF Stirs
  <2>4. \A x \in Sessions \ {s} : Stirs(x)
    BY <2>1, <2>2, StillStirs DEF Still
  <2> QED  BY <2>3, <2>4
<1> QED  BY <1>1, <1>2 DEF Observe

\* Hooks report evidence of the transcript as it is; the agent writes ahead.
LEMMA AgentStirs ==
  ASSUME TypeOK, NEW s \in Sessions, Sound(s), Agent(s)
  PROVE  \A x \in Sessions : Stirs(x)
<1> USE DEF diskVars, hookVars
<1>0. /\ row[s] \in Rows /\ tx[s].ver \in Nat /\ KeepsClaim(row[s], row[s])
      /\ Idles(row[s], row[s])
  BY SessionTypes, ReservationKeeps, ReservationIdles
<1>1. CASE AgentStop(s)
  <2>0. row'[s] = AgentStopRow(row[s], TRUE)
    BY <1>1 DEF AgentStop, SetRow, TypeOK
  <2>1. /\ tx'[s].ver = tx[s].ver + 1
        /\ evidence'[s] = tx[s].ver + 1 /\ UNCHANGED <<open, file, gitlog, w>>
        /\ \A x \in Sessions \ {s} : /\ row'[x] = row[x] /\ tx'[x] = tx[x]
                                     /\ evidence'[x] = evidence[x]
    BY <1>1 DEF AgentStop, SetRow, TypeOK
  <2>2. KeepsClaim(row[s], row'[s]) /\ Reports(row[s], row'[s])
    BY <1>0, <2>0, EvidenceKeeps, EvidenceReports
  <2>3. Stirs(s)
    BY <1>0, <2>1, <2>2 DEF Stirs
  <2> QED  BY <2>1, <2>3, StillStirs DEF Still
<1>2. CASE LateAgentStop(s)
  <2>0. row'[s] = AgentStopRow(row[s], FALSE)
    BY <1>2 DEF LateAgentStop, SetRow, TypeOK
  <2>1. /\ evidence'[s] = tx[s].ver /\ UNCHANGED <<tx, open, file, gitlog, w>>
        /\ \A x \in Sessions \ {s} : /\ row'[x] = row[x]
                                     /\ evidence'[x] = evidence[x]
    BY <1>2 DEF LateAgentStop, SetRow, TypeOK
  <2>2. KeepsClaim(row[s], row'[s]) /\ Reports(row[s], row'[s])
    BY <1>0, <2>0, EvidenceKeeps, EvidenceReports
  <2>3. Stirs(s)
    BY <1>0, <2>1, <2>2 DEF Stirs
  <2> QED  BY <2>1, <2>3, StillStirs DEF Still
<1>3. CASE SessionEnd(s)
  <2>1. PICK resolved \in BOOLEAN, newest \in BOOLEAN, grows \in 0 .. 1 :
          /\ tx' = [tx EXCEPT ![s] = [ver |-> @.ver + grows,
                                      present |-> @.present \/ grows = 1]]
          /\ evidence' = [evidence EXCEPT ![s] = tx[s].ver + grows]
          /\ HandOff(s, SessionEndRow(row[s], resolved, newest),
                     Reservable(SessionEndRow(row[s], resolved, newest), FALSE, FALSE))
    BY <1>3 DEF SessionEnd
  <2> DEFINE r == SessionEndRow(row[s], resolved, newest)
  <2>2. KeepsClaim(row[s], r) /\ Reports(row[s], r)
    BY <1>0, EvidenceKeeps, EvidenceReports
  <2> HIDE DEF r
  <2>3. HandOff(s, r, Reservable(r, FALSE, FALSE))
    BY <2>1 DEF r
  <2>4. /\ KeepsClaim(row[s], row'[s]) /\ Reports(row[s], row'[s])
        /\ \A x \in Sessions \ {s} : row'[x] = row[x]
    BY <2>2, <2>3, HandOffSays
  <2>5. /\ tx'[s].ver = tx[s].ver + grows /\ evidence'[s] = tx[s].ver + grows
        /\ UNCHANGED <<open, file, gitlog, w>>
        /\ \A x \in Sessions \ {s} : tx'[x] = tx[x] /\ evidence'[x] = evidence[x]
    BY <1>3, <2>1 DEF SessionEnd, TypeOK
  <2>6. Stirs(s)
    BY <1>0, <2>4, <2>5 DEF Stirs
  <2> QED  BY <2>4, <2>5, <2>6, StillStirs DEF Still
<1>4. CASE WriteUnreported(s) \/ TranscriptVanishes(s) \/ TranscriptReturns(s)
  <2>1. /\ tx'[s].ver \in {tx[s].ver, tx[s].ver + 1}
        /\ UNCHANGED <<row, evidence, open, file, gitlog, w>>
        /\ \A x \in Sessions \ {s} : tx'[x] = tx[x]
    BY <1>4 DEF WriteUnreported, TranscriptVanishes, TranscriptReturns, TypeOK
  <2>2. Stirs(s)
    BY <1>0, <2>1 DEF Stirs
  <2> QED  BY <2>1, <2>2, StillStirs DEF Still
<1> QED  BY <1>1, <1>2, <1>3, <1>4 DEF Agent

\* Setting a row that says no more, whatever the worker does that leaves.
LEMMA SetRowStirs ==
  ASSUME TypeOK, NEW s \in Sessions, NEW q, KeepsClaim(row[s], q), Idles(row[s], q),
         SetRow(s, q), UNCHANGED <<hookVars, open, diskVars>>,
         \A x \in Sessions \ {s} : w'[x] = w[x],
         \/ w'[s] = w[s]
         \/ w'[s].pc = "idle"
         \/ /\ w'[s].pc \in {"abandon", "lift", "gate", "claim", "defer", "unworthy", "fail"}
            /\ w[s].pc \notin Early
  PROVE  \A x \in Sessions : Stirs(x)
<1> USE DEF diskVars, hookVars
<1>1. row'[s] = q /\ \A x \in Sessions \ {s} : row'[x] = row[x]
  BY DEF SetRow, TypeOK
<1>2. Stirs(s)
  BY <1>1, SessionTypes DEF Stirs
<1> QED  BY <1>1, <1>2, StillStirs DEF Still

\* Backoffs and reservations that run out say nothing new.
LEMMA WaitingStirs ==
  ASSUME TypeOK, NEW s \in Sessions, BackoffElapses(s) \/ ReservationGoesStale(s)
  PROVE  \A x \in Sessions : Stirs(x)
<1>0. row[s] \in Rows
  BY SessionTypes
<1>1. /\ KeepsClaim(row[s], [row[s] EXCEPT !.nextRetry = "now"])
      /\ KeepsClaim(row[s], [row[s] EXCEPT !.resv = "stale"])
  BY <1>0 DEF KeepsClaim, Rows
<1>2. /\ Idles(row[s], [row[s] EXCEPT !.nextRetry = "now"])
      /\ Idles(row[s], [row[s] EXCEPT !.resv = "stale"])
  BY <1>0 DEF Idles, ParkEarned, Rows
<1> QED
  BY <1>1, <1>2, SetRowStirs DEF BackoffElapses, ReservationGoesStale

\* Sweeps and the operator's commands stir the session they reach.
LEMMA SweepStirs ==
  ASSUME TypeOK, NEW s \in Sessions, Sound(s), Sweep(s) \/ Operator(s)
  PROVE  \A x \in Sessions : Stirs(x)
<1> USE DEF diskVars, hookVars
<1>0. /\ row[s] \in Rows /\ KeepsClaim(row[s], row[s])
      /\ Idles(row[s], row[s])
  BY SessionTypes, ReservationKeeps, ReservationIdles
<1>1. ASSUME NEW r \in {MarkInterruptedRow(row[s]), AttachRow(row[s]), RescueRow(row[s])}
      PROVE  KeepsClaim(row[s], r) /\ Reports(row[s], r)
  BY <1>0, EvidenceKeeps, EvidenceReports
<1>2. CASE SweepStale(s) \/ SweepUnresolved(s) \/ SweepObserved(s)
  <2> DEFINE Reported ==
        \E kind \in {"scan", "path", "observed"},
           r \in {MarkInterruptedRow(row[s]), AttachRow(row[s]), RescueRow(row[s])} :
          Observe(s, kind, r)
  <2>1. /\ UNCHANGED <<tx, open, diskVars, w>>
        /\ UNCHANGED <<row, evidence>> \/ Reported
    BY <1>2 DEF SweepStale, SweepUnresolved, SweepObserved
  <2>2. CASE UNCHANGED <<row, evidence>>
    BY <2>1, <2>2, StillStirs DEF Still
  <2>3. CASE Reported
    BY <1>1, <2>1, <2>3, ObserveSays
  <2> QED  BY <2>1, <2>2, <2>3
<1>3. CASE SweepDiscovers(s)
  BY <1>1, <1>3, ObserveSays DEF SweepDiscovers
<1>4. CASE SweepLifts(s) \/ SweepReactivates(s) \/ SettleLost(s)
  <2>1. /\ UNCHANGED <<hookVars, open, diskVars, w>>
        /\ \E q \in {LiftSourceLimitPark(row[s]), LiftLostRow(row[s]),
                     SettleLostRow(row[s])} : SetRow(s, q)
    BY <1>4 DEF SweepLifts, SweepReactivates, SettleLost
  <2>2. ASSUME NEW q \in {LiftSourceLimitPark(row[s]), LiftLostRow(row[s]),
                          SettleLostRow(row[s])}
        PROVE  KeepsClaim(row[s], q) /\ Idles(row[s], q)
    BY <1>0, ReservationKeeps, ReservationIdles
  <2> QED  BY <2>1, <2>2, SetRowStirs
<1>5. CASE SettleChecks(s)
  BY <1>5, StillStirs DEF SettleChecks, Still
<1>6. CASE SweepReserves(s)
  <2>1. PICK q \in {row[s], ForceLift(row[s])} : HandOff(s, q, TRUE)
    BY <1>6 DEF SweepReserves
  <2>2. KeepsClaim(row[s], q) /\ Idles(row[s], q)
    BY <1>0, ReservationKeeps, ReservationIdles
  <2>3. /\ KeepsClaim(row[s], row'[s]) /\ Idles(row[s], row'[s])
        /\ \A x \in Sessions \ {s} : row'[x] = row[x]
    BY <2>1, <2>2, HandOffSays
  <2>4. UNCHANGED <<tx, evidence, open, file, gitlog, w>>
    BY <1>6 DEF SweepReserves
  <2>5. Stirs(s)
    BY <2>3, <2>4, SessionTypes DEF Stirs
  <2> QED  BY <2>3, <2>4, <2>5, StillStirs DEF Still
<1>7. CASE Retry(s)
  <2> DEFINE r == LiftFailurePark(row[s])
  <2>1. /\ UNCHANGED <<hookVars, open, diskVars, w>>
        /\ \E q \in {r, ReserveRow(ForceLift(r)), ReserveRow(r)} : SetRow(s, q)
    BY <1>7 DEF Retry
  <2>2. KeepsClaim(row[s], r) /\ Idles(row[s], r) /\ r \in Rows
    BY <1>0, ReservationKeeps, ReservationIdles DEF KeepsClaim
  <2> HIDE DEF r
  <2>3. /\ KeepsClaim(r, ForceLift(r)) /\ Idles(r, ForceLift(r)) /\ ForceLift(r) \in Rows
    BY <2>2, ReservationKeeps, ReservationIdles DEF KeepsClaim
  <2>4. KeepsClaim(row[s], ForceLift(r)) /\ Idles(row[s], ForceLift(r))
    BY <2>2, <2>3, KeepsTwice, IdlesTwice DEF KeepsClaim
  <2>5. ASSUME NEW p \in Rows, KeepsClaim(row[s], p), Idles(row[s], p)
        PROVE  KeepsClaim(row[s], ReserveRow(p)) /\ Idles(row[s], ReserveRow(p))
    BY <2>5, ReservationKeeps, ReservationIdles, KeepsTwice, IdlesTwice DEF KeepsClaim
  <2>6. ASSUME NEW q \in {r, ReserveRow(ForceLift(r)), ReserveRow(r)}
        PROVE  KeepsClaim(row[s], q) /\ Idles(row[s], q)
    BY <2>2, <2>3, <2>4, <2>5
  <2> QED  BY <2>1, <2>6, SetRowStirs
<1> QED
  BY <1>2, <1>3, <1>4, <1>5, <1>6, <1>7 DEF Sweep, Operator

\* A worker that dies, or finds the lock taken, or the sweep's reading of its
\* lists: no row changes.
LEMMA RestStirs ==
  ASSUME TypeOK,
         \/ SweepBegins
         \/ \E s \in Sessions : WorkerFindsLockBusy(s) \/ WorkerDies(s)
         \/ UNCHANGED vars
  PROVE  \A x \in Sessions : Stirs(x)
<1> USE DEF diskVars, hookVars, sweepVars
<1>1. UNCHANGED <<tx, evidence, row, open, file, gitlog>>
  BY DEF SweepBegins, WorkerFindsLockBusy, WorkerDies, vars
<1>2. \/ UNCHANGED w
      \/ \E s \in Sessions : w' = [w EXCEPT ![s] = Idle]
  BY DEF SweepBegins, WorkerFindsLockBusy, WorkerDies, Exit, vars
<1>3. ASSUME NEW x \in Sessions PROVE w'[x] = w[x] \/ w'[x].pc = "idle"
  BY <1>2 DEF TypeOK, Idle
<1> QED
  BY <1>1, <1>3, SessionTypes, ReservationKeeps, ReservationIdles DEF Stirs

\* Steps that only stir keep every session sound.
LEMMA AllStir ==
  ASSUME TypeOK, TypeOK', SInv, \A x \in Sessions : Stirs(x)
  PROVE  SInv'
BY StirredIsSound DEF SInv

\* So does a step that leaves one session sound and the others alone.
LEMMA OneSound ==
  ASSUME TypeOK, TypeOK', SInv, NEW s \in Sessions, Sound(s)',
         \A x \in Sessions \ {s} : Still(x)
  PROVE  SInv'
BY StillStirs, StirredIsSound DEF SInv

-----------------------------------------------------------------------------
(* The steps of the worker before its claim.                                *)

\* A worker that leaves on an error, its file as it found it, only stirs.
LEMMA ErrorExitStirs ==
  ASSUME TypeOK, NEW s \in Sessions, ErrorExit(s), UNCHANGED <<hookVars, open, diskVars>>
  PROVE  \A x \in Sessions : Stirs(x)
<1>1. w'[s].pc = "idle" /\ \A x \in Sessions \ {s} : w'[x] = w[x]
  BY DEF ErrorExit, Exit, TypeOK, Idle
<1> QED
  BY <1>1, SessionTypes, ReservationKeeps, ReservationIdles, SetRowStirs DEF ErrorExit

\* So does one that fails, without a write, or judges the session unworthy.
LEMMA FailingStirs ==
  ASSUME TypeOK, NEW s \in Sessions, w[s].pc \notin Early,
         UNCHANGED <<hookVars, row, open, diskVars>>,
         \/ \E c : FailWith(s, c)
         \/ FailMissing(s) \/ Go(s, "unworthy") \/ Go(s, "defer")
         \/ Go(s, "gate") \/ Go(s, "claim") \/ Go(s, "lift")
  PROVE  \A x \in Sessions : Stirs(x)
<1>1. \/ \E c : FailWith(s, c)
      \/ \E pc \in {"unworthy", "defer", "gate", "claim", "lift"} : Go(s, pc)
  BY DEF FailMissing
<1>2. /\ w'[s].pc \in {"fail", "unworthy", "defer", "gate", "claim", "lift"}
      /\ \A x \in Sessions \ {s} : w'[x] = w[x]
  BY <1>1 DEF FailWith, Go, TypeOK, WorkerStates
<1>3. SetRow(s, row[s])
  BY DEF SetRow, TypeOK
<1> QED
  BY <1>2, <1>3, SessionTypes, ReservationKeeps, ReservationIdles, SetRowStirs

\* The lift of a source-limit park and the policy gate only stir.
LEMMA LiftGateSound ==
  ASSUME IInv, TypeOK', SInv, NEW s \in Sessions, Lift(s) \/ Gate(s)
  PROVE  SInv'
<1> USE DEF workerVars
<1>0. TypeOK /\ row[s] \in Rows
  BY SessionTypes DEF IInv
<1>1. CASE Lift(s)
  <2>1. /\ UNCHANGED <<hookVars, open, diskVars>>
        /\ \E q \in {row[s], LiftSourceLimitPark(row[s])} : SetRow(s, q)
        /\ w[s].pc \notin Early
    BY <1>1 DEF Lift, Early
  <2>2. w'[s].pc = "gate" /\ \A x \in Sessions \ {s} : w'[x] = w[x]
    BY <1>0, <1>1 DEF Lift, Go, TypeOK, WorkerStates
  <2> QED
    BY <1>0, <2>1, <2>2, ReservationKeeps, ReservationIdles, SetRowStirs, AllStir
<1>2. CASE Gate(s) /\ Go(s, "claim") /\ UNCHANGED row
  BY <1>0, <1>2, FailingStirs, AllStir DEF Gate, Early
<1>3. CASE Gate(s) /\ SetRow(s, ClearReservationRow(DeferRow(row[s]))) /\ Exit(s)
  <2>1. /\ KeepsClaim(row[s], DeferRow(row[s])) /\ Idles(row[s], DeferRow(row[s]))
        /\ DeferRow(row[s]) \in Rows
    BY <1>0, ReservationKeeps, ReservationIdles DEF KeepsClaim
  <2>2. /\ KeepsClaim(row[s], ClearReservationRow(DeferRow(row[s])))
        /\ Idles(row[s], ClearReservationRow(DeferRow(row[s])))
    BY <2>1, ReservationKeeps, ReservationIdles, KeepsTwice, IdlesTwice DEF KeepsClaim
  <2>3. w'[s].pc = "idle" /\ \A x \in Sessions \ {s} : w'[x] = w[x]
    BY <1>0, <1>3 DEF Exit, TypeOK, Idle
  <2>4. UNCHANGED <<hookVars, open, diskVars>>
    BY <1>3 DEF Gate
  <2> QED  BY <1>0, <1>3, <2>2, <2>3, <2>4, SetRowStirs, AllStir
<1> QED  BY <1>1, <1>2, <1>3 DEF Gate

\* Hydration records the owner's plan, and says archived of nothing: a row
\* whose owner planned a summary is still in processing.
LEMMA WorkerStartsSound ==
  ASSUME IInv, TypeOK', SInv, NEW s \in Sessions, WorkerStarts(s)
  PROVE  SInv'
<1> USE DEF diskVars, hookVars, sweepVars
<1>0. TypeOK /\ Good(s) /\ Sound(s) /\ w[s].pc = "idle"
  BY DEF IInv, SInv, WorkerStarts
<1>1. /\ UNCHANGED <<tx, evidence, open, file, gitlog>>
      /\ w'[s].pc = "reconcile"
      /\ \A x \in Sessions \ {s} : w'[x] = w[x]
  BY <1>0 DEF WorkerStarts, Go, TypeOK, WorkerStates
<1>2. row'[s] = (IF row[s].doc.rev = 0 /\ file[s].rev > 0
                 THEN ImportRow(row[s], file[s]) ELSE row[s])
      /\ \A x \in Sessions \ {s} : row'[x] = row[x]
  BY <1>0 DEF WorkerStarts, SetRow, TypeOK
<1>3. \A x \in Sessions \ {s} : Still(x)
  BY <1>1, <1>2 DEF Still
<1>4. CASE ~(row[s].doc.rev = 0 /\ file[s].rev > 0)
  <2>1. /\ row'[s] = row[s] /\ Owned(s)' = Owned(s) /\ Planned(s)' = Planned(s)
        /\ Imported(s) => Imported(s)'
    BY <1>1, <1>2, <1>4 DEF Owned, Planned, Imported, Early
  <2>2. ParkEarned(row[s])' /\ Documented(s)' /\ Planning(s)' /\ Living(s)'
    BY <1>0, <1>1, <2>1 DEF Sound, Documented, Planning, Living, Covers
  <2>3. Reading(s)' /\ Writing(s)'
    BY <1>1 DEF Reading, Writing
  <2>4. Recorded(s)'
    BY <1>0, <1>1, <2>1 DEF Sound, Recorded, Committed, Early
  <2> QED  BY <1>0, <1>3, <2>2, <2>3, <2>4, OneSound DEF Sound
<1>5. CASE row[s].doc.rev = 0 /\ file[s].rev > 0
  <2>1. PICK a \in Owned(s) : a.plan = file[s]
    BY <1>0, <1>5, SessionTypes DEF Good, DocumentIsDurable, Owned
  <2>2. /\ a \in open[s] /\ a.id = row[s].token /\ a.plan # NoDocument
        /\ \A b \in Owned(s) : b = a
        /\ row[s].token # 0
    BY <1>0, <2>1, SessionTypes DEF Owned, Planned, Good, ClaimIsExclusive
  <2>3. /\ a.git = GitHistory /\ file[s].rev = 1 /\ file[s].kind # None
        /\ file[s].ver <= tx[s].ver /\ Covers(s, a, file[s].ver)
    BY <1>0, <1>5, <2>1, <2>2, SessionTypes
    DEF Sound, Documented, Planning, Owned, NextRev, SameRev, Imported, Numbered
  <2> DEFINE q == ImportRow(row[s], file[s])
  <2>4. /\ row'[s] = q /\ q.gen = row[s].gen /\ q.token = row[s].token /\ q.doc = file[s]
        /\ row[s].life = "processing" => q.life = "processing"
        /\ ParkEarned(row[s]) => ParkEarned(q)
        /\ q.life = "archived" =>
             /\ row[s].life # "processing" /\ file[s].kind # "placeholder"
    <3>1. row[s] \in Rows /\ file[s] \in Documents
      BY <1>0, SessionTypes
    <3>2. KeepsClaim([row[s] EXCEPT !.doc = file[s]], q)
      BY <3>1, ImportKeeps
    <3>3. q.token = row[s].token /\ q.doc = file[s]
      BY <3>1, <3>2 DEF KeepsClaim, Rows
    <3> QED  BY <1>2, <1>5, <3>1, <3>3, ImportSays
  <2> HIDE DEF q
  <2>5. q.life # "archived"
    BY <1>0, <2>1, <2>2, <2>4 DEF Sound, Living
  <2>6. /\ Owned(s)' = Owned(s) /\ Planned(s)' = Planned(s) /\ Imported(s)'
    BY <1>1, <2>1, <2>3, <2>4 DEF Owned, Planned, Imported, Early
  <2>7. ParkEarned(row[s])' /\ Documented(s)'
    BY <1>0, <1>1, <2>3, <2>4, <2>6 DEF Sound, Documented, Numbered
  <2>8. Planning(s)'
    BY <1>0, <1>1, <2>1, <2>2, <2>3, <2>4, <2>6, SessionTypes
    DEF Sound, Planning, Covers
  <2>9. Living(s)'
    BY <1>0, <1>1, <2>4, <2>5, <2>6 DEF Sound, Living
  <2>10. Reading(s)' /\ Writing(s)'
    BY <1>1 DEF Reading, Writing
  <2>11. Recorded(s)'
    <3>1. ASSUME NEW d \in gitlog[s], GitHistory
          PROVE  d.rev <= row[s].doc.rev \/ d = file[s]
      BY <1>0, <3>1 DEF Sound, Recorded
    <3>2. ASSUME NEW d \in gitlog[s], GitHistory
          PROVE  d.rev \in Nat /\ (d.rev <= 0 \/ d = file[s])
      BY <1>0, <1>5, <3>1, <3>2, SessionTypes
    <3> QED  BY <1>0, <1>1, <2>3, <2>4, <2>6, <3>2, SessionTypes DEF Sound, Recorded
  <2> QED  BY <1>0, <1>3, <2>7, <2>8, <2>9, <2>10, <2>11, OneSound DEF Sound
<1> QED  BY <1>4, <1>5

\* The owner of a row is the latest of its attempts, and the only one with its
\* id; so the plan it stored is the one the next worker finds on disk.
LEMMA OwnerIsLatest ==
  ASSUME TypeOK, NEW s \in Sessions, Good(s), NEW a \in Owned(s)
  PROVE  /\ a \in open[s] /\ a \in Planned(s) /\ row[s].token # 0
         /\ \A b \in open[s] : b.id <= a.id /\ (b.id = a.id => b = a)
         /\ \A b \in Owned(s) : b = a
BY SessionTypes DEF Good, ClaimIsExclusive, FileFollowsWorker, Owned, Planned

\* With the owner's plan on disk, its worker resumes it; with none, nothing is
\* left of an import or of a commit past the recorded revision.
LEMMA ReconcileSound ==
  ASSUME IInv, TypeOK', SInv, NEW s \in Sessions, Reconcile(s)
  PROVE  SInv'
<1> USE DEF diskVars, hookVars, sweepVars, workerVars
<1>0. TypeOK /\ Good(s) /\ Sound(s) /\ w[s].pc = "reconcile"
      /\ UNCHANGED <<tx, evidence, row, open, file, gitlog>>
  BY DEF IInv, SInv, Reconcile
<1>1. /\ Owned(s)' = Owned(s) /\ Planned(s)' = Planned(s)
      /\ ParkEarned(row[s])' /\ Documented(s)' /\ Living(s)'
  BY <1>0 DEF Sound, Documented, Living, Owned, Planned
<1>2. CASE /\ \A a \in open[s] : ~Reconcilable(s, a)
           /\ Go(s, "abandon")
  <2>1. w'[s].pc = "abandon" /\ \A x \in Sessions \ {s} : Still(x)
    BY <1>0, <1>2 DEF Go, TypeOK, WorkerStates, Still
  <2>2. \A a \in Owned(s) : a.plan # file[s]
    BY <1>0, <1>2, OwnerIsLatest DEF Reconcilable, Planned
  <2>3. ~Imported(s)
    BY <2>2 DEF Imported
  <2>4. Planning(s)' /\ Reading(s)' /\ Writing(s)'
    BY <1>0, <1>1, <2>1, <2>3 DEF Sound, Planning, Reading, Writing, Covers
  <2>5. Recorded(s)'
    BY <1>0, <2>1, <2>2, <2>3 DEF Sound, Recorded, Committed
  <2> QED  BY <1>0, <1>1, <2>1, <2>4, <2>5, OneSound DEF Sound
<1>3. ASSUME NEW a \in open[s], Reconcilable(s, a),
             w' = [w EXCEPT ![s] = [Idle EXCEPT
                     !.pc = ResumePC(a), !.att = a.id, !.new = a.plan,
                     !.cat = "summary-failed"]]
      PROVE  SInv'
  <2>1. /\ w'[s].pc = ResumePC(a) /\ w'[s].att = a.id /\ w'[s].new = a.plan
        /\ \A x \in Sessions \ {s} : Still(x)
    BY <1>0, <1>3 DEF TypeOK, Idle, Still
  <2>2. /\ a \in Planned(s) /\ file[s] = a.plan
        /\ \A b \in Owned(s) : b.plan = file[s] => b = a
    BY <1>0, <1>3, OwnerIsLatest, SessionTypes DEF Reconcilable
  <2>3. w'[s].pc \in {"recommit", "complete"} /\ (w'[s].pc = "recommit" <=> a.git)
    BY <2>1 DEF ResumePC
  <2>4. Imported(s) => Imported(s)'
    BY <1>0, <1>1, <2>3 DEF Imported, Early
  <2>5. Planning(s)' /\ Reading(s)' /\ Writing(s)'
    BY <1>0, <1>1, <2>1, <2>2, <2>3, <2>4
    DEF Sound, Planning, Reading, Writing, Covers
  <2>6. Recorded(s)'
    <3> SUFFICES ASSUME GitHistory PROVE Recorded(s)'
      BY DEF Recorded
    <3>1. Imported(s) => w'[s].pc # "complete"
      BY <2>2, <2>3 DEF Imported
    <3>2. w'[s].pc = "complete" /\ w'[s].att = row[s].token => Committed(s, a.plan.rev)
      <4> SUFFICES ASSUME w'[s].pc = "complete", a.id = row[s].token
                   PROVE  Committed(s, a.plan.rev)
        BY <2>1
      <4>1. a \in Owned(s) /\ ~a.git /\ ~Imported(s)
        BY <2>2, <2>3, <3>1 DEF Owned
      <4>2. SameRev(a.plan, row[s].doc)
        BY <1>0, <4>1 DEF Sound, Planning
      <4>3. a.plan.rev \in 1 .. row[s].doc.rev
        BY <1>0, <4>2, SessionTypes DEF SameRev, Sound, Documented, Numbered, None
      <4> QED  BY <1>0, <4>1, <4>3 DEF Sound, Recorded
    <3> QED
      BY <1>0, <1>1, <2>1, <2>3, <2>4, <3>1, <3>2
      DEF Sound, Recorded, Committed, Early
  <2> QED  BY <1>0, <1>1, <2>1, <2>5, <2>6, OneSound DEF Sound
<1> QED  BY <1>2, <1>3 DEF Reconcile

\* The commit of a recovered revision adds the owner's plan, or nothing.
LEMMA RecommitSound ==
  ASSUME IInv, TypeOK', SInv, NEW s \in Sessions, Recommit(s)
  PROVE  SInv'
<1> USE DEF diskVars, hookVars, sweepVars, workerVars
<1>0. TypeOK /\ Good(s) /\ Sound(s) /\ w[s].pc = "recommit"
      /\ UNCHANGED <<tx, evidence, open, file>>
  BY DEF IInv, SInv, Recommit
<1>1. CASE ErrorExit(s) /\ UNCHANGED gitlog
  BY <1>0, <1>1, ErrorExitStirs, AllStir
<1>2. CASE CommitRevision(s, w[s].new.rev) /\ Go(s, "complete") /\ UNCHANGED row
  <2>1. /\ w'[s].pc = "complete" /\ w'[s].att = w[s].att /\ w'[s].new = w[s].new
        /\ \A x \in Sessions \ {s} : Still(x)
    BY <1>0, <1>2 DEF Go, TypeOK, WorkerStates, CommitRevision, Still
  <2>2. gitlog'[s] = IF Committed(s, w[s].new.rev) THEN gitlog[s]
                     ELSE gitlog[s] \cup {file[s]}
    BY <1>0, <1>2 DEF CommitRevision, Committed, TypeOK
  <2>3. /\ Owned(s)' = Owned(s) /\ Planned(s)' = Planned(s)
        /\ Imported(s)' = Imported(s)
    BY <1>0, <1>2, <2>1 DEF Owned, Planned, Imported, Early
  <2>4. /\ ParkEarned(row[s])' /\ Documented(s)' /\ Planning(s)' /\ Living(s)'
        /\ Reading(s)' /\ Writing(s)'
    BY <1>0, <1>2, <2>1, <2>3
    DEF Sound, Documented, Planning, Living, Reading, Writing, Covers
  <2>5. Recorded(s)'
    <3> SUFFICES ASSUME GitHistory PROVE Recorded(s)'
      BY DEF Recorded
    <3>1. file[s] = w[s].new /\ w[s].new.rev > 0
      BY <1>0 DEF Good, FileFollowsWorker, Sound, Writing, Documented
    <3>2. ASSUME ~Committed(s, w[s].new.rev)
          PROVE  /\ \E b \in Owned(s) : b.plan = file[s]
                 /\ file[s].rev = row[s].doc.rev => file[s] = row[s].doc
      <4>1. CASE file[s] = row[s].doc
        <5>1. w[s].new.rev \in 1 .. row[s].doc.rev
          BY <1>0, <3>1, <4>1, SessionTypes
        <5>2. Imported(s)
          BY <1>0, <3>2, <5>1 DEF Sound, Recorded
        <5> QED  BY <4>1, <5>2 DEF Imported
      <4>2. CASE file[s] # row[s].doc
        <5>1. PICK b \in Owned(s) : b.plan = file[s]
          BY <1>0, <4>2 DEF Good, DocumentIsDurable, Owned
        <5>2. ~Imported(s)
          BY <4>2 DEF Imported
        <5>3. CASE NextRev(b.plan, row[s].doc)
          BY <1>0, <5>1, <5>3, SessionTypes DEF NextRev
        <5>4. CASE SameRev(b.plan, row[s].doc)
          <6>1. w[s].new.rev \in 1 .. row[s].doc.rev
            BY <1>0, <3>1, <5>1, <5>4, SessionTypes DEF SameRev
          <6> QED  BY <1>0, <3>2, <5>2, <6>1 DEF Sound, Recorded
        <5> QED  BY <1>0, <5>1, <5>2, <5>3, <5>4 DEF Sound, Planning
      <4> QED  BY <4>1, <4>2
    <3>3. \A d \in gitlog'[s] : d \in gitlog[s] \/ (~Committed(s, w[s].new.rev) /\ d = file[s])
      BY <2>2
    <3>4. gitlog[s] \subseteq gitlog'[s] /\ \E d \in gitlog'[s] : d.rev = w[s].new.rev
      BY <2>2, <3>1 DEF Committed
    <3>5. \A d, e \in gitlog'[s] : d.rev = e.rev => d = e
      BY <1>0, <3>1, <3>3 DEF Sound, Recorded, Committed
    <3>6. \A n \in 1 .. row[s].doc.rev : \E d \in gitlog'[s] : d.rev = n
      <4>1. CASE \A n \in 1 .. row[s].doc.rev : Committed(s, n)
        BY <3>4, <4>1 DEF Committed
      <4>2. CASE Imported(s)
        BY <3>1, <3>4, <4>2 DEF Imported
      <4> QED  BY <1>0, <4>1, <4>2 DEF Sound, Recorded
    <3>7. \A d \in gitlog'[s] : d.rev = row[s].doc.rev =>
            d.kind = row[s].doc.kind /\ d.ver <= row[s].doc.ver
      BY <1>0, <3>2, <3>3, SessionTypes DEF Sound, Recorded
    <3>8. \A d \in gitlog'[s] :
            d.rev <= row[s].doc.rev \/ (d = file[s] /\ \E b \in Owned(s) : b.plan = d)
      BY <1>0, <3>2, <3>3 DEF Sound, Recorded
    <3> QED
      BY <1>0, <1>2, <2>1, <2>3, <3>4, <3>5, <3>6, <3>7, <3>8
      DEF Recorded, Committed, Early
  <2> QED  BY <1>0, <2>1, <2>4, <2>5, OneSound DEF Sound
<1> QED  BY <1>1, <1>2 DEF Recommit

\* The end of a claim that records no document: no attempt owns the row.
LEMMA EndedIsSound ==
  ASSUME TypeOK, TypeOK', NEW s \in Sessions, Sound(s), w[s].pc \notin Early,
         w'[s].pc \in {"idle", "lift"},
         open'[s] \subseteq open[s], row'[s].token = 0, row'[s].doc = row[s].doc,
         row'[s].gen = row[s].gen, ParkEarned(row'[s]),
         row'[s].life = "archived" =>
           row[s].doc.kind = "real" /\ row[s].doc.ver >= evidence[s],
         tx'[s] = tx[s], evidence'[s] = evidence[s], file'[s] = file[s],
         gitlog'[s] = gitlog[s]
  PROVE  Sound(s)'
<1>1. Owned(s)' = {} /\ Planned(s)' \subseteq Planned(s)
  BY SessionTypes DEF Owned, Planned
<1>2. Documented(s)' /\ Planning(s)' /\ Living(s)'
  BY <1>1 DEF Sound, Documented, Planning, Living
<1>3. Reading(s)' /\ Writing(s)'
  BY DEF Reading, Writing
<1>4. Recorded(s)'
  BY ZenonT(60) DEF Sound, Recorded, Committed, Imported
<1> QED  BY <1>2, <1>3, <1>4 DEF Sound

\* An abandoned claim leaves nothing behind that a later worker would resume.
LEMMA AbandonSound ==
  ASSUME IInv, TypeOK', SInv, NEW s \in Sessions, Abandon(s)
  PROVE  SInv'
<1> USE DEF diskVars, hookVars, sweepVars, workerVars
<1>0. TypeOK /\ Sound(s) /\ w[s].pc = "abandon" /\ Go(s, "lift")
      /\ UNCHANGED <<tx, evidence, file, gitlog>>
  BY DEF IInv, SInv, Abandon
<1>1. CASE UNCHANGED <<row, open>>
  BY <1>0, <1>1, FailingStirs, AllStir DEF Early
<1>2. CASE AbandonLatest(s, "worker-interrupted")
  <2>1. PICK a \in open[s] :
          /\ SetRow(s, AbandonRow(row[s], a, "worker-interrupted"))
          /\ open' = [open EXCEPT ![s] = @ \ {a}]
    BY <1>2 DEF AbandonLatest
  <2>2. row[s] \in Rows /\ a \in Attempts /\ "worker-interrupted" \in Labels
    BY <1>0, SessionTypes DEF Labels
  <2>3. /\ row'[s] = AbandonRow(row[s], a, "worker-interrupted")
        /\ open'[s] \subseteq open[s] /\ w'[s].pc = "lift"
        /\ \A x \in Sessions \ {s} : Still(x)
    BY <1>0, <2>1 DEF SetRow, Go, TypeOK, WorkerStates, Still
  <2>4. /\ row'[s].token = 0 /\ row'[s].doc = row[s].doc
        /\ row'[s].gen = row[s].gen /\ row'[s].life \in Pending
    <3>1. EndsClaim(row[s], row'[s])
      BY <2>2, <2>3, AbandonEnds
    <3>2. a.retryState \in Pending
      BY <2>2 DEF Attempts
    <3>3. row'[s].gen = row[s].gen /\ row'[s].life \in Pending
      BY <2>2, <2>3, <3>2 DEF AbandonRow, Release, Rows
    <3> QED  BY <3>1, <3>3 DEF EndsClaim
  <2>5. ParkEarned(row'[s]) /\ row'[s].life # "archived"
    BY <2>4 DEF ParkEarned, Pending
  <2> QED
    BY <1>0, <2>3, <2>4, <2>5, EndedIsSound, OneSound DEF Early
<1> QED  BY <1>0, <1>1, <1>2 DEF Abandon

\* A claim takes the row under a new attempt, which has planned nothing yet.
LEMMA ClaimSound ==
  ASSUME IInv, TypeOK', SInv, NEW s \in Sessions, Claim(s)
  PROVE  SInv'
<1> USE DEF diskVars, hookVars, sweepVars, workerVars
<1>0. TypeOK /\ Sound(s) /\ w[s].pc = "claim" /\ row[s] \in Rows
      /\ UNCHANGED <<tx, evidence, file, gitlog>>
  BY SessionTypes DEF IInv, SInv, Claim
<1>1. CASE Exit(s) /\ UNCHANGED <<row, open>>
  <2>1. w'[s].pc = "idle" /\ \A x \in Sessions \ {s} : w'[x] = w[x]
    BY <1>0, <1>1 DEF Exit, TypeOK, Idle
  <2>2. SetRow(s, row[s])
    BY <1>0, <1>1 DEF SetRow, TypeOK
  <2> QED
    BY <1>0, <1>1, <2>1, <2>2, ReservationKeeps, ReservationIdles, SetRowStirs, AllStir
<1>2. CASE SetRow(s, ClearReservationRow(DeferRow(row[s]))) /\ Exit(s) /\ UNCHANGED open
  <2>1. /\ KeepsClaim(row[s], DeferRow(row[s])) /\ Idles(row[s], DeferRow(row[s]))
        /\ DeferRow(row[s]) \in Rows
    BY <1>0, ReservationKeeps, ReservationIdles DEF KeepsClaim
  <2>2. /\ KeepsClaim(row[s], ClearReservationRow(DeferRow(row[s])))
        /\ Idles(row[s], ClearReservationRow(DeferRow(row[s])))
    BY <2>1, ReservationKeeps, ReservationIdles, KeepsTwice, IdlesTwice DEF KeepsClaim
  <2>3. w'[s].pc = "idle" /\ \A x \in Sessions \ {s} : w'[x] = w[x]
    BY <1>0, <1>2 DEF Exit, TypeOK, Idle
  <2> QED  BY <1>0, <1>2, <2>2, <2>3, SetRowStirs, AllStir
<1>3. ASSUME Claimable(row[s]), NEW id \in 1 .. MaxAttempts,
             \A a \in open[s] : a.id < id,
             open' = [open EXCEPT ![s] = @ \cup
               {[id |-> id, gen |-> row[s].gen,
                 retryState |-> ClaimRetryState(row[s]), live |-> TRUE,
                 plan |-> NoDocument, git |-> FALSE]}],
             SetRow(s, ClaimRow(row[s], id)),
             w' = [w EXCEPT ![s] = [Idle EXCEPT !.pc = "load", !.att = id]]
      PROVE  SInv'
  <2> DEFINE new == [id |-> id, gen |-> row[s].gen,
                     retryState |-> ClaimRetryState(row[s]), live |-> TRUE,
                     plan |-> NoDocument, git |-> FALSE]
  <2>1. id \in Nat \ {0} /\ new.id = id /\ new.gen = row[s].gen /\ new.plan = NoDocument
    BY ArchiveWorkerAssumption
  <2>2. open'[s] = open[s] \cup {new}
    BY <1>0, <1>3 DEF TypeOK
  <2> HIDE DEF new
  <2>3. /\ row'[s] = ClaimRow(row[s], id) /\ w'[s].pc = "load" /\ w'[s].att = id
        /\ \A x \in Sessions \ {s} : Still(x)
    BY <1>0, <1>3 DEF SetRow, TypeOK, Idle, Still
  <2>4. /\ row'[s].token = id /\ row'[s].doc = row[s].doc
        /\ row'[s].gen = row[s].gen /\ row'[s].life = "processing"
    <3>1. ClaimRow(row[s], id).token = id /\ ClaimRow(row[s], id).doc = row[s].doc
      BY <1>0, <1>3, <2>1, ClaimTypes
    <3>2. /\ ClaimRow(row[s], id).gen = row[s].gen
          /\ ClaimRow(row[s], id).life = "processing"
      BY <1>0 DEF ClaimRow, Rows
    <3> QED  BY <2>3, <3>1, <3>2
  <2>5. \A a \in open[s] : a.id # id
    BY <1>0, <1>3, <2>1, SessionTypes
  <2>6. Owned(s)' = {} /\ Planned(s)' = Planned(s)
    BY <2>1, <2>2, <2>4, <2>5 DEF Owned, Planned
  <2>7. ParkEarned(row[s])' /\ Documented(s)' /\ Living(s)'
    BY <1>0, <2>4, <2>6 DEF Sound, Documented, Living, ParkEarned
  <2>8. Planning(s)'
    BY <1>0, <2>1, <2>2, <2>4, <2>6, SessionTypes DEF Sound, Planning
  <2>9. Reading(s)' /\ Writing(s)'
    BY <2>1, <2>2, <2>3, <2>5 DEF Reading, Writing
  <2>10. Recorded(s)'
    BY <1>0, <2>3, <2>4 DEF Sound, Recorded, Committed, Imported, Early
  <2> QED  BY <1>0, <2>3, <2>7, <2>8, <2>9, <2>10, OneSound DEF Sound
<1> QED  BY <1>1, <1>2, <1>3 DEF Claim

-----------------------------------------------------------------------------
(* The steps of the worker under its claim.                                 *)

\* A move under the claim that keeps the row, the attempts and the files.
LEMMA HeldSound ==
  ASSUME TypeOK, TypeOK', SInv, NEW s \in Sessions,
         w[s].pc \in {"load", "summarize"}, UNCHANGED <<hookVars, row, open, diskVars>>,
         w'[s].pc \in {"summarize", "nochange", "plan"},
         \A x \in Sessions \ {s} : w'[x] = w[x], Reading(s)'
  PROVE  SInv'
<1> USE DEF diskVars, hookVars
<1>1. Sound(s) /\ Owned(s)' = Owned(s) /\ Planned(s)' = Planned(s)
  BY DEF SInv, Owned, Planned
<1>2. /\ ParkEarned(row[s])' /\ Documented(s)' /\ Planning(s)' /\ Living(s)'
      /\ Writing(s)' /\ Recorded(s)'
  BY <1>1 DEF Sound, Documented, Planning, Living, Writing, Recorded, Committed,
              Imported, Early, Covers
<1> QED  BY <1>1, <1>2, OneSound DEF Still, Sound

\* What a worker reads covers the evidence recorded when it was claimed, for
\* evidence never runs ahead of the transcript.
LEMMA LoadSound ==
  ASSUME IInv, TypeOK', SInv, NEW s \in Sessions, Load(s)
  PROVE  SInv'
<1> USE DEF diskVars, hookVars, sweepVars, workerVars
<1> DEFINE doc == row[s].doc
           Snapshot(pc, quiet) ==
             w' = [w EXCEPT ![s].pc = pc, ![s].ver = tx[s].ver, ![s].quiet = quiet]
<1>0. TypeOK /\ Sound(s) /\ w[s].pc = "load" /\ w[s].pc \notin Early
      /\ UNCHANGED <<tx, evidence, row, open, file, gitlog>>
  BY DEF IInv, SInv, Load, Early
<1>1. \/ FailMissing(s) \/ FailWith(s, "transcript-unresolved")
      \/ FailWith(s, "source-oversized") \/ FailWith(s, "source-not-archive-worthy")
      \/ \E quiet \in BOOLEAN : Snapshot("unworthy", quiet)
      \/ \E pc \in {"summarize", "nochange"}, quiet \in BOOLEAN :
           /\ Snapshot(pc, quiet)
           /\ pc = "nochange" => doc.kind = "real" /\ doc.ver = tx[s].ver
           /\ quiet => doc.kind = "real"
  BY DEF Load
<1>2. CASE \/ FailMissing(s) \/ FailWith(s, "transcript-unresolved")
           \/ FailWith(s, "source-oversized") \/ FailWith(s, "source-not-archive-worthy")
  BY <1>0, <1>2, FailingStirs, AllStir
<1>3. ASSUME NEW quiet \in BOOLEAN, Snapshot("unworthy", quiet) PROVE SInv'
  <2>1. w'[s].pc = "unworthy" /\ \A x \in Sessions \ {s} : w'[x] = w[x]
    BY <1>0, <1>3 DEF TypeOK, WorkerStates
  <2>2. SetRow(s, row[s])
    BY <1>0 DEF SetRow, TypeOK
  <2> QED
    BY <1>0, <2>1, <2>2, SessionTypes, ReservationKeeps, ReservationIdles,
       SetRowStirs, AllStir
<1>4. ASSUME NEW pc \in {"summarize", "nochange"}, NEW quiet \in BOOLEAN,
             Snapshot(pc, quiet),
             pc = "nochange" => doc.kind = "real" /\ doc.ver = tx[s].ver,
             quiet => doc.kind = "real"
      PROVE  SInv'
  <2>1. /\ w'[s].pc = pc /\ w'[s].ver = tx[s].ver /\ w'[s].quiet = quiet
        /\ w'[s].att = w[s].att /\ \A x \in Sessions \ {s} : w'[x] = w[x]
    BY <1>0, <1>4 DEF TypeOK, WorkerStates
  <2>2. Reading(s)'
    <3>1. /\ w[s].pc = "load" /\ row[s].doc.ver <= tx[s].ver /\ evidence[s] <= tx[s].ver
          /\ \A a \in open[s] : a.id = w[s].att => a.plan = NoDocument
      BY <1>0 DEF Sound, Reading, Documented
    <3>2. /\ tx[s].ver \in Nat /\ w'[s].pc \notin {"load", "plan"}
          /\ w'[s].pc = "nochange" => row[s].doc.kind = "real" /\ row[s].doc.ver = w'[s].ver
          /\ w'[s].quiet => row[s].doc.kind = "real"
      BY <1>0, <1>4, <2>1, SessionTypes
    <3> QED  BY <1>0, <2>1, <3>1, <3>2 DEF Reading, Covers
  <2> QED  BY <1>0, <1>4, <2>1, <2>2, HeldSound
<1> QED  BY <1>1, <1>2, <1>3, <1>4

\* A rendered revision supersedes the recorded one: a placeholder is never
\* rendered over a summary.
LEMMA SummarizeSound ==
  ASSUME IInv, TypeOK', SInv, NEW s \in Sessions, Summarize(s)
  PROVE  SInv'
<1> USE DEF diskVars, hookVars, sweepVars, workerVars
<1>0. TypeOK /\ Sound(s) /\ w[s].pc = "summarize" /\ w[s].pc \notin Early
      /\ UNCHANGED <<tx, evidence, row, open, file, gitlog>>
  BY DEF IInv, SInv, Summarize, Early
<1>1. \/ \E kind \in {"real", "placeholder"}, c \in Failures \cup {None} :
           /\ Render(s, kind, c)
           /\ kind = "placeholder" => ~w[s].quiet /\ row[s].doc.kind # "real"
      \/ \E c : FailWith(s, c)
      \/ Go(s, "defer")
  <2>1. SummaryErrors \subseteq Failures
    BY DEF SummaryErrors, Failures, Retryable
  <2> QED  BY <2>1 DEF Summarize, Floors
<1>2. CASE (\E c : FailWith(s, c)) \/ Go(s, "defer")
  BY <1>0, <1>2, FailingStirs, AllStir
<1>3. ASSUME NEW kind \in {"real", "placeholder"}, NEW c \in Failures \cup {None},
             Render(s, kind, c),
             kind = "placeholder" => ~w[s].quiet /\ row[s].doc.kind # "real"
      PROVE  SInv'
  <2>1. CASE FailMissing(s) \/ FailWith(s, "source-changed")
    BY <1>0, <2>1, FailingStirs, AllStir
  <2>2. ASSUME w' = [w EXCEPT ![s].pc = "plan", ![s].cat = c, ![s].new =
                       [rev |-> row[s].doc.rev + (IF w[s].quiet THEN 0 ELSE 1),
                        ver |-> w[s].ver, kind |-> kind]]
        PROVE  SInv'
    <3>1. /\ w'[s].pc = "plan" /\ w'[s].ver = w[s].ver /\ w'[s].quiet = w[s].quiet
          /\ w'[s].att = w[s].att /\ \A x \in Sessions \ {s} : w'[x] = w[x]
          /\ w'[s].new = [rev |-> row[s].doc.rev + (IF w[s].quiet THEN 0 ELSE 1),
                          ver |-> w[s].ver, kind |-> kind]
      BY <1>0, <2>2 DEF TypeOK, WorkerStates
    <3>2. /\ w'[s].new.rev = row[s].doc.rev + (IF w[s].quiet THEN 0 ELSE 1)
          /\ w'[s].new.ver = w[s].ver /\ w'[s].new.kind = kind
      BY <3>1
    <3>3. w[s].quiet => row[s].doc.rev > 0 /\ row[s].doc.kind = "real" /\ kind = "real"
      BY <1>0, <1>3, SessionTypes DEF Sound, Reading, Documented, Numbered, None
    <3>4. w'[s].new.rev > 0 /\ kind # None
      BY <1>0, <1>3, <3>2, <3>3, SessionTypes DEF None
    <3>5. IF w[s].quiet THEN SameRev(w'[s].new, row[s].doc)
          ELSE NextRev(w'[s].new, row[s].doc)
      BY <1>0, <1>3, <3>2, <3>3, SessionTypes DEF SameRev, NextRev
    <3>6. Reading(s)'
      <4>1. /\ w[s].ver >= row[s].doc.ver /\ w[s].ver <= tx[s].ver
            /\ \A a \in open[s] : a.id = w[s].att =>
                 a.plan = NoDocument /\ Covers(s, a, w[s].ver)
            /\ w[s].quiet => row[s].doc.kind = "real"
        BY <1>0 DEF Sound, Reading
      <4>2. \A a \in open'[s] : a.id = w'[s].att =>
              /\ a.plan = NoDocument
              /\ row'[s].gen = a.gen => w'[s].ver >= evidence'[s]
        BY <1>0, <3>1, <4>1 DEF Covers
      <4>3. /\ w'[s].ver >= row'[s].doc.ver /\ w'[s].ver <= tx'[s].ver
            /\ w'[s].quiet => row'[s].doc.kind = "real"
            /\ IF w'[s].quiet THEN SameRev(w'[s].new, row'[s].doc)
               ELSE NextRev(w'[s].new, row'[s].doc)
        BY <1>0, <3>1, <3>5, <4>1
      <4>4. w'[s].new.ver = w'[s].ver /\ w'[s].new.kind # None
        BY <3>1, <3>2, <3>4
      <4> QED  BY <3>1, <3>2, <3>4, <4>2, <4>3, <4>4 DEF Reading, Covers
    <3> QED  BY <1>0, <3>1, <3>6, HeldSound
  <2> QED  BY <1>3, <2>1, <2>2 DEF Render
<1> QED  BY <1>1, <1>2, <1>3

\* While a worker works under a claim the row is its, and so is the one plan
\* the owner may have stored.
LEMMA HolderOwns ==
  ASSUME TypeOK, NEW s \in Sessions, Good(s), w[s].pc \in Holding,
         NEW a \in open[s], a.id = w[s].att
  PROVE  /\ row[s].token = a.id /\ row[s].token # 0
         /\ \A b \in open[s] : b.id <= a.id /\ (b.id = a.id => b = a)
         /\ \A b \in Owned(s) : b = a
         /\ a.plan # NoDocument => a \in Owned(s)
BY SessionTypes DEF Good, ClaimIsExclusive, FileFollowsWorker, Owned, Planned

\* The stored plan becomes the owner's, and supersedes the recorded document.
LEMMA StorePlanSound ==
  ASSUME IInv, TypeOK', SInv, NEW s \in Sessions, StorePlan(s)
  PROVE  SInv'
<1> USE DEF diskVars, hookVars, sweepVars, workerVars
<1>0. TypeOK /\ Good(s) /\ Sound(s) /\ w[s].pc = "plan"
      /\ UNCHANGED <<tx, evidence, row, file, gitlog>>
  BY DEF IInv, SInv, StorePlan
<1>1. PICK a \in open[s] :
        /\ a.id = w[s].att
        /\ open' = [open EXCEPT ![s] = (@ \ {a}) \cup
             {[a EXCEPT !.plan = w[s].new, !.git = GitHistory /\ ~w[s].quiet]}]
  BY DEF StorePlan
<1> DEFINE b == [a EXCEPT !.plan = w[s].new, !.git = GitHistory /\ ~w[s].quiet]
<1>2. /\ b.id = a.id /\ b.gen = a.gen /\ b.plan = w[s].new
      /\ b.git = (GitHistory /\ ~w[s].quiet)
      /\ a \in Attempts
  <2>1. a \in Attempts
    BY <1>0, SessionTypes
  <2>2. b.id = a.id /\ b.gen = a.gen /\ b.plan = w[s].new
    BY <2>1 DEF Attempts
  <2>3. b.git = (GitHistory /\ ~w[s].quiet)
    BY <2>1, Zenon DEF Attempts
  <2> QED  BY <2>1, <2>2, <2>3
<1> DEFINE pc == IF w[s].new.kind = "placeholder" THEN "verdict" ELSE "replace"
<1>3. /\ w'[s].pc = pc /\ w'[s].att = w[s].att /\ w'[s].new = w[s].new
      /\ w'[s].quiet = w[s].quiet
      /\ \A x \in Sessions \ {s} : Still(x)
  BY <1>0, <1>1 DEF StorePlan, TypeOK, WorkerStates, Still
<1>4. open'[s] = (open[s] \ {a}) \cup {b}
  BY <1>0, <1>1 DEF TypeOK
<1> HIDE DEF b
<1>5. /\ a.plan = NoDocument /\ row[s].token = a.id
      /\ \A x \in open[s] : x.id = a.id => x = a
      /\ Owned(s) = {}
  <2>1. a.plan = NoDocument
    BY <1>0, <1>1 DEF Sound, Reading
  <2>2. /\ row[s].token = a.id /\ \A x \in open[s] : x.id = a.id => x = a
        /\ \A x \in Owned(s) : x = a
    BY <1>0, <1>1, HolderOwns DEF Holding
  <2> QED  BY <2>1, <2>2 DEF Owned, Planned
<1>6. /\ w[s].new.rev > 0 /\ w[s].new.kind # None
      /\ w[s].new.ver >= row[s].doc.ver /\ w[s].new.ver <= tx[s].ver
      /\ Covers(s, a, w[s].new.ver)
      /\ IF w[s].quiet THEN SameRev(w[s].new, row[s].doc)
         ELSE NextRev(w[s].new, row[s].doc)
  BY <1>0, <1>1 DEF Sound, Reading
<1>7. /\ b \in Planned(s)' /\ Owned(s)' = {b}
      /\ \A x \in Planned(s)' : x = b \/ x \in Planned(s)
  BY <1>0, <1>2, <1>4, <1>5, <1>6 DEF Owned, Planned, NoDocument
<1>8. ParkEarned(row[s])' /\ Documented(s)'
  BY <1>0, <1>2, <1>6, <1>7 DEF Sound, Documented
<1>9. Planning(s)'
  <2>1. \A x \in open'[s] : x.gen <= row'[s].gen
    BY <1>0, <1>2, <1>4 DEF Sound, Planning
  <2>2. /\ b.plan.ver >= row'[s].doc.ver /\ b.plan.ver <= tx'[s].ver
        /\ row'[s].gen = b.gen => b.plan.ver >= evidence'[s]
    BY <1>0, <1>2, <1>6 DEF Covers
  <2>3. \/ NextRev(b.plan, row'[s].doc) /\ b.git = GitHistory
        \/ SameRev(b.plan, row'[s].doc) /\ ~b.git
    <3>1. CASE w[s].quiet
      BY <1>0, <1>2, <1>6, <3>1
    <3>2. CASE ~w[s].quiet
      <4>1. b.git = GitHistory
        BY <1>2, <3>2, ArchiveWorkerAssumption
      <4>2. NextRev(b.plan, row'[s].doc)
        BY <1>0, <1>2, <1>6, <3>2
      <4> QED  BY <4>1, <4>2
    <3> QED  BY <3>1, <3>2
  <2> QED  BY <1>7, <2>1, <2>2, <2>3 DEF Planning, Covers
<1>10. Living(s)'
  BY <1>0, <1>5 DEF Sound, Living
<1>11. Reading(s)' /\ Writing(s)'
  BY <1>1, <1>2, <1>3, <1>4 DEF Reading, Writing
<1>12. Recorded(s)'
  BY <1>0, <1>3 DEF Sound, Recorded, Committed, Imported, Early
<1> QED  BY <1>0, <1>3, <1>8, <1>9, <1>10, <1>11, <1>12, OneSound DEF Sound

\* The verdict parks a session whose owner has planned a placeholder.
LEMMA RecordVerdictSound ==
  ASSUME IInv, TypeOK', SInv, NEW s \in Sessions, RecordVerdict(s)
  PROVE  SInv'
<1> USE DEF diskVars, hookVars, sweepVars, workerVars
<1>0. TypeOK /\ Good(s) /\ Sound(s) /\ w[s].pc = "verdict"
      /\ UNCHANGED <<tx, evidence, open, file, gitlog>>
  BY DEF IInv, SInv, RecordVerdict
<1>1. PICK a \in open[s] :
        a.id = w[s].att /\ SetRow(s, VerdictRow(row[s], a, w[s].cat))
  BY DEF RecordVerdict
<1>2. /\ w'[s].pc = "replace" /\ w'[s].att = w[s].att /\ w'[s].new = w[s].new
      /\ w'[s].quiet = w[s].quiet /\ row'[s] = VerdictRow(row[s], a, w[s].cat)
      /\ \A x \in Sessions \ {s} : Still(x)
  BY <1>0, <1>1 DEF RecordVerdict, SetRow, Go, TypeOK, WorkerStates, Still
<1>3. /\ row'[s].token = row[s].token /\ row'[s].doc = row[s].doc
      /\ row'[s].gen = row[s].gen /\ row'[s].life = "failed" /\ ParkEarned(row'[s])
  <2>1. row[s] \in Rows /\ a \in Attempts /\ w[s].cat \in Failures \cup {None}
    BY <1>0, SessionTypes DEF WorkerStates
  <2> QED  BY <1>2, <2>1, VerdictKeeps, VerdictParks DEF KeepsClaim
<1>4. /\ a \in Owned(s) /\ a.plan = w[s].new /\ a.plan.kind = "placeholder"
      /\ Owned(s)' = Owned(s) /\ Planned(s)' = Planned(s)
  <2>1. w[s].new.kind = "placeholder" /\ w[s].new # NoDocument
    BY <1>0 DEF Sound, Writing, NoDocument, None
  <2>2. PICK b \in open[s] : b.id = w[s].att /\ b.plan = w[s].new
    BY <1>0 DEF Sound, Writing
  <2>3. b = a /\ b \in Owned(s)
    BY <1>0, <1>1, <2>1, <2>2, HolderOwns DEF Holding
  <2> QED  BY <1>0, <1>3, <2>1, <2>2, <2>3 DEF Owned, Planned
<1>5. ParkEarned(row[s])' /\ Documented(s)' /\ Living(s)'
  BY <1>0, <1>3, <1>4 DEF Sound, Documented, Living
<1>6. ~Imported(s) /\ ~Imported(s)'
  BY <1>0, <1>2 DEF Imported, Early
<1>7. Planning(s)'
  BY <1>0, <1>3, <1>4, <1>6 DEF Sound, Planning, Covers
<1>8. Reading(s)' /\ Writing(s)'
  BY <1>0, <1>2 DEF Sound, Reading, Writing
<1>9. Recorded(s)'
  BY <1>0, <1>2, <1>3, <1>6 DEF Sound, Recorded, Committed, Early
<1> QED  BY <1>0, <1>2, <1>5, <1>7, <1>8, <1>9, OneSound DEF Sound

\* The files a worker writes leave what is said of row and attempts.
LEMMA RowStaysSound ==
  ASSUME TypeOK, NEW s \in Sessions, Sound(s), w[s].pc \notin Early,
         tx'[s] = tx[s], evidence'[s] = evidence[s], open'[s] = open[s],
         row'[s] \in {row[s], ClearReservationRow(row[s])}
  PROVE  /\ Owned(s)' = Owned(s) /\ Planned(s)' = Planned(s) /\ ~Imported(s)
         /\ row'[s].doc = row[s].doc /\ row'[s].token = row[s].token
         /\ ParkEarned(row[s])' /\ Documented(s)' /\ Planning(s)' /\ Living(s)'
<1>1. KeepsClaim(row[s], row'[s]) /\ Idles(row[s], row'[s])
  BY SessionTypes, ReservationKeeps, ReservationIdles
<1>2. /\ row'[s].doc = row[s].doc /\ row'[s].token = row[s].token
      /\ row'[s].gen = row[s].gen
      /\ row'[s].life = "archived" => row[s].life = "archived"
      /\ row[s].token # 0 /\ row[s].life = "processing" => row'[s].life = "processing"
      /\ ParkEarned(row[s])'
  BY <1>1 DEF KeepsClaim, Idles, Sound
<1>3. /\ Owned(s)' = Owned(s) /\ Planned(s)' = Planned(s) /\ ~Imported(s)
  BY <1>2 DEF Owned, Planned, Imported
<1>4. Documented(s)' /\ Living(s)'
  BY <1>2, <1>3 DEF Sound, Documented, Living
<1>5. Planning(s)'
  BY <1>2, <1>3 DEF Sound, Planning, Covers
<1> QED  BY <1>2, <1>3, <1>4, <1>5

\* A worker that leaves the lock on an error says no more of its row.
LEMMA LeavesRow ==
  ASSUME TypeOK, NEW s \in Sessions, ErrorExit(s)
  PROVE  /\ row'[s] = ClearReservationRow(row[s]) /\ w'[s].pc = "idle"
         /\ \A x \in Sessions \ {s} : row'[x] = row[x] /\ w'[x] = w[x]
BY DEF ErrorExit, Exit, SetRow, TypeOK, Idle

\* The owner's plan reaches the file before it reaches the history or the row.
LEMMA ReplaceSound ==
  ASSUME IInv, TypeOK', SInv, NEW s \in Sessions, Replace(s)
  PROVE  SInv'
<1> USE DEF diskVars, hookVars, sweepVars, workerVars
<1>0. TypeOK /\ Good(s) /\ Sound(s) /\ w[s].pc = "replace" /\ w[s].pc \notin Early
      /\ UNCHANGED <<tx, evidence, open, gitlog>>
  BY DEF IInv, SInv, Replace, Early
<1>1. CASE FailWith(s, "archive-write-failed") /\ UNCHANGED <<file, row>>
  BY <1>0, <1>1, FailingStirs, AllStir
<1>2. PICK a \in open[s] : /\ a.id = w[s].att /\ a.plan = w[s].new
                           /\ a.git = (GitHistory /\ ~w[s].quiet)
  BY <1>0 DEF Sound, Writing
<1>3. /\ a \in Owned(s) /\ w[s].new # NoDocument /\ w[s].new.rev > 0
      /\ \/ NextRev(a.plan, row[s].doc) /\ a.git = GitHistory
         \/ SameRev(a.plan, row[s].doc) /\ ~a.git
  <2>1. w[s].new # NoDocument
    BY <1>0 DEF Good, FileFollowsWorker
  <2>2. a \in Owned(s)
    BY <1>0, <1>2, <2>1, HolderOwns DEF Holding
  <2>3. w[s].new.rev > 0 /\ ~Imported(s)
    BY <1>0, <1>2, <2>2 DEF Sound, Documented, Owned, Imported
  <2> QED  BY <1>0, <2>1, <2>2, <2>3 DEF Sound, Planning
<1>4. CASE /\ file' = [file EXCEPT ![s] = w[s].new]
           /\ Go(s, IF GitHistory /\ ~w[s].quiet THEN "commit" ELSE "complete")
           /\ UNCHANGED row
  <2>1. /\ w'[s].pc = (IF GitHistory /\ ~w[s].quiet THEN "commit" ELSE "complete")
        /\ w'[s].att = w[s].att /\ w'[s].new = w[s].new /\ w'[s].quiet = w[s].quiet
        /\ file'[s] = w[s].new /\ \A x \in Sessions \ {s} : Still(x)
    BY <1>0, <1>4 DEF Go, TypeOK, WorkerStates, Still
  <2>2. /\ Owned(s)' = Owned(s) /\ Planned(s)' = Planned(s) /\ ~Imported(s)
        /\ ParkEarned(row[s])' /\ Documented(s)' /\ Planning(s)' /\ Living(s)'
    BY <1>0, <1>4, RowStaysSound
  <2>3. Reading(s)' /\ Writing(s)'
    BY <1>0, <1>2, <1>3, <2>1, <2>2 DEF Reading, Writing, Owned
  <2>4. GitHistory /\ w'[s].pc = "complete" => Committed(s, w[s].new.rev)
    <3> SUFFICES ASSUME GitHistory, w'[s].pc = "complete"
                 PROVE  Committed(s, w[s].new.rev)
      OBVIOUS
    <3>1. SameRev(w[s].new, row[s].doc)
      BY <1>2, <1>3, <2>1
    <3>2. w[s].new.rev \in 1 .. row[s].doc.rev
      BY <1>0, <1>3, <3>1, SessionTypes DEF SameRev
    <3> QED  BY <1>0, <2>2, <3>2 DEF Sound, Recorded
  <2>5. Recorded(s)'
    BY <1>0, <1>4, <2>1, <2>2, <2>4 DEF Sound, Recorded, Committed
  <2> QED  BY <1>0, <2>1, <2>2, <2>3, <2>5, OneSound DEF Sound
<1>5. CASE /\ file' = [file EXCEPT ![s] = w[s].new]
           /\ ErrorExit(s)
  <2>1. /\ row'[s] = ClearReservationRow(row[s]) /\ w'[s].pc = "idle"
        /\ \A x \in Sessions \ {s} : Still(x)
    BY <1>0, <1>5, LeavesRow DEF TypeOK, Still
  <2>2. /\ row'[s].doc = row[s].doc /\ ~Imported(s)
        /\ ParkEarned(row[s])' /\ Documented(s)' /\ Planning(s)' /\ Living(s)'
    BY <1>0, <2>1, RowStaysSound
  <2>3. Reading(s)' /\ Writing(s)'
    BY <2>1 DEF Reading, Writing
  <2>4. Recorded(s)'
    BY <1>0, <2>1, <2>2 DEF Sound, Recorded, Committed
  <2> QED  BY <1>0, <2>1, <2>2, <2>3, <2>4, OneSound DEF Sound
<1> QED  BY <1>1, <1>4, <1>5 DEF Replace

\* The commit adds the one revision past the recorded one; a commit that fails
\* puts the recorded document back, or leaves the claim to be reconciled.
LEMMA CommitSound ==
  ASSUME IInv, TypeOK', SInv, NEW s \in Sessions, Commit(s)
  PROVE  SInv'
<1> USE DEF diskVars, hookVars, sweepVars, workerVars
<1>0. TypeOK /\ Good(s) /\ Sound(s) /\ w[s].pc = "commit" /\ w[s].pc \notin Early
      /\ UNCHANGED <<tx, evidence, open>>
  BY DEF IInv, SInv, Commit, Early
<1>1. PICK a \in open[s] : /\ a.id = w[s].att /\ a.plan = w[s].new
                           /\ a.git = (GitHistory /\ ~w[s].quiet)
  BY <1>0 DEF Sound, Writing
<1>2. /\ a \in Owned(s) /\ w[s].new # NoDocument /\ file[s] = w[s].new
      /\ GitHistory /\ ~w[s].quiet /\ ~Imported(s)
      /\ w[s].new.rev = row[s].doc.rev + 1
  <2>1. w[s].new # NoDocument /\ file[s] = w[s].new
    BY <1>0 DEF Good, FileFollowsWorker
  <2>2. a \in Owned(s)
    BY <1>0, <1>1, <2>1, HolderOwns DEF Holding
  <2>3. GitHistory /\ ~w[s].quiet /\ ~Imported(s)
    BY <1>0 DEF Sound, Writing, Imported
  <2>4. NextRev(a.plan, row[s].doc)
    BY <1>0, <1>1, <2>2, <2>3 DEF Sound, Planning
  <2> QED  BY <1>1, <2>1, <2>2, <2>3, <2>4 DEF NextRev
<1>3. /\ \A d \in gitlog[s] : d.rev <= row[s].doc.rev
      /\ \A n \in 1 .. row[s].doc.rev : Committed(s, n)
      /\ \A d, e \in gitlog[s] : d.rev = e.rev => d = e
      /\ \A d \in gitlog[s] : d.rev = row[s].doc.rev =>
           d.kind = row[s].doc.kind /\ d.ver <= row[s].doc.ver
  BY <1>0, <1>2 DEF Sound, Recorded
<1>4. CASE /\ CommitRevision(s, w[s].new.rev)
           /\ Go(s, "complete")
           /\ UNCHANGED <<file, row>>
  <2>1. /\ w'[s].pc = "complete" /\ w'[s].att = w[s].att /\ w'[s].new = w[s].new
        /\ \A x \in Sessions \ {s} : Still(x)
    BY <1>0, <1>4 DEF Go, TypeOK, WorkerStates, CommitRevision, Still
  <2>2. \A d \in gitlog[s] : d.rev # w[s].new.rev
    BY <1>0, <1>2, <1>3, SessionTypes
  <2>3. gitlog'[s] = gitlog[s] \cup {file[s]}
    BY <1>0, <1>4, <2>2 DEF CommitRevision, TypeOK
  <2>4. /\ Owned(s)' = Owned(s) /\ Planned(s)' = Planned(s)
        /\ ParkEarned(row[s])' /\ Documented(s)' /\ Planning(s)' /\ Living(s)'
    BY <1>0, <1>4, RowStaysSound
  <2>5. Reading(s)' /\ Writing(s)'
    BY <1>0, <1>1, <1>2, <2>1, <2>4 DEF Reading, Writing, Owned
  <2>6. Recorded(s)'
    <3>1. /\ \A d, e \in gitlog'[s] : d.rev = e.rev => d = e
          /\ \A d \in gitlog'[s] : d.rev <= row[s].doc.rev \/ d = file[s]
          /\ file[s].rev # row[s].doc.rev
      BY <1>0, <1>2, <1>3, <2>2, <2>3, SessionTypes
    <3>2. \A n \in 1 .. row[s].doc.rev : \E d \in gitlog'[s] : d.rev = n
      BY <1>3, <2>3 DEF Committed
    <3>3. \E d \in gitlog'[s] : d.rev = w[s].new.rev
      BY <1>2, <2>3
    <3>4. \A d \in gitlog'[s] : d.rev = row[s].doc.rev =>
            d.kind = row[s].doc.kind /\ d.ver <= row[s].doc.ver
      BY <1>3, <2>3, <3>1
    <3> QED
      BY <1>0, <1>1, <1>2, <1>4, <2>1, <2>4, <3>1, <3>2, <3>3, <3>4
      DEF Recorded, Committed, Early
  <2> QED  BY <1>0, <2>1, <2>4, <2>5, <2>6, OneSound DEF Sound
<1>5. ASSUME UNCHANGED gitlog, \A x \in Sessions \ {s} : file'[x] = file[x],
             \/ (\E c \in {"archive-git-busy", "archive-git-failed"} : FailWith(s, c))
                  /\ UNCHANGED row
             \/ ErrorExit(s)
      PROVE  SInv'
  <2>1. /\ w'[s].pc \in {"fail", "idle"}
        /\ row'[s] \in {row[s], ClearReservationRow(row[s])}
        /\ \A x \in Sessions \ {s} : Still(x)
    BY <1>0, <1>5, LeavesRow DEF FailWith, TypeOK, WorkerStates, Still
  <2>2. /\ row'[s].doc = row[s].doc
        /\ ParkEarned(row[s])' /\ Documented(s)' /\ Planning(s)' /\ Living(s)'
    BY <1>0, <2>1, RowStaysSound
  <2>3. Reading(s)' /\ Writing(s)'
    BY <2>1 DEF Reading, Writing
  <2>4. Recorded(s)'
    BY <1>3, <1>5, <2>1, <2>2 DEF Recorded, Committed
  <2> QED  BY <1>0, <2>1, <2>2, <2>3, <2>4, OneSound DEF Sound
<1>6. (Rollback(s) \/ UNCHANGED file) => \A x \in Sessions \ {s} : file'[x] = file[x]
  BY <1>0 DEF Rollback, TypeOK
<1> QED  BY <1>4, <1>5, <1>6 DEF Commit

\* What a worker completes under its claim is the plan the owner stored.
LEMMA CompletionSupersedes ==
  ASSUME TypeOK, NEW s \in Sessions, Good(s), Sound(s), w[s].pc = "complete",
         NEW a \in open[s], a.id = w[s].att, row[s].token = a.id
  PROVE  /\ a \in Owned(s) /\ a.plan = w[s].new /\ file[s] = w[s].new
         /\ w[s].new.rev > 0 /\ w[s].new.kind # None
         /\ w[s].new.ver >= row[s].doc.ver /\ w[s].new.ver <= tx[s].ver
         /\ Covers(s, a, w[s].new.ver)
         /\ NextRev(w[s].new, row[s].doc) \/ SameRev(w[s].new, row[s].doc)
              \/ w[s].new = row[s].doc
<1>1. /\ a \in Owned(s) /\ a.plan = w[s].new /\ file[s] = w[s].new
  <2>1. PICK p \in Planned(s) : p.id = w[s].att /\ p.plan = w[s].new
    BY DEF Sound, Writing
  <2>2. p \in Owned(s)
    BY <2>1 DEF Owned
  <2>3. p = a
    BY <2>1, <2>2, OwnerIsLatest
  <2> QED  BY <2>1, <2>2, <2>3 DEF Good, FileFollowsWorker
<1>2. w[s].new.rev > 0 /\ w[s].new.kind # None
  BY <1>1 DEF Sound, Documented, Owned
<1>3. Imported(s) => w[s].new = row[s].doc
  BY <1>1 DEF Imported
<1> QED  BY <1>1, <1>2, <1>3 DEF Sound, Planning

\* A completion records the owner's plan: the history holds it, nothing past
\* it, and "archived" is said of it only if no evidence came under the claim.
LEMMA CompleteSound ==
  ASSUME IInv, TypeOK', SInv, NEW s \in Sessions, Complete(s)
  PROVE  SInv'
<1> USE DEF diskVars, hookVars, sweepVars, workerVars
<1>0. TypeOK /\ Good(s) /\ Sound(s) /\ w[s].pc = "complete"
      /\ UNCHANGED <<tx, evidence, file, gitlog>>
      /\ row[s] \in Rows /\ w[s].new \in Documents /\ w[s].cat \in Failures \cup {None}
  BY SessionTypes DEF IInv, SInv, Complete, WorkerStates
<1>1. PICK a \in open[s] :
        /\ a.id = w[s].att
        /\ IF row[s].token = a.id
           THEN LET r == CompleteRow(row[s], a, w[s].new)
                IN  /\ SetRow(s, IF w[s].new.kind = "placeholder"
                                 THEN VerdictRow(r, a, w[s].cat) ELSE r)
                    /\ open' = [open EXCEPT ![s] = @ \ {a}]
                    /\ Exit(s)
           ELSE ErrorExit(s) /\ UNCHANGED open
  BY DEF Complete
<1>2. CASE row[s].token # a.id
  BY <1>0, <1>1, <1>2, ErrorExitStirs, AllStir
<1>3. CASE row[s].token = a.id
  <2> DEFINE r == CompleteRow(row[s], a, w[s].new)
             q == IF w[s].new.kind = "placeholder"
                  THEN VerdictRow(r, a, w[s].cat) ELSE r
  <2>1. a \in Attempts
    BY <1>0, SessionTypes
  <2>2. /\ r \in Rows /\ r.token = 0 /\ r.doc = w[s].new /\ r.gen = row[s].gen
        /\ r.life = IF row[s].gen = a.gen THEN "archived" ELSE "revision-pending"
    <3>1. r \in Rows /\ r.token = 0 /\ r.doc = w[s].new
      BY <1>0, <2>1, CompleteEnds DEF EndsClaim, Rows
    <3> QED  BY <1>0, <2>1, <3>1, CompleteSays
  <2> HIDE DEF r
  <2>3. /\ q.token = 0 /\ q.doc = w[s].new /\ q.gen = row[s].gen /\ ParkEarned(q)
        /\ q.life = "archived" =>
             row[s].gen = a.gen /\ w[s].new.kind # "placeholder"
    <3>1. CASE w[s].new.kind = "placeholder"
      <4>1. KeepsClaim(r, q) /\ q.gen = r.gen /\ q.life = "failed" /\ ParkEarned(q)
        BY <1>0, <2>1, <2>2, <3>1, VerdictKeeps, VerdictParks
      <4> QED  BY <2>2, <4>1 DEF KeepsClaim
    <3>2. CASE w[s].new.kind # "placeholder"
      <4>1. q = r
        BY <3>2
      <4>2. r.life # "failed"
        BY <2>2
      <4> QED  BY <2>2, <3>2, <4>1, <4>2 DEF ParkEarned
    <3> QED  BY <3>1, <3>2
  <2>4. /\ row' = [row EXCEPT ![s] = q] /\ open' = [open EXCEPT ![s] = @ \ {a}]
        /\ w' = [w EXCEPT ![s] = Idle]
    BY <1>1, <1>3 DEF SetRow, Exit, r
  <2> HIDE DEF q
  <2>5. /\ row'[s] = q /\ open'[s] \subseteq open[s] /\ w'[s].pc = "idle"
        /\ \A x \in Sessions \ {s} : Still(x)
    BY <1>0, <2>4 DEF TypeOK, Idle, Still
  <2>6. /\ a \in Owned(s) /\ a.plan = w[s].new /\ file[s] = w[s].new
    BY <1>0, <1>1, <1>3, CompletionSupersedes
  <2>7. /\ w[s].new.rev > 0 /\ w[s].new.kind # None
        /\ w[s].new.ver >= row[s].doc.ver /\ w[s].new.ver <= tx[s].ver
        /\ Covers(s, a, w[s].new.ver)
        /\ NextRev(w[s].new, row[s].doc) \/ SameRev(w[s].new, row[s].doc)
             \/ w[s].new = row[s].doc
    BY <1>0, <1>1, <1>3, CompletionSupersedes
  <2>8. Owned(s)' = {} /\ Planned(s)' \subseteq Planned(s)
    BY <1>0, <2>3, <2>5, SessionTypes DEF Owned, Planned
  <2>9. ParkEarned(row[s])' /\ Documented(s)'
    BY <1>0, <2>3, <2>5, <2>7, <2>8 DEF Sound, Documented, Numbered
  <2>10. Planning(s)'
    BY <1>0, <2>3, <2>5, <2>8 DEF Sound, Planning
  <2>11. Living(s)'
    <3>1. q.life = "archived" => w[s].new.kind = "real" /\ w[s].new.ver >= evidence[s]
      BY <1>0, <2>3, <2>7 DEF Covers, Documents
    <3> QED  BY <1>0, <2>3, <2>5, <3>1 DEF Living
  <2>12. Reading(s)' /\ Writing(s)'
    BY <2>5 DEF Reading, Writing
  <2>13. Recorded(s)'
    <3> SUFFICES ASSUME GitHistory PROVE Recorded(s)'
      BY DEF Recorded
    <3>1. /\ w[s].new.rev \in Nat /\ row[s].doc.rev \in Nat /\ w[s].new.ver \in Nat
          /\ row[s].doc.ver \in Nat
          /\ w[s].new.rev \in {row[s].doc.rev, row[s].doc.rev + 1}
          /\ \A d \in gitlog[s] : d.rev \in Nat /\ d.ver \in Nat
      BY <1>0, <2>7, SessionTypes DEF NextRev, SameRev
    <3>2. /\ Committed(s, w[s].new.rev)
          /\ \A n \in 1 .. row[s].doc.rev : Committed(s, n)
          /\ \A d, e \in gitlog[s] : d.rev = e.rev => d = e
          /\ \A d \in gitlog[s] : d.rev = row[s].doc.rev =>
               d.kind = row[s].doc.kind /\ d.ver <= row[s].doc.ver
          /\ \A d \in gitlog[s] : d.rev <= row[s].doc.rev \/ d = w[s].new
      BY <1>0, <1>1, <1>3, <2>6 DEF Sound, Recorded
    <3>3. \A n \in 1 .. w[s].new.rev : Committed(s, n)
      <4> TAKE n \in 1 .. w[s].new.rev
      <4>1. n \in 1 .. row[s].doc.rev \/ n = w[s].new.rev
        BY <3>1
      <4> QED  BY <3>2, <4>1
    <3>4. \A d \in gitlog[s] : d.rev <= w[s].new.rev
      BY <3>1, <3>2
    <3>5. ASSUME NEW d \in gitlog[s], d.rev = w[s].new.rev
          PROVE  d.kind = w[s].new.kind /\ d.ver <= w[s].new.ver
      <4>1. CASE d = w[s].new
        BY <3>1, <4>1
      <4>2. CASE d.rev <= row[s].doc.rev
        <5>1. d.rev = row[s].doc.rev /\ ~NextRev(w[s].new, row[s].doc)
          BY <3>1, <3>5, <4>2 DEF NextRev
        <5>2. d.kind = row[s].doc.kind /\ d.ver <= row[s].doc.ver
          BY <3>2, <5>1
        <5>3. w[s].new.kind = row[s].doc.kind
          BY <2>7, <5>1 DEF SameRev
        <5> QED  BY <2>7, <3>1, <5>2, <5>3
      <4> QED  BY <3>2, <4>1, <4>2
    <3> QED
      BY <1>0, <2>3, <2>5, <3>2, <3>3, <3>4, <3>5 DEF Recorded, Committed
  <2> QED
    BY <1>0, <2>5, <2>9, <2>10, <2>11, <2>12, <2>13, OneSound DEF Sound
<1> QED  BY <1>2, <1>3

\* The settlements say "archived" only of a summary that was just found to
\* cover the transcript the worker read under its claim.
LEMMA SettleSound ==
  ASSUME IInv, TypeOK', SInv, NEW s \in Sessions, Settle(s)
  PROVE  SInv'
<1> USE DEF diskVars, hookVars, sweepVars, workerVars
<1>0. TypeOK /\ Good(s) /\ Sound(s)
      /\ w[s].pc \in {"defer", "nochange", "unworthy", "fail"} /\ w[s].pc \notin Early
      /\ UNCHANGED <<tx, evidence, file, gitlog>>
      /\ row[s] \in Rows /\ w[s].cat \in Failures \cup {None}
  BY SessionTypes DEF IInv, SInv, Settle, Early, WorkerStates
<1>1. w'[s].pc = "idle" /\ \A x \in Sessions \ {s} : w'[x] = w[x]
  BY <1>0 DEF Settle, Exit, TypeOK, Idle
<1>2. ASSUME NEW a \in open[s], NEW q, SetRow(s, q),
             open' = [open EXCEPT ![s] = @ \ {a}], EndsClaim(row[s], q),
             q.gen = row[s].gen, ParkEarned(q),
             q.life = "archived" =>
               row[s].doc.kind = "real" /\ row[s].doc.ver >= evidence[s]
      PROVE  SInv'
  <2>1. /\ row'[s] = q /\ open'[s] \subseteq open[s]
        /\ \A x \in Sessions \ {s} : Still(x)
    BY <1>0, <1>1, <1>2 DEF SetRow, TypeOK, Still
  <2>2. Sound(s)'
    BY <1>0, <1>1, <1>2, <2>1, EndedIsSound DEF EndsClaim
  <2> QED  BY <1>0, <2>1, <2>2, OneSound
<1>3. CASE AbandonLatest(s, "deferred")
  <2>1. PICK a \in open[s] :
          /\ SetRow(s, AbandonRow(row[s], a, "deferred"))
          /\ open' = [open EXCEPT ![s] = @ \ {a}]
    BY <1>3 DEF AbandonLatest
  <2>2. a \in Attempts /\ "deferred" \in Labels
    BY <1>0, SessionTypes DEF Labels
  <2> DEFINE q == AbandonRow(row[s], a, "deferred")
  <2>3. EndsClaim(row[s], q)
    BY <1>0, <2>2, AbandonEnds
  <2>4. q.gen = row[s].gen /\ q.life \in Pending
    BY <1>0, <2>2 DEF AbandonRow, Release, Rows, Attempts
  <2> HIDE DEF q
  <2>5. ParkEarned(q) /\ q.life # "archived"
    BY <2>4 DEF ParkEarned, Pending
  <2>6. SetRow(s, q)
    BY <2>1 DEF q
  <2> QED  BY <1>2, <2>1, <2>3, <2>4, <2>5, <2>6
<1>4. ASSUME NEW a \in open[s], a.id = w[s].att, open' = [open EXCEPT ![s] = @ \ {a}],
             \/ w[s].pc = "nochange" /\ SetRow(s, NoChangeRow(row[s], a))
             \/ w[s].pc = "unworthy" /\ SetRow(s, NotWorthyRow(row[s], a))
             \/ w[s].pc = "fail" /\ SetRow(s, FailRow(row[s], a, w[s].cat))
      PROVE  SInv'
  <2>1. row[s].token = a.id /\ a \in Attempts
    BY <1>0, <1>4, HolderOwns, SessionTypes DEF Holding
  <2>2. CASE w[s].pc = "nochange" /\ SetRow(s, NoChangeRow(row[s], a))
    <3> DEFINE q == NoChangeRow(row[s], a)
    <3>1. EndsClaim(row[s], q)
      BY <1>0, <2>1, SettlementEnds
    <3>2. /\ q.gen = row[s].gen /\ q.life # "failed"
          /\ q.life = "archived" => row[s].gen = a.gen
      BY <1>0, <2>1, SettledSays
    <3> HIDE DEF q
    <3>3. row[s].doc.kind = "real" /\ (row[s].gen = a.gen => row[s].doc.ver >= evidence[s])
      BY <1>0, <1>4, <2>2 DEF Sound, Reading, Covers
    <3>4. SetRow(s, q) /\ ParkEarned(q)
      BY <2>2, <3>2 DEF q, ParkEarned
    <3> QED  BY <1>2, <1>4, <3>1, <3>2, <3>3, <3>4
  <2>3. CASE SetRow(s, NotWorthyRow(row[s], a))
    <3> DEFINE q == NotWorthyRow(row[s], a)
    <3>1. EndsClaim(row[s], q)
      BY <1>0, <2>1, SettlementEnds
    <3>2. q.gen = row[s].gen /\ q.life = "observed"
      BY <1>0, <2>1, SettledSays
    <3> HIDE DEF q
    <3>3. SetRow(s, q) /\ ParkEarned(q)
      BY <2>3, <3>2 DEF q, ParkEarned
    <3> QED  BY <1>2, <1>4, <3>1, <3>2, <3>3
  <2>4. CASE SetRow(s, FailRow(row[s], a, w[s].cat))
    <3> DEFINE q == FailRow(row[s], a, w[s].cat)
    <3>1. EndsClaim(row[s], q)
      BY <1>0, <2>1, SettlementEnds
    <3>2. q.gen = row[s].gen /\ q.life = "failed" /\ ParkEarned(q)
      BY <1>0, <2>1, FailParks
    <3> HIDE DEF q
    <3>3. SetRow(s, q)
      BY <2>4 DEF q
    <3> QED  BY <1>2, <1>4, <3>1, <3>2, <3>3
  <2> QED  BY <1>4, <2>2, <2>3, <2>4
<1> QED  BY <1>3, <1>4 DEF Settle

\* A lease that runs out changes neither what an attempt planned nor its claim.
LEMMA LeaseSound ==
  ASSUME IInv, TypeOK', SInv, NEW s \in Sessions, LeaseExpires(s)
  PROVE  SInv'
<1> USE DEF diskVars, hookVars, sweepVars
<1>0. TypeOK /\ Sound(s) /\ UNCHANGED <<tx, evidence, row, file, gitlog, w>>
  BY DEF IInv, SInv, LeaseExpires
<1>1. PICK a \in open[s] :
        open' = [open EXCEPT ![s] = (@ \ {a}) \cup {[a EXCEPT !.live = FALSE]}]
  BY DEF LeaseExpires
<1> DEFINE b == [a EXCEPT !.live = FALSE]
<1>2. /\ b.id = a.id /\ b.gen = a.gen /\ b.plan = a.plan /\ b.git = a.git
  BY <1>0, SessionTypes DEF Attempts
<1>3. open'[s] = (open[s] \ {a}) \cup {b} /\ \A x \in Sessions \ {s} : Still(x)
  BY <1>0, <1>1 DEF TypeOK, Still
<1> HIDE DEF b
<1>4. /\ \A x \in open'[s] : \E y \in open[s] :
           x.id = y.id /\ x.gen = y.gen /\ x.plan = y.plan /\ x.git = y.git
      /\ \A y \in open[s] : \E x \in open'[s] :
           x.id = y.id /\ x.gen = y.gen /\ x.plan = y.plan /\ x.git = y.git
  BY <1>2, <1>3
<1>5. /\ \A x \in Owned(s)' : \E y \in Owned(s) :
           x.id = y.id /\ x.gen = y.gen /\ x.plan = y.plan /\ x.git = y.git
      /\ \A y \in Owned(s) : \E x \in Owned(s)' :
           x.id = y.id /\ x.gen = y.gen /\ x.plan = y.plan /\ x.git = y.git
  BY <1>0, <1>4 DEF Owned, Planned
<1>6. /\ \A x \in Planned(s)' : \E y \in Planned(s) :
           x.id = y.id /\ x.gen = y.gen /\ x.plan = y.plan /\ x.git = y.git
      /\ \A y \in Planned(s) : \E x \in Planned(s)' :
           x.id = y.id /\ x.gen = y.gen /\ x.plan = y.plan /\ x.git = y.git
  BY <1>4 DEF Planned
<1>7. Imported(s) => Imported(s)'
  BY <1>0, <1>5 DEF Imported
<1>8. ParkEarned(row[s])' /\ Documented(s)' /\ Living(s)'
  BY <1>0, <1>5, <1>6 DEF Sound, Documented, Living
<1>9. Planning(s)'
  <2>1. \A x \in open'[s] : x.gen <= row[s].gen
    BY <1>0, <1>4 DEF Sound, Planning
  <2>2. ASSUME NEW x \in Owned(s)'
        PROVE  /\ x.plan.ver >= row[s].doc.ver /\ x.plan.ver <= tx[s].ver
               /\ row[s].gen = x.gen => x.plan.ver >= evidence[s]
               /\ \/ NextRev(x.plan, row[s].doc) /\ x.git = GitHistory
                  \/ SameRev(x.plan, row[s].doc) /\ ~x.git
                  \/ Imported(s)
    <3>1. PICK y \in Owned(s) :
            x.id = y.id /\ x.gen = y.gen /\ x.plan = y.plan /\ x.git = y.git
      BY <1>5, <2>2
    <3> QED  BY <1>0, <3>1 DEF Sound, Planning, Covers
  <2> QED  BY <1>0, <1>7, <2>1, <2>2 DEF Planning, Covers
<1>10. Reading(s)'
  BY <1>0, <1>4 DEF Sound, Reading, Covers
<1>11. Writing(s)'
  <2>1. /\ w[s].pc = "verdict" => w[s].new.kind = "placeholder"
        /\ w[s].pc = "commit" => GitHistory /\ ~w[s].quiet
    BY <1>0 DEF Sound, Writing
  <2>2. w[s].pc \in {"verdict", "replace", "commit"} =>
          \E x \in open'[s] : /\ x.id = w[s].att /\ x.plan = w[s].new
                              /\ x.git = (GitHistory /\ ~w[s].quiet)
    BY <1>0, <1>4 DEF Sound, Writing
  <2>3. w[s].pc \in {"recommit", "complete"} =>
          \E x \in Planned(s)' : x.id = w[s].att /\ x.plan = w[s].new
    BY <1>0, <1>6 DEF Sound, Writing
  <2>4. w[s].pc = "recommit" => \E x \in Planned(s)' : x.id = w[s].att /\ x.git
    BY <1>0, <1>6 DEF Sound, Writing
  <2> QED  BY <1>0, <2>1, <2>2, <2>3, <2>4 DEF Writing
<1>12. Recorded(s)'
  BY <1>0, <1>5, <1>7 DEF Sound, Recorded, Committed
<1> QED  BY <1>0, <1>3, <1>8, <1>9, <1>10, <1>11, <1>12, OneSound DEF Sound

-----------------------------------------------------------------------------
(* The invariant is inductive.                                              *)

\* Nothing is planned, recorded or committed at first.
LEMMA InitSound == Init => SInv
<1> SUFFICES ASSUME Init, NEW s \in Sessions PROVE Sound(s)
  BY DEF SInv
<1>1. /\ row[s] = NoRow /\ open[s] = {} /\ gitlog[s] = {} /\ w[s] = Idle
      /\ tx[s].ver = 0 /\ evidence[s] = 0
  BY DEF Init
<1>2. ParkEarned(row[s])
  BY <1>1 DEF ParkEarned, NoRow
<1>3. Owned(s) = {} /\ Planned(s) = {}
  BY <1>1 DEF Owned, Planned
<1>4. Documented(s) /\ Planning(s) /\ Living(s)
  BY <1>1, <1>3 DEF Documented, Planning, Living, Numbered, NoRow, NoDocument
<1>5. Reading(s) /\ Writing(s)
  BY <1>1 DEF Reading, Writing, Idle
<1>6. Recorded(s)
  BY <1>1 DEF Recorded, NoRow, NoDocument, Idle
<1> QED  BY <1>2, <1>4, <1>5, <1>6 DEF Sound

\* Every step of a worker keeps it.
LEMMA WorkerSound ==
  ASSUME IInv, TypeOK', SInv, NEW s \in Sessions, Worker(s)
  PROVE  SInv'
BY WorkerStartsSound, ReconcileSound, RecommitSound, AbandonSound, LiftGateSound,
   ClaimSound, LoadSound, SummarizeSound, StorePlanSound, RecordVerdictSound,
   ReplaceSound, CommitSound, CompleteSound, SettleSound
DEF Worker

\* So does every step.
LEMMA StepSound == IInv /\ IInv' /\ SInv /\ [Next]_vars => SInv'
<1> SUFFICES ASSUME IInv, IInv', SInv, [Next]_vars PROVE SInv'
  OBVIOUS
<1>1. TypeOK /\ TypeOK' /\ \A s \in Sessions : Sound(s)
  BY DEF IInv, SInv
<1>2. ASSUME NEW s \in Sessions, Agent(s) PROVE SInv'
  BY <1>1, <1>2, AgentStirs, AllStir
<1>3. ASSUME NEW s \in Sessions, Sweep(s) \/ Operator(s) PROVE SInv'
  BY <1>1, <1>3, SweepStirs, AllStir
<1>4. ASSUME NEW s \in Sessions, Time(s) PROVE SInv'
  <2>1. CASE BackoffElapses(s) \/ ReservationGoesStale(s)
    BY <1>1, <2>1, WaitingStirs, AllStir
  <2>2. CASE LeaseExpires(s)
    BY <1>1, <2>2, LeaseSound
  <2> QED  BY <1>4, <2>1, <2>2 DEF Time
<1>5. ASSUME NEW s \in Sessions, Worker(s) PROVE SInv'
  BY <1>1, <1>5, WorkerSound
<1>6. CASE \/ SweepBegins
           \/ \E s \in Sessions : WorkerFindsLockBusy(s) \/ WorkerDies(s)
           \/ UNCHANGED vars
  BY <1>1, <1>6, RestStirs, AllStir
<1> QED  BY <1>2, <1>3, <1>4, <1>5, <1>6 DEF Next

\* Documents, plans, evidence and history agree, forever.
THEOREM RecordsAreSound == Spec => []SInv
BY InitInv, StepInv, InitSound, StepSound, PTL DEF Spec

\* A failed row is parked exactly when its failure is permanent or repeated up
\* to the threshold, whatever lifts, verdicts and evidence came between.
THEOREM ParksAreEarned == Spec => []ParkIsEarned
<1>1. SInv => ParkIsEarned
  BY DEF SInv, Sound, ParkEarned, ParkIsEarned
<1> QED  BY <1>1, RecordsAreSound, PTL

\* A row says "archived" only of a revision that covers the transcript as of
\* the last evidence recorded, including what came while a worker held it.
THEOREM ArchivesCoverEvidence == Spec => []ArchivedCoversEvidence
<1>1. SInv => ArchivedCoversEvidence
  BY DEF SInv, Sound, Living, ArchivedCoversEvidence
<1> QED  BY <1>1, RecordsAreSound, PTL

\* It says so only of a summary: no import, reconciliation, re-read or
\* completion turns a placeholder into an archive.
THEOREM PlaceholdersStayPlaceholders == Spec => []NeverLaundered
<1>1. SInv => NeverLaundered
  BY DEF SInv, Sound, Living, NeverLaundered
<1> QED  BY <1>1, RecordsAreSound, PTL

\* With a history, every recorded revision is committed once, or is the plan
\* that its owner left on disk, and the commit says what the row says.
THEOREM HistoryIsComplete == Spec => []GitRecordsEveryRevision
<1>1. ASSUME SInv, IInv, GitHistory, NEW s \in Sessions
      PROVE  /\ \A d, e \in gitlog[s] : d.rev = e.rev => d = e
             /\ \A n \in 1 .. row[s].doc.rev :
                  \/ \E d \in gitlog[s] : d.rev = n
                  \/ \E a \in open[s] : /\ a.id = row[s].token /\ a.git
                                        /\ a.plan = file[s] /\ a.plan.rev = n
             /\ \A d \in gitlog[s] : d.rev = row[s].doc.rev =>
                  d.kind = row[s].doc.kind /\ d.ver <= row[s].doc.ver
  <2>1. Recorded(s)
    BY <1>1 DEF SInv, Sound
  <2>2. CASE Imported(s)
    <3>1. PICK a \in Owned(s) : a.plan = row[s].doc /\ a.git = GitHistory
      BY <2>2 DEF Imported
    <3>2. /\ a \in open[s] /\ a.id = row[s].token /\ a.git
          /\ a.plan = file[s] /\ a.plan.rev = 1 /\ row[s].doc.rev = 1
      BY <1>1, <2>2, <3>1 DEF Imported, Owned, Planned
    <3>3. \A n \in 1 .. row[s].doc.rev : n = 1
      BY <3>2
    <3> QED  BY <1>1, <2>1, <3>2, <3>3 DEF Recorded
  <2>3. CASE \A n \in 1 .. row[s].doc.rev : Committed(s, n)
    BY <1>1, <2>1, <2>3 DEF Recorded, Committed
  <2> QED  BY <1>1, <2>1, <2>2, <2>3 DEF Recorded
<1>2. SInv /\ IInv => GitRecordsEveryRevision
  BY <1>1 DEF GitRecordsEveryRevision
<1> QED  BY <1>2, RecordsAreSound, Invariance, PTL

-----------------------------------------------------------------------------
(* The pipeline implements SessionPromise, as long as the operator settles  *)
(* no session as lost: the lift of such a verdict may find the row archived *)
(* since, and withdraws that without evidence.                              *)

\* Nothing is given up for lost, nor about to be.
NoneLost == worklist.lost = {} /\ \A s \in Sessions : ~row[s].lost

\* The one session a step may say something new of.
OnlyOne(s) == \A x \in Sessions \ {s} : row'[x] = row[x] /\ evidence'[x] = evidence[x]

\* No statement but the settlement of a lost transcript gives one up.
LEMMA LostKept ==
  ASSUME NEW r \in Rows, NEW b \in BOOLEAN, NEW c \in BOOLEAN
  PROVE  /\ AgentStopRow(r, b).lost = r.lost
         /\ SessionEndRow(r, b, c).lost = r.lost
         /\ MarkInterruptedRow(r).lost = r.lost /\ AttachRow(r).lost = r.lost
         /\ RescueRow(r).lost = r.lost
BY DEF AgentStopRow, SessionEndRow, MarkInterruptedRow, AttachRow, RescueRow, Rows

\* Reservations, deferrals and lifts do not either.
LEMMA LiftsGiveNoneUp ==
  ASSUME NEW r \in Rows
  PROVE  /\ ReserveRow(r).lost = r.lost /\ ClearReservationRow(r).lost = r.lost
         /\ LiftFailurePark(r).lost = r.lost /\ LiftSourceLimitPark(r).lost = r.lost
         /\ ForceLift(r).lost = r.lost /\ DeferRow(r).lost = r.lost
         /\ ~r.lost => ~LiftLostRow(r).lost
<1>1. /\ ReserveRow(r).lost = r.lost /\ ClearReservationRow(r).lost = r.lost
      /\ DeferRow(r).lost = r.lost /\ Unpark(r).lost = r.lost
  BY DEF ReserveRow, ClearReservationRow, DeferRow, Unpark, ResetStreak, Rows
<1> QED
  BY <1>1 DEF LiftFailurePark, LiftSourceLimitPark, ForceLift, LiftLostRow

\* Nor do the worker's statements, from its import to its completion.
LEMMA WorkerGivesNoneUp ==
  ASSUME NEW r \in Rows, NEW a, NEW id, NEW e, NEW d
  PROVE  /\ ClaimRow(r, id).lost = r.lost /\ AbandonRow(r, a, e).lost = r.lost
         /\ FailRow(r, a, e).lost = r.lost /\ VerdictRow(r, a, e).lost = r.lost
         /\ CompleteRow(r, a, d).lost = r.lost /\ NoChangeRow(r, a).lost = r.lost
         /\ NotWorthyRow(r, a).lost = r.lost /\ ImportRow(r, d).lost = r.lost
<1>1. /\ ClaimRow(r, id).lost = r.lost /\ AbandonRow(r, a, e).lost = r.lost
  BY DEF ClaimRow, AbandonRow, Release, Rows
<1>2. /\ FailRow(r, a, e).lost = r.lost /\ VerdictRow(r, a, e).lost = r.lost
  BY DEF FailRow, VerdictRow, ParkedRow, Release, Rows
<1>3. /\ CompleteRow(r, a, d).lost = r.lost /\ NoChangeRow(r, a).lost = r.lost
      /\ NotWorthyRow(r, a).lost = r.lost
  BY DEF CompleteRow, NoChangeRow, NotWorthyRow, Settled, ResetStreak, Release, Rows
<1>4. ImportRow(r, d).lost = r.lost
  BY DEF ImportRow, ParkedRow, Rows
<1> QED  BY <1>1, <1>2, <1>3, <1>4

\* An unlocked step writes one row and gives none up.
LEMMA UnlockedKeepsHope ==
  ASSUME TypeOK, NoneLost, "settle" \notin Env, NEW s \in Sessions,
         Agent(s) \/ Time(s) \/ Sweep(s) \/ Operator(s)
  PROVE  OnlyOne(s) /\ ~row'[s].lost /\ worklist'.lost = {}
<1> USE DEF diskVars, hookVars, sweepVars
<1>0. /\ row[s] \in Rows /\ ~row[s].lost /\ worklist.lost = {}
      /\ row \in [Sessions -> Rows] /\ evidence \in [Sessions -> Nat]
      /\ worklist \in [stale : SUBSET Sessions, unresolved : SUBSET Sessions,
                       observed : SUBSET Sessions, lost : SUBSET Sessions]
  BY SessionTypes DEF NoneLost, TypeOK
<1> DEFINE Others == \A x \in Sessions \ {s} : row'[x] = row[x]
           OldEvidence == \A x \in Sessions \ {s} : evidence'[x] = evidence[x]
<1>1. ASSUME NEW q, ~q.lost, SetRow(s, q)
      PROVE  ~row'[s].lost /\ Others
  BY <1>0, <1>1 DEF SetRow
<1>2. ASSUME NEW r \in Rows, ~r.lost, NEW reserves, HandOff(s, r, reserves)
      PROVE  ~row'[s].lost /\ Others
  <2>1. ~ReserveRow(r).lost /\ ~ClearReservationRow(r).lost
    BY <1>2, LiftsGiveNoneUp
  <2> QED  BY <1>1, <1>2, <2>1 DEF HandOff
<1>3. ASSUME NEW r \in {MarkInterruptedRow(row[s]), AttachRow(row[s]), RescueRow(row[s])}
      PROVE  r \in Rows /\ ~r.lost
  BY <1>0, EvidenceKeeps, LostKept, ZenonT(60) DEF KeepsClaim
<1>4. CASE Agent(s)
  <2>1. worklist' = worklist
    BY <1>4 DEF Agent, AgentStop, LateAgentStop, SessionEnd, WriteUnreported,
                TranscriptVanishes, TranscriptReturns
  <2>2. OldEvidence
    BY <1>0, <1>4 DEF Agent, AgentStop, LateAgentStop, SessionEnd, WriteUnreported,
                      TranscriptVanishes, TranscriptReturns
  <2>3. CASE AgentStop(s) \/ LateAgentStop(s)
    <3>1. \E b \in BOOLEAN : SetRow(s, AgentStopRow(row[s], b))
      BY <2>3 DEF AgentStop, LateAgentStop
    <3>2. PICK b \in BOOLEAN : SetRow(s, AgentStopRow(row[s], b))
      BY <3>1
    <3>3. ~AgentStopRow(row[s], b).lost
      BY <1>0, LostKept
    <3> QED  BY <1>0, <1>1, <2>1, <2>2, <3>2, <3>3 DEF OnlyOne
  <2>4. CASE SessionEnd(s)
    <3>1. PICK b \in BOOLEAN, c \in BOOLEAN :
            HandOff(s, SessionEndRow(row[s], b, c),
                    Reservable(SessionEndRow(row[s], b, c), FALSE, FALSE))
      BY <2>4 DEF SessionEnd
    <3> DEFINE r == SessionEndRow(row[s], b, c)
    <3>2. r \in Rows /\ ~r.lost
      <4>1. KeepsClaim(row[s], r)
        BY <1>0, EvidenceKeeps
      <4>2. r.lost = row[s].lost
        BY <1>0, LostKept
      <4> QED  BY <1>0, <4>1, <4>2 DEF KeepsClaim
    <3>3. HandOff(s, r, Reservable(r, FALSE, FALSE))
      BY <3>1
    <3> HIDE DEF r
    <3> QED  BY <1>0, <1>2, <2>1, <2>2, <3>2, <3>3 DEF OnlyOne
  <2>5. CASE WriteUnreported(s) \/ TranscriptVanishes(s) \/ TranscriptReturns(s)
    BY <1>0, <2>1, <2>2, <2>5
    DEF WriteUnreported, TranscriptVanishes, TranscriptReturns, OnlyOne
  <2> QED  BY <1>4, <2>3, <2>4, <2>5 DEF Agent
<1>5. CASE Time(s)
  <2>1. worklist' = worklist /\ evidence' = evidence
    BY <1>5 DEF Time, BackoffElapses, ReservationGoesStale, LeaseExpires
  <2>2. CASE BackoffElapses(s)
    <3>1. ~[row[s] EXCEPT !.nextRetry = "now"].lost
      BY <1>0 DEF Rows
    <3> QED  BY <1>0, <1>1, <2>1, <2>2, <3>1 DEF BackoffElapses, OnlyOne
  <2>3. CASE ReservationGoesStale(s)
    <3>1. ~[row[s] EXCEPT !.resv = "stale"].lost
      BY <1>0 DEF Rows
    <3> QED  BY <1>0, <1>1, <2>1, <2>3, <3>1 DEF ReservationGoesStale, OnlyOne
  <2>4. CASE LeaseExpires(s)
    BY <1>0, <2>1, <2>4 DEF LeaseExpires, OnlyOne
  <2> QED  BY <1>5, <2>2, <2>3, <2>4 DEF Time
<1>6. CASE SweepStale(s) \/ SweepUnresolved(s) \/ SweepObserved(s) \/ SweepDiscovers(s)
  <2>1. worklist'.lost = {}
    BY <1>0, <1>6 DEF SweepStale, SweepUnresolved, SweepObserved, SweepDiscovers
  <2>2. \/ UNCHANGED <<row, evidence>>
        \/ \E kind \in {"scan", "path", "observed"},
              r \in {MarkInterruptedRow(row[s]), AttachRow(row[s]), RescueRow(row[s])} :
             Observe(s, kind, r)
    BY <1>6 DEF SweepStale, SweepUnresolved, SweepObserved, SweepDiscovers
  <2>3. CASE UNCHANGED <<row, evidence>>
    BY <1>0, <2>1, <2>3 DEF OnlyOne
  <2>4. ASSUME NEW kind,
               NEW r \in {MarkInterruptedRow(row[s]), AttachRow(row[s]), RescueRow(row[s])},
               Observe(s, kind, r), ~UNCHANGED <<row, evidence>>
        PROVE  OnlyOne(s) /\ ~row'[s].lost
    <3>1. /\ HandOff(s, r, Reservable(r, LeaseExpired(s), FALSE))
          /\ evidence' = [evidence EXCEPT ![s] = tx[s].ver]
      BY <2>4 DEF Observe
    <3>2. ~row'[s].lost /\ Others
      BY <1>2, <1>3, <3>1
    <3> QED  BY <1>0, <3>1, <3>2 DEF OnlyOne
  <2> QED  BY <2>1, <2>2, <2>3, <2>4
<1>7. CASE SweepLifts(s) \/ SweepReactivates(s)
  <2>1. /\ worklist' = worklist /\ evidence' = evidence
        /\ \E q \in {LiftSourceLimitPark(row[s]), LiftLostRow(row[s])} : SetRow(s, q)
    BY <1>7 DEF SweepLifts, SweepReactivates
  <2>2. ~LiftSourceLimitPark(row[s]).lost /\ ~LiftLostRow(row[s]).lost
    BY <1>0, LiftsGiveNoneUp
  <2> QED  BY <1>0, <1>1, <2>1, <2>2 DEF OnlyOne
<1>8. CASE SweepReserves(s)
  <2>1. /\ worklist' = worklist /\ evidence' = evidence
        /\ \E q \in {row[s], ForceLift(row[s])} : HandOff(s, q, TRUE)
    BY <1>8 DEF SweepReserves
  <2>2. ForceLift(row[s]) \in Rows /\ ~ForceLift(row[s]).lost
    BY <1>0, ReservationKeeps, LiftsGiveNoneUp DEF KeepsClaim
  <2> QED  BY <1>0, <1>2, <2>1, <2>2 DEF OnlyOne
<1>9. CASE Retry(s)
  <2> DEFINE r == LiftFailurePark(row[s])
  <2>1. /\ worklist' = worklist /\ evidence' = evidence
        /\ \E q \in {r, ReserveRow(ForceLift(r)), ReserveRow(r)} : SetRow(s, q)
    BY <1>9 DEF Retry
  <2>2. r \in Rows /\ ~r.lost
    BY <1>0, ReservationKeeps, LiftsGiveNoneUp DEF KeepsClaim
  <2> HIDE DEF r
  <2>3. ForceLift(r) \in Rows /\ ~ForceLift(r).lost
    BY <2>2, ReservationKeeps, LiftsGiveNoneUp DEF KeepsClaim
  <2>4. ~ReserveRow(ForceLift(r)).lost /\ ~ReserveRow(r).lost
    BY <2>2, <2>3, LiftsGiveNoneUp
  <2> QED  BY <1>0, <1>1, <2>1, <2>2, <2>4 DEF OnlyOne
<1>10. CASE SettleChecks(s) \/ SettleLost(s)
  BY <1>0, <1>10 DEF SettleChecks, SettleLost
<1> QED  BY <1>4, <1>5, <1>6, <1>7, <1>8, <1>9, <1>10 DEF Sweep, Operator

\* What a step may do to the session it says something of: report evidence, or
\* advance the archive without taking anything back.
Withdraws(s) ==
  /\ evidence'[s] >= evidence[s]
  /\ row'[s].doc = row[s].doc /\ row'[s].life # "archived"
Advances(s) ==
  /\ evidence'[s] = evidence[s] /\ Promise!Supersedes(row'[s].doc, row[s].doc)
  /\ row[s].life = "archived" => row'[s].life = "archived"

\* A document may take its own place.
LEMMA SupersedesItself ==
  ASSUME NEW d \in Documents
  PROVE  Promise!Supersedes(d, d)
BY DEF Promise!Supersedes, Documents

\* An unlocked step reports evidence, or takes nothing back.
LEMMA UnlockedKeepsPromise ==
  ASSUME IInv, SInv, NoneLost, NEW s \in Sessions,
         Agent(s) \/ Time(s) \/ Sweep(s) \/ Operator(s), TypeOK'
  PROVE  Withdraws(s) \/ Advances(s)
<1>1. TypeOK /\ Sound(s) /\ ~row[s].lost /\ row[s].doc \in Documents
  BY SessionTypes DEF IInv, SInv, NoneLost
<1>2. CASE LeaseExpires(s)
  BY <1>1, <1>2, SupersedesItself DEF LeaseExpires, Advances, hookVars
<1>3. CASE ~LeaseExpires(s)
  <2>1. Stirs(s)
    BY <1>1, <1>3, AgentStirs, SweepStirs, WaitingStirs DEF Time
  <2>2. /\ row'[s].doc = row[s].doc
        /\ tx'[s].ver \in Nat /\ tx[s].ver \in Nat /\ evidence[s] \in Nat
        /\ tx'[s].ver >= tx[s].ver /\ evidence[s] <= tx[s].ver
    BY <1>1, <2>1, SessionTypes DEF Stirs, KeepsClaim, Sound, Documented, TypeOK
  <2>3. CASE Reports(row[s], row'[s]) /\ evidence'[s] = tx'[s].ver
    BY <2>2, <2>3 DEF Withdraws, Reports
  <2>4. CASE Idles(row[s], row'[s]) /\ evidence'[s] = evidence[s]
    BY <1>1, <2>2, <2>4, SupersedesItself DEF Advances, Idles
  <2> QED  BY <2>1, <2>3, <2>4 DEF Stirs
<1> QED  BY <1>2, <1>3

\* A worker writes one row, gives none up, and takes nothing back.
LEMMA WorkerKeepsPromise ==
  ASSUME IInv, SInv, NoneLost, NEW s \in Sessions, Worker(s)
  PROVE  OnlyOne(s) /\ ~row'[s].lost /\ worklist' = worklist /\ Advances(s)
<1> USE DEF workerVars, hookVars, sweepVars, diskVars
<1>0. /\ TypeOK /\ Good(s) /\ Sound(s) /\ ~row[s].lost
      /\ row[s] \in Rows /\ row[s].doc \in Documents
  BY SessionTypes DEF IInv, SInv, NoneLost
<1>1. worklist' = worklist /\ evidence' = evidence
  BY DEF Worker, WorkerStarts, Reconcile, Recommit, Abandon, Lift, Gate, Claim, Load,
         Summarize, StorePlan, RecordVerdict, Replace, Commit, Complete, Settle
<1> DEFINE Goal == OnlyOne(s) /\ ~row'[s].lost /\ worklist' = worklist /\ Advances(s)
<1>2. ASSUME UNCHANGED row PROVE Goal
  BY <1>0, <1>1, <1>2, SupersedesItself DEF OnlyOne, Advances
<1>3. ASSUME NEW q, SetRow(s, q), q.lost = row[s].lost,
             Promise!Supersedes(q.doc, row[s].doc),
             row[s].life = "archived" => q.life = "archived"
      PROVE  Goal
  BY <1>0, <1>1, <1>3 DEF OnlyOne, Advances, SetRow, TypeOK
<1>4. ASSUME NEW q, SetRow(s, q), KeepsClaim(row[s], q), Idles(row[s], q),
             q.lost = row[s].lost
      PROVE  Goal
  BY <1>0, <1>3, <1>4, SupersedesItself DEF KeepsClaim, Idles
<1>5. ASSUME ErrorExit(s) PROVE Goal
  <2>1. /\ KeepsClaim(row[s], ClearReservationRow(row[s]))
        /\ Idles(row[s], ClearReservationRow(row[s]))
        /\ ClearReservationRow(row[s]).lost = row[s].lost
    BY <1>0, ReservationKeeps, ReservationIdles, LiftsGiveNoneUp
  <2> QED  BY <1>4, <1>5, <2>1 DEF ErrorExit
<1>6. ASSUME SetRow(s, ClearReservationRow(DeferRow(row[s]))) PROVE Goal
  <2>1. /\ KeepsClaim(row[s], DeferRow(row[s])) /\ Idles(row[s], DeferRow(row[s]))
        /\ DeferRow(row[s]).lost = row[s].lost /\ DeferRow(row[s]) \in Rows
    BY <1>0, ReservationKeeps, ReservationIdles, LiftsGiveNoneUp DEF KeepsClaim
  <2> DEFINE q == ClearReservationRow(DeferRow(row[s]))
  <2>2. /\ KeepsClaim(row[s], q) /\ Idles(row[s], q) /\ q.lost = row[s].lost
    BY <2>1, ReservationKeeps, ReservationIdles, KeepsTwice, IdlesTwice,
       LiftsGiveNoneUp DEF KeepsClaim
  <2> HIDE DEF q
  <2> QED  BY <1>4, <1>6, <2>2 DEF q
<1>7. row[s].token # 0 => row[s].life # "archived"
  BY <1>0 DEF Sound, Living
<1>8. ASSUME NEW q, SetRow(s, q), q.doc = row[s].doc, q.lost = row[s].lost,
             row[s].life # "archived"
      PROVE  Goal
  BY <1>0, <1>3, <1>8, SupersedesItself
<1>9. ASSUME NEW category \in Labels, AbandonLatest(s, category),
             row[s].life # "archived"
      PROVE  Goal
  <2>1. PICK a \in open[s] : SetRow(s, AbandonRow(row[s], a, category))
    BY <1>9 DEF AbandonLatest
  <2>2. a \in Attempts
    BY <1>0, SessionTypes
  <2>3. AbandonRow(row[s], a, category).doc = row[s].doc
    BY <1>0, <2>2, AbandonEnds DEF EndsClaim
  <2>4. AbandonRow(row[s], a, category).lost = row[s].lost
    BY <1>0, WorkerGivesNoneUp
  <2> QED  BY <1>8, <1>9, <2>1, <2>3, <2>4
<1>10. CASE WorkerStarts(s)
  <2>1. CASE ~(row[s].doc.rev = 0 /\ file[s].rev > 0)
    BY <1>0, <1>2, <1>10, <2>1 DEF WorkerStarts, SetRow, TypeOK
  <2>2. CASE row[s].doc.rev = 0 /\ file[s].rev > 0
    <3>1. SetRow(s, ImportRow(row[s], file[s]))
      BY <1>10, <2>2 DEF WorkerStarts
    <3>2. PICK a \in Owned(s) : a.plan = file[s]
      BY <1>0, <2>2, SessionTypes DEF Good, DocumentIsDurable, Owned
    <3>3. /\ row[s].token # 0 /\ file[s].rev = 1 /\ file[s].ver >= row[s].doc.ver
          /\ row[s].doc.kind # "real"
      BY <1>0, <2>2, <3>2, OwnerIsLatest, SessionTypes
      DEF Sound, Documented, Planning, Numbered, NextRev, SameRev, Imported, None
    <3>4. Promise!Supersedes(file[s], row[s].doc)
      BY <1>0, <2>2, <3>3, SessionTypes DEF Promise!Supersedes
    <3>5. ImportRow(row[s], file[s]).doc = file[s]
      <4>1. file[s] \in Documents
        BY <1>0, SessionTypes
      <4>2. KeepsClaim([row[s] EXCEPT !.doc = file[s]], ImportRow(row[s], file[s]))
        BY <1>0, <4>1, ImportKeeps
      <4> QED  BY <1>0, <4>2 DEF KeepsClaim, Rows
    <3>6. ImportRow(row[s], file[s]).lost = row[s].lost
      BY <1>0, WorkerGivesNoneUp
    <3> QED  BY <1>3, <1>7, <3>1, <3>3, <3>4, <3>5, <3>6
  <2> QED  BY <2>1, <2>2
<1>11. CASE Reconcile(s) \/ Load(s) \/ Summarize(s) \/ StorePlan(s)
  BY <1>2, <1>11 DEF Reconcile, Load, Summarize, StorePlan
<1>12. CASE Recommit(s) \/ Replace(s) \/ Commit(s)
  BY <1>2, <1>5, <1>12 DEF Recommit, Replace, Commit
<1>13. CASE Abandon(s)
  BY <1>2, <1>9, <1>13 DEF Abandon, Labels
<1>14. CASE Lift(s)
  <2>1. PICK q \in {row[s], LiftSourceLimitPark(row[s])} : SetRow(s, q)
    BY <1>14 DEF Lift
  <2>2. KeepsClaim(row[s], q) /\ Idles(row[s], q) /\ q.lost = row[s].lost
    BY <1>0, ReservationKeeps, ReservationIdles, LiftsGiveNoneUp
  <2> QED  BY <1>4, <2>1, <2>2
<1>15. CASE Gate(s)
  BY <1>2, <1>6, <1>15 DEF Gate
<1>16. CASE Claim(s)
  <2>1. ASSUME Claimable(row[s]), NEW id \in 1 .. MaxAttempts, SetRow(s, ClaimRow(row[s], id))
        PROVE  Goal
    <3>1. id \in Nat \ {0}
      BY ArchiveWorkerAssumption
    <3>2. ClaimRow(row[s], id).doc = row[s].doc
      BY <1>0, <2>1, <3>1, ClaimTypes
    <3>3. row[s].life # "archived"
      BY <2>1 DEF Claimable, Pending
    <3>4. ClaimRow(row[s], id).lost = row[s].lost
      BY <1>0, WorkerGivesNoneUp
    <3> QED  BY <1>8, <2>1, <3>2, <3>3, <3>4
  <2> QED  BY <1>2, <1>6, <1>16, <2>1 DEF Claim
<1>17. CASE RecordVerdict(s)
  <2>1. PICK a \in open[s] :
          a.id = w[s].att /\ SetRow(s, VerdictRow(row[s], a, w[s].cat))
    BY <1>17 DEF RecordVerdict
  <2>2. a \in Attempts /\ w[s].cat \in Failures \cup {None} /\ row[s].token # 0
    BY <1>0, <1>17, <2>1, HolderOwns, SessionTypes
    DEF RecordVerdict, Holding, WorkerStates
  <2>3. VerdictRow(row[s], a, w[s].cat).doc = row[s].doc
    BY <1>0, <2>2, VerdictKeeps DEF KeepsClaim
  <2>4. VerdictRow(row[s], a, w[s].cat).lost = row[s].lost
    BY <1>0, WorkerGivesNoneUp
  <2> QED  BY <1>7, <1>8, <2>1, <2>2, <2>3, <2>4
<1>18. CASE Complete(s)
  <2>0. w[s].pc = "complete"
    BY <1>18 DEF Complete
  <2>1. PICK a \in open[s] :
          /\ a.id = w[s].att
          /\ IF row[s].token = a.id
             THEN LET r == CompleteRow(row[s], a, w[s].new)
                  IN  SetRow(s, IF w[s].new.kind = "placeholder"
                                THEN VerdictRow(r, a, w[s].cat) ELSE r)
             ELSE ErrorExit(s)
    BY <1>18 DEF Complete
  <2>2. CASE row[s].token # a.id
    BY <1>5, <2>1, <2>2
  <2>3. CASE row[s].token = a.id
    <3> DEFINE r == CompleteRow(row[s], a, w[s].new)
               q == IF w[s].new.kind = "placeholder"
                    THEN VerdictRow(r, a, w[s].cat) ELSE r
    <3>1. /\ a \in Attempts /\ w[s].new \in Documents /\ row[s].token # 0
          /\ w[s].cat \in Failures \cup {None}
      BY <1>0, <2>3, SessionTypes DEF WorkerStates
    <3>2. r \in Rows /\ r.doc = w[s].new
      BY <1>0, <3>1, CompleteEnds DEF EndsClaim, Rows
    <3>3. r.lost = row[s].lost
      BY <1>0, WorkerGivesNoneUp
    <3> HIDE DEF r
    <3>4. q.doc = w[s].new
      BY <3>1, <3>2, VerdictKeeps DEF KeepsClaim
    <3>5. q.lost = row[s].lost
      BY <3>2, <3>3, WorkerGivesNoneUp
    <3>6. SetRow(s, q)
      BY <2>1, <2>3 DEF r
    <3> HIDE DEF q
    <3>7. /\ w[s].new.ver >= row[s].doc.ver
          /\ NextRev(w[s].new, row[s].doc) \/ SameRev(w[s].new, row[s].doc)
               \/ w[s].new = row[s].doc
      BY <1>0, <2>0, <2>1, <2>3, CompletionSupersedes
    <3>8. Promise!Supersedes(w[s].new, row[s].doc)
      BY <1>0, <3>1, <3>7, SessionTypes, SupersedesItself
      DEF Promise!Supersedes, NextRev, SameRev
    <3> QED  BY <1>3, <1>7, <3>1, <3>4, <3>5, <3>6, <3>8
  <2> QED  BY <2>2, <2>3
<1>19. CASE Settle(s)
  <2>1. w[s].pc \in Holding
    BY <1>19 DEF Settle, Holding
  <2>2. row[s].token # 0
    BY <1>0, <2>1 DEF Good, ClaimIsExclusive
  <2>3. CASE AbandonLatest(s, "deferred")
    BY <1>7, <1>9, <2>2, <2>3 DEF Labels
  <2>4. ASSUME NEW a \in open[s], a.id = w[s].att,
               NEW q \in {NoChangeRow(row[s], a), NotWorthyRow(row[s], a),
                          FailRow(row[s], a, w[s].cat)}, SetRow(s, q)
        PROVE  Goal
    <3>1. a \in Attempts /\ w[s].cat \in Failures \cup {None} /\ row[s].token = a.id
      BY <1>0, <2>1, <2>4, HolderOwns, SessionTypes DEF WorkerStates
    <3>2. q.doc = row[s].doc
      BY <1>0, <2>4, <3>1, SettlementEnds DEF EndsClaim
    <3>3. q.lost = row[s].lost
      BY <1>0, <2>4, WorkerGivesNoneUp
    <3> QED  BY <1>7, <1>8, <2>2, <2>4, <3>2, <3>3
  <2> QED  BY <1>19, <2>3, <2>4 DEF Settle
<1> QED
  BY <1>10, <1>11, <1>12, <1>13, <1>14, <1>15, <1>16, <1>17, <1>18, <1>19 DEF Worker

\* Taking back nothing is what SessionPromise calls Record, when what is said
\* is sound after it; reporting evidence is its Report.
LEMMA KeepsPromise ==
  ASSUME TypeOK, TypeOK', NEW s \in Sessions, Sound(s)', OnlyOne(s),
         Withdraws(s) \/ Advances(s)
  PROVE  Promise!Next
<1> DEFINE doc == [x \in Sessions |-> row[x].doc]
           said == [x \in Sessions |-> row[x].life = "archived"]
           doc1 == [x \in Sessions |-> row'[x].doc]
           said1 == [x \in Sessions |-> row'[x].life = "archived"]
<1>1. /\ evidence \in [Sessions -> Nat] /\ evidence' \in [Sessions -> Nat]
      /\ \A x \in Sessions \ {s} :
           /\ row'[x].doc = row[x].doc /\ row'[x].life = row[x].life
           /\ evidence'[x] = evidence[x]
  BY DEF OnlyOne, TypeOK
<1>2. /\ doc1 = [doc EXCEPT ![s] = doc1[s]]
      /\ said1 = [said EXCEPT ![s] = said1[s]]
      /\ evidence' = [evidence EXCEPT ![s] = evidence'[s]]
  BY <1>1, Zenon
<1>3. /\ doc[s] = row[s].doc /\ doc1[s] = row'[s].doc
      /\ said[s] <=> row[s].life = "archived"
      /\ said1[s] <=> row'[s].life = "archived"
  OBVIOUS
<1>4. CASE Withdraws(s)
  <2>1. doc1 = doc
    BY <1>1, <1>4, Zenon DEF Withdraws
  <2>2. said1 = [said EXCEPT ![s] = FALSE]
    BY <1>1, <1>4, Zenon DEF Withdraws
  <2>3. Promise!Report(s)
    BY <1>2, <1>4, <2>1, <2>2 DEF Promise!Report, Withdraws
  <2> QED  BY <2>3 DEF Promise!Next
<1>5. CASE Advances(s)
  <2>1. evidence' = evidence
    BY <1>1, <1>5 DEF Advances
  <2>2. said1[s] => doc1[s].ver >= evidence[s] /\ doc1[s].kind = "real"
    BY <1>3, <2>1 DEF Sound, Living
  <2>3. Promise!Supersedes(doc1[s], doc[s])
    BY <1>3, <1>5 DEF Advances
  <2>4. said[s] => said1[s]
    BY <1>3, <1>5 DEF Advances
  <2>5. Promise!Record(s)
    BY <1>2, <2>1, <2>2, <2>3, <2>4 DEF Promise!Record
  <2> QED  BY <2>5 DEF Promise!Next
<1> QED  BY <1>4, <1>5

\* With no settlement of lost transcripts, nothing is given up, and every step
\* is one of SessionPromise's or changes nothing of it.
LEMMA StepPromise ==
  ASSUME "settle" \notin Env, IInv, IInv', SInv, SInv', NoneLost, [Next]_vars
  PROVE  NoneLost' /\ [Promise!Next]_(Promise!promiseVars)
<1> USE DEF diskVars, hookVars, sweepVars
<1>0. TypeOK /\ TypeOK' /\ \A s \in Sessions : Sound(s)'
  BY DEF IInv, SInv
<1>1. ASSUME NEW s \in Sessions, OnlyOne(s), ~row'[s].lost, worklist'.lost = {},
             Withdraws(s) \/ Advances(s)
      PROVE  NoneLost' /\ [Promise!Next]_(Promise!promiseVars)
  <2>1. Promise!Next
    BY <1>0, <1>1, KeepsPromise
  <2>2. NoneLost'
    BY <1>1 DEF NoneLost, OnlyOne
  <2> QED  BY <2>1, <2>2
<1>2. ASSUME NEW s \in Sessions, Agent(s) \/ Time(s) \/ Sweep(s) \/ Operator(s)
      PROVE  NoneLost' /\ [Promise!Next]_(Promise!promiseVars)
  BY <1>0, <1>1, <1>2, UnlockedKeepsHope, UnlockedKeepsPromise
<1>3. ASSUME NEW s \in Sessions, Worker(s)
      PROVE  NoneLost' /\ [Promise!Next]_(Promise!promiseVars)
  BY <1>0, <1>1, <1>3, WorkerKeepsPromise DEF NoneLost
<1>4. ASSUME \/ SweepBegins
             \/ \E s \in Sessions : WorkerFindsLockBusy(s) \/ WorkerDies(s)
             \/ UNCHANGED vars
      PROVE  NoneLost' /\ [Promise!Next]_(Promise!promiseVars)
  <2>1. row' = row /\ evidence' = evidence /\ worklist'.lost = worklist.lost
    BY <1>0, <1>4 DEF SweepBegins, WorkerFindsLockBusy, WorkerDies, vars, TypeOK
  <2>2. UNCHANGED Promise!promiseVars
    BY <2>1 DEF Promise!promiseVars
  <2> QED  BY <2>1, <2>2 DEF NoneLost
<1> QED  BY <1>2, <1>3, <1>4 DEF Next

\* Rows, claims, workers, crashes and reconciliations do no more than report
\* evidence and advance the archive: "archived" is said only of a summary over
\* all the evidence and is withdrawn only by new evidence.
THEOREM PromiseIsKept == "settle" \notin Env => (Spec => ImplementsPromise)
<1> SUFFICES ASSUME "settle" \notin Env PROVE Spec => ImplementsPromise
  OBVIOUS
<1>1. Init => NoneLost
  BY DEF Init, NoneLost, NoRow
<1>2. Init => Promise!Init
  <2> SUFFICES ASSUME Init PROVE Promise!Init
    OBVIOUS
  <2>1. /\ evidence = [s \in Sessions |-> 0]
        /\ \A s \in Sessions : row[s].doc = Promise!Blank /\ ~(row[s].life = "archived")
    BY DEF Init, Promise!Blank, NoRow, NoDocument, None
  <2>2. [s \in Sessions |-> row[s].doc] = [s \in Sessions |-> Promise!Blank]
    BY <2>1
  <2>3. [s \in Sessions |-> row[s].life = "archived"] = [s \in Sessions |-> FALSE]
    BY <2>1, Zenon
  <2> QED  BY <2>1, <2>2, <2>3 DEF Promise!Init
<1>3. IInv /\ IInv' /\ SInv /\ SInv' /\ NoneLost /\ [Next]_vars
        => NoneLost' /\ [Promise!Next]_(Promise!promiseVars)
  BY StepPromise
<1> QED
  BY <1>1, <1>2, <1>3, Invariance, RecordsAreSound, PTL
  DEF Spec, ImplementsPromise, Promise!Spec

-----------------------------------------------------------------------------
(* The cap on concurrent summaries, as long as no lease runs out under a    *)
(* worker: the cap counts the leases that run, a summary needs one.         *)

Held == {s \in Sessions : w[s].pc \in Holding}

\* A worker under a claim holds a lease that runs.
Leased(s) == w[s].pc \in Holding => \E a \in open[s] : a.id = w[s].att /\ a.live

CapInv ==
  /\ IsFiniteSet(LiveLeases)
  /\ \A s \in Sessions : Leased(s)
  /\ Cardinality(Held) <= MaxConcurrency

\* A step that claims nothing: at most one attempt is written, and its session
\* is held after only if it was before, under a lease that runs.
ClaimsNothing(s) ==
  /\ \A x \in Sessions \ {s} : open'[x] = open[x] /\ w'[x] = w[x]
  /\ \E b : open'[s] \subseteq open[s] \cup {b}
  /\ w'[s].pc \in Holding => w[s].pc \in Holding
  /\ Leased(s) => Leased(s)'

\* There are no more holders than leases that run.
LEMMA HeldAreLeased ==
  ASSUME IsFiniteSet(LiveLeases), \A s \in Sessions : Leased(s)
  PROVE  /\ IsFiniteSet(Held) /\ Cardinality(Held) <= Cardinality(LiveLeases)
         /\ Cardinality(Held) \in Nat /\ Cardinality(LiveLeases) \in Nat
<1> DEFINE lease(s) == CHOOSE a \in open[s] : a.id = w[s].att /\ a.live
           f == [s \in Held |-> <<s, lease(s)>>]
<1>1. ASSUME NEW s \in Held
      PROVE  lease(s) \in open[s] /\ lease(s).live /\ s \in Sessions
  BY <1>1 DEF Leased, Held
<1>2. ASSUME NEW s \in Held PROVE <<s, lease(s)>> \in LiveLeases
  <2> DEFINE a == lease(s)
  <2>1. a \in open[s] /\ a.live /\ s \in Sessions
    BY <1>1, <1>2
  <2> HIDE DEF a
  <2>2. <<s, a>> \in LiveLeases
    BY <2>1 DEF LiveLeases
  <2> QED  BY <2>2 DEF a
<1> HIDE DEF lease
<1>3. f \in Injection(Held, LiveLeases)
  BY <1>2 DEF Injection, IsInjective
<1>4. IsFiniteSet(Held) /\ Cardinality(Held) <= Cardinality(LiveLeases)
  BY <1>3, FS_Injection
<1> QED  BY <1>4, FS_CardinalityType

\* The leases that run after one attempt is written are still finitely many.
LEMMA LeasesStayFinite ==
  ASSUME IsFiniteSet(LiveLeases), NEW s \in Sessions, NEW b,
         \A x \in Sessions \ {s} : open'[x] = open[x],
         open'[s] \subseteq open[s] \cup {b}
  PROVE  IsFiniteSet(LiveLeases')
<1>1. LiveLeases' \subseteq LiveLeases \cup {<<s, b>>}
  BY DEF LiveLeases
<1>2. IsFiniteSet(LiveLeases \cup {<<s, b>>})
  BY FS_AddElement
<1> QED  BY <1>1, <1>2, FS_Subset

\* A step that claims nothing keeps the cap.
LEMMA CapKept ==
  ASSUME CapInv, NEW s \in Sessions, ClaimsNothing(s)
  PROVE  CapInv'
<1>1. IsFiniteSet(LiveLeases')
  BY LeasesStayFinite DEF CapInv, ClaimsNothing
<1>2. \A x \in Sessions : Leased(x)'
  BY DEF CapInv, ClaimsNothing, Leased
<1>3. Held' \subseteq Held
  BY DEF ClaimsNothing, Held
<1>4. IsFiniteSet(Held) /\ Cardinality(Held) \in Nat
  BY HeldAreLeased DEF CapInv
<1>5. Cardinality(Held') <= Cardinality(Held) /\ Cardinality(Held') \in Nat
  BY <1>3, <1>4, FS_Subset, FS_CardinalityType
<1> QED
  BY <1>1, <1>2, <1>4, <1>5, ArchiveWorkerAssumption DEF CapInv

\* A claim is made below the cap, under a lease that runs.
LEMMA ClaimKeepsCap ==
  ASSUME TypeOK, CapInv, NEW s \in Sessions, Claim(s)
  PROVE  CapInv'
<1>1. CASE Exit(s) /\ UNCHANGED open
  <2>1. ClaimsNothing(s)
    BY <1>1 DEF Exit, Idle, Holding, TypeOK, ClaimsNothing, Leased
  <2> QED  BY <2>1, CapKept
<1>2. ASSUME Cardinality(LiveLeases) < MaxConcurrency, NEW id \in 1 .. MaxAttempts,
             NEW b, b.id = id, b.live, open' = [open EXCEPT ![s] = @ \cup {b}],
             w' = [w EXCEPT ![s] = [Idle EXCEPT !.pc = "load", !.att = id]]
      PROVE  CapInv'
  <2>1. /\ open'[s] = open[s] \cup {b} /\ w'[s].pc = "load" /\ w'[s].att = id
        /\ \A x \in Sessions \ {s} : open'[x] = open[x] /\ w'[x] = w[x]
    BY <1>2 DEF TypeOK, Idle
  <2>2. IsFiniteSet(LiveLeases')
    BY <2>1, LeasesStayFinite DEF CapInv
  <2>3. \A x \in Sessions : Leased(x)'
    BY <1>2, <2>1 DEF CapInv, Leased
  <2>4. Held' \subseteq Held \cup {s}
    BY <2>1 DEF Held
  <2>5. /\ IsFiniteSet(Held) /\ Cardinality(Held) < MaxConcurrency
        /\ Cardinality(Held) \in Nat
    BY <1>2, HeldAreLeased, ArchiveWorkerAssumption DEF CapInv
  <2>6. /\ IsFiniteSet(Held \cup {s})
        /\ Cardinality(Held \cup {s}) <= Cardinality(Held) + 1
        /\ Cardinality(Held \cup {s}) \in Nat
    <3>1. /\ IsFiniteSet(Held \cup {s})
          /\ Cardinality(Held \cup {s}) =
               IF s \in Held THEN Cardinality(Held) ELSE Cardinality(Held) + 1
      BY <2>5, FS_AddElement
    <3> QED  BY <2>5, <3>1
  <2>7. Cardinality(Held') <= Cardinality(Held \cup {s}) /\ Cardinality(Held') \in Nat
    BY <2>4, <2>6, FS_Subset, FS_CardinalityType
  <2>8. Cardinality(Held') <= MaxConcurrency
    BY <2>5, <2>6, <2>7, ArchiveWorkerAssumption
  <2> QED  BY <2>2, <2>3, <2>8 DEF CapInv
<1>3. ASSUME Cardinality(LiveLeases) < MaxConcurrency, NEW id \in 1 .. MaxAttempts,
             open' = [open EXCEPT ![s] = @ \cup
               {[id |-> id, gen |-> row[s].gen,
                 retryState |-> ClaimRetryState(row[s]), live |-> TRUE,
                 plan |-> NoDocument, git |-> FALSE]}],
             w' = [w EXCEPT ![s] = [Idle EXCEPT !.pc = "load", !.att = id]]
      PROVE  CapInv'
  <2> DEFINE b == [id |-> id, gen |-> row[s].gen,
                   retryState |-> ClaimRetryState(row[s]), live |-> TRUE,
                   plan |-> NoDocument, git |-> FALSE]
  <2>1. b.id = id /\ b.live /\ open' = [open EXCEPT ![s] = @ \cup {b}]
    BY <1>3, Zenon
  <2> HIDE DEF b
  <2> QED  BY <1>2, <1>3, <2>1
<1> QED  BY <1>1, <1>3 DEF Claim

\* Writing the plan into an attempt claims nothing.
LEMMA StorePlanKeepsCap ==
  ASSUME TypeOK, CapInv, NEW s \in Sessions, StorePlan(s)
  PROVE  CapInv'
<1>1. PICK a \in open[s] :
        /\ a.id = w[s].att
        /\ open' = [open EXCEPT ![s] = (@ \ {a}) \cup
             {[a EXCEPT !.plan = w[s].new, !.git = GitHistory /\ ~w[s].quiet]}]
  BY Zenon DEF StorePlan
<1> DEFINE b == [a EXCEPT !.plan = w[s].new, !.git = GitHistory /\ ~w[s].quiet]
<1>2. a \in Attempts
  BY SessionTypes
<1>3. b.id = a.id /\ b.live = a.live
  BY <1>2 DEF Attempts
<1>4. /\ open'[s] = (open[s] \ {a}) \cup {b}
      /\ \A x \in Sessions \ {s} : open'[x] = open[x]
  BY <1>1 DEF TypeOK
<1>5. /\ w[s].pc = "plan" /\ w'[s].att = w[s].att
      /\ \A x \in Sessions \ {s} : w'[x] = w[x]
  BY DEF StorePlan, TypeOK, WorkerStates
<1> HIDE DEF b
<1>6. ClaimsNothing(s)
  BY <1>1, <1>3, <1>4, <1>5 DEF ClaimsNothing, Leased, Holding
<1> QED  BY <1>6, CapKept

\* No other step of a worker claims.
LEMMA WorkerKeepsCap ==
  ASSUME TypeOK, CapInv, NEW s \in Sessions, Worker(s)
  PROVE  CapInv'
<1>1. ASSUME w'[s].pc \notin Holding, open'[s] \subseteq open[s],
             \A x \in Sessions \ {s} : open'[x] = open[x] /\ w'[x] = w[x]
      PROVE  CapInv'
  BY <1>1, CapKept DEF ClaimsNothing, Leased
<1>2. ASSUME w[s].pc \in Holding, w'[s].att = w[s].att \/ w'[s].pc \notin Holding,
             open' = open, \A x \in Sessions \ {s} : w'[x] = w[x]
      PROVE  CapInv'
  BY <1>2, CapKept DEF ClaimsNothing, Leased
<1>3. CASE WorkerStarts(s) \/ Reconcile(s) \/ Recommit(s) \/ Lift(s) \/ Gate(s)
  <2> DEFINE Free == /\ open' = open /\ \A x \in Sessions \ {s} : w'[x] = w[x]
                     /\ w'[s].pc \notin Holding
  <2>0. w[s] \in WorkerStates /\ w \in [Sessions -> WorkerStates]
    BY DEF TypeOK
  <2>1. WorkerStarts(s) \/ Lift(s) => Free
    BY <2>0 DEF WorkerStarts, Lift, Go, WorkerStates, Holding
  <2> DEFINE R(a) == [Idle EXCEPT !.pc = ResumePC(a), !.att = a.id, !.new = a.plan,
                                  !.cat = "summary-failed"]
  <2>2. ASSUME NEW a \in open[s], w' = [w EXCEPT ![s] = R(a)], open' = open
        PROVE  Free
    BY <2>0, <2>2 DEF Idle, ResumePC, Holding
  <2>3. Reconcile(s) => Free
    <3> SUFFICES ASSUME Reconcile(s) PROVE Free
      OBVIOUS
    <3>0. open' = open
      BY Zenon DEF Reconcile
    <3>1. CASE Go(s, "abandon")
      BY <2>0, <3>0, <3>1 DEF Go, WorkerStates, Holding
    <3>2. CASE ~Go(s, "abandon")
      <4>1. PICK a \in open[s] : w' = [w EXCEPT ![s] = R(a)]
        BY <3>2, Zenon DEF Reconcile
      <4> HIDE DEF Free, R
      <4> QED  BY <2>2, <3>0, <4>1
    <3> QED  BY <3>1, <3>2
  <2>4. Recommit(s) => Free
    BY <2>0 DEF Recommit, Go, ErrorExit, Exit, Idle, WorkerStates, Holding
  <2>5. Gate(s) => Free
    BY <2>0 DEF Gate, Go, Exit, Idle, WorkerStates, Holding
  <2> QED  BY <1>1, <1>3, <2>1, <2>3, <2>4, <2>5
<1>4. CASE Abandon(s)
  <2>1. /\ \A x \in Sessions \ {s} : open'[x] = open[x] /\ w'[x] = w[x]
        /\ w'[s].pc = "lift" /\ open'[s] \subseteq open[s]
    BY <1>4 DEF Abandon, AbandonLatest, Go, TypeOK, WorkerStates
  <2> QED  BY <1>1, <2>1 DEF Holding
<1>5. CASE Claim(s)
  BY <1>5, ClaimKeepsCap
<1>6. CASE Load(s) \/ Summarize(s)
  <2> DEFINE Same == w'[s].att = w[s].att /\ \A x \in Sessions \ {s} : w'[x] = w[x]
  <2>0. w[s] \in WorkerStates /\ w \in [Sessions -> WorkerStates]
    BY DEF TypeOK
  <2>1. \A pc : Go(s, pc) => Same
    BY <2>0 DEF Go, WorkerStates
  <2>2. \A c : FailWith(s, c) => Same
    BY <2>0 DEF FailWith, WorkerStates
  <2>3. FailMissing(s) => Same
    BY <2>1, <2>2 DEF FailMissing
  <2> DEFINE Snapshot(pc, quiet) ==
        w' = [w EXCEPT ![s].pc = pc, ![s].ver = tx[s].ver, ![s].quiet = quiet]
  <2>4. \A pc, quiet : Snapshot(pc, quiet) => Same
    BY <2>0 DEF WorkerStates
  <2>5. \A kind, c : Render(s, kind, c) => Same
    <3> TAKE kind, c
    <3>1. \A d : w' = [w EXCEPT ![s].pc = "plan", ![s].cat = c, ![s].new = d] => Same
      BY <2>0 DEF WorkerStates
    <3> QED  BY <2>2, <2>3, <3>1 DEF Render
  <2>6. CASE Load(s)
    <3>1. w[s].pc = "load" /\ open' = open
      BY <2>6 DEF Load
    <3>2. \/ FailMissing(s) \/ FailWith(s, "transcript-unresolved")
          \/ FailWith(s, "source-oversized") \/ FailWith(s, "source-not-archive-worthy")
          \/ \E pc \in {"nochange", "summarize", "unworthy"}, quiet \in BOOLEAN :
               Snapshot(pc, quiet)
      BY <2>6 DEF Load
    <3>3. Same
      <4> HIDE DEF Same, Snapshot
      <4> QED  BY <2>2, <2>3, <2>4, <3>2
    <3> QED  BY <1>2, <3>1, <3>3 DEF Holding
  <2>7. CASE Summarize(s)
    <3>1. w[s].pc = "summarize" /\ open' = open
      BY <2>7 DEF Summarize
    <3>2. Same
      <4> HIDE DEF Same
      <4> QED  BY <2>1, <2>2, <2>5, <2>7 DEF Summarize
    <3> QED  BY <1>2, <3>1, <3>2 DEF Holding
  <2> QED  BY <1>6, <2>6, <2>7
<1>7. CASE StorePlan(s)
  BY <1>7, StorePlanKeepsCap
<1>8. CASE RecordVerdict(s) \/ Replace(s) \/ Commit(s)
  <2>1. /\ w[s].pc \in {"verdict", "replace", "commit"} /\ open' = open
        /\ \A x \in Sessions \ {s} : w'[x] = w[x]
        /\ w'[s].att = w[s].att \/ w'[s].pc = "idle"
    BY <1>8 DEF RecordVerdict, Replace, Commit, FailWith, Go, ErrorExit, Exit, Idle,
                TypeOK, WorkerStates
  <2> QED  BY <1>2, <2>1 DEF Holding
<1>9. CASE Complete(s) \/ Settle(s)
  <2>1. /\ \A x \in Sessions \ {s} : open'[x] = open[x] /\ w'[x] = w[x]
        /\ w'[s].pc = "idle" /\ open'[s] \subseteq open[s]
    BY <1>9 DEF Complete, Settle, AbandonLatest, ErrorExit, Exit, Idle, TypeOK
  <2> QED  BY <1>1, <2>1 DEF Holding
<1> QED  BY <1>3, <1>4, <1>5, <1>6, <1>7, <1>8, <1>9 DEF Worker

\* While leases outlive their workers' calls, every step keeps the cap.
LEMMA StepCap ==
  ASSUME "overrun" \notin Env, IInv, CapInv, [Next]_vars
  PROVE  CapInv'
<1>0. TypeOK
  BY DEF IInv
<1>1. ASSUME open' = open, w' = w PROVE CapInv'
  BY <1>1 DEF CapInv, LiveLeases, Leased, Held
<1>2. CASE SweepBegins \/ UNCHANGED vars
  BY <1>1, <1>2 DEF SweepBegins, vars
<1>3. ASSUME NEW s \in Sessions, Agent(s) \/ Sweep(s) \/ Operator(s) PROVE CapInv'
  BY <1>0, <1>1, <1>3, AgentSteps, SweepSteps
<1>4. ASSUME NEW s \in Sessions, Time(s) PROVE CapInv'
  <2>1. CASE BackoffElapses(s) \/ ReservationGoesStale(s)
    BY <1>0, <1>1, <2>1, WaitingSteps
  <2>2. CASE LeaseExpires(s)
    <3>1. PICK a \in open[s] :
            /\ w[s].att # a.id
            /\ open' = [open EXCEPT ![s] = (@ \ {a}) \cup {[a EXCEPT !.live = FALSE]}]
      BY <2>2 DEF LeaseExpires
    <3> DEFINE b == [a EXCEPT !.live = FALSE]
    <3>2. /\ open'[s] = (open[s] \ {a}) \cup {b} /\ w' = w
          /\ \A x \in Sessions \ {s} : open'[x] = open[x]
      BY <1>0, <2>2, <3>1 DEF LeaseExpires, TypeOK
    <3> HIDE DEF b
    <3>3. ClaimsNothing(s)
      BY <3>1, <3>2 DEF ClaimsNothing, Leased
    <3> QED  BY <3>3, CapKept
  <2> QED  BY <1>4, <2>1, <2>2 DEF Time
<1>5. ASSUME NEW s \in Sessions, Worker(s) PROVE CapInv'
  BY <1>0, <1>5, WorkerKeepsCap
<1>6. ASSUME NEW s \in Sessions, WorkerFindsLockBusy(s) PROVE CapInv'
  BY <1>1, <1>6 DEF WorkerFindsLockBusy
<1>7. ASSUME NEW s \in Sessions, WorkerDies(s) PROVE CapInv'
  <2>1. CASE w' = w
    BY <1>1, <1>7, <2>1 DEF WorkerDies
  <2>2. CASE w' = [w EXCEPT ![s] = Idle]
    <3>1. /\ open' = open /\ w'[s].pc = "idle"
          /\ \A x \in Sessions \ {s} : w'[x] = w[x]
      BY <1>0, <1>7, <2>2 DEF WorkerDies, TypeOK, Idle
    <3>2. ClaimsNothing(s)
      BY <3>1 DEF ClaimsNothing, Leased, Holding
    <3> QED  BY <3>2, CapKept
  <2> QED  BY <1>7, <2>1, <2>2 DEF WorkerDies, Exit
<1> QED  BY <1>2, <1>3, <1>4, <1>5, <1>6, <1>7 DEF Next

\* No more sessions are summarized at once than max_concurrency allows, as
\* long as no lease runs out under the worker that holds it.
THEOREM CapIsKept == "overrun" \notin Env => (Spec => []SummarizersWithinCap)
<1> SUFFICES ASSUME "overrun" \notin Env PROVE Spec => []SummarizersWithinCap
  OBVIOUS
<1>1. Init => CapInv
  <2> SUFFICES ASSUME Init PROVE CapInv
    OBVIOUS
  <2>1. LiveLeases = {} /\ Held = {}
    BY DEF Init, LiveLeases, Held, Idle, Holding
  <2>2. \A s \in Sessions : Leased(s)
    BY DEF Init, Leased, Idle, Holding
  <2> QED  BY <2>1, <2>2, FS_EmptySet, ArchiveWorkerAssumption DEF CapInv
<1>2. IInv /\ CapInv /\ [Next]_vars => CapInv'
  BY StepCap
<1>3. CapInv => SummarizersWithinCap
  BY DEF CapInv, Held, SummarizersWithinCap
<1> QED  BY <1>1, <1>2, <1>3, Invariance, PTL DEF Spec
=============================================================================
