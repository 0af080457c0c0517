------------------------- MODULE VaultClients_proofs -------------------------
(***************************************************************************)
(* For any number of processes, sessions, directories and faults: a         *)
(* delivered row names a commit of exactly its session and revision; and    *)
(* while clients take turns that commit holds the revision's own note, no   *)
(* revision is committed twice, and for a directory on record the vault has *)
(* a content no older than the one its hash was taken of.                   *)
(*                                                                          *)
(* The argument: the history only grows, and a commit found by its message  *)
(* is one some client made with that message.  While clients take turns the *)
(* clean-tree check keeps what it found until the commit, so the note of    *)
(* the newest revision, once committed, leaves nothing to commit.           *)
(***************************************************************************)
EXTENDS VaultClients, WellFoundedInduction, TLAPS

Notes == [rev : Nat, body : Nat \cup Contents]
Trees == [Paths -> Notes]
Subjects == (Sessions \cup Directories \cup {UserPath}) \X Nat
Vaults == [git : BOOLEAN, notes : Trees, head : Trees,
           log : Seq([subject : Subjects, tree : Trees])]

Records0 == [of : Sessions, ver : Nat]
Hashes == [of : Directories, ver : Nat]

\* Where a delivery is, and where a pass is.
Delivering == {"next", "preflight", "write", "commit", "record", "block", "fail"}
Syncing == {"sync-next", "sync-read", "sync-file", "sync-manifest", "sync-commit",
            "sync-record", "sync-block", "sync-fail"}
Deliveries == [state : States, rev : Nat, commit : Nat, attempts : Nat]
MirrorStates == {"absent", "pending", "synced", "failed", "blocked", "dead-letter"}
Mirrors == [state : MirrorStates, hash : Nat, rev : Nat, commit : Nat,
            attempts : Nat, again : BOOLEAN]

Rows ==
  /\ archived \in [Sessions -> Nat] /\ delivery \in [Sessions -> Deliveries]
  /\ memory \in [Directories -> Seq(Contents)] /\ mirror \in [Directories -> Mirrors]
  /\ faults \in Nat /\ overlaps \in Nat

Fields == {"pc", "todo", "item", "gate", "force", "lock", "read", "commit",
           "again"}

\* What a later vault keeps of an earlier one, and a commit of a subject.
Grows(v, w) ==
  /\ DOMAIN v.log \subseteq DOMAIN w.log
  /\ \A i \in DOMAIN v.log : w.log[i] = v.log[i]
Found(v, n, subject) == n \in DOMAIN v.log /\ v.log[n].subject = subject

\* A delivery works on records of sessions, a pass on hashes of directories; a
\* delivery that must be preserved goes on only with the history available,
\* and has found its own commit before it records one.
DeliverySound(v, c) ==
  /\ c.todo \subseteq Records0
  /\ c.gate \in (IF HistoryRequired THEN {"available", "unavailable", "error"}
                ELSE {"not-required"})
  /\ c.pc # "next" => c.item \in Records0
  /\ c.pc \in {"preflight", "commit"} => c.gate = "available"
  /\ c.pc \in {"write", "record"} => c.gate \in {"available", "not-required"}
  /\ c.pc = "record" /\ c.gate = "available" =>
       Found(v, c.commit, Subject(c.item.of, c.item.ver))
SyncSound(c) ==
  /\ c.todo \subseteq Hashes /\ c.again \in BOOLEAN
  /\ c.pc # "sync-next" => c.item \in Hashes
ClientSound(v, c) ==
  /\ DOMAIN c = Fields /\ c.read \in Nat /\ c.commit \in Nat
  /\ \/ c = Idle
     \/ c.pc \in Delivering /\ DeliverySound(v, c)
     \/ c.pc \in Syncing /\ SyncSound(c)

\* A delivered row that must be preserved names its own commit.
RowSound(v, s, r) ==
  HistoryRequired /\ r.state = "delivered" => Found(v, r.commit, Subject(s, r.rev))

\* What holds however clients race.
CInv ==
  /\ vault \in Vaults /\ Rows
  /\ DOMAIN client = Clients /\ \A p \in Clients : ClientSound(vault, client[p])
  /\ \A s \in Sessions : RowSound(vault, s, delivery[s])

-----------------------------------------------------------------------------
(* While clients take turns.                                                *)

Turns == \A p, q \in Clients : Busy(p) /\ Busy(q) => p = q

\* The document of a revision.
Document(k) == [rev |-> k, body |-> k]

\* What the history has of a session is its own, once each; and its newest
\* revision, once there, is in the vault and committed.
HistorySound ==
  \A s \in Sessions, i \in DOMAIN vault.log :
    LET k == vault.log[i].subject[2]
    IN  vault.log[i].subject[1] = s =>
          /\ vault.log[i].tree[NotePath(s)] = Document(k)
          /\ k <= archived[s]
          /\ k = archived[s] => /\ vault.notes[NotePath(s)] = Document(k)
                               /\ vault.head[NotePath(s)] = Document(k)
          /\ \A j \in DOMAIN vault.log :
               vault.log[j].subject = vault.log[i].subject => i = j

\* A delivery is of the newest revision, and commits nothing but its note.
DeliveryFresh(c) ==
  /\ \A i \in c.todo : i.ver = archived[i.of]
  /\ c.pc # "next" => c.item.ver = archived[c.item.of]
  /\ c.pc \in {"preflight", "write"} => c.read = archived[c.item.of]
  /\ c.pc = "commit" => vault.notes[NotePath(c.item.of)] = Document(c.item.ver)
  /\ c.pc \in {"write", "commit"} /\ c.gate = "available" =>
       Dirty \subseteq {NotePath(c.item.of)}

\* In a tree, the file of directory d is one of its contents m[d] from place h
\* on; commit k of vault v has such a tree.
Since(m, d, h, notes) ==
  \E n \in DOMAIN m[d] : h <= n /\ notes[FilePath(d)] = Text(m[d][n])
Committed(m, v, d, h, k) ==
  k \in DOMAIN v.log /\ Since(m, d, h, v.log[k].tree)

\* A pass is over directories whose row is no newer than the hash collected,
\* each once; from its file on, the vault has a content no older than that
\* hash, and from its commit on, a commit that was not there before it has.
Behind(i) ==
  /\ i.ver <= Len(memory[i.of])
  /\ mirror[i.of].state = "synced" => mirror[i.of].hash <= i.ver
SyncFresh(c) ==
  /\ \A i \in c.todo : Behind(i)
  /\ \A i, j \in c.todo : i.of = j.of => i = j
  /\ c.pc # "sync-next" => Behind(c.item) /\ \A i \in c.todo : i.of # c.item.of
  /\ c.pc = "sync-file" => c.item.ver <= c.read /\ c.read <= Len(memory[c.item.of])
  /\ c.pc \in {"sync-manifest", "sync-commit", "sync-record"} =>
       Since(memory, c.item.of, c.item.ver, vault.notes)
  /\ c.pc = "sync-record" =>
       c.again \/ Committed(memory, vault, c.item.of, c.item.ver, c.commit)
ClientFresh(c) ==
  /\ c.pc \in Delivering => DeliveryFresh(c)
  /\ c.pc \in Syncing => SyncFresh(c)

MirrorSound ==
  \A d \in Directories :
    mirror[d].state = "synced" =>
      /\ Since(memory, d, mirror[d].hash, vault.notes)
      /\ \/ mirror[d].again
         \/ Committed(memory, vault, d, mirror[d].hash, mirror[d].commit)

InTurns ==
  Turns /\ HistorySound /\ MirrorSound /\ \A p \in Clients : ClientFresh(client[p])

\* The places a pass holds are places of its directories.
Placed(c) ==
  c.pc \in Syncing =>
    /\ \A i \in c.todo : i.ver \in DOMAIN memory[i.of]
    /\ c.pc # "sync-next" => c.item.ver \in DOMAIN memory[c.item.of]
    /\ c.pc = "sync-file" => c.read \in DOMAIN memory[c.item.of]
PInv ==
  /\ \A d \in Directories : memory[d] # << >>
  /\ \A p \in Clients : Placed(client[p])

VInv == CInv /\ PInv /\ (overlaps = 0 => InTurns)

-----------------------------------------------------------------------------
(* Facts of numbers and of the history.                                     *)

\* A nonempty set of numbers has a least one.
LEMMA LeastNumber ==
  ASSUME NEW T \in SUBSET Nat, T # {}
  PROVE  \E x \in T : \A y \in T : x <= y
<1> DEFINE R == OpToRel(<, Nat)
<1>1. IsWellFoundedOn(R, Nat)
  BY NatLessThanWellFounded, Zenon
<1>2. \A x, y \in Nat : y < x => <<y, x>> \in R
  BY DEF OpToRel
<1> HIDE DEF R
<1>3. PICK x \in T : \A y \in T : ~(<<y, x>> \in R)
  BY <1>1, WFMin, Zenon
<1>4. ASSUME NEW y \in T PROVE x <= y
  <2>1. ~(y < x)
    BY <1>2, <1>3
  <2>2. x \in Nat /\ y \in Nat
    OBVIOUS
  <2> QED
    BY <2>1, <2>2
<1> QED
  BY <1>4

\* A set of numbers within a bound has a greatest one.
LEMMA MaxWithin ==
  ASSUME NEW n \in Nat, NEW S \in SUBSET (0 .. n), S # {}
  PROVE  Max(S) \in S /\ \A x \in S : x <= Max(S)
<1> DEFINE T == {n - x : x \in S}
<1>1. T \in SUBSET Nat /\ T # {}
  <2>1. \A x \in S : n - x \in Nat
    OBVIOUS
  <2>2. PICK x \in S : TRUE
    OBVIOUS
  <2>3. n - x \in T
    OBVIOUS
  <2> QED
    BY <2>1, <2>3
<1>2. PICK t \in T : \A y \in T : t <= y
  BY <1>1, LeastNumber
<1>3. PICK m \in S : t = n - m
  BY <1>2
<1>4. \A x \in S : n - m <= n - x
  BY <1>2, <1>3
<1>5. \A x \in S : m >= x
  BY <1>4
<1>6. \E x \in S : \A y \in S : x >= y
  BY <1>3, <1>5
<1> QED
  BY <1>6 DEF Max

-----------------------------------------------------------------------------
(* Vaults, requests and rows.                                               *)

\* An entry of a sequence is one of what it is a sequence of.
LEMMA EntryIsOne ==
  ASSUME NEW E, NEW l \in Seq(E), NEW i \in DOMAIN l
  PROVE  l[i] \in E
OBVIOUS

\* A history that grows does not forget a commit.
LEMMA GrowsKeepsFound ==
  ASSUME NEW v, NEW w, Grows(v, w), NEW n, NEW subject, Found(v, n, subject)
  PROVE  Found(w, n, subject)
BY DEF Grows, Found

LEMMA GrowsKeepsCommitted ==
  ASSUME NEW v, NEW w, Grows(v, w), NEW m, NEW d, NEW h, NEW k,
         Committed(m, v, d, h, k)
  PROVE  Committed(m, w, d, h, k)
BY DEF Grows, Committed

LEMMA GrowsKeepsClients ==
  ASSUME NEW v, NEW w, Grows(v, w), NEW c, ClientSound(v, c)
  PROVE  ClientSound(w, c)
BY GrowsKeepsFound DEF ClientSound, DeliverySound

LEMMA GrowsKeepsRows ==
  ASSUME NEW v, NEW w, Grows(v, w), NEW s, NEW r, RowSound(v, s, r)
  PROVE  RowSound(w, s, r)
BY GrowsKeepsFound DEF RowSound

LEMMA GrowsItself == ASSUME NEW v PROVE Grows(v, v)
BY DEF Grows

\* find_commit_by_message finds a commit with the message, or none.
LEMMA FindCommitFinds ==
  ASSUME NEW v \in Vaults, NEW subject
  PROVE  /\ FindCommit(v, subject) \in Nat
         /\ FindCommit(v, subject) # 0 => Found(v, FindCommit(v, subject), subject)
<1> DEFINE n == Len(v.log)
           S == {0} \cup {i \in DOMAIN v.log : v.log[i].subject = subject}
<1>1. v.log \in Seq([subject : Subjects, tree : Trees])
  BY DEF Vaults
<1>2. n \in Nat /\ DOMAIN v.log = 1 .. n
  BY <1>1
<1> HIDE DEF n
<1>3. S \in SUBSET (0 .. n) /\ S # {}
  BY <1>2
<1>4. Max(S) \in S
  BY <1>2, <1>3, MaxWithin
<1>5. Max(S) \in Nat
  BY <1>2, <1>3, <1>4
<1>6. FindCommit(v, subject) = Max(S)
  BY DEF FindCommit
<1> QED
  BY <1>4, <1>5, <1>6 DEF Found

\* Nothing but a commit changes the history, and a commit adds to it.
LEMMA CommitAppends ==
  ASSUME vault \in Vaults, NEW subject \in Subjects, Dirty # {}
  PROVE  \E n \in Nat :
           /\ DOMAIN vault.log = 1 .. n
           /\ DOMAIN WithCommit(subject).log = 1 .. (n + 1)
           /\ \A i \in 1 .. n : WithCommit(subject).log[i] = vault.log[i]
           /\ WithCommit(subject).log[n + 1].subject = subject
           /\ WithCommit(subject).log[n + 1].tree = vault.notes
           /\ WithCommit(subject) \in Vaults
           /\ WithCommit(subject).notes = vault.notes
           /\ WithCommit(subject).head = vault.notes
<1> DEFINE e == [subject |-> subject, tree |-> vault.notes]
           E == [subject : Subjects, tree : Trees]
           l == Append(vault.log, e)
           n == Len(vault.log)
           h == [vault EXCEPT !.head = vault.notes]
           w == [h EXCEPT !.log = l]
<1>1. /\ vault.log \in Seq(E) /\ vault.notes \in Trees
      /\ vault = [git |-> vault.git, notes |-> vault.notes, head |-> vault.head,
                  log |-> vault.log]
      /\ vault.git \in BOOLEAN
  BY DEF Vaults
<1>2. e \in E
  BY <1>1
<1>2a. e.subject = subject /\ e.tree = vault.notes
  OBVIOUS
<1> HIDE DEF e, E
<1>3. n \in Nat /\ DOMAIN vault.log = 1 .. n /\ l \in Seq(E) /\ Len(l) = n + 1
  BY <1>1, <1>2
<1>4. DOMAIN l = 1 .. (n + 1) /\ l[n + 1] = e /\ \A i \in 1 .. n : l[i] = vault.log[i]
  BY <1>1, <1>2, <1>3
<1> HIDE DEF l, n
<1>5. h \in Vaults /\ h.notes = vault.notes /\ h.head = vault.notes
  BY <1>1 DEF Vaults
<1>6. WithCommit(subject) = w
  BY DEF WithCommit, l, e
<1> HIDE DEF h
<1>7. w.log = l /\ w.notes = vault.notes /\ w.head = vault.notes
  BY <1>5 DEF Vaults
<1>8. w \in Vaults
  BY <1>5, <1>3 DEF Vaults, E
<1> HIDE DEF w
<1> QED
  BY <1>2a, <1>3, <1>4, <1>6, <1>7, <1>8

\* A commit keeps the history and the notes; the head becomes the notes.
LEMMA CommitKeeps ==
  ASSUME vault \in Vaults, NEW subject \in Subjects
  PROVE  /\ WithCommit(subject) \in Vaults
         /\ Grows(vault, WithCommit(subject))
<1>1. CASE Dirty = {}
  BY <1>1, GrowsItself DEF WithCommit
<1>2. CASE Dirty # {}
  <2>1. PICK n \in Nat :
           /\ DOMAIN vault.log = 1 .. n
           /\ DOMAIN WithCommit(subject).log = 1 .. (n + 1)
           /\ \A i \in 1 .. n : WithCommit(subject).log[i] = vault.log[i]
           /\ WithCommit(subject) \in Vaults
    BY <1>2, CommitAppends
  <2> QED
    BY <2>1 DEF Grows
<1> QED
  BY <1>1, <1>2

\* A note written changes no other note, and nothing of the history.
LEMMA NoteWritten ==
  ASSUME vault \in Vaults, NEW path \in Paths, NEW content \in Notes
  PROVE  /\ WithNote(path, content) \in Vaults
         /\ WithNote(path, content).log = vault.log
         /\ WithNote(path, content).head = vault.head
         /\ WithNote(path, content).notes = [vault.notes EXCEPT ![path] = content]
         /\ Grows(vault, WithNote(path, content))
BY DEF WithNote, Vaults, Trees, Grows

\* A write took effect or did not, and it did when it was answered.
LEMMA WriteOutcome ==
  ASSUME vault \in Vaults, NEW path \in Paths, NEW content \in Notes,
         NEW o \in WriteOutcomes(WithNote(path, content))
  PROVE  /\ o.vault \in {vault, WithNote(path, content)}
         /\ o.vault \in Vaults /\ Grows(vault, o.vault)
         /\ o.vault.log = vault.log /\ o.vault.head = vault.head
         /\ o.ok \in BOOLEAN /\ (o.ok => o.vault = WithNote(path, content))
         /\ o.fault \in Nat
<1> DEFINE w == WithNote(path, content)
<1>1. w \in Vaults /\ w.log = vault.log /\ w.head = vault.head /\ Grows(vault, w)
  BY NoteWritten
<1>2. vault \in Vaults /\ Grows(vault, vault)
  BY GrowsItself
<1> HIDE DEF w
<1>3. o \in WriteOutcomes(w)
  BY DEF w
<1>4. /\ o.vault \in {vault, w} /\ o.ok \in BOOLEAN /\ (o.ok => o.vault = w)
      /\ o.fault \in Nat
  <2>1. o = [vault |-> w, ok |-> TRUE, fault |-> 0]
          \/ \E v \in {vault, w} : o = [vault |-> v, ok |-> FALSE, fault |-> 1]
    BY <1>3, Zenon DEF WriteOutcomes
  <2>2. CASE o = [vault |-> w, ok |-> TRUE, fault |-> 0]
    BY <2>2
  <2>3. ASSUME NEW v \in {vault, w}, o = [vault |-> v, ok |-> FALSE, fault |-> 1]
        PROVE  o.vault \in {vault, w} /\ o.ok = FALSE /\ o.fault \in Nat
    BY <2>3
  <2> QED
    BY <2>1, <2>2, <2>3
<1> QED
  BY <1>1, <1>2, <1>4 DEF w

\* A place from which a file is one of its directory's contents is one of them.
LEMMA SinceBound ==
  ASSUME NEW m, NEW d, NEW h \in Nat, NEW notes, m[d] \in Seq(Contents),
         Since(m, d, h, notes)
  PROVE  h <= Len(m[d])
<1>1. PICK n \in DOMAIN m[d] : h <= n
  BY DEF Since
<1>2. Len(m[d]) \in Nat /\ DOMAIN m[d] = 1 .. Len(m[d])
  OBVIOUS
<1> QED
  BY <1>1, <1>2

\* What a client correlates is a commit with its message, made or not by it.
LEMMA CorrelateOutcome ==
  ASSUME vault \in Vaults, NEW subject \in Subjects, NEW o \in Correlate(subject)
  PROVE  /\ o.vault \in {vault, WithCommit(subject)}
         /\ o.vault \in Vaults /\ Grows(vault, o.vault)
         /\ o.commit \in Nat /\ (o.commit # 0 => Found(o.vault, o.commit, subject))
         /\ o.fault \in Nat
<1> DEFINE w == WithCommit(subject)
           f == FindCommit(w, subject)
           g == FindCommit(vault, subject)
<1>1. w \in Vaults /\ Grows(vault, w)
  BY CommitKeeps
<1>2. vault \in Vaults /\ Grows(vault, vault)
  BY GrowsItself
<1>3. f \in Nat /\ (f # 0 => Found(w, f, subject))
  BY <1>1, FindCommitFinds
<1>4. g \in Nat /\ (g # 0 => Found(vault, g, subject))
  BY FindCommitFinds
<1>5. /\ o.vault \in {vault, w} /\ o.fault \in Nat
      /\ \/ o.vault = w /\ o.commit \in {0, f}
         \/ o.vault = vault /\ o.commit = g
  <2> HIDE DEF w, f, g
  <2>1. o \in {[vault |-> w, commit |-> f, fault |-> 0]}
        \cup {[vault |-> v, commit |-> c, fault |-> 1] : v \in {w}, c \in {0, f}}
        \cup {[vault |-> vault, commit |-> g, fault |-> 1]}
    BY DEF Correlate, w, f, g
  <2> QED
    BY <2>1
<1> HIDE DEF w, f, g
<1>6. o.commit \in Nat /\ (o.commit # 0 => Found(o.vault, o.commit, subject))
  BY <1>3, <1>4, <1>5
<1> QED
  BY <1>1, <1>2, <1>5, <1>6 DEF w

\* A commit found by a message the history did not have is of the notes as
\* they are.
LEMMA NewCommit ==
  ASSUME vault \in Vaults, NEW subject \in Subjects, NEW o \in Correlate(subject),
         FindCommit(vault, subject) = 0, o.commit # 0
  PROVE  /\ o.commit \in DOMAIN o.vault.log
         /\ o.vault.log[o.commit].tree = vault.notes
<1> DEFINE w == WithCommit(subject)
           f == FindCommit(w, subject)
<1>1. o.vault = w /\ o.commit = f /\ f # 0
  <2> HIDE DEF w, f
  <2>1. o \in {[vault |-> w, commit |-> f, fault |-> 0]}
        \cup {[vault |-> v, commit |-> c, fault |-> 1] : v \in {w}, c \in {0, f}}
        \cup {[vault |-> vault, commit |-> FindCommit(vault, subject), fault |-> 1]}
    BY DEF Correlate, w, f
  <2> QED
    BY <2>1
<1>2. Dirty # {}
  BY <1>1 DEF WithCommit
<1>3. PICK n \in Nat :
        /\ DOMAIN vault.log = 1 .. n /\ DOMAIN w.log = 1 .. (n + 1)
        /\ \A i \in 1 .. n : w.log[i] = vault.log[i]
        /\ w.log[n + 1].tree = vault.notes
  BY <1>2, CommitAppends
<1>4. w \in Vaults
  BY CommitKeeps
<1> HIDE DEF w
<1>5. f \in 1 .. (n + 1) /\ w.log[f].subject = subject
  BY <1>1, <1>3, <1>4, FindCommitFinds DEF Found
<1>6. f \notin 1 .. n
  <2>1. SUFFICES ASSUME f \in 1 .. n PROVE FALSE
    OBVIOUS
  <2> DEFINE S == {0} \cup {i \in DOMAIN vault.log : vault.log[i].subject = subject}
  <2>2. f \in S /\ S \in SUBSET (0 .. n) /\ S # {}
    BY <1>3, <1>5, <2>1
  <2>3. Max(S) = 0
    BY DEF FindCommit
  <2> HIDE DEF S
  <2>4. f <= 0
    BY <2>2, <2>3, MaxWithin
  <2> QED
    BY <2>1, <2>4
<1> QED
  BY <1>1, <1>3, <1>5, <1>6

Gates(required) ==
  IF required THEN {"available", "unavailable", "error"} ELSE {"not-required"}

\* The notes, the head and the history of a vault are those of another.
SameTree(v, w) == v.notes = w.notes /\ v.head = w.head /\ v.log = w.log

\* Starting changes nothing of the vault but whether it has a history, and a
\* client that starts in its turn starts alone.
LEMMA StartsInTurn ==
  ASSUME vault \in Vaults, Rows, NEW p \in Clients, NEW c, NEW required \in BOOLEAN,
         Starts(p, c, required)
  PROVE  /\ vault' \in Vaults /\ Grows(vault, vault') /\ SameTree(vault, vault')
         /\ faults' \in Nat /\ overlaps' \in Nat
         /\ \E g \in Gates(required) :
              client' = [client EXCEPT ![p] = [c EXCEPT !.gate = g]]
         /\ overlaps' = 0 => overlaps = 0 /\ \A q \in Clients : ~Busy(q)
<1>1. PICK o \in GateOutcomes(required) :
        /\ Request(o)
        /\ client' = [client EXCEPT ![p] = [c EXCEPT !.gate = o.gate]]
  BY DEF Starts
<1> DEFINE w == [vault EXCEPT !.git = @ \/ Provision]
<1>2. w \in Vaults /\ Grows(vault, w) /\ SameTree(vault, w)
  BY DEF Vaults, Grows, SameTree
<1>3. vault \in Vaults /\ Grows(vault, vault) /\ SameTree(vault, vault)
  BY GrowsItself DEF SameTree
<1> HIDE DEF w
<1>4. o.vault \in {vault, w} /\ o.fault \in Nat /\ o.gate \in Gates(required)
  BY DEF GateOutcomes, Gates, w
<1>5. vault' = o.vault /\ faults' \in Nat
  BY <1>1, <1>4 DEF Request, Rows
<1>6. overlaps' \in Nat /\ (overlaps' = 0 => overlaps = 0 /\ \A q \in Clients : ~Busy(q))
  <2>1. Overlaps /\ overlaps \in Nat
    BY DEF Starts, Rows
  <2>2. CASE \A q \in Clients : ~Busy(q)
    BY <2>1, <2>2 DEF Overlaps
  <2>3. CASE ~(\A q \in Clients : ~Busy(q))
    BY <2>1, <2>3 DEF Overlaps
  <2> QED
    BY <2>2, <2>3
<1> QED
  BY <1>1, <1>2, <1>3, <1>4, <1>5, <1>6

\* Selecting a candidate leaves its row sound, and never makes it delivered.
LEMMA TargetRowSound ==
  ASSUME NEW r \in Deliveries, NEW force, NEW v, NEW s, RowSound(v, s, r)
  PROVE  /\ TargetRow(r, NoDelivery, force) \in Deliveries
         /\ RowSound(v, s, TargetRow(r, NoDelivery, force))
<1> DEFINE n == [NoDelivery EXCEPT !.state = "pending"]
           q == ResetRow(r)
<1>1. n \in Deliveries /\ n.state = "pending"
  BY DEF NoDelivery, Deliveries, States
<1>2. q \in Deliveries /\ q.state = "pending"
  BY DEF ResetRow, Deliveries, States
<1>3. TargetRow(r, NoDelivery, force) \in {n, q, r}
  BY DEF TargetRow
<1> HIDE DEF n, q
<1> QED
  BY <1>1, <1>2, <1>3 DEF RowSound

LEMMA FailedRowSound ==
  ASSUME NEW r \in Deliveries, NEW v, NEW s
  PROVE  /\ FailedRow(r) \in Deliveries /\ RowSound(v, s, FailedRow(r))
         /\ BlockedRow(r) \in Deliveries /\ RowSound(v, s, BlockedRow(r))
<1>1. FailedRow(r) \in Deliveries /\ FailedRow(r).state # "delivered"
  <2> DEFINE n == r.attempts + 1
             e == IF n >= MaxAttempts THEN "dead-letter" ELSE "failed"
             h == [r EXCEPT !.attempts = n]
  <2>1. n \in Nat /\ e \in {"dead-letter", "failed"}
    BY DEF Deliveries
  <2>2. FailedRow(r) = [h EXCEPT !.state = e]
    BY DEF FailedRow
  <2> HIDE DEF n, e
  <2>3. h \in Deliveries
    BY <2>1 DEF Deliveries
  <2> HIDE DEF h
  <2> QED
    BY <2>1, <2>2, <2>3 DEF Deliveries, States
<1>2. BlockedRow(r) \in Deliveries /\ BlockedRow(r).state # "delivered"
  BY DEF BlockedRow, Deliveries, States
<1> QED
  BY <1>1, <1>2 DEF RowSound

\* Nor does selecting, failing or blocking a directory make it synced.
LEMMA TargetMirrorSound ==
  ASSUME NEW r \in Mirrors, NEW force
  PROVE  /\ TargetRow(r, NoMirror, force) \in Mirrors
         /\ TargetRow(r, NoMirror, force).state = "synced" =>
              TargetRow(r, NoMirror, force) = r
<1> DEFINE n == [NoMirror EXCEPT !.state = "pending"]
           q == ResetRow(r)
<1>1. n \in Mirrors /\ n.state = "pending"
  BY DEF NoMirror, Mirrors, MirrorStates
<1>2. q \in Mirrors /\ q.state = "pending"
  BY DEF ResetRow, Mirrors, MirrorStates
<1>3. TargetRow(r, NoMirror, force) \in {n, q, r}
  BY DEF TargetRow
<1> HIDE DEF n, q
<1> QED
  BY <1>1, <1>2, <1>3

LEMMA FailedMirrorSound ==
  ASSUME NEW r \in Mirrors
  PROVE  /\ FailedRow(r) \in Mirrors /\ FailedRow(r).state # "synced"
         /\ BlockedRow(r) \in Mirrors /\ BlockedRow(r).state # "synced"
<1>1. FailedRow(r) \in Mirrors /\ FailedRow(r).state # "synced"
  <2> DEFINE n == r.attempts + 1
             e == IF n >= MaxAttempts THEN "dead-letter" ELSE "failed"
             h == [r EXCEPT !.attempts = n]
  <2>1. n \in Nat /\ e \in {"dead-letter", "failed"}
    BY DEF Mirrors
  <2>2. FailedRow(r) = [h EXCEPT !.state = e]
    BY DEF FailedRow
  <2> HIDE DEF n, e
  <2>3. h \in Mirrors
    BY <2>1 DEF Mirrors
  <2> HIDE DEF h
  <2> QED
    BY <2>1, <2>2, <2>3 DEF Mirrors, MirrorStates
<1>2. BlockedRow(r) \in Mirrors /\ BlockedRow(r).state # "synced"
  BY DEF BlockedRow, Mirrors, MirrorStates
<1> QED
  BY <1>1, <1>2

-----------------------------------------------------------------------------
(* What a step must show: of the client that takes it, and of what the      *)
(* vault and the rows keep.                                                 *)

\* A step of client p leaves the other clients as they are.
OthersWait(p) ==
  DOMAIN client' = Clients /\ \A q \in Clients \ {p} : client'[q] = client[q]

\* Client p takes its turn: it is at work, or nobody is.
TakesTurn(p) == Busy(p) \/ \A q \in Clients : ~Busy(q)

LEMMA IdleSound == ASSUME NEW v PROVE ClientSound(v, Idle) /\ Idle.pc = "idle"
BY DEF Idle, ClientSound, Fields

\* A busy client is at a delivery or at a pass.
LEMMA BusyWorks ==
  ASSUME CInv, NEW p \in Clients
  PROVE  /\ Busy(p) <=> client[p].pc \in Delivering \cup Syncing
         /\ client[p].pc \in Delivering => DeliverySound(vault, client[p])
         /\ client[p].pc \in Syncing => SyncSound(client[p])
         /\ client[p].pc \notin Delivering \cup Syncing => client[p] = Idle
         /\ DOMAIN client[p] = Fields /\ client[p].read \in Nat
         /\ client[p].commit \in Nat
<1>1. ClientSound(vault, client[p])
  BY DEF CInv
<1>2. Idle.pc = "idle"
  BY IdleSound
<1>3. "idle" \notin Delivering \cup Syncing /\ Delivering \cap Syncing = {}
  BY DEF Delivering, Syncing
<1> QED
  BY <1>1, <1>2, <1>3 DEF ClientSound, Busy

\* Rows of deliveries nobody touches stay sound as the history grows.
LEMMA RowsKept ==
  ASSUME CInv, Grows(vault, vault'), delivery' = delivery
  PROVE  \A s \in Sessions : RowSound(vault', s, delivery'[s])
BY GrowsKeepsRows DEF CInv

LEMMA ClientMoves ==
  ASSUME VInv, NEW p \in Clients, OthersWait(p),
         vault' \in Vaults, Grows(vault, vault'), Rows',
         ClientSound(vault', client'[p]), Placed(client[p])', memory' = memory,
         \A s \in Sessions : RowSound(vault', s, delivery'[s]),
         overlaps' = 0 /\ InTurns =>
           TakesTurn(p) /\ ClientFresh(client[p])' /\ HistorySound' /\ MirrorSound',
         overlaps' = 0 => overlaps = 0
  PROVE  VInv'
<1>1. CInv'
  <2>1. ASSUME NEW q \in Clients PROVE ClientSound(vault', client'[q])
    <3>1. CASE q = p
      BY <3>1
    <3>2. CASE q # p
      <4>1. ClientSound(vault, client[q])
        BY DEF VInv, CInv
      <4> QED
        BY <3>2, <4>1, GrowsKeepsClients DEF OthersWait
    <3> QED
      BY <3>1, <3>2
  <2> QED
    BY <2>1 DEF CInv, OthersWait
<1>2. ASSUME overlaps' = 0 PROVE InTurns'
  <2>1. InTurns
    BY <1>2 DEF VInv
  <2>2. TakesTurn(p) /\ ClientFresh(client[p])' /\ HistorySound' /\ MirrorSound'
    BY <1>2, <2>1
  <2>3. \A q \in Clients \ {p} : client[q].pc = "idle"
    BY <2>1, <2>2 DEF InTurns, Turns, TakesTurn, Busy
  <2>4. \A q \in Clients \ {p} : client'[q].pc = "idle"
    BY <2>3 DEF OthersWait
  <2>5. Turns'
    BY <2>4 DEF Turns, Busy
  <2>6. \A q \in Clients : ClientFresh(client[q])'
    <3>1. ASSUME NEW q \in Clients \ {p} PROVE ClientFresh(client[q])'
      BY <2>4, <3>1 DEF ClientFresh, Delivering, Syncing
    <3> QED
      BY <2>2, <3>1
  <2> QED
    BY <2>2, <2>5, <2>6 DEF InTurns
<1>3. PInv'
  <2>1. ASSUME NEW q \in Clients \ {p} PROVE Placed(client[q])'
    <3>1. Placed(client[q]) /\ client'[q] = client[q]
      BY DEF VInv, PInv, OthersWait
    <3> QED
      BY <3>1 DEF Placed
  <2>2. \A d \in Directories : memory'[d] # << >>
    BY DEF VInv, PInv
  <2> QED
    BY <2>1, <2>2 DEF PInv
<1> QED
  BY <1>1, <1>2, <1>3 DEF VInv

\* A client's path is none of another kind.
LEMMA PathsApart ==
  ASSUME VaultClientsAssumption
  PROVE  /\ \A s, t \in Sessions : NotePath(s) = NotePath(t) => s = t
         /\ \A d, e \in Directories : FilePath(d) = FilePath(e) => d = e
         /\ \A s \in Sessions, d \in Directories :
              NotePath(s) \notin {FilePath(d), ManifestPath(d), UserPath}
         /\ \A d, e \in Directories : FilePath(d) \notin {ManifestPath(e), UserPath}
         /\ \A d \in Directories : ManifestPath(d) # UserPath
BY DEF VaultClientsAssumption, NotePath, FilePath, ManifestPath

\* What the history has is not disturbed by a step that leaves the notes, the
\* head and the history of the sessions as they are.
LEMMA HistoryKept ==
  ASSUME HistorySound, archived' = archived, vault'.log = vault.log,
         \A s \in Sessions :
           /\ vault'.notes[NotePath(s)] = vault.notes[NotePath(s)]
           /\ vault'.head[NotePath(s)] = vault.head[NotePath(s)]
  PROVE  HistorySound'
BY DEF HistorySound, NotePath, Document

LEMMA MirrorKept ==
  ASSUME MirrorSound, mirror' = mirror, memory' = memory, Grows(vault, vault'),
         \A d \in Directories :
           vault'.notes[FilePath(d)] = vault.notes[FilePath(d)]
  PROVE  MirrorSound'
<1>1. ASSUME NEW d \in Directories, mirror[d].state = "synced"
      PROVE  /\ Since(memory, d, mirror[d].hash, vault'.notes)
             /\ \/ mirror[d].again
                \/ Committed(memory, vault', d, mirror[d].hash, mirror[d].commit)
  <2>1. /\ Since(memory, d, mirror[d].hash, vault.notes)
        /\ \/ mirror[d].again
           \/ Committed(memory, vault, d, mirror[d].hash, mirror[d].commit)
    BY <1>1 DEF MirrorSound
  <2>2. Since(memory, d, mirror[d].hash, vault'.notes)
    BY <2>1 DEF Since
  <2> QED
    BY <2>1, <2>2, GrowsKeepsCommitted
<1> QED
  BY <1>1 DEF MirrorSound

\* A commit keeps the history sound: one of a session is of its newest
\* revision, whose note is all there is to commit, so it is the first of it.
LEMMA CommitHistory ==
  ASSUME CInv, HistorySound, NEW subject \in Subjects,
         archived' = archived, vault' = WithCommit(subject),
         subject[1] \in Sessions =>
           /\ subject[2] = archived[subject[1]]
           /\ vault.notes[NotePath(subject[1])] = Document(subject[2])
           /\ Dirty \subseteq {NotePath(subject[1])}
  PROVE  HistorySound'
<1>1. CASE Dirty = {}
  <2>1. vault' = vault
    BY <1>1 DEF WithCommit
  <2> QED
    BY <2>1, HistoryKept
<1>2. CASE Dirty # {}
  <2>1. PICK n \in Nat :
           /\ DOMAIN vault.log = 1 .. n
           /\ DOMAIN vault'.log = 1 .. (n + 1)
           /\ \A i \in 1 .. n : vault'.log[i] = vault.log[i]
           /\ vault'.log[n + 1].subject = subject
           /\ vault'.log[n + 1].tree = vault.notes
           /\ vault'.notes = vault.notes
           /\ vault'.head = vault.notes
    BY <1>2, CommitAppends DEF CInv
  <2>2. ASSUME NEW i \in 1 .. n, subject[1] \in Sessions
        PROVE  vault.log[i].subject # subject
    <3>1. SUFFICES ASSUME vault.log[i].subject = subject PROVE FALSE
      OBVIOUS
    <3> DEFINE s == subject[1]
    <3>2. vault.notes[NotePath(s)] = Document(subject[2])
          /\ vault.head[NotePath(s)] = Document(subject[2])
      BY <2>1, <2>2, <3>1 DEF HistorySound
    <3>3. Dirty = {}
      BY <2>2, <3>2 DEF Dirty
    <3> QED
      BY <1>2, <3>3
  <2>3. ASSUME NEW s \in Sessions, NEW i \in 1 .. (n + 1),
               vault'.log[i].subject[1] = s
        PROVE  LET k == vault'.log[i].subject[2]
               IN  /\ vault'.log[i].tree[NotePath(s)] = Document(k)
                   /\ k <= archived[s]
                   /\ k = archived[s] => vault.notes[NotePath(s)] = Document(k)
                   /\ \A j \in 1 .. (n + 1) :
                        vault'.log[j].subject = vault'.log[i].subject => i = j
    <3>1. CASE i = n + 1
      <4>1. subject[1] = s /\ subject[2] \in Nat
        BY <2>1, <2>3, <3>1 DEF Subjects
      <4>2. archived[s] \in Nat /\ subject[2] = archived[s]
        BY <4>1 DEF CInv, Rows
      <4>3. \A j \in 1 .. (n + 1) : vault'.log[j].subject = subject => j = n + 1
        <5>1. ASSUME NEW j \in 1 .. (n + 1), j # n + 1
              PROVE  vault'.log[j].subject # subject
          <6>1. j \in 1 .. n
            BY <5>1
          <6> QED
            BY <2>1, <2>2, <4>1, <6>1
        <5> QED
          BY <5>1
      <4> QED
        BY <2>1, <3>1, <4>1, <4>2, <4>3
    <3>2. CASE i # n + 1
      <4>1. i \in 1 .. n
        BY <3>2
      <4> DEFINE k == vault.log[i].subject[2]
      <4>2. vault'.log[i] = vault.log[i] /\ vault.log[i].subject[1] = s
        BY <2>1, <2>3, <4>1
      <4>3. /\ vault.log[i].tree[NotePath(s)] = Document(k)
            /\ k <= archived[s]
            /\ k = archived[s] => vault.notes[NotePath(s)] = Document(k)
            /\ \A j \in 1 .. n : vault.log[j].subject = vault.log[i].subject => i = j
        BY <2>1, <4>1, <4>2 DEF HistorySound
      <4>4. ASSUME NEW j \in 1 .. (n + 1), vault'.log[j].subject = vault'.log[i].subject
            PROVE  i = j
        <5>1. CASE j \in 1 .. n
          BY <2>1, <4>2, <4>3, <4>4, <5>1
        <5>2. CASE j = n + 1
          BY <2>1, <2>2, <4>1, <4>2, <4>4, <5>2
        <5> QED
          BY <5>1, <5>2
      <4> QED
        BY <4>2, <4>3, <4>4
    <3> QED
      BY <3>1, <3>2
  <2> QED
    BY <2>1, <2>3 DEF HistorySound
<1> QED
  BY <1>1, <1>2

\* A client done with an item goes on to the next, or ends.
LEMMA DoneSound ==
  ASSUME NEW v, NEW c, ClientSound(v, c)
  PROVE  /\ c.pc \in Delivering => ClientSound(v, Done(c, "next"))
         /\ c.pc \in Syncing => ClientSound(v, Done(c, "sync-next"))
<1>1. ASSUME c.pc \in Delivering PROVE ClientSound(v, Done(c, "next"))
  <2> DEFINE d == [c EXCEPT !.pc = "next", !.item = NoItem, !.read = 0, !.commit = 0,
                          !.again = FALSE]
  <2>1. DeliverySound(v, c) /\ DOMAIN c = Fields
    BY <1>1, IdleSound DEF ClientSound, Delivering, Syncing
  <2>2. /\ DOMAIN d = Fields /\ d.pc = "next" /\ d.read = 0 /\ d.commit = 0
        /\ d.todo = c.todo /\ d.gate = c.gate
    BY <2>1 DEF Fields
  <2> HIDE DEF d
  <2>3. ClientSound(v, d)
    BY <2>1, <2>2 DEF ClientSound, DeliverySound, Delivering
  <2> QED
    BY <2>3, IdleSound DEF Done, d
<1>2. ASSUME c.pc \in Syncing PROVE ClientSound(v, Done(c, "sync-next"))
  <2> DEFINE d == [c EXCEPT !.pc = "sync-next", !.item = NoItem, !.read = 0,
                            !.commit = 0, !.again = FALSE]
  <2>1. SyncSound(c) /\ DOMAIN c = Fields
    BY <1>2, IdleSound DEF ClientSound, Delivering, Syncing
  <2>2. /\ DOMAIN d = Fields /\ d.pc = "sync-next" /\ d.read = 0 /\ d.commit = 0
        /\ d.todo = c.todo /\ d.again \in BOOLEAN
    BY <2>1 DEF Fields
  <2> HIDE DEF d
  <2>3. ClientSound(v, d)
    BY <2>1, <2>2 DEF ClientSound, SyncSound, Syncing
  <2> QED
    BY <2>3, IdleSound DEF Done, d
<1> QED
  BY <1>1, <1>2

\* A delivery done with an item is no pass, a pass goes on to its next item.
LEMMA DoneLeaves ==
  ASSUME NEW c, DOMAIN c = Fields
  PROVE  /\ Done(c, "next").pc \notin Syncing
         /\ \/ Done(c, "sync-next").pc \notin Syncing
            \/ /\ Done(c, "sync-next").pc = "sync-next"
               /\ Done(c, "sync-next").todo = c.todo
BY IdleSound DEF Done, Fields, Syncing

-----------------------------------------------------------------------------
(* Starts.                                                                  *)

\* A run of deliveries starts on records of the newest revisions.
LEMMA DeliveryStarts ==
  ASSUME VaultClientsAssumption, SummaryDeliveryAssumption,
         VInv, NEW p \in Clients, NEW c, Starts(p, c, HistoryRequired),
         DOMAIN c = Fields, c.pc = "next", c.read = 0, c.commit = 0,
         c.todo \subseteq Records0, Rows',
         delivery' = delivery, mirror' = mirror, memory' = memory,
         \A i \in c.todo : i.ver = archived'[i.of],
         InTurns /\ SameTree(vault, vault') => HistorySound'
  PROVE  VInv'
<1>1. CInv /\ vault \in Vaults /\ Rows /\ DOMAIN client = Clients
  BY DEF VInv, CInv
<1>2. HistoryRequired \in BOOLEAN
  BY DEF SummaryDeliveryAssumption
<1>3. /\ vault' \in Vaults /\ Grows(vault, vault') /\ SameTree(vault, vault')
      /\ \E g \in Gates(HistoryRequired) :
           client' = [client EXCEPT ![p] = [c EXCEPT !.gate = g]]
      /\ overlaps' = 0 => overlaps = 0 /\ \A q \in Clients : ~Busy(q)
  BY <1>1, <1>2, StartsInTurn
<1>4. PICK g \in Gates(HistoryRequired) :
        client' = [client EXCEPT ![p] = [c EXCEPT !.gate = g]]
  BY <1>3
<1> DEFINE d == [c EXCEPT !.gate = g]
<1>5. /\ DOMAIN d = Fields /\ d.pc = "next" /\ d.read = 0 /\ d.commit = 0
      /\ d.todo = c.todo /\ d.gate = g
  BY DEF Fields
<1>6. client' = [client EXCEPT ![p] = d]
  BY <1>4
<1> HIDE DEF d
<1>7. client'[p] = d /\ OthersWait(p)
  BY <1>1, <1>6 DEF OthersWait
<1>8. ClientSound(vault', client'[p])
  BY <1>4, <1>5, <1>7 DEF ClientSound, DeliverySound, Delivering, Gates
<1>9. \A s \in Sessions : RowSound(vault', s, delivery'[s])
  BY <1>1, <1>3, RowsKept
<1>10. ASSUME overlaps' = 0, InTurns
       PROVE  TakesTurn(p) /\ ClientFresh(client[p])' /\ HistorySound' /\ MirrorSound'
  <2>1. TakesTurn(p)
    BY <1>3, <1>10 DEF TakesTurn
  <2>2. ClientFresh(client[p])'
    BY <1>5, <1>7 DEF ClientFresh, DeliveryFresh, Syncing
  <2>3. MirrorSound'
    BY <1>3, <1>10, MirrorKept DEF InTurns, SameTree
  <2> QED
    BY <1>3, <1>10, <2>1, <2>2, <2>3
<1>11. Placed(client[p])'
  BY <1>5, <1>7 DEF Placed, Syncing
<1> QED
  BY <1>3, <1>7, <1>8, <1>9, <1>10, <1>11, ClientMoves

\* A worker that archives a revision outdates what the history has of the
\* session, and starts to deliver it.
LEMMA WorkerArchivesSound ==
  ASSUME VaultClientsAssumption, SummaryDeliveryAssumption, NEW p \in Clients,
         NEW s \in Sessions, VInv, WorkerArchives(p, s), UNCHANGED memoryVars
  PROVE  VInv'
<1> DEFINE i == [of |-> s, ver |-> archived[s] + 1]
           c == [Idle EXCEPT !.pc = "next", !.lock = s, !.todo = {i}]
<1>1. vault \in Vaults /\ Rows
  BY DEF VInv, CInv
<1>2. archived \in [Sessions -> Nat] /\ archived[s] + 1 \in Nat
  BY <1>1 DEF Rows
<1>3. /\ archived' = [archived EXCEPT ![s] = archived[s] + 1]
      /\ Starts(p, c, HistoryRequired) /\ delivery' = delivery
      /\ mirror' = mirror /\ memory' = memory
  BY DEF WorkerArchives, memoryVars
<1>4. i \in Records0 /\ i.of = s /\ i.ver = archived'[s]
  BY <1>2, <1>3 DEF Records0
<1> HIDE DEF i
<1>5. /\ DOMAIN c = Fields /\ c.pc = "next" /\ c.read = 0 /\ c.commit = 0
      /\ c.todo = {i}
  BY DEF Idle, Fields
<1> HIDE DEF c
<1>6. HistoryRequired \in BOOLEAN
  BY DEF SummaryDeliveryAssumption
<1>7. faults' \in Nat /\ overlaps' \in Nat
  BY <1>1, <1>3, <1>6, StartsInTurn
<1>8. archived' \in [Sessions -> Nat]
  BY <1>2, <1>3
<1>9. Rows'
  BY <1>1, <1>3, <1>7, <1>8 DEF Rows
<1>10. ASSUME InTurns, SameTree(vault, vault') PROVE HistorySound'
  <2>1. ASSUME NEW t \in Sessions, NEW j \in DOMAIN vault.log,
               vault.log[j].subject[1] = t
        PROVE  /\ vault.log[j].subject[2] <= archived'[t]
               /\ vault.log[j].subject[2] = archived'[t] =>
                    vault.log[j].subject[2] = archived[t]
    <3>1. vault.log[j].subject[2] <= archived[t]
      BY <1>10, <2>1 DEF InTurns, HistorySound
    <3>2. vault.log[j].subject[2] \in Nat
      <4>1. vault.log \in Seq([subject : Subjects, tree : Trees])
        BY <1>1 DEF Vaults
      <4>2. vault.log[j] \in [subject : Subjects, tree : Trees]
        BY <2>1, <4>1, EntryIsOne
      <4> QED
        BY <4>2 DEF Subjects
    <3> QED
      BY <1>2, <1>3, <3>1, <3>2
  <2> QED
    BY <1>10, <2>1 DEF InTurns, HistorySound, SameTree
<1>11. c.todo \subseteq Records0 /\ \A k \in c.todo : k.ver = archived'[k.of]
  BY <1>4, <1>5
<1> QED
  BY <1>3, <1>5, <1>9, <1>10, <1>11, DeliveryStarts

\* tick and the operator start on the records of some sessions.
LEMMA RunBeginsSound ==
  ASSUME VaultClientsAssumption, SummaryDeliveryAssumption, NEW p \in Clients,
         NEW ss \in SUBSET Sessions, NEW force \in BOOLEAN,
         VInv, RunBegins(p, ss, force), UNCHANGED memoryVars
  PROVE  VInv'
<1> DEFINE todo == {r \in Records(ss) : r.ver > 0}
           c == [Idle EXCEPT !.pc = "next", !.todo = todo, !.force = force]
<1>1. vault \in Vaults /\ Rows
  BY DEF VInv, CInv
<1>2. /\ Starts(p, c, HistoryRequired) /\ delivery' = delivery
      /\ archived' = archived /\ mirror' = mirror /\ memory' = memory
  BY DEF RunBegins, memoryVars, deliveryVars
<1>3. \A k \in todo : k \in Records0 /\ k.ver = archived'[k.of]
  BY <1>1, <1>2 DEF Records, Records0, Rows
<1> HIDE DEF todo
<1>4. /\ DOMAIN c = Fields /\ c.pc = "next" /\ c.read = 0 /\ c.commit = 0
      /\ c.todo = todo
  BY DEF Idle, Fields
<1> HIDE DEF c
<1>5. HistoryRequired \in BOOLEAN
  BY DEF SummaryDeliveryAssumption
<1>6. faults' \in Nat /\ overlaps' \in Nat
  BY <1>1, <1>2, <1>5, StartsInTurn
<1>7. Rows'
  BY <1>1, <1>2, <1>6 DEF Rows
<1>8. ASSUME InTurns, SameTree(vault, vault') PROVE HistorySound'
  BY <1>2, <1>8, HistoryKept DEF InTurns, SameTree
<1> QED
  BY <1>2, <1>3, <1>4, <1>7, <1>8, DeliveryStarts

\* A pass starts on the directories that are not mirrored as they are.
LEMMA SyncBeginsSound ==
  ASSUME VaultClientsAssumption, NEW p \in Clients,
         NEW due \in BOOLEAN, NEW force \in BOOLEAN,
         VInv, SyncBegins(p, due, force), UNCHANGED deliveryVars
  PROVE  VInv'
<1> DEFINE todo == {[of |-> d, ver |-> Now(d)] :
                      d \in {e \in Directories : Eligible(e, due, force)}}
           c == [Idle EXCEPT !.pc = "sync-next", !.todo = todo, !.force = force]
<1>1. CInv /\ vault \in Vaults /\ Rows /\ DOMAIN client = Clients
  BY DEF VInv, CInv
<1>2. /\ Starts(p, c, TRUE) /\ UNCHANGED <<archived, delivery, memory, mirror>>
  BY DEF SyncBegins, memoryVars, deliveryVars
<1>3. \A i \in todo :
        i \in Hashes /\ i.ver = Len(memory[i.of])
  BY <1>1 DEF Hashes, Rows, Now
<1>4. \A i, j \in todo : i.of = j.of => i = j
  OBVIOUS
<1> HIDE DEF todo
<1>5. DOMAIN c = Fields /\ c.pc = "sync-next" /\ c.read = 0 /\ c.commit = 0
      /\ c.todo = todo /\ c.again \in BOOLEAN
  BY DEF Idle, Fields
<1> HIDE DEF c
<1>6. /\ vault' \in Vaults /\ Grows(vault, vault') /\ SameTree(vault, vault')
      /\ faults' \in Nat /\ overlaps' \in Nat
      /\ \E g \in Gates(TRUE) :
           client' = [client EXCEPT ![p] = [c EXCEPT !.gate = g]]
      /\ overlaps' = 0 => overlaps = 0 /\ \A q \in Clients : ~Busy(q)
  BY <1>1, <1>2, StartsInTurn
<1>7. PICK g \in Gates(TRUE) : client' = [client EXCEPT ![p] = [c EXCEPT !.gate = g]]
  BY <1>6
<1> DEFINE d == [c EXCEPT !.gate = g]
<1>8. /\ DOMAIN d = Fields /\ d.pc = "sync-next" /\ d.read = 0 /\ d.commit = 0
      /\ d.todo = todo /\ d.again \in BOOLEAN
  BY <1>5 DEF Fields
<1>9. client' = [client EXCEPT ![p] = d]
  BY <1>7
<1> HIDE DEF d
<1>10. client'[p] = d /\ OthersWait(p)
  BY <1>1, <1>9 DEF OthersWait
<1>11. ClientSound(vault', client'[p])
  BY <1>3, <1>8, <1>10 DEF ClientSound, SyncSound, Syncing
<1>12. \A s \in Sessions : RowSound(vault', s, delivery'[s])
  BY <1>1, <1>2, <1>6, RowsKept
<1>13. Rows'
  BY <1>1, <1>2, <1>6 DEF Rows
<1>14. ASSUME overlaps' = 0, InTurns
       PROVE  TakesTurn(p) /\ ClientFresh(client[p])' /\ HistorySound' /\ MirrorSound'
  <2>1. TakesTurn(p)
    BY <1>6, <1>14 DEF TakesTurn
  <2>2. \A i \in todo : Behind(i)'
    <3>1. ASSUME NEW i \in todo PROVE Behind(i)'
      <4>1. /\ i.of \in Directories /\ i.ver = Len(memory[i.of]) /\ i.ver \in Nat
            /\ mirror[i.of] \in Mirrors
        BY <1>1, <1>3 DEF Hashes, Rows
      <4>2. mirror[i.of].state = "synced" => mirror[i.of].hash <= Len(memory[i.of])
        <5>1. SUFFICES ASSUME mirror[i.of].state = "synced"
                       PROVE  mirror[i.of].hash <= Len(memory[i.of])
          OBVIOUS
        <5>2. Since(memory, i.of, mirror[i.of].hash, vault.notes)
          BY <1>14, <4>1, <5>1 DEF InTurns, MirrorSound
        <5>3. mirror[i.of].hash \in Nat /\ memory[i.of] \in Seq(Contents)
          BY <1>1, <4>1 DEF Mirrors, Rows
        <5> QED
          BY <5>2, <5>3, SinceBound
      <4>3. memory'[i.of] = memory[i.of] /\ mirror'[i.of] = mirror[i.of]
        BY <1>2
      <4>5. i.ver <= Len(memory[i.of])
        BY <4>1
      <4> QED
        BY <4>1, <4>2, <4>3, <4>5 DEF Behind
    <3> QED
      BY <3>1
  <2>3. ClientFresh(client[p])'
    BY <1>4, <1>8, <1>10, <2>2 DEF ClientFresh, SyncFresh, Delivering
  <2>4. HistorySound' /\ MirrorSound'
    BY <1>2, <1>6, <1>14, HistoryKept, MirrorKept DEF InTurns, SameTree
  <2> QED
    BY <2>1, <2>3, <2>4
<1>15. Placed(client[p])'
  <2>1. \A i \in todo : i.ver \in DOMAIN memory[i.of]
    <3>1. ASSUME NEW i \in todo PROVE i.ver \in DOMAIN memory[i.of]
      <4>1. /\ i.of \in Directories /\ i.ver = Len(memory[i.of])
            /\ memory[i.of] \in Seq(Contents) /\ memory[i.of] # << >>
        BY <1>1, <1>3 DEF Hashes, Rows, VInv, PInv
      <4> QED
        BY <4>1
    <3> QED
      BY <3>1
  <2> QED
    BY <1>2, <1>8, <1>10, <2>1 DEF Placed
<1> QED
  BY <1>2, <1>6, <1>10, <1>11, <1>12, <1>13, <1>14, <1>15, ClientMoves

-----------------------------------------------------------------------------
(* Steps of a delivery.                                                     *)

LEMMA MovesTo ==
  ASSUME CInv, NEW p \in Clients, NEW d, Moves(p, d)
  PROVE  client'[p] = d /\ OthersWait(p) /\ overlaps' = overlaps
BY DEF CInv, Moves, OthersWait

\* The client of an item done is on no item: what it still has to do is fresh.
LEMMA DoneDelivers ==
  ASSUME NEW p \in Clients, NEW c, DOMAIN c = Fields,
         client'[p] = Done(c, "next"), \A i \in c.todo : i.ver = archived'[i.of]
  PROVE  ClientFresh(client[p])'
<1>1. CASE client'[p] = Idle
  BY <1>1, IdleSound DEF ClientFresh, Delivering, Syncing
<1>2. CASE client'[p] # Idle
  <2> DEFINE d == [c EXCEPT !.pc = "next", !.item = NoItem, !.read = 0, !.commit = 0,
                          !.again = FALSE]
  <2>1. client'[p] = d
    BY <1>2 DEF Done
  <2>2. d.pc = "next" /\ d.todo = c.todo
    BY DEF Fields
  <2> HIDE DEF d
  <2> QED
    BY <2>1, <2>2 DEF ClientFresh, DeliveryFresh, Syncing
<1> QED
  BY <1>1, <1>2

LEMMA DeliverNextSound ==
  ASSUME VaultClientsAssumption, NEW p \in Clients,
         VInv, DeliverNext(p), UNCHANGED memoryVars
  PROVE  VInv'
<1> DEFINE c == client[p]
<1>1. CInv /\ vault \in Vaults /\ Rows
  BY DEF VInv, CInv
<1>2. /\ c.pc = "next" /\ c.todo \subseteq Records0 /\ DOMAIN c = Fields
      /\ DeliverySound(vault, c) /\ ClientSound(vault, c)
      /\ c.read \in Nat /\ c.commit \in Nat /\ Busy(p)
  <2>1. c.pc = "next" /\ c.pc \in Delivering
    BY DEF DeliverNext, Delivering
  <2>2. DeliverySound(vault, c) /\ ClientSound(vault, c) /\ Busy(p)
    BY <1>1, <2>1, BusyWorks DEF CInv
  <2> QED
    BY <2>1, <2>2 DEF ClientSound, DeliverySound
<1>3. PICK i \in c.todo :
        /\ SetDelivery(i.of, TargetRow(delivery[i.of], NoDelivery, c.force))
        /\ LET r    == TargetRow(delivery[i.of], NoDelivery, c.force)
               next == [c EXCEPT !.item = i, !.todo = @ \ {i}]
           IN  Moves(p,
            CASE r.state = "dead-letter" \/ Current(r, i.ver) -> Done(next, "next")
              [] c.gate \in {"unavailable", "error"} -> [next EXCEPT !.pc = "block"]
              [] c.gate = "available" ->
                   [next EXCEPT !.pc = "preflight", !.read = archived[i.of]]
              [] OTHER -> [next EXCEPT !.pc = "write", !.read = archived[i.of]])
  BY DEF DeliverNext
<1> DEFINE r == TargetRow(delivery[i.of], NoDelivery, c.force)
           next == [c EXCEPT !.item = i, !.todo = c.todo \ {i}]
           block == [next EXCEPT !.pc = "block"]
           preflight == [next EXCEPT !.pc = "preflight", !.read = archived[i.of]]
           write == [next EXCEPT !.pc = "write", !.read = archived[i.of]]
<1>4. UNCHANGED <<vault, faults, archived, memory, mirror>>
  BY DEF DeliverNext, vaultVars, memoryVars
<1>5. i \in Records0 /\ i.of \in Sessions /\ archived[i.of] \in Nat
  BY <1>1, <1>2 DEF Records0, Rows
<1>6. /\ DOMAIN next = Fields /\ next.pc = "next" /\ next.item = i
      /\ next.todo \subseteq c.todo /\ next.gate = c.gate
      /\ next.read = c.read /\ next.commit = c.commit
  BY <1>2 DEF Fields
<1> HIDE DEF next
<1>7. ClientSound(vault, next)
  BY <1>2, <1>5, <1>6 DEF ClientSound, DeliverySound, Delivering
<1>8. ClientSound(vault, Done(next, "next"))
  BY <1>6, <1>7, DoneSound DEF Delivering
<1>9. /\ DOMAIN block = Fields /\ block.pc = "block" /\ block.item = i
      /\ block.todo = next.todo /\ block.gate = c.gate
      /\ block.read = c.read /\ block.commit = c.commit
  BY <1>6 DEF Fields
<1>10. /\ DOMAIN preflight = Fields /\ preflight.pc = "preflight"
       /\ preflight.item = i /\ preflight.todo = next.todo
       /\ preflight.gate = c.gate /\ preflight.read = archived[i.of]
       /\ preflight.commit = c.commit
  BY <1>6 DEF Fields
<1>11. /\ DOMAIN write = Fields /\ write.pc = "write" /\ write.item = i
       /\ write.todo = next.todo /\ write.gate = c.gate
       /\ write.read = archived[i.of] /\ write.commit = c.commit
  BY <1>6 DEF Fields
<1>12. \/ client'[p] = Done(next, "next") \/ client'[p] = block
       \/ client'[p] = preflight /\ c.gate = "available"
       \/ client'[p] = write /\ c.gate \notin {"available", "unavailable", "error"}
  <2> DEFINE d == CASE r.state = "dead-letter" \/ Current(r, i.ver) -> Done(next, "next")
              [] c.gate \in {"unavailable", "error"} -> block
              [] c.gate = "available" -> preflight
              [] OTHER -> write
  <2>1. Moves(p, d)
    BY <1>3 DEF next
  <2>2. client'[p] = d
    BY <1>1, <2>1, MovesTo
  <2> HIDE DEF r, block, preflight, write
  <2> QED
    BY <2>2
<1>13. OthersWait(p) /\ overlaps' = overlaps
  BY <1>1, <1>3, MovesTo
<1> HIDE DEF block, preflight, write
<1>14. ClientSound(vault, client'[p])
  <2>1. CASE client'[p] = block
    BY <1>2, <1>5, <1>6, <1>9, <2>1 DEF ClientSound, DeliverySound, Delivering
  <2>2. CASE client'[p] = preflight /\ c.gate = "available"
    BY <1>2, <1>5, <1>6, <1>10, <2>2 DEF ClientSound, DeliverySound, Delivering
  <2>3. CASE client'[p] = write /\ c.gate \notin {"available", "unavailable", "error"}
    <3>1. write.gate \in {"available", "not-required"}
      BY <1>2, <1>11, <2>3 DEF DeliverySound
    <3> QED
      BY <1>2, <1>5, <1>6, <1>11, <2>3, <3>1
      DEF ClientSound, DeliverySound, Delivering
  <2> QED
    BY <1>8, <1>12, <2>1, <2>2, <2>3
<1>15. /\ r \in Deliveries /\ RowSound(vault, i.of, r)
       /\ delivery' = [delivery EXCEPT ![i.of] = r]
  BY <1>1, <1>3, <1>5, TargetRowSound DEF CInv, Rows, SetDelivery
<1> HIDE DEF r
<1>16. \A s \in Sessions : RowSound(vault', s, delivery'[s])
  BY <1>1, <1>4, <1>5, <1>15 DEF CInv, Rows
<1>17. Rows'
  BY <1>1, <1>4, <1>13, <1>15 DEF Rows
<1>18. ASSUME InTurns PROVE ClientFresh(client[p])'
  <2>1. /\ \A k \in next.todo : k.ver = archived'[k.of]
        /\ i.ver = archived'[i.of]
    BY <1>2, <1>3, <1>4, <1>6, <1>18 DEF InTurns, ClientFresh, DeliveryFresh, Delivering
  <2>2. CASE client'[p] = Done(next, "next")
    BY <1>6, <2>1, <2>2, DoneDelivers
  <2>3. CASE client'[p] = block
    BY <1>9, <2>1, <2>3 DEF ClientFresh, DeliveryFresh, Syncing
  <2>4. CASE client'[p] = preflight
    BY <1>4, <1>10, <2>1, <2>4 DEF ClientFresh, DeliveryFresh, Syncing
  <2>5. CASE client'[p] = write /\ c.gate \notin {"available", "unavailable", "error"}
    BY <1>4, <1>11, <2>1, <2>5 DEF ClientFresh, DeliveryFresh, Syncing
  <2> QED
    BY <1>12, <2>2, <2>3, <2>4, <2>5
<1>19. InTurns => TakesTurn(p) /\ HistorySound' /\ MirrorSound'
  BY <1>2, <1>4, GrowsItself, HistoryKept, MirrorKept DEF InTurns, TakesTurn
<1>20. Grows(vault, vault') /\ vault' \in Vaults
  BY <1>1, <1>4, GrowsItself
<1>21. ClientSound(vault', client'[p])
  BY <1>4, <1>14
<1>22. Placed(client[p])'
  <2>2. CASE client'[p] = Done(next, "next")
    BY <1>6, <2>2, DoneLeaves DEF Placed
  <2>3. CASE client'[p] \in {block, preflight, write}
    BY <1>9, <1>10, <1>11, <2>3 DEF Placed, Syncing
  <2> QED
    BY <1>12, <2>2, <2>3
<1> QED
  BY <1>4, <1>13, <1>16, <1>17, <1>18, <1>19, <1>20, <1>21, <1>22, ClientMoves

\* What a delivery at work on an item is known to be.
LEMMA AtItem ==
  ASSUME CInv, SummaryDeliveryAssumption, NEW p \in Clients,
         client[p].pc \in Delivering \ {"next"}
  PROVE  /\ DeliverySound(vault, client[p]) /\ ClientSound(vault, client[p])
         /\ DOMAIN client[p] = Fields /\ client[p].read \in Nat
         /\ client[p].commit \in Nat /\ Busy(p) /\ client[p].todo \subseteq Records0
         /\ client[p].item \in Records0 /\ client[p].item.of \in Sessions
         /\ client[p].item.ver \in Nat /\ NotePath(client[p].item.of) \in Paths
         /\ archived[client[p].item.of] \in Nat
<1>1. DeliverySound(vault, client[p]) /\ ClientSound(vault, client[p]) /\ Busy(p)
  BY BusyWorks DEF CInv
<1>2. client[p].item \in Records0 /\ client[p].todo \subseteq Records0
  BY <1>1 DEF DeliverySound
<1>3. client[p].item.of \in Sessions /\ client[p].item.ver \in Nat
  BY <1>2 DEF Records0
<1> QED
  BY <1>1, <1>2, <1>3 DEF ClientSound, NotePath, SummaryDeliveryAssumption, CInv, Rows

\* The clean-tree check holds the vault to what it is until the commit.
LEMMA PreflightSound ==
  ASSUME VaultClientsAssumption, SummaryDeliveryAssumption, NEW p \in Clients,
         VInv, Preflight(p), UNCHANGED memoryVars
  PROVE  VInv'
<1> DEFINE c == client[p]
           clean == Dirty \subseteq {NotePath(c.item.of)}
           d(pc) == [c EXCEPT !.pc = pc]
<1>1. CInv /\ vault \in Vaults /\ Rows
  BY DEF VInv, CInv
<1>2. c.pc = "preflight" /\ c.pc \in Delivering \ {"next"}
  BY DEF Preflight, Delivering
<1>3. /\ vault' = vault /\ UNCHANGED <<archived, delivery, memory, mirror>>
      /\ faults' \in Nat
      /\ \E pc \in {"write", "block", "fail"} : Goes(p, pc) /\ (pc = "write" => clean)
  <2>1. UNCHANGED <<archived, delivery, memory, mirror>>
    BY DEF Preflight, deliveryVars, memoryVars
  <2>2. CASE Goes(p, IF clean THEN "write" ELSE "block") /\ UNCHANGED vaultVars
    <3>1. (clean /\ Goes(p, "write")) \/ Goes(p, "block")
      BY <2>2
    <3> QED
      BY <1>1, <2>1, <2>2, <3>1 DEF vaultVars, Rows
  <2>3. CASE Request([vault |-> vault, fault |-> 1]) /\ Goes(p, "fail")
    BY <1>1, <2>1, <2>3 DEF Request, Rows
  <2> QED
    BY <2>2, <2>3 DEF Preflight
<1>4. PICK pc \in {"write", "block", "fail"} : Goes(p, pc) /\ (pc = "write" => clean)
  BY <1>3
<1>5. client'[p] = d(pc) /\ OthersWait(p) /\ overlaps' = overlaps
  BY <1>1, <1>4, MovesTo DEF Goes
<1>6. /\ DOMAIN d(pc) = Fields /\ d(pc).pc = pc /\ d(pc).item = c.item
      /\ d(pc).todo = c.todo /\ d(pc).gate = c.gate /\ d(pc).read = c.read
      /\ d(pc).commit = c.commit
  BY <1>1, <1>2, AtItem DEF Fields
<1> DEFINE e == d(pc)
<1> HIDE DEF d, clean, e
<1>7. ClientSound(vault, e)
  BY <1>1, <1>2, <1>6, AtItem DEF ClientSound, DeliverySound, Delivering, e
<1>8. ASSUME InTurns
      PROVE  TakesTurn(p) /\ ClientFresh(client[p])' /\ HistorySound' /\ MirrorSound'
  <2>1. DeliveryFresh(c)
    BY <1>2, <1>8 DEF InTurns, ClientFresh
  <2>2. e.pc = "write" => Dirty' \subseteq {NotePath(c.item.of)}
    BY <1>3, <1>4, <1>6 DEF Dirty, clean, e
  <2>3. ClientFresh(client[p])'
    BY <1>2, <1>3, <1>5, <1>6, <2>1, <2>2
    DEF ClientFresh, DeliveryFresh, Syncing, e
  <2> QED
    BY <1>1, <1>2, <1>3, <1>8, <2>3, AtItem, GrowsItself, HistoryKept, MirrorKept
    DEF InTurns, TakesTurn
<1>9. Grows(vault, vault') /\ vault' \in Vaults /\ Rows'
  BY <1>1, <1>3, <1>5, GrowsItself DEF Rows
<1>10. \A s \in Sessions : RowSound(vault', s, delivery'[s])
  BY <1>1, <1>3, <1>9, RowsKept
<1>11. ClientSound(vault', client'[p])
  BY <1>3, <1>5, <1>7 DEF e
<1>12. Placed(client[p])'
  BY <1>5, <1>6 DEF Placed, Syncing, e
<1> QED
  BY <1>3, <1>5, <1>8, <1>9, <1>10, <1>11, <1>12, ClientMoves

\* A delivery writes the document of the newest revision, and nothing else.
LEMMA WriteNoteSound ==
  ASSUME VaultClientsAssumption, SummaryDeliveryAssumption, MemorySyncAssumption,
         NEW p \in Clients, VInv, WriteNote(p), UNCHANGED memoryVars
  PROVE  VInv'
<1> DEFINE c == client[p]
           document == [rev |-> c.item.ver, body |-> c.read]
           path == NotePath(c.item.of)
           d(pc) == [c EXCEPT !.pc = pc]
<1>1. CInv /\ vault \in Vaults /\ Rows
  BY DEF VInv, CInv
<1>2. c.pc = "write" /\ c.pc \in Delivering \ {"next"}
  BY DEF WriteNote, Delivering
<1>3. /\ DeliverySound(vault, c) /\ path \in Paths /\ document \in Notes
      /\ DOMAIN c = Fields /\ c.item.of \in Sessions
  BY <1>1, <1>2, AtItem DEF Notes
<1>4. PICK o \in WriteOutcomes(WithNote(path, document)) :
        /\ Request(o)
        /\ Goes(p, IF ~o.ok THEN "fail"
                   ELSE IF c.gate = "available" THEN "commit" ELSE "record")
  BY DEF WriteNote
<1>5. UNCHANGED <<archived, delivery, memory, mirror>>
  BY DEF WriteNote, deliveryVars, memoryVars
<1> HIDE DEF document, path
<1>6. /\ o.vault \in {vault, WithNote(path, document)}
      /\ o.vault \in Vaults /\ Grows(vault, o.vault)
      /\ o.vault.log = vault.log /\ o.vault.head = vault.head
      /\ o.ok \in BOOLEAN /\ (o.ok => o.vault = WithNote(path, document))
      /\ o.fault \in Nat
  BY <1>1, <1>3, <1>4, WriteOutcome
<1>7. vault' = o.vault /\ faults' \in Nat
  BY <1>1, <1>4, <1>6 DEF Request, Rows
<1>8. /\ vault' \in Vaults /\ Grows(vault, vault')
      /\ vault'.log = vault.log /\ vault'.head = vault.head
      /\ \/ vault'.notes = vault.notes
         \/ vault'.notes = [vault.notes EXCEPT ![path] = document]
  BY <1>1, <1>3, <1>6, <1>7, NoteWritten
<1>9. PICK pc \in {"fail", "commit", "record"} :
        /\ Goes(p, pc)
        /\ pc = "commit" => c.gate = "available"
        /\ pc = "record" => c.gate # "available"
        /\ pc = "commit" => vault'.notes = [vault.notes EXCEPT ![path] = document]
  <2>1. CASE ~o.ok
    BY <1>4, <2>1
  <2>2. CASE o.ok /\ c.gate = "available"
    BY <1>1, <1>3, <1>4, <1>6, <1>7, <2>2, NoteWritten
  <2>3. CASE o.ok /\ c.gate # "available"
    BY <1>4, <2>3
  <2> QED
    BY <1>6, <2>1, <2>2, <2>3
<1>10. client'[p] = d(pc) /\ OthersWait(p) /\ overlaps' = overlaps
  BY <1>1, <1>9, MovesTo DEF Goes
<1>11. /\ DOMAIN d(pc) = Fields /\ d(pc).pc = pc /\ d(pc).item = c.item
       /\ d(pc).todo = c.todo /\ d(pc).gate = c.gate /\ d(pc).read = c.read
       /\ d(pc).commit = c.commit
  BY <1>3 DEF Fields
<1> DEFINE e == d(pc)
<1> HIDE DEF d, e
<1>12. ClientSound(vault, e)
  <2>1. e.pc = "record" => e.gate = "not-required"
    BY <1>2, <1>3, <1>9, <1>11 DEF DeliverySound, e
  <2> QED
    BY <1>1, <1>2, <1>3, <1>9, <1>11, <2>1, AtItem
    DEF ClientSound, DeliverySound, Delivering, e
<1>13. ASSUME InTurns
       PROVE  TakesTurn(p) /\ ClientFresh(client[p])' /\ HistorySound' /\ MirrorSound'
  <2>1. /\ DeliveryFresh(c) /\ c.item.ver = archived[c.item.of]
        /\ document = Document(archived[c.item.of])
    BY <1>2, <1>13 DEF InTurns, ClientFresh, DeliveryFresh, document, Document, Delivering
  <2>2. vault.notes \in Trees
    BY <1>1 DEF Vaults
  <2>3. pc = "commit" => vault'.notes[path] = Document(c.item.ver)
    BY <1>3, <1>9, <2>1, <2>2 DEF Trees
  <2>4. c.gate = "available" => Dirty' \subseteq {path}
    <3>1. SUFFICES ASSUME c.gate = "available", NEW x \in Paths, x # path,
                          vault'.notes[x] # vault'.head[x]
                   PROVE  FALSE
      BY DEF Dirty
    <3>2. vault'.notes[x] = vault.notes[x]
      BY <1>8, <2>2, <3>1 DEF Trees
    <3>3. x \in Dirty
      BY <1>8, <3>1, <3>2 DEF Dirty
    <3> QED
      BY <1>2, <2>1, <3>1, <3>3 DEF DeliveryFresh, path
  <2>5. ClientFresh(client[p])'
    BY <1>5, <1>9, <1>10, <1>11, <2>1, <2>3, <2>4
    DEF ClientFresh, DeliveryFresh, Syncing, e, path
  <2>6. HistorySound'
    <3>1. ASSUME NEW s \in Sessions
          PROVE  vault'.notes[NotePath(s)] \in {vault.notes[NotePath(s)],
                   Document(archived[s])}
      <4>1. NotePath(s) = path => s = c.item.of
        BY <1>3, PathsApart DEF path
      <4>2. NotePath(s) \in Paths
        BY DEF NotePath, SummaryDeliveryAssumption
      <4> QED
        BY <1>8, <2>1, <2>2, <4>1, <4>2 DEF Trees
    <3> QED
      BY <1>5, <1>8, <1>13, <3>1 DEF InTurns, HistorySound
  <2>7. MirrorSound'
    <3>1. \A f \in Directories : vault'.notes[FilePath(f)] = vault.notes[FilePath(f)]
      <4>1. ASSUME NEW f \in Directories
            PROVE  FilePath(f) \in Paths /\ FilePath(f) # path
        BY <1>3, PathsApart DEF path, FilePath, MemorySyncAssumption
      <4> QED
        BY <1>8, <2>2, <4>1 DEF Trees
    <3> QED
      BY <1>5, <1>8, <1>13, <3>1, MirrorKept DEF InTurns
  <2> QED
    BY <1>1, <1>2, <2>5, <2>6, <2>7, AtItem DEF TakesTurn
<1>14. Rows'
  BY <1>1, <1>5, <1>7, <1>10 DEF Rows
<1>15. \A s \in Sessions : RowSound(vault', s, delivery'[s])
  BY <1>1, <1>5, <1>8, RowsKept
<1>16. ClientSound(vault', client'[p])
  BY <1>8, <1>10, <1>12, GrowsKeepsClients DEF e
<1>17. Placed(client[p])'
  BY <1>9, <1>10, <1>11 DEF Placed, Syncing, e
<1> QED
  BY <1>5, <1>8, <1>10, <1>13, <1>14, <1>15, <1>16, <1>17, ClientMoves

\* A delivery commits its note, the vault's only change, once.
LEMMA CommitNoteSound ==
  ASSUME VaultClientsAssumption, SummaryDeliveryAssumption, NEW p \in Clients,
         VInv, CommitNote(p), UNCHANGED memoryVars
  PROVE  VInv'
<1> DEFINE c == client[p]
           subject == Subject(c.item.of, c.item.ver)
<1>1. CInv /\ vault \in Vaults /\ Rows
  BY DEF VInv, CInv
<1>2. c.pc = "commit" /\ c.pc \in Delivering \ {"next"}
  BY DEF CommitNote, Delivering
<1>3. /\ DeliverySound(vault, c) /\ DOMAIN c = Fields /\ c.item.of \in Sessions
      /\ c.item.ver \in Nat /\ c.gate = "available" /\ c.item \in Records0
      /\ c.todo \subseteq Records0 /\ c.read \in Nat
  BY <1>1, <1>2, AtItem DEF DeliverySound
<1>4. subject \in Subjects /\ subject[1] = c.item.of /\ subject[2] = c.item.ver
  BY <1>3 DEF Subject, Subjects
<1>5. PICK o \in Correlate(subject) :
        /\ Request(o)
        /\ Moves(p, [c EXCEPT !.pc = IF o.commit = 0 THEN "fail" ELSE "record",
                              !.commit = o.commit])
  BY DEF CommitNote
<1>6. UNCHANGED <<archived, delivery, memory, mirror>>
  BY DEF CommitNote, deliveryVars, memoryVars
<1> DEFINE pc == IF o.commit = 0 THEN "fail" ELSE "record"
           n == o.commit
           d == [c EXCEPT !.pc = pc, !.commit = n]
<1>7. client'[p] = d /\ OthersWait(p) /\ overlaps' = overlaps
  BY <1>1, <1>5, MovesTo
<1>8. pc \in {"fail", "record"} /\ (pc = "record" => n # 0)
  OBVIOUS
<1> HIDE DEF subject, pc, n
<1>9. /\ o.vault \in {vault, WithCommit(subject)}
      /\ o.vault \in Vaults /\ Grows(vault, o.vault)
      /\ n \in Nat /\ (n # 0 => Found(o.vault, n, subject))
      /\ o.fault \in Nat
  BY <1>1, <1>4, <1>5, CorrelateOutcome DEF n
<1>10. vault' = o.vault /\ faults' \in Nat
  BY <1>1, <1>5, <1>9 DEF Request, Rows
<1>11. /\ DOMAIN d = Fields /\ d.pc = pc /\ d.item = c.item /\ d.todo = c.todo
       /\ d.gate = c.gate /\ d.read = c.read /\ d.commit = n
  BY <1>3 DEF Fields
<1> HIDE DEF d
<1>12. ClientSound(vault', d)
  <2>1. d.pc = "record" => Found(vault', d.commit, Subject(d.item.of, d.item.ver))
    BY <1>8, <1>9, <1>10, <1>11 DEF subject
  <2>2. DeliverySound(vault', d)
    BY <1>3, <1>8, <1>11, <2>1 DEF DeliverySound
  <2> QED
    BY <1>3, <1>8, <1>9, <1>11, <2>2 DEF ClientSound, Delivering
<1>13. ASSUME InTurns
       PROVE  TakesTurn(p) /\ ClientFresh(client[p])' /\ HistorySound' /\ MirrorSound'
  <2>1. DeliveryFresh(c)
    BY <1>2, <1>13 DEF InTurns, ClientFresh
  <2>2. /\ c.item.ver = archived[c.item.of]
        /\ vault.notes[NotePath(c.item.of)] = Document(c.item.ver)
        /\ Dirty \subseteq {NotePath(c.item.of)}
    BY <1>2, <1>3, <2>1 DEF DeliveryFresh
  <2>3. ClientFresh(client[p])'
    BY <1>6, <1>7, <1>8, <1>11, <2>1, <2>2 DEF ClientFresh, DeliveryFresh, Syncing
  <2>4. CASE vault' = vault
    BY <1>1, <1>2, <1>6, <1>13, <2>3, <2>4, AtItem, GrowsItself, HistoryKept, MirrorKept
    DEF InTurns, TakesTurn
  <2>5. CASE vault' = WithCommit(subject)
    <3>1. HistorySound'
      BY <1>1, <1>4, <1>6, <1>13, <2>2, <2>5, CommitHistory DEF InTurns
    <3>2. vault'.notes = vault.notes
      BY <1>1, <1>4, <2>5, CommitAppends DEF WithCommit
    <3>3. MirrorSound'
      BY <1>6, <1>9, <1>10, <1>13, <3>2, MirrorKept DEF InTurns
    <3> QED
      BY <1>1, <1>2, <2>3, <3>1, <3>3, AtItem DEF TakesTurn
  <2> QED
    BY <1>9, <1>10, <2>4, <2>5
<1>14. Rows'
  BY <1>1, <1>6, <1>7, <1>10 DEF Rows
<1>15. \A s \in Sessions : RowSound(vault', s, delivery'[s])
  BY <1>1, <1>6, <1>9, <1>10, RowsKept
<1>16. vault' \in Vaults /\ Grows(vault, vault') /\ ClientSound(vault', client'[p])
  BY <1>7, <1>9, <1>10, <1>12
<1>17. Placed(client[p])'
  BY <1>7, <1>8, <1>11 DEF Placed, Syncing
<1> QED
  BY <1>6, <1>7, <1>13, <1>14, <1>15, <1>16, <1>17, ClientMoves

\* A delivery recorded names the commit it found, when it must be preserved.
LEMMA RecordDeliverySound ==
  ASSUME VaultClientsAssumption, SummaryDeliveryAssumption, NEW p \in Clients,
         VInv, RecordDelivery(p), UNCHANGED memoryVars
  PROVE  VInv'
<1> DEFINE c == client[p]
           s == c.item.of
           done == [state |-> "delivered", rev |-> c.item.ver,
                    commit |-> c.commit, attempts |-> 0]
<1>1. CInv /\ vault \in Vaults /\ Rows
  BY DEF VInv, CInv
<1>2. c.pc \in {"record", "block", "fail"} /\ c.pc \in Delivering \ {"next"}
  BY DEF RecordDelivery, Delivering
<1>3. /\ DeliverySound(vault, c) /\ ClientSound(vault, c) /\ DOMAIN c = Fields
      /\ s \in Sessions /\ c.item.ver \in Nat /\ c.commit \in Nat /\ Busy(p)
      /\ delivery[s] \in Deliveries
  BY <1>1, <1>2, AtItem DEF Rows
<1>4. /\ vault' = vault /\ UNCHANGED <<faults, archived, memory, mirror>>
      /\ Moves(p, Done(c, "next"))
  BY DEF RecordDelivery, vaultVars, memoryVars
<1>5. client'[p] = Done(c, "next") /\ OthersWait(p) /\ overlaps' = overlaps
  BY <1>1, <1>4, MovesTo
<1>6. ClientSound(vault, Done(c, "next"))
  BY <1>2, <1>3, DoneSound
<1>7. PICK r \in Deliveries : SetDelivery(s, r) /\ RowSound(vault, s, r)
  <2>1. CASE c.pc = "record" /\ SetDelivery(s, done)
    <3>1. done \in Deliveries /\ done.rev = c.item.ver /\ done.commit = c.commit
      BY <1>3 DEF Deliveries, States
    <3> HIDE DEF done
    <3>2. HistoryRequired => c.gate = "available"
      BY <1>3, <2>1 DEF DeliverySound
    <3>3. RowSound(vault, s, done)
      BY <1>3, <2>1, <3>1, <3>2 DEF DeliverySound, RowSound
    <3> QED
      BY <2>1, <3>1, <3>3
  <2>2. CASE SetDelivery(s, BlockedRow(delivery[s]))
    BY <1>3, <2>2, FailedRowSound
  <2>3. CASE SetDelivery(s, FailedRow(delivery[s]))
    BY <1>3, <2>3, FailedRowSound
  <2> QED
    BY <2>1, <2>2, <2>3 DEF RecordDelivery
<1>8. delivery' = [delivery EXCEPT ![s] = r]
  BY <1>7 DEF SetDelivery
<1>9. \A t \in Sessions : RowSound(vault', t, delivery'[t])
  BY <1>1, <1>4, <1>7, <1>8 DEF CInv, Rows
<1>10. Rows'
  BY <1>1, <1>4, <1>5, <1>7, <1>8 DEF Rows
<1>11. ASSUME InTurns
       PROVE  TakesTurn(p) /\ ClientFresh(client[p])' /\ HistorySound' /\ MirrorSound'
  <2>1. \A i \in c.todo : i.ver = archived'[i.of]
    BY <1>2, <1>4, <1>11 DEF InTurns, ClientFresh, DeliveryFresh
  <2>2. ClientFresh(client[p])'
    BY <1>3, <1>5, <2>1, DoneDelivers
  <2> QED
    BY <1>3, <1>4, <1>11, <2>2, GrowsItself, HistoryKept, MirrorKept DEF InTurns, TakesTurn
<1>12. vault' \in Vaults /\ Grows(vault, vault') /\ ClientSound(vault', client'[p])
  BY <1>1, <1>4, <1>5, <1>6, GrowsItself
<1>13. Placed(client[p])'
  BY <1>3, <1>5, DoneLeaves DEF Placed
<1> QED
  BY <1>4, <1>5, <1>9, <1>10, <1>11, <1>12, <1>13, ClientMoves

-----------------------------------------------------------------------------
(* Steps of a pass.                                                         *)

\* What a pass is known to be.
LEMMA AtPass ==
  ASSUME CInv, NEW p \in Clients, client[p].pc \in Syncing
  PROVE  /\ SyncSound(client[p]) /\ ClientSound(vault, client[p])
         /\ DOMAIN client[p] = Fields /\ client[p].read \in Nat
         /\ client[p].commit \in Nat /\ Busy(p) /\ client[p].todo \subseteq Hashes
         /\ \A i \in Hashes : i.of \in Directories /\ i.ver \in Nat
         /\ client[p].pc # "sync-next" => client[p].item \in Hashes
BY BusyWorks DEF CInv, SyncSound, Hashes

\* What a pass at a directory is known of it.
LEMMA AtDirectory ==
  ASSUME CInv, MemorySyncAssumption, NEW p \in Clients,
         client[p].pc \in Syncing \ {"sync-next"}
  PROVE  /\ client[p].item \in Hashes /\ client[p].item.of \in Directories
         /\ client[p].item.ver \in Nat
         /\ FilePath(client[p].item.of) \in Paths
         /\ ManifestPath(client[p].item.of) \in Paths
         /\ memory[client[p].item.of] \in Seq(Contents)
         /\ Len(memory[client[p].item.of]) \in Nat
         /\ mirror[client[p].item.of] \in Mirrors
<1>1. /\ client[p].item \in Hashes /\ client[p].item.of \in Directories
      /\ client[p].item.ver \in Nat
  BY AtPass
<1>2. memory[client[p].item.of] \in Seq(Contents)
  BY <1>1 DEF CInv, Rows
<1>3. Len(memory[client[p].item.of]) \in Nat
  BY <1>2
<1> QED
  BY <1>1, <1>2, <1>3 DEF CInv, Rows, FilePath, ManifestPath, MemorySyncAssumption

\* A pass done with a directory goes on to others, whose rows it left alone.
LEMMA DoneSyncs ==
  ASSUME NEW p \in Clients, NEW c, DOMAIN c = Fields,
         client'[p] = Done(c, "sync-next"),
         \A i \in c.todo : Behind(i)',
         \A i, j \in c.todo : i.of = j.of => i = j
  PROVE  ClientFresh(client[p])'
<1>1. CASE client'[p] = Idle
  BY <1>1, IdleSound DEF ClientFresh, Delivering, Syncing
<1>2. CASE client'[p] # Idle
  <2> DEFINE d == [c EXCEPT !.pc = "sync-next", !.item = NoItem, !.read = 0,
                            !.commit = 0, !.again = FALSE]
  <2>1. client'[p] = d
    BY <1>2 DEF Done
  <2>2. d.pc = "sync-next" /\ d.todo = c.todo
    BY DEF Fields
  <2> HIDE DEF d
  <2> QED
    BY <2>1, <2>2 DEF ClientFresh, SyncFresh, Delivering
<1> QED
  BY <1>1, <1>2

\* A pass takes its next directory; no row becomes synced by it.
LEMMA SyncTargetSound ==
  ASSUME VaultClientsAssumption, NEW p \in Clients,
         VInv, SyncTarget(p), UNCHANGED deliveryVars
  PROVE  VInv'
<1> DEFINE c == client[p]
<1>1. CInv /\ vault \in Vaults /\ Rows
  BY DEF VInv, CInv
<1>2. c.pc = "sync-next" /\ c.pc \in Syncing
  BY DEF SyncTarget, Syncing
<1>3. /\ SyncSound(c) /\ DOMAIN c = Fields /\ c.read \in Nat /\ c.commit \in Nat
      /\ Busy(p) /\ c.todo \subseteq Hashes
      /\ \A i \in Hashes : i.of \in Directories /\ i.ver \in Nat
  BY <1>1, <1>2, AtPass
<1>4. PICK i \in c.todo :
        /\ SetMirror(i.of, TargetRow(mirror[i.of], NoMirror, c.force))
        /\ Moves(p, [c EXCEPT !.todo = @ \ {i}, !.item = i, !.pc =
                CASE c.gate = "unavailable" -> "sync-block"
                  [] c.gate = "error" -> "sync-fail"
                  [] OTHER -> "sync-read"])
  BY DEF SyncTarget
<1> DEFINE r == TargetRow(mirror[i.of], NoMirror, c.force)
           pc == CASE c.gate = "unavailable" -> "sync-block"
                   [] c.gate = "error" -> "sync-fail"
                   [] OTHER -> "sync-read"
           rest == c.todo \ {i}
           d == [c EXCEPT !.todo = rest, !.item = i, !.pc = pc]
<1>5. client'[p] = d /\ OthersWait(p) /\ overlaps' = overlaps
  BY <1>1, <1>4, MovesTo
<1>6. pc \in {"sync-block", "sync-fail", "sync-read"}
  OBVIOUS
<1> HIDE DEF pc, rest
<1>7. /\ DOMAIN d = Fields /\ d.pc = pc /\ d.item = i /\ d.todo = rest
      /\ d.read = c.read /\ d.commit = c.commit /\ d.again = c.again
  BY <1>3 DEF Fields
<1> HIDE DEF d
<1>8. UNCHANGED <<vault, faults, memory, archived, delivery>>
  BY DEF SyncTarget, vaultVars, deliveryVars
<1>9. i \in Hashes /\ i.of \in Directories /\ mirror[i.of] \in Mirrors
  BY <1>1, <1>3 DEF Rows
<1>10. /\ r \in Mirrors /\ (r.state = "synced" => r = mirror[i.of])
       /\ mirror' = [mirror EXCEPT ![i.of] = r]
  BY <1>4, <1>9, TargetMirrorSound DEF SetMirror
<1> HIDE DEF r
<1>11. Rows'
  BY <1>1, <1>5, <1>8, <1>10 DEF Rows
<1>12. ClientSound(vault', client'[p])
  BY <1>3, <1>5, <1>6, <1>7, <1>9 DEF ClientSound, SyncSound, Syncing, rest
<1>13. \A s \in Sessions : RowSound(vault', s, delivery'[s])
  BY <1>1, <1>8, GrowsItself, RowsKept
<1>14. ASSUME InTurns
       PROVE  TakesTurn(p) /\ ClientFresh(client[p])' /\ HistorySound' /\ MirrorSound'
  <2>1. /\ \A k \in c.todo : Behind(k)
        /\ \A k, l \in c.todo : k.of = l.of => k = l
    BY <1>2, <1>14 DEF InTurns, ClientFresh, SyncFresh
  <2>2. \A k \in c.todo : Behind(k)'
    <3>1. ASSUME NEW k \in c.todo PROVE Behind(k)'
      <4>1. Behind(k) /\ k.of \in Directories
        BY <1>3, <2>1
      <4>2. mirror'[k.of].state = "synced" => mirror'[k.of] = mirror[k.of]
        BY <1>1, <1>9, <1>10, <4>1 DEF Rows
      <4> QED
        BY <1>8, <4>1, <4>2 DEF Behind
    <3> QED
      BY <3>1
  <2>3. ClientFresh(client[p])'
    BY <1>5, <1>6, <1>7, <2>1, <2>2 DEF ClientFresh, SyncFresh, Delivering, rest
  <2>4. MirrorSound'
    <3>1. \A e \in Directories :
            mirror'[e].state = "synced" => mirror'[e] = mirror[e]
      BY <1>1, <1>9, <1>10 DEF Rows
    <3> QED
      BY <1>8, <1>14, <3>1 DEF InTurns, MirrorSound, FilePath, Text
  <2> QED
    BY <1>3, <1>8, <1>14, <2>3, <2>4, HistoryKept DEF InTurns, TakesTurn
<1>15. vault' \in Vaults /\ Grows(vault, vault')
  BY <1>1, <1>8, GrowsItself
<1>16. Placed(client[p])'
  <2>1. \A k \in c.todo : k.ver \in DOMAIN memory[k.of]
    BY <1>2 DEF VInv, PInv, Placed
  <2> QED
    BY <1>5, <1>6, <1>7, <1>8, <2>1 DEF Placed, rest
<1> QED
  BY <1>5, <1>8, <1>11, <1>12, <1>13, <1>14, <1>15, <1>16, ClientMoves

\* A pass reads a content no older than the hash it collected.
LEMMA SyncReadSound ==
  ASSUME VaultClientsAssumption, MemorySyncAssumption, NEW p \in Clients,
         VInv, SyncRead(p), UNCHANGED deliveryVars
  PROVE  VInv'
<1> DEFINE c == client[p]
           now == Len(memory[c.item.of])
           reads == [c EXCEPT !.pc = "sync-file", !.read = now]
           fails == [c EXCEPT !.pc = "sync-fail"]
<1>1. CInv /\ vault \in Vaults /\ Rows
  BY DEF VInv, CInv
<1>2. c.pc = "sync-read" /\ c.pc \in Syncing \ {"sync-next"}
  BY DEF SyncRead, Syncing
<1>3. /\ SyncSound(c) /\ DOMAIN c = Fields /\ c.read \in Nat /\ c.commit \in Nat
      /\ Busy(p) /\ c.todo \subseteq Hashes
      /\ c.item \in Hashes /\ c.item.ver \in Nat /\ now \in Nat
  BY <1>1, <1>2, AtPass, AtDirectory
<1> HIDE DEF now
<1>4. UNCHANGED <<archived, delivery, memory, mirror>>
  BY DEF SyncRead, deliveryVars, memoryVars
<1>5. vault' = vault /\ faults' \in Nat /\ (Moves(p, reads) \/ Moves(p, fails))
  <2>1. CASE Request([vault |-> vault, fault |-> 1]) /\ Goes(p, "sync-fail")
    BY <1>1, <2>1 DEF Request, Rows, Goes
  <2>2. CASE ~(Request([vault |-> vault, fault |-> 1]) /\ Goes(p, "sync-fail"))
    <3>1. /\ UNCHANGED vaultVars
          /\ Moves(p, IF Dirty \subseteq {FilePath(c.item.of), ManifestPath(c.item.of)}
                      THEN reads ELSE fails)
      BY <2>2 DEF SyncRead, Now, now
    <3> QED
      BY <1>1, <3>1 DEF vaultVars, Rows
  <2> QED
    BY <2>1, <2>2
<1>6. /\ client'[p] \in {reads, fails} /\ OthersWait(p) /\ overlaps' = overlaps
  BY <1>1, <1>5, MovesTo
<1>7. /\ DOMAIN reads = Fields /\ reads.pc = "sync-file" /\ reads.item = c.item
      /\ reads.todo = c.todo /\ reads.read = now /\ reads.commit = c.commit
      /\ reads.again = c.again /\ fails.again = c.again
      /\ DOMAIN fails = Fields /\ fails.pc = "sync-fail" /\ fails.item = c.item
      /\ fails.todo = c.todo /\ fails.read = c.read /\ fails.commit = c.commit
  BY <1>3 DEF Fields
<1> HIDE DEF reads, fails
<1>8. ClientSound(vault', client'[p])
  BY <1>3, <1>6, <1>7 DEF ClientSound, SyncSound, Syncing
<1>9. ASSUME InTurns
      PROVE  TakesTurn(p) /\ ClientFresh(client[p])' /\ HistorySound' /\ MirrorSound'
  <2>1. /\ \A k \in c.todo : Behind(k) /\ k.of # c.item.of
        /\ \A k, l \in c.todo : k.of = l.of => k = l
        /\ Behind(c.item)
    BY <1>2, <1>9 DEF InTurns, ClientFresh, SyncFresh
  <2>2. \A k : Behind(k)' <=> Behind(k)
    BY <1>4 DEF Behind
  <2>3. c.item.ver <= now /\ now <= Len(memory'[c.item.of])
    BY <1>3, <1>4, <2>1 DEF Behind, now
  <2>4. ClientFresh(client[p])'
    BY <1>6, <1>7, <2>1, <2>2, <2>3 DEF ClientFresh, SyncFresh, Delivering
  <2> QED
    BY <1>3, <1>4, <1>5, <1>9, <2>4, GrowsItself, HistoryKept, MirrorKept DEF InTurns, TakesTurn
<1>10. Rows' /\ vault' \in Vaults /\ Grows(vault, vault')
  BY <1>1, <1>4, <1>5, <1>6, GrowsItself DEF Rows
<1>11. \A s \in Sessions : RowSound(vault', s, delivery'[s])
  BY <1>1, <1>4, <1>10, RowsKept
<1>12. Placed(client[p])'
  <2>1. /\ \A k \in c.todo : k.ver \in DOMAIN memory[k.of]
        /\ c.item.ver \in DOMAIN memory[c.item.of]
    BY <1>2 DEF VInv, PInv, Placed
  <2>2. now \in DOMAIN memory[c.item.of]
    <3>1. memory[c.item.of] \in Seq(Contents) /\ memory[c.item.of] # << >>
      BY <1>1, <1>2, AtDirectory DEF VInv, PInv
    <3> QED
      BY <3>1 DEF now
  <2> QED
    BY <1>4, <1>6, <1>7, <2>1, <2>2 DEF Placed
<1> QED
  BY <1>4, <1>6, <1>8, <1>9, <1>10, <1>11, <1>12, ClientMoves

\* A pass writes its file while its row is not up to date.
LEMMA SyncFileSound ==
  ASSUME VaultClientsAssumption, SummaryDeliveryAssumption, MemorySyncAssumption,
         NEW p \in Clients, VInv, SyncFile(p), UNCHANGED deliveryVars
  PROVE  VInv'
<1> DEFINE c == client[p]
           path == FilePath(c.item.of)
           text == Text(Content(c.item.of, c.read))
           d(pc) == [c EXCEPT !.pc = pc]
<1>1. CInv /\ vault \in Vaults /\ Rows
  BY DEF VInv, CInv
<1>2. c.pc = "sync-file" /\ c.pc \in Syncing \ {"sync-next"}
  BY DEF SyncFile, Syncing
<1>3. /\ SyncSound(c) /\ DOMAIN c = Fields /\ c.read \in Nat /\ c.commit \in Nat
      /\ Busy(p) /\ c.todo \subseteq Hashes /\ c.item \in Hashes
      /\ c.item.of \in Directories /\ c.item.ver \in Nat /\ path \in Paths
  BY <1>1, <1>2, AtPass, AtDirectory
<1>3a. /\ text \in Notes /\ text = Text(memory[c.item.of][c.read])
       /\ c.read \in DOMAIN memory[c.item.of]
       /\ \A k \in c.todo : k.ver \in DOMAIN memory[k.of]
       /\ c.item.ver \in DOMAIN memory[c.item.of]
  <2>1. /\ \A k \in c.todo : k.ver \in DOMAIN memory[k.of]
        /\ c.item.ver \in DOMAIN memory[c.item.of]
        /\ c.read \in DOMAIN memory[c.item.of]
    BY <1>2 DEF VInv, PInv, Placed
  <2>2. memory[c.item.of][c.read] \in Contents
    BY <1>1, <1>2, <2>1, AtDirectory, EntryIsOne
  <2> QED
    BY <2>1, <2>2 DEF Text, Notes, Content
<1>4. PICK o \in WriteOutcomes(WithNote(path, text)) :
        /\ Request(o)
        /\ Goes(p, IF o.ok THEN "sync-manifest" ELSE "sync-fail")
  BY DEF SyncFile
<1>5. UNCHANGED <<archived, delivery, memory, mirror>>
  BY DEF SyncFile, deliveryVars, memoryVars
<1> HIDE DEF text, path
<1>6. /\ o.vault \in {vault, WithNote(path, text)}
      /\ o.vault \in Vaults /\ Grows(vault, o.vault)
      /\ o.vault.log = vault.log /\ o.vault.head = vault.head
      /\ o.ok \in BOOLEAN /\ (o.ok => o.vault = WithNote(path, text))
      /\ o.fault \in Nat
  BY <1>1, <1>3, <1>3a, <1>4, WriteOutcome
<1>7. vault' = o.vault /\ faults' \in Nat
  BY <1>1, <1>4, <1>6 DEF Request, Rows
<1>8. /\ vault' \in Vaults /\ Grows(vault, vault')
      /\ vault'.log = vault.log /\ vault'.head = vault.head
      /\ \/ vault'.notes = vault.notes
         \/ vault'.notes = [vault.notes EXCEPT ![path] = text]
  BY <1>1, <1>3, <1>3a, <1>6, <1>7, NoteWritten
<1>9. PICK pc \in {"sync-manifest", "sync-fail"} :
        /\ Goes(p, pc)
        /\ pc = "sync-manifest" => vault'.notes = [vault.notes EXCEPT ![path] = text]
  <2>1. CASE ~o.ok
    BY <1>4, <2>1
  <2>2. CASE o.ok
    BY <1>1, <1>3, <1>3a, <1>4, <1>6, <1>7, <2>2, NoteWritten
  <2> QED
    BY <1>6, <2>1, <2>2
<1>10. client'[p] = d(pc) /\ OthersWait(p) /\ overlaps' = overlaps
  BY <1>1, <1>9, MovesTo DEF Goes
<1>11. /\ DOMAIN d(pc) = Fields /\ d(pc).pc = pc /\ d(pc).item = c.item
       /\ d(pc).todo = c.todo /\ d(pc).read = c.read /\ d(pc).commit = c.commit
       /\ d(pc).again = c.again
  BY <1>3 DEF Fields
<1> DEFINE e == d(pc)
<1> HIDE DEF d, e
<1>12. ClientSound(vault', e)
  BY <1>3, <1>11 DEF ClientSound, SyncSound, Syncing, e
<1>13. ASSUME InTurns
       PROVE  TakesTurn(p) /\ ClientFresh(client[p])' /\ HistorySound' /\ MirrorSound'
  <2>1. /\ \A k \in c.todo : Behind(k) /\ k.of # c.item.of
        /\ \A k, l \in c.todo : k.of = l.of => k = l
        /\ Behind(c.item) /\ c.item.ver <= c.read /\ c.read <= Len(memory[c.item.of])
    BY <1>2, <1>13 DEF InTurns, ClientFresh, SyncFresh
  <2>2. vault.notes \in Trees
    BY <1>1 DEF Vaults
  <2>3. pc = "sync-manifest" => Since(memory, c.item.of, c.item.ver, vault'.notes)
    <3>1. SUFFICES ASSUME pc = "sync-manifest"
                   PROVE  Since(memory, c.item.of, c.item.ver, vault'.notes)
      OBVIOUS
    <3>2. vault'.notes[FilePath(c.item.of)] = Text(memory[c.item.of][c.read])
      BY <1>3, <1>3a, <1>9, <2>2, <3>1 DEF Trees, path
    <3> QED
      BY <1>3a, <2>1, <3>2 DEF Since
  <2>4. \A k : Behind(k)' <=> Behind(k)
    BY <1>5 DEF Behind
  <2>7. ClientFresh(client[p])'
    BY <1>5, <1>9, <1>10, <1>11, <2>1, <2>3, <2>4
    DEF ClientFresh, SyncFresh, Delivering, e
  <2>8. HistorySound'
    <3>1. ASSUME NEW s \in Sessions
          PROVE  vault'.notes[NotePath(s)] = vault.notes[NotePath(s)]
      <4>1. NotePath(s) \in Paths /\ NotePath(s) # path
        BY <1>3, PathsApart DEF path, NotePath, SummaryDeliveryAssumption
      <4> QED
        BY <1>8, <2>2, <4>1 DEF Trees
    <3> QED
      BY <1>5, <1>8, <1>13, <3>1, HistoryKept DEF InTurns
  <2>9. MirrorSound'
    <3>1. ASSUME NEW f \in Directories, f # c.item.of
          PROVE  vault'.notes[FilePath(f)] = vault.notes[FilePath(f)]
      <4>1. FilePath(f) \in Paths /\ FilePath(f) # path
        BY <1>3, <3>1, PathsApart DEF path, FilePath, MemorySyncAssumption
      <4> QED
        BY <1>8, <2>2, <4>1 DEF Trees
    <3>2. ASSUME NEW f \in Directories, mirror[f].state = "synced"
          PROVE  Since(memory, f, mirror[f].hash, vault'.notes)
      <4>1. Since(memory, f, mirror[f].hash, vault.notes)
        BY <1>13, <3>2 DEF InTurns, MirrorSound
      <4>2. CASE vault'.notes[FilePath(f)] = vault.notes[FilePath(f)]
        BY <4>1, <4>2 DEF Since
      <4>3. CASE vault'.notes[FilePath(f)] # vault.notes[FilePath(f)]
        <5>1. f = c.item.of
          BY <3>1, <3>2, <4>3
        <5>2. vault'.notes[FilePath(f)] = Text(memory[f][c.read])
          BY <1>3, <1>3a, <1>8, <2>2, <4>3, <5>1 DEF Trees, path
        <5>3. mirror[f].hash <= c.item.ver
          BY <2>1, <3>2, <5>1 DEF Behind
        <5>4. mirror[f].hash \in Nat
          BY <1>1 DEF Rows, Mirrors
        <5>5. mirror[f].hash <= c.read
          BY <1>3, <2>1, <5>3, <5>4
        <5> QED
          BY <1>3a, <5>1, <5>2, <5>5 DEF Since
      <4> QED
        BY <4>2, <4>3
    <3>3. ASSUME NEW f \in Directories, mirror[f].state = "synced"
          PROVE  \/ mirror[f].again
                 \/ Committed(memory, vault', f, mirror[f].hash, mirror[f].commit)
      BY <1>8, <1>13, <3>3, GrowsKeepsCommitted DEF InTurns, MirrorSound
    <3> QED
      BY <1>5, <3>2, <3>3 DEF MirrorSound
  <2> QED
    BY <1>3, <2>7, <2>8, <2>9 DEF TakesTurn
<1>14. Rows'
  BY <1>1, <1>5, <1>7, <1>10 DEF Rows
<1>15. \A s \in Sessions : RowSound(vault', s, delivery'[s])
  BY <1>1, <1>5, <1>8, RowsKept
<1>16. ClientSound(vault', client'[p])
  BY <1>10, <1>12 DEF e
<1>17. Placed(client[p])'
  BY <1>3a, <1>5, <1>9, <1>10, <1>11 DEF Placed, e
<1> QED
  BY <1>5, <1>8, <1>10, <1>13, <1>14, <1>15, <1>16, <1>17, ClientMoves

\* The manifest note is none of a session's, nor a directory's file.
LEMMA SyncManifestSound ==
  ASSUME VaultClientsAssumption, SummaryDeliveryAssumption, MemorySyncAssumption,
         NEW p \in Clients, VInv, SyncManifest(p), UNCHANGED deliveryVars
  PROVE  VInv'
<1> DEFINE c == client[p]
           rev == mirror[c.item.of].rev + 1
           path == ManifestPath(c.item.of)
           text == [rev |-> rev, body |-> Content(c.item.of, c.item.ver)]
           d(pc) == [c EXCEPT !.pc = pc, !.read = rev]
<1>1. CInv /\ vault \in Vaults /\ Rows
  BY DEF VInv, CInv
<1>2. c.pc = "sync-manifest" /\ c.pc \in Syncing \ {"sync-next"}
  BY DEF SyncManifest, Syncing
<1>3. /\ SyncSound(c) /\ DOMAIN c = Fields /\ c.read \in Nat /\ c.commit \in Nat
      /\ Busy(p) /\ c.todo \subseteq Hashes /\ c.item \in Hashes
      /\ c.item.of \in Directories /\ c.item.ver \in Nat /\ path \in Paths
      /\ rev \in Nat
  <2>1. /\ c.item.of \in Directories /\ c.item.ver \in Nat /\ path \in Paths
        /\ c.item \in Hashes /\ mirror[c.item.of] \in Mirrors
    BY <1>1, <1>2, AtDirectory
  <2>2. rev \in Nat
    BY <2>1 DEF Mirrors
  <2> QED
    BY <1>1, <1>2, <2>1, <2>2, AtPass
<1>3a. /\ text \in Notes
       /\ \A k \in c.todo : k.ver \in DOMAIN memory[k.of]
       /\ c.item.ver \in DOMAIN memory[c.item.of]
  <2>1. /\ \A k \in c.todo : k.ver \in DOMAIN memory[k.of]
        /\ c.item.ver \in DOMAIN memory[c.item.of]
    BY <1>2 DEF VInv, PInv, Placed
  <2>2. memory[c.item.of][c.item.ver] \in Contents
    BY <1>1, <1>2, <2>1, AtDirectory, EntryIsOne
  <2> QED
    BY <1>3, <2>1, <2>2 DEF Notes, Content
<1>4. PICK o \in WriteOutcomes(WithNote(path, text)) :
        /\ Request(o)
        /\ Moves(p, [c EXCEPT !.pc = IF o.ok THEN "sync-commit" ELSE "sync-fail",
                              !.read = rev])
  BY DEF SyncManifest
<1>5. UNCHANGED <<archived, delivery, memory, mirror>>
  BY DEF SyncManifest, deliveryVars, memoryVars
<1> HIDE DEF text, path, rev
<1>6. /\ o.vault \in {vault, WithNote(path, text)}
      /\ o.vault \in Vaults /\ Grows(vault, o.vault)
      /\ o.vault.log = vault.log /\ o.vault.head = vault.head
      /\ o.fault \in Nat
  BY <1>1, <1>3, <1>3a, <1>4, WriteOutcome
<1>7. vault' = o.vault /\ faults' \in Nat
  BY <1>1, <1>4, <1>6 DEF Request, Rows
<1>8. /\ vault' \in Vaults /\ Grows(vault, vault')
      /\ vault'.log = vault.log /\ vault'.head = vault.head
      /\ \/ vault'.notes = vault.notes
         \/ vault'.notes = [vault.notes EXCEPT ![path] = text]
  BY <1>1, <1>3, <1>3a, <1>6, <1>7, NoteWritten
<1>9. PICK pc \in {"sync-commit", "sync-fail"} : Moves(p, d(pc))
  BY <1>4
<1>10. client'[p] = d(pc) /\ OthersWait(p) /\ overlaps' = overlaps
  BY <1>1, <1>9, MovesTo
<1>11. /\ DOMAIN d(pc) = Fields /\ d(pc).pc = pc /\ d(pc).item = c.item
       /\ d(pc).todo = c.todo /\ d(pc).read = rev /\ d(pc).commit = c.commit
       /\ d(pc).again = c.again
  BY <1>3 DEF Fields
<1> DEFINE e == d(pc)
<1> HIDE DEF d, e
<1>12. ClientSound(vault', e)
  BY <1>3, <1>11 DEF ClientSound, SyncSound, Syncing, e
<1>13. ASSUME InTurns
       PROVE  TakesTurn(p) /\ ClientFresh(client[p])' /\ HistorySound' /\ MirrorSound'
  <2>1. /\ \A k \in c.todo : Behind(k) /\ k.of # c.item.of
        /\ \A k, l \in c.todo : k.of = l.of => k = l
        /\ Behind(c.item)
        /\ Since(memory, c.item.of, c.item.ver, vault.notes)
    BY <1>2, <1>13 DEF InTurns, ClientFresh, SyncFresh
  <2>2. vault.notes \in Trees
    BY <1>1 DEF Vaults
  <2>3. \A f \in Directories : vault'.notes[FilePath(f)] = vault.notes[FilePath(f)]
    <3>1. ASSUME NEW f \in Directories
          PROVE  FilePath(f) \in Paths /\ FilePath(f) # path
      BY <1>3, PathsApart DEF path, FilePath, MemorySyncAssumption
    <3> QED
      BY <1>8, <2>2, <3>1 DEF Trees
  <2>4. \A k : Behind(k)' <=> Behind(k)
    BY <1>5 DEF Behind
  <2>5. Since(memory, c.item.of, c.item.ver, vault'.notes)
    BY <1>3, <2>1, <2>3 DEF Since
  <2>6. ClientFresh(client[p])'
    BY <1>5, <1>9, <1>10, <1>11, <2>1, <2>4, <2>5
    DEF ClientFresh, SyncFresh, Delivering, e
  <2>7. HistorySound'
    <3>1. ASSUME NEW s \in Sessions
          PROVE  vault'.notes[NotePath(s)] = vault.notes[NotePath(s)]
      <4>1. NotePath(s) \in Paths /\ NotePath(s) # path
        BY <1>3, PathsApart DEF path, NotePath, SummaryDeliveryAssumption
      <4> QED
        BY <1>8, <2>2, <4>1 DEF Trees
    <3> QED
      BY <1>5, <1>8, <1>13, <3>1, HistoryKept DEF InTurns
  <2>8. MirrorSound'
    BY <1>5, <1>8, <1>13, <2>3, MirrorKept DEF InTurns
  <2> QED
    BY <1>3, <2>6, <2>7, <2>8 DEF TakesTurn
<1>14. Rows'
  BY <1>1, <1>5, <1>7, <1>10 DEF Rows
<1>15. \A s \in Sessions : RowSound(vault', s, delivery'[s])
  BY <1>1, <1>5, <1>8, RowsKept
<1>16. ClientSound(vault', client'[p])
  BY <1>10, <1>12 DEF e
<1>17. Placed(client[p])'
  BY <1>3a, <1>5, <1>9, <1>10, <1>11 DEF Placed, e
<1> QED
  BY <1>5, <1>8, <1>10, <1>13, <1>14, <1>15, <1>16, <1>17, ClientMoves

\* The commit of a pass is none of a session's.
LEMMA SyncCommitSound ==
  ASSUME VaultClientsAssumption, NEW p \in Clients,
         VInv, SyncCommit(p), UNCHANGED deliveryVars
  PROVE  VInv'
<1> DEFINE c == client[p]
           subject == <<c.item.of, c.read>>
<1>1. CInv /\ vault \in Vaults /\ Rows
  BY DEF VInv, CInv
<1>2. c.pc = "sync-commit" /\ c.pc \in Syncing \ {"sync-next"}
  BY DEF SyncCommit, Syncing
<1>3. /\ SyncSound(c) /\ DOMAIN c = Fields /\ c.read \in Nat /\ c.commit \in Nat
      /\ Busy(p) /\ c.todo \subseteq Hashes /\ c.item \in Hashes
      /\ c.item.of \in Directories /\ c.item.ver \in Nat
  BY <1>1, <1>2, AtPass
<1>4. subject \in Subjects /\ subject[1] \notin Sessions
  BY <1>3 DEF Subjects, VaultClientsAssumption
<1>5. PICK o \in Correlate(subject) :
        /\ Request(o)
        /\ Moves(p, [c EXCEPT
             !.pc = IF o.commit = 0 THEN "sync-fail" ELSE "sync-record",
             !.commit = o.commit,
             !.again = FindCommit(vault, <<c.item.of, c.read>>) # 0])
  BY DEF SyncCommit
<1>6. UNCHANGED <<archived, delivery, memory, mirror>>
  BY DEF SyncCommit, deliveryVars, memoryVars
<1> DEFINE pc == IF o.commit = 0 THEN "sync-fail" ELSE "sync-record"
           n == o.commit
           again == FindCommit(vault, subject) # 0
           d == [c EXCEPT !.pc = pc, !.commit = n, !.again = again]
<1>7. client'[p] = d /\ OthersWait(p) /\ overlaps' = overlaps
  BY <1>1, <1>5, MovesTo
<1>8. pc \in {"sync-fail", "sync-record"}
  OBVIOUS
<1>8a. /\ pc = "sync-record" => n # 0
       /\ again \in BOOLEAN
  OBVIOUS
<1>8b. pc = "sync-record" /\ ~again =>
         n \in DOMAIN o.vault.log /\ o.vault.log[n].tree = vault.notes
  BY <1>1, <1>4, <1>5, <1>8a, NewCommit
<1> HIDE DEF subject, pc, n, again
<1>9. /\ o.vault \in {vault, WithCommit(subject)}
      /\ o.vault \in Vaults /\ Grows(vault, o.vault)
      /\ n \in Nat /\ o.fault \in Nat
  BY <1>1, <1>4, <1>5, CorrelateOutcome DEF n
<1>10. vault' = o.vault /\ faults' \in Nat
  BY <1>1, <1>5, <1>9 DEF Request, Rows
<1>11. /\ DOMAIN d = Fields /\ d.pc = pc /\ d.item = c.item /\ d.todo = c.todo
       /\ d.read = c.read /\ d.commit = n /\ d.again = again
  BY <1>3 DEF Fields
<1> HIDE DEF d
<1>12. ClientSound(vault', d)
  BY <1>3, <1>8, <1>8a, <1>9, <1>11 DEF ClientSound, SyncSound, Syncing
<1>13. ASSUME InTurns
       PROVE  TakesTurn(p) /\ ClientFresh(client[p])' /\ HistorySound' /\ MirrorSound'
  <2>1. /\ \A k \in c.todo : Behind(k) /\ k.of # c.item.of
        /\ \A k, l \in c.todo : k.of = l.of => k = l
        /\ Behind(c.item)
        /\ Since(memory, c.item.of, c.item.ver, vault.notes)
    BY <1>2, <1>13 DEF InTurns, ClientFresh, SyncFresh
  <2>2. vault'.notes = vault.notes
    <3>1. WithCommit(subject).notes = vault.notes
      <4>1. CASE Dirty = {}
        BY <4>1 DEF WithCommit
      <4>2. CASE Dirty # {}
        BY <1>1, <1>4, <4>2, CommitAppends
      <4> QED
        BY <4>1, <4>2
    <3> QED
      BY <1>9, <1>10, <3>1
  <2>3. HistorySound'
    <3>1. CASE vault' = vault
      BY <1>6, <1>13, <3>1, HistoryKept DEF InTurns
    <3>2. CASE vault' = WithCommit(subject)
      BY <1>1, <1>4, <1>6, <1>13, <3>2, CommitHistory DEF InTurns
    <3> QED
      BY <1>9, <1>10, <3>1, <3>2
  <2>4. \A k : Behind(k)' <=> Behind(k)
    BY <1>6 DEF Behind
  <2>5. Since(memory, c.item.of, c.item.ver, vault'.notes)
    BY <2>1, <2>2
  <2>5a. pc = "sync-record" /\ ~again =>
           Committed(memory, vault', c.item.of, c.item.ver, n)
    BY <1>8b, <1>10, <2>1 DEF Committed
  <2>6. ClientFresh(client[p])'
    BY <1>6, <1>7, <1>8, <1>11, <2>1, <2>4, <2>5, <2>5a DEF ClientFresh, SyncFresh, Delivering
  <2>7. MirrorSound'
    BY <1>6, <1>9, <1>10, <1>13, <2>2, MirrorKept DEF InTurns
  <2> QED
    BY <1>3, <2>3, <2>6, <2>7 DEF TakesTurn
<1>14. Rows'
  BY <1>1, <1>6, <1>7, <1>10 DEF Rows
<1>15. \A s \in Sessions : RowSound(vault', s, delivery'[s])
  BY <1>1, <1>6, <1>9, <1>10, RowsKept
<1>16. vault' \in Vaults /\ Grows(vault, vault') /\ ClientSound(vault', client'[p])
  BY <1>7, <1>9, <1>10, <1>12
<1>17. Placed(client[p])'
  <2>1. /\ \A k \in c.todo : k.ver \in DOMAIN memory[k.of]
        /\ c.item.ver \in DOMAIN memory[c.item.of]
    BY <1>2 DEF VInv, PInv, Placed
  <2> QED
    BY <1>6, <1>7, <1>8, <1>11, <2>1 DEF Placed
<1> QED
  BY <1>6, <1>7, <1>13, <1>14, <1>15, <1>16, <1>17, ClientMoves

\* A directory recorded as synced is mirrored by a content no older than its
\* hash, which is the present one while the hash is.
LEMMA SyncRecordSound ==
  ASSUME VaultClientsAssumption, MemorySyncAssumption, NEW p \in Clients,
         VInv, SyncRecord(p), UNCHANGED deliveryVars
  PROVE  VInv'
<1> DEFINE c == client[p]
           f == c.item.of
           done == [state |-> "synced", hash |-> c.item.ver,
                    rev |-> mirror[f].rev + 1, commit |-> c.commit, attempts |-> 0,
                    again |-> c.again]
<1>1. CInv /\ vault \in Vaults /\ Rows
  BY DEF VInv, CInv
<1>2. /\ c.pc \in {"sync-record", "sync-block", "sync-fail"}
      /\ c.pc \in Syncing \ {"sync-next"}
  BY DEF SyncRecord, Syncing
<1>3. /\ SyncSound(c) /\ ClientSound(vault, c) /\ DOMAIN c = Fields
      /\ c.commit \in Nat /\ Busy(p) /\ c.todo \subseteq Hashes
      /\ f \in Directories /\ c.item.ver \in Nat /\ mirror[f] \in Mirrors
      /\ \A k \in c.todo : k.of \in Directories
  BY <1>1, <1>2, AtPass, AtDirectory
<1>4. /\ vault' = vault /\ UNCHANGED <<faults, memory, archived, delivery>>
      /\ Moves(p, Done(c, "sync-next"))
  BY DEF SyncRecord, vaultVars, deliveryVars
<1>5. client'[p] = Done(c, "sync-next") /\ OthersWait(p) /\ overlaps' = overlaps
  BY <1>1, <1>4, MovesTo
<1>6. ClientSound(vault, Done(c, "sync-next"))
  BY <1>2, <1>3, DoneSound
<1>7. PICK r \in Mirrors :
        /\ SetMirror(f, r)
        /\ r.state = "synced" =>
             /\ c.pc = "sync-record" /\ r.hash = c.item.ver
             /\ r.commit = c.commit /\ r.again = c.again
  <2>1. CASE c.pc = "sync-record" /\ SetMirror(f, done)
    <3>1. mirror[f].rev + 1 \in Nat
      BY <1>3 DEF Mirrors
    <3>2. /\ done \in Mirrors /\ done.hash = c.item.ver
          /\ done.commit = c.commit /\ done.again = c.again
      BY <1>3, <3>1 DEF Mirrors, MirrorStates, SyncSound
    <3> HIDE DEF done
    <3> QED
      BY <2>1, <3>2
  <2>2. CASE SetMirror(f, BlockedRow(mirror[f]))
    BY <1>3, <2>2, FailedMirrorSound
  <2>3. CASE SetMirror(f, FailedRow(mirror[f]))
    BY <1>3, <2>3, FailedMirrorSound
  <2> QED
    BY <2>1, <2>2, <2>3 DEF SyncRecord
<1>8. mirror' = [mirror EXCEPT ![f] = r]
  BY <1>7 DEF SetMirror
<1>9. mirror'[f] = r /\ \A g \in Directories \ {f} : mirror'[g] = mirror[g]
  BY <1>1, <1>3, <1>8 DEF Rows
<1>10. Rows'
  BY <1>1, <1>4, <1>5, <1>7, <1>8 DEF Rows
<1>11. ASSUME InTurns
       PROVE  TakesTurn(p) /\ ClientFresh(client[p])' /\ HistorySound' /\ MirrorSound'
  <2>1. /\ \A k \in c.todo : Behind(k) /\ k.of # f
        /\ \A k, l \in c.todo : k.of = l.of => k = l
        /\ Behind(c.item)
        /\ c.pc = "sync-record" =>
             /\ Since(memory, f, c.item.ver, vault.notes)
             /\ c.again \/ Committed(memory, vault, f, c.item.ver, c.commit)
    BY <1>2, <1>11 DEF InTurns, ClientFresh, SyncFresh
  <2>2. \A k \in c.todo : Behind(k)'
    BY <1>3, <1>4, <1>9, <2>1 DEF Behind
  <2>3. ClientFresh(client[p])'
    BY <1>3, <1>5, <2>1, <2>2, DoneSyncs
  <2>4. r.state = "synced" =>
          /\ Since(memory, f, r.hash, vault.notes)
          /\ r.again \/ Committed(memory, vault, f, r.hash, r.commit)
    BY <1>7, <2>1
  <2>5. MirrorSound'
    <3>1. ASSUME NEW g \in Directories, mirror'[g].state = "synced"
          PROVE  /\ Since(memory, g, mirror'[g].hash, vault.notes)
                 /\ \/ mirror'[g].again
                    \/ Committed(memory, vault, g, mirror'[g].hash, mirror'[g].commit)
      BY <1>9, <1>11, <2>4, <3>1 DEF InTurns, MirrorSound
    <3> QED
      BY <1>4, <3>1 DEF MirrorSound
  <2> QED
    BY <1>3, <1>4, <1>11, <2>3, <2>5, HistoryKept DEF InTurns, TakesTurn
<1>12. /\ vault' \in Vaults /\ Grows(vault, vault') /\ ClientSound(vault', client'[p])
       /\ \A s \in Sessions : RowSound(vault', s, delivery'[s])
  BY <1>1, <1>4, <1>5, <1>6, GrowsItself, RowsKept
<1>13. Placed(client[p])'
  <2>1. \A k \in c.todo : k.ver \in DOMAIN memory[k.of]
    BY <1>2 DEF VInv, PInv, Placed
  <2> QED
    BY <1>3, <1>4, <1>5, <2>1, DoneLeaves DEF Placed
<1> QED
  BY <1>4, <1>5, <1>10, <1>11, <1>12, <1>13, ClientMoves

-----------------------------------------------------------------------------
(* Crashes, the vault's user and the agent.                                 *)

\* A client that dies forgets its work; its row stays as it was.
LEMMA ClientDiesSound ==
  ASSUME NEW p \in Clients, VInv, ClientDies(p), UNCHANGED <<deliveryVars, memoryVars>>
  PROVE  VInv'
<1>1. CInv /\ vault \in Vaults /\ Rows
  BY DEF VInv, CInv
<1>2. /\ UNCHANGED <<vault, archived, delivery, memory, mirror>>
      /\ faults' = faults + 1 /\ Moves(p, Idle) /\ Busy(p)
  BY DEF ClientDies, deliveryVars, memoryVars
<1>3. client'[p] = Idle /\ OthersWait(p) /\ overlaps' = overlaps
  BY <1>1, <1>2, MovesTo
<1>4. ClientFresh(client[p])'
  BY <1>3, IdleSound DEF ClientFresh, Delivering, Syncing
<1>5. Rows' /\ vault' \in Vaults /\ Grows(vault, vault')
  BY <1>1, <1>2, <1>3, GrowsItself DEF Rows
<1>6. \A s \in Sessions : RowSound(vault', s, delivery'[s])
  BY <1>1, <1>2, <1>5, RowsKept
<1>7. InTurns => HistorySound' /\ MirrorSound' /\ TakesTurn(p)
  BY <1>2, GrowsItself, HistoryKept, MirrorKept DEF InTurns, TakesTurn
<1>8. ClientSound(vault', client'[p])
  BY <1>3, IdleSound
<1>9. Placed(client[p])'
  BY <1>3, IdleSound DEF Placed, Syncing
<1> QED
  BY <1>2, <1>3, <1>4, <1>5, <1>6, <1>7, <1>8, <1>9, ClientMoves

\* Whatever the vault's user does to it, while no client moves.
LEMMA UserMoves ==
  ASSUME VInv, UNCHANGED <<client, archived, delivery, memory, mirror>>,
         vault' \in Vaults, Grows(vault, vault'), faults' \in Nat, overlaps' \in Nat,
         overlaps' = 0 => overlaps = 0,
         overlaps' = 0 /\ InTurns =>
           /\ HistorySound' /\ MirrorSound'
           /\ \A p \in Clients : ClientFresh(client[p])'
  PROVE  VInv'
<1>1. CInv /\ Rows
  BY DEF VInv, CInv
<1>2. Rows'
  BY <1>1 DEF Rows
<1>3. \A s \in Sessions : RowSound(vault', s, delivery'[s])
  BY <1>1, RowsKept
<1>4. \A p \in Clients : ClientSound(vault', client'[p])
  BY <1>1, GrowsKeepsClients DEF CInv
<1>5. CInv'
  BY <1>1, <1>2, <1>3, <1>4 DEF CInv
<1>6. overlaps' = 0 => InTurns'
  <2>1. Turns => Turns'
    BY DEF Turns, Busy
  <2> QED
    BY <2>1 DEF VInv, InTurns
<1>7. PInv'
  BY DEF VInv, PInv, Placed
<1> QED
  BY <1>5, <1>6, <1>7 DEF VInv

LEMMA UserSound ==
  ASSUME NotesmithVaultAssumption, VaultClientsAssumption,
         SummaryDeliveryAssumption, MemorySyncAssumption,
         VInv, VaultUser, UNCHANGED <<deliveryVars, memoryVars>>
  PROVE  VInv'
<1>1. CInv /\ vault \in Vaults /\ Rows /\ vault.notes \in Trees
  BY DEF VInv, CInv, Vaults
<1>2. UNCHANGED <<client, archived, delivery, memory, mirror>>
  BY DEF VaultUser, UserEdits, UserCommits, UserEnablesHistory, deliveryVars, memoryVars
<1>3. CASE UserEdits
  <2>1. faults' \in Nat /\ UserPath \in Paths
    BY <1>1, <1>3 DEF UserEdits, Rows, NotesmithVaultAssumption
  <2>2. Text(faults') \in Notes
    BY <2>1 DEF Text, Notes
  <2>3. /\ vault' \in Vaults /\ Grows(vault, vault')
        /\ vault'.log = vault.log /\ vault'.head = vault.head
        /\ vault'.notes = [vault.notes EXCEPT ![UserPath] = Text(faults')]
    BY <1>1, <1>3, <2>1, <2>2, NoteWritten DEF UserEdits
  <2>4. /\ overlaps' \in Nat
        /\ overlaps' = 0 => overlaps = 0 /\ \A p \in Clients : ~Busy(p)
    <3>1. Overlaps /\ overlaps \in Nat
      BY <1>1, <1>3 DEF UserEdits, Rows
    <3>2. CASE \A q \in Clients : ~Busy(q)
      BY <3>1, <3>2 DEF Overlaps
    <3>3. CASE ~(\A q \in Clients : ~Busy(q))
      BY <3>1, <3>3 DEF Overlaps
    <3> QED
      BY <3>2, <3>3
  <2>5. ASSUME overlaps' = 0, InTurns
        PROVE  /\ HistorySound' /\ MirrorSound'
               /\ \A p \in Clients : ClientFresh(client[p])'
    <3>1. \A s \in Sessions : vault'.notes[NotePath(s)] = vault.notes[NotePath(s)]
      <4>1. ASSUME NEW s \in Sessions
            PROVE  NotePath(s) \in Paths /\ NotePath(s) # UserPath
        BY PathsApart DEF NotePath, SummaryDeliveryAssumption
      <4> QED
        BY <1>1, <2>3, <4>1 DEF Trees
    <3>2. \A f \in Directories : vault'.notes[FilePath(f)] = vault.notes[FilePath(f)]
      <4>1. ASSUME NEW f \in Directories
            PROVE  FilePath(f) \in Paths /\ FilePath(f) # UserPath
        BY PathsApart DEF FilePath, MemorySyncAssumption
      <4> QED
        BY <1>1, <2>3, <4>1 DEF Trees
    <3>3. \A p \in Clients : client'[p].pc = "idle"
      BY <1>2, <2>4, <2>5 DEF Busy
    <3>4. \A p \in Clients : ClientFresh(client[p])'
      BY <3>3 DEF ClientFresh, Delivering, Syncing
    <3> QED
      BY <1>2, <2>3, <2>5, <3>1, <3>2, <3>4, HistoryKept, MirrorKept DEF InTurns
  <2> QED
    BY <1>2, <2>1, <2>3, <2>4, <2>5, UserMoves
<1>4. CASE UserCommits
  <2> DEFINE subject == <<UserPath, faults>>
  <2>1. subject \in Subjects /\ subject[1] \notin Sessions
    BY <1>1 DEF Subjects, Rows, VaultClientsAssumption
  <2>2. vault' = WithCommit(subject) /\ faults' = faults /\ overlaps' = overlaps
        /\ Dirty # {}
    BY <1>4 DEF UserCommits
  <2> HIDE DEF subject
  <2>3. /\ vault' \in Vaults /\ Grows(vault, vault')
        /\ vault'.notes = vault.notes /\ vault'.head = vault.notes
    BY <1>1, <2>1, <2>2, CommitAppends, CommitKeeps
  <2>4. Dirty' = {}
    BY <2>3 DEF Dirty
  <2>5. ASSUME InTurns
        PROVE  /\ HistorySound' /\ MirrorSound'
               /\ \A p \in Clients : ClientFresh(client[p])'
    <3>1. HistorySound'
      BY <1>1, <1>2, <2>1, <2>2, <2>5, CommitHistory DEF InTurns
    <3>2. MirrorSound'
      BY <1>2, <2>3, <2>5, MirrorKept DEF InTurns
    <3>3. ASSUME NEW p \in Clients PROVE ClientFresh(client[p])'
      <4>1. ClientFresh(client[p])
        BY <2>5 DEF InTurns
      <4> QED
        BY <1>2, <2>3, <2>4, <4>1, GrowsKeepsCommitted
        DEF ClientFresh, DeliveryFresh, SyncFresh, Behind, NotePath, Document
    <3> QED
      BY <3>1, <3>2, <3>3
  <2>6. faults' \in Nat /\ overlaps' \in Nat
    BY <1>1, <2>2 DEF Rows
  <2> QED
    BY <1>2, <2>2, <2>3, <2>5, <2>6, UserMoves
<1>5. CASE UserEnablesHistory
  <2>1. /\ vault' = [vault EXCEPT !.git = TRUE] /\ faults' = faults
        /\ overlaps' = overlaps
    BY <1>5 DEF UserEnablesHistory
  <2>2. vault' \in Vaults /\ SameTree(vault, vault') /\ Grows(vault, vault')
    BY <1>1, <2>1 DEF Vaults, SameTree, Grows
  <2>3. ASSUME InTurns
        PROVE  /\ HistorySound' /\ MirrorSound'
               /\ \A p \in Clients : ClientFresh(client[p])'
    <3>1. Dirty' = Dirty
      BY <2>2 DEF Dirty, SameTree
    <3>2. ASSUME NEW p \in Clients PROVE ClientFresh(client[p])'
      <4>1. ClientFresh(client[p])
        BY <2>3 DEF InTurns
      <4> QED
        BY <1>2, <2>2, <3>1, <4>1, GrowsKeepsCommitted
        DEF ClientFresh, DeliveryFresh, SyncFresh, Behind, NotePath, Document, SameTree
    <3> QED
      BY <1>2, <2>2, <2>3, <3>2, HistoryKept, MirrorKept DEF InTurns, SameTree
  <2>4. faults' \in Nat /\ overlaps' \in Nat
    BY <1>1, <2>1 DEF Rows
  <2> QED
    BY <1>2, <2>1, <2>2, <2>3, <2>4, UserMoves
<1> QED
  BY <1>3, <1>4, <1>5 DEF VaultUser

\* A directory is only added to: what a file was since a place it still was.
LEMMA SinceGrows ==
  ASSUME NEW m, NEW w, NEW d, NEW h, NEW notes,
         DOMAIN m[d] \subseteq DOMAIN w[d], \A n \in DOMAIN m[d] : w[d][n] = m[d][n],
         Since(m, d, h, notes)
  PROVE  Since(w, d, h, notes)
BY DEF Since

\* The agent writes its memory: places stay places, with what was there.
LEMMA AgentRemembersSound ==
  ASSUME NEW d \in Directories, VInv, AgentRemembers(d), UNCHANGED deliveryVars
  PROVE  VInv'
<1>1. CInv /\ vault \in Vaults /\ Rows
  BY DEF VInv, CInv
<1>2. /\ UNCHANGED <<vault, faults, client, overlaps, archived, delivery, mirror>>
      /\ \E x \in Contents : memory' = [memory EXCEPT ![d] = Append(memory[d], x)]
  BY DEF AgentRemembers, vaultVars, deliveryVars
<1>3. PICK x \in Contents : memory' = [memory EXCEPT ![d] = Append(memory[d], x)]
  BY <1>2
<1>4. ASSUME NEW e \in Directories
      PROVE  /\ memory[e] \in Seq(Contents) /\ memory'[e] \in Seq(Contents)
             /\ DOMAIN memory[e] \subseteq DOMAIN memory'[e]
             /\ \A n \in DOMAIN memory[e] : memory'[e][n] = memory[e][n]
             /\ Len(memory[e]) <= Len(memory'[e])
             /\ memory[e] # << >> => memory'[e] # << >>
  <2>1. memory[e] \in Seq(Contents) /\ DOMAIN memory = Directories
    BY <1>1 DEF Rows
  <2>2. CASE e = d
    <3> DEFINE l == memory[d]
    <3>1. memory'[d] = Append(l, x) /\ l \in Seq(Contents)
      BY <1>3, <2>1, <2>2
    <3> HIDE DEF l
    <3>2. /\ Append(l, x) \in Seq(Contents) /\ DOMAIN l \subseteq DOMAIN Append(l, x)
          /\ \A n \in DOMAIN l : Append(l, x)[n] = l[n]
          /\ Len(l) <= Len(Append(l, x)) /\ Append(l, x) # << >>
      BY <3>1
    <3> QED
      BY <2>2, <3>1, <3>2 DEF l
  <2>3. CASE e # d
    <3>1. memory'[e] = memory[e]
      BY <1>3, <2>1, <2>3
    <3>2. Len(memory[e]) \in Nat
      BY <2>1
    <3> QED
      BY <2>1, <3>1, <3>2
  <2> QED
    BY <2>2, <2>3
<1>5. Rows'
  <2>1. memory' \in [Directories -> Seq(Contents)]
    <3>1. memory' = [e \in Directories |-> memory'[e]]
      BY <1>1, <1>3 DEF Rows
    <3> QED
      BY <1>4, <3>1
  <2> QED
    BY <1>1, <1>2, <2>1 DEF Rows
<1>6. vault' \in Vaults /\ Grows(vault, vault') /\ faults' \in Nat /\ overlaps' \in Nat
  BY <1>1, <1>2, <1>5, GrowsItself DEF Rows
<1>7. ASSUME NEW e \in Directories, NEW h, NEW k
      PROVE  /\ Since(memory, e, h, vault.notes) => Since(memory', e, h, vault.notes)
             /\ Committed(memory, vault, e, h, k) => Committed(memory', vault, e, h, k)
  BY <1>4, SinceGrows DEF Committed
<1>8. ASSUME InTurns
      PROVE  /\ HistorySound' /\ MirrorSound' /\ Turns'
             /\ \A p \in Clients : ClientFresh(client[p])'
  <2>1. HistorySound'
    BY <1>2, <1>8, HistoryKept DEF InTurns
  <2>2. MirrorSound'
    <3>1. ASSUME NEW e \in Directories, mirror[e].state = "synced"
          PROVE  /\ Since(memory', e, mirror[e].hash, vault.notes)
                 /\ \/ mirror[e].again
                    \/ Committed(memory', vault, e, mirror[e].hash, mirror[e].commit)
      BY <1>7, <1>8, <3>1 DEF InTurns, MirrorSound
    <3> QED
      BY <1>2, <3>1 DEF MirrorSound
  <2>3. \A i \in Hashes : Behind(i) => Behind(i)'
    <3>1. ASSUME NEW i \in Hashes, Behind(i) PROVE Behind(i)'
      <4>1. /\ i.of \in Directories /\ i.ver \in Nat
            /\ Len(memory[i.of]) <= Len(memory'[i.of])
            /\ memory[i.of] \in Seq(Contents) /\ memory'[i.of] \in Seq(Contents)
        BY <1>4 DEF Hashes
      <4>2. Len(memory[i.of]) \in Nat /\ Len(memory'[i.of]) \in Nat
        BY <4>1
      <4>3. i.ver <= Len(memory'[i.of])
        BY <3>1, <4>1, <4>2 DEF Behind
      <4> QED
        BY <1>2, <3>1, <4>3 DEF Behind
    <3> QED
      BY <3>1
  <2>4. ASSUME NEW p \in Clients PROVE ClientFresh(client[p])'
    <3> DEFINE c == client[p]
    <3>1. ClientFresh(c) /\ c' = c
      BY <1>2, <1>8 DEF InTurns
    <3>2. CASE c.pc \in Delivering
      <4>1. DeliveryFresh(c) /\ c.pc \notin Syncing
        BY <3>1, <3>2 DEF ClientFresh, Delivering, Syncing
      <4>2. Dirty' = Dirty
        BY <1>2 DEF Dirty
      <4>3. DeliveryFresh(c)'
        BY <1>2, <3>1, <4>1, <4>2 DEF DeliveryFresh, NotePath, Document
      <4> QED
        BY <3>1, <4>1, <4>3 DEF ClientFresh
    <3>3. CASE c.pc \in Syncing
      <4>1. SyncFresh(c) /\ c.pc \notin Delivering
        BY <3>1, <3>3 DEF ClientFresh, Delivering, Syncing
      <4>2. /\ c.todo \subseteq Hashes /\ (c.pc # "sync-next" => c.item \in Hashes)
            /\ \A i \in Hashes : i.of \in Directories /\ i.ver \in Nat
            /\ c.read \in Nat
        BY <1>1, <3>3, AtPass
      <4>3. c.pc = "sync-file" =>
              c.item.ver <= c.read /\ c.read <= Len(memory'[c.item.of])
        <5>1. SUFFICES ASSUME c.pc = "sync-file"
                       PROVE  c.item.ver <= c.read /\ c.read <= Len(memory'[c.item.of])
          OBVIOUS
        <5>2. c.item.ver <= c.read /\ c.read <= Len(memory[c.item.of])
          BY <4>1, <5>1 DEF SyncFresh
        <5>3. c.item.of \in Directories
          BY <4>2, <5>1
        <5>4. /\ Len(memory[c.item.of]) <= Len(memory'[c.item.of])
              /\ memory[c.item.of] \in Seq(Contents) /\ memory'[c.item.of] \in Seq(Contents)
          BY <1>4, <5>3
        <5>5. Len(memory[c.item.of]) \in Nat /\ Len(memory'[c.item.of]) \in Nat
          BY <5>4
        <5>6. c.read <= Len(memory'[c.item.of])
          <6>1. \A i, j, k \in Nat : i <= j /\ j <= k => i <= k
            OBVIOUS
          <6> QED
            BY <4>2, <5>1, <5>2, <5>4, <5>5, <6>1
        <5> QED
          BY <5>2, <5>6
      <4>4. c.pc \in {"sync-manifest", "sync-commit", "sync-record"} =>
              Since(memory', c.item.of, c.item.ver, vault.notes)
        BY <1>7, <4>1, <4>2 DEF SyncFresh
      <4>5. c.pc = "sync-record" =>
              c.again \/ Committed(memory', vault, c.item.of, c.item.ver, c.commit)
        BY <1>7, <4>1, <4>2 DEF SyncFresh
      <4>6. SyncFresh(c)'
        BY <1>2, <2>3, <3>1, <4>1, <4>2, <4>3, <4>4, <4>5 DEF SyncFresh
      <4> QED
        BY <3>1, <4>1, <4>6 DEF ClientFresh
    <3>4. CASE c.pc \notin Delivering \cup Syncing
      BY <3>1, <3>4 DEF ClientFresh
    <3> QED
      BY <3>2, <3>3, <3>4
  <2>5. Turns'
    BY <1>2, <1>8 DEF InTurns, Turns, Busy
  <2> QED
    BY <2>1, <2>2, <2>4, <2>5
<1>9. CInv'
  <2>1. \A s \in Sessions : RowSound(vault', s, delivery'[s])
    BY <1>1, <1>2, <1>6, RowsKept
  <2>2. \A p \in Clients : ClientSound(vault', client'[p])
    BY <1>1, <1>2, <1>6, GrowsKeepsClients DEF CInv
  <2> QED
    BY <1>1, <1>2, <1>5, <1>6, <2>1, <2>2 DEF CInv
<1>10. PInv'
  <2>1. ASSUME NEW p \in Clients PROVE Placed(client[p])'
    <3> DEFINE c == client[p]
    <3>1. Placed(c) /\ c' = c
      BY <1>2 DEF VInv, PInv
    <3>2. ASSUME c.pc \in Syncing
          PROVE  /\ \A i \in c.todo : i.of \in Directories
                 /\ c.pc # "sync-next" => c.item.of \in Directories
      BY <1>1, <3>2, AtPass
    <3> QED
      BY <1>4, <3>1, <3>2 DEF Placed
  <2>2. \A e \in Directories : memory'[e] # << >>
    BY <1>4 DEF VInv, PInv
  <2> QED
    BY <2>1, <2>2 DEF PInv
<1>11. overlaps' = 0 => InTurns'
  BY <1>2, <1>8 DEF VInv, InTurns
<1> QED
  BY <1>9, <1>10, <1>11 DEF VInv

-----------------------------------------------------------------------------
(* The theorems.                                                            *)

\* At first the vault is empty, nobody works on it and nothing is delivered.
LEMMA InitIsSound ==
  ASSUME SummaryDeliveryAssumption, Init
  PROVE  VInv
<1>1. Blank \in Notes
  BY DEF Blank, Text, Notes
<1>2. vault \in Vaults /\ vault.log = << >>
  <2>1. PICK git \in BOOLEAN :
          vault = [git |-> git, notes |-> [p \in Paths |-> Blank],
                   head |-> [p \in Paths |-> Blank], log |-> <<>>]
    BY DEF Init, VaultInit
  <2>2. [p \in Paths |-> Blank] \in Trees
    BY <1>1 DEF Trees
  <2> QED
    BY <2>1, <2>2 DEF Vaults
<1>3. /\ client = [p \in Clients |-> Idle] /\ faults = 0 /\ overlaps = 0
      /\ archived = [s \in Sessions |-> 0]
      /\ delivery = [s \in Sessions |-> NoDelivery]
      /\ \E first \in [Directories -> Contents] :
           memory = [d \in Directories |-> <<first[d]>>]
      /\ mirror = [d \in Directories |-> NoMirror]
  BY DEF Init, VaultInit, DeliveryInit, MemoryInit
<1>4. /\ NoDelivery \in Deliveries /\ NoDelivery.state = "absent"
      /\ NoMirror \in Mirrors /\ NoMirror.state = "absent"
  BY DEF NoDelivery, NoMirror, Deliveries, Mirrors, States, MirrorStates
<1>4a. /\ memory \in [Directories -> Seq(Contents)]
       /\ \A d \in Directories : memory[d] # << >>
  BY <1>3
<1>5. Rows
  BY <1>3, <1>4, <1>4a DEF Rows
<1>6. CInv
  BY <1>2, <1>3, <1>4, <1>5, IdleSound DEF CInv, RowSound
<1>7. \A p \in Clients : client[p].pc = "idle"
  BY <1>3, IdleSound
<1>8. DOMAIN vault.log = {}
  BY <1>2
<1>9. HistorySound
  BY <1>8 DEF HistorySound
<1>10. MirrorSound /\ Turns /\ \A p \in Clients : ClientFresh(client[p])
  BY <1>3, <1>4, <1>7 DEF MirrorSound, Turns, Busy, ClientFresh, Delivering, Syncing
<1>11. PInv
  BY <1>4a, <1>7 DEF PInv, Placed, Syncing
<1> QED
  BY <1>6, <1>9, <1>10, <1>11 DEF VInv, InTurns

LEMMA StepsKeepSound ==
  ASSUME NotesmithVaultAssumption, SummaryDeliveryAssumption, MemorySyncAssumption,
         VaultClientsAssumption, VInv, [Next]_vars
  PROVE  VInv'
<1>1. ASSUME NEW p \in Clients, DeliveryStep(p) PROVE VInv'
  <2>1. UNCHANGED memoryVars
    BY <1>1 DEF DeliveryStep
  <2>2. ASSUME NEW s \in Sessions, WorkerArchives(p, s) PROVE VInv'
    BY <2>1, <2>2, WorkerArchivesSound
  <2>3. CASE TickBegins(p)
    <3>1. Failed(FALSE) \in SUBSET Sessions
      BY DEF Failed
    <3> QED
      BY <2>1, <2>3, <3>1, RunBeginsSound DEF TickBegins
  <2>4. CASE OperatorBegins(p)
    <3>1. Failed(TRUE) \in SUBSET Sessions /\ Outdated \in SUBSET Sessions
      BY DEF Failed, Outdated
    <3>2. \A s \in Sessions : {s} \in SUBSET Sessions
      OBVIOUS
    <3>3. CASE RunBegins(p, Failed(TRUE), TRUE)
      BY <2>1, <3>1, <3>3, RunBeginsSound
    <3>4. CASE RunBegins(p, Outdated, FALSE)
      BY <2>1, <3>1, <3>4, RunBeginsSound
    <3>5. ASSUME NEW s \in Sessions, NEW force \in BOOLEAN, RunBegins(p, {s}, force)
          PROVE  VInv'
      BY <2>1, <3>2, <3>5, RunBeginsSound
    <3> QED
      BY <2>4, <3>3, <3>4, <3>5 DEF OperatorBegins
  <2>5. CASE Delivers(p)
    BY <2>1, <2>5, DeliverNextSound, PreflightSound, WriteNoteSound,
       CommitNoteSound, RecordDeliverySound DEF Delivers
  <2> QED
    BY <1>1, <2>2, <2>3, <2>4, <2>5 DEF DeliveryStep
<1>2. ASSUME NEW p \in Clients, SyncStep(p) PROVE VInv'
  <2>1. UNCHANGED deliveryVars
    BY <1>2 DEF SyncStep
  <2>2. ASSUME NEW due \in BOOLEAN, NEW force \in BOOLEAN, SyncBegins(p, due, force)
        PROVE  VInv'
    BY <2>1, <2>2, SyncBeginsSound
  <2>3. CASE Syncs(p)
    BY <2>1, <2>3, SyncTargetSound, SyncReadSound, SyncFileSound,
       SyncManifestSound, SyncCommitSound, SyncRecordSound DEF Syncs
  <2> QED
    BY <1>2, <2>2, <2>3 DEF SyncStep
<1>3. ASSUME NEW p \in Clients, ClientDies(p), UNCHANGED <<deliveryVars, memoryVars>>
      PROVE  VInv'
  BY <1>3, ClientDiesSound
<1>4. CASE VaultUser /\ UNCHANGED <<deliveryVars, memoryVars>>
  BY <1>4, UserSound
<1>5. ASSUME NEW d \in Directories, AgentRemembers(d), UNCHANGED deliveryVars
      PROVE  VInv'
  BY <1>5, AgentRemembersSound
<1>6. CASE UNCHANGED vars
  <2>1. UNCHANGED <<client, vault, faults, overlaps, archived, delivery, memory, mirror>>
    BY <1>6 DEF vars, deliveryVars, memoryVars
  <2>2. CInv'
    BY <2>1 DEF VInv, CInv, Rows
  <2>3. Dirty' = Dirty
    BY <2>1 DEF Dirty
  <2>4. ASSUME InTurns PROVE InTurns'
    <3>1. HistorySound' /\ MirrorSound'
      BY <2>1, <2>4, GrowsItself, HistoryKept, MirrorKept DEF InTurns
    <3>2. Turns'
      BY <2>1, <2>4 DEF InTurns, Turns, Busy
    <3>3. ASSUME NEW p \in Clients PROVE ClientFresh(client[p])'
      <4>1. ClientFresh(client[p])
        BY <2>4 DEF InTurns
      <4>2. client[p].pc \in Delivering => DeliveryFresh(client[p])'
        BY <2>1, <2>3, <4>1 DEF ClientFresh, DeliveryFresh, NotePath, Document
      <4>3. client[p].pc \in Syncing => SyncFresh(client[p])'
        BY <2>1, <4>1 DEF ClientFresh, SyncFresh, Behind
      <4> QED
        BY <2>1, <4>2, <4>3 DEF ClientFresh
    <3> QED
      BY <3>1, <3>2, <3>3 DEF InTurns
  <2>5. PInv'
    BY <2>1 DEF VInv, PInv, Placed
  <2> QED
    BY <2>1, <2>2, <2>4, <2>5 DEF VInv
<1> QED
  BY <1>1, <1>2, <1>3, <1>4, <1>5, <1>6 DEF Next

\* What the vault, its clients and the tables hold is sound in every state.
THEOREM VaultIsSound == Spec => []VInv
<1>1. Init => VInv
  BY InitIsSound, SummaryDeliveryAssumption
<1>2. VInv /\ [Next]_vars => VInv'
  BY StepsKeepSound, NotesmithVaultAssumption, SummaryDeliveryAssumption,
     MemorySyncAssumption, VaultClientsAssumption
<1> QED
  BY <1>1, <1>2, PTL DEF Spec

\* Versioned delivery never degrades to latest-only: a delivered row names a
\* commit of exactly its session and revision, however clients race.
THEOREM DeliveriesAreCorrelated == Spec => []DeliveredIsCorrelated
<1>1. VInv => DeliveredIsCorrelated
  BY DEF VInv, CInv, RowSound, Found, DeliveredIsCorrelated
<1> QED
  BY <1>1, VaultIsSound, PTL

\* While clients take turns, that commit holds the revision's own note, and no
\* revision is committed twice, whatever crashes and lost answers are retried.
THEOREM DeliveriesArePreserved == Spec => []DeliveredIsPreserved
<1>1. VInv => DeliveredIsPreserved
  <2>1. SUFFICES ASSUME VInv, overlaps = 0, NEW s \in Sessions
                 PROVE  /\ HistoryRequired /\ delivery[s].state = "delivered" =>
                             vault.log[delivery[s].commit].tree[NotePath(s)]
                               = [rev |-> delivery[s].rev, body |-> delivery[s].rev]
                        /\ \A i, j \in DOMAIN vault.log :
                             vault.log[i].subject = vault.log[j].subject
                               /\ vault.log[i].subject[1] = s => i = j
    BY DEF DeliveredIsPreserved
  <2>2. HistorySound /\ RowSound(vault, s, delivery[s])
    BY <2>1 DEF VInv, CInv, InTurns
  <2>3. ASSUME HistoryRequired, delivery[s].state = "delivered"
        PROVE  vault.log[delivery[s].commit].tree[NotePath(s)]
                 = [rev |-> delivery[s].rev, body |-> delivery[s].rev]
    <3>1. /\ delivery[s].commit \in DOMAIN vault.log
          /\ vault.log[delivery[s].commit].subject = <<s, delivery[s].rev>>
      BY <2>2, <2>3 DEF RowSound, Found, Subject
    <3> QED
      BY <2>2, <3>1 DEF HistorySound, Document
  <2>4. \A i, j \in DOMAIN vault.log :
          vault.log[i].subject = vault.log[j].subject
            /\ vault.log[i].subject[1] = s => i = j
    BY <2>2 DEF HistorySound
  <2> QED
    BY <2>3, <2>4
<1> QED
  BY <1>1, VaultIsSound, PTL

\* While passes take turns, a synced directory is mirrored by a content no
\* older than the one whose hash its row holds; and so is the commit on record,
\* unless the history had its message before the pass committed.
THEOREM SkippedIsMirrored == Spec => []UnchangedIsMirrored
<1>1. VInv => UnchangedIsMirrored
  <2>1. SUFFICES ASSUME VInv, overlaps = 0, NEW d \in Directories,
                        mirror[d].state = "synced"
                 PROVE  /\ NoOlderThanHash(d, vault.notes)
                        /\ \/ mirror[d].again
                           \/ NoOlderThanHash(d, vault.log[mirror[d].commit].tree)
    BY DEF UnchangedIsMirrored
  <2>2. /\ Since(memory, d, mirror[d].hash, vault.notes)
        /\ \/ mirror[d].again
           \/ Since(memory, d, mirror[d].hash, vault.log[mirror[d].commit].tree)
    BY <2>1 DEF VInv, InTurns, MirrorSound, Committed
  <2>3. ASSUME NEW notes, Since(memory, d, mirror[d].hash, notes)
        PROVE  NoOlderThanHash(d, notes)
    <3>1. PICK n \in DOMAIN memory[d] :
            mirror[d].hash <= n /\ notes[FilePath(d)] = Text(memory[d][n])
      BY <2>3 DEF Since
    <3>2. memory[d] \in Seq(Contents) /\ mirror[d].hash \in Nat
      BY <2>1 DEF VInv, CInv, Rows, Mirrors
    <3>3. n \in mirror[d].hash .. Len(memory[d])
      BY <3>1, <3>2
    <3> QED
      BY <3>1, <3>3 DEF NoOlderThanHash, Now, Content
  <2> QED
    BY <2>2, <2>3
<1> QED
  BY <1>1, VaultIsSound, PTL
=============================================================================
