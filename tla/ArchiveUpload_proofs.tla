------------------------- MODULE ArchiveUpload_proofs -------------------------
(***************************************************************************)
(* For every bound: the snapshot an uploaded row names is of the revision   *)
(* the row records, content is completed under a second capture only after  *)
(* the row's identity was forgotten, a parked row leaves its park only by   *)
(* an exact rearchive or an explicit abandon, and no snapshot the server    *)
(* still holds is forgotten.                                                *)
(*                                                                          *)
(* The argument: the contents the server has seen say which body they are   *)
(* of, and only uploads of the newest body are ever created, all of them    *)
(* under the captures of the row and of the job in flight.  So it is enough *)
(* to count the captures of that body.                                      *)
(***************************************************************************)
EXTENDS ArchiveUpload, FiniteSetTheorems, TLAPS

Contents == [rev : Nat, body : Nat, set : {"none", "old", "current"}]
Uploads == [capture : Nat, content : Contents, full : BOOLEAN,
            status : {"open", "completed", "gone"}, snap : Nat]
Snaps == [content : Contents, live : BOOLEAN]
Rows == [state : States, cap : Nat, capRev : Nat, upload : Nat, upRev : Nat,
         upBody : Nat, snap : Nat, attempts : Nat, due : BOOLEAN]

\* The places of upload_one before and after its capture is prepared.
InFlight == {"status", "create", "persist", "chunks", "complete", "record"}
PCs == {"idle", "ensure", "prepare", "fail"} \cup InFlight
Jobs == [pc : PCs, saved : Nat, cap : Nat, upload : Nat, content : Contents, snap : Nat]

UploadIds == DOMAIN server.uploads
SnapIds == DOMAIN server.snaps

Types ==
  /\ server \in [uploads : Seq(Uploads), snaps : Seq(Snaps)]
  /\ doc \in [rev : Nat \ {0}, body : Nat \ {0}]
  /\ row \in Rows /\ row.upload \in {0} \cup UploadIds /\ row.snap \in {0} \cup SnapIds
  /\ job \in Jobs /\ job.upload \in {0} \cup UploadIds
  /\ job.saved \in {0} \cup SnapIds /\ job.snap \in {0} \cup SnapIds
  /\ check \in {0} \cup SnapIds
  /\ cleared \in Nat

\* A content the server has seen is of a body there has been.
Past(content) ==
  /\ content.body <= doc.body
  /\ content.body = doc.body => content.rev = doc.rev

ServerSound ==
  /\ \A u \in UploadIds :
       /\ Past(server.uploads[u].content) /\ server.uploads[u].capture # 0
       /\ server.uploads[u].snap \in {0} \cup SnapIds
       /\ server.uploads[u].status = "completed" =>
            /\ server.uploads[u].snap # 0
            /\ server.snaps[server.uploads[u].snap].content = server.uploads[u].content
  /\ \A u, v \in UploadIds :
       /\ server.uploads[u].status # "gone" /\ server.uploads[v].status # "gone"
       /\ server.uploads[u].capture = server.uploads[v].capture
       => u = v
  /\ \A k \in SnapIds : Past(server.snaps[k].content)
  /\ \A k, l \in SnapIds :
       /\ server.snaps[k].live /\ server.snaps[l].live
       /\ server.snaps[k].content = server.snaps[l].content
       => k = l

\* What the row says of the server and of the document.
RowSound ==
  /\ row.state = "absent" => row = NoRow
  /\ row.state \in Parked => row.snap = 0
  /\ row.state = "uploaded" =>
       /\ row.snap # 0
       /\ row.upBody # 0 => server.snaps[row.snap].content.rev = row.upRev
  /\ row.upBody = doc.body => row.upRev = doc.rev
  /\ row.upBody <= doc.body
  /\ row.cap # 0 =>
       /\ row.upload # 0 => server.uploads[row.upload].content.rev = row.capRev
       /\ \A u \in UploadIds : server.uploads[u].capture = row.cap =>
            /\ server.uploads[u].content.rev = row.capRev
            /\ row.state = "uploaded" /\ row.upBody # doc.body =>
                 server.uploads[u].content.body # doc.body

\* What the holder of the session lock is doing.
JobSound ==
  /\ job.pc = "idle" => job = Idle
  /\ job.pc \in {"ensure", "prepare"} => job.cap = 0
  /\ job.cap # 0 => row.cap \in {0, job.cap}
  /\ job.pc \in {"prepare"} \cup InFlight =>
       /\ job.content.body = doc.body /\ job.content.rev = doc.rev
       /\ row.state # "absent"
  /\ job.pc = "prepare" =>
       row.state # "dead-letter" /\ (row.state = "uploaded" => row.upBody # doc.body)
  /\ job.pc \in InFlight =>
       /\ row.state # "uploaded" /\ job.cap # 0
       /\ row.cap # 0 => row.capRev = doc.rev
  /\ job.pc \in {"status", "persist", "chunks", "complete"} =>
       job.upload # 0 /\ server.uploads[job.upload].content.rev = doc.rev
  /\ job.pc = "record" =>
       job.snap # 0 /\ server.snaps[job.snap].content.rev = doc.rev
  /\ job.pc \notin {"idle", "ensure"} /\ job.saved = 0 => row.state \notin Parked
  /\ job.saved # 0 => row.snap = 0

\* The captures under which contents were uploaded, and those of the newest
\* body that are or may yet be.
CapturesOf(content) ==
  {server.uploads[u].capture : u \in {v \in UploadIds : server.uploads[v].content = content}}
Newest ==
  {server.uploads[u].capture : u \in {v \in UploadIds :
                                        server.uploads[v].content.body = doc.body}}
Captures == {server.uploads[u].capture : u \in UploadIds}
Current == {row.cap, job.cap} \ {0}

CapturesCounted ==
  /\ Cardinality(Newest \cup Current) <= cleared + (IF row.cap = 0 THEN 0 ELSE 1)
  /\ \A u \in UploadIds :
       Cardinality(CapturesOf(server.uploads[u].content)) <= 1 + cleared
  /\ \E m \in {0} \cup Captures : \A x \in Captures : x <= m

CheckSound == check # 0 => ~server.snaps[check].live

UInv == Types /\ ServerSound /\ RowSound /\ JobSound /\ CapturesCounted /\ CheckSound


-----------------------------------------------------------------------------
(* Facts of finite sets.                                                    *)

\* A set of numbers with a largest element has it as its maximum.
LEMMA MaxIs ==
  ASSUME NEW S \in SUBSET Nat, NEW m \in S, \A x \in S : x <= m
  PROVE  Max(S) \in S /\ \A x \in S : x <= Max(S)
<1>1. \E x \in S : \A y \in S : x >= y
  OBVIOUS
<1> QED
  BY <1>1 DEF Max

\* The maximum of 0 and at most one positive number.
LEMMA MaxOfOne ==
  ASSUME NEW S \in SUBSET (Nat \ {0}), \A x, y \in S : x = y
  PROVE  /\ Max({0} \cup S) \in {0} \cup S
         /\ Max({0} \cup S) = 0 => S = {}
<1>1. CASE S = {}
  <2>1. \A x \in {0} \cup S : x <= 0
    BY <1>1
  <2> QED
    BY <1>1, <2>1, MaxIs
<1>2. CASE S # {}
  <2>1. PICK m \in S : TRUE
    BY <1>2
  <2>2. \A x \in {0} \cup S : x <= m
    BY <2>1
  <2>3. /\ Max({0} \cup S) \in {0} \cup S
        /\ \A x \in {0} \cup S : x <= Max({0} \cup S)
    BY <2>1, <2>2, MaxIs
  <2> QED
    BY <2>1, <2>3
<1> QED
  BY <1>1, <1>2

\* The captures of any of the uploads are finitely many.
LEMMA CapturesFinite ==
  ASSUME Types, NEW S \in SUBSET UploadIds
  PROVE  IsFiniteSet({server.uploads[u].capture : u \in S})
<1> DEFINE T == {server.uploads[u].capture : u \in S}
           f == [u \in S |-> server.uploads[u].capture]
<1>1. UploadIds = 1 .. Len(server.uploads) /\ Len(server.uploads) \in Nat
  BY DEF Types, UploadIds
<1>2. IsFiniteSet(UploadIds)
  BY <1>1, FS_Interval
<1>3. IsFiniteSet(S)
  BY <1>2, FS_Subset
<1>4. f \in Surjection(S, T)
  BY DEF Surjection
<1> QED
  BY <1>3, <1>4, FS_Surjection

\* So are those of the newest body with those of the row and the job.
LEMMA NewestFinite ==
  ASSUME Types
  PROVE  /\ IsFiniteSet(Newest \cup Current) /\ IsFiniteSet(Newest)
         /\ \A content : IsFiniteSet(CapturesOf(content))
<1>1. IsFiniteSet(Newest)
  BY CapturesFinite DEF Newest
<1>2. IsFiniteSet({} \cup {row.cap}) /\ IsFiniteSet(({} \cup {row.cap}) \cup {job.cap})
  BY FS_EmptySet, FS_AddElement
<1>3. IsFiniteSet(Current)
  BY <1>2, FS_Subset DEF Current
<1>4. ASSUME NEW content PROVE IsFiniteSet(CapturesOf(content))
  BY CapturesFinite DEF CapturesOf
<1> QED
  BY <1>1, <1>3, <1>4, FS_Union

\* A smaller set has no more elements.
LEMMA Fewer ==
  ASSUME NEW S, NEW T, IsFiniteSet(T), S \subseteq T, NEW n \in Nat, Cardinality(T) <= n
  PROVE  IsFiniteSet(S) /\ Cardinality(S) \in Nat /\ Cardinality(S) <= n
<1>1. IsFiniteSet(S) /\ Cardinality(S) <= Cardinality(T)
  BY FS_Subset
<1>2. Cardinality(S) \in Nat /\ Cardinality(T) \in Nat
  BY <1>1, FS_CardinalityType
<1> QED
  BY <1>1, <1>2

-----------------------------------------------------------------------------
(* What the operations of the server leave alone.                           *)

\* The server keeps what it has: a capture and a content stay what they were,
\* and a snapshot is at most tombstoned.
Keeps ==
  /\ server' \in [uploads : Seq(Uploads), snaps : Seq(Snaps)]
  /\ UploadIds \subseteq UploadIds' /\ SnapIds \subseteq SnapIds'
  /\ \A u \in UploadIds :
       /\ server'.uploads[u].capture = server.uploads[u].capture
       /\ server'.uploads[u].content = server.uploads[u].content
  /\ \A k \in SnapIds :
       /\ server'.snaps[k].content = server.snaps[k].content
       /\ server'.snaps[k].live => server.snaps[k].live

\* The types of the entries of the server.
LEMMA Entries ==
  ASSUME Types
  PROVE  /\ \A u \in UploadIds : server.uploads[u] \in Uploads /\ u \in Nat \ {0}
         /\ \A k \in SnapIds : server.snaps[k] \in Snaps /\ k \in Nat \ {0}
         /\ server = [uploads |-> server.uploads, snaps |-> server.snaps]
         /\ server.uploads \in Seq(Uploads) /\ server.snaps \in Seq(Snaps)
         /\ UploadIds = 1 .. Len(server.uploads) /\ Len(server.uploads) \in Nat
         /\ SnapIds = 1 .. Len(server.snaps) /\ Len(server.snaps) \in Nat
  BY DEF Types, UploadIds, SnapIds

\* The upload a create finds, if any, is the one of the capture that counts.
LEMMA UploadFound ==
  ASSUME Types, ServerSound, NEW capture
  PROVE  /\ UploadOf(capture) \in {0} \cup UploadIds
         /\ UploadOf(capture) # 0 => server.uploads[UploadOf(capture)].capture = capture
         /\ UploadOf(capture) = 0 =>
              \A u \in UploadIds : server.uploads[u].capture = capture =>
                                     server.uploads[u].status = "gone"
<1> DEFINE S == {u \in UploadIds :
                   server.uploads[u].capture = capture /\ server.uploads[u].status # "gone"}
<1>1. S \in SUBSET (Nat \ {0})
  BY Entries
<1>2. \A x, y \in S : x = y
  BY DEF ServerSound
<1>3. UploadOf(capture) = Max({0} \cup S)
  BY DEF UploadOf, UploadIds
<1>4. Max({0} \cup S) \in {0} \cup S /\ (Max({0} \cup S) = 0 => S = {})
  BY <1>1, <1>2, MaxOfOne
<1> QED
  BY <1>1, <1>3, <1>4

\* The snapshot a completion coalesces into, if any, is live and the same.
LEMMA SnapshotFound ==
  ASSUME Types, ServerSound, NEW content
  PROVE  /\ SnapshotFor(content) \in {0} \cup SnapIds
         /\ SnapshotFor(content) # 0 => server.snaps[SnapshotFor(content)].content = content
         /\ SnapshotFor(content) = 0 =>
              \A k \in SnapIds : server.snaps[k].content = content => ~server.snaps[k].live
<1> DEFINE S == {k \in SnapIds : server.snaps[k].live /\ server.snaps[k].content = content}
<1>1. S \in SUBSET (Nat \ {0})
  BY Entries
<1>2. \A x, y \in S : x = y
  BY DEF ServerSound
<1>3. SnapshotFor(content) = Max({0} \cup S)
  BY DEF SnapshotFor, SnapIds
<1>4. Max({0} \cup S) \in {0} \cup S /\ (Max({0} \cup S) = 0 => S = {})
  BY <1>1, <1>2, MaxOfOne
<1> QED
  BY <1>1, <1>3, <1>4

\* A fresh capture is that of no upload and not the one of the row; it is
\* larger than all of them.
LEMMA FreshIsNew ==
  ASSUME Types, CapturesCounted
  PROVE  /\ FreshCapture \in Nat \ {0} /\ FreshCapture # row.cap
         /\ \A x \in Captures : x < FreshCapture
<1> DEFINE S == {0, row.cap} \cup Captures
<1>1. row.cap \in Nat
  BY DEF Types, Rows
<1>2. Captures \subseteq Nat
  BY Entries DEF Uploads, Captures
<1>3. PICK m \in {0} \cup Captures : \A x \in Captures : x <= m
  BY DEF CapturesCounted
<1>4. \E x \in S : \A y \in S : y <= x
  <2>1. CASE row.cap <= m
    <3>1. m \in S /\ \A y \in S : y <= m
      BY <1>1, <1>2, <1>3, <2>1
    <3> QED
      BY <3>1
  <2>2. CASE ~(row.cap <= m)
    <3>1. row.cap \in S /\ \A y \in S : y <= row.cap
      BY <1>1, <1>2, <1>3, <2>2
    <3> QED
      BY <3>1
  <2> QED
    BY <2>1, <2>2
<1>5. S \in SUBSET Nat
  <2>1. \A x \in S : x \in Nat
    BY <1>1, <1>2
  <2> QED
    BY <2>1
<1>6. Max(S) \in S /\ \A x \in S : x <= Max(S)
  BY <1>4, <1>5, MaxIs
<1>7. FreshCapture = 1 + Max(S)
  BY DEF FreshCapture, UploadIds, Captures
<1> HIDE DEF S
<1>8. Max(S) \in Nat
  BY <1>5, <1>6
<1>9. 0 \in S /\ row.cap \in S /\ Captures \subseteq S
  BY DEF S
<1> QED
  BY <1>2, <1>6, <1>7, <1>8, <1>9

\* A new upload changes no other one.
LEMMA CreatedKeeps ==
  ASSUME Types, ServerSound, NEW capture \in Nat \ {0}, NEW content \in Contents,
         Past(content), UploadOf(capture) = 0, server' = Created(capture, content),
         doc' = doc
  PROVE  /\ Keeps /\ ServerSound' /\ SnapIds' = SnapIds
         /\ LET new == Len(server.uploads) + 1
            IN  /\ UploadIds' = UploadIds \cup {new} /\ new \notin UploadIds /\ new # 0
                /\ server'.uploads[new].capture = capture
                /\ server'.uploads[new].content = content
<1> DEFINE new == Len(server.uploads) + 1
           entry == [capture |-> capture, content |-> content, full |-> FALSE,
                     status |-> "open", snap |-> 0]
<1>1. entry \in Uploads
  BY DEF Uploads
<1>2. entry.capture = capture /\ entry.content = content /\ entry.status = "open"
      /\ entry.snap = 0
  OBVIOUS
<1> HIDE DEF entry
<1>3. server' = [server EXCEPT !.uploads = Append(server.uploads, entry)]
  BY DEF Created, entry
<1>4. server'.uploads = Append(server.uploads, entry) /\ server'.snaps = server.snaps
  BY <1>3, Entries
<1>5. /\ server'.uploads \in Seq(Uploads) /\ Len(server'.uploads) = new
      /\ \A u \in UploadIds : server'.uploads[u] = server.uploads[u]
      /\ server'.uploads[new] = entry
  BY <1>1, <1>4, Entries
<1>6. UploadIds' = UploadIds \cup {new} /\ new \notin UploadIds /\ new # 0
  BY <1>5, Entries DEF UploadIds
<1>7. SnapIds' = SnapIds
  BY <1>4 DEF SnapIds
<1>8. server' = [uploads |-> server'.uploads, snaps |-> server'.snaps]
  BY <1>3, <1>4, Entries
<1>9. Keeps
  BY <1>4, <1>5, <1>6, <1>7, <1>8, Entries DEF Keeps
<1>10. ServerSound'
  <2>1. \A u \in UploadIds :
          server.uploads[u].capture = capture => server.uploads[u].status = "gone"
    BY UploadFound
  <2>2. /\ \A k \in SnapIds' : Past(server.snaps[k].content)'
        /\ \A k, l \in SnapIds' :
             /\ server'.snaps[k].live /\ server'.snaps[l].live
             /\ server'.snaps[k].content = server'.snaps[l].content
             => k = l
    BY <1>4, <1>7 DEF ServerSound, Past
  <2>3. \A u, v \in UploadIds' :
          /\ server'.uploads[u].status # "gone" /\ server'.uploads[v].status # "gone"
          /\ server'.uploads[u].capture = server'.uploads[v].capture
          => u = v
    BY <1>2, <1>5, <1>6, <2>1 DEF ServerSound
  <2>4. ASSUME NEW u \in UploadIds'
        PROVE  /\ Past(server.uploads[u].content)' /\ server'.uploads[u].capture # 0
               /\ server'.uploads[u].snap \in {0} \cup SnapIds'
               /\ server'.uploads[u].status = "completed" =>
                    /\ server'.uploads[u].snap # 0
                    /\ server'.snaps[server'.uploads[u].snap].content
                         = server'.uploads[u].content
    <3>1. CASE u = new
      BY <1>2, <1>5, <3>1 DEF Past
    <3>2. CASE u \in UploadIds
      BY <1>4, <1>5, <1>7, <3>2 DEF ServerSound, Past
    <3> QED
      BY <1>6, <3>1, <3>2
  <2> QED
    BY <2>2, <2>3, <2>4 DEF ServerSound
<1> QED
  BY <1>2, <1>5, <1>6, <1>7, <1>9, <1>10

\* An upload is completed into a snapshot of its content.
LEMMA CompletedKeeps ==
  ASSUME Types, ServerSound, NEW u \in UploadIds, server.uploads[u].status # "gone",
         server' = Completed(u), doc' = doc
  PROVE  /\ Keeps /\ ServerSound' /\ UploadIds' = UploadIds
         /\ server'.uploads[u].snap \in SnapIds' \ {0}
         /\ server'.snaps[server'.uploads[u].snap].content = server.uploads[u].content
<1> DEFINE upload == server.uploads[u]
           same == SnapshotFor(upload.content)
           new == Len(server.snaps) + 1
           snap == IF same = 0 THEN new ELSE same
           entry == [content |-> upload.content, live |-> TRUE]
<1>1. CASE upload.status = "completed"
  <2>1. server' = server
    BY <1>1 DEF Completed
  <2>2. upload.snap \in SnapIds \ {0} /\ server.snaps[upload.snap].content = upload.content
    BY <1>1 DEF ServerSound
  <2>3. Keeps /\ ServerSound' /\ UploadIds' = UploadIds /\ SnapIds' = SnapIds
    BY <2>1 DEF Keeps, ServerSound, UploadIds, SnapIds, Past, Types
  <2> QED
    BY <2>1, <2>2, <2>3
<1>2. CASE upload.status # "completed"
  <2>1. upload \in Uploads /\ upload.content \in Contents
    BY Entries DEF Uploads
  <2>2. entry \in Snaps /\ entry.content = upload.content
    BY <2>1 DEF Snaps
  <2>3. /\ same \in {0} \cup SnapIds
        /\ same # 0 => server.snaps[same].content = upload.content
        /\ same = 0 => \A k \in SnapIds :
                         server.snaps[k].content = upload.content => ~server.snaps[k].live
    BY SnapshotFound
  <2>4. server' = [uploads |-> [server.uploads EXCEPT ![u].status = "completed",
                                                      ![u].snap = snap],
                   snaps |-> IF same # 0 THEN server.snaps ELSE Append(server.snaps, entry)]
    BY <1>2 DEF Completed
  <2> HIDE DEF same, entry
  <2>5. /\ server'.uploads = [server.uploads EXCEPT ![u].status = "completed",
                                                    ![u].snap = snap]
        /\ server'.snaps = IF same # 0 THEN server.snaps ELSE Append(server.snaps, entry)
    BY <2>4
  <2>6. /\ SnapIds' = SnapIds \cup {snap} /\ snap # 0
        /\ \A k \in SnapIds : server'.snaps[k] = server.snaps[k]
        /\ server'.snaps[snap].content = upload.content
        /\ server'.snaps \in Seq(Snaps)
        /\ same = 0 => snap \notin SnapIds
    BY <2>2, <2>3, <2>5, Entries DEF SnapIds
  <2>7. /\ UploadIds' = UploadIds
        /\ \A v \in UploadIds \ {u} : server'.uploads[v] = server.uploads[v]
        /\ server'.uploads[u].capture = upload.capture
        /\ server'.uploads[u].content = upload.content
        /\ server'.uploads[u].status = "completed" /\ server'.uploads[u].snap = snap
    BY <2>1, <2>5, Entries DEF UploadIds, Uploads
  <2>8. server'.uploads \in Seq(Uploads)
    <3>1. snap \in Nat
      BY <2>3, Entries
    <3> DEFINE next == [upload EXCEPT !.status = "completed", !.snap = snap]
    <3>2. next \in Uploads
      BY <2>1, <3>1 DEF Uploads
    <3>3. server'.uploads = [server.uploads EXCEPT ![u] = next]
      BY <2>5
    <3> HIDE DEF next
    <3> QED
      BY <3>2, <3>3, Entries
  <2>9. Keeps
    BY <2>4, <2>5, <2>6, <2>7, <2>8, Entries DEF Keeps
  <2>10. ServerSound'
    <3>1. \A k \in SnapIds' : Past(server.snaps[k].content)'
      BY <2>6 DEF ServerSound, Past
    <3>2. \A k, l \in SnapIds' :
            /\ server'.snaps[k].live /\ server'.snaps[l].live
            /\ server'.snaps[k].content = server'.snaps[l].content
            => k = l
      BY <2>3, <2>6 DEF ServerSound
    <3>3. \A v, w \in UploadIds' :
            /\ server'.uploads[v].status # "gone" /\ server'.uploads[w].status # "gone"
            /\ server'.uploads[v].capture = server'.uploads[w].capture
            => v = w
      BY <2>7 DEF ServerSound
    <3>4. ASSUME NEW v \in UploadIds'
          PROVE  /\ Past(server.uploads[v].content)' /\ server'.uploads[v].capture # 0
                 /\ server'.uploads[v].snap \in {0} \cup SnapIds'
                 /\ server'.uploads[v].status = "completed" =>
                      /\ server'.uploads[v].snap # 0
                      /\ server'.snaps[server'.uploads[v].snap].content
                           = server'.uploads[v].content
      <4>1. CASE v = u
        BY <2>6, <2>7, <4>1 DEF ServerSound, Past
      <4>2. CASE v # u
        BY <2>6, <2>7, <4>2 DEF ServerSound, Past
      <4> QED
        BY <4>1, <4>2
    <3> QED
      BY <3>1, <3>2, <3>3, <3>4 DEF ServerSound
  <2> QED
    BY <2>6, <2>7, <2>9, <2>10
<1> QED
  BY <1>1, <1>2

\* An upload that is open receives its chunks or expires.
LEMMA TouchedKeeps ==
  ASSUME Types, ServerSound, NEW u \in UploadIds, server.uploads[u].status = "open",
         doc' = doc,
         \/ server' = [server EXCEPT !.uploads[u].full = TRUE]
         \/ server' = [server EXCEPT !.uploads[u].status = "gone"]
  PROVE  Keeps /\ ServerSound' /\ UploadIds' = UploadIds /\ SnapIds' = SnapIds
<1>1. server.uploads[u] \in Uploads
  BY Entries
<1>2. PICK next \in Uploads :
        /\ server'.uploads = [server.uploads EXCEPT ![u] = next]
        /\ next.capture = server.uploads[u].capture
        /\ next.content = server.uploads[u].content
        /\ next.snap = server.uploads[u].snap
        /\ next.status \in {"open", "gone"}
  <2>1. CASE server' = [server EXCEPT !.uploads[u].full = TRUE]
    <3> DEFINE next == [server.uploads[u] EXCEPT !.full = TRUE]
    <3>1. next \in Uploads
      BY <1>1, Zenon DEF Uploads
    <3> QED
      BY <1>1, <2>1, <3>1, Entries DEF Uploads
  <2>2. CASE server' = [server EXCEPT !.uploads[u].status = "gone"]
    <3> DEFINE next == [server.uploads[u] EXCEPT !.status = "gone"]
    <3>1. next \in Uploads
      BY <1>1 DEF Uploads
    <3> QED
      BY <1>1, <2>2, <3>1, Entries DEF Uploads
  <2> QED
    BY <2>1, <2>2
<1>3. server'.snaps = server.snaps /\ server' = [uploads |-> server'.uploads,
                                                 snaps |-> server'.snaps]
  BY Entries
<1>4. SnapIds' = SnapIds
  BY <1>3 DEF SnapIds
<1>5. /\ UploadIds' = UploadIds /\ server'.uploads \in Seq(Uploads)
      /\ server'.uploads[u] = next
      /\ \A v \in UploadIds \ {u} : server'.uploads[v] = server.uploads[v]
  BY <1>2, Entries DEF UploadIds
<1>6. Keeps
  BY <1>2, <1>3, <1>4, <1>5, Entries DEF Keeps
<1>7. ServerSound'
  BY <1>2, <1>3, <1>4, <1>5 DEF ServerSound, Past
<1> QED
  BY <1>4, <1>5, <1>6, <1>7

\* The operator tombstones a snapshot.
LEMMA TombstonedKeeps ==
  ASSUME Types, ServerSound, NEW k \in SnapIds, Tombstone(k)
  PROVE  Keeps /\ ServerSound' /\ UploadIds' = UploadIds /\ SnapIds' = SnapIds
<1>1. server.snaps[k] \in Snaps
  BY Entries
<1>2. PICK next \in Snaps :
        /\ server'.snaps = [server.snaps EXCEPT ![k] = next]
        /\ next.content = server.snaps[k].content /\ ~next.live
  <2> DEFINE next == [server.snaps[k] EXCEPT !.live = FALSE]
  <2>1. next \in Snaps /\ ~next.live
    BY <1>1, Zenon DEF Snaps
  <2> QED
    BY <1>1, <2>1, Entries DEF Snaps, Tombstone
<1>3. server'.uploads = server.uploads /\ server' = [uploads |-> server'.uploads,
                                                     snaps |-> server'.snaps]
      /\ doc' = doc
  BY Entries DEF Tombstone
<1>4. UploadIds' = UploadIds
  BY <1>3 DEF UploadIds
<1>5. /\ SnapIds' = SnapIds /\ server'.snaps \in Seq(Snaps)
      /\ server'.snaps[k] = next
      /\ \A l \in SnapIds \ {k} : server'.snaps[l] = server.snaps[l]
  <2>1. server'.snaps = [server.snaps EXCEPT ![k] = next]
    BY <1>2
  <2>2. server.snaps \in Seq(Snaps) /\ next \in Snaps
    BY <1>2, Entries
  <2>3. DOMAIN server'.snaps = DOMAIN server.snaps
    BY <2>1
  <2>4. server'.snaps \in Seq(Snaps)
    BY <1>2, <2>1, <2>2, Entries DEF SnapIds
  <2> QED
    BY <2>1, <2>3, <2>4 DEF SnapIds
<1>6. Keeps
  BY <1>2, <1>3, <1>4, <1>5, Entries DEF Keeps
<1>7. ServerSound'
  BY <1>2, <1>3, <1>4, <1>5 DEF ServerSound, Past
<1> QED
  BY <1>4, <1>5, <1>6, <1>7

-----------------------------------------------------------------------------
(* The rows the statements write.                                           *)

\* repair_missing_archive_upload and the others that forget a capture.
LEMMA ForgottenRow ==
  ASSUME row \in Rows, NEW state \in States
  PROVE  LET r == Forgotten(state)
         IN  /\ r \in Rows /\ r.state = state /\ r.cap = 0 /\ r.capRev = 0
             /\ r.upload = 0 /\ r.snap = 0 /\ r.upRev = row.upRev /\ r.upBody = row.upBody
<1>1. Forgotten(state) \in Rows
  BY DEF Rows, Forgotten
<1> QED
  BY <1>1 DEF Rows, Forgotten

\* reset_archive_upload_for_retry
LEMMA ResetRowIs ==
  ASSUME row \in Rows, NEW force \in BOOLEAN
  PROVE  LET r == ResetRow(force)
         IN  /\ r \in Rows /\ r.state = "pending" /\ r.cap = row.cap
             /\ r.capRev = row.capRev /\ r.upload = row.upload /\ r.snap = row.snap
             /\ r.upRev = row.upRev /\ r.upBody = row.upBody
<1>1. ResetRow(force) \in Rows
  BY DEF Rows, ResetRow, States
<1> QED
  BY <1>1 DEF Rows, ResetRow

\* record_archive_upload_success
LEMMA SuccessRowIs ==
  ASSUME Types
  PROVE  LET r == SuccessRow
         IN  /\ r \in Rows /\ r.state = "uploaded" /\ r.cap = row.cap
             /\ r.capRev = row.capRev /\ r.upload = row.upload /\ r.snap = job.snap
             /\ r.upRev = doc.rev /\ r.upBody = doc.body
<1>1. row \in Rows /\ job.snap \in Nat /\ doc.rev \in Nat /\ doc.body \in Nat
  BY DEF Types, Jobs
<1>2. SuccessRow \in Rows
  BY <1>1 DEF Rows, SuccessRow, States
<1> QED
  BY <1>1, <1>2 DEF Rows, SuccessRow

\* record_archive_upload_failure
LEMMA FailureRowIs ==
  ASSUME row \in Rows
  PROVE  LET r == FailureRow
         IN  /\ r \in Rows /\ r.state \in {"dead-letter", "failed"} /\ r.cap = row.cap
             /\ r.capRev = row.capRev /\ r.upload = row.upload /\ r.snap = row.snap
             /\ r.upRev = row.upRev /\ r.upBody = row.upBody
<1> DEFINE tries == row.attempts + 1
           last == tries >= MaxAttempts
           next == IF last THEN "dead-letter" ELSE "failed"
<1>1. tries \in Nat /\ next \in {"dead-letter", "failed"} /\ last \in BOOLEAN
  BY DEF Rows
<1>2. FailureRow = [row EXCEPT !.attempts = tries, !.due = last, !.state = next]
  BY DEF FailureRow
<1> HIDE DEF tries, last, next
<1>3. FailureRow \in Rows
  BY <1>1, <1>2 DEF Rows, States
<1> QED
  BY <1>1, <1>2, <1>3 DEF Rows

\* A failed attempt of a rearchive.
LEMMA RearchiveFailedRow ==
  ASSUME row \in Rows, NEW r, r = [row EXCEPT !.state = "rearchive-failed", !.attempts = @ + 1]
  PROVE  /\ r \in Rows /\ r.state = "rearchive-failed" /\ r.cap = row.cap
         /\ r.capRev = row.capRev /\ r.upload = row.upload /\ r.snap = row.snap
         /\ r.upRev = row.upRev /\ r.upBody = row.upBody
<1> DEFINE tries == row.attempts + 1
<1>1. tries \in Nat /\ "rearchive-failed" \in States
  BY DEF Rows, States, Parked
<1>2. r = [row EXCEPT !.state = "rearchive-failed", !.attempts = tries]
  OBVIOUS
<1> HIDE DEF tries
<1>3. r \in Rows
  BY <1>1, <1>2 DEF Rows
<1> QED
  BY <1>2, <1>3 DEF Rows

\* The row of a session never uploaded.
LEMMA NoRowIs ==
  /\ NoRow \in Rows /\ NoRow.state = "absent" /\ NoRow.cap = 0 /\ NoRow.capRev = 0
  /\ NoRow.upload = 0 /\ NoRow.snap = 0 /\ NoRow.upRev = 0 /\ NoRow.upBody = 0
  BY DEF Rows, NoRow, States

\* A row created, for an upload or for a rearchive.
LEMMA CreatedRow ==
  ASSUME NEW state \in States
  PROVE  LET r == [NoRow EXCEPT !.state = state]
         IN  /\ r \in Rows /\ r.state = state /\ r.cap = 0 /\ r.capRev = 0
             /\ r.upload = 0 /\ r.snap = 0 /\ r.upRev = 0 /\ r.upBody = 0
  BY NoRowIs DEF Rows

\* ensure_archive_rearchive_target
LEMMA RearchiveRowIs ==
  ASSUME row \in Rows
  PROVE  /\ RearchiveRow \in Rows /\ RearchiveRow.state = "rearchive-pending"
         /\ \/ /\ row.state \notin Parked
               /\ RearchiveRow.cap = 0 /\ RearchiveRow.upload = 0 /\ RearchiveRow.snap = 0
               /\ \/ RearchiveRow.upBody = 0
                  \/ RearchiveRow.upBody = row.upBody /\ RearchiveRow.upRev = row.upRev
               /\ row.state = "absent" => RearchiveRow.upRev = 0
               /\ row.state # "absent" => RearchiveRow.upRev = row.upRev
            \/ /\ row.state \in Parked
               /\ RearchiveRow.cap = row.cap /\ RearchiveRow.capRev = row.capRev
               /\ RearchiveRow.upload = row.upload /\ RearchiveRow.snap = row.snap
               /\ RearchiveRow.upRev = row.upRev /\ RearchiveRow.upBody = row.upBody
<1> DEFINE Begun(r) == [r EXCEPT !.state = "rearchive-pending", !.attempts = 0, !.due = TRUE]
<1>1. ASSUME NEW r \in Rows
      PROVE  /\ Begun(r) \in Rows /\ Begun(r).state = "rearchive-pending"
             /\ Begun(r).cap = r.cap /\ Begun(r).capRev = r.capRev
             /\ Begun(r).upload = r.upload /\ Begun(r).snap = r.snap
             /\ Begun(r).upRev = r.upRev /\ Begun(r).upBody = r.upBody
  <2>1. Begun(r) \in Rows
    BY DEF Rows, States, Parked
  <2> QED
    BY <2>1 DEF Rows
<1>2. RearchiveRow = IF row.state = "absent"
                     THEN [NoRow EXCEPT !.state = "rearchive-pending"]
                     ELSE Begun(IF row.state \in Parked THEN row
                                ELSE Forgotten("rearchive-pending"))
  BY DEF RearchiveRow
<1> HIDE DEF Begun
<1>3. "rearchive-pending" \in States
  BY DEF States, Parked
<1>4. CASE row.state = "absent"
  <2>1. RearchiveRow = [NoRow EXCEPT !.state = "rearchive-pending"] /\ row.state \notin Parked
    BY <1>2, <1>4 DEF Parked
  <2> QED
    BY <1>3, <1>4, <2>1, CreatedRow
<1>5. CASE row.state \in Parked
  <2>1. RearchiveRow = Begun(row)
    BY <1>2, <1>5 DEF Parked
  <2> QED
    BY <1>1, <1>5, <2>1
<1>6. CASE row.state \notin Parked \cup {"absent"}
  <2>1. RearchiveRow = Begun(Forgotten("rearchive-pending"))
    BY <1>2, <1>6
  <2> QED
    BY <1>1, <1>3, <1>6, <2>1, ForgottenRow
<1> QED
  BY <1>4, <1>5, <1>6

-----------------------------------------------------------------------------
(* Counting the captures of a content.                                      *)

Identities == cleared + (IF row.cap = 0 THEN 0 ELSE 1)

\* Where no upload begins, no capture is counted that was not counted before.
LEMMA CountsKept ==
  ASSUME Types, Types', CapturesCounted, Keeps, UploadIds' = UploadIds, doc' = doc,
         Current' \subseteq Current, cleared <= cleared', Identities <= Identities'
  PROVE  CapturesCounted'
<1>1. \A u \in UploadIds : server'.uploads[u].capture = server.uploads[u].capture
                           /\ server'.uploads[u].content = server.uploads[u].content
  BY DEF Keeps
<1>2. Newest' = Newest /\ Captures' = Captures
  BY <1>1 DEF Newest, Captures
<1>3. \A u \in UploadIds :
        CapturesOf(server.uploads[u].content)' = CapturesOf(server.uploads[u].content)
  BY <1>1 DEF CapturesOf
<1>4. /\ cleared \in Nat /\ cleared' \in Nat
      /\ Identities \in Nat /\ Identities' \in Nat
  <2>1. cleared \in Nat /\ cleared' \in Nat
    BY DEF Types
  <2>2. \A n \in Nat : \A c : n + (IF c = 0 THEN 0 ELSE 1) \in Nat
    OBVIOUS
  <2> QED
    BY <2>1, <2>2 DEF Identities
<1>5. Cardinality((Newest \cup Current)') <= Identities'
  <2>1. Cardinality(Newest \cup Current) <= Identities
    BY DEF CapturesCounted, Identities
  <2>2. Cardinality(Newest \cup Current) <= Identities'
    <3>1. Cardinality(Newest \cup Current) \in Nat
      BY NewestFinite, FS_CardinalityType
    <3> QED
      BY <1>4, <2>1, <3>1
  <2>3. (Newest \cup Current)' \subseteq Newest \cup Current
    BY <1>2
  <2> QED
    BY <1>4, <2>2, <2>3, NewestFinite, Fewer
<1>6. ASSUME NEW u \in UploadIds
      PROVE  Cardinality(CapturesOf(server.uploads[u].content)') <= 1 + cleared'
  <2>1. Cardinality(CapturesOf(server.uploads[u].content)) <= 1 + cleared
    BY DEF CapturesCounted
  <2>2. Cardinality(CapturesOf(server.uploads[u].content)) \in Nat
    BY NewestFinite, FS_CardinalityType
  <2>3. Cardinality(CapturesOf(server.uploads[u].content)')
          = Cardinality(CapturesOf(server.uploads[u].content))
    BY <1>3
  <2> QED
    BY <1>4, <2>1, <2>2, <2>3
<1> QED
  BY <1>1, <1>2, <1>5, <1>6 DEF CapturesCounted, Identities

\* A step that changes neither the server nor the document.
LEMMA ServerStands ==
  ASSUME UInv, server' = server, doc' = doc,
         row' \in Rows, row'.upload \in {0} \cup UploadIds, row'.snap \in {0} \cup SnapIds,
         job' \in Jobs, job'.upload \in {0} \cup UploadIds,
         job'.saved \in {0} \cup SnapIds, job'.snap \in {0} \cup SnapIds,
         check' \in {0} \cup SnapIds, check' # 0 => ~server.snaps[check'].live,
         cleared' \in Nat, cleared <= cleared', Identities <= Identities',
         Current' \subseteq Current, RowSound', JobSound'
  PROVE  UInv'
<1>1. UploadIds' = UploadIds /\ SnapIds' = SnapIds
  BY DEF UploadIds, SnapIds
<1>2. Types'
  BY <1>1 DEF UInv, Types
<1>3. ServerSound'
  BY <1>1 DEF UInv, ServerSound, Past
<1>4. Keeps
  BY <1>1 DEF UInv, Types, Keeps
<1>5. CapturesCounted'
  BY <1>1, <1>2, <1>4, CountsKept DEF UInv
<1>6. CheckSound'
  BY DEF CheckSound
<1> QED
  BY <1>2, <1>3, <1>5, <1>6 DEF UInv

\* What the type invariant says of the row and of the job.
LEMMA RowAndJob ==
  ASSUME UInv
  PROVE  /\ row \in Rows /\ row.upload \in {0} \cup UploadIds
         /\ row.snap \in {0} \cup SnapIds
         /\ job \in Jobs /\ job.upload \in {0} \cup UploadIds
         /\ job.saved \in {0} \cup SnapIds /\ job.snap \in {0} \cup SnapIds
         /\ check \in {0} \cup SnapIds /\ (check # 0 => ~server.snaps[check].live)
         /\ cleared \in Nat /\ Identities \in Nat
         /\ doc.rev \in Nat \ {0} /\ doc.body \in Nat \ {0}
  BY DEF UInv, Types, CheckSound, Identities, Rows

\* The job moves on, and the row stays what it was.
LEMMA JobMoves ==
  ASSUME UInv, server' = server, doc' = doc, row' = row, check' = check,
         cleared' = cleared, job' \in Jobs, job'.upload \in {0} \cup UploadIds,
         job'.saved \in {0} \cup SnapIds, job'.snap \in {0} \cup SnapIds,
         job'.cap \in {0, job.cap}, JobSound'
  PROVE  UInv'
<1>1. Current' \subseteq Current
  BY DEF Current
<1>2. Identities' = Identities
  BY DEF Identities
<1>3. RowSound'
  BY DEF UInv, RowSound, UploadIds
<1> QED
  BY <1>1, <1>2, <1>3, RowAndJob, ServerStands

\* A job at another place.
LEMMA Moved ==
  ASSUME job \in Jobs, NEW pc \in PCs, Goes(pc)
  PROVE  /\ job' \in Jobs /\ job'.pc = pc /\ job'.saved = job.saved /\ job'.cap = job.cap
         /\ job'.upload = job.upload /\ job'.content = job.content /\ job'.snap = job.snap
  BY DEF Jobs, Goes

\* No job.
LEMMA IdleIs ==
  /\ Idle \in Jobs /\ Idle.pc = "idle" /\ Idle.saved = 0 /\ Idle.cap = 0
  /\ Idle.upload = 0 /\ Idle.snap = 0
  BY DEF Jobs, PCs, Contents, Idle, Nothing

-----------------------------------------------------------------------------
(* Every step keeps the invariant: those that leave the server alone.       *)

\* The sweep and the backfill take the lock.
LEMMA TakingKeeps ==
  ASSUME UInv, SweepUploads \/ BackfillUploads
  PROVE  UInv'
<1>1. job = Idle /\ Goes("ensure") /\ UNCHANGED <<doc, row, server, check, cleared>>
  BY DEF SweepUploads, BackfillUploads
<1>2. "ensure" \in PCs
  BY DEF PCs
<1>3. /\ job' \in Jobs /\ job'.pc = "ensure" /\ job'.saved = 0 /\ job'.cap = 0
      /\ job'.upload = 0 /\ job'.snap = 0
  BY <1>1, <1>2, IdleIs, Moved
<1>4. JobSound'
  BY <1>3 DEF JobSound, InFlight
<1> QED
  BY <1>1, <1>3, <1>4, JobMoves

\* retry, of `tick` and of the operator.
LEMMA RetryKeeps ==
  ASSUME UInv, NEW force \in BOOLEAN, RetryUploads(force)
  PROVE  UInv'
<1>1. /\ job = Idle /\ Goes("ensure") /\ UNCHANGED <<doc, server, check, cleared>>
      /\ row' = ResetRow(force) /\ row.state \in {"pending", "failed", "uploaded", "dead-letter"}
  BY DEF RetryUploads
<1>2. "ensure" \in PCs
  BY DEF PCs
<1>3. /\ job' \in Jobs /\ job'.pc = "ensure" /\ job'.saved = 0 /\ job'.cap = 0
      /\ job'.upload = 0 /\ job'.snap = 0
  BY <1>1, <1>2, IdleIs, Moved
<1>4. /\ row' \in Rows /\ row'.state = "pending" /\ row'.cap = row.cap
      /\ row'.capRev = row.capRev /\ row'.upload = row.upload /\ row'.snap = row.snap
      /\ row'.upRev = row.upRev /\ row'.upBody = row.upBody
  BY <1>1, RowAndJob, ResetRowIs
<1>5. JobSound'
  BY <1>3, <1>4 DEF JobSound, InFlight
<1>6. RowSound'
  BY <1>1, <1>4 DEF UInv, RowSound, UploadIds, Parked
<1>7. Current' \subseteq Current /\ Identities' = Identities
  BY <1>1, <1>3, <1>4 DEF Current, Identities
<1> QED
  BY <1>1, <1>3, <1>4, <1>5, <1>6, <1>7, RowAndJob, ServerStands

\* A request that never arrived.
LEMMA RequestFailsKeeps ==
  ASSUME UInv, RequestFails
  PROVE  UInv'
<1>1. /\ job.pc \in InFlight /\ Goes("fail") /\ UNCHANGED <<doc, row, server, check, cleared>>
  BY DEF RequestFails, InFlight
<1>2. "fail" \in PCs
  BY DEF PCs
<1>3. /\ job' \in Jobs /\ job'.pc = "fail" /\ job'.saved = job.saved /\ job'.cap = job.cap
      /\ job'.upload = job.upload /\ job'.snap = job.snap
  BY <1>1, <1>2, RowAndJob, Moved
<1>4. JobSound'
  BY <1>1, <1>3 DEF UInv, JobSound, InFlight
<1> QED
  BY <1>1, <1>3, <1>4, RowAndJob, JobMoves

\* The status of the upload to resume.
LEMMA UploadStatusKeeps ==
  ASSUME UInv, UploadStatus
  PROVE  UInv'
<1>1. job.pc = "status" /\ UNCHANGED <<doc, row, server, check, cleared>>
  BY DEF UploadStatus
<1>2. PICK pc \in {"complete", "create", "chunks"} : Goes(pc)
  <2>1. server.uploads[job.upload].status \in {"open", "completed", "gone"}
    BY <1>1, RowAndJob, Entries DEF UInv, JobSound, Uploads
  <2> QED
    BY <2>1 DEF UploadStatus
<1>3. pc \in PCs
  BY <1>2 DEF PCs, InFlight
<1>4. /\ job' \in Jobs /\ job'.pc = pc /\ job'.saved = job.saved /\ job'.cap = job.cap
      /\ job'.upload = job.upload /\ job'.snap = job.snap /\ job'.content = job.content
  BY <1>2, <1>3, RowAndJob, Moved
<1>5. JobSound'
  BY <1>1, <1>4 DEF UInv, JobSound, InFlight
<1> QED
  BY <1>1, <1>4, <1>5, RowAndJob, JobMoves

\* The holder of the lock dies.
LEMMA JobDiesKeeps ==
  ASSUME UInv, JobDies
  PROVE  UInv'
<1>1. job' = Idle /\ UNCHANGED <<doc, row, server, check, cleared>>
  BY DEF JobDies
<1>2. JobSound'
  BY <1>1, IdleIs DEF JobSound, InFlight
<1> QED
  BY <1>1, <1>2, IdleIs, JobMoves

\* A backoff elapses.
LEMMA BackoffKeeps ==
  ASSUME UInv, BackoffElapses
  PROVE  UInv'
<1>1. /\ UNCHANGED <<doc, server, job, check, cleared>> /\ row.state = "failed"
      /\ row' = [row EXCEPT !.due = TRUE]
  BY DEF BackoffElapses
<1>2. row' \in Rows
  BY <1>1, RowAndJob, Zenon DEF Rows
<1>3. /\ row'.state = row.state /\ row'.cap = row.cap
      /\ row'.capRev = row.capRev /\ row'.upload = row.upload /\ row'.snap = row.snap
      /\ row'.upRev = row.upRev /\ row'.upBody = row.upBody
  BY <1>1, RowAndJob DEF Rows
<1> HIDE <1>1
<1>4. UNCHANGED <<doc, server, job, check, cleared>> /\ row.state = "failed"
  BY <1>1
<1>5. JobSound'
  BY <1>3, <1>4 DEF UInv, JobSound
<1>6. RowSound'
  BY <1>3, <1>4 DEF UInv, RowSound, UploadIds, Parked
<1>7. Current' \subseteq Current /\ Identities' = Identities
  BY <1>3, <1>4 DEF Current, Identities
<1> QED
  BY <1>2, <1>3, <1>4, <1>5, <1>6, <1>7, RowAndJob, ServerStands

\* The row forgets its capture and its snapshot.
LEMMA ForgettingKeeps ==
  ASSUME UInv, UNCHANGED <<doc, server, job>>,
         NEW state \in States \ {"absent", "uploaded", "dead-letter"},
         row' = Forgotten(state), cleared' = cleared + 1, row.state # "absent",
         check' \in {0, check},
         job.pc \notin {"idle", "ensure"} /\ job.saved = 0 => state \notin Parked
  PROVE  UInv'
<1>1. /\ row' \in Rows /\ row'.state = state /\ row'.cap = 0
      /\ row'.upload = 0 /\ row'.snap = 0
      /\ row'.upRev = row.upRev /\ row'.upBody = row.upBody
  BY RowAndJob, ForgottenRow
<1>2. JobSound'
  BY <1>1 DEF UInv, JobSound, InFlight
<1>3. RowSound'
  BY <1>1 DEF UInv, RowSound, UploadIds
<1>4. Current' \subseteq Current
  BY <1>1 DEF Current
<1>5. cleared' \in Nat /\ cleared <= cleared' /\ Identities <= Identities'
  <2>1. cleared \in Nat
    BY RowAndJob
  <2> QED
    BY <1>1, <2>1 DEF Identities
<1> QED
  BY <1>1, <1>2, <1>3, <1>4, <1>5, RowAndJob, ServerStands

\* abandon_rearchive and a reconcile.
LEMMA RepairKeeps ==
  ASSUME UInv, AbandonRearchive \/ ReconcileChecks \/ ReconcileRepairs
  PROVE  UInv'
<1>1. CASE AbandonRearchive
  <2>1. "pending" \in States \ {"absent", "uploaded", "dead-letter"}
        /\ "pending" \notin Parked
        /\ "absent" \notin Parked
    BY DEF States, Parked
  <2> QED
    BY <1>1, <2>1, ForgettingKeeps DEF AbandonRearchive
<1>2. CASE ReconcileChecks
  <2>1. /\ UNCHANGED <<doc, row, server, job, cleared>>
        /\ check' = row.snap /\ ~server.snaps[row.snap].live
    BY <1>2 DEF ReconcileChecks
  <2>2. RowSound' /\ JobSound' /\ Current' = Current /\ Identities' = Identities
    BY <2>1 DEF UInv, RowSound, JobSound, Current, Identities, UploadIds
  <2> QED
    BY <2>1, <2>2, RowAndJob, ServerStands
<1>3. CASE ReconcileRepairs
  <2>1. CASE row.snap = check
    <3>1. "pending" \in States \ {"absent", "uploaded", "dead-letter"}
          /\ "pending" \notin Parked
      BY DEF States, Parked
    <3>2. /\ UNCHANGED <<doc, server, job>> /\ row' = Forgotten("pending")
          /\ cleared' = cleared + 1 /\ check' = 0 /\ row.snap # 0
      BY <1>3, <2>1 DEF ReconcileRepairs
    <3>3. row.state # "absent"
      BY <3>2, NoRowIs DEF UInv, RowSound
    <3> QED
      BY <3>1, <3>2, <3>3, ForgettingKeeps
  <2>2. CASE row.snap # check
    <3>1. UNCHANGED <<doc, row, server, job, cleared>> /\ check' = 0
      BY <1>3, <2>2 DEF ReconcileRepairs
    <3>2. RowSound' /\ JobSound' /\ Current' = Current /\ Identities' = Identities
      BY <3>1 DEF UInv, RowSound, JobSound, Current, Identities, UploadIds
    <3> QED
      BY <3>1, <3>2, RowAndJob, ServerStands
  <2> QED
    BY <2>1, <2>2
<1> QED
  BY <1>1, <1>2, <1>3

\* The row is there, or is created, and the attempt goes on or ends.
LEMMA EnsureKeeps ==
  ASSUME UInv, EnsureRow
  PROVE  UInv'
<1>1. /\ job.pc = "ensure" /\ UNCHANGED <<doc, server, check, cleared>>
      /\ row' = IF row.state = "absent" THEN [NoRow EXCEPT !.state = "pending"] ELSE row
      /\ \/ job' = Idle
         \/ /\ ~Skipped(row')
            /\ job' = [job EXCEPT !.pc = "prepare", !.content = Document("current")]
         \/ ~Skipped(row') /\ Goes("fail")
  BY DEF EnsureRow
<1>2. /\ row' \in Rows /\ row'.state # "absent"
      /\ row'.upload \in {0} \cup UploadIds /\ row'.snap \in {0} \cup SnapIds
      /\ row'.cap = row.cap
      /\ row' = row \/ /\ row'.state = "pending" /\ row'.cap = 0 /\ row'.upBody = 0
                       /\ row'.snap = 0
  <2>1. CASE row.state = "absent"
    <3>1. row = NoRow /\ row' = [NoRow EXCEPT !.state = "pending"] /\ "pending" \in States
      BY <1>1, <2>1 DEF UInv, RowSound, States
    <3> QED
      BY <3>1, CreatedRow, NoRowIs
  <2>2. CASE row.state # "absent"
    BY <1>1, <2>2, RowAndJob
  <2> QED
    BY <2>1, <2>2
<1>3. RowSound'
  <2>1. CASE row' = row
    BY <1>1, <2>1 DEF UInv, RowSound, UploadIds
  <2>2. CASE row' # row
    <3>1. "pending" \notin Parked /\ doc.body # 0 /\ doc.body \in Nat
      BY RowAndJob DEF Parked
    <3> QED
      BY <1>1, <1>2, <2>2, <3>1 DEF RowSound
  <2> QED
    BY <2>1, <2>2
<1>4. /\ job' \in Jobs /\ job'.upload \in {0} \cup UploadIds /\ job'.cap \in {0, job.cap}
      /\ job'.saved \in {0} \cup SnapIds /\ job'.snap \in {0} \cup SnapIds
      /\ JobSound'
  <2>1. CASE job' = Idle
    BY <1>1, <2>1, IdleIs DEF JobSound, InFlight
  <2>2. CASE /\ ~Skipped(row')
             /\ job' = [job EXCEPT !.pc = "prepare", !.content = Document("current")]
    <3>1. Document("current") \in Contents /\ "prepare" \in PCs
          /\ Document("current").body = doc.body /\ Document("current").rev = doc.rev
      BY RowAndJob DEF Contents, PCs, Document
    <3>2. /\ job' \in Jobs /\ job'.pc = "prepare" /\ job'.saved = job.saved
          /\ job'.cap = job.cap /\ job'.upload = job.upload /\ job'.snap = job.snap
          /\ job'.content.body = doc.body /\ job'.content.rev = doc.rev
      BY <2>2, <3>1, RowAndJob DEF Jobs
    <3>3. /\ row'.state \notin Parked \cup {"dead-letter"}
          /\ row'.state = "uploaded" => row'.upBody # doc.body
      BY <1>1, <1>3, <2>2 DEF Skipped, UpToDate, RowSound
    <3>4. job.cap = 0 /\ (job.saved # 0 => row.snap = 0)
      BY <1>1 DEF UInv, JobSound
    <3>5. JobSound'
      BY <1>1, <1>2, <3>2, <3>3, <3>4 DEF JobSound, InFlight
    <3> QED
      BY <3>2, <3>5, RowAndJob
  <2>3. CASE ~Skipped(row') /\ Goes("fail")
    <3>1. "fail" \in PCs
      BY DEF PCs
    <3>2. /\ job' \in Jobs /\ job'.pc = "fail" /\ job'.saved = job.saved
          /\ job'.cap = job.cap /\ job'.upload = job.upload /\ job'.snap = job.snap
      BY <2>3, <3>1, RowAndJob, Moved
    <3>3. row'.state \notin Parked
      BY <2>3 DEF Skipped
    <3>4. job.cap = 0 /\ (job.saved # 0 => row.snap = 0)
      BY <1>1 DEF UInv, JobSound
    <3>5. JobSound'
      BY <1>1, <1>2, <3>2, <3>3, <3>4 DEF JobSound, InFlight
    <3> QED
      BY <3>2, <3>5, RowAndJob
  <2> QED
    BY <1>1, <2>1, <2>2, <2>3
<1>5. Current' \subseteq Current /\ Identities' = Identities
  BY <1>1, <1>2, <1>4 DEF Current, Identities
<1> QED
  BY <1>1, <1>2, <1>3, <1>4, <1>5, RowAndJob, ServerStands

\* The outcome of an upload is recorded.
LEMMA SuccessSound ==
  ASSUME UInv, job.pc = "record", row' = SuccessRow, UNCHANGED <<doc, server>>
  PROVE  RowSound' /\ row' \in Rows /\ row'.cap = row.cap /\ row'.upload = row.upload
         /\ row'.snap = job.snap /\ job.snap # 0 /\ row'.state = "uploaded"
         /\ server.snaps[job.snap].content.rev = doc.rev /\ row'.upRev = doc.rev
<1>1. /\ row' \in Rows /\ row'.state = "uploaded" /\ row'.cap = row.cap
      /\ row'.capRev = row.capRev /\ row'.upload = row.upload /\ row'.snap = job.snap
      /\ row'.upRev = doc.rev /\ row'.upBody = doc.body
  BY SuccessRowIs DEF UInv
<1>2. job.snap # 0 /\ server.snaps[job.snap].content.rev = doc.rev
  BY DEF UInv, JobSound
<1>3. doc.body \in Nat /\ "uploaded" \notin Parked
  BY RowAndJob DEF Parked
<1>4. RowSound'
  BY <1>1, <1>2, <1>3 DEF UInv, RowSound, UploadIds
<1> QED
  BY <1>1, <1>2, <1>4

\* record_archive_upload_success and _failure.
LEMMA RecordKeeps ==
  ASSUME UInv, RecordUpload
  PROVE  UInv'
<1>1. job' = Idle /\ job.saved = 0 /\ UNCHANGED <<doc, server, check, cleared>>
  BY DEF RecordUpload
<1>2. JobSound' /\ Current' \subseteq {row'.cap} \ {0}
  BY <1>1, IdleIs DEF JobSound, InFlight, Current
<1>3. CASE job.pc = "record" /\ row' = SuccessRow
  <2>1. /\ RowSound' /\ row' \in Rows /\ row'.cap = row.cap /\ row'.upload = row.upload
        /\ row'.snap = job.snap
    BY <1>1, <1>3, SuccessSound
  <2>2. Current' \subseteq Current /\ Identities' = Identities
    BY <1>1, <1>2, <2>1 DEF Current, Identities
  <2> QED
    BY <1>1, <1>2, <2>1, <2>2, RowAndJob, IdleIs, ServerStands
<1>4. CASE job.pc = "fail" /\ row' = FailureRow
  <2>1. /\ row' \in Rows /\ row'.state \in {"dead-letter", "failed"} /\ row'.cap = row.cap
        /\ row'.capRev = row.capRev /\ row'.upload = row.upload /\ row'.snap = row.snap
        /\ row'.upRev = row.upRev /\ row'.upBody = row.upBody
    BY <1>4, RowAndJob, FailureRowIs
  <2>2. row'.state \notin Parked \cup {"absent", "uploaded"}
    BY <2>1 DEF Parked
  <2>3. RowSound'
    BY <1>1, <2>1, <2>2 DEF UInv, RowSound, UploadIds
  <2>4. Current' \subseteq Current /\ Identities' = Identities
    BY <1>1, <1>2, <2>1 DEF Current, Identities
  <2> QED
    BY <1>1, <1>2, <2>1, <2>3, <2>4, RowAndJob, IdleIs, ServerStands
<1> QED
  BY <1>3, <1>4 DEF RecordUpload

\* The outcome of a rearchive is recorded.
LEMMA RecordRearchiveKeeps ==
  ASSUME UInv, RecordRearchive
  PROVE  UInv'
<1>1. job' = Idle /\ job.saved # 0 /\ UNCHANGED <<doc, server, check>>
  BY DEF RecordRearchive
<1>2. JobSound' /\ Current' \subseteq {row'.cap} \ {0}
  BY <1>1, IdleIs DEF JobSound, InFlight, Current
<1>3. row.snap = 0
  BY <1>1 DEF UInv, JobSound
<1>4. CASE job.pc = "record" /\ row' = SuccessRow /\ UNCHANGED cleared
  <2>1. /\ RowSound' /\ row' \in Rows /\ row'.cap = row.cap /\ row'.upload = row.upload
        /\ row'.snap = job.snap
    BY <1>1, <1>4, SuccessSound
  <2>2. Current' \subseteq Current /\ Identities' = Identities
    BY <1>2, <1>4, <2>1 DEF Current, Identities
  <2> QED
    BY <1>1, <1>2, <1>4, <2>1, <2>2, RowAndJob, IdleIs, ServerStands
<1>5. CASE /\ cleared' = cleared + 1
           /\ row' = [Forgotten("rearchive-failed") EXCEPT !.attempts = row.attempts + 1]
  <2>1. "rearchive-failed" \in States /\ row.attempts + 1 \in Nat
        /\ "rearchive-failed" \notin {"absent", "uploaded"}
    BY RowAndJob DEF States, Parked, Rows
  <2> DEFINE f == Forgotten("rearchive-failed")
             tries == row.attempts + 1
  <2>2. /\ f \in Rows /\ f.state = "rearchive-failed" /\ f.cap = 0
        /\ f.upload = 0 /\ f.snap = 0 /\ f.upRev = row.upRev /\ f.upBody = row.upBody
    BY <2>1, RowAndJob, ForgottenRow
  <2>3. row' = [f EXCEPT !.attempts = tries] /\ tries \in Nat
    BY <1>5, <2>1
  <2> HIDE DEF f, tries
  <2>4. row' \in Rows
    BY <2>2, <2>3 DEF Rows
  <2>5. /\ row'.state = "rearchive-failed" /\ row'.cap = 0
        /\ row'.upload = 0 /\ row'.snap = 0 /\ row'.upRev = row.upRev
        /\ row'.upBody = row.upBody
    BY <2>2, <2>3 DEF Rows
  <2>6. RowSound'
    BY <1>1, <2>5 DEF UInv, RowSound
  <2>7. Current' \subseteq Current /\ cleared' \in Nat /\ cleared <= cleared'
        /\ Identities <= Identities'
    <3>1. cleared \in Nat
      BY RowAndJob
    <3> QED
      BY <1>2, <1>5, <2>5, <3>1 DEF Identities
  <2> QED
    BY <1>1, <1>2, <2>4, <2>5, <2>6, <2>7, RowAndJob, IdleIs, ServerStands
<1>6. CASE /\ job.pc = "fail" /\ UNCHANGED cleared
           /\ row' = [row EXCEPT !.state = "rearchive-failed", !.attempts = @ + 1]
  <2>1. /\ row' \in Rows /\ row'.state = "rearchive-failed" /\ row'.cap = row.cap
        /\ row'.capRev = row.capRev /\ row'.upload = row.upload /\ row'.snap = row.snap
        /\ row'.upRev = row.upRev /\ row'.upBody = row.upBody
    BY <1>6, RowAndJob, RearchiveFailedRow
  <2>2. RowSound'
    BY <1>1, <1>3, <2>1 DEF UInv, RowSound, UploadIds
  <2>3. Current' \subseteq Current /\ Identities' = Identities
    BY <1>2, <1>6, <2>1 DEF Current, Identities
  <2> QED
    BY <1>1, <1>2, <1>6, <2>1, <2>2, <2>3, RowAndJob, IdleIs, ServerStands
<1> QED
  BY <1>4, <1>5, <1>6 DEF RecordRearchive

\* A rearchive begins.
LEMMA RearchiveKeeps ==
  ASSUME UInv, NEW k \in SnapIds, Rearchive(k)
  PROVE  UInv'
<1>1. /\ job = Idle /\ server.snaps[k].content.body = doc.body
      /\ UNCHANGED <<doc, server, check>>
      /\ job' = [Idle EXCEPT !.pc = "prepare", !.saved = k,
                             !.content = server.snaps[k].content]
      /\ \/ row' = Forgotten("rearchive-pending") /\ row.snap = k
         \/ row.snap = 0 /\ row' = RearchiveRow
      /\ cleared' = cleared + (IF row'.cap # row.cap THEN 1 ELSE 0)
  BY DEF Rearchive
<1>2. "rearchive-pending" \in Parked /\ "rearchive-pending" \in States
      /\ "absent" \notin Parked /\ "uploaded" \notin Parked
  BY DEF States, Parked
<1>3. server.snaps[k].content \in Contents /\ server.snaps[k].content.rev = doc.rev
      /\ k \in Nat \ {0}
  BY <1>1, Entries DEF UInv, Snaps, ServerSound, Past
<1>4. /\ job' \in Jobs /\ job'.pc = "prepare" /\ job'.saved = k /\ job'.cap = 0
      /\ job'.upload = 0 /\ job'.snap = 0
      /\ job'.content.body = doc.body /\ job'.content.rev = doc.rev
  <2>1. job'.content = server.snaps[k].content /\ job'.pc = "prepare" /\ job'.saved = k
        /\ job'.cap = 0 /\ job'.upload = 0 /\ job'.snap = 0 /\ job' \in Jobs
    BY <1>1, <1>3, IdleIs DEF Jobs, PCs
  <2> QED
    BY <1>1, <1>3, <2>1
<1>5. /\ row' \in Rows /\ row'.state = "rearchive-pending" /\ row'.snap = 0
      /\ row'.upload \in {0} \cup UploadIds
      /\ \/ row'.cap = 0
         \/ /\ row'.cap = row.cap /\ row'.capRev = row.capRev /\ row'.upload = row.upload
      /\ \/ row'.upBody = 0
         \/ row'.upBody = row.upBody /\ row'.upRev = row.upRev
  <2>1. CASE row' = Forgotten("rearchive-pending")
    BY <1>2, <2>1, RowAndJob, ForgottenRow
  <2>2. CASE row.snap = 0 /\ row' = RearchiveRow
    BY <2>2, RowAndJob, RearchiveRowIs
  <2> QED
    BY <1>1, <2>1, <2>2
<1>6. JobSound'
  BY <1>1, <1>2, <1>3, <1>4, <1>5 DEF JobSound, InFlight
<1>7. RowSound'
  BY <1>1, <1>2, <1>5, RowAndJob DEF UInv, RowSound, UploadIds
<1>8. Current' \subseteq Current
  BY <1>4, <1>5 DEF Current
<1>9. cleared' \in Nat /\ cleared <= cleared' /\ Identities <= Identities'
  <2>1. cleared \in Nat
    BY RowAndJob
  <2> QED
    BY <1>1, <1>5, <2>1 DEF Identities
<1> QED
  BY <1>1, <1>4, <1>5, <1>6, <1>7, <1>8, <1>9, RowAndJob, ServerStands

-----------------------------------------------------------------------------
(* Every step keeps the invariant: those of the server.                     *)

\* The server moves and no upload begins.
LEMMA ServerMoves ==
  ASSUME UInv, Keeps, ServerSound', UploadIds' = UploadIds, doc' = doc, row' = row,
         check' = check, cleared' = cleared,
         job' \in Jobs, job'.upload \in {0} \cup UploadIds, job'.cap = job.cap,
         job'.saved \in {0} \cup SnapIds, job'.snap \in {0} \cup SnapIds', JobSound'
  PROVE  UInv'
<1>1. Types'
  BY DEF UInv, Types, Keeps
<1>2. RowSound'
  <2>1. \A u \in UploadIds : server'.uploads[u].capture = server.uploads[u].capture
                             /\ server'.uploads[u].content = server.uploads[u].content
    BY DEF Keeps
  <2>2. row.snap # 0 => server'.snaps[row.snap].content = server.snaps[row.snap].content
    BY RowAndJob DEF Keeps
  <2>3. row.upload # 0 =>
          server'.uploads[row.upload].content = server.uploads[row.upload].content
    BY <2>1, RowAndJob
  <2> QED
    BY <2>1, <2>2, <2>3 DEF UInv, RowSound
<1>3. Current' = Current /\ Identities' = Identities
  BY DEF Current, Identities
<1>4. cleared <= cleared' /\ Identities <= Identities'
  BY <1>3, RowAndJob
<1>5. CapturesCounted'
  BY <1>1, <1>3, <1>4, CountsKept DEF UInv
<1>6. CheckSound'
  BY RowAndJob DEF UInv, CheckSound, Keeps
<1> QED
  BY <1>1, <1>2, <1>5, <1>6 DEF UInv

\* What a job knows of the server stays true.
LEMMA JobStands ==
  ASSUME UInv, Keeps, doc' = doc, row' = row, job' = job
  PROVE  JobSound'
<1>1. /\ job.upload # 0 =>
           server'.uploads[job.upload].content = server.uploads[job.upload].content
      /\ job.snap # 0 => server'.snaps[job.snap].content = server.snaps[job.snap].content
  BY RowAndJob DEF Keeps
<1> QED
  BY <1>1 DEF UInv, JobSound

\* A snapshot is tombstoned.
LEMMA TombstoneKeeps ==
  ASSUME UInv, NEW k \in SnapIds, Tombstone(k)
  PROVE  UInv'
<1>1. Keeps /\ ServerSound' /\ UploadIds' = UploadIds /\ SnapIds' = SnapIds
  BY TombstonedKeeps DEF UInv
<1>2. UNCHANGED <<doc, row, job, check, cleared>>
  BY DEF Tombstone
<1> QED
  BY <1>1, <1>2, RowAndJob, JobStands, ServerMoves

\* An upload expires.
LEMMA ExpiryKeeps ==
  ASSUME UInv, NEW u \in UploadIds, UploadExpires(u)
  PROVE  UInv'
<1>1. UNCHANGED <<doc, row, job, check, cleared>>
  BY DEF UploadExpires
<1>2. Keeps /\ ServerSound' /\ UploadIds' = UploadIds /\ SnapIds' = SnapIds
  BY <1>1, TouchedKeeps DEF UInv, UploadExpires
<1> QED
  BY <1>1, <1>2, RowAndJob, JobStands, ServerMoves

\* The chunks of an upload.
LEMMA ChunksKeeps ==
  ASSUME UInv, UploadChunks
  PROVE  UInv'
<1>1. /\ job.pc = "chunks" /\ UNCHANGED <<doc, row, check, cleared>>
      /\ Goes("complete") \/ Goes("fail")
      /\ \/ server' = server
         \/ /\ server.uploads[job.upload].status = "open"
            /\ server' = [server EXCEPT !.uploads[job.upload].full = TRUE]
  BY Zenon DEF UploadChunks
<1>2. job.upload \in UploadIds
  BY <1>1, RowAndJob DEF UInv, JobSound
<1>3. Keeps /\ ServerSound' /\ UploadIds' = UploadIds /\ SnapIds' = SnapIds
  <2>1. CASE server' = server
    BY <1>1, <2>1 DEF UInv, Keeps, ServerSound, UploadIds, SnapIds, Past, Types
  <2>2. CASE /\ server.uploads[job.upload].status = "open"
             /\ server' = [server EXCEPT !.uploads[job.upload].full = TRUE]
    BY <1>1, <1>2, <2>2, TouchedKeeps DEF UInv
  <2> QED
    BY <1>1, <2>1, <2>2
<1>4. PICK pc \in {"complete", "fail"} : Goes(pc)
  BY <1>1
<1> HIDE <1>1
<1>5. job.pc = "chunks" /\ UNCHANGED <<doc, row, check, cleared>>
  BY <1>1
<1>6. pc \in PCs
  BY DEF PCs, InFlight
<1>7. /\ job' \in Jobs /\ job'.pc = pc /\ job'.saved = job.saved /\ job'.cap = job.cap
      /\ job'.upload = job.upload /\ job'.snap = job.snap /\ job'.content = job.content
  BY <1>4, <1>6, RowAndJob, Moved
<1>8. JobSound'
  <2>1. server'.uploads[job.upload].content = server.uploads[job.upload].content
    BY <1>2, <1>3 DEF Keeps
  <2> QED
    BY <1>5, <1>7, <2>1 DEF UInv, JobSound, InFlight
<1> QED
  BY <1>3, <1>5, <1>7, <1>8, RowAndJob, ServerMoves

\* The completion of an upload.
LEMMA CompleteKeeps ==
  ASSUME UInv, CompleteUpload
  PROVE  UInv'
<1>1. /\ job.pc = "complete" /\ UNCHANGED <<doc, row, check, cleared>>
      /\ \/ /\ server.uploads[job.upload].status # "gone" /\ server' = Completed(job.upload)
            /\ \/ job' = [job EXCEPT !.pc = "record",
                                     !.snap = server'.uploads[job.upload].snap]
               \/ Goes("fail")
         \/ Goes("fail") /\ server' = server
  BY Zenon DEF CompleteUpload
<1>2. job.upload \in UploadIds /\ server.uploads[job.upload].content.rev = doc.rev
  BY <1>1, RowAndJob DEF UInv, JobSound
<1>3. CASE server.uploads[job.upload].status # "gone" /\ server' = Completed(job.upload)
  <2>1. /\ Keeps /\ ServerSound' /\ UploadIds' = UploadIds
        /\ server'.uploads[job.upload].snap \in SnapIds' \ {0}
        /\ server'.snaps[server'.uploads[job.upload].snap].content
             = server.uploads[job.upload].content
    BY <1>1, <1>2, <1>3, CompletedKeeps DEF UInv
  <2>2. CASE Goes("fail")
    <3>1. "fail" \in PCs
      BY DEF PCs
    <3>2. /\ job' \in Jobs /\ job'.pc = "fail" /\ job'.saved = job.saved
          /\ job'.cap = job.cap /\ job'.upload = job.upload /\ job'.snap = job.snap
      BY <2>2, <3>1, RowAndJob, Moved
    <3>3. JobSound'
      BY <1>1, <3>2 DEF UInv, JobSound, InFlight
    <3>4. job'.snap \in {0} \cup SnapIds'
      BY <2>1, <3>2, RowAndJob DEF Keeps
    <3> QED
      BY <1>1, <2>1, <3>2, <3>3, <3>4, RowAndJob, ServerMoves
  <2>3. CASE job' = [job EXCEPT !.pc = "record", !.snap = server'.uploads[job.upload].snap]
    <3> DEFINE snap == server'.uploads[job.upload].snap
    <3>1. snap \in Nat /\ "record" \in PCs
      <4>1. SnapIds' = 1 .. Len(server'.snaps) /\ Len(server'.snaps) \in Nat
        BY <2>1 DEF Keeps, SnapIds
      <4> QED
        BY <2>1, <4>1 DEF PCs, InFlight
    <3>2. /\ job' \in Jobs /\ job'.pc = "record" /\ job'.saved = job.saved
          /\ job'.cap = job.cap /\ job'.upload = job.upload /\ job'.snap = snap
          /\ job'.content = job.content
      BY <2>3, <3>1, RowAndJob DEF Jobs
    <3>3. JobSound'
      BY <1>1, <1>2, <2>1, <3>2 DEF UInv, JobSound, InFlight
    <3> QED
      BY <1>1, <2>1, <3>2, <3>3, RowAndJob, ServerMoves
  <2> QED
    BY <1>1, <1>3, <2>2, <2>3
<1>4. CASE Goes("fail") /\ server' = server
  <2>1. "fail" \in PCs
    BY DEF PCs
  <2>2. /\ job' \in Jobs /\ job'.pc = "fail" /\ job'.saved = job.saved
        /\ job'.cap = job.cap /\ job'.upload = job.upload /\ job'.snap = job.snap
    BY <1>4, <2>1, RowAndJob, Moved
  <2>3. JobSound'
    BY <1>1, <2>2 DEF UInv, JobSound, InFlight
  <2> QED
    BY <1>1, <1>4, <2>2, <2>3, RowAndJob, JobMoves
<1> QED
  BY <1>1, <1>3, <1>4

\* The upload id is kept, or not.
LEMMA PersistKeeps ==
  ASSUME UInv, PersistUploadId
  PROVE  UInv'
<1>1. /\ job.pc = "persist" /\ Goes("chunks") /\ UNCHANGED <<doc, server, check, cleared>>
      /\ row' = row \/ row' = [row EXCEPT !.upload = job.upload]
  BY DEF PersistUploadId
<1>2. "chunks" \in PCs
  BY DEF PCs, InFlight
<1>3. /\ job' \in Jobs /\ job'.pc = "chunks" /\ job'.saved = job.saved
      /\ job'.cap = job.cap /\ job'.upload = job.upload /\ job'.snap = job.snap
      /\ job'.content = job.content
  BY <1>1, <1>2, RowAndJob, Moved
<1>4. CASE row' = row
  <2>1. JobSound'
    BY <1>1, <1>3, <1>4 DEF UInv, JobSound, InFlight
  <2> QED
    BY <1>1, <1>3, <1>4, <2>1, RowAndJob, JobMoves
<1>5. CASE row' = [row EXCEPT !.upload = job.upload]
  <2>1. /\ row' \in Rows /\ row'.state = row.state /\ row'.cap = row.cap
        /\ row'.capRev = row.capRev /\ row'.upload = job.upload /\ row'.snap = row.snap
        /\ row'.upRev = row.upRev /\ row'.upBody = row.upBody
    BY <1>5, RowAndJob DEF Rows, Jobs
  <2>2. JobSound'
    BY <1>1, <1>3, <2>1 DEF UInv, JobSound, InFlight
  <2>3. RowSound'
    BY <1>1, <2>1 DEF UInv, RowSound, JobSound, UploadIds, InFlight
  <2>4. Current' \subseteq Current /\ Identities' = Identities
    BY <1>1, <1>3, <2>1 DEF Current, Identities
  <2> QED
    BY <1>1, <1>3, <2>1, <2>2, <2>3, <2>4, RowAndJob, ServerStands
<1> QED
  BY <1>1, <1>4, <1>5

\* A capture is resumed, or a fresh one is made.
LEMMA PrepareKeeps ==
  ASSUME UInv, PrepareCapture
  PROVE  UInv'
<1>1. job.pc = "prepare" /\ UNCHANGED <<doc, server, check, cleared>>
  BY DEF PrepareCapture
<1>2. /\ row.state \notin {"absent", "dead-letter"} /\ job.cap = 0
      /\ row.state = "uploaded" => row.upBody # doc.body
      /\ job.content.body = doc.body /\ job.content.rev = doc.rev
      /\ job.saved = 0 => row.state \notin Parked
      /\ job.saved # 0 => row.snap = 0
  BY <1>1 DEF UInv, JobSound
<1> DEFINE pc == IF row'.upload = 0 THEN "create" ELSE "status"
<1>3. job' = [job EXCEPT !.pc = pc, !.cap = row'.cap, !.upload = row'.upload]
  BY DEF PrepareCapture
<1>4. pc \in PCs /\ pc \in InFlight /\ pc \in {"create", "status"}
  BY DEF PCs, InFlight
<1>5. ASSUME row' \in Rows
      PROVE  /\ job' \in Jobs /\ job'.pc = pc /\ job'.saved = job.saved
             /\ job'.cap = row'.cap /\ job'.upload = row'.upload /\ job'.snap = job.snap
             /\ job'.content = job.content
  <2>1. row'.cap \in Nat /\ row'.upload \in Nat
    BY <1>5 DEF Rows
  <2> QED
    BY <1>3, <1>4, <2>1, RowAndJob DEF Jobs
<1>6. CASE Resumes(row)
  <2>1. row' = row /\ row.cap # 0 /\ row.capRev = doc.rev /\ row.state # "uploaded"
    BY <1>6 DEF PrepareCapture, Resumes, Parked
  <2>2. row.upload # 0 => server.uploads[row.upload].content.rev = doc.rev
    BY <2>1 DEF UInv, RowSound
  <2>3. JobSound'
    BY <1>1, <1>2, <1>4, <1>5, <2>1, <2>2, RowAndJob DEF JobSound, InFlight
  <2>4. RowSound' /\ Identities' = Identities
    BY <1>1, <2>1 DEF UInv, RowSound, Identities, UploadIds
  <2>5. Current' \subseteq Current
    BY <1>5, <2>1, RowAndJob DEF Current
  <2> QED
    BY <1>1, <1>5, <2>1, <2>3, <2>4, <2>5, RowAndJob, ServerStands
<1>7. CASE ~Resumes(row)
  <2> DEFINE state == IF row.state \in Parked THEN "rearchive-pending" ELSE "pending"
  <2>1. row' = [row EXCEPT !.cap = FreshCapture, !.capRev = doc.rev, !.upload = 0,
                           !.state = state]
    BY <1>7 DEF PrepareCapture
  <2>2. /\ state \in States \ {"absent", "uploaded", "dead-letter"}
        /\ state \in Parked <=> row.state \in Parked
    BY DEF States, Parked
  <2>3. /\ FreshCapture \in Nat \ {0} /\ FreshCapture # row.cap
        /\ \A u \in UploadIds : server.uploads[u].capture # FreshCapture
    <3>1. FreshCapture \in Nat \ {0} /\ FreshCapture # row.cap
          /\ \A x \in Captures : x < FreshCapture
      BY FreshIsNew DEF UInv
    <3>2. \A u \in UploadIds : server.uploads[u].capture \in Nat
                               /\ server.uploads[u].capture \in Captures
      BY Entries DEF UInv, Captures, Uploads
    <3> QED
      BY <3>1, <3>2
  <2> HIDE DEF state
  <2>4. /\ row' \in Rows /\ row'.state = state /\ row'.cap = FreshCapture
        /\ row'.capRev = doc.rev /\ row'.upload = 0 /\ row'.snap = row.snap
        /\ row'.upRev = row.upRev /\ row'.upBody = row.upBody
    BY <2>1, <2>2, <2>3, RowAndJob DEF Rows
  <2>5. RowSound'
    BY <1>1, <2>2, <2>3, <2>4 DEF UInv, RowSound, UploadIds
  <2>6. JobSound'
    BY <1>1, <1>2, <1>4, <1>5, <2>2, <2>3, <2>4 DEF JobSound, InFlight
  <2>7. UploadIds' = UploadIds /\ SnapIds' = SnapIds
    BY <1>1 DEF UploadIds, SnapIds
  <2>8. Types'
    BY <1>1, <1>5, <2>4, <2>7, RowAndJob DEF UInv, Types
  <2>9. ServerSound' /\ CheckSound'
    BY <1>1, <2>7 DEF UInv, ServerSound, CheckSound, Past
  <2>10. row.cap # 0 => row.cap \notin Newest
    <3>1. SUFFICES ASSUME row.cap # 0, NEW u \in UploadIds,
                          server.uploads[u].content.body = doc.body,
                          server.uploads[u].capture = row.cap
                   PROVE  FALSE
      BY DEF Newest
    <3>2. server.uploads[u].content.rev = doc.rev
      BY <3>1 DEF UInv, ServerSound, Past
    <3>3. /\ server.uploads[u].content.rev = row.capRev
          /\ row.state = "uploaded" /\ row.upBody # doc.body =>
               server.uploads[u].content.body # doc.body
      BY <3>1 DEF UInv, RowSound
    <3>4. row.state \in {"pending", "failed"} \cup Parked
      BY <1>2, <3>1, <3>3, RowAndJob DEF Rows, States
    <3> QED
      BY <1>7, <3>1, <3>2, <3>3, <3>4 DEF Resumes
  <2>11. CapturesCounted'
    <3>1. Newest' = Newest /\ Captures' = Captures
          /\ \A u \in UploadIds : CapturesOf(server.uploads[u].content)'
                                    = CapturesOf(server.uploads[u].content)
      BY <1>1, <2>7 DEF Newest, Captures, CapturesOf
    <3>2. Current' = {FreshCapture}
      BY <1>5, <2>3, <2>4 DEF Current
    <3>3. IsFiniteSet(Newest) /\ Cardinality(Newest) \in Nat /\ cleared \in Nat
      BY NewestFinite, FS_CardinalityType, RowAndJob DEF UInv
    <3>4. Cardinality(Newest) <= cleared
      <4>1. Cardinality(Newest \cup Current) <= cleared + (IF row.cap = 0 THEN 0 ELSE 1)
        BY DEF UInv, CapturesCounted
      <4>2. CASE row.cap = 0
        <5>1. Current = {}
          BY <1>2, <4>2 DEF Current
        <5>2. Newest \cup Current = Newest
          BY <5>1
        <5> QED
          BY <3>3, <4>1, <4>2, <5>2
      <4>3. CASE row.cap # 0
        <5>1. Current = {row.cap}
          BY <1>2, <4>3 DEF Current
        <5>2. Newest \cup Current = Newest \cup {row.cap}
          BY <5>1
        <5>3. Cardinality(Newest \cup {row.cap}) = Cardinality(Newest) + 1
          BY <2>10, <3>3, <4>3, FS_AddElement
        <5>4. Cardinality(Newest \cup Current) = Cardinality(Newest) + 1
          BY <5>2, <5>3, Zenon
        <5> QED
          BY <3>3, <4>1, <4>3, <5>4
      <4> QED
        BY <4>2, <4>3
    <3>5. Cardinality((Newest \cup Current)') <= cleared + 1
      <4>1. (Newest \cup Current)' = Newest \cup {FreshCapture}
        BY <3>1, <3>2
      <4>2. Cardinality(Newest \cup {FreshCapture}) <= Cardinality(Newest) + 1
        BY <3>3, FS_AddElement
      <4>3. Cardinality(Newest \cup {FreshCapture}) \in Nat
        BY <3>3, FS_AddElement, FS_CardinalityType
      <4>4. Cardinality((Newest \cup Current)') = Cardinality(Newest \cup {FreshCapture})
        BY <4>1, Zenon
      <4> QED
        BY <3>3, <3>4, <4>2, <4>3, <4>4
    <3> QED
      BY <1>1, <2>3, <2>4, <2>7, <3>1, <3>5 DEF UInv, CapturesCounted
  <2> QED
    BY <2>5, <2>6, <2>8, <2>9, <2>11 DEF UInv
<1> QED
  BY <1>6, <1>7

\* The worker renders the session, whose body moves on.
LEMMA WorkerKeeps ==
  ASSUME UInv, WorkerUploads
  PROVE  UInv'
<1>1. /\ job = Idle /\ Goes("ensure") /\ UNCHANGED <<row, server, check, cleared>>
      /\ \/ doc' = [rev |-> doc.rev + 1, body |-> doc.body + 1]
         \/ doc' = [doc EXCEPT !.body = @ + 1]
  BY DEF WorkerUploads
<1>2. doc \in [rev : Nat \ {0}, body : Nat \ {0}]
  BY DEF UInv, Types
<1>3. doc'.body = doc.body + 1 /\ doc' \in [rev : Nat \ {0}, body : Nat \ {0}]
  BY <1>1, <1>2
<1>4. UploadIds' = UploadIds /\ SnapIds' = SnapIds
  BY <1>1 DEF UploadIds, SnapIds
<1>5. "ensure" \in PCs
  BY DEF PCs
<1>6. /\ job' \in Jobs /\ job'.pc = "ensure" /\ job'.saved = 0 /\ job'.cap = 0
      /\ job'.upload = 0 /\ job'.snap = 0
  BY <1>1, <1>5, IdleIs, Moved
<1>7. Types'
  BY <1>1, <1>3, <1>4, <1>6, RowAndJob DEF UInv, Types
<1>8. /\ \A u \in UploadIds : server.uploads[u].content.body \in Nat
      /\ \A u \in UploadIds : server.uploads[u].content.body <= doc.body
      /\ \A k \in SnapIds : server.snaps[k].content.body \in Nat
      /\ \A k \in SnapIds : server.snaps[k].content.body <= doc.body
  BY Entries DEF UInv, ServerSound, Past, Uploads, Snaps, Contents
<1>9. /\ \A u \in UploadIds : server.uploads[u].content.body < doc'.body
      /\ \A k \in SnapIds : server.snaps[k].content.body < doc'.body
  BY <1>2, <1>3, <1>8
<1>10. ServerSound' /\ CheckSound'
  <2>1. (\A u \in UploadIds : Past(server.uploads[u].content))'
        /\ (\A k \in SnapIds : Past(server.snaps[k].content))'
    BY <1>1, <1>3, <1>4, <1>8, <1>9 DEF Past
  <2> QED
    BY <1>1, <1>4, <2>1 DEF UInv, ServerSound, CheckSound
<1>11. JobSound'
  BY <1>6 DEF JobSound, InFlight
<1>12. RowSound'
  <2>1. row.upBody \in Nat /\ row.upBody <= doc.body
    BY RowAndJob DEF UInv, RowSound, Rows
  <2>2. row.upBody <= doc'.body /\ row.upBody # doc'.body
    BY <1>2, <1>3, <2>1
  <2>3. \A u \in UploadIds : server.uploads[u].content.body # doc'.body
    BY <1>2, <1>3, <1>8, <1>9
  <2> QED
    BY <1>1, <1>4, <2>2, <2>3 DEF UInv, RowSound
<1>13. CapturesCounted'
  <2>1. Newest' = {}
    BY <1>1, <1>2, <1>3, <1>4, <1>8, <1>9 DEF Newest
  <2>2. Current' = IF row.cap = 0 THEN {} ELSE {row.cap}
    BY <1>1, <1>6 DEF Current
  <2>3. Cardinality((Newest \cup Current)') <= cleared + (IF row.cap = 0 THEN 0 ELSE 1)
    <3>1. cleared \in Nat
      BY RowAndJob
    <3>2. CASE row.cap = 0
      <4>1. (Newest \cup Current)' = {}
        BY <2>1, <2>2, <3>2
      <4>2. Cardinality((Newest \cup Current)') = 0
        BY <4>1, FS_EmptySet, Zenon
      <4> QED
        BY <3>1, <3>2, <4>2
    <3>3. CASE row.cap # 0
      <4>1. (Newest \cup Current)' = {row.cap}
        BY <2>1, <2>2, <3>3
      <4>2. Cardinality((Newest \cup Current)') = 1
        BY <4>1, FS_Singleton, Zenon
      <4> QED
        BY <3>1, <3>3, <4>2
    <3> QED
      BY <3>2, <3>3
  <2>4. \A u \in UploadIds : CapturesOf(server.uploads[u].content)'
                               = CapturesOf(server.uploads[u].content)
    BY <1>1, <1>4 DEF CapturesOf
  <2> QED
    BY <1>1, <1>4, <2>3, <2>4 DEF UInv, CapturesCounted, Captures
<1> QED
  BY <1>7, <1>10, <1>11, <1>12, <1>13 DEF UInv

\* The upload is created, or the one of its capture is found.
LEMMA CreateKeeps ==
  ASSUME UInv, CreateUpload
  PROVE  UInv'
<1> DEFINE known == UploadOf(job.cap)
           new == Len(server.uploads) + 1
<1>1. /\ job.pc = "create" /\ UNCHANGED <<doc, row, check, cleared>>
      /\ \/ /\ known = 0 /\ server' = Created(job.cap, job.content)
            /\ \/ job' = [job EXCEPT !.pc = "persist", !.upload = new]
               \/ Goes("fail")
         \/ /\ known # 0 /\ server' = server
            /\ \/ /\ server.uploads[known].content = job.content
                  /\ job' = [job EXCEPT !.pc = "persist", !.upload = known]
               \/ Goes("fail")
  BY DEF CreateUpload, Goes
<1>2. /\ job.cap # 0 /\ job.content.body = doc.body /\ job.content.rev = doc.rev
      /\ row.state # "uploaded" /\ (row.cap # 0 => row.capRev = doc.rev)
  BY <1>1 DEF UInv, JobSound, InFlight
<1>3. job.cap \in Nat \ {0} /\ job.content \in Contents /\ Past(job.content)
  BY <1>2, RowAndJob DEF Jobs, Past
<1>4. ASSUME Goes("fail")
      PROVE  /\ job' \in Jobs /\ job'.pc = "fail" /\ job'.saved = job.saved
             /\ job'.cap = job.cap /\ job'.upload = job.upload /\ job'.snap = job.snap
             /\ JobSound'
  <2>1. "fail" \in PCs
    BY DEF PCs
  <2>2. /\ job' \in Jobs /\ job'.pc = "fail" /\ job'.saved = job.saved
        /\ job'.cap = job.cap /\ job'.upload = job.upload /\ job'.snap = job.snap
    BY <1>4, <2>1, RowAndJob, Moved
  <2> QED
    BY <1>1, <2>2 DEF UInv, JobSound, InFlight
<1>5. ASSUME NEW u \in Nat, job' = [job EXCEPT !.pc = "persist", !.upload = u]
      PROVE  /\ job' \in Jobs /\ job'.pc = "persist" /\ job'.saved = job.saved
             /\ job'.cap = job.cap /\ job'.upload = u /\ job'.snap = job.snap
             /\ job'.content = job.content
  <2>1. "persist" \in PCs
    BY DEF PCs, InFlight
  <2> QED
    BY <1>5, <2>1, RowAndJob DEF Jobs
<1> HIDE DEF known
<1>6. CASE known # 0 /\ server' = server
  <2>1. known \in UploadIds /\ known \in Nat
    BY <1>6, UploadFound, Entries DEF UInv, known
  <2>2. CASE Goes("fail")
    BY <1>1, <1>4, <1>6, <2>2, RowAndJob, JobMoves
  <2>3. CASE /\ server.uploads[known].content = job.content
             /\ job' = [job EXCEPT !.pc = "persist", !.upload = known]
    <3>1. /\ job' \in Jobs /\ job'.pc = "persist" /\ job'.saved = job.saved
          /\ job'.cap = job.cap /\ job'.upload = known /\ job'.snap = job.snap
          /\ job'.content = job.content
      BY <1>5, <2>1, <2>3
    <3>2. known # 0 /\ server.uploads[known].content.rev = doc.rev
      BY <1>2, <1>6, <2>3
    <3>3. JobSound'
      BY <1>1, <1>6, <3>1, <3>2 DEF UInv, JobSound, InFlight
    <3> QED
      BY <1>1, <1>6, <2>1, <3>1, <3>3, RowAndJob, JobMoves
  <2> QED
    BY <1>1, <1>6, <2>2, <2>3
<1>7. CASE known = 0 /\ server' = Created(job.cap, job.content)
  <2>1. /\ Keeps /\ ServerSound' /\ SnapIds' = SnapIds
        /\ UploadIds' = UploadIds \cup {new} /\ new \notin UploadIds /\ new # 0
        /\ server'.uploads[new].capture = job.cap
        /\ server'.uploads[new].content = job.content
    BY <1>1, <1>3, <1>7, CreatedKeeps DEF UInv, known
  <2>2. new \in Nat
    BY Entries DEF UInv
  <2> HIDE DEF new
  <2>3. /\ \A u \in UploadIds : server'.uploads[u].capture = server.uploads[u].capture
                                /\ server'.uploads[u].content = server.uploads[u].content
        /\ row.snap # 0 => server'.snaps[row.snap].content = server.snaps[row.snap].content
        /\ row.upload # 0 =>
             server'.uploads[row.upload].content = server.uploads[row.upload].content
    BY <2>1, RowAndJob DEF Keeps
  <2>4. /\ job' \in Jobs /\ job'.saved = job.saved /\ job'.cap = job.cap
        /\ job'.upload \in {0} \cup UploadIds' /\ job'.snap = job.snap /\ JobSound'
    <3>1. CASE Goes("fail")
      BY <1>4, <2>1, <3>1, RowAndJob
    <3>2. CASE job' = [job EXCEPT !.pc = "persist", !.upload = new]
      <4>1. /\ job' \in Jobs /\ job'.pc = "persist" /\ job'.saved = job.saved
            /\ job'.cap = job.cap /\ job'.upload = new /\ job'.snap = job.snap
            /\ job'.content = job.content
        BY <1>5, <2>2, <3>2
      <4>2. server'.uploads[new].content.rev = doc.rev
        BY <1>2, <2>1
      <4>3. JobSound'
        BY <1>1, <2>1, <4>1, <4>2 DEF UInv, JobSound, InFlight
      <4> QED
        BY <2>1, <4>1, <4>3
    <3> QED
      BY <1>1, <1>7, <3>1, <3>2
  <2>5. Types'
    BY <1>1, <2>1, <2>4, RowAndJob DEF UInv, Types, Keeps
  <2>6. CheckSound'
    BY <1>1, RowAndJob, <2>1 DEF CheckSound, Keeps
  <2>7. RowSound'
    BY <1>1, <1>2, <2>1, <2>3 DEF UInv, RowSound
  <2>8. CapturesCounted'
    <3>1. Newest' = Newest \cup {job.cap} /\ Captures' = Captures \cup {job.cap}
      BY <1>1, <1>2, <2>1, <2>3 DEF Newest, Captures
    <3>2. (Newest \cup Current)' = Newest \cup Current
      BY <1>1, <1>2, <2>4, <3>1 DEF Current
    <3>3. Cardinality(Newest \cup Current) <= cleared + (IF row.cap = 0 THEN 0 ELSE 1)
      BY DEF UInv, CapturesCounted
    <3>4. Cardinality((Newest \cup Current)')
            <= cleared' + (IF row'.cap = 0 THEN 0 ELSE 1)
      <4>1. Cardinality((Newest \cup Current)') = Cardinality(Newest \cup Current)
        BY <3>2, Zenon
      <4> QED
        BY <1>1, <3>3, <4>1
    <3>5. ASSUME NEW u \in UploadIds'
          PROVE  Cardinality(CapturesOf(server.uploads[u].content)') <= 1 + cleared'
      <4>1. cleared \in Nat /\ 1 + cleared \in Nat /\ cleared' = cleared
        BY <1>1, RowAndJob
      <4>2. CASE server'.uploads[u].content = job.content
        <5>1. CapturesOf(server.uploads[u].content)' \subseteq Newest \cup Current
          BY <1>1, <1>2, <3>1, <4>2 DEF CapturesOf, Newest, Current
        <5>2. Cardinality(Newest \cup Current) <= 1 + cleared
          <6>1. Cardinality(Newest \cup Current) \in Nat
            BY NewestFinite, FS_CardinalityType DEF UInv
          <6> QED
            BY <3>3, <4>1, <6>1
        <5> QED
          BY <4>1, <5>1, <5>2, NewestFinite, Fewer DEF UInv
      <4>3. CASE server'.uploads[u].content # job.content
        <5>1. u \in UploadIds
          BY <2>1, <4>3
        <5>2. CapturesOf(server.uploads[u].content)' = CapturesOf(server.uploads[u].content)
          BY <2>1, <2>3, <4>3, <5>1 DEF CapturesOf
        <5>3. Cardinality(CapturesOf(server.uploads[u].content)) <= 1 + cleared
          BY <5>1 DEF UInv, CapturesCounted
        <5>4. Cardinality(CapturesOf(server.uploads[u].content)')
                = Cardinality(CapturesOf(server.uploads[u].content))
          BY <5>2, Zenon
        <5> QED
          BY <4>1, <5>3, <5>4
      <4> QED
        BY <4>2, <4>3
    <3>6. \E m \in {0} \cup Captures' : \A x \in Captures' : x <= m
      <4>1. PICK m \in {0} \cup Captures : \A x \in Captures : x <= m
        BY DEF UInv, CapturesCounted
      <4>2. Captures \subseteq Nat
        BY Entries DEF UInv, Captures, Uploads
      <4>3. CASE job.cap <= m
        BY <1>3, <3>1, <4>1, <4>2, <4>3
      <4>4. CASE ~(job.cap <= m)
        <5>1. \A x \in Captures' : x <= job.cap
          BY <1>3, <3>1, <4>1, <4>2, <4>4
        <5> QED
          BY <3>1, <5>1
      <4> QED
        BY <4>3, <4>4
    <3> QED
      BY <3>4, <3>5, <3>6 DEF CapturesCounted
  <2> QED
    BY <2>1, <2>5, <2>4, <2>6, <2>7, <2>8 DEF UInv
<1> QED
  BY <1>1, <1>6, <1>7

-----------------------------------------------------------------------------
(* The invariant.                                                           *)

\* A session never uploaded, or uploaded by an older version.
LEMMA InitSound ==
  ASSUME Init
  PROVE  UInv
<1>1. /\ doc = [rev |-> 1, body |-> 1] /\ job = Idle /\ check = 0 /\ cleared = 0
      /\ \/ row = NoRow /\ server = [uploads |-> <<>>, snaps |-> <<>>]
         \/ /\ row = [NoRow EXCEPT !.state = "uploaded", !.upRev = 1, !.snap = 1]
            /\ server = [uploads |-> <<>>,
                         snaps |-> <<[content |-> Document("old"), live |-> TRUE]>>]
  BY DEF Init
<1> HIDE DEF Init
<1>2. doc.rev = 1 /\ doc.body = 1 /\ doc \in [rev : Nat \ {0}, body : Nat \ {0}]
  BY <1>1
<1>3. UploadIds = {} /\ server.uploads = <<>>
  BY <1>1 DEF UploadIds
<1>4. /\ row \in Rows /\ row.upload = 0 /\ row.cap = 0 /\ row.upBody = 0
      /\ row.state \notin Parked
      /\ \/ row = NoRow /\ row.snap = 0 /\ server = [uploads |-> <<>>, snaps |-> <<>>]
         \/ /\ row.state = "uploaded" /\ row.snap = 1
            /\ server = [uploads |-> <<>>,
                         snaps |-> <<[content |-> Document("old"), live |-> TRUE]>>]
  <2>1. CASE row = NoRow /\ server = [uploads |-> <<>>, snaps |-> <<>>]
    <3>1. "absent" \notin Parked
      BY DEF Parked
    <3> QED
      BY <2>1, <3>1, NoRowIs
  <2>2. CASE /\ row = [NoRow EXCEPT !.state = "uploaded", !.upRev = 1, !.snap = 1]
             /\ server = [uploads |-> <<>>,
                          snaps |-> <<[content |-> Document("old"), live |-> TRUE]>>]
    <3>1. "uploaded" \in States /\ "uploaded" \notin Parked
      BY DEF Parked, States
    <3>2. /\ row \in Rows /\ row.upload = 0 /\ row.cap = 0 /\ row.upBody = 0
          /\ row.state = "uploaded" /\ row.snap = 1
      BY <2>2, <3>1, NoRowIs DEF Rows
    <3> QED
      BY <2>2, <3>1, <3>2
  <2> QED
    BY <1>1, <2>1, <2>2
<1>5. Document("old") \in Contents /\ Document("old").body = 1 /\ Document("old").rev = 1
  BY <1>2 DEF Document, Contents
<1>6. /\ server.snaps \in Seq(Snaps) /\ (row.snap # 0 => row.snap \in SnapIds)
      /\ \A k \in SnapIds : k = 1 /\ server.snaps[k].content = Document("old")
      /\ server \in [uploads : Seq(Uploads), snaps : Seq(Snaps)]
  <2> DEFINE snap == [content |-> Document("old"), live |-> TRUE]
  <2>1. snap \in Snaps /\ snap.content = Document("old")
    BY <1>5 DEF Snaps
  <2>2. \/ row.snap = 0 /\ server = [uploads |-> <<>>, snaps |-> <<>>]
        \/ row.snap = 1 /\ server = [uploads |-> <<>>, snaps |-> <<snap>>]
    BY <1>4
  <2> HIDE DEF snap
  <2>3. CASE row.snap = 0 /\ server = [uploads |-> <<>>, snaps |-> <<>>]
    <3>1. server.snaps = <<>> /\ SnapIds = {}
      BY <2>3 DEF SnapIds
    <3> QED
      BY <2>3, <3>1
  <2>4. CASE row.snap = 1 /\ server = [uploads |-> <<>>, snaps |-> <<snap>>]
    <3>1. server.snaps = <<snap>> /\ SnapIds = {1}
      BY <2>4 DEF SnapIds
    <3> QED
      BY <2>1, <2>4, <3>1
  <2> QED
    BY <2>2, <2>3, <2>4
<1>7. Types
  BY <1>1, <1>2, <1>4, <1>6, IdleIs DEF Types
<1>8. ServerSound
  BY <1>2, <1>3, <1>5, <1>6 DEF ServerSound, Past
<1>9. RowSound
  BY <1>2, <1>3, <1>4, NoRowIs DEF RowSound
<1>10. JobSound
  BY <1>1, IdleIs DEF JobSound, InFlight
<1>11. CapturesCounted
  <2>1. Newest \cup Current = {} /\ Captures = {}
    BY <1>1, <1>3, <1>4, IdleIs DEF Newest, Current, Captures
  <2>2. Cardinality(Newest \cup Current) = 0
    BY <2>1, FS_EmptySet, Zenon
  <2> QED
    BY <1>1, <1>3, <1>4, <2>1, <2>2 DEF CapturesCounted
<1> QED
  BY <1>1, <1>7, <1>8, <1>9, <1>10, <1>11 DEF UInv, CheckSound

\* Every step keeps the invariant.
LEMMA NextKeeps ==
  ASSUME UInv, [Next]_vars
  PROVE  UInv'
<1>1. CASE UNCHANGED vars
  <2>1. UNCHANGED <<doc, row, server, job, check, cleared>>
    BY <1>1 DEF vars
  <2>2. RowSound' /\ JobSound' /\ Current' = Current /\ Identities' = Identities
    BY <2>1 DEF UInv, RowSound, JobSound, Current, Identities, UploadIds
  <2> QED
    BY <2>1, <2>2, RowAndJob, ServerStands
<1>2. CASE Next
  <2>1. CASE WorkerUploads
    BY <2>1, WorkerKeeps
  <2>2. CASE SweepUploads \/ BackfillUploads
    BY <2>2, TakingKeeps
  <2>3. CASE \E force \in BOOLEAN : RetryUploads(force)
    BY <2>3, RetryKeeps
  <2>4. CASE \E k \in DOMAIN server.snaps : Rearchive(k) \/ Tombstone(k)
    BY <2>4, RearchiveKeeps, TombstoneKeeps DEF SnapIds
  <2>5. CASE \E u \in DOMAIN server.uploads : UploadExpires(u)
    BY <2>5, ExpiryKeeps DEF UploadIds
  <2>6. CASE UploadOne
    BY <2>6, EnsureKeeps, PrepareKeeps, UploadStatusKeeps, CreateKeeps, PersistKeeps,
       ChunksKeeps, CompleteKeeps, RecordKeeps, RecordRearchiveKeeps DEF UploadOne
  <2>7. CASE RequestFails
    BY <2>7, RequestFailsKeeps
  <2>8. CASE JobDies
    BY <2>8, JobDiesKeeps
  <2>9. CASE AbandonRearchive \/ ReconcileChecks \/ ReconcileRepairs
    BY <2>9, RepairKeeps
  <2>10. CASE BackoffElapses
    BY <2>10, BackoffKeeps
  <2> QED
    BY <1>2, <2>1, <2>2, <2>3, <2>4, <2>5, <2>6, <2>7, <2>8, <2>9, <2>10 DEF Next
<1> QED
  BY <1>1, <1>2

\* Whoever uploads, dies, repairs or tombstones, what the row, the job and the
\* server say of one another stays sound.
THEOREM UploadsAreSound == Spec => []UInv
<1>1. Init => UInv
  BY InitSound
<1>2. UInv /\ [Next]_vars => UInv'
  BY NextKeeps
<1> QED
  BY <1>1, <1>2, PTL DEF Spec

-----------------------------------------------------------------------------
(* What follows from it.                                                    *)

\* The document and the failures stay within their bounds.
Bounded == doc.rev <= MaxRevision /\ doc.body <= MaxBody /\ faults \in 0 .. MaxFaults

\* The type of every variable, and what the row names exists on the server.
THEOREM UploadTypes == Spec => []TypeOK
<1>1. Init => Bounded
  BY ArchiveUploadAssumption DEF Init, Bounded
<1>2. UInv /\ Bounded /\ [Next]_vars => Bounded'
  <2> SUFFICES ASSUME UInv, Bounded, [Next]_vars
               PROVE  Bounded'
    OBVIOUS
  <2>1. /\ doc \in [rev : Nat \ {0}, body : Nat \ {0}] /\ faults \in 0 .. MaxFaults
        /\ MaxFaults \in Nat /\ MaxBody \in Nat /\ MaxRevision \in Nat
    BY ArchiveUploadAssumption DEF UInv, Types, Bounded
  <2>2. faults' = faults \/ (faults < MaxFaults /\ faults' = faults + 1)
    BY DEF Next, vars, UploadOne, Faulty, WorkerUploads, SweepUploads, BackfillUploads,
           RetryUploads, Rearchive, Tombstone, UploadExpires, RequestFails, JobDies,
           AbandonRearchive, ReconcileChecks, ReconcileRepairs, BackoffElapses, EnsureRow,
           PrepareCapture, UploadStatus, CreateUpload, PersistUploadId, UploadChunks,
           CompleteUpload, RecordUpload, RecordRearchive
  <2>3. \/ doc' = doc
        \/ /\ doc.body < MaxBody
           /\ \/ /\ doc.rev < MaxRevision
                 /\ doc' = [rev |-> doc.rev + 1, body |-> doc.body + 1]
              \/ doc' = [doc EXCEPT !.body = @ + 1]
    BY DEF Next, vars, UploadOne, Faulty, WorkerUploads, SweepUploads, BackfillUploads,
           RetryUploads, Rearchive, Tombstone, UploadExpires, RequestFails, JobDies,
           AbandonRearchive, ReconcileChecks, ReconcileRepairs, BackoffElapses, EnsureRow,
           PrepareCapture, UploadStatus, CreateUpload, PersistUploadId, UploadChunks,
           CompleteUpload, RecordUpload, RecordRearchive
  <2> QED
    BY <2>1, <2>2, <2>3 DEF Bounded
<1>3. UInv /\ Bounded => TypeOK
  BY ArchiveUploadAssumption
     DEF UInv, Types, Bounded, TypeOK, Rows, ServerSound, UploadIds, SnapIds
<1> QED
  BY <1>1, <1>2, <1>3, UploadsAreSound, PTL DEF Spec

\* The snapshot an uploaded row names is of the revision the row records:
\* prepare_archive_capture resumes a capture only for its own revision.
THEOREM RecordedRevisionIsHeld == Spec => []UploadedRevisionIsHeld
<1>1. UInv => UploadedRevisionIsHeld
  BY DEF UInv, RowSound, UploadedRevisionIsHeld
<1> QED
  BY <1>1, UploadsAreSound, PTL

\* Content is completed under a second capture only after the row's identity
\* was deliberately forgotten: the uploads completed of one content have as
\* many captures, and those are counted by CapturesCounted.
THEOREM CapturesAreNotDuplicated == Spec => []NoDuplicateCapture
<1>1. ASSUME UInv, NEW u \in UploadIds, server.uploads[u].status = "completed"
      PROVE  Cardinality({v \in UploadIds :
                            /\ server.uploads[v].status = "completed"
                            /\ server.uploads[v].content = server.uploads[u].content})
               <= 1 + cleared
  <2> DEFINE content == server.uploads[u].content
             V == {v \in UploadIds : /\ server.uploads[v].status = "completed"
                                     /\ server.uploads[v].content = content}
             T == CapturesOf(content)
             f == [v \in V |-> server.uploads[v].capture]
  <2>1. f \in Injection(V, T)
    <3>1. f \in [V -> T]
      BY DEF CapturesOf
    <3>2. \A v, w \in V : f[v] = f[w] => v = w
      BY <1>1 DEF UInv, ServerSound
    <3> HIDE DEF f, V, T
    <3> QED
      BY <3>1, <3>2 DEF Injection, IsInjective
  <2>2. IsFiniteSet(T) /\ Cardinality(T) <= 1 + cleared
    BY <1>1, NewestFinite DEF UInv, CapturesCounted
  <2> HIDE DEF f, V, T
  <2>3. IsFiniteSet(V) /\ Cardinality(V) <= Cardinality(T)
    BY <2>1, <2>2, FS_Injection
  <2>4. Cardinality(V) \in Nat /\ Cardinality(T) \in Nat /\ cleared \in Nat
    BY <1>1, <2>2, <2>3, FS_CardinalityType, RowAndJob
  <2>5. Cardinality(V) <= 1 + cleared
    BY <2>2, <2>3, <2>4
  <2> QED
    BY <2>5 DEF V
<1>2. UInv => NoDuplicateCapture
  BY <1>1 DEF NoDuplicateCapture, UploadIds
<1> QED
  BY <1>2, UploadsAreSound, PTL

\* How a row leaves its park, and when it forgets its snapshot.
ExactStep ==
  row.state \in Parked /\ row'.state \notin Parked =>
    \/ /\ row'.state = "uploaded" /\ job.saved # 0
       /\ server.snaps[row'.snap].content = server.snaps[job.saved].content
    \/ row' = Forgotten("pending") /\ job = Idle /\ UNCHANGED <<job, check>>
KeptStep == row.snap # 0 /\ row'.snap = 0 => ~server.snaps[row.snap].live

\* Every step that writes the row is one of them.
LEMMA RowSteps ==
  ASSUME UInv, [Next]_vars
  PROVE  ExactStep /\ KeptStep
<1>1. CASE row' = row
  BY <1>1 DEF ExactStep, KeptStep
<1>2. ASSUME NEW force \in BOOLEAN, RetryUploads(force)
      PROVE  ExactStep /\ KeptStep
  <2>1. row.state \notin Parked /\ row' = ResetRow(force)
    BY <1>2 DEF RetryUploads, Parked
  <2>2. row'.snap = row.snap
    BY <2>1, RowAndJob, ResetRowIs
  <2> QED
    BY <2>1, <2>2 DEF ExactStep, KeptStep
<1>3. ASSUME NEW k \in SnapIds, Rearchive(k)
      PROVE  ExactStep /\ KeptStep
  <2>1. \/ row.snap = k /\ ~server.snaps[k].live /\ row' = Forgotten("rearchive-pending")
        \/ row.snap = 0 /\ row' = RearchiveRow
    BY <1>3 DEF Rearchive
  <2>2. "rearchive-pending" \in Parked /\ "rearchive-pending" \in States
    BY DEF States, Parked
  <2>3. row'.state = "rearchive-pending"
    BY <2>1, <2>2, RowAndJob, ForgottenRow, RearchiveRowIs
  <2> QED
    BY <2>1, <2>2, <2>3 DEF ExactStep, KeptStep
<1>4. CASE EnsureRow /\ row' # row
  <2>1. row.state = "absent"
    BY <1>4 DEF EnsureRow
  <2>2. row.snap = 0 /\ row.state \notin Parked
    BY <2>1, NoRowIs DEF UInv, RowSound, Parked
  <2> QED
    BY <2>2 DEF ExactStep, KeptStep
<1>5. CASE PrepareCapture /\ row' # row
  <2> DEFINE state == IF row.state \in Parked THEN "rearchive-pending" ELSE "pending"
  <2>1. row' = [row EXCEPT !.cap = FreshCapture, !.capRev = doc.rev, !.upload = 0,
                           !.state = state]
    BY <1>5 DEF PrepareCapture
  <2>2. row'.state = state /\ row'.snap = row.snap
    BY <2>1, RowAndJob DEF Rows
  <2> QED
    BY <2>2 DEF ExactStep, KeptStep, Parked
<1>6. CASE PersistUploadId /\ row' # row
  <2>1. row' = [row EXCEPT !.upload = job.upload]
    BY <1>6 DEF PersistUploadId
  <2>2. row'.state = row.state /\ row'.snap = row.snap
    BY <2>1, RowAndJob DEF Rows
  <2> QED
    BY <2>2 DEF ExactStep, KeptStep
<1>7. CASE RecordUpload
  <2>1. row.state \notin Parked
    BY <1>7 DEF RecordUpload, UInv, JobSound
  <2>2. row'.snap = row.snap \/ row'.snap # 0
    BY <1>7, SuccessSound, RowAndJob, FailureRowIs DEF RecordUpload
  <2> QED
    BY <2>1, <2>2 DEF ExactStep, KeptStep
<1>8. CASE RecordRearchive
  <2>1. job.saved # 0 /\ row.snap = 0
    BY <1>8 DEF RecordRearchive, UInv, JobSound
  <2>2. \/ /\ job.pc = "record" /\ row' = SuccessRow
           /\ server.snaps[job.snap].content = server.snaps[job.saved].content
        \/ row' = [Forgotten("rearchive-failed") EXCEPT !.attempts = row.attempts + 1]
        \/ row' = [row EXCEPT !.state = "rearchive-failed", !.attempts = @ + 1]
    BY <1>8 DEF RecordRearchive
  <2>3. "rearchive-failed" \in Parked /\ "rearchive-failed" \in States
    BY DEF States, Parked
  <2>4. CASE /\ job.pc = "record" /\ row' = SuccessRow
             /\ server.snaps[job.snap].content = server.snaps[job.saved].content
    <3>1. row'.state = "uploaded" /\ row'.snap = job.snap
      BY <2>4, SuccessRowIs DEF UInv
    <3> QED
      BY <2>1, <2>4, <3>1 DEF ExactStep, KeptStep
  <2>5. CASE row' = [Forgotten("rearchive-failed") EXCEPT !.attempts = row.attempts + 1]
    <3>1. Forgotten("rearchive-failed") \in Rows
          /\ Forgotten("rearchive-failed").state = "rearchive-failed"
      BY <2>3, RowAndJob, ForgottenRow
    <3>2. row'.state = "rearchive-failed"
      BY <2>5, <3>1 DEF Rows
    <3> QED
      BY <2>1, <2>3, <3>2 DEF ExactStep, KeptStep
  <2>6. CASE row' = [row EXCEPT !.state = "rearchive-failed", !.attempts = @ + 1]
    <3>1. row'.state = "rearchive-failed"
      BY <2>6, RowAndJob, RearchiveFailedRow
    <3> QED
      BY <2>1, <2>3, <3>1 DEF ExactStep, KeptStep
  <2> QED
    BY <2>2, <2>4, <2>5, <2>6
<1>9. CASE AbandonRearchive
  <2>1. /\ row.snap = 0 /\ job = Idle /\ UNCHANGED <<job, check>>
        /\ row' = Forgotten("pending")
    BY <1>9 DEF AbandonRearchive, UInv, RowSound
  <2> QED
    BY <2>1 DEF ExactStep, KeptStep
<1>10. CASE ReconcileRepairs /\ row' # row
  <2>1. check # 0 /\ row.snap = check
    BY <1>10 DEF ReconcileRepairs
  <2>2. ~server.snaps[row.snap].live /\ row.state \notin Parked
    BY <2>1 DEF UInv, CheckSound, RowSound
  <2> QED
    BY <2>2 DEF ExactStep, KeptStep
<1>11. CASE BackoffElapses
  <2>1. row.state = "failed" /\ row' = [row EXCEPT !.due = TRUE]
    BY <1>11 DEF BackoffElapses
  <2>2. row'.snap = row.snap /\ row.state \notin Parked
    BY <2>1, RowAndJob DEF Rows, Parked
  <2> QED
    BY <2>2 DEF ExactStep, KeptStep
<1>12. \/ row' = row
       \/ \E force \in BOOLEAN : RetryUploads(force)
       \/ \E k \in SnapIds : Rearchive(k)
       \/ EnsureRow \/ PrepareCapture \/ PersistUploadId \/ RecordUpload \/ RecordRearchive
       \/ AbandonRearchive \/ ReconcileRepairs \/ BackoffElapses
  BY Zenon DEF Next, vars, UploadOne, SnapIds, WorkerUploads, SweepUploads,
         BackfillUploads, Tombstone, UploadExpires, RequestFails, JobDies, ReconcileChecks,
         UploadStatus, CreateUpload, UploadChunks, CompleteUpload
<1> QED
  BY <1>1, <1>2, <1>3, <1>4, <1>5, <1>6, <1>7, <1>8, <1>9, <1>10, <1>11, <1>12

\* A parked row leaves its park only by a rearchive that restored the very
\* fingerprint it was asked for, or by an explicit abandon.
THEOREM ParkedRowsLeaveExactly == Spec => RearchiveIsExact
<1>1. UInv /\ [Next]_vars => [ExactStep]_row
  BY RowSteps
<1> QED
  BY <1>1, UploadsAreSound, PTL DEF Spec, RearchiveIsExact, ExactStep

\* No command makes the row forget a snapshot the server still holds.
THEOREM LiveSnapshotsAreKept == Spec => LiveSnapshotKept
<1>1. UInv /\ [Next]_vars => [KeptStep]_row
  BY RowSteps
<1> QED
  BY <1>1, UploadsAreSound, PTL DEF Spec, LiveSnapshotKept, KeptStep
=============================================================================
