----------------------------- MODULE MemorySync -----------------------------
(***************************************************************************)
(* The mirror of Claude memory directories in the vault: one pass collects  *)
(* the directories and their manifest hashes, decides which to sync, and    *)
(* then writes each one's files, its manifest note and a correlated commit. *)
(* Passes run after an archive, in `tick` and by the operator; no lock      *)
(* keeps two apart.                                                         *)
(*                                                                          *)
(* Simplified: the files of a directory are one file, and its content stands *)
(* for its hash.  A directory is kept with all the contents it has had, in   *)
(* order: the code sees the last, an item or a row names the content whose   *)
(* hash it holds by its place, and two places may have the same content.     *)
(***************************************************************************)
EXTENDS NotesmithVault

CONSTANTS
  Directories,
  Contents,      \* what a directory may hold
  MaxMemory      \* bound: contents a directory has in turn

ASSUME MemorySyncAssumption ==
  /\ MaxMemory \in Nat /\ Contents # {}
  /\ \A d \in Directories : {<<"file", d>>, <<"manifest", d>>} \subseteq Paths

VARIABLES
  memory,    \* the contents of a memory directory, its present one last
  mirror     \* its row of `memory_sync`

memoryVars == <<memory, mirror>>

FilePath(d) == <<"file", d>>
ManifestPath(d) == <<"manifest", d>>

\* The present place of a directory, and the content of a place.
Now(d) == Len(memory[d])
Content(d, n) == memory[d][n]

\* again is history: the commit's message was in the log before the pass that
\* recorded it came to commit.
NoMirror == [state |-> "absent", hash |-> 0, rev |-> 0, commit |-> 0,
             attempts |-> 0, again |-> FALSE]

MemoryInit ==
  /\ \E first \in [Directories -> Contents] :
       memory = [d \in Directories |-> <<first[d]>>]
  /\ mirror = [d \in Directories |-> NoMirror]

SetMirror(d, r) == mirror' = [mirror EXCEPT ![d] = r]

\* The agent writes its memory, or an earlier one comes back.
AgentRemembers(d) ==
  /\ Now(d) < MaxMemory
  /\ \E x \in Contents \ {Content(d, Now(d))} :
       memory' = [memory EXCEPT ![d] = Append(@, x)]
  /\ UNCHANGED <<vaultVars, client, overlaps, mirror>>

\* eligibility compares hashes, which two places may share; due: the backoff
\* of a failure has passed.
Eligible(d, due, force) ==
  \/ mirror[d].state \in {"absent", "pending", "blocked"}
  \/ /\ mirror[d].state = "synced"
     /\ Content(d, mirror[d].hash) # Content(d, Now(d))
  \/ mirror[d].state = "failed" /\ (due \/ force)
  \/ mirror[d].state = "dead-letter" /\ force

\* collect_memory_directories and the work list; an empty directory is none
\* and is not here.  History is
\* always required.
SyncBegins(p, due, force) ==
  LET todo == {[of |-> d, ver |-> Now(d)] :
                 d \in {e \in Directories : Eligible(e, due, force)}}
  IN  /\ todo # {}
      /\ Starts(p, [Idle EXCEPT !.pc = "sync-next", !.todo = todo, !.force = force],
                TRUE)
      /\ UNCHANGED memoryVars

\* ensure_memory_sync_target, the forced reset, and what the gate decides.
SyncTarget(p) ==
  LET c == client[p]
  IN
  /\ c.pc = "sync-next"
  /\ \E i \in c.todo :
       /\ SetMirror(i.of, TargetRow(mirror[i.of], NoMirror, c.force))
       /\ Moves(p, [c EXCEPT !.todo = @ \ {i}, !.item = i, !.pc =
                CASE c.gate = "unavailable" -> "sync-block"
                  [] c.gate = "error" -> "sync-fail"
                  [] OTHER -> "sync-read"])
  /\ UNCHANGED <<vaultVars, memory>>

\* sync_directory's clean-tree check and its read of the live file, whose
\* content may be later than the hash collected; a file gone by now fails.
SyncRead(p) ==
  LET c == client[p]
  IN
  /\ c.pc = "sync-read"
  /\ \/ /\ Moves(p, IF Dirty \subseteq {FilePath(c.item.of), ManifestPath(c.item.of)}
                    THEN [c EXCEPT !.pc = "sync-file", !.read = Now(c.item.of)]
                    ELSE [c EXCEPT !.pc = "sync-fail"])
        /\ UNCHANGED vaultVars
     \/ /\ Request([vault |-> vault, fault |-> 1])
        /\ Goes(p, "sync-fail")
  /\ UNCHANGED memoryVars

SyncFile(p) ==
  LET c == client[p]
  IN
  /\ c.pc = "sync-file"
  /\ \E o \in WriteOutcomes(WithNote(FilePath(c.item.of), Text(Content(c.item.of, c.read)))) :
       /\ Request(o)
       /\ Goes(p, IF o.ok THEN "sync-manifest" ELSE "sync-fail")
  /\ UNCHANGED memoryVars

\* The manifest note carries the hash collected and the next revision.
SyncManifest(p) ==
  LET c == client[p]
      rev == mirror[c.item.of].rev + 1
  IN
  /\ c.pc = "sync-manifest"
  /\ \E o \in WriteOutcomes(WithNote(ManifestPath(c.item.of),
                       [rev |-> rev, body |-> Content(c.item.of, c.item.ver)])) :
       /\ Request(o)
       /\ Moves(p, [c EXCEPT !.pc = IF o.ok THEN "sync-commit" ELSE "sync-fail",
                             !.read = rev])
  /\ UNCHANGED memoryVars

SyncCommit(p) ==
  LET c == client[p]
  IN
  /\ c.pc = "sync-commit"
  /\ \E o \in Correlate(<<c.item.of, c.read>>) :
       /\ Request(o)
       /\ Moves(p, [c EXCEPT
            !.pc = IF o.commit = 0 THEN "sync-fail" ELSE "sync-record",
            !.commit = o.commit,
            !.again = FindCommit(vault, <<c.item.of, c.read>>) # 0])
  /\ UNCHANGED memoryVars

\* Mutant: the hash is taken when the pass ends.
SyncRecordRehashing(p) ==
  LET c == client[p]
      r == mirror[c.item.of]
  IN
  /\ \/ /\ c.pc = "sync-record"
        /\ SetMirror(c.item.of, [state |-> "synced", hash |-> Now(c.item.of),
                      rev |-> r.rev + 1, commit |-> c.commit, attempts |-> 0,
                      again |-> c.again])
     \/ c.pc = "sync-block" /\ SetMirror(c.item.of, BlockedRow(r))
     \/ c.pc = "sync-fail" /\ SetMirror(c.item.of, FailedRow(r))
  /\ Moves(p, Done(c, "sync-next"))
  /\ UNCHANGED <<vaultVars, memory>>

\* record_memory_sync_success, _blocked and _failure.
SyncRecord(p) ==
  LET c == client[p]
      r == mirror[c.item.of]
  IN
  /\ \/ /\ c.pc = "sync-record"
        /\ SetMirror(c.item.of, [state |-> "synced", hash |-> c.item.ver,
                      rev |-> r.rev + 1, commit |-> c.commit, attempts |-> 0,
                      again |-> c.again])
     \/ c.pc = "sync-block" /\ SetMirror(c.item.of, BlockedRow(r))
     \/ c.pc = "sync-fail" /\ SetMirror(c.item.of, FailedRow(r))
  /\ Moves(p, Done(c, "sync-next"))
  /\ UNCHANGED <<vaultVars, memory>>

Syncs(p) ==
  SyncTarget(p) \/ SyncRead(p) \/ SyncFile(p)
    \/ SyncManifest(p) \/ SyncCommit(p) \/ SyncRecord(p)

-----------------------------------------------------------------------------
(* Properties of the mirror.                                                *)

\* While passes take turns, a synced directory is mirrored by a content no
\* older than the one whose hash its row holds, although its files are read
\* again after their hash, rewritten and written back, and passes die with
\* the note written and nothing recorded.  So one not rewritten since its hash
\* was taken is mirrored as it is.  The commit on record has such a content
\* too, unless its message was in the log before.
NoOlderThanHash(d, notes) ==
  \E n \in mirror[d].hash .. Now(d) : notes[FilePath(d)] = Text(Content(d, n))
UnchangedIsMirrored ==
  overlaps = 0 =>
    \A d \in Directories :
      mirror[d].state = "synced" =>
        /\ NoOlderThanHash(d, vault.notes)
        /\ mirror[d].again \/ NoOlderThanHash(d, vault.log[mirror[d].commit].tree)
=============================================================================
