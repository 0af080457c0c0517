--------------------------- MODULE NotesmithVault ---------------------------
(***************************************************************************)
(* The Notesmith vault that summary delivery and memory sync write to, as   *)
(* munshi sees it through HttpNotesmithSink (crates/munshi/src/delivery.rs):*)
(* notes addressed by path, and a git history whose commit stages the WHOLE *)
(* working tree.  Any request may fail, with or without taking effect.      *)
(*                                                                          *)
(* The clients are the munshi processes that reach the vault: workers after *)
(* an archive, `tick`, and the operator's commands.  No lock orders them.   *)
(***************************************************************************)
EXTENDS Naturals, Sequences, FiniteSetsExt

CONSTANTS
  Clients,        \* processes of munshi
  Paths,          \* the note paths of the vault
  UserPath,       \* a note of the vault's own user
  Provision,      \* provision_history: munshi may enable the vault's git
  MaxAttempts,    \* max_attempts of a delivery and of a mirrored directory
  MaxFaults,      \* bound: requests that fail, clients that die, user edits
  MaxOverlaps     \* bound: times one starts while another is at work

ASSUME NotesmithVaultAssumption ==
  /\ UserPath \in Paths /\ Provision \in BOOLEAN
  /\ MaxAttempts \in Nat \ {0}
  /\ {MaxFaults, MaxOverlaps} \subseteq Nat

VARIABLES
  vault,     \* the remote: [git, notes, head, log]
  client,    \* what each process is doing
  faults,    \* the bounded events that have happened
  overlaps   \* times a client or the user started while a client was at work

vaultVars == <<vault, faults>>

None == "none"

\* The content of a note: a delivered document is a revision and a body.
Text(n) == [rev |-> 0, body |-> n]
Blank == Text(0)

\* What a client works on: a session and the revision of its record, or a
\* memory directory and which of its contents the hash collected is of; again
\* is the history a pass takes to its row (MemorySync).
NoItem == [of |-> None, ver |-> 0]
Idle == [pc |-> "idle", todo |-> {}, item |-> NoItem, gate |-> None,
         force |-> FALSE, lock |-> None, read |-> 0, commit |-> 0,
         again |-> FALSE]

VaultInit ==
  /\ \E git \in BOOLEAN :
       vault = [git |-> git, notes |-> [p \in Paths |-> Blank],
                head |-> [p \in Paths |-> Blank], log |-> <<>>]
  /\ client = [p \in Clients |-> Idle]
  /\ faults = 0 /\ overlaps = 0

-----------------------------------------------------------------------------
(* The routes of the vault.                                                 *)

\* history_status: changed, staged and untracked paths.
Dirty == {p \in Paths : vault.notes[p] # vault.head[p]}

\* PUT /notes/{path} upserts; POST /notes answers 409 for a note that exists,
\* and munshi then PUTs to the same deterministic path.
WithNote(path, content) == [vault EXCEPT !.notes[path] = content]

\* POST /git/commit: nothing to commit is a success that commits nothing.
WithCommit(subject) ==
  IF Dirty = {} THEN vault
  ELSE [vault EXCEPT !.head = vault.notes,
                     !.log = Append(@, [subject |-> subject, tree |-> vault.notes])]

\* Mutant: any commit of the same session or directory will do.
FindByPrefix(v, subject) ==
  Max({0} \cup {i \in DOMAIN v.log : v.log[i].subject[1] = subject[1]})

\* find_commit_by_message: the newest commit with exactly this subject, or 0.
\* The code looks through the newest 500 commits; here the log is short enough.
FindCommit(v, subject) ==
  Max({0} \cup {i \in DOMAIN v.log : v.log[i].subject = subject})

\* The outcomes of a write: it is answered, or its answer is an error and it
\* took effect or did not.
WriteOutcomes(after) ==
  {[vault |-> after, ok |-> TRUE, fault |-> 0]}
    \cup {[vault |-> v, ok |-> FALSE, fault |-> 1] : v \in {vault, after}}

\* commit_and_correlate: commit, then look the message up, also when the
\* commit's own answer was an error; commit = 0 is a failed correlation.  The
\* two requests are one step: what they read of the log only grows.
Correlate(subject) ==
  LET after == WithCommit(subject)
  IN  {[vault |-> after, commit |-> FindCommit(after, subject), fault |-> 0]}
        \cup {[vault |-> v, commit |-> c, fault |-> 1] :
                v \in {after}, c \in {0, FindCommit(after, subject)}}
        \cup {[vault |-> vault, commit |-> FindCommit(vault, subject), fault |-> 1]}

\* The vault takes one of the outcomes of a request.
Request(o) ==
  /\ faults + o.fault <= MaxFaults
  /\ faults' = faults + o.fault
  /\ vault' = o.vault

\* resolve_history_gate
GateOutcomes(required) ==
  IF ~required THEN {[vault |-> vault, fault |-> 0, gate |-> "not-required"]}
  ELSE {[vault |-> [vault EXCEPT !.git = @ \/ Provision], fault |-> 0,
         gate |-> IF vault.git \/ Provision THEN "available" ELSE "unavailable"],
        [vault |-> vault, fault |-> 1, gate |-> "error"]}

-----------------------------------------------------------------------------
(* Clients.                                                                 *)

Busy(p) == client[p].pc # "idle"

\* A client, or the user, starts, perhaps while a client is at work.
Overlaps ==
  IF \A q \in Clients : ~Busy(q) THEN UNCHANGED overlaps
  ELSE overlaps < MaxOverlaps /\ overlaps' = overlaps + 1

\* A client starts on its work list, and resolves the history gate once for
\* all of it: the requests of the gate touch nothing another client reads.
Starts(p, c, required) ==
  /\ ~Busy(p)
  /\ \E o \in GateOutcomes(required) :
       /\ Request(o)
       /\ client' = [client EXCEPT ![p] = [c EXCEPT !.gate = o.gate]]
  /\ Overlaps

Moves(p, c) == client' = [client EXCEPT ![p] = c] /\ UNCHANGED overlaps
Goes(p, pc) == Moves(p, [client[p] EXCEPT !.pc = pc])

\* The client is done with its item; a client with nothing left ends.
Done(c, pc) ==
  IF c.todo = {} THEN Idle
  ELSE [c EXCEPT !.pc = pc, !.item = NoItem, !.read = 0, !.commit = 0,
                 !.again = FALSE]

\* record_delivery_failure and record_memory_sync_failure: the attempts are
\* read in the transaction that counts this one.
FailedRow(r) ==
  [r EXCEPT !.attempts = @ + 1,
            !.state = IF r.attempts + 1 >= MaxAttempts THEN "dead-letter"
                      ELSE "failed"]
\* reset_delivery_for_retry, reset_memory_sync_for_retry, with force
ResetRow(r) == [r EXCEPT !.state = "pending", !.attempts = 0]
\* ensure_delivery_target, ensure_memory_sync_target, after a forced reset.
TargetRow(r, new, force) ==
  IF r.state = "absent" THEN [new EXCEPT !.state = "pending"]
  ELSE IF force THEN ResetRow(r) ELSE r
BlockedRow(r) == [r EXCEPT !.state = "blocked"]

ClientDies(p) ==
  /\ faults < MaxFaults /\ Busy(p)
  /\ faults' = faults + 1
  /\ Moves(p, Idle)
  /\ UNCHANGED vault

\* The vault's user edits a note, commits the vault or enables its history.
UserEdits ==
  /\ faults < MaxFaults
  /\ faults' = faults + 1
  /\ vault' = WithNote(UserPath, Text(faults'))
  /\ Overlaps
  /\ UNCHANGED client
UserCommits ==
  /\ vault.git /\ UserPath \in Dirty
  /\ vault' = WithCommit(<<UserPath, faults>>)
  /\ UNCHANGED <<faults, client, overlaps>>
UserEnablesHistory ==
  /\ ~vault.git
  /\ vault' = [vault EXCEPT !.git = TRUE]
  /\ UNCHANGED <<faults, client, overlaps>>
VaultUser == UserEdits \/ UserCommits \/ UserEnablesHistory
=============================================================================
