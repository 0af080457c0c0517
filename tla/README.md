# A verification project for munshi

Munshi archives the transcripts of coding-agent sessions: hooks of the agent record that a
session was active or ended, a detached worker summarizes the transcript and writes a Markdown
archive, and sweeps and an operator pick up what was interrupted. What is archived is then
delivered to a Notesmith vault, uploaded to a Patwari server, and restored from it. Everything is
done by short processes that share a SQLite database, a directory of Markdown files, a git
repository, one configuration file and a few advisory locks. No process lives long enough to be
trusted: what makes the system correct is what each transaction, each file write, each request
and each lock leaves behind. These TLA+ modules model exactly that level.

Paths below are relative to `src/`; `munshi/` stands for `crates/munshi/src/`.

## 1. Inventory

| Component | State | Operations | Hard because |
|---|---|---|---|
| **Hook ingestion** (`munshi/hooks.rs`, `state.rs`) | the session's row, `source_observations` | `ingest_agent_stop`, `ingest_session_end`, then `reserve_worker_in_transaction` and `spawn_worker` | every hook is a process of its own: they commit in any order, under a running worker, and may die before the worker they reserved is launched |
| **Session state store** (`state.rs`) | `sessions`, `processing_attempts` | claim, plan, verdict, complete, fail, abandon, defer, lift, settle, import | each statement is atomic, no two of them are; columns of one row are owned by different actors |
| **Recovery sweep** (`hooks.rs` `run_recovery`) | lists read up front | mark interrupted, attach a transcript, rescue a stuck row, discover, lift parks, reactivate, reserve | acts on lists that may be stale by the time it reaches them |
| **Archive worker** (`hooks.rs` `run_archive_worker_inner`, `process_claim`) | session flock, claim, plan, Markdown | reconcile, abandon, gate, claim, load, summarize, plan, verdict, replace, commit, complete | may die between any two steps; writes three stores in sequence |
| **Archive git history** (`archive_git.rs`) | the archive repository | commit a revision once | a revision on disk may or may not be committed when its worker died |
| **Retry and settle-lost commands** (`main.rs`) | none | lift a park, reserve, run a worker; settle a session whose transcript is gone | compete with hooks, sweeps and workers, forced or not |
| **Summarizer budget** (`state.rs` `reserve_summarizer_call`) | `summarizer_calls` | prune, count, charge | rolling windows, clock readings that commit late |
| **Chunked summary** (`summary.rs`) | none between attempts | split, group, reduce | many calls under one budget and one lease |
| **Source loading** (`source.rs`, `munshi-transcript`) | the cursor of a row | load, delta, verify unchanged, classify, judge | the file grows, is cut off in a record or is rewritten between a load and its use |
| **Summary delivery** (`delivery.rs`) | `deliveries`, the vault | write a note, commit, correlate, block, retry, dead-letter | answers may be lost; runs hold no common lock |
| **Memory sync** (`memory_sync.rs`) | `memory_sync`, the vault | mirror files, manifest, commit | the same vault and its whole-tree commits |
| **Archive upload** (`patwari.rs`) | `archive_uploads`, captures and snapshots of the server | create, resume, complete, sweep, retry, rearchive, reconcile | several requests for one result, beside newer revisions |
| **Restore** (`restore.rs`, `restore_resume.rs`, `patwari_read.rs`) | the archive directory, the agent's home, a row | list, verify, place, resume, import | no lock; partial placement; a live transcript at the target |
| **Registration, configuration** (`registration.rs`, `claude_settings.rs`, parts of `patwari.rs` and `state.rs`) | `config.json`, hook files, `settings.json`, legacy files | register, unregister, update a section, ensure the client id, migrate | several files, no transaction, files of others |
| **Processing policy** (`policy.rs`) | override files | resolve, gate | read at each worker's start |
| **Purge, rebuild, origin hydration** (`state.rs`, `main.rs`) | the same rows | the operator's commands | run beside workers |
| **Rendering, retrieve, verify, http, project, runner, probe, dashboard, gui** | none of their own | pure functions, queries, display | - |

What makes the system correct:

* a claim is exclusive: the row, the attempt and the lock agree on who works, whoever dies;
* the document on disk, the one the row records and the one in git can disagree only in the way
  the next worker repairs;
* "archived" covers everything the hooks have reported, is never said of a placeholder, and is
  taken back only by new evidence;
* a park is earned, and only new evidence or the operator lifts it;
* evidence is served in the end, and a claim is released in the end;
* no more sessions are summarized at once, and no more calls are made, than the policy says;
* a summary is of every event of its session, and the deltas of a session add up;
* what is recorded as delivered, mirrored or uploaded is what the other side holds;
* a restore places the archived bytes and touches no conversation that is alive;
* a command that was acknowledged is not undone by another, and files of others are left alone.

## 2. Modules

| Module | Models |
|---|---|
| `SessionRow` | one row of `sessions`, and each SQL `UPDATE` as an operator from row to row |
| `ArchiveWorker` | hooks, sweep, operator and worker over the rows, the Markdown and the git history |
| `SessionPromise` | what the pipeline promises for a session, abstractly; `ArchiveWorker` implements it |
| `SummarizerBudget` | the call budget under racing workers |
| `ChunkedSummary` | one summarization in requests, over `SummarizerBudget` |
| `TranscriptRecords` | what one record of a transcript is classified as, for three harnesses |
| `TranscriptLoad` | loads, deltas and verdicts over a transcript made of such records, and its upload |
| `NotesmithVault` | the vault behind `HttpNotesmithSink`: notes, whole-tree commits, lost answers |
| `SummaryDelivery` | `deliver_one` and the table `deliveries` over the vault |
| `MemorySync` | the mirror of memory directories over the vault |
| `VaultClients` | delivery and memory sync composed on one vault |
| `ArchiveUpload` | `upload_one`, `archive_uploads`, the server, and the operator's repairs |
| `Restore` | a restore of one session beside the worker and the harness |
| `Registration` | configuration, hooks, settings and legacy files under two processes |
| `MCArchiveWorker`, `MCSummarizerBudget`, `MCChunkedSummary`, `MCVaultClients` | instances for TLC: symmetry, limits as functions, paths |
| `ArchiveWorker_proofs`, `ArchiveRecord_proofs`, `ChunkedSummary_proofs`, `TranscriptLoad_proofs`, `VaultClients_proofs`, `ArchiveUpload_proofs`, `Restore_proofs`, `Registration_proofs` | the theorems of section 6 |

`ArchiveWorker` extends `SessionRow`; `ChunkedSummary` extends `SummarizerBudget`;
`SummaryDelivery` and `MemorySync` extend `NotesmithVault` and meet in `VaultClients`;
`TranscriptLoad` extends `TranscriptRecords`. The modules of the other components take what the
archive pipeline gives them (a revision recorded, a Markdown re-rendered) as a step of their
environment.

A `_proofs` module extends the module it is about; `ArchiveRecord_proofs` goes on from
`ArchiveWorker_proofs`, which starts with what each SQL statement of `SessionRow` keeps, and
`ChunkedSummary_proofs` begins with the budget of `SummarizerBudget`.

### SessionRow, ArchiveWorker and SessionPromise

*One step per transaction or file write.* SQLite transactions are `BEGIN IMMEDIATE`, so each is
one action, with the reservation a hook or a sweep makes in the same transaction. Reading the
list of stale sessions (`SweepBegins`) and marking one of them (`SweepStale`) are two steps,
since the code reads the lists first; so are the operator's look for a lost transcript
(`SettleChecks`) and its settlement (`SettleLost`). A worker is a program counter, `w[s].pc`, and
the actions named after its phases: `WorkerStarts` (lock and hydration), `Reconcile`, `Recommit`,
`Abandon`, `Lift`, `Gate`, `Claim`, `Load`, `Summarize`, `StorePlan`, `RecordVerdict`, `Replace`,
`Commit`, `Complete`, `Settle`. `w[s].pc # "idle"` is the flock: `WorkerDies` drops it with the
process at any point, and `WorkerFindsLockBusy` is the second worker.

*Variables.* `row` is the table `sessions`, `open` the open rows of `processing_attempts`, `seen`
the recovery evidence of `source_observations`, `file` the Markdown, `gitlog` the commits, `tx` the
transcript, `spawned` the launched processes, `worklist` the lists of the sweep (stale, unresolved
and stuck rows) and of settle-lost; what is marked is checked again in its transaction. `evidence`
and `judged` are history: the transcript version at the last evidence recorded, and the version the
last not-archive-worthy verdict looked at.

*Data.* A transcript is a version number, so a document is a revision, the version it covers and
whether it is a placeholder. Hashes compare documents, so equality of documents stands for them. A
claim token is the id of its attempt. `next_retry_at_ms` is due, later or parked;
`worker_spawned_at_ms` is none, fresh or stale; a lease is live or not. The passing of time is then
`BackoffElapses`, `ReservationGoesStale` and `LeaseExpires`. A lease does not expire under the
worker that holds it unless the run is chunked or an override file allows its calls more time than
the configuration (`"overrun"` in `Env`): it is the configured timeout of one call and a minute.
`interrupted` and `summary-pending` are treated alike by every guard modelled here and share a
value.

*The constant `Env`* says which external outcomes may happen: a hook that commits late or without
a transcript, a summarizer that times out, refuses or meets its input limit, a write or a commit
that fails, a launch that fails, an operator, a transcript lost and restored, and so on. A run
names those that matter to its question; the theorems hold for every subset.

*`SessionPromise`* has three variables per session: `evidence`, the recorded `doc`, and whether it
is `said` to be archived. Two actions: evidence is reported, which withdraws what was said; or the
archive advances by the rules of `Supersedes`, and may be said complete only as a real summary
over all the evidence. The refinement maps `doc` to the row's document and `said` to the lifecycle
"archived". Under it lie the claims, leases, plans, crashes and reconciliations, and it excludes
more than the invariants: no step may take "archived" back but new evidence.

### SummarizerBudget and ChunkedSummary

`reserve_summarizer_call` takes `now_ms` as an argument, so a reading may be older than one that
committed before it: `ReadClock` and `Reserve` are two steps and `Skew` bounds how late a reading
may commit. `Kept` is the prune, `Spent` the count with its inclusive bound. The assumption
`Day + Skew <= PruneWindow` is the code's margin: it prunes at 25 hours, the longest window is 24,
and its wait for the write lock is 250 ms. A machine suspended between the reading and the
transaction for more than an hour would break it.

`ChunkedSummary` runs `summary.rs` over it: a session small enough is one request, a larger one is
cut into chunks of its events, the summaries are grouped under the same threshold and reduced round
by round, and each request is charged by `Reserve` first. A summary is its size and the span of
events it is of, which is what `EveryEventOnce` is about; one made of summaries whose spans do not
follow one another is of none (`Broken`). The code lists the ranges of a pass before it, from sizes
that do not change; the model finds each when its turn comes (`RangeEnd`), and the check that a pass
of reductions makes fewer groups than summaries is that some range holds two (`Shrinks`).

### TranscriptRecords and TranscriptLoad

`TranscriptRecords` gives the class of a record and the kinds of its events as `classify.rs` does;
`TranscriptLoad` is the file as a sequence of records, torn records and newlines, under the load
modes of `source.rs`, the worthiness and exhaust tests of `process_claim`, and the artifacts and
claim tickets of `patwari.rs`. The harness writes, tears and rewrites; munshi may be upgraded, its
extraction threshold changed, its database rebuilt.

### NotesmithVault, SummaryDelivery, MemorySync, VaultClients

A request may take effect and lose its answer. A commit stages the whole tree, a commit with
nothing to stage is a no-op, and `Correlate` is the search of the history for the exact message.
Runs select their candidates first and then act on the records they selected; a row is overwritten
by each outcome. `overlaps` counts the runs that began while another was at work: two of the
properties hold while clients take turns and say so. `VaultClientsAssumption` is what keeps the
commits of different writers apart: the message of a delivery begins `munshi: ` and that of a pass
`munshi memory ` (`munshi/delivery.rs:732`, `munshi/memory_sync.rs:401`), and the vault's user edits
a note of their own.

A memory directory is the sequence of the contents it has had: the code sees the last and compares
contents (their hashes), so one that returns is the same; a row and a pass remember the place in the
sequence they took a hash or a file from. `again` is history: the message of the commit was in the
log before the pass came to commit. `MaxNews` bounds revisions and contents together.

### ArchiveUpload

The row of `archive_uploads`, the uploads and snapshots of the server, and `job`, the holder of the
session lock. The server may restart a capture, lose a snapshot, lose an answer; a worker may die
between any two requests; the archive may move on to a new revision or re-render its Markdown at
the same one. `cleared` counts the times a row's identity was deliberately forgotten.

### Restore

`snaps` are the snapshots of the server, `disk` the archive directory, `home` the harness's
transcript, `row` the record imported, `run` the process. Answers may be the archived bytes, others
or none; the worker, the harness and the machine go on meanwhile. The worker is in steps
(`WorkerLoads`, `WorkerPlaces`, `WorkerArchives`): it takes the revision it will write from the row
as it is when it loads, and records it whatever the row says by then. `run.alone` says that none
has written since the run began.

### Registration

`config` with its homes and sections, `copilot` and `settings` as the hook files, `legacy`, and a
program counter per process, with the registration lock. `acked` is what commands have been
acknowledged for, `wanted` what others have put into `settings.json`, `strays` the hooks whose home
is knowingly off the record, `overtaken` the processes that had checked the hook file when a foreign
one was put there. The check and the write of the hook file are steps of their own: it is placed
where there was none (`PlaceCopilot`, which fails where there is one by then), renamed over the old
one (`ReplaceCopilot`) or unlinked (`UnlinkCopilot`), and others may write it at any step.

Two rules of use are assumed. Nobody writes `settings.json` between munshi's read and write of it
(registration is run with no active Claude Code session). An older version of munshi leaves a file
only where there is none and not while the files are imported (`LegacyWrites`); section 5 says what
would happen otherwise.

## 3. Runs

The runs say `CHECK_DEADLOCK FALSE`: what is archived, delivered, uploaded, restored or registered
has nothing left to do, and the bounds stop the environment. `budget` checks deadlock (a
reservation can always be made or given up).

| Run | Question | Bounds |
|---|---|---|
| `evidence` | does "archived" cover all evidence, whenever it commits, and is the promise kept? | 1 session, 2 versions, 3 generations, 3 attempts, 1 crash; late hooks, lost launches, vanishing and exhaust transcripts, retries |
| `outcomes` | do claim, file, row and git history agree, are parks earned, are placeholders kept apart, and is the promise kept? | 1 session, 2 versions, 2 generations, git history on, threshold 2, 2 crashes, every failure class, forced retries |
| `capacity` | does the concurrency cap hold when no run outlives its lease? | 2 sessions, cap 1, 1 crash |
| `served` | is evidence served and every claim released in the end? | 1 session, 3 generations, 1 crash, lost launches, transcripts lost, settled and restored |
| `budget` | does every rolling window stay within the budget? | 2 projects, 2 workers, limits 1 and 2, windows 1 and 3, prune 4, skew 1, clock to 7 |
| `summaries` | is an accepted summary of every event, and do the reductions end? | 2 workers, 3 events of sizes 1 and 3, chunks of 3, input limit 4 |
| `vault` | is what is recorded delivered or mirrored in the vault? | 2 processes, 1 session with up to 2 revisions, 1 directory with 2 contents held up to 3 times in turn (4 revisions and contents in all), 1 fault, 1 overlap; processes and contents interchangeable |
| `upload` | is each revision uploaded once, recorded only when held, and settled? | 2 revisions, 3 renderings, 2 faults, 2 attempts |
| `restore` | is what a restore places the archived bytes, and exit 0 the whole record? | 3 revisions, 2 snapshots, 1 run, 1 fault; a machine that lost everything, or in use and restored before or not |
| `transcript` | do deltas add up, and is what is archived the operator's? | 6 tokens, 3 harnesses, 1 rewrite, rebuild or upgrade |
| `registration` | does what was acknowledged survive, and what belongs to others? | 2 processes, 2 homes, 1 project, 3 commands, 1 edit, 1 crash |
| `doc_upload_lags` | section 5 | as `upload` |

*Why the bounds are enough.* Sessions meet only in the concurrency cap and in the vault's commits,
so one session shows every interleaving of its own actors and two show the cap. Two transcript
versions distinguish "covers" from "does not cover". Three generations allow evidence before, under
and after a claim. A park threshold of 2 keeps a first failure, a repeated one and a park apart.
Three open attempts let a leaked one be followed by a claim and by its reconciliation; ids are
reused once no open attempt has them. Two crashes break a recovery from a crash. The budget's clock
runs past a full prune window from a charged call, with every start of a window inside it. Three
events are chunked alone, in pairs and with one that fills a chunk, and their summaries take two
rounds. Three contents in turn, of two kinds, let a directory change under a pass and return. Two
revisions distinguish a receipt from a stale one. For a restore it takes a third: with two no worker
can start from a revision older than the one restored, and the run hid that it may write its own
over it; the states an earlier restore leaves are initial states there. Six tokens hold a request,
an answer, a tool's result and a boundary before or after each newline.

*Every action fires* in some passing run.

*Fairness* (`served` and `upload`). A worker that runs keeps making progress unless it dies: a weak
condition on its steps, since it is one sequential program and its calls have timeouts. Time
passes, so backoffs, reservations and leases run out. A sweep follows every hook and every tick of
the scheduler (`munshi tick`, `contrib/launchd`), so the sweep keeps starting, and reaches each
session it listed; these are strong conditions for the marks, the reactivations, the reservations
and the uploads, because a worker or a hook disables them for a while. Nothing is assumed of the
agent, of its hooks, or of the operator, and nothing makes a crash stop happening except its bound.

`served` leaves out the outcomes that break the property: `"input-limit"`, `"phantom"` and
`"exhaust"` (the placeholder verdict's leak and the unworthy verdict of section 5), and
`"late-hooks"`. In the last a stop hook that commits after its session's end, with the older
timestamp of its own turn, sets `active` and leaves `last_agent_stop_ms` before
`last_session_end_ms`; `stale_known_sessions` asks for the opposite order, so nothing looks at the
row until its next hook. It leaves out `"operator"`: retries are not needed for it. Both properties
are about transcripts that are there: a session whose agent stopped under a dead worker, and whose
transcript is then gone for good, keeps its claim, since the stale sweep passes over it.

## 4. Properties

* `ArchivedCoversEvidence`: the transcript version of an archived row is at least that of the last
  evidence. The completion decides by comparing generations; a hook that commits between the load
  and the completion must turn "archived" into "revision-pending".
* `ImplementsPromise`: every step of the pipeline is a step of `SessionPromise` or none of its
  business.
* `ClaimDiscipline`, `DurableRecord`, `FileDiscipline`, `GitRecordsEveryRevision`: the agreement
  of the lock, the attempt, the row, the file and the repository.
* `ParkIsEarned`, `NeverLaundered`: failures and placeholders over sequences of attempts.
* `SummarizersWithinCap`, `BudgetHolds`, `PrunedAreOver`: the limits.
* `EvidenceIsServed`, `ClaimIsReleased`: liveness of the pipeline, settled-lost sessions included.
* `EveryEventOnce`, `CallsBounded`: a chunked summary loses, repeats and reorders nothing, and ends.
* `DeltasAddUp`, `ExhaustNeverArchived`, `OperatorAsked`, `TicketsRedeem`: what is archived and
  uploaded is what one full reading of the transcript would give, though it was read in pieces.
* `DeliveredIsCorrelated`, `DeliveredIsPreserved`, `UnchangedIsMirrored`: a row against the vault.
  The last says that the vault, and the commit on record, hold a content of the directory no older
  than the one whose hash is recorded, so that a directory not rewritten since is mirrored as it is.
* `UploadedRevisionIsHeld`, `NoDuplicateCapture`, `RearchiveIsExact`, `LiveSnapshotKept`,
  `UploadSettles`: a row against the server, and the repairs of the operator.
* `RestoredIsArchived`, `RerunIsFree`, `CleanExitIsWhole`, `HarnessKept`, `LiveTranscriptKept`: the
  disk and the harness's home against the server.
* `AcknowledgedSurvives`, `OneClient`, `HooksOnRecord`, `OthersKept`, `LegacyOnce`, `ForeignKept`:
  the files of a configuration against each other and against their owners. `ForeignKept` allows the
  loss of a foreign hook file to a process that had checked the place before the file came.

`PROJECT.json` names, for each, a plausible bug of the code under which the run fails.

## 5. Where the code and its documentation disagree

`doc_upload_lags` is a run whose counterexample is a sequence of steps the code can take: an upload
completes on the server, its record is lost, the Markdown is re-rendered at the same revision, and
the resumed upload records the old snapshot with the hash of the new Markdown. The comment at
`munshi/patwari.rs:1684` says that the hash is compared so that this does not happen.

The others were met while modelling. They have no run (an outcome left out of a run's `Env`, or an
exception stated in a property, is where each would appear):

* A worker that dies after `record_placeholder_verdict` leaves the row `failed` and parked with its
  claim token; reconciliation finds no file, and `abandon_processing` runs for `processing` rows
  only, so the claim and its attempt stay open until an operator retries. The comment promises that
  "every failure path after this point overwrites the verdict".
* If an operator does retry such a session and the retry archives the same document, the leaked
  plan matches the file while a newer claim owned the row: completing it answers `InvalidState`, and
  so does every later worker. Nor does it take an operator who waits: a worker that dies between
  the verdict and the write leaves its plan, the retry renders the same placeholder and closes its
  own attempt only (`munshi/state.rs:3857`), and from then on every worker finds the first plan on
  disk and is refused (`munshi/state.rs:3748`). No document is lost by it, as section 6 shows, but
  the session is served no more.
* A failure parks a session although a session end was committed while the attempt ran, where the
  constant's comment says new activity makes it eligible.
* A not-archive-worthy verdict overwrites a session end that committed during the attempt with
  `observed`, in the one shape `stuck_observed_sessions` excludes.
* A session end between the placeholder verdict and the file write clears the park first, and the
  placeholder then appears under a row without it.
* A chunked run outlives its lease, which is not renewed, and the cap no longer counts it.
* `lift_transcript_lost` says that no hook requeues a settled session. A resumed one is requeued by
  its next hook and may be archived; the stamp stays, and the next sweep turns "archived" into
  "failed", once (`munshi/state.rs:3142`).
* A process that dies inside a delivery leaves its row `pending`, which no automatic run selects,
  where ADR 0006:59 calls delivery-then-commit crash-safe. A note that another client's whole-tree
  commit carried is never found under its own message, until the row is a dead letter.
* A memory pass that died before its record reuses its message, and the correlation answers with
  the commit of the older content (`munshi/memory_sync.rs:775`); `UnchangedIsMirrored` leaves the
  commit of such a row out (`again`).
* A directory that is rewritten during a pass and written back after it is skipped as unchanged
  while the vault holds the content between: the pass records the hash it collected
  (`munshi/memory_sync.rs:785`) of files it reads later (`:751`), and the next compares hashes
  (`:694`). So does one that returns to the recorded content after a pass that died between its
  write and its record. For a file it cannot read any more the code counts on the next pass (`:752`);
  here the next pass does nothing, until the directory changes again.
* A newline after an unterminated last record changes the hash of the transcript and no event of
  it: no revision is made, and the upload refuses the bytes (`munshi/patwari.rs:1306`).
* `snapshot_status` takes the class of the first artifact that failed, where the table at
  `munshi/restore.rs:88` has verification outrank transport.
* `complete_attempt_inner` writes the revision its worker planned without comparing it with the
  row's: a worker that loaded before `restore --force` imported a later revision puts an older
  Markdown over the restored one and lowers the row. A clean exit therefore says so much of the
  summary and the row only where no worker wrote meanwhile (`CleanExitIsWhole`).
* `unregister` reads the homes before it takes the lock: hooks of a home registered meanwhile stay
  installed without a configuration (`munshi/registration.rs:772`).
* A foreign file put in the place of munshi's hook file between the check and the write is renamed
  over (`munshi/registration.rs:1240` and `:1228`) or unlinked (`:815` and `:816`), although every
  command refuses a file that is not its own. The place where there was none is safe: the new file
  is placed without clobbering.
* A file an older version replaced between its import and its removal would be removed unread
  (`munshi/state.rs:5121`); the freshness test at its start keeps only recent jobs out of it.
* A project's `.munshi.toml` may raise the timeout of a call (`munshi/policy.rs:151`) over
  `limits.timeout_ms`, from which the lease is computed (`munshi/hooks.rs:305`): such a run outlives
  its lease with one call, and the cap no longer counts it.

## 6. Proofs

Checked by TLAPS for every value of the constants that satisfies the named assumptions of the
modules, and from nothing else: the sets of sessions, workers, processes, clients, directories,
homes and projects may be infinite, and every bound of a run is a constant here. TLC evaluates each
assumption on a run. The assumptions are bounds (`... \in Nat`) but for these: the budget's margin
(section 2); that the paths and messages of the vault's writers are told apart
(`VaultClientsAssumption`); that no Claude home is named like Copilot's (`RegistrationAssumption`).

Every inductive invariant below was first checked by TLC as an invariant of a run.

**Pipeline: who works** (`ArchiveWorker_proofs`). `TypeOK`, `ClaimDiscipline`, `DurableRecord` and
`FileDiscipline` are proved from one inductive invariant, `IInv`: the types and, for every session,
`Good(s)`, the conjunction of the three. None is inductive alone. That the file is the recorded
document needs the file a worker found to have been reconciled (`FileDiscipline`); that the rollback
restores the recorded document needs the copy a worker kept to be that document; that abandoning the
latest attempt releases the right claim needs the row's owner to be the latest open attempt, which
holds since a claim takes an id past every open one. Each SQL statement of `SessionRow` is reduced
to one of three facts: it keeps the claim and the document (`KeepsClaim`), it ends the claim
(`EndsClaim`), or it records a document. The steps outside the session lock are then one
argument, and each step of a worker has a lemma of its own, for its own session; the others are
untouched (`OneSession`).

**Pipeline: what the record is worth** (`ArchiveRecord_proofs`). On top of `IInv`, `SInv` says of
each session how the plan of the row's owner relates to the recorded document (the next revision, or
the same one rendered again, and no placeholder over a real summary), to the evidence (it covers it,
unless the generation moved since the claim) and to the git history. From it follow
`ArchivedCoversEvidence`, `NeverLaundered`, `ParkIsEarned` and `GitRecordsEveryRevision`, and step
by step `ImplementsPromise`: each action of the worker is a step of `SessionPromise` or a stutter.
That theorem has the hypothesis `"settle" \notin Env`, because of the stamp of section 5, and
`SummarizersWithinCap` has `"overrun" \notin Env`: it counts the live leases, and a chunked run
outlives its own.

**Budget** (`ChunkedSummary_proofs`). `BudgetHolds` and `PrunedAreOver` are proved together: a
reservation that is allowed has counted every charged call of the window that ends with it, because
pruned calls lie outside every window a pending reading can still ask for, and a window that starts
elsewhere holds the new call only if that count covered it too.

**Chunked summary** (`ChunkedSummary_proofs`). `CInv` says of each run where it stands: the summaries
of a pass follow one another from the first event to the one before the next range (`Tiles`), and a
pass of reductions has merged two summaries already or will (`Merges`). So a pass ends with
summaries of all events, fewer than it began with, which gives `EveryEventOnce`; and twice the
requests made, with `Twice(L - 1)` of the `L` summaries being reduced, stay within `Twice(n)`, which
gives `CallsBounded`. What the sizes add up to is never needed: a range ends at or after its start
whatever its sizes (`RangeEndIs`). `RunsKeepToBudget` shows that `ChunkedSpec` implements the `Spec`
of `SummarizerBudget`, so the limits hold for the runs too.

**Loads** (`TranscriptLoad_proofs`). A delta is read only where the archived prefix is still there
and the rest starts on a line of its own. So the lines of the whole are those of the two parts
(`LinesJoin`), the events of the whole are those of the first and, by a bijection that shifts them,
those of the second (`CountJoins`), and what the user says first in the prefix he says first in the
whole (`FirstUserStays`). `LInv` says of the record that it is of such a proper transcript with these
counts, and of a worker that it loaded a proper transcript, or what follows the record. From it
follow `DeltasAddUp`, `ExhaustNeverArchived`, `OperatorAsked` and `TicketsRedeem`, for transcripts of
any length; the classes of the records are computed case by case for the three harnesses.

**Vault** (`VaultClients_proofs`). `VInv` has two halves. However clients race, the history only
grows, and what a client holds as its commit is an entry with exactly its message; that gives
`DeliveredIsCorrelated`. While clients take turns (`overlaps = 0`), the clean-tree check keeps what
it found until the commit, so what is committed for a session is its own document; and the document
of the newest revision, once in the history, is in the vault and committed, so committing it again
finds a clean tree and adds nothing. That gives `DeliveredIsPreserved`. For `UnchangedIsMirrored`,
the places of a directory's contents only move forward, though the contents return: a pass holds only
directories whose row is at an earlier place than the memory (`Behind`), each once, and from its file
on the vault has the content of a place between the hash collected and the memory as it is. The
commit that follows has it too, unless it is an older one found under the same message (`again`).

**Upload** (`ArchiveUpload_proofs`). The contents the server has seen say which body they are of, and
only uploads of the newest body are created, all under the captures of the row and of the job in
flight. So `NoDuplicateCapture` counts the captures of that body, against `cleared`, and
`UploadedRevisionIsHeld` follows the capture from the row to the snapshot. `RearchiveIsExact` and
`LiveSnapshotKept` are action properties, proved from the same invariant.

**Restore** (`Restore_proofs`). What the report says of an artifact stays true of its file, but for
the two files a worker writes (`ReportSound`, `WorkerSound`), and an exit code of 0 leaves no room in
the report for anything but good results (`CodeSound`). All five properties are proved,
`CleanExitIsWhole`, `HarnessKept` and `LiveTranscriptKept` as action properties.

**Registration** (`Registration_proofs`). What a command read before it took the registration lock
may be stale (`Own` says what is still known of it); what it reads under the lock stays true until
it releases it (`Holds`), because every step that writes the configuration, the hooks or the strays
is the holder's or takes the lock. Others write the hook file without it: `Warned` says that a
process about to rename over or unlink a foreign file is one that file overtook, which gives
`ForeignKept`. All six properties are proved.

**Model-checked only.** Liveness (`EvidenceIsServed`, `ClaimIsReleased`, `UploadSettles`) and what
rests on ENABLED are out of the prover's reach. So is what a fold over data computes: the library's
induction takes an operator as a parameter, which the provers cannot instantiate. (Least
counterexamples can be had without it, from the well-foundedness of the naturals, as `LeastNumber`
does; but the equations of a fold cannot.) Where a fold only counted, in `TranscriptLoad`, the model
says the cardinality instead; that the sizes of a range add up to no more than its budget
(`Total`, in `ChunkedSummary`) is in the definition of `RangeEnd` and is not stated.

## 7. Simplifications

*Pipeline.* One source and one project per session; every row has an origin; the policy gate's
outcome is a choice; subagent events, diagnostics and reports are left out; a duplicate of a hook
(same dedupe key) changes nothing in the code and is not a step. A `"worker-busy"` worker leaves its
reservation, as in the code. A transcript only grows, or vanishes and returns; a rewrite that breaks
the cursor is the outcome `"rewrite"` of a load. A transcript returns only once the operator has
looked for it. A `git commit` that reports a failure was not made (the code could also time out
after the commit exists; see the hazards). At most one launched worker that has not started yet is
tracked per session: a retry waits for none. The model releases the session lock at the completion,
the code after the deliveries and uploads that follow it. `ImplementsPromise` is checked without
settle-lost, because of the stamp of section 5.

*The others.* The header of each module lists its own. The code looks for a message in the newest
500 commits of the vault (`munshi/delivery.rs:1207`), the model in all of a history shorter than
that. Contents stand for their hashes throughout; one endpoint, one vault and one server; byte
totals, progress reports and wording are left out.

## 8. Not modelled

Purge, rebuild and origin hydration: operator commands over a database at rest; only what a rebuild
does to a cursor and its counts is in `TranscriptLoad`. The resolution of policy override files, the
discovery of transcripts in the homes of the harnesses, retrieve and verify: queries, which change
no state. Rendering, http, project identity, runner, probe, dashboard and gui: formats, process
plumbing and display. Schema migrations: sequential statements under one lock.

## 9. Plan

1. The leaked plan of section 5 as a run of its own, in place of the weakest of the present ones.
2. The git commit that takes effect although it reports a failure, and purge, as further actions of
   `ArchiveWorker`, with `ArchiveRecord_proofs` taken along.
