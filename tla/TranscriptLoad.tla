---------------------------- MODULE TranscriptLoad ----------------------------
(***************************************************************************)
(* From the transcript a harness is writing to the archived revision and    *)
(* the snapshot uploaded (crates/munshi/src/source.rs, the load and the     *)
(* verdicts of process_claim in hooks.rs, collect_artifacts in patwari.rs), *)
(* for one session.                                                         *)
(*                                                                          *)
(* The file is a sequence of tokens: a record, named by what it is, a record *)
(* torn, and the newline.  So two records may share a line, and a byte       *)
(* cursor falls before a newline or after it.                                *)
(*                                                                          *)
(* Simplified: equal content stands for an equal hash and for an unchanged  *)
(* file (an in-place edit that keeps size and time goes unseen in the code  *)
(* too); the cursor carries the prefix itself; timestamps, the file limit   *)
(* and the project are left out; the summary keeps every ticket it is shown.*)
(***************************************************************************)
EXTENDS Naturals, FiniteSetsExt, SequencesExt, TranscriptRecords

CONSTANTS
  MaxTokens,      \* bound: length of the transcript
  MaxFaults       \* bound: rewrites, rebuilds, upgrades and configuration changes

ASSUME TranscriptLoadAssumption == {MaxTokens, MaxFaults} \subseteq Nat \ {0}

VARIABLES
  source,    \* the harness
  file,      \* the transcript on disk
  limits,    \* munshi's version and settings: normalizer, threshold
  archive,   \* the archived record, its frontmatter and cursor
  counts,    \* the row's activity counts, and whether a rebuild zeroed them
  job,       \* the archival worker
  uploaded,  \* the archived revision has been uploaded
  faults     \* the bounded events that have happened

vars == <<source, file, limits, archive, counts, job, uploaded, faults>>

\* request: a summary request of munshi itself.  big: a tool result over the
\* extraction threshold when the threshold is low.
Kinds == {"request", "ask", "reply", "big"}
Torn == "torn"
NewLine == "n"
Tokens == Kinds \cup {Torn, NewLine}

\* A record of each kind, as each harness writes it.
Message(type, text) == [type |-> type, form |-> "string", text |-> text, blocks |-> <<>>]
InBlocks(type, blocks) == [type |-> type, form |-> "blocks", text |-> "missing", blocks |-> blocks]
Item(role, item) == [type |-> "response_item", role |-> role, item |-> item, text |-> "text"]
RecordOf == [
  copilot |-> [
    request |-> [type |-> "user.message", data |-> "text"],
    ask     |-> [type |-> "user.message", data |-> "text"],
    reply   |-> [type |-> "assistant.message", data |-> "text"],
    big     |-> [type |-> "tool.execution_complete", data |-> "text"]],
  claude  |-> [
    request |-> Message("user", "text"),
    ask     |-> InBlocks("user", <<"text", "other">>),
    reply   |-> InBlocks("assistant", <<"other", "text", "tool_use">>),
    big     |-> InBlocks("user", <<"tool_result">>)],
  codex   |-> [
    request |-> Item("user", "message"),
    ask     |-> Item("user", "message"),
    reply   |-> Item("assistant", "message"),
    big     |-> Item("missing", "output")]]
EventsOf(kind) == Classify(source, RecordOf[source][kind]).events

-----------------------------------------------------------------------------
(* Reading a batch of tokens.                                               *)

\* The non-empty lines, each by its first token: what count_records counts.
Lines(s) == {i \in DOMAIN s : s[i] # NewLine /\ (i = 1 \/ s[i - 1] = NewLine)}
Parses(s, i) == s[i] \in Kinds /\ (i = Len(s) \/ s[i + 1] = NewLine)
Malformed(s) == \E i \in Lines(s) : ~Parses(s, i)

\* validate_trailing_record
TornTail(s) ==
  s # <<>> /\ Last(s) # NewLine /\ ~(Len(s) \in Lines(s) /\ Parses(s, Len(s)))

\* SessionSummary, of the events of one kind.
Saying(kind, event) == {k \in DOMAIN EventsOf(kind) : EventsOf(kind)[k] = event}
Said(s, event) == UNION {{i} \X Saying(s[i], event) : i \in Lines(s)}
Count(s, event) == Cardinality(Said(s, event))
Counted(s) == [user |-> Count(s, "user"), assistant |-> Count(s, "assistant"),
               tool |-> Count(s, "tool")]
NoCounts == [user |-> 0, assistant |-> 0, tool |-> 0]
Plus(c, d) == [e \in DOMAIN c |-> c[e] + d[e]]

\* extract_outputs and elide_if_oversized; the lines that do not parse are
\* passed over.
Oversized(kind) == kind = "big" /\ limits.threshold = "low"
Extracted(s) == {s[i] : i \in {j \in Lines(s) : Parses(s, j) /\ Oversized(s[j])}}
\* find_extracted_output takes no threshold.
Redeemable(s) == {s[i] : i \in {j \in Lines(s) : Parses(s, j) /\ EventsOf(s[j]) # <<>>}}

\* opening_summary_request: of the first user event of the batch.
OpensWithRequest(s) ==
  LET users == {i \in Lines(s) : Saying(s[i], "user") # {}}
  IN  users # {} /\ s[Min(users)] = "request"

\* Mutant: tools suffice.
AnyActivity(c) == c.assistant > 0 \/ c.tool > 0
IsArchiveWorthy(c) == c.user > 0 /\ (c.assistant > 0 \/ c.tool > 0)

-----------------------------------------------------------------------------
(* load_session_update.                                                     *)

NoArchive == [rev |-> FALSE, placeholder |-> FALSE, normalizer |-> 0, prefix |-> <<>>,
              tickets |-> {}]
NoJob == [busy |-> FALSE, bytes |-> <<>>, mode |-> "none", counts |-> NoCounts, tickets |-> {}]

\* A placeholder's cursor is not used.
HasPrevious == archive.rev /\ ~archive.placeholder
Delta(s) == SubSeq(s, Len(archive.prefix) + 1, Len(s))

\* The delta starts on a line of its own.
OnBoundary(s) ==
  LET n == Len(archive.prefix)
  IN  Len(s) > n /\ n > 0 => s[n] = NewLine \/ s[n + 1] = NewLine

\* Mutant: only the length of the prefix is compared.
LongEnough(s) == Len(archive.prefix) <= Len(s) /\ OnBoundary(s)
PrefixValid(s) == IsPrefix(archive.prefix, s) /\ OnBoundary(s)

Mode(s) ==
  CASE ~HasPrevious \/ archive.normalizer # limits.normalizer -> "full"
    [] HasPrevious /\ archive.normalizer = limits.normalizer /\ ~PrefixValid(s) -> "full"
    [] OTHER -> IF Lines(Delta(s)) = {} THEN "unchanged" ELSE "delta"

Batch(s) == CASE Mode(s) = "full" -> s
              [] Mode(s) = "delta" -> Delta(s)
              [] Mode(s) = "unchanged" -> <<>>

\* Mutant: a delta's counts are taken for the whole transcript's.
OfTheBatch(s) == Counted(Batch(s))
LoadedCounts(s) ==
  IF Mode(s) = "full" THEN Counted(s) ELSE Plus(counts.of, Counted(Batch(s)))

-----------------------------------------------------------------------------
(* The harness and the machine.                                             *)

Faulty == faults < MaxFaults /\ faults' = faults + 1

Init ==
  /\ source \in Sources
  /\ file = <<>>
  /\ limits = [normalizer |-> 1, threshold |-> "low"]
  /\ archive = NoArchive /\ counts = [of |-> NoCounts, rebuilt |-> FALSE]
  /\ job = NoJob /\ uploaded = FALSE /\ faults = 0

\* The harness writes a record, all or part of it, and its newline (external).
\* What it left of one when it died is completed, or written after.
HarnessWrites ==
  /\ \/ /\ Len(file) < MaxTokens
        /\ \E t \in Tokens :
             /\ t = NewLine => file # <<>> /\ Last(file) # NewLine
             /\ IF t # NewLine /\ file # <<>> /\ Last(file) # NewLine
                THEN Faulty ELSE UNCHANGED faults
             /\ file' = Append(file, t)
     \/ \E k \in Kinds :
          /\ file # <<>> /\ Last(file) = Torn
          /\ file' = Append(Front(file), k)
          /\ UNCHANGED faults
  /\ UNCHANGED <<source, limits, archive, counts, job, uploaded>>

\* A rewrite cuts the transcript or puts another record in the place of one (external).
HarnessRewrites ==
  /\ file # <<>> /\ Faulty
  /\ \/ \E n \in 0 .. Len(file) - 1 : file' = SubSeq(file, 1, n)
     \/ \E i \in DOMAIN file, k \in Kinds :
          file[i] \in Kinds \ {k} /\ file' = [file EXCEPT ![i] = k]
  /\ UNCHANGED <<source, limits, archive, counts, job, uploaded>>

\* import_archive_record, on a database lost: the frontmatter has no counts.
RebuildState ==
  /\ archive.rev /\ job = NoJob /\ Faulty
  /\ counts' = [of |-> NoCounts, rebuilt |-> TRUE]
  /\ UNCHANGED <<source, file, limits, archive, job, uploaded>>

\* A new version of munshi, or another extraction threshold.
MunshiChanges ==
  /\ job = NoJob /\ Faulty
  /\ \/ limits' = [limits EXCEPT !.normalizer = @ + 1]
     \/ limits' = [limits EXCEPT !.threshold = IF @ = "low" THEN "high" ELSE "low"]
  /\ UNCHANGED <<source, file, archive, counts, job, uploaded>>

-----------------------------------------------------------------------------
(* The worker.                                                              *)

\* load_session_update, and the verdicts of process_claim on what it loaded.
Refused(s) ==
  \/ Malformed(Batch(s))
  \/ Mode(s) = "unchanged"
  \/ Mode(s) = "full" /\ OpensWithRequest(s)
  \/ (Mode(s) = "full" \/ ~archive.rev) /\ ~IsArchiveWorthy(LoadedCounts(s))

\* A transcript that changes while it is read, or is torn at its end, is left
\* for later, and one refused is settled: neither changes a thing here.
LoadSession ==
  /\ job = NoJob /\ ~TornTail(file) /\ ~Refused(file)
  /\ job' = [busy |-> TRUE, bytes |-> file, mode |-> Mode(file),
             counts |-> LoadedCounts(file), tickets |-> Extracted(Batch(file))]
  /\ UNCHANGED <<source, file, limits, archive, counts, uploaded, faults>>

\* verify_unchanged, then the revision is rendered and recorded; `floored` is
\* the placeholder of a summarizer that fails for good.
Archived(floored) ==
  [rev |-> TRUE, placeholder |-> floored, normalizer |-> limits.normalizer,
   prefix |-> job.bytes,
   tickets |-> CASE floored -> {}
                 [] ~floored /\ job.mode = "delta" -> archive.tickets \cup job.tickets
                 [] OTHER -> job.tickets]
ArchiveSession(floored) ==
  /\ job.busy /\ file = job.bytes
  /\ archive' = Archived(floored)
  /\ counts' = [of |-> job.counts, rebuilt |-> counts.rebuilt /\ job.mode # "full"]
  /\ job' = NoJob /\ uploaded' = FALSE
  /\ UNCHANGED <<source, file, limits, faults>>
ChangedSince ==
  /\ job.busy /\ file # job.bytes
  /\ job' = NoJob
  /\ UNCHANGED <<source, file, limits, archive, counts, uploaded, faults>>

\* collect_artifacts: the transcript is the archived one, or no upload.
UploadSnapshot ==
  /\ archive.rev /\ ~uploaded /\ file = archive.prefix
  /\ uploaded' = TRUE
  /\ UNCHANGED <<source, file, limits, archive, counts, job, faults>>

Worker == LoadSession \/ ChangedSince \/ \E floored \in BOOLEAN : ArchiveSession(floored)
Next == HarnessWrites \/ HarnessRewrites \/ RebuildState \/ MunshiChanges
        \/ Worker \/ UploadSnapshot

Spec == Init /\ [][Next]_vars

-----------------------------------------------------------------------------
(* Properties.                                                              *)

\* The variables have their types, and nothing is archived without a cursor.
TypeOK ==
  /\ source \in Sources
  /\ \A s \in {file, archive.prefix, job.bytes} :
       Len(s) <= MaxTokens /\ \A i \in DOMAIN s : s[i] \in Tokens
  /\ limits.threshold \in {"low", "high"}
  /\ archive.rev <=> archive.prefix # <<>>
  /\ job.busy <=> job.bytes # <<>>
  /\ job.mode \in {"none", "full", "delta"}
  /\ uploaded => archive.rev
  /\ faults \in 0 .. MaxFaults

\* However many deltas built it, the archived record counts what one full load
\* of the bytes under its cursor would (but for a row a rebuild made).
DeltasAddUp ==
  archive.rev /\ ~counts.rebuilt =>
    ~Malformed(archive.prefix) /\ counts.of = Counted(archive.prefix)

\* A transcript whose first user message is munshi's own request is never
\* archived, whichever loads saw which part of it.
ExhaustNeverArchived == archive.rev => ~OpensWithRequest(archive.prefix)

\* What is archived has a request the operator made: results of tools that
\* come back in user records are none.
OperatorAsked ==
  archive.rev => \E i \in DOMAIN archive.prefix : archive.prefix[i] = "ask"

\* Every claim ticket of an archived summary redeems from the transcript under
\* its cursor, which is the one uploaded, whatever was rewritten in between.
TicketsRedeem == archive.tickets \subseteq Redeemable(archive.prefix)
=============================================================================
