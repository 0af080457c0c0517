---------------------------- MODULE ChunkedSummary ----------------------------
(***************************************************************************)
(* One summarization of a session (crates/munshi/src/summary.rs, and        *)
(* reserve_call in hooks.rs), over the budget of SummarizerBudget: in one   *)
(* request when it is small enough, else a request for each chunk of its    *)
(* events and reductions of the summaries to one.  Every request is charged *)
(* before it is sent; a refused charge ends the run, and the next one       *)
(* starts with the first chunk again.                                       *)
(*                                                                          *)
(* Sizes are small numbers, the envelope of a request is one; a summary is  *)
(* its size and the run of events it is of.  The previous summary of a      *)
(* revision counts in the one-shot request and in the last reduction.  The  *)
(* ranges of a pass, which the code lists before it, are found one by one.  *)
(***************************************************************************)
EXTENDS SummarizerBudget, FiniteSetsExt, SequencesExt

CONSTANTS
  EventSizes, SummarySizes, PreviousSizes,
  MaxEvents,        \* bound: events of a session
  ChunkThreshold,   \* chunking.chunk_threshold_bytes
  ChunkSize,        \* chunking.chunk_size_bytes
  InputLimit        \* max_input_bytes

ASSUME ChunkedSummaryAssumption ==
  /\ EventSizes \cup SummarySizes \cup PreviousSizes \subseteq Nat
  /\ {MaxEvents, ChunkThreshold, ChunkSize, InputLimit} \subseteq Nat

VARIABLES
  run    \* the run of each worker

runVars == <<vars, run>>

Envelope == 1

\* The events first .. last, or none that a summary could be of in order.
Span(first, last) == [first |-> first, last |-> last]
Broken == Span(0, 0)

\* at: where the next range starts, of events or of summaries; last: the
\* summaries of the pass before; next: those of this pass; size: of the request
\* about to be sent; calls: the requests charged.
NoRun == [pc |-> "idle", project |-> CHOOSE p \in Projects : TRUE, events |-> <<>>,
          previous |-> 0, at |-> 1, last |-> <<>>, next |-> <<>>, phase |-> "none",
          size |-> 0, calls |-> 0, result |-> Broken]

ChunkedInit == Init /\ run = [m \in Workers |-> NoRun]

Become(m, r) == run' = [run EXCEPT ![m] = r]

-----------------------------------------------------------------------------
(* Sizes and ranges.                                                        *)

Total(sizes) == FoldLeft(LAMBDA a, b : a + b, 0, sizes)

\* chunk_event_ranges and group_summary_ranges: a range goes on while the next
\* fits (sizes are not negative); one too large has a range of its own.
RangeEnd(sizes, i, budget) ==
  Max({i} \cup {j \in i .. Len(sizes) : Total(SubSeq(sizes, i, j)) <= budget})

Target(threshold, size) == IF size < threshold THEN size ELSE threshold

Sizes(summaries) == [i \in DOMAIN summaries |-> summaries[i].size]
ReduceSize(summaries, previous) == Envelope + Total(Sizes(summaries)) + previous
\* saturating_sub
GroupBudget == IF ChunkThreshold > Envelope THEN ChunkThreshold - Envelope ELSE 0

-----------------------------------------------------------------------------
(* The run.                                                                 *)

\* plan_summary_input, of the measured one-shot request.
OneShotSize(r) == Envelope + Total(r.events) + r.previous
Strategy(r) ==
  CASE OneShotSize(r) > ChunkThreshold -> "chunked"
    [] OneShotSize(r) <= ChunkThreshold /\ OneShotSize(r) > InputLimit -> "input-limit"
    [] OTHER -> "one-shot"

\* What a pass is over, and the range of the next request.
Items(r) == IF r.phase = "chunk" THEN r.events ELSE Sizes(r.last)
Budget(r) == IF r.phase = "chunk" THEN Target(ChunkThreshold, ChunkSize) ELSE GroupBudget
End(r) == RangeEnd(Items(r), r.at, Budget(r))

\* Each chunk carries the summary of the one before.
Carried(r) == IF r.next = <<>> THEN 0 ELSE Last(r.next).size
RequestSize(r) ==
  CASE r.phase = "chunk" -> Envelope + Total(SubSeq(r.events, r.at, End(r))) + Carried(r)
    [] r.phase = "group" -> ReduceSize(SubSeq(r.last, r.at, End(r)), 0)
    [] r.phase = "reduce" -> ReduceSize(r.last, r.previous)
    [] r.phase = "complete" -> OneShotSize(r)

Fits(r) == RequestSize(r) <= ChunkThreshold

\* The unchunkable verdict and every other failure: no partial summary.
Prepared(r) ==
  IF Fits(r) THEN [r EXCEPT !.pc = "reserve", !.size = RequestSize(r)] ELSE NoRun

\* Mutant: a pass that groups nothing is made all the same.
ShrinksAlways(sizes) == TRUE
\* groups.len() < summaries.len(): some range holds two.
Shrinks(sizes) == \E i \in DOMAIN sizes : RangeEnd(sizes, i, GroupBudget) > i

\* The loop of reductions, over the summaries of the pass that is done.
Reduced(r) ==
  LET turn == [r EXCEPT !.last = r.next, !.next = <<>>, !.at = 1]
  IN  IF ReduceSize(r.next, r.previous) <= ChunkThreshold
      THEN Prepared([turn EXCEPT !.phase = "reduce"])
      ELSE IF Len(r.next) < 2 \/ ~Shrinks(Sizes(r.next)) THEN NoRun
      ELSE Prepared([turn EXCEPT !.phase = "group"])

\* process_claim: a session of some events, perhaps a revision.
StartRun(m) ==
  /\ run[m].pc = "idle"
  /\ \E p \in Projects, events \in BoundedSeq(EventSizes, MaxEvents), prev \in PreviousSizes :
       LET r == [NoRun EXCEPT !.project = p, !.events = events, !.previous = prev]
       IN  /\ events # <<>>
           /\ Strategy(r) # "input-limit"
           /\ LET phase == IF Strategy(r) = "one-shot" THEN "complete" ELSE "chunk"
              IN  Become(m, Prepared([r EXCEPT !.phase = phase]))
  /\ UNCHANGED vars

\* reserve_call: the clock, then the charge; a refusal defers the session.
ReadsClock(m) ==
  /\ run[m].pc = "reserve"
  /\ ReadClock(m, run[m].project)
  /\ UNCHANGED run

Reserves(m) ==
  /\ run[m].pc = "reserve"
  /\ \E r \in pending :
       /\ r.worker = m
       /\ Reserve(r)
       /\ IF charged' = charged THEN Become(m, NoRun)
          ELSE Become(m, [run[m] EXCEPT !.pc = "send", !.calls = @ + 1])

ReserveFails(m) ==
  /\ run[m].pc = "reserve"
  /\ \E r \in pending : r.worker = m /\ GivesUp(r)
  /\ Become(m, NoRun)

\* Mutant: the chunks of a pass are taken for its result, out of order.
Prepended(next, summary) == <<summary>> \o next
Appended(next, summary) == Append(next, summary)

\* What the request is of: events, or the events of the summaries in it.
Joined(parts) ==
  IF \A i \in 1 .. Len(parts) - 1 : parts[i + 1].of.first = parts[i].of.last + 1
  THEN Span(Head(parts).of.first, Last(parts).of.last) ELSE Broken
CoversOf(r) ==
  CASE r.phase = "chunk" -> Span(r.at, End(r))
    [] r.phase = "group" -> Joined(SubSeq(r.last, r.at, End(r)))
    [] r.phase = "reduce" -> Joined(r.last)
    [] r.phase = "complete" -> Span(1, Len(r.events))

\* run_summary: the summarizer fails, or answers with a summary.
Answered(r, summary) ==
  IF r.phase \in {"reduce", "complete"}
  THEN [r EXCEPT !.pc = "done", !.result = summary.of]
  ELSE LET turn == [r EXCEPT !.at = End(r) + 1, !.next = Appended(@, summary)]
       IN  IF turn.at <= Len(Items(r)) THEN Prepared(turn) ELSE Reduced(turn)

RunSummary(m) ==
  /\ run[m].pc = "send"
  /\ \/ Become(m, NoRun)
     \/ \E size \in SummarySizes :
          Become(m, Answered(run[m], [size |-> size, of |-> CoversOf(run[m])]))
  /\ UNCHANGED vars

EndRun(m) ==
  /\ run[m].pc = "done"
  /\ Become(m, NoRun)
  /\ UNCHANGED vars

ChunkedNext ==
  \/ Tick /\ UNCHANGED run
  \/ \E m \in Workers : StartRun(m) \/ ReadsClock(m) \/ Reserves(m) \/ ReserveFails(m)
                           \/ RunSummary(m) \/ EndRun(m)

ChunkedSpec == ChunkedInit /\ [][ChunkedNext]_runVars

-----------------------------------------------------------------------------
(* Properties.                                                              *)

\* The summary that ends a run is of every event, once and in order, however
\* they were chunked and however often the summaries were reduced.
EveryEventOnce ==
  \A m \in Workers :
    run[m].pc = "done" => run[m].result = Span(1, Len(run[m].events))

\* A run comes to an end by itself: each pass of reductions is over fewer
\* summaries, so n events take at most 1 + (n + ... + 1) requests.
CallsBounded ==
  \A m \in Workers :
    LET n == Len(run[m].events) IN run[m].calls <= 1 + (n * (n + 1)) \div 2
=============================================================================
