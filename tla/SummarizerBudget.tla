-------------------------- MODULE SummarizerBudget --------------------------
(***************************************************************************)
(* The per-project budget of summarizer calls: reserve_summarizer_call and  *)
(* the table summarizer_calls it counts in, under the workers of several    *)
(* processes.                                                               *)
(*                                                                          *)
(* A worker reads the clock, then waits for the write lock, so its          *)
(* transaction may compare with a reading older than one that committed     *)
(* before it; the wall clock may also be set back.  Skew bounds how far     *)
(* behind the latest reading one may be when it commits.  The limits of a   *)
(* project are constant: an override file edited meanwhile is not here.     *)
(***************************************************************************)
EXTENDS Naturals, FiniteSets

CONSTANTS
  Projects, Workers,
  MaxPerHour, MaxPerDay,   \* ResolvedPolicy.max_calls_per_hour, _per_day
  Hour, Day,               \* the rolling windows
  PruneWindow,             \* PRUNE_WINDOW_MS
  Skew,                    \* how late a reading may commit
  MaxClock                 \* bound: the clock stops here

\* The prune window outlives the day by more than any reading is late: the
\* code's margin is an hour, its wait for the lock a quarter of a second.
ASSUME SummarizerBudgetAssumption ==
  /\ MaxPerHour \in [Projects -> Nat] /\ MaxPerDay \in [Projects -> Nat]
  /\ {Hour, Day, PruneWindow, Skew, MaxClock} \subseteq Nat
  /\ Hour <= Day /\ Day + Skew <= PruneWindow

VARIABLES
  clock,     \* the latest time any process has read
  pending,   \* the now_ms of the workers about to reserve
  calls,     \* the table summarizer_calls
  charged    \* history: every call ever reserved

vars == <<clock, pending, calls, charged>>

Readings == [worker : Workers, project : Projects, now : Nat]
Calls == [id : Nat, project : Projects, at : Nat]

Init == clock = 0 /\ pending = {} /\ calls = {} /\ charged = {}

\* Time passes, while no reading is left waiting for longer than Skew.
Tick ==
  /\ clock < MaxClock
  /\ \A r \in pending : clock < r.now + Skew
  /\ clock' = clock + 1
  /\ UNCHANGED <<pending, calls, charged>>

\* now_ms(), the argument of the call; the clock may have been set back.
ReadClock(m, p) ==
  /\ \A r \in pending : r.worker # m
  /\ \E now \in 0 .. clock :
       /\ clock <= now + Skew
       /\ pending' = pending \cup {[worker |-> m, project |-> p, now |-> now]}
  /\ UNCHANGED <<clock, calls, charged>>

\* The write lock stays busy past its timeout, or the worker dies.
GivesUp(r) ==
  /\ r \in pending
  /\ pending' = pending \ {r}
  /\ UNCHANGED <<clock, calls, charged>>

\* Mutants: a row is kept for a day only; a window without its first instant.
KeptForADay(now) == {c \in calls : now <= c.at + Day}
SpentStrictly(p, now, window) ==
  Cardinality({c \in calls : c.project = p /\ now < c.at + window})

\* DELETE ... WHERE called_at_ms < now - PRUNE_WINDOW_MS
Kept(now) == {c \in calls : now <= c.at + PruneWindow}

\* COUNT(*) ... WHERE project_identity = p AND called_at_ms >= now - window
Spent(p, now, window) ==
  Cardinality({c \in Kept(now) : c.project = p /\ now <= c.at + window})

\* HourlyExceeded, DailyExceeded
Exceeded(p, now) ==
  \/ Spent(p, now, Hour) >= MaxPerHour[p]
  \/ Spent(p, now, Day) >= MaxPerDay[p]

\* reserve_summarizer_call: one transaction, whatever its outcome; a refused
\* call still prunes.
Reserve(r) ==
  /\ r \in pending
  /\ pending' = pending \ {r}
  /\ \/ /\ Exceeded(r.project, r.now)
        /\ calls' = Kept(r.now)
        /\ UNCHANGED charged
     \/ /\ ~Exceeded(r.project, r.now)
        /\ LET call == [id |-> Cardinality(charged), project |-> r.project,
                        at |-> r.now]
           IN  /\ calls' = Kept(r.now) \cup {call}
               /\ charged' = charged \cup {call}
  /\ UNCHANGED clock

Next ==
  \/ Tick
  \/ \E m \in Workers, p \in Projects : ReadClock(m, p)
  \/ \E r \in pending : GivesUp(r) \/ Reserve(r)

Spec == Init /\ [][Next]_vars

-----------------------------------------------------------------------------
\* The type of every variable.
TypeOK ==
  /\ clock \in Nat
  /\ pending \subseteq Readings
  /\ calls \subseteq charged
  /\ charged \subseteq Calls

CallsIn(p, start, window) ==
  {c \in charged : c.project = p /\ start <= c.at /\ c.at <= start + window}

\* However workers race, wherever the window starts and however often the
\* table was pruned, no rolling hour and no rolling day ever holds more calls
\* of a project than its budget.
BudgetHolds ==
  \A p \in Projects, start \in 0 .. clock :
    /\ Cardinality(CallsIn(p, start, Hour)) <= MaxPerHour[p]
    /\ Cardinality(CallsIn(p, start, Day)) <= MaxPerDay[p]

\* Pruning forgets only calls that no reservation still to come will count.
PrunedAreOver ==
  \A c \in charged \ calls :
    /\ c.at + PruneWindow < clock
    /\ \A r \in pending : c.at + Day < r.now
=============================================================================
