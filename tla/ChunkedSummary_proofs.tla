------------------------ MODULE ChunkedSummary_proofs ------------------------
(***************************************************************************)
(* For every set of projects and workers, every pair of limits and every    *)
(* window: the budget holds, provided a reading is never later than the     *)
(* margin between the prune window and the day.  For every number of events *)
(* and all sizes: a summary is of each event once and in order, and a run   *)
(* ends by itself.  Each step of a run is a step of the budget.             *)
(***************************************************************************)
EXTENDS ChunkedSummary, FiniteSetTheorems, TLAPS

-----------------------------------------------------------------------------
(* The budget.                                                               *)

\* Readings and calls are of the past, and a reading is not too old to commit.
Timely ==
  /\ \A c \in charged : c.at <= clock
  /\ \A r \in pending : r.now <= clock /\ clock <= r.now + Skew

\* The inductive invariant: BudgetHolds needs that what the table forgot is
\* out of every window a pending reading can open.
IInv ==
  /\ TypeOK
  /\ IsFiniteSet(charged)
  /\ Timely
  /\ PrunedAreOver
  /\ BudgetHolds

\* A finite set grows by at most one when an element joins it.
LEMMA AddAtMostOne ==
  ASSUME NEW S, NEW x, IsFiniteSet(S)
  PROVE  /\ IsFiniteSet(S \cup {x})
         /\ Cardinality(S \cup {x}) \in Nat
         /\ Cardinality(S \cup {x}) <= Cardinality(S) + 1
<1>1. IsFiniteSet(S \cup {x})
  BY FS_AddElement
<1>2. Cardinality(S) \in Nat /\ Cardinality(S \cup {x}) \in Nat
  BY <1>1, FS_CardinalityType
<1>3. CASE x \in S
  <2>1. Cardinality(S \cup {x}) = Cardinality(S)
    BY <1>3, FS_AddElement
  <2> QED  BY <1>1, <1>2, <2>1
<1>4. CASE x \notin S
  <2>1. Cardinality(S \cup {x}) = Cardinality(S) + 1
    BY <1>4, FS_AddElement
  <2> QED  BY <1>1, <1>2, <2>1
<1> QED  BY <1>3, <1>4

\* The calls of a window can be counted.
LEMMA WindowIsFinite ==
  ASSUME IsFiniteSet(charged), NEW p, NEW start, NEW window
  PROVE  /\ IsFiniteSet(CallsIn(p, start, window))
         /\ Cardinality(CallsIn(p, start, window)) \in Nat
  BY FS_Subset, FS_CardinalityType DEF CallsIn

\* What a window holds already is counted by the reservation of a new call in
\* it: no call of the window was pruned, and each is recent enough to count.
LEMMA WindowIsSpent ==
  ASSUME IInv, NEW r \in pending, NEW start \in Nat,
         NEW window \in Nat, window <= Day,
         start <= r.now, r.now <= start + window
  PROVE  Cardinality(CallsIn(r.project, start, window))
           <= Spent(r.project, r.now, window)
<1> DEFINE counted == {c \in Kept(r.now) :
                         c.project = r.project /\ r.now <= c.at + window}
<1> USE SummarizerBudgetAssumption
<1>1. r.now \in Nat /\ charged \subseteq Calls /\ calls \subseteq charged
  BY DEF IInv, TypeOK, Readings
<1>2. ASSUME NEW c \in CallsIn(r.project, start, window)
      PROVE  c \in counted
  <2>1. c \in charged /\ c.at \in Nat /\ start <= c.at /\ c.project = r.project
    BY <1>1, <1>2 DEF CallsIn, Calls
  <2>2. r.now <= c.at + window
    BY <1>1, <2>1
  <2>3. ~(c.at + Day < r.now)
    BY <1>1, <2>1, <2>2
  <2>4. c \in calls
    BY <2>1, <2>3 DEF IInv, PrunedAreOver
  <2>5. r.now <= c.at + PruneWindow
    BY <1>1, <2>1, <2>2
  <2> QED  BY <2>1, <2>2, <2>4, <2>5 DEF Kept
<1>3. CallsIn(r.project, start, window) \in SUBSET counted
  BY <1>2
<1>4. IsFiniteSet(counted)
  <2>1. counted \in SUBSET charged
    BY <1>1 DEF Kept
  <2> QED  BY <2>1, FS_Subset DEF IInv
<1> HIDE DEF counted
<1>5. Cardinality(CallsIn(r.project, start, window)) <= Cardinality(counted)
  BY <1>3, <1>4, FS_Subset
<1> QED  BY <1>5 DEF counted, Spent

\* A call within its budget fills no window past it.
LEMMA ReservationFits ==
  ASSUME IInv, NEW r \in pending, NEW call \in Calls, call.at = r.now,
         call.project = r.project, charged' = charged \cup {call},
         NEW p \in Projects, NEW start \in Nat, NEW window \in Nat,
         window <= Day, NEW limit \in Nat,
         Cardinality(CallsIn(p, start, window)) <= limit,
         p = r.project => ~(Spent(p, r.now, window) >= limit)
  PROVE  Cardinality(CallsIn(p, start, window)') <= limit
<1> DEFINE old == CallsIn(p, start, window)
<1>0. IsFiniteSet(old) /\ Cardinality(old) \in Nat
  BY WindowIsFinite DEF IInv
<1>1. CASE p = r.project /\ start <= call.at /\ call.at <= start + window
  <2>1. CallsIn(p, start, window)' = old \cup {call}
    BY <1>1 DEF CallsIn
  <2>2. Cardinality(old) <= Spent(p, r.now, window)
    BY <1>1, WindowIsSpent
  <2>3. Spent(p, r.now, window) \in Nat
    <3>1. Kept(r.now) \subseteq charged
      BY DEF Kept, IInv, TypeOK
    <3> QED  BY <3>1, FS_Subset, FS_CardinalityType DEF Spent, IInv
  <2>4. Cardinality(old) + 1 <= limit
    BY <1>0, <1>1, <2>2, <2>3
  <2> HIDE DEF old
  <2>5. /\ Cardinality(old \cup {call}) <= Cardinality(old) + 1
        /\ Cardinality(old \cup {call}) \in Nat
    BY <1>0, AddAtMostOne
  <2> QED  BY <1>0, <2>1, <2>4, <2>5
<1>2. CASE ~(p = r.project /\ start <= call.at /\ call.at <= start + window)
  <2>1. CallsIn(p, start, window)' = old
    BY <1>2 DEF CallsIn
  <2> QED  BY <2>1
<1> QED  BY <1>1, <1>2
-----------------------------------------------------------------------------
\* The initial state satisfies the invariant.
LEMMA InitInv == Init => IInv
<1> SUFFICES ASSUME Init PROVE IInv
  OBVIOUS
<1>1. ASSUME NEW p \in Projects, NEW start, NEW window
      PROVE  Cardinality(CallsIn(p, start, window)) = 0
  <2>1. CallsIn(p, start, window) = {}
    BY DEF CallsIn, Init
  <2> QED  BY <2>1, FS_EmptySet
<1>2. BudgetHolds
  BY <1>1, SummarizerBudgetAssumption DEF BudgetHolds
<1> QED
  BY <1>2, FS_EmptySet DEF Init, IInv, TypeOK, Timely, PrunedAreOver

\* Reserving keeps the invariant: the one step that adds a call and forgets
\* others.
LEMMA ReserveInv ==
  ASSUME IInv, NEW r \in pending, Reserve(r)
  PROVE  IInv'
<1> USE SummarizerBudgetAssumption
<1> DEFINE call == [id |-> Cardinality(charged), project |-> r.project,
                    at |-> r.now]
<1>1. /\ clock \in Nat /\ clock' = clock /\ pending' \subseteq pending
      /\ pending \subseteq Readings /\ charged \subseteq Calls
      /\ calls \subseteq charged /\ r \in Readings
  BY DEF Reserve, IInv, TypeOK
<1>2. call \in Calls
  BY <1>1, FS_CardinalityType DEF Calls, Readings, IInv
<1>3. \/ charged' = charged /\ calls' = Kept(r.now)
      \/ /\ charged' = charged \cup {call} /\ calls' = Kept(r.now) \cup {call}
         /\ ~Exceeded(r.project, r.now)
  BY DEF Reserve
<1>4. TypeOK'
  BY <1>1, <1>2, <1>3 DEF TypeOK, Kept
<1>5. IsFiniteSet(charged)'
  <2> HIDE DEF call
  <2>1. IsFiniteSet(charged \cup {call})
    BY AddAtMostOne DEF IInv
  <2> QED  BY <1>3, <2>1 DEF IInv
<1>6. Timely'
  BY <1>1, <1>3 DEF IInv, Timely
<1>7. PrunedAreOver'
  <2> SUFFICES ASSUME NEW c \in charged' \ calls'
               PROVE  /\ c.at + PruneWindow < clock
                      /\ \A q \in pending : c.at + Day < q.now
    BY <1>1 DEF PrunedAreOver
  <2>1. c \in charged /\ c \notin Kept(r.now) /\ c.at \in Nat
    BY <1>1, <1>3 DEF Calls
  <2>2. CASE c \notin calls
    BY <2>1, <2>2 DEF IInv, PrunedAreOver
  <2>3. CASE c \in calls
    <3>1. c.at + PruneWindow < r.now
      BY <1>1, <2>1, <2>3 DEF Kept, Readings
    <3>2. c.at + PruneWindow < clock
      BY <1>1, <2>1, <3>1 DEF IInv, Timely, Readings
    <3>3. ASSUME NEW q \in pending
          PROVE  c.at + Day < q.now
      BY <1>1, <2>1, <3>2 DEF IInv, Timely, Readings
    <3> QED  BY <3>2, <3>3
  <2> QED  BY <2>2, <2>3
<1>8. BudgetHolds'
  <2>1. CASE charged' = charged
    BY <1>1, <2>1 DEF IInv, BudgetHolds, CallsIn
  <2>2. CASE charged' = charged \cup {call} /\ ~Exceeded(r.project, r.now)
    <3> SUFFICES ASSUME NEW p \in Projects, NEW start \in 0 .. clock
                 PROVE  /\ Cardinality(CallsIn(p, start, Hour)') <= MaxPerHour[p]
                        /\ Cardinality(CallsIn(p, start, Day)') <= MaxPerDay[p]
      BY <1>1 DEF BudgetHolds
    <3> HIDE DEF call
    <3>1. call.at = r.now /\ call.project = r.project
      BY DEF call
    <3>2. start \in Nat /\ MaxPerHour[p] \in Nat /\ MaxPerDay[p] \in Nat
      OBVIOUS
    <3>3. /\ Cardinality(CallsIn(p, start, Hour)) <= MaxPerHour[p]
          /\ Cardinality(CallsIn(p, start, Day)) <= MaxPerDay[p]
      BY DEF IInv, BudgetHolds
    <3>4. p = r.project => /\ ~(Spent(p, r.now, Hour) >= MaxPerHour[p])
                           /\ ~(Spent(p, r.now, Day) >= MaxPerDay[p])
      BY <2>2 DEF Exceeded
    <3>5. Cardinality(CallsIn(p, start, Hour)') <= MaxPerHour[p]
      BY <1>2, <2>2, <3>1, <3>2, <3>3, <3>4, ReservationFits
    <3>6. Cardinality(CallsIn(p, start, Day)') <= MaxPerDay[p]
      BY <1>2, <2>2, <3>1, <3>2, <3>3, <3>4, ReservationFits
    <3> QED  BY <3>5, <3>6
  <2> QED  BY <1>3, <2>1, <2>2
<1> QED  BY <1>4, <1>5, <1>6, <1>7, <1>8 DEF IInv

\* Every step keeps the invariant.
LEMMA StepInv == IInv /\ [Next]_vars => IInv'
<1> SUFFICES ASSUME IInv, [Next]_vars PROVE IInv'
  OBVIOUS
<1> USE SummarizerBudgetAssumption
<1>0. /\ clock \in Nat /\ pending \subseteq Readings /\ charged \subseteq Calls
      /\ calls \subseteq charged /\ IsFiniteSet(charged)
  BY DEF IInv, TypeOK
<1>1. CASE Tick
  <2>1. clock' = clock + 1 /\ UNCHANGED <<pending, calls, charged>>
    BY <1>1 DEF Tick
  <2>2. TypeOK' /\ IsFiniteSet(charged)'
    BY <1>0, <2>1 DEF TypeOK
  <2>3. Timely'
    BY <1>0, <1>1, <2>1 DEF IInv, Timely, Tick, Calls, Readings
  <2>4. PrunedAreOver'
    BY <1>0, <2>1 DEF IInv, PrunedAreOver, Calls
  <2>5. BudgetHolds'
    <3> SUFFICES ASSUME NEW p \in Projects, NEW start \in 0 .. clock + 1
                 PROVE  /\ Cardinality(CallsIn(p, start, Hour)) <= MaxPerHour[p]
                        /\ Cardinality(CallsIn(p, start, Day)) <= MaxPerDay[p]
      BY <2>1 DEF BudgetHolds, CallsIn
    <3>1. CASE start \in 0 .. clock
      BY <3>1 DEF IInv, BudgetHolds
    <3>2. CASE start = clock + 1
      <4>1. CallsIn(p, start, Hour) = {} /\ CallsIn(p, start, Day) = {}
        BY <1>0, <3>2 DEF IInv, Timely, CallsIn, Calls
      <4> QED  BY <4>1, FS_EmptySet
    <3> QED  BY <1>0, <3>1, <3>2
  <2> QED  BY <2>2, <2>3, <2>4, <2>5 DEF IInv
<1>2. ASSUME NEW m \in Workers, NEW p \in Projects, ReadClock(m, p)
      PROVE  IInv'
  <2>1. PICK now \in 0 .. clock :
          /\ clock <= now + Skew
          /\ pending' = pending \cup {[worker |-> m, project |-> p, now |-> now]}
    BY <1>2 DEF ReadClock
  <2>2. UNCHANGED <<clock, calls, charged>>
    BY <1>2 DEF ReadClock
  <2>3. TypeOK' /\ IsFiniteSet(charged)'
    BY <1>0, <2>1, <2>2 DEF TypeOK, Readings
  <2>4. Timely'
    BY <1>0, <2>1, <2>2 DEF IInv, Timely
  <2>5. PrunedAreOver'
    <3>1. ASSUME NEW c \in charged \ calls
          PROVE  c.at + PruneWindow < clock /\ c.at + Day < now
      BY <1>0, <2>1 DEF IInv, PrunedAreOver, Calls
    <3> QED  BY <2>1, <2>2, <3>1 DEF IInv, PrunedAreOver
  <2>6. BudgetHolds'
    BY <2>2 DEF IInv, BudgetHolds, CallsIn
  <2> QED  BY <2>3, <2>4, <2>5, <2>6 DEF IInv
<1>3. ASSUME NEW r \in pending, GivesUp(r)
      PROVE  IInv'
  <2>1. pending' \subseteq pending /\ UNCHANGED <<clock, calls, charged>>
    BY <1>3 DEF GivesUp
  <2> QED
    BY <1>0, <2>1 DEF IInv, TypeOK, Timely, PrunedAreOver, BudgetHolds, CallsIn
<1>4. CASE UNCHANGED vars
  BY <1>4 DEF vars, IInv, TypeOK, Timely, PrunedAreOver, BudgetHolds, CallsIn
<1> QED  BY <1>1, <1>2, <1>3, <1>4, ReserveInv DEF Next

\* The inductive invariant holds in every reachable state.
THEOREM Invariance == Spec => []IInv
BY InitInv, StepInv, PTL DEF Spec

\* No rolling hour or day of any project exceeds its budget, for any number of
\* workers and any limits.
THEOREM BudgetIsKept == Spec => []BudgetHolds
<1>1. IInv => BudgetHolds
  BY DEF IInv
<1> QED  BY <1>1, Invariance, PTL

\* Pruning forgets only what no later reservation counts.
THEOREM PruningIsSafe == Spec => []PrunedAreOver
<1>1. IInv => PrunedAreOver
  BY DEF IInv
<1> QED  BY <1>1, Invariance, PTL

-----------------------------------------------------------------------------
(* Ranges and spans.                                                         *)

\* A nonempty set of numbers has a least one.
LEMMA LeastNumber ==
  ASSUME NEW T \in SUBSET Nat, T # {}
  PROVE  \E x \in T : \A y \in T : x <= y
<1> DEFINE R == OpToRel(<, Nat)
<1>1. IsWellFoundedOn(R, Nat)
  BY NatLessThanWellFounded, Zenon
<1>2. \A x, y \in Nat : y < x => <<y, x>> \in R
  BY DEF OpToRel
<1> HIDE DEF R
<1>3. PICK x \in T : \A y \in T : ~(<<y, x>> \in R)
  BY <1>1, WFMin, Zenon
<1>4. ASSUME NEW y \in T PROVE x <= y
  <2>1. ~(y < x)
    BY <1>2, <1>3
  <2>2. x \in Nat /\ y \in Nat
    OBVIOUS
  <2> QED
    BY <2>1, <2>2
<1> QED
  BY <1>4

\* A set of numbers within a bound has a greatest one.
LEMMA MaxWithin ==
  ASSUME NEW n \in Nat, NEW S \in SUBSET (0 .. n), S # {}
  PROVE  Max(S) \in S /\ \A x \in S : x <= Max(S)
<1> DEFINE T == {n - x : x \in S}
<1>1. T \in SUBSET Nat /\ T # {}
  <2>1. \A x \in S : n - x \in Nat
    OBVIOUS
  <2>2. PICK x \in S : TRUE
    OBVIOUS
  <2>3. n - x \in T
    OBVIOUS
  <2> QED
    BY <2>1, <2>3
<1>2. PICK t \in T : \A y \in T : t <= y
  BY <1>1, LeastNumber
<1>3. PICK m \in S : t = n - m
  BY <1>2
<1>4. \A x \in S : n - m <= n - x
  BY <1>2, <1>3
<1>5. \A x \in S : m >= x
  BY <1>4
<1>6. \E x \in S : \A y \in S : x >= y
  BY <1>3, <1>5
<1> QED
  BY <1>6 DEF Max

\* A range starts where it is asked to and ends within the items.
LEMMA RangeEndIs ==
  ASSUME NEW sizes, Len(sizes) \in Nat, NEW i \in 1 .. Len(sizes), NEW budget
  PROVE  RangeEnd(sizes, i, budget) \in i .. Len(sizes)
<1> DEFINE S == {i} \cup {j \in i .. Len(sizes) : Total(SubSeq(sizes, i, j)) <= budget}
<1>1. S \in SUBSET (0 .. Len(sizes)) /\ S # {} /\ S \subseteq i .. Len(sizes)
  OBVIOUS
<1> HIDE DEF S
<1>2. Max(S) \in S
  BY <1>1, MaxWithin
<1>3. RangeEnd(sizes, i, budget) = Max(S)
  BY DEF RangeEnd, S
<1> QED  BY <1>1, <1>2, <1>3

Parts == [size : SummarySizes, of : [first : Nat, last : Nat]]

LEMMA SizesIs ==
  ASSUME NEW ps \in Seq(Parts)
  PROVE  Len(Sizes(ps)) = Len(ps) /\ DOMAIN Sizes(ps) = 1 .. Len(ps)
<1>1. DOMAIN ps = 1 .. Len(ps) /\ Len(ps) \in Nat
  OBVIOUS
<1>2. Sizes(ps) = [i \in 1 .. Len(ps) |-> ps[i].size]
  BY <1>1 DEF Sizes
<1> QED  BY <1>1, <1>2

\* Summaries whose spans follow one another.
Adjacent(ps) == \A i \in 1 .. Len(ps) - 1 : ps[i + 1].of.first = ps[i].of.last + 1

LEMMA JoinedIs ==
  ASSUME NEW ps \in Seq(Parts), Adjacent(ps),
         NEW i \in 1 .. Len(ps), NEW j \in i .. Len(ps)
  PROVE  Joined(SubSeq(ps, i, j)) = Span(ps[i].of.first, ps[j].of.last)
<1> DEFINE q == SubSeq(ps, i, j)
<1>1. /\ Len(ps) \in Nat /\ i \in Nat /\ j \in Nat
      /\ Len(q) = j - i + 1 /\ \A k \in 1 .. Len(q) : q[k] = ps[i + k - 1]
  OBVIOUS
<1> HIDE DEF q
<1>2. ASSUME NEW k \in 1 .. Len(q) - 1 PROVE q[k + 1].of.first = q[k].of.last + 1
  <2>1. q[k] = ps[i + k - 1] /\ q[k + 1] = ps[i + k]
    BY <1>1
  <2>2. i + k - 1 \in 1 .. Len(ps) - 1 /\ (i + k - 1) + 1 = i + k
    BY <1>1
  <2> QED  BY <2>1, <2>2 DEF Adjacent
<1>3. q[1] = ps[i] /\ q[Len(q)] = ps[j]
  BY <1>1
<1>4. Head(q) = q[1] /\ Last(q) = q[Len(q)]
  BY DEF Last, q
<1> QED  BY <1>2, <1>3, <1>4 DEF Joined, q

\* Summaries that are of the events 1 .. n, in order.
Tiles(ps, n) ==
  /\ ps \in Seq(Parts) /\ n \in Nat /\ Adjacent(ps)
  /\ ps = <<>> => n = 0
  /\ ps # <<>> => ps[1].of.first = 1 /\ ps[Len(ps)].of.last = n

LEMMA TilesGrow ==
  ASSUME NEW ps, NEW n, Tiles(ps, n), NEW k \in Nat, NEW size \in SummarySizes
  PROVE  Tiles(Append(ps, [size |-> size, of |-> Span(n + 1, k)]), k)
         /\ Len(Append(ps, [size |-> size, of |-> Span(n + 1, k)])) = Len(ps) + 1
<1> DEFINE p == [size |-> size, of |-> Span(n + 1, k)]
           q == Append(ps, p)
<1>1. p \in Parts /\ p.of.first = n + 1 /\ p.of.last = k
  BY DEF Parts, Span, Tiles
<1> HIDE DEF p
<1>2. /\ ps \in Seq(Parts) /\ n \in Nat /\ Len(ps) \in Nat
      /\ q \in Seq(Parts) /\ Len(q) = Len(ps) + 1 /\ q # <<>>
      /\ \A i \in 1 .. Len(ps) : q[i] = ps[i]
      /\ q[Len(ps) + 1] = p
  <2>1. ps \in Seq(Parts) /\ n \in Nat /\ Len(ps) \in Nat
    BY DEF Tiles
  <2>2. /\ q \in Seq(Parts) /\ Len(q) = Len(ps) + 1
        /\ \A i \in 1 .. Len(ps) : q[i] = ps[i]
        /\ q[Len(ps) + 1] = p
    BY <1>1, <2>1 DEF q
  <2>3. q # <<>>
    BY <2>1, <2>2
  <2> QED  BY <2>1, <2>2, <2>3
<1> HIDE DEF q
<1>3. ASSUME NEW i \in 1 .. Len(q) - 1 PROVE q[i + 1].of.first = q[i].of.last + 1
  <2>1. CASE i < Len(ps)
    <3>1. q[i] = ps[i] /\ q[i + 1] = ps[i + 1] /\ i \in 1 .. Len(ps) - 1
      BY <1>2, <2>1
    <3> QED  BY <3>1 DEF Tiles, Adjacent
  <2>2. CASE i = Len(ps)
    <3>1. q[i] = ps[i] /\ q[i + 1] = p /\ ps # <<>>
      BY <1>2, <2>2
    <3> QED  BY <1>1, <2>2, <3>1 DEF Tiles
  <2> QED  BY <1>2, <2>1, <2>2
<1>4. q[1].of.first = 1
  <2>1. CASE ps = <<>>
    BY <1>1, <1>2, <2>1 DEF Tiles
  <2>2. CASE ps # <<>>
    BY <1>2, <2>2 DEF Tiles
  <2> QED  BY <2>1, <2>2
<1>5. q[Len(q)].of.last = k
  BY <1>1, <1>2
<1> QED  BY <1>2, <1>3, <1>4, <1>5 DEF Tiles, Adjacent, q, p

-----------------------------------------------------------------------------
(* The run of a worker.                                                      *)

\* Twice 1 + ... + n.
Twice(n) == n * (n + 1)

\* The whole session is in one request.
Whole(r, made) == r.phase = "complete" /\ made = 0

\* The summaries so far are of the events before the next chunk.
Chunking(r, made) ==
  /\ r.phase = "chunk" /\ r.at \in 1 .. Len(r.events)
  /\ Tiles(r.next, r.at - 1) /\ Len(r.next) <= r.at - 1
  /\ made = Len(r.next)

\* What a pass of reductions has merged before the summary at, or still will.
Merges(r) ==
  \/ Len(r.next) < r.at - 1
  \/ \E i \in r.at .. Len(r.last) : RangeEnd(Sizes(r.last), i, GroupBudget) > i

\* The summaries so far are of the events of those before the next group.
Grouping(r, made) ==
  /\ r.phase = "group" /\ r.at \in 1 .. Len(r.last)
  /\ Tiles(r.last, Len(r.events)) /\ Len(r.last) <= Len(r.events)
  /\ Tiles(r.next, IF r.at = 1 THEN 0 ELSE r.last[r.at - 1].of.last)
  /\ Len(r.next) <= r.at - 1 /\ Merges(r)
  /\ 2 * (made - Len(r.next)) + Twice(Len(r.last) - 1) <= Twice(Len(r.events))

\* The summaries of the pass before are of all events.
Reducing(r, made) ==
  /\ r.phase = "reduce" /\ r.last # <<>> /\ Tiles(r.last, Len(r.events))
  /\ 2 * made <= Twice(Len(r.events))

\* A run on its way, with so many requests made.
OnItsWay(r, made) ==
  \/ Whole(r, made) \/ Chunking(r, made) \/ Grouping(r, made) \/ Reducing(r, made)

Finished(r) ==
  /\ r.result = Span(1, Len(r.events))
  /\ 2 * (r.calls - 1) <= Twice(Len(r.events))

\* A run of some events of a project.
Started(r) ==
  /\ DOMAIN r = DOMAIN NoRun
  /\ r.project \in Projects /\ r.calls \in Nat
  /\ r.events \in Seq(EventSizes) /\ r.events # <<>>

\* No run, or one that made so many requests in its phase.
Known(r) ==
  \/ r = NoRun
  \/ /\ Started(r)
     /\ \/ r.pc = "reserve" /\ OnItsWay(r, r.calls)
        \/ r.pc = "send" /\ r.calls # 0 /\ OnItsWay(r, r.calls - 1)
        \/ r.pc = "done" /\ r.calls # 0 /\ Finished(r)

\* The inductive invariant.
CInv == DOMAIN run = Workers /\ \A m \in Workers : Known(run[m])

-----------------------------------------------------------------------------
(* Arithmetic of passes.                                                     *)

LEMMA TwiceIs ==
  ASSUME NEW n \in Nat
  PROVE  Twice(n) \in Nat /\ (n # 0 => Twice(n) = Twice(n - 1) + 2 * n)
  BY DEF Twice

LEMMA TwiceGrows ==
  ASSUME NEW a \in Nat, NEW b \in Nat, a <= b
  PROVE  Twice(a) <= Twice(b)
<1>1. PICK d \in Nat : b = a + d
  <2>1. b - a \in Nat /\ b = a + (b - a)
    OBVIOUS
  <2> QED  BY <2>1
<1>2. Twice(b) = Twice(a) + d * (2 * a + d + 1)
  BY <1>1 DEF Twice
<1>3. d * (2 * a + d + 1) \in Nat /\ Twice(a) \in Nat
  <2>1. 2 * a + d + 1 \in Nat
    OBVIOUS
  <2> HIDE DEF Twice
  <2> QED  BY <2>1, TwiceIs
<1> QED  BY <1>2, <1>3

\* A pass over L summaries that makes K < L of them, after so many requests.
LEMMA PassIsPaid ==
  ASSUME NEW N \in Nat, NEW L \in Nat, NEW K \in Nat, K # 0, K < L,
         NEW made \in Nat, 2 * (made - K) + Twice(L - 1) <= Twice(N)
  PROVE  2 * made + Twice(K - 1) <= Twice(N)
<1>1. Twice(K) = Twice(K - 1) + 2 * K /\ Twice(K - 1) \in Nat /\ Twice(K) \in Nat
  BY TwiceIs
<1>2. Twice(K) <= Twice(L - 1) /\ Twice(L - 1) \in Nat /\ Twice(N) \in Nat
  BY TwiceIs, TwiceGrows
<1> QED  BY <1>1, <1>2

-----------------------------------------------------------------------------
(* The steps of a run.                                                       *)

LEMMA NoRunIsKnown == Known(NoRun)
  BY DEF Known

\* Preparing a request changes neither the phase nor the requests made.
LEMMA PreparedKeeps ==
  ASSUME NEW r, Started(r), OnItsWay(r, r.calls)
  PROVE  Known(Prepared(r))
<1> DEFINE q == [r EXCEPT !.pc = "reserve", !.size = RequestSize(r)]
<1>1. /\ DOMAIN q = DOMAIN r /\ q.pc = "reserve"
      /\ q.project = r.project /\ q.calls = r.calls /\ q.events = r.events
      /\ q.at = r.at /\ q.last = r.last /\ q.next = r.next /\ q.phase = r.phase
  BY ZenonT(60) DEF Started, NoRun
<1>2. Prepared(r) \in {q, NoRun}
  BY DEF Prepared
<1> HIDE DEF q
<1>3. Started(q)
  BY <1>1 DEF Started
<1>4. OnItsWay(q, q.calls)
  BY <1>1 DEF OnItsWay, Whole, Chunking, Grouping, Merges, Reducing
<1>5. Known(q)
  BY <1>1, <1>3, <1>4 DEF Known
<1> QED  BY <1>2, <1>5, NoRunIsKnown

\* The end of a pass: its summaries are of all events.
Passed(r) ==
  /\ Tiles(r.next, Len(r.events)) /\ Len(r.next) \in 1 .. Len(r.events)
  /\ 2 * r.calls + Twice(Len(r.next) - 1) <= Twice(Len(r.events))

LEMMA NothingTiles == Tiles(<<>>, 0)
  BY DEF Tiles, Adjacent

\* A pass is followed by the last reduction, by one that merges, or by none.
LEMMA ReducedKeeps ==
  ASSUME NEW r, Started(r), Passed(r)
  PROVE  Known(Reduced(r))
<1> DEFINE turn == [r EXCEPT !.last = r.next, !.next = <<>>, !.at = 1]
           final == [turn EXCEPT !.phase = "reduce"]
           group == [turn EXCEPT !.phase = "group"]
<1>1. /\ DOMAIN turn = DOMAIN NoRun
      /\ turn.project = r.project /\ turn.calls = r.calls /\ turn.events = r.events
      /\ turn.at = 1 /\ turn.last = r.next /\ turn.next = <<>>
  BY ZenonT(60) DEF Started, NoRun
<1>2. \/ Reduced(r) \in {Prepared(final), NoRun}
      \/ Reduced(r) = Prepared(group) /\ Shrinks(Sizes(r.next))
  BY DEF Reduced
<1> HIDE DEF turn
<1>3. /\ DOMAIN final = DOMAIN NoRun
      /\ final.project = turn.project /\ final.calls = turn.calls
      /\ final.events = turn.events /\ final.last = turn.last
      /\ final.phase = "reduce"
  BY <1>1, ZenonT(60) DEF NoRun
<1>4. /\ DOMAIN group = DOMAIN NoRun
      /\ group.project = turn.project /\ group.calls = turn.calls
      /\ group.events = turn.events /\ group.last = turn.last
      /\ group.at = turn.at /\ group.next = turn.next /\ group.phase = "group"
  BY <1>1, ZenonT(60) DEF NoRun
<1> HIDE DEF final, group
<1>5. Started(final) /\ Started(group)
  BY <1>1, <1>3, <1>4 DEF Started
<1>6. /\ r.next \in Seq(Parts) /\ r.next # <<>> /\ Len(r.next) \in Nat
      /\ Len(r.events) \in Nat /\ r.calls \in Nat
  BY DEF Passed, Tiles, Started
<1>7. Known(Prepared(final))
  <2>1. Twice(Len(r.next) - 1) \in Nat /\ Twice(Len(r.events)) \in Nat
    <3>1. Len(r.next) - 1 \in Nat
      BY <1>6 DEF Passed
    <3> QED  BY <1>6, <3>1, TwiceIs
  <2>2. 2 * r.calls <= Twice(Len(r.events))
    BY <1>6, <2>1 DEF Passed
  <2>3. Reducing(final, final.calls)
    BY <1>1, <1>3, <1>6, <2>2 DEF Reducing, Passed
  <2> QED  BY <1>5, <2>3, PreparedKeeps DEF OnItsWay
<1>8. ASSUME Shrinks(Sizes(r.next)) PROVE Known(Prepared(group))
  <2>1. \E i \in 1 .. Len(r.next) : RangeEnd(Sizes(r.next), i, GroupBudget) > i
    BY <1>6, <1>8, SizesIs DEF Shrinks
  <2>2. Merges(group)
    BY <1>1, <1>4, <2>1 DEF Merges
  <2>3. Len(group.next) = 0 /\ group.at = 1 /\ group.at \in 1 .. Len(group.last)
    BY <1>1, <1>4, <1>6 DEF Passed
  <2>4. 2 * (group.calls - Len(group.next)) = 2 * r.calls
    BY <1>1, <1>4, <1>6, <2>3
  <2>5. Tiles(group.next, IF group.at = 1 THEN 0 ELSE group.last[group.at - 1].of.last)
    BY <1>1, <1>4, NothingTiles
  <2>6. /\ Tiles(group.last, Len(group.events)) /\ Len(group.last) <= Len(group.events)
        /\ 2 * (group.calls - Len(group.next)) + Twice(Len(group.last) - 1)
             <= Twice(Len(group.events))
    BY <1>1, <1>4, <1>6, <2>4 DEF Passed
  <2>7. Grouping(group, group.calls)
    BY <1>4, <2>2, <2>3, <2>5, <2>6 DEF Grouping
  <2> QED  BY <1>5, <2>7, PreparedKeeps DEF OnItsWay
<1> QED  BY <1>2, <1>7, <1>8, NoRunIsKnown

LEMMA PartsTo ==
  ASSUME NEW ps, NEW n, Tiles(ps, n), NEW j \in 1 .. Len(ps)
  PROVE  ps \in Seq(Parts) /\ Len(ps) \in Nat /\ ps[j].of.last \in Nat
<1>1. ps \in Seq(Parts)
  BY DEF Tiles
<1>2. Len(ps) \in Nat /\ ps[j] \in Parts
  BY <1>1
<1> QED  BY <1>1, <1>2 DEF Parts

\* The summaries at .. E of a pass are of the events that follow those before.
LEMMA GroupIs ==
  ASSUME NEW ps, NEW n, Tiles(ps, n), NEW i \in 1 .. Len(ps), NEW j \in i .. Len(ps)
  PROVE  Joined(SubSeq(ps, i, j)) =
           Span((IF i = 1 THEN 0 ELSE ps[i - 1].of.last) + 1, ps[j].of.last)
<1>1. ps \in Seq(Parts) /\ Adjacent(ps) /\ Len(ps) \in Nat /\ ps # <<>>
  <2>1. ps \in Seq(Parts) /\ Adjacent(ps)
    BY DEF Tiles
  <2> QED  BY <2>1
<1>2. Joined(SubSeq(ps, i, j)) = Span(ps[i].of.first, ps[j].of.last)
  BY <1>1, JoinedIs
<1>3. CASE i = 1
  BY <1>1, <1>2, <1>3 DEF Tiles
<1>4. CASE i # 1
  <2>1. i - 1 \in 1 .. Len(ps) - 1 /\ (i - 1) + 1 = i
    BY <1>1, <1>4
  <2>2. ps[i].of.first = ps[i - 1].of.last + 1
    BY <1>1, <2>1 DEF Adjacent
  <2> QED  BY <1>2, <1>4, <2>2
<1> QED  BY <1>3, <1>4

\* The run after an answer that does not end it, before the next request.
Turned(q, r, s) ==
  /\ DOMAIN q = DOMAIN NoRun /\ q.project = r.project
  /\ q.calls = r.calls /\ q.events = r.events /\ q.last = r.last
  /\ q.phase = r.phase
  /\ q.at = End(r) + 1 /\ q.next = Append(r.next, s)
  /\ Answered(r, s) = IF q.at <= Len(Items(r)) THEN Prepared(q) ELSE Reduced(q)

LEMMA AnsweredIs ==
  ASSUME NEW r, Started(r), NEW s, r.phase \in {"chunk", "group"}
  PROVE  \E q : Turned(q, r, s)
<1> DEFINE q == [r EXCEPT !.at = End(r) + 1, !.next = Appended(@, s)]
<1>1. /\ DOMAIN q = DOMAIN NoRun /\ q.project = r.project
      /\ q.calls = r.calls /\ q.events = r.events /\ q.last = r.last
      /\ q.phase = r.phase /\ q.at = End(r) + 1 /\ q.next = Appended(r.next, s)
  BY ZenonT(60) DEF Started, NoRun
<1>2. Answered(r, s) = IF q.at <= Len(Items(r)) THEN Prepared(q) ELSE Reduced(q)
  BY DEF Answered
<1> HIDE DEF q
<1>3. Turned(q, r, s)
  BY <1>1, <1>2 DEF Turned, Appended
<1> QED  BY <1>3

\* The answer for a chunk is followed by the next chunk, or ends the pass.
LEMMA ChunkAnswered ==
  ASSUME NEW r, Started(r), r.calls # 0, Chunking(r, r.calls - 1),
         NEW size \in SummarySizes
  PROVE  Known(Answered(r, [size |-> size, of |-> CoversOf(r)]))
<1> DEFINE s == [size |-> size, of |-> Span(r.at, End(r))]
           N == Len(r.events)
<1>1. N \in Nat /\ r.calls \in Nat /\ r.at \in 1 .. N /\ r.phase = "chunk"
  BY DEF Started, Chunking
<1>2. CoversOf(r) = Span(r.at, End(r)) /\ Items(r) = r.events
  BY <1>1 DEF CoversOf, Items
<1>3. End(r) \in r.at .. N
  BY <1>1, <1>2, RangeEndIs DEF End
<1>4. /\ Tiles(r.next, r.at - 1) /\ Len(r.next) <= r.at - 1
      /\ Len(r.next) \in Nat /\ r.calls - 1 = Len(r.next)
  BY DEF Chunking, Tiles
<1>5. PICK q : Turned(q, r, s)
  <2> HIDE DEF s
  <2>1. r.phase \in {"chunk", "group"}
    BY <1>1
  <2> QED  BY <2>1, AnsweredIs
<1>6. Tiles(q.next, End(r)) /\ Len(q.next) = Len(r.next) + 1
  <2>1. End(r) \in Nat /\ (r.at - 1) + 1 = r.at
    BY <1>1, <1>3
  <2>2. Tiles(r.next, r.at - 1) /\ q.next = Append(r.next, s)
    BY <1>4, <1>5 DEF Turned
  <2> QED  BY <2>1, <2>2, TilesGrow
<1>7. Started(q)
  BY <1>5 DEF Started, Turned
<1> HIDE DEF s
<1>8. CASE End(r) < N
  <2>1. Chunking(q, q.calls)
    <3>1. q.at - 1 = End(r) /\ q.at \in 1 .. N /\ q.calls = Len(q.next)
          /\ Len(q.next) <= q.at - 1
      <4>1. q.at = End(r) + 1 /\ q.calls = r.calls /\ Len(q.next) = Len(r.next) + 1
        BY <1>5, <1>6 DEF Turned
      <4>2. End(r) \in Nat /\ Len(r.next) + 1 <= End(r) /\ End(r) + 1 \in 1 .. N
        BY <1>1, <1>3, <1>4, <1>8
      <4>3. r.calls = Len(r.next) + 1
        BY <1>1, <1>4
      <4> QED  BY <4>1, <4>2, <4>3
    <3>2. q.phase = "chunk" /\ q.events = r.events /\ Tiles(q.next, q.at - 1)
      BY <1>1, <1>5, <1>6, <3>1 DEF Turned
    <3> QED  BY <3>1, <3>2 DEF Chunking
  <2>2. Known(Prepared(q))
    BY <1>7, <2>1, PreparedKeeps DEF OnItsWay
  <2>3. q.at <= Len(Items(r))
    BY <1>1, <1>2, <1>3, <1>5, <1>8 DEF Turned
  <2> QED  BY <1>2, <1>5, <2>2, <2>3 DEF s, Turned
<1>9. CASE End(r) = N
  <2>1. ~(q.at <= Len(Items(r)))
    BY <1>1, <1>2, <1>5, <1>9 DEF Turned
  <2>2. Len(q.next) \in 1 .. N /\ q.calls = Len(q.next)
    <3>1. q.calls = r.calls /\ Len(q.next) = Len(r.next) + 1
      BY <1>5, <1>6 DEF Turned
    <3> QED  BY <1>1, <1>3, <1>4, <3>1
  <2>3. Twice(Len(q.next)) = Twice(Len(q.next) - 1) + 2 * Len(q.next)
        /\ Twice(Len(q.next)) <= Twice(N)
    <3>1. Len(q.next) \in Nat /\ Len(q.next) # 0 /\ Len(q.next) <= N
      BY <1>1, <2>2
    <3>2. Twice(Len(q.next)) = Twice(Len(q.next) - 1) + 2 * Len(q.next)
      BY <3>1, TwiceIs
    <3>3. Twice(Len(q.next)) <= Twice(N)
      BY <1>1, <3>1, TwiceGrows
    <3> QED  BY <3>2, <3>3
  <2>4. Len(q.next) - 1 \in Nat /\ Len(q.next) \in Nat
    BY <1>1, <2>2
  <2>5. Twice(Len(q.next) - 1) \in Nat /\ Twice(Len(q.next)) \in Nat /\ Twice(N) \in Nat
    BY <1>1, <2>4, TwiceIs
  <2>6. 2 * q.calls + Twice(Len(q.next) - 1) <= Twice(N)
    BY <2>2, <2>3, <2>4, <2>5
  <2>7. Passed(q)
    BY <1>5, <1>6, <1>9, <2>2, <2>6 DEF Passed, Turned
  <2>8. Known(Reduced(q))
    BY <1>7, <2>7, ReducedKeeps
  <2> QED  BY <1>2, <1>5, <2>1, <2>8 DEF s, Turned
<1> QED  BY <1>1, <1>3, <1>8, <1>9

\* The answer for a group is followed by the next group, or ends the pass; by
\* then the pass has merged some summaries.
LEMMA GroupAnswered ==
  ASSUME NEW r, Started(r), r.calls # 0, Grouping(r, r.calls - 1),
         NEW size \in SummarySizes
  PROVE  Known(Answered(r, [size |-> size, of |-> CoversOf(r)]))
<1> DEFINE N == Len(r.events)
           L == Len(r.last)
           n == IF r.at = 1 THEN 0 ELSE r.last[r.at - 1].of.last
           k == r.last[End(r)].of.last
           s == [size |-> size, of |-> Span(n + 1, k)]
<1>1. /\ N \in Nat /\ r.calls \in Nat /\ r.at \in 1 .. L /\ r.phase = "group"
      /\ Tiles(r.last, N) /\ L <= N /\ r.last \in Seq(Parts) /\ L \in Nat
  BY DEF Started, Grouping, Tiles
<1>2. Items(r) = Sizes(r.last) /\ Len(Items(r)) = L
  BY <1>1, SizesIs DEF Items
<1>3. End(r) \in r.at .. L /\ End(r) = RangeEnd(Sizes(r.last), r.at, GroupBudget)
  <2>1. End(r) = RangeEnd(Sizes(r.last), r.at, GroupBudget)
    BY <1>1, <1>2 DEF End, Budget
  <2> QED  BY <1>1, <1>2, <2>1, RangeEndIs
<1>4. CoversOf(r) = Span(n + 1, k)
  <2>1. CoversOf(r) = Joined(SubSeq(r.last, r.at, End(r)))
    BY <1>1 DEF CoversOf
  <2> QED  BY <1>1, <1>3, <2>1, GroupIs
<1>5. /\ Tiles(r.next, n) /\ Len(r.next) <= r.at - 1 /\ Len(r.next) \in Nat
      /\ 2 * (r.calls - 1 - Len(r.next)) + Twice(L - 1) <= Twice(N)
  BY DEF Grouping, Tiles
<1>6. PICK q : Turned(q, r, s)
  <2> HIDE DEF s
  <2>1. r.phase \in {"chunk", "group"}
    BY <1>1
  <2> QED  BY <2>1, AnsweredIs
<1>7. Tiles(q.next, k) /\ Len(q.next) = Len(r.next) + 1
  <2>1. k \in Nat
    BY <1>1, <1>3, PartsTo
  <2> HIDE DEF n, k
  <2> QED  BY <1>5, <1>6, <2>1, TilesGrow DEF Turned
<1>8. Started(q)
  BY <1>6 DEF Started, Turned
<1> HIDE DEF n, k, s
<1>9. Merges(q) /\ Len(q.next) <= q.at - 1
  <2>1. Len(r.next) + 1 <= End(r) /\ q.at - 1 = End(r)
    BY <1>1, <1>3, <1>5, <1>6 DEF Turned
  <2>2. CASE Len(r.next) + 1 < End(r)
    BY <1>1, <1>7, <2>1, <2>2 DEF Merges
  <2>3. CASE ~(Len(r.next) + 1 < End(r))
    <3>1. End(r) = r.at /\ ~(Len(r.next) < r.at - 1)
      BY <1>1, <1>3, <1>5, <2>1, <2>3
    <3>2. PICK i \in r.at .. L : RangeEnd(Sizes(r.last), i, GroupBudget) > i
      BY <3>1 DEF Grouping, Merges
    <3>3. i # r.at
      <4>1. ~(r.at > r.at)
        BY <1>1
      <4>2. RangeEnd(Sizes(r.last), r.at, GroupBudget) = r.at
        BY <1>3, <3>1, Zenon
      <4> QED  BY <3>2, <4>1, <4>2, Zenon
    <3>4. i \in q.at .. Len(q.last)
      BY <1>1, <1>6, <3>1, <3>2, <3>3 DEF Turned
    <3> QED  BY <1>6, <1>7, <2>1, <3>2, <3>4 DEF Merges, Turned
  <2> QED  BY <1>7, <2>1, <2>2, <2>3
<1>10. 2 * (q.calls - Len(q.next)) + Twice(L - 1) <= Twice(N)
  <2>1. q.calls - Len(q.next) = r.calls - 1 - Len(r.next)
    <3>1. r.calls \in Nat /\ Len(r.next) \in Nat
      BY <1>1, <1>5, Zenon
    <3>2. q.calls = r.calls /\ Len(q.next) = Len(r.next) + 1
      BY <1>6, <1>7 DEF Turned
    <3> QED  BY <3>1, <3>2
  <2> QED  BY <1>5, <2>1
<1>11. CASE End(r) < L
  <2>1. q.at \in 1 .. L /\ q.at # 1 /\ q.at - 1 = End(r)
    BY <1>1, <1>3, <1>6, <1>11 DEF Turned
  <2>2. Tiles(q.next, IF q.at = 1 THEN 0 ELSE q.last[q.at - 1].of.last)
    BY <1>6, <1>7, <2>1 DEF k, Turned
  <2>3. Grouping(q, q.calls)
    BY <1>1, <1>6, <1>9, <1>10, <2>1, <2>2 DEF Grouping, Turned
  <2>4. Known(Prepared(q))
    BY <1>8, <2>3, PreparedKeeps DEF OnItsWay
  <2>5. q.at <= Len(Items(r))
    BY <1>1, <1>2, <2>1
  <2> QED  BY <1>4, <1>6, <2>4, <2>5 DEF s, Turned
<1>12. CASE End(r) = L
  <2>1. q.at = L + 1 /\ ~(q.at <= Len(Items(r)))
    BY <1>1, <1>2, <1>6, <1>12 DEF Turned
  <2>2. k = N
    BY <1>1, <1>12 DEF k, Tiles
  <2>3. Len(q.next) < L /\ Len(q.next) \in Nat /\ Len(q.next) # 0
    <3>1. ~(\E i \in q.at .. Len(q.last) : TRUE)
      BY <1>1, <1>6, <2>1 DEF Turned
    <3>2. Len(q.next) < q.at - 1
      BY <1>9, <3>1 DEF Merges
    <3> QED  BY <1>1, <1>5, <1>7, <2>1, <3>2
  <2>4. 2 * q.calls + Twice(Len(q.next) - 1) <= Twice(N)
    BY <1>1, <1>6, <1>10, <2>3, PassIsPaid DEF Turned
  <2>5. Len(q.next) \in 1 .. N
    BY <1>1, <2>3
  <2>6. Passed(q)
    BY <1>6, <1>7, <2>2, <2>4, <2>5 DEF Passed, Turned
  <2>7. Known(Reduced(q))
    BY <1>8, <2>6, ReducedKeeps
  <2> QED  BY <1>4, <1>6, <2>1, <2>7 DEF s, Turned
<1> QED  BY <1>1, <1>3, <1>11, <1>12

\* The last answer is of every event.
LEMMA LastAnswered ==
  ASSUME NEW r, Started(r), r.calls # 0,
         Whole(r, r.calls - 1) \/ Reducing(r, r.calls - 1), NEW size
  PROVE  Known(Answered(r, [size |-> size, of |-> CoversOf(r)]))
<1> DEFINE q == [r EXCEPT !.pc = "done", !.result = CoversOf(r)]
           s == [size |-> size, of |-> CoversOf(r)]
<1>1. /\ DOMAIN q = DOMAIN NoRun /\ q.project = r.project /\ q.pc = "done"
      /\ q.calls = r.calls /\ q.events = r.events /\ q.result = CoversOf(r)
  BY ZenonT(60) DEF Started, NoRun
<1>2. Answered(r, s) = q
  <2>1. r.phase \in {"reduce", "complete"}
    BY DEF Whole, Reducing
  <2>2. s.of = CoversOf(r)
    OBVIOUS
  <2> HIDE DEF s
  <2> QED  BY <2>1, <2>2 DEF Answered
<1> HIDE DEF q, s
<1>3. Len(r.events) \in Nat /\ r.calls \in Nat
  BY DEF Started
<1>4. 2 * (r.calls - 1) <= Twice(Len(r.events))
  <2>1. Twice(Len(r.events)) \in Nat
    BY <1>3, TwiceIs
  <2> QED  BY <1>3, <2>1 DEF Whole, Reducing
<1>5. CoversOf(r) = Span(1, Len(r.events))
  <2>1. CASE Whole(r, r.calls - 1)
    BY <2>1 DEF Whole, CoversOf
  <2>2. CASE Reducing(r, r.calls - 1)
    <3>1. /\ r.last # <<>> /\ Tiles(r.last, Len(r.events))
          /\ CoversOf(r) = Joined(r.last)
      BY <2>2 DEF Reducing, CoversOf
    <3>2. r.last \in Seq(Parts) /\ r.last[Len(r.last)].of.last = Len(r.events)
      BY <3>1 DEF Tiles
    <3>3. /\ 1 \in 1 .. Len(r.last) /\ Len(r.last) \in 1 .. Len(r.last)
          /\ SubSeq(r.last, 1, Len(r.last)) = r.last
      BY <3>1, <3>2
    <3>4. Joined(SubSeq(r.last, 1, Len(r.last))) = Span(0 + 1, r.last[Len(r.last)].of.last)
      BY <3>1, <3>3, GroupIs
    <3>5. 0 + 1 = 1
      OBVIOUS
    <3> QED  BY <3>1, <3>2, <3>3, <3>4, <3>5, Zenon
  <2> QED  BY <2>1, <2>2
<1>6. Started(q) /\ Finished(q)
  BY <1>1, <1>4, <1>5 DEF Started, Finished
<1> QED  BY <1>1, <1>2, <1>6 DEF Known, s

\* Every answer leaves a run that is known, or none.
LEMMA AnswerKeeps ==
  ASSUME NEW r, Known(r), r.pc = "send", NEW size \in SummarySizes
  PROVE  Known(Answered(r, [size |-> size, of |-> CoversOf(r)]))
<1>1. Started(r) /\ r.calls # 0 /\ OnItsWay(r, r.calls - 1)
  BY DEF Known, NoRun
<1> QED  BY <1>1, ChunkAnswered, GroupAnswered, LastAnswered DEF OnItsWay

\* A run starts with its one request, or with its first chunk.
LEMMA StartKeeps ==
  ASSUME NEW p \in Projects, NEW events \in Seq(EventSizes), events # <<>>,
         NEW prev, NEW phase \in {"complete", "chunk"}, NEW r, NEW q,
         r = [NoRun EXCEPT !.project = p, !.events = events, !.previous = prev],
         q = [r EXCEPT !.phase = phase]
  PROVE  Known(Prepared(q))
<1>1. /\ DOMAIN r = DOMAIN NoRun /\ r.project = p /\ r.events = events
      /\ r.calls = 0 /\ r.at = 1 /\ r.next = <<>>
  BY ZenonT(60) DEF NoRun
<1>2. /\ DOMAIN q = DOMAIN NoRun /\ q.project = p /\ q.events = events
      /\ q.calls = 0 /\ q.at = 1 /\ q.next = <<>> /\ q.phase = phase
  BY <1>1, ZenonT(60) DEF NoRun
<1>3. Started(q)
  BY <1>2 DEF Started
<1>4. q.at \in 1 .. Len(q.events) /\ q.at - 1 = 0 /\ Len(q.next) = 0
  <2>1. Len(events) \in Nat /\ Len(events) # 0
    OBVIOUS
  <2> QED  BY <1>2, <2>1
<1>5. OnItsWay(q, q.calls)
  BY <1>2, <1>4, NothingTiles DEF OnItsWay, Whole, Chunking
<1> QED  BY <1>3, <1>5, PreparedKeeps

\* A request that is charged is one made; the answer is what is still due.
LEMMA ReserveKeeps ==
  ASSUME NEW r, Known(r), r.pc = "reserve"
  PROVE  Known([r EXCEPT !.pc = "send", !.calls = @ + 1])
<1> DEFINE q == [r EXCEPT !.pc = "send", !.calls = @ + 1]
<1>1. Started(r) /\ OnItsWay(r, r.calls)
  BY DEF Known, NoRun
<1>2. /\ DOMAIN q = DOMAIN r /\ q.pc = "send" /\ q.calls = r.calls + 1
      /\ q.project = r.project /\ q.events = r.events
      /\ q.at = r.at /\ q.last = r.last /\ q.next = r.next /\ q.phase = r.phase
  BY <1>1, ZenonT(60) DEF Started, NoRun
<1> HIDE DEF q
<1>3. q.calls \in Nat /\ q.calls # 0 /\ q.calls - 1 = r.calls
  BY <1>1, <1>2 DEF Started
<1>4. Started(q)
  BY <1>1, <1>2, <1>3 DEF Started
<1>5. OnItsWay(q, r.calls)
  BY <1>1, <1>2 DEF OnItsWay, Whole, Chunking, Grouping, Merges, Reducing
<1>6. Known(q)
  BY <1>2, <1>3, <1>4, <1>5 DEF Known
<1> QED  BY <1>6 DEF q

\* Only the run of one worker changes.
LEMMA BecomeKeeps ==
  ASSUME CInv, NEW m \in Workers, NEW r, Known(r), Become(m, r)
  PROVE  CInv'
  BY DEF CInv, Become

\* The initial state satisfies the invariant.
LEMMA ChunkedInitInv == ChunkedInit => CInv
  BY NoRunIsKnown DEF ChunkedInit, CInv

\* The step of a run keeps the invariant.
LEMMA ChunkedStepInv == CInv /\ [ChunkedNext]_runVars => CInv'
<1> SUFFICES ASSUME CInv, [ChunkedNext]_runVars PROVE CInv'
  OBVIOUS
<1>1. CASE UNCHANGED run
  BY <1>1 DEF CInv
<1>2. ASSUME NEW m \in Workers, StartRun(m) PROVE CInv'
  <2>1. PICK p \in Projects, events \in BoundedSeq(EventSizes, MaxEvents),
             prev \in PreviousSizes :
          LET r == [NoRun EXCEPT !.project = p, !.events = events, !.previous = prev]
          IN  /\ events # <<>>
              /\ LET phase == IF Strategy(r) = "one-shot" THEN "complete" ELSE "chunk"
                 IN  Become(m, Prepared([r EXCEPT !.phase = phase]))
    BY <1>2 DEF StartRun
  <2> DEFINE r == [NoRun EXCEPT !.project = p, !.events = events, !.previous = prev]
             phase == IF Strategy(r) = "one-shot" THEN "complete" ELSE "chunk"
             q == [r EXCEPT !.phase = phase]
  <2>2. events \in Seq(EventSizes)
    <3>1. PICK n \in 0 .. MaxEvents : events \in [1 .. n -> EventSizes]
      BY DEF BoundedSeq, SeqOf
    <3> QED  BY <3>1
  <2>3. Become(m, Prepared(q)) /\ events # <<>>
    BY <2>1
  <2>4. phase \in {"complete", "chunk"}
    OBVIOUS
  <2> HIDE DEF phase
  <2>5. Known(Prepared(q))
    BY <2>2, <2>3, <2>4, StartKeeps
  <2> QED  BY <2>3, <2>5, BecomeKeeps
<1>3. ASSUME NEW m \in Workers, Reserves(m) PROVE CInv'
  <2>1. \/ Become(m, NoRun)
        \/ Become(m, [run[m] EXCEPT !.pc = "send", !.calls = @ + 1])
    BY <1>3 DEF Reserves
  <2>2. Known([run[m] EXCEPT !.pc = "send", !.calls = @ + 1])
    BY <1>3, ReserveKeeps DEF Reserves, CInv
  <2> QED  BY <2>1, <2>2, NoRunIsKnown, BecomeKeeps
<1>4. ASSUME NEW m \in Workers, RunSummary(m) PROVE CInv'
  <2>1. CASE Become(m, NoRun)
    BY <2>1, NoRunIsKnown, BecomeKeeps
  <2>2. ASSUME NEW size \in SummarySizes,
               Become(m, Answered(run[m], [size |-> size, of |-> CoversOf(run[m])]))
        PROVE  CInv'
    BY <1>4, <2>2, AnswerKeeps, BecomeKeeps DEF RunSummary, CInv
  <2> QED  BY <1>4, <2>1, <2>2 DEF RunSummary
<1>5. ASSUME NEW m \in Workers, ReserveFails(m) \/ EndRun(m) PROVE CInv'
  BY <1>5, NoRunIsKnown, BecomeKeeps DEF ReserveFails, EndRun
<1> QED
  BY <1>1, <1>2, <1>3, <1>4, <1>5 DEF ChunkedNext, ReadsClock, runVars

\* The inductive invariant of the runs holds in every reachable state.
THEOREM RunsAreKnown == ChunkedSpec => []CInv
  BY ChunkedInitInv, ChunkedStepInv, PTL DEF ChunkedSpec

\* The summary that ends a run is of every event, once and in order, for any
\* number of events, any sizes and any thresholds.
THEOREM SummaryIsOfAll == ChunkedSpec => []EveryEventOnce
<1>1. CInv => EveryEventOnce
  BY DEF CInv, Known, NoRun, OnItsWay, Finished, EveryEventOnce
<1> QED  BY <1>1, RunsAreKnown, PTL

\* The requests made so far are never more than the passes still possible pay
\* for.
LEMMA CallsAreBounded ==
  ASSUME NEW r, Known(r)
  PROVE  r.calls <= 1 + (Len(r.events) * (Len(r.events) + 1)) \div 2
<1> DEFINE N == Len(r.events)
           x == N * (N + 1)
<1>1. CASE r = NoRun
  <2>1. r.calls = 0 /\ r.events = <<>>
    BY <1>1 DEF NoRun
  <2>2. x = 0
    BY <2>1
  <2> HIDE DEF x
  <2> QED  BY <2>1, <2>2 DEF x
<1>2. CASE Started(r)
  <2>1. N \in Nat /\ N # 0 /\ r.calls \in Nat
    <3>1. r.events \in Seq(EventSizes) /\ r.events # <<>> /\ r.calls \in Nat
      BY <1>2 DEF Started
    <3> QED  BY <3>1
  <2>2. x \in Nat /\ Twice(N) = x
    BY <2>1, TwiceIs DEF Twice
  <2>3. ASSUME NEW made \in Nat, OnItsWay(r, made) PROVE 2 * made <= x
    <3>1. CASE Whole(r, made) \/ Reducing(r, made)
      BY <2>2, <3>1 DEF Whole, Reducing
    <3>2. CASE Chunking(r, made)
      <4>1. made \in Nat /\ made <= N
        BY <2>1, <3>2 DEF Chunking
      <4>2. Twice(made) <= Twice(N)
        BY <2>1, <4>1, TwiceGrows
      <4>3. made # 0 => Twice(made) = Twice(made - 1) + 2 * made /\ made - 1 \in Nat
        BY <4>1, TwiceIs
      <4>4. made # 0 => Twice(made - 1) \in Nat
        BY <4>3, TwiceIs
      <4> HIDE DEF x
      <4> QED  BY <2>2, <4>1, <4>2, <4>3, <4>4
    <3>3. CASE Grouping(r, made)
      <4> DEFINE L == Len(r.last)
                 K == Len(r.next)
      <4>1. /\ L \in Nat /\ K \in Nat /\ K <= L - 1 /\ L - 1 \in Nat
            /\ 2 * (made - K) + Twice(L - 1) <= Twice(N)
        BY <3>3 DEF Grouping, Tiles
      <4> HIDE DEF L, K
      <4>2. Twice(K) <= Twice(L - 1) /\ Twice(K) \in Nat /\ Twice(L - 1) \in Nat
        BY <4>1, TwiceGrows, TwiceIs
      <4>3. K # 0 => Twice(K) = Twice(K - 1) + 2 * K /\ K - 1 \in Nat
        BY <4>1, TwiceIs
      <4>4. K # 0 => Twice(K - 1) \in Nat
        BY <4>3, TwiceIs
      <4> HIDE DEF x
      <4> QED  BY <2>2, <4>1, <4>2, <4>3, <4>4
    <3> QED  BY <2>3, <3>1, <3>2, <3>3 DEF OnItsWay
  <2>4. 2 * (r.calls - 1) <= x \/ r.calls = 0
    <3>1. CASE r.pc = "reserve" /\ OnItsWay(r, r.calls)
      <4>1. 2 * r.calls <= x
        BY <2>1, <2>3, <3>1
      <4> HIDE DEF x
      <4> QED  BY <2>1, <2>2, <4>1
    <3>2. CASE r.calls # 0 /\ OnItsWay(r, r.calls - 1)
      <4>1. r.calls - 1 \in Nat
        BY <2>1, <3>2
      <4> QED  BY <2>3, <3>2, <4>1
    <3>3. CASE Finished(r)
      BY <2>2, <3>3 DEF Finished
    <3>4. r # NoRun
      BY <2>1 DEF NoRun
    <3> QED  BY <3>1, <3>2, <3>3, <3>4 DEF Known
  <2> HIDE DEF x
  <2>5. r.calls <= 1 + x \div 2
    BY <2>1, <2>2, <2>4
  <2> QED  BY <2>5 DEF x
<1> QED  BY <1>1, <1>2 DEF Known

\* A run comes to an end by itself: n events take at most 1 + (n + ... + 1)
\* requests.
THEOREM RunsEnd == ChunkedSpec => []CallsBounded
<1>1. CInv => CallsBounded
  BY CallsAreBounded DEF CInv, CallsBounded
<1> QED  BY <1>1, RunsAreKnown, PTL

-----------------------------------------------------------------------------
(* The runs and the budget.                                                  *)

\* What a run does to the budget is a step of the budget, or none.
LEMMA StepRefines == CInv /\ [ChunkedNext]_runVars => [Next]_vars
<1> SUFFICES ASSUME CInv, [ChunkedNext]_runVars PROVE [Next]_vars
  OBVIOUS
<1>1. CASE Tick
  BY <1>1 DEF Next
<1>2. ASSUME NEW m \in Workers, ReadsClock(m) PROVE Next
  <2>1. run[m].project \in Projects
    BY <1>2 DEF ReadsClock, CInv, Known, NoRun, Started
  <2> QED  BY <1>2, <2>1 DEF ReadsClock, Next
<1>3. ASSUME NEW m \in Workers, Reserves(m) \/ ReserveFails(m) PROVE Next
  BY <1>3 DEF Reserves, ReserveFails, Next, Reserve
<1>4. ASSUME NEW m \in Workers, StartRun(m) \/ RunSummary(m) \/ EndRun(m)
      PROVE  UNCHANGED vars
  BY <1>4 DEF StartRun, RunSummary, EndRun
<1>5. CASE UNCHANGED runVars
  BY <1>5 DEF runVars
<1> QED  BY <1>1, <1>2, <1>3, <1>4, <1>5 DEF ChunkedNext

\* Whatever the runs make of their summaries, their charges are those the
\* budget allows: the detailed specification implements the budget.
THEOREM RunsKeepToBudget == ChunkedSpec => Spec
<1>1. ChunkedInit => Init
  BY DEF ChunkedInit
<1> QED  BY <1>1, StepRefines, RunsAreKnown, PTL DEF ChunkedSpec, Spec
=============================================================================
