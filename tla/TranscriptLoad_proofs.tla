------------------------- MODULE TranscriptLoad_proofs -------------------------
(***************************************************************************)
(* For transcripts of any length and any number of faults: however many     *)
(* loads built the archived record, it counts what one full load would,     *)
(* opens with a request of the operator, and redeems every ticket.          *)
(*                                                                          *)
(* The argument: a delta starts on a line of its own, so the lines of the   *)
(* whole are those of the archived prefix followed by those of the delta    *)
(* (LinesJoin).  A full load that is not refused reads a proper transcript,  *)
(* and a delta that is not refused extends a proper one.                    *)
(***************************************************************************)
EXTENDS TranscriptLoad, FiniteSetTheorems, TLAPS

\* What a record can say.
Places == 1 .. 3

\* Of the kinds of record, only a request and the operator's words are said by
\* the user, and a tool result that can be extracted has an event.
LEMMA CopilotSays ==
  ASSUME source = "copilot"
  PROVE  /\ EventsOf("request") = <<"user">> /\ EventsOf("ask") = <<"user">>
         /\ EventsOf("reply") = <<"assistant">> /\ EventsOf("big") = <<"tool">>
BY DEF EventsOf, Classify, RecordOf, ClassifyCopilot, CopilotMessages, CopilotTools, Texts,
       ValidTool, MustName, Content

LEMMA CodexSays ==
  ASSUME source = "codex"
  PROVE  /\ EventsOf("request") = <<"user">> /\ EventsOf("ask") = <<"user">>
         /\ EventsOf("reply") = <<"assistant">> /\ EventsOf("big") = <<"tool">>
BY DEF EventsOf, Classify, RecordOf, ClassifyCodex, ClassifyMessage, Item, Content

\* The blocks of a record of Claude Code that carry something.
LEMMA ClaudeSays ==
  ASSUME source = "claude"
  PROVE  /\ EventsOf("request") = <<"user">> /\ EventsOf("ask") = [i \in {1} |-> "user"]
         /\ EventsOf("reply") = [i \in {2, 3} |-> IF i = 2 THEN "assistant" ELSE "tool"]
         /\ EventsOf("big") = [i \in {1} |-> "tool"]
<1>1. EventsOf("request") = <<"user">>
  BY DEF EventsOf, Classify, RecordOf, Message, ClassifyClaude, MessageEvent, Content
<1>2. ASSUME NEW k, NEW type \in {"user", "assistant"}, NEW blocks,
             RecordOf["claude"][k] = InBlocks(type, blocks),
             NEW carrying, carrying # {},
             carrying = {i \in DOMAIN blocks : BlockEvent(type, blocks[i]) # "none"}
      PROVE  EventsOf(k) = [i \in carrying |-> BlockEvent(type, blocks[i])]
  <2> DEFINE r == RecordOf["claude"][k]
  <2>1. r.type = type /\ r.form = "blocks" /\ r.blocks = blocks
    BY <1>2 DEF InBlocks
  <2>2. EventsOf(k) = ClassifyClaude(r).events
    BY DEF EventsOf, Classify
  <2> HIDE DEF r
  <2>3. ClassifyClaude(r) = ClassifyBlocks(type, blocks)
    BY <2>1 DEF ClassifyClaude
  <2>4. ClassifyBlocks(type, blocks)
          = Content([i \in carrying |-> BlockEvent(type, blocks[i])])
    BY <1>2 DEF ClassifyBlocks
  <2> QED  BY <2>2, <2>3, <2>4 DEF Content
<1>3. EventsOf("ask") = [i \in {1} |-> "user"]
  <2> DEFINE b == <<"text", "other">>
  <2>1. DOMAIN b = {1, 2} /\ BlockEvent("user", b[1]) = "user" /\ BlockEvent("user", b[2]) = "none"
    BY DEF BlockEvent, MessageEvent
  <2>2. {1} = {i \in DOMAIN b : BlockEvent("user", b[i]) # "none"}
    BY <2>1
  <2>3. RecordOf["claude"]["ask"] = InBlocks("user", b)
    BY DEF RecordOf
  <2> HIDE DEF b
  <2>4. EventsOf("ask") = [i \in {1} |-> BlockEvent("user", b[i])]
    BY <1>2, <2>2, <2>3
  <2> QED  BY <2>1, <2>4
<1>4. EventsOf("reply") = [i \in {2, 3} |-> IF i = 2 THEN "assistant" ELSE "tool"]
  <2> DEFINE b == <<"other", "text", "tool_use">>
  <2>1. /\ DOMAIN b = {1, 2, 3} /\ BlockEvent("assistant", b[1]) = "none"
        /\ BlockEvent("assistant", b[2]) = "assistant" /\ BlockEvent("assistant", b[3]) = "tool"
    BY DEF BlockEvent, MessageEvent
  <2>2. {2, 3} = {i \in DOMAIN b : BlockEvent("assistant", b[i]) # "none"}
    BY <2>1
  <2>3. RecordOf["claude"]["reply"] = InBlocks("assistant", b)
    BY DEF RecordOf
  <2> HIDE DEF b
  <2>4. EventsOf("reply") = [i \in {2, 3} |-> BlockEvent("assistant", b[i])]
    BY <1>2, <2>2, <2>3
  <2> QED  BY <2>1, <2>4
<1>5. EventsOf("big") = [i \in {1} |-> "tool"]
  <2> DEFINE b == <<"tool_result">>
  <2>1. DOMAIN b = {1} /\ BlockEvent("user", b[1]) = "tool"
    BY DEF BlockEvent
  <2>2. {1} = {i \in DOMAIN b : BlockEvent("user", b[i]) # "none"}
    BY <2>1
  <2>3. RecordOf["claude"]["big"] = InBlocks("user", b)
    BY DEF RecordOf
  <2> HIDE DEF b
  <2>4. EventsOf("big") = [i \in {1} |-> BlockEvent("user", b[i])]
    BY <1>2, <2>2, <2>3
  <2> QED  BY <2>1, <2>4
<1> QED  BY <1>1, <1>3, <1>4, <1>5

\* In every harness.
LEMMA KindsSay ==
  ASSUME source \in Sources
  PROVE  /\ \A k \in Kinds : DOMAIN EventsOf(k) \subseteq Places
         /\ \A k \in Kinds : Saying(k, "user") # {} => k \in {"request", "ask"}
         /\ EventsOf("big") # <<>>
<1>1. CASE source \in {"copilot", "codex"}
  <2>1. /\ EventsOf("request") = <<"user">> /\ EventsOf("ask") = <<"user">>
        /\ EventsOf("reply") = <<"assistant">> /\ EventsOf("big") = <<"tool">>
    BY <1>1, CopilotSays, CodexSays
  <2>2. \A k \in Kinds : DOMAIN EventsOf(k) \subseteq Places
    BY <2>1 DEF Kinds, Places
  <2>3. \A k \in Kinds : Saying(k, "user") # {} => k \in {"request", "ask"}
    BY <2>1 DEF Kinds, Saying
  <2> QED  BY <2>1, <2>2, <2>3
<1>2. CASE source = "claude"
  <2>1. \A k \in Kinds : DOMAIN EventsOf(k) \subseteq Places
    BY <1>2, ClaudeSays DEF Kinds, Places
  <2>2. \A k \in Kinds : Saying(k, "user") # {} => k \in {"request", "ask"}
    BY <1>2, ClaudeSays DEF Kinds, Saying
  <2>3. EventsOf("big") # <<>>
    <3>1. EventsOf("big")[1] = "tool" /\ 1 \in DOMAIN EventsOf("big")
      BY <1>2, ClaudeSays
    <3> QED  BY <3>1
  <2> QED  BY <2>1, <2>2, <2>3
<1> QED  BY <1>1, <1>2 DEF Sources

-----------------------------------------------------------------------------
(* Reading a transcript in two parts.                                       *)

Texts1 == Seq(Tokens) \ {<<>>}

\* p is a prefix of s, and the rest of s starts on a line of its own.
Extends(p, s) ==
  /\ p \in Texts1 /\ s \in Texts1 /\ Len(p) <= Len(s)
  /\ \A i \in 1 .. Len(p) : s[i] = p[i]
  /\ Len(p) < Len(s) => s[Len(p)] = NewLine \/ s[Len(p) + 1] = NewLine
Rest(p, s) == SubSeq(s, Len(p) + 1, Len(s))

LEMMA RestIs ==
  ASSUME NEW p, NEW s, Extends(p, s)
  PROVE  /\ Len(p) \in Nat \ {0} /\ Len(s) \in Nat /\ Rest(p, s) \in Seq(Tokens)
         /\ Len(p) + Len(Rest(p, s)) = Len(s)
         /\ \A j \in 1 .. Len(Rest(p, s)) : Rest(p, s)[j] = s[Len(p) + j]
BY DEF Extends, Rest, Texts1

\* The lines of the whole are those of the two parts, and what parses in a
\* part parses in the whole.
LEMMA LinesJoin ==
  ASSUME NEW p, NEW s, Extends(p, s)
  PROVE  /\ \A i \in 1 .. Len(p) : i \in Lines(s) <=> i \in Lines(p)
         /\ \A j \in 1 .. Len(Rest(p, s)) : Len(p) + j \in Lines(s) <=> j \in Lines(Rest(p, s))
         /\ \A i \in Lines(p) : Parses(p, i) => Parses(s, i)
         /\ \A j \in Lines(Rest(p, s)) : Parses(Rest(p, s), j) => Parses(s, Len(p) + j)
<1> DEFINE n == Len(p)
           d == Rest(p, s)
<1>1. /\ n \in Nat \ {0} /\ Len(s) = n + Len(d) /\ Len(d) \in Nat
      /\ DOMAIN p = 1 .. n /\ DOMAIN s = 1 .. n + Len(d) /\ DOMAIN d = 1 .. Len(d)
      /\ \A i \in 1 .. n : s[i] = p[i]
      /\ \A j \in 1 .. Len(d) : d[j] = s[n + j]
      /\ Len(d) > 0 => s[n] = NewLine \/ s[n + 1] = NewLine
  BY RestIs DEF Extends, Texts1
<1>0. n \in Nat \ {0} /\ Len(d) \in Nat
  BY <1>1
<1> HIDE DEF d
<1>2. ASSUME NEW i \in 1 .. n PROVE i \in Lines(s) <=> i \in Lines(p)
  BY <1>1 DEF Lines
<1>3. ASSUME NEW j \in 1 .. Len(d) PROVE n + j \in Lines(s) <=> j \in Lines(d)
  <2>1. CASE j = 1
    BY <1>1, <2>1 DEF Lines
  <2>2. CASE j > 1
    <3>1. /\ j \in DOMAIN d /\ n + j \in DOMAIN s /\ n + j # 1
          /\ j - 1 \in 1 .. Len(d) /\ n + j - 1 = n + (j - 1)
      BY <1>0, <1>1, <2>2
    <3>2. s[n + j] = d[j] /\ s[n + j - 1] = d[j - 1]
      BY <1>1, <3>1
    <3> QED  BY <2>2, <3>1, <3>2 DEF Lines
  <2> QED  BY <2>1, <2>2
<1>4. ASSUME NEW i \in Lines(p), Parses(p, i) PROVE Parses(s, i)
  <2>1. i \in 1 .. n /\ p[i] # NewLine
    BY <1>1 DEF Lines
  <2>2. CASE i < n
    <3>1. i + 1 \in 1 .. n /\ p[i] \in Kinds /\ p[i + 1] = NewLine
      BY <1>0, <1>4, <2>1, <2>2 DEF Parses
    <3>2. s[i] = p[i] /\ s[i + 1] = p[i + 1]
      BY <1>1, <2>1, <3>1
    <3> QED  BY <3>1, <3>2 DEF Parses
  <2>3. CASE i = n
    <3>1. s[n] \in Kinds /\ s[n] # NewLine
      BY <1>1, <1>4, <2>1, <2>3 DEF Parses
    <3>2. Len(d) = 0 \/ s[n + 1] = NewLine
      BY <1>1, <3>1
    <3>3. Len(d) = 0 => n = Len(s)
      BY <1>1
    <3> QED  BY <2>3, <3>1, <3>2, <3>3 DEF Parses
  <2> QED  BY <1>1, <2>1, <2>2, <2>3
<1>5. ASSUME NEW j \in Lines(d), Parses(d, j) PROVE Parses(s, n + j)
  <2>1. j \in 1 .. Len(d)
    BY <1>1 DEF Lines
  <2>2. d[j] \in Kinds /\ (j = Len(d) \/ d[j + 1] = NewLine)
    BY <1>5 DEF Parses
  <2>3. s[n + j] \in Kinds
    BY <1>1, <2>1, <2>2
  <2>4. CASE j = Len(d)
    BY <1>1, <2>3, <2>4 DEF Parses
  <2>5. CASE j # Len(d)
    <3>1. j + 1 \in 1 .. Len(d) /\ n + (j + 1) = (n + j) + 1
      BY <1>0, <2>1, <2>5
    <3>2. s[n + j + 1] = NewLine
      BY <1>1, <2>2, <2>5, <3>1
    <3> QED  BY <2>3, <3>2 DEF Parses
  <2> QED  BY <2>4, <2>5
<1> QED  BY <1>2, <1>3, <1>4, <1>5 DEF d

LEMMA MalformedJoins ==
  ASSUME NEW p, NEW s, Extends(p, s), ~Malformed(p), ~Malformed(Rest(p, s))
  PROVE  ~Malformed(s)
<1> DEFINE n == Len(p)
           d == Rest(p, s)
<1>1. SUFFICES ASSUME NEW i \in Lines(s) PROVE Parses(s, i)
  BY DEF Malformed
<1>2. /\ n \in Nat /\ Len(d) \in Nat /\ Lines(s) \subseteq 1 .. n + Len(d)
  BY RestIs DEF Lines, Extends, Texts1
<1>3. CASE i <= n
  BY <1>1, <1>2, <1>3, LinesJoin DEF Malformed
<1>4. CASE i > n
  <2>1. PICK j \in 1 .. Len(d) : i = n + j
    <3>1. i - n \in 1 .. Len(d) /\ i = n + (i - n)
      BY <1>1, <1>2, <1>4
    <3> QED  BY <3>1
  <2> QED  BY <1>1, <2>1, LinesJoin DEF Malformed
<1> QED  BY <1>1, <1>2, <1>3, <1>4

LEMMA RedeemableJoins ==
  ASSUME NEW p, NEW s, Extends(p, s)
  PROVE  Redeemable(p) \cup Redeemable(Rest(p, s)) \subseteq Redeemable(s)
<1> DEFINE n == Len(p)
           d == Rest(p, s)
<1>1. /\ n \in Nat /\ Len(d) \in Nat /\ Len(s) = n + Len(d)
      /\ Lines(p) \subseteq 1 .. n /\ Lines(d) \subseteq 1 .. Len(d)
      /\ \A i \in 1 .. n : s[i] = p[i]
      /\ \A j \in 1 .. Len(d) : d[j] = s[n + j]
  <2>1. /\ n \in Nat /\ Len(d) \in Nat /\ Len(s) = n + Len(d)
        /\ p \in Seq(Tokens) /\ d \in Seq(Tokens)
    BY RestIs DEF Extends, Texts1
  <2>2. Lines(p) \subseteq 1 .. n
    BY <2>1 DEF Lines
  <2>3. Lines(d) \subseteq 1 .. Len(d)
    BY <2>1 DEF Lines
  <2> QED  BY <2>1, <2>2, <2>3, RestIs DEF Extends
<1>2. ASSUME NEW t \in Redeemable(p) PROVE t \in Redeemable(s)
  <2>1. PICK i \in Lines(p) : Parses(p, i) /\ EventsOf(p[i]) # <<>> /\ t = p[i]
    BY <1>2 DEF Redeemable
  <2>2. i \in Lines(s) /\ Parses(s, i) /\ s[i] = p[i]
    BY <1>1, <2>1, LinesJoin
  <2> QED  BY <2>1, <2>2 DEF Redeemable
<1>3. ASSUME NEW t \in Redeemable(d) PROVE t \in Redeemable(s)
  <2>1. PICK j \in Lines(d) : Parses(d, j) /\ EventsOf(d[j]) # <<>> /\ t = d[j]
    BY <1>3 DEF Redeemable
  <2>2. n + j \in Lines(s) /\ Parses(s, n + j) /\ s[n + j] = d[j]
    BY <1>1, <2>1, LinesJoin
  <2> QED  BY <2>1, <2>2 DEF Redeemable
<1> QED  BY <1>2, <1>3

\* What a transcript without malformed lines says can be counted.
LEMMA SaidIsFinite ==
  ASSUME source \in Sources, NEW s \in Seq(Tokens), ~Malformed(s), NEW e
  PROVE  /\ Said(s, e) \subseteq (1 .. Len(s)) \X Places
         /\ IsFiniteSet(Said(s, e)) /\ Count(s, e) \in Nat
<1>1. Said(s, e) \subseteq (1 .. Len(s)) \X Places
  <2> SUFFICES ASSUME NEW x \in Said(s, e) PROVE x \in (1 .. Len(s)) \X Places
    OBVIOUS
  <2>1. PICK i \in Lines(s) : x \in {i} \X Saying(s[i], e)
    BY DEF Said
  <2>2. i \in 1 .. Len(s) /\ s[i] \in Kinds
    BY DEF Lines, Malformed, Parses
  <2>3. Saying(s[i], e) \subseteq Places
    BY <2>2, KindsSay DEF Saying
  <2> QED  BY <2>1, <2>2, <2>3
<1>2. IsFiniteSet((1 .. Len(s)) \X Places)
  <2>1. IsFiniteSet(1 .. Len(s))
    <3>1. Len(s) \in Int
      OBVIOUS
    <3> QED  BY <3>1, FS_Interval
  <2>2. IsFiniteSet(Places)
    <3>1. 1 \in Int /\ 3 \in Int
      OBVIOUS
    <3> QED  BY <3>1, FS_Interval DEF Places
  <2> QED  BY <2>1, <2>2, FS_Product
<1>3. IsFiniteSet(Said(s, e))
  BY <1>1, <1>2, FS_Subset
<1> QED  BY <1>1, <1>3, FS_CardinalityType DEF Count

\* So the whole says what the two parts say.
LEMMA CountJoins ==
  ASSUME source \in Sources, NEW p, NEW s, Extends(p, s),
         ~Malformed(p), ~Malformed(Rest(p, s)), NEW e
  PROVE  Count(s, e) = Count(p, e) + Count(Rest(p, s), e)
<1> DEFINE n == Len(p)
           d == Rest(p, s)
           X == Said(p, e)
           Y == Said(d, e)
           Z == {x \in Said(s, e) : x[1] > n}
<1>1. /\ n \in Nat \ {0} /\ Len(d) \in Nat /\ Len(s) = n + Len(d)
      /\ p \in Seq(Tokens) /\ d \in Seq(Tokens) /\ s \in Seq(Tokens) /\ ~Malformed(s)
  BY RestIs, MalformedJoins DEF Extends, Texts1
<1>2. /\ X \subseteq (1 .. n) \X Places /\ IsFiniteSet(X) /\ Cardinality(X) = Count(p, e)
      /\ Y \subseteq (1 .. Len(d)) \X Places /\ IsFiniteSet(Y) /\ Cardinality(Y) = Count(d, e)
      /\ Said(s, e) \subseteq (1 .. n + Len(d)) \X Places /\ IsFiniteSet(Said(s, e))
      /\ Count(p, e) \in Nat /\ Count(d, e) \in Nat
  BY <1>1, SaidIsFinite DEF Count
<1>3. \A i \in 1 .. n, k \in Places : <<i, k>> \in Said(s, e) <=> <<i, k>> \in X
  <2> SUFFICES ASSUME NEW i \in 1 .. n, NEW k \in Places
               PROVE  <<i, k>> \in Said(s, e) <=> <<i, k>> \in X
    OBVIOUS
  <2>1. s[i] = p[i] /\ (i \in Lines(s) <=> i \in Lines(p))
    BY LinesJoin DEF Extends
  <2>2. <<i, k>> \in Said(s, e) <=> i \in Lines(s) /\ k \in Saying(s[i], e)
    BY DEF Said
  <2>3. <<i, k>> \in X <=> i \in Lines(p) /\ k \in Saying(p[i], e)
    BY DEF Said
  <2> QED  BY <2>1, <2>2, <2>3
<1>4. \A j \in 1 .. Len(d), k \in Places : <<n + j, k>> \in Said(s, e) <=> <<j, k>> \in Y
  <2> SUFFICES ASSUME NEW j \in 1 .. Len(d), NEW k \in Places
               PROVE  <<n + j, k>> \in Said(s, e) <=> <<j, k>> \in Y
    OBVIOUS
  <2>1. s[n + j] = d[j] /\ (n + j \in Lines(s) <=> j \in Lines(d))
    BY LinesJoin, RestIs
  <2>2. <<n + j, k>> \in Said(s, e) <=> n + j \in Lines(s) /\ k \in Saying(s[n + j], e)
    BY DEF Said
  <2>3. <<j, k>> \in Y <=> j \in Lines(d) /\ k \in Saying(d[j], e)
    BY DEF Said
  <2> QED  BY <2>1, <2>2, <2>3
<1> HIDE DEF X, Y, d
<1>5. Said(s, e) = X \cup Z /\ X \cap Z = {}
  <2>1. \A x \in X : x \in Said(s, e) /\ ~(x[1] > n)
    BY <1>1, <1>2, <1>3
  <2>2. \A x \in Said(s, e) : x[1] \in 1 .. n => x \in X
    BY <1>1, <1>2, <1>3
  <2>3. \A x \in Said(s, e) : x[1] \in 1 .. n \/ x[1] > n
    BY <1>1, <1>2
  <2> QED  BY <2>1, <2>2, <2>3
<1>6. ExistsBijection(Y, Z)
  <2> DEFINE f == [y \in Y |-> <<n + y[1], y[2]>>]
  <2>1. f \in [Y -> Z]
    <3> SUFFICES ASSUME NEW y \in Y PROVE <<n + y[1], y[2]>> \in Z
      OBVIOUS
    <3>1. y[1] \in 1 .. Len(d) /\ y[2] \in Places /\ y = <<y[1], y[2]>>
      BY <1>2
    <3>2. <<n + y[1], y[2]>> \in Said(s, e)
      BY <1>4, <3>1
    <3> QED  BY <1>1, <3>1, <3>2
  <2>2. \A a, b \in Y : f[a] = f[b] => a = b
    <3> SUFFICES ASSUME NEW a \in Y, NEW b \in Y, f[a] = f[b] PROVE a = b
      OBVIOUS
    <3>1. /\ a[1] \in 1 .. Len(d) /\ a = <<a[1], a[2]>>
          /\ b[1] \in 1 .. Len(d) /\ b = <<b[1], b[2]>>
      BY <1>2
    <3>2. n + a[1] = n + b[1] /\ a[2] = b[2]
      OBVIOUS
    <3>3. a[1] = b[1]
      BY <1>1, <3>1, <3>2
    <3> QED  BY <3>1, <3>2, <3>3
  <2>3. \A z \in Z : \E y \in Y : f[y] = z
    <3> SUFFICES ASSUME NEW z \in Z PROVE \E y \in Y : f[y] = z
      OBVIOUS
    <3>1. z \in Said(s, e) /\ z[1] \in 1 .. n + Len(d) /\ z[2] \in Places
          /\ z = <<z[1], z[2]>> /\ z[1] > n
      BY <1>2
    <3> DEFINE j == z[1] - n
    <3>2. j \in 1 .. Len(d) /\ n + j = z[1]
      BY <1>1, <3>1
    <3> HIDE DEF j
    <3>3. <<n + j, z[2]>> \in Said(s, e)
      BY <3>1, <3>2
    <3>4. <<j, z[2]>> \in Y
      BY <1>4, <3>1, <3>2, <3>3
    <3>5. f[<<j, z[2]>>] = <<n + j, z[2]>>
      BY <3>4
    <3> QED  BY <3>1, <3>2, <3>4, <3>5
  <2>4. f \in Bijection(Y, Z)
    BY <2>1, <2>2, <2>3 DEF Bijection, Injection, Surjection, IsInjective
  <2> QED  BY <2>4 DEF ExistsBijection
<1>7. IsFiniteSet(Z) /\ Cardinality(Z) = Cardinality(Y)
  BY <1>2, <1>6, FS_Bijection
<1>8. Cardinality(X \cup Z) = Cardinality(X) + Cardinality(Z) - Cardinality(X \cap Z)
  BY <1>2, <1>7, FS_Union
<1>9. Cardinality(X \cap Z) = 0
  BY <1>5, FS_EmptySet
<1>10. Cardinality(Said(s, e)) = Count(p, e) + Count(d, e)
  <2>1. Cardinality(Said(s, e)) = Cardinality(X \cup Z)
    BY <1>5
  <2> HIDE DEF Z
  <2> QED  BY <2>1, <1>2, <1>7, <1>8, <1>9
<1> QED  BY <1>10 DEF Count, d

\* A nonempty set of numbers has a least one.
LEMMA LeastNumber ==
  ASSUME NEW T \in SUBSET Nat, T # {}
  PROVE  \E x \in T : \A y \in T : x <= y
<1> DEFINE R == OpToRel(<, Nat)
<1>1. IsWellFoundedOn(R, Nat)
  BY NatLessThanWellFounded, Zenon
<1>2. \A x, y \in Nat : y < x => <<y, x>> \in R
  BY DEF OpToRel
<1> HIDE DEF R
<1>3. PICK x \in T : \A y \in T : ~(<<y, x>> \in R)
  BY <1>1, WFMin, Zenon
<1>4. ASSUME NEW y \in T PROVE x <= y
  <2>1. ~(y < x)
    BY <1>2, <1>3
  <2>2. x \in Nat /\ y \in Nat
    OBVIOUS
  <2> QED
    BY <2>1, <2>2
<1> QED
  BY <1>4

\* What the user says first in the prefix is what he says first in the whole.
Users(s) == {i \in Lines(s) : Saying(s[i], "user") # {}}
AsksFirst(s) == \E m \in Users(s) : s[m] # "request" /\ \A i \in Users(s) : m <= i

LEMMA FirstUser ==
  ASSUME NEW s \in Seq(Tokens), Users(s) # {}
  PROVE  Min(Users(s)) \in Users(s) /\ \A i \in Users(s) : Min(Users(s)) <= i
<1>1. Users(s) \in SUBSET Nat
  BY DEF Users, Lines
<1>2. \E x \in Users(s) : \A y \in Users(s) : x <= y
  BY <1>1, LeastNumber
<1> QED  BY <1>2 DEF Min

LEMMA FirstUserIs ==
  ASSUME NEW s \in Seq(Tokens), Users(s) # {}
  PROVE  ~OpensWithRequest(s) <=> AsksFirst(s)
<1> DEFINE k == Min(Users(s))
<1>1. k \in Users(s) /\ \A i \in Users(s) : k <= i
  BY FirstUser
<1>2. OpensWithRequest(s) <=> s[k] = "request"
  BY DEF OpensWithRequest, Users
<1> HIDE DEF k
<1>3. \A m \in Users(s) : (\A i \in Users(s) : m <= i) => m = k
  <2>1. Users(s) \subseteq Nat
    BY DEF Users, Lines
  <2> QED  BY <1>1, <2>1
<1> QED  BY <1>1, <1>2, <1>3 DEF AsksFirst

LEMMA FirstUserStays ==
  ASSUME NEW p, NEW s, Extends(p, s), AsksFirst(p)
  PROVE  AsksFirst(s)
<1>1. /\ Users(p) \subseteq 1 .. Len(p) /\ Users(s) \subseteq 1 .. Len(s)
      /\ Len(p) \in Nat /\ Len(s) \in Nat
  BY DEF Users, Lines, Extends, Texts1
<1>2. \A i \in 1 .. Len(p) : (i \in Users(s) <=> i \in Users(p)) /\ s[i] = p[i]
  BY LinesJoin DEF Users, Extends
<1>3. PICK m \in Users(p) : p[m] # "request" /\ \A i \in Users(p) : m <= i
  BY DEF AsksFirst
<1>4. m \in Users(s) /\ s[m] # "request"
  BY <1>1, <1>2, <1>3
<1>5. ASSUME NEW i \in Users(s) PROVE m <= i
  BY <1>1, <1>2, <1>3
<1> QED  BY <1>4, <1>5 DEF AsksFirst

-----------------------------------------------------------------------------
(* The inductive invariant.                                                 *)

\* A transcript munshi may archive.
Proper(s) ==
  s \in Texts1 /\ ~Malformed(s) /\ AsksFirst(s)

\* The record a is of a proper transcript, which redeems its tickets and has
\* the counts c, but for a row a rebuild made.
Recorded(a, c) ==
  /\ a.rev \in BOOLEAN
  /\ ~a.rev => a.tickets = {}
  /\ a.rev => Proper(a.prefix)
  /\ a.rev => a.tickets \subseteq Redeemable(a.prefix)
  /\ a.rev /\ ~c.rebuilt => c.of = Counted(a.prefix)

\* A worker j that loaded the whole transcript, or what follows the record.
LoadedAll(j) ==
  /\ Proper(j.bytes)
  /\ j.tickets \subseteq Redeemable(j.bytes)
  /\ j.counts = Counted(j.bytes)
LoadedRest(a, c, j) ==
  /\ a.rev /\ Extends(a.prefix, j.bytes) /\ ~Malformed(Rest(a.prefix, j.bytes))
  /\ j.tickets \subseteq Redeemable(Rest(a.prefix, j.bytes))
  /\ j.counts = Plus(c.of, Counted(Rest(a.prefix, j.bytes)))
Loaded(a, c, j) ==
  /\ j.busy \in BOOLEAN
  /\ j.busy => \/ j.mode = "full" /\ LoadedAll(j)
               \/ j.mode = "delta" /\ LoadedRest(a, c, j)

LInv ==
  /\ source \in Sources
  /\ file \in Seq(Tokens)
  /\ Recorded(archive, counts)
  /\ Loaded(archive, counts, job)

\* The harness of a session does not change, nor how its records are read.
LEMMA RecordReadsTheSame ==
  ASSUME UNCHANGED source, Recorded(archive', counts') PROVE Recorded(archive, counts)'
<1>1. ASSUME Proper(archive'.prefix) PROVE Proper(archive.prefix)'
  <2>1. AsksFirst(archive.prefix)'
    BY <1>1 DEF Proper, AsksFirst, Users, Lines, Saying, EventsOf
  <2>2. ~Malformed(archive.prefix)'
    BY <1>1 DEF Proper, Malformed, Lines, Parses
  <2> QED  BY <1>1, <2>1, <2>2 DEF Proper
<1>2. ASSUME archive'.tickets \subseteq Redeemable(archive'.prefix)
      PROVE  (archive.tickets \subseteq Redeemable(archive.prefix))'
  BY <1>2 DEF Redeemable, Lines, Parses, EventsOf
<1>3. ASSUME counts'.of = Counted(archive'.prefix)
      PROVE  (counts.of = Counted(archive.prefix))'
  <2>1. Counted(archive.prefix)' = Counted(archive'.prefix)
    BY DEF Counted, Count, Said, Lines, Saying, EventsOf
  <2> QED  BY <1>3, <2>1
<1> QED  BY <1>1, <1>2, <1>3 DEF Recorded

LEMMA LoadReadsTheSame ==
  ASSUME UNCHANGED source, Loaded(archive', counts', job') PROVE Loaded(archive, counts, job)'
<1>1. ASSUME LoadedAll(job') PROVE LoadedAll(job)'
  <2>1. AsksFirst(job.bytes)'
    BY <1>1 DEF LoadedAll, Proper, AsksFirst, Users, Lines, Saying, EventsOf
  <2>2. ~Malformed(job.bytes)'
    BY <1>1 DEF LoadedAll, Proper, Malformed, Lines, Parses
  <2>3. (job.tickets \subseteq Redeemable(job.bytes))'
    BY <1>1 DEF LoadedAll, Redeemable, Lines, Parses, EventsOf
  <2>4. (job.counts = Counted(job.bytes))'
    <3>1. Counted(job.bytes)' = Counted(job'.bytes)
      BY DEF Counted, Count, Said, Lines, Saying, EventsOf
    <3> QED  BY <1>1, <3>1 DEF LoadedAll
  <2>5. Proper(job.bytes)'
    BY <1>1, <2>1, <2>2 DEF LoadedAll, Proper
  <2> QED  BY <2>3, <2>4, <2>5 DEF LoadedAll
<1>2. ASSUME LoadedRest(archive', counts', job') PROVE LoadedRest(archive, counts, job)'
  <2>1. Extends(archive.prefix, job.bytes)'
    BY <1>2 DEF LoadedRest, Extends
  <2>2. ~Malformed(Rest(archive.prefix, job.bytes))'
    BY <1>2 DEF LoadedRest, Malformed, Rest, Lines, Parses
  <2>3. (job.tickets \subseteq Redeemable(Rest(archive.prefix, job.bytes)))'
    BY <1>2 DEF LoadedRest, Redeemable, Rest, Lines, Parses, EventsOf
  <2>4. Counted(Rest(archive.prefix, job.bytes))' = Counted(Rest(archive'.prefix, job'.bytes))
    BY DEF Counted, Count, Said, Rest, Lines, EventsOf, Saying
  <2>5. (job.counts = Plus(counts.of, Counted(Rest(archive.prefix, job.bytes))))'
    BY <1>2, <2>4 DEF LoadedRest, Plus
  <2> QED  BY <1>2, <2>1, <2>2, <2>3, <2>5 DEF LoadedRest
<1> QED  BY <1>1, <1>2 DEF Loaded

LEMMA ReadTheSame ==
  ASSUME source \in Sources, UNCHANGED source, file' \in Seq(Tokens),
         Recorded(archive', counts'), Loaded(archive', counts', job')
  PROVE  LInv'
BY RecordReadsTheSame, LoadReadsTheSame DEF LInv

\* A proper transcript is still one when lines that parse follow.
LEMMA ProperJoins ==
  ASSUME NEW p, NEW s, Proper(p), Extends(p, s), ~Malformed(Rest(p, s))
  PROVE  Proper(s)
<1>1. ~Malformed(s) /\ s \in Texts1
  BY MalformedJoins DEF Proper, Extends
<1>2. AsksFirst(s)
  BY FirstUserStays DEF Proper
<1> QED  BY <1>1, <1>2 DEF Proper

LEMMA CountedJoins ==
  ASSUME source \in Sources, NEW p, NEW s, Extends(p, s),
         ~Malformed(p), ~Malformed(Rest(p, s))
  PROVE  Plus(Counted(p), Counted(Rest(p, s))) = Counted(s)
<1>1. \A e : Count(s, e) = Count(p, e) + Count(Rest(p, s), e)
  BY CountJoins
<1> QED  BY <1>1 DEF Plus, Counted

\* What a load extracts can be redeemed from what it read.
LEMMA ExtractedRedeems ==
  ASSUME source \in Sources, NEW s PROVE Extracted(s) \subseteq Redeemable(s)
BY KindsSay DEF Extracted, Redeemable, Oversized

LEMMA InitLoads == Init => LInv
BY DEF Init, LInv, Recorded, Loaded, NoArchive, NoJob

\* What a load that is not refused holds.
LEMMA LoadIsSound ==
  ASSUME LInv, LoadSession PROVE LInv'
<1>1. /\ source \in Sources /\ file \in Seq(Tokens) /\ Recorded(archive, counts)
      /\ UNCHANGED <<source, file, archive, counts>>
      /\ ~Malformed(Batch(file)) /\ Mode(file) # "unchanged"
      /\ Mode(file) = "full" => /\ ~OpensWithRequest(file)
                                /\ IsArchiveWorthy(LoadedCounts(file))
      /\ job' = [busy |-> TRUE, bytes |-> file, mode |-> Mode(file),
                 counts |-> LoadedCounts(file), tickets |-> Extracted(Batch(file))]
  BY DEF LInv, LoadSession, Refused
<1>2. CASE Mode(file) = "full"
  <2>1. Batch(file) = file /\ LoadedCounts(file) = Counted(file)
    BY <1>2 DEF Batch, LoadedCounts
  <2>2. ~Malformed(file) /\ Count(file, "user") > 0
    BY <1>1, <1>2, <2>1 DEF IsArchiveWorthy, Counted
  <2>3. Users(file) # {}
    <3>1. Said(file, "user") # {}
      BY <2>2, FS_EmptySet DEF Count
    <3>2. PICK i \in Lines(file) : {i} \X Saying(file[i], "user") # {}
      BY <3>1 DEF Said
    <3> QED  BY <3>2 DEF Users
  <2>4. file # <<>>
    BY <2>3 DEF Users, Lines
  <2>5. Proper(file)
    BY <1>1, <1>2, <2>2, <2>3, <2>4, FirstUserIs DEF Proper, Texts1
  <2>6. LoadedAll(job')
    BY <1>1, <2>1, <2>5, ExtractedRedeems DEF LoadedAll
  <2> QED  BY <1>1, <1>2, <2>6, ReadTheSame DEF Loaded
<1>3. CASE Mode(file) # "full"
  <2>1. HasPrevious /\ PrefixValid(file) /\ Mode(file) = "delta"
    BY <1>1, <1>3 DEF Mode
  <2>2. Batch(file) = Rest(archive.prefix, file)
        /\ LoadedCounts(file) = Plus(counts.of, Counted(Rest(archive.prefix, file)))
    BY <2>1 DEF Batch, LoadedCounts, Delta, Rest
  <2>3. archive.rev /\ archive.prefix \in Texts1
    BY <1>1, <2>1 DEF HasPrevious, Recorded, Proper
  <2>4. Extends(archive.prefix, file)
    <3> DEFINE p == archive.prefix
    <3>1. Len(p) <= Len(file) /\ SubSeq(p, 1, Len(p)) = SubSeq(file, 1, Len(p))
      BY <2>1 DEF PrefixValid, IsPrefix
    <3>2. Len(file) > Len(p) /\ Len(p) > 0
            => file[Len(p)] = NewLine \/ file[Len(p) + 1] = NewLine
      BY <2>1 DEF PrefixValid, OnBoundary
    <3> HIDE DEF p
    <3>3. p \in Seq(Tokens) /\ Len(p) \in Nat \ {0} /\ Len(file) \in Nat /\ file # <<>>
      BY <1>1, <2>3, <3>1 DEF Texts1, p
    <3>4. \A i \in 1 .. Len(p) : SubSeq(p, 1, Len(p))[i] = p[i]
                                 /\ SubSeq(file, 1, Len(p))[i] = file[i]
      BY <1>1, <3>1, <3>3
    <3> QED  BY <1>1, <2>3, <3>1, <3>2, <3>3, <3>4 DEF Extends, Texts1, p
  <2>5. LoadedRest(archive', counts', job')
    BY <1>1, <2>2, <2>3, <2>4, ExtractedRedeems DEF LoadedRest
  <2> QED  BY <1>1, <2>1, <2>5, ReadTheSame DEF Loaded
<1> QED  BY <1>2, <1>3

\* What is recorded of it.
LEMMA ArchiveIsSound ==
  ASSUME LInv, NEW floored \in BOOLEAN, ArchiveSession(floored) PROVE LInv'
<1>1. /\ source \in Sources /\ file \in Seq(Tokens) /\ Recorded(archive, counts)
      /\ UNCHANGED <<source, file>> /\ Loaded(archive, counts, job) /\ job.busy
      /\ job' = NoJob
      /\ counts' = [of |-> job.counts, rebuilt |-> counts.rebuilt /\ job.mode # "full"]
      /\ archive' = Archived(floored)
  BY DEF LInv, ArchiveSession
<1>2. Loaded(archive', counts', job')
  BY <1>1 DEF Loaded, NoJob
<1>3. /\ archive'.rev = TRUE /\ archive'.prefix = job.bytes /\ counts'.of = job.counts
      /\ counts'.rebuilt = (counts.rebuilt /\ job.mode # "full")
  BY <1>1 DEF Archived
<1>4. CASE job.mode = "full" /\ LoadedAll(job)
  <2>1. archive'.tickets \subseteq job.tickets
    BY <1>1, <1>4 DEF Archived
  <2>2. Recorded(archive', counts')
    BY <1>3, <1>4, <2>1 DEF LoadedAll, Recorded
  <2> QED  BY <1>1, <1>2, <2>2, ReadTheSame
<1>5. CASE job.mode = "delta" /\ LoadedRest(archive, counts, job)
  <2>1. /\ Proper(archive.prefix) /\ archive.tickets \subseteq Redeemable(archive.prefix)
        /\ ~counts.rebuilt => counts.of = Counted(archive.prefix)
    BY <1>1, <1>5 DEF Recorded, LoadedRest
  <2>2. Proper(job.bytes)
    BY <1>5, <2>1, ProperJoins DEF LoadedRest
  <2>3. archive'.tickets \subseteq archive.tickets \cup job.tickets
    BY <1>1, <1>5 DEF Archived
  <2>4. archive'.tickets \subseteq Redeemable(job.bytes)
    BY <1>5, <2>1, <2>3, RedeemableJoins DEF LoadedRest
  <2>5. ~counts.rebuilt => job.counts = Counted(job.bytes)
    BY <1>1, <1>5, <2>1, CountedJoins DEF LoadedRest, Proper
  <2>6. Recorded(archive', counts')
    BY <1>3, <1>5, <2>2, <2>4, <2>5 DEF Recorded
  <2> QED  BY <1>1, <1>2, <2>6, ReadTheSame
<1> QED  BY <1>1, <1>4, <1>5 DEF Loaded

\* The transcript may become anything.
LEMMA HarnessIsSound ==
  ASSUME LInv, HarnessWrites \/ HarnessRewrites PROVE LInv'
<1>1. /\ source \in Sources /\ file \in Seq(Tokens) /\ Recorded(archive, counts)
      /\ Loaded(archive, counts, job) /\ UNCHANGED <<source, archive, counts, job>>
  BY DEF LInv, HarnessWrites, HarnessRewrites
<1>2. file' \in Seq(Tokens)
  <2>1. \A k \in Kinds : k \in Tokens
    BY DEF Tokens
  <2>2. ASSUME HarnessWrites PROVE file' \in Seq(Tokens)
    <3>1. CASE \E t \in Tokens : file' = Append(file, t)
      BY <1>1, <3>1
    <3>2. CASE file # <<>> /\ \E k \in Kinds : file' = Append(Front(file), k)
      <4>1. Front(file) \in Seq(Tokens)
        BY <1>1, <3>2 DEF Front
      <4> QED  BY <2>1, <3>2, <4>1
    <3> QED  BY <2>2, <3>1, <3>2 DEF HarnessWrites
  <2>3. ASSUME HarnessRewrites PROVE file' \in Seq(Tokens)
    <3>1. CASE \E n \in 0 .. Len(file) - 1 : file' = SubSeq(file, 1, n)
      BY <1>1, <3>1
    <3>2. CASE \E i \in DOMAIN file, k \in Kinds : file' = [file EXCEPT ![i] = k]
      BY <1>1, <2>1, <3>2
    <3> QED  BY <2>3, <3>1, <3>2 DEF HarnessRewrites
  <2> QED  BY <2>2, <2>3
<1> QED  BY <1>1, <1>2, ReadTheSame

LEMMA StepLoads == LInv /\ [Next]_vars => LInv'
<1> SUFFICES ASSUME LInv, [Next]_vars PROVE LInv'
  OBVIOUS
<1>0. /\ source \in Sources /\ file \in Seq(Tokens) /\ Recorded(archive, counts)
      /\ Loaded(archive, counts, job)
  BY DEF LInv
<1>1. CASE HarnessWrites \/ HarnessRewrites
  BY <1>1, HarnessIsSound
<1>2. CASE RebuildState
  <2>1. /\ UNCHANGED <<source, file, archive, job>> /\ ~job.busy /\ counts'.rebuilt
    BY <1>2 DEF RebuildState, NoJob
  <2>2. Recorded(archive', counts') /\ Loaded(archive', counts', job')
    BY <1>0, <2>1 DEF Recorded, Loaded
  <2> QED  BY <1>0, <2>1, <2>2, ReadTheSame
<1>3. CASE ChangedSince
  <2>1. UNCHANGED <<source, file, archive, counts>> /\ job' = NoJob
    BY <1>3 DEF ChangedSince
  <2>2. Loaded(archive', counts', job')
    BY <2>1 DEF Loaded, NoJob
  <2> QED  BY <1>0, <2>1, <2>2, ReadTheSame
<1>4. CASE MunshiChanges \/ UploadSnapshot \/ UNCHANGED vars
  <2>1. UNCHANGED <<source, file, archive, counts, job>>
    BY <1>4 DEF MunshiChanges, UploadSnapshot, vars
  <2> QED  BY <1>0, <2>1, ReadTheSame
<1> QED  BY <1>1, <1>2, <1>3, <1>4, LoadIsSound, ArchiveIsSound DEF Next, Worker

\* All that is known of the record and of a load in flight, in every state.
THEOREM LoadsAreSound == Spec => []LInv
BY InitLoads, StepLoads, PTL DEF Spec

-----------------------------------------------------------------------------
(* The theorems.                                                            *)

\* Deltas add up: the counts of the archived record are those of one full load
\* of the bytes under its cursor, unless a rebuild zeroed them.
THEOREM CountsAddUp == Spec => []DeltasAddUp
<1>1. LInv => DeltasAddUp
  BY DEF LInv, Recorded, Proper, DeltasAddUp
<1> QED  BY <1>1, LoadsAreSound, PTL

\* No transcript that opens with munshi's own request is archived, although a
\* delta is not looked at for it.
THEOREM OwnRequestsAreNotArchived == Spec => []ExhaustNeverArchived
<1>1. LInv => ExhaustNeverArchived
  BY FirstUserIs DEF LInv, Recorded, Proper, ExhaustNeverArchived, AsksFirst, Texts1
<1> QED  BY <1>1, LoadsAreSound, PTL

\* What is archived opens with what the operator asked, tool results being none.
THEOREM OperatorIsHeard == Spec => []OperatorAsked
<1>1. LInv => OperatorAsked
  <2> SUFFICES ASSUME LInv, archive.rev
               PROVE  \E i \in DOMAIN archive.prefix : archive.prefix[i] = "ask"
    BY DEF OperatorAsked
  <2> DEFINE s == archive.prefix
  <2>1. Proper(s) /\ source \in Sources
    BY DEF LInv, Recorded
  <2>2. PICK m \in Users(s) : s[m] # "request"
    BY <2>1 DEF Proper, AsksFirst
  <2>3. m \in DOMAIN s /\ s[m] \in Kinds /\ Saying(s[m], "user") # {}
    BY <2>1, <2>2 DEF Users, Lines, Proper, Malformed, Parses
  <2> HIDE DEF s
  <2>4. s[m] = "ask"
    BY <2>1, <2>2, <2>3, KindsSay
  <2> QED  BY <2>3, <2>4 DEF s
<1> QED  BY <1>1, LoadsAreSound, PTL

\* Every ticket of an archived summary redeems from the transcript under its
\* cursor.
THEOREM TicketsAreGood == Spec => []TicketsRedeem
<1>1. LInv => TicketsRedeem
  BY DEF LInv, Recorded, TicketsRedeem
<1> QED  BY <1>1, LoadsAreSound, PTL
=============================================================================
