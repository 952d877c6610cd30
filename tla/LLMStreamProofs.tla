---------------------------- MODULE LLMStreamProofs ----------------------------
(***************************************************************************)
(* Proofs about LLMStream, for every set of indices, chunks and reports.    *)
(*                                                                         *)
(* The consumer's knowledge and the OpenAI session's calls are folds over   *)
(* sequences.  A fold is the last value of a recursive function; that the   *)
(* function exists, and what holds along it, goes by induction over Nat,    *)
(* which is taken here from the least element of a set (NatSet).            *)
(***************************************************************************)
EXTENDS LLMStream, FiniteSetTheorems, WellFoundedInduction, TLAPS

-----------------------------------------------------------------------------
(* Induction over numbers.                                                  *)


(* A set of numbers that is not empty has a least one. *)
LEMMA NatMinimum ==
  ASSUME NEW S \in SUBSET Nat, S # {}
  PROVE  \E x \in S : \A y \in S : x <= y
<1> DEFINE Less == {p \in Nat \X Nat : p[1] < p[2]}
<1>1. IsWellFoundedOn(Less, Nat)
  <2>1. Less = OpToRel(<, Nat)
    BY Zenon DEF OpToRel
  <2>2. QED
    BY NatLessThanWellFounded, <2>1, Zenon
<1>2. PICK x \in S : \A y \in S : ~ (<<y, x>> \in Less)
  <2> HIDE DEF Less
  <2>1. QED
    BY <1>1, WFMin
<1>3. ASSUME NEW y \in S
      PROVE  x <= y
  <2>1. x \in Nat /\ y \in Nat
    OBVIOUS
  <2>2. CASE y < x
    <3>1. <<y, x>> \in Nat \X Nat /\ <<y, x>>[1] = y /\ <<y, x>>[2] = x
      BY <2>1
    <3>2. <<y, x>> \in Less
      BY <2>2, <3>1, Zenon
    <3>3. QED
      BY <1>2, <3>2
  <2>3. QED
    BY <2>1, <2>2
<1>4. QED
  BY <1>3

(* A set that holds zero, and the successor of each number in it, holds all. *)
LEMMA NatSet ==
  ASSUME NEW S, 0 \in S, \A n \in Nat : n \in S => n + 1 \in S
  PROVE  Nat \subseteq S
<1> SUFFICES ASSUME Nat \ S # {}
             PROVE  FALSE
  OBVIOUS
<1>1. PICK x \in Nat \ S : \A y \in Nat \ S : x <= y
  BY NatMinimum
<1>2. x # 0 /\ x - 1 \in Nat
  BY <1>1
<1>3. x - 1 \in S
  BY <1>1, <1>2
<1>4. QED
  BY <1>1, <1>2, <1>3

-----------------------------------------------------------------------------
(* What the consumer knows after some events.                              *)

After(known, events) == Fold(Consume, known, events)

(* h is what is known after each of the events. *)
Consumed(h, known, events) ==
  h = [k \in 0..Len(events) |->
         IF k = 0 THEN known ELSE Consume(h[k - 1], events[k])]

(* The steps of the folds. *)
StepOf(fold, x, e) ==
  CASE fold = "consume" -> Consume(x, e)
    [] fold = "feed" -> OpenAI!FeedDelta(x, e)
    [] fold = "hear" -> HearEvent(x, e)
    [] fold = "hear_delta" -> HearDelta(x, e)
    [] fold = "legacy" -> LegacyStep(x, e)
    [] fold = "identifies" -> Identifies(x, e)
    [] OTHER -> Sends(x, e)

(* h holds what step after step makes of base. *)
Folds(h, fold, base, s) ==
  /\ h = [k \in 0..Len(s) |-> h[k]]
  /\ \A k \in 0..Len(s) :
       h[k] = IF k = 0 THEN base ELSE StepOf(fold, h[k - 1], s[k])

(* The function behind a fold exists, so that its CHOOSE is one. *)
LEMMA FoldExists ==
  ASSUME NEW fold, NEW base, NEW s, Len(s) \in Nat
  PROVE  \E h : Folds(h, fold, base, s)
<1> DEFINE
  Upto(h, n) == h = [k \in 0..n |->
                  IF k = 0 THEN base ELSE StepOf(fold, h[k - 1], s[k])]
  S == {n \in Nat : \E h : Upto(h, n)}
<1>1. 0 \in S
  <2>1. Upto([k \in 0..0 |-> base], 0)
    OBVIOUS
  <2>2. QED
    BY <2>1
<1>2. ASSUME NEW n \in Nat, n \in S
      PROVE  n + 1 \in S
  <2>1. PICK h : Upto(h, n)
    BY <1>2
  <2> DEFINE g == [k \in 0..(n + 1) |->
                     IF k = n + 1 THEN StepOf(fold, h[n], s[n + 1]) ELSE h[k]]
  <2>2. ASSUME NEW k \in 0..(n + 1)
        PROVE  g[k] = IF k = 0 THEN base ELSE StepOf(fold, g[k - 1], s[k])
    <3>1. CASE k = 0
      BY <2>1, <3>1
    <3>2. CASE k \in 1..n
      <4>1. g[k] = h[k] /\ g[k - 1] = h[k - 1]
        BY <3>2
      <4>2. h[k] = StepOf(fold, h[k - 1], s[k])
        BY <2>1, <3>2
      <4>3. QED
        BY <3>2, <4>1, <4>2
    <3>3. CASE k = n + 1
      BY <3>3
    <3>4. QED
      BY <3>1, <3>2, <3>3
  <2>3. Upto(g, n + 1)
    BY <2>2
  <2>4. \E f : Upto(f, n + 1)
    <3> HIDE DEF g, Upto
    <3>1. QED
      BY <2>3
  <2>5. QED
    BY <2>4
<1>3. Len(s) \in S
  <2> HIDE DEF S
  <2>1. QED
    BY <1>1, <1>2, NatSet
<1>4. PICK h : Upto(h, Len(s))
  BY <1>3
<1>5. Folds(h, fold, base, s)
  BY <1>4 DEF Folds
<1>6. QED
  BY <1>5

(* What the consumer knows after some events is what it knows after the last. *)
LEMMA AfterIsConsumed ==
  ASSUME NEW known, NEW events, Len(events) \in Nat
  PROVE  \E h : Consumed(h, known, events) /\ After(known, events) = h[Len(events)]
<1>a. PICK f : f = "consume"
  OBVIOUS
<1>b. PICK h : Folds(h, f, known, events)
  BY FoldExists
<1>c. \A x, e : StepOf(f, x, e) = Consume(x, e)
  BY <1>a DEF StepOf
<1> DEFINE Is(g) == g = [k \in 0..Len(events) |->
                          IF k = 0 THEN known ELSE Consume(g[k - 1], events[k])]
<1>1. \E g : Is(g)
  <2>1. \A k \in 0..Len(events) :
          h[k] = IF k = 0 THEN known ELSE Consume(h[k - 1], events[k])
    BY <1>b, <1>c DEF Folds
  <2>2. Is(h)
    BY <1>b, <2>1 DEF Folds
  <2>3. QED
    BY <2>2
<1>2. Is(CHOOSE g : Is(g))
  BY <1>1
<1>3. After(known, events) = (CHOOSE g : Is(g))[Len(events)]
  BY DEF After, Fold
<1>4. QED
  BY <1>2, <1>3 DEF Consumed

(* Of two sequences that begin alike the consumer learns alike. *)
LEMMA ConsumedOnce ==
  ASSUME NEW known, NEW events, NEW more, NEW g, NEW h,
         Len(events) \in Nat, Len(more) \in Nat, Len(events) <= Len(more),
         \A k \in 1..Len(events) : more[k] = events[k],
         Consumed(h, known, events), Consumed(g, known, more)
  PROVE  \A k \in 0..Len(events) : g[k] = h[k]
<1> DEFINE S == {n \in Nat : n <= Len(events) => g[n] = h[n]}
<1>1. 0 \in S
  BY DEF Consumed
<1>2. ASSUME NEW n \in Nat, n \in S
      PROVE  n + 1 \in S
  <2>1. CASE n + 1 <= Len(events)
    <3>1. g[n] = h[n] /\ n + 1 \in 1..Len(events)
      BY <1>2, <2>1
    <3>2. h[n + 1] = Consume(h[n], events[n + 1])
      BY <3>1 DEF Consumed
    <3>3. g[n + 1] = Consume(g[n], more[n + 1])
      BY <3>1 DEF Consumed
    <3>4. QED
      BY <3>1, <3>2, <3>3
  <2>2. QED
    BY <2>1
<1>3. Nat \subseteq S
  <2> HIDE DEF S
  <2>1. QED
    BY <1>1, <1>2, NatSet
<1>4. QED
  BY <1>3

(* Without events nothing is learnt. *)
LEMMA AfterNone ==
  ASSUME NEW known
  PROVE  After(known, <<>>) = known
<1>1. Len(<<>>) = 0
  OBVIOUS
<1>2. QED
  BY <1>1, AfterIsConsumed DEF Consumed

(* One more event is consumed behind the others. *)
LEMMA AfterAppend ==
  ASSUME NEW known, NEW E, NEW events \in Seq(E), NEW e \in E
  PROVE  After(known, Append(events, e)) = Consume(After(known, events), e)
<1> DEFINE more == Append(events, e)
<1>1. /\ Len(events) \in Nat /\ Len(more) = Len(events) + 1
      /\ \A k \in 1..Len(events) : more[k] = events[k]
      /\ more[Len(events) + 1] = e
  OBVIOUS
<1> HIDE DEF more
<1>2. PICK h : Consumed(h, known, events) /\ After(known, events) = h[Len(events)]
  BY <1>1, AfterIsConsumed
<1>3. PICK g : Consumed(g, known, more) /\ After(known, more) = g[Len(more)]
  BY <1>1, AfterIsConsumed
<1>4. g[Len(events)] = h[Len(events)]
  BY <1>1, <1>2, <1>3, ConsumedOnce
<1>5. g[Len(more)] = Consume(g[Len(events)], e)
  BY <1>1, <1>3 DEF Consumed
<1>6. QED
  BY <1>2, <1>3, <1>4, <1>5 DEF more

(* The events of two calls are consumed one call after the other. *)
LEMMA AfterConcat ==
  ASSUME NEW known, NEW E, NEW events \in Seq(E), NEW more \in Seq(E)
  PROVE  After(known, events \o more) = After(After(known, events), more)
<1> DEFINE all == events \o more
           m == Len(events)
           n == Len(more)
<1>1. /\ m \in Nat /\ n \in Nat /\ Len(all) = m + n
      /\ \A k \in 1..m : all[k] = events[k]
      /\ \A k \in 1..n : all[m + k] = more[k]
  OBVIOUS
<1> HIDE DEF all, m, n
<1>2. PICK h : Consumed(h, known, events) /\ After(known, events) = h[m]
  BY <1>1, AfterIsConsumed DEF m
<1>3. PICK g : Consumed(g, known, all) /\ After(known, all) = g[m + n]
  BY <1>1, AfterIsConsumed
<1>4. PICK f : Consumed(f, h[m], more) /\ After(h[m], more) = f[n]
  BY <1>1, AfterIsConsumed DEF n
<1>5. g[m] = h[m]
  <2>1. m <= m + n
    BY <1>1
  <2>2. QED
    <3>1. \A k \in 0..m : g[k] = h[k]
      BY <1>1, <1>2, <1>3, <2>1, ConsumedOnce DEF m
    <3>2. QED
      BY <1>1, <3>1
<1> DEFINE S == {k \in Nat : k <= n => g[m + k] = f[k]}
<1>6. 0 \in S
  BY <1>1, <1>4, <1>5 DEF Consumed, n
<1>7. ASSUME NEW k \in Nat, k \in S
      PROVE  k + 1 \in S
  <2>1. CASE k + 1 <= n
    <3>1. g[m + k] = f[k] /\ k + 1 \in 1..n
      BY <1>1, <1>7, <2>1
    <3>2. f[k + 1] = Consume(f[k], more[k + 1])
      <4> DEFINE l == k + 1
      <4>1. l \in 0..n /\ l # 0 /\ l - 1 = k
        BY <1>1, <3>1
      <4> HIDE DEF l
      <4>2. f[l] = Consume(f[l - 1], more[l])
        BY <1>4, <4>1 DEF Consumed, n
      <4>3. QED
        BY <4>1, <4>2 DEF l
    <3>3. g[m + (k + 1)] = Consume(g[m + k], all[m + (k + 1)])
      <4> DEFINE l == m + (k + 1)
      <4>1. l \in 0..(m + n) /\ l # 0 /\ l - 1 = m + k
        BY <1>1, <3>1
      <4> HIDE DEF l
      <4>2. g[l] = Consume(g[l - 1], all[l])
        BY <1>1, <1>3, <4>1 DEF Consumed
      <4>3. QED
        BY <4>1, <4>2 DEF l
    <3>4. QED
      BY <1>1, <3>1, <3>2, <3>3
  <2>2. QED
    BY <1>1, <2>1
<1>8. n \in S
  <2> HIDE DEF S
  <2>1. QED
    BY <1>1, <1>6, <1>7, NatSet
<1>9. QED
  BY <1>1, <1>2, <1>3, <1>4, <1>8 DEF all

-----------------------------------------------------------------------------
(* The order in which calls are closed.                                    *)

IsOrder(s, S) ==
  /\ s \in [1..Cardinality(S) -> S]
  /\ {s[k] : k \in DOMAIN s} = S
  /\ \A k, l \in DOMAIN s : k < l => s[k] < s[l]

(* Every finite set of numbers can be put in order. *)
LEMMA OrderExists ==
  ASSUME NEW S \in SUBSET Nat, IsFiniteSet(S)
  PROVE  \E s : IsOrder(s, S)
<1> DEFINE
  Can(R) == \E s : IsOrder(s, R)
  N == {n \in Nat : \A R \in SUBSET Nat :
                      IsFiniteSet(R) /\ Cardinality(R) = n => Can(R)}
<1>1. 0 \in N
  <2> SUFFICES ASSUME NEW R \in SUBSET Nat, IsFiniteSet(R), Cardinality(R) = 0
               PROVE  Can(R)
    OBVIOUS
  <2>1. R = {}
    BY FS_EmptySet
  <2>2. 1..Cardinality(R) = {}
    OBVIOUS
  <2>3. IsOrder([k \in {} |-> 0], R)
    BY <2>1, <2>2 DEF IsOrder
  <2>4. QED
    BY <2>3
<1>2. ASSUME NEW n \in Nat, n \in N
      PROVE  n + 1 \in N
  <2> SUFFICES ASSUME NEW R \in SUBSET Nat, IsFiniteSet(R), Cardinality(R) = n + 1
               PROVE  Can(R)
    OBVIOUS
  <2>1. R # {}
    BY FS_EmptySet
  <2>2. PICK m \in R : \A x \in R : m <= x
    BY <2>1, NatMinimum
  <2> DEFINE Q == R \ {m}
  <2>3. IsFiniteSet(Q) /\ Cardinality(Q) = n
    <3>1. IsFiniteSet(R \ {m}) /\ Cardinality(R \ {m}) = Cardinality(R) - 1
      BY FS_RemoveElement
    <3>2. QED
      BY <3>1
  <2>4. PICK q : IsOrder(q, Q)
    BY <1>2, <2>3
  <2> DEFINE s == [k \in 1..(n + 1) |-> IF k = 1 THEN m ELSE q[k - 1]]
  <2> HIDE DEF Q
  <2>5. /\ q \in [1..n -> Q] /\ {q[k] : k \in 1..n} = Q
        /\ \A k, l \in 1..n : k < l => q[k] < q[l]
    BY <2>3, <2>4 DEF IsOrder
  <2>6. \A x \in Q : x \in R /\ m < x
    BY <2>2 DEF Q
  <2>7. \A k \in 2..(n + 1) : k - 1 \in 1..n /\ s[k] = q[k - 1] /\ s[k] \in Q
    BY <2>5
  <2>8. s[1] = m
    OBVIOUS
  <2>9. DOMAIN s = 1..(n + 1) /\ 1..(n + 1) = {1} \cup 2..(n + 1)
    OBVIOUS
  <2> HIDE DEF s
  <2>10. {s[k] : k \in 1..(n + 1)} = R
    <3>1. \A k \in 1..(n + 1) : s[k] \in R
      BY <2>6, <2>7, <2>8, <2>9
    <3>2. ASSUME NEW x \in R
          PROVE  \E k \in 1..(n + 1) : s[k] = x
      <4>1. CASE x = m
        BY <2>8, <2>9, <4>1
      <4>2. CASE x # m
        <5>1. PICK k \in 1..n : q[k] = x
          BY <2>5, <4>2 DEF Q
        <5>2. k + 1 \in 2..(n + 1) /\ (k + 1) - 1 = k
          OBVIOUS
        <5>3. QED
          BY <2>7, <2>9, <5>1, <5>2
      <4>3. QED
        BY <4>1, <4>2
    <3>3. QED
      BY <3>1, <3>2
  <2>11. ASSUME NEW k \in 1..(n + 1), NEW l \in 1..(n + 1), k < l
         PROVE  s[k] < s[l]
    <3>1. l \in 2..(n + 1)
      BY <2>11
    <3>2. CASE k = 1
      BY <2>6, <2>7, <2>8, <3>1, <3>2
    <3>3. CASE k \in 2..(n + 1)
      BY <2>5, <2>7, <2>11, <3>1, <3>3
    <3>4. QED
      BY <3>2, <3>3
  <2>12. s \in [1..(n + 1) -> R]
    BY <2>6, <2>7, <2>8, <2>9 DEF s
  <2>13. QED
    BY <2>9, <2>10, <2>11, <2>12 DEF IsOrder
<1>3. Cardinality(S) \in N
  <2>1. Cardinality(S) \in Nat
    BY FS_CardinalityType
  <2> HIDE DEF N
  <2>2. QED
    BY <1>1, <1>2, <2>1, NatSet
<1>4. QED
  BY <1>3

(* The instances count as the module does. *)
LEMMA OneCardinality ==
  ASSUME NEW S
  PROVE  /\ OpenAI!Cardinality(S) = Cardinality(S)
         /\ Anthropic!Cardinality(S) = Cardinality(S)
BY DEF Cardinality, OpenAI!Cardinality, Anthropic!Cardinality

(* Wherever the numbers of S are put in order, they are in order. *)
LEMMA OrdersChosen ==
  ASSUME NEW S \in SUBSET Index
  PROVE  /\ IsOrder(Ordered(S), S)
         /\ IsOrder(OpenAI!Ordered(S), S)
         /\ IsOrder(Anthropic!Ordered(S), S)
<1> DEFINE Chosen(n) == CHOOSE r \in [1..n -> S] :
                          /\ {r[k] : k \in DOMAIN r} = S
                          /\ \A k, l \in DOMAIN r : k < l => r[k] < r[l]
<1>1. S \in SUBSET Nat /\ IsFiniteSet(S)
  BY IndexAssumption, FS_Subset
<1>2. \E r \in [1..Cardinality(S) -> S] : IsOrder(r, S)
  BY <1>1, OrderExists DEF IsOrder
<1>3. \A n : n = Cardinality(S) => IsOrder(Chosen(n), S)
  BY <1>2 DEF IsOrder
<1>4. Ordered(S) = Chosen(Cardinality(S))
  BY DEF Ordered
<1>5. OpenAI!Ordered(S) = Chosen(OpenAI!Cardinality(S))
  BY DEF OpenAI!Ordered
<1>6. Anthropic!Ordered(S) = Chosen(Anthropic!Cardinality(S))
  BY DEF Anthropic!Ordered
<1> HIDE DEF Chosen
<1>7. QED
  BY <1>3, <1>4, <1>5, <1>6, OneCardinality

(* An order names each element once. *)
LEMMA OrderIs ==
  ASSUME NEW S \in SUBSET Index, NEW s, IsOrder(s, S)
  PROVE  /\ s \in Seq(S)
         /\ \A i \in S : \E k \in 1..Len(s) : s[k] = i
         /\ \A k, l \in 1..Len(s) : s[k] = s[l] => k = l
<1>1. S \in SUBSET Nat /\ IsFiniteSet(S)
  BY IndexAssumption, FS_Subset
<1>2. IsOrder(s, S)
  OBVIOUS
<1>3. Cardinality(S) \in Nat
  BY <1>1, FS_CardinalityType
<1>4. /\ s \in Seq(S) /\ Len(s) = Cardinality(S) /\ DOMAIN s = 1..Len(s)
  BY <1>2, <1>3 DEF IsOrder
<1>5. ASSUME NEW k \in 1..Len(s), NEW l \in 1..Len(s), s[k] = s[l]
      PROVE  k = l
  <2>1. s[k] \in Nat /\ s[l] \in Nat
    <3>1. s[k] \in S /\ s[l] \in S
      BY <1>4
    <3>2. QED
      BY <1>1, <3>1
  <2>2. ~(k < l) /\ ~(l < k)
    BY <1>2, <1>4, <1>5, <2>1 DEF IsOrder
  <2>3. QED
    BY <1>4, <2>2
<1>6. QED
  BY <1>2, <1>4, <1>5 DEF IsOrder

-----------------------------------------------------------------------------
(* The inductive invariant.                                                *)

(* What a call whose arguments are closed counts as.                        *)
EndOf(args) == IF Executable(args) THEN "use" ELSE "invalid"

(* What both providers have in common.                                      *)
TurnInv ==
  /\ turn.content \subseteq Blocks
  /\ seen.sealed <=> turn # NoTurn
  /\ stream = "ended" => turn # NoTurn
  /\ stream = "recovered" =>
       turn # NoTurn /\ turn.stop = "error" /\ turn.content # {}

(* A turn of an OpenAI-compatible provider.                                 *)
OpenAIStage(i) ==
  IF ~session.calls[i].started THEN "absent"
  ELSE IF turn = NoTurn THEN "open"
  ELSE EndOf(session.calls[i].args)

OpenAIShown(i) ==
  /\ session.calls[i].args = sent.args[i]
  /\ session.calls[i].id <=> i \in sent.ids
  /\ ~session.calls[i].started =>
       session.calls[i].args = "empty" /\ ~session.calls[i].id
  /\ seen.calls[i] = OpenAIStage(i)
  /\ seen.text[i] = IF i = 0 THEN session.text ELSE 0
  /\ seen.reasoning[i] = IF i = 0 THEN session.reasoning ELSE 0

OpenAITurn ==
  /\ sent.open = {}
  /\ session.done <=> turn # NoTurn
  /\ turn # NoTurn => turn.content = OpenAI!Content
  /\ stream = "reading" => turn = NoTurn
  /\ stream = "raised" => turn = NoTurn /\ ~OpenAI!HasPartialOutput

OpenAIInv ==
  provider = "openai" => OpenAITurn /\ \A i \in Index : OpenAIShown(i)

(* A turn of an Anthropic provider.                                         *)
AnthropicStage(i) ==
  IF session.kinds[i] # "tool_use" THEN "absent"
  ELSE IF i \in sent.open /\ turn.stop # "error" THEN "open"
  ELSE EndOf(session.args[i])

AnthropicShown(i) ==
  /\ session.args[i] = sent.args[i]
  /\ i \in sent.ids <=> session.kinds[i] = "tool_use"
  /\ session.kinds[i] # "tool_use" => session.args[i] = "empty"
  /\ session.kinds[i] \notin {"text", "thinking"} => session.size[i] = 0
  /\ seen.calls[i] = AnthropicStage(i)
  /\ seen.text[i] = IF session.kinds[i] = "text" THEN session.size[i] ELSE 0
  /\ seen.reasoning[i] = IF session.kinds[i] = "thinking" THEN session.size[i] ELSE 0
  /\ i \in session.stopped =>
       /\ session.kinds[i] # "none"
       /\ session.kinds[i] = "thinking" => session.signed[i]

AnthropicTurn ==
  /\ sent.open = Anthropic!Open
  /\ session.blocks = {Anthropic!BlockOf(i) : i \in session.stopped}
  /\ sent.phase \in {"finished", "closed"} => sent.open = {}
  /\ session.done <=> turn # NoTurn
  /\ stream = "reading" /\ turn # NoTurn => sent.phase = "closed"
  /\ turn # NoTurn =>
       turn.content = IF turn.stop = "error" THEN Anthropic!PartialBlocks
                      ELSE session.blocks
  /\ stream \in {"reading", "ended"} => turn.stop # "error"
  /\ stream = "raised" /\ turn = NoTurn => Anthropic!PartialBlocks = {}

AnthropicInv ==
  provider = "anthropic" => AnthropicTurn /\ \A i \in Index : AnthropicShown(i)

(* What holds in every state of a streamed turn.                           *)
StreamInv == TypeOK /\ TurnInv /\ OpenAIInv /\ AnthropicInv

(* What holds of its usage, where reports are clear.                       *)
UsageInv ==
  /\ session.usage = sent.usage
  /\ turn # NoTurn => turn.usage = sent.usage
  /\ provider = "anthropic" /\ sent.phase = "open" => sent.usage = Zero

(* The session's usage stays, and a turn that is done now has it. *)
UsageStays ==
  session'.usage = session.usage /\ (turn' = turn \/ turn'.usage = session.usage)

-----------------------------------------------------------------------------
(* What the invariant implies.                                             *)

(* The fields of the blocks by which they are told apart. *)
LEMMA BlockFields ==
  /\ \A i, n : /\ TextBlock(i, n).kind = "text" /\ TextBlock(i, n).index = i
               /\ ~TextBlock(i, n).signed
  /\ \A i, n, s : /\ ReasoningBlock(i, n, s).kind = "reasoning"
                  /\ ReasoningBlock(i, n, s).index = i
                  /\ ReasoningBlock(i, n, s).signed = s
  /\ \A i, id, a : /\ CallBlock(i, id, a).kind \in {"tool_use", "invalid"}
                   /\ CallBlock(i, id, a).kind = "tool_use" <=> Executable(a)
                   /\ CallBlock(i, id, a).index = i
                   /\ CallBlock(i, id, a).id = id
                   /\ CallBlock(i, id, a).args = a
BY DEF TextBlock, ReasoningBlock, CallBlock, Block

(* What the constructors of blocks make is a block. *)
LEMMA BlocksTyped ==
  ASSUME NEW i \in Index, NEW n \in Nat, NEW s \in BOOLEAN, NEW id \in BOOLEAN,
         NEW a \in Arguments
  PROVE  /\ TextBlock(i, n) \in Blocks /\ ReasoningBlock(i, n, s) \in Blocks
         /\ CallBlock(i, id, a) \in Blocks
BY DEF TextBlock, ReasoningBlock, CallBlock, Block, Blocks, BlockKinds, Arguments

(* The OpenAI session's blocks are the module's. *)
LEMMA OpenAIBlocks ==
  /\ \A i, n : OpenAI!TextBlock(i, n) = TextBlock(i, n)
  /\ \A i, n, s : OpenAI!ReasoningBlock(i, n, s) = ReasoningBlock(i, n, s)
  /\ \A i, id, a : OpenAI!CallBlock(i, id, a) = CallBlock(i, id, a)
  /\ \A a : OpenAI!Executable(a) = Executable(a)
BY DEF OpenAI!TextBlock, OpenAI!ReasoningBlock, OpenAI!CallBlock, OpenAI!Block,
   OpenAI!Executable, TextBlock, ReasoningBlock, CallBlock, Block, Executable

(* The Anthropic session's blocks are the module's. *)
LEMMA AnthropicBlocks ==
  /\ \A i, n : Anthropic!TextBlock(i, n) = TextBlock(i, n)
  /\ \A i, n, s : Anthropic!ReasoningBlock(i, n, s) = ReasoningBlock(i, n, s)
  /\ \A i, id, a : Anthropic!CallBlock(i, id, a) = CallBlock(i, id, a)
  /\ \A a : Anthropic!Executable(a) = Executable(a)
BY DEF Anthropic!TextBlock, Anthropic!ReasoningBlock, Anthropic!CallBlock,
   Anthropic!Block, Anthropic!Executable, TextBlock, ReasoningBlock, CallBlock, Block,
   Executable

(* What is in the content of an OpenAI turn. *)
LEMMA OpenAIContent ==
  ASSUME NEW b
  PROVE  b \in OpenAI!Content <=>
           \/ session.reasoning # 0 /\ b = ReasoningBlock(0, session.reasoning, FALSE)
           \/ session.text # 0 /\ b = TextBlock(0, session.text)
           \/ \E i \in Index : /\ session.calls[i].started
                               /\ b = CallBlock(i, session.calls[i].id, session.calls[i].args)
BY OpenAIBlocks DEF OpenAI!Content, OpenAI!Started

(* The block of an index, by its kind. *)
LEMMA AnthropicBlockOf ==
  ASSUME NEW i
  PROVE  /\ session.kinds[i] = "text" =>
              Anthropic!BlockOf(i) = TextBlock(i, session.size[i])
         /\ session.kinds[i] = "tool_use" =>
              Anthropic!BlockOf(i) = CallBlock(i, TRUE, session.args[i])
         /\ session.kinds[i] = "redacted_thinking" =>
              Anthropic!BlockOf(i) = ReasoningBlock(i, 0, TRUE)
         /\ session.kinds[i] \notin {"text", "tool_use", "redacted_thinking"} =>
              Anthropic!BlockOf(i)
                = ReasoningBlock(i, session.size[i], session.signed[i])
BY AnthropicBlocks DEF Anthropic!BlockOf

(* A block knows its index, and is a call where its kind is. *)
LEMMA AnthropicBlockIndex ==
  ASSUME NEW i
  PROVE  /\ Anthropic!BlockOf(i).index = i
         /\ Anthropic!BlockOf(i).kind \in {"tool_use", "invalid"} <=>
              session.kinds[i] = "tool_use"
<1>1. CASE session.kinds[i] = "text"
  <2>1. Anthropic!BlockOf(i) = TextBlock(i, session.size[i])
    BY <1>1, AnthropicBlockOf
  <2>2. QED
    BY <1>1, <2>1, BlockFields
<1>2. CASE session.kinds[i] = "tool_use"
  <2>1. Anthropic!BlockOf(i) = CallBlock(i, TRUE, session.args[i])
    BY <1>2, AnthropicBlockOf
  <2>2. PICK b : b = CallBlock(i, TRUE, session.args[i])
    OBVIOUS
  <2>3. b.index = i /\ b.kind \in {"tool_use", "invalid"}
    BY <2>2 DEF CallBlock, Block
  <2>4. QED
    BY <1>2, <2>1, <2>2, <2>3
<1>3. CASE session.kinds[i] \notin {"text", "tool_use"}
  <2>1. \E n, signed : Anthropic!BlockOf(i) = ReasoningBlock(i, n, signed)
    BY <1>3, AnthropicBlockOf
  <2>2. QED
    BY <1>3, <2>1, BlockFields
<1>4. QED
  BY <1>1, <1>2, <1>3

(* A block of an OpenAI turn, by its kind. *)
LEMMA OpenAIContentKinds ==
  ASSUME NEW b \in OpenAI!Content
  PROVE  /\ b.kind = "text" => session.text # 0 /\ b = TextBlock(0, session.text)
         /\ b.kind = "reasoning" =>
              session.reasoning # 0 /\ b = ReasoningBlock(0, session.reasoning, FALSE)
         /\ b.kind \in {"tool_use", "invalid"} =>
              \E i \in Index : /\ session.calls[i].started
                              /\ b = CallBlock(i, session.calls[i].id, session.calls[i].args)
<1>1. CASE session.reasoning # 0 /\ b = ReasoningBlock(0, session.reasoning, FALSE)
  <2>1. b.kind = "reasoning"
    BY <1>1 DEF ReasoningBlock, Block
  <2>2. QED
    BY <1>1, <2>1
<1>2. CASE session.text # 0 /\ b = TextBlock(0, session.text)
  <2>1. b.kind = "text"
    BY <1>2, BlockFields
  <2>2. QED
    BY <1>2, <2>1
<1>3. CASE \E i \in Index : /\ session.calls[i].started
                            /\ b = CallBlock(i, session.calls[i].id, session.calls[i].args)
  <2>1. b.kind \in {"tool_use", "invalid"}
    BY <1>3, BlockFields
  <2>2. QED
    BY <1>3, <2>1
<1>4. QED
  BY <1>1, <1>2, <1>3, OpenAIContent

(* The blocks of an Anthropic turn that its content holds. *)
(* The indices whose blocks are in the content of an Anthropic turn. *)
Closed ==
  session.stopped \cup (IF turn.stop = "error" THEN Anthropic!Kept ELSE {})

(* The content of an Anthropic turn is the blocks that were closed. *)
LEMMA AnthropicContent ==
  ASSUME AnthropicTurn, turn # NoTurn, NEW b
  PROVE  b \in turn.content <=> \E i \in Closed : b = Anthropic!BlockOf(i)
BY DEF AnthropicTurn, Closed, Anthropic!PartialBlocks

(* A closed block was opened. *)
LEMMA ClosedIs ==
  ASSUME StreamInv, provider = "anthropic", NEW i \in Closed
  PROVE  i \in Index /\ session.kinds[i] # "none"
BY DEF StreamInv, AnthropicInv, AnthropicShown, AnthropicTurn, TypeOK, Closed,
   Anthropic!Kept, Anthropic!Open, Anthropic!Session

(* There are two providers. *)
LEMMA Provider == TypeOK => provider \in {"openai", "anthropic"}
BY StreamConstants DEF TypeOK

(* The block of a call, as its provider sent it. *)
CallSent(i) == CallBlock(i, i \in sent.ids, sent.args[i])

(* An OpenAI session has the id and the arguments of a call as they were sent. *)
LEMMA OpenAICallSent ==
  ASSUME StreamInv, provider = "openai", NEW i \in Index
  PROVE  CallBlock(i, session.calls[i].id, session.calls[i].args) = CallSent(i)
<1>1. session.calls[i].id \in BOOLEAN
  BY DEF StreamInv, TypeOK, OpenAI!Session, OpenAI!Entry
<1>2. /\ session.calls[i].id <=> i \in sent.ids
      /\ session.calls[i].args = sent.args[i]
  BY DEF StreamInv, OpenAIInv, OpenAIShown
<1>3. PICK id \in BOOLEAN : id = session.calls[i].id
  BY <1>1
<1>4. id = (i \in sent.ids)
  BY <1>2, <1>3
<1>5. QED
  BY <1>2, <1>3, <1>4 DEF CallSent

(* An Anthropic call comes with its id. *)
LEMMA AnthropicCallSent ==
  ASSUME NEW i, AnthropicShown(i), session.kinds[i] = "tool_use"
  PROVE  CallBlock(i, TRUE, session.args[i]) = CallSent(i)
<1>1. (i \in sent.ids) = TRUE
  BY DEF AnthropicShown
<1>2. QED
  BY <1>1 DEF AnthropicShown, CallSent

(* The consumer saw the call end. *)
ClosedCall(i) == seen.calls[i] \in {"use", "invalid"}

(* Its fields. *)
LEMMA CallSentFields ==
  ASSUME NEW i
  PROVE  /\ CallSent(i).kind \in {"tool_use", "invalid"}
         /\ CallSent(i).kind = "tool_use" <=> Executable(sent.args[i])
         /\ CallSent(i).index = i /\ CallSent(i).args = sent.args[i]
         /\ CallSent(i).id = (i \in sent.ids)
BY BlockFields DEF CallSent

(* The calls of a turn's content are those the consumer saw end, as they ended. *)
LEMMA CallsOfTurn ==
  ASSUME StreamInv, turn # NoTurn
  PROVE  /\ \A b \in turn.content : b.kind \in {"tool_use", "invalid"} =>
              \E i \in Index : ClosedCall(i) /\ b = CallSent(i)
         /\ \A i \in Index : ClosedCall(i) =>
              /\ CallSent(i) \in turn.content
              /\ seen.calls[i] = EndOf(sent.args[i])
<1>1. CASE provider = "openai"
  <2>1. OpenAITurn /\ \A i \in Index : OpenAIShown(i)
    BY <1>1 DEF StreamInv, OpenAIInv
  <2>2. ASSUME NEW b \in turn.content, b.kind \in {"tool_use", "invalid"}
        PROVE  \E i \in Index : ClosedCall(i) /\ b = CallSent(i)
    <3>1. PICK i \in Index : session.calls[i].started
                             /\ b = CallBlock(i, session.calls[i].id, session.calls[i].args)
      BY <2>1, <2>2, OpenAIContentKinds DEF OpenAITurn
    <3>2. b = CallSent(i)
      BY <1>1, <3>1, OpenAICallSent
    <3>3. QED
      BY <2>1, <2>2, <3>1, <3>2 DEF OpenAIShown, OpenAIStage, EndOf, ClosedCall
  <2>3. ASSUME NEW i \in Index, ClosedCall(i)
        PROVE  /\ CallSent(i) \in turn.content
               /\ seen.calls[i] = EndOf(sent.args[i])
    <3>1. session.calls[i].started /\ session.calls[i].args = sent.args[i]
          /\ seen.calls[i] = EndOf(sent.args[i])
      BY <2>1, <2>3 DEF OpenAIShown, OpenAIStage, ClosedCall
    <3>2. CallBlock(i, session.calls[i].id, session.calls[i].args) \in turn.content
      BY <2>1, <3>1, OpenAIContent DEF OpenAITurn
    <3>3. QED
      BY <1>1, <3>1, <3>2, OpenAICallSent
  <2>4. QED
    BY <2>2, <2>3
<1>2. CASE provider = "anthropic"
  <2>1. AnthropicTurn /\ \A i \in Index : AnthropicShown(i)
    BY <1>2 DEF StreamInv, AnthropicInv
  <2>2. ASSUME NEW b \in turn.content, b.kind \in {"tool_use", "invalid"}
        PROVE  \E i \in Index : ClosedCall(i) /\ b = CallSent(i)
    <3>1. PICK i \in Closed : b = Anthropic!BlockOf(i)
      BY <2>1, AnthropicContent
    <3>2. i \in Index
      BY <1>2, ClosedIs
    <3>3. session.kinds[i] = "tool_use"
      BY <2>2, <3>1, AnthropicBlockIndex
    <3>4. b = CallSent(i)
      BY <2>1, <3>1, <3>2, <3>3, AnthropicBlockOf, AnthropicCallSent
    <3>5. i \notin sent.open \/ turn.stop = "error"
      BY <2>1 DEF AnthropicTurn, Anthropic!Open, Closed
    <3>6. ClosedCall(i)
      BY <2>1, <3>2, <3>3, <3>5 DEF AnthropicShown, AnthropicStage, ClosedCall, EndOf
    <3>7. QED
      BY <3>2, <3>4, <3>6
  <2>3. ASSUME NEW i \in Index, ClosedCall(i)
        PROVE  /\ CallSent(i) \in turn.content
               /\ seen.calls[i] = EndOf(sent.args[i])
    <3>1. /\ session.kinds[i] = "tool_use" /\ session.args[i] = sent.args[i]
          /\ i \notin sent.open \/ turn.stop = "error"
          /\ seen.calls[i] = EndOf(sent.args[i])
      BY <2>1, <2>3 DEF AnthropicShown, AnthropicStage, ClosedCall
    <3>2. i \in Closed
      BY <2>1, <3>1 DEF AnthropicTurn, Closed, Anthropic!Open, Anthropic!Kept
    <3>3. QED
      BY <2>1, <3>1, <3>2, AnthropicContent, AnthropicBlockOf, AnthropicCallSent
  <2>4. QED
    BY <2>2, <2>3
<1>3. QED
  BY <1>1, <1>2, Provider DEF StreamInv

(* The calls the kernel executes are those that ended as calls to execute. *)
LEMMA ExecutesEnded ==
  ASSUME StreamInv, stream \in {"ended", "recovered"}
  PROVE  ToExecute = {i \in Index : seen.calls[i] = "use"}
<1>1. turn # NoTurn
  BY DEF StreamInv, TurnInv
<1>2. \A a : EndOf(a) = "use" <=> Executable(a)
  BY DEF EndOf
<1>3. ASSUME NEW i \in ToExecute
      PROVE  i \in Index /\ seen.calls[i] = "use"
  <2>1. PICK b \in turn.content : b.kind = "tool_use" /\ b.index = i
    BY DEF ToExecute
  <2>2. PICK j \in Index : ClosedCall(j) /\ b = CallSent(j)
    BY <1>1, <2>1, CallsOfTurn
  <2>3. seen.calls[j] = EndOf(sent.args[j])
    BY <1>1, <2>2, CallsOfTurn
  <2>4. QED
    BY <1>2, <2>1, <2>2, <2>3, CallSentFields
<1>4. ASSUME NEW i \in Index, seen.calls[i] = "use"
      PROVE  i \in ToExecute
  <2>1. ClosedCall(i)
    BY <1>4 DEF ClosedCall
  <2>2. /\ CallSent(i) \in turn.content
        /\ seen.calls[i] = EndOf(sent.args[i])
    BY <1>1, <2>1, CallsOfTurn
  <2>3. CallSent(i).kind = "tool_use"
        /\ CallSent(i).index = i
    BY <1>2, <1>4, <2>2, CallSentFields
  <2>4. QED
    BY <2>2, <2>3 DEF ToExecute
<1>5. QED
  BY <1>3, <1>4

(* The stream invariant has no call run with half of its arguments, and none whose *)
(* block was not stopped, save of a turn that broke.                               *)
LEMMA NoHalves ==
  StreamInv => NoHalfArgumentsRun
<1> SUFFICES ASSUME StreamInv, NEW b \in turn.content, b.kind = "tool_use"
             PROVE  /\ b.args = sent.args[b.index] /\ b.args # "part"
                    /\ b.index \in sent.open => turn.stop = "error"
  BY DEF NoHalfArgumentsRun
<1>1. turn # NoTurn
  BY DEF NoTurn
<1>2. PICK i \in Index : ClosedCall(i) /\ b = CallSent(i)
  BY <1>1, CallsOfTurn
<1>3. b.index = i /\ b.args = sent.args[i] /\ Executable(b.args)
  BY <1>2, CallSentFields
<1>4. i \in sent.open => turn.stop = "error"
  <2>1. CASE provider = "openai"
    BY <2>1 DEF StreamInv, OpenAIInv, OpenAITurn
  <2>2. CASE provider = "anthropic"
    BY <1>2, <2>2 DEF StreamInv, AnthropicInv, AnthropicShown, AnthropicStage, ClosedCall
  <2>3. QED
    BY <2>1, <2>2, Provider DEF StreamInv
<1>5. QED
  BY <1>3, <1>4 DEF Executable

(* A call that was announced has ended, unless its block was left open. *)
LEMMA AnnouncedEnds ==
  ASSUME StreamInv, turn # NoTurn, NEW i \in Index, seen.calls[i] # "absent",
         i \notin sent.open \/ turn.stop = "error"
  PROVE  ClosedCall(i)
<1>1. CASE provider = "openai"
  BY <1>1 DEF StreamInv, OpenAIInv, OpenAIShown, OpenAIStage, EndOf, ClosedCall
<1>2. CASE provider = "anthropic"
  BY <1>2 DEF StreamInv, AnthropicInv, AnthropicShown, AnthropicStage, EndOf, ClosedCall
<1>3. QED
  BY <1>1, <1>2, Provider DEF StreamInv

(* The stream invariant has everything streamed in the content. *)
LEMMA StreamedIs ==
  StreamInv => ContentIsWhatWasStreamed
<1> SUFFICES ASSUME StreamInv, turn # NoTurn, NEW i \in Index,
                    i \notin sent.open \/ turn.stop = "error"
             PROVE  /\ seen.text[i] > 0 =>
                         BlocksOf(i, {"text"}) = {TextBlock(i, seen.text[i])}
                    /\ seen.reasoning[i] > 0 =>
                         \E signed \in BOOLEAN :
                           BlocksOf(i, {"reasoning"})
                             = {ReasoningBlock(i, seen.reasoning[i], signed)}
                    /\ seen.calls[i] # "absent" =>
                         BlocksOf(i, {"tool_use", "invalid"}) = {CallSent(i)}
  BY DEF ContentIsWhatWasStreamed, CallSent
<1>1. ASSUME seen.calls[i] # "absent"
      PROVE  BlocksOf(i, {"tool_use", "invalid"}) = {CallSent(i)}
  <2>1. ClosedCall(i)
    BY <1>1, AnnouncedEnds
  <2>2. CallSent(i) \in turn.content
    BY <2>1, CallsOfTurn
  <2>3. \A b \in BlocksOf(i, {"tool_use", "invalid"}) : b = CallSent(i)
    BY CallsOfTurn, CallSentFields DEF BlocksOf
  <2>4. CallSent(i) \in BlocksOf(i, {"tool_use", "invalid"})
    BY <2>2, CallSentFields DEF BlocksOf
  <2>5. QED
    BY <2>3, <2>4
<1>2. CASE provider = "openai"
  <2>1. OpenAITurn /\ OpenAIShown(i)
    BY <1>2 DEF StreamInv, OpenAIInv
  <2>2. session.text \in Nat /\ session.reasoning \in Nat
    BY <1>2 DEF StreamInv, TypeOK, OpenAI!Session
  <2>3. ASSUME seen.text[i] > 0
        PROVE  BlocksOf(i, {"text"}) = {TextBlock(i, seen.text[i])}
    <3>1. i = 0 /\ seen.text[i] = session.text /\ session.text # 0
      BY <2>1, <2>2, <2>3 DEF OpenAIShown
    <3>2. TextBlock(0, session.text) \in turn.content
      BY <2>1, <3>1, OpenAIContent DEF OpenAITurn
    <3>3. ASSUME NEW b \in turn.content, b.kind = "text"
          PROVE  b = TextBlock(0, session.text)
      BY <2>1, <3>3, OpenAIContentKinds DEF OpenAITurn
    <3>4. QED
      BY <3>1, <3>2, <3>3, BlockFields DEF BlocksOf
  <2>4. ASSUME seen.reasoning[i] > 0
        PROVE  BlocksOf(i, {"reasoning"})
                 = {ReasoningBlock(i, seen.reasoning[i], FALSE)}
    <3>1. i = 0 /\ seen.reasoning[i] = session.reasoning /\ session.reasoning # 0
      BY <2>1, <2>2, <2>4 DEF OpenAIShown
    <3>2. ReasoningBlock(0, session.reasoning, FALSE) \in turn.content
      BY <2>1, <3>1, OpenAIContent DEF OpenAITurn
    <3>3. ASSUME NEW b \in turn.content, b.kind = "reasoning"
          PROVE  b = ReasoningBlock(0, session.reasoning, FALSE)
      BY <2>1, <3>3, OpenAIContentKinds DEF OpenAITurn
    <3>4. QED
      <4> DEFINE block == ReasoningBlock(0, session.reasoning, FALSE)
      <4>1. block.kind = "reasoning" /\ block.index = 0
        BY DEF ReasoningBlock, Block
      <4> HIDE DEF block
      <4>2. BlocksOf(0, {"reasoning"}) = {block}
        BY <3>2, <3>3, <4>1 DEF BlocksOf, block
      <4>3. QED
        BY <3>1, <4>2 DEF block
  <2>5. QED
    BY <1>1, <2>3, <2>4
<1>3. CASE provider = "anthropic"
  <2>1. AnthropicTurn /\ AnthropicShown(i)
    BY <1>3 DEF StreamInv, AnthropicInv
  <2>2. session.size[i] \in Nat /\ session.signed[i] \in BOOLEAN
        /\ session.kinds[i] \in Anthropic!Kinds \cup {"none"}
    BY <1>3 DEF StreamInv, TypeOK, Anthropic!Session
  <2>3. ASSUME session.kinds[i] \in {"text", "thinking"}, session.size[i] > 0
        PROVE  i \in Closed
    BY <2>1, <2>2, <2>3 DEF AnthropicTurn, Closed, Anthropic!Open, Anthropic!Kept
  <2>4. ASSUME NEW b \in turn.content, b.index = i
        PROVE  b = Anthropic!BlockOf(i)
    <3>1. PICK j \in Closed : b = Anthropic!BlockOf(j)
      BY <2>1, AnthropicContent
    <3>2. Anthropic!BlockOf(j).index = j
      BY AnthropicBlockIndex
    <3>3. QED
      BY <2>4, <3>1, <3>2
  <2>5. ASSUME i \in Closed
        PROVE  Anthropic!BlockOf(i) \in turn.content /\ Anthropic!BlockOf(i).index = i
    BY <2>1, <2>5, AnthropicContent, AnthropicBlockIndex
  <2>6. ASSUME NEW kind, i \in Closed, Anthropic!BlockOf(i).kind = kind
        PROVE  BlocksOf(i, {kind}) = {Anthropic!BlockOf(i)}
    BY <2>4, <2>5, <2>6 DEF BlocksOf
  <2>7. ASSUME seen.text[i] > 0
        PROVE  BlocksOf(i, {"text"}) = {TextBlock(i, seen.text[i])}
    <3>1. session.kinds[i] = "text" /\ session.size[i] > 0
          /\ seen.text[i] = session.size[i]
      BY <2>1, <2>7 DEF AnthropicShown
    <3>2. Anthropic!BlockOf(i) = TextBlock(i, seen.text[i])
      BY <3>1, AnthropicBlockOf
    <3>3. QED
      BY <2>3, <2>6, <3>1, <3>2, BlockFields
  <2>8. ASSUME seen.reasoning[i] > 0
        PROVE  BlocksOf(i, {"reasoning"})
                 = {ReasoningBlock(i, seen.reasoning[i], session.signed[i])}
    <3>1. session.kinds[i] = "thinking" /\ session.size[i] > 0
          /\ seen.reasoning[i] = session.size[i]
      BY <2>1, <2>8 DEF AnthropicShown
    <3>2. Anthropic!BlockOf(i)
            = ReasoningBlock(i, seen.reasoning[i], session.signed[i])
      BY <3>1, AnthropicBlockOf
    <3>3. QED
      BY <2>3, <2>6, <3>1, <3>2, BlockFields
  <2>9. QED
    BY <1>1, <2>2, <2>7, <2>8
<1>4. QED
  BY <1>2, <1>3, Provider DEF StreamInv

(* The stream invariant has a broken stream told from a finished one. *)
LEMMA BrokenShows ==
  StreamInv => BrokenStreamShows
<1> SUFFICES ASSUME StreamInv
             PROVE  BrokenStreamShows
  OBVIOUS
<1>1. ASSUME stream = "raised", turn = NoTurn, NEW i \in Index
      PROVE  seen.text[i] = 0 /\ seen.reasoning[i] = 0 /\ seen.calls[i] = "absent"
  <2>1. CASE provider = "openai"
    <3>1. OpenAITurn /\ OpenAIShown(i)
      BY <2>1 DEF StreamInv, OpenAIInv
    <3>2. session.text \in Nat /\ session.reasoning \in Nat
      BY <2>1 DEF StreamInv, TypeOK, OpenAI!Session
    <3>3. session.text = 0 /\ session.reasoning = 0 /\ ~session.calls[i].started
      BY <1>1, <3>1, <3>2 DEF OpenAITurn, OpenAI!HasPartialOutput, OpenAI!Started
    <3>4. QED
      BY <3>1, <3>3 DEF OpenAIShown, OpenAIStage
  <2>2. CASE provider = "anthropic"
    <3>1. AnthropicTurn /\ AnthropicShown(i)
      BY <2>2 DEF StreamInv, AnthropicInv
    <3>2. session.size[i] \in Nat /\ session.stopped \subseteq Index
          /\ session.kinds[i] \in Anthropic!Kinds \cup {"none"}
      BY <2>2 DEF StreamInv, TypeOK, Anthropic!Session
    <3>3. session.stopped = {} /\ Anthropic!Kept = {}
      BY <1>1, <3>1 DEF AnthropicTurn, Anthropic!PartialBlocks
    <3>4. session.kinds[i] \in {"text", "thinking"} => session.size[i] = 0
      BY <3>2, <3>3 DEF Anthropic!Kept, Anthropic!Open
    <3>5. session.kinds[i] # "tool_use"
      BY <3>3 DEF Anthropic!Kept, Anthropic!Open
    <3>6. QED
      BY <3>1, <3>4, <3>5 DEF AnthropicShown, AnthropicStage
  <2>3. QED
    BY <2>1, <2>2, Provider DEF StreamInv
<1>2. QED
  BY <1>1 DEF StreamInv, TurnInv, BrokenStreamShows

(* The stream invariant has every thinking of a finished turn signed. *)
LEMMA SentBack ==
  StreamInv => FinishedTurnCanBeSent
<1> SUFFICES ASSUME StreamInv, stream = "ended", provider = "anthropic",
                    NEW b \in turn.content, b.kind = "reasoning"
             PROVE  b.signed
  BY DEF FinishedTurnCanBeSent, Unsendable, Unsigned
<1>1. AnthropicTurn /\ \A i \in Index : AnthropicShown(i)
  BY DEF StreamInv, AnthropicInv
<1>2. turn # NoTurn /\ turn.stop # "error"
  BY <1>1 DEF StreamInv, TurnInv, AnthropicTurn
<1>3. PICK i \in session.stopped : b = Anthropic!BlockOf(i)
  BY <1>1, <1>2, AnthropicContent DEF Closed
<1>4. /\ i \in Index /\ session.kinds[i] # "none"
      /\ session.kinds[i] \in Anthropic!Kinds \cup {"none"}
      /\ session.kinds[i] = "thinking" => session.signed[i]
  BY <1>1 DEF StreamInv, TypeOK, Anthropic!Session, AnthropicShown
<1>5. CASE session.kinds[i] = "thinking"
  <2>1. b = ReasoningBlock(i, session.size[i], session.signed[i])
    BY <1>3, <1>5, AnthropicBlockOf
  <2>2. QED
    BY <1>4, <1>5, <2>1, BlockFields
<1>6. CASE session.kinds[i] = "redacted_thinking"
  <2>1. b = ReasoningBlock(i, 0, TRUE)
    BY <1>3, <1>6, AnthropicBlockOf
  <2>2. QED
    BY <2>1 DEF ReasoningBlock, Block
<1>7. CASE session.kinds[i] = "text"
  <2>1. b = TextBlock(i, session.size[i])
    BY <1>3, <1>7, AnthropicBlockOf
  <2>2. QED
    BY <2>1, BlockFields
<1>8. CASE session.kinds[i] = "tool_use"
  BY <1>3, <1>8, AnthropicBlockIndex
<1>9. QED
  BY <1>4, <1>5, <1>6, <1>7, <1>8 DEF Anthropic!Kinds

(* The ids of the calls that are executed, call by call. *)
LEMMA IdsOfTurn ==
  ASSUME StreamInv, ToExecute # {}
  PROVE  LET order == Ordered(ToExecute)
             ids == CallIds(turn.content)
         IN  /\ order \in Seq(ToExecute)
             /\ \A i \in ToExecute : \E k \in 1..Len(order) : order[k] = i
             /\ \A k, l \in 1..Len(order) : order[k] = order[l] => k = l
             /\ ids = [k \in 1..Len(order) |-> IdSent(order[k])]
             /\ CallsOf(turn.content) # {} /\ ToExecute \subseteq Index
<1> DEFINE calls == CallsOf(turn.content)
           order == Ordered(ToExecute)
<1>1. /\ stream \in {"ended", "recovered"} /\ ToExecute = {b.index : b \in calls}
      /\ calls # {}
  BY DEF ToExecute, CallsOf
<1>2. ToExecute \subseteq Index /\ turn # NoTurn
  BY <1>1, ExecutesEnded DEF StreamInv, TurnInv
<1>3. /\ order \in Seq(ToExecute)
      /\ \A i \in ToExecute : \E k \in 1..Len(order) : order[k] = i
      /\ \A k, l \in 1..Len(order) : order[k] = order[l] => k = l
  <2>1. IsOrder(order, ToExecute)
    BY <1>2, OrdersChosen
  <2> HIDE DEF order
  <2>2. QED
    BY <1>2, <2>1, OrderIs
<1>4. \A b \in calls : b = CallSent(b.index)
  <2>1. ASSUME NEW b \in calls
        PROVE  b = CallSent(b.index)
    <3>1. PICK i \in Index : b = CallSent(i)
      BY <1>2, CallsOfTurn DEF CallsOf
    <3>2. QED
      BY <3>1, CallSentFields
  <2>2. QED
    BY <2>1
<1>5. ASSUME NEW i \in ToExecute
      PROVE  IdOf(CHOOSE b \in calls : b.index = i) = IdSent(i)
  <2>1. PICK b \in calls : b = (CHOOSE c \in calls : c.index = i) /\ b.index = i
    BY <1>1
  <2>2. b = CallSent(i)
    BY <1>4, <2>1
  <2>3. b.id <=> i \in sent.ids
    BY <2>2, CallSentFields
  <2>4. IdOf(b) = IdSent(i)
    BY <2>1, <2>3 DEF IdOf, IdSent
  <2>5. QED
    BY <2>1, <2>4
<1>6. CallIds(turn.content) = [k \in 1..Len(order) |-> IdSent(order[k])]
  <2>1. CallIds(turn.content)
          = [k \in 1..Len(order) |-> IdOf(CHOOSE b \in calls : b.index = order[k])]
    BY <1>1 DEF CallIds
  <2>2. \A k \in 1..Len(order) : order[k] \in ToExecute
    BY <1>3
  <2> HIDE DEF order, calls
  <2>3. QED
    BY <1>5, <2>1, <2>2
<1>7. QED
  BY <1>1, <1>2, <1>3, <1>6

(* The stream invariant has calls and results paired by their ids, where they can be. *)
LEMMA CallsPaired ==
  StreamInv => RequestPairsCalls
<1> SUFFICES ASSUME StreamInv, ToExecute # {}
             PROVE  RequestPairsCalls
  BY DEF RequestPairsCalls
<1> DEFINE order == Ordered(ToExecute)
           ids == CallIds(turn.content)
           n == Len(order)
           text == TextsOf(turn.content) # {}
           request == Request(provider, turn.content)
           Calls(k) == {request[k].calls[m] : m \in 1..Len(request[k].calls)}
<1>1. /\ order \in Seq(ToExecute)
      /\ \A i \in ToExecute : \E k \in 1..n : order[k] = i
      /\ \A k, l \in 1..n : order[k] = order[l] => k = l
      /\ ids = [k \in 1..n |-> IdSent(order[k])]
      /\ CallsOf(turn.content) # {} /\ ToExecute \subseteq Index
  BY IdsOfTurn
<1>2. PICK role : request = <<Message("assistant", text, ids, NoResult)>>
                              \o Results(role, turn.content)
  BY <1>1 DEF Request, OpenAIAssistant, AnthropicAssistant
<1> DEFINE results == [k \in 1..n |-> Message(role, FALSE, <<>>, ids[k])]
<1>3. n \in Nat /\ \A k \in 1..n : order[k] \in ToExecute
  BY <1>1
<1>4. Results(role, turn.content) = results
  <2>1. Len(ids) = n
    BY <1>1, <1>3
  <2>2. QED
    BY <2>1 DEF Results
<1>5. Len(results) = n /\ results \in Seq({results[k] : k \in 1..n})
  <2> DEFINE M == {results[k] : k \in 1..n}
  <2>1. results \in [1..n -> M]
    OBVIOUS
  <2> HIDE DEF results, M, n
  <2>2. Len(results) = n /\ results \in Seq(M)
    BY <1>3, <2>1
  <2>3. QED
    BY <2>2 DEF M
<1>6. /\ Len(request) = n + 1
      /\ request[1].calls = ids /\ request[1].result = NoResult
      /\ \A k \in 1..n : request[k + 1].calls = <<>> /\ request[k + 1].result = ids[k]
  BY <1>2, <1>3, <1>4, <1>5 DEF Message
<1>7. /\ Len(ids) = n
      /\ \A k \in 1..n : ids[k] = IdSent(order[k])
  BY <1>1, <1>3
<1>8. PairingFails(ids, ResultIds(turn.content)) <=>
        \E k, l \in 1..n : k # l /\ ids[k] = ids[l]
  <2>1. ResultIds(turn.content) = ids
    BY DEF ResultIds
  <2> HIDE DEF ids, n
  <2>2. QED
    BY <1>7, <2>1 DEF PairingFails
<1> HIDE DEF request, results, order, n, ids
<1>9. ASSUME NEW i \in ToExecute, NEW j \in ToExecute
      PROVE  /\ IdSent(i) = IdSent(j) <=> i = j \/ {i, j} \cap sent.ids = {}
             /\ IdSent(i) # NoResult
  BY <1>1, IndexAssumption DEF IdSent, NoId, NoResult
<1>10. (\E k, l \in 1..n : k # l /\ ids[k] = ids[l]) <=>
         \E i, j \in ToExecute : i # j /\ {i, j} \cap sent.ids = {}
  <2>1. ASSUME NEW k \in 1..n, NEW l \in 1..n, k # l, ids[k] = ids[l]
        PROVE  \E i, j \in ToExecute : i # j /\ {i, j} \cap sent.ids = {}
    <3>1. /\ order[k] \in ToExecute /\ order[l] \in ToExecute /\ order[k] # order[l]
          /\ IdSent(order[k]) = IdSent(order[l])
      BY <1>1, <1>3, <1>7, <2>1
    <3>2. QED
      BY <1>9, <3>1
  <2>2. ASSUME NEW i \in ToExecute, NEW j \in ToExecute, i # j, {i, j} \cap sent.ids = {}
        PROVE  \E k, l \in 1..n : k # l /\ ids[k] = ids[l]
    <3>1. PICK k \in 1..n, l \in 1..n : order[k] = i /\ order[l] = j
      BY <1>1
    <3>2. ids[k] = ids[l] /\ k # l
      BY <1>7, <1>9, <2>2, <3>1
    <3>3. QED
      BY <3>2
  <2>3. QED
    BY <2>1, <2>2
<1>11. \A m \in 1..Len(request) : m = 1 \/ \E k \in 1..n : m = k + 1
  <2>1. ASSUME NEW m \in 1..Len(request), m # 1
        PROVE  m - 1 \in 1..n /\ m = (m - 1) + 1
    BY <1>3, <1>6, <2>1
  <2>2. QED
    BY <2>1
<1>12. 1 \in 1..Len(request) /\ \A k \in 1..n : k + 1 \in 1..Len(request)
  BY <1>3, <1>6
<1>13. /\ \A i \in ToExecute : IdSent(i) \in Calls(1)
       /\ \A x \in Calls(1) : \E i \in ToExecute : x = IdSent(i)
       /\ \A k \in 1..n : Calls(k + 1) = {}
  <2>1. Calls(1) = {ids[m] : m \in 1..n}
    BY <1>6, <1>7
  <2>2. \A k \in 1..n : Calls(k + 1) = {}
    <3>1. Len(<<>>) = 0
      OBVIOUS
    <3>2. QED
      BY <1>6, <3>1
  <2> HIDE DEF Calls
  <2>3. QED
    BY <1>1, <1>3, <1>7, <2>1, <2>2
<1> HIDE DEF Calls
<1>14. UNION {Calls(k) : k \in 1..Len(request)} = {IdSent(i) : i \in ToExecute}
  BY <1>11, <1>12, <1>13
<1>15. ASSUME ~\E k, l \in 1..n : k # l /\ ids[k] = ids[l], NEW i \in ToExecute
       PROVE  \E k, l \in 1..Len(request) :
                /\ k < l /\ IdSent(i) \in Calls(k)
                /\ \A m \in 1..Len(request) : request[m].result = IdSent(i) <=> m = l
  <2>1. PICK k \in 1..n : order[k] = i
    BY <1>1
  <2>2. 1 < k + 1 /\ k + 1 # 1
    BY <2>1
  <2>3. ASSUME NEW m \in 1..Len(request)
        PROVE  request[m].result = IdSent(i) <=> m = k + 1
    <3>1. CASE m = 1
      BY <1>6, <1>9, <2>2, <3>1
    <3>2. CASE \E l \in 1..n : m = l + 1
      <4>1. PICK l \in 1..n : m = l + 1
        BY <3>2
      <4>2. request[m].result = ids[l] /\ ids[k] = IdSent(i)
        BY <1>6, <1>7, <2>1, <4>1
      <4>3. ids[l] = ids[k] <=> l = k
        BY <1>15
      <4>4. QED
        BY <4>1, <4>2, <4>3
    <3>3. QED
      BY <1>11, <3>1, <3>2
  <2>4. QED
    BY <1>12, <1>13, <2>1, <2>2, <2>3
<1>16. QED
  BY <1>8, <1>10, <1>14, <1>15 DEF RequestPairsCalls, Calls, request, ids

-----------------------------------------------------------------------------
(* What the consumer makes of the events. *)

(* What the consumer may know. *)
Knowledge ==
  [calls : [Index -> {"absent", "open", "use", "invalid"}], text : [Index -> Nat],
   reasoning : [Index -> Nat], sealed : BOOLEAN]

(* A fragment of text or thinking is counted. *)
LEMMA ConsumeShown ==
  ASSUME NEW known \in Knowledge, NEW i \in Index
  PROVE  /\ Consume(known, TextDelta(i)) = [known EXCEPT !.text[i] = @ + 1]
         /\ Consume(known, ReasoningDelta(i)) = [known EXCEPT !.reasoning[i] = @ + 1]
BY DEF Consume, TextDelta, ReasoningDelta, Event

(* A usage teaches nothing; a TurnDone seals. *)
LEMMA ConsumeOther ==
  ASSUME NEW known
  PROVE  /\ \A u : Consume(known, UsageUpdate(u)) = known
         /\ \A s, c, u : Consume(known, TurnDone(s, c, u)) = [known EXCEPT !.sealed = TRUE]
BY DEF Consume, UsageUpdate, TurnDone

(* A call is opened by its start. *)
LEMMA ConsumeStart ==
  ASSUME NEW known \in Knowledge, NEW i \in Index, ~known.sealed,
         known.calls[i] = "absent"
  PROVE  Consume(known, ToolCallStart(i)) = [known EXCEPT !.calls[i] = "open"]
BY DEF Consume, ToolCallStart, Event, NextStage

(* A delta leaves an open call open. *)
LEMMA ConsumeDelta ==
  ASSUME NEW known \in Knowledge, NEW i \in Index, ~known.sealed,
         known.calls[i] = "open", NEW e, e.type \in {"id", "name", "args"}, e.index = i
  PROVE  Consume(known, e) = known
<1>1. Consume(known, e) = [known EXCEPT !.calls[i] = "open"]
  BY DEF Consume, NextStage
<1>2. [known EXCEPT !.calls[i] = "open"] = known
  BY DEF Knowledge
<1>3. QED
  BY <1>1, <1>2

(* An open call ends as its arguments say. *)
LEMMA ConsumeEnd ==
  ASSUME NEW known \in Knowledge, NEW i \in Index, ~known.sealed,
         known.calls[i] = "open", NEW args
  PROVE  Consume(known, ToolCallEnd(i, args)) = [known EXCEPT !.calls[i] = EndOf(args)]
BY DEF Consume, ToolCallEnd, Event, NextStage, EndOf

(* One event is consumed. *)
LEMMA AfterOne ==
  ASSUME NEW known, NEW e
  PROVE  After(known, <<e>>) = Consume(known, e)
<1>1. <<>> \in Seq({e}) /\ e \in {e} /\ Append(<<>>, e) = <<e>>
  OBVIOUS
<1>2. After(known, Append(<<>>, e)) = Consume(After(known, <<>>), e)
  BY <1>1, AfterAppend
<1>3. QED
  BY <1>1, <1>2, AfterNone

(* Without events the consumer knows what it knew. *)
LEMMA DeliveredNothing ==
  ASSUME Deliver, batch' = <<>>
  PROVE  seen' = seen /\ turn' = turn
<1>1. seen' = After(seen, <<>>)
  BY DEF Deliver, After
<1>2. QED
  BY <1>1, AfterNone DEF Deliver, Done

(* What the consumer makes of one event. *)
LEMMA DeliveredOne ==
  ASSUME Deliver, NEW e, batch' = <<e>>
  PROVE  /\ seen' = Consume(seen, e)
         /\ turn' = IF e.type = "turn_done" THEN e.turn ELSE turn
<1>1. seen' = After(seen, <<e>>)
  BY DEF Deliver, After
<1>2. Done(batch') = IF e.type = "turn_done" THEN {e} ELSE {}
  BY DEF Done
<1>3. QED
  BY <1>1, <1>2, AfterOne DEF Deliver

-----------------------------------------------------------------------------
(* A turn of an Anthropic provider. *)

(* The Anthropic session's events and types are the module's. *)
LEMMA AnthropicEvents ==
  /\ \A i : /\ Anthropic!TextDelta(i) = TextDelta(i)
            /\ Anthropic!ReasoningDelta(i) = ReasoningDelta(i)
            /\ Anthropic!ToolCallStart(i) = ToolCallStart(i)
  /\ \A i, args : Anthropic!ToolCallEnd(i, args) = ToolCallEnd(i, args)
  /\ \A u : Anthropic!UsageUpdate(u) = UsageUpdate(u)
  /\ \A s, c, u : Anthropic!TurnDone(s, c, u) = TurnDone(s, c, u)
  /\ \A t, i, id, w : Anthropic!Event(t, i, id, w) = Event(t, i, id, w)
  /\ \A args, f : Anthropic!Concat(args, f) = Concat(args, f)
  /\ Anthropic!Arguments = Arguments /\ Anthropic!Zero = Zero /\ Anthropic!Usage = Usage
  /\ Anthropic!Blocks = Blocks /\ Anthropic!NoReport = NoReport
BY DEF Anthropic!TextDelta, Anthropic!ReasoningDelta, Anthropic!ToolCallStart,
   Anthropic!ToolCallEnd, Anthropic!UsageUpdate, Anthropic!TurnDone, Anthropic!Event,
   Anthropic!Concat, Anthropic!Arguments, Anthropic!Zero, Anthropic!Usage,
   Anthropic!Blocks, Anthropic!BlockKinds, Anthropic!NoReport, Anthropic!Executable,
   TextDelta, ReasoningDelta, ToolCallStart, ToolCallEnd, UsageUpdate, TurnDone, Event,
   Concat, Arguments, Zero, Usage, Blocks, BlockKinds, NoReport, Executable

(* Arguments stay arguments. *)
LEMMA ConcatTyped ==
  ASSUME NEW args, NEW fragment
  PROVE  Concat(args, fragment) \in Arguments
BY DEF Concat, Arguments

(* The type invariant, by variable. *)
LEMMA Types ==
  ASSUME TypeOK
  PROVE  /\ seen \in Knowledge
         /\ sent \in [args : [Index -> Arguments], ids : SUBSET Index,
                      usage : Usage, open : SUBSET Index, phase : Phases]
         /\ provider = "openai" => session \in OpenAI!Session
         /\ provider = "anthropic" => session \in Anthropic!Session
BY DEF TypeOK, Knowledge

(* Until its message is closed, an Anthropic turn that is read is not done. *)
LEMMA NotDone ==
  ASSUME StreamInv, stream = "reading", provider = "anthropic", sent.phase # "closed"
  PROVE  /\ turn = NoTurn /\ ~session.done /\ ~seen.sealed /\ turn.stop = "none"
         /\ turn.content = {}
BY DEF StreamInv, AnthropicInv, AnthropicTurn, TurnInv, NoTurn

(* A call is announced or goes on. *)
CallMoves(i) ==
  \/ seen.calls[i] = "absent"
  \/ seen.calls[i] = "open" /\ seen'.calls[i] # "absent"
  \/ seen'.calls[i] = seen.calls[i]

(* Block j is left as it was. *)
SameBlock(j) ==
  /\ session'.kinds[j] = session.kinds[j] /\ session'.size[j] = session.size[j]
  /\ session'.signed[j] = session.signed[j] /\ session'.args[j] = session.args[j]
  /\ j \in session'.stopped <=> j \in session.stopped
  /\ j \in sent'.open <=> j \in sent.open
  /\ sent'.args[j] = sent.args[j]
  /\ j \in sent'.ids <=> j \in sent.ids
  /\ seen'.calls[j] = seen.calls[j] /\ seen'.text[j] = seen.text[j]
  /\ seen'.reasoning[j] = seen.reasoning[j]

(* What is shown of a block that stays, stays. *)
LEMMA ShownStays ==
  ASSUME NEW j, AnthropicShown(j), SameBlock(j), turn' = turn
  PROVE  AnthropicShown(j)'
BY DEF AnthropicShown, AnthropicStage, SameBlock

(* A block whose parts stay is the same block. *)
LEMMA BlockStays ==
  ASSUME NEW j, session'.kinds[j] = session.kinds[j], session'.size[j] = session.size[j],
         session'.signed[j] = session.signed[j], session'.args[j] = session.args[j]
  PROVE  Anthropic!BlockOf(j)' = Anthropic!BlockOf(j)
BY DEF Anthropic!BlockOf

(* What a chunk about block i leaves as it was, before the turn is done. *)
ChunkFrame(i) ==
  /\ session' \in Anthropic!Session
  /\ session'.usage = session.usage /\ session'.stop = session.stop
  /\ session'.done = session.done
  /\ \A j \in Index \ {i} : SameBlock(j)
  /\ seen' \in Knowledge /\ seen'.sealed = seen.sealed
  /\ sent' \in [args : [Index -> Arguments], ids : SUBSET Index,
                usage : Usage, open : SUBSET Index, phase : Phases]
  /\ sent'.usage = sent.usage /\ sent'.phase = sent.phase
  /\ turn' = turn /\ provider' = provider /\ stream' = stream

(* A chunk about one block keeps the invariant, if it does for that block. *)
LEMMA ChunkKeeps ==
  ASSUME StreamInv, Sending("blocks"), NEW i \in Index, ChunkFrame(i),
         AnthropicShown(i)', i \in sent'.open <=> i \notin session'.stopped,
         session'.kinds[i] # "none",
         session'.blocks = {Anthropic!BlockOf(j)' : j \in session'.stopped}
  PROVE  StreamInv'
<1>1. AnthropicTurn /\ \A j \in Index : AnthropicShown(j)
  BY DEF StreamInv, AnthropicInv, Sending
<1>2. turn = NoTurn /\ ~session.done /\ turn.stop = "none" /\ ~seen.sealed
      /\ turn.content = {}
  BY NotDone DEF Sending
<1>3. TypeOK'
  BY DEF ChunkFrame, TypeOK, Knowledge, StreamInv, Sending
<1>4. TurnInv'
  BY <1>2 DEF TurnInv, ChunkFrame, StreamInv, Sending
<1>5. ASSUME NEW j \in Index
      PROVE  AnthropicShown(j)'
  BY <1>1, ShownStays DEF ChunkFrame
<1>6. sent'.open = Anthropic!Open'
  <2>1. \A j \in Index : j \in sent'.open <=>
                           session'.kinds[j] # "none" /\ j \notin session'.stopped
    BY <1>1 DEF ChunkFrame, SameBlock, AnthropicTurn, Anthropic!Open
  <2>2. sent'.open \subseteq Index
    BY DEF ChunkFrame
  <2>3. QED
    BY <2>1, <2>2 DEF Anthropic!Open
<1>7. AnthropicTurn'
  BY <1>2, <1>6 DEF AnthropicTurn, ChunkFrame, Sending
<1>8. QED
  BY <1>3, <1>4, <1>5, <1>7 DEF StreamInv, OpenAIInv, AnthropicInv, ChunkFrame, Sending

(* A block that is not stopped may change without the stopped ones changing. *)
LEMMA BlocksStay ==
  ASSUME StreamInv, Sending("blocks"), NEW i \in Index, ChunkFrame(i),
         i \notin session.stopped, session'.blocks = session.blocks,
         session'.stopped = session.stopped
  PROVE  session'.blocks = {Anthropic!BlockOf(j)' : j \in session'.stopped}
<1>1. session.blocks = {Anthropic!BlockOf(j) : j \in session.stopped}
      /\ session.stopped \subseteq Index
  BY Types DEF StreamInv, AnthropicInv, AnthropicTurn, Sending, Anthropic!Session
<1>2. \A j \in session.stopped : Anthropic!BlockOf(j)' = Anthropic!BlockOf(j)
  BY <1>1, BlockStays DEF ChunkFrame, SameBlock
<1>3. QED
  BY <1>1, <1>2

(* A block starts. *)
LEMMA BlockStartKeeps ==
  ASSUME StreamInv, NEW i \in Index, NEW kind \in Anthropic!Kinds, NEW s \in BOOLEAN,
         BlockStart(i, kind, s)
  PROVE  StreamInv' /\ ChunkFrame(i) /\ CallMoves(i)
<1>1. /\ AnthropicTurn /\ AnthropicShown(i) /\ Sending("blocks")
      /\ session \in Anthropic!Session /\ session.kinds[i] = "none"
  BY Types DEF StreamInv, AnthropicInv, Sending, BlockStart
<1>2. turn = NoTurn /\ ~seen.sealed
  BY <1>1, NotDone DEF Sending
<1>3. i \notin session.stopped /\ session.args[i] = "empty" /\ session.size[i] = 0
      /\ sent.args[i] = "empty" /\ seen.calls[i] = "absent" /\ seen.text[i] = 0
      /\ seen.reasoning[i] = 0
  BY <1>1 DEF AnthropicShown, AnthropicStage
<1>4. /\ session' = [session EXCEPT !.kinds[i] = kind, !.size[i] = 0,
                                !.signed[i] = s, !.args[i] = "empty"]
      /\ sent' = [sent EXCEPT !.open = @ \cup {i},
                              !.ids = IF kind = "tool_use" THEN @ \cup {i} ELSE @]
      /\ provider' = provider /\ stream' = stream /\ Deliver
      /\ batch' = IF kind = "tool_use" THEN <<ToolCallStart(i)>> ELSE <<>>
  BY AnthropicEvents DEF BlockStart, Anthropic!BlockStart, Anthropic!Yields, Passes
<1>5. /\ turn' = turn
      /\ seen' = IF kind = "tool_use" THEN [seen EXCEPT !.calls[i] = "open"] ELSE seen
  <2>1. CASE kind = "tool_use"
    <3>1. ToolCallStart(i).type = "start"
      BY DEF ToolCallStart, Event
    <3>2. QED
      BY <1>2, <1>3, <1>4, <2>1, <3>1, DeliveredOne, ConsumeStart, Types DEF StreamInv
  <2>2. CASE kind # "tool_use"
    BY <1>4, <2>2, DeliveredNothing
  <2>3. QED
    BY <2>1, <2>2
<1>6. session' \in Anthropic!Session
  BY <1>1, <1>4 DEF Anthropic!Session, Anthropic!Arguments
<1>7. seen' \in Knowledge /\ seen'.sealed = seen.sealed
  BY <1>5, Types DEF StreamInv, Knowledge
<1>8. \A j \in Index \ {i} : SameBlock(j)
  BY <1>1, <1>4, <1>5, Types DEF StreamInv, SameBlock, Knowledge, Anthropic!Session
<1>9. ChunkFrame(i)
  <2>1. /\ session'.usage = session.usage /\ session'.stop = session.stop
        /\ session'.done = session.done
    BY <1>1, <1>4 DEF Anthropic!Session
  <2>2. /\ sent' \in [args : [Index -> Arguments], ids : SUBSET Index,
                    usage : Usage, open : SUBSET Index, phase : Phases]
        /\ sent'.usage = sent.usage /\ sent'.phase = sent.phase
    BY <1>4, Types DEF StreamInv
  <2>3. QED
    BY <1>4, <1>5, <1>6, <1>7, <1>8, <2>1, <2>2 DEF ChunkFrame
<1>10. AnthropicShown(i)'
  BY <1>1, <1>2, <1>3, <1>4, <1>5, Types DEF StreamInv, AnthropicShown, AnthropicStage,
     Anthropic!Session, Knowledge, NoTurn
<1>11. /\ session'.blocks = session.blocks /\ session'.stopped = session.stopped
       /\ i \in sent'.open /\ session'.kinds[i] = kind
  BY <1>1, <1>4, Types DEF StreamInv, Anthropic!Session
<1>12. session'.blocks = {Anthropic!BlockOf(j)' : j \in session'.stopped}
  BY <1>1, <1>3, <1>9, <1>11, BlocksStay
<1>13. QED
  BY <1>1, <1>3, <1>9, <1>10, <1>11, <1>12, ChunkKeeps DEF Anthropic!Kinds, CallMoves

(* What is known when a chunk comes for an open block. *)
LEMMA OnOpenBlock ==
  ASSUME StreamInv, Sending("blocks"), NEW i \in sent.open
  PROVE  /\ i \in Index /\ session.kinds[i] \in Anthropic!Kinds /\ i \notin session.stopped
         /\ turn = NoTurn /\ ~seen.sealed /\ turn.stop = "none"
         /\ AnthropicTurn /\ AnthropicShown(i)
         /\ session \in Anthropic!Session /\ seen \in Knowledge
<1>1. AnthropicTurn /\ \A j \in Index : AnthropicShown(j)
  BY DEF StreamInv, AnthropicInv, Sending
<1>2. session \in Anthropic!Session /\ seen \in Knowledge
  BY Types DEF StreamInv, Sending
<1>3. i \in Index /\ session.kinds[i] # "none" /\ i \notin session.stopped
  BY <1>1 DEF AnthropicTurn, Anthropic!Open
<1>4. QED
  BY <1>1, <1>2, <1>3, NotDone DEF Sending, Anthropic!Session

(* A fragment of a text or a thinking comes. *)
LEMMA TextSentKeeps ==
  ASSUME StreamInv, NEW i \in Index, TextSent(i)
  PROVE  StreamInv' /\ ChunkFrame(i) /\ CallMoves(i)
<1>1. Sending("blocks") /\ i \in sent.open
  BY DEF TextSent
<1> DEFINE kind == session.kinds[i]
<1>2. /\ session \in Anthropic!Session /\ seen \in Knowledge /\ AnthropicShown(i)
      /\ AnthropicTurn /\ i \notin session.stopped /\ turn = NoTurn /\ ~seen.sealed
  BY <1>1, OnOpenBlock
<1>3. /\ kind \in {"text", "thinking"}
      /\ session' = [session EXCEPT !.size[i] = @ + 1]
      /\ sent' = sent /\ provider' = provider /\ stream' = stream /\ Deliver
      /\ batch' = <<IF kind = "text" THEN TextDelta(i) ELSE ReasoningDelta(i)>>
  BY AnthropicEvents DEF TextSent, Anthropic!TextArrives, Anthropic!Yields, Passes
<1>4. /\ turn' = turn
      /\ seen' = IF kind = "text" THEN [seen EXCEPT !.text[i] = @ + 1]
                 ELSE [seen EXCEPT !.reasoning[i] = @ + 1]
  <2>1. TextDelta(i).type = "text" /\ ReasoningDelta(i).type = "reasoning"
    BY DEF TextDelta, ReasoningDelta, Event
  <2>2. QED
    BY <1>2, <1>3, <2>1, DeliveredOne, ConsumeShown
<1>5. session' \in Anthropic!Session
  BY <1>2, <1>3 DEF Anthropic!Session
<1>6. seen' \in Knowledge /\ seen'.sealed = seen.sealed /\ seen'.calls = seen.calls
  BY <1>2, <1>4 DEF Knowledge
<1>7. \A j \in Index \ {i} : SameBlock(j)
  BY <1>2, <1>3, <1>4 DEF SameBlock, Knowledge, Anthropic!Session
<1>8. ChunkFrame(i)
  <2>1. /\ session'.usage = session.usage /\ session'.stop = session.stop
        /\ session'.done = session.done
    BY <1>2, <1>3 DEF Anthropic!Session
  <2>2. QED
    BY <1>3, <1>4, <1>5, <1>6, <1>7, <2>1, Types DEF ChunkFrame, StreamInv
<1>9. AnthropicShown(i)'
  BY <1>2, <1>3, <1>4, <1>6 DEF AnthropicShown, AnthropicStage, Anthropic!Session, Knowledge
<1>10. /\ session'.blocks = session.blocks /\ session'.stopped = session.stopped
       /\ i \in sent'.open /\ session'.kinds[i] # "none"
  BY <1>1, <1>2, <1>3 DEF Anthropic!Session
<1>11. session'.blocks = {Anthropic!BlockOf(j)' : j \in session'.stopped}
  BY <1>1, <1>2, <1>8, <1>10, BlocksStay
<1>12. QED
  BY <1>1, <1>2, <1>6, <1>8, <1>9, <1>10, <1>11, ChunkKeeps DEF CallMoves

(* A thinking is signed. *)
LEMMA SignatureSentKeeps ==
  ASSUME StreamInv, NEW i \in Index, SignatureSent(i)
  PROVE  StreamInv' /\ ChunkFrame(i) /\ CallMoves(i)
<1>1. Sending("blocks") /\ i \in sent.open
  BY DEF SignatureSent
<1>2. /\ session \in Anthropic!Session /\ seen \in Knowledge /\ AnthropicShown(i)
      /\ AnthropicTurn /\ i \notin session.stopped /\ turn = NoTurn /\ ~seen.sealed
  BY <1>1, OnOpenBlock
<1>3. /\ session' = [session EXCEPT !.signed[i] = TRUE]
      /\ sent' = sent /\ provider' = provider /\ stream' = stream /\ Deliver
      /\ batch' = <<>>
  BY DEF SignatureSent, Anthropic!SignatureArrives, Anthropic!Yields, Passes
<1>4. turn' = turn /\ seen' = seen
  BY <1>3, DeliveredNothing
<1>5. session' \in Anthropic!Session
  BY <1>2, <1>3 DEF Anthropic!Session
<1>6. \A j \in Index \ {i} : SameBlock(j)
  BY <1>2, <1>3, <1>4 DEF SameBlock, Anthropic!Session
<1>7. ChunkFrame(i)
  <2>1. /\ session'.usage = session.usage /\ session'.stop = session.stop
        /\ session'.done = session.done
    BY <1>2, <1>3 DEF Anthropic!Session
  <2>2. QED
    BY <1>2, <1>3, <1>4, <1>5, <1>6, <2>1, Types DEF ChunkFrame, StreamInv
<1>8. AnthropicShown(i)'
  BY <1>2, <1>3, <1>4 DEF AnthropicShown, AnthropicStage, Anthropic!Session
<1>9. /\ session'.blocks = session.blocks /\ session'.stopped = session.stopped
      /\ i \in sent'.open /\ session'.kinds[i] # "none"
  <2>1. session'.kinds = session.kinds
    BY <1>2, <1>3 DEF Anthropic!Session
  <2>2. session.kinds[i] # "none"
    BY <1>1, <1>2 DEF AnthropicTurn, Anthropic!Open
  <2>3. QED
    BY <1>1, <1>2, <1>3, <2>1, <2>2 DEF Anthropic!Session
<1>10. session'.blocks = {Anthropic!BlockOf(j)' : j \in session'.stopped}
  BY <1>1, <1>2, <1>7, <1>9, BlocksStay
<1>11. QED
  BY <1>1, <1>2, <1>4, <1>7, <1>8, <1>9, <1>10, ChunkKeeps DEF CallMoves

(* A fragment of a call's arguments comes. *)
LEMMA ArgumentsSentKeeps ==
  ASSUME StreamInv, NEW i \in Index, NEW fragment, ArgumentsSent(i, fragment)
  PROVE  StreamInv' /\ ChunkFrame(i) /\ CallMoves(i)
<1>1. Sending("blocks") /\ i \in sent.open
  BY DEF ArgumentsSent
<1>2. /\ session \in Anthropic!Session /\ seen \in Knowledge /\ AnthropicShown(i)
      /\ AnthropicTurn /\ i \notin session.stopped /\ turn = NoTurn /\ ~seen.sealed
      /\ turn.stop = "none"
  BY <1>1, OnOpenBlock
<1> DEFINE args == Concat(session.args[i], fragment)
<1>3. /\ session.kinds[i] = "tool_use"
      /\ session' = [session EXCEPT !.args[i] = args]
      /\ sent' = [sent EXCEPT !.args[i] = Concat(@, fragment)]
      /\ provider' = provider /\ stream' = stream /\ Deliver
      /\ batch' = <<Event("args", i, TRUE, fragment)>>
  BY AnthropicEvents DEF ArgumentsSent, Anthropic!ArgumentsArrive, Anthropic!Yields,
     Anthropic!Event, Event, Passes
<1>4. turn' = turn /\ seen' = seen
  <2> DEFINE e == Event("args", i, TRUE, fragment)
  <2>1. e.type = "args" /\ e.index = i
    BY DEF Event
  <2>2. seen.calls[i] = "open"
    BY <1>1, <1>2, <1>3 DEF AnthropicShown, AnthropicStage
  <2> HIDE DEF e
  <2>3. Consume(seen, e) = seen
    BY <1>2, <2>1, <2>2, ConsumeDelta
  <2>4. batch' = <<e>>
    BY <1>3 DEF e
  <2>5. QED
    BY <1>3, <2>1, <2>3, <2>4, DeliveredOne
<1>5. args \in Arguments /\ session.args[i] = sent.args[i]
  BY <1>2, ConcatTyped DEF AnthropicShown
<1> HIDE DEF args
<1>6. session' \in Anthropic!Session
  BY <1>2, <1>3, <1>5, AnthropicEvents DEF Anthropic!Session
<1>7. /\ sent' \in [args : [Index -> Arguments], ids : SUBSET Index,
                usage : Usage, open : SUBSET Index, phase : Phases]
      /\ sent'.args = [sent.args EXCEPT ![i] = args] /\ sent'.open = sent.open
      /\ sent'.ids = sent.ids
      /\ sent'.usage = sent.usage /\ sent'.phase = sent.phase
      /\ sent.args \in [Index -> Arguments]
  BY <1>3, <1>5, Types DEF args, StreamInv
<1>8. \A j \in Index \ {i} : SameBlock(j)
  BY <1>2, <1>3, <1>4, <1>7 DEF SameBlock, Anthropic!Session
<1>9. ChunkFrame(i)
  <2>1. /\ session'.usage = session.usage /\ session'.stop = session.stop
        /\ session'.done = session.done
    BY <1>2, <1>3 DEF Anthropic!Session
  <2>2. QED
    BY <1>2, <1>3, <1>4, <1>6, <1>7, <1>8, <2>1 DEF ChunkFrame
<1>10. AnthropicShown(i)'
  BY <1>1, <1>2, <1>3, <1>4, <1>7 DEF AnthropicShown, AnthropicStage, Anthropic!Session
<1>11. /\ session'.blocks = session.blocks /\ session'.stopped = session.stopped
       /\ i \in sent'.open /\ session'.kinds[i] # "none"
  BY <1>1, <1>2, <1>3, <1>7 DEF Anthropic!Session
<1>12. session'.blocks = {Anthropic!BlockOf(j)' : j \in session'.stopped}
  BY <1>1, <1>2, <1>9, <1>11, BlocksStay
<1>13. QED
  BY <1>1, <1>2, <1>4, <1>9, <1>10, <1>11, <1>12, ChunkKeeps DEF CallMoves

(* A block stops. *)
LEMMA BlockStopKeeps ==
  ASSUME StreamInv, NEW i \in Index, BlockStop(i)
  PROVE  StreamInv' /\ ChunkFrame(i) /\ CallMoves(i)
<1>1. Sending("blocks") /\ i \in sent.open
  BY DEF BlockStop
<1>2. /\ session \in Anthropic!Session /\ seen \in Knowledge /\ AnthropicShown(i)
      /\ AnthropicTurn /\ i \notin session.stopped /\ turn = NoTurn /\ ~seen.sealed
      /\ turn.stop = "none" /\ session.kinds[i] \in Anthropic!Kinds
      /\ session.kinds[i] # "none"
  BY <1>1, OnOpenBlock DEF Anthropic!Kinds
<1> DEFINE block == Anthropic!BlockOf(i)
           tool == session.kinds[i] = "tool_use"
<1>3. /\ session' = [session EXCEPT !.blocks = @ \cup {block}, !.stopped = @ \cup {i}]
      /\ sent' = [sent EXCEPT !.open = @ \ {i}]
      /\ provider' = provider /\ stream' = stream /\ Deliver
      /\ batch' = IF tool THEN <<ToolCallEnd(i, session.args[i])>> ELSE <<>>
      /\ session.kinds[i] = "thinking" => session.signed[i]
  BY AnthropicEvents DEF BlockStop, Anthropic!BlockStop, Anthropic!Yields, Passes
<1>4. /\ turn' = turn
      /\ seen' = IF tool THEN [seen EXCEPT !.calls[i] = EndOf(session.args[i])] ELSE seen
      /\ tool => seen.calls[i] = "open"
  <2>1. CASE tool
    <3> DEFINE e == ToolCallEnd(i, session.args[i])
    <3>1. e.type = "end"
      BY DEF ToolCallEnd, Event
    <3>2. seen.calls[i] = "open"
      BY <1>1, <1>2, <2>1 DEF AnthropicShown, AnthropicStage
    <3> HIDE DEF e
    <3>3. batch' = <<e>>
      BY <1>3, <2>1 DEF e
    <3>4. seen' = Consume(seen, e) /\ turn' = turn
      BY <1>3, <3>1, <3>3, DeliveredOne
    <3>5. QED
      BY <1>2, <2>1, <3>2, <3>4, ConsumeEnd DEF e
  <2>2. CASE ~tool
    BY <1>3, <2>2, DeliveredNothing
  <2>3. QED
    BY <2>1, <2>2
<1>5. block \in Blocks
  <2>1. session.size[i] \in Nat /\ session.args[i] \in Arguments
        /\ session.signed[i] \in BOOLEAN
    BY <1>2, AnthropicEvents DEF Anthropic!Session
  <2>2. QED
    BY <1>2, <2>1, AnthropicBlockOf, BlocksTyped DEF Anthropic!Kinds
<1> HIDE DEF block
<1>6. session' \in Anthropic!Session
  BY <1>2, <1>3, <1>5, AnthropicEvents DEF Anthropic!Session
<1>7. /\ session'.blocks = session.blocks \cup {block}
      /\ session'.stopped = session.stopped \cup {i}
      /\ session'.kinds = session.kinds /\ session'.size = session.size
      /\ session'.signed = session.signed /\ session'.args = session.args
      /\ session'.usage = session.usage /\ session'.stop = session.stop
      /\ session'.done = session.done
  BY <1>2, <1>3 DEF Anthropic!Session
<1>8. /\ sent' \in [args : [Index -> Arguments], ids : SUBSET Index,
                usage : Usage, open : SUBSET Index, phase : Phases]
      /\ sent'.args = sent.args /\ sent'.open = sent.open \ {i}
      /\ sent'.ids = sent.ids
      /\ sent'.usage = sent.usage /\ sent'.phase = sent.phase
  BY <1>3, Types DEF StreamInv
<1>9. \A a : EndOf(a) \in {"use", "invalid"}
  BY DEF EndOf
<1>10. /\ seen' \in Knowledge /\ seen'.sealed = seen.sealed
       /\ seen'.text = seen.text /\ seen'.reasoning = seen.reasoning
       /\ \A j \in Index \ {i} : seen'.calls[j] = seen.calls[j]
       /\ tool => seen'.calls[i] = EndOf(session.args[i])
       /\ ~tool => seen'.calls[i] = seen.calls[i]
  BY <1>2, <1>4, <1>9 DEF Knowledge
<1>11. \A j \in Index \ {i} : SameBlock(j)
  BY <1>7, <1>8, <1>10 DEF SameBlock
<1>12. ChunkFrame(i)
  BY <1>3, <1>4, <1>6, <1>7, <1>8, <1>10, <1>11 DEF ChunkFrame
<1>13. AnthropicShown(i)'
  BY <1>2, <1>3, <1>4, <1>7, <1>8, <1>10 DEF AnthropicShown, AnthropicStage
<1>14. session'.blocks = {Anthropic!BlockOf(j)' : j \in session'.stopped}
  <2>1. \A j : Anthropic!BlockOf(j)' = Anthropic!BlockOf(j)
    BY <1>7, BlockStays
  <2>2. session.blocks = {Anthropic!BlockOf(j) : j \in session.stopped}
    BY <1>2 DEF AnthropicTurn
  <2>3. QED
    BY <1>7, <2>1, <2>2 DEF block
<1>15. CallMoves(i)
  BY <1>4, <1>9, <1>10 DEF CallMoves
<1>16. QED
  BY <1>1, <1>2, <1>7, <1>8, <1>12, <1>13, <1>14, <1>15, ChunkKeeps

-----------------------------------------------------------------------------
(* Usage is typed. *)

(* The Anthropic session's usage is the module's. *)
LEMMA AnthropicUsage ==
  /\ Anthropic!Zero = Zero /\ Anthropic!Usage = Usage
  /\ \A raw, name : Anthropic!Field(raw, name) = Field(raw, name)
BY DEF Anthropic!Zero, Anthropic!Usage, Zero, Usage, Anthropic!Field, Field

(* A field of a report is a number. *)
LEMMA FieldTyped ==
  ASSUME NEW raw, IsReport(raw), NEW name
  PROVE  Field(raw, name) \in Nat
BY DEF IsReport, Field

(* A record of the four numbers is a usage. *)
LEMMA UsageRecord ==
  ASSUME NEW u, u = [f \in DOMAIN Zero |-> u[f]], \A f \in DOMAIN Zero : u[f] \in Nat
  PROVE  u \in Usage
BY DEF Usage, Zero

(* What is said of a quantity is a number. *)
LEMMA SaidTyped ==
  ASSUME NEW raw, IsReport(raw), NEW names, Len(names) \in Nat
  PROVE  Said(raw, names) \in Nat
<1> DEFINE used == Named(raw, names)
           first == CHOOSE k \in used : \A l \in used : k <= l
<1>1. CASE used = {}
  BY <1>1 DEF Said
<1>2. CASE used # {}
  <2>1. used \in SUBSET Nat
    BY DEF Named
  <2> HIDE DEF used
  <2>2. first \in used
    BY <1>2, <2>1, NatMinimum
  <2>3. names[first] \in DOMAIN raw
    BY <2>2 DEF used, Named
  <2>4. Said(raw, names) = raw[names[first]]
    BY <1>2 DEF Said, used
  <2>5. QED
    BY <2>3, <2>4 DEF IsReport
<1>3. QED
  BY <1>1, <1>2

(* What a report means is a usage. *)
LEMMA MeantTyped ==
  ASSUME NEW raw, IsReport(raw)
  PROVE  Meant(raw) \in Usage
<1>1. \A names : Len(names) \in Nat => Said(raw, names) \in Nat
  BY SaidTyped
<1>2. /\ Said(raw, InputNames) \in Nat /\ Said(raw, OutputNames) \in Nat
      /\ Said(raw, ReadNames) \in Nat /\ Said(raw, CreationNames) \in Nat
      /\ Said(raw, <<"cached_input_tokens">>) \in Nat
  BY <1>1 DEF InputNames, OutputNames, ReadNames, CreationNames
<1>3. QED
  BY <1>2 DEF Meant, Usage

(* What was reported so far is a usage. *)
LEMMA ReportedTyped ==
  ASSUME NEW raw, IsReport(raw), sent.usage \in Usage
  PROVE  Reported(raw) \in Usage
<1>1. Meant(raw) \in Usage
  BY MeantTyped
<1>2. CASE raw = NoReport
  BY <1>2 DEF Reported
<1>3. CASE raw # NoReport
  <2>1. Reported(raw) = [f \in DOMAIN Zero |-> Larger(sent.usage[f], Meant(raw)[f])]
    BY <1>3 DEF Reported
  <2>2. \A f \in DOMAIN Zero : sent.usage[f] \in Nat /\ Meant(raw)[f] \in Nat
    BY <1>1 DEF Usage, Zero
  <2>3. \A m, n \in Nat : Larger(m, n) \in Nat
    BY DEF Larger
  <2>4. QED
    BY <2>1, <2>2, <2>3, UsageRecord
<1>4. QED
  BY <1>2, <1>3

(* A merged usage is a usage. *)
LEMMA MergedTyped ==
  ASSUME NEW raw, IsReport(raw), NEW usage \in Usage
  PROVE  Anthropic!MergeUsage(usage, raw) \in Usage
<1>1. Anthropic!FieldsOf(raw) \in Usage
  BY AnthropicUsage, FieldTyped DEF Anthropic!FieldsOf, Usage
<1>2. \A f \in DOMAIN Zero : usage[f] \in Nat /\ Anthropic!FieldsOf(raw)[f] \in Nat
  BY <1>1 DEF Usage, Zero
<1>3. DOMAIN usage = DOMAIN Zero
  BY DEF Usage, Zero
<1>4. Anthropic!MergeUsage(usage, raw) = [f \in DOMAIN Zero |->
        IF Anthropic!FieldsOf(raw)[f] # 0 THEN Anthropic!FieldsOf(raw)[f] ELSE usage[f]]
  BY <1>3 DEF Anthropic!MergeUsage
<1>5. QED
  BY <1>2, <1>4, UsageRecord

(* A normalized usage is a usage. *)
LEMMA NormalizedTyped ==
  ASSUME NEW raw, IsReport(raw)
  PROVE  NormalizeUsage(raw) \in Usage
<1> DEFINE Of(name) == IF name \in Counted(raw) THEN raw[name] ELSE 0
<1>1. \A name : Of(name) \in Nat
  BY DEF IsReport, Counted
<1>2. \A k, l, m, n, o \in Nat : k + l + m \in Nat /\ k + l + m + n + o \in Nat /\ k + l \in Nat
  OBVIOUS
<1> DEFINE input == Of("input_tokens") + Of("prompt_tokens") + Of("prompt_token_count")
           output == Of("output_tokens") + Of("completion_tokens")
                       + Of("candidates_token_count")
           read == Of("cache_read_input_tokens") + Of("cached_input_tokens")
                     + Of("details_cached_tokens") + Of("details_cache_read_tokens")
                     + Of("details_cache_read_input_tokens")
           creation == Of("cache_creation_input_tokens")
                         + Of("details_cache_creation_input_tokens")
<1>3. NormalizeUsage(raw)
        = [input |-> input, output |-> output, read |-> read, creation |-> creation]
  BY DEF NormalizeUsage
<1> HIDE DEF Of
<1>4. input \in Nat /\ output \in Nat /\ read \in Nat /\ creation \in Nat
  BY <1>1, <1>2
<1> HIDE DEF input, output, read, creation
<1>5. QED
  BY <1>3, <1>4 DEF Usage

-----------------------------------------------------------------------------
(* The end of a turn. *)

(* What is known once the calls in S are closed. *)
CallsEnded(known, S, args) ==
  [known EXCEPT !.calls =
     [j \in Index |-> IF j \in S THEN EndOf(args[j]) ELSE known.calls[j]]]

(* Closing calls leaves the consumer's knowledge well typed. *)
LEMMA CallsEndedTyped ==
  ASSUME NEW known \in Knowledge, NEW S, NEW args
  PROVE  CallsEnded(known, S, args) \in Knowledge
<1>1. \A a : EndOf(a) \in {"use", "invalid"}
  BY DEF EndOf
<1>2. QED
  BY <1>1 DEF CallsEnded, Knowledge

(* The ends of some open calls, in any order, close these and no other. *)
LEMMA EndsConsumed ==
  ASSUME NEW known \in Knowledge, ~known.sealed, NEW S \in SUBSET Index,
         \A i \in S : known.calls[i] = "open",
         NEW order \in Seq(S),
         \A i \in S : \E k \in 1..Len(order) : order[k] = i,
         \A k, l \in 1..Len(order) : order[k] = order[l] => k = l,
         NEW args, NEW ends, Len(ends) = Len(order),
         \A k \in 1..Len(order) : ends[k] = ToolCallEnd(order[k], args[order[k]])
  PROVE  After(known, ends) = CallsEnded(known, S, args)
<1> DEFINE n == Len(order)
           Past(k) == {order[l] : l \in 1..k}
<1>1. n \in Nat /\ Len(ends) = n /\ \A k \in 1..n : order[k] \in S
  OBVIOUS
<1>2. PICK h : Consumed(h, known, ends) /\ After(known, ends) = h[n]
  <2> HIDE DEF n
  <2>1. Len(ends) \in Nat
    BY <1>1
  <2>2. \E h : Consumed(h, known, ends) /\ After(known, ends) = h[Len(ends)]
    BY ONLY <2>1, AfterIsConsumed
  <2>3. QED
    BY <1>1, <2>2
<1> DEFINE N == {k \in Nat : k <= n => h[k] = CallsEnded(known, Past(k), args)}
<1>3. 0 \in N
  <2>1. h[0] = known
    BY <1>1, <1>2 DEF Consumed
  <2>2. Past(0) = {}
    OBVIOUS
  <2>3. CallsEnded(known, {}, args) = known
    BY DEF CallsEnded, Knowledge
  <2>4. QED
    BY <2>1, <2>2, <2>3
<1>4. ASSUME NEW k \in Nat, k \in N
      PROVE  k + 1 \in N
  <2> SUFFICES ASSUME k + 1 <= n
               PROVE  h[k + 1] = CallsEnded(known, Past(k + 1), args)
    OBVIOUS
  <2> DEFINE now == CallsEnded(known, Past(k), args)
             i == order[k + 1]
  <2>1. h[k] = now
    BY <1>1, <1>4
  <2>2. k + 1 \in 1..n /\ i \in S /\ i \in Index
    BY <1>1
  <2>3. i \notin Past(k)
    BY <1>1, <2>2
  <2>4. now \in Knowledge /\ ~now.sealed /\ now.calls[i] = "open"
    <3>1. now \in Knowledge
      BY CallsEndedTyped
    <3> HIDE DEF i, Past
    <3>2. QED
      BY <2>2, <2>3, <3>1 DEF CallsEnded, Knowledge
  <2>5. h[k + 1] = Consume(now, ToolCallEnd(i, args[i]))
    <3> DEFINE l == k + 1
    <3>1. l \in 0..Len(ends) /\ l # 0 /\ l - 1 = k
      BY <1>1, <2>2
    <3>2. ends[l] = ToolCallEnd(i, args[i])
      BY <2>2
    <3> HIDE DEF l, now
    <3>3. h[l] = Consume(h[l - 1], ends[l])
      BY <1>2, <3>1 DEF Consumed
    <3>4. QED
      BY <2>1, <3>1, <3>2, <3>3 DEF l
  <2>6. h[k + 1] = [now EXCEPT !.calls[i] = EndOf(args[i])]
    <3> HIDE DEF now, i
    <3>1. \A a : Consume(now, ToolCallEnd(i, a)) = [now EXCEPT !.calls[i] = EndOf(a)]
      BY <2>2, <2>4, ConsumeEnd
    <3>2. QED
      BY <2>5, <3>1
  <2>7. Past(k + 1) = Past(k) \cup {i}
    <3>1. \A l : l \in 1..(k + 1) <=> l \in 1..k \/ l = k + 1
      BY <2>2
    <3>2. QED
      BY <3>1
  <2>8. QED
    <3> HIDE DEF i, Past
    <3> DEFINE P == Past(k)
               next == h[k + 1]
    <3>1. now = CallsEnded(known, P, args) /\ i \in Index
          /\ next = [now EXCEPT !.calls[i] = EndOf(args[i])]
      BY <2>2, <2>6
    <3> HIDE DEF now, P, next
    <3>2. next = CallsEnded(known, P \cup {i}, args)
      <4> DEFINE
        new == [j \in Index |-> IF j \in P THEN EndOf(args[j]) ELSE known.calls[j]]
        more == [j \in Index |->
                   IF j \in P \cup {i} THEN EndOf(args[j]) ELSE known.calls[j]]
      <4>1. [new EXCEPT ![i] = EndOf(args[i])] = more
        BY <3>1
      <4>2. [known EXCEPT !.calls = new].calls = new
        BY DEF Knowledge
      <4>3. now = [known EXCEPT !.calls = new]
        BY <3>1 DEF CallsEnded
      <4> HIDE DEF new, more
      <4>4. next = [known EXCEPT !.calls = more]
        BY <3>1, <4>1, <4>2, <4>3 DEF Knowledge
      <4>5. QED
        BY <4>4 DEF CallsEnded, more
    <3>3. QED
      BY <2>7, <3>2 DEF P, next
<1>5. n \in N
  <2> HIDE DEF N, n
  <2>1. QED
    BY <1>1, <1>3, <1>4, NatSet
<1>6. Past(n) = S
  BY <1>1
<1>7. QED
  <2> HIDE DEF Past
  <2>1. QED
    BY <1>1, <1>2, <1>5, <1>6

(* What the consumer makes of ends and a TurnDone behind them. *)
LEMMA DeliveredLast ==
  ASSUME Deliver, NEW F, NEW ends \in Seq(F),
         \A k \in 1..Len(ends) : ends[k].type = "end",
         NEW s, NEW c, NEW u, batch' = Append(ends, TurnDone(s, c, u))
  PROVE  /\ seen' = [After(seen, ends) EXCEPT !.sealed = TRUE]
         /\ turn' = [stop |-> s, content |-> c, usage |-> u]
<1> DEFINE e == TurnDone(s, c, u)
           E == F \cup {e}
           n == Len(ends)
<1>1. e.type = "turn_done" /\ e.turn = [stop |-> s, content |-> c, usage |-> u]
  BY DEF TurnDone
<1>2. \A known : Consume(known, e) = [known EXCEPT !.sealed = TRUE]
  BY ConsumeOther
<1> HIDE DEF e
<1>3. e \in E /\ n \in Nat
  OBVIOUS
<1>4. ends \in Seq(E)
  OBVIOUS
<1> HIDE DEF E
<1>5. batch' = Append(ends, e)
  BY DEF e
<1>6. /\ Len(batch') = n + 1 /\ batch'[n + 1] = e
      /\ \A k \in 1..n : batch'[k] = ends[k]
  BY <1>3, <1>4, <1>5
<1>7. Done(batch') = {e}
  <2>1. \A k \in 1..(n + 1) : batch'[k].type = "turn_done" <=> k = n + 1
    <3>1. \A k \in 1..(n + 1) : k = n + 1 \/ k \in 1..n
      OBVIOUS
    <3>2. n + 1 \notin 1..n
      OBVIOUS
    <3>3. QED
      BY <1>1, <1>6, <3>1, <3>2
  <2>2. n + 1 \in 1..(n + 1)
    OBVIOUS
  <2>3. QED
    BY <1>6, <2>1, <2>2 DEF Done
<1>8. seen' = After(seen, Append(ends, e))
  BY <1>5 DEF Deliver, After
<1>9. seen' = [After(seen, ends) EXCEPT !.sealed = TRUE]
  <2>1. After(seen, Append(ends, e)) = Consume(After(seen, ends), e)
    BY <1>3, <1>4, AfterAppend
  <2>2. QED
    BY <1>2, <1>8, <2>1
<1>10. turn' = e.turn
  BY <1>7 DEF Deliver
<1>11. QED
  BY <1>1, <1>9, <1>10

-----------------------------------------------------------------------------
(* Reports and the end of an Anthropic turn. *)

(* A session whose blocks stay has the same content to give. *)
LEMMA AllBlocksStay ==
  ASSUME session'.kinds = session.kinds, session'.size = session.size,
         session'.signed = session.signed, session'.args = session.args,
         session'.stopped = session.stopped, session'.blocks = session.blocks
  PROVE  /\ \A j : Anthropic!BlockOf(j)' = Anthropic!BlockOf(j)
         /\ Anthropic!Open' = Anthropic!Open /\ Anthropic!Kept' = Anthropic!Kept
         /\ Anthropic!PartialBlocks' = Anthropic!PartialBlocks
<1>1. \A j : Anthropic!BlockOf(j)' = Anthropic!BlockOf(j)
  BY BlockStays
<1>2. Anthropic!Open' = Anthropic!Open
  BY DEF Anthropic!Open
<1>3. Anthropic!Kept' = Anthropic!Kept
  BY <1>2 DEF Anthropic!Kept
<1>4. QED
  BY <1>1, <1>2, <1>3 DEF Anthropic!PartialBlocks

(* A report of usage keeps the invariant. *)
LEMMA ReportKeeps ==
  ASSUME StreamInv, NEW phase, Sending(phase), phase # "closed",
         NEW report, IsReport(report), NEW stop \in Anthropic!StopReasons,
         Anthropic!Report(report, stop), NEW next \in Phases,
         next = "finished" => sent.open = {}, next # "closed",
         sent' = [sent EXCEPT !.usage = Reported(report), !.phase = next], Passes
  PROVE  StreamInv' /\ seen' = seen /\ turn' = turn /\ stream' = stream
<1> DEFINE usage == Anthropic!MergeUsage(session.usage, report)
<1>1. /\ AnthropicTurn /\ \A j \in Index : AnthropicShown(j)
      /\ session \in Anthropic!Session /\ seen \in Knowledge
      /\ turn = NoTurn /\ ~session.done /\ turn.stop = "none" /\ turn.content = {}
  BY Types, NotDone DEF StreamInv, AnthropicInv, Sending
<1>2. /\ session' = [session EXCEPT !.usage = usage,
                                    !.stop = IF stop # "none" THEN stop ELSE @]
      /\ batch' = IF usage # Zero THEN <<UsageUpdate(usage)>> ELSE <<>>
      /\ Deliver /\ provider' = provider /\ stream' = stream
  BY AnthropicEvents DEF Anthropic!Report, Anthropic!Yields, Passes
<1>3. usage \in Usage /\ Reported(report) \in Usage
  BY <1>1, MergedTyped, ReportedTyped, AnthropicEvents, Types
     DEF StreamInv, Anthropic!Session
<1> HIDE DEF usage
<1>4. seen' = seen /\ turn' = turn
  <2>1. UsageUpdate(usage).type = "usage"
    BY DEF UsageUpdate
  <2>2. CASE usage # Zero
    BY <1>2, <2>1, <2>2, DeliveredOne, ConsumeOther
  <2>3. CASE usage = Zero
    BY <1>2, <2>3, DeliveredNothing
  <2>4. QED
    BY <2>2, <2>3
<1>5. /\ session' \in Anthropic!Session /\ session'.done = session.done
      /\ session'.kinds = session.kinds /\ session'.size = session.size
      /\ session'.signed = session.signed /\ session'.args = session.args
      /\ session'.stopped = session.stopped /\ session'.blocks = session.blocks
  BY <1>1, <1>2, <1>3, AnthropicEvents DEF Anthropic!Session
<1>6. /\ sent' \in [args : [Index -> Arguments], ids : SUBSET Index,
                    usage : Usage, open : SUBSET Index, phase : Phases]
      /\ sent'.args = sent.args /\ sent'.open = sent.open /\ sent'.phase = next
      /\ sent'.ids = sent.ids
  BY <1>3, Types DEF StreamInv
<1>7. TypeOK'
  BY <1>1, <1>2, <1>4, <1>5, <1>6 DEF TypeOK, StreamInv, Knowledge, Sending
<1>8. \A j \in Index : AnthropicShown(j)'
  BY <1>1, <1>4, <1>5, <1>6 DEF AnthropicShown, AnthropicStage
<1>9. AnthropicTurn'
  BY <1>1, <1>2, <1>4, <1>5, <1>6, AllBlocksStay DEF AnthropicTurn
<1>10. TurnInv'
  BY <1>2, <1>4 DEF TurnInv, StreamInv
<1>11. QED
  BY <1>2, <1>4, <1>7, <1>8, <1>9, <1>10
     DEF StreamInv, OpenAIInv, AnthropicInv, Sending

(* A turn that completes, by message_stop or at the end of the stream. *)
LEMMA CompleteKeeps ==
  ASSUME StreamInv, provider = "anthropic", stream = "reading", turn = NoTurn,
         Anthropic!Complete, Deliver, UNCHANGED provider, NEW next \in Phases,
         sent' = [sent EXCEPT !.phase = next],
         next \in {"finished", "closed"} => sent.open = {},
         \/ stream' = "reading" /\ next = "closed"
         \/ stream' = "ended"
  PROVE  /\ StreamInv' /\ turn' # NoTurn
         /\ seen'.calls = seen.calls /\ UsageStays
<1> DEFINE reason == Anthropic!MapStopReason(session.stop)
<1>1. /\ AnthropicTurn /\ \A j \in Index : AnthropicShown(j)
      /\ session \in Anthropic!Session /\ seen \in Knowledge
      /\ turn.stop = "none"
  BY Types DEF StreamInv, AnthropicInv, NoTurn
<1>2. reason # "error" /\ reason # "none"
  BY <1>1 DEF Anthropic!MapStopReason, Anthropic!Session, Anthropic!StopReasons
<1> HIDE DEF reason
<1>3. /\ session' = [session EXCEPT !.done = TRUE]
      /\ batch' = <<TurnDone(reason, session.blocks, session.usage)>>
  BY AnthropicEvents DEF Anthropic!Complete, Anthropic!Yields, reason
<1>4. /\ seen' = [seen EXCEPT !.sealed = TRUE]
      /\ turn' = [stop |-> reason, content |-> session.blocks, usage |-> session.usage]
  <2> DEFINE e == TurnDone(reason, session.blocks, session.usage)
  <2>1. e.type = "turn_done" /\ e.turn = [stop |-> reason, content |-> session.blocks,
                                          usage |-> session.usage]
    BY DEF TurnDone
  <2>2. Consume(seen, e) = [seen EXCEPT !.sealed = TRUE]
    BY DEF Consume, TurnDone
  <2> HIDE DEF e
  <2>3. batch' = <<e>>
    BY <1>3 DEF e
  <2>4. QED
    BY <2>1, <2>2, <2>3, DeliveredOne
<1>5. turn' # NoTurn /\ turn'.stop # "error" /\ turn'.content = session.blocks
  BY <1>2, <1>4 DEF NoTurn
<1>6. /\ session' \in Anthropic!Session /\ session'.done
      /\ session'.kinds = session.kinds /\ session'.size = session.size
      /\ session'.signed = session.signed /\ session'.args = session.args
      /\ session'.stopped = session.stopped /\ session'.blocks = session.blocks
  BY <1>1, <1>3 DEF Anthropic!Session
<1>7. /\ seen' \in Knowledge /\ seen'.sealed /\ seen'.calls = seen.calls
      /\ seen'.text = seen.text /\ seen'.reasoning = seen.reasoning
  BY <1>1, <1>4 DEF Knowledge
<1>8. /\ sent' \in [args : [Index -> Arguments], ids : SUBSET Index,
                    usage : Usage, open : SUBSET Index, phase : Phases]
      /\ sent'.args = sent.args /\ sent'.open = sent.open /\ sent'.phase = next
      /\ sent'.ids = sent.ids
  BY Types DEF StreamInv
<1>9. TypeOK'
  BY <1>6, <1>7, <1>8 DEF TypeOK, StreamInv, Knowledge
<1>10. \A j \in Index : AnthropicShown(j)'
  BY <1>1, <1>5, <1>6, <1>7, <1>8 DEF AnthropicShown, AnthropicStage
<1>11. AnthropicTurn'
  BY <1>1, <1>5, <1>6, <1>8, AllBlocksStay DEF AnthropicTurn
<1>12. TurnInv'
  <2>1. session.blocks \subseteq Blocks
    BY <1>1, AnthropicEvents DEF Anthropic!Session
  <2>2. QED
    BY <1>5, <1>7, <2>1 DEF TurnInv, StreamInv
<1>13. UsageStays
  BY <1>1, <1>3, <1>4 DEF UsageStays, Anthropic!Session
<1>14. QED
  BY <1>5, <1>7, <1>9, <1>10, <1>11, <1>12, <1>13
     DEF StreamInv, OpenAIInv, AnthropicInv

(* The message is closed, and the turn done. *)
LEMMA MessageStopKeeps ==
  ASSUME StreamInv, MessageStop
  PROVE  /\ StreamInv' /\ turn' # NoTurn /\ turn = NoTurn /\ stream' = "reading"
         /\ seen'.calls = seen.calls /\ UsageStays
<1>1. /\ Sending("finished") /\ sent' = [sent EXCEPT !.phase = "closed"]
      /\ Anthropic!MessageStop /\ Deliver /\ UNCHANGED <<provider, stream>>
  BY DEF MessageStop, Passes
<1>2. turn = NoTurn /\ ~session.done
  BY <1>1, NotDone DEF Sending
<1>3. Anthropic!Complete
  BY <1>1, <1>2 DEF Anthropic!MessageStop
<1>4. sent.open = {}
  BY <1>1 DEF Sending, StreamInv, AnthropicInv, AnthropicTurn
<1>5. QED
  BY <1>1, <1>2, <1>3, <1>4, CompleteKeeps DEF Sending, Phases

(* The session has nothing more to say. *)
LEMMA NothingKeeps ==
  ASSUME StreamInv, provider = "anthropic", stream = "reading",
         Anthropic!Nothing, Deliver, UNCHANGED <<provider, sent>>,
         \/ stream' = "ended" /\ turn # NoTurn
         \/ stream' = "raised" /\ (turn = NoTurn => Anthropic!PartialBlocks = {})
  PROVE  StreamInv' /\ turn' = turn /\ seen' = seen /\ UsageStays
<1>1. session' = session /\ batch' = <<>>
  BY DEF Anthropic!Nothing, Anthropic!Yields
<1>2. seen' = seen /\ turn' = turn
  BY <1>1, DeliveredNothing
<1>3. TypeOK'
  BY <1>1, <1>2 DEF TypeOK, StreamInv
<1>4. \A j \in Index : AnthropicShown(j)'
  BY <1>1, <1>2 DEF AnthropicShown, AnthropicStage, StreamInv, AnthropicInv
<1>5. AnthropicTurn'
  <2>1. AnthropicTurn
    BY DEF StreamInv, AnthropicInv
  <2>2. QED
    BY <1>1, <1>2, <2>1, AllBlocksStay DEF AnthropicTurn
<1>6. TurnInv'
  BY <1>2 DEF TurnInv, StreamInv
<1>7. QED
  BY <1>1, <1>2, <1>3, <1>4, <1>5, <1>6
     DEF StreamInv, OpenAIInv, AnthropicInv, UsageStays

(* An Anthropic stream ends. *)
LEMMA AnthropicEndsKeeps ==
  ASSUME StreamInv, provider = "anthropic", StreamEnds
  PROVE  StreamInv' /\ seen'.calls = seen.calls /\ UsageStays
<1>1. /\ stream = "reading" /\ stream' = "ended" /\ Deliver
      /\ UNCHANGED <<provider, sent>> /\ Anthropic!MessageStop
  BY DEF StreamEnds, Anthropic!Finalize
<1>2. session.done <=> turn # NoTurn
  BY DEF StreamInv, AnthropicInv, AnthropicTurn
<1>3. CASE session.done
  BY <1>1, <1>2, <1>3, NothingKeeps DEF Anthropic!MessageStop
<1>4. CASE ~session.done
  <2>1. Anthropic!Complete
    BY <1>1, <1>4 DEF Anthropic!MessageStop
  <2>2. sent.phase \in Phases /\ sent' = [sent EXCEPT !.phase = sent.phase]
    BY <1>1, Types DEF StreamInv
  <2>3. sent.phase \in {"finished", "closed"} => sent.open = {}
    BY DEF StreamInv, AnthropicInv, AnthropicTurn
  <2>4. QED
    BY <1>1, <1>2, <1>4, <2>1, <2>2, <2>3, CompleteKeeps
<1>5. QED
  BY <1>3, <1>4

(* The calls left open are closed one after the other. *)
LEMMA PartialEventsAre ==
  ASSUME StreamInv, provider = "anthropic", turn = NoTurn, stream = "reading"
  PROVE  LET S == {i \in Anthropic!Open : session.kinds[i] = "tool_use"}
             ends == Anthropic!PartialEvents
         IN  /\ ends \in Seq({ends[k] : k \in 1..Len(ends)})
             /\ \A k \in 1..Len(ends) : ends[k].type = "end"
             /\ After(seen, ends) = CallsEnded(seen, S, session.args)
<1> DEFINE S == {i \in Anthropic!Open : session.kinds[i] = "tool_use"}
           ends == Anthropic!PartialEvents
           order == Anthropic!Ordered(S)
           n == Len(order)
<1>1. /\ AnthropicTurn /\ \A j \in Index : AnthropicShown(j)
      /\ session \in Anthropic!Session /\ seen \in Knowledge
      /\ turn.stop = "none" /\ ~seen.sealed
  BY Types DEF StreamInv, AnthropicInv, NoTurn, TurnInv
<1>2. S \in SUBSET Index
  BY DEF Anthropic!Open
<1>4. ends = [k \in 1..n |-> ToolCallEnd(order[k], session.args[order[k]])]
  BY AnthropicEvents DEF Anthropic!PartialEvents
<1>5. /\ order \in Seq(S)
      /\ \A i \in S : \E k \in 1..n : order[k] = i
      /\ \A k, l \in 1..n : order[k] = order[l] => k = l
  BY <1>2, OrderIs, OrdersChosen
<1>6. \A i \in S : seen.calls[i] = "open"
  BY <1>1, <1>2 DEF AnthropicTurn, AnthropicShown, AnthropicStage
<1>7. After(seen, ends) = CallsEnded(seen, S, session.args)
  <2> HIDE DEF S, order, ends
  <2>1. /\ Len(ends) = Len(order)
        /\ \A k \in 1..Len(order) : ends[k] = ToolCallEnd(order[k], session.args[order[k]])
    BY <1>4, <1>5
  <2>2. QED
    <3>1. /\ order \in Seq(S)
          /\ \A i \in S : \E k \in 1..Len(order) : order[k] = i
          /\ \A k, l \in 1..Len(order) : order[k] = order[l] => k = l
      BY <1>5
    <3>2. seen \in Knowledge /\ ~seen.sealed
      BY <1>1
    <3>3. QED
      <4> HIDE DEF n
      <4> QED
        BY ONLY <1>2, <1>6, <2>1, <3>1, <3>2, EndsConsumed, SMTT(30)
<1>8. n \in Nat
  BY <1>5
<1>9. /\ ends \in Seq({ends[k] : k \in 1..Len(ends)})
      /\ \A k \in 1..Len(ends) : ends[k].type = "end"
  <2> HIDE DEF S, order, ends, n
  <2>1. Len(ends) = n /\ \A k \in 1..n : ends[k] = ToolCallEnd(order[k], session.args[order[k]])
    BY <1>4, <1>8
  <2>2. \A i, a : ToolCallEnd(i, a).type = "end"
    BY DEF ToolCallEnd, Event
  <2> DEFINE F == {ends[k] : k \in 1..n}
  <2>3. ends \in [1..n -> F]
    BY <1>4
  <2> HIDE DEF F
  <2>4. ends \in Seq(F)
    BY <1>8, <2>3
  <2>5. QED
    BY <2>1, <2>2, <2>4 DEF F
<1>10. QED
  BY <1>7, <1>9

(* What can be saved of a broken Anthropic stream is blocks. *)
LEMMA PartialTyped ==
  ASSUME StreamInv, provider = "anthropic"
  PROVE  Anthropic!PartialBlocks \subseteq Blocks
<1>1. session \in Anthropic!Session
  BY Types DEF StreamInv
<1>2. session.blocks \subseteq Blocks
  BY <1>1, AnthropicEvents DEF Anthropic!Session
<1>3. ASSUME NEW i \in Anthropic!Kept
      PROVE  Anthropic!BlockOf(i) \in Blocks
  <2>1. i \in Index /\ session.kinds[i] # "none"
    BY DEF Anthropic!Kept, Anthropic!Open
  <2>2. session.size[i] \in Nat /\ session.args[i] \in Arguments
        /\ session.signed[i] \in BOOLEAN /\ session.kinds[i] \in Anthropic!Kinds
    BY <1>1, <2>1, AnthropicEvents DEF Anthropic!Session
  <2>3. QED
    BY <2>1, <2>2, AnthropicBlockOf, BlocksTyped DEF Anthropic!Kinds
<1>4. QED
  BY <1>2, <1>3 DEF Anthropic!PartialBlocks

(* An Anthropic stream breaks with something to save. *)
LEMMA AnthropicRecovers ==
  ASSUME StreamInv, provider = "anthropic", StreamBreaks,
         ~session.done, Anthropic!PartialBlocks # {}
  PROVE  /\ StreamInv' /\ stream' = "recovered" /\ turn = NoTurn
         /\ \A i \in Index : CallMoves(i)
         /\ UsageStays
<1> DEFINE S == {i \in Anthropic!Open : session.kinds[i] = "tool_use"}
           ends == Anthropic!PartialEvents
           done == TurnDone("error", Anthropic!PartialBlocks, session.usage)
           known == CallsEnded(seen, S, session.args)
<1>1. /\ AnthropicTurn /\ \A j \in Index : AnthropicShown(j)
      /\ session \in Anthropic!Session /\ seen \in Knowledge
      /\ stream = "reading" /\ turn = NoTurn /\ turn.stop = "none"
  BY Types DEF StreamInv, AnthropicInv, AnthropicTurn, NoTurn, StreamBreaks
<1>2. /\ session' = [session EXCEPT !.done = TRUE] /\ batch' = Append(ends, done)
      /\ Deliver /\ UNCHANGED <<provider, sent>>
      /\ stream' = IF batch' = <<>> THEN "raised" ELSE "recovered"
  BY AnthropicEvents
     DEF StreamBreaks, Anthropic!FinalizeOnError, Anthropic!Nothing, Anthropic!Yields
<1>3. /\ ends \in Seq({ends[k] : k \in 1..Len(ends)})
      /\ \A k \in 1..Len(ends) : ends[k].type = "end"
      /\ After(seen, ends) = known
  BY <1>1, PartialEventsAre
<1>4. stream' = "recovered"
  <2> DEFINE E == {ends[k] : k \in 1..Len(ends)} \cup {done}
  <2>1. ends \in Seq(E) /\ done \in E
    BY <1>3
  <2> HIDE DEF ends, done, E
  <2>2. Append(ends, done) # <<>>
    BY <2>1
  <2>3. QED
    BY <1>2, <2>2
<1>5. /\ seen' = [known EXCEPT !.sealed = TRUE]
      /\ turn' = [stop |-> "error", content |-> Anthropic!PartialBlocks,
                  usage |-> session.usage]
  <2> DEFINE F == {ends[k] : k \in 1..Len(ends)}
             partial == Anthropic!PartialBlocks
  <2>1. ends \in Seq(F) /\ batch' = Append(ends, TurnDone("error", partial, session.usage))
    BY <1>2, <1>3
  <2> HIDE DEF ends, known, F, partial
  <2>2. /\ seen' = [After(seen, ends) EXCEPT !.sealed = TRUE]
        /\ turn' = [stop |-> "error", content |-> partial, usage |-> session.usage]
    BY <1>2, <1>3, <2>1, DeliveredLast
  <2>3. QED
    BY <1>3, <2>2 DEF partial
<1>6. turn' # NoTurn /\ turn'.stop = "error" /\ turn'.content = Anthropic!PartialBlocks
  BY <1>5 DEF NoTurn
<1>7. known \in Knowledge
  BY <1>1, CallsEndedTyped
<1>8. /\ seen' \in Knowledge /\ seen'.sealed /\ seen'.text = seen.text
      /\ seen'.reasoning = seen.reasoning
      /\ \A j \in Index : seen'.calls[j] =
           IF j \in S THEN EndOf(session.args[j]) ELSE seen.calls[j]
  <2>1. /\ known.text = seen.text /\ known.reasoning = seen.reasoning
        /\ \A j \in Index : known.calls[j] =
             IF j \in S THEN EndOf(session.args[j]) ELSE seen.calls[j]
    BY <1>1 DEF CallsEnded, Knowledge
  <2> HIDE DEF known, S
  <2>2. QED
    BY <1>5, <1>7, <2>1 DEF Knowledge
<1>9. /\ session' \in Anthropic!Session /\ session'.done
      /\ session'.kinds = session.kinds /\ session'.size = session.size
      /\ session'.signed = session.signed /\ session'.args = session.args
      /\ session'.stopped = session.stopped /\ session'.blocks = session.blocks
  BY <1>1, <1>2 DEF Anthropic!Session
<1>10. TypeOK'
  BY <1>2, <1>4, <1>8, <1>9 DEF TypeOK, StreamInv, Knowledge
<1>11. ASSUME NEW j \in Index
       PROVE  AnthropicShown(j)' /\ CallMoves(j)
  <2>1. \A a : EndOf(a) # "absent"
    BY DEF EndOf
  <2>2. j \in S <=> j \in sent.open /\ session.kinds[j] = "tool_use"
    BY <1>1 DEF AnthropicTurn
  <2> HIDE DEF S
  <2>3. QED
    BY <1>1, <1>2, <1>6, <1>8, <1>9, <2>1, <2>2
       DEF AnthropicShown, AnthropicStage, CallMoves
<1>12. AnthropicTurn'
  BY <1>1, <1>2, <1>4, <1>6, <1>9, AllBlocksStay DEF AnthropicTurn
<1>13. TurnInv'
  BY <1>4, <1>6, <1>8, PartialTyped DEF TurnInv
<1>14. UsageStays
  BY <1>1, <1>2, <1>5 DEF UsageStays, Anthropic!Session
<1>15. QED
  BY <1>1, <1>2, <1>4, <1>10, <1>11, <1>12, <1>13, <1>14
     DEF StreamInv, OpenAIInv, AnthropicInv

(* An Anthropic stream breaks with nothing to save, or behind its turn. *)
LEMMA AnthropicRaises ==
  ASSUME StreamInv, provider = "anthropic", StreamBreaks,
         session.done \/ Anthropic!PartialBlocks = {}
  PROVE  /\ StreamInv' /\ stream' = "raised" /\ turn' = turn
         /\ seen' = seen /\ UsageStays
<1>1. /\ stream = "reading" /\ Deliver /\ UNCHANGED <<provider, sent>>
      /\ Anthropic!Nothing
      /\ stream' = IF batch' = <<>> THEN "raised" ELSE "recovered"
  BY DEF StreamBreaks, Anthropic!FinalizeOnError
<1>2. stream' = "raised"
  BY <1>1 DEF Anthropic!Nothing, Anthropic!Yields
<1>3. turn = NoTurn => Anthropic!PartialBlocks = {}
  BY DEF StreamInv, AnthropicInv, AnthropicTurn
<1>4. QED
  BY <1>1, <1>2, <1>3, NothingKeeps

(* The loop leaves the stream. *)
LEMMA AbandonedKeeps ==
  ASSUME StreamInv, Abandoned
  PROVE  StreamInv'
<1>1. /\ UNCHANGED <<provider, session, batch, turn, seen, sent>>
      /\ stream = "reading" /\ stream' = "abandoned"
  BY DEF Abandoned
<1>2. TypeOK' /\ TurnInv'
  BY <1>1 DEF StreamInv, TypeOK, TurnInv
<1>3. OpenAIInv'
  <2>1. OpenAI!Content' = OpenAI!Content
    BY <1>1 DEF OpenAI!Content, OpenAI!Started
  <2>2. QED
    BY <1>1, <2>1 DEF StreamInv, OpenAIInv, OpenAITurn, OpenAIShown, OpenAIStage
<1>4. AnthropicInv'
  BY <1>1, AllBlocksStay
     DEF StreamInv, AnthropicInv, AnthropicTurn, AnthropicShown, AnthropicStage
<1>5. QED
  BY <1>2, <1>3, <1>4 DEF StreamInv

-----------------------------------------------------------------------------
(* A chunk of an OpenAI-compatible provider. *)

(* The OpenAI session's events and types are the module's. *)
LEMMA OpenAIEvents ==
  /\ \A i : /\ OpenAI!TextDelta(i) = TextDelta(i)
            /\ OpenAI!ReasoningDelta(i) = ReasoningDelta(i)
            /\ OpenAI!ToolCallStart(i) = ToolCallStart(i)
  /\ \A i, args : OpenAI!ToolCallEnd(i, args) = ToolCallEnd(i, args)
  /\ \A u : OpenAI!UsageUpdate(u) = UsageUpdate(u)
  /\ \A s, c, u : OpenAI!TurnDone(s, c, u) = TurnDone(s, c, u)
  /\ \A t, i, id, w : OpenAI!Event(t, i, id, w) = Event(t, i, id, w)
  /\ \A args, f : OpenAI!Concat(args, f) = Concat(args, f)
  /\ OpenAI!Arguments = Arguments /\ OpenAI!Zero = Zero /\ OpenAI!Usage = Usage
  /\ OpenAI!Blocks = Blocks /\ OpenAI!NoReport = NoReport
  /\ OpenAI!Fragments = Fragments
  /\ \A raw : OpenAI!IsReport(raw) = IsReport(raw)
BY DEF OpenAI!TextDelta, OpenAI!ReasoningDelta, OpenAI!ToolCallStart,
   OpenAI!ToolCallEnd, OpenAI!UsageUpdate, OpenAI!TurnDone, OpenAI!Event,
   OpenAI!Concat, OpenAI!Arguments, OpenAI!Zero, OpenAI!Usage,
   OpenAI!Blocks, OpenAI!BlockKinds, OpenAI!NoReport, OpenAI!Executable,
   OpenAI!Fragments, OpenAI!IsReport, OpenAI!Canonical,
   TextDelta, ReasoningDelta, ToolCallStart, ToolCallEnd, UsageUpdate, TurnDone, Event,
   Concat, Arguments, Zero, Usage, Blocks, BlockKinds, NoReport, Executable,
   Fragments, IsReport, Canonical

(* The OpenAI session normalizes a usage as the module does. *)
LEMMA OpenAINormalizes ==
  \A raw : OpenAI!NormalizeUsage(raw) = NormalizeUsage(raw)
BY DEF OpenAI!NormalizeUsage, NormalizeUsage, OpenAI!Counted, Counted,
   OpenAI!HasSplitFields, HasSplitFields

(* The events of a chunk. *)
DeltaEvents ==
  {e \in [type : {"text", "reasoning", "start", "id", "name", "args"},
          index : Index, id : BOOLEAN,
          what : Fragments \cup {"fragment", "none", "id", "name"}] :
     e.type = "args" => e.what \in Fragments}

ChunkEvents == DeltaEvents \cup {UsageUpdate(u) : u \in Usage}

(* An event that may be there is consumed if it is. *)
LEMMA AfterMaybe ==
  ASSUME NEW known, NEW E, NEW events \in Seq(E), NEW e \in E, NEW more \in {<<>>, <<e>>}
  PROVE  /\ events \o more \in Seq(E)
         /\ more = <<>> => After(known, events \o more) = After(known, events)
         /\ more = <<e>> =>
              After(known, events \o more) = Consume(After(known, events), e)
<1>1. CASE more = <<>>
  BY <1>1
<1>2. CASE more = <<e>>
  <2>1. events \o more = Append(events, e)
    BY <1>2
  <2>2. After(known, Append(events, e)) = Consume(After(known, events), e)
    BY AfterAppend
  <2>3. <<e>> # <<>>
    OBVIOUS
  <2>4. events \o more \in Seq(E) /\ more # <<>>
    BY <1>2, <2>3
  <2>5. QED
    BY <1>2, <2>1, <2>2, <2>4
<1>3. QED
  BY <1>1, <1>2

(* Entries of calls, and what the consumer knows of them. *)
(* The calls of an OpenAI session, empty until they are started. *)
Entries ==
  {calls \in [Index -> OpenAI!Entry] :
     \A i \in Index :
       ~calls[i].started => calls[i].args = "empty" /\ ~calls[i].id}

(* A chunk opens calls, and shows nothing else after base. *)
Opened(known, calls, base) ==
  /\ known \in Knowledge /\ ~known.sealed
  /\ known.text = base.text /\ known.reasoning = base.reasoning
  /\ \A i \in Index : known.calls[i] = IF calls[i].started THEN "open" ELSE "absent"

(* What feeding a delta makes of a call. *)
LEMMA FedCalls ==
  ASSUME NEW acc, acc.calls \in Entries, NEW d \in OpenAI!ToolDelta
  PROVE  LET calls == OpenAI!FeedDelta(acc, d).calls IN
         /\ calls \in Entries
         /\ \A j \in Index \ {d.index} : calls[j] = acc.calls[j]
         /\ calls[d.index].started
         /\ calls[d.index].args = IF d.args = "none" THEN acc.calls[d.index].args
                                  ELSE Concat(acc.calls[d.index].args, d.args)
         /\ calls[d.index].id <=> acc.calls[d.index].id \/ d.id
<1> DEFINE i == d.index
           known == acc.calls[i].started
           entry == OpenAI!Known(IF known THEN acc.calls[i] ELSE OpenAI!NoEntry, d)
           calls == [acc.calls EXCEPT ![i] = entry]
<1>1. OpenAI!FeedDelta(acc, d).calls = calls
  BY DEF OpenAI!FeedDelta, OpenAI!KnownEntry
<1>2. /\ i \in Index /\ d.id \in BOOLEAN /\ d.name \in BOOLEAN
      /\ acc.calls \in [Index -> OpenAI!Entry] /\ acc.calls[i] \in OpenAI!Entry
      /\ ~known => acc.calls[i].args = "empty" /\ ~acc.calls[i].id
  BY DEF OpenAI!ToolDelta, Entries
<1>3. /\ entry.started
      /\ entry.args = IF d.args = "none" THEN acc.calls[i].args
                      ELSE Concat(acc.calls[i].args, d.args)
      /\ entry.id <=> acc.calls[i].id \/ d.id
  BY <1>2, OpenAIEvents DEF OpenAI!Known, OpenAI!NoEntry
<1>4. entry \in OpenAI!Entry
  <2>1. entry.args \in Arguments
    BY <1>2, <1>3, ConcatTyped, OpenAIEvents DEF OpenAI!Entry
  <2>2. /\ entry.started \in BOOLEAN /\ entry.id \in BOOLEAN /\ entry.name \in BOOLEAN
        /\ entry = [started |-> entry.started, id |-> entry.id, name |-> entry.name,
                    args |-> entry.args]
    BY <1>2 DEF OpenAI!Known, OpenAI!Entry, OpenAI!NoEntry
  <2> HIDE DEF entry
  <2>3. QED
    BY <2>1, <2>2, OpenAIEvents DEF OpenAI!Entry
<1> HIDE DEF entry
<1>5. calls \in Entries
  BY <1>2, <1>3, <1>4 DEF Entries
<1>6. QED
  BY <1>1, <1>2, <1>3, <1>5

(* The events of a delta open its call and leave it open. *)
LEMMA FedOpens ==
  ASSUME NEW acc, NEW base, acc.calls \in Entries, acc.out \in Seq(ChunkEvents),
         Opened(After(base, acc.out), acc.calls, base), NEW d \in OpenAI!ToolDelta
  PROVE  LET fed == OpenAI!FeedDelta(acc, d) IN
         /\ fed.out \in Seq(ChunkEvents)
         /\ Opened(After(base, fed.out), fed.calls, base)
<1> DEFINE fed == OpenAI!FeedDelta(acc, d)
           i == d.index
           id == fed.calls[i].id
           e1 == ToolCallStart(i)
           e2 == Event("id", i, TRUE, "id")
           e3 == Event("name", i, id, "name")
           e4 == Event("args", i, id, d.args)
           m1 == OpenAI!OnlyIf(~acc.calls[i].started, e1)
           m2 == OpenAI!OnlyIf(d.id, e2)
           m3 == OpenAI!OnlyIf(d.name, e3)
           m4 == OpenAI!OnlyIf(d.args # "none", e4)
<1>1. /\ fed.calls \in Entries
      /\ \A j \in Index \ {i} : fed.calls[j] = acc.calls[j]
      /\ fed.calls[i].started
  BY FedCalls
<1>2. /\ i \in Index /\ d.args \in Fragments \cup {"none"}
      /\ fed.calls[i] \in OpenAI!Entry /\ id \in BOOLEAN
  BY <1>1, OpenAIEvents DEF OpenAI!ToolDelta, Entries, OpenAI!Entry
<1>3. fed.out = acc.out \o m1 \o m2 \o m3 \o m4
  <2>1. acc.calls \in [Index -> OpenAI!Entry]
    BY DEF Entries
  <2>2. QED
    BY <1>2, <2>1, OpenAIEvents DEF OpenAI!FeedDelta, OpenAI!KnownEntry
<1> HIDE DEF fed, id
<1>4. e1 \in ChunkEvents /\ e2 \in ChunkEvents /\ e3 \in ChunkEvents
  BY <1>2 DEF ChunkEvents, DeltaEvents, ToolCallStart, Event
<1>5. d.args # "none" => e4 \in ChunkEvents
  BY <1>2 DEF ChunkEvents, DeltaEvents, Event
<1>6. \A e \in {e2, e3, e4} : e.type \in {"id", "name", "args"} /\ e.index = i
  BY DEF Event
<1>7. /\ m1 = IF acc.calls[i].started THEN <<>> ELSE <<e1>>
      /\ m2 \in {<<>>, <<e2>>} /\ m3 \in {<<>>, <<e3>>}
      /\ m4 = IF d.args # "none" THEN <<e4>> ELSE <<>>
  BY DEF OpenAI!OnlyIf
<1> HIDE DEF e1, e2, e3, e4, m1, m2, m3, m4, i
<1> DEFINE o1 == acc.out \o m1
           o2 == o1 \o m2
           o3 == o2 \o m3
           o4 == o3 \o m4
           new == After(base, o1)
<1>8. o1 \in Seq(ChunkEvents) /\ Opened(new, fed.calls, base)
  <2> DEFINE known == After(base, acc.out)
  <2>1. CASE acc.calls[i].started
    <3>1. m1 = <<>>
      BY <1>7, <2>1
    <3>2. o1 \in Seq(ChunkEvents) /\ new = known
      BY <1>4, <3>1, AfterMaybe
    <3> HIDE DEF new, o1, known
    <3>3. Opened(known, acc.calls, base)
      BY DEF known
    <3>4. QED
      BY <1>1, <1>2, <2>1, <3>2, <3>3 DEF Opened
  <2>2. CASE ~acc.calls[i].started
    <3>1. m1 = <<e1>> /\ <<e1>> # <<>>
      BY <1>7, <2>2
    <3>2. o1 \in Seq(ChunkEvents) /\ new = Consume(known, e1)
      BY <1>4, <3>1, AfterMaybe
    <3> HIDE DEF new, o1, known
    <3>3. Opened(known, acc.calls, base)
      BY DEF known
    <3>4. known \in Knowledge /\ ~known.sealed /\ known.calls[i] = "absent"
      BY <1>2, <2>2, <3>3 DEF Opened
    <3>5. new = [known EXCEPT !.calls[i] = "open"]
      BY <1>2, <3>2, <3>4, ConsumeStart DEF e1
    <3>6. /\ new \in Knowledge /\ ~new.sealed
          /\ new.text = known.text /\ new.reasoning = known.reasoning
          /\ new.calls = [known.calls EXCEPT ![i] = "open"]
          /\ known.calls \in [Index -> {"absent", "open", "use", "invalid"}]
      BY <1>2, <3>4, <3>5 DEF Knowledge
    <3>7. QED
      BY <1>1, <1>2, <3>2, <3>3, <3>6 DEF Opened
  <2>3. QED
    BY <2>1, <2>2
<1>9. new \in Knowledge /\ ~new.sealed /\ new.calls[i] = "open"
  BY <1>1, <1>2, <1>8 DEF Opened
<1> HIDE DEF o1, new
<1>10. o2 \in Seq(ChunkEvents) /\ After(base, o2) = new
  <2>1. Consume(new, e2) = new
    BY <1>2, <1>6, <1>9, ConsumeDelta
  <2>2. CASE m2 = <<>>
    BY <1>4, <1>8, <2>2, AfterMaybe DEF new
  <2>3. CASE m2 = <<e2>>
    BY <1>4, <1>8, <2>1, <2>3, AfterMaybe DEF new
  <2>4. QED
    BY <1>7, <2>2, <2>3
<1> HIDE DEF o2
<1>11. o3 \in Seq(ChunkEvents) /\ After(base, o3) = new
  <2>1. Consume(new, e3) = new
    BY <1>2, <1>6, <1>9, ConsumeDelta
  <2>2. CASE m3 = <<>>
    BY <1>4, <1>10, <2>2, AfterMaybe
  <2>3. CASE m3 = <<e3>>
    BY <1>4, <1>10, <2>1, <2>3, AfterMaybe
  <2>4. QED
    BY <1>7, <2>2, <2>3
<1> HIDE DEF o3
<1>12. o4 \in Seq(ChunkEvents) /\ After(base, o4) = new
  <2>1. CASE d.args # "none"
    <3>1. Consume(new, e4) = new
      BY <1>2, <1>6, <1>9, ConsumeDelta
    <3>2. QED
      BY <1>5, <1>7, <1>11, <2>1, <3>1, AfterMaybe
  <2>2. CASE d.args = "none"
    BY <1>4, <1>7, <1>11, <2>2, AfterMaybe
  <2>3. QED
    BY <2>1, <2>2
<1>13. fed.out = o4
  BY <1>3 DEF o1, o2, o3
<1> HIDE DEF o4
<1>14. QED
  BY <1>8, <1>12, <1>13 DEF fed

(* h holds what was fed after each delta, g the arguments sent by then. *)
LEMMA FeedIsFed ==
  ASSUME NEW acc, NEW deltas, Len(deltas) \in Nat
  PROVE  \E h : /\ h = [k \in 0..Len(deltas) |->
                          IF k = 0 THEN acc ELSE OpenAI!FeedDelta(h[k - 1], deltas[k])]
                /\ OpenAI!Fold(OpenAI!FeedDelta, acc, deltas) = h[Len(deltas)]
<1>a. PICK f : f = "feed"
  OBVIOUS
<1>b. PICK h : Folds(h, f, acc, deltas)
  BY FoldExists
<1>c. \A x, e : StepOf(f, x, e) = OpenAI!FeedDelta(x, e)
  BY <1>a DEF StepOf
<1> DEFINE Is(g) == g = [k \in 0..Len(deltas) |->
                  IF k = 0 THEN acc ELSE OpenAI!FeedDelta(g[k - 1], deltas[k])]
<1>1. \E g : Is(g)
  <2>1. \A k \in 0..Len(deltas) :
          h[k] = IF k = 0 THEN acc ELSE OpenAI!FeedDelta(h[k - 1], deltas[k])
    BY <1>b, <1>c DEF Folds
  <2>2. Is(h)
    BY <1>b, <2>1 DEF Folds
  <2>3. QED
    BY <2>2
<1>2. Is(CHOOSE g : Is(g))
  BY <1>1
<1>3. OpenAI!Fold(OpenAI!FeedDelta, acc, deltas) = (CHOOSE g : Is(g))[Len(deltas)]
  BY DEF OpenAI!Fold
<1>4. QED
  BY <1>2, <1>3

(* The function behind the arguments sent. *)
LEMMA SendsIsSent ==
  ASSUME NEW args, NEW deltas, Len(deltas) \in Nat
  PROVE  \E g : /\ g = [k \in 0..Len(deltas) |->
                          IF k = 0 THEN args ELSE Sends(g[k - 1], deltas[k])]
                /\ Fold(Sends, args, deltas) = g[Len(deltas)]
<1>a. PICK f : f = "sends"
  OBVIOUS
<1>b. PICK h : Folds(h, f, args, deltas)
  BY FoldExists
<1>c. \A x, e : StepOf(f, x, e) = Sends(x, e)
  BY <1>a DEF StepOf
<1> DEFINE Is(g) == g = [k \in 0..Len(deltas) |->
                  IF k = 0 THEN args ELSE Sends(g[k - 1], deltas[k])]
<1>1. \E g : Is(g)
  <2>1. \A k \in 0..Len(deltas) :
          h[k] = IF k = 0 THEN args ELSE Sends(h[k - 1], deltas[k])
    BY <1>b, <1>c DEF Folds
  <2>2. Is(h)
    BY <1>b, <2>1 DEF Folds
  <2>3. QED
    BY <2>2
<1>2. Is(CHOOSE g : Is(g))
  BY <1>1
<1>3. Fold(Sends, args, deltas) = (CHOOSE g : Is(g))[Len(deltas)]
  BY DEF Fold
<1>4. QED
  BY <1>2, <1>3

(* The function behind the ids sent. *)
LEMMA IdsAreSent ==
  ASSUME NEW ids, NEW deltas, Len(deltas) \in Nat
  PROVE  \E g : /\ g = [k \in 0..Len(deltas) |->
                          IF k = 0 THEN ids ELSE Identifies(g[k - 1], deltas[k])]
                /\ Fold(Identifies, ids, deltas) = g[Len(deltas)]
<1>a. PICK f : f = "identifies"
  OBVIOUS
<1>b. PICK h : Folds(h, f, ids, deltas)
  BY FoldExists
<1>c. \A x, e : StepOf(f, x, e) = Identifies(x, e)
  BY <1>a DEF StepOf
<1> DEFINE Is(g) == g = [k \in 0..Len(deltas) |->
                  IF k = 0 THEN ids ELSE Identifies(g[k - 1], deltas[k])]
<1>1. \E g : Is(g)
  <2>1. \A k \in 0..Len(deltas) :
          h[k] = IF k = 0 THEN ids ELSE Identifies(h[k - 1], deltas[k])
    BY <1>b, <1>c DEF Folds
  <2>2. Is(h)
    BY <1>b, <2>1 DEF Folds
  <2>3. QED
    BY <2>2
<1>2. Is(CHOOSE g : Is(g))
  BY <1>1
<1>3. Fold(Identifies, ids, deltas) = (CHOOSE g : Is(g))[Len(deltas)]
  BY DEF Fold
<1>4. QED
  BY <1>2, <1>3

(* What holds of a call before the deltas holds behind them. *)
Fed(acc, args, ids, calls, base) ==
  /\ acc.calls \in Entries /\ acc.out \in Seq(ChunkEvents)
  /\ Opened(After(base, acc.out), acc.calls, base)
  /\ args \in [Index -> Arguments]
  /\ ids \subseteq Index
  /\ \A i \in Index : /\ args[i] = acc.calls[i].args
                      /\ acc.calls[i].id <=> i \in ids
                      /\ calls[i].started => acc.calls[i].started

(* One delta keeps it. *)
LEMMA FedOne ==
  ASSUME NEW acc, NEW args, NEW ids, NEW calls, NEW base,
         Fed(acc, args, ids, calls, base),
         NEW d \in OpenAI!ToolDelta
  PROVE  Fed(OpenAI!FeedDelta(acc, d), Sends(args, d), Identifies(ids, d), calls, base)
<1> DEFINE fed == OpenAI!FeedDelta(acc, d)
           i == d.index
<1>1. /\ fed.calls \in Entries
      /\ \A j \in Index \ {i} : fed.calls[j] = acc.calls[j]
      /\ fed.calls[i].started
      /\ fed.calls[i].args = IF d.args = "none" THEN acc.calls[i].args
                             ELSE Concat(acc.calls[i].args, d.args)
      /\ fed.calls[i].id <=> acc.calls[i].id \/ d.id
  BY FedCalls DEF Fed
<1>2. fed.out \in Seq(ChunkEvents) /\ Opened(After(base, fed.out), fed.calls, base)
  BY FedOpens DEF Fed
<1>3. i \in Index
  BY DEF OpenAI!ToolDelta
<1>4. /\ Sends(args, d) \in [Index -> Arguments]
      /\ \A j \in Index : Sends(args, d)[j] = fed.calls[j].args
  <2>1. args \in [Index -> Arguments] /\ \A j \in Index : args[j] = acc.calls[j].args
    BY DEF Fed
  <2> HIDE DEF fed
  <2>2. CASE d.args = "none"
    BY <1>1, <1>3, <2>1, <2>2 DEF Sends
  <2>3. CASE d.args # "none"
    <3>1. Sends(args, d) = [args EXCEPT ![i] = Concat(args[i], d.args)]
      BY <2>3 DEF Sends
    <3>2. Concat(args[i], d.args) \in Arguments
      BY ConcatTyped
    <3>3. QED
      BY <1>1, <1>3, <2>1, <2>3, <3>1, <3>2
  <2>4. QED
    BY <2>2, <2>3
<1>5. \A j \in Index : calls[j].started => fed.calls[j].started
  BY <1>1 DEF Fed
<1>6. /\ Identifies(ids, d) \subseteq Index
      /\ \A j \in Index : fed.calls[j].id <=> j \in Identifies(ids, d)
  <2>1. ids \subseteq Index /\ \A j \in Index : acc.calls[j].id <=> j \in ids
    BY DEF Fed
  <2> HIDE DEF fed
  <2>2. QED
    BY <1>1, <1>3, <2>1 DEF Identifies
<1> HIDE DEF fed
<1>7. QED
  BY <1>1, <1>2, <1>4, <1>5, <1>6 DEF Fed, fed

(* So do all the deltas of a chunk: the induction over its calls. *)
LEMMA FedAll ==
  ASSUME NEW calls \in Entries, NEW base, Opened(base, calls, base),
         NEW args \in [Index -> Arguments], \A i \in Index : args[i] = calls[i].args,
         NEW ids \in SUBSET Index, \A i \in Index : calls[i].id <=> i \in ids,
         NEW deltas \in Seq(OpenAI!ToolDelta)
  PROVE  Fed(OpenAI!Fold(OpenAI!FeedDelta, [calls |-> calls, out |-> <<>>], deltas),
             Fold(Sends, args, deltas), Fold(Identifies, ids, deltas), calls, base)
<1> DEFINE n == Len(deltas)
           acc == [calls |-> calls, out |-> <<>>]
<1>1. n \in Nat /\ \A k \in 1..n : deltas[k] \in OpenAI!ToolDelta
  OBVIOUS
<1>2. PICK h : /\ h = [k \in 0..n |->
                         IF k = 0 THEN acc ELSE OpenAI!FeedDelta(h[k - 1], deltas[k])]
               /\ OpenAI!Fold(OpenAI!FeedDelta, acc, deltas) = h[n]
  BY <1>1, FeedIsFed
<1>3. PICK g : /\ g = [k \in 0..n |-> IF k = 0 THEN args ELSE Sends(g[k - 1], deltas[k])]
               /\ Fold(Sends, args, deltas) = g[n]
  BY <1>1, SendsIsSent
<1>a. PICK f : /\ f = [k \in 0..n |-> IF k = 0 THEN ids ELSE Identifies(f[k - 1], deltas[k])]
               /\ Fold(Identifies, ids, deltas) = f[n]
  BY <1>1, IdsAreSent
<1> DEFINE N == {k \in Nat : k <= n => Fed(h[k], g[k], f[k], calls, base)}
<1>4. 0 \in N
  <2>1. h[0] = acc /\ g[0] = args /\ f[0] = ids
    BY <1>1, <1>2, <1>3, <1>a
  <2>2. Fed(acc, args, ids, calls, base)
    BY AfterNone DEF Fed
  <2>3. QED
    BY <2>1, <2>2
<1>5. ASSUME NEW k \in Nat, k \in N
      PROVE  k + 1 \in N
  <2> SUFFICES ASSUME k + 1 <= n
               PROVE  Fed(h[k + 1], g[k + 1], f[k + 1], calls, base)
    OBVIOUS
  <2> DEFINE l == k + 1
  <2>1. l \in 0..n /\ l \in 1..n /\ l # 0 /\ l - 1 = k
        /\ Fed(h[k], g[k], f[k], calls, base)
    BY <1>1, <1>5
  <2> HIDE DEF l
  <2>2. h[l] = OpenAI!FeedDelta(h[k], deltas[l]) /\ g[l] = Sends(g[k], deltas[l])
        /\ f[l] = Identifies(f[k], deltas[l])
    BY <1>2, <1>3, <1>a, <2>1
  <2>3. deltas[l] \in OpenAI!ToolDelta
    BY <1>1, <2>1
  <2>4. Fed(h[l], g[l], f[l], calls, base)
    BY <2>1, <2>2, <2>3, FedOne
  <2>5. QED
    BY <2>4 DEF l
<1>6. n \in N
  <2> HIDE DEF N, n
  <2>1. QED
    BY <1>1, <1>4, <1>5, NatSet
<1>7. Fed(h[n], g[n], f[n], calls, base)
  BY <1>6
<1>8. QED
  <2> HIDE DEF n, acc
  <2>1. Fed(OpenAI!Fold(OpenAI!FeedDelta, acc, deltas), Fold(Sends, args, deltas),
            Fold(Identifies, ids, deltas), calls, base)
    BY <1>2, <1>3, <1>a, <1>7
  <2>2. QED
    BY <2>1 DEF acc

(* A fragment counted, field by field. *)
LEMMA ShownRecord ==
  ASSUME NEW known \in Knowledge
  PROVE  /\ Consume(known, ReasoningDelta(0))
              = [calls |-> known.calls, text |-> known.text,
                 reasoning |-> [known.reasoning EXCEPT ![0] = @ + 1],
                 sealed |-> known.sealed]
         /\ Consume(known, TextDelta(0))
              = [calls |-> known.calls, text |-> [known.text EXCEPT ![0] = @ + 1],
                 reasoning |-> known.reasoning, sealed |-> known.sealed]
         /\ known = [calls |-> known.calls, text |-> known.text,
                     reasoning |-> known.reasoning, sealed |-> known.sealed]
<1>1. 0 \in Index
  BY IndexAssumption
<1>2. /\ Consume(known, ReasoningDelta(0)) = [known EXCEPT !.reasoning[0] = @ + 1]
      /\ Consume(known, TextDelta(0)) = [known EXCEPT !.text[0] = @ + 1]
  BY <1>1, ConsumeShown
<1>3. QED
  BY <1>2 DEF Knowledge

(* A fragment that may be there. *)
LEMMA OneMore ==
  ASSUME NEW f \in [Index -> Nat], NEW flag \in BOOLEAN
  PROVE  /\ [f EXCEPT ![0] = @ + OpenAI!Counts(flag)] \in [Index -> Nat]
         /\ flag => [f EXCEPT ![0] = @ + OpenAI!Counts(flag)] = [f EXCEPT ![0] = @ + 1]
         /\ ~flag => [f EXCEPT ![0] = @ + OpenAI!Counts(flag)] = f
<1>1. OpenAI!Counts(flag) = IF flag THEN 1 ELSE 0
  BY DEF OpenAI!Counts
<1>2. 0 \in Index /\ f[0] \in Nat
  BY IndexAssumption
<1>3. CASE flag
  <2>1. OpenAI!Counts(flag) = 1
    BY <1>1, <1>3
  <2>2. [f EXCEPT ![0] = @ + 1] \in [Index -> Nat]
    BY <1>2
  <2>3. QED
    BY <1>3, <2>1, <2>2
<1>4. CASE ~flag
  <2>1. OpenAI!Counts(flag) = 0
    BY <1>1, <1>4
  <2>2. f[0] + 0 = f[0]
    BY <1>2
  <2>3. [f EXCEPT ![0] = @ + 0] = [f EXCEPT ![0] = @]
    BY <2>2
  <2>4. [f EXCEPT ![0] = @] = f
    BY <1>2
  <2>5. QED
    BY <1>4, <2>1, <2>3, <2>4
<1>5. QED
  BY <1>3, <1>4

(* The events in front of those of the calls. *)
Leading(c, u, r, t) ==
  OpenAI!OnlyIf(c, UsageUpdate(u)) \o OpenAI!OnlyIf(r, ReasoningDelta(0))
    \o OpenAI!OnlyIf(t, TextDelta(0))

(* They teach what is shown, and touch no call. *)
LEMMA ChunkHead ==
  ASSUME NEW known \in Knowledge, NEW u \in Usage, NEW c \in BOOLEAN, NEW r \in BOOLEAN,
         NEW t \in BOOLEAN, NEW new, new = After(known, Leading(c, u, r, t))
  PROVE  /\ Leading(c, u, r, t) \in Seq(ChunkEvents)
         /\ new \in Knowledge /\ new.calls = known.calls /\ new.sealed = known.sealed
         /\ new.text = [known.text EXCEPT ![0] = @ + OpenAI!Counts(t)]
         /\ new.reasoning = [known.reasoning EXCEPT ![0] = @ + OpenAI!Counts(r)]
<1> DEFINE m1 == OpenAI!OnlyIf(c, UsageUpdate(u))
           m2 == OpenAI!OnlyIf(r, ReasoningDelta(0))
           m3 == OpenAI!OnlyIf(t, TextDelta(0))
           h2 == m1 \o m2
           h3 == h2 \o m3
           more == [known.reasoning EXCEPT ![0] = @ + OpenAI!Counts(r)]
           text == [known.text EXCEPT ![0] = @ + OpenAI!Counts(t)]
           after == [calls |-> known.calls, text |-> known.text, reasoning |-> more,
                     sealed |-> known.sealed]
           made == [calls |-> known.calls, text |-> text, reasoning |-> more,
                   sealed |-> known.sealed]
<1>1. /\ UsageUpdate(u) \in ChunkEvents
      /\ ReasoningDelta(0) \in ChunkEvents /\ TextDelta(0) \in ChunkEvents
  BY IndexAssumption DEF ChunkEvents, DeltaEvents, ReasoningDelta, TextDelta, Event
<1>2. /\ m1 = IF c THEN <<UsageUpdate(u)>> ELSE <<>>
      /\ m2 = IF r THEN <<ReasoningDelta(0)>> ELSE <<>>
      /\ m3 = IF t THEN <<TextDelta(0)>> ELSE <<>>
  BY DEF OpenAI!OnlyIf
<1> HIDE DEF m1, m2, m3
<1>3. /\ known.reasoning \in [Index -> Nat] /\ known.text \in [Index -> Nat]
      /\ known.calls \in [Index -> {"absent", "open", "use", "invalid"}]
      /\ known.sealed \in BOOLEAN
  BY DEF Knowledge
<1>4. /\ more \in [Index -> Nat] /\ text \in [Index -> Nat]
      /\ r => more = [known.reasoning EXCEPT ![0] = @ + 1]
      /\ ~r => more = known.reasoning
      /\ t => text = [known.text EXCEPT ![0] = @ + 1]
      /\ ~t => text = known.text
  BY <1>3, OneMore
<1> HIDE DEF more, text
<1>5. m1 \in Seq(ChunkEvents) /\ After(known, m1) = known
  <2>1. CASE c
    <3>1. m1 = <<UsageUpdate(u)>>
      BY <1>2, <2>1
    <3>2. After(known, <<UsageUpdate(u)>>) = known
      BY AfterOne, ConsumeOther
    <3>3. QED
      BY <1>1, <3>1, <3>2
  <2>2. CASE ~c
    <3>1. m1 = <<>>
      BY <1>2, <2>2
    <3>2. QED
      BY <3>1, AfterNone
  <2>3. QED
    BY <2>1, <2>2
<1>6. after \in Knowledge
  BY <1>3, <1>4 DEF Knowledge
<1>7. h2 \in Seq(ChunkEvents) /\ After(known, h2) = after
  <2>1. CASE r
    <3>1. m2 = <<ReasoningDelta(0)>>
      BY <1>2, <2>1
    <3>2. Consume(known, ReasoningDelta(0)) = after
      BY <1>4, <2>1, ShownRecord
    <3> HIDE DEF after
    <3>3. QED
      BY <1>1, <1>5, <3>1, <3>2, AfterMaybe
  <2>2. CASE ~r
    <3>1. m2 = <<>>
      BY <1>2, <2>2
    <3>2. after = known
      BY <1>4, <2>2, ShownRecord
    <3> HIDE DEF after
    <3>3. QED
      BY <1>1, <1>5, <3>1, <3>2
  <2>3. QED
    BY <2>1, <2>2
<1>8. made \in Knowledge
  BY <1>3, <1>4 DEF Knowledge
<1>9. h3 \in Seq(ChunkEvents) /\ After(known, h3) = made
  <2>1. CASE t
    <3>1. m3 = <<TextDelta(0)>>
      BY <1>2, <2>1
    <3>2. Consume(after, TextDelta(0)) = made
      BY <1>4, <1>6, <2>1, ShownRecord
    <3> HIDE DEF after, made, h2
    <3>3. QED
      BY <1>1, <1>7, <3>1, <3>2, AfterMaybe
  <2>2. CASE ~t
    <3>1. m3 = <<>>
      BY <1>2, <2>2
    <3>2. made = after
      BY <1>4, <2>2
    <3> HIDE DEF after, made, h2
    <3>3. QED
      BY <1>1, <1>7, <3>1, <3>2
  <2>3. QED
    BY <2>1, <2>2
<1>10. /\ made.calls = known.calls /\ made.sealed = known.sealed
       /\ made.text = text /\ made.reasoning = more
  OBVIOUS
<1> HIDE DEF made
<1>11. new = made /\ Leading(c, u, r, t) = h3
  BY <1>9 DEF Leading, m1, m2, m3
<1> HIDE DEF h3
<1>12. QED
  BY <1>8, <1>9, <1>10, <1>11 DEF more, text

(* A chunk does not end the turn. *)
LEMMA NoneDone ==
  ASSUME Deliver, batch' \in Seq(ChunkEvents)
  PROVE  seen' = After(seen, batch') /\ turn' = turn
<1>1. \A k \in 1..Len(batch') : batch'[k].type # "turn_done"
  BY DEF ChunkEvents, DeltaEvents, UsageUpdate
<1>2. Done(batch') = {}
  BY <1>1 DEF Done
<1>3. QED
  BY <1>2 DEF Deliver, After

(* What is known while an OpenAI stream is read. *)
LEMMA OpenAIReading ==
  ASSUME StreamInv, provider = "openai", stream = "reading"
  PROVE  /\ turn = NoTurn /\ ~session.done /\ ~seen.sealed /\ sent.open = {}
         /\ turn.content = {} /\ turn.stop = "none"
         /\ session \in OpenAI!Session /\ session.calls \in Entries
         /\ \A i \in Index : OpenAIShown(i)
         /\ seen \in Knowledge
         /\ \A i \in Index :
              seen.calls[i] = IF session.calls[i].started THEN "open" ELSE "absent"
<1>1. /\ turn = NoTurn /\ ~session.done /\ sent.open = {}
      /\ \A i \in Index : OpenAIShown(i)
  BY DEF StreamInv, OpenAIInv, OpenAITurn
<1>2. ~seen.sealed
  BY <1>1 DEF StreamInv, TurnInv
<1>3. seen \in Knowledge /\ session \in OpenAI!Session
  BY Types DEF StreamInv
<1>4. session.calls \in Entries
  BY <1>1, <1>3 DEF Entries, OpenAIShown, OpenAI!Session
<1>5. \A i \in Index :
        seen.calls[i] = IF session.calls[i].started THEN "open" ELSE "absent"
  BY <1>1 DEF OpenAIShown, OpenAIStage
<1>6. turn.content = {} /\ turn.stop = "none"
  BY <1>1 DEF NoTurn
<1>7. QED
  BY <1>1, <1>2, <1>3, <1>4, <1>5, <1>6

(* A chunk of an OpenAI-compatible provider comes. *)
LEMMA OpenAISendsKeeps ==
  ASSUME StreamInv, NEW chunk \in OpenAIChunks, OpenAISends(chunk)
  PROVE  /\ StreamInv' /\ turn' = turn /\ stream' = stream
         /\ batch' \in Seq(ChunkEvents)
         /\ \A i \in Index : CallMoves(i)
<1> DEFINE u == OpenAI!NormalizeUsage(chunk.usage)
           head == Leading(u # Zero, u, chunk.reasoning, chunk.text)
           base == After(seen, head)
           fed == OpenAI!Fold(OpenAI!FeedDelta,
                              [calls |-> session.calls, out |-> <<>>], chunk.calls)
           args == Fold(Sends, sent.args, chunk.calls)
           ids == Fold(Identifies, sent.ids, chunk.calls)
<1>1. /\ provider = "openai" /\ stream = "reading" /\ stream' = stream
      /\ provider' = provider /\ OpenAI!Feed(chunk) /\ Deliver
      /\ sent' = [sent EXCEPT
           !.args = args, !.ids = ids, !.usage = Reported(chunk.usage),
           !.phase = IF chunk.finish # "none" THEN "finished" ELSE @]
  BY DEF OpenAISends, Passes
<1>2. /\ turn = NoTurn /\ ~session.done /\ ~seen.sealed /\ sent.open = {}
      /\ turn.content = {} /\ session \in OpenAI!Session /\ session.calls \in Entries
      /\ \A i \in Index : OpenAIShown(i)
      /\ seen \in Knowledge
      /\ \A i \in Index :
           seen.calls[i] = IF session.calls[i].started THEN "open" ELSE "absent"
  BY <1>1, OpenAIReading
<1>3. /\ sent \in [args : [Index -> Arguments], ids : SUBSET Index,
                   usage : Usage, open : SUBSET Index, phase : Phases]
  BY Types DEF StreamInv
<1>4. /\ IsReport(chunk.usage) /\ chunk.reasoning \in BOOLEAN /\ chunk.text \in BOOLEAN
      /\ chunk.calls \in Seq(OpenAI!ToolDelta) /\ chunk.finish \in OpenAI!FinishReasons
  BY StreamConstants, OpenAIEvents DEF OpenAI!IsChunk
<1>5. u \in Usage
  BY <1>4, NormalizedTyped, OpenAINormalizes
<1>6. Reported(chunk.usage) \in Usage
  BY <1>3, <1>4, ReportedTyped
<1>7. /\ batch' = head \o fed.out
      /\ session' = [session EXCEPT
           !.usage = IF u # Zero THEN u ELSE @,
           !.finish = IF chunk.finish # "none" THEN chunk.finish ELSE @,
           !.reasoning = @ + OpenAI!Counts(chunk.reasoning),
           !.text = @ + OpenAI!Counts(chunk.text),
           !.calls = fed.calls]
  BY <1>1, OpenAIEvents DEF OpenAI!Feed, Leading
<1> HIDE DEF u, fed, args, ids
<1>8. /\ head \in Seq(ChunkEvents)
      /\ base \in Knowledge /\ base.calls = seen.calls /\ base.sealed = seen.sealed
      /\ base.text = [seen.text EXCEPT ![0] = @ + OpenAI!Counts(chunk.text)]
      /\ base.reasoning = [seen.reasoning EXCEPT ![0] = @ + OpenAI!Counts(chunk.reasoning)]
  <2> DEFINE r == chunk.reasoning
             t == chunk.text
  <2>1. PICK c \in BOOLEAN : OpenAI!OnlyIf(c, UsageUpdate(u))
                               = OpenAI!OnlyIf(u # Zero, UsageUpdate(u))
    <3>1. CASE u # Zero
      <4>1. OpenAI!OnlyIf(TRUE, UsageUpdate(u)) = OpenAI!OnlyIf(u # Zero, UsageUpdate(u))
        BY <3>1 DEF OpenAI!OnlyIf
      <4>2. QED
        BY <4>1
    <3>2. CASE u = Zero
      <4>1. OpenAI!OnlyIf(FALSE, UsageUpdate(u)) = OpenAI!OnlyIf(u # Zero, UsageUpdate(u))
        BY <3>2 DEF OpenAI!OnlyIf
      <4>2. QED
        BY <4>1
    <3>3. QED
      BY <3>1, <3>2
  <2>2. Leading(c, u, r, t) = head
    BY <2>1 DEF Leading, head
  <2>3. PICK new : new = After(seen, Leading(c, u, r, t))
    OBVIOUS
  <2>4. r \in BOOLEAN /\ t \in BOOLEAN
    BY <1>4
  <2> HIDE DEF r, t
  <2>5. /\ Leading(c, u, r, t) \in Seq(ChunkEvents)
        /\ new \in Knowledge /\ new.calls = seen.calls /\ new.sealed = seen.sealed
        /\ new.text = [seen.text EXCEPT ![0] = @ + OpenAI!Counts(t)]
        /\ new.reasoning = [seen.reasoning EXCEPT ![0] = @ + OpenAI!Counts(r)]
    BY <1>2, <1>5, <2>3, <2>4, ChunkHead
  <2>6. new = base
    BY <2>2, <2>3 DEF base
  <2>7. QED
    BY <2>2, <2>5, <2>6 DEF r, t
<1> HIDE DEF head, base
<1>9. Opened(base, session.calls, base)
  BY <1>2, <1>8 DEF Opened
<1>10. \A i \in Index : /\ sent.args[i] = session.calls[i].args
                        /\ session.calls[i].id <=> i \in sent.ids
  BY <1>2 DEF OpenAIShown
<1>11. Fed(fed, args, ids, session.calls, base)
  <2>1. sent.args \in [Index -> Arguments] /\ sent.ids \in SUBSET Index
    BY <1>3
  <2>2. QED
    BY <1>2, <1>4, <1>9, <1>10, <2>1, FedAll DEF fed, args, ids
<1>12. /\ fed.calls \in Entries /\ fed.out \in Seq(ChunkEvents)
       /\ Opened(After(base, fed.out), fed.calls, base)
       /\ args \in [Index -> Arguments] /\ ids \subseteq Index
       /\ \A i \in Index : /\ args[i] = fed.calls[i].args
                           /\ fed.calls[i].id <=> i \in ids
                           /\ session.calls[i].started => fed.calls[i].started
  BY <1>11 DEF Fed
<1>13. batch' \in Seq(ChunkEvents)
  BY <1>7, <1>8, <1>12
<1>14. turn' = turn /\ seen' = After(base, fed.out)
  <2>1. seen' = After(seen, batch') /\ turn' = turn
    BY <1>1, <1>13, NoneDone
  <2>2. After(seen, head \o fed.out) = After(After(seen, head), fed.out)
    BY <1>8, <1>12, AfterConcat
  <2>3. QED
    BY <1>7, <2>1, <2>2 DEF base
<1>15. /\ seen' \in Knowledge /\ ~seen'.sealed
       /\ seen'.text = base.text /\ seen'.reasoning = base.reasoning
       /\ \A i \in Index :
            seen'.calls[i] = IF fed.calls[i].started THEN "open" ELSE "absent"
  BY <1>12, <1>14 DEF Opened
<1>16. /\ sent' \in [args : [Index -> Arguments], ids : SUBSET Index,
                     usage : Usage, open : SUBSET Index, phase : Phases]
       /\ sent'.open = {} /\ sent'.args = args /\ sent'.ids = ids
  BY <1>1, <1>2, <1>3, <1>6, <1>12 DEF Phases
<1>17. /\ session' \in OpenAI!Session
       /\ session'.calls = fed.calls /\ session'.done = session.done
       /\ session'.text = session.text + OpenAI!Counts(chunk.text)
       /\ session'.reasoning = session.reasoning + OpenAI!Counts(chunk.reasoning)
  <2>1. /\ OpenAI!Counts(chunk.text) \in Nat /\ OpenAI!Counts(chunk.reasoning) \in Nat
    BY DEF OpenAI!Counts
  <2>2. fed.calls \in [Index -> OpenAI!Entry]
    BY <1>12 DEF Entries
  <2>3. u \in OpenAI!Usage
    BY <1>5, OpenAIEvents
  <2>4. /\ session.text \in Nat /\ session.reasoning \in Nat
        /\ session.usage \in OpenAI!Usage /\ session.finish \in OpenAI!FinishReasons
    BY <1>2 DEF OpenAI!Session
  <2> DEFINE usage == IF u # Zero THEN u ELSE session.usage
             finish == IF chunk.finish # "none" THEN chunk.finish ELSE session.finish
             reasoning == session.reasoning + OpenAI!Counts(chunk.reasoning)
             text == session.text + OpenAI!Counts(chunk.text)
  <2>5. /\ usage \in OpenAI!Usage /\ finish \in OpenAI!FinishReasons
        /\ reasoning \in Nat /\ text \in Nat
    BY <1>4, <2>1, <2>3, <2>4
  <2>6. session' = [session EXCEPT !.usage = usage, !.finish = finish,
                      !.reasoning = reasoning, !.text = text, !.calls = fed.calls]
    BY <1>7
  <2> HIDE DEF usage, finish, reasoning, text
  <2>7. /\ session' \in OpenAI!Session
        /\ session'.calls = fed.calls /\ session'.done = session.done
        /\ session'.text = text /\ session'.reasoning = reasoning
    BY <1>2, <2>2, <2>5, <2>6 DEF OpenAI!Session
  <2>8. QED
    BY <2>7 DEF text, reasoning
<1>18. TypeOK'
  BY <1>1, <1>15, <1>16, <1>17 DEF StreamInv, TypeOK, Knowledge
<1>19. TurnInv'
  BY <1>1, <1>2, <1>14, <1>15 DEF StreamInv, TurnInv, NoTurn
<1>20. OpenAITurn'
  BY <1>1, <1>2, <1>14, <1>16, <1>17 DEF OpenAITurn
<1>21. ASSUME NEW i \in Index
       PROVE  OpenAIShown(i)'
  <2>1. /\ session'.calls[i].args = sent'.args[i]
        /\ session'.calls[i].id <=> i \in sent'.ids
        /\ ~session'.calls[i].started =>
             session'.calls[i].args = "empty" /\ ~session'.calls[i].id
    BY <1>12, <1>16, <1>17 DEF Entries
  <2>2. seen'.calls[i] = OpenAIStage(i)'
    BY <1>2, <1>14, <1>15, <1>17 DEF OpenAIStage
  <2>3. /\ seen.text[i] = IF i = 0 THEN session.text ELSE 0
        /\ seen.reasoning[i] = IF i = 0 THEN session.reasoning ELSE 0
    BY <1>2 DEF OpenAIShown
  <2>4. /\ seen'.text[i] = IF i = 0 THEN session'.text ELSE 0
        /\ seen'.reasoning[i] = IF i = 0 THEN session'.reasoning ELSE 0
    BY <1>2, <1>8, <1>15, <1>17, <2>3 DEF Knowledge
  <2>5. QED
    BY <2>1, <2>2, <2>4 DEF OpenAIShown
<1>22. OpenAIInv' /\ AnthropicInv'
  BY <1>1, <1>20, <1>21 DEF OpenAIInv, AnthropicInv
<1>23. \A i \in Index : CallMoves(i)
  BY <1>2, <1>12, <1>15 DEF CallMoves
<1>24. QED
  BY <1>1, <1>13, <1>14, <1>18, <1>19, <1>22, <1>23 DEF StreamInv

(* finalize closes each call that was started, with the arguments sent for it. *)
LEMMA OpenAIEndsAre ==
  ASSUME StreamInv, provider = "openai", stream = "reading"
  PROVE  LET S == OpenAI!Started
             ends == OpenAI!Ends
         IN  /\ ends \in Seq({ends[k] : k \in 1..Len(ends)})
             /\ \A k \in 1..Len(ends) : ends[k].type = "end"
             /\ After(seen, ends) = CallsEnded(seen, S, sent.args)
<1> DEFINE S == OpenAI!Started
           ends == OpenAI!Ends
           order == OpenAI!Ordered(S)
           n == Len(order)
<1>1. /\ \A j \in Index : OpenAIShown(j)
      /\ seen \in Knowledge /\ ~seen.sealed
      /\ \A i \in Index :
           seen.calls[i] = IF session.calls[i].started THEN "open" ELSE "absent"
  BY OpenAIReading
<1>2. S \in SUBSET Index
  BY DEF OpenAI!Started
<1>3. ends = [k \in 1..n |-> ToolCallEnd(order[k], session.calls[order[k]].args)]
  BY OpenAIEvents DEF OpenAI!Ends
<1>4. /\ order \in Seq(S)
      /\ \A i \in S : \E k \in 1..n : order[k] = i
      /\ \A k, l \in 1..n : order[k] = order[l] => k = l
  BY <1>2, OrderIs, OrdersChosen
<1>5. \A i \in S : seen.calls[i] = "open"
  BY <1>1 DEF OpenAI!Started
<1>6. \A i \in S : session.calls[i].args = sent.args[i]
  BY <1>1, <1>2 DEF OpenAIShown
<1> HIDE DEF S, order, ends
<1>7. n \in Nat /\ \A k \in 1..n : order[k] \in S
  BY <1>4
<1> HIDE DEF n
<1>8. /\ Len(ends) = n
      /\ \A k \in 1..n : ends[k] = ToolCallEnd(order[k], sent.args[order[k]])
  BY <1>3, <1>6, <1>7
<1>9. After(seen, ends) = CallsEnded(seen, S, sent.args)
  <2>1. /\ order \in Seq(S)
        /\ \A i \in S : \E k \in 1..Len(order) : order[k] = i
        /\ \A k, l \in 1..Len(order) : order[k] = order[l] => k = l
        /\ Len(ends) = Len(order)
        /\ \A k \in 1..Len(order) : ends[k] = ToolCallEnd(order[k], sent.args[order[k]])
    BY <1>4, <1>8 DEF n
  <2>2. QED
    BY ONLY <1>1, <1>2, <1>5, <2>1, EndsConsumed
<1>10. /\ ends \in Seq({ends[k] : k \in 1..Len(ends)})
       /\ \A k \in 1..Len(ends) : ends[k].type = "end"
  <2>1. \A i, a : ToolCallEnd(i, a).type = "end"
    BY DEF ToolCallEnd, Event
  <2> DEFINE F == {ends[k] : k \in 1..n}
  <2>2. ends \in [1..n -> F]
    BY <1>3
  <2> HIDE DEF F
  <2>3. ends \in Seq(F)
    BY <1>7, <2>2
  <2>4. QED
    BY <1>8, <2>1, <2>3 DEF F
<1>11. QED
  BY <1>9, <1>10 DEF S, ends

(* The content of an OpenAI turn is blocks. *)
LEMMA OpenAITyped ==
  ASSUME StreamInv, provider = "openai"
  PROVE  OpenAI!Content \subseteq Blocks
<1>1. session \in OpenAI!Session
  BY Types DEF StreamInv
<1>2. /\ session.text \in Nat /\ session.reasoning \in Nat
      /\ \A i \in Index : session.calls[i].args \in Arguments /\ session.calls[i].id \in BOOLEAN
  BY <1>1, OpenAIEvents DEF OpenAI!Session, OpenAI!Entry
<1>3. 0 \in Index
  BY IndexAssumption
<1>4. ASSUME NEW b \in OpenAI!Content
      PROVE  b \in Blocks
  <2>1. CASE b = ReasoningBlock(0, session.reasoning, FALSE)
    BY <1>2, <1>3, <2>1, BlocksTyped
  <2>2. CASE b = TextBlock(0, session.text)
    BY <1>2, <1>3, <2>2, BlocksTyped
  <2>3. ASSUME NEW i \in Index,
               b = CallBlock(i, session.calls[i].id, session.calls[i].args)
        PROVE  b \in Blocks
    BY <1>2, <2>3, BlocksTyped
  <2>4. QED
    BY <2>1, <2>2, <2>3, OpenAIContent
<1>5. QED
  BY <1>4

(* An OpenAI turn completes, at the end of its stream or recovered. *)
LEMMA OpenAICompleteKeeps ==
  ASSUME StreamInv, provider = "openai", stream = "reading", NEW stop, stop # "none",
         OpenAI!Complete(stop), Deliver, UNCHANGED <<provider, sent>>,
         \/ stream' = "ended"
         \/ stream' = "recovered" /\ stop = "error" /\ OpenAI!HasPartialOutput
  PROVE  /\ StreamInv' /\ \A i \in Index : CallMoves(i)
         /\ UsageStays
<1> DEFINE S == OpenAI!Started
           ends == OpenAI!Ends
           content == OpenAI!Content
           known == CallsEnded(seen, S, sent.args)
<1>1. /\ turn = NoTurn /\ sent.open = {}
      /\ \A j \in Index : OpenAIShown(j)
      /\ session \in OpenAI!Session /\ seen \in Knowledge
      /\ \A i \in Index :
           seen.calls[i] = IF session.calls[i].started THEN "open" ELSE "absent"
  BY OpenAIReading
<1>2. /\ session' = [session EXCEPT !.done = TRUE]
      /\ batch' = Append(ends, TurnDone(stop, content, session.usage))
  BY OpenAIEvents DEF OpenAI!Complete
<1>3. /\ ends \in Seq({ends[k] : k \in 1..Len(ends)})
      /\ \A k \in 1..Len(ends) : ends[k].type = "end"
      /\ After(seen, ends) = known
  BY OpenAIEndsAre
<1>4. /\ seen' = [known EXCEPT !.sealed = TRUE]
      /\ turn' = [stop |-> stop, content |-> content, usage |-> session.usage]
  <2> DEFINE F == {ends[k] : k \in 1..Len(ends)}
  <2>1. ends \in Seq(F)
    BY <1>3
  <2> HIDE DEF ends, known, F, content
  <2>2. QED
    BY <1>2, <1>3, <2>1, DeliveredLast
<1>5. turn' # NoTurn /\ turn'.stop = stop /\ turn'.content = content
  BY <1>4 DEF NoTurn
<1>6. known \in Knowledge
  BY <1>1, CallsEndedTyped
<1>7. /\ seen' \in Knowledge /\ seen'.sealed /\ seen'.text = seen.text
      /\ seen'.reasoning = seen.reasoning
      /\ \A j \in Index : seen'.calls[j] =
           IF j \in S THEN EndOf(sent.args[j]) ELSE seen.calls[j]
  <2>1. /\ known.text = seen.text /\ known.reasoning = seen.reasoning
        /\ \A j \in Index : known.calls[j] =
             IF j \in S THEN EndOf(sent.args[j]) ELSE seen.calls[j]
    BY <1>1 DEF CallsEnded, Knowledge
  <2> HIDE DEF known, S
  <2>2. QED
    BY <1>4, <1>6, <2>1 DEF Knowledge
<1>8. /\ session' \in OpenAI!Session /\ session'.done
      /\ session'.text = session.text /\ session'.reasoning = session.reasoning
      /\ session'.calls = session.calls
  BY <1>1, <1>2 DEF OpenAI!Session
<1>9. TypeOK'
  BY <1>1, <1>7, <1>8 DEF TypeOK, StreamInv, Knowledge
<1>10. ASSUME NEW j \in Index
       PROVE  OpenAIShown(j)' /\ CallMoves(j)
  <2>1. \A a : EndOf(a) # "absent"
    BY DEF EndOf
  <2>2. j \in S <=> session.calls[j].started
    BY DEF OpenAI!Started
  <2> HIDE DEF S
  <2>3. OpenAIShown(j)
    BY <1>1
  <2>4. seen'.calls[j] = OpenAIStage(j)'
    BY <1>1, <1>5, <1>7, <1>8, <2>2, <2>3 DEF OpenAIStage, OpenAIShown
  <2>5. CallMoves(j)
    BY <1>1, <1>7, <2>1, <2>2 DEF CallMoves
  <2>6. OpenAIShown(j)'
    BY <1>7, <1>8, <2>3, <2>4 DEF OpenAIShown
  <2>7. QED
    BY <2>5, <2>6
<1>11. OpenAI!Content' = content
  BY <1>8 DEF OpenAI!Content, OpenAI!Started
<1>12. OpenAITurn'
  BY <1>1, <1>5, <1>8, <1>11 DEF OpenAITurn
<1>13. OpenAI!HasPartialOutput => content # {}
  <2>1. session.text \in Nat /\ session.reasoning \in Nat
    BY <1>1 DEF OpenAI!Session
  <2>2. CASE session.text > 0
    <3>1. PICK b : b = TextBlock(0, session.text)
      OBVIOUS
    <3>2. session.text # 0
      BY <2>1, <2>2
    <3>3. b \in content
      BY <3>1, <3>2, OpenAIContent
    <3>4. QED
      BY <3>3
  <2>3. CASE session.reasoning > 0
    <3>1. PICK b : b = ReasoningBlock(0, session.reasoning, FALSE)
      OBVIOUS
    <3>2. session.reasoning # 0
      BY <2>1, <2>3
    <3>3. b \in content
      BY <3>1, <3>2, OpenAIContent
    <3>4. QED
      BY <3>3
  <2>4. CASE S # {}
    <3>1. PICK i \in Index : session.calls[i].started
      BY <2>4 DEF OpenAI!Started
    <3>2. CallBlock(i, session.calls[i].id, session.calls[i].args) \in content
      BY <3>1, OpenAIContent
    <3>3. QED
      BY <3>2
  <2>5. QED
    BY <2>2, <2>3, <2>4 DEF OpenAI!HasPartialOutput
<1>14. TurnInv'
  <2>1. content \subseteq Blocks
    BY OpenAITyped
  <2> HIDE DEF content
  <2>2. QED
    BY <1>5, <1>7, <1>13, <2>1 DEF TurnInv
<1>15. UsageStays
  BY <1>1, <1>2, <1>4 DEF UsageStays, OpenAI!Session
<1>16. QED
  BY <1>9, <1>10, <1>12, <1>14, <1>15 DEF StreamInv, OpenAIInv, AnthropicInv

(* An OpenAI stream ends. *)
LEMMA OpenAIEndsKeeps ==
  ASSUME StreamInv, provider = "openai", StreamEnds
  PROVE  StreamInv' /\ (\A i \in Index : CallMoves(i)) /\ UsageStays
<1>1. /\ stream = "reading" /\ stream' = "ended" /\ Deliver
      /\ UNCHANGED <<provider, sent>> /\ OpenAI!Finalize
  BY DEF StreamEnds
<1>2. ~session.done /\ session \in OpenAI!Session
  BY <1>1, OpenAIReading
<1> DEFINE stop == OpenAI!MapFinishReason(session.finish)
<1>3. OpenAI!Complete(stop)
  BY <1>1, <1>2 DEF OpenAI!Finalize
<1>4. stop # "none"
  BY <1>2 DEF OpenAI!MapFinishReason, OpenAI!Session
<1> HIDE DEF stop
<1>5. QED
  BY <1>1, <1>3, <1>4, OpenAICompleteKeeps

(* An OpenAI stream breaks with something to save. *)
LEMMA OpenAIRecovers ==
  ASSUME StreamInv, provider = "openai", StreamBreaks, OpenAI!HasPartialOutput
  PROVE  /\ StreamInv' /\ stream' = "recovered" /\ turn = NoTurn
         /\ \A i \in Index : CallMoves(i)
         /\ UsageStays
<1>1. /\ stream = "reading" /\ Deliver /\ UNCHANGED <<provider, sent>>
      /\ OpenAI!FinalizeOnError
      /\ stream' = IF batch' = <<>> THEN "raised" ELSE "recovered"
  BY DEF StreamBreaks
<1>2. ~session.done /\ turn = NoTurn
  BY <1>1, OpenAIReading
<1>3. OpenAI!Complete("error")
  BY <1>1, <1>2 DEF OpenAI!FinalizeOnError
<1>4. stream' = "recovered"
  <2> DEFINE ends == OpenAI!Ends
             done == OpenAI!TurnDone("error", OpenAI!Content, session.usage)
             E == {ends[k] : k \in 1..Len(ends)} \cup {done}
  <2>1. ends \in Seq({ends[k] : k \in 1..Len(ends)})
    BY <1>1, OpenAIEndsAre
  <2>2. ends \in Seq(E) /\ done \in E
    BY <2>1
  <2>3. batch' = Append(ends, done)
    BY <1>3 DEF OpenAI!Complete
  <2> HIDE DEF ends, done, E
  <2>4. Append(ends, done) # <<>>
    <3>1. Len(Append(ends, done)) = Len(ends) + 1 /\ Len(ends) \in Nat
      BY <2>2
    <3>2. Len(<<>>) = 0
      OBVIOUS
    <3>3. QED
      BY <3>1, <3>2
  <2>5. QED
    BY <1>1, <2>3, <2>4
<1>5. PICK stop : stop = "error"
  OBVIOUS
<1>6. OpenAI!Complete(stop) /\ stop # "none"
  BY <1>3, <1>5
<1>7. StreamInv' /\ (\A i \in Index : CallMoves(i)) /\ UsageStays
  BY <1>1, <1>4, <1>5, <1>6, OpenAICompleteKeeps
<1>8. QED
  BY <1>2, <1>4, <1>7

(* An OpenAI stream breaks with nothing to save. *)
LEMMA OpenAIRaises ==
  ASSUME StreamInv, provider = "openai", StreamBreaks, ~OpenAI!HasPartialOutput
  PROVE  /\ StreamInv' /\ stream' = "raised" /\ turn = NoTurn /\ turn' = turn
         /\ seen' = seen /\ UsageStays
<1>1. /\ stream = "reading" /\ Deliver /\ UNCHANGED <<provider, sent>>
      /\ stream' = IF batch' = <<>> THEN "raised" ELSE "recovered"
      /\ OpenAI!Nothing
  BY DEF StreamBreaks, OpenAI!FinalizeOnError
<1>2. stream' = "raised" /\ batch' = <<>> /\ session' = session
  BY <1>1 DEF OpenAI!Nothing
<1>3. seen' = seen /\ turn' = turn
  BY <1>1, <1>2, DeliveredNothing
<1>4. turn = NoTurn
  BY <1>1, OpenAIReading
<1>5. TypeOK' /\ TurnInv'
  BY <1>1, <1>2, <1>3 DEF StreamInv, TypeOK, TurnInv
<1>6. \A i \in Index : OpenAIShown(i)'
  BY <1>1, <1>2, <1>3 DEF StreamInv, OpenAIInv, OpenAIShown, OpenAIStage
<1>7. OpenAITurn'
  BY <1>1, <1>2, <1>3, <1>4
     DEF StreamInv, OpenAIInv, OpenAITurn, OpenAI!Content, OpenAI!Started,
         OpenAI!HasPartialOutput
<1>8. QED
  BY <1>1, <1>2, <1>3, <1>4, <1>5, <1>6, <1>7
     DEF StreamInv, OpenAIInv, AnthropicInv, UsageStays

-----------------------------------------------------------------------------
(* The theorems.                                                           *)

(* The invariant holds of a stream not begun. *)
LEMMA StartsEmpty ==
  Init => StreamInv
<1> SUFFICES ASSUME Init
             PROVE  StreamInv
  OBVIOUS
<1>1. provider \in {"openai", "anthropic"} /\ provider \in Providers
  BY StreamConstants DEF Init
<1>2. /\ turn = NoTurn /\ stream = "reading" /\ turn.stop = "none" /\ turn.content = {}
      /\ seen = [calls |-> [i \in Index |-> "absent"], text |-> [i \in Index |-> 0],
                 reasoning |-> [i \in Index |-> 0], sealed |-> FALSE]
      /\ sent = [args |-> [i \in Index |-> "empty"], ids |-> {}, usage |-> Zero,
                 open |-> {}, phase |-> "open"]
  BY DEF Init, NoTurn
<1>3. seen \in [calls : [Index -> {"absent", "open", "use", "invalid"}],
                text : [Index -> Nat], reasoning : [Index -> Nat], sealed : BOOLEAN]
  BY <1>2
<1>4. sent \in [args : [Index -> Arguments], ids : SUBSET Index, usage : Usage,
                open : SUBSET Index, phase : Phases]
  BY <1>2 DEF Arguments, Usage, Zero, Phases
<1>5. TurnInv
  BY <1>2 DEF TurnInv
<1>6. CASE provider = "openai"
  <2>1. session = OpenAI!NewSession
    BY <1>6 DEF Init
  <2>2. session \in OpenAI!Session
    BY <2>1 DEF OpenAI!NewSession, OpenAI!Session, OpenAI!NoEntry, OpenAI!Entry,
       OpenAI!Arguments, OpenAI!Usage, OpenAI!Zero, OpenAI!FinishReasons
  <2>3. /\ session.text = 0 /\ session.reasoning = 0 /\ ~session.done
        /\ \A i \in Index : /\ ~session.calls[i].started /\ ~session.calls[i].id
                            /\ session.calls[i].args = "empty"
    BY <2>1 DEF OpenAI!NewSession, OpenAI!NoEntry
  <2>4. OpenAITurn
    BY <1>2, <2>3 DEF OpenAITurn
  <2>5. \A i \in Index : OpenAIShown(i)
    BY <1>2, <2>3 DEF OpenAIShown, OpenAIStage
  <2>6. QED
    BY <1>1, <1>2, <1>3, <1>4, <1>5, <1>6, <2>2, <2>4, <2>5
       DEF StreamInv, TypeOK, OpenAIInv, AnthropicInv
<1>7. CASE provider = "anthropic"
  <2>1. session = Anthropic!NewSession
    BY <1>7 DEF Init
  <2>2. session \in Anthropic!Session
    BY <2>1 DEF Anthropic!NewSession, Anthropic!Session, Anthropic!Arguments,
       Anthropic!Usage, Anthropic!Zero, Anthropic!StopReasons
  <2>3. /\ session.blocks = {} /\ session.stopped = {} /\ ~session.done
        /\ \A i \in Index : /\ session.kinds[i] = "none" /\ session.size[i] = 0
                            /\ session.args[i] = "empty"
    BY <2>1 DEF Anthropic!NewSession
  <2>4. Anthropic!Open = {}
    BY <2>3 DEF Anthropic!Open
  <2>5. AnthropicTurn
    BY <1>2, <2>3, <2>4 DEF AnthropicTurn
  <2>6. \A i \in Index : AnthropicShown(i)
    BY <1>2, <2>3 DEF AnthropicShown, AnthropicStage
  <2>7. QED
    BY <1>1, <1>2, <1>3, <1>4, <1>5, <1>7, <2>2, <2>5, <2>6
       DEF StreamInv, TypeOK, OpenAIInv, AnthropicInv
<1>8. QED
  BY <1>1, <1>6, <1>7

(* The steps of a stream, as the contract tells them apart. *)
Reads ==
  /\ stream = "reading" /\ stream' = "reading" /\ turn = NoTurn
  /\ \A i \in Index : CallMoves(i)

Finishes ==
  /\ stream = "reading" /\ stream' \in {"ended", "recovered"}
  /\ \A i \in Index : CallMoves(i)
  /\ turn # NoTurn => seen'.calls = seen.calls

Fails ==
  stream = "reading" /\ stream' = "raised" /\ turn' = turn /\ seen' = seen

Drops ==
  stream = "reading" /\ stream' = "abandoned" /\ turn' = turn /\ seen' = seen

(* Calls that stay only move on. *)
LEMMA SameMoves ==
  ASSUME seen'.calls = seen.calls
  PROVE  \A i \in Index : CallMoves(i)
BY DEF CallMoves

(* A chunk about one block is a step of reading. *)
LEMMA ChunkReads ==
  ASSUME StreamInv, Sending("blocks"), NEW i \in Index, ChunkFrame(i), CallMoves(i)
  PROVE  Reads
<1>1. turn = NoTurn /\ stream = "reading" /\ stream' = "reading"
  BY NotDone DEF Sending, ChunkFrame
<1>2. \A j \in Index \ {i} : seen'.calls[j] = seen.calls[j]
  BY DEF ChunkFrame, SameBlock
<1>3. \A j \in Index : CallMoves(j)
  BY <1>2 DEF CallMoves
<1>4. QED
  BY <1>1, <1>3 DEF Reads

(* So is every chunk of an Anthropic block. *)
LEMMA BlockReads ==
  ASSUME StreamInv, NEW i \in Index, AnthropicBlock(i)
  PROVE  StreamInv' /\ Reads
<1>1. CASE \E kind \in Anthropic!Kinds, signature \in BOOLEAN :
             BlockStart(i, kind, signature)
  <2>1. PICK kind \in Anthropic!Kinds, signature \in BOOLEAN :
          BlockStart(i, kind, signature)
    BY <1>1
  <2>2. Sending("blocks")
    BY <2>1 DEF BlockStart
  <2>3. QED
    BY <2>1, <2>2, BlockStartKeeps, ChunkReads
<1>2. CASE TextSent(i)
  <2>1. Sending("blocks")
    BY <1>2 DEF TextSent
  <2>2. QED
    BY <1>2, <2>1, TextSentKeeps, ChunkReads
<1>3. CASE SignatureSent(i)
  <2>1. Sending("blocks")
    BY <1>3 DEF SignatureSent
  <2>2. QED
    BY <1>3, <2>1, SignatureSentKeeps, ChunkReads
<1>4. CASE \E fragment \in Fragments : ArgumentsSent(i, fragment)
  <2>1. PICK fragment \in Fragments : ArgumentsSent(i, fragment)
    BY <1>4
  <2>2. Sending("blocks")
    BY <2>1 DEF ArgumentsSent
  <2>3. QED
    BY <2>1, <2>2, ArgumentsSentKeeps, ChunkReads
<1>5. CASE BlockStop(i)
  <2>1. Sending("blocks")
    BY <1>5 DEF BlockStop
  <2>2. QED
    BY <1>5, <2>1, BlockStopKeeps, ChunkReads
<1>6. QED
  BY <1>1, <1>2, <1>3, <1>4, <1>5 DEF AnthropicBlock

(* So is a report of usage. *)
LEMMA ReportReads ==
  ASSUME StreamInv, AnthropicReport
  PROVE  StreamInv' /\ Reads
<1>1. PICK report \in Reports :
        \/ MessageStart(report)
        \/ \E stop \in Anthropic!StopReasons \ {"none"} : MessageDelta(report, stop)
  BY DEF AnthropicReport
<1>2. IsReport(report)
  BY StreamConstants
<1>3. CASE MessageStart(report)
  <2> DEFINE phase == "open"
             next == "blocks"
             stop == "none"
  <2>1. /\ Sending(phase) /\ Anthropic!Report(report, stop) /\ Passes
        /\ sent' = [sent EXCEPT !.usage = Reported(report), !.phase = next]
    BY <1>3 DEF MessageStart
  <2>2. /\ phase # "closed" /\ next \in Phases /\ next # "closed" /\ next # "finished"
        /\ stop \in Anthropic!StopReasons
    BY DEF Phases, Anthropic!StopReasons
  <2>3. turn = NoTurn /\ stream = "reading"
    BY <2>1, NotDone DEF Sending
  <2> HIDE DEF phase, next, stop
  <2>4. StreamInv' /\ seen' = seen /\ stream' = stream
    BY <1>2, <2>1, <2>2, ReportKeeps
  <2>5. QED
    BY <2>3, <2>4, SameMoves DEF Reads
<1>4. CASE \E stop \in Anthropic!StopReasons \ {"none"} : MessageDelta(report, stop)
  <2> DEFINE phase == "blocks"
             next == "finished"
  <2>1. PICK stop \in Anthropic!StopReasons : MessageDelta(report, stop)
    BY <1>4
  <2>2. /\ Sending(phase) /\ Anthropic!Report(report, stop) /\ Passes
        /\ sent' = [sent EXCEPT !.usage = Reported(report), !.phase = next]
        /\ sent.open = {}
    BY <2>1 DEF MessageDelta
  <2>3. phase # "closed" /\ next \in Phases /\ next # "closed"
    BY DEF Phases
  <2>4. turn = NoTurn /\ stream = "reading"
    BY <2>2, NotDone DEF Sending
  <2> HIDE DEF phase, next
  <2>5. StreamInv' /\ seen' = seen /\ stream' = stream
    BY <1>2, <2>2, <2>3, ReportKeeps
  <2>6. QED
    BY <2>4, <2>5, SameMoves DEF Reads
<1>5. QED
  BY <1>1, <1>3, <1>4

(* Every step keeps the invariant and is one the contract knows. *)
LEMMA StepIs ==
  ASSUME StreamInv, Next
  PROVE  StreamInv' /\ (Reads \/ Finishes \/ Fails \/ Drops)
<1>1. CASE OpenAIChunk
  <2>1. PICK chunk \in OpenAIChunks : OpenAISends(chunk)
    BY <1>1 DEF OpenAIChunk
  <2>2. turn = NoTurn /\ stream = "reading"
    BY <2>1, OpenAIReading DEF OpenAISends
  <2>3. /\ StreamInv' /\ turn' = turn /\ stream' = stream
        /\ \A i \in Index : CallMoves(i)
    BY <2>1, OpenAISendsKeeps
  <2>4. QED
    BY <2>2, <2>3 DEF Reads
<1>2. CASE AnthropicReport
  BY <1>2, ReportReads
<1>3. CASE \E i \in Index : AnthropicBlock(i)
  BY <1>3, BlockReads
<1>4. CASE MessageStop
  <2>1. stream = "reading"
    BY <1>4 DEF MessageStop, Sending
  <2>2. QED
    BY <1>4, <2>1, MessageStopKeeps, SameMoves DEF Reads
<1>5. provider \in {"openai", "anthropic"}
  BY Provider DEF StreamInv
<1>6. CASE StreamEnds
  <2>1. stream = "reading" /\ stream' = "ended"
    BY <1>6 DEF StreamEnds
  <2>2. CASE provider = "openai"
    <3>1. turn = NoTurn
      BY <2>1, <2>2, OpenAIReading
    <3>2. QED
      BY <1>6, <2>1, <2>2, <3>1, OpenAIEndsKeeps DEF Finishes
  <2>3. CASE provider = "anthropic"
    <3>1. StreamInv' /\ seen'.calls = seen.calls
      BY <1>6, <2>3, AnthropicEndsKeeps
    <3>2. QED
      BY <2>1, <3>1, SameMoves DEF Finishes
  <2>4. QED
    BY <1>5, <2>2, <2>3
<1>7. CASE StreamBreaks
  <2>1. stream = "reading"
    BY <1>7 DEF StreamBreaks
  <2>2. CASE provider = "openai"
    <3>1. CASE OpenAI!HasPartialOutput
      BY <1>7, <2>1, <2>2, <3>1, OpenAIRecovers DEF Finishes
    <3>2. CASE ~OpenAI!HasPartialOutput
      BY <1>7, <2>1, <2>2, <3>2, OpenAIRaises DEF Fails
    <3>3. QED
      BY <3>1, <3>2
  <2>3. CASE provider = "anthropic"
    <3>1. CASE ~session.done /\ Anthropic!PartialBlocks # {}
      BY <1>7, <2>1, <2>3, <3>1, AnthropicRecovers DEF Finishes
    <3>2. CASE session.done \/ Anthropic!PartialBlocks = {}
      BY <1>7, <2>1, <2>3, <3>2, AnthropicRaises DEF Fails
    <3>3. QED
      BY <3>1, <3>2
  <2>4. QED
    BY <1>5, <2>2, <2>3
<1>8. CASE Abandoned
  BY <1>8, AbandonedKeeps DEF Drops, Abandoned
<1>9. QED
  BY <1>1, <1>2, <1>3, <1>4, <1>6, <1>7, <1>8 DEF Next

(* Nothing happens. *)
LEMMA StutterKeeps ==
  ASSUME StreamInv, UNCHANGED vars
  PROVE  StreamInv'
<1>1. /\ provider' = provider /\ session' = session /\ stream' = stream
      /\ turn' = turn /\ seen' = seen /\ sent' = sent
  BY DEF vars
<1>2. TypeOK' /\ TurnInv'
  BY <1>1 DEF StreamInv, TypeOK, TurnInv
<1>3. OpenAIInv'
  <2>1. OpenAI!Content' = OpenAI!Content /\ OpenAI!Started' = OpenAI!Started
    BY <1>1 DEF OpenAI!Content, OpenAI!Started
  <2>2. OpenAITurn => OpenAITurn'
    BY <1>1, <2>1 DEF OpenAITurn, OpenAI!HasPartialOutput
  <2>3. \A i \in Index : OpenAIShown(i) => OpenAIShown(i)'
    BY <1>1 DEF OpenAIShown, OpenAIStage
  <2>4. QED
    BY <1>1, <2>2, <2>3 DEF StreamInv, OpenAIInv
<1>4. Anthropic!PartialBlocks' = Anthropic!PartialBlocks
      /\ \A j : Anthropic!BlockOf(j)' = Anthropic!BlockOf(j)
      /\ Anthropic!Open' = Anthropic!Open
  BY <1>1, AllBlocksStay
<1>5. AnthropicInv'
  BY <1>1, <1>4 DEF StreamInv, AnthropicInv, AnthropicTurn, AnthropicShown,
     AnthropicStage
<1>6. QED
  BY <1>2, <1>3, <1>5 DEF StreamInv

(* The inductive invariant of a streamed turn, for both providers: what the *)
(* parser session, the consumer and the provider know of each call and block*)
(* agree in every state of llm_clients._stream_with_recovery.               *)
THEOREM StreamInvariant ==
  Spec => []StreamInv
<1>1. StreamInv /\ [Next]_vars => StreamInv'
  BY StepIs, StutterKeeps
<1>2. QED
  BY <1>1, StartsEmpty, PTL DEF Spec

(* Every part of the state has its type. *)
THEOREM TypeCorrect ==
  Spec => []TypeOK
<1>1. StreamInv => TypeOK
  BY DEF StreamInv
<1>2. QED
  BY <1>1, StreamInvariant, PTL

(* A call handed to the turn kernel for execution has the arguments its     *)
(* provider sent for it, and no half of them: no interleaving of calls, no  *)
(* late id and no break of the stream makes finalize or finalize_on_error   *)
(* close one with less, and Anthropic's finalize closes none whose block is *)
(* open.  A call that broke before its arguments began runs with none       *)
(* (CutCallNeverRuns is violated).                                          *)
THEOREM NoHalfRuns ==
  Spec => []NoHalfArgumentsRun
BY StreamInvariant, NoHalves, PTL

(* The content of the TurnDone is what was streamed before it, block by block;*)
(* only blocks an Anthropic stream left open when it closed are missing.    *)
THEOREM ContentIsStreamed ==
  Spec => []ContentIsWhatWasStreamed
BY StreamInvariant, StreamedIs, PTL

(* A stream that broke is told from one that ended: it has the stop reason  *)
(* "error" and a content, or the exception goes on and nothing was shown.   *)
THEOREM BreaksShow ==
  Spec => []BrokenStreamShows
BY StreamInvariant, BrokenShows, PTL

(* The content of a turn whose stream ended can be sent back to its provider:*)
(* _anthropic_reasoning_block raises about none of its blocks.              *)
THEOREM FinishedCanBeSent ==
  Spec => []FinishedTurnCanBeSent
BY StreamInvariant, SentBack, PTL

(* build_messages_after_turn raises exactly where two executed calls never  *)
(* got an id.  Else the next request names the calls that were executed, by *)
(* the ids their provider gave them, and has one result behind each: however*)
(* late an id comes, no call is dangling and no result an orphan.           *)
THEOREM RequestsPair ==
  Spec => []RequestPairsCalls
BY StreamInvariant, CallsPaired, PTL

(* What a broken stream shows, behind a step. *)
LEMMA BrokenShowsNext ==
  StreamInv' => BrokenStreamShows'
BY BrokenShows, PTL

(* The loop executes the calls that ended as calls to execute. *)
RunsEnded ==
  stream \in {"ended", "recovered"} => ToExecute = {i \in Index : seen.calls[i] = "use"}

(* What the loop executes, behind a step. *)
LEMMA RunsEndedNext ==
  StreamInv' => RunsEnded'
<1>1. StreamInv => RunsEnded
  BY ExecutesEnded DEF RunsEnded
<1>2. QED
  BY <1>1, PTL

(* Before a stream has come to its end no call is executed. *)
LEMMA ExecutesNone ==
  /\ stream \notin {"ended", "recovered"} => ToExecute = {}
  /\ stream' \notin {"ended", "recovered"} => ToExecute' = {}
BY DEF ToExecute

(* The phase of the turn, before and behind a step. *)
LEMMA PhaseIs ==
  /\ Phase = CASE stream = "reading" /\ turn = NoTurn -> "streaming"
               [] stream = "reading" /\ turn # NoTurn -> "sealed"
               [] stream \in {"ended", "recovered"} -> "done"
               [] stream = "raised" -> "failed"
               [] stream = "abandoned" -> "dropped"
  /\ Phase' = CASE stream' = "reading" /\ turn' = NoTurn -> "streaming"
                [] stream' = "reading" /\ turn' # NoTurn -> "sealed"
                [] stream' \in {"ended", "recovered"} -> "done"
                [] stream' = "raised" -> "failed"
                [] stream' = "abandoned" -> "dropped"
BY DEF Phase

(* Both clients implement the contract of events.py: under the refinement   *)
(* mapping each step is one of StreamContract or changes nothing in it.     *)
THEOREM StreamKeepsContract ==
  Spec => KeepsContract
<1>1. Init => Contract!Init
  BY ExecutesNone, PhaseIs DEF Init, Contract!Init
<1>2. StreamInv /\ StreamInv' /\ [Next]_vars => [Contract!Next]_(Contract!vars)
  <2> SUFFICES ASSUME StreamInv, StreamInv', [Next]_vars
               PROVE  [Contract!Next]_(Contract!vars)
    OBVIOUS
  <2>1. CASE UNCHANGED vars
    BY <2>1 DEF vars, Contract!vars, Phase, ToExecute
  <2>2. seen' \in Knowledge
    BY DEF StreamInv, TypeOK, Knowledge
  <2>3. (\A i \in Index : CallMoves(i)) => Contract!Moves
    BY <2>2 DEF Contract!Moves, Contract!Stage, Knowledge, CallMoves
  <2>4. CASE Reads
    BY <2>3, <2>4, ExecutesNone, PhaseIs DEF Reads, Contract!Next, Contract!Stream
  <2>5. CASE Finishes
    BY <2>3, <2>5, RunsEndedNext, PhaseIs
       DEF Finishes, RunsEnded, Contract!Next, Contract!Finish
  <2>6. CASE Fails
    <3>1. turn = NoTurn => \A i \in Index : seen.calls[i] = "absent"
      BY <2>6, BrokenShowsNext DEF Fails, BrokenStreamShows
    <3>2. QED
      BY <2>6, <3>1, ExecutesNone, PhaseIs DEF Fails, Contract!Next, Contract!Fail
  <2>7. CASE Drops
    BY <2>7, ExecutesNone, PhaseIs DEF Drops, Contract!Next, Contract!Drop
  <2>8. QED
    BY <2>1, <2>4, <2>5, <2>6, <2>7, StepIs
<1>3. QED
  BY <1>1, <1>2, StreamInvariant, PTL DEF Spec, KeepsContract, Contract!Spec

-----------------------------------------------------------------------------
(* The usage of a turn.                                                    *)

(* What is said under names of which a report has one. *)
LEMMA SaidIs ==
  ASSUME NEW raw, NEW names, Len(names) \in Nat, \A k, l \in Named(raw, names) : k = l
  PROVE  /\ (\A k \in 1..Len(names) : names[k] \notin DOMAIN raw) => Said(raw, names) = 0
         /\ \A k \in 1..Len(names) :
              names[k] \in DOMAIN raw => Said(raw, names) = raw[names[k]]
<1> DEFINE used == Named(raw, names)
           first == CHOOSE k \in used : \A l \in used : k <= l
<1>1. Said(raw, names) = IF used = {} THEN 0 ELSE raw[names[first]]
  BY DEF Said
<1>2. \A k : k \in used <=> k \in 1..Len(names) /\ names[k] \in DOMAIN raw
  BY DEF Named
<1> HIDE DEF used
<1>3. ASSUME NEW k \in 1..Len(names), names[k] \in DOMAIN raw
      PROVE  first = k
  <2>1. k \in used /\ \A l \in used : l = k
    BY <1>2, <1>3 DEF used
  <2>2. \A l \in used : k <= l
    BY <2>1
  <2>3. QED
    BY <2>1, <2>2
<1> HIDE DEF first
<1>4. QED
  BY <1>1, <1>2, <1>3

(* A clear report that has a quantity under one of its names has it in their sum. *)
LEMMA SaidOnce ==
  ASSUME NEW raw, IsReport(raw), IsClear(raw)
  PROVE  /\ Said(raw, InputNames)
              = Field(raw, "input_tokens") + Field(raw, "prompt_tokens")
                + Field(raw, "prompt_token_count")
         /\ Said(raw, OutputNames)
              = Field(raw, "output_tokens") + Field(raw, "completion_tokens")
                + Field(raw, "candidates_token_count")
         /\ Said(raw, ReadNames)
              = Field(raw, "cache_read_input_tokens") + Field(raw, "details_cached_tokens")
                + Field(raw, "details_cache_read_tokens")
                + Field(raw, "details_cache_read_input_tokens")
         /\ Said(raw, CreationNames)
              = Field(raw, "cache_creation_input_tokens")
                + Field(raw, "details_cache_creation_input_tokens")
         /\ Said(raw, <<"cached_input_tokens">>) = Field(raw, "cached_input_tokens")
<1>1. \A name : /\ name \in DOMAIN raw => raw[name] \in Nat
                /\ Field(raw, name) = IF name \in DOMAIN raw THEN raw[name] ELSE 0
  BY DEF IsReport, Field
<1>2. ASSUME NEW names, Len(names) = 3, \A k, l \in Named(raw, names) : k = l
      PROVE  Said(raw, names)
               = Field(raw, names[1]) + Field(raw, names[2]) + Field(raw, names[3])
  <2>1. 1 \in 1..Len(names) /\ 2 \in 1..Len(names) /\ 3 \in 1..Len(names)
        /\ \A k \in 1..Len(names) : k = 1 \/ k = 2 \/ k = 3
    BY <1>2
  <2>2. \A k, l \in 1..Len(names) :
          names[k] \in DOMAIN raw /\ names[l] \in DOMAIN raw => k = l
    BY <1>2 DEF Named
  <2>3. /\ (\A k \in 1..Len(names) : names[k] \notin DOMAIN raw) => Said(raw, names) = 0
        /\ \A k \in 1..Len(names) :
             names[k] \in DOMAIN raw => Said(raw, names) = raw[names[k]]
    BY <1>2, SaidIs
  <2>4. QED
    BY <1>1, <2>1, <2>2, <2>3
<1>3. ASSUME NEW names, Len(names) = 4, \A k, l \in Named(raw, names) : k = l
      PROVE  Said(raw, names)
               = Field(raw, names[1]) + Field(raw, names[2]) + Field(raw, names[3])
                 + Field(raw, names[4])
  <2>1. 1 \in 1..Len(names) /\ 2 \in 1..Len(names) /\ 3 \in 1..Len(names)
        /\ 4 \in 1..Len(names)
        /\ \A k \in 1..Len(names) : k = 1 \/ k = 2 \/ k = 3 \/ k = 4
    BY <1>3
  <2>2. \A k, l \in 1..Len(names) :
          names[k] \in DOMAIN raw /\ names[l] \in DOMAIN raw => k = l
    BY <1>3 DEF Named
  <2>3. /\ (\A k \in 1..Len(names) : names[k] \notin DOMAIN raw) => Said(raw, names) = 0
        /\ \A k \in 1..Len(names) :
             names[k] \in DOMAIN raw => Said(raw, names) = raw[names[k]]
    BY <1>3, SaidIs
  <2>4. QED
    BY <1>1, <2>1, <2>2, <2>3
<1>4. ASSUME NEW names, Len(names) = 2, \A k, l \in Named(raw, names) : k = l
      PROVE  Said(raw, names) = Field(raw, names[1]) + Field(raw, names[2])
  <2>1. 1 \in 1..Len(names) /\ 2 \in 1..Len(names)
        /\ \A k \in 1..Len(names) : k = 1 \/ k = 2
    BY <1>4
  <2>2. \A k, l \in 1..Len(names) :
          names[k] \in DOMAIN raw /\ names[l] \in DOMAIN raw => k = l
    BY <1>4 DEF Named
  <2>3. /\ (\A k \in 1..Len(names) : names[k] \notin DOMAIN raw) => Said(raw, names) = 0
        /\ \A k \in 1..Len(names) :
             names[k] \in DOMAIN raw => Said(raw, names) = raw[names[k]]
    BY <1>4, SaidIs
  <2>4. QED
    BY <1>1, <2>1, <2>2, <2>3
<1>5. Said(raw, <<"cached_input_tokens">>) = Field(raw, "cached_input_tokens")
  <2> DEFINE names == <<"cached_input_tokens">>
  <2>1. Len(names) = 1 /\ names[1] = "cached_input_tokens"
    OBVIOUS
  <2> HIDE DEF names
  <2>2. 1 \in 1..Len(names) /\ \A k \in 1..Len(names) : k = 1
    BY <2>1
  <2>3. \A k, l \in Named(raw, names) : k = l
    BY <2>2 DEF Named
  <2>4. /\ (\A k \in 1..Len(names) : names[k] \notin DOMAIN raw) => Said(raw, names) = 0
        /\ \A k \in 1..Len(names) :
             names[k] \in DOMAIN raw => Said(raw, names) = raw[names[k]]
    BY <2>1, <2>3, SaidIs
  <2>5. Said(raw, names) = Field(raw, names[1])
    BY <1>1, <2>2, <2>4
  <2>6. QED
    BY <2>1, <2>5 DEF names
<1>6. \A names \in {InputNames, OutputNames, ReadNames, CreationNames} :
        \A k, l \in Named(raw, names) : k = l
  BY DEF IsClear
<1>7. Said(raw, InputNames) = Field(raw, InputNames[1]) + Field(raw, InputNames[2])
                              + Field(raw, InputNames[3])
  <2>1. Len(InputNames) = 3
    BY DEF InputNames
  <2>2. QED
    BY <1>2, <1>6, <2>1
<1>8. Said(raw, OutputNames) = Field(raw, OutputNames[1]) + Field(raw, OutputNames[2])
                               + Field(raw, OutputNames[3])
  <2>1. Len(OutputNames) = 3
    BY DEF OutputNames
  <2>2. QED
    BY <1>2, <1>6, <2>1
<1>9. Said(raw, ReadNames) = Field(raw, ReadNames[1]) + Field(raw, ReadNames[2])
                             + Field(raw, ReadNames[3]) + Field(raw, ReadNames[4])
  <2>1. Len(ReadNames) = 4
    BY DEF ReadNames
  <2>2. QED
    BY <1>3, <1>6, <2>1
<1>10. Said(raw, CreationNames)
         = Field(raw, CreationNames[1]) + Field(raw, CreationNames[2])
  <2>1. Len(CreationNames) = 2
    BY DEF CreationNames
  <2>2. QED
    BY <1>4, <1>6, <2>1
<1>11. /\ InputNames[1] = "input_tokens" /\ InputNames[2] = "prompt_tokens"
       /\ InputNames[3] = "prompt_token_count"
       /\ OutputNames[1] = "output_tokens" /\ OutputNames[2] = "completion_tokens"
       /\ OutputNames[3] = "candidates_token_count"
       /\ ReadNames[1] = "cache_read_input_tokens"
       /\ ReadNames[2] = "details_cached_tokens"
       /\ ReadNames[3] = "details_cache_read_tokens"
       /\ ReadNames[4] = "details_cache_read_input_tokens"
       /\ CreationNames[1] = "cache_creation_input_tokens"
       /\ CreationNames[2] = "details_cache_creation_input_tokens"
  BY DEF InputNames, OutputNames, ReadNames, CreationNames
<1>12. QED
  BY <1>5, <1>7, <1>8, <1>9, <1>10, <1>11

(* A report has parts under one of their six names. *)
LEMMA PartsAre ==
  ASSUME NEW raw
  PROVE  HasParts(raw) <=>
           \E name \in {"cache_read_input_tokens", "details_cached_tokens",
                        "details_cache_read_tokens", "details_cache_read_input_tokens",
                        "cache_creation_input_tokens",
                        "details_cache_creation_input_tokens"} : name \in DOMAIN raw
<1>1. /\ Len(ReadNames) = 4 /\ Len(CreationNames) = 2
      /\ ReadNames[1] = "cache_read_input_tokens"
      /\ ReadNames[2] = "details_cached_tokens"
      /\ ReadNames[3] = "details_cache_read_tokens"
      /\ ReadNames[4] = "details_cache_read_input_tokens"
      /\ CreationNames[1] = "cache_creation_input_tokens"
      /\ CreationNames[2] = "details_cache_creation_input_tokens"
  BY DEF ReadNames, CreationNames
<1>2. /\ \A k : k \in 1..4 <=> k = 1 \/ k = 2 \/ k = 3 \/ k = 4
      /\ \A k : k \in 1..2 <=> k = 1 \/ k = 2
  OBVIOUS
<1>3. Named(raw, ReadNames) # {} <=>
        \/ "cache_read_input_tokens" \in DOMAIN raw
        \/ "details_cached_tokens" \in DOMAIN raw
        \/ "details_cache_read_tokens" \in DOMAIN raw
        \/ "details_cache_read_input_tokens" \in DOMAIN raw
  BY <1>1, <1>2 DEF Named
<1>4. Named(raw, CreationNames) # {} <=>
        \/ "cache_creation_input_tokens" \in DOMAIN raw
        \/ "details_cache_creation_input_tokens" \in DOMAIN raw
  BY <1>1, <1>2 DEF Named
<1>5. QED
  BY <1>3, <1>4 DEF HasParts

(* Each quantity of a clear report is counted once, unless a sum stands beside the *)
(* details.                                                                        *)
LEMMA NormalizedIsMeant ==
  ASSUME NEW raw, IsReport(raw), IsClear(raw), ~SumBesideDetails(raw)
  PROVE  NormalizeUsage(raw) = Meant(raw)
<1> DEFINE Of(name) == IF name \in Counted(raw) THEN raw[name] ELSE 0
           sum == "cached_input_tokens"
<1>1. \A name : name # sum => Of(name) = Field(raw, name)
  BY DEF Counted, Field
<1>2. Of(sum) = IF HasSplitFields(raw) THEN 0 ELSE Field(raw, sum)
  BY DEF Counted, Field
<1>3. \A name : Field(raw, name) \in Nat
  BY DEF IsReport, Field
<1>4. NormalizeUsage(raw) =
        [input |-> Of("input_tokens") + Of("prompt_tokens") + Of("prompt_token_count"),
         output |-> Of("output_tokens") + Of("completion_tokens")
                      + Of("candidates_token_count"),
         read |-> Of("cache_read_input_tokens") + Of(sum)
                    + Of("details_cached_tokens") + Of("details_cache_read_tokens")
                    + Of("details_cache_read_input_tokens"),
         creation |-> Of("cache_creation_input_tokens")
                        + Of("details_cache_creation_input_tokens")]
  BY DEF NormalizeUsage
<1> HIDE DEF Of
<1>5. Of("input_tokens") + Of("prompt_tokens") + Of("prompt_token_count")
        = Said(raw, InputNames)
  BY <1>1, SaidOnce
<1>6. Of("output_tokens") + Of("completion_tokens") + Of("candidates_token_count")
        = Said(raw, OutputNames)
  BY <1>1, SaidOnce
<1>7. Of("cache_creation_input_tokens") + Of("details_cache_creation_input_tokens")
        = Said(raw, CreationNames)
  BY <1>1, SaidOnce
<1>8. Of("cache_read_input_tokens") + Of(sum) + Of("details_cached_tokens")
        + Of("details_cache_read_tokens") + Of("details_cache_read_input_tokens")
        = IF HasParts(raw) THEN Said(raw, ReadNames) ELSE Said(raw, <<sum>>)
  <2>1. CASE HasParts(raw)
    <3>1. Of(sum) = 0
      BY <1>2, <2>1 DEF SumBesideDetails, Field
    <3>2. Said(raw, ReadNames)
            = Of("cache_read_input_tokens") + Of("details_cached_tokens")
              + Of("details_cache_read_tokens") + Of("details_cache_read_input_tokens")
      BY <1>1, SaidOnce
    <3>3. /\ Of("cache_read_input_tokens") \in Nat /\ Of("details_cached_tokens") \in Nat
          /\ Of("details_cache_read_tokens") \in Nat
          /\ Of("details_cache_read_input_tokens") \in Nat
      BY <1>1, <1>3
    <3>4. QED
      BY <2>1, <3>1, <3>2, <3>3
  <2>2. CASE ~HasParts(raw)
    <3>1. /\ Of("cache_read_input_tokens") = 0 /\ Of("details_cached_tokens") = 0
          /\ Of("details_cache_read_tokens") = 0
          /\ Of("details_cache_read_input_tokens") = 0
      BY <1>1, <2>2, PartsAre DEF Field
    <3>2. ~HasSplitFields(raw)
      BY <2>2, PartsAre DEF HasSplitFields
    <3>3. Of(sum) = Said(raw, <<sum>>) /\ Of(sum) \in Nat
      BY <1>2, <1>3, <3>2, SaidOnce
    <3>4. QED
      BY <2>2, <3>1, <3>3
  <2>3. QED
    BY <2>1, <2>2
<1>9. QED
  BY <1>4, <1>5, <1>6, <1>7, <1>8 DEF Meant

(* Anthropic's session reads out of a report what is meant. *)
LEMMA FieldsAreMeant ==
  ASSUME NEW raw, IsReport(raw), IsClear(raw), DOMAIN raw \subseteq AnthropicNames
  PROVE  Anthropic!FieldsOf(raw) = Meant(raw)
<1> DEFINE read == Field(raw, "cache_read_input_tokens")
           creation == Field(raw, "cache_creation_input_tokens")
           sum == Field(raw, "cached_input_tokens")
<1>1. /\ Field(raw, "prompt_tokens") = 0 /\ Field(raw, "prompt_token_count") = 0
      /\ Field(raw, "completion_tokens") = 0 /\ Field(raw, "candidates_token_count") = 0
      /\ Field(raw, "details_cached_tokens") = 0
      /\ Field(raw, "details_cache_read_tokens") = 0
      /\ Field(raw, "details_cache_read_input_tokens") = 0
      /\ Field(raw, "details_cache_creation_input_tokens") = 0
  BY DEF AnthropicNames, Field
<1>2. \A name : Field(raw, name) \in Nat
  BY DEF IsReport, Field
<1>3. /\ Said(raw, InputNames) = Field(raw, "input_tokens")
      /\ Said(raw, OutputNames) = Field(raw, "output_tokens")
      /\ Said(raw, ReadNames) = read /\ Said(raw, CreationNames) = creation
      /\ Said(raw, <<"cached_input_tokens">>) = sum
  BY <1>1, <1>2, SaidOnce
<1>4. (IF read = 0 /\ creation = 0 THEN sum ELSE read)
        = IF HasParts(raw) THEN read ELSE sum
  <2>1. CASE HasParts(raw)
    <3>1. "cached_input_tokens" \in DOMAIN raw => sum = read + creation
      BY <1>3, <2>1 DEF IsClear, Field
    <3>2. "cached_input_tokens" \notin DOMAIN raw => sum = 0
      BY DEF Field
    <3>3. QED
      BY <1>2, <2>1, <3>1, <3>2
  <2>2. CASE ~HasParts(raw)
    BY <2>2, PartsAre DEF Field
  <2>3. QED
    BY <2>1, <2>2
<1>5. Anthropic!FieldsOf(raw) =
        [input |-> Field(raw, "input_tokens"), output |-> Field(raw, "output_tokens"),
         read |-> IF read = 0 /\ creation = 0 THEN sum ELSE read,
         creation |-> creation]
  BY AnthropicUsage DEF Anthropic!FieldsOf
<1> HIDE DEF read, creation, sum
<1>6. QED
  BY <1>3, <1>4, <1>5 DEF Meant

(* A usage as a function of its fields. *)
LEMMA UsageIs ==
  ASSUME NEW u \in Usage
  PROVE  /\ DOMAIN u = DOMAIN Zero /\ u = [f \in DOMAIN Zero |-> u[f]]
         /\ \A f \in DOMAIN Zero : u[f] \in Nat
BY DEF Usage, Zero

(* Usages that agree field by field are one. *)
LEMMA SameUsage ==
  ASSUME NEW u \in Usage, NEW v \in Usage, \A f \in DOMAIN Zero : u[f] = v[f]
  PROVE  u = v
BY UsageIs

(* The empty usage. *)
LEMMA ZeroTyped ==
  Zero \in Usage /\ \A f \in DOMAIN Zero : Zero[f] = 0
BY DEF Usage, Zero

(* A total that grows is the one reported last. *)
LEMMA GrownIs ==
  ASSUME NEW raw, IsReport(raw), raw # NoReport, sent.usage \in Usage,
         \A f \in DOMAIN Zero : Meant(raw)[f] >= sent.usage[f]
  PROVE  Reported(raw) = Meant(raw)
<1>1. Meant(raw) \in Usage /\ Reported(raw) \in Usage
  BY MeantTyped, ReportedTyped
<1>2. ASSUME NEW f \in DOMAIN Zero
      PROVE  Reported(raw)[f] = Meant(raw)[f]
  <2>1. Reported(raw)[f] = Larger(sent.usage[f], Meant(raw)[f])
    BY DEF Reported
  <2>2. sent.usage[f] \in Nat /\ Meant(raw)[f] \in Nat
    BY <1>1, UsageIs
  <2>3. QED
    BY <2>1, <2>2 DEF Larger
<1>3. QED
  BY <1>1, <1>2, SameUsage

(* An empty report means nothing. *)
LEMMA NothingReported ==
  Meant(NoReport) = Zero /\ NormalizeUsage(NoReport) = Zero
<1>1. DOMAIN NoReport = {"input_tokens"} /\ NoReport["input_tokens"] = 0
  BY DEF NoReport
<1>2. \A name : Field(NoReport, name) = 0
  BY <1>1 DEF Field
<1>3. IsReport(NoReport) /\ IsClear(NoReport) /\ ~SumBesideDetails(NoReport)
  <2>1. IsReport(NoReport)
    BY <1>1 DEF IsReport, Canonical
  <2>2. \A names \in {InputNames, OutputNames, ReadNames, CreationNames} :
          \A k, l \in Named(NoReport, names) : k = l
    <3>1. \A k \in Named(NoReport, InputNames) : k = 1
      BY <1>1 DEF Named, InputNames
    <3>2. /\ Named(NoReport, OutputNames) = {} /\ Named(NoReport, ReadNames) = {}
          /\ Named(NoReport, CreationNames) = {}
      BY <1>1 DEF Named, OutputNames, ReadNames, CreationNames
    <3>3. QED
      BY <3>1, <3>2
  <2>3. QED
    BY <1>1, <2>1, <2>2 DEF IsClear, SumBesideDetails
<1>4. Meant(NoReport) = Zero
  <2>1. /\ Said(NoReport, InputNames) = 0 /\ Said(NoReport, OutputNames) = 0
        /\ Said(NoReport, ReadNames) = 0 /\ Said(NoReport, CreationNames) = 0
        /\ Said(NoReport, <<"cached_input_tokens">>) = 0
    BY <1>2, <1>3, SaidOnce
  <2>2. QED
    BY <2>1 DEF Meant, Zero
<1>5. QED
  BY <1>3, <1>4, NormalizedIsMeant

(* Merging a report that extends the total gives the new total. *)
LEMMA MergedIsReported ==
  ASSUME NEW raw \in Reports, sent.usage \in Usage, Extends(raw) \/ sent.usage = Zero
  PROVE  Anthropic!MergeUsage(sent.usage, raw) = Reported(raw)
<1>1. IsReport(raw) /\ IsClear(raw) /\ DOMAIN raw \subseteq AnthropicNames
  BY StreamConstants, ReportsAssumption
<1>2. /\ Reported(raw) \in Usage /\ Anthropic!MergeUsage(sent.usage, raw) \in Usage
      /\ Meant(raw) \in Usage
  BY <1>1, ReportedTyped, MergedTyped, MeantTyped
<1>3. ASSUME NEW f \in DOMAIN Zero
      PROVE  Anthropic!MergeUsage(sent.usage, raw)[f] = Reported(raw)[f]
  <2>1. Anthropic!MergeUsage(sent.usage, raw)[f]
          = IF Meant(raw)[f] # 0 THEN Meant(raw)[f] ELSE sent.usage[f]
    <3>1. f \in DOMAIN sent.usage
      BY UsageIs
    <3>2. Anthropic!FieldsOf(raw) = Meant(raw)
      BY <1>1, FieldsAreMeant
    <3>3. QED
      BY <3>1, <3>2 DEF Anthropic!MergeUsage
  <2>2. sent.usage[f] \in Nat /\ Meant(raw)[f] \in Nat
    BY <1>2, UsageIs
  <2>3. CASE raw = NoReport
    <3>1. Meant(raw)[f] = 0
      BY <2>3, NothingReported, ZeroTyped
    <3>2. Reported(raw) = sent.usage
      BY <2>3 DEF Reported
    <3>3. QED
      BY <2>1, <3>1, <3>2
  <2>4. CASE raw # NoReport
    <3>1. Reported(raw)[f] = Larger(sent.usage[f], Meant(raw)[f])
      BY <2>4 DEF Reported
    <3>2. Meant(raw)[f] = 0 \/ Meant(raw)[f] >= sent.usage[f]
      BY <2>2, ZeroTyped DEF Extends
    <3>3. QED
      BY <2>1, <2>2, <3>1, <3>2 DEF Larger
  <2>5. QED
    BY <2>3, <2>4
<1>4. QED
  BY <1>2, <1>3, SameUsage

(* A chunk leaves the session with the total reported. *)
LEMMA ChunkUsage ==
  ASSUME StreamInv, UsageInv, NEW chunk \in OpenAIChunks, OpenAISends(chunk),
         ~SumBesideDetails(chunk.usage)
  PROVE  UsageInv'
<1> DEFINE u == NormalizeUsage(chunk.usage)
<1>1. /\ provider = "openai" /\ provider' = provider /\ stream = "reading"
      /\ OpenAI!Feed(chunk) /\ sent'.usage = Reported(chunk.usage)
      /\ Grows(chunk.usage)
  BY Types DEF OpenAISends, Passes, WellFormed, StreamInv
<1>2. session'.usage = IF u # Zero THEN u ELSE session.usage
  <2>1. session \in OpenAI!Session
    BY <1>1, OpenAIReading
  <2>2. /\ OpenAI!NormalizeUsage(chunk.usage) = u /\ OpenAI!Zero = Zero
    BY OpenAINormalizes, OpenAIEvents
  <2> HIDE DEF u
  <2>3. session'.usage = IF OpenAI!NormalizeUsage(chunk.usage) # OpenAI!Zero
                         THEN OpenAI!NormalizeUsage(chunk.usage) ELSE session.usage
    BY <1>1, <2>1 DEF OpenAI!Feed, OpenAI!Session
  <2>4. QED
    BY <2>2, <2>3
<1>3. turn' = NoTurn
  BY <1>1, OpenAISendsKeeps, OpenAIReading
<1>4. IsReport(chunk.usage) /\ IsClear(chunk.usage)
  BY StreamConstants, ReportsAssumption, OpenAIEvents DEF OpenAI!IsChunk
<1>5. u = Meant(chunk.usage) /\ u \in Usage
  BY <1>4, NormalizedIsMeant, MeantTyped
<1>6. sent.usage \in Usage /\ session.usage = sent.usage
  BY Types DEF StreamInv, UsageInv
<1>7. session'.usage = sent'.usage
  <2>1. CASE chunk.usage = NoReport
    BY <1>1, <1>2, <1>6, <2>1, NothingReported DEF Reported
  <2>2. CASE chunk.usage # NoReport
    <3>1. \A f \in DOMAIN Zero : Meant(chunk.usage)[f] >= sent.usage[f]
      BY <1>1, <2>2 DEF Grows
    <3>2. sent'.usage = u
      BY <1>1, <1>4, <1>5, <1>6, <2>2, <3>1, GrownIs
    <3>3. CASE u # Zero
      BY <1>2, <3>2, <3>3
    <3>4. CASE u = Zero
      <4>1. \A f \in DOMAIN Zero : sent.usage[f] = Zero[f]
        BY <1>5, <1>6, <3>1, <3>4, UsageIs, ZeroTyped
      <4>2. sent.usage = Zero
        BY <1>6, <4>1, SameUsage, ZeroTyped
      <4>3. QED
        BY <1>2, <1>6, <3>2, <3>4, <4>2
    <3>5. QED
      BY <3>3, <3>4
  <2>3. QED
    BY <2>1, <2>2
<1>8. QED
  BY <1>1, <1>3, <1>7 DEF UsageInv

(* So does an Anthropic report. *)
LEMMA ReportUsage ==
  ASSUME StreamInv, UsageInv, AnthropicReport
  PROVE  UsageInv'
<1>1. PICK report \in Reports :
        \/ MessageStart(report)
        \/ \E stop \in Anthropic!StopReasons \ {"none"} : MessageDelta(report, stop)
  BY DEF AnthropicReport
<1>2. sent.usage \in Usage /\ session.usage = sent.usage
  BY Types DEF StreamInv, UsageInv
<1>3. /\ provider = "anthropic" /\ sent.phase \in {"open", "blocks"}
      /\ provider' = provider /\ Deliver
      /\ \E stop \in Anthropic!StopReasons : Anthropic!Report(report, stop)
      /\ sent'.usage = Reported(report) /\ sent'.phase # "open"
      /\ Extends(report) \/ sent.usage = Zero
  <2>1. CASE MessageStart(report)
    <3>1. Anthropic!Report(report, "none") /\ "none" \in Anthropic!StopReasons
      BY <2>1 DEF MessageStart, Anthropic!StopReasons
    <3>2. QED
      BY <2>1, <3>1, Types DEF MessageStart, Sending, Passes, StreamInv, UsageInv
  <2>2. CASE \E stop \in Anthropic!StopReasons \ {"none"} : MessageDelta(report, stop)
    BY <2>2, Types DEF MessageDelta, Sending, Passes, StreamInv
  <2>3. QED
    BY <1>1, <2>1, <2>2
<1>4. session'.usage = Anthropic!MergeUsage(sent.usage, report)
  BY <1>2, <1>3, Types DEF Anthropic!Report, Anthropic!Session, StreamInv
<1>5. session'.usage = sent'.usage
  BY <1>2, <1>3, <1>4, MergedIsReported
<1>6. turn' = NoTurn
  <2>1. turn = NoTurn
    BY <1>1, NotDone DEF MessageStart, MessageDelta, Sending
  <2>2. Done(batch') = {}
    <3>1. PICK usage : batch' = (IF usage # Anthropic!Zero
                                 THEN <<Anthropic!UsageUpdate(usage)>> ELSE <<>>)
      BY <1>3 DEF Anthropic!Report, Anthropic!Yields
    <3>2. \A k \in 1..Len(batch') : batch'[k].type # "turn_done"
      BY <3>1 DEF Anthropic!UsageUpdate
    <3>3. QED
      BY <3>2 DEF Done
  <2>3. QED
    BY <1>3, <2>1, <2>2 DEF Deliver
<1>7. QED
  BY <1>3, <1>5, <1>6 DEF UsageInv

(* A chunk about a block reports nothing. *)
LEMMA BlockUsage ==
  ASSUME StreamInv, UsageInv, NEW i \in Index, ChunkFrame(i)
  PROVE  UsageInv'
BY DEF UsageInv, ChunkFrame

(* A turn that is done has the session's usage. *)
LEMMA FinalUsage ==
  ASSUME UsageInv, UsageStays, sent'.usage = sent.usage, provider' = provider,
         sent'.phase = "open" => sent.phase = "open"
  PROVE  UsageInv'
BY DEF UsageInv, UsageStays

(* The chunks of Anthropic blocks keep the usage. *)
LEMMA BlocksUsage ==
  ASSUME StreamInv, UsageInv, NEW i \in Index, AnthropicBlock(i)
  PROVE  UsageInv'
<1>1. CASE \E kind \in Anthropic!Kinds, signature \in BOOLEAN :
             BlockStart(i, kind, signature)
  BY <1>1, BlockStartKeeps, BlockUsage
<1>2. CASE TextSent(i)
  BY <1>2, TextSentKeeps, BlockUsage
<1>3. CASE SignatureSent(i)
  BY <1>3, SignatureSentKeeps, BlockUsage
<1>4. CASE \E fragment \in Fragments : ArgumentsSent(i, fragment)
  BY <1>4, ArgumentsSentKeeps, BlockUsage
<1>5. CASE BlockStop(i)
  BY <1>5, BlockStopKeeps, BlockUsage
<1>6. QED
  BY <1>1, <1>2, <1>3, <1>4, <1>5 DEF AnthropicBlock

(* Every step keeps it. *)
LEMMA StepUsage ==
  ASSUME \A chunk \in OpenAIChunks : ~SumBesideDetails(chunk.usage),
         StreamInv, UsageInv, Next
  PROVE  UsageInv'
<1>1. CASE OpenAIChunk
  BY <1>1, ChunkUsage DEF OpenAIChunk
<1>2. CASE AnthropicReport
  BY <1>2, ReportUsage
<1>3. CASE \E i \in Index : AnthropicBlock(i)
  BY <1>3, BlocksUsage
<1>4. CASE MessageStop
  <2>1. sent'.usage = sent.usage /\ sent'.phase = "closed" /\ provider' = provider
    BY <1>4, Types DEF MessageStop, Passes, StreamInv
  <2>2. QED
    BY <1>4, <2>1, MessageStopKeeps, FinalUsage
<1>5. provider \in {"openai", "anthropic"}
  BY Provider DEF StreamInv
<1>6. CASE StreamEnds
  <2>1. sent' = sent /\ provider' = provider
    BY <1>6 DEF StreamEnds
  <2>2. UsageStays
    BY <1>5, <1>6, OpenAIEndsKeeps, AnthropicEndsKeeps
  <2>3. QED
    BY <2>1, <2>2, FinalUsage
<1>7. CASE StreamBreaks
  <2>1. sent' = sent /\ provider' = provider
    BY <1>7 DEF StreamBreaks
  <2>2. UsageStays
    BY <1>5, <1>7, OpenAIRecovers, OpenAIRaises, AnthropicRecovers, AnthropicRaises
  <2>3. QED
    BY <2>1, <2>2, FinalUsage
<1>8. CASE Abandoned
  BY <1>8 DEF Abandoned, UsageInv
<1>9. QED
  BY <1>1, <1>2, <1>3, <1>4, <1>6, <1>7, <1>8 DEF Next

(* A usage that goes through a dict is counted once. *)
LEMMA DictOnce ==
  ASSUME NEW u \in Usage
  PROVE  NormalizeUsage(ToDict(u)) = u
<1> DEFINE raw == ToDict(u)
           all == [input_tokens |-> u.input, output_tokens |-> u.output,
                   cache_read_input_tokens |-> u.read,
                   cache_creation_input_tokens |-> u.creation,
                   cached_input_tokens |-> u.read + u.creation]
           Of(name) == IF name \in Counted(raw) THEN raw[name] ELSE 0
<1>1. /\ u.input \in Nat /\ u.output \in Nat /\ u.read \in Nat /\ u.creation \in Nat
  BY DEF Usage
<1>2. /\ DOMAIN raw = {n \in DOMAIN all : n \in {"input_tokens", "output_tokens"}
                                          \/ all[n] # 0}
      /\ \A n \in DOMAIN raw : raw[n] = all[n]
  BY DEF ToDict
<1>3. /\ DOMAIN all = {"input_tokens", "output_tokens", "cache_read_input_tokens",
                       "cache_creation_input_tokens", "cached_input_tokens"}
      /\ all["input_tokens"] = u.input /\ all["output_tokens"] = u.output
      /\ all["cache_read_input_tokens"] = u.read
      /\ all["cache_creation_input_tokens"] = u.creation
      /\ all["cached_input_tokens"] = u.read + u.creation
  OBVIOUS
<1> HIDE DEF raw, all
<1>4. /\ Of("input_tokens") = u.input /\ Of("output_tokens") = u.output
      /\ Of("prompt_tokens") = 0 /\ Of("prompt_token_count") = 0
      /\ Of("completion_tokens") = 0 /\ Of("candidates_token_count") = 0
      /\ Of("details_cached_tokens") = 0 /\ Of("details_cache_read_tokens") = 0
      /\ Of("details_cache_read_input_tokens") = 0
      /\ Of("details_cache_creation_input_tokens") = 0
  BY <1>2, <1>3 DEF Counted
<1>5. Of("cache_read_input_tokens") = u.read /\ Of("cache_creation_input_tokens") = u.creation
  BY <1>1, <1>2, <1>3 DEF Counted
<1>6. Of("cached_input_tokens") = 0
  <2>1. CASE u.read = 0 /\ u.creation = 0
    BY <1>2, <1>3, <2>1 DEF Counted
  <2>2. CASE u.read # 0
    BY <1>2, <1>3, <2>2 DEF Counted, HasSplitFields
  <2>3. CASE u.creation # 0
    BY <1>2, <1>3, <2>3 DEF Counted, HasSplitFields
  <2>4. QED
    BY <2>1, <2>2, <2>3
<1>7. NormalizeUsage(raw) =
        [input |-> Of("input_tokens") + Of("prompt_tokens") + Of("prompt_token_count"),
         output |-> Of("output_tokens") + Of("completion_tokens")
                      + Of("candidates_token_count"),
         read |-> Of("cache_read_input_tokens") + Of("cached_input_tokens")
                    + Of("details_cached_tokens") + Of("details_cache_read_tokens")
                    + Of("details_cache_read_input_tokens"),
         creation |-> Of("cache_creation_input_tokens")
                        + Of("details_cache_creation_input_tokens")]
  BY DEF NormalizeUsage
<1> HIDE DEF Of
<1>8. NormalizeUsage(raw) = [input |-> u.input, output |-> u.output, read |-> u.read,
                             creation |-> u.creation]
  BY <1>1, <1>4, <1>5, <1>6, <1>7
<1>9. QED
  BY <1>8 DEF Usage, raw

(* The usage of a turn is the total its provider reported, and is counted   *)
(* once when it goes through to_dict and normalize_usage again: where no    *)
(* report of an OpenAI-compatible provider has a sum beside its details     *)
(* (what becomes of one that has, see LegacySumNotAdded), and each has a    *)
(* quantity under one name (ReportsAssumption).                             *)
THEOREM UsageIsCountedOnce ==
  ASSUME \A chunk \in OpenAIChunks : ~SumBesideDetails(chunk.usage)
  PROVE  Spec => []UsageCountedOnce
<1>1. Init => UsageInv
  <2> SUFFICES ASSUME Init
               PROVE  UsageInv
    OBVIOUS
  <2>1. session.usage = Zero
    <3>1. provider \in {"openai", "anthropic"}
      BY StreamConstants DEF Init
    <3>2. CASE provider = "openai"
      BY <3>2, OpenAIEvents DEF Init, OpenAI!NewSession
    <3>3. CASE provider = "anthropic"
      BY <3>3, AnthropicEvents DEF Init, Anthropic!NewSession
    <3>4. QED
      BY <3>1, <3>2, <3>3
  <2>2. QED
    BY <2>1 DEF Init, UsageInv
<1>2. StreamInv /\ UsageInv /\ [Next]_vars => UsageInv'
  <2>1. StreamInv /\ UsageInv /\ UNCHANGED vars => UsageInv'
    BY DEF UsageInv, vars
  <2>2. QED
    BY <2>1, StepUsage
<1>3. StreamInv /\ UsageInv => UsageCountedOnce
  <2> SUFFICES ASSUME StreamInv, UsageInv, turn # NoTurn
               PROVE  /\ turn.usage = sent.usage
                      /\ NormalizeUsage(ToDict(turn.usage)) = sent.usage
    BY DEF UsageCountedOnce
  <2>1. turn.usage = sent.usage /\ sent.usage \in Usage
    BY Types DEF UsageInv, StreamInv
  <2>2. QED
    BY <2>1, DictOnce
<1>4. QED
  BY <1>1, <1>2, <1>3, StreamInvariant, PTL DEF Spec
-----------------------------------------------------------------------------
(* What a legacy consumer hears.                                           *)

(* Of two sequences that begin alike a fold makes alike. *)
LEMMA FoldsOnce ==
  ASSUME NEW fold, NEW base, NEW s, NEW more, NEW g, NEW h,
         Len(s) \in Nat, Len(more) \in Nat, Len(s) <= Len(more),
         \A k \in 1..Len(s) : more[k] = s[k],
         Folds(h, fold, base, s), Folds(g, fold, base, more)
  PROVE  \A k \in 0..Len(s) : g[k] = h[k]
<1> DEFINE S == {n \in Nat : n <= Len(s) => g[n] = h[n]}
<1>1. 0 \in S
  BY DEF Folds
<1>2. ASSUME NEW n \in Nat, n \in S
      PROVE  n + 1 \in S
  <2>1. CASE n + 1 <= Len(s)
    <3>1. g[n] = h[n] /\ n + 1 \in 1..Len(s) /\ n + 1 \in 1..Len(more)
      BY <1>2, <2>1
    <3> DEFINE l == n + 1
    <3>2. l \in 0..Len(s) /\ l \in 0..Len(more) /\ l # 0 /\ l - 1 = n
      BY <1>2, <2>1
    <3>3. more[l] = s[l]
      BY <3>1
    <3> HIDE DEF l
    <3>4. h[l] = StepOf(fold, h[l - 1], s[l]) /\ g[l] = StepOf(fold, g[l - 1], more[l])
      BY <3>2 DEF Folds
    <3>5. QED
      BY <3>1, <3>2, <3>3, <3>4 DEF l
  <2>2. QED
    BY <2>1
<1>3. Nat \subseteq S
  <2> HIDE DEF S
  <2>1. QED
    BY <1>1, <1>2, NatSet
<1>4. QED
  BY <1>3

(* What is heard in the deltas, what in the events, and how the deltas are made. *)
HeardIn(deltas) == Fold(HearDelta, Silence, deltas)

Unsaid == [out |-> <<>>, pending |-> NoLegacy]

(* The function behind what is heard in some deltas. *)
LEMMA DeltasAreHeard ==
  ASSUME NEW f, f = "hear_delta", NEW s, Len(s) \in Nat
  PROVE  \E h : Folds(h, f, Silence, s) /\ HeardIn(s) = h[Len(s)]
<1>1. \A x, e : StepOf(f, x, e) = HearDelta(x, e)
  BY DEF StepOf
<1>2. PICK h : Folds(h, f, Silence, s)
  BY FoldExists
<1> DEFINE Is(g) == g = [k \in 0..Len(s) |->
                          IF k = 0 THEN Silence ELSE HearDelta(g[k - 1], s[k])]
<1>3. Is(h)
  <2>1. \A k \in 0..Len(s) : h[k] = IF k = 0 THEN Silence ELSE HearDelta(h[k - 1], s[k])
    BY <1>1, <1>2 DEF Folds
  <2>2. QED
    BY <1>2, <2>1 DEF Folds
<1>4. PICK g : g = CHOOSE c : Is(c)
  OBVIOUS
<1>5. Is(g)
  BY <1>3, <1>4
<1>6. HeardIn(s) = g[Len(s)]
  BY <1>4 DEF HeardIn, Fold
<1>7. Folds(g, f, Silence, s)
  <2>1. \A k \in 0..Len(s) : g[k] = IF k = 0 THEN Silence ELSE HearDelta(g[k - 1], s[k])
    BY <1>5
  <2>2. g = [k \in 0..Len(s) |-> g[k]]
    BY <1>5
  <2>3. QED
    BY <1>1, <2>1, <2>2 DEF Folds
<1>8. QED
  BY <1>6, <1>7

(* The function behind what is heard in some events. *)
LEMMA EventsAreHeard ==
  ASSUME NEW f, f = "hear", NEW s, Len(s) \in Nat
  PROVE  \E h : Folds(h, f, Silence, s) /\ Fold(HearEvent, Silence, s) = h[Len(s)]
<1>1. \A x, e : StepOf(f, x, e) = HearEvent(x, e)
  BY DEF StepOf
<1>2. PICK h : Folds(h, f, Silence, s)
  BY FoldExists
<1> DEFINE Is(g) == g = [k \in 0..Len(s) |->
                          IF k = 0 THEN Silence ELSE HearEvent(g[k - 1], s[k])]
<1>3. Is(h)
  <2>1. \A k \in 0..Len(s) : h[k] = IF k = 0 THEN Silence ELSE HearEvent(h[k - 1], s[k])
    BY <1>1, <1>2 DEF Folds
  <2>2. QED
    BY <1>2, <2>1 DEF Folds
<1>4. PICK g : g = CHOOSE c : Is(c)
  OBVIOUS
<1>5. Is(g)
  BY <1>3, <1>4
<1>6. Fold(HearEvent, Silence, s) = g[Len(s)]
  BY <1>4 DEF Fold
<1>7. Folds(g, f, Silence, s)
  <2>1. \A k \in 0..Len(s) : g[k] = IF k = 0 THEN Silence ELSE HearEvent(g[k - 1], s[k])
    BY <1>5
  <2>2. g = [k \in 0..Len(s) |-> g[k]]
    BY <1>5
  <2>3. QED
    BY <1>1, <2>1, <2>2 DEF Folds
<1>8. QED
  BY <1>6, <1>7

(* The function behind the deltas of some events. *)
LEMMA DeltasAreMade ==
  ASSUME NEW f, f = "legacy", NEW s, Len(s) \in Nat
  PROVE  \E h : Folds(h, f, Unsaid, s) /\ LegacyDeltas(s) = Flush(h[Len(s)]).out
<1>1. \A x, e : StepOf(f, x, e) = LegacyStep(x, e)
  BY DEF StepOf
<1>2. PICK h : Folds(h, f, Unsaid, s)
  BY FoldExists
<1> DEFINE Is(g) == g = [k \in 0..Len(s) |->
                          IF k = 0 THEN Unsaid ELSE LegacyStep(g[k - 1], s[k])]
<1>3. Is(h)
  <2>1. \A k \in 0..Len(s) : h[k] = IF k = 0 THEN Unsaid ELSE LegacyStep(h[k - 1], s[k])
    BY <1>1, <1>2 DEF Folds
  <2>2. QED
    BY <1>2, <2>1 DEF Folds
<1>4. PICK g : g = CHOOSE c : Is(c)
  OBVIOUS
<1>5. Is(g)
  BY <1>3, <1>4
<1>6. LegacyDeltas(s) = Flush(g[Len(s)]).out
  <2>1. Fold(LegacyStep, Unsaid, s) = g[Len(s)]
    BY <1>4 DEF Fold
  <2>2. LegacyDeltas(s) = Flush(Fold(LegacyStep, Unsaid, s)).out
    BY DEF LegacyDeltas, Unsaid
  <2>3. QED
    BY <2>1, <2>2
<1>7. Folds(g, f, Unsaid, s)
  <2>1. \A k \in 0..Len(s) : g[k] = IF k = 0 THEN Unsaid ELSE LegacyStep(g[k - 1], s[k])
    BY <1>5
  <2>2. g = [k \in 0..Len(s) |-> g[k]]
    BY <1>5
  <2>3. QED
    BY <1>1, <2>1, <2>2 DEF Folds
<1>8. QED
  BY <1>6, <1>7

(* In one delta more its part is heard too. *)
LEMMA OneMoreHeard ==
  ASSUME NEW E, NEW s \in Seq(E), NEW d \in E
  PROVE  HeardIn(Append(s, d)) = HearDelta(HeardIn(s), d)
<1>1. PICK f : f = "hear_delta"
  OBVIOUS
<1> DEFINE more == Append(s, d)
           n == Len(s)
<1>2. /\ n \in Nat /\ Len(more) = n + 1 /\ more[n + 1] = d
      /\ \A k \in 1..n : more[k] = s[k]
  OBVIOUS
<1> HIDE DEF more, n
<1>3. PICK h : Folds(h, f, Silence, s) /\ HeardIn(s) = h[n]
  BY <1>1, <1>2, DeltasAreHeard DEF n
<1>4. PICK g : Folds(g, f, Silence, more) /\ HeardIn(more) = g[n + 1]
  <2>1. Len(more) \in Nat
    BY <1>2
  <2>2. QED
    BY <1>1, <1>2, <2>1, DeltasAreHeard
<1>5. g[n] = h[n]
  <2>1. \A k \in 0..n : g[k] = h[k]
    BY <1>2, <1>3, <1>4, FoldsOnce DEF n
  <2>2. QED
    BY <1>2, <2>1
<1>6. g[n + 1] = HearDelta(g[n], d)
  <2>1. \A x, e : StepOf(f, x, e) = HearDelta(x, e)
    BY <1>1 DEF StepOf
  <2>2. n + 1 \in 0..Len(more) /\ n + 1 # 0 /\ (n + 1) - 1 = n
    BY <1>2
  <2>3. g[n + 1] = StepOf(f, g[n], more[n + 1])
    BY <1>4, <2>2 DEF Folds
  <2>4. QED
    BY <1>2, <2>1, <2>3
<1>7. QED
  BY <1>3, <1>4, <1>5, <1>6 DEF more

(* Nothing is heard in no deltas. *)
LEMMA NoneHeard ==
  HeardIn(<<>>) = Silence
<1>1. PICK f : f = "hear_delta"
  OBVIOUS
<1>2. Len(<<>>) = 0
  OBVIOUS
<1>3. PICK h : Folds(h, f, Silence, <<>>) /\ HeardIn(<<>>) = h[0]
  BY <1>1, <1>2, DeltasAreHeard
<1>4. QED
  BY <1>2, <1>3 DEF Folds

Hearing ==
  [text : Nat, reasoning : Nat, names : [Index -> Nat],
   args : [Index -> Seq(Fragments)]]

LegacyEvent ==
  [type : {"text", "reasoning", "tool"}, index : Index, id : BOOLEAN,
   name : BOOLEAN, args : Fragments \cup {"fragment", "none", "id", "name"}]

(* An event a session yields. *)
Yielded(e) == e \in DeltaEvents \/ e.type \in {"usage", "end", "turn_done"}

(* The deltas made of some events, with the pending one, say what the events do. *)
Told(acc, heard) ==
  /\ acc \in [out : Seq(LegacyEvent), pending : LegacyEvent \cup {NoLegacy}]
  /\ heard \in Hearing /\ HeardIn(acc.out) \in Hearing
  /\ acc.pending = NoLegacy => HeardIn(acc.out) = heard
  /\ acc.pending # NoLegacy =>
       /\ acc.pending.type = "tool" /\ acc.pending.name
       /\ acc.pending.args = "none"
       /\ HearDelta(HeardIn(acc.out), acc.pending) = heard

(* A name, and some arguments, heard of a call. *)
NameHeard(heard, i) == [heard EXCEPT !.names[i] = @ + 1]

ArgsHeard(heard, i, a) == [heard EXCEPT !.args[i] = Append(@, a)]

(* The deltas of a call, with its name and without. *)
NameDelta(i, id, a) == Legacy("tool", i, id, TRUE, a)

ArgsDelta(i, id, a) == Legacy("tool", i, id, FALSE, a)

(* What is heard in one delta. *)
LEMMA DeltaHeard ==
  ASSUME NEW heard \in Hearing, NEW i \in Index, NEW id, NEW a \in Fragments
  PROVE  /\ HearDelta(heard, NameDelta(i, id, "none")) = NameHeard(heard, i)
         /\ HearDelta(heard, ArgsDelta(i, id, a)) = ArgsHeard(heard, i, a)
         /\ HearDelta(heard, NameDelta(i, id, a))
              = ArgsHeard(NameHeard(heard, i), i, a)
         /\ NameHeard(heard, i) \in Hearing /\ ArgsHeard(heard, i, a) \in Hearing
<1>1. a # "none"
  BY DEF Fragments
<1>2. /\ heard.names \in [Index -> Nat] /\ heard.args \in [Index -> Seq(Fragments)]
      /\ heard.text \in Nat /\ heard.reasoning \in Nat
      /\ heard = [text |-> heard.text, reasoning |-> heard.reasoning,
                  names |-> heard.names, args |-> heard.args]
  BY DEF Hearing
<1>3. [heard.args EXCEPT ![i] = @] = heard.args /\ [heard.names EXCEPT ![i] = @] = heard.names
  BY <1>2
<1>4. HearDelta(heard, Legacy("tool", i, id, TRUE, "none"))
        = [heard EXCEPT !.names[i] = @ + 1]
  BY <1>2, <1>3 DEF HearDelta, Legacy
<1>5. HearDelta(heard, Legacy("tool", i, id, FALSE, a))
        = [heard EXCEPT !.args[i] = Append(@, a)]
  BY <1>1, <1>2, <1>3 DEF HearDelta, Legacy
<1>6. HearDelta(heard, Legacy("tool", i, id, TRUE, a))
        = [[heard EXCEPT !.names[i] = @ + 1] EXCEPT !.args[i] = Append(@, a)]
  BY <1>1, <1>2 DEF HearDelta, Legacy
<1>7. Append(heard.args[i], a) \in Seq(Fragments) /\ heard.names[i] + 1 \in Nat
  BY <1>2
<1>8. /\ [heard EXCEPT !.names[i] = @ + 1] \in Hearing
      /\ [heard EXCEPT !.args[i] = Append(@, a)] \in Hearing
  <2>1. /\ [heard.names EXCEPT ![i] = @ + 1] \in [Index -> Nat]
        /\ [heard.args EXCEPT ![i] = Append(@, a)] \in [Index -> Seq(Fragments)]
    BY <1>2, <1>7
  <2>2. [heard EXCEPT !.names[i] = @ + 1] \in Hearing
    BY <2>1 DEF Hearing
  <2>3. [heard EXCEPT !.args[i] = Append(@, a)] \in Hearing
    BY <2>1 DEF Hearing
  <2>4. QED
    BY <2>2, <2>3
<1>9. QED
  BY <1>4, <1>5, <1>6, <1>8 DEF NameHeard, ArgsHeard, NameDelta, ArgsDelta

(* More text stays text. *)
LEMMA TextHeard ==
  ASSUME NEW heard \in Hearing
  PROVE  /\ [heard EXCEPT !.text = @ + 1] \in Hearing
         /\ [heard EXCEPT !.reasoning = @ + 1] \in Hearing
<1>1. heard.text + 1 \in Nat /\ heard.reasoning + 1 \in Nat
  BY DEF Hearing
<1>2. QED
  BY <1>1 DEF Hearing

(* What is pending when the deltas are flushed is heard then. *)
LEMMA FlushTells ==
  ASSUME NEW acc, NEW heard, Told(acc, heard)
  PROVE  /\ Flush(acc).out \in Seq(LegacyEvent) /\ Flush(acc).pending = NoLegacy
         /\ HeardIn(Flush(acc).out) = heard
<1>1. CASE acc.pending = NoLegacy
  BY <1>1 DEF Told, Flush
<1>2. CASE acc.pending # NoLegacy
  <2>1. acc.out \in Seq(LegacyEvent) /\ acc.pending \in LegacyEvent
    BY <1>2 DEF Told
  <2>2. Flush(acc) = [out |-> Append(acc.out, acc.pending), pending |-> NoLegacy]
    BY <1>2 DEF Flush
  <2>3. HeardIn(Append(acc.out, acc.pending)) = HearDelta(HeardIn(acc.out), acc.pending)
    BY <2>1, OneMoreHeard
  <2>4. QED
    BY <1>2, <2>1, <2>2, <2>3 DEF Told
<1>3. QED
  BY <1>1, <1>2

(* A delta that is emitted is heard behind what was pending. *)
LEMMA EmitTells ==
  ASSUME NEW acc, NEW heard, Told(acc, heard), NEW d \in LegacyEvent,
         NEW more \in Hearing, HearDelta(heard, d) = more
  PROVE  Told(Emit(acc, d), more)
<1> DEFINE out == Flush(acc).out
<1>1. /\ out \in Seq(LegacyEvent) /\ HeardIn(out) = heard
  BY FlushTells
<1>2. Emit(acc, d) = [out |-> Append(out, d), pending |-> NoLegacy]
  BY DEF Emit, Flush
<1> HIDE DEF out
<1>3. HeardIn(Append(out, d)) = more
  BY <1>1, OneMoreHeard
<1>4. Append(out, d) \in Seq(LegacyEvent)
  BY <1>1
<1>5. QED
  BY <1>2, <1>3, <1>4 DEF Told

(* A step of the translation tells what its event does. *)
LEMMA StepTells ==
  ASSUME NEW acc, NEW heard, Told(acc, heard), NEW e, Yielded(e)
  PROVE  Told(LegacyStep(acc, e), HearEvent(heard, e))
<1>1. heard \in Hearing
  BY DEF Told
<1>2. /\ e.type \in {"text", "reasoning", "name", "args"} =>
           /\ e.index \in Index /\ e.id \in BOOLEAN
           /\ e.what \in Fragments \cup {"fragment", "none", "id", "name"}
      /\ e.type = "args" => e.what \in Fragments
  BY DEF Yielded, DeltaEvents
<1>3. 0 \in Index
  BY IndexAssumption
<1>4. CASE e.type \in {"text", "reasoning"}
  <2> DEFINE d == Legacy(e.type, 0, FALSE, FALSE, e.what)
  <2>1. d \in LegacyEvent
    BY <1>2, <1>3, <1>4 DEF LegacyEvent, Legacy
  <2>2. HearDelta(heard, d) = HearEvent(heard, e)
    BY <1>4 DEF HearDelta, HearEvent, Legacy
  <2>3. HearEvent(heard, e) \in Hearing
    <3>1. /\ [heard EXCEPT !.text = @ + 1] \in Hearing
          /\ [heard EXCEPT !.reasoning = @ + 1] \in Hearing
      BY <1>1, TextHeard
    <3>2. QED
      BY <1>4, <3>1 DEF HearEvent
  <2>4. LegacyStep(acc, e) = Emit(acc, d)
    BY <1>4 DEF LegacyStep
  <2> HIDE DEF d
  <2>5. QED
    BY <2>1, <2>2, <2>3, <2>4, EmitTells
<1>5. CASE e.type = "name"
  <2>1. PICK i \in Index : i = e.index
    BY <1>2, <1>5
  <2>2. PICK id \in BOOLEAN : id = e.id
    BY <1>2, <1>5
  <2> DEFINE p == NameDelta(i, id, "none")
             out == Flush(acc).out
  <2>3. out \in Seq(LegacyEvent) /\ HeardIn(out) = heard
    BY FlushTells
  <2>4. LegacyStep(acc, e) = [out |-> out, pending |-> p]
    BY <1>5, <2>1, <2>2 DEF LegacyStep, Flush, NameDelta
  <2>5. /\ p \in LegacyEvent /\ p # NoLegacy /\ p.type = "tool" /\ p.name
        /\ p.args = "none"
    BY DEF LegacyEvent, Legacy, NoLegacy, NameDelta
  <2>6. HearEvent(heard, e) = NameHeard(heard, i)
    BY <1>5, <2>1 DEF HearEvent, NameHeard
  <2>7. HearDelta(heard, p) = NameHeard(heard, i) /\ NameHeard(heard, i) \in Hearing
    <3>1. PICK a \in Fragments : a = "begin"
      BY DEF Fragments
    <3>2. QED
      BY <1>1, DeltaHeard
  <2> HIDE DEF p, out
  <2>8. QED
    BY <1>1, <2>3, <2>4, <2>5, <2>6, <2>7 DEF Told
<1>6. CASE e.type = "args"
  <2>1. PICK i \in Index : i = e.index
    BY <1>2, <1>6
  <2>2. PICK a \in Fragments : a = e.what
    BY <1>2, <1>6
  <2>3. HearEvent(heard, e) = ArgsHeard(heard, i, a)
    BY <1>6, <2>1, <2>2 DEF HearEvent, ArgsHeard
  <2>4. ArgsHeard(heard, i, a) \in Hearing
    BY <1>1, DeltaHeard
  <2>5. CASE JoinsPending(acc, e)
    <3>1. PICK out, p : out = acc.out /\ p = acc.pending
      OBVIOUS
    <3>2. /\ p # NoLegacy /\ p.index = i /\ p \in LegacyEvent
          /\ p.type = "tool" /\ p.name /\ p.args = "none"
          /\ HearDelta(HeardIn(out), p) = heard
          /\ out \in Seq(LegacyEvent) /\ HeardIn(out) \in Hearing
          /\ acc = [out |-> out, pending |-> p]
      BY <2>1, <2>5, <3>1 DEF JoinsPending, Told
    <3>3. PICK id \in BOOLEAN : id = (p.id \/ e.id)
      BY <1>2, <1>6, <3>2 DEF LegacyEvent
    <3> DEFINE q == NameDelta(i, id, a)
    <3>4. p = NameDelta(i, p.id, "none")
      BY <3>2 DEF LegacyEvent, Legacy, NameDelta
    <3>5. q \in LegacyEvent /\ q # NoLegacy
      BY DEF LegacyEvent, Legacy, NoLegacy, NameDelta
    <3>6. LegacyStep(acc, e) = [out |-> Append(out, q), pending |-> NoLegacy]
      <4>1. Legacy("tool", e.index, acc.pending.id \/ e.id, TRUE, e.what) = q
        BY <2>1, <2>2, <3>1, <3>3 DEF NameDelta
      <4>2. LegacyStep(acc, e)
              = Flush([acc EXCEPT !.pending = Legacy("tool", e.index, @.id \/ e.id,
                                                     TRUE, e.what)])
        BY <1>6, <2>5 DEF LegacyStep
      <4>3. [acc EXCEPT !.pending = Legacy("tool", e.index, @.id \/ e.id, TRUE, e.what)]
              = [out |-> out, pending |-> q]
        <5> HIDE DEF q
        <5>1. [acc EXCEPT !.pending = Legacy("tool", e.index, @.id \/ e.id, TRUE, e.what)]
                = [acc EXCEPT !.pending = q]
          BY <4>1
        <5>2. [acc EXCEPT !.pending = q] = [out |-> out, pending |-> q]
          BY <3>2
        <5>3. QED
          BY <5>1, <5>2
      <4> HIDE DEF q
      <4>4. QED
        BY <3>5, <4>2, <4>3 DEF Flush
    <3>7. HearDelta(HeardIn(out), q) = ArgsHeard(heard, i, a)
      <4>1. heard = NameHeard(HeardIn(out), i)
        BY <3>2, <3>4, DeltaHeard
      <4>2. HearDelta(HeardIn(out), q) = ArgsHeard(NameHeard(HeardIn(out), i), i, a)
        BY <3>2, DeltaHeard
      <4>3. QED
        BY <4>1, <4>2
    <3> HIDE DEF q
    <3>8. HeardIn(Append(out, q)) = HearDelta(HeardIn(out), q)
      BY <3>2, <3>5, OneMoreHeard
    <3>9. Append(out, q) \in Seq(LegacyEvent)
      BY <3>2, <3>5
    <3>10. QED
      BY <2>3, <2>4, <3>6, <3>7, <3>8, <3>9 DEF Told
  <2>6. CASE ~JoinsPending(acc, e)
    <3>1. PICK id \in BOOLEAN : id = e.id
      BY <1>2, <1>6
    <3> DEFINE d == ArgsDelta(i, id, a)
    <3>2. LegacyStep(acc, e) = Emit(acc, d)
      BY <1>6, <2>1, <2>2, <2>6, <3>1 DEF LegacyStep, ArgsDelta
    <3>3. d \in LegacyEvent
      BY DEF LegacyEvent, Legacy, ArgsDelta
    <3>4. HearDelta(heard, d) = ArgsHeard(heard, i, a)
      BY <1>1, DeltaHeard
    <3> HIDE DEF d
    <3>5. QED
      BY <2>3, <2>4, <3>2, <3>3, <3>4, EmitTells
  <2>7. QED
    BY <2>5, <2>6
<1>7. CASE e.type \notin {"text", "reasoning", "name", "args"}
  BY <1>7 DEF LegacyStep, HearEvent
<1>8. QED
  BY <1>4, <1>5, <1>6, <1>7

(* The deltas of some events tell what the events do. *)
LEMMA DeltasTell ==
  ASSUME NEW s, Len(s) \in Nat, \A k \in 1..Len(s) : Yielded(s[k])
  PROVE  HeardIn(LegacyDeltas(s)) = Fold(HearEvent, Silence, s)
<1> DEFINE n == Len(s)
<1>1. PICK hear : hear = "hear"
  OBVIOUS
<1>2. PICK make : make = "legacy"
  OBVIOUS
<1>3. PICK h : Folds(h, hear, Silence, s) /\ Fold(HearEvent, Silence, s) = h[n]
  BY <1>1, EventsAreHeard
<1>4. PICK g : Folds(g, make, Unsaid, s) /\ LegacyDeltas(s) = Flush(g[n]).out
  BY <1>2, DeltasAreMade
<1> DEFINE S == {k \in Nat : k <= n => Told(g[k], h[k])}
<1>5. 0 \in S
  <2>1. g[0] = Unsaid /\ h[0] = Silence
    <3>1. 0 \in 0..n
      OBVIOUS
    <3>2. QED
      BY <1>3, <1>4, <3>1 DEF Folds
  <2>2. Silence \in Hearing
    <3>1. <<>> \in Seq(Fragments)
      OBVIOUS
    <3>2. QED
      BY <3>1 DEF Silence, Hearing
  <2>3. <<>> \in Seq(LegacyEvent)
    OBVIOUS
  <2>4. Told(Unsaid, Silence)
    BY <2>2, <2>3, NoneHeard DEF Told, Unsaid
  <2>5. QED
    BY <2>1, <2>4
<1>6. ASSUME NEW k \in Nat, k \in S
      PROVE  k + 1 \in S
  <2>1. CASE k + 1 <= n
    <3>1. Told(g[k], h[k]) /\ k + 1 \in 0..n /\ k + 1 \in 1..n /\ (k + 1) - 1 = k
      BY <1>6, <2>1
    <3>2. g[k + 1] = StepOf(make, g[k], s[k + 1]) /\ h[k + 1] = StepOf(hear, h[k], s[k + 1])
      <4> DEFINE l == k + 1
      <4>1. l \in 0..n /\ l # 0 /\ l - 1 = k
        BY <3>1
      <4> HIDE DEF l
      <4>2. /\ g[l] = StepOf(make, g[l - 1], s[l])
            /\ h[l] = StepOf(hear, h[l - 1], s[l])
        BY <1>3, <1>4, <4>1 DEF Folds
      <4>3. QED
        BY <4>1, <4>2 DEF l
    <3>3. /\ \A x, e : StepOf(make, x, e) = LegacyStep(x, e)
          /\ \A x, e : StepOf(hear, x, e) = HearEvent(x, e)
      BY <1>1, <1>2 DEF StepOf
    <3>4. g[k + 1] = LegacyStep(g[k], s[k + 1]) /\ h[k + 1] = HearEvent(h[k], s[k + 1])
      BY <3>2, <3>3
    <3>5. Yielded(s[k + 1])
      BY <3>1
    <3>6. Told(g[k + 1], h[k + 1])
      BY <3>1, <3>4, <3>5, StepTells
    <3>7. QED
      BY <3>6
  <2>2. QED
    BY <2>1
<1>7. Told(g[n], h[n])
  <2> HIDE DEF S
  <2>1. n \in S
    BY <1>5, <1>6, NatSet
  <2>2. QED
    BY <2>1 DEF S
<1>8. QED
  BY <1>3, <1>4, <1>7, FlushTells

(* Events whose deltas tell what they do. *)
Telling(s) == Len(s) \in Nat /\ \A k \in 1..Len(s) : Yielded(s[k])

(* No events are, and one event of a session is. *)
LEMMA FewTell ==
  /\ Telling(<<>>)
  /\ \A e : Yielded(e) => Telling(<<e>>)
BY DEF Telling

(* The events a session yields, one by one. *)
LEMMA EventsYielded ==
  ASSUME NEW i \in Index
  PROVE  /\ Yielded(TextDelta(i)) /\ Yielded(ReasoningDelta(i))
         /\ Yielded(ToolCallStart(i))
         /\ \A a : Yielded(ToolCallEnd(i, a))
         /\ \A a \in Fragments : Yielded(Event("args", i, TRUE, a))
         /\ \A u : Yielded(UsageUpdate(u))
         /\ \A s, c, u : Yielded(TurnDone(s, c, u))
<1>1. /\ Yielded(TextDelta(i)) /\ Yielded(ReasoningDelta(i))
      /\ Yielded(ToolCallStart(i))
  BY DEF Yielded, DeltaEvents, TextDelta, ReasoningDelta, ToolCallStart, Event
<1>2. \A a : Yielded(ToolCallEnd(i, a))
  BY DEF Yielded, ToolCallEnd, Event
<1>3. \A a \in Fragments : Yielded(Event("args", i, TRUE, a))
  BY DEF Yielded, DeltaEvents, Event
<1>4. \A u : Yielded(UsageUpdate(u))
  BY DEF Yielded, UsageUpdate
<1>5. \A s, c, u : Yielded(TurnDone(s, c, u))
  BY DEF Yielded, TurnDone
<1>6. QED
  BY <1>1, <1>2, <1>3, <1>4, <1>5

(* So do the ends of a turn and what completes it. *)
LEMMA EndsTell ==
  ASSUME NEW ends, ends \in Seq({ends[k] : k \in 1..Len(ends)}),
         \A k \in 1..Len(ends) : ends[k].type = "end",
         NEW e, e.type = "turn_done"
  PROVE  Telling(Append(ends, e))
<1> DEFINE F == {ends[k] : k \in 1..Len(ends)}
<1>1. ends \in Seq(F \cup {e})
  <2> HIDE DEF F
  <2>1. ends \in Seq(F) /\ F \subseteq F \cup {e}
    BY DEF F
  <2>2. QED
    BY <2>1
<1> HIDE DEF F
<1>2. PICK G : G = F \cup {e}
  OBVIOUS
<1>3. /\ Len(Append(ends, e)) = Len(ends) + 1 /\ Len(ends) \in Nat
      /\ Append(ends, e)[Len(ends) + 1] = e
      /\ \A k \in 1..Len(ends) : Append(ends, e)[k] = ends[k]
  BY <1>1
<1>4. QED
  BY <1>3 DEF Telling, Yielded

(* The chunks of an Anthropic block tell. *)
LEMMA BlockTells ==
  ASSUME NEW i \in Index, AnthropicBlock(i)
  PROVE  Telling(batch')
<1>1. CASE \E kind \in Anthropic!Kinds, signature \in BOOLEAN :
             BlockStart(i, kind, signature)
  <2>1. batch' \in {<<>>, <<ToolCallStart(i)>>}
    BY <1>1, AnthropicEvents DEF BlockStart, Anthropic!BlockStart, Anthropic!Yields
  <2>2. QED
    BY <2>1, FewTell, EventsYielded
<1>2. CASE TextSent(i)
  <2>1. batch' \in {<<TextDelta(i)>>, <<ReasoningDelta(i)>>}
    BY <1>2, AnthropicEvents DEF TextSent, Anthropic!TextArrives, Anthropic!Yields
  <2>2. QED
    BY <2>1, FewTell, EventsYielded
<1>3. CASE SignatureSent(i)
  <2>1. batch' = <<>>
    BY <1>3 DEF SignatureSent, Anthropic!SignatureArrives, Anthropic!Yields
  <2>2. QED
    BY <2>1, FewTell
<1>4. CASE \E fragment \in Fragments : ArgumentsSent(i, fragment)
  <2>1. PICK fragment \in Fragments : ArgumentsSent(i, fragment)
    BY <1>4
  <2>2. batch' = <<Event("args", i, TRUE, fragment)>>
    BY <2>1, AnthropicEvents DEF ArgumentsSent, Anthropic!ArgumentsArrive,
       Anthropic!Yields
  <2>3. QED
    BY <2>2, FewTell, EventsYielded
<1>5. CASE BlockStop(i)
  <2>1. batch' \in {<<>>, <<ToolCallEnd(i, session.args[i])>>}
    BY <1>5, AnthropicEvents DEF BlockStop, Anthropic!BlockStop, Anthropic!Yields
  <2>2. QED
    BY <2>1, FewTell, EventsYielded
<1>6. QED
  BY <1>1, <1>2, <1>3, <1>4, <1>5 DEF AnthropicBlock

(* So does a report. *)
LEMMA ReportTells ==
  ASSUME AnthropicReport
  PROVE  Telling(batch')
<1>1. PICK report, stop : Anthropic!Report(report, stop)
  BY DEF AnthropicReport, MessageStart, MessageDelta
<1>2. PICK u : batch' \in {<<>>, <<UsageUpdate(u)>>}
  BY <1>1, AnthropicEvents DEF Anthropic!Report, Anthropic!Yields
<1>3. 0 \in Index
  BY IndexAssumption
<1>4. QED
  BY <1>2, <1>3, FewTell, EventsYielded

(* So does the end of an Anthropic message. *)
LEMMA MessageTells ==
  ASSUME Anthropic!MessageStop
  PROVE  Telling(batch')
<1>1. PICK s, c, u : batch' \in {<<>>, <<TurnDone(s, c, u)>>}
  BY AnthropicEvents DEF Anthropic!MessageStop, Anthropic!Nothing, Anthropic!Complete,
     Anthropic!Yields
<1>2. 0 \in Index
  BY IndexAssumption
<1>3. QED
  BY <1>1, <1>2, FewTell, EventsYielded

(* So does what is recovered of an Anthropic stream that breaks. *)
LEMMA RecoveredTells ==
  ASSUME StreamInv, provider = "anthropic", stream = "reading",
         Anthropic!FinalizeOnError
  PROVE  Telling(batch')
<1>1. CASE session.done \/ Anthropic!PartialBlocks = {}
  BY <1>1, FewTell DEF Anthropic!FinalizeOnError, Anthropic!Nothing, Anthropic!Yields
<1>2. CASE ~(session.done \/ Anthropic!PartialBlocks = {})
  <2>1. PICK e : /\ batch' = Append(Anthropic!PartialEvents, e)
                 /\ e = TurnDone("error", Anthropic!PartialBlocks, session.usage)
    BY <1>2, AnthropicEvents DEF Anthropic!FinalizeOnError, Anthropic!Yields
  <2>2. e.type = "turn_done"
    BY <2>1 DEF TurnDone
  <2>3. turn = NoTurn
    BY <1>2 DEF StreamInv, AnthropicInv, AnthropicTurn
  <2>4. PICK ends : ends = Anthropic!PartialEvents
    OBVIOUS
  <2>5. /\ ends \in Seq({ends[k] : k \in 1..Len(ends)})
        /\ \A k \in 1..Len(ends) : ends[k].type = "end"
    BY <2>3, <2>4, PartialEventsAre
  <2>6. QED
    BY <2>1, <2>2, <2>4, <2>5, EndsTell
<1>3. QED
  BY <1>1, <1>2

(* So does an OpenAI turn that completes. *)
LEMMA CompleteTells ==
  ASSUME StreamInv, provider = "openai", stream = "reading",
         OpenAI!Finalize \/ OpenAI!FinalizeOnError
  PROVE  Telling(batch')
<1>1. CASE OpenAI!Nothing
  BY <1>1, FewTell DEF OpenAI!Nothing
<1>2. CASE \E stop : OpenAI!Complete(stop)
  <2>1. PICK stop : OpenAI!Complete(stop)
    BY <1>2
  <2>2. PICK e : /\ batch' = Append(OpenAI!Ends, e)
                 /\ e = TurnDone(stop, OpenAI!Content, session.usage)
    BY <2>1, OpenAIEvents DEF OpenAI!Complete
  <2>3. e.type = "turn_done"
    BY <2>2 DEF TurnDone
  <2>4. PICK ends : ends = OpenAI!Ends
    OBVIOUS
  <2>5. /\ ends \in Seq({ends[k] : k \in 1..Len(ends)})
        /\ \A k \in 1..Len(ends) : ends[k].type = "end"
    BY <2>4, OpenAIEndsAre
  <2>6. QED
    BY <2>2, <2>3, <2>4, <2>5, EndsTell
<1>3. QED
  BY <1>1, <1>2 DEF OpenAI!Finalize, OpenAI!FinalizeOnError

(* What a session yields is told by its deltas, in every step. *)
LEMMA StepYields ==
  ASSUME StreamInv, Telling(batch), [Next]_vars
  PROVE  Telling(batch')
<1>1. CASE OpenAIChunk
  <2>1. batch' \in Seq(ChunkEvents)
    BY <1>1, OpenAISendsKeeps DEF OpenAIChunk
  <2>2. \A e \in ChunkEvents : Yielded(e)
    BY DEF ChunkEvents, Yielded, UsageUpdate
  <2>3. Len(batch') \in Nat /\ \A k \in 1..Len(batch') : batch'[k] \in ChunkEvents
    BY <2>1
  <2>4. QED
    BY <2>2, <2>3 DEF Telling
<1>2. CASE AnthropicReport
  BY <1>2, ReportTells
<1>3. CASE \E i \in Index : AnthropicBlock(i)
  BY <1>3, BlockTells
<1>4. CASE MessageStop
  BY <1>4, MessageTells DEF MessageStop
<1>5. provider \in {"openai", "anthropic"}
  BY Provider DEF StreamInv
<1>6. CASE StreamEnds
  BY <1>5, <1>6, CompleteTells, MessageTells DEF StreamEnds, Anthropic!Finalize
<1>7. CASE StreamBreaks
  BY <1>5, <1>7, CompleteTells, RecoveredTells DEF StreamBreaks
<1>8. CASE Abandoned \/ UNCHANGED vars
  <2>1. batch' = batch
    BY <1>8 DEF Abandoned, vars
  <2>2. QED
    BY <2>1 DEF Telling
<1>9. QED
  BY <1>1, <1>2, <1>3, <1>4, <1>6, <1>7, <1>8 DEF Next

(* A piece of text or reasoning in the content of a turn is what was shown. *)
LEMMA PiecesOfTurn ==
  ASSUME StreamInv, turn # NoTurn, NEW b \in turn.content, b.size > 0
  PROVE  /\ b.kind = "text" => b.index \in Index /\ b.size = seen.text[b.index]
         /\ b.kind = "reasoning" =>
              b.index \in Index /\ b.size = seen.reasoning[b.index]
<1>1. /\ \A i, n : TextBlock(i, n).size = n
      /\ \A i, n, s : ReasoningBlock(i, n, s).size = n
  BY DEF TextBlock, ReasoningBlock, Block
<1>2. CASE provider = "openai"
  <2>1. OpenAITurn /\ \A i \in Index : OpenAIShown(i)
    BY <1>2 DEF StreamInv, OpenAIInv
  <2>2. b \in OpenAI!Content
    BY <2>1 DEF OpenAITurn
  <2>3. 0 \in Index /\ seen.text[0] = session.text /\ seen.reasoning[0] = session.reasoning
    BY <2>1, IndexAssumption DEF OpenAIShown
  <2>4. QED
    <3>1. ASSUME b.kind = "text"
          PROVE  b.index = 0 /\ b.size = session.text
      <4>1. b = TextBlock(0, session.text)
        BY <2>2, <3>1, OpenAIContentKinds
      <4>2. QED
        BY <4>1 DEF TextBlock, Block
    <3>2. ASSUME b.kind = "reasoning"
          PROVE  b.index = 0 /\ b.size = session.reasoning
      <4>1. b = ReasoningBlock(0, session.reasoning, FALSE)
        BY <2>2, <3>2, OpenAIContentKinds
      <4>2. QED
        BY <4>1 DEF ReasoningBlock, Block
    <3>3. QED
      BY <2>3, <3>1, <3>2
<1>3. CASE provider = "anthropic"
  <2>1. AnthropicTurn /\ \A i \in Index : AnthropicShown(i)
    BY <1>3 DEF StreamInv, AnthropicInv
  <2>2. PICK i \in Closed : b = Anthropic!BlockOf(i)
    BY <2>1, AnthropicContent
  <2>3. i \in Index /\ session.kinds[i] \in Anthropic!Kinds
    BY <1>3, <2>2, ClosedIs, Types DEF StreamInv, Anthropic!Session
  <2>4. CASE session.kinds[i] = "text"
    <3>1. b = TextBlock(i, seen.text[i])
      BY <2>1, <2>2, <2>3, <2>4, AnthropicBlockOf DEF AnthropicShown
    <3>2. QED
      BY <1>1, <2>3, <3>1, BlockFields
  <2>5. CASE session.kinds[i] = "thinking"
    <3>1. b = ReasoningBlock(i, seen.reasoning[i], session.signed[i])
      BY <2>1, <2>2, <2>3, <2>5, AnthropicBlockOf DEF AnthropicShown
    <3>2. QED
      BY <1>1, <2>3, <3>1, BlockFields
  <2>6. CASE session.kinds[i] = "redacted_thinking"
    <3>1. b = ReasoningBlock(i, 0, TRUE)
      BY <2>2, <2>6, AnthropicBlockOf
    <3>2. b.size = 0
      BY <3>1 DEF ReasoningBlock, Block
    <3>3. QED
      BY <3>2
  <2>7. CASE session.kinds[i] = "tool_use"
    <3>1. b.kind \in {"tool_use", "invalid"}
      BY <2>2, <2>7, AnthropicBlockIndex
    <3>2. QED
      BY <3>1
  <2>8. QED
    BY <2>3, <2>4, <2>5, <2>6, <2>7 DEF Anthropic!Kinds
<1>4. QED
  BY <1>2, <1>3, Provider DEF StreamInv

(* What a legacy consumer is given at the end is what it was shown. *)
LEMMA EndRepeats ==
  StreamInv => EndRepeatsDeltas
<1> SUFFICES ASSUME StreamInv, turn # NoTurn, sent.open = {} \/ turn.stop = "error"
             PROVE  EndRepeatsDeltas
  BY DEF EndRepeatsDeltas
<1> DEFINE end == TerminalEvents(turn.content)
<1>1. ContentIsWhatWasStreamed
  BY StreamedIs
<1>2. seen.text \in [Index -> Nat] /\ seen.reasoning \in [Index -> Nat]
  BY Types DEF StreamInv, Knowledge
<1>3. /\ end.text = Joined(turn.content, "text")
      /\ end.reasoning = Joined(turn.content, "reasoning")
      /\ end.calls = {LegacyCall(b) :
                        b \in {c \in turn.content : c.kind \in {"tool_use", "invalid"}}}
  BY DEF TerminalEvents
<1>4. end.text = Shown(seen.text)
  <2>1. ASSUME NEW b \in turn.content, b.kind = "text", b.size > 0
        PROVE  b.index \in Index /\ b.size = seen.text[b.index]
    BY <2>1, PiecesOfTurn
  <2>2. ASSUME NEW i \in Index, seen.text[i] > 0
        PROVE  \E b \in turn.content : /\ b.kind = "text" /\ b.size > 0
                                       /\ b.index = i /\ b.size = seen.text[i]
    <3>1. BlocksOf(i, {"text"}) = {TextBlock(i, seen.text[i])}
      BY <1>1, <2>2 DEF ContentIsWhatWasStreamed
    <3>2. TextBlock(i, seen.text[i]) \in BlocksOf(i, {"text"})
      BY <3>1
    <3>3. PICK b : b = TextBlock(i, seen.text[i])
      OBVIOUS
    <3>4. b \in turn.content /\ b.kind = "text" /\ b.index = i /\ b.size = seen.text[i]
      BY <3>2, <3>3 DEF BlocksOf, TextBlock, Block
    <3>5. QED
      BY <2>2, <3>4
  <2>3. QED
    BY <1>3, <2>1, <2>2 DEF Joined, Shown
<1>5. end.reasoning = Shown(seen.reasoning)
  <2>1. ASSUME NEW b \in turn.content, b.kind = "reasoning", b.size > 0
        PROVE  b.index \in Index /\ b.size = seen.reasoning[b.index]
    BY <2>1, PiecesOfTurn
  <2>2. ASSUME NEW i \in Index, seen.reasoning[i] > 0
        PROVE  \E b \in turn.content : /\ b.kind = "reasoning" /\ b.size > 0
                                       /\ b.index = i /\ b.size = seen.reasoning[i]
    <3>1. PICK signed : BlocksOf(i, {"reasoning"})
                          = {ReasoningBlock(i, seen.reasoning[i], signed)}
      BY <1>1, <2>2 DEF ContentIsWhatWasStreamed
    <3>2. ReasoningBlock(i, seen.reasoning[i], signed) \in BlocksOf(i, {"reasoning"})
      BY <3>1
    <3>3. PICK b : b = ReasoningBlock(i, seen.reasoning[i], signed)
      OBVIOUS
    <3>4. /\ b \in turn.content /\ b.kind = "reasoning" /\ b.index = i
          /\ b.size = seen.reasoning[i]
      BY <3>2, <3>3 DEF BlocksOf, ReasoningBlock, Block
    <3>5. QED
      BY <2>2, <3>4
  <2>3. QED
    BY <1>3, <2>1, <2>2 DEF Joined, Shown
<1>6. ASSUME NEW i
      PROVE  LET c == LegacyCall(CallSent(i)) IN
             /\ c.index = i /\ (c.error <=> ~Executable(sent.args[i]))
             /\ (~c.error => c.input = sent.args[i])
  BY DEF LegacyCall, CallSent, CallBlock, Block
<1>7. ASSUME NEW c \in end.calls
      PROVE  \E i \in Index : ClosedCall(i) /\ c = LegacyCall(CallSent(i))
  <2>1. PICK b \in turn.content : b.kind \in {"tool_use", "invalid"} /\ c = LegacyCall(b)
    BY <1>3
  <2>2. QED
    BY <2>1, CallsOfTurn
<1>8. ASSUME NEW i \in Index, ClosedCall(i)
      PROVE  LegacyCall(CallSent(i)) \in end.calls
  <2>1. CallSent(i) \in turn.content
    BY <1>8, CallsOfTurn
  <2>2. QED
    BY <1>3, <2>1, CallSentFields
<1> HIDE DEF end
<1>9. {c.index : c \in end.calls} = {i \in Index : seen.calls[i] # "absent"}
  <2>1. ASSUME NEW c \in end.calls
        PROVE  c.index \in Index /\ seen.calls[c.index] # "absent"
    BY <1>6, <1>7 DEF ClosedCall
  <2>2. ASSUME NEW i \in Index, seen.calls[i] # "absent"
        PROVE  \E c \in end.calls : c.index = i
    <3>1. ClosedCall(i)
      BY <2>2, AnnouncedEnds
    <3>2. QED
      BY <1>6, <1>8, <3>1
  <2>3. QED
    BY <2>1, <2>2
<1>10. ASSUME NEW c \in end.calls
       PROVE  /\ c.error <=> seen.calls[c.index] = "invalid"
              /\ ~c.error => c.input = sent.args[c.index]
  <2>1. PICK i \in Index : ClosedCall(i) /\ c = LegacyCall(CallSent(i))
    BY <1>7
  <2>2. seen.calls[i] = EndOf(sent.args[i])
    BY <2>1, CallsOfTurn
  <2>3. /\ c.index = i /\ (c.error <=> ~Executable(sent.args[i]))
        /\ (~c.error => c.input = sent.args[i])
    BY <1>6, <2>1
  <2>4. QED
    BY <2>2, <2>3 DEF EndOf
<1>11. QED
  BY <1>4, <1>5, <1>9, <1>10 DEF EndRepeatsDeltas, end

(* A consumer of the legacy interface (standard_events_to_legacy_deltas and *)
(* terminal_events_from_turn_done) is told each text, name and argument     *)
(* fragment once, in order and under its call, whatever else the chunk has; *)
(* and what it is given at the end repeats what it was shown, unless a      *)
(* stream that closes without an error has left blocks open.                *)
THEOREM LegacySeesIt ==
  Spec => []LegacySeesTheTurn
<1>1. Init => Telling(batch)
  BY FewTell DEF Init
<1>2. StreamInv /\ Telling(batch) /\ [Next]_vars => Telling(batch)'
  <2>1. Telling(batch)' <=> Telling(batch')
    BY DEF Telling
  <2>2. QED
    BY <2>1, StepYields
<1>3. StreamInv /\ Telling(batch) => LegacySeesTheTurn
  BY DeltasTell, EndRepeats DEF Telling, FragmentsKept, HeardIn, LegacySeesTheTurn
<1>4. QED
  BY <1>1, <1>2, <1>3, StreamInvariant, PTL DEF Spec
=============================================================================
