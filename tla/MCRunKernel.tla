----------------------------- MODULE MCRunKernel -----------------------------
(***************************************************************************)
(* Instances of RunKernel for TLC: an ordinary tool "a", a pause tool "p"  *)
(* and a tool "r" the turn refuses.                                        *)
(***************************************************************************)
EXTENDS RunKernel

C(id, sig) == [id |-> id, sig |-> sig]

(* Bounded by its repeats alone.                                           *)
RepeatsOnly(l) == l.maxTurns = 0 /\ l.maxCalls = 0

(* All contents of up to two calls, with or without a shared id (the first *)
(* id is fixed: ids are interchangeable).  A refused call never reaches the *)
(* repeat guard: where nothing else bounds the run there is none.           *)
ShortContents(l) ==
  LET sigs == IF RepeatsOnly(l) THEN Sigs \ Refused ELSE Sigs IN
  {<<>>} \cup {<<C("i1", s)>> : s \in sigs}
    \cup {<<C("i1", s), C(i, t)>> : s \in sigs, t \in sigs, i \in Ids}

(* Contents of three calls of two ordinary tools.                           *)
LongContents(l) ==
  {<<C("i1", s), C("i2", t), C("i3", u)>> : s, t, u \in {"a", "b"}}

Limit(turns, maxcalls, timeout, repeat) ==
  [maxTurns |-> turns, maxCalls |-> maxcalls, timeout |-> timeout,
   repeat |-> repeat]

NoRepeat == [s \in Sigs |-> 0]
Repeat(n) == [s \in Sigs |-> n]

(* Each limit alone and with others; three turns at most when only turns or *)
(* time are limited.                                                       *)
MixedLimits ==
  {Limit(3, 0, TRUE, NoRepeat), Limit(2, 0, FALSE, NoRepeat),
   Limit(3, 2, FALSE, NoRepeat), Limit(0, 3, FALSE, NoRepeat),
   Limit(0, 3, TRUE, Repeat(2)), Limit(3, 0, FALSE, Repeat(2)),
   Limit(3, 2, FALSE, Repeat(3)), Limit(1, 1, FALSE, Repeat(1)),
   Limit(0, 0, FALSE, Repeat(3))}

(* Repeats blocked at the second call, no other limit reached.              *)
RepeatLimits == {Limit(2, 0, FALSE, Repeat(2))}
BudgetLimits == {Limit(2, 2, FALSE, NoRepeat)}

=============================================================================
