--------------------------- MODULE RunKernelProofs ---------------------------
(***************************************************************************)
(* Proofs about RunKernel for every set of signatures, contents and limits. *)
(***************************************************************************)
EXTENDS RunKernel, FiniteSetTheorems, TLAPS

(* Appending to the log keeps it a log.                                     *)
LEMMA AppendEventType ==
  ASSUME NEW s \in Seq(Event), NEW e \in Event
  PROVE  AppendEvent(s, e) \in Seq(Event)
BY DEF AppendEvent

LEMMA EvtType ==
  ASSUME NEW type \in EventTypes, NEW id \in Ids \cup {TurnId},
         NEW info \in Errors \cup StopReasons
  PROVE  Evt(type, id, info) \in Event
BY DEF Evt, Event

(* The number of executed results of a turn lies between 0 and their number. *)
LEMMA ExecutedBound ==
  ASSUME TypeOK
  PROVE  Executed \in 0..Len(results)
<1> DEFINE E == {i \in 1..Len(results) : results[i].executed}
<1>1. Len(results) \in Nat
  BY DEF TypeOK
<1>2. IsFiniteSet(1..Len(results)) /\ Cardinality(1..Len(results)) = Len(results)
  BY <1>1, FS_Interval
<1>3. IsFiniteSet(E) /\ Cardinality(E) <= Cardinality(1..Len(results))
  BY <1>2, FS_Subset
<1>4. Cardinality(E) \in Nat
  BY <1>3, FS_CardinalityType
<1> QED
  BY <1>1, <1>2, <1>3, <1>4 DEF Executed

-----------------------------------------------------------------------------
(* The inductive invariant, by parts.                                      *)

InTurn == {"opened", "streaming", "tools", "invoking"}

(* A turn has no more results than calls, and a call under way has none.    *)
Progress ==
  /\ pc \in {"opened", "streaming"} => results = <<>>
  /\ Len(results) <= Len(calls) \/ pc \in {"opened", "streaming"}
  /\ pc = "invoking" => Len(results) < Len(calls)

(* The guard's counter dominates the executor's entries, and is dominated   *)
(* by the calls requested so far; at the loop the latter alone does it.     *)
Budget ==
  /\ limits.maxCalls # 0 => entered <= limits.maxCalls
  /\ pc = "loop" => entered <= counts.requested
  /\ pc \in InTurn =>
       /\ entered <= seen
       /\ limits.maxCalls # 0 => seen <= limits.maxCalls
       /\ seen <= counts.requested + Len(results)
                    + (IF pc = "invoking" THEN 1 ELSE 0)

(* Every invocation under a threshold is recorded, below the threshold.     *)
Repeats ==
  \A s \in Sigs : limits.repeat[s] # 0 =>
    invoked[s] <= signatures[s] /\ signatures[s] < limits.repeat[s]

(* What the results of the turn say about its flags and counters.           *)
Denials ==
  /\ cancelled => token
  /\ pc = "invoking" => ~pause /\ ~cancelled
  /\ pc = "loop" => ~pause /\ ~cancelled /\ ~RepeatedDenial
  /\ \A i \in 1..Len(results) :
       /\ results[i].error = "cancelled" => cancelled
       /\ results[i].error = "tool_skipped_after_pause" => pause
       /\ results[i].error = "none" /\ calls[i].sig \in PauseSigs => pause
       /\ results[i].error = "max_tool_calls" =>
            /\ limits.maxCalls # 0
            /\ pc \in InTurn => seen >= limits.maxCalls
            /\ pc = "loop" => counts.requested >= limits.maxCalls

IInv == TypeOK /\ Progress /\ Budget /\ Repeats /\ Denials /\ NothingRunsBehindStop

-----------------------------------------------------------------------------
(* What one step of the tool loop does to the turn.                         *)

LEMMA CurrentType ==
  ASSUME TypeOK, Len(results) < Len(calls)
  PROVE  Current \in Call /\ Current.id \in Ids /\ Current.sig \in Sigs
<1>1. calls \in Seq(Call) /\ Len(results) \in Nat
  BY DEF TypeOK
<1>2. Len(results) + 1 \in 1..Len(calls)
  BY <1>1
<1>3. Current \in Call
  BY <1>1, <1>2 DEF Current
<1> QED
  BY <1>3 DEF Call

LEMMA StartedType ==
  ASSUME TypeOK, Len(results) < Len(calls)
  PROVE  Started(Current) \in Seq(Event)
<1>1. Evt("tool_started", Current.id, "none") \in Event
  BY CurrentType, EvtType DEF EventTypes, Errors
<1> QED
  BY <1>1, AppendEventType DEF Started, TypeOK

LEMMA EndedType ==
  ASSUME TypeOK, Len(results) < Len(calls),
         NEW s \in Seq(Event), NEW error \in Errors
  PROVE  Ended(s, Current, error) \in Seq(Event)
<1>1. Evt("tool_ended", Current.id, error) \in Event
  BY CurrentType, EvtType DEF EventTypes, Errors
<1> QED
  BY <1>1, AppendEventType DEF Ended

(* A tool that ends adds one result with its error, or the run raises.      *)
FinishEffect(error, executed) ==
  \/ /\ pc' = "tools"
     /\ results' = Append(results, [id |-> Current.id, error |-> error,
                                    executed |-> executed])
     /\ pause' = (pause \/ (error = "none" /\ Current.sig \in PauseSigs))
     /\ log' \in Seq(Event)
  \/ pc' = "raised" /\ results' = results /\ pause' = pause /\ log' \in Seq(Event)

LEMMA SettleEffect ==
  ASSUME TypeOK, Len(results) < Len(calls), NEW s \in Seq(Event),
         NEW error \in Errors, NEW executed \in BOOLEAN,
         Settle(s, error, executed)
  PROVE  FinishEffect(error, executed) /\ pc' = "tools"
<1>1. Ended(s, Current, error) \in Seq(Event)
  BY EndedType
<1>2. Evt("turn_paused", Current.id, "none") \in Event
  BY CurrentType, EvtType DEF EventTypes, Errors
<1>3. AppendEvent(Ended(s, Current, error), Evt("turn_paused", Current.id, "none"))
        \in Seq(Event)
  BY <1>1, <1>2, AppendEventType
<1> QED
  BY <1>1, <1>3 DEF Settle, FinishEffect

LEMMA FinishToolEffect ==
  ASSUME TypeOK, Len(results) < Len(calls), NEW s \in Seq(Event),
         NEW error \in Errors, NEW executed \in BOOLEAN,
         FinishTool(s, error, executed)
  PROVE  FinishEffect(error, executed)
<1>1. CASE Settle(s, error, executed)
  BY <1>1, SettleEffect
<1>2. CASE ObservabilityRaises(s, error)
  BY <1>2, EndedType DEF ObservabilityRaises, FinishEffect
<1> QED
  BY <1>1, <1>2 DEF FinishTool

-----------------------------------------------------------------------------
(* The steps of the tool loop, seen at once: an invocation, or the end of   *)
(* a tool call with what its error says about the state it happened in.     *)

ToolEnds(error, executed) ==
  /\ pc \in {"tools", "invoking"} /\ Len(results) < Len(calls)
  /\ FinishEffect(error, executed)
  /\ UNCHANGED <<runVars, token, expired, done, calls, seen, history>>
  /\ cancelled' = (cancelled \/ error = "cancelled")
  /\ error = "cancelled" => token
  /\ error = "tool_skipped_after_pause" => pause
  /\ error = "max_tool_calls" => MaxReached
  /\ executed => pc = "invoking" \/ (~token /\ ~pause)
  /\ \/ signatures' = signatures
     \/ \E sig \in Sigs : ~RepeatBlocks(sig) /\ RecordSignature(sig)

LEMMA RunToolsEffect ==
  ASSUME TypeOK, Progress, RunTools, ~Invoke
  PROVE  \E error \in Errors, executed \in BOOLEAN : ToolEnds(error, executed)
<1> USE DEF Errors
<1>1. CASE SkipAfterCancellation
  <2>1. pc = "tools" /\ Len(results) < Len(calls)
    BY <1>1 DEF SkipAfterCancellation, ToolsLeft
  <2>2. FinishEffect("cancelled", FALSE)
    BY <1>1, <2>1, SettleEffect, StartedType DEF SkipAfterCancellation
  <2>3. ToolEnds("cancelled", FALSE)
    BY <1>1, <2>1, <2>2 DEF SkipAfterCancellation, ToolEnds, guardVars
  <2> QED
    BY <2>3
<1>2. CASE SkipAfterPause
  <2>1. pc = "tools" /\ Len(results) < Len(calls)
    BY <1>2 DEF SkipAfterPause, ToolsLeft
  <2>2. FinishEffect("tool_skipped_after_pause", FALSE)
    BY <1>2, <2>1, SettleEffect, StartedType DEF SkipAfterPause
  <2>3. ToolEnds("tool_skipped_after_pause", FALSE)
    BY <1>2, <2>1, <2>2 DEF SkipAfterPause, ToolEnds, guardVars, TypeOK
  <2> QED
    BY <2>3
<1>3. CASE Refuse
  <2>1. pc = "tools" /\ Len(results) < Len(calls)
    BY <1>3 DEF Refuse, Runnable, ToolsLeft
  <2>2. FinishEffect("policy", FALSE)
    BY <1>3, <2>1, FinishToolEffect, StartedType DEF Refuse
  <2>3. ToolEnds("policy", FALSE)
    BY <1>3, <2>1, <2>2 DEF Refuse, ToolEnds, guardVars, TypeOK
  <2> QED
    BY <2>3
<1>4. CASE BlockRepeated
  <2>1. pc = "tools" /\ Len(results) < Len(calls) /\ ~token /\ ~pause
    BY <1>4 DEF BlockRepeated, Runnable, ToolsLeft
  <2>2. FinishEffect("repeated_tool_call", TRUE)
    BY <1>4, <2>1, FinishToolEffect, StartedType DEF BlockRepeated
  <2>3. ToolEnds("repeated_tool_call", TRUE)
    BY <1>4, <2>1, <2>2 DEF BlockRepeated, ToolEnds, guardVars, TypeOK
  <2> QED
    BY <2>3
<1>5. CASE BlockOverBudget
  <2>1. pc = "tools" /\ Len(results) < Len(calls) /\ ~token /\ ~pause
    BY <1>5 DEF BlockOverBudget, Runnable, ToolsLeft
  <2>2. FinishEffect("max_tool_calls", TRUE)
    BY <1>5, <2>1, FinishToolEffect, StartedType DEF BlockOverBudget
  <2>3. \E sig \in Sigs : ~RepeatBlocks(sig) /\ RecordSignature(sig)
    BY <1>5, <2>1, CurrentType DEF BlockOverBudget
  <2>4. ToolEnds("max_tool_calls", TRUE)
    BY <1>5, <2>1, <2>2, <2>3 DEF BlockOverBudget, ToolEnds, TypeOK
  <2> QED
    BY <2>4
<1>6. CASE ToolReturns
  <2>1. pc = "invoking" /\ Len(results) < Len(calls)
    BY <1>6 DEF ToolReturns, Progress
  <2>2. PICK error \in {"none", "tool_error"} : FinishTool(log, error, TRUE)
    BY <1>6 DEF ToolReturns
  <2>3. FinishEffect(error, TRUE)
    BY <2>1, <2>2, FinishToolEffect DEF TypeOK
  <2>4. ToolEnds(error, TRUE)
    BY <1>6, <2>1, <2>2, <2>3 DEF ToolReturns, ToolEnds, guardVars, TypeOK
  <2> QED
    BY <2>4
<1> QED
  BY <1>1, <1>2, <1>3, <1>4, <1>5, <1>6 DEF RunTools

-----------------------------------------------------------------------------
(* Type correctness.                                                       *)

LEMMA EmptySeq == ASSUME NEW S PROVE <<>> \in Seq(S) /\ Len(<<>>) = 0
OBVIOUS

LEMMA InitType == Init => TypeOK /\ Progress
<1> SUFFICES ASSUME Init PROVE TypeOK /\ Progress
  OBVIOUS
<1>1. calls \in Seq(Call) /\ results \in Seq(Result) /\ log \in Seq(Event)
  BY EmptySeq DEF Init
<1>2. Len(results) = 0 /\ Len(calls) = 0
  BY EmptySeq DEF Init
<1>3. counts \in [requested : Nat, executed : Nat, denied : Nat]
  BY DEF Init
<1>4. TypeOK
  BY <1>1, <1>3 DEF Init, TypeOK, StopReasons
<1> QED
  BY <1>2, <1>4 DEF Init, Progress

(* The steps that end a tool call keep the types; what they do to the       *)
(* guards and to cancelled is given.                                       *)
LEMMA ToolEndType ==
  ASSUME TypeOK, Len(results) < Len(calls),
         NEW error \in Errors, NEW executed \in BOOLEAN,
         FinishEffect(error, executed),
         cancelled' \in BOOLEAN, signatures' \in [Sigs -> Nat],
         UNCHANGED <<runVars, token, expired, done, calls, seen, history>>
  PROVE  TypeOK' /\ Progress'
<1> USE DEF TypeOK
<1>1. Current.id \in Ids /\ Current.sig \in Sigs
  BY CurrentType
<1>2. CASE pc' = "tools" /\ results' = Append(results, [id |-> Current.id,
                              error |-> error, executed |-> executed])
                         /\ pause' = (pause \/ (error = "none" /\ Current.sig \in PauseSigs))
                         /\ log' \in Seq(Event)
  <2>1. [id |-> Current.id, error |-> error, executed |-> executed] \in Result
    BY <1>1 DEF Result
  <2>2. results' \in Seq(Result) /\ Len(results') = Len(results) + 1
    BY <1>2, <2>1
  <2>3. pause' \in BOOLEAN
    BY <1>2
  <2>4. TypeOK'
    BY <1>2, <2>2, <2>3 DEF runVars, history
  <2>5. Progress'
    BY <1>2, <2>2 DEF Progress
  <2> QED
    BY <2>4, <2>5
<1>3. CASE pc' = "raised" /\ results' = results /\ pause' = pause
           /\ log' \in Seq(Event)
  <2>1. TypeOK'
    BY <1>3 DEF runVars, history
  <2>2. Progress'
    BY <1>3 DEF Progress
  <2> QED
    BY <2>1, <2>2
<1> QED
  BY <1>2, <1>3 DEF FinishEffect

LEMMA RecordSignatureType ==
  ASSUME TypeOK, NEW sig \in Sigs, RecordSignature(sig)
  PROVE  signatures' \in [Sigs -> Nat]
BY DEF TypeOK, RecordSignature

LEMMA CompletedType ==
  ASSUME TypeOK, NEW reason \in StopReasons
  PROVE  Completed(log, reason) \in Seq(Event)
<1>1. Evt("turn_completed", TurnId, reason) \in Event
  BY EvtType DEF EventTypes
<1> QED
  BY <1>1, AppendEventType DEF Completed, TypeOK

LEMMA TurnReasonType ==
  ASSUME TypeOK
  PROVE  TurnReason \in StopReasons
BY DEF TypeOK, TurnReason, StopReasons

LEMMA TypeStep ==
  ASSUME TypeOK, Progress, [Next]_vars
  PROVE  TypeOK' /\ Progress'
<1>1. CASE StopBeforeTurn
  BY <1>1 DEF StopBeforeTurn, TypeOK, Progress, StopReasons, turnVars, guardVars, history
<1>2. CASE StartTurn
  <2>1. Evt("turn_started", TurnId, "none") \in Event
    BY EvtType DEF EventTypes, Errors
  <2>2. log' \in Seq(Event)
    BY <1>2, <2>1 DEF StartTurn
  <2>3. calls' \in Seq(Call) /\ results' \in Seq(Result) /\ done' \in SUBSET Contents(limits')
    BY <1>2, EmptySeq DEF StartTurn
  <2>4. turn' \in Nat /\ seen' \in Nat
    BY <1>2 DEF StartTurn, TypeOK
  <2>5. TypeOK'
    BY <1>2, <2>2, <2>3, <2>4 DEF StartTurn, TypeOK, history
  <2> QED
    BY <1>2, <2>5 DEF StartTurn, Progress
<1>3. CASE OpenStream
  BY <1>3 DEF OpenStream, TypeOK, Progress, turnVars, guardVars, history
<1>4. CASE StreamDone
  BY <1>4 DEF StreamDone, TypeOK, Progress, turnVars, guardVars, history
<1>5. CASE CancelTurn
  <2>1. Completed(log, "cancelled") \in Seq(Event)
    BY CompletedType DEF StopReasons
  <2> QED
    BY <1>5, <2>1 DEF CancelTurn, TypeOK, Progress, guardVars, history, StopReasons
<1>6. CASE StreamEnds
  BY <1>6, RunConstants DEF StreamEnds, TypeOK, Progress, guardVars, history
<1>7. CASE StreamRaises
  BY <1>7 DEF StreamRaises, TypeOK, Progress, turnVars, guardVars, history
<1>8. CASE RunTools /\ ~Invoke
  <2>1. PICK error \in Errors, executed \in BOOLEAN : ToolEnds(error, executed)
    BY <1>8, RunToolsEffect
  <2>2. signatures' \in [Sigs -> Nat]
    BY <2>1, RecordSignatureType DEF ToolEnds, TypeOK
  <2> QED
    BY <2>1, <2>2, ToolEndType DEF ToolEnds, TypeOK
<1>9. CASE Invoke
  <2>1. Len(results) < Len(calls)
    BY <1>9 DEF Invoke, Runnable, ToolsLeft
  <2>2. Current.sig \in Sigs /\ Started(Current) \in Seq(Event)
    BY <2>1, CurrentType, StartedType
  <2>3. signatures' \in [Sigs -> Nat]
    BY <1>9, <2>2, RecordSignatureType DEF Invoke
  <2>4. invoked' \in [Sigs -> Nat]
    BY <1>9, <2>2 DEF Invoke, TypeOK
  <2> QED
    BY <1>9, <2>1, <2>2, <2>3, <2>4 DEF Invoke, TypeOK, Progress, runVars, turnVars
<1>10. CASE FinishTurn
  <2>1. log' \in Seq(Event) /\ TurnReason \in StopReasons
    BY <1>10, CompletedType, TurnReasonType DEF FinishTurn
  <2>2. Executed \in 0..Len(results) /\ Len(results) = Len(calls) /\ Len(calls) \in Nat
    BY <1>10, ExecutedBound DEF FinishTurn, TypeOK
  <2>3. counts' \in [requested : Nat, executed : Nat, denied : Nat]
    BY <1>10, <2>2 DEF FinishTurn, AddCounts, TypeOK
  <2>4. stopReason' \in StopReasons
    BY <1>10, <2>1 DEF FinishTurn, TypeOK, StopReasons
  <2>5. pc' \in {"raised", "loop", "returned"}
    BY <1>10 DEF FinishTurn
  <2> QED
    BY <1>10, <2>1, <2>2, <2>3, <2>4, <2>5
    DEF FinishTurn, TypeOK, Progress, turnVars, guardVars, history
<1>11. CASE SetToken
  BY <1>11 DEF SetToken, TypeOK, Progress, runVars, turnVars, guardVars, history
<1>12. CASE Expire
  BY <1>12 DEF Expire, TypeOK, Progress, runVars, turnVars, guardVars, history
<1>13. CASE TaskCancelled
  BY <1>13 DEF TaskCancelled, TypeOK, Progress, runVars, turnVars, guardVars, history
<1>14. CASE UNCHANGED vars
  BY <1>14 DEF vars, TypeOK, Progress
<1> QED
  BY <1>1, <1>2, <1>3, <1>4, <1>5, <1>6, <1>7, <1>8, <1>9, <1>10, <1>11, <1>12,
     <1>13, <1>14
  DEF Next, Kernel, RunTools, Finished

(* Every variable of a run keeps its type.                                 *)
THEOREM TypeCorrect == Spec => []TypeOK
<1>1. TypeOK /\ Progress /\ [Next]_vars => (TypeOK /\ Progress)'
  BY TypeStep
<1> QED
  BY <1>1, InitType, PTL DEF Spec

-----------------------------------------------------------------------------
(* Safety.                                                                 *)

(* A result added is the last one, the earlier ones stay.                   *)
LEMMA ResultsGrow ==
  ASSUME TypeOK, NEW r, results' = Append(results, r)
  PROVE  /\ Len(results') = Len(results) + 1 /\ Len(results) \in Nat
         /\ results'[Len(results) + 1] = r
         /\ \A i \in 1..Len(results) : results'[i] = results[i]
BY DEF TypeOK

(* What the remaining steps keep.                                           *)
LEMMA LimitsType ==
  ASSUME TypeOK
  PROVE  /\ limits.maxCalls \in Nat /\ limits.maxTurns \in Nat
         /\ \A s \in Sigs : limits.repeat[s] \in Nat /\ signatures[s] \in Nat
                              /\ invoked[s] \in Nat
<1>1. limits \in Limits
  BY RunConstants DEF TypeOK
<1> QED
  BY <1>1 DEF TypeOK, Limits

LEMMA InitSafety == Init => Budget /\ Repeats /\ Denials /\ NothingRunsBehindStop
<1> SUFFICES ASSUME Init PROVE Budget /\ Repeats /\ Denials /\ NothingRunsBehindStop
  OBVIOUS
<1>1. TypeOK /\ Len(results) = 0
  BY InitType, EmptySeq DEF Init
<1>2. Budget
  BY <1>1, LimitsType DEF Init, Budget, InTurn
<1>3. Repeats
  BY <1>1, LimitsType DEF Init, Repeats
<1>4. Denials
  BY <1>1 DEF Init, Denials, RepeatedDenial
<1>5. NothingRunsBehindStop
  BY <1>1 DEF NothingRunsBehindStop
<1> QED
  BY <1>2, <1>3, <1>4, <1>5

(* The budget.  The critical steps are the start of a turn, where the guard *)
(* begins at the calls requested so far, the invocation, and the end of the *)
(* turn, where the calls requested overtake the guard.                      *)
LEMMA BudgetStep ==
  ASSUME IInv, [Next]_vars
  PROVE  Budget'
<1> USE DEF IInv, Budget, InTurn
<1>0. /\ limits.maxCalls \in Nat /\ entered \in Nat /\ seen \in Nat
      /\ counts.requested \in Nat /\ Len(results) \in Nat /\ Len(calls) \in Nat
  BY LimitsType DEF TypeOK
<1>1. CASE StopBeforeTurn
  BY <1>1 DEF StopBeforeTurn, history
<1>2. CASE StartTurn
  <2>1. Len(results') = 0
    BY <1>2, EmptySeq DEF StartTurn
  <2>2. limits.maxCalls # 0 => counts.requested < limits.maxCalls
    BY <1>0, <1>2 DEF StartTurn, LimitReached, CallsUsedUp
  <2> QED
    BY <1>0, <1>2, <2>1, <2>2 DEF StartTurn, history
<1>3. CASE OpenStream
  BY <1>3 DEF OpenStream, turnVars, guardVars, history
<1>4. CASE StreamDone
  BY <1>4 DEF StreamDone, turnVars, guardVars, history
<1>5. CASE CancelTurn
  BY <1>5 DEF CancelTurn, guardVars, history
<1>6. CASE StreamEnds
  BY <1>6 DEF StreamEnds, guardVars, history
<1>7. CASE StreamRaises
  BY <1>7 DEF StreamRaises, turnVars, guardVars, history
<1>8. CASE RunTools /\ ~Invoke
  <2>1. PICK error \in Errors, executed \in BOOLEAN : ToolEnds(error, executed)
    BY <1>8, RunToolsEffect
  <2>2. CASE pc' = "raised"
    BY <2>1, <2>2 DEF ToolEnds, runVars, history
  <2>3. CASE pc' = "tools" /\ Len(results') = Len(results) + 1
    BY <1>0, <2>1, <2>3 DEF ToolEnds, runVars, history
  <2> QED
    BY <2>1, <2>2, <2>3, ResultsGrow DEF ToolEnds, FinishEffect
<1>9. CASE Invoke
  BY <1>0, <1>9 DEF Invoke, Runnable, ToolsLeft, MaxReached, runVars, turnVars
<1>10. CASE FinishTurn
  <2>1. counts'.requested = counts.requested + Len(calls) /\ Len(results) = Len(calls)
    BY <1>10 DEF FinishTurn, AddCounts
  <2> QED
    BY <1>0, <1>10, <2>1 DEF FinishTurn, turnVars, guardVars, history
<1>11. CASE SetToken
  BY <1>11 DEF SetToken, runVars, turnVars, guardVars, history
<1>12. CASE Expire
  BY <1>12 DEF Expire, runVars, turnVars, guardVars, history
<1>13. CASE TaskCancelled
  BY <1>13 DEF TaskCancelled, runVars, turnVars, guardVars, history
<1>14. CASE UNCHANGED vars
  BY <1>14 DEF vars
<1> QED
  BY <1>1, <1>2, <1>3, <1>4, <1>5, <1>6, <1>7, <1>8, <1>9, <1>10, <1>11, <1>12,
     <1>13, <1>14
  DEF Next, Kernel, RunTools, Finished

(* The repeat thresholds.  Only the tool loop touches the signatures.       *)
LEMMA RepeatsStep ==
  ASSUME IInv, [Next]_vars
  PROVE  Repeats'
<1> USE DEF IInv, Repeats
<1>0. \A s \in Sigs : limits.repeat[s] \in Nat /\ signatures[s] \in Nat
                        /\ invoked[s] \in Nat
  BY LimitsType
<1>1. CASE RunTools /\ ~Invoke
  <2>1. PICK error \in Errors, executed \in BOOLEAN : ToolEnds(error, executed)
    BY <1>1, RunToolsEffect
  <2>2. limits' = limits /\ invoked' = invoked
    BY <2>1 DEF ToolEnds, runVars, history
  <2>3. CASE signatures' = signatures
    BY <2>2, <2>3
  <2>4. ASSUME NEW sig \in Sigs, ~RepeatBlocks(sig), RecordSignature(sig)
        PROVE  Repeats'
    BY <1>0, <2>2, <2>4 DEF RepeatBlocks, RecordSignature, TypeOK
  <2> QED
    BY <2>1, <2>3, <2>4 DEF ToolEnds
<1>2. CASE Invoke
  <2> DEFINE sig == Current.sig
  <2>1. sig \in Sigs
    BY <1>2, CurrentType DEF Invoke, Runnable, ToolsLeft
  <2>2. limits' = limits /\ ~RepeatBlocks(sig) /\ RecordSignature(sig)
        /\ invoked' = [invoked EXCEPT ![sig] = @ + 1]
    BY <1>2 DEF Invoke, runVars
  <2> HIDE DEF sig
  <2> QED
    BY <1>0, <2>1, <2>2 DEF RepeatBlocks, RecordSignature, TypeOK
<1>3. CASE ~RunTools
  <2>1. UNCHANGED <<limits, signatures, invoked>>
    BY <1>3 DEF Next, Kernel, Finished, StopBeforeTurn, StartTurn, OpenStream,
       StreamDone, CancelTurn, StreamEnds, StreamRaises, FinishTurn, SetToken,
       Expire, TaskCancelled, runVars, guardVars, history, vars
  <2> QED
    BY <2>1
<1> QED
  BY <1>1, <1>2, <1>3 DEF RunTools

(* What a result says stays true: flags of a turn only rise, and the calls  *)
(* of a turn whose budget ran out use up the budget of the run.             *)
LEMMA DenialsStep ==
  ASSUME IInv, [Next]_vars
  PROVE  Denials'
<1> USE DEF IInv, Denials, InTurn
<1>0. /\ limits.maxCalls \in Nat /\ seen \in Nat /\ counts.requested \in Nat
      /\ Len(results) \in Nat /\ Len(calls) \in Nat
  BY LimitsType DEF TypeOK
<1>1. CASE StopBeforeTurn
  BY <1>1 DEF StopBeforeTurn, turnVars, guardVars
<1>2. CASE StartTurn
  <2>1. Len(results') = 0
    BY <1>2, EmptySeq DEF StartTurn
  <2> QED
    BY <1>2, <2>1 DEF StartTurn
<1>3. CASE OpenStream
  BY <1>3 DEF OpenStream, turnVars, guardVars
<1>4. CASE StreamDone
  BY <1>4 DEF StreamDone, turnVars, guardVars
<1>5. CASE CancelTurn
  <2>1. results = <<>> /\ Len(results) = 0
    BY <1>5, EmptySeq DEF CancelTurn, Progress
  <2> QED
    BY <1>5, <2>1 DEF CancelTurn, guardVars
<1>6. CASE StreamEnds
  <2>1. results = <<>> /\ Len(results) = 0
    BY <1>6, EmptySeq DEF StreamEnds, Progress
  <2> QED
    BY <1>6, <2>1 DEF StreamEnds, guardVars
<1>7. CASE StreamRaises
  BY <1>7 DEF StreamRaises, turnVars, guardVars
<1>8. CASE RunTools /\ ~Invoke
  <2>1. PICK error \in Errors, executed \in BOOLEAN : ToolEnds(error, executed)
    BY <1>8, RunToolsEffect
  <2>2. /\ pc \in {"tools", "invoking"} /\ calls' = calls /\ seen' = seen
        /\ token' = token /\ limits' = limits /\ counts' = counts
        /\ cancelled' = (cancelled \/ error = "cancelled")
        /\ error = "cancelled" => token
    BY <2>1 DEF ToolEnds, runVars
  <2>3. CASE pc' = "raised" /\ results' = results /\ pause' = pause
    BY <2>2, <2>3
  <2>4. CASE /\ pc' = "tools"
             /\ results' = Append(results, [id |-> Current.id, error |-> error,
                                            executed |-> executed])
             /\ pause' = (pause \/ (error = "none" /\ Current.sig \in PauseSigs))
    <3>1. /\ Len(results') = Len(results) + 1
          /\ results'[Len(results) + 1].error = error
          /\ \A i \in 1..Len(results) : results'[i] = results[i]
      BY <2>4, ResultsGrow
    <3>2. calls'[Len(results) + 1] = Current
      BY <2>2 DEF Current
    <3>3. error = "max_tool_calls" => limits.maxCalls # 0 /\ seen >= limits.maxCalls
      BY <2>1 DEF ToolEnds, MaxReached
    <3>4. error = "tool_skipped_after_pause" => pause
      BY <2>1 DEF ToolEnds
    <3>5. ASSUME NEW i \in 1..Len(results')
          PROVE  /\ results'[i].error = "cancelled" => cancelled'
                 /\ results'[i].error = "tool_skipped_after_pause" => pause'
                 /\ results'[i].error = "none" /\ calls'[i].sig \in PauseSigs => pause'
                 /\ results'[i].error = "max_tool_calls" =>
                      limits'.maxCalls # 0 /\ seen' >= limits'.maxCalls
      <4>1. CASE i \in 1..Len(results)
        <5>1. results'[i] = results[i] /\ calls'[i] = calls[i]
          BY <2>2, <3>1, <4>1
        <5> QED
          BY <2>2, <2>4, <4>1, <5>1
      <4>2. CASE i = Len(results) + 1
        BY <2>2, <2>4, <3>1, <3>2, <3>3, <3>4, <4>2
      <4> QED
        BY <1>0, <3>1, <4>1, <4>2
    <3> QED
      BY <2>2, <2>4, <3>5
  <2> QED
    BY <2>1, <2>3, <2>4 DEF ToolEnds, FinishEffect
<1>9. CASE Invoke
  BY <1>0, <1>9 DEF Invoke, Runnable, ToolsLeft, runVars, turnVars
<1>10. CASE FinishTurn
  <2>1. counts'.requested = counts.requested + Len(calls) /\ Len(results) = Len(calls)
    BY <1>10 DEF FinishTurn, AddCounts
  <2>2. seen <= counts.requested + Len(results) /\ pc = "tools"
    BY <1>0, <1>10 DEF FinishTurn, Budget
  <2>3. /\ UNCHANGED <<limits, token, calls, results, pause, cancelled, seen>>
        /\ pc' \in {"raised", "loop", "returned"}
        /\ pc' = "loop" => ~pause /\ ~cancelled /\ ~RepeatedDenial
    BY <1>10 DEF FinishTurn, LoopsOn, turnVars, guardVars
  <2>4. RepeatedDenial' = RepeatedDenial
    BY <2>3 DEF RepeatedDenial
  <2> QED
    BY <1>0, <2>1, <2>2, <2>3, <2>4
<1>11. CASE SetToken
  BY <1>11 DEF SetToken, runVars, turnVars, guardVars, RepeatedDenial
<1>12. CASE Expire
  BY <1>12 DEF Expire, runVars, turnVars, guardVars, RepeatedDenial
<1>13. CASE TaskCancelled
  BY <1>13 DEF TaskCancelled, runVars, turnVars, guardVars
<1>14. CASE UNCHANGED vars
  BY <1>14 DEF vars, RepeatedDenial
<1> QED
  BY <1>1, <1>2, <1>3, <1>4, <1>5, <1>6, <1>7, <1>8, <1>9, <1>10, <1>11, <1>12,
     <1>13, <1>14
  DEF Next, Kernel, RunTools, Finished

(* A result marked as executed is added only while neither flag is up.      *)
LEMMA BehindStopStep ==
  ASSUME IInv, [Next]_vars
  PROVE  NothingRunsBehindStop'
<1> USE DEF IInv, NothingRunsBehindStop, Stops
<1>0. Len(results) \in Nat
  BY DEF TypeOK
<1>1. CASE RunTools /\ ~Invoke
  <2>1. PICK error \in Errors, executed \in BOOLEAN : ToolEnds(error, executed)
    BY <1>1, RunToolsEffect
  <2>2. calls' = calls /\ (executed => ~pause /\ ~cancelled)
    BY <2>1 DEF ToolEnds, Denials
  <2>3. CASE results' = results
    BY <2>2, <2>3
  <2>4. CASE results' = Append(results, [id |-> Current.id, error |-> error,
                                         executed |-> executed])
    <3>1. /\ Len(results') = Len(results) + 1
          /\ results'[Len(results) + 1].executed = executed
          /\ \A i \in 1..Len(results) : results'[i] = results[i]
      BY <2>4, ResultsGrow
    <3>2. ASSUME NEW i \in 1..Len(results'), NEW j \in 1..Len(results'), i < j,
                 Stops(i)'
          PROVE  ~results'[j].executed
      <4>1. i \in 1..Len(results) /\ results'[i] = results[i] /\ calls'[i] = calls[i]
        BY <1>0, <2>2, <3>1, <3>2
      <4>2. Stops(i)
        BY <3>2, <4>1
      <4>3. CASE j \in 1..Len(results)
        BY <3>1, <3>2, <4>1, <4>2, <4>3
      <4>4. CASE j = Len(results) + 1
        <5>1. pause \/ cancelled
          BY <4>1, <4>2 DEF Denials
        <5> QED
          BY <2>2, <3>1, <4>4, <5>1
      <4> QED
        BY <1>0, <3>1, <4>3, <4>4
    <3> QED
      BY <3>2
  <2> QED
    BY <2>1, <2>3, <2>4 DEF ToolEnds, FinishEffect
<1>2. CASE StartTurn
  <2>1. Len(results') = 0
    BY <1>2, EmptySeq DEF StartTurn
  <2> QED
    BY <2>1
<1>3. CASE StreamEnds
  <2>1. results' = results /\ Len(results) = 0
    BY <1>3, EmptySeq DEF StreamEnds, Progress
  <2> QED
    BY <2>1
<1>4. CASE Invoke \/ ~(RunTools \/ StartTurn \/ StreamEnds)
  <2>1. UNCHANGED <<calls, results>>
    BY <1>4 DEF Next, Kernel, Finished, StopBeforeTurn, OpenStream, StreamDone,
       CancelTurn, StreamRaises, Invoke, FinishTurn, SetToken, Expire,
       TaskCancelled, turnVars, vars
  <2> QED
    BY <2>1
<1> QED
  BY <1>1, <1>2, <1>3, <1>4 DEF RunTools

(* The inductive invariant holds in every reachable state.                  *)
THEOREM Invariance == Spec => []IInv
<1>1. Init => IInv
  BY InitType, InitSafety DEF IInv
<1>2. IInv /\ [Next]_vars => IInv'
  <2> SUFFICES ASSUME IInv, [Next]_vars PROVE IInv'
    OBVIOUS
  <2>1. TypeOK' /\ Progress'
    BY TypeStep DEF IInv
  <2> QED
    BY <2>1, BudgetStep, RepeatsStep, DenialsStep, BehindStopStep DEF IInv
<1> QED
  BY <1>1, <1>2, PTL DEF Spec

(* In no run does the host's executor get more calls than max_tool_calls,   *)
(* whatever the provider asks for and however many turns there are.         *)
THEOREM BudgetSafe == Spec => []WithinBudget
<1>1. IInv => WithinBudget
  BY DEF IInv, Budget, WithinBudget
<1> QED
  BY <1>1, Invariance, PTL

(* Every signature with a threshold stays below it in the executor.         *)
THEOREM RepeatSafe == Spec => []RepeatBounded
<1>1. IInv => RepeatBounded
  <2> SUFFICES ASSUME IInv, NEW s \in Sigs, limits.repeat[s] # 0
               PROVE  invoked[s] < limits.repeat[s]
    BY DEF RepeatBounded
  <2>1. invoked[s] <= signatures[s] /\ signatures[s] < limits.repeat[s]
    BY DEF IInv, Repeats
  <2>2. /\ invoked[s] \in Nat /\ signatures[s] \in Nat /\ limits.repeat[s] \in Nat
    BY LimitsType DEF IInv
  <2> QED
    BY <2>1, <2>2
<1> QED
  BY <1>1, Invariance, PTL

(* Nothing is executed behind a pause or a cancellation of the same turn.   *)
THEOREM BehindStopSafe == Spec => []NothingRunsBehindStop
<1>1. IInv => NothingRunsBehindStop
  BY DEF IInv
<1> QED
  BY <1>1, Invariance, PTL

(* No turn follows one that a denial, a pause or a cancellation ended.  The *)
(* call over the budget is the instructive case: its turn alone uses the    *)
(* budget up, so the limit stops the loop before the next turn.             *)
THEOREM NoTurnAfterStopHolds == Spec => NoTurnAfterStop
<1> DEFINE Quiet == /\ ~pause /\ ~cancelled
                    /\ \A i \in 1..Len(results) :
                         results[i].error \notin
                           {"repeated_tool_call", "max_tool_calls", "cancelled",
                            "tool_skipped_after_pause"}
<1>1. ASSUME IInv, [Next]_vars, turn' # turn PROVE Quiet
  <2>1. StartTurn
    <3>1. turn' = turn \/ StartTurn
      BY <1>1 DEF Next, Kernel, RunTools, Finished, StopBeforeTurn, OpenStream,
         StreamDone, CancelTurn, StreamEnds, StreamRaises, FinishTurn, SetToken,
         Expire, TaskCancelled, SkipAfterCancellation, SkipAfterPause, Refuse,
         BlockRepeated, BlockOverBudget, Invoke, ToolReturns, runVars, vars
    <3> QED
      BY <1>1, <3>1
  <2>2. pc = "loop" /\ ~CallsUsedUp
    BY <2>1 DEF StartTurn, LimitReached
  <2>3. limits.maxCalls \in Nat /\ counts.requested \in Nat
    BY <1>1, LimitsType DEF IInv, TypeOK
  <2>4. \A i \in 1..Len(results) : results[i].error # "max_tool_calls"
    BY <1>1, <2>2, <2>3 DEF IInv, Denials, CallsUsedUp
  <2>5. ~pause /\ ~cancelled /\ ~RepeatedDenial
    BY <1>1, <2>2 DEF IInv, Denials
  <2> QED
    BY <1>1, <2>4, <2>5 DEF IInv, Denials, RepeatedDenial
<1>2. IInv /\ [Next]_vars => [turn' # turn => Quiet]_vars
  BY <1>1
<1> QED
  BY <1>2, Invariance, PTL DEF Spec, NoTurnAfterStop

-----------------------------------------------------------------------------
(* The log and the transcript.                                             *)

Settled == {results[i].id : i \in 1..Len(results)}

StartOf(c) == Evt("tool_started", c.id, "none")

(* The result has its two events in the log.                                *)
Told(s, r) ==
  \E j, k \in 1..Len(s) : /\ j < k /\ s[j] = Evt("tool_started", r.id, "none")
                          /\ s[k] = Evt("tool_ended", r.id, r.error)

(* A log of the turn in which the calls of ids have begun, and no other.    *)
TellsOf(s, ids) ==
  \A k \in 1..Len(s) :
    /\ s[k].type # "turn_completed"
    /\ s[k].type = "tool_started" => s[k].info = "none" /\ s[k].id \in ids
    /\ s[k].type = "tool_ended" => s[k].id \in Settled

(* The current call has begun in the log s.                                 *)
Begun(s) ==
  /\ s \in Seq(Event)
  /\ TellsOf(s, Settled \cup {Current.id})
  /\ \E j \in 1..Len(s) : s[j] = StartOf(Current)
  /\ \A i \in 1..Len(results) : DuplicateResults \/ Told(s, results[i])

(* In a turn the log tells of the results so far, unless two share an id,   *)
(* in which case the turn will not reach the transcript.                    *)
LogTells ==
  pc \in InTurn =>
    IF pc = "invoking" THEN Begun(log)
    ELSE /\ TellsOf(log, Settled)
         /\ \A i \in 1..Len(results) : DuplicateResults \/ Told(log, results[i])

(* The log t is s with the event e, unless its key was stored before.        *)
Grown(s, e, t) ==
  /\ t \in Seq(Event) /\ Len(s) \in Nat /\ Len(t) \in Nat /\ Len(s) <= Len(t)
  /\ \A k \in 1..Len(s) : t[k] = s[k]
  /\ \A k \in 1..Len(t) : k \in 1..Len(s) \/ t[k] = e
  /\ ~Stored(s, e) => Len(s) + 1 \in 1..Len(t) /\ t[Len(s) + 1] = e

LEMMA AppendEventEffect ==
  ASSUME NEW s \in Seq(Event), NEW e \in Event
  PROVE  Grown(s, e, AppendEvent(s, e))
BY DEF AppendEvent, Grown

(* What a log has told, a longer one tells.                                 *)
LEMMA ToldLonger ==
  ASSUME NEW s \in Seq(Event), NEW t \in Seq(Event), Len(s) <= Len(t),
         \A k \in 1..Len(s) : t[k] = s[k],
         NEW r, Told(s, r)
  PROVE  Told(t, r)
<1>1. PICK j, k \in 1..Len(s) : /\ j < k /\ s[j] = Evt("tool_started", r.id, "none")
                               /\ s[k] = Evt("tool_ended", r.id, r.error)
  BY DEF Told
<1>2. j \in 1..Len(t) /\ k \in 1..Len(t) /\ t[j] = s[j] /\ t[k] = s[k]
  BY Len(s) \in Nat, Len(t) \in Nat
<1> QED
  BY <1>1, <1>2 DEF Told

(* A call that begins has its start in the log, be it one stored before.    *)
LEMMA StartBegins ==
  ASSUME TypeOK, LogTells, pc = "tools", Len(results) < Len(calls)
  PROVE  Begun(Started(Current))
<1> DEFINE e == StartOf(Current)
           s == Started(Current)
<1>1. e \in Event /\ log \in Seq(Event)
  BY CurrentType, EvtType DEF StartOf, EventTypes, Errors, TypeOK
<1>2. /\ e.type = "tool_started" /\ e.id = Current.id /\ e.info = "none"
  BY DEF StartOf, Evt
<1>3. s = AppendEvent(log, e)
  BY DEF Started, StartOf
<1>4. Grown(log, e, s)
  <2> HIDE DEF e, s
  <2> QED
    BY <1>1, <1>3, AppendEventEffect
<1>5. TellsOf(log, Settled) /\ \A i \in 1..Len(results) :
                                 DuplicateResults \/ Told(log, results[i])
  BY DEF LogTells, InTurn
<1> HIDE DEF e, s
<1>6. TellsOf(s, Settled \cup {Current.id})
  BY <1>2, <1>4, <1>5 DEF TellsOf, Grown
<1>7. \E j \in 1..Len(s) : s[j] = e
  <2>1. CASE Stored(log, e)
    <3>1. PICK j \in 1..Len(log) : log[j].type = e.type /\ log[j].id = e.id
      BY <2>1 DEF Stored
    <3>2. log[j] \in Event /\ log[j].info = "none"
      BY <1>1, <1>2, <1>5, <3>1 DEF TellsOf
    <3>3. log[j] = e
      BY <1>1, <1>2, <3>1, <3>2 DEF Event
    <3>4. j \in 1..Len(s) /\ s[j] = log[j]
      BY <1>4, <3>1 DEF Grown
    <3> QED
      BY <3>3, <3>4
  <2>2. CASE ~Stored(log, e)
    BY <1>4, <2>2 DEF Grown
  <2> QED
    BY <2>1, <2>2
<1>8. \A i \in 1..Len(results) : DuplicateResults \/ Told(s, results[i])
  BY <1>1, <1>4, <1>5, ToldLonger DEF Grown
<1> QED
  BY <1>4, <1>6, <1>7, <1>8 DEF Begun, Grown, e, s

(* A call that settles is told of, unless its id is that of another.        *)
LEMMA SettleTells ==
  ASSUME TypeOK, Len(results) < Len(calls), NEW s, Begun(s),
         NEW error \in Errors, NEW executed \in BOOLEAN,
         Settle(s, error, executed), calls' = calls
  PROVE  LogTells'
<1> DEFINE e == Evt("tool_ended", Current.id, error)
           p == Evt("turn_paused", Current.id, "none")
           t == Ended(s, Current, error)
           r == [id |-> Current.id, error |-> error, executed |-> executed]
<1>1. e \in Event /\ p \in Event /\ s \in Seq(Event)
  BY CurrentType, EvtType DEF EventTypes, Errors, Begun
<1>2. /\ e.type = "tool_ended" /\ e.id = Current.id /\ e.info = error
      /\ p.type = "turn_paused"
  BY DEF Evt
<1>3. Grown(s, e, t)
  <2>1. t = AppendEvent(s, e)
    BY DEF Ended
  <2> HIDE DEF e, t
  <2> QED
    BY <1>1, <2>1, AppendEventEffect
<1>4. log' = t \/ log' = AppendEvent(t, p)
  BY DEF Settle
<1>5. results' = Append(results, r) /\ pc' = "tools"
  BY DEF Settle
<1>6. r.id = Current.id /\ r.error = error
  OBVIOUS
<1> HIDE DEF e, p, t, r
<1>7. /\ log' \in Seq(Event) /\ Len(t) \in Nat /\ Len(t) <= Len(log')
      /\ \A k \in 1..Len(t) : log'[k] = t[k]
      /\ \A k \in 1..Len(log') : k \in 1..Len(t) \/ log'[k] = p
  <2>1. t \in Seq(Event) /\ Len(t) \in Nat
    BY <1>3 DEF Grown
  <2>2. CASE log' = t
    BY <2>1, <2>2
  <2>3. CASE log' = AppendEvent(t, p)
    <3>1. Grown(t, p, log')
      BY <1>1, <2>1, <2>3, AppendEventEffect
    <3> QED
      BY <3>1 DEF Grown
  <2> QED
    BY <1>4, <2>2, <2>3
<1>8. /\ Len(results') = Len(results) + 1 /\ Len(results) \in Nat
      /\ results'[Len(results) + 1] = r
      /\ \A i \in 1..Len(results) : results'[i] = results[i]
  BY <1>5, ResultsGrow
<1>9. Settled' = Settled \cup {Current.id}
  <2>1. ASSUME NEW x \in Settled' PROVE x \in Settled \cup {Current.id}
    BY <1>6, <1>8, <2>1 DEF Settled
  <2>2. ASSUME NEW x \in Settled PROVE x \in Settled'
    <3>1. PICK i \in 1..Len(results) : x = results[i].id
      BY <2>2 DEF Settled
    <3>2. i \in 1..Len(results') /\ results'[i] = results[i]
      BY <1>8, <3>1
    <3> QED
      BY <3>1, <3>2 DEF Settled
  <2>3. Current.id \in Settled'
    <3>1. Len(results) + 1 \in 1..Len(results')
      BY <1>8
    <3> QED
      BY <1>6, <1>8, <3>1 DEF Settled
  <2> QED
    BY <2>1, <2>2, <2>3
<1>10. TellsOf(log, Settled)'
  <2>1. TellsOf(s, Settled \cup {Current.id})
    BY DEF Begun
  <2>2. ASSUME NEW k \in 1..Len(log')
        PROVE  /\ log'[k].type # "turn_completed"
               /\ log'[k].type = "tool_started" =>
                    log'[k].info = "none" /\ log'[k].id \in Settled'
               /\ log'[k].type = "tool_ended" => log'[k].id \in Settled'
    <3>1. (k \in 1..Len(s) /\ log'[k] = s[k]) \/ log'[k] = e \/ log'[k] = p
      BY <1>3, <1>7, <2>2 DEF Grown
    <3>2. CASE k \in 1..Len(s) /\ log'[k] = s[k]
      BY <1>9, <2>1, <3>2 DEF TellsOf
    <3> QED
      BY <1>2, <1>9, <3>1, <3>2
  <2> QED
    BY <2>2 DEF TellsOf
<1>11. ASSUME ~DuplicateResults', NEW i \in 1..Len(results')
       PROVE  Told(log', results'[i])
  <2>1. \A j, k \in 1..Len(results') : j # k => results'[j].id # results'[k].id
    BY <1>11 DEF DuplicateResults
  <2>2. CASE i \in 1..Len(results)
    <3>1. ~DuplicateResults
      BY <1>8, <2>1 DEF DuplicateResults
    <3>2. Told(s, results[i])
      BY <2>2, <3>1 DEF Begun
    <3>3. Told(t, results[i])
      BY <1>1, <1>3, <3>2, ToldLonger DEF Grown
    <3> QED
      BY <1>3, <1>7, <1>8, <2>2, <3>3, ToldLonger DEF Grown
  <2>3. CASE i = Len(results) + 1
    <3>1. Current.id \notin Settled
      BY <1>6, <1>8, <2>1 DEF Settled
    <3>2. ~Stored(s, e)
      BY <1>2, <3>1 DEF Stored, Begun, TellsOf
    <3>3. PICK j \in 1..Len(s) : s[j] = StartOf(Current)
      BY DEF Begun
    <3>4. /\ j \in 1..Len(log') /\ log'[j] = s[j] /\ j < Len(s) + 1
          /\ Len(s) + 1 \in 1..Len(log') /\ log'[Len(s) + 1] = e
      BY <1>3, <1>7, <3>2, <3>3 DEF Grown
    <3>5. Told(log', r)
      BY <1>6, <3>3, <3>4 DEF Told, StartOf, e
    <3> QED
      BY <1>8, <2>3, <3>5
  <2> QED
    BY <1>8, <2>2, <2>3
<1> QED
  BY <1>5, <1>10, <1>11 DEF LogTells

(* Every way a tool call ends.                                              *)
LEMMA RunToolsTell ==
  ASSUME IInv, LogTells, RunTools, ~Invoke
  PROVE  LogTells'
<1> DEFINE Goal == LogTells'
<1>0. TypeOK /\ Progress
  BY DEF IInv
<1>1. ASSUME pc = "tools", Len(results) < Len(calls), calls' = calls,
             NEW error \in Errors, NEW executed \in BOOLEAN,
             FinishTool(Started(Current), error, executed)
      PROVE  Goal
  <2>1. CASE Settle(Started(Current), error, executed)
    <3>1. Begun(Started(Current))
      BY <1>0, <1>1, StartBegins
    <3> QED
      BY <1>0, <1>1, <2>1, <3>1, SettleTells
  <2>2. CASE ObservabilityRaises(Started(Current), error)
    BY <2>2 DEF ObservabilityRaises, LogTells, InTurn
  <2> QED
    BY <1>1, <2>1, <2>2 DEF FinishTool
<1>2. CASE ToolReturns
  <2>1. pc = "invoking" /\ Len(results) < Len(calls) /\ calls' = calls
    BY <1>0, <1>2 DEF ToolReturns, Progress
  <2>2. Begun(log)
    BY <2>1 DEF LogTells, InTurn
  <2>3. PICK error \in {"none", "tool_error"} : FinishTool(log, error, TRUE)
    BY <1>2 DEF ToolReturns
  <2>4. error \in Errors
    BY DEF Errors
  <2>5. CASE Settle(log, error, TRUE)
    BY <1>0, <2>1, <2>2, <2>4, <2>5, SettleTells
  <2>6. CASE ObservabilityRaises(log, error)
    BY <2>6 DEF ObservabilityRaises, LogTells, InTurn
  <2> QED
    BY <2>3, <2>5, <2>6 DEF FinishTool
<1>3. CASE ~ToolReturns
  <2>1. pc = "tools" /\ Len(results) < Len(calls) /\ calls' = calls
    BY <1>3 DEF RunTools, SkipAfterCancellation, SkipAfterPause, Refuse,
       BlockRepeated, BlockOverBudget, Runnable, ToolsLeft
  <2>2. \E error \in Errors, executed \in BOOLEAN :
          FinishTool(Started(Current), error, executed)
    BY <1>3 DEF RunTools, SkipAfterCancellation, SkipAfterPause, Refuse,
       BlockRepeated, BlockOverBudget, FinishTool, Errors
  <2> QED
    BY <1>1, <2>1, <2>2
<1> QED
  BY <1>2, <1>3

(* What the log tells stays when only the place in the turn changes.         *)
LEMMA TellsSame ==
  ASSUME LogTells, UNCHANGED <<log, calls, results>>,
         pc' = pc \/ pc' \notin InTurn
  PROVE  LogTells'
BY DEF LogTells, Begun, TellsOf, Told, Settled, DuplicateResults, Current,
   StartOf, InTurn

(* The log of a turn that completes ends with its completion.               *)
LEMMA CompletionLast ==
  ASSUME TypeOK, NEW reason \in StopReasons, TellsOf(log, Settled),
         log' = Completed(log, reason)
  PROVE  /\ log'[Len(log')].type = "turn_completed"
         /\ \A r : Told(log, r) => Told(log', r)
<1> DEFINE e == Evt("turn_completed", TurnId, reason)
<1>1. e \in Event /\ log \in Seq(Event) /\ e.type = "turn_completed"
  BY EvtType DEF EventTypes, TypeOK, Evt
<1>2. log' = AppendEvent(log, e)
  BY DEF Completed
<1> HIDE DEF e
<1>3. ~Stored(log, e)
  BY <1>1 DEF Stored, TellsOf
<1>4. log' = Append(log, e)
  BY <1>2, <1>3 DEF AppendEvent
<1>5. Grown(log, e, log')
  BY <1>1, <1>2, AppendEventEffect
<1>6. log'[Len(log')] = e
  BY <1>1, <1>4
<1>7. ASSUME NEW r, Told(log, r) PROVE Told(log', r)
  BY <1>1, <1>5, <1>7, ToldLonger DEF Grown
<1> QED
  BY <1>1, <1>6, <1>7

LEMMA LogStep ==
  ASSUME IInv, LogTells, [Next]_vars
  PROVE  LogTells'
<1>0. TypeOK /\ Progress
  BY DEF IInv
<1>1. CASE RunTools /\ ~Invoke
  BY <1>1, RunToolsTell
<1>2. CASE Invoke
  <2>1. pc = "tools" /\ Len(results) < Len(calls) /\ UNCHANGED <<calls, results>>
        /\ pc' = "invoking" /\ log' = Started(Current)
    BY <1>2 DEF Invoke, Runnable, ToolsLeft, turnVars
  <2>2. Begun(Started(Current))
    BY <1>0, <2>1, StartBegins
  <2>3. Begun(log)'
    BY <2>1, <2>2 DEF Begun, TellsOf, Settled, DuplicateResults, Current
  <2> QED
    BY <2>1, <2>3 DEF LogTells
<1>3. CASE StartTurn
  <2>1. pc' = "opened" /\ log' = <<Evt("turn_started", TurnId, "none")>> /\ Len(results') = 0
    BY <1>3, EmptySeq DEF StartTurn
  <2>2. Len(log') = 1 /\ log'[1].type = "turn_started"
    BY <2>1 DEF Evt
  <2> QED
    BY <2>1, <2>2 DEF LogTells, TellsOf
<1>4. CASE StreamEnds \/ OpenStream
  <2>1. UNCHANGED <<log, results>> /\ pc \in {"opened", "streaming"}
        /\ pc' \in {"streaming", "tools", "raised"}
    BY <1>4 DEF StreamEnds, OpenStream, turnVars
  <2>2. TellsOf(log, Settled)
        /\ \A i \in 1..Len(results) : DuplicateResults \/ Told(log, results[i])
    BY <2>1 DEF LogTells, InTurn
  <2> QED
    BY <2>1, <2>2 DEF LogTells, TellsOf, Told, Settled, DuplicateResults, InTurn
<1>5. CASE ~(RunTools \/ StartTurn \/ StreamEnds \/ OpenStream)
  <2>1. pc' \notin InTurn \/ (UNCHANGED <<log, calls, results>> /\ pc' = pc)
    BY <1>5 DEF Next, Kernel, Finished, StopBeforeTurn, StreamDone, CancelTurn,
       StreamRaises, FinishTurn, SetToken, Expire, TaskCancelled, turnVars, vars,
       InTurn
  <2> QED
    BY <2>1, TellsSame DEF LogTells
<1> QED
  BY <1>1, <1>2, <1>3, <1>4, <1>5 DEF RunTools

LEMMA TranscriptStep ==
  ASSUME IInv, LogTells, TranscriptMatchesLog, [Next]_vars
  PROVE  TranscriptMatchesLog'
<1>0. TypeOK /\ Progress
  BY DEF IInv
<1>1. CASE FinishTurn
  <2>1. SUFFICES ASSUME pc' \in {"loop", "returned"}
                 PROVE  TranscriptMatchesLog'
    BY DEF TranscriptMatchesLog
  <2>2. pc = "tools" /\ ~DuplicateResults /\ results' = results
        /\ log' = Completed(log, TurnReason)
    BY <1>1, <2>1 DEF FinishTurn, turnVars
  <2>3. TellsOf(log, Settled) /\ \A i \in 1..Len(results) : Told(log, results[i])
    BY <2>2 DEF LogTells, InTurn
  <2>4. /\ log'[Len(log')].type = "turn_completed"
        /\ \A i \in 1..Len(results) : Told(log', results[i])
    BY <1>0, <2>2, <2>3, TurnReasonType, CompletionLast
  <2> QED
    BY <2>2, <2>4 DEF TranscriptMatchesLog, Told
<1>2. CASE CancelTurn
  <2>1. Len(results') = 0 /\ TellsOf(log, Settled)
        /\ log' = Completed(log, "cancelled")
    BY <1>0, <1>2, EmptySeq DEF CancelTurn, Progress, LogTells, InTurn
  <2>2. log'[Len(log')].type = "turn_completed"
    BY <1>0, <2>1, CompletionLast DEF StopReasons
  <2> QED
    BY <2>1, <2>2 DEF TranscriptMatchesLog
<1>3. CASE ~(FinishTurn \/ CancelTurn)
  <2>1. \/ pc' \notin {"loop", "returned"}
        \/ pc \in {"loop", "returned"} /\ UNCHANGED <<turn, results, log>>
    BY <1>3 DEF Next, Kernel, RunTools, Finished, StopBeforeTurn, StartTurn,
       OpenStream, StreamDone, StreamEnds, StreamRaises, SetToken, Expire,
       TaskCancelled, SkipAfterCancellation, SkipAfterPause, Refuse,
       BlockRepeated, BlockOverBudget, Invoke, ToolReturns, FinishTool, Settle,
       ObservabilityRaises, runVars, turnVars, vars
  <2> QED
    BY <2>1 DEF TranscriptMatchesLog
<1> QED
  BY <1>1, <1>2, <1>3

(* What reaches the transcript is in the event log: every result with its    *)
(* start and its end, and the turn's completion last; also when the          *)
(* provider repeats an id, for then the turn raises before its results       *)
(* become messages.                                                        *)
THEOREM TranscriptSafe == Spec => []TranscriptMatchesLog
<1>1. Init => LogTells /\ TranscriptMatchesLog
  BY DEF Init, LogTells, InTurn, TranscriptMatchesLog
<1>2. IInv /\ LogTells /\ TranscriptMatchesLog /\ [Next]_vars
        => LogTells' /\ TranscriptMatchesLog'
  BY LogStep, TranscriptStep
<1> QED
  BY <1>1, <1>2, Invariance, PTL DEF Spec

=============================================================================
