------------------------------ MODULE RunKernel ------------------------------
(***************************************************************************)
(* One run of the agent loop: RunKernel.run (rd_agent_core/run.py), the    *)
(* turns it drives through TurnKernel.run_turn (rd_agent_core/turn.py), the *)
(* two executor guards it wraps around the host's tool executor, and the   *)
(* limits of rd_agent_core/policies.py.                                    *)
(*                                                                         *)
(* The model provider and the tools are the environment: the provider      *)
(* answers a turn with any member of Contents for the run's limits, a tool *)
(* call succeeds, fails or raises.  Two more actors act at any moment: a   *)
(* host that sets the cancellation token, and the clock that passes        *)
(* timeout_ms.  The asyncio task of the run may also be cancelled while it *)
(* awaits a stream or a tool.                                              *)
(*                                                                         *)
(* Text, usage and InvalidToolCall blocks do not steer the loop: a content *)
(* is the sequence of its ToolUseBlocks, empty when it holds none.         *)
(***************************************************************************)
EXTENDS Integers, Sequences, FiniteSets

CONSTANTS
  Ids,          (* tool_use ids a provider may give its calls             *)
  TurnId,       (* stands for the id of an event about the whole turn     *)
  Sigs,         (* tool-call signatures: tool name with canonical input   *)
  Refused,      (* signatures the turn refuses before the executor:       *)
                (* undeclared, unsafe, invalid input or no executor       *)
  PauseSigs,    (* signatures of the pause tools of CoreToolPolicy        *)
  Contents(_),  (* the answers a provider may give a run with such limits *)
  LimitChoices, (* the limits a host may ask for                          *)
  FailFast      (* CoreToolPolicy.observability_fail_fast                 *)

Call == [id : Ids, sig : Sigs]

(* RunLimits, where 0 stands for None (RunLimits refuses values below 1),  *)
(* with repeat the threshold of each signature: the run's                  *)
(* repeated_tool_call_threshold or the repeat policy of its tool.          *)
Limits == [maxTurns : Nat, maxCalls : Nat, timeout : BOOLEAN,
           repeat : [Sigs -> Nat]]

ASSUME RunConstants ==
  /\ TurnId \notin Ids
  /\ Refused \subseteq Sigs
  /\ PauseSigs \subseteq Sigs
  /\ LimitChoices \subseteq Limits
  /\ \A l \in LimitChoices : Contents(l) \subseteq Seq(Call)
  /\ FailFast \in BOOLEAN

VARIABLES
  limits,     (* RunRequest.limits                                        *)
  token,      (* the cancellation token is set                            *)
  expired,    (* elapsed_ms has reached timeout_ms                        *)
  pc,         (* where the run is                                         *)
  turn,       (* turns started by this run                                *)
  done,       (* the contents of the last TurnDone streamed, if any       *)
  calls,      (* the tool calls of the turn being executed                *)
  results,    (* tool_results of the turn, one per call dealt with        *)
  pause,      (* pause_requested                                          *)
  cancelled,  (* run_turn's flag: cancellation was observed in this turn  *)
  seen,       (* _MaxToolCallsGuard._tool_calls_seen                      *)
  signatures, (* how often each signature is in tool_signatures           *)
  counts,     (* the run's ToolCallCounts                                 *)
  stopReason, (* the run's stop_reason                                    *)
  log,        (* this turn's events in the event log                      *)
  entered,    (* history: calls of the run that entered the executor      *)
  invoked     (* history: the same, by signature                          *)

guardVars == <<seen, signatures>>
runVars   == <<limits, turn, counts, stopReason>>
turnVars  == <<calls, results, pause, cancelled>>
history   == <<entered, invoked>>
vars == <<limits, token, expired, pc, turn, done, calls, results, pause,
          cancelled, seen, signatures, counts, stopReason, log, entered,
          invoked>>

-----------------------------------------------------------------------------
(* The event log.  append_event returns the stored event when the          *)
(* idempotency key is known; tool_completed and tool_failed share a key    *)
(* and are one type here, told apart by info.  Turn ids are fresh, so a    *)
(* turn meets no key of an earlier one: log holds the current turn only.   *)

EventTypes == {"turn_started", "tool_started", "tool_ended", "turn_paused",
               "turn_completed"}
Errors == {"none", "policy", "tool_skipped_after_pause", "cancelled",
           "repeated_tool_call", "max_tool_calls", "tool_error"}
StopReasons == {"end_turn", "cancelled", "max_turns", "max_tool_calls",
                "max_wall_clock", "repeated_tool_call", "pause_requested"}

Event  == [type : EventTypes, id : Ids \cup {TurnId},
           info : Errors \cup StopReasons]
Result == [id : Ids, error : Errors, executed : BOOLEAN]

Stored(s, e) == \E i \in 1..Len(s) : s[i].type = e.type /\ s[i].id = e.id

AppendEvent(s, e) == IF Stored(s, e) THEN s ELSE Append(s, e)

Evt(type, id, info) == [type |-> type, id |-> id, info |-> info]

Started(c)           == AppendEvent(log, Evt("tool_started", c.id, "none"))
Ended(s, c, error)   == AppendEvent(s, Evt("tool_ended", c.id, error))
Completed(s, reason) == AppendEvent(s, Evt("turn_completed", TurnId, reason))

-----------------------------------------------------------------------------
(* Limits, policies and guards.                                            *)

(* Mutant of MaxReached: one call too many.                                 *)
MaxReachedLate == limits.maxCalls # 0 /\ seen > limits.maxCalls

(* _MaxToolCallsGuard blocks a call once the budget is used up.             *)
MaxReached == limits.maxCalls # 0 /\ seen >= limits.maxCalls

(* Mutant of RepeatBlocks: the current call is not counted.                 *)
RepeatBlocksLate(sig) ==
  limits.repeat[sig] # 0 /\ signatures[sig] >= limits.repeat[sig]

(* _RepeatedToolCallGuard blocks the call that would make the threshold.    *)
RepeatBlocks(sig) ==
  limits.repeat[sig] # 0 /\ signatures[sig] + 1 >= limits.repeat[sig]

(* evaluate_run_limits, in the order the code tests them.                   *)
TurnsUsedUp == limits.maxTurns # 0 /\ turn >= limits.maxTurns
CallsUsedUp == limits.maxCalls # 0 /\ counts.requested >= limits.maxCalls
LimitReached == TurnsUsedUp \/ CallsUsedUp \/ expired

-----------------------------------------------------------------------------
(* The loop of RunKernel.run.                                              *)

Init ==
  /\ limits \in LimitChoices
  /\ token \in BOOLEAN
  /\ expired = FALSE
  /\ pc = "loop"
  /\ turn = 0
  /\ done = {}
  /\ calls = <<>> /\ results = <<>>
  /\ pause = FALSE /\ cancelled = FALSE
  /\ seen = 0
  /\ signatures = [s \in Sigs |-> 0]
  /\ counts = [requested |-> 0, executed |-> 0, denied |-> 0]
  /\ stopReason = "end_turn"
  /\ log = <<>>
  /\ entered = 0
  /\ invoked = [s \in Sigs |-> 0]

(* The loop leaves before a turn: the token is set or a limit is reached.   *)
StopBeforeTurn ==
  /\ pc = "loop"
  /\ \/ token /\ stopReason' = "cancelled"
     \/ ~token /\ TurnsUsedUp /\ stopReason' = "max_turns"
     \/ ~token /\ ~TurnsUsedUp /\ CallsUsedUp /\ stopReason' = "max_tool_calls"
     \/ /\ ~token /\ ~TurnsUsedUp /\ ~CallsUsedUp /\ expired
        /\ stopReason' = "max_wall_clock"
  /\ pc' = "returned"
  /\ UNCHANGED <<limits, token, expired, turn, done, turnVars, guardVars,
                 counts, log, history>>

(* A new turn: guards built on the calls used so far, TURN_STARTED logged.  *)
StartTurn ==
  /\ pc = "loop"
  /\ ~token /\ ~LimitReached
  /\ pc' = "opened"
  /\ turn' = turn + 1
  /\ done' = {}
  /\ calls' = <<>> /\ results' = <<>>
  /\ pause' = FALSE /\ cancelled' = FALSE
  /\ seen' = counts.requested
  /\ log' = <<Evt("turn_started", TurnId, "none")>>
  /\ UNCHANGED <<limits, token, expired, signatures, counts, stopReason,
                 history>>

(* run_turn looks at the token once more before it calls the provider.      *)
OpenStream ==
  /\ pc = "opened"
  /\ ~token
  /\ pc' = "streaming"
  /\ UNCHANGED <<limits, token, expired, turn, done, turnVars, guardVars,
                 counts, stopReason, log, history>>

(* TurnDone arrives; the last one counts.  With the token set the turn ends *)
(* as a cancelled one all the same: see CancelTurn.                        *)
StreamDone ==
  /\ pc = "streaming"
  /\ ~token
  /\ \E content \in Contents(limits) : done' = {content}
  /\ UNCHANGED <<limits, token, expired, pc, turn, turnVars, guardVars,
                 counts, stopReason, log, history>>

(* Before the stream, or after any event of it, the token is found set: the *)
(* turn completes as cancelled with an empty content, whatever TurnDone the *)
(* stream gave, and the run stops.                                         *)
CancelTurn ==
  /\ pc \in {"opened", "streaming"}
  /\ token
  /\ cancelled' = TRUE
  /\ stopReason' = "cancelled"
  /\ log' = Completed(log, "cancelled")
  /\ pc' = "returned"
  /\ UNCHANGED <<limits, token, expired, turn, done, calls, results, pause,
                 guardVars, counts, history>>

(* Mutant of StreamEnds: without a TurnDone the turn goes on waiting.        *)
StreamEndsWaiting ==
  /\ pc = "streaming"
  /\ done # {} /\ pc' = "tools" /\ calls' \in done
  /\ UNCHANGED <<limits, token, expired, turn, done, results, pause,
                 cancelled, guardVars, counts, stopReason, log, history>>

(* The stream ends without another event, so the token is not looked at:    *)
(* with no TurnDone run_turn raises RuntimeError, else the tools are next.  *)
StreamEnds ==
  /\ pc = "streaming"
  /\ \/ done = {} /\ pc' = "raised" /\ UNCHANGED calls
     \/ done # {} /\ pc' = "tools" /\ calls' \in done
  /\ UNCHANGED <<limits, token, expired, turn, done, results, pause,
                 cancelled, guardVars, counts, stopReason, log, history>>

(* The provider client raises out of the stream and out of the run.         *)
StreamRaises ==
  /\ pc = "streaming"
  /\ pc' = "raised"
  /\ UNCHANGED <<limits, token, expired, turn, done, turnVars, guardVars,
                 counts, stopReason, log, history>>

-----------------------------------------------------------------------------
(* The tool loop of run_turn.                                              *)

Current == calls[Len(results) + 1]
ToolsLeft == pc = "tools" /\ Len(results) < Len(calls)

(* A result is added and its end logged; a pause tool that succeeded asks   *)
(* for a pause.                                                            *)
Settle(s, error, executed) ==
  LET ended  == Ended(s, Current, error)
      pauses == error = "none" /\ Current.sig \in PauseSigs
  IN  /\ results' = Append(results, [id |-> Current.id, error |-> error,
                                     executed |-> executed])
      /\ pause' = (pause \/ pauses)
      /\ log' = IF pauses
                THEN AppendEvent(ended, Evt("turn_paused", Current.id, "none"))
                ELSE ended
      /\ pc' = "tools"

(* _record_tool_observability raises under observability_fail_fast, once    *)
(* the end of the tool is logged: no result, and the run raises.            *)
ObservabilityRaises(s, error) ==
  /\ FailFast
  /\ log' = Ended(s, Current, error)
  /\ pc' = "raised"
  /\ UNCHANGED <<results, pause>>

(* _execute_tool ends with a result or with the observability failure.      *)
FinishTool(s, error, executed) ==
  Settle(s, error, executed) \/ ObservabilityRaises(s, error)

(* The token is looked at before each call: the call is skipped.            *)
SkipAfterCancellation ==
  /\ ToolsLeft
  /\ token
  /\ cancelled' = TRUE
  /\ Settle(Started(Current), "cancelled", FALSE)
  /\ UNCHANGED <<runVars, token, expired, done, calls, guardVars, history>>

(* A call behind a pause tool that succeeded is skipped.                    *)
SkipAfterPause ==
  /\ ToolsLeft
  /\ ~token /\ pause
  /\ Settle(Started(Current), "tool_skipped_after_pause", FALSE)
  /\ UNCHANGED <<runVars, token, expired, done, calls, cancelled, guardVars,
                 history>>

(* Mutant of Runnable: the pause is forgotten.                              *)
RunnableThoughPaused == ToolsLeft /\ ~token

(* Neither skipped nor refused outright so far.                             *)
Runnable == ToolsLeft /\ ~token /\ ~pause

(* Refused before the executor: undeclared, unsafe, invalid, no executor.   *)
Refuse ==
  /\ Runnable
  /\ Current.sig \in Refused
  /\ FinishTool(Started(Current), "policy", FALSE)
  /\ UNCHANGED <<runVars, token, expired, done, calls, cancelled, guardVars,
                 history>>

(* The outer guard blocks a repeated call.  _normalize_tool_result marks    *)
(* the guard's result as executed.                                         *)
BlockRepeated ==
  /\ Runnable
  /\ Current.sig \notin Refused
  /\ RepeatBlocks(Current.sig)
  /\ FinishTool(Started(Current), "repeated_tool_call", TRUE)
  /\ UNCHANGED <<runVars, token, expired, done, calls, cancelled, guardVars,
                 history>>

(* The repeat guard records the signature of a call it lets through.        *)
RecordSignature(sig) ==
  signatures' = IF limits.repeat[sig] = 0 THEN signatures
                ELSE [signatures EXCEPT ![sig] = @ + 1]

(* The inner guard blocks a call over the budget, its signature recorded.   *)
BlockOverBudget ==
  /\ Runnable
  /\ Current.sig \notin Refused
  /\ ~RepeatBlocks(Current.sig)
  /\ MaxReached
  /\ RecordSignature(Current.sig)
  /\ FinishTool(Started(Current), "max_tool_calls", TRUE)
  /\ UNCHANGED <<runVars, token, expired, done, calls, cancelled, seen,
                 history>>

(* The host's executor is called and awaited.                              *)
Invoke ==
  /\ Runnable
  /\ Current.sig \notin Refused
  /\ ~RepeatBlocks(Current.sig)
  /\ ~MaxReached
  /\ RecordSignature(Current.sig)
  /\ seen' = seen + 1
  /\ entered' = entered + 1
  /\ invoked' = [invoked EXCEPT ![Current.sig] = @ + 1]
  /\ log' = Started(Current)
  /\ pc' = "invoking"
  /\ UNCHANGED <<runVars, token, expired, done, turnVars>>

(* The executor answers, or it (or the blob writer after it) raises: the    *)
(* tool boundary turns an exception into a failed result.                   *)
ToolReturns ==
  /\ pc = "invoking"
  /\ \E error \in {"none", "tool_error"} : FinishTool(log, error, TRUE)
  /\ UNCHANGED <<runVars, token, expired, done, calls, cancelled, guardVars,
                 history>>

-----------------------------------------------------------------------------
(* The end of a turn, and what RunKernel.run makes of it.                  *)

(* run_turn's final stop reason: cancellation wins over a pause.            *)
TurnReason == CASE cancelled             -> "cancelled"
                [] ~cancelled /\ pause   -> "pause_requested"
                [] ~cancelled /\ ~pause  -> "end_turn"

Executed == Cardinality({i \in 1..Len(results) : results[i].executed})

(* Mutant of AddCounts: the difference the wrong way round.                 *)
AddCountsReversed ==
  counts' = [requested |-> counts.requested + Len(calls),
             executed  |-> counts.executed + Executed,
             denied    |-> counts.denied + (Executed - Len(calls))]

(* ToolCallCounts of the run with this turn added.                          *)
AddCounts ==
  counts' = [requested |-> counts.requested + Len(calls),
             executed  |-> counts.executed + Executed,
             denied    |-> counts.denied + (Len(calls) - Executed)]

(* Mutant of DuplicateResults: the transcript takes any results.            *)
DuplicateResultsPass == FALSE

(* build_messages_after_turn refuses two results with one tool_use_id.      *)
DuplicateResults ==
  \E i, j \in 1..Len(results) : i # j /\ results[i].id = results[j].id

RepeatedDenial ==
  \E i \in 1..Len(results) : results[i].error = "repeated_tool_call"

(* Mutant of LoopsOn: a pause does not end the run.                         *)
LoopsOnPaused == calls # <<>> /\ ~RepeatedDenial /\ ~cancelled

(* A turn after which the loop goes on.                                     *)
LoopsOn == calls # <<>> /\ ~RepeatedDenial /\ ~cancelled /\ ~pause

(* TURN_COMPLETED, the counts, the transcript, and the loop's decision: a   *)
(* repeated-call denial first, then cancellation, pause, no calls.          *)
FinishTurn ==
  /\ pc = "tools"
  /\ Len(results) = Len(calls)
  /\ log' = Completed(log, TurnReason)
  /\ AddCounts
  /\ \/ DuplicateResults /\ pc' = "raised" /\ UNCHANGED stopReason
     \/ /\ ~DuplicateResults
        /\ stopReason' = IF RepeatedDenial THEN "repeated_tool_call"
                         ELSE TurnReason
        /\ pc' = IF LoopsOn THEN "loop" ELSE "returned"
  /\ UNCHANGED <<limits, token, expired, turn, done, turnVars, guardVars,
                 history>>

-----------------------------------------------------------------------------
(* The rest of the world.                                                  *)

Over == pc \in {"returned", "raised", "aborted"}

SetToken ==
  /\ ~token /\ ~Over
  /\ token' = TRUE
  /\ UNCHANGED <<runVars, expired, pc, done, turnVars, guardVars, log, history>>

Expire ==
  /\ limits.timeout /\ ~expired /\ ~Over
  /\ expired' = TRUE
  /\ UNCHANGED <<runVars, token, pc, done, turnVars, guardVars, log, history>>

(* The run's task is cancelled at an await: CancelledError is no Exception, *)
(* so neither the tool boundary nor the loop catches it.                    *)
TaskCancelled ==
  /\ pc \in {"streaming", "invoking"}
  /\ pc' = "aborted"
  /\ UNCHANGED <<runVars, token, expired, done, turnVars, guardVars, log,
                 history>>

Finished == Over /\ UNCHANGED vars

RunTools ==
  \/ SkipAfterCancellation \/ SkipAfterPause \/ Refuse
  \/ BlockRepeated \/ BlockOverBudget \/ Invoke \/ ToolReturns

Kernel ==
  \/ StopBeforeTurn \/ StartTurn \/ OpenStream \/ CancelTurn \/ StreamEnds
  \/ RunTools \/ FinishTurn

Next ==
  \/ Kernel \/ StreamDone \/ StreamRaises
  \/ SetToken \/ Expire \/ TaskCancelled \/ Finished

(* A provider stream ends and an executor answers in the end: the kernel    *)
(* itself sets them no deadline.                                           *)
Spec == Init /\ [][Next]_vars /\ WF_vars(Kernel)

-----------------------------------------------------------------------------
(* Properties.                                                             *)

(* Every variable keeps its type.                                          *)
TypeOK ==
  /\ limits \in LimitChoices
  /\ token \in BOOLEAN /\ expired \in BOOLEAN
  /\ pc \in {"loop", "opened", "streaming", "tools", "invoking", "returned",
             "raised", "aborted"}
  /\ turn \in Nat
  /\ done \in SUBSET Contents(limits)
  /\ calls \in Seq(Call)
  /\ results \in Seq(Result)
  /\ pause \in BOOLEAN /\ cancelled \in BOOLEAN
  /\ seen \in Nat
  /\ signatures \in [Sigs -> Nat]
  /\ counts \in [requested : Nat, executed : Nat, denied : Nat]
  /\ stopReason \in StopReasons
  /\ log \in Seq(Event)
  /\ entered \in Nat
  /\ invoked \in [Sigs -> Nat]

(* The host's executor is entered at most max_tool_calls times in a run,    *)
(* though the loop counts requested calls, the guard counts the calls it    *)
(* lets through, and a guard is built anew for every turn.                  *)
WithinBudget == limits.maxCalls # 0 => entered <= limits.maxCalls

(* A signature with threshold n enters the executor fewer than n times in   *)
(* the whole run, over turn boundaries and whatever becomes of the calls.   *)
RepeatBounded ==
  \A s \in Sigs : limits.repeat[s] # 0 => invoked[s] < limits.repeat[s]

(* No turn follows one in which a guard denied a call, a pause tool ran or  *)
(* cancellation was observed: the model never sees such a turn's results.   *)
NoTurnAfterStop ==
  [][turn' # turn =>
       /\ ~pause /\ ~cancelled
       /\ \A i \in 1..Len(results) :
            results[i].error \notin {"repeated_tool_call", "max_tool_calls",
                                     "cancelled", "tool_skipped_after_pause"}
    ]_vars

(* Behind a pause tool that succeeded, or a call skipped for a pause or a   *)
(* cancellation, no later call of the turn is executed.                    *)
Stops(i) ==
  \/ results[i].error \in {"cancelled", "tool_skipped_after_pause"}
  \/ results[i].error = "none" /\ calls[i].sig \in PauseSigs

NothingRunsBehindStop ==
  \A i, j \in 1..Len(results) : i < j /\ Stops(i) => ~results[j].executed

(* A turn whose results reach the transcript has each of them in the event  *)
(* log too: started, then ended with the same outcome, and then the turn's  *)
(* completion last.                                                        *)
TranscriptMatchesLog ==
  pc \in {"loop", "returned"} /\ turn > 0 =>
    /\ log[Len(log)].type = "turn_completed"
    /\ \A i \in 1..Len(results) : \E j, k \in 1..Len(log) :
         /\ j < k
         /\ log[j] = Evt("tool_started", results[i].id, "none")
         /\ log[k] = Evt("tool_ended", results[i].id, results[i].error)

(* A run limited in turns or in tool calls comes to an end, whatever the    *)
(* model asks for; so does one limited in repeats only, as long as no call  *)
(* is refused before it reaches the repeat guard.                           *)
RunEnds == <>Over

(* EVENT-PAYLOAD-SCHEMA.md: "executed" counts only the calls that really    *)
(* entered the executor.                                                   *)
ExecutedMeansEntered ==
  pc \in {"loop", "returned"} => counts.executed = entered

(* API-REFERENCE.md: after cancellation the stop reason is cancelled.  Here *)
(* for a run that skipped tool calls because it had seen the cancellation.  *)
CancelledRunSaysSo == pc = "returned" /\ cancelled => stopReason = "cancelled"

=============================================================================
