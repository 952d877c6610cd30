--------------------------- MODULE StreamContract ---------------------------
(***************************************************************************)
(* What a streamed turn promises the agent loop, whichever provider sends   *)
(* it (rd_llm_adapter/events.py, the lifecycle of tool calls, and the       *)
(* comment on InvalidToolCall in transcript_blocks.py): a tool call is      *)
(* announced, ends at most once, as a call to execute or as an invalid      *)
(* one, and nothing of it changes once the turn is done.  The loop executes *)
(* exactly the calls that ended as calls to execute, and only of a stream   *)
(* that came to its end; a stream that fails has announced none, or is      *)
(* failed behind a turn already done.                                      *)
(***************************************************************************)
CONSTANT Index

VARIABLES
  calls, (* what the consumer knows of the call of each index              *)
  turn,  (* streaming, sealed by TurnDone, or over: done, failed, dropped  *)
  runs   (* the calls the loop goes on to execute                          *)

vars == <<calls, turn, runs>>

Stage == {"absent", "open", "use", "invalid"}

Init ==
  /\ calls = [i \in Index |-> "absent"]
  /\ turn = "streaming"
  /\ runs = {}

(* A call only moves on.                                                   *)
Moves ==
  /\ calls' \in [Index -> Stage]
  /\ \A i \in Index : \/ calls[i] = "absent"
                      \/ calls[i] = "open" /\ calls'[i] # "absent"
                      \/ calls'[i] = calls[i]

Stream ==
  /\ turn = "streaming" /\ turn' \in {"streaming", "sealed"}
  /\ Moves
  /\ UNCHANGED runs

Finish ==
  /\ turn \in {"streaming", "sealed"} /\ turn' = "done"
  /\ Moves
  /\ turn = "sealed" => UNCHANGED calls
  /\ runs' = {i \in Index : calls'[i] = "use"}

(* The stream raises.                                                      *)
Fail ==
  /\ \/ turn = "streaming" /\ \A i \in Index : calls[i] = "absent"
     \/ turn = "sealed"
  /\ turn' = "failed"
  /\ UNCHANGED <<calls, runs>>

(* The loop stops listening: the run was cancelled.                         *)
Drop ==
  /\ turn \in {"streaming", "sealed"} /\ turn' = "dropped"
  /\ UNCHANGED <<calls, runs>>

Next == Stream \/ Finish \/ Fail \/ Drop

Spec == Init /\ [][Next]_vars
=============================================================================
