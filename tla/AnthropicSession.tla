--------------------------- MODULE AnthropicSession ---------------------------
(***************************************************************************)
(* AnthropicNativeParserSession (rd_llm_adapter/anthropic_native.py): one   *)
(* turn read from Messages chunks.  Each content block is opened, fed and   *)
(* stopped by chunks of its own; only stopped blocks reach the content,     *)
(* save after an error, when open ones are closed with what they hold.      *)
(***************************************************************************)
EXTENDS StreamEvents

VARIABLES
  session, (* the parser session                                          *)
  batch    (* the events of the last call                                  *)

Kinds == {"text", "thinking", "redacted_thinking", "tool_use"}

StopReasons == {"none", "end_turn", "max_tokens", "tool_use"}

(* kinds is block_kinds; size counts the fragments of a text or a thinking; *)
(* signed: a signature came; blocks is completed_blocks, stopped holds      *)
(* their indices.                                                          *)
Session == [kinds : [Index -> Kinds \cup {"none"}], size : [Index -> Nat],
            signed : [Index -> BOOLEAN], args : [Index -> Arguments],
            blocks : SUBSET Blocks, stopped : SUBSET Index, usage : Usage,
            stop : StopReasons, done : BOOLEAN]

NewSession == [kinds |-> [i \in Index |-> "none"],
               size |-> [i \in Index |-> 0],
               signed |-> [i \in Index |-> FALSE],
               args |-> [i \in Index |-> "empty"], blocks |-> {},
               stopped |-> {}, usage |-> Zero, stop |-> "none", done |-> FALSE]

Yields(events) == batch' = events

(* The fields of a report; a sum of cached tokens alone counts as read.     *)
FieldsOf(raw) ==
  LET read == Field(raw, "cache_read_input_tokens")
      creation == Field(raw, "cache_creation_input_tokens")
  IN [input |-> Field(raw, "input_tokens"),
      output |-> Field(raw, "output_tokens"),
      read |-> IF read = 0 /\ creation = 0
               THEN Field(raw, "cached_input_tokens") ELSE read,
      creation |-> creation]

(* Mutant of MergeUsage: the later report replaces the earlier one.         *)
MergeUsageAnew(usage, raw) ==
  IF FieldsOf(raw) = Zero THEN usage ELSE FieldsOf(raw)

(* _merge_usage: what a report leaves out or at zero keeps its value.       *)
MergeUsage(usage, raw) ==
  LET fields == FieldsOf(raw) IN
  [f \in DOMAIN usage |-> IF fields[f] # 0 THEN fields[f] ELSE usage[f]]

(* Mutant of BlockOf: the signature of a thinking is lost.                  *)
BlockOfUnsigned(i) ==
  CASE session.kinds[i] = "text" -> TextBlock(i, session.size[i])
    [] session.kinds[i] = "tool_use" -> CallBlock(i, TRUE, session.args[i])
    [] OTHER -> ReasoningBlock(i, session.size[i], FALSE)

(* The block an index holds; a call has come with its id.                   *)
BlockOf(i) ==
  CASE session.kinds[i] = "text" -> TextBlock(i, session.size[i])
    [] session.kinds[i] = "tool_use" -> CallBlock(i, TRUE, session.args[i])
    [] session.kinds[i] = "redacted_thinking" -> ReasoningBlock(i, 0, TRUE)
    [] OTHER -> ReasoningBlock(i, session.size[i], session.signed[i])

MapStopReason(reason) ==
  CASE reason \in {"none", "end_turn"} -> "stop"
    [] reason = "max_tokens" -> "length"
    [] OTHER -> reason

-----------------------------------------------------------------------------
(* feed, by the type of the chunk.                                         *)

(* message_start and message_delta.                                        *)
Report(report, stop) ==
  LET usage == MergeUsage(session.usage, report)
  IN /\ session' = [session EXCEPT !.usage = usage,
                                   !.stop = IF stop # "none" THEN stop ELSE @]
     /\ Yields(IF usage # Zero THEN <<UsageUpdate(usage)>> ELSE <<>>)

(* A thinking block may come with its signature.                            *)
BlockStart(i, kind, signature) ==
  /\ session' = [session EXCEPT !.kinds[i] = kind, !.size[i] = 0,
                                !.signed[i] = signature, !.args[i] = "empty"]
  /\ Yields(IF kind = "tool_use" THEN <<ToolCallStart(i)>> ELSE <<>>)

TextArrives(i) ==
  /\ session.kinds[i] \in {"text", "thinking"}
  /\ session' = [session EXCEPT !.size[i] = @ + 1]
  /\ Yields(<<IF session.kinds[i] = "text" THEN TextDelta(i)
              ELSE ReasoningDelta(i)>>)

SignatureArrives(i) ==
  /\ session.kinds[i] = "thinking"
  /\ session' = [session EXCEPT !.signed[i] = TRUE]
  /\ Yields(<<>>)

ArgumentsArrive(i, fragment) ==
  /\ session.kinds[i] = "tool_use"
  /\ session' = [session EXCEPT !.args[i] = Concat(@, fragment)]
  /\ Yields(<<Event("args", i, TRUE, fragment)>>)

BlockStop(i) ==
  /\ session.kinds[i] # "none"
  /\ session' = [session EXCEPT !.blocks = @ \cup {BlockOf(i)},
                                !.stopped = @ \cup {i}]
  /\ Yields(IF session.kinds[i] = "tool_use"
            THEN <<ToolCallEnd(i, session.args[i])>> ELSE <<>>)

(* _build_turn_done from completed_blocks, by message_stop or finalize.     *)
Complete ==
  /\ session' = [session EXCEPT !.done = TRUE]
  /\ Yields(<<TurnDone(MapStopReason(session.stop), session.blocks,
                       session.usage)>>)

Nothing == Yields(<<>>) /\ UNCHANGED session

MessageStop == IF session.done THEN Nothing ELSE Complete

Finalize == MessageStop

-----------------------------------------------------------------------------
(* finalize_on_error.                                                      *)

Open == {i \in Index : session.kinds[i] # "none"} \ session.stopped

(* Open blocks worth keeping: a text with text, a thinking with text or a   *)
(* signature, a redacted thinking, which has its data from the start, and   *)
(* every tool call.                                                        *)
Kept ==
  {i \in Open :
     CASE session.kinds[i] = "text" -> session.size[i] > 0
       [] session.kinds[i] = "thinking" ->
            session.size[i] > 0 \/ session.signed[i]
       [] OTHER -> TRUE}

(* Mutant of PartialBlocks: only what was stopped is kept.                  *)
PartialBlocksStopped == session.blocks

PartialBlocks == session.blocks \cup {BlockOf(i) : i \in Kept}

(* Mutant of PartialEvents: the open calls reach the content unannounced.   *)
PartialEventsNone == <<>>

(* The calls left open are closed in the order of their indices.            *)
PartialEvents ==
  LET order == Ordered({i \in Open : session.kinds[i] = "tool_use"})
  IN [k \in 1..Len(order) |-> ToolCallEnd(order[k], session.args[order[k]])]

FinalizeOnError ==
  IF session.done \/ PartialBlocks = {} THEN Nothing
  ELSE /\ session' = [session EXCEPT !.done = TRUE]
       /\ Yields(Append(PartialEvents,
                        TurnDone("error", PartialBlocks, session.usage)))
=============================================================================
