---------------------------- MODULE OpenAISession ----------------------------
(***************************************************************************)
(* OpenAICompatParserSession (rd_llm_adapter/openai_compat.py): one turn    *)
(* read from Chat Completions chunks.  Text and reasoning go to one buffer  *)
(* each; tool calls are told apart by their index and may arrive           *)
(* interleaved, with id and name in any of their deltas.                   *)
(***************************************************************************)
EXTENDS StreamEvents

VARIABLES
  session, (* the parser session                                          *)
  batch    (* the events of the last call                                  *)

Entry == [started : BOOLEAN, id : BOOLEAN, name : BOOLEAN, args : Arguments]

NoEntry == [started |-> FALSE, id |-> FALSE, name |-> FALSE, args |-> "empty"]

FinishReasons == {"none", "stop", "tool_calls", "length"}

ToolDelta == [index : Index, id : BOOLEAN, name : BOOLEAN,
              args : Fragments \cup {"none"}]

(* A chunk: usage, reasoning, text, tool deltas, finish reason.             *)
(* usage: the report, NoReport where the chunk has none.                    *)
IsChunk(chunk) ==
  /\ IsReport(chunk.usage)
  /\ chunk.reasoning \in BOOLEAN /\ chunk.text \in BOOLEAN
  /\ chunk.calls \in Seq(ToolDelta) /\ chunk.finish \in FinishReasons

Session == [text : Nat, reasoning : Nat, calls : [Index -> Entry],
            usage : Usage, finish : FinishReasons, done : BOOLEAN]

NewSession == [text |-> 0, reasoning |-> 0, calls |-> [i \in Index |-> NoEntry],
               usage |-> Zero, finish |-> "none", done |-> FALSE]

Started == {i \in Index : session.calls[i].started}

HasPartialOutput == session.text > 0 \/ session.reasoning > 0 \/ Started # {}

-----------------------------------------------------------------------------
(* feed.                                                                   *)

(* Mutant of KnownEntry: every delta opens its call anew.                   *)
KnownEntryNever(calls, i) == FALSE

KnownEntry(calls, i) == calls[i].started

(* Mutant of Known: a delta without an id takes the call its id.            *)
KnownAnew(entry, d) ==
  [started |-> TRUE, id |-> d.id, name |-> entry.name \/ d.name,
   args |-> IF d.args = "none" THEN entry.args
            ELSE Concat(entry.args, d.args)]

Known(entry, d) ==
  [started |-> TRUE, id |-> entry.id \/ d.id, name |-> entry.name \/ d.name,
   args |-> IF d.args = "none" THEN entry.args
            ELSE Concat(entry.args, d.args)]

OnlyIf(condition, event) == IF condition THEN <<event>> ELSE <<>>

(* One delta of a tool call, after the calls and the events before it.      *)
FeedDelta(acc, d) ==
  LET known == KnownEntry(acc.calls, d.index)
      entry == Known(IF known THEN acc.calls[d.index] ELSE NoEntry, d)
  IN [calls |-> [acc.calls EXCEPT ![d.index] = entry],
      out |-> acc.out
                \o OnlyIf(~known, ToolCallStart(d.index))
                \o OnlyIf(d.id, Event("id", d.index, TRUE, "id"))
                \o OnlyIf(d.name, Event("name", d.index, entry.id, "name"))
                \o OnlyIf(d.args # "none",
                          Event("args", d.index, entry.id, d.args))]

Counts(flag) == IF flag THEN 1 ELSE 0

Feed(chunk) ==
  LET fed == Fold(FeedDelta, [calls |-> session.calls, out |-> <<>>], chunk.calls)
      usage == NormalizeUsage(chunk.usage)
  IN /\ batch' = OnlyIf(usage # Zero, UsageUpdate(usage))
                 \o OnlyIf(chunk.reasoning, ReasoningDelta(0))
                 \o OnlyIf(chunk.text, TextDelta(0))
                 \o fed.out
     /\ session' = [session EXCEPT
          !.usage = IF usage # Zero THEN usage ELSE @,
          !.finish = IF chunk.finish # "none" THEN chunk.finish ELSE @,
          !.reasoning = @ + Counts(chunk.reasoning),
          !.text = @ + Counts(chunk.text),
          !.calls = fed.calls]

-----------------------------------------------------------------------------
(* finalize and finalize_on_error.                                         *)

Content ==
  {ReasoningBlock(0, n, FALSE) : n \in {session.reasoning} \ {0}}
  \cup {TextBlock(0, n) : n \in {session.text} \ {0}}
  \cup {CallBlock(i, session.calls[i].id, session.calls[i].args) : i \in Started}

(* The calls are closed in the order of their indices.                      *)
Ends ==
  LET order == Ordered(Started)
  IN [k \in 1..Len(order) |->
        ToolCallEnd(order[k], session.calls[order[k]].args)]

MapFinishReason(reason) ==
  CASE reason = "tool_calls" -> "tool_use"
    [] reason = "none" -> "end_turn"
    [] OTHER -> reason

Complete(stop) ==
  /\ batch' = Append(Ends, TurnDone(stop, Content, session.usage))
  /\ session' = [session EXCEPT !.done = TRUE]

Nothing == batch' = <<>> /\ UNCHANGED session

Finalize ==
  IF session.done THEN Nothing ELSE Complete(MapFinishReason(session.finish))

(* Mutant of FinalizeOnError: only visible text counts as output.           *)
FinalizeOnErrorOfText ==
  IF session.done \/ session.text = 0 THEN Nothing ELSE Complete("error")

FinalizeOnError ==
  IF session.done \/ ~HasPartialOutput THEN Nothing ELSE Complete("error")
=============================================================================
