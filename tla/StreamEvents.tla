---------------------------- MODULE StreamEvents ----------------------------
(***************************************************************************)
(* The events of a streamed turn (rd_llm_adapter/events.py) and the blocks  *)
(* of its content (rd_agent_contracts/transcript_blocks.py).                *)
(*                                                                         *)
(* Text is counted in fragments.  The arguments of a tool call are JSON,    *)
(* told apart by what json.loads makes of them: nothing sent yet, a text    *)
(* that does not parse, an object, or another value.  Ids and names only    *)
(* matter by having come or not: an id that came is the call's own.         *)
(***************************************************************************)
EXTENDS UsageRecords, Sequences, FiniteSets

CONSTANT Index  (* indices of tool calls and content blocks *)

ASSUME IndexAssumption ==
  Index \subseteq Nat /\ 0 \in Index /\ IsFiniteSet(Index)

Arguments == {"empty", "part", "object", "other"}

(* The pieces arguments arrive in: the two halves of an object, an object,  *)
(* and a value that is none.                                               *)
Fragments == {"begin", "end", "object", "list"}

Concat(args, fragment) ==
  CASE args = "empty" /\ fragment = "object" -> "object"
    [] args = "empty" /\ fragment = "list" -> "other"
    [] args = "part" /\ fragment = "end" -> "object"
    [] OTHER -> "part"

(* Mutant of Executable: what cannot be parsed counts as no arguments.      *)
ExecutableLax(args) == args # "other"

(* json.loads(raw_args) if raw_args else {}, which must be a dict.          *)
Executable(args) == args \in {"empty", "object"}

-----------------------------------------------------------------------------
(* Sequences, as the proofs can unfold them.                                *)

(* op applied to base and the elements of s, from the first to the last.    *)
Fold(op(_, _), base, s) ==
  LET upTo[k \in 0..Len(s)] == IF k = 0 THEN base ELSE op(upTo[k - 1], s[k])
  IN  upTo[Len(s)]

(* The numbers of a finite set, in their order.                             *)
Ordered(S) ==
  CHOOSE s \in [1..Cardinality(S) -> S] :
    /\ {s[k] : k \in DOMAIN s} = S
    /\ \A k, l \in DOMAIN s : k < l => s[k] < s[l]

-----------------------------------------------------------------------------
(* Blocks and events.                                                      *)

BlockKinds == {"text", "reasoning", "tool_use", "invalid"}

(* id: a call whose id came; signed: a thinking with its signature, or a    *)
(* redacted one with its data.                                             *)
Blocks == [kind : BlockKinds, index : Index, id : BOOLEAN, size : Nat,
           args : Arguments, signed : BOOLEAN]

Block(kind, i, id, size, args, signed) ==
  [kind |-> kind, index |-> i, id |-> id, size |-> size, args |-> args,
   signed |-> signed]

TextBlock(i, size) == Block("text", i, FALSE, size, "empty", FALSE)

ReasoningBlock(i, size, signed) ==
  Block("reasoning", i, FALSE, size, "empty", signed)

CallBlock(i, id, args) ==
  Block(IF Executable(args) THEN "tool_use" ELSE "invalid", i, id, 0, args, FALSE)

Event(type, i, id, what) ==
  [type |-> type, index |-> i, id |-> id, what |-> what]

TextDelta(i) == Event("text", i, FALSE, "fragment")

ReasoningDelta(i) == Event("reasoning", i, FALSE, "fragment")

ToolCallStart(i) == Event("start", i, FALSE, "none")

ToolCallEnd(i, args) ==
  Event("end", i, FALSE, IF Executable(args) THEN "use" ELSE "invalid")

UsageUpdate(usage) == [type |-> "usage", usage |-> usage]

TurnDone(stop, content, usage) ==
  [type |-> "turn_done",
   turn |-> [stop |-> stop, content |-> content, usage |-> usage]]
=============================================================================
