----------------------------- MODULE LegacyEvents -----------------------------
(***************************************************************************)
(* What consumers of the older interface are given (openai_compat.py): the  *)
(* legacy deltas of a stream, and at its end the whole turn once more.      *)
(***************************************************************************)
EXTENDS StreamEvents

-----------------------------------------------------------------------------
(* standard_events_to_legacy_deltas: a name and the arguments that follow   *)
(* it for the same call become one delta.                                  *)

Legacy(type, i, id, name, args) ==
  [type |-> type, index |-> i, id |-> id, name |-> name, args |-> args]

NoLegacy == Legacy("none", 0, FALSE, FALSE, "none")

Flush(acc) ==
  [out |-> IF acc.pending = NoLegacy THEN acc.out
           ELSE Append(acc.out, acc.pending),
   pending |-> NoLegacy]

Emit(acc, delta) == [Flush(acc) EXCEPT !.out = Append(@, delta)]

(* Mutant of JoinsPending: the calls' indices are not compared.             *)
JoinsPendingOfAny(acc, e) == acc.pending # NoLegacy

JoinsPending(acc, e) == acc.pending # NoLegacy /\ acc.pending.index = e.index

LegacyStep(acc, e) ==
  CASE e.type \in {"text", "reasoning"} ->
         Emit(acc, Legacy(e.type, 0, FALSE, FALSE, e.what))
    [] e.type = "name" ->
         [Flush(acc) EXCEPT
            !.pending = Legacy("tool", e.index, e.id, TRUE, "none")]
    [] e.type = "args" /\ JoinsPending(acc, e) ->
         Flush([acc EXCEPT
                  !.pending = Legacy("tool", e.index, @.id \/ e.id, TRUE, e.what)])
    [] e.type = "args" /\ ~JoinsPending(acc, e) ->
         Emit(acc, Legacy("tool", e.index, e.id, FALSE, e.what))
    [] OTHER -> acc

LegacyDeltas(events) ==
  Flush(Fold(LegacyStep, [out |-> <<>>, pending |-> NoLegacy], events)).out

(* A tool_use of legacy content: an invalid call has the input {} and the   *)
(* mark input_parse_error.                                                 *)
LegacyCall(b) ==
  [index |-> b.index, error |-> b.kind = "invalid",
   input |-> IF b.kind = "invalid" THEN "empty" ELSE b.args]

(* The joined texts of the blocks of a kind: where the pieces that are not   *)
(* empty come from, and their sizes.                                       *)
Joined(content, kind) ==
  {[index |-> b.index, size |-> b.size] :
     b \in {c \in content : c.kind = kind /\ c.size > 0}}

(* terminal_events_from_turn_done: the reasoning and the text of the turn,  *)
(* joined, and its calls.                                                  *)
TerminalEvents(content) ==
  [reasoning |-> Joined(content, "reasoning"),
   text |-> Joined(content, "text"),
   calls |-> {LegacyCall(b) :
                b \in {c \in content : c.kind \in {"tool_use", "invalid"}}}]
=============================================================================
