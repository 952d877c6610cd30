--------------------------- MODULE ProviderRequest ---------------------------
(***************************************************************************)
(* What the next request shows a provider of a finished turn: the messages  *)
(* of build_messages_after_turn (rd_agent_core/run.py), as they come out of *)
(* _message_to_adapter_message (llm_clients.py) and of the adapter's        *)
(* build_openai_messages or _anthropic_message.  Calls and results are      *)
(* paired by their ids; the turn kernel gives each call one result, under   *)
(* the call's id.                                                          *)
(***************************************************************************)
EXTENDS StreamEvents

(* The id of a call that never got one, "" for all of them.                 *)
NoId == -1

Ids == Index \cup {NoId}

CallsOf(content) == {b \in content : b.kind = "tool_use"}

TextsOf(content) == {b \in content : b.kind = "text"}

IdOf(b) == IF b.id THEN b.index ELSE NoId

(* The ids of the calls, call by call.                                      *)
CallIds(content) ==
  LET order == Ordered({b.index : b \in CallsOf(content)})
  IN [k \in 1..Len(order) |->
        IdOf(CHOOSE b \in CallsOf(content) : b.index = order[k])]

(* What the turn kernel has of their results: the call's id, unless an      *)
(* executor names another, which is taken not to happen.                    *)
ResultIds(content) == CallIds(content)

(* build_messages_after_turn raises: as many results as calls, no two under *)
(* one id, none missing.                                                   *)
PairingFails(calls, results) ==
  \/ Len(calls) # Len(results)
  \/ \E k, l \in 1..Len(results) : k # l /\ results[k] = results[l]
  \/ \E k \in 1..Len(calls) : \A l \in 1..Len(results) : results[l] # calls[k]

-----------------------------------------------------------------------------
(* The messages.                                                           *)

NoResult == -2

(* A message to the provider: its role, whether it has text, the ids of an  *)
(* assistant's calls, and the id a result is for.                           *)
Message(role, text, calls, result) ==
  [role |-> role, text |-> text, calls |-> calls, result |-> result]

(* A message per call, with the result under its id.                        *)
Results(role, content) ==
  LET ids == CallIds(content)
  IN [k \in 1..Len(ids) |-> Message(role, FALSE, <<>>, ids[k])]

(* One assistant message that joins texts and calls; without calls one per  *)
(* text, so that of a turn with invalid calls only nothing is left.         *)
OpenAIAssistant(content) ==
  IF CallsOf(content) # {}
  THEN <<Message("assistant", TextsOf(content) # {}, CallIds(content), NoResult)>>
  ELSE [k \in 1..Cardinality(TextsOf(content)) |->
          Message("assistant", TRUE, <<>>, NoResult)]

AnthropicAssistant(content) ==
  <<Message("assistant", TextsOf(content) # {}, CallIds(content), NoResult)>>

(* A block _anthropic_reasoning_block raises a ValueError about.            *)
Unsigned(b) == b.kind = "reasoning" /\ ~b.signed

Unsendable(provider, content) ==
  provider = "anthropic" /\ \E b \in content : Unsigned(b)

Request(provider, content) ==
  IF provider = "openai"
  THEN OpenAIAssistant(content) \o Results("tool", content)
  ELSE AnthropicAssistant(content) \o Results("user", content)
=============================================================================
