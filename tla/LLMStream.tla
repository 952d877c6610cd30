------------------------------ MODULE LLMStream ------------------------------
(***************************************************************************)
(* One streamed turn: _stream_with_recovery (rd_agent_core/llm_clients.py)  *)
(* between a provider and the turn kernel that consumes its events.  Either *)
(* client feeds the chunks of its transport to its parser session; when     *)
(* the transport ends it finalizes the session, and when the transport or   *)
(* the parser raises it asks finalize_on_error for what can be saved.       *)
(*                                                                         *)
(* The providers are the environment: their chunks are well formed, blocks  *)
(* of one turn may interleave, and at any moment the connection may close   *)
(* cleanly or break, or the run be cancelled.  The events of a chunk reach  *)
(* the consumer in one step: nothing is awaited between them.               *)
(***************************************************************************)
EXTENDS ProviderRequest, LegacyEvents

CONSTANTS
  Providers,    (* "openai" and "anthropic", or one of them                *)
  OpenAIChunks, (* what a chunk of an OpenAI-compatible provider may be    *)
  MaxText,      (* bound on the fragments of a text or a thinking          *)
  Reports       (* what an Anthropic provider may report of its tokens     *)

VARIABLES
  provider, (* the provider of this turn                                   *)
  session,  (* the parser session of its client                            *)
  batch,    (* the events of the last call of the session                  *)
  stream,   (* reading; or ended, recovered, raised, abandoned             *)
  turn,     (* the TurnDone received, or NoTurn                            *)
  seen,     (* what the consumer made of the events                        *)
  sent      (* what the provider has sent                                  *)

vars == <<provider, session, batch, stream, turn, seen, sent>>

OpenAI == INSTANCE OpenAISession

Anthropic == INSTANCE AnthropicSession

ASSUME StreamConstants ==
  /\ Providers \subseteq {"openai", "anthropic"}
  /\ MaxText \in Nat
  /\ \A raw \in Reports : IsReport(raw)
  /\ \A chunk \in OpenAIChunks : OpenAI!IsChunk(chunk)

NoTurn == [stop |-> "none", content |-> {}, usage |-> Zero]

Phases == {"open", "blocks", "finished", "closed"}

-----------------------------------------------------------------------------
(* The consumer.                                                           *)

(* The lifecycle events.py gives a tool call: started, then deltas, then    *)
(* its end, all before TurnDone.                                           *)
NextStage(stage, e, sealed) ==
  CASE sealed -> "bad"
    [] ~sealed /\ e.type = "start" /\ stage = "absent" -> "open"
    [] ~sealed /\ e.type \in {"id", "name", "args"} /\ stage = "open" -> "open"
    [] ~sealed /\ e.type = "end" /\ stage = "open" -> e.what
    [] OTHER -> "bad"

Consume(known, e) ==
  CASE e.type = "text" -> [known EXCEPT !.text[e.index] = @ + 1]
    [] e.type = "reasoning" -> [known EXCEPT !.reasoning[e.index] = @ + 1]
    [] e.type = "usage" -> known
    [] e.type = "turn_done" -> [known EXCEPT !.sealed = TRUE]
    [] OTHER -> [known EXCEPT !.calls[e.index] =
                                NextStage(@, e, known.sealed)]

Done(events) ==
  {events[k] : k \in {l \in 1..Len(events) : events[l].type = "turn_done"}}

(* What a call of the session yields reaches the consumer.                  *)
Deliver ==
  /\ seen' = Fold(Consume, seen, batch')
  /\ turn' = IF Done(batch') = {} THEN turn
             ELSE (CHOOSE e \in Done(batch') : TRUE).turn

Passes == Deliver /\ UNCHANGED <<provider, stream>>

-----------------------------------------------------------------------------
(* The providers.                                                          *)

(* The next fragment of a call's arguments a provider may send.             *)
Continues(args, fragment) ==
  \/ fragment = "none"
  \/ args = "empty" /\ fragment \in {"begin", "object", "list"}
  \/ args = "part" /\ fragment = "end"

Sends(args, d) ==
  IF d.args = "none" THEN args ELSE [args EXCEPT ![d.index] = Concat(@, d.args)]

Identifies(ids, d) == IF d.id THEN ids \cup {d.index} ELSE ids

InputNames == <<"input_tokens", "prompt_tokens", "prompt_token_count">>

OutputNames ==
  <<"output_tokens", "completion_tokens", "candidates_token_count">>

ReadNames ==
  <<"cache_read_input_tokens", "details_cached_tokens",
    "details_cache_read_tokens", "details_cache_read_input_tokens">>

CreationNames ==
  <<"cache_creation_input_tokens", "details_cache_creation_input_tokens">>

(* The names of a quantity that a report has.                               *)
Named(raw, names) == {k \in 1..Len(names) : names[k] \in DOMAIN raw}

(* What a provider says of a quantity, under the first of its names.        *)
Said(raw, names) ==
  LET used == Named(raw, names) IN
  IF used = {} THEN 0
  ELSE raw[names[CHOOSE k \in used : \A l \in used : k <= l]]

HasParts(raw) == Named(raw, ReadNames) # {} \/ Named(raw, CreationNames) # {}

(* What it means: the input, output and cached tokens of the turn so far.   *)
(* A sum of what is cached counts as read where it stands without parts.    *)
Meant(raw) ==
  [input |-> Said(raw, InputNames), output |-> Said(raw, OutputNames),
   read |-> IF HasParts(raw) THEN Said(raw, ReadNames)
            ELSE Said(raw, <<"cached_input_tokens">>),
   creation |-> Said(raw, CreationNames)]

(* A report has one name for a quantity; the sum of what is cached stands   *)
(* alone, or beside its parts and is their sum.                             *)
IsClear(raw) ==
  /\ \A names \in {InputNames, OutputNames, ReadNames, CreationNames} :
       \A k, l \in Named(raw, names) : k = l
  /\ "cached_input_tokens" \in DOMAIN raw /\ HasParts(raw) =>
       raw["cached_input_tokens"] = Said(raw, ReadNames) + Said(raw, CreationNames)

(* The sum stands at the top level and its parts in the details, where      *)
(* has_split_cache_fields does not look.                                    *)
SumBesideDetails(raw) ==
  /\ "cached_input_tokens" \in DOMAIN raw
  /\ HasParts(raw) /\ ~HasSplitFields(raw)

(* Anthropic's names of what it reports.                                    *)
AnthropicNames ==
  {"input_tokens", "output_tokens", "cache_read_input_tokens",
   "cache_creation_input_tokens", "cached_input_tokens"}

ASSUME ReportsAssumption ==
  /\ \A chunk \in OpenAIChunks : IsClear(chunk.usage)
  /\ \A raw \in Reports : IsClear(raw) /\ DOMAIN raw \subseteq AnthropicNames

(* Usage is reported in growing totals.                                     *)
Grows(raw) ==
  \/ raw = NoReport
  \/ \A f \in DOMAIN Zero : Meant(raw)[f] >= sent.usage[f]

Larger(m, n) == IF m >= n THEN m ELSE n

Reported(raw) ==
  IF raw = NoReport THEN sent.usage
  ELSE [f \in DOMAIN Zero |-> Larger(sent.usage[f], Meant(raw)[f])]

(* A chunk of an OpenAI-compatible provider: behind the finish reason only  *)
(* usage comes; a call gets its id and its name once.                       *)
WellFormed(chunk) ==
  /\ sent.phase = "finished" =>
       ~chunk.text /\ ~chunk.reasoning /\ chunk.calls = <<>>
       /\ chunk.finish = "none"
  /\ chunk.text => session.text < MaxText
  /\ chunk.reasoning => session.reasoning < MaxText
  /\ Grows(chunk.usage)
  /\ \A k \in 1..Len(chunk.calls) :
       LET d == chunk.calls[k] IN
       /\ Continues(sent.args[d.index], d.args)
       /\ d.id => d.index \notin sent.ids
       /\ d.name => ~session.calls[d.index].name

OpenAISends(chunk) ==
  /\ provider = "openai" /\ stream = "reading"
  /\ WellFormed(chunk)
  /\ OpenAI!Feed(chunk)
  /\ sent' = [sent EXCEPT
       !.args = Fold(Sends, @, chunk.calls),
       !.ids = Fold(Identifies, @, chunk.calls),
       !.usage = Reported(chunk.usage),
       !.phase = IF chunk.finish # "none" THEN "finished" ELSE @]
  /\ Passes

Sending(phase) ==
  provider = "anthropic" /\ stream = "reading" /\ sent.phase = phase

(* A report may leave fields out, which read as zero.                       *)
Extends(raw) ==
  \A f \in DOMAIN Zero : Meant(raw)[f] = 0 \/ Meant(raw)[f] >= sent.usage[f]

MessageStart(report) ==
  /\ Sending("open")
  /\ Anthropic!Report(report, "none")
  /\ sent' = [sent EXCEPT !.usage = Reported(report), !.phase = "blocks"]
  /\ Passes

BlockStart(i, kind, signature) ==
  /\ Sending("blocks")
  /\ session.kinds[i] = "none"
  /\ signature => kind = "thinking"
  /\ Anthropic!BlockStart(i, kind, signature)
  /\ sent' = [sent EXCEPT !.open = @ \cup {i},
                          !.ids = IF kind = "tool_use" THEN @ \cup {i} ELSE @]
  /\ Passes

TextSent(i) ==
  /\ Sending("blocks")
  /\ i \in sent.open /\ session.size[i] < MaxText
  /\ Anthropic!TextArrives(i)
  /\ UNCHANGED sent
  /\ Passes

SignatureSent(i) ==
  /\ Sending("blocks")
  /\ i \in sent.open
  /\ Anthropic!SignatureArrives(i)
  /\ UNCHANGED sent
  /\ Passes

ArgumentsSent(i, fragment) ==
  /\ Sending("blocks")
  /\ i \in sent.open /\ Continues(sent.args[i], fragment)
  /\ Anthropic!ArgumentsArrive(i, fragment)
  /\ sent' = [sent EXCEPT !.args[i] = Concat(@, fragment)]
  /\ Passes

(* A provider signs a thinking before it stops it.                          *)
BlockStop(i) ==
  /\ Sending("blocks")
  /\ i \in sent.open
  /\ session.kinds[i] = "thinking" => session.signed[i]
  /\ Anthropic!BlockStop(i)
  /\ sent' = [sent EXCEPT !.open = @ \ {i}]
  /\ Passes

MessageDelta(report, stop) ==
  /\ Sending("blocks")
  /\ sent.open = {} /\ Extends(report)
  /\ Anthropic!Report(report, stop)
  /\ sent' = [sent EXCEPT !.usage = Reported(report), !.phase = "finished"]
  /\ Passes

MessageStop ==
  /\ Sending("finished")
  /\ Anthropic!MessageStop
  /\ sent' = [sent EXCEPT !.phase = "closed"]
  /\ Passes

-----------------------------------------------------------------------------
(* _stream_with_recovery.                                                  *)

(* The transport ends without an exception, wherever the turn stands.       *)
StreamEnds ==
  /\ stream = "reading"
  /\ IF provider = "openai" THEN OpenAI!Finalize ELSE Anthropic!Finalize
  /\ Deliver
  /\ stream' = "ended"
  /\ UNCHANGED <<provider, sent>>

(* The transport raises, or feed does on an error chunk: what is recovered  *)
(* ends the turn, else the exception goes on.                               *)
StreamBreaks ==
  /\ stream = "reading"
  /\ IF provider = "openai" THEN OpenAI!FinalizeOnError
     ELSE Anthropic!FinalizeOnError
  /\ Deliver
  /\ stream' = IF batch' = <<>> THEN "raised" ELSE "recovered"
  /\ UNCHANGED <<provider, sent>>

(* run_turn sees the cancellation token and leaves the stream.              *)
Abandoned ==
  /\ stream = "reading"
  /\ stream' = "abandoned"
  /\ UNCHANGED <<provider, session, batch, turn, seen, sent>>

Init ==
  /\ provider \in Providers
  /\ session = IF provider = "openai" THEN OpenAI!NewSession
               ELSE Anthropic!NewSession
  /\ batch = <<>>
  /\ stream = "reading"
  /\ turn = NoTurn
  /\ seen = [calls |-> [i \in Index |-> "absent"], text |-> [i \in Index |-> 0],
             reasoning |-> [i \in Index |-> 0], sealed |-> FALSE]
  /\ sent = [args |-> [i \in Index |-> "empty"], ids |-> {}, usage |-> Zero,
             open |-> {}, phase |-> "open"]

OpenAIChunk == \E chunk \in OpenAIChunks : OpenAISends(chunk)

AnthropicReport ==
  \E report \in Reports :
    \/ MessageStart(report)
    \/ \E stop \in Anthropic!StopReasons \ {"none"} : MessageDelta(report, stop)

AnthropicBlock(i) ==
  \/ \E kind \in Anthropic!Kinds, signature \in BOOLEAN :
       BlockStart(i, kind, signature)
  \/ TextSent(i)
  \/ SignatureSent(i)
  \/ \E fragment \in Fragments : ArgumentsSent(i, fragment)
  \/ BlockStop(i)

Next ==
  \/ OpenAIChunk
  \/ AnthropicReport
  \/ \E i \in Index : AnthropicBlock(i)
  \/ MessageStop
  \/ StreamEnds
  \/ StreamBreaks
  \/ Abandoned

Spec == Init /\ [][Next]_vars

-----------------------------------------------------------------------------
(* Properties.                                                             *)

(* Every part of the state has its type.                                    *)
TypeOK ==
  /\ provider \in Providers
  /\ IF provider = "openai" THEN session \in OpenAI!Session
     ELSE session \in Anthropic!Session
  /\ stream \in {"reading", "ended", "recovered", "raised", "abandoned"}
  /\ seen \in [calls : [Index -> {"absent", "open", "use", "invalid"}],
               text : [Index -> Nat], reasoning : [Index -> Nat],
               sealed : BOOLEAN]
  /\ sent \in [args : [Index -> Arguments], ids : SUBSET Index, usage : Usage,
               open : SUBSET Index, phase : Phases]

(* The calls the turn kernel executes: those of the TurnDone, unless the    *)
(* stream raised or was left.                                              *)
ToExecute ==
  {b.index : b \in {c \in turn.content : /\ c.kind = "tool_use"
                                         /\ stream \in {"ended", "recovered"}}}

Phase ==
  CASE stream = "reading" /\ turn = NoTurn -> "streaming"
    [] stream = "reading" /\ turn # NoTurn -> "sealed"
    [] stream \in {"ended", "recovered"} -> "done"
    [] stream = "raised" -> "failed"
    [] stream = "abandoned" -> "dropped"

Contract == INSTANCE StreamContract
              WITH calls <- seen.calls, turn <- Phase, runs <- ToExecute

(* Both parsers keep the contract of the event stream: each tool call is    *)
(* started once, ends at most once and before TurnDone, the content of the  *)
(* turn agrees with the ends, and a stream that raises has announced no     *)
(* call unless its turn was done.                                          *)
KeepsContract == Contract!Spec

(* A call that is executed has the arguments its provider sent for it and   *)
(* no half of them, whatever other calls interleave with it and wherever    *)
(* the stream breaks; and a call whose block was not stopped is executed    *)
(* only of a turn that says it broke.  (Of one that broke before its        *)
(* arguments began see CutCallNeverRuns.)                                   *)
NoHalfArgumentsRun ==
  \A b \in turn.content :
    b.kind = "tool_use" =>
      /\ b.args = sent.args[b.index] /\ b.args # "part"
      /\ b.index \in sent.open => turn.stop = "error"

(* HOST-INTEGRATION-CONTRACT.md: a partial tool call is not handed to the   *)
(* executor; enums.py: one that a length limit cut off before it was closed *)
(* is never executed.  A call is cut off while its block is open, or, of an *)
(* OpenAI-compatible provider, when no finish reason came or it is "length";*)
(* without the whole of its arguments it must not be executed.              *)
CutOff(i) ==
  IF provider = "anthropic" THEN i \in sent.open
  ELSE sent.phase = "open" \/ session.finish = "length"

CutCallNeverRuns ==
  \A i \in ToExecute : CutOff(i) => sent.args[i] = "object"

BlocksOf(i, kinds) == {b \in turn.content : b.index = i /\ b.kind \in kinds}

(* Nothing streamed to the consumer is missing from the turn's content      *)
(* or differs from it, save blocks left open by a stream that closes        *)
(* without an error.                                                       *)
ContentIsWhatWasStreamed ==
  turn # NoTurn =>
    \A i \in Index :
      \/ i \in sent.open /\ turn.stop # "error"
      \/ /\ seen.text[i] > 0 => BlocksOf(i, {"text"}) = {TextBlock(i, seen.text[i])}
         /\ seen.reasoning[i] > 0 =>
              \E signed \in BOOLEAN :
                BlocksOf(i, {"reasoning"})
                  = {ReasoningBlock(i, seen.reasoning[i], signed)}
         /\ seen.calls[i] # "absent" =>
              BlocksOf(i, {"tool_use", "invalid"})
                = {CallBlock(i, i \in sent.ids, sent.args[i])}

(* A stream that breaks never passes for a finished one: either its turn    *)
(* has the stop reason "error" and something in it, or the exception goes   *)
(* on, and then the consumer had seen nothing unless the turn was done.     *)
(* One that ends is always a turn.                                         *)
BrokenStreamShows ==
  /\ stream = "ended" => turn # NoTurn
  /\ stream = "recovered" => turn.stop = "error" /\ turn.content # {}
  /\ stream = "raised" /\ turn = NoTurn =>
       \A i \in Index : /\ seen.text[i] = 0 /\ seen.reasoning[i] = 0
                        /\ seen.calls[i] = "absent"

(* The usage of the turn is the total the provider reported last, though    *)
(* reports may leave out what an earlier one held, or give the sum of what  *)
(* is cached beside its parts; and it is counted once where it goes through *)
(* a dict and is normalized again, as a legacy consumer of the response may *)
(* do.  It holds of providers without a sum beside details.                 *)
UsageCountedOnce ==
  turn # NoTurn =>
    /\ turn.usage = sent.usage
    /\ NormalizeUsage(ToDict(turn.usage)) = sent.usage

(* API-REFERENCE.md: cached_input_tokens is for compatible input only and   *)
(* must not be added as further tokens: what a turn reports as cached is    *)
(* what its provider reported, wherever the parts of the sum stand.         *)
LegacySumNotAdded ==
  turn # NoTurn =>
    turn.usage.read + turn.usage.creation = sent.usage.read + sent.usage.creation

(* What a consumer of a chunk's legacy deltas hears: how much text and      *)
(* reasoning, how many names of each call, and its arguments in their order.*)
Silence ==
  [text |-> 0, reasoning |-> 0, names |-> [i \in Index |-> 0],
   args |-> [i \in Index |-> <<>>]]

HearDelta(heard, d) ==
  CASE d.type = "text" -> [heard EXCEPT !.text = @ + 1]
    [] d.type = "reasoning" -> [heard EXCEPT !.reasoning = @ + 1]
    [] OTHER ->
         [heard EXCEPT
            !.names[d.index] = IF d.name THEN @ + 1 ELSE @,
            !.args[d.index] = IF d.args = "none" THEN @ ELSE Append(@, d.args)]

(* What the consumer of the events hears.                                   *)
HearEvent(heard, e) ==
  CASE e.type = "text" -> [heard EXCEPT !.text = @ + 1]
    [] e.type = "reasoning" -> [heard EXCEPT !.reasoning = @ + 1]
    [] e.type = "name" -> [heard EXCEPT !.names[e.index] = @ + 1]
    [] e.type = "args" -> [heard EXCEPT !.args[e.index] = Append(@, e.what)]
    [] OTHER -> heard

(* The legacy deltas of a chunk hold its texts, names and argument          *)
(* fragments, each once, in order and under the call it belongs to.         *)
FragmentsKept ==
  Fold(HearDelta, Silence, LegacyDeltas(batch)) = Fold(HearEvent, Silence, batch)

(* The pieces of what was shown under each index.                           *)
Shown(sizes) ==
  {[index |-> i, size |-> sizes[i]] : i \in {j \in Index : sizes[j] > 0}}

(* A legacy consumer is given at the end what the deltas had shown it: the  *)
(* same text and reasoning, and each call that was announced, with its      *)
(* arguments or the mark that they are invalid; save blocks left open by a  *)
(* stream that closes without an error.                                    *)
EndRepeatsDeltas ==
  turn # NoTurn /\ (sent.open = {} \/ turn.stop = "error") =>
    LET end == TerminalEvents(turn.content) IN
    /\ end.text = Shown(seen.text)
    /\ end.reasoning = Shown(seen.reasoning)
    /\ {c.index : c \in end.calls} = {i \in Index : seen.calls[i] # "absent"}
    /\ \A c \in end.calls :
         /\ c.error <=> seen.calls[c.index] = "invalid"
         /\ ~c.error => c.input = sent.args[c.index]

(* A consumer of the legacy events finds the streamed turn in the deltas,   *)
(* and again in the end.                                                    *)
LegacySeesTheTurn == FragmentsKept /\ EndRepeatsDeltas

(* The id a provider has given the call at an index.                        *)
IdSent(i) == IF i \in sent.ids THEN i ELSE NoId

(* Building the messages of the next request fails exactly where two calls  *)
(* were executed that never got an id.  Otherwise the request names each    *)
(* executed call once, by the id its provider gave it, also when that came  *)
(* late, and no other; each is followed by its one result.                  *)
RequestPairsCalls ==
  ToExecute # {} =>
    LET ids == CallIds(turn.content)
        request == Request(provider, turn.content)
        Calls(k) == {request[k].calls[n] : n \in 1..Len(request[k].calls)}
    IN /\ PairingFails(ids, ResultIds(turn.content)) <=>
            \E i, j \in ToExecute : i # j /\ {i, j} \cap sent.ids = {}
       /\ ~PairingFails(ids, ResultIds(turn.content)) =>
            /\ UNION {Calls(k) : k \in 1..Len(request)} = {IdSent(i) : i \in ToExecute}
            /\ \A i \in ToExecute :
                 \E k, l \in 1..Len(request) :
                   /\ k < l /\ IdSent(i) \in Calls(k)
                   /\ \A m \in 1..Len(request) :
                        request[m].result = IdSent(i) <=> m = l

(* The content of a turn whose stream did not break has no thinking that    *)
(* its provider's adapter refuses to send back: no later turn of the run    *)
(* fails over one.  (Of calls without an id see RequestPairsCalls.)         *)
FinishedTurnCanBeSent ==
  stream = "ended" => ~Unsendable(provider, turn.content)
=============================================================================
