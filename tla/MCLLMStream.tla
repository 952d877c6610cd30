----------------------------- MODULE MCLLMStream -----------------------------
(***************************************************************************)
(* LLMStream on a small instance: both providers, two calls or blocks.      *)
(***************************************************************************)
EXTENDS LLMStream

Delta(i, id, name, args) ==
  [index |-> i, id |-> id, name |-> name, args |-> args]

(* A call is opened with its id, its name and perhaps all of its arguments, *)
(* or its id or its name come late; its arguments come in one or two.       *)
DeltasOf(i) ==
  {Delta(i, TRUE, TRUE, args) : args \in {"none", "begin", "object"}}
  \cup {Delta(i, TRUE, FALSE, "none"), Delta(i, FALSE, TRUE, "none"),
        Delta(i, FALSE, TRUE, "begin")}
  \cup {Delta(i, FALSE, FALSE, args) : args \in {"begin", "end", "list"}}

Deltas == UNION {DeltasOf(i) : i \in Index}

Chunk(usage, reasoning, text, calls, finish) ==
  [usage |-> usage, reasoning |-> reasoning, text |-> text, calls |-> calls,
   finish |-> finish]

(* A chunk may hold deltas of two calls: opened, whole, begun or ended.     *)
Halves(i) ==
  {Delta(i, TRUE, TRUE, args) : args \in {"none", "begin", "object"}}
  \cup {Delta(i, FALSE, FALSE, "end")}

Calls == {<<d>> : d \in Deltas} \cup {<<c, d>> : c \in Halves(0), d \in Halves(1)}

(* OpenAI's names, Gemini's, and those of a proxy that gives the parts and  *)
(* the sum of what is cached.                                              *)
Totals ==
  {[prompt_tokens |-> 1, completion_tokens |-> 0, details_cached_tokens |-> 1],
   [prompt_token_count |-> 1, candidates_token_count |-> 1],
   [input_tokens |-> 2, output_tokens |-> 1, cache_read_input_tokens |-> 1,
    cache_creation_input_tokens |-> 1, cached_input_tokens |-> 2]}

(* A proxy that gives the sum at the top level and the parts in the details.*)
SumAndDetails ==
  [prompt_tokens |-> 3, completion_tokens |-> 1, cached_input_tokens |-> 2,
   details_cache_read_input_tokens |-> 1,
   details_cache_creation_input_tokens |-> 1]

Chunks ==
  {Chunk(NoReport, FALSE, FALSE, calls, "none") : calls \in Calls}
  \cup {Chunk(NoReport, FALSE, TRUE, <<d>>, "none") : d \in Halves(0)}
  \cup {Chunk(NoReport, TRUE, text, <<>>, "none") : text \in BOOLEAN}
  \cup {Chunk(NoReport, FALSE, TRUE, <<>>, finish) : finish \in {"none", "length"}}
  \cup {Chunk(usage, FALSE, FALSE, <<>>, finish) :
          usage \in Totals \cup {NoReport}, finish \in {"none", "stop", "tool_calls"}}

SummingChunks ==
  {Chunk(NoReport, FALSE, TRUE, <<>>, "none"),
   Chunk(NoReport, FALSE, FALSE, <<>>, "stop"),
   Chunk(SumAndDetails, FALSE, FALSE, <<>>, "none")}

AnthropicReports ==
  {NoReport, [output_tokens |-> 1],
   [input_tokens |-> 1, cache_read_input_tokens |-> 1,
    cache_creation_input_tokens |-> 1, cached_input_tokens |-> 2],
   [input_tokens |-> 1, cached_input_tokens |-> 1]}
=============================================================================
