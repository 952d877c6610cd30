---------------------------- MODULE UsageRecords ----------------------------
(***************************************************************************)
(* The tokens a provider reports and how they are normalized                *)
(* (rd_llm_adapter/_usage.py, UsageUpdate of events.py).  A report is a     *)
(* record of whatever fields the provider has; a field of its details, of   *)
(* the prompt or of the input, bears the prefix details.  Totals and        *)
(* reasoning tokens are left out: the first is a sum, the second goes the   *)
(* way of the others.                                                      *)
(***************************************************************************)
EXTENDS Integers

(* read and creation: input tokens read from a cache, or written to one.    *)
Usage == [input : Nat, output : Nat, read : Nat, creation : Nat]

Zero == [input |-> 0, output |-> 0, read |-> 0, creation |-> 0]

(* _ALIASES and the keys of the details: the field a name stands for.       *)
Canonical ==
  [input_tokens |-> "input", prompt_tokens |-> "input",
   prompt_token_count |-> "input",
   output_tokens |-> "output", completion_tokens |-> "output",
   candidates_token_count |-> "output",
   cache_read_input_tokens |-> "read", cached_input_tokens |-> "read",
   cache_creation_input_tokens |-> "creation",
   details_cached_tokens |-> "read", details_cache_read_tokens |-> "read",
   details_cache_read_input_tokens |-> "read",
   details_cache_creation_input_tokens |-> "creation"]

(* No report, or an empty one.                                             *)
NoReport == [input_tokens |-> 0]

IsReport(raw) ==
  DOMAIN raw \subseteq DOMAIN Canonical /\ \A name \in DOMAIN raw : raw[name] \in Nat

Field(raw, name) == IF name \in DOMAIN raw THEN raw[name] ELSE 0

(* has_split_cache_fields, of the top level alone.                          *)
HasSplitFields(raw) ==
  {"cache_read_input_tokens", "cache_creation_input_tokens"} \cap DOMAIN raw # {}

(* The sum cached_input_tokens is passed over where its parts stand beside  *)
(* it, but not where they stand in the details.                             *)
Counted(raw) ==
  DOMAIN raw \ (IF HasSplitFields(raw) THEN {"cached_input_tokens"} ELSE {})

(* normalize_usage: the fields that stand for the same are added up.        *)
NormalizeUsage(raw) ==
  LET Of(name) == IF name \in Counted(raw) THEN raw[name] ELSE 0 IN
  [input |-> Of("input_tokens") + Of("prompt_tokens") + Of("prompt_token_count"),
   output |-> Of("output_tokens") + Of("completion_tokens")
                + Of("candidates_token_count"),
   read |-> Of("cache_read_input_tokens") + Of("cached_input_tokens")
              + Of("details_cached_tokens") + Of("details_cache_read_tokens")
              + Of("details_cache_read_input_tokens"),
   creation |-> Of("cache_creation_input_tokens")
                  + Of("details_cache_creation_input_tokens")]

(* to_dict: a cache field is there unless it is zero, and then so is the    *)
(* sum of both, which __post_init__ keeps.                                  *)
ToDict(usage) ==
  LET all == [input_tokens |-> usage.input, output_tokens |-> usage.output,
              cache_read_input_tokens |-> usage.read,
              cache_creation_input_tokens |-> usage.creation,
              cached_input_tokens |-> usage.read + usage.creation]
  IN [name \in {n \in DOMAIN all : \/ n \in {"input_tokens", "output_tokens"}
                                   \/ all[n] # 0} |-> all[name]]
=============================================================================
