----------------------------- MODULE MCSubagents -----------------------------
(***************************************************************************)
(* Instances of SubagentRunner for TLC: two tasks, one with a write scope.  *)
(***************************************************************************)
EXTENDS SubagentRunner

Ends(reason, toolError, validation) ==
  [reason |-> reason, toolError |-> toolError, validation |-> validation]

Endings == {Ends("end_turn", FALSE, "passed"), Ends("end_turn", TRUE, "failed"),
            Ends("ask_user", FALSE, "none"), Ends("max_turns", FALSE, "none"),
            Ends("cancelled", FALSE, "none")}

Has(shared, retries, isolated, lenient, observes, crashes, removes) ==
  [shared |-> shared, retries |-> retries, isolated |-> isolated,
   lenient |-> lenient, observes |-> observes, crashes |-> crashes,
   removes |-> removes]

(* Coroutines of one loop with an observer, and processes without one:      *)
(* with retries and without, with crashes and without.                      *)
Hosts ==
  {Has(TRUE, r, TRUE, TRUE, TRUE, FALSE, FALSE) : r \in BOOLEAN} \cup
  {Has(FALSE, FALSE, TRUE, FALSE, TRUE, FALSE, FALSE),
   Has(FALSE, TRUE, TRUE, TRUE, FALSE, FALSE, FALSE),
   Has(FALSE, FALSE, TRUE, FALSE, FALSE, TRUE, FALSE),
   Has(TRUE, FALSE, TRUE, FALSE, FALSE, FALSE, TRUE)}

=============================================================================
