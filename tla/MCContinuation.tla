---------------------------- MODULE MCContinuation ----------------------------
(***************************************************************************)
(* Instances of ContinuationRunner for TLC: a root run r0, its continuation *)
(* r1, and a run r2 that continues r1.                                      *)
(***************************************************************************)
EXTENDS ContinuationRunner, TLC

Runs == {"r0", "r1", "r2", "gone"}

Job1 == [previous |-> "r0", next |-> "r1", max |-> 2]
Job2 == [previous |-> "r1", next |-> "r2", max |-> 1]

(* A continuation with a retry, then one of that continuation.              *)
Chain == {Job1, Job2}

(* The same, and a job whose previous run does not exist.                   *)
ChainAndStray == Chain \cup {[previous |-> "gone", next |-> "r2", max |-> 1]}

AllReasons == {"end_turn", "max_turns", "ask_user", "cancelled"}
TwoReasons == {"end_turn", "max_turns"}

Has(loop, patient, observes, crashes) ==
  [loop |-> loop, patient |-> patient, observes |-> observes,
   crashes |-> crashes]

(* Hosts in one process: any cutoff, with an observer or without.           *)
OneProcess == {Has(TRUE, p, o, FALSE) : p, o \in BOOLEAN}

(* Patient hosts with several processes, which may crash or not, and an     *)
(* impatient one on one loop.                                              *)
SeveralHosts ==
  {Has(FALSE, TRUE, TRUE, TRUE), Has(FALSE, TRUE, FALSE, FALSE),
   Has(TRUE, FALSE, FALSE, FALSE)}

(* A patient host without an observer, and with one.                        *)
Plain == {Has(TRUE, TRUE, FALSE, FALSE)}
Observing == {Has(TRUE, TRUE, TRUE, FALSE)}

Symmetry == Permutations(Workers)

=============================================================================
