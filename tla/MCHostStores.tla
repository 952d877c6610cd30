---------------------------- MODULE MCHostStores ----------------------------
(***************************************************************************)
(* HostStores on a small instance.                                         *)
(***************************************************************************)
EXTENDS HostStores, TLC

RunMarks == {[status |-> "running", state |-> "keep"],
             [status |-> "waiting_user", state |-> "some"]}

Symmetry == Permutations(Hosts)

(* Most behaviours use one store only, within larger bounds.               *)
Workloads == {<<4, 0>>, <<0, 4>>, <<1, 1>>}
=============================================================================
