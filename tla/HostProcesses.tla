---------------------------- MODULE HostProcesses ----------------------------
(***************************************************************************)
(* The hosts that use the stores.  They are coroutines of one event loop,   *)
(* on the in-memory stores or on one SQLite connection, or processes with   *)
(* a connection each to the same database (open_reference_host).            *)
(***************************************************************************)
EXTENDS Integers

CONSTANTS
  Hosts, (* the coroutines or processes                                    *)
  Runs   (* run ids                                                       *)

ASSUME HostConstants == Runs # {}

(* What an idle host has in the place of a run.                            *)
AnyRun == CHOOSE r \in Runs : TRUE

VARIABLE
  shared (* the hosts share one event loop                                 *)
=============================================================================
