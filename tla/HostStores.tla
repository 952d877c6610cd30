----------------------------- MODULE HostStores -----------------------------
(***************************************************************************)
(* Both stores of a host (SQLiteReferenceHost) and the hosts that use them: *)
(* each is inside one operation at a time, of the event log or of the run   *)
(* store, and on one event loop nobody else is.                             *)
(***************************************************************************)
EXTENDS EventLog, RunStore

CONSTANT
  Budgets (* pairs of bounds, on the appends and on the run operations of   *)
          (* a behaviour                                                   *)

ASSUME BudgetAssumption == Budgets \subseteq Nat \X Nat

vars == <<logVars, runVars>>

LogIdle(S) == \A h \in S : append[h].step = "idle"

RunsIdle(S) == \A h \in S : op[h].step = "idle"

Init == LogInit /\ RunsInit

Others(h) == IF shared THEN Hosts ELSE {h}

UseLog(h) == RunsIdle(Others(h)) /\ AppendStep(h) /\ UNCHANGED runVars

FollowLog ==
  /\ shared => RunsIdle(Hosts)
  /\ \E r \in Runs : Follow(r)
  /\ UNCHANGED runVars

UseRuns(h) == LogIdle(Others(h)) /\ RunStep(h) /\ UNCHANGED logVars

WithinBudget == \E b \in Budgets : begun <= b[1] /\ ops <= b[2]

Next ==
  /\ \/ \E h \in Hosts : UseLog(h) \/ UseRuns(h)
     \/ FollowLog
  /\ WithinBudget'

Spec == Init /\ [][Next]_vars

TypeOK == LogTypeOK /\ RunsTypeOK
=============================================================================
