-------------------------- MODULE HostStoresProofs --------------------------
(***************************************************************************)
(* A host that uses both stores behaves as each of them says, so that what  *)
(* is proved of the event log and of the run store holds of the hosts.      *)
(***************************************************************************)
EXTENDS HostStores, EventLogProofs, RunStoreProofs

(* The hosts keep to the event log: using the run store is a stuttering     *)
(* step of it.                                                             *)
THEOREM HostsUseTheLog == Spec => LogSpec
<1>1. Init => LogInit
  BY DEF Init
<1>2. [Next]_vars => [LogNext]_logVars
  BY DEF Next, UseLog, FollowLog, UseRuns, LogNext, vars
<1>3. QED
  BY <1>1, <1>2, PTL DEF Spec, LogSpec

(* The hosts keep to the run store: using the event log is a stuttering     *)
(* step of it.                                                             *)
THEOREM HostsUseTheRuns == Spec => RunsSpec
<1>1. Init => RunsInit
  BY DEF Init
<1>2. [Next]_vars => [RunsNext]_runVars
  BY DEF Next, UseLog, FollowLog, UseRuns, RunsNext, vars
<1>3. QED
  BY <1>1, <1>2, PTL DEF Spec, RunsSpec

(* Both stores and the places of the hosts in them keep their types.        *)
THEOREM HostTypesHold == Spec => []TypeOK
<1>1. LogTypeOK /\ RunsTypeOK => TypeOK
  BY DEF TypeOK
<1>2. QED
  BY <1>1, HostsUseTheLog, HostsUseTheRuns, LogTypesHold, RunTypesHold, PTL

(* Hosts that use both stores find the log gap-free, its keys sound, equal  *)
(* keys answered alike and nothing added behind a follower.                 *)
THEOREM HostsFindTheLogSound ==
  Spec => [](GapFree /\ KeysMatchEvents /\ AnswersAgree /\ FollowersMissNothing)
BY HostsUseTheLog, NumbersAreGapFree, KeysLeadToEvents, AnswersAgreeUnderAKey,
   NothingIsAddedBehindAFollower, PTL

(* Hosts that use both stores lose no run, overstep no chain and, on one    *)
(* event loop, lose no update and resume no waiting run twice.              *)
THEOREM HostsFindTheRunsSound ==
  Spec => [](ClaimedOnce /\ UpdatesStand /\ ChainsBounded) /\ OriginsStand
BY HostsUseTheRuns, WaitingRunsAreClaimedOnce, NoUpdateIsLost, ChainsStayBounded,
   CreationsStand, PTL
=============================================================================
