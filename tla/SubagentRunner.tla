--------------------------- MODULE SubagentRunner ---------------------------
(***************************************************************************)
(* Subagent tasks and the runners that execute them:                        *)
(* SubagentRunner.run_next and run_claimed_task, SubagentBatchRunner        *)
(* .run_batch (rd_agent_core/subagent_runner.py) over the ports of          *)
(* rd_agent_contracts/subagent.py and workspace.py, with the decisions of   *)
(* subagent_runtime.py.                                                     *)
(*                                                                         *)
(* The repository holds the ports' protocols and the fakes of its tests;    *)
(* the task port here is that of tests/test_subagent_runner.py, and may     *)
(* retry: record_failure takes a delay for that.  Every port call is a      *)
(* step.  In a shared loop the runners are coroutines of one event loop     *)
(* and only at the two awaits, of the kernel and of the run observer, do    *)
(* others take steps; else they are processes over one store.               *)
(*                                                                         *)
(* Of an outcome_json is kept whether it holds an error of the task and     *)
(* one of a tool, and how the tools that validate fared.                    *)
(***************************************************************************)
EXTENDS Integers, FiniteSets

CONSTANTS
  Tasks,       (* the tasks of one user request: numbers, by creation time *)
  Scoped,      (* those with a write_scope_json                            *)
  Runners,     (* the coroutines or processes that run tasks               *)
  MaxAttempts, (* max_attempts of a task                                   *)
  MaxCount,    (* max_count of a batch                                     *)
  Results,     (* what RunKernel.run may return: stop reason and tools     *)
  MaxFaults,   (* bound on failing ports, cancellations and crashes        *)
  Settings     (* the settings of the host to choose from                  *)

(* shared: one event loop.  retries: record_failure puts a task with        *)
(* attempts left back.  isolated: workspace_isolation_enabled and           *)
(* inline_parallel_enabled, with a workspace port.  lenient:                *)
(* retryable_needs_attention.  observes: an asynchronous run observer.      *)
(* crashes: processes may go down.  removes: the host deletes tasks.        *)
Setting == [shared : BOOLEAN, retries : BOOLEAN, isolated : BOOLEAN,
            lenient : BOOLEAN, observes : BOOLEAN, crashes : BOOLEAN,
            removes : BOOLEAN]

(* The "ok" of a validation: None, True, False.                             *)
Validations == {"none", "passed", "failed"}

ASSUME SubagentConstants ==
  /\ Tasks \subseteq Nat /\ Scoped \subseteq Tasks
  /\ MaxAttempts \in Nat \ {0} /\ MaxCount \in Nat \ {0} /\ MaxFaults \in Nat
  /\ Settings \subseteq Setting
  /\ Results \subseteq
       [reason : STRING, toolError : BOOLEAN, validation : Validations]

VARIABLES
  setting,   (* the setting of this host, fixed                            *)
  tasks,     (* the task records                                           *)
  pc,        (* where each runner is                                       *)
  mine,      (* the tasks a runner claimed in one call                     *)
  left,      (* those of them it has not dealt with yet                    *)
  fanout,    (* the runner is in run_batch rather than in run_next         *)
  handle,    (* the runner holds the handle of a prepared workspace        *)
  result,    (* what the kernel returned                                   *)
  report,    (* the last result of run_batch of each runner                *)
  unmerged,  (* history: tasks filed as completed, changes not merged      *)
  faults     (* faults so far                                             *)

vars == <<setting, tasks, pc, mine, left, fanout, handle, result, report,
          unmerged, faults>>

runnerVars == <<mine, left, fanout, handle, result, report>>

TaskStatus == {"absent", "pending", "running", "waiting_user", "completed",
               "failed", "cancelled"}

TerminalStatus == {"completed", "failed", "cancelled"}

Outcome == [error : BOOLEAN, toolError : BOOLEAN, validation : Validations]

NoOutcome == [error |-> FALSE, toolError |-> FALSE, validation |-> "none"]

Task == [status : TaskStatus, attempts : Nat, error : BOOLEAN,
         outcome : Outcome]

Fresh == [status |-> "absent", attempts |-> 0, error |-> FALSE,
          outcome |-> NoOutcome]

(* The result of run_batch.                                                *)
Report == [status : {"none", "empty", "running", "failed", "completed"},
           validation : Validations,
           tasks : SUBSET Tasks, errors : SUBSET Tasks]

NoResult == [reason |-> "none", toolError |-> FALSE, validation |-> "none"]

NoReport == [status |-> "none", validation |-> "none", tasks |-> {},
             errors |-> {}]

Oldest(S) == CHOOSE t \in S : \A u \in S : t <= u

(* The task a runner deals with: batches are worked off in order.           *)
Current(w) == Oldest(left[w])

Present(t) == tasks[t].status # "absent"

-----------------------------------------------------------------------------
(* The decisions of the contracts.                                         *)

NeedsAttention(reason) ==
  reason \in {"max_turns", "max_wall_clock", "error", "repeated_tool_call",
              "empty_response"}

(* decide_subagent_finalization; run_claimed_task never queues a            *)
(* continuation, and files cancelled runs itself.                           *)
Finalization(reason) ==
  CASE reason = "cancelled" -> "mark_cancelled"
    [] reason = "ask_user" -> "mark_waiting"
    [] NeedsAttention(reason) /\ setting.lenient -> "record_failure"
    [] NeedsAttention(reason) /\ ~setting.lenient -> "mark_failed"
    [] OTHER -> "mark_completed"

(* should_merge_subagent_workspace.                                        *)
ShouldMerge(reason) == NeedsAttention(reason) => setting.lenient

(* _prepare_workspace: isolation is on and the task has a write scope.      *)
Isolates(t) == setting.isolated /\ t \in Scoped

(* _normalize_child_error finds something.                                 *)
ChildError(task) ==
  task.error \/ task.outcome.error \/ task.outcome.toolError

AggregateStatus(S) ==
  CASE S = {} -> "empty"
    [] \E t \in S : tasks[t].status \notin TerminalStatus -> "running"
    [] /\ S # {} /\ \A t \in S : tasks[t].status \in TerminalStatus
       /\ \E t \in S : \/ tasks[t].status \in {"failed", "cancelled"}
                       \/ ChildError(tasks[t]) -> "failed"
    [] OTHER -> "completed"

(* The validation of an aggregate: one that failed outweighs all.           *)
AggregateValidation(S) ==
  LET found == {tasks[t].outcome.validation : t \in S} IN
  CASE "failed" \in found -> "failed"
    [] "failed" \notin found /\ "passed" \in found -> "passed"
    [] OTHER -> "none"

(* build_subagent_aggregate_outcome, with the errors of run_batch.          *)
Aggregate(S, errors) ==
  [status |-> AggregateStatus(S), validation |-> AggregateValidation(S),
   tasks |-> S, errors |-> errors]

-----------------------------------------------------------------------------
(* The task port.  A task that is absent stays so: the port returns None.   *)

File(t, status, error, outcome) ==
  tasks' = IF ~Present(t) THEN tasks
           ELSE [tasks EXCEPT ![t].status = status, ![t].outcome = outcome,
                              ![t].error = error \/ @]

(* record_failure: mark_failed in the fakes; a port that retries puts a     *)
(* task with attempts left back.                                           *)
RecordFailure(t, outcome) ==
  File(t, IF setting.retries /\ tasks[t].attempts < MaxAttempts
          THEN "pending" ELSE "failed", TRUE, outcome)

(* build_subagent_outcome_json of a run that returned: the tools are those  *)
(* of the kernel's turns, those of earlier attempts are gone.               *)
OutcomeOf(returned, error) ==
  [error |-> error, toolError |-> returned.toolError,
   validation |-> returned.validation]

(* The outcome of a task that raised or was cancelled: no tool history.     *)
Raised == OutcomeOf(NoResult, TRUE)

Pending == {t \in Tasks : tasks[t].status = "pending"}

(* Mutant of Claimable: whatever is not finished may be claimed.            *)
ClaimableOpen(S) ==
  S # {} /\ \A t \in S : tasks[t].status \in {"pending", "running"}

(* claim_next_pending and claim_pending_batch take the oldest.              *)
Claimable(S) ==
  /\ S # {} /\ S \subseteq Pending
  /\ \A t \in S, u \in Pending \ S : t < u

-----------------------------------------------------------------------------
(* Who may take a step.                                                    *)

Awaits == {"idle", "kernel", "observing", "sorry"}
Steps  == {"claimed", "marked", "created", "ended", "filed", "failing",
           "cancelling", "next"}

(* In a shared loop nobody else is between two awaits.                      *)
LoopFree(w) == setting.shared => \A v \in Runners \ {w} : pc[v] \in Awaits
HostFree == setting.shared => \A v \in Runners : pc[v] \in Awaits

At(w, label) == pc[w] = label /\ LoopFree(w)
Goto(w, label) == pc' = [pc EXCEPT ![w] = label]

Fault == faults < MaxFaults /\ faults' = faults + 1

(* Executes the task: its outcome is not filed yet.                         *)
Executes(w, t) ==
  pc[w] \in {"marked", "created", "kernel", "ended"} /\ t = Current(w)

Holds(w, t) == pc[w] # "idle" /\ t \in left[w]

-----------------------------------------------------------------------------
Init ==
  /\ setting \in Settings
  /\ tasks = [t \in Tasks |-> Fresh]
  /\ pc = [w \in Runners |-> "idle"]
  /\ mine = [w \in Runners |-> {}]
  /\ left = [w \in Runners |-> {}]
  /\ fanout = [w \in Runners |-> FALSE]
  /\ handle = [w \in Runners |-> FALSE]
  /\ result = [w \in Runners |-> NoResult]
  /\ report = [w \in Runners |-> NoReport]
  /\ unmerged = {}
  /\ faults = 0

(* The claims of run_next and run_batch.                                    *)
Claim(w, S, batch) ==
  /\ At(w, "idle")
  /\ Claimable(S)
  /\ IF batch THEN /\ Cardinality(S) <= MaxCount
                   /\ S = Pending \/ Cardinality(S) = MaxCount
              ELSE Cardinality(S) = 1
  /\ tasks' = [t \in Tasks |-> IF t \in S THEN [tasks[t] EXCEPT !.status = "running"]
                               ELSE tasks[t]]
  /\ mine' = [mine EXCEPT ![w] = S]
  /\ left' = [left EXCEPT ![w] = S]
  /\ fanout' = [fanout EXCEPT ![w] = batch]
  /\ report' = [report EXCEPT ![w] = NoReport]
  /\ Goto(w, "claimed")
  /\ UNCHANGED <<setting, handle, result, unmerged, faults>>

(* A batch with nothing to claim.                                          *)
ClaimNothing(w) ==
  /\ At(w, "idle")
  /\ Pending = {} /\ report[w].status = "none"
  /\ report' = [report EXCEPT ![w] = Aggregate({}, {})]
  /\ UNCHANGED <<setting, tasks, pc, mine, left, fanout, handle, result,
                 unmerged, faults>>

(* Mutant of MarkAttempt: the attempt is not counted.                       *)
MarkAttemptUncounted(w) ==
  /\ At(w, "claimed") /\ Goto(w, "marked")
  /\ UNCHANGED <<setting, tasks, runnerVars, unmerged, faults>>

(* mark_attempt_started counts, whatever the status.                        *)
MarkAttempt(w) ==
  /\ At(w, "claimed")
  /\ LET t == Current(w) IN
       tasks' = IF Present(t) THEN [tasks EXCEPT ![t].attempts = @ + 1]
                ELSE tasks
  /\ Goto(w, "marked")
  /\ UNCHANGED <<setting, runnerVars, unmerged, faults>>

(* Mutant of GoesOn: run_batch does not see that it has no task left.       *)
GoesOnBlindly(w) ==
  /\ left' = [left EXCEPT ![w] = @ \ {Current(w)}]
  /\ handle' = [handle EXCEPT ![w] = FALSE]
  /\ result' = [result EXCEPT ![w] = NoResult]
  /\ Goto(w, "claimed")

(* run_claimed_task returns, or raises an Exception: run_batch goes on, in  *)
(* the second case with an error on its list.                               *)
GoesOn(w) ==
  /\ left' = [left EXCEPT ![w] = @ \ {Current(w)}]
  /\ handle' = [handle EXCEPT ![w] = FALSE]
  /\ result' = [result EXCEPT ![w] = NoResult]
  /\ Goto(w, "next")

Returns(w) == GoesOn(w) /\ UNCHANGED report

Raises(w) ==
  /\ GoesOn(w)
  /\ report' = [report EXCEPT ![w].errors = @ \cup {Current(w)}]

(* A CancelledError passes through run_batch as well.                       *)
Aborts(w) ==
  /\ mine' = [mine EXCEPT ![w] = {}]
  /\ left' = [left EXCEPT ![w] = {}]
  /\ fanout' = [fanout EXCEPT ![w] = FALSE]
  /\ handle' = [handle EXCEPT ![w] = FALSE]
  /\ result' = [result EXCEPT ![w] = NoResult]
  /\ report' = [report EXCEPT ![w] = NoReport]
  /\ Goto(w, "idle")

(* create_run_for_task, before the try.                                     *)
CreateRun(w) ==
  /\ At(w, "marked")
  /\ \/ Goto(w, "created") /\ UNCHANGED <<runnerVars, faults>>
     \/ Fault /\ Raises(w) /\ UNCHANGED <<mine, fanout>>
  /\ UNCHANGED <<setting, tasks, unmerged>>

(* _prepare_workspace, before the try.                                      *)
PrepareWorkspace(w) ==
  /\ At(w, "created")
  /\ \/ /\ handle' = [handle EXCEPT ![w] = Isolates(Current(w))]
        /\ Goto(w, "kernel")
        /\ UNCHANGED <<left, result, report, faults>>
     \/ Isolates(Current(w)) /\ Fault /\ Raises(w)
  /\ UNCHANGED <<setting, tasks, mine, fanout, unmerged>>

(* RunKernel.run returns, raises, or is cancelled.                          *)
KernelReturns(w) ==
  /\ At(w, "kernel")
  /\ \E r \in Results : result' = [result EXCEPT ![w] = r]
  /\ Goto(w, "ended")
  /\ UNCHANGED <<setting, tasks, mine, left, fanout, handle, report, unmerged,
                 faults>>

KernelRaises(w) ==
  /\ At(w, "kernel") /\ Goto(w, "failing")
  /\ UNCHANGED <<setting, tasks, runnerVars, unmerged, faults>>

(* _finalize_task: a task that is gone raises RuntimeError.                 *)
FinalizeTask(w) ==
  LET t  == Current(w)
      op == Finalization(result[w].reason)
      outcome == OutcomeOf(result[w], op \notin {"mark_completed", "mark_waiting"})
  IN
  /\ At(w, "ended")
  /\ CASE op = "mark_cancelled" -> File(t, "cancelled", TRUE, outcome)
       [] op = "mark_waiting" -> File(t, "waiting_user", FALSE, outcome)
       [] op = "record_failure" -> RecordFailure(t, outcome)
       [] op = "mark_failed" -> File(t, "failed", TRUE, outcome)
       [] op = "mark_completed" -> File(t, "completed", FALSE, outcome)
  /\ unmerged' = IF Present(t) /\ op = "mark_completed" /\ handle[w]
                 THEN unmerged \cup {t} ELSE unmerged
  /\ Goto(w, IF Present(t) THEN "filed" ELSE "failing")
  /\ UNCHANGED <<setting, runnerVars, faults>>

(* Mutant of MergeFails: the failure is dropped.                            *)
MergeFailsQuietly(w) == Returns(w)

(* An exception of merge_back goes to the handler of run_claimed_task.      *)
MergeFails(w) == Goto(w, "failing") /\ UNCHANGED <<left, handle, result, report>>

(* _merge_workspace_if_needed, and the run observer is called.              *)
MergeWorkspace(w) ==
  /\ At(w, "filed")
  /\ LET merges == handle[w] /\ ShouldMerge(result[w].reason)
         completes == Finalization(result[w].reason) = "mark_completed" IN
       \/ /\ unmerged' = IF merges /\ completes THEN unmerged \ {Current(w)}
                         ELSE unmerged
          /\ IF setting.observes
             THEN Goto(w, "observing") /\ UNCHANGED <<left, handle, result, report>>
             ELSE Returns(w)
          /\ UNCHANGED faults
       \/ merges /\ Fault /\ MergeFails(w) /\ UNCHANGED unmerged
  /\ UNCHANGED <<setting, tasks, mine, fanout>>

(* The handler of Exception: record_failure, or mark_failed when that gives *)
(* None, then the observer, and the exception goes on.                      *)
RecordTaskFailure(w) ==
  /\ At(w, "failing")
  /\ RecordFailure(Current(w), Raised)
  /\ IF setting.observes
     THEN Goto(w, "sorry") /\ UNCHANGED <<left, handle, result, report>>
     ELSE Raises(w)
  /\ UNCHANGED <<setting, mine, fanout, unmerged, faults>>

ObserverReturns(w) ==
  /\ \/ At(w, "observing") /\ Returns(w)
     \/ At(w, "sorry") /\ Raises(w)
  /\ UNCHANGED <<setting, tasks, mine, fanout, unmerged, faults>>

(* The runner's asyncio task is cancelled at an await: in the kernel or in  *)
(* the observer behind it the handler of CancelledError follows; in the     *)
(* observer of the other handler there is none.                             *)
TaskCancelled(w) ==
  /\ Fault
  /\ \/ /\ At(w, "kernel") \/ At(w, "observing")
        /\ Goto(w, "cancelling") /\ UNCHANGED runnerVars
     \/ At(w, "sorry") /\ Aborts(w)
  /\ UNCHANGED <<setting, tasks, unmerged>>

(* The handler of CancelledError: mark_cancelled whatever was filed before. *)
(* Its observer has nothing behind it but the raise.                        *)
RecordTaskCancelled(w) ==
  /\ At(w, "cancelling")
  /\ File(Current(w), "cancelled", TRUE, Raised)
  /\ Aborts(w)
  /\ UNCHANGED <<setting, unmerged, faults>>

(* run_next is over; run_batch takes the next task, or loads its tasks and  *)
(* reports.  The loads are one step: what they read is filed by then.       *)
NextTask(w) ==
  /\ At(w, "next")
  /\ IF left[w] # {} THEN Goto(w, "claimed") /\ UNCHANGED <<mine, fanout, report>>
     ELSE /\ Goto(w, "idle")
          /\ report' = [report EXCEPT ![w] =
                          IF fanout[w] THEN Aggregate(mine[w], @.errors)
                          ELSE NoReport]
          /\ mine' = [mine EXCEPT ![w] = {}]
          /\ fanout' = [fanout EXCEPT ![w] = FALSE]
  /\ UNCHANGED <<setting, tasks, left, handle, result, unmerged, faults>>

-----------------------------------------------------------------------------
(* The host.                                                               *)

HostCreates(t) ==
  /\ HostFree
  /\ tasks[t] = Fresh
  /\ \A u \in Tasks : u < t => Present(u) \/ tasks[u] # Fresh
  /\ tasks' = [tasks EXCEPT ![t].status = "pending"]
  /\ UNCHANGED <<setting, pc, runnerVars, unmerged, faults>>

(* A task is deleted with its project.                                     *)
HostRemoves(t) ==
  /\ HostFree /\ setting.removes
  /\ tasks[t].status = "running"
  /\ tasks' = [tasks EXCEPT ![t].status = "absent", ![t].attempts = MaxAttempts]
  /\ UNCHANGED <<setting, pc, runnerVars, unmerged, faults>>

(* Mutant of Stale: the host reclaims what is older than its cutoff, worked *)
(* on or not.                                                              *)
StaleSoon(t) == tasks[t].status = "running"

(* A stale task: no runner writes heartbeats, so that a host can only       *)
(* reclaim with a cutoff that outlasts every execution.                     *)
Stale(t) == tasks[t].status = "running" /\ \A w \in Runners : ~Holds(w, t)

(* reclaim_stale.                                                          *)
HostReclaims(t) ==
  /\ HostFree
  /\ Stale(t)
  /\ tasks' = [tasks EXCEPT ![t].status = "pending"]
  /\ UNCHANGED <<setting, pc, runnerVars, unmerged, faults>>

(* A process goes down in the middle of its task.                           *)
Crash(w) ==
  /\ setting.crashes /\ pc[w] # "idle"
  /\ Fault /\ Aborts(w)
  /\ UNCHANGED <<setting, tasks, unmerged>>

-----------------------------------------------------------------------------
Claims(w) == \E S \in SUBSET Tasks, batch \in BOOLEAN : Claim(w, S, batch)

Advance(w) ==
  \/ MarkAttempt(w) \/ CreateRun(w) \/ PrepareWorkspace(w)
  \/ KernelReturns(w) \/ KernelRaises(w)
  \/ FinalizeTask(w) \/ MergeWorkspace(w)
  \/ RecordTaskFailure(w) \/ ObserverReturns(w)
  \/ RecordTaskCancelled(w) \/ NextTask(w)

Next ==
  \/ \E w \in Runners : \/ Claims(w) \/ ClaimNothing(w) \/ Advance(w)
                        \/ TaskCancelled(w) \/ Crash(w)
  \/ \E t \in Tasks : HostCreates(t) \/ HostRemoves(t) \/ HostReclaims(t)

(* Runners that go on and claim, and a host that polls reclaim_stale; the   *)
(* kernel ends (RunKernel.RunEnds) and an observer returns.                 *)
Fairness ==
  /\ \A w \in Runners : WF_vars(Advance(w)) /\ WF_vars(Claims(w))
  /\ \A t \in Tasks : WF_vars(HostReclaims(t))

Spec == Init /\ [][Next]_vars /\ Fairness

-----------------------------------------------------------------------------
TypeOK ==
  /\ setting \in Settings
  /\ tasks \in [Tasks -> Task]
  /\ pc \in [Runners -> Awaits \cup Steps]
  /\ mine \in [Runners -> SUBSET Tasks]
  /\ left \in [Runners -> SUBSET Tasks]
  /\ fanout \in [Runners -> BOOLEAN]
  /\ handle \in [Runners -> BOOLEAN]
  /\ result \in [Runners -> Results \cup {NoResult}]
  /\ report \in [Runners -> Report]
  /\ unmerged \subseteq Tasks
  /\ faults \in 0..MaxFaults
  /\ \A w \in Runners : /\ left[w] \subseteq mine[w]
                        /\ pc[w] \notin {"idle", "next"} => left[w] # {}

(* A task is executed by one runner at a time, through claims in batches,   *)
(* retries, failing ports, cancelled batches and reclaiming, as long as     *)
(* filing a task and merging its workspace are not torn apart by other      *)
(* runners: in one loop, or without retries.                                *)
OneExecution ==
  setting.shared \/ ~setting.retries =>
    \A t \in Tasks, v, w \in Runners :
      Executes(v, t) /\ Executes(w, t) => v = w

(* The changes of a task that is on file as completed are merged: only a    *)
(* runner on its way to the merge or to the handler of its failure holds    *)
(* them back.  (A crash between the two calls loses them.)                  *)
CompletedIsMerged ==
  ~setting.crashes =>
    \A t \in unmerged : tasks[t].status = "completed" =>
      \E w \in Runners : Holds(w, t) /\ pc[w] \in {"filed", "failing"}

(* What run_batch has reported as completed without errors stays so, with   *)
(* its changes merged and the validation it was reported with: nobody files *)
(* a task of the batch again, neither a runner that had it before nor a     *)
(* host that reclaims.  (With errors it may not: another process may have   *)
(* reclaimed a task whose setup failed, and be about to merge it.)          *)
ReportLasts ==
  ~setting.retries /\ ~setting.crashes =>
    \A w \in Runners :
      report[w].status = "completed" /\ report[w].errors = {} =>
        /\ Aggregate(report[w].tasks, {}) = report[w]
        /\ report[w].tasks \cap unmerged = {}

OutcomesKept ==
  \A t \in Tasks :
    ~setting.retries /\ tasks[t].status \in TerminalStatus
    /\ tasks'[t].status # tasks[t].status
    => \E w \in Runners : /\ Holds(w, t) /\ t = Current(w)
                          /\ pc[w] \in {"failing", "cancelling"}

(* With a port that does not retry, an outcome is overturned only by the    *)
(* runner that filed it, before it returns: because its merge failed, or    *)
(* because its asyncio task was cancelled while the observer was awaited.   *)
(* (With retries the next runner of the task may be at work by then.)       *)
OutcomeStands == [][OutcomesKept]_vars

(* A task a runner has claimed does not stay in progress: it ends, waits    *)
(* for the user, or is gone, although ports fail before the try, batches    *)
(* are cancelled and processes go down, if the host reclaims and the faults *)
(* are finite.                                                             *)
TasksSettle ==
  \A t \in Tasks : tasks[t].status = "running" ~>
    tasks[t].status \in TerminalStatus \cup {"waiting_user", "absent"}

=============================================================================
