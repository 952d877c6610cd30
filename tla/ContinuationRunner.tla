------------------------- MODULE ContinuationRunner -------------------------
(***************************************************************************)
(* A run and its continuations: AgentRunner.run (rd_agent_core/runner.py)   *)
(* executes the root run, several ContinuationRunners                       *)
(* (continuation_runner.py) the jobs of the ContinuationQueue, all over one *)
(* RunPersistencePort (InMemoryRunPersistence, SQLiteRunPersistence).       *)
(*                                                                         *)
(* Every port call is a step.  On one event loop the runners are coroutines *)
(* over one of the two reference stores: only at an await, of the kernel or *)
(* of the run observer, do others take steps.  Otherwise they are processes *)
(* over an adapter of the host that decides as the SQLite reference does    *)
(* and locks what a call reads until it has written: the lock strategy of   *)
(* claim_next is the adapter's (PHASE-B-NOTES.md:176).  The SQLite          *)
(* reference itself selects before it updates, so with connections of their *)
(* own two processes may claim one job: it is modelled on one loop only.    *)
(*                                                                         *)
(* The kernel is one await that returns a stop reason or raises: see        *)
(* RunKernel.  Of the engine state only its presence matters here.          *)
(***************************************************************************)
EXTENDS ContinuationQueue

CONSTANTS
  Workers,          (* the tasks or processes that call run_next           *)
  Host,             (* the task that calls AgentRunner.run                 *)
  Root,             (* the root run                                        *)
  MaxContinuations, (* max_continuations of the root run                   *)
  Reasons,          (* the stop reasons RunKernel.run may return           *)
  MaxExecutions,    (* bound on the executions of one job                  *)
  Settings          (* the settings of the host to choose from             *)

(* loop: the runners share one event loop; patient: reclaim_stale's cutoff   *)
(* outlasts every execution; observes: the runners have an asynchronous run *)
(* observer; crashes: processes may go down, the store survives.            *)
Setting == [loop : BOOLEAN, patient : BOOLEAN, observes : BOOLEAN,
            crashes : BOOLEAN]

ASSUME RunnerConstants ==
  /\ Host \notin Workers
  /\ Root \in RunIds
  /\ \A spec \in Specs : spec.next # Root
  /\ MaxContinuations \in Nat /\ MaxExecutions \in Nat
  /\ Settings \subseteq Setting
  /\ Store = "memory" => \A s \in Settings : s.loop /\ ~s.crashes

VARIABLES
  setting,    (* the setting of this host, fixed                           *)
  runs,       (* the run records                                           *)
  pc,         (* where each runner is                                      *)
  job,        (* the job a worker deals with, 0 for none                   *)
  resumed,    (* the engine state a worker loaded from the previous run    *)
  executions  (* history: executions of the kernel begun for each job      *)

runnerVars == <<setting, runs, pc, job, resumed, executions>>
vars == <<jobs, runnerVars>>

Runners == Workers \cup {Host}

RunStatus == {"absent", "pending", "running", "completed", "continuable",
              "waiting_user", "needs_attention", "cancelled", "failed"}

(* An engine state is "none" for NULL and for the empty transcript that     *)
(* ContinuationState.from_json makes of it.                                 *)
Run == [status : RunStatus, index : Nat, max : Nat, state : {"none", "saved"}]

Absent == [status |-> "absent", index |-> 0, max |-> 0, state |-> "none"]

RunOf(w) == IF w = Host THEN Root ELSE jobs[job[w]].next

-----------------------------------------------------------------------------
(* Who may take a step.                                                    *)

Raised == {"refused", "clashed", "overrun"}
Awaits == {"idle", "kernel", "observing", "reporting", "stopped"} \cup Raised
Steps  == {"claimed", "marked", "loaded", "creating", "ensured", "ended",
           "cancelling", "failing"}

(* On one loop nobody else is between two awaits.                           *)
LoopFree(w) == setting.loop => \A v \in Runners \ {w} : pc[v] \in Awaits

(* The same for the host's other code: enqueueing, heartbeats, reclaiming.  *)
HostFree == setting.loop => \A v \in Runners : pc[v] \in Awaits

Goto(w, label) == pc' = [pc EXCEPT ![w] = label]

SetStatus(r, status) == runs' = [runs EXCEPT ![r].status = status]

(* Has claimed a job and may still write to it or to its run.  A worker     *)
(* whose job complete_failure has given back only reports what happened.    *)
WorksOn(w, j) == job[w] = j /\ pc[w] \notin {"idle", "reporting"} \cup Raised

-----------------------------------------------------------------------------
(* RunPersistencePort and the policies of run_policy.py.                    *)

(* Mutant of ShouldAutoContinue: off by one.                                *)
ShouldAutoContinueLate(run, reason) ==
  run.max > 0 /\ reason = "max_turns" /\ run.index <= run.max

(* should_auto_continue_run for an orchestrator run.                        *)
ShouldAutoContinue(run, reason) ==
  run.max > 0 /\ reason = "max_turns" /\ run.index < run.max

(* completion_status_for_stop_reason, of the reasons the kernel returns.    *)
CompletionStatus(run, reason) ==
  CASE reason = "cancelled" -> "cancelled"
    [] reason = "ask_user" -> "waiting_user"
    [] ShouldAutoContinue(run, reason) -> "continuable"
    [] ~ShouldAutoContinue(run, reason)
         /\ reason \in {"max_turns", "max_wall_clock", "repeated_tool_call",
                        "error"} ->
         "needs_attention"
    [] OTHER -> "completed"

(* create_continuation_run refuses: None, no record.                        *)
CreationRefused(previous) ==
  \/ runs[previous].status = "absent"
  \/ runs[previous].index + 1 > runs[previous].max

(* create_root_run.                                                        *)
CreateRoot ==
  runs' = [runs EXCEPT ![Root] = [Absent EXCEPT !.status = "pending",
                                                !.max = MaxContinuations]]

(* create_continuation_run, with the engine state loaded before.            *)
CreateContinuation(next, previous, state) ==
  runs' = [runs EXCEPT ![next] =
             [status |-> "pending", index |-> runs[previous].index + 1,
              max |-> runs[previous].max, state |-> state]]

(* Mutant of MarkCompleted: the engine state is left out.                   *)
MarkCompletedStateless(r, reason) ==
  runs' = [runs EXCEPT ![r].status = CompletionStatus(runs[r], reason),
                       ![r].state = "none"]

(* mark_completed with the kernel's result.                                *)
MarkCompleted(r, reason) ==
  runs' = [runs EXCEPT ![r].status = CompletionStatus(runs[r], reason),
                       ![r].state = "saved"]

(* mark_completed of an except CancelledError: its RunCompletion holds no   *)
(* engine state, and the record's is overwritten by it.                     *)
MarkCancelled(r) ==
  runs' = [runs EXCEPT ![r].status = "cancelled", ![r].state = "none"]

-----------------------------------------------------------------------------
Init ==
  /\ setting \in Settings
  /\ jobs = <<>>
  /\ runs = [r \in RunIds |-> Absent]
  /\ pc = [w \in Runners |-> "idle"]
  /\ job = [w \in Runners |-> 0]
  /\ resumed = [w \in Runners |-> "none"]
  /\ executions = [j \in 1..MaxJobs |-> 0]

(* AgentRunner.run creates its run.                                        *)
StartRoot ==
  /\ pc[Host] = "idle"
  /\ LoopFree(Host)
  /\ CreateRoot
  /\ Goto(Host, "ensured")
  /\ UNCHANGED <<setting, jobs, job, resumed, executions>>

(* run_next finds no job to claim (within the bound) and returns None.      *)
PollInVain(w) ==
  /\ w # Host /\ pc[w] = "idle"
  /\ \A j \in JobIds : Oldest(j) => executions[j] >= MaxExecutions
  /\ UNCHANGED vars

(* run_next claims a job.                                                  *)
Claim(w) ==
  /\ w # Host /\ pc[w] = "idle"
  /\ LoopFree(w)
  /\ \E j \in JobIds : /\ ClaimNext(j)
                       /\ executions[j] < MaxExecutions
                       /\ job' = [job EXCEPT ![w] = j]
  /\ Goto(w, "claimed")
  /\ UNCHANGED <<setting, runs, resumed, executions>>

(* mark_attempt_started: its answer decides nothing, only a ValueError      *)
(* leaves run_claimed_job.                                                 *)
MarkAttempt(w) ==
  /\ pc[w] = "claimed"
  /\ LoopFree(w)
  /\ MarkAttemptStarted(job[w])
  /\ Goto(w, IF AttemptRaises(job[w]) THEN "overrun" ELSE "marked")
  /\ UNCHANGED <<setting, runs, job, resumed, executions>>

Idle(w) ==
  /\ Goto(w, "idle")
  /\ job' = [job EXCEPT ![w] = 0]
  /\ resumed' = [resumed EXCEPT ![w] = "none"]

(* The previous run is unknown: the job fails and the call raises.          *)
PreviousMissing(w) ==
  /\ pc[w] = "marked"
  /\ LoopFree(w)
  /\ runs[jobs[job[w]].previous].status = "absent"
  /\ CompleteFailure(job[w])
  /\ Idle(w)
  /\ UNCHANGED <<setting, runs, executions>>

(* The previous run's engine state is loaded.                               *)
LoadPrevious(w) ==
  LET previous == runs[jobs[job[w]].previous]
  IN  /\ pc[w] = "marked"
      /\ LoopFree(w)
      /\ previous.status # "absent"
      /\ resumed' = [resumed EXCEPT ![w] = previous.state]
      /\ Goto(w, "loaded")
      /\ UNCHANGED <<setting, jobs, runs, job, executions>>

(* load_run(next_run_id): an existing run is taken whatever its status.     *)
LookUpRun(w) ==
  /\ pc[w] = "loaded"
  /\ LoopFree(w)
  /\ Goto(w, IF runs[RunOf(w)].status = "absent" THEN "creating" ELSE "ensured")
  /\ UNCHANGED <<setting, jobs, runs, job, resumed, executions>>

(* The run is created, or creation is refused, or another runner was faster *)
(* and the port raises ValueError: the last two outside of any handler.     *)
EnsureRun(w) ==
  /\ pc[w] = "creating"
  /\ LoopFree(w)
  /\ \/ /\ CreationRefused(jobs[job[w]].previous)
        /\ Goto(w, "refused")
        /\ UNCHANGED runs
     \/ /\ ~CreationRefused(jobs[job[w]].previous)
        /\ runs[RunOf(w)].status # "absent"
        /\ Goto(w, "clashed")
        /\ UNCHANGED runs
     \/ /\ ~CreationRefused(jobs[job[w]].previous)
        /\ runs[RunOf(w)].status = "absent"
        /\ CreateContinuation(RunOf(w), jobs[job[w]].previous, resumed[w])
        /\ Goto(w, "ensured")
  /\ UNCHANGED <<setting, jobs, job, resumed, executions>>

(* mark_running, and the kernel begins.                                    *)
MarkRunning(w) ==
  /\ pc[w] = "ensured"
  /\ LoopFree(w)
  /\ SetStatus(RunOf(w), "running")
  /\ Goto(w, "kernel")
  /\ executions' = IF w = Host THEN executions
                   ELSE [executions EXCEPT ![job[w]] = @ + 1]
  /\ UNCHANGED <<setting, jobs, job, resumed>>

(* Where the root run's task goes, or to its observer.                      *)
OrStops(label) == IF setting.observes THEN label ELSE "stopped"

(* The kernel returns: the run is completed; a worker has its job to        *)
(* complete next.                                                          *)
KernelReturns(w) ==
  /\ pc[w] = "kernel"
  /\ LoopFree(w)
  /\ \E reason \in Reasons : MarkCompleted(RunOf(w), reason)
  /\ Goto(w, IF w = Host THEN OrStops("observing") ELSE "ended")
  /\ UNCHANGED <<setting, jobs, job, resumed, executions>>

(* complete_success, then the observer if there is one.                     *)
JobSucceeds(w) ==
  /\ pc[w] = "ended"
  /\ LoopFree(w)
  /\ CompleteSuccess(job[w])
  /\ IF setting.observes THEN Goto(w, "observing") /\ UNCHANGED <<job, resumed>>
     ELSE Idle(w)
  /\ UNCHANGED <<setting, runs, executions>>

(* The observer is done, of a success or of a failure.  What it raises is   *)
(* swallowed; behind a failure the call raises, also when it is cancelled   *)
(* here, where no handler is left.                                         *)
Observed(w) ==
  /\ pc[w] \in {"observing", "reporting"}
  /\ LoopFree(w)
  /\ IF w = Host THEN Goto(w, "stopped") /\ UNCHANGED <<job, resumed>>
     ELSE Idle(w)
  /\ UNCHANGED <<setting, jobs, runs, executions>>

(* The kernel raises: mark_failed, and for the root run the observer.       *)
KernelRaises(w) ==
  /\ pc[w] = "kernel"
  /\ LoopFree(w)
  /\ SetStatus(RunOf(w), "failed")
  /\ Goto(w, IF w = Host THEN OrStops("reporting") ELSE "failing")
  /\ UNCHANGED <<setting, jobs, job, resumed, executions>>

(* The task is cancelled at an await inside the try, of the kernel or of    *)
(* the observer of a success: the run is marked cancelled in both cases.    *)
TaskCancelled(w) ==
  /\ pc[w] \in {"kernel", "observing"}
  /\ LoopFree(w)
  /\ MarkCancelled(RunOf(w))
  /\ Goto(w, IF w = Host THEN OrStops("reporting") ELSE "cancelling")
  /\ UNCHANGED <<setting, jobs, job, resumed, executions>>

(* complete_failure of the two handlers, and the observer is awaited while  *)
(* the job may already be queued again.                                    *)
JobFails(w) ==
  /\ pc[w] \in {"failing", "cancelling"}
  /\ LoopFree(w)
  /\ CompleteFailure(job[w])
  /\ IF setting.observes THEN Goto(w, "reporting") /\ UNCHANGED <<job, resumed>>
     ELSE Idle(w)
  /\ UNCHANGED <<setting, runs, executions>>

(* run_claimed_job has raised outside its handlers; the worker's loop calls *)
(* run_next again.                                                         *)
GiveUp(w) ==
  /\ pc[w] \in Raised
  /\ LoopFree(w)
  /\ Idle(w)
  /\ UNCHANGED <<setting, jobs, runs, executions>>

-----------------------------------------------------------------------------
(* The host around the runners.                                            *)

(* A run the host continues: out of turns, waiting for the user or out of   *)
(* budget; or, by mistake, a run that never was.                            *)
Resumable(r) ==
  \/ runs[r].status \in {"continuable", "waiting_user", "needs_attention"}
  \/ r # Root /\ \A spec \in Specs : spec.next # r

HostEnqueues ==
  /\ HostFree
  /\ Len(jobs) < MaxJobs
  /\ \E spec \in Specs : Resumable(spec.previous) /\ Enqueue(spec)
  /\ UNCHANGED runnerVars

HostReclaims ==
  /\ HostFree
  /\ ReclaimStale
  /\ UNCHANGED runnerVars

HostHeartbeats ==
  /\ HostFree
  /\ \E j \in JobIds, w \in Workers : WorksOn(w, j) /\ Heartbeat(j)
  /\ UNCHANGED runnerVars

RetryAvailable ==
  /\ \E j \in JobIds : DelayEnds(j)
  /\ UNCHANGED runnerVars

(* Time passes for a running job.  A patient host's cutoff lets no job of a *)
(* living worker go stale.                                                 *)
JobGoesStale ==
  /\ \E j \in JobIds :
       /\ setting.patient => \A w \in Workers : ~WorksOn(w, j)
       /\ HeartbeatLapses(j)
  /\ UNCHANGED runnerVars

(* The runners of one process go down: workers are started again, the root  *)
(* run is not.                                                             *)
GoDown(down) ==
  /\ pc' = [v \in Runners |-> IF v \notin down THEN pc[v]
                              ELSE IF v = Host THEN "stopped" ELSE "idle"]
  /\ job' = [v \in Runners |-> IF v \in down THEN 0 ELSE job[v]]
  /\ resumed' = [v \in Runners |-> IF v \in down THEN "none" ELSE resumed[v]]

(* A process crashes, on one loop the only one there is.                    *)
Crash ==
  /\ setting.crashes
  /\ \E down \in (IF setting.loop THEN {Runners} ELSE {{w} : w \in Runners}) :
       /\ \E v \in down : pc[v] \notin {"idle", "stopped"}
       /\ GoDown(down)
  /\ UNCHANGED <<setting, jobs, runs, executions>>

Advance(w) ==
  \/ Claim(w) \/ MarkAttempt(w) \/ PreviousMissing(w) \/ LoadPrevious(w)
  \/ LookUpRun(w) \/ EnsureRun(w) \/ MarkRunning(w) \/ KernelReturns(w) \/ JobSucceeds(w)
  \/ Observed(w) \/ JobFails(w) \/ GiveUp(w)

Next ==
  \/ StartRoot
  \/ \E w \in Runners :
       PollInVain(w) \/ Advance(w) \/ KernelRaises(w) \/ TaskCancelled(w)
  \/ HostEnqueues \/ HostReclaims \/ HostHeartbeats
  \/ RetryAvailable \/ JobGoesStale \/ Crash

(* Every runner makes progress, the kernel and the observer end; hosts poll *)
(* reclaim_stale, and the clock runs.                                      *)
Fairness ==
  /\ \A w \in Runners : WF_vars(Advance(w))
  /\ WF_vars(HostReclaims) /\ WF_vars(RetryAvailable) /\ WF_vars(JobGoesStale)

Spec == Init /\ [][Next]_vars /\ Fairness

-----------------------------------------------------------------------------
(* Properties.                                                             *)

HostLabels == {"idle", "ensured", "kernel", "observing", "reporting", "stopped"}

(* Every variable keeps its type, the queue's records are valid.            *)
TypeOK ==
  /\ QueueTypeOK
  /\ setting \in Settings
  /\ runs \in [RunIds -> Run]
  /\ pc \in [Runners -> Awaits \cup Steps] /\ pc[Host] \in HostLabels
  /\ job \in [Runners -> Nat]
  /\ \A w \in Workers : job[w] \in (IF pc[w] = "idle" THEN {0} ELSE JobIds)
  /\ resumed \in [Runners -> {"none", "saved"}]
  /\ executions \in [1..MaxJobs -> Nat]

(* On one loop attempts counts started executions: no execution of a job's  *)
(* run goes uncounted, hence max_attempts bounds them, whoever claims,      *)
(* reclaims and fails the job in between.                                   *)
ExecutionsCounted ==
  setting.loop => \A j \in JobIds : executions[j] <= jobs[j].attempts

(* A job is reported as succeeded only over a run whose outcome is on       *)
(* record, also when an older attempt of the job is still under way         *)
(* somewhere.  Seen at the awaits of the loop.                              *)
Outcomes == {"completed", "continuable", "waiting_user", "needs_attention"}

SucceededRunRecorded ==
  (\A w \in Runners : pc[w] \in Awaits) =>
    \A j \in JobIds :
      jobs[j].status = "succeeded" =>
        runs[jobs[j].next].status \in Outcomes \cup {"cancelled"}

(* A run recorded as continuable is one create_continuation_run accepts:    *)
(* the decision at its end and the check before its successor agree.        *)
ContinuableCanContinue ==
  \A r \in RunIds : runs[r].status = "continuable" => ~CreationRefused(r)

(* With a patient host no two workers have the same job, through crashes,   *)
(* reclaims and retries: none claims what another may still complete, fail  *)
(* or run.  (While a worker reports a failure to its observer the job is    *)
(* another's already.)                                                     *)
OneWorkerPerJob ==
  setting.patient =>
  \A v, w \in Workers :
    \A j \in JobIds : WorksOn(v, j) /\ WorksOn(w, j) => v = w

(* Without crash, impatience or observer, the outcome of a run and its      *)
(* transcript are final once recorded, where jobs are enqueued once.        *)
Calm == setting.patient /\ ~setting.observes /\ ~setting.crashes

OutcomeStands ==
  [][Calm => \A r \in RunIds : runs[r].status \in Outcomes => runs'[r] = runs[r]]_vars

(* Under the same conditions no continuation starts from an empty           *)
(* transcript.                                                             *)
NeverResumesBlank ==
  Calm => \A w \in Workers : pc[w] = "kernel" => resumed[w] = "saved"

(* On one loop, or with a patient host, and without crashes every job is    *)
(* settled in the end, succeeded or dead, and stays so, although workers    *)
(* raise outside their handlers and leave the job running.                  *)
Settles == (setting.loop \/ setting.patient) /\ ~setting.crashes

Settled(j) ==
  j \in JobIds /\ jobs[j].status \in {"succeeded", "dead_letter"}

JobsSettle ==
  \A j \in 1..MaxJobs : (Settles /\ j \in JobIds) ~> []Settled(j)

(* API-REFERENCE.md: when create_continuation_run returns None the runner   *)
(* fails and lets the queue retry or bury the job by complete_failure.      *)
RefusalFailsJob ==
  \A w \in Workers : pc[w] = "refused" => jobs[job[w]].status # "running"

(* observability.py: observability must not mutate the run's outcome.  A    *)
(* run whose observer is being notified keeps what was recorded.            *)
ObserverKeepsOutcome ==
  [][\A w \in Runners : pc[w] = "observing" /\ pc'[w] # "observing" =>
       runs'[RunOf(w)] = runs[RunOf(w)]]_vars

=============================================================================
