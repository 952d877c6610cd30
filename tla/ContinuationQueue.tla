-------------------------- MODULE ContinuationQueue --------------------------
(***************************************************************************)
(* The continuation queue: the port of continuation_queue.py by its two    *)
(* implementations, InMemoryContinuationQueue (rd_agent_core/testing.py)    *)
(* and SQLiteContinuationQueue (examples/reference_host).  One action per   *)
(* port operation; ContinuationRunner composes them with the callers.       *)
(*                                                                         *)
(* Clock values are kept as far as an operation tests them: delayed stands  *)
(* for available_at_ms in the future, fresh for a heartbeat_at_ms no older  *)
(* than the stale_before_ms of reclaim_stale.  worker_id, last_error and    *)
(* the other columns are written and never tested.                         *)
(***************************************************************************)
EXTENDS Integers, Sequences, FiniteSets

CONSTANTS
  RunIds,   (* ids of runs                                                 *)
  Specs,    (* the ContinuationJobSpecs hosts enqueue                      *)
  Store,    (* "memory" or "sqlite": the implementation behind the port    *)
  MaxJobs   (* bound on the jobs created                                   *)

ASSUME QueueConstants ==
  /\ Specs \subseteq [previous : RunIds, next : RunIds, max : Nat \ {0}]
  /\ Store \in {"memory", "sqlite"}
  /\ MaxJobs \in Nat

VARIABLE jobs (* the job records in the order of created_at_ms *)

JobStatus == {"queued", "running", "succeeded", "dead_letter"}

Job == [previous : RunIds, next : RunIds, max : Nat \ {0},
        status : JobStatus, attempts : Nat, delayed : BOOLEAN,
        fresh : BOOLEAN]

JobIds == 1..Len(jobs)

NewJob(spec) ==
  [previous |-> spec.previous, next |-> spec.next, max |-> spec.max,
   status |-> "queued", attempts |-> 0, delayed |-> FALSE, fresh |-> FALSE]

Known(next) == \E j \in JobIds : jobs[j].next = next
Exhausted(job) == job.attempts >= job.max

-----------------------------------------------------------------------------
(* Mutant of Enqueue: the next run is not looked up.                        *)
EnqueueAgain(spec) == jobs' = Append(jobs, NewJob(spec))

(* enqueue_for_run: the in-memory queue gives back the job that already     *)
(* leads to the run; SQLite inserts a row each time.                        *)
Enqueue(spec) ==
  IF Store = "memory" /\ Known(spec.next) THEN UNCHANGED jobs
  ELSE jobs' = Append(jobs, NewJob(spec))

(* Mutant of Claimable: a running job is up for grabs.                      *)
ClaimableRunning(j) == jobs[j].status \in {"queued", "running"} /\ ~jobs[j].delayed

Claimable(j) == jobs[j].status = "queued" /\ ~jobs[j].delayed

Oldest(j) == Claimable(j) /\ \A i \in 1..(j - 1) : ~Claimable(i)

(* claim_next: the oldest job that is queued and available.                 *)
ClaimNext(j) ==
  /\ Oldest(j)
  /\ jobs' = [jobs EXCEPT ![j].status = "running", ![j].fresh = TRUE]

(* Mutant of MarkAttemptStarted: the attempt is not counted.                *)
MarkAttemptUncounted(j) ==
  jobs' = [jobs EXCEPT ![j].fresh = TRUE]

(* Mutant of MarkAttemptStarted: the limit is not looked at.                *)
MarkAttemptOver(j) ==
  IF jobs[j].status # "running" THEN UNCHANGED jobs
  ELSE jobs' = [jobs EXCEPT ![j].attempts = @ + 1, ![j].fresh = TRUE]

(* mark_attempt_started.  A job that is not running stays as it is, and the *)
(* caller goes on.  A running job without an attempt left: SQLite files it  *)
(* as dead; in memory the record with one attempt too many cannot be built, *)
(* see AttemptRaises.                                                      *)
MarkAttemptStarted(j) ==
  CASE jobs[j].status # "running" -> UNCHANGED jobs
    [] jobs[j].status = "running" /\ ~Exhausted(jobs[j]) ->
         jobs' = [jobs EXCEPT ![j].attempts = @ + 1, ![j].fresh = TRUE]
    [] jobs[j].status = "running" /\ Exhausted(jobs[j]) ->
         IF Store = "sqlite"
         THEN jobs' = [jobs EXCEPT ![j].status = "dead_letter"]
         ELSE UNCHANGED jobs

(* ContinuationJobRecord.__post_init__ raises ValueError in the call above.  *)
AttemptRaises(j) ==
  Store = "memory" /\ jobs[j].status = "running" /\ Exhausted(jobs[j])

(* heartbeat, whatever the status.                                          *)
Heartbeat(j) == jobs' = [jobs EXCEPT ![j].fresh = TRUE]

(* Mutant of CompleteSuccess: the job goes back to the queue.               *)
CompleteSuccessReleases(j) == jobs' = [jobs EXCEPT ![j].status = "queued"]

(* complete_success, whatever the status.                                   *)
CompleteSuccess(j) == jobs' = [jobs EXCEPT ![j].status = "succeeded"]

Released(job, delayed) ==
  [job EXCEPT !.status = "queued", !.delayed = delayed, !.fresh = FALSE]

Dead(job) == [job EXCEPT !.status = "dead_letter"]

(* complete_failure, whatever the status: a dead letter without an attempt  *)
(* left, else release_for_retry, available at once or later.                *)
CompleteFailure(j) ==
  IF Exhausted(jobs[j]) THEN jobs' = [jobs EXCEPT ![j] = Dead(@)]
  ELSE \E delayed \in BOOLEAN :
         jobs' = [jobs EXCEPT ![j] = Released(@, delayed)]

(* Mutant of Reclaimed: SQLite releases as the in-memory queue does.        *)
ReclaimedAlways(job) == Released(job, FALSE)

(* What reclaim_stale makes of a stale job.  The in-memory queue does not   *)
(* look at the attempts.                                                   *)
Reclaimed(job) ==
  IF Store = "sqlite" /\ Exhausted(job) THEN Dead(job)
  ELSE Released(job, FALSE)

Stale(job) == job.status = "running" /\ ~job.fresh

(* Mutant of ReclaimStale: jobs without an attempt left are passed over.    *)
ReclaimRetries ==
  /\ \E j \in JobIds : Stale(jobs[j]) /\ ~Exhausted(jobs[j])
  /\ jobs' = [j \in JobIds |->
                IF Stale(jobs[j]) /\ ~Exhausted(jobs[j])
                THEN Reclaimed(jobs[j]) ELSE jobs[j]]

(* reclaim_stale: one call deals with all stale jobs.                       *)
ReclaimStale ==
  /\ \E j \in JobIds : Stale(jobs[j])
  /\ jobs' = [j \in JobIds |-> IF Stale(jobs[j]) THEN Reclaimed(jobs[j])
                               ELSE jobs[j]]

-----------------------------------------------------------------------------
(* The clock.                                                              *)

(* A retry becomes available.                                              *)
DelayEnds(j) ==
  /\ jobs[j].delayed
  /\ jobs' = [jobs EXCEPT ![j].delayed = FALSE]

(* The last heartbeat of a running job falls behind the host's cutoff.      *)
HeartbeatLapses(j) ==
  /\ jobs[j].status = "running" /\ jobs[j].fresh
  /\ jobs' = [jobs EXCEPT ![j].fresh = FALSE]

-----------------------------------------------------------------------------
(* Every record is one __post_init__ accepts.                               *)
QueueTypeOK ==
  /\ jobs \in Seq(Job)
  /\ \A j \in JobIds : jobs[j].attempts <= jobs[j].max

(* A job waiting in the queue still has an attempt left, so that whoever    *)
(* claims it may run it: reclaiming, releasing and failing see to that.     *)
QueuedHasAttempts ==
  \A j \in JobIds : jobs[j].status = "queued" => ~Exhausted(jobs[j])

=============================================================================
