-------------------------- MODULE ContinuationProofs --------------------------
(***************************************************************************)
(* Proofs about ContinuationRunner for all workers, jobs, runs and stores.  *)
(***************************************************************************)
EXTENDS ContinuationRunner, TLAPS

-----------------------------------------------------------------------------
(* Jobs: what the operations of the queue preserve.                         *)

LEMMA JobType ==
  ASSUME QueueTypeOK, NEW j \in JobIds
  PROVE  /\ jobs[j] \in Job /\ jobs[j].attempts <= jobs[j].max
         /\ jobs[j].attempts \in Nat /\ jobs[j].max \in Nat \ {0}
         /\ jobs[j].next \in RunIds /\ jobs[j].previous \in RunIds
<1>1. jobs[j] \in Job /\ jobs[j].attempts <= jobs[j].max
  BY DEF QueueTypeOK, JobIds
<1> QED
  BY <1>1 DEF Job

(* Replacing one job by another that is in order.                           *)
LEMMA UpdateType ==
  ASSUME QueueTypeOK, NEW j \in JobIds, NEW r \in Job, r.attempts <= r.max,
         jobs' = [jobs EXCEPT ![j] = r]
  PROVE  QueueTypeOK' /\ JobIds' = JobIds
<1>1. jobs' \in Seq(Job) /\ Len(jobs') = Len(jobs)
  BY DEF QueueTypeOK, JobIds
<1>2. ASSUME NEW i \in JobIds PROVE jobs'[i].attempts <= jobs'[i].max
  BY DEF QueueTypeOK, JobIds
<1> QED
  BY <1>1, <1>2 DEF QueueTypeOK, JobIds

LEMMA EnqueueType ==
  ASSUME QueueTypeOK, NEW spec \in Specs, Enqueue(spec)
  PROVE  /\ QueueTypeOK' /\ JobIds \subseteq JobIds'
         /\ \A i \in JobIds : jobs'[i] = jobs[i]
         /\ \A i \in JobIds' \ JobIds : jobs'[i] = NewJob(spec)
<1>1. NewJob(spec) \in Job /\ NewJob(spec).attempts <= NewJob(spec).max
  BY QueueConstants DEF NewJob, Job, JobStatus
<1>2. CASE jobs' = jobs
  BY <1>2 DEF QueueTypeOK, JobIds
<1>3. CASE jobs' = Append(jobs, NewJob(spec))
  <2>1. jobs' \in Seq(Job) /\ Len(jobs') = Len(jobs) + 1 /\ Len(jobs) \in Nat
    BY <1>1, <1>3 DEF QueueTypeOK
  <2>2. \A i \in JobIds : jobs'[i] = jobs[i]
    BY <1>3, <2>1 DEF QueueTypeOK, JobIds
  <2>3. jobs'[Len(jobs) + 1] = NewJob(spec)
    BY <1>3, <2>1 DEF QueueTypeOK
  <2>4. \A i \in JobIds' : i \in JobIds \/ i = Len(jobs) + 1
    BY <2>1 DEF JobIds
  <2> QED
    BY <1>1, <2>1, <2>2, <2>3, <2>4 DEF QueueTypeOK, JobIds
<1> QED
  BY <1>2, <1>3 DEF Enqueue

LEMMA ClaimType ==
  ASSUME QueueTypeOK, NEW j \in JobIds, ClaimNext(j)
  PROVE  QueueTypeOK' /\ JobIds' = JobIds
<1> DEFINE r == [jobs[j] EXCEPT !.status = "running", !.fresh = TRUE]
<1>1. r \in Job /\ r.attempts <= r.max
  BY JobType DEF Job, JobStatus
<1>2. jobs' = [jobs EXCEPT ![j] = r]
  BY DEF ClaimNext
<1> QED
  BY <1>1, <1>2, UpdateType

LEMMA CountedType ==
  ASSUME NEW q \in Job, ~(q.attempts >= q.max)
  PROVE  LET r == [q EXCEPT !.attempts = @ + 1, !.fresh = TRUE]
         IN  r \in Job /\ r.attempts <= r.max
<1> DEFINE r == [q EXCEPT !.attempts = @ + 1, !.fresh = TRUE]
<1>1. q.attempts \in Nat /\ q.max \in Nat
  BY DEF Job
<1>2. q.attempts + 1 \in Nat /\ q.attempts + 1 <= q.max
  BY <1>1
<1>3. r \in Job
  BY <1>2 DEF Job
<1>4. r.attempts = q.attempts + 1 /\ r.max = q.max
  BY DEF Job
<1> QED
  BY <1>2, <1>3, <1>4

LEMMA MarkAttemptType ==
  ASSUME QueueTypeOK, NEW j \in JobIds, MarkAttemptStarted(j)
  PROVE  QueueTypeOK' /\ JobIds' = JobIds
<1>1. CASE jobs' = jobs
  BY <1>1 DEF QueueTypeOK, JobIds
<1>2. CASE ~Exhausted(jobs[j])
           /\ jobs' = [jobs EXCEPT ![j].attempts = @ + 1, ![j].fresh = TRUE]
  <2> DEFINE r == [jobs[j] EXCEPT !.attempts = @ + 1, !.fresh = TRUE]
  <2>1. r \in Job /\ r.attempts <= r.max
    BY <1>2, JobType, CountedType DEF Exhausted
  <2>2. jobs' = [jobs EXCEPT ![j] = r]
    BY <1>2
  <2> QED
    BY <2>1, <2>2, UpdateType
<1>3. CASE jobs' = [jobs EXCEPT ![j].status = "dead_letter"]
  <2> DEFINE r == [jobs[j] EXCEPT !.status = "dead_letter"]
  <2>1. r \in Job /\ r.attempts <= r.max
    BY JobType DEF Job, JobStatus
  <2>2. jobs' = [jobs EXCEPT ![j] = r]
    BY <1>3
  <2> QED
    BY <2>1, <2>2, UpdateType
<1>4. jobs[j].status \in JobStatus
  BY JobType DEF Job
<1> QED
  BY <1>1, <1>2, <1>3, <1>4 DEF MarkAttemptStarted

LEMMA CompleteSuccessType ==
  ASSUME QueueTypeOK, NEW j \in JobIds, CompleteSuccess(j)
  PROVE  QueueTypeOK' /\ JobIds' = JobIds
<1> DEFINE r == [jobs[j] EXCEPT !.status = "succeeded"]
<1>1. r \in Job /\ r.attempts <= r.max
  BY JobType DEF Job, JobStatus
<1>2. jobs' = [jobs EXCEPT ![j] = r]
  BY DEF CompleteSuccess
<1> QED
  BY <1>1, <1>2, UpdateType

LEMMA ReleasedType ==
  ASSUME NEW r \in Job, r.attempts <= r.max, NEW delayed \in BOOLEAN
  PROVE  /\ Released(r, delayed) \in Job /\ Dead(r) \in Job
         /\ Released(r, delayed).attempts <= Released(r, delayed).max
         /\ Dead(r).attempts <= Dead(r).max
         /\ Exhausted(Released(r, delayed)) = Exhausted(r)
BY DEF Released, Dead, Job, JobStatus, Exhausted

LEMMA CompleteFailureType ==
  ASSUME QueueTypeOK, NEW j \in JobIds, CompleteFailure(j)
  PROVE  QueueTypeOK' /\ JobIds' = JobIds
BY JobType, ReleasedType, UpdateType DEF CompleteFailure

LEMMA ReclaimType ==
  ASSUME QueueTypeOK, ReclaimStale
  PROVE  QueueTypeOK' /\ JobIds' = JobIds
<1> DEFINE after(j) == IF Stale(jobs[j]) THEN Reclaimed(jobs[j]) ELSE jobs[j]
<1>1. jobs' = [j \in JobIds |-> after(j)]
  BY DEF ReclaimStale
<1>2. ASSUME NEW j \in JobIds
      PROVE  after(j) \in Job /\ after(j).attempts <= after(j).max
  BY JobType, ReleasedType DEF Reclaimed
<1> HIDE DEF after
<1>3. jobs' \in Seq(Job) /\ Len(jobs') = Len(jobs)
  BY <1>1, <1>2 DEF QueueTypeOK, JobIds
<1> QED
  BY <1>1, <1>2, <1>3 DEF QueueTypeOK, JobIds

(* The clock and the heartbeat change flags only.                           *)
LEMMA FlagsType ==
  ASSUME QueueTypeOK, NEW j \in JobIds,
         Heartbeat(j) \/ DelayEnds(j) \/ HeartbeatLapses(j)
  PROVE  QueueTypeOK' /\ JobIds' = JobIds
<1> DEFINE kept(r) == r \in Job /\ r.attempts <= r.max
<1>1. CASE Heartbeat(j)
  <2>1. kept([jobs[j] EXCEPT !.fresh = TRUE])
    BY JobType DEF Job
  <2> QED
    BY <1>1, <2>1, UpdateType DEF Heartbeat
<1>2. CASE DelayEnds(j)
  <2>1. kept([jobs[j] EXCEPT !.delayed = FALSE])
    BY JobType DEF Job
  <2> QED
    BY <1>2, <2>1, UpdateType DEF DelayEnds
<1>3. CASE HeartbeatLapses(j)
  <2>1. kept([jobs[j] EXCEPT !.fresh = FALSE])
    BY JobType DEF Job
  <2> QED
    BY <1>3, <2>1, UpdateType DEF HeartbeatLapses
<1> QED
  BY <1>1, <1>2, <1>3

-----------------------------------------------------------------------------
(* Runners.                                                                *)

LEMMA WorkerJob ==
  ASSUME TypeOK, NEW w \in Runners, w # Host, pc[w] # "idle"
  PROVE  /\ w \in Workers /\ job[w] \in JobIds
         /\ jobs[job[w]] \in Job
         /\ jobs[job[w]].previous \in RunIds
         /\ RunOf(w) \in RunIds
<1>1. w \in Workers /\ job[w] \in JobIds
  BY DEF TypeOK, Runners
<1> QED
  BY <1>1, JobType DEF TypeOK, RunOf

LEMMA RunOfType ==
  ASSUME TypeOK, NEW w \in Runners, w = Host \/ pc[w] # "idle"
  PROVE  RunOf(w) \in RunIds
BY WorkerJob, RunnerConstants DEF RunOf

(* The runner of a label no host has is a worker.                           *)
LEMMA WorkerLabel ==
  ASSUME TypeOK, NEW w \in Runners, pc[w] \notin HostLabels
  PROVE  w # Host /\ pc[w] # "idle"
BY DEF TypeOK, HostLabels

Labels == Awaits \cup Steps

(* A step of one runner that keeps its job.                                 *)
LEMMA StepOn ==
  ASSUME TypeOK, QueueTypeOK', JobIds \subseteq JobIds', setting' = setting,
         runs' \in [RunIds -> Run], executions' \in [1..MaxJobs -> Nat],
         resumed' \in [Runners -> {"none", "saved"}],
         NEW w \in Runners, NEW label \in Labels, Goto(w, label), job' = job,
         label # "idle", w # Host => pc[w] # "idle",
         w = Host => label \in HostLabels
  PROVE  TypeOK'
<1>1. pc' \in [Runners -> Labels] /\ pc'[Host] \in HostLabels
  BY DEF TypeOK, Goto, Labels, Runners
<1>2. ASSUME NEW v \in Workers
      PROVE  job'[v] \in (IF pc'[v] = "idle" THEN {0} ELSE JobIds')
  <2>1. job[v] \in (IF pc[v] = "idle" THEN {0} ELSE JobIds) /\ v \in Runners
    BY DEF TypeOK, Runners
  <2>2. CASE v = w
    <3>1. pc[v] # "idle" /\ pc'[v] # "idle"
      BY <2>2, RunnerConstants DEF TypeOK, Goto
    <3> QED
      BY <2>1, <3>1
  <2>3. CASE v # w
    <3>1. pc'[v] = pc[v]
      BY <2>1, <2>3 DEF TypeOK, Goto
    <3> QED
      BY <2>1, <3>1
  <2> QED
    BY <2>2, <2>3
<1> QED
  BY <1>1, <1>2 DEF TypeOK, Labels

(* A step after which a worker is idle again.                               *)
LEMMA StepIdle ==
  ASSUME TypeOK, QueueTypeOK', JobIds \subseteq JobIds', setting' = setting,
         runs' = runs, executions' = executions, NEW w \in Workers, Idle(w)
  PROVE  TypeOK'
<1>1. pc' \in [Runners -> Labels] /\ pc'[Host] \in HostLabels
  BY RunnerConstants DEF TypeOK, Idle, Goto, Labels, Runners, Awaits
<1>2. job' \in [Runners -> Nat] /\ resumed' \in [Runners -> {"none", "saved"}]
  BY DEF TypeOK, Idle
<1>3. ASSUME NEW v \in Workers
      PROVE  job'[v] \in (IF pc'[v] = "idle" THEN {0} ELSE JobIds')
  BY DEF TypeOK, Idle, Goto, Runners
<1> QED
  BY <1>1, <1>2, <1>3 DEF TypeOK, Labels

(* A step that leaves the runners alone.                                    *)
LEMMA StepHost ==
  ASSUME TypeOK, QueueTypeOK', JobIds \subseteq JobIds', UNCHANGED runnerVars
  PROVE  TypeOK'
BY DEF TypeOK, runnerVars

LEMMA JobsSame ==
  ASSUME QueueTypeOK, jobs' = jobs
  PROVE  QueueTypeOK' /\ JobIds' = JobIds
BY DEF QueueTypeOK, JobIds

LEMMA InitType == Init => TypeOK
<1> SUFFICES ASSUME Init PROVE TypeOK
  OBVIOUS
<1>1. QueueTypeOK
  BY DEF Init, QueueTypeOK, JobIds
<1>2. runs \in [RunIds -> Run]
  BY DEF Init, Run, Absent, RunStatus
<1>3. /\ pc \in [Runners -> Awaits \cup Steps] /\ pc[Host] \in HostLabels
      /\ job \in [Runners -> Nat] /\ resumed \in [Runners -> {"none", "saved"}]
      /\ executions \in [1..MaxJobs -> Nat]
  BY DEF Init, Awaits, HostLabels, Runners
<1>4. \A w \in Workers : pc[w] = "idle" /\ job[w] = 0
  BY DEF Init, Runners
<1> QED
  BY <1>1, <1>2, <1>3, <1>4 DEF Init, TypeOK

LEMMA CompletionStatusType ==
  ASSUME NEW run, NEW reason
  PROVE  CompletionStatus(run, reason) \in RunStatus
BY DEF CompletionStatus, RunStatus

LEMMA CreatedType ==
  ASSUME TypeOK, NEW next \in RunIds, NEW previous \in RunIds,
         NEW state \in {"none", "saved"}, CreateContinuation(next, previous, state)
  PROVE  runs' \in [RunIds -> Run]
<1>1. runs[previous].index \in Nat /\ runs[previous].max \in Nat
  BY DEF TypeOK, Run
<1>2. [status |-> "pending", index |-> runs[previous].index + 1,
       max |-> runs[previous].max, state |-> state] \in Run
  BY <1>1 DEF Run, RunStatus
<1> QED
  BY <1>2 DEF TypeOK, CreateContinuation

(* Writing the status of a run, or its status and its engine state.         *)
LEMMA StatusType ==
  ASSUME TypeOK, NEW r \in RunIds, NEW status \in RunStatus,
         NEW state \in {"none", "saved"},
         \/ SetStatus(r, status)
         \/ runs' = [runs EXCEPT ![r].status = status, ![r].state = state]
  PROVE  runs' \in [RunIds -> Run]
<1>1. runs[r] \in Run /\ runs \in [RunIds -> Run]
  BY DEF TypeOK
<1>2. CASE SetStatus(r, status)
  <2>1. [runs[r] EXCEPT !.status = status] \in Run
    BY <1>1 DEF Run
  <2> QED
    BY <1>1, <1>2, <2>1 DEF SetStatus
<1>3. CASE runs' = [runs EXCEPT ![r].status = status, ![r].state = state]
  <2>1. [runs[r] EXCEPT !.status = status, !.state = state] \in Run
    BY <1>1 DEF Run
  <2> QED
    BY <1>1, <1>3, <2>1
<1> QED
  BY <1>2, <1>3

LEMMA TypeStep ==
  ASSUME TypeOK, [Next]_vars
  PROVE  TypeOK'
<1> USE DEF Labels, Awaits, Steps, HostLabels, Raised
<1>0. QueueTypeOK /\ runs \in [RunIds -> Run]
      /\ executions \in [1..MaxJobs -> Nat]
      /\ resumed \in [Runners -> {"none", "saved"}] /\ Host \in Runners
  BY DEF TypeOK, Runners
<1>1. CASE StartRoot
  <2>1. runs' \in [RunIds -> Run]
    BY <1>0, <1>1, RunnerConstants
    DEF StartRoot, CreateRoot, Absent, Run, RunStatus
  <2> QED
    BY <1>0, <1>1, <2>1, JobsSame, StepOn DEF StartRoot
<1>2. ASSUME NEW w \in Runners, Claim(w) PROVE TypeOK'
  <2>1. PICK j \in JobIds : ClaimNext(j) /\ job' = [job EXCEPT ![w] = j]
    BY <1>2 DEF Claim
  <2>2. QueueTypeOK' /\ JobIds' = JobIds /\ j \in Nat
    BY <1>0, <2>1, ClaimType DEF JobIds
  <2>3. pc' \in [Runners -> Labels] /\ pc'[Host] \in HostLabels
    BY <1>2 DEF Claim, Goto, TypeOK, Runners
  <2>4. job' \in [Runners -> Nat]
    BY <2>1, <2>2 DEF TypeOK
  <2>5. ASSUME NEW v \in Workers
        PROVE  job'[v] \in (IF pc'[v] = "idle" THEN {0} ELSE JobIds')
    BY <1>2, <2>1, <2>2 DEF Claim, Goto, TypeOK, Runners
  <2> QED
    BY <1>0, <1>2, <2>2, <2>3, <2>4, <2>5 DEF Claim, TypeOK
<1>3. ASSUME NEW w \in Runners, MarkAttempt(w) PROVE TypeOK'
  <2>1. job[w] \in JobIds /\ w # Host /\ pc[w] # "idle"
    BY <1>3, WorkerLabel, WorkerJob DEF MarkAttempt
  <2>2. QueueTypeOK' /\ JobIds' = JobIds
    BY <1>0, <1>3, <2>1, MarkAttemptType DEF MarkAttempt
  <2>3. PICK label \in {"overrun", "marked"} : Goto(w, label)
    BY <1>3 DEF MarkAttempt
  <2> QED
    BY <1>0, <1>3, <2>1, <2>2, <2>3, StepOn DEF MarkAttempt
<1>4. ASSUME NEW w \in Runners, PreviousMissing(w) PROVE TypeOK'
  <2>1. job[w] \in JobIds /\ w \in Workers
    BY <1>4, WorkerLabel, WorkerJob DEF PreviousMissing
  <2>2. QueueTypeOK' /\ JobIds' = JobIds
    BY <1>0, <1>4, <2>1, CompleteFailureType DEF PreviousMissing
  <2> QED
    BY <1>4, <2>1, <2>2, StepIdle DEF PreviousMissing
<1>5. ASSUME NEW w \in Runners, LoadPrevious(w) PROVE TypeOK'
  <2>1. /\ jobs[job[w]].previous \in RunIds /\ w # Host /\ pc[w] # "idle"
    BY <1>5, WorkerLabel, WorkerJob DEF LoadPrevious
  <2>2. runs[jobs[job[w]].previous].state \in {"none", "saved"}
    BY <1>0, <2>1 DEF Run
  <2>3. resumed' \in [Runners -> {"none", "saved"}]
    BY <1>0, <1>5, <2>2 DEF LoadPrevious
  <2> QED
    BY <1>0, <1>5, <2>1, <2>3, JobsSame, StepOn DEF LoadPrevious
<1>6. ASSUME NEW w \in Runners, LookUpRun(w) PROVE TypeOK'
  <2>1. w # Host /\ pc[w] # "idle"
    BY <1>6, WorkerLabel DEF LookUpRun
  <2>2. PICK label \in {"creating", "ensured"} : Goto(w, label)
    BY <1>6 DEF LookUpRun
  <2> QED
    BY <1>0, <1>6, <2>1, <2>2, JobsSame, StepOn DEF LookUpRun
<1>7. ASSUME NEW w \in Runners, EnsureRun(w) PROVE TypeOK'
  <2>1. /\ w # Host /\ pc[w] # "idle" /\ RunOf(w) \in RunIds
        /\ jobs[job[w]].previous \in RunIds
    BY <1>7, WorkerLabel, WorkerJob DEF EnsureRun
  <2>2. resumed[w] \in {"none", "saved"}
    BY <1>0
  <2>3. runs' \in [RunIds -> Run]
    BY <1>0, <1>7, <2>1, <2>2, CreatedType DEF EnsureRun
  <2>4. PICK label \in {"refused", "clashed", "ensured"} : Goto(w, label)
    BY <1>7 DEF EnsureRun
  <2> QED
    BY <1>0, <1>7, <2>1, <2>3, <2>4, JobsSame, StepOn DEF EnsureRun
<1>8. ASSUME NEW w \in Runners, MarkRunning(w) PROVE TypeOK'
  <2>1. w = Host \/ pc[w] # "idle"
    BY <1>8 DEF MarkRunning
  <2>2. runs' \in [RunIds -> Run]
    BY <1>8, <2>1, RunOfType, StatusType DEF MarkRunning, RunStatus
  <2>3. executions' \in [1..MaxJobs -> Nat]
    <3>1. CASE executions' = executions
      BY <1>0, <3>1
    <3>2. CASE executions' = [executions EXCEPT ![job[w]] = @ + 1]
      <4>1. CASE job[w] \in 1..MaxJobs
        BY <1>0, <3>2, <4>1
      <4>2. CASE job[w] \notin 1..MaxJobs
        <5>1. executions' = executions
          BY <1>0, <3>2, <4>2
        <5> QED
          BY <1>0, <5>1
      <4> QED
        BY <4>1, <4>2
    <3> QED
      BY <1>8, <3>1, <3>2 DEF MarkRunning
  <2> QED
    BY <1>0, <1>8, <2>1, <2>2, <2>3, JobsSame, StepOn DEF MarkRunning
<1>9. ASSUME NEW w \in Runners, KernelReturns(w) PROVE TypeOK'
  <2>1. PICK reason \in Reasons : MarkCompleted(RunOf(w), reason)
    BY <1>9 DEF KernelReturns
  <2>2. runs' \in [RunIds -> Run]
    BY <1>9, <2>1, RunOfType, StatusType, CompletionStatusType
    DEF KernelReturns, MarkCompleted
  <2>3. PICK label \in {"observing", "stopped", "ended"} :
          Goto(w, label) /\ (w = Host => label # "ended")
    BY <1>9 DEF KernelReturns, OrStops
  <2> QED
    BY <1>0, <1>9, <2>2, <2>3, JobsSame, StepOn DEF KernelReturns
<1>10. ASSUME NEW w \in Runners, JobSucceeds(w) PROVE TypeOK'
  <2>1. job[w] \in JobIds /\ w \in Workers /\ w # Host /\ pc[w] # "idle"
    BY <1>10, WorkerLabel, WorkerJob DEF JobSucceeds
  <2>2. QueueTypeOK' /\ JobIds' = JobIds
    BY <1>0, <1>10, <2>1, CompleteSuccessType DEF JobSucceeds
  <2>3. CASE Goto(w, "observing") /\ UNCHANGED <<job, resumed>>
    BY <1>0, <1>10, <2>1, <2>2, <2>3, StepOn DEF JobSucceeds
  <2>4. CASE Idle(w)
    BY <1>10, <2>1, <2>2, <2>4, StepIdle DEF JobSucceeds
  <2> QED
    BY <1>10, <2>3, <2>4 DEF JobSucceeds
<1>11. ASSUME NEW w \in Runners, Observed(w) PROVE TypeOK'
  <2>1. QueueTypeOK' /\ JobIds' = JobIds
    BY <1>0, <1>11, JobsSame DEF Observed
  <2>2. CASE w = Host
    BY <1>0, <1>11, <2>1, <2>2, StepOn DEF Observed
  <2>3. CASE w # Host
    <3>1. w \in Workers
      BY <2>3 DEF Runners
    <3> QED
      BY <1>11, <2>1, <2>3, <3>1, StepIdle DEF Observed
  <2> QED
    BY <2>2, <2>3
<1>12. ASSUME NEW w \in Runners, KernelRaises(w) PROVE TypeOK'
  <2>1. runs' \in [RunIds -> Run]
    BY <1>12, RunOfType, StatusType DEF KernelRaises, RunStatus
  <2>2. PICK label \in {"reporting", "stopped", "failing"} :
          Goto(w, label) /\ (w = Host => label # "failing")
    BY <1>12 DEF KernelRaises, OrStops
  <2> QED
    BY <1>0, <1>12, <2>1, <2>2, JobsSame, StepOn DEF KernelRaises
<1>13. ASSUME NEW w \in Runners, TaskCancelled(w) PROVE TypeOK'
  <2>1. runs' \in [RunIds -> Run]
    BY <1>13, RunOfType, StatusType DEF TaskCancelled, MarkCancelled, RunStatus
  <2>2. PICK label \in {"reporting", "stopped", "cancelling"} :
          Goto(w, label) /\ (w = Host => label # "cancelling")
    BY <1>13 DEF TaskCancelled, OrStops
  <2>3. pc[w] # "idle"
    BY <1>13 DEF TaskCancelled
  <2> QED
    BY <1>0, <1>13, <2>1, <2>2, <2>3, JobsSame, StepOn DEF TaskCancelled
<1>14. ASSUME NEW w \in Runners, JobFails(w) PROVE TypeOK'
  <2>1. job[w] \in JobIds /\ w \in Workers /\ w # Host /\ pc[w] # "idle"
    BY <1>14, WorkerLabel, WorkerJob DEF JobFails
  <2>2. QueueTypeOK' /\ JobIds' = JobIds
    BY <1>0, <1>14, <2>1, CompleteFailureType DEF JobFails
  <2>3. CASE Goto(w, "reporting") /\ UNCHANGED <<job, resumed>>
    BY <1>0, <1>14, <2>1, <2>2, <2>3, StepOn DEF JobFails
  <2>4. CASE Idle(w)
    BY <1>14, <2>1, <2>2, <2>4, StepIdle DEF JobFails
  <2> QED
    BY <1>14, <2>3, <2>4 DEF JobFails
<1>15. ASSUME NEW w \in Runners, GiveUp(w) PROVE TypeOK'
  <2>1. w \in Workers
    BY <1>15, WorkerLabel DEF GiveUp, Runners
  <2> QED
    BY <1>0, <1>15, <2>1, JobsSame, StepIdle DEF GiveUp
<1>16. CASE HostEnqueues
  BY <1>0, <1>16, EnqueueType, StepHost DEF HostEnqueues
<1>17. CASE HostReclaims
  BY <1>0, <1>17, ReclaimType, StepHost DEF HostReclaims
<1>18. CASE HostHeartbeats
  BY <1>0, <1>18, FlagsType, StepHost DEF HostHeartbeats
<1>19. CASE RetryAvailable
  BY <1>0, <1>19, FlagsType, StepHost DEF RetryAvailable
<1>20. CASE JobGoesStale
  BY <1>0, <1>20, FlagsType, StepHost DEF JobGoesStale
<1>21. CASE Crash
  <2>1. QueueTypeOK' /\ JobIds' = JobIds
    BY <1>0, <1>21, JobsSame DEF Crash
  <2>2. PICK down \in SUBSET Runners : GoDown(down)
    BY <1>21 DEF Crash
  <2>3. pc' \in [Runners -> Labels] /\ pc'[Host] \in HostLabels
    BY <1>0, <2>2 DEF TypeOK, GoDown
  <2>4. job' \in [Runners -> Nat] /\ resumed' \in [Runners -> {"none", "saved"}]
    BY <2>2 DEF TypeOK, GoDown
  <2>5. ASSUME NEW v \in Workers
        PROVE  job'[v] \in (IF pc'[v] = "idle" THEN {0} ELSE JobIds')
    BY <2>1, <2>2, RunnerConstants DEF TypeOK, Runners, GoDown
  <2> QED
    BY <1>0, <1>21, <2>1, <2>3, <2>4, <2>5 DEF Crash, TypeOK
<1>22. CASE UNCHANGED vars
  BY <1>0, <1>22, JobsSame, StepHost DEF vars
<1> QED
  BY <1>1, <1>2, <1>3, <1>4, <1>5, <1>6, <1>7, <1>8, <1>9, <1>10, <1>11, <1>12,
     <1>13, <1>14, <1>15, <1>16, <1>17, <1>18, <1>19, <1>20, <1>21, <1>22
  DEF Next, Advance, PollInVain

(* Every variable of the runners keeps its type, and no job record is ever  *)
(* one that ContinuationJobRecord refuses.                                  *)
THEOREM TypeCorrect == Spec => []TypeOK
<1>1. TypeOK /\ [Next]_vars => TypeOK'
  BY TypeStep
<1> QED
  BY <1>1, InitType, PTL DEF Spec

-----------------------------------------------------------------------------
(* One worker per job.                                                     *)

(* A job somebody works on is not in the queue, and not stale.              *)
HeldJobs ==
  \A w \in Workers : \A j \in JobIds :
    WorksOn(w, j) => /\ jobs[j].status # "queued"
                     /\ jobs[j].status = "running" => jobs[j].fresh

Exclusive == setting.patient => HeldJobs /\ OneWorkerPerJob

(* Nobody begins to work on a job.                                         *)
NoneBegins ==
  \A v \in Workers : \A j \in JobIds' : WorksOn(v, j)' => j \in JobIds /\ WorksOn(v, j)

LEMMA WorksOnJob ==
  ASSUME TypeOK, NEW w \in Workers, NEW j, WorksOn(w, j)
  PROVE  j \in JobIds /\ pc[w] # "idle"
BY DEF TypeOK, WorksOn

(* A step of a runner that worked on its job, or does no longer.            *)
LEMMA StepKeeps ==
  ASSUME TypeOK, NEW w \in Runners, NEW label, Goto(w, label), job' = job,
         \/ w # Host => pc[w] \notin {"idle", "reporting"} \cup Raised
         \/ label \in {"idle", "reporting"} \cup Raised
  PROVE  NoneBegins
<1>1. ASSUME NEW v \in Workers, NEW j \in JobIds', WorksOn(v, j)'
      PROVE  WorksOn(v, j)
  <2>1. v # Host /\ v \in Runners /\ job[v] = j
    BY <1>1, RunnerConstants DEF Runners, WorksOn
  <2>2. CASE v = w
    <3>1. pc'[w] = label
      BY DEF TypeOK, Goto
    <3> QED
      BY <1>1, <2>1, <2>2, <3>1 DEF WorksOn
  <2>3. CASE v # w
    <3>1. pc'[v] = pc[v]
      BY <2>1, <2>3 DEF TypeOK, Goto
    <3> QED
      BY <1>1, <2>1, <3>1 DEF WorksOn
  <2> QED
    BY <2>2, <2>3
<1> QED
  BY <1>1, WorksOnJob DEF NoneBegins

(* A step after which a worker works on nothing.                            *)
LEMMA IdleKeeps ==
  ASSUME TypeOK, NEW w \in Workers, Idle(w)
  PROVE  NoneBegins /\ \A j : ~WorksOn(w, j)'
<1>1. w \in Runners /\ pc'[w] = "idle"
  BY DEF TypeOK, Idle, Goto, Runners
<1>2. ASSUME NEW v \in Workers, NEW j, WorksOn(v, j)'
      PROVE  v # w /\ WorksOn(v, j)
  <2>1. v # w /\ v \in Runners
    BY <1>1, <1>2 DEF WorksOn, Runners
  <2>2. pc'[v] = pc[v] /\ job'[v] = job[v]
    BY <2>1 DEF TypeOK, Idle, Goto
  <2> QED
    BY <1>2, <2>1, <2>2 DEF WorksOn
<1> QED
  BY <1>2, WorksOnJob DEF NoneBegins

(* The same where it reports a failure first.                               *)
LEMMA ReportKeeps ==
  ASSUME TypeOK, NEW w \in Workers, Goto(w, "reporting"), job' = job
  PROVE  NoneBegins /\ \A j : ~WorksOn(w, j)'
<1>1. w \in Runners /\ pc'[w] = "reporting"
  BY DEF TypeOK, Goto, Runners
<1> QED
  BY <1>1, StepKeeps DEF WorksOn

(* Nobody begins, and the jobs somebody works on stay held.                 *)
LEMMA HeldKept ==
  ASSUME HeldJobs, OneWorkerPerJob, setting.patient, NoneBegins,
         \A v \in Workers : \A j \in JobIds : WorksOn(v, j)' =>
           \/ jobs'[j] = jobs[j]
           \/ /\ jobs'[j].status # "queued"
              /\ jobs'[j].status = "running" => jobs'[j].fresh
  PROVE  HeldJobs' /\ OneWorkerPerJob'
<1>1. HeldJobs'
  BY DEF HeldJobs, NoneBegins
<1>2. OneWorkerPerJob'
  BY DEF OneWorkerPerJob, NoneBegins
<1> QED
  BY <1>1, <1>2

LEMMA OthersSame ==
  ASSUME QueueTypeOK, NEW j \in JobIds, NEW r, jobs' = [jobs EXCEPT ![j] = r]
  PROVE  jobs'[j] = r /\ \A i \in JobIds : i # j => jobs'[i] = jobs[i]
BY DEF QueueTypeOK, JobIds

(* A failed job may return to the queue, where its worker has left it.      *)
LEMMA FailKeeps ==
  ASSUME TypeOK, HeldJobs, OneWorkerPerJob, setting.patient, NEW w \in Workers,
         WorksOn(w, job[w]), CompleteFailure(job[w]),
         Idle(w) \/ (Goto(w, "reporting") /\ job' = job)
  PROVE  HeldJobs' /\ OneWorkerPerJob'
<1>1. QueueTypeOK /\ job[w] \in JobIds
  BY WorksOnJob DEF TypeOK
<1>2. PICK r : jobs' = [jobs EXCEPT ![job[w]] = r]
  BY DEF CompleteFailure
<1>3. NoneBegins /\ \A j : ~WorksOn(w, j)'
  BY IdleKeeps, ReportKeeps
<1>4. ASSUME NEW v \in Workers, NEW j \in JobIds, WorksOn(v, j)'
      PROVE  jobs'[j] = jobs[j]
  <2>1. JobIds' = JobIds
    BY <1>1, CompleteFailureType
  <2>2. v # w /\ WorksOn(v, j)
    BY <1>3, <1>4, <2>1 DEF NoneBegins
  <2>3. j # job[w]
    BY <2>2 DEF OneWorkerPerJob
  <2> QED
    BY <1>1, <1>2, <2>3, OthersSame
<1> QED
  BY <1>3, <1>4, HeldKept

LEMMA SettingStays == [Next]_vars => setting' = setting
BY DEF Next, Advance, StartRoot, PollInVain, Claim, MarkAttempt, PreviousMissing,
   LoadPrevious, LookUpRun, EnsureRun, MarkRunning, KernelReturns, JobSucceeds,
   Observed, KernelRaises, TaskCancelled, JobFails, GiveUp, HostEnqueues,
   HostReclaims, HostHeartbeats, RetryAvailable, JobGoesStale, Crash, vars,
   runnerVars

LEMMA ExclusiveStep ==
  ASSUME TypeOK, TypeOK', Exclusive, [Next]_vars
  PROVE  Exclusive'
<1>0. setting' = setting
  BY SettingStays
<1> SUFFICES ASSUME setting.patient PROVE HeldJobs' /\ OneWorkerPerJob'
  BY <1>0 DEF Exclusive
<1>00. HeldJobs /\ OneWorkerPerJob /\ QueueTypeOK
  BY DEF Exclusive, TypeOK
<1> USE DEF Raised
(* Steps of one runner that do not touch the queue.                         *)
<1>1. ASSUME NEW w \in Runners,
             \/ (StartRoot /\ w = Host) \/ LoadPrevious(w) \/ LookUpRun(w)
             \/ EnsureRun(w) \/ MarkRunning(w) \/ KernelReturns(w)
             \/ KernelRaises(w) \/ TaskCancelled(w)
             \/ Observed(w) /\ w = Host
      PROVE  HeldJobs' /\ OneWorkerPerJob'
  <2>1. jobs' = jobs /\ job' = job /\ \E label : Goto(w, label)
    BY <1>1 DEF StartRoot, LoadPrevious, LookUpRun, EnsureRun, MarkRunning,
       KernelReturns, KernelRaises, TaskCancelled, Observed
  <2>2. w # Host => pc[w] \notin {"idle", "reporting"} \cup Raised
    BY <1>1 DEF LoadPrevious, LookUpRun, EnsureRun, MarkRunning, KernelReturns,
       KernelRaises, TaskCancelled
  <2>3. NoneBegins
    BY <2>1, <2>2, StepKeeps
  <2> QED
    BY <1>00, <2>1, <2>3, HeldKept
<1>2. ASSUME NEW w \in Workers, GiveUp(w) \/ Observed(w)
      PROVE  HeldJobs' /\ OneWorkerPerJob'
  <2>1. jobs' = jobs /\ Idle(w)
    BY <1>2, RunnerConstants DEF GiveUp, Observed
  <2> QED
    BY <1>00, <2>1, IdleKeeps, HeldKept
<1>3. ASSUME NEW w \in Runners, Claim(w) PROVE HeldJobs' /\ OneWorkerPerJob'
  <2>1. PICK j \in JobIds : ClaimNext(j) /\ job' = [job EXCEPT ![w] = j]
    BY <1>3 DEF Claim
  <2>2. w \in Workers /\ pc[w] = "idle" /\ Goto(w, "claimed")
    BY <1>3 DEF Claim, Runners
  <2>3. jobs[j].status = "queued" /\ \A v \in Workers : ~WorksOn(v, j)
    BY <1>00, <2>1 DEF ClaimNext, Oldest, Claimable, HeldJobs
  <2>4. /\ JobIds' = JobIds /\ \A i \in JobIds : i # j => jobs'[i] = jobs[i]
        /\ jobs'[j].status = "running" /\ jobs'[j].fresh
    <3> DEFINE r == [jobs[j] EXCEPT !.status = "running", !.fresh = TRUE]
    <3>1. jobs' = [jobs EXCEPT ![j] = r]
      BY <2>1 DEF ClaimNext
    <3>2. jobs[j] \in Job
      BY <1>00, JobType
    <3>3. r.status = "running" /\ r.fresh
      BY <3>2 DEF Job
    <3> QED
      BY <1>00, <2>1, <3>1, <3>3, ClaimType, OthersSame
  <2>5. ASSUME NEW v \in Workers, NEW i \in JobIds, WorksOn(v, i)'
        PROVE  IF v = w THEN i = j ELSE WorksOn(v, i)
    BY <1>3, <2>1, <2>2, <2>5 DEF WorksOn, Goto, TypeOK, Runners
  <2>6. HeldJobs'
    BY <1>00, <2>3, <2>4, <2>5 DEF HeldJobs
  <2>7. OneWorkerPerJob'
    BY <1>00, <2>3, <2>4, <2>5 DEF OneWorkerPerJob
  <2> QED
    BY <2>6, <2>7
<1>4. ASSUME NEW w \in Runners, MarkAttempt(w) PROVE HeldJobs' /\ OneWorkerPerJob'
  <2>1. w \in Workers /\ job[w] \in JobIds /\ pc[w] = "claimed"
    BY <1>4, WorkerLabel, WorkerJob DEF MarkAttempt, HostLabels
  <2>2. NoneBegins
    BY <1>4, <2>1, StepKeeps DEF MarkAttempt
  <2> DEFINE j == job[w]
  <2>3. jobs[j] \in Job
    BY <1>00, <2>1, JobType
  <2>4. \/ jobs' = jobs
        \/ \E r : /\ jobs' = [jobs EXCEPT ![j] = r]
                  /\ r.status # "queued" /\ (r.status = "running" => r.fresh)
    <3>1. CASE jobs' = [jobs EXCEPT ![j].attempts = @ + 1, ![j].fresh = TRUE]
               /\ jobs[j].status = "running"
      <4> DEFINE r == [jobs[j] EXCEPT !.attempts = @ + 1, !.fresh = TRUE]
      <4>1. r.status = "running" /\ r.fresh
        BY <2>3, <3>1 DEF Job
      <4>2. jobs' = [jobs EXCEPT ![j] = r]
        BY <3>1
      <4> QED
        BY <4>1, <4>2
    <3>2. CASE jobs' = [jobs EXCEPT ![j].status = "dead_letter"]
      <4> DEFINE r == [jobs[j] EXCEPT !.status = "dead_letter"]
      <4>1. r.status = "dead_letter"
        BY <2>3 DEF Job
      <4>2. jobs' = [jobs EXCEPT ![j] = r]
        BY <3>2
      <4> QED
        BY <4>1, <4>2
    <3> QED
      BY <1>4, <2>3, <3>1, <3>2 DEF MarkAttempt, MarkAttemptStarted, Job
  <2> HIDE DEF j
  <2>5. CASE jobs' = jobs
    BY <1>00, <2>2, <2>5, HeldKept
  <2>6. ASSUME NEW r, jobs' = [jobs EXCEPT ![j] = r], r.status # "queued",
               r.status = "running" => r.fresh
        PROVE  HeldJobs' /\ OneWorkerPerJob'
    <3>1. jobs'[j] = r /\ \A i \in JobIds : i # j => jobs'[i] = jobs[i]
      BY <1>00, <2>1, <2>6, OthersSame DEF j
    <3> QED
      BY <1>00, <2>2, <2>6, <3>1, HeldKept
  <2> QED
    BY <2>4, <2>5, <2>6
<1>5. ASSUME NEW w \in Runners, PreviousMissing(w) \/ JobFails(w)
      PROVE  HeldJobs' /\ OneWorkerPerJob'
  <2>1. /\ w \in Workers /\ WorksOn(w, job[w]) /\ CompleteFailure(job[w])
        /\ Idle(w) \/ (Goto(w, "reporting") /\ job' = job)
    BY <1>5, WorkerLabel, WorkerJob
    DEF PreviousMissing, JobFails, HostLabels, WorksOn
  <2> QED
    BY <1>00, <2>1, FailKeeps
<1>6. ASSUME NEW w \in Runners, JobSucceeds(w) PROVE HeldJobs' /\ OneWorkerPerJob'
  <2>1. w \in Workers /\ job[w] \in JobIds /\ pc[w] = "ended"
    BY <1>6, WorkerLabel, WorkerJob DEF JobSucceeds, HostLabels
  <2>2. NoneBegins
    BY <1>6, <2>1, StepKeeps, IdleKeeps DEF JobSucceeds
  <2> DEFINE r == [jobs[job[w]] EXCEPT !.status = "succeeded"]
  <2>3. jobs' = [jobs EXCEPT ![job[w]] = r]
    BY <1>6 DEF JobSucceeds, CompleteSuccess
  <2>4. r.status = "succeeded"
    BY <1>00, <2>1, JobType DEF Job
  <2> HIDE DEF r
  <2>5. jobs'[job[w]] = r /\ \A i \in JobIds : i # job[w] => jobs'[i] = jobs[i]
    BY <1>00, <2>1, <2>3, OthersSame
  <2> QED
    BY <1>00, <2>2, <2>4, <2>5, HeldKept
<1>7. ASSUME UNCHANGED runnerVars PROVE NoneBegins
  BY <1>7, WorksOnJob DEF NoneBegins, WorksOn, runnerVars
<1>8. CASE HostEnqueues
  <2>1. \A i \in JobIds : jobs'[i] = jobs[i]
    BY <1>00, <1>8, EnqueueType DEF HostEnqueues
  <2> QED
    BY <1>00, <1>7, <1>8, <2>1, HeldKept DEF HostEnqueues
<1>9. CASE HostReclaims
  <2>1. NoneBegins /\ JobIds' = JobIds
    BY <1>00, <1>7, <1>9, ReclaimType DEF HostReclaims
  <2>2. ASSUME NEW v \in Workers, NEW j \in JobIds, WorksOn(v, j)'
        PROVE  jobs'[j] = jobs[j]
    <3>1. WorksOn(v, j)
      BY <2>1, <2>2 DEF NoneBegins
    <3>2. ~Stale(jobs[j])
      BY <1>00, <3>1 DEF HeldJobs, Stale
    <3> QED
      BY <1>9, <3>2 DEF HostReclaims, ReclaimStale
  <2> QED
    BY <1>00, <2>1, <2>2, HeldKept
<1>10. CASE HostHeartbeats
  <2>1. PICK j \in JobIds : Heartbeat(j)
    BY <1>10 DEF HostHeartbeats
  <2> DEFINE r == [jobs[j] EXCEPT !.fresh = TRUE]
  <2>2. jobs' = [jobs EXCEPT ![j] = r]
    BY <2>1 DEF Heartbeat
  <2>3. r.status = jobs[j].status /\ r.fresh
    BY <1>00, JobType DEF Job
  <2> HIDE DEF r
  <2>4. jobs'[j] = r /\ \A i \in JobIds : i # j => jobs'[i] = jobs[i]
    BY <1>00, <2>2, OthersSame
  <2>5. NoneBegins /\ JobIds' = JobIds
    BY <1>00, <1>7, <1>10, <2>1, FlagsType DEF HostHeartbeats
  <2>6. ASSUME NEW v \in Workers, WorksOn(v, j)' PROVE jobs'[j].status # "queued"
    BY <1>00, <2>3, <2>4, <2>5, <2>6 DEF NoneBegins, HeldJobs
  <2> QED
    BY <1>00, <2>3, <2>4, <2>5, <2>6, HeldKept
<1>11. CASE RetryAvailable
  <2>1. PICK j \in JobIds : DelayEnds(j)
    BY <1>11 DEF RetryAvailable
  <2> DEFINE r == [jobs[j] EXCEPT !.delayed = FALSE]
  <2>2. jobs' = [jobs EXCEPT ![j] = r]
    BY <2>1 DEF DelayEnds
  <2>3. r.status = jobs[j].status /\ r.fresh = jobs[j].fresh
    BY <1>00, JobType DEF Job
  <2> HIDE DEF r
  <2>4. jobs'[j] = r /\ \A i \in JobIds : i # j => jobs'[i] = jobs[i]
    BY <1>00, <2>2, OthersSame
  <2>5. NoneBegins /\ JobIds' = JobIds
    BY <1>00, <1>7, <1>11, <2>1, FlagsType DEF RetryAvailable
  <2>6. ASSUME NEW v \in Workers, WorksOn(v, j)'
        PROVE  /\ jobs'[j].status # "queued"
               /\ jobs'[j].status = "running" => jobs'[j].fresh
    BY <1>00, <2>3, <2>4, <2>5, <2>6 DEF NoneBegins, HeldJobs
  <2> QED
    BY <1>00, <2>4, <2>5, <2>6, HeldKept
<1>12. CASE JobGoesStale
  <2>1. PICK j \in JobIds : /\ HeartbeatLapses(j)
                            /\ \A v \in Workers : ~WorksOn(v, j)
    BY <1>12 DEF JobGoesStale
  <2> DEFINE r == [jobs[j] EXCEPT !.fresh = FALSE]
  <2>2. jobs' = [jobs EXCEPT ![j] = r]
    BY <2>1 DEF HeartbeatLapses
  <2> HIDE DEF r
  <2>3. \A i \in JobIds : i # j => jobs'[i] = jobs[i]
    BY <1>00, <2>2, OthersSame
  <2>4. NoneBegins /\ JobIds' = JobIds
    BY <1>00, <1>7, <1>12, <2>1, FlagsType DEF JobGoesStale
  <2>5. \A v \in Workers : ~WorksOn(v, j)'
    BY <2>1, <2>4 DEF NoneBegins
  <2> QED
    BY <1>00, <2>3, <2>4, <2>5, HeldKept
<1>13. CASE Crash
  <2>1. PICK down \in SUBSET Runners : GoDown(down)
    BY <1>13 DEF Crash
  <2>2. jobs' = jobs
    BY <1>13 DEF Crash
  <2>3. ASSUME NEW v \in Workers, NEW j \in JobIds', WorksOn(v, j)'
        PROVE  WorksOn(v, j)
    BY <2>1, <2>3, RunnerConstants DEF WorksOn, GoDown, Runners
  <2>4. NoneBegins
    BY <2>3, WorksOnJob DEF NoneBegins
  <2> QED
    BY <1>00, <2>2, <2>4, HeldKept
<1>14. CASE UNCHANGED vars
  BY <1>00, <1>7, <1>14, HeldKept DEF vars
<1>15. ASSUME NEW w \in Runners, Observed(w) \/ GiveUp(w)
       PROVE  HeldJobs' /\ OneWorkerPerJob'
  <2>1. CASE w = Host
    <3>1. Observed(w)
      BY <1>15, <2>1 DEF GiveUp, TypeOK, HostLabels
    <3> QED
      BY <1>1, <2>1, <3>1
  <2>2. CASE w # Host
    BY <1>2, <1>15, <2>2 DEF Runners
  <2> QED
    BY <2>1, <2>2
<1>16. CASE StartRoot
  BY <1>1, <1>16 DEF Runners
<1>17. ASSUME NEW w \in Runners,
              PollInVain(w) \/ Advance(w) \/ KernelRaises(w) \/ TaskCancelled(w)
       PROVE  HeldJobs' /\ OneWorkerPerJob'
  BY <1>1, <1>3, <1>4, <1>5, <1>6, <1>14, <1>15, <1>17 DEF Advance, PollInVain
<1> QED
  BY <1>8, <1>9, <1>10, <1>11, <1>12, <1>13, <1>14, <1>16, <1>17 DEF Next

(* With a host whose cutoff outlasts every execution, no two workers may    *)
(* still complete, fail or run the same job, whatever crashes, retries,     *)
(* reclaims and awaited observers come in between: on one loop, or over an   *)
(* adapter that locks what claim_next reads.                                *)
THEOREM OneWorkerSafe == Spec => []OneWorkerPerJob
<1>1. Init => Exclusive
  <2> SUFFICES ASSUME Init PROVE HeldJobs /\ OneWorkerPerJob
    BY DEF Exclusive
  <2>1. \A w \in Workers : \A j : ~WorksOn(w, j)
    BY DEF Init, WorksOn, Runners
  <2> QED
    BY <2>1 DEF HeldJobs, OneWorkerPerJob
<1>2. TypeOK /\ TypeOK' /\ Exclusive /\ [Next]_vars => Exclusive'
  BY ExclusiveStep
<1>3. Exclusive => OneWorkerPerJob
  BY DEF Exclusive, OneWorkerPerJob
<1> QED
  BY <1>1, <1>2, <1>3, TypeCorrect, PTL DEF Spec

-----------------------------------------------------------------------------
(* The queue of the SQLite store holds no job without an attempt left.      *)

Waiting(r) == r.status = "queued" => ~Exhausted(r)

(* Replacing one job by another with an attempt left, or not queued.        *)
LEMMA UpdateWaiting ==
  ASSUME QueueTypeOK, QueuedHasAttempts, NEW j \in JobIds, NEW r,
         jobs' = [jobs EXCEPT ![j] = r], Waiting(r)
  PROVE  QueuedHasAttempts'
<1>1. JobIds' = JobIds
  BY DEF QueueTypeOK, JobIds
<1>2. \A i \in JobIds : jobs'[i] = IF i = j THEN r ELSE jobs[i]
  BY DEF QueueTypeOK, JobIds
<1> QED
  BY <1>1, <1>2 DEF QueuedHasAttempts, Waiting, Exhausted

(* The operations of the queue and the clock, one by one.                   *)
LEMMA QueueKeepsWaiting ==
  ASSUME QueueTypeOK, QueuedHasAttempts, Store = "sqlite",
         \/ \E spec \in Specs : Enqueue(spec)
         \/ \E j \in JobIds :
              \/ ClaimNext(j) \/ MarkAttemptStarted(j) \/ Heartbeat(j)
              \/ CompleteSuccess(j) \/ CompleteFailure(j)
              \/ DelayEnds(j) \/ HeartbeatLapses(j)
         \/ ReclaimStale
         \/ jobs' = jobs
  PROVE  QueuedHasAttempts'
<1>1. ASSUME NEW spec \in Specs, Enqueue(spec) PROVE QueuedHasAttempts'
  <2>1. ~Exhausted(NewJob(spec))
    BY QueueConstants DEF NewJob, Exhausted
  <2> QED
    BY <1>1, <2>1, EnqueueType DEF QueuedHasAttempts, Exhausted
<1>2. ASSUME NEW j \in JobIds, ClaimNext(j) PROVE QueuedHasAttempts'
  <2> DEFINE r == [jobs[j] EXCEPT !.status = "running", !.fresh = TRUE]
  <2>1. jobs' = [jobs EXCEPT ![j] = r]
    BY <1>2 DEF ClaimNext
  <2>2. Waiting(r)
    BY JobType DEF Waiting, Job
  <2> QED
    BY <2>1, <2>2, UpdateWaiting
<1>3. ASSUME NEW j \in JobIds, MarkAttemptStarted(j) PROVE QueuedHasAttempts'
  <2>1. CASE jobs' = jobs
    BY <2>1 DEF QueuedHasAttempts, JobIds, Exhausted
  <2>2. CASE /\ jobs[j].status = "running"
             /\ jobs' = [jobs EXCEPT ![j].attempts = @ + 1, ![j].fresh = TRUE]
    <3> DEFINE r == [jobs[j] EXCEPT !.attempts = @ + 1, !.fresh = TRUE]
    <3>1. jobs' = [jobs EXCEPT ![j] = r]
      BY <2>2
    <3>2. Waiting(r)
      BY <2>2, JobType DEF Waiting, Job
    <3> QED
      BY <3>1, <3>2, UpdateWaiting
  <2>3. CASE jobs' = [jobs EXCEPT ![j].status = "dead_letter"]
    <3> DEFINE r == [jobs[j] EXCEPT !.status = "dead_letter"]
    <3>1. jobs' = [jobs EXCEPT ![j] = r]
      BY <2>3
    <3>2. Waiting(r)
      BY JobType DEF Waiting, Job
    <3> QED
      BY <3>1, <3>2, UpdateWaiting
  <2>4. jobs[j].status = "running" \/ jobs[j].status # "running"
    OBVIOUS
  <2> QED
    BY <1>3, <2>1, <2>2, <2>3, <2>4 DEF MarkAttemptStarted
<1>4. ASSUME NEW j \in JobIds,
             Heartbeat(j) \/ HeartbeatLapses(j) \/ DelayEnds(j)
      PROVE  QueuedHasAttempts'
  <2>1. PICK r : /\ jobs' = [jobs EXCEPT ![j] = r]
                 /\ r.status = jobs[j].status /\ r.attempts = jobs[j].attempts
                 /\ r.max = jobs[j].max
    <3>1. /\ [jobs EXCEPT ![j].fresh = TRUE]
               = [jobs EXCEPT ![j] = [jobs[j] EXCEPT !.fresh = TRUE]]
          /\ [jobs EXCEPT ![j].fresh = FALSE]
               = [jobs EXCEPT ![j] = [jobs[j] EXCEPT !.fresh = FALSE]]
          /\ [jobs EXCEPT ![j].delayed = FALSE]
               = [jobs EXCEPT ![j] = [jobs[j] EXCEPT !.delayed = FALSE]]
      OBVIOUS
    <3>2. \A b \in BOOLEAN :
            LET f == [jobs[j] EXCEPT !.fresh = b]
                d == [jobs[j] EXCEPT !.delayed = b]
            IN  /\ f.status = jobs[j].status /\ f.attempts = jobs[j].attempts
                /\ f.max = jobs[j].max
                /\ d.status = jobs[j].status /\ d.attempts = jobs[j].attempts
                /\ d.max = jobs[j].max
      BY JobType DEF Job
    <3> QED
      BY <1>4, <3>1, <3>2 DEF Heartbeat, HeartbeatLapses, DelayEnds
  <2>2. Waiting(r)
    BY <2>1 DEF QueuedHasAttempts, Waiting, Exhausted
  <2> QED
    BY <2>1, <2>2, UpdateWaiting
<1>5. ASSUME NEW j \in JobIds, CompleteSuccess(j) PROVE QueuedHasAttempts'
  <2> DEFINE r == [jobs[j] EXCEPT !.status = "succeeded"]
  <2>1. jobs' = [jobs EXCEPT ![j] = r]
    BY <1>5 DEF CompleteSuccess
  <2>2. Waiting(r)
    BY JobType DEF Waiting, Job
  <2> QED
    BY <2>1, <2>2, UpdateWaiting
<1>6. ASSUME NEW j \in JobIds, CompleteFailure(j) PROVE QueuedHasAttempts'
  <2>1. ASSUME NEW delayed \in BOOLEAN
        PROVE  /\ Waiting(Dead(jobs[j]))
               /\ ~Exhausted(jobs[j]) => Waiting(Released(jobs[j], delayed))
    BY JobType, ReleasedType DEF Waiting, Dead, Job
  <2> QED
    BY <1>6, <2>1, UpdateWaiting DEF CompleteFailure
<1>7. ASSUME ReclaimStale PROVE QueuedHasAttempts'
  <2>1. ASSUME NEW j \in JobIds PROVE Waiting(Reclaimed(jobs[j]))
    BY JobType, ReleasedType DEF Waiting, Reclaimed, Dead, Job
  <2>2. \A j \in JobIds : Waiting(jobs'[j])
    BY <1>7, <2>1 DEF ReclaimStale, QueuedHasAttempts, Waiting
  <2> QED
    BY <1>7, <2>2, ReclaimType DEF QueuedHasAttempts, Waiting, Exhausted
<1>8. CASE jobs' = jobs
  BY <1>8 DEF QueuedHasAttempts, JobIds, Exhausted
<1> QED
  BY <1>1, <1>2, <1>3, <1>4, <1>5, <1>6, <1>7, <1>8

(* A step of the runners or the host does to the queue what one of its      *)
(* operations does, or nothing.                                            *)
LEMMA WaitingStep ==
  ASSUME TypeOK, QueuedHasAttempts, Store = "sqlite", [Next]_vars
  PROVE  QueuedHasAttempts'
<1>1. QueueTypeOK
  BY DEF TypeOK
<1>2. ASSUME NEW w \in Runners, Claim(w) PROVE QueuedHasAttempts'
  BY <1>1, <1>2, QueueKeepsWaiting DEF Claim
<1>3. ASSUME NEW w \in Runners,
             MarkAttempt(w) \/ PreviousMissing(w) \/ JobSucceeds(w) \/ JobFails(w)
      PROVE  QueuedHasAttempts'
  <2>1. job[w] \in JobIds
    BY <1>3, WorkerLabel, WorkerJob
    DEF MarkAttempt, PreviousMissing, JobSucceeds, JobFails, HostLabels
  <2> QED
    BY <1>1, <1>3, <2>1, QueueKeepsWaiting
    DEF MarkAttempt, PreviousMissing, JobSucceeds, JobFails
<1>4. ASSUME NEW w \in Runners,
             \/ PollInVain(w) \/ LoadPrevious(w) \/ LookUpRun(w) \/ EnsureRun(w)
             \/ MarkRunning(w) \/ KernelReturns(w) \/ Observed(w) \/ GiveUp(w)
             \/ KernelRaises(w) \/ TaskCancelled(w)
      PROVE  jobs' = jobs
  BY <1>4 DEF PollInVain, LoadPrevious, LookUpRun, EnsureRun, MarkRunning,
              KernelReturns, Observed, GiveUp, KernelRaises, TaskCancelled, vars
<1>5. CASE StartRoot \/ Crash \/ UNCHANGED vars
  BY <1>1, <1>5, QueueKeepsWaiting DEF StartRoot, Crash, vars
<1>6. CASE HostEnqueues \/ HostReclaims
  BY <1>1, <1>6, QueueKeepsWaiting DEF HostEnqueues, HostReclaims
<1>7. CASE HostHeartbeats \/ RetryAvailable \/ JobGoesStale
  BY <1>1, <1>7, QueueKeepsWaiting
  DEF HostHeartbeats, RetryAvailable, JobGoesStale
<1> QED
  BY <1>1, <1>2, <1>3, <1>4, <1>5, <1>6, <1>7, QueueKeepsWaiting
  DEF Next, Advance

(* Behind the SQLite store a queued job always has an attempt left, however  *)
(* its workers crash, stall, raise and retry: no worker claims a job that    *)
(* it may not count.                                                       *)
THEOREM QueuedSafe ==
  ASSUME Store = "sqlite" PROVE Spec => []QueuedHasAttempts
<1>1. Init => QueuedHasAttempts
  BY DEF Init, QueuedHasAttempts, JobIds
<1>2. TypeOK /\ QueuedHasAttempts /\ [Next]_vars => QueuedHasAttempts'
  BY WaitingStep
<1> QED
  BY <1>1, <1>2, TypeCorrect, PTL DEF Spec

-----------------------------------------------------------------------------
(* On one loop every execution is counted: between the claim and the       *)
(* kernel no other step comes in.                                          *)

Alone == \A v, w \in Runners : pc[v] \in Steps /\ pc[w] \in Steps => v = w

Begins == {"marked", "loaded", "creating", "ensured"}

(* What a worker on its way to the kernel knows of its job.                 *)
Counted(w) ==
  /\ pc[w] = "claimed" =>
       /\ jobs[job[w]].status = "running"
       /\ Store = "sqlite" => ~Exhausted(jobs[job[w]])
  /\ pc[w] \in Begins => executions[job[w]] < jobs[job[w]].attempts

Bounded == Len(jobs) <= MaxJobs

Unstarted == \A j \in 1..MaxJobs : j \notin JobIds => executions[j] = 0

CountInv ==
  /\ Alone /\ Bounded /\ Unstarted /\ ExecutionsCounted
  /\ \A w \in Workers : Counted(w)
  /\ Store = "sqlite" => QueuedHasAttempts

(* No operation of the queue, nor the clock, lowers an attempts counter.    *)
LEMMA AttemptsGrow ==
  ASSUME QueueTypeOK,
         \/ \E j \in JobIds :
              \/ ClaimNext(j) \/ MarkAttemptStarted(j) \/ Heartbeat(j)
              \/ CompleteSuccess(j) \/ CompleteFailure(j)
              \/ DelayEnds(j) \/ HeartbeatLapses(j)
         \/ ReclaimStale
         \/ jobs' = jobs
  PROVE  /\ Len(jobs') = Len(jobs) /\ JobIds' = JobIds
         /\ \A i \in JobIds : jobs'[i].attempts >= jobs[i].attempts
<1>0. \A i \in JobIds : jobs[i] \in Job /\ jobs[i].attempts \in Nat
  BY JobType
<1>1. ASSUME NEW j \in JobIds, NEW r, jobs' = [jobs EXCEPT ![j] = r],
             r.attempts \in Nat, r.attempts >= jobs[j].attempts
      PROVE  /\ Len(jobs') = Len(jobs) /\ JobIds' = JobIds
             /\ \A i \in JobIds : jobs'[i].attempts >= jobs[i].attempts
  BY <1>0, <1>1 DEF QueueTypeOK, JobIds
<1>2. ASSUME NEW j \in JobIds,
             \/ ClaimNext(j) \/ Heartbeat(j) \/ CompleteSuccess(j)
             \/ DelayEnds(j) \/ HeartbeatLapses(j)
      PROVE  \E r : /\ jobs' = [jobs EXCEPT ![j] = r]
                    /\ r.attempts \in Nat /\ r.attempts >= jobs[j].attempts
  <2> DEFINE c == [jobs[j] EXCEPT !.status = "running", !.fresh = TRUE]
             h == [jobs[j] EXCEPT !.fresh = TRUE]
             s == [jobs[j] EXCEPT !.status = "succeeded"]
             d == [jobs[j] EXCEPT !.delayed = FALSE]
             l == [jobs[j] EXCEPT !.fresh = FALSE]
  <2>1. \/ jobs' = [jobs EXCEPT ![j] = c] \/ jobs' = [jobs EXCEPT ![j] = h]
        \/ jobs' = [jobs EXCEPT ![j] = s] \/ jobs' = [jobs EXCEPT ![j] = d]
        \/ jobs' = [jobs EXCEPT ![j] = l]
    BY <1>2 DEF ClaimNext, Heartbeat, CompleteSuccess, DelayEnds, HeartbeatLapses
  <2>2. /\ c.attempts = jobs[j].attempts /\ h.attempts = jobs[j].attempts
        /\ s.attempts = jobs[j].attempts /\ d.attempts = jobs[j].attempts
        /\ l.attempts = jobs[j].attempts
    BY <1>0 DEF Job
  <2> HIDE DEF c, h, s, d, l
  <2>3. jobs[j].attempts \in Nat /\ jobs[j].attempts >= jobs[j].attempts
    BY <1>0
  <2> QED
    BY <2>1, <2>2, <2>3
<1>3. ASSUME NEW j \in JobIds, MarkAttemptStarted(j)
      PROVE  \/ jobs' = jobs
             \/ \E r : /\ jobs' = [jobs EXCEPT ![j] = r]
                       /\ r.attempts \in Nat /\ r.attempts >= jobs[j].attempts
  <2> DEFINE a == [jobs[j] EXCEPT !.attempts = @ + 1, !.fresh = TRUE]
             d == [jobs[j] EXCEPT !.status = "dead_letter"]
  <2>1. \/ jobs' = jobs \/ jobs' = [jobs EXCEPT ![j] = a]
        \/ jobs' = [jobs EXCEPT ![j] = d]
    BY <1>3 DEF MarkAttemptStarted
  <2>2. /\ a.attempts = jobs[j].attempts + 1 /\ d.attempts = jobs[j].attempts
    BY <1>0 DEF Job
  <2> HIDE DEF a, d
  <2>3. /\ a.attempts \in Nat /\ a.attempts >= jobs[j].attempts
        /\ d.attempts \in Nat /\ d.attempts >= jobs[j].attempts
    BY <1>0, <2>2
  <2> QED
    BY <2>1, <2>3
<1>4. ASSUME NEW r \in Job, NEW delayed \in BOOLEAN
      PROVE  /\ Released(r, delayed).attempts = r.attempts
             /\ Dead(r).attempts = r.attempts
  BY DEF Released, Dead, Job
<1>5. ASSUME NEW j \in JobIds, CompleteFailure(j)
      PROVE  \E r : /\ jobs' = [jobs EXCEPT ![j] = r]
                    /\ r.attempts \in Nat /\ r.attempts >= jobs[j].attempts
  <2>1. PICK delayed \in BOOLEAN :
          \/ jobs' = [jobs EXCEPT ![j] = Dead(jobs[j])]
          \/ jobs' = [jobs EXCEPT ![j] = Released(jobs[j], delayed)]
    BY <1>5 DEF CompleteFailure
  <2>2. /\ Released(jobs[j], delayed).attempts = jobs[j].attempts
        /\ Dead(jobs[j]).attempts = jobs[j].attempts
        /\ jobs[j].attempts \in Nat /\ jobs[j].attempts >= jobs[j].attempts
    BY <1>0, <1>4
  <2> QED
    BY <2>1, <2>2
<1>6. CASE ReclaimStale
  <2>1. JobIds' = JobIds /\ Len(jobs') = Len(jobs)
    BY <1>6 DEF ReclaimStale, QueueTypeOK, JobIds
  <2>2. \A i \in JobIds : jobs'[i].attempts = jobs[i].attempts
    BY <1>0, <1>4, <1>6 DEF ReclaimStale, Reclaimed
  <2> QED
    BY <1>0, <2>1, <2>2
<1>7. CASE jobs' = jobs
  BY <1>0, <1>7 DEF JobIds
<1> QED
  BY <1>1, <1>2, <1>3, <1>5, <1>6, <1>7

(* The two counters of a job are numbers that can be compared.              *)
LEMMA CountTypes ==
  ASSUME TypeOK, Bounded, NEW i \in JobIds
  PROVE  /\ i \in 1..MaxJobs /\ executions[i] \in Nat
         /\ jobs[i].attempts \in Nat
<1>1. MaxJobs \in Nat /\ Len(jobs) \in Nat /\ Len(jobs) <= MaxJobs
  BY QueueConstants DEF TypeOK, QueueTypeOK, Bounded
<1>2. i \in 1..MaxJobs
  BY <1>1 DEF JobIds
<1>3. executions[i] \in Nat
  BY <1>2 DEF TypeOK
<1> QED
  BY <1>2, <1>3, JobType DEF TypeOK

(* Counters that grow keep the executions counted.                          *)
LEMMA CountsKept ==
  ASSUME TypeOK, QueueTypeOK', Unstarted, ExecutionsCounted, Bounded',
         setting.loop,
         executions' = executions, JobIds \subseteq JobIds',
         \A i \in JobIds : jobs'[i].attempts >= jobs[i].attempts
  PROVE  Unstarted' /\ ExecutionsCounted'
<1>1. \A i \in JobIds' : jobs'[i] \in Job /\ i \in 1..MaxJobs
  BY RunnerConstants, QueueConstants DEF QueueTypeOK, JobIds, Bounded
<1>2. ASSUME NEW i \in JobIds' PROVE executions[i] <= jobs'[i].attempts
  <2>1. jobs'[i].attempts \in Nat /\ executions[i] \in Nat
    BY <1>1 DEF Job, TypeOK
  <2>2. CASE i \in JobIds
    <3>1. jobs[i].attempts \in Nat
      BY <2>2, JobType DEF TypeOK
    <3> QED
      BY <2>1, <2>2, <3>1 DEF ExecutionsCounted
  <2>3. CASE i \notin JobIds
    BY <1>1, <2>1, <2>3 DEF Unstarted
  <2> QED
    BY <2>2, <2>3
<1> QED
  BY <1>2 DEF Unstarted, ExecutionsCounted

(* A step of one runner while all others wait.                              *)
LEMMA AloneStep ==
  ASSUME TypeOK, setting.loop, NEW w \in Runners, LoopFree(w),
         \A v \in Runners \ {w} : pc'[v] = pc[v]
  PROVE  Alone' /\ \A v \in Workers : v # w => Counted(v)'
<1>1. \A v \in Runners \ {w} : pc'[v] \in Awaits
  BY DEF LoopFree
<1>2. \A v \in Runners \ {w} : /\ pc'[v] \notin Steps \cup Begins
                               /\ pc'[v] # "claimed"
  BY <1>1 DEF Awaits, Steps, Begins, Raised
<1> QED
  BY <1>2 DEF Alone, Counted, Runners

(* A step of a worker that leaves its way to the kernel, or of the host.    *)
LEMMA OffTheWay ==
  ASSUME TypeOK, CountInv, QueueTypeOK', setting.loop, NEW w \in Runners,
         LoopFree(w), NEW label, Goto(w, label),
         label \notin Begins \cup {"claimed"} \/ w = Host,
         executions' = executions, Len(jobs') = Len(jobs), JobIds' = JobIds,
         \A i \in JobIds : jobs'[i].attempts >= jobs[i].attempts
  PROVE  /\ Alone' /\ Bounded' /\ Unstarted' /\ ExecutionsCounted'
         /\ \A v \in Workers : Counted(v)'
<1>1. pc'[w] = label /\ \A v \in Runners \ {w} : pc'[v] = pc[v]
  BY DEF Goto, TypeOK
<1>2. Alone' /\ \A v \in Workers : v # w => Counted(v)'
  BY <1>1, AloneStep
<1>3. Bounded'
  BY DEF CountInv, Bounded
<1>4. w \in Workers => Counted(w)'
  BY <1>1, RunnerConstants DEF Counted
<1> QED
  BY <1>2, <1>3, <1>4, CountsKept DEF CountInv

(* A step of the host's other code, all runners waiting.                    *)
LEMMA HostStep ==
  ASSUME TypeOK, CountInv, QueueTypeOK', setting.loop, HostFree, Bounded',
         UNCHANGED runnerVars, JobIds \subseteq JobIds',
         \A i \in JobIds : jobs'[i].attempts >= jobs[i].attempts
  PROVE  /\ Alone' /\ Unstarted' /\ ExecutionsCounted'
         /\ \A v \in Workers : Counted(v)'
<1>1. \A v \in Runners : pc'[v] \in Awaits
  BY DEF HostFree, runnerVars
<1>2. \A v \in Runners : pc'[v] \notin Steps \cup Begins /\ pc'[v] # "claimed"
  BY <1>1 DEF Awaits, Steps, Begins, Raised
<1>3. executions' = executions
  BY DEF runnerVars
<1> QED
  BY <1>2, <1>3, CountsKept DEF Alone, Counted, Runners, CountInv

(* A step of the clock changes a flag of a job at most.                     *)
LEMMA ClockStep ==
  ASSUME TypeOK, CountInv, setting.loop, RetryAvailable \/ JobGoesStale
  PROVE  /\ Alone' /\ Bounded' /\ Unstarted' /\ ExecutionsCounted'
         /\ \A v \in Workers : Counted(v)'
<1>0. QueueTypeOK /\ \A i \in JobIds : jobs[i] \in Job
  BY JobType DEF TypeOK
<1>1. PICK j \in JobIds : DelayEnds(j) \/ HeartbeatLapses(j)
  BY DEF RetryAvailable, JobGoesStale
<1>2. /\ UNCHANGED runnerVars /\ QueueTypeOK' /\ JobIds' = JobIds
      /\ Len(jobs') = Len(jobs)
      /\ \A i \in JobIds : jobs'[i].attempts >= jobs[i].attempts
  BY <1>0, <1>1, FlagsType, AttemptsGrow DEF RetryAvailable, JobGoesStale
<1>3. ASSUME NEW i \in JobIds
      PROVE  /\ jobs'[i].status = jobs[i].status
             /\ jobs'[i].attempts = jobs[i].attempts
             /\ jobs'[i].max = jobs[i].max
  <2> DEFINE d == [jobs[j] EXCEPT !.delayed = FALSE]
             l == [jobs[j] EXCEPT !.fresh = FALSE]
  <2>1. jobs' = [jobs EXCEPT ![j] = d] \/ jobs' = [jobs EXCEPT ![j] = l]
    BY <1>1 DEF DelayEnds, HeartbeatLapses
  <2>2. /\ d.status = jobs[j].status /\ d.attempts = jobs[j].attempts
        /\ d.max = jobs[j].max
        /\ l.status = jobs[j].status /\ l.attempts = jobs[j].attempts
        /\ l.max = jobs[j].max
    BY <1>0 DEF Job
  <2> HIDE DEF d, l
  <2>3. jobs'[i] = jobs[i] \/ (i = j /\ (jobs'[j] = d \/ jobs'[j] = l))
    BY <1>0, <2>1 DEF QueueTypeOK, JobIds
  <2> QED
    BY <2>2, <2>3
<1>4. pc' = pc /\ job' = job /\ executions' = executions
  BY <1>2 DEF runnerVars
<1>5. Bounded' /\ Alone'
  BY <1>2, <1>4 DEF CountInv, Bounded, Alone
<1>6. ASSUME NEW v \in Workers PROVE Counted(v)'
  <2>1. CASE pc[v] = "idle"
    BY <1>4, <2>1 DEF Counted, Begins
  <2>2. CASE pc[v] # "idle"
    <3>1. job[v] \in JobIds
      BY <2>2 DEF TypeOK
    <3> QED
      BY <1>3, <1>4, <3>1 DEF CountInv, Counted, Exhausted
  <2> QED
    BY <2>1, <2>2
<1> QED
  BY <1>2, <1>4, <1>5, <1>6, CountsKept DEF CountInv

LEMMA CountStep ==
  ASSUME TypeOK, TypeOK', CountInv, setting.loop, [Next]_vars
  PROVE  CountInv'
<1>0. /\ QueueTypeOK /\ QueueTypeOK' /\ Alone /\ Bounded /\ Unstarted
      /\ ExecutionsCounted /\ \A w \in Workers : Counted(w)
      /\ Store = "sqlite" => QueuedHasAttempts
      /\ Store \in {"memory", "sqlite"} /\ Host \in Runners /\ Host \notin Workers
  BY QueueConstants, RunnerConstants DEF TypeOK, CountInv, Runners
<1> DEFINE Goal == /\ Alone' /\ Bounded' /\ Unstarted' /\ ExecutionsCounted'
                   /\ \A v \in Workers : Counted(v)'
<1> SUFFICES Goal
  BY <1>0, WaitingStep DEF CountInv
<1>1. ASSUME NEW w \in Runners, Claim(w) PROVE Goal
  <2>1. PICK j \in JobIds : ClaimNext(j) /\ job' = [job EXCEPT ![w] = j]
    BY <1>1 DEF Claim
  <2>2. w \in Workers /\ LoopFree(w) /\ executions' = executions
    BY <1>1 DEF Claim, Runners
  <2>3. pc'[w] = "claimed" /\ \A v \in Runners \ {w} : pc'[v] = pc[v]
    BY <1>1 DEF Claim, Goto, TypeOK
  <2>4. job'[w] = j
    BY <2>1 DEF TypeOK
  <2>5. /\ Len(jobs') = Len(jobs) /\ JobIds' = JobIds
        /\ \A i \in JobIds : jobs'[i].attempts >= jobs[i].attempts
    BY <1>0, <2>1, AttemptsGrow
  <2>6. /\ jobs'[j].status = "running"
        /\ jobs'[j].attempts = jobs[j].attempts /\ jobs'[j].max = jobs[j].max
    <3> DEFINE r == [jobs[j] EXCEPT !.status = "running", !.fresh = TRUE]
    <3>1. jobs[j] \in Job
      BY <1>0, JobType
    <3>2. jobs' = [jobs EXCEPT ![j] = r]
      BY <2>1 DEF ClaimNext
    <3>3. /\ r.status = "running" /\ r.attempts = jobs[j].attempts
          /\ r.max = jobs[j].max
      BY <3>1 DEF Job
    <3> HIDE DEF r
    <3>4. jobs'[j] = r
      BY <1>0, <2>1, <3>2 DEF QueueTypeOK, JobIds
    <3> QED
      BY <3>3, <3>4
  <2>7. Store = "sqlite" => ~Exhausted(jobs'[j])
    BY <1>0, <2>1, <2>6
    DEF ClaimNext, Oldest, Claimable, QueuedHasAttempts, Exhausted
  <2>8. Counted(w)'
    BY <2>3, <2>4, <2>6, <2>7 DEF Counted, Begins, Exhausted
  <2>9. Alone' /\ \A v \in Workers : v # w => Counted(v)'
    BY <2>2, <2>3, AloneStep
  <2>10. Bounded'
    BY <1>0, <2>5 DEF Bounded
  <2> QED
    BY <1>0, <2>2, <2>5, <2>8, <2>9, <2>10, CountsKept
<1>2. ASSUME NEW w \in Runners, MarkAttempt(w) PROVE Goal
  <2>1. w \in Workers /\ job[w] \in JobIds /\ jobs[job[w]] \in Job
    BY <1>2, WorkerLabel, WorkerJob DEF MarkAttempt, HostLabels
  <2>2. /\ MarkAttemptStarted(job[w]) /\ LoopFree(w) /\ job' = job
        /\ executions' = executions
    BY <1>2 DEF MarkAttempt
  <2>3. /\ Len(jobs') = Len(jobs) /\ JobIds' = JobIds
        /\ \A i \in JobIds : jobs'[i].attempts >= jobs[i].attempts
    BY <1>0, <2>1, <2>2, AttemptsGrow
  <2>4. CASE AttemptRaises(job[w])
    <3>1. Goto(w, "overrun") /\ "overrun" \notin Begins \cup {"claimed"}
      BY <1>2, <2>4 DEF MarkAttempt, Begins
    <3> QED
      BY <1>0, <2>2, <2>3, <3>1, OffTheWay
  <2>5. CASE ~AttemptRaises(job[w])
    <3>1. pc'[w] = "marked" /\ \A v \in Runners \ {w} : pc'[v] = pc[v]
      BY <1>2, <2>5 DEF MarkAttempt, Goto, TypeOK
    <3>2. jobs[job[w]].status = "running" /\ ~Exhausted(jobs[job[w]])
      BY <1>0, <1>2, <2>1, <2>5 DEF MarkAttempt, Counted, AttemptRaises
    <3>3. jobs' = [jobs EXCEPT ![job[w]].attempts = @ + 1,
                               ![job[w]].fresh = TRUE]
      BY <2>2, <3>2 DEF MarkAttemptStarted
    <3>4. jobs'[job[w]].attempts = jobs[job[w]].attempts + 1
      BY <1>0, <2>1, <3>3 DEF QueueTypeOK, JobIds, Job
    <3>5. executions[job[w]] < jobs'[job[w]].attempts
      <4>1. executions[job[w]] \in Nat /\ jobs[job[w]].attempts \in Nat
        BY <1>0, <2>1, CountTypes
      <4> QED
        BY <1>0, <2>1, <3>4, <4>1 DEF ExecutionsCounted
    <3>6. Counted(w)'
      BY <2>2, <3>1, <3>5 DEF Counted
    <3>7. Alone' /\ \A v \in Workers : v # w => Counted(v)'
      BY <2>2, <3>1, AloneStep
    <3>8. Bounded'
      BY <1>0, <2>3 DEF Bounded
    <3> QED
      BY <1>0, <2>2, <2>3, <3>6, <3>7, <3>8, CountsKept
  <2> QED
    BY <2>4, <2>5
<1>3. ASSUME NEW w \in Runners, LoadPrevious(w) \/ LookUpRun(w) \/ EnsureRun(w)
      PROVE  Goal
  <2>1. w \in Workers /\ pc[w] \in Begins
    BY <1>3, WorkerLabel
    DEF LoadPrevious, LookUpRun, EnsureRun, HostLabels, Begins, Runners
  <2>2. /\ jobs' = jobs /\ job' = job /\ executions' = executions /\ LoopFree(w)
        /\ \E label \in Begins \cup Raised : Goto(w, label)
    BY <1>3 DEF LoadPrevious, LookUpRun, EnsureRun, Begins, Raised
  <2>3. /\ pc'[w] \in Begins \cup Raised
        /\ \A v \in Runners \ {w} : pc'[v] = pc[v]
    BY <2>2 DEF Goto, TypeOK
  <2>4. Counted(w)'
    BY <1>0, <2>1, <2>2, <2>3 DEF Counted, Begins, Raised
  <2>5. Alone' /\ \A v \in Workers : v # w => Counted(v)'
    BY <2>2, <2>3, AloneStep
  <2>6. Bounded' /\ Unstarted' /\ ExecutionsCounted'
    BY <1>0, <2>2 DEF Bounded, Unstarted, ExecutionsCounted, JobIds
  <2> QED
    BY <2>4, <2>5, <2>6
<1>4. ASSUME NEW w \in Runners, MarkRunning(w) PROVE Goal
  <2>1. /\ pc[w] = "ensured" /\ LoopFree(w) /\ Goto(w, "kernel")
        /\ jobs' = jobs /\ job' = job
    BY <1>4 DEF MarkRunning
  <2>2. pc'[w] = "kernel" /\ \A v \in Runners \ {w} : pc'[v] = pc[v]
    BY <2>1 DEF Goto, TypeOK
  <2>3. Alone' /\ \A v \in Workers : v # w => Counted(v)'
    BY <2>1, <2>2, AloneStep
  <2>4. Counted(w)'
    BY <2>2 DEF Counted, Begins
  <2>5. Bounded' /\ JobIds' = JobIds
    BY <1>0, <2>1 DEF Bounded, JobIds
  <2>6. CASE w = Host
    <3>1. executions' = executions
      BY <1>4, <2>6 DEF MarkRunning
    <3> QED
      BY <1>0, <2>1, <2>3, <2>4, <2>5, <3>1 DEF Unstarted, ExecutionsCounted
  <2>7. CASE w # Host
    <3>1. executions' = [executions EXCEPT ![job[w]] = @ + 1] /\ w \in Workers
      BY <1>4, <2>7 DEF MarkRunning, Runners
    <3>2. job[w] \in JobIds /\ executions[job[w]] < jobs[job[w]].attempts
      BY <1>0, <2>1, <3>1 DEF TypeOK, Counted, Begins
    <3>3. \A i \in JobIds : i \in 1..MaxJobs /\ executions[i] \in Nat
                            /\ jobs[i].attempts \in Nat
      BY <1>0, CountTypes
    <3>4. \A i \in JobIds : executions'[i] <= jobs[i].attempts
      BY <1>0, <3>1, <3>2, <3>3 DEF ExecutionsCounted, TypeOK
    <3>5. Unstarted'
      BY <1>0, <2>5, <3>1, <3>2 DEF Unstarted, TypeOK
    <3> QED
      BY <2>1, <2>3, <2>4, <2>5, <3>4, <3>5 DEF ExecutionsCounted
  <2> QED
    BY <2>6, <2>7
<1>5. ASSUME NEW w \in Runners,
             \/ (StartRoot /\ w = Host)
             \/ KernelReturns(w) \/ KernelRaises(w) \/ TaskCancelled(w)
             \/ Observed(w) \/ GiveUp(w)
             \/ PreviousMissing(w) \/ JobSucceeds(w) \/ JobFails(w)
      PROVE  Goal
  <2>1. /\ LoopFree(w) /\ executions' = executions
        /\ \E label : /\ Goto(w, label)
                      /\ label \notin Begins \cup {"claimed"} \/ w = Host
    BY <1>5 DEF StartRoot, KernelReturns, KernelRaises, TaskCancelled, Observed,
       GiveUp, PreviousMissing, JobSucceeds, JobFails, Idle, OrStops, Begins
  <2>2. \/ jobs' = jobs
        \/ \E j \in JobIds : CompleteFailure(j) \/ CompleteSuccess(j)
    <3>1. CASE PreviousMissing(w) \/ JobSucceeds(w) \/ JobFails(w)
      <4>1. job[w] \in JobIds
        BY <3>1, WorkerLabel, WorkerJob
        DEF PreviousMissing, JobSucceeds, JobFails, HostLabels
      <4> QED
        BY <3>1, <4>1 DEF PreviousMissing, JobSucceeds, JobFails
    <3> QED
      BY <1>5, <3>1 DEF StartRoot, KernelReturns, KernelRaises, TaskCancelled,
         Observed, GiveUp
  <2>3. /\ Len(jobs') = Len(jobs) /\ JobIds' = JobIds
        /\ \A i \in JobIds : jobs'[i].attempts >= jobs[i].attempts
    BY <1>0, <2>2, AttemptsGrow
  <2> QED
    BY <1>0, <2>1, <2>3, OffTheWay
<1>6. CASE HostEnqueues
  <2>1. PICK spec \in Specs : Enqueue(spec)
    BY <1>6 DEF HostEnqueues
  <2>2. /\ JobIds \subseteq JobIds' /\ \A i \in JobIds : jobs'[i] = jobs[i]
        /\ HostFree /\ UNCHANGED runnerVars /\ Len(jobs) < MaxJobs
    BY <1>0, <1>6, <2>1, EnqueueType DEF HostEnqueues
  <2>3. \A i \in JobIds : jobs'[i].attempts >= jobs[i].attempts
    BY <1>0, <2>2, JobType
  <2>4. Bounded'
    BY <1>0, <2>1, <2>2, QueueConstants DEF Enqueue, Bounded, QueueTypeOK
  <2> QED
    BY <1>0, <2>2, <2>3, <2>4, HostStep
<1>7. CASE HostReclaims \/ HostHeartbeats
  <2>1. HostFree /\ UNCHANGED runnerVars
    BY <1>7 DEF HostReclaims, HostHeartbeats
  <2>2. /\ Len(jobs') = Len(jobs) /\ JobIds' = JobIds
        /\ \A i \in JobIds : jobs'[i].attempts >= jobs[i].attempts
    BY <1>0, <1>7, AttemptsGrow DEF HostReclaims, HostHeartbeats
  <2>3. Bounded'
    BY <1>0, <2>2 DEF Bounded
  <2> QED
    BY <1>0, <2>1, <2>2, <2>3, HostStep
<1>8. CASE RetryAvailable \/ JobGoesStale
  BY <1>8, ClockStep
<1>9. CASE Crash
  <2>1. jobs' = jobs /\ executions' = executions /\ GoDown(Runners)
    BY <1>9 DEF Crash
  <2>2. \A v \in Runners : pc'[v] \in {"stopped", "idle"}
    BY <2>1 DEF GoDown
  <2>3. Alone' /\ \A v \in Workers : Counted(v)'
    BY <2>2 DEF Alone, Counted, Steps, Begins, Runners
  <2> QED
    BY <1>0, <2>1, <2>3 DEF Bounded, Unstarted, ExecutionsCounted, JobIds
<1>10. CASE UNCHANGED vars
  BY <1>0, <1>10 DEF vars, runnerVars, Alone, Bounded, Unstarted,
     ExecutionsCounted, Counted, JobIds, Exhausted
<1>11. ASSUME NEW w \in Runners, PollInVain(w) PROVE Goal
  BY <1>10, <1>11 DEF PollInVain
<1> QED
  BY <1>0, <1>1, <1>2, <1>3, <1>4, <1>5, <1>6, <1>7, <1>8, <1>9, <1>10, <1>11
  DEF Next, Advance

LEMMA CountInit == Init => CountInv
<1> SUFFICES ASSUME Init PROVE CountInv
  OBVIOUS
<1>1. JobIds = {} /\ Len(jobs) = 0
  BY DEF Init, JobIds
<1>2. \A w \in Runners : pc[w] = "idle"
  BY DEF Init
<1> QED
  BY <1>1, <1>2, QueueConstants
  DEF Init, CountInv, Alone, Steps, Bounded, Unstarted, ExecutionsCounted,
      Counted, Begins, Runners, QueuedHasAttempts

(* On one loop, attempts counts the executions of every job, whatever        *)
(* is cancelled, fails, crashes, is reclaimed and retried: max_attempts      *)
(* bounds them.                                                            *)
THEOREM CountedSafe == Spec => []ExecutionsCounted
<1> DEFINE Inv == setting.loop => CountInv
<1>1. Init => Inv
  BY CountInit
<1>2. TypeOK /\ TypeOK' /\ Inv /\ [Next]_vars => Inv'
  BY CountStep, SettingStays
<1>3. Inv => ExecutionsCounted
  BY DEF CountInv, ExecutionsCounted
<1> QED
  BY <1>1, <1>2, <1>3, TypeCorrect, PTL DEF Spec

-----------------------------------------------------------------------------
(* The end of a run and the start of its continuation agree.                *)

LEMMA StatusSteps ==
  ASSUME TypeOK, ContinuableCanContinue, NEW r \in RunIds, NEW status,
         \/ status # "continuable" /\ SetStatus(r, status)
         \/ MarkCancelled(r)
  PROVE  ContinuableCanContinue'
<1> SUFFICES ASSUME NEW s \in RunIds, runs'[s].status = "continuable"
             PROVE  ~CreationRefused(s)'
  BY DEF ContinuableCanContinue
<1>1. runs[s] \in Run /\ runs[r] \in Run
  BY DEF TypeOK
<1>2. s # r /\ runs'[s] = runs[s]
  BY <1>1 DEF TypeOK, Run, SetStatus, MarkCancelled
<1> QED
  BY <1>2 DEF ContinuableCanContinue, CreationRefused

(* A run that ends as continuable is one a continuation of which is within  *)
(* the maximum.                                                            *)
LEMMA CompletedContinues ==
  ASSUME TypeOK, NEW r \in RunIds, NEW reason, MarkCompleted(r, reason),
         ContinuableCanContinue
  PROVE  ContinuableCanContinue'
<1>1. CompletionStatus(runs[r], reason) = "continuable" =>
        ShouldAutoContinue(runs[r], reason)
  BY DEF CompletionStatus
<1>2. runs[r].index \in Nat /\ runs[r].max \in Nat
  BY DEF TypeOK, Run
<1>3. ~(runs[r].index + 1 > runs[r].max)
        \/ CompletionStatus(runs[r], reason) # "continuable"
  BY <1>1, <1>2 DEF ShouldAutoContinue
<1> QED
  BY <1>2, <1>3
  DEF TypeOK, Run, MarkCompleted, ContinuableCanContinue, CreationRefused

LEMMA ContinuesStep ==
  ASSUME TypeOK, ContinuableCanContinue, [Next]_vars
  PROVE  ContinuableCanContinue'
<1>1. CASE UNCHANGED runs
  BY <1>1 DEF ContinuableCanContinue, CreationRefused
<1>2. CASE StartRoot
  BY <1>2 DEF StartRoot, CreateRoot, Absent, TypeOK, Run,
     ContinuableCanContinue, CreationRefused
<1>3. ASSUME NEW w \in Runners, EnsureRun(w) PROVE ContinuableCanContinue'
  <2>1. CASE CreateContinuation(RunOf(w), jobs[job[w]].previous, resumed[w])
    BY <2>1 DEF CreateContinuation, TypeOK, Run, ContinuableCanContinue,
       CreationRefused
  <2> QED
    BY <1>1, <1>3, <2>1 DEF EnsureRun
<1>4. ASSUME NEW w \in Runners,
             MarkRunning(w) \/ KernelReturns(w) \/ KernelRaises(w) \/ TaskCancelled(w)
      PROVE  ContinuableCanContinue'
  <2>1. RunOf(w) \in RunIds
    BY <1>4, RunOfType DEF MarkRunning, KernelReturns, KernelRaises, TaskCancelled
  <2>2. CASE KernelReturns(w)
    BY <2>1, <2>2, CompletedContinues DEF KernelReturns
  <2> QED
    BY <1>4, <2>1, <2>2, StatusSteps DEF MarkRunning, KernelRaises, TaskCancelled
<1> QED
  BY <1>1, <1>2, <1>3, <1>4
  DEF Next, Advance, vars, runnerVars, PollInVain, Claim, MarkAttempt,
      PreviousMissing, LoadPrevious, LookUpRun, JobSucceeds, Observed, JobFails,
      GiveUp, HostEnqueues, HostReclaims, HostHeartbeats, RetryAvailable,
      JobGoesStale, Crash

(* A run on record as continuable can be continued: the decision of         *)
(* completion_status_for_stop_reason at its end and the check of            *)
(* create_continuation_run agree, whatever happens to the runs in between.   *)
THEOREM ContinuableSafe == Spec => []ContinuableCanContinue
<1>1. Init => ContinuableCanContinue
  BY DEF Init, Absent, ContinuableCanContinue
<1>2. TypeOK /\ ContinuableCanContinue /\ [Next]_vars => ContinuableCanContinue'
  BY ContinuesStep
<1> QED
  BY <1>1, <1>2, TypeCorrect, PTL DEF Spec

=============================================================================
