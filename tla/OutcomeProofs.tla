---------------------------- MODULE OutcomeProofs ----------------------------
(***************************************************************************)
(* Proofs about ContinuationRunner over the in-memory store: what a run     *)
(* ended with, and whether its continuations find it, for all workers, jobs *)
(* and runs.  The SQLite queue inserts a row at each enqueue, so that two   *)
(* jobs may lead to one run: nothing here holds of it without further ado.  *)
(***************************************************************************)
EXTENDS ContinuationProofs

-----------------------------------------------------------------------------
(* A job reported as succeeded, over the in-memory store.                   *)

Recorded == Outcomes \cup {"cancelled"}

(* The in-memory queue leads to each run by one job.                        *)
Distinct ==
  /\ \A i, j \in JobIds : jobs[i].next = jobs[j].next => i = j
  /\ \A j \in JobIds : \E spec \in Specs : /\ jobs[j].next = spec.next
                                           /\ jobs[j].previous = spec.previous

(* A worker on its way to the kernel holds a running job, and one behind it  *)
(* the record of how its run ended.  A failure that overtakes the success   *)
(* of the same job is about to take it back.                                *)
Tracked ==
  /\ \A w \in Workers :
       /\ pc[w] \in Begins \cup {"claimed"} => jobs[job[w]].status = "running"
       /\ pc[w] = "ended" => runs[RunOf(w)].status \in Recorded
  /\ \A j \in JobIds :
       jobs[j].status = "succeeded" =>
         \/ runs[jobs[j].next].status \in Recorded
         \/ \E w \in Workers : pc[w] \in {"failing", "cancelling"} /\ job[w] = j

-----------------------------------------------------------------------------
(* A calm host.                                                            *)

Stray(r) == r # Root /\ \A spec \in Specs : spec.next # r

(* What a run on record with an outcome says of its runner and its job.     *)
Final(r) ==
  /\ runs[r].state = "saved"
  /\ r = Root => pc[Host] = "stopped"
  /\ \A j \in JobIds : jobs[j].next = r =>
       \/ jobs[j].status = "succeeded"
       \/ \E w \in Workers : job[w] = j /\ pc[w] = "ended"

Working(w) == pc[w] \notin {"idle", "reporting"} \cup Raised

Resumes == {"loaded", "creating", "ensured", "kernel"}

CalmParts ==
  /\ \A w \in Runners : pc[w] \notin {"observing", "reporting"}
  /\ \A w \in Workers : Working(w) => jobs[job[w]].status = "running"
  /\ \A r \in RunIds : runs[r].status \in Outcomes => Final(r)
  /\ \A r \in RunIds : runs[r].status # "absent" => r = Root \/ Known(r)
  /\ \A j \in JobIds :
       \/ runs[jobs[j].previous].status \in Outcomes
       \/ runs[jobs[j].previous].status = "absent" /\ Stray(jobs[j].previous)
  /\ \A w \in Workers : pc[w] \in Resumes => resumed[w] = "saved"

CalmInv == Calm => CalmParts

-----------------------------------------------------------------------------
(* What a step does to the queue and to the runs.                           *)

SameRuns(r, s) == r.next = s.next /\ r.previous = s.previous

(* Replacing one job by another between the same runs.                      *)
LEMMA ReplaceJob ==
  ASSUME QueueTypeOK, NEW j \in JobIds, NEW r, SameRuns(r, jobs[j]),
         jobs' = [jobs EXCEPT ![j] = r]
  PROVE  /\ JobIds' = JobIds /\ jobs'[j] = r
         /\ \A i \in JobIds : i # j => jobs'[i] = jobs[i]
         /\ \A i \in JobIds : SameRuns(jobs'[i], jobs[i])
BY DEF QueueTypeOK, JobIds, SameRuns

(* How the jobs that were there before a step come out of it.               *)
Moved(j) ==
  \/ jobs'[j].status = jobs[j].status
  \/ HostReclaims /\ Stale(jobs[j]) /\ jobs'[j].status = "queued"
  \/ \E w \in Workers : /\ Claim(w) /\ job'[w] = j /\ jobs[j].status = "queued"
                        /\ jobs'[j].status = "running"
  \/ \E w \in Workers : /\ PreviousMissing(w) \/ JobFails(w)
                        /\ job[w] = j
                        /\ jobs'[j].status \in {"queued", "dead_letter"}
  \/ \E w \in Workers : /\ JobSucceeds(w) /\ job[w] = j
                        /\ jobs'[j].status = "succeeded"

Moves(j) == SameRuns(jobs'[j], jobs[j]) /\ Moved(j)

LEMMA JobMoves ==
  ASSUME TypeOK, Store = "memory", [Next]_vars
  PROVE  /\ JobIds \subseteq JobIds' /\ (JobIds' = JobIds \/ HostEnqueues)
         /\ \A j \in JobIds : Moves(j)
<1> DEFINE Goal == /\ JobIds \subseteq JobIds' /\ (JobIds' = JobIds \/ HostEnqueues)
                   /\ \A j \in JobIds : Moves(j)
<1>0. QueueTypeOK /\ \A j \in JobIds : jobs[j] \in Job
  BY JobType DEF TypeOK
<1>1. ASSUME jobs' = jobs PROVE Goal
  BY <1>1 DEF Moves, Moved, SameRuns, JobIds
<1>2. ASSUME NEW j \in JobIds, NEW r, jobs' = [jobs EXCEPT ![j] = r],
             SameRuns(r, jobs[j]), jobs'[j] = r => Moved(j)
      PROVE  Goal
  <2>1. /\ JobIds' = JobIds /\ jobs'[j] = r
        /\ \A i \in JobIds : i # j => jobs'[i] = jobs[i]
        /\ \A i \in JobIds : SameRuns(jobs'[i], jobs[i])
    BY <1>0, <1>2, ReplaceJob
  <2> QED
    BY <1>2, <2>1 DEF Moves, Moved
<1>3. ASSUME NEW j \in JobIds
      PROVE  /\ \A b \in BOOLEAN : /\ SameRuns(Released(jobs[j], b), jobs[j])
                                   /\ Released(jobs[j], b).status = "queued"
             /\ SameRuns(Dead(jobs[j]), jobs[j])
             /\ Dead(jobs[j]).status = "dead_letter"
  BY <1>0 DEF Job, SameRuns, Released, Dead
<1>4. ASSUME NEW w \in Runners, Claim(w) PROVE Goal
  <2>1. PICK j \in JobIds : ClaimNext(j) /\ job' = [job EXCEPT ![w] = j]
    BY <1>4 DEF Claim
  <2> DEFINE r == [jobs[j] EXCEPT !.status = "running", !.fresh = TRUE]
  <2>2. jobs' = [jobs EXCEPT ![j] = r] /\ jobs[j].status = "queued"
    BY <2>1 DEF ClaimNext, Oldest, Claimable
  <2>3. SameRuns(r, jobs[j]) /\ r.status = "running"
    BY <1>0 DEF Job, SameRuns
  <2>4. w \in Workers /\ job'[w] = j
    BY <1>4, <2>1 DEF Claim, Runners, TypeOK
  <2> HIDE DEF r
  <2>5. jobs'[j] = r => Moved(j)
    BY <1>4, <2>2, <2>3, <2>4 DEF Moved
  <2> QED
    BY <1>2, <2>2, <2>3, <2>5
<1>5. ASSUME NEW w \in Runners, MarkAttempt(w) PROVE Goal
  <2>1. job[w] \in JobIds /\ MarkAttemptStarted(job[w])
    BY <1>5, WorkerLabel, WorkerJob DEF MarkAttempt, HostLabels
  <2> DEFINE r == [jobs[job[w]] EXCEPT !.attempts = @ + 1, !.fresh = TRUE]
  <2>2. jobs' = jobs \/ jobs' = [jobs EXCEPT ![job[w]] = r]
    BY <2>1 DEF MarkAttemptStarted
  <2>3. SameRuns(r, jobs[job[w]]) /\ r.status = jobs[job[w]].status
    BY <1>0, <2>1 DEF Job, SameRuns
  <2> HIDE DEF r
  <2>4. jobs'[job[w]] = r => Moved(job[w])
    BY <2>3 DEF Moved
  <2> QED
    BY <1>1, <1>2, <2>1, <2>2, <2>3, <2>4
<1>6. ASSUME NEW w \in Runners, PreviousMissing(w) \/ JobFails(w) PROVE Goal
  <2>1. w \in Workers /\ job[w] \in JobIds /\ CompleteFailure(job[w])
    BY <1>6, WorkerLabel, WorkerJob DEF PreviousMissing, JobFails, HostLabels
  <2>2. PICK delayed \in BOOLEAN :
          \/ jobs' = [jobs EXCEPT ![job[w]] = Dead(jobs[job[w]])]
          \/ jobs' = [jobs EXCEPT ![job[w]] = Released(jobs[job[w]], delayed)]
    BY <2>1 DEF CompleteFailure
  <2>3. ASSUME jobs'[job[w]].status \in {"queued", "dead_letter"}
        PROVE  Moved(job[w])
    BY <1>6, <2>1, <2>3 DEF Moved
  <2>4. /\ SameRuns(Dead(jobs[job[w]]), jobs[job[w]])
        /\ Dead(jobs[job[w]]).status = "dead_letter"
        /\ SameRuns(Released(jobs[job[w]], delayed), jobs[job[w]])
        /\ Released(jobs[job[w]], delayed).status = "queued"
    BY <1>3, <2>1
  <2> QED
    BY <1>2, <2>1, <2>2, <2>3, <2>4
<1>7. ASSUME NEW w \in Runners, JobSucceeds(w) PROVE Goal
  <2>1. w \in Workers /\ job[w] \in JobIds /\ CompleteSuccess(job[w])
    BY <1>7, WorkerLabel, WorkerJob DEF JobSucceeds, HostLabels
  <2> DEFINE r == [jobs[job[w]] EXCEPT !.status = "succeeded"]
  <2>2. jobs' = [jobs EXCEPT ![job[w]] = r]
    BY <2>1 DEF CompleteSuccess
  <2>3. SameRuns(r, jobs[job[w]]) /\ r.status = "succeeded"
    BY <1>0, <2>1 DEF Job, SameRuns
  <2> HIDE DEF r
  <2>4. jobs'[job[w]] = r => Moved(job[w])
    BY <1>7, <2>1, <2>3 DEF Moved
  <2> QED
    BY <1>2, <2>1, <2>2, <2>3, <2>4
<1>8. CASE HostEnqueues
  <2>1. PICK spec \in Specs : Enqueue(spec)
    BY <1>8 DEF HostEnqueues
  <2>2. JobIds \subseteq JobIds' /\ \A i \in JobIds : jobs'[i] = jobs[i]
    BY <1>0, <2>1, EnqueueType
  <2> QED
    BY <1>8, <2>2 DEF Moves, Moved, SameRuns
<1>9. CASE HostReclaims
  <2>1. JobIds' = JobIds
    BY <1>0, <1>9, ReclaimType DEF HostReclaims
  <2>2. ASSUME NEW j \in JobIds PROVE Moves(j)
    <3>1. CASE Stale(jobs[j])
      <4>1. jobs'[j] = Released(jobs[j], FALSE)
        BY <1>9, <3>1 DEF HostReclaims, ReclaimStale, Reclaimed
      <4>2. SameRuns(jobs'[j], jobs[j]) /\ jobs'[j].status = "queued"
        BY <1>3, <4>1
      <4> QED
        BY <1>9, <3>1, <4>2 DEF Moves, Moved
    <3>2. CASE ~Stale(jobs[j])
      BY <1>9, <3>2 DEF HostReclaims, ReclaimStale, Moves, Moved, SameRuns
    <3> QED
      BY <3>1, <3>2
  <2> QED
    BY <2>1, <2>2
<1>10. CASE HostHeartbeats \/ RetryAvailable \/ JobGoesStale
  <2>1. PICK j \in JobIds : Heartbeat(j) \/ DelayEnds(j) \/ HeartbeatLapses(j)
    BY <1>10 DEF HostHeartbeats, RetryAvailable, JobGoesStale
  <2>2. PICK b \in BOOLEAN :
          \/ jobs' = [jobs EXCEPT ![j] = [jobs[j] EXCEPT !.fresh = b]]
          \/ jobs' = [jobs EXCEPT ![j] = [jobs[j] EXCEPT !.delayed = b]]
    BY <2>1 DEF Heartbeat, DelayEnds, HeartbeatLapses
  <2>3. /\ SameRuns([jobs[j] EXCEPT !.fresh = b], jobs[j])
        /\ [jobs[j] EXCEPT !.fresh = b].status = jobs[j].status
        /\ SameRuns([jobs[j] EXCEPT !.delayed = b], jobs[j])
        /\ [jobs[j] EXCEPT !.delayed = b].status = jobs[j].status
    BY <1>0 DEF Job, SameRuns
  <2>4. jobs'[j].status = jobs[j].status => Moved(j)
    BY DEF Moved
  <2> QED
    BY <1>2, <2>2, <2>3, <2>4
<1>11. ASSUME NEW w \in Runners,
             \/ PollInVain(w) \/ LoadPrevious(w) \/ LookUpRun(w) \/ EnsureRun(w)
             \/ MarkRunning(w) \/ KernelReturns(w) \/ Observed(w) \/ GiveUp(w)
             \/ KernelRaises(w) \/ TaskCancelled(w)
      PROVE  Goal
  <2>1. jobs' = jobs
    BY <1>11 DEF PollInVain, LoadPrevious, LookUpRun, EnsureRun, MarkRunning,
       KernelReturns, Observed, GiveUp, KernelRaises, TaskCancelled, vars
  <2> QED
    BY <1>1, <2>1
<1>12. CASE StartRoot \/ Crash \/ UNCHANGED vars
  BY <1>1, <1>12 DEF StartRoot, Crash, vars
<1>13. Next \/ UNCHANGED vars
  OBVIOUS
<1>14. ASSUME NEW w \in Runners, Advance(w) PROVE Goal
  BY <1>4, <1>5, <1>6, <1>7, <1>11, <1>14 DEF Advance
<1> QED
  BY <1>8, <1>9, <1>10, <1>11, <1>12, <1>13, <1>14 DEF Next

(* The job that comes in leads to a run no job led to before.               *)
LEMMA JobEnters ==
  ASSUME TypeOK, Store = "memory", HostEnqueues, NEW j \in JobIds', j \notin JobIds
  PROVE  /\ UNCHANGED runnerVars /\ JobIds' = JobIds \cup {j}
         /\ \E spec \in Specs : /\ jobs'[j] = NewJob(spec)
                                /\ Resumable(spec.previous) /\ ~Known(spec.next)
<1>1. PICK spec \in Specs : Resumable(spec.previous) /\ Enqueue(spec)
  BY DEF HostEnqueues
<1>2. ~Known(spec.next) /\ jobs' = Append(jobs, NewJob(spec))
  BY <1>1 DEF Enqueue, JobIds
<1>3. JobIds' = JobIds \cup {Len(jobs) + 1}
  BY <1>2 DEF TypeOK, QueueTypeOK, JobIds
<1>4. j = Len(jobs) + 1 /\ jobs'[j] = NewJob(spec)
  BY <1>2, <1>3 DEF TypeOK, QueueTypeOK, JobIds
<1> QED
  BY <1>1, <1>2, <1>3, <1>4 DEF HostEnqueues

(* How a run comes out of a step.                                           *)
RunMoves(r) ==
  \/ runs'[r] = runs[r]
  \/ StartRoot /\ r = Root
  \/ \E w \in Runners :
       /\ r = RunOf(w) /\ (w = Host \/ (w \in Workers /\ job[w] \in JobIds))
       /\ \/ EnsureRun(w) /\ runs[r].status = "absent" /\ runs'[r].status = "pending"
          \/ MarkRunning(w) /\ runs'[r].status = "running"
          \/ /\ KernelReturns(w) /\ runs'[r].status \in Recorded
             /\ runs'[r].state = "saved"
          \/ KernelRaises(w) /\ runs'[r].status = "failed"
          \/ TaskCancelled(w) /\ runs'[r].status = "cancelled"

LEMMA RunStep ==
  ASSUME TypeOK, [Next]_vars, NEW r \in RunIds
  PROVE  RunMoves(r)
<1>0. runs \in [RunIds -> Run] /\ runs[r] \in Run
  BY DEF TypeOK
<1>1. CASE UNCHANGED runs
  BY <1>1 DEF RunMoves
<1>2. CASE StartRoot
  BY <1>0, <1>2 DEF StartRoot, CreateRoot, RunMoves
<1>3. ASSUME NEW w \in Runners, EnsureRun(w) PROVE RunMoves(r)
  <2>1. w \in Workers /\ job[w] \in JobIds /\ RunOf(w) \in RunIds
    BY <1>3, WorkerLabel, WorkerJob DEF EnsureRun, HostLabels
  <2>2. CASE runs[RunOf(w)].status = "absent"
             /\ CreateContinuation(RunOf(w), jobs[job[w]].previous, resumed[w])
    BY <1>0, <1>3, <2>1, <2>2 DEF CreateContinuation, RunMoves
  <2> QED
    BY <1>1, <1>3, <2>2 DEF EnsureRun
<1>4. ASSUME NEW w \in Runners,
             MarkRunning(w) \/ KernelReturns(w) \/ KernelRaises(w) \/ TaskCancelled(w)
      PROVE  RunMoves(r)
  <2>0. pc[w] # "idle"
    BY <1>4 DEF MarkRunning, KernelReturns, KernelRaises, TaskCancelled
  <2>1. RunOf(w) \in RunIds /\ (w = Host \/ (w \in Workers /\ job[w] \in JobIds))
    BY <2>0, RunOfType, WorkerJob
  <2>2. CASE MarkRunning(w)
    BY <1>0, <2>1, <2>2 DEF MarkRunning, SetStatus, RunMoves, Run
  <2>3. CASE KernelRaises(w)
    BY <1>0, <2>1, <2>3 DEF KernelRaises, SetStatus, RunMoves, Run
  <2>4. CASE TaskCancelled(w)
    BY <1>0, <2>1, <2>4 DEF TaskCancelled, MarkCancelled, RunMoves, Run
  <2>5. CASE KernelReturns(w)
    <3>1. PICK reason \in Reasons : MarkCompleted(RunOf(w), reason)
      BY <2>5 DEF KernelReturns
    <3>2. CompletionStatus(runs[RunOf(w)], reason) \in Recorded
      BY DEF CompletionStatus, Recorded, Outcomes
    <3> HIDE DEF Recorded
    <3>3. CASE r = RunOf(w)
      <4>1. runs'[r].status \in Recorded /\ runs'[r].state = "saved"
        BY <1>0, <3>1, <3>2, <3>3 DEF MarkCompleted, Run
      <4> QED
        BY <2>1, <2>5, <3>3, <4>1 DEF RunMoves
    <3>4. CASE r # RunOf(w)
      BY <1>0, <3>1, <3>4 DEF MarkCompleted, RunMoves
    <3> QED
      BY <3>3, <3>4
  <2> QED
    BY <1>4, <2>2, <2>3, <2>4, <2>5
<1> QED
  BY <1>1, <1>2, <1>3, <1>4
  DEF Next, Advance, vars, runnerVars, PollInVain, Claim, MarkAttempt,
      PreviousMissing, LoadPrevious, LookUpRun, JobSucceeds, Observed, JobFails,
      GiveUp, HostEnqueues, HostReclaims, HostHeartbeats, RetryAvailable,
      JobGoesStale, Crash

LEMMA Completes ==
  ASSUME TypeOK, NEW w \in Runners, KernelReturns(w)
  PROVE  runs'[RunOf(w)].status \in Recorded /\ runs'[RunOf(w)].state = "saved"
<1>1. PICK reason \in Reasons : MarkCompleted(RunOf(w), reason)
  BY DEF KernelReturns
<1>2. CompletionStatus(runs[RunOf(w)], reason) \in Recorded
  BY DEF CompletionStatus, Recorded, Outcomes
<1>3. RunOf(w) \in RunIds /\ runs \in [RunIds -> Run]
  BY RunOfType DEF KernelReturns, TypeOK
<1> HIDE DEF Recorded
<1> QED
  BY <1>1, <1>2, <1>3 DEF MarkCompleted, Run

LEMMA FailsJob ==
  ASSUME TypeOK, NEW w \in Runners, PreviousMissing(w) \/ JobFails(w)
  PROVE  jobs'[job[w]].status \in {"queued", "dead_letter"}
<1>1. job[w] \in JobIds /\ CompleteFailure(job[w]) /\ QueueTypeOK
  BY WorkerLabel, WorkerJob DEF PreviousMissing, JobFails, HostLabels, TypeOK
<1>2. PICK delayed \in BOOLEAN :
        \/ jobs' = [jobs EXCEPT ![job[w]] = Dead(jobs[job[w]])]
        \/ jobs' = [jobs EXCEPT ![job[w]] = Released(jobs[job[w]], delayed)]
  BY <1>1 DEF CompleteFailure
<1>3. \/ jobs'[job[w]] = Dead(jobs[job[w]])
      \/ jobs'[job[w]] = Released(jobs[job[w]], delayed)
  BY <1>1, <1>2, OthersSame
<1>4. jobs[job[w]] \in Job
  BY <1>1, JobType
<1> QED
  BY <1>3, <1>4 DEF Dead, Released, Job

-----------------------------------------------------------------------------
(* Who takes a step.                                                       *)

SameRunner(w) ==
  pc'[w] = pc[w] /\ job'[w] = job[w] /\ resumed'[w] = resumed[w]

OwnStep(w) ==
  \/ StartRoot /\ w = Host
  \/ Advance(w) \/ KernelRaises(w) \/ TaskCancelled(w)

(* A runner stands where it stood, unless the step is its own.              *)
LEMMA StepOfWhom ==
  ASSUME TypeOK, [Next]_vars, ~setting.crashes, NEW w \in Runners
  PROVE  SameRunner(w) \/ OwnStep(w)
<1>0. /\ pc \in [Runners -> Labels] /\ job \in [Runners -> Nat]
      /\ resumed \in [Runners -> {"none", "saved"}]
  BY DEF TypeOK, Labels
<1>1. ASSUME NEW v \in Runners, v # w, NEW label, Goto(v, label) PROVE pc'[w] = pc[w]
  BY <1>0, <1>1 DEF Goto
<1>2. CASE UNCHANGED <<pc, job, resumed>>
  BY <1>2 DEF SameRunner
<1>3. CASE StartRoot
  BY <1>0, <1>1, <1>3 DEF StartRoot, SameRunner, OwnStep, Runners
<1>4. ASSUME NEW v \in Runners, v # w, Idle(v) PROVE SameRunner(w)
  BY <1>0, <1>1, <1>4 DEF Idle, SameRunner
<1>5. ASSUME NEW v \in Runners, v # w, Advance(v) \/ KernelRaises(v) \/ TaskCancelled(v)
      PROVE  SameRunner(w)
  <2>1. CASE \/ MarkAttempt(v) \/ LookUpRun(v) \/ EnsureRun(v) \/ MarkRunning(v)
             \/ KernelReturns(v) \/ KernelRaises(v) \/ TaskCancelled(v)
    <3>1. \E label : Goto(v, label) /\ UNCHANGED <<job, resumed>>
      BY <2>1 DEF MarkAttempt, LookUpRun, EnsureRun, MarkRunning, KernelReturns,
         KernelRaises, TaskCancelled
    <3> QED
      BY <1>1, <1>5, <3>1 DEF SameRunner
  <2>2. CASE PreviousMissing(v) \/ GiveUp(v)
    BY <1>4, <1>5, <2>2 DEF PreviousMissing, GiveUp
  <2>3. CASE JobSucceeds(v) \/ JobFails(v) \/ Observed(v)
    BY <1>1, <1>4, <1>5, <2>3 DEF JobSucceeds, JobFails, Observed, SameRunner
  <2>4. CASE LoadPrevious(v)
    BY <1>0, <1>1, <1>5, <2>4 DEF LoadPrevious, SameRunner
  <2>5. CASE Claim(v)
    BY <1>0, <1>1, <1>5, <2>5 DEF Claim, SameRunner
  <2> QED
    BY <1>5, <2>1, <2>2, <2>3, <2>4, <2>5 DEF Advance
<1>6. ASSUME NEW v \in Runners,
             PollInVain(v) \/ Advance(v) \/ KernelRaises(v) \/ TaskCancelled(v)
      PROVE  SameRunner(w) \/ OwnStep(w)
  <2>1. CASE PollInVain(v)
    BY <1>2, <2>1 DEF PollInVain, vars, runnerVars
  <2>2. CASE v = w
    BY <1>6, <2>1, <2>2 DEF OwnStep
  <2> QED
    BY <1>5, <1>6, <2>1, <2>2
<1>7. CASE HostEnqueues \/ HostReclaims \/ HostHeartbeats \/ RetryAvailable
           \/ JobGoesStale \/ UNCHANGED vars
  BY <1>2, <1>7 DEF HostEnqueues, HostReclaims, HostHeartbeats, RetryAvailable,
     JobGoesStale, vars, runnerVars
<1>8. ~Crash
  BY DEF Crash
<1> QED
  BY <1>3, <1>6, <1>7, <1>8 DEF Next

(* The in-memory store knows no crash.                                      *)
LEMMA NoCrash ==
  ASSUME TypeOK, Store = "memory"
  PROVE  ~setting.crashes /\ setting.loop
BY RunnerConstants DEF TypeOK

(* While a runner is between two awaits the queue is its own.               *)
LEMMA QueueOwned ==
  ASSUME TypeOK, Store = "memory", [Next]_vars, NEW w \in Runners, pc[w] \in Steps,
         NEW j \in JobIds
  PROVE  \/ jobs'[j].status = jobs[j].status
         \/ PreviousMissing(w) \/ JobFails(w) \/ JobSucceeds(w)
<1>1. pc[w] \notin Awaits /\ setting.loop
  BY NoCrash DEF Awaits, Steps, Raised
<1>2. \A v \in Runners : LoopFree(v) => v = w
  BY <1>1 DEF LoopFree
<1>3. ~HostReclaims
  BY <1>1 DEF HostReclaims, HostFree
<1>4. ASSUME NEW v \in Workers,
             Claim(v) \/ PreviousMissing(v) \/ JobFails(v) \/ JobSucceeds(v)
      PROVE  v = w /\ ~Claim(v)
  <2>1. v = w
    BY <1>2, <1>4 DEF Claim, PreviousMissing, JobFails, JobSucceeds, Runners
  <2> QED
    BY <2>1 DEF Claim, Steps
<1>5. Moved(j)
  BY JobMoves DEF Moves
<1> QED
  BY <1>3, <1>4, <1>5 DEF Moved

LEMMA DistinctStep ==
  ASSUME TypeOK, Store = "memory", Distinct, [Next]_vars
  PROVE  Distinct'
<1>1. /\ JobIds \subseteq JobIds' /\ (JobIds' = JobIds \/ HostEnqueues)
      /\ \A j \in JobIds : SameRuns(jobs'[j], jobs[j])
  BY JobMoves DEF Moves
<1>2. CASE JobIds' = JobIds
  BY <1>1, <1>2 DEF Distinct, SameRuns
<1>3. ASSUME NEW j \in JobIds', j \notin JobIds, HostEnqueues PROVE Distinct'
  <2>1. PICK spec \in Specs : jobs'[j] = NewJob(spec) /\ ~Known(spec.next)
    BY <1>3, JobEnters
  <2>2. JobIds' = JobIds \cup {j}
    BY <1>3, JobEnters
  <2>3. jobs'[j].next = spec.next /\ jobs'[j].previous = spec.previous
    BY <2>1 DEF NewJob
  <2>4. \A i \in JobIds : jobs'[i].next # jobs'[j].next
    BY <1>1, <2>1, <2>3 DEF Known, SameRuns
  <2>5. \A i \in JobIds' : \E s \in Specs : /\ jobs'[i].next = s.next
                                            /\ jobs'[i].previous = s.previous
    BY <1>1, <2>2, <2>3 DEF Distinct, SameRuns
  <2>6. \A i, k \in JobIds' : jobs'[i].next = jobs'[k].next => i = k
    BY <1>1, <2>2, <2>4 DEF Distinct, SameRuns
  <2> QED
    BY <2>5, <2>6 DEF Distinct
<1> QED
  BY <1>1, <1>2, <1>3

(* No job leads to the root run.                                           *)
LEMMA NotRoot ==
  ASSUME Distinct, NEW j \in JobIds
  PROVE  jobs[j].next # Root
BY RunnerConstants DEF Distinct

(* A worker on its way to the kernel still holds a running job.              *)
LEMMA WayTracked ==
  ASSUME TypeOK, TypeOK', Store = "memory", CountInv', Tracked, [Next]_vars,
         NEW w \in Workers, pc'[w] \in Begins \cup {"claimed"}
  PROVE  jobs'[job'[w]].status = "running"
<1>0. w \in Runners /\ w # Host
  BY RunnerConstants DEF Runners
<1>1. CASE pc'[w] = "claimed"
  BY <1>1 DEF CountInv, Counted
<1>2. CASE pc'[w] \in Begins
  <2>1. pc[w] \in Begins \cup {"claimed"} /\ job'[w] = job[w]
    <3>1. CASE SameRunner(w)
      BY <1>2, <3>1 DEF SameRunner
    <3>2. CASE OwnStep(w)
      BY <1>0, <1>2, <3>2, RunnerConstants
      DEF OwnStep, Advance, Claim, MarkAttempt, PreviousMissing, LoadPrevious,
          LookUpRun, EnsureRun, MarkRunning, KernelReturns, JobSucceeds, Observed,
          JobFails, GiveUp, KernelRaises, TaskCancelled, Idle, Goto, TypeOK, Begins
    <3> QED
      BY <1>0, <3>1, <3>2, StepOfWhom, NoCrash
  <2>2. job[w] \in JobIds /\ pc[w] \in Steps /\ jobs[job[w]].status = "running"
    BY <2>1 DEF TypeOK, Tracked, Begins, Steps
  <2>3. ~PreviousMissing(w) /\ ~JobFails(w) /\ ~JobSucceeds(w)
    BY <1>0, <1>2, <2>1
    DEF PreviousMissing, JobFails, JobSucceeds, Begins, Idle, Goto, TypeOK
  <2> QED
    BY <1>0, <2>1, <2>2, <2>3, QueueOwned
<1> QED
  BY <1>1, <1>2

(* A worker behind the kernel still finds how its run ended.                 *)
LEMMA EndTracked ==
  ASSUME TypeOK, Store = "memory", Tracked, [Next]_vars,
         NEW w \in Workers, pc'[w] = "ended"
  PROVE  (runs[RunOf(w)].status \in Recorded)'
<1>0. w \in Runners /\ w # Host /\ setting.loop /\ ~setting.crashes
  BY RunnerConstants, NoCrash DEF Runners
<1>1. CASE SameRunner(w)
  <2>1. pc[w] = "ended" /\ job'[w] = job[w] /\ job[w] \in JobIds
    BY <1>1, RunnerConstants DEF SameRunner, TypeOK
  <2>2. RunOf(w)' = RunOf(w) /\ RunOf(w) \in RunIds
    BY <1>0, <2>1, JobMoves, RunOfType DEF Moves, SameRuns, RunOf
  <2>3. \A v \in Runners : LoopFree(v) => v = w
    BY <1>0, <2>1 DEF LoopFree, Awaits, Raised
  <2>4. runs'[RunOf(w)] = runs[RunOf(w)]
    BY <1>0, <2>1, <2>2, <2>3, RunStep
    DEF RunMoves, StartRoot, EnsureRun, MarkRunning, KernelReturns, KernelRaises,
        TaskCancelled, Runners
  <2> QED
    BY <2>1, <2>2, <2>4 DEF Tracked
<1>2. CASE OwnStep(w)
  <2>1. KernelReturns(w)
    BY <1>0, <1>2, RunnerConstants
    DEF OwnStep, Advance, Claim, MarkAttempt, PreviousMissing, LoadPrevious,
        LookUpRun, EnsureRun, MarkRunning, KernelReturns, JobSucceeds, Observed,
        JobFails, GiveUp, KernelRaises, TaskCancelled, Idle, Goto, TypeOK
  <2>2. RunOf(w)' = RunOf(w)
    BY <2>1 DEF KernelReturns, RunOf
  <2> QED
    BY <1>0, <2>1, <2>2, Completes
<1> QED
  BY <1>0, <1>1, <1>2, StepOfWhom

(* A job reported as succeeded stays over a recorded outcome, or is about to *)
(* be taken back.                                                          *)
LEMMA SuccessTracked ==
  ASSUME TypeOK, TypeOK', Store = "memory", Distinct, Distinct', Tracked, [Next]_vars,
         NEW j \in JobIds', jobs'[j].status = "succeeded"
  PROVE  \/ runs'[jobs'[j].next].status \in Recorded
         \/ \E w \in Workers : pc'[w] \in {"failing", "cancelling"} /\ job'[w] = j
<1>0. setting.loop /\ ~setting.crashes
  BY NoCrash
<1>1. j \in JobIds
  <2> SUFFICES ASSUME j \notin JobIds PROVE FALSE
    OBVIOUS
  <2>1. \E spec \in Specs : jobs'[j] = NewJob(spec)
    BY JobMoves, JobEnters
  <2> QED
    BY <2>1 DEF NewJob
<1> DEFINE r == jobs[j].next
<1>2. Moved(j) /\ jobs'[j].next = r /\ r \in RunIds /\ r # Root
  BY <1>1, JobMoves, JobType, NotRoot DEF Moves, SameRuns, TypeOK
<1>3. RunMoves(r)
  BY <1>2, RunStep
<1> HIDE DEF r
<1>4. CASE jobs[j].status # "succeeded"
  <2>1. PICK w \in Workers : JobSucceeds(w) /\ job[w] = j
    BY <1>2, <1>4 DEF Moved
  <2>2. RunOf(w) = r /\ runs' = runs /\ pc[w] = "ended"
    BY <2>1, RunnerConstants DEF JobSucceeds, RunOf, r
  <2> QED
    BY <1>2, <2>2 DEF Tracked
<1>5. CASE jobs[j].status = "succeeded" /\ runs[r].status \in Recorded
  <2>1. CASE runs'[r] = runs[r] \/ runs'[r].status \in Recorded
    BY <1>2, <1>5, <2>1
  <2>2. ASSUME NEW w \in Runners, r = RunOf(w),
               w = Host \/ (w \in Workers /\ job[w] \in JobIds)
        PROVE  w \in Workers /\ w # Host /\ job[w] = j
    <3>1. w \in Workers /\ w # Host /\ job[w] \in JobIds
      BY <1>2, <2>2, RunnerConstants DEF RunOf
    <3>2. jobs[job[w]].next = jobs[j].next
      BY <2>2, <3>1 DEF RunOf, r
    <3> QED
      BY <1>1, <3>1, <3>2 DEF Distinct
  <2>3. ASSUME NEW w \in Runners, r = RunOf(w), w \in Workers, job[w] = j,
               MarkRunning(w)
        PROVE  FALSE
    BY <1>5, <2>3 DEF MarkRunning, Tracked, Begins
  <2>4. ASSUME NEW w \in Runners, w \in Workers, w # Host, job[w] = j, KernelRaises(w)
        PROVE  pc'[w] = "failing" /\ job'[w] = j
    BY <2>4 DEF KernelRaises, Goto, TypeOK
  <2>5. "absent" \notin Recorded /\ "cancelled" \in Recorded
    BY DEF Recorded, Outcomes
  <2> QED
    BY <1>2, <1>3, <1>5, <2>1, <2>2, <2>3, <2>4, <2>5 DEF RunMoves
<1>6. ASSUME NEW w \in Workers, pc[w] \in {"failing", "cancelling"}, job[w] = j
      PROVE  pc'[w] \in {"failing", "cancelling"} /\ job'[w] = j
  <2>1. w \in Runners /\ w # Host
    BY RunnerConstants DEF Runners
  <2>2. ~JobFails(w)
    BY <1>6, <2>1, FailsJob
  <2>3. ~OwnStep(w)
    BY <1>6, <2>1, <2>2
    DEF OwnStep, Advance, Claim, MarkAttempt, PreviousMissing, LoadPrevious,
        LookUpRun, EnsureRun, MarkRunning, KernelReturns, JobSucceeds, Observed,
        GiveUp, KernelRaises, TaskCancelled, Raised
  <2> QED
    BY <1>0, <1>6, <2>1, <2>3, StepOfWhom DEF SameRunner
<1> QED
  BY <1>1, <1>4, <1>5, <1>6 DEF Tracked, r

RecordInv == CountInv /\ Distinct /\ Tracked

(* Behind the in-memory store a job stands as succeeded only over a run      *)
(* whose outcome is on record, also when an attempt that was given up is     *)
(* still under way and fails after the job was done.                        *)
THEOREM SucceededSafe ==
  ASSUME Store = "memory" PROVE Spec => []SucceededRunRecorded
<1>1. Init => RecordInv
  <2> SUFFICES ASSUME Init PROVE RecordInv
    OBVIOUS
  <2>1. JobIds = {} /\ \A w \in Runners : pc[w] = "idle"
    BY DEF Init, JobIds
  <2>2. Distinct /\ Tracked
    BY <2>1 DEF Distinct, Tracked, Begins, Runners
  <2> QED
    BY <2>2, CountInit DEF RecordInv
<1>2. TypeOK /\ TypeOK' /\ RecordInv /\ [Next]_vars => RecordInv'
  <2> SUFFICES ASSUME TypeOK, TypeOK', RecordInv, [Next]_vars PROVE RecordInv'
    OBVIOUS
  <2>1. CountInv /\ Distinct /\ Tracked /\ setting.loop
    BY NoCrash DEF RecordInv
  <2>2. CountInv' /\ Distinct'
    BY <2>1, CountStep, DistinctStep
  <2>3. Tracked'
    BY <2>1, <2>2, WayTracked, EndTracked, SuccessTracked DEF Tracked
  <2> QED
    BY <2>2, <2>3 DEF RecordInv
<1>3. RecordInv => SucceededRunRecorded
  <2> SUFFICES ASSUME RecordInv, \A w \in Runners : pc[w] \in Awaits,
                      NEW j \in JobIds, jobs[j].status = "succeeded"
               PROVE  runs[jobs[j].next].status \in Recorded
    BY DEF SucceededRunRecorded, Recorded
  <2>1. \A w \in Workers : pc[w] \notin {"failing", "cancelling"}
    BY DEF Awaits, Raised, Runners
  <2> QED
    BY <2>1 DEF RecordInv, Tracked
<1> QED
  BY <1>1, <1>2, <1>3, TypeCorrect, PTL DEF Spec

-----------------------------------------------------------------------------
(* A calm host: outcomes stand.                                            *)

(* A worker inside run_claimed_job holds a running job, and nobody else      *)
(* touches it.                                                             *)
LEMMA WorkTracked ==
  ASSUME TypeOK, TypeOK', Store = "memory", Exclusive, CountInv', Calm, CalmParts,
         [Next]_vars, NEW w \in Workers, Working(w)'
  PROVE  jobs'[job'[w]].status = "running"
<1>0. w \in Runners /\ w # Host /\ ~setting.crashes /\ setting.patient
  BY RunnerConstants DEF Runners, Calm
<1>1. CASE pc'[w] = "claimed"
  BY <1>1 DEF CountInv, Counted
<1>2. CASE pc'[w] # "claimed"
  <2>1. Working(w) /\ job'[w] = job[w]
    <3>1. CASE SameRunner(w)
      BY <3>1 DEF SameRunner, Working
    <3>2. CASE OwnStep(w)
      BY <1>0, <1>2, <3>2, RunnerConstants
      DEF OwnStep, Advance, Claim, MarkAttempt, PreviousMissing, LoadPrevious,
          LookUpRun, EnsureRun, MarkRunning, KernelReturns, JobSucceeds, Observed,
          JobFails, GiveUp, KernelRaises, TaskCancelled, Idle, Goto, TypeOK,
          Working, Raised
    <3> QED
      BY <1>0, <3>1, <3>2, StepOfWhom
  <2>2. /\ job[w] \in JobIds /\ jobs[job[w]].status = "running"
        /\ WorksOn(w, job[w])
    BY <2>1 DEF TypeOK, Working, CalmParts, WorksOn
  <2>3. jobs[job[w]].fresh
    BY <1>0, <2>2 DEF Exclusive, HeldJobs
  <2>4. ASSUME NEW v \in Workers, PreviousMissing(v) \/ JobFails(v) \/ JobSucceeds(v),
               job[v] = job[w]
        PROVE  FALSE
    <3>1. WorksOn(v, job[w])
      BY <2>4 DEF PreviousMissing, JobFails, JobSucceeds, WorksOn, Raised
    <3>2. v = w
      BY <1>0, <2>2, <3>1 DEF Exclusive, OneWorkerPerJob
    <3>3. ~setting.observes
      BY DEF Calm
    <3>4. Idle(w)
      BY <2>4, <3>2, <3>3 DEF PreviousMissing, JobFails, JobSucceeds
    <3>5. pc'[w] = "idle"
      BY <1>0, <3>4 DEF Idle, Goto, TypeOK
    <3> QED
      BY <3>5 DEF Working
  <2>5. Moved(job[w])
    BY <2>2, JobMoves DEF Moves
  <2> QED
    BY <2>1, <2>2, <2>3, <2>4, <2>5 DEF Moved, Stale
<1> QED
  BY <1>1, <1>2

(* A run with an outcome on record keeps it and its transcript.             *)
LEMMA OutcomeKept ==
  ASSUME TypeOK, Store = "memory", Distinct, Exclusive, Calm, CalmParts,
         [Next]_vars, NEW r \in RunIds, runs[r].status \in Outcomes
  PROVE  runs'[r] = runs[r]
<1>1. Final(r) /\ setting.patient
  BY DEF CalmParts, Calm
<1>2. ASSUME NEW w \in Runners, r = RunOf(w),
             w = Host \/ (w \in Workers /\ job[w] \in JobIds)
      PROVE  pc[w] \notin {"ensured", "kernel", "observing"}
  <2>1. pc[w] # "observing"
    BY DEF CalmParts
  <2>2. CASE w = Host
    BY <1>1, <1>2, <2>2 DEF RunOf, Final
  <2>3. CASE w # Host
    <3> SUFFICES ASSUME pc[w] \in {"ensured", "kernel"} PROVE FALSE
      BY <2>1
    <3>1. w \in Workers /\ job[w] \in JobIds /\ jobs[job[w]].next = r
      BY <1>2, <2>3 DEF RunOf
    <3>2. Working(w) /\ WorksOn(w, job[w]) /\ jobs[job[w]].status = "running"
      BY <3>1 DEF Working, WorksOn, Raised, CalmParts
    <3>3. PICK v \in Workers : job[v] = job[w] /\ pc[v] = "ended"
      BY <1>1, <3>1, <3>2 DEF Final
    <3>4. WorksOn(v, job[w])
      BY <3>3 DEF WorksOn, Raised
    <3>5. v = w
      BY <1>1, <3>1, <3>2, <3>4 DEF Exclusive, OneWorkerPerJob
    <3> QED
      BY <3>3, <3>5
  <2> QED
    BY <2>2, <2>3
<1>3. ~(StartRoot /\ r = Root)
  BY <1>1 DEF StartRoot, Final
<1>4. "absent" \notin Outcomes
  BY DEF Outcomes
<1> QED
  BY <1>2, <1>3, <1>4, RunStep
  DEF RunMoves, MarkRunning, KernelReturns, KernelRaises, TaskCancelled

(* What a run on record with an outcome says of its job stays true.          *)
LEMMA FinalKept ==
  ASSUME TypeOK, TypeOK', Store = "memory", Distinct, Distinct', Exclusive, Calm,
         CalmParts, [Next]_vars, NEW r \in RunIds, runs[r].status \in Outcomes
  PROVE  Final(r)'
<1>0. Final(r) /\ ~setting.crashes /\ runs'[r] = runs[r]
  BY OutcomeKept DEF CalmParts, Calm
<1>1. r = Root => pc'[Host] = "stopped"
  <2> SUFFICES ASSUME r = Root PROVE pc'[Host] = "stopped"
    OBVIOUS
  <2>1. pc[Host] = "stopped" /\ Host \in Runners
    BY <1>0 DEF Final, Runners
  <2>2. ~OwnStep(Host)
    BY <2>1
    DEF OwnStep, StartRoot, Advance, Claim, MarkAttempt, PreviousMissing,
        LoadPrevious, LookUpRun, EnsureRun, MarkRunning, KernelReturns, JobSucceeds,
        Observed, JobFails, GiveUp, KernelRaises, TaskCancelled, Raised
  <2> QED
    BY <1>0, <2>1, <2>2, StepOfWhom DEF SameRunner
<1>2. ASSUME NEW j \in JobIds', jobs'[j].next = r
      PROVE  \/ jobs'[j].status = "succeeded"
             \/ \E w \in Workers : job'[w] = j /\ pc'[w] = "ended"
  <2>1. j \in JobIds
    <3> SUFFICES ASSUME j \notin JobIds PROVE FALSE
      OBVIOUS
    <3>1. PICK spec \in Specs : jobs'[j] = NewJob(spec) /\ ~Known(spec.next)
      BY JobMoves, JobEnters
    <3>2. ~Known(r) /\ r # Root
      BY <1>2, <3>1, RunnerConstants DEF NewJob
    <3>3. runs[r].status # "absent"
      BY DEF Outcomes
    <3> QED
      BY <3>2, <3>3 DEF CalmParts
  <2>2. jobs[j].next = r /\ Moved(j)
    BY <1>2, <2>1, JobMoves DEF Moves, SameRuns
  <2>3. CASE jobs[j].status = "succeeded"
    <3>1. ASSUME NEW w \in Workers, PreviousMissing(w) \/ JobFails(w), job[w] = j
          PROVE  FALSE
      <4>1. Working(w)
        BY <3>1 DEF PreviousMissing, JobFails, Working, Raised
      <4> QED
        BY <2>3, <3>1, <4>1 DEF CalmParts
    <3> QED
      BY <2>2, <2>3, <3>1 DEF Moved, Stale
  <2>4. ASSUME NEW w \in Workers, job[w] = j, pc[w] = "ended"
        PROVE  \/ jobs'[j].status = "succeeded"
               \/ job'[w] = j /\ pc'[w] = "ended"
    <3>1. w \in Runners /\ w # Host
      BY RunnerConstants DEF Runners
    <3>2. CASE SameRunner(w)
      BY <2>4, <3>2 DEF SameRunner
    <3>3. CASE OwnStep(w)
      <4>1. CompleteSuccess(job[w])
        BY <2>4, <3>1, <3>3
        DEF OwnStep, StartRoot, Advance, Claim, MarkAttempt, PreviousMissing,
            LoadPrevious, LookUpRun, EnsureRun, MarkRunning, KernelReturns,
            JobSucceeds, Observed, JobFails, GiveUp, KernelRaises, TaskCancelled,
            Raised
      <4> QED
        BY <2>1, <2>4, <4>1 DEF CompleteSuccess, TypeOK, QueueTypeOK, JobIds, Job
    <3> QED
      BY <1>0, <3>1, <3>2, <3>3, StepOfWhom
  <2> QED
    BY <1>0, <2>1, <2>2, <2>3, <2>4 DEF Final
<1> QED
  BY <1>0, <1>1, <1>2 DEF Final

(* The outcome a kernel leaves is final: its worker goes on to report it.    *)
LEMMA FinalReached ==
  ASSUME TypeOK, Store = "memory", Distinct, Calm, NEW w \in Runners,
         KernelReturns(w), [Next]_vars
  PROVE  Final(RunOf(w))'
<1>1. /\ jobs' = jobs /\ job' = job /\ runs'[RunOf(w)].state = "saved"
      /\ pc'[w] = IF w = Host THEN "stopped" ELSE "ended"
  BY Completes DEF KernelReturns, OrStops, Goto, TypeOK, Calm
<1>2. RunOf(w)' = RunOf(w) /\ JobIds' = JobIds
  BY <1>1 DEF RunOf, JobIds
<1>3. CASE w = Host
  BY <1>1, <1>2, <1>3, NotRoot DEF RunOf, Final
<1>4. CASE w # Host
  <2>1. w \in Workers /\ job[w] \in JobIds /\ RunOf(w) = jobs[job[w]].next
    BY <1>4, WorkerJob DEF KernelReturns, RunOf
  <2>2. RunOf(w) # Root /\ \A j \in JobIds : jobs[j].next = RunOf(w) => j = job[w]
    BY <2>1, NotRoot DEF Distinct
  <2> QED
    BY <1>1, <1>2, <1>4, <2>1, <2>2 DEF Final
<1> QED
  BY <1>3, <1>4

LEMMA OutcomesFinal ==
  ASSUME TypeOK, TypeOK', Store = "memory", Distinct, Distinct', Exclusive, Calm,
         CalmParts, [Next]_vars, NEW r \in RunIds, runs'[r].status \in Outcomes
  PROVE  Final(r)'
<1>1. CASE runs[r].status \in Outcomes
  BY <1>1, FinalKept
<1>2. CASE runs[r].status \notin Outcomes
  <2>1. runs'[r] # runs[r] /\ ~(StartRoot /\ r = Root)
    BY <1>2 DEF StartRoot, CreateRoot, Absent, Outcomes, TypeOK
  <2>2. PICK w \in Runners : r = RunOf(w) /\ KernelReturns(w)
    BY <2>1, RunStep DEF RunMoves, Outcomes
  <2>3. RunOf(w)' = r
    BY <2>2 DEF KernelReturns, RunOf
  <2> QED
    BY <2>2, <2>3, FinalReached DEF Final
<1> QED
  BY <1>1, <1>2

(* Every run on record is the root or one a job leads to.                   *)
LEMMA RunsKnown ==
  ASSUME TypeOK, Store = "memory", CalmParts, [Next]_vars, NEW r \in RunIds,
         runs'[r].status # "absent", r # Root
  PROVE  Known(r)'
<1>1. JobIds \subseteq JobIds' /\ \A j \in JobIds : jobs'[j].next = jobs[j].next
  BY JobMoves DEF Moves, SameRuns
<1>2. Known(r)
  <2>1. CASE runs'[r] = runs[r]
    BY <2>1 DEF CalmParts
  <2>2. CASE runs'[r] # runs[r]
    BY <2>2, RunStep DEF RunMoves, RunOf, Known
  <2> QED
    BY <2>1, <2>2
<1> QED
  BY <1>1, <1>2 DEF Known

(* A job continues a run with an outcome, or one that never was.             *)
LEMMA PreviousKept ==
  ASSUME TypeOK, TypeOK', Store = "memory", Distinct, Distinct', Exclusive, Calm,
         CalmParts, [Next]_vars, NEW j \in JobIds'
  PROVE  \/ runs'[jobs'[j].previous].status \in Outcomes
         \/ runs'[jobs'[j].previous].status = "absent" /\ Stray(jobs'[j].previous)
<1> DEFINE p == jobs'[j].previous
<1>1. p \in RunIds
  <2>1. jobs'[j] \in Job
    BY DEF TypeOK, QueueTypeOK, JobIds
  <2> QED
    BY <2>1 DEF Job
<1>2. ASSUME NEW q \in RunIds, Stray(q)
      PROVE  runs[q].status = "absent" /\ runs'[q].status = "absent"
  <2>1. ~Known(q) /\ ~Known(q)'
    BY <1>2 DEF Stray, Known, Distinct
  <2> QED
    BY <1>2, <2>1, RunsKnown DEF CalmParts, Stray
<1>3. CASE j \in JobIds
  <2>1. p = jobs[j].previous
    BY <1>3, JobMoves DEF Moves, SameRuns
  <2> HIDE DEF p
  <2>2. runs[p].status \in Outcomes \/ Stray(p)
    BY <1>3, <2>1 DEF CalmParts
  <2>3. runs'[p].status \in Outcomes \/ (runs'[p].status = "absent" /\ Stray(p))
    BY <1>1, <1>2, <2>2, OutcomeKept
  <2> QED
    BY <2>3 DEF p
<1>4. CASE j \notin JobIds
  <2>1. PICK spec \in Specs : jobs'[j] = NewJob(spec) /\ Resumable(spec.previous)
    BY <1>4, JobMoves, JobEnters
  <2>2. p = spec.previous /\ runs' = runs
    BY <1>4, <2>1, JobMoves, JobEnters DEF NewJob, runnerVars
  <2> HIDE DEF p
  <2>3. runs[p].status \in Outcomes \/ Stray(p)
    BY <2>1, <2>2 DEF Resumable, Outcomes, Stray
  <2>4. runs'[p].status \in Outcomes \/ (runs'[p].status = "absent" /\ Stray(p))
    BY <1>1, <1>2, <2>2, <2>3
  <2> QED
    BY <2>4 DEF p
<1> QED
  BY <1>3, <1>4

(* A worker that goes on to the kernel has loaded a saved engine state.      *)
LEMMA SavedLoaded ==
  ASSUME TypeOK, Store = "memory", Calm, CalmParts, [Next]_vars,
         NEW w \in Workers, pc'[w] \in Resumes
  PROVE  resumed'[w] = "saved"
<1>0. w \in Runners /\ w # Host /\ ~setting.crashes
  BY RunnerConstants DEF Runners, Calm
<1>1. CASE SameRunner(w)
  BY <1>1 DEF SameRunner, CalmParts
<1>2. CASE LoadPrevious(w)
  <2>1. job[w] \in JobIds /\ jobs[job[w]].previous \in RunIds
    BY <1>0, <1>2, WorkerJob DEF LoadPrevious
  <2>2. runs[jobs[job[w]].previous].state = "saved"
    BY <1>2, <2>1 DEF LoadPrevious, CalmParts, Final
  <2> QED
    BY <1>0, <1>2, <2>2 DEF LoadPrevious, TypeOK
<1>3. CASE OwnStep(w) /\ ~LoadPrevious(w)
  <2>1. pc[w] \in Resumes /\ resumed' = resumed
    BY <1>0, <1>3
    DEF OwnStep, Advance, Claim, MarkAttempt, PreviousMissing, LookUpRun, EnsureRun,
        MarkRunning, KernelReturns, JobSucceeds, Observed, JobFails, GiveUp,
        KernelRaises, TaskCancelled, Idle, Goto, TypeOK, Resumes
  <2> QED
    BY <2>1 DEF CalmParts
<1> QED
  BY <1>0, <1>1, <1>2, <1>3, StepOfWhom

LEMMA NobodyObserves ==
  ASSUME TypeOK, Calm, CalmParts, [Next]_vars, NEW w \in Runners
  PROVE  pc'[w] \notin {"observing", "reporting"}
<1>1. pc[w] \notin {"observing", "reporting"} /\ ~setting.crashes /\ ~setting.observes
  BY DEF CalmParts, Calm
<1>2. CASE SameRunner(w)
  BY <1>1, <1>2 DEF SameRunner
<1>3. CASE OwnStep(w)
  BY <1>1, <1>3
  DEF OwnStep, StartRoot, Advance, Claim, MarkAttempt, PreviousMissing, LoadPrevious,
      LookUpRun, EnsureRun, MarkRunning, KernelReturns, JobSucceeds, Observed,
      JobFails, GiveUp, KernelRaises, TaskCancelled, Idle, Goto, TypeOK, OrStops
<1> QED
  BY <1>1, <1>2, <1>3, StepOfWhom

LEMMA CalmStep ==
  ASSUME TypeOK, TypeOK', Store = "memory", Distinct, Distinct', Exclusive,
         CountInv', CalmInv, [Next]_vars
  PROVE  CalmInv'
<1>1. setting' = setting
  BY SettingStays
<1> SUFFICES ASSUME Calm PROVE CalmParts'
  BY <1>1 DEF CalmInv, Calm
<1>2. CalmParts
  BY DEF CalmInv
<1>3. \A w \in Runners : pc'[w] \notin {"observing", "reporting"}
  BY <1>2, NobodyObserves
<1>4. \A w \in Workers : Working(w)' => jobs'[job'[w]].status = "running"
  BY <1>2, WorkTracked
<1>5. \A r \in RunIds : runs'[r].status \in Outcomes => Final(r)'
  BY <1>2, OutcomesFinal
<1>6. \A r \in RunIds : runs'[r].status # "absent" => r = Root \/ Known(r)'
  BY <1>2, RunsKnown
<1>7. \A j \in JobIds' :
        \/ runs'[jobs'[j].previous].status \in Outcomes
        \/ runs'[jobs'[j].previous].status = "absent" /\ Stray(jobs'[j].previous)
  BY <1>2, PreviousKept
<1>8. \A w \in Workers : pc'[w] \in Resumes => resumed'[w] = "saved"
  BY <1>2, SavedLoaded
<1> QED
  BY <1>3, <1>4, <1>5, <1>6, <1>7, <1>8 DEF CalmParts, Stray

HostInv == Exclusive /\ CountInv /\ Distinct /\ CalmInv

LEMMA HostInvSafe ==
  ASSUME Store = "memory" PROVE Spec => []HostInv
<1>1. Init => HostInv
  <2> SUFFICES ASSUME Init PROVE HostInv
    OBVIOUS
  <2>1. /\ JobIds = {} /\ \A w \in Runners : pc[w] = "idle"
        /\ \A r \in RunIds : runs[r].status = "absent"
    BY DEF Init, JobIds, Absent
  <2>2. \A w \in Workers : \A j : ~WorksOn(w, j)
    BY <2>1 DEF WorksOn, Runners
  <2>3. Exclusive /\ Distinct
    BY <2>1, <2>2 DEF Exclusive, HeldJobs, OneWorkerPerJob, Distinct
  <2>4. CalmParts
    BY <2>1 DEF CalmParts, Working, Resumes, Runners, Outcomes
  <2> QED
    BY <2>3, <2>4, CountInit DEF HostInv, CalmInv
<1>2. TypeOK /\ TypeOK' /\ HostInv /\ [Next]_vars => HostInv'
  <2> SUFFICES ASSUME TypeOK, TypeOK', HostInv, [Next]_vars PROVE HostInv'
    OBVIOUS
  <2>1. Exclusive /\ CountInv /\ Distinct /\ CalmInv /\ setting.loop
    BY NoCrash DEF HostInv
  <2>2. Exclusive' /\ CountInv' /\ Distinct'
    BY <2>1, ExclusiveStep, CountStep, DistinctStep
  <2>3. CalmInv'
    BY <2>1, <2>2, CalmStep
  <2> QED
    BY <2>2, <2>3 DEF HostInv
<1> QED
  BY <1>1, <1>2, TypeCorrect, PTL DEF Spec

(* A host whose cutoff outlasts its executions and that has no observer      *)
(* never overwrites a recorded outcome nor the transcript kept with it:      *)
(* retries, reclaims and failures only ever touch runs without one.         *)
THEOREM OutcomesStand ==
  ASSUME Store = "memory" PROVE Spec => OutcomeStands
<1>1. TypeOK /\ HostInv /\ [Next]_vars =>
        [Calm => \A r \in RunIds :
                   runs[r].status \in Outcomes => runs'[r] = runs[r]]_vars
  BY OutcomeKept DEF HostInv, CalmInv
<1> QED
  BY <1>1, HostInvSafe, TypeCorrect, PTL DEF Spec, OutcomeStands

(* No continuation of such a host starts from an empty transcript: the run   *)
(* it continues ended with one, and has kept it.                            *)
THEOREM ResumesSaved ==
  ASSUME Store = "memory" PROVE Spec => []NeverResumesBlank
<1>1. HostInv => NeverResumesBlank
  BY DEF HostInv, CalmInv, CalmParts, NeverResumesBlank, Resumes
<1> QED
  BY <1>1, HostInvSafe, PTL
=============================================================================
