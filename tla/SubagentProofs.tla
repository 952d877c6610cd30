--------------------------- MODULE SubagentProofs ---------------------------
(***************************************************************************)
(* Proofs about the subagent runners: that a task is executed by one runner *)
(* at a time, that what is on file as completed gets merged, who may        *)
(* overturn an outcome and that a reported batch stays as it was reported,  *)
(* for any number of tasks, runners, attempts and faults.                   *)
(***************************************************************************)
EXTENDS SubagentRunner, WellFoundedInduction, TLAPS

(* The parts of the inductive invariant.                                   *)

(* A runner that is idle has let go of everything; one at work has nothing  *)
(* reported yet.                                                           *)
Resting ==
  \A w \in Runners :
    /\ pc[w] = "idle" => mine[w] = {} /\ left[w] = {}
    /\ pc[w] # "idle" => report[w].status = "none"

(* The handle of a workspace goes with its task.                            *)
Handled ==
  /\ \A w \in Runners : pc[w] \in {"kernel", "ended", "filed"} =>
       handle[w] = Isolates(Current(w))
  /\ \A t \in unmerged : Isolates(t)

(* Who is on the way to the merge, or to the handler of its failure.        *)
Merges(w, t) ==
  /\ \/ pc[w] = "filed" /\ Finalization(result[w].reason) = "mark_completed"
     \/ pc[w] = "failing"
  /\ t = Current(w)

Merging ==
  ~setting.crashes => \A t \in unmerged : tasks[t].status = "completed" =>
    \E w \in Runners : Merges(w, t)

(* A runner owns a task it holds; if the task port retries, only until the  *)
(* task is on file and the observer is awaited.                             *)
Owns(w, t) ==
  /\ Holds(w, t)
  /\ setting.retries => ~(t = Current(w) /\ pc[w] \in {"observing", "sorry", "cancelling"})

Together == setting.shared \/ ~setting.retries

SoleOwner ==
  Together => \A t \in Tasks, v, w \in Runners : Owns(v, t) /\ Owns(w, t) => v = w

(* Neither a claim nor a creation can take the task.                        *)
Kept(t) == tasks[t].status # "pending" /\ (tasks[t].status = "absent" => tasks[t].attempts # 0)

Keeps(w, t) ==
  /\ Owns(w, t)
  /\ setting.retries => ~(t = Current(w) /\ pc[w] \in {"filed", "failing"})

OwnedKept ==
  Together => \A t \in Tasks, w \in Runners : Keeps(w, t) => Kept(t)

(* A task that is not dealt with yet is in progress, or gone.               *)
Open(w, t) ==
  /\ Holds(w, t)
  /\ t # Current(w) \/ pc[w] \in {"claimed", "marked", "created", "kernel", "ended", "next"}

OpenRunning ==
  ~setting.retries => \A t \in Tasks, w \in Runners :
    Open(w, t) => tasks[t].status \in {"running", "absent"}

Filed(t) == tasks[t].status \in TerminalStatus \cup {"waiting_user"}

FiledCurrent ==
  ~setting.retries => \A w \in Runners :
    pc[w] \in {"filed", "observing"} => Filed(Current(w))

Held(t) == \E w \in Runners : Holds(w, t)

(* What a runner has dealt with is filed and left alone, or an error of its *)
(* batch.                                                                  *)
Dealt ==
  ~setting.retries => \A w \in Runners : \A t \in mine[w] \ left[w] :
    t \in report[w].errors \/ (Filed(t) /\ ~Held(t))

(* So is what it has reported.                                             *)
Reported ==
  ~setting.retries => \A w \in Runners :
    report[w].status = "completed" /\ report[w].errors = {} =>
      /\ Aggregate(report[w].tasks, {}) = report[w]
      /\ \A t \in report[w].tasks : Filed(t) /\ ~Held(t)

IInv ==
  /\ TypeOK /\ Resting /\ Handled /\ Merging /\ SoleOwner /\ OwnedKept
  /\ OpenRunning /\ FiledCurrent /\ Dealt /\ Reported

-----------------------------------------------------------------------------
LEMMA OldestExists ==
  ASSUME NEW S \in SUBSET Nat, S # {}
  PROVE  Oldest(S) \in S
<1> DEFINE Less == {p \in Nat \X Nat : p[1] < p[2]}
<1>1. IsWellFoundedOn(Less, Nat)
  <2>1. Less = OpToRel(<, Nat)
    BY Zenon DEF OpToRel
  <2>2. QED
    BY NatLessThanWellFounded, <2>1, Zenon
<1>2. PICK x \in S : \A y \in S : ~ (<<y, x>> \in Less)
  <2> HIDE DEF Less
  <2>1. QED
    BY <1>1, WFMin
<1>3. ASSUME NEW y \in S
      PROVE  x <= y
  <2>1. x \in Nat /\ y \in Nat
    OBVIOUS
  <2>2. CASE y < x
    <3>1. <<y, x>> \in Nat \X Nat /\ <<y, x>>[1] = y /\ <<y, x>>[2] = x
      BY <2>1
    <3>2. <<y, x>> \in Less
      BY <2>2, <3>1, Zenon
    <3>3. QED
      BY <1>2, <3>2
  <2>3. QED
    BY <2>1, <2>2
<1>4. QED
  BY <1>3 DEF Oldest

LEMMA CurrentIsLeft ==
  ASSUME TypeOK, NEW w \in Runners, left[w] # {}
  PROVE  Current(w) \in left[w] /\ Current(w) \in Tasks
<1>1. left[w] \in SUBSET Tasks /\ left[w] \in SUBSET Nat
  BY SubagentConstants DEF TypeOK
<1>2. QED
  BY <1>1, OldestExists DEF Current

LEMMA AtWork ==
  ASSUME TypeOK, NEW w \in Runners, pc[w] \notin {"idle", "next"}
  PROVE  Current(w) \in left[w] /\ Current(w) \in Tasks
BY CurrentIsLeft DEF TypeOK

(* The step of a runner, and of the host.                                   *)
RunnerStep(w) ==
  Claims(w) \/ ClaimNothing(w) \/ Advance(w) \/ TaskCancelled(w) \/ Crash(w)

HostStep(t) == HostCreates(t) \/ HostRemoves(t) \/ HostReclaims(t)

LEMMA Steppers ==
  ASSUME [Next]_vars
  PROVE  \/ UNCHANGED vars
         \/ \E w \in Runners : RunnerStep(w)
         \/ \E t \in Tasks : HostStep(t)
BY DEF Next, RunnerStep, HostStep

(* A step of a runner leaves the other runners where they are.              *)
LEMMA OthersStay ==
  ASSUME TypeOK, NEW w \in Runners, RunnerStep(w), NEW v \in Runners \ {w}
  PROVE  /\ pc'[v] = pc[v] /\ mine'[v] = mine[v] /\ left'[v] = left[v]
         /\ handle'[v] = handle[v] /\ result'[v] = result[v] /\ report'[v] = report[v]
         /\ Current(v)' = Current(v)
<1> DEFINE Stays == /\ pc'[v] = pc[v] /\ mine'[v] = mine[v] /\ left'[v] = left[v]
                    /\ handle'[v] = handle[v] /\ result'[v] = result[v]
                    /\ report'[v] = report[v]
<1> SUFFICES Stays
  BY DEF Current
<1>1. CASE Claims(w) \/ ClaimNothing(w)
  BY <1>1 DEF TypeOK, Claims, Claim, ClaimNothing, Goto
<1>2. CASE MarkAttempt(w) \/ KernelReturns(w) \/ KernelRaises(w) \/ FinalizeTask(w)
  BY <1>2 DEF TypeOK, MarkAttempt, KernelReturns, KernelRaises, FinalizeTask, Goto,
     runnerVars
<1>3. ASSUME GoesOn(w)
      PROVE  /\ pc'[v] = pc[v] /\ left'[v] = left[v]
             /\ handle'[v] = handle[v] /\ result'[v] = result[v]
  BY <1>3 DEF TypeOK, GoesOn, Goto
<1>4. ASSUME Returns(w) \/ Raises(w), UNCHANGED mine
      PROVE  Stays
  BY <1>3, <1>4 DEF TypeOK, Returns, Raises
<1>5. CASE CreateRun(w) \/ PrepareWorkspace(w)
  BY <1>4, <1>5 DEF TypeOK, CreateRun, PrepareWorkspace, Goto, runnerVars
<1>6. CASE MergeWorkspace(w) \/ RecordTaskFailure(w) \/ ObserverReturns(w)
  BY <1>4, <1>6 DEF TypeOK, MergeWorkspace, MergeFails, RecordTaskFailure,
     ObserverReturns, Goto
<1>7. ASSUME Aborts(w)
      PROVE  Stays
  BY <1>7 DEF TypeOK, Aborts, Goto
<1>8. CASE RecordTaskCancelled(w) \/ TaskCancelled(w) \/ Crash(w)
  BY <1>7, <1>8 DEF TypeOK, RecordTaskCancelled, TaskCancelled, Crash, Goto, runnerVars
<1>9. CASE NextTask(w)
  BY <1>9 DEF TypeOK, NextTask, Goto
<1>10. QED
  BY <1>1, <1>2, <1>5, <1>6, <1>8, <1>9 DEF RunnerStep, Advance

LEMMA SettingStays ==
  ASSUME [Next]_vars
  PROVE  setting' = setting
BY DEF Next, vars, Claims, Claim, ClaimNothing, Advance, MarkAttempt, CreateRun,
   PrepareWorkspace, KernelReturns, KernelRaises, FinalizeTask, MergeWorkspace,
   RecordTaskFailure, ObserverReturns, RecordTaskCancelled, NextTask,
   TaskCancelled, Crash, HostCreates, HostRemoves, HostReclaims

-----------------------------------------------------------------------------
(* Types.                                                                  *)

LEMMA StartTypes ==
  /\ Fresh \in Task /\ NoOutcome \in Outcome /\ NoReport \in Report
  /\ NoResult.validation \in Validations /\ Raised \in Outcome
BY DEF Fresh, Task, TaskStatus, NoOutcome, Outcome, Validations, NoReport, Report,
   NoResult, Raised, OutcomeOf

LEMMA OutcomeType ==
  ASSUME NEW r \in Results \cup {NoResult}, NEW error \in BOOLEAN
  PROVE  OutcomeOf(r, error) \in Outcome
<1>1. r.toolError \in BOOLEAN /\ r.validation \in Validations
  <2>1. CASE r \in Results
    BY <2>1, SubagentConstants
  <2>2. CASE r = NoResult
    BY <2>2, StartTypes DEF NoResult
  <2>3. QED
    BY <2>1, <2>2
<1>2. QED
  BY <1>1 DEF OutcomeOf, Outcome

LEMMA AggregateType ==
  ASSUME TypeOK, NEW S \in SUBSET Tasks, NEW errors \in SUBSET Tasks
  PROVE  Aggregate(S, errors) \in Report
<1>1. AggregateStatus(S) \in {"empty", "running", "failed", "completed"}
  BY DEF AggregateStatus
<1>2. AggregateValidation(S) \in Validations
  BY DEF AggregateValidation, Validations
<1>3. QED
  BY <1>1, <1>2 DEF Aggregate, Report

LEMMA FileType ==
  ASSUME TypeOK, NEW t \in Tasks, NEW status \in TaskStatus, NEW error \in BOOLEAN,
         NEW outcome \in Outcome, File(t, status, error, outcome)
  PROVE  tasks' \in [Tasks -> Task]
<1>1. tasks[t] \in Task
  BY DEF TypeOK
<1>2. [tasks[t] EXCEPT !.status = status, !.outcome = outcome, !.error = error \/ @] \in Task
  BY <1>1 DEF Task
<1>3. CASE ~Present(t)
  BY <1>3 DEF File, TypeOK
<1>4. CASE Present(t)
  <2>1. tasks' = [tasks EXCEPT ![t] =
          [tasks[t] EXCEPT !.status = status, !.outcome = outcome, !.error = error \/ @]]
    BY <1>4, Zenon DEF File
  <2>2. QED
    BY <1>2, <2>1 DEF TypeOK
<1>5. QED
  BY <1>3, <1>4

(* The parts of TypeOK that the steps of a runner change together.          *)
PlacesOK ==
  /\ pc \in [Runners -> Awaits \cup Steps]
  /\ mine \in [Runners -> SUBSET Tasks]
  /\ left \in [Runners -> SUBSET Tasks]
  /\ fanout \in [Runners -> BOOLEAN]
  /\ handle \in [Runners -> BOOLEAN]
  /\ result \in [Runners -> Results \cup {NoResult}]
  /\ report \in [Runners -> Report]
  /\ \A w \in Runners : /\ left[w] \subseteq mine[w]
                        /\ pc[w] \notin {"idle", "next"} => left[w] # {}

RestOK ==
  /\ setting \in Settings
  /\ tasks \in [Tasks -> Task]
  /\ unmerged \subseteq Tasks
  /\ faults \in 0..MaxFaults

LEMMA FaultType ==
  ASSUME TypeOK, Fault \/ UNCHANGED faults
  PROVE  faults' \in 0..MaxFaults
BY SubagentConstants DEF TypeOK, Fault

LEMMA GotoType ==
  ASSUME TypeOK, NEW w \in Runners, NEW label \in Awaits \cup Steps, Goto(w, label),
         label \in {"idle", "next"} \/ pc[w] \notin {"idle", "next"},
         UNCHANGED <<mine, left, fanout, result, report>>,
         handle' \in [Runners -> BOOLEAN]
  PROVE  PlacesOK'
<1>1. /\ pc' \in [Runners -> Awaits \cup Steps] /\ mine' \in [Runners -> SUBSET Tasks]
      /\ left' \in [Runners -> SUBSET Tasks] /\ fanout' \in [Runners -> BOOLEAN]
      /\ handle' \in [Runners -> BOOLEAN]
      /\ result' \in [Runners -> Results \cup {NoResult}] /\ report' \in [Runners -> Report]
  BY DEF TypeOK, Goto
<1>2. ASSUME NEW v \in Runners
      PROVE  left'[v] \subseteq mine'[v] /\ (pc'[v] \notin {"idle", "next"} => left'[v] # {})
  <2>1. /\ left[v] \subseteq mine[v] /\ (pc[v] \notin {"idle", "next"} => left[v] # {})
        /\ left'[v] = left[v] /\ mine'[v] = mine[v]
    BY DEF TypeOK
  <2>2. v # w => pc'[v] = pc[v]
    BY DEF TypeOK, Goto
  <2>3. v = w => pc'[v] = label
    BY DEF TypeOK, Goto
  <2>4. QED
    BY <2>1, <2>2, <2>3
<1>3. QED
  BY <1>1, <1>2 DEF PlacesOK

LEMMA GoesOnType ==
  ASSUME TypeOK, NEW w \in Runners, pc[w] \notin {"idle", "next"},
         GoesOn(w), UNCHANGED <<mine, fanout>>, UNCHANGED report \/ Raises(w)
  PROVE  PlacesOK'
<1>1. Current(w) \in Tasks
  BY AtWork
<1>2. [report[w] EXCEPT !.errors = @ \cup {Current(w)}] \in Report
  <2>1. report[w] \in Report
    BY DEF TypeOK
  <2>2. QED
    BY <1>1, <2>1 DEF Report
<1>3. report' \in [Runners -> Report]
  <2>1. CASE UNCHANGED report
    BY <2>1 DEF TypeOK
  <2>2. CASE report' = [report EXCEPT ![w] = [report[w] EXCEPT !.errors = @ \cup {Current(w)}]]
    BY <1>2, <2>2 DEF TypeOK
  <2>3. QED
    BY <2>1, <2>2, Zenon DEF Raises
<1>4. /\ pc' = [pc EXCEPT ![w] = "next"]
      /\ left' = [left EXCEPT ![w] = left[w] \ {Current(w)}]
      /\ handle' = [handle EXCEPT ![w] = FALSE]
      /\ result' = [result EXCEPT ![w] = NoResult]
  BY DEF GoesOn, Goto
<1>5. /\ pc' \in [Runners -> Awaits \cup Steps] /\ mine' \in [Runners -> SUBSET Tasks]
      /\ left' \in [Runners -> SUBSET Tasks] /\ fanout' \in [Runners -> BOOLEAN]
      /\ handle' \in [Runners -> BOOLEAN]
      /\ result' \in [Runners -> Results \cup {NoResult}] /\ report' \in [Runners -> Report]
  BY <1>3, <1>4 DEF TypeOK, Awaits, Steps
<1>6. ASSUME NEW v \in Runners
      PROVE  left'[v] \subseteq mine'[v] /\ (pc'[v] \notin {"idle", "next"} => left'[v] # {})
  BY <1>4 DEF TypeOK
<1>7. QED
  BY <1>5, <1>6 DEF PlacesOK

LEMMA AbortsType ==
  ASSUME TypeOK, NEW w \in Runners, Aborts(w)
  PROVE  PlacesOK'
<1>1. /\ pc' \in [Runners -> Awaits \cup Steps] /\ mine' \in [Runners -> SUBSET Tasks]
      /\ left' \in [Runners -> SUBSET Tasks] /\ fanout' \in [Runners -> BOOLEAN]
      /\ handle' \in [Runners -> BOOLEAN]
      /\ result' \in [Runners -> Results \cup {NoResult}] /\ report' \in [Runners -> Report]
  BY StartTypes DEF TypeOK, Aborts, Goto, Awaits, Steps
<1>2. ASSUME NEW v \in Runners
      PROVE  left'[v] \subseteq mine'[v] /\ (pc'[v] \notin {"idle", "next"} => left'[v] # {})
  BY DEF TypeOK, Aborts, Goto
<1>3. QED
  BY <1>1, <1>2 DEF PlacesOK

LEMMA ClaimType ==
  ASSUME TypeOK, NEW w \in Runners, NEW S \in SUBSET Tasks, NEW batch \in BOOLEAN,
         Claim(w, S, batch)
  PROVE  PlacesOK' /\ RestOK'
<1>1. \A t \in Tasks : [tasks[t] EXCEPT !.status = "running"] \in Task
  BY DEF TypeOK, Task, TaskStatus
<1>2. tasks' \in [Tasks -> Task]
  BY <1>1 DEF Claim, TypeOK
<1>3. S # {}
  BY DEF Claim, Claimable
<1>4. /\ pc' \in [Runners -> Awaits \cup Steps] /\ mine' \in [Runners -> SUBSET Tasks]
      /\ left' \in [Runners -> SUBSET Tasks] /\ fanout' \in [Runners -> BOOLEAN]
      /\ handle' \in [Runners -> BOOLEAN]
      /\ result' \in [Runners -> Results \cup {NoResult}] /\ report' \in [Runners -> Report]
  BY StartTypes DEF Claim, Goto, TypeOK, Awaits, Steps
<1>5. ASSUME NEW v \in Runners
      PROVE  left'[v] \subseteq mine'[v] /\ (pc'[v] \notin {"idle", "next"} => left'[v] # {})
  BY <1>3 DEF Claim, Goto, TypeOK
<1>6. QED
  BY <1>2, <1>4, <1>5 DEF PlacesOK, RestOK, Claim, TypeOK

LEMMA FinalizeType ==
  ASSUME TypeOK, NEW w \in Runners, FinalizeTask(w)
  PROVE  PlacesOK' /\ RestOK'
<1> DEFINE t == Current(w)
           kind == Finalization(result[w].reason)
           outcome == OutcomeOf(result[w], kind \notin {"mark_completed", "mark_waiting"})
<1>1. t \in Tasks /\ pc[w] = "ended"
  BY AtWork DEF FinalizeTask, At
<1>2. outcome \in Outcome
  BY OutcomeType DEF TypeOK
<1>3. tasks' \in [Tasks -> Task]
  <2> HIDE DEF t, outcome
  <2>1. ASSUME RecordFailure(t, outcome)
        PROVE  \E status \in TaskStatus : File(t, status, TRUE, outcome)
    BY <2>1 DEF RecordFailure, TaskStatus
  <2>2. \/ File(t, "cancelled", TRUE, outcome) \/ File(t, "waiting_user", FALSE, outcome)
        \/ RecordFailure(t, outcome) \/ File(t, "failed", TRUE, outcome)
        \/ File(t, "completed", FALSE, outcome)
    <3>1. kind \in {"mark_cancelled", "mark_waiting", "record_failure", "mark_failed",
                   "mark_completed"}
      BY DEF Finalization
    <3>2. CASE kind = "mark_cancelled"
      BY <3>2 DEF FinalizeTask, t, outcome
    <3>3. CASE kind = "mark_waiting"
      BY <3>3 DEF FinalizeTask, t, outcome
    <3>4. CASE kind = "record_failure"
      BY <3>4 DEF FinalizeTask, t, outcome
    <3>5. CASE kind = "mark_failed"
      BY <3>5 DEF FinalizeTask, t, outcome
    <3>6. CASE kind = "mark_completed"
      BY <3>6 DEF FinalizeTask, t, outcome
    <3>7. QED
      BY <3>1, <3>2, <3>3, <3>4, <3>5, <3>6
  <2>3. \E status \in TaskStatus, error \in BOOLEAN : File(t, status, error, outcome)
    BY <2>1, <2>2 DEF TaskStatus
  <2>4. QED
    BY <1>1, <1>2, <2>3, FileType
<1>4. unmerged' \subseteq Tasks
  BY <1>1 DEF FinalizeTask, TypeOK
<1>5. PlacesOK'
  BY <1>1, GotoType DEF FinalizeTask, runnerVars, Awaits, Steps, TypeOK
<1>6. QED
  BY <1>3, <1>4, <1>5 DEF FinalizeTask, TypeOK, RestOK

LEMMA FailureType ==
  ASSUME TypeOK, NEW t \in Tasks, RecordFailure(t, Raised)
  PROVE  tasks' \in [Tasks -> Task]
<1>1. \E status \in TaskStatus : File(t, status, TRUE, Raised)
  BY DEF RecordFailure, TaskStatus
<1>2. QED
  BY <1>1, StartTypes, FileType

LEMMA TypeStep ==
  ASSUME TypeOK, [Next]_vars
  PROVE  TypeOK'
<1> SUFFICES PlacesOK' /\ RestOK'
  BY DEF TypeOK, PlacesOK, RestOK
<1>1. CASE UNCHANGED vars
  BY <1>1 DEF vars, TypeOK, PlacesOK, RestOK
<1>2. ASSUME NEW w \in Runners, Claims(w)
      PROVE  PlacesOK' /\ RestOK'
  BY <1>2, ClaimType DEF Claims
<1>3. ASSUME NEW w \in Runners, ClaimNothing(w)
      PROVE  PlacesOK' /\ RestOK'
  <2>1. Aggregate({}, {}) \in Report
    BY AggregateType
  <2>2. report' \in [Runners -> Report]
    BY <1>3, <2>1 DEF ClaimNothing, TypeOK
  <2>3. QED
    BY <1>3, <2>2 DEF ClaimNothing, TypeOK, PlacesOK, RestOK
<1>4. ASSUME NEW w \in Runners, MarkAttempt(w)
      PROVE  PlacesOK' /\ RestOK'
  <2>1. PlacesOK'
    BY <1>4, GotoType DEF MarkAttempt, At, runnerVars, Awaits, Steps, TypeOK
  <2>2. [tasks[Current(w)] EXCEPT !.attempts = @ + 1] \in Task
    <3>1. tasks[Current(w)] \in Task
      BY <1>4, AtWork DEF MarkAttempt, At, TypeOK
    <3>2. QED
      BY <3>1 DEF Task
  <2>3. tasks' = tasks \/
        tasks' = [tasks EXCEPT ![Current(w)] = [tasks[Current(w)] EXCEPT !.attempts = @ + 1]]
    BY <1>4, Zenon DEF MarkAttempt
  <2>4. tasks' \in [Tasks -> Task]
    BY <2>2, <2>3 DEF TypeOK
  <2>5. QED
    BY <1>4, <2>1, <2>4 DEF MarkAttempt, TypeOK, RestOK
<1>5. ASSUME NEW w \in Runners, CreateRun(w)
      PROVE  PlacesOK' /\ RestOK'
  <2>1. RestOK'
    BY <1>5, FaultType DEF CreateRun, TypeOK, RestOK
  <2>2. CASE Goto(w, "created") /\ UNCHANGED runnerVars
    BY <1>5, <2>1, <2>2, GotoType DEF CreateRun, At, runnerVars, Awaits, Steps, TypeOK
  <2>3. CASE Raises(w) /\ UNCHANGED <<mine, fanout>>
    BY <1>5, <2>1, <2>3, GoesOnType DEF CreateRun, At, Raises
  <2>4. QED
    BY <1>5, <2>2, <2>3 DEF CreateRun
<1>6. ASSUME NEW w \in Runners, PrepareWorkspace(w)
      PROVE  PlacesOK' /\ RestOK'
  <2>1. RestOK'
    BY <1>6, FaultType DEF PrepareWorkspace, TypeOK, RestOK
  <2>2. CASE /\ handle' = [handle EXCEPT ![w] = Isolates(Current(w))]
             /\ Goto(w, "kernel") /\ UNCHANGED <<left, result, report>>
    <3>1. Isolates(Current(w)) \in BOOLEAN
      BY SubagentConstants DEF Isolates, Setting, TypeOK
    <3>2. handle' \in [Runners -> BOOLEAN]
      BY <2>2, <3>1 DEF TypeOK
    <3>3. QED
      BY <1>6, <2>1, <2>2, <3>2, GotoType DEF PrepareWorkspace, At, Awaits, Steps
  <2>3. CASE Raises(w)
    BY <1>6, <2>1, <2>3, GoesOnType DEF PrepareWorkspace, At, Raises
  <2>4. QED
    BY <1>6, <2>2, <2>3 DEF PrepareWorkspace
<1>7. ASSUME NEW w \in Runners, KernelReturns(w)
      PROVE  PlacesOK' /\ RestOK'
  <2>1. result' \in [Runners -> Results \cup {NoResult}]
    BY <1>7 DEF KernelReturns, TypeOK
  <2>2. pc' = [pc EXCEPT ![w] = "ended"] /\ pc[w] = "kernel"
    BY <1>7 DEF KernelReturns, At, Goto
  <2>3. pc' \in [Runners -> Awaits \cup Steps]
    BY <2>2 DEF TypeOK, Awaits, Steps
  <2>4. \A v \in Runners : left'[v] \subseteq mine'[v]
                           /\ (pc'[v] \notin {"idle", "next"} => left'[v] # {})
    BY <1>7, <2>2 DEF KernelReturns, TypeOK
  <2>5. QED
    BY <1>7, <2>1, <2>3, <2>4 DEF KernelReturns, TypeOK, PlacesOK, RestOK
<1>8. ASSUME NEW w \in Runners, KernelRaises(w)
      PROVE  PlacesOK' /\ RestOK'
  <2>1. PlacesOK'
    BY <1>8, GotoType DEF KernelRaises, At, runnerVars, Awaits, Steps, TypeOK
  <2>2. QED
    BY <1>8, <2>1 DEF KernelRaises, TypeOK, RestOK
<1>9. ASSUME NEW w \in Runners, FinalizeTask(w)
      PROVE  PlacesOK' /\ RestOK'
  BY <1>9, FinalizeType
<1>10. ASSUME NEW w \in Runners, MergeWorkspace(w)
       PROVE  PlacesOK' /\ RestOK'
  <2>1. RestOK'
    BY <1>10, FaultType DEF MergeWorkspace, TypeOK, RestOK
  <2>2. CASE (Goto(w, "observing") \/ Goto(w, "failing")) /\ UNCHANGED <<left, handle, result, report>>
    BY <1>10, <2>1, <2>2, GotoType DEF MergeWorkspace, At, Awaits, Steps, TypeOK
  <2>3. CASE Returns(w)
    BY <1>10, <2>1, <2>3, GoesOnType DEF MergeWorkspace, At, Returns
  <2>4. QED
    BY <1>10, <2>2, <2>3 DEF MergeWorkspace, MergeFails
<1>11. ASSUME NEW w \in Runners, RecordTaskFailure(w)
       PROVE  PlacesOK' /\ RestOK'
  <2>1. RestOK'
    BY <1>11, FailureType, AtWork DEF RecordTaskFailure, At, TypeOK, RestOK
  <2>2. CASE Goto(w, "sorry") /\ UNCHANGED <<left, handle, result, report>>
    BY <1>11, <2>1, <2>2, GotoType DEF RecordTaskFailure, At, Awaits, Steps, TypeOK
  <2>3. CASE Raises(w)
    BY <1>11, <2>1, <2>3, GoesOnType DEF RecordTaskFailure, At, Raises
  <2>4. QED
    BY <1>11, <2>2, <2>3 DEF RecordTaskFailure
<1>12. ASSUME NEW w \in Runners, ObserverReturns(w)
       PROVE  PlacesOK' /\ RestOK'
  <2>1. RestOK'
    BY <1>12 DEF ObserverReturns, TypeOK, RestOK
  <2>2. QED
    BY <1>12, <2>1, GoesOnType DEF ObserverReturns, At, Returns, Raises
<1>13. ASSUME NEW w \in Runners, TaskCancelled(w)
       PROVE  PlacesOK' /\ RestOK'
  <2>1. RestOK'
    BY <1>13, FaultType DEF TaskCancelled, TypeOK, RestOK
  <2>2. CASE pc[w] \in {"kernel", "observing"} /\ Goto(w, "cancelling") /\ UNCHANGED runnerVars
    BY <2>1, <2>2, GotoType DEF runnerVars, Awaits, Steps, TypeOK
  <2>3. QED
    BY <1>13, <2>1, <2>2, AbortsType DEF TaskCancelled, At
<1>14. ASSUME NEW w \in Runners, RecordTaskCancelled(w)
       PROVE  PlacesOK' /\ RestOK'
  <2>1. tasks' \in [Tasks -> Task]
    BY <1>14, AtWork, FileType, StartTypes DEF RecordTaskCancelled, At, TaskStatus
  <2>2. QED
    BY <1>14, <2>1, AbortsType DEF RecordTaskCancelled, TypeOK, RestOK
<1>15. ASSUME NEW w \in Runners, NextTask(w)
       PROVE  PlacesOK' /\ RestOK'
  <2>1. RestOK'
    BY <1>15 DEF NextTask, TypeOK, RestOK
  <2>2. CASE left[w] # {}
    <3>1. pc' = [pc EXCEPT ![w] = "claimed"]
      BY <1>15, <2>2 DEF NextTask, Goto
    <3>2. \A v \in Runners : left'[v] \subseteq mine'[v]
                             /\ (pc'[v] \notin {"idle", "next"} => left'[v] # {})
      BY <1>15, <2>2, <3>1 DEF NextTask, TypeOK
    <3>3. QED
      BY <1>15, <2>1, <2>2, <3>1, <3>2 DEF NextTask, TypeOK, PlacesOK, Awaits, Steps
  <2>3. CASE left[w] = {}
    <3>1. /\ pc' = [pc EXCEPT ![w] = "idle"]
          /\ mine' = [mine EXCEPT ![w] = {}]
          /\ fanout' = [fanout EXCEPT ![w] = FALSE]
          /\ report' = [report EXCEPT ![w] =
               IF fanout[w] THEN Aggregate(mine[w], report[w].errors) ELSE NoReport]
      BY <1>15, <2>3 DEF NextTask, Goto
    <3>2. Aggregate(mine[w], report[w].errors) \in Report
      BY AggregateType DEF TypeOK, Report
    <3>3. report' \in [Runners -> Report]
      BY <3>1, <3>2, StartTypes DEF TypeOK
    <3>4. \A v \in Runners : left'[v] \subseteq mine'[v]
                             /\ (pc'[v] \notin {"idle", "next"} => left'[v] # {})
      BY <1>15, <2>3, <3>1 DEF NextTask, TypeOK
    <3>5. QED
      BY <1>15, <2>1, <3>1, <3>3, <3>4 DEF NextTask, TypeOK, PlacesOK, Awaits, Steps
  <2>4. QED
    BY <2>2, <2>3
<1>16. ASSUME NEW w \in Runners, Crash(w)
       PROVE  PlacesOK' /\ RestOK'
  <2>1. RestOK'
    BY <1>16, FaultType DEF Crash, TypeOK, RestOK
  <2>2. QED
    BY <1>16, <2>1, AbortsType DEF Crash
<1>17. ASSUME NEW t \in Tasks, HostStep(t)
       PROVE  PlacesOK' /\ RestOK'
  <2>1. /\ [tasks[t] EXCEPT !.status = "pending"] \in Task
        /\ [tasks[t] EXCEPT !.status = "absent", !.attempts = MaxAttempts] \in Task
    <3>1. tasks[t] \in Task /\ MaxAttempts \in Nat
      BY SubagentConstants DEF TypeOK
    <3>2. QED
      BY <3>1 DEF Task, TaskStatus
  <2>2. \/ tasks' = [tasks EXCEPT ![t] = [tasks[t] EXCEPT !.status = "pending"]]
        \/ tasks' = [tasks EXCEPT ![t] = [tasks[t] EXCEPT !.status = "absent",
                                                          !.attempts = MaxAttempts]]
    BY <1>17, Zenon DEF HostStep, HostCreates, HostRemoves, HostReclaims
  <2>3. tasks' \in [Tasks -> Task]
    BY <2>1, <2>2 DEF TypeOK
  <2>4. UNCHANGED <<setting, pc, runnerVars, unmerged, faults>>
    BY <1>17 DEF HostStep, HostCreates, HostRemoves, HostReclaims
  <2>5. QED
    BY <2>3, <2>4 DEF TypeOK, PlacesOK, RestOK, runnerVars
<1>18. QED
  BY <1>1, <1>2, <1>3, <1>4, <1>5, <1>6, <1>7, <1>8, <1>9, <1>10, <1>11, <1>12,
     <1>13, <1>14, <1>15, <1>16, <1>17 DEF Next, Advance, HostStep

-----------------------------------------------------------------------------
(* What the steps do.                                                      *)

(* A runner goes on with its task, drops it, or is through.                 *)
Stays(w) == left'[w] = left[w] /\ mine'[w] = mine[w]

From(w, a, b) == pc[w] = a /\ pc'[w] = b

Proceeds(w) ==
  /\ Stays(w)
  /\ \/ From(w, "claimed", "marked") \/ From(w, "marked", "created")
     \/ From(w, "created", "kernel") \/ From(w, "kernel", "ended")
     \/ From(w, "kernel", "failing") \/ From(w, "ended", "filed")
     \/ From(w, "ended", "failing") \/ From(w, "filed", "observing")
     \/ From(w, "filed", "failing") \/ From(w, "failing", "sorry")
     \/ From(w, "kernel", "cancelling") \/ From(w, "observing", "cancelling")
     \/ From(w, "next", "claimed") \/ From(w, "idle", "idle")

Drops(w) ==
  /\ left'[w] = left[w] \ {Current(w)} /\ mine'[w] = mine[w]
  /\ pc[w] \in {"marked", "created", "filed", "failing", "observing", "sorry"}
  /\ pc'[w] = "next"

IsThrough(w) == left'[w] = {} /\ mine'[w] = {} /\ pc'[w] = "idle"

LEMMA GoesOnDrops ==
  ASSUME TypeOK, NEW w \in Runners, GoesOn(w), UNCHANGED mine,
         pc[w] \in {"marked", "created", "filed", "failing", "observing", "sorry"}
  PROVE  Drops(w)
BY DEF TypeOK, GoesOn, Goto, Drops

LEMMA AbortIsThrough ==
  ASSUME TypeOK, NEW w \in Runners, Aborts(w)
  PROVE  IsThrough(w)
BY DEF TypeOK, Aborts, Goto, IsThrough

LEMMA RunnerMoves ==
  ASSUME TypeOK, Resting, NEW w \in Runners, RunnerStep(w)
  PROVE  Claims(w) \/ Proceeds(w) \/ Drops(w) \/ IsThrough(w)
<1>1. ASSUME NEW a, NEW b, pc[w] = a, Goto(w, b), UNCHANGED <<mine, left>>
      PROVE  Stays(w) /\ From(w, a, b)
  BY <1>1 DEF TypeOK, Goto, Stays, From
<1>2. CASE ClaimNothing(w)
  BY <1>2 DEF ClaimNothing, At, Proceeds, Stays, From
<1>3. CASE MarkAttempt(w) \/ KernelReturns(w) \/ KernelRaises(w)
  BY <1>1, <1>3 DEF MarkAttempt, KernelReturns, KernelRaises, At, Proceeds, runnerVars
<1>4. CASE CreateRun(w) \/ PrepareWorkspace(w)
  BY <1>1, <1>4, GoesOnDrops DEF CreateRun, PrepareWorkspace, Raises, At, Proceeds, runnerVars
<1>5. CASE FinalizeTask(w)
  BY <1>1, <1>5 DEF FinalizeTask, At, Proceeds, runnerVars
<1>6. CASE MergeWorkspace(w) \/ RecordTaskFailure(w) \/ ObserverReturns(w)
  BY <1>1, <1>6, GoesOnDrops DEF MergeWorkspace, MergeFails, RecordTaskFailure, ObserverReturns,
     Returns, Raises, At, Proceeds
<1>7. CASE TaskCancelled(w) \/ RecordTaskCancelled(w) \/ Crash(w)
  BY <1>1, <1>7, AbortIsThrough DEF TaskCancelled, RecordTaskCancelled, Crash, At,
     Proceeds, runnerVars
<1>8. CASE NextTask(w)
  <2>1. CASE left[w] # {}
    BY <1>1, <1>8, <2>1 DEF NextTask, At, Proceeds
  <2>2. CASE left[w] = {}
    BY <1>8, <2>2 DEF NextTask, At, Goto, IsThrough, TypeOK
  <2>3. QED
    BY <2>1, <2>2
<1>9. QED
  BY <1>2, <1>3, <1>4, <1>5, <1>6, <1>7, <1>8 DEF RunnerStep, Advance

(* What a step leaves of a task.                                           *)
Untouched(t) ==
  /\ tasks'[t].status = tasks[t].status
  /\ tasks[t].status = "absent" => tasks'[t] = tasks[t]

LEMMA FileEffect ==
  ASSUME TypeOK, NEW t \in Tasks, NEW status \in TaskStatus, NEW error, NEW outcome,
         File(t, status, error, outcome)
  PROVE  /\ \A u \in Tasks \ {t} : tasks'[u] = tasks[u]
         /\ ~Present(t) => tasks' = tasks
         /\ Present(t) => tasks'[t].status = status
<1>1. CASE ~Present(t)
  BY <1>1 DEF File
<1>2. CASE Present(t)
  <2>1. tasks' = [tasks EXCEPT ![t] =
          [tasks[t] EXCEPT !.status = status, !.outcome = outcome, !.error = error \/ @]]
    BY <1>2, Zenon DEF File
  <2>2. tasks[t] \in Task
    BY DEF TypeOK
  <2>3. [tasks[t] EXCEPT !.status = status, !.outcome = outcome, !.error = error \/ @].status
          = status
    BY <2>2 DEF Task
  <2>4. QED
    BY <1>2, <2>1, <2>3 DEF TypeOK
<1>3. QED
  BY <1>1, <1>2

LEMMA FailureEffect ==
  ASSUME TypeOK, NEW t \in Tasks, NEW outcome, RecordFailure(t, outcome)
  PROVE  /\ \A u \in Tasks \ {t} : tasks'[u] = tasks[u]
         /\ ~Present(t) => tasks' = tasks
         /\ Present(t) => \/ tasks'[t].status = "failed"
                          \/ setting.retries /\ tasks'[t].status = "pending"
<1>1. \/ File(t, "failed", TRUE, outcome)
      \/ setting.retries /\ File(t, "pending", TRUE, outcome)
  BY DEF RecordFailure
<1>2. CASE File(t, "failed", TRUE, outcome)
  <2>1. "failed" \in TaskStatus
    BY DEF TaskStatus
  <2>2. QED
    BY <1>2, <2>1, FileEffect
<1>3. CASE setting.retries /\ File(t, "pending", TRUE, outcome)
  <2>1. "pending" \in TaskStatus
    BY DEF TaskStatus
  <2>2. QED
    BY <1>3, <2>1, FileEffect
<1>4. QED
  BY <1>1, <1>2, <1>3

LEMMA FinalizeEffect ==
  ASSUME TypeOK, NEW w \in Runners, FinalizeTask(w)
  PROVE  /\ \A u \in Tasks \ {Current(w)} : tasks'[u] = tasks[u]
         /\ ~Present(Current(w)) => tasks' = tasks /\ From(w, "ended", "failing")
         /\ Present(Current(w)) =>
              /\ From(w, "ended", "filed")
              /\ \/ tasks'[Current(w)].status \in TerminalStatus \cup {"waiting_user"}
                 \/ setting.retries /\ tasks'[Current(w)].status = "pending"
              /\ tasks'[Current(w)].status = "completed" =>
                   Finalization(result[w].reason) = "mark_completed"
<1> DEFINE t == Current(w)
           kind == Finalization(result[w].reason)
           outcome == OutcomeOf(result[w], kind \notin {"mark_completed", "mark_waiting"})
<1>1. t \in Tasks /\ pc[w] = "ended"
  BY AtWork DEF FinalizeTask, At
<1>2. IF Present(t) THEN From(w, "ended", "filed") ELSE From(w, "ended", "failing")
  BY <1>1 DEF FinalizeTask, Goto, From, TypeOK
<1>3. kind \in {"mark_cancelled", "mark_waiting", "record_failure", "mark_failed",
               "mark_completed"}
  BY DEF Finalization
<1>4. ASSUME NEW status \in TaskStatus, NEW error, File(t, status, error, outcome)
      PROVE  /\ \A u \in Tasks \ {t} : tasks'[u] = tasks[u]
             /\ ~Present(t) => tasks' = tasks
             /\ Present(t) => tasks'[t].status = status
  BY <1>1, <1>4, FileEffect
<1>5. {"cancelled", "waiting_user", "failed", "completed"} \subseteq TaskStatus
  BY DEF TaskStatus
<1>6. CASE kind = "mark_cancelled"
  <2>1. File(t, "cancelled", TRUE, outcome)
    BY <1>6 DEF FinalizeTask
  <2>2. QED
    BY <1>2, <1>4, <1>5, <2>1 DEF TerminalStatus
<1>7. CASE kind = "mark_waiting"
  <2>1. File(t, "waiting_user", FALSE, outcome)
    BY <1>7 DEF FinalizeTask
  <2>2. QED
    BY <1>2, <1>4, <1>5, <2>1
<1>8. CASE kind = "record_failure"
  <2>1. RecordFailure(t, outcome)
    BY <1>8 DEF FinalizeTask
  <2>2. QED
    BY <1>1, <1>2, <2>1, FailureEffect DEF TerminalStatus
<1>9. CASE kind = "mark_failed"
  <2>1. File(t, "failed", TRUE, outcome)
    BY <1>9 DEF FinalizeTask
  <2>2. QED
    BY <1>2, <1>4, <1>5, <2>1 DEF TerminalStatus
<1>10. CASE kind = "mark_completed"
  <2>1. File(t, "completed", FALSE, outcome)
    BY <1>10 DEF FinalizeTask
  <2>2. QED
    BY <1>2, <1>4, <1>5, <1>10, <2>1 DEF TerminalStatus
<1>11. QED
  BY <1>3, <1>6, <1>7, <1>8, <1>9, <1>10

(* What a step of a runner that is not a claim does to the tasks.           *)
Files(w, t) ==
  /\ t = Current(w) /\ t \in left[w] /\ Present(t)
  /\ \/ /\ From(w, "ended", "filed")
        /\ \/ tasks'[t].status \in TerminalStatus \cup {"waiting_user"}
           \/ setting.retries /\ tasks'[t].status = "pending"
        /\ tasks'[t].status = "completed" =>
             Finalization(result[w].reason) = "mark_completed"
     \/ /\ From(w, "failing", "sorry") \/ From(w, "failing", "next")
        /\ \/ tasks'[t].status = "failed"
           \/ setting.retries /\ tasks'[t].status = "pending"
     \/ From(w, "cancelling", "idle") /\ tasks'[t].status = "cancelled"

LEMMA RunnerFiles ==
  ASSUME TypeOK, NEW w \in Runners, RunnerStep(w), ~Claims(w), NEW t \in Tasks
  PROVE  Untouched(t) \/ Files(w, t)
<1>1. ASSUME tasks' = tasks
      PROVE  Untouched(t)
  BY <1>1 DEF Untouched
<1>2. CASE MarkAttempt(w)
  <2>1. CASE ~Present(Current(w))
    BY <1>1, <1>2, <2>1 DEF MarkAttempt
  <2>2. CASE Present(Current(w))
    <3>1. tasks' = [tasks EXCEPT ![Current(w)] = [tasks[Current(w)] EXCEPT !.attempts = @ + 1]]
      BY <1>2, <2>2, Zenon DEF MarkAttempt
    <3>2. tasks[t] \in Task
      BY DEF TypeOK
    <3>3. QED
      BY <2>2, <3>1, <3>2 DEF Untouched, Present, Task, TypeOK
  <2>3. QED
    BY <2>1, <2>2
<1>3. CASE FinalizeTask(w)
  <2>1. Current(w) \in left[w]
    BY <1>3, AtWork DEF FinalizeTask, At
  <2>2. QED
    BY <1>1, <1>3, <2>1, FinalizeEffect DEF Untouched, Files
<1>4. CASE RecordTaskFailure(w)
  <2>1. Current(w) \in left[w] /\ Current(w) \in Tasks /\ pc[w] = "failing"
    BY <1>4, AtWork DEF RecordTaskFailure, At
  <2>2. From(w, "failing", "sorry") \/ From(w, "failing", "next")
    BY <1>4, <2>1 DEF RecordTaskFailure, Raises, GoesOn, Goto, From, TypeOK
  <2>3. QED
    BY <1>1, <1>4, <2>1, <2>2, FailureEffect DEF RecordTaskFailure, Untouched, Files
<1>5. CASE RecordTaskCancelled(w)
  <2>1. Current(w) \in left[w] /\ Current(w) \in Tasks /\ pc[w] = "cancelling"
    BY <1>5, AtWork DEF RecordTaskCancelled, At
  <2>2. From(w, "cancelling", "idle")
    BY <1>5, <2>1 DEF RecordTaskCancelled, Aborts, Goto, From, TypeOK
  <2>3. File(Current(w), "cancelled", TRUE, Raised) /\ "cancelled" \in TaskStatus
    BY <1>5 DEF RecordTaskCancelled, TaskStatus
  <2>4. QED
    BY <1>1, <2>1, <2>2, <2>3, FileEffect DEF Untouched, Files
<1>6. QED
  BY <1>1, <1>2, <1>3, <1>4, <1>5 DEF RunnerStep, Advance, ClaimNothing, CreateRun,
     PrepareWorkspace, KernelReturns, KernelRaises, MergeWorkspace, ObserverReturns,
     NextTask, TaskCancelled, Crash

(* What a claim does.                                                      *)
Claimed(w, S) ==
  /\ From(w, "idle", "claimed") /\ left'[w] = S /\ mine'[w] = S
  /\ report'[w] = NoReport /\ LoopFree(w)
  /\ S # {} /\ \A t \in S : tasks[t].status = "pending" /\ tasks'[t].status = "running"
  /\ \A t \in Tasks \ S : tasks'[t] = tasks[t]

LEMMA ClaimEffect ==
  ASSUME TypeOK, NEW w \in Runners, Claims(w)
  PROVE  \E S \in SUBSET Tasks : Claimed(w, S)
<1>1. PICK S \in SUBSET Tasks, batch \in BOOLEAN : Claim(w, S, batch)
  BY DEF Claims
<1>2. \A t \in S : [tasks[t] EXCEPT !.status = "running"].status = "running"
  BY DEF TypeOK, Task
<1>3. QED
  BY <1>1, <1>2 DEF Claim, Claimable, Pending, Claimed, From, Goto, At, TypeOK

(* What the host does.                                                     *)
Hosted(t) ==
  /\ UNCHANGED <<pc, left, mine, handle, result, report, unmerged>>
  /\ \A u \in Tasks \ {t} : tasks'[u] = tasks[u]
  /\ HostFree
  /\ \/ /\ tasks[t].status = "absent" /\ tasks[t].attempts = 0
        /\ tasks'[t].status = "pending"
     \/ /\ tasks[t].status = "running"
        /\ tasks'[t].status = "absent" /\ tasks'[t].attempts # 0
     \/ /\ tasks[t].status = "running" /\ ~Held(t)
        /\ tasks'[t].status = "pending"

LEMMA HostEffect ==
  ASSUME TypeOK, NEW t \in Tasks, HostStep(t)
  PROVE  Hosted(t)
<1>1. tasks[t] \in Task /\ MaxAttempts \in Nat \ {0}
  BY SubagentConstants DEF TypeOK
<1>2. CASE HostCreates(t)
  BY <1>1, <1>2 DEF HostCreates, Hosted, runnerVars, Fresh, Task, TypeOK
<1>3. CASE HostRemoves(t)
  BY <1>1, <1>3 DEF HostRemoves, Hosted, runnerVars, Task, TypeOK
<1>4. CASE HostReclaims(t)
  BY <1>1, <1>4 DEF HostReclaims, Stale, Held, Hosted, runnerVars, Task, TypeOK
<1>5. QED
  BY <1>2, <1>3, <1>4 DEF HostStep

(* What a step does to the report of its runner.                            *)
Notes(w) ==
  report'[w] = [report[w] EXCEPT !.errors = report[w].errors \cup {Current(w)}]

Concludes(w) ==
  /\ pc[w] = "next" /\ left[w] = {} /\ pc'[w] = "idle"
  /\ report'[w] = Aggregate(mine[w], report[w].errors)

LEMMA RunnerReports ==
  ASSUME TypeOK, NEW w \in Runners, RunnerStep(w)
  PROVE  \/ report'[w] = report[w] /\ pc'[w] # "next" /\ (pc'[w] = "idle" => pc[w] = "idle")
         \/ report'[w] = report[w] /\ Drops(w) /\ pc[w] \in {"filed", "observing"}
         \/ Notes(w) /\ pc'[w] = "next"
         \/ report'[w] = NoReport /\ (Claims(w) \/ pc'[w] = "idle")
         \/ report'[w] = Aggregate({}, {}) /\ pc'[w] = "idle"
         \/ Concludes(w)
<1>1. CASE Claims(w) \/ ClaimNothing(w)
  BY <1>1 DEF Claims, Claim, ClaimNothing, At, TypeOK
<1>2. ASSUME NEW label \in Awaits \cup Steps, Goto(w, label), label \notin {"idle", "next"},
             UNCHANGED report
      PROVE  /\ report'[w] = report[w] /\ pc'[w] # "next"
             /\ pc'[w] = "idle" => pc[w] = "idle"
  BY <1>2 DEF Goto, TypeOK
<1>3. ASSUME Raises(w)
      PROVE  Notes(w) /\ pc'[w] = "next"
  <2>1. report' = [report EXCEPT ![w] =
          [report[w] EXCEPT !.errors = report[w].errors \cup {Current(w)}]]
    BY <1>3, Zenon DEF Raises
  <2>2. QED
    BY <1>3, <2>1 DEF Raises, GoesOn, Goto, Notes, TypeOK
<1>4. ASSUME Returns(w), pc[w] \in {"filed", "observing"}, UNCHANGED mine
      PROVE  report'[w] = report[w] /\ Drops(w) /\ pc[w] \in {"filed", "observing"}
  BY <1>4, GoesOnDrops DEF Returns
<1>5. ASSUME Aborts(w)
      PROVE  report'[w] = NoReport /\ pc'[w] = "idle"
  BY <1>5 DEF Aborts, Goto, TypeOK
<1>6. CASE MarkAttempt(w) \/ KernelReturns(w) \/ KernelRaises(w)
  BY <1>2, <1>6 DEF MarkAttempt, KernelReturns, KernelRaises, runnerVars, Awaits, Steps
<1>7. CASE CreateRun(w) \/ PrepareWorkspace(w)
  BY <1>2, <1>3, <1>7 DEF CreateRun, PrepareWorkspace, runnerVars, Awaits, Steps
<1>8. CASE FinalizeTask(w)
  BY <1>2, <1>8 DEF FinalizeTask, runnerVars, Awaits, Steps
<1>9. CASE MergeWorkspace(w) \/ RecordTaskFailure(w) \/ ObserverReturns(w)
  BY <1>2, <1>3, <1>4, <1>9 DEF MergeWorkspace, MergeFails, RecordTaskFailure,
     ObserverReturns, At, Awaits, Steps
<1>10. CASE TaskCancelled(w) \/ RecordTaskCancelled(w) \/ Crash(w)
  BY <1>2, <1>5, <1>10 DEF TaskCancelled, RecordTaskCancelled, Crash, runnerVars,
     Awaits, Steps
<1>11. CASE NextTask(w)
  <2>1. CASE left[w] # {}
    BY <1>2, <1>11, <2>1 DEF NextTask, Awaits, Steps
  <2>2. CASE left[w] = {}
    BY <1>11, <2>2 DEF NextTask, At, Goto, Concludes, TypeOK
  <2>3. QED
    BY <2>1, <2>2
<1>12. QED
  BY <1>1, <1>6, <1>7, <1>8, <1>9, <1>10, <1>11 DEF RunnerStep, Advance

-----------------------------------------------------------------------------
(* The invariant is inductive.                                             *)

LEMMA RestingStep ==
  ASSUME IInv, [Next]_vars
  PROVE  Resting'
<1>1. CASE UNCHANGED vars \/ \E t \in Tasks : HostStep(t)
  BY <1>1, HostEffect DEF vars, IInv, Resting, Hosted, HostStep, HostCreates,
     HostRemoves, HostReclaims, runnerVars
<1>2. ASSUME NEW w \in Runners, RunnerStep(w)
      PROVE  Resting'
  <2>1. ASSUME NEW v \in Runners, v # w
        PROVE  /\ pc'[v] = "idle" => mine'[v] = {} /\ left'[v] = {}
               /\ pc'[v] # "idle" => report'[v].status = "none"
    BY <1>2, <2>1, OthersStay DEF IInv, Resting
  <2>2. pc'[w] = "idle" => mine'[w] = {} /\ left'[w] = {}
    BY <1>2, RunnerMoves, ClaimEffect DEF IInv, Resting, Claimed, Proceeds, Stays, From,
       Drops, IsThrough
  <2>3. NoReport.status = "none"
    BY DEF NoReport
  <2>4. Notes(w) => report'[w].status = report[w].status
    BY DEF Notes, IInv, TypeOK, Report
  <2>5. pc'[w] # "idle" => report'[w].status = report[w].status \/ report'[w].status = "none"
    BY <1>2, <2>3, <2>4, RunnerReports DEF IInv, Concludes
  <2>6. pc'[w] # "idle" => pc[w] # "idle" \/ Claims(w)
    BY <1>2, RunnerMoves DEF IInv, Proceeds, From, Drops, IsThrough
  <2>7. Claims(w) => report'[w].status = "none"
    BY <2>3, ClaimEffect DEF IInv, Claimed
  <2>8. QED
    BY <2>1, <2>2, <2>5, <2>6, <2>7 DEF IInv, Resting
<1>3. QED
  BY <1>1, <1>2, Steppers

(* Where a handle comes from, and what is still to be merged.               *)
LEMMA HandleEffect ==
  ASSUME TypeOK, NEW w \in Runners, RunnerStep(w), pc'[w] \in {"kernel", "ended", "filed"}
  PROVE  \/ /\ From(w, "created", "kernel") /\ Stays(w)
            /\ handle'[w] = Isolates(Current(w))
         \/ /\ pc[w] \in {"kernel", "ended"} /\ Stays(w)
            /\ handle'[w] = handle[w]
<1>1. ASSUME NEW label, Goto(w, label)
      PROVE  pc'[w] = label
  BY <1>1 DEF Goto, TypeOK
<1>2. CASE PrepareWorkspace(w)
  BY <1>1, <1>2 DEF PrepareWorkspace, Raises, GoesOn, At, From, Stays, TypeOK
<1>3. CASE KernelReturns(w) \/ FinalizeTask(w)
  BY <1>1, <1>3 DEF KernelReturns, FinalizeTask, At, Stays, runnerVars
<1>4. CASE Claims(w) \/ MarkAttempt(w) \/ CreateRun(w) \/ KernelRaises(w) \/ NextTask(w)
  BY <1>1, <1>4 DEF Claims, Claim, MarkAttempt, CreateRun, KernelRaises, NextTask, Raises, GoesOn
<1>5. CASE MergeWorkspace(w) \/ RecordTaskFailure(w) \/ ObserverReturns(w)
  BY <1>1, <1>5 DEF MergeWorkspace, MergeFails, RecordTaskFailure, ObserverReturns, Returns,
     Raises, GoesOn
<1>6. CASE RecordTaskCancelled(w) \/ TaskCancelled(w) \/ Crash(w) \/ ClaimNothing(w)
  BY <1>1, <1>6 DEF RecordTaskCancelled, TaskCancelled, Crash, Aborts, ClaimNothing, At
<1>7. QED
  BY <1>2, <1>3, <1>4, <1>5, <1>6 DEF RunnerStep, Advance

LEMMA MergeEffect ==
  ASSUME TypeOK, NEW w \in Runners, RunnerStep(w)
  PROVE  \/ unmerged' = unmerged
         \/ /\ From(w, "ended", "filed") /\ Stays(w) /\ handle[w]
            /\ result'[w] = result[w] /\ Finalization(result[w].reason) = "mark_completed"
            /\ unmerged' = unmerged \cup {Current(w)}
         \/ pc[w] = "filed" /\ unmerged' = unmerged \ {Current(w)}
<1>1. CASE FinalizeTask(w)
  BY <1>1 DEF FinalizeTask, At, Goto, From, Stays, runnerVars, TypeOK
<1>2. CASE MergeWorkspace(w)
  BY <1>2 DEF MergeWorkspace, At
<1>3. QED
  BY <1>1, <1>2 DEF RunnerStep, Advance, Claims, Claim, ClaimNothing, MarkAttempt, CreateRun,
     PrepareWorkspace, KernelReturns, KernelRaises, RecordTaskFailure, ObserverReturns,
     RecordTaskCancelled, NextTask, TaskCancelled, Crash

LEMMA HandledStep ==
  ASSUME IInv, [Next]_vars
  PROVE  Handled'
<1> SUFFICES ASSUME ~UNCHANGED vars
             PROVE  Handled'
  BY DEF IInv, Handled, vars, Isolates, Current
<1>1. \A t : Isolates(t)' = Isolates(t)
  BY SettingStays DEF Isolates
<1>2. ASSUME NEW t \in Tasks, HostStep(t)
      PROVE  Handled'
  BY <1>1, <1>2, HostEffect DEF IInv, Hosted, Handled, Current
<1>3. ASSUME NEW w \in Runners, RunnerStep(w)
      PROVE  Handled'
  <2>1. ASSUME NEW v \in Runners \ {w}, pc'[v] \in {"kernel", "ended", "filed"}
        PROVE  handle'[v] = Isolates(Current(v))'
    BY <1>1, <1>3, <2>1, OthersStay DEF IInv, Handled, Isolates
  <2>2. ASSUME pc'[w] \in {"kernel", "ended", "filed"}
        PROVE  handle'[w] = Isolates(Current(w))'
    BY <1>1, <1>3, <2>2, HandleEffect DEF IInv, Handled, Stays, Current, Isolates
  <2>3. ASSUME NEW t \in unmerged'
        PROVE  Isolates(t)'
    BY <1>1, <1>3, <2>3, MergeEffect DEF IInv, Handled, From
  <2>4. QED
    BY <2>1, <2>2, <2>3 DEF Handled
<1>4. QED
  BY <1>2, <1>3, Steppers

LEMMA MergingStep ==
  ASSUME IInv, [Next]_vars
  PROVE  Merging'
<1>1. setting' = setting
  BY SettingStays
<1>2. \A r : Finalization(r)' = Finalization(r)
  BY <1>1 DEF Finalization, NeedsAttention
<1>3. SUFFICES ASSUME ~setting.crashes, NEW t \in unmerged', tasks'[t].status = "completed"
               PROVE  \E w \in Runners : Merges(w, t)'
  BY <1>1 DEF Merging
<1>4. TypeOK /\ Handled /\ TypeOK'
  BY TypeStep DEF IInv
<1>5. t \in Tasks
  BY <1>4 DEF TypeOK
<1>6. ASSUME t \in unmerged, tasks[t].status = "completed"
      PROVE  \E w \in Runners : Merges(w, t)
  BY <1>3, <1>6 DEF IInv, Merging
<1>7. CASE UNCHANGED vars
  BY <1>2, <1>3, <1>6, <1>7 DEF vars, Merges, Current
<1>8. CASE \E u \in Tasks : HostStep(u)
  <2>1. /\ UNCHANGED <<pc, left, result, unmerged>>
        /\ tasks'[t] = tasks[t]
    BY <1>3, <1>4, <1>5, <1>8, HostEffect DEF Hosted
  <2>2. QED
    BY <1>2, <1>3, <1>6, <2>1 DEF Merges, Current
<1>9. ASSUME NEW w \in Runners, RunnerStep(w)
      PROVE  \E v \in Runners : Merges(v, t)'
  <2>1. ASSUME NEW v \in Runners \ {w}, Merges(v, t)
        PROVE  Merges(v, t)'
    <3>1. pc'[v] = pc[v] /\ result'[v] = result[v] /\ Current(v)' = Current(v)
      BY <1>4, <1>9, OthersStay
    <3>2. QED
      BY <1>2, <2>1, <3>1 DEF Merges
  <2>2. CASE Claims(w)
    <3>1. pc[w] = "idle" /\ unmerged' = unmerged
      BY <2>2 DEF Claims, Claim, At
    <3>2. tasks[t].status = "completed"
      BY <1>3, <1>4, <1>5, <2>2, ClaimEffect DEF Claimed
    <3>3. QED
      BY <1>3, <1>6, <2>1, <3>1, <3>2 DEF Merges
  <2>3. CASE ~Claims(w) /\ Files(w, t)
    <3>1. From(w, "ended", "filed") /\ Finalization(result[w].reason) = "mark_completed"
          /\ t = Current(w)
      BY <1>3, <2>3 DEF Files
    <3>2. FinalizeTask(w)
      BY <1>3, <1>9, <3>1 DEF RunnerStep, Advance, Claims, Claim, ClaimNothing, MarkAttempt,
         CreateRun, PrepareWorkspace, KernelReturns, KernelRaises, MergeWorkspace,
         RecordTaskFailure, ObserverReturns, RecordTaskCancelled, NextTask, TaskCancelled,
         Crash, At, From
    <3>3. result' = result /\ left' = left
      BY <3>2 DEF FinalizeTask, runnerVars
    <3>4. QED
      BY <1>2, <3>1, <3>3 DEF Merges, From, Current
  <2>4. CASE ~Claims(w) /\ Untouched(t) /\ t \in unmerged
    <3>1. tasks[t].status = "completed"
      BY <1>3, <2>4 DEF Untouched
    <3>2. PICK v \in Runners : Merges(v, t)
      BY <1>6, <2>4, <3>1
    <3>3. CASE v # w
      BY <2>1, <3>2, <3>3
    <3>4. CASE v = w /\ pc[w] = "failing"
      <4>1. RecordTaskFailure(w)
        BY <1>3, <1>9, <3>4, <2>4 DEF RunnerStep, Advance, ClaimNothing, MarkAttempt,
           CreateRun, PrepareWorkspace, KernelReturns, KernelRaises, FinalizeTask,
           MergeWorkspace, ObserverReturns, RecordTaskCancelled, NextTask, TaskCancelled,
           Crash, At
      <4>2. t = Current(w) /\ RecordFailure(t, Raised) /\ Present(t)
        BY <3>1, <3>2, <3>4, <4>1 DEF Merges, RecordTaskFailure, Present
      <4>3. tasks'[t].status \in {"failed", "pending"}
        BY <1>4, <1>5, <4>2, FailureEffect
      <4>4. QED
        BY <1>3, <4>3
    <3>5. CASE v = w /\ pc[w] # "failing"
      <4>1. /\ pc[w] = "filed" /\ t = Current(w)
            /\ Finalization(result[w].reason) = "mark_completed"
        BY <3>2, <3>5 DEF Merges
      <4>2. MergeWorkspace(w)
        BY <1>3, <1>9, <2>4, <4>1 DEF RunnerStep, Advance, ClaimNothing, MarkAttempt,
           CreateRun, PrepareWorkspace, KernelReturns, KernelRaises, FinalizeTask,
           RecordTaskFailure, ObserverReturns, RecordTaskCancelled, NextTask, TaskCancelled,
           Crash, At
      <4>3. handle[w] = Isolates(t) /\ Isolates(t)
        BY <1>4, <2>4, <4>1 DEF Handled
      <4>4. ShouldMerge(result[w].reason)
        BY <4>1 DEF Finalization, ShouldMerge, NeedsAttention
      <4>5. MergeFails(w)
        BY <1>3, <4>1, <4>2, <4>3, <4>4 DEF MergeWorkspace
      <4>6. pc'[w] = "failing" /\ Current(w)' = Current(w)
        BY <1>4, <4>5 DEF MergeFails, Goto, TypeOK, Current
      <4>7. QED
        BY <4>1, <4>6 DEF Merges
    <3>6. QED
      BY <3>3, <3>4, <3>5
  <2>5. CASE t \notin unmerged
    <3>1. /\ From(w, "ended", "filed") /\ Stays(w) /\ result'[w] = result[w]
          /\ Finalization(result[w].reason) = "mark_completed" /\ t = Current(w)
      BY <1>3, <1>4, <1>9, <2>5, MergeEffect
    <3>2. QED
      BY <1>2, <3>1 DEF Merges, From, Stays, Current
  <2>6. QED
    BY <1>4, <1>5, <1>9, <2>2, <2>3, <2>4, <2>5, RunnerFiles
<1>10. QED
  BY <1>7, <1>8, <1>9, Steppers

(* A runner that does not claim gets hold of nothing.                       *)
LEMMA NothingTaken ==
  ASSUME TypeOK, Resting, [Next]_vars, NEW w \in Runners, RunnerStep(w), ~Claims(w), NEW t
  PROVE  /\ Holds(w, t)' => Holds(w, t)
         /\ Owns(w, t)' => Owns(w, t)
         /\ Keeps(w, t)' => Keeps(w, t)
         /\ Open(w, t)' => Open(w, t)
<1>1. setting' = setting
  BY SettingStays
<1>2. CASE Proceeds(w)
  BY <1>1, <1>2 DEF Proceeds, Stays, From, Holds, Owns, Keeps, Open, Current
<1>3. CASE Drops(w)
  BY <1>1, <1>3 DEF Drops, Holds, Owns, Keeps, Open, Current
<1>4. CASE IsThrough(w)
  BY <1>4 DEF IsThrough, Holds, Owns, Keeps, Open
<1>5. QED
  BY <1>2, <1>3, <1>4, RunnerMoves

LEMMA OthersKeep ==
  ASSUME TypeOK, [Next]_vars, NEW w \in Runners, RunnerStep(w), NEW v \in Runners \ {w}, NEW t
  PROVE  /\ Holds(v, t)' = Holds(v, t) /\ Owns(v, t)' = Owns(v, t)
         /\ Keeps(v, t)' = Keeps(v, t) /\ Open(v, t)' = Open(v, t)
<1>1. setting' = setting
  BY SettingStays
<1>2. pc'[v] = pc[v] /\ left'[v] = left[v] /\ Current(v)' = Current(v)
  BY OthersStay
<1>3. QED
  BY <1>1, <1>2 DEF Holds, Owns, Keeps, Open

(* The host takes nothing from the runners.                                 *)
LEMMA HostKeeps ==
  ASSUME TypeOK, [Next]_vars, NEW u \in Tasks, HostStep(u) , NEW v \in Runners, NEW t
  PROVE  /\ Holds(v, t)' = Holds(v, t) /\ Owns(v, t)' = Owns(v, t)
         /\ Keeps(v, t)' = Keeps(v, t) /\ Open(v, t)' = Open(v, t)
<1>1. setting' = setting
  BY SettingStays
<1>2. pc' = pc /\ left' = left
  BY HostEffect DEF Hosted
<1>3. QED
  BY <1>1, <1>2 DEF Holds, Owns, Keeps, Open, Current

LEMMA StutterKeeps ==
  ASSUME IInv, UNCHANGED vars
  PROVE  SoleOwner' /\ OwnedKept' /\ OpenRunning' /\ FiledCurrent' /\ Dealt' /\ Reported'
<1>1. /\ Together' = Together /\ setting' = setting /\ tasks' = tasks
      /\ \A w, t : /\ Owns(w, t)' = Owns(w, t) /\ Keeps(w, t)' = Keeps(w, t)
                   /\ Open(w, t)' = Open(w, t) /\ Current(w)' = Current(w)
      /\ \A t : Kept(t)' = Kept(t) /\ Filed(t)' = Filed(t) /\ Held(t)' = Held(t)
  BY DEF vars, Together, Owns, Keeps, Open, Kept, Filed, Held, Holds, Current
<1>2. SoleOwner' /\ OwnedKept' /\ OpenRunning'
  BY <1>1 DEF IInv, SoleOwner, OwnedKept, OpenRunning
<1>3. FiledCurrent' /\ Dealt'
  BY <1>1 DEF IInv, FiledCurrent, Dealt, vars
<1>4. \A S : Aggregate(S, {})' = Aggregate(S, {})
  BY <1>1 DEF Aggregate, AggregateStatus, AggregateValidation, ChildError
<1>5. Reported'
  BY <1>1, <1>4 DEF IInv, Reported, vars
<1>6. QED
  BY <1>2, <1>3, <1>5

LEMMA SoleOwnerStep ==
  ASSUME IInv, [Next]_vars
  PROVE  SoleOwner'
<1>1. /\ TypeOK /\ Resting /\ SoleOwner /\ OwnedKept
      /\ setting' = setting
  BY SettingStays DEF IInv
<1>2. SUFFICES ASSUME Together, NEW t \in Tasks, NEW x \in Runners, NEW y \in Runners,
                      Owns(x, t)', Owns(y, t)'
               PROVE  x = y
  BY <1>1 DEF SoleOwner, Together
<1>3. CASE UNCHANGED vars
  BY <1>2, <1>3, StutterKeeps DEF SoleOwner, Together, vars
<1>4. CASE \E u \in Tasks : HostStep(u)
  BY <1>1, <1>2, <1>4, HostKeeps DEF SoleOwner
<1>5. ASSUME NEW w \in Runners, RunnerStep(w)
      PROVE  x = y
  <2>1. CASE ~Claims(w)
    <3>1. Owns(x, t) /\ Owns(y, t)
      BY <1>1, <1>2, <1>5, <2>1, NothingTaken, OthersKeep
    <3>2. QED
      BY <1>1, <1>2, <3>1 DEF SoleOwner
  <2>2. CASE Claims(w)
    <3>1. PICK S \in SUBSET Tasks : Claimed(w, S)
      BY <1>1, <2>2, ClaimEffect
    <3>2. ASSUME NEW v \in Runners, v # w, Owns(v, t)
          PROVE  t \notin S
      <4>1. CASE Keeps(v, t)
        BY <1>1, <1>2, <3>1, <4>1 DEF OwnedKept, Kept, Claimed
      <4>2. CASE ~Keeps(v, t)
        BY <1>2, <3>1, <3>2, <4>2 DEF Keeps, Together, Claimed, LoopFree, Awaits
      <4>3. QED
        BY <4>1, <4>2
    <3>3. ASSUME Owns(w, t)'
          PROVE  t \in S
      BY <3>1, <3>3 DEF Owns, Holds, Claimed
    <3>4. ASSUME NEW v \in Runners, v # w, Owns(v, t)'
          PROVE  Owns(v, t)
      BY <1>1, <1>5, <3>4, OthersKeep
    <3>5. QED
      BY <1>1, <1>2, <3>2, <3>3, <3>4 DEF SoleOwner
  <2>3. QED
    BY <2>1, <2>2
<1>6. QED
  BY <1>3, <1>4, <1>5, Steppers

(* The host takes no kept task back, and nothing that is filed.             *)
LEMMA OwnedKeptStep ==
  ASSUME IInv, [Next]_vars
  PROVE  OwnedKept'
<1>1. /\ TypeOK /\ Resting /\ SoleOwner /\ OwnedKept
      /\ setting' = setting
  BY SettingStays DEF IInv
<1>2. SUFFICES ASSUME Together, NEW t \in Tasks, NEW x \in Runners, Keeps(x, t)'
               PROVE  Kept(t)'
  BY <1>1 DEF OwnedKept, Together
<1>3. CASE UNCHANGED vars
  BY <1>1, <1>2, <1>3, StutterKeeps DEF OwnedKept, Together
<1>4. ASSUME NEW u \in Tasks, HostStep(u)
      PROVE  Kept(t)'
  <2>1. Keeps(x, t) /\ Kept(t) /\ Held(t)
    BY <1>1, <1>2, <1>4, HostKeeps DEF OwnedKept, Keeps, Owns, Held
  <2>2. Hosted(u)
    BY <1>1, <1>4, HostEffect
  <2>3. QED
    BY <2>1, <2>2 DEF Hosted, Kept
<1>5. ASSUME NEW w \in Runners, RunnerStep(w), ~Claims(w)
      PROVE  Kept(t)'
  <2>1. Keeps(x, t) /\ Kept(t)
    BY <1>1, <1>2, <1>5, NothingTaken, OthersKeep DEF OwnedKept
  <2>2. CASE Untouched(t)
    BY <2>1, <2>2 DEF Kept, Untouched
  <2>3. CASE Files(w, t)
    <3>1. CASE setting.retries /\ tasks'[t].status = "pending"
      <4>1. ~From(w, "cancelling", "idle")
        BY <2>3, <3>1 DEF Files, From
      <4>2. Owns(w, t)
        BY <2>3, <4>1 DEF Files, Owns, Holds, From
      <4>3. x = w
        BY <1>1, <1>2, <2>1, <4>2 DEF SoleOwner, Keeps
      <4>4. CASE From(w, "failing", "next")
        BY <1>1, <1>2, <1>5, <2>3, <4>3, <4>4, RunnerMoves
           DEF Keeps, Owns, Holds, Files, From, Proceeds, Drops, IsThrough
      <4>5. CASE From(w, "ended", "filed") \/ From(w, "failing", "sorry")
        <5>1. left'[w] = left[w]
          BY <1>1, <1>5, <4>5, RunnerMoves DEF From, Proceeds, Stays, Drops, IsThrough
        <5>2. Current(w)' = t
          BY <2>3, <5>1 DEF Current, Files
        <5>3. QED
          BY <1>1, <1>2, <3>1, <4>3, <4>5, <5>2 DEF Keeps, Owns, From
      <4>6. QED
        BY <2>3, <4>1, <4>4, <4>5 DEF Files
    <3>2. CASE ~(setting.retries /\ tasks'[t].status = "pending")
      BY <2>3, <3>2 DEF Files, Kept, TerminalStatus
    <3>3. QED
      BY <3>1, <3>2
  <2>4. QED
    BY <1>1, <1>5, <2>2, <2>3, RunnerFiles
<1>6. ASSUME NEW w \in Runners, Claims(w), RunnerStep(w)
      PROVE  Kept(t)'
  <2>1. PICK S \in SUBSET Tasks : Claimed(w, S)
    BY <1>1, <1>6, ClaimEffect
  <2>2. CASE t \in S
    BY <2>1, <2>2 DEF Claimed, Kept
  <2>3. CASE t \notin S
    <3>1. x # w
      BY <1>2, <2>1, <2>3 DEF Keeps, Owns, Holds, Claimed
    <3>2. Kept(t)
      BY <1>1, <1>2, <1>6, <3>1, OthersKeep DEF OwnedKept
    <3>3. QED
      BY <2>1, <2>3, <3>2 DEF Claimed, Kept
  <2>4. QED
    BY <2>2, <2>3
<1>7. QED
  BY <1>3, <1>4, <1>5, <1>6, Steppers DEF RunnerStep

LEMMA OpenRunningStep ==
  ASSUME IInv, [Next]_vars
  PROVE  OpenRunning'
<1>1. /\ TypeOK /\ Resting /\ SoleOwner /\ OwnedKept /\ OpenRunning
      /\ setting' = setting
  BY SettingStays DEF IInv
<1>2. SUFFICES ASSUME ~setting.retries, NEW t \in Tasks, NEW x \in Runners, Open(x, t)'
               PROVE  tasks'[t].status \in {"running", "absent"}
  BY <1>1 DEF OpenRunning
<1>3. CASE UNCHANGED vars
  BY <1>1, <1>2, <1>3, StutterKeeps DEF OpenRunning
<1>4. ASSUME Open(x, t)
      PROVE  /\ tasks[t].status \in {"running", "absent"}
             /\ Kept(t) /\ Held(t)
  BY <1>1, <1>2, <1>4 DEF OpenRunning, OwnedKept, Together, Open, Keeps, Owns, Held
<1>5. ASSUME NEW u \in Tasks, HostStep(u)
      PROVE  tasks'[t].status \in {"running", "absent"}
  <2>1. Open(x, t)
    BY <1>1, <1>2, <1>5, HostKeeps
  <2>2. Hosted(u)
    BY <1>1, <1>5, HostEffect
  <2>3. QED
    BY <1>4, <2>1, <2>2 DEF Hosted, Kept
<1>6. ASSUME NEW w \in Runners, RunnerStep(w), ~Claims(w)
      PROVE  tasks'[t].status \in {"running", "absent"}
  <2>1. Open(x, t)
    BY <1>1, <1>2, <1>6, NothingTaken, OthersKeep
  <2>2. CASE Untouched(t)
    BY <1>4, <2>1, <2>2 DEF Untouched
  <2>3. CASE Files(w, t)
    <3>1. Owns(w, t) /\ Owns(x, t)
      BY <1>2, <2>1, <2>3 DEF Files, Owns, Holds, From, Open
    <3>2. x = w
      BY <1>1, <1>2, <3>1 DEF SoleOwner, Together
    <3>3. CASE From(w, "ended", "filed") \/ From(w, "failing", "sorry")
      <4>1. left'[w] = left[w]
        BY <1>1, <1>6, <3>3, RunnerMoves DEF From, Proceeds, Stays, Drops, IsThrough
      <4>2. Current(w)' = t
        BY <2>3, <4>1 DEF Current, Files
      <4>3. QED
        BY <1>2, <3>2, <3>3, <4>2 DEF Open, From
    <3>4. CASE From(w, "failing", "next")
      BY <1>1, <1>2, <1>6, <2>3, <3>2, <3>4, RunnerMoves
         DEF Open, Holds, Files, From, Proceeds, Drops, IsThrough
    <3>5. CASE From(w, "cancelling", "idle")
      BY <1>2, <3>2, <3>5 DEF Open, Holds, From
    <3>6. QED
      BY <2>3, <3>3, <3>4, <3>5 DEF Files
  <2>4. QED
    BY <1>1, <1>6, <2>2, <2>3, RunnerFiles
<1>7. ASSUME NEW w \in Runners, Claims(w), RunnerStep(w)
      PROVE  tasks'[t].status \in {"running", "absent"}
  <2>1. PICK S \in SUBSET Tasks : Claimed(w, S)
    BY <1>1, <1>7, ClaimEffect
  <2>2. CASE t \in S
    BY <2>1, <2>2 DEF Claimed
  <2>3. CASE t \notin S
    <3>1. x # w
      BY <1>2, <2>1, <2>3 DEF Open, Holds, Claimed
    <3>2. Open(x, t)
      BY <1>1, <1>2, <1>7, <3>1, OthersKeep
    <3>3. QED
      BY <1>4, <2>1, <2>3, <3>2 DEF Claimed
  <2>4. QED
    BY <2>2, <2>3
<1>8. QED
  BY <1>3, <1>5, <1>6, <1>7, Steppers DEF RunnerStep

(* A runner that files a task files it as ended, unless the port retries.   *)
LEMMA FilingFiles ==
  ASSUME TypeOK, ~setting.retries, NEW w \in Runners, RunnerStep(w), From(w, "ended", "filed")
  PROVE  Filed(Current(w))'
<1>1. FinalizeTask(w)
  <2>1. ~Crash(w)
    BY DEF Crash, Aborts, Goto, From, TypeOK
  <2>2. QED
    BY <2>1 DEF RunnerStep, Advance, Claims, Claim, ClaimNothing, MarkAttempt, CreateRun,
       PrepareWorkspace, KernelReturns, KernelRaises, MergeWorkspace, RecordTaskFailure,
       ObserverReturns, RecordTaskCancelled, NextTask, TaskCancelled, At, From
<1>2. Current(w)' = Current(w)
  BY <1>1 DEF FinalizeTask, runnerVars, Current
<1>3. Present(Current(w))
  BY <1>1, FinalizeEffect DEF From
<1>4. QED
  BY <1>1, <1>2, <1>3, FinalizeEffect DEF Filed

LEMMA FiledCurrentStep ==
  ASSUME IInv, [Next]_vars
  PROVE  FiledCurrent'
<1>1. /\ TypeOK /\ Resting /\ SoleOwner /\ FiledCurrent
      /\ setting' = setting
  BY SettingStays DEF IInv
<1>2. SUFFICES ASSUME ~setting.retries, NEW x \in Runners, pc'[x] \in {"filed", "observing"}
               PROVE  Filed(Current(x))'
  BY <1>1 DEF FiledCurrent
<1>3. CASE UNCHANGED vars
  BY <1>1, <1>2, <1>3, StutterKeeps DEF FiledCurrent
<1>4. ASSUME pc[x] \in {"filed", "observing"}
      PROVE  /\ Current(x) \in Tasks /\ Filed(Current(x)) /\ Owns(x, Current(x))
  BY <1>1, <1>2, <1>4, AtWork DEF FiledCurrent, Owns, Holds
<1>5. ASSUME NEW u \in Tasks, HostStep(u)
      PROVE  Filed(Current(x))'
  <2>1. pc[x] \in {"filed", "observing"} /\ Hosted(u) /\ Current(x)' = Current(x)
    BY <1>1, <1>2, <1>5, HostEffect DEF Hosted, Current
  <2>2. QED
    BY <1>4, <2>1 DEF Hosted, Filed, TerminalStatus
<1>6. ASSUME NEW w \in Runners, RunnerStep(w), x # w
      PROVE  Filed(Current(x))'
  <2>1. pc[x] \in {"filed", "observing"} /\ Current(x)' = Current(x)
    BY <1>1, <1>2, <1>6, OthersStay
  <2>2. CASE Claims(w)
    BY <1>1, <1>4, <2>1, <2>2, ClaimEffect DEF Claimed, Filed, TerminalStatus
  <2>3. CASE ~Claims(w) /\ Untouched(Current(x))
    BY <1>4, <2>1, <2>3 DEF Untouched, Filed
  <2>4. CASE Files(w, Current(x))
    <3>1. Owns(w, Current(x))
      BY <1>2, <2>4 DEF Files, Owns, Holds, From
    <3>2. QED
      BY <1>1, <1>2, <1>4, <1>6, <2>1, <3>1 DEF SoleOwner, Together
  <2>5. QED
    BY <1>1, <1>4, <1>6, <2>1, <2>2, <2>3, <2>4, RunnerFiles
<1>7. ASSUME RunnerStep(x)
      PROVE  Filed(Current(x))'
  <2>1. ~Claims(x)
    BY <1>1, <1>2, ClaimEffect DEF Claimed, From
  <2>2. CASE From(x, "ended", "filed")
    BY <1>1, <1>2, <1>7, <2>2, FilingFiles
  <2>3. CASE ~From(x, "ended", "filed")
    <3>1. From(x, "filed", "observing") /\ Stays(x)
      BY <1>1, <1>2, <1>7, <2>1, <2>3, RunnerMoves DEF From, Proceeds, Drops, IsThrough
    <3>2. Untouched(Current(x))
      BY <1>1, <1>4, <1>7, <2>1, <3>1, RunnerFiles DEF Files, From
    <3>3. QED
      BY <1>4, <3>1, <3>2 DEF Untouched, Filed, Stays, Current, From
  <2>4. QED
    BY <2>2, <2>3
<1>8. QED
  BY <1>3, <1>5, <1>6, <1>7, Steppers

(* What is filed and let go of is left alone.                               *)
LEMMA LetGo ==
  ASSUME TypeOK, NEW w \in Runners, RunnerStep(w), ~Claims(w), NEW t \in Tasks, t \notin left[w]
  PROVE  tasks'[t] = tasks[t]
<1>1. CASE pc[w] \in {"idle", "next"}
  BY <1>1 DEF RunnerStep, Advance, ClaimNothing, MarkAttempt, CreateRun,
     PrepareWorkspace, KernelReturns, KernelRaises, FinalizeTask, MergeWorkspace,
     RecordTaskFailure, ObserverReturns, RecordTaskCancelled, NextTask, TaskCancelled,
     Crash, At
<1>2. CASE pc[w] \notin {"idle", "next"}
  <2>1. t # Current(w) /\ Current(w) \in Tasks
    BY <1>2, AtWork
  <2>2. CASE MarkAttempt(w)
    BY <2>1, <2>2 DEF MarkAttempt, TypeOK
  <2>3. CASE FinalizeTask(w) \/ RecordTaskFailure(w)
    BY <2>1, <2>3, FinalizeEffect, FailureEffect DEF RecordTaskFailure
  <2>4. CASE RecordTaskCancelled(w)
    <3>1. File(Current(w), "cancelled", TRUE, Raised) /\ "cancelled" \in TaskStatus
      BY <2>4 DEF RecordTaskCancelled, TaskStatus
    <3>2. QED
      BY <2>1, <3>1, FileEffect
  <2>5. QED
    BY <2>2, <2>3, <2>4 DEF RunnerStep, Advance, ClaimNothing, CreateRun,
     PrepareWorkspace, KernelReturns, KernelRaises, MergeWorkspace, ObserverReturns,
     NextTask, TaskCancelled, Crash
<1>3. QED
  BY <1>1, <1>2

LEMMA SettledStep ==
  ASSUME TypeOK, Resting, [Next]_vars, NEW t \in Tasks, Filed(t), ~Held(t)
  PROVE  Filed(t)' /\ ~Held(t)' /\ tasks'[t] = tasks[t]
<1>1. CASE UNCHANGED vars
  BY <1>1 DEF vars, Filed, Held, Holds
<1>2. ASSUME NEW u \in Tasks, HostStep(u)
      PROVE  Filed(t)' /\ ~Held(t)' /\ tasks'[t] = tasks[t]
  BY <1>2, HostEffect DEF Hosted, Filed, Held, Holds, TerminalStatus
<1>3. ASSUME NEW w \in Runners, RunnerStep(w)
      PROVE  Filed(t)' /\ ~Held(t)' /\ tasks'[t] = tasks[t]
  <2>1. CASE Claims(w)
    <3>1. PICK S \in SUBSET Tasks : Claimed(w, S)
      BY <2>1, ClaimEffect
    <3>2. t \notin S
      BY <3>1 DEF Claimed, Filed, TerminalStatus
    <3>3. ~Holds(w, t)'
      BY <3>1, <3>2 DEF Claimed, Holds
    <3>4. QED
      BY <1>3, <3>1, <3>2, <3>3, OthersKeep DEF Claimed, Filed, Held
  <2>2. CASE ~Claims(w)
    <3>1. ~Held(t)'
      BY <1>3, <2>2, OthersKeep, NothingTaken DEF Held
    <3>2. t \notin left[w]
      BY DEF Held, Holds, Resting
    <3>3. tasks'[t] = tasks[t]
      BY <1>3, <2>2, <3>2, LetGo
    <3>4. QED
      BY <3>1, <3>3 DEF Filed
  <2>3. QED
    BY <2>1, <2>2
<1>4. QED
  BY <1>1, <1>2, <1>3, Steppers

LEMMA DealtStep ==
  ASSUME IInv, [Next]_vars
  PROVE  Dealt'
<1>1. /\ TypeOK /\ Resting /\ SoleOwner /\ FiledCurrent /\ Dealt
      /\ setting' = setting
  BY SettingStays DEF IInv
<1> DEFINE Good(x, t) == t \in report[x].errors \/ (Filed(t) /\ ~Held(t))
<1>2. SUFFICES ASSUME ~setting.retries, NEW x \in Runners, NEW t \in mine'[x] \ left'[x]
               PROVE  Good(x, t)'
  BY <1>1 DEF Dealt
<1>3. CASE UNCHANGED vars
  BY <1>1, <1>2, <1>3, StutterKeeps DEF Dealt
<1>4. ASSUME t \in mine[x] \ left[x], report[x].errors \subseteq report'[x].errors
      PROVE  Good(x, t)'
  <2>1. t \in Tasks /\ Good(x, t)
    BY <1>1, <1>2, <1>4 DEF Dealt, TypeOK
  <2>2. CASE t \in report[x].errors
    BY <1>4, <2>2
  <2>3. CASE Filed(t) /\ ~Held(t)
    BY <1>1, <2>1, <2>3, SettledStep
  <2>4. QED
    BY <2>1, <2>2, <2>3
<1>5. CASE \E u \in Tasks : HostStep(u)
  BY <1>1, <1>2, <1>4, <1>5, HostEffect DEF Hosted
<1>6. ASSUME NEW w \in Runners, RunnerStep(w), x # w
      PROVE  Good(x, t)'
  BY <1>1, <1>2, <1>4, <1>6, OthersStay
<1>7. ASSUME RunnerStep(x)
      PROVE  Good(x, t)'
  <2>1. CASE Claims(x)
    BY <1>1, <1>2, <2>1, ClaimEffect DEF Claimed
  <2>2. CASE IsThrough(x)
    BY <1>2, <2>2 DEF IsThrough
  <2>3. CASE ~Claims(x) /\ Proceeds(x)
    <3>1. pc[x] # "idle" /\ pc'[x] \notin {"idle", "next"}
      BY <1>1, <1>2, <2>3 DEF Resting, Proceeds, Stays, From
    <3>2. report'[x] = report[x]
      BY <1>1, <1>7, <2>3, <3>1, RunnerReports DEF Concludes
    <3>3. QED
      BY <1>2, <1>4, <2>3, <3>2 DEF Proceeds, Stays
  <2>4. CASE ~Claims(x) /\ Drops(x)
    <3>1. /\ pc'[x] = "next" /\ pc[x] \notin {"idle", "next"}
          /\ mine'[x] = mine[x] /\ left'[x] = left[x] \ {Current(x)}
      BY <2>4 DEF Drops
    <3>2. Current(x) \in left[x] /\ Current(x) \in Tasks
      BY <1>1, <3>1, AtWork
    <3>3. Notes(x) \/ (report'[x] = report[x] /\ pc[x] \in {"filed", "observing"})
      BY <1>1, <1>7, <2>4, <3>1, RunnerReports DEF Concludes
    <3>4. report[x] \in Report
      BY <1>1 DEF TypeOK
    <3>5. report[x].errors \subseteq report'[x].errors
      BY <3>3, <3>4 DEF Notes, Report
    <3>6. CASE t # Current(x)
      BY <1>2, <1>4, <3>1, <3>5, <3>6
    <3>7. CASE t = Current(x) /\ Notes(x)
      BY <3>4, <3>7 DEF Notes, Report
    <3>8. CASE t = Current(x) /\ pc[x] \in {"filed", "observing"}
      <4>1. Untouched(t)
        BY <1>1, <1>7, <2>4, <3>2, <3>8, RunnerFiles DEF Files, From
      <4>2. Filed(t)'
        BY <1>1, <1>2, <3>8, <4>1 DEF FiledCurrent, Filed, Untouched
      <4>3. ~Holds(x, t)'
        BY <3>1, <3>8 DEF Holds
      <4>4. ASSUME NEW v \in Runners, v # x
            PROVE  ~Holds(v, t)'
        <5>1. Owns(x, t)
          BY <1>2, <3>2, <3>8 DEF Owns, Holds
        <5>2. ~Holds(v, t)
          BY <1>1, <1>2, <3>2, <3>8, <4>4, <5>1 DEF SoleOwner, Together, Owns
        <5>3. QED
          BY <1>1, <1>7, <4>4, <5>2, OthersKeep
      <4>5. QED
        BY <4>2, <4>3, <4>4 DEF Held
    <3>9. QED
      BY <3>3, <3>6, <3>7, <3>8
  <2>5. QED
    BY <1>1, <1>7, <2>1, <2>2, <2>3, <2>4, RunnerMoves
<1>8. QED
  BY <1>3, <1>5, <1>6, <1>7, Steppers

(* An aggregate is a function of its tasks' records.                        *)
LEMMA AggregateKept ==
  ASSUME NEW S, \A t \in S : tasks'[t] = tasks[t]
  PROVE  Aggregate(S, {})' = Aggregate(S, {})
<1>1. AggregateStatus(S)' = AggregateStatus(S)
  BY DEF AggregateStatus, ChildError
<1>2. {tasks'[t].outcome.validation : t \in S} = {tasks[t].outcome.validation : t \in S}
  OBVIOUS
<1>3. AggregateValidation(S)' = AggregateValidation(S)
  BY <1>2 DEF AggregateValidation
<1>4. QED
  BY <1>1, <1>3 DEF Aggregate

LEMMA ReportedStep ==
  ASSUME IInv, [Next]_vars
  PROVE  Reported'
<1>1. /\ TypeOK /\ Resting /\ Dealt /\ Reported
      /\ setting' = setting
  BY SettingStays DEF IInv
<1>2. SUFFICES ASSUME ~setting.retries, NEW x \in Runners,
                      report'[x].status = "completed", report'[x].errors = {}
               PROVE  /\ Aggregate(report[x].tasks, {})' = report'[x]
                      /\ \A t \in report'[x].tasks : Filed(t)' /\ ~Held(t)'
  BY <1>1 DEF Reported
<1>3. CASE UNCHANGED vars
  BY <1>1, <1>2, <1>3, StutterKeeps DEF Reported
<1>4. ASSUME NEW S \in SUBSET Tasks, Aggregate(S, {}) = report'[x], report'[x].tasks = S,
             \A t \in S : Filed(t) /\ ~Held(t)
      PROVE  /\ Aggregate(report[x].tasks, {})' = report'[x]
             /\ \A t \in report'[x].tasks : Filed(t)' /\ ~Held(t)'
  <2>1. \A t \in S : Filed(t)' /\ ~Held(t)' /\ tasks'[t] = tasks[t]
    BY <1>1, <1>4, SettledStep
  <2>2. Aggregate(S, {})' = Aggregate(S, {})
    BY <2>1, AggregateKept
  <2>3. QED
    BY <1>4, <2>1, <2>2
<1>5. CASE report'[x] = report[x]
  <2>1. report[x].tasks \in SUBSET Tasks
    BY <1>1 DEF TypeOK, Report
  <2>2. QED
    BY <1>1, <1>2, <1>4, <1>5, <2>1 DEF Reported
<1>6. CASE \E u \in Tasks : HostStep(u)
  BY <1>1, <1>5, <1>6, HostEffect DEF Hosted
<1>7. ASSUME NEW w \in Runners, RunnerStep(w), x # w
      PROVE  report'[x] = report[x]
  BY <1>1, <1>7, OthersStay
<1>8. ASSUME RunnerStep(x), report'[x] # report[x]
      PROVE  /\ Aggregate(report[x].tasks, {})' = report'[x]
             /\ \A t \in report'[x].tasks : Filed(t)' /\ ~Held(t)'
  <2>1. report'[x] # NoReport
    BY <1>2 DEF NoReport
  <2>2. report'[x] # Aggregate({}, {})
    BY <1>2 DEF Aggregate, AggregateStatus
  <2>3. ~Notes(x)
    <3>1. report[x] \in Report
      BY <1>1 DEF TypeOK
    <3>2. Notes(x) => Current(x) \in report'[x].errors
      BY <3>1 DEF Notes, Report
    <3>3. QED
      BY <1>2, <3>2
  <2>4. Concludes(x)
    BY <1>1, <1>8, <2>1, <2>2, <2>3, RunnerReports
  <2>5. report[x].errors = {} /\ report'[x].tasks = mine[x]
    BY <1>2, <2>4 DEF Concludes, Aggregate
  <2>6. \A t \in mine[x] : Filed(t) /\ ~Held(t)
    BY <1>1, <1>2, <2>4, <2>5 DEF Dealt, Concludes
  <2>7. mine[x] \in SUBSET Tasks
    BY <1>1 DEF TypeOK
  <2>8. QED
    BY <1>4, <2>4, <2>5, <2>6, <2>7 DEF Concludes
<1>9. QED
  BY <1>3, <1>5, <1>6, <1>7, <1>8, Steppers

LEMMA InvStarts ==
  ASSUME Init
  PROVE  IInv
<1>1. Fresh \in Task /\ NoReport \in Report
  BY StartTypes
<1>2. TypeOK
  BY <1>1, SubagentConstants DEF Init, TypeOK, Awaits
<1>3. \A w \in Runners : pc[w] = "idle" /\ mine[w] = {} /\ left[w] = {} /\ report[w] = NoReport
  BY DEF Init
<1>4. Resting /\ Handled /\ Merging
  BY <1>3 DEF Init, Resting, Handled, Merging
<1>5. SoleOwner /\ OwnedKept /\ OpenRunning /\ FiledCurrent
  BY <1>3 DEF SoleOwner, OwnedKept, OpenRunning, FiledCurrent, Keeps, Open, Owns, Holds
<1>6. Dealt /\ Reported
  BY <1>3 DEF Dealt, Reported, NoReport
<1>7. QED
  BY <1>2, <1>4, <1>5, <1>6 DEF IInv

LEMMA InvStep ==
  ASSUME IInv, [Next]_vars
  PROVE  IInv'
<1>1. TypeOK'
  BY TypeStep DEF IInv
<1>2. Resting' /\ Handled' /\ Merging' /\ SoleOwner' /\ OwnedKept'
  BY RestingStep, HandledStep, MergingStep, SoleOwnerStep, OwnedKeptStep
<1>3. OpenRunning' /\ FiledCurrent' /\ Dealt' /\ Reported'
  BY OpenRunningStep, FiledCurrentStep, DealtStep, ReportedStep
<1>4. QED
  BY <1>1, <1>2, <1>3 DEF IInv

LEMMA InvHolds == Spec => []IInv
BY InvStarts, InvStep, PTL DEF Spec

-----------------------------------------------------------------------------
(* The places and records of the runners are always those the code can have *)
(* (run_claimed_task, run_batch).                                           *)
THEOREM SubagentTypesHold == Spec => []TypeOK
<1>1. IInv => TypeOK
  BY DEF IInv
<1>2. QED
  BY <1>1, InvHolds, PTL

(* A task is executed by one runner at a time: the claims, retries, aborts  *)
(* and reclaims of run_next and run_batch never let a second one in.        *)
THEOREM TasksRunOnce == Spec => []OneExecution
<1>1. IInv => OneExecution
  <2>1. SUFFICES ASSUME IInv, Together, NEW t \in Tasks, NEW v \in Runners, NEW w \in Runners,
                        Executes(v, t), Executes(w, t)
                 PROVE  v = w
    BY DEF OneExecution, Together
  <2>2. ASSUME NEW x \in Runners, Executes(x, t)
        PROVE  Owns(x, t)
    BY <2>1, <2>2, AtWork DEF IInv, Executes, Owns, Holds
  <2>3. QED
    BY <2>1, <2>2 DEF IInv, SoleOwner
<1>2. QED
  BY <1>1, InvHolds, PTL

(* The changes of a completed task are merged, or about to be: no order of  *)
(* mark_completed and merge_back loses them, short of a crash.              *)
THEOREM CompletedGetsMerged == Spec => []CompletedIsMerged
<1>1. IInv => CompletedIsMerged
  <2>1. SUFFICES ASSUME IInv, ~setting.crashes, NEW t \in unmerged,
                        tasks[t].status = "completed"
                 PROVE  \E w \in Runners : Holds(w, t) /\ pc[w] \in {"filed", "failing"}
    BY DEF CompletedIsMerged
  <2>2. PICK w \in Runners : Merges(w, t)
    BY <2>1 DEF IInv, Merging
  <2>3. QED
    BY <2>1, <2>2, AtWork DEF IInv, Merges, Holds
<1>2. QED
  BY <1>1, InvHolds, PTL

(* What run_batch reported as completed stays as it was reported.           *)
THEOREM ReportsLast == Spec => []ReportLasts
<1>1. IInv => ReportLasts
  <2>1. SUFFICES ASSUME IInv, ~setting.retries, ~setting.crashes, NEW w \in Runners,
                        report[w].status = "completed", report[w].errors = {}
                 PROVE  /\ Aggregate(report[w].tasks, {}) = report[w]
                        /\ report[w].tasks \cap unmerged = {}
    BY DEF ReportLasts
  <2>2. /\ Aggregate(report[w].tasks, {}) = report[w]
        /\ \A t \in report[w].tasks : Filed(t) /\ ~Held(t)
    BY <2>1 DEF IInv, Reported
  <2>3. ASSUME NEW t \in report[w].tasks, t \in unmerged
        PROVE  FALSE
    <3>1. AggregateStatus(report[w].tasks) = "completed"
      BY <2>1, <2>2 DEF Aggregate
    <3>2. tasks[t].status = "completed"
      BY <2>3, <3>1 DEF AggregateStatus, TerminalStatus
    <3>3. PICK v \in Runners : Merges(v, t)
      BY <2>1, <2>3, <3>2 DEF IInv, Merging
    <3>4. Holds(v, t)
      BY <2>1, <3>3, AtWork DEF IInv, Merges, Holds
    <3>5. QED
      BY <2>2, <2>3, <3>4 DEF Held
  <2>4. QED
    BY <2>2, <2>3
<1>2. QED
  BY <1>1, InvHolds, PTL

(* Only the runner that filed an outcome overturns it, from the handlers of *)
(* run_claimed_task.                                                        *)
THEOREM OutcomesStand == Spec => OutcomeStands
<1>1. ASSUME IInv, [Next]_vars
      PROVE  OutcomesKept
  <2>1. SUFFICES ASSUME NEW t \in Tasks, ~setting.retries,
                        tasks[t].status \in TerminalStatus,
                        tasks'[t].status # tasks[t].status
                 PROVE  \E w \in Runners : /\ Holds(w, t) /\ t = Current(w)
                                           /\ pc[w] \in {"failing", "cancelling"}
    BY DEF OutcomesKept
  <2>2. TypeOK /\ Resting /\ OpenRunning
    BY <1>1 DEF IInv
  <2>3. ~UNCHANGED vars
    BY <2>1 DEF vars
  <2>4. ASSUME NEW u \in Tasks, HostStep(u)
        PROVE  FALSE
    BY <2>1, <2>2, <2>4, HostEffect DEF Hosted, TerminalStatus
  <2>5. PICK w \in Runners : RunnerStep(w)
    BY <1>1, <2>3, <2>4, Steppers
  <2>6. ~Claims(w)
    BY <2>1, <2>2, ClaimEffect DEF Claimed, TerminalStatus
  <2>7. Files(w, t)
    BY <2>1, <2>2, <2>5, <2>6, RunnerFiles DEF Untouched
  <2>8. pc[w] # "ended"
    BY <2>1, <2>2, <2>7 DEF OpenRunning, Open, Holds, Files, TerminalStatus
  <2>9. QED
    BY <2>7, <2>8 DEF Files, From, Holds
<1>2. QED
  BY <1>1, InvHolds, PTL DEF Spec, OutcomeStands
=============================================================================
