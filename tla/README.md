# Formal model of the agent core

This directory models the runtime of `rd-agent-core`: the loop that drives a
language model and its tools, and the machinery that carries an agent run over
several bounded executions. The specifications are in TLA+, checked by TLC on
small instances and, where stated, proved for all instances with TLAPS.
`PROJECT.json` ties each definition to the lines it models; this file explains
the whole.

Paths below are short: `core/` is `packages/rd-agent-core/src/rd_agent_core/`,
`contracts/` is `packages/rd-agent-contracts/src/rd_agent_contracts/`,
`adapter/` is `packages/rd-llm-adapter/src/rd_llm_adapter/`, `host/` is
`examples/reference_host/`, `tests/` is `packages/rd-agent-core/tests/`.

## 1. Inventory

The package is an asyncio library: its runners are coroutines, its stores and
tools are ports a host implements. Two sets of ports come with it: the in-memory
ones of `core/testing.py` and the SQLite ones of `host/sqlite_reference_host.py`.

| Component | State | Operations | Interacts with |
|---|---|---|---|
| Turn kernel (`core/turn.py`) | one turn: cancelled, pause_requested, results, events | `run_turn`: log, stream, refuse/execute/skip calls, complete | LLM client (stream), tool executor, event log, observability |
| Run kernel (`core/run.py`, `policies.py`) | counts, transcript, tool signatures, stop reason | `run`: limits, guards, turns, decision to stop | turn kernel, cancellation token, clock |
| Event log (`core/events.py`, the two stores) | events of a run, idempotency keys | `append_event`, `stream_events` | written by the kernels, read by the runners |
| Run persistence (`contracts/run_persistence.py`, the two stores) | run records: status, continuation index, engine state | create root / continuation / subagent run, mark running / completed / failed, claim waiting | all runners |
| Agent runner (`core/runner.py`) | none of its own | `run`: create, execute, complete, notify | persistence, run kernel, run observer |
| Continuation queue (`contracts/continuation_queue.py`, the two stores) | job records: status, attempts, available_at, heartbeat | enqueue, claim, mark attempt, heartbeat, complete success / failure, release, reclaim | workers and the host's scheduler |
| Continuation runner (`core/continuation_runner.py`, `continuation_state.py`, `contracts/run_policy.py`) | none of its own | `run_next`, `run_claimed_job` | queue, persistence, run kernel, observer |
| Reference continuation worker (`core/testing.py`) | none of its own | claim, mark attempt, a handler, complete | queue |
| Subagent runner (`core/subagent_runner.py`) | none of its own; local lists of a batch | `run_next`, `run_claimed_task`, `run_batch` | task port, workspace, persistence, run kernel, observer |
| Subagent contracts (`contracts/subagent.py`, `subagent_runtime.py`) | task records, attempts, outcomes | claims, filing, failure, reclaiming; decisions on finalization, merge, aggregates | runner, host |
| Workspace (`contracts/workspace.py`) | a copy per task | prepare, diff, merge | subagent runner |
| LLM clients (`core/llm_clients.py`) | a parser session per request | stream with recovery, next request | transport, parsers, turn kernel |
| Stream parsers (`adapter/openai_compat.py`, `anthropic_native.py`, `events.py`) | open calls or blocks, usage, finished flag | `feed`, `finalize`, `finalize_on_error`, legacy events | LLM clients |
| Usage (`adapter/_usage.py`) | none | normalise, to a dict and back | parsers, kernels, log |
| Gateway, recorder, replay evals | traces | normalise, record, check | outside of a run |
| Profiles, capabilities, registry, transports, delegation, tools | none that changes | lookups, network, repository checks | everywhere |

What makes the parts correct:

* **Kernels**: the budget of tool calls and the repeat threshold are never
  exceeded over the whole run; nothing runs behind a pause or a seen
  cancellation; no turn follows a stop; the transcript and the log tell one
  story; the run ends; counts mean what the schema says.
* **Queue and runners**: attempts count executions; a job has one worker; a
  reported success is on record; outcomes are final; a continuation resumes a
  transcript that is there; every job is settled in the end; the decision that
  a run may continue agrees with the store's.
* **Event log**: sequence numbers without gap, one event per key, one answer per
  key, a reader that polls misses nothing; also with several writing processes.
* **Run store**: a creation never replaces a run, chains stay bounded; on one
  connection no update is lost and a waiting run is claimed once.
* **Subagents**: a task has one execution at a time; one that is completed is
  merged; an outcome on file, and what a batch reported, stand; nothing stays
  claimed for ever.
* **Streams**: each call is closed at most once, the turn's end comes once and
  last, half of a call's arguments is never executed, a broken stream never
  passes for a whole one, each token is counted once, and the next request can
  be built from the turn. (The docs promise more, that no truncated call is
  executed at all: see the fifth violation in section 3.)

What is hard: the token, the clock and task cancellation act at any await;
several calls to several stores with failures and crashes in between; retries of
work that was done; counters of one quantity in several places; handlers that
run over a state already final. `PROJECT.json` lists these hazards by line.

## 2. The modules

| Module | Models |
|---|---|
| `RunKernel` | one run: run kernel, turn kernel, guards, limits, the turn's events |
| `MCRunKernel` | instances: contents of up to two or three calls, mixes of limits |
| `RunKernelProofs` | theorems about `RunKernel` |
| `ContinuationQueue` | the queue port by its two implementations (`Store`) |
| `ContinuationRunner` | root run, workers, persistence and host over that queue |
| `MCContinuation` | instances: a chain of three runs, a stray job, kinds of hosts |
| `ContinuationProofs`, `OutcomeProofs` | theorems about `ContinuationRunner` and its queue; those about outcomes over the in-memory store |
| `SubagentRunner` | the subagent task port, `run_next`, `run_claimed_task`, `run_batch`, host |
| `MCSubagents`, `SubagentProofs` | two tasks, two runners; its theorems |
| `UsageRecords` | usage fields, their aliases and sums |
| `StreamEvents` | the events and contents of a turn, parsing of arguments |
| `LegacyEvents` | what consumers of the older interface are given |
| `OpenAISession`, `AnthropicSession` | the two parser sessions |
| `ProviderRequest` | the next request, made of a turn |
| `LLMStream` | a provider, a client with its session, and the consumer |
| `StreamContract` | abstract: what a streamed turn promises the loop |
| `MCLLMStream`, `LLMStreamProofs` | both providers, two calls or blocks; its theorems |
| `HostProcesses` | hosts on connections of their own or on one event loop |
| `EventLog`, `RunStore` | the two stores, statement by statement |
| `HostStores` | both, used by the same hosts |
| `MCHostStores` | two hosts, two runs |
| `EventLogProofs`, `RunStoreProofs`, `HostStoresProofs` | theorems about the stores and their composition |

`ContinuationRunner` composes the queue with its callers by EXTENDS: it owns the
other variables and its actions call the queue's operators. `RunKernel` stands
alone: for `ContinuationRunner` a run is one await that returns a stop reason or
raises, which is what `RunKernel` ends with (`returned`, `raised`, `aborted`);
`SubagentRunner` takes it the same way. `LLMStream` instantiates the two parser
sessions over its own session and batch of events, and is what `RunKernel`'s
streaming stands for. `HostStores` extends both stores over one set of hosts.

### RunKernel

`pc` follows the code: `loop` is the head of `while True` in `RunKernel.run`,
`opened` the moment after TURN_STARTED, `streaming` the `async for` over the
provider, `tools` the loop over the calls, `invoking` the await of the host's
executor; `returned`, `raised` (an exception leaves the run), `aborted` (the
task is cancelled) end it. The two guards are folded into the actions
`BlockRepeated`, `BlockOverBudget` and `Invoke` in the order they are nested
(repeat outside, budget inside), with their state in `signatures` and `seen`;
`seen` is set anew from `counts.requested` by `StartTurn`, as the code rebuilds
the guard. `_execute_tool` either adds a result (`Settle`) or raises under
`observability_fail_fast` after the end of the tool is logged.

Environment: the provider answers with any content of `Contents` for the run's
limits (so that an instance can bound a run by what is asked for; several
TurnDone events are allowed, the last counts), may end without one, or raise; a
tool succeeds or fails; the token is set, the clock expires, the task is
cancelled at any await. Kept out: text, usage, invalid-call events, the output
limiter and the blob writer (a writer that raises counts as a failing tool).
A signature stands for tool name and canonical input; whether a call is refused
before the executor depends on it alone.

`log` holds the current turn only: turn ids are fresh, so no idempotency key
recurs across turns. Within a turn keys do recur when the provider repeats a
tool_use_id, which is modelled: the second event is swallowed.

### ContinuationQueue and ContinuationRunner

A job record keeps what operations test: `delayed` is an `available_at_ms` in the
future, `fresh` a heartbeat not older than the host's `stale_before_ms`. Jobs are
ordered by creation (creation times taken as distinct). `Store` selects where
the two implementations differ: de-duplication in `enqueue_for_run`, the
answer to an attempt too many (ValueError in memory, dead letter in SQLite),
and whether `reclaim_stale` looks at the attempts.

The runners' `pc` has a label before every port call. With `setting.loop` they are
coroutines of one event loop over synchronous stores: a runner between two awaits
excludes all others (`LoopFree`, `HostFree`). Without it they are processes over
an adapter of the host that decides as the SQLite reference does, and every port
call is atomic; there workers interleave at each call. Atomic claims are an
assumption on that adapter: `PHASE-B-NOTES.md:176` leaves the lock strategy of
`claim_next` to it (the SaaS adapter takes `FOR UPDATE SKIP LOCKED`). The SQLite
reference selects a job and then updates it without a look at its status, with its
transaction begun by the update, so two processes on connections of their own may
claim one job: it is modelled on one loop only, where nothing comes in between.

Labels `refused`, `clashed` and `overrun` are exceptions that leave
`run_claimed_job` outside of its handlers; the worker's loop then goes on.
The run observer is awaited in both outcomes: `observing` behind a success, inside
the try, so that a cancellation there runs the handler; `reporting` behind
`complete_failure`, where the job may already be queued again and no handler is
left. A worker that is `reporting` writes neither to the job nor to its run any
more, and `WorksOn` does not count it: `OneWorkerPerJob` says that no two workers may
complete, fail or run one job, while a second worker may well claim the job
that a first is still reporting.

A host's `setting` says further whether its cutoff is patient (no job of a living
worker goes stale: a long cutoff or heartbeats), whether there is an asynchronous
observer, and whether processes crash. Patience is an assumption on the host,
not on the code, and `OneWorkerPerJob` is stated under it; runs without it
check what remains. The in-memory store dies with its process, so
`RunnerConstants` allows it one loop without crashes only.

Hosts enqueue continuations of runs that are continuable, waiting for the user or
out of budget, which is what the integration contract describes, and by mistake
of a run that does not exist. Of the engine state its presence is kept: `saved`
with a transcript, `none` without. Not modelled: port calls that raise by
themselves, `worker_id`, error texts, an `available_at_ms` given at enqueueing.

### SubagentRunner

`pc` has a label before every port call of `run_claimed_task`: `claimed`
(`mark_attempt_started`), `marked` (create the run), `created` (prepare the
workspace), `kernel`, `ended` (finalize), `filed` (diff and merge), `observing`;
`failing`, `sorry`, `cancelling` are its two exception handlers, `next` the loop of
`run_batch`. `mine` are the tasks of one claim, `left` those not dealt with,
`report` the aggregate of the last batch. The first three calls are outside of
the try: a port failing there leaves the task in progress, and in a batch its id
among the errors. The handlers' decisions (`Finalization`, whether to merge,
`Aggregate`) are those of `subagent_runtime.py`.

The repository has no task store beyond the fakes of
`tests/test_subagent_runner.py`. The model takes their semantics; a port that
puts a failed task back while attempts are left is the alternative `retries`, as
`record_failure` takes a retry delay. The runner writes no heartbeats, so
`reclaim_stale` is given a cutoff that outlasts executions (`Stale`). A deleted
task, an asynchronous observer, crashes, and one shared loop or separate
processes are settings of the host.

### LLMStream and its parts

A provider sends chunks or Anthropic events in any order its protocol admits, and
the stream may end, break or be abandoned at any point. `OpenAISession` and
`AnthropicSession` are the two sessions: `feed` (one operator per kind of event),
`finalize`, `finalize_on_error`. Texts are counted in fragments. Arguments are
classes of what was concatenated: nothing, what does not parse, an object, or JSON
that is no object (`Concat`); what the parsers' `json.loads` takes is
`Executable`: an object, or nothing sent, which reads as `{}`. The consumer
(`seen`) takes the events as `run_turn` does, and `sent` is what the provider
really sent: the properties compare the two. `StreamContract` is the
abstract specification; the refinement maps a call's stage, the phase of the
turn and the calls the loop goes on to execute.

`ProviderRequest` builds the messages of the next request. Calls and results are
paired by id, as `build_messages_after_turn` does: a call whose id never came has
the id `""` (`NoId`), and `PairingFails` is the ValueError about a missing or a
duplicate result. The turn kernel gives every call one result under the call's
id; an executor that names another id is left out. For Anthropic there is also
the signed thinking, whose absence makes `_anthropic_reasoning_block` raise
(`Unsendable`). An OpenAI-compatible provider may leave out ids, and sends each at
most once; those of different calls differ.

Usage has all names the code knows for four quantities, at the top level and in the
details. `Counted` skips `cached_input_tokens` as the code does, for parts at the
top level only. A provider of the model names a quantity once, or gives cached
parts with their sum, wherever the parts stand (`ReportsAssumption`).
(`normalize_usage` adds aliases up: naming one quantity twice counts it twice.)

### EventLog, RunStore, HostStores

`append_event` in SQLite is lookup, read of the last number, insert; the
transaction of `with connection` begins at the insert. So hosts with own
connections interleave between `Begin`, `LookupFinds`/`LookupMisses`, `Number`,
`InsertEvent`/`InsertEventFails`, `Return`, and stop (`Abandon`) anywhere. Event and
key are inserted in one transaction, checked against the two primary keys
(`Admits`). `Follow` is a reader that polls `stream_events` with the last number it
saw. `RunStore` does the same with creations (look for the id, insert),
updates (`_update` loads the row and writes all of it back) and
`claim_latest_waiting_run` (select, then update). With `shared` the hosts are
coroutines of one loop, over one connection or the in-memory stores, and no
operation has an await inside. In `HostStores` a host is inside one operation of
either store at a time.

## 3. What the runs check

| Run | Bounds | Checks |
|---|---|---|
| `run_kernel` | three turns, up to two calls each (ordinary, pause, refused tool, shared or distinct ids), nine mixes of limits, fail-fast on; about 133 000 states | `WithinBudget`, `RepeatBounded`, `TranscriptMatchesLog`, `NothingRunsBehindStop`, `NoTurnAfterStop`, `RunEnds`, `TypeOK` |
| `run_kernel_counts` | expected violation | `ExecutedMeansEntered` |
| `run_kernel_cancel` | expected violation | `CancelledRunSaysSo` |
| `continuation` | in-memory stores, one loop, host and two workers, three jobs, three executions per job, four kinds of hosts; about 138 000 states | `ExecutionsCounted`, `SucceededRunRecorded`, `ContinuableCanContinue`, `NeverResumesBlank`, `OutcomeStands`, `TypeOK` |
| `continuation_hosts` | SQLite semantics, two jobs, two executions per job; processes over a locking adapter, patient, with crashes and an observer or without either, and an impatient host on one loop; about 373 000 states | `OneWorkerPerJob`, `QueuedHasAttempts`, `JobsSettle` |
| `continuation_refused` | expected violation | `RefusalFailsJob` |
| `continuation_observer` | expected violation | `ObserverKeepsOutcome` |
| `subagents` | two tasks (one with a write scope), two runners, two attempts, batches of two, one fault, six kinds of hosts; about 1 117 000 states | `OneExecution`, `CompletedIsMerged`, `ReportLasts`, `OutcomeStands`, `TasksSettle`, `TypeOK` |
| `llm_stream` | both providers, two calls or blocks, texts of two fragments, three and four shapes of usage; about 365 000 states | `KeepsContract` (refinement), `NoHalfArgumentsRun`, `ContentIsWhatWasStreamed`, `BrokenStreamShows`, `UsageCountedOnce`, `LegacySeesTheTurn`, `RequestPairsCalls`, `FinishedTurnCanBeSent`, `TypeOK` |
| `llm_stream_cut` | expected violation | `CutCallNeverRuns` |
| `llm_stream_usage` | expected violation, one report with a sum beside details | `LegacySumNotAdded` |
| `host_stores` | two hosts, two runs, one key; four appends, or four run operations, or one of each; own connections or one loop; about 873 000 states | `GapFree`, `KeysMatchEvents`, `AnswersAgree`, `FollowersMissNothing`, `ClaimedOnce`, `UpdatesStand`, `OriginsStand`, `ChainsBounded`, `TypeOK` |

Why the bounds suffice for what the properties tell apart: two calls in a turn give
every pair of skip, refusal, denial and execution; a second turn shows what
crosses a turn (guard rebuilt, signatures kept); a third that a threshold of three
is met at the third. Budgets 1 to 3 lie below, at and above the calls of a turn.
Limits stand alone and together, so that `RunEnds` asks of turns, calls and
repeats each by itself; where repeats alone bound a run no call is refused, for a
refused call never reaches the repeat guard.
With two workers, a retry (`max` 2), a job without one (`max` 1) and a third job for
a run already led to, each job can be claimed, lost, reclaimed, retried, settled
late by an older attempt and enqueued twice. `MaxJobs` and `MaxExecutions` are the
only bounds in guards: the first stops the host from enqueueing, the second a worker
from claiming a job executed that often. Workers are symmetric, and symmetry is used
where no liveness is checked.

Subagents: two tasks are the least of which a batch can deal with one while the
other waits; two attempts give a retry and an exhausted task; a second runner is who
could claim, reclaim or overturn. One fault (`MaxFaults`: a failing port, a
cancellation or a crash) at each of its places; a second fault would need a second
run of a handler, which no handler of the code guards against anyway. Streams:
two indices give the interleaving of calls; a call's arguments come in one piece,
two, none, or never end; `MaxText` bounds the fragments of a text. Stores:
the races are of two hosts at one row, one key or one number; four operations
give creation, wait, two claims, or append, retry and follow-up in each order; a
run's chain has root and continuation, and `MaxMax` is met by both. `MaxAppends`,
`MaxOps` and `Budgets` bound the operations begun. Hosts are symmetric; the
subagents' run has liveness and uses no symmetry.

Each property of a passing run comes with a mutant of the model, an operator with
a plausible slip (`MaxReachedLate`, `EnqueueAgain`, ...), under which the property
fails.

**Fairness.** `RunKernel`: weak fairness of the kernel's own steps, which include
the end of a stream and the return of a tool. The kernel sets neither a deadline,
so a run whose provider never ends does not end; the assumption is that
transports have time-outs and tools return. The token, the clock and cancellation
are not fair. `ContinuationRunner`: every runner advances, a kernel and an
observer end, the host polls `reclaim_stale`, and time passes. Claiming is fair
because workers call `run_next` in a loop. Crashes, failures, cancellation,
enqueueing and heartbeats are not fair. `JobsSettle` is stated without crashes, and
for one loop or a patient host: a claim does not count as an attempt, so a process
that always crashes, or is always reclaimed, between the claim and
`mark_attempt_started` never settles its job. `SubagentRunner`: runners advance (kernel
and observer end) and claim, and the host polls `reclaim_stale`; faults,
cancellation, crashes, creation and removal are not fair. `TasksSettle` depends on
reclaiming: a task whose setup failed is in progress until then. The other modules
state safety only.

**Violations found.** Six statements of the documentation or the comments do not
hold of the code, each with a run:

1. `executed` counts guard denials: `_normalize_tool_result` overwrites the
   `executed: False` of the guards (EVENT-PAYLOAD-SCHEMA says only calls that
   entered the executor count).
2. A cancelled run may end with stop reason `repeated_tool_call` (API-REFERENCE says
   `cancelled`).
3. When `create_continuation_run` returns None the job stays running (API-REFERENCE
   says `complete_failure` decides).
4. A task cancelled while its observer is awaited loses its recorded outcome and
   transcript (the comment in `observability.py` says the outcome must not change).
5. A call that is cut off behind its start, by a break, a close or a length limit
   before any of its arguments came, is executed with `{}`: both parsers read
   arguments that never came as no arguments (HOST-INTEGRATION-CONTRACT says a
   partial call is not handed to the executor, `enums.py` that a call truncated
   before it was closed is never executed). A half of the arguments never is:
   `NoHalfArgumentsRun`.
6. `cached_input_tokens` is added to its parts where these stand in
   `prompt_tokens_details`: the test for split fields looks at the top level only
   (API-REFERENCE says the field must not be added as further tokens).

Met on the way, without a run:

*Queue.* SQLite's `enqueue_for_run` is not idempotent while the contract test of
the in-memory queue expects it, hence `SucceededRunRecorded` is checked for
memory only. The in-memory `reclaim_stale` puts exhausted jobs back, so they
circle through ValueError, hence `QueuedHasAttempts` and `JobsSettle` are
checked for SQLite only. Two connections may claim one job of the SQLite
reference (section 2). A worker whose `mark_attempt_started` answers None or
dead letter executes nevertheless, so `ExecutionsCounted` holds in one loop
only.

*Subagents.* A crash between filing and merge loses the changes of a completed
task (`CompletedIsMerged` excludes crashes). With separate processes and a
port that retries, a merge that fails after the task was put back is recorded
over the next execution (`OneExecution` excludes that), and a cancellation in
the observer may overturn the next runner's work (`OutcomeStands` is for ports
without retries). A failure before the try leaves the task in progress, where
API-REFERENCE.md:698 says it is written back as failed. A batch may report
`completed` with errors when another process has reclaimed the task of the error
and filed but not merged it (`ReportLasts` is about reports without errors). An
aggregate is `failed` when a completed child has a failed tool, and may be `completed` beside a validation that
is not ok. `_prepare_workspace` tests whether a write scope is given and does not
ask `decide_subagent_workspace_isolation`, which would normalise its paths.

*Streams.* Calls of a turn whose stream broke are executed. Two executed calls
that never got an id make `build_messages_after_turn` raise over a duplicate
result, behind their execution (`RequestPairsCalls` says exactly then); a single
one is sent back under the id `""`. A stream that
ends without an error inside an Anthropic block drops the block without an end
of its call. A thinking that breaks off is unsigned, and sending it back
raises ValueError (`FinishedTurnCanBeSent` is about streams that ended). A later
`name` replaces the name of a call. An exception behind `message_stop` raises
although TurnDone was delivered. The OpenAI content is ordered reasoning, text,
calls by index, where `events.py` speaks of the order of production.

*Stores.* With own connections two hosts may resume one waiting run, and `_update`
loses the update of another column, hence `ClaimedOnce` and `UpdatesStand` on one
loop. Two appends that insert one number end in an IntegrityError for one of them,
as a locked database does: the caller retries. `created_at_ms` is taken not to go
back.

## 4. What is proved

All for arbitrary constants under the modules' assumptions, which type the
constants: `RunConstants`, `QueueConstants`, `RunnerConstants` (the in-memory
store lives in one process), `SubagentConstants`, `HostConstants`,
`LogConstants`, `RunStoreConstants`, `BudgetAssumption`, `StreamConstants`,
`IndexAssumption`, `ReportsAssumption`.

| Theorem | Statement |
|---|---|
| `RunKernelProofs!TypeCorrect` | `Spec => []TypeOK` |
| `RunKernelProofs!BudgetSafe` | `Spec => []WithinBudget` |
| `RunKernelProofs!RepeatSafe` | `Spec => []RepeatBounded` |
| `RunKernelProofs!BehindStopSafe` | `Spec => []NothingRunsBehindStop` |
| `RunKernelProofs!NoTurnAfterStopHolds` | `Spec => NoTurnAfterStop` |
| `RunKernelProofs!TranscriptSafe` | `Spec => []TranscriptMatchesLog` |
| `ContinuationProofs!TypeCorrect` | `Spec => []TypeOK` |
| `ContinuationProofs!OneWorkerSafe` | `Spec => []OneWorkerPerJob` |
| `ContinuationProofs!QueuedSafe` | for SQLite, `Spec => []QueuedHasAttempts` |
| `ContinuationProofs!CountedSafe` | `Spec => []ExecutionsCounted`, which speaks of one loop |
| `ContinuationProofs!ContinuableSafe` | `Spec => []ContinuableCanContinue` |
| `OutcomeProofs!SucceededSafe` | for the in-memory store, `Spec => []SucceededRunRecorded` |
| `OutcomeProofs!OutcomesStand` | for the in-memory store, `Spec => OutcomeStands` |
| `OutcomeProofs!ResumesSaved` | for the in-memory store, `Spec => []NeverResumesBlank` |
| `SubagentProofs!SubagentTypesHold` | `Spec => []TypeOK` |
| `SubagentProofs!TasksRunOnce` | `Spec => []OneExecution` |
| `SubagentProofs!CompletedGetsMerged` | `Spec => []CompletedIsMerged` |
| `SubagentProofs!OutcomesStand` | `Spec => OutcomeStands` |
| `SubagentProofs!ReportsLast` | `Spec => []ReportLasts` |
| `EventLogProofs!LogTypesHold` | `LogSpec => []LogTypeOK` |
| `EventLogProofs!NumbersAreGapFree` | `LogSpec => []GapFree` |
| `EventLogProofs!KeysLeadToEvents` | `LogSpec => []KeysMatchEvents` |
| `EventLogProofs!AnswersAgreeUnderAKey` | `LogSpec => []AnswersAgree` |
| `EventLogProofs!NothingIsAddedBehindAFollower` | `LogSpec => []FollowersMissNothing` |
| `RunStoreProofs!RunTypesHold` | `RunsSpec => []RunsTypeOK` |
| `RunStoreProofs!CreationsStand` | `RunsSpec => OriginsStand` |
| `RunStoreProofs!ChainsStayBounded` | `RunsSpec => []ChainsBounded` |
| `RunStoreProofs!NoUpdateIsLost` | `RunsSpec => []UpdatesStand` |
| `RunStoreProofs!WaitingRunsAreClaimedOnce` | `RunsSpec => []ClaimedOnce` |
| `HostStoresProofs!HostsUseTheLog` | `Spec => LogSpec` |
| `HostStoresProofs!HostsUseTheRuns` | `Spec => RunsSpec` |
| `HostStoresProofs!HostTypesHold` | `Spec => []TypeOK` |
| `HostStoresProofs!HostsFindTheLogSound` | the log's four properties under `Spec` |
| `HostStoresProofs!HostsFindTheRunsSound` | the run store's four properties under `Spec` |
| `LLMStreamProofs!StreamInvariant` | `Spec => []StreamInv`, the inductive invariant |
| `LLMStreamProofs!TypeCorrect` | `Spec => []TypeOK` |
| `LLMStreamProofs!StreamKeepsContract` | `Spec => KeepsContract`: a stream implements `StreamContract` |
| `LLMStreamProofs!NoHalfRuns` | `Spec => []NoHalfArgumentsRun` |
| `LLMStreamProofs!ContentIsStreamed` | `Spec => []ContentIsWhatWasStreamed` |
| `LLMStreamProofs!BreaksShow` | `Spec => []BrokenStreamShows` |
| `LLMStreamProofs!FinishedCanBeSent` | `Spec => []FinishedTurnCanBeSent` |
| `LLMStreamProofs!RequestsPair` | `Spec => []RequestPairsCalls` |
| `LLMStreamProofs!LegacySeesIt` | `Spec => []LegacySeesTheTurn` |
| `LLMStreamProofs!UsageIsCountedOnce` | without a sum beside details, `Spec => []UsageCountedOnce` |

*Run kernel.* None of the properties is inductive. The invariant `IInv` adds:
`Progress` (results are a prefix of the calls), `Budget` (the executor's entries
are at most the guard's counter, which is at most the limit and at most the
requested calls so far plus this turn's results: that makes the rebuilt guard
safe), `Repeats` (recorded signatures dominate invocations and stay below the
threshold) and `Denials` (what each kind of result says about `pause`,
`cancelled`, the counter and the requested calls). The last gives
`NoTurnAfterStop`: a turn with a budget denial leaves at least as many requested
calls as the limit, so `CallsUsedUp` stops the loop. The step is proved action by
action over lemmas on what a settled result changes. For `TranscriptMatchesLog` the
invariant `LogTells` says which calls the log of a turn may tell of: those with a
result, and the current one once it has begun. So a call whose id is new finds
neither of its keys taken and both its events are stored; and where an id
recurs, the turn raises before its results become messages.

*Runners.* `OneWorkerPerJob` needs that the job of a worker is not queued and, while
running, fresh: otherwise it could be claimed or reclaimed behind the worker's
back. `HeldJobs` says so; with `OneWorkerPerJob` it is inductive under patience
(`Exclusive`). A worker that is `reporting` has given its job back and is not among
them. Crashes only shrink the set of workers on a job. The theorem rests on atomic
claims, see section 2.

*Queue.* `QueuedHasAttempts` is inductive given the records' type: every operation
that writes `queued` looks at the attempts first. In memory reclaiming does not,
and the mutant `ReclaimedAlways` shows that behaviour breaking it.

*Counting.* `ExecutionsCounted` holds in one loop because what lies between the
claim and the kernel has no await in it. `CountInv` says so: at most one runner is
outside of an await (`Alone`); from the claim to `mark_attempt_started` its job is
running and, in SQLite, has an attempt left, so the counter is raised and not only
the heartbeat refreshed; from there to the kernel the counter is ahead of the
executions (`Counted`). The SQLite part rests on `QueuedHasAttempts`; in memory an
exhausted job raises instead. Counters never fall (`AttemptsGrow`), so the others'
steps, crashes and reclaims keep it.

*Chains.* `ContinuableCanContinue` is inductive: a run becomes continuable only where
`should_auto_continue_run` finds it below its maximum, and no operation changes
index or maximum of a run that exists without setting its status too.

*Outcomes.* The in-memory queue leads to each run by one job (`Distinct`), because
`enqueue_for_run` looks for one first; SQLite's inserts a row each time, so two
jobs may lead to one run and these theorems are not stated for it.
`SucceededRunRecorded` follows from `Tracked`: a worker on the way to the kernel
holds a running job, one behind it the record of its run's end, and a succeeded job
has a run on record or a worker about to take the success back. It holds under
impatience and with an observer too; crashes are excluded with the in-memory
store. For the other two the host is calm, and `CalmInv` ties
run, runner and job: a run with an outcome has a transcript, the host's runner has
stopped if it is the root, and any job that leads to it is settled, or held by the
worker that has just recorded the outcome (`Final`). So no runner is under way to
such a run, none can be put there, and a continuation finds what it loads.

*Subagents.* One invariant `IInv` serves all five theorems. `SoleOwner`: a task has
one owner, where an owner holds the task and, if the port retries, has not yet
put it back. It is kept by `OwnedKept`: what a runner owns is neither pending nor
creatable, so no claim finds it. `Merging` gives each unmerged completed task
its runner on the way to the merge or to the handler of its failure; `Handled`
says that the handle needed there is held. `OpenRunning` and `FiledCurrent` say,
for ports that do not retry, that what is not dealt with is in progress, and
what the observer is told of is on file. Then `Dealt` and `Reported` follow a task
from a batch's loop into its report: filed and held by no one, so no step
touches it. `OutcomeStands` is read off the steps under `IInv`.

*Event log.* `LogInv`: numbers of a run are unique and contiguous (`Numbered`,
`Contiguous`); the number a host is about to insert follows on events that are
there (`Poised`), so either it is still the next free one or its row is refused
by the primary key. `KeysPoint` and `EventsKeyed` tie keys and events in both
directions, which one transaction for both makes inductive; `Filed`, `Answered`
and `Followed` speak of what is about to be answered, of answers and of readers. It needs no assumption on how hosts
interleave.

*Run store.* `RunsInv`: what an operation carries from one statement to the next
fits the table (`Fitting`; its origin is never stale because no statement
changes an origin), and chains are numbered from their parents (`Chained`). On
one loop one operation at a time is open (`Solo`), so the row loaded is still the
row stored (`FittingAlone`), which makes `UpdatesStand` inductive; `ClaimsLeft`
balances waits and claims.

*Hosts.* `HostStores` implements both stores by step simulation, so their theorems
carry over without another invariant.

*Streams.* `StreamInv` relates, index by index, three views of the turn: what the
provider sent (`sent`), what the session holds (with the events of its batch), and
what the consumer has seen. For an OpenAI session (`OpenAIShown`) the entry of a
call has the arguments sent, and its stage at the consumer says which of name and
end were shown; for Anthropic (`AnthropicShown`) an open block has the kind and the
arguments sent, a stopped one is in the content. `OpenAITurn` and
`AnthropicTurn` say the same of a content that was delivered. Each property then
follows from the invariant alone, without another induction. The refinement of
`StreamContract` maps a call's stage, the phase, and the calls to execute: a chunk
or an event of the provider is `Stream` or a stutter, the stream's end `Finish`, a
break `Fail`, an abandoned stream `Drop`.

`OpenAISession.Feed` and the consumer fold over sequences. `Fold` is therefore a
recursive function, whose existence and whose values are shown by induction over
`Nat`; induction itself is taken from the least element of a set (`NatMinimum`,
`NatSet`), as the library's rule cannot be used. What a fold preserves is said of
an arbitrary prefix, per index: a delta of one call leaves the other calls alone.
`Ordered` (the calls in their order) is shown to exist by induction over the size
of the set.

`RequestsPair` compares ids: an entry has its id exactly where the provider sent one
(`sent.ids`), so the ids of the content's calls repeat exactly where two have
none, and where they do not, the index of a call leads to its id and to the one
message behind it that bears it.

`UsageInv` (the session's usage is what the provider has reported so far) is
inductive given `ReportsAssumption` and no sum beside details: without the first,
two names for one quantity are added up; without the second, the sum and its
parts (the sixth violation). The report, its merge with the fields an earlier one held, and the way through
`to_dict` and back are each shown to leave every quantity counted once.

`LegacySeesTheTurn` has two halves. For the deltas of a chunk the invariant goes along
the translation event by event (`Told`): what a consumer hears in the deltas made so
far, and in the pending one behind them, is what the events so far say; the last
flush leaves nothing pending. It needs of the events only that a fragment of
arguments is one (`Telling`, inductive beside `StreamInv`). The end repeats
the deltas because it is made of the content, which `StreamInv` ties to what was
shown.

*Only model-checked.* Liveness (`RunEnds`, `JobsSettle`,
`TasksSettle`): there is no rule for fairness or ENABLED. `SucceededRunRecorded`,
`OutcomeStands` and `NeverResumesBlank` over SQLite are neither proved nor checked:
see *Queue* above.

## 5. Not modelled

* **Reference continuation worker**: claim, `mark_attempt_started`, a handler,
  completion; the operations of `ContinuationQueue` in the order in which
  `ContinuationRunner` calls them, without runs.
* **Gateway**: a package of its own which nothing in the runtime imports; counters and
  a translation of single chunks.
* **Recorder and replay evals**: files of recorded turns, written and compared
  outside of a run. The sessions they replay through are modelled.
* **Delegation, model profiles, capabilities, registry**: decisions and lookups
  without state.
* **Transports**: network; `LLMStream` takes what they deliver, and where they
  fail, as arbitrary.
* **Contracts without behaviour, conformance harness, scripts, repository tools**:
  nothing that changes state at run time.
* Of modelled parts: texts and summaries, request options, the output limiter and
  the blob writer, sums of usage over turns, write scopes as paths, the task
  port's `heartbeat`, `release_for_retry` and `mark_running`, which the runner
  never calls, port calls of the continuation runner that raise by themselves.

## 6. Plan

1. `JobLifecycle`, an abstract job (waiting, held, settled) that
   `ContinuationRunner` implements under a patient host, and the like for subagent
   tasks, with the step simulations proved.
2. `RunKernel` over `StreamContract`: the provider's answers replaced by a stream,
   so that cancellation between events is seen from both sides.
3. The reference continuation worker as a further kind of worker.
