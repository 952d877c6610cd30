------------------------------ MODULE RunStore ------------------------------
(***************************************************************************)
(* The run records behind RunPersistencePort: SQLiteRunPersistence of the   *)
(* reference host (examples/reference_host/sqlite_reference_host.py) and    *)
(* InMemoryRunPersistence (rd_agent_core/testing.py), used by hosts that    *)
(* create runs, mark them and resume the latest one that waits.             *)
(*                                                                         *)
(* _update loads the row and writes all of it back, a claim selects before  *)
(* that, a creation looks for the id and then inserts.  Hosts with          *)
(* connections of their own interleave between the statements; those of one *)
(* event loop do not.  Of a row are kept its status, whether it holds an    *)
(* engine_state_json, and what its creation gave it.                        *)
(***************************************************************************)
EXTENDS HostProcesses

CONSTANTS
  NoRun,    (* no parent                                                   *)
  Projects, (* project ids                                                 *)
  MaxMax,   (* bound on max_continuations                                  *)
  MaxOps,   (* bound on the operations begun                               *)
  Marks     (* what a mark may write: a status, and engine_state or not    *)

Statuses == {"pending", "running", "completed", "continuable", "waiting_user",
             "resuming", "resumed", "needs_attention", "cancelled", "failed"}

(* "keep": the operation leaves engine_state_json; "none" and "some" are    *)
(* what mark_completed writes there.                                       *)
Mark == [status : Statuses, state : {"keep", "none", "some"}]

ASSUME RunStoreConstants ==
  NoRun \notin Runs /\ Projects # {} /\ MaxMax \in Nat /\ MaxOps \in Nat /\ Marks \subseteq Mark

VARIABLES
  rows,    (* the table reference_runs                                     *)
  op,      (* where each host is in its operation                          *)
  ops,     (* the operations begun                                         *)
  indices, (* run indices given out                                        *)
  meant,   (* history: what updates last wrote to status and state         *)
  waits,   (* history: how often a run was put to waiting                  *)
  claims   (* history: how often a claim was given the run                 *)

runVars == <<shared, rows, op, ops, indices, meant, waits, claims>>

Kinds == {"orchestrator", "subagent"}

Origin == [index : Nat, project : Projects, kind : Kinds, cont : Nat,
           max : Nat, parent : Runs \cup {NoRun}]

Columns == [status : Statuses, state : {"none", "some"}]

(* present: the table holds the row; run_index, scope and the               *)
(* continuation counts are its origin, which no update changes.             *)
RunRow == [present : BOOLEAN, origin : Origin, columns : Columns]

Operation == [step : {"idle", "previous", "check", "insert", "select", "load",
                      "write"},
              run : Runs, mark : Mark, row : RunRow, claim : BOOLEAN]

Present(r) == rows[r].present

(* Mutant of Alone: the store awaits between its statements.                *)
AloneAnyway(h) == TRUE

Alone(h) == shared => \A g \in Hosts \ {h} : op[g].step = "idle"

At(h, step) == op[h].step = step /\ Alone(h)

(* What an idle host has in the place of a project.                        *)
AnyProject == CHOOSE p \in Projects : TRUE

NoMark == [status |-> "pending", state |-> "keep"]

Blank ==
  [present |-> FALSE,
   origin |-> [index |-> 0, project |-> AnyProject, kind |-> "subagent",
               cont |-> 0, max |-> 0, parent |-> NoRun],
   columns |-> [status |-> "pending", state |-> "none"]]

Idle == [step |-> "idle", run |-> AnyRun, mark |-> NoMark, row |-> Blank,
         claim |-> FALSE]

(* Mutant of Written: what an update is not given is written too.           *)
WrittenBlindly(columns, mark) == mark

Written(columns, mark) ==
  [status |-> mark.status,
   state |-> IF mark.state = "keep" THEN columns.state ELSE mark.state]

-----------------------------------------------------------------------------
RunsInit ==
  /\ shared \in BOOLEAN
  /\ rows = [q \in Runs |-> Blank]
  /\ op = [h \in Hosts |-> Idle]
  /\ meant = [q \in Runs |-> Blank.columns]
  /\ ops = 0 /\ indices = 0
  /\ waits = [r \in Runs |-> 0]
  /\ claims = [r \in Runs |-> 0]

Starts(h, operation) ==
  /\ At(h, "idle")
  /\ ops < MaxOps
  /\ ops' = ops + 1
  /\ op' = [op EXCEPT ![h] = operation]
  /\ UNCHANGED <<shared, rows, indices, meant, waits, claims>>

Goes(h, step) ==
  /\ op' = IF step = "idle" THEN [op EXCEPT ![h] = Idle]
           ELSE [op EXCEPT ![h].step = step]
  /\ UNCHANGED <<shared, rows, ops, indices, meant, waits, claims>>

Fresh(p, kind, cont, max, parent) ==
  [present |-> TRUE,
   origin |-> [index |-> 0, project |-> p, kind |-> kind, cont |-> cont,
               max |-> max, parent |-> parent],
   columns |-> [status |-> "pending", state |-> "none"]]

(* create_root_run and create_subagent_run.                                 *)
BeginCreate(h, r, p, kind, max) ==
  Starts(h, [step |-> "check", run |-> r, mark |-> NoMark,
             row |-> Fresh(p, kind, 0, max, NoRun), claim |-> FALSE])

(* create_continuation_run: the row to be is filled in by LoadPrevious.     *)
BeginContinuation(h, r, previous) ==
  Starts(h, [op[h] EXCEPT !.step = "previous", !.run = r, !.mark = NoMark,
                          !.row.origin.parent = previous, !.claim = FALSE])

(* Mutant of Continues: a run is continued once too often.                  *)
ContinuesOnce(origin) == origin.cont <= origin.max

Continues(origin) == origin.cont + 1 <= origin.max

LoadPrevious(h) ==
  LET previous == op[h].row.origin.parent
      origin == rows[previous].origin
  IN /\ At(h, "previous")
     /\ IF previous \in Runs /\ Present(previous) /\ Continues(origin)
        THEN op' = [op EXCEPT ![h].step = "check", ![h].row =
               [Fresh(origin.project, origin.kind, origin.cont + 1, origin.max,
                      previous) EXCEPT !.columns.state = "some"]]
        ELSE op' = [op EXCEPT ![h] = Idle]
     /\ UNCHANGED <<shared, rows, ops, indices, meant, waits, claims>>

(* An id that exists raises.                                               *)
Check(h) ==
  /\ At(h, "check")
  /\ Goes(h, IF Present(op[h].run) THEN "idle" ELSE "insert")

(* Mutant of Unique: an insert replaces the row of its id.                  *)
UniqueOrReplace(r) == TRUE

(* run_id is UNIQUE.                                                       *)
Unique(r) == ~Present(r)

InsertRun(h) ==
  LET r == op[h].run IN
  /\ At(h, "insert")
  /\ op' = [op EXCEPT ![h] = Idle]
  /\ IF Unique(r)
     THEN /\ indices' = indices + 1
          /\ rows' = [rows EXCEPT ![r] =
               [op[h].row EXCEPT !.origin.index = indices + 1]]
          /\ meant' = [meant EXCEPT ![r] = op[h].row.columns]
     ELSE UNCHANGED <<rows, indices, meant>>
  /\ UNCHANGED <<shared, ops, waits, claims>>

(* mark_running, mark_completed, mark_failed, mark_resumed and              *)
(* mark_waiting_user: none looks at the status the run has.                 *)
BeginMark(h, r, mark) ==
  Starts(h, [op[h] EXCEPT !.step = "load", !.run = r, !.mark = mark,
                          !.claim = FALSE])

(* claim_latest_waiting_orchestrator_run.                                   *)
BeginClaim(h, p) ==
  Starts(h, [op[h] EXCEPT !.step = "select", !.row.origin.project = p,
                          !.mark = [status |-> "resuming", state |-> "keep"],
                          !.claim = TRUE])

Waiting(p) ==
  {r \in Runs : /\ Present(r) /\ rows[r].columns.status = "waiting_user"
                /\ rows[r].origin.project = p
                /\ rows[r].origin.kind = "orchestrator"}

(* ORDER BY created_at_ms, run_index: the clock is taken not to go back.    *)
Latest(S, r) ==
  r \in S /\ \A q \in S : rows[q].origin.index <= rows[r].origin.index

Select(h) ==
  LET waiting == Waiting(op[h].row.origin.project) IN
  /\ At(h, "select")
  /\ IF waiting = {} THEN op' = [op EXCEPT ![h] = Idle]
     ELSE \E r \in waiting :
            /\ Latest(waiting, r)
            /\ op' = [op EXCEPT ![h].step = "load", ![h].run = r]
  /\ UNCHANGED <<shared, rows, ops, indices, meant, waits, claims>>

(* _update: the row as it is, then the row as it is to be.                  *)
Load(h) ==
  /\ At(h, "load")
  /\ op' = [op EXCEPT ![h] =
       IF Present(op[h].run)
       THEN [@ EXCEPT !.row = rows[op[h].run], !.step = "write"] ELSE Idle]
  /\ UNCHANGED <<shared, rows, ops, indices, meant, waits, claims>>

Counts(condition) == IF condition THEN 1 ELSE 0

Write(h) ==
  LET r == op[h].run
      mark == op[h].mark
  IN /\ At(h, "write")
     /\ rows' = [rows EXCEPT ![r] =
          [op[h].row EXCEPT !.columns = Written(@, mark)]]
     /\ meant' = [meant EXCEPT ![r] = Written(@, mark)]
     /\ waits' = [waits EXCEPT ![r] = @ + Counts(mark.status = "waiting_user")]
     /\ claims' = [claims EXCEPT ![r] = @ + Counts(op[h].claim)]
     /\ op' = [op EXCEPT ![h] = Idle]
     /\ UNCHANGED <<shared, ops, indices>>

(* The database is locked or the process dies.                              *)
Break(h) ==
  /\ op[h].step # "idle" /\ Alone(h)
  /\ Goes(h, "idle")

RunStep(h) ==
  \/ \E r \in Runs, p \in Projects, kind \in Kinds, max \in 0..MaxMax :
       BeginCreate(h, r, p, kind, max)
  \/ \E r \in Runs, previous \in Runs : BeginContinuation(h, r, previous)
  \/ LoadPrevious(h)
  \/ Check(h)
  \/ InsertRun(h)
  \/ \E r \in Runs, mark \in Marks : BeginMark(h, r, mark)
  \/ \E p \in Projects : BeginClaim(h, p)
  \/ Select(h)
  \/ Load(h)
  \/ Write(h)
  \/ Break(h)

RunsNext == \E h \in Hosts : RunStep(h)

RunsSpec == RunsInit /\ [][RunsNext]_runVars

-----------------------------------------------------------------------------
(* Properties.                                                             *)

RunsTypeOK ==
  /\ shared \in BOOLEAN
  /\ rows \in [Runs -> RunRow]
  /\ op \in [Hosts -> Operation]
  /\ ops \in Nat /\ indices \in Nat
  /\ meant \in [Runs -> Columns]
  /\ waits \in [Runs -> Nat] /\ claims \in [Runs -> Nat]

(* On one event loop a run that waits is resumed by one host: claims never  *)
(* outnumber the times it was put to waiting.                               *)
ClaimedOnce == shared => \A r \in Runs : claims[r] <= waits[r]

(* On one event loop no update is lost: each column holds what the last     *)
(* operation that set it wrote, though every update writes the whole row.   *)
UpdatesStand == shared => \A r \in Runs : rows[r].columns = meant[r]

OriginKept(r) == rows'[r].present /\ rows'[r].origin = rows[r].origin

OriginsKept == \A r \in Runs : Present(r) => OriginKept(r)

(* A run that was created keeps its index, scope and place in its chain:    *)
(* no later creation or update of any host replaces it.                     *)
OriginsStand == [][OriginsKept]_runVars

(* A chain of continuations stays within max_continuations, numbered from   *)
(* its root, whatever the hosts create at the same time.                    *)
ChainsBounded ==
  \A r \in Runs :
    LET origin == rows[r].origin
        parent == rows[origin.parent].origin
    IN (Present(r) /\ origin.parent # NoRun) =>
         /\ origin.cont <= origin.max
         /\ origin.cont = parent.cont + 1 /\ origin.max = parent.max
         /\ parent.index < origin.index
=============================================================================
