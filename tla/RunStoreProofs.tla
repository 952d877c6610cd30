--------------------------- MODULE RunStoreProofs ---------------------------
(***************************************************************************)
(* Proofs about the run records: what a creation gave a run stands, chains  *)
(* of continuations stay within their bound, and on one event loop no       *)
(* update is lost and no run that waits is resumed twice, for any number of *)
(* hosts, runs and operations.                                             *)
(***************************************************************************)
EXTENDS RunStore, TLAPS

(* The parts of the inductive invariant.                                   *)

(* An origin that continues a run of the table, within the bound.           *)
Follows(origin) ==
  origin.parent # NoRun =>
    /\ origin.parent \in Runs /\ Present(origin.parent)
    /\ origin.cont <= origin.max
    /\ origin.cont = rows[origin.parent].origin.cont + 1
    /\ origin.max = rows[origin.parent].origin.max

Chained ==
  \A r \in Runs : Present(r) =>
    /\ rows[r].origin.index <= indices
    /\ Follows(rows[r].origin)
    /\ rows[r].origin.parent # NoRun =>
         rows[rows[r].origin.parent].origin.index < rows[r].origin.index

(* What a host holds of a row fits the table, whoever else writes there.    *)
Fits(o) ==
  /\ o.step \in {"check", "insert"} =>
       /\ o.row.present /\ o.row.columns.status = "pending"
       /\ Follows(o.row.origin)
  /\ o.step = "write" =>
       /\ Present(o.run) /\ o.row.present
       /\ o.row.origin = rows[o.run].origin
  /\ o.claim => o.step \in {"select", "load", "write"} /\ o.mark.status = "resuming"

(* On one event loop it also is what the table holds.                       *)
FitsAlone(o) ==
  /\ o.step = "write" => o.row = rows[o.run]
  /\ o.claim /\ o.step \in {"load", "write"} =>
       rows[o.run].columns.status = "waiting_user"

Fitting == \A h \in Hosts : Fits(op[h])

FittingAlone == shared => \A h \in Hosts : FitsAlone(op[h])

Solo == shared => \A g, h \in Hosts :
          op[g].step # "idle" /\ op[h].step # "idle" => g = h

(* A run that waits has one claim left.                                     *)
ClaimsLeft ==
  shared => \A r \in Runs :
    claims[r] + Counts(rows[r].columns.status = "waiting_user") <= waits[r]

RunsInv ==
  /\ RunsTypeOK /\ Chained /\ Fitting
  /\ Solo /\ FittingAlone /\ UpdatesStand /\ ClaimsLeft

-----------------------------------------------------------------------------
LEMMA BlankType == Blank \in RunRow /\ AnyProject \in Projects /\ AnyRun \in Runs
BY RunStoreConstants, HostConstants
DEF Blank, RunRow, Origin, Columns, Statuses, Kinds, AnyProject, AnyRun

LEMMA IdleType == Idle \in Operation
BY BlankType DEF Idle, Operation, NoMark, Mark, Statuses

LEMMA IdleFits == Fits(Idle) /\ FitsAlone(Idle)
BY DEF Idle, Fits, FitsAlone

LEMMA RunsInitInv == RunsInit => RunsInv
<1>1. SUFFICES ASSUME RunsInit
               PROVE  RunsInv
  OBVIOUS
<1>2. RunsTypeOK
  BY <1>1, BlankType, IdleType DEF RunsInit, RunsTypeOK, Blank, RunRow
<1>3. Chained
  BY <1>1 DEF RunsInit, Chained, Present, Blank
<1>4. Fitting /\ FittingAlone
  BY <1>1, IdleFits DEF RunsInit, Fitting, FittingAlone
<1>5. Solo
  BY <1>1 DEF RunsInit, Solo, Idle
<1>6. UpdatesStand /\ ClaimsLeft
  BY <1>1 DEF RunsInit, UpdatesStand, ClaimsLeft, Counts, Blank
<1>7. QED
  BY <1>2, <1>3, <1>4, <1>5, <1>6 DEF RunsInv

-----------------------------------------------------------------------------
(* Steps that write no row.                                                 *)

Quiet(h) ==
  \/ \E r \in Runs, p \in Projects, kind \in Kinds, max \in 0..MaxMax :
       BeginCreate(h, r, p, kind, max)
  \/ \E r \in Runs, previous \in Runs : BeginContinuation(h, r, previous)
  \/ LoadPrevious(h)
  \/ Check(h)
  \/ \E r \in Runs, mark \in Marks : BeginMark(h, r, mark)
  \/ \E p \in Projects : BeginClaim(h, p)
  \/ Select(h)
  \/ Load(h)
  \/ Break(h)

LEMMA QuietFrame ==
  ASSUME RunsTypeOK, NEW h \in Hosts, Quiet(h)
  PROVE  /\ UNCHANGED <<shared, rows, indices, meant, waits, claims>>
         /\ ops' \in Nat
<1>1. ASSUME NEW operation, Starts(h, operation)
      PROVE  /\ UNCHANGED <<shared, rows, indices, meant, waits, claims>>
             /\ ops' = ops + 1
  BY <1>1 DEF Starts
<1>2. ASSUME NEW step, Goes(h, step)
      PROVE  UNCHANGED <<shared, rows, ops, indices, meant, waits, claims>>
  BY <1>2 DEF Goes
<1>3. ops \in Nat /\ ops + 1 \in Nat
  BY DEF RunsTypeOK
<1>4. CASE LoadPrevious(h) \/ Select(h) \/ Load(h)
  <2>1. UNCHANGED <<shared, rows, ops, indices, meant, waits, claims>>
    BY <1>4, Zenon DEF LoadPrevious, Select, Load
  <2>2. QED
    BY <2>1, <1>3
<1>5. CASE Check(h) \/ Break(h)
  BY <1>2, <1>3, <1>5 DEF Check, Break
<1>6. CASE \/ \E r \in Runs, p \in Projects, kind \in Kinds, max \in 0..MaxMax :
                BeginCreate(h, r, p, kind, max)
           \/ \E r \in Runs, previous \in Runs : BeginContinuation(h, r, previous)
           \/ \E r \in Runs, mark \in Marks : BeginMark(h, r, mark)
           \/ \E p \in Projects : BeginClaim(h, p)
  <2>1. \E operation : Starts(h, operation)
    BY <1>6, Zenon DEF BeginCreate, BeginContinuation, BeginMark, BeginClaim
  <2>2. QED
    BY <1>1, <1>3, <2>1
<1>7. QED
  BY <1>4, <1>5, <1>6 DEF Quiet

(* Every step sets the place of its own host, when it may.                  *)
LEMMA OwnPlace ==
  ASSUME RunsTypeOK, NEW h \in Hosts, RunStep(h)
  PROVE  /\ \A g \in Hosts \ {h} : op'[g] = op[g]
         /\ DOMAIN op' = Hosts /\ op' = [g \in Hosts |-> op'[g]]
         /\ Alone(h)
BY DEF RunsTypeOK, RunStep, BeginCreate, BeginContinuation, LoadPrevious, Check,
       InsertRun, BeginMark, BeginClaim, Select, Load, Write, Break, Starts, Goes, At

(* What a fresh row of a creation is.                                       *)
LEMMA FreshType ==
  ASSUME NEW p \in Projects, NEW kind \in Kinds, NEW cont \in Nat, NEW max \in Nat,
         NEW parent \in Runs \cup {NoRun}
  PROVE  Fresh(p, kind, cont, max, parent) \in RunRow
BY DEF Fresh, RunRow, Origin, Columns, Statuses

LEMMA NoMarkType == NoMark \in Mark
BY DEF NoMark, Mark, Statuses

(* A host's place after a quiet step has its type and fits.                 *)
Placed(o) == o \in Operation /\ Fits(o) /\ (shared => FitsAlone(o))

LEMMA Placing ==
  ASSUME RunsInv, NEW h \in Hosts, NEW o, Placed(o), op' = [op EXCEPT ![h] = o]
  PROVE  Placed(op'[h])
BY DEF RunsInv, RunsTypeOK

LEMMA IdlePlaced == Placed(Idle)
BY IdleType, IdleFits DEF Placed

LEMMA HeldPlaced ==
  ASSUME RunsInv, NEW h \in Hosts
  PROVE  Placed(op[h])
BY DEF RunsInv, RunsTypeOK, Fitting, FittingAlone, Placed

LEMMA CreateStep ==
  ASSUME RunsInv, NEW h \in Hosts, NEW r \in Runs, NEW p \in Projects,
         NEW kind \in Kinds, NEW max \in 0..MaxMax, BeginCreate(h, r, p, kind, max)
  PROVE  Placed(op'[h])
<1> DEFINE o == [step |-> "check", run |-> r, mark |-> NoMark,
                 row |-> Fresh(p, kind, 0, max, NoRun), claim |-> FALSE]
<1>1. o \in Operation
  BY RunStoreConstants, FreshType, NoMarkType DEF Operation
<1>2. Fits(o) /\ FitsAlone(o)
  BY DEF Fits, FitsAlone, Follows, Fresh
<1>3. op' = [op EXCEPT ![h] = o]
  BY DEF BeginCreate, Starts
<1>4. QED
  BY <1>1, <1>2, <1>3, Placing DEF Placed

LEMMA ContinuationStep ==
  ASSUME RunsInv, NEW h \in Hosts, NEW r \in Runs, NEW previous \in Runs,
         BeginContinuation(h, r, previous)
  PROVE  Placed(op'[h])
<1> DEFINE row == [op[h].row EXCEPT !.origin = [@ EXCEPT !.parent = previous]]
           o == [op[h] EXCEPT !.step = "previous", !.run = r, !.mark = NoMark,
                              !.row.origin.parent = previous, !.claim = FALSE]
<1>1. op[h] \in Operation
  BY HeldPlaced DEF Placed
<1>2. row \in RunRow
  BY <1>1 DEF Operation, RunRow, Origin
<1>3. o = [op[h] EXCEPT !.step = "previous", !.run = r, !.mark = NoMark,
                        !.row = row, !.claim = FALSE]
  OBVIOUS
<1>4. o \in Operation /\ o.step = "previous" /\ o.claim = FALSE
  <2> HIDE DEF row
  <2>1. [op[h] EXCEPT !.step = "previous", !.run = r, !.mark = NoMark,
                      !.row = row, !.claim = FALSE] \in Operation
    BY <1>1, <1>2, NoMarkType DEF Operation
  <2>2. QED
    BY <1>1, <1>3, <2>1 DEF Operation
<1> HIDE DEF o
<1>5. Fits(o) /\ FitsAlone(o)
  BY <1>4 DEF Fits, FitsAlone
<1>6. op' = [op EXCEPT ![h] = o]
  BY Zenon DEF BeginContinuation, Starts, o
<1>7. QED
  BY <1>4, <1>5, <1>6, Placing DEF Placed

LEMMA MarkStep ==
  ASSUME RunsInv, NEW h \in Hosts, NEW r \in Runs, NEW mark \in Marks, BeginMark(h, r, mark)
  PROVE  Placed(op'[h])
<1> DEFINE o == [op[h] EXCEPT !.step = "load", !.run = r, !.mark = mark, !.claim = FALSE]
<1>1. op[h] \in Operation
  BY HeldPlaced DEF Placed
<1>2. o \in Operation /\ o.step = "load" /\ o.claim = FALSE
  BY <1>1, RunStoreConstants DEF Operation
<1>3. op' = [op EXCEPT ![h] = o]
  BY Zenon DEF BeginMark, Starts
<1> HIDE DEF o
<1>4. Fits(o) /\ FitsAlone(o)
  BY <1>2 DEF Fits, FitsAlone
<1>5. QED
  BY <1>2, <1>3, <1>4, Placing DEF Placed

LEMMA ClaimStep ==
  ASSUME RunsInv, NEW h \in Hosts, NEW p \in Projects, BeginClaim(h, p)
  PROVE  Placed(op'[h])
<1> DEFINE row == [op[h].row EXCEPT !.origin = [@ EXCEPT !.project = p]]
           mark == [status |-> "resuming", state |-> "keep"]
           o == [op[h] EXCEPT !.step = "select", !.row.origin.project = p,
                              !.mark = mark, !.claim = TRUE]
<1>1. op[h] \in Operation
  BY HeldPlaced DEF Placed
<1>2. row \in RunRow
  BY <1>1 DEF Operation, RunRow, Origin
<1>3. o = [op[h] EXCEPT !.step = "select", !.row = row, !.mark = mark, !.claim = TRUE]
  OBVIOUS
<1>4. /\ o \in Operation
      /\ o.step = "select" /\ o.claim = TRUE /\ o.mark.status = "resuming"
  <2> HIDE DEF row
  <2>1. mark \in Mark
    BY DEF Mark, Statuses
  <2>2. mark.status = "resuming"
    OBVIOUS
  <2> HIDE DEF mark
  <2>3. [op[h] EXCEPT !.step = "select", !.row = row, !.mark = mark, !.claim = TRUE]
          \in Operation
    BY <1>1, <1>2, <2>1 DEF Operation
  <2>4. QED
    BY <1>1, <1>3, <2>2, <2>3 DEF Operation
<1> HIDE DEF o
<1>5. Fits(o) /\ FitsAlone(o)
  BY <1>4 DEF Fits, FitsAlone
<1>6. op' = [op EXCEPT ![h] = o]
  BY Zenon DEF BeginClaim, Starts, o
<1>7. QED
  BY <1>4, <1>5, <1>6, Placing DEF Placed

LEMMA PreviousStep ==
  ASSUME RunsInv, NEW h \in Hosts, LoadPrevious(h)
  PROVE  Placed(op'[h])
<1> DEFINE previous == op[h].row.origin.parent
           origin == rows[previous].origin
           fresh == Fresh(origin.project, origin.kind, origin.cont + 1, origin.max, previous)
           row == [fresh EXCEPT !.columns.state = "some"]
           o == [op[h] EXCEPT !.step = "check", !.row = row]
<1>1. CASE op' = [op EXCEPT ![h] = Idle]
  BY <1>1, IdlePlaced, Placing
<1>2. CASE /\ previous \in Runs /\ Present(previous) /\ Continues(origin)
           /\ op' = [op EXCEPT ![h].step = "check", ![h].row = row]
  <2>1. op[h] \in Operation /\ Fits(op[h]) /\ op[h].step = "previous"
    BY HeldPlaced DEF Placed, LoadPrevious, At
  <2>2. origin \in Origin /\ previous # NoRun /\ previous \in Runs
    BY <1>2, RunStoreConstants DEF RunsInv, RunsTypeOK, RunRow
  <2>3. fresh \in RunRow
    <3> HIDE DEF origin, previous
    <3>1. /\ origin.project \in Projects /\ origin.kind \in Kinds
          /\ origin.cont + 1 \in Nat /\ origin.max \in Nat
          /\ previous \in Runs \cup {NoRun}
      BY <2>2 DEF Origin
    <3>2. QED
      BY <3>1, FreshType
  <2>4. row \in RunRow /\ row.present /\ row.columns.status = "pending"
        /\ row.origin = fresh.origin
    BY <2>3 DEF RunRow, Columns, Fresh
  <2>5. /\ fresh.origin.parent = previous /\ fresh.origin.cont = origin.cont + 1
        /\ fresh.origin.max = origin.max
    BY DEF Fresh
  <2>6. Follows(row.origin)
    BY <1>2, <2>2, <2>4, <2>5 DEF Follows, Continues
  <2> HIDE DEF row
  <2>7. /\ o \in Operation /\ o.step = "check" /\ o.row = row /\ o.claim = op[h].claim
        /\ op' = [op EXCEPT ![h] = o]
    BY <1>2, <2>1, <2>4 DEF Operation, RunsInv, RunsTypeOK
  <2> HIDE DEF o
  <2>8. ~op[h].claim
    BY <2>1 DEF Fits
  <2>9. Fits(o) /\ FitsAlone(o)
    BY <2>4, <2>6, <2>7, <2>8 DEF Fits, FitsAlone
  <2>10. QED
    BY <2>7, <2>9, Placing DEF Placed
<1>3. QED
  BY <1>1, <1>2 DEF LoadPrevious

LEMMA CheckStep ==
  ASSUME RunsInv, NEW h \in Hosts, Check(h)
  PROVE  Placed(op'[h])
<1> DEFINE o == [op[h] EXCEPT !.step = "insert"]
<1>1. CASE op' = [op EXCEPT ![h] = Idle]
  BY <1>1, IdlePlaced, Placing
<1>2. CASE op' = [op EXCEPT ![h].step = "insert"]
  <2>1. op[h] \in Operation /\ Fits(op[h]) /\ op[h].step = "check"
    BY HeldPlaced DEF Placed, Check, At
  <2>2. /\ o \in Operation /\ o.step = "insert" /\ o.row = op[h].row
        /\ o.claim = op[h].claim /\ op' = [op EXCEPT ![h] = o]
    BY <1>2, <2>1 DEF Operation, RunsInv, RunsTypeOK
  <2> HIDE DEF o
  <2>3. Fits(o) /\ FitsAlone(o)
    BY <2>1, <2>2 DEF Fits, FitsAlone
  <2>4. QED
    BY <2>2, <2>3, Placing DEF Placed
<1>3. QED
  BY <1>1, <1>2 DEF Check, Goes

LEMMA SelectStep ==
  ASSUME RunsInv, NEW h \in Hosts, Select(h)
  PROVE  Placed(op'[h])
<1>1. CASE op' = [op EXCEPT ![h] = Idle]
  BY <1>1, IdlePlaced, Placing
<1>2. ASSUME NEW r \in Waiting(op[h].row.origin.project),
             op' = [op EXCEPT ![h].step = "load", ![h].run = r]
      PROVE  Placed(op'[h])
  <2> DEFINE o == [op[h] EXCEPT !.step = "load", !.run = r]
  <2>1. op[h] \in Operation /\ Fits(op[h]) /\ op[h].step = "select"
    BY HeldPlaced DEF Placed, Select, At
  <2>2. r \in Runs /\ rows[r].columns.status = "waiting_user"
    BY <1>2 DEF Waiting
  <2>3. /\ o \in Operation /\ o.step = "load" /\ o.run = r
        /\ o.claim = op[h].claim /\ o.mark = op[h].mark
        /\ op' = [op EXCEPT ![h] = o]
    BY <1>2, <2>1, <2>2 DEF Operation, RunsInv, RunsTypeOK
  <2> HIDE DEF o
  <2>4. Fits(o) /\ FitsAlone(o)
    BY <2>1, <2>2, <2>3 DEF Fits, FitsAlone
  <2>5. QED
    BY <2>3, <2>4, Placing DEF Placed
<1>3. QED
  BY <1>1, <1>2 DEF Select

LEMMA LoadStep ==
  ASSUME RunsInv, NEW h \in Hosts, Load(h)
  PROVE  Placed(op'[h])
<1> DEFINE o == [op[h] EXCEPT !.row = rows[op[h].run], !.step = "write"]
<1>1. op[h] \in Operation /\ Placed(op[h]) /\ op[h].step = "load"
  BY HeldPlaced DEF Placed, Load, At
<1>2. CASE ~Present(op[h].run)
  BY <1>2, IdlePlaced, Placing DEF Load
<1>3. CASE Present(op[h].run)
  <2>1. op[h].run \in Runs /\ rows[op[h].run] \in RunRow
    BY <1>1 DEF Operation, RunsInv, RunsTypeOK
  <2>2. /\ o \in Operation /\ o.step = "write" /\ o.run = op[h].run
        /\ o.row = rows[op[h].run] /\ o.claim = op[h].claim /\ o.mark = op[h].mark
    BY <1>1, <2>1 DEF Operation
  <2>3. op' = [op EXCEPT ![h] = o]
    BY <1>3, Zenon DEF Load
  <2> HIDE DEF o
  <2>4. Fits(o) /\ (shared => FitsAlone(o))
    BY <1>1, <1>3, <2>2 DEF Placed, Fits, FitsAlone, Present
  <2>5. QED
    BY <2>2, <2>3, <2>4, Placing DEF Placed
<1>4. QED
  BY <1>2, <1>3

LEMMA QuietPlaces ==
  ASSUME RunsInv, NEW h \in Hosts, Quiet(h)
  PROVE  Placed(op'[h])
<1>1. CASE Break(h)
  BY <1>1, IdlePlaced, Placing DEF Break, Goes
<1>2. QED
  BY <1>1, CreateStep, ContinuationStep, PreviousStep, CheckStep, MarkStep,
     ClaimStep, SelectStep, LoadStep DEF Quiet

-----------------------------------------------------------------------------
(* Steps that write a row.                                                  *)

Wrote(h, row) == rows' = [rows EXCEPT ![op[h].run] = row]

LEMMA InsertRunFacts ==
  ASSUME RunsInv, NEW h \in Hosts, InsertRun(h)
  PROVE  /\ op' = [op EXCEPT ![h] = Idle]
         /\ UNCHANGED <<shared, ops, waits, claims>>
         /\ op[h] \in Operation /\ op[h].step = "insert" /\ Fits(op[h])
         /\ \/ UNCHANGED <<rows, indices, meant>>
            \/ /\ ~Present(op[h].run)
               /\ indices' = indices + 1
               /\ Wrote(h, [op[h].row EXCEPT !.origin.index = indices + 1])
               /\ meant' = [meant EXCEPT ![op[h].run] = op[h].row.columns]
BY HeldPlaced DEF Placed, InsertRun, At, Unique, Wrote

LEMMA WriteFacts ==
  ASSUME RunsInv, NEW h \in Hosts, Write(h)
  PROVE  /\ op' = [op EXCEPT ![h] = Idle]
         /\ UNCHANGED <<shared, ops, indices>>
         /\ Placed(op[h]) /\ op[h].step = "write" /\ Present(op[h].run)
         /\ Wrote(h, [op[h].row EXCEPT !.columns = Written(@, op[h].mark)])
         /\ meant' = [meant EXCEPT ![op[h].run] = Written(@, op[h].mark)]
BY HeldPlaced, Zenon DEF Placed, Fits, Write, At, Wrote

(* The new row of an insert and of an update.                               *)
LEMMA InsertedRow ==
  ASSUME RunsInv, NEW o \in Operation, o.step = "insert", Fits(o),
         NEW row, row = [o.row EXCEPT !.origin.index = indices + 1]
  PROVE  /\ row \in RunRow /\ row.present
         /\ row.columns = o.row.columns /\ row.columns.status = "pending"
         /\ row.origin.index = indices + 1
         /\ row.origin.parent = o.row.origin.parent
         /\ Follows(row.origin)
<1>1. o.row \in RunRow /\ indices + 1 \in Nat
  BY DEF Operation, RunsInv, RunsTypeOK
<1>2. o.row.present /\ o.row.columns.status = "pending" /\ Follows(o.row.origin)
  BY DEF Fits
<1>3. row \in RunRow /\ row.present /\ row.columns = o.row.columns
  BY <1>1, <1>2 DEF RunRow, Origin
<1>4. /\ row.origin.index = indices + 1
      /\ row.origin.parent = o.row.origin.parent
      /\ row.origin.cont = o.row.origin.cont
      /\ row.origin.max = o.row.origin.max
  BY <1>1 DEF RunRow, Origin
<1>5. QED
  BY <1>2, <1>3, <1>4 DEF Follows

LEMMA WrittenRow ==
  ASSUME NEW o \in Operation,
         NEW row, row = [o.row EXCEPT !.columns = Written(@, o.mark)]
  PROVE  /\ row \in RunRow
         /\ row.present = o.row.present /\ row.origin = o.row.origin
         /\ row.columns = Written(o.row.columns, o.mark)
         /\ row.columns.status = o.mark.status
<1>1. o.row \in RunRow /\ o.mark \in Mark
  BY DEF Operation
<1>2. /\ Written(o.row.columns, o.mark) \in Columns
      /\ Written(o.row.columns, o.mark).status = o.mark.status
  BY <1>1 DEF Written, Mark, Columns, RunRow
<1>3. QED
  BY <1>1, <1>2 DEF RunRow

LEMMA RowsChange ==
  ASSUME RunsInv, NEW h \in Hosts, NEW row, Wrote(h, row)
  PROVE  /\ op[h].run \in Runs /\ rows'[op[h].run] = row
         /\ \A q \in Runs \ {op[h].run} : rows'[q] = rows[q]
         /\ row \in RunRow => rows' \in [Runs -> RunRow]
<1>1. op[h].run \in Runs
  BY DEF RunsInv, RunsTypeOK, Operation
<1>2. QED
  BY <1>1 DEF Wrote, RunsInv, RunsTypeOK

(* No step takes a run away or replaces what its creation gave it.          *)
LEMMA OriginsStay ==
  ASSUME RunsInv, [RunsNext]_runVars
  PROVE  OriginsKept
<1> USE DEF OriginsKept
<1>1. CASE rows' = rows
  BY <1>1 DEF OriginKept, Present
<1>2. ASSUME NEW h \in Hosts, InsertRun(h)
      PROVE  OriginsKept
  BY <1>1, <1>2, InsertRunFacts, RowsChange DEF OriginKept, Present
<1>3. ASSUME NEW h \in Hosts, Write(h)
      PROVE  OriginsKept
  <2> DEFINE row == [op[h].row EXCEPT !.columns = Written(@, op[h].mark)]
  <2>1. op[h] \in Operation /\ Fits(op[h]) /\ op[h].step = "write" /\ Wrote(h, row)
    BY <1>3, WriteFacts DEF Placed
  <2>2. row.present = op[h].row.present /\ row.origin = op[h].row.origin
    BY <2>1, WrittenRow
  <2> HIDE DEF row
  <2>3. row.present /\ row.origin = rows[op[h].run].origin
    BY <2>1, <2>2 DEF Fits
  <2>4. QED
    BY <2>1, <2>3, RowsChange DEF OriginKept, Present
<1>4. CASE UNCHANGED runVars
  BY <1>1, <1>4 DEF runVars
<1>5. ASSUME NEW h \in Hosts, Quiet(h)
      PROVE  rows' = rows
  BY <1>5, QuietFrame DEF RunsInv
<1>6. QED
  BY <1>1, <1>2, <1>3, <1>4, <1>5 DEF RunsNext, RunStep, Quiet

LEMMA RunTypeStep ==
  ASSUME RunsInv, [RunsNext]_runVars
  PROVE  RunsTypeOK'
<1>1. CASE UNCHANGED runVars
  BY <1>1 DEF runVars, RunsInv, RunsTypeOK
<1>2. ASSUME NEW h \in Hosts, RunStep(h), op'[h] \in Operation
      PROVE  op' \in [Hosts -> Operation]
  BY <1>2, OwnPlace DEF RunsInv, RunsTypeOK
<1>3. ASSUME NEW h \in Hosts, Quiet(h)
      PROVE  RunsTypeOK'
  <2>1. op' \in [Hosts -> Operation]
    BY <1>2, <1>3, QuietPlaces DEF Placed, Quiet, RunStep
  <2>2. QED
    BY <1>3, <2>1, QuietFrame DEF RunsInv, RunsTypeOK
<1>4. ASSUME NEW h \in Hosts, op' = [op EXCEPT ![h] = Idle]
      PROVE  op' \in [Hosts -> Operation]
  BY <1>4, IdleType DEF RunsInv, RunsTypeOK
<1>5. ASSUME NEW h \in Hosts, InsertRun(h)
      PROVE  RunsTypeOK'
  <2> DEFINE row == [op[h].row EXCEPT !.origin.index = indices + 1]
  <2>1. op' \in [Hosts -> Operation] /\ op[h] \in Operation
    BY <1>4, <1>5, InsertRunFacts
  <2>2. row \in RunRow
    BY <1>5, InsertRunFacts, InsertedRow
  <2> HIDE DEF row
  <2>3. CASE UNCHANGED <<rows, indices, meant>>
    BY <1>5, <2>1, <2>3, InsertRunFacts DEF RunsInv, RunsTypeOK
  <2>4. CASE /\ indices' = indices + 1 /\ Wrote(h, row)
             /\ meant' = [meant EXCEPT ![op[h].run] = op[h].row.columns]
    <3>1. op[h].row.columns \in Columns
      BY <2>1 DEF Operation, RunRow
    <3>2. rows' \in [Runs -> RunRow] /\ meant' \in [Runs -> Columns] /\ indices' \in Nat
      BY <2>2, <2>4, <3>1, RowsChange DEF RunsInv, RunsTypeOK
    <3>3. QED
      BY <1>5, <2>1, <3>2, InsertRunFacts DEF RunsInv, RunsTypeOK
  <2>5. QED
    BY <1>5, <2>3, <2>4, InsertRunFacts DEF row
<1>6. ASSUME NEW h \in Hosts, Write(h)
      PROVE  RunsTypeOK'
  <2> DEFINE row == [op[h].row EXCEPT !.columns = Written(@, op[h].mark)]
  <2>1. op' \in [Hosts -> Operation] /\ op[h] \in Operation /\ Wrote(h, row)
    BY <1>4, <1>6, WriteFacts DEF Placed
  <2>2. row \in RunRow
    BY <2>1, WrittenRow
  <2> HIDE DEF row
  <2>3. rows' \in [Runs -> RunRow]
    BY <2>1, <2>2, RowsChange
  <2>4. op[h].run \in Runs /\ op[h].mark \in Mark /\ op[h].claim \in BOOLEAN
    BY <2>1 DEF Operation
  <2>5. meant' \in [Runs -> Columns]
    <3>1. Written(meant[op[h].run], op[h].mark) \in Columns
      BY <2>4 DEF Written, Mark, Columns, RunsInv, RunsTypeOK
    <3>2. meant' = [meant EXCEPT ![op[h].run] = Written(meant[op[h].run], op[h].mark)]
      BY <1>6, WriteFacts
    <3>3. QED
      BY <2>4, <3>1, <3>2 DEF RunsInv, RunsTypeOK
  <2>6. ASSUME NEW c \in BOOLEAN, NEW n \in Nat
        PROVE  n + Counts(c) \in Nat
    BY DEF Counts
  <2>7. waits' \in [Runs -> Nat]
    <3> DEFINE n == waits[op[h].run] + Counts(op[h].mark.status = "waiting_user")
    <3>1. waits' = [waits EXCEPT ![op[h].run] = n]
      BY <1>6, Zenon DEF Write
    <3>2. n \in Nat
      BY <2>4, <2>6 DEF RunsInv, RunsTypeOK
    <3>3. QED
      BY <3>1, <3>2 DEF RunsInv, RunsTypeOK
  <2>8. claims' \in [Runs -> Nat]
    <3> DEFINE n == claims[op[h].run] + Counts(op[h].claim)
    <3>1. claims' = [claims EXCEPT ![op[h].run] = n]
      BY <1>6, Zenon DEF Write
    <3>2. n \in Nat
      BY <2>4, <2>6 DEF RunsInv, RunsTypeOK
    <3>3. QED
      BY <3>1, <3>2 DEF RunsInv, RunsTypeOK
  <2>9. QED
    BY <1>6, <2>1, <2>3, <2>5, <2>7, <2>8, WriteFacts DEF RunsInv, RunsTypeOK
<1>7. QED
  BY <1>1, <1>3, <1>5, <1>6 DEF RunsNext, RunStep, Quiet

(* What follows a run goes on following it.                                 *)
LEMMA FollowsStays ==
  ASSUME RunsInv, [RunsNext]_runVars, NEW origin, Follows(origin)
  PROVE  /\ origin.parent # NoRun =>
              /\ origin.parent \in Runs /\ rows'[origin.parent].present
              /\ origin.cont <= origin.max
              /\ origin.cont = rows'[origin.parent].origin.cont + 1
              /\ origin.max = rows'[origin.parent].origin.max
              /\ rows'[origin.parent].origin = rows[origin.parent].origin
BY OriginsStay DEF Follows, Present, OriginsKept, OriginKept

LEMMA ChainedStep ==
  ASSUME RunsInv, [RunsNext]_runVars
  PROVE  Chained'
<1>1. indices' \in Nat /\ indices <= indices'
  <2>1. indices \in Nat
    BY DEF RunsInv, RunsTypeOK
  <2>2. CASE indices' = indices
    BY <2>1, <2>2
  <2>3. ASSUME NEW h \in Hosts, InsertRun(h)
        PROVE  indices' \in {indices, indices + 1}
    BY <2>3, InsertRunFacts
  <2>4. ASSUME NEW h \in Hosts, Quiet(h) \/ Write(h)
        PROVE  indices' = indices
    BY <2>4, QuietFrame, WriteFacts DEF RunsInv
  <2>5. QED
    BY <2>1, <2>2, <2>3, <2>4 DEF RunsNext, RunStep, Quiet, runVars
<1>2. SUFFICES ASSUME NEW r \in Runs, rows'[r].present
               PROVE  /\ rows'[r].origin.index <= indices'
                      /\ Follows(rows[r].origin)'
                      /\ rows'[r].origin.parent # NoRun =>
                           rows'[rows'[r].origin.parent].origin.index < rows'[r].origin.index
  BY DEF Chained, Present
<1>3. CASE Present(r)
  <2>1. rows'[r].origin = rows[r].origin
    BY <1>3, OriginsStay DEF OriginsKept, OriginKept
  <2>2. /\ rows[r].origin.index <= indices /\ Follows(rows[r].origin)
        /\ rows[r].origin.parent # NoRun =>
             rows[rows[r].origin.parent].origin.index < rows[r].origin.index
    BY <1>3 DEF RunsInv, Chained
  <2>3. rows[r].origin.index \in Nat /\ indices \in Nat
    BY DEF RunsInv, RunsTypeOK, RunRow, Origin
  <2>4. QED
    BY <1>1, <2>1, <2>2, <2>3, FollowsStays DEF Follows, Present
<1>4. CASE ~Present(r)
  <2>1. PICK h \in Hosts : InsertRun(h) \/ Write(h)
    BY <1>2, <1>4, QuietFrame DEF RunsNext, RunStep, Quiet, runVars, Present, RunsInv
  <2>2. InsertRun(h)
    BY <1>2, <1>4, <2>1, WriteFacts, RowsChange DEF Present
  <2> DEFINE row == [op[h].row EXCEPT !.origin.index = indices + 1]
  <2>3. /\ indices' = indices + 1 /\ Wrote(h, row)
        /\ op[h] \in Operation /\ op[h].step = "insert" /\ Fits(op[h])
    BY <1>2, <1>4, <2>2, InsertRunFacts DEF Present
  <2>4. /\ row.origin.index = indices + 1 /\ Follows(row.origin)
    BY <2>3, InsertedRow
  <2> HIDE DEF row
  <2>5. rows'[r] = row
    BY <1>2, <1>4, <2>3, RowsChange DEF Present
  <2>6. ASSUME row.origin.parent # NoRun
        PROVE  rows'[row.origin.parent].origin.index < row.origin.index
    <3>1. /\ row.origin.parent \in Runs /\ Present(row.origin.parent)
          /\ rows'[row.origin.parent].origin = rows[row.origin.parent].origin
      BY <2>4, <2>6, FollowsStays DEF Follows
    <3>2. /\ rows[row.origin.parent].origin.index <= indices
          /\ rows[row.origin.parent].origin.index \in Nat /\ indices \in Nat
      BY <3>1 DEF RunsInv, Chained, RunsTypeOK, RunRow, Origin
    <3>3. QED
      BY <2>4, <3>1, <3>2
  <2>7. QED
    BY <1>1, <2>3, <2>4, <2>5, <2>6, FollowsStays DEF Follows, Present
<1>5. QED
  BY <1>3, <1>4

LEMMA FittingStep ==
  ASSUME RunsInv, [RunsNext]_runVars
  PROVE  Fitting'
<1>1. SUFFICES ASSUME NEW h \in Hosts
               PROVE  Fits(op[h])'
  BY DEF Fitting
<1>2. ASSUME NEW o \in Operation, Fits(o), op'[h] = o
      PROVE  Fits(op[h])'
  <2>1. o.run \in Runs
    BY <1>2 DEF Operation
  <2>2. o.step = "write" => rows'[o.run].present /\ rows'[o.run].origin = rows[o.run].origin
    BY <1>2, <2>1, OriginsStay DEF Fits, OriginsKept, OriginKept
  <2>3. Follows(o.row.origin) =>
          (o.row.origin.parent # NoRun =>
             /\ o.row.origin.parent \in Runs /\ rows'[o.row.origin.parent].present
             /\ o.row.origin.cont <= o.row.origin.max
             /\ o.row.origin.cont = rows'[o.row.origin.parent].origin.cont + 1
             /\ o.row.origin.max = rows'[o.row.origin.parent].origin.max)
    BY FollowsStays
  <2>4. QED
    BY <1>2, <2>2, <2>3 DEF Fits, Follows, Present
<1>3. CASE op'[h] = op[h]
  BY <1>2, <1>3, HeldPlaced DEF Placed
<1>4. CASE Quiet(h)
  BY <1>2, <1>4, QuietPlaces DEF Placed
<1>5. CASE InsertRun(h) \/ Write(h)
  BY <1>2, <1>5, InsertRunFacts, WriteFacts, IdleType, IdleFits DEF RunsInv, RunsTypeOK
<1>6. CASE RunStep(h)
  BY <1>4, <1>5, <1>6 DEF RunStep, Quiet
<1>7. QED
  BY <1>3, <1>6, OwnPlace DEF RunsNext, runVars, RunsInv

LEMMA SoloStep ==
  ASSUME RunsInv, [RunsNext]_runVars
  PROVE  Solo' /\ (shared => \A h \in Hosts : RunStep(h) =>
                      \A g \in Hosts \ {h} : op[g].step = "idle" /\ op'[g].step = "idle")
<1>1. shared' = shared
  BY QuietFrame, InsertRunFacts, WriteFacts DEF RunsNext, RunStep, Quiet, runVars, RunsInv
<1>2. ASSUME NEW h \in Hosts, RunStep(h), shared
      PROVE  \A g \in Hosts \ {h} : op[g].step = "idle" /\ op'[g].step = "idle"
  BY <1>2, OwnPlace DEF Alone, RunsInv
<1>3. CASE UNCHANGED runVars
  BY <1>1, <1>2, <1>3 DEF runVars, RunsInv, Solo
<1>4. CASE RunsNext
  BY <1>1, <1>2, <1>4 DEF RunsNext, Solo
<1>5. QED
  BY <1>2, <1>3, <1>4

LEMMA FittingAloneStep ==
  ASSUME RunsInv, [RunsNext]_runVars
  PROVE  FittingAlone'
<1>1. CASE UNCHANGED runVars
  BY <1>1 DEF runVars, RunsInv, FittingAlone, FitsAlone
<1>2. ASSUME NEW h \in Hosts, RunStep(h), shared', NEW g \in Hosts
      PROVE  FitsAlone(op[g])'
  <2>1. shared
    BY <1>2, QuietFrame, InsertRunFacts, WriteFacts DEF RunStep, Quiet, RunsInv
  <2>2. CASE g # h
    <3>1. op'[g] = op[g] /\ op[g].step = "idle" /\ Fits(op[g])
      BY <1>2, <2>1, <2>2, OwnPlace, SoloStep, HeldPlaced DEF RunsNext, RunsInv, Placed
    <3>2. ~op[g].claim
      BY <3>1 DEF Fits
    <3>3. QED
      BY <3>1, <3>2 DEF FitsAlone
  <2>3. CASE g = h /\ Quiet(h)
    <3>1. FitsAlone(op'[h]) /\ rows' = rows
      BY <2>1, <2>3, QuietPlaces, QuietFrame DEF Placed, RunsInv
    <3>2. QED
      BY <2>3, <3>1 DEF FitsAlone
  <2>4. CASE g = h /\ (InsertRun(h) \/ Write(h))
    <3>1. op'[h] = Idle
      BY <2>4, InsertRunFacts, WriteFacts DEF RunsInv, RunsTypeOK
    <3>2. QED
      BY <2>4, <3>1 DEF FitsAlone, Idle
  <2>5. QED
    BY <1>2, <2>2, <2>3, <2>4 DEF RunStep, Quiet
<1>3. QED
  BY <1>1, <1>2 DEF RunsNext, FittingAlone

LEMMA UpdatesStep ==
  ASSUME RunsInv, [RunsNext]_runVars
  PROVE  UpdatesStand'
<1>1. CASE UNCHANGED <<shared, rows, meant>>
  BY <1>1 DEF RunsInv, UpdatesStand
<1>2. ASSUME NEW h \in Hosts, InsertRun(h)
      PROVE  UpdatesStand'
  <2> DEFINE row == [op[h].row EXCEPT !.origin.index = indices + 1]
  <2>1. CASE /\ Wrote(h, row)
             /\ meant' = [meant EXCEPT ![op[h].run] = op[h].row.columns]
    <3>1. row.columns = op[h].row.columns
      BY <1>2, InsertRunFacts, InsertedRow
    <3> HIDE DEF row
    <3>2. /\ rows'[op[h].run] = row /\ shared' = shared
          /\ \A q \in Runs \ {op[h].run} : rows'[q] = rows[q]
      BY <1>2, <2>1, RowsChange, InsertRunFacts
    <3>3. /\ meant'[op[h].run] = op[h].row.columns
          /\ \A q \in Runs \ {op[h].run} : meant'[q] = meant[q]
      BY <2>1, RowsChange DEF RunsInv, RunsTypeOK
    <3>4. QED
      BY <3>1, <3>2, <3>3 DEF RunsInv, UpdatesStand
  <2>2. QED
    BY <1>1, <1>2, <2>1, InsertRunFacts
<1>3. ASSUME NEW h \in Hosts, Write(h)
      PROVE  UpdatesStand'
  <2> DEFINE row == [op[h].row EXCEPT !.columns = Written(@, op[h].mark)]
             r == op[h].run
  <2>1. /\ op[h] \in Operation /\ Wrote(h, row) /\ shared' = shared
        /\ shared => op[h].row = rows[r]
        /\ meant' = [meant EXCEPT ![r] = Written(@, op[h].mark)]
    BY <1>3, WriteFacts DEF Placed, FitsAlone
  <2>2. row.columns = Written(op[h].row.columns, op[h].mark)
    BY <2>1, WrittenRow
  <2> HIDE DEF row
  <2>3. /\ r \in Runs /\ rows'[r] = row
        /\ \A q \in Runs \ {r} : rows'[q] = rows[q] /\ meant'[q] = meant[q]
        /\ meant'[r] = Written(meant[r], op[h].mark)
    BY <2>1, RowsChange DEF RunsInv, RunsTypeOK
  <2>4. QED
    BY <2>1, <2>2, <2>3 DEF RunsInv, UpdatesStand
<1>4. ASSUME NEW h \in Hosts, Quiet(h)
      PROVE  UpdatesStand'
  BY <1>1, <1>4, QuietFrame DEF RunsInv
<1>5. QED
  BY <1>1, <1>2, <1>3, <1>4 DEF RunsNext, RunStep, Quiet, runVars

LEMMA ClaimsStep ==
  ASSUME RunsInv, [RunsNext]_runVars
  PROVE  ClaimsLeft'
<1>1. CASE UNCHANGED <<shared, rows, waits, claims>>
  BY <1>1 DEF RunsInv, ClaimsLeft, Counts
<1>2. \A r \in Runs : claims[r] \in Nat /\ waits[r] \in Nat
  BY DEF RunsInv, RunsTypeOK
<1>3. ASSUME NEW h \in Hosts, InsertRun(h)
      PROVE  ClaimsLeft'
  <2> DEFINE row == [op[h].row EXCEPT !.origin.index = indices + 1]
  <2>1. CASE Wrote(h, row)
    <3>1. row.columns.status = "pending"
      BY <1>3, InsertRunFacts, InsertedRow
    <3> HIDE DEF row
    <3>2. /\ \A q \in Runs : rows'[q] = rows[q] \/ rows'[q] = row
          /\ UNCHANGED <<shared, waits, claims>>
      BY <1>3, <2>1, RowsChange, InsertRunFacts
    <3>3. QED
      BY <1>2, <3>1, <3>2 DEF RunsInv, ClaimsLeft, Counts
  <2>2. QED
    BY <1>1, <1>3, <2>1, InsertRunFacts
<1>4. ASSUME NEW h \in Hosts, Write(h)
      PROVE  ClaimsLeft'
  <2> DEFINE row == [op[h].row EXCEPT !.columns = Written(@, op[h].mark)]
             r == op[h].run
             waiting == op[h].mark.status = "waiting_user"
  <2>1. /\ op[h] \in Operation /\ Wrote(h, row) /\ shared' = shared
        /\ Placed(op[h]) /\ op[h].step = "write"
    BY <1>4, WriteFacts DEF Placed
  <2>2. row.columns.status = op[h].mark.status
    BY <2>1, WrittenRow
  <2> HIDE DEF row
  <2>3. /\ r \in Runs /\ rows'[r] = row
        /\ \A q \in Runs \ {r} : rows'[q] = rows[q]
    BY <2>1, RowsChange
  <2>4. /\ waits' = [waits EXCEPT ![r] = waits[r] + Counts(waiting)]
        /\ claims' = [claims EXCEPT ![r] = claims[r] + Counts(op[h].claim)]
    BY <1>4, Zenon DEF Write
  <2>5. /\ waits'[r] = waits[r] + Counts(waiting)
        /\ claims'[r] = claims[r] + Counts(op[h].claim)
        /\ \A q \in Runs \ {r} : waits'[q] = waits[q] /\ claims'[q] = claims[q]
    BY <2>3, <2>4 DEF RunsInv, RunsTypeOK
  <2>6. shared /\ op[h].claim =>
          rows[r].columns.status = "waiting_user" /\ ~waiting
    BY <2>1 DEF Placed, Fits, FitsAlone
  <2>7. op[h].claim \in BOOLEAN
    BY <2>1 DEF Operation
  <2>8. ASSUME shared
        PROVE  claims'[r] + Counts(rows'[r].columns.status = "waiting_user") <= waits'[r]
    <3>1. claims[r] + Counts(rows[r].columns.status = "waiting_user") <= waits[r]
      BY <2>3, <2>8 DEF RunsInv, ClaimsLeft
    <3>2. (rows'[r].columns.status = "waiting_user") = waiting
      BY <2>2, <2>3
    <3>3. CASE op[h].claim
      BY <1>2, <2>3, <2>5, <2>6, <2>8, <3>1, <3>2, <3>3 DEF Counts
    <3>4. CASE ~op[h].claim
      BY <1>2, <2>3, <2>5, <3>1, <3>2, <3>4 DEF Counts
    <3>5. QED
      BY <3>3, <3>4
  <2>9. QED
    BY <2>1, <2>3, <2>5, <2>8 DEF RunsInv, ClaimsLeft
<1>5. ASSUME NEW h \in Hosts, Quiet(h)
      PROVE  ClaimsLeft'
  BY <1>1, <1>5, QuietFrame DEF RunsInv
<1>6. QED
  BY <1>1, <1>3, <1>4, <1>5 DEF RunsNext, RunStep, Quiet, runVars

-----------------------------------------------------------------------------
LEMMA RunsInvInductive == RunsSpec => []RunsInv
<1>1. RunsInv /\ [RunsNext]_runVars => RunsInv'
  BY RunTypeStep, ChainedStep, FittingStep, SoloStep, FittingAloneStep, UpdatesStep,
     ClaimsStep DEF RunsInv
<1>2. QED
  BY RunsInitInv, <1>1, PTL DEF RunsSpec

(* The rows and the hosts' operations keep their types.                     *)
THEOREM RunTypesHold == RunsSpec => []RunsTypeOK
<1>1. RunsInv => RunsTypeOK
  BY DEF RunsInv
<1>2. QED
  BY <1>1, RunsInvInductive, PTL

(* A run that was created keeps its index, scope and place in its chain,    *)
(* though every update writes the whole row and two hosts may create under  *)
(* one id.                                                                 *)
THEOREM CreationsStand == RunsSpec => OriginsStand
<1>1. RunsInv /\ [RunsNext]_runVars => [OriginsKept]_runVars
  BY OriginsStay
<1>2. QED
  BY <1>1, RunsInvInductive, PTL DEF RunsSpec, OriginsStand

(* A chain of continuations stays within max_continuations, numbered from   *)
(* its root.                                                               *)
THEOREM ChainsStayBounded == RunsSpec => []ChainsBounded
<1>1. RunsInv => ChainsBounded
  BY DEF RunsInv, Chained, Follows, ChainsBounded
<1>2. QED
  BY <1>1, RunsInvInductive, PTL

(* On one event loop no update is lost, though each writes back the row it  *)
(* loaded.                                                                 *)
THEOREM NoUpdateIsLost == RunsSpec => []UpdatesStand
<1>1. RunsInv => UpdatesStand
  BY DEF RunsInv
<1>2. QED
  BY <1>1, RunsInvInductive, PTL

(* On one event loop a run that waits is claimed once.                      *)
THEOREM WaitingRunsAreClaimedOnce == RunsSpec => []ClaimedOnce
<1>1. ASSUME RunsInv
      PROVE  ClaimedOnce
  <2>1. \A r \in Runs : claims[r] \in Nat /\ waits[r] \in Nat
    BY <1>1 DEF RunsInv, RunsTypeOK
  <2>2. QED
    BY <1>1, <2>1 DEF RunsInv, ClaimsLeft, ClaimedOnce, Counts
<1>2. QED
  BY <1>1, RunsInvInductive, PTL
=============================================================================
