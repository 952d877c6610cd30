------------------------------ MODULE EventLog ------------------------------
(***************************************************************************)
(* The event log behind EventLogPort: SQLiteEventLog of the reference host  *)
(* (examples/reference_host/sqlite_reference_host.py) and InMemoryEventLog  *)
(* (rd_agent_core/testing.py), with the events CoreEventWriter appends and  *)
(* followers that poll stream_events.                                      *)
(*                                                                         *)
(* append_event of SQLite looks its key up, reads the last number and then  *)
(* inserts: the transaction of "with connection" begins at the insert, so   *)
(* that hosts with connections of their own interleave before it.  Hosts    *)
(* that share a connection or the in-memory log are one event loop, which   *)
(* no append leaves.                                                       *)
(***************************************************************************)
EXTENDS HostProcesses

CONSTANTS
  Keys,      (* idempotency keys                                           *)
  NoKey,     (* idempotency_key=None                                       *)
  MaxAppends (* bound on the appends begun                                 *)

ASSUME LogConstants == NoKey \notin Keys /\ MaxAppends \in Nat

VARIABLES
  events,  (* the table reference_events                                   *)
  keys,    (* reference_event_idempotency: the number of a key, or 0       *)
  append,  (* where each host is in append_event                           *)
  begun,   (* the appends begun, which number them                         *)
  answers, (* history: what append_event returned, with the append asked   *)
  read     (* of each run, how far a follower got and what it was given    *)

logVars == <<shared, events, keys, append, begun, answers, read>>

EventRow == [run : Runs, seq : Nat \ {0}, key : Keys \cup {NoKey}, id : Nat]

AppendCall == [step : {"idle", "lookup", "number", "insert", "answer"},
           run : Runs, key : Keys \cup {NoKey}, seq : Nat, id : Nat]

NoAppend ==
  [step |-> "idle", run |-> AnyRun, key |-> NoKey, seq |-> 0, id |-> 0]

Of(r) == {e \in events : e.run = r}

(* No other host of the event loop is inside append_event.                  *)
Free(h) == shared => \A g \in Hosts \ {h} : append[g].step = "idle"

Step(h, from, to) ==
  /\ append[h].step = from /\ Free(h)
  /\ append' = [append EXCEPT ![h].step = to]

(* append_event returns or raises.                                         *)
Leave(h, from) ==
  /\ append[h].step = from /\ Free(h)
  /\ append' = [append EXCEPT ![h] = NoAppend]

Answer(h, event) == [asked |-> append[h].id, event |-> event]

-----------------------------------------------------------------------------
LogInit ==
  /\ shared \in BOOLEAN
  /\ events = {}
  /\ keys = [r \in Runs |-> [k \in Keys |-> 0]]
  /\ append = [h \in Hosts |-> NoAppend]
  /\ begun = 0
  /\ answers = {}
  /\ read = [r \in Runs |-> [from |-> 0, got |-> {}]]

(* A host appends an event, under a key or not; under the key of an         *)
(* earlier append when it retries.                                         *)
Begin(h, r, k) ==
  /\ append[h].step = "idle" /\ Free(h)
  /\ begun < MaxAppends
  /\ begun' = begun + 1
  /\ append' = [append EXCEPT ![h] =
       [step |-> IF k = NoKey THEN "number" ELSE "lookup",
        run |-> r, key |-> k, seq |-> 0, id |-> begun + 1]]
  /\ UNCHANGED <<shared, events, keys, answers, read>>

(* The event stored under the key.                                         *)
Stored(h) ==
  {e \in Of(append[h].run) : /\ append[h].key # NoKey
                             /\ e.seq = keys[append[h].run][append[h].key]}

LookupFinds(h) ==
  /\ Leave(h, "lookup")
  /\ \E e \in Stored(h) : answers' = answers \cup {Answer(h, e)}
  /\ UNCHANGED <<shared, events, keys, begun, read>>

LookupMisses(h) ==
  /\ Step(h, "lookup", "number")
  /\ Stored(h) = {}
  /\ UNCHANGED <<shared, events, keys, begun, answers, read>>

(* COALESCE(MAX(seq), 0) is n.                                             *)
LastNumber(r, n) ==
  /\ n = 0 \/ \E e \in Of(r) : e.seq = n
  /\ \A e \in Of(r) : e.seq <= n

Number(h) ==
  /\ append[h].step = "number" /\ Free(h)
  /\ \E n \in {0} \cup {e.seq : e \in Of(append[h].run)} :
       /\ LastNumber(append[h].run, n)
       /\ append' = [append EXCEPT ![h].step = "insert", ![h].seq = n + 1]
  /\ UNCHANGED <<shared, events, keys, begun, answers, read>>

NewEvent(h) == [run |-> append[h].run, seq |-> append[h].seq,
           key |-> append[h].key, id |-> append[h].id]

(* Mutants of Admits: reference_events without its primary key, and the     *)
(* table of keys without its own.                                          *)
AdmitsAnyNumber(h) ==
  append[h].key # NoKey => keys[append[h].run][append[h].key] = 0

AdmitsAnyKey(h) == \A e \in Of(append[h].run) : e.seq # append[h].seq

(* The primary keys (run_id, seq) and (run_id, idempotency_key) admit it.   *)
Admits(h) ==
  /\ \A e \in Of(append[h].run) : e.seq # append[h].seq
  /\ append[h].key # NoKey => keys[append[h].run][append[h].key] = 0

(* The transaction: the event and its key, or an IntegrityError and neither.*)
InsertEvent(h) ==
  /\ Step(h, "insert", "answer")
  /\ Admits(h)
  /\ events' = events \cup {NewEvent(h)}
  /\ keys' = IF append[h].key = NoKey THEN keys
             ELSE [keys EXCEPT ![append[h].run][append[h].key] = append[h].seq]
  /\ UNCHANGED <<shared, begun, answers, read>>

InsertEventFails(h) ==
  /\ Leave(h, "insert")
  /\ ~Admits(h)
  /\ UNCHANGED <<shared, events, keys, begun, answers, read>>

Return(h) ==
  /\ Leave(h, "answer")
  /\ answers' = answers \cup {Answer(h, NewEvent(h))}
  /\ UNCHANGED <<shared, events, keys, begun, read>>

(* The database is locked or the process dies, before the commit or after   *)
(* it: nobody gets an answer.                                              *)
Abandon(h) ==
  /\ append[h].step # "idle"
  /\ Leave(h, append[h].step)
  /\ UNCHANGED <<shared, events, keys, begun, answers, read>>

(* stream_events(from_seq, limit): the next events in order, all of them or *)
(* as many as the limit; the follower goes on from the last.                *)
Follow(r) ==
  LET news == {e \in Of(r) : e.seq > read[r].from} IN
  /\ shared => \A h \in Hosts : append[h].step = "idle"
  /\ \E last \in news :
       read' = [read EXCEPT ![r] =
         [from |-> last.seq,
          got |-> @.got \cup {e \in news : e.seq <= last.seq}]]
  /\ UNCHANGED <<shared, events, keys, append, begun, answers>>

AppendStep(h) ==
  \/ \E r \in Runs, k \in Keys \cup {NoKey} : Begin(h, r, k)
  \/ LookupFinds(h)
  \/ LookupMisses(h)
  \/ Number(h)
  \/ InsertEvent(h)
  \/ InsertEventFails(h)
  \/ Return(h)
  \/ Abandon(h)

LogNext ==
  \/ \E h \in Hosts : AppendStep(h)
  \/ \E r \in Runs : Follow(r)

LogSpec == LogInit /\ [][LogNext]_logVars

-----------------------------------------------------------------------------
(* Properties.                                                             *)

LogTypeOK ==
  /\ shared \in BOOLEAN
  /\ events \subseteq EventRow
  /\ keys \in [Runs -> [Keys -> Nat]]
  /\ append \in [Hosts -> AppendCall]
  /\ begun \in Nat
  /\ answers \subseteq [asked : Nat, event : EventRow]
  /\ read \in [Runs -> [from : Nat, got : SUBSET EventRow]]

(* The numbers of a run's events are unique and without a gap, though       *)
(* writers of several processes read the last number before they insert.    *)
GapFree ==
  \A e \in events :
    /\ \A n \in 1..e.seq : \E f \in Of(e.run) : f.seq = n
    /\ \A f \in Of(e.run) : f.seq = e.seq => f = e

(* A key leads to the one event stored under it, and each event stored      *)
(* under a key is found by it: neither is ever there without the other.     *)
KeysMatchEvents ==
  \A r \in Runs, k \in Keys :
    {e \in Of(r) : e.key = k} = {e \in Of(r) : e.seq = keys[r][k]}

(* append_event returns an event of the log; every append under one key is  *)
(* given the same event, and one without a key its own.                     *)
AnswersAgree ==
  \A a \in answers :
    /\ a.event \in events
    /\ a.event.key = NoKey => a.event.id = a.asked
    /\ \A b \in answers :
         (a.event.key # NoKey /\ a.event.run = b.event.run
            /\ a.event.key = b.event.key) => a.event = b.event

(* A follower that goes on from the last number it saw has been given every *)
(* event up to there: none is ever added behind it.                         *)
FollowersMissNothing ==
  \A r \in Runs : read[r].got = {e \in Of(r) : e.seq <= read[r].from}
=============================================================================
