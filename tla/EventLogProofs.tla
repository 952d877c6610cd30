--------------------------- MODULE EventLogProofs ---------------------------
(***************************************************************************)
(* Proofs about the event log: its numbers, its keys, the answers of        *)
(* append_event and what followers are given, for any number of hosts,      *)
(* runs, keys and appends, on one event loop or with a connection each.     *)
(***************************************************************************)
EXTENDS EventLog, TLAPS

(* The parts of the inductive invariant.                                   *)

Numbered == \A e, f \in events : e.run = f.run /\ e.seq = f.seq => e = f

Contiguous == \A e \in events : \A n \in 1..e.seq : \E f \in Of(e.run) : f.seq = n

(* What a host is about to insert follows on events that are there.         *)
Poised ==
  \A h \in Hosts : append[h].step = "insert" =>
    /\ append[h].seq >= 1
    /\ \A n \in 1..(append[h].seq - 1) : \E f \in Of(append[h].run) : f.seq = n

(* What a host is about to answer is there.                                 *)
Filed == \A h \in Hosts : append[h].step = "answer" => NewEvent(h) \in events

KeysPoint ==
  \A r \in Runs, k \in Keys : keys[r][k] # 0 =>
    \E e \in Of(r) : e.seq = keys[r][k] /\ e.key = k

EventsKeyed == \A e \in events : e.key # NoKey => keys[e.run][e.key] = e.seq

Answered ==
  \A a \in answers : /\ a.event \in events
                     /\ a.event.key = NoKey => a.event.id = a.asked

Followed ==
  \A r \in Runs :
    /\ read[r].got = {e \in Of(r) : e.seq <= read[r].from}
    /\ read[r].from # 0 => \E e \in Of(r) : e.seq = read[r].from

LogInv ==
  /\ LogTypeOK /\ Numbered /\ Contiguous /\ Poised /\ Filed
  /\ KeysPoint /\ EventsKeyed /\ Answered /\ Followed

-----------------------------------------------------------------------------
LEMMA NoAppendType == NoAppend \in AppendCall
BY HostConstants DEF NoAppend, AppendCall, AnyRun

LEMMA LogInitInv == LogInit => LogInv
BY NoAppendType
DEF LogInit, LogInv, LogTypeOK, Numbered, Contiguous, Poised, Filed, KeysPoint,
    EventsKeyed, Answered, Followed, Of, NoAppend

LEMMA NewEventType ==
  ASSUME LogTypeOK, NEW h \in Hosts, append[h].seq # 0
  PROVE  NewEvent(h) \in EventRow
<1>1. append[h] \in AppendCall
  BY DEF LogTypeOK
<1>2. QED
  BY <1>1 DEF NewEvent, EventRow, AppendCall

(* A step of an append changes only the place of its own host.              *)
LEMMA StepType ==
  ASSUME LogTypeOK, NEW h \in Hosts, NEW from,
         NEW to \in {"idle", "lookup", "number", "insert", "answer"},
         Step(h, from, to)
  PROVE  append' \in [Hosts -> AppendCall]
BY DEF LogTypeOK, Step, AppendCall

LEMMA LeaveType ==
  ASSUME LogTypeOK, NEW h \in Hosts, NEW from, Leave(h, from)
  PROVE  append' \in [Hosts -> AppendCall]
BY NoAppendType DEF LogTypeOK, Leave

LEMMA TypeStep ==
  ASSUME LogTypeOK, Poised, Filed, [LogNext]_logVars
  PROVE  LogTypeOK'
<1>1. CASE UNCHANGED logVars
  BY <1>1 DEF logVars, LogTypeOK
<1>2. ASSUME NEW h \in Hosts, NEW r \in Runs, NEW k \in Keys \cup {NoKey}, Begin(h, r, k)
      PROVE  LogTypeOK'
  BY <1>2 DEF Begin, LogTypeOK, AppendCall
<1>3. ASSUME NEW h \in Hosts, LookupFinds(h)
      PROVE  LogTypeOK'
  <2>1. PICK e \in Stored(h) : answers' = answers \cup {Answer(h, e)}
    BY <1>3 DEF LookupFinds
  <2>2. Answer(h, e) \in [asked : Nat, event : EventRow]
    BY <2>1 DEF Answer, Stored, Of, LogTypeOK, AppendCall
  <2>3. append' \in [Hosts -> AppendCall]
    BY <1>3, LeaveType DEF LookupFinds
  <2>4. QED
    BY <1>3, <2>1, <2>2, <2>3 DEF LookupFinds, LogTypeOK
<1>4. ASSUME NEW h \in Hosts, LookupMisses(h)
      PROVE  LogTypeOK'
  BY <1>4, StepType DEF LookupMisses, LogTypeOK
<1>5. ASSUME NEW h \in Hosts, Number(h)
      PROVE  LogTypeOK'
  <2>1. PICK n \in {0} \cup {e.seq : e \in Of(append[h].run)} :
          append' = [append EXCEPT ![h].step = "insert", ![h].seq = n + 1]
    BY <1>5 DEF Number
  <2>2. n \in Nat
    BY <2>1 DEF Of, LogTypeOK, EventRow
  <2>3. [append[h] EXCEPT !.step = "insert", !.seq = n + 1] \in AppendCall
    <3>1. append[h] \in AppendCall /\ n + 1 \in Nat
      BY <2>2 DEF LogTypeOK
    <3>2. QED
      BY <3>1 DEF AppendCall
  <2>4. append' = [append EXCEPT ![h] = [append[h] EXCEPT !.step = "insert", !.seq = n + 1]]
    BY <2>1 DEF LogTypeOK
  <2>5. append' \in [Hosts -> AppendCall]
    BY <2>3, <2>4 DEF LogTypeOK
  <2>6. QED
    BY <1>5, <2>5 DEF Number, LogTypeOK
<1>6. ASSUME NEW h \in Hosts, InsertEvent(h)
      PROVE  LogTypeOK'
  <2>1. append[h].seq # 0
    BY <1>6 DEF InsertEvent, Step, Poised, LogTypeOK, AppendCall
  <2>2. NewEvent(h) \in EventRow
    BY <2>1, NewEventType
  <2>3. append' \in [Hosts -> AppendCall]
    BY <1>6, StepType DEF InsertEvent
  <2>4. append[h].seq \in Nat
    BY DEF LogTypeOK, AppendCall
  <2>5. keys' \in [Runs -> [Keys -> Nat]]
    BY <1>6, <2>4 DEF InsertEvent, LogTypeOK
  <2>6. QED
    BY <1>6, <2>2, <2>3, <2>5 DEF InsertEvent, LogTypeOK
<1>7. ASSUME NEW h \in Hosts, InsertEventFails(h) \/ Abandon(h)
      PROVE  LogTypeOK'
  BY <1>7, LeaveType DEF InsertEventFails, Abandon, LogTypeOK
<1>8. ASSUME NEW h \in Hosts, Return(h)
      PROVE  LogTypeOK'
  <2>1. Answer(h, NewEvent(h)) \in [asked : Nat, event : EventRow]
    BY <1>8 DEF Return, Leave, Filed, Answer, LogTypeOK, AppendCall
  <2>2. append' \in [Hosts -> AppendCall]
    BY <1>8, LeaveType DEF Return
  <2>3. QED
    BY <1>8, <2>1, <2>2 DEF Return, LogTypeOK
<1>9. ASSUME NEW r \in Runs, Follow(r)
      PROVE  LogTypeOK'
  <2> DEFINE news == {e \in Of(r) : e.seq > read[r].from}
  <2>1. PICK last \in news :
          read' = [read EXCEPT ![r] =
            [from |-> last.seq, got |-> @.got \cup {e \in news : e.seq <= last.seq}]]
    BY <1>9 DEF Follow
  <2>2. last.seq \in Nat /\ news \subseteq EventRow
    BY <2>1 DEF Of, LogTypeOK, EventRow
  <2>3. read' \in [Runs -> [from : Nat, got : SUBSET EventRow]]
    BY <2>1, <2>2 DEF LogTypeOK
  <2>4. QED
    BY <1>9, <2>3 DEF Follow, LogTypeOK
<1>10. QED
  BY <1>1, <1>2, <1>3, <1>4, <1>5, <1>6, <1>7, <1>8, <1>9 DEF LogNext, AppendStep

-----------------------------------------------------------------------------
(* Only an insert changes the tables.                                       *)
LEMMA QuietSteps ==
  ASSUME LogTypeOK, [LogNext]_logVars
  PROVE  \/ UNCHANGED <<events, keys>>
         \/ \E h \in Hosts : InsertEvent(h)
BY DEF LogNext, AppendStep, logVars, Begin, LookupFinds, LookupMisses, Number,
       InsertEventFails, Return, Abandon, Follow

(* What an insert adds: a number and a key its run did not have, after      *)
(* every number before it.                                                  *)
LEMMA InsertFacts ==
  ASSUME LogInv, NEW h \in Hosts, InsertEvent(h)
  PROVE  /\ NewEvent(h) \in EventRow
         /\ events' = events \cup {NewEvent(h)}
         /\ \A e \in events : e.run = NewEvent(h).run => e.seq # NewEvent(h).seq
         /\ \A n \in 1..(NewEvent(h).seq - 1) :
              \E f \in events : f.run = NewEvent(h).run /\ f.seq = n
<1>1. append[h].step = "insert" /\ append[h].seq # 0
  BY DEF InsertEvent, Step, LogInv, Poised, LogTypeOK, AppendCall
<1>2. NewEvent(h) \in EventRow
  BY <1>1, NewEventType DEF LogInv
<1>3. NewEvent(h).run = append[h].run /\ NewEvent(h).seq = append[h].seq
  BY DEF NewEvent
<1>4. \A e \in events : e.run = append[h].run => e.seq # append[h].seq
  BY DEF InsertEvent, Admits, Of
<1>5. \A n \in 1..(append[h].seq - 1) :
        \E f \in events : f.run = append[h].run /\ f.seq = n
  BY <1>1 DEF LogInv, Poised, Of
<1>6. QED
  BY <1>2, <1>3, <1>4, <1>5 DEF InsertEvent

LEMMA NumberedStep ==
  ASSUME LogInv, [LogNext]_logVars
  PROVE  Numbered'
<1>1. CASE UNCHANGED <<events, keys>>
  BY <1>1 DEF LogInv, Numbered
<1>2. ASSUME NEW h \in Hosts, InsertEvent(h)
      PROVE  Numbered'
  BY <1>2, InsertFacts DEF LogInv, Numbered
<1>3. QED
  BY <1>1, <1>2, QuietSteps DEF LogInv

LEMMA ContiguousStep ==
  ASSUME LogInv, [LogNext]_logVars
  PROVE  Contiguous'
<1>1. CASE UNCHANGED <<events, keys>>
  BY <1>1 DEF LogInv, Contiguous, Of
<1>2. ASSUME NEW h \in Hosts, InsertEvent(h)
      PROVE  Contiguous'
  <2> DEFINE new == NewEvent(h)
  <2>1. /\ new \in EventRow
        /\ events' = events \cup {new}
        /\ \A n \in 1..(new.seq - 1) : \E f \in events : f.run = new.run /\ f.seq = n
    BY <1>2, InsertFacts
  <2> HIDE DEF new
  <2>2. SUFFICES ASSUME NEW e \in events', NEW n \in 1..e.seq
                 PROVE  \E f \in events' : f.run = e.run /\ f.seq = n
    BY DEF Contiguous, Of
  <2>3. CASE e \in events
    BY <2>1, <2>3 DEF LogInv, Contiguous, Of
  <2>4. CASE e = new /\ n = new.seq
    BY <2>1, <2>4
  <2>5. CASE e = new /\ n # new.seq
    <3>1. new.seq \in Nat
      BY <2>1 DEF EventRow
    <3>2. n \in 1..(new.seq - 1)
      BY <2>5, <3>1
    <3>3. QED
      BY <2>1, <2>5, <3>2
  <2>6. QED
    BY <2>1, <2>3, <2>4, <2>5
<1>3. QED
  BY <1>1, <1>2, QuietSteps DEF LogInv

(* The places of the other hosts stay.                                      *)
LEMMA OthersStay ==
  ASSUME LogTypeOK, NEW h \in Hosts, AppendStep(h)
  PROVE  \A g \in Hosts \ {h} : append'[g] = append[g]
BY DEF LogTypeOK, AppendStep, Begin, LookupFinds, LookupMisses, Number,
       InsertEvent, InsertEventFails, Return, Abandon, Step, Leave

LEMMA EventsStay ==
  ASSUME LogTypeOK, [LogNext]_logVars
  PROVE  events \subseteq events'
BY QuietSteps DEF InsertEvent

(* A host comes to an insert by numbering and to an answer by inserting.    *)
LEMMA WhereStepsLead ==
  ASSUME LogTypeOK, NEW h \in Hosts, AppendStep(h)
  PROVE  \/ append'[h].step = "insert" /\ Number(h)
         \/ append'[h].step = "answer" /\ InsertEvent(h)
         \/ append'[h].step \in {"idle", "lookup", "number"}
<1>1. append[h] \in AppendCall
  BY DEF LogTypeOK
<1>2. ASSUME NEW from, Leave(h, from)
      PROVE  append'[h].step = "idle"
  BY <1>2 DEF Leave, LogTypeOK, NoAppend
<1>3. ASSUME NEW from, NEW to, Step(h, from, to)
      PROVE  append'[h].step = to
  BY <1>1, <1>3 DEF Step, LogTypeOK, AppendCall
<1>4. ASSUME NEW r \in Runs, NEW k \in Keys \cup {NoKey}, Begin(h, r, k)
      PROVE  append'[h].step \in {"lookup", "number"}
  BY <1>4 DEF Begin, LogTypeOK
<1>5. ASSUME Number(h)
      PROVE  append'[h].step = "insert"
  BY <1>1, <1>5 DEF Number, LogTypeOK, AppendCall
<1>6. CASE LookupFinds(h) \/ InsertEventFails(h) \/ Return(h) \/ Abandon(h)
  BY <1>2, <1>6 DEF LookupFinds, InsertEventFails, Return, Abandon
<1>7. CASE LookupMisses(h) \/ InsertEvent(h)
  BY <1>3, <1>7 DEF LookupMisses, InsertEvent
<1>8. QED
  BY <1>4, <1>5, <1>6, <1>7 DEF AppendStep

LEMMA PoisedStep ==
  ASSUME LogInv, [LogNext]_logVars
  PROVE  Poised'
<1>1. SUFFICES ASSUME NEW h \in Hosts, append'[h].step = "insert"
               PROVE  /\ append'[h].seq >= 1
                      /\ \A n \in 1..(append'[h].seq - 1) :
                           \E f \in events' : f.run = append'[h].run /\ f.seq = n
  BY DEF Poised, Of
<1>2. CASE append'[h] = append[h]
  BY <1>1, <1>2, EventsStay DEF LogInv, Poised, Of
<1>3. CASE Number(h)
  <2>1. PICK m \in {0} \cup {e.seq : e \in Of(append[h].run)} :
          /\ LastNumber(append[h].run, m)
          /\ append' = [append EXCEPT ![h].step = "insert", ![h].seq = m + 1]
    BY <1>3 DEF Number
  <2>2. append'[h].seq = m + 1 /\ append'[h].run = append[h].run
    BY <2>1 DEF LogInv, LogTypeOK, AppendCall
  <2>3. m \in Nat
    BY <2>1 DEF Of, LogInv, LogTypeOK, EventRow
  <2>4. \A n \in 1..m : \E f \in events : f.run = append[h].run /\ f.seq = n
    BY <2>1, <2>3 DEF LastNumber, Of, LogInv, Contiguous
  <2>5. QED
    BY <2>2, <2>3, <2>4, EventsStay DEF LogInv
<1>4. CASE UNCHANGED logVars \/ \E r \in Runs : Follow(r)
  BY <1>1, <1>2, <1>4 DEF logVars, Follow
<1>5. CASE \E g \in Hosts : AppendStep(g)
  BY <1>1, <1>2, <1>3, <1>5, OthersStay, WhereStepsLead DEF LogInv
<1>6. QED
  BY <1>4, <1>5 DEF LogNext

LEMMA FiledStep ==
  ASSUME LogInv, [LogNext]_logVars
  PROVE  Filed'
<1>1. SUFFICES ASSUME NEW h \in Hosts, append'[h].step = "answer"
               PROVE  NewEvent(h)' \in events'
  BY DEF Filed
<1>2. CASE append'[h] = append[h]
  BY <1>1, <1>2, EventsStay DEF LogInv, Filed, NewEvent
<1>3. CASE InsertEvent(h)
  <2>1. append[h] \in AppendCall
    BY DEF LogInv, LogTypeOK
  <2>2. NewEvent(h)' = NewEvent(h)
    BY <1>3, <2>1 DEF InsertEvent, Step, NewEvent, LogInv, LogTypeOK
  <2>3. QED
    BY <1>3, <2>2 DEF InsertEvent
<1>4. CASE UNCHANGED logVars \/ \E r \in Runs : Follow(r)
  BY <1>1, <1>2, <1>4 DEF logVars, Follow
<1>5. ASSUME AppendStep(h)
      PROVE  InsertEvent(h)
  BY <1>1, <1>5, WhereStepsLead DEF LogInv
<1>6. CASE \E g \in Hosts : AppendStep(g)
  BY <1>1, <1>2, <1>3, <1>5, <1>6, OthersStay DEF LogInv
<1>7. QED
  BY <1>4, <1>6 DEF LogNext

LEMMA KeysPointStep ==
  ASSUME LogInv, [LogNext]_logVars
  PROVE  KeysPoint'
<1>1. CASE UNCHANGED <<events, keys>>
  BY <1>1 DEF LogInv, KeysPoint, Of
<1>2. ASSUME NEW h \in Hosts, InsertEvent(h)
      PROVE  KeysPoint'
  <2>1. SUFFICES ASSUME NEW r \in Runs, NEW k \in Keys, keys'[r][k] # 0
                 PROVE  \E e \in events' : e.run = r /\ e.seq = keys'[r][k] /\ e.key = k
    BY DEF KeysPoint, Of
  <2>2. CASE keys'[r][k] = keys[r][k]
    BY <2>1, <2>2, EventsStay DEF LogInv, KeysPoint, Of
  <2>3. CASE keys'[r][k] # keys[r][k]
    <3>1. /\ append[h].run = r /\ append[h].key = k
          /\ keys'[r][k] = append[h].seq
      BY <1>2, <2>3 DEF InsertEvent, LogInv, LogTypeOK
    <3>2. NewEvent(h) \in events'
      BY <1>2, InsertFacts
    <3>3. NewEvent(h).run = r /\ NewEvent(h).key = k /\ NewEvent(h).seq = append[h].seq
      BY <3>1 DEF NewEvent
    <3>4. QED
      BY <3>1, <3>2, <3>3
  <2>4. QED
    BY <2>2, <2>3
<1>3. QED
  BY <1>1, <1>2, QuietSteps DEF LogInv

LEMMA EventsKeyedStep ==
  ASSUME LogInv, [LogNext]_logVars
  PROVE  EventsKeyed'
<1>1. CASE UNCHANGED <<events, keys>>
  BY <1>1 DEF LogInv, EventsKeyed
<1>2. ASSUME NEW h \in Hosts, InsertEvent(h)
      PROVE  EventsKeyed'
  <2>1. SUFFICES ASSUME NEW e \in events', e.key # NoKey
                 PROVE  keys'[e.run][e.key] = e.seq
    BY DEF EventsKeyed
  <2>2. e \in EventRow /\ e.seq # 0
    BY <1>2, InsertFacts DEF LogInv, LogTypeOK, EventRow
  <2>3. CASE e \in events
    <3>1. keys[e.run][e.key] = e.seq
      BY <2>1, <2>3 DEF LogInv, EventsKeyed
    <3>2. append[h].key # NoKey => keys[append[h].run][append[h].key] = 0
      BY <1>2 DEF InsertEvent, Admits
    <3>3. ~(append[h].key # NoKey /\ append[h].run = e.run /\ append[h].key = e.key)
      BY <2>2, <3>1, <3>2
    <3>4. keys'[e.run][e.key] = keys[e.run][e.key]
      BY <1>2, <2>1, <2>2, <3>3 DEF InsertEvent, LogInv, LogTypeOK, EventRow, AppendCall
    <3>5. QED
      BY <3>1, <3>4
  <2>4. CASE e = NewEvent(h)
    <3>1. e.run = append[h].run /\ e.key = append[h].key /\ e.seq = append[h].seq
      BY <2>4 DEF NewEvent
    <3>2. QED
      BY <1>2, <2>1, <2>2, <3>1 DEF InsertEvent, LogInv, LogTypeOK, EventRow
  <2>5. QED
    BY <1>2, <2>3, <2>4, InsertFacts
<1>3. QED
  BY <1>1, <1>2, QuietSteps DEF LogInv

LEMMA AnsweredStep ==
  ASSUME LogInv, [LogNext]_logVars
  PROVE  Answered'
<1>1. ASSUME NEW a, a.event \in events, a.event.key = NoKey => a.event.id = a.asked,
             answers' = answers \cup {a}
      PROVE  Answered'
  BY <1>1, EventsStay DEF LogInv, Answered
<1>2. CASE answers' = answers
  BY <1>2, EventsStay DEF LogInv, Answered
<1>3. ASSUME NEW h \in Hosts, LookupFinds(h)
      PROVE  Answered'
  <2>1. PICK e \in Stored(h) : answers' = answers \cup {Answer(h, e)}
    BY <1>3 DEF LookupFinds
  <2>2. /\ e \in events /\ e.run = append[h].run /\ append[h].key # NoKey
        /\ e.seq = keys[append[h].run][append[h].key]
    BY <2>1 DEF Stored, Of
  <2>3. /\ append[h].run \in Runs /\ append[h].key \in Keys /\ e.seq # 0
    BY <2>2 DEF LogInv, LogTypeOK, AppendCall, EventRow
  <2>4. e.key = append[h].key
    BY <2>2, <2>3 DEF LogInv, KeysPoint, Numbered, Of
  <2>5. Answer(h, e).event = e
    BY DEF Answer
  <2>6. QED
    BY <1>1, <2>1, <2>2, <2>4, <2>5
<1>4. ASSUME NEW h \in Hosts, Return(h)
      PROVE  Answered'
  <2>1. NewEvent(h) \in events
    BY <1>4 DEF Return, Leave, LogInv, Filed
  <2>2. /\ Answer(h, NewEvent(h)).event = NewEvent(h)
        /\ Answer(h, NewEvent(h)).asked = NewEvent(h).id
    BY DEF Answer, NewEvent
  <2>3. QED
    BY <1>1, <1>4, <2>1, <2>2 DEF Return
<1>5. QED
  BY <1>2, <1>3, <1>4 DEF LogNext, AppendStep, logVars, Begin, LookupMisses,
     Number, InsertEvent, InsertEventFails, Abandon, Follow

(* Behind what a follower has read every number is taken, so that an insert *)
(* comes after it.                                                         *)
LEMMA InsertsComeAfterReads ==
  ASSUME LogInv, NEW h \in Hosts, InsertEvent(h)
  PROVE  NewEvent(h).seq > read[NewEvent(h).run].from
<1> DEFINE new == NewEvent(h)
           from == read[new.run].from
<1>1. /\ new \in EventRow
      /\ \A e \in events : e.run = new.run => e.seq # new.seq
  BY InsertFacts
<1> HIDE DEF new
<1>2. new.run \in Runs /\ new.seq \in Nat \ {0}
  BY <1>1 DEF EventRow
<1>3. from \in Nat
  BY <1>2 DEF LogInv, LogTypeOK
<1>4. CASE from = 0
  BY <1>2, <1>4 DEF new
<1>5. CASE from # 0
  <2>1. PICK e \in events : e.run = new.run /\ e.seq = from
    BY <1>2, <1>5 DEF LogInv, Followed, Of
  <2>2. \A n \in 1..from : n # new.seq
    BY <1>1, <2>1 DEF LogInv, Contiguous, Of
  <2>3. QED
    BY <1>2, <1>3, <2>2 DEF new
<1>6. QED
  BY <1>4, <1>5

LEMMA FollowedStep ==
  ASSUME LogInv, [LogNext]_logVars
  PROVE  Followed'
<1>1. CASE UNCHANGED <<events, read>>
  BY <1>1 DEF LogInv, Followed, Of
<1>2. ASSUME NEW h \in Hosts, InsertEvent(h)
      PROVE  Followed'
  <2> DEFINE new == NewEvent(h)
  <2>1. events' = events \cup {new} /\ new \in EventRow /\ read' = read
    BY <1>2, InsertFacts DEF InsertEvent
  <2>2. new.seq > read[new.run].from
    BY <1>2, InsertsComeAfterReads
  <2> HIDE DEF new
  <2>3. ASSUME NEW r \in Runs
        PROVE  {e \in events' : e.run = r /\ e.seq <= read[r].from}
                 = {e \in events : e.run = r /\ e.seq <= read[r].from}
    <3>1. read[r].from \in Nat /\ new.seq \in Nat
      BY <2>1 DEF LogInv, LogTypeOK, EventRow
    <3>2. QED
      BY <2>1, <2>2, <3>1
  <2>4. ASSUME NEW r \in Runs
        PROVE  /\ {e \in Of(r)' : e.seq <= read[r].from}
                    = {e \in events' : e.run = r /\ e.seq <= read[r].from}
               /\ {e \in Of(r) : e.seq <= read[r].from}
                    = {e \in events : e.run = r /\ e.seq <= read[r].from}
    BY DEF Of
  <2>5. QED
    BY <2>1, <2>3, <2>4 DEF LogInv, Followed, Of
<1>3. ASSUME NEW r \in Runs, Follow(r)
      PROVE  Followed'
  <2> DEFINE news == {e \in Of(r) : e.seq > read[r].from}
  <2>1. PICK last \in news :
          read' = [read EXCEPT ![r] =
            [from |-> last.seq, got |-> @.got \cup {e \in news : e.seq <= last.seq}]]
    BY <1>3 DEF Follow
  <2>2. /\ last \in events /\ last.run = r /\ last.seq \in Nat
        /\ last.seq > read[r].from /\ read[r].from \in Nat
    BY <2>1 DEF Of, LogInv, LogTypeOK, EventRow
  <2>3. \A e \in events : e.seq \in Nat
    BY DEF LogInv, LogTypeOK, EventRow
  <2>4. read[r].got \cup {e \in news : e.seq <= last.seq} = {e \in Of(r) : e.seq <= last.seq}
    BY <2>2, <2>3 DEF LogInv, Followed, Of
  <2>5. /\ read'[r] = [from |-> last.seq, got |-> {e \in Of(r) : e.seq <= last.seq}]
        /\ \A q \in Runs \ {r} : read'[q] = read[q]
    BY <2>1, <2>4 DEF LogInv, LogTypeOK
  <2>6. events' = events
    BY <1>3 DEF Follow
  <2>7. QED
    BY <2>2, <2>5, <2>6 DEF LogInv, Followed, Of
<1>4. QED
  BY <1>1, <1>2, <1>3 DEF LogNext, AppendStep, logVars, Begin, LookupFinds,
     LookupMisses, Number, InsertEventFails, Return, Abandon

-----------------------------------------------------------------------------
LEMMA LogInvInductive == LogSpec => []LogInv
<1>1. LogInv /\ [LogNext]_logVars => LogInv'
  BY TypeStep, NumberedStep, ContiguousStep, PoisedStep, FiledStep, KeysPointStep,
     EventsKeyedStep, AnsweredStep, FollowedStep DEF LogInv
<1>2. QED
  BY LogInitInv, <1>1, PTL DEF LogSpec

(* The tables, the hosts in append_event and the followers keep their types,*)
(* whatever the hosts append at the same time.                              *)
THEOREM LogTypesHold == LogSpec => []LogTypeOK
<1>1. LogInv => LogTypeOK
  BY DEF LogInv
<1>2. QED
  BY <1>1, LogInvInductive, PTL

(* The numbers of a run's events are unique and without a gap, though each  *)
(* append_event reads the last number before its transaction begins.        *)
THEOREM NumbersAreGapFree == LogSpec => []GapFree
<1>1. LogInv => GapFree
  BY DEF LogInv, GapFree, Numbered, Contiguous, Of
<1>2. QED
  BY <1>1, LogInvInductive, PTL

(* A key leads to the one event stored under it, and every event stored     *)
(* under a key is found by it.                                              *)
THEOREM KeysLeadToEvents == LogSpec => []KeysMatchEvents
<1>1. ASSUME LogInv
      PROVE  KeysMatchEvents
  <2>1. SUFFICES ASSUME NEW r \in Runs, NEW k \in Keys, NEW e \in events, e.run = r
                 PROVE  e.key = k <=> e.seq = keys[r][k]
    BY DEF KeysMatchEvents, Of
  <2>2. k # NoKey /\ e.seq # 0
    BY <1>1, LogConstants DEF LogInv, LogTypeOK, EventRow
  <2>3. e.key = k => e.seq = keys[r][k]
    BY <1>1, <2>1, <2>2 DEF LogInv, EventsKeyed
  <2>4. e.seq = keys[r][k] => e.key = k
    BY <1>1, <2>1, <2>2 DEF LogInv, KeysPoint, Numbered, Of
  <2>5. QED
    BY <2>3, <2>4
<1>2. QED
  BY <1>1, LogInvInductive, PTL

(* Every append under one key is given the same event, one without a key    *)
(* its own, and both are in the log.                                        *)
THEOREM AnswersAgreeUnderAKey == LogSpec => []AnswersAgree
<1>1. ASSUME LogInv
      PROVE  AnswersAgree
  BY <1>1 DEF LogInv, AnswersAgree, Answered, EventsKeyed, Numbered
<1>2. QED
  BY <1>1, LogInvInductive, PTL

(* A follower that polls stream_events from the last number it saw has been *)
(* given every event up to there.                                           *)
THEOREM NothingIsAddedBehindAFollower == LogSpec => []FollowersMissNothing
<1>1. LogInv => FollowersMissNothing
  BY DEF LogInv, FollowersMissNothing, Followed
<1>2. QED
  BY <1>1, LogInvInductive, PTL
=============================================================================
