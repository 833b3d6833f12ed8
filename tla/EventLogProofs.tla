-------------------------- MODULE EventLogProofs ----------------------------
(***************************************************************************)
(* Proofs about EventLog for every set of events, channel capacity and row *)
(* limit.                                                                  *)
(***************************************************************************)
EXTENDS EventLog, SequenceTheorems, FiniteSetTheorems, WellFoundedInduction,
        NaturalsInduction, TLAPS

-----------------------------------------------------------------------------
(* Facts about sequences in the form the steps below need them.            *)

\* The empty sequence is a sequence of events of length 0.
LEMMA EmptyQueue == <<>> \in Seq(Event) /\ Len(<<>>) = 0
BY EmptySeq

\* Serving a queue from its head gives an element and a shorter queue.
LEMMA HeadTail ==
  ASSUME NEW s \in Seq(Event), s /= <<>>
  PROVE  /\ Head(s) \in Event /\ Tail(s) \in Seq(Event)
         /\ Len(s) \in Nat \ {0} /\ Len(Tail(s)) = Len(s) - 1
         /\ s[1] = Head(s)
         /\ \A i \in 1 .. Len(s) - 1 : Tail(s)[i] = s[i + 1]
BY HeadTailProperties, EmptySeq

\* Appending to a queue adds one element at its end.
LEMMA AppendElements ==
  ASSUME NEW s \in Seq(Event), NEW e \in Event
  PROVE  /\ Len(s) \in Nat /\ Len(Append(s, e)) = Len(s) + 1
         /\ \A i \in 1 .. Len(s) : Append(s, e)[i] = s[i]
         /\ Append(s, e)[Len(s) + 1] = e
         /\ RangeOf(Append(s, e)) = RangeOf(s) \cup {e}
<1>1. /\ Len(s) \in Nat /\ Len(Append(s, e)) = Len(s) + 1
      /\ \A i \in 1 .. Len(s) : Append(s, e)[i] = s[i]
      /\ Append(s, e)[Len(s) + 1] = e
  BY AppendProperties, LenProperties
<1>2. \A i \in 1 .. Len(s) + 1 : i \in 1 .. Len(s) \/ i = Len(s) + 1
  BY <1>1
<1>3. RangeOf(Append(s, e)) = {Append(s, e)[i] : i \in 1 .. Len(s) + 1}
  BY <1>1 DEF RangeOf
<1>4. \A x : x \in RangeOf(Append(s, e)) => x \in RangeOf(s) \cup {e}
  BY <1>1, <1>2, <1>3 DEF RangeOf
<1>5. \A x : x \in RangeOf(s) \cup {e} => x \in RangeOf(Append(s, e))
  BY <1>1, <1>3 DEF RangeOf
<1> QED
  BY <1>1, <1>4, <1>5

\* A nonempty set of naturals has a least element.
LEMMA LeastNatural ==
  ASSUME NEW T \in SUBSET Nat, T /= {}
  PROVE  \E d \in T : \A y \in T : ~ (y < d)
<1>1. PICK d \in T : \A y \in T : <<y, d>> \notin OpToRel(<, Nat)
  BY WFMin, NatLessThanWellFounded, Zenon
<1>2. \A y \in T : ~ (y < d)
  BY <1>1, Zenon DEF OpToRel
<1> QED
  BY <1>2, Zenon

-----------------------------------------------------------------------------
(* Type correctness.                                                       *)

\* The worker of a process that has ended has ended too; without it the next
\* start could find an event in the hands of a fresh worker.
Stopped == main = "down" => worker = "done"

\* Initially every variable of the log has its type.
LEMMA InitTypeOK == Init => TypeOK /\ Stopped
<1> SUFFICES ASSUME Init PROVE TypeOK /\ Stopped
  OBVIOUS
<1>1. ControlOK /\ Stopped
  BY DEF Init, ControlOK, Stopped
<1>2. QueueOK
  BY EmptyQueue, CapAssumption DEF Init, QueueOK
<1>3. TableOK
  BY FS_EmptySet DEF Init, TableOK
<1>4. HistoryOK
  BY DEF Init, HistoryOK, Fate
<1> QED
  BY <1>1, <1>2, <1>3, <1>4 DEF TypeOK

\* The worker inserts an event, and only then.
LEMMA InHand ==
  ASSUME QueueOK, worker \in {"insert", "drainInsert"}
  PROVE  hand = <<hand[1]>> /\ hand[1] \in Event
BY DEF QueueOK

\* A step keeps the control variables in range.
LEMMA NextControlOK ==
  ASSUME ControlOK, Stopped, [Next]_vars PROVE ControlOK' /\ Stopped'
BY DEF ControlOK, Stopped, Next, WorkerStep, PurgerStep, vars,
   Log, Receive, SeeQuit, Drained, InsertOK, InsertFails, AfterInsert, history,
   PurgeByAge, PurgeByCount, DeleteOlder, PurgeFails, PurgerStops, CloseQuit,
   CloseDB, Exit, Crash, ProcessEnds, Open

\* A step keeps the channel and the worker's hands well formed.
LEMMA NextQueueOK ==
  ASSUME QueueOK, Stopped, [Next]_vars PROVE QueueOK'
<1>1. ASSUME NEW e \in Event, Log(e) PROVE QueueOK'
  <2>1. Len(ch) < Cap => ch' \in Seq(Event) /\ Len(ch') = Len(ch) + 1
    BY <1>1, AppendProperties DEF Log, QueueOK
  <2>2. ch' \in Seq(Event) /\ Len(ch') <= Cap
    BY <1>1, <2>1, CapAssumption, LenProperties DEF Log, QueueOK
  <2> QED
    BY <1>1, <2>2 DEF Log, QueueOK
<1>2. CASE Receive
  <2>1. ch' \in Seq(Event) /\ Len(ch') <= Cap
    BY <1>2, HeadTail, CapAssumption DEF Receive, QueueOK
  <2>2. hand' \in Seq(Event) /\ Len(hand') = 1
    BY <1>2, HeadTail DEF Receive, QueueOK
  <2> QED
    BY <1>2, <2>1, <2>2 DEF Receive, QueueOK
<1>3. CASE InsertOK \/ InsertFails
  <2>1. hand' = <<>> /\ ch' = ch /\ worker' \in {"select", "drain"}
    BY <1>3 DEF InsertOK, InsertFails, AfterInsert
  <2> QED
    BY <2>1, EmptyQueue DEF QueueOK
<1>4. CASE ProcessEnds
  BY <1>4, EmptyQueue, CapAssumption DEF ProcessEnds, QueueOK
<1>5. CASE SeeQuit \/ Drained \/ Open
  BY <1>5 DEF SeeQuit, Drained, Open, QueueOK, Stopped
<1>6. CASE UNCHANGED <<hand, ch, worker>>
  BY <1>6 DEF QueueOK
<1> QED
  BY <1>1, <1>2, <1>3, <1>4, <1>5, <1>6 DEF Next, WorkerStep, PurgerStep, vars,
     PurgeByAge, PurgeByCount, DeleteOlder, PurgeFails, PurgerStops, CloseQuit,
     CloseDB, Exit, Crash

\* The oldest id kept is that of one of the newest rows, if there is a row.
LEMMA OldestKeptIs ==
  ASSUME TableOK, Newest /= {}
  PROVE  \E row \in Newest : OldestKept = row.id /\ \A q \in Newest : row.id <= q.id
<1> DEFINE ids == {row.id : row \in Newest}
<1>1. \A row \in Newest : row.id \in Nat
  BY DEF TableOK, Row, Newest
<1>2. ids \in SUBSET Nat /\ ids /= {}
  BY <1>1
<1>3. PICK d \in ids : \A y \in ids : ~ (y < d)
  <2> HIDE DEF ids
  <2> QED
    BY <1>2, LeastNatural
<1>4. \A q \in Newest : q.id \in ids
  OBVIOUS
<1>5. PICK row \in Newest : row.id = d
  BY <1>3
<1>6. \E m \in Newest : \A q \in Newest : m.id <= q.id
  <2>1. \A q \in Newest : row.id <= q.id
    BY <1>1, <1>3, <1>4, <1>5
  <2> QED
    BY <2>1
<1> QED
  BY <1>6 DEF OldestKept

\* It is an id given so far, or 0.
LEMMA OldestKeptGiven ==
  ASSUME TableOK PROVE OldestKept \in Nat /\ OldestKept <= lastId
<1>1. CASE Newest = {}
  BY <1>1 DEF OldestKept, TableOK
<1>2. CASE Newest /= {}
  <2>1. Newest \subseteq table /\ \A q \in table : q.id \in Nat /\ q.id <= lastId
    BY DEF TableOK, Row, Newest
  <2> QED
    BY <1>2, <2>1, OldestKeptIs
<1> QED
  BY <1>1, <1>2

\* A step keeps the table a finite set of rows, with ids of their own.
LEMMA NextTableOK ==
  ASSUME TableOK, QueueOK, [Next]_vars PROVE TableOK'
<1>1. CASE InsertOK
  <2>1. lastId' = lastId + 1 /\ keepFrom' = keepFrom /\ lastId \in Nat
    BY <1>1 DEF InsertOK, TableOK
  <2>2. PICK row \in Row : row.id = lastId + 1 /\ table' = table \cup {row}
    <3>1. [id |-> lastId + 1, event |-> hand[1]] \in Row
      BY <1>1, <2>1, InHand DEF InsertOK, Row
    <3> QED
      BY <1>1, <2>1, <3>1 DEF InsertOK
  <2>3. IsFiniteSet(table')
    BY <2>2, FS_AddElement DEF TableOK
  <2>4. \A q \in table : q \in Row /\ q.id \in Nat /\ q.id <= lastId
    BY DEF TableOK, Row
  <2> QED
    BY <2>1, <2>2, <2>3, <2>4 DEF TableOK
<1>2. ASSUME NEW gone, Delete(gone), keepFrom' \in Nat, lastId' = lastId
      PROVE TableOK'
  <2>1. table' \in SUBSET table
    BY <1>2 DEF Delete
  <2>2. IsFiniteSet(table')
    BY <2>1, FS_Subset DEF TableOK
  <2> QED
    BY <1>2, <2>1, <2>2 DEF TableOK
<1>3. CASE PurgeByAge
  <2>1. PICK gone \in SUBSET table : Delete(gone)
    BY <1>3 DEF PurgeByAge
  <2> QED
    BY <1>2, <1>3, <2>1 DEF PurgeByAge, TableOK
<1>4. CASE DeleteOlder
  BY <1>2, <1>4 DEF DeleteOlder
<1>5. CASE PurgeByCount
  <2>1. keepFrom' \in Nat /\ table' = table /\ lastId' = lastId
    BY <1>5, OldestKeptGiven DEF PurgeByCount
  <2> QED
    BY <2>1 DEF TableOK
<1>6. CASE table' = table /\ lastId' = lastId /\ keepFrom' \in {0, keepFrom}
  BY <1>6 DEF TableOK
<1> QED
  BY <1>1, <1>3, <1>4, <1>5, <1>6 DEF Next, WorkerStep, PurgerStep, vars, Log,
     Receive, SeeQuit, Drained, InsertFails,
     PurgeFails, PurgerStops, CloseQuit, CloseDB, Exit, Crash, ProcessEnds, Open

\* A step keeps the history variables in their types.
LEMMA NextHistoryOK == ASSUME HistoryOK, [Next]_vars PROVE HistoryOK'
<1> USE DEF HistoryOK, Fate
<1>1. ASSUME NEW e \in Event, Log(e) PROVE HistoryOK'
  BY <1>1 DEF Log
<1>2. CASE InsertOK \/ InsertFails
  BY <1>2 DEF InsertOK, InsertFails
<1>3. ASSUME NEW gone, Delete(gone), UNCHANGED <<ticket, tickets, atClose>>
      PROVE HistoryOK'
  BY <1>3 DEF Delete
<1>4. CASE PurgeByAge \/ DeleteOlder
  BY <1>3, <1>4 DEF PurgeByAge, DeleteOlder
<1>5. CASE ProcessEnds
  BY <1>5 DEF ProcessEnds
<1>6. CASE CloseQuit
  BY <1>6 DEF CloseQuit
<1>7. CASE UNCHANGED history
  BY <1>7 DEF history
<1> QED
  BY <1>1, <1>2, <1>4, <1>5, <1>6, <1>7 DEF Next, WorkerStep, PurgerStep, vars,
     Receive, SeeQuit, Drained, PurgeByCount, PurgeFails,
     PurgerStops, CloseDB, Exit, Crash, Open

\* Every step of the handlers, the worker, the purge and the process keeps
\* every variable in its type: the channel stays within its capacity.
LEMMA NextTypeOK == TypeOK /\ Stopped /\ [Next]_vars => TypeOK' /\ Stopped'
BY NextControlOK, NextQueueOK, NextTableOK, NextHistoryOK DEF TypeOK

\* Every behaviour of the log is well typed; the channel never exceeds its
\* capacity and the worker holds an event exactly while inserting it.
THEOREM TypeCorrect == Spec => []TypeOK
<1>1. Spec => [](TypeOK /\ Stopped)
  BY InitTypeOK, NextTypeOK, PTL DEF Spec
<1> QED
  BY <1>1, PTL

-----------------------------------------------------------------------------
(* What each step does to the queue of accepted events: hand \o ch.        *)

\* The queue is a sequence of at most Cap + 1 events.
LEMMA WaitingType ==
  ASSUME QueueOK
  PROVE  /\ Waiting \in Seq(Event)
         /\ Len(Waiting) = Len(hand) + Len(ch)
         /\ Len(Waiting) <= Cap + 1
<1>1. Waiting \in Seq(Event) /\ Len(Waiting) = Len(hand) + Len(ch)
  BY ConcatProperties DEF Waiting, QueueOK
<1>2. Len(ch) <= Cap /\ Len(hand) <= 1 /\ Len(ch) \in Nat /\ Len(hand) \in Nat
  BY LenProperties DEF QueueOK
<1> QED
  BY <1>1, <1>2, CapAssumption

\* A send on the channel puts the event at the end of the queue.
LEMMA SendAppends ==
  ASSUME QueueOK, NEW e \in Event, hand' = hand, ch' = Append(ch, e)
  PROVE  Waiting' = Append(Waiting, e)
<1>1. hand \in Seq(Event) /\ ch \in Seq(Event) /\ <<e>> \in Seq(Event)
  BY DEF QueueOK
<1>2. ch' = ch \o <<e>> /\ Append(Waiting, e) = Waiting \o <<e>>
  BY <1>1, WaitingType, AppendIsConcat
<1>3. hand \o (ch \o <<e>>) = (hand \o ch) \o <<e>>
  BY <1>1, ConcatAssociative
<1> QED
  BY <1>2, <1>3 DEF Waiting

\* Taking an event off the channel leaves the queue as it is.
LEMMA ReceiveKeeps == ASSUME QueueOK, Receive PROVE Waiting' = Waiting
<1>1. hand = <<>> /\ ch \in Seq(Event) /\ ch /= <<>>
  BY EmptySeq DEF QueueOK, Receive
<1>2. Waiting = ch
  BY <1>1, ConcatEmptySeq DEF Waiting
<1>3. /\ Head(ch) \in Event /\ Tail(ch) \in Seq(Event)
      /\ Len(ch) \in Nat \ {0} /\ Len(Tail(ch)) = Len(ch) - 1 /\ ch[1] = Head(ch)
      /\ \A i \in 1 .. Len(ch) - 1 : Tail(ch)[i] = ch[i + 1]
  BY <1>1, HeadTail
<1>4. <<Head(ch)>> \in Seq(Event) /\ Len(<<Head(ch)>>) = 1
  BY <1>3
<1> DEFINE w == <<Head(ch)>> \o Tail(ch)
<1>5. /\ w \in Seq(Event) /\ Len(w) = Len(ch)
      /\ \A i \in 1 .. Len(ch) : w[i] = IF i <= 1 THEN <<Head(ch)>>[i] ELSE Tail(ch)[i - 1]
  BY <1>3, <1>4, ConcatProperties
<1>6. \A i \in 1 .. Len(ch) : w[i] = ch[i]
  BY <1>3, <1>5
<1>7. w = ch
  BY <1>1, <1>5, <1>6, SeqEqual
<1> QED
  BY <1>2, <1>7 DEF Waiting, Receive

\* An insertion, successful or not, serves the head of the queue.
LEMMA InsertServes ==
  ASSUME QueueOK, worker \in {"insert", "drainInsert"}, hand' = <<>>, ch' = ch
  PROVE  /\ Waiting /= <<>> /\ Head(Waiting) = hand[1] /\ Waiting' = Tail(Waiting)
<1>1. /\ hand \in Seq(Event) /\ Len(hand) = 1 /\ ch \in Seq(Event)
      /\ Len(ch) \in Nat /\ hand[1] \in Event
  BY InHand, LenProperties DEF QueueOK
<1>2. /\ Waiting \in Seq(Event) /\ Len(Waiting) = Len(ch) + 1
      /\ \A i \in 1 .. Len(ch) + 1 :
           Waiting[i] = IF i <= 1 THEN hand[i] ELSE ch[i - 1]
  <2>1. /\ Waiting \in Seq(Event) /\ Len(Waiting) = Len(hand) + Len(ch)
        /\ \A i \in 1 .. Len(hand) + Len(ch) :
             Waiting[i] = IF i <= Len(hand) THEN hand[i] ELSE ch[i - Len(hand)]
    BY <1>1, ConcatProperties DEF Waiting
  <2> QED
    BY <1>1, <2>1
<1>3. Waiting /= <<>>
  BY <1>1, <1>2, EmptySeq
<1>4. /\ Waiting[1] = Head(Waiting) /\ Tail(Waiting) \in Seq(Event)
      /\ Len(Tail(Waiting)) = Len(ch)
      /\ \A i \in 1 .. Len(ch) : Tail(Waiting)[i] = Waiting[i + 1]
  BY <1>1, <1>2, <1>3, HeadTail
<1>5. \A i \in 1 .. Len(ch) : Tail(Waiting)[i] = ch[i]
  BY <1>1, <1>2, <1>4
<1>6. Tail(Waiting) = ch
  BY <1>1, <1>4, <1>5, SeqEqual
<1>7. Waiting' = ch
  BY <1>1, ConcatEmptySeq DEF Waiting
<1> QED
  BY <1>1, <1>2, <1>3, <1>4, <1>6, <1>7

-----------------------------------------------------------------------------
(* The safety invariants.                                                  *)

LogInv == TypeOK /\ Stopped /\ Accounted /\ AcceptanceOrder

\* The five things a step can do to the queue, the table and their history.
Accepts(e) ==
  /\ fate[e] = "new"
  /\ Waiting' = Append(Waiting, e) /\ table' = table /\ lastId' = lastId
  /\ fate' = [fate EXCEPT ![e] = "waiting"]
  /\ ticket' = [ticket EXCEPT ![e] = tickets + 1] /\ tickets' = tickets + 1

Refuses(e) ==
  /\ fate[e] = "new"
  /\ fate' = [fate EXCEPT ![e] = "dropped"]
  /\ Waiting' = Waiting /\ table' = table /\ lastId' = lastId
  /\ ticket' = ticket /\ tickets' = tickets

Serves(f) ==
  /\ Waiting /= <<>> /\ Waiting' = Tail(Waiting)
  /\ fate' = [fate EXCEPT ![Head(Waiting)] = f]
  /\ \/ /\ f = "stored" /\ lastId' = lastId + 1
        /\ table' = table \cup {[id |-> lastId', event |-> Head(Waiting)]}
     \/ f = "failed" /\ table' = table /\ lastId' = lastId
  /\ ticket' = ticket /\ tickets' = tickets

Deletes(gone) ==
  /\ Delete(gone) /\ lastId' = lastId
  /\ Waiting' = Waiting /\ ticket' = ticket /\ tickets' = tickets

Forgets ==
  /\ Waiting' = <<>> /\ table' = table /\ lastId' = lastId
  /\ fate' = [e \in Event |-> IF fate[e] = "waiting" THEN "lost" ELSE fate[e]]
  /\ ticket' = ticket /\ tickets' = tickets

Keeps ==
  /\ Waiting' = Waiting /\ table' = table /\ lastId' = lastId
  /\ fate' = fate /\ ticket' = ticket /\ tickets' = tickets

\* Every step of the log does one of them.
LEMMA StepEffects ==
  ASSUME TypeOK, [Next]_vars
  PROVE  \/ \E e \in Event : Accepts(e) \/ Refuses(e)
         \/ Serves("stored") \/ Serves("failed")
         \/ \E gone \in SUBSET table : Deletes(gone)
         \/ Forgets \/ Keeps
<1>1. ASSUME NEW e \in Event, Log(e) PROVE Accepts(e) \/ Refuses(e)
  BY <1>1, SendAppends DEF TypeOK, Log, Accepts, Refuses, Waiting
<1>2. CASE Receive
  BY <1>2, ReceiveKeeps DEF TypeOK, Receive, Keeps, history
<1>3. CASE InsertOK
  BY <1>3, InsertServes DEF TypeOK, InsertOK, Serves
<1>4. CASE InsertFails
  BY <1>4, InsertServes DEF TypeOK, InsertFails, Serves
<1>5. CASE PurgeByAge
  BY <1>5 DEF PurgeByAge, Deletes, Waiting
<1>6. CASE DeleteOlder
  <2>1. Doomed \in SUBSET table
    BY DEF Doomed
  <2> QED
    BY <1>6, <2>1 DEF DeleteOlder, Deletes, Waiting
<1>7. CASE Exit \/ Crash
  BY <1>7, ConcatEmptySeq, EmptyQueue DEF Exit, Crash, ProcessEnds, Forgets, Waiting
<1>8. CASE \/ SeeQuit \/ Drained \/ PurgeByCount \/ PurgeFails \/ PurgerStops
           \/ CloseDB \/ Open \/ UNCHANGED vars
  BY <1>8 DEF SeeQuit, Drained, PurgeByCount, PurgeFails, PurgerStops, CloseDB, Open, vars,
     history, Keeps, Waiting
<1>9. CASE CloseQuit
  BY <1>9 DEF CloseQuit, Keeps, Waiting
<1> QED
  BY <1>1, <1>2, <1>3, <1>4, <1>5, <1>6, <1>7, <1>8, <1>9
     DEF Next, WorkerStep, PurgerStep

\* Where the history has the events of the table and of the queue, element by
\* element; and nothing else is stored or waiting.
LEMMA AccountedElements ==
  ASSUME TypeOK, Accounted
  PROVE  /\ \A row \in table : row.event \in Event /\ fate[row.event] = "stored"
         /\ \A i \in 1 .. Len(Waiting) : Waiting[i] \in Event /\ fate[Waiting[i]] = "waiting"
         /\ \A e \in Event : fate[e] = "stored" => \E row \in table : row.event = e
         /\ \A e \in Event : fate[e] = "waiting" => \E i \in 1 .. Len(Waiting) : Waiting[i] = e
BY DEF Accounted, RangeOf

\* Lengths and types the steps below share.
LEMMA LogTypes ==
  ASSUME TypeOK
  PROVE  /\ \A row \in table : row.id \in Nat /\ row.id <= lastId
         /\ \A row \in table : row.event \in Event
         /\ lastId \in Nat
         /\ Waiting \in Seq(Event) /\ Len(Waiting) \in Nat
         /\ fate \in [Event -> Fate] /\ ticket \in [Event -> Nat] /\ tickets \in Nat
         /\ Served \in Int
BY WaitingType, LenProperties DEF TypeOK, TableOK, Row, HistoryOK, Served

\* An accepted event joins the end of the queue with the next ticket.
LEMMA AcceptsInv ==
  ASSUME LogInv, NEW e \in Event, Accepts(e)
  PROVE  Accounted' /\ AcceptanceOrder'
<1> DEFINE n == Len(Waiting)
<1>1. /\ n \in Nat /\ Len(Waiting') = n + 1
      /\ \A i \in 1 .. n : Waiting'[i] = Waiting[i]
      /\ Waiting'[n + 1] = e
      /\ RangeOf(Waiting') = RangeOf(Waiting) \cup {e}
  BY AppendElements, LogTypes DEF Accepts, LogInv
<1>2. tickets \in Nat /\ tickets' = tickets + 1 /\ table' = table
  BY LogTypes DEF Accepts, LogInv
<1>3. Served' = Served /\ Served + n + 1 = tickets + 1 /\ Served \in Int
  BY <1>1, <1>2 DEF Served
<1>4. /\ fate[e] = "new" /\ fate'[e] = "waiting" /\ ticket'[e] = tickets + 1
      /\ \A x \in Event : x /= e => fate'[x] = fate[x] /\ ticket'[x] = ticket[x]
  BY LogTypes DEF Accepts, LogInv
<1>5. /\ \A row \in table : row.event \in Event /\ row.event /= e
      /\ \A i \in 1 .. n : Waiting[i] \in Event /\ Waiting[i] /= e
  BY <1>4, AccountedElements DEF LogInv
<1>6. Accounted'
  <2>1. RangeOf(Waiting') = {x \in Event : fate'[x] = "waiting"}
    BY <1>1, <1>4 DEF Accounted, LogInv
  <2>2. {row.event : row \in table'} = {x \in Event : fate'[x] = "stored"}
    BY <1>2, <1>4 DEF Accounted, LogInv
  <2> QED
    BY <2>1, <2>2 DEF Accounted, RangeOf
<1>7. AcceptanceOrder'
  <2>1. \A i \in 1 .. n : ticket'[Waiting'[i]] = Served + i
    BY <1>1, <1>4, <1>5 DEF AcceptanceOrder, LogInv
  <2>2. ticket'[Waiting'[n + 1]] = Served + (n + 1)
    BY <1>1, <1>2, <1>3, <1>4
  <2>3. \A i \in 1 .. Len(Waiting') : i \in 1 .. n \/ i = n + 1
    BY <1>1
  <2>4. \A i \in 1 .. Len(Waiting') : ticket'[Waiting'[i]] = Served' + i
    BY <1>3, <2>1, <2>2, <2>3
  <2>5. \A row \in table : ticket'[row.event] = ticket[row.event]
    BY <1>4, <1>5
  <2> QED
    BY <1>2, <1>3, <2>4, <2>5 DEF AcceptanceOrder, LogInv
<1> QED
  BY <1>6, <1>7

\* A dropped event leaves the queue, the table and their order alone.
LEMMA RefusesInv ==
  ASSUME LogInv, NEW e \in Event, Refuses(e)
  PROVE  Accounted' /\ AcceptanceOrder'
<1>1. /\ fate'[e] = "dropped" /\ fate[e] = "new"
      /\ \A x \in Event : x /= e => fate'[x] = fate[x]
  BY LogTypes DEF Refuses, LogInv
<1>2. Waiting' = Waiting /\ table' = table /\ ticket' = ticket /\ Served' = Served
  BY DEF Refuses, Served
<1>3. Accounted'
  BY <1>1, <1>2 DEF Accounted, RangeOf, LogInv
<1>4. AcceptanceOrder'
  BY <1>2 DEF AcceptanceOrder, LogInv
<1> QED
  BY <1>3, <1>4

\* Serving the head of the queue keeps the tickets of the rest consecutive, and
\* a row appended to the table is the youngest there.
LEMMA ServesInv ==
  ASSUME LogInv, NEW f \in {"stored", "failed"}, Serves(f)
  PROVE  Accounted' /\ AcceptanceOrder'
<1> DEFINE n == Len(Waiting)
           h == Head(Waiting)
<1>1. /\ h \in Event /\ n \in Nat \ {0} /\ h = Waiting[1]
      /\ Len(Waiting') = n - 1
      /\ \A i \in 1 .. n - 1 : Waiting'[i] = Waiting[i + 1]
  BY LogTypes, HeadTail DEF Serves, LogInv
<1>2. tickets \in Nat /\ tickets' = tickets /\ ticket' = ticket
      /\ ticket \in [Event -> Nat]
  BY LogTypes DEF Serves, LogInv
<1>3. Served' = Served + 1 /\ Served \in Int
  BY <1>1, <1>2 DEF Served
<1>4. \A i \in 1 .. n : Waiting[i] \in Event /\ ticket[Waiting[i]] = Served + i
                         /\ fate[Waiting[i]] = "waiting"
  BY AccountedElements DEF LogInv, AcceptanceOrder
<1>5. ticket[h] = Served + 1 /\ fate[h] = "waiting"
  BY <1>1, <1>4
<1>6. fate'[h] = f /\ \A x \in Event : x /= h => fate'[x] = fate[x]
  BY <1>1, LogTypes DEF Serves, LogInv
<1>7. \A i \in 1 .. n - 1 :
        /\ Waiting'[i] \in Event /\ ticket[Waiting'[i]] = Served' + i
        /\ Waiting'[i] /= h /\ fate'[Waiting'[i]] = "waiting"
  <2> SUFFICES ASSUME NEW i \in 1 .. n - 1
               PROVE  /\ Waiting'[i] \in Event /\ ticket[Waiting'[i]] = Served' + i
                      /\ Waiting'[i] /= h /\ fate'[Waiting'[i]] = "waiting"
    OBVIOUS
  <2>1. Waiting'[i] = Waiting[i + 1] /\ i + 1 \in 1 .. n
    BY <1>1
  <2>2. Waiting'[i] \in Event /\ ticket[Waiting'[i]] = Served + (i + 1)
        /\ fate[Waiting'[i]] = "waiting"
    BY <1>4, <2>1
  <2>3. Waiting'[i] /= h
    BY <1>3, <1>5, <2>2
  <2> QED
    BY <1>3, <1>6, <2>2, <2>3
<1>8. RangeOf(Waiting') = {x \in Event : fate'[x] = "waiting"}
  <2>1. ASSUME NEW x \in Event, fate'[x] = "waiting"
        PROVE  \E i \in 1 .. n - 1 : Waiting'[i] = x
    <3>1. x /= h /\ fate[x] = "waiting"
      BY <1>6, <2>1
    <3>2. PICK j \in 1 .. n : Waiting[j] = x
      BY <3>1, AccountedElements DEF LogInv
    <3>3. j - 1 \in 1 .. n - 1 /\ Waiting'[j - 1] = Waiting[j]
      BY <1>1, <3>1, <3>2
    <3> QED
      BY <3>2, <3>3
  <2>2. RangeOf(Waiting') = {Waiting'[i] : i \in 1 .. n - 1}
    BY <1>1 DEF RangeOf
  <2> QED
    BY <1>7, <2>1, <2>2
<1>9. \A row \in table : /\ row.event \in Event /\ row.event /= h
                         /\ ticket[row.event] <= Served /\ ticket[row.event] \in Nat
                         /\ row.id \in Nat /\ row.id <= lastId /\ lastId \in Nat
  BY <1>2, <1>5, AccountedElements, LogTypes DEF LogInv, AcceptanceOrder
<1>10. CASE f = "failed"
  <2>1. table' = table
    BY <1>10 DEF Serves
  <2>2. {row.event : row \in table'} = {x \in Event : fate'[x] = "stored"}
    BY <1>5, <1>6, <1>10, <2>1 DEF Accounted, LogInv
  <2>3. Accounted'
    BY <1>8, <2>2 DEF Accounted, RangeOf
  <2>4. \A row \in table : ticket[row.event] <= Served'
    BY <1>3, <1>9
  <2>5. AcceptanceOrder'
    BY <1>1, <1>2, <1>7, <2>1, <2>4 DEF AcceptanceOrder, LogInv
  <2> QED
    BY <2>3, <2>5
<1>11. CASE f = "stored"
  <2>1. PICK new : new.id = lastId + 1 /\ new.event = h /\ table' = table \cup {new}
    BY <1>11 DEF Serves
  <2>2. {row.event : row \in table'} = {x \in Event : fate'[x] = "stored"}
    <3>1. {row.event : row \in table'} = {row.event : row \in table} \cup {h}
      BY <2>1
    <3> QED
      BY <1>1, <1>6, <1>11, <3>1 DEF Accounted, LogInv
  <2>3. Accounted'
    BY <1>8, <2>2 DEF Accounted, RangeOf
  <2>4. \A row \in table' : ticket[row.event] <= Served'
    BY <1>3, <1>5, <1>9, <2>1
  <2>5. \A q, row \in table' : q.id < row.id => ticket[q.event] < ticket[row.event]
    <3> SUFFICES ASSUME NEW q \in table', NEW row \in table', q.id < row.id
                 PROVE  ticket[q.event] < ticket[row.event]
      OBVIOUS
    <3>1. q \in table
      BY <1>9, <2>1, LogTypes DEF LogInv
    <3>2. CASE row \in table
      BY <3>1, <3>2 DEF AcceptanceOrder, LogInv
    <3>3. CASE row = new
      BY <1>3, <1>5, <1>9, <2>1, <3>1, <3>3
    <3> QED
      BY <2>1, <3>2, <3>3
  <2>6. AcceptanceOrder'
    BY <1>1, <1>2, <1>7, <2>4, <2>5 DEF AcceptanceOrder
  <2> QED
    BY <2>3, <2>6
<1> QED
  BY <1>10, <1>11

\* Deleting rows leaves the others, in the same order.
LEMMA DeletesInv ==
  ASSUME LogInv, NEW gone \in SUBSET table, Deletes(gone)
  PROVE  Accounted' /\ AcceptanceOrder'
<1>1. /\ Waiting' = Waiting /\ ticket' = ticket /\ Served' = Served
      /\ table' = table \ gone
      /\ \A x \in Event : fate'[x] = IF \E row \in gone : row.event = x
                                       THEN "purged" ELSE fate[x]
  BY DEF Deletes, Delete, Served
<1>2. \A row \in table : row.event \in Event /\ fate[row.event] = "stored"
                         /\ ticket[row.event] \in Nat /\ row.id \in Nat
  BY AccountedElements, LogTypes DEF LogInv
<1>3. ASSUME NEW q \in table, NEW row \in table, q.event = row.event PROVE q = row
  <2>1. ~ (q.id < row.id) /\ ~ (row.id < q.id)
    BY <1>2, <1>3 DEF AcceptanceOrder, LogInv
  <2> QED
    BY <1>2, <2>1 DEF LogInv, TypeOK, TableOK
<1>4. {row.event : row \in table'} = {x \in Event : fate'[x] = "stored"}
  <2>1. ASSUME NEW row \in table' PROVE row.event \in Event /\ fate'[row.event] = "stored"
    <3>1. row \in table /\ row \notin gone
      BY <1>1
    <3>2. ~ \E q \in gone : q.event = row.event
      BY <1>3, <3>1
    <3> QED
      BY <1>1, <1>2, <3>1, <3>2
  <2>2. ASSUME NEW x \in Event, fate'[x] = "stored"
        PROVE  \E row \in table' : row.event = x
    <3>1. fate[x] = "stored" /\ ~ \E row \in gone : row.event = x
      BY <1>1, <2>2
    <3>2. PICK row \in table : row.event = x
      BY <3>1, AccountedElements DEF LogInv
    <3> QED
      BY <1>1, <3>1, <3>2
  <2> QED
    BY <2>1, <2>2
<1>5. RangeOf(Waiting') = {x \in Event : fate'[x] = "waiting"}
  <2>1. \A x \in Event : fate'[x] = "waiting" <=> fate[x] = "waiting"
    BY <1>1, <1>2
  <2> QED
    BY <1>1, <2>1 DEF Accounted, LogInv
<1>6. Accounted'
  BY <1>4, <1>5 DEF Accounted, RangeOf
<1>7. AcceptanceOrder'
  BY <1>1 DEF AcceptanceOrder, LogInv
<1> QED
  BY <1>6, <1>7

\* The end of the process empties the queue and leaves the table alone.
LEMMA ForgetsInv ==
  ASSUME LogInv, Forgets PROVE Accounted' /\ AcceptanceOrder'
<1>1. /\ Waiting' = <<>> /\ Len(Waiting') = 0 /\ table' = table
      /\ ticket' = ticket /\ tickets' = tickets
      /\ \A x \in Event : fate'[x] = IF fate[x] = "waiting" THEN "lost" ELSE fate[x]
  BY EmptyQueue DEF Forgets
<1>2. ticket \in [Event -> Nat] /\ Served \in Int /\ Served' \in Int /\ Served <= Served'
  BY <1>1, LogTypes DEF LogInv, Served
<1>3. Accounted'
  <2>1. RangeOf(Waiting') = {}
    BY <1>1 DEF RangeOf
  <2> QED
    BY <1>1, <2>1 DEF Accounted, RangeOf, LogInv
<1>4. \A row \in table : ticket[row.event] <= Served'
  <2>1. \A row \in table : ticket[row.event] <= Served /\ ticket[row.event] \in Nat
    BY <1>2, AccountedElements DEF LogInv, AcceptanceOrder
  <2> QED
    BY <1>2, <2>1
<1>5. AcceptanceOrder'
  BY <1>1, <1>4 DEF AcceptanceOrder, LogInv
<1> QED
  BY <1>3, <1>5

\* The inductive step of the log's invariant.
LEMMA NextLogInv == LogInv /\ [Next]_vars => LogInv'
<1> SUFFICES ASSUME LogInv, [Next]_vars PROVE LogInv'
  OBVIOUS
<1>1. TypeOK' /\ Stopped'
  BY NextTypeOK DEF LogInv
<1>2. CASE Keeps
  BY <1>1, <1>2 DEF Keeps, LogInv, Accounted, AcceptanceOrder, Served, RangeOf
<1> QED
  BY <1>1, <1>2, StepEffects, AcceptsInv, RefusesInv, ServesInv, DeletesInv,
     ForgetsInv DEF LogInv

\* The log starts with its invariant.
LEMMA InitLogInv == Init => LogInv
<1> SUFFICES ASSUME Init PROVE LogInv
  OBVIOUS
<1>1. Waiting = <<>> /\ Len(Waiting) = 0 /\ table = {}
  BY ConcatEmptySeq, EmptyQueue DEF Init, Waiting
<1>2. RangeOf(Waiting) = {}
  BY <1>1 DEF RangeOf
<1>3. Accounted /\ AcceptanceOrder
  BY <1>1, <1>2 DEF Init, Accounted, AcceptanceOrder
<1> QED
  BY <1>3, InitTypeOK DEF LogInv

\* Each event is in the channel, in the worker's hands or in the table exactly
\* when its history says so, whatever was dropped, failed, purged or lost.
THEOREM EventsAccounted == Spec => []Accounted
<1>1. LogInv => Accounted
  BY DEF LogInv
<1> QED
  BY <1>1, InitLogInv, NextLogInv, PTL DEF Spec

\* Rows are in the order in which the channel accepted their events, without
\* duplicates, across failures, purges, crashes and restarts.
THEOREM RowsOrdered == Spec => []AcceptanceOrder
<1>1. LogInv => AcceptanceOrder
  BY DEF LogInv
<1> QED
  BY <1>1, InitLogInv, NextLogInv, PTL DEF Spec

-----------------------------------------------------------------------------
(* The count limit.                                                        *)

\* If a row is older than the oldest id kept, as many rows as the limit allows
\* are kept.
LEMMA KeptAreEnough ==
  ASSUME TableOK, NEW old \in table, old.id < OldestKept
  PROVE  Cardinality({q \in table : q.id >= OldestKept}) >= MaxRows
<1>1. \A q \in table : q.id \in Nat \ {0} /\ lastId - q.id \in Nat
  BY DEF TableOK, Row
<1>2. Newest /= {}
  BY <1>1 DEF OldestKept
<1>3. PICK first \in Newest : OldestKept = first.id /\ \A q \in Newest : first.id <= q.id
  BY <1>2, OldestKeptIs
<1>4. first \in table
  BY DEF Newest
<1> DEFINE ages == {lastId - q.id : q \in {x \in table : x.id < OldestKept}}
<1>5. ages \in SUBSET Nat /\ ages /= {}
  BY <1>1
<1>6. PICK d \in ages : \A y \in ages : ~ (y < d)
  <2> HIDE DEF ages
  <2> QED
    BY <1>5, LeastNatural
<1>7. PICK top \in table : top.id < OldestKept /\ lastId - top.id = d
  BY <1>6
<1>8. \A q \in table : q.id < OldestKept => q.id <= top.id
  <2> SUFFICES ASSUME NEW q \in table, q.id < OldestKept PROVE q.id <= top.id
    OBVIOUS
  <2>1. lastId - q.id \in ages
    OBVIOUS
  <2>2. ~ (lastId - q.id < lastId - top.id)
    BY <1>6, <1>7, <2>1
  <2> QED
    BY <1>1, <2>2 DEF TableOK
<1>9. top \notin Newest
  BY <1>1, <1>3, <1>4, <1>7
<1>10. ~ (Cardinality({q \in table : q.id > top.id}) < MaxRows)
  BY <1>7, <1>9 DEF Newest
<1>11. {q \in table : q.id > top.id} = {q \in table : q.id >= OldestKept}
  BY <1>1, <1>3, <1>4, <1>7, <1>8
<1> DEFINE kept == {q \in table : q.id >= OldestKept}
<1>12. ~ (Cardinality(kept) < MaxRows) /\ kept \in SUBSET table
  BY <1>10, <1>11
<1>13. Cardinality(kept) \in Nat
  <2> HIDE DEF kept
  <2> QED
    BY <1>12, FS_Subset, FS_CardinalityType DEF TableOK
<1>14. Cardinality(kept) >= MaxRows
  <2> HIDE DEF kept
  <2> QED
    BY <1>12, <1>13, MaxRowsAssumption
<1> QED
  BY <1>14

\* While the count limit deletes, what it has chosen to keep is still there: the
\* worker can only add rows with greater ids.
CountInv ==
  purger = "counting" =>
    /\ keepFrom <= lastId
    /\ (\E row \in table : row.id < keepFrom) =>
         Cardinality({q \in table : q.id >= keepFrom}) >= MaxRows

\* A step keeps what the count limit has chosen.
LEMMA NextCountInv == ASSUME TypeOK, CountInv, [Next]_vars PROVE CountInv'
<1>1. TableOK
  BY DEF TypeOK
<1>2. CASE PurgeByCount
  <2>1. keepFrom' = OldestKept /\ table' = table /\ lastId' = lastId
    BY <1>2 DEF PurgeByCount
  <2> QED
    BY <1>1, <2>1, OldestKeptGiven, KeptAreEnough DEF CountInv
<1>3. CASE InsertOK
  <2>1. /\ keepFrom' = keepFrom /\ lastId' = lastId + 1 /\ purger' = purger
        /\ lastId \in Nat /\ keepFrom \in Nat
    BY <1>1, <1>3 DEF InsertOK, TableOK
  <2>2. PICK new : new.id = lastId + 1 /\ table' = table \cup {new}
    BY <1>3 DEF InsertOK
  <2> SUFFICES ASSUME purger = "counting"
               PROVE  /\ keepFrom <= lastId + 1
                      /\ (\E row \in table' : row.id < keepFrom) =>
                           Cardinality({q \in table' : q.id >= keepFrom}) >= MaxRows
    BY <2>1 DEF CountInv
  <2>3. keepFrom <= lastId + 1
    BY <2>1 DEF CountInv
  <2>4. ASSUME NEW row \in table', row.id < keepFrom
        PROVE  Cardinality({q \in table' : q.id >= keepFrom}) >= MaxRows
    <3>1. row \in table
      BY <2>1, <2>2, <2>4 DEF CountInv
    <3>2. Cardinality({q \in table : q.id >= keepFrom}) >= MaxRows
      BY <2>4, <3>1 DEF CountInv
    <3>3. IsFiniteSet(table')
      BY <1>1, <2>2, FS_AddElement DEF TableOK
    <3> DEFINE kept == {q \in table : q.id >= keepFrom}
               kept2 == {q \in table' : q.id >= keepFrom}
    <3>4. IsFiniteSet(kept2) /\ kept \in SUBSET kept2
      BY <2>2, <3>3, FS_Subset
    <3>5. /\ Cardinality(kept) <= Cardinality(kept2) /\ IsFiniteSet(kept)
      <4> HIDE DEF kept, kept2
      <4> QED
        BY <3>4, FS_Subset
    <3>6. Cardinality(kept) \in Nat /\ Cardinality(kept2) \in Nat
      <4> HIDE DEF kept, kept2
      <4> QED
        BY <3>4, <3>5, FS_CardinalityType
    <3>7. Cardinality(kept) >= MaxRows
      BY <3>2
    <3>8. Cardinality(kept2) >= MaxRows
      <4> HIDE DEF kept, kept2
      <4> QED
        BY <3>5, <3>6, <3>7, MaxRowsAssumption
    <3> QED
      BY <3>8
  <2> QED
    BY <2>3, <2>4
<1>4. CASE purger' = "counting" => UNCHANGED <<purger, keepFrom, table, lastId>>
  BY <1>4 DEF CountInv
<1> QED
  BY <1>2, <1>3, <1>4 DEF Next, WorkerStep, PurgerStep, vars, history, Log,
     Receive, SeeQuit, Drained, InsertFails, PurgeByAge, DeleteOlder, PurgeFails,
     PurgerStops, CloseQuit, CloseDB, Exit, Crash, ProcessEnds, Open

\* For every limit and table, and however many rows are inserted while the count
\* limit deletes: it takes a row only if MaxRows newer ones stay.
THEOREM NewestKept == Spec => CountKeepsNewest
<1>1. Init => TypeOK /\ Stopped /\ CountInv
  BY InitTypeOK DEF Init, CountInv
<1>2. TypeOK /\ Stopped /\ CountInv /\ [Next]_vars => TypeOK' /\ Stopped' /\ CountInv'
  BY NextTypeOK, NextCountInv
<1>3. TypeOK /\ CountInv /\ [Next]_vars =>
        [purger = "counting" =>
           \A row \in table \ table' :
             Cardinality({q \in table' : q.id > row.id}) >= MaxRows]_vars
  <2> SUFFICES ASSUME TypeOK, CountInv, [Next]_vars, purger = "counting",
                      NEW row \in table \ table'
               PROVE  Cardinality({q \in table' : q.id > row.id}) >= MaxRows
    OBVIOUS
  <2>1. CASE DeleteOlder
    <3>1. table' = table \ {q \in table : q.id < keepFrom}
      BY <2>1 DEF DeleteOlder, Delete, Doomed
    <3>2. \A q \in table : q.id \in Nat
      BY DEF TypeOK, TableOK, Row
    <3>3. keepFrom \in Nat /\ row \in table /\ row.id < keepFrom
      BY <3>1 DEF TypeOK, TableOK
    <3>4. {q \in table' : q.id > row.id} = {q \in table : q.id >= keepFrom}
      BY <3>1, <3>2, <3>3
    <3> QED
      BY <3>3, <3>4 DEF CountInv
  <2>2. CASE table \subseteq table'
    BY <2>2
  <2> QED
    BY <2>1, <2>2 DEF Next, WorkerStep, PurgerStep, vars, history, Log, Receive,
       SeeQuit, Drained, InsertOK, InsertFails, PurgeByAge, PurgeByCount,
       PurgeFails, PurgerStops, CloseQuit, CloseDB, Exit, Crash, ProcessEnds, Open
<1> QED
  BY <1>1, <1>2, <1>3, PTL DEF Spec, CountKeepsNewest

-----------------------------------------------------------------------------
(* Close.                                                                  *)

\* The worker drains only after Close was called, and has served everything
\* accepted by then when it is done.
DrainInv ==
  /\ atClose <= tickets
  /\ main = "serving" => ~ quit /\ worker \in {"select", "insert"}
  /\ worker = "done" /\ main /= "down" => atClose <= Served

\* A step of the handlers, the worker or Close keeps it.
LEMMA NextDrainInv ==
  ASSUME LogInv, DrainInv, [Next]_vars PROVE DrainInv'
<1>1. /\ Len(Waiting) \in Nat /\ tickets \in Nat /\ atClose \in Nat
      /\ Served \in Int /\ Served = tickets - Len(Waiting)
  BY LogTypes DEF LogInv, TypeOK, HistoryOK, Served
<1>2. ASSUME NEW e \in Event, Log(e) PROVE DrainInv'
  <2>1. Accepts(e) \/ Refuses(e)
    BY <1>2, SendAppends DEF LogInv, TypeOK, Log, Accepts, Refuses, Waiting
  <2>2. Served' = Served /\ tickets <= tickets'
    BY <1>1, <2>1, LogTypes, AppendElements DEF Accepts, Refuses, Served, LogInv
  <2>3. UNCHANGED <<main, worker, quit, atClose>>
    BY <1>2 DEF Log
  <2>4. tickets' \in Nat
    BY <1>1, <2>1 DEF Accepts, Refuses
  <2> QED
    BY <1>1, <2>2, <2>3, <2>4 DEF DrainInv
<1>3. CASE InsertOK \/ InsertFails
  <2>1. UNCHANGED <<main, quit, atClose, tickets>> /\ worker' = AfterInsert
        /\ worker \in {"insert", "drainInsert"}
    BY <1>3 DEF InsertOK, InsertFails
  <2> QED
    BY <2>1 DEF DrainInv, AfterInsert
<1>4. CASE Drained
  <2>1. UNCHANGED <<main, quit, atClose, tickets>> /\ Waiting' = Waiting
        /\ worker = "drain"
    BY <1>4 DEF Drained, history, Waiting
  <2>2. Len(Waiting) = 0
    <3>1. ch = <<>> /\ Len(hand) = 0
      BY <1>4 DEF Drained, LogInv, TypeOK, QueueOK
    <3> QED
      BY <3>1, WaitingType, EmptyQueue DEF LogInv, TypeOK
  <2>3. Served = tickets /\ Served' = Served
    BY <1>1, <2>1, <2>2 DEF Served
  <2> QED
    BY <1>1, <2>1, <2>3 DEF DrainInv
<1>5. CASE CloseQuit
  <2>1. /\ atClose' = tickets /\ tickets' = tickets /\ worker' = worker
        /\ main = "serving" /\ main' = "grace"
    BY <1>5 DEF CloseQuit
  <2> QED
    BY <1>1, <2>1 DEF DrainInv
<1>6. CASE CloseDB
  <2>1. /\ UNCHANGED <<worker, quit, atClose, tickets>> /\ Served' = Served
        /\ main = "grace" /\ main' = "closed"
    BY <1>6 DEF CloseDB, history, Waiting, Served
  <2> QED
    BY <2>1 DEF DrainInv
<1>7. CASE Exit \/ Crash \/ Open
  <2>1. UNCHANGED <<atClose, tickets>> /\ main' \in {"down", "serving"}
        /\ (main' = "serving" => quit' = FALSE /\ worker' = "select")
    BY <1>7 DEF Exit, Crash, Open, ProcessEnds, history
  <2> QED
    BY <2>1 DEF DrainInv
<1>8. CASE Receive \/ SeeQuit
  <2>1. UNCHANGED <<main, quit, atClose, tickets>>
    BY <1>8 DEF Receive, SeeQuit, history
  <2>2. /\ worker \in {"select", "drain"} /\ worker' /= "done"
        /\ (worker = "select" => worker' = "insert" \/ quit)
    BY <1>8 DEF Receive, SeeQuit
  <2> QED
    BY <2>1, <2>2 DEF DrainInv
<1>9. CASE PurgerStep \/ UNCHANGED vars
  <2>1. UNCHANGED <<main, worker, quit, atClose, tickets>> /\ Served' = Served
    BY <1>9 DEF PurgerStep, PurgeByAge, PurgeByCount, DeleteOlder, PurgeFails,
       PurgerStops, vars, history, Waiting, Served
  <2> QED
    BY <2>1 DEF DrainInv
<1> QED
  BY <1>2, <1>3, <1>4, <1>5, <1>6, <1>7, <1>8, <1>9 DEF Next, WorkerStep

\* For every capacity and any number of handlers that log during the shutdown:
\* when the worker has returned, no event accepted before Close is left.  It says
\* nothing of a database closed before the worker has returned.
THEOREM DrainIsComplete == Spec => []DrainServesEarlierEvents
<1>1. Init => DrainInv
  BY DEF Init, DrainInv
<1>2. LogInv /\ DrainInv /\ [Next]_vars => LogInv' /\ DrainInv'
  BY NextLogInv, NextDrainInv
<1>3. Spec => [](LogInv /\ DrainInv)
  BY <1>1, <1>2, InitLogInv, PTL DEF Spec
<1>4. LogInv /\ DrainInv => DrainServesEarlierEvents
  <2> SUFFICES ASSUME LogInv, DrainInv, worker = "done", main /= "down",
                      NEW e \in Event, fate[e] = "waiting"
               PROVE  ticket[e] > atClose
    BY DEF DrainServesEarlierEvents
  <2>1. PICK i \in 1 .. Len(Waiting) : Waiting[i] = e
    BY AccountedElements DEF LogInv
  <2>2. ticket[e] = Served + i /\ Served \in Int /\ Len(Waiting) \in Nat
    BY <2>1, LogTypes DEF LogInv, AcceptanceOrder
  <2>3. atClose <= Served /\ atClose \in Nat
    BY DEF DrainInv, LogInv, TypeOK, HistoryOK
  <2> QED
    BY <2>2, <2>3
<1> QED
  BY <1>3, <1>4, PTL

-----------------------------------------------------------------------------
(* Refinement.                                                             *)

\* The log with its channel, worker, retention, shutdown and crashes does only
\* what LossyLog allows: it refuses, loses and forgets, but never duplicates,
\* reorders or invents.
THEOREM LogRefines == Spec => ImplementsLossyLog
<1> DEFINE offered == {e \in Event : fate[e] /= "new"}
<1>1. Init => Promise!LossyInit
  <2> SUFFICES ASSUME Init PROVE Promise!LossyInit
    OBVIOUS
  <2>1. Waiting = <<>>
    BY ConcatEmptySeq, EmptyQueue DEF Init, Waiting
  <2> QED
    BY <2>1 DEF Init, Promise!LossyInit
<1>2. LogInv /\ [Next]_vars => [Promise!LossyNext]_Promise!lossyVars
  <2> SUFFICES ASSUME LogInv, [Next]_vars
               PROVE  Promise!LossyNext \/ UNCHANGED Promise!lossyVars
    OBVIOUS
  <2> USE DEF Promise!LossyNext, Promise!lossyVars
  <2>1. fate \in [Event -> Fate]
    BY LogTypes DEF LogInv
  <2>2. ASSUME NEW e \in Event, Accepts(e) PROVE Promise!Accept(e)
    <3>1. offered' = offered \cup {e} /\ e \notin offered
      BY <2>1, <2>2 DEF Accepts
    <3> QED
      BY <2>2, <3>1 DEF Accepts, Promise!Accept
  <2>3. ASSUME NEW e \in Event, Refuses(e) PROVE Promise!Refuse(e)
    <3>1. offered' = offered \cup {e} /\ e \notin offered
      BY <2>1, <2>3 DEF Refuses
    <3> QED
      BY <2>3, <3>1 DEF Refuses, Promise!Refuse
  <2>4. ASSUME NEW f \in {"stored", "failed"}, Serves(f)
        PROVE  Promise!Store \/ Promise!Lose
    <3>1. Head(Waiting) \in Event /\ fate[Head(Waiting)] = "waiting"
      <4>1. Waiting \in Seq(Event) /\ Waiting /= <<>>
        BY <2>4, LogTypes DEF LogInv, Serves
      <4>2. Head(Waiting) = Waiting[1] /\ 1 \in 1 .. Len(Waiting)
        BY <4>1, HeadTail
      <4> QED
        BY <4>2, AccountedElements DEF LogInv
    <3>2. offered' = offered
      BY <2>1, <2>4, <3>1 DEF Serves
    <3>3. lastId \in Nat
      BY LogTypes DEF LogInv
    <3> QED
      BY <2>4, <3>2, <3>3 DEF Serves, Promise!Store, Promise!Lose
  <2>5. ASSUME NEW gone \in SUBSET table, Deletes(gone) PROVE Promise!Forget
    <3>1. \A row \in gone : row.event \in Event /\ fate[row.event] = "stored"
      BY AccountedElements DEF LogInv
    <3>2. offered' = offered
      BY <2>1, <2>5, <3>1 DEF Deletes, Delete
    <3> QED
      BY <2>5, <3>2 DEF Deletes, Delete, Promise!Forget
  <2>6. CASE Forgets
    <3>1. offered' = offered
      BY <2>1, <2>6 DEF Forgets
    <3> QED
      BY <2>6, <3>1 DEF Forgets, Promise!LoseAll
  <2>7. CASE Keeps
    BY <2>7 DEF Keeps
  <2> QED
    BY <2>2, <2>3, <2>4, <2>5, <2>6, <2>7, StepEffects DEF LogInv
<1>3. Spec => []LogInv
  BY InitLogInv, NextLogInv, PTL DEF Spec
<1> QED
  BY <1>1, <1>2, <1>3, PTL DEF Spec, ImplementsLossyLog, Promise!LossySpec
=============================================================================
