------------------------------ MODULE EventLog ------------------------------
(***************************************************************************)
(* internal/storage/storage.go: the event log.  Request handlers call Log, *)
(* which never blocks: it sends on a bounded channel or drops the event.   *)
(* One worker goroutine takes events off the channel and inserts them in   *)
(* PostgreSQL, ignoring errors.  Close closes `quit`, sleeps a fixed time  *)
(* while the worker drains the channel, then closes the database whatever  *)
(* the worker has done.  A second goroutine applies the retention policy.  *)
(* The process may also be killed at any moment and started again on the   *)
(* same database.                                                          *)
(*                                                                         *)
(* `fate` and `ticket` are history variables: what became of each event,   *)
(* and the order in which the channel accepted them.                       *)
(***************************************************************************)
EXTENDS Integers, Sequences, FiniteSets

CONSTANTS Event,      \* the events handlers log, one per proxied request
          Cap,        \* capacity of the channel (1024 in Open)
          MaxRows     \* retentionMaxRows, 0 for no limit

ASSUME CapAssumption == Cap \in Nat \ {0}
ASSUME MaxRowsAssumption == MaxRows \in Nat

VARIABLES main,     \* the process: "serving", "grace" (Close sleeps),
                    \* "closed" (database closed) or "down"
          worker,   \* where the worker goroutine is
          hand,     \* the event the worker is inserting: <<>> or <<e>>
          ch,       \* the channel's buffer
          quit,     \* whether the quit channel is closed
          purger,   \* where the retention goroutine is
          keepFrom, \* the oldest id the count limit keeps, while it deletes
          table,    \* the rows of `events`: an id and an event
          lastId,   \* the last id given to a row (BIGSERIAL)
          fate,     \* history: what became of each event
          ticket,   \* history: rank of an event among the accepted ones
          tickets,  \* history: how many events were accepted
          atClose   \* history: value of tickets when Close was last called

history == <<fate, ticket, tickets, atClose>>
vars == <<main, worker, hand, ch, quit, purger, keepFrom, table, lastId, history>>

Fate == {"new", "waiting", "stored", "purged", "dropped", "failed", "lost"}

RangeOf(s) == {s[i] : i \in 1 .. Len(s)}

Row == [id : Nat \ {0}, event : Event]

\* Accepted and not yet served, oldest first.
Waiting == hand \o ch

Init ==
  /\ main = "serving"
  /\ worker = "select"
  /\ hand = <<>>
  /\ ch = <<>>
  /\ quit = FALSE
  /\ purger = "timer"
  /\ keepFrom = 0
  /\ table = {}
  /\ lastId = 0
  /\ fate = [e \in Event |-> "new"]
  /\ ticket = [e \in Event |-> 0]
  /\ tickets = 0
  /\ atClose = 0

-----------------------------------------------------------------------------
(* Log: the select with a default.  Handlers that outlive srv.Shutdown may  *)
(* still call it after Close.                                              *)

Log(e) ==
  /\ main /= "down"
  /\ fate[e] = "new"
  /\ IF Len(ch) < Cap
       THEN /\ ch' = Append(ch, e)
            /\ tickets' = tickets + 1
            /\ ticket' = [ticket EXCEPT ![e] = tickets + 1]
            /\ fate' = [fate EXCEPT ![e] = "waiting"]
       ELSE /\ fate' = [fate EXCEPT ![e] = "dropped"]
            /\ UNCHANGED <<ch, ticket, tickets>>
  /\ UNCHANGED <<main, worker, hand, quit, purger, keepFrom, table, lastId, atClose>>

-----------------------------------------------------------------------------
(* The worker.  In "select" both cases may be ready and Go picks either; in *)
(* "drain" the channel is preferred and an empty channel ends the worker.  *)

\* Mutant: the newest event is taken first.
ReceiveNewest ==
  /\ main /= "down" /\ worker \in {"select", "drain"} /\ ch /= <<>>
  /\ hand' = <<ch[Len(ch)]>>
  /\ ch' = SubSeq(ch, 1, Len(ch) - 1)
  /\ worker' = IF worker = "select" THEN "insert" ELSE "drainInsert"
  /\ UNCHANGED <<main, quit, purger, keepFrom, table, lastId, history>>

\* Mutant: the worker waits for a full channel, to insert in batches.
ReceiveWhenFull ==
  /\ main /= "down" /\ worker \in {"select", "drain"} /\ Len(ch) = Cap
  /\ hand' = <<Head(ch)>>
  /\ ch' = Tail(ch)
  /\ worker' = IF worker = "select" THEN "insert" ELSE "drainInsert"
  /\ UNCHANGED <<main, quit, purger, keepFrom, table, lastId, history>>

Receive ==
  /\ main /= "down"
  /\ worker \in {"select", "drain"}
  /\ ch /= <<>>
  /\ hand' = <<Head(ch)>>
  /\ ch' = Tail(ch)
  /\ worker' = IF worker = "select" THEN "insert" ELSE "drainInsert"
  /\ UNCHANGED <<main, quit, purger, keepFrom, table, lastId, history>>

\* Mutant: the worker returns on quit, without draining.
QuitWithoutDrain ==
  /\ main /= "down" /\ worker = "select" /\ quit
  /\ worker' = "done"
  /\ UNCHANGED <<main, hand, ch, quit, purger, keepFrom, table, lastId, history>>

\* Mutant: what the channel holds on quit is thrown away.
QuitDiscards ==
  /\ main /= "down" /\ worker = "select" /\ quit
  /\ worker' = "drain"
  /\ ch' = <<>>
  /\ UNCHANGED <<main, hand, quit, purger, keepFrom, table, lastId, history>>

SeeQuit ==
  /\ main /= "down"
  /\ worker = "select"
  /\ quit
  /\ worker' = "drain"
  /\ UNCHANGED <<main, hand, ch, quit, purger, keepFrom, table, lastId, history>>

Drained ==
  /\ main /= "down"
  /\ worker = "drain"
  /\ ch = <<>>
  /\ worker' = "done"
  /\ UNCHANGED <<main, hand, ch, quit, purger, keepFrom, table, lastId, history>>

AfterInsert == IF worker = "insert" THEN "select" ELSE "drain"

\* The INSERT succeeds, with the next id; impossible once the database is closed
\* (one that was under way then is, to the table, one that came just before).
InsertOK ==
  /\ worker \in {"insert", "drainInsert"}
  /\ main \in {"serving", "grace"}
  /\ lastId' = lastId + 1
  /\ table' = table \cup {[id |-> lastId', event |-> hand[1]]}
  /\ fate' = [fate EXCEPT ![hand[1]] = "stored"]
  /\ hand' = <<>>
  /\ worker' = AfterInsert
  /\ UNCHANGED <<main, ch, quit, purger, keepFrom, ticket, tickets, atClose>>

\* Mutant: an event whose insertion failed goes back to the channel.
InsertFailsRequeues ==
  /\ worker \in {"insert", "drainInsert"}
  /\ main /= "down"
  /\ ch' = Append(ch, hand[1])
  /\ hand' = <<>>
  /\ worker' = AfterInsert
  /\ UNCHANGED <<main, quit, purger, keepFrom, table, lastId, history>>

\* Any error is ignored and the event is gone.
InsertFails ==
  /\ worker \in {"insert", "drainInsert"}
  /\ main /= "down"
  /\ fate' = [fate EXCEPT ![hand[1]] = "failed"]
  /\ hand' = <<>>
  /\ worker' = AfterInsert
  /\ UNCHANGED <<main, ch, quit, purger, keepFrom, table, lastId, ticket, tickets,
                 atClose>>

-----------------------------------------------------------------------------
(* The retention goroutine: on a timer, delete the rows older than the      *)
(* limit, then all but the MaxRows newest; either statement may fail.       *)

Delete(gone) ==
  /\ table' = table \ gone
  /\ fate' = [e \in Event |->
                IF \E row \in gone : row.event = e THEN "purged" ELSE fate[e]]

\* Rows are stamped by the wall clock of the database, which may be set back:
\* those older than the limit may be any, whatever their ids.
PurgeByAge ==
  /\ main \in {"serving", "grace"}
  /\ purger = "timer"
  /\ \E gone \in SUBSET table : Delete(gone)
  /\ purger' = "count"
  /\ UNCHANGED <<main, worker, hand, ch, quit, keepFrom, lastId, ticket, tickets,
                 atClose>>

\* SELECT id ... ORDER BY id DESC LIMIT MaxRows
Newest ==
  {row \in table : Cardinality({q \in table : q.id > row.id}) < MaxRows}

\* COALESCE(MIN(id), 0)
OldestKept ==
  IF Newest = {} THEN 0
  ELSE (CHOOSE row \in Newest : \A q \in Newest : row.id <= q.id).id

\* The count limit is one statement, but the worker's inserts commit while it
\* runs: it sees the table of its start, and its deletion counts from its end.
PurgeByCount ==
  /\ main \in {"serving", "grace"}
  /\ purger = "count"
  /\ MaxRows > 0
  /\ keepFrom' = OldestKept
  /\ purger' = "counting"
  /\ UNCHANGED <<main, worker, hand, ch, quit, table, lastId, history>>

\* Mutant: what is kept are the MaxRows ids from the oldest kept one on.
DoomedOutsideRange ==
  {row \in table : row.id < keepFrom \/ row.id >= keepFrom + MaxRows}

Doomed == {row \in table : row.id < keepFrom}

DeleteOlder ==
  /\ main \in {"serving", "grace"}
  /\ purger = "counting"
  /\ Delete(Doomed)
  /\ keepFrom' = 0
  /\ purger' = "timer"
  /\ UNCHANGED <<main, worker, hand, ch, quit, lastId, ticket, tickets, atClose>>

\* The statement fails, or there is no limit.
PurgeFails ==
  /\ main /= "down"
  /\ purger \in {"count", "counting"}
  /\ keepFrom' = 0
  /\ purger' = "timer"
  /\ UNCHANGED <<main, worker, hand, ch, quit, table, lastId, history>>

PurgerStops ==
  /\ main /= "down"
  /\ purger = "timer"
  /\ quit
  /\ purger' = "done"
  /\ UNCHANGED <<main, worker, hand, ch, quit, keepFrom, table, lastId, history>>

-----------------------------------------------------------------------------
(* Close, the end of the process, and the next start on the same database.  *)

CloseQuit ==
  /\ main = "serving"
  /\ quit' = TRUE
  /\ main' = "grace"
  /\ atClose' = tickets
  /\ UNCHANGED <<worker, hand, ch, purger, keepFrom, table, lastId, fate, ticket,
                 tickets>>

\* The 100 ms are over: the database is closed, whatever the worker has done.
CloseDB ==
  /\ main = "grace"
  /\ main' = "closed"
  /\ UNCHANGED <<worker, hand, ch, quit, purger, keepFrom, table, lastId, history>>

\* Everything in memory is gone; what was waiting is lost.
ProcessEnds ==
  /\ main' = "down"
  /\ worker' = "done"
  /\ purger' = "done"
  /\ keepFrom' = 0
  /\ hand' = <<>>
  /\ ch' = <<>>
  /\ fate' = [e \in Event |-> IF fate[e] = "waiting" THEN "lost" ELSE fate[e]]
  /\ UNCHANGED <<quit, table, lastId, ticket, tickets, atClose>>

Exit == main = "closed" /\ ProcessEnds

Crash == main \in {"serving", "grace"} /\ ProcessEnds

\* Open: a fresh channel and fresh goroutines.
Open ==
  /\ main = "down"
  /\ main' = "serving"
  /\ worker' = "select"
  /\ purger' = "timer"
  /\ quit' = FALSE
  /\ UNCHANGED <<hand, ch, keepFrom, table, lastId, history>>

-----------------------------------------------------------------------------
WorkerStep == Receive \/ SeeQuit \/ Drained \/ InsertOK \/ InsertFails

PurgerStep ==
  PurgeByAge \/ PurgeByCount \/ DeleteOlder \/ PurgeFails \/ PurgerStops

Next ==
  \/ \E e \in Event : Log(e)
  \/ WorkerStep
  \/ PurgerStep
  \/ CloseQuit \/ CloseDB \/ Exit \/ Crash \/ Open

Spec == Init /\ [][Next]_vars

\* Goroutines that can run are run, an Exec returns, a sleep ends and main
\* returns.  Requests, signals, crashes and restarts need never come.
FairSpec ==
  /\ Spec
  /\ WF_vars(WorkerStep)
  /\ WF_vars(CloseDB)
  /\ WF_vars(Exit)

-----------------------------------------------------------------------------
(* Properties.                                                             *)

ControlOK ==
  /\ main \in {"serving", "grace", "closed", "down"}
  /\ worker \in {"select", "insert", "drain", "drainInsert", "done"}
  /\ purger \in {"timer", "count", "counting", "done"}
  /\ quit \in BOOLEAN

QueueOK ==
  /\ hand \in Seq(Event)
  /\ Len(hand) = IF worker \in {"insert", "drainInsert"} THEN 1 ELSE 0
  /\ ch \in Seq(Event)
  /\ Len(ch) <= Cap

\* The id is the primary key of `events`, given once and for all.
TableOK ==
  /\ table \subseteq Row /\ IsFiniteSet(table)
  /\ lastId \in Nat /\ keepFrom \in Nat
  /\ \A row \in table : row.id <= lastId
  /\ \A q, row \in table : q.id = row.id => q = row

HistoryOK ==
  /\ fate \in [Event -> Fate]
  /\ ticket \in [Event -> Nat]
  /\ tickets \in Nat
  /\ atClose \in Nat

\* Every variable has its type; in particular the channel never holds more
\* than its capacity and the worker holds an event exactly while inserting.
TypeOK == ControlOK /\ QueueOK /\ TableOK /\ HistoryOK

\* What the history says of an event is where the program has it: an event is
\* in the worker's hands or in the channel exactly while it is accepted and not
\* yet served, and in the table exactly from its insertion to its purge.  Log,
\* the worker, the purge and the end of the process neither forget an event
\* nor keep one they have disposed of.
Accounted ==
  /\ RangeOf(Waiting) = {e \in Event : fate[e] = "waiting"}
  /\ {row.event : row \in table} = {e \in Event : fate[e] = "stored"}

Served == tickets - Len(Waiting)

\* Rows have their ids in the order in which the channel accepted their events,
\* so no event is there twice, whatever was dropped, failed, purged or lost in a
\* restart on the way; those still waiting are the latest accepted.
AcceptanceOrder ==
  /\ \A q, row \in table : q.id < row.id => ticket[q.event] < ticket[row.event]
  /\ \A row \in table : ticket[row.event] <= Served
  /\ \A i \in 1 .. Len(Waiting) : ticket[Waiting[i]] = Served + i

\* While the worker inserts under its feet, the count limit takes a row only if
\* the MaxRows that it keeps, all of them newer, are still there when it is done
\* (purge, "on ne garde que les N identifiants les plus recents").
CountKeepsNewest ==
  [][purger = "counting" =>
       \A row \in table \ table' :
         Cardinality({q \in table' : q.id > row.id}) >= MaxRows]_vars

\* What the worker leaves behind when it returns was accepted after Close was
\* called: the drain skips nothing, whichever case its select took first.  That
\* Close gives the drain the time to end is not said: it sleeps 100 ms and closes
\* the database whatever is left ("laisse la vidange se terminer" notwithstanding).
DrainServesEarlierEvents ==
  worker = "done" /\ main /= "down" =>
    \A e \in Event : fate[e] = "waiting" => ticket[e] > atClose

\* No accepted event stays in memory for ever: it is inserted, its insertion
\* fails, or the process ends.
EventuallyServed ==
  \A e \in Event :
    fate[e] = "waiting" ~> fate[e] \in {"stored", "purged", "failed", "lost"}

\* The log keeps the promise of LossyLog: the worker's hands and the channel
\* are its queue, the table is its log.  The purge may take any rows.
Promise == INSTANCE LossyLog WITH offered <- {e \in Event : fate[e] /= "new"},
                                  waiting <- Waiting,
                                  log     <- table,
                                  last    <- lastId

ImplementsLossyLog == Promise!LossySpec

=============================================================================
