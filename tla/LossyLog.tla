------------------------------ MODULE LossyLog ------------------------------
(***************************************************************************)
(* What storage.go promises of the event log, before any channel, worker   *)
(* or shutdown: an event that is offered is either refused at once or      *)
(* joins the end of a queue; the queue is served strictly in order, each   *)
(* event served entering the log, with a greater id than all before it, or *)
(* being lost; the whole queue may be lost at once (the process ends); the *)
(* log may forget.  Nothing is ever duplicated, reordered or invented.     *)
(***************************************************************************)
EXTENDS Naturals, Sequences

CONSTANT Event

VARIABLES offered,   \* the events a caller has handed over
          waiting,   \* accepted, not yet served, in order of acceptance
          log,       \* stored and not yet purged, under their ids
          last       \* the greatest id given so far

lossyVars == <<offered, waiting, log, last>>

LossyInit == offered = {} /\ waiting = <<>> /\ log = {} /\ last = 0

Accept(e) ==
  /\ e \notin offered
  /\ offered' = offered \cup {e}
  /\ waiting' = Append(waiting, e)
  /\ UNCHANGED <<log, last>>

Refuse(e) ==
  /\ e \notin offered
  /\ offered' = offered \cup {e}
  /\ UNCHANGED <<waiting, log, last>>

Store ==
  /\ waiting /= <<>>
  /\ last' > last
  /\ log' = log \cup {[id |-> last', event |-> Head(waiting)]}
  /\ waiting' = Tail(waiting)
  /\ UNCHANGED offered

Lose ==
  /\ waiting /= <<>>
  /\ waiting' = Tail(waiting)
  /\ UNCHANGED <<offered, log, last>>

LoseAll ==
  /\ waiting' = <<>>
  /\ UNCHANGED <<offered, log, last>>

Forget ==
  /\ log' \subseteq log
  /\ UNCHANGED <<offered, waiting, last>>

LossyNext ==
  \/ \E e \in Event : Accept(e) \/ Refuse(e)
  \/ Store \/ Lose \/ LoseAll \/ Forget

LossySpec == LossyInit /\ [][LossyNext]_lossyVars
=============================================================================
