---------------------------- MODULE RouterProofs ----------------------------
(***************************************************************************)
(* Proofs about Router for every set of handlers, hosts, applications and  *)
(* bounds.                                                                 *)
(***************************************************************************)
EXTENDS Router, SequenceTheorems, TLAPS

-----------------------------------------------------------------------------
(* The inductive invariant.                                                *)

\* The contents the applications table may have.
Table == UNION {[ids -> Row] : ids \in SUBSET (1 .. MaxId)}

\* History is a sequence of tables.
PastOK == past \in Seq(Table) /\ rows \in Table

\* While a reload is sure, every listing still to be installed is of what it
\* was started to install or newer, and so is the routing table once it ended.
SureOK ==
  \A p \in Reloader : sure[p] =>
    /\ \A q \in Reloader : pc[q] = "install" => made[p] <= seen[q]
    /\ pc[p] = "idle" => made[p] <= at

RInv == TypeOK /\ PastOK /\ byDomain = Build(past[at]) /\ SureOK

LEMMA InitRInv == Init => RInv
<1> SUFFICES ASSUME Init PROVE RInv
  OBVIOUS
<1> USE RouterAssumption
<1>1. rows \in Table /\ DOMAIN rows = {}
  <2>1. rows \in [{} -> Row] /\ DOMAIN rows = {}
    BY DEF Init
  <2>2. {} \in SUBSET (1 .. MaxId)
    OBVIOUS
  <2> QED
    BY <2>1, <2>2, Zenon DEF Table
<1>2. past \in Seq(Table) /\ Len(past) = 1 /\ past[1] = rows
  BY <1>1 DEF Init
<1>3. Build(rows) = [h \in Host |-> NoRoute]
  BY <1>1 DEF Build, Claims
<1>4. IsTable(rows)
  BY <1>1 DEF IsTable, Init
<1>5. TypeOK
  BY <1>2, <1>4 DEF TypeOK, Init
<1>6. SureOK
  BY DEF SureOK, Init
<1> QED
  BY <1>1, <1>2, <1>3, <1>5, <1>6 DEF RInv, PastOK, Init

-----------------------------------------------------------------------------
(* Writes.                                                                 *)

\* A table with ids up to the serial and rows of the right type, made by a
\* write, keeps the types of the tables and of their history.
LEMMA WriteTables ==
  ASSUME RInv, NEW table \in Table, Write(table),
         lastId' \in lastId .. MaxId, DOMAIN table \subseteq 1 .. lastId'
  PROVE  /\ PastOK'
         /\ IsTable(rows)'
         /\ Len(past') = Len(past) + 1 /\ Len(past') \in 1 .. MaxChanges + 1
         /\ \A i \in DOMAIN past : past'[i] = past[i]
         /\ DOMAIN past \subseteq DOMAIN past'
         /\ past'[Len(past')] = rows'
         /\ \A i \in DOMAIN past' : IsTable(past[i])'
<1> USE RouterAssumption
<1>1. past \in Seq(Table) /\ past' = Append(past, table) /\ rows' = table
  BY DEF RInv, PastOK, Write
<1>2. Len(past) <= MaxChanges /\ Len(past) \in Nat
  BY <1>1 DEF Write
<1>3. PastOK'
  BY <1>1 DEF PastOK
<1>4. /\ Len(past') = Len(past) + 1
      /\ \A i \in DOMAIN past : past'[i] = past[i]
      /\ DOMAIN past = 1 .. Len(past) /\ DOMAIN past' = 1 .. Len(past) + 1
      /\ past'[Len(past) + 1] = table
  BY <1>1
<1>5. IsTable(rows)'
  BY <1>1 DEF IsTable, Table
<1>6. \A i \in DOMAIN past' : IsTable(past[i])'
  <2> SUFFICES ASSUME NEW i \in DOMAIN past' PROVE IsTable(past[i])'
    OBVIOUS
  <2>1. CASE i = Len(past) + 1
    BY <2>1, <1>1, <1>4, <1>5 DEF IsTable
  <2>2. CASE i \in DOMAIN past
    <3>1. IsTable(past[i])
      BY <2>2 DEF RInv, TypeOK
    <3>2. lastId \in Nat /\ lastId <= lastId'
      BY DEF RInv, TypeOK
    <3> QED
      BY <2>2, <3>1, <3>2, <1>4 DEF IsTable
  <2> QED
    BY <2>1, <2>2, <1>2, <1>4
<1> QED
  BY <1>1, <1>2, <1>3, <1>4, <1>5, <1>6

\* Inserting one row under the next id of the serial.
LEMMA InsertTables ==
  ASSUME RInv, NEW a \in Row, Insert(a)
  PROVE  \E table \in Table :
           /\ Write(table)
           /\ lastId' \in lastId .. MaxId /\ DOMAIN table \subseteq 1 .. lastId'
<1> USE RouterAssumption
<1> DEFINE table == [id \in DOMAIN rows \cup {lastId + 1} |->
                       IF id = lastId + 1 THEN a ELSE rows[id]]
<1>1. /\ lastId \in 0 .. MaxId /\ DOMAIN rows \subseteq 1 .. lastId
      /\ \A id \in DOMAIN rows : rows[id] \in Row
  BY DEF RInv, TypeOK, IsTable
<1>2. lastId < MaxId /\ lastId' = lastId + 1 /\ Write(table)
  BY DEF Insert
<1>3. DOMAIN table \subseteq 1 .. lastId' /\ lastId' \in lastId .. MaxId
  BY <1>1, <1>2
<1>4. table \in [DOMAIN table -> Row]
  BY <1>1
<1>5. DOMAIN table \in SUBSET (1 .. MaxId)
  BY <1>1, <1>2, <1>3
<1>6. table \in Table
  <2> HIDE DEF table
  <2> QED
    BY <1>4, <1>5, Zenon DEF Table
<1> QED
  BY <1>2, <1>3, <1>6

\* Replacing a row, or leaving the table as it is.
LEMMA UpdateTables ==
  ASSUME RInv, NEW id \in 1 .. lastId, NEW u \in Body, Update(id, u)
  PROVE  \E table \in Table :
           /\ Write(table)
           /\ lastId' \in lastId .. MaxId /\ DOMAIN table \subseteq 1 .. lastId'
<1> USE RouterAssumption
<1> DEFINE table == IF id \in DOMAIN rows THEN [rows EXCEPT ![id] = Updated(@, u)]
                                          ELSE rows
<1>1. /\ lastId \in 0 .. MaxId /\ DOMAIN rows \subseteq 1 .. lastId
      /\ \A i \in DOMAIN rows : rows[i] \in Row
      /\ rows \in [DOMAIN rows -> Row]
  BY DEF RInv, TypeOK, IsTable, PastOK, Table
<1>2. lastId' = lastId /\ Write(table)
  BY DEF Update
<1>3. \A r \in Row : Updated(r, u) \in Row
  <2> SUFFICES ASSUME NEW r \in Row PROVE Updated(r, u) \in Row
    OBVIOUS
  <2> DEFINE d == IF u.domain = Blank THEN r.domain ELSE u.domain
             v == IF u.upstream = Blank THEN r.upstream ELSE u.upstream
             m == IF u.mode \in {"block", "detect"} THEN u.mode ELSE "block"
             t == IF u.threshold < 1 THEN 4 ELSE u.threshold
  <2>1. d \in Domain /\ v \in Upstream
    BY DEF Row, Body
  <2>2. m \in Mode \ {Blank}
    BY DEF Blank
  <2>3. t \in Nat \ {0}
    BY DEF Body
  <2>4. Updated(r, u) = [domain |-> d, upstream |-> v, mode |-> m, threshold |-> t]
    BY DEF Updated
  <2> HIDE DEF d, v, m, t
  <2> QED
    BY <2>1, <2>2, <2>3, <2>4 DEF Row
<1>4. table \in [DOMAIN rows -> Row]
  BY <1>1, <1>3
<1>5. DOMAIN rows \in SUBSET (1 .. MaxId)
  BY <1>1
<1>6. table \in Table /\ DOMAIN table \subseteq 1 .. lastId
  <2> HIDE DEF table
  <2> QED
    BY <1>1, <1>4, <1>5 DEF Table
<1> QED
  BY <1>1, <1>2, <1>6

\* Removing a row, if it is there.
LEMMA DeleteTables ==
  ASSUME RInv, NEW id \in 1 .. lastId, Delete(id)
  PROVE  \E table \in Table :
           /\ Write(table)
           /\ lastId' \in lastId .. MaxId /\ DOMAIN table \subseteq 1 .. lastId'
<1> USE RouterAssumption
<1> DEFINE table == [i \in DOMAIN rows \ {id} |-> rows[i]]
<1>1. /\ lastId \in 0 .. MaxId /\ DOMAIN rows \subseteq 1 .. lastId
      /\ \A i \in DOMAIN rows : rows[i] \in Row
  BY DEF RInv, TypeOK, IsTable
<1>2. lastId' = lastId /\ Write(table)
  BY DEF Delete
<1>3. table \in [DOMAIN rows \ {id} -> Row]
  BY <1>1
<1>4. DOMAIN rows \ {id} \in SUBSET (1 .. MaxId)
  BY <1>1
<1>5. table \in Table /\ DOMAIN table \subseteq 1 .. lastId
  <2> HIDE DEF table
  <2> QED
    BY <1>1, <1>3, <1>4 DEF Table
<1> QED
  BY <1>1, <1>2, <1>5

-----------------------------------------------------------------------------
(* Steps.                                                                  *)

LEMMA HandlerWritesRInv ==
  ASSUME RInv, NEW p \in Handler, HandlerWrites(p)
  PROVE  RInv'
<1> USE RouterAssumption
<1>1. PICK table \in Table :
        /\ Write(table)
        /\ lastId' \in lastId .. MaxId /\ DOMAIN table \subseteq 1 .. lastId'
  <2>1. CASE \E a \in Adds : a.domain /= Blank /\ a.upstream /= Blank /\ Insert(Defaulted(a))
    <3>1. PICK a \in Adds : Insert(Defaulted(a))
      BY <2>1
    <3>2. Defaulted(a) \in Row
      <4> DEFINE m == IF a.mode = Blank THEN "block" ELSE a.mode
                 t == IF a.threshold <= 0 THEN 4 ELSE a.threshold
      <4>1. a.domain \in Domain /\ a.upstream \in Upstream
        BY DEF Body
      <4>2. m \in Mode \ {Blank}
        BY DEF Body, Blank
      <4>3. t \in Nat \ {0}
        BY DEF Body
      <4>4. a = [domain |-> a.domain, upstream |-> a.upstream,
                 mode |-> a.mode, threshold |-> a.threshold]
        BY DEF Body
      <4>5. Defaulted(a) = [domain |-> a.domain, upstream |-> a.upstream,
                            mode |-> m, threshold |-> t]
        <5>1. Defaulted(a) = [a EXCEPT !.mode = m, !.threshold = t]
          BY Zenon DEF Defaulted
        <5> HIDE DEF m, t
        <5> QED
          BY <4>4, <5>1
      <4> HIDE DEF m, t
      <4> QED
        BY <4>1, <4>2, <4>3, <4>5 DEF Row
    <3> QED
      BY <3>1, <3>2, InsertTables
  <2>2. CASE \E id \in 1 .. lastId, u \in Updates : Update(id, u)
    BY <2>2, UpdateTables
  <2>3. CASE \E id \in 1 .. lastId : Delete(id)
    BY <2>3, DeleteTables
  <2> QED
    BY <2>1, <2>2, <2>3 DEF HandlerWrites
<1>2. /\ PastOK' /\ IsTable(rows)'
      /\ Len(past') = Len(past) + 1 /\ Len(past') \in 1 .. MaxChanges + 1
      /\ \A i \in DOMAIN past : past'[i] = past[i]
      /\ DOMAIN past \subseteq DOMAIN past'
      /\ past'[Len(past')] = rows'
      /\ \A i \in DOMAIN past' : IsTable(past[i])'
  BY <1>1, WriteTables
<1>3. /\ p \in Reloader /\ pc[p] = "idle" /\ pc' = [pc EXCEPT ![p] = "list"]
      /\ made' = [made EXCEPT ![p] = Len(past')]
      /\ sure' = [sure EXCEPT ![p] = \A q \in Reloader : pc[q] /= "install"]
      /\ UNCHANGED <<byDomain, seen, at>>
  BY DEF HandlerWrites, Start, Reloader
<1>4. /\ lastId \in 0 .. MaxId /\ lastId' \in lastId .. MaxId
      /\ DOMAIN byDomain = Host
      /\ pc \in [Reloader -> {"idle", "list", "install"}]
      /\ seen \in [Reloader -> DOMAIN past] /\ at \in DOMAIN past
      /\ made \in [Reloader -> 0 .. Len(past)] /\ sure \in [Reloader -> BOOLEAN]
      /\ Len(past) \in Nat
  BY <1>1 DEF RInv, TypeOK
<1>5. TypeOK'
  <2>1. lastId' \in 0 .. MaxId /\ pc' \in [Reloader -> {"idle", "list", "install"}]
    <3>1. lastId' \in 0 .. MaxId
      BY <1>4
    <3>2. pc' = [pc EXCEPT ![p] = "list"]
      BY <1>3
    <3>3. pc' \in [Reloader -> {"idle", "list", "install"}]
      BY <1>4, <3>2
    <3> QED
      BY <3>1, <3>3
  <2>2. seen' \in [Reloader -> DOMAIN past'] /\ at' \in DOMAIN past'
    BY <1>2, <1>3, <1>4
  <2>3. made' \in [Reloader -> 0 .. Len(past')]
    BY <1>2, <1>3, <1>4
  <2>4. sure' \in [Reloader -> BOOLEAN]
    <3> DEFINE b == \A q \in Reloader : pc[q] /= "install"
    <3>1. b \in BOOLEAN
      OBVIOUS
    <3>2. sure' = [sure EXCEPT ![p] = b]
      BY <1>3
    <3> HIDE DEF b
    <3> QED
      BY <1>4, <3>1, <3>2
  <2> QED
    BY <1>2, <1>3, <1>4, <2>1, <2>2, <2>3, <2>4 DEF TypeOK
<1>6. (byDomain = Build(past[at]))'
  BY <1>2, <1>3, <1>4 DEF RInv
<1>7. SureOK'
  <2> SUFFICES ASSUME NEW h \in Reloader, sure'[h]
               PROVE  /\ \A q \in Reloader : pc'[q] = "install" => made'[h] <= seen'[q]
                      /\ pc'[h] = "idle" => made'[h] <= at'
    BY DEF SureOK
  <2>1. CASE h = p
    BY <2>1, <1>3, <1>4 DEF Reloader
  <2>2. CASE h /= p
    BY <2>2, <1>3, <1>4 DEF RInv, SureOK, Reloader
  <2> QED
    BY <2>1, <2>2
<1> QED
  BY <1>2, <1>5, <1>6, <1>7 DEF RInv

LEMMA ExternalRInv == RInv /\ External => RInv'
<1> SUFFICES ASSUME RInv, External PROVE RInv'
  OBVIOUS
<1> USE RouterAssumption
<1>1. PICK table \in Table :
        /\ Write(table)
        /\ lastId' \in lastId .. MaxId /\ DOMAIN table \subseteq 1 .. lastId'
  BY InsertTables, DeleteTables DEF External
<1>2. /\ PastOK' /\ IsTable(rows)'
      /\ Len(past') = Len(past) + 1 /\ Len(past') \in 1 .. MaxChanges + 1
      /\ \A i \in DOMAIN past : past'[i] = past[i]
      /\ DOMAIN past \subseteq DOMAIN past'
      /\ past'[Len(past')] = rows'
      /\ \A i \in DOMAIN past' : IsTable(past[i])'
  BY <1>1, WriteTables
<1>3. UNCHANGED <<byDomain, pc, seen, made, sure, at>>
  BY DEF External
<1>4. /\ lastId \in 0 .. MaxId
      /\ seen \in [Reloader -> DOMAIN past] /\ at \in DOMAIN past
      /\ made \in [Reloader -> 0 .. Len(past)]
      /\ Len(past) \in Nat
  BY DEF RInv, TypeOK
<1>5. TypeOK'
  <2>1. seen' \in [Reloader -> DOMAIN past'] /\ at' \in DOMAIN past'
    BY <1>2, <1>3, <1>4
  <2>2. made' \in [Reloader -> 0 .. Len(past')] /\ lastId' \in 0 .. MaxId
    BY <1>1, <1>2, <1>3, <1>4
  <2> QED
    BY <1>2, <1>3, <2>1, <2>2 DEF TypeOK, RInv
<1>6. (byDomain = Build(past[at]))' /\ SureOK'
  BY <1>2, <1>3, <1>4 DEF RInv, SureOK
<1> QED
  BY <1>2, <1>5, <1>6 DEF RInv

\* The steps of a reload leave the applications table and its history alone.
LEMMA ReloadRInv ==
  ASSUME RInv, Tick \/ \E p \in Reloader : ListApps(p) \/ ListFails(p) \/ Install(p)
  PROVE  RInv'
<1> USE RouterAssumption
<1>1. UNCHANGED dbVars /\ PastOK'
  BY DEF Tick, ListApps, ListFails, Install, dbVars, RInv, PastOK
<1>2. /\ pc \in [Reloader -> {"idle", "list", "install"}]
      /\ seen \in [Reloader -> DOMAIN past] /\ at \in DOMAIN past
      /\ made \in [Reloader -> 0 .. Len(past)] /\ sure \in [Reloader -> BOOLEAN]
      /\ Len(past) \in 1 .. MaxChanges + 1 /\ DOMAIN past = 1 .. Len(past)
      /\ DOMAIN byDomain = Host
  BY DEF RInv, TypeOK, PastOK
<1>3. ASSUME /\ DOMAIN byDomain' = Host
             /\ pc' \in [Reloader -> {"idle", "list", "install"}]
             /\ seen' \in [Reloader -> DOMAIN past] /\ at' \in DOMAIN past
             /\ made' \in [Reloader -> 0 .. Len(past)]
             /\ sure' \in [Reloader -> BOOLEAN]
      PROVE  TypeOK'
  BY <1>1, <1>3 DEF TypeOK, RInv, IsTable, dbVars
<1>4. CASE Tick
  <2> DEFINE b == \A q \in Reloader : pc[q] /= "install"
  <2>1. /\ refresh \in Reloader /\ pc[refresh] = "idle"
        /\ pc' = [pc EXCEPT ![refresh] = "list"]
        /\ made' = [made EXCEPT ![refresh] = Len(past)]
        /\ sure' = [sure EXCEPT ![refresh] = b]
        /\ UNCHANGED <<byDomain, seen, at>>
    BY <1>1, <1>4 DEF Tick, Start, Reloader, dbVars
  <2>2. TypeOK'
    <3>1. b \in BOOLEAN
      OBVIOUS
    <3> HIDE DEF b
    <3>2. made' \in [Reloader -> 0 .. Len(past)] /\ sure' \in [Reloader -> BOOLEAN]
      BY <1>2, <2>1, <3>1
    <3> QED
      BY <1>2, <1>3, <2>1, <3>2
  <2>3. (byDomain = Build(past[at]))'
    BY <1>1, <2>1 DEF RInv, dbVars
  <2>4. SureOK'
    <3> SUFFICES ASSUME NEW h \in Reloader, sure'[h]
                 PROVE  /\ \A q \in Reloader : pc'[q] = "install" => made'[h] <= seen'[q]
                        /\ pc'[h] = "idle" => made'[h] <= at'
      BY DEF SureOK
    <3>1. CASE h = refresh
      BY <1>2, <2>1, <3>1
    <3>2. CASE h /= refresh
      BY <1>2, <2>1, <3>2 DEF RInv, SureOK
    <3> QED
      BY <3>1, <3>2
  <2> QED
    BY <1>1, <2>2, <2>3, <2>4 DEF RInv
<1>5. ASSUME NEW p \in Reloader, ListApps(p) PROVE RInv'
  <2>1. TypeOK'
    BY <1>2, <1>3, <1>5 DEF ListApps
  <2>2. (byDomain = Build(past[at]))'
    BY <1>1, <1>5 DEF ListApps, RInv, dbVars
  <2>3. SureOK'
    <3> SUFFICES ASSUME NEW h \in Reloader, sure'[h]
                 PROVE  /\ \A q \in Reloader : pc'[q] = "install" => made'[h] <= seen'[q]
                        /\ pc'[h] = "idle" => made'[h] <= at'
      BY DEF SureOK
    <3> QED
      BY <1>2, <1>5 DEF ListApps, RInv, SureOK, Reloader
  <2> QED
    BY <1>1, <2>1, <2>2, <2>3 DEF RInv
<1>6. ASSUME NEW p \in Reloader, ListFails(p) PROVE RInv'
  <2>1. TypeOK'
    <3>1. pc' \in [Reloader -> {"idle", "list", "install"}]
      BY <1>2, <1>6 DEF ListFails
    <3>2. sure' \in [Reloader -> BOOLEAN]
      BY <1>2, <1>6 DEF ListFails
    <3> QED
      BY <1>2, <1>3, <1>6, <3>1, <3>2 DEF ListFails
  <2>2. (byDomain = Build(past[at]))'
    BY <1>1, <1>6 DEF ListFails, RInv, dbVars
  <2>3. SureOK'
    <3> SUFFICES ASSUME NEW h \in Reloader, sure'[h]
                 PROVE  /\ \A q \in Reloader : pc'[q] = "install" => made'[h] <= seen'[q]
                        /\ pc'[h] = "idle" => made'[h] <= at'
      BY DEF SureOK
    <3>1. sure[h] /\ h /= p
      BY <1>2, <1>6 DEF ListFails
    <3> QED
      BY <1>2, <1>6, <3>1 DEF ListFails, RInv, SureOK, Reloader
  <2> QED
    BY <1>1, <2>1, <2>2, <2>3 DEF RInv
<1>7. ASSUME NEW p \in Reloader, Install(p) PROVE RInv'
  <2>1. seen[p] \in DOMAIN past /\ at' = seen[p] /\ byDomain' = Build(past[seen[p]])
    BY <1>2, <1>7 DEF Install
  <2>2. TypeOK'
    <3>1. DOMAIN byDomain' = Host
      BY <2>1 DEF Build
    <3>2. pc' \in [Reloader -> {"idle", "list", "install"}]
      BY <1>2, <1>7 DEF Install
    <3> QED
      BY <1>2, <1>3, <1>7, <2>1, <3>1, <3>2 DEF Install
  <2>3. (byDomain = Build(past[at]))'
    BY <1>1, <2>1 DEF dbVars
  <2>4. SureOK'
    <3> SUFFICES ASSUME NEW h \in Reloader, sure'[h]
                 PROVE  /\ \A q \in Reloader : pc'[q] = "install" => made'[h] <= seen'[q]
                        /\ pc'[h] = "idle" => made'[h] <= at'
      BY DEF SureOK
    <3>1. sure[h] /\ made[h] <= seen[p]
      BY <1>7 DEF Install, RInv, SureOK
    <3> QED
      BY <1>2, <1>7, <2>1, <3>1 DEF Install, RInv, SureOK, Reloader
  <2> QED
    BY <1>1, <2>2, <2>3, <2>4 DEF RInv
<1> QED
  BY <1>4, <1>5, <1>6, <1>7

LEMMA NextRInv == RInv /\ [Next]_vars => RInv'
<1> SUFFICES ASSUME RInv, [Next]_vars PROVE RInv'
  OBVIOUS
<1>1. CASE UNCHANGED vars
  BY <1>1 DEF vars, dbVars, RInv, TypeOK, PastOK, SureOK, IsTable
<1>2. CASE Next
  BY <1>2, HandlerWritesRInv, ExternalRInv, ReloadRInv DEF Next
<1> QED
  BY <1>1, <1>2

LEMMA Invariant == Spec => []RInv
<1> QED
  BY InitRInv, NextRInv, PTL DEF Spec

-----------------------------------------------------------------------------
(* Theorems.                                                               *)

\* Every variable has its type (router.go: a table is only ever built from a
\* listing of the applications table).
THEOREM TypeCorrect == Spec => []TypeOK
<1>1. RInv => TypeOK
  BY DEF RInv
<1> QED
  BY <1>1, Invariant, PTL

\* What the applications table held when a reload started is what requests are
\* routed by from its end on, if no reload held an older listing then and its
\* own succeeded (main.go: reloadRouter after a write, refreshLoop).
THEOREM UndisturbedRouted == Spec => []UndisturbedMeansRouted
<1>1. RInv => UndisturbedMeansRouted
  BY DEF RInv, SureOK, UndisturbedMeansRouted
<1> QED
  BY <1>1, Invariant, PTL

=============================================================================
