------------------------------- MODULE Router -------------------------------
(***************************************************************************)
(* internal/proxy/router.go with its feeders in cmd/gateway/main.go and    *)
(* internal/storage: the routing table in memory follows the applications  *)
(* table of PostgreSQL.  An API request writes a row, then reloads: it     *)
(* lists all rows and installs the table built from them.  A refresh loop  *)
(* does the same reload periodically, to see what other programs wrote.    *)
(* Listing and installing are two steps, so reloads overlap.               *)
(*                                                                         *)
(* past, made, sure and at are history: every content the applications     *)
(* table has had, the one a reload was started to install, whether nothing *)
(* stood in its way, the content the routing table was built from.         *)
(***************************************************************************)
EXTENDS Integers, Sequences, FiniteSetsExt

CONSTANTS Handler,     \* API requests that may run at once
          Domain,      \* spellings of hosts, "" among them
          Host,        \* normalised hosts
          normalizeHost,
          Upstream,    \* upstream URLs
          BadUpstream, \* those url.Parse refuses
          Mode,        \* spellings of modes, "" among them
          Adds, Updates,   \* bodies of POST and PUT
          Externals,   \* rows another program may insert
          MaxId, MaxChanges, \* bounds of the model
          ListMayFail  \* whether ListApps may fail

refresh == "refresh"
Reloader == Handler \cup {refresh}
Blank == ""
NoRoute == [id |-> 0]

\* A row, and the body of a request, whose mode and threshold are whatever the
\* caller wrote.
Row == [domain : Domain, upstream : Upstream,
        mode : Mode \ {Blank}, threshold : Nat \ {0}]

Body == [domain : Domain, upstream : Upstream, mode : Mode, threshold : Int]

ASSUME RouterAssumption ==
  /\ normalizeHost \in [Domain -> Host]
  /\ {"block", "detect"} \subseteq Mode
  /\ refresh \notin Handler
  /\ Adds \subseteq Body /\ Updates \subseteq Body /\ Externals \subseteq Row
  /\ MaxId \in Nat /\ MaxChanges \in Nat /\ ListMayFail \in BOOLEAN

VARIABLES rows,    \* applications: id -> [domain, upstream, mode, threshold]
          lastId,  \* the SERIAL of applications
          byDomain,\* the routing table
          pc, seen,\* a reloader: its step, the content it listed
          past, made, sure, at

dbVars == <<rows, lastId, past>>
vars == <<dbVars, byDomain, pc, seen, made, sure, at>>

-----------------------------------------------------------------------------
(* Reload: the rows in id order, the last one of a domain winning; a row    *)
(* without a domain or with an upstream that does not parse is skipped.     *)

Routable(table, id) ==
  table[id].domain /= Blank /\ table[id].upstream \notin BadUpstream

Claims(table, h) ==
  {id \in DOMAIN table : Routable(table, id) /\ normalizeHost[table[id].domain] = h}

Build(table) ==
  [h \in Host |->
     LET ids == Claims(table, h) IN
     IF ids = {} THEN NoRoute ELSE [id |-> Max(ids), app |-> table[Max(ids)]]]

Init ==
  /\ rows = <<>> /\ lastId = 0
  /\ byDomain = [h \in Host |-> NoRoute]
  /\ pc = [p \in Reloader |-> "idle"]
  /\ seen = [p \in Reloader |-> 1]
  /\ past = << <<>> >> /\ at = 1
  /\ made = [p \in Reloader |-> 0] /\ sure = [p \in Reloader |-> FALSE]

-----------------------------------------------------------------------------
(* Writes of the applications table.                                       *)

Write(table) ==
  /\ Len(past) <= MaxChanges
  /\ rows' = table
  /\ past' = Append(past, table)

\* AddApp: an omitted mode or threshold is given a default.
Defaulted(a) ==
  [a EXCEPT !.mode = IF @ = Blank THEN "block" ELSE @,
            !.threshold = IF @ <= 0 THEN 4 ELSE @]

Insert(a) ==
  /\ lastId < MaxId
  /\ lastId' = lastId + 1
  /\ Write([id \in DOMAIN rows \cup {lastId + 1} |->
              IF id = lastId + 1 THEN a ELSE rows[id]])

\* UpdateApp: an empty domain or upstream keeps the old one, the mode and the
\* threshold are always replaced, by defaults if they are not valid.
Updated(a, u) ==
  [domain    |-> IF u.domain = Blank THEN a.domain ELSE u.domain,
   upstream  |-> IF u.upstream = Blank THEN a.upstream ELSE u.upstream,
   mode      |-> IF u.mode \in {"block", "detect"} THEN u.mode ELSE "block",
   threshold |-> IF u.threshold < 1 THEN 4 ELSE u.threshold]

\* No row of that id: the statement succeeds and changes nothing.
Update(id, u) ==
  /\ Write(IF id \in DOMAIN rows THEN [rows EXCEPT ![id] = Updated(@, u)] ELSE rows)
  /\ UNCHANGED lastId

Delete(id) ==
  /\ Write([i \in DOMAIN rows \ {id} |-> rows[i]])
  /\ UNCHANGED lastId

\* A reload is to install what the table holds now; it is sure to if no reload
\* holds an older listing.
Start(p) ==
  /\ pc[p] = "idle"
  /\ pc' = [pc EXCEPT ![p] = "list"]
  /\ made' = [made EXCEPT ![p] = Len(past')]
  /\ sure' = [sure EXCEPT ![p] = \A q \in Reloader : pc[q] /= "install"]

\* POST, PUT and DELETE of /_sentinel/apps up to the reload.  A write that is
\* refused answers an error and changes nothing.
HandlerWrites(p) ==
  /\ \/ \E a \in Adds : a.domain /= Blank /\ a.upstream /= Blank /\ Insert(Defaulted(a))
     \/ \E id \in 1 .. lastId, u \in Updates : Update(id, u)
     \/ \E id \in 1 .. lastId : Delete(id)
  /\ Start(p)
  /\ UNCHANGED <<byDomain, seen, at>>

External ==
  /\ \/ \E a \in Externals : Insert(a)
     \/ \E id \in 1 .. lastId : Delete(id)
  /\ UNCHANGED <<byDomain, pc, seen, made, sure, at>>

-----------------------------------------------------------------------------
(* reloadRouter.                                                           *)

\* The refresh loop's ticker.
Tick ==
  /\ UNCHANGED <<dbVars, byDomain, seen, at>>
  /\ Start(refresh)

\* Mutant: the listing is read from a replica that is one write late.
ListLate(p) ==
  /\ pc[p] = "list"
  /\ pc' = [pc EXCEPT ![p] = "install"]
  /\ seen' = [seen EXCEPT ![p] = Max({1, Len(past) - 1})]
  /\ UNCHANGED <<dbVars, byDomain, made, sure, at>>

ListApps(p) ==
  /\ pc[p] = "list"
  /\ pc' = [pc EXCEPT ![p] = "install"]
  /\ seen' = [seen EXCEPT ![p] = Len(past)]
  /\ UNCHANGED <<dbVars, byDomain, made, sure, at>>

\* The old table stays; an API request answers success all the same.
ListFails(p) ==
  /\ ListMayFail
  /\ pc[p] = "list"
  /\ pc' = [pc EXCEPT ![p] = "idle"]
  /\ sure' = [q \in Reloader |-> sure[q] /\ q /= p]
  /\ UNCHANGED <<dbVars, byDomain, seen, made, at>>

\* Mutant: a listing with as many rows as before is taken for unchanged.
InstallIfCountChanged(p) ==
  LET same == Cardinality(DOMAIN past[seen[p]]) = Cardinality(DOMAIN past[at]) IN
  /\ pc[p] = "install"
  /\ byDomain' = IF same THEN byDomain ELSE Build(past[seen[p]])
  /\ at' = IF same THEN at ELSE seen[p]
  /\ pc' = [pc EXCEPT ![p] = "idle"]
  /\ UNCHANGED <<dbVars, seen, made, sure>>

Install(p) ==
  /\ pc[p] = "install"
  /\ byDomain' = Build(past[seen[p]])
  /\ at' = seen[p]
  /\ pc' = [pc EXCEPT ![p] = "idle"]
  /\ UNCHANGED <<dbVars, seen, made, sure>>

-----------------------------------------------------------------------------
Next ==
  \/ \E p \in Handler : HandlerWrites(p)
  \/ External
  \/ Tick
  \/ \E p \in Reloader : ListApps(p) \/ ListFails(p) \/ Install(p)

Spec == Init /\ [][Next]_vars

\* The ticker ticks, goroutines run, and the database answers a listing now
\* and then.  Nobody need write.
FairSpec ==
  /\ Spec
  /\ WF_vars(Tick)
  /\ \A p \in Reloader : SF_vars(ListApps(p)) /\ WF_vars(Install(p))

-----------------------------------------------------------------------------
(* Properties.                                                             *)

IsTable(table) ==
  /\ DOMAIN table \subseteq 1 .. lastId
  /\ \A id \in DOMAIN table : table[id] \in Row

\* Every variable has its type: a reload works on a content the table has had.
TypeOK ==
  /\ lastId \in 0 .. MaxId /\ IsTable(rows)
  /\ DOMAIN byDomain = Host
  /\ pc \in [Reloader -> {"idle", "list", "install"}]
  /\ Len(past) \in 1 .. MaxChanges + 1
  /\ \A i \in DOMAIN past : IsTable(past[i])
  /\ past[Len(past)] = rows
  /\ seen \in [Reloader -> DOMAIN past] /\ at \in DOMAIN past
  /\ made \in [Reloader -> 0 .. Len(past)] /\ sure \in [Reloader -> BOOLEAN]

\* The applications table as it was when a reload started - a request's own
\* write, or whatever other programs wrote before a tick - is what requests are
\* routed by from the reload's end on, if its listing succeeded and no reload
\* held an older one when it started: reloads that start later, overlap and
\* finish in any order never put an older table back, and a stale table is
\* gone with the next such tick.
UndisturbedMeansRouted ==
  \A p \in Reloader : pc[p] = "idle" /\ sure[p] => made[p] <= at

\* refreshLoop: once nobody writes any more, the routing table follows the
\* applications table for good, whatever reloads overlapped or failed.
Converges == <>[](byDomain = Build(rows))

=============================================================================
