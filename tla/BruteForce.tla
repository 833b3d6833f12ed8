----------------------------- MODULE BruteForce -----------------------------
(***************************************************************************)
(* internal/detector/bruteforce.go: a sliding window of authentication     *)
(* attempts per client address.  The gateway inspects requests at once; a  *)
(* request reads the clock first and takes the lock then, so requests may  *)
(* pass the lock in another order than they read the clock, and UnixNano   *)
(* follows the wall clock, which may be set back.                          *)
(*                                                                         *)
(* Only requests with a client address and an authentication path get that *)
(* far; Inspect leaves the others alone.  served is history: the attempts  *)
(* in the order of the lock, each with its time and whether it was         *)
(* reported.                                                               *)
(***************************************************************************)
EXTENDS Integers, Sequences, SequencesExt

CONSTANTS Request,     \* requests that may be inspected at once
          IP,
          Window, Limit,
          Start,       \* the clock when the gateway starts
          MaxTicks, MaxAttempts   \* bounds of the model

\* lastGC is 0 until the first attempt, which is long ago.
ASSUME BruteForceAssumption ==
  /\ Window \in Nat /\ Limit \in Nat /\ MaxTicks \in Nat /\ MaxAttempts \in Nat
  /\ Start \in Nat /\ Start > Window

VARIABLES clock,
          hits,    \* the map: address -> times of its attempts
          lastGC,
          pc, from, now,   \* a request: its step, its address, what it read
          served

requestVars == <<pc, from, now>>
vars == <<clock, hits, lastGC, requestVars, served>>

Time == Start .. Start + MaxTicks

Init ==
  /\ clock = Start
  /\ hits = <<>> /\ lastGC = 0
  /\ pc = [r \in Request |-> "idle"]
  /\ from \in [Request -> IP] /\ now = [r \in Request |-> Start]
  /\ served = <<>>

-----------------------------------------------------------------------------
(* The wall clock.                                                         *)

Tick ==
  /\ clock + 1 \in Time
  /\ clock' = clock + 1
  /\ UNCHANGED <<hits, lastGC, requestVars, served>>

SetBack ==
  /\ clock' \in Start .. clock - 1
  /\ UNCHANGED <<hits, lastGC, requestVars, served>>

-----------------------------------------------------------------------------
(* Inspect.                                                                *)

InFlight == {r \in Request : pc[r] = "lock"}

ReadClock(r, ip) ==
  /\ pc[r] = "idle"
  /\ Len(served) + Cardinality(InFlight) < MaxAttempts
  /\ pc' = [pc EXCEPT ![r] = "lock"]
  /\ from' = [from EXCEPT ![r] = ip]
  /\ now' = [now EXCEPT ![r] = clock]
  /\ UNCHANGED <<clock, hits, lastGC, served>>

\* Mutant: the sweep looks at the oldest attempt of an address, not the latest.
SweepByOldest(map, cutoff) ==
  Restrict(map, {ip \in DOMAIN map : Head(map[ip]) >= cutoff})

\* Mutant: the sweep looks for addresses without attempts, and there is none.
SweepEmpty(map, cutoff) ==
  Restrict(map, {ip \in DOMAIN map : map[ip] /= <<>>})

\* The sweep: an address whose last attempt left the window is forgotten.
Sweep(map, cutoff) ==
  Restrict(map, {ip \in DOMAIN map : map[ip] /= <<>> /\ Last(map[ip]) >= cutoff})

\* The attempts of arr since the cutoff: the loop that trims.
Recent(arr, cutoff) ==
  LET kept[n \in 0 .. Len(arr)] ==
        IF n = 0 THEN <<>>
        ELSE IF arr[n] >= cutoff THEN Append(kept[n - 1], arr[n]) ELSE kept[n - 1]
  IN kept[Len(arr)]

\* Mutant: the slice is never trimmed.
Untrimmed(map, ip, cutoff) == IF ip \in DOMAIN map THEN map[ip] ELSE <<>>

\* Mutant: an attempt exactly one window old is out of it.
TrimmedTooMuch(map, ip, cutoff) ==
  IF ip \in DOMAIN map THEN Recent(map[ip], cutoff + 1) ELSE <<>>

\* Attempts of the address still in the window.
Trimmed(map, ip, cutoff) ==
  IF ip \in DOMAIN map THEN Recent(map[ip], cutoff) ELSE <<>>

\* Under the lock: sweep at most once per window, trim, record, judge.
Record(r) ==
  LET cutoff == now[r] - Window
      sweep  == now[r] - lastGC > Window
      map    == IF sweep THEN Sweep(hits, cutoff) ELSE hits
      kept   == Append(Trimmed(map, from[r], cutoff), now[r])
  IN
  /\ pc[r] = "lock"
  /\ hits' = [ip \in DOMAIN map \cup {from[r]} |->
                IF ip = from[r] THEN kept ELSE map[ip]]
  /\ lastGC' = IF sweep THEN now[r] ELSE lastGC
  /\ served' = Append(served,
       [ip |-> from[r], at |-> now[r], reported |-> Len(kept) > Limit])
  /\ pc' = [pc EXCEPT ![r] = "idle"]
  /\ UNCHANGED <<clock, from, now>>

-----------------------------------------------------------------------------
Next ==
  \/ Tick \/ SetBack
  \/ \E r \in Request : Record(r) \/ \E ip \in IP : ReadClock(r, ip)

Spec == Init /\ [][Next]_vars

-----------------------------------------------------------------------------
(* Properties.                                                             *)

\* Every variable has its type, no address is kept without attempts, and the
\* last sweep was made by an attempt, at its time.
TypeOK ==
  /\ clock \in Time
  /\ DOMAIN hits \subseteq IP
  /\ \A ip \in DOMAIN hits : hits[ip] \in Seq(Time) /\ hits[ip] /= <<>>
  /\ lastGC = 0 \/ \E i \in DOMAIN served : lastGC = served[i].at
  /\ pc \in [Request -> {"idle", "lock"}]
  /\ from \in [Request -> IP] /\ now \in [Request -> Time]
  /\ served \in Seq([ip : IP, at : Time, reported : BOOLEAN])

\* The attempts passed the lock in the order of their times.
InOrder == \A i, j \in DOMAIN served : i <= j => served[i].at <= served[j].at

\* Attempts of the address of attempt i that its window holds, itself included.
WindowOf(i) ==
  {j \in 1 .. i : /\ served[j].ip = served[i].ip
                  /\ served[j].at >= served[i].at - Window}

\* The detector counts what its comment says, however much it forgets: while
\* the clock runs on and requests pass the lock in the order they read it, an
\* attempt is reported if and only if its address has made more than Limit
\* attempts in the window that ends with it.  Sweeps made by other addresses
\* never lose an attempt that still counts.
ReportsExactly ==
  InOrder => \A i \in DOMAIN served :
    served[i].reported <=> Cardinality(WindowOf(i)) > Limit

\* In any order and with any clock, an address is never reported without more
\* than Limit attempts of its own that are no older than the window.
NeverWithoutCause ==
  \A i \in DOMAIN served :
    served[i].reported => Cardinality(WindowOf(i)) > Limit

\* In any order and with any clock, an attempt is only forgotten after it, or a
\* later attempt of the same address, was older than the window to some request.
Remembered(i) ==
  LET ip == served[i].ip IN
  ip \in DOMAIN hits /\ served[i].at \in Range(hits[ip])

OnlyExpiredForgotten ==
  \A i \in DOMAIN served :
    \/ Remembered(i)
    \/ \E j \in i .. Len(served), k \in i .. Len(served) :
         /\ j < k /\ served[j].ip = served[i].ip
         /\ served[j].at < served[k].at - Window

\* The memory the comment promises to bound: while attempts are in order, no
\* address is kept that has been idle for two windows.
IdleAreSwept ==
  InOrder /\ served /= <<>> =>
    \A ip \in DOMAIN hits : Last(hits[ip]) >= Last(served).at - 2 * Window
=============================================================================
