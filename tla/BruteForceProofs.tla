--------------------------- MODULE BruteForceProofs ---------------------------
(***************************************************************************)
(* Proofs about BruteForce for every number of requests at once, every set *)
(* of addresses, every window and limit, and a clock that may be set back. *)
(***************************************************************************)
EXTENDS BruteForce, FiniteSetTheorems, SequenceTheorems, WellFoundedInduction, TLAPS

LEMMA LeastNatural ==
  ASSUME NEW T \in SUBSET Nat, T /= {}
  PROVE  \E d \in T : \A y \in T : ~ (y < d)
<1>1. PICK d \in T : \A y \in T : <<y, d>> \notin OpToRel(<, Nat)
  BY WFMin, NatLessThanWellFounded, Zenon
<1>2. \A y \in T : ~ (y < d)
  BY <1>1, Zenon DEF OpToRel
<1> QED
  BY <1>2, Zenon

LEMMA TimeIsNat ==
  /\ Time \subseteq Nat
  /\ \A t \in Time : t \in Int /\ t - Window \in Int /\ t >= Start
BY BruteForceAssumption DEF Time

-----------------------------------------------------------------------------
(* The loop that trims.                                                    *)

\* f holds what the loop has kept after each of its first n steps.
Loops(arr, c, n, f) ==
  f = [i \in 0 .. n |->
         IF i = 0 THEN <<>>
         ELSE IF arr[i] >= c THEN Append(f[i - 1], arr[i]) ELSE f[i - 1]]

LEMMA LoopAt ==
  ASSUME NEW arr, NEW c, NEW n \in Nat, NEW f, Loops(arr, c, n, f), NEW i \in 0 .. n
  PROVE  f[i] = IF i = 0 THEN <<>>
                ELSE IF arr[i] >= c THEN Append(f[i - 1], arr[i]) ELSE f[i - 1]
BY DEF Loops

LEMMA LoopExists ==
  ASSUME NEW arr, NEW c, NEW n \in Nat
  PROVE  \E f : Loops(arr, c, n, f)
<1> DEFINE wrong == {i \in Nat : \A f : ~ Loops(arr, c, i, f)}
<1> SUFFICES ASSUME wrong /= {} PROVE FALSE
  OBVIOUS
<1>1. PICK d \in wrong : \A y \in wrong : ~ (y < d)
  <2>1. wrong \in SUBSET Nat
    OBVIOUS
  <2> HIDE DEF wrong
  <2> QED
    BY <2>1, LeastNatural
<1>2. d /= 0
  <2>1. PICK f : f = [i \in {0} |-> <<>>]
    OBVIOUS
  <2>2. f = [i \in 0 .. 0 |->
               IF i = 0 THEN <<>>
               ELSE IF arr[i] >= c THEN Append(f[i - 1], arr[i]) ELSE f[i - 1]]
    BY <2>1
  <2> QED
    BY <2>2 DEF Loops
<1>3. PICK f : Loops(arr, c, d - 1, f)
  BY <1>1, <1>2
<1>4. PICK g : g = [i \in 0 .. d |-> IF i <= d - 1 THEN f[i]
                                   ELSE IF arr[d] >= c THEN Append(f[d - 1], arr[d])
                                   ELSE f[d - 1]]
  OBVIOUS
<1>5. \A i \in 0 .. d : g[i] = IF i = 0 THEN <<>>
                               ELSE IF arr[i] >= c THEN Append(g[i - 1], arr[i])
                               ELSE g[i - 1]
  <2> TAKE i \in 0 .. d
  <2>1. CASE i <= d - 1
    <3>1. PICK m \in Nat : m = d - 1 /\ i \in 0 .. m
      BY <1>2, <2>1
    <3>4. Loops(arr, c, m, f)
      BY <1>3, <3>1
    <3>2. f[i] = IF i = 0 THEN <<>>
                 ELSE IF arr[i] >= c THEN Append(f[i - 1], arr[i]) ELSE f[i - 1]
      BY <3>1, <3>4 DEF Loops
    <3>3. g[i] = f[i] /\ (i /= 0 => g[i - 1] = f[i - 1])
      BY <1>4, <2>1
    <3> QED
      BY <3>2, <3>3
  <2>2. CASE i = d
    BY <1>2, <1>4, <2>2
  <2> QED
    BY <2>1, <2>2
<1>6. Loops(arr, c, d, g)
  BY <1>4, <1>5 DEF Loops
<1> QED
  BY <1>1, <1>6

\* s lists the elements of arr, of the first n, that are not before c, and g
\* says where each comes from.
Filtered(arr, c, n, s, g) ==
  /\ s \in Seq(Time)
  /\ g \in [1 .. Len(s) -> 1 .. n]
  /\ \A k \in 1 .. Len(s) : s[k] = arr[g[k]] /\ arr[g[k]] >= c
  /\ \A k, l \in 1 .. Len(s) : k < l => g[k] < g[l]
  /\ \A j \in 1 .. n : arr[j] >= c => \E k \in 1 .. Len(s) : g[k] = j

LEMMA FilteredKeep ==
  ASSUME NEW arr \in Seq(Time), NEW c \in Int, NEW n \in Nat \ {0}, n <= Len(arr),
         NEW s, NEW g, Filtered(arr, c, n - 1, s, g), arr[n] >= c
  PROVE  \E h : Filtered(arr, c, n, Append(s, arr[n]), h)
<1>1. /\ s \in Seq(Time) /\ g \in [1 .. Len(s) -> 1 .. n - 1] /\ Len(s) \in Nat
      /\ arr[n] \in Time
  BY DEF Filtered
<1>2. PICK t \in Seq(Time) :
        /\ t = Append(s, arr[n]) /\ Len(t) = Len(s) + 1
        /\ \A k \in 1 .. Len(s) : t[k] = s[k]
        /\ t[Len(s) + 1] = arr[n]
  BY <1>1, AppendProperties
<1>3. PICK m \in Nat : m = Len(s)
  BY <1>1
<1>4. PICK h : h = [k \in 1 .. m + 1 |-> IF k = m + 1 THEN n ELSE g[k]]
  OBVIOUS
<1>5. h \in [1 .. Len(t) -> 1 .. n]
  BY <1>1, <1>2, <1>3, <1>4
<1>6. \A k \in 1 .. Len(t) : t[k] = arr[h[k]] /\ arr[h[k]] >= c
  BY <1>1, <1>2, <1>3, <1>4 DEF Filtered
<1>7. \A k, l \in 1 .. Len(t) : k < l => h[k] < h[l]
  <2> SUFFICES ASSUME NEW k \in 1 .. Len(t), NEW l \in 1 .. Len(t), k < l
               PROVE  h[k] < h[l]
    OBVIOUS
  <2>1. k \in 1 .. m /\ h[k] = g[k] /\ g[k] \in 1 .. n - 1
    BY <1>1, <1>2, <1>3, <1>4
  <2>2. CASE l = m + 1
    BY <1>4, <2>1, <2>2
  <2>3. CASE l \in 1 .. m
    <3>1. h[l] = g[l] /\ g[k] < g[l]
      BY <1>3, <1>4, <2>1, <2>3 DEF Filtered
    <3> QED
      BY <2>1, <3>1
  <2> QED
    BY <1>2, <1>3, <2>2, <2>3
<1>8. \A j \in 1 .. n : arr[j] >= c => \E k \in 1 .. Len(t) : h[k] = j
  <2> SUFFICES ASSUME NEW j \in 1 .. n, arr[j] >= c PROVE \E k \in 1 .. Len(t) : h[k] = j
    OBVIOUS
  <2>1. CASE j = n
    BY <1>1, <1>2, <1>3, <1>4, <2>1
  <2>2. CASE j /= n
    <3>1. j \in 1 .. n - 1
      BY <2>2
    <3>2. PICK k \in 1 .. Len(s) : g[k] = j
      BY <3>1 DEF Filtered
    <3> QED
      BY <1>1, <1>2, <1>3, <1>4, <3>2
  <2> QED
    BY <2>1, <2>2
<1>9. Filtered(arr, c, n, t, h)
  BY <1>5, <1>6, <1>7, <1>8 DEF Filtered
<1> QED
  BY <1>2, <1>9

LEMMA FilteredSkip ==
  ASSUME NEW arr, NEW c \in Int, NEW n \in Nat \ {0},
         NEW s, NEW g, Filtered(arr, c, n - 1, s, g), ~ (arr[n] >= c)
  PROVE  Filtered(arr, c, n, s, g)
<1>1. \A j \in 1 .. n : j /= n => j \in 1 .. n - 1
  OBVIOUS
<1>2. g \in [1 .. Len(s) -> 1 .. n]
  BY DEF Filtered
<1> QED
  BY <1>1, <1>2 DEF Filtered

\* What Recent returns.
LEMMA RecentFilters ==
  ASSUME NEW arr \in Seq(Time), NEW c \in Int
  PROVE  \E g : Filtered(arr, c, Len(arr), Recent(arr, c), g)
<1>1. PICK n \in Nat : n = Len(arr)
  OBVIOUS
<1>2. PICK f : f = CHOOSE h : Loops(arr, c, n, h)
  OBVIOUS
<1>3. Loops(arr, c, n, f)
  BY <1>2, LoopExists
<1>4. Recent(arr, c) = f[n]
  BY <1>1, <1>2 DEF Recent, Loops
<1> DEFINE wrong == {i \in 0 .. n : \A g : ~ Filtered(arr, c, i, f[i], g)}
<1>5. wrong = {}
  <2> SUFFICES ASSUME wrong /= {} PROVE FALSE
    OBVIOUS
  <2>1. PICK d \in wrong : \A y \in wrong : ~ (y < d)
    <3>1. wrong \in SUBSET Nat
      OBVIOUS
    <3> HIDE DEF wrong
    <3> QED
      BY <3>1, LeastNatural
  <2>2. d \in 0 .. n
    OBVIOUS
  <2>3. f[d] = IF d = 0 THEN <<>>
               ELSE IF arr[d] >= c THEN Append(f[d - 1], arr[d]) ELSE f[d - 1]
    BY <1>3, <2>2, LoopAt
  <2>4. d /= 0
    <3>1. <<>> \in Seq(Time) /\ Len(<<>>) = 0
      BY EmptySeq
    <3>2. PICK e : e = <<>> /\ e \in Seq(Time) /\ Len(e) = 0
      BY <3>1
    <3>3. PICK g : g = [i \in 1 .. 0 |-> 0]
      OBVIOUS
    <3>4. Filtered(arr, c, 0, e, g)
      BY <3>2, <3>3 DEF Filtered
    <3> QED
      BY <2>1, <2>3, <3>2, <3>4
  <2>5. d - 1 \in 0 .. n /\ d \in Nat \ {0} /\ d <= Len(arr)
    BY <1>1, <2>2, <2>4
  <2>6. PICK g : Filtered(arr, c, d - 1, f[d - 1], g)
    BY <2>1, <2>5
  <2> HIDE DEF wrong
  <2>7. \E h : Filtered(arr, c, d, f[d], h)
    <3>1. CASE arr[d] >= c
      BY <2>3, <2>4, <2>5, <2>6, <3>1, FilteredKeep
    <3>2. CASE ~ (arr[d] >= c)
      BY <2>3, <2>4, <2>5, <2>6, <3>2, FilteredSkip
    <3> QED
      BY <3>1, <3>2
  <2> QED
    BY <2>7 DEF wrong
<1>6. n \in 0 .. n
  OBVIOUS
<1> QED
  BY <1>1, <1>4, <1>5, <1>6

-----------------------------------------------------------------------------
(* What an attempt does to the map and to the history.                     *)

Attempt == [ip : IP, at : Time, reported : BOOLEAN]

\* The times the map has for an address.
Times(ip) == IF ip \in DOMAIN hits THEN hits[ip] ELSE <<>>

\* The map forgets all that h holds: its last time is before c.
Idle(h, c) == h /= <<>> /\ h[Len(h)] < c

\* x is the attempt recorded by r, and f the earlier times kept with it.
Recorded(r, x, f) ==
  LET c == now[r] - Window IN
  /\ x \in Attempt /\ x.ip = from[r] /\ x.at = now[r]
  /\ x.reported = (Len(f) + 1 > Limit)
  /\ f \in Seq(Time)
  /\ served' = Append(served, x)
  /\ DOMAIN hits' \subseteq IP /\ from[r] \in DOMAIN hits'
  /\ hits'[from[r]] = Append(f, x.at)
  /\ \/ \E g : Filtered(Times(from[r]), c, Len(Times(from[r])), f, g)
     \/ Idle(Times(from[r]), c) /\ f = <<>>
  /\ \A ip \in DOMAIN hits' \ {from[r]} : ip \in DOMAIN hits /\ hits'[ip] = hits[ip]
  /\ \A ip \in DOMAIN hits \ DOMAIN hits' : Idle(hits[ip], c)
  /\ \/ /\ now[r] - lastGC > Window /\ lastGC' = now[r]
        /\ \A ip \in DOMAIN hits' \ {from[r]} : hits[ip][Len(hits[ip])] >= c
     \/ ~ (now[r] - lastGC > Window) /\ lastGC' = lastGC

LEMMA TimesTyped ==
  ASSUME TypeOK, NEW ip
  PROVE  Times(ip) \in Seq(Time) /\ (ip \in DOMAIN hits => Times(ip) /= <<>>)
BY EmptySeq DEF Times, TypeOK

LEMMA OnlyRecord ==
  ASSUME [Next]_vars
  PROVE  \/ \E r \in Request : Record(r)
         \/ /\ UNCHANGED <<hits, lastGC, served>>
            /\ TypeOK => TypeOK'
<1>1. CASE Tick \/ SetBack
  BY <1>1, BruteForceAssumption DEF Tick, SetBack, requestVars, TypeOK, Time
<1>2. ASSUME NEW r \in Request, NEW ip \in IP, ReadClock(r, ip)
      PROVE  UNCHANGED <<hits, lastGC, served>> /\ (TypeOK => TypeOK')
  BY <1>2 DEF ReadClock, TypeOK
<1>3. CASE UNCHANGED vars
  BY <1>3 DEF vars, requestVars, TypeOK
<1> QED
  BY <1>1, <1>2, <1>3 DEF Next

\* Any of the two maps that Record may work on.
LEMMA MapOfRecord ==
  ASSUME TypeOK, NEW r \in Request, NEW map, NEW c \in Int,
         map = hits \/ map = Sweep(hits, c)
  PROVE  /\ DOMAIN map \subseteq DOMAIN hits
         /\ \A ip \in DOMAIN map : map[ip] = hits[ip]
         /\ \A ip \in DOMAIN hits \ DOMAIN map : Idle(hits[ip], c)
         /\ map = Sweep(hits, c) => \A ip \in DOMAIN map : hits[ip][Len(hits[ip])] >= c
<1>1. \A ip \in DOMAIN hits : hits[ip] /= <<>> /\ hits[ip] \in Seq(Time)
  BY DEF TypeOK
<1>2. \A ip \in DOMAIN hits : Len(hits[ip]) \in Nat \ {0} /\ hits[ip][Len(hits[ip])] \in Nat
  <2> SUFFICES ASSUME NEW ip \in DOMAIN hits
               PROVE  Len(hits[ip]) \in Nat \ {0} /\ hits[ip][Len(hits[ip])] \in Nat
    OBVIOUS
  <2>1. PICK h \in Seq(Time) : h = hits[ip] /\ h /= <<>>
    BY <1>1
  <2>2. Len(h) \in Nat \ {0}
    BY <2>1, EmptySeq
  <2>3. h[Len(h)] \in Time
    BY <2>2, ElementOfSeq
  <2> QED
    BY <2>1, <2>2, <2>3, TimeIsNat
<1>3. \A ip \in DOMAIN Sweep(hits, c) : hits[ip][Len(hits[ip])] >= c
  BY DEF Sweep, Restrict, Last
<1>4. CASE map = hits
  BY <1>3, <1>4
<1>5. CASE map = Sweep(hits, c)
  BY <1>1, <1>2, <1>3, <1>5 DEF Sweep, Restrict, Last, Idle
<1> QED
  BY <1>4, <1>5

LEMMA RecordFacts ==
  ASSUME TypeOK, NEW r \in Request, Record(r)
  PROVE  \E x, f : Recorded(r, x, f)
<1>1. PICK ip \in IP, n \in Time : ip = from[r] /\ n = now[r]
  BY DEF TypeOK
<1>2. PICK c \in Int : c = n - Window
  BY TimeIsNat, BruteForceAssumption
<1>3. PICK map : /\ map = IF n - lastGC > Window THEN Sweep(hits, c) ELSE hits
                 /\ hits' = [i \in DOMAIN map \cup {ip} |->
                               IF i = ip THEN Append(Trimmed(map, ip, c), n) ELSE map[i]]
                 /\ served' = Append(served, [ip |-> ip, at |-> n,
                      reported |-> Len(Append(Trimmed(map, ip, c), n)) > Limit])
                 /\ lastGC' = IF n - lastGC > Window THEN n ELSE lastGC
  BY <1>1, <1>2 DEF Record
<1>4. /\ DOMAIN map \subseteq DOMAIN hits
      /\ \A i \in DOMAIN map : map[i] = hits[i]
      /\ \A i \in DOMAIN hits \ DOMAIN map : Idle(hits[i], c)
  BY <1>3, MapOfRecord
<1>5. PICK f : f = Trimmed(map, ip, c)
  OBVIOUS
<1>6. /\ f \in Seq(Time)
      /\ \/ \E g : Filtered(Times(ip), c, Len(Times(ip)), f, g)
         \/ Idle(Times(ip), c) /\ f = <<>>
  <2>1. PICK h \in Seq(Time) : h = Times(ip)
    BY TimesTyped
  <2>2. CASE ip \in DOMAIN map
    <3>1. f = Recent(h, c)
      BY <1>4, <1>5, <2>1, <2>2 DEF Trimmed, Times
    <3>2. PICK g : Filtered(h, c, Len(h), f, g)
      BY <3>1, RecentFilters
    <3> QED
      BY <2>1, <3>2 DEF Filtered
  <2>3. CASE ip \notin DOMAIN map
    <3>1. f = <<>> /\ f \in Seq(Time) /\ Len(f) = 0
      BY <1>5, <2>3, EmptySeq DEF Trimmed
    <3>2. CASE ip \in DOMAIN hits
      BY <1>4, <2>3, <3>1, <3>2 DEF Times
    <3>3. CASE ip \notin DOMAIN hits
      <4>1. h = <<>> /\ Len(h) = 0
        BY <2>1, <3>3, EmptySeq DEF Times
      <4>2. PICK g : g = [i \in 1 .. 0 |-> 0]
        OBVIOUS
      <4>3. Filtered(h, c, 0, f, g)
        BY <3>1, <4>2 DEF Filtered
      <4> QED
        BY <2>1, <3>1, <4>1, <4>3
    <3> QED
      BY <3>2, <3>3
  <2> QED
    BY <2>2, <2>3
<1>7. Len(Append(f, n)) = Len(f) + 1
  BY <1>6, AppendProperties
<1>8. PICK b \in BOOLEAN : b = (Len(f) + 1 > Limit)
  <2>1. CASE Len(f) + 1 > Limit
    <3>1. TRUE = (Len(f) + 1 > Limit)
      BY <2>1
    <3> QED
      BY <3>1, Zenon
  <2>2. CASE ~ (Len(f) + 1 > Limit)
    <3>1. FALSE = (Len(f) + 1 > Limit)
      BY <2>2
    <3> QED
      BY <3>1, Zenon
  <2> QED
    BY <2>1, <2>2
<1>9. PICK x \in Attempt : x = [ip |-> ip, at |-> n, reported |-> b]
  BY <1>8 DEF Attempt
<1>10. served' = Append(served, x)
  BY <1>3, <1>5, <1>7, <1>8, <1>9
<1>11. /\ DOMAIN hits' = DOMAIN map \cup {ip}
       /\ hits'[ip] = Append(f, n)
       /\ \A i \in DOMAIN hits' \ {ip} : hits'[i] = map[i]
  BY <1>3, <1>5
<1>12. DOMAIN hits' \subseteq IP
  BY <1>4, <1>11 DEF TypeOK
<1>13. \A i \in DOMAIN hits' \ {ip} : i \in DOMAIN hits /\ hits'[i] = hits[i]
  BY <1>4, <1>11
<1>14. \A i \in DOMAIN hits \ DOMAIN hits' : Idle(hits[i], c)
  BY <1>4, <1>11
<1>15. x.ip = ip /\ x.at = n /\ x.reported = b
  BY <1>9
<1>16. \/ /\ n - lastGC > Window /\ lastGC' = n
          /\ \A i \in DOMAIN hits' \ {ip} : hits[i][Len(hits[i])] >= c
       \/ ~ (n - lastGC > Window) /\ lastGC' = lastGC
  <2>1. CASE n - lastGC > Window
    <3>1. map = Sweep(hits, c) /\ lastGC' = n
      BY <1>3, <2>1
    <3>2. \A i \in DOMAIN map : hits[i][Len(hits[i])] >= c
      BY <3>1, MapOfRecord
    <3> QED
      BY <1>11, <2>1, <3>1, <3>2
  <2>2. CASE ~ (n - lastGC > Window)
    BY <1>3, <2>2
  <2> QED
    BY <2>1, <2>2
<1> QED
  BY <1>1, <1>2, <1>6, <1>8, <1>10, <1>11, <1>12, <1>13, <1>14, <1>15, <1>16 DEF Recorded

LEMMA AppendServed ==
  ASSUME TypeOK, NEW x \in Attempt, served' = Append(served, x)
  PROVE  /\ served' \in Seq(Attempt) /\ Len(served) \in Nat
         /\ Len(served') = Len(served) + 1
         /\ DOMAIN served = 1 .. Len(served) /\ DOMAIN served' = 1 .. Len(served) + 1
         /\ \A i \in 1 .. Len(served) : served'[i] = served[i]
         /\ served'[Len(served) + 1] = x
<1>1. served \in Seq(Attempt)
  BY DEF TypeOK, Attempt
<1> QED
  BY <1>1, AppendProperties, LenProperties

LEMMA TypeNext == TypeOK /\ [Next]_vars => TypeOK'
<1> SUFFICES ASSUME TypeOK, [Next]_vars PROVE TypeOK'
  OBVIOUS
<1>1. ASSUME NEW r \in Request, Record(r) PROVE TypeOK'
  <2>1. PICK x, f : Recorded(r, x, f)
    BY <1>1, RecordFacts
  <2>2. x \in Attempt /\ served' = Append(served, x) /\ x.at = now[r]
    BY <2>1 DEF Recorded
  <2>3. /\ served' \in Seq(Attempt) /\ Len(served) \in Nat
        /\ DOMAIN served = 1 .. Len(served) /\ DOMAIN served' = 1 .. Len(served) + 1
        /\ \A i \in 1 .. Len(served) : served'[i] = served[i]
        /\ served'[Len(served) + 1] = x
    BY <2>2, AppendServed
  <2>4. lastGC' = 0 \/ \E i \in DOMAIN served' : lastGC' = served'[i].at
    <3>1. CASE lastGC' = now[r]
      BY <2>2, <2>3, <3>1
    <3>2. CASE lastGC' = lastGC /\ lastGC /= 0
      <4>1. PICK i \in DOMAIN served : lastGC = served[i].at
        BY <3>2 DEF TypeOK
      <4> QED
        BY <2>3, <3>2, <4>1
    <3> QED
      BY <2>1, <3>1, <3>2 DEF Recorded
  <2>5. \A ip \in DOMAIN hits' : hits'[ip] \in Seq(Time) /\ hits'[ip] /= <<>>
    <3>1. Append(f, x.at) \in Seq(Time) /\ Append(f, x.at) /= <<>>
      BY <2>1, AppendProperties DEF Recorded, Attempt
    <3> QED
      BY <2>1, <3>1 DEF Recorded, TypeOK
  <2>6. DOMAIN hits' \subseteq IP
    BY <2>1 DEF Recorded
  <2>7. UNCHANGED <<clock, from, now>> /\ pc' = [pc EXCEPT ![r] = "idle"]
    BY <1>1 DEF Record
  <2> QED
    BY <2>3, <2>4, <2>5, <2>6, <2>7 DEF TypeOK, Attempt
<1> QED
  BY <1>1, OnlyRecord

\* TypeOK: every variable keeps its type, and no address is kept without times.
THEOREM TypeCorrect == Spec => []TypeOK
<1>1. ASSUME Init PROVE TypeOK
  <2>1. served \in Seq(Attempt) /\ DOMAIN hits = {}
    BY <1>1, EmptySeq DEF Init
  <2>2. Start \in Time
    BY BruteForceAssumption DEF Time
  <2> QED
    BY <1>1, <2>1, <2>2 DEF Init, TypeOK, Attempt
<1> QED
  BY <1>1, TypeNext, PTL DEF Spec

-----------------------------------------------------------------------------
(* The map against the history.                                            *)

Ordered(s) == \A i, j \in 1 .. Len(s) : i <= j => s[i].at <= s[j].at

\* h has every attempt of ip, in the history s, that a window ending with the
\* last attempt of s holds.
Whole(s, h, ip, f) ==
  \A j \in 1 .. Len(s) :
    s[j].ip = ip /\ s[j].at >= s[Len(s)].at - Window => \E k \in 1 .. Len(h) : f[k] = j

\* f says which attempt of s each time in h is of: they are attempts of ip, in
\* order, the latest of its attempts among them, and all that count if the
\* history is in the order of time.
Trace(s, h, ip, f) ==
  /\ f \in [1 .. Len(h) -> 1 .. Len(s)]
  /\ \A k \in 1 .. Len(h) : s[f[k]].ip = ip /\ s[f[k]].at = h[k]
  /\ \A k, l \in 1 .. Len(h) : k < l => f[k] < f[l]
  /\ h /= <<>> => \A j \in 1 .. Len(s) : s[j].ip = ip => j <= f[Len(h)]
  /\ Ordered(s) => Whole(s, h, ip, f)

\* t is s and one more attempt, x.
Extends(s, x, t) ==
  /\ s \in Seq(Attempt) /\ x \in Attempt /\ t \in Seq(Attempt)
  /\ Len(s) \in Nat /\ Len(t) = Len(s) + 1
  /\ \A i \in 1 .. Len(s) : t[i] = s[i]
  /\ t[Len(s) + 1] = x

LEMMA TimeAt ==
  ASSUME NEW h \in Seq(Time), NEW k \in 1 .. Len(h)
  PROVE  h[k] \in Time /\ h[k] \in Int
<1>1. h[k] \in Time
  BY ElementOfSeq
<1> QED
  BY <1>1, TimeIsNat

LEMMA AttemptTimes ==
  ASSUME NEW x \in Attempt
  PROVE  x.at \in Int /\ x.at \in Time /\ x.at - Window \in Int /\ x.ip \in IP
BY TimeIsNat DEF Attempt

LEMMA TimesAre ==
  ASSUME NEW s \in Seq(Attempt), NEW i \in 1 .. Len(s)
  PROVE  s[i] \in Attempt /\ s[i].at \in Int /\ s[i].ip \in IP /\ s[i].at \in Time
<1>1. PICK x \in Attempt : x = s[i]
  BY ElementOfSeq
<1> QED
  BY <1>1, AttemptTimes

LEMMA OrderedBefore ==
  ASSUME NEW s, NEW x, NEW t, Extends(s, x, t), Ordered(t)
  PROVE  /\ Ordered(s)
         /\ \A j \in 1 .. Len(s) : s[j].at <= x.at
<1>1. \A i \in 1 .. Len(s) : i \in 1 .. Len(t) /\ t[i] = s[i] /\ i <= Len(t)
  BY DEF Extends
<1>2. Len(t) \in 1 .. Len(t) /\ t[Len(t)] = x
  BY DEF Extends
<1> QED
  BY <1>1, <1>2 DEF Ordered

LEMMA WholeOther ==
  ASSUME NEW s, NEW x, NEW t, Extends(s, x, t), NEW h, NEW ip, NEW f,
         Ordered(t), Whole(s, h, ip, f), x.ip /= ip
  PROVE  Whole(t, h, ip, f)
<1> SUFFICES ASSUME NEW j \in 1 .. Len(t), t[j].ip = ip, t[j].at >= t[Len(t)].at - Window
             PROVE  \E k \in 1 .. Len(h) : f[k] = j
  BY DEF Whole
<1>1. t[Len(t)] = x
  BY DEF Extends
<1>2. j \in 1 .. Len(s) /\ s[j] = t[j]
  BY <1>1 DEF Extends
<1>3. Len(s) \in 1 .. Len(s)
  BY <1>2 DEF Extends
<1>4. s[Len(s)].at <= x.at /\ s[Len(s)].at \in Int /\ x.at \in Int /\ s[j].at \in Int
  BY <1>2, <1>3, OrderedBefore, TimesAre, AttemptTimes DEF Extends
<1>5. s[j].at >= s[Len(s)].at - Window
  BY <1>1, <1>2, <1>4, BruteForceAssumption
<1> QED
  BY <1>2, <1>5 DEF Whole

LEMMA TraceOther ==
  ASSUME NEW s, NEW x, NEW t, Extends(s, x, t), NEW h \in Seq(Time), NEW ip, NEW f,
         Trace(s, h, ip, f), x.ip /= ip
  PROVE  Trace(t, h, ip, f)
<1>1. f \in [1 .. Len(h) -> 1 .. Len(t)] /\ \A k \in 1 .. Len(h) : t[f[k]] = s[f[k]]
  BY DEF Trace, Extends
<1>2. \A k \in 1 .. Len(h) : t[f[k]].ip = ip /\ t[f[k]].at = h[k]
  BY <1>1 DEF Trace
<1>3. \A j \in 1 .. Len(t) : t[j].ip = ip => j \in 1 .. Len(s) /\ s[j].ip = ip
  BY DEF Extends
<1>4. h /= <<>> => \A j \in 1 .. Len(t) : t[j].ip = ip => j <= f[Len(h)]
  BY <1>3 DEF Trace
<1>5. Ordered(t) => Whole(t, h, ip, f)
  BY OrderedBefore, WholeOther DEF Trace
<1> QED
  BY <1>1, <1>2, <1>4, <1>5 DEF Trace

LEMMA IdleAll ==
  ASSUME NEW s \in Seq(Attempt), NEW h \in Seq(Time), NEW ip, NEW f,
         Trace(s, h, ip, f), Ordered(s), NEW c \in Int, Idle(h, c),
         NEW k \in 1 .. Len(h)
  PROVE  h[k] < c
<1>1. PICK n \in Nat : n = Len(h) /\ n \in 1 .. Len(h)
  OBVIOUS
<1>2. f[k] <= f[n] /\ f[k] \in 1 .. Len(s) /\ f[n] \in 1 .. Len(s)
  <2>1. f[k] \in 1 .. Len(s) /\ f[n] \in 1 .. Len(s)
    BY <1>1 DEF Trace
  <2>2. k = n \/ f[k] < f[n]
    BY <1>1 DEF Trace
  <2> QED
    BY <2>1, <2>2
<1>3. s[f[k]].at <= s[f[n]].at
  BY <1>2 DEF Ordered
<1>4. s[f[k]].at = h[k] /\ s[f[n]].at = h[n]
  BY <1>1 DEF Trace
<1>5. h[n] < c
  BY <1>1 DEF Idle
<1>6. h[k] \in Int /\ h[n] \in Int
  BY <1>1, TimeAt
<1> QED
  BY <1>3, <1>4, <1>5, <1>6

LEMMA TraceForgotten ==
  ASSUME NEW s, NEW x, NEW t, Extends(s, x, t), NEW h \in Seq(Time), NEW ip, NEW f,
         Trace(s, h, ip, f), x.ip /= ip, Idle(h, x.at - Window)
  PROVE  \E e : Trace(t, <<>>, ip, e)
<1>1. PICK e : e = [k \in 1 .. 0 |-> 0]
  OBVIOUS
<1>2. PICK m \in Seq(Time) : m = <<>> /\ Len(m) = 0
  BY EmptySeq
<1>3. Trace(t, h, ip, f)
  BY TraceOther
<1>4. ASSUME Ordered(t), NEW j \in 1 .. Len(t), t[j].ip = ip,
             t[j].at >= t[Len(t)].at - Window
      PROVE  FALSE
  <2>1. PICK k \in 1 .. Len(h) : f[k] = j
    BY <1>3, <1>4 DEF Trace, Whole
  <2>2. x.at - Window \in Int /\ t[Len(t)] = x /\ t \in Seq(Attempt)
    BY AttemptTimes DEF Extends
  <2>3. h[k] < x.at - Window
    BY <1>3, <1>4, <2>2, IdleAll
  <2>4. h[k] = t[j].at
    BY <1>3, <2>1 DEF Trace
  <2>5. h[k] \in Int
    BY TimeAt
  <2> QED
    BY <1>4, <2>2, <2>3, <2>4, <2>5
<1>5. Ordered(t) => Whole(t, m, ip, e)
  BY <1>4 DEF Whole
<1>6. Trace(t, m, ip, e)
  BY <1>1, <1>2, <1>5 DEF Trace
<1> QED
  BY <1>2, <1>6

\* g says which times of h are kept in m: in order, and no time since c is left
\* out if the history t is in order.
Keeps(h, m, c, t, g) ==
  /\ m \in Seq(Time)
  /\ g \in [1 .. Len(m) -> 1 .. Len(h)]
  /\ \A k \in 1 .. Len(m) : m[k] = h[g[k]]
  /\ \A k, l \in 1 .. Len(m) : k < l => g[k] < g[l]
  /\ Ordered(t) => \A j \in 1 .. Len(h) : h[j] >= c => \E k \in 1 .. Len(m) : g[k] = j

LEMMA TraceOwn ==
  ASSUME NEW s, NEW x, NEW t, Extends(s, x, t), NEW h \in Seq(Time), NEW f,
         Trace(s, h, x.ip, f), NEW m, NEW g, Keeps(h, m, x.at - Window, t, g)
  PROVE  \E e : Trace(t, Append(m, x.at), x.ip, e)
<1>1. PICK n \in Nat, o \in Nat : n = Len(m) /\ o = Len(s)
  BY DEF Keeps, Extends
<1>2. PICK w \in Seq(Time) :
        /\ w = Append(m, x.at) /\ Len(w) = n + 1 /\ w /= <<>> /\ w[n + 1] = x.at
        /\ \A k \in 1 .. n : w[k] = m[k]
  <2>1. PICK v \in Time : v = x.at
    BY AttemptTimes DEF Extends
  <2>2. m \in Seq(Time)
    BY DEF Keeps
  <2>3. /\ Append(m, v) \in Seq(Time) /\ Len(Append(m, v)) = Len(m) + 1
        /\ Append(m, v) /= <<>> /\ Append(m, v)[Len(m) + 1] = v
        /\ \A k \in 1 .. Len(m) : Append(m, v)[k] = m[k]
    BY <2>2, AppendProperties
  <2> QED
    BY <1>1, <2>1, <2>3
<1>3. PICK e : e = [k \in 1 .. n + 1 |-> IF k = n + 1 THEN o + 1 ELSE f[g[k]]]
  OBVIOUS
<1>4. /\ e[n + 1] = o + 1
      /\ \A k \in 1 .. n : e[k] = f[g[k]] /\ e[k] \in 1 .. o /\ g[k] \in 1 .. Len(h)
  <2>1. g \in [1 .. n -> 1 .. Len(h)] /\ f \in [1 .. Len(h) -> 1 .. o]
    BY <1>1 DEF Keeps, Trace
  <2>2. e[n + 1] = o + 1
    BY <1>3
  <2>3. \A k \in 1 .. n : k \in 1 .. n + 1 /\ k /= n + 1
    OBVIOUS
  <2> QED
    BY <1>3, <2>1, <2>2, <2>3
<1>5. e \in [1 .. n + 1 -> 1 .. o + 1]
  <2>1. \A k \in 1 .. n + 1 : e[k] \in 1 .. o + 1
    <3>1. \A k \in 1 .. n + 1 : k = n + 1 \/ k \in 1 .. n
      OBVIOUS
    <3> QED
      BY <1>4, <3>1
  <2> QED
    BY <1>3, <2>1
<1>6. \A k \in 1 .. n + 1 : t[e[k]].ip = x.ip /\ t[e[k]].at = w[k]
  <2> SUFFICES ASSUME NEW k \in 1 .. n + 1
               PROVE  t[e[k]].ip = x.ip /\ t[e[k]].at = w[k]
    OBVIOUS
  <2>1. CASE k = n + 1
    BY <1>1, <1>2, <1>4, <2>1 DEF Extends
  <2>2. CASE k \in 1 .. n
    <3>1. t[e[k]] = s[f[g[k]]]
      BY <1>1, <1>4, <2>2 DEF Extends
    <3>2. s[f[g[k]]].ip = x.ip /\ s[f[g[k]]].at = h[g[k]]
      BY <1>4, <2>2 DEF Trace
    <3>3. w[k] = h[g[k]]
      BY <1>1, <1>2, <2>2 DEF Keeps
    <3> QED
      BY <3>1, <3>2, <3>3
  <2> QED
    BY <2>1, <2>2
<1>7. \A k, l \in 1 .. n + 1 : k < l => e[k] < e[l]
  <2> SUFFICES ASSUME NEW k \in 1 .. n + 1, NEW l \in 1 .. n + 1, k < l PROVE e[k] < e[l]
    OBVIOUS
  <2>1. k \in 1 .. n
    OBVIOUS
  <2>2. CASE l = n + 1
    BY <1>4, <2>1, <2>2
  <2>3. CASE l \in 1 .. n
    <3>1. g[k] < g[l] /\ g[k] \in 1 .. Len(h) /\ g[l] \in 1 .. Len(h)
      BY <1>1, <1>4, <2>1, <2>3 DEF Keeps
    <3>2. f[g[k]] < f[g[l]]
      BY <3>1 DEF Trace
    <3> QED
      BY <1>4, <2>1, <2>3, <3>2
  <2> QED
    BY <2>2, <2>3
<1>8. \A j \in 1 .. Len(t) : j <= e[n + 1]
  BY <1>1, <1>4 DEF Extends
<1>9. ASSUME Ordered(t), NEW j \in 1 .. Len(t), t[j].ip = x.ip,
             t[j].at >= t[Len(t)].at - Window
      PROVE  \E k \in 1 .. n + 1 : e[k] = j
  <2>1. t[Len(t)] = x /\ Len(t) = o + 1
    BY <1>1 DEF Extends
  <2>2. CASE j = o + 1
    BY <1>4, <2>2
  <2>3. CASE j /= o + 1
    <3>1. j \in 1 .. Len(s) /\ t[j] = s[j]
      BY <1>1, <2>1, <2>3 DEF Extends
    <3>2. PICK last \in 1 .. Len(s) : last = Len(s)
      BY <1>1, <3>1
    <3>3. s[last].at <= x.at /\ s[last].at \in Int /\ x.at \in Int /\ s[j].at \in Int
      BY <1>9, <3>1, OrderedBefore, TimesAre, AttemptTimes DEF Extends
    <3>4. s[j].at >= s[Len(s)].at - Window
      BY <1>9, <2>1, <3>1, <3>2, <3>3, BruteForceAssumption
    <3>5. Whole(s, h, x.ip, f)
      BY <1>9, OrderedBefore DEF Trace
    <3>6. PICK i \in 1 .. Len(h) : f[i] = j
      BY <1>9, <3>1, <3>4, <3>5 DEF Whole
    <3>7. h[i] >= x.at - Window
      BY <1>9, <2>1, <3>1, <3>6 DEF Trace
    <3>8. PICK k \in 1 .. n : g[k] = i
      BY <1>1, <1>9, <3>7 DEF Keeps
    <3> QED
      BY <1>4, <3>6, <3>8
  <2> QED
    BY <2>2, <2>3
<1>10. Ordered(t) => Whole(t, w, x.ip, e)
  BY <1>2, <1>9 DEF Whole
<1>11. Trace(t, w, x.ip, e)
  <2>1. e \in [1 .. Len(w) -> 1 .. Len(t)]
    BY <1>1, <1>2, <1>5 DEF Extends
  <2> QED
    BY <1>2, <1>6, <1>7, <1>8, <1>10, <2>1 DEF Trace
<1> QED
  BY <1>2, <1>11

LEMMA RecordExtends ==
  ASSUME TypeOK, NEW r \in Request, NEW x, NEW f, Recorded(r, x, f)
  PROVE  Extends(served, x, served')
<1>1. x \in Attempt /\ served' = Append(served, x) /\ served \in Seq(Attempt)
  BY DEF Recorded, TypeOK, Attempt
<1> QED
  BY <1>1, AppendServed DEF Extends

\* Every list of times in the map has its trace in the history.
Traced == \A ip \in IP : \E f : Trace(served, Times(ip), ip, f)

LEMMA OwnKeeps ==
  ASSUME TypeOK, NEW r \in Request, NEW x, NEW m, Recorded(r, x, m),
         NEW h, h = Times(x.ip), NEW t, t = served',
         NEW f, Trace(served, h, x.ip, f)
  PROVE  \E g : Keeps(h, m, x.at - Window, t, g)
<1>1. PICK c \in Int : c = x.at - Window
  BY AttemptTimes DEF Recorded
<1>2. h \in Seq(Time) /\ m \in Seq(Time)
  BY TimesTyped DEF Recorded
<1>3. CASE \E g : Filtered(h, c, Len(h), m, g)
  <2>1. PICK g : Filtered(h, c, Len(h), m, g)
    BY <1>3
  <2>2. Keeps(h, m, c, t, g)
    BY <2>1 DEF Filtered, Keeps
  <2> QED
    BY <1>1, <2>2
<1>4. CASE Idle(h, c) /\ m = <<>>
  <2>1. Len(m) = 0
    BY <1>4, EmptySeq
  <2>2. PICK g : g = [k \in 1 .. 0 |-> 0]
    OBVIOUS
  <2>3. ASSUME Ordered(t), NEW j \in 1 .. Len(h), h[j] >= c PROVE FALSE
    <3>1. Extends(served, x, t)
      BY RecordExtends
    <3>2. Ordered(served) /\ served \in Seq(Attempt)
      BY <2>3, <3>1, OrderedBefore DEF Extends
    <3>3. h[j] < c
      BY <1>2, <1>4, <3>2, IdleAll
    <3>4. h[j] \in Int
      BY <1>2, TimeAt
    <3> QED
      BY <2>3, <3>3, <3>4
  <2>4. Keeps(h, m, c, t, g)
    BY <1>2, <2>1, <2>2, <2>3 DEF Keeps
  <2> QED
    BY <1>1, <2>4
<1> QED
  BY <1>1, <1>3, <1>4 DEF Recorded

LEMMA RecordTraced ==
  ASSUME TypeOK, Traced, NEW r \in Request, NEW x, NEW m, Recorded(r, x, m)
  PROVE  Traced'
<1> SUFFICES ASSUME NEW ip \in IP PROVE \E e : Trace(served', Times(ip)', ip, e)
  BY DEF Traced
<1>1. PICK t : t = served'
  OBVIOUS
<1>2. Extends(served, x, t)
  BY <1>1, RecordExtends
<1>3. PICK h \in Seq(Time) : h = Times(ip)
  BY TimesTyped
<1>4. PICK f : Trace(served, h, ip, f)
  BY <1>3 DEF Traced
<1>5. PICK c : c = x.at - Window /\ x.ip = from[r] /\ x.at = now[r]
  BY DEF Recorded
<1>6. CASE ip = x.ip
  <2>1. PICK g : Keeps(h, m, x.at - Window, t, g)
    BY <1>1, <1>3, <1>4, <1>6, OwnKeeps
  <2>2. PICK e : Trace(t, Append(m, x.at), x.ip, e)
    BY <1>2, <1>4, <1>6, <2>1, TraceOwn
  <2>3. Times(ip)' = Append(m, x.at)
    BY <1>5, <1>6 DEF Recorded, Times
  <2> QED
    BY <1>1, <1>6, <2>2, <2>3
<1>7. CASE ip /= x.ip /\ (ip \in DOMAIN hits' \/ ip \notin DOMAIN hits)
  <2>1. Times(ip)' = h
    BY <1>3, <1>5, <1>7 DEF Recorded, Times
  <2>2. Trace(t, h, ip, f)
    BY <1>2, <1>4, <1>7, TraceOther
  <2> QED
    BY <1>1, <2>1, <2>2
<1>8. CASE ip /= x.ip /\ ip \in DOMAIN hits \ DOMAIN hits'
  <2>1. Times(ip)' = <<>> /\ Idle(h, x.at - Window)
    BY <1>3, <1>5, <1>8 DEF Recorded, Times
  <2>2. PICK e : Trace(t, <<>>, ip, e)
    BY <1>2, <1>4, <1>8, <2>1, TraceForgotten
  <2> QED
    BY <1>1, <2>1, <2>2
<1> QED
  BY <1>6, <1>7, <1>8

LEMMA TracedNext == TypeOK /\ Traced /\ [Next]_vars => Traced'
<1> SUFFICES ASSUME TypeOK, Traced, [Next]_vars PROVE Traced'
  OBVIOUS
<1>1. ASSUME NEW r \in Request, Record(r) PROVE Traced'
  BY <1>1, RecordFacts, RecordTraced
<1>2. CASE UNCHANGED <<hits, served>>
  BY <1>2 DEF Traced, Times
<1> QED
  BY <1>1, <1>2, OnlyRecord

LEMMA TracedHolds == Spec => [](TypeOK /\ Traced)
<1>1. ASSUME Init PROVE Traced
  <2> SUFFICES ASSUME NEW ip \in IP PROVE \E f : Trace(served, Times(ip), ip, f)
    BY DEF Traced
  <2>1. PICK e \in Seq(Attempt), m \in Seq(Time) :
          e = served /\ m = Times(ip) /\ m = <<>> /\ Len(e) = 0 /\ Len(m) = 0
    <3>1. /\ <<>> \in Seq(Attempt) /\ <<>> \in Seq(Time) /\ Len(<<>>) = 0
          /\ served = <<>> /\ Times(ip) = <<>>
      <4>1. DOMAIN hits = {} /\ served = <<>>
        BY <1>1 DEF Init
      <4> QED
        BY <4>1, EmptySeq DEF Times
    <3> QED
      BY <3>1
  <2>2. PICK f : f = [k \in 1 .. 0 |-> 0]
    OBVIOUS
  <2>3. Trace(e, m, ip, f)
    BY <2>1, <2>2 DEF Trace, Whole
  <2> QED
    BY <2>1, <2>3
<1> QED
  BY <1>1, TypeCorrect, TracedNext, PTL DEF Spec

-----------------------------------------------------------------------------
(* Reports.                                                                *)

WindowIn(s, i) ==
  {j \in 1 .. i : s[j].ip = s[i].ip /\ s[j].at >= s[i].at - Window}

\* The verdict on attempt i of the history s.
Right(s, i) ==
  /\ s[i].reported => Cardinality(WindowIn(s, i)) > Limit
  /\ Ordered(s) => (Cardinality(WindowIn(s, i)) > Limit => s[i].reported)

LEMMA RightBefore ==
  ASSUME NEW s, NEW x, NEW t, Extends(s, x, t), NEW i \in 1 .. Len(s), Right(s, i)
  PROVE  Right(t, i)
<1>1. \A j \in 1 .. i : t[j] = s[j]
  BY DEF Extends
<1>2. WindowIn(t, i) = WindowIn(s, i)
  BY <1>1 DEF WindowIn
<1>3. t[i] = s[i]
  BY DEF Extends
<1> QED
  BY <1>2, <1>3, OrderedBefore DEF Right

\* A list of times that are all in the window of the last attempt counts it.
LEMMA CountsWindow ==
  ASSUME NEW t \in Seq(Attempt), NEW n \in 1 .. Len(t), n = Len(t),
         NEW h \in Seq(Time), NEW f, Trace(t, h, t[n].ip, f),
         \A k \in 1 .. Len(h) : h[k] >= t[n].at - Window
  PROVE  /\ Len(h) \in Nat /\ Cardinality(WindowIn(t, n)) \in Nat
         /\ Len(h) <= Cardinality(WindowIn(t, n))
         /\ Ordered(t) => Len(h) = Cardinality(WindowIn(t, n))
<1>1. PICK l \in Nat : l = Len(h)
  OBVIOUS
<1>2. PICK W : W = WindowIn(t, n)
  OBVIOUS
<1>3. IsFiniteSet(W)
  <2>1. IsFiniteSet(1 .. n) /\ W \subseteq 1 .. n
    BY <1>2, FS_Interval DEF WindowIn
  <2> QED
    BY <2>1, FS_Subset
<1>4. f \in [1 .. l -> W]
  <2>1. f \in [1 .. l -> 1 .. n]
    BY <1>1 DEF Trace
  <2>2. \A k \in 1 .. l : f[k] \in W
    BY <1>1, <1>2, <2>1 DEF Trace, WindowIn
  <2> QED
    BY <2>1, <2>2
<1>5. \A a, b \in 1 .. l : f[a] = f[b] => a = b
  <2> SUFFICES ASSUME NEW a \in 1 .. l, NEW b \in 1 .. l, f[a] = f[b], a /= b PROVE FALSE
    OBVIOUS
  <2>1. f[a] \in Nat /\ f[b] \in Nat
    BY <1>1 DEF Trace
  <2>2. a < b => f[a] < f[b]
    BY <1>1 DEF Trace
  <2>3. b < a => f[b] < f[a]
    BY <1>1 DEF Trace
  <2> QED
    BY <2>1, <2>2, <2>3
<1>6. f \in Injection(1 .. l, W)
  BY <1>4, <1>5 DEF Injection, IsInjective
<1>7. Cardinality(1 .. l) = l /\ Cardinality(W) \in Nat
  <2>1. Cardinality(W) \in Nat
    BY <1>3, FS_CardinalityType
  <2>2. Cardinality(1 .. l) = IF 1 > l THEN 0 ELSE l - 1 + 1
    <3>1. 1 \in Int /\ l \in Int
      OBVIOUS
    <3> QED
      BY <3>1, FS_Interval, Zenon
  <2> QED
    BY <2>1, <2>2
<1>8. /\ Cardinality(1 .. l) <= Cardinality(W)
      /\ (Cardinality(1 .. l) = Cardinality(W)) <=> f \in Surjection(1 .. l, W)
  BY <1>3, <1>6, FS_Injection
<1>9. ASSUME Ordered(t) PROVE f \in Surjection(1 .. l, W)
  <2>1. \A j \in W : \E k \in 1 .. l : f[k] = j
    BY <1>1, <1>2, <1>9 DEF Trace, Whole, WindowIn
  <2> QED
    BY <1>4, <2>1 DEF Surjection
<1> QED
  BY <1>1, <1>2, <1>7, <1>8, <1>9

\* Every attempt of the history was rightly judged.
AllRight == \A i \in 1 .. Len(served) : Right(served, i)

LEMMA RecordRight ==
  ASSUME TypeOK, Traced', NEW r \in Request, NEW x, NEW m, Recorded(r, x, m),
         NEW t, t = served', NEW n \in 1 .. Len(t), n = Len(t)
  PROVE  Right(t, n)
<1>1. t \in Seq(Attempt) /\ t[n] = x /\ x \in Attempt
  BY RecordExtends DEF Extends
<1>2. x.ip \in IP /\ x.at \in Time /\ x.at \in Int /\ x.at - Window \in Int
  BY <1>1, AttemptTimes
<1>3. PICK h : h = Append(m, x.at)
  OBVIOUS
<1>4. Times(x.ip)' = h
  BY <1>3 DEF Recorded, Times
<1>5. PICK f : Trace(t, h, x.ip, f)
  BY <1>2, <1>4 DEF Traced
<1>6. m \in Seq(Time)
  BY DEF Recorded
<1>7. /\ h \in Seq(Time) /\ Len(h) = Len(m) + 1 /\ Len(m) \in Nat
      /\ \A k \in 1 .. Len(m) : h[k] = m[k]
      /\ h[Len(m) + 1] = x.at
  BY <1>2, <1>3, <1>6, AppendProperties
<1>8. \A k \in 1 .. Len(m) : m[k] >= x.at - Window
  <2>1. CASE m = <<>>
    BY <2>1, EmptySeq
  <2>2. CASE \E g : Filtered(Times(from[r]), now[r] - Window, Len(Times(from[r])), m, g)
    BY <2>2 DEF Recorded, Filtered
  <2> QED
    BY <2>1, <2>2 DEF Recorded
<1>9. \A k \in 1 .. Len(h) : h[k] >= t[n].at - Window
  <2> SUFFICES ASSUME NEW k \in 1 .. Len(h) PROVE h[k] >= x.at - Window
    BY <1>1
  <2>1. CASE k = Len(m) + 1
    BY <1>2, <1>7, <2>1, BruteForceAssumption
  <2>2. CASE k \in 1 .. Len(m)
    BY <1>7, <1>8, <2>2
  <2> QED
    BY <1>7, <2>1, <2>2
<1>10. /\ Cardinality(WindowIn(t, n)) \in Nat
       /\ Len(h) <= Cardinality(WindowIn(t, n))
       /\ Ordered(t) => Len(h) = Cardinality(WindowIn(t, n))
  BY <1>1, <1>5, <1>7, <1>9, CountsWindow
<1>11. x.reported <=> Len(h) > Limit
  BY <1>7 DEF Recorded
<1> QED
  BY <1>1, <1>7, <1>10, <1>11, BruteForceAssumption DEF Right

LEMMA RightNext == TypeOK /\ Traced /\ AllRight /\ [Next]_vars => AllRight'
<1> SUFFICES ASSUME TypeOK, Traced, AllRight, [Next]_vars PROVE AllRight'
  OBVIOUS
<1>1. ASSUME NEW r \in Request, Record(r) PROVE AllRight'
  <2>1. PICK x, m : Recorded(r, x, m)
    BY <1>1, RecordFacts
  <2>2. PICK t : t = served' /\ Extends(served, x, t)
    BY <2>1, RecordExtends
  <2>3. Traced'
    BY <2>1, RecordTraced
  <2>4. ASSUME NEW i \in 1 .. Len(t) PROVE Right(t, i)
    <3>1. CASE i = Len(t)
      BY <2>1, <2>2, <2>3, <3>1, RecordRight
    <3>2. CASE i \in 1 .. Len(served)
      BY <2>2, <3>2, RightBefore DEF AllRight
    <3> QED
      BY <2>2, <3>1, <3>2 DEF Extends
  <2> QED
    BY <2>2, <2>4 DEF AllRight
<1>2. CASE UNCHANGED served
  BY <1>2 DEF AllRight
<1> QED
  BY <1>1, <1>2, OnlyRecord

LEMMA RightHolds == Spec => []AllRight
<1>1. ASSUME Init PROVE AllRight
  <2>1. Len(served) = 0
    BY <1>1, EmptySeq DEF Init
  <2> QED
    BY <2>1 DEF AllRight
<1> QED
  BY <1>1, TracedHolds, RightNext, PTL DEF Spec

LEMMA SameOrder == TypeOK => DOMAIN served = 1 .. Len(served) /\ (InOrder <=> Ordered(served))
BY LenProperties DEF TypeOK, InOrder, Ordered

\* NeverWithoutCause: no address is reported without more than Limit attempts
\* of its own in a window, in any order of the requests and with any clock.
THEOREM NoReportWithoutCause == Spec => []NeverWithoutCause
<1>1. TypeOK /\ AllRight => NeverWithoutCause
  BY SameOrder DEF AllRight, Right, NeverWithoutCause, WindowOf, WindowIn
<1> QED
  BY <1>1, TypeCorrect, RightHolds, PTL

\* ReportsExactly: while attempts pass the lock in the order of their times, the
\* reports are those of a detector that forgets nothing.
THEOREM ReportsAreExact == Spec => []ReportsExactly
<1>1. TypeOK /\ AllRight => ReportsExactly
  BY SameOrder DEF AllRight, Right, ReportsExactly, WindowOf, WindowIn
<1> QED
  BY <1>1, TypeCorrect, RightHolds, PTL

-----------------------------------------------------------------------------
(* What is forgotten, and what is not.                                     *)

\* The time of attempt i of s is still in h; or it, or a later attempt of its
\* address, was out of the window of an attempt made since.
Accounted(s, h, i) ==
  \/ \E k \in 1 .. Len(h) : h[k] = s[i].at
  \/ \E j \in i .. Len(s), k \in i .. Len(s) :
       j < k /\ s[j].ip = s[i].ip /\ s[j].at < s[k].at - Window

AllAccounted == \A i \in 1 .. Len(served) : Accounted(served, Times(served[i].ip), i)

\* An attempt of ip that h has not lost, when an attempt x makes h lose it.
LEMMA ForgottenIdle ==
  ASSUME NEW s, NEW x, NEW t, Extends(s, x, t), NEW i \in 1 .. Len(s),
         NEW h \in Seq(Time), NEW f, Trace(s, h, s[i].ip, f), Idle(h, x.at - Window),
         NEW m
  PROVE  Accounted(t, m, i)
<1>1. PICK n \in Nat : n = Len(h) /\ n \in 1 .. Len(h) /\ h /= <<>>
  BY EmptySeq DEF Idle
<1>2. PICK j \in 1 .. Len(s) : j = f[n] /\ i <= j /\ s[j].ip = s[i].ip /\ s[j].at = h[n]
  BY <1>1 DEF Trace
<1>3. h[n] < x.at - Window
  BY <1>1 DEF Idle
<1>4. PICK k : k = Len(s) + 1
  OBVIOUS
<1>5. k = Len(t) /\ t[k] = x /\ t[j] = s[j] /\ t[i] = s[i] /\ j < k
  BY <1>2, <1>4 DEF Extends
<1>6. j \in i .. Len(t) /\ k \in i .. Len(t)
  BY <1>2, <1>4, <1>5 DEF Extends
<1> QED
  BY <1>2, <1>3, <1>5, <1>6 DEF Accounted

LEMMA AccountedLater ==
  ASSUME NEW s, NEW x, NEW t, Extends(s, x, t), NEW i \in 1 .. Len(s),
         NEW h, Accounted(s, h, i), NEW m,
         \A k \in 1 .. Len(h) : h[k] = s[i].at =>
           \/ \E l \in 1 .. Len(m) : m[l] = h[k]
           \/ h[k] < x.at - Window
  PROVE  Accounted(t, m, i)
<1>1. t[i] = s[i] /\ Len(t) = Len(s) + 1 /\ Len(s) \in Nat /\ t[Len(t)] = x
  BY DEF Extends
<1>2. CASE \E k \in 1 .. Len(h) : h[k] = s[i].at
  <2>1. PICK k \in 1 .. Len(h) : h[k] = s[i].at
    BY <1>2
  <2>2. CASE \E l \in 1 .. Len(m) : m[l] = h[k]
    BY <1>1, <2>1, <2>2 DEF Accounted
  <2>3. CASE h[k] < x.at - Window
    <3>1. i \in i .. Len(t) /\ Len(t) \in i .. Len(t) /\ i < Len(t)
      BY <1>1
    <3> QED
      BY <1>1, <2>1, <2>3, <3>1 DEF Accounted
  <2> QED
    BY <2>1, <2>2, <2>3
<1>3. CASE \E j \in i .. Len(s), k \in i .. Len(s) :
             j < k /\ s[j].ip = s[i].ip /\ s[j].at < s[k].at - Window
  <2>1. PICK j \in i .. Len(s), k \in i .. Len(s) :
          j < k /\ s[j].ip = s[i].ip /\ s[j].at < s[k].at - Window
    BY <1>3
  <2>2. j \in i .. Len(t) /\ k \in i .. Len(t) /\ t[j] = s[j] /\ t[k] = s[k]
    BY <1>1, <2>1 DEF Extends
  <2> QED
    BY <1>1, <2>1, <2>2 DEF Accounted
<1> QED
  BY <1>2, <1>3 DEF Accounted

LEMMA RecordAccounted ==
  ASSUME TypeOK, Traced, AllAccounted, NEW r \in Request, NEW x, NEW m, Recorded(r, x, m)
  PROVE  AllAccounted'
<1>1. PICK t : t = served' /\ Extends(served, x, t)
  BY RecordExtends
<1>2. /\ x.ip = from[r] /\ x.at = now[r] /\ x.at \in Time /\ x.at - Window \in Int
      /\ m \in Seq(Time)
  BY <1>1, AttemptTimes DEF Recorded, Extends
<1>3. PICK w \in Seq(Time) :
        /\ w = Append(m, x.at) /\ Len(w) = Len(m) + 1 /\ Len(m) \in Nat
        /\ w[Len(m) + 1] = x.at
        /\ \A k \in 1 .. Len(m) : w[k] = m[k]
  <2>1. PICK v \in Time : v = x.at
    BY <1>2
  <2>2. /\ Append(m, v) \in Seq(Time) /\ Len(Append(m, v)) = Len(m) + 1
        /\ Len(m) \in Nat /\ Append(m, v)[Len(m) + 1] = v
        /\ \A k \in 1 .. Len(m) : Append(m, v)[k] = m[k]
    BY <1>2, AppendProperties
  <2> QED
    BY <2>1, <2>2
<1>4. Times(x.ip)' = w
  BY <1>2, <1>3 DEF Recorded, Times
<1>5. ASSUME NEW i \in 1 .. Len(t) PROVE Accounted(t, Times(t[i].ip)', i)
  <2>1. CASE i = Len(t)
    <3>1. t[i] = x
      BY <1>1, <2>1 DEF Extends
    <3>2. Accounted(t, w, i)
      BY <1>3, <3>1 DEF Accounted
    <3> QED
      BY <1>4, <3>1, <3>2
  <2>2. CASE i \in 1 .. Len(served)
    <3>1. PICK s : s = served
      OBVIOUS
    <3>2. t[i] = s[i] /\ i \in 1 .. Len(s) /\ Extends(s, x, t) /\ s[i].ip \in IP
      BY <1>1, <2>2, <3>1, TimesAre DEF Extends
    <3>3. PICK h \in Seq(Time) : h = Times(s[i].ip)
      BY TimesTyped
    <3>4. PICK f : Trace(s, h, s[i].ip, f)
      BY <3>1, <3>2, <3>3 DEF Traced
    <3>5. Accounted(s, h, i)
      BY <2>2, <3>1, <3>3 DEF AllAccounted
    <3>6. PICK n : n = Times(s[i].ip)'
      OBVIOUS
    <3>7. CASE Idle(h, x.at - Window)
      <4>1. Accounted(t, n, i)
        BY <3>2, <3>4, <3>7, ForgottenIdle
      <4> QED
        BY <3>2, <3>6, <4>1
    <3>8. CASE ~ Idle(h, x.at - Window) /\ s[i].ip /= x.ip
      <4>1. n = h
        BY <1>2, <3>3, <3>6, <3>8 DEF Recorded, Times
      <4>2. Accounted(t, n, i)
        BY <3>2, <3>5, <4>1, AccountedLater
      <4> QED
        BY <3>2, <3>6, <4>2
    <3>9. CASE ~ Idle(h, x.at - Window) /\ s[i].ip = x.ip
      <4>1. PICK g : Filtered(h, x.at - Window, Len(h), m, g)
        BY <1>2, <3>3, <3>9 DEF Recorded
      <4>2. ASSUME NEW k \in 1 .. Len(h)
            PROVE  \/ \E l \in 1 .. Len(w) : w[l] = h[k]
                   \/ h[k] < x.at - Window
        <5>1. CASE h[k] >= x.at - Window
          <6>1. PICK l \in 1 .. Len(m) : g[l] = k /\ m[l] = h[k]
            BY <4>1, <5>1 DEF Filtered
          <6> QED
            BY <1>3, <6>1
        <5>2. CASE ~ (h[k] >= x.at - Window)
          BY <1>2, <5>2, TimeAt
        <5> QED
          BY <5>1, <5>2
      <4>3. Accounted(t, w, i)
        BY <3>2, <3>5, <4>2, AccountedLater
      <4> QED
        BY <1>4, <3>2, <3>9, <4>3
    <3> QED
      BY <3>7, <3>8, <3>9
  <2> QED
    BY <1>1, <2>1, <2>2 DEF Extends
<1> QED
  BY <1>1, <1>5 DEF AllAccounted

LEMMA AccountedNext == TypeOK /\ Traced /\ AllAccounted /\ [Next]_vars => AllAccounted'
<1> SUFFICES ASSUME TypeOK, Traced, AllAccounted, [Next]_vars PROVE AllAccounted'
  OBVIOUS
<1>1. ASSUME NEW r \in Request, Record(r) PROVE AllAccounted'
  BY <1>1, RecordFacts, RecordAccounted
<1>2. CASE UNCHANGED <<hits, served>>
  BY <1>2 DEF AllAccounted, Times
<1> QED
  BY <1>1, <1>2, OnlyRecord

\* OnlyExpiredForgotten: no sweep, trim or clock makes the detector forget an
\* attempt that no request saw out of its window.
THEOREM ForgetsOnlyExpired == Spec => []OnlyExpiredForgotten
<1>1. ASSUME Init PROVE AllAccounted
  <2>1. Len(served) = 0
    BY <1>1, EmptySeq DEF Init
  <2> QED
    BY <2>1 DEF AllAccounted
<1>2. ASSUME TypeOK, AllAccounted PROVE OnlyExpiredForgotten
  <2> SUFFICES ASSUME NEW i \in DOMAIN served
               PROVE  \/ Remembered(i)
                      \/ \E j \in i .. Len(served), k \in i .. Len(served) :
                           /\ j < k /\ served[j].ip = served[i].ip
                           /\ served[j].at < served[k].at - Window
    BY DEF OnlyExpiredForgotten
  <2>1. PICK ip, h : h \in Seq(Time) /\ ip = served[i].ip /\ h = Times(ip)
    BY <1>2, TimesTyped
  <2>2. Accounted(served, h, i)
    BY <1>2, <2>1, SameOrder DEF AllAccounted
  <2>3. ASSUME NEW k \in 1 .. Len(h), h[k] = served[i].at PROVE Remembered(i)
    <3>1. ip \in DOMAIN hits /\ h = hits[ip]
      BY <2>1, <2>3, EmptySeq DEF Times
    <3>2. k \in DOMAIN h
      OBVIOUS
    <3> QED
      BY <2>1, <2>3, <3>1, <3>2 DEF Remembered, Range
  <2> QED
    BY <2>2, <2>3 DEF Accounted
<1> QED
  BY <1>1, <1>2, TypeCorrect, TracedHolds, AccountedNext, PTL DEF Spec

-----------------------------------------------------------------------------
(* Memory.                                                                 *)

\* The last sweep is not older than a window, and it left only addresses that
\* were not idle then.
SweptAt(s, gc) ==
  /\ gc >= s[Len(s)].at - Window
  /\ \A ip \in DOMAIN hits : hits[ip][Len(hits[ip])] >= gc - Window

Swept == Ordered(served) /\ served /= <<>> => SweptAt(served, lastGC)

LEMMA RecordSwept ==
  ASSUME TypeOK, Swept, NEW r \in Request, NEW x, NEW m, Recorded(r, x, m), Ordered(served)'
  PROVE  SweptAt(served, lastGC)'
<1>1. PICK s, t : s = served /\ t = served' /\ Extends(s, x, t)
  BY RecordExtends
<1>2. PICK n \in Int : n = x.at /\ n = now[r] /\ n - Window \in Int /\ n \in Time
  BY <1>1, AttemptTimes DEF Recorded, Extends
<1>3. n >= Start /\ Start > Window /\ Start \in Nat /\ Window \in Nat
  BY <1>2, TimeIsNat, BruteForceAssumption
<1>4. Ordered(s) /\ \A j \in 1 .. Len(s) : s[j].at <= n
  BY <1>1, <1>2, OrderedBefore
<1>5. t[Len(t)].at = n
  BY <1>1, <1>2 DEF Extends
<1>6. PICK o \in Int : o = lastGC /\ o <= n /\ (o = 0 \/ s /= <<>>)
  <2>1. CASE lastGC = 0
    BY <1>3, <2>1
  <2>2. CASE lastGC /= 0
    <3>1. PICK i \in 1 .. Len(s) : lastGC = s[i].at
      BY <1>1, <2>2, SameOrder DEF TypeOK
    <3>2. s[i].at \in Int /\ s[i].at <= n
      BY <1>1, <1>4, TimesAre DEF Extends
    <3>3. s /= <<>>
      BY <3>1, EmptySeq
    <3> QED
      BY <3>1, <3>2, <3>3
  <2> QED
    BY <2>1, <2>2
<1>7. hits'[from[r]][Len(hits'[from[r]])] = n
  <2>1. PICK v \in Time : v = x.at
    BY <1>2
  <2>2. m \in Seq(Time) /\ hits'[from[r]] = Append(m, v)
    BY <2>1 DEF Recorded
  <2>3. Len(Append(m, v)) = Len(m) + 1 /\ Append(m, v)[Len(m) + 1] = v
    BY <2>2, AppendProperties
  <2> QED
    BY <1>2, <2>1, <2>2, <2>3
<1>8. CASE n - lastGC > Window
  <2>1. /\ lastGC' = n
        /\ \A ip \in DOMAIN hits' \ {from[r]} : hits'[ip][Len(hits'[ip])] >= n - Window
    BY <1>2, <1>8 DEF Recorded
  <2>2. \A ip \in DOMAIN hits' : hits'[ip][Len(hits'[ip])] >= n - Window
    <3>1. n >= n - Window
      BY <1>3
    <3> QED
      BY <1>7, <2>1, <3>1
  <2> QED
    BY <1>1, <1>3, <1>5, <2>1, <2>2 DEF SweptAt
<1>9. CASE ~ (n - lastGC > Window)
  <2>1. lastGC' = o
    BY <1>2, <1>6, <1>9 DEF Recorded
  <2>2. s /= <<>> /\ o >= n - Window
    BY <1>3, <1>6, <1>9
  <2>3. \A ip \in DOMAIN hits : hits[ip][Len(hits[ip])] >= o - Window
    BY <1>1, <1>4, <1>6, <2>2 DEF Swept, SweptAt
  <2>4. n >= o - Window
    BY <1>3, <1>6
  <2>5. \A ip \in DOMAIN hits' : hits'[ip][Len(hits'[ip])] >= o - Window
    BY <1>7, <2>3, <2>4 DEF Recorded
  <2> QED
    BY <1>1, <1>5, <2>1, <2>2, <2>5 DEF SweptAt
<1> QED
  BY <1>8, <1>9

LEMMA SweptNext == TypeOK /\ Swept /\ [Next]_vars => Swept'
<1> SUFFICES ASSUME TypeOK, Swept, [Next]_vars PROVE Swept'
  OBVIOUS
<1>1. ASSUME NEW r \in Request, Record(r) PROVE Swept'
  <2>1. PICK x, m : Recorded(r, x, m)
    BY <1>1, RecordFacts
  <2> QED
    BY <2>1, RecordSwept DEF Swept
<1>2. CASE UNCHANGED <<hits, lastGC, served>>
  BY <1>2 DEF Swept, SweptAt
<1> QED
  BY <1>1, <1>2, OnlyRecord

\* IdleAreSwept: while attempts are in order, the map holds no address that has
\* been idle for two windows, however many addresses there are.
THEOREM MemoryBounded == Spec => []IdleAreSwept
<1>1. Init => Swept
  BY DEF Init, Swept
<1>2. ASSUME TypeOK, Swept PROVE IdleAreSwept
  <2> SUFFICES ASSUME InOrder, served /= <<>>, NEW ip \in DOMAIN hits
               PROVE  Last(hits[ip]) >= Last(served).at - 2 * Window
    BY DEF IdleAreSwept
  <2>1. PICK n \in 1 .. Len(served) : n = Len(served)
    BY <1>2, EmptySeq DEF TypeOK
  <2>2. served \in Seq(Attempt) /\ DOMAIN served = 1 .. Len(served)
    BY <1>2, SameOrder DEF TypeOK, Attempt
  <2>3. PICK a \in Int : a = served[n].at
    BY <2>2, TimesAre
  <2>4. PICK h \in Seq(Time) : h = hits[ip] /\ h /= <<>>
    BY <1>2 DEF TypeOK
  <2>5. PICK b \in Int : b = h[Len(h)]
    <3>1. Len(h) \in 1 .. Len(h)
      BY <2>4, EmptySeq
    <3> QED
      BY <3>1, TimeAt
  <2>6. PICK o \in Int : o = lastGC
    <3>1. 0 \in Int /\ \A i \in DOMAIN served : served[i].at \in Int
      BY <2>2, TimesAre
    <3> QED
      BY <1>2, <3>1 DEF TypeOK
  <2>7. o >= a - Window /\ b >= o - Window
    BY <1>2, <2>1, <2>3, <2>4, <2>5, <2>6, SameOrder DEF Swept, SweptAt
  <2> QED
    BY <2>1, <2>3, <2>4, <2>5, <2>6, <2>7, BruteForceAssumption DEF Last
<1> QED
  BY <1>1, <1>2, TypeCorrect, SweptNext, PTL DEF Spec
=============================================================================
