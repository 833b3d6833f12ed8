--------------------------- MODULE NotifierProofs ---------------------------
(***************************************************************************)
(* Proofs about Notifier for every set of alerts and of addresses, every   *)
(* capacity and every size of a batch.                                     *)
(***************************************************************************)
EXTENDS Notifier, FiniteSetTheorems, SequenceTheorems, WellFoundedInduction, TLAPS

-----------------------------------------------------------------------------
(* The counts of an incident.                                              *)

LEMMA LeastNatural ==
  ASSUME NEW T \in SUBSET Nat, T /= {}
  PROVE  \E d \in T : \A y \in T : ~ (y < d)
<1>1. PICK d \in T : \A y \in T : <<y, d>> \notin OpToRel(<, Nat)
  BY WFMin, NatLessThanWellFounded, Zenon
<1>2. \A y \in T : ~ (y < d)
  BY <1>1, Zenon DEF OpToRel
<1> QED
  BY <1>2, Zenon

\* The first i alerts that were blocked.
BlockedUpTo(s, i) == {j \in 1 .. i : s[j].verdict = "blocked"}

\* n counts them.
Counts(s, n) ==
  n = [i \in 0 .. Len(s) |->
         IF i = 0 THEN 0
         ELSE IF s[i].verdict = "blocked" THEN n[i - 1] + 1 ELSE n[i - 1]]

LEMMA BlockedStep ==
  ASSUME NEW s, NEW i \in Nat \ {0}
  PROVE  /\ Cardinality(BlockedUpTo(s, 0)) = 0
         /\ Cardinality(BlockedUpTo(s, i - 1)) \in Nat
         /\ Cardinality(BlockedUpTo(s, i)) =
              IF s[i].verdict = "blocked" THEN Cardinality(BlockedUpTo(s, i - 1)) + 1
                                          ELSE Cardinality(BlockedUpTo(s, i - 1))
<1>1. BlockedUpTo(s, 0) = {}
  BY DEF BlockedUpTo
<1>2. IsFiniteSet(BlockedUpTo(s, i - 1))
  <2>1. IsFiniteSet(1 .. i - 1) /\ BlockedUpTo(s, i - 1) \subseteq 1 .. i - 1
    BY FS_Interval DEF BlockedUpTo
  <2> QED
    BY <2>1, FS_Subset
<1>3. CASE s[i].verdict = "blocked"
  <2>1. BlockedUpTo(s, i) = BlockedUpTo(s, i - 1) \cup {i} /\ i \notin BlockedUpTo(s, i - 1)
    BY <1>3 DEF BlockedUpTo
  <2> QED
    BY <1>1, <1>2, <1>3, <2>1, FS_AddElement, FS_EmptySet, FS_CardinalityType
<1>4. CASE s[i].verdict /= "blocked"
  <2>1. BlockedUpTo(s, i) = BlockedUpTo(s, i - 1)
    BY <1>4 DEF BlockedUpTo
  <2> QED
    BY <1>1, <1>2, <1>4, <2>1, FS_EmptySet, FS_CardinalityType
<1> QED
  BY <1>3, <1>4

LEMMA BlockedCounted ==
  ASSUME NEW s \in Seq(Alert)
  PROVE  /\ Blocked(s) = Cardinality({j \in DOMAIN s : s[j].verdict = "blocked"})
         /\ Blocked(s) \in 0 .. Len(s)
<1> DEFINE C(i) == Cardinality(BlockedUpTo(s, i))
<1>1. Len(s) \in Nat /\ DOMAIN s = 1 .. Len(s)
  OBVIOUS
<1>2. \A i \in Nat : C(i) \in Nat /\ C(0) = 0
  <2> TAKE i \in Nat
  <2>1. i + 1 \in Nat \ {0} /\ i + 1 - 1 = i
    OBVIOUS
  <2> QED
    BY <2>1, BlockedStep
<1>3. \A i \in 1 .. Len(s) :
        C(i) = IF s[i].verdict = "blocked" THEN C(i - 1) + 1 ELSE C(i - 1)
  BY <1>1, BlockedStep
<1> HIDE DEF C
<1>4. \E n : Counts(s, n)
  <2>1. PICK n : n = [i \in 0 .. Len(s) |-> C(i)]
    OBVIOUS
  <2>2. \A i \in 0 .. Len(s) :
          n[i] = IF i = 0 THEN 0
                 ELSE IF s[i].verdict = "blocked" THEN n[i - 1] + 1 ELSE n[i - 1]
    BY <1>1, <1>2, <1>3, <2>1
  <2> QED
    BY <2>1, <2>2 DEF Counts
<1>5. PICK n : n = CHOOSE m : Counts(s, m)
  OBVIOUS
<1>6. Counts(s, n) /\ Blocked(s) = n[Len(s)]
  BY <1>4, <1>5 DEF Blocked, Counts
<1>7. \A i \in 0 .. Len(s) : n[i] = C(i)
  <2> DEFINE wrong == {i \in 0 .. Len(s) : n[i] /= C(i)}
  <2> SUFFICES ASSUME wrong /= {} PROVE FALSE
    OBVIOUS
  <2>1. wrong \in SUBSET Nat
    BY <1>1
  <2>2. PICK d \in wrong : \A y \in wrong : ~ (y < d)
    <3> HIDE DEF wrong
    <3> QED
      BY <2>1, LeastNatural
  <2>3. d /= 0
    BY <1>1, <1>2, <1>6 DEF Counts
  <2>4. d - 1 \in 0 .. Len(s) /\ n[d - 1] = C(d - 1)
    BY <1>1, <2>2, <2>3
  <2> QED
    BY <1>1, <1>3, <1>6, <2>3, <2>4 DEF Counts
<1>8. BlockedUpTo(s, Len(s)) = {j \in DOMAIN s : s[j].verdict = "blocked"}
  BY <1>1 DEF BlockedUpTo
<1>9. C(Len(s)) <= Len(s)
  <2>1. IsFiniteSet(1 .. Len(s)) /\ Cardinality(1 .. Len(s)) = Len(s)
    BY <1>1, FS_Interval
  <2>2. BlockedUpTo(s, Len(s)) \subseteq 1 .. Len(s)
    BY DEF BlockedUpTo
  <2> QED
    BY <2>1, <2>2, FS_Subset DEF C
<1>10. Blocked(s) = C(Len(s)) /\ C(Len(s)) \in 0 .. Len(s)
  BY <1>1, <1>2, <1>6, <1>7, <1>9
<1> QED
  BY <1>8, <1>10 DEF C

-----------------------------------------------------------------------------
(* The alerts of all incidents, one after another.                         *)

\* f lists the first k sequences of s, joined.
Joins(s, k, f) == f = [i \in 1 .. k |-> IF i = 1 THEN s[i] ELSE f[i - 1] \o s[i]]

LEMMA JoinsAt ==
  ASSUME NEW s, NEW k \in Nat, NEW f, Joins(s, k, f), NEW i \in 1 .. k
  PROVE  f[i] = IF i = 1 THEN s[i] ELSE f[i - 1] \o s[i]
BY DEF Joins

LEMMA JoinExists ==
  ASSUME NEW s, NEW k \in Nat
  PROVE  \E f : Joins(s, k, f)
<1> DEFINE wrong == {i \in Nat : \A f : ~ Joins(s, i, f)}
<1> SUFFICES ASSUME wrong /= {} PROVE FALSE
  OBVIOUS
<1>1. PICK d \in wrong : \A y \in wrong : ~ (y < d)
  <2>1. wrong \in SUBSET Nat
    OBVIOUS
  <2> HIDE DEF wrong
  <2> QED
    BY <2>1, LeastNatural
<1>2. d /= 0
  <2>1. PICK f : f = [i \in {} |-> 0]
    OBVIOUS
  <2>2. f = [i \in 1 .. 0 |-> IF i = 1 THEN s[i] ELSE f[i - 1] \o s[i]]
    BY <2>1
  <2> QED
    BY <2>2 DEF Joins
<1>3. PICK f : Joins(s, d - 1, f)
  BY <1>1, <1>2
<1>4. PICK g : g = [i \in 1 .. d |-> IF i <= d - 1 THEN f[i]
                                   ELSE IF d = 1 THEN s[d] ELSE f[d - 1] \o s[d]]
  OBVIOUS
<1>5. \A i \in 1 .. d : g[i] = IF i = 1 THEN s[i] ELSE g[i - 1] \o s[i]
  <2> TAKE i \in 1 .. d
  <2>1. CASE i <= d - 1
    <3>1. d - 1 \in Nat /\ i \in 1 .. d - 1
      BY <1>2, <2>1
    <3>2. f[i] = IF i = 1 THEN s[i] ELSE f[i - 1] \o s[i]
      BY <1>3, <3>1, JoinsAt
    <3>3. g[i] = f[i] /\ (i /= 1 => g[i - 1] = f[i - 1])
      BY <1>4, <2>1
    <3> QED
      BY <3>2, <3>3
  <2>2. CASE i = d
    BY <1>2, <1>4, <2>2
  <2> QED
    BY <2>1, <2>2
<1>6. Joins(s, d, g)
  BY <1>4, <1>5 DEF Joins
<1> QED
  BY <1>1, <1>6

Starts(s, t, k) == \A i \in 1 .. k : t[i] = s[i]

LEMMA JoinsAgree ==
  ASSUME NEW s, NEW t, NEW k \in Nat, NEW m \in Nat, k <= m, Starts(s, t, k),
         NEW f, NEW g, Joins(s, k, f), Joins(t, m, g)
  PROVE  \A i \in 1 .. k : f[i] = g[i]
<1> DEFINE wrong == {i \in 1 .. k : f[i] /= g[i]}
<1> SUFFICES ASSUME wrong /= {} PROVE FALSE
  OBVIOUS
<1>1. PICK d \in wrong : \A y \in wrong : ~ (y < d)
  <2>1. wrong \in SUBSET Nat
    OBVIOUS
  <2> HIDE DEF wrong
  <2> QED
    BY <2>1, LeastNatural
<1>2. d /= 1
  <2>1. 1 \in 1 .. k => f[1] = s[1] /\ g[1] = t[1] /\ t[1] = s[1]
    <3>1. 1 \in 1 .. k => 1 \in 1 .. m
      OBVIOUS
    <3> QED
      BY <3>1, JoinsAt DEF Starts
  <2> QED
    BY <2>1
<1>3. d - 1 \in 1 .. k /\ f[d - 1] = g[d - 1]
  BY <1>1, <1>2
<1>4. f[d] = f[d - 1] \o s[d] /\ g[d] = g[d - 1] \o s[d]
  <2>1. d \in 1 .. k /\ d \in 1 .. m
    OBVIOUS
  <2> HIDE DEF wrong
  <2>2. f[d] = IF d = 1 THEN s[d] ELSE f[d - 1] \o s[d]
    BY <2>1, JoinsAt
  <2>3. g[d] = IF d = 1 THEN t[d] ELSE g[d - 1] \o t[d]
    BY <2>1, JoinsAt
  <2>4. t[d] = s[d]
    BY <2>1 DEF Starts
  <2> QED
    BY <1>2, <2>2, <2>3, <2>4
<1> QED
  BY <1>3, <1>4

LEMMA FlattenFacts ==
  ASSUME NEW s, Len(s) \in Nat \ {0}
  PROVE  \E f : Joins(s, Len(s), f) /\ FlattenSeq(s) = f[Len(s)]
<1>1. \E f : Joins(s, Len(s), f)
  BY JoinExists
<1>2. PICK f : f = CHOOSE h : Joins(s, Len(s), h)
  OBVIOUS
<1> QED
  BY <1>1, <1>2 DEF FlattenSeq, Joins

LEMMA FlattenAppend ==
  ASSUME NEW T, NEW s \in Seq(Seq(T)), NEW x \in Seq(T)
  PROVE  /\ FlattenSeq(<<>>) = <<>>
         /\ FlattenSeq(Append(s, x)) = FlattenSeq(s) \o x
<1>1. FlattenSeq(<<>>) = <<>>
  BY EmptySeq DEF FlattenSeq
<1>2. PICK t : t = Append(s, x)
  OBVIOUS
<1>3. /\ Len(t) = Len(s) + 1 /\ Len(s) \in Nat /\ t[Len(t)] = x
      /\ \A i \in 1 .. Len(s) : t[i] = s[i]
  BY <1>2, AppendProperties, LenProperties
<1>4. PICK g : Joins(t, Len(t), g) /\ FlattenSeq(t) = g[Len(t)]
  BY <1>3, FlattenFacts
<1>5. CASE Len(s) = 0
  <2>1. FlattenSeq(t) = x
    BY <1>3, <1>4, <1>5 DEF Joins
  <2>2. s = <<>>
    BY <1>5, EmptySeq
  <2> QED
    BY <1>1, <1>2, <2>1, <2>2, ConcatEmptySeq
<1>6. CASE Len(s) /= 0
  <2>1. PICK f : Joins(s, Len(s), f) /\ FlattenSeq(s) = f[Len(s)]
    BY <1>3, <1>6, FlattenFacts
  <2>2. f[Len(s)] = g[Len(s)]
    <3>1. \A i \in 1 .. Len(s) : f[i] = g[i]
      <4>1. PICK k \in Nat, m \in Nat : k = Len(s) /\ m = Len(t) /\ k <= m
        BY <1>3
      <4>2. Joins(s, k, f) /\ Joins(t, m, g) /\ Starts(s, t, k)
        BY <1>3, <1>4, <2>1, <4>1 DEF Starts
      <4>3. \A i \in 1 .. k : f[i] = g[i]
        BY <4>1, <4>2, JoinsAgree
      <4> QED
        BY <4>1, <4>3
    <3> QED
      BY <1>3, <1>6, <3>1
  <2>3. g[Len(t)] = g[Len(t) - 1] \o t[Len(t)]
    <3>1. Len(t) \in Nat /\ Len(t) \in 1 .. Len(t) /\ Len(t) /= 1
      BY <1>3, <1>6
    <3> QED
      BY <1>4, <3>1, JoinsAt
  <2> QED
    BY <1>1, <1>2, <1>3, <1>4, <2>1, <2>2, <2>3
<1> QED
  BY <1>5, <1>6

-----------------------------------------------------------------------------
(* Types.                                                                  *)

Incident == {Summary(s) : s \in Seq(Alert) \ {<<>>}}

InFlush == {"slackURL", "discordURL", "analyze", "save", "postSlack", "postDiscord"}

\* Types, and that a flush has alerts to report.
Types ==
  /\ TypeOK
  /\ incidents \in Seq(Incident)
  /\ worker \in InFlush => pending /= <<>>

LEMMA TakeTypes ==
  ASSUME Types, ch /= <<>>, Take
  PROVE  /\ pending' \in Seq(Alert) /\ ch' \in Seq(Alert) /\ Len(ch') <= Cap
         /\ pending' /= <<>> /\ Len(pending') = Len(pending) + 1
<1>1. ch \in Seq(Alert) /\ pending \in Seq(Alert) /\ Len(ch) <= Cap /\ Cap \in Nat
  BY NotifierAssumption DEF Types, TypeOK
<1>2. /\ Head(ch) \in Alert /\ Tail(ch) \in Seq(Alert) /\ Len(Tail(ch)) = Len(ch) - 1
      /\ Len(ch) \in Nat
  BY <1>1, HeadTailProperties, LenProperties
<1>3. /\ Append(pending, Head(ch)) \in Seq(Alert) /\ Append(pending, Head(ch)) /= <<>>
      /\ Len(Append(pending, Head(ch))) = Len(pending) + 1
  BY <1>1, <1>2, AppendProperties
<1> QED
  BY <1>1, <1>2, <1>3 DEF Take

PostRecord == Kind \X URL \X Nat

LEMMA PostTypes ==
  ASSUME Types, NEW k \in Kind, Post(k)
  PROVE  posts' \in Seq(PostRecord)
<1>1. Len(incidents) \in Nat /\ posts \in Seq(PostRecord)
  BY LenProperties DEF Types, TypeOK, PostRecord
<1>2. use[k] /= NoURL => Message(k) \in PostRecord
  BY <1>1 DEF Types, TypeOK, Message, PostRecord
<1> QED
  BY <1>1, <1>2, AppendProperties DEF Post

LEMMA TypesNext == Types /\ [Next]_vars => Types'
<1> SUFFICES ASSUME Types, [Next]_vars PROVE Types'
  OBVIOUS
<1> USE DEF InFlush, AfterFlush, Goto, Unread
<1>1. CASE UNCHANGED vars
  BY <1>1 DEF vars, workerVars, Types, TypeOK
<1>2. ASSUME NEW a \in Alert, Notify(a) PROVE Types'
  <2>1. CASE Len(ch) < Cap
    <3>1. /\ ch' = Append(ch, a) /\ accepted' = Append(accepted, a) /\ dropped' = dropped
          /\ UNCHANGED <<workerVars, tick, url, incidents, posts, quit, main, flushed,
                         atClose>>
      BY <1>2, <2>1 DEF Notify
    <3>2. /\ ch' \in Seq(Alert) /\ accepted' \in Seq(Alert) /\ Len(ch') = Len(ch) + 1
      BY <3>1, AppendProperties DEF Types, TypeOK
    <3>3. Len(ch') <= Cap
      BY <2>1, <3>2, NotifierAssumption DEF Types, TypeOK
    <3> QED
      BY <3>1, <3>2, <3>3 DEF Types, TypeOK, workerVars
  <2>2. CASE ~ (Len(ch) < Cap)
    BY <1>2, <2>2 DEF Notify, Types, TypeOK, workerVars
  <2> QED
    BY <2>1, <2>2
<1>3. ASSUME NEW k \in Kind, NEW u \in URL \cup {NoURL}, SetWebhook(k, u) PROVE Types'
  BY <1>3 DEF SetWebhook, Types, TypeOK, workerVars
<1>4. CASE Tick
  BY <1>4 DEF Tick, Types, TypeOK, workerVars
<1>5. CASE Receive
  <2>1. /\ pending' \in Seq(Alert) /\ ch' \in Seq(Alert) /\ Len(ch') <= Cap
        /\ worker' \in {"drain", "select"}
    BY <1>5, TakeTypes DEF Receive
  <2> QED
    BY <1>5, <2>1 DEF Receive, Types, TypeOK
<1>6. CASE OnTick
  BY <1>6 DEF OnTick, Types, TypeOK
<1>7. CASE OnQuit
  BY <1>7 DEF OnQuit, Types, TypeOK
<1>8. CASE DrainOne
  <2>1. pending' \in Seq(Alert) /\ ch' \in Seq(Alert) /\ Len(ch') <= Cap
    BY <1>8, TakeTypes DEF DrainOne
  <2> QED
    BY <1>8, <2>1 DEF DrainOne, Types, TypeOK
<1>9. CASE DrainEnds
  BY <1>9 DEF DrainEnds, Types, TypeOK
<1>10. CASE Reads
  BY <1>10 DEF Reads, ReadSlackURL, ReadDiscordURL, ReadURL, Types, TypeOK, Kind
<1>11. CASE Analyze
  BY <1>11 DEF Analyze, Types, TypeOK
<1>12. CASE SaveIncident
  <2>1. Summary(pending) \in Incident
    BY <1>12 DEF SaveIncident, Types, TypeOK, Incident
  <2>2. incidents' \in Seq(Incident)
    BY <1>12, <2>1, AppendProperties DEF SaveIncident, Types
  <2> QED
    BY <1>12, <2>2 DEF SaveIncident, Types, TypeOK
<1>13. CASE PostSlack
  <2>1. posts' \in Seq(PostRecord)
    BY <1>13, PostTypes DEF PostSlack, Kind
  <2> QED
    BY <1>13, <2>1 DEF PostSlack, Types, TypeOK, PostRecord
<1>14. CASE PostDiscord
  <2>1. posts' \in Seq(PostRecord)
    BY <1>14, PostTypes DEF PostDiscord, Kind
  <2>2. flushed' \in Seq(Alert) /\ pending' \in Seq(Alert)
    BY <1>14, ConcatProperties, EmptySeq DEF PostDiscord, Types, TypeOK
  <2> QED
    BY <1>14, <2>1, <2>2 DEF PostDiscord, Types, TypeOK, Answers, PostRecord
<1>15. CASE CloseQuit
  <2>1. atClose' \in Nat
    BY <1>15, LenProperties DEF CloseQuit, Types, TypeOK
  <2> QED
    BY <1>15, <2>1 DEF CloseQuit, Types, TypeOK, workerVars
<1>16. CASE Exit
  BY <1>16 DEF Exit, Types, TypeOK, workerVars
<1> QED
  BY <1>1, <1>2, <1>3, <1>4, <1>5, <1>6, <1>7, <1>8, <1>9, <1>10, <1>11, <1>12,
     <1>13, <1>14, <1>15, <1>16 DEF Next, WorkerStep, Flushing

LEMMA TypesHold == Spec => []Types
<1>1. ASSUME Init PROVE Types
  <2>1. <<>> \in Seq(Alert) /\ <<>> \in Seq(Incident) /\ Len(<<>>) = 0
    BY EmptySeq
  <2>2. ch \in Seq(Alert) /\ Len(ch) = 0 /\ pending \in Seq(Alert)
    BY <1>1, <2>1 DEF Init
  <2>3. accepted \in Seq(Alert) /\ flushed \in Seq(Alert) /\ incidents \in Seq(Incident)
    BY <1>1, <2>1 DEF Init
  <2>6. posts \in Seq(Kind \X URL \X Nat)
    BY <1>1, EmptySeq DEF Init
  <2>4. Len(ch) <= Cap
    BY <2>2, NotifierAssumption
  <2>5. /\ url \in [Kind -> URL \cup {NoURL}] /\ use \in [Kind -> URL \cup {NoURL}]
        /\ atClose = 0 /\ dropped = {} /\ analysis = "" /\ main = "running"
        /\ worker = "select" /\ last = FALSE /\ tick = FALSE /\ quit = FALSE
    BY <1>1 DEF Init, Unread
  <2> QED
    BY <2>2, <2>3, <2>4, <2>5, <2>6 DEF Types, TypeOK, InFlush, Answers
<1> QED
  BY <1>1, TypesNext, PTL DEF Spec

\* TypeOK: every variable keeps its type, and the channel within its capacity.
THEOREM TypeCorrect == Spec => []TypeOK
<1>1. Types => TypeOK
  BY DEF Types
<1> QED
  BY <1>1, TypesHold, PTL

-----------------------------------------------------------------------------
(* Nothing is lost between the channel and the reports.                    *)

LEMMA TakeKeeps ==
  ASSUME Types, ch /= <<>>, Take
  PROVE  pending' \o ch' = pending \o ch
<1>1. pending \in Seq(Alert) /\ ch \in Seq(Alert)
  BY DEF Types, TypeOK
<1>2. PICK h \in Alert, t \in Seq(Alert) : h = Head(ch) /\ t = Tail(ch)
  BY <1>1, HeadTailProperties
<1>3. <<h>> \o t = ch
  BY <1>1, <1>2
<1>4. <<h>> \in Seq(Alert)
  OBVIOUS
<1>5. pending' = pending \o <<h>> /\ ch' = t
  BY <1>1, <1>2, AppendIsConcat DEF Take
<1>6. (pending \o <<h>>) \o t = pending \o (<<h>> \o t)
  BY <1>1, <1>4, ConcatAssociative
<1> QED
  BY <1>3, <1>5, <1>6

\* NothingLost: the parentheses are those of the definition.
Kept == accepted = (flushed \o pending) \o ch

LEMMA KeptByTake ==
  ASSUME Types, Kept, ch /= <<>>, Take, UNCHANGED <<accepted, flushed>>
  PROVE  Kept'
<1>1. /\ pending \in Seq(Alert) /\ ch \in Seq(Alert) /\ flushed \in Seq(Alert)
      /\ pending' \in Seq(Alert) /\ ch' \in Seq(Alert)
  BY TakeTypes DEF Types, TypeOK
<1>2. (flushed \o pending) \o ch = flushed \o (pending \o ch)
  BY <1>1, ConcatAssociative
<1>3. PICK p \in Seq(Alert), c \in Seq(Alert) : p = pending' /\ c = ch'
  BY <1>1
<1>4. (flushed \o p) \o c = flushed \o (p \o c)
  BY <1>1, <1>3, ConcatAssociative
<1>5. p \o c = pending \o ch
  BY <1>3, TakeKeeps
<1> QED
  BY <1>2, <1>3, <1>4, <1>5 DEF Kept

LEMMA KeptNext == Types /\ Kept /\ [Next]_vars => Kept'
<1> SUFFICES ASSUME Types, Kept, [Next]_vars PROVE Kept'
  OBVIOUS
<1>1. /\ pending \in Seq(Alert) /\ ch \in Seq(Alert) /\ flushed \in Seq(Alert)
  BY DEF Types, TypeOK
<1>2. ASSUME NEW a \in Alert, Notify(a) PROVE Kept'
  <2>1. CASE Len(ch) < Cap
    <3>1. /\ ch' = Append(ch, a) /\ accepted' = Append(accepted, a)
          /\ UNCHANGED <<pending, flushed>>
      BY <1>2, <2>1 DEF Notify, workerVars
    <3>2. PICK r \in Seq(Alert) : r = flushed \o pending
      BY <1>1, ConcatProperties
    <3>3. ch' = ch \o <<a>> /\ <<a>> \in Seq(Alert)
      BY <1>1, <3>1, AppendIsConcat
    <3>4. r \o ch \in Seq(Alert)
      BY <1>1, ConcatProperties
    <3>5. accepted' = (r \o ch) \o <<a>>
      BY <3>1, <3>2, <3>4, AppendIsConcat DEF Kept
    <3>6. (r \o ch) \o <<a>> = r \o (ch \o <<a>>)
      BY <1>1, <3>3, ConcatAssociative
    <3> QED
      BY <3>1, <3>2, <3>3, <3>5, <3>6 DEF Kept
  <2>2. CASE ~ (Len(ch) < Cap)
    BY <1>2, <2>2 DEF Notify, Kept, workerVars
  <2> QED
    BY <2>1, <2>2
<1>3. CASE Receive \/ DrainOne
  BY <1>3, KeptByTake DEF Receive, DrainOne
<1>4. CASE PostDiscord
  <2>1. PICK r \in Seq(Alert) : r = flushed \o pending
    BY <1>1, ConcatProperties
  <2>2. r \o <<>> = r
    BY ConcatEmptySeq
  <2> QED
    BY <1>4, <2>1, <2>2 DEF PostDiscord, Kept
<1>5. ASSUME UNCHANGED <<accepted, flushed, pending, ch>> PROVE Kept'
  BY <1>5 DEF Kept
<1>6. ASSUME NEW k \in Kind, NEW u \in URL \cup {NoURL}, SetWebhook(k, u) PROVE Kept'
  BY <1>5, <1>6 DEF SetWebhook, workerVars
<1>7. CASE Tick \/ OnTick \/ OnQuit \/ DrainEnds \/ Reads
  BY <1>5, <1>7 DEF Tick, OnTick, OnQuit, DrainEnds, Reads, ReadSlackURL,
     ReadDiscordURL, ReadURL, workerVars
<1>8. CASE Analyze \/ SaveIncident \/ PostSlack
  BY <1>5, <1>8 DEF Analyze, SaveIncident, PostSlack
<1>9. CASE CloseQuit \/ Exit \/ UNCHANGED vars
  BY <1>5, <1>9 DEF CloseQuit, Exit, vars, workerVars
<1> QED
  BY <1>2, <1>3, <1>4, <1>6, <1>7, <1>8, <1>9 DEF Next, WorkerStep, Flushing

\* NothingLost: what the channel took is, in order, what was reported, what
\* is pending and what is queued, at any capacity and batch size.
THEOREM AllReported == Spec => []NothingLost
<1>1. Init => Kept
  <2>1. <<>> \o <<>> = <<>>
    BY EmptySeq, ConcatEmptySeq
  <2> QED
    BY <2>1 DEF Init, Kept
<1>2. Kept => NothingLost
  BY DEF Kept, NothingLost
<1> QED
  BY <1>1, <1>2, KeptNext, TypesHold, PTL DEF Spec

-----------------------------------------------------------------------------
(* Batches.                                                                *)

LEMMA BatchNext == Types /\ BatchBound /\ [Next]_vars => BatchBound'
<1> SUFFICES ASSUME Types, BatchBound, [Next]_vars PROVE BatchBound'
  OBVIOUS
<1> USE DEF Goto, AfterFlush
<1>1. Batch \in Nat \ {0} /\ Len(<<>>) = 0
  BY NotifierAssumption, EmptySeq
<1>2. ASSUME UNCHANGED <<worker, pending>> PROVE BatchBound'
  BY <1>2 DEF BatchBound
<1>3. ASSUME NEW a \in Alert, Notify(a) PROVE BatchBound'
  BY <1>2, <1>3 DEF Notify, workerVars
<1>4. ASSUME NEW k \in Kind, NEW u \in URL \cup {NoURL}, SetWebhook(k, u) PROVE BatchBound'
  BY <1>2, <1>4 DEF SetWebhook, workerVars
<1>5. CASE Tick \/ CloseQuit \/ Exit \/ UNCHANGED vars
  BY <1>2, <1>5 DEF Tick, CloseQuit, Exit, vars, workerVars
<1>6. CASE Receive
  <2>1. Len(pending') \in Nat
    BY <1>6, TakeTypes, LenProperties DEF Receive
  <2> QED
    BY <1>1, <1>6, <2>1 DEF Receive, BatchBound
<1>7. CASE DrainEnds
  BY <1>1, <1>7 DEF DrainEnds, BatchBound
<1>8. CASE PostDiscord
  <2>1. Len(pending') = 0
    BY <1>1, <1>8 DEF PostDiscord
  <2> QED
    BY <1>1, <2>1 DEF BatchBound
<1>9. CASE OnTick \/ OnQuit \/ DrainOne \/ Reads \/ Analyze \/ SaveIncident \/ PostSlack
  BY <1>9 DEF OnTick, OnQuit, DrainOne, Reads, ReadSlackURL, ReadDiscordURL, ReadURL,
     Analyze, SaveIncident, PostSlack, BatchBound
<1> QED
  BY <1>3, <1>4, <1>5, <1>6, <1>7, <1>8, <1>9 DEF Next, WorkerStep, Flushing

\* BatchBound: between flushes the worker never sits on a full batch.
THEOREM BatchesBounded == Spec => []BatchBound
<1>1. ASSUME Init PROVE BatchBound
  <2>1. Len(pending) = 0
    BY <1>1, EmptySeq DEF Init
  <2> QED
    BY <2>1, NotifierAssumption DEF BatchBound
<1> QED
  BY <1>1, BatchNext, TypesHold, PTL DEF Spec

-----------------------------------------------------------------------------
(* Webhook messages.                                                       *)

\* PostsFollowIncidents, and which messages about the current incident can be
\* out already.
Posted ==
  /\ PostsFollowIncidents
  /\ worker \in {"postSlack", "postDiscord"} => incidents /= <<>>
  /\ worker = "postSlack" => \A i \in DOMAIN posts : posts[i][3] /= Len(incidents)
  /\ worker = "postDiscord" =>
       \A i \in DOMAIN posts : posts[i][3] = Len(incidents) => posts[i][1] /= "discord"

LEMMA PostOnce ==
  ASSUME Types, PostsFollowIncidents, incidents /= <<>>, incidents' = incidents,
         NEW k \in Kind, Post(k),
         \A i \in DOMAIN posts : posts[i][3] = Len(incidents) => posts[i][1] /= k
  PROVE  /\ PostsFollowIncidents'
         /\ \A i \in DOMAIN posts' :
              (i \in DOMAIN posts /\ posts'[i] = posts[i]) \/ posts'[i][1] = k
<1>1. PICK n \in Nat : n = Len(incidents) /\ DOMAIN incidents = 1 .. n /\ n >= 1
  BY EmptySeq, LenProperties DEF Types
<1>2. posts \in Seq(PostRecord)
  BY DEF Types, TypeOK, PostRecord
<1>3. CASE use[k] = NoURL
  BY <1>3 DEF Post, PostsFollowIncidents
<1>4. CASE use[k] /= NoURL
  <2>1. PICK m \in PostRecord : m = Message(k) /\ m[1] = k /\ m[3] = n
    <3>1. PICK u \in URL : u = use[k]
      BY <1>4 DEF Types, TypeOK
    <3>2. PICK m : m = <<k, u, n>>
      OBVIOUS
    <3>3. m \in PostRecord /\ m[1] = k /\ m[3] = n
      BY <1>1, <3>2 DEF PostRecord
    <3> QED
      BY <1>1, <3>1, <3>2, <3>3 DEF Message
  <2>2. PICK p \in Seq(PostRecord), l \in Nat : p = posts /\ l = Len(posts)
    BY <1>2, LenProperties
  <2>3. /\ DOMAIN posts = 1 .. l
        /\ DOMAIN posts' = 1 .. l + 1 /\ posts'[l + 1] = m
        /\ \A i \in 1 .. l : posts'[i] = posts[i]
    <3>1. posts' = Append(p, m)
      BY <1>4, <2>1, <2>2 DEF Post
    <3> QED
      BY <2>1, <2>2, <3>1, AppendProperties, LenProperties
  <2>4. \A i \in 1 .. l :
          posts[i][3] \in 1 .. n /\ (posts[i][3] = n => posts[i][1] /= k)
    BY <1>1, <2>3 DEF PostsFollowIncidents
  <2>5. \A i, j \in 1 .. l + 1 :
          /\ posts'[i][3] \in 1 .. n
          /\ i < j => \/ posts'[i][3] < posts'[j][3]
                      \/ (posts'[i][3] = posts'[j][3] /\ posts'[i][1] /= posts'[j][1])
    <3> TAKE i, j \in 1 .. l + 1
    <3>1. posts'[i][3] \in 1 .. n
      <4>1. CASE i \in 1 .. l
        <5>1. posts'[i] = posts[i]
          BY <2>3, <4>1
        <5>2. posts[i][3] \in 1 .. n
          BY <2>4, <4>1
        <5> QED
          BY <5>1, <5>2
      <4>2. CASE i = l + 1
        BY <1>1, <2>1, <2>3, <4>2
      <4> QED
        BY <4>1, <4>2
    <3>2. ASSUME i < j, j = l + 1
          PROVE  \/ posts'[i][3] < posts'[j][3]
                 \/ (posts'[i][3] = posts'[j][3] /\ posts'[i][1] /= posts'[j][1])
      <4>1. i \in 1 .. l /\ posts'[i] = posts[i] /\ posts'[j][1] = k /\ posts'[j][3] = n
        BY <2>1, <2>3, <3>2
      <4>2. posts[i][3] \in 1 .. n /\ (posts[i][3] = n => posts[i][1] /= k)
        BY <2>4, <4>1
      <4>3. posts[i][3] < n \/ (posts[i][3] = n /\ posts[i][1] /= k)
        BY <1>1, <4>2
      <4> QED
        BY <4>1, <4>3
    <3>3. ASSUME i < j, j /= l + 1
          PROVE  \/ posts'[i][3] < posts'[j][3]
                 \/ (posts'[i][3] = posts'[j][3] /\ posts'[i][1] /= posts'[j][1])
      <4>1. i \in 1 .. l /\ j \in 1 .. l
        BY <3>3
      <4>2. posts'[i] = posts[i] /\ posts'[j] = posts[j]
        BY <2>3, <4>1
      <4> QED
        BY <2>3, <3>3, <4>1, <4>2 DEF PostsFollowIncidents
    <3> QED
      BY <3>1, <3>2, <3>3
  <2>6. PostsFollowIncidents'
    BY <1>1, <2>3, <2>5 DEF PostsFollowIncidents
  <2> QED
    BY <2>1, <2>3, <2>6
<1> QED
  BY <1>3, <1>4

LEMMA PostedNext == Types /\ Posted /\ [Next]_vars => Posted'
<1> SUFFICES ASSUME Types, Posted, [Next]_vars PROVE Posted'
  OBVIOUS
<1> USE DEF Goto, AfterFlush
<1>1. ASSUME UNCHANGED <<worker, posts, incidents>> PROVE Posted'
  BY <1>1 DEF Posted, PostsFollowIncidents
<1>2. ASSUME UNCHANGED <<posts, incidents>>, worker' \notin {"postSlack", "postDiscord"}
      PROVE  Posted'
  BY <1>2 DEF Posted, PostsFollowIncidents
<1>3. ASSUME NEW a \in Alert, Notify(a) PROVE Posted'
  BY <1>1, <1>3 DEF Notify, workerVars
<1>4. ASSUME NEW k \in Kind, NEW u \in URL \cup {NoURL}, SetWebhook(k, u) PROVE Posted'
  BY <1>1, <1>4 DEF SetWebhook, workerVars
<1>5. CASE Tick \/ CloseQuit \/ Exit \/ UNCHANGED vars
  BY <1>1, <1>5 DEF Tick, CloseQuit, Exit, vars, workerVars
<1>6. CASE Receive \/ OnTick \/ OnQuit \/ DrainOne \/ DrainEnds
  BY <1>2, <1>6 DEF Receive, OnTick, OnQuit, DrainOne, DrainEnds
<1>7. CASE Reads \/ Analyze
  BY <1>2, <1>7 DEF Reads, ReadSlackURL, ReadDiscordURL, ReadURL, Analyze
<1>8. CASE SaveIncident
  <2>1. PICK inc : inc = Summary(pending) /\ inc \in Incident
    BY <1>8 DEF SaveIncident, Types, TypeOK, Incident, InFlush
  <2>2. incidents' = Append(incidents, inc) /\ posts' = posts /\ worker' = "postSlack"
    BY <1>8, <2>1 DEF SaveIncident
  <2>3. /\ incidents' \in Seq(Incident) /\ incidents' /= <<>>
        /\ Len(incidents') = Len(incidents) + 1
    BY <2>1, <2>2, AppendProperties DEF Types
  <2>4. /\ DOMAIN incidents = 1 .. Len(incidents) /\ Len(incidents) \in Nat
        /\ DOMAIN incidents' = 1 .. Len(incidents')
    BY <2>3, LenProperties DEF Types
  <2>5. \A i \in DOMAIN posts : posts[i][3] \in 1 .. Len(incidents)
    BY <2>4 DEF Posted, PostsFollowIncidents
  <2>6. PostsFollowIncidents'
    BY <2>2, <2>3, <2>4, <2>5 DEF Posted, PostsFollowIncidents
  <2> QED
    BY <2>2, <2>3, <2>4, <2>5, <2>6 DEF Posted
<1>9. CASE PostSlack
  <2>1. /\ Post("slack") /\ incidents' = incidents /\ incidents /= <<>>
        /\ \A i \in DOMAIN posts : posts[i][3] /= Len(incidents)
        /\ worker' = "postDiscord"
    BY <1>9 DEF PostSlack, Posted
  <2>2. /\ PostsFollowIncidents'
        /\ \A i \in DOMAIN posts' :
             (i \in DOMAIN posts /\ posts'[i] = posts[i]) \/ posts'[i][1] = "slack"
    BY <2>1, PostOnce DEF Posted, Kind
  <2> QED
    BY <2>1, <2>2 DEF Posted
<1>10. CASE PostDiscord
  <2>1. /\ Post("discord") /\ incidents' = incidents /\ incidents /= <<>>
        /\ \A i \in DOMAIN posts : posts[i][3] = Len(incidents) => posts[i][1] /= "discord"
        /\ worker' \notin {"postSlack", "postDiscord"}
    BY <1>10 DEF PostDiscord, Posted
  <2>2. PostsFollowIncidents'
    BY <2>1, PostOnce DEF Posted, Kind
  <2> QED
    BY <2>1, <2>2 DEF Posted
<1> QED
  BY <1>3, <1>4, <1>5, <1>6, <1>7, <1>8, <1>9, <1>10 DEF Next, WorkerStep, Flushing

\* PostsFollowIncidents: a message is about an incident handed to the history
\* before it, goes to each destination at most once, and in the incidents' order.
THEOREM PostsOnce == Spec => []PostsFollowIncidents
<1>1. Init => Posted
  <2>1. DOMAIN <<>> = {}
    BY EmptySeq, LenProperties
  <2> QED
    BY <2>1 DEF Init, Posted, PostsFollowIncidents
<1>2. Posted => PostsFollowIncidents
  BY DEF Posted
<1> QED
  BY <1>1, <1>2, PostedNext, TypesHold, PTL DEF Spec

-----------------------------------------------------------------------------
(* Incidents.                                                              *)

Joined == FlattenSeq([i \in DOMAIN incidents |-> incidents[i].alerts])

Covered ==
  Joined = IF worker \in {"postSlack", "postDiscord"} THEN flushed \o pending ELSE flushed

\* What each incident says of its own alerts.
Honest(inc) ==
  /\ inc.count = inc.blocked + inc.detected /\ inc.count > 0
  /\ inc.blocked = Cardinality({j \in DOMAIN inc.alerts :
                                  inc.alerts[j].verdict = "blocked"})
  /\ inc.severity = "SURVEILLANCE" <=> inc.blocked = 0
  /\ inc.severity = "ELEVEE" => \E a \in ToSet(inc.alerts) : a.category \in High

LEMMA SummaryHonest ==
  ASSUME NEW s \in Seq(Alert) \ {<<>>}
  PROVE  Honest(Summary(s)) /\ Summary(s).alerts = s
<1>1. Len(s) \in Nat \ {0}
  BY EmptySeq
<1>2. PICK b \in 0 .. Len(s) :
        /\ b = Blocked(s)
        /\ b = Cardinality({j \in DOMAIN s : s[j].verdict = "blocked"})
  BY BlockedCounted
<1>3. PICK v : v = severityFor(s, b)
  OBVIOUS
<1>4. /\ v = "SURVEILLANCE" <=> b = 0
      /\ v = "ELEVEE" => \E a \in ToSet(s) : a.category \in High
  BY <1>1, <1>2, <1>3 DEF severityFor
<1>5. Summary(s) = [alerts |-> s, count |-> Len(s), blocked |-> b,
                    detected |-> Len(s) - b, severity |-> v]
  BY <1>2, <1>3 DEF Summary
<1>6. Len(s) = b + (Len(s) - b) /\ Len(s) > 0
  BY <1>1, <1>2
<1> QED
  BY <1>2, <1>4, <1>5, <1>6 DEF Honest

LEMMA CoveredNext == Types /\ Covered /\ [Next]_vars => Covered'
<1> SUFFICES ASSUME Types, Covered, [Next]_vars PROVE Covered'
  OBVIOUS
<1> USE DEF Goto, AfterFlush
<1>1. ASSUME UNCHANGED <<worker, pending, flushed, incidents>> PROVE Covered'
  BY <1>1 DEF Covered, Joined
<1>2. ASSUME UNCHANGED <<flushed, incidents>>,
             worker \notin {"postSlack", "postDiscord"},
             worker' \notin {"postSlack", "postDiscord"}
      PROVE  Covered'
  BY <1>2 DEF Covered, Joined
<1>3. ASSUME NEW a \in Alert, Notify(a) PROVE Covered'
  BY <1>1, <1>3 DEF Notify, workerVars
<1>4. ASSUME NEW k \in Kind, NEW u \in URL \cup {NoURL}, SetWebhook(k, u) PROVE Covered'
  BY <1>1, <1>4 DEF SetWebhook, workerVars
<1>5. CASE Tick \/ CloseQuit \/ Exit \/ UNCHANGED vars
  BY <1>1, <1>5 DEF Tick, CloseQuit, Exit, vars, workerVars
<1>6. CASE Receive \/ OnTick \/ OnQuit \/ DrainOne \/ DrainEnds
  BY <1>2, <1>6 DEF Receive, OnTick, OnQuit, DrainOne, DrainEnds
<1>7. CASE Reads \/ Analyze
  BY <1>2, <1>7 DEF Reads, ReadSlackURL, ReadDiscordURL, ReadURL, Analyze
<1>8. CASE SaveIncident
  <2>1. pending \in Seq(Alert) \ {<<>>}
    BY <1>8 DEF SaveIncident, Types, TypeOK, InFlush
  <2>2. PICK inc : inc = Summary(pending) /\ inc \in Incident /\ inc.alerts = pending
    BY <2>1, SummaryHonest DEF Incident
  <2>3. /\ incidents' = Append(incidents, inc) /\ worker' = "postSlack"
        /\ worker = "save" /\ UNCHANGED <<pending, flushed>>
    BY <1>8, <2>2 DEF SaveIncident
  <2>4. /\ DOMAIN incidents = 1 .. Len(incidents) /\ Len(incidents) \in Nat
        /\ DOMAIN incidents' = 1 .. Len(incidents) + 1
        /\ \A i \in 1 .. Len(incidents) : incidents'[i] = incidents[i]
        /\ incidents'[Len(incidents) + 1] = inc
    BY <2>2, <2>3, AppendProperties, LenProperties DEF Types
  <2>5. \A i \in DOMAIN incidents : incidents[i].alerts \in Seq(Alert)
    <3>1. \A i \in DOMAIN incidents : incidents[i] \in Incident
      BY <2>4, ElementOfSeq DEF Types
    <3>2. \A j \in Incident : j.alerts \in Seq(Alert)
      BY SummaryHonest DEF Incident
    <3> QED
      BY <3>1, <3>2
  <2>6. PICK s \in Seq(Seq(Alert)) :
          s = [i \in DOMAIN incidents |-> incidents[i].alerts] /\ Len(s) = Len(incidents)
    <3>1. PICK n \in Nat : n = Len(incidents)
      BY <2>4
    <3>2. PICK s : s = [i \in 1 .. n |-> incidents[i].alerts]
      OBVIOUS
    <3>3. s \in [1 .. n -> Seq(Alert)]
      BY <2>4, <2>5, <3>1, <3>2
    <3>4. s \in Seq(Seq(Alert))
      BY <3>3, SeqDef
    <3>5. Len(s) = n
      BY <3>3, <3>4, LenProperties
    <3> QED
      BY <2>4, <3>1, <3>2, <3>4, <3>5
  <2>7. PICK t : t = Append(s, pending)
    OBVIOUS
  <2>8. t = [i \in DOMAIN incidents' |-> incidents'[i].alerts]
    <3>1. /\ t \in Seq(Seq(Alert)) /\ Len(t) = Len(incidents) + 1
          /\ \A i \in 1 .. Len(incidents) : t[i] = incidents[i].alerts
          /\ t[Len(incidents) + 1] = pending
      BY <2>1, <2>4, <2>6, <2>7, AppendProperties
    <3>2. \A i \in 1 .. Len(incidents) + 1 : t[i] = incidents'[i].alerts
      BY <2>2, <2>4, <3>1
    <3>3. t = [i \in 1 .. Len(incidents) + 1 |-> t[i]]
      BY <3>1, LenProperties
    <3> QED
      BY <2>4, <3>2, <3>3
  <2>9. FlattenSeq(t) = FlattenSeq(s) \o pending
    BY <2>1, <2>7, FlattenAppend
  <2> QED
    BY <2>3, <2>6, <2>8, <2>9 DEF Covered, Joined
<1>9. CASE PostSlack
  BY <1>9 DEF PostSlack, Covered, Joined
<1>10. CASE PostDiscord
  BY <1>10 DEF PostDiscord, Covered, Joined
<1> QED
  BY <1>3, <1>4, <1>5, <1>6, <1>7, <1>8, <1>9, <1>10 DEF Next, WorkerStep, Flushing

\* IncidentsCoverReports: the incidents' alerts, one incident after another,
\* are those reported, and each incident counts and grades its own.
THEOREM IncidentsComplete == Spec => []IncidentsCoverReports
<1>1. ASSUME Init PROVE Covered
  <2>1. [i \in DOMAIN incidents |-> incidents[i].alerts] = <<>>
    <3>1. DOMAIN incidents = 1 .. 0
      <4>1. <<>> \in Seq({}) /\ Len(<<>>) = 0
        BY EmptySeq
      <4>2. DOMAIN <<>> = 1 .. Len(<<>>)
        BY <4>1, LenProperties
      <4> QED
        BY <1>1, <4>1, <4>2 DEF Init
    <3>2. PICK f : f = [i \in 1 .. 0 |-> incidents[i].alerts]
      OBVIOUS
    <3>3. f \in [1 .. 0 -> {}] /\ DOMAIN f = 1 .. 0
      BY <3>2
    <3>4. f \in Seq({})
      BY <3>3, SeqDef
    <3>5. Len(f) = 0
      BY <3>3, <3>4, LenProperties
    <3>6. f = <<>>
      BY <3>4, <3>5, EmptySeq
    <3> QED
      BY <3>1, <3>2, <3>6
  <2>2. FlattenSeq(<<>>) = <<>>
    BY EmptySeq DEF FlattenSeq
  <2> QED
    BY <1>1, <2>1, <2>2 DEF Init, Covered, Joined
<1>2. ASSUME Types, Covered PROVE IncidentsCoverReports
  <2>1. \A i \in DOMAIN incidents : incidents[i] \in Incident
    <3>1. DOMAIN incidents = 1 .. Len(incidents) /\ incidents \in Seq(Incident)
      BY <1>2, LenProperties DEF Types
    <3> QED
      BY <3>1, ElementOfSeq
  <2>2. \A i \in DOMAIN incidents : Honest(incidents[i])
    BY <2>1, SummaryHonest DEF Incident
  <2> QED
    BY <1>2, <2>2 DEF Covered, Joined, Honest, IncidentsCoverReports
<1> QED
  BY <1>1, <1>2, CoveredNext, TypesHold, PTL DEF Spec

-----------------------------------------------------------------------------
(* The end of the worker.                                                  *)

\* What the last flush covers, from the moment it has emptied the channel.
DrainInv ==
  /\ atClose <= Len(accepted)
  /\ main = "running" => ~quit
  /\ last => quit
  /\ worker = "done" => last /\ pending = <<>>
  /\ last /\ worker \in InFlush \cup {"done"} => Len(flushed) + Len(pending) >= atClose

LEMMA DrainNext == Types /\ Kept /\ DrainInv /\ [Next]_vars => DrainInv'
<1> SUFFICES ASSUME Types, Kept, DrainInv, [Next]_vars PROVE DrainInv'
  OBVIOUS
<1> USE DEF Goto, AfterFlush, InFlush
<1>1. /\ accepted \in Seq(Alert) /\ flushed \in Seq(Alert) /\ pending \in Seq(Alert)
      /\ ch \in Seq(Alert) /\ atClose \in Nat /\ Len(<<>>) = 0
      /\ Len(accepted) \in Nat /\ Len(flushed) \in Nat /\ Len(pending) \in Nat
  BY EmptySeq, LenProperties DEF Types, TypeOK
<1>2. ASSUME UNCHANGED <<worker, last, pending, flushed, accepted, atClose, main, quit>>
      PROVE  DrainInv'
  BY <1>2 DEF DrainInv
<1>3. ASSUME NEW a \in Alert, Notify(a) PROVE DrainInv'
  <2>1. Len(accepted') >= Len(accepted)
    BY <1>1, <1>3, AppendProperties DEF Notify
  <2>2. Len(accepted') \in Nat
    BY <1>1, <1>3, AppendProperties DEF Notify
  <2> QED
    BY <1>1, <1>3, <2>1, <2>2 DEF Notify, DrainInv, workerVars
<1>4. ASSUME NEW k \in Kind, NEW u \in URL \cup {NoURL}, SetWebhook(k, u) PROVE DrainInv'
  BY <1>2, <1>4 DEF SetWebhook, workerVars
<1>5. CASE Tick \/ UNCHANGED vars
  BY <1>2, <1>5 DEF Tick, vars, workerVars
<1>6. CASE Receive \/ DrainOne \/ OnTick \/ OnQuit
  BY <1>6 DEF Receive, DrainOne, OnTick, OnQuit, DrainInv
<1>7. CASE DrainEnds
  <2>1. Len(accepted) = Len(flushed) + Len(pending)
    <3>1. PICK r \in Seq(Alert) : r = flushed \o pending /\ Len(r) = Len(flushed) + Len(pending)
      BY <1>1, ConcatProperties
    <3> QED
      BY <1>7, <3>1, ConcatEmptySeq DEF DrainEnds, Kept
  <2> QED
    BY <1>1, <1>7, <2>1 DEF DrainEnds, DrainInv
<1>8. CASE Reads \/ Analyze \/ SaveIncident \/ PostSlack
  BY <1>8 DEF Reads, ReadSlackURL, ReadDiscordURL, ReadURL, Analyze, SaveIncident,
     PostSlack, DrainInv
<1>9. CASE PostDiscord
  <2>1. Len(flushed') = Len(flushed) + Len(pending) /\ Len(pending') = 0
    BY <1>1, <1>9, ConcatProperties DEF PostDiscord
  <2>2. /\ last' = last /\ atClose' = atClose /\ quit' = quit /\ main' = main
        /\ accepted' = accepted /\ worker = "postDiscord" /\ pending' = <<>>
        /\ worker' = IF last THEN "done" ELSE "select"
    BY <1>9 DEF PostDiscord
  <2>3. last => Len(flushed') + Len(pending') >= atClose
    BY <1>1, <2>1, <2>2 DEF DrainInv
  <2> QED
    BY <2>2, <2>3 DEF DrainInv
<1>10. CASE CloseQuit
  BY <1>1, <1>10 DEF CloseQuit, DrainInv, workerVars
<1>11. CASE Exit
  BY <1>11 DEF Exit, DrainInv, workerVars
<1> QED
  BY <1>3, <1>4, <1>5, <1>6, <1>7, <1>8, <1>9, <1>10, <1>11 DEF Next, WorkerStep, Flushing

\* DrainReportsEarlierAlerts: a worker that has returned has reported every alert
\* accepted before Close was called, whatever it was doing when quit was closed.
THEOREM DrainIsComplete == Spec => []DrainReportsEarlierAlerts
<1>1. Init => Kept /\ DrainInv
  <2>1. <<>> \o <<>> = <<>> /\ Len(<<>>) = 0
    BY EmptySeq, ConcatEmptySeq
  <2>2. Init => Kept
    BY <2>1 DEF Init, Kept
  <2>3. ASSUME Init PROVE atClose <= Len(accepted)
    <3>1. atClose = 0 /\ Len(accepted) = 0
      BY <2>1, <2>3 DEF Init
    <3> QED
      BY <3>1
  <2>4. Init => ~quit /\ ~last /\ worker = "select"
    BY DEF Init
  <2> QED
    BY <2>2, <2>3, <2>4 DEF DrainInv, InFlush
<1>2. ASSUME Types, Kept, DrainInv PROVE DrainReportsEarlierAlerts
  <2> SUFFICES ASSUME worker = "done", NEW i \in 1 .. atClose
               PROVE  Contains(flushed, accepted[i])
    BY DEF DrainReportsEarlierAlerts
  <2>1. /\ accepted \in Seq(Alert) /\ flushed \in Seq(Alert) /\ ch \in Seq(Alert)
        /\ atClose \in Nat /\ Len(<<>>) = 0 /\ Len(flushed) \in Nat
    BY <1>2, EmptySeq, LenProperties DEF Types, TypeOK
  <2>2. pending = <<>> /\ Len(flushed) >= atClose
    BY <1>2, <2>1 DEF DrainInv
  <2>3. accepted = flushed \o ch
    BY <1>2, <2>1, <2>2, ConcatEmptySeq DEF Kept
  <2>4. i \in 1 .. Len(flushed) /\ accepted[i] = flushed[i]
    BY <2>1, <2>2, <2>3, ConcatProperties
  <2> QED
    BY <2>4 DEF Contains
<1> QED
  BY <1>1, <1>2, DrainNext, KeptNext, TypesHold, PTL DEF Spec
=============================================================================
