--------------------------- MODULE GatewayProofs ----------------------------
(***************************************************************************)
(* Proofs about Gateway for every number of requests, of applications, of  *)
(* categories and of findings, and every change of the configuration.      *)
(*                                                                         *)
(* The invariants speak of one request at a time.  A step of a request     *)
(* touches no other's part of the state, and a change of the configuration *)
(* only extends the histories of the requests being judged, so each proof  *)
(* has three cases: the request's own step, another's, and a change.       *)
(***************************************************************************)
EXTENDS Gateway, FiniteSetTheorems, SequenceTheorems, TLAPS

Step == {"new", "mode", "threshold", "match", "ban", "filter", "log", "notify",
         "count", "respond", "done"}

-----------------------------------------------------------------------------
(* Type correctness.                                                       *)

\* A request has a verdict exactly from the end of its inspection.
VerdictOK == \A r \in Request : verdict[r] = "none" <=> pc[r] = "new" \/ r \in Judging

\* decide gives one of the three verdicts.
LEMMA DecideGivesVerdict ==
  \A s, m, t : decide(s, m, t) \in Verdict
BY DEF decide, Verdict

\* Initially every variable of the gateway has its type.
LEMMA InitTypeOK == Init => TypeOK
<1> SUFFICES ASSUME Init PROVE TypeOK
  OBVIOUS
<1>1. SharedOK
  BY DEF Init, SharedOK
<1>2. RequestOK
  BY GatewayAssumption DEF Init, RequestOK
<1>3. HistoryOK
  BY DEF Init, HistoryOK
<1>4. VerdictOK
  BY DEF Init, VerdictOK, Judging
<1> QED
  BY <1>1, <1>2, <1>3, <1>4 DEF TypeOK, VerdictOK

\* A step keeps the configuration and the counters in their types.
LEMMA NextSharedOK ==
  ASSUME SharedOK, RequestOK, VerdictOK, [Next]_vars PROVE SharedOK'
<1> USE DEF SharedOK
<1>1. CASE Configure
  BY <1>1 DEF Configure, SetMode, SetThreshold, SetCategories, Block, Unblock,
     Reload, statsVars
<1>2. ASSUME NEW r \in Request, Arrive(r) PROVE SharedOK'
  BY <1>2 DEF Arrive, settingsVars
<1>3. ASSUME NEW r \in Request, Count(r) PROVE SharedOK'
  <2>1. verdict[r] \in Verdict
    BY <1>3 DEF Count, Goto, RequestOK, VerdictOK, Judging
  <2>2. count[verdict[r]] + 1 \in Nat
    BY <2>1
  <2> QED
    BY <1>3, <2>1, <2>2 DEF Count, settingsVars
<1>4. CASE UNCHANGED <<settingsVars, statsVars>>
  BY <1>4 DEF settingsVars, statsVars
<1> QED
  BY <1>1, <1>2, <1>3, <1>4 DEF Next, ServeStep, vars, ReadMode, ReadThreshold,
     Match, CheckBan, FilterOne, Decide, Log, Notify, Respond

\* A step keeps the state of every request in its type.
LEMMA NextRequestOK ==
  ASSUME SharedOK, RequestOK, VerdictOK, [Next]_vars PROVE RequestOK'
<1> USE DEF RequestOK
<1>1. CASE Configure
  BY <1>1 DEF Configure, localVars, outVars
<1>2. ASSUME NEW r \in Request, Arrive(r) PROVE RequestOK'
  BY <1>2 DEF Arrive, Goto, localVars, outVars
<1>3. ASSUME NEW r \in Request, ReadMode(r) PROVE RequestOK'
  BY <1>3 DEF ReadMode, Goto, outVars, SharedOK
<1>4. ASSUME NEW r \in Request, ReadThreshold(r) PROVE RequestOK'
  BY <1>4, GatewayAssumption DEF ReadThreshold, Goto, outVars, SharedOK
<1>5. ASSUME NEW r \in Request, Match(r) PROVE RequestOK'
  <2> DEFINE app == byDomain[in[r].host]
  <2>1. app \in App \cup {NoApp}
    BY GatewayAssumption DEF SharedOK
  <2>2. target' \in [Request -> App \cup {NoApp}]
    BY <1>5, <2>1 DEF Match
  <2>3. /\ rmode' \in [Request -> Mode \cup {"none"} \cup {a.mode : a \in App}]
        /\ rthreshold' \in [Request -> Nat]
    <3>1. CASE app /= NoApp
      <4>1. app.mode \in {a.mode : a \in App} /\ app.threshold \in Nat
        BY <2>1, <3>1, GatewayAssumption
      <4> HIDE DEF app
      <4> QED
        BY <1>5, <3>1, <4>1 DEF Match, app
    <3>2. CASE app = NoApp
      BY <1>5, <3>2 DEF Match
    <3> QED
      BY <3>1, <3>2
  <2> QED
    BY <1>5, <2>2, <2>3 DEF Match, Goto, outVars
<1>6. ASSUME NEW r \in Request, CheckBan(r) PROVE RequestOK'
  BY <1>6 DEF CheckBan, Goto, outVars, Verdict
<1>7. ASSUME NEW r \in Request, FilterOne(r) PROVE RequestOK'
  BY <1>7 DEF FilterOne, outVars
<1>8. ASSUME NEW r \in Request, Decide(r) PROVE RequestOK'
  <2>1. decide(Score(Findings(r), kept[r]), rmode[r], rthreshold[r]) \in Verdict
    BY DecideGivesVerdict
  <2> QED
    BY <1>8, <2>1 DEF Decide, Goto, outVars
<1>9. ASSUME NEW r \in Request, Log(r) \/ Notify(r) \/ Count(r) \/ Respond(r)
      PROVE  RequestOK'
  <2>1. verdict[r] \in Verdict
    BY <1>9 DEF Log, Notify, Count, Respond, Goto, VerdictOK, Judging
  <2>2. pc' \in [Request -> Step]
    BY <1>9 DEF Log, Notify, Count, Respond, Goto, Step
  <2>3. /\ logged' \in [Request -> Seq(Verdict)]
        /\ notified' \in [Request -> Seq(Verdict)]
    <3>1. /\ Append(logged[r], verdict[r]) \in Seq(Verdict)
          /\ Append(notified[r], verdict[r]) \in Seq(Verdict)
      BY <2>1, AppendProperties
    <3> QED
      BY <1>9, <3>1 DEF Log, Notify, Count, Respond, outVars
  <2>4. answer' \in [Request -> {NoAnswer, BlockPage}
                                  \cup {Upstream(a) : a \in App \cup {NoApp}}]
    <3>1. target[r] \in App \cup {NoApp}
      OBVIOUS
    <3> QED
      BY <1>9, <3>1 DEF Log, Notify, Count, Respond, outVars
  <2> QED
    BY <1>9, <2>2, <2>3, <2>4 DEF Log, Notify, Count, Respond, localVars, Step
<1>10. CASE UNCHANGED vars
  BY <1>10 DEF vars, localVars, outVars
<1> QED
  BY <1>1, <1>2, <1>3, <1>4, <1>5, <1>6, <1>7, <1>8, <1>9, <1>10 DEF Next, ServeStep

\* A step keeps the histories in their types: they hold values that the
\* configuration may have.
LEMMA NextHistoryOK ==
  ASSUME SharedOK, SharedOK', RequestOK, HistoryOK, [Next]_vars PROVE HistoryOK'
<1>1. CASE Configure
  <2>1. Observe /\ in' = in
    BY <1>1 DEF Configure, localVars
  <2>2. seenModes' \in [Request -> SUBSET Mode]
    BY <2>1 DEF Observe, HistoryOK, SharedOK
  <2>3. seenThresholds' \in [Request -> SUBSET Threshold]
    BY <2>1 DEF Observe, HistoryOK, SharedOK
  <2>4. seenTargets' \in [Request -> SUBSET (App \cup {NoApp})]
    <3>1. \A r \in Request : byDomain'[in[r].host] \in App \cup {NoApp}
      BY GatewayAssumption DEF SharedOK, RequestOK
    <3> QED
      BY <2>1, <3>1 DEF Observe, HistoryOK
  <2>5. seenBan' \in [Request -> SUBSET BOOLEAN]
    <3> DEFINE ban(r) == in[r].ip \in blocklist'
               value(r) == IF r \in Judging THEN seenBan[r] \cup {ban(r)} ELSE seenBan[r]
    <3>1. seenBan' = [r \in Request |-> value(r)]
      BY <2>1 DEF Observe
    <3>2. \A r \in Request : ban(r) \in BOOLEAN
      OBVIOUS
    <3>3. \A r \in Request : value(r) \in SUBSET BOOLEAN
      <4> HIDE DEF ban
      <4> QED
        BY <3>2 DEF HistoryOK
    <3> HIDE DEF value
    <3> QED
      BY <3>1, <3>3
  <2>6. everOn' \in [Request -> SUBSET Category]
    BY <2>1 DEF Observe, HistoryOK, SharedOK
  <2>7. everOff' \in [Request -> SUBSET Category]
    BY <2>1 DEF Observe, HistoryOK, SharedOK
  <2> QED
    BY <2>2, <2>3, <2>4, <2>5, <2>6, <2>7 DEF HistoryOK
<1>2. ASSUME NEW r \in Request, Arrive(r) PROVE HistoryOK'
  <2>1. byDomain[in[r].host] \in App \cup {NoApp}
    BY GatewayAssumption DEF SharedOK, RequestOK
  <2>2. (in[r].ip \in blocklist) \in BOOLEAN
    OBVIOUS
  <2> QED
    BY <1>2, <2>1, <2>2 DEF Arrive, HistoryOK, SharedOK
<1>3. CASE UNCHANGED seenVars
  BY <1>3 DEF seenVars, HistoryOK
<1> QED
  BY <1>1, <1>2, <1>3 DEF Next, ServeStep, vars, ReadMode, ReadThreshold,
     Match, CheckBan, FilterOne, Decide, Log, Notify, Count, Respond

\* A step gives a request its verdict when it ends its inspection, and then.
LEMMA NextVerdictOK ==
  ASSUME RequestOK, VerdictOK, [Next]_vars PROVE VerdictOK'
<1> USE DEF VerdictOK, Judging, Goto
<1>1. ASSUME NEW r \in Request, Arrive(r) \/ ServeStep(r) PROVE VerdictOK'
  <2>1. CASE Decide(r)
    <3>1. decide(Score(Findings(r), kept[r]), rmode[r], rthreshold[r]) \in Verdict
      BY DecideGivesVerdict
    <3> QED
      BY <2>1, <3>1 DEF Decide, RequestOK, Verdict
  <2>2. CASE CheckBan(r)
    BY <2>2 DEF CheckBan, RequestOK
  <2> QED
    BY <1>1, <2>1, <2>2 DEF ServeStep, Arrive, ReadMode, ReadThreshold, Match,
       FilterOne, Log, Notify, Count, Respond, localVars, RequestOK
<1>2. CASE UNCHANGED <<pc, verdict>>
  BY <1>2
<1> QED
  BY <1>1, <1>2 DEF Next, vars, Configure, localVars

\* Every step of a request and every change of the configuration keeps every
\* variable in its type.
LEMMA NextTypeOK == TypeOK /\ [Next]_vars => TypeOK'
BY NextSharedOK, NextRequestOK, NextHistoryOK, NextVerdictOK DEF TypeOK, VerdictOK

\* Every behaviour of the gateway is well typed: in particular each request has
\* a verdict exactly from the end of its inspection, and an answer from the
\* block page or from an upstream it was matched with.
THEOREM TypeCorrect == Spec => []TypeOK
BY InitTypeOK, NextTypeOK, PTL DEF Spec

-----------------------------------------------------------------------------
(* What the steps leave alone.                                             *)

\* The values a request and its history have.
Local(r) == <<pc[r], in[r], rmode[r], rthreshold[r], target[r], next[r], kept[r],
              verdict[r], logged[r], notified[r], answer[r]>>
Seen(r) == <<seenModes[r], seenThresholds[r], seenTargets[r], seenBan[r],
             everOn[r], everOff[r]>>

\* A step of a request changes neither the configuration nor another request.
LEMMA OthersUntouched ==
  ASSUME TypeOK, NEW r \in Request, Arrive(r) \/ ServeStep(r)
  PROVE  /\ UNCHANGED settingsVars
         /\ \A q \in Request \ {r} : UNCHANGED <<Local(q), Seen(q)>>
<1> USE DEF TypeOK, RequestOK, Goto
<1>1. UNCHANGED settingsVars
  BY DEF ServeStep, Arrive, ReadMode, ReadThreshold, Match, CheckBan, FilterOne,
     Decide, Log, Notify, Count, Respond
<1>2. ASSUME NEW q \in Request \ {r} PROVE UNCHANGED <<Local(q), Seen(q)>>
  <2> USE <1>2 DEF Local, Seen, localVars, outVars, seenVars
  <2>1. CASE Arrive(r)
    BY <2>1 DEF Arrive
  <2>2. CASE ReadMode(r) \/ ReadThreshold(r)
    BY <2>2 DEF ReadMode, ReadThreshold
  <2>3. CASE Match(r)
    BY <2>3 DEF Match
  <2>4. CASE CheckBan(r) \/ Decide(r)
    BY <2>4 DEF CheckBan, Decide
  <2>5. CASE FilterOne(r)
    BY <2>5 DEF FilterOne
  <2>6. CASE Log(r) \/ Notify(r) \/ Count(r) \/ Respond(r)
    BY <2>6 DEF Log, Notify, Count, Respond
  <2> QED
    BY <2>1, <2>2, <2>3, <2>4, <2>5, <2>6 DEF ServeStep
<1> QED
  BY <1>1, <1>2

-----------------------------------------------------------------------------
(* A verdict is explained by values in force: JudgedInForce.               *)

\* While a request is judged its history holds what is in force now.
Current(r) ==
  r \in Judging =>
    /\ mode \in seenModes[r] /\ threshold \in seenThresholds[r]
    /\ byDomain[in[r].host] \in seenTargets[r]
    /\ (in[r].ip \in blocklist) \in seenBan[r]
    /\ enabled \subseteq everOn[r] /\ Category \ enabled \subseteq everOff[r]

\* The policy a request has read so far was in force while it was judged, and
\* from the match on it is the policy of the application that will serve it.
PolicyRead(r) ==
  /\ pc[r] \in {"threshold", "match"} => rmode[r] \in seenModes[r]
  /\ pc[r] = "match" => rthreshold[r] \in seenThresholds[r]
  /\ pc[r] \notin {"new", "mode", "threshold", "match"} =>
       /\ target[r] \in seenTargets[r]
       /\ <<rmode[r], rthreshold[r]>> \in PoliciesOf(r, target[r])

\* The findings filtered so far were kept or not as some moment of the judging
\* says; the filter only runs for an address that was not banned.
FilterSoFar(r) ==
  /\ pc[r] \in {"new", "mode", "threshold", "match", "ban"} => next[r] = 1
  /\ pc[r] = "filter" => FALSE \in seenBan[r]
  /\ next[r] <= Len(Findings(r)) + 1
  /\ kept[r] \subseteq 1 .. next[r] - 1
  /\ \A i \in 1 .. next[r] - 1 :
       /\ Findings(r)[i].cat \notin everOff[r] => i \in kept[r]
       /\ i \in kept[r] => Findings(r)[i].cat \in everOn[r]

\* What explains the verdict of a request.
Cause(r) ==
  \/ TRUE \in seenBan[r] /\ verdict[r] = "blocked"
  \/ /\ FALSE \in seenBan[r]
     /\ \E p \in PoliciesOf(r, target[r]), S \in Filtered(r) :
          verdict[r] = decide(Score(Findings(r), S), p[1], p[2])

Explained(r) ==
  /\ verdict[r] /= "none" => Cause(r)
  /\ answer[r] \in {NoAnswer, BlockPage, Upstream(target[r])}
  /\ answer[r].kind /= "none" => pc[r] = "done"

InForce(r) == Current(r) /\ PolicyRead(r) /\ FilterSoFar(r) /\ Explained(r)

InForceInv == TypeOK /\ \A r \in Request : InForce(r)

\* The findings of a request are a sequence of categories and severities.
LEMMA FindingsOK ==
  ASSUME RequestOK, NEW r \in Request
  PROVE  /\ Findings(r) \in Seq([cat : Category, sev : Nat])
         /\ Len(Findings(r)) \in Nat
         /\ \A i \in 1 .. Len(Findings(r)) : Findings(r)[i].cat \in Category
<1>1. Findings(r) \in Seq([cat : Category, sev : Nat])
  BY GatewayAssumption DEF RequestOK, Findings
<1> HIDE DEF Findings
<1>2. \A i \in 1 .. Len(Findings(r)) : Findings(r)[i] \in [cat : Category, sev : Nat]
  BY <1>1, ElementOfSeq
<1> QED
  BY <1>1, <1>2

\* A request that is not served to its end has no answer.
LEMMA Unanswered ==
  ASSUME NEW r \in Request, Explained(r), pc[r] /= "done" PROVE answer[r] = NoAnswer
<1>1. BlockPage.kind = "block page" /\ Upstream(target[r]).kind = "upstream"
  BY DEF BlockPage, Upstream
<1>2. answer[r].kind = "none" /\ answer[r] \in {NoAnswer, BlockPage, Upstream(target[r])}
  BY DEF Explained
<1> QED
  BY <1>1, <1>2

\* Before it arrives a request has read and found nothing.
LEMMA InitInForce == Init => InForceInv
<1> SUFFICES ASSUME Init, NEW r \in Request PROVE InForce(r)
  BY InitTypeOK DEF InForceInv
<1> USE DEF Init
<1>1. pc[r] = "new" /\ verdict[r] = "none" /\ answer[r] = NoAnswer
  OBVIOUS
<1>2. Current(r) /\ PolicyRead(r) /\ Explained(r)
  BY <1>1 DEF Current, PolicyRead, Explained, Judging, NoAnswer
<1>3. RequestOK /\ next[r] = 1 /\ kept[r] = {}
  BY InitTypeOK DEF TypeOK
<1>4. Len(Findings(r)) \in Nat
  BY <1>3, FindingsOK
<1>5. FilterSoFar(r)
  BY <1>1, <1>3, <1>4 DEF FilterSoFar
<1> QED
  BY <1>2, <1>5 DEF InForce

\* A policy and a filtering that explain a verdict still do when the history is
\* extended.
LEMMA MoreHistory ==
  ASSUME TypeOK, NEW r \in Request, UNCHANGED Local(r),
         seenModes[r] \subseteq seenModes'[r],
         seenThresholds[r] \subseteq seenThresholds'[r],
         seenTargets[r] \subseteq seenTargets'[r],
         seenBan[r] \subseteq seenBan'[r],
         everOn[r] \subseteq everOn'[r], everOff[r] \subseteq everOff'[r]
  PROVE  PolicyRead(r) /\ FilterSoFar(r) /\ Explained(r)
           => PolicyRead(r)' /\ FilterSoFar(r)' /\ Explained(r)'
<1> USE DEF Local
<1>1. PolicyRead(r) => PolicyRead(r)'
  BY DEF PolicyRead, PoliciesOf
<1>2. Findings(r)' = Findings(r)
  BY DEF Findings
<1>3. FilterSoFar(r) => FilterSoFar(r)'
  BY <1>2 DEF FilterSoFar
<1>4. PoliciesOf(r, target[r]) \subseteq PoliciesOf(r, target[r])'
  BY DEF PoliciesOf
<1>5. Filtered(r) \subseteq Filtered(r)'
  BY <1>2 DEF Filtered
<1>6. Cause(r) => Cause(r)'
  BY <1>2, <1>4, <1>5 DEF Cause
<1>7. Explained(r) => Explained(r)'
  BY <1>6 DEF Explained
<1> QED
  BY <1>1, <1>3, <1>7

\* A change of the configuration extends the history of those being judged.
LEMMA ConfigureInForce ==
  ASSUME TypeOK, NEW r \in Request, InForce(r), Configure PROVE InForce(r)'
<1>1. Observe /\ UNCHANGED Local(r) /\ Judging' = Judging
  BY DEF Configure, Local, localVars, outVars, Judging
<1>2. Current(r)'
  BY <1>1 DEF Observe, Current, Local
<1>3. /\ seenModes[r] \subseteq seenModes'[r]
      /\ seenThresholds[r] \subseteq seenThresholds'[r]
      /\ seenTargets[r] \subseteq seenTargets'[r]
      /\ seenBan[r] \subseteq seenBan'[r]
      /\ everOn[r] \subseteq everOn'[r] /\ everOff[r] \subseteq everOff'[r]
  BY <1>1 DEF Observe
<1> QED
  BY <1>1, <1>2, <1>3, MoreHistory DEF InForce

\* A step that leaves the configuration, a request and its history alone keeps
\* what is known of the request.
LEMMA UntouchedInForce ==
  ASSUME TypeOK, NEW r \in Request, InForce(r),
         UNCHANGED <<settingsVars, Local(r), Seen(r)>>
  PROVE  InForce(r)'
<1>1. Current(r)'
  BY DEF Current, InForce, settingsVars, Local, Seen, Judging
<1> QED
  BY <1>1, MoreHistory DEF InForce, Seen

\* The arrival begins the history with what is in force.
LEMMA ArriveInForce ==
  ASSUME TypeOK, NEW r \in Request, InForce(r), Arrive(r) PROVE InForce(r)'
<1> USE DEF Arrive, Goto, TypeOK
<1>1. /\ pc[r] = "new" /\ pc'[r] = "mode" /\ verdict[r] = "none"
      /\ UNCHANGED <<settingsVars, localVars, outVars>>
  BY DEF RequestOK, Judging
<1>2. Current(r)'
  BY <1>1 DEF Current, settingsVars, localVars, HistoryOK
<1>3. PolicyRead(r)'
  BY <1>1 DEF PolicyRead
<1>4. next[r] = 1 /\ kept[r] \subseteq 1 .. 0 /\ Len(Findings(r)) \in Nat
  BY <1>1, FindingsOK DEF InForce, FilterSoFar
<1>5. Findings(r)' = Findings(r)
  BY <1>1 DEF Findings, localVars
<1>6. FilterSoFar(r)'
  <2>1. next'[r] = 1 /\ kept'[r] \subseteq 1 .. 0
    BY <1>1, <1>4 DEF localVars
  <2>2. \A i \in 1 .. next'[r] - 1 : FALSE
    BY <2>1
  <2>3. kept'[r] \subseteq 1 .. next'[r] - 1
    BY <2>1
  <2>4. next'[r] <= Len(Findings(r)') + 1
    BY <2>1, <1>4, <1>5
  <2> HIDE DEF Arrive
  <2> QED
    BY <1>1, <2>1, <2>2, <2>3, <2>4 DEF FilterSoFar
<1>7. Explained(r)'
  BY <1>1 DEF InForce, Explained, localVars, outVars
<1> QED
  BY <1>2, <1>3, <1>6, <1>7 DEF InForce

\* The reads of the mode, of the threshold and of the application.
LEMMA ReadInForce ==
  ASSUME TypeOK, NEW r \in Request, InForce(r),
         ReadMode(r) \/ ReadThreshold(r) \/ Match(r)
  PROVE  InForce(r)'
<1> USE DEF TypeOK, Goto
<1>1. /\ r \in Judging /\ r \in Judging' /\ pc'[r] \in {"threshold", "match", "ban"}
      /\ pc[r] \in {"mode", "threshold", "match"} /\ verdict[r] = "none"
      /\ UNCHANGED <<settingsVars, in, next, kept, verdict, answer, seenVars>>
  BY DEF ReadMode, ReadThreshold, Match, RequestOK, Judging, outVars
<1>2. Current(r)'
  BY <1>1 DEF InForce, Current, settingsVars, seenVars
<1>3. PolicyRead(r)'
  <2>1. CASE ReadMode(r)
    BY <1>1, <2>1 DEF ReadMode, InForce, PolicyRead, Current, RequestOK, seenVars
  <2>2. CASE ReadThreshold(r)
    BY <1>1, <2>2 DEF ReadThreshold, InForce, PolicyRead, Current, RequestOK, seenVars
  <2>3. CASE Match(r)
    <3> DEFINE app == byDomain[in[r].host]
    <3>1. /\ pc[r] = "match" /\ pc'[r] = "ban" /\ target'[r] = app
          /\ app \in seenTargets'[r]
      BY <1>1, <2>3 DEF Match, RequestOK, InForce, Current, seenVars
    <3>2. <<rmode'[r], rthreshold'[r]>>
            \in IF app = NoApp THEN seenModes'[r] \X seenThresholds'[r]
                               ELSE {<<app.mode, app.threshold>>}
      BY <1>1, <2>3, <3>1 DEF Match, RequestOK, InForce, PolicyRead, seenVars
    <3> QED
      BY <3>1, <3>2 DEF PolicyRead, PoliciesOf
  <2> QED
    BY <2>1, <2>2, <2>3
<1>4. Findings(r)' = Findings(r)
  BY <1>1 DEF Findings
<1>5. FilterSoFar(r)'
  BY <1>1, <1>4 DEF InForce, FilterSoFar, seenVars
<1>6. answer[r] = NoAnswer
  BY <1>1, Unanswered DEF InForce
<1>7. Explained(r)'
  BY <1>1, <1>6 DEF Explained, NoAnswer
<1> QED
  BY <1>2, <1>3, <1>5, <1>7 DEF InForce

\* The look at the blocklist ends the judging of a banned address.
LEMMA CheckBanInForce ==
  ASSUME TypeOK, NEW r \in Request, InForce(r), CheckBan(r) PROVE InForce(r)'
<1> USE DEF TypeOK, Goto
<1>1. /\ r \in Judging /\ pc[r] = "ban" /\ pc'[r] \in {"log", "filter"}
      /\ UNCHANGED <<settingsVars, in, rmode, rthreshold, target, next, kept, answer,
                     seenVars>>
      /\ (in[r].ip \in blocklist) \in seenBan[r]
  BY DEF CheckBan, RequestOK, Judging, outVars, InForce, Current
<1>2. Current(r)'
  BY <1>1 DEF InForce, Current, settingsVars, seenVars, Judging
<1>3. PolicyRead(r)'
  BY <1>1 DEF InForce, PolicyRead, PoliciesOf, seenVars
<1>4. Findings(r)' = Findings(r)
  BY <1>1 DEF Findings
<1>5. pc'[r] = "filter" => FALSE \in seenBan[r]
  <2>1. CASE in[r].ip \in blocklist
    BY <1>1, <2>1 DEF CheckBan, RequestOK
  <2>2. CASE ~ (in[r].ip \in blocklist)
    <3>1. (in[r].ip \in blocklist) = FALSE
      BY <2>2
    <3> QED
      BY <1>1, <3>1
  <2> QED
    BY <2>1, <2>2
<1>6. FilterSoFar(r)'
  BY <1>1, <1>4, <1>5 DEF InForce, FilterSoFar, seenVars
<1>7. answer[r] = NoAnswer
  BY <1>1, Unanswered DEF InForce
<1>8. verdict'[r] /= "none" => verdict'[r] = "blocked" /\ TRUE \in seenBan[r]
  <2>1. CASE in[r].ip \in blocklist
    <3>1. (in[r].ip \in blocklist) = TRUE
      BY <2>1
    <3> QED
      BY <1>1, <2>1, <3>1 DEF CheckBan, RequestOK
  <2>2. CASE ~ (in[r].ip \in blocklist)
    BY <1>1, <2>2 DEF CheckBan, Judging
  <2> QED
    BY <2>1, <2>2
<1>9. verdict'[r] /= "none" => Cause(r)'
  BY <1>1, <1>8 DEF Cause, seenVars
<1>10. Explained(r)'
  BY <1>1, <1>7, <1>9 DEF Explained, NoAnswer
<1> QED
  BY <1>2, <1>3, <1>6, <1>10 DEF InForce

\* One turn of the filter: the finding is kept or not as the setting of its
\* category is now.
LEMMA FilterOneInForce ==
  ASSUME TypeOK, NEW r \in Request, InForce(r), FilterOne(r) PROVE InForce(r)'
<1> USE DEF TypeOK
<1> DEFINE n == next[r]
           cat == Findings(r)[n].cat
<1>1. /\ r \in Judging /\ pc[r] = "filter" /\ verdict[r] = "none"
      /\ UNCHANGED <<settingsVars, pc, in, rmode, rthreshold, target, verdict, answer,
                     seenVars>>
  BY DEF FilterOne, Judging, outVars
<1>2. Current(r)' /\ PolicyRead(r)'
  BY <1>1 DEF InForce, Current, PolicyRead, PoliciesOf, settingsVars, seenVars, Judging
<1>3. Explained(r)'
  BY <1>1 DEF InForce, Explained
<1>4. Findings(r)' = Findings(r)
  BY <1>1 DEF Findings
<1>5. /\ n \in Nat \ {0} /\ n <= Len(Findings(r)) /\ Len(Findings(r)) \in Nat
      /\ next'[r] = n + 1 /\ cat \in Category
      /\ kept'[r] = IF cat \in enabled THEN kept[r] \cup {n} ELSE kept[r]
  BY FindingsOK DEF FilterOne, RequestOK
<1>6. /\ cat \notin everOff[r] => cat \in enabled
      /\ cat \in enabled => cat \in everOn[r]
  BY <1>1, <1>5 DEF InForce, Current
<1>7. /\ kept[r] \subseteq 1 .. n - 1 /\ FALSE \in seenBan[r]
      /\ \A i \in 1 .. n - 1 :
           /\ Findings(r)[i].cat \notin everOff[r] => i \in kept[r]
           /\ i \in kept[r] => Findings(r)[i].cat \in everOn[r]
  BY <1>1 DEF InForce, FilterSoFar
<1> HIDE DEF n, cat
<1>8. kept'[r] \subseteq 1 .. n
  BY <1>5, <1>7
<1>9. ASSUME NEW i \in 1 .. n
      PROVE  /\ Findings(r)[i].cat \notin everOff[r] => i \in kept'[r]
             /\ i \in kept'[r] => Findings(r)[i].cat \in everOn[r]
  <2>1. CASE i = n
    <3>1. n \notin kept[r]
      BY <1>5, <1>7
    <3> QED
      BY <2>1, <3>1, <1>5, <1>6 DEF cat
  <2>2. CASE i \in 1 .. n - 1
    BY <2>2, <1>5, <1>7
  <2> QED
    BY <2>1, <2>2, <1>5
<1>10. FilterSoFar(r)'
  <2>1. next'[r] - 1 = n /\ next'[r] <= Len(Findings(r)) + 1
    BY <1>5
  <2> QED
    BY <1>1, <1>4, <1>7, <1>8, <1>9, <2>1 DEF FilterSoFar, seenVars
<1> QED
  BY <1>2, <1>3, <1>10 DEF InForce

\* When every finding has been looked at, those kept are one of the filterings
\* that the history allows.
LEMMA DecideInForce ==
  ASSUME TypeOK, NEW r \in Request, InForce(r), Decide(r) PROVE InForce(r)'
<1> USE DEF TypeOK, Goto
<1>1. /\ pc[r] = "filter" /\ pc'[r] = "log" /\ next[r] > Len(Findings(r))
      /\ UNCHANGED <<settingsVars, in, rmode, rthreshold, target, next, kept, answer,
                     seenVars>>
      /\ verdict'[r] = decide(Score(Findings(r), kept[r]), rmode[r], rthreshold[r])
  BY DEF Decide, RequestOK, outVars
<1>2. Current(r)'
  BY <1>1 DEF Current, Judging
<1>3. PolicyRead(r)'
  BY <1>1 DEF InForce, PolicyRead, PoliciesOf, seenVars
<1>4. Findings(r)' = Findings(r)
  BY <1>1 DEF Findings
<1>5. FilterSoFar(r)'
  BY <1>1, <1>4 DEF InForce, FilterSoFar, seenVars
<1>6. kept[r] \in Filtered(r)
  <2>1. next[r] - 1 = Len(Findings(r))
    BY <1>1, FindingsOK DEF InForce, FilterSoFar, RequestOK
  <2> QED
    BY <2>1 DEF InForce, FilterSoFar, Filtered
<1>7. <<rmode[r], rthreshold[r]>> \in PoliciesOf(r, target[r]) /\ FALSE \in seenBan[r]
  BY <1>1 DEF InForce, PolicyRead, FilterSoFar
<1>8. PoliciesOf(r, target[r])' = PoliciesOf(r, target[r]) /\ Filtered(r)' = Filtered(r)
  BY <1>1, <1>4 DEF PoliciesOf, Filtered, seenVars
<1>9. Cause(r)'
  <2> DEFINE p == <<rmode[r], rthreshold[r]>>
  <2>1. verdict'[r] = decide(Score(Findings(r), kept[r]), p[1], p[2])
    BY <1>1
  <2> HIDE DEF p
  <2>2. \E q \in PoliciesOf(r, target[r])', S \in Filtered(r)' :
          verdict'[r] = decide(Score(Findings(r)', S), q[1], q[2])
    BY <1>4, <1>6, <1>7, <1>8, <2>1 DEF p
  <2> QED
    BY <1>1, <1>7, <2>2 DEF Cause, seenVars
<1>10. Explained(r)'
  BY <1>1, <1>9, Unanswered DEF InForce, Explained, NoAnswer
<1> QED
  BY <1>2, <1>3, <1>5, <1>10 DEF InForce

\* What follows the verdict changes neither it nor what explains it.
LEMMA AfterVerdictInForce ==
  ASSUME TypeOK, NEW r \in Request, InForce(r),
         Log(r) \/ Notify(r) \/ Count(r) \/ Respond(r)
  PROVE  InForce(r)'
<1> USE DEF TypeOK, Goto
<1>1. /\ pc[r] \in {"log", "notify", "count", "respond"}
      /\ pc'[r] \in {"notify", "count", "respond", "done"}
      /\ UNCHANGED <<settingsVars, localVars, seenVars>>
  BY DEF Log, Notify, Count, Respond, RequestOK
<1>2. Current(r)' /\ PolicyRead(r)'
  BY <1>1 DEF Current, Judging, InForce, PolicyRead, PoliciesOf, localVars, seenVars
<1>3. Findings(r)' = Findings(r)
  BY <1>1 DEF Findings, localVars
<1>4. FilterSoFar(r)'
  BY <1>1, <1>3 DEF InForce, FilterSoFar, localVars, seenVars
<1>5. /\ PoliciesOf(r, target[r])' = PoliciesOf(r, target[r])
      /\ Filtered(r)' = Filtered(r)
  BY <1>1, <1>3 DEF PoliciesOf, Filtered, localVars, seenVars
<1>6. Cause(r) => Cause(r)'
  BY <1>1, <1>3, <1>5 DEF Cause, localVars, seenVars
<1>7. /\ answer'[r] \in {NoAnswer, BlockPage, Upstream(target[r])}
      /\ answer'[r].kind /= "none" => pc'[r] = "done"
  <2>1. CASE Respond(r)
    BY <2>1 DEF Respond, RequestOK
  <2>2. CASE answer' = answer
    BY <1>1, <2>2, Unanswered DEF InForce, NoAnswer
  <2> QED
    BY <2>1, <2>2 DEF Log, Notify, Count, outVars
<1>8. Explained(r)'
  BY <1>1, <1>6, <1>7 DEF InForce, Explained, localVars
<1> QED
  BY <1>2, <1>4, <1>8 DEF InForce

\* Every step keeps every verdict explained.
LEMMA NextInForce == InForceInv /\ [Next]_vars => InForceInv'
<1> SUFFICES ASSUME InForceInv, [Next]_vars, NEW q \in Request PROVE InForce(q)'
  BY NextTypeOK DEF InForceInv
<1>1. TypeOK /\ InForce(q)
  BY DEF InForceInv
<1>2. CASE Configure
  BY <1>1, <1>2, ConfigureInForce
<1>3. ASSUME NEW r \in Request, Arrive(r) \/ ServeStep(r) PROVE InForce(q)'
  <2>1. CASE q = r
    BY <1>1, <1>3, <2>1, ArriveInForce, ReadInForce, CheckBanInForce, FilterOneInForce,
       DecideInForce, AfterVerdictInForce DEF ServeStep
  <2>2. CASE q /= r
    BY <1>1, <1>3, <2>2, OthersUntouched, UntouchedInForce
  <2> QED
    BY <2>1, <2>2
<1>4. CASE UNCHANGED vars
  <2>1. UNCHANGED <<settingsVars, Local(q), Seen(q)>>
    BY <1>4 DEF vars, Local, Seen, localVars, outVars, seenVars
  <2> QED
    BY <1>1, <2>1, UntouchedInForce
<1> QED
  BY <1>2, <1>3, <1>4 DEF Next

\* Whatever an administrator changes while requests are judged, each verdict is
\* explained by values that were in force meanwhile, and the request goes to
\* the application under whose policy it was judged.
THEOREM VerdictsInForce == Spec => []JudgedInForce
<1>1. Spec => []InForceInv
  BY InitInForce, NextInForce, PTL DEF Spec
<1>2. InForceInv => JudgedInForce
  <2> SUFFICES ASSUME InForceInv, NEW r \in Request, verdict[r] /= "none"
               PROVE  \E a \in seenTargets[r] :
                        /\ answer[r] \in {NoAnswer, BlockPage, Upstream(a)}
                        /\ \/ TRUE \in seenBan[r] /\ verdict[r] = "blocked"
                           \/ /\ FALSE \in seenBan[r]
                              /\ \E p \in PoliciesOf(r, a), S \in Filtered(r) :
                                   verdict[r] = decide(Score(Findings(r), S), p[1], p[2])
    BY DEF JudgedInForce
  <2>1. target[r] \in seenTargets[r]
    BY DEF InForceInv, InForce, PolicyRead, TypeOK, Judging
  <2>2. /\ answer[r] \in {NoAnswer, BlockPage, Upstream(target[r])}
        /\ Cause(r)
    BY DEF InForceInv, InForce, Explained
  <2> QED
    BY <2>1, <2>2 DEF Cause
<1> QED
  BY <1>1, <1>2, PTL

-----------------------------------------------------------------------------
(* One story is told of a request: OneStory, BannedNeverForwarded.         *)

\* The calls of Notify a verdict asks for.
Alerts(v) == IF v = "allowed" THEN <<>> ELSE <<v>>

\* What the log, the notifier and the client have been told so far.
Story(r) ==
  /\ logged[r] = IF pc[r] \in {"notify", "count", "respond", "done"}
                   THEN <<verdict[r]>> ELSE <<>>
  /\ notified[r] = IF pc[r] \in {"count", "respond", "done"}
                     THEN Alerts(verdict[r]) ELSE <<>>
  /\ answer[r].kind = IF pc[r] /= "done" THEN "none"
                      ELSE IF verdict[r] = "blocked" THEN "block page" ELSE "upstream"

StoryInv == TypeOK /\ \A r \in Request : Story(r)

LEMMA InitStory == Init => StoryInv
<1> SUFFICES ASSUME Init PROVE \A r \in Request : Story(r)
  BY InitTypeOK DEF StoryInv
<1> QED
  BY DEF Init, Story, NoAnswer

\* The calls of the log and of the notifier, and the answer, each add what
\* belongs to the verdict.
LEMMA OwnStory ==
  ASSUME TypeOK, NEW r \in Request, Story(r), Arrive(r) \/ ServeStep(r)
  PROVE  Story(r)'
<1> USE DEF TypeOK, RequestOK, Goto
<1>1. CASE Log(r)
  <2>1. /\ pc[r] = "log" /\ pc'[r] = "notify"
        /\ UNCHANGED <<verdict, notified, answer>>
        /\ logged'[r] = Append(logged[r], verdict[r])
    BY <1>1 DEF Log, localVars
  <2>2. logged'[r] = <<verdict[r]>>
    BY <2>1 DEF Story
  <2> QED
    BY <2>1, <2>2 DEF Story
<1>2. CASE Notify(r)
  <2>1. /\ pc[r] = "notify" /\ pc'[r] = "count"
        /\ UNCHANGED <<verdict, logged, answer>>
        /\ notified'[r] = IF verdict[r] /= "allowed"
                             THEN Append(notified[r], verdict[r]) ELSE notified[r]
    BY <1>2 DEF Notify, localVars
  <2>2. notified'[r] = Alerts(verdict[r])
    BY <2>1 DEF Story, Alerts
  <2> QED
    BY <2>1, <2>2 DEF Story
<1>3. CASE Respond(r)
  <2>1. /\ pc[r] = "respond" /\ pc'[r] = "done"
        /\ UNCHANGED <<verdict, logged, notified>>
        /\ answer'[r] = IF verdict[r] = "blocked" THEN BlockPage ELSE Upstream(target[r])
    BY <1>3 DEF Respond, localVars
  <2>2. BlockPage.kind = "block page" /\ Upstream(target[r]).kind = "upstream"
    BY DEF BlockPage, Upstream
  <2> QED
    BY <2>1, <2>2 DEF Story
<1>4. CASE Count(r)
  BY <1>4 DEF Count, Story, localVars, outVars
<1>5. CASE pc[r] \notin {"log", "notify", "count", "respond"}
  <2>1. /\ pc'[r] \notin {"notify", "count", "respond", "done"}
        /\ pc[r] \notin {"notify", "count", "respond", "done"}
        /\ UNCHANGED outVars
    BY <1>5 DEF ServeStep, Arrive, ReadMode, ReadThreshold, Match, CheckBan,
       FilterOne, Decide, Log, Notify, Count, Respond
  <2> QED
    BY <2>1 DEF Story, outVars
<1> QED
  BY <1>1, <1>2, <1>3, <1>4, <1>5 DEF ServeStep, Arrive, ReadMode, ReadThreshold,
     Match, CheckBan, FilterOne, Decide

\* Every step keeps one story of each request.
LEMMA NextStory == StoryInv /\ [Next]_vars => StoryInv'
<1> SUFFICES ASSUME StoryInv, [Next]_vars, NEW q \in Request PROVE Story(q)'
  BY NextTypeOK DEF StoryInv
<1>1. TypeOK /\ Story(q)
  BY DEF StoryInv
<1>2. ASSUME NEW r \in Request, Arrive(r) \/ ServeStep(r) PROVE Story(q)'
  <2>1. CASE q = r
    BY <1>1, <1>2, <2>1, OwnStory
  <2>2. CASE q /= r
    <3>1. UNCHANGED Local(q)
      BY <1>1, <1>2, <2>2, OthersUntouched
    <3> QED
      BY <1>1, <3>1 DEF Story, Local
  <2> QED
    BY <2>1, <2>2
<1>3. CASE UNCHANGED <<pc, verdict, outVars>>
  BY <1>1, <1>3 DEF Story, outVars
<1> QED
  BY <1>2, <1>3 DEF Next, Configure, vars, localVars

\* Whatever a client is answered, the event log and the notifier were told the
\* verdict that was applied, once, and the block page answers the blocked.
THEOREM StoriesAgree == Spec => []OneStory
<1>1. Spec => []StoryInv
  BY InitStory, NextStory, PTL DEF Spec
<1>2. StoryInv => OneStory
  <2> SUFFICES ASSUME StoryInv, NEW r \in Request, answer[r].kind /= "none"
               PROVE  \E v \in Verdict :
                        /\ logged[r] = <<v>>
                        /\ notified[r] = IF v = "allowed" THEN <<>> ELSE <<v>>
                        /\ answer[r].kind = "block page" <=> v = "blocked"
    BY DEF OneStory
  <2>1. Story(r) /\ pc[r] = "done"
    BY DEF StoryInv, Story
  <2>2. verdict[r] \in Verdict
    BY <2>1 DEF StoryInv, TypeOK, RequestOK, Judging
  <2> QED
    BY <2>1, <2>2 DEF Story, Alerts
<1> QED
  BY <1>1, <1>2, PTL

\* A ban that holds from the arrival of a request to its verdict keeps it from
\* every backend, whatever else is changed meanwhile.
THEOREM BanHolds == Spec => []BannedNeverForwarded
<1>1. Spec => [](InForceInv /\ StoryInv)
  BY InitInForce, NextInForce, InitStory, NextStory, PTL DEF Spec
<1>2. InForceInv /\ StoryInv => BannedNeverForwarded
  <2> SUFFICES ASSUME InForceInv, StoryInv, NEW r \in Request,
                      answer[r].kind = "upstream"
               PROVE  FALSE \in seenBan[r]
    BY DEF BannedNeverForwarded
  <2>1. pc[r] = "done" /\ verdict[r] /= "blocked"
    BY DEF StoryInv, Story
  <2>2. verdict[r] /= "none"
    BY <2>1 DEF StoryInv, TypeOK, Judging
  <2> QED
    BY <2>1, <2>2 DEF InForceInv, InForce, Explained, Cause
<1> QED
  BY <1>1, <1>2, PTL

=============================================================================
