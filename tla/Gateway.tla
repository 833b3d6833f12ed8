------------------------------ MODULE Gateway -------------------------------
(***************************************************************************)
(* internal/proxy: the pipeline of one proxied request, Gateway.ServeHTTP, *)
(* run by many requests at once while an administrator changes the hot     *)
(* configuration (Settings, Router).  Every read of the configuration      *)
(* takes its own lock: the mode, the threshold, the route, the blocklist   *)
(* and the activation of each detected category are five kinds of reads    *)
(* between which any change may happen, and each is a step here.           *)
(*                                                                         *)
(* What the detectors find in a request is its input: a sequence of        *)
(* findings, each with a category and a severity.                          *)
(*                                                                         *)
(* The variables seenXxx are history: for each request the values each     *)
(* part of the configuration has had from its arrival to its verdict.      *)
(***************************************************************************)
EXTENDS Integers, Sequences, FiniteSetsExt

CONSTANTS Request,     \* the requests, each served once
          IP, Host, Category,
          Threshold,   \* values the global threshold takes
          App,         \* records [name, mode, threshold] of applications
          Input        \* records [ip, host, findings] of requests

Mode == {"block", "detect"}
Verdict == {"allowed", "detected", "blocked"}
NoApp == [name |-> "default", mode |-> "none", threshold |-> 0]

\* What a client is answered: by the block page or by an upstream.
NoAnswer == [kind |-> "none", from |-> NoApp]
BlockPage == [kind |-> "block page", from |-> NoApp]
Upstream(app) == [kind |-> "upstream", from |-> app]

ASSUME GatewayAssumption ==
  /\ Threshold \subseteq Nat
  /\ \A a \in App : a.threshold \in Nat
  /\ NoApp \notin App
  /\ \A i \in Input :
       /\ i.ip \in IP /\ i.host \in Host
       /\ i.findings \in Seq([cat : Category, sev : Nat])

VARIABLES
  mode, threshold, enabled, blocklist,   \* Settings, in memory
  byDomain,                              \* Router: Host -> App or NoApp
  total, count,                          \* Stats
  pc, in,                                \* where a request is; its input
  rmode, rthreshold, target,             \* locals of ServeHTTP
  next, kept,                            \* the loop of filter
  verdict,
  logged, notified,                      \* per request, the verdicts store.Log
                                         \* and Notify were called with
  answer,                                \* what the client is answered from
  seenModes, seenThresholds, seenTargets, seenBan, everOn, everOff

settingsVars == <<mode, threshold, enabled, blocklist, byDomain>>
statsVars == <<total, count>>
localVars == <<in, rmode, rthreshold, target, next, kept, verdict>>
outVars == <<logged, notified, answer>>
seenVars == <<seenModes, seenThresholds, seenTargets, seenBan, everOn, everOff>>
vars == <<settingsVars, statsVars, pc, localVars, outVars, seenVars>>

Findings(r) == in[r].findings

\* detector.Finding severities summed by filter; a banned IP is given 99.
Score(findings, indexes) == MapThenSumSet(LAMBDA i : findings[i].sev, indexes)

\* decide: below the threshold all is allowed, above it the mode rules.
decide(score, m, t) ==
  IF score < t THEN "allowed" ELSE IF m = "block" THEN "blocked" ELSE "detected"

Init ==
  /\ mode \in Mode /\ threshold \in Threshold
  /\ enabled = Category /\ blocklist = {}
  /\ byDomain = [h \in Host |-> NoApp]
  /\ total = 0 /\ count = [v \in Verdict |-> 0]
  /\ pc = [r \in Request |-> "new"]
  /\ in \in [Request -> Input]
  /\ rmode = [r \in Request |-> "none"] /\ rthreshold = [r \in Request |-> 0]
  /\ target = [r \in Request |-> NoApp]
  /\ next = [r \in Request |-> 1] /\ kept = [r \in Request |-> {}]
  /\ verdict = [r \in Request |-> "none"]
  /\ logged = [r \in Request |-> <<>>] /\ notified = [r \in Request |-> <<>>]
  /\ answer = [r \in Request |-> NoAnswer]
  /\ seenModes = [r \in Request |-> {}] /\ seenThresholds = [r \in Request |-> {}]
  /\ seenTargets = [r \in Request |-> {}] /\ seenBan = [r \in Request |-> {}]
  /\ everOn = [r \in Request |-> {}] /\ everOff = [r \in Request |-> {}]

-----------------------------------------------------------------------------
(* The administrator's changes, each atomic under the lock of Settings or  *)
(* Router.  Observe extends the history of the requests being judged.      *)

Judging == {r \in Request : pc[r] \in {"mode", "threshold", "match", "ban", "filter"}}

Observe ==
  /\ seenModes' = [r \in Request |->
       IF r \in Judging THEN seenModes[r] \cup {mode'} ELSE seenModes[r]]
  /\ seenThresholds' = [r \in Request |->
       IF r \in Judging THEN seenThresholds[r] \cup {threshold'} ELSE seenThresholds[r]]
  /\ seenTargets' = [r \in Request |->
       IF r \in Judging THEN seenTargets[r] \cup {byDomain'[in[r].host]} ELSE seenTargets[r]]
  /\ seenBan' = [r \in Request |->
       IF r \in Judging THEN seenBan[r] \cup {in[r].ip \in blocklist'} ELSE seenBan[r]]
  /\ everOn' = [r \in Request |->
       IF r \in Judging THEN everOn[r] \cup enabled' ELSE everOn[r]]
  /\ everOff' = [r \in Request |->
       IF r \in Judging THEN everOff[r] \cup (Category \ enabled') ELSE everOff[r]]

SetMode(m) ==
  /\ mode' = m
  /\ UNCHANGED <<threshold, enabled, blocklist, byDomain>>

SetThreshold(t) ==
  /\ threshold' = t
  /\ UNCHANGED <<mode, enabled, blocklist, byDomain>>

SetCategories(cats) ==
  /\ enabled' = cats
  /\ UNCHANGED <<mode, threshold, blocklist, byDomain>>

Block(ip) ==
  /\ blocklist' = blocklist \cup {ip}
  /\ UNCHANGED <<mode, threshold, enabled, byDomain>>

Unblock(ip) ==
  /\ blocklist' = blocklist \ {ip}
  /\ UNCHANGED <<mode, threshold, enabled, byDomain>>

\* Reload installs a new table in one assignment: whole applications appear,
\* change or disappear.
Reload(table) ==
  /\ byDomain' = table
  /\ UNCHANGED <<mode, threshold, enabled, blocklist>>

Configure ==
  /\ \/ \E m \in Mode : SetMode(m)
     \/ \E t \in Threshold : SetThreshold(t)
     \/ \E cats \in SUBSET Category : SetCategories(cats)
     \/ \E ip \in IP : Block(ip)
     \/ \E ip \in IP : Unblock(ip)
     \/ \E table \in [Host -> App \cup {NoApp}] : Reload(table)
  /\ Observe
  /\ UNCHANGED <<statsVars, pc, localVars, outVars>>

-----------------------------------------------------------------------------
(* ServeHTTP, one step per lock taken.                                     *)

Goto(r, from, to) == pc[r] = from /\ pc' = [pc EXCEPT ![r] = to]

\* Total is counted and the request parsed; its history begins.
Arrive(r) ==
  /\ Goto(r, "new", "mode")
  /\ total' = total + 1
  /\ seenModes' = [seenModes EXCEPT ![r] = {mode}]
  /\ seenThresholds' = [seenThresholds EXCEPT ![r] = {threshold}]
  /\ seenTargets' = [seenTargets EXCEPT ![r] = {byDomain[in[r].host]}]
  /\ seenBan' = [seenBan EXCEPT ![r] = {in[r].ip \in blocklist}]
  /\ everOn' = [everOn EXCEPT ![r] = enabled]
  /\ everOff' = [everOff EXCEPT ![r] = Category \ enabled]
  /\ UNCHANGED <<settingsVars, count, localVars, outVars>>

ReadMode(r) ==
  /\ Goto(r, "mode", "threshold")
  /\ rmode' = [rmode EXCEPT ![r] = mode]
  /\ UNCHANGED <<settingsVars, statsVars, in, rthreshold, target, next, kept,
                 verdict, outVars, seenVars>>

ReadThreshold(r) ==
  /\ Goto(r, "threshold", "match")
  /\ rthreshold' = [rthreshold EXCEPT ![r] = threshold]
  /\ UNCHANGED <<settingsVars, statsVars, in, rmode, target, next, kept,
                 verdict, outVars, seenVars>>

\* Mutant: the application imposes its mode and not its threshold.
MatchModeOnly(r) ==
  LET app == byDomain[in[r].host] IN
  /\ Goto(r, "match", "ban")
  /\ target' = [target EXCEPT ![r] = app]
  /\ rmode' = IF app /= NoApp THEN [rmode EXCEPT ![r] = app.mode] ELSE rmode
  /\ UNCHANGED <<settingsVars, statsVars, in, rthreshold, next, kept, verdict,
                 outVars, seenVars>>

\* An application that owns the host imposes its policy and its upstream.
Match(r) ==
  LET app == byDomain[in[r].host] IN
  /\ Goto(r, "match", "ban")
  /\ target' = [target EXCEPT ![r] = app]
  /\ IF app /= NoApp
       THEN /\ rmode' = [rmode EXCEPT ![r] = app.mode]
            /\ rthreshold' = [rthreshold EXCEPT ![r] = app.threshold]
       ELSE UNCHANGED <<rmode, rthreshold>>
  /\ UNCHANGED <<settingsVars, statsVars, in, next, kept, verdict, outVars, seenVars>>

\* Mutant: a ban is a finding of severity 99, which the mode may let through.
BanObeysMode(r) ==
  /\ IF in[r].ip \in blocklist
       THEN /\ Goto(r, "ban", "log")
            /\ verdict' = [verdict EXCEPT ![r] = decide(99, rmode[r], rthreshold[r])]
       ELSE /\ Goto(r, "ban", "filter")
            /\ UNCHANGED verdict
  /\ UNCHANGED <<settingsVars, statsVars, in, rmode, rthreshold, target, next,
                 kept, outVars, seenVars>>

\* A banned address is blocked at once; another request is inspected.
CheckBan(r) ==
  /\ IF in[r].ip \in blocklist
       THEN /\ Goto(r, "ban", "log")
            /\ verdict' = [verdict EXCEPT ![r] = "blocked"]
       ELSE /\ Goto(r, "ban", "filter")
            /\ UNCHANGED verdict
  /\ UNCHANGED <<settingsVars, statsVars, in, rmode, rthreshold, target, next,
                 kept, outVars, seenVars>>

\* filter: one read of Enabled for each finding.
FilterOne(r) ==
  /\ pc[r] = "filter"
  /\ next[r] <= Len(Findings(r))
  /\ next' = [next EXCEPT ![r] = @ + 1]
  /\ kept' = IF Findings(r)[next[r]].cat \in enabled
               THEN [kept EXCEPT ![r] = @ \cup {next[r]}]
               ELSE kept
  /\ UNCHANGED <<settingsVars, statsVars, pc, in, rmode, rthreshold, target,
                 verdict, outVars, seenVars>>

Decide(r) ==
  /\ next[r] > Len(Findings(r))
  /\ Goto(r, "filter", "log")
  /\ verdict' = [verdict EXCEPT ![r] =
       decide(Score(Findings(r), kept[r]), rmode[r], rthreshold[r])]
  /\ UNCHANGED <<settingsVars, statsVars, in, rmode, rthreshold, target, next,
                 kept, outVars, seenVars>>

Log(r) ==
  /\ Goto(r, "log", "notify")
  /\ logged' = [logged EXCEPT ![r] = Append(@, verdict[r])]
  /\ UNCHANGED <<settingsVars, statsVars, localVars, notified, answer, seenVars>>

\* Mutant: alerts are for blocked requests only.
NotifyBlocked(r) ==
  /\ Goto(r, "notify", "count")
  /\ notified' = IF verdict[r] = "blocked"
                   THEN [notified EXCEPT ![r] = Append(@, verdict[r])] ELSE notified
  /\ UNCHANGED <<settingsVars, statsVars, localVars, logged, answer, seenVars>>

Notify(r) ==
  /\ Goto(r, "notify", "count")
  /\ notified' = IF verdict[r] /= "allowed"
                   THEN [notified EXCEPT ![r] = Append(@, verdict[r])] ELSE notified
  /\ UNCHANGED <<settingsVars, statsVars, localVars, logged, answer, seenVars>>

\* The counters /_sentinel/stats answers with when it has no database.
Count(r) ==
  /\ Goto(r, "count", "respond")
  /\ count' = [count EXCEPT ![verdict[r]] = @ + 1]
  /\ UNCHANGED <<settingsVars, total, localVars, outVars, seenVars>>

\* writeBlock, or the upstream of the matched application or of the gateway.
Respond(r) ==
  /\ Goto(r, "respond", "done")
  /\ answer' = [answer EXCEPT ![r] =
       IF verdict[r] = "blocked" THEN BlockPage ELSE Upstream(target[r])]
  /\ UNCHANGED <<settingsVars, statsVars, localVars, logged, notified, seenVars>>

ServeStep(r) ==
  \/ ReadMode(r) \/ ReadThreshold(r) \/ Match(r) \/ CheckBan(r)
  \/ FilterOne(r) \/ Decide(r)
  \/ Log(r) \/ Notify(r) \/ Count(r) \/ Respond(r)

Next ==
  \/ Configure
  \/ \E r \in Request : Arrive(r) \/ ServeStep(r)

Spec == Init /\ [][Next]_vars

-----------------------------------------------------------------------------
(* Properties.                                                             *)

\* The shared configuration and the counters.
SharedOK ==
  /\ mode \in Mode /\ threshold \in Threshold
  /\ enabled \subseteq Category /\ blocklist \subseteq IP
  /\ byDomain \in [Host -> App \cup {NoApp}]
  /\ total \in Nat /\ count \in [Verdict -> Nat]

\* The state of each request.
RequestOK ==
  /\ pc \in [Request -> {"new", "mode", "threshold", "match", "ban", "filter",
                         "log", "notify", "count", "respond", "done"}]
  /\ in \in [Request -> Input]
  /\ rmode \in [Request -> Mode \cup {"none"} \cup {a.mode : a \in App}]
  /\ rthreshold \in [Request -> Nat]
  /\ target \in [Request -> App \cup {NoApp}]
  /\ next \in [Request -> Nat \ {0}] /\ kept \in [Request -> SUBSET Nat]
  /\ verdict \in [Request -> Verdict \cup {"none"}]
  /\ logged \in [Request -> Seq(Verdict)] /\ notified \in [Request -> Seq(Verdict)]
  /\ answer \in [Request -> {NoAnswer, BlockPage} \cup {Upstream(a) : a \in App \cup {NoApp}}]

\* What the history holds of each request.
HistoryOK ==
  /\ seenModes \in [Request -> SUBSET Mode]
  /\ seenThresholds \in [Request -> SUBSET Threshold]
  /\ seenTargets \in [Request -> SUBSET (App \cup {NoApp})]
  /\ seenBan \in [Request -> SUBSET BOOLEAN]
  /\ everOn \in [Request -> SUBSET Category]
  /\ everOff \in [Request -> SUBSET Category]

\* Every variable has its type, and a request has a verdict exactly from the
\* moment it leaves the inspection.
TypeOK ==
  /\ SharedOK /\ RequestOK /\ HistoryOK
  /\ \A r \in Request : verdict[r] = "none" <=> pc[r] = "new" \/ r \in Judging

\* The policies under which the application a may have judged the request: its
\* own, or for no application the global mode and threshold, which are read one
\* after the other and need not have been in force together.
PoliciesOf(r, a) ==
  IF a = NoApp THEN seenModes[r] \X seenThresholds[r]
               ELSE {<<a.mode, a.threshold>>}

\* What filter may have kept: every finding whose category stayed enabled while
\* the request was judged, and none whose category stayed disabled.
Filtered(r) ==
  {S \in SUBSET (1 .. Len(Findings(r))) :
     \A i \in 1 .. Len(Findings(r)) :
       /\ Findings(r)[i].cat \notin everOff[r] => i \in S
       /\ i \in S => Findings(r)[i].cat \in everOn[r]}

\* A verdict is explained by values in force while the request was judged: its
\* address was banned; or it was not, and the policy of one application that
\* owned its host applied to what the enabled categories found.  The request
\* goes to that very application, never judged by one and sent to another.
JudgedInForce ==
  \A r \in Request : verdict[r] /= "none" =>
    \E a \in seenTargets[r] :
      /\ answer[r] \in {NoAnswer, BlockPage, Upstream(a)}
      /\ \/ TRUE \in seenBan[r] /\ verdict[r] = "blocked"
         \/ /\ FALSE \in seenBan[r]
            /\ \E p \in PoliciesOf(r, a), S \in Filtered(r) :
                 verdict[r] = decide(Score(Findings(r), S), p[1], p[2])

\* A ban that is in place when a request arrives and is not lifted while it is
\* judged keeps it from every backend ("une IP bannie est bloquée
\* immédiatement", proxy.go).
BannedNeverForwarded ==
  \A r \in Request :
    answer[r].kind = "upstream" => FALSE \in seenBan[r]

\* Whatever the client has been answered, the event log was given exactly one
\* event, with the verdict that was applied, and the notifier one alert unless
\* the request was allowed; the block page is the answer exactly to a blocked
\* request.  Nothing is forwarded that is not on record.
OneStory ==
  \A r \in Request : answer[r].kind /= "none" =>
    \E v \in Verdict :
      /\ logged[r] = <<v>>
      /\ notified[r] = IF v = "allowed" THEN <<>> ELSE <<v>>
      /\ answer[r].kind = "block page" <=> v = "blocked"

=============================================================================
