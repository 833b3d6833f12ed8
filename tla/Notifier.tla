------------------------------ MODULE Notifier ------------------------------
(***************************************************************************)
(* internal/notifier/slack.go: alerts queued by the request handlers are   *)
(* grouped by one worker goroutine and reported together: every interval,  *)
(* or as soon as enough of them are pending, `flush` turns the pending     *)
(* alerts into one incident, asks a language model to comment on it (which *)
(* may take seconds), saves it in the history and posts it to the webhooks *)
(* that were configured when the flush began.  Webhooks change under it,   *)
(* and Close gives the worker a fixed time to finish.                      *)
(***************************************************************************)
EXTENDS Integers, Sequences, FiniteSets, SequencesExt

CONSTANTS Alert,      \* the alerts handlers raise: [id, verdict, category]
          Cap,        \* capacity of the channel (2048 in New)
          Batch,      \* pending alerts that trigger a flush (200 in worker)
          URL         \* webhook addresses an administrator may set

Kind == {"slack", "discord"}
NoURL == "none"       \* the empty string: destination disabled

\* The categories that make an incident grave.
High == {"sqli", "cmd_injection", "brute_force", "ssrf", "sensitive_path"}

ASSUME NotifierAssumption ==
  /\ Cap \in Nat \ {0} /\ Batch \in Nat \ {0}
  /\ NoURL \notin URL

VARIABLES ch, pending,   \* the channel's buffer; the worker's slice
          worker, last,  \* where the worker is; whether it saw quit
          tick,          \* whether the ticker's channel holds a tick
          url,           \* slackURL and discordURL
          use,           \* the copies flush has read, while it runs
          analysis,      \* the comment flush has got, if any
          incidents,     \* the incidents handed to the sink, in order
          posts,         \* webhook posts in order: <<kind, url, incident number>>
          quit, main,    \* "running"; in Close, "sleeping"; "down"
          accepted,      \* history: alerts the channel took, in order
          dropped,       \* history: alerts it refused
          flushed,       \* history: alerts whose flush is over, in order
          atClose        \* history: how many were accepted when Close was called

workerVars == <<pending, worker, last, use, analysis>>
vars == <<ch, workerVars, tick, url, incidents, posts, quit, main, accepted,
          dropped, flushed, atClose>>

Unread == [k \in Kind |-> NoURL]

Init ==
  /\ ch = <<>> /\ pending = <<>>
  /\ worker = "select" /\ last = FALSE /\ tick = FALSE
  /\ url \in [Kind -> URL \cup {NoURL}]
  /\ use = Unread
  /\ analysis = "" /\ incidents = <<>> /\ posts = <<>>
  /\ quit = FALSE /\ main = "running"
  /\ accepted = <<>> /\ dropped = {} /\ flushed = <<>> /\ atClose = 0

-----------------------------------------------------------------------------
(* Callers.                                                                *)

\* A full channel drops the alert rather than delay the request.
Notify(a) ==
  /\ main /= "down"
  /\ a \notin dropped /\ ~ Contains(accepted, a)
  /\ IF Len(ch) < Cap
       THEN ch' = Append(ch, a) /\ accepted' = Append(accepted, a) /\ UNCHANGED dropped
       ELSE dropped' = dropped \cup {a} /\ UNCHANGED <<ch, accepted>>
  /\ UNCHANGED <<workerVars, tick, url, incidents, posts, quit, main, flushed, atClose>>

SetWebhook(k, u) ==
  /\ main /= "down"
  /\ url' = [url EXCEPT ![k] = u]
  /\ UNCHANGED <<ch, workerVars, tick, incidents, posts, quit, main, accepted,
                 dropped, flushed, atClose>>

\* The ticker's channel has room for one tick; a second is discarded.
Tick ==
  /\ main /= "down" /\ worker /= "done"
  /\ ~tick /\ tick' = TRUE
  /\ UNCHANGED <<ch, workerVars, url, incidents, posts, quit, main, accepted,
                 dropped, flushed, atClose>>

-----------------------------------------------------------------------------
(* The worker's select.  Of the cases that are ready Go picks any.         *)

Goto(from, to) == main /= "down" /\ worker = from /\ worker' = to

Take == pending' = Append(pending, Head(ch)) /\ ch' = Tail(ch)

\* Mutant: one alert too many before a flush.
ReceiveOffByOne ==
  /\ ch /= <<>>
  /\ Take
  /\ Goto("select", IF Len(pending') > Batch THEN "drain" ELSE "select")
  /\ UNCHANGED <<last, use, analysis, tick, url, incidents, posts, quit, main,
                 accepted, dropped, flushed, atClose>>

Receive ==
  /\ ch /= <<>>
  /\ Take
  /\ Goto("select", IF Len(pending') >= Batch THEN "drain" ELSE "select")
  /\ UNCHANGED <<last, use, analysis, tick, url, incidents, posts, quit, main,
                 accepted, dropped, flushed, atClose>>

\* Mutant: a tick flushes full batches only.
OnTickFullBatch ==
  /\ Goto("select", IF Len(pending) >= Batch THEN "drain" ELSE "select")
  /\ tick /\ tick' = FALSE
  /\ UNCHANGED <<ch, pending, last, use, analysis, url, incidents, posts, quit,
                 main, accepted, dropped, flushed, atClose>>

OnTick ==
  /\ Goto("select", "drain")
  /\ tick /\ tick' = FALSE
  /\ UNCHANGED <<ch, pending, last, use, analysis, url, incidents, posts, quit,
                 main, accepted, dropped, flushed, atClose>>

\* Mutant: the last flush takes what the worker holds and leaves the channel.
OnQuitNoDrain ==
  /\ Goto("select", IF pending /= <<>> THEN "slackURL" ELSE "done")
  /\ quit /\ last' = TRUE
  /\ UNCHANGED <<ch, pending, use, analysis, tick, url, incidents, posts, quit,
                 main, accepted, dropped, flushed, atClose>>

OnQuit ==
  /\ Goto("select", "drain")
  /\ quit /\ last' = TRUE
  /\ UNCHANGED <<ch, pending, use, analysis, tick, url, incidents, posts, quit,
                 main, accepted, dropped, flushed, atClose>>

\* drain: one alert at a time, until the channel is found empty.
DrainOne ==
  /\ Goto("drain", "drain")
  /\ ch /= <<>>
  /\ Take
  /\ UNCHANGED <<last, use, analysis, tick, url, incidents, posts, quit, main,
                 accepted, dropped, flushed, atClose>>

AfterFlush == IF last THEN "done" ELSE "select"

DrainEnds ==
  /\ ch = <<>>
  /\ Goto("drain", IF pending /= <<>> THEN "slackURL" ELSE AfterFlush)
  /\ UNCHANGED <<ch, pending, last, use, analysis, tick, url, incidents, posts,
                 quit, main, accepted, dropped, flushed, atClose>>

-----------------------------------------------------------------------------
(* flush.                                                                  *)

ReadURL(k, from, to) ==
  /\ Goto(from, to)
  /\ use' = [use EXCEPT ![k] = url[k]]
  /\ UNCHANGED <<ch, pending, last, analysis, tick, url, incidents, posts,
                 quit, main, accepted, dropped, flushed, atClose>>

ReadSlackURL == ReadURL("slack", "slackURL", "discordURL")
ReadDiscordURL == ReadURL("discord", "discordURL", "analyze")

Reads == ReadSlackURL \/ ReadDiscordURL

\* What the enricher answers: no text when it is switched off, when the call
\* fails or takes more than 18 s, when the status is 300 or more, or when the
\* answer cannot be read or is blank.
Answers == {"", "text"}

\* The text is also saved as the setting latest_analysis, which no step here
\* reads.
Analyze ==
  /\ Goto("analyze", "save")
  /\ analysis' \in Answers
  /\ UNCHANGED <<ch, pending, last, use, tick, url, incidents, posts, quit, main,
                 accepted, dropped, flushed, atClose>>

severityFor(alerts, blocked) ==
  CASE blocked = 0 -> "SURVEILLANCE"
    [] blocked > 0 /\ \E a \in ToSet(alerts) : a.category \in High -> "ELEVEE"
    [] OTHER -> "MODEREE"

\* flush counts the blocked alerts as it goes through them.
Blocked(alerts) ==
  LET n[i \in 0 .. Len(alerts)] ==
        IF i = 0 THEN 0
        ELSE IF alerts[i].verdict = "blocked" THEN n[i - 1] + 1 ELSE n[i - 1]
  IN n[Len(alerts)]

\* Totals and severity of the message and of the incident; the comment, the
\* most frequent categories, addresses and paths are left out.
Summary(alerts) ==
  LET blocked == Blocked(alerts) IN
  [alerts |-> alerts, count |-> Len(alerts), blocked |-> blocked,
   detected |-> Len(alerts) - blocked, severity |-> severityFor(alerts, blocked)]

\* Mutant: flush returns early when there is no webhook to post to.
SaveIncidentIfConfigured ==
  /\ Goto("save", "postSlack")
  /\ incidents' = IF \E k \in Kind : use[k] /= NoURL
                    THEN Append(incidents, Summary(pending)) ELSE incidents
  /\ UNCHANGED <<ch, pending, last, use, analysis, tick, url, posts, quit,
                 main, accepted, dropped, flushed, atClose>>

\* The incident is handed to the sink whatever webhooks there are.
SaveIncident ==
  /\ Goto("save", "postSlack")
  /\ incidents' = Append(incidents, Summary(pending))
  /\ UNCHANGED <<ch, pending, last, use, analysis, tick, url, posts, quit,
                 main, accepted, dropped, flushed, atClose>>

Message(k) == <<k, use[k], Len(incidents)>>

\* Mutant: a post whose answer is late or an error is sent again.
PostRetried(k) ==
  IF use[k] = NoURL THEN posts' = posts
    ELSE posts' \in {Append(posts, Message(k)), posts \o <<Message(k), Message(k)>>}

\* The result of a post is only written to the program's own journal.
Post(k) ==
  posts' = IF use[k] = NoURL THEN posts ELSE Append(posts, Message(k))

PostSlack ==
  /\ Goto("postSlack", "postDiscord")
  /\ Post("slack")
  /\ UNCHANGED <<ch, pending, last, use, analysis, tick, url, incidents, quit,
                 main, accepted, dropped, flushed, atClose>>

\* Mutant: the worker keeps the alerts it has reported.
PostDiscordKeepsPending ==
  /\ Goto("postDiscord", AfterFlush)
  /\ Post("discord")
  /\ analysis' = "" /\ use' = Unread
  /\ flushed' = flushed \o pending
  /\ UNCHANGED <<ch, pending, last, tick, url, incidents, quit, main, accepted,
                 dropped, atClose>>

\* The last step of flush; the worker then forgets the alerts it reported.
PostDiscord ==
  /\ Goto("postDiscord", AfterFlush)
  /\ Post("discord")
  /\ pending' = <<>> /\ analysis' = "" /\ use' = Unread
  /\ flushed' = flushed \o pending
  /\ UNCHANGED <<ch, last, tick, url, incidents, quit, main, accepted, dropped,
                 atClose>>

-----------------------------------------------------------------------------
(* Close, its sleep of 200 ms, and the end of the process.                 *)

CloseQuit ==
  /\ main = "running" /\ main' = "sleeping"
  /\ quit' = TRUE /\ atClose' = Len(accepted)
  /\ UNCHANGED <<ch, workerVars, tick, url, incidents, posts, accepted, dropped,
                 flushed>>

\* The sleep is over, wherever the worker is, and the process ends.
Exit ==
  /\ main = "sleeping" /\ main' = "down"
  /\ UNCHANGED <<ch, workerVars, tick, url, incidents, posts, quit, accepted,
                 dropped, flushed, atClose>>

-----------------------------------------------------------------------------
Flushing == Analyze \/ SaveIncident \/ PostSlack \/ PostDiscord

WorkerStep ==
  Receive \/ OnTick \/ OnQuit \/ DrainOne \/ DrainEnds \/ Reads \/ Flushing

Next ==
  \/ \E a \in Alert : Notify(a)
  \/ \E k \in Kind, u \in URL \cup {NoURL} : SetWebhook(k, u)
  \/ Tick \/ WorkerStep
  \/ CloseQuit \/ Exit

Spec == Init /\ [][Next]_vars

\* The worker runs, calls return (each has a timeout), the ticker ticks.
FairSpec == Spec /\ WF_vars(WorkerStep) /\ WF_vars(Tick)

-----------------------------------------------------------------------------
(* Properties.                                                             *)

\* Every variable has its type and the channel keeps within its capacity.
TypeOK ==
  /\ ch \in Seq(Alert) /\ Len(ch) <= Cap
  /\ pending \in Seq(Alert)
  /\ worker \in {"select", "drain", "slackURL", "discordURL", "analyze", "save",
                 "postSlack", "postDiscord", "done"}
  /\ last \in BOOLEAN /\ tick \in BOOLEAN /\ quit \in BOOLEAN
  /\ main \in {"running", "sleeping", "down"}
  /\ url \in [Kind -> URL \cup {NoURL}] /\ use \in [Kind -> URL \cup {NoURL}]
  /\ posts \in Seq(Kind \X URL \X Nat) /\ analysis \in Answers
  /\ accepted \in Seq(Alert) /\ flushed \in Seq(Alert) /\ dropped \subseteq Alert
  /\ atClose \in Nat

\* The alerts the channel took are, in that order, those reported, those
\* pending and those still in the channel: the grouping by batch, by interval
\* and at the close loses none and reports none twice.
NothingLost == accepted = flushed \o pending \o ch

\* Each alert reported is in exactly one incident, the incidents follow one
\* another, and each has the totals and the gravity of its own alerts (flush:
\* "Historisation de l'incident [...] indépendamment des webhooks").
IncidentsCoverReports ==
  /\ FlattenSeq([i \in DOMAIN incidents |-> incidents[i].alerts])
       = IF worker \in {"postSlack", "postDiscord"} THEN flushed \o pending ELSE flushed
  /\ \A i \in DOMAIN incidents :
       LET inc == incidents[i] IN
       /\ inc.count = inc.blocked + inc.detected /\ inc.count > 0
       /\ inc.blocked = Cardinality({j \in DOMAIN inc.alerts :
                                       inc.alerts[j].verdict = "blocked"})
       /\ inc.severity = "SURVEILLANCE" <=> inc.blocked = 0
       /\ inc.severity = "ELEVEE" =>
            \E a \in ToSet(inc.alerts) : a.category \in High

\* Between flushes the worker holds fewer alerts than a batch, so an alert is
\* never held back by a batch that is already full.
BatchBound == worker = "select" => Len(pending) < Batch

\* A message goes out at most once per destination and incident, after the
\* incident was handed to the history, and the incidents in their order, however
\* the webhooks change while it is put together.
PostsFollowIncidents ==
  \A i, j \in DOMAIN posts :
    /\ posts[i][3] \in DOMAIN incidents
    /\ i < j => \/ posts[i][3] < posts[j][3]
                \/ (posts[i][3] = posts[j][3] /\ posts[i][1] /= posts[j][1])

\* An alert that was taken is reported, unless the process ends first: neither
\* a quiet period nor a webhook change keeps it pending.
EventuallyReported ==
  \A a \in Alert :
    Contains(accepted, a) /\ main = "running"
      ~> Contains(flushed, a) \/ main /= "running"

\* When the worker returns it has reported every alert accepted before Close was
\* called: quit may come first out of its select, or between two flushes, and its
\* last flush still covers the channel (Close, "vide la file restante").  That
\* Close waits for it is not said: it sleeps 200 ms, and a flush may take seconds.
DrainReportsEarlierAlerts ==
  worker = "done" => \A i \in 1 .. atClose : Contains(flushed, accepted[i])

=============================================================================
