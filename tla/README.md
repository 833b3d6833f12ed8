# Sentinel WAF in TLA+

Specifications, model-checking configurations and proofs for the Go code of
Sentinel WAF: a reverse proxy that inspects every request, decides by a policy
that changes while it runs, and records what it did. Source paths below are
relative to the repository (`internal/...`, `cmd/gateway/main.go`).

1. Inventory - 2. Modules and code - 3. Runs - 4. Fairness - 5. Proofs -
6. Disagreements found - 7. What is not modelled - 8. Plan

## 1. Inventory

The program is one process: an HTTP server whose handlers are goroutines, three
background goroutines (event writer, retention, notifier worker), a refresh loop,
and PostgreSQL. What the handlers share is protected by locks held for one read
or one assignment; nothing spans two of them. Most of what can go wrong is
therefore between two steps that are atomic one by one.

| component | state | operations | interacts with |
|---|---|---|---|
| Gateway `internal/proxy/proxy.go` | counters | `ServeHTTP` | reads Settings and Router, calls detectors, Store, Notifier, an upstream |
| Settings `internal/proxy/settings.go` | mode, threshold, families, blocklist, webhooks, language model | locked getters, setters that save after the lock, `load` | settings table; handlers push webhooks on to the notifier |
| Router `internal/proxy/router.go` | host -> application | `Match`, `Reload` | applications table, through `reloadRouter` of `main.go` |
| Store, event log `internal/storage/storage.go` | bounded channel, `quit` | `Log`, worker, retention, `Close` | events table |
| Store, tables | applications, settings, incidents | SQL statements | PostgreSQL |
| Store, queries | none | `Recent`, `TimelineByIP`, `Stats`, `Analytics` | events table, read by the console's API |
| Notifier `internal/notifier/slack.go` | bounded channel, pending alerts, webhooks | `Notify`, worker, `flush`, `SetWebhook`, `Close` | Enricher, incidents table, Slack and Discord |
| Enricher `internal/enricher/enricher.go` | configuration | `SetConfig`, `Analyze` | a language model over HTTP |
| Brute-force detector `internal/detector/bruteforce.go` | attempts per address | `Inspect` | the chain |
| Content detectors `internal/detector/*` | none | `Inspect` | the chain |
| Parser `internal/parser/parser.go` | none | `Parse` | the chain; hands the body on to the upstream |
| Configuration `internal/config` | none | `Load` | read once by `main` |
| Administrator `internal/auth`, handlers of `main.go` | password hash, secret | setup, login, password change, `Valid` | settings table |
| Console `dashboard/` | the token, the last answers | polling, edits | the control API |
| Attack lab `attack-lab/` | - | a vulnerable demonstration site | none of the above |

What is hard in each, and what makes it correct:

* **Gateway.** The mode, the threshold, the route, the ban and the activation of
  each finding's family are read one after the other while an administrator
  changes them. A verdict must still be explained by values in force while the
  request was judged, and one application must supply both the policy and the
  upstream. The event, the alert and the answer are separate effects: there must
  be one of each, and they must tell one story.
* **Settings.** Memory, table and notifier are three copies, updated in three
  steps; saves overlap, fail silently, or are cut off by a restart; a restart may
  be an upgrade that knows other detection families.
* **Router.** Reloads overlap: listing the table and installing the result are
  two steps, and a slow reload may install an older content.
* **Event log.** It never blocks the traffic, so it drops; it stores in the order
  of acceptance; the limit on the number of rows must keep the newest although the
  worker inserts under it; the worker's drain must be complete, but `Close` gives
  it 100 ms whatever is left.
* **Notifier.** Grouping by batch, by tick and at the close must report every
  accepted alert once; a flush may take many seconds, during which the
  webhooks change, the channel fills and the process is asked to stop. No
  destination may get an incident twice.
* **Brute-force detector.** The clock is read before the lock, and it is a wall
  clock: attempts may be recorded out of order. An address must be reported
  exactly when its window holds more than the limit, forgotten when idle, and
  never lose attempts that count to the sweep another address runs.
* **Parser and detectors.** The upstream must read nothing that was not inspected:
  the parser of parameters drops what it refuses, the body is cut, encodings are
  nested. Parameters come out of a map in any order and the chain keeps the first
  finding of a signature, yet the findings must not depend on the order, nor the
  score by more than the point a tautology's two weights differ by. The SQL lexer
  must see through comments without taking sentences for SQL.
* **Queries.** A report is seven statements without a transaction; its parts must
  agree as far as nothing moved, and its windows and buckets fit at their edges.
* **Administrator.** Check-then-act in setup and password change, a save after the
  lock, a start that cannot read what was saved: who may be told yes, and which
  sessions and which account survive.
* **Shutdown, console.** See section 7.

`PROJECT.json` lists each hazard at its line, with the properties that cover it.

## 2. Modules and code

| module | models | state and actions |
|---|---|---|
| `LossyLog` | what `storage.go` promises of the event log, without channel, worker or shutdown | `offered`, `waiting`, `log`; accept, refuse, store, lose, forget |
| `EventLog` | `Log`, `worker`, `insert`, `retentionWorker`, `purge`, `Open`, `Close`, the end of the process | `ch`, `hand`, `table`, `quit` and the three control points; one action per case of each `select` and per SQL statement |
| `EventLogProofs` | theorems about `EventLog` | - |
| `Gateway` | `ServeHTTP`, `filter`, `decide`, and every change of the hot configuration | the locals of `ServeHTTP` per request; one action per lock taken |
| `GatewayProofs` | theorems about `Gateway` | - |
| `BruteForce` | `NewBruteForce`, `Inspect` and its sweep, the wall clock | the map of attempts, `lastGC`, per request the time it read before the lock |
| `BruteForceProofs` | theorems about `BruteForce` | - |
| `Notifier` | `Notify`, `worker`, `flush`, `SetWebhook`, `Close` | the channel, `pending`, the two addresses and the copies `flush` made of them, the messages sent, in order |
| `NotifierProofs` | theorems about `Notifier` | - |
| `Settings` | setters, `load`, `SaveSetting`/`LoadSetting`, the handlers of `/_sentinel/settings` and `/_sentinel/blocklist`, the start of the webhooks and of the language model | memory, table, the notifier's and the enricher's copies, and per request what it has read, and has left to apply and to save |
| `SettingsProofs` | theorems about `Settings` | - |
| `Admin` | `Admin` and the tokens of `internal/auth`; the guard, setup, login and password handlers; the start of account and secret | hash and secret in memory and in the table, tokens given, per request the hash it has read |
| `AdminProofs` | theorems about `Admin` | - |
| `SQLSemantic` | `semantic_sql.go`: comments, tokens, signatures, the three readings | none: operators on sequences of symbols |
| `Inspection` | `Parse`, the chain of the five detectors, what is forwarded of the body | the values to inspect and the findings, one action per detector |
| `EventQueries` | `Recent`, `TimelineByIP`, `Stats`, `Analytics` | the table, a set of rows with their columns, the clock, the report under way; one action per query |
| `EventQueriesProofs` | theorems about `EventQueries` | - |
| `Router` | `Reload`, `AddApp`, `UpdateApp`, `DeleteApp`, `ListApps`, `reloadRouter`, `refreshLoop`, the handler of `/_sentinel/apps` | the table, the routing table, per reload the content it listed |
| `RouterProofs` | theorems about `Router` | - |

`MCx` gives module `x` its instances. Variables the comments call *history* are
read by no action's guard but to bound the model; they remember what properties speak of. Definitions
whose comment begins with "Mutant" are plausible bugs, used by no specification:
each names one change to the action that follows it, and exists to show that a
property notices it (`PROJECT.json`, "mutants").

Abstractions that recur:

* An event, an alert, an address, a URL is a value without structure, except the
  fields a property tells apart (an alert's verdict, an application's policy).
  What the detectors find in a request is an input of `Gateway`: a sequence of
  (family, severity); `Inspection` says how it comes about. There, a text is a
  sequence of symbols (a word, a quote, an operator), the patterns regular
  expressions would find in it, and how often it is encoded.
* An action is what happens between two points where another goroutine can be
  observed: under one lock, one channel operation or one SQL statement.
* Slack and Discord are the same code twice: `Notifier` has both, as their posts
  are ordered; `Settings` has one webhook for the two.
* In `Gateway` the changes of the configuration are the bare assignments of
  `Settings` and `Router`; where they come from is modelled in those modules.
* PostgreSQL is atomic per statement, and may refuse any statement. One statement
  is two steps: the limit on the number of rows reads the ids to keep from the table as it
  was when it started, and rows are inserted until it ends.
* Rows are stamped by a wall clock, which may be set back: the purge by age of
  `EventLog`, where rows have no time, takes any rows; `EventQueries` has the times.
* The sleeps of the two `Close` are steps without a guard: they may end wherever
  the worker is.

## 3. Runs

| run | instance | shows |
|---|---|---|
| `event_log` | 3 events, channel of 2, at most 1 row, fairness | `Accounted`, `AcceptanceOrder`, `CountKeepsNewest`, `DrainServesEarlierEvents`, `ImplementsLossyLog`, `EventuallyServed` |
| `gateway_policy` | 1 request, 2 families, 2 thresholds, an application, any changes | `JudgedInForce`, `BannedNeverForwarded`, `OneStory` |
| `inspection` | 1 request: every query of 4 SQL symbols, longer ones, pairs of parameters in query and body, in any order | `ForwardedWasInspected`, `ScoreOrderFree`, `CommentsHideNothing`, `SentencesAreClean` |
| `inspection_comments` | the same texts | `SeesThroughComments` is violated |
| `brute_force` | 2 requests at once, 2 addresses, 4 attempts, 6 ticks, a window of 2 ticks, a limit of 1 | `ReportsExactly`, `NeverWithoutCause`, `OnlyExpiredForgotten`, `IdleAreSwept` |
| `notifier` | 3 alerts of 2 gravities, channel of 2, batches of 2, fairness | `NothingLost`, `IncidentsCoverReports`, `BatchBound`, `PostsFollowIncidents`, `DrainReportsEarlierAlerts`, `EventuallyReported` |
| `settings` | 2 writers, 9 bodies, refused saves, unreadable rows, 2 versions | `SurvivesUnlessCrossed`, `SavedWasInForce`, `NeverSwitchedOffIsOn`, `AlertsFollowSettings`, `AnalysesFollowSettings`, `KeyNeverErased` |
| `settings_race` | 2 writers, no failure | `SurvivesRestart` is violated |
| `settings_snapshot` | 1 writer | `SnapshotTellsEnabled` is violated |
| `router` | 2 API requests, the refresh loop, another program; 2 writes, 2 rows; fairness | `UndisturbedMeansRouted`, `Converges` |
| `admin` | 2 clients, 2 passwords, 3 requests, refused saves, unreadable rows, restarts | `EntitledWhileRunning`, `NoSessionWithoutAccount`, `AccountSurvives`, `SessionsLast` |
| `queries` | 3 kinds of requests, 2 rows, 2 ranges, 3 instants, 1 failed query | `UndisturbedReportAgrees`, `LaterPartsCoverSeries`, `LevelHasCause`, `ListsHonest` |

Bounds, and why they are enough:

* *Event log.* A channel of two and three events reach every combination of
  empty, part full, full and overflowing, with and without an event in the
  worker's hands, before and after the close. One kept row of three makes the
  limit take one row while another arrives, and two; the purge by age leaves gaps
  between ids. Restarts and crashes are not bounded. What must hold for every
  capacity and limit is proved (section 5).
* *Gateway.* Requests interact only through the configuration (and counters, of
  which nothing is claimed), and the configuration changes freely, so one request
  against arbitrary changes covers the verdicts. The two inputs make the low
  threshold reachable by either finding and the high one only by both, and
  have two findings of one family. Configuration changes are not bounded.
* *Brute force.* Three windows of time let an address go idle, be swept by
  another and come back, with attempts exactly one window old; four attempts
  exceed a limit of one twice over. `MaxTicks` and `MaxAttempts` are the bounds;
  the clock may be set back any number of times.
* *Notifier.* With batches of two, three alerts reach a full batch, one left over,
  and a drain that grows a batch beyond its size; webhook changes and ticks are
  not bounded.
* *Settings.* `MaxRequests` (3) bounds the requests: two that overlap and one that
  runs alone before, between or after. Restarts are not bounded.
* *Router.* `MaxChanges` and `MaxId` (2) bound the writes; reloads are not
  bounded. Two spellings of one host make two rows claim it.
* *Admin.* Three requests: two that overlap, and one before or after. One tick of
  the clock and tokens that last no tick make a token expire; starts, with rows
  that cannot be read or saved, are not bounded.
* *Inspection.* Texts of four symbols reach every pair of adjacent tokens inside
  and outside a string, an escape at the end included; the longer ones reach each
  signature. Requests do not interact here, so one at a time is served.
* *Queries.* Two rows, inserted at any of three instants: inside a minute, at the
  end of the window of an hour, and after it. With one address or path listed and
  one row kept, every limit is reached. One query of a report may fail.

Deadlock is checked except in `notifier`: the process may end, and is not started
again there. Every module with proofs has a type
invariant, from which they start (`TypeOK`; for `EventQueries`, `TableOK` and
`ReportOK` beside its proofs); no run spends its time on it.

## 4. Fairness

`EventLog!FairSpec`: the worker goroutine is scheduled and an `Exec` returns, with
success or an error (`WF` of the worker's step); the sleep of `Close` ends; main
returns. Requests, signals, crashes and restarts never have to come, and no
fairness favours one case of a `select`.

`Notifier!FairSpec`: the worker is scheduled and its calls return (the analysis
has a timeout of 18 s, a post of 5 s); the ticker ticks. Nothing is assumed of
the administrator or of new alerts.

`Router!FairSpec`: the ticker ticks; a listing that has succeeded is installed;
and a reload that is retried for ever succeeds sometimes (`SF` of `ListApps`),
without which a database that is down for good leaves the old table in place,
as the code intends.

`Gateway`, `Settings`, `Admin`, `Inspection`, `EventQueries` and `BruteForce` are
straight-line code that waits for nothing but a lock held for an assignment; no
liveness is stated of them.

## 5. Proofs

Eight modules of theorems, each for every value of the constants. Every one says
that its types are an invariant (`TypeCorrect`, and `TableWellFormed` for
`EventQueries`); the others state, under a name of their own, the property of a
run:

| module | theorems | for every |
|---|---|---|
| `EventLogProofs` | `EventsAccounted`, `RowsOrdered`, `NewestKept`, `DrainIsComplete`, `LogRefines` | set of events, capacity, row limit |
| `RouterProofs` | `UndisturbedRouted` | set of handlers, hosts, applications |
| `GatewayProofs` | `VerdictsInForce`, `BanHolds`, `StoriesAgree` | number of requests at once, inputs, families, thresholds |
| `SettingsProofs` | `SavedInForce`, `FamiliesStayOn`, `UncrossedSurvives`, `AlertsFollow`, `AnalysesFollow`, `KeyKept` | number of overlapping requests, bodies, versions, failures |
| `AdminProofs` | `RequestsEntitled`, `SessionsNeedAccount`, `AccountKept`, `SessionsKept` | number of clients, passwords, lifetime of a token |
| `NotifierProofs` | `AllReported`, `IncidentsComplete`, `BatchesBounded`, `PostsOnce`, `DrainIsComplete` | set of alerts and addresses, capacity, size of a batch |
| `BruteForceProofs` | `NoReportWithoutCause`, `ReportsAreExact`, `ForgetsOnlyExpired`, `MemoryBounded` | number of requests at once, addresses, window, limit, clock |
| `EventQueriesProofs` | `UndisturbedReportsAgree`, `LaterPartsCover`, `LevelsHaveCauses`, `ListsAreHonest` | table, contents, scores, clock, retention, length of the lists, volumes that raise the threat |

`PROJECT.json` says which property each states. `LogRefines` is the refinement:
`EventLog` implements `LossyLog`. `NewestKept`, `SessionsKept` and `KeyKept` are
about steps; the others are invariants.

Assumptions. They are those of the models, named in them, and TLC evaluates them
on the instances. Sizes and limits are positive numbers where the code's are
(`Cap`, `Batch`, the lists of `EventQueries`; `MaxRows`, `RetentionSec`, `Window`
and `Limit` may be 0). The rest says that constants have the types Go gives them: `RouterAssumption` (a host is a function
of a domain, bodies have their fields), `GatewayAssumption` (findings come in a
sequence, severities are naturals), `AdminAssumption`, and in `Settings` that the
configured threshold is positive (`Load` replaces any other) and a body is a sequence
of changes whose values are of the field's type (`BodyAssumption`: the JSON decoder
answers 400 to any other). In `EventQueries`, a request that is not allowed has
a category (its finding's), a row has finitely many, and the timeline asked for
has at most the 1000 rows `TimelineByIP` grants (the handler asks for 300). No
other constant is assumed finite and the bounds of the runs (`MaxRequests`,
`MaxChanges`, ...) are any numbers. The configured mode is any string: `Load` only
replaces an empty one. Nothing is assumed of how long the two `Close` sleep.

None of the properties is inductive. What is, and why:

* *Event log.* `LogInv` ties tickets to the queue: the waiting events are numbered
  consecutively up to `tickets`, so the event in hand is newer than every row.
  `CountInv` says that while the limit on the number of rows deletes, what it chose
  to keep is still there: inserted rows only have greater ids. `DrainInv` says that
  the worker drains only after the close, and that nothing accepted before is left
  when it returns. The refinement
  goes through one lemma (`StepEffects`) on what each action does to the waiting
  events and to the table.
* *Router.* `RInv` adds to `UndisturbedMeansRouted`, which speaks of reloads that
  have ended, what holds before: while a reload is sure, every listing that waits to
  be installed is of what it was started to install, or newer. New listings include everything written before them,
  so no install can take the routing table back.
* *Gateway.* `InForce` follows a request through its locks: what is in force now is in
  the history of every request under judgement; what it has read was in force
  at some moment of it; each finding filtered so far was kept or dropped as some
  moment says. A change of the configuration only adds to those histories, so it
  can disturb none of this. `Story` says, step by step, who has been told of the
  verdict, and how often.
* *Settings.* Five invariants on what a request is about to do. `SavedInv`: a row about
  to be saved holds a value memory has had. `OffInv`: no row switches off a family
  no administrator did. `AloneInv`: for a key that no two requests have set at
  once, at most one request is about to save it, with memory's value, and if none
  is, the table agrees with memory. `AlertsInv` and `AnalysesInv`: the request
  about to push pushes what the settings say. `KeyInv`, for the key of the language
  model: while memory has none, none is about to be saved or in the table; with
  `SavedHolds`, that a request only saves what memory held, it leaves an overlap as
  the one way to erase a key.
* *Admin.* `EntitledInv`: the account of the moment is among those each running
  request has seen, so a hash that is compared was in force during the request.
  `AccountInv`: an account in memory is in the table, or about to be, or lost to an
  error. `SurvivalInv` and `SecretInv` do the same for the last password and for
  the secret.
* *Notifier.* `Types` adds that a flush has alerts to report; `Posted` which messages
  about the current incident are out already, and that those before it follow the
  incidents; `Covered` that the incidents' alerts, joined, are those reported;
  `DrainInv` that the last flush covers what was accepted before the close. `Blocked` is `flush`'s counting loop; the
  proof shows that it counts.
* *Brute force.* `Traced`: each list of times in the map is, in order, a list of
  attempts of its address, the latest one among them; and while the history is in
  the order of time, no attempt that still counts is missing. Hence an attempt's
  list injects into its window, and in order is in bijection with it (`CountsWindow`).
  `Recent` is the loop that trims; that it keeps what it should is a lemma
  (`RecentFilters`).

* *Queries.* `Inv` has five parts. `TableOK`: finitely many rows with ids of their
  own. `ReportOK`: a part that was not asked for is not there. `ThreatOK`: the
  threat is that of some finite set of rows, from which its level follows by
  arithmetic on the sum of the scores (`LevelOfScores`). `Fresh`: as long as
  nothing has moved since the series was read, each part is what its query would
  answer now, so a report is judged as if it were read at once. `Covered`: as
  long as nothing was purged, the table counts at least what the series does, and
  so did it when the later parts were read. What remains is one lemma per query:
  the buckets partition the rows that are not dated after the clock (`SeriesExact`),
  the categories count each attack at least once (`CategoriesCount`), a list of
  addresses counts none twice (`TopIPsCount`) and keeps one with attacks
  (`CutNotEmpty`). The two lists of events are the sorted sequence of a set
  (`ByIdIs`, which also shows that there is one), cut at an end.

Loops over data (`Blocked`, `Recent`, the joined alerts) are recursive functions.
The prover has no induction with an operator as a parameter; the lemmas about them
take the least index at which they fail, from the well-foundedness of `<` on the
naturals (`LeastNatural`). Sums over a set are folds of the community modules; the
lemmas about them (`SumStep`, `SumMonotonic`, `SumBound`, `CountByKey`) take a
smallest set for which they fail (`SmallestSet`), and begin by showing that the
fold's `CHOOSE` defines something on every finite set (`SumsExist`).

What proving changed. `KeyNeverErased` was stated too strongly: with an address
but no key in the environment, a start that cannot read the key's row goes on without
the key, and the next change of another field saves the empty one. TLC
confirmed it once the instance had such an environment; the property now excuses
a key whose row could not be read or saved, before the step or by it. It also
excuses requests that overlap in a process that has held no key: one sets and
saves a key, another, which kept the empty one before, saves that after it. The levels
of the threat were a `CASE` whose conditions overlap, as in the `switch` of the
code, which takes the first: TLC does too, but in TLA+ the value is open, and the
proof could not go on; `LevelOf` has disjoint conditions. And `ListsHonest` is
false of a timeline longer than `TimelineByIP` grants, where the code falls back
to 300 rows: hence the condition on `TimelineLimit`.

Only model-checked: liveness (`EventuallyServed`, `EventuallyReported`,
`Converges`), which is out of the prover's reach; and `Inspection`, whose
properties say what the lexer of `SQLSemantic`, recursive over texts, makes of
every text: an induction over data.

## 6. Disagreements found

* `inspection_comments`: "On voit ainsi à travers l'obfuscation (UN/**/ION, casse,
  espaces)" (`semantic_sql.go:12`, and `docs/ARCHITECTURE.md:84`): a space is put
  for the comment, the word is two names, and the union is not found. What is left
  is the comment itself (3 points, under the threshold of 4 there is by default).
  Comments between words do hide nothing: `CommentsHideNothing`, in `inspection`.
* `settings_race`: setters save after releasing the lock, so two overlapping
  requests may leave an older value in the table than in memory. What does hold,
  for any number of overlaps, is in the run `settings`.
* `settings_snapshot`: `enabled_categories` lists every family, also those
  switched off; the console computes its next list from it.

No run is kept for four others. "Close vide la file restante et arrête le worker"
(`slack.go:509`) and "laisse la vidange se terminer" (`storage.go:380`): each
`Close` sleeps a fixed time (200 and 100 ms) and goes on, while a flush may take
seconds and a thousand inserts more than the sleep. The models' sleeps wait for
nothing, and what is claimed is the part the worker answers for
(`DrainReportsEarlierAlerts`, `DrainServesEarlierEvents`). An emptied webhook is
replaced by the environment's at the next start ("vide = désactive",
`slack.go:116`). The series of a report has one point more than `rangeParams`
says (61 for an hour, "-> 60 points", `storage.go:566`), as both ends of the
window have their bucket.

Behaviours worth knowing, which no text of the repository excludes. The
mode and the threshold of one verdict may come from two configurations that were
never in force together (`PoliciesOf` in `Gateway` allows it). A destination
cleared during a flush may still get that flush's message. An application added
through the API may vanish from the routing table, after the API has answered,
until the next refresh, if a reload that had listed the table before the
addition installs its result after; `UndisturbedMeansRouted` says when it cannot,
and that the next undisturbed tick puts it right.
Two requests that change the language model at once can undo each other's
fields, as each writes all of them back. A new password lets a client log in before it is saved: after a stop in between,
the old one (or none) is back, and the new token still valid. Two setups at once
may both be told they created the account; only one password is in force. The
timeline of an address with more than 300 events sums up the oldest 300, its
"last seen" included. A tautology weighs 4 or 5 points by the order in which the
parameters come out of a map. The properties about these (`AccountSurvives`,
`NoSessionWithoutAccount`, `SessionsLast`, `KeyNeverErased`, `ScoreOrderFree`)
except them by name (*crossed*, *unsaved*, *lost*, one point) and exclude
everything else.

## 7. What is not modelled

* Regular expressions (XSS, rules): what they find in a text is given with it.
  Cryptography: a hash is its password, a token its secret and expiry. The layout
  of payloads, pages and answers.
* `ForwardedWasInspected` does not speak of texts encoded more than twice, nor of
  queries with an escape that cannot be decoded: `decode` gives those up and the
  detectors see them encoded. A body that is no form and holds one `=` is
  inspected in two halves, and is outside that property too.
* `ListIncidents`, the language model's test call, the last analysis a report
  passes on: reads that change nothing and relate to nothing else.
* `Load` of the configuration and the environment: straight-line code whose
  results are the constants of the other modules.
* The three components closed in `main`'s order, with handlers still running: each
  accepts calls after its own close, in its own module, but they are not composed.
* The console, a page that polls the API; the attack lab, a demonstration site.
* A gateway started without a database (`store == nil`): saves and events are
  then simply ignored. Only then are the counters of `ServeHTTP` shown
  (`/_sentinel/stats`); `Gateway` has them, and no property of them.
* A crash between PostgreSQL's commit and its answer: to the table it is an
  insertion followed by a crash, which is modelled.
* What the brute-force detector owes when attempts pass the lock out of order:
  the sweep looks at the attempt recorded last, not at the newest, so an address
  can lose an attempt that is still in the window. `OnlyExpiredForgotten` states
  what does hold; `ReportsExactly` asks for exact counts only in order.

## 8. Plan

What a next version would add, the most useful first:

1. Lemmas about operators: `dedupe` and `Keep` of `Inspection`.
2. Abstract specifications: a verdict given at once under one configuration, for
   `Gateway`; an atomic register, for the undisturbed part of `Settings`.
3. `Shutdown`: server, notifier and event log composed in the order `main` stops
   them.
