---------------------------- MODULE EventQueries ----------------------------
(***************************************************************************)
(* internal/storage/storage.go: what the console reads of the event log.   *)
(* Recent, TimelineByIP and Stats are one SQL query each and see the table *)
(* at one moment.  Analytics puts a report together from seven queries     *)
(* that share no transaction: rows are inserted and purged, and the clock  *)
(* of the database moves, between two of them.  A query that fails leaves  *)
(* its part out of the report, or the scores at zero.                      *)
(*                                                                         *)
(* The table changes as EventLog describes: one worker inserts, a purge    *)
(* applies the two limits.  `report.since` is a history variable: what     *)
(* happened to the table since the time series was read.  Averages are     *)
(* exact fractions where the code has floating-point numbers.              *)
(***************************************************************************)
EXTENDS Integers, Sequences, FiniteSetsExt, SequencesExt

CONSTANTS Content,       \* what is logged: app, ip, path, verdict, score, cats
          Ranges,        \* the ranges the console asks for
          Clock,         \* instants the clock may show
          MaxId,         \* bound on the rows ever inserted
          MaxFailures,   \* bound on the queries of a report that fail
          RetentionSec,  \* retentionDays, in seconds; 0 for no limit
          MaxRows,       \* retentionMaxRows; 0 for no limit
          TimelineLimit, \* rows of a timeline (300 in the handler)
          Top,           \* addresses and paths listed (8 in Analytics)
          Several, Many  \* volumes of attacks that raise the threat (5, 20)

ASSUME ContentAssumption ==
  \A c \in Content : /\ c.verdict \in {"allowed", "detected", "blocked"}
                     /\ c.score \in Nat
                     /\ IsFiniteSet(c.cats)
                     /\ c.verdict /= "allowed" => c.cats /= {}
ASSUME ThreatAssumption == Several \in Nat /\ Many \in Nat /\ Several < Many
ASSUME RetentionAssumption == RetentionSec \in Nat /\ MaxRows \in Nat
ASSUME LimitAssumption == /\ {TimelineLimit, Top} \subseteq Nat \ {0}
                          /\ TimelineLimit <= 1000  \* what TimelineByIP grants
ASSUME ClockAssumption == Clock \subseteq Nat /\ Clock /= {}

VARIABLES now,     \* the database's clock, in seconds
          events,  \* the table: the rows it holds
          nextId,  \* its sequence
          report   \* the Analytics request under way, or the last answer

vars == <<now, events, nextId, report>>

AppFilter == {""} \cup {c.app : c \in Content}

\* WHERE app = $1, left out for the empty name.
Of(app) == {r \in events : app = "" \/ r.app = app}

Attacks(S) == {r \in S : r.verdict \in {"blocked", "detected"}}

\* COUNT(*) and the three COUNT(*) FILTER (WHERE verdict = ...).
Tally(S) ==
  LET Count(v) == Cardinality({r \in S : r.verdict = v})
  IN [total |-> Cardinality(S), blocked |-> Count("blocked"),
      detected |-> Count("detected"), allowed |-> Count("allowed")]

-----------------------------------------------------------------------------
(* The queries that see the table once.                                     *)

Limit(n, max, default) == IF n <= 0 \/ n > max THEN default ELSE n

\* ORDER BY id.
ById(S) ==
  CHOOSE s \in [1 .. Cardinality(S) -> S] :
    \A i, j \in DOMAIN s : i < j => s[i].id < s[j].id

FirstRows(s, n) == SubSeq(s, 1, IF n < Len(s) THEN n ELSE Len(s))

\* ORDER BY id DESC LIMIT n.
Recent(n, app) == FirstRows(Reverse(ById(Of(app))), Limit(n, 500, 100))

From(ip) == {r \in events : r.ip = ip}

\* Mutant: the newest rows are kept when there are too many.
TimelineNewest(ip, n) ==
  LET list == Reverse(FirstRows(Reverse(ById(From(ip))), Limit(n, 1000, 300)))
  IN [events |-> list, tally |-> Tally(ToSet(list)),
      max |-> Max({0} \cup {r.score : r \in ToSet(list)}),
      seen |-> IF list = <<>> THEN <<>> ELSE <<list[1].ts, Last(list).ts>>]

\* ORDER BY id ASC LIMIT n: the oldest rows of the address are those listed,
\* and the summary is theirs.
TimelineByIP(ip, n) ==
  LET list == FirstRows(ById(From(ip)), Limit(n, 1000, 300))
  IN [events |-> list, tally |-> Tally(ToSet(list)),
      max |-> Max({0} \cup {r.score : r \in ToSet(list)}),
      seen |-> IF list = <<>> THEN <<>> ELSE <<list[1].ts, Last(list).ts>>]

\* Mutant: the verdicts are counted over the period of the report.
StatsOfPeriod(app) == Tally({r \in Of(app) : r.ts > now - 3600})

Stats(app) == Tally(Of(app))

-----------------------------------------------------------------------------
(* Analytics.                                                               *)

\* The window (0: all the history) and the bucket of a range, in seconds.
rangeParams(rng) ==
  CASE rng = "24h" -> [window |-> 86400, bucket |-> 900]
    [] rng = "72h" -> [window |-> 259200, bucket |-> 3600]
    [] rng = "7d"  -> [window |-> 604800, bucket |-> 10800]
    [] rng = "30d" -> [window |-> 2592000, bucket |-> 86400]
    [] rng = "all" -> [window |-> 0, bucket |-> 86400]
    [] OTHER       -> [window |-> 3600, bucket |-> 60]

\* The clauses on the application and on the time, now.
Period(app, rng) ==
  LET w == rangeParams(rng).window
  IN {r \in Of(app) : w = 0 \/ r.ts > now - w}

Floor(t, b) == (t \div b) * b

\* Mutant: the series stops before the bucket that is not over.
TimeSeriesEndsEarly(app, rng) ==
  LET p == rangeParams(rng)
      first == Floor(now - p.window, p.bucket)
      BucketOf(r) == Floor(r.ts, p.bucket)
      shown == IF p.window > 0
                 THEN {first + i * p.bucket :
                       i \in 0 .. (now - first) \div p.bucket - 1}
                 ELSE {BucketOf(r) : r \in Period(app, rng)}
  IN [ep \in shown |-> Tally({r \in Period(app, rng) : BucketOf(r) = ep})]

\* Every bucket from that of the window's start to that of now, empty ones
\* included; for all the history, the buckets that have rows.
TimeSeries(app, rng) ==
  LET p == rangeParams(rng)
      first == Floor(now - p.window, p.bucket)
      BucketOf(r) == Floor(r.ts, p.bucket)
      shown == IF p.window > 0
                 THEN {first + i * p.bucket :
                       i \in 0 .. (now - first) \div p.bucket}
                 ELSE {BucketOf(r) : r \in Period(app, rng)}
  IN [ep \in shown |-> Tally({r \in Period(app, rng) : BucketOf(r) = ep})]

\* unnest of the lists of categories, whatever the verdict.
ByCategory(app, rng) ==
  LET S == Period(app, rng)
  IN [c \in UNION {r.cats : r \in S} |-> Cardinality({r \in S : c \in r.cats})]

\* ORDER BY ... LIMIT Top: the choices among equals are the database's.
TopOf(S, Before(_, _)) ==
  {T \in SUBSET S : /\ Cardinality(T) = Min({Top, Cardinality(S)})
                    /\ \A s \in S \ T, t \in T : ~Before(s, t)}

TopIPs(app, rng) ==
  LET S == Period(app, rng)
      Line(ip) == [ip |-> ip,
                   total |-> Cardinality({r \in S : r.ip = ip}),
                   attacks |-> Cardinality({r \in Attacks(S) : r.ip = ip})]
  IN TopOf({Line(r.ip) : r \in S},
           LAMBDA a, b : \/ a.attacks > b.attacks
                         \/ a.attacks = b.attacks /\ a.total > b.total)

TopPaths(app, rng) ==
  LET S == Attacks(Period(app, rng))
  IN TopOf({[path |-> r.path, count |-> Cardinality({q \in S : q.path = r.path})] :
            r \in S},
           LAMBDA a, b : a.count > b.count)

LevelOf(gauge) == CASE gauge \in 70 .. 100 -> "critique" [] gauge \in 40 .. 69 -> "eleve"
                    [] gauge \in 15 .. 39 -> "modere"    [] OTHER -> "faible"

\* Mutant: both bonuses are given to a large volume.
LevelBothBonuses(sum, n) ==
  LET bonus == (IF n > Many THEN 15 ELSE 0) + (IF n > Several THEN 8 ELSE 0)
      gauge == IF n = 0 THEN 0 ELSE Min({100, (10 * sum + bonus * n) \div n})
  IN [gauge |-> gauge, level |-> LevelOf(gauge)]

\* The average score sum / n on 100, more for a large volume, and its level.
\* The thresholds are whole, so comparing the truncated gauge is the same.
Level(sum, n) ==
  LET bonus == IF n > Many THEN 15 ELSE IF n > Several THEN 8 ELSE 0
      gauge == IF n = 0 THEN 0 ELSE Min({100, (10 * sum + bonus * n) \div n})
  IN [gauge |-> gauge, level |-> LevelOf(gauge)]

\* The average is given with one decimal: avg10 is ten times it.
Threat(S) ==
  LET sum == SumFunction([r \in S |-> r.score])
      n == Cardinality(S)
  IN [attacks |-> n,
      max |-> Max({0} \cup {r.score : r \in S}),
      avg10 |-> IF n = 0 THEN 0 ELSE (20 * sum + n) \div (2 * n),
      level |-> Level(sum, n)]

NoReport == [pc |-> "none", app |-> "", rng |-> "", since |-> {}, failed |-> 0,
             timeseries |-> <<>>, by_category |-> <<>>, top_ips |-> <<>>,
             top_paths |-> <<>>, verdicts |-> <<>>, threat |-> <<>>]

Init ==
  /\ now \in Clock
  /\ events = {}
  /\ nextId = 1
  /\ report = NoReport

Analytics(app, rng) ==
  /\ report.pc \in {"none", "answered"}
  /\ report' = [NoReport EXCEPT !.pc = "timeseries", !.app = app, !.rng = rng]
  /\ UNCHANGED <<now, events, nextId>>

\* What the report becomes when the query of one of its parts is over: the
\* part is <<>> when that query failed.
Answered(part, values, next) ==
  \/ \E v \in values : report' = [report EXCEPT ![part] = <<v>>, !.pc = next]
  \/ /\ report.failed < MaxFailures
     /\ report' = [report EXCEPT !.pc = next, !.failed = @ + 1]

QueryTimeSeries ==
  /\ report.pc = "timeseries"
  /\ \E part \in {<<TimeSeries(report.app, report.rng)>>}
                   \cup {<<>> : f \in report.failed + 1 .. MaxFailures} :
       report' = [report EXCEPT !.timeseries = part, !.pc = "by_category",
                                !.since = {}, !.failed = @ + 1 - Len(part)]
  /\ UNCHANGED <<now, events, nextId>>

QueryByCategory ==
  /\ report.pc = "by_category"
  /\ Answered("by_category", {ByCategory(report.app, report.rng)}, "top_ips")
  /\ UNCHANGED <<now, events, nextId>>

QueryTopIPs ==
  /\ report.pc = "top_ips"
  /\ Answered("top_ips", TopIPs(report.app, report.rng), "top_paths")
  /\ UNCHANGED <<now, events, nextId>>

QueryTopPaths ==
  /\ report.pc = "top_paths"
  /\ Answered("top_paths", TopPaths(report.app, report.rng), "verdicts")
  /\ UNCHANGED <<now, events, nextId>>

QueryVerdicts ==
  /\ report.pc = "verdicts"
  /\ Answered("verdicts", {Stats(report.app)}, "threat")
  /\ UNCHANGED <<now, events, nextId>>

\* The scores are those of no attack at all when the query fails.
QueryThreat ==
  /\ report.pc = "threat"
  /\ \E S \in {Attacks(Period(report.app, report.rng))}
               \cup {{} : f \in report.failed + 1 .. MaxFailures} :
       report' = [report EXCEPT !.threat = <<Threat(S)>>, !.pc = "answered"]
  /\ UNCHANGED <<now, events, nextId>>

-----------------------------------------------------------------------------
(* Meanwhile.                                                               *)

Noted(what) == [report EXCEPT !.since = @ \cup {what}]

Insert(c) ==
  /\ nextId <= MaxId
  /\ events' = events \cup {[id |-> nextId, ts |-> now, app |-> c.app, ip |-> c.ip,
                             path |-> c.path, verdict |-> c.verdict,
                             score |-> c.score, cats |-> c.cats]}
  /\ nextId' = nextId + 1
  /\ report' = Noted("insert")
  /\ UNCHANGED now

PurgeByAge ==
  /\ RetentionSec > 0
  /\ \E r \in events : r.ts < now - RetentionSec
  /\ events' = {r \in events : r.ts >= now - RetentionSec}
  /\ report' = Noted("purge")
  /\ UNCHANGED <<now, nextId>>

PurgeByCount ==
  /\ MaxRows > 0
  /\ Cardinality(events) > MaxRows
  /\ events' = {r \in events :
                  Cardinality({q \in events : q.id >= r.id}) <= MaxRows}
  /\ report' = Noted("purge")
  /\ UNCHANGED <<now, nextId>>

\* Time passes, or the wall clock is set back.
ClockMoves ==
  /\ now' \in Clock \ {now}
  /\ report' = Noted("clock")
  /\ UNCHANGED <<events, nextId>>

Next ==
  \/ \E app \in AppFilter, rng \in Ranges : Analytics(app, rng)
  \/ QueryTimeSeries \/ QueryByCategory \/ QueryTopIPs
  \/ QueryTopPaths \/ QueryVerdicts \/ QueryThreat
  \/ \E c \in Content : Insert(c)
  \/ PurgeByAge \/ PurgeByCount \/ ClockMoves

Spec == Init /\ [][Next]_vars

-----------------------------------------------------------------------------
(* Properties.                                                              *)

Total(series, f) == SumFunction([ep \in DOMAIN series |-> series[ep][f]])

\* A report built while nothing moved is of one piece: every row of the
\* period is in one bucket of its series, except one dated after the clock,
\* and the addresses, paths, categories and scores agree with that series
\* (Analytics, its window and bucket arithmetic, the joins and the limits).
UndisturbedReportAgrees ==
  LET rep == report
      S == Period(rep.app, rep.rng)
  IN rep.timeseries /= <<>> /\ rep.since = {} =>
       LET ts == rep.timeseries[1]
           attacks == Total(ts, "blocked") + Total(ts, "detected")
       IN \/ \E r \in S : r.ts > now
          \/ /\ Total(ts, "total") = Cardinality(S)
             /\ Total(ts, "total") = attacks + Total(ts, "allowed")
             /\ rep.by_category /= <<>> =>
                  attacks <= SumFunction(rep.by_category[1])
             /\ rep.top_ips /= <<>> =>
                  /\ SumFunction([l \in rep.top_ips[1] |-> l.attacks]) <= attacks
                  /\ attacks > 0 => \E l \in rep.top_ips[1] : l.attacks > 0
             /\ rep.top_paths /= <<>> =>
                  (attacks > 0) = (rep.top_paths[1] /= {})
             /\ rep.threat /= <<>> =>
                  rep.threat[1].attacks \in {0, attacks}

\* Whatever is logged during a report and however the clock moves, the
\* verdicts (of all the history) cover those of the series read before them,
\* unless a purge came in between; so do the scores, for all the history.
LaterPartsCoverSeries ==
  LET ts == report.timeseries[1]
  IN report.timeseries /= <<>> /\ "purge" \notin report.since =>
       /\ report.verdicts /= <<>> =>
            \A f \in {"total", "blocked", "detected", "allowed"} :
              Total(ts, f) <= report.verdicts[1][f]
       /\ report.threat /= <<>> /\ report.rng = "all" =>
            \/ report.threat[1].attacks = 0
            \/ Total(ts, "blocked") + Total(ts, "detected")
                 <= report.threat[1].attacks

\* The gauge stays on its scale and its level has a cause among the scores:
\* no attack is "faible", and the volume alone, without an attack of some
\* gravity, makes no period "eleve" or "critique".
LevelHasCause ==
  \A t \in ToSet(report.threat) :
    /\ t.level.gauge \in 0 .. 100
    /\ t.attacks = 0 => t.level = [gauge |-> 0, level |-> "faible"]
    /\ t.level.level = "critique" => t.max >= 6
    /\ t.level.level = "eleve" => t.max >= 3
    /\ t.max >= 10 /\ t.attacks = 1 => t.level.level = "critique"

\* The timeline begins at the first row kept of its address, in the order of
\* insertion, and what it sums up is true of all the rows of that address as
\* long as they are no more than its limit (TimelineByIP).
TimelineHonest ==
  \A ip \in {c.ip : c \in Content} :
    LET own == From(ip)
        tl == TimelineByIP(ip, TimelineLimit)
    IN /\ \A r \in own : r.id < Last(tl.events).id => r \in ToSet(tl.events)
       /\ own /= {} =>
            \E r \in own : r.ts = tl.seen[1] /\ \A q \in own : r.id <= q.id
       /\ Cardinality(own) <= TimelineLimit =>
            /\ tl.tally = Tally(own)
            /\ \A r \in own : r.score <= tl.max
            /\ own /= {} =>
                 \E r \in own : r.ts = tl.seen[2] /\ \A q \in own : r.id >= q.id

\* Recent lists the newest rows of the application, the newest first, however
\* the clock was set when they were inserted (Recent, /_sentinel/events).
RecentIsNewest ==
  \A app \in AppFilter, n \in {0, 1, 2, 501} :
    LET list == Recent(n, app)
    IN /\ IsSorted(list, LAMBDA a, b : a.id >= b.id)
       /\ ToSet(list) \subseteq Of(app)
       /\ \A r \in Of(app) \ ToSet(list) :
            /\ Len(list) = Limit(n, 500, 100)
            /\ \A q \in ToSet(list) : r.id < q.id

\* The two lists of events the console shows, the session of an address and
\* the latest events, are cut at the ends their queries say, whatever order
\* the clock gave the rows and whatever was purged.
ListsHonest == TimelineHonest /\ RecentIsNewest
=============================================================================
