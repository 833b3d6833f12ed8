----------------------------- MODULE Inspection -----------------------------
(***************************************************************************)
(* From a request to its findings: internal/parser/parser.go takes the     *)
(* values to inspect out of it, and internal/detector runs a chain of five *)
(* detectors on them.  Go iterates over a map of parameters in any order,  *)
(* so the values come in any order, and the chain keeps the first finding  *)
(* of each identifier.                                                     *)
(*                                                                         *)
(* A text is [sym, marks, level, bad]: its symbols (see SQLSemantic), the  *)
(* patterns other detectors find in it, how many times it is URL-encoded,  *)
(* and whether it holds an escape that cannot be decoded.  Detectors find  *)
(* nothing in a text that is still encoded (PATH-003 would find the        *)
(* encoding itself).  A query is a sequence of texts, one per parameter,   *)
(* and so is a body, which may also be no form.                            *)
(* The families switched off are filtered later: see Gateway.              *)
(***************************************************************************)
EXTENDS SQLSemantic, SequencesExt

CONSTANTS Request,   \* [query, body, form, path, agent, hammering]
          MaxBody    \* how many parameters of a body the limit lets through

ASSUME MaxBodyAssumption == MaxBody \in Nat
ASSUME RequestAssumption ==
  \A r \in Request :
    /\ ~r.form => Len(r.body) <= 1
    /\ \A p \in ToSet(r.query \o r.body) : p.level = 0 => ~Contains(p.sym, "&")

VARIABLES pc,        \* "idle", "parse", a detector of the chain, or "done"
          request,   \* the request being served
          forwarded, \* its body, as the upstream will read it
          values,    \* what is inspected, in order
          findings   \* identifier -> severity

vars == <<pc, request, forwarded, values, findings>>

NoFinding == [id \in {} |-> 0]

-----------------------------------------------------------------------------
(* parser.go                                                                *)

\* Two rounds, the second when the first succeeds.
decode(v) == IF v.bad THEN v ELSE [v EXCEPT !.level = Max({@ - 2, 0})]

\* The key of a parameter stands for a plain name.
Key == [sym |-> <<"name">>, marks |-> {}, level |-> 0, bad |-> FALSE]

NoRequest == [query |-> <<>>, body |-> <<>>, form |-> FALSE, path |-> Key,
              agent |-> {}, hammering |-> FALSE]

\* A query or a body as it is written: name=text&name=text.
Raw(ps) ==
  [sym |-> FlattenSeq([i \in 1 .. Len(ps) |->
             (IF i > 1 THEN <<"&">> ELSE <<>>) \o <<"name", "=">> \o ps[i].sym]),
   marks |-> UNION {p.marks : p \in ToSet(ps)},
   level |-> Max({0} \cup {p.level : p \in ToSet(ps)}),
   bad |-> \E p \in ToSet(ps) : p.bad]

\* url.ParseQuery refuses a parameter with a ';' or an escape it cannot decode.
Refused(p) == p.bad \/ (p.level = 0 /\ Contains(p.sym, ";"))

\* The keys and the values of parameters that are parsed, in any order.
Parsed(ps) ==
  {FlattenSeq([i \in DOMAIN order |->
     <<Key, decode([order[i] EXCEPT !.level = Max({@ - 1, 0})])>>]) :
   order \in SetToSeqs({p \in ToSet(ps) : ~Refused(p)})}

\* Mutant: the parameters alone, without the query as a whole.
QueryValuesParsed(q) == Parsed(q)

QueryValues(q) ==
  IF q = <<>> THEN {<<>>} ELSE {<<decode(Raw(q))>> \o s : s \in Parsed(q)}

\* What a body is when it is no form, and holds no '&': a single '=' has it
\* parsed as one parameter all the same.
Halves(t) ==
  LET at == CHOOSE i \in DOMAIN t.sym : t.sym[i] = "="
      Half(sym) == decode([t EXCEPT !.sym = sym, !.level = Max({@ - 1, 0})])
  IN <<Half(SubSeq(t.sym, 1, at - 1)), Half(SubSeq(t.sym, at + 1, Len(t.sym)))>>

\* How many '=' are written in a text, encoded ones left out.
Equals(t) ==
  IF t.level > 0 THEN 0 ELSE Cardinality({i \in DOMAIN t.sym : t.sym[i] = "="})

\* Parsed when it has '=' and either '&' or a single '=', and taken as a whole
\* otherwise, or when the parser refuses one of its parameters.
BodyValues(b, form) ==
  LET refused == \E p \in ToSet(b) : Refused(p)
  IN CASE b = <<>> -> {<<>>}
       [] b /= <<>> /\ form ->
            IF ~refused /\ (Len(b) > 1 \/ Equals(b[1]) = 0)
              THEN Parsed(b) ELSE {<<decode(Raw(b))>>}
       [] b /= <<>> /\ ~form ->
            {IF ~refused /\ Equals(b[1]) = 1 THEN Halves(b[1])
               ELSE <<decode(b[1])>>}

\* The first occurrence of each value that is not empty.
dedupe(s) ==
  FoldLeft(LAMBDA out, v : IF v.sym = <<>> \/ Contains(out, v) THEN out
                             ELSE Append(out, v), <<>>, s)

Init ==
  /\ pc = "idle"
  /\ request = NoRequest
  /\ forwarded = <<>>
  /\ values = <<>>
  /\ findings = NoFinding

ServeHTTP(r) ==
  /\ pc = "idle"
  /\ pc' = "parse"
  /\ request' = r
  /\ UNCHANGED <<forwarded, values, findings>>

\* What was read of the body is what is inspected and what goes upstream.
Parse ==
  /\ pc = "parse"
  /\ LET read == SubSeq(request.body, 1, Min({MaxBody, Len(request.body)}))
     IN /\ forwarded' = read
        /\ \E q \in QueryValues(request.query),
              b \in BodyValues(read, request.form) :
             values' = dedupe(q \o b \o <<decode(request.path)>>)
  /\ pc' = "semantic-sql"
  /\ UNCHANGED <<request, findings>>

-----------------------------------------------------------------------------
(* The chain.  A finding is kept unless its identifier already has one.     *)

\* Mutant: a finding made again adds to the one there is.
KeepAdding(found, f) ==
  [id \in DOMAIN found \cup DOMAIN f |->
     (IF id \in DOMAIN found THEN found[id] ELSE 0)
       + (IF id \in DOMAIN f THEN f[id] ELSE 0)]

Keep(found, f) == found @@ f

OverValues(scan(_)) ==
  FoldLeft(LAMBDA found, v : Keep(found, IF v.level = 0 THEN scan(v) ELSE NoFinding),
           findings, values)

scanXSS(v) ==
  LET handler == "handler" \in v.marks
      tags == v.marks \cap {"dangerous tag", "carrier tag", "tag"}
      severity ==
        ("SEM-XSS-TAG" :> IF "dangerous tag" \in tags THEN 5 ELSE 0)
        @@ ("SEM-XSS-HANDLER" :> IF handler THEN 4 ELSE 0)
        @@ ("SEM-XSS-IMGTAG" :> IF /\ handler
                                   /\ "dangerous tag" \notin tags
                                   /\ "carrier tag" \in tags THEN 4 ELSE 0)
        @@ ("SEM-XSS-PROTO" :> IF "protocol" \in v.marks THEN 4 ELSE 0)
        @@ ("SEM-XSS-DATA" :> IF "data" \in v.marks THEN 4 ELSE 0)
        @@ ("SEM-XSS-BREAK" :> IF /\ "attribute break" \in v.marks
                                  /\ tags /= {} \/ handler THEN 3 ELSE 0)
  IN Found(severity)

\* The rules: what each weighs, and those that look at the User-Agent.
HeurRules ==
  [id \in {"PATH-002", "CMD-001", "SSRF-001", "NOSQL-001", "SCAN-001"} |-> 5]
  @@ [id \in {"PATH-001", "CMD-002", "CMD-003", "SSRF-002", "SSRF-003",
              "NOSQL-002"} |-> 4]
  @@ "PATH-003" :> 3
AgentRules == {"SCAN-001"}

Matched(id) ==
  IF id \in AgentRules
    THEN id \in request.agent
    ELSE \E v \in ToSet(values) : v.level = 0 /\ id \in v.marks

Detect(name, next, found) ==
  /\ pc = name
  /\ pc' = next
  /\ findings' = found
  /\ UNCHANGED <<request, forwarded, values>>

SQL == Detect("semantic-sql", "semantic-xss", OverValues(LAMBDA v : scanSQL(v.sym)))
XSS == Detect("semantic-xss", "heuristics", OverValues(scanXSS))

Heuristics ==
  Detect("heuristics", "sensitive_path",
         Keep(findings, [id \in {r \in DOMAIN HeurRules : Matched(r)} |->
                           HeurRules[id]]))

\* One finding, of the first of the known paths the path contains.
SensitivePath ==
  Detect("sensitive_path", "brute_force",
         IF "sensitive" \in request.path.marks
           THEN Keep(findings, "HEUR-PATH" :> 4) ELSE findings)

\* Whether the address is over the limit is BruteForce's concern.
BruteForce ==
  Detect("brute_force", "done",
         IF request.hammering
           THEN Keep(findings, "HEUR-BRUTEFORCE" :> 5) ELSE findings)

\* The verdict and the answer are Gateway's concern.
Answer ==
  /\ pc = "done"
  /\ pc' = "idle"
  /\ findings' = NoFinding
  /\ values' = <<>>
  /\ forwarded' = <<>>
  /\ request' = NoRequest

Next ==
  \/ \E r \in Request : ServeHTTP(r)
  \/ Parse \/ SQL \/ XSS \/ Heuristics \/ SensitivePath \/ BruteForce \/ Answer

Spec == Init /\ [][Next]_vars

-----------------------------------------------------------------------------
(* Properties.                                                              *)

Infix(s, t) ==
  \E i \in 1 .. Len(t) - Len(s) + 1 : SubSeq(t, i, i + Len(s) - 1) = s

InspectedWhole(p) ==
  \E v \in ToSet(values) :
    v.level = 0 /\ p.marks \subseteq v.marks /\ Infix(p.sym, v.sym)

\* The upstream reads no parameter that was not inspected, in the query or in
\* the body of a form, even one the parser of parameters refuses (a ';' in it)
\* and wherever the body was cut: it was in a value inspected, as a whole and
\* decoded, if it is encoded at most twice and the query (the body) has no
\* escape that cannot be decoded (Parse, extractValues, decode).
ForwardedWasInspected ==
  pc \notin {"idle", "parse"} =>
    \A ps \in {request.query} \cup (IF request.form THEN {forwarded} ELSE {}) :
      (\A p \in ToSet(ps) : ~p.bad /\ p.level <= 2) =>
        \A p \in ToSet(ps) : InspectedWhole(p)

\* Whatever order the parameters come in, a request has the same findings
\* and each weighs what it weighs in the worst of the values, but for a
\* tautology, which may lose the one point between its two forms: the score
\* of a request is the same to one point, and at least that of its worst
\* value less that point (Chain.Inspect, map iteration in extractValues).
ScoreOrderFree ==
  pc = "done" =>
    LET seen == {v \in ToSet(values) : v.level = 0}
        found == {scanSQL(v.sym) : v \in seen} \cup {scanXSS(v) : v \in seen}
        Worst(id) == Max({f[id] : f \in {g \in found : id \in DOMAIN g}})
        ids == UNION {DOMAIN f : f \in found}
    IN /\ ids \subseteq DOMAIN findings
       /\ \A id \in ids : \/ findings[id] = Worst(id)
                          \/ id = "SEM-SQL-TAUTO" /\ findings[id] = Worst(id) - 1
       /\ \A f \in found : Score(findings) >= Score(f) - 1

Commented(t) ==
  FlattenSeq([i \in DOMAIN t |-> IF t[i] = "sp" THEN <<"/*", "*/">> ELSE <<t[i]>>])

\* Comments in place of spaces hide nothing: a text weighs at least as much
\* with them as without.  Comments inside a word are SeesThroughComments.
CommentsHideNothing ==
  pc = "done" =>
    \A v \in ToSet(values) :
      "/*" \notin ToSet(v.sym) =>
        /\ DOMAIN analyzeOnce(v.sym) \subseteq DOMAIN analyzeOnce(Commented(v.sym))
        /\ Score(scanSQL(v.sym)) <= Score(scanSQL(Commented(v.sym)))

InsideWords(t) ==
  FlattenSeq([i \in DOMAIN t |-> IF t[i] = "union" THEN <<"un", "/*", "*/", "ion">>
                                                  ELSE <<t[i]>>])

\* A comment inside a word hides nothing either ("On voit ainsi à travers
\* l'obfuscation (UN/**/ION, casse, espaces)"): what a text shows without
\* comments it shows with them.
SeesThroughComments ==
  pc = "done" =>
    \A v \in ToSet(values) :
      "/*" \notin ToSet(v.sym) =>
        DOMAIN analyzeOnce(v.sym) \subseteq DOMAIN analyzeOnce(InsideWords(v.sym))

\* A sentence is no injection: words and spaces, SQL words among them, weigh
\* nothing in any of the three readings, as long as they do not ask for a
\* union, a delay or a comparison ("une phrase contenant select ou or ne
\* forme aucune structure d'injection").
SentencesAreClean ==
  pc = "done" =>
    \A v \in ToSet(values) :
      ToSet(v.sym) \subseteq ((Word \cup {"sp", ","}) \ {"union", "waitfor", "sleep"})
        => scanSQL(v.sym) = NoFinding
=============================================================================
