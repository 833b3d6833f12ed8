---------------------------- MODULE SQLSemantic -----------------------------
(***************************************************************************)
(* internal/detector/semantic_sql.go: a value is cut into tokens as a SQL  *)
(* lexer would do, the structure of the tokens is matched against a list   *)
(* of signatures, and the most suspicious of three readings of the value   *)
(* is kept: as it is, inside a '...' string, inside a "..." string.        *)
(*                                                                         *)
(* A text is a sequence of symbols.  Most stand for one character ("sp",   *)
(* "nl", "quote", "dquote", "bslash", "#", "@", "(", ")", ",", ";", the    *)
(* operators); "/*" and "*/" for two; a keyword, a function or a name for  *)
(* the letters of a whole word in any case, "un" and "ion" for the letters *)
(* of the two halves of one; "1" and "2" for digits.  Hex numbers and      *)
(* decimal points are left out.                                            *)
(***************************************************************************)
EXTENDS Integers, Sequences, FiniteSetsExt, TLC

sqlKeywords == {"select", "union", "or", "and", "drop", "waitfor", "from"}
sqlFunctions == {"sleep", "concat"}
stmtKeywords == {"select", "drop"}
timeFunctions == {"sleep"}
Word == sqlKeywords \cup sqlFunctions \cup {"name"}
Letters == Word \cup {"un", "ion"}
Digit == {"1", "2"}
Operator == {"=", "<", ">", "!", "-", "*", "/", "&", "|", "%"}
TwoCharacters == {<<"<", "=">>, <<">", "=">>, <<"<", ">">>, <<"!", "=">>,
                  <<"|", "|">>, <<"&", "&">>}
compareOps == {<<"=">>, <<"<">>, <<">">>, <<"<", "=">>, <<">", "=">>,
               <<"<", ">">>, <<"!", "=">>}
Punctuation == {"(", ")", ",", ";"}

\* The first index from i on that stops a run of S, one past the end at most.
RunEnd(r, i, S) == Min({j \in i .. Len(r) + 1 : j = Len(r) + 1 \/ r[j] \notin S})

\* Mutant: a comment is removed and nothing put in its place.
stripGluing(t) ==
  LET Closing(i) == {j \in i + 1 .. Len(t) : t[j] = "*/"}
      strip[i \in 1 .. Len(t) + 1] ==
        IF i > Len(t) THEN <<>>
        ELSE IF t[i] = "/*" /\ Closing(i) /= {}
               THEN strip[Min(Closing(i)) + 1]
        ELSE (CASE t[i] = "/*" -> <<"/", "*">>
                [] t[i] = "*/" -> <<"*", "/">>
                [] OTHER -> <<t[i]>>) \o strip[i + 1]
  IN strip[1]

\* Every closed comment, to its nearest end, becomes one space.
stripBlockComments(t) ==
  LET Closing(i) == {j \in i + 1 .. Len(t) : t[j] = "*/"}
      strip[i \in 1 .. Len(t) + 1] ==
        IF i > Len(t) THEN <<>>
        ELSE IF t[i] = "/*" /\ Closing(i) /= {}
               THEN <<"sp">> \o strip[Min(Closing(i)) + 1]
        ELSE (CASE t[i] = "/*" -> <<"/", "*">>
                [] t[i] = "*/" -> <<"*", "/">>
                [] OTHER -> <<t[i]>>) \o strip[i + 1]
  IN strip[1]

HasBlockComment(t) ==
  \E i \in 1 .. Len(t) : \E j \in i + 1 .. Len(t) : t[i] = "/*" /\ t[j] = "*/"

\* The end of the string that opens at i: past its quote, or past the text
\* when no quote closes it.  A backslash takes the next symbol with it, and
\* may take the scan past the end.
StringEnd(r, i) ==
  LET n == Len(r)
      scan[j \in i + 1 .. n + 2] ==
        IF j > n THEN [to |-> n + 1, closed |-> FALSE]
        ELSE IF r[j] = "bslash" THEN scan[j + 2]
        ELSE IF r[j] = r[i] THEN [to |-> j + 1, closed |-> TRUE]
        ELSE scan[j + 1]
  IN scan[i + 1]

\* The word that a run of letters and digits is.
Spelt(run) == IF run = <<"un", "ion">> THEN <<"union">> ELSE run

\* The token that starts at i: its type ("" for a symbol that makes none),
\* and where the scan goes on.  Types as in the code, "1" being a name.
TokenAt(r, i) ==
  LET c == r[i]
      Until(typ, to) == [typ |-> typ, lex |-> SubSeq(r, i, to - 1), to |-> to,
                         open |-> FALSE]
      follows == IF i < Len(r) THEN r[i + 1] ELSE ""
  IN CASE c \in {"sp", "nl"} -> Until("", i + 1)
       [] c = "#" \/ (c = "-" /\ follows = "-") ->
            Until("c", RunEnd(r, i, {r[j] : j \in 1 .. Len(r)} \ {"nl"}))
       [] c \in {"quote", "dquote"} ->
            LET s == StringEnd(r, i)
            IN [Until("s", s.to) EXCEPT !.open = ~s.closed]
       [] c = "@" ->
            Until("v", RunEnd(r, IF follows = "@" THEN i + 2 ELSE i + 1,
                              Letters \cup Digit))
       [] c \in Digit -> Until("n", RunEnd(r, i, Digit))
       [] c \in Letters ->
            LET to == RunEnd(r, i, Letters \cup Digit)
                word == Spelt(SubSeq(r, i, to - 1))
                Is(words) == Len(word) = 1 /\ Head(word) \in words
            IN [Until(IF Is(sqlKeywords) THEN "k"
                      ELSE IF Is(sqlFunctions) THEN "f" ELSE "1", to)
                  EXCEPT !.lex = word]
       [] c \in Punctuation -> Until(c, i + 1)
       [] <<c, follows>> \in TwoCharacters -> Until("o", i + 2)
       [] c \in Operator
          /\ <<c, follows>> \notin TwoCharacters \cup {<<"-", "-">>} ->
            Until("o", i + 1)
       [] OTHER -> Until("", i + 1)

\* The tokens of a text without block comments, and whether a string is open.
TokensOf(r) ==
  LET scan[i \in 1 .. Len(r) + 1] ==
        IF i > Len(r) THEN [toks |-> <<>>, open |-> FALSE]
        ELSE LET k == TokenAt(r, i)
                 rest == scan[k.to]
             IN [toks |-> IF k.typ = "" THEN rest.toks
                            ELSE <<[typ |-> k.typ, lex |-> k.lex]>> \o rest.toks,
                 open |-> k.open \/ rest.open]
  IN scan[1]

Signals(z, inline) ==
  [toks |-> z.toks,
   unterminated |-> z.open,
   inlineComment |-> inline,
   lineComment |-> \E i \in 1 .. Len(z.toks) : z.toks[i].typ = "c"]

\* The tokens, and the three signals of the scan.
tokenize(t) == Signals(TokensOf(stripBlockComments(t)), HasBlockComment(t))

-----------------------------------------------------------------------------
(* The signatures.  A set of findings is a function from the identifiers     *)
(* found to their severities: each once, at its highest.                    *)

Compares(tok) == tok.typ = "o" /\ tok.lex \in compareOps

\* Mutant: an unterminated string is enough.
BreaksOutAlone(z) == z.unterminated

\* A string left open, with SQL somewhere outside it.
BreaksOut(z) ==
  /\ z.unterminated
  /\ \E i \in 1 .. Len(z.toks) : z.toks[i].typ = "k" \/ Compares(z.toks[i])

\* The findings of some severity.
Found(severity) == [id \in {i \in DOMAIN severity : severity[i] > 0} |-> severity[id]]

\* The structures that z, the tokens toks with their signals, shows.
Signatures(z, toks, n) ==
  LET Lit(i) == toks[i].typ \in {"n", "s"}
      HasType(types) == \E i \in 1 .. n : toks[i].typ \in types
      KeywordOf(i, words) == toks[i].typ = "k" /\ Head(toks[i].lex) \in words
      union == \E i \in 1 .. n : /\ KeywordOf(i, {"union"})
                                 /\ \E k \in {i + 1, i + 2} \cap 1 .. n :
                                      toks[k].lex = <<"select">>
      stack == \E i \in 1 .. n - 1 : /\ toks[i].typ = ";"
                                     /\ KeywordOf(i + 1, stmtKeywords)
      always == \E i \in 1 .. n - 1 :
                  /\ KeywordOf(i, {"or", "and"})
                  /\ Lit(i + 1)
                  /\ \/ i + 3 <= n /\ Compares(toks[i + 2]) /\ Lit(i + 3)
                     \/ i + 1 = n
                     \/ i + 2 <= n /\ toks[i + 2].typ \in {")", "c", ";"}
      same == \E i \in 1 .. n - 2 : /\ Lit(i) /\ Compares(toks[i + 1]) /\ Lit(i + 2)
                                    /\ toks[i].lex = toks[i + 2].lex
      time == \E i \in 1 .. n : \/ KeywordOf(i, {"waitfor"})
                                \/ /\ toks[i].typ = "f"
                                   /\ Head(toks[i].lex) \in timeFunctions
      auth == \E i \in 1 .. n - 1 : toks[i].typ = "s" /\ toks[i + 1].typ = "c"
      evasion == z.inlineComment /\ HasType({"k", "f"})
      comment == z.lineComment /\ HasType({"k", "f", "o"}) /\ ~auth
      severity == ("SEM-SQL-UNION" :> IF union THEN 6 ELSE 0)
               @@ ("SEM-SQL-STACK" :> IF stack THEN 6 ELSE 0)
               @@ ("SEM-SQL-TAUTO" :> IF always THEN 5 ELSE IF same THEN 4 ELSE 0)
               @@ ("SEM-SQL-TIME" :> IF time THEN 5 ELSE 0)
               @@ ("SEM-SQL-BREAK" :> IF BreaksOut(z) THEN 4 ELSE 0)
               @@ ("SEM-SQL-AUTHBYPASS" :> IF auth THEN 5 ELSE 0)
               @@ ("SEM-SQL-EVASION" :> IF evasion THEN 3 ELSE 0)
               @@ ("SEM-SQL-COMMENT" :> IF comment THEN 3 ELSE 0)
  IN Found(severity)

analyzeOnce(t) ==
  LET Of(z) == Signatures(z, z.toks, Len(z.toks)) IN Of(tokenize(t))

Score(findings) == SumFunction(findings)

\* The first of the readings of highest score; no finding when it is zero.
Best(reading) ==
  reading[CHOOSE i \in DOMAIN reading :
            \A j \in DOMAIN reading :
              IF j < i THEN Score(reading[j]) < Score(reading[i])
                       ELSE Score(reading[j]) <= Score(reading[i])]

scanSQL(t) ==
  Best(<<analyzeOnce(t), analyzeOnce(<<"quote">> \o t),
         analyzeOnce(<<"dquote">> \o t)>>)
=============================================================================
