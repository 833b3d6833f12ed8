---------------------------- MODULE MCInspection ----------------------------
(* An instance of Inspection for TLC.                                      *)
EXTENDS Inspection

Text(sym, marks, level, bad) ==
  [sym |-> sym, marks |-> marks, level |-> level, bad |-> bad]
Plain(sym) == Text(sym, {}, 0, FALSE)

\* A text as a client sends it: encoded if a URL cannot hold it otherwise.
Sent(sym) == Text(sym, {}, IF ToSet(sym) \cap {"&", "#"} = {} THEN 0 ELSE 1, FALSE)

\* Every text of four symbols at most, and some longer ones.
Alphabet == {"sp", "quote", "bslash", "-", ";", "=", "1", "or", "select", "name"}
Short == UNION {[1 .. n -> Alphabet] : n \in 1 .. 4}
Long ==
  {<<"1", "sp", "or", "sp", "1", "=", "1">>,
   <<"1", "sp", "or", "sp", "1", "<", "=", "2">>,
   <<"1", "quote", "sp", "or", "sp", "quote", "1", "quote", "=", "quote", "1">>,
   <<"1", "sp", "union", "/*", "*/", "select", "sp", "1", ",", "2">>,
   <<"1", "sp", "union", "sp", "select", "sp", "1", ",", "2">>,
   <<"1", ";", "drop", "sp", "name">>,
   <<"1", "sp", "and", "sp", "sleep", "(", "1", ")", "nl", "-", "-">>,
   <<"name", "quote", "-", "-">>, <<"name", "quote", "#">>,
   <<"@", "@", "name", "sp", "waitfor", "/*">>,
   <<"salt", "sp", "&", "&", "sp", "dquote", "*/">>,
   <<"name", "sp", "or", "sp", "name", "sp", "select">>}

\* Two texts whose tautologies do not weigh the same, and marked ones.
Taut5 == Plain(<<"1", "sp", "or", "sp", "1", "=", "2">>)
Taut4 == Plain(<<"1", "=", "1">>)
Marked(level, bad) ==
  Text(<<"<", "name">>, {"carrier tag", "handler", "attribute break", "PATH-001"},
       level, bad)
Others == {Text(<<"name">>, {"dangerous tag", "protocol", "data"}, 1, FALSE),
           Marked(0, FALSE), Marked(2, FALSE), Marked(3, FALSE), Marked(1, TRUE),
           Taut5, Taut4}

MCPath == {Plain(<<"/", "name">>), Text(<<"/", "name">>, {"sensitive"}, 0, FALSE)}

Make(query, body, form, path, agent, hammering) ==
  [query |-> query, body |-> body, form |-> form, path |-> path,
   agent |-> agent, hammering |-> hammering]

MCRequest ==
  {Make(<<Sent(s)>>, <<>>, FALSE, CHOOSE p \in MCPath : p.marks = {}, {}, FALSE) :
     s \in Short \cup Long}
  \cup
  {Make(<<a, b>>, <<c, d>>, TRUE, CHOOSE p \in MCPath : p.marks = {}, {}, FALSE) :
     a \in Others \cup {Plain(<<"1", ";", "drop">>)}, b \in {Taut5, Taut4},
     c \in Others, d \in Others \cup {Plain(<<"name", ";">>)}}
  \cup
  {Make(<<>>, b, form, p, agent, hammering) :
     b \in {<<>>, <<Taut5>>, <<Plain(<<"name">>)>>, <<Marked(2, FALSE)>>},
     form \in BOOLEAN, p \in MCPath, agent \in {{}, {"SCAN-001"}},
     hammering \in BOOLEAN}
=============================================================================
