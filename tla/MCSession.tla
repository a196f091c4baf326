----------------------------- MODULE MCSession ------------------------------
(***************************************************************************)
(* Scripts for Session: clauses of up to four comparisons, one DELETE      *)
(* each, and scripts that break lines, statements, literals and comments   *)
(* in the ways the program treats differently.                             *)
(***************************************************************************)
EXTENDS Session

MCStored == [d \in {"d"} |-> {"t"}]

Script(m, ls, t) == [mode |-> m, lines |-> ls, time |-> t]

Table == <<"d", ".", "t">>
Semi == <<";">>

A == <<"a", "==", "1">>
B == <<"b", "BETWEEN", "1", "AND", "2">>
C == <<"c", "LIKE", QUOTE, "OR", QUOTE>>
D == <<"NULL", "<=", "e">>
Paren(s) == <<"(">> \o s \o <<")">>

Conditions ==
    UNION {
        {A, Paren(B), A \o <<"NOT">> \o B, <<"a", "BETWEEN", "1", ",", "2">>, <<"a", "1">>},
        UNION {UNION {
            {A \o j \o B \o k \o C, Paren(A \o j \o B) \o k \o C, A \o j \o Paren(B \o k \o C),
             Paren(D \o j \o C) \o k \o Paren(B \o j \o A),
             Paren(B \o j \o Paren(C \o k \o D)) \o j \o A,
             D \o j \o B \o k \o C \o j \o A, D \o j \o B \o j \o C \o k \o A,
             <<"(">> \o A \o j \o B, A \o j \o k \o B} :
                k \in {<<"AND">>, <<"OR">>}} : j \in {<<"AND">>, <<"OR">>}}}

Clauses == {Script("batch", <<<<"DELETE", "FROM">> \o Table \o <<"WHERE">> \o c \o Semi>>, 0) : c \in Conditions}

Delete == <<"DELETE", "FROM">> \o Table
Where == <<"WHERE">> \o A

Batches == {
    \* a literal with a semicolon, a row without commas
    <<<<"INSERT", "INTO">> \o Table \o <<"(", "a", ",", "b", ")", "VALUE">>,
      <<"(", "1", ",", QUOTE, "x", ";", "y", QUOTE, ")", ",", "(", "2", "NULL", ")", ";">>>>,
    \* a line ends inside a literal, with and without a semicolon there
    <<<<"INSERT", "INTO">> \o Table \o <<"VALUE", "(", QUOTE, "x", ";">>,
      <<"y", QUOTE, ")", ";">>, Delete \o Semi>>,
    <<<<"INSERT", "INTO">> \o Table \o <<"VALUE", "(", QUOTE, "x">>,
      <<"y", QUOTE, ",", "huge", ")", ";">>>>,
    \* comments: after a statement, inside one, on lines of their own
    <<<<"SELECT", "*", "FROM">> \o Table \o <<";", "--", "all">>, Delete \o Semi>>,
    <<Delete \o <<"--", "some">>, Where \o Semi>>,
    <<<<"--", "one", ";">>, <<>>, Delete, <<"--", "two">>, <<BLANK, BLANK>>,
      Where \o <<";", BLANK>>>>,
    \* several statements on a line, empty ones, METRICS
    <<Delete \o Where \o <<";", ";", BLANK, "METRICS", ";">>, <<"?", ";">>, <<"METRICS", ";">>>>,
    \* the last statement has no semicolon
    <<<<"USE", "d", ";">>, <<"DELETE", "FROM", "t">>>>,
    <<Delete \o <<BLANK, "WHERE", QUOTE, "b">>>>,
    \* the catalog
    <<<<"CREATE", "DATABASE", "e", ";", "USE", "e", ";">>,
      <<"CREATE", "TABLE", "u", "(", "a", "INT", "INDEXED", ",">>,
      <<"b", "STRING", "DEFAULT", QUOTE, "x", QUOTE, ",", ")", ";">>>>,
    <<<<"USE", "d", ";">>, <<"DROP", "TABLE", "t", ";", "SELECT", "*", "FROM", "t", ";">>>>,
    <<<<"USE", "d", ";", "DROP", "DATABASE", "d", ";">>, <<"DELETE", "FROM", "t", ";">>>>,
    \* SET, REVERT, aggregates
    <<<<"UPDATE">> \o Table \o <<"SET", "b", "=", "DEFAULT", ",", "a", "=", "1">>, Where \o Semi,
      <<"UPDATE">> \o Table \o <<"SET", "a", "=", "DEFAULT", ";">>>>,
    <<<<"REVERT">> \o Table \o <<"2026.01.01-00:00:00.000", ";">>,
      <<"SELECT", "COUNT", "(", "*", ")", "AS", "n", ",", "SUM", "(", "a", ")", "FROM">>,
      Table \o Semi>>,
    <<<<"Select", "*", "FROM">> \o Table \o Semi, <<"SELECT", "a", ",", "b", "FROM", "t", ";">>>> }

Terminals == {
    <<Delete, Where \o Semi>>,
    <<<<BLANK>> \o Delete \o <<"WHERE", "(", "a", "==", "1">>, <<BLANK>>, <<"OR">> \o D \o <<")">>,
      <<"EXIT", ";">>>>,
    <<<<"USE", "d">>, <<"CREATE", "TABLE", "u", "(">>, <<"a", "INT">>, <<")">>>>,
    <<<<"METRICS">>, <<"(", ";">>, <<"(", "QUIT">>, <<"QUIT">>>>,
    <<<<"Select", "1">>, <<"INSERT", "INTO">> \o Table \o <<"VALUE", "(", QUOTE, ";">>>> }

\* every script of up to three of these lines
Pieces == {
    Delete, Delete \o Semi, Delete \o <<";", "--", "all">>, Where, Where \o Semi,
    <<"WHERE", "c", "LIKE", QUOTE>>, <<"x", QUOTE>>, <<"x", ";", QUOTE, ";">>,
    <<>>, <<"--", "x", ";">>, <<"QUIT", ";">> }

Broken == [mode : {"batch", "interactive"}, lines : UNION {[1 .. n -> Pieces] : n \in 1 .. 3},
           time : {0}]

\* runs long enough for every window of the telemetry to pass
Timed == {
    Script("interactive", <<<<"?", ";">>, Delete, <<"METRICS">>>>, 6),
    Script("batch", <<<<"?", ";">>, <<"METRICS", ";", "?", ";", "METRICS", ";">>>>, 5) }

MCScripts == Clauses \cup Broken \cup {Script("batch", s, 2) : s \in Batches}
             \cup {Script("interactive", s, 3) : s \in Terminals} \cup Timed

\* an INSERT: the engine may find its key in the index already
MCRefused == {Script("batch", <<<<"INSERT", "INTO">> \o Table \o
                                <<"(", "a", ")", "VALUE", "(", "1", ")", ";">>>>, 1)}
=============================================================================
