------------------------------ MODULE Session -------------------------------
(***************************************************************************)
(* A run of the program (src/src/cli/cli.cpp, main.cpp): lines of a script *)
(* or of a terminal are joined to commands, cut into statements, parsed    *)
(* and executed (Parser), logged, and counted (Telemetry).                 *)
(*                                                                         *)
(* Abstractions.  A line is a sequence of atoms (see Parser).  Of the      *)
(* storage engine there is its catalog and that it may refuse a statement, *)
(* which it reports to nobody but its own error buffer; TableStore and     *)
(* Catalog look inside.                                                    *)
(***************************************************************************)
EXTENDS Parser, Execution, SequencesExt

CONSTANTS
    Scripts,    \* what a run may be given: its mode, its lines, and a bound for its clock
    Stored      \* the databases and tables on disk when the program starts

VARIABLES
    mode,       \* "batch" or "interactive"
    limit,      \* bound: how far the clock of this run goes
    lines,      \* the lines not yet read
    command,    \* current_command, accumulated_command
    called,     \* history: what the parser made of the last statement
    received    \* history: the lines read that are not comments or blank

input == <<mode, limit, lines, command, received>>
rest == <<input, catalog, called>>
vars == <<rest, execution, telemetry>>

(***************************************************************************)
(* Text.                                                                   *)
(***************************************************************************)
Trim(text) == LET n == {i \in DOMAIN text : text[i] # BLANK}
              IN SubSeq(text, Min(n), Max(n))

\* parenBalance
Balance(text) == Cardinality(Bare(text, "(")) - Cardinality(Bare(text, ")"))

\* the text but for blanks ends with a semicolon, in a literal or not
Ends(text) == Words(text) # <<>> /\ Last(Words(text)) = ";"

\* Mutant: every semicolon ends a statement.
RECURSIVE SplitAnywhere(_)
SplitAnywhere(text) ==
    LET ends == {i \in DOMAIN text : text[i] = ";"}
        first == CHOOSE i \in ends : \A j \in ends : i <= j
    IN IF ends = {} THEN IF Words(text) = <<>> THEN <<>> ELSE <<text>>
       ELSE <<SubSeq(text, 1, first)>> \o SplitAnywhere(SubSeq(text, first + 1, Len(text)))

RECURSIVE SplitStatements(_)
SplitStatements(text) ==
    LET ends == Bare(text, ";")
        first == CHOOSE i \in ends : \A j \in ends : i <= j
    IN IF ends = {} THEN IF Words(text) = <<>> THEN <<>> ELSE <<text>>
       ELSE <<SubSeq(text, 1, first)>> \o SplitStatements(SubSeq(text, first + 1, Len(text)))

IsExitCommand(line) ==
    SelectSeq(line, LAMBDA w : w \notin {BLANK, ";"}) \in {<<"EXIT">>, <<"QUIT">>}

Joined(text, line) == IF text = <<>> THEN line ELSE text \o <<BLANK>> \o line

StartsWithLetter(text) ==
    Head(text) \in Mixed \/ WordToken(Head(text)).type \in Keyword \cup {"IDENTIFIER"}

(***************************************************************************)
(* Reading: the loops of runBatchMode and runInteractive.                  *)
(***************************************************************************)
\* processCommand is given a text, or the command goes on
Take(text) ==
    IF Ends(text)
    THEN command' = <<>> /\ statements' = SplitStatements(text) /\ stage' = "execute"
    ELSE command' = text /\ UNCHANGED <<statements, stage>>

Line == Head(lines)

SkipLine ==
    /\ stage = "read" /\ Idle /\ lines # <<>>
    /\ \/ mode = "batch" /\ (Line = <<>> \/ IsPrefix(<<"--">>, Line))
       \/ mode = "interactive" /\ Words(Line) = <<>>
    /\ lines' = Tail(lines) /\ UNCHANGED execution /\ NextLine
    /\ UNCHANGED <<mode, limit, command, received, catalog, called>>

ReadBatch ==
    /\ mode = "batch" /\ stage = "read" /\ Idle /\ lines # <<>>
    /\ Line # <<>> /\ ~IsPrefix(<<"--">>, Line)
    /\ lines' = Tail(lines) /\ received' = Append(received, Line)
    /\ Take(Joined(command, Line)) /\ NextLine
    /\ UNCHANGED <<mode, limit, catalog, called>>

ReadInteractive ==
    /\ mode = "interactive" /\ stage = "read" /\ Idle /\ lines # <<>>
    /\ Words(Line) # <<>> /\ ~IsExitCommand(Line)
    /\ lines' = Tail(lines) /\ received' = Append(received, Line)
    /\ LET text == Joined(command, Trim(Line))
           whole == ~Ends(text) /\ StartsWithLetter(text) /\ Balance(text) <= 0
       IN Take(IF whole THEN text \o <<";">> ELSE text)
    /\ NextLine
    /\ UNCHANGED <<mode, limit, catalog, called>>

\* the end of the input, or EXIT: a script's unfinished command is executed, what
\* was typed of a command is forgotten
EndOfInput ==
    /\ stage = "read" /\ Idle
    /\ \/ lines = <<>>
       \/ mode = "interactive" /\ lines # <<>> /\ IsExitCommand(Line)
    /\ IF mode = "batch" /\ command # <<>>
       THEN command' = <<>> /\ statements' = SplitStatements(command) /\ stage' = "last"
       ELSE stage' = "close" /\ UNCHANGED <<command, statements>>
    /\ NextLine
    /\ UNCHANGED <<mode, limit, lines, received, catalog, called>>

(***************************************************************************)
(* Executing: the parser, the engine's catalog, the steps of Execution.    *)
(***************************************************************************)
Nothing == [command |-> "NONE", db |-> NoName, table |-> NoName, where |-> NoWhere]

Parsed(text) == IF Tokenizes(text) THEN ParseStatement(Tokens(text)) ELSE Syntax(0)

\* what the engine does to its catalog
Perform(call) ==
    CASE call.command = "CREATE DATABASE" ->
            /\ databases' = [d \in DOMAIN databases \cup {call.db} |->
                                IF d = call.db THEN {} ELSE databases[d]]
            /\ UNCHANGED current
      [] call.command = "DROP DATABASE" ->
            /\ databases' = [d \in DOMAIN databases \ {call.db} |-> databases[d]]
            /\ current' = IF current = call.db THEN NoName ELSE current
      [] call.command = "USE" -> current' = call.db /\ UNCHANGED databases
      [] call.command = "CREATE TABLE" ->
            databases' = [databases EXCEPT ![call.db] = @ \cup {call.table}] /\ UNCHANGED current
      [] call.command = "DROP TABLE" ->
            databases' = [databases EXCEPT ![call.db] = @ \ {call.table}] /\ UNCHANGED current
      [] OTHER -> UNCHANGED catalog

\* what the engine can refuse once the parser let it pass: values of the wrong type
\* or already there, columns that do not exist, a literal that is no time; a DELETE
\* it never refuses
Refusable(call, ts) ==
    \/ call.command \in {"CREATE TABLE", "INSERT", "UPDATE"}
    \/ call.command = "SELECT" /\ \E i \in 2 .. Len(ts) :
          /\ ts[i].type = "IDENTIFIER" /\ Peek(ts, i + 1).type # "("
          /\ i = 2 \/ ts[i - 1].type \in {",", "("}
          /\ \A j \in 2 .. i : ts[j].type # "FROM"
    \/ call.command = "REVERT" /\ \E i \in 2 .. Len(ts) :
          ts[i].type = "LITERAL" /\ ts[i].value \notin Timestamp

ExecuteStatement ==
    /\ Parseable
    /\ \E p \in {Parsed(Statement)}, refused \in BOOLEAN :
          /\ refused => p.error = "" /\ Refusable(p.value, Tokens(Statement))
          /\ Execute(IF p.error = "" THEN "OK" ELSE p.error, refused)
          /\ IF p.error = "" /\ ~refused THEN Perform(p.value) ELSE UNCHANGED catalog
          /\ called' = IF p.error = "" THEN p.value ELSE Nothing
    /\ UNCHANGED input

(***************************************************************************)
(* The program.                                                            *)
(***************************************************************************)
Background == Beside /\ now' <= limit /\ UNCHANGED rest

ReadLine == SkipLine \/ ReadBatch \/ ReadInteractive \/ EndOfInput

Work ==
    \/ /\ Begin \/ CommandEnd \/ Empty \/ Metrics \/ Count \/ Close \/ Exit
       /\ UNCHANGED rest
    \/ ExecuteStatement

SessionInit ==
    /\ ExecutionInit
    /\ \E s \in Scripts : mode = s.mode /\ lines = s.lines /\ limit = s.time
    /\ command = <<>> /\ received = <<>> /\ called = Nothing
    /\ databases = Stored /\ current = NoName

SessionNext == ReadLine \/ Work \/ Background

SessionSpec == SessionInit /\ [][SessionNext]_vars

\* ENABLED Work, written out: the thread of statements neither waits for a line
\* nor for the worker
Busy ==
    \/ stage = "begin" \/ caller \in {"record", "snapshot"}
    \/ stage \in {"execute", "last", "close"} /\ Idle
    \/ caller = "joining" /\ worker = "done"

\* Both threads go on; the next line, typed by a person, may never come.  The
\* second conjunct is WF_vars(Work): Busy is ENABLED <<Work>>_vars, which is costly
\* to evaluate through the parser.
FairSession ==
    /\ SessionSpec
    /\ (<>[]Busy => []<><<Work>>_vars)
    /\ WF_vars(Worker /\ UNCHANGED <<rest, execution>>)

(***************************************************************************)
(* Properties.                                                             *)
(***************************************************************************)
Unsemicoloned(text) == SelectSeq(text, LAMBDA w : w \notin {BLANK, ";"})

AllText == FlattenSeq(executed) \o FlattenSeq(statements) \o command

\* text is one statement: its only semicolon outside literals is its last atom
Whole(text) == Bare(text, ";") = {Len(text)}

\* no line so far has ended inside a literal with a semicolon, typed or added
Closed ==
    \A n \in DOMAIN received :
        (mode = "interactive" \/ Ends(received[n])) =>
            Len(SelectSeq(FlattenSeq(SubSeq(received, 1, n)), LAMBDA w : w = QUOTE)) % 2 = 0

Received == FlattenSeq(received)

\* However a script is broken into lines, its text is executed in order, each
\* atom once, in statements that end at the semicolons outside literals; only the
\* last may have none.  (A line that ends in a semicolon inside a literal is left
\* out: that semicolon ends the command, as the one the terminal adds does.)
\* Typed text is executed in order too, with the semicolons the terminal adds.
ScriptRunsAsWritten ==
    Closed =>
        /\ mode = "batch" => Words(AllText) = Words(Received)
        /\ mode = "interactive" => Unsemicoloned(AllText) = Unsemicoloned(Received)
        /\ \A i \in DOMAIN executed :
              \/ Whole(executed[i])
              \/ i = Len(executed) /\ stage \in {"last", "close", "closed"}

\* The connectives k of a clause of tokens ts at its top level; the AND after the
\* first bound of a BETWEEN is none.
Connectives(ts, k) ==
    {i \in DOMAIN ts :
        /\ ts[i].type = k
        /\ Cardinality({j \in 1 .. i : ts[j].type = "("})
              = Cardinality({j \in 1 .. i : ts[j].type = ")"})
        /\ ~(k = "AND" /\ i > 2 /\ ts[i - 2].type = "BETWEEN")}

\* What a clause says when the comparisons in true hold: one of the parts between
\* ORs, and of such a part all the parts between ANDs.
RECURSIVE Meaning(_, _)
Meaning(ts, true) ==
    LET ors == Connectives(ts, "OR")
        cuts == IF ors # {} THEN ors ELSE Connectives(ts, "AND")
        parts == {SubSeq(ts, i + 1, j - 1) :
                     <<i, j>> \in {p \in ({0} \cup cuts) \X (cuts \cup {Len(ts) + 1}) :
                                      /\ p[1] < p[2]
                                      /\ \A k \in cuts : k <= p[1] \/ k >= p[2]}}
    IN IF ors # {} THEN \E p \in parts : Meaning(p, true)
       ELSE IF cuts # {} THEN \A p \in parts : Meaning(p, true)
       ELSE IF Head(ts).type = "(" THEN Meaning(SubSeq(ts, 2, Len(ts) - 1), true)
       ELSE Comparison(ts[1], ts[2].value, ts[3],
                       IF Len(ts) = 5 THEN ts[5] ELSE EndOfFile) \in true

RECURSIVE Leaves(_)
Leaves(node) == CASE node.type = "NONE" -> {}
                  [] node.type = "COMPARISON" -> {node}
                  [] OTHER -> Leaves(node.lhs) \cup Leaves(node.rhs)

\* the tokens between WHERE and the semicolon
Clause(ts) == LET w == CHOOSE i \in DOMAIN ts : ts[i].type = "WHERE"
              IN SubSeq(ts, w + 1, Len(ts) - 2)

\* what the engine was called with since the last count
Called == stage \in {"execute", "last"} /\ caller = "record" /\ Last(log).status = "OK"

\* A WHERE clause the engine is given selects the rows that the clause written
\* in the script describes: AND before OR, parentheses first, the AND of a BETWEEN
\* no connective, words in literals no keywords.
ConditionMeans ==
    Called /\ called.where # NoWhere =>
        \A true \in SUBSET Leaves(called.where) :
            EvaluateNode(called.where, true)
                <=> Meaning(Clause(Tokens(Last(log).text)), true)

\* No statement written with a WHERE is executed without it, so that no part of a
\* DELETE or UPDATE lost to a comment, a line or a semicolon makes it reach the
\* whole table.
NoWhereLost ==
    Called /\ called.command \in {"DELETE", "UPDATE", "SELECT"} =>
        (called.where = NoWhere <=> Bare(Last(log).text, "WHERE") = {})

\* The program comes back for the next line, or ends: the loops over statements
\* terminate and stop joins a worker that may be cleaning.
InputAnswered == (stage # "read" /\ caller # "gone") ~> (stage = "read" \/ caller = "gone")

\* What telemetry.hpp says it counts, the errors, and the explanatory note that the
\* access log gives, the status of each request: a statement that failed, in the
\* parser or in the engine, is counted as an error and logged as one.
RefusalsCounted ==
    Idle =>
        /\ Len(error_events.all) =
              Cardinality({i \in DOMAIN log : log[i].refused \/ log[i].status # "OK"})
        /\ \A i \in DOMAIN log : log[i].refused => log[i].status # "OK"
=============================================================================
