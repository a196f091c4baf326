----------------------------- MODULE Execution ------------------------------
(***************************************************************************)
(* The statements of a command, one by one (processCommand and             *)
(* executeSingleStatement of src/src/cli/cli.cpp): each is taken, parsed   *)
(* and executed, logged, and counted (Telemetry), with the worker of the   *)
(* telemetry beside.  How lines become statements, and what becomes of one *)
(* in the parser and in the engine, is left open here; Session fills it    *)
(* in.                                                                     *)
(*                                                                         *)
(* Abstraction.  Of the access log there is the order of entries;          *)
(* AccessLogger looks inside.                                              *)
(***************************************************************************)
EXTENDS Text, Telemetry

VARIABLES
    statements, \* those of the command in hand still to be executed
    stage,      \* where the program is
    log,        \* the entries handed to the access log
    executed    \* history: every statement taken from a command

execution == <<statements, stage, log, executed>>

Idle == caller = "idle"

ExecutionInit ==
    /\ Init
    /\ statements = <<>> /\ stage = "begin" /\ log = <<>> /\ executed = <<>>

Begin ==
    /\ stage = "begin" /\ Start
    /\ stage' = "read"
    /\ UNCHANGED <<statements, log, executed>>

\* a line has been read: a command may be whole, the input may have ended
NextLine ==
    /\ stage = "read" /\ Idle
    /\ statements' \in Seq(Texts) /\ stage' \in {"read", "execute", "last", "close"}
    /\ UNCHANGED <<log, executed, telemetry>>

(***************************************************************************)
(* processCommand and executeSingleStatement.                              *)
(***************************************************************************)
Executing == stage \in {"execute", "last"} /\ Idle /\ statements # <<>>

Statement == Head(statements)

Consume == statements' = Tail(statements) /\ executed' = Append(executed, Statement)

CommandEnd ==
    /\ stage \in {"execute", "last"} /\ Idle /\ statements = <<>>
    /\ stage' = IF stage = "execute" THEN "read" ELSE "close"
    /\ UNCHANGED <<statements, log, executed, telemetry>>

Empty ==
    /\ Executing /\ IsEmpty(Statement)
    /\ Consume
    /\ UNCHANGED <<stage, log, telemetry>>

\* METRICS is neither logged nor counted
Metrics ==
    /\ Executing /\ IsMetrics(Statement)
    /\ Consume /\ BeginSnapshot
    /\ UNCHANGED <<stage, log>>

\* Mutant: only the statements with an error are logged.
LogQueryErrors(status, refused) ==
    log' = IF status # "OK"
           THEN Append(log, [text |-> Statement, status |-> status, refused |-> refused])
           ELSE log

\* refused: that the engine refused the statement, which is not logged
LogQuery(status, refused) ==
    log' = Append(log, [text |-> Statement, status |-> status, refused |-> refused])

Parseable == Executing /\ ~IsEmpty(Statement) /\ ~IsMetrics(Statement)

\* the statement comes back from the parser with a status, "OK" or its error
Execute(status, refused) ==
    /\ Parseable
    /\ Consume /\ LogQuery(status, refused) /\ BeginRecord(status # "OK")
    /\ UNCHANGED stage

Count == (RecordRequest \/ GetSnapshot) /\ UNCHANGED execution

Close ==
    /\ stage = "close" /\ Stop
    /\ stage' = "closed"
    /\ UNCHANGED <<statements, log, executed>>

Exit == Join /\ UNCHANGED execution

Beside == (Worker \/ Tick) /\ UNCHANGED execution

ExecutionNext ==
    \/ Begin \/ NextLine \/ CommandEnd \/ Empty \/ Metrics
    \/ \E status \in STRING, refused \in BOOLEAN : Execute(status, refused)
    \/ Count \/ Close \/ Exit \/ Beside

ExecutionSpec == ExecutionInit /\ [][ExecutionNext]_<<execution, telemetry>>

(***************************************************************************)
(* Properties.                                                             *)
(***************************************************************************)
ToLog(text) == ~IsEmpty(text) /\ ~IsMetrics(text)

\* how many of the first n texts are to be logged
Due(texts, n) == Cardinality({i \in 1 .. n : ToLog(texts[i])})

\* Whenever no statement is in hand, every statement executed but the empty ones
\* and METRICS has been logged, in order, and counted, and the errors counted are
\* those logged.
LoggedAndCounted ==
    Idle =>
        /\ Len(log) = Due(executed, Len(executed))
        /\ \A n \in DOMAIN executed :
              ToLog(executed[n]) => log[Due(executed, n)].text = executed[n]
        /\ Len(rps_events.all) = Len(log)
        /\ Len(error_events.all) = Cardinality({i \in DOMAIN log : log[i].status # "OK"})
=============================================================================
