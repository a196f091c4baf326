------------------------------- MODULE Parser -------------------------------
(***************************************************************************)
(* From the text of one statement to a call of the storage engine:         *)
(* src/src/parser (the tokenizer, the recursive descent, the checks made   *)
(* before the engine is called) and the tree of a WHERE clause with its    *)
(* evaluation (evaluateNode of src/src/storage_engine.hpp).                *)
(*                                                                         *)
(* Abstractions.  Text is a sequence of atoms (Text).  Values and names of *)
(* columns are dropped as soon as they are checked: a call is the command, *)
(* the database, the table and the WHERE clause.                           *)
(***************************************************************************)
EXTENDS Text

CONSTANTS
    Number,     \* words that are numbers
    Huge,       \* those past the range of int64_t
    Timestamp,  \* words of the form yyyy.mm.dd-hh:mm:ss.mmm
    Mixed,      \* keywords in mixed case
    Stray,      \* what no token begins with
    Defaulted   \* the names of columns declared with a DEFAULT

VARIABLES
    databases,  \* the engine's catalog: for each database the names of its tables
    current     \* the database selected by USE, NoName before

catalog == <<databases, current>>

NoName == ""

Punctuation == {",", "(", ")", ";", ".", "*", "=", "==", "!=", "<", ">", "<=", ">="}

Keyword == {"CREATE", "DROP", "DATABASE", "TABLE", "USE", "INSERT", "INTO", "VALUE",
    "UPDATE", "SET", "DELETE", "FROM", "SELECT", "WHERE", "AS", "AND", "OR", "NOT",
    "NULL", "BETWEEN", "LIKE", "INT", "STRING", "NOT_NULL", "INDEXED", "DEFAULT",
    "REVERT"}

ASSUME NumberAssumption == Huge \subseteq Number

(***************************************************************************)
(* Tokens.  The lines of a statement have been joined with blanks, so a    *)
(* comment runs to its end.  A token that could not be made is the last.   *)
(***************************************************************************)
Token(t, v) == [type |-> t, value |-> v]

WordToken(w) ==
    Token(CASE w \in Keyword \cup Punctuation -> w
            [] w \in Number -> "NUMBER"
            [] w \in Timestamp -> "TIMESTAMP"
            [] w \in Mixed \cup Stray -> "UNKNOWN"
            [] OTHER -> "IDENTIFIER", w)

EndOfFile == Token("EOF", "")

Quotes(text) == {i \in 2 .. Len(text) : text[i] = QUOTE}

\* where the literal that text begins with ends
Closing(text) == CHOOSE i \in Quotes(text) : \A j \in Quotes(text) : i <= j

\* a literal of one word keeps it: it is compared with keywords like any token
Literal(text) == Token("LITERAL", IF Closing(text) = 3 THEN text[2] ELSE "")

RECURSIVE Tokens(_)
Tokens(text) ==
    CASE text = <<>> \/ Head(text) = "--" -> <<EndOfFile>>
      [] Head(text) = BLANK -> Tokens(Tail(text))
      [] Head(text) = QUOTE ->
            IF Quotes(text) = {} THEN <<Token("UNKNOWN", "")>>
            ELSE <<Literal(text)>> \o Tokens(SubSeq(text, Closing(text) + 1, Len(text)))
      [] Head(text) \in Mixed \cup Stray -> <<WordToken(Head(text))>>
      [] OTHER -> <<WordToken(Head(text))>> \o Tokens(Tail(text))

Tokenizes(text) == LET ts == Tokens(text) IN ts[Len(ts)].type # "UNKNOWN"

(***************************************************************************)
(* Parsing.  What a function of the parser leaves: the next position, the  *)
(* error, and what it read.                                                *)
(***************************************************************************)
Peek(ts, i) == IF i <= Len(ts) THEN ts[i] ELSE EndOfFile

\* a token is taken for a keyword by its spelling, whatever its type
IsKeyword(t, k) == t.value = k

Read(i, v) == [next |-> i, error |-> "", value |-> v]
Fail(i, e) == [next |-> i, error |-> e, value |-> NoName]

Syntax(i) == Fail(i, "Syntax")
Semantic(i) == Fail(i, "Semantic")

Expect(ts, i, t) == IF Peek(ts, i).type = t THEN Read(i + 1, t) ELSE Syntax(i)

ParseName(ts, i) ==
    IF Peek(ts, i).type = "IDENTIFIER" THEN Read(i + 1, Peek(ts, i).value) ELSE Syntax(i)

\* table or database.table
ParseTableReference(ts, i) ==
    LET name == ParseName(ts, i)
        table == ParseName(ts, i + 2)
    IN IF name.error # "" THEN name
       ELSE IF Peek(ts, i + 1).type = "." /\ table.error # "" THEN table
       ELSE IF Peek(ts, i + 1).type = "." THEN
               Read(i + 3, [db |-> name.value, table |-> table.value])
       ELSE Read(i + 1, [db |-> NoName, table |-> name.value])

ParseOperand(ts, i) ==
    LET t == Peek(ts, i) IN
    IF \/ t.type \in {"IDENTIFIER", "LITERAL"}
       \/ t.type = "NUMBER" /\ t.value \notin Huge
       \/ t.type # "NUMBER" /\ IsKeyword(t, "NULL")
    THEN Read(i + 1, t) ELSE Syntax(i)

(***************************************************************************)
(* WHERE.  A level is a chain of the level below it, joined from the left: *)
(* OR of AND of comparisons and parentheses.                               *)
(***************************************************************************)
Comparison(l, op, r, t) == [type |-> "COMPARISON", left |-> l, op |-> op, right |-> r, third |-> t]
Logical(op, l, r) == [type |-> "LOGICAL", op |-> op, lhs |-> l, rhs |-> r]

Operators == {"==", "!=", "<", ">", "<=", ">="}

ParseComparison(ts, i) ==
    LET left == ParseOperand(ts, i)
        op == Peek(ts, i + 1)
        right == ParseOperand(ts, i + 2)
        third == ParseOperand(ts, i + 4)
    IN IF left.error # "" THEN left
       ELSE IF ~(op.type \in Operators \/ op.value \in {"BETWEEN", "LIKE"}) THEN Syntax(i + 1)
       ELSE IF right.error # "" THEN right
       ELSE IF ~IsKeyword(op, "BETWEEN") THEN
               Read(i + 3, Comparison(left.value, op.value, right.value, EndOfFile))
       ELSE IF ~IsKeyword(Peek(ts, i + 3), "AND") THEN Syntax(i + 3)
       ELSE IF third.error # "" THEN third
       ELSE Read(i + 5, Comparison(left.value, "BETWEEN", right.value, third.value))

RECURSIVE ParseLevel(_, _, _), ParseAtom(_, _), ParseRest(_, _, _), ParseFlat(_, _, _)

\* Mutant: AND and OR are joined as they come, on one level.
ParseFlat(ts, i, k) ==
    LET left == ParseAtom(ts, i) IN
    IF left.error # "" THEN left
    ELSE LET op == Peek(ts, left.next).value
             right == ParseFlat(ts, left.next + 1, k)
         IN IF op \notin {"AND", "OR"} THEN left
            ELSE IF right.error # "" THEN right
            ELSE Read(right.next, Logical(op, left.value, right.value))

ParseBelow(ts, i, k) == IF k = "OR" THEN ParseLevel(ts, i, "AND") ELSE ParseAtom(ts, i)

ParseLevel(ts, i, k) ==
    LET left == ParseBelow(ts, i, k) IN
    IF left.error # "" THEN left ELSE ParseRest(ts, left, k)

ParseRest(ts, left, k) ==
    IF ~IsKeyword(Peek(ts, left.next), k) THEN left
    ELSE LET right == ParseBelow(ts, left.next + 1, k) IN
         IF right.error # "" THEN right
         ELSE ParseRest(ts, Read(right.next, Logical(k, left.value, right.value)), k)

ParseAtom(ts, i) ==
    IF Peek(ts, i).type # "(" THEN ParseComparison(ts, i)
    ELSE LET inner == ParseLevel(ts, i + 1, "OR")
             close == Expect(ts, inner.next, ")")
         IN IF inner.error # "" THEN inner
            ELSE IF close.error # "" THEN close
            ELSE Read(close.next, inner.value)

NoWhere == [type |-> "NONE"]

ParseWhere(ts, i) == IF IsKeyword(Peek(ts, i), "WHERE") THEN ParseLevel(ts, i + 1, "OR")
                     ELSE Read(i, NoWhere)

\* evaluateNode, given the comparisons that hold of the row
RECURSIVE EvaluateNode(_, _)
EvaluateNode(node, true) ==
    CASE node.type = "NONE" -> TRUE
      [] node.type = "COMPARISON" -> node \in true
      [] node.op = "AND" -> EvaluateNode(node.lhs, true) /\ EvaluateNode(node.rhs, true)
      [] OTHER -> EvaluateNode(node.lhs, true) \/ EvaluateNode(node.rhs, true)

(***************************************************************************)
(* Lists.  Names and values of INSERT go on to ")" with or without commas; *)
(* rows and columns may end in a comma; SET and SELECT may not.            *)
(***************************************************************************)
Schema(ref) == LET db == IF ref.db = NoName THEN current ELSE ref.db IN
               IF db \in DOMAIN databases THEN databases[db] ELSE {}

RECURSIVE Items(_, _, _, _)

\* a value of INSERT: std::stoll throws on a number out of range
ParseValue(ts, i) ==
    IF Peek(ts, i).value \in Huge /\ Peek(ts, i).type = "NUMBER" THEN Fail(i, "Exception")
    ELSE IF Peek(ts, i).type = "IDENTIFIER" THEN Syntax(i)
    ELSE ParseOperand(ts, i)

ParseRow(ts, i) ==
    LET values == Items("values", ts, i + 1, NoName) IN
    IF values.error # "" THEN values ELSE Expect(ts, values.next, ")")

RECURSIVE ParseModifiers(_, _)
ParseModifiers(ts, i) ==
    CASE Peek(ts, i).value \in {"NOT_NULL", "INDEXED"} -> ParseModifiers(ts, i + 1)
      [] IsKeyword(Peek(ts, i), "DEFAULT") ->
            LET constant == ParseOperand(ts, i + 1) IN
            IF constant.error # "" \/ Peek(ts, i + 1).type = "IDENTIFIER" THEN Syntax(i + 1)
            ELSE ParseModifiers(ts, i + 2)
      [] OTHER -> Read(i, NoName)

ParseColumn(ts, i) ==
    IF ParseName(ts, i).error = "" /\ Peek(ts, i + 1).value \in {"INT", "STRING"}
    THEN ParseModifiers(ts, i + 2) ELSE Syntax(i)

ParseSet(ts, i, ref) ==
    LET constant == ParseOperand(ts, i + 2) IN
    IF ParseName(ts, i).error # "" \/ Peek(ts, i + 1).type # "=" THEN Syntax(i)
    ELSE IF IsKeyword(Peek(ts, i + 2), "DEFAULT") THEN
            IF ref.table \in Schema(ref) /\ Peek(ts, i).value \in Defaulted
            THEN Read(i + 3, NoName) ELSE Semantic(i)
    ELSE IF Peek(ts, i + 2).type = "IDENTIFIER" THEN Syntax(i + 2)
    ELSE constant

ParseSelected(ts, i) ==
    LET name == ParseName(ts, i)
        call == name.value \in {"SUM", "COUNT", "AVG"} /\ Peek(ts, i + 1).type = "("
        star == name.value = "COUNT" /\ Peek(ts, i + 2).type = "*"
        close == Expect(ts, i + 3, ")")
        end == IF ~call THEN name
               ELSE IF ~star /\ ParseName(ts, i + 2).error # "" THEN Syntax(i + 2) ELSE close
    IN IF end.error = "" /\ IsKeyword(Peek(ts, end.next), "AS")
       THEN ParseName(ts, end.next + 1) ELSE end

\* whether the loop of a list is entered (again) at i
Goes(kind, ts, i) ==
    CASE kind \in {"names", "values"} -> Peek(ts, i).type # ")"
      [] kind = "rows" -> Peek(ts, i).type = "("
      [] kind = "columns" -> Peek(ts, i).type \notin {")", "EOF"}
      [] OTHER -> TRUE

Item(kind, ts, i, ref) ==
    CASE kind = "names" -> ParseName(ts, i)
      [] kind = "values" -> ParseValue(ts, i)
      [] kind = "rows" -> ParseRow(ts, i)
      [] kind = "columns" -> ParseColumn(ts, i)
      [] kind = "sets" -> ParseSet(ts, i, ref)
      [] kind = "selected" -> ParseSelected(ts, i)

Items(kind, ts, i, ref) ==
    IF ~Goes(kind, ts, i) THEN Read(i, NoName)
    ELSE LET item == Item(kind, ts, i, ref)
             comma == Peek(ts, item.next).type = ","
         IN IF item.error # "" THEN item
            ELSE IF comma THEN Items(kind, ts, item.next + 1, ref)
            ELSE IF kind \in {"names", "values"} THEN Items(kind, ts, item.next, ref)
            ELSE Read(item.next, NoName)

(***************************************************************************)
(* Statements.  The engine is called at their end, once.                   *)
(***************************************************************************)
Call(command, db, table, where) ==
    Read(0, [command |-> command, db |-> db, table |-> table, where |-> where])

\* Mutant: a statement ends where its grammar does, whatever follows.
CallOnTableOpen(command, ts, ref, where) ==
    LET db == IF ref.db = NoName THEN current ELSE ref.db IN
    IF db = NoName \/ ref.table \notin Schema(ref) THEN Semantic(where.next)
    ELSE Call(command, db, ref.table, where.value)

\* a statement on an existing table: the semicolon, the database, the table
CallOnTable(command, ts, ref, where) ==
    LET db == IF ref.db = NoName THEN current ELSE ref.db IN
    IF Peek(ts, where.next).type # ";" THEN Syntax(where.next)
    ELSE IF db = NoName \/ ref.table \notin Schema(ref) THEN Semantic(where.next)
    ELSE Call(command, db, ref.table, where.value)

\* CREATE DATABASE, DROP DATABASE, USE: a name and a semicolon
CallOnDatabase(command, ts, i) ==
    LET name == ParseName(ts, i) IN
    IF name.error # "" \/ Peek(ts, i + 1).type # ";" THEN Syntax(i)
    ELSE IF (name.value \in DOMAIN databases) = (command = "CREATE DATABASE") THEN Semantic(i)
    ELSE Call(command, name.value, NoName, NoWhere)

ParseCreateTable(ts) ==
    LET name == ParseName(ts, 3)
        columns == Items("columns", ts, 5, NoName)
        n == columns.next
    IN IF name.error # "" \/ Peek(ts, 4).type # "(" THEN Syntax(3)
       ELSE IF columns.error # "" THEN columns
       ELSE IF Peek(ts, n).type # ")" \/ Peek(ts, n + 1).type # ";" THEN Syntax(n)
       ELSE IF current = NoName THEN Semantic(n)
       ELSE IF current \in DOMAIN databases /\ name.value \in databases[current] THEN Semantic(n)
       ELSE Call("CREATE TABLE", current, name.value, NoWhere)

ParseDropTable(ts) ==
    LET ref == ParseTableReference(ts, 3) IN
    IF ref.error # "" THEN ref
    ELSE CallOnTable("DROP TABLE", ts, ref.value, Read(ref.next, NoWhere))

ParseInsert(ts) ==
    LET ref == ParseTableReference(ts, 3)
        named == Peek(ts, ref.next).type = "("
        names == IF named THEN Items("names", ts, ref.next + 1, NoName) ELSE ref
        v == IF named THEN names.next + 1 ELSE names.next
        rows == Items("rows", ts, v + 1, NoName)
    IN IF Peek(ts, 2).type # "INTO" THEN Syntax(2)
       ELSE IF ref.error # "" THEN ref
       ELSE IF names.error # "" THEN names
       ELSE IF ~IsKeyword(Peek(ts, v), "VALUE") THEN Syntax(v)
       ELSE IF rows.error # "" THEN rows
       ELSE CallOnTable("INSERT", ts, ref.value, Read(rows.next, NoWhere))

\* the table at i, the WHERE clause and the end of SELECT and DELETE
ParseFrom(command, ts, i) ==
    LET ref == ParseTableReference(ts, i + 1)
        where == ParseWhere(ts, ref.next)
    IN IF Peek(ts, i).type # "FROM" THEN Syntax(i)
       ELSE IF ref.error # "" THEN ref
       ELSE IF where.error # "" THEN where
       ELSE CallOnTable(command, ts, ref.value, where)

ParseDelete(ts) == ParseFrom("DELETE", ts, 2)

ParseSelect(ts) ==
    LET selected == Items("selected", ts, 2, NoName) IN
    IF Peek(ts, 2).type = "*" THEN ParseFrom("SELECT", ts, 3)
    ELSE IF selected.error # "" THEN selected
    ELSE ParseFrom("SELECT", ts, selected.next)

ParseUpdate(ts) ==
    LET ref == ParseTableReference(ts, 2)
        sets == Items("sets", ts, ref.next + 1, ref.value)
        where == ParseWhere(ts, sets.next)
    IN IF ref.error # "" THEN ref
       ELSE IF Peek(ts, ref.next).type # "SET" THEN Syntax(ref.next)
       ELSE IF sets.error # "" THEN sets
       ELSE IF where.error # "" THEN where
       ELSE CallOnTable("UPDATE", ts, ref.value, where)

ParseRevert(ts) ==
    LET ref == ParseTableReference(ts, 2) IN
    IF ref.error # "" THEN ref
    ELSE IF Peek(ts, ref.next).type \notin {"TIMESTAMP", "LITERAL"} THEN Syntax(ref.next)
    ELSE CallOnTable("REVERT", ts, ref.value, Read(ref.next + 1, NoWhere))

ParseStatement(ts) ==
    LET first == ts[1].value
        second == Peek(ts, 2).value
    IN CASE first \in {"CREATE", "DROP"} /\ second = "DATABASE" ->
               CallOnDatabase(IF first = "CREATE" THEN "CREATE DATABASE" ELSE "DROP DATABASE",
                              ts, 3)
         [] first = "CREATE" /\ second = "TABLE" -> ParseCreateTable(ts)
         [] first = "DROP" /\ second = "TABLE" -> ParseDropTable(ts)
         [] first = "USE" -> CallOnDatabase("USE", ts, 2)
         [] first = "DELETE" -> ParseDelete(ts)
         [] first = "INSERT" -> ParseInsert(ts)
         [] first = "UPDATE" -> ParseUpdate(ts)
         [] first = "SELECT" -> ParseSelect(ts)
         [] first = "REVERT" -> ParseRevert(ts)
         [] OTHER -> Syntax(1)
=============================================================================
