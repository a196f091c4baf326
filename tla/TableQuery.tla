----------------------------- MODULE TableQuery -----------------------------
(***************************************************************************)
(* Which rows a WHERE clause selects (matchingRecords of                   *)
(* src/src/storage_engine.hpp): by looking at every row, or, when the      *)
(* clause compares an INDEXED column with a constant, by asking the index  *)
(* for a key or for a half-open range of keys.  Composed with TableStore,  *)
(* so that the index asked is the one the statements before have left.     *)
(*                                                                         *)
(* Abstractions.  A value is <<type, number>> or <<type, bytes>>, with the *)
(* integers and the lengths scaled down by the constants.  A clause is one *)
(* comparison of a column with constants: any other clause is answered by  *)
(* the scan (Parser.tla has the trees of AND and OR).                      *)
(***************************************************************************)
EXTENDS TableStore

CONSTANTS
    MinInt,     \* INT64_MIN
    MaxInt,     \* INT64_MAX
    KeyLen,     \* MAX_KEY_LEN, 255 bytes
    MaxString,  \* the largest string a range asks for, 64 bytes 0xFF
    Constant    \* what a clause compares with, NULL included

IsInt(v) == v[1] = "INT"

(***************************************************************************)
(* Comparisons of values (resolveOperand, compareValues, evaluateNode).    *)
(***************************************************************************)
\* the order of std::string, and of memcmp with the length as the tie break
Precedes(s, t) ==
    \E n \in 0 .. Len(t) - 1 :
        /\ n <= Len(s) /\ SubSeq(s, 1, n) = SubSeq(t, 1, n)
        /\ n = Len(s) \/ s[n + 1] < t[n + 1]

Less(v, w) == IF IsInt(v) THEN v[2] < w[2] ELSE Precedes(v[2], w[2])

SameType(v, w) == v # NULL /\ w # NULL /\ v[1] = w[1]

CompareValues(v, w, op) ==
    /\ SameType(v, w)
    /\ CASE op = "EQ"  -> v = w
         [] op = "NEQ" -> v # w
         [] op = "LT"  -> Less(v, w)
         [] op = "GT"  -> Less(w, v)
         [] op = "LTE" -> ~Less(w, v)
         [] op = "GTE" -> ~Less(v, w)

Holds(x, q) ==
    IF q.op = "BETWEEN"
    THEN CompareValues(x[q.column], q.right, "GTE") /\ CompareValues(x[q.column], q.third, "LT")
    ELSE CompareValues(x[q.column], q.right, q.op)

Scan(q) == {r \in Live : Holds(heap[r], q)}

(***************************************************************************)
(* Index keys: IndexKey::from_value and its order, types first.            *)
(***************************************************************************)
Cut(v) == IF v = NULL \/ IsInt(v) \/ Len(v[2]) <= KeyLen THEN v
          ELSE <<v[1], SubSeq(v[2], 1, KeyLen)>>

Rank(v) == IF v = NULL THEN 0 ELSE IF IsInt(v) THEN 1 ELSE 2

KeyLess(k, l) == \/ Rank(k) < Rank(l)
                 \/ Rank(k) = Rank(l) /\ k # NULL /\ Less(k, l)

\* what the index of column c may answer when it is asked for the keys K: the
\* entries it is known to hold, and anything besides when K has a key that is not
\* sure (an entry that is missed when it is removed keeps its record id, whatever
\* row that is given to)
Answers(c, K) ==
    LET known == {e[2] : e \in {f \in index[c] : f[1] \in K}} IN
    IF Torn(c) \/ K \cap unsure[c] # {} THEN {known \cup s : s \in SUBSET Rid} ELSE {known}

\* range_find: the entries of [low, high)
RangeFind(c, low, high) ==
    Answers(c, {k \in MaybeValue : ~KeyLess(k, Cut(low)) /\ KeyLess(k, Cut(high))})

FindKey(c, v) == Answers(c, {Cut(v)})

(***************************************************************************)
(* The plan: a comparison becomes a half-open range.                       *)
(***************************************************************************)
\* Mutant: the increment overflows.
UpWraps(v) == <<"INT", IF v[2] = MaxInt THEN MinInt ELSE v[2] + 1>>

Up(v) == <<"INT", IF v[2] = MaxInt THEN MaxInt ELSE v[2] + 1>>

Least == <<"INT", MinInt>>
Greatest == <<"INT", MaxInt>>

IntRange(op, v) ==
    CASE op = "GT"  -> <<Up(v), Greatest>>
      [] op = "GTE" -> <<v, Greatest>>
      [] op = "LT"  -> <<Least, v>>
      [] op = "LTE" -> <<Least, Up(v)>>

EmptyString == <<"STRING", <<>>>>

\* the least string after v
Next0(v) == <<"STRING", v[2] \o <<0>>>>

\* Mutants: < and <= start at NULL, before every key; <= leaves out its bound.
StringRangeNoLow(op, v) ==
    CASE op = "GT"  -> <<Next0(v), NULL>>
      [] op = "GTE" -> <<v, <<"STRING", MaxString>>>>
      [] op = "LT"  -> <<NULL, v>>
      [] op = "LTE" -> <<NULL, Next0(v)>>

StringRangeOpen(op, v) ==
    CASE op = "GT"  -> <<Next0(v), NULL>>
      [] op = "GTE" -> <<v, <<"STRING", MaxString>>>>
      [] op = "LT"  -> <<EmptyString, v>>
      [] op = "LTE" -> <<EmptyString, v>>

\* only > leaves the upper end of the range as it was: NULL, before every key
StringRange(op, v) ==
    CASE op = "GT"  -> <<Next0(v), NULL>>
      [] op = "GTE" -> <<v, <<"STRING", MaxString>>>>
      [] op = "LT"  -> <<EmptyString, v>>
      [] op = "LTE" -> <<EmptyString, Next0(v)>>

KeyRange(q) == CASE q.op = "BETWEEN" -> <<q.right, q.third>>
              [] IsInt(q.right) /\ q.op # "BETWEEN" -> IntRange(q.op, q.right)
              [] OTHER -> StringRange(q.op, q.right)

Planned(q) == q.column \in Indexed /\ q.right # NULL /\ q.op # "NEQ"

\* the answers that are possible
MatchingRecords(q) ==
    IF ~Planned(q) THEN {Scan(q)}
    ELSE IF q.op = "EQ" THEN FindKey(q.column, q.right)
    ELSE RangeFind(q.column, KeyRange(q)[1], KeyRange(q)[2])

(***************************************************************************)
(* Properties.                                                             *)
(***************************************************************************)
Integer64 == {<<"INT", n>> : n \in MinInt .. MaxInt}

String == {"STRING"} \X Seq(Nat)

IsString(v) == v # NULL /\ v[1] = "STRING"

IntColumn == {c \in Column : Typed[c] \subseteq Integer64}
StringColumn == {c \in Column : \A v \in Typed[c] : IsString(v)}

Bounds(q) == IF q.op = "BETWEEN" THEN {q.right, q.third} ELSE {q.right}

Short(v) == IsString(v) /\ Len(v[2]) < KeyLen

Condition ==
    [column : Column, op : {"EQ", "NEQ", "LT", "GT", "LTE", "GTE"},
     right : Constant, third : {NULL}]
    \cup [column : Column, op : {"BETWEEN"}, right : Constant, third : Constant]

ASSUME RangeAssumption == MinInt \in Int /\ MaxInt \in Int /\ MinInt <= MaxInt
ASSUME CutAssumption == \A v \in MaybeValue : KeyOf[v] = Cut(v)
ASSUME NullAssumption == NULL \notin Integer64 /\ NULL \notin String
ASSUME StringAssumption ==
    /\ KeyLen \in Nat \ {0} /\ MaxString \in Seq(Nat) /\ Len(MaxString) <= KeyLen
    /\ \A v \in Value \cup Constant : IsString(v) => v \in String

\* between statements of a process that was not killed
AtRest == pc = "idle" /\ "crash" \notin Faults

\* the rows an index whose ranges end before INT64_MAX cannot list
AtMaximum(q) ==
    {r \in Live : /\ q.column \in Indexed /\ heap[r][q.column] = Greatest
                  /\ \/ q.op \in {"GT", "GTE"}
                     \/ q.op = "LTE" /\ q.right = Greatest}

\* the rows of which the index knows where they are
Known(q) == {r \in Live : q.column \in Indexed => Sure(q.column, heap[r][q.column])}

\* q selects exactly the rows rs, except that a row whose key the index has had
\* twice can be missed, and that an index asked for such a key can list any row
Selects(q, rs) ==
    /\ \A s \in MatchingRecords(q) : rs \cap Known(q) \subseteq s
    /\ \A s \in MatchingRecords(q) : MatchingRecords(q) = {s} => s = rs

\* WHERE on an INT column: whatever statements came before, the answer of the
\* index is the answer of the scan for every comparison with integers, but that
\* > and >=, and <= of the largest integer, miss the row that holds it, and but
\* for keys that a REVERT has put into the index twice.
IntAnswers ==
    AtRest => \A q \in Condition :
        q.column \in IntColumn /\ Bounds(q) \subseteq Integer64 =>
            Selects(q, Scan(q) \ AtMaximum(q))

\* WHERE on a STRING column: comparisons with strings shorter than a key are
\* answered as by the scan, long and colliding values in the rows included, but
\* that >= misses the rows from the largest string of its range on (> is the
\* subject of GreaterAnswers); an = of any string misses no row; again but for
\* keys that a REVERT has put into the index twice.
StringAnswers ==
    AtRest => \A q \in Condition : q.column \in StringColumn =>
        /\ q.op # "GT" /\ (\A v \in Bounds(q) : Short(v)) =>
              Selects(q, Scan(q) \
                  {r \in Live : /\ q.op = "GTE" /\ q.column \in Indexed
                                /\ ~Precedes(heap[r][q.column][2], MaxString)})
        /\ q.op = "EQ" =>
              \A s \in MatchingRecords(q) : Scan(q) \cap Known(q) \subseteq s

\* BETWEEN an integer and a string, by index: all integers are below all strings,
\* so that only one of the two bounds is one
Straddled(q) ==
    LET v(r) == heap[r][q.column] IN
    IF q.column \notin Indexed THEN {}
    ELSE IF q.column \in IntColumn THEN {r \in Live : CompareValues(v(r), q.right, "GTE")}
    ELSE {r \in Live : CompareValues(v(r), q.third, "LT")}

\* What a clause with a constant of another type than the column's selects: the
\* scan finds nothing, and so does the index, even with keys that were in it
\* twice, so that DELETE and UPDATE change nothing; but a BETWEEN from an integer
\* to a string selects by index the rows that the bound of the column's type
\* leaves, which the scan does not.
MismatchAnswers ==
    AtRest => \A q \in Condition :
        /\ \/ q.column \in IntColumn /\ \A v \in Bounds(q) : IsString(v)
           \/ q.column \in StringColumn /\ Bounds(q) \subseteq Integer64
           \/ /\ q.column \in IntColumn \cup StringColumn
              /\ IsString(q.right) /\ q.third \in Integer64
           => Scan(q) = {} /\ MatchingRecords(q) = {{}}
        /\ /\ q.column \in IntColumn \cup StringColumn
           /\ q.right \in Integer64 /\ Short(q.third)
           => Scan(q) = {} /\ Selects(q, Straddled(q))

\* What README.md says of the operator >, a comparison, for strings too.
GreaterAnswers ==
    AtRest => \A q \in Condition :
        q.op = "GT" /\ q.column \in StringColumn /\ Short(q.right) =>
            Selects(q, Scan(q))
=============================================================================
