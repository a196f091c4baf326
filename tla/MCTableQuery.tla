---------------------------- MODULE MCTableQuery ----------------------------
(***************************************************************************)
(* An INT and a STRING column, both indexed.  Integers end at 2, a key is  *)
(* two bytes long, and the largest string of a range is one byte of 2; the *)
(* rows hold the largest integer, two strings with the same key, and a     *)
(* string past the largest of a range.                                     *)
(***************************************************************************)
EXTENDS TableQuery

MCColumn == {1, 2}

I(n) == <<"INT", n>>
S(bytes) == <<"STRING", bytes>>

Short1 == S(<<1>>)
Long1 == S(<<1, 1, 0>>)
Long2 == S(<<1, 1, 1>>)
Past == S(<<2, 0>>)
Key11 == S(<<1, 1>>)
Huge == S(<<1, 0, 0, 0>>)
Key10 == S(<<1, 0>>)

MCTyped == [c \in MCColumn |-> IF c = 1 THEN {I(1), I(2)}
                               ELSE {Short1, Key10, Key11, Long1, Long2, Past, Huge}]
MCValue == MCTyped[1] \cup MCTyped[2]

MCDefault == [c \in MCColumn |-> IF c = 2 THEN Past ELSE NULL]

MCWidth == [v \in MCValue \cup {NULL} |-> IF v = NULL \/ IsInt(v) THEN 1 ELSE Len(v[2])]

MCKeyOf == [v \in MCValue \cup {NULL} |-> Cut(v)]

\* rows of both columns, a row that leaves column 2 to its DEFAULT, and one that
\* has an integer there
MCInputs == {<<I(1), Short1>>, <<I(2), Long1>>, <<I(1), Long2>>, <<I(2), I(1)>>,
             [c \in {1} |-> I(2)]}

MCSets == {[c \in {1} |-> I(1)], [c \in {2} |-> Long2], [c \in {2} |-> Huge]}

\* a row with the longest string does not fit in a page
MCTooBig == {<<I(n), Huge>> : n \in 1 .. 2}

MCConstant == {I(n) : n \in 0 .. 2}
              \cup {S(<<>>), Short1, S(<<2>>), Key11, Long1} \cup {NULL}

MCMaxString == <<2>>
=============================================================================
