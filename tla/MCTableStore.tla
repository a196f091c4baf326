---------------------------- MODULE MCTableStore ----------------------------
(***************************************************************************)
(* A table small enough for TLC: an indexed column 1 and a second column   *)
(* that is indexed or not depending on the run.                            *)
(***************************************************************************)
EXTENDS TableStore

CONSTANTS a, b

MCColumn == {1, 2}
MCValue == {a, b}

\* column 2 has a DEFAULT, column 1 has none
MCDefault == [c \in MCColumn |-> IF c = 2 THEN b ELSE NULL]

MCTyped == [c \in MCColumn |-> MCValue]

\* short values are their own keys
MCKeyOf == [v \in MCValue \cup {NULL} |-> v]

MCWidth == [v \in MCValue \cup {NULL} |-> IF v = b THEN 2 ELSE 1]

\* rows of both columns, rows that leave column 2 to its DEFAULT, and a row
\* that validateRow refuses
FewInputs == {[c \in MCColumn |-> a]} \cup [{1} -> {b, NULL}]

FewSets == [{1} -> MCValue]

\* every row fits in a page
NoRows == {}
=============================================================================
