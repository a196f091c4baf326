-------------------------------- MODULE Text --------------------------------
(***************************************************************************)
(* What the command line and the parser see of a text: a sequence of       *)
(* atoms, which are a word in one case, a number, a punctuation mark or    *)
(* operator, the quote, BLANK, or "--".                                    *)
(***************************************************************************)
EXTENDS Integers, Sequences, FiniteSets

Texts == Seq(STRING)

BLANK == " "
QUOTE == "quote"

Words(text) == SelectSeq(text, LAMBDA w : w # BLANK)

\* where text has an atom w outside the literals
Bare(text, w) ==
    {i \in DOMAIN text : /\ text[i] = w
                         /\ Cardinality({j \in 1 .. i : text[j] = QUOTE}) % 2 = 0}

IsEmpty(text) == \A i \in DOMAIN text : text[i] \in {BLANK, ";"}

IsMetrics(text) == Words(text) = <<"METRICS", ";">>
=============================================================================
