----------------------------- MODULE MCCatalog ------------------------------
(***************************************************************************)
(* One table name in each of two databases, with one indexed column.       *)
(***************************************************************************)
EXTENDS Catalog, TLC

CONSTANTS d, e, t

MCColumns == {1}

\* the databases can be exchanged for each other
Exchange == Permutations(Dbs)
=============================================================================
