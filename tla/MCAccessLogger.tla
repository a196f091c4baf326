--------------------------- MODULE MCAccessLogger ---------------------------
(***************************************************************************)
(* Two kinds of entries, so that a swapped pair shows.                     *)
(***************************************************************************)
EXTENDS AccessLogger

CONSTANTS a, b
=============================================================================
