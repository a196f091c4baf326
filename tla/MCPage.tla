------------------------------- MODULE MCPage -------------------------------
(***************************************************************************)
(* Two short records, and one that only an almost empty page can hold.     *)
(***************************************************************************)
EXTENDS Page, TLC

CONSTANTS a, b, d

RecordSize == (a :> 1 @@ b :> 2 @@ d :> 4)
=============================================================================
