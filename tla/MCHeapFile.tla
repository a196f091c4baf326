---------------------------- MODULE MCHeapFile ------------------------------
(***************************************************************************)
(* Pages of two bytes and two slots: two a's or one b fill a page, and d   *)
(* fits in none.                                                           *)
(***************************************************************************)
EXTENDS HeapFile, TLC

CONSTANTS a, b, d

RecordSize == a :> 1 @@ b :> 2 @@ d :> 3
=============================================================================
