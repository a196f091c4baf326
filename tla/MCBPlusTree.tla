---------------------------- MODULE MCBPlusTree -----------------------------
(***************************************************************************)
(* Nodes of two keys and at least one, as in the code the minimum is half  *)
(* the maximum: with five keys, one of them twice, the tree reaches three  *)
(* levels and takes every branch of splitting, borrowing and merging on    *)
(* two of them.  The scans end inside the keys or above them all.          *)
(***************************************************************************)
EXTENDS BPlusTree

CONSTANT rid

MCEnds == {4, 6}
=============================================================================
