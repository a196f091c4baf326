----------------------------- MODULE RecordMap -----------------------------
(***************************************************************************)
(* What the record layer promises the storage engine: a map from record    *)
(* ids to records, in which an insert takes an id nobody holds and returns *)
(* it, an update keeps its id, and a record stays as it was last written   *)
(* until it is deleted, whatever pages, slots and compactions do           *)
(* underneath.  An operation that is refused changes nothing.              *)
(***************************************************************************)
CONSTANTS RecordIds, Records, None

VARIABLES
    rows,   \* the record under each id, None when there is none
    done    \* the last operation that succeeded, with its record id

Init == rows = [r \in RecordIds |-> None] /\ done = <<"none", None>>

Insert(r, x) == /\ rows[r] = None
                /\ rows' = [rows EXCEPT ![r] = x]
                /\ done' = <<"insert", r>>

Update(r, x) == /\ rows[r] # None
                /\ rows' = [rows EXCEPT ![r] = x]
                /\ done' = <<"update", r>>

Delete(r) == /\ rows[r] # None
             /\ rows' = [rows EXCEPT ![r] = None]
             /\ done' = <<"delete", r>>

Next == \E r \in RecordIds : Delete(r) \/ \E x \in Records : Insert(r, x) \/ Update(r, x)

Spec == Init /\ [][Next]_<<rows, done>>
=============================================================================
