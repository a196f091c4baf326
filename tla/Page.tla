------------------------------- MODULE Page --------------------------------
(***************************************************************************)
(* One slotted page under every sequence of inserts, updates and deletes.  *)
(***************************************************************************)
EXTENDS PageOps, Sequences

VARIABLES
    page,
    done    \* history: the last operation that succeeded, with its slot

vars == <<page, done>>

Init == page = NewPage /\ done = <<"none", None>>

Insert ==
    \E x \in Records :
        LET r == InsertRecord(page, x) IN
        /\ page' = r.page
        /\ done' = IF r.ok THEN <<"insert", r.slot>> ELSE done

Update ==
    \E s \in Slots, x \in Records :
        LET r == UpdateRecord(page, s, x) IN
        /\ page' = r.page
        /\ done' = IF r.ok THEN <<"update", s>> ELSE done

Delete == \E s \in Live(page) : page' = DeleteRecord(page, s) /\ done' = <<"delete", s>>

Next == Insert \/ Update \/ Delete

Spec == Init /\ [][Next]_vars

(***************************************************************************)
(* Properties.                                                             *)
(***************************************************************************)
\* The records of a page lie apart from each other and from its free space, so
\* that neither an insert nor a compaction writes over a live record.
RecordsApart ==
    \A s \in Live(page) :
        /\ Extent(page, s) \subseteq page.start .. DataSize - 1
        /\ \A t \in Live(page) \ {s} : Extent(page, s) \cap Extent(page, t) = {}

\* the first n slots of the free list, in order
Chain[n \in 0 .. MaxSlots] ==
    IF n = 0 THEN <<>>
    ELSE LET c == Chain[n - 1]
             next == IF c = <<>> THEN page.head ELSE page.slot[c[Len(c)]].offset
         IN  IF Len(c) < n - 1 \/ next = Nil THEN c ELSE Append(c, next)

\* The free list is a list: it visits free slots only, none twice, and no free
\* slot is lost to it, though a listed slot whose link is 0 looks like one that
\* was never used.
FreeListSound ==
    LET c == Chain[MaxSlots] IN
    /\ \A i, j \in 1 .. Len(c) : c[i] = c[j] => i = j
    /\ \A i \in 1 .. Len(c) : c[i] \in Slots \ Live(page)
    /\ c # <<>> => page.slot[c[Len(c)]].offset = Nil
    /\ \A s \in Slots \ Live(page) :
          (\E i \in 1 .. Len(c) : c[i] = s) \/ s \in NeverUsed(page)

\* A page refuses an insert only for want of room or slots, however fragmented
\* it is; it never refuses an update while the new record would fit beside all
\* the old ones, and never accepts one that does not fit in place of the old.
RefusesOnlyWhenFull ==
    \A x \in Records :
        /\ InsertRecord(page, x).ok <=>
              Used(page) + Size[x] <= DataSize /\ Live(page) # Slots
        /\ \A s \in Live(page) :
              LET ok == UpdateRecord(page, s, x).ok IN
              /\ Used(page) + Size[x] <= DataSize => ok
              /\ ok => Used(page) - page.slot[s].length + Size[x] <= DataSize

\* Seen through get_record the page is a map from slots to records: what was
\* written last is read back byte for byte after any updates, deletes and
\* compactions around it.
Map == INSTANCE RecordMap WITH RecordIds <- Slots,
                               rows <- [s \in Slots |-> Stored(page, s)]
IsRecordMap == Map!Spec
=============================================================================
