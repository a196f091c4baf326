------------------------------ MODULE PageOps -------------------------------
(***************************************************************************)
(* The operations of a slotted page (src/src/record/src/page.cpp), as      *)
(* operators on page values.  A page is a header, an array of slots that   *)
(* point into the data area, and the data area, filled from its end down.  *)
(* A deleted slot is on a free list linked through the offset field; a     *)
(* slot that was never used has offset 0 and length 0.                     *)
(*                                                                         *)
(* A record is a model value x of Size[x] bytes; its i-th byte is the pair *)
(* <<x, i>>, so that a byte of another record, or one left over from an    *)
(* earlier record, is told apart wherever it is read back.                 *)
(***************************************************************************)
EXTENDS Integers, FiniteSets, FiniteSetsExt

CONSTANTS
    Records,    \* the records
    Size,       \* the length of each record in bytes
    None,       \* no record
    DataSize,   \* bound: DATA_SIZE, 2040 in the code
    MaxSlots,   \* bound: MAX_SLOTS, 512 in the code
    CountRange  \* bound: the values of slot_count, 2^16 in the code

Nil == 65535                      \* 0xFFFF, no slot

ASSUME SizeAssumption == None \notin Records /\ Size \in [Records -> Nat \ {0}]
ASSUME CapacityAssumption == DataSize \in Nat /\ MaxSlots \in 0 .. Nil /\ CountRange \in Nat \ {0}

Slots == 0 .. MaxSlots - 1
Blank == <<None, 0>>              \* a zeroed byte

EmptySlot == [offset |-> 0, length |-> 0, free |-> TRUE]

NewPage == [start |-> DataSize, count |-> 0, head |-> Nil,
            slot  |-> [s \in Slots |-> EmptySlot],
            data  |-> [i \in 0 .. DataSize - 1 |-> Blank]]

\* what fills a page the file has room for but nobody wrote: every field is 0,
\* so every slot reads as taken and the head of the free list as slot 0
ZeroPage == [start |-> 0, count |-> 0, head |-> 0,
             slot  |-> [s \in Slots |-> [offset |-> 0, length |-> 0, free |-> FALSE]],
             data  |-> [i \in 0 .. DataSize - 1 |-> Blank]]

Live(p) == {s \in Slots : ~p.slot[s].free}

Extent(p, s) == p.slot[s].offset .. p.slot[s].offset + p.slot[s].length - 1

\* compact's write_pos once it has been through the first n slots
WritePos(p) ==
    LET pos[n \in 0 .. MaxSlots] ==
            IF n = 0 THEN DataSize
            ELSE IF n - 1 \in Live(p) THEN pos[n - 1] - p.slot[n - 1].length
            ELSE pos[n - 1]
    IN  pos

Used(p) == DataSize - WritePos(p)[MaxSlots]

\* get_record
Holds(p, s, x) ==
    /\ s \in Live(p) /\ p.slot[s].length = Size[x]
    /\ \A i \in Extent(p, s) : p.data[i] = <<x, i - p.slot[s].offset>>

\* the record in slot s; bytes that are no record's are Torn
Torn == <<None, "torn">>

Stored(p, s) ==
    IF s \notin Live(p) THEN None
    ELSE IF \E x \in Records : Holds(p, s, x)
    THEN CHOOSE x \in Records : Holds(p, s, x) ELSE Torn

Write(data, offset, x) ==
    [i \in DOMAIN data |->
        IF i \in offset .. offset + Size[x] - 1 THEN <<x, i - offset>> ELSE data[i]]

\* Mutant: the slots still point to where their records were.
CompactKeepsOffsets(p) ==
    LET pos == WritePos(p)
        moved(s) == pos[s + 1] .. pos[s] - 1
    IN [p EXCEPT
          !.data  = [i \in DOMAIN p.data |->
                       IF \E s \in Live(p) : i \in moved(s)
                       THEN LET s == CHOOSE t \in Live(p) : i \in moved(t)
                            IN  p.data[p.slot[s].offset + (i - pos[s + 1])]
                       ELSE Blank],
          !.start = pos[MaxSlots]]

\* compact: the live records are packed at the end of the data area, the record
\* of the lowest slot last; the slots that are free are left alone
Compact(p) ==
    LET pos == WritePos(p)
        moved(s) == pos[s + 1] .. pos[s] - 1
    IN [p EXCEPT
          !.slot  = [s \in Slots |-> IF s \in Live(p)
                                     THEN [p.slot[s] EXCEPT !.offset = pos[s + 1]]
                                     ELSE p.slot[s]],
          !.data  = [i \in DOMAIN p.data |->
                       IF \E s \in Live(p) : i \in moved(s)
                       THEN LET s == CHOOSE t \in Live(p) : i \in moved(t)
                            IN  p.data[p.slot[s].offset + (i - pos[s + 1])]
                       ELSE Blank],
          !.start = pos[MaxSlots]]

NeverUsed(p) == {s \in Slots : p.slot[s] = EmptySlot}

\* find_free_slot: the head of the free list, else the first slot never used
FreeSlot(p) ==
    IF p.head # Nil THEN p.head
    ELSE IF NeverUsed(p) = {} THEN Nil ELSE Min(NeverUsed(p))

\* Mutant: the free list is not popped.
TakeFreeSlotTwice(p) == p

TakeFreeSlot(p) ==
    IF p.head # Nil THEN [p EXCEPT !.head = p.slot[p.head].offset] ELSE p

\* the record is appended below the others and its slot points to it
Place(p, s, x) ==
    [p EXCEPT !.start = @ - Size[x],
              !.data  = Write(@, p.start - Size[x], x),
              !.slot[s] = [offset |-> p.start - Size[x], length |-> Size[x], free |-> FALSE],
              !.count = (@ + 1) % CountRange]

\* Mutant: a full page refuses without compacting.
InsertNoCompact(p, x) ==
    LET fits == p.start >= Size[x] /\ FreeSlot(p) # Nil
    IN  [ok |-> fits, slot |-> FreeSlot(p),
         page |-> IF fits THEN Place(TakeFreeSlot(p), FreeSlot(p), x) ELSE p]

InsertRecord(p, x) ==
    LET q == IF p.start < Size[x] THEN Compact(p) ELSE p
        fits == q.start >= Size[x] /\ FreeSlot(q) # Nil
    IN  [ok   |-> fits,
         slot |-> FreeSlot(q),
         page |-> IF fits THEN Place(TakeFreeSlot(q), FreeSlot(q), x) ELSE q]

\* a record that got shorter is overwritten in place
Overwrite(p, s, x) ==
    [p EXCEPT !.data = Write(@, p.slot[s].offset, x), !.slot[s].length = Size[x]]

\* its slot is freed for the time of a compaction
Vacate(p, s) == Compact([p EXCEPT !.slot[s].free = TRUE, !.count = (@ - 1) % CountRange])

\* update_record: a record that grows moves to the free space; when even its own
\* old bytes would not make room for it, the page is compacted around the old
\* copy and the new one must fit beside it
UpdateRecord(p, s, x) ==
    LET old == p.slot[s].length
        q == Compact(p)
        v == Vacate(p, s)
    IN  CASE s \notin Live(p) -> [ok |-> FALSE, page |-> p]
          [] s \in Live(p) /\ Size[x] <= old -> [ok |-> TRUE, page |-> Overwrite(p, s, x)]
          [] s \in Live(p) /\ Size[x] > old /\ p.start + old >= Size[x] ->
                IF v.start < Size[x] THEN [ok |-> FALSE, page |-> v]
                ELSE [ok |-> TRUE, page |-> Place(v, s, x)]
          [] s \in Live(p) /\ Size[x] > old /\ p.start + old < Size[x] ->
                IF q.start < Size[x] THEN [ok |-> FALSE, page |-> q]
                ELSE [ok |-> TRUE, page |-> Place(q, s, x)]

\* Mutant: the slot's link is not set, the rest of the list is lost.
DeleteUnlinked(p, s) ==
    [p EXCEPT !.slot[s] = EmptySlot, !.count = (@ - 1) % CountRange, !.head = s]

DeleteRecord(p, s) ==
    [p EXCEPT !.slot[s] = [offset |-> p.head, length |-> 0, free |-> TRUE],
              !.count = (@ - 1) % CountRange, !.head = s]
=============================================================================
