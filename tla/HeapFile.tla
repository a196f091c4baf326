------------------------------ MODULE HeapFile ------------------------------
(***************************************************************************)
(* The heap file of a table (src/src/record/src/heap_file.cpp): its pages  *)
(* on disk, the pages cached in memory and the counter that names new      *)
(* pages, under inserts, updates, removals and restarts of the process.    *)
(*                                                                         *)
(* Every operation holds mutex_ and saves the one page it changed before   *)
(* it returns, so it is one step.  The pages of the cache are tried in the *)
(* order of an unordered_map, that is in any order; those that refuse the  *)
(* record before one accepts it have been compacted, in memory only.       *)
(***************************************************************************)
EXTENDS PageOps, Sequences

CONSTANTS
    MaxPages,    \* bound: the pages of the file
    LoadHoles    \* bound: whether a restart may find a page nobody wrote

ASSUME BoundAssumption == MaxPages \in Nat /\ LoadHoles \in BOOLEAN

VARIABLES
    disk,     \* the pages of the file, page 0 first
    cache,    \* page_cache_: the pages in memory, by page id
    next,     \* next_page_id_
    done      \* history: the last operation that succeeded, with its record id

vars == <<disk, cache, next, done>>

PageIds == 0 .. MaxPages - 1

Init == disk = <<>> /\ cache = <<>> /\ next = 0 /\ done = <<"none", None>>

\* the pages c in memory once page p is q
WithPage(c, p, q) == [i \in DOMAIN c \cup {p} |-> IF i = p THEN q ELSE c[i]]

\* Mutant: only the cached page changes.
SavePageLater(p, q) ==
    /\ cache' = WithPage(cache, p, q)
    /\ disk' = IF p < Len(disk) THEN disk ELSE Append(disk, q)

\* the pages of the file once page p is q
Written(p, q) ==
    [i \in 1 .. IF p < Len(disk) THEN Len(disk) ELSE p + 1 |->
        IF i = p + 1 THEN q ELSE IF i <= Len(disk) THEN disk[i] ELSE ZeroPage]

\* save_page of page p, now q: a write past the end of the file leaves pages
\* of zeros before it
SavePage(p, q) ==
    /\ cache' = WithPage(cache, p, q)
    /\ disk' = Written(p, q)

Accepts(p, x) == InsertRecord(cache[p], x).ok

Compacted(T, x) == [p \in DOMAIN cache |->
                       IF p \in T THEN InsertRecord(cache[p], x).page ELSE cache[p]]

InsertCached(x) ==
    \E p \in DOMAIN cache, T \in SUBSET DOMAIN cache :
        /\ Accepts(p, x) /\ \A q \in T : ~Accepts(q, x)
        /\ LET r == InsertRecord(cache[p], x) IN
              /\ cache' = WithPage(Compacted(T, x), p, r.page)
              /\ disk' = Written(p, r.page)
              /\ done' = <<"insert", <<p, r.slot>>>>
    /\ UNCHANGED next

\* Mutant: a page that would have to be compacted is passed over.
NoneAcceptsLazily(x) == \A p \in DOMAIN cache : cache[p].start < Size[x]

NoneAccepts(x) == \A p \in DOMAIN cache : ~Accepts(p, x)

\* a record no cached page accepts goes to a new one
InsertNewPage(x) ==
    /\ NoneAccepts(x) /\ next < MaxPages
    /\ LET r == InsertRecord(NewPage, x) IN
          /\ r.ok
          /\ cache' = WithPage(Compacted(DOMAIN cache, x), next, r.page)
          /\ disk' = Written(next, r.page)
          /\ done' = <<"insert", <<next, r.slot>>>>
    /\ next' = next + 1

\* a record that does not even fit there has used up the page id
InsertRefused(x) ==
    /\ NoneAccepts(x) /\ next < MaxPages
    /\ ~InsertRecord(NewPage, x).ok
    /\ cache' = Compacted(DOMAIN cache, x)
    /\ next' = next + 1
    /\ UNCHANGED <<disk, done>>

Update ==
    \E p \in DOMAIN cache, s \in Slots, x \in Records :
        LET r == UpdateRecord(cache[p], s, x) IN
        /\ IF r.ok THEN SavePage(p, r.page) /\ done' = <<"update", <<p, s>>>>
           ELSE /\ cache' = [cache EXCEPT ![p] = r.page]
                /\ UNCHANGED <<disk, done>>
        /\ UNCHANGED next

Remove ==
    \E p \in DOMAIN cache : \E s \in Live(cache[p]) :
        /\ SavePage(p, DeleteRecord(cache[p], s))
        /\ done' = <<"delete", <<p, s>>>>
        /\ UNCHANGED next

\* Mutant: the page counter starts from 0 again.
RestartCountsAnew ==
    /\ cache' = [p \in 0 .. Len(disk) - 1 |-> disk[p + 1]]
    /\ next' = 0
    /\ UNCHANGED <<disk, done>>

\* close and open again, or a process that died: load_all_pages.  A page of
\* zeros passes verify_checksum, its checksum being 0.
Restart ==
    /\ cache' = [p \in 0 .. Len(disk) - 1 |-> disk[p + 1]]
    /\ next' = Len(disk)
    /\ LoadHoles \/ DOMAIN cache' = DOMAIN cache
    /\ UNCHANGED <<disk, done>>

Insert == \E x \in Records : InsertCached(x) \/ InsertNewPage(x) \/ InsertRefused(x)

Next == Insert \/ Update \/ Remove \/ Restart

Spec == Init /\ [][Next]_vars

(***************************************************************************)
(* Properties.                                                             *)
(***************************************************************************)
\* Nothing acknowledged is only in memory: the file holds the same records
\* under the same ids as the cache, so a restart at any moment loses none.
DiskIsCurrent ==
    \A p \in DOMAIN cache, s \in Slots : Stored(cache[p], s) = Stored(disk[p + 1], s)

\* The table as the engine sees it through read_record is a map from record
\* ids to records, before, across and after restarts.
Table == INSTANCE RecordMap WITH
    RecordIds <- PageIds \X Slots,
    rows <- [r \in PageIds \X Slots |->
                IF r[1] \in DOMAIN cache THEN Stored(cache[r[1]], r[2]) ELSE None]
IsRecordMap == Table!Spec

Packed(p) == Used(p) + Size[Stored(disk'[next + 1], 0)] > DataSize \/ Live(p) = Slots

\* The file grows only for a record that no page has room for, once its
\* deleted and moved records are squeezed out.
GrowsOnlyWhenFull ==
    [][Len(disk') > Len(disk) => \A p \in DOMAIN cache : Packed(cache[p])]_vars
=============================================================================
