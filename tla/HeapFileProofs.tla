---------------------------- MODULE HeapFileProofs ---------------------------
(***************************************************************************)
(* The properties of a heap file, for any number and size of pages and any *)
(* records, as long as no restart loads a page that was never written;     *)
(* where every record fits in an empty page, none can.                     *)
(*                                                                         *)
(* The inductive invariant is HeapInv: every cached page is in the file,   *)
(* both copies are well formed, and they hold the same records, though the *)
(* one in memory may have been compacted since it was saved.  If every     *)
(* record fits in an empty page, the file has no page but the cached ones  *)
(* and the counter names the page after its last.                          *)
(***************************************************************************)
EXTENDS HeapFile, PageOpsProofs

\* No record is too large for a page.
AllFit == \A x \in Records : InsertRecord(NewPage, x).ok

\* No page of the file is one that nobody wrote, or no restart loads it.
NoHoles == AllFit \/ ~LoadHoles

HeapInv ==
    /\ disk \in Seq(Pages \cup {ZeroPage})
    /\ next \in Nat /\ Len(disk) <= next /\ next <= MaxPages
    /\ DOMAIN cache \subseteq 0 .. Len(disk) - 1
    /\ \A p \in DOMAIN cache : /\ PageOK(cache[p]) /\ PageOK(disk[p + 1])
                               /\ RowsOf(disk[p + 1]) = RowsOf(cache[p])
    /\ AllFit => DOMAIN cache = 0 .. Len(disk) - 1 /\ next = Len(disk)

\* what read_record sees of page p
PageRows(p) == IF p \in DOMAIN cache THEN RowsOf(cache[p]) ELSE [s \in Slots |-> None]

\* The pages outside P read as before.
OthersKept(P) ==
    \A p \in DOMAIN cache \ P : PageOK(cache'[p]) /\ RowsOf(cache'[p]) = RowsOf(cache[p])

\* An operation that is done saves one page, in which one slot reads as y.
Does(op, p, s, y, q) ==
    /\ p \in PageIds /\ s \in Slots /\ PageOK(q)
    /\ RowsOf(q) = [PageRows(p) EXCEPT ![s] = y]
    /\ DOMAIN cache' = DOMAIN cache \cup {p} /\ cache'[p] = q /\ OthersKept({p})
    /\ disk' = Written(p, q)
    /\ next' \in Nat /\ next' <= MaxPages /\ p < next'
    /\ \/ p \in DOMAIN cache /\ next' = next
       \/ p = next /\ next' = next + 1
    /\ done' = <<op, <<p, s>>>>

Inserts == \E p, s, q : \E x \in Records : Does("insert", p, s, x, q) /\ PageRows(p)[s] = None
Updates == \E p, s, q : \E x \in Records : Does("update", p, s, x, q) /\ PageRows(p)[s] # None
Removes == \E p, s, q : Does("delete", p, s, None, q) /\ PageRows(p)[s] # None

\* One that is refused, or a restart, changes nothing that can be read.
Quiet ==
    /\ DOMAIN cache' = DOMAIN cache /\ OthersKept({})
    /\ disk' = disk /\ done' = done
    /\ next' \in Nat /\ Len(disk) <= next' /\ next' <= MaxPages
    /\ AllFit => next' = next

LEMMA PageInPages == ASSUME NEW p, PageOK(p) PROVE p \in Pages
  BY DEF PageOK, DataInv

LEMMA WrittenIs ==
    ASSUME HeapInv, NEW p \in Nat, NEW q \in Pages
    PROVE  /\ Written(p, q) \in Seq(Pages \cup {ZeroPage})
           /\ Len(Written(p, q)) = IF p < Len(disk) THEN Len(disk) ELSE p + 1
           /\ Written(p, q)[p + 1] = q
           /\ \A i \in 0 .. Len(disk) - 1 : i # p => Written(p, q)[i + 1] = disk[i + 1]
  <1> DEFINE S == Pages \cup {ZeroPage}
             n == IF p < Len(disk) THEN Len(disk) ELSE p + 1
             f == [i \in 1 .. n |->
                     IF i = p + 1 THEN q ELSE IF i <= Len(disk) THEN disk[i] ELSE ZeroPage]
  <1>1. Written(p, q) = f
    BY DEF Written
  <1>2. disk \in Seq(S) /\ Len(disk) \in Nat /\ n \in Nat /\ Len(disk) <= n /\ p + 1 <= n
    BY DEF HeapInv
  <1> HIDE DEF n
  <1>3. ASSUME NEW i \in 1 .. n PROVE f[i] \in S
    <2> HIDE DEF S
    <2>1. q \in S /\ ZeroPage \in S
      BY DEF S
    <2>2. i <= Len(disk) => disk[i] \in S
      BY <1>2
    <2> QED BY <2>1, <2>2
  <1>4. p + 1 \in 1 .. n /\ \A i \in 0 .. Len(disk) - 1 : i + 1 \in 1 .. n /\ i + 1 <= Len(disk)
    BY <1>2
  <1>5. f[p + 1] = q /\ \A i \in 0 .. Len(disk) - 1 : i # p => f[i + 1] = disk[i + 1]
    <2>1. f[p + 1] = q
      BY <1>4
    <2>2. ASSUME NEW i \in 0 .. Len(disk) - 1, i # p PROVE f[i + 1] = disk[i + 1]
      <3>1. i + 1 # p + 1
        BY <2>2
      <3> QED BY <1>4, <3>1
    <2> QED BY <2>1, <2>2
  <1>6. f \in [1 .. n -> S]
    BY <1>3
  <1> HIDE DEF f, S
  <1>7. f \in Seq(S) /\ Len(f) = n
    BY <1>2, <1>6
  <1> QED BY <1>1, <1>5, <1>7 DEF n, S

\* Such steps keep the invariant.
LEMMA DoesKeeps ==
    ASSUME HeapInv, NEW op, NEW p, NEW s, NEW y, NEW q, Does(op, p, s, y, q) PROVE HeapInv'
  <1>1. p \in Nat /\ q \in Pages
    BY PageInPages, BoundAssumption DEF Does, PageIds
  <1>2. /\ disk' \in Seq(Pages \cup {ZeroPage}) /\ disk'[p + 1] = q
        /\ Len(disk') = IF p < Len(disk) THEN Len(disk) ELSE p + 1
        /\ \A i \in 0 .. Len(disk) - 1 : i # p => disk'[i + 1] = disk[i + 1]
    <2>1. disk' = Written(p, q)
      BY DEF Does
    <2> QED BY <1>1, <2>1, WrittenIs
  <1>3. Len(disk) \in Nat /\ next \in Nat /\ Len(disk) <= next
    BY DEF HeapInv
  <1>4. next' \in Nat /\ Len(disk') <= next' /\ next' <= MaxPages
    BY <1>1, <1>2, <1>3, BoundAssumption DEF Does
  <1>5. DOMAIN cache' \subseteq 0 .. Len(disk') - 1
    <2>1. 0 .. Len(disk) - 1 \subseteq 0 .. Len(disk') - 1 /\ p \in 0 .. Len(disk') - 1
      BY <1>1, <1>2, <1>3
    <2> QED BY <2>1 DEF Does, HeapInv
  <1>6. ASSUME NEW i \in DOMAIN cache'
        PROVE  /\ PageOK(cache'[i]) /\ PageOK(disk'[i + 1])
               /\ RowsOf(disk'[i + 1]) = RowsOf(cache'[i])
    <2>1. CASE i = p
      BY <1>2, <2>1 DEF Does
    <2>2. CASE i # p
      <3>1. i \in DOMAIN cache \ {p} /\ i \in 0 .. Len(disk) - 1
        BY <1>6, <2>2 DEF Does, HeapInv
      <3>2. disk'[i + 1] = disk[i + 1]
        BY <1>2, <2>2, <3>1
      <3>3. PageOK(cache'[i]) /\ RowsOf(cache'[i]) = RowsOf(cache[i])
        BY <3>1 DEF Does, OthersKept
      <3>4. PageOK(disk[i + 1]) /\ RowsOf(disk[i + 1]) = RowsOf(cache[i])
        BY <3>1 DEF HeapInv
      <3> QED BY <3>2, <3>3, <3>4
    <2> QED BY <2>1, <2>2
  <1>7. AllFit' => DOMAIN cache' = 0 .. Len(disk') - 1 /\ next' = Len(disk')
    <2> SUFFICES ASSUME AllFit PROVE DOMAIN cache' = 0 .. Len(disk') - 1 /\ next' = Len(disk')
      BY DEF AllFit
    <2>1. DOMAIN cache = 0 .. Len(disk) - 1 /\ next = Len(disk)
      BY DEF HeapInv
    <2>2. DOMAIN cache' = DOMAIN cache \cup {p}
      BY DEF Does
    <2>3. CASE p \in DOMAIN cache /\ next' = next
      BY <1>2, <1>3, <2>1, <2>2, <2>3
    <2>4. CASE p = next /\ next' = next + 1
      <3>1. Len(disk') = Len(disk) + 1 /\ p = Len(disk)
        BY <1>2, <1>3, <2>1, <2>4
      <3>2. 0 .. Len(disk) = 0 .. Len(disk) - 1 \cup {Len(disk)}
        BY <1>3
      <3> QED BY <1>3, <2>1, <2>2, <2>4, <3>1, <3>2
    <2> QED BY <2>3, <2>4 DEF Does
  <1> QED BY <1>2, <1>4, <1>5, <1>6, <1>7 DEF HeapInv

LEMMA QuietKeeps == HeapInv /\ Quiet => HeapInv'
  BY DEF HeapInv, Quiet, OthersKept, AllFit

(***************************************************************************)
(* The steps.                                                              *)
(***************************************************************************)
\* The pages a record was tried on are at most compacted.
LEMMA CompactedKept ==
    ASSUME HeapInv, NEW T, NEW x \in Records, \A p \in T : ~Accepts(p, x), NEW p \in DOMAIN cache
    PROVE  /\ PageOK(Compacted(T, x)[p]) /\ RowsOf(Compacted(T, x)[p]) = RowsOf(cache[p])
           /\ DOMAIN Compacted(T, x) = DOMAIN cache
  <1>1. PageOK(cache[p])
    BY DEF HeapInv
  <1>2. Compacted(T, x)[p] = IF p \in T THEN InsertRecord(cache[p], x).page ELSE cache[p]
    BY DEF Compacted
  <1>3. CASE p \in T
    <2>1. ~InsertRecord(cache[p], x).ok
      BY <1>3 DEF Accepts
    <2> QED BY <1>1, <1>2, <1>3, <2>1, InsertEffect DEF Compacted
  <1>4. CASE p \notin T
    BY <1>1, <1>2, <1>4 DEF Compacted
  <1> QED BY <1>3, <1>4

LEMMA InsertCachedDoes ==
    ASSUME HeapInv, NEW x \in Records, InsertCached(x) PROVE Inserts
  <1>1. PICK p \in DOMAIN cache, T \in SUBSET DOMAIN cache :
           /\ Accepts(p, x) /\ \A t \in T : ~Accepts(t, x)
           /\ cache' = WithPage(Compacted(T, x), p, InsertRecord(cache[p], x).page)
           /\ disk' = Written(p, InsertRecord(cache[p], x).page)
           /\ done' = <<"insert", <<p, InsertRecord(cache[p], x).slot>>>>
           /\ next' = next
    BY DEF InsertCached
  <1> DEFINE r == InsertRecord(cache[p], x)
  <1>2. /\ PageOK(r.page) /\ r.slot \in Slots \ Live(cache[p])
        /\ RowsOf(r.page) = [RowsOf(cache[p]) EXCEPT ![r.slot] = x]
    BY <1>1, InsertEffect DEF HeapInv, Accepts
  <1>3. RowsOf(cache[p])[r.slot] = None
    BY <1>2, StoredLive DEF HeapInv, PageOK, RowsOf
  <1> HIDE DEF r
  <1>4. /\ DOMAIN cache' = DOMAIN cache \cup {p} /\ cache'[p] = r.page
        /\ \A t \in DOMAIN cache \ {p} : cache'[t] = Compacted(T, x)[t]
    <2>1. cache' = WithPage(Compacted(T, x), p, r.page)
      BY <1>1 DEF r
    <2>2. DOMAIN Compacted(T, x) = DOMAIN cache
      BY DEF Compacted
    <2> QED BY <2>1, <2>2 DEF WithPage
  <1>5. OthersKept({p})
    <2>1. \A t \in DOMAIN cache : /\ PageOK(Compacted(T, x)[t])
                                  /\ RowsOf(Compacted(T, x)[t]) = RowsOf(cache[t])
      BY <1>1, CompactedKept
    <2> QED BY <1>4, <2>1 DEF OthersKept
  <1>6. p \in PageIds /\ p < next /\ next \in Nat /\ next <= MaxPages
    BY BoundAssumption DEF HeapInv, PageIds
  <1>7. Does("insert", p, r.slot, x, r.page)
    <2>1. disk' = Written(p, r.page) /\ done' = <<"insert", <<p, r.slot>>>> /\ next' = next
      BY <1>1 DEF r
    <2>2. PageRows(p) = RowsOf(cache[p])
      BY DEF PageRows
    <2> QED BY <1>2, <1>4, <1>5, <1>6, <2>1, <2>2 DEF Does
  <1> QED BY <1>3, <1>7 DEF PageRows, Inserts

\* A new page is tried when no cached one accepts the record.
LEMMA NewPageEffect ==
    ASSUME NEW x \in Records, NEW r, r = InsertRecord(NewPage, x), r.ok
    PROVE  /\ PageOK(r.page) /\ r.slot = 0 /\ r.slot \in Slots
           /\ RowsOf(r.page) = [[s \in Slots |-> None] EXCEPT ![r.slot] = x]
  <1>1. /\ PageOK(r.page) /\ r.slot \in Slots
        /\ RowsOf(r.page) = [RowsOf(NewPage) EXCEPT ![r.slot] = x]
        /\ Used(NewPage) + Size[x] <= DataSize
    <2>1. PageOK(NewPage)
      BY NewPageOK
    <2> QED BY <2>1, InsertEffect
  <1>2. Size[x] \in Nat /\ DataSize \in Nat
    BY SizeAssumption, SlotNumbers
  <1>3. Size[x] <= DataSize
    <2>1. Used(NewPage) = 0 /\ Used(NewPage) + Size[x] <= DataSize
      BY <1>1, NewPageOK
    <2> QED BY <1>2, <2>1
  <1>4. ~(NewPage.start < Size[x])
    BY <1>2, <1>3 DEF NewPage
  <1>5. r.slot = FreeSlot(NewPage)
    BY <1>4 DEF InsertRecord
  <1>6. FreeSlot(NewPage) = 0 /\ RowsOf(NewPage) = [s \in Slots |-> None]
    BY <1>1, NewPageOK
  <1> QED BY <1>1, <1>5, <1>6

LEMMA InsertNewPageDoes ==
    ASSUME HeapInv, NEW x \in Records, InsertNewPage(x)
    PROVE  /\ Inserts
           /\ RowsOf(disk'[next + 1])[0] = x /\ 0 \in Slots
  <1> DEFINE r == InsertRecord(NewPage, x)
  <1>1. /\ NoneAccepts(x) /\ next < MaxPages /\ r.ok
        /\ cache' = WithPage(Compacted(DOMAIN cache, x), next, r.page)
        /\ disk' = Written(next, r.page) /\ done' = <<"insert", <<next, r.slot>>>>
        /\ next' = next + 1
    BY DEF InsertNewPage
  <1>2. /\ PageOK(r.page) /\ r.slot = 0 /\ r.slot \in Slots
        /\ RowsOf(r.page) = [[s \in Slots |-> None] EXCEPT ![r.slot] = x]
    BY <1>1, NewPageEffect
  <1> HIDE DEF r
  <1>3. next \in Nat /\ next \notin DOMAIN cache /\ next \in PageIds /\ MaxPages \in Nat
    BY <1>1, BoundAssumption DEF HeapInv, PageIds
  <1>4. /\ DOMAIN cache' = DOMAIN cache \cup {next} /\ cache'[next] = r.page
        /\ \A t \in DOMAIN cache \ {next} : cache'[t] = Compacted(DOMAIN cache, x)[t]
    <2>1. DOMAIN Compacted(DOMAIN cache, x) = DOMAIN cache
      BY DEF Compacted
    <2> QED BY <1>1, <2>1 DEF WithPage
  <1>5. OthersKept({next})
    <2>1. \A t \in DOMAIN cache : /\ PageOK(Compacted(DOMAIN cache, x)[t])
                                  /\ RowsOf(Compacted(DOMAIN cache, x)[t]) = RowsOf(cache[t])
      BY <1>1, CompactedKept DEF NoneAccepts
    <2> QED BY <1>4, <2>1 DEF OthersKept
  <1>6. PageRows(next) = [s \in Slots |-> None]
    BY <1>3 DEF PageRows
  <1>7. Does("insert", next, r.slot, x, r.page)
    <2>1. next' \in Nat /\ next <= next' /\ next' <= MaxPages /\ next < next'
      BY <1>1, <1>3
    <2> QED BY <1>1, <1>2, <1>3, <1>4, <1>5, <1>6, <2>1 DEF Does
  <1>8. PageRows(next)[r.slot] = None
    BY <1>2, <1>6
  <1>9. disk'[next + 1] = r.page
    BY <1>1, <1>2, <1>3, PageInPages, WrittenIs
  <1>10. RowsOf(r.page)[0] = x
    BY <1>2
  <1>11. Inserts
    BY <1>7, <1>8 DEF Inserts
  <1> QED BY <1>2, <1>9, <1>10, <1>11

LEMMA InsertRefusedQuiet == ASSUME HeapInv, NEW x \in Records, InsertRefused(x) PROVE Quiet
  <1>1. /\ NoneAccepts(x) /\ next < MaxPages /\ cache' = Compacted(DOMAIN cache, x)
        /\ next' = next + 1 /\ disk' = disk /\ done' = done
    BY DEF InsertRefused
  <1>2. \A t \in DOMAIN cache : /\ PageOK(Compacted(DOMAIN cache, x)[t])
                                /\ RowsOf(Compacted(DOMAIN cache, x)[t]) = RowsOf(cache[t])
    BY <1>1, CompactedKept DEF NoneAccepts
  <1>3. DOMAIN cache' = DOMAIN cache /\ OthersKept({})
    BY <1>1, <1>2 DEF OthersKept, Compacted
  <1>4. next' \in Nat /\ Len(disk) <= next' /\ next' <= MaxPages
    BY <1>1, BoundAssumption DEF HeapInv
  <1>5. ~AllFit
    BY DEF InsertRefused, AllFit
  <1> QED BY <1>1, <1>3, <1>4, <1>5 DEF Quiet

\* save_page of a cached page.
LEMMA SavePageDoes ==
    ASSUME HeapInv, NEW op, NEW p \in DOMAIN cache, NEW s \in Slots, NEW y, NEW q, PageOK(q),
           RowsOf(q) = [RowsOf(cache[p]) EXCEPT ![s] = y],
           SavePage(p, q), next' = next, done' = <<op, <<p, s>>>>
    PROVE  Does(op, p, s, y, q)
  <1>1. /\ DOMAIN cache' = DOMAIN cache \cup {p} /\ cache'[p] = q
        /\ \A t \in DOMAIN cache \ {p} : cache'[t] = cache[t]
    <2>1. cache' = WithPage(cache, p, q)
      BY DEF SavePage
    <2> QED BY <2>1 DEF WithPage
  <1>2. OthersKept({p})
    BY <1>1 DEF OthersKept, HeapInv
  <1>3. p \in PageIds /\ p < next /\ next \in Nat /\ next <= MaxPages
    BY BoundAssumption DEF HeapInv, PageIds
  <1> QED BY <1>1, <1>2, <1>3 DEF Does, SavePage, PageRows

LEMMA UpdateDoes == ASSUME HeapInv, Update PROVE Quiet \/ Updates
  <1>1. PICK p \in DOMAIN cache, s \in Slots, x \in Records :
           /\ IF UpdateRecord(cache[p], s, x).ok
              THEN SavePage(p, UpdateRecord(cache[p], s, x).page) /\ done' = <<"update", <<p, s>>>>
              ELSE /\ cache' = [cache EXCEPT ![p] = UpdateRecord(cache[p], s, x).page]
                   /\ disk' = disk /\ done' = done
           /\ next' = next
    BY DEF Update
  <1> DEFINE r == UpdateRecord(cache[p], s, x)
  <1>2. /\ PageOK(r.page)
        /\ r.ok => s \in Live(cache[p]) /\ RowsOf(r.page) = [RowsOf(cache[p]) EXCEPT ![s] = x]
        /\ ~r.ok => RowsOf(r.page) = RowsOf(cache[p])
    BY UpdateEffect DEF HeapInv
  <1> HIDE DEF r
  <1>3. CASE r.ok
    <2>1. Does("update", p, s, x, r.page)
      BY <1>1, <1>2, <1>3, SavePageDoes DEF r
    <2>2. RowsOf(cache[p])[s] # None
      BY <1>2, <1>3, StoredLive DEF HeapInv, PageOK, RowsOf
    <2> QED BY <2>1, <2>2 DEF PageRows, Updates
  <1>4. CASE ~r.ok
    <2>1. cache' = [cache EXCEPT ![p] = r.page] /\ disk' = disk /\ done' = done /\ next' = next
      BY <1>1, <1>4 DEF r
    <2>2. DOMAIN cache' = DOMAIN cache /\ OthersKept({})
      BY <1>2, <1>4, <2>1 DEF OthersKept, HeapInv
    <2> QED BY <2>1, <2>2 DEF Quiet, HeapInv
  <1> QED BY <1>3, <1>4

LEMMA RemoveDoes == ASSUME HeapInv, Remove PROVE Removes
  <1>1. PICK p \in DOMAIN cache : \E s \in Live(cache[p]) :
           /\ SavePage(p, DeleteRecord(cache[p], s))
           /\ done' = <<"delete", <<p, s>>>> /\ next' = next
    BY DEF Remove
  <1>2. PICK s \in Live(cache[p]) :
           /\ SavePage(p, DeleteRecord(cache[p], s))
           /\ done' = <<"delete", <<p, s>>>> /\ next' = next
    BY <1>1
  <1> DEFINE q == DeleteRecord(cache[p], s)
  <1>3. PageOK(q) /\ RowsOf(q) = [RowsOf(cache[p]) EXCEPT ![s] = None] /\ s \in Slots
    BY DeleteEffect DEF HeapInv, Live
  <1> HIDE DEF q
  <1>4. Does("delete", p, s, None, q)
    BY <1>2, <1>3, SavePageDoes DEF q
  <1>5. RowsOf(cache[p])[s] # None
    BY <1>3, StoredLive DEF HeapInv, PageOK, RowsOf
  <1> QED BY <1>4, <1>5 DEF PageRows, Removes

\* What a restart loads is what was in memory.
LEMMA RestartQuiet == ASSUME HeapInv, NoHoles, Restart PROVE Quiet
  <1>1. /\ cache' = [p \in 0 .. Len(disk) - 1 |-> disk[p + 1]] /\ next' = Len(disk)
        /\ DOMAIN cache' = DOMAIN cache /\ disk' = disk /\ done' = done
    BY DEF Restart, HeapInv, NoHoles
  <1>2. \A p \in DOMAIN cache : cache'[p] = disk[p + 1]
    BY <1>1
  <1>3. OthersKept({})
    BY <1>2 DEF OthersKept, HeapInv
  <1>4. next' \in Nat /\ Len(disk) <= next' /\ next' <= MaxPages /\ (AllFit => next' = next)
    BY <1>1, BoundAssumption DEF HeapInv
  <1> QED BY <1>1, <1>3, <1>4 DEF Quiet

LEMMA Steps ==
    ASSUME HeapInv, NoHoles, Next PROVE Quiet \/ Inserts \/ Updates \/ Removes
  <1>1. CASE Insert
    <2>1. PICK x \in Records : InsertCached(x) \/ InsertNewPage(x) \/ InsertRefused(x)
      BY <1>1 DEF Insert
    <2>2. CASE InsertCached(x)
      BY <2>2, InsertCachedDoes
    <2>3. CASE InsertNewPage(x)
      BY <2>3, InsertNewPageDoes
    <2>4. CASE InsertRefused(x)
      BY <2>4, InsertRefusedQuiet
    <2> QED BY <2>1, <2>2, <2>3, <2>4
  <1>2. CASE Update
    BY <1>2, UpdateDoes
  <1>3. CASE Remove
    BY <1>3, RemoveDoes
  <1>4. CASE Restart
    BY <1>4, RestartQuiet
  <1> QED BY <1>1, <1>2, <1>3, <1>4 DEF Next

(***************************************************************************)
(* The properties.                                                         *)
(***************************************************************************)
\* Every page in memory is in the file, with the same records.
THEOREM HeapInvariant == ASSUME NoHoles PROVE Spec => []HeapInv
  <1>1. Init => HeapInv
    BY BoundAssumption DEF Init, HeapInv
  <1>2. HeapInv /\ [Next]_vars => HeapInv'
    <2> SUFFICES ASSUME HeapInv, [Next]_vars PROVE HeapInv'
      OBVIOUS
    <2>1. CASE Next
      BY <2>1, Steps, QuietKeeps, DoesKeeps DEF Inserts, Updates, Removes
    <2>2. CASE UNCHANGED vars
      BY <2>2 DEF vars, HeapInv
    <2> QED BY <2>1, <2>2
  <1> QED BY <1>1, <1>2, PTL DEF Spec

\* Nothing that was acknowledged is in memory only: a restart at any moment finds
\* every record under its id.
THEOREM DiskHoldsAll == ASSUME NoHoles PROVE Spec => []DiskIsCurrent
  <1>1. HeapInv => DiskIsCurrent
    <2> SUFFICES ASSUME HeapInv, NEW p \in DOMAIN cache, NEW s \in Slots
                 PROVE  Stored(cache[p], s) = Stored(disk[p + 1], s)
      BY DEF DiskIsCurrent
    <2>1. RowsOf(disk[p + 1])[s] = RowsOf(cache[p])[s]
      BY DEF HeapInv
    <2> QED BY <2>1 DEF RowsOf
  <1> QED BY <1>1, HeapInvariant, PTL

\* The file gets a new page only for a record that no page has room for, even
\* with all its deleted and moved records squeezed out.
THEOREM GrowthIsJust == ASSUME NoHoles PROVE Spec => GrowsOnlyWhenFull
  <1>1. ASSUME HeapInv, [Next]_vars
        PROVE  [Len(disk') > Len(disk) => \A p \in DOMAIN cache : Packed(cache[p])]_vars
    <2> SUFFICES ASSUME Next, Len(disk') > Len(disk), NEW p \in DOMAIN cache
                 PROVE  Packed(cache[p])
      BY <1>1
    <2>0. Len(disk) \in Nat /\ DOMAIN cache \subseteq 0 .. Len(disk) - 1
      BY <1>1 DEF HeapInv
    <2>1. ASSUME NEW i \in DOMAIN cache, NEW q, PageOK(q), disk' = Written(i, q) PROVE FALSE
      <3>1. i \in Nat /\ i < Len(disk)
        BY <2>0
      <3>2. Len(disk') = Len(disk)
        BY <1>1, <2>1, <3>1, PageInPages, WrittenIs
      <3> QED BY <2>0, <3>2
    <2>2. disk' # disk
      BY <2>0
    <2>3. CASE Insert
      <3>1. PICK x \in Records : InsertCached(x) \/ InsertNewPage(x) \/ InsertRefused(x)
        BY <2>3 DEF Insert
      <3>2. CASE InsertCached(x)
        <4>1. PICK i \in DOMAIN cache : Accepts(i, x)
                                        /\ disk' = Written(i, InsertRecord(cache[i], x).page)
          BY <3>2 DEF InsertCached
        <4>2. PageOK(InsertRecord(cache[i], x).page)
          BY <1>1, InsertEffect DEF HeapInv
        <4> QED BY <2>1, <4>1, <4>2
      <3>3. CASE InsertNewPage(x)
        <4>1. Stored(disk'[next + 1], 0) = x
          <5>1. RowsOf(disk'[next + 1])[0] = x /\ 0 \in Slots
            BY <1>1, <3>3, InsertNewPageDoes
          <5> QED BY <5>1 DEF RowsOf
        <4>2. PageOK(cache[p]) /\ ~InsertRecord(cache[p], x).ok
          BY <1>1, <3>3 DEF HeapInv, InsertNewPage, NoneAccepts, Accepts
        <4>3. ~(Used(cache[p]) + Size[x] <= DataSize) \/ Live(cache[p]) = Slots
          BY <4>2, InsertEffect
        <4>4. Used(cache[p]) \in Nat /\ Size[x] \in Nat /\ DataSize \in Nat
          BY <4>2, PageInPages, WritePosFacts, SizeAssumption, SlotNumbers
        <4> QED BY <4>1, <4>3, <4>4 DEF Packed
      <3>4. CASE InsertRefused(x)
        BY <2>2, <3>4 DEF InsertRefused
      <3> QED BY <3>1, <3>2, <3>3, <3>4
    <2>4. CASE Update
      <3>1. PICK i \in DOMAIN cache, s \in Slots, x \in Records :
               disk' = Written(i, UpdateRecord(cache[i], s, x).page) \/ disk' = disk
        BY <2>4 DEF Update, SavePage
      <3>2. PageOK(UpdateRecord(cache[i], s, x).page)
        BY <1>1, UpdateEffect DEF HeapInv
      <3> QED BY <2>1, <2>2, <3>1, <3>2
    <2>5. CASE Remove
      <3>1. PICK i \in DOMAIN cache : \E s \in Live(cache[i]) :
               disk' = Written(i, DeleteRecord(cache[i], s))
        BY <2>5 DEF Remove, SavePage
      <3>2. PICK s \in Live(cache[i]) : disk' = Written(i, DeleteRecord(cache[i], s))
        BY <3>1
      <3>3. PageOK(DeleteRecord(cache[i], s))
        BY <1>1, DeleteEffect DEF HeapInv
      <3> QED BY <2>1, <3>2, <3>3
    <2>6. CASE Restart
      BY <2>2, <2>6 DEF Restart
    <2> QED BY <2>3, <2>4, <2>5, <2>6 DEF Next
  <1> QED BY <1>1, HeapInvariant, PTL DEF Spec, GrowsOnlyWhenFull

(***************************************************************************)
(* The refinement.                                                         *)
(***************************************************************************)
rows == [r \in PageIds \X Slots |->
           IF r[1] \in DOMAIN cache THEN Stored(cache[r[1]], r[2]) ELSE None]

LEMMA RowsAre == \A p \in PageIds, s \in Slots : rows[<<p, s>>] = PageRows(p)[s]
  BY DEF rows, PageRows, RowsOf

\* A step that is done changes what one id reads as.
LEMMA DoesChangesRows ==
    ASSUME HeapInv, NEW op, NEW p, NEW s, NEW y, NEW q, Does(op, p, s, y, q)
    PROVE  rows' = [rows EXCEPT ![<<p, s>>] = y] /\ <<p, s>> \in PageIds \X Slots
  <1>0. p \in PageIds /\ s \in Slots
    BY DEF Does
  <1>1. ASSUME NEW i \in PageIds, NEW t \in Slots
        PROVE  rows'[<<i, t>>] = IF i = p /\ t = s THEN y ELSE rows[<<i, t>>]
    <2>1. rows[<<i, t>>] = IF i \in DOMAIN cache THEN RowsOf(cache[i])[t] ELSE None
      BY DEF rows, RowsOf
    <2>2. rows'[<<i, t>>] = IF i \in DOMAIN cache' THEN RowsOf(cache'[i])[t] ELSE None
      BY DEF rows, RowsOf
    <2>3. CASE i = p
      <3>1. i \in DOMAIN cache' /\ RowsOf(cache'[i]) = [PageRows(p) EXCEPT ![s] = y]
        BY <2>3 DEF Does
      <3>2. PageRows(p)[t] = rows[<<i, t>>] /\ DOMAIN PageRows(p) = Slots
        BY <2>1, <2>3 DEF PageRows, RowsOf
      <3> QED BY <2>2, <2>3, <3>1, <3>2
    <2>4. CASE i # p
      <3>1. i \in DOMAIN cache' <=> i \in DOMAIN cache
        BY <2>4 DEF Does
      <3>2. i \in DOMAIN cache => RowsOf(cache'[i]) = RowsOf(cache[i])
        BY <2>4 DEF Does, OthersKept
      <3> QED BY <2>1, <2>2, <2>4, <3>1, <3>2
    <2> QED BY <2>3, <2>4
  <1>2. ASSUME NEW r \in PageIds \X Slots
        PROVE  rows'[r] = IF r = <<p, s>> THEN y ELSE rows[r]
    <2>1. PICK i \in PageIds, t \in Slots : r = <<i, t>>
      OBVIOUS
    <2> QED BY <1>1, <2>1
  <1>3. DOMAIN rows = PageIds \X Slots /\ rows' = [r \in PageIds \X Slots |-> rows'[r]]
    BY DEF rows
  <1> HIDE DEF rows
  <1> QED BY <1>0, <1>2, <1>3

LEMMA QuietKeepsRows == Quiet => rows' = rows
  BY DEF Quiet, OthersKept, rows, RowsOf

\* The table is a map from record ids to records, across pages, compactions and
\* restarts: every step is one of the map or changes nothing that can be read.
THEOREM HeapIsRecordMap == ASSUME NoHoles PROVE Spec => IsRecordMap
  <1>1. Init => Table!Init
    BY DEF Init, Table!Init
  <1>2. HeapInv /\ [Next]_vars => [Table!Next]_<<rows, done>>
    <2> SUFFICES ASSUME HeapInv, [Next]_vars PROVE [Table!Next]_<<rows, done>>
      OBVIOUS
    <2>1. CASE Quiet
      BY <2>1, QuietKeepsRows DEF Quiet
    <2>2. ASSUME NEW p, NEW s, NEW q, NEW x \in Records, Does("insert", p, s, x, q),
                 PageRows(p)[s] = None
          PROVE  Table!Next
      <3>1. rows' = [rows EXCEPT ![<<p, s>>] = x] /\ <<p, s>> \in PageIds \X Slots
        BY <2>2, DoesChangesRows
      <3>2. rows[<<p, s>>] = None /\ done' = <<"insert", <<p, s>>>>
        BY <2>2, <3>1, RowsAre DEF Does
      <3> QED BY <3>1, <3>2 DEF Table!Next, Table!Insert, rows
    <2>3. ASSUME NEW p, NEW s, NEW q, NEW x \in Records, Does("update", p, s, x, q),
                 PageRows(p)[s] # None
          PROVE  Table!Next
      <3>1. rows' = [rows EXCEPT ![<<p, s>>] = x] /\ <<p, s>> \in PageIds \X Slots
        BY <2>3, DoesChangesRows
      <3>2. rows[<<p, s>>] # None /\ done' = <<"update", <<p, s>>>>
        BY <2>3, <3>1, RowsAre DEF Does
      <3> QED BY <3>1, <3>2 DEF Table!Next, Table!Update, rows
    <2>4. ASSUME NEW p, NEW s, NEW q, Does("delete", p, s, None, q), PageRows(p)[s] # None
          PROVE  Table!Next
      <3>1. rows' = [rows EXCEPT ![<<p, s>>] = None] /\ <<p, s>> \in PageIds \X Slots
        BY <2>4, DoesChangesRows
      <3>2. rows[<<p, s>>] # None /\ done' = <<"delete", <<p, s>>>>
        BY <2>4, <3>1, RowsAre DEF Does
      <3> QED BY <3>1, <3>2 DEF Table!Next, Table!Delete, rows
    <2>5. CASE UNCHANGED vars
      BY <2>5 DEF vars, rows
    <2>6. CASE Next
      BY <2>1, <2>2, <2>3, <2>4, <2>6, Steps DEF Inserts, Updates, Removes
    <2> QED BY <2>5, <2>6
  <1> QED BY <1>1, <1>2, HeapInvariant, PTL DEF Spec, IsRecordMap, Table!Spec, rows
=============================================================================
