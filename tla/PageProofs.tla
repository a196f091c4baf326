----------------------------- MODULE PageProofs ------------------------------
(***************************************************************************)
(* The properties of a slotted page, for pages of any size, any number of  *)
(* slots and any records.  The inductive invariant is PageOK: the records  *)
(* lie apart, the free space is no larger than what they leave, and the    *)
(* free slots that were ever used are linked in one list.                  *)
(***************************************************************************)
EXTENDS Page, PageOpsProofs, FiniteSetTheorems

PageInv == PageOK(page)

\* Every page that inserts, updates and deletes can make is well formed.
THEOREM PageInvariant == Spec => []PageInv
  <1>1. Init => PageInv
    BY NewPageOK DEF Init, PageInv
  <1>2. PageInv /\ [Next]_vars => PageInv'
    <2> SUFFICES ASSUME PageInv, [Next]_vars PROVE PageInv'
      OBVIOUS
    <2>1. CASE Insert
      <3>1. PICK x \in Records : page' = InsertRecord(page, x).page
        BY <2>1 DEF Insert
      <3> QED BY <3>1, InsertEffect DEF PageInv
    <2>2. CASE Update
      BY <2>2, UpdateEffect DEF PageInv, Update
    <2>3. CASE Delete
      BY <2>3, DeleteEffect DEF PageInv, Delete
    <2>4. CASE UNCHANGED vars
      BY <2>4 DEF PageInv, vars
    <2> QED BY <2>1, <2>2, <2>3, <2>4 DEF Next
  <1> QED BY <1>1, <1>2, PTL DEF Spec

\* No insert and no compaction writes over a live record: the records of a page
\* never overlap each other or its free space.
THEOREM RecordsLieApart == Spec => []RecordsApart
  <1>1. PageInv => RecordsApart
    <2> SUFFICES ASSUME PageInv PROVE RecordsApart
      OBVIOUS
    <2>1. ASSUME NEW s \in Live(page)
          PROVE  /\ page.slot[s].offset \in Nat /\ page.slot[s].length \in Nat
                 /\ page.start <= page.slot[s].offset /\ page.start \in Nat
                 /\ page.slot[s].offset + page.slot[s].length <= DataSize /\ DataSize \in Nat
      BY CapacityAssumption DEF PageInv, PageOK, DataInv, Within, Pages, Slot, Live
    <2>2. ASSUME NEW s \in Live(page) PROVE Extent(page, s) \subseteq page.start .. DataSize - 1
      BY <2>1 DEF Extent
    <2>3. ASSUME NEW s \in Live(page), NEW t \in Live(page) \ {s}
          PROVE  Extent(page, s) \cap Extent(page, t) = {}
      <3>1. Beside(page, s, t)
        BY DEF PageInv, PageOK, DataInv
      <3> QED BY <2>1, <3>1 DEF Beside, Extent
    <2> QED BY <2>2, <2>3 DEF RecordsApart
  <1> QED BY <1>1, PageInvariant, PTL

\* A page turns a record away only when it is full, and takes it only when it
\* fits, however its records lie: a compaction recovers every free byte.
THEOREM RefusalsAreJust == Spec => []RefusesOnlyWhenFull
  <1>1. PageInv => RefusesOnlyWhenFull
    <2> SUFFICES ASSUME PageInv PROVE RefusesOnlyWhenFull
      OBVIOUS
    <2>1. ASSUME NEW x \in Records
          PROVE  InsertRecord(page, x).ok <=> Used(page) + Size[x] <= DataSize /\ Live(page) # Slots
      BY InsertEffect DEF PageInv
    <2>2. ASSUME NEW x \in Records, NEW s \in Live(page)
          PROVE  LET ok == UpdateRecord(page, s, x).ok IN
                 /\ Used(page) + Size[x] <= DataSize => ok
                 /\ ok => Used(page) - page.slot[s].length + Size[x] <= DataSize
      <3>1. s \in Slots
        BY DEF Live
      <3> QED BY <3>1, UpdateEffect DEF PageInv
    <2> QED BY <2>1, <2>2 DEF RefusesOnlyWhenFull
  <1> QED BY <1>1, PageInvariant, PTL

(***************************************************************************)
(* The free list.                                                          *)
(***************************************************************************)
\* Following the links from the head visits the slots of the list in turn.
LEMMA ChainIs ==
    ASSUME NEW k, NEW c, Links(page, c, k)
    PROVE  Chain[MaxSlots] = c /\ Len(c) = k
  <1> DEFINE B(g, n) == IF n = 0 THEN <<>>
                        ELSE LET d == g[n - 1]
                                 next == IF d = <<>> THEN page.head
                                         ELSE page.slot[d[Len(d)]].offset
                             IN  IF Len(d) < n - 1 \/ next = Nil THEN d ELSE Append(d, next)
             E(g) == [n \in 0 .. MaxSlots |-> B(g, n)]
             m(n) == IF n < k THEN n ELSE k
             f == [n \in 0 .. MaxSlots |-> [i \in 1 .. m(n) |-> c[i]]]
  <1>0. /\ k \in Nat /\ MaxSlots \in Nat /\ c \in [1 .. k -> Slots]
        /\ \A i, j \in 1 .. k : c[i] = c[j] => i = j
    BY SlotNumbers DEF Links
  <1>1. k <= MaxSlots
    <2>1. /\ IsFiniteSet(1 .. k) /\ Cardinality(1 .. k) = k
          /\ IsFiniteSet(Slots) /\ Cardinality(Slots) = MaxSlots
      <3>1. 1 \in Int /\ k \in Int /\ 0 \in Int /\ MaxSlots - 1 \in Int
        BY <1>0
      <3>2. IsFiniteSet(1 .. k) /\ Cardinality(1 .. k) = IF 1 > k THEN 0 ELSE k - 1 + 1
        BY <3>1, FS_Interval
      <3>3. /\ IsFiniteSet(Slots)
            /\ Cardinality(Slots) = IF 0 > MaxSlots - 1 THEN 0 ELSE (MaxSlots - 1) - 0 + 1
        BY <3>1, FS_Interval DEF Slots
      <3> QED BY <1>0, <3>2, <3>3
    <2> SUFFICES ASSUME MaxSlots < k PROVE FALSE
      BY <1>0
    <2>2. \E x, y \in 1 .. k : x # y /\ c[x] = c[y]
      BY <1>0, <2>1, FS_PigeonHole
    <2> QED BY <1>0, <2>2
  <1>2. ASSUME NEW n \in 0 .. MaxSlots
        PROVE  /\ f[n] \in Seq(Slots) /\ Len(f[n]) = m(n) /\ m(n) \in 0 .. k
               /\ \A i \in 1 .. m(n) : f[n][i] = c[i]
    <2>1. f[n] = [i \in 1 .. m(n) |-> c[i]]
      OBVIOUS
    <2>2. m(n) \in 0 .. k
      BY <1>0
    <2> HIDE DEF f, m
    <2>3. f[n] \in [1 .. m(n) -> Slots] /\ m(n) \in Nat
      BY <1>0, <2>1, <2>2
    <2>4. f[n] \in Seq(Slots) /\ Len(f[n]) = m(n)
      BY <2>3
    <2> QED BY <2>1, <2>2, <2>4
  <1>3. ASSUME NEW n \in 0 .. MaxSlots PROVE f[n] = B(f, n)
    <2>1. CASE n = 0
      <3>1. f[0] = <<>>
        <4>1. 0 \in 0 .. MaxSlots /\ m(0) = 0
          BY <1>0
        <4> HIDE DEF f
        <4> QED BY <1>2, <4>1
      <3> QED BY <2>1, <3>1
    <2>2. CASE n # 0
      <3> DEFINE d == f[n - 1]
                 next == IF d = <<>> THEN page.head ELSE page.slot[d[Len(d)]].offset
      <3>1. n - 1 \in 0 .. MaxSlots /\ (n - 1) + 1 = n /\ n \in Nat
        BY <1>0, <2>2
      <3>2. B(f, n) = IF Len(d) < n - 1 \/ next = Nil THEN d ELSE Append(d, next)
        BY <2>2
      <3>3. d \in Seq(Slots) /\ Len(d) = m(n - 1) /\ \A i \in 1 .. m(n - 1) : d[i] = c[i]
        BY <1>2, <3>1
      <3>4. f[n] \in Seq(Slots) /\ Len(f[n]) = m(n) /\ \A i \in 1 .. m(n) : f[n][i] = c[i]
        BY <1>2
      <3> HIDE DEF f, d, B
      <3>5. CASE k < n - 1
        <4>1. m(n - 1) = k /\ m(n) = k /\ k < n - 1
          BY <1>0, <3>1, <3>5
        <4> HIDE DEF m
        <4>2. f[n] = d
          BY <3>3, <3>4, <4>1
        <4> QED BY <3>2, <3>3, <4>1, <4>2
      <3>6. CASE n - 1 = k
        <4>1. m(n - 1) = k /\ m(n) = k
          BY <1>0, <3>1, <3>6
        <4> HIDE DEF m
        <4>2. f[n] = d
          BY <3>3, <3>4, <4>1
        <4>3. next = Nil
          <5>1. CASE k = 0
            BY <3>3, <4>1, <5>1 DEF Links
          <5>2. CASE k # 0
            <6>1. d # <<>> /\ d[Len(d)] = c[k]
              BY <1>0, <3>3, <4>1, <5>2
            <6> QED BY <5>2, <6>1 DEF Links
          <5> QED BY <5>1, <5>2
        <4> QED BY <3>2, <4>2, <4>3
      <3>7. CASE n - 1 < k
        <4>1. m(n - 1) = n - 1 /\ m(n) = n /\ n \in 1 .. k
          BY <1>0, <2>2, <3>1, <3>7
        <4> HIDE DEF m
        <4>2. next = c[n]
          <5>1. CASE n = 1
            BY <3>3, <4>1, <5>1 DEF Links
          <5>2. CASE n # 1
            <6>1. n - 1 \in 1 .. k - 1 /\ d # <<>> /\ d[Len(d)] = c[n - 1]
              BY <1>0, <3>1, <3>3, <4>1, <5>2
            <6> QED BY <3>1, <6>1 DEF Links
          <5> QED BY <5>1, <5>2
        <4>3. next # Nil /\ next \in Slots
          BY <1>0, <4>1, <4>2, SlotNumbers
        <4> HIDE DEF next
        <4>4. B(f, n) = Append(d, c[n]) /\ c[n] \in Slots
          BY <3>1, <3>2, <3>3, <4>1, <4>2, <4>3
        <4>5. f[n] = Append(d, c[n])
          BY <3>1, <3>3, <3>4, <4>1, <4>4
        <4> QED BY <4>4, <4>5
      <3> QED BY <1>0, <3>1, <3>5, <3>6, <3>7
    <2> QED BY <2>1, <2>2
  <1>4. f = E(f)
    <2>1. f = [n \in 0 .. MaxSlots |-> f[n]]
      OBVIOUS
    <2> HIDE DEF f, B
    <2> QED BY <1>3, <2>1
  <1>5. Chain = CHOOSE g : g = E(g)
    BY DEF Chain
  <1>6. Chain = E(Chain)
    <2> HIDE DEF f, E
    <2> QED BY <1>4, <1>5
  <1> DEFINE h == Chain
  <1> HIDE DEF h
  <1>7. ASSUME NEW n \in 0 .. MaxSlots PROVE h[n] = B(h, n)
    <2>1. h = E(h)
      BY <1>6 DEF h
    <2> HIDE DEF B
    <2> QED BY <2>1
  <1>8. 0 .. MaxSlots \subseteq {n \in 0 .. MaxSlots : h[n] = f[n]}
    <2> DEFINE S == {n \in 0 .. MaxSlots : h[n] = f[n]}
    <2>1. 0 \in S
      <3>1. f[0] = B(f, 0) /\ h[0] = B(h, 0) /\ 0 \in 0 .. MaxSlots
        <4> HIDE DEF f, B
        <4> QED BY <1>0, <1>3, <1>7
      <3>2. B(f, 0) = <<>> /\ B(h, 0) = <<>>
        OBVIOUS
      <3> HIDE DEF f, B
      <3> QED BY <3>1, <3>2
    <2>2. ASSUME NEW n \in 0 .. MaxSlots - 1, n \in S PROVE n + 1 \in S
      <3>1. n + 1 \in 0 .. MaxSlots /\ (n + 1) - 1 = n /\ n + 1 # 0 /\ h[n] = f[n]
        BY <1>0, <2>2
      <3> HIDE DEF f
      <3>2. f[n + 1] = B(f, n + 1) /\ h[n + 1] = B(h, n + 1)
        BY <1>3, <1>7, <3>1
      <3>3. B(f, n + 1) = B(h, n + 1)
        BY <3>1
      <3> HIDE DEF B
      <3> QED BY <3>1, <3>2, <3>3
    <2> HIDE DEF S
    <2>3. 0 .. MaxSlots \subseteq S
      BY <1>0, <2>1, <2>2, Climb
    <2> QED BY <2>3 DEF S
  <1>9. MaxSlots \in 0 .. MaxSlots /\ m(MaxSlots) = k
    BY <1>0, <1>1
  <1>10. h[MaxSlots] = f[MaxSlots]
    BY <1>8, <1>9
  <1>11. f[MaxSlots] = [i \in 1 .. k |-> c[i]]
    BY <1>9
  <1>12. c = [i \in 1 .. k |-> c[i]]
    BY <1>0
  <1> HIDE DEF f, m
  <1>13. Len(c) = k
    BY <1>0
  <1> QED BY <1>10, <1>11, <1>12, <1>13 DEF h

\* The free list never loops, never holds a live slot and loses no slot, though
\* its links are kept in the offsets and 0 is the offset of an unused slot too.
THEOREM FreeListIsSound == Spec => []FreeListSound
  <1>1. PageInv => FreeListSound
    <2> SUFFICES ASSUME PageInv PROVE FreeListSound
      OBVIOUS
    <2>1. PICK k, c : Links(page, c, k) /\ Listed(page, c, k)
      BY DEF PageInv, PageOK, ListInv
    <2>2. Chain[MaxSlots] = c /\ Len(c) = k
      BY <2>1, ChainIs
    <2>3. k \in Nat /\ (c # <<>> => k # 0)
      BY <2>1 DEF Links
    <2>4. /\ \A i, j \in 1 .. k : c[i] = c[j] => i = j
          /\ \A i \in 1 .. k : c[i] \in Slots \ Live(page)
          /\ k # 0 => page.slot[c[k]].offset = Nil
      BY <2>1 DEF Links
    <2>5. \A s \in Slots \ Live(page) : (\E i \in 1 .. k : c[i] = s) \/ s \in NeverUsed(page)
      BY <2>1 DEF Listed, NeverUsed
    <2> QED BY <2>2, <2>3, <2>4, <2>5 DEF FreeListSound
  <1> QED BY <1>1, PageInvariant, PTL

(***************************************************************************)
(* The refinement.                                                         *)
(***************************************************************************)
\* A page is a map from slots to records: every insert, update and delete is one
\* of the map, and what an operation does not name reads as before.
THEOREM PageIsRecordMap == Spec => IsRecordMap
  <1>1. Init => Map!Init
    BY NewPageOK DEF Init, Map!Init, RowsOf
  <1>2. PageInv /\ [Next]_vars => [Map!Next]_<<RowsOf(page), done>>
    <2> SUFFICES ASSUME PageInv, [Next]_vars PROVE [Map!Next]_<<RowsOf(page), done>>
      OBVIOUS
    <2>0. RowsOf(page)' = RowsOf(page')
      BY DEF RowsOf
    <2>1. CASE Insert
      <3>1. PICK x \in Records :
               /\ page' = InsertRecord(page, x).page
               /\ done' = IF InsertRecord(page, x).ok
                          THEN <<"insert", InsertRecord(page, x).slot>> ELSE done
        BY <2>1 DEF Insert
      <3> DEFINE r == InsertRecord(page, x)
      <3>2. /\ r.ok => /\ r.slot \in Slots \ Live(page)
                       /\ RowsOf(page') = [RowsOf(page) EXCEPT ![r.slot] = x]
            /\ ~r.ok => RowsOf(page') = RowsOf(page)
        BY <3>1, InsertEffect DEF PageInv
      <3>3. r.ok => RowsOf(page)[r.slot] = None
        BY <3>2, StoredLive DEF PageInv, PageOK, RowsOf
      <3>4. CASE r.ok
        BY <2>0, <3>1, <3>2, <3>3, <3>4 DEF Map!Next, Map!Insert, RowsOf
      <3>5. CASE ~r.ok
        BY <2>0, <3>1, <3>2, <3>5
      <3> QED BY <3>4, <3>5
    <2>2. CASE Update
      <3>1. PICK s \in Slots, x \in Records :
               /\ page' = UpdateRecord(page, s, x).page
               /\ done' = IF UpdateRecord(page, s, x).ok THEN <<"update", s>> ELSE done
        BY <2>2 DEF Update
      <3> DEFINE r == UpdateRecord(page, s, x)
      <3>2. /\ r.ok => /\ s \in Live(page)
                       /\ RowsOf(page') = [RowsOf(page) EXCEPT ![s] = x]
            /\ ~r.ok => RowsOf(page') = RowsOf(page)
        BY <3>1, UpdateEffect DEF PageInv
      <3>3. r.ok => RowsOf(page)[s] # None
        BY <3>2, StoredLive DEF PageInv, PageOK, RowsOf
      <3>4. CASE r.ok
        BY <2>0, <3>1, <3>2, <3>3, <3>4 DEF Map!Next, Map!Update, RowsOf
      <3>5. CASE ~r.ok
        BY <2>0, <3>1, <3>2, <3>5
      <3> QED BY <3>4, <3>5
    <2>3. CASE Delete
      <3>1. PICK s \in Live(page) : page' = DeleteRecord(page, s) /\ done' = <<"delete", s>>
        BY <2>3 DEF Delete
      <3>2. s \in Slots /\ RowsOf(page') = [RowsOf(page) EXCEPT ![s] = None]
        BY <3>1, DeleteEffect DEF PageInv, Live
      <3>3. RowsOf(page)[s] # None
        BY <3>2, StoredLive DEF PageInv, PageOK, RowsOf
      <3> QED BY <2>0, <3>1, <3>2, <3>3 DEF Map!Next, Map!Delete, RowsOf
    <2>4. CASE UNCHANGED vars
      BY <2>4 DEF vars, RowsOf, Stored
    <2> QED BY <2>1, <2>2, <2>3, <2>4 DEF Next
  <1> QED BY <1>1, <1>2, PageInvariant, PTL DEF Spec, IsRecordMap, Map!Spec, RowsOf
=============================================================================
