--------------------------- MODULE PageOpsProofs ----------------------------
(***************************************************************************)
(* What the operations of a slotted page keep and do, for pages of any     *)
(* size and any number of slots.  Induction is over sets of numbers: the   *)
(* numbers a statement fails for have no least member.                     *)
(***************************************************************************)
EXTENDS PageOps, TLAPS, WellFoundedInduction

(***************************************************************************)
(* Numbers.                                                                *)
(***************************************************************************)
\* A non-empty set of numbers has a least one.
LEMMA LeastMember ==
    ASSUME NEW S \in SUBSET Nat, S # {}
    PROVE  \E m \in S : \A n \in S : m <= n
  <1>1. PICK m \in S : \A n \in S : ~(<<n, m>> \in OpToRel(<, Nat))
    BY NatLessThanWellFounded, WFMin
  <1>2. ASSUME NEW n \in S, n < m PROVE <<n, m>> \in OpToRel(<, Nat)
    BY <1>2 DEF OpToRel
  <1> SUFFICES ASSUME NEW n \in S, ~(m <= n) PROVE FALSE
    BY <1>1
  <1>3. n < m
    OBVIOUS
  <1> QED BY <1>1, <1>2, <1>3

\* A set that holds 0 and the successor of each of its members below k holds
\* every number up to k.
LEMMA Climb ==
    ASSUME NEW k \in Nat, NEW S, 0 \in S, \A n \in 0 .. k - 1 : n \in S => n + 1 \in S
    PROVE  0 .. k \subseteq S
  <1> SUFFICES ASSUME (0 .. k) \ S # {} PROVE FALSE
    OBVIOUS
  <1>1. PICK m \in (0 .. k) \ S : \A n \in (0 .. k) \ S : m <= n
    <2>1. (0 .. k) \ S \in SUBSET Nat
      OBVIOUS
    <2> QED BY <2>1, LeastMember
  <1>2. m # 0
    OBVIOUS
  <1>3. m - 1 \in 0 .. k - 1 /\ m - 1 \in S
    BY <1>1, <1>2
  <1>4. (m - 1) + 1 = m
    OBVIOUS
  <1> QED BY <1>3, <1>4

\* A sequence of numbers that starts at a and goes down by d[n] at step n.
Descent(w, a, d, k) ==
    w \in [0 .. k -> Int] /\ w[0] = a /\ \A n \in 0 .. k - 1 : w[n + 1] = w[n] - d[n]

LEMMA DescentExists ==
    ASSUME NEW k \in Nat, NEW a \in Int, NEW d \in [0 .. k - 1 -> Int]
    PROVE  \E w : Descent(w, a, d, k)
  <1> DEFINE S == {n \in 0 .. k : \E w : Descent(w, a, d, n)}
  <1>1. 0 \in S
    <2>1. Descent([n \in 0 .. 0 |-> a], a, d, 0)
      BY DEF Descent
    <2> QED BY <2>1
  <1>2. ASSUME NEW n \in 0 .. k - 1, n \in S PROVE n + 1 \in S
    <2>1. PICK w : Descent(w, a, d, n)
      BY <1>2
    <2> DEFINE v == [m \in 0 .. n + 1 |-> IF m = n + 1 THEN w[n] - d[n] ELSE w[m]]
    <2>2. Descent(v, a, d, n + 1)
      <3>1. n \in Nat /\ w[n] \in Int /\ d[n] \in Int
        BY <2>1 DEF Descent
      <3>2. v \in [0 .. n + 1 -> Int] /\ v[0] = a
        BY <2>1, <3>1 DEF Descent
      <3>3. ASSUME NEW m \in 0 .. n PROVE v[m + 1] = v[m] - d[m]
        <4>1. v[m] = w[m] /\ v[m + 1] = IF m + 1 = n + 1 THEN w[n] - d[n] ELSE w[m + 1]
          BY <3>1
        <4>2. m # n => w[m + 1] = w[m] - d[m]
          BY <2>1, <3>1 DEF Descent
        <4>3. m \in 0 .. n - 1 \/ m = n
          BY <3>1
        <4> QED BY <3>1, <4>1, <4>2, <4>3
      <3>4. (n + 1) - 1 = n
        BY <3>1
      <3> HIDE DEF v
      <3> QED BY <3>2, <3>3, <3>4 DEF Descent
    <2> QED BY <2>2
  <1> HIDE DEF S
  <1>3. 0 .. k \subseteq S
    BY <1>1, <1>2, Climb
  <1> QED BY <1>3 DEF S

AgreeBut(d, e, s, k) == \A n \in 0 .. k - 1 : n # s => d[n] = e[n]

Shifted(v, w, d, e, s, k) ==
    \A n \in 0 .. k : v[n] = IF n > s THEN w[n] + d[s] - e[s] ELSE w[n]

\* Two descents that differ in the step at s only are the same up to s and
\* differ by the difference of those steps from there on.
LEMMA DescentShift ==
    ASSUME NEW k \in Nat, NEW a \in Int,
           NEW d \in [0 .. k - 1 -> Int], NEW e \in [0 .. k - 1 -> Int],
           NEW w, NEW v, Descent(w, a, d, k), Descent(v, a, e, k),
           NEW s \in 0 .. k - 1, AgreeBut(d, e, s, k)
    PROVE  Shifted(v, w, d, e, s, k)
  <1> DEFINE S == {n \in 0 .. k : v[n] = IF n > s THEN w[n] + d[s] - e[s] ELSE w[n]}
  <1>1. 0 \in S
    BY DEF Descent
  <1>2. ASSUME NEW n \in 0 .. k - 1, n \in S PROVE n + 1 \in S
    <2>0. n \in 0 .. k /\ n + 1 \in 0 .. k /\ s \in Int
      OBVIOUS
    <2>1. /\ w[n] \in Int /\ v[n] \in Int /\ d[n] \in Int /\ e[n] \in Int /\ d[s] \in Int
          /\ e[s] \in Int
      BY <2>0 DEF Descent
    <2>2. w[n + 1] = w[n] - d[n] /\ v[n + 1] = v[n] - e[n]
      BY DEF Descent
    <2>3. n # s => d[n] = e[n]
      BY DEF AgreeBut
    <2>4. v[n] = IF n > s THEN w[n] + d[s] - e[s] ELSE w[n]
      BY <1>2
    <2>5. v[n + 1] = IF n + 1 > s THEN w[n + 1] + d[s] - e[s] ELSE w[n + 1]
      <3>1. CASE n < s
        BY <2>0, <2>1, <2>2, <2>3, <2>4, <3>1
      <3>2. CASE n = s
        BY <2>0, <2>1, <2>2, <2>4, <3>2
      <3>3. CASE n > s
        BY <2>0, <2>1, <2>2, <2>3, <2>4, <3>3
      <3> QED BY <2>0, <3>1, <3>2, <3>3
    <2> QED BY <2>0, <2>5
  <1> HIDE DEF S
  <1>3. 0 .. k \subseteq S
    BY <1>1, <1>2, Climb
  <1> QED BY <1>3 DEF S, Shifted

\* Two descents by the same steps are the same.
LEMMA DescentUnique ==
    ASSUME NEW k \in Nat, NEW a \in Int, NEW d \in [0 .. k - 1 -> Int],
           NEW w, NEW v, Descent(w, a, d, k), Descent(v, a, d, k)
    PROVE  w = v
  <1> DEFINE S == {n \in 0 .. k : v[n] = w[n]}
  <1>1. 0 \in S
    BY DEF Descent
  <1>2. ASSUME NEW n \in 0 .. k - 1, n \in S PROVE n + 1 \in S
    BY <1>2 DEF Descent
  <1> HIDE DEF S
  <1>3. 0 .. k \subseteq S
    BY <1>1, <1>2, Climb
  <1> QED BY <1>3 DEF S, Descent

\* A descent never goes up when its steps are not negative.
LEMMA DescentFalls ==
    ASSUME NEW k \in Nat, NEW a \in Int, NEW d \in [0 .. k - 1 -> Nat], NEW w,
           Descent(w, a, d, k), NEW m \in 0 .. k
    PROVE  \A n \in 0 .. k : m <= n => w[n] <= w[m]
  <1> DEFINE S == {n \in 0 .. k : m <= n => w[n] <= w[m]}
  <1>1. 0 \in S
    BY DEF Descent
  <1>2. ASSUME NEW n \in 0 .. k - 1, n \in S PROVE n + 1 \in S
    <2>1. w[n] \in Int /\ w[n + 1] \in Int /\ w[m] \in Int /\ d[n] \in Nat
          /\ w[n + 1] = w[n] - d[n]
      BY DEF Descent
    <2>2. n + 1 \in 0 .. k /\ (m <= n + 1 => m <= n \/ m = n + 1)
      OBVIOUS
    <2>3. m <= n => w[n] <= w[m]
      BY <1>2
    <2> QED BY <2>1, <2>2, <2>3
  <1> HIDE DEF S
  <1>3. 0 .. k \subseteq S
    BY <1>1, <1>2, Climb
  <1> QED BY <1>3 DEF S

(***************************************************************************)
(* Pages.                                                                  *)
(***************************************************************************)
Bytes == (Records \cup {None}) \X Nat

Slot == [offset : Nat, length : Nat, free : BOOLEAN]

Pages == [start : 0 .. DataSize, count : Int, head : Slots \cup {Nil},
          slot  : [Slots -> Slot],
          data  : [0 .. DataSize - 1 -> Bytes]]

\* Nil is a number, but no slot's.
LEMMA SlotNumbers ==
    /\ MaxSlots \in Nat /\ DataSize \in Nat
    /\ Nil \in Nat /\ Nil \notin Slots /\ \A s \in Slots : s \in Nat
  <1>1. Nil \in Nat
    BY SMTT(60) DEF Nil
  <1>2. MaxSlots \in 0 .. Nil /\ DataSize \in Nat
    BY CapacityAssumption
  <1> QED BY <1>1, <1>2 DEF Slots

\* the bytes a compaction moves for a slot
Width(p, s) == IF s \in Live(p) THEN p.slot[s].length ELSE 0

Widths(p) == [s \in 0 .. MaxSlots - 1 |-> Width(p, s)]

LEMMA WidthType ==
    ASSUME NEW p \in Pages
    PROVE  Widths(p) \in [0 .. MaxSlots - 1 -> Nat] /\ \A s \in Slots : Width(p, s) \in Nat
  BY DEF Pages, Slot, Width, Widths, Live, Slots

\* compact's write_pos goes down by the length of each live record in turn.
LEMMA WritePosDescends ==
    ASSUME NEW p \in Pages
    PROVE  Descent(WritePos(p), DataSize, Widths(p), MaxSlots)
  <1> DEFINE E(g) == [n \in 0 .. MaxSlots |->
                        IF n = 0 THEN DataSize
                        ELSE IF n - 1 \in Live(p) THEN g[n - 1] - p.slot[n - 1].length
                        ELSE g[n - 1]]
  <1>1. MaxSlots \in Nat /\ DataSize \in Int
    BY SlotNumbers
  <1>2. PICK w : Descent(w, DataSize, Widths(p), MaxSlots)
    <2>1. Widths(p) \in [0 .. MaxSlots - 1 -> Int]
      BY WidthType
    <2> QED BY <1>1, <2>1, DescentExists
  <1>3. ASSUME NEW n \in 0 .. MaxSlots PROVE w[n] = E(w)[n]
    <2>1. CASE n = 0
      BY <1>2, <2>1 DEF Descent
    <2>2. CASE n # 0
      <3>1. n - 1 \in 0 .. MaxSlots - 1 /\ (n - 1) + 1 = n /\ w[n - 1] \in Int
        BY <1>1, <1>2, <2>2 DEF Descent
      <3>2. w[n] = w[n - 1] - Widths(p)[n - 1]
        BY <1>2, <3>1 DEF Descent
      <3> QED BY <2>2, <3>1, <3>2 DEF Widths, Width
    <2> QED BY <2>1, <2>2
  <1>4. w = E(w)
    BY <1>2, <1>3 DEF Descent
  <1>5. WritePos(p) = CHOOSE g : g = E(g)
    BY DEF WritePos
  <1>6. WritePos(p) = E(WritePos(p))
    BY <1>4, <1>5
  <1> DEFINE v == WritePos(p)
  <1> HIDE DEF v
  <1>7. DOMAIN v = 0 .. MaxSlots /\ v[0] = DataSize
        /\ \A n \in 1 .. MaxSlots :
              v[n] = IF n - 1 \in Live(p) THEN v[n - 1] - p.slot[n - 1].length ELSE v[n - 1]
    BY <1>1, <1>6 DEF v
  <1>8. ASSUME NEW n \in 0 .. MaxSlots PROVE v[n] = w[n]
    <2> DEFINE S == {m \in 0 .. MaxSlots : v[m] = w[m]}
    <2>1. 0 \in S
      BY <1>1, <1>2, <1>7 DEF Descent
    <2>2. ASSUME NEW m \in 0 .. MaxSlots - 1, m \in S PROVE m + 1 \in S
      <3>1. m + 1 \in 1 .. MaxSlots /\ (m + 1) - 1 = m /\ m + 1 \in 0 .. MaxSlots /\ m + 1 # 0
        BY <1>1
      <3>2. v[m + 1] = IF m \in Live(p) THEN v[m] - p.slot[m].length ELSE v[m]
        BY <1>7, <3>1
      <3>3. w[m + 1] = IF m \in Live(p) THEN w[m] - p.slot[m].length ELSE w[m]
        BY <1>3, <3>1
      <3> QED BY <2>2, <3>1, <3>2, <3>3
    <2> HIDE DEF S
    <2>3. 0 .. MaxSlots \subseteq S
      BY <1>1, <2>1, <2>2, Climb
    <2> QED BY <2>3 DEF S
  <1>9. v = w
    <2>1. v = [n \in 0 .. MaxSlots |-> v[n]]
      BY <1>6 DEF v
    <2>2. w = [n \in 0 .. MaxSlots |-> w[n]]
      BY <1>2 DEF Descent
    <2> QED BY <1>8, <2>1, <2>2
  <1> QED BY <1>2, <1>9 DEF v

\* The places compact gives to the records: one below the other, in the order of
\* their slots, from the end of the data area down to the last.
LEMMA WritePosFacts ==
    ASSUME NEW p \in Pages
    PROVE  /\ \A n \in 0 .. MaxSlots : WritePos(p)[n] \in Int
           /\ \A n \in 0 .. MaxSlots : /\ WritePos(p)[n] <= DataSize
                                       /\ DataSize - Used(p) <= WritePos(p)[n]
           /\ \A s \in Slots : WritePos(p)[s + 1] = WritePos(p)[s] - Width(p, s)
           /\ \A s, t \in Slots : s < t => WritePos(p)[t] <= WritePos(p)[s + 1]
           /\ Used(p) \in Nat
  <1> DEFINE w == WritePos(p)
  <1>1. Descent(w, DataSize, Widths(p), MaxSlots)
    BY WritePosDescends
  <1>2. MaxSlots \in Nat /\ DataSize \in Nat
    BY SlotNumbers
  <1>3. Widths(p) \in [0 .. MaxSlots - 1 -> Nat]
    BY WidthType
  <1>4. \A m, n \in 0 .. MaxSlots : m <= n => w[n] <= w[m]
    BY <1>1, <1>2, <1>3, DescentFalls
  <1> HIDE DEF w
  <1>5. \A n \in 0 .. MaxSlots : w[n] \in Int
    BY <1>1 DEF Descent
  <1>6. w[0] = DataSize /\ \A s \in Slots : w[s + 1] = w[s] - Width(p, s)
    BY <1>1 DEF Descent, Slots, Widths
  <1>7. Used(p) = DataSize - w[MaxSlots]
    BY DEF Used, w
  <1>8. \A n \in 0 .. MaxSlots : w[n] <= DataSize /\ w[MaxSlots] <= w[n]
    BY <1>2, <1>4, <1>6
  <1>9. \A s, t \in Slots : s < t => w[t] <= w[s + 1]
    <2> SUFFICES ASSUME NEW s \in Slots, NEW t \in Slots, s < t PROVE w[t] <= w[s + 1]
      OBVIOUS
    <2>1. s + 1 \in 0 .. MaxSlots /\ t \in 0 .. MaxSlots /\ s + 1 <= t
      BY <1>2 DEF Slots
    <2> QED BY <2>1, <1>4
  <1>10. Used(p) \in Nat /\ \A n \in 0 .. MaxSlots : DataSize - Used(p) <= w[n]
    <2>1. MaxSlots \in 0 .. MaxSlots
      BY <1>2
    <2>2. w[MaxSlots] \in Int /\ w[MaxSlots] <= DataSize
      BY <1>5, <1>8, <2>1
    <2>3. Used(p) \in Nat /\ DataSize - Used(p) = w[MaxSlots]
      BY <1>2, <1>7, <2>2
    <2> QED BY <2>3, <1>8
  <1> QED BY <1>5, <1>6, <1>8, <1>9, <1>10 DEF w

\* The bytes in use follow the width of the one slot that changes.
LEMMA UsedChange ==
    ASSUME NEW p \in Pages, NEW q \in Pages, NEW s \in Slots,
           \A t \in Slots \ {s} : Width(q, t) = Width(p, t)
    PROVE  Used(q) = Used(p) - Width(p, s) + Width(q, s)
  <1> DEFINE w == WritePos(p)
             v == WritePos(q)
             d == Widths(p)
             e == Widths(q)
  <1>1. Descent(w, DataSize, d, MaxSlots) /\ Descent(v, DataSize, e, MaxSlots)
    BY WritePosDescends
  <1>2. MaxSlots \in Nat /\ DataSize \in Nat /\ s \in 0 .. MaxSlots - 1
    BY SlotNumbers DEF Slots
  <1>3. d \in [0 .. MaxSlots - 1 -> Int] /\ e \in [0 .. MaxSlots - 1 -> Int]
    BY WidthType
  <1>4. AgreeBut(d, e, s, MaxSlots)
    BY DEF AgreeBut, Widths, Slots
  <1>5. d[s] = Width(p, s) /\ e[s] = Width(q, s) /\ d[s] \in Int /\ e[s] \in Int
    BY <1>2, <1>3 DEF Widths
  <1>6. Used(p) = DataSize - w[MaxSlots] /\ Used(q) = DataSize - v[MaxSlots]
    BY DEF Used
  <1> HIDE DEF w, v, d, e
  <1>7. Shifted(v, w, d, e, s, MaxSlots)
    <2> DataSize \in Int
      BY <1>2
    <2> QED BY <1>1, <1>2, <1>3, <1>4, DescentShift
  <1>8. v[MaxSlots] = w[MaxSlots] + d[s] - e[s] /\ w[MaxSlots] \in Int
    BY <1>1, <1>2, <1>7 DEF Descent, Shifted
  <1> QED BY <1>2, <1>5, <1>6, <1>8

\* So do not the bytes in use of two pages whose slots are as wide.
LEMMA UsedSame ==
    ASSUME NEW p \in Pages, NEW q \in Pages, \A t \in Slots : Width(q, t) = Width(p, t)
    PROVE  Used(q) = Used(p)
  <1>1. Widths(q) = Widths(p)
    BY DEF Widths, Slots
  <1>2. MaxSlots \in Nat /\ DataSize \in Int /\ Widths(p) \in [0 .. MaxSlots - 1 -> Int]
    BY SlotNumbers, WidthType
  <1>3. WritePos(p) = WritePos(q)
    BY <1>1, <1>2, WritePosDescends, DescentUnique
  <1> QED BY <1>3 DEF Used

\* The records of the live slots are whole, lie apart from each other and from the
\* free space, and the free space is no larger than what the records leave.
Within(p, s) ==
    /\ p.start <= p.slot[s].offset
    /\ p.slot[s].offset + p.slot[s].length <= DataSize
    /\ \E x \in Records : Holds(p, s, x)

Beside(p, s, t) ==
    \/ p.slot[s].offset + p.slot[s].length <= p.slot[t].offset
    \/ p.slot[t].offset + p.slot[t].length <= p.slot[s].offset

DataInv(p) ==
    /\ p \in Pages
    /\ p.start + Used(p) <= DataSize
    /\ \A s \in Live(p) : Within(p, s)
    /\ \A s, t \in Live(p) : s # t => Beside(p, s, t)

\* A slot holds one record at most.
LEMMA OneRecord ==
    ASSUME NEW p \in Pages, NEW s \in Slots, NEW x \in Records, NEW y \in Records,
           Holds(p, s, x), Holds(p, s, y)
    PROVE  x = y
  <1>1. p.slot[s].offset \in Nat /\ p.slot[s].length \in Nat \ {0}
    BY SizeAssumption DEF Holds, Pages, Slot
  <1>2. p.slot[s].offset \in Extent(p, s)
    BY <1>1 DEF Extent
  <1> QED BY <1>2 DEF Holds

LEMMA StoredIs ==
    ASSUME NEW p \in Pages, NEW s \in Slots
    PROVE  /\ s \notin Live(p) => Stored(p, s) = None
           /\ \A x \in Records : Holds(p, s, x) => Stored(p, s) = x
  <1>1. ASSUME NEW x \in Records, Holds(p, s, x) PROVE Stored(p, s) = x
    <2>1. s \in Live(p)
      BY <1>1 DEF Holds
    <2>2. \A y \in Records : Holds(p, s, y) => y = x
      BY <1>1, OneRecord
    <2> QED BY <1>1, <2>1, <2>2 DEF Stored
  <1>2. s \notin Live(p) => Stored(p, s) = None
    BY DEF Stored
  <1> QED BY <1>1, <1>2

(***************************************************************************)
(* What the operations do.                                                 *)
(***************************************************************************)
LEMMA CompactEffect ==
    ASSUME NEW p, DataInv(p), NEW q, q = Compact(p)
    PROVE  /\ DataInv(q)
           /\ Live(q) = Live(p) /\ Used(q) = Used(p) /\ q.start = DataSize - Used(p)
           /\ q.head = p.head /\ q.count = p.count
           /\ \A s \in Slots : q.slot[s].length = p.slot[s].length
           /\ \A s \in Slots \ Live(p) : q.slot[s] = p.slot[s]
           /\ \A s \in Live(p), x \in Records : Holds(p, s, x) => Holds(q, s, x)
  <1> DEFINE w == WritePos(p)
             to(s) == w[s + 1] .. w[s] - 1
             slot == [s \in Slots |-> IF s \in Live(p) THEN [p.slot[s] EXCEPT !.offset = w[s + 1]]
                                      ELSE p.slot[s]]
             data == [i \in DOMAIN p.data |->
                        IF \E s \in Live(p) : i \in to(s)
                        THEN LET s == CHOOSE t \in Live(p) : i \in to(t)
                             IN  p.data[p.slot[s].offset + (i - w[s + 1])]
                        ELSE Blank]
  <1>0. p \in Pages /\ DataSize \in Nat /\ MaxSlots \in Nat
    BY SlotNumbers DEF DataInv
  <1>1. q = [p EXCEPT !.slot = slot, !.data = data, !.start = w[MaxSlots]]
    BY DEF Compact
  <1> HIDE DEF w, slot, data
  <1>2. /\ \A n \in 0 .. MaxSlots : /\ w[n] \in Int /\ w[n] <= DataSize
                                    /\ DataSize - Used(p) <= w[n]
        /\ \A s \in Slots : w[s + 1] = w[s] - Width(p, s)
        /\ \A s, t \in Slots : s < t => w[t] <= w[s + 1]
        /\ w[MaxSlots] = DataSize - Used(p)
        /\ Used(p) \in 0 .. DataSize
    <2>1. Used(p) \in Nat /\ Used(p) <= DataSize
      <3>1. p.start \in Nat /\ p.start + Used(p) <= DataSize
        BY <1>0 DEF Pages, DataInv
      <3> QED BY <1>0, <3>1, WritePosFacts
    <2>2. Used(p) = DataSize - w[MaxSlots] /\ MaxSlots \in 0 .. MaxSlots
      BY <1>0 DEF Used, w
    <2> QED BY <1>0, <2>1, <2>2, WritePosFacts DEF w
  <1>3. \A s \in Live(p) : /\ s \in Slots /\ s \in 0 .. MaxSlots /\ s + 1 \in 0 .. MaxSlots
                           /\ p.slot[s].length \in Nat /\ p.slot[s].offset \in Nat
                           /\ w[s] = w[s + 1] + p.slot[s].length
                           /\ w[s + 1] \in Nat
    <2> SUFFICES ASSUME NEW s \in Live(p)
                 PROVE  /\ s \in Slots /\ s \in 0 .. MaxSlots /\ s + 1 \in 0 .. MaxSlots
                        /\ p.slot[s].length \in Nat /\ p.slot[s].offset \in Nat
                        /\ w[s] = w[s + 1] + p.slot[s].length
                        /\ w[s + 1] \in Nat
      OBVIOUS
    <2>1. s \in Slots /\ s \in 0 .. MaxSlots /\ s + 1 \in 0 .. MaxSlots
      BY <1>0 DEF Live, Slots
    <2>2. p.slot[s].length \in Nat /\ p.slot[s].offset \in Nat
      BY <1>0, <2>1 DEF Pages, Slot
    <2>3. w[s + 1] = w[s] - p.slot[s].length
      BY <1>2, <2>1 DEF Width
    <2> QED BY <1>0, <1>2, <2>1, <2>2, <2>3
  <1>4. /\ q.start = DataSize - Used(p) /\ q.head = p.head /\ q.count = p.count
        /\ q.slot = slot /\ q.data = data
    BY <1>0, <1>1, <1>2 DEF Pages
  <1>5. /\ \A s \in Live(p) : /\ q.slot[s].offset = w[s + 1] /\ q.slot[s].length = p.slot[s].length
                              /\ q.slot[s].free = p.slot[s].free
        /\ \A s \in Slots \ Live(p) : q.slot[s] = p.slot[s]
        /\ q.slot \in [Slots -> Slot]
    <2>1. \A s \in Slots : p.slot[s] \in Slot
      BY <1>0 DEF Pages
    <2>2. \A s \in Slots : slot[s] = IF s \in Live(p) THEN [p.slot[s] EXCEPT !.offset = w[s + 1]]
                                     ELSE p.slot[s]
      BY DEF slot
    <2>3. \A s \in Slots : slot[s] \in Slot
      BY <1>3, <2>1, <2>2 DEF Slot
    <2>4. slot \in [Slots -> Slot]
      BY <2>3 DEF slot
    <2>5. \A s \in Live(p) : s \in Slots
      BY DEF Live
    <2> QED BY <1>4, <2>1, <2>2, <2>4, <2>5 DEF Slot
  <1>6. Live(q) = Live(p)
    BY <1>5 DEF Live
  <1>7. \A s \in Live(p), t \in Live(p), i \in Int : i \in to(s) /\ i \in to(t) => s = t
    <2> SUFFICES ASSUME NEW s \in Live(p), NEW t \in Live(p), NEW i \in Int, i \in to(s), i \in to(t),
                        s < t
                 PROVE  FALSE
      BY <1>3, <1>0 DEF Slots
    <2>1. w[t] <= w[s + 1]
      BY <1>2, <1>3
    <2> QED BY <1>2, <1>3, <2>1
  <1>8. ASSUME NEW s \in Live(p), NEW i \in to(s)
        PROVE  i \in 0 .. DataSize - 1 /\ q.data[i] = p.data[p.slot[s].offset + (i - w[s + 1])]
    <2>1. i \in Int /\ i \in 0 .. DataSize - 1
      BY <1>0, <1>2, <1>3
    <2>2. DOMAIN p.data = 0 .. DataSize - 1
      BY <1>0 DEF Pages
    <2>3. (CHOOSE t \in Live(p) : i \in to(t)) = s
      BY <1>7, <2>1
    <2>4. data[i] = IF \E t \in Live(p) : i \in to(t)
                    THEN LET u == CHOOSE t \in Live(p) : i \in to(t)
                         IN  p.data[p.slot[u].offset + (i - w[u + 1])]
                    ELSE Blank
      BY <2>1, <2>2 DEF data
    <2> QED BY <1>4, <2>1, <2>3, <2>4
  <1>9. q.data \in [0 .. DataSize - 1 -> Bytes]
    <2>1. DOMAIN p.data = 0 .. DataSize - 1 /\ p.data \in [0 .. DataSize - 1 -> Bytes]
      BY <1>0 DEF Pages
    <2>2. ASSUME NEW i \in 0 .. DataSize - 1 PROVE q.data[i] \in Bytes
      <3>1. CASE \E s \in Live(p) : i \in to(s)
        <4>1. PICK s \in Live(p) : i \in to(s)
          BY <3>1
        <4>2. q.data[i] = p.data[p.slot[s].offset + (i - w[s + 1])]
          BY <1>8, <4>1
        <4>3. p.slot[s].offset + (i - w[s + 1]) \in 0 .. DataSize - 1
          <5>1. /\ p.slot[s].offset + p.slot[s].length <= DataSize
                /\ p.slot[s].offset \in Nat /\ w[s] = w[s + 1] + p.slot[s].length
                /\ p.slot[s].length \in Nat /\ w[s + 1] \in Nat
            BY <1>3 DEF DataInv, Within
          <5>2. w[s + 1] <= i /\ i < w[s + 1] + p.slot[s].length
            BY <4>1, <5>1
          <5> QED BY <1>0, <5>1, <5>2
        <4> QED BY <2>1, <4>2, <4>3
      <3>2. CASE ~\E s \in Live(p) : i \in to(s)
        <4>1. q.data[i] = Blank
          BY <1>4, <2>1, <3>2 DEF data
        <4> QED BY <4>1 DEF Blank, Bytes
      <3> QED BY <3>1, <3>2
    <2>3. q.data = [i \in 0 .. DataSize - 1 |-> q.data[i]]
      BY <1>4, <2>1 DEF data
    <2> HIDE DEF to
    <2> QED BY <2>2, <2>3
  <1>10. q \in Pages
    <2>1. q.start \in 0 .. DataSize
      BY <1>0, <1>2, <1>4
    <2>2. q = [p EXCEPT !.slot = q.slot, !.data = q.data, !.start = q.start]
      BY <1>0, <1>1 DEF Pages
    <2> QED BY <1>0, <1>5, <1>9, <2>1, <2>2 DEF Pages
  <1>11. Used(q) = Used(p)
    <2>1. ASSUME NEW s \in Slots PROVE Width(q, s) = Width(p, s)
      BY <1>5, <1>6 DEF Width
    <2> QED BY <1>0, <1>10, <2>1, UsedSame
  <1>12. ASSUME NEW s \in Live(p), NEW x \in Records, Holds(p, s, x) PROVE Holds(q, s, x)
    <2>1. ASSUME NEW i \in Extent(q, s) PROVE q.data[i] = <<x, i - q.slot[s].offset>>
      <3>1. i \in to(s)
        BY <1>3, <1>5 DEF Extent
      <3> DEFINE j == p.slot[s].offset + (i - w[s + 1])
      <3>2. q.data[i] = p.data[j]
        BY <1>8, <3>1
      <3>3. j \in Extent(p, s)
        BY <1>3, <3>1 DEF Extent
      <3>5. j - p.slot[s].offset = i - q.slot[s].offset
        BY <1>3, <1>5, <3>1
      <3> HIDE DEF j
      <3>4. p.data[j] = <<x, j - p.slot[s].offset>>
        BY <1>12, <3>3 DEF Holds
      <3> QED BY <3>2, <3>4, <3>5
    <2>2. s \in Live(q) /\ q.slot[s].length = Size[x]
      BY <1>5, <1>6, <1>12 DEF Holds
    <2> QED BY <2>1, <2>2 DEF Holds
  <1>13. DataInv(q)
    <2>1. q.start + Used(q) <= DataSize
      BY <1>0, <1>2, <1>4, <1>11
    <2>2. ASSUME NEW s \in Live(q) PROVE Within(q, s)
      <3>1. s \in Live(p) /\ q.slot[s].offset = w[s + 1] /\ q.slot[s].length = p.slot[s].length
        BY <1>5, <1>6
      <3>2. \E x \in Records : Holds(q, s, x)
        BY <1>12, <3>1 DEF DataInv, Within
      <3>3. DataSize - Used(p) <= w[s + 1] /\ w[s] <= DataSize /\ w[s] = w[s + 1] + p.slot[s].length
        BY <1>2, <1>3, <3>1
      <3> QED BY <1>4, <3>1, <3>2, <3>3 DEF Within
    <2>3. ASSUME NEW s \in Live(q), NEW t \in Live(q), s < t
          PROVE  q.slot[t].offset + q.slot[t].length <= q.slot[s].offset
      <3>1. /\ s \in Live(p) /\ q.slot[s].offset = w[s + 1]
            /\ t \in Live(p) /\ q.slot[t].offset = w[t + 1] /\ q.slot[t].length = p.slot[t].length
        BY <1>5, <1>6
      <3>2. w[t] <= w[s + 1] /\ w[t] = w[t + 1] + p.slot[t].length
        BY <1>2, <1>3, <2>3, <3>1
      <3> QED BY <3>1, <3>2
    <2>4. ASSUME NEW s \in Live(q), NEW t \in Live(q), s # t PROVE Beside(q, s, t)
      <3>1. s < t \/ t < s
        BY <1>0, <2>4 DEF Live, Slots
      <3> QED BY <2>3, <3>1 DEF Beside
    <2> QED BY <1>10, <2>1, <2>2, <2>4 DEF DataInv
  <1>14. \A s \in Slots : q.slot[s].length = p.slot[s].length
    BY <1>5
  <1> QED BY <1>4, <1>5, <1>6, <1>11, <1>12, <1>13, <1>14

\* Freeing a slot gives back the bytes of its record and moves nothing.
Frees(p, q, s, r) ==
    /\ q \in Pages /\ r \in Slot /\ r.free
    /\ q.start = p.start /\ q.data = p.data /\ q.slot = [p.slot EXCEPT ![s] = r]

LEMMA FreeEffect ==
    ASSUME NEW p, DataInv(p), NEW s \in Live(p), NEW q, NEW r, Frees(p, q, s, r)
    PROVE  /\ DataInv(q) /\ Live(q) = Live(p) \ {s} /\ Used(q) = Used(p) - p.slot[s].length
           /\ \A t \in Slots \ {s} : q.slot[t] = p.slot[t]
           /\ q.slot[s] = r
           /\ \A t \in Live(q), x \in Records : Holds(p, t, x) => Holds(q, t, x)
  <1>0. /\ p \in Pages /\ s \in Slots /\ q \in Pages /\ r \in Slot /\ r.free
        /\ q.start = p.start /\ q.data = p.data /\ q.slot = [p.slot EXCEPT ![s] = r]
    BY DEF DataInv, Live, Frees
  <1>1. q.slot[s] = r /\ \A t \in Slots \ {s} : q.slot[t] = p.slot[t]
    BY <1>0 DEF Pages
  <1>2. Live(q) = Live(p) \ {s}
    BY <1>0, <1>1 DEF Live
  <1>3. \A t \in Slots \ {s} : Width(q, t) = Width(p, t)
    BY <1>0, <1>1, <1>2 DEF Width
  <1>4. Width(q, s) = 0 /\ Width(p, s) = p.slot[s].length /\ p.slot[s].length \in Nat
    BY <1>0, <1>2 DEF Width, Pages, Slot
  <1>5. Used(q) = Used(p) - p.slot[s].length /\ Used(p) \in Nat /\ Used(q) \in Nat
    <2>1. Used(q) = Used(p) - Width(p, s) + Width(q, s)
      BY <1>0, <1>3, UsedChange
    <2>2. Used(p) \in Nat /\ Used(q) \in Nat
      BY <1>0, WritePosFacts
    <2> QED BY <1>4, <2>1, <2>2
  <1>6. \A t \in Live(q), x \in Records : Holds(p, t, x) => Holds(q, t, x)
    <2>1. \A t \in Live(q) : t \in Slots /\ q.slot[t] = p.slot[t]
      BY <1>0, <1>1, <1>2 DEF Live
    <2> QED BY <1>0, <2>1 DEF Holds, Extent
  <1>7. DataInv(q)
    <2>1. q.start + Used(q) <= DataSize
      <3>1. p.start + Used(p) <= DataSize /\ p.start \in Nat /\ DataSize \in Nat
        BY <1>0, CapacityAssumption DEF DataInv, Pages
      <3> QED BY <1>0, <1>4, <1>5, <3>1
    <2>2. \A t \in Live(q) : t \in Live(p) /\ q.slot[t] = p.slot[t]
      BY <1>0, <1>1, <1>2 DEF Live
    <2>3. \A t \in Live(q) : Within(q, t)
      BY <1>0, <1>6, <2>2 DEF DataInv, Within
    <2>4. \A t, u \in Live(q) : t # u => Beside(q, t, u)
      BY <2>2 DEF DataInv, Beside
    <2> QED BY <1>0, <2>1, <2>3, <2>4 DEF DataInv
  <1> QED BY <1>1, <1>2, <1>5, <1>6, <1>7

\* Placing a record below the others gives its slot that record, and moves no other.
LEMMA PlaceEffect ==
    ASSUME NEW p, DataInv(p), NEW s \in Slots, NEW x \in Records, Size[x] <= p.start,
           NEW q, q = Place(p, s, x)
    PROVE  /\ DataInv(q) /\ Live(q) = Live(p) \cup {s} /\ Holds(q, s, x) /\ q.head = p.head
           /\ Used(q) = Used(p) - Width(p, s) + Size[x]
           /\ \A t \in Slots \ {s} : q.slot[t] = p.slot[t]
           /\ \A t \in Live(p) \ {s}, y \in Records : Holds(p, t, y) => Holds(q, t, y)
  <1> DEFINE off == p.start - Size[x]
             r == [offset |-> off, length |-> Size[x], free |-> FALSE]
  <1>0. /\ p \in Pages /\ DataSize \in Nat /\ Size[x] \in Nat \ {0} /\ p.start \in 0 .. DataSize
        /\ off \in Nat
    BY CapacityAssumption, SizeAssumption DEF DataInv, Pages
  <1>1. q = [p EXCEPT !.start = off, !.data = Write(p.data, off, x), !.slot[s] = r,
                      !.count = (p.count + 1) % CountRange]
    BY DEF Place
  <1> HIDE DEF off
  <1>2. /\ q.start = off /\ q.data = Write(p.data, off, x) /\ q.slot = [p.slot EXCEPT ![s] = r]
        /\ q.head = p.head /\ q.count = (p.count + 1) % CountRange
    BY <1>0, <1>1 DEF Pages
  <1>3. q.slot[s] = r /\ \A t \in Slots \ {s} : q.slot[t] = p.slot[t]
    BY <1>0, <1>2 DEF Pages
  <1>4. \A i \in 0 .. DataSize - 1 :
           q.data[i] = IF i \in off .. off + Size[x] - 1 THEN <<x, i - off>> ELSE p.data[i]
    BY <1>0, <1>2 DEF Write, Pages
  <1>5. q \in Pages
    <2>1. r \in Slot
      BY <1>0 DEF Slot
    <2>2. q.slot \in [Slots -> Slot]
      BY <1>0, <1>2, <2>1 DEF Pages
    <2>3. q.data \in [0 .. DataSize - 1 -> Bytes]
      <3>1. ASSUME NEW i \in 0 .. DataSize - 1 PROVE q.data[i] \in Bytes
        <4>1. p.data[i] \in Bytes
          BY <1>0 DEF Pages
        <4>2. i \in off .. off + Size[x] - 1 => i - off \in Nat
          BY <1>0
        <4>3. i \in off .. off + Size[x] - 1 => <<x, i - off>> \in Bytes
          BY <4>2 DEF Bytes
        <4> QED BY <1>4, <4>1, <4>3
      <3>2. DOMAIN p.data = 0 .. DataSize - 1
        BY <1>0 DEF Pages
      <3> QED BY <1>2, <3>1, <3>2 DEF Write
    <2>4. q.start \in 0 .. DataSize
      BY <1>0, <1>2 DEF off
    <2>5. q.count \in Int
      BY <1>0, <1>2, CapacityAssumption DEF Pages
    <2>6. q = [p EXCEPT !.start = q.start, !.data = q.data, !.slot = q.slot, !.count = q.count]
      BY <1>0, <1>1 DEF Pages
    <2> QED BY <1>0, <2>2, <2>3, <2>4, <2>5, <2>6 DEF Pages
  <1>6. Live(q) = Live(p) \cup {s}
    BY <1>3 DEF Live
  <1>7. Used(q) = Used(p) - Width(p, s) + Size[x]
    <2>1. \A t \in Slots \ {s} : Width(q, t) = Width(p, t)
      BY <1>3, <1>6 DEF Width
    <2>2. Width(q, s) = Size[x]
      BY <1>3, <1>6 DEF Width
    <2> QED BY <1>0, <1>5, <2>1, <2>2, UsedChange
  <1>8. Holds(q, s, x)
    <2>1. Extent(q, s) = off .. off + Size[x] - 1
      BY <1>3 DEF Extent
    <2>2. \A i \in off .. off + Size[x] - 1 : i \in 0 .. DataSize - 1
      BY <1>0 DEF off
    <2>4. q.slot[s].offset = off /\ q.slot[s].length = Size[x]
      BY <1>3
    <2>3. ASSUME NEW i \in Extent(q, s) PROVE q.data[i] = <<x, i - q.slot[s].offset>>
      BY <1>4, <2>1, <2>2, <2>4
    <2> QED BY <1>6, <2>3, <2>4 DEF Holds
  <1>9. ASSUME NEW t \in Live(p) \ {s}
        PROVE  /\ p.start <= p.slot[t].offset /\ p.slot[t].offset + p.slot[t].length <= DataSize
               /\ p.slot[t].offset \in Nat /\ p.slot[t].length \in Nat
               /\ q.slot[t] = p.slot[t] /\ t \in Slots
    BY <1>0, <1>3 DEF DataInv, Within, Live, Pages, Slot
  <1>10. ASSUME NEW t \in Live(p) \ {s}, NEW y \in Records, Holds(p, t, y) PROVE Holds(q, t, y)
    <2>1. ASSUME NEW i \in Extent(p, t) PROVE q.data[i] = p.data[i]
      <3>1. i \in 0 .. DataSize - 1 /\ p.start <= i
        BY <1>0, <1>9 DEF Extent
      <3>2. off + Size[x] = p.start
        BY <1>0 DEF off
      <3>3. i \notin off .. off + Size[x] - 1
        BY <1>0, <3>1, <3>2
      <3> QED BY <1>4, <3>1, <3>3
    <2>2. Extent(q, t) = Extent(p, t) /\ t \in Live(q)
      BY <1>6, <1>9 DEF Extent
    <2> QED BY <1>9, <1>10, <2>1, <2>2 DEF Holds
  <1>11. DataInv(q)
    <2>1. q.start + Used(q) <= DataSize
      <3>1. p.start + Used(p) <= DataSize /\ Used(p) \in Nat /\ Width(p, s) \in Nat
        BY <1>0, WritePosFacts, WidthType DEF DataInv
      <3> QED BY <1>0, <1>2, <1>7, <3>1 DEF off
    <2>2. Within(q, s)
      BY <1>0, <1>2, <1>3, <1>8 DEF Within, off
    <2>3. ASSUME NEW t \in Live(p) \ {s}
          PROVE  Within(q, t) /\ Beside(q, s, t) /\ Beside(q, t, s)
      <3>1. \E y \in Records : Holds(q, t, y)
        BY <1>10 DEF DataInv, Within
      <3>2. off <= p.slot[t].offset /\ off + Size[x] <= p.slot[t].offset
        BY <1>0, <1>9 DEF off
      <3> QED BY <1>2, <1>3, <1>9, <3>1, <3>2 DEF Within, Beside
    <2>4. ASSUME NEW t \in Live(p) \ {s}, NEW u \in Live(p) \ {s}, t # u PROVE Beside(q, t, u)
      BY <1>9, <2>4 DEF DataInv, Beside
    <2> QED BY <1>5, <1>6, <2>1, <2>2, <2>3, <2>4 DEF DataInv
  <1> QED BY <1>2, <1>3, <1>6, <1>7, <1>8, <1>10, <1>11

\* Overwriting a record with a shorter one leaves the others as they are.
LEMMA OverwriteEffect ==
    ASSUME NEW p, DataInv(p), NEW s \in Live(p), NEW x \in Records,
           Size[x] <= p.slot[s].length, NEW q, q = Overwrite(p, s, x)
    PROVE  /\ DataInv(q) /\ Live(q) = Live(p) /\ Holds(q, s, x) /\ q.head = p.head
           /\ \A t \in Slots \ {s} : q.slot[t] = p.slot[t]
           /\ \A t \in Live(p) \ {s}, y \in Records : Holds(p, t, y) => Holds(q, t, y)
  <1> DEFINE off == p.slot[s].offset
             len == p.slot[s].length
             r == [p.slot[s] EXCEPT !.length = Size[x]]
  <1>0. /\ p \in Pages /\ s \in Slots /\ DataSize \in Nat /\ Size[x] \in Nat \ {0}
        /\ p.start \in 0 .. DataSize /\ off \in Nat /\ len \in Nat /\ p.slot[s] \in Slot
        /\ p.start <= off /\ off + len <= DataSize
    BY CapacityAssumption, SizeAssumption DEF DataInv, Pages, Live, Slot, Within
  <1>1. q = [p EXCEPT !.data = Write(p.data, off, x), !.slot[s].length = Size[x]]
    BY DEF Overwrite
  <1> HIDE DEF off, len
  <1>2. /\ q.start = p.start /\ q.data = Write(p.data, off, x)
        /\ q.slot = [p.slot EXCEPT ![s] = r] /\ q.head = p.head /\ q.count = p.count
    BY <1>0, <1>1 DEF Pages
  <1>3. q.slot[s] = r /\ \A t \in Slots \ {s} : q.slot[t] = p.slot[t]
    BY <1>0, <1>2 DEF Pages
  <1>4. r \in Slot /\ r.offset = off /\ r.length = Size[x] /\ r.free = p.slot[s].free
    BY <1>0 DEF Slot, off
  <1> HIDE DEF r
  <1>5. \A i \in 0 .. DataSize - 1 :
           q.data[i] = IF i \in off .. off + Size[x] - 1 THEN <<x, i - off>> ELSE p.data[i]
    BY <1>0, <1>2 DEF Write, Pages
  <1>6. q \in Pages
    <2>1. q.slot \in [Slots -> Slot]
      BY <1>0, <1>2, <1>4 DEF Pages
    <2>2. q.data \in [0 .. DataSize - 1 -> Bytes]
      <3>1. ASSUME NEW i \in 0 .. DataSize - 1 PROVE q.data[i] \in Bytes
        <4>1. p.data[i] \in Bytes
          BY <1>0 DEF Pages
        <4>2. i \in off .. off + Size[x] - 1 => i - off \in Nat
          BY <1>0
        <4>3. i \in off .. off + Size[x] - 1 => <<x, i - off>> \in Bytes
          BY <4>2 DEF Bytes
        <4> QED BY <1>5, <4>1, <4>3
      <3>2. DOMAIN p.data = 0 .. DataSize - 1
        BY <1>0 DEF Pages
      <3> QED BY <1>2, <3>1, <3>2 DEF Write
    <2>3. q = [p EXCEPT !.data = q.data, !.slot = q.slot]
      BY <1>0, <1>1 DEF Pages
    <2> QED BY <1>0, <2>1, <2>2, <2>3 DEF Pages
  <1>7. Live(q) = Live(p)
    BY <1>0, <1>3, <1>4 DEF Live
  <1>8. Used(q) = Used(p) - len + Size[x]
    <2>1. \A t \in Slots \ {s} : Width(q, t) = Width(p, t)
      BY <1>3, <1>7 DEF Width
    <2>2. Width(q, s) = Size[x] /\ Width(p, s) = len
      BY <1>3, <1>4, <1>7 DEF Width, len
    <2> QED BY <1>0, <1>6, <2>1, <2>2, UsedChange
  <1>9. Holds(q, s, x)
    <2>1. Extent(q, s) = off .. off + Size[x] - 1
      BY <1>3, <1>4 DEF Extent
    <2>2. \A i \in off .. off + Size[x] - 1 : i \in 0 .. DataSize - 1
      BY <1>0 DEF len
    <2>3. \A i \in Extent(q, s) : q.data[i] = <<x, i - q.slot[s].offset>>
      BY <1>3, <1>4, <1>5, <2>1, <2>2
    <2> QED BY <1>3, <1>4, <1>7, <2>3 DEF Holds
  <1>10. ASSUME NEW t \in Live(p) \ {s}
         PROVE  /\ p.start <= p.slot[t].offset /\ p.slot[t].offset + p.slot[t].length <= DataSize
                /\ p.slot[t].offset \in Nat /\ p.slot[t].length \in Nat
                /\ q.slot[t] = p.slot[t] /\ t \in Slots
                /\ \/ off + len <= p.slot[t].offset
                   \/ p.slot[t].offset + p.slot[t].length <= off
    BY <1>0, <1>3 DEF DataInv, Within, Beside, Live, Pages, Slot, off, len
  <1>11. ASSUME NEW t \in Live(p) \ {s}, NEW y \in Records, Holds(p, t, y) PROVE Holds(q, t, y)
    <2>1. ASSUME NEW i \in Extent(p, t) PROVE q.data[i] = p.data[i]
      <3>1. i \in 0 .. DataSize - 1 /\ i \notin off .. off + Size[x] - 1
        BY <1>0, <1>10 DEF Extent, len
      <3> QED BY <1>5, <3>1
    <2>2. Extent(q, t) = Extent(p, t) /\ t \in Live(q)
      BY <1>7, <1>10 DEF Extent
    <2> QED BY <1>10, <1>11, <2>1, <2>2 DEF Holds
  <1>12. DataInv(q)
    <2>1. q.start + Used(q) <= DataSize
      <3>1. p.start + Used(p) <= DataSize /\ Used(p) \in Nat
        BY <1>0, WritePosFacts DEF DataInv
      <3> QED BY <1>0, <1>2, <1>8, <3>1 DEF len
    <2>2. Within(q, s)
      BY <1>0, <1>2, <1>3, <1>4, <1>9 DEF Within, len
    <2>3. ASSUME NEW t \in Live(p) \ {s}
          PROVE  Within(q, t) /\ Beside(q, s, t) /\ Beside(q, t, s)
      <3>1. \E y \in Records : Holds(q, t, y)
        BY <1>11 DEF DataInv, Within
      <3>2. off + Size[x] <= p.slot[t].offset \/ p.slot[t].offset + p.slot[t].length <= off
        BY <1>0, <1>10 DEF len
      <3> QED BY <1>2, <1>3, <1>4, <1>10, <3>1, <3>2 DEF Within, Beside
    <2>4. ASSUME NEW t \in Live(p) \ {s}, NEW u \in Live(p) \ {s}, t # u PROVE Beside(q, t, u)
      BY <1>10, <2>4 DEF DataInv, Beside
    <2> QED BY <1>6, <1>7, <2>1, <2>2, <2>3, <2>4 DEF DataInv
  <1> QED BY <1>2, <1>3, <1>7, <1>9, <1>11, <1>12

(***************************************************************************)
(* The free list.                                                          *)
(***************************************************************************)
\* c[1] .. c[k] are the slots of the free list, in order.
Links(p, c, k) ==
    /\ k \in Nat /\ c \in [1 .. k -> Slots]
    /\ \A i, j \in 1 .. k : c[i] = c[j] => i = j
    /\ \A i \in 1 .. k : c[i] \notin Live(p)
    /\ IF k = 0 THEN p.head = Nil ELSE p.head = c[1] /\ p.slot[c[k]].offset = Nil
    /\ \A i \in 1 .. k - 1 : p.slot[c[i]].offset = c[i + 1]

\* A free slot that is not on the list was never used.
Listed(p, c, k) == \A s \in Slots \ Live(p) : (\E i \in 1 .. k : c[i] = s) \/ p.slot[s] = EmptySlot

ListInv(p) == \E k, c : Links(p, c, k) /\ Listed(p, c, k)

\* find_free_slot finds a slot exactly when one is free.
LEMMA FreeSlotFound ==
    ASSUME NEW p \in Pages, ListInv(p)
    PROVE  /\ Live(p) # Slots => FreeSlot(p) \in Slots \ Live(p)
           /\ Live(p) = Slots => FreeSlot(p) = Nil
  <1>1. PICK k, c : Links(p, c, k) /\ Listed(p, c, k)
    BY DEF ListInv
  <1>2. CASE k # 0
    <2>1. p.head = c[1] /\ 1 \in 1 .. k
      BY <1>1, <1>2 DEF Links
    <2>2. c[1] \in Slots \ Live(p)
      BY <1>1, <2>1 DEF Links
    <2> QED BY <2>1, <2>2, SlotNumbers DEF FreeSlot
  <1>3. CASE k = 0
    <2>1. p.head = Nil /\ \A s \in Slots \ Live(p) : s \in NeverUsed(p)
      BY <1>1, <1>3 DEF Links, Listed, NeverUsed
    <2>2. NeverUsed(p) \subseteq Slots \ Live(p)
      BY DEF NeverUsed, Live, EmptySlot
    <2>3. CASE NeverUsed(p) = {}
      BY <2>1, <2>2, <2>3 DEF FreeSlot, Live
    <2>4. CASE NeverUsed(p) # {}
      <3>1. \E m \in NeverUsed(p) : \A n \in NeverUsed(p) : m <= n
        BY <2>2, <2>4, SlotNumbers, LeastMember
      <3>2. Min(NeverUsed(p)) \in NeverUsed(p)
        BY <3>1 DEF Min
      <3> QED BY <2>1, <2>2, <2>4, <3>2 DEF FreeSlot
    <2> QED BY <2>3, <2>4
  <1> QED BY <1>2, <1>3

\* The list stands while the head and the free slots stay as they are.
LEMMA ListSame ==
    ASSUME NEW p, ListInv(p), NEW q, q.head = p.head, Live(q) = Live(p),
           \A s \in Slots \ Live(p) : q.slot[s] = p.slot[s]
    PROVE  ListInv(q)
  <1>1. PICK k, c : Links(p, c, k) /\ Listed(p, c, k)
    BY DEF ListInv
  <1>2. \A i \in 1 .. k : q.slot[c[i]] = p.slot[c[i]]
    BY <1>1 DEF Links
  <1>3. Links(q, c, k)
    <2>1. \A i \in 1 .. k - 1 : i \in 1 .. k
      BY <1>1 DEF Links
    <2>2. k # 0 => k \in 1 .. k
      BY <1>1 DEF Links
    <2> QED BY <1>1, <1>2, <2>1, <2>2 DEF Links
  <1>4. Listed(q, c, k)
    BY <1>1 DEF Listed
  <1> QED BY <1>3, <1>4 DEF ListInv

\* Taking a slot takes the first of the list, or one that was never used.
LEMMA ListTake ==
    ASSUME NEW p \in Pages, ListInv(p), NEW s \in Slots, s = FreeSlot(p), NEW q,
           q.head = TakeFreeSlot(p).head, Live(q) = Live(p) \cup {s},
           \A t \in Slots \ {s} : q.slot[t] = p.slot[t]
    PROVE  ListInv(q)
  <1>1. PICK k, c : Links(p, c, k) /\ Listed(p, c, k)
    BY DEF ListInv
  <1>2. CASE k = 0
    <2>1. p.head = Nil /\ q.head = Nil
      BY <1>1, <1>2 DEF Links, TakeFreeSlot
    <2>2. Links(q, c, k)
      BY <1>1, <1>2, <2>1 DEF Links
    <2>3. Listed(q, c, k)
      BY <1>1 DEF Listed
    <2> QED BY <2>2, <2>3 DEF ListInv
  <1>3. CASE k # 0
    <2> DEFINE b == [i \in 1 .. k - 1 |-> c[i + 1]]
    <2>1. /\ k \in Nat /\ k - 1 \in Nat /\ 1 \in 1 .. k /\ k \in 1 .. k
          /\ \A i \in 1 .. k - 1 : i \in 1 .. k /\ i + 1 \in 1 .. k /\ i + 1 # 1
      BY <1>1, <1>3 DEF Links
    <2>2. /\ p.head = c[1] /\ p.head \in Slots /\ p.head # Nil /\ s = c[1]
          /\ q.head = p.slot[c[1]].offset
      <3>1. p.head = c[1] /\ c[1] \in Slots
        BY <1>1, <1>3, <2>1 DEF Links
      <3>2. p.head # Nil
        BY <3>1, SlotNumbers
      <3> QED BY <3>1, <3>2 DEF FreeSlot, TakeFreeSlot, Pages
    <2>3. \A i \in 1 .. k - 1 : b[i] = c[i + 1] /\ b[i] \in Slots /\ b[i] # s
      BY <1>1, <2>1, <2>2 DEF Links
    <2>4. b \in [1 .. k - 1 -> Slots]
      BY <2>3
    <2> HIDE DEF b
    <2>5. \A i \in 1 .. k - 1 : q.slot[b[i]] = p.slot[c[i + 1]] /\ b[i] \notin Live(q)
      BY <1>1, <2>1, <2>3 DEF Links
    <2>6. Links(q, b, k - 1)
      <3>1. \A i, j \in 1 .. k - 1 : b[i] = b[j] => i = j
        <4> SUFFICES ASSUME NEW i \in 1 .. k - 1, NEW j \in 1 .. k - 1, b[i] = b[j] PROVE i = j
          OBVIOUS
        <4>1. c[i + 1] = c[j + 1] /\ i + 1 \in 1 .. k /\ j + 1 \in 1 .. k
          BY <2>1, <2>3
        <4>2. i + 1 = j + 1
          BY <1>1, <4>1 DEF Links
        <4> QED BY <4>2
      <3>2. CASE k - 1 = 0
        <4>1. k = 1
          BY <2>1, <3>2
        <4>2. q.head = Nil
          BY <1>1, <1>3, <2>2, <4>1 DEF Links
        <4>3. \A i \in 1 .. k - 1 : FALSE
          BY <3>2
        <4>4. \A i \in 1 .. (k - 1) - 1 : FALSE
          BY <3>2
        <4> QED BY <2>1, <2>4, <3>2, <4>2, <4>3, <4>4 DEF Links
      <3>3. CASE k - 1 # 0
        <4>1. 1 \in 1 .. k - 1 /\ k - 1 \in 1 .. k - 1 /\ (k - 1) + 1 = k /\ 1 + 1 = 2
          BY <2>1, <3>3
        <4>2. q.head = b[1]
          <5>1. p.slot[c[1]].offset = c[1 + 1]
            BY <1>1, <4>1 DEF Links
          <5> QED BY <2>2, <2>3, <4>1, <5>1
        <4>3. q.slot[b[k - 1]].offset = Nil
          BY <1>1, <1>3, <2>5, <4>1 DEF Links
        <4>4. ASSUME NEW i \in 1 .. (k - 1) - 1 PROVE q.slot[b[i]].offset = b[i + 1]
          <5>1. i \in 1 .. k - 1 /\ i + 1 \in 1 .. k - 1
            BY <2>1
          <5>2. p.slot[c[i + 1]].offset = c[(i + 1) + 1]
            BY <1>1, <5>1 DEF Links
          <5> QED BY <2>3, <2>5, <5>1, <5>2
        <4> QED BY <2>1, <2>4, <2>5, <3>1, <3>3, <4>2, <4>3, <4>4 DEF Links
      <3> QED BY <3>2, <3>3
    <2>7. Listed(q, b, k - 1)
      <3> SUFFICES ASSUME NEW t \in Slots \ Live(q), q.slot[t] # EmptySlot
                   PROVE  \E i \in 1 .. k - 1 : b[i] = t
        BY DEF Listed
      <3>1. t \in Slots \ Live(p) /\ t # s /\ p.slot[t] # EmptySlot
        OBVIOUS
      <3>2. PICK i \in 1 .. k : c[i] = t
        BY <1>1, <3>1 DEF Listed
      <3>3. i # 1
        BY <2>2, <3>1, <3>2
      <3>4. i - 1 \in 1 .. k - 1 /\ (i - 1) + 1 = i
        BY <2>1, <3>3
      <3> QED BY <2>3, <3>2, <3>4
    <2> QED BY <2>6, <2>7 DEF ListInv
  <1> QED BY <1>2, <1>3

\* A slot that is freed becomes the first of the list.
LEMMA ListPut ==
    ASSUME NEW p \in Pages, ListInv(p), NEW s \in Live(p), NEW q,
           q.head = s, q.slot[s].offset = p.head, Live(q) = Live(p) \ {s},
           \A t \in Slots \ {s} : q.slot[t] = p.slot[t]
    PROVE  ListInv(q)
  <1>1. PICK k, c : Links(p, c, k) /\ Listed(p, c, k)
    BY DEF ListInv
  <1> DEFINE b == [i \in 1 .. k + 1 |-> IF i = 1 THEN s ELSE c[i - 1]]
  <1>2. /\ k \in Nat /\ k + 1 \in Nat /\ k + 1 # 0 /\ 1 \in 1 .. k + 1 /\ k + 1 \in 1 .. k + 1
        /\ (k + 1) - 1 = k /\ \A i \in 1 .. k + 1 : i # 1 => i - 1 \in 1 .. k
    BY <1>1 DEF Links
  <1>3. /\ b[1] = s /\ s \in Slots /\ s \notin Live(q)
        /\ \A i \in 1 .. k + 1 : i # 1 => b[i] = c[i - 1] /\ b[i] \in Slots \ Live(p) /\ b[i] # s
    BY <1>1, <1>2 DEF Links, Live
  <1>4. b \in [1 .. k + 1 -> Slots]
    <2>1. \A i \in 1 .. k + 1 : b[i] \in Slots
      BY <1>3
    <2> QED BY <2>1
  <1> HIDE DEF b
  <1>5. \A i \in 1 .. k + 1 : i # 1 => q.slot[b[i]] = p.slot[c[i - 1]] /\ b[i] \notin Live(q)
    BY <1>3
  <1>6. Links(q, b, k + 1)
    <2>1. \A i, j \in 1 .. k + 1 : b[i] = b[j] => i = j
      <3> SUFFICES ASSUME NEW i \in 1 .. k + 1, NEW j \in 1 .. k + 1, b[i] = b[j] PROVE i = j
        OBVIOUS
      <3>1. CASE i = 1 \/ j = 1
        BY <1>3, <3>1
      <3>2. CASE i # 1 /\ j # 1
        <4>1. c[i - 1] = c[j - 1] /\ i - 1 \in 1 .. k /\ j - 1 \in 1 .. k
          BY <1>2, <1>3, <3>2
        <4>2. i - 1 = j - 1
          BY <1>1, <4>1 DEF Links
        <4> QED BY <1>2, <4>2
      <3> QED BY <3>1, <3>2
    <2>2. q.slot[b[k + 1]].offset = Nil
      <3>1. CASE k = 0
        BY <1>1, <1>3, <3>1 DEF Links
      <3>2. CASE k # 0
        <4>1. k + 1 # 1
          BY <1>2, <3>2
        <4>2. q.slot[b[k + 1]] = p.slot[c[k]]
          BY <1>2, <1>5, <4>1
        <4> QED BY <1>1, <3>2, <4>2 DEF Links
      <3> QED BY <3>1, <3>2
    <2>3. ASSUME NEW i \in 1 .. (k + 1) - 1 PROVE q.slot[b[i]].offset = b[i + 1]
      <3>1. i \in 1 .. k /\ i + 1 \in 1 .. k + 1 /\ i + 1 # 1 /\ (i + 1) - 1 = i /\ i \in 1 .. k + 1
        BY <1>2
      <3>2. b[i + 1] = c[i]
        BY <1>3, <3>1
      <3>3. CASE i = 1
        <4>1. k # 0
          BY <1>2, <3>1
        <4>2. p.head = c[1]
          BY <1>1, <4>1 DEF Links
        <4> QED BY <1>3, <3>2, <3>3, <4>2
      <3>4. CASE i # 1
        <4>1. q.slot[b[i]] = p.slot[c[i - 1]]
          BY <1>5, <3>1, <3>4
        <4>2. i - 1 \in 1 .. k - 1 /\ (i - 1) + 1 = i
          BY <1>2, <3>1, <3>4
        <4>3. p.slot[c[i - 1]].offset = c[i]
          BY <1>1, <4>2 DEF Links
        <4> QED BY <3>2, <4>1, <4>3
      <3> QED BY <3>3, <3>4
    <2>4. \A i \in 1 .. k + 1 : b[i] \notin Live(q)
      BY <1>3, <1>5
    <2> QED BY <1>2, <1>3, <1>4, <2>1, <2>2, <2>3, <2>4 DEF Links
  <1>7. Listed(q, b, k + 1)
    <2> SUFFICES ASSUME NEW t \in Slots \ Live(q), q.slot[t] # EmptySlot
                 PROVE  \E i \in 1 .. k + 1 : b[i] = t
      BY DEF Listed
    <2>1. CASE t = s
      BY <1>2, <1>3, <2>1
    <2>2. CASE t # s
      <3>1. t \in Slots \ Live(p) /\ p.slot[t] # EmptySlot
        BY <2>2
      <3>2. PICK i \in 1 .. k : c[i] = t
        BY <1>1, <3>1 DEF Listed
      <3>3. i + 1 \in 1 .. k + 1 /\ i + 1 # 1 /\ (i + 1) - 1 = i
        BY <1>2
      <3> QED BY <1>3, <3>2, <3>3
    <2> QED BY <2>1, <2>2
  <1> QED BY <1>6, <1>7 DEF ListInv

(***************************************************************************)
(* The operations of a page, as get_record sees them.                      *)
(***************************************************************************)
PageOK(p) == DataInv(p) /\ ListInv(p)

RowsOf(p) == [s \in Slots |-> Stored(p, s)]

\* What a slot holds is what it held before, when the bytes and the slot are kept.
LEMMA StoredKept ==
    ASSUME NEW p, DataInv(p), NEW q \in Pages, NEW s \in Slots,
           s \in Live(p) <=> s \in Live(q),
           \A x \in Records : Holds(p, s, x) => Holds(q, s, x)
    PROVE  Stored(q, s) = Stored(p, s)
  <1>0. p \in Pages
    BY DEF DataInv
  <1>1. CASE s \notin Live(p)
    BY <1>0, <1>1, StoredIs
  <1>2. CASE s \in Live(p)
    <2>1. PICK x \in Records : Holds(p, s, x)
      BY <1>2 DEF DataInv, Within
    <2> QED BY <1>0, <2>1, StoredIs
  <1> QED BY <1>1, <1>2

\* A live slot never reads as empty.
LEMMA StoredLive ==
    ASSUME NEW p, DataInv(p), NEW s \in Slots
    PROVE  Stored(p, s) = None <=> s \notin Live(p)
  <1>0. p \in Pages
    BY DEF DataInv
  <1>1. CASE s \notin Live(p)
    BY <1>0, <1>1, StoredIs
  <1>2. CASE s \in Live(p)
    <2>1. PICK x \in Records : Holds(p, s, x)
      BY <1>2 DEF DataInv, Within
    <2> QED BY <1>0, <1>2, <2>1, StoredIs, SizeAssumption
  <1> QED BY <1>1, <1>2

\* A new page is empty and has its whole data area and all its slots to give.
LEMMA NewPageOK ==
    /\ PageOK(NewPage) /\ RowsOf(NewPage) = [s \in Slots |-> None]
    /\ Live(NewPage) = {} /\ Used(NewPage) = 0
    /\ Slots # {} => FreeSlot(NewPage) = 0
  <1> DEFINE p == NewPage
  <1>0. DataSize \in Nat /\ MaxSlots \in Nat
    BY SlotNumbers
  <1>1. p \in Pages
    <2>1. [s \in Slots |-> EmptySlot] \in [Slots -> Slot]
      BY DEF EmptySlot, Slot
    <2>2. [i \in 0 .. DataSize - 1 |-> Blank] \in [0 .. DataSize - 1 -> Bytes]
      BY DEF Blank, Bytes
    <2> QED BY <1>0, <2>1, <2>2 DEF NewPage, Pages
  <1>2. Live(p) = {} /\ p.start = DataSize /\ p.head = Nil /\ \A s \in Slots : p.slot[s] = EmptySlot
    BY DEF NewPage, Live, EmptySlot
  <1> HIDE DEF p
  <1>3. Used(p) = 0
    <2> DEFINE w == WritePos(p)
               v == [n \in 0 .. MaxSlots |-> DataSize]
    <2>1. Descent(w, DataSize, Widths(p), MaxSlots)
      BY <1>1, WritePosDescends
    <2>2. \A s \in 0 .. MaxSlots - 1 : Widths(p)[s] = 0
      BY <1>2 DEF Widths, Width
    <2>3. Descent(v, DataSize, Widths(p), MaxSlots)
      BY <1>0, <2>2 DEF Descent
    <2>4. Widths(p) \in [0 .. MaxSlots - 1 -> Int]
      BY <1>1, WidthType
    <2> HIDE DEF w, v
    <2>5. w = v
      <3>1. DataSize \in Int
        BY <1>0
      <3> QED BY <1>0, <3>1, <2>1, <2>3, <2>4, DescentUnique
    <2>6. w[MaxSlots] = DataSize
      BY <1>0, <2>5 DEF v
    <2> QED BY <1>0, <2>6 DEF Used, w
  <1>4. DataInv(p)
    BY <1>0, <1>1, <1>2, <1>3 DEF DataInv
  <1>5. ListInv(p)
    <2>1. Links(p, <<>>, 0) /\ Listed(p, <<>>, 0)
      BY <1>2 DEF Links, Listed
    <2> QED BY <2>1 DEF ListInv
  <1>6. \A s \in Slots : Stored(p, s) = None
    BY <1>1, <1>2, StoredIs
  <1>7. Slots # {} => FreeSlot(p) = 0
    <2>1. NeverUsed(p) = Slots
      BY <1>2 DEF NeverUsed
    <2>2. Slots # {} => 0 \in Slots /\ \A s \in Slots : 0 <= s
      BY <1>0 DEF Slots
    <2>3. Slots # {} => \A m \in Slots : (\A s \in Slots : m <= s) => m = 0
      BY <2>2 DEF Slots
    <2>4. Slots # {} => Min(Slots) = 0
      BY <2>2, <2>3 DEF Min
    <2> QED BY <1>2, <2>1, <2>4 DEF FreeSlot
  <1> QED BY <1>2, <1>3, <1>4, <1>5, <1>6, <1>7 DEF PageOK, RowsOf, p

\* An insert takes a free slot for the record, and refuses only when the records
\* leave too little room or no slot; a refusal loses nothing.
LEMMA InsertEffect ==
    ASSUME NEW p, PageOK(p), NEW x \in Records, NEW r, r = InsertRecord(p, x)
    PROVE  /\ PageOK(r.page)
           /\ r.ok <=> Used(p) + Size[x] <= DataSize /\ Live(p) # Slots
           /\ r.ok => /\ r.slot \in Slots \ Live(p)
                      /\ RowsOf(r.page) = [RowsOf(p) EXCEPT ![r.slot] = x]
           /\ ~r.ok => RowsOf(r.page) = RowsOf(p)
  <1> DEFINE q == IF p.start < Size[x] THEN Compact(p) ELSE p
             s == FreeSlot(q)
             fits == q.start >= Size[x] /\ s # Nil
  <1>0. /\ p \in Pages /\ DataInv(p) /\ ListInv(p) /\ DataSize \in Nat /\ Size[x] \in Nat
        /\ p.start \in 0 .. DataSize /\ Used(p) \in Nat /\ p.start + Used(p) <= DataSize
    BY CapacityAssumption, SizeAssumption, WritePosFacts DEF PageOK, DataInv, Pages
  <1>1. /\ r.ok = fits /\ r.slot = s
        /\ r.page = IF fits THEN Place(TakeFreeSlot(q), s, x) ELSE q
    BY DEF InsertRecord
  <1>2. /\ DataInv(q) /\ ListInv(q) /\ Live(q) = Live(p) /\ RowsOf(q) = RowsOf(p)
        /\ q.start >= Size[x] <=> Used(p) + Size[x] <= DataSize
    <2>1. CASE p.start < Size[x]
      <3>1. q = Compact(p)
        BY <2>1
      <3> HIDE DEF q
      <3>2. /\ DataInv(q) /\ Live(q) = Live(p) /\ q.start = DataSize - Used(p)
            /\ q.head = p.head /\ \A t \in Slots \ Live(p) : q.slot[t] = p.slot[t]
            /\ \A t \in Live(p), y \in Records : Holds(p, t, y) => Holds(q, t, y)
        BY <1>0, <3>1, CompactEffect
      <3>3. ListInv(q)
        BY <1>0, <3>2, ListSame
      <3>4. ASSUME NEW t \in Slots PROVE Stored(q, t) = Stored(p, t)
        <4>1. \A y \in Records : Holds(p, t, y) => Holds(q, t, y)
          BY <3>2 DEF Holds
        <4> QED BY <1>0, <3>2, <4>1, StoredKept DEF DataInv
      <3>5. q.start >= Size[x] <=> Used(p) + Size[x] <= DataSize
        BY <1>0, <3>2
      <3> QED BY <3>2, <3>3, <3>4, <3>5 DEF RowsOf
    <2>2. CASE ~(p.start < Size[x])
      BY <1>0, <2>2
    <2> QED BY <2>1, <2>2
  <1> HIDE DEF q
  <1>3. q \in Pages
    BY <1>2 DEF DataInv
  <1>4. /\ Live(q) # Slots => s \in Slots \ Live(q)
        /\ Live(q) = Slots => s = Nil
    BY <1>2, <1>3, FreeSlotFound
  <1> HIDE DEF s
  <1>5. fits <=> Used(p) + Size[x] <= DataSize /\ Live(p) # Slots
    BY <1>2, <1>4, SlotNumbers
  <1> HIDE DEF fits
  <1>6. CASE fits
    <2> DEFINE u == TakeFreeSlot(q)
               v == Place(u, s, x)
    <2>1. s \in Slots \ Live(q) /\ Size[x] <= q.start
      BY <1>0, <1>2, <1>3, <1>4, <1>5, <1>6 DEF fits, Pages
    <2>2. /\ u.start = q.start /\ u.slot = q.slot /\ u.data = q.data /\ u.count = q.count
          /\ u.head \in Slots \cup {Nil} /\ u \in Pages
      <3>1. CASE q.head = Nil
        <4>1. u = q
          BY <3>1 DEF TakeFreeSlot
        <4> QED BY <1>3, <4>1 DEF Pages
      <3>2. CASE q.head # Nil
        <4>1. u = [q EXCEPT !.head = q.slot[q.head].offset]
          BY <3>2 DEF TakeFreeSlot
        <4>2. q.slot[q.head].offset \in Slots \cup {Nil}
          <5>1. PICK k, c : Links(q, c, k)
            BY <1>2 DEF ListInv
          <5>2. k \in Nat /\ k # 0 /\ q.head = c[1]
            BY <3>2, <5>1 DEF Links
          <5>3. CASE k = 1
            BY <5>1, <5>2, <5>3 DEF Links
          <5>4. CASE k # 1
            <6>1. 1 \in 1 .. k - 1 /\ 1 + 1 \in 1 .. k
              BY <5>2, <5>4
            <6> QED BY <5>1, <5>2, <6>1 DEF Links
          <5> QED BY <5>3, <5>4
        <4> QED BY <1>3, <4>1, <4>2 DEF Pages
      <3> QED BY <3>1, <3>2
    <2> HIDE DEF u
    <2>3. Live(u) = Live(q) /\ \A t \in Slots : Width(u, t) = Width(q, t)
      BY <2>2 DEF Live, Width
    <2>4. \A t \in Slots, y \in Records : Holds(q, t, y) <=> Holds(u, t, y)
      BY <2>2, <2>3 DEF Holds, Extent
    <2>5. DataInv(u)
      <3>1. Used(u) = Used(q)
        BY <1>3, <2>2, <2>3, UsedSame
      <3>2. \A t \in Live(q) : t \in Slots
        BY DEF Live
      <3> QED BY <1>2, <2>2, <2>3, <2>4, <3>1, <3>2 DEF DataInv, Within, Beside
    <2>6. /\ DataInv(v) /\ Live(v) = Live(q) \cup {s} /\ Holds(v, s, x) /\ v.head = u.head
          /\ \A t \in Slots \ {s} : v.slot[t] = q.slot[t]
          /\ \A t \in Live(q) \ {s}, y \in Records : Holds(u, t, y) => Holds(v, t, y)
      BY <2>1, <2>2, <2>3, <2>5, PlaceEffect
    <2> HIDE DEF v
    <2>7. ListInv(v)
      <3>1. s = FreeSlot(q) /\ v.head = TakeFreeSlot(q).head
        BY <2>6 DEF s, u
      <3> QED BY <1>2, <1>3, <2>1, <2>6, <3>1, ListTake
    <2>8. Stored(v, s) = x
      BY <2>1, <2>6, StoredIs DEF DataInv
    <2>9. ASSUME NEW t \in Slots \ {s} PROVE Stored(v, t) = Stored(q, t)
      <3>1. t \in Live(q) <=> t \in Live(v)
        BY <2>6
      <3>2. \A y \in Records : Holds(q, t, y) => Holds(v, t, y)
        BY <2>4, <2>6 DEF Holds
      <3> QED BY <1>2, <2>6, <3>1, <3>2, StoredKept DEF DataInv
    <2>10. r.page = v
      BY <1>1, <1>6 DEF v, u
    <2>11. RowsOf(v) = [RowsOf(q) EXCEPT ![s] = x]
      BY <2>1, <2>8, <2>9 DEF RowsOf
    <2> QED BY <1>1, <1>2, <1>5, <1>6, <2>1, <2>6, <2>7, <2>10, <2>11 DEF PageOK
  <1>7. CASE ~fits
    BY <1>1, <1>2, <1>5, <1>7 DEF PageOK
  <1> QED BY <1>6, <1>7

\* A delete empties its slot and puts it first on the list.
LEMMA DeleteEffect ==
    ASSUME NEW p, PageOK(p), NEW s \in Live(p), NEW q, q = DeleteRecord(p, s)
    PROVE  /\ PageOK(q) /\ RowsOf(q) = [RowsOf(p) EXCEPT ![s] = None]
           /\ Live(q) = Live(p) \ {s} /\ Used(q) = Used(p) - p.slot[s].length
  <1> DEFINE r == [offset |-> p.head, length |-> 0, free |-> TRUE]
  <1>0. /\ p \in Pages /\ DataInv(p) /\ ListInv(p) /\ s \in Slots
        /\ p.head \in Slots \cup {Nil} /\ p.head \in Nat
    BY SlotNumbers DEF PageOK, DataInv, Live, Pages
  <1>1. q = [p EXCEPT !.slot[s] = r, !.count = (p.count - 1) % CountRange, !.head = s]
    BY DEF DeleteRecord
  <1>2. r \in Slot /\ r.free /\ r.offset = p.head
    BY <1>0 DEF Slot
  <1> HIDE DEF r
  <1>3. /\ q.start = p.start /\ q.data = p.data /\ q.slot = [p.slot EXCEPT ![s] = r]
        /\ q.head = s /\ q.count = (p.count - 1) % CountRange
    BY <1>0, <1>1 DEF Pages
  <1>4. q \in Pages
    <2>1. q.slot \in [Slots -> Slot]
      BY <1>0, <1>2, <1>3 DEF Pages
    <2>2. q.count \in Int
      BY <1>0, <1>3, CapacityAssumption DEF Pages
    <2>3. q = [p EXCEPT !.slot = q.slot, !.count = q.count, !.head = q.head]
      BY <1>0, <1>1 DEF Pages
    <2> QED BY <1>0, <1>3, <2>1, <2>2, <2>3 DEF Pages
  <1>5. /\ DataInv(q) /\ Live(q) = Live(p) \ {s} /\ Used(q) = Used(p) - p.slot[s].length
        /\ \A t \in Slots \ {s} : q.slot[t] = p.slot[t]
        /\ q.slot[s] = r
        /\ \A t \in Live(q), x \in Records : Holds(p, t, x) => Holds(q, t, x)
    <2>1. Frees(p, q, s, r)
      BY <1>2, <1>3, <1>4 DEF Frees
    <2> QED BY <1>0, <2>1, FreeEffect
  <1>6. ListInv(q)
    <2>1. q.slot[s].offset = p.head /\ q.head = s
      BY <1>2, <1>3, <1>5
    <2>2. Live(q) = Live(p) \ {s} /\ \A t \in Slots \ {s} : q.slot[t] = p.slot[t]
      BY <1>5
    <2> QED BY <1>0, <2>1, <2>2, ListPut
  <1>7. Stored(q, s) = None
    BY <1>0, <1>4, <1>5, StoredIs
  <1>8. ASSUME NEW t \in Slots \ {s} PROVE Stored(q, t) = Stored(p, t)
    <2>1. t \in Live(p) <=> t \in Live(q)
      BY <1>5
    <2>2. \A x \in Records : Holds(p, t, x) => Holds(q, t, x)
      BY <1>5, <2>1 DEF Holds
    <2> QED BY <1>0, <1>4, <2>1, <2>2, StoredKept
  <1>9. RowsOf(q) = [RowsOf(p) EXCEPT ![s] = None]
    BY <1>0, <1>7, <1>8 DEF RowsOf
  <1> QED BY <1>5, <1>6, <1>9 DEF PageOK

\* A page that differs from another in one live slot, and moves no other record,
\* differs in what is read back from that slot alone.
LEMMA RowsChange ==
    ASSUME NEW p, PageOK(p), NEW q, DataInv(q), NEW s \in Live(p), NEW x \in Records,
           Holds(q, s, x), Live(q) = Live(p), q.head = p.head,
           \A t \in Slots \ Live(p) : q.slot[t] = p.slot[t],
           \A t \in Live(p) \ {s}, y \in Records : Holds(p, t, y) => Holds(q, t, y)
    PROVE  PageOK(q) /\ RowsOf(q) = [RowsOf(p) EXCEPT ![s] = x]
  <1>0. p \in Pages /\ q \in Pages /\ DataInv(p) /\ ListInv(p) /\ s \in Slots
    BY DEF PageOK, DataInv, Live
  <1>1. ListInv(q)
    BY <1>0, ListSame
  <1>2. Stored(q, s) = x
    BY <1>0, StoredIs
  <1>3. ASSUME NEW t \in Slots \ {s} PROVE Stored(q, t) = Stored(p, t)
    <2>1. \A y \in Records : Holds(p, t, y) => Holds(q, t, y)
      BY DEF Holds
    <2> QED BY <1>0, <2>1, StoredKept
  <1> QED BY <1>0, <1>1, <1>2, <1>3 DEF PageOK, RowsOf

\* An update is refused only when the record would not fit beside all the old
\* ones, and done only when it fits in place of the old; a refusal loses nothing.
LEMMA UpdateEffect ==
    ASSUME NEW p, PageOK(p), NEW s \in Slots, NEW x \in Records,
           NEW r, r = UpdateRecord(p, s, x)
    PROVE  /\ PageOK(r.page)
           /\ r.ok => s \in Live(p) /\ Used(p) - p.slot[s].length + Size[x] <= DataSize
           /\ s \in Live(p) /\ Used(p) + Size[x] <= DataSize => r.ok
           /\ r.ok => RowsOf(r.page) = [RowsOf(p) EXCEPT ![s] = x]
           /\ ~r.ok => RowsOf(r.page) = RowsOf(p)
  <1> DEFINE old == p.slot[s].length
             q == Compact(p)
             f == [p EXCEPT !.slot[s].free = TRUE, !.count = (p.count - 1) % CountRange]
             v == Compact(f)
  <1>0. /\ p \in Pages /\ DataInv(p) /\ ListInv(p) /\ DataSize \in Nat /\ Size[x] \in Nat
        /\ p.start \in Nat /\ Used(p) \in Nat /\ p.start + Used(p) <= DataSize /\ old \in Nat
        /\ Live(p) \subseteq Slots
    BY CapacityAssumption, SizeAssumption, WritePosFacts
       DEF PageOK, DataInv, Pages, Slot, Live
  <1>1. CASE s \notin Live(p)
    <2>1. r = [ok |-> FALSE, page |-> p]
      BY <1>1 DEF UpdateRecord
    <2> QED BY <1>1, <2>1
  <1>2. CASE s \in Live(p) /\ Size[x] <= old
    <2>1. r = [ok |-> TRUE, page |-> Overwrite(p, s, x)]
      BY <1>0, <1>2 DEF UpdateRecord
    <2> DEFINE u == Overwrite(p, s, x)
    <2>2. /\ DataInv(u) /\ Live(u) = Live(p) /\ Holds(u, s, x) /\ u.head = p.head
          /\ \A t \in Slots \ {s} : u.slot[t] = p.slot[t]
          /\ \A t \in Live(p) \ {s}, y \in Records : Holds(p, t, y) => Holds(u, t, y)
      BY <1>0, <1>2, OverwriteEffect
    <2> HIDE DEF u
    <2>3. PageOK(u) /\ RowsOf(u) = [RowsOf(p) EXCEPT ![s] = x]
      BY <1>2, <2>2, RowsChange
    <2>4. Used(p) - old + Size[x] <= DataSize
      BY <1>0, <1>2
    <2> QED BY <1>2, <2>1, <2>3, <2>4 DEF u
  <1>3. CASE s \in Live(p) /\ Size[x] > old /\ p.start + old >= Size[x]
    <2>1. r = IF v.start < Size[x] THEN [ok |-> FALSE, page |-> v]
              ELSE [ok |-> TRUE, page |-> Place(v, s, x)]
      <3>1. v = Vacate(p, s)
        BY DEF Vacate
      <3> HIDE DEF v
      <3> QED BY <1>0, <1>3, <3>1 DEF UpdateRecord
    <2> HIDE DEF v
    <2> DEFINE d == [p.slot[s] EXCEPT !.free = TRUE]
    <2>2. d \in Slot /\ d.free
      BY <1>0 DEF Pages, Slot
    <2> HIDE DEF d
    <2>3. f.start = p.start /\ f.data = p.data /\ f.slot = [p.slot EXCEPT ![s] = d]
          /\ f.head = p.head /\ f.count = (p.count - 1) % CountRange
      BY <1>0 DEF Pages, d
    <2>4. f \in Pages
      <3>1. f.slot \in [Slots -> Slot]
        BY <1>0, <2>2, <2>3 DEF Pages
      <3>2. f.count \in Int
        BY <1>0, <2>3, CapacityAssumption DEF Pages
      <3>3. f = [p EXCEPT !.slot = f.slot, !.count = f.count]
        BY <1>0 DEF Pages
      <3> HIDE DEF f
      <3> QED BY <1>0, <3>1, <3>2, <3>3 DEF Pages
    <2> HIDE DEF f
    <2>5. /\ DataInv(f) /\ Live(f) = Live(p) \ {s} /\ Used(f) = Used(p) - old
          /\ \A t \in Slots \ {s} : f.slot[t] = p.slot[t]
          /\ \A t \in Live(f), y \in Records : Holds(p, t, y) => Holds(f, t, y)
      <3>1. Frees(p, f, s, d)
        BY <2>2, <2>3, <2>4 DEF Frees
      <3> QED BY <1>0, <1>3, <3>1, FreeEffect
    <2>6. /\ DataInv(v) /\ Live(v) = Live(f) /\ Used(v) = Used(f)
          /\ v.start = DataSize - Used(f) /\ v.head = f.head
          /\ \A t \in Slots \ Live(f) : v.slot[t] = f.slot[t]
          /\ \A t \in Live(f), y \in Records : Holds(f, t, y) => Holds(v, t, y)
      BY <2>5, CompactEffect DEF v
    <2>7. Size[x] <= v.start /\ ~(v.start < Size[x])
      BY <1>0, <1>3, <2>5, <2>6
    <2> DEFINE u == Place(v, s, x)
    <2>8. /\ DataInv(u) /\ Live(u) = Live(v) \cup {s} /\ Holds(u, s, x) /\ u.head = v.head
          /\ \A t \in Slots \ {s} : u.slot[t] = v.slot[t]
          /\ \A t \in Live(v) \ {s}, y \in Records : Holds(v, t, y) => Holds(u, t, y)
      BY <1>0, <2>6, <2>7, PlaceEffect
    <2>9. r = [ok |-> TRUE, page |-> u]
      BY <2>1, <2>7
    <2> HIDE DEF u
    <2>10. PageOK(u) /\ RowsOf(u) = [RowsOf(p) EXCEPT ![s] = x]
      <3>1. Live(u) = Live(p) /\ u.head = p.head
        BY <1>3, <2>3, <2>5, <2>6, <2>8
      <3>2. \A t \in Slots \ Live(p) : u.slot[t] = p.slot[t]
        BY <1>3, <2>5, <2>6, <2>8
      <3>3. \A t \in Live(p) \ {s}, y \in Records : Holds(p, t, y) => Holds(u, t, y)
        BY <2>5, <2>6, <2>8
      <3> QED BY <1>3, <2>8, <3>1, <3>2, <3>3, RowsChange
    <2>11. Used(p) - old + Size[x] <= DataSize
      BY <1>0, <1>3
    <2> QED BY <1>3, <2>9, <2>10, <2>11
  <1>4. CASE s \in Live(p) /\ Size[x] > old /\ p.start + old < Size[x]
    <2>1. r = IF q.start < Size[x] THEN [ok |-> FALSE, page |-> q]
              ELSE [ok |-> TRUE, page |-> Place(q, s, x)]
      BY <1>0, <1>4 DEF UpdateRecord
    <2>2. /\ DataInv(q) /\ Live(q) = Live(p) /\ q.start = DataSize - Used(p)
          /\ q.head = p.head /\ \A t \in Slots \ Live(p) : q.slot[t] = p.slot[t]
          /\ \A t \in Live(p), y \in Records : Holds(p, t, y) => Holds(q, t, y)
      BY <1>0, CompactEffect
    <2> HIDE DEF q
    <2>3. CASE q.start < Size[x]
      <3>1. PageOK(q)
        BY <1>0, <2>2, ListSame DEF PageOK
      <3>2. ASSUME NEW t \in Slots PROVE Stored(q, t) = Stored(p, t)
        <4>1. \A y \in Records : Holds(p, t, y) => Holds(q, t, y)
          BY <2>2 DEF Holds
        <4> QED BY <1>0, <2>2, <4>1, StoredKept DEF DataInv
      <3>3. ~(Used(p) + Size[x] <= DataSize)
        BY <1>0, <2>2, <2>3
      <3> QED BY <2>1, <2>3, <3>1, <3>2, <3>3 DEF RowsOf
    <2>4. CASE ~(q.start < Size[x])
      <3> DEFINE u == Place(q, s, x)
      <3>1. Size[x] <= q.start
        BY <1>0, <2>2, <2>4
      <3>2. /\ DataInv(u) /\ Live(u) = Live(q) \cup {s} /\ Holds(u, s, x) /\ u.head = q.head
            /\ \A t \in Slots \ {s} : u.slot[t] = q.slot[t]
            /\ \A t \in Live(q) \ {s}, y \in Records : Holds(q, t, y) => Holds(u, t, y)
        BY <1>0, <2>2, <3>1, PlaceEffect
      <3>3. r = [ok |-> TRUE, page |-> u]
        BY <2>1, <2>4
      <3> HIDE DEF u
      <3>4. PageOK(u) /\ RowsOf(u) = [RowsOf(p) EXCEPT ![s] = x]
        <4>1. Live(u) = Live(p) /\ u.head = p.head
          BY <1>4, <2>2, <3>2
        <4>2. \A t \in Slots \ Live(p) : u.slot[t] = p.slot[t]
          BY <1>4, <2>2, <3>2
        <4>3. \A t \in Live(p) \ {s}, y \in Records : Holds(p, t, y) => Holds(u, t, y)
          BY <2>2, <3>2
        <4> QED BY <1>4, <3>2, <4>1, <4>2, <4>3, RowsChange
      <3>5. Used(p) - old + Size[x] <= DataSize
        BY <1>0, <2>2, <3>1
      <3> QED BY <1>4, <3>3, <3>4, <3>5
    <2> QED BY <2>3, <2>4
  <1>5. \/ Size[x] <= old
        \/ Size[x] > old /\ p.start + old >= Size[x]
        \/ Size[x] > old /\ p.start + old < Size[x]
    BY <1>0
  <1> QED BY <1>1, <1>2, <1>3, <1>4, <1>5
=============================================================================
