-------------------------- MODULE BPlusTreeProofs ---------------------------
(***************************************************************************)
(* The B+tree is one after every operation, its leaves are chained in      *)
(* order, and find and range_find answer from them: for any number of keys *)
(* and of pages, nodes of any capacity, and any operations.                *)
(*                                                                         *)
(* The argument is about Tree: what the pages hold once the writes in todo *)
(* are made.  Good(Tree) says that every page is right for its range of    *)
(* keys: a leaf holds the entries of content in the range (Holds), an      *)
(* inner node divides it among its children (Routes).  A split that the    *)
(* node above does not know of yet is the one exception: for the node      *)
(* above, the page that split still has its old range (Upper).  First come *)
(* the sequences, then what each change to one node, or to a node and two  *)
(* of its children, keeps of Good, then the actions.  Writing says which   *)
(* writes todo can hold: the rest of one split, borrowing or merge.        *)
(*                                                                         *)
(* All of it is under the condition twice = {}: that no key was inserted   *)
(* while the tree held it.                                                 *)
(***************************************************************************)
EXTENDS BPlusTree, TLAPS, SequenceTheorems, WellFoundedInduction

Separators == Int
PageIds == Nat

Nodes == [leaf : BOOLEAN, entries : Seq(Entries), next : Nat,
          keys : Seq(Separators), kids : Seq(PageIds)]

\* what becomes of s, a sequence of length n: t has e put in at position p, or lacks
\* the element at p, or has e there instead; t is the n elements that follow the f-th
Inserted(s, n, p, e, t) ==
    /\ \A j \in 1 .. p - 1 : t[j] = s[j]
    /\ t[p] = e
    /\ \A j \in p + 1 .. n + 1 : t[j] = s[j - 1]

Removed(s, n, p, t) ==
    (\A j \in 1 .. p - 1 : t[j] = s[j]) /\ (\A j \in p .. n - 1 : t[j] = s[j + 1])

Replaced(s, n, p, e, t) == t[p] = e /\ \A j \in (1 .. n) \ {p} : t[j] = s[j]

Slice(s, f, n, t) == \A j \in 1 .. n : t[j] = s[f + j]

\* es are the entries of C with a key of lo .. hi - 1, in order
Holds(es, lo, hi, C) ==
    /\ \A i, j \in 1 .. Len(es) : i < j => es[i][1] < es[j][1]
    /\ \A i \in 1 .. Len(es) : es[i] \in C /\ lo <= es[i][1] /\ es[i][1] < hi
    /\ \A e \in C : lo <= e[1] /\ e[1] < hi => \E i \in 1 .. Len(es) : es[i] = e

\* A tree T is [page, lo, hi, lv, up, content]: nodes, ranges and levels by page,
\* in up the end of a page's range as the node above has it, for the pages that
\* have a node above, and the entries.

\* leaf to comes after a leaf whose range ends at hi
Link(T, to, hi) ==
    IF to = NoPage THEN hi = Beyond ELSE to \in DOMAIN T.lo /\ T.lv[to] = 0 /\ T.lo[to] = hi

\* n keys divide lo .. hi - 1 among n + 1 kids, pages one level below lv
Routes(T, n, keys, kids, lo, hi, lv) ==
    /\ \A i \in 1 .. n : keys[i] \in Int /\ lo < keys[i] /\ keys[i] < hi
    /\ \A i, j \in 1 .. n : i < j => keys[i] < keys[j]
    /\ \A i \in 1 .. n + 1 :
          /\ kids[i] \in DOMAIN T.up /\ T.lv[kids[i]] = lv - 1
          /\ T.lo[kids[i]] = (IF i = 1 THEN lo ELSE keys[i - 1])
          /\ T.up[kids[i]] = (IF i = n + 1 THEN hi ELSE keys[i])

\* U has the kids with the numbers J where T has them
KidsKept(T, U, kids, J) == \A j \in J :
    /\ kids[j] \in DOMAIN U.up /\ U.lv[kids[j]] = T.lv[kids[j]]
    /\ U.lo[kids[j]] = T.lo[kids[j]] /\ U.up[kids[j]] = T.up[kids[j]]

\* node n is right for a page of level lv that holds the keys lo .. hi - 1
Fits(T, n, lo, hi, lv) ==
    IF lv = 0 THEN n.leaf /\ Holds(n.entries, lo, hi, T.content)
    ELSE /\ ~n.leaf /\ Len(n.kids) = Len(n.keys) + 1
         /\ Routes(T, Len(n.keys), n.keys, n.kids, lo, hi, lv)

NodeOk(T, id, n) ==
    /\ Fits(T, n, T.lo[id], T.hi[id], T.lv[id])
    /\ T.lv[id] = 0 => Link(T, n.next, T.hi[id])

Typed(T) ==
    /\ DOMAIN T.lo \subseteq Nat \ {0} /\ T.page \in [DOMAIN T.lo -> Nodes]
    /\ T.lo \in [DOMAIN T.lo -> Int] /\ T.hi \in [DOMAIN T.lo -> Int]
    /\ T.lv \in [DOMAIN T.lo -> Nat]
    /\ DOMAIN T.up \subseteq DOMAIN T.lo /\ T.up \in [DOMAIN T.up -> Int]
    /\ T.content \subseteq Entries

Apart(T) == \A x, y \in DOMAIN T.lo :
    /\ 1 <= T.lo[x] /\ T.lo[x] < T.hi[x] /\ T.hi[x] <= Beyond
    /\ x # y /\ T.lv[x] = T.lv[y] => T.hi[x] <= T.lo[y] \/ T.hi[y] <= T.lo[x]

Good(T) == Typed(T) /\ Apart(T) /\ \A id \in DOMAIN T.lo : NodeOk(T, id, T.page[id])

\* l and r are children i and i + 1 of p
Neighbours(T, p, i, l, r) == l = T.page[p].kids[i] /\ r = T.page[p].kids[i + 1]

\* page top is the root of T
Topped(T, top) ==
    /\ top \in DOMAIN T.up /\ T.lo[top] = 1 /\ T.up[top] = Beyond
    /\ \A id \in DOMAIN T.up \ {top} : T.lv[id] < T.lv[top]

(***************************************************************************)
(* The tree of a state and the inductive invariant.                        *)
(***************************************************************************)
Ahead == [id \in Ids |->
    IF Len(todo) >= 1 /\ todo[1].page = id THEN todo[1].node
    ELSE IF Len(todo) >= 2 /\ todo[2].page = id THEN todo[2].node
    ELSE pages[id]]

Placed == IF pc = "grow" THEN Ids \ {right} ELSE Ids

Upper == [id \in Placed |-> IF pc = "grow" /\ id = at THEN high[right] ELSE high[id]]

Tree == [page |-> Ahead, lo |-> low, hi |-> high, lv |-> level, up |-> Upper,
         content |-> content]

Writes == [page : Nat, node : Nodes, drop : SUBSET Nat]

TypeOK ==
    /\ root \in Nat /\ next \in Nat /\ Ids \subseteq 1 .. next - 1
    /\ DOMAIN pages \subseteq 1 .. next - 1 /\ pages \in [DOMAIN pages -> Nodes]
    /\ todo \in Seq(Writes)
    /\ pc \in {"idle", "descend", "grow", "shrink", "scan"}
    /\ key \in Int /\ at \in Nat /\ path \in Seq(Nat) /\ promoted \in Int /\ right \in Nat
    /\ end \in Int /\ content \subseteq Entries

\* a key has one entry
Unique == \A e, f \in content : e[1] = f[1] => e = f

\* no entry has the key
Fresh(k) == \A e \in content : e[1] # k

\* todo is at most two writes of different pages of the tree; where it is empty,
\* so is what Ahead adds to pages
Pending ==
    /\ Len(todo) <= 2 /\ (todo # <<>> => pc \in {"grow", "shrink"})
    /\ \A i \in 1 .. Len(todo) :
          /\ todo[i].page \in Ids /\ todo[i].drop \cap Ids = {}
          /\ \A j \in 1 .. Len(todo) : i # j => todo[i].page # todo[j].page
    /\ \A id \in Ids : id \notin DOMAIN pages => \E i \in 1 .. Len(todo) : todo[i].page = id

\* every entry of es is one of fs
Within(es, fs) == \A i \in 1 .. Len(es) : \E j \in 1 .. Len(fs) : es[i] = fs[j]

\* what is on disk of a leaf is part of what the finished operation leaves
Shows(T, id, n) ==
    /\ n.leaf <=> T.lv[id] = 0
    /\ n.leaf =>
          /\ n.next = T.page[id].next
          /\ \A i, j \in 1 .. Len(n.entries) : i < j => n.entries[i][1] < n.entries[j][1]
          /\ Within(n.entries, T.page[id].entries)

\* n is what page id holds in U or, of the leaves, what it held in T if U kept that
Early(T, U, id, n) ==
    \/ n = U.page[id]
    \/ /\ id \in DOMAIN T.lo /\ n = T.page[id] /\ U.lv[id] = T.lv[id]
       /\ T.lv[id] = 0 =>
             /\ U.page[id].next = T.page[id].next
             /\ Within(T.page[id].entries, U.page[id].entries)

DiskOk(T, disk) == \A id \in DOMAIN T.lo \cap DOMAIN disk : Shows(T, id, disk[id])

OnDiskAlready == DiskOk(Tree, pages)

\* a removal leaves the node it is at one short, until it is back in the node above
Least(id) == IF pc = "shrink" /\ id = at THEN MinKeys - 1 ELSE MinKeys

Filled ==
    /\ \A id \in Ids : Count(Ahead[id]) <= MaxKeys /\ (id # root => Count(Ahead[id]) >= Least(id))
    /\ level[root] > 0 /\ ~(pc = "shrink" /\ at = root) => Count(Ahead[root]) >= 1
    /\ pc = "grow" => Count(Ahead[at]) >= MinKeys

\* at and the pages of path are the way from the root to key
OnPath ==
    /\ key \in Keys /\ at \in Placed /\ low[at] <= key /\ key < Upper[at]
    /\ IF path = <<>> THEN at = root ELSE path[1] = root
    /\ \A j \in 1 .. Len(path) :
          /\ path[j] \in Placed /\ level[path[j]] = level[at] + Len(path) + 1 - j
          /\ low[path[j]] <= key /\ key < Upper[path[j]]

SplitBelow ==
    /\ right \in Ids /\ right # at /\ level[right] = level[at]
    /\ low[right] = promoted /\ high[at] = promoted

Scanned ==
    /\ at \in Ids /\ level[at] = 0 /\ key \in Keys
    /\ found = {e \in content : key <= e[1] /\ e[1] < end /\ e[1] < low[at]}

Located ==
    /\ pc \in {"descend", "grow", "shrink"} => OnPath
    /\ pc = "grow" => SplitBelow
    /\ pc = "scan" => Scanned
    /\ pc # "scan" => found = {}
    /\ pc \in {"idle", "scan"} => path = <<>>

Inv ==
    /\ TypeOK /\ Good(Tree) /\ Topped(Tree, root) /\ Unique
    /\ Pending /\ OnDiskAlready /\ Filled /\ Located

(***************************************************************************)
(* Sequences.                                                              *)
(***************************************************************************)
LEMMA FirstIsLeast ==
    ASSUME NEW n \in Nat, NEW S \in SUBSET (1 .. n)
    PROVE  /\ First(S, n + 1) \in S \cup {n + 1}
           /\ \A i \in S : First(S, n + 1) <= i
<1> DEFINE R == S \cup {n + 1}
<1>1. R \in SUBSET Nat /\ R # {}
  OBVIOUS
<1>2. PICK m \in R : \A i \in R : ~(<<i, m>> \in OpToRel(<, Nat))
  <2> HIDE DEF R
  <2> QED BY <1>1, NatLessThanWellFounded, WFMin, ZenonT(30)
<1>3. ASSUME NEW i \in R, ~(m <= i) PROVE FALSE
  <2>1. m \in Nat /\ i \in Nat /\ i < m
    BY <1>1, <1>3
  <2>2. <<i, m>> \in OpToRel(<, Nat)
    BY <2>1 DEF OpToRel
  <2> QED BY <2>2, <1>2, ZenonT(30)
<1>4. First(S, n + 1) \in R /\ \A i \in R : First(S, n + 1) <= i
  BY <1>3 DEF First
<1> QED BY <1>4

\* the child for key k lies between the separators around k
LEMMA ChildOf ==
    ASSUME NEW n \in Nodes, NEW k \in Int
    PROVE  /\ ChildIndex(n, k) \in 1 .. Len(n.keys) + 1
           /\ ChildIndex(n, k) > 1 => n.keys[ChildIndex(n, k) - 1] <= k
           /\ ChildIndex(n, k) <= Len(n.keys) => k < n.keys[ChildIndex(n, k)]
<1> DEFINE S == {i \in 1 .. Len(n.keys) : k < n.keys[i]}
           c == First(S, Len(n.keys) + 1)
<1>1. n.keys \in Seq(Int) /\ Len(n.keys) \in Nat
  BY DEF Nodes, Separators
<1>2. c \in S \cup {Len(n.keys) + 1} /\ \A i \in S : c <= i
  <2>1. S \in SUBSET (1 .. Len(n.keys))
    OBVIOUS
  <2> HIDE DEF S
  <2> QED BY <2>1, <1>1, FirstIsLeast
<1>3. c \in 1 .. Len(n.keys) + 1
  BY <1>1, <1>2
<1>4. ASSUME c > 1 PROVE n.keys[c - 1] <= k
  <2>1. c - 1 \in 1 .. Len(n.keys) /\ n.keys[c - 1] \in Int /\ ~(c <= c - 1)
    <3> HIDE DEF S, c
    <3> QED BY <1>1, <1>3, <1>4
  <2>2. c - 1 \notin S
    <3> HIDE DEF S, c
    <3> QED BY <2>1, <1>2
  <2> HIDE DEF c
  <2> QED BY <2>1, <2>2
<1>5. ASSUME c <= Len(n.keys) PROVE k < n.keys[c]
  BY <1>1, <1>2, <1>5
<1> QED BY <1>3, <1>4, <1>5 DEF ChildIndex

LEMMA InsertAtIs ==
    ASSUME NEW S, NEW s \in Seq(S), NEW p \in 1 .. Len(s) + 1, NEW e \in S
    PROVE  /\ InsertAt(s, p, e) \in Seq(S) /\ Len(InsertAt(s, p, e)) = Len(s) + 1
           /\ \A i \in 1 .. Len(s) + 1 :
                 InsertAt(s, p, e)[i] = IF i < p THEN s[i] ELSE IF i = p THEN e ELSE s[i - 1]
<1> DEFINE a == SubSeq(s, 1, p - 1)
           b == SubSeq(s, p, Len(s))
<1>1. /\ a \in Seq(S) /\ Len(a) = p - 1 /\ \A i \in 1 .. p - 1 : a[i] = s[i]
      /\ b \in Seq(S) /\ Len(b) = Len(s) - p + 1
      /\ \A i \in 1 .. Len(s) - p + 1 : b[i] = s[p + i - 1]
  BY SubSeqProperties, ElementOfSeq
<1>2. <<e>> \in Seq(S) /\ Len(<<e>>) = 1 /\ <<e>>[1] = e
  OBVIOUS
<1> DEFINE c == a \o <<e>>
<1> HIDE DEF a, b
<1>3. c \in Seq(S) /\ Len(c) = p /\ \A i \in 1 .. p : c[i] = IF i < p THEN s[i] ELSE e
  BY <1>1, <1>2, ConcatProperties
<1> HIDE DEF c
<1>4. /\ c \o b \in Seq(S) /\ Len(c \o b) = Len(c) + Len(b)
      /\ \A i \in 1 .. Len(c) + Len(b) :
            (c \o b)[i] = IF i <= Len(c) THEN c[i] ELSE b[i - Len(c)]
  BY <1>1, <1>3, ConcatProperties
<1>5. Len(c) + Len(b) = Len(s) + 1 /\ Len(c) = p
  BY <1>1, <1>3
<1>6. InsertAt(s, p, e) = c \o b
  BY DEF InsertAt, a, b, c
<1> HIDE DEF c
<1>7. ASSUME NEW i \in 1 .. Len(s) + 1
      PROVE  (c \o b)[i] = IF i < p THEN s[i] ELSE IF i = p THEN e ELSE s[i - 1]
  <2>1. (c \o b)[i] = IF i <= p THEN c[i] ELSE b[i - p]
    BY <1>4, <1>5
  <2>2. i > p => i - p \in 1 .. Len(s) - p + 1 /\ p + (i - p) - 1 = i - 1
    OBVIOUS
  <2> QED BY <2>1, <2>2, <1>1, <1>3
<1> QED BY <1>4, <1>5, <1>6, <1>7

LEMMA RemoveAtIs ==
    ASSUME NEW S, NEW s \in Seq(S), NEW p \in 1 .. Len(s)
    PROVE  /\ RemoveAt(s, p) \in Seq(S) /\ Len(RemoveAt(s, p)) = Len(s) - 1
           /\ \A i \in 1 .. Len(s) - 1 : RemoveAt(s, p)[i] = IF i < p THEN s[i] ELSE s[i + 1]
<1> DEFINE a == SubSeq(s, 1, p - 1)
           b == SubSeq(s, p + 1, Len(s))
<1>1. /\ a \in Seq(S) /\ Len(a) = p - 1 /\ \A i \in 1 .. p - 1 : a[i] = s[i]
      /\ b \in Seq(S) /\ Len(b) = Len(s) - p
      /\ \A i \in 1 .. Len(s) - p : b[i] = s[p + i]
  BY SubSeqProperties, ElementOfSeq
<1> HIDE DEF a, b
<1>2. /\ a \o b \in Seq(S) /\ Len(a \o b) = Len(a) + Len(b)
      /\ \A i \in 1 .. Len(a) + Len(b) :
            (a \o b)[i] = IF i <= Len(a) THEN a[i] ELSE b[i - Len(a)]
  BY <1>1, ConcatProperties
<1>3. Len(a) + Len(b) = Len(s) - 1 /\ Len(a) = p - 1
  BY <1>1
<1>4. RemoveAt(s, p) = a \o b
  BY DEF RemoveAt, a, b
<1>5. ASSUME NEW i \in 1 .. Len(s) - 1
      PROVE  (a \o b)[i] = IF i < p THEN s[i] ELSE s[i + 1]
  <2>1. (a \o b)[i] = IF i <= p - 1 THEN a[i] ELSE b[i - (p - 1)]
    BY <1>2, <1>3
  <2>2. i >= p => i - (p - 1) \in 1 .. Len(s) - p /\ p + (i - (p - 1)) = i + 1
    OBVIOUS
  <2> QED BY <2>1, <2>2, <1>1, SMTT(30)
<1> QED BY <1>2, <1>3, <1>4, <1>5

\* a sequence cut after its h-th element
LEMMA Cut ==
    ASSUME NEW S, NEW s \in Seq(S), NEW h \in 0 .. Len(s), NEW g \in h + 1 .. Len(s) + 1
    PROVE  /\ SubSeq(s, 1, h) \in Seq(S) /\ Len(SubSeq(s, 1, h)) = h
           /\ \A i \in 1 .. h : SubSeq(s, 1, h)[i] = s[i]
           /\ SubSeq(s, g, Len(s)) \in Seq(S) /\ Len(SubSeq(s, g, Len(s))) = Len(s) + 1 - g
           /\ \A i \in 1 .. Len(s) + 1 - g : SubSeq(s, g, Len(s))[i] = s[g + i - 1]
<1>1. \A i \in 1 .. Len(s) : s[i] \in S
  BY ElementOfSeq
<1>2. h \in Int /\ g \in Int /\ Len(s) \in Nat
  OBVIOUS
<1> QED BY <1>1, <1>2, SubSeqProperties

\* the same facts, for the lemmas about nodes
LEMMA Inserts ==
    ASSUME NEW S, NEW s \in Seq(S), NEW p \in 1 .. Len(s) + 1, NEW e \in S
    PROVE  /\ InsertAt(s, p, e) \in Seq(S) /\ Len(InsertAt(s, p, e)) = Len(s) + 1
           /\ Inserted(s, Len(s), p, e, InsertAt(s, p, e))
<1>1. InsertAt(s, p, e) \in Seq(S) /\ Len(InsertAt(s, p, e)) = Len(s) + 1
  BY InsertAtIs
<1>2. \A i \in 1 .. Len(s) + 1 :
         InsertAt(s, p, e)[i] = IF i < p THEN s[i] ELSE IF i = p THEN e ELSE s[i - 1]
  BY InsertAtIs
<1> DEFINE t == InsertAt(s, p, e)
<1>3. Inserted(s, Len(s), p, e, t)
  <2> HIDE DEF t
  <2>1. \A i \in 1 .. Len(s) + 1 : t[i] = IF i < p THEN s[i] ELSE IF i = p THEN e ELSE s[i - 1]
    BY <1>2 DEF t
  <2>2. Len(s) \in Nat
    OBVIOUS
  <2> QED BY <2>1, <2>2 DEF Inserted
<1> QED BY <1>1, <1>3

LEMMA Removes ==
    ASSUME NEW S, NEW s \in Seq(S), NEW p \in 1 .. Len(s)
    PROVE  /\ RemoveAt(s, p) \in Seq(S) /\ Len(RemoveAt(s, p)) = Len(s) - 1
           /\ Removed(s, Len(s), p, RemoveAt(s, p))
<1>1. RemoveAt(s, p) \in Seq(S) /\ Len(RemoveAt(s, p)) = Len(s) - 1
  BY RemoveAtIs
<1>2. \A i \in 1 .. Len(s) - 1 : RemoveAt(s, p)[i] = IF i < p THEN s[i] ELSE s[i + 1]
  BY RemoveAtIs
<1> DEFINE t == RemoveAt(s, p)
<1>3. Removed(s, Len(s), p, t)
  <2> HIDE DEF t
  <2>1. \A i \in 1 .. Len(s) - 1 : t[i] = IF i < p THEN s[i] ELSE s[i + 1]
    BY <1>2 DEF t
  <2>2. Len(s) \in Nat
    OBVIOUS
  <2> QED BY <2>1, <2>2 DEF Removed
<1> QED BY <1>1, <1>3

LEMMA Slices ==
    ASSUME NEW S, NEW s \in Seq(S), NEW h \in 0 .. Len(s), NEW g \in h + 1 .. Len(s) + 1
    PROVE  /\ SubSeq(s, 1, h) \in Seq(S) /\ Len(SubSeq(s, 1, h)) = h
           /\ Slice(s, 0, h, SubSeq(s, 1, h))
           /\ SubSeq(s, g, Len(s)) \in Seq(S) /\ Len(SubSeq(s, g, Len(s))) = Len(s) + 1 - g
           /\ Slice(s, g - 1, Len(s) + 1 - g, SubSeq(s, g, Len(s)))
<1>1. /\ SubSeq(s, 1, h) \in Seq(S) /\ Len(SubSeq(s, 1, h)) = h
      /\ SubSeq(s, g, Len(s)) \in Seq(S) /\ Len(SubSeq(s, g, Len(s))) = Len(s) + 1 - g
  BY Cut
<1>2. \A i \in 1 .. h : SubSeq(s, 1, h)[i] = s[i]
  BY Cut
<1>3. \A i \in 1 .. Len(s) + 1 - g : SubSeq(s, g, Len(s))[i] = s[g + i - 1]
  BY Cut
<1>4. Slice(s, 0, h, SubSeq(s, 1, h))
  <2>1. \A i \in 1 .. h : 0 + i = i
    OBVIOUS
  <2> QED BY <1>2, <2>1 DEF Slice
<1>5. Slice(s, g - 1, Len(s) + 1 - g, SubSeq(s, g, Len(s)))
  <2>1. \A i \in 1 .. Len(s) + 1 - g : (g - 1) + i = g + i - 1
    OBVIOUS
  <2> QED BY <1>3, <2>1 DEF Slice
<1> QED BY <1>1, <1>4, <1>5

LEMMA Joins ==
    ASSUME NEW S, NEW s \in Seq(S), NEW t \in Seq(S)
    PROVE  /\ s \o t \in Seq(S) /\ Len(s \o t) = Len(s) + Len(t)
           /\ Slice(s \o t, 0, Len(s), s) /\ Slice(s \o t, Len(s), Len(t), t)
<1>1. /\ s \o t \in Seq(S) /\ Len(s \o t) = Len(s) + Len(t) /\ Len(s) \in Nat /\ Len(t) \in Nat
      /\ \A i \in 1 .. Len(s) + Len(t) :
            (s \o t)[i] = IF i <= Len(s) THEN s[i] ELSE t[i - Len(s)]
  OBVIOUS
<1> DEFINE u == s \o t
           a == Len(s)
           b == Len(t)
<1>2. Slice(u, 0, a, s) /\ Slice(u, a, b, t)
  <2>1. /\ a \in Nat /\ b \in Nat
        /\ \A i \in 1 .. a + b : u[i] = IF i <= a THEN s[i] ELSE t[i - a]
    BY <1>1
  <2> HIDE DEF u, a, b
  <2>2. ASSUME NEW i \in 1 .. a PROVE s[i] = u[0 + i]
    BY <2>1
  <2>3. ASSUME NEW i \in 1 .. b PROVE t[i] = u[a + i]
    <3>1. a + i \in 1 .. a + b /\ ~(a + i <= a) /\ (a + i) - a = i
      BY <2>1
    <3> QED BY <2>1, <3>1
  <2> QED BY <2>2, <2>3 DEF Slice
<1> QED BY <1>1, <1>2

(***************************************************************************)
(* The entries of a leaf.                                                  *)
(***************************************************************************)
LEMMA EntryAt ==
    ASSUME NEW es \in Seq(Entries), NEW i \in 1 .. Len(es)
    PROVE  es[i] \in Entries /\ es[i][1] \in Int
<1>1. es[i] \in Entries
  BY ElementOfSeq
<1> QED BY <1>1, KeysAssumption DEF Entries, Keys

LEMMA PositionIs ==
    ASSUME NEW es \in Seq(Entries), NEW k \in Int
    PROVE  /\ Position(es, k) \in 1 .. Len(es) + 1
           /\ \A i \in 1 .. Len(es) : i < Position(es, k) => es[i][1] <= k
           /\ Position(es, k) <= Len(es) => ~(es[Position(es, k)][1] <= k)
<1> DEFINE S == {i \in 1 .. Len(es) : ~(es[i][1] <= k)}
           p == First(S, Len(es) + 1)
<1>1. p \in S \cup {Len(es) + 1} /\ \A i \in S : p <= i
  <2>1. S \in SUBSET (1 .. Len(es)) /\ Len(es) \in Nat
    OBVIOUS
  <2> HIDE DEF S
  <2> QED BY <2>1, FirstIsLeast
<1>2. \A i \in 1 .. Len(es) : i < p => i \notin S
  <2>1. p \in Nat
    BY <1>1
  <2> HIDE DEF S, p
  <2> QED BY <1>1, <2>1
<1> HIDE DEF p
<1>3. \A i \in 1 .. Len(es) : i < p => es[i][1] <= k
  BY <1>2
<1>4. p \in 1 .. Len(es) + 1 /\ (p <= Len(es) => ~(es[p][1] <= k))
  BY <1>1
<1> QED BY <1>3, <1>4 DEF Position, p

LEMMA HoldsInsert ==
    ASSUME NEW es \in Seq(Entries), NEW lo \in Int, NEW hi \in Int, NEW C \in SUBSET Entries,
           Holds(es, lo, hi, C), NEW e \in Entries, lo <= e[1], e[1] < hi,
           \A f \in C : f[1] # e[1], NEW fs, fs = InsertAt(es, Position(es, e[1]), e)
    PROVE  fs \in Seq(Entries) /\ Len(fs) = Len(es) + 1 /\ Holds(fs, lo, hi, C \cup {e})
<1> DEFINE p == Position(es, e[1])
<1>0. e[1] \in Int
  BY KeysAssumption DEF Entries, Keys
<1>1. /\ p \in 1 .. Len(es) + 1 /\ \A i \in 1 .. Len(es) : i < p => es[i][1] <= e[1]
      /\ p <= Len(es) => ~(es[p][1] <= e[1])
  BY <1>0, PositionIs
<1>2. fs = InsertAt(es, p, e)
  OBVIOUS
<1> HIDE DEF p
<1>9. /\ fs \in Seq(Entries) /\ Len(fs) = Len(es) + 1 /\ Len(es) \in Nat
      /\ \A i \in 1 .. Len(es) + 1 :
            fs[i] = IF i < p THEN es[i] ELSE IF i = p THEN e ELSE es[i - 1]
  <2>1. es \in Seq(Entries) /\ e \in Entries /\ p \in 1 .. Len(es) + 1 /\ Len(es) \in Nat
    BY <1>1
  <2>2. /\ InsertAt(es, p, e) \in Seq(Entries) /\ Len(InsertAt(es, p, e)) = Len(es) + 1
        /\ \A i \in 1 .. Len(es) + 1 :
              InsertAt(es, p, e)[i] = IF i < p THEN es[i] ELSE IF i = p THEN e ELSE es[i - 1]
    BY ONLY <2>1, InsertAtIs
  <2> QED BY ONLY <2>1, <2>2, <1>2
<1>3. \A i \in 1 .. Len(es) : /\ es[i][1] \in Int /\ es[i][1] # e[1] /\ es[i] \in C
                              /\ lo <= es[i][1] /\ es[i][1] < hi
  BY EntryAt DEF Holds
<1>4. \A i, j \in 1 .. Len(es) : i < j => es[i][1] < es[j][1]
  BY DEF Holds
<1>5. \A i \in 1 .. Len(es) : (i < p => es[i][1] < e[1]) /\ (p <= i => e[1] < es[i][1])
  <2>1. TAKE i \in 1 .. Len(es)
  <2>2. i < p => es[i][1] < e[1]
    BY <1>0, <1>1, <1>3
  <2>3. p = i => e[1] < es[i][1]
    BY <1>0, <1>1, <1>3
  <2>4. ASSUME p < i PROVE e[1] < es[i][1]
    <3>1. p \in 1 .. Len(es) /\ es[p][1] < es[i][1]
      BY <1>1, <1>4, <2>4
    <3> QED BY <3>1, <1>0, <1>1, <1>3
  <2> QED BY <2>2, <2>3, <2>4, <1>1
<1>6. ASSUME NEW i \in 1 .. Len(fs), NEW j \in 1 .. Len(fs), i < j
      PROVE  fs[i][1] < fs[j][1]
  <2>0. Len(es) \in Nat /\ p \in 1 .. Len(es) + 1
    BY <1>1
  <2>1. CASE j < p
    <3>1. fs[i] = es[i] /\ fs[j] = es[j] /\ i \in 1 .. Len(es) /\ j \in 1 .. Len(es)
      BY ONLY <2>0, <2>1, <1>9, <1>6
    <3> QED BY ONLY <3>1, <1>4, <1>6
  <2>2. CASE j = p
    <3>1. fs[j] = e
      BY <2>0, <2>2, <1>9, <1>6
    <3>2. fs[i] = es[i] /\ i \in 1 .. Len(es) /\ i < p
      BY <2>0, <2>2, <1>9, <1>6
    <3> QED BY <3>1, <3>2, <1>5
  <2>3. CASE p < j /\ i < p
    <3>1. fs[i] = es[i] /\ i \in 1 .. Len(es)
      BY <2>0, <2>3, <1>9
    <3>3. fs[j] = es[j - 1] /\ j - 1 \in 1 .. Len(es) /\ p <= j - 1
      BY <2>0, <2>3, <1>9
    <3>2. es[i][1] < e[1] /\ e[1] < es[j - 1][1]
      BY <3>1, <3>3, <2>0, <2>3, <1>5
    <3>4. es[i][1] \in Int /\ es[j - 1][1] \in Int
      BY ONLY <3>1, <3>3, <1>3
    <3>5. fs[i][1] = es[i][1] /\ fs[j][1] = es[j - 1][1]
      BY ONLY <3>1, <3>3
    <3> QED BY ONLY <3>2, <3>4, <3>5, <1>0
  <2>4. CASE i = p
    <3>1. fs[i] = e
      BY ONLY <2>0, <2>4, <1>9, <1>6
    <3>2. fs[j] = es[j - 1] /\ j - 1 \in 1 .. Len(es) /\ p <= j - 1
      BY ONLY <2>0, <2>4, <1>9, <1>6
    <3> QED BY ONLY <3>1, <3>2, <1>5
  <2>5. CASE p < i
    <3>1. /\ fs[i] = es[i - 1] /\ fs[j] = es[j - 1]
          /\ i - 1 \in 1 .. Len(es) /\ j - 1 \in 1 .. Len(es) /\ i - 1 < j - 1
      BY <2>0, <2>5, <1>9, <1>6
    <3> QED BY <3>1, <1>4
  <2> QED BY <2>0, <2>1, <2>2, <2>3, <2>4, <2>5
<1>7. ASSUME NEW i \in 1 .. Len(fs)
      PROVE  fs[i] \in C \cup {e} /\ lo <= fs[i][1] /\ fs[i][1] < hi
  <2>1. CASE i < p
    BY <2>1, <1>1, <1>9, <1>3
  <2>2. CASE i = p
    BY <2>2, <1>1, <1>9
  <2>3. CASE p < i
    <3>1. fs[i] = es[i - 1] /\ i - 1 \in 1 .. Len(es)
      BY <2>3, <1>1, <1>9
    <3> QED BY <3>1, <1>3
  <2> QED BY <2>1, <2>2, <2>3, <1>1, <1>9
<1>8. ASSUME NEW f \in C \cup {e}, lo <= f[1], f[1] < hi
      PROVE  \E i \in 1 .. Len(fs) : fs[i] = f
  <2>1. CASE f = e
    BY <2>1, <1>1, <1>9
  <2>2. CASE f \in C
    <3>1. PICK i \in 1 .. Len(es) : es[i] = f
      BY <2>2, <1>8 DEF Holds
    <3>2. CASE i < p
      <4>1. i \in 1 .. Len(fs) /\ fs[i] = f
        BY <3>1, <3>2, <1>9
      <4> QED BY <4>1
    <3>3. CASE p <= i
      <4>1. i + 1 \in 1 .. Len(es) + 1 /\ ~(i + 1 < p) /\ i + 1 # p /\ (i + 1) - 1 = i
        BY <3>3, <1>1, <1>9
      <4>2. fs[i + 1] = f
        BY <3>1, <4>1, <1>9
      <4> QED BY <4>1, <4>2, <1>9
    <3> QED BY <3>2, <3>3, <1>1, <1>9
  <2> QED BY <2>1, <2>2
<1> QED BY <1>9, <1>6, <1>7, <1>8 DEF Holds

LEMMA HoldsRemove ==
    ASSUME NEW es \in Seq(Entries), NEW lo \in Int, NEW hi \in Int, NEW C \in SUBSET Entries,
           Holds(es, lo, hi, C), NEW p \in 1 .. Len(es), NEW fs, fs = RemoveAt(es, p)
    PROVE  fs \in Seq(Entries) /\ Len(fs) = Len(es) - 1 /\ Holds(fs, lo, hi, C \ {es[p]})
<1>1. /\ fs \in Seq(Entries) /\ Len(fs) = Len(es) - 1 /\ Len(es) \in Nat
      /\ \A i \in 1 .. Len(es) - 1 : fs[i] = IF i < p THEN es[i] ELSE es[i + 1]
  <2>1. RemoveAt(es, p) \in Seq(Entries) /\ Len(RemoveAt(es, p)) = Len(es) - 1
    BY RemoveAtIs
  <2>2. \A i \in 1 .. Len(es) - 1 : RemoveAt(es, p)[i] = IF i < p THEN es[i] ELSE es[i + 1]
    BY RemoveAtIs
  <2> QED BY <2>1, <2>2
<1>0. p \in 1 .. Len(es)
  OBVIOUS
<1>2. \A i, j \in 1 .. Len(es) : i < j => es[i][1] < es[j][1]
  BY DEF Holds
<1>3. \A i \in 1 .. Len(es) : /\ es[i][1] \in Int /\ es[i] \in C
                              /\ lo <= es[i][1] /\ es[i][1] < hi
  BY EntryAt DEF Holds
<1>4. \A i \in 1 .. Len(es) : i # p => es[i] # es[p]
  <2> SUFFICES ASSUME NEW i \in 1 .. Len(es), i # p, es[i] = es[p] PROVE FALSE
    OBVIOUS
  <2>1. i < p \/ p < i
    OBVIOUS
  <2>2. es[i][1] < es[p][1] \/ es[p][1] < es[i][1]
    BY <2>1, <1>2
  <2> QED BY <2>2, <1>3
<1>5. ASSUME NEW i \in 1 .. Len(fs), NEW j \in 1 .. Len(fs), i < j
      PROVE  fs[i][1] < fs[j][1]
  <2>1. \E x, y \in 1 .. Len(es) : x < y /\ fs[i] = es[x] /\ fs[j] = es[y]
    <3>1. CASE j < p
      <4>1. fs[i] = es[i] /\ fs[j] = es[j] /\ i \in 1 .. Len(es) /\ j \in 1 .. Len(es)
        BY ONLY <3>1, <1>0, <1>1, <1>5, SMTT(30)
      <4> QED BY ONLY <4>1, <1>5
    <3>2. CASE p <= i
      <4>1. fs[i] = es[i + 1] /\ fs[j] = es[j + 1] /\ i + 1 < j + 1
        BY <3>2, <1>1, <1>5, SMTT(30)
      <4>2. i + 1 \in 1 .. Len(es) /\ j + 1 \in 1 .. Len(es)
        BY <1>1
      <4> QED BY <4>1, <4>2
    <3>3. CASE i < p /\ p <= j
      <4>1. fs[i] = es[i] /\ fs[j] = es[j + 1] /\ i < j + 1
        BY <3>3, <1>1, <1>5
      <4>2. i \in 1 .. Len(es) /\ j + 1 \in 1 .. Len(es)
        BY <1>1
      <4> QED BY <4>1, <4>2
    <3> QED BY <3>1, <3>2, <3>3, <1>1
  <2> QED BY <2>1, <1>2
<1>6. ASSUME NEW i \in 1 .. Len(fs)
      PROVE  fs[i] \in C \ {es[p]} /\ lo <= fs[i][1] /\ fs[i][1] < hi
  <2>1. PICK j \in 1 .. Len(es) : j # p /\ fs[i] = es[j]
    <3>1. CASE i < p
      BY ONLY <3>1, <1>0, <1>1, <1>6
    <3>2. CASE p <= i
      <4>1. i + 1 \in 1 .. Len(es) /\ i + 1 # p /\ fs[i] = es[i + 1]
        BY ONLY <3>2, <1>0, <1>1, <1>6
      <4> QED BY ONLY <4>1
    <3> QED BY ONLY <3>1, <3>2, <1>0, <1>1, <1>6
  <2> QED BY ONLY <2>1, <1>3, <1>4
<1>7. ASSUME NEW f \in C \ {es[p]}, lo <= f[1], f[1] < hi
      PROVE  \E i \in 1 .. Len(fs) : fs[i] = f
  <2>1. PICK i \in 1 .. Len(es) : es[i] = f
    BY <1>7 DEF Holds
  <2>2. IF i < p THEN i \in 1 .. Len(fs) /\ fs[i] = f
        ELSE i - 1 \in 1 .. Len(fs) /\ fs[i - 1] = f
    BY <2>1, <1>1
  <2> QED BY <2>2
<1> QED BY <1>1, <1>5, <1>6, <1>7 DEF Holds

\* a leaf cut after its h-th entry, at the key of the next
LEMMA HoldsCut ==
    ASSUME NEW es \in Seq(Entries), NEW lo \in Int, NEW hi \in Int, NEW C \in SUBSET Entries,
           Holds(es, lo, hi, C), NEW h \in 1 .. Len(es) - 1, NEW k, k = es[h + 1][1],
           NEW l \in Seq(Entries), Len(l) = h, Slice(es, 0, h, l),
           NEW r \in Seq(Entries), Len(r) = Len(es) - h, Slice(es, h, Len(es) - h, r)
    PROVE  k \in Int /\ lo < k /\ k < hi /\ Holds(l, lo, k, C) /\ Holds(r, k, hi, C)
<1>1. /\ l \in Seq(Entries) /\ Len(l) = h /\ \A i \in 1 .. h : l[i] = es[i]
      /\ r \in Seq(Entries) /\ Len(r) = Len(es) - h
      /\ \A i \in 1 .. Len(es) - h : r[i] = es[h + i]
  BY DEF Slice
<1>2. \A i, j \in 1 .. Len(es) : i < j => es[i][1] < es[j][1]
  BY DEF Holds
<1>3. \A i \in 1 .. Len(es) : /\ es[i][1] \in Int /\ es[i] \in C
                              /\ lo <= es[i][1] /\ es[i][1] < hi
  BY EntryAt DEF Holds
<1>4. h + 1 \in 1 .. Len(es) /\ 1 \in 1 .. Len(es) /\ 1 < h + 1
  OBVIOUS
<1>5. k \in Int /\ lo < k /\ k < hi
  <2>1. es[1][1] < k
    BY <1>2, <1>4
  <2> QED BY <2>1, <1>3, <1>4
<1>6. \A i \in 1 .. Len(es) : (i <= h => es[i][1] < k) /\ (h < i => k <= es[i][1])
  <2>1. TAKE i \in 1 .. Len(es)
  <2>0. k = es[h + 1][1] /\ h \in Int
    OBVIOUS
  <2>2. i <= h => es[i][1] < k
    BY ONLY <2>0, <1>2, <1>4, <2>1
  <2>3. h + 1 < i => k < es[i][1]
    BY ONLY <2>0, <1>2, <1>4, <2>1
  <2> QED BY <2>2, <2>3, <1>3, <1>5
<1>7. Holds(l, lo, k, C)
  <2>1. ASSUME NEW i \in 1 .. Len(l), NEW j \in 1 .. Len(l), i < j PROVE l[i][1] < l[j][1]
    <3>1. l[i] = es[i] /\ l[j] = es[j] /\ i \in 1 .. Len(es) /\ j \in 1 .. Len(es)
      BY <1>1
    <3> QED BY ONLY <3>1, <2>1, <1>2
  <2>2. ASSUME NEW i \in 1 .. Len(l) PROVE l[i] \in C /\ lo <= l[i][1] /\ l[i][1] < k
    <3>1. l[i] = es[i] /\ i \in 1 .. Len(es) /\ i <= h
      BY <1>1
    <3> QED BY ONLY <3>1, <1>3, <1>6
  <2>3. ASSUME NEW e \in C, lo <= e[1], e[1] < k PROVE \E i \in 1 .. Len(l) : l[i] = e
    <3>0. e[1] \in Int
      BY KeysAssumption DEF Entries, Keys
    <3>1. PICK i \in 1 .. Len(es) : es[i] = e
      <4>1. e[1] < hi
        BY <3>0, <2>3, <1>5
      <4> QED BY <4>1, <2>3 DEF Holds
    <3>2. i <= h
      BY <3>0, <3>1, <2>3, <1>5, <1>6
    <3> QED BY <3>1, <3>2, <1>1
  <2> QED BY <2>1, <2>2, <2>3 DEF Holds
<1>8. Holds(r, k, hi, C)
  <2>1. ASSUME NEW i \in 1 .. Len(r), NEW j \in 1 .. Len(r), i < j PROVE r[i][1] < r[j][1]
    <3>1. i \in 1 .. Len(es) - h /\ j \in 1 .. Len(es) - h
      BY <1>1
    <3>2. r[i] = es[h + i] /\ r[j] = es[h + j]
      BY <1>1, <3>1
    <3>3. h + i < h + j /\ h + i \in 1 .. Len(es) /\ h + j \in 1 .. Len(es)
      BY <2>1, <3>1
    <3> QED BY <3>2, <3>3, <1>2
  <2>2. ASSUME NEW i \in 1 .. Len(r) PROVE r[i] \in C /\ k <= r[i][1] /\ r[i][1] < hi
    <3>1. r[i] = es[h + i] /\ h + i \in 1 .. Len(es) /\ h < h + i
      BY <1>1
    <3> QED BY <3>1, <1>3, <1>6
  <2>3. ASSUME NEW e \in C, k <= e[1], e[1] < hi PROVE \E i \in 1 .. Len(r) : r[i] = e
    <3>0. e[1] \in Int
      BY KeysAssumption DEF Entries, Keys
    <3>1. PICK i \in 1 .. Len(es) : es[i] = e
      <4>1. lo <= e[1]
        BY <3>0, <2>3, <1>5
      <4> QED BY <4>1, <2>3 DEF Holds
    <3>2. h < i
      BY <3>0, <3>1, <2>3, <1>5, <1>6
    <3>3. i - h \in 1 .. Len(r) /\ r[i - h] = e
      BY <3>1, <3>2, <1>1
    <3> QED BY <3>3
  <2> QED BY <2>1, <2>2, <2>3 DEF Holds
<1> QED BY <1>1, <1>5, <1>7, <1>8

LEMMA HoldsJoin ==
    ASSUME NEW es \in Seq(Entries), NEW fs \in Seq(Entries), NEW lo \in Int, NEW m \in Int,
           NEW hi \in Int, NEW C \in SUBSET Entries, lo <= m, m <= hi,
           Holds(es, lo, m, C), Holds(fs, m, hi, C),
           NEW gs \in Seq(Entries), Len(gs) = Len(es) + Len(fs),
           Slice(gs, 0, Len(es), es), Slice(gs, Len(es), Len(fs), fs)
    PROVE  Holds(gs, lo, hi, C)
<1>0. Len(es) \in Nat /\ Len(fs) \in Nat /\ Len(gs) \in Nat
  BY LenProperties
<1>1. /\ gs \in Seq(Entries) /\ Len(gs) = Len(es) + Len(fs)
      /\ Len(es) \in Nat /\ Len(fs) \in Nat
      /\ \A i \in 1 .. Len(es) + Len(fs) :
            gs[i] = IF i <= Len(es) THEN es[i] ELSE fs[i - Len(es)]
  <2>1. ASSUME NEW i \in 1 .. Len(es) PROVE gs[i] = es[i]
    BY <1>0 DEF Slice
  <2>2. ASSUME NEW i \in 1 .. Len(es) + Len(fs), i > Len(es) PROVE gs[i] = fs[i - Len(es)]
    <3>1. i - Len(es) \in 1 .. Len(fs) /\ Len(es) + (i - Len(es)) = i
      BY <1>0, <2>2
    <3> QED BY <3>1 DEF Slice
  <2>3. ASSUME NEW i \in 1 .. Len(es) + Len(fs)
        PROVE  gs[i] = IF i <= Len(es) THEN es[i] ELSE fs[i - Len(es)]
    BY <1>0, <2>1, <2>2
  <2> QED BY <1>0, <2>3
<1>2. \A i, j \in 1 .. Len(es) : i < j => es[i][1] < es[j][1]
  BY DEF Holds
<1>3. \A i, j \in 1 .. Len(fs) : i < j => fs[i][1] < fs[j][1]
  BY DEF Holds
<1>4. \A i \in 1 .. Len(es) : es[i][1] \in Int /\ es[i] \in C /\ lo <= es[i][1] /\ es[i][1] < m
  BY EntryAt DEF Holds
<1>5. \A i \in 1 .. Len(fs) : fs[i][1] \in Int /\ fs[i] \in C /\ m <= fs[i][1] /\ fs[i][1] < hi
  BY EntryAt DEF Holds
<1>6. ASSUME NEW i \in 1 .. Len(gs), NEW j \in 1 .. Len(gs), i < j
      PROVE  gs[i][1] < gs[j][1]
  <2>0. i \in 1 .. Len(es) + Len(fs) /\ j \in 1 .. Len(es) + Len(fs) /\ i < j
    BY <1>1, <1>6
  <2>1. CASE j <= Len(es)
    <3>1. i \in 1 .. Len(es) /\ j \in 1 .. Len(es)
      BY ONLY <2>0, <2>1, <1>0
    <3>2. gs[i] = es[i] /\ gs[j] = es[j]
      BY ONLY <2>0, <3>1, <1>1, <1>0
    <3> QED BY ONLY <2>0, <3>1, <3>2, <1>2
  <2>2. CASE Len(es) < i
    <3>1. /\ gs[i] = fs[i - Len(es)] /\ gs[j] = fs[j - Len(es)]
          /\ i - Len(es) \in 1 .. Len(fs) /\ j - Len(es) \in 1 .. Len(fs)
          /\ i - Len(es) < j - Len(es)
      BY ONLY <2>0, <2>2, <1>0, <1>1
    <3> QED BY ONLY <3>1, <1>3
  <2>3. CASE i <= Len(es) /\ Len(es) < j
    <3>1. /\ gs[i] = es[i] /\ gs[j] = fs[j - Len(es)]
          /\ i \in 1 .. Len(es) /\ j - Len(es) \in 1 .. Len(fs)
      BY <2>3, <1>1
    <3>2. /\ es[i][1] \in Int /\ es[i][1] < m
          /\ fs[j - Len(es)][1] \in Int /\ m <= fs[j - Len(es)][1]
      BY ONLY <3>1, <1>4, <1>5
    <3>3. es[i][1] < fs[j - Len(es)][1]
      BY <3>2, SMTT(30)
    <3> QED BY ONLY <3>1, <3>3
  <2> QED BY <2>1, <2>2, <2>3, <1>1
<1>7. ASSUME NEW i \in 1 .. Len(gs)
      PROVE  gs[i] \in C /\ lo <= gs[i][1] /\ gs[i][1] < hi
  <2>1. CASE i <= Len(es)
    BY <2>1, <1>1, <1>4
  <2>2. CASE Len(es) < i
    <3>1. gs[i] = fs[i - Len(es)] /\ i - Len(es) \in 1 .. Len(fs)
      BY <2>2, <1>1
    <3> QED BY <3>1, <1>5
  <2> QED BY <2>1, <2>2, <1>1
<1>8. ASSUME NEW e \in C, lo <= e[1], e[1] < hi PROVE \E i \in 1 .. Len(gs) : gs[i] = e
  <2>0. e[1] \in Int
    BY KeysAssumption DEF Entries, Keys
  <2>1. CASE e[1] < m
    <3>1. PICK i \in 1 .. Len(es) : es[i] = e
      BY <2>1, <1>8 DEF Holds
    <3>2. i \in 1 .. Len(gs) /\ gs[i] = e
      BY <3>1, <1>1
    <3> QED BY <3>2
  <2>2. CASE m <= e[1]
    <3>1. PICK i \in 1 .. Len(fs) : fs[i] = e
      BY <2>2, <1>8 DEF Holds
    <3>2. Len(es) + i \in 1 .. Len(gs)
      BY ONLY <1>0, <1>1, i \in 1 .. Len(fs)
    <3>3. gs[Len(es) + i] = e
      BY <3>1 DEF Slice
    <3> QED BY <3>2, <3>3
  <2> QED BY <2>0, <2>1, <2>2
<1> QED BY <1>1, <1>6, <1>7, <1>8 DEF Holds

(***************************************************************************)
(* The separators and children of an inner node.                           *)
(***************************************************************************)
\* a node cut at its key number mid + 1, which is in neither half
LEMMA RoutesCut ==
    ASSUME NEW T, NEW n \in Nat, NEW keys, NEW kids, NEW lo \in Int, NEW hi \in Int,
           NEW lv, Routes(T, n, keys, kids, lo, hi, lv), NEW mid \in 0 .. n - 1,
           NEW k, k = keys[mid + 1], NEW lk, NEW lc, NEW rk, NEW rc,
           Slice(keys, 0, mid, lk), Slice(kids, 0, mid + 1, lc),
           Slice(keys, mid + 1, n - mid - 1, rk), Slice(kids, mid + 1, n - mid, rc)
    PROVE  /\ k \in Int /\ lo < k /\ k < hi
           /\ Routes(T, mid, lk, lc, lo, k, lv)
           /\ Routes(T, n - mid - 1, rk, rc, k, hi, lv)
<1>0. /\ \A i \in 1 .. mid : lk[i] = keys[i]
      /\ \A i \in 1 .. mid + 1 : lc[i] = kids[i]
      /\ \A i \in 1 .. n - mid - 1 : rk[i] = keys[mid + 1 + i]
      /\ \A i \in 1 .. n - mid : rc[i] = kids[mid + 1 + i]
  <2>1. \A i \in Nat : 0 + i = i
    OBVIOUS
  <2> QED BY <2>1 DEF Slice
<1> USE <1>0
<1>1. /\ mid + 1 \in 1 .. n
      /\ \A i \in 1 .. n : keys[i] \in Int /\ lo < keys[i] /\ keys[i] < hi
      /\ \A i, j \in 1 .. n : i < j => keys[i] < keys[j]
      /\ \A i \in 1 .. n + 1 :
          /\ kids[i] \in DOMAIN T.up /\ T.lv[kids[i]] = lv - 1
          /\ T.lo[kids[i]] = (IF i = 1 THEN lo ELSE keys[i - 1])
          /\ T.up[kids[i]] = (IF i = n + 1 THEN hi ELSE keys[i])
  BY DEF Routes
<1>2. k \in Int /\ lo < k /\ k < hi
  BY <1>1
<1>3. Routes(T, mid, lk, lc, lo, k, lv)
  <2>1. \A i \in 1 .. mid : lk[i] \in Int /\ lo < lk[i] /\ lk[i] < k
    BY <1>1
  <2>2. \A i, j \in 1 .. mid : i < j => lk[i] < lk[j]
    BY <1>1
  <2>3. ASSUME NEW i \in 1 .. mid + 1
        PROVE  /\ lc[i] \in DOMAIN T.up /\ T.lv[lc[i]] = lv - 1
               /\ T.lo[lc[i]] = (IF i = 1 THEN lo ELSE lk[i - 1])
               /\ T.up[lc[i]] = (IF i = mid + 1 THEN k ELSE lk[i])
    <3>1. i \in 1 .. n + 1 /\ i # n + 1 /\ lc[i] = kids[i]
      OBVIOUS
    <3>2. i # 1 => lk[i - 1] = keys[i - 1]
      OBVIOUS
    <3>3. i # mid + 1 => lk[i] = keys[i]
      OBVIOUS
    <3> QED BY <3>1, <3>2, <3>3, <1>1
  <2> QED BY <2>1, <2>2, <2>3 DEF Routes
<1>4. Routes(T, n - mid - 1, rk, rc, k, hi, lv)
  <2>0. \A i \in 1 .. n - mid - 1 : rk[i] = keys[mid + 1 + i] /\ mid + 1 + i \in 1 .. n
    OBVIOUS
  <2>1. ASSUME NEW i \in 1 .. n - mid - 1 PROVE rk[i] \in Int /\ k < rk[i] /\ rk[i] < hi
    <3>1. mid + 1 < mid + 1 + i
      OBVIOUS
    <3> QED BY <3>1, <2>0, <1>1
  <2>2. ASSUME NEW i \in 1 .. n - mid - 1, NEW j \in 1 .. n - mid - 1, i < j
        PROVE  rk[i] < rk[j]
    <3>1. mid + 1 + i < mid + 1 + j
      BY <2>2
    <3> QED BY <3>1, <2>0, <1>1
  <2>3. ASSUME NEW i \in 1 .. (n - mid - 1) + 1
        PROVE  /\ rc[i] \in DOMAIN T.up /\ T.lv[rc[i]] = lv - 1
               /\ T.lo[rc[i]] = (IF i = 1 THEN k ELSE rk[i - 1])
               /\ T.up[rc[i]] = (IF i = (n - mid - 1) + 1 THEN hi ELSE rk[i])
    <3> DEFINE j == mid + 1 + i
    <3>1. j \in 1 .. n + 1 /\ j # 1 /\ rc[i] = kids[j]
      OBVIOUS
    <3>2. i # 1 => rk[i - 1] = keys[j - 1]
      <4> HAVE i # 1
      <4>1. i - 1 \in 1 .. n - mid - 1 /\ mid + 1 + (i - 1) = j - 1
        OBVIOUS
      <4> QED BY <4>1, <2>0
    <3>3. i # (n - mid - 1) + 1 => rk[i] = keys[j]
      OBVIOUS
    <3>4. i = 1 => keys[j - 1] = k
      OBVIOUS
    <3>5. i = (n - mid - 1) + 1 <=> j = n + 1
      OBVIOUS
    <3> HIDE DEF j
    <3>6. /\ kids[j] \in DOMAIN T.up /\ T.lv[kids[j]] = lv - 1
          /\ T.lo[kids[j]] = keys[j - 1]
          /\ T.up[kids[j]] = (IF j = n + 1 THEN hi ELSE keys[j])
      BY <3>1, <1>1
    <3> QED BY <3>1, <3>2, <3>3, <3>4, <3>5, <3>6
  <2> QED BY <2>1, <2>2, <2>3 DEF Routes
<1> QED BY <1>2, <1>3, <1>4

\* two neighbours and the key m between them
LEMMA RoutesJoin ==
    ASSUME NEW T, NEW a \in Nat, NEW b \in Nat, NEW lk, NEW lc, NEW rk, NEW rc,
           NEW lo \in Int, NEW m \in Int, NEW hi \in Int, NEW lv, lo < m, m < hi,
           Routes(T, a, lk, lc, lo, m, lv), Routes(T, b, rk, rc, m, hi, lv),
           NEW keys, NEW kids,
           Slice(keys, 0, a, lk), keys[a + 1] = m, Slice(keys, a + 1, b, rk),
           Slice(kids, 0, a + 1, lc), Slice(kids, a + 1, b + 1, rc)
    PROVE  Routes(T, a + 1 + b, keys, kids, lo, hi, lv)
<1> DEFINE n == a + 1 + b
<1>0. /\ \A i \in 1 .. a : keys[i] = lk[i]
      /\ \A i \in 1 .. b : keys[a + 1 + i] = rk[i]
      /\ \A i \in 1 .. a + 1 : kids[i] = lc[i]
      /\ \A i \in 1 .. b + 1 : kids[a + 1 + i] = rc[i]
  <2>1. \A i \in Nat : 0 + i = i
    OBVIOUS
  <2> QED BY <2>1 DEF Slice
<1> USE <1>0
<1>4. /\ \A i \in 1 .. a : lk[i] \in Int /\ lo < lk[i] /\ lk[i] < m
      /\ \A i \in 1 .. b : rk[i] \in Int /\ m < rk[i] /\ rk[i] < hi
      /\ \A i, j \in 1 .. a : i < j => lk[i] < lk[j]
      /\ \A i, j \in 1 .. b : i < j => rk[i] < rk[j]
  BY DEF Routes
<1>5. \A i \in 1 .. a + 1 :
          /\ lc[i] \in DOMAIN T.up /\ T.lv[lc[i]] = lv - 1
          /\ T.lo[lc[i]] = (IF i = 1 THEN lo ELSE lk[i - 1])
          /\ T.up[lc[i]] = (IF i = a + 1 THEN m ELSE lk[i])
  BY DEF Routes
<1>6. \A i \in 1 .. b + 1 :
          /\ rc[i] \in DOMAIN T.up /\ T.lv[rc[i]] = lv - 1
          /\ T.lo[rc[i]] = (IF i = 1 THEN m ELSE rk[i - 1])
          /\ T.up[rc[i]] = (IF i = b + 1 THEN hi ELSE rk[i])
  BY DEF Routes
\* a position among the keys is one of lk, that of m, or one of rk
<1>7. ASSUME NEW i \in 1 .. n
      PROVE  \/ i \in 1 .. a
             \/ i = a + 1
             \/ i - (a + 1) \in 1 .. b /\ a + 1 + (i - (a + 1)) = i
  OBVIOUS
<1>8. ASSUME NEW i \in 1 .. n
      PROVE  /\ i \in 1 .. a => keys[i] = lk[i] /\ keys[i] \in Int /\ keys[i] < m
             /\ i - (a + 1) \in 1 .. b =>
                   keys[i] = rk[i - (a + 1)] /\ keys[i] \in Int /\ m < keys[i]
  <2>1. i \in 1 .. a => keys[i] = lk[i] /\ keys[i] \in Int /\ keys[i] < m
    BY <1>4
  <2>2. ASSUME i - (a + 1) \in 1 .. b
        PROVE  keys[i] = rk[i - (a + 1)] /\ keys[i] \in Int /\ m < keys[i]
    <3>1. a + 1 + (i - (a + 1)) = i
      OBVIOUS
    <3>2. keys[a + 1 + (i - (a + 1))] = rk[i - (a + 1)]
      BY <2>2
    <3> QED BY <3>1, <3>2, <2>2, <1>4
  <2> QED BY <2>1, <2>2
<1>9. ASSUME NEW i \in 1 .. n PROVE keys[i] \in Int /\ lo < keys[i] /\ keys[i] < hi
  <2>1. CASE i \in 1 .. a
    BY <2>1, <1>4, <1>8
  <2>2. CASE i = a + 1
    BY <2>2
  <2>3. CASE i - (a + 1) \in 1 .. b
    BY <2>3, <1>4, <1>8
  <2> QED BY <2>1, <2>2, <2>3, <1>7
<1>10. ASSUME NEW i \in 1 .. n, NEW j \in 1 .. n, i < j
       PROVE  keys[i] < keys[j]
  <2>1. CASE j \in 1 .. a
    <3>1. i \in 1 .. a
      BY <2>1, <1>10
    <3> QED BY <3>1, <2>1, <1>4, <1>10
  <2>2. CASE j = a + 1
    <3>1. i \in 1 .. a
      BY <2>2, <1>10
    <3> QED BY <3>1, <2>2, <1>8
  <2>3. CASE j - (a + 1) \in 1 .. b
    <3>1. CASE i - (a + 1) \in 1 .. b
      <4>1. i - (a + 1) < j - (a + 1)
        BY <1>10
      <4>2. rk[i - (a + 1)] < rk[j - (a + 1)]
        BY <3>1, <4>1, <2>3, <1>4
      <4> QED BY <3>1, <4>2, <2>3, <1>8
    <3>2. CASE i \in 1 .. a
      <4>1. keys[i] < m /\ m < keys[j] /\ keys[i] \in Int /\ keys[j] \in Int
        BY <3>2, <2>3, <1>8
      <4> QED BY <4>1
    <3>3. CASE i = a + 1
      BY <3>3, <2>3, <1>8
    <3> QED BY <3>1, <3>2, <3>3, <1>7
  <2> QED BY <2>1, <2>2, <2>3, <1>7
<1>11. ASSUME NEW i \in 1 .. n + 1
       PROVE  /\ kids[i] \in DOMAIN T.up /\ T.lv[kids[i]] = lv - 1
              /\ T.lo[kids[i]] = (IF i = 1 THEN lo ELSE keys[i - 1])
              /\ T.up[kids[i]] = (IF i = n + 1 THEN hi ELSE keys[i])
  <2>1. CASE i \in 1 .. a + 1
    <3>1. kids[i] = lc[i] /\ i # n + 1
      BY <2>1
    <3>2. i # 1 => keys[i - 1] = lk[i - 1]
      BY <2>1
    <3>3. keys[i] = IF i = a + 1 THEN m ELSE lk[i]
      BY <2>1
    <3> QED BY <3>1, <3>2, <3>3, <2>1, <1>5
  <2>2. CASE i - (a + 1) \in 1 .. b + 1
    <3> DEFINE j == i - (a + 1)
    <3>1. i = a + 1 + j /\ i # 1 /\ (i = n + 1 <=> j = b + 1) /\ j \in 1 .. b + 1
      BY <2>2
    <3>2. kids[i] = rc[j]
      <4> HIDE DEF j, n
      <4> QED BY <3>1
    <3>3. keys[i - 1] = IF j = 1 THEN m ELSE rk[j - 1]
      <4>1. j = 1 => i - 1 = a + 1
        OBVIOUS
      <4>2. j # 1 => j - 1 \in 1 .. b /\ i - 1 = a + 1 + (j - 1)
        BY <3>1
      <4> HIDE DEF j, n
      <4> QED BY <4>1, <4>2
    <3>4. j # b + 1 => keys[i] = rk[j]
      <4>1. j # b + 1 => j \in 1 .. b
        BY <3>1
      <4> HIDE DEF j, n
      <4> QED BY <4>1, <3>1
    <3> HIDE DEF j, n
    <3> QED BY <3>1, <3>2, <3>3, <3>4, <1>6
  <2> QED BY <2>1, <2>2
<1> QED BY <1>9, <1>10, <1>11 DEF Routes

\* Routes only looks at the children
LEMMA RoutesFrame ==
    ASSUME NEW T, NEW U, NEW n, NEW keys, NEW kids, NEW lo, NEW hi, NEW lv,
           Routes(T, n, keys, kids, lo, hi, lv), KidsKept(T, U, kids, 1 .. n + 1)
    PROVE  Routes(U, n, keys, kids, lo, hi, lv)
BY DEF Routes, KidsKept

(***************************************************************************)
(* What a good tree says of a node and its neighbours.                     *)
(***************************************************************************)
LEMMA InnerFacts ==
    ASSUME NEW T, Good(T), NEW p \in DOMAIN T.lo, T.lv[p] # 0
    PROVE  /\ ~T.page[p].leaf /\ T.page[p] \in Nodes
           /\ T.page[p].keys \in Seq(Separators) /\ T.page[p].kids \in Seq(PageIds)
           /\ Len(T.page[p].keys) \in Nat
           /\ Len(T.page[p].kids) = Len(T.page[p].keys) + 1
           /\ T.lo[p] \in Int /\ T.hi[p] \in Int /\ T.lo[p] < T.hi[p] /\ T.lv[p] \in Nat \ {0}
           /\ Routes(T, Len(T.page[p].keys), T.page[p].keys, T.page[p].kids,
                     T.lo[p], T.hi[p], T.lv[p])
<1>1. T.page[p] \in Nodes /\ T.lo[p] \in Int /\ T.hi[p] \in Int /\ T.lv[p] \in Nat
  BY DEF Good, Typed
<1>2. T.page[p].keys \in Seq(Separators) /\ T.page[p].kids \in Seq(PageIds)
  BY <1>1 DEF Nodes
<1>3. T.lo[p] < T.hi[p]
  BY DEF Good, Apart
<1> QED BY <1>1, <1>2, <1>3 DEF Good, NodeOk, Fits

LEMMA LeafFacts ==
    ASSUME NEW T, Good(T), NEW p \in DOMAIN T.lo, T.lv[p] = 0
    PROVE  /\ T.page[p].leaf /\ T.page[p] \in Nodes
           /\ T.page[p].entries \in Seq(Entries) /\ T.page[p].next \in Nat
           /\ T.lo[p] \in Int /\ T.hi[p] \in Int /\ T.lo[p] < T.hi[p]
           /\ T.content \in SUBSET Entries
           /\ Holds(T.page[p].entries, T.lo[p], T.hi[p], T.content)
           /\ Link(T, T.page[p].next, T.hi[p])
<1>1. /\ T.page[p] \in Nodes /\ T.lo[p] \in Int /\ T.hi[p] \in Int
      /\ T.content \in SUBSET Entries
  BY DEF Good, Typed
<1>2. T.page[p].entries \in Seq(Entries) /\ T.page[p].next \in Nat
  BY <1>1 DEF Nodes
<1>3. T.lo[p] < T.hi[p]
  BY DEF Good, Apart
<1> QED BY <1>1, <1>2, <1>3 DEF Good, NodeOk, Fits

\* two pages of one level whose ranges share a key are one page
LEMMA OnePage ==
    ASSUME NEW T, Good(T), NEW x \in DOMAIN T.lo, NEW y \in DOMAIN T.lo, T.lv[x] = T.lv[y],
           NEW k \in Int, T.lo[x] <= k, k < T.hi[x], T.lo[y] <= k, k < T.hi[y]
    PROVE  x = y
<1>1. T.lo[x] \in Int /\ T.lo[y] \in Int /\ T.hi[x] \in Int /\ T.hi[y] \in Int
  BY DEF Good, Typed
<1> QED BY <1>1 DEF Good, Apart

\* c is the i-th child of p: its place, its range, its level
IsChild(T, p, i, c) ==
    LET keys == T.page[p].keys
    IN  /\ c \in DOMAIN T.up /\ c \in DOMAIN T.lo /\ T.lv[c] = T.lv[p] - 1 /\ c # p
        /\ T.lo[c] = (IF i = 1 THEN T.lo[p] ELSE keys[i - 1])
        /\ T.up[c] = (IF i = Len(keys) + 1 THEN T.hi[p] ELSE keys[i])
        /\ T.lo[c] \in Int /\ T.hi[c] \in Int /\ T.lv[c] \in Nat /\ T.lo[c] < T.hi[c]
        /\ T.lo[p] <= T.lo[c] /\ T.lo[c] < T.hi[p]

LEMMA ChildFacts ==
    ASSUME NEW T, Good(T), NEW p \in DOMAIN T.lo, T.lv[p] # 0,
           NEW i \in 1 .. Len(T.page[p].kids)
    PROVE  IsChild(T, p, i, T.page[p].kids[i])
<1> DEFINE c == T.page[p].kids[i]
           n == Len(T.page[p].keys)
           keys == T.page[p].keys
<1>1. /\ T.lo[p] \in Int /\ T.hi[p] \in Int /\ T.lo[p] < T.hi[p] /\ T.lv[p] \in Nat \ {0}
      /\ n \in Nat /\ i \in 1 .. n + 1
      /\ Routes(T, n, keys, T.page[p].kids, T.lo[p], T.hi[p], T.lv[p])
  BY InnerFacts
<1>2. /\ c \in DOMAIN T.up /\ T.lv[c] = T.lv[p] - 1
      /\ T.lo[c] = (IF i = 1 THEN T.lo[p] ELSE keys[i - 1])
      /\ T.up[c] = (IF i = n + 1 THEN T.hi[p] ELSE keys[i])
      /\ \A j \in 1 .. n : keys[j] \in Int /\ T.lo[p] < keys[j] /\ keys[j] < T.hi[p]
  BY <1>1 DEF Routes
<1>3. c \in DOMAIN T.lo
  BY <1>2 DEF Good, Typed
<1>4. T.lo[c] \in Int /\ T.hi[c] \in Int /\ T.lv[c] \in Nat /\ T.lo[c] < T.hi[c]
  BY <1>3 DEF Good, Typed, Apart
<1>5. T.lo[p] <= T.lo[c] /\ T.lo[c] < T.hi[p]
  <2>1. i # 1 => i - 1 \in 1 .. n
    BY <1>1
  <2> HIDE DEF c, n, keys
  <2> QED BY <2>1, <1>1, <1>2
<1>6. c # p
  BY <1>1, <1>2
<1> QED BY <1>2, <1>3, <1>4, <1>5, <1>6 DEF IsChild

LEMMA ChildIs ==
    ASSUME NEW T, Good(T), NEW p \in DOMAIN T.lo, T.lv[p] # 0,
           NEW i \in 1 .. Len(T.page[p].kids), NEW c, c = T.page[p].kids[i]
    PROVE  IsChild(T, p, i, c)
BY ChildFacts

\* a page has one place in the tree
LEMMA OneParent ==
    ASSUME NEW T, Good(T), NEW p \in DOMAIN T.lo, T.lv[p] # 0,
           NEW q \in DOMAIN T.lo, T.lv[q] # 0,
           NEW i \in 1 .. Len(T.page[p].kids), NEW j \in 1 .. Len(T.page[q].kids),
           NEW c, c = T.page[p].kids[i], c = T.page[q].kids[j]
    PROVE  p = q /\ i = j
<1> DEFINE n == Len(T.page[p].keys)
           keys == T.page[p].keys
<1>0. IsChild(T, p, i, c) /\ IsChild(T, q, j, c)
  BY ChildIs
<1>1. T.lv[c] = T.lv[p] - 1 /\ T.lo[p] <= T.lo[c] /\ T.lo[c] < T.hi[p] /\ T.lo[c] \in Int
  BY ONLY <1>0 DEF IsChild
<1>8. T.lo[c] = (IF i = 1 THEN T.lo[p] ELSE keys[i - 1])
  BY ONLY <1>0 DEF IsChild
<1>2. T.lv[c] = T.lv[q] - 1 /\ T.lo[q] <= T.lo[c] /\ T.lo[c] < T.hi[q]
  BY ONLY <1>0 DEF IsChild
<1>3. T.lv[p] \in Nat /\ T.lv[q] \in Nat
  BY DEF Good, Typed
<1>4. p = q
  <2> HIDE DEF n, keys
  <2> QED BY <1>1, <1>2, <1>3, OnePage, SMTT(30)
<1>5. T.lo[c] = (IF j = 1 THEN T.lo[p] ELSE keys[j - 1])
  <2>1. j \in 1 .. Len(T.page[p].kids) /\ c = T.page[p].kids[j]
    BY <1>4
  <2>2. IsChild(T, p, j, c)
    BY <2>1, ChildIs
  <2> QED BY ONLY <2>2 DEF IsChild
<1>6. /\ n \in Nat /\ i \in 1 .. n + 1 /\ j \in 1 .. n + 1 /\ T.lo[p] \in Int
      /\ \A x \in 1 .. n : keys[x] \in Int /\ T.lo[p] < keys[x]
      /\ \A x, y \in 1 .. n : x < y => keys[x] < keys[y]
  <2>1. /\ n \in Nat /\ Len(T.page[p].kids) = n + 1 /\ T.lo[p] \in Int
        /\ Routes(T, n, keys, T.page[p].kids, T.lo[p], T.hi[p], T.lv[p])
    BY InnerFacts
  <2> HIDE DEF n, keys
  <2> QED BY <2>1, <1>4 DEF Routes
<1> HIDE DEF n, keys
<1>7. ~(i < j) /\ ~(j < i)
  <2>1. ASSUME NEW x \in 1 .. n + 1, NEW y \in 1 .. n + 1, x < y,
               T.lo[c] = (IF x = 1 THEN T.lo[p] ELSE keys[x - 1]),
               T.lo[c] = (IF y = 1 THEN T.lo[p] ELSE keys[y - 1])
        PROVE  FALSE
    <3>1. y - 1 \in 1 .. n /\ y # 1 /\ (x # 1 => x - 1 \in 1 .. n /\ x - 1 < y - 1)
      BY <2>1, <1>6
    <3>2. x = 1 => T.lo[p] < keys[y - 1] /\ keys[y - 1] \in Int
      BY <3>1, <1>6
    <3>3. x # 1 => keys[x - 1] < keys[y - 1] /\ keys[y - 1] \in Int
      BY <3>1, <1>6
    <3> QED BY <2>1, <3>1, <3>2, <3>3, <1>6
  <2> QED BY <2>1, <1>1, <1>5, <1>6, <1>8
<1> QED BY <1>4, <1>6, <1>7

\* neighbours l and r below a node, where no split is under way
LEMMA Siblings ==
    ASSUME NEW T, Good(T), T.up = T.hi, NEW p \in DOMAIN T.lo, T.lv[p] # 0,
           NEW i \in 1 .. Len(T.page[p].keys), NEW l, NEW r, Neighbours(T, p, i, l, r)
    PROVE  /\ l \in DOMAIN T.lo /\ r \in DOMAIN T.lo /\ l # r /\ l # p /\ r # p
           /\ T.lv[l] = T.lv[p] - 1 /\ T.lv[r] = T.lv[p] - 1
           /\ T.lo[l] \in Int /\ T.hi[l] \in Int /\ T.lo[r] \in Int /\ T.hi[r] \in Int
           /\ T.lo[l] < T.hi[l] /\ T.lo[r] < T.hi[r]
           /\ T.hi[l] = T.page[p].keys[i] /\ T.lo[r] = T.page[p].keys[i]
<1> DEFINE n == Len(T.page[p].keys)
           keys == T.page[p].keys
<1>1. n \in Nat /\ Len(T.page[p].kids) = n + 1
  BY InnerFacts
<1>2. i \in 1 .. n + 1 /\ i + 1 \in 1 .. n + 1 /\ i # n + 1 /\ i + 1 # 1 /\ (i + 1) - 1 = i
  BY <1>1
<1>3. /\ l \in DOMAIN T.lo /\ T.lv[l] = T.lv[p] - 1 /\ l # p
      /\ T.up[l] = (IF i = n + 1 THEN T.hi[p] ELSE keys[i])
      /\ T.lo[l] \in Int /\ T.hi[l] \in Int /\ T.lo[l] < T.hi[l]
  <2>1. l = T.page[p].kids[i]
    BY DEF Neighbours
  <2>2. IsChild(T, p, i, l)
    BY <2>1, <1>1, <1>2, ChildIs
  <2> QED BY ONLY <2>2 DEF IsChild
<1>4. /\ r \in DOMAIN T.lo /\ T.lv[r] = T.lv[p] - 1 /\ r # p
      /\ T.lo[r] = (IF i + 1 = 1 THEN T.lo[p] ELSE keys[(i + 1) - 1])
      /\ T.lo[r] \in Int /\ T.hi[r] \in Int /\ T.lo[r] < T.hi[r]
  <2> DEFINE j == i + 1
  <2>1. j \in 1 .. Len(T.page[p].kids) /\ r = T.page[p].kids[j]
    BY <1>1, <1>2 DEF Neighbours
  <2> HIDE DEF j
  <2>2. IsChild(T, p, j, r)
    BY <2>1, ChildIs
  <2> QED BY ONLY <2>2 DEF IsChild, j
<1>5. T.hi[l] = keys[i] /\ T.lo[r] = keys[i]
  BY <1>2, <1>3, <1>4
<1>6. l # r
  BY <1>3, <1>4, <1>5
<1> QED BY <1>3, <1>4, <1>5, <1>6

\* the leaf before a page is the one whose range ends where the page's begins
LEMMA OneBefore ==
    ASSUME NEW T, Good(T), NEW l \in DOMAIN T.lo, NEW r \in DOMAIN T.lo, T.hi[l] = T.lo[r],
           T.lv[l] = 0, T.lv[r] = 0
    PROVE  /\ T.page[l].next = r
           /\ \A x \in DOMAIN T.lo : T.lv[x] = 0 /\ T.page[x].next = r => x = l
<1>0. r # 0
  BY DEF Good, Typed
<1>1. \A x \in DOMAIN T.lo : T.lv[x] = 0 =>
          /\ T.lo[x] \in Int /\ T.hi[x] \in Int /\ T.lo[x] < T.hi[x] /\ T.hi[x] <= Beyond
          /\ Link(T, T.page[x].next, T.hi[x])
  BY LeafFacts DEF Good, Apart
<1>2. \A x, y \in DOMAIN T.lo : T.lv[x] = 0 /\ T.lv[y] = 0 /\ x # y =>
          T.hi[x] <= T.lo[y] \/ T.hi[y] <= T.lo[x]
  BY DEF Good, Apart
<1>3. Beyond \in Int
  BY KeysAssumption DEF Beyond
<1>4. T.page[l].next = r
  <2>1. T.page[l].next # NoPage
    BY <1>1, <1>3 DEF Link
  <2> DEFINE to == T.page[l].next
  <2>2. to \in DOMAIN T.lo /\ T.lv[to] = 0 /\ T.lo[to] = T.hi[l]
    BY <2>1, <1>1 DEF Link
  <2> HIDE DEF to
  <2>3. to = r
    BY <2>2, <1>1, <1>2
  <2> QED BY <2>3 DEF to
<1>5. ASSUME NEW x \in DOMAIN T.lo, T.lv[x] = 0, T.page[x].next = r PROVE x = l
  <2>1. T.lo[r] = T.hi[x]
    BY <1>0, <1>1, <1>5 DEF Link, NoPage
  <2> QED BY <2>1, <1>1, <1>2, <1>5
<1> QED BY <1>4, <1>5

(***************************************************************************)
(* A node that gets a child, loses one, or moves a separator.              *)
(***************************************************************************)
\* child i keeps the keys below m, and r gets the others
LEMMA RoutesInsert ==
    ASSUME NEW T, NEW U, NEW n \in Nat, NEW keys, NEW kids, NEW lo \in Int, NEW hi \in Int,
           NEW lv, Routes(T, n, keys, kids, lo, hi, lv), NEW i \in 1 .. n + 1, NEW m \in Int,
           NEW l, l = kids[i], T.lo[l] < m, m < T.up[l], NEW r, NEW nk, NEW nc,
           Inserted(keys, n, i, m, nk), Inserted(kids, n + 1, i + 1, r, nc),
           KidsKept(T, U, kids, (1 .. n + 1) \ {i}),
           l \in DOMAIN U.up, U.lv[l] = T.lv[l], U.lo[l] = T.lo[l], U.up[l] = m,
           r \in DOMAIN U.up, U.lv[r] = lv - 1, U.lo[r] = m, U.up[r] = T.up[l]
    PROVE  Routes(U, n + 1, nk, nc, lo, hi, lv)
<1>0. /\ \A j \in 1 .. i - 1 : nk[j] = keys[j]
      /\ nk[i] = m /\ \A j \in i + 1 .. n + 1 : nk[j] = keys[j - 1]
      /\ \A j \in 1 .. i : nc[j] = kids[j]
      /\ nc[i + 1] = r /\ \A j \in i + 2 .. n + 2 : nc[j] = kids[j - 1]
      /\ \A j \in 1 .. n + 1 :
            /\ kids[j] \in DOMAIN U.up /\ U.lv[kids[j]] = T.lv[kids[j]]
            /\ U.lo[kids[j]] = T.lo[kids[j]]
            /\ U.up[kids[j]] = IF j = i THEN m ELSE T.up[kids[j]]
  <2>1. (i + 1) - 1 = i /\ (i + 1) + 1 = i + 2 /\ (n + 1) + 1 = n + 2
    OBVIOUS
  <2>2. /\ \A j \in 1 .. i : nc[j] = kids[j]
        /\ nc[i + 1] = r /\ \A j \in i + 2 .. n + 2 : nc[j] = kids[j - 1]
    BY <2>1 DEF Inserted
  <2> QED BY <2>2 DEF Inserted, KidsKept
<1> USE <1>0
<1>1. /\ \A j \in 1 .. n : keys[j] \in Int /\ lo < keys[j] /\ keys[j] < hi
      /\ \A a, b \in 1 .. n : a < b => keys[a] < keys[b]
      /\ \A j \in 1 .. n + 1 :
            /\ kids[j] \in DOMAIN T.up /\ T.lv[kids[j]] = lv - 1
            /\ T.lo[kids[j]] = (IF j = 1 THEN lo ELSE keys[j - 1])
            /\ T.up[kids[j]] = (IF j = n + 1 THEN hi ELSE keys[j])
  BY DEF Routes
<1>2. /\ i # 1 => i - 1 \in 1 .. n /\ keys[i - 1] < m
      /\ i # n + 1 => i \in 1 .. n /\ m < keys[i]
      /\ i = 1 => lo < m
      /\ i = n + 1 => m < hi
  <2>1. /\ T.lo[kids[i]] = (IF i = 1 THEN lo ELSE keys[i - 1])
        /\ T.up[kids[i]] = (IF i = n + 1 THEN hi ELSE keys[i])
    BY <1>1
  <2> QED BY <2>1
<1>3. lo < m /\ m < hi
  BY <1>1, <1>2
<1>4. \A j \in 1 .. i - 1 : j \in 1 .. n /\ keys[j] < m /\ nk[j] = keys[j]
  BY <1>1, <1>2
<1>5. \A j \in i + 1 .. n + 1 : j - 1 \in 1 .. n /\ m < keys[j - 1] /\ nk[j] = keys[j - 1]
  BY <1>1, <1>2
<1>6. ASSUME NEW j \in 1 .. n + 1
      PROVE  nk[j] \in Int /\ lo < nk[j] /\ nk[j] < hi
  BY <1>1, <1>3, <1>4, <1>5
<1>7. ASSUME NEW a \in 1 .. n + 1, NEW b \in 1 .. n + 1, a < b
      PROVE  nk[a] < nk[b]
  <2>1. CASE b < i
    BY <2>1, <1>1, <1>4, <1>7
  <2>2. CASE b = i
    BY <2>2, <1>4, <1>7
  <2>3. CASE b > i /\ a < i
    BY <2>3, <1>1, <1>4, <1>5
  <2>4. CASE b > i /\ a = i
    BY <2>4, <1>5
  <2>5. CASE a > i
    <3>1. a \in i + 1 .. n + 1 /\ b \in i + 1 .. n + 1
      BY <2>5, <1>7
    <3>2. a - 1 < b - 1
      BY <1>7
    <3> QED BY <3>1, <3>2, <1>1, <1>5
  <2> QED BY <2>1, <2>2, <2>3, <2>4, <2>5
<1>8. ASSUME NEW j \in 1 .. n + 2
      PROVE  /\ nc[j] \in DOMAIN U.up /\ U.lv[nc[j]] = lv - 1
             /\ U.lo[nc[j]] = (IF j = 1 THEN lo ELSE nk[j - 1])
             /\ U.up[nc[j]] = (IF j = n + 2 THEN hi ELSE nk[j])
  <2>1. CASE j < i
    <3>1. /\ j \in 1 .. n + 1 /\ j # n + 1 /\ j # n + 2 /\ j \in 1 .. i - 1 /\ j # i
          /\ nc[j] = kids[j] /\ (j # 1 => j - 1 \in 1 .. i - 1)
      BY <2>1
    <3>2. nk[j] = keys[j] /\ (j # 1 => nk[j - 1] = keys[j - 1])
      BY <3>1
    <3>3. /\ T.lo[kids[j]] = (IF j = 1 THEN lo ELSE nk[j - 1]) /\ T.up[kids[j]] = nk[j]
          /\ T.lv[kids[j]] = lv - 1
      BY <3>1, <3>2, <1>1
    <3> QED BY <3>1, <3>3
  <2>2. CASE j = i
    <3>1. /\ j \in 1 .. n + 1 /\ j # n + 2 /\ nc[j] = kids[j] /\ nk[j] = m
          /\ (j # 1 => j - 1 \in 1 .. i - 1)
      BY <2>2
    <3>2. j # 1 => nk[j - 1] = keys[j - 1]
      BY <3>1
    <3>3. T.lo[kids[j]] = (IF j = 1 THEN lo ELSE nk[j - 1]) /\ T.lv[kids[j]] = lv - 1
      BY <3>1, <3>2, <1>1
    <3> QED BY <3>1, <3>3, <2>2
  <2>3. CASE j = i + 1
    <3>1. /\ nc[j] = r /\ j # 1 /\ nk[j - 1] = m /\ i \in 1 .. n + 1
          /\ (j # n + 2 => i # n + 1 /\ j \in i + 1 .. n + 1 /\ j - 1 = i)
      BY <2>3
    <3>2. T.up[kids[i]] = (IF i = n + 1 THEN hi ELSE keys[i])
      BY <1>1
    <3>3. j # n + 2 => nk[j] = keys[i]
      BY <3>1
    <3>4. U.up[nc[j]] = (IF j = n + 2 THEN hi ELSE nk[j])
      BY <3>1, <3>2, <3>3, <2>3
    <3> QED BY <3>1, <3>4
  <2>4. CASE j > i + 1
    <3> DEFINE x == j - 1
    <3>1. /\ x \in 1 .. n + 1 /\ x # 1 /\ x # i /\ nc[j] = kids[x] /\ j # 1
          /\ x \in i + 1 .. n + 1 /\ x - 1 \in 1 .. n
          /\ (j = n + 2 <=> x = n + 1) /\ (x # n + 1 => j \in i + 1 .. n + 1)
      BY <2>4
    <3>2. nk[x] = keys[x - 1] /\ (x # n + 1 => nk[j] = keys[x])
      BY <3>1
    <3>3. /\ T.lo[kids[x]] = keys[x - 1] /\ T.up[kids[x]] = (IF x = n + 1 THEN hi ELSE keys[x])
          /\ T.lv[kids[x]] = lv - 1
      BY <3>1, <1>1
    <3>4. U.lo[kids[x]] = nk[x] /\ U.up[kids[x]] = (IF j = n + 2 THEN hi ELSE nk[j])
      <4> HIDE DEF x
      <4> QED BY <3>1, <3>2, <3>3
    <3> QED BY <3>1, <3>3, <3>4
  <2> QED BY <2>1, <2>2, <2>3, <2>4
<1>9. n + 1 + 1 = n + 2
  OBVIOUS
<1> QED BY <1>6, <1>7, <1>8, <1>9 DEF Routes

\* child i takes over the keys of the one right of it
LEMMA RoutesDrop ==
    ASSUME NEW T, NEW U, NEW n \in Nat, NEW keys, NEW kids, NEW lo \in Int, NEW hi \in Int,
           NEW lv, Routes(T, n, keys, kids, lo, hi, lv), NEW i \in 1 .. n,
           NEW l, l = kids[i], NEW r, r = kids[i + 1], NEW nk, NEW nc,
           Removed(keys, n, i, nk), Removed(kids, n + 1, i + 1, nc),
           KidsKept(T, U, kids, (1 .. n + 1) \ {i, i + 1}),
           l \in DOMAIN U.up, U.lv[l] = T.lv[l], U.lo[l] = T.lo[l], U.up[l] = T.up[r]
    PROVE  Routes(U, n - 1, nk, nc, lo, hi, lv)
<1>0. /\ \A j \in 1 .. i - 1 : nk[j] = keys[j]
      /\ \A j \in i .. n - 1 : nk[j] = keys[j + 1]
      /\ \A j \in 1 .. i : nc[j] = kids[j]
      /\ \A j \in i + 1 .. n : nc[j] = kids[j + 1]
      /\ \A j \in (1 .. n + 1) \ {i + 1} :
            /\ kids[j] \in DOMAIN U.up /\ U.lv[kids[j]] = T.lv[kids[j]]
            /\ U.lo[kids[j]] = T.lo[kids[j]]
            /\ U.up[kids[j]] = IF j = i THEN T.up[kids[i + 1]] ELSE T.up[kids[j]]
  <2>1. (i + 1) - 1 = i /\ (n + 1) - 1 = n
    OBVIOUS
  <2>2. (\A j \in 1 .. i : nc[j] = kids[j]) /\ (\A j \in i + 1 .. n : nc[j] = kids[j + 1])
    BY <2>1 DEF Removed
  <2> QED BY <2>2 DEF Removed, KidsKept
<1> USE <1>0
<1>1. /\ \A j \in 1 .. n : keys[j] \in Int /\ lo < keys[j] /\ keys[j] < hi
      /\ \A a, b \in 1 .. n : a < b => keys[a] < keys[b]
      /\ \A j \in 1 .. n + 1 :
            /\ kids[j] \in DOMAIN T.up /\ T.lv[kids[j]] = lv - 1
            /\ T.lo[kids[j]] = (IF j = 1 THEN lo ELSE keys[j - 1])
            /\ T.up[kids[j]] = (IF j = n + 1 THEN hi ELSE keys[j])
  BY DEF Routes
<1>2. ASSUME NEW j \in 1 .. n - 1
      PROVE  nk[j] \in Int /\ lo < nk[j] /\ nk[j] < hi
  <2>1. CASE j < i
    BY <2>1, <1>1
  <2>2. CASE j >= i
    <3>1. j \in i .. n - 1 /\ j + 1 \in 1 .. n
      BY <2>2
    <3> QED BY <3>1, <1>1
  <2> QED BY <2>1, <2>2
<1>3. ASSUME NEW a \in 1 .. n - 1, NEW b \in 1 .. n - 1, a < b
      PROVE  nk[a] < nk[b]
  <2>1. CASE b < i
    BY <2>1, <1>1, <1>3
  <2>2. CASE a < i /\ b >= i
    <3>1. b \in i .. n - 1 /\ b + 1 \in 1 .. n /\ a < b + 1 /\ a \in 1 .. i - 1 /\ a \in 1 .. n
      BY <2>2
    <3> QED BY <3>1, <1>1
  <2>3. CASE a >= i
    <3>1. /\ a \in i .. n - 1 /\ a + 1 \in 1 .. n /\ b \in i .. n - 1 /\ b + 1 \in 1 .. n
          /\ a + 1 < b + 1
      BY <2>3, <1>3
    <3> QED BY <3>1, <1>1
  <2> QED BY <2>1, <2>2, <2>3
<1>4. ASSUME NEW j \in 1 .. n
      PROVE  /\ nc[j] \in DOMAIN U.up /\ U.lv[nc[j]] = lv - 1
             /\ U.lo[nc[j]] = (IF j = 1 THEN lo ELSE nk[j - 1])
             /\ U.up[nc[j]] = (IF j = n THEN hi ELSE nk[j])
  <2>1. CASE j < i
    <3>1. /\ j \in (1 .. n + 1) \ {i + 1} /\ j # n + 1 /\ j # n /\ j \in 1 .. i - 1 /\ j # i
          /\ nc[j] = kids[j] /\ (j # 1 => j - 1 \in 1 .. i - 1)
      BY <2>1
    <3>2. nk[j] = keys[j] /\ (j # 1 => nk[j - 1] = keys[j - 1])
      BY <3>1
    <3>3. /\ T.lo[kids[j]] = (IF j = 1 THEN lo ELSE nk[j - 1]) /\ T.up[kids[j]] = nk[j]
          /\ T.lv[kids[j]] = lv - 1
      BY <3>1, <3>2, <1>1
    <3> QED BY <3>1, <3>3
  <2>2. CASE j = i
    <3>1. /\ j \in (1 .. n + 1) \ {i + 1} /\ nc[j] = kids[j] /\ (j # 1 => j - 1 \in 1 .. i - 1)
          /\ i + 1 \in 1 .. n + 1 /\ (i # n => i \in i .. n - 1)
          /\ (i + 1 = n + 1 <=> i = n)
      BY <2>2
    <3>2. (j # 1 => nk[j - 1] = keys[j - 1]) /\ (i # n => nk[i] = keys[i + 1])
      BY <3>1
    <3>3. T.lo[kids[j]] = (IF j = 1 THEN lo ELSE nk[j - 1]) /\ T.lv[kids[j]] = lv - 1
      BY <3>1, <3>2, <1>1
    <3>4. T.up[kids[i + 1]] = (IF i + 1 = n + 1 THEN hi ELSE keys[i + 1])
      BY <3>1, <1>1
    <3>5. U.up[kids[i]] = (IF i = n THEN hi ELSE nk[i])
      BY <3>1, <3>2, <3>4, <2>2
    <3> QED BY <3>1, <3>3, <3>5, <2>2
  <2>3. CASE j > i
    <3> DEFINE x == j + 1
    <3>1. /\ x \in (1 .. n + 1) \ {i + 1} /\ x # 1 /\ x # i /\ nc[j] = kids[x] /\ j # 1
          /\ x - 1 = j /\ (j = n <=> x = n + 1) /\ j - 1 \in i .. n - 1 /\ (j - 1) + 1 = j
          /\ (j # n => j \in i .. n - 1)
      BY <2>3
    <3>2. nk[j - 1] = keys[j] /\ (j # n => nk[j] = keys[x])
      BY <3>1
    <3>3. /\ T.lo[kids[x]] = keys[j] /\ T.up[kids[x]] = (IF x = n + 1 THEN hi ELSE keys[x])
          /\ T.lv[kids[x]] = lv - 1
      BY <3>1, <1>1
    <3>4. U.lo[kids[x]] = nk[j - 1] /\ U.up[kids[x]] = (IF j = n THEN hi ELSE nk[j])
      <4> HIDE DEF x
      <4> QED BY <3>1, <3>2, <3>3
    <3> QED BY <3>1, <3>3, <3>4
  <2> QED BY <2>1, <2>2, <2>3
<1>5. n - 1 + 1 = n
  OBVIOUS
<1> QED BY <1>2, <1>3, <1>4, <1>5 DEF Routes

\* m divides children i and i + 1
LEMMA RoutesMove ==
    ASSUME NEW T, NEW U, NEW n \in Nat, NEW keys, NEW kids, NEW lo \in Int, NEW hi \in Int,
           NEW lv, Routes(T, n, keys, kids, lo, hi, lv), NEW i \in 1 .. n, NEW m \in Int,
           NEW l, l = kids[i], NEW r, r = kids[i + 1], T.lo[l] < m, m < T.up[r],
           NEW nk, Replaced(keys, n, i, m, nk), l # r,
           KidsKept(T, U, kids, (1 .. n + 1) \ {i, i + 1}),
           l \in DOMAIN U.up, U.lv[l] = T.lv[l], U.lo[l] = T.lo[l], U.up[l] = m,
           r \in DOMAIN U.up, U.lv[r] = T.lv[r], U.lo[r] = m, U.up[r] = T.up[r]
    PROVE  Routes(U, n, nk, kids, lo, hi, lv)
<1>0. /\ \A j \in (1 .. n) \ {i} : nk[j] = keys[j]
      /\ nk[i] = m
      /\ \A j \in 1 .. n + 1 :
            /\ kids[j] \in DOMAIN U.up /\ U.lv[kids[j]] = T.lv[kids[j]]
            /\ U.lo[kids[j]] = IF j = i + 1 THEN m ELSE T.lo[kids[j]]
            /\ U.up[kids[j]] = IF j = i THEN m ELSE T.up[kids[j]]
  <2>1. ASSUME NEW j \in 1 .. n + 1
        PROVE  /\ kids[j] \in DOMAIN U.up /\ U.lv[kids[j]] = T.lv[kids[j]]
               /\ U.lo[kids[j]] = IF j = i + 1 THEN m ELSE T.lo[kids[j]]
               /\ U.up[kids[j]] = IF j = i THEN m ELSE T.up[kids[j]]
    <3>1. CASE j = i
      <4>1. j # i + 1
        BY <3>1
      <4> QED BY <3>1, <4>1
    <3>2. CASE j = i + 1
      <4>1. j # i
        BY <3>2
      <4> QED BY <3>2, <4>1
    <3>3. CASE j # i /\ j # i + 1
      BY <3>3 DEF KidsKept
    <3> QED BY <3>1, <3>2, <3>3
  <2> QED BY <2>1 DEF Replaced
<1> USE <1>0
<1>1. /\ \A j \in 1 .. n : keys[j] \in Int /\ lo < keys[j] /\ keys[j] < hi
      /\ \A a, b \in 1 .. n : a < b => keys[a] < keys[b]
      /\ \A j \in 1 .. n + 1 :
            /\ kids[j] \in DOMAIN T.up /\ T.lv[kids[j]] = lv - 1
            /\ T.lo[kids[j]] = (IF j = 1 THEN lo ELSE keys[j - 1])
            /\ T.up[kids[j]] = (IF j = n + 1 THEN hi ELSE keys[j])
  BY DEF Routes
<1>2. /\ i # 1 => i - 1 \in 1 .. n /\ keys[i - 1] < m
      /\ i # n => i + 1 \in 1 .. n /\ m < keys[i + 1]
      /\ i = 1 => lo < m
      /\ i = n => m < hi
  <2> DEFINE x == i + 1
  <2>1. x \in 1 .. n + 1 /\ i \in 1 .. n + 1 /\ (x = n + 1 <=> i = n)
    OBVIOUS
  <2> HIDE DEF x
  <2>2. /\ T.lo[kids[i]] = (IF i = 1 THEN lo ELSE keys[i - 1])
        /\ T.up[kids[x]] = (IF x = n + 1 THEN hi ELSE keys[x])
    BY <2>1, <1>1
  <2>3. m < T.up[kids[x]]
    BY DEF x
  <2> QED BY <2>1, <2>2, <2>3 DEF x
<1>3. lo < m /\ m < hi
  BY <1>1, <1>2
<1>4. \A j \in 1 .. i - 1 : j \in 1 .. n /\ keys[j] < m /\ nk[j] = keys[j]
  BY <1>1, <1>2
<1>5. \A j \in i + 1 .. n : j \in 1 .. n /\ m < keys[j] /\ nk[j] = keys[j]
  BY <1>1, <1>2
<1>6. ASSUME NEW j \in 1 .. n PROVE nk[j] \in Int /\ lo < nk[j] /\ nk[j] < hi
  BY <1>1, <1>3, <1>4, <1>5
<1>7. ASSUME NEW a \in 1 .. n, NEW b \in 1 .. n, a < b PROVE nk[a] < nk[b]
  <2>1. CASE a # i /\ b # i
    BY <2>1, <1>1, <1>7
  <2>2. CASE b = i
    BY <2>2, <1>4, <1>7
  <2>3. CASE a = i
    BY <2>3, <1>5, <1>7
  <2> QED BY <2>1, <2>2, <2>3
<1>8. ASSUME NEW j \in 1 .. n + 1
      PROVE  /\ kids[j] \in DOMAIN U.up /\ U.lv[kids[j]] = lv - 1
             /\ U.lo[kids[j]] = (IF j = 1 THEN lo ELSE nk[j - 1])
             /\ U.up[kids[j]] = (IF j = n + 1 THEN hi ELSE nk[j])
  <2>1. /\ T.lo[kids[j]] = (IF j = 1 THEN lo ELSE keys[j - 1])
        /\ T.up[kids[j]] = (IF j = n + 1 THEN hi ELSE keys[j])
        /\ T.lv[kids[j]] = lv - 1
    BY <1>1
  <2>2. U.lo[kids[j]] = (IF j = 1 THEN lo ELSE nk[j - 1])
    <3>1. CASE j = i + 1
      BY <3>1
    <3>2. CASE j # i + 1
      <4>1. j # 1 => j - 1 \in (1 .. n) \ {i}
        BY <3>2
      <4> QED BY <4>1, <3>2, <2>1
    <3> QED BY <3>1, <3>2
  <2>3. U.up[kids[j]] = (IF j = n + 1 THEN hi ELSE nk[j])
    <3>1. CASE j = i
      BY <3>1
    <3>2. CASE j # i
      BY <3>2, <2>1
    <3> QED BY <3>1, <3>2
  <2> QED BY <2>1, <2>2, <2>3
<1> QED BY <1>6, <1>7, <1>8 DEF Routes

(***************************************************************************)
(* The changes to a tree.  Each lemma takes a good tree T to the tree U    *)
(* that differs from it as stated, and is about every node of U.           *)
(***************************************************************************)
LEMMA FitsFrame ==
    ASSUME NEW T, NEW U, NEW n, NEW lo, NEW hi, NEW lv, Fits(T, n, lo, hi, lv),
           U.content = T.content,
           lv # 0 => KidsKept(T, U, n.kids, 1 .. Len(n.kids))
    PROVE  Fits(U, n, lo, hi, lv)
<1>1. CASE lv = 0
  BY <1>1 DEF Fits
<1>2. CASE lv # 0
  <2>1. Routes(T, Len(n.keys), n.keys, n.kids, lo, hi, lv) /\ Len(n.kids) = Len(n.keys) + 1
    BY <1>2 DEF Fits
  <2>2. Routes(U, Len(n.keys), n.keys, n.kids, lo, hi, lv)
    BY <1>2, <2>1, RoutesFrame
  <2> QED BY <1>2, <2>2 DEF Fits
<1> QED BY <1>1, <1>2

LEMMA LinkFrame ==
    ASSUME NEW T, NEW U, NEW to, NEW hi, Link(T, to, hi),
           to # NoPage => to \in DOMAIN U.lo /\ U.lv[to] = T.lv[to] /\ U.lo[to] = T.lo[to]
    PROVE  Link(U, to, hi)
BY DEF Link

\* a node that a change does not reach
LEMMA NodeFrame ==
    ASSUME NEW T, Good(T), NEW U, NEW id \in DOMAIN T.lo, NEW n, n = T.page[id],
           U.lo[id] = T.lo[id], U.hi[id] = T.hi[id], U.lv[id] = T.lv[id],
           U.content = T.content,
           T.lv[id] = 0 /\ n.next # NoPage =>
              n.next \in DOMAIN U.lo /\ U.lv[n.next] = T.lv[n.next] /\ U.lo[n.next] = T.lo[n.next],
           T.lv[id] # 0 => KidsKept(T, U, n.kids, 1 .. Len(n.kids))
    PROVE  NodeOk(U, id, n)
<1>1. Fits(T, n, T.lo[id], T.hi[id], T.lv[id]) /\ (T.lv[id] = 0 => Link(T, n.next, T.hi[id]))
  BY DEF Good, NodeOk
<1>2. Fits(U, n, T.lo[id], T.hi[id], T.lv[id])
  BY <1>1, FitsFrame
<1>3. T.lv[id] = 0 => Link(U, n.next, T.hi[id])
  BY <1>1, LinkFrame
<1> QED BY <1>2, <1>3 DEF NodeOk

\* the leaf that a leaf points to, and the children of an inner node
LEMMA NextInTree ==
    ASSUME NEW T, Good(T), NEW id \in DOMAIN T.lo, T.lv[id] = 0, T.page[id].next # NoPage
    PROVE  /\ T.page[id].next \in DOMAIN T.lo /\ T.lv[T.page[id].next] = 0
           /\ T.lo[T.page[id].next] = T.hi[id]
BY LeafFacts DEF Link

LEMMA KidInTree ==
    ASSUME NEW T, Good(T), NEW p \in DOMAIN T.lo, T.lv[p] # 0,
           NEW i \in 1 .. Len(T.page[p].kids)
    PROVE  /\ T.page[p].kids[i] \in DOMAIN T.up /\ T.page[p].kids[i] \in DOMAIN T.lo
           /\ T.lv[T.page[p].kids[i]] = T.lv[p] - 1
BY ChildFacts DEF IsChild

\* a leaf's entries change
LEMMA LeafChange ==
    ASSUME NEW T, Good(T), NEW U, Typed(U), NEW id \in DOMAIN T.lo, T.lv[id] = 0,
           U.lo = T.lo, U.hi = T.hi, U.lv = T.lv, U.up = T.up,
           \A x \in DOMAIN T.lo \ {id} : U.page[x] = T.page[x],
           U.page[id].leaf, U.page[id].next = T.page[id].next,
           Holds(U.page[id].entries, T.lo[id], T.hi[id], U.content),
           \A e \in (T.content \ U.content) \cup (U.content \ T.content) :
              T.lo[id] <= e[1] /\ e[1] < T.hi[id]
    PROVE  Good(U)
<1>1. Apart(U)
  BY DEF Good, Apart
<1>2. NodeOk(U, id, U.page[id])
  BY LeafFacts DEF NodeOk, Fits, Link
<1>3. ASSUME NEW x \in DOMAIN T.lo \ {id} PROVE NodeOk(U, x, U.page[x])
  <2>1. CASE T.lv[x] = 0
    <3> DEFINE es == T.page[x].entries
    <3>1. /\ T.page[x].leaf /\ Link(T, T.page[x].next, T.hi[x]) /\ es \in Seq(Entries)
          /\ Holds(es, T.lo[x], T.hi[x], T.content)
      BY <2>1, LeafFacts
    <3>2. ASSUME NEW e \in T.content \cup U.content, T.lo[x] <= e[1], e[1] < T.hi[x]
          PROVE  e \in T.content /\ e \in U.content
      <4>1. e \in Entries
        BY DEF Good, Typed
      <4>2. e[1] \in Int
        BY <4>1 DEF Entries, Keys
      <4>3. ~(T.lo[id] <= e[1] /\ e[1] < T.hi[id])
        BY <4>2, <3>2, <2>1, OnePage
      <4> QED BY <4>3
    <3>3. Holds(es, T.lo[x], T.hi[x], U.content)
      <4> HIDE DEF es
      <4> QED BY <3>1, <3>2 DEF Holds
    <3>4. Fits(U, T.page[x], T.lo[x], T.hi[x], 0)
      BY <3>1, <3>3 DEF Fits
    <3>5. Link(U, T.page[x].next, T.hi[x])
      BY <3>1 DEF Link
    <3> QED BY <3>4, <3>5, <2>1 DEF NodeOk
  <2>2. CASE T.lv[x] # 0
    <3>1. Fits(T, T.page[x], T.lo[x], T.hi[x], T.lv[x])
      BY DEF Good, NodeOk
    <3>2. Fits(U, T.page[x], T.lo[x], T.hi[x], T.lv[x])
      <4> DEFINE Routed(V) == Routes(V, Len(T.page[x].keys), T.page[x].keys, T.page[x].kids,
                                     T.lo[x], T.hi[x], T.lv[x])
      <4>0. Routed(T)
        BY <3>1, <2>2 DEF Fits
      <4>1. Routed(U)
        BY ONLY <4>0, U.lo = T.lo, U.lv = T.lv, U.up = T.up DEF Routes
      <4> QED BY <4>1, <3>1, <2>2 DEF Fits
    <3> QED BY <3>2, <2>2 DEF NodeOk
  <2> QED BY <2>1, <2>2
<1> QED BY <1>1, <1>2, <1>3 DEF Good

\* page id is split at m in two: the upper part goes to page new
LEMMA Divide ==
    ASSUME NEW T, Good(T), T.up = T.hi, NEW U, Typed(U), NEW id \in DOMAIN T.lo, NEW new,
           new \notin DOMAIN T.lo, NEW m \in Int, T.lo[id] < m, m < T.hi[id],
           DOMAIN U.lo = DOMAIN T.lo \cup {new}, U.up = T.up, U.content = T.content,
           \A x \in DOMAIN T.lo : U.lo[x] = T.lo[x] /\ U.lv[x] = T.lv[x],
           \A x \in DOMAIN T.lo \ {id} : U.page[x] = T.page[x] /\ U.hi[x] = T.hi[x],
           U.hi[id] = m, U.lo[new] = m, U.hi[new] = T.hi[id], U.lv[new] = T.lv[id],
           Fits(T, U.page[id], T.lo[id], m, T.lv[id]),
           Fits(T, U.page[new], m, T.hi[id], T.lv[id]),
           T.lv[id] = 0 => U.page[id].next = new /\ U.page[new].next = T.page[id].next,
           NEW top, Topped(T, top)
    PROVE  Good(U) /\ Topped(U, top)
<1>0. DOMAIN U.up = DOMAIN T.lo
  BY DEF Good, Typed
<1>1. Apart(U)
  <2>1. \A x \in DOMAIN T.lo : T.lo[x] \in Int /\ T.hi[x] \in Int /\ T.lo[x] < T.hi[x]
    BY DEF Good, Typed, Apart
  <2>2. \A x \in DOMAIN T.lo : 1 <= T.lo[x] /\ T.hi[x] <= Beyond
    BY DEF Good, Apart
  <2>3. \A x, y \in DOMAIN T.lo :
            x # y /\ T.lv[x] = T.lv[y] => T.hi[x] <= T.lo[y] \/ T.hi[y] <= T.lo[x]
    BY DEF Good, Apart
  <2>4. Beyond \in Int
    BY KeysAssumption DEF Beyond
  <2>5. \A x \in DOMAIN U.lo : 1 <= U.lo[x] /\ U.lo[x] < U.hi[x] /\ U.hi[x] <= Beyond
    BY <2>1, <2>2, <2>4
  <2>6. ASSUME NEW x \in DOMAIN U.lo, NEW y \in DOMAIN U.lo, x # y, U.lv[x] = U.lv[y]
        PROVE  U.hi[x] <= U.lo[y] \/ U.hi[y] <= U.lo[x]
    <3>1. CASE x = new
      <4>1. y \in DOMAIN T.lo /\ T.lv[y] = T.lv[id]
        BY <3>1, <2>6
      <4>2. CASE y = id
        BY <4>2, <3>1
      <4>3. CASE y # id
        <5>1. T.hi[id] <= T.lo[y] \/ T.hi[y] <= T.lo[id]
          BY <4>1, <4>3, <2>3
        <5> QED BY <5>1, <4>1, <4>3, <3>1, <2>1
      <4> QED BY <4>2, <4>3
    <3>2. CASE y = new
      <4>1. x \in DOMAIN T.lo /\ T.lv[x] = T.lv[id]
        BY <3>2, <2>6
      <4>2. CASE x = id
        BY <4>2, <3>2
      <4>3. CASE x # id
        <5>1. T.hi[id] <= T.lo[x] \/ T.hi[x] <= T.lo[id]
          BY <4>1, <4>3, <2>3
        <5> QED BY <5>1, <4>1, <4>3, <3>2, <2>1
      <4> QED BY <4>2, <4>3
    <3>3. CASE x # new /\ y # new
      <4>1. x \in DOMAIN T.lo /\ y \in DOMAIN T.lo /\ T.lv[x] = T.lv[y]
        BY <3>3, <2>6
      <4>2. T.hi[x] <= T.lo[y] \/ T.hi[y] <= T.lo[x]
        BY <4>1, <2>6, <2>3
      <4>3. U.hi[x] <= T.hi[x] /\ U.hi[y] <= T.hi[y]
        BY <4>1, <2>1
      <4>4. U.hi[x] \in Int /\ U.hi[y] \in Int
        BY <4>1, <2>1
      <4> QED BY <4>1, <4>2, <4>3, <4>4, <2>1
    <3> QED BY <3>1, <3>2, <3>3
  <2> QED BY <2>5, <2>6 DEF Apart
<1>2. ASSUME NEW n, NEW lo, NEW hi, Fits(T, n, lo, hi, T.lv[id])
      PROVE  Fits(U, n, lo, hi, T.lv[id])
  <2>1. CASE T.lv[id] = 0
    BY <2>1, <1>2 DEF Fits
  <2>2. CASE T.lv[id] # 0
    <3>1. Routes(T, Len(n.keys), n.keys, n.kids, lo, hi, T.lv[id])
      BY <2>2, <1>2 DEF Fits
    <3>2. Routes(U, Len(n.keys), n.keys, n.kids, lo, hi, T.lv[id])
      BY <3>1, <1>0 DEF Routes
    <3> QED BY <3>2, <2>2, <1>2 DEF Fits
  <2> QED BY <2>1, <2>2
<1>3. ASSUME NEW x \in DOMAIN T.lo \ {id} PROVE NodeOk(U, x, U.page[x])
  <2>1. T.lv[x] = 0 /\ T.page[x].next # NoPage => T.page[x].next \in DOMAIN T.lo
    BY NextInTree
  <2>2. T.lv[x] # 0 => KidsKept(T, U, T.page[x].kids, 1 .. Len(T.page[x].kids))
    BY <1>0, KidInTree DEF KidsKept
  <2> QED BY <2>1, <2>2, <1>0, NodeFrame
<1>4. NodeOk(U, id, U.page[id])
  <2>1. Fits(U, U.page[id], U.lo[id], U.hi[id], U.lv[id])
    BY <1>2
  <2>2. T.lv[id] = 0 => Link(U, new, m)
    <3>1. new # NoPage
      BY DEF Typed, NoPage
    <3> QED BY <3>1 DEF Link
  <2> QED BY <2>1, <2>2 DEF NodeOk
<1>5. NodeOk(U, new, U.page[new])
  <2>1. Fits(U, U.page[new], U.lo[new], U.hi[new], U.lv[new])
    BY <1>2
  <2>2. T.lv[id] = 0 => Link(U, T.page[id].next, T.hi[id])
    BY LeafFacts DEF Link
  <2> QED BY <2>1, <2>2 DEF NodeOk
<1>6. Topped(U, top)
  BY <1>0 DEF Topped
<1> QED BY <1>1, <1>3, <1>4, <1>5, <1>6 DEF Good

\* l is the i-th child of p and of no other node
LEMMA OtherParent ==
    ASSUME NEW T, Good(T), NEW p \in DOMAIN T.lo, T.lv[p] # 0,
           NEW i \in 1 .. Len(T.page[p].kids), NEW l, l = T.page[p].kids[i],
           NEW x \in DOMAIN T.lo \ {p}, T.lv[x] # 0, NEW j \in 1 .. Len(T.page[x].kids)
    PROVE  T.page[x].kids[j] # l
<1>1. SUFFICES ASSUME T.page[x].kids[j] = l PROVE FALSE
  OBVIOUS
<1>2. x = p
  BY ONLY <1>1, Good(T), p \in DOMAIN T.lo, T.lv[p] # 0, i \in 1 .. Len(T.page[p].kids),
          l = T.page[p].kids[i], x \in DOMAIN T.lo, T.lv[x] # 0,
          j \in 1 .. Len(T.page[x].kids), OneParent
<1> QED BY <1>2

LEMMA OtherKid ==
    ASSUME NEW T, Good(T), NEW p \in DOMAIN T.lo, T.lv[p] # 0,
           NEW i \in 1 .. Len(T.page[p].kids), NEW l, l = T.page[p].kids[i],
           NEW j \in 1 .. Len(T.page[p].kids), j # i
    PROVE  T.page[p].kids[j] # l
<1>1. SUFFICES ASSUME T.page[p].kids[j] = l PROVE FALSE
  OBVIOUS
<1>2. j = i
  BY ONLY <1>1, Good(T), p \in DOMAIN T.lo, T.lv[p] # 0, i \in 1 .. Len(T.page[p].kids),
          l = T.page[p].kids[i], j \in 1 .. Len(T.page[p].kids), OneParent
<1> QED BY <1>2

LEMMA OtherKids ==
    ASSUME NEW T, Good(T), NEW p \in DOMAIN T.lo, T.lv[p] # 0,
           NEW i \in 1 .. Len(T.page[p].keys), NEW l, NEW r, Neighbours(T, p, i, l, r)
    PROVE  /\ \A x \in DOMAIN T.lo \ {p} : T.lv[x] # 0 =>
                 \A j \in 1 .. Len(T.page[x].kids) :
                    /\ T.page[x].kids[j] \in DOMAIN T.lo
                    /\ T.page[x].kids[j] # l /\ T.page[x].kids[j] # r
           /\ \A j \in (1 .. Len(T.page[p].keys) + 1) \ {i, i + 1} :
                 /\ T.page[p].kids[j] \in DOMAIN T.lo
                 /\ T.page[p].kids[j] # l /\ T.page[p].kids[j] # r
<1> DEFINE k == i + 1
<1>1. /\ Len(T.page[p].keys) \in Nat /\ Len(T.page[p].kids) = Len(T.page[p].keys) + 1
  BY InnerFacts
<1>2. /\ i \in 1 .. Len(T.page[p].kids) /\ k \in 1 .. Len(T.page[p].kids)
      /\ l = T.page[p].kids[i] /\ r = T.page[p].kids[k]
  BY <1>1 DEF Neighbours
<1>3. ASSUME NEW x \in DOMAIN T.lo \ {p}, T.lv[x] # 0, NEW j \in 1 .. Len(T.page[x].kids)
      PROVE  /\ T.page[x].kids[j] \in DOMAIN T.lo
             /\ T.page[x].kids[j] # l /\ T.page[x].kids[j] # r
  <2> HIDE DEF k
  <2>1. T.page[x].kids[j] # l
    BY <1>2, <1>3, OtherParent
  <2>2. T.page[x].kids[j] # r
    BY <1>2, <1>3, OtherParent
  <2>3. T.page[x].kids[j] \in DOMAIN T.lo
    BY <1>3, KidInTree
  <2> QED BY <2>1, <2>2, <2>3
<1>4. ASSUME NEW j \in (1 .. Len(T.page[p].keys) + 1) \ {i, i + 1}
      PROVE  /\ T.page[p].kids[j] \in DOMAIN T.lo
             /\ T.page[p].kids[j] # l /\ T.page[p].kids[j] # r
  <2>1. j \in 1 .. Len(T.page[p].kids) /\ j # i /\ j # k
    BY <1>1
  <2> HIDE DEF k
  <2>2. T.page[p].kids[j] # l
    BY <1>2, <2>1, OtherKid
  <2>3. T.page[p].kids[j] # r
    BY <1>2, <2>1, OtherKid
  <2>4. T.page[p].kids[j] \in DOMAIN T.lo
    BY <2>1, KidInTree
  <2> QED BY <2>2, <2>3, <2>4
<1> QED BY <1>3, <1>4

\* page l was split and r is the upper part, of which the node above l does not
\* know: it still sees the range that l had
Parted(T, l, r) ==
    /\ l \in DOMAIN T.lo /\ r \in DOMAIN T.lo /\ l # r /\ T.lv[r] = T.lv[l] /\ T.lo[r] = T.hi[l]
    /\ DOMAIN T.up = DOMAIN T.lo \ {r}
    /\ \A x \in DOMAIN T.up : T.up[x] = IF x = l THEN T.hi[r] ELSE T.hi[x]

\* the node p above l gets r
LEMMA Attach ==
    ASSUME NEW T, Good(T), NEW l, NEW r, Parted(T, l, r), NEW top, Topped(T, top),
           NEW U, Typed(U), NEW p \in DOMAIN T.lo, T.lv[p] # 0,
           NEW i \in 1 .. Len(T.page[p].kids), T.page[p].kids[i] = l,
           U.lo = T.lo, U.hi = T.hi, U.lv = T.lv, U.up = T.hi, U.content = T.content,
           \A x \in DOMAIN T.lo \ {p} : U.page[x] = T.page[x],
           U.page[p] = Inner(InsertAt(T.page[p].keys, i, T.lo[r]),
                             InsertAt(T.page[p].kids, i + 1, r))
    PROVE  Good(U) /\ Topped(U, top)
<1>0. DOMAIN U.up = DOMAIN T.lo /\ DOMAIN T.up = DOMAIN T.lo \ {r}
  BY DEF Good, Typed, Parted
<1>1. Apart(U)
  BY DEF Good, Apart
<1>2. ASSUME NEW x \in DOMAIN T.lo \ {p} PROVE NodeOk(U, x, U.page[x])
  <2>1. T.lv[x] = 0 /\ T.page[x].next # NoPage => T.page[x].next \in DOMAIN T.lo
    BY NextInTree
  <2>2. ASSUME T.lv[x] # 0, NEW j \in 1 .. Len(T.page[x].kids)
        PROVE  LET c == T.page[x].kids[j]
               IN  c \in DOMAIN U.up /\ U.up[c] = T.up[c]
    <3> DEFINE c == T.page[x].kids[j]
    <3>1. c \in DOMAIN T.up /\ c \in DOMAIN T.lo
      BY <2>2, KidInTree
    <3>2. c # l
      BY <2>2, OtherParent, SMTT(30)
    <3>3. T.up[c] = T.hi[c]
      BY <3>1, <3>2 DEF Parted
    <3> QED BY <3>1, <3>3, <1>0
  <2>3. T.lv[x] # 0 => KidsKept(T, U, T.page[x].kids, 1 .. Len(T.page[x].kids))
    BY <2>2 DEF KidsKept
  <2> QED BY <2>1, <2>3, NodeFrame
<1> DEFINE keys == T.page[p].keys
           kids == T.page[p].kids
           n == Len(keys)
           m == T.lo[r]
           nk == InsertAt(keys, i, m)
           nc == InsertAt(kids, i + 1, r)
<1>3. /\ keys \in Seq(Separators) /\ kids \in Seq(PageIds) /\ n \in Nat /\ Len(kids) = n + 1
      /\ T.lo[p] \in Int /\ T.hi[p] \in Int
      /\ Routes(T, n, keys, kids, T.lo[p], T.hi[p], T.lv[p])
  BY InnerFacts
<1>4. /\ r \in PageIds /\ T.lo[l] \in Int /\ T.hi[r] \in Int /\ m \in Int /\ m \in Separators
      /\ T.lo[l] < m /\ m < T.hi[r]
      /\ m = T.hi[l] /\ T.lv[r] = T.lv[l]
  BY DEF Good, Typed, Parted, Apart, PageIds, Separators
<1>5. /\ nk \in Seq(Separators) /\ Len(nk) = n + 1 /\ Inserted(keys, n, i, m, nk)
  <2>1. i \in 1 .. Len(keys) + 1
    BY <1>3
  <2> HIDE DEF keys, kids, m
  <2> QED BY <1>3, <1>4, <2>1, Inserts
<1>6. /\ nc \in Seq(PageIds) /\ Len(nc) = n + 2 /\ Inserted(kids, n + 1, i + 1, r, nc)
  <2> DEFINE x == i + 1
             t == InsertAt(kids, x, r)
  <2>1. x \in 1 .. Len(kids) + 1 /\ Len(kids) = n + 1 /\ (n + 1) + 1 = n + 2
    BY <1>3
  <2>2. kids \in Seq(PageIds) /\ r \in PageIds
    BY <1>3, <1>4
  <2> HIDE DEF keys, kids, m, x
  <2>3. t \in Seq(PageIds) /\ Len(t) = Len(kids) + 1 /\ Inserted(kids, Len(kids), x, r, t)
    BY ONLY <2>1, <2>2, Inserts
  <2> HIDE DEF t, n
  <2>4. t \in Seq(PageIds) /\ Len(t) = n + 2 /\ Inserted(kids, n + 1, x, r, t)
    BY <2>1, <2>3
  <2> QED BY <2>4 DEF t, x
<1>7. KidsKept(T, U, kids, (1 .. n + 1) \ {i})
  <2>1. ASSUME NEW j \in (1 .. n + 1) \ {i}
        PROVE  /\ kids[j] \in DOMAIN U.up /\ U.lv[kids[j]] = T.lv[kids[j]]
               /\ U.lo[kids[j]] = T.lo[kids[j]] /\ U.up[kids[j]] = T.up[kids[j]]
    <3>1. kids[j] \in DOMAIN T.up /\ kids[j] \in DOMAIN T.lo
      BY <1>3, KidInTree
    <3>2. kids[j] # l
      <4>1. j \in 1 .. Len(T.page[p].kids) /\ j # i /\ l = T.page[p].kids[i]
        BY <1>3
      <4>2. T.page[p].kids[j] # l
        BY <4>1, OtherKid
      <4> QED BY <4>2
    <3>3. T.up[kids[j]] = T.hi[kids[j]]
      BY <3>1, <3>2 DEF Parted
    <3> QED BY <3>1, <3>3, <1>0
  <2> QED BY <2>1 DEF KidsKept
<1>8. T.up[l] = T.hi[r] /\ T.lv[l] = T.lv[p] - 1 /\ l \in DOMAIN T.up /\ l # p
  <2>1. l \in DOMAIN T.up /\ l \in DOMAIN T.lo /\ T.lv[l] = T.lv[p] - 1
    BY KidInTree
  <2>2. T.lv[p] \in Nat
    BY InnerFacts
  <2>3. l # p
    BY <2>1, <2>2
  <2> QED BY <2>1, <2>3 DEF Parted
<1>9. Routes(U, n + 1, nk, nc, T.lo[p], T.hi[p], T.lv[p])
  <2>1. i \in 1 .. n + 1 /\ l = kids[i]
    BY <1>3
  <2>2. /\ l \in DOMAIN U.up /\ U.lv[l] = T.lv[l] /\ U.lo[l] = T.lo[l] /\ U.up[l] = m
        /\ r \in DOMAIN U.up /\ U.lv[r] = T.lv[p] - 1 /\ U.lo[r] = m /\ U.up[r] = T.up[l]
        /\ T.lo[l] < m /\ m < T.up[l]
    BY <1>0, <1>4, <1>8 DEF Parted
  <2> HIDE DEF keys, kids, n, nk, nc, m
  <2> QED BY ONLY <1>3, <1>4, <1>5, <1>6, <1>7, <2>1, <2>2, RoutesInsert
<1>10. NodeOk(U, p, U.page[p])
  <2> HIDE DEF keys, kids, n, nk, nc
  <2>1. U.page[p] = Inner(nk, nc)
    BY DEF nk, nc, keys, kids
  <2>2. ~U.page[p].leaf /\ U.page[p].keys = nk /\ U.page[p].kids = nc
    BY <2>1 DEF Inner
  <2>3. Len(nc) = Len(nk) + 1
    BY <1>3, <1>5, <1>6
  <2> QED BY <2>2, <2>3, <1>5, <1>9 DEF NodeOk, Fits
<1>11. Topped(U, top)
  <2>1. p # r /\ T.lv[p] \in Nat /\ T.lv[top] \in Nat /\ T.lv[l] \in Nat /\ top \in DOMAIN T.up
    BY <1>3, <1>4, <1>8, SMTT(30) DEF Good, Typed, Topped, Parted
  <2>2. p \in DOMAIN T.up
    BY <2>1, <1>0
  <2>3. T.lv[p] <= T.lv[top]
    BY <2>1, <2>2 DEF Topped
  <2>4. top # l /\ T.lv[r] < T.lv[top]
    BY <2>1, <2>3, <1>4, <1>8
  <2>5. T.hi[top] = Beyond
    BY <2>4 DEF Topped, Parted
  <2> QED BY <2>4, <2>5, <1>0 DEF Topped
<1> QED BY <1>1, <1>2, <1>10, <1>11 DEF Good

\* a page above the root that was split
LEMMA AddTop ==
    ASSUME NEW T, Good(T), NEW l, NEW r, Parted(T, l, r), Topped(T, l), NEW U, Typed(U),
           NEW new, new \notin DOMAIN T.lo, DOMAIN U.lo = DOMAIN T.lo \cup {new},
           \A x \in DOMAIN T.lo :
              /\ U.lo[x] = T.lo[x] /\ U.hi[x] = T.hi[x] /\ U.lv[x] = T.lv[x]
              /\ U.page[x] = T.page[x],
           U.lo[new] = 1, U.hi[new] = Beyond, U.lv[new] = T.lv[l] + 1, U.up = U.hi,
           U.content = T.content, U.page[new] = Inner(<<T.lo[r]>>, <<l, r>>)
    PROVE  Good(U) /\ Topped(U, new)
<1>0. DOMAIN U.up = DOMAIN T.lo \cup {new} /\ DOMAIN T.up = DOMAIN T.lo \ {r}
  BY DEF Typed, Parted
<1>1. \A x \in DOMAIN T.lo : T.lv[x] \in Nat /\ T.lv[x] <= T.lv[l]
  BY <1>0 DEF Good, Typed, Topped, Parted
<1>2. /\ T.lo[l] \in Int /\ T.hi[l] \in Int /\ T.lo[r] \in Int /\ T.hi[r] \in Int
      /\ T.lo[l] < T.hi[l] /\ T.lo[r] < T.hi[r] /\ T.lo[r] = T.hi[l] /\ T.lv[r] = T.lv[l]
      /\ T.lo[l] = 1 /\ T.hi[r] = Beyond /\ l \in DOMAIN T.lo /\ r \in DOMAIN T.lo
      /\ Beyond \in Int
  BY KeysAssumption DEF Good, Typed, Parted, Apart, Topped, Beyond
<1>3. Apart(U)
  <2>1. \A x \in DOMAIN U.lo : 1 <= U.lo[x] /\ U.lo[x] < U.hi[x] /\ U.hi[x] <= Beyond
    BY <1>2 DEF Good, Apart
  <2>2. ASSUME NEW x \in DOMAIN U.lo, NEW y \in DOMAIN U.lo, x # y, U.lv[x] = U.lv[y]
        PROVE  x \in DOMAIN T.lo /\ y \in DOMAIN T.lo
    BY <2>2, <1>1, <1>2
  <2>3. \A x, y \in DOMAIN T.lo :
            x # y /\ T.lv[x] = T.lv[y] => T.hi[x] <= T.lo[y] \/ T.hi[y] <= T.lo[x]
    BY DEF Good, Apart
  <2>4. ASSUME NEW x \in DOMAIN U.lo, NEW y \in DOMAIN U.lo, x # y, U.lv[x] = U.lv[y]
        PROVE  U.hi[x] <= U.lo[y] \/ U.hi[y] <= U.lo[x]
    BY <2>2, <2>3, <2>4
  <2> QED BY <2>1, <2>4 DEF Apart
<1>4. ASSUME NEW x \in DOMAIN T.lo PROVE NodeOk(U, x, U.page[x])
  <2>1. T.lv[x] = 0 /\ T.page[x].next # NoPage => T.page[x].next \in DOMAIN T.lo
    BY NextInTree
  <2>2. ASSUME T.lv[x] # 0, NEW j \in 1 .. Len(T.page[x].kids)
        PROVE  LET c == T.page[x].kids[j]
               IN  /\ c \in DOMAIN U.up /\ U.lv[c] = T.lv[c] /\ U.lo[c] = T.lo[c]
                   /\ U.up[c] = T.up[c]
    <3> DEFINE c == T.page[x].kids[j]
    <3>1. c \in DOMAIN T.up /\ c \in DOMAIN T.lo /\ T.lv[c] = T.lv[x] - 1
      BY <2>2, KidInTree
    <3> HIDE DEF c
    <3>2. c # l
      BY <3>1, <1>1, <1>2
    <3>3. T.up[c] = T.hi[c]
      BY <3>1, <3>2 DEF Parted
    <3> QED BY <3>1, <3>3, <1>0 DEF c
  <2>3. T.lv[x] # 0 => KidsKept(T, U, T.page[x].kids, 1 .. Len(T.page[x].kids))
    BY <2>2 DEF KidsKept
  <2> QED BY <2>1, <2>3, NodeFrame
<1>5. NodeOk(U, new, U.page[new])
  <2> DEFINE nk == <<T.lo[r]>>
             nc == <<l, r>>
  <2>1. /\ ~U.page[new].leaf /\ U.page[new].keys = nk /\ U.page[new].kids = nc
        /\ Len(nk) = 1 /\ Len(nc) = 1 + 1 /\ nk[1] = T.lo[r] /\ nc[1] = l /\ nc[2] = r
    BY DEF Inner
  <2> HIDE DEF nk, nc
  <2>2. T.lv[l] \in Nat /\ (T.lv[l] + 1) - 1 = T.lv[l]
    BY <1>1, <1>2
  <2>3. /\ nc[1] \in DOMAIN U.up /\ U.lv[nc[1]] = U.lv[new] - 1 /\ U.lo[nc[1]] = 1
        /\ U.up[nc[1]] = nk[1]
    BY <1>0, <1>2, <2>1, <2>2
  <2>4. /\ nc[2] \in DOMAIN U.up /\ U.lv[nc[2]] = U.lv[new] - 1 /\ U.lo[nc[2]] = nk[1]
        /\ U.up[nc[2]] = Beyond
    BY <1>0, <1>2, <2>1, <2>2
  <2>5. nk[1] \in Int /\ 1 < nk[1] /\ nk[1] < Beyond
    BY <1>2, <2>1
  <2>6. Routes(U, 1, nk, nc, 1, Beyond, U.lv[new])
    <3>1. \A i \in 1 .. 1 : i = 1
      OBVIOUS
    <3>2. \A i \in 1 .. 1 + 1 : i = 1 \/ i = 2
      OBVIOUS
    <3> QED BY <3>1, <3>2, <2>3, <2>4, <2>5 DEF Routes
  <2>7. U.lv[new] # 0
    BY <2>2
  <2> QED BY <2>1, <2>6, <2>7 DEF NodeOk, Fits
<1>6. Topped(U, new)
  <2>1. \A x \in DOMAIN T.lo : U.lv[x] < U.lv[new]
    BY <1>1, <1>2
  <2> QED BY <1>0, <2>1 DEF Topped
<1> QED BY <1>3, <1>4, <1>5, <1>6 DEF Good

\* m now divides the neighbours l and r, children of p
LEMMA Redivided ==
    ASSUME NEW T, Good(T), T.up = T.hi, NEW top, Topped(T, top), NEW U, Typed(U),
           NEW p \in DOMAIN T.lo, T.lv[p] # 0, NEW i \in 1 .. Len(T.page[p].keys),
           NEW l, NEW r, Neighbours(T, p, i, l, r),
           NEW m \in Int, T.lo[l] < m, m < T.hi[r],
           DOMAIN U.lo = DOMAIN T.lo, U.lv = T.lv, U.up = U.hi, U.content = T.content,
           \A x \in DOMAIN T.lo \ {r} : U.lo[x] = T.lo[x],
           \A x \in DOMAIN T.lo \ {l} : U.hi[x] = T.hi[x], U.lo[r] = m, U.hi[l] = m,
           \A x \in DOMAIN T.lo \ {l, r, p} : U.page[x] = T.page[x],
           Fits(T, U.page[l], T.lo[l], m, T.lv[l]), Fits(T, U.page[r], m, T.hi[r], T.lv[r]),
           T.lv[l] = 0 =>
              U.page[l].next = T.page[l].next /\ U.page[r].next = T.page[r].next,
           NEW nk, Len(nk) = Len(T.page[p].keys),
           Replaced(T.page[p].keys, Len(T.page[p].keys), i, m, nk),
           U.page[p] = Inner(nk, T.page[p].kids)
    PROVE  Good(U) /\ Topped(U, top)
<1>0. DOMAIN U.up = DOMAIN T.lo /\ DOMAIN T.up = DOMAIN T.lo
  BY DEF Good, Typed
<1>1. /\ l \in DOMAIN T.lo /\ r \in DOMAIN T.lo /\ l # r /\ l # p /\ r # p
      /\ T.lv[l] = T.lv[p] - 1 /\ T.lv[r] = T.lv[p] - 1
      /\ T.lo[l] \in Int /\ T.hi[l] \in Int /\ T.lo[r] \in Int /\ T.hi[r] \in Int
      /\ T.lo[l] < T.hi[l] /\ T.lo[r] < T.hi[r] /\ T.hi[l] = T.lo[r]
  BY Siblings
<1>2. Apart(U)
  <2>1. \A x \in DOMAIN T.lo : T.lo[x] \in Int /\ T.hi[x] \in Int /\ T.lo[x] < T.hi[x]
    BY DEF Good, Typed, Apart
  <2>2. \A x \in DOMAIN T.lo : 1 <= T.lo[x] /\ T.hi[x] <= Beyond
    BY DEF Good, Apart
  <2>3. \A x, y \in DOMAIN T.lo :
            x # y /\ T.lv[x] = T.lv[y] => T.hi[x] <= T.lo[y] \/ T.hi[y] <= T.lo[x]
    BY DEF Good, Apart
  <2>4. Beyond \in Int
    BY KeysAssumption DEF Beyond
  <2>5. \A x \in DOMAIN U.lo : 1 <= U.lo[x] /\ U.lo[x] < U.hi[x] /\ U.hi[x] <= Beyond
    BY <1>1, <2>1, <2>2, <2>4, SMTT(30)
  <2>6. ASSUME NEW x \in DOMAIN T.lo \ {l, r}, T.lv[x] = T.lv[l]
        PROVE  /\ U.lo[x] = T.lo[x] /\ U.hi[x] = T.hi[x]
               /\ T.hi[x] <= T.lo[l] \/ T.hi[r] <= T.lo[x]
    <3>1. T.hi[x] <= T.lo[l] \/ T.hi[l] <= T.lo[x]
      BY <1>1, <2>3, <2>6
    <3>2. T.hi[x] <= T.lo[r] \/ T.hi[r] <= T.lo[x]
      BY <1>1, <2>3, <2>6
    <3> QED BY <3>1, <3>2, <1>1, <2>1
  <2>7. ASSUME NEW x \in DOMAIN U.lo, NEW y \in DOMAIN U.lo, x # y, U.lv[x] = U.lv[y]
        PROVE  U.hi[x] <= U.lo[y] \/ U.hi[y] <= U.lo[x]
    <3>1. CASE x \in {l, r} /\ y \in {l, r}
      BY <3>1, <2>7, <1>1
    <3>2. CASE x \in {l, r} /\ y \notin {l, r}
      <4>1. T.lv[y] = T.lv[l]
        BY <3>2, <2>7, <1>1
      <4>2. /\ U.lo[y] = T.lo[y] /\ U.hi[y] = T.hi[y]
            /\ T.hi[y] <= T.lo[l] \/ T.hi[r] <= T.lo[y]
        BY <4>1, <3>2, <2>6
      <4>3. T.lo[l] <= U.lo[x] /\ U.hi[x] <= T.hi[r] /\ U.lo[x] \in Int /\ U.hi[x] \in Int
        BY <3>2, <1>1
      <4> QED BY <4>2, <4>3, <1>1, <2>1, SMTT(30)
    <3>3. CASE x \notin {l, r} /\ y \in {l, r}
      <4>1. T.lv[x] = T.lv[l]
        BY <3>3, <2>7, <1>1
      <4>2. /\ U.lo[x] = T.lo[x] /\ U.hi[x] = T.hi[x]
            /\ T.hi[x] <= T.lo[l] \/ T.hi[r] <= T.lo[x]
        BY <4>1, <3>3, <2>6
      <4>3. T.lo[l] <= U.lo[y] /\ U.hi[y] <= T.hi[r] /\ U.lo[y] \in Int /\ U.hi[y] \in Int
        BY <3>3, <1>1
      <4> QED BY <4>2, <4>3, <1>1, <2>1, SMTT(30)
    <3>4. CASE x \notin {l, r} /\ y \notin {l, r}
      BY <3>4, <2>7, <2>3
    <3> QED BY <3>1, <3>2, <3>3, <3>4
  <2> QED BY <2>5, <2>7 DEF Apart
<1>3. \A x \in DOMAIN T.lo : T.lv[x] = 0 /\ T.page[x].next = r => x = l
  <2>1. r # NoPage
    BY <1>1 DEF Good, Typed, NoPage
  <2>2. \A x \in DOMAIN T.lo : T.lv[x] = 0 /\ T.page[x].next = r => T.lv[r] = 0
    BY <2>1, NextInTree
  <2> QED BY <2>2, <1>1, OneBefore
<1>4. ASSUME NEW x \in DOMAIN T.lo \ {l, r, p} PROVE NodeOk(U, x, U.page[x])
  <2>1. T.lv[x] = 0 /\ T.page[x].next # NoPage =>
            T.page[x].next \in DOMAIN T.lo /\ T.page[x].next # r
    BY <1>3, NextInTree
  <2>2. ASSUME T.lv[x] # 0, NEW j \in 1 .. Len(T.page[x].kids)
        PROVE  LET c == T.page[x].kids[j] IN c \in DOMAIN T.lo /\ c # l /\ c # r
    BY <2>2, OtherKids
  <2>3. T.lv[x] # 0 => KidsKept(T, U, T.page[x].kids, 1 .. Len(T.page[x].kids))
    BY <2>2, <1>0 DEF KidsKept
  <2> QED BY <2>1, <2>3, <1>0, NodeFrame
<1>5. ASSUME NEW n, NEW lo, NEW hi, Fits(T, n, lo, hi, T.lv[l]) PROVE Fits(U, n, lo, hi, T.lv[l])
  <2>1. ASSUME T.lv[l] # 0 PROVE KidsKept(T, U, n.kids, 1 .. Len(n.kids))
    <3>1. Len(n.kids) = Len(n.keys) + 1 /\ Routes(T, Len(n.keys), n.keys, n.kids, lo, hi, T.lv[l])
      BY <2>1, <1>5 DEF Fits
    <3>2. T.lv[l] \in Nat
      BY <1>1 DEF Good, Typed
    <3>3. ASSUME NEW j \in 1 .. Len(n.kids)
          PROVE  n.kids[j] \in DOMAIN T.lo /\ n.kids[j] # l /\ n.kids[j] # r
      <4>1. n.kids[j] \in DOMAIN T.up /\ T.lv[n.kids[j]] = T.lv[l] - 1
        BY <3>1 DEF Routes
      <4>2. T.lv[n.kids[j]] # T.lv[l] /\ T.lv[n.kids[j]] # T.lv[r]
        BY <4>1, <3>2, <1>1
      <4> QED BY <4>1, <4>2, <1>0
    <3> QED BY <3>3, <1>0 DEF KidsKept
  <2> QED BY <2>1, <1>5, FitsFrame
<1>6. NodeOk(U, l, U.page[l])
  <2>1. Fits(U, U.page[l], U.lo[l], U.hi[l], U.lv[l])
    BY <1>1, <1>5
  <2>2. T.lv[l] = 0 => T.page[l].next = r
    BY <1>1, OneBefore
  <2>3. T.lv[l] = 0 => Link(U, r, m)
    <3>1. r # NoPage
      BY <1>1 DEF Good, Typed, NoPage
    <3> QED BY <3>1, <1>1 DEF Link
  <2> QED BY <2>1, <2>2, <2>3 DEF NodeOk
<1>7. NodeOk(U, r, U.page[r])
  <2>1. Fits(U, U.page[r], U.lo[r], U.hi[r], U.lv[r])
    BY <1>1, <1>5
  <2>2. ASSUME T.lv[r] = 0 PROVE Link(U, T.page[r].next, T.hi[r])
    <3>1. Link(T, T.page[r].next, T.hi[r])
      BY <2>2, <1>1, LeafFacts
    <3>2. T.page[r].next # NoPage => T.page[r].next \in DOMAIN T.lo /\ T.page[r].next # r
      BY <3>1, <1>1 DEF Link
    <3> QED BY <3>1, <3>2, LinkFrame
  <2> QED BY <2>1, <2>2, <1>1 DEF NodeOk
<1> DEFINE keys == T.page[p].keys
           kids == T.page[p].kids
           n == Len(keys)
<1>8. /\ keys \in Seq(Separators) /\ kids \in Seq(PageIds) /\ n \in Nat /\ Len(kids) = n + 1
      /\ T.lo[p] \in Int /\ T.hi[p] \in Int
      /\ Routes(T, n, keys, kids, T.lo[p], T.hi[p], T.lv[p])
  BY InnerFacts
<1>9. Len(nk) = n /\ Replaced(keys, n, i, m, nk)
  OBVIOUS
<1>10. KidsKept(T, U, kids, (1 .. n + 1) \ {i, i + 1})
  <2>1. ASSUME NEW j \in (1 .. n + 1) \ {i, i + 1}
        PROVE  kids[j] \in DOMAIN T.lo /\ kids[j] # l /\ kids[j] # r
    BY OtherKids
  <2> QED BY <2>1, <1>0 DEF KidsKept
<1>11. Routes(U, n, nk, kids, T.lo[p], T.hi[p], T.lv[p])
  <2>1. i \in 1 .. n /\ l = kids[i] /\ r = kids[i + 1]
    BY ZenonT(30) DEF Neighbours
  <2>2. /\ l \in DOMAIN U.up /\ U.lv[l] = T.lv[l] /\ U.lo[l] = T.lo[l] /\ U.up[l] = m
        /\ r \in DOMAIN U.up /\ U.lv[r] = T.lv[r] /\ U.lo[r] = m /\ U.up[r] = T.up[r]
        /\ T.lo[l] < m /\ m < T.up[r] /\ m \in Int /\ l # r
    BY <1>0, <1>1
  <2> HIDE DEF keys, kids, n
  <2> QED BY ONLY <1>8, <1>9, <1>10, <2>1, <2>2, RoutesMove, ZenonT(30)
<1>12. NodeOk(U, p, U.page[p])
  <2>1. U.lo[p] = T.lo[p] /\ U.hi[p] = T.hi[p] /\ U.lv[p] = T.lv[p]
    BY <1>1
  <2> HIDE DEF keys, kids, n
  <2>2. U.page[p] = Inner(nk, kids)
    BY DEF kids
  <2>3. ~U.page[p].leaf /\ U.page[p].keys = nk /\ U.page[p].kids = kids
    BY <2>2 DEF Inner
  <2> QED BY <2>1, <2>3, <1>8, <1>9, <1>11 DEF NodeOk, Fits
<1>13. Topped(U, top)
  <2>1. T.lv[p] \in Nat /\ T.lv[top] \in Nat /\ top \in DOMAIN T.up
    BY <1>1 DEF Good, Typed, Topped
  <2>2. T.lv[p] <= T.lv[top]
    BY <2>1, <1>0 DEF Topped
  <2>3. top # l /\ top # r
    BY <2>1, <2>2, <1>1
  <2> QED BY <2>3, <1>0 DEF Topped
<1> QED BY <1>0, <1>2, <1>4, <1>6, <1>7, <1>12, <1>13 DEF Good

\* l takes over the keys of its neighbour r, which leaves the tree
LEMMA Absorbed ==
    ASSUME NEW T, Good(T), T.up = T.hi, NEW top, Topped(T, top), NEW U, Typed(U),
           NEW p \in DOMAIN T.lo, T.lv[p] # 0, NEW i \in 1 .. Len(T.page[p].keys),
           NEW l, NEW r, Neighbours(T, p, i, l, r),
           DOMAIN U.lo = DOMAIN T.lo \ {r}, U.up = U.hi, U.content = T.content,
           \A x \in DOMAIN T.lo \ {r} : U.lo[x] = T.lo[x] /\ U.lv[x] = T.lv[x],
           \A x \in DOMAIN T.lo \ {l, r} : U.hi[x] = T.hi[x], U.hi[l] = T.hi[r],
           \A x \in DOMAIN T.lo \ {l, r, p} : U.page[x] = T.page[x],
           Fits(T, U.page[l], T.lo[l], T.hi[r], T.lv[l]),
           T.lv[l] = 0 => U.page[l].next = T.page[r].next,
           NEW nk, NEW nc, Len(nk) = Len(T.page[p].keys) - 1, Len(nc) = Len(T.page[p].keys),
           Removed(T.page[p].keys, Len(T.page[p].keys), i, nk),
           Removed(T.page[p].kids, Len(T.page[p].keys) + 1, i + 1, nc),
           U.page[p] = Inner(nk, nc)
    PROVE  Good(U) /\ Topped(U, top)
<1>0. DOMAIN U.up = DOMAIN T.lo \ {r} /\ DOMAIN T.up = DOMAIN T.lo
  BY DEF Good, Typed
<1>1. /\ l \in DOMAIN T.lo /\ r \in DOMAIN T.lo /\ l # r /\ l # p /\ r # p
      /\ T.lv[l] = T.lv[p] - 1 /\ T.lv[r] = T.lv[p] - 1
      /\ T.lo[l] \in Int /\ T.hi[l] \in Int /\ T.lo[r] \in Int /\ T.hi[r] \in Int
      /\ T.lo[l] < T.hi[l] /\ T.lo[r] < T.hi[r] /\ T.hi[l] = T.lo[r]
  BY Siblings
<1>2. Apart(U)
  <2>1. \A x \in DOMAIN T.lo : T.lo[x] \in Int /\ T.hi[x] \in Int /\ T.lo[x] < T.hi[x]
    BY DEF Good, Typed, Apart
  <2>2. \A x \in DOMAIN T.lo : 1 <= T.lo[x] /\ T.hi[x] <= Beyond
    BY DEF Good, Apart
  <2>3. \A x, y \in DOMAIN T.lo :
            x # y /\ T.lv[x] = T.lv[y] => T.hi[x] <= T.lo[y] \/ T.hi[y] <= T.lo[x]
    BY DEF Good, Apart
  <2>5. \A x \in DOMAIN U.lo : 1 <= U.lo[x] /\ U.lo[x] < U.hi[x] /\ U.hi[x] <= Beyond
    BY <1>1, <2>1, <2>2, SMTT(30)
  <2>6. ASSUME NEW x \in DOMAIN T.lo \ {l, r}, T.lv[x] = T.lv[l]
        PROVE  /\ U.lo[x] = T.lo[x] /\ U.hi[x] = T.hi[x]
               /\ T.hi[x] <= T.lo[l] \/ T.hi[r] <= T.lo[x]
    <3>1. T.hi[x] <= T.lo[l] \/ T.hi[l] <= T.lo[x]
      BY <1>1, <2>3, <2>6
    <3>2. T.hi[x] <= T.lo[r] \/ T.hi[r] <= T.lo[x]
      BY <1>1, <2>3, <2>6
    <3> QED BY <3>1, <3>2, <1>1, <2>1
  <2>7. ASSUME NEW x \in DOMAIN U.lo, NEW y \in DOMAIN U.lo, x # y, U.lv[x] = U.lv[y]
        PROVE  U.hi[x] <= U.lo[y] \/ U.hi[y] <= U.lo[x]
    <3>1. CASE x = l
      <4>1. y \in DOMAIN T.lo \ {l, r} /\ T.lv[y] = T.lv[l]
        BY <3>1, <2>7, <1>1
      <4> QED BY <4>1, <3>1, <2>6, <1>1
    <3>2. CASE y = l
      <4>1. x \in DOMAIN T.lo \ {l, r} /\ T.lv[x] = T.lv[l]
        BY <3>2, <2>7, <1>1
      <4> QED BY <4>1, <3>2, <2>6, <1>1
    <3>3. CASE x # l /\ y # l
      BY <3>3, <2>7, <2>3
    <3> QED BY <3>1, <3>2, <3>3
  <2> QED BY <2>5, <2>7 DEF Apart
<1>3. \A x \in DOMAIN T.lo : T.lv[x] = 0 /\ T.page[x].next = r => x = l
  <2>1. r # NoPage
    BY <1>1 DEF Good, Typed, NoPage
  <2>2. \A x \in DOMAIN T.lo : T.lv[x] = 0 /\ T.page[x].next = r => T.lv[r] = 0
    BY <2>1, NextInTree
  <2> QED BY <2>2, <1>1, OneBefore
<1>4. ASSUME NEW x \in DOMAIN T.lo \ {l, r, p} PROVE NodeOk(U, x, U.page[x])
  <2>1. T.lv[x] = 0 /\ T.page[x].next # NoPage =>
            T.page[x].next \in DOMAIN T.lo /\ T.page[x].next # r
    BY <1>3, NextInTree
  <2>2. ASSUME T.lv[x] # 0, NEW j \in 1 .. Len(T.page[x].kids)
        PROVE  LET c == T.page[x].kids[j] IN c \in DOMAIN T.lo /\ c # l /\ c # r
    BY <2>2, OtherKids
  <2>3. T.lv[x] # 0 => KidsKept(T, U, T.page[x].kids, 1 .. Len(T.page[x].kids))
    BY <2>2, <1>0, SMTT(30) DEF KidsKept
  <2> QED BY <2>1, <2>3, <1>0, NodeFrame
<1>5. Fits(U, U.page[l], T.lo[l], T.hi[r], T.lv[l])
  <2> DEFINE n == U.page[l]
  <2>1. ASSUME T.lv[l] # 0 PROVE KidsKept(T, U, n.kids, 1 .. Len(n.kids))
    <3>1. /\ Len(n.kids) = Len(n.keys) + 1
          /\ Routes(T, Len(n.keys), n.keys, n.kids, T.lo[l], T.hi[r], T.lv[l])
      BY <2>1 DEF Fits
    <3>2. T.lv[l] \in Nat
      BY <1>1 DEF Good, Typed
    <3>3. ASSUME NEW j \in 1 .. Len(n.kids)
          PROVE  n.kids[j] \in DOMAIN T.lo /\ n.kids[j] # l /\ n.kids[j] # r
      <4>1. n.kids[j] \in DOMAIN T.up /\ T.lv[n.kids[j]] = T.lv[l] - 1
        BY <3>1 DEF Routes
      <4>2. T.lv[n.kids[j]] # T.lv[l] /\ T.lv[n.kids[j]] # T.lv[r]
        BY <4>1, <3>2, <1>1
      <4> QED BY <4>1, <4>2, <1>0
    <3> QED BY <3>3, <1>0 DEF KidsKept
  <2> QED BY <2>1, FitsFrame
<1>6. NodeOk(U, l, U.page[l])
  <2>1. Fits(U, U.page[l], U.lo[l], U.hi[l], U.lv[l])
    BY <1>1, <1>5
  <2>2. ASSUME T.lv[l] = 0 PROVE Link(U, T.page[r].next, T.hi[r])
    <3>1. Link(T, T.page[r].next, T.hi[r])
      BY <2>2, <1>1, LeafFacts
    <3>2. T.page[r].next # NoPage => T.page[r].next \in DOMAIN T.lo /\ T.page[r].next # r
      BY <3>1, <1>1 DEF Link
    <3> QED BY <3>1, <3>2, LinkFrame
  <2> QED BY <2>1, <2>2, <1>1 DEF NodeOk
<1> DEFINE keys == T.page[p].keys
           kids == T.page[p].kids
           n == Len(keys)
<1>8. /\ n \in Nat /\ Len(kids) = n + 1 /\ T.lo[p] \in Int /\ T.hi[p] \in Int
      /\ Routes(T, n, keys, kids, T.lo[p], T.hi[p], T.lv[p])
  BY InnerFacts
<1>9. /\ Len(nk) = n - 1 /\ Len(nc) = n /\ Removed(keys, n, i, nk)
      /\ Removed(kids, n + 1, i + 1, nc)
  OBVIOUS
<1>10. KidsKept(T, U, kids, (1 .. n + 1) \ {i, i + 1})
  <2>1. ASSUME NEW j \in (1 .. n + 1) \ {i, i + 1}
        PROVE  kids[j] \in DOMAIN T.lo /\ kids[j] # l /\ kids[j] # r
    BY OtherKids
  <2> QED BY <2>1, <1>0 DEF KidsKept
<1>11. Routes(U, n - 1, nk, nc, T.lo[p], T.hi[p], T.lv[p])
  <2>1. i \in 1 .. n /\ l = kids[i] /\ r = kids[i + 1]
    BY ZenonT(30) DEF Neighbours
  <2>2. l \in DOMAIN U.up /\ U.lv[l] = T.lv[l] /\ U.lo[l] = T.lo[l] /\ U.up[l] = T.up[r]
    BY <1>0, <1>1
  <2> HIDE DEF keys, kids, n
  <2> QED BY ONLY <1>8, <1>9, <1>10, <2>1, <2>2, RoutesDrop, ZenonT(30)
<1>12. NodeOk(U, p, U.page[p])
  <2>1. U.lo[p] = T.lo[p] /\ U.hi[p] = T.hi[p] /\ U.lv[p] = T.lv[p]
    BY <1>1
  <2>2. ~U.page[p].leaf /\ U.page[p].keys = nk /\ U.page[p].kids = nc
    BY DEF Inner
  <2>3. Len(nc) = Len(nk) + 1
    BY <1>8, <1>9
  <2>4. Routes(U, Len(nk), nk, nc, T.lo[p], T.hi[p], T.lv[p])
    BY <1>9, <1>11
  <2> QED BY <2>1, <2>2, <2>3, <2>4 DEF NodeOk, Fits
<1>13. Topped(U, top)
  <2>1. T.lv[p] \in Nat /\ T.lv[top] \in Nat /\ top \in DOMAIN T.up
    BY <1>1 DEF Good, Typed, Topped
  <2>2. T.lv[p] <= T.lv[top]
    BY <2>1, <1>0 DEF Topped
  <2>3. top # l /\ top # r
    BY <2>1, <2>2, <1>1
  <2> QED BY <2>3, <1>0 DEF Topped
<1> QED BY <1>0, <1>2, <1>4, <1>6, <1>12, <1>13 DEF Good

\* the only child of a root without keys takes its place
LEMMA DropTop ==
    ASSUME NEW T, Good(T), T.up = T.hi, NEW top, Topped(T, top), NEW U, Typed(U),
           T.lv[top] # 0, Len(T.page[top].keys) = 0, NEW k, k = T.page[top].kids[1],
           DOMAIN U.lo = DOMAIN T.lo \ {top}, U.up = U.hi, U.content = T.content,
           \A x \in DOMAIN U.lo : U.lo[x] = T.lo[x] /\ U.hi[x] = T.hi[x] /\ U.lv[x] = T.lv[x],
           \A x \in DOMAIN U.lo : U.page[x] = T.page[x]
    PROVE  Good(U) /\ Topped(U, k)
<1>0. DOMAIN U.up = DOMAIN T.lo \ {top} /\ DOMAIN T.up = DOMAIN T.lo /\ top \in DOMAIN T.lo
  BY DEF Good, Typed, Topped
<1>1. Apart(U)
  BY DEF Good, Apart
<1>2. \A x \in DOMAIN T.lo : T.lv[x] \in Nat /\ T.lv[x] <= T.lv[top]
  BY <1>0 DEF Good, Typed, Topped
<1>3. ASSUME NEW x \in DOMAIN U.lo PROVE NodeOk(U, x, U.page[x])
  <2>1. T.lv[x] = 0 /\ T.page[x].next # NoPage =>
            T.page[x].next \in DOMAIN T.lo /\ T.page[x].next # top
    BY NextInTree
  <2>2. ASSUME T.lv[x] # 0, NEW j \in 1 .. Len(T.page[x].kids)
        PROVE  LET c == T.page[x].kids[j] IN c \in DOMAIN T.lo /\ c # top
    <3> DEFINE c == T.page[x].kids[j]
    <3>1. c \in DOMAIN T.lo /\ T.lv[c] = T.lv[x] - 1
      BY <2>2, KidInTree
    <3> HIDE DEF c
    <3>2. T.lv[x] \in Nat /\ T.lv[top] \in Nat /\ T.lv[x] <= T.lv[top]
      BY <1>0, <1>2
    <3>3. c # top
      BY <3>1, <3>2
    <3> QED BY <3>1, <3>3 DEF c
  <2>3. T.lv[x] # 0 => KidsKept(T, U, T.page[x].kids, 1 .. Len(T.page[x].kids))
    BY <2>2, <1>0 DEF KidsKept
  <2> QED BY <2>1, <2>3, <1>0, NodeFrame
<1>4. /\ k \in DOMAIN T.lo /\ T.lv[k] = T.lv[top] - 1 /\ T.lo[k] = 1 /\ T.hi[k] = Beyond /\ k # top
  <2>1. Len(T.page[top].kids) = 1
    <3>1. Len(T.page[top].kids) = Len(T.page[top].keys) + 1
      BY <1>0, InnerFacts
    <3> QED BY <3>1
  <2>2. 1 \in 1 .. Len(T.page[top].kids) /\ 0 + 1 = 1
    BY <2>1
  <2>3. k \in DOMAIN T.lo /\ T.lv[k] = T.lv[top] - 1 /\ k # top
    <3>1. IsChild(T, top, 1, k)
      BY <1>0, <2>2, ChildIs
    <3> QED BY ONLY <3>1 DEF IsChild
  <2>4. T.lo[k] = T.lo[top]
    BY <1>0, <2>2, ChildFacts DEF IsChild
  <2>5. T.up[k] = T.hi[top]
    BY <1>0, <2>2, ChildFacts DEF IsChild
  <2> QED BY <2>3, <2>4, <2>5 DEF Topped
<1>5. Topped(U, k)
  <2>1. ASSUME NEW x \in DOMAIN U.lo \ {k} PROVE U.lv[x] < U.lv[k]
    <3>1. T.lv[x] < T.lv[top] /\ T.lv[x] \in Nat /\ T.lv[top] \in Nat
      BY <1>0, <1>2 DEF Topped
    <3>2. T.lv[x] # T.lv[k]
      <4>1. /\ 1 <= T.lo[x] /\ T.lo[x] < T.hi[x] /\ T.hi[x] <= Beyond /\ T.lo[x] \in Int
            /\ T.hi[x] \in Int
        BY DEF Good, Apart, Typed
      <4>2. Beyond \in Int
        BY KeysAssumption DEF Beyond
      <4>3. T.lv[x] = T.lv[k] => T.hi[x] <= 1 \/ Beyond <= T.lo[x]
        BY <1>4 DEF Good, Apart
      <4> QED BY <4>1, <4>2, <4>3
    <3>3. U.lv[x] = T.lv[x] /\ U.lv[k] = T.lv[k]
      BY <1>0, <1>4
    <3> QED BY ONLY <3>1, <3>2, <3>3, <1>4
  <2> QED BY <2>1, <1>0, <1>4 DEF Topped
<1> QED BY <1>0, <1>1, <1>3, <1>5 DEF Good

(***************************************************************************)
(* The writes of a node's work.                                            *)
(***************************************************************************)
LEMMA Calm ==
    ASSUME Inv, todo = <<>>
    PROVE  Ids \subseteq DOMAIN pages /\ Ahead = [id \in Ids |-> pages[id]]
<1>1. Len(todo) = 0
  OBVIOUS
<1>2. Ids \subseteq DOMAIN pages
  BY <1>1 DEF Inv, Pending
<1> QED BY <1>1, <1>2 DEF Ahead

LEMMA OneWrite ==
    ASSUME NEW a, NEW x, Perform(<<Write(a, x)>>), Ids' \subseteq DOMAIN pages \cup {a}
    PROVE  /\ todo' = <<>>
           /\ pages' = [id \in DOMAIN pages \cup {a} |-> IF id = a THEN x ELSE pages[id]]
           /\ Ahead' = [id \in Ids' |-> IF id = a THEN x ELSE pages[id]]
<1>1. pages' = [id \in DOMAIN pages \cup {a} |-> IF id = a THEN x ELSE pages[id]]
  BY DEF Perform, Put, Write
<1>2. todo' = <<>>
  BY DEF Perform
<1>3. Len(todo') = 0
  BY <1>2
<1> QED BY <1>1, <1>2, <1>3 DEF Ahead

\* pages that are not rewritten yet still show part of what they will hold
LEMMA DiskStep ==
    ASSUME NEW T, Good(T), NEW U, Good(U), NEW disk,
           \A id \in DOMAIN U.lo \cap DOMAIN disk : Early(T, U, id, disk[id])
    PROVE  DiskOk(U, disk)
<1> DEFINE Sorted(es) == \A i, j \in 1 .. Len(es) : i < j => es[i][1] < es[j][1]
<1>1. ASSUME NEW V, Good(V), NEW id \in DOMAIN V.lo
      PROVE  (V.page[id].leaf <=> V.lv[id] = 0) /\ (V.page[id].leaf => Sorted(V.page[id].entries))
  <2>1. V.lv[id] = 0 => V.page[id].leaf /\ Sorted(V.page[id].entries)
    BY <1>1, LeafFacts DEF Holds
  <2>2. V.lv[id] # 0 => ~V.page[id].leaf
    BY <1>1, InnerFacts
  <2> QED BY <2>1, <2>2
<1>2. ASSUME NEW id \in DOMAIN U.lo \cap DOMAIN disk
      PROVE  /\ disk[id].leaf <=> U.lv[id] = 0
             /\ disk[id].leaf =>
                   /\ disk[id].next = U.page[id].next /\ Sorted(disk[id].entries)
                   /\ Within(disk[id].entries, U.page[id].entries)
  <2> HIDE DEF Sorted
  <2>0. Within(U.page[id].entries, U.page[id].entries)
    BY DEF Within
  <2>1. CASE disk[id] = U.page[id]
    BY <2>0, <2>1, <1>1
  <2>2. CASE disk[id] # U.page[id]
    BY <2>2, <1>1 DEF Early
  <2> QED BY <2>1, <2>2
<1> QED BY <1>2 DEF DiskOk, Shows

(***************************************************************************)
(* Nodes that are cut in two, give to a neighbour, or are joined.          *)
(***************************************************************************)
LEMMA LeafParts ==
    ASSUME NEW es \in Seq(Entries), NEW to \in Nat
    PROVE  /\ Leaf(es, to) \in Nodes /\ Leaf(es, to).leaf /\ Leaf(es, to).entries = es
           /\ Leaf(es, to).next = to /\ Count(Leaf(es, to)) = Len(es)
<1>1. <<>> \in Seq(Separators) /\ <<>> \in Seq(PageIds)
  OBVIOUS
<1> QED BY <1>1 DEF Leaf, Nodes, Count

LEMMA InnerParts ==
    ASSUME NEW keys \in Seq(Separators), NEW kids \in Seq(PageIds)
    PROVE  /\ Inner(keys, kids) \in Nodes /\ ~Inner(keys, kids).leaf
           /\ Inner(keys, kids).keys = keys /\ Inner(keys, kids).kids = kids
           /\ Count(Inner(keys, kids)) = Len(keys)
<1>1. <<>> \in Seq(Entries) /\ NoPage \in Nat
  BY DEF NoPage
<1> QED BY <1>1 DEF Inner, Nodes, Count

LEMMA NodeParts ==
    ASSUME NEW n \in Nodes
    PROVE  /\ n.leaf \in BOOLEAN /\ n.entries \in Seq(Entries) /\ n.next \in Nat
           /\ n.keys \in Seq(Separators) /\ n.kids \in Seq(PageIds)
           /\ Len(n.entries) \in Nat /\ Len(n.keys) \in Nat /\ Len(n.kids) \in Nat
           /\ Count(n) \in Nat
           /\ n.leaf => Count(n) = Len(n.entries)
           /\ ~n.leaf => Count(n) = Len(n.keys)
<1>1. /\ n.leaf \in BOOLEAN /\ n.entries \in Seq(Entries) /\ n.next \in Nat
      /\ n.keys \in Seq(Separators) /\ n.kids \in Seq(PageIds)
  BY DEF Nodes
<1>2. Len(n.entries) \in Nat /\ Len(n.keys) \in Nat /\ Len(n.kids) \in Nat
  BY <1>1, LenProperties
<1> QED BY <1>1, <1>2 DEF Count

LEMMA LastAndFirst ==
    ASSUME NEW S, NEW s \in Seq(S), Len(s) >= 1
    PROVE  /\ DropLast(s) \in Seq(S) /\ Len(DropLast(s)) = Len(s) - 1
           /\ Slice(s, 0, Len(s) - 1, DropLast(s))
           /\ <<Last(s)>> \in Seq(S) /\ Len(<<Last(s)>>) = 1 /\ Slice(s, Len(s) - 1, 1, <<Last(s)>>)
           /\ Last(s) = s[Len(s)] /\ Last(s) \in S
           /\ <<Head(s)>> \in Seq(S) /\ Len(<<Head(s)>>) = 1 /\ Slice(s, 0, 1, <<Head(s)>>)
           /\ Head(s) = s[1] /\ Head(s) \in S
           /\ Tail(s) \in Seq(S) /\ Len(Tail(s)) = Len(s) - 1 /\ Slice(s, 1, Len(s) - 1, Tail(s))
<1> DEFINE n == Len(s)
<1>1. n \in Nat /\ n >= 1 /\ s[1] \in S /\ s[n] \in S /\ s # <<>>
  BY LenProperties, ElementOfSeq
<1>2. Last(s) = s[n] /\ Head(s) = s[1]
  BY <1>1, HeadTailProperties DEF Last
<1>3. /\ <<s[n]>> \in Seq(S) /\ Len(<<s[n]>>) = 1 /\ <<s[n]>>[1] = s[n]
      /\ <<s[1]>> \in Seq(S) /\ Len(<<s[1]>>) = 1 /\ <<s[1]>>[1] = s[1]
  BY <1>1
<1>4. Slice(s, n - 1, 1, <<s[n]>>) /\ Slice(s, 0, 1, <<s[1]>>)
  BY <1>1, <1>3 DEF Slice
<1>5. DropLast(s) \in Seq(S) /\ Len(DropLast(s)) = n - 1 /\ Slice(s, 0, n - 1, DropLast(s))
  <2>1. n - 1 \in 0 .. Len(s) /\ Len(s) + 1 \in (n - 1) + 1 .. Len(s) + 1
    BY <1>1
  <2>2. /\ SubSeq(s, 1, n - 1) \in Seq(S) /\ Len(SubSeq(s, 1, n - 1)) = n - 1
        /\ Slice(s, 0, n - 1, SubSeq(s, 1, n - 1))
    BY <2>1, Slices
  <2> QED BY <2>2 DEF DropLast
<1>6. Tail(s) \in Seq(S) /\ Len(Tail(s)) = n - 1 /\ \A i \in 1 .. n - 1 : Tail(s)[i] = s[i + 1]
  BY <1>1, HeadTailProperties
<1>7. Slice(s, 1, n - 1, Tail(s))
  <2>1. ASSUME NEW i \in 1 .. n - 1 PROVE Tail(s)[i] = s[1 + i]
    <3>1. i + 1 = 1 + i
      OBVIOUS
    <3> QED BY <3>1, <1>6
  <2> QED BY <2>1 DEF Slice
<1> QED BY <1>1, <1>2, <1>3, <1>4, <1>5, <1>6, <1>7

LEMMA Prefixed ==
    ASSUME NEW S, NEW s \in Seq(S), NEW e \in S, NEW t, t = <<e>> \o s
    PROVE  /\ t \in Seq(S) /\ Len(t) = 1 + Len(s) /\ t[1] = e
           /\ Slice(t, 0, 1, <<e>>) /\ Slice(t, 1, Len(s), s)
<1>1. <<e>> \in Seq(S) /\ Len(<<e>>) = 1 /\ <<e>>[1] = e
  OBVIOUS
<1>2. /\ <<e>> \o s \in Seq(S) /\ Len(<<e>> \o s) = Len(<<e>>) + Len(s)
      /\ Slice(<<e>> \o s, 0, Len(<<e>>), <<e>>) /\ Slice(<<e>> \o s, Len(<<e>>), Len(s), s)
  BY <1>1, Joins
<1>3. /\ t \in Seq(S) /\ Len(t) = 1 + Len(s)
      /\ Slice(t, 0, 1, <<e>>) /\ Slice(t, 1, Len(s), s)
  BY <1>1, <1>2
<1>4. t[0 + 1] = <<e>>[1]
  BY <1>3 DEF Slice
<1> QED BY <1>1, <1>3, <1>4

LEMMA Appended ==
    ASSUME NEW S, NEW s \in Seq(S), NEW e \in S, NEW t, t = Append(s, e)
    PROVE  /\ t \in Seq(S) /\ Len(t) = Len(s) + 1 /\ t[Len(s) + 1] = e
           /\ Slice(t, 0, Len(s), s) /\ Slice(t, Len(s), 1, <<e>>)
<1>1. <<e>> \in Seq(S) /\ Len(<<e>>) = 1 /\ <<e>>[1] = e /\ Len(s) \in Nat
  OBVIOUS
<1>2. /\ t \in Seq(S) /\ Len(t) = Len(s) + 1 /\ t[Len(s) + 1] = e
      /\ \A i \in 1 .. Len(s) : t[i] = s[i]
  BY AppendProperties
<1> QED BY <1>1, <1>2 DEF Slice

\* a full leaf is cut
LEMMA LeafCut ==
    ASSUME NEW T, T.content \in SUBSET Entries, NEW n \in Nodes, NEW lo \in Int, NEW hi \in Int,
           Fits(T, n, lo, hi, 0), NEW h \in 1 .. Len(n.entries) - 1,
           NEW k, k = n.entries[h + 1][1], NEW a \in Nat, NEW b \in Nat,
           NEW l, l = Leaf(SubSeq(n.entries, 1, h), a),
           NEW r, r = Leaf(SubSeq(n.entries, h + 1, Len(n.entries)), b)
    PROVE  /\ k \in Int /\ lo < k /\ k < hi
           /\ l \in Nodes /\ Fits(T, l, lo, k, 0) /\ Count(l) = h /\ l.next = a
           /\ r \in Nodes /\ Fits(T, r, k, hi, 0) /\ Count(r) = Len(n.entries) - h /\ r.next = b
<1> DEFINE le == SubSeq(n.entries, 1, h)
           re == SubSeq(n.entries, h + 1, Len(n.entries))
<1>1. n.entries \in Seq(Entries)
  BY NodeParts
<1>2. Holds(n.entries, lo, hi, T.content)
  BY DEF Fits
<1>3. /\ le \in Seq(Entries) /\ Len(le) = h /\ Slice(n.entries, 0, h, le)
      /\ re \in Seq(Entries) /\ Len(re) = Len(n.entries) - h
      /\ Slice(n.entries, h, Len(n.entries) - h, re)
  <2> DEFINE es == n.entries
             g == h + 1
  <2>1. es \in Seq(Entries) /\ Len(es) \in Nat /\ h \in 0 .. Len(es) /\ g \in h + 1 .. Len(es) + 1
    BY <1>1
  <2>2. /\ Len(es) + 1 - g = Len(es) - h /\ g - 1 = h
    <3>1. h \in Int /\ g = h + 1
      OBVIOUS
    <3> HIDE DEF es, g
    <3> QED BY ONLY <2>1, <3>1
  <2>3. le = SubSeq(es, 1, h) /\ re = SubSeq(es, g, Len(es))
    OBVIOUS
  <2> HIDE DEF g, es, le, re
  <2>4. /\ SubSeq(es, 1, h) \in Seq(Entries) /\ Len(SubSeq(es, 1, h)) = h
        /\ Slice(es, 0, h, SubSeq(es, 1, h))
        /\ SubSeq(es, g, Len(es)) \in Seq(Entries)
        /\ Len(SubSeq(es, g, Len(es))) = Len(es) + 1 - g
        /\ Slice(es, g - 1, Len(es) + 1 - g, SubSeq(es, g, Len(es)))
    BY ONLY <2>1, Slices
  <2>5. /\ le \in Seq(Entries) /\ Len(le) = h /\ Slice(es, 0, h, le)
        /\ re \in Seq(Entries) /\ Len(re) = Len(es) - h /\ Slice(es, h, Len(es) - h, re)
    BY ONLY <2>2, <2>3, <2>4
  <2> QED BY <2>5 DEF es
<1>6. k \in Int /\ lo < k /\ k < hi /\ Holds(le, lo, k, T.content) /\ Holds(re, k, hi, T.content)
  <2> DEFINE es == n.entries
             C == T.content
  <2>1. /\ es \in Seq(Entries) /\ Holds(es, lo, hi, C) /\ h \in 1 .. Len(es) - 1
        /\ k = es[h + 1][1] /\ lo \in Int /\ hi \in Int /\ C \in SUBSET Entries
        /\ le \in Seq(Entries) /\ Len(le) = h /\ Slice(es, 0, h, le)
        /\ re \in Seq(Entries) /\ Len(re) = Len(es) - h /\ Slice(es, h, Len(es) - h, re)
    BY <1>1, <1>2, <1>3
  <2> HIDE DEF le, re, es, C
  <2>2. k \in Int /\ lo < k /\ k < hi /\ Holds(le, lo, k, C) /\ Holds(re, k, hi, C)
    BY ONLY <2>1, HoldsCut
  <2> QED BY <2>2 DEF C
<1>4. /\ l \in Nodes /\ l.leaf /\ l.entries = le /\ l.next = a /\ Count(l) = h
      /\ r \in Nodes /\ r.leaf /\ r.entries = re /\ r.next = b /\ Count(r) = Len(n.entries) - h
  BY <1>3, LeafParts
<1> QED BY <1>3, <1>4, <1>6 DEF Fits

\* node n is cut in l and r, its key mid + 1, which is k, in neither
InnerHalves(n, mid, l, r, k) ==
    /\ mid \in 0 .. Len(n.keys) - 1 /\ k = n.keys[mid + 1]
    /\ l = Inner(SubSeq(n.keys, 1, mid), SubSeq(n.kids, 1, mid + 1))
    /\ r = Inner(SubSeq(n.keys, mid + 2, Len(n.keys)), SubSeq(n.kids, mid + 2, Len(n.kids)))

\* l and r, pages of level lv, divide what n has of lo .. hi - 1
InnerParted(T, n, lo, hi, lv, mid, l, r, k) ==
    /\ k \in Int /\ lo < k /\ k < hi
    /\ l \in Nodes /\ Fits(T, l, lo, k, lv) /\ Count(l) = mid
    /\ r \in Nodes /\ Fits(T, r, k, hi, lv) /\ Count(r) = Len(n.keys) - mid - 1

\* a full inner node is cut, its middle key moves up
LEMMA InnerCut ==
    ASSUME NEW T, NEW n \in Nodes, NEW lo \in Int, NEW hi \in Int, NEW lv \in Nat \ {0},
           Fits(T, n, lo, hi, lv), NEW mid, NEW l, NEW r, NEW k, InnerHalves(n, mid, l, r, k)
    PROVE  InnerParted(T, n, lo, hi, lv, mid, l, r, k)
<1>0. /\ mid \in 0 .. Len(n.keys) - 1 /\ k = n.keys[mid + 1]
      /\ l = Inner(SubSeq(n.keys, 1, mid), SubSeq(n.kids, 1, mid + 1))
      /\ r = Inner(SubSeq(n.keys, mid + 2, Len(n.keys)), SubSeq(n.kids, mid + 2, Len(n.kids)))
  BY DEF InnerHalves
<1> DEFINE lk == SubSeq(n.keys, 1, mid)
           lc == SubSeq(n.kids, 1, mid + 1)
           rk == SubSeq(n.keys, mid + 2, Len(n.keys))
           rc == SubSeq(n.kids, mid + 2, Len(n.kids))
<1>1. /\ n.keys \in Seq(Separators) /\ n.kids \in Seq(PageIds) /\ Len(n.keys) \in Nat
      /\ Len(n.kids) = Len(n.keys) + 1 /\ Routes(T, Len(n.keys), n.keys, n.kids, lo, hi, lv)
  BY <1>0, NodeParts DEF Fits
<1>2. /\ lk \in Seq(Separators) /\ Len(lk) = mid /\ Slice(n.keys, 0, mid, lk)
      /\ rk \in Seq(Separators) /\ Len(rk) = Len(n.keys) + 1 - (mid + 2)
      /\ Slice(n.keys, mid + 2 - 1, Len(n.keys) + 1 - (mid + 2), rk)
  <2>1. mid \in 0 .. Len(n.keys) /\ mid + 2 \in mid + 1 .. Len(n.keys) + 1
    BY <1>0, <1>1
  <2> QED BY <2>1, <1>1, Slices, SMTT(30)
<1>3. /\ lc \in Seq(PageIds) /\ Len(lc) = mid + 1 /\ Slice(n.kids, 0, mid + 1, lc)
      /\ rc \in Seq(PageIds) /\ Len(rc) = Len(n.keys) - mid
      /\ Slice(n.kids, mid + 1, Len(n.keys) - mid, rc)
  <2> DEFINE h == mid + 1
             g == mid + 2
  <2>1. h \in 0 .. Len(n.kids) /\ g \in h + 1 .. Len(n.kids) + 1
    BY <1>0, <1>1
  <2>2. n.kids \in Seq(PageIds)
    BY <1>1
  <2> HIDE DEF h, g
  <2>3. /\ SubSeq(n.kids, 1, h) \in Seq(PageIds) /\ Len(SubSeq(n.kids, 1, h)) = h
        /\ Slice(n.kids, 0, h, SubSeq(n.kids, 1, h))
        /\ SubSeq(n.kids, g, Len(n.kids)) \in Seq(PageIds)
        /\ Len(SubSeq(n.kids, g, Len(n.kids))) = Len(n.kids) + 1 - g
        /\ Slice(n.kids, g - 1, Len(n.kids) + 1 - g, SubSeq(n.kids, g, Len(n.kids)))
    BY ONLY <2>1, <2>2, Slices
  <2>4. lc = SubSeq(n.kids, 1, h) /\ rc = SubSeq(n.kids, g, Len(n.kids))
    BY DEF h, g
  <2> HIDE DEF lc, rc
  <2>5. /\ lc \in Seq(PageIds) /\ Len(lc) = h /\ Slice(n.kids, 0, h, lc)
        /\ rc \in Seq(PageIds) /\ Len(rc) = Len(n.kids) + 1 - g
        /\ Slice(n.kids, g - 1, Len(n.kids) + 1 - g, rc)
    BY ONLY <2>3, <2>4
  <2>6. h = mid + 1 /\ g - 1 = mid + 1 /\ Len(n.kids) + 1 - g = Len(n.keys) - mid
    BY <1>0, <1>1 DEF g, h
  <2> QED BY ONLY <2>5, <2>6
<1> HIDE DEF lk, lc, rk, rc
<1>4. /\ mid + 2 - 1 = mid + 1 /\ Len(n.keys) + 1 - (mid + 2) = Len(n.keys) - mid - 1
  BY <1>0, <1>1
<1>5. /\ Slice(n.keys, mid + 1, Len(n.keys) - mid - 1, rk)
      /\ Slice(n.kids, mid + 1, Len(n.keys) - mid, rc)
      /\ Len(rk) = Len(n.keys) - mid - 1 /\ Len(rc) = Len(n.keys) - mid
  BY <1>0, <1>2, <1>3, <1>4
<1>6. /\ k \in Int /\ lo < k /\ k < hi
      /\ Routes(T, mid, lk, lc, lo, k, lv) /\ Routes(T, Len(n.keys) - mid - 1, rk, rc, k, hi, lv)
  <2> DEFINE keys == n.keys
             kids == n.kids
             m == Len(n.keys)
  <2>1. /\ m \in Nat /\ Routes(T, m, keys, kids, lo, hi, lv) /\ mid \in 0 .. m - 1
        /\ lo \in Int /\ hi \in Int /\ k = keys[mid + 1]
        /\ Slice(keys, 0, mid, lk) /\ Slice(kids, 0, mid + 1, lc)
        /\ Slice(keys, mid + 1, m - mid - 1, rk) /\ Slice(kids, mid + 1, m - mid, rc)
    BY <1>0, <1>1, <1>2, <1>3, <1>5
  <2> HIDE DEF keys, kids, m
  <2>2. /\ k \in Int /\ lo < k /\ k < hi
        /\ Routes(T, mid, lk, lc, lo, k, lv) /\ Routes(T, m - mid - 1, rk, rc, k, hi, lv)
    BY ONLY <2>1, RoutesCut
  <2> QED BY <2>2 DEF m
<1>7. /\ l \in Nodes /\ ~l.leaf /\ l.keys = lk /\ l.kids = lc /\ Count(l) = mid
      /\ r \in Nodes /\ ~r.leaf /\ r.keys = rk /\ r.kids = rc /\ Count(r) = Len(n.keys) - mid - 1
  BY <1>0, <1>2, <1>3, <1>5, InnerParts DEF lk, lc, rk, rc
<1>8. Len(rc) = Len(rk) + 1
  BY <1>0, <1>1, <1>5
<1>9. Fits(T, l, lo, k, lv)
  BY <1>2, <1>3, <1>6, <1>7 DEF Fits
<1>10. Fits(T, r, k, hi, lv)
  BY <1>5, <1>8, <1>6, <1>7 DEF Fits
<1> QED BY <1>6, <1>7, <1>9, <1>10 DEF InnerParted

\* What a neighbour gives: l and r hold the keys from lo to m and from m to hi, and
\* after the exchange g is the node that gave, t the one that took.
GaveRight(T, l, r, lo, hi, lv, k, g, t) ==
    /\ k \in Int /\ lo < k /\ k < hi
    /\ g \in Nodes /\ Fits(T, g, lo, k, lv) /\ Count(g) = Count(l) - 1
    /\ t \in Nodes /\ Fits(T, t, k, hi, lv) /\ Count(t) = Count(r) + 1
    /\ lv = 0 => g.next = l.next /\ t.next = r.next /\ Within(r.entries, t.entries)

LEMMA LeafGivesRight ==
    ASSUME NEW T, T.content \in SUBSET Entries, NEW l \in Nodes, NEW r \in Nodes,
           NEW lo \in Int, NEW m \in Int, NEW hi \in Int, m < hi,
           Fits(T, l, lo, m, 0), Fits(T, r, m, hi, 0), Count(l) > 1,
           NEW k, k = Last(l.entries)[1]
    PROVE  GaveRight(T, l, r, lo, hi, 0, k, LeftGives(l), TakesFromLeft(r, l, m))
<1> DEFINE es == l.entries
           fs == r.entries
           n == Len(es)
           h == n - 1
           de == DropLast(es)
           le == <<Last(es)>>
           te == le \o fs
           C == T.content
<1>1. /\ es \in Seq(Entries) /\ fs \in Seq(Entries) /\ n \in Nat /\ Len(fs) \in Nat /\ n > 1
      /\ l.leaf /\ r.leaf /\ l.next \in Nat /\ r.next \in Nat /\ Count(l) = n /\ Count(r) = Len(fs)
      /\ Holds(es, lo, m, C) /\ Holds(fs, m, hi, C)
  BY NodeParts DEF Fits
<1>2. /\ de \in Seq(Entries) /\ Len(de) = h /\ Slice(es, 0, h, de)
      /\ le \in Seq(Entries) /\ Len(le) = 1 /\ Slice(es, h, 1, le)
      /\ Last(es) = es[n] /\ Last(es) \in Entries
  <2>1. Len(es) >= 1
    BY <1>1
  <2> HIDE DEF es
  <2> QED BY ONLY <2>1, <1>1, LastAndFirst
<1>3. /\ te \in Seq(Entries) /\ Len(te) = 1 + Len(fs)
      /\ Slice(te, 0, 1, le) /\ Slice(te, 1, Len(fs), fs)
  <2> DEFINE e == Last(es)
  <2>1. te = <<e>> \o fs /\ le = <<e>> /\ e \in Entries /\ fs \in Seq(Entries)
    BY <1>1, <1>2
  <2> HIDE DEF te, fs, le, e
  <2>2. /\ te \in Seq(Entries) /\ Len(te) = 1 + Len(fs)
        /\ Slice(te, 0, 1, <<e>>) /\ Slice(te, 1, Len(fs), fs)
    BY ONLY <2>1, Prefixed
  <2> QED BY ONLY <2>1, <2>2
<1>4. h \in 1 .. Len(es) - 1 /\ k = es[h + 1][1] /\ Len(es) - h = 1
  <2>1. h + 1 = n
    BY <1>1
  <2> QED BY <1>1, <1>2, <2>1
<1> HIDE DEF es, fs, n, h, de, le, te, C
<1>5. C \in SUBSET Entries
  BY DEF C
<1>6. k \in Int /\ lo < k /\ k < m /\ Holds(de, lo, k, C) /\ Holds(le, k, m, C)
  <2>1. lo \in Int /\ m \in Int
    OBVIOUS
  <2>2. Len(le) = Len(es) - h /\ Slice(es, h, Len(es) - h, le)
    BY <1>2, <1>4
  <2>3. es \in Seq(Entries) /\ Holds(es, lo, m, C)
    BY <1>1
  <2> QED BY ONLY <2>1, <2>2, <2>3, <1>2, <1>4, <1>5, HoldsCut
<1>7. Holds(te, k, hi, C)
  <2>1. k <= m /\ m <= hi /\ m \in Int /\ hi \in Int /\ k \in Int
    BY <1>6
  <2>2. Len(te) = Len(le) + Len(fs) /\ Slice(te, 0, Len(le), le) /\ Slice(te, Len(le), Len(fs), fs)
    BY <1>2, <1>3
  <2> QED BY ONLY <2>1, <2>2, <1>1, <1>2, <1>3, <1>5, <1>6, HoldsJoin
<1>8. Within(fs, te)
  <2>1. ASSUME NEW i \in 1 .. Len(fs) PROVE 1 + i \in 1 .. Len(te) /\ te[1 + i] = fs[i]
    BY <1>1, <1>3 DEF Slice
  <2> QED BY <2>1 DEF Within
<1>9. LeftGives(l) = Leaf(de, l.next) /\ TakesFromLeft(r, l, m) = Leaf(te, r.next)
  BY <1>1 DEF LeftGives, TakesFromLeft, de, te, le, es, fs
<1>10. /\ Leaf(de, l.next) \in Nodes /\ Leaf(de, l.next).leaf /\ Leaf(de, l.next).entries = de
       /\ Leaf(de, l.next).next = l.next /\ Count(Leaf(de, l.next)) = h
  BY <1>1, <1>2, LeafParts
<1>11. /\ Leaf(te, r.next) \in Nodes /\ Leaf(te, r.next).leaf /\ Leaf(te, r.next).entries = te
       /\ Leaf(te, r.next).next = r.next /\ Count(Leaf(te, r.next)) = 1 + Len(fs)
  BY <1>1, <1>3, LeafParts
<1>12. h = Count(l) - 1 /\ 1 + Len(fs) = Count(r) + 1
  BY <1>1 DEF h
<1>13. Fits(T, Leaf(de, l.next), lo, k, 0) /\ Fits(T, Leaf(te, r.next), k, hi, 0)
  BY <1>6, <1>7, <1>10, <1>11 DEF Fits, C
<1>14. k \in Int /\ lo < k /\ k < hi
  BY <1>6
<1>15. Within(r.entries, Leaf(te, r.next).entries)
  BY <1>8, <1>11 DEF fs
<1> QED BY <1>9, <1>10, <1>11, <1>12, <1>13, <1>14, <1>15 DEF GaveRight

LEMMA InnerGivesRight ==
    ASSUME NEW T, NEW l \in Nodes, NEW r \in Nodes, NEW lv \in Nat \ {0},
           NEW lo \in Int, NEW m \in Int, NEW hi \in Int, m < hi,
           Fits(T, l, lo, m, lv), Fits(T, r, m, hi, lv), Count(l) > 1,
           NEW k, k = Last(l.keys)
    PROVE  GaveRight(T, l, r, lo, hi, lv, k, LeftGives(l), TakesFromLeft(r, l, m))
<1> DEFINE lk == l.keys
           lc == l.kids
           rk == r.keys
           rc == r.kids
           n == Len(lk)
           b == Len(rk)
           h == n - 1
           dk == DropLast(lk)
           dc == DropLast(lc)
           one == <<Last(lc)>>
           tk == <<m>> \o rk
           tc == one \o rc
<1>1. /\ lk \in Seq(Separators) /\ lc \in Seq(PageIds) /\ n \in Nat /\ n > 1 /\ Len(lc) = n + 1
      /\ rk \in Seq(Separators) /\ rc \in Seq(PageIds) /\ b \in Nat /\ Len(rc) = b + 1
      /\ ~l.leaf /\ ~r.leaf /\ Count(l) = n /\ Count(r) = b
      /\ Routes(T, n, lk, lc, lo, m, lv) /\ Routes(T, b, rk, rc, m, hi, lv)
  BY NodeParts DEF Fits
<1>0. m \in Separators
  BY DEF Separators
<1>2. /\ dk \in Seq(Separators) /\ Len(dk) = h /\ Slice(lk, 0, h, dk) /\ Last(lk) = lk[n]
  <2>1. Len(lk) >= 1
    BY <1>1
  <2> HIDE DEF lk
  <2> QED BY ONLY <2>1, <1>1, LastAndFirst
<1>3. /\ dc \in Seq(PageIds) /\ Len(dc) = n /\ Slice(lc, 0, n, dc)
      /\ one \in Seq(PageIds) /\ Slice(lc, n, 1, one) /\ Last(lc) \in PageIds
  <2>1. Len(lc) >= 1 /\ Len(lc) - 1 = n
    BY <1>1
  <2> HIDE DEF lc, n
  <2>2. /\ dc \in Seq(PageIds) /\ Len(dc) = Len(lc) - 1 /\ Slice(lc, 0, Len(lc) - 1, dc)
        /\ one \in Seq(PageIds) /\ Slice(lc, Len(lc) - 1, 1, one) /\ Last(lc) \in PageIds
    BY ONLY <2>1, <1>1, LastAndFirst
  <2> QED BY ONLY <2>1, <2>2
<1>4. /\ tk \in Seq(Separators) /\ Len(tk) = 1 + b /\ tk[1] = m /\ Slice(tk, 1, b, rk)
  <2> DEFINE e == m
  <2>1. /\ tk = <<e>> \o rk /\ b = Len(rk) /\ e = m
        /\ e \in Separators /\ rk \in Seq(Separators)
    BY <1>0, <1>1
  <2> HIDE DEF tk, rk, b, e
  <2>2. /\ tk \in Seq(Separators) /\ Len(tk) = 1 + Len(rk)
        /\ Slice(tk, 0, 1, <<e>>) /\ Slice(tk, 1, Len(rk), rk)
    BY ONLY <2>1, Prefixed
  <2>3. tk[0 + 1] = <<e>>[1] /\ <<e>>[1] = e /\ 0 + 1 = 1
    BY ONLY <2>2 DEF Slice
  <2> QED BY ONLY <2>1, <2>2, <2>3
<1>5. /\ tc \in Seq(PageIds) /\ Len(tc) = 1 + Len(rc)
      /\ Slice(tc, 0, 1, one) /\ Slice(tc, 1, Len(rc), rc)
  <2> DEFINE e == Last(lc)
  <2>1. tc = <<e>> \o rc /\ one = <<e>> /\ e \in PageIds /\ rc \in Seq(PageIds)
    BY <1>1, <1>3
  <2> HIDE DEF tc, rc, one, e
  <2>2. /\ tc \in Seq(PageIds) /\ Len(tc) = 1 + Len(rc)
        /\ Slice(tc, 0, 1, <<e>>) /\ Slice(tc, 1, Len(rc), rc)
    BY ONLY <2>1, Prefixed
  <2> QED BY ONLY <2>1, <2>2
<1>6. h \in 0 .. n - 1 /\ k = lk[h + 1] /\ h + 1 = n /\ n - h - 1 = 0 /\ n - h = 1
  <2>1. h + 1 = n
    BY <1>1
  <2> QED BY <1>1, <1>2, <2>1
<1> HIDE DEF lk, lc, rk, rc, n, b, h, dk, dc, one, tk, tc
<1>7. /\ k \in Int /\ lo < k /\ k < m
      /\ Routes(T, h, dk, dc, lo, k, lv) /\ Routes(T, 0, <<>>, one, k, m, lv)
  <2>1. /\ n \in Nat /\ lo \in Int /\ m \in Int /\ h \in 0 .. n - 1 /\ k = lk[h + 1]
        /\ Routes(T, n, lk, lc, lo, m, lv)
    BY <1>1, <1>6
  <2>2. /\ Slice(lk, 0, h, dk) /\ Slice(lc, 0, h + 1, dc)
        /\ Slice(lc, h + 1, n - h, one)
    BY <1>2, <1>3, <1>6
  <2>3. Slice(lk, h + 1, n - h - 1, <<>>)
    BY <1>6 DEF Slice
  <2>4. /\ k \in Int /\ lo < k /\ k < m
        /\ Routes(T, h, dk, dc, lo, k, lv) /\ Routes(T, n - h - 1, <<>>, one, k, m, lv)
    BY ONLY <2>1, <2>2, <2>3, RoutesCut
  <2> QED BY <2>4, <1>6
<1>8. Routes(T, 0 + 1 + b, tk, tc, k, hi, lv)
  <2>1. k < m /\ m < hi /\ k \in Int /\ m \in Int /\ hi \in Int /\ 0 \in Nat /\ b \in Nat
    BY <1>1, <1>7
  <2>2. Slice(tk, 0, 0, <<>>)
    BY DEF Slice
  <2>3. /\ tk[0 + 1] = m /\ Slice(tk, 0 + 1, b, rk)
        /\ Slice(tc, 0, 0 + 1, one) /\ Slice(tc, 0 + 1, b + 1, rc)
    BY <1>1, <1>4, <1>5
  <2> QED BY ONLY <2>1, <2>2, <2>3, <1>1, <1>7, RoutesJoin
<1>9. LeftGives(l) = Inner(dk, dc) /\ TakesFromLeft(r, l, m) = Inner(tk, tc)
  BY <1>1 DEF LeftGives, TakesFromLeft, dk, dc, tk, tc, lk, lc, rk, rc, one
<1>10. /\ Inner(dk, dc) \in Nodes /\ ~Inner(dk, dc).leaf /\ Inner(dk, dc).keys = dk
       /\ Inner(dk, dc).kids = dc /\ Count(Inner(dk, dc)) = h
  BY <1>2, <1>3, InnerParts
<1>11. /\ Inner(tk, tc) \in Nodes /\ ~Inner(tk, tc).leaf /\ Inner(tk, tc).keys = tk
       /\ Inner(tk, tc).kids = tc /\ Count(Inner(tk, tc)) = 1 + b
  BY <1>4, <1>5, InnerParts
<1>12. /\ h = Count(l) - 1 /\ 1 + b = Count(r) + 1 /\ Len(dc) = Len(dk) + 1
       /\ Len(tc) = Len(tk) + 1 /\ 0 + 1 + b = 1 + b
  BY <1>1, <1>2, <1>3, <1>4, <1>5, <1>6 DEF h
<1>13. Fits(T, Inner(dk, dc), lo, k, lv)
  BY <1>2, <1>7, <1>10, <1>12 DEF Fits
<1>14. Fits(T, Inner(tk, tc), k, hi, lv)
  BY <1>4, <1>8, <1>11, <1>12 DEF Fits
<1>15. k \in Int /\ lo < k /\ k < hi
  BY <1>7
<1> QED BY <1>9, <1>10, <1>11, <1>12, <1>13, <1>14, <1>15 DEF GaveRight

GaveLeft(T, l, r, lo, hi, lv, k, g, t) ==
    /\ k \in Int /\ lo < k /\ k < hi
    /\ g \in Nodes /\ Fits(T, g, k, hi, lv) /\ Count(g) = Count(r) - 1
    /\ t \in Nodes /\ Fits(T, t, lo, k, lv) /\ Count(t) = Count(l) + 1
    /\ lv = 0 => g.next = r.next /\ t.next = l.next /\ Within(l.entries, t.entries)

LEMMA LeafGivesLeft ==
    ASSUME NEW T, T.content \in SUBSET Entries, NEW l \in Nodes, NEW r \in Nodes,
           NEW lo \in Int, NEW m \in Int, NEW hi \in Int, lo < m,
           Fits(T, l, lo, m, 0), Fits(T, r, m, hi, 0), Count(r) > 1,
           NEW k, k = r.entries[2][1]
    PROVE  GaveLeft(T, l, r, lo, hi, 0, k, RightGives(r), TakesFromRight(l, r, m))
<1> DEFINE es == l.entries
           fs == r.entries
           n == Len(es)
           b == Len(fs)
           df == Tail(fs)
           fe == <<Head(fs)>>
           te == Append(es, Head(fs))
           C == T.content
<1>1. /\ es \in Seq(Entries) /\ fs \in Seq(Entries) /\ n \in Nat /\ b \in Nat /\ b > 1
      /\ l.leaf /\ r.leaf /\ l.next \in Nat /\ r.next \in Nat /\ Count(l) = n /\ Count(r) = b
      /\ Holds(es, lo, m, C) /\ Holds(fs, m, hi, C)
  BY NodeParts DEF Fits
<1>2. /\ df \in Seq(Entries) /\ Len(df) = b - 1 /\ Slice(fs, 1, b - 1, df)
      /\ fe \in Seq(Entries) /\ Len(fe) = 1 /\ Slice(fs, 0, 1, fe) /\ Head(fs) \in Entries
  <2>1. Len(fs) >= 1
    BY <1>1
  <2> HIDE DEF fs
  <2> QED BY ONLY <2>1, <1>1, LastAndFirst
<1>3. /\ te \in Seq(Entries) /\ Len(te) = n + 1
      /\ Slice(te, 0, n, es) /\ Slice(te, n, 1, fe)
  <2> DEFINE e == Head(fs)
  <2>1. te = Append(es, e) /\ fe = <<e>> /\ e \in Entries /\ es \in Seq(Entries) /\ n = Len(es)
    BY <1>1, <1>2
  <2> HIDE DEF te, es, fe, e, n
  <2>2. /\ te \in Seq(Entries) /\ Len(te) = Len(es) + 1
        /\ Slice(te, 0, Len(es), es) /\ Slice(te, Len(es), 1, <<e>>)
    BY ONLY <2>1, Appended
  <2> QED BY ONLY <2>1, <2>2
<1>4. 1 \in 1 .. Len(fs) - 1 /\ k = fs[1 + 1][1]
  <2>1. 1 + 1 = 2
    OBVIOUS
  <2> QED BY <1>1, <2>1
<1>0. b = Len(fs) /\ n = Len(es)
  OBVIOUS
<1> HIDE DEF es, fs, n, b, df, fe, te, C
<1>5. C \in SUBSET Entries
  BY DEF C
<1>6. k \in Int /\ m < k /\ k < hi /\ Holds(fe, m, k, C) /\ Holds(df, k, hi, C)
  <2> DEFINE h == 1
  <2>1. /\ hi \in Int /\ m \in Int /\ fs \in Seq(Entries) /\ Holds(fs, m, hi, C)
        /\ C \in SUBSET Entries /\ df \in Seq(Entries) /\ fe \in Seq(Entries)
    BY <1>1, <1>2, <1>5
  <2>2. /\ h \in 1 .. Len(fs) - 1 /\ k = fs[h + 1][1]
        /\ Len(fe) = h /\ Slice(fs, 0, h, fe)
        /\ Len(df) = Len(fs) - h /\ Slice(fs, h, Len(fs) - h, df)
    BY <1>0, <1>2, <1>4
  <2> HIDE DEF h
  <2> QED BY ONLY <2>1, <2>2, HoldsCut, SMTT(30)
<1>7. Holds(te, lo, k, C)
  <2>1. lo <= m /\ m <= k /\ m \in Int /\ lo \in Int /\ k \in Int
    BY <1>6
  <2>2. Len(te) = Len(es) + Len(fe) /\ Slice(te, 0, Len(es), es) /\ Slice(te, Len(es), Len(fe), fe)
    BY <1>0, <1>2, <1>3
  <2> QED BY ONLY <2>1, <2>2, <1>1, <1>2, <1>3, <1>5, <1>6, HoldsJoin
<1>8. Within(es, te)
  <2>1. ASSUME NEW i \in 1 .. Len(es) PROVE i \in 1 .. Len(te) /\ te[0 + i] = es[i] /\ 0 + i = i
    BY <1>0, <1>1, <1>3 DEF Slice
  <2> QED BY <2>1 DEF Within
<1>9. RightGives(r) = Leaf(df, r.next) /\ TakesFromRight(l, r, m) = Leaf(te, l.next)
  BY <1>1 DEF RightGives, TakesFromRight, df, te, es, fs
<1>10. /\ Leaf(df, r.next) \in Nodes /\ Leaf(df, r.next).leaf /\ Leaf(df, r.next).entries = df
       /\ Leaf(df, r.next).next = r.next /\ Count(Leaf(df, r.next)) = b - 1
  BY <1>1, <1>2, LeafParts
<1>11. /\ Leaf(te, l.next) \in Nodes /\ Leaf(te, l.next).leaf /\ Leaf(te, l.next).entries = te
       /\ Leaf(te, l.next).next = l.next /\ Count(Leaf(te, l.next)) = n + 1
  BY <1>1, <1>3, LeafParts
<1>12. b - 1 = Count(r) - 1 /\ n + 1 = Count(l) + 1
  BY <1>1
<1>13. Fits(T, Leaf(df, r.next), k, hi, 0) /\ Fits(T, Leaf(te, l.next), lo, k, 0)
  BY <1>6, <1>7, <1>10, <1>11 DEF Fits, C
<1>14. k \in Int /\ lo < k /\ k < hi
  BY <1>6
<1>15. Within(l.entries, Leaf(te, l.next).entries)
  BY <1>8, <1>11 DEF es
<1> QED BY <1>9, <1>10, <1>11, <1>12, <1>13, <1>14, <1>15 DEF GaveLeft

LEMMA InnerGivesLeft ==
    ASSUME NEW T, NEW l \in Nodes, NEW r \in Nodes, NEW lv \in Nat \ {0},
           NEW lo \in Int, NEW m \in Int, NEW hi \in Int, lo < m,
           Fits(T, l, lo, m, lv), Fits(T, r, m, hi, lv), Count(r) > 1,
           NEW k, k = r.keys[1]
    PROVE  GaveLeft(T, l, r, lo, hi, lv, k, RightGives(r), TakesFromRight(l, r, m))
<1> DEFINE lk == l.keys
           lc == l.kids
           rk == r.keys
           rc == r.kids
           n == Len(lk)
           b == Len(rk)
           dk == Tail(rk)
           dc == Tail(rc)
           one == <<Head(rc)>>
           tk == Append(lk, m)
           tc == Append(lc, Head(rc))
<1>1. /\ lk \in Seq(Separators) /\ lc \in Seq(PageIds) /\ n \in Nat /\ Len(lc) = n + 1
      /\ rk \in Seq(Separators) /\ rc \in Seq(PageIds) /\ b \in Nat /\ Len(rc) = b + 1 /\ b > 1
      /\ ~l.leaf /\ ~r.leaf /\ Count(l) = n /\ Count(r) = b
      /\ Routes(T, n, lk, lc, lo, m, lv) /\ Routes(T, b, rk, rc, m, hi, lv)
  BY NodeParts DEF Fits
<1>0. m \in Separators
  BY DEF Separators
<1>2. /\ dk \in Seq(Separators) /\ Len(dk) = b - 1 /\ Slice(rk, 1, b - 1, dk)
  <2>1. Len(rk) >= 1
    BY <1>1
  <2> HIDE DEF rk
  <2> QED BY ONLY <2>1, <1>1, LastAndFirst
<1>3. /\ dc \in Seq(PageIds) /\ Len(dc) = b /\ Slice(rc, 1, b, dc)
      /\ one \in Seq(PageIds) /\ Slice(rc, 0, 1, one) /\ Head(rc) \in PageIds
  <2>1. Len(rc) >= 1 /\ Len(rc) - 1 = b
    BY <1>1
  <2> HIDE DEF rc, b
  <2>2. /\ dc \in Seq(PageIds) /\ Len(dc) = Len(rc) - 1 /\ Slice(rc, 1, Len(rc) - 1, dc)
        /\ one \in Seq(PageIds) /\ Slice(rc, 0, 1, one) /\ Head(rc) \in PageIds
    BY ONLY <2>1, <1>1, LastAndFirst
  <2> QED BY ONLY <2>1, <2>2
<1>4. /\ tk \in Seq(Separators) /\ Len(tk) = n + 1 /\ tk[n + 1] = m /\ Slice(tk, 0, n, lk)
  <2> DEFINE e == m
  <2>1. /\ tk = Append(lk, e) /\ n = Len(lk) /\ e = m
        /\ e \in Separators /\ lk \in Seq(Separators)
    BY <1>0, <1>1
  <2> HIDE DEF tk, lk, n, e
  <2>2. /\ tk \in Seq(Separators) /\ Len(tk) = Len(lk) + 1
        /\ Slice(tk, 0, Len(lk), lk) /\ Slice(tk, Len(lk), 1, <<e>>)
    BY ONLY <2>1, Appended
  <2>3. tk[Len(lk) + 1] = <<e>>[1] /\ <<e>>[1] = e
    BY ONLY <2>2 DEF Slice
  <2> QED BY ONLY <2>1, <2>2, <2>3
<1>5. /\ tc \in Seq(PageIds) /\ Len(tc) = Len(lc) + 1
      /\ Slice(tc, 0, Len(lc), lc) /\ Slice(tc, Len(lc), 1, one)
  <2> DEFINE e == Head(rc)
  <2>1. tc = Append(lc, e) /\ one = <<e>> /\ e \in PageIds /\ lc \in Seq(PageIds)
    BY <1>1, <1>3
  <2> HIDE DEF tc, lc, one, e
  <2>2. /\ tc \in Seq(PageIds) /\ Len(tc) = Len(lc) + 1
        /\ Slice(tc, 0, Len(lc), lc) /\ Slice(tc, Len(lc), 1, <<e>>)
    BY ONLY <2>1, Appended
  <2> QED BY ONLY <2>1, <2>2
<1>6. 0 \in 0 .. b - 1 /\ k = rk[0 + 1] /\ b - 0 - 1 = b - 1 /\ b - 0 = b /\ 0 + 1 = 1
  BY <1>1
<1> HIDE DEF lk, lc, rk, rc, n, b, dk, dc, one, tk, tc
<1>7. /\ k \in Int /\ m < k /\ k < hi
      /\ Routes(T, 0, <<>>, one, m, k, lv) /\ Routes(T, b - 1, dk, dc, k, hi, lv)
  <2> DEFINE z == 0
  <2>1. /\ b \in Nat /\ hi \in Int /\ m \in Int /\ z \in 0 .. b - 1 /\ k = rk[z + 1]
        /\ Routes(T, b, rk, rc, m, hi, lv)
    BY <1>1, <1>6
  <2>2. /\ Slice(rk, z + 1, b - z - 1, dk) /\ Slice(rc, z + 1, b - z, dc)
        /\ Slice(rc, 0, z + 1, one)
    BY <1>2, <1>3, <1>6
  <2>3. Slice(rk, 0, z, <<>>)
    BY DEF Slice
  <2>5. z = 0 /\ b - z - 1 = b - 1
    BY <1>1
  <2> HIDE DEF z
  <2>4. /\ k \in Int /\ m < k /\ k < hi
        /\ Routes(T, z, <<>>, one, m, k, lv) /\ Routes(T, b - z - 1, dk, dc, k, hi, lv)
    BY ONLY <2>1, <2>2, <2>3, RoutesCut
  <2> QED BY ONLY <2>4, <2>5
<1>8. Routes(T, n + 1 + 0, tk, tc, lo, k, lv)
  <2>1. lo < m /\ m < k /\ lo \in Int /\ m \in Int /\ k \in Int /\ 0 \in Nat /\ n \in Nat
    BY <1>1, <1>7
  <2>2. Slice(tk, n + 1, 0, <<>>)
    BY DEF Slice
  <2>3. /\ tk[n + 1] = m /\ Slice(tk, 0, n, lk)
        /\ Slice(tc, 0, n + 1, lc) /\ Slice(tc, n + 1, 0 + 1, one)
    BY <1>1, <1>4, <1>5, <1>6
  <2> QED BY ONLY <2>1, <2>2, <2>3, <1>1, <1>7, RoutesJoin
<1>9. RightGives(r) = Inner(dk, dc) /\ TakesFromRight(l, r, m) = Inner(tk, tc)
  BY <1>1 DEF RightGives, TakesFromRight, dk, dc, tk, tc, lk, lc, rk, rc
<1>10. /\ Inner(dk, dc) \in Nodes /\ ~Inner(dk, dc).leaf /\ Inner(dk, dc).keys = dk
       /\ Inner(dk, dc).kids = dc /\ Count(Inner(dk, dc)) = b - 1
  BY <1>2, <1>3, InnerParts
<1>11. /\ Inner(tk, tc) \in Nodes /\ ~Inner(tk, tc).leaf /\ Inner(tk, tc).keys = tk
       /\ Inner(tk, tc).kids = tc /\ Count(Inner(tk, tc)) = n + 1
  BY <1>4, <1>5, InnerParts
<1>12. /\ b - 1 = Count(r) - 1 /\ n + 1 = Count(l) + 1 /\ Len(dc) = Len(dk) + 1
       /\ Len(tc) = Len(tk) + 1 /\ n + 1 + 0 = n + 1
  BY <1>1, <1>2, <1>3, <1>4, <1>5
<1>13. Fits(T, Inner(dk, dc), k, hi, lv)
  BY <1>2, <1>7, <1>10, <1>12 DEF Fits
<1>14. Fits(T, Inner(tk, tc), lo, k, lv)
  BY <1>4, <1>8, <1>11, <1>12 DEF Fits
<1>15. k \in Int /\ lo < k /\ k < hi
  BY <1>7
<1> QED BY <1>9, <1>10, <1>11, <1>12, <1>13, <1>14, <1>15 DEF GaveLeft

\* the neighbours l and r hold lo .. m - 1 and m .. hi - 1; leaf x has the entries of both
LeavesAdjoin(T, l, r, lo, m, hi) ==
    /\ T.content \in SUBSET Entries /\ l \in Nodes /\ r \in Nodes
    /\ lo \in Int /\ m \in Int /\ hi \in Int /\ lo < m /\ m < hi
    /\ Fits(T, l, lo, m, 0) /\ Fits(T, r, m, hi, 0)

OneLeaf(T, x, l, r, lo, hi, to) ==
    x \in Nodes /\ Fits(T, x, lo, hi, 0) /\ x.next = to /\ Count(x) = Count(l) + Count(r)

\* two neighbours in one node
LEMMA LeafJoined ==
    ASSUME NEW T, NEW l, NEW r, NEW lo, NEW m, NEW hi, LeavesAdjoin(T, l, r, lo, m, hi),
           NEW to \in Nat, NEW x, x = Leaf(l.entries \o r.entries, to)
    PROVE  OneLeaf(T, x, l, r, lo, hi, to)
<1>0. /\ T.content \in SUBSET Entries /\ l \in Nodes /\ r \in Nodes
      /\ lo \in Int /\ m \in Int /\ hi \in Int /\ lo < m /\ m < hi
      /\ Fits(T, l, lo, m, 0) /\ Fits(T, r, m, hi, 0)
  BY DEF LeavesAdjoin
<1> DEFINE es == l.entries
           fs == r.entries
           gs == es \o fs
           C == T.content
<1>1. /\ es \in Seq(Entries) /\ fs \in Seq(Entries) /\ Holds(es, lo, m, C) /\ Holds(fs, m, hi, C)
      /\ Count(l) = Len(es) /\ Count(r) = Len(fs) /\ x = Leaf(gs, to)
  BY <1>0, NodeParts DEF Fits
<1>2. C \in SUBSET Entries
  BY <1>0
<1>3. /\ gs \in Seq(Entries) /\ Len(gs) = Len(es) + Len(fs)
      /\ Slice(gs, 0, Len(es), es) /\ Slice(gs, Len(es), Len(fs), fs)
  BY <1>1, Joins
<1> HIDE DEF es, fs, gs, C
<1>4. Holds(gs, lo, hi, C)
  <2>1. lo <= m /\ m <= hi /\ lo \in Int /\ m \in Int /\ hi \in Int
    BY <1>0
  <2> QED BY ONLY <2>1, <1>1, <1>2, <1>3, HoldsJoin
<1>5. /\ x \in Nodes /\ x.leaf /\ x.entries = gs /\ x.next = to /\ Count(x) = Len(gs)
  <2>1. to \in Nat
    OBVIOUS
  <2> QED BY ONLY <2>1, <1>1, <1>3, LeafParts
<1> QED BY <1>1, <1>3, <1>4, <1>5 DEF Fits, C, OneLeaf

LEMMA InnerJoined ==
    ASSUME NEW T, NEW l \in Nodes, NEW r \in Nodes, NEW lv \in Nat \ {0},
           NEW lo \in Int, NEW m \in Int, NEW hi \in Int, lo < m, m < hi,
           Fits(T, l, lo, m, lv), Fits(T, r, m, hi, lv),
           NEW x, x = Inner(Append(l.keys, m) \o r.keys, l.kids \o r.kids)
    PROVE  x \in Nodes /\ Fits(T, x, lo, hi, lv) /\ Count(x) = Count(l) + 1 + Count(r)
<1> DEFINE lk == l.keys
           lc == l.kids
           rk == r.keys
           rc == r.kids
           n == Len(lk)
           b == Len(rk)
           lm == Append(lk, m)
           tk == lm \o rk
           tc == lc \o rc
<1>1. /\ lk \in Seq(Separators) /\ lc \in Seq(PageIds) /\ n \in Nat /\ Len(lc) = n + 1
      /\ rk \in Seq(Separators) /\ rc \in Seq(PageIds) /\ b \in Nat /\ Len(rc) = b + 1
      /\ ~l.leaf /\ ~r.leaf /\ Count(l) = n /\ Count(r) = b
      /\ Routes(T, n, lk, lc, lo, m, lv) /\ Routes(T, b, rk, rc, m, hi, lv)
  BY NodeParts DEF Fits
<1>0. m \in Separators /\ x = Inner(tk, tc) /\ n = Len(lk) /\ b = Len(rk)
  BY DEF Separators
<1>2. /\ lm \in Seq(Separators) /\ Len(lm) = n + 1 /\ lm[n + 1] = m /\ Slice(lm, 0, n, lk)
  <2> DEFINE e == m
  <2>1. lm = Append(lk, e) /\ e = m /\ e \in Separators /\ lk \in Seq(Separators)
    BY <1>0, <1>1
  <2> HIDE DEF lm, lk, n, e
  <2>2. /\ lm \in Seq(Separators) /\ Len(lm) = Len(lk) + 1
        /\ Slice(lm, 0, Len(lk), lk) /\ Slice(lm, Len(lk), 1, <<e>>)
    BY ONLY <2>1, Appended
  <2>3. lm[Len(lk) + 1] = <<e>>[1] /\ <<e>>[1] = e
    BY ONLY <2>2 DEF Slice
  <2> QED BY ONLY <2>1, <2>2, <2>3, <1>0
<1> HIDE DEF lm
<1>3. /\ tk \in Seq(Separators) /\ Len(tk) = Len(lm) + b
      /\ Slice(tk, 0, Len(lm), lm) /\ Slice(tk, Len(lm), b, rk)
  BY <1>1, <1>2, Joins
<1>4. /\ tc \in Seq(PageIds) /\ Len(tc) = Len(lc) + Len(rc)
      /\ Slice(tc, 0, Len(lc), lc) /\ Slice(tc, Len(lc), Len(rc), rc)
  BY <1>1, Joins
<1> HIDE DEF lk, lc, rk, rc, n, b, tk, tc
<1>5. Slice(tk, 0, n, lk) /\ tk[n + 1] = m
  <2>1. \A i \in 1 .. n + 1 : tk[0 + i] = lm[i] /\ 0 + i = i
    BY <1>1, <1>2, <1>3 DEF Slice
  <2>2. \A i \in 1 .. n : lm[0 + i] = lk[i] /\ i \in 1 .. n + 1
    BY <1>1, <1>2 DEF Slice
  <2>3. n + 1 \in 1 .. n + 1
    BY <1>1
  <2>4. tk[n + 1] = m
    BY <2>1, <2>3, <1>2
  <2>5. Slice(lm, 0, n, lk)
    BY <1>2
  <2>6. \A i \in 1 .. n : tk[0 + i] = lk[i]
    BY <2>1, <2>2
  <2> QED BY <2>4, <2>6 DEF Slice
<1>6. Routes(T, n + 1 + b, tk, tc, lo, hi, lv)
  <2>1. lo < m /\ m < hi /\ lo \in Int /\ m \in Int /\ hi \in Int
    OBVIOUS
  <2>2. /\ Slice(tk, n + 1, b, rk) /\ Slice(tc, 0, n + 1, lc) /\ Slice(tc, n + 1, b + 1, rc)
    BY <1>1, <1>2, <1>3, <1>4
  <2> QED BY ONLY <2>1, <2>2, <1>1, <1>5, RoutesJoin
<1>7. /\ x \in Nodes /\ ~x.leaf /\ x.keys = tk /\ x.kids = tc /\ Count(x) = Len(tk)
  BY <1>0, <1>3, <1>4, InnerParts, SMTT(30)
<1>8. Len(tk) = n + 1 + b /\ Len(tc) = Len(tk) + 1
  BY <1>1, <1>2, <1>3, <1>4
<1> QED BY <1>1, <1>6, <1>7, <1>8 DEF Fits

(***************************************************************************)
(* The actions that change nothing of the tree.                            *)
(***************************************************************************)
LEMMA Basics ==
    ASSUME Inv
    PROVE  /\ Tree.page = Ahead /\ Tree.lo = low /\ Tree.hi = high /\ Tree.lv = level
           /\ Tree.up = Upper /\ Tree.content = content
           /\ Ids \subseteq Nat \ {0} /\ Ids \subseteq 1 .. next - 1 /\ next \in Nat \ Ids
           /\ low \in [Ids -> Int] /\ high \in [Ids -> Int] /\ level \in [Ids -> Nat]
           /\ Ahead \in [Ids -> Nodes] /\ content \in SUBSET Entries
           /\ Good(Tree) /\ Topped(Tree, root) /\ root \in Placed /\ root \in Ids
           /\ low[root] = 1 /\ Upper[root] = Beyond /\ Beyond \in Int
           /\ Placed \subseteq Ids /\ DOMAIN Upper = Placed
           /\ pc # "grow" => Placed = Ids /\ Upper = high /\ Tree.up = Tree.hi
<1>1. /\ Tree.page = Ahead /\ Tree.lo = low /\ Tree.hi = high /\ Tree.lv = level
      /\ Tree.up = Upper /\ Tree.content = content
  BY DEF Tree
<1>2. Good(Tree) /\ Topped(Tree, root) /\ TypeOK
  BY DEF Inv
<1>3. /\ Ids \subseteq Nat \ {0} /\ Ahead \in [Ids -> Nodes] /\ low \in [Ids -> Int]
      /\ high \in [Ids -> Int] /\ level \in [Ids -> Nat] /\ content \in SUBSET Entries
  BY <1>1, <1>2 DEF Good, Typed, Ids
<1>4. Ids \subseteq 1 .. next - 1 /\ next \in Nat
  BY <1>2 DEF TypeOK
<1>5. next \notin Ids
  BY <1>4
<1>6. DOMAIN Upper = Placed /\ Placed \subseteq Ids
  BY DEF Upper, Placed
<1>7. root \in Placed /\ low[root] = 1 /\ Upper[root] = Beyond
  BY <1>1, <1>2, <1>6 DEF Topped
<1>8. Beyond \in Int
  BY KeysAssumption DEF Beyond
<1>9. ASSUME pc # "grow" PROVE Placed = Ids /\ Upper = high
  BY <1>3, <1>9 DEF Placed, Upper
<1> QED BY <1>1, <1>2, <1>3, <1>4, <1>5, <1>6, <1>7, <1>8, <1>9

LEMMA Unmoved ==
    ASSUME Inv, UNCHANGED <<file, content, shape>>, pc # "grow", pc' # "grow", todo = <<>>
    PROVE  /\ Tree' = Tree /\ Ids' = Ids /\ Ahead' = Ahead /\ Placed' = Ids /\ Upper' = high
           /\ Good(Tree)' /\ Topped(Tree, root)' /\ Unique' /\ Pending' /\ OnDiskAlready'
           /\ Ids \subseteq DOMAIN pages /\ Ahead = [id \in Ids |-> pages[id]]
<1>1. /\ root' = root /\ next' = next /\ pages' = pages /\ todo' = todo /\ content' = content
      /\ low' = low /\ high' = high /\ level' = level
  BY DEF file, shape
<1>2. Ids' = Ids
  BY <1>1 DEF Ids
<1>3. Ahead' = Ahead
  BY <1>1, <1>2 DEF Ahead
<1>4. Placed' = Ids /\ Placed = Ids
  BY <1>2 DEF Placed
<1>5. Upper' = high /\ Upper = high
  BY <1>1, <1>2, <1>4, Basics DEF Upper
<1>6. Tree' = Tree
  BY <1>1, <1>3, <1>5 DEF Tree
<1>7. Good(Tree)' /\ Topped(Tree, root)'
  BY <1>1, <1>6 DEF Inv
<1>8. Unique'
  BY <1>1 DEF Inv, Unique
<1>9. Ids \subseteq DOMAIN pages /\ Ahead = [id \in Ids |-> pages[id]]
  BY Calm
<1>10. Len(todo') = 0 /\ todo' = <<>>
  BY <1>1
<1>11. Pending'
  BY <1>1, <1>2, <1>9, <1>10 DEF Pending
<1>12. OnDiskAlready'
  BY <1>1, <1>6 DEF Inv, OnDiskAlready
<1> QED BY <1>2, <1>3, <1>4, <1>5, <1>6, <1>7, <1>8, <1>9, <1>11, <1>12

LEMMA StillFilled ==
    ASSUME Inv, Ahead' = Ahead, Ids' = Ids, root' = root, level' = level,
           pc # "shrink", pc' \notin {"grow", "shrink"}
    PROVE  Filled'
<1>1. \A id \in Ids : Count(Ahead[id]) <= MaxKeys /\ (id # root => Count(Ahead[id]) >= MinKeys)
  BY DEF Inv, Filled, Least
<1>2. level[root] > 0 => Count(Ahead[root]) >= 1
  BY DEF Inv, Filled
<1> QED BY <1>1, <1>2 DEF Filled, Least

LEMMA Returned ==
    ASSUME Return, TypeOK
    PROVE  /\ pc' = "idle" /\ key' \in Int /\ at' \in Nat /\ path' \in Seq(Nat) /\ promoted' \in Int
           /\ right' \in Nat /\ end' \in Int /\ found' = {} /\ path' = <<>> /\ Located'
<1>1. /\ pc' = "idle" /\ key' \in Int /\ at' \in Nat /\ path' \in Seq(Nat) /\ promoted' \in Int
      /\ right' \in Nat /\ end' \in Int /\ found' = {} /\ path' = <<>>
  BY DEF Return, NoPage
<1> QED BY <1>1 DEF Located

LEMMA BeginStep ==
    ASSUME Inv, todo = <<>>, NEW k \in Keys, Begin(k)
    PROVE  Inv'
<1>1. /\ pc = "idle" /\ pc' = "descend" /\ key' = k /\ at' = root
      /\ UNCHANGED <<file, content, shape>>
      /\ path' = path /\ promoted' = promoted /\ right' = right /\ end' = end /\ found' = found
  BY DEF Begin
<1>2. /\ Ids' = Ids /\ Ahead' = Ahead /\ Placed' = Ids /\ Upper' = high
      /\ Good(Tree)' /\ Topped(Tree, root)' /\ Unique' /\ Pending' /\ OnDiskAlready'
  BY <1>1, Unmoved
<1>3. /\ root' = root /\ next' = next /\ pages' = pages /\ todo' = todo
      /\ low' = low /\ level' = level /\ content' = content
  BY <1>1 DEF file, shape
<1>4. k \in Int /\ 1 <= k /\ k < Beyond
  BY KeysAssumption DEF Keys, Beyond
<1>5. TypeOK'
  BY <1>1, <1>2, <1>3, <1>4 DEF Inv, TypeOK
<1>6. Filled'
  BY <1>1, <1>2, <1>3, StillFilled
<1>7. path = <<>> /\ found = {}
  BY <1>1 DEF Inv, Located
<1>8. root \in Ids /\ low[root] = 1 /\ high[root] = Beyond
  BY <1>1, Basics
<1>9. OnPath'
  BY <1>1, <1>2, <1>3, <1>4, <1>7, <1>8 DEF OnPath
<1>10. Located'
  BY <1>1, <1>7, <1>9 DEF Located
<1> QED BY <1>2, <1>5, <1>6, <1>10 DEF Inv

\* the steps that end an operation and leave the tree alone
LEMMA EndStep ==
    ASSUME Inv, todo = <<>>, Return, UNCHANGED <<file, content, shape>>, pc \in {"descend", "scan"}
    PROVE  Inv'
<1>1. TypeOK /\ pc # "grow" /\ pc # "shrink"
  BY DEF Inv
<1>2. /\ pc' = "idle" /\ key' \in Int /\ at' \in Nat /\ path' \in Seq(Nat) /\ promoted' \in Int
      /\ right' \in Nat /\ end' \in Int /\ Located'
  BY <1>1, Returned
<1>3. /\ Ids' = Ids /\ Ahead' = Ahead
      /\ Good(Tree)' /\ Topped(Tree, root)' /\ Unique' /\ Pending' /\ OnDiskAlready'
  BY <1>1, <1>2, Unmoved
<1>4. /\ root' = root /\ next' = next /\ pages' = pages /\ todo' = todo
      /\ low' = low /\ level' = level /\ content' = content
  BY DEF file, shape
<1>5. TypeOK'
  BY <1>1, <1>2, <1>3, <1>4 DEF TypeOK
<1>6. Filled'
  BY <1>1, <1>2, <1>3, <1>4, StillFilled
<1> QED BY <1>2, <1>3, <1>5, <1>6 DEF Inv

\* what a page holds when nothing is left to write
LEMMA PageIs ==
    ASSUME Inv, todo = <<>>, NEW id \in Ids
    PROVE  /\ id \in DOMAIN pages /\ pages[id] = Ahead[id] /\ pages[id] = Tree.page[id]
           /\ pages[id] \in Nodes
           /\ low[id] \in Int /\ high[id] \in Int /\ level[id] \in Nat /\ low[id] < high[id]
           /\ 1 <= low[id] /\ high[id] <= Beyond
           /\ pages[id].leaf <=> level[id] = 0
           /\ pages[id].leaf =>
                 /\ pages[id].entries \in Seq(Entries) /\ pages[id].next \in Nat
                 /\ Holds(pages[id].entries, low[id], high[id], content)
                 /\ Link(Tree, pages[id].next, high[id])
<1>1. /\ Tree.page = Ahead /\ Tree.lo = low /\ Tree.hi = high /\ Tree.lv = level
      /\ Tree.content = content /\ Good(Tree) /\ Ahead \in [Ids -> Nodes]
      /\ low \in [Ids -> Int] /\ high \in [Ids -> Int] /\ level \in [Ids -> Nat]
  BY Basics
<1>2. id \in DOMAIN pages /\ pages[id] = Ahead[id]
  BY Calm
<1>3. id \in DOMAIN Tree.lo
  BY <1>1
<1>4. 1 <= low[id] /\ low[id] < high[id] /\ high[id] <= Beyond
  BY <1>1, <1>3 DEF Good, Apart
<1>5. CASE level[id] = 0
  <2>1. Tree.lv[id] = 0
    BY <1>1, <1>5
  <2>2. /\ Tree.page[id].leaf /\ Tree.page[id].entries \in Seq(Entries)
        /\ Tree.page[id].next \in Nat
        /\ Holds(Tree.page[id].entries, Tree.lo[id], Tree.hi[id], Tree.content)
        /\ Link(Tree, Tree.page[id].next, Tree.hi[id])
    BY <1>1, <1>3, <2>1, LeafFacts
  <2> QED BY <1>1, <1>2, <1>4, <1>5, <2>2
<1>6. CASE level[id] # 0
  <2>1. ~Tree.page[id].leaf
    BY <1>1, <1>3, <1>6, InnerFacts
  <2> QED BY <1>1, <1>2, <1>4, <1>6, <2>1
<1> QED BY <1>5, <1>6

\* where a child lies in the tree of its node
LEMMA EachChild ==
    ASSUME NEW T, Good(T), NEW p \in DOMAIN T.lo, T.lv[p] # 0,
           NEW i \in 1 .. Len(T.page[p].kids)
    PROVE  /\ T.page[p].kids[i] \in DOMAIN T.up /\ T.page[p].kids[i] \in DOMAIN T.lo
           /\ T.lv[T.page[p].kids[i]] = T.lv[p] - 1
           /\ T.lo[T.page[p].kids[i]] = (IF i = 1 THEN T.lo[p] ELSE T.page[p].keys[i - 1])
           /\ T.up[T.page[p].kids[i]] =
                 (IF i = Len(T.page[p].keys) + 1 THEN T.hi[p] ELSE T.page[p].keys[i])
  BY ChildFacts DEF IsChild

\* the child on the way to k
LEMMA ChildOnWay ==
    ASSUME NEW T, Good(T), NEW p \in DOMAIN T.lo, T.lv[p] # 0, NEW k \in Int,
           T.lo[p] <= k, k < T.hi[p], NEW i, i = ChildIndex(T.page[p], k)
    PROVE  /\ i \in 1 .. Len(T.page[p].kids) /\ i \in 1 .. Len(T.page[p].keys) + 1
           /\ T.page[p].kids[i] \in DOMAIN T.up /\ T.page[p].kids[i] \in DOMAIN T.lo
           /\ T.lv[T.page[p].kids[i]] = T.lv[p] - 1
           /\ T.lo[T.page[p].kids[i]] <= k /\ k < T.up[T.page[p].kids[i]]
<1>1. /\ T.page[p] \in Nodes /\ Len(T.page[p].kids) = Len(T.page[p].keys) + 1
      /\ Len(T.page[p].keys) \in Nat
  BY InnerFacts
<1>2. /\ i \in 1 .. Len(T.page[p].keys) + 1
      /\ i > 1 => T.page[p].keys[i - 1] <= k
      /\ i <= Len(T.page[p].keys) => k < T.page[p].keys[i]
  BY <1>1, ChildOf
<1>3. i \in 1 .. Len(T.page[p].kids)
  BY <1>1, <1>2
<1> DEFINE Lies(j) ==
        /\ T.page[p].kids[j] \in DOMAIN T.up /\ T.page[p].kids[j] \in DOMAIN T.lo
        /\ T.lv[T.page[p].kids[j]] = T.lv[p] - 1
        /\ T.lo[T.page[p].kids[j]] = (IF j = 1 THEN T.lo[p] ELSE T.page[p].keys[j - 1])
        /\ T.up[T.page[p].kids[j]] =
              (IF j = Len(T.page[p].keys) + 1 THEN T.hi[p] ELSE T.page[p].keys[j])
<1>4. /\ T.page[p].kids[i] \in DOMAIN T.up /\ T.page[p].kids[i] \in DOMAIN T.lo
      /\ T.lv[T.page[p].kids[i]] = T.lv[p] - 1
      /\ T.lo[T.page[p].kids[i]] = (IF i = 1 THEN T.lo[p] ELSE T.page[p].keys[i - 1])
      /\ T.up[T.page[p].kids[i]] =
            (IF i = Len(T.page[p].keys) + 1 THEN T.hi[p] ELSE T.page[p].keys[i])
  <2>1. \A j \in 1 .. Len(T.page[p].kids) : Lies(j)
    BY EachChild
  <2> HIDE DEF Lies
  <2>2. Lies(i)
    BY <1>3, <2>1
  <2> QED BY <2>2 DEF Lies
<1>5. T.lo[T.page[p].kids[i]] <= k
  BY <1>2, <1>4
<1>6. k < T.up[T.page[p].kids[i]]
  BY <1>1, <1>2, <1>4
<1> QED BY <1>2, <1>3, <1>4, <1>5, <1>6

LEMMA DescendStep ==
    ASSUME Inv, todo = <<>>, Descend
    PROVE  Inv'
<1> DEFINE c == pages[at].kids[ChildIndex(pages[at], key)]
<1>1. /\ pc = "descend" /\ ~pages[at].leaf /\ path' = Append(path, at) /\ at' = c
      /\ UNCHANGED <<file, content, shape>>
      /\ pc' = pc /\ key' = key /\ promoted' = promoted /\ right' = right /\ end' = end
      /\ found' = found
  BY DEF Descend
<1>2. /\ Ids' = Ids /\ Ahead' = Ahead /\ Placed' = Ids /\ Upper' = high
      /\ Good(Tree)' /\ Topped(Tree, root)' /\ Unique' /\ Pending' /\ OnDiskAlready'
  BY <1>1, Unmoved
<1>3. /\ root' = root /\ next' = next /\ pages' = pages /\ todo' = todo
      /\ low' = low /\ level' = level /\ content' = content
  BY <1>1 DEF file, shape
<1>4. OnPath /\ found = {} /\ TypeOK
  BY <1>1 DEF Inv, Located
<1>5. /\ Tree.lo = low /\ Tree.hi = high /\ Tree.lv = level /\ Tree.up = high /\ Good(Tree)
      /\ Placed = Ids /\ Upper = high
      /\ low \in [Ids -> Int] /\ high \in [Ids -> Int] /\ level \in [Ids -> Nat]
      /\ Ids \subseteq Nat \ {0}
  BY <1>1, Basics
<1>6. at \in Ids /\ low[at] <= key /\ key < high[at] /\ key \in Int /\ path \in Seq(Nat)
  BY <1>4, <1>5 DEF OnPath, TypeOK
<1>7. level[at] # 0 /\ pages[at] = Tree.page[at]
  BY <1>1, <1>6, PageIs
<1>8. /\ c \in Ids /\ level[c] = level[at] - 1 /\ low[c] <= key /\ key < high[c]
  <2>1. /\ at \in DOMAIN Tree.lo /\ Tree.lv[at] # 0 /\ Tree.lo[at] <= key /\ key < Tree.hi[at]
        /\ c = Tree.page[at].kids[ChildIndex(Tree.page[at], key)]
    BY <1>5, <1>6, <1>7
  <2> HIDE DEF c
  <2>2. /\ c \in DOMAIN Tree.lo /\ Tree.lv[c] = Tree.lv[at] - 1
        /\ Tree.lo[c] <= key /\ key < Tree.up[c]
    BY <1>5, <1>6, <2>1, ChildOnWay
  <2> QED BY <1>5, <2>2
<1> HIDE DEF c
<1>9. TypeOK'
  <2>1. at' \in Nat /\ path' \in Seq(Nat)
    BY <1>1, <1>5, <1>6, <1>8
  <2> QED BY <1>1, <1>2, <1>3, <1>4, <2>1 DEF TypeOK
<1>10. Filled'
  BY <1>1, <1>2, <1>3, StillFilled
<1>11. OnPath'
  <2>1. /\ Len(path') = Len(path) + 1 /\ path'[Len(path) + 1] = at /\ Len(path) \in Nat
        /\ path' # <<>> /\ \A j \in 1 .. Len(path) : path'[j] = path[j]
    BY <1>1, <1>6
  <2>2. IF path' = <<>> THEN at' = root' ELSE path'[1] = root'
    <3>1. CASE path = <<>>
      BY <3>1, <1>3, <1>4, <2>1 DEF OnPath
    <3>2. CASE path # <<>>
      <4>1. path[1] = root /\ 1 \in 1 .. Len(path)
        BY <3>2, <1>4, <1>6 DEF OnPath
      <4> QED BY <4>1, <1>3, <2>1
    <3> QED BY <3>1, <3>2
  <2>3. ASSUME NEW j \in 1 .. Len(path')
        PROVE  /\ path'[j] \in Ids /\ level[path'[j]] = level[c] + Len(path') + 1 - j
               /\ low[path'[j]] <= key /\ key < high[path'[j]]
    <3>1. CASE j = Len(path) + 1
      <4>1. path'[j] = at /\ level[c] + Len(path') + 1 - j = level[c] + 1
        BY <3>1, <2>1, <1>5, <1>8
      <4>2. level[at] = level[c] + 1
        BY <1>5, <1>6, <1>8
      <4> QED BY <4>1, <4>2, <1>6
    <3>2. CASE j # Len(path) + 1
      <4>1. j \in 1 .. Len(path)
        BY <3>2, <2>1
      <4>2. /\ path[j] \in Ids /\ level[path[j]] = level[at] + Len(path) + 1 - j
            /\ low[path[j]] <= key /\ key < high[path[j]]
        BY <4>1, <1>4, <1>5 DEF OnPath
      <4>3. level[at] + Len(path) + 1 - j = level[c] + Len(path') + 1 - j
        <5> DEFINE a == level[at]
                   n == Len(path)
        <5> HIDE DEF c
        <5>0. level \in [Ids -> Nat] /\ at \in Ids
          BY <1>5, <1>6
        <5>1. level[at] \in Int
          BY ONLY <5>0
        <5>2. Len(path) \in Int /\ Len(path') = Len(path) + 1 /\ j \in Int
          BY <2>1
        <5>3. level[c] = level[at] - 1
          BY ONLY <1>8
        <5>4. a \in Int /\ level[c] = a - 1 /\ n \in Int /\ Len(path') = n + 1 /\ j \in Int
          BY ONLY <5>1, <5>2, <5>3 DEF a, n
        <5> HIDE DEF a, n
        <5>5. a + n + 1 - j = (a - 1) + (n + 1) + 1 - j
          BY ONLY <5>4
        <5> QED BY ONLY <5>4, <5>5 DEF a, n
      <4> QED BY <4>1, <4>2, <4>3, <2>1
    <3> QED BY <3>1, <3>2
  <2>4. key \in Keys
    BY <1>4 DEF OnPath
  <2> QED BY <1>1, <1>2, <1>3, <1>8, <2>2, <2>3, <2>4 DEF OnPath
<1>12. Located'
  BY <1>1, <1>4, <1>11 DEF Located
<1> QED BY <1>2, <1>9, <1>10, <1>12 DEF Inv

LEMMA BeginScanStep ==
    ASSUME Inv, todo = <<>>, BeginScan
    PROVE  Inv'
<1>1. /\ pc = "descend" /\ pages[at].leaf /\ pc' = "scan" /\ path' = <<>> /\ end' \in Ends
      /\ UNCHANGED <<file, content, shape>>
      /\ key' = key /\ at' = at /\ promoted' = promoted /\ right' = right /\ found' = found
  BY DEF BeginScan, AtLeaf
<1>2. /\ Ids' = Ids /\ Ahead' = Ahead
      /\ Good(Tree)' /\ Topped(Tree, root)' /\ Unique' /\ Pending' /\ OnDiskAlready'
  BY <1>1, Unmoved
<1>3. /\ root' = root /\ next' = next /\ pages' = pages /\ todo' = todo
      /\ low' = low /\ level' = level /\ content' = content
  BY <1>1 DEF file, shape
<1>4. OnPath /\ found = {} /\ TypeOK
  BY <1>1 DEF Inv, Located
<1>5. at \in Ids /\ low[at] <= key /\ key \in Keys /\ key \in Int
  BY <1>1, <1>4, Basics DEF OnPath, TypeOK
<1>6. level[at] = 0 /\ low[at] \in Int
  BY <1>1, <1>5, PageIs
<1>7. end' \in Int
  BY <1>1, KeysAssumption
<1>8. TypeOK'
  BY <1>1, <1>2, <1>3, <1>4, <1>7 DEF TypeOK
<1>9. Filled'
  BY <1>1, <1>2, <1>3, StillFilled
<1>10. \A e \in content : ~(key <= e[1] /\ e[1] < end' /\ e[1] < low[at])
  <2>1. ASSUME NEW e \in content PROVE e[1] \in Int
    BY <1>4, KeysAssumption DEF TypeOK, Entries, Keys
  <2> QED BY <2>1, <1>5, <1>6
<1>11. Scanned'
  BY <1>1, <1>2, <1>3, <1>4, <1>5, <1>6, <1>10 DEF Scanned
<1>12. Located'
  BY <1>1, <1>11 DEF Located
<1> QED BY <1>2, <1>8, <1>9, <1>12 DEF Inv

\* what a leaf adds to a scan
LEMMA HitsAre ==
    ASSUME NEW es \in Seq(Entries), NEW lo \in Int, NEW hi \in Int, NEW C \in SUBSET Entries,
           Holds(es, lo, hi, C), key \in Int, end \in Int
    PROVE  /\ {es[i] : i \in Hits(es)} =
                {e \in C : lo <= e[1] /\ e[1] < hi /\ key <= e[1] /\ e[1] < end}
           /\ PastEnd(es) # {} => \E i \in 1 .. Len(es) : key <= es[i][1] /\ end <= es[i][1]
<1>1. \A i \in 1 .. Len(es) : /\ es[i][1] \in Int /\ es[i] \in C
                              /\ lo <= es[i][1] /\ es[i][1] < hi
  BY EntryAt DEF Holds
<1>2. Hits(es) = {i \in 1 .. Len(es) : key <= es[i][1] /\ es[i][1] < end}
  <2>1. ASSUME NEW i \in 1 .. Len(es), es[i][1] < end, NEW j \in PastEnd(es) PROVE i < j
    <3>1. j \in 1 .. Len(es) /\ end <= es[j][1]
      BY DEF PastEnd
    <3>2. es[i][1] \in Int /\ es[j][1] \in Int
      BY <3>1, <1>1
    <3>3. j < i => es[j][1] < es[i][1]
      BY <3>1 DEF Holds
    <3>4. i # j
      BY <2>1, <3>1, <3>2
    <3>5. ~(j < i)
      BY <2>1, <3>1, <3>2, <3>3
    <3> QED BY <3>1, <3>4, <3>5
  <2> QED BY <2>1 DEF Hits
<1>3. ASSUME NEW i \in Hits(es)
      PROVE  es[i] \in C /\ lo <= es[i][1] /\ es[i][1] < hi /\ key <= es[i][1] /\ es[i][1] < end
  BY <1>1, <1>2
<1>4. ASSUME NEW e \in C, lo <= e[1], e[1] < hi, key <= e[1], e[1] < end
      PROVE  \E i \in Hits(es) : es[i] = e
  <2>1. PICK i \in 1 .. Len(es) : es[i] = e
    BY <1>4 DEF Holds
  <2> QED BY <2>1, <1>2, <1>4
<1> QED BY <1>3, <1>4 DEF PastEnd

LEMMA ScanLeafStep ==
    ASSUME Inv, todo = <<>>, ScanLeaf
    PROVE  Inv'
<1> DEFINE es == pages[at].entries
           to == pages[at].next
<1>1. /\ pc = "scan" /\ ~LastToScan /\ found' = Listed /\ at' = to
      /\ UNCHANGED <<file, content, shape>>
      /\ pc' = pc /\ key' = key /\ path' = path /\ promoted' = promoted /\ right' = right
      /\ end' = end
  BY DEF ScanLeaf
<1>2. /\ Ids' = Ids /\ Ahead' = Ahead
      /\ Good(Tree)' /\ Topped(Tree, root)' /\ Unique' /\ Pending' /\ OnDiskAlready'
  BY <1>1, Unmoved
<1>3. /\ root' = root /\ next' = next /\ pages' = pages /\ todo' = todo
      /\ low' = low /\ level' = level /\ content' = content
  BY <1>1 DEF file, shape
<1>4. Scanned /\ path = <<>> /\ TypeOK
  BY <1>1 DEF Inv, Located
<1>5. at \in Ids /\ level[at] = 0 /\ key \in Keys /\ key \in Int /\ end \in Int
  BY <1>4 DEF Scanned, TypeOK
<1>6. /\ low[at] \in Int /\ high[at] \in Int /\ low[at] < high[at]
      /\ es \in Seq(Entries) /\ Holds(es, low[at], high[at], content) /\ Link(Tree, to, high[at])
      /\ to \in Nat
  BY <1>5, PageIs
<1>7. to # NoPage /\ PastEnd(es) = {}
  BY <1>1 DEF LastToScan
<1>8. to \in Ids /\ level[to] = 0 /\ low[to] = high[at]
  BY <1>6, <1>7, Basics DEF Link
<1>9. {es[i] : i \in Hits(es)} =
         {e \in content : low[at] <= e[1] /\ e[1] < high[at] /\ key <= e[1] /\ e[1] < end}
  <2>1. content \in SUBSET Entries
    BY Basics
  <2>2. low[at] \in Int /\ high[at] \in Int /\ Holds(es, low[at], high[at], content)
    BY <1>6
  <2> HIDE DEF es
  <2> QED BY <1>5, <1>6, <2>1, <2>2, HitsAre
<1>10. found' = found \cup {es[i] : i \in Hits(es)}
  BY <1>1 DEF Listed
<1>11. found = {e \in content : key <= e[1] /\ e[1] < end /\ e[1] < low[at]}
  BY <1>4 DEF Scanned
<1> HIDE DEF es, to
<1>12. found' = {e \in content : key <= e[1] /\ e[1] < end /\ e[1] < high[at]}
  <2>1. ASSUME NEW e \in content PROVE e[1] \in Int
    BY <1>4, KeysAssumption DEF TypeOK, Entries, Keys
  <2>2. ASSUME NEW e \in content
        PROVE  e[1] < high[at] <=> e[1] < low[at] \/ (low[at] <= e[1] /\ e[1] < high[at])
    BY <2>1, <1>6
  <2> QED BY <2>2, <1>9, <1>10, <1>11
<1>13. TypeOK'
  BY <1>1, <1>2, <1>3, <1>4, <1>6 DEF TypeOK
<1>14. Filled'
  BY <1>1, <1>2, <1>3, StillFilled
<1>15. Scanned'
  BY <1>1, <1>2, <1>3, <1>5, <1>8, <1>12 DEF Scanned
<1>16. Located'
  BY <1>1, <1>4, <1>15 DEF Located
<1> QED BY <1>2, <1>13, <1>14, <1>16 DEF Inv

(***************************************************************************)
(* A write of the work on a node.                                          *)
(***************************************************************************)
LEMMA ContinueStep ==
    ASSUME Inv, Continue
    PROVE  Inv'
<1> DEFINE w == todo[1]
<1>1. /\ todo # <<>> /\ pages' = Put(pages, Head(todo)) /\ todo' = Tail(todo)
      /\ root' = root /\ next' = next /\ pc' = pc /\ key' = key /\ at' = at /\ path' = path
      /\ promoted' = promoted /\ right' = right /\ end' = end /\ found' = found
      /\ content' = content /\ low' = low /\ high' = high /\ level' = level
  BY DEF Continue, Perform, shape
<1>2. /\ TypeOK /\ Pending /\ todo \in Seq(Writes) /\ Len(todo) \in Nat /\ Len(todo) <= 2
      /\ Ids \subseteq 1 .. next - 1 /\ DOMAIN pages \subseteq 1 .. next - 1
      /\ pages \in [DOMAIN pages -> Nodes]
  BY SMTT(30) DEF Inv, TypeOK, Pending
<1>3. Len(todo) \in {1, 2} /\ w \in Writes /\ Head(todo) = w
  <2>1. Len(todo) # 0
    BY <1>1, <1>2, EmptySeq
  <2> DEFINE n == Len(todo)
  <2>2. n \in {1, 2}
    <3>1. n # 0 /\ n \in Nat /\ n <= 2
      BY <2>1, <1>2
    <3> HIDE DEF n
    <3> QED BY ONLY <3>1
  <2>3. 1 \in 1 .. Len(todo)
    BY <2>2
  <2> QED BY <2>2, <2>3, <1>1, <1>2, ElementOfSeq, HeadTailProperties
<1>4. w.page \in Ids /\ w.drop \cap Ids = {} /\ w.node \in Nodes
  BY <1>2, <1>3 DEF Pending, Writes
<1>5. /\ DOMAIN pages' = (DOMAIN pages \cup {w.page}) \ w.drop
      /\ \A id \in DOMAIN pages' : pages'[id] = IF id = w.page THEN w.node ELSE pages[id]
  BY <1>1, <1>3 DEF Put
<1>6. Ids' = Ids /\ Placed' = Placed /\ Upper' = Upper
  <2>1. Ids' = Ids
    BY <1>1 DEF Ids
  <2>2. Placed' = Placed
    BY <2>1, <1>1 DEF Placed
  <2> QED BY <2>1, <2>2, <1>1 DEF Upper
<1>7. /\ pages' \in [DOMAIN pages' -> Nodes] /\ DOMAIN pages' \subseteq 1 .. next - 1
  <2>1. pages' = [id \in DOMAIN pages' |-> IF id = w.page THEN w.node ELSE pages[id]]
    BY <1>1, <1>3 DEF Put
  <2>2. \A id \in DOMAIN pages' : pages'[id] \in Nodes
    BY <1>2, <1>4, <1>5
  <2>3. DOMAIN pages' \subseteq 1 .. next - 1
    BY <1>2, <1>4, <1>5
  <2> QED BY <2>1, <2>2, <2>3
<1>8. w.page \in DOMAIN pages' /\ pages'[w.page] = w.node
  BY <1>4, <1>5
<1>9. \A id \in Ids \ {w.page} : (id \in DOMAIN pages' <=> id \in DOMAIN pages)
                                 /\ (id \in DOMAIN pages => pages'[id] = pages[id])
  BY <1>4, <1>5
<1>10. /\ \/ Len(todo) = 1 /\ todo' = <<>> /\ Len(todo') = 0
          \/ Len(todo) = 2 /\ Len(todo') = 1 /\ todo'[1] = todo[2] /\ todo[2].page # w.page
       /\ todo' \in Seq(Writes)
  <2>1. todo[2].page # w.page \/ Len(todo) = 1
    BY <1>2, <1>3 DEF Pending
  <2> QED BY <2>1, <1>1, <1>2, <1>3
<1>11. \A id \in Ids : id \in DOMAIN pages \/ \E i \in 1 .. Len(todo) : todo[i].page = id
  BY <1>2 DEF Pending
<1>12. Ahead' = Ahead
  <2>1. Ahead' = [id \in Ids |->
           IF Len(todo') >= 1 /\ todo'[1].page = id THEN todo'[1].node
           ELSE IF Len(todo') >= 2 /\ todo'[2].page = id THEN todo'[2].node
           ELSE pages'[id]]
    BY <1>6 DEF Ahead
  <2>2. ASSUME NEW id \in Ids
        PROVE  (IF Len(todo') >= 1 /\ todo'[1].page = id THEN todo'[1].node
                ELSE IF Len(todo') >= 2 /\ todo'[2].page = id THEN todo'[2].node
                ELSE pages'[id])
               = (IF Len(todo) >= 1 /\ todo[1].page = id THEN todo[1].node
                  ELSE IF Len(todo) >= 2 /\ todo[2].page = id THEN todo[2].node
                  ELSE pages[id])
    <3>1. CASE id = w.page
      <4>1. pages'[id] = w.node /\ Len(todo) >= 1
        BY <3>1, <1>3, <1>8
      <4>2. ~(Len(todo') >= 1 /\ todo'[1].page = id) /\ ~(Len(todo') >= 2)
        <5>1. CASE Len(todo') = 0
          BY <5>1
        <5>2. CASE Len(todo') = 1 /\ todo'[1] = todo[2] /\ todo[2].page # w.page
          BY <5>2, <3>1
        <5> QED BY <5>1, <5>2, <1>10
      <4> QED BY <3>1, <4>1, <4>2
    <3>2. CASE id # w.page /\ Len(todo) = 1
      <4>1. id \in DOMAIN pages
        BY <3>2, <1>11
      <4>2. ~(Len(todo') >= 1) /\ ~(Len(todo') >= 2)
        BY <3>2, <1>10
      <4> QED BY <4>1, <4>2, <3>2, <1>9
    <3>3. CASE id # w.page /\ Len(todo) = 2
      <4>0. Len(todo') = 1 /\ todo'[1] = todo[2]
        BY <3>3, <1>10
      <4>1. CASE id = todo[2].page
        BY <4>0, <4>1, <3>3
      <4>2. CASE id # todo[2].page
        <5>1. id \in DOMAIN pages
          <6>1. PICK i \in 1 .. 2 : id \notin DOMAIN pages => todo[i].page = id
            BY <3>3, <1>11
          <6>2. i = 1 \/ i = 2
            OBVIOUS
          <6> QED BY <6>1, <6>2, <4>2, <3>3
        <5>2. pages'[id] = pages[id]
          BY <5>1, <3>3, <1>9
        <5> QED BY <5>2, <4>0, <4>2, <3>3
      <4> QED BY <4>1, <4>2
    <3> QED BY <3>1, <3>2, <3>3, <1>3
  <2> QED BY <2>1, <2>2 DEF Ahead
<1>13. Tree' = Tree
  BY <1>1, <1>6, <1>12 DEF Tree
<1>14. Good(Tree)' /\ Topped(Tree, root)' /\ Unique'
  BY <1>1, <1>13 DEF Inv, Unique
<1>15. TypeOK'
  BY <1>1, <1>2, <1>6, <1>7, <1>10 DEF TypeOK
<1>16. Pending'
  <2>1. todo' # <<>> => pc' \in {"grow", "shrink"}
    BY <1>1, <1>2 DEF Pending
  <2>2. ASSUME NEW i \in 1 .. Len(todo')
        PROVE  todo'[i].page \in Ids /\ todo'[i].drop \cap Ids = {}
    <3>1. i = 1 /\ todo'[i] = todo[2] /\ 2 \in 1 .. Len(todo)
      BY <1>10
    <3> QED BY <3>1, <1>2 DEF Pending
  <2>3. \A i, j \in 1 .. Len(todo') : i = j
    <3> DEFINE n == Len(todo')
    <3>1. n = 0 \/ n = 1
      BY <1>10
    <3> HIDE DEF n
    <3>2. \A i, j \in 1 .. n : i = j
      BY ONLY <3>1
    <3> QED BY <3>2 DEF n
  <2>4. ASSUME NEW id \in Ids, id \notin DOMAIN pages'
        PROVE  \E i \in 1 .. Len(todo') : todo'[i].page = id
    <3>1. id # w.page /\ id \notin DOMAIN pages
      BY <2>4, <1>8, <1>9
    <3>2. PICK i \in 1 .. Len(todo) : todo[i].page = id
      BY <3>1, <1>11
    <3>3. i = 2 /\ Len(todo) = 2
      BY <3>1, <3>2, <1>3
    <3> QED BY <3>2, <3>3, <1>3, <1>10
  <2>5. Len(todo') <= 2
    BY <1>10
  <2> QED BY <2>1, <2>2, <2>3, <2>4, <2>5, <1>6 DEF Pending
<1>17. OnDiskAlready'
  <2> DEFINE disk == [x \in {w.page} |-> w.node]
  <2>1. /\ Tree.page = Ahead /\ Tree.lo = low /\ Tree.lv = level /\ Good(Tree)
    BY Basics
  <2>2. DiskOk(Tree, disk)
    <3>1. Tree.page[w.page] = w.node
      BY <2>1, <1>3, <1>4 DEF Ahead
    <3>2. \A id \in DOMAIN Tree.lo \cap DOMAIN disk : Early(Tree, Tree, id, disk[id])
      BY <3>1 DEF Early
    <3> HIDE DEF disk
    <3> QED BY <2>1, <3>2, DiskStep
  <2>3. DiskOk(Tree, pages)
    BY DEF Inv, OnDiskAlready
  <2>4. DiskOk(Tree, pages')
    <3>1. ASSUME NEW id \in DOMAIN Tree.lo \cap DOMAIN pages'
          PROVE  \/ id \in DOMAIN disk /\ pages'[id] = disk[id]
                 \/ id \in DOMAIN pages /\ pages'[id] = pages[id]
      BY <2>1, <1>4, <1>5
    <3> HIDE DEF disk
    <3>2. ASSUME NEW id \in DOMAIN Tree.lo \cap DOMAIN pages' PROVE Shows(Tree, id, pages'[id])
      <4>1. CASE id \in DOMAIN disk /\ pages'[id] = disk[id]
        BY <4>1, <2>2 DEF DiskOk
      <4>2. CASE id \in DOMAIN pages /\ pages'[id] = pages[id]
        BY <4>2, <2>3 DEF DiskOk
      <4> QED BY <4>1, <4>2, <3>1
    <3> QED BY <3>2 DEF DiskOk
  <2> QED BY <2>4, <1>13 DEF OnDiskAlready
<1>18. Filled'
  BY <1>1, <1>6, <1>12 DEF Inv, Filled, Least
<1>19. Located'
  BY <1>1, <1>6 DEF Inv, Located, OnPath, SplitBelow, Scanned
<1> QED BY <1>14, <1>15, <1>16, <1>17, <1>18, <1>19 DEF Inv

(***************************************************************************)
(* The actions that change a leaf and nothing else.                        *)
(***************************************************************************)
LEMMA LeafWrite ==
    ASSUME Inv, todo = <<>>, pc # "grow", pc' # "grow", NEW id \in Ids, level[id] = 0,
           NEW x \in Nodes, x.leaf, x.next = pages[id].next, Perform(<<Write(id, x)>>),
           root' = root, UNCHANGED shape, content' \in SUBSET Entries,
           Holds(x.entries, low[id], high[id], content'),
           \A e \in (content \ content') \cup (content' \ content) :
              low[id] <= e[1] /\ e[1] < high[id]
    PROVE  /\ Ids' = Ids /\ Placed' = Ids /\ Upper' = high
           /\ Ahead' = [y \in Ids |-> IF y = id THEN x ELSE Ahead[y]]
           /\ todo' = <<>> /\ pages' \in [DOMAIN pages' -> Nodes]
           /\ DOMAIN pages' \subseteq 1 .. next - 1
           /\ Good(Tree)' /\ Topped(Tree, root)' /\ Pending' /\ OnDiskAlready'
<1> DEFINE T == Tree
           U == Tree'
<1>1. /\ T.page = Ahead /\ T.lo = low /\ T.hi = high /\ T.lv = level /\ T.up = high
      /\ T.content = content /\ Good(T) /\ Topped(T, root) /\ Ahead \in [Ids -> Nodes]
      /\ Placed = Ids /\ Ids \subseteq Nat \ {0} /\ Ids \subseteq 1 .. next - 1
      /\ low \in [Ids -> Int] /\ high \in [Ids -> Int] /\ level \in [Ids -> Nat]
  BY Basics
<1>2. low' = low /\ high' = high /\ level' = level
  BY DEF shape
<1>3. Ids' = Ids
  BY <1>2 DEF Ids
<1>4. Placed' = Ids /\ Upper' = high
  BY <1>1, <1>2, <1>3 DEF Placed, Upper
<1>5. Ids \subseteq DOMAIN pages /\ Ahead = [y \in Ids |-> pages[y]]
  BY Calm
<1>6. /\ todo' = <<>>
      /\ pages' = [y \in DOMAIN pages \cup {id} |-> IF y = id THEN x ELSE pages[y]]
      /\ Ahead' = [y \in Ids |-> IF y = id THEN x ELSE pages[y]]
  <2>1. Ids' \subseteq DOMAIN pages \cup {id} /\ Perform(<<Write(id, x)>>)
    BY <1>3, <1>5
  <2>2. /\ todo' = <<>>
        /\ pages' = [y \in DOMAIN pages \cup {id} |-> IF y = id THEN x ELSE pages[y]]
        /\ Ahead' = [y \in Ids' |-> IF y = id THEN x ELSE pages[y]]
    BY ONLY <2>1, OneWrite
  <2> QED BY <2>2, <1>3
<1>7. Ahead' = [y \in Ids |-> IF y = id THEN x ELSE Ahead[y]]
  BY <1>5, <1>6
<1>8. /\ U.page = Ahead' /\ U.lo = low /\ U.hi = high /\ U.lv = level /\ U.up = high
      /\ U.content = content'
  BY <1>2, <1>4 DEF Tree
<1>9. pages' \in [DOMAIN pages' -> Nodes] /\ DOMAIN pages' \subseteq 1 .. next - 1
  <2>1. pages \in [DOMAIN pages -> Nodes] /\ DOMAIN pages \subseteq 1 .. next - 1
    BY DEF Inv, TypeOK
  <2>2. \A y \in DOMAIN pages' : pages'[y] \in Nodes
    BY <1>6, <2>1
  <2> QED BY <1>1, <1>6, <2>1, <2>2
<1> HIDE DEF T, U
<1>10. Typed(U)
  <2>1. Ahead' \in [Ids -> Nodes]
    BY <1>1, <1>7
  <2> QED BY <1>1, <1>8, <2>1 DEF Typed, Ids
<1>11. Good(U)
  <2>1. id \in DOMAIN T.lo /\ T.lv[id] = 0
    BY <1>1 DEF Ids
  <2>2. /\ U.lo = T.lo /\ U.hi = T.hi /\ U.lv = T.lv /\ U.up = T.up
        /\ \A y \in DOMAIN T.lo \ {id} : U.page[y] = T.page[y]
    BY <1>1, <1>7, <1>8 DEF Ids
  <2>3. U.page[id] = x /\ T.page[id] = pages[id]
    BY <1>1, <1>5, <1>7, <1>8
  <2>4. /\ U.page[id].leaf /\ U.page[id].next = T.page[id].next
        /\ Holds(U.page[id].entries, T.lo[id], T.hi[id], U.content)
        /\ \A e \in (T.content \ U.content) \cup (U.content \ T.content) :
              T.lo[id] <= e[1] /\ e[1] < T.hi[id]
    BY <2>3, <1>1, <1>8
  <2> QED BY ONLY <2>1, <2>2, <2>4, <1>1, <1>10, LeafChange
<1>12. Topped(U, root)
  BY <1>1, <1>8 DEF Topped
<1>13. Good(Tree)' /\ Topped(Tree, root)'
  BY <1>11, <1>12 DEF U
<1>14. Pending'
  <2>1. Len(todo') = 0 /\ Ids \subseteq DOMAIN pages'
    BY <1>5, <1>6
  <2> QED BY <2>1, <1>3, <1>6 DEF Pending
<1>15. OnDiskAlready'
  <2>1. \A y \in DOMAIN U.lo \cap DOMAIN pages' : Early(T, U, y, pages'[y])
    BY <1>6, <1>8 DEF Ids, Early
  <2>2. DiskOk(U, pages')
    BY <2>1, <1>1, <1>11, DiskStep
  <2> QED BY <2>2 DEF U, OnDiskAlready
<1> QED BY <1>3, <1>4, <1>6, <1>7, <1>9, <1>13, <1>14, <1>15

LEMMA Capacity ==
    /\ MinKeys \in Nat /\ MinKeys >= 1 /\ 2 * MinKeys <= MaxKeys /\ MaxKeys \in Nat
    /\ MaxKeys <= 2 * MinKeys + 1
BY CapacityAssumption DEF MinKeys

LEMMA RemoveFromLeafStep ==
    ASSUME Inv, todo = <<>>, NEW rid \in Rids, RemoveFromLeaf(rid)
    PROVE  Inv'
<1> DEFINE n == pages[at]
           es == n.entries
           i == First({j \in 1 .. Len(es) : es[j] = <<key, rid>>}, Len(es) + 1)
           x == Leaf(RemoveAt(es, i), n.next)
<1>1. /\ pc = "descend" /\ n.leaf /\ root' = root /\ next' = next /\ UNCHANGED shape
  BY DEF RemoveFromLeaf, AtLeaf
<1>2. CASE i > Len(es) /\ Return /\ UNCHANGED <<pages, todo, content>>
  <2>1. UNCHANGED <<file, content, shape>>
    BY <1>1, <1>2 DEF file
  <2> QED BY <1>1, <1>2, <2>1, EndStep
<1>3. CASE /\ i <= Len(es) /\ Perform(<<Write(at, x)>>)
           /\ content' = content \ {<<key, rid>>} /\ pc' = "shrink"
           /\ UNCHANGED <<key, at, path, promoted, right, end, found>>
  <2>1. TypeOK /\ OnPath /\ found = {}
    BY <1>1 DEF Inv, Located
  <2>2. at \in Ids /\ low[at] <= key /\ key < high[at] /\ key \in Int
    BY <1>1, <2>1, Basics DEF OnPath, TypeOK
  <2>3. /\ level[at] = 0 /\ n = Ahead[at] /\ n \in Nodes /\ es \in Seq(Entries) /\ n.next \in Nat
        /\ low[at] \in Int /\ high[at] \in Int /\ Holds(es, low[at], high[at], content)
    BY <1>1, <2>2, PageIs
  <2>4. i \in 1 .. Len(es) /\ es[i] = <<key, rid>>
    <3> DEFINE S == {j \in 1 .. Len(es) : es[j] = <<key, rid>>}
               m == Len(es)
    <3>1. S \in SUBSET (1 .. m) /\ m \in Nat /\ i = First(S, m + 1) /\ i <= m
      BY <1>3, <2>3
    <3> HIDE DEF S, m, i
    <3>2. i \in S \cup {m + 1}
      BY ONLY <3>1, FirstIsLeast
    <3>3. i \in S
      BY ONLY <3>1, <3>2
    <3> QED BY <3>3 DEF S
  <2> HIDE DEF i
  <2>5. /\ RemoveAt(es, i) \in Seq(Entries) /\ Len(RemoveAt(es, i)) = Len(es) - 1
        /\ Holds(RemoveAt(es, i), low[at], high[at], content \ {es[i]})
    <3> DEFINE fs == RemoveAt(es, i)
               C == content
    <3>1. C \in SUBSET Entries /\ fs = RemoveAt(es, i)
      BY Basics
    <3>2. Holds(es, low[at], high[at], C)
      BY <2>3
    <3> HIDE DEF es, fs, C
    <3>3. /\ fs \in Seq(Entries) /\ Len(fs) = Len(es) - 1
          /\ Holds(fs, low[at], high[at], C \ {es[i]})
      BY ONLY <2>3, <2>4, <3>1, <3>2, HoldsRemove, ZenonT(30)
    <3> QED BY <3>3 DEF C, fs
  <2>6. /\ x \in Nodes /\ x.leaf /\ x.entries = RemoveAt(es, i) /\ x.next = n.next
        /\ Count(x) = Len(es) - 1
    BY <2>3, <2>5, LeafParts, SMTT(30)
  <2> HIDE DEF x
  <2>7. /\ Ids' = Ids /\ Placed' = Ids /\ Upper' = high
        /\ Ahead' = [y \in Ids |-> IF y = at THEN x ELSE Ahead[y]]
        /\ todo' = <<>> /\ pages' \in [DOMAIN pages' -> Nodes]
        /\ DOMAIN pages' \subseteq 1 .. next - 1
        /\ Good(Tree)' /\ Topped(Tree, root)' /\ Pending' /\ OnDiskAlready'
    <3>1. /\ content' \in SUBSET Entries /\ Holds(x.entries, low[at], high[at], content')
      BY <1>3, <2>1, <2>4, <2>5, <2>6 DEF TypeOK
    <3>2. \A e \in (content \ content') \cup (content' \ content) :
              low[at] <= e[1] /\ e[1] < high[at]
      <4>1. \A e \in (content \ content') \cup (content' \ content) : e = <<key, rid>>
        BY <1>3
      <4>2. <<key, rid>>[1] = key
        OBVIOUS
      <4> QED BY <4>1, <4>2, <2>2
    <3>3. pc # "grow" /\ pc' # "grow" /\ Perform(<<Write(at, x)>>) /\ x.next = pages[at].next
      BY <1>1, <1>3, <2>6 DEF x
    <3> QED BY <1>1, <2>2, <2>3, <2>6, <3>1, <3>2, <3>3, LeafWrite
  <2>8. low' = low /\ high' = high /\ level' = level
    BY <1>1 DEF shape
  <2>9. TypeOK'
    BY <1>1, <1>3, <2>1, <2>7, <2>8 DEF TypeOK
  <2>10. Unique'
    BY <1>3 DEF Inv, Unique
  <2>11. Filled'
    <3>1. /\ \A id \in Ids : Count(Ahead[id]) <= MaxKeys /\ (id # root => Count(Ahead[id]) >= MinKeys)
          /\ level[root] > 0 => Count(Ahead[root]) >= 1
      BY <1>1 DEF Inv, Filled, Least
    <3>2. Count(Ahead[at]) = Len(es) /\ Len(es) \in Nat
      BY <1>1, <2>3 DEF Count
    <3>3. ASSUME NEW id \in Ids
          PROVE  Count(Ahead'[id]) <= MaxKeys /\ (id # root => Count(Ahead'[id]) >= Least(id)')
      <4>1. CASE id = at
        <5>1. Count(Ahead'[id]) = Len(es) - 1 /\ Least(id)' = MinKeys - 1
          BY <4>1, <1>3, <2>6, <2>7 DEF Least
        <5> QED BY <5>1, <4>1, <3>1, <3>2, Capacity
      <4>2. CASE id # at
        BY <4>2, <3>1, <1>3, <2>7 DEF Least
      <4> QED BY <4>1, <4>2
    <3>4. level[root] > 0 => Count(Ahead'[root]) >= 1
      <4>1. root \in Ids
        BY Basics
      <4> QED BY <4>1, <3>1, <2>3, <2>7
    <3>5. \A id \in Ids : Least(id)' = (IF id = at THEN MinKeys - 1 ELSE MinKeys)
      BY <1>3 DEF Least
    <3> QED BY <1>1, <1>3, <3>3, <3>4, <2>7, <2>8 DEF Filled
  <2>12. Located'
    <3>1. OnPath'
      BY <1>1, <1>3, <2>1, <2>7, <2>8, Basics DEF OnPath
    <3> QED BY <3>1, <1>3, <2>1 DEF Located
  <2> QED BY <2>7, <2>9, <2>10, <2>11, <2>12 DEF Inv
<1> QED BY <1>2, <1>3 DEF RemoveFromLeaf

(***************************************************************************)
(* The end of a removal.                                                   *)
(***************************************************************************)
LEMMA RemoveEndStep ==
    ASSUME Inv, todo = <<>>, RemoveEnd
    PROVE  Inv'
<1>1. /\ pc = "shrink" /\ path = <<>> /\ Return /\ next' = next /\ todo' = <<>>
      /\ content' = content
  BY DEF RemoveEnd
<1>2. TypeOK /\ OnPath /\ at = root
  BY <1>1 DEF Inv, Located, OnPath
<1>3. /\ pc' = "idle" /\ key' \in Int /\ at' \in Nat /\ path' \in Seq(Nat) /\ promoted' \in Int
      /\ right' \in Nat /\ end' \in Int /\ Located'
  BY <1>1, <1>2, Returned
<1>4. /\ Tree.page = Ahead /\ Tree.lo = low /\ Tree.hi = high /\ Tree.lv = level /\ Tree.up = high
      /\ Tree.content = content /\ Good(Tree) /\ Topped(Tree, root) /\ Ahead \in [Ids -> Nodes]
      /\ Placed = Ids /\ Ids \subseteq Nat \ {0} /\ Ids \subseteq 1 .. next - 1 /\ root \in Ids
      /\ low \in [Ids -> Int] /\ high \in [Ids -> Int] /\ level \in [Ids -> Nat]
      /\ content \in SUBSET Entries
  BY <1>1, Basics
<1>5. Ids \subseteq DOMAIN pages /\ Ahead = [id \in Ids |-> pages[id]]
  BY Calm
<1>6. \A id \in Ids : Count(Ahead[id]) <= MaxKeys /\ (id # root => Count(Ahead[id]) >= MinKeys)
  BY <1>2 DEF Inv, Filled, Least
<1>7. pages[root] = Ahead[root] /\ (pages[root].leaf <=> level[root] = 0)
  BY <1>4, PageIs
<1>8. CASE /\ pages[root].leaf \/ pages[root].keys # <<>>
           /\ UNCHANGED <<root, pages, shape>>
  <2>1. UNCHANGED <<file, content, shape>>
    BY <1>1, <1>8 DEF file
  <2>2. /\ Ids' = Ids /\ Ahead' = Ahead
        /\ Good(Tree)' /\ Topped(Tree, root)' /\ Unique' /\ Pending' /\ OnDiskAlready'
    BY <1>1, <1>3, <2>1, Unmoved
  <2>3. /\ root' = root /\ pages' = pages /\ low' = low /\ level' = level
    BY <1>8 DEF shape
  <2>4. TypeOK'
    BY <1>1, <1>2, <1>3, <2>2, <2>3 DEF TypeOK
  <2>5. level[root] > 0 => Count(Ahead[root]) >= 1
    <3>1. ASSUME level[root] > 0 PROVE Count(Ahead[root]) >= 1
      <4>1. ~pages[root].leaf /\ pages[root].keys # <<>>
        BY <3>1, <1>4, <1>7, <1>8
      <4>2. pages[root].keys \in Seq(Separators)
        BY <1>4, <1>7, NodeParts
      <4>3. Len(pages[root].keys) # 0 /\ Len(pages[root].keys) \in Nat
        BY <4>1, <4>2, EmptySeq
      <4> QED BY <4>1, <4>3, <1>7 DEF Count
    <3> QED BY <3>1
  <2>6. Filled'
    BY <1>3, <1>6, <2>2, <2>3, <2>5 DEF Filled, Least
  <2> QED BY <1>3, <2>2, <2>4, <2>6 DEF Inv
<1>9. CASE /\ ~pages[root].leaf /\ pages[root].keys = <<>>
           /\ root' = pages[root].kids[1] /\ pages' = Without(pages, root)
           /\ low' = Without(low, root) /\ high' = Without(high, root)
           /\ level' = Without(level, root)
  <2> DEFINE T == Tree
             U == Tree'
             k == root'
  <2>1. /\ Ids' = Ids \ {root} /\ \A id \in Ids' : low'[id] = low[id] /\ high'[id] = high[id]
        /\ \A id \in Ids' : level'[id] = level[id]
        /\ low' \in [Ids' -> Int] /\ high' \in [Ids' -> Int] /\ level' \in [Ids' -> Nat]
    BY <1>4, <1>9 DEF Without, Ids
  <2>2. /\ DOMAIN pages' = DOMAIN pages \ {root} /\ \A id \in DOMAIN pages' : pages'[id] = pages[id]
        /\ pages' \in [DOMAIN pages' -> Nodes]
    BY <1>2, <1>9 DEF Without, TypeOK
  <2>3. Ids' \subseteq DOMAIN pages' /\ Len(todo') = 0
    BY <1>1, <1>5, <2>1, <2>2
  <2>4. Ahead' = [id \in Ids' |-> Ahead[id]]
    BY <1>5, <2>1, <2>2, <2>3 DEF Ahead
  <2>5. Placed' = Ids' /\ Upper' = high'
    BY <1>3, <2>1 DEF Placed, Upper
  <2>6. /\ U.page = Ahead' /\ U.lo = low' /\ U.hi = high' /\ U.lv = level' /\ U.up = high'
        /\ U.content = content
    BY <1>1, <2>5 DEF Tree
  <2> HIDE DEF T, U, k
  <2>7. Typed(U)
    <3>1. Ahead' \in [Ids' -> Nodes] /\ Ids' \subseteq Nat \ {0} /\ DOMAIN low' = Ids'
      BY <1>4, <2>1, <2>4
    <3> QED BY <3>1, <1>4, <2>1, <2>6 DEF Typed
  <2>8. Good(U) /\ Topped(U, k)
    <3>1. /\ Good(T) /\ T.up = T.hi /\ Topped(T, root) /\ T.lv[root] # 0
          /\ Len(T.page[root].keys) = 0 /\ k = T.page[root].kids[1]
      BY <1>4, <1>7, <1>9 DEF T, k
    <3>2. /\ DOMAIN U.lo = DOMAIN T.lo \ {root} /\ U.up = U.hi /\ U.content = T.content
          /\ \A x \in DOMAIN U.lo :
                U.lo[x] = T.lo[x] /\ U.hi[x] = T.hi[x] /\ U.lv[x] = T.lv[x]
          /\ \A x \in DOMAIN U.lo : U.page[x] = T.page[x]
      <4>1. DOMAIN U.lo = Ids' /\ DOMAIN T.lo = Ids
        BY <1>4, <2>1, <2>6 DEF T
      <4>2. /\ T.page = Ahead /\ T.lo = low /\ T.hi = high /\ T.lv = level
            /\ T.content = content
        BY <1>4 DEF T
      <4>3. ASSUME NEW x \in Ids'
            PROVE  /\ U.lo[x] = T.lo[x] /\ U.hi[x] = T.hi[x] /\ U.lv[x] = T.lv[x]
                   /\ U.page[x] = T.page[x]
        BY <4>2, <2>1, <2>4, <2>6
      <4> QED BY <4>1, <4>2, <4>3, <2>1, <2>6
    <3> QED BY ONLY <3>1, <3>2, <2>7, DropTop
  <2>9. Good(Tree)' /\ Topped(Tree, root)'
    BY <2>8 DEF U, k
  <2>10. root' \in Ids'
    BY <2>1, <2>6, <2>8 DEF Topped, k
  <2>11. TypeOK'
    <3>1. Ids' \subseteq 1 .. next' - 1 /\ DOMAIN pages' \subseteq 1 .. next' - 1 /\ root' \in Nat
      BY <1>1, <1>2, <1>4, <2>1, <2>2, <2>10 DEF TypeOK
    <3> QED BY <3>1, <1>1, <1>2, <1>3, <2>2 DEF TypeOK
  <2>12. Unique'
    BY <1>1 DEF Inv, Unique
  <2>13. Pending'
    BY <1>1, <2>3 DEF Pending
  <2>14. OnDiskAlready'
    <3>1. \A id \in DOMAIN U.lo \cap DOMAIN pages' : Early(T, U, id, pages'[id])
      BY <1>5, <2>1, <2>2, <2>4, <2>6 DEF Early
    <3>2. DiskOk(U, pages')
      BY <3>1, <1>4, <2>8, DiskStep DEF T
    <3> QED BY <3>2 DEF U, OnDiskAlready
  <2>15. Filled'
    <3>1. \A id \in Ids' : Count(Ahead'[id]) <= MaxKeys /\ Count(Ahead'[id]) >= MinKeys
      BY <1>6, <2>1, <2>4
    <3>2. Count(Ahead'[root']) >= 1
      <4>1. Count(Ahead'[root']) \in Nat
        <5>1. Ahead'[root'] \in Nodes
          BY <1>4, <2>1, <2>4, <2>10
        <5> QED BY <5>1, NodeParts
      <4> QED BY <4>1, <3>1, <2>10, Capacity
    <3> QED BY <3>1, <3>2, <1>3 DEF Filled, Least
  <2> QED BY <1>3, <2>9, <2>11, <2>12, <2>13, <2>14, <2>15 DEF Inv
<1> QED BY <1>8, <1>9 DEF RemoveEnd

(***************************************************************************)
(* Neighbours l and r, children j and j + 1 of p, exchange keys.           *)
(***************************************************************************)
LEMMA SiblingPages ==
    ASSUME Inv, todo = <<>>, pc # "grow", NEW p \in Ids, level[p] # 0,
           NEW j \in 1 .. Len(pages[p].keys), NEW l, NEW r, Neighbours(Tree, p, j, l, r)
    PROVE  /\ l \in Ids /\ r \in Ids /\ l # r /\ l # p /\ r # p
           /\ level[l] = level[p] - 1 /\ level[r] = level[p] - 1 /\ level[r] = level[l]
           /\ low[l] \in Int /\ high[l] \in Int /\ low[r] \in Int /\ high[r] \in Int
           /\ low[l] < high[l] /\ low[r] < high[r] /\ low[r] = high[l]
           /\ pages[l] \in Nodes /\ pages[r] \in Nodes
           /\ pages[l].leaf <=> level[l] = 0
           /\ pages[r].leaf <=> level[l] = 0
           /\ Fits(Tree, pages[l], low[l], high[l], level[l])
           /\ Fits(Tree, pages[r], high[l], high[r], level[l])
           /\ pages[p].keys[j] = high[l]
           /\ level[l] = 0 => pages[l].next = r
<1>1. /\ Tree.page = Ahead /\ Tree.lo = low /\ Tree.hi = high /\ Tree.lv = level /\ Tree.up = high
      /\ Good(Tree) /\ level \in [Ids -> Nat] /\ low \in [Ids -> Int] /\ high \in [Ids -> Int]
  BY Basics
<1>2. pages[p] = Tree.page[p] /\ p \in DOMAIN Tree.lo /\ Tree.lv[p] # 0 /\ Tree.up = Tree.hi
  BY <1>1, PageIs
<1> DEFINE T == Tree
<1>3. /\ l \in DOMAIN Tree.lo /\ r \in DOMAIN Tree.lo /\ l # r /\ l # p /\ r # p
      /\ Tree.lv[l] = Tree.lv[p] - 1 /\ Tree.lv[r] = Tree.lv[p] - 1
      /\ Tree.lo[l] \in Int /\ Tree.hi[l] \in Int /\ Tree.lo[r] \in Int /\ Tree.hi[r] \in Int
      /\ Tree.lo[l] < Tree.hi[l] /\ Tree.lo[r] < Tree.hi[r]
      /\ Tree.hi[l] = Tree.page[p].keys[j] /\ Tree.lo[r] = Tree.page[p].keys[j]
  <2>1. /\ Good(T) /\ T.up = T.hi /\ p \in DOMAIN T.lo /\ T.lv[p] # 0
        /\ j \in 1 .. Len(T.page[p].keys) /\ Neighbours(T, p, j, l, r)
    BY <1>1, <1>2
  <2> HIDE DEF T
  <2>2. /\ l \in DOMAIN T.lo /\ r \in DOMAIN T.lo /\ l # r /\ l # p /\ r # p
        /\ T.lv[l] = T.lv[p] - 1 /\ T.lv[r] = T.lv[p] - 1
        /\ T.lo[l] \in Int /\ T.hi[l] \in Int /\ T.lo[r] \in Int /\ T.hi[r] \in Int
        /\ T.lo[l] < T.hi[l] /\ T.lo[r] < T.hi[r]
        /\ T.hi[l] = T.page[p].keys[j] /\ T.lo[r] = T.page[p].keys[j]
    BY ONLY <2>1, Siblings
  <2> QED BY <2>2 DEF T
<1>4. l \in Ids /\ r \in Ids
  BY <1>1, <1>3
<1>5. /\ pages[l] \in Nodes /\ pages[l] = Tree.page[l] /\ (pages[l].leaf <=> level[l] = 0)
      /\ pages[r] \in Nodes /\ pages[r] = Tree.page[r] /\ (pages[r].leaf <=> level[r] = 0)
  BY <1>4, PageIs
<1>6. /\ Fits(Tree, pages[l], low[l], high[l], level[l])
      /\ Fits(Tree, pages[r], low[r], high[r], level[r])
  BY <1>1, <1>3, <1>5 DEF Good, NodeOk
<1>7. ASSUME level[l] = 0 PROVE pages[l].next = r
  <2>1. Tree.hi[l] = Tree.lo[r] /\ Tree.lv[l] = 0 /\ Tree.lv[r] = 0
    BY <1>1, <1>3, <1>7
  <2>2. Tree.page[l].next = r
    BY <2>1, <1>1, <1>3, OneBefore
  <2> QED BY <2>2, <1>5
<1>8. level[r] = level[l] /\ low[r] = high[l] /\ pages[p].keys[j] = high[l]
  BY <1>1, <1>2, <1>3
<1> QED BY <1>1, <1>3, <1>4, <1>5, <1>6, <1>7, <1>8

Trade(p, j, l, r, k, g, t, x) ==
    /\ Inv /\ todo = <<>> /\ pc = "shrink" /\ pc' = "shrink"
    /\ root' = root /\ next' = next /\ content' = content
    /\ p \in Ids /\ level[p] # 0 /\ j \in 1 .. Len(pages[p].keys) /\ Neighbours(Tree, p, j, l, r)
    /\ k \in Int /\ low[l] < k /\ k < high[r] /\ g \in Nodes /\ t \in Nodes
    /\ Fits(Tree, g, low[l], k, level[l]) /\ Fits(Tree, t, k, high[r], level[l])
    /\ level[l] = 0 => g.next = pages[l].next /\ t.next = pages[r].next
    /\ x = Inner([pages[p].keys EXCEPT ![j] = k], pages[p].kids)
    /\ \/ /\ Perform(<<Write(l, g), Write(r, t), Write(p, x)>>)
          /\ level[l] = 0 => Within(pages[r].entries, t.entries)
       \/ /\ Perform(<<Write(r, t), Write(l, g), Write(p, x)>>)
          /\ level[l] = 0 => Within(pages[l].entries, g.entries)
    /\ Redivide(l, r, k)

Traded(p, l, r, g, t, x) ==
    /\ Ids' = Ids /\ Placed' = Ids /\ Upper' = high' /\ level' = level
    /\ \A y \in Ids \ {l, r} : low'[y] = low[y] /\ high'[y] = high[y]
    /\ Ahead' = [y \in Ids |-> IF y = l THEN g ELSE IF y = r THEN t
                               ELSE IF y = p THEN x ELSE Ahead[y]]
    /\ x \in Nodes /\ Count(x) = Count(pages[p])
    /\ todo' \in Seq(Writes) /\ pages' \in [DOMAIN pages' -> Nodes]
    /\ DOMAIN pages' \subseteq 1 .. next - 1
    /\ Good(Tree)' /\ Topped(Tree, root)' /\ Pending' /\ OnDiskAlready'

LEMMA Exchange ==
    ASSUME NEW p, NEW j, NEW l, NEW r, NEW k, NEW g, NEW t, NEW x, Trade(p, j, l, r, k, g, t, x)
    PROVE  Traded(p, l, r, g, t, x)
<1> SUFFICES
      ASSUME Inv, todo = <<>>, pc = "shrink", pc' = "shrink", p \in Ids, level[p] # 0,
             j \in 1 .. Len(pages[p].keys), Neighbours(Tree, p, j, l, r),
             k \in Int, low[l] < k, k < high[r], g \in Nodes, t \in Nodes,
             Fits(Tree, g, low[l], k, level[l]), Fits(Tree, t, k, high[r], level[l]),
             level[l] = 0 => g.next = pages[l].next /\ t.next = pages[r].next,
             x = Inner([pages[p].keys EXCEPT ![j] = k], pages[p].kids),
             \/ /\ Perform(<<Write(l, g), Write(r, t), Write(p, x)>>)
                /\ level[l] = 0 => Within(pages[r].entries, t.entries)
             \/ /\ Perform(<<Write(r, t), Write(l, g), Write(p, x)>>)
                /\ level[l] = 0 => Within(pages[l].entries, g.entries),
             Redivide(l, r, k), root' = root, next' = next, content' = content
      PROVE  Traded(p, l, r, g, t, x)
  BY DEF Trade
<1> DEFINE T == Tree
           U == Tree'
           keys == pages[p].keys
           nk == [keys EXCEPT ![j] = k]
<1>1. /\ T.page = Ahead /\ T.lo = low /\ T.hi = high /\ T.lv = level /\ T.up = high
      /\ T.content = content /\ Good(T) /\ Topped(T, root) /\ Ahead \in [Ids -> Nodes]
      /\ Placed = Ids /\ Ids \subseteq Nat \ {0} /\ Ids \subseteq 1 .. next - 1
      /\ low \in [Ids -> Int] /\ high \in [Ids -> Int] /\ level \in [Ids -> Nat]
      /\ content \in SUBSET Entries
  BY Basics
<1>2. Ids \subseteq DOMAIN pages /\ Ahead = [y \in Ids |-> pages[y]]
  BY Calm
<1>3. /\ l \in Ids /\ r \in Ids /\ l # r /\ l # p /\ r # p
      /\ pages[l].leaf <=> level[l] = 0
      /\ level[r] = level[l]
  BY SiblingPages
<1>4. /\ low' = [low EXCEPT ![r] = k] /\ high' = [high EXCEPT ![l] = k] /\ level' = level
  BY DEF Redivide
<1>5. /\ Ids' = Ids /\ low' \in [Ids -> Int] /\ high' \in [Ids -> Int]
      /\ \A y \in Ids \ {l, r} : low'[y] = low[y] /\ high'[y] = high[y]
      /\ low'[l] = low[l] /\ low'[r] = k /\ high'[l] = k /\ high'[r] = high[r]
  BY <1>1, <1>3, <1>4 DEF Ids
<1>6. Placed' = Ids /\ Upper' = high'
  BY <1>5 DEF Placed, Upper
<1>7. /\ keys \in Seq(Separators) /\ pages[p].kids \in Seq(PageIds)
      /\ ~pages[p].leaf /\ pages[p] = T.page[p] /\ Len(keys) \in Nat
      /\ pages[p] \in Nodes
  <2>1. ~pages[p].leaf /\ pages[p] = T.page[p] /\ pages[p] \in Nodes
    BY PageIs
  <2> QED BY <2>1, NodeParts
<1>8. nk \in Seq(Separators) /\ Len(nk) = Len(keys) /\ Replaced(keys, Len(keys), j, k, nk)
  <2> DEFINE e == k
  <2>1. e \in Separators /\ keys \in Seq(Separators) /\ j \in 1 .. Len(keys)
    BY <1>7 DEF Separators
  <2>2. nk = [keys EXCEPT ![j] = e] /\ e = k
    OBVIOUS
  <2> HIDE DEF keys, e, nk
  <2>3. /\ [keys EXCEPT ![j] = e] \in Seq(Separators)
        /\ Len([keys EXCEPT ![j] = e]) = Len(keys)
        /\ \A m \in 1 .. Len(keys) : [keys EXCEPT ![j] = e][m] = IF m = j THEN e ELSE keys[m]
    BY ONLY <2>1, ExceptSeq
  <2> QED BY ONLY <2>1, <2>2, <2>3 DEF Replaced
<1>9. x \in Nodes /\ Count(x) = Len(keys) /\ Count(pages[p]) = Len(keys)
  BY <1>7, <1>8, InnerParts, NodeParts, ZenonT(30)
<1>10. Ids' \subseteq DOMAIN pages \cup {l, r, p}
  BY <1>2, <1>5
<1>11. /\ \/ /\ todo' = <<Write(r, t), Write(p, x)>>
             /\ pages' = [y \in DOMAIN pages \cup {l} |-> IF y = l THEN g ELSE pages[y]]
             /\ level[l] = 0 => Within(pages[r].entries, t.entries)
          \/ /\ todo' = <<Write(l, g), Write(p, x)>>
             /\ pages' = [y \in DOMAIN pages \cup {r} |-> IF y = r THEN t ELSE pages[y]]
             /\ level[l] = 0 => Within(pages[l].entries, g.entries)
       /\ Ahead' = [y \in Ids |-> IF y = l THEN g ELSE IF y = r THEN t
                                  ELSE IF y = p THEN x ELSE pages[y]]
  <2>1. CASE Perform(<<Write(l, g), Write(r, t), Write(p, x)>>)
             /\ (level[l] = 0 => Within(pages[r].entries, t.entries))
    <3>0. Perform(<<Write(l, g), Write(r, t), Write(p, x)>>) /\ l # r /\ l # p /\ r # p
      BY <2>1, <1>3
    <3>2. pages' = [y \in DOMAIN pages \cup {l} |-> IF y = l THEN g ELSE pages[y]]
      <4>1. pages' = Put(pages, Write(l, g))
        BY <3>0 DEF Perform
      <4>2. Write(l, g).page = l /\ Write(l, g).node = g /\ Write(l, g).drop = {}
        BY DEF Write
      <4> QED BY ONLY <4>1, <4>2 DEF Put
    <3>3. todo' = <<Write(r, t), Write(p, x)>>
      BY <3>0 DEF Perform
    <3>4. /\ Len(todo') = 2 /\ todo'[1].page = r /\ todo'[1].node = t
          /\ todo'[2].page = p /\ todo'[2].node = x
      BY <3>3 DEF Write
    <3>1. /\ todo' = <<Write(r, t), Write(p, x)>>
          /\ pages' = [y \in DOMAIN pages \cup {l} |-> IF y = l THEN g ELSE pages[y]]
          /\ Ahead' = [y \in Ids' |-> IF y = l THEN g ELSE IF y = r THEN t
                                      ELSE IF y = p THEN x ELSE pages[y]]
      <4>1. ASSUME NEW y \in Ids'
            PROVE  Ahead'[y] = IF y = l THEN g ELSE IF y = r THEN t
                               ELSE IF y = p THEN x ELSE pages[y]
        <5>1. Ahead'[y] = IF y = r THEN t ELSE IF y = p THEN x ELSE pages'[y]
          BY <3>4 DEF Ahead
        <5>2. y \in DOMAIN pages \cup {l, r, p}
          BY <1>10
        <5> QED BY <3>0, <3>2, <5>1, <5>2
      <4>2. DOMAIN Ahead' = Ids' /\ Ahead' = [y \in Ids' |-> Ahead'[y]]
        BY DEF Ahead
      <4> QED BY <3>2, <3>3, <4>1, <4>2
    <3> QED BY <2>1, <3>1, <1>5
  <2>2. CASE Perform(<<Write(r, t), Write(l, g), Write(p, x)>>)
             /\ (level[l] = 0 => Within(pages[l].entries, g.entries))
    <3>0. /\ Perform(<<Write(r, t), Write(l, g), Write(p, x)>>) /\ r # l /\ l # p /\ r # p
          /\ Ids' \subseteq DOMAIN pages \cup {r, l, p}
      BY <2>2, <1>3, <1>10
    <3>2. pages' = [y \in DOMAIN pages \cup {r} |-> IF y = r THEN t ELSE pages[y]]
      <4>1. pages' = Put(pages, Write(r, t))
        BY <3>0 DEF Perform
      <4>2. Write(r, t).page = r /\ Write(r, t).node = t /\ Write(r, t).drop = {}
        BY DEF Write
      <4> QED BY ONLY <4>1, <4>2 DEF Put
    <3>3. todo' = <<Write(l, g), Write(p, x)>>
      BY <3>0 DEF Perform
    <3>4. /\ Len(todo') = 2 /\ todo'[1].page = l /\ todo'[1].node = g
          /\ todo'[2].page = p /\ todo'[2].node = x
      BY <3>3 DEF Write
    <3>1. /\ todo' = <<Write(l, g), Write(p, x)>>
          /\ pages' = [y \in DOMAIN pages \cup {r} |-> IF y = r THEN t ELSE pages[y]]
          /\ Ahead' = [y \in Ids' |-> IF y = r THEN t ELSE IF y = l THEN g
                                      ELSE IF y = p THEN x ELSE pages[y]]
      <4>1. ASSUME NEW y \in Ids'
            PROVE  Ahead'[y] = IF y = r THEN t ELSE IF y = l THEN g
                               ELSE IF y = p THEN x ELSE pages[y]
        <5>1. Ahead'[y] = IF y = l THEN g ELSE IF y = p THEN x ELSE pages'[y]
          BY <3>4 DEF Ahead
        <5>2. y \in DOMAIN pages \cup {r, l, p}
          BY <1>10
        <5> QED BY <3>0, <3>2, <5>1, <5>2
      <4>2. DOMAIN Ahead' = Ids' /\ Ahead' = [y \in Ids' |-> Ahead'[y]]
        BY DEF Ahead
      <4> QED BY <3>2, <3>3, <4>1, <4>2
    <3>5. Ahead' = [y \in Ids |-> IF y = l THEN g ELSE IF y = r THEN t
                                  ELSE IF y = p THEN x ELSE pages[y]]
      BY <3>1, <1>3, <1>5
    <3> QED BY <2>2, <3>1, <3>5
  <2> QED BY <2>1, <2>2
<1>12. Ahead' = [y \in Ids |-> IF y = l THEN g ELSE IF y = r THEN t
                               ELSE IF y = p THEN x ELSE Ahead[y]]
  BY <1>2, <1>11
<1>13. /\ U.page = Ahead' /\ U.lo = low' /\ U.hi = high' /\ U.lv = level /\ U.up = high'
       /\ U.content = content
  BY <1>4, <1>6 DEF Tree
<1>14. x = Inner(nk, T.page[p].kids)
  BY <1>7
<1> HIDE DEF T, U, keys, nk
<1>15. Typed(U)
  <2>1. Ahead' \in [Ids -> Nodes]
    BY <1>1, <1>9, <1>12
  <2> QED BY <1>1, <1>5, <1>13, <2>1 DEF Typed, Ids
<1>16. Good(U) /\ Topped(U, root)
  <2>1. /\ Good(T) /\ T.up = T.hi /\ Topped(T, root) /\ p \in DOMAIN T.lo /\ T.lv[p] # 0
        /\ Neighbours(T, p, j, l, r) /\ k \in Int /\ T.lo[l] < k /\ k < T.hi[r]
    BY <1>1 DEF T
  <2>2. j \in 1 .. Len(T.page[p].keys) /\ keys = T.page[p].keys
    BY <1>7 DEF keys
  <2>3. /\ DOMAIN U.lo = DOMAIN T.lo /\ U.lv = T.lv /\ U.up = U.hi /\ U.content = T.content
        /\ \A y \in DOMAIN T.lo \ {r} : U.lo[y] = T.lo[y]
        /\ \A y \in DOMAIN T.lo \ {l} : U.hi[y] = T.hi[y]
        /\ U.lo[r] = k /\ U.hi[l] = k
    <3>1. DOMAIN T.lo = Ids /\ DOMAIN U.lo = Ids
      BY <1>1, <1>5, <1>13
    <3> QED BY <3>1, <1>1, <1>3, <1>5, <1>13, ZenonT(30)
  <2>4. \A y \in DOMAIN T.lo \ {l, r, p} : U.page[y] = T.page[y]
    BY <1>1, <1>12, <1>13
  <2>5. U.page[l] = g /\ U.page[r] = t /\ U.page[p] = x
    BY <1>3, <1>12, <1>13
  <2>6. /\ Fits(T, U.page[l], T.lo[l], k, T.lv[l]) /\ Fits(T, U.page[r], k, T.hi[r], T.lv[r])
        /\ T.lv[l] = 0 => U.page[l].next = T.page[l].next /\ U.page[r].next = T.page[r].next
        /\ U.page[p] = Inner(nk, T.page[p].kids)
    BY <2>5, <1>1, <1>2, <1>3, <1>14 DEF T
  <2>7. Len(nk) = Len(T.page[p].keys) /\ Replaced(T.page[p].keys, Len(T.page[p].keys), j, k, nk)
    BY <1>8, <2>2
  <2> QED BY ONLY <2>1, <2>2, <2>3, <2>4, <2>6, <2>7, <1>15, Redivided
<1>17. Good(Tree)' /\ Topped(Tree, root)'
  BY <1>16 DEF U
<1>18. /\ todo' \in Seq(Writes) /\ Len(todo') = 2 /\ Ids \subseteq DOMAIN pages'
       /\ \A i \in 1 .. 2 : todo'[i].page \in Ids /\ todo'[i].drop = {}
       /\ todo'[1].page # todo'[2].page
  <2>1. Write(l, g) \in Writes /\ Write(r, t) \in Writes /\ Write(p, x) \in Writes
    BY <1>1, <1>3, <1>9 DEF Write, Writes
  <2>2. /\ Write(l, g).page = l /\ Write(l, g).drop = {}
        /\ Write(r, t).page = r /\ Write(r, t).drop = {}
        /\ Write(p, x).page = p /\ Write(p, x).drop = {}
    BY DEF Write
  <2>3. ASSUME NEW a \in Writes, NEW b \in Writes, todo' = <<a, b>>
        PROVE  todo' \in Seq(Writes) /\ Len(todo') = 2 /\ todo'[1] = a /\ todo'[2] = b
    BY <2>3
  <2>4. Ids \subseteq DOMAIN pages'
    BY <1>2, <1>11
  <2>5. PICK a \in {l, r} : \E b \in Writes :
           todo' = <<b, Write(p, x)>> /\ b.page = a /\ b.drop = {}
    BY <1>11, <2>1, <2>2
  <2>6. PICK b \in Writes : todo' = <<b, Write(p, x)>> /\ b.page = a /\ b.drop = {}
    BY <2>5
  <2>7. todo' \in Seq(Writes) /\ Len(todo') = 2 /\ todo'[1] = b /\ todo'[2] = Write(p, x)
    BY <2>1, <2>3, <2>6
  <2>8. /\ todo'[1].page = a /\ todo'[1].drop = {} /\ todo'[2].page = p /\ todo'[2].drop = {}
    BY <2>2, <2>6, <2>7
  <2>9. a \in Ids /\ p \in Ids /\ a # p
    BY <1>3
  <2>10. \A i \in 1 .. 2 : i = 1 \/ i = 2
    OBVIOUS
  <2> QED BY ONLY <2>4, <2>7, <2>8, <2>9, <2>10
<1>19. Pending'
  <2>1. pc' \in {"grow", "shrink"} /\ Len(todo') <= 2
    BY <1>18
  <2>2. ASSUME NEW i \in 1 .. Len(todo')
        PROVE  /\ todo'[i].page \in Ids /\ todo'[i].drop \cap Ids = {}
               /\ \A m \in 1 .. Len(todo') : i # m => todo'[i].page # todo'[m].page
    <3>1. i = 1 \/ i = 2
      BY <1>18
    <3>2. ASSUME NEW m \in 1 .. Len(todo'), i # m PROVE todo'[i].page # todo'[m].page
      <4>1. m = 1 \/ m = 2
        BY <1>18
      <4> QED BY <3>1, <3>2, <4>1, <1>18
    <3> QED BY <3>1, <3>2, <1>18
  <2> QED BY <2>1, <2>2, <1>5, <1>18 DEF Pending
<1>20. pages' \in [DOMAIN pages' -> Nodes] /\ DOMAIN pages' \subseteq 1 .. next - 1
  <2>1. pages \in [DOMAIN pages -> Nodes] /\ DOMAIN pages \subseteq 1 .. next - 1
    BY DEF Inv, TypeOK
  <2> QED BY <2>1, <1>1, <1>3, <1>11, ZenonT(30)
<1>21. OnDiskAlready'
  <2>1. ASSUME NEW y \in DOMAIN U.lo \cap DOMAIN pages' PROVE Early(T, U, y, pages'[y])
    <3>1. y \in Ids /\ T.page[y] = pages[y] /\ y \in DOMAIN T.lo /\ U.lv[y] = T.lv[y]
      BY <1>1, <1>2, <1>5, <1>13
    <3>2. CASE y \notin {l, r, p}
      BY <3>1, <3>2, <1>2, <1>11, <1>12, <1>13 DEF Early
    <3>3. CASE y = p
      <4>1. pages'[y] = pages[y]
        BY <3>1, <3>3, <1>3, <1>11
      <4> QED BY <4>1, <3>1, <3>3, <1>1 DEF Early
    <3>4. CASE y \in {l, r} /\ pages'[y] = U.page[y]
      BY <3>4 DEF Early
    <3>5. CASE y \in {l, r} /\ pages'[y] # U.page[y]
      <4>1. U.page[l] = g /\ U.page[r] = t
        BY <1>3, <1>12, <1>13
      <4>2. \/ y = r /\ pages'[y] = pages[y] /\ (level[l] = 0 => Within(pages[r].entries, t.entries))
            \/ y = l /\ pages'[y] = pages[y] /\ (level[l] = 0 => Within(pages[l].entries, g.entries))
        BY <3>1, <3>5, <4>1, <1>2, <1>3, <1>11
      <4> QED BY <4>1, <4>2, <3>1, <1>1, <1>3 DEF Early
    <3> QED BY <3>2, <3>3, <3>4, <3>5
  <2>2. DiskOk(U, pages')
    BY <2>1, <1>1, <1>16, DiskStep
  <2> QED BY <2>2 DEF U, OnDiskAlready
<1> QED BY <1>4, <1>5, <1>6, <1>9, <1>12, <1>17, <1>18, <1>19, <1>20, <1>21 DEF Traded

(***************************************************************************)
(* Neighbour l, child j of p, swallows neighbour r.                        *)
(***************************************************************************)
Merger(p, j, l, r, b, x) ==
    /\ Inv /\ todo = <<>> /\ pc = "shrink" /\ pc' = "shrink"
    /\ root' = root /\ next' = next /\ content' = content
    /\ p \in Ids /\ level[p] # 0 /\ j \in 1 .. Len(pages[p].keys) /\ Neighbours(Tree, p, j, l, r)
    /\ b \in Nodes /\ Fits(Tree, b, low[l], high[r], level[l])
    /\ level[l] = 0 => b.next = pages[r].next
    /\ x = Inner(RemoveAt(pages[p].keys, j), RemoveAt(pages[p].kids, j + 1))
    /\ Perform(<<Write(l, b), WriteDropping(p, x, r)>>) /\ Absorb(l, r)

Merged(p, l, r, b, x) ==
    /\ Ids' = Ids \ {r} /\ Placed' = Ids' /\ Upper' = high'
    /\ \A y \in Ids \ {r} : low'[y] = low[y] /\ level'[y] = level[y]
    /\ \A y \in Ids \ {l, r} : high'[y] = high[y]
    /\ high'[l] = high[r]
    /\ Ahead' = [y \in Ids \ {r} |-> IF y = l THEN b ELSE IF y = p THEN x ELSE Ahead[y]]
    /\ x \in Nodes /\ Count(x) = Count(pages[p]) - 1
    /\ todo' \in Seq(Writes) /\ pages' \in [DOMAIN pages' -> Nodes]
    /\ DOMAIN pages' \subseteq 1 .. next - 1
    /\ Good(Tree)' /\ Topped(Tree, root)' /\ Pending' /\ OnDiskAlready'

LEMMA Swallow ==
    ASSUME NEW p, NEW j, NEW l, NEW r, NEW b, NEW x, Merger(p, j, l, r, b, x)
    PROVE  Merged(p, l, r, b, x)
<1> SUFFICES
      ASSUME Inv, todo = <<>>, pc = "shrink", pc' = "shrink", p \in Ids, level[p] # 0,
             j \in 1 .. Len(pages[p].keys), Neighbours(Tree, p, j, l, r),
             b \in Nodes, Fits(Tree, b, low[l], high[r], level[l]),
             level[l] = 0 => b.next = pages[r].next,
             x = Inner(RemoveAt(pages[p].keys, j), RemoveAt(pages[p].kids, j + 1)),
             Perform(<<Write(l, b), WriteDropping(p, x, r)>>), Absorb(l, r),
             root' = root, next' = next, content' = content
      PROVE  Merged(p, l, r, b, x)
  BY DEF Merger
<1> DEFINE T == Tree
           U == Tree'
           keys == pages[p].keys
           kids == pages[p].kids
           nk == RemoveAt(keys, j)
           nc == RemoveAt(kids, j + 1)
<1>1. /\ T.page = Ahead /\ T.lo = low /\ T.hi = high /\ T.lv = level /\ T.up = high
      /\ T.content = content /\ Good(T) /\ Topped(T, root) /\ Ahead \in [Ids -> Nodes]
      /\ Placed = Ids /\ Ids \subseteq Nat \ {0} /\ Ids \subseteq 1 .. next - 1
      /\ low \in [Ids -> Int] /\ high \in [Ids -> Int] /\ level \in [Ids -> Nat]
      /\ content \in SUBSET Entries
  BY Basics
<1>2. Ids \subseteq DOMAIN pages /\ Ahead = [y \in Ids |-> pages[y]]
  BY Calm
<1>3. /\ l \in Ids /\ r \in Ids /\ l # r /\ l # p /\ r # p
      /\ level[r] = level[l]
  BY SiblingPages
<1>4. /\ low' = Without(low, r) /\ high' = Without([high EXCEPT ![l] = high[r]], r)
      /\ level' = Without(level, r)
  BY DEF Absorb
<1>5. /\ Ids' = Ids \ {r} /\ DOMAIN low' = Ids \ {r}
      /\ low' \in [Ids \ {r} -> Int] /\ high' \in [Ids \ {r} -> Int]
      /\ level' \in [Ids \ {r} -> Nat]
      /\ \A y \in Ids \ {r} : low'[y] = low[y] /\ level'[y] = level[y]
      /\ \A y \in Ids \ {l, r} : high'[y] = high[y]
      /\ high'[l] = high[r]
  BY <1>1, <1>3, <1>4 DEF Ids, Without
<1>6. Placed' = Ids' /\ Upper' = high'
  BY <1>5 DEF Placed, Upper
<1>7. /\ keys \in Seq(Separators) /\ kids \in Seq(PageIds) /\ Len(keys) \in Nat
      /\ ~pages[p].leaf /\ pages[p] = T.page[p] /\ pages[p] \in Nodes
      /\ Len(kids) = Len(keys) + 1
  <2>1. /\ ~pages[p].leaf /\ pages[p] = T.page[p] /\ pages[p] \in Nodes
        /\ p \in DOMAIN Tree.lo /\ Tree.lv[p] # 0 /\ Good(Tree)
    BY <1>1, PageIs
  <2>2. Len(T.page[p].kids) = Len(T.page[p].keys) + 1
    BY <2>1, InnerFacts
  <2> QED BY <2>1, <2>2, NodeParts
<1>8. /\ nk \in Seq(Separators) /\ Len(nk) = Len(keys) - 1 /\ Removed(keys, Len(keys), j, nk)
      /\ nc \in Seq(PageIds) /\ Len(nc) = Len(keys)
      /\ Removed(kids, Len(keys) + 1, j + 1, nc)
  <2> DEFINE i == j + 1
             n == Len(kids)
  <2>1. i \in 1 .. Len(kids) /\ n = Len(keys) + 1 /\ n = Len(kids) /\ i = j + 1
    BY <1>7
  <2> HIDE DEF i, n
  <2>2. /\ RemoveAt(keys, j) \in Seq(Separators) /\ Len(RemoveAt(keys, j)) = Len(keys) - 1
        /\ Removed(keys, Len(keys), j, RemoveAt(keys, j))
    <3> HIDE DEF keys
    <3>1. j \in 1 .. Len(keys)
      BY DEF keys
    <3> QED BY ONLY <3>1, <1>7, Removes
  <2>3. /\ RemoveAt(kids, i) \in Seq(PageIds) /\ Len(RemoveAt(kids, i)) = Len(kids) - 1
        /\ Removed(kids, Len(kids), i, RemoveAt(kids, i))
    <3> HIDE DEF kids
    <3> QED BY ONLY <2>1, <1>7, Removes
  <2> QED BY <2>1, <2>2, <2>3, <1>7
<1>9. x \in Nodes /\ Count(x) = Len(keys) - 1 /\ Count(pages[p]) = Len(keys)
  BY <1>7, <1>8, InnerParts, NodeParts, ZenonT(30)
<1> HIDE DEF nk, nc
<1>10. /\ todo' = <<[page |-> p, node |-> x, drop |-> {r}]>>
       /\ pages' = [y \in DOMAIN pages \cup {l} |-> IF y = l THEN b ELSE pages[y]]
       /\ Ahead' = [y \in Ids \ {r} |-> IF y = l THEN b ELSE IF y = p THEN x ELSE pages[y]]
  <2>1. pages' = Put(pages, Write(l, b)) /\ todo' = <<WriteDropping(p, x, r)>>
    BY DEF Perform
  <2>2. Write(l, b).page = l /\ Write(l, b).node = b /\ Write(l, b).drop = {}
    BY DEF Write
  <2>3. pages' = [y \in DOMAIN pages \cup {l} |-> IF y = l THEN b ELSE pages[y]]
    BY ONLY <2>1, <2>2 DEF Put
  <2>4. todo' = <<[page |-> p, node |-> x, drop |-> {r}]>>
    BY <2>1 DEF WriteDropping
  <2>5. Len(todo') = 1 /\ todo'[1].page = p /\ todo'[1].node = x
    BY <2>4
  <2>6. ASSUME NEW y \in Ids \ {r}
        PROVE  Ahead'[y] = IF y = l THEN b ELSE IF y = p THEN x ELSE pages[y]
    <3>1. Ahead'[y] = IF y = p THEN x ELSE pages'[y]
      BY <1>5, <2>5 DEF Ahead
    <3> QED BY <3>1, <2>3, <1>2, <1>3
  <2>7. Ahead' = [y \in Ids \ {r} |-> Ahead'[y]]
    BY <1>5 DEF Ahead
  <2> QED BY <2>3, <2>4, <2>6, <2>7
<1>11. Ahead' = [y \in Ids \ {r} |-> IF y = l THEN b ELSE IF y = p THEN x ELSE Ahead[y]]
  BY <1>2, <1>10
<1>12. /\ U.page = Ahead' /\ U.lo = low' /\ U.hi = high' /\ U.lv = level' /\ U.up = high'
       /\ U.content = content
  BY <1>6 DEF Tree
<1> HIDE DEF T, U
<1>13. Typed(U)
  <2>1. Ahead' \in [Ids \ {r} -> Nodes]
    BY <1>1, <1>9, <1>11
  <2> QED BY <1>1, <1>5, <1>12, <2>1 DEF Typed
<1>14. Good(U) /\ Topped(U, root)
  <2>1. /\ Good(T) /\ T.up = T.hi /\ Topped(T, root) /\ p \in DOMAIN T.lo /\ T.lv[p] # 0
        /\ Neighbours(T, p, j, l, r)
    BY <1>1 DEF T
  <2>2. j \in 1 .. Len(T.page[p].keys) /\ keys = T.page[p].keys /\ kids = T.page[p].kids
    BY <1>7
  <2>3. /\ DOMAIN U.lo = DOMAIN T.lo \ {r} /\ U.up = U.hi /\ U.content = T.content
        /\ \A y \in DOMAIN T.lo \ {r} : U.lo[y] = T.lo[y] /\ U.lv[y] = T.lv[y]
        /\ \A y \in DOMAIN T.lo \ {l, r} : U.hi[y] = T.hi[y]
        /\ U.hi[l] = T.hi[r]
    <3>1. DOMAIN T.lo = Ids /\ DOMAIN U.lo = Ids \ {r}
      BY <1>1, <1>5, <1>12
    <3> QED BY <3>1, <1>1, <1>5, <1>12
  <2>4. \A y \in DOMAIN T.lo \ {l, r, p} : U.page[y] = T.page[y]
    BY <1>1, <1>11, <1>12
  <2>5. U.page[l] = b /\ U.page[p] = x
    BY <1>3, <1>11, <1>12
  <2>6. /\ Fits(T, U.page[l], T.lo[l], T.hi[r], T.lv[l])
        /\ T.lv[l] = 0 => U.page[l].next = T.page[r].next
        /\ U.page[p] = Inner(nk, nc)
    BY <2>5, <1>1, <1>2, <1>3 DEF T, nk, nc
  <2>7. /\ Len(nk) = Len(T.page[p].keys) - 1 /\ Len(nc) = Len(T.page[p].keys)
        /\ Removed(T.page[p].keys, Len(T.page[p].keys), j, nk)
        /\ Removed(T.page[p].kids, Len(T.page[p].keys) + 1, j + 1, nc)
    BY <1>8, <2>2
  <2> QED BY ONLY <2>1, <2>2, <2>3, <2>4, <2>6, <2>7, <1>13, Absorbed
<1>15. Good(Tree)' /\ Topped(Tree, root)'
  BY <1>14 DEF U
<1>16. /\ todo' \in Seq(Writes) /\ Len(todo') = 1 /\ Ids \subseteq DOMAIN pages'
       /\ todo'[1].page = p /\ todo'[1].drop = {r}
  <2>1. [page |-> p, node |-> x, drop |-> {r}] \in Writes
    BY <1>1, <1>3, <1>9 DEF Writes
  <2>2. Ids \subseteq DOMAIN pages'
    BY <1>2, <1>10
  <2> QED BY <2>1, <2>2, <1>10
<1>17. Pending'
  <2>1. \A i \in 1 .. Len(todo') : i = 1
    BY <1>16
  <2>2. p \in Ids' /\ {r} \cap Ids' = {} /\ Ids' \subseteq DOMAIN pages'
    BY <1>3, <1>5, <1>16
  <2> QED BY <2>1, <2>2, <1>16 DEF Pending
<1>18. pages' \in [DOMAIN pages' -> Nodes] /\ DOMAIN pages' \subseteq 1 .. next - 1
  <2>1. pages \in [DOMAIN pages -> Nodes] /\ DOMAIN pages \subseteq 1 .. next - 1
    BY DEF Inv, TypeOK
  <2> QED BY <2>1, <1>1, <1>3, <1>10
<1>19. OnDiskAlready'
  <2>1. ASSUME NEW y \in DOMAIN U.lo \cap DOMAIN pages' PROVE Early(T, U, y, pages'[y])
    <3>1. /\ y \in Ids \ {r} /\ T.page[y] = pages[y] /\ y \in DOMAIN T.lo /\ U.lv[y] = T.lv[y]
      <4>1. y \in Ids \ {r}
        BY <1>5, <1>12
      <4>2. DOMAIN T.lo = Ids /\ T.page[y] = Ahead[y] /\ T.lv[y] = level[y]
        BY <1>1
      <4>3. Ahead[y] = pages[y] /\ U.lv[y] = level[y]
        BY <4>1, <1>2, <1>5, <1>12
      <4> QED BY ONLY <4>1, <4>2, <4>3
    <3>2. CASE y \notin {l, p}
      BY <3>1, <3>2, <1>2, <1>10, <1>11, <1>12 DEF Early
    <3>3. CASE y = p
      <4>1. pages'[y] = pages[y]
        BY <3>1, <3>3, <1>2, <1>3, <1>10
      <4> QED BY <4>1, <3>1, <3>3, <1>1 DEF Early
    <3>4. CASE y = l
      BY <3>1, <3>4, <1>10, <1>11, <1>12 DEF Early
    <3> QED BY <3>2, <3>3, <3>4
  <2>2. DiskOk(U, pages')
    BY <2>1, <1>1, <1>14, DiskStep
  <2> QED BY <2>2 DEF U, OnDiskAlready
<1>20. x \in Nodes /\ Count(x) = Count(pages[p]) - 1
  BY <1>9
<1> QED BY <1>5, <1>6, <1>11, <1>15, <1>16, <1>17, <1>18, <1>19, <1>20 DEF Merged

(***************************************************************************)
(* The way back up.                                                        *)
(***************************************************************************)
\* the node above the one at hand, and which of its children that is
LEMMA ParentFacts ==
    ASSUME Inv, todo = <<>>, pc \in {"grow", "shrink"}, path # <<>>, NEW p, p = Last(path)
    PROVE  /\ p \in Ids /\ p \in Placed /\ p # at /\ at \in Ids
           /\ level[p] = level[at] + 1 /\ level[p] # 0 /\ level[at] \in Nat
           /\ at # root /\ level[root] >= level[p] /\ key \in Int
           /\ low[p] <= key /\ key < high[p]
           /\ ~pages[p].leaf /\ pages[p].keys \in Seq(Separators)
           /\ pages[p].kids \in Seq(PageIds)
           /\ Len(pages[p].keys) \in Nat /\ Len(pages[p].kids) = Len(pages[p].keys) + 1
           /\ ChildIndex(pages[p], key) \in 1 .. Len(pages[p].keys) + 1
           /\ pages[p].kids[ChildIndex(pages[p], key)] = at
           /\ pages[p] = Ahead[p] /\ pages[p] \in Nodes
<1>1. /\ Tree.page = Ahead /\ Tree.lo = low /\ Tree.hi = high /\ Tree.lv = level /\ Tree.up = Upper
      /\ Good(Tree) /\ Topped(Tree, root) /\ DOMAIN Upper = Placed /\ Placed \subseteq Ids
      /\ low \in [Ids -> Int] /\ high \in [Ids -> Int] /\ level \in [Ids -> Nat]
  BY Basics
<1>2. OnPath /\ TypeOK
  BY DEF Inv, Located
<1>3. Len(path) \in Nat \ {0} /\ p = path[Len(path)] /\ path \in Seq(Nat)
  BY <1>2, EmptySeq DEF TypeOK, Last
<1>4. /\ p \in Placed /\ level[p] = level[at] + Len(path) + 1 - Len(path)
      /\ low[p] <= key /\ key < Upper[p]
  BY <1>2, <1>3 DEF OnPath
<1>5. at \in Placed /\ low[at] <= key /\ key < Upper[at] /\ key \in Int /\ level[at] \in Nat
  BY <1>1, <1>2 DEF OnPath, TypeOK
<1>6. level[p] = level[at] + 1 /\ p # at /\ level[p] # 0 /\ p \in Ids
  <2> DEFINE a == level[at]
             n == Len(path)
  <2>1. a \in Int /\ n \in Int /\ level[p] = a + n + 1 - n
    BY <1>3, <1>4, <1>5
  <2> HIDE DEF a, n
  <2>2. level[p] = a + 1
    BY ONLY <2>1
  <2> QED BY <2>2, <1>1, <1>4, <1>5 DEF a
<1>7. Upper[p] = high[p]
  BY <1>4, <1>6 DEF Upper
<1>8. at # root /\ level[root] >= level[p]
  <2>1. \A x \in Placed \ {root} : level[x] < level[root]
    BY <1>1 DEF Topped
  <2>2. p = root \/ level[p] < level[root]
    BY <2>1, <1>4
  <2>3. level[root] \in Nat /\ level[p] \in Nat
    BY <1>1, Basics, <1>6
  <2> QED BY <2>2, <2>3, <1>5, <1>6
<1>9. pages[p] = Tree.page[p] /\ pages[p] = Ahead[p] /\ pages[p] \in Nodes /\ p \in DOMAIN Tree.lo
  BY <1>1, <1>6, PageIs
<1> DEFINE i == ChildIndex(pages[p], key)
           c == pages[p].kids[i]
<1>10. /\ i \in 1 .. Len(pages[p].keys) + 1 /\ c \in Placed /\ c \in Ids
       /\ level[c] = level[p] - 1 /\ low[c] <= key /\ key < Upper[c]
  <2> DEFINE T == Tree
             k == key
             h == i
  <2>1. /\ Good(T) /\ p \in DOMAIN T.lo /\ T.lv[p] # 0 /\ k \in Int
        /\ T.lo[p] <= k /\ k < T.hi[p] /\ h = ChildIndex(T.page[p], k)
    BY <1>1, <1>4, <1>5, <1>6, <1>7, <1>9
  <2> HIDE DEF T, k, h
  <2>2. /\ h \in 1 .. Len(T.page[p].keys) + 1
        /\ T.page[p].kids[h] \in DOMAIN T.up /\ T.page[p].kids[h] \in DOMAIN T.lo
        /\ T.lv[T.page[p].kids[h]] = T.lv[p] - 1
        /\ T.lo[T.page[p].kids[h]] <= k /\ k < T.up[T.page[p].kids[h]]
    BY ONLY <2>1, ChildOnWay
  <2> QED BY <2>2, <1>1, <1>9 DEF T, k, h
<1> HIDE DEF i, c
<1>11. c = at
  <2> SUFFICES ASSUME c # at PROVE FALSE
    OBVIOUS
  <2>1. level[c] = level[at] /\ Upper[c] = high[c] /\ (pc = "grow" => c # right)
    BY <1>5, <1>6, <1>10 DEF Upper, Placed
  <2>2. \E x \in Ids : x # c /\ level[x] = level[c] /\ low[x] <= key /\ key < high[x]
    <3>1. CASE key < high[at]
      BY <2>1, <3>1, <1>1, <1>5
    <3>2. CASE ~(key < high[at])
      <4>1. pc = "grow" /\ Upper[at] = high[right]
        BY <3>2, <1>5 DEF Upper
      <4>2. /\ right \in Ids /\ level[right] = level[at] /\ low[right] = high[at]
        BY <4>1 DEF Inv, Located, SplitBelow
      <4>3. high[at] \in Int
        BY <1>1, <1>5
      <4> QED BY <2>1, <3>2, <4>1, <4>2, <4>3, <1>5
    <3> QED BY <3>1, <3>2
  <2>3. PICK x \in Ids : x # c /\ level[x] = level[c] /\ low[x] <= key /\ key < high[x]
    BY <2>2
  <2>4. c \in DOMAIN Tree.lo /\ x \in DOMAIN Tree.lo /\ Tree.lv[x] = Tree.lv[c]
    BY <1>1, <1>10, <2>3
  <2>5. Tree.lo[c] <= key /\ key < Tree.hi[c] /\ Tree.lo[x] <= key /\ key < Tree.hi[x]
    BY <1>1, <1>10, <2>1, <2>3
  <2>6. x = c
    BY <2>4, <2>5, <1>1, <1>5, OnePage
  <2> QED BY <2>3, <2>6
<1>12. /\ ~pages[p].leaf /\ pages[p].keys \in Seq(Separators) /\ pages[p].kids \in Seq(PageIds)
       /\ Len(pages[p].keys) \in Nat /\ Len(pages[p].kids) = Len(pages[p].keys) + 1
  <2>1. Tree.lv[p] # 0
    BY <1>1, <1>6
  <2> QED BY <2>1, <1>1, <1>9, InnerFacts
<1> QED BY <1>1, <1>4, <1>5, <1>6, <1>7, <1>8, <1>9, <1>10, <1>11, <1>12 DEF i, c

\* one node up, the rest of the path is still the way to key
LEMMA UpPath ==
    ASSUME Inv, todo = <<>>, pc \in {"grow", "shrink"}, path # <<>>,
           at' = Last(path), path' = Front(path), key' = key, root' = root,
           \A y \in Placed : level[y] > level[at] =>
              /\ y \in Placed' /\ level'[y] = level[y] /\ low'[y] = low[y]
              /\ Upper'[y] = Upper[y]
    PROVE  OnPath' /\ at' \in Nat /\ path' \in Seq(Nat)
<1>1. OnPath /\ TypeOK
  BY DEF Inv, Located
<1>2. Len(path) \in Nat \ {0} /\ path \in Seq(Nat)
  BY <1>1, EmptySeq DEF TypeOK
<1>3. /\ path' \in Seq(Nat) /\ Len(path') = Len(path) - 1
      /\ \A j \in 1 .. Len(path) - 1 : path'[j] = path[j]
  <2> DEFINE n == Len(path)
             m == n - 1
  <2>1. n \in Nat \ {0} /\ m = n - 1 /\ n = Len(path) /\ path' = SubSeq(path, 1, m)
    BY <1>2 DEF Front
  <2> HIDE DEF n, m
  <2>2. m \in 0 .. n
    BY ONLY <2>1
  <2>3. /\ SubSeq(path, 1, m) \in Seq(Nat) /\ Len(SubSeq(path, 1, m)) = m
        /\ \A j \in 1 .. m : SubSeq(path, 1, m)[j] = path[j]
    BY <2>1, <2>2, <1>2
  <2> QED BY <2>1, <2>3
<1>4. at' = path[Len(path)] /\ at' \in Nat
  BY <1>2 DEF Last
<1>5. level[at] \in Nat
  BY <1>1, Basics DEF OnPath
<1>6. ASSUME NEW j \in 1 .. Len(path)
      PROVE  /\ path[j] \in Placed' /\ level'[path[j]] = level[at] + Len(path) + 1 - j
             /\ low'[path[j]] <= key /\ key < Upper'[path[j]]
  <2>1. /\ path[j] \in Placed /\ level[path[j]] = level[at] + Len(path) + 1 - j
        /\ low[path[j]] <= key /\ key < Upper[path[j]]
    BY <1>1 DEF OnPath
  <2>2. level[path[j]] > level[at]
    <3> DEFINE a == level[at]
               n == Len(path)
    <3>1. a \in Int /\ n \in Int /\ j \in 1 .. n
      BY <1>2, <1>5
    <3> HIDE DEF a, n
    <3>2. a + n + 1 - j > a
      BY ONLY <3>1
    <3> QED BY <3>2, <2>1 DEF a, n
  <2> QED BY <2>1, <2>2
<1>7. /\ at' \in Placed' /\ low'[at'] <= key /\ key < Upper'[at']
      /\ level'[at'] = level[at] + 1
  <2> DEFINE a == level[at]
             n == Len(path)
  <2>1. n \in 1 .. n /\ a \in Int /\ n \in Int
    BY <1>2, <1>5
  <2>2. /\ at' \in Placed' /\ low'[at'] <= key /\ key < Upper'[at']
        /\ level'[at'] = a + n + 1 - n
    BY <2>1, <1>4, <1>6
  <2> HIDE DEF a, n
  <2>3. a + n + 1 - n = a + 1
    BY ONLY <2>1
  <2> QED BY <2>2, <2>3 DEF a
<1>8. IF path' = <<>> THEN at' = root' ELSE path'[1] = root'
  <2>1. path[1] = root
    BY <1>1 DEF OnPath
  <2>2. CASE path' = <<>>
    <3>1. Len(path) = 1
      BY <2>2, <1>2, <1>3
    <3> QED BY <2>1, <2>2, <3>1, <1>4
  <2>3. CASE path' # <<>>
    <3>1. Len(path') # 0
      BY <2>3, <1>3, EmptySeq
    <3>2. 1 \in 1 .. Len(path) - 1
      BY <3>1, <1>2, <1>3
    <3> QED BY <2>1, <2>3, <3>2, <1>3
  <2> QED BY <2>2, <2>3
<1>9. ASSUME NEW j \in 1 .. Len(path')
      PROVE  /\ path'[j] \in Placed' /\ level'[path'[j]] = level'[at'] + Len(path') + 1 - j
             /\ low'[path'[j]] <= key /\ key < Upper'[path'[j]]
  <2> DEFINE a == level[at]
             n == Len(path)
  <2>1. a \in Int /\ n \in Int /\ j \in Int /\ Len(path') = n - 1 /\ level'[at'] = a + 1
    BY <1>2, <1>3, <1>5, <1>7
  <2>2. j \in 1 .. n /\ j \in 1 .. n - 1
    BY <1>2, <1>3
  <2> HIDE DEF a, n
  <2>3. level'[at'] + Len(path') + 1 - j = a + n + 1 - j
    BY ONLY <2>1
  <2> QED BY <2>2, <2>3, <1>3, <1>6 DEF a, n
<1>10. key \in Keys
  BY <1>1 DEF OnPath
<1> QED BY <1>3, <1>4, <1>7, <1>8, <1>9, <1>10 DEF OnPath

(***************************************************************************)
(* What balances an underfull node.                                        *)
(***************************************************************************)
\* at, child i of p, is one key short
Short(p, i) ==
    /\ Inv /\ todo = <<>> /\ pc = "shrink" /\ pc' = "shrink" /\ path # <<>> /\ p = Last(path)
    /\ i = ChildIndex(pages[p], key) /\ Underflow
    /\ root' = root /\ next' = next /\ content' = content

LEMMA ShortFacts ==
    ASSUME NEW p, NEW i, Short(p, i)
    PROVE  /\ p \in Ids /\ at \in Ids /\ at # root /\ level[at] \in Nat /\ level[p] = level[at] + 1
           /\ level[p] # 0 /\ level[root] >= level[p] /\ key \in Int
           /\ i \in 1 .. Len(pages[p].keys) + 1 /\ pages[p].kids[i] = at
           /\ Len(pages[p].keys) \in Nat \ {0} /\ Len(pages[p].kids) = Len(pages[p].keys) + 1
           /\ Count(pages[p]) = Len(pages[p].keys)
           /\ Ahead = [y \in Ids |-> pages[y]] /\ Count(pages[at]) = MinKeys - 1
           /\ \A y \in Ids : Count(pages[y]) \in Nat /\ Count(pages[y]) <= MaxKeys
           /\ \A y \in Ids \ {at, root} : Count(pages[y]) >= MinKeys
           /\ root \in Ids /\ Count(pages[root]) >= 1
<1>1. /\ Inv /\ todo = <<>> /\ pc = "shrink" /\ path # <<>> /\ p = Last(path)
      /\ i = ChildIndex(pages[p], key) /\ Underflow
  BY DEF Short
<1>2. /\ p \in Ids /\ p # at /\ at \in Ids /\ at # root /\ level[at] \in Nat
      /\ level[p] = level[at] + 1 /\ level[p] # 0 /\ level[root] >= level[p] /\ key \in Int
      /\ ~pages[p].leaf
      /\ Len(pages[p].keys) \in Nat /\ Len(pages[p].kids) = Len(pages[p].keys) + 1
      /\ i \in 1 .. Len(pages[p].keys) + 1 /\ pages[p].kids[i] = at
  BY <1>1, ParentFacts
<1>3. /\ Ahead = [y \in Ids |-> pages[y]] /\ root \in Ids /\ level[root] \in Nat
  BY <1>1, Calm, Basics
<1>4. ASSUME NEW y \in Ids PROVE Count(pages[y]) \in Nat
  BY <1>1, PageIs, NodeParts
<1>5. /\ \A y \in Ids : Count(pages[y]) <= MaxKeys /\ (y # root => Count(pages[y]) >= Least(y))
      /\ level[root] > 0 /\ at # root => Count(pages[root]) >= 1
  BY <1>1, <1>3 DEF Inv, Filled
<1>6. Count(pages[root]) >= 1
  BY <1>2, <1>3, <1>5
<1>7. \A y \in Ids \ {at, root} : Count(pages[y]) >= MinKeys
  BY <1>1, <1>5 DEF Least
<1>8. Count(pages[at]) = MinKeys - 1
  <2>1. Count(pages[at]) < MinKeys /\ Count(pages[at]) >= MinKeys - 1
    BY <1>1, <1>2, <1>5 DEF Least, Underflow
  <2>2. Count(pages[at]) \in Nat /\ MinKeys \in Nat
    BY <1>2, <1>4, Capacity
  <2> DEFINE c == Count(pages[at])
             m == MinKeys
  <2>3. c \in Nat /\ m \in Nat /\ c < m /\ c >= m - 1
    BY <2>1, <2>2
  <2> HIDE DEF c, m
  <2>4. c = m - 1
    BY ONLY <2>3
  <2> QED BY <2>4 DEF c, m
<1>9. Count(pages[p]) = Len(pages[p].keys) /\ Len(pages[p].keys) \in Nat \ {0}
  <2>1. Count(pages[p]) = Len(pages[p].keys)
    BY <1>2 DEF Count
  <2>2. Count(pages[p]) >= 1
    BY <1>2, <1>4, <1>6, <1>7, Capacity
  <2> QED BY <2>1, <2>2, <1>2
<1> QED BY <1>2, <1>3, <1>4, <1>5, <1>6, <1>7, <1>8, <1>9

\* what there is afterwards
Rebalanced(p) ==
    /\ Placed' = Ids' /\ p \in Ids' /\ root \in Ids'
    /\ \A y \in Ids : level[y] > level[at] =>
          y \in Ids' /\ level'[y] = level[y] /\ low'[y] = low[y] /\ Upper'[y] = high[y]
    /\ todo' \in Seq(Writes) /\ pages' \in [DOMAIN pages' -> Nodes]
    /\ DOMAIN pages' \subseteq 1 .. next - 1 /\ Ids' \subseteq 1 .. next - 1
    /\ Good(Tree)' /\ Topped(Tree, root)' /\ Pending' /\ OnDiskAlready'
    /\ \A y \in Ids' : Count(Ahead'[y]) <= MaxKeys
    /\ \A y \in Ids' \ {p, root} : Count(Ahead'[y]) >= MinKeys
    /\ p # root => Count(Ahead'[p]) >= MinKeys - 1 /\ Count(Ahead'[root]) >= 1

LEMMA Exchanged ==
    ASSUME NEW p, NEW i, Short(p, i), NEW j, NEW l, NEW r, NEW k, NEW g, NEW t, NEW x,
           Trade(p, j, l, r, k, g, t, x), at \in {l, r},
           Count(g) \in MinKeys .. MaxKeys, Count(t) \in MinKeys .. MaxKeys
    PROVE  Rebalanced(p)
<1>1. /\ Inv /\ todo = <<>> /\ pc = "shrink" /\ pc' = "shrink"
      /\ root' = root /\ next' = next /\ content' = content
  BY DEF Short
<1>2. /\ p \in Ids /\ at \in Ids /\ at # root /\ level[at] \in Nat /\ level[p] = level[at] + 1
      /\ level[p] # 0 /\ root \in Ids /\ level[root] >= level[p]
      /\ Ahead = [y \in Ids |-> pages[y]]
      /\ \A y \in Ids : Count(pages[y]) \in Nat /\ Count(pages[y]) <= MaxKeys
      /\ \A y \in Ids \ {at, root} : Count(pages[y]) >= MinKeys
      /\ Count(pages[root]) >= 1
  BY ShortFacts
<1>3. Neighbours(Tree, p, j, l, r) /\ j \in 1 .. Len(pages[p].keys)
  BY DEF Trade
<1>4. /\ l \in Ids /\ r \in Ids /\ l # p /\ r # p /\ level[l] = level[p] - 1
      /\ level[r] = level[p] - 1
  <2>1. /\ Inv /\ todo = <<>> /\ pc # "grow" /\ p \in Ids /\ level[p] # 0
        /\ j \in 1 .. Len(pages[p].keys) /\ Neighbours(Tree, p, j, l, r)
    BY <1>1, <1>2, <1>3
  <2> QED BY ONLY <2>1, SiblingPages
<1>5. /\ Ids' = Ids /\ Placed' = Ids /\ Upper' = high' /\ level' = level
      /\ \A y \in Ids \ {l, r} : low'[y] = low[y] /\ high'[y] = high[y]
      /\ Ahead' = [y \in Ids |-> IF y = l THEN g ELSE IF y = r THEN t
                                 ELSE IF y = p THEN x ELSE Ahead[y]]
      /\ x \in Nodes /\ Count(x) = Count(pages[p])
      /\ todo' \in Seq(Writes) /\ pages' \in [DOMAIN pages' -> Nodes]
      /\ DOMAIN pages' \subseteq 1 .. next - 1
      /\ Good(Tree)' /\ Topped(Tree, root)' /\ Pending' /\ OnDiskAlready'
  <2>1. Traded(p, l, r, g, t, x)
    BY Exchange
  <2> QED BY <2>1 DEF Traded
<1>6. level[l] = level[at] /\ level[r] = level[at]
  BY <1>2, <1>4
<1>7. \A y \in Ids : level[y] > level[at] =>
         y \in Ids' /\ level'[y] = level[y] /\ low'[y] = low[y] /\ Upper'[y] = high[y]
  <2> SUFFICES ASSUME NEW y \in Ids, level[y] > level[at]
               PROVE  y \in Ids' /\ level'[y] = level[y] /\ low'[y] = low[y] /\ Upper'[y] = high[y]
    OBVIOUS
  <2>1. y \notin {l, r}
    BY <1>2, <1>6
  <2> QED BY <2>1, <1>5
<1>8. ASSUME NEW y \in Ids
      PROVE  Count(Ahead'[y]) <= MaxKeys /\ (y # root => Count(Ahead'[y]) >= MinKeys)
  <2>1. CASE y = l
    BY <2>1, <1>5
  <2>2. CASE y = r
    BY <2>2, <1>5
  <2>3. CASE y \notin {l, r}
    <3>1. Count(Ahead'[y]) = Count(pages[y])
      BY <2>3, <1>2, <1>5
    <3> QED BY <2>3, <3>1, <1>2
  <2> QED BY <2>1, <2>2, <2>3
<1>9. Count(Ahead'[root]) >= 1
  <2>1. root \notin {l, r}
    BY <1>2, <1>6
  <2>2. Count(Ahead'[root]) = Count(pages[root])
    BY <2>1, <1>2, <1>5
  <2> QED BY <2>2, <1>2
<1>10. p # root => Count(Ahead'[p]) >= MinKeys - 1
  <2>1. Count(Ahead'[p]) = Count(pages[p])
    BY <1>2, <1>4, <1>5
  <2>2. p # at
    BY <1>2
  <2> QED BY <2>1, <2>2, <1>2, Capacity
<1>11. Ids' \subseteq 1 .. next - 1 /\ p \in Ids' /\ root \in Ids' /\ Placed' = Ids'
  BY <1>1, <1>2, <1>5, Basics
<1> QED BY <1>5, <1>7, <1>8, <1>9, <1>10, <1>11 DEF Rebalanced

LEMMA Swallowed ==
    ASSUME NEW p, NEW i, Short(p, i), NEW j, NEW l, NEW r, NEW b, NEW x,
           Merger(p, j, l, r, b, x), at \in {l, r}, Count(b) \in MinKeys .. MaxKeys
    PROVE  Rebalanced(p)
<1>1. /\ Inv /\ todo = <<>> /\ pc = "shrink" /\ pc' = "shrink"
      /\ root' = root /\ next' = next /\ content' = content
  BY DEF Short
<1>2. /\ p \in Ids /\ at \in Ids /\ at # root /\ level[at] \in Nat /\ level[p] = level[at] + 1
      /\ level[p] # 0 /\ root \in Ids /\ level[root] >= level[p]
      /\ Ahead = [y \in Ids |-> pages[y]]
      /\ \A y \in Ids : Count(pages[y]) \in Nat /\ Count(pages[y]) <= MaxKeys
      /\ \A y \in Ids \ {at, root} : Count(pages[y]) >= MinKeys
      /\ Count(pages[root]) >= 1
  BY ShortFacts
<1>3. Neighbours(Tree, p, j, l, r) /\ j \in 1 .. Len(pages[p].keys)
  BY DEF Merger
<1>4. /\ l \in Ids /\ r \in Ids /\ l # r /\ l # p /\ r # p /\ level[l] = level[p] - 1
      /\ level[r] = level[p] - 1
  <2>1. /\ Inv /\ todo = <<>> /\ pc # "grow" /\ p \in Ids /\ level[p] # 0
        /\ j \in 1 .. Len(pages[p].keys) /\ Neighbours(Tree, p, j, l, r)
    BY <1>1, <1>2, <1>3
  <2> QED BY ONLY <2>1, SiblingPages
<1>5. /\ Ids' = Ids \ {r} /\ Placed' = Ids' /\ Upper' = high'
      /\ \A y \in Ids \ {r} : low'[y] = low[y] /\ level'[y] = level[y]
      /\ \A y \in Ids \ {l, r} : high'[y] = high[y]
      /\ Ahead' = [y \in Ids \ {r} |-> IF y = l THEN b ELSE IF y = p THEN x ELSE Ahead[y]]
      /\ Count(x) = Count(pages[p]) - 1
      /\ todo' \in Seq(Writes) /\ pages' \in [DOMAIN pages' -> Nodes]
      /\ DOMAIN pages' \subseteq 1 .. next - 1
      /\ Good(Tree)' /\ Topped(Tree, root)' /\ Pending' /\ OnDiskAlready'
  <2>1. Merged(p, l, r, b, x)
    BY Swallow
  <2> QED BY <2>1 DEF Merged
<1>6. level[l] = level[at] /\ level[r] = level[at]
  BY <1>2, <1>4
<1>7. \A y \in Ids : level[y] > level[at] =>
         y \in Ids' /\ level'[y] = level[y] /\ low'[y] = low[y] /\ Upper'[y] = high[y]
  <2> SUFFICES ASSUME NEW y \in Ids, level[y] > level[at]
               PROVE  y \in Ids' /\ level'[y] = level[y] /\ low'[y] = low[y] /\ Upper'[y] = high[y]
    OBVIOUS
  <2>1. y \notin {l, r}
    BY <1>2, <1>6
  <2> QED BY <2>1, <1>5
<1>8. ASSUME NEW y \in Ids \ {r}
      PROVE  /\ Count(Ahead'[y]) <= MaxKeys
             /\ y \notin {p, root} => Count(Ahead'[y]) >= MinKeys
  <2>1. CASE y = l
    <3>1. Ahead'[y] = b
      BY <2>1, <1>5
    <3> QED BY <3>1, Capacity
  <2>2. CASE y = p
    <3>1. Ahead'[y] = x /\ Count(pages[p]) \in Nat /\ Count(pages[p]) <= MaxKeys
      BY <2>2, <1>2, <1>4, <1>5
    <3> QED BY <3>1, <2>2, <1>5, Capacity
  <2>3. CASE y \notin {l, p}
    <3>1. Count(Ahead'[y]) = Count(pages[y])
      BY <2>3, <1>2, <1>5
    <3>2. y # at
      BY <2>3
    <3> QED BY <2>3, <3>1, <3>2, <1>2
  <2> QED BY <2>1, <2>2, <2>3
<1>9. p # root => Count(Ahead'[p]) >= MinKeys - 1 /\ Count(Ahead'[root]) >= 1
  <2> SUFFICES ASSUME p # root
               PROVE  Count(Ahead'[p]) >= MinKeys - 1 /\ Count(Ahead'[root]) >= 1
    OBVIOUS
  <2>1. root \notin {l, r, p} /\ p # at
    BY <1>2, <1>6
  <2>2. Ahead'[root] = pages[root] /\ Ahead'[p] = x
    BY <2>1, <1>2, <1>4, <1>5
  <2>3. Count(pages[p]) >= MinKeys /\ Count(pages[p]) \in Nat
    BY <2>1, <1>2
  <2> QED BY <2>2, <2>3, <1>2, <1>5, Capacity
<1>10. Ids' \subseteq 1 .. next - 1 /\ p \in Ids' /\ root \in Ids' /\ Placed' = Ids'
  <2>1. root # r
    BY <1>2, <1>6
  <2> QED BY <2>1, <1>1, <1>2, <1>4, <1>5, Basics
<1> QED BY <1>5, <1>7, <1>8, <1>9, <1>10 DEF Rebalanced

\* the facts on neighbours l and r, children j and j + 1 of p, that the rest needs
Facing(p, j, l, r) ==
    /\ Neighbours(Tree, p, j, l, r) /\ l \in Ids /\ r \in Ids /\ l # r
    /\ l # root /\ r # root /\ pages[l] \in Nodes /\ pages[r] \in Nodes
    /\ low[l] \in Int /\ high[l] \in Int /\ high[r] \in Int /\ level[l] \in Nat
    /\ low[l] < high[l] /\ high[l] < high[r]
    /\ pages[l].leaf <=> level[l] = 0
    /\ pages[r].leaf <=> level[l] = 0
    /\ Fits(Tree, pages[l], low[l], high[l], level[l])
    /\ Fits(Tree, pages[r], high[l], high[r], level[l])
    /\ pages[p].keys[j] = high[l]
    /\ Tree.content \in SUBSET Entries
    /\ Count(pages[l]) \in Nat /\ Count(pages[r]) \in Nat

LEMMA Pair ==
    ASSUME NEW p, NEW i, Short(p, i), NEW j \in 1 .. Len(pages[p].keys),
           NEW l, l = pages[p].kids[j], NEW r, r = pages[p].kids[j + 1]
    PROVE  Facing(p, j, l, r)
<1>1. Inv /\ todo = <<>> /\ pc # "grow"
  BY DEF Short
<1>2. /\ p \in Ids /\ level[p] # 0 /\ level[root] >= level[p]
      /\ \A y \in Ids : Count(pages[y]) \in Nat
      /\ level[p] = level[at] + 1 /\ level[at] \in Nat
  BY ShortFacts
<1>3. Neighbours(Tree, p, j, l, r)
  <2>1. pages[p] = Tree.page[p]
    BY <1>1, <1>2, PageIs
  <2> QED BY <2>1 DEF Neighbours
<1>4. /\ l \in Ids /\ r \in Ids /\ l # r
      /\ level[l] = level[p] - 1 /\ level[r] = level[p] - 1
      /\ low[l] \in Int /\ high[l] \in Int /\ low[r] \in Int /\ high[r] \in Int
      /\ low[l] < high[l] /\ low[r] < high[r] /\ low[r] = high[l]
      /\ pages[l] \in Nodes /\ pages[r] \in Nodes
      /\ pages[l].leaf <=> level[l] = 0
      /\ pages[r].leaf <=> level[l] = 0
      /\ Fits(Tree, pages[l], low[l], high[l], level[l])
      /\ Fits(Tree, pages[r], high[l], high[r], level[l])
      /\ pages[p].keys[j] = high[l]
  BY ONLY <1>1, <1>2, <1>3, j \in 1 .. Len(pages[p].keys), SiblingPages, SMTT(30)
<1>5. l # root /\ r # root /\ level[l] \in Nat
  <2>1. level[l] = level[p] - 1 /\ level[r] = level[p] - 1
    BY <1>4
  <2>2. level[root] >= level[p] /\ level[p] = level[at] + 1 /\ level[at] \in Nat
    BY <1>2
  <2> QED BY ONLY <2>1, <2>2
<1>6. Tree.content \in SUBSET Entries
  BY <1>1, Basics
<1> QED BY <1>2, <1>3, <1>4, <1>5, <1>6 DEF Facing

LEMMA BorrowLeftStep ==
    ASSUME NEW p, NEW i, Short(p, i), CanLend(pages[p], i - 1), BorrowLeft(p, pages[p], i)
    PROVE  Rebalanced(p)
<1> DEFINE n == pages[p]
           j == i - 1
           l == n.kids[j]
           r == n.kids[i]
           m == high[l]
           k == IF pages[l].leaf THEN Last(pages[l].entries)[1] ELSE Last(pages[l].keys)
           g == LeftGives(pages[l])
           t == TakesFromLeft(pages[r], pages[l], m)
           x == Inner([n.keys EXCEPT ![j] = k], n.kids)
<1>1. /\ Inv /\ todo = <<>> /\ pc = "shrink" /\ pc' = "shrink"
      /\ root' = root /\ next' = next /\ content' = content
  BY DEF Short
<1>2. /\ p \in Ids /\ level[p] # 0 /\ i \in 1 .. Len(n.keys) + 1 /\ r = at /\ at # root
      /\ Len(n.keys) \in Nat /\ Count(pages[at]) = MinKeys - 1
      /\ \A y \in Ids : Count(pages[y]) <= MaxKeys
  BY ShortFacts
<1>3. j \in 1 .. Len(n.keys) /\ i = j + 1 /\ Count(pages[l]) > MinKeys
  BY <1>2 DEF CanLend
<1> HIDE DEF n, j, l, r
<1>4. /\ Neighbours(Tree, p, j, l, r) /\ l \in Ids /\ r \in Ids /\ l # r
      /\ l # root /\ r # root /\ pages[l] \in Nodes /\ pages[r] \in Nodes
      /\ low[l] \in Int /\ high[l] \in Int /\ high[r] \in Int /\ level[l] \in Nat
      /\ low[l] < high[l] /\ high[l] < high[r]
      /\ pages[l].leaf <=> level[l] = 0
      /\ pages[r].leaf <=> level[l] = 0
      /\ Fits(Tree, pages[l], low[l], high[l], level[l])
      /\ Fits(Tree, pages[r], high[l], high[r], level[l])
      /\ n.keys[j] = high[l]
      /\ Tree.content \in SUBSET Entries
      /\ Count(pages[l]) \in Nat /\ Count(pages[r]) \in Nat
  <2>1. /\ Short(p, i) /\ j \in 1 .. Len(pages[p].keys) /\ l = pages[p].kids[j]
        /\ r = pages[p].kids[j + 1]
    BY <1>3 DEF n, l, r
  <2>2. Facing(p, j, l, r)
    BY ONLY <2>1, Pair
  <2> QED BY <2>2 DEF n, Facing
<1>5. /\ Perform(<<Write(l, g), Write(r, t), Write(p, x)>>) /\ Redivide(l, r, k)
  <2>1. n.keys[i - 1] = m /\ i - 1 = j
    BY <1>4 DEF j
  <2> QED BY <2>1, ZenonT(30) DEF BorrowLeft, n, j, l, r
<1>6. Count(pages[l]) > 1 /\ MinKeys \in Nat
  BY <1>3, <1>4, Capacity
<1> HIDE DEF m, k, g, t, x
<1>7. GaveRight(Tree, pages[l], pages[r], low[l], high[r], level[l], k, g, t)
  <2> DEFINE a == pages[l]
             b == pages[r]
             lo == low[l]
             hi == high[r]
             lv == level[l]
             T == Tree
  <2>1. /\ a \in Nodes /\ b \in Nodes /\ lo \in Int /\ m \in Int /\ hi \in Int /\ m < hi
        /\ T.content \in SUBSET Entries /\ Count(a) > 1
        /\ Fits(T, a, lo, m, lv) /\ Fits(T, b, m, hi, lv)
        /\ g = LeftGives(a) /\ t = TakesFromLeft(b, a, m)
    BY <1>4, <1>6 DEF m, g, t
  <2>2. CASE lv = 0
    <3>1. k = Last(a.entries)[1] /\ Fits(T, a, lo, m, 0) /\ Fits(T, b, m, hi, 0)
      BY <2>1, <2>2, <1>4 DEF k
    <3> HIDE DEF a, b, lo, hi, lv, T
    <3>2. GaveRight(T, a, b, lo, hi, 0, k, LeftGives(a), TakesFromLeft(b, a, m))
      BY ONLY <2>1, <3>1, LeafGivesRight
    <3> QED BY <2>1, <2>2, <3>2 DEF a, b, lo, hi, lv, T
  <2>3. CASE lv # 0
    <3>1. k = Last(a.keys) /\ lv \in Nat \ {0}
      BY <2>3, <1>4 DEF k
    <3> HIDE DEF a, b, lo, hi, lv, T
    <3>2. GaveRight(T, a, b, lo, hi, lv, k, LeftGives(a), TakesFromLeft(b, a, m))
      BY ONLY <2>1, <3>1, InnerGivesRight
    <3> QED BY <2>1, <3>2 DEF a, b, lo, hi, lv, T
  <2> QED BY <2>2, <2>3
<1>8. Trade(p, j, l, r, k, g, t, x)
  <2>1. /\ k \in Int /\ low[l] < k /\ k < high[r] /\ g \in Nodes /\ t \in Nodes
        /\ Fits(Tree, g, low[l], k, level[l]) /\ Fits(Tree, t, k, high[r], level[l])
        /\ level[l] = 0 => g.next = pages[l].next /\ t.next = pages[r].next
        /\ level[l] = 0 => Within(pages[r].entries, t.entries)
    BY <1>7 DEF GaveRight
  <2>2. x = Inner([pages[p].keys EXCEPT ![j] = k], pages[p].kids) /\ j \in 1 .. Len(pages[p].keys)
    BY <1>3 DEF x, n
  <2> QED BY <1>1, <1>2, <1>4, <1>5, <2>1, <2>2 DEF Trade
<1>9. at \in {l, r} /\ Count(g) \in MinKeys .. MaxKeys /\ Count(t) \in MinKeys .. MaxKeys
  <2>1. Count(g) = Count(pages[l]) - 1 /\ Count(t) = Count(pages[r]) + 1
    BY <1>7 DEF GaveRight
  <2>2. Count(pages[r]) = MinKeys - 1 /\ Count(pages[l]) <= MaxKeys
    BY <1>2, <1>4
  <2> QED BY <2>1, <2>2, <1>2, <1>3, <1>4, Capacity, SMTT(30)
<1> QED BY <1>8, <1>9, Exchanged

LEMMA BorrowRightStep ==
    ASSUME NEW p, NEW i, Short(p, i), CanLend(pages[p], i + 1), BorrowRight(p, pages[p], i)
    PROVE  Rebalanced(p)
<1> DEFINE n == pages[p]
           j == i
           l == n.kids[i]
           r == n.kids[i + 1]
           m == high[l]
           k == IF pages[r].leaf THEN pages[r].entries[2][1] ELSE pages[r].keys[1]
           g == RightGives(pages[r])
           t == TakesFromRight(pages[l], pages[r], m)
           x == Inner([n.keys EXCEPT ![i] = k], n.kids)
<1>1. /\ Inv /\ todo = <<>> /\ pc = "shrink" /\ pc' = "shrink"
      /\ root' = root /\ next' = next /\ content' = content
  BY DEF Short
<1>2. /\ p \in Ids /\ level[p] # 0 /\ i \in 1 .. Len(n.keys) + 1 /\ l = at /\ at # root
      /\ Len(n.keys) \in Nat /\ Len(n.kids) = Len(n.keys) + 1 /\ Count(pages[at]) = MinKeys - 1
      /\ \A y \in Ids : Count(pages[y]) <= MaxKeys
  BY ShortFacts
<1>3. j \in 1 .. Len(n.keys) /\ j = i /\ Count(pages[r]) > MinKeys
  BY <1>2 DEF CanLend
<1> HIDE DEF n, j, l, r
<1>4. /\ Neighbours(Tree, p, j, l, r) /\ l \in Ids /\ r \in Ids /\ l # r
      /\ l # root /\ r # root /\ pages[l] \in Nodes /\ pages[r] \in Nodes
      /\ low[l] \in Int /\ high[l] \in Int /\ high[r] \in Int /\ level[l] \in Nat
      /\ low[l] < high[l] /\ high[l] < high[r]
      /\ pages[l].leaf <=> level[l] = 0
      /\ pages[r].leaf <=> level[l] = 0
      /\ Fits(Tree, pages[l], low[l], high[l], level[l])
      /\ Fits(Tree, pages[r], high[l], high[r], level[l])
      /\ n.keys[j] = high[l]
      /\ Tree.content \in SUBSET Entries
      /\ Count(pages[l]) \in Nat /\ Count(pages[r]) \in Nat
  <2>1. /\ Short(p, i) /\ j \in 1 .. Len(pages[p].keys) /\ l = pages[p].kids[j]
        /\ r = pages[p].kids[j + 1]
    BY <1>3 DEF n, l, r
  <2>2. Facing(p, j, l, r)
    BY ONLY <2>1, Pair
  <2> QED BY <2>2 DEF n, Facing
<1>5. /\ Perform(<<Write(r, g), Write(l, t), Write(p, x)>>) /\ Redivide(l, r, k)
  <2>1. n.keys[i] = m /\ i = j
    BY <1>4 DEF j
  <2> QED BY <2>1, ZenonT(30) DEF BorrowRight, n, l, r
<1>6. Count(pages[r]) > 1 /\ MinKeys \in Nat
  BY <1>3, <1>4, Capacity
<1> HIDE DEF m, k, g, t
<1>7. GaveLeft(Tree, pages[l], pages[r], low[l], high[r], level[l], k, g, t)
  <2> DEFINE a == pages[l]
             b == pages[r]
             lo == low[l]
             hi == high[r]
             lv == level[l]
             T == Tree
  <2>1. /\ a \in Nodes /\ b \in Nodes /\ lo \in Int /\ m \in Int /\ hi \in Int /\ lo < m
        /\ T.content \in SUBSET Entries /\ Count(b) > 1
        /\ Fits(T, a, lo, m, lv) /\ Fits(T, b, m, hi, lv)
        /\ g = RightGives(b) /\ t = TakesFromRight(a, b, m)
    BY <1>4, <1>6 DEF m, g, t
  <2>2. CASE lv = 0
    <3>1. k = b.entries[2][1] /\ Fits(T, a, lo, m, 0) /\ Fits(T, b, m, hi, 0)
      BY <2>1, <2>2, <1>4 DEF k
    <3> HIDE DEF a, b, lo, hi, lv, T
    <3>2. GaveLeft(T, a, b, lo, hi, 0, k, RightGives(b), TakesFromRight(a, b, m))
      BY ONLY <2>1, <3>1, LeafGivesLeft
    <3> QED BY <2>1, <2>2, <3>2 DEF a, b, lo, hi, lv, T
  <2>3. CASE lv # 0
    <3>1. k = b.keys[1] /\ lv \in Nat \ {0}
      BY <2>3, <1>4 DEF k
    <3> HIDE DEF a, b, lo, hi, lv, T
    <3>2. GaveLeft(T, a, b, lo, hi, lv, k, RightGives(b), TakesFromRight(a, b, m))
      BY ONLY <2>1, <3>1, InnerGivesLeft
    <3> QED BY <2>1, <3>2 DEF a, b, lo, hi, lv, T
  <2> QED BY <2>2, <2>3
<1>8. Trade(p, j, l, r, k, t, g, x)
  <2>1. /\ k \in Int /\ low[l] < k /\ k < high[r] /\ g \in Nodes /\ t \in Nodes
        /\ Fits(Tree, t, low[l], k, level[l]) /\ Fits(Tree, g, k, high[r], level[l])
        /\ level[l] = 0 => t.next = pages[l].next /\ g.next = pages[r].next
        /\ level[l] = 0 => Within(pages[l].entries, t.entries)
    BY <1>7 DEF GaveLeft
  <2>2. x = Inner([pages[p].keys EXCEPT ![j] = k], pages[p].kids) /\ j \in 1 .. Len(pages[p].keys)
    BY <1>3 DEF n, j
  <2> HIDE DEF x
  <2> QED BY <1>1, <1>2, <1>4, <1>5, <2>1, <2>2 DEF Trade
<1>9. at \in {l, r} /\ Count(g) \in MinKeys .. MaxKeys /\ Count(t) \in MinKeys .. MaxKeys
  <2>1. Count(g) = Count(pages[r]) - 1 /\ Count(t) = Count(pages[l]) + 1
    BY <1>7 DEF GaveLeft
  <2>2. /\ Count(pages[l]) = MinKeys - 1 /\ Count(pages[r]) <= MaxKeys
        /\ Count(pages[r]) \in Nat /\ Count(pages[r]) > MinKeys
    BY <1>2, <1>3, <1>4
  <2>3. at \in {l, r}
    BY <1>2
  <2> QED BY ONLY <2>1, <2>2, <2>3, Capacity
<1> HIDE DEF x
<1> QED BY <1>8, <1>9, Exchanged

LEMMA MergeStep ==
    ASSUME NEW p, NEW i, Short(p, i), ~CanLend(pages[p], i - 1), ~CanLend(pages[p], i + 1),
           Merge(p, pages[p], IF i > 1 THEN i - 1 ELSE i)
    PROVE  Rebalanced(p)
<1> DEFINE n == pages[p]
           j == IF i > 1 THEN i - 1 ELSE i
           h == j + 1
           l == n.kids[j]
           r == n.kids[h]
           m == high[l]
           b == IF pages[l].leaf THEN Leaf(pages[l].entries \o pages[r].entries, pages[r].next)
                ELSE Inner(Append(pages[l].keys, m) \o pages[r].keys,
                           pages[l].kids \o pages[r].kids)
           x == Inner(RemoveAt(n.keys, j), RemoveAt(n.kids, j + 1))
<1>1. /\ Inv /\ todo = <<>> /\ pc = "shrink" /\ pc' = "shrink"
      /\ root' = root /\ next' = next /\ content' = content
  BY DEF Short
<1>2. /\ p \in Ids /\ level[p] # 0 /\ i \in 1 .. Len(n.keys) + 1 /\ n.kids[i] = at /\ at # root
      /\ Len(n.keys) \in Nat \ {0} /\ Len(n.kids) = Len(n.keys) + 1
      /\ Count(pages[at]) = MinKeys - 1
      /\ \A y \in Ids \ {at, root} : Count(pages[y]) >= MinKeys
  BY ShortFacts
<1>3. /\ j \in 1 .. Len(n.keys) /\ h = j + 1
      /\ \/ r = at /\ ~(Count(pages[l]) > MinKeys)
         \/ l = at /\ ~(Count(pages[r]) > MinKeys)
  <2>1. CASE i > 1
    <3>1. j = i - 1 /\ h = i /\ j \in 1 .. Len(n.keys) /\ j \in 1 .. Len(n.kids)
      BY <2>1, <1>2
    <3>2. ~(Count(pages[n.kids[i - 1]]) > MinKeys)
      BY <3>1 DEF CanLend
    <3> HIDE DEF j, h
    <3> QED BY <3>1, <3>2, <1>2
  <2>2. CASE ~(i > 1)
    <3>1. j = 1 /\ i = 1 /\ h = i + 1 /\ j \in 1 .. Len(n.keys) /\ h \in 1 .. Len(n.kids)
      BY <2>2, <1>2
    <3>2. ~(Count(pages[n.kids[i + 1]]) > MinKeys)
      BY <3>1 DEF CanLend
    <3> HIDE DEF j, h
    <3> QED BY <3>1, <3>2, <1>2
  <2> QED BY <2>1, <2>2
<1>4. Perform(<<Write(l, IF pages[l].leaf
                         THEN Leaf(pages[l].entries \o pages[r].entries, pages[r].next)
                         ELSE Inner(Append(pages[l].keys, n.keys[j]) \o pages[r].keys,
                                    pages[l].kids \o pages[r].kids)),
                WriteDropping(p, x, r)>>) /\ Absorb(l, r)
  BY ZenonT(30) DEF Merge
<1> HIDE DEF n, j, h, l, r, x
<1>5. Facing(p, j, l, r)
  <2>1. /\ Short(p, i) /\ j \in 1 .. Len(pages[p].keys) /\ l = pages[p].kids[j]
        /\ r = pages[p].kids[j + 1]
    BY <1>3 DEF n, l, r
  <2> QED BY ONLY <2>1, Pair
<1>6. /\ Neighbours(Tree, p, j, l, r) /\ l \in Ids /\ r \in Ids /\ l # r
      /\ l # root /\ r # root /\ pages[l] \in Nodes /\ pages[r] \in Nodes
      /\ low[l] \in Int /\ high[l] \in Int /\ high[r] \in Int /\ level[l] \in Nat
      /\ low[l] < high[l] /\ high[l] < high[r]
      /\ pages[l].leaf <=> level[l] = 0
      /\ pages[r].leaf <=> level[l] = 0
      /\ Fits(Tree, pages[l], low[l], high[l], level[l])
      /\ Fits(Tree, pages[r], high[l], high[r], level[l])
      /\ n.keys[j] = m
      /\ Tree.content \in SUBSET Entries
      /\ Count(pages[l]) \in Nat /\ Count(pages[r]) \in Nat
  BY <1>5 DEF Facing, n
<1>7. Perform(<<Write(l, b), WriteDropping(p, x, r)>>)
  BY <1>4, <1>6
<1> HIDE DEF m, b
<1>8. /\ b \in Nodes /\ Fits(Tree, b, low[l], high[r], level[l])
      /\ level[l] = 0 => b.next = pages[r].next
      /\ Count(b) \in {Count(pages[l]) + Count(pages[r]), Count(pages[l]) + 1 + Count(pages[r])}
  <2> DEFINE a == pages[l]
             c == pages[r]
             lo == low[l]
             hi == high[r]
             lv == level[l]
             T == Tree
             to == pages[r].next
  <2>1. /\ a \in Nodes /\ c \in Nodes /\ lo \in Int /\ m \in Int /\ hi \in Int /\ lo < m /\ m < hi
        /\ T.content \in SUBSET Entries /\ to \in Nat
        /\ Fits(T, a, lo, m, lv) /\ Fits(T, c, m, hi, lv)
    BY <1>6, NodeParts DEF m
  <2>2. CASE lv = 0
    <3>1. b = Leaf(a.entries \o c.entries, to) /\ to \in Nat
      BY <2>1, <2>2, <1>6 DEF b
    <3> HIDE DEF a, c, lo, hi, lv, T, to
    <3>2. LeavesAdjoin(T, a, c, lo, m, hi)
      BY <2>1, <2>2 DEF LeavesAdjoin
    <3>3. OneLeaf(T, b, a, c, lo, hi, to)
      BY ONLY <3>1, <3>2, LeafJoined
    <3> QED BY <2>2, <3>3 DEF a, c, lo, hi, lv, T, to, OneLeaf
  <2>3. CASE lv # 0
    <3>1. b = Inner(Append(a.keys, m) \o c.keys, a.kids \o c.kids) /\ lv \in Nat \ {0}
      BY <2>3, <1>6 DEF b
    <3> HIDE DEF a, c, lo, hi, lv, T, to
    <3>2. b \in Nodes /\ Fits(T, b, lo, hi, lv) /\ Count(b) = Count(a) + 1 + Count(c)
      BY ONLY <2>1, <3>1, InnerJoined
    <3> QED BY <2>3, <3>2 DEF a, c, lo, hi, lv, T
  <2> QED BY <2>2, <2>3
<1>9. Merger(p, j, l, r, b, x)
  <2>1. /\ x = Inner(RemoveAt(pages[p].keys, j), RemoveAt(pages[p].kids, j + 1))
        /\ j \in 1 .. Len(pages[p].keys)
    BY <1>3 DEF x, n
  <2> QED BY <1>1, <1>2, <1>4, <1>6, <1>7, <1>8, <2>1 DEF Merger
<1>10. at \in {l, r} /\ Count(b) \in MinKeys .. MaxKeys
  <2>1. at \in {l, r}
    BY <1>3
  <2>2. Count(pages[l]) + Count(pages[r]) = 2 * MinKeys - 1
    <3>1. CASE r = at /\ ~(Count(pages[l]) > MinKeys)
      <4>1. Count(pages[l]) >= MinKeys /\ Count(pages[r]) = MinKeys - 1
        BY <3>1, <1>2, <1>6
      <4> QED BY <3>1, <4>1, <1>6, Capacity
    <3>2. CASE l = at /\ ~(Count(pages[r]) > MinKeys)
      <4>1. Count(pages[r]) >= MinKeys /\ Count(pages[l]) = MinKeys - 1
        BY <3>2, <1>2, <1>6
      <4> QED BY <3>2, <4>1, <1>6, Capacity
    <3> QED BY <3>1, <3>2, <1>3
  <2>3. Count(b) \in {2 * MinKeys - 1, 2 * MinKeys}
    <3>1. /\ Count(b) \in {Count(pages[l]) + Count(pages[r]),
                          Count(pages[l]) + 1 + Count(pages[r])}
          /\ Count(pages[l]) \in Nat /\ Count(pages[r]) \in Nat
      BY <1>6, <1>8
    <3> QED BY ONLY <3>1, <2>2, Capacity
  <2> QED BY ONLY <2>1, <2>3, Capacity
<1> QED BY <1>9, <1>10, Swallowed

LEMMA RemoveFromParentStep ==
    ASSUME Inv, todo = <<>>, RemoveFromParent
    PROVE  Inv'
<1> DEFINE p == Last(path)
           n == pages[p]
           i == ChildIndex(n, key)
<1>1. /\ pc = "shrink" /\ path # <<>> /\ at' = p /\ path' = Front(path)
      /\ root' = root /\ next' = next /\ pc' = pc /\ key' = key /\ promoted' = promoted
      /\ right' = right /\ end' = end /\ found' = found /\ content' = content
  BY DEF RemoveFromParent
<1>2. TypeOK /\ found = {} /\ Unique
  BY <1>1 DEF Inv, Located
<1>3. /\ Placed = Ids /\ Upper = high /\ root \in Ids /\ level \in [Ids -> Nat]
  BY <1>1, Basics
<1>4. Rebalanced(p)
  <2>1. CASE Underflow /\ Rebalance(p, n, i)
    <3>1. Short(p, i)
      BY <1>1, <2>1 DEF Short
    <3> HIDE DEF p, i
    <3>2. CASE CanLend(n, i - 1) /\ BorrowLeft(p, n, i)
      BY <3>1, <3>2, BorrowLeftStep
    <3>3. CASE CanLend(n, i + 1) /\ BorrowRight(p, n, i)
      BY <3>1, <3>3, BorrowRightStep
    <3>4. CASE ~CanLend(n, i - 1) /\ ~CanLend(n, i + 1) /\ Merge(p, n, IF i > 1 THEN i - 1 ELSE i)
      BY <3>1, <3>4, MergeStep
    <3> QED BY <2>1, <3>2, <3>3, <3>4 DEF Rebalance
  <2>2. CASE ~Underflow /\ UNCHANGED <<pages, todo, shape>>
    <3>1. UNCHANGED <<file, content, shape>>
      BY <1>1, <2>2 DEF file
    <3>2. /\ Ids' = Ids /\ Ahead' = Ahead /\ Placed' = Ids /\ Upper' = high
          /\ Good(Tree)' /\ Topped(Tree, root)' /\ Pending' /\ OnDiskAlready'
          /\ Ids \subseteq DOMAIN pages /\ Ahead = [id \in Ids |-> pages[id]]
      BY <1>1, <3>1, Unmoved
    <3>3. /\ low' = low /\ level' = level /\ pages' = pages /\ todo' = todo
      BY <2>2 DEF shape
    <3>4. p \in Ids /\ at \in Ids /\ p # at /\ at # root /\ level[root] >= level[p]
          /\ level[p] = level[at] + 1 /\ level[at] \in Nat
      BY <1>1, ParentFacts
    <3>5. \A y \in Ids : Count(Ahead[y]) \in Nat
      BY Basics, NodeParts
    <3>6. /\ \A y \in Ids : Count(Ahead[y]) <= MaxKeys
          /\ \A y \in Ids \ {at, root} : Count(Ahead[y]) >= MinKeys
          /\ Count(Ahead[at]) >= MinKeys /\ Count(Ahead[root]) >= 1
      <4>1. /\ \A y \in Ids : Count(Ahead[y]) <= MaxKeys /\ (y # root => Count(Ahead[y]) >= Least(y))
            /\ level[root] > 0 => Count(Ahead[root]) >= 1
        BY <3>4, <1>1 DEF Inv, Filled
      <4>2. Count(Ahead[at]) >= MinKeys
        BY <2>2, <3>2, <3>4, <3>5, Capacity DEF Underflow
      <4>3. level[root] > 0
        BY <3>4, <1>3
      <4> QED BY <4>1, <4>2, <4>3 DEF Least
    <3>7. /\ todo' \in Seq(Writes) /\ pages' \in [DOMAIN pages' -> Nodes]
          /\ DOMAIN pages' \subseteq 1 .. next - 1 /\ Ids' \subseteq 1 .. next - 1
      BY <1>2, <3>2, <3>3 DEF TypeOK
    <3>8. \A y \in Ids \ {root} : Count(Ahead[y]) >= MinKeys
      BY <3>6
    <3>9. p # root => Count(Ahead[p]) >= MinKeys - 1
      BY <3>4, <3>5, <3>8, Capacity
    <3> HIDE DEF p
    <3> QED BY <3>2, <3>3, <3>4, <3>6, <3>7, <3>8, <3>9, <1>3 DEF Rebalanced
  <2> QED BY <2>1, <2>2 DEF RemoveFromParent
<1>5. /\ Placed' = Ids' /\ p \in Ids' /\ root \in Ids'
      /\ \A y \in Ids : level[y] > level[at] =>
            y \in Ids' /\ level'[y] = level[y] /\ low'[y] = low[y] /\ Upper'[y] = high[y]
      /\ todo' \in Seq(Writes) /\ pages' \in [DOMAIN pages' -> Nodes]
      /\ DOMAIN pages' \subseteq 1 .. next - 1 /\ Ids' \subseteq 1 .. next - 1
      /\ Good(Tree)' /\ Topped(Tree, root)' /\ Pending' /\ OnDiskAlready'
      /\ \A y \in Ids' : Count(Ahead'[y]) <= MaxKeys
      /\ \A y \in Ids' \ {p, root} : Count(Ahead'[y]) >= MinKeys
      /\ p # root => Count(Ahead'[p]) >= MinKeys - 1 /\ Count(Ahead'[root]) >= 1
  BY <1>4 DEF Rebalanced
<1>6. OnPath' /\ at' \in Nat /\ path' \in Seq(Nat)
  <2>1. \A y \in Placed : level[y] > level[at] =>
           y \in Placed' /\ level'[y] = level[y] /\ low'[y] = low[y] /\ Upper'[y] = Upper[y]
    BY <1>3, <1>5
  <2> QED BY <2>1, <1>1, UpPath
<1> HIDE DEF p
<1>7. TypeOK'
  BY <1>1, <1>2, <1>5, <1>6 DEF TypeOK
<1>8. Unique'
  BY <1>1, <1>2 DEF Unique
<1>9. Filled'
  <2>1. ASSUME NEW y \in Ids' PROVE y # root => Count(Ahead'[y]) >= Least(y)'
    <3>1. CASE y = p
      <4>1. Least(y)' = MinKeys - 1
        BY <3>1, <1>1 DEF Least
      <4> QED BY <4>1, <3>1, <1>5
    <3>2. CASE y # p
      <4>1. Least(y)' = MinKeys
        BY <3>2, <1>1 DEF Least
      <4> QED BY <4>1, <3>2, <1>5
    <3> QED BY <3>1, <3>2
  <2>2. level'[root'] > 0 /\ ~(pc' = "shrink" /\ at' = root') => Count(Ahead'[root']) >= 1
    BY <1>1, <1>5
  <2> QED BY <2>1, <2>2, <1>1, <1>5 DEF Filled
<1>10. Located'
  BY <1>1, <1>2, <1>6 DEF Located
<1> QED BY <1>1, <1>5, <1>7, <1>8, <1>9, <1>10 DEF Inv

(***************************************************************************)
(* Page id, of tree V, is split in l and r at key k.                       *)
(***************************************************************************)
Splitting(V, id, l, r, k) ==
    /\ Inv /\ todo = <<>> /\ pc' = "grow" /\ content' \in SUBSET Entries
    /\ Good(V) /\ Topped(V, root) /\ V.lo = low /\ V.hi = high /\ V.lv = level /\ V.up = high
    /\ V.content = content' /\ id \in Ids /\ \A y \in Ids \ {id} : V.page[y] = pages[y]
    /\ k \in Int /\ low[id] < k /\ k < high[id] /\ l \in Nodes /\ r \in Nodes
    /\ Fits(V, l, low[id], k, level[id]) /\ Fits(V, r, k, high[id], level[id])
    /\ level[id] = 0 => l.next = next /\ r.next = V.page[id].next
    /\ Split(id, l, r, k)

Halved(id, l, r, k) ==
    /\ Ids' = Ids \cup {next} /\ Placed' = Ids /\ Upper' = high
    /\ next' = next + 1 /\ root' = root /\ right' = next /\ at' = id /\ promoted' = k
    /\ \A y \in Ids : low'[y] = low[y] /\ level'[y] = level[y]
    /\ \A y \in Ids \ {id} : high'[y] = high[y]
    /\ low'[next] = k /\ high'[id] = k /\ level'[next] = level[id]
    /\ Ahead' = [y \in Ids \cup {next} |-> IF y = id THEN l ELSE IF y = next THEN r ELSE Ahead[y]]
    /\ todo' \in Seq(Writes) /\ pages' \in [DOMAIN pages' -> Nodes]
    /\ DOMAIN pages' \subseteq 1 .. next /\ Ids' \subseteq 1 .. next
    /\ Good(Tree)' /\ Topped(Tree, root)' /\ Pending' /\ OnDiskAlready' /\ SplitBelow'

LEMMA SplitStep ==
    ASSUME NEW V, NEW id, NEW l, NEW r, NEW k, Splitting(V, id, l, r, k)
    PROVE  Halved(id, l, r, k)
<1> SUFFICES
      ASSUME Inv, todo = <<>>, pc' = "grow", content' \in SUBSET Entries,
             Good(V), Topped(V, root), V.lo = low, V.hi = high, V.lv = level, V.up = high,
             V.content = content', id \in Ids, \A y \in Ids \ {id} : V.page[y] = pages[y],
             k \in Int, low[id] < k, k < high[id], l \in Nodes, r \in Nodes,
             Fits(V, l, low[id], k, level[id]), Fits(V, r, k, high[id], level[id]),
             level[id] = 0 => l.next = next /\ r.next = V.page[id].next,
             Split(id, l, r, k)
      PROVE  Halved(id, l, r, k)
  BY DEF Splitting
<1> DEFINE U == Tree'
<1>1. /\ low \in [Ids -> Int] /\ high \in [Ids -> Int] /\ level \in [Ids -> Nat]
      /\ Ids \subseteq Nat \ {0} /\ Ids \subseteq 1 .. next - 1 /\ next \in Nat \ Ids
  BY Basics
<1>2. Ids \subseteq DOMAIN pages /\ Ahead = [y \in Ids |-> pages[y]]
  BY Calm
<1>3. /\ next' = next + 1 /\ Perform(<<Write(id, l), Write(next, r)>>)
      /\ at' = id /\ promoted' = k /\ right' = next /\ root' = root
      /\ low' = With(low, next, k) /\ high' = With([high EXCEPT ![id] = k], next, high[id])
      /\ level' = With(level, next, level[id])
  BY DEF Split
<1>4. pages \in [DOMAIN pages -> Nodes] /\ DOMAIN pages \subseteq 1 .. next - 1
  BY DEF Inv, TypeOK
<1>5. next \notin DOMAIN pages /\ next # id
  BY <1>1, <1>4
<1>6. /\ DOMAIN low' = Ids \cup {next} /\ Ids' = Ids \cup {next}
      /\ low' \in [Ids \cup {next} -> Int] /\ \A y \in Ids : low'[y] = low[y]
      /\ low'[next] = k
  BY <1>1, <1>3 DEF With, Ids
<1>7. /\ high' \in [Ids \cup {next} -> Int] /\ \A y \in Ids \ {id} : high'[y] = high[y]
      /\ high'[id] = k /\ high'[next] = high[id]
  BY <1>1, <1>3, <1>5 DEF With
<1>8. /\ level' \in [Ids \cup {next} -> Nat] /\ \A y \in Ids : level'[y] = level[y]
      /\ level'[next] = level[id]
  BY <1>1, <1>3, <1>5 DEF With
<1>9. Placed' = Ids
  BY <1>1, <1>3, <1>6 DEF Placed
<1>10. Upper' = high
  <2>1. Upper' = [y \in Ids |-> IF y = id THEN high'[next] ELSE high'[y]]
    BY <1>3, <1>9 DEF Upper
  <2>2. \A y \in Ids : (IF y = id THEN high'[next] ELSE high'[y]) = high[y]
    BY <1>7
  <2> QED BY <2>1, <2>2, <1>1
<1>11. /\ todo' = <<Write(next, r)>>
       /\ pages' = [y \in DOMAIN pages \cup {id} |-> IF y = id THEN l ELSE pages[y]]
       /\ Ahead' = [y \in Ids \cup {next} |-> IF y = id THEN l ELSE IF y = next THEN r
                                            ELSE pages[y]]
  <2>1. pages' = Put(pages, Write(id, l)) /\ todo' = <<Write(next, r)>>
    BY <1>3 DEF Perform
  <2>2. Write(id, l).page = id /\ Write(id, l).node = l /\ Write(id, l).drop = {}
    BY DEF Write
  <2>3. pages' = [y \in DOMAIN pages \cup {id} |-> IF y = id THEN l ELSE pages[y]]
    BY ONLY <2>1, <2>2 DEF Put
  <2>4. Len(todo') = 1 /\ todo'[1].page = next /\ todo'[1].node = r
    BY <2>1 DEF Write
  <2>5. ASSUME NEW y \in Ids \cup {next}
        PROVE  Ahead'[y] = IF y = id THEN l ELSE IF y = next THEN r ELSE pages[y]
    <3>1. Ahead'[y] = IF y = next THEN r ELSE pages'[y]
      BY <1>6, <2>4 DEF Ahead
    <3> QED BY <3>1, <2>3, <1>2, <1>5
  <2>6. Ahead' = [y \in Ids \cup {next} |-> Ahead'[y]]
    BY <1>6 DEF Ahead
  <2> QED BY <2>1, <2>3, <2>5, <2>6
<1>12. Ahead' = [y \in Ids \cup {next} |-> IF y = id THEN l ELSE IF y = next THEN r ELSE Ahead[y]]
  BY <1>2, <1>11
<1>13. /\ U.page = Ahead' /\ U.lo = low' /\ U.hi = high' /\ U.lv = level' /\ U.up = high
       /\ U.content = content'
  BY <1>10 DEF Tree
<1> HIDE DEF U
<1>14. Typed(U)
  <2>1. Ahead' \in [Ids \cup {next} -> Nodes]
    <3>1. \A y \in Ids : Ahead[y] \in Nodes
      BY Basics
    <3> QED BY <3>1, <1>12
  <2>2. next # 0
    BY <1>1
  <2> QED BY <1>1, <1>6, <1>7, <1>8, <1>13, <2>1, <2>2 DEF Typed
<1>15. Good(U) /\ Topped(U, root)
  <2> DEFINE new == next
             T == V
             top == root
  <2>1. /\ Good(T) /\ T.up = T.hi /\ id \in DOMAIN T.lo /\ new \notin DOMAIN T.lo /\ k \in Int
        /\ T.lo[id] < k /\ k < T.hi[id] /\ Topped(T, top)
    BY <1>1
  <2>2. /\ DOMAIN U.lo = DOMAIN T.lo \cup {new} /\ U.up = T.up /\ U.content = T.content
        /\ \A x \in DOMAIN T.lo : U.lo[x] = T.lo[x] /\ U.lv[x] = T.lv[x]
        /\ U.hi[id] = k /\ U.lo[new] = k /\ U.hi[new] = T.hi[id] /\ U.lv[new] = T.lv[id]
    BY <1>1, <1>6, <1>7, <1>8, <1>13
  <2>3. \A x \in DOMAIN T.lo \ {id} : U.page[x] = T.page[x] /\ U.hi[x] = T.hi[x]
    BY <1>1, <1>7, <1>11, <1>13
  <2>4. U.page[id] = l /\ U.page[new] = r
    BY <1>5, <1>11, <1>13
  <2>5. /\ Fits(T, U.page[id], T.lo[id], k, T.lv[id])
        /\ Fits(T, U.page[new], k, T.hi[id], T.lv[id])
        /\ T.lv[id] = 0 => U.page[id].next = new /\ U.page[new].next = T.page[id].next
    BY <2>4
  <2> HIDE DEF new, T, top
  <2>6. Good(U) /\ Topped(U, top)
    BY ONLY <2>1, <2>2, <2>3, <2>5, <1>14, Divide
  <2> QED BY <2>6 DEF top
<1>16. Good(Tree)' /\ Topped(Tree, root)'
  BY <1>3, <1>15 DEF U
<1>17. /\ todo' \in Seq(Writes) /\ Len(todo') = 1 /\ todo'[1].page = next /\ todo'[1].drop = {}
  <2>1. Write(next, r) \in Writes /\ Write(next, r).page = next /\ Write(next, r).drop = {}
    BY <1>1 DEF Writes, Write
  <2> QED BY <2>1, <1>11
<1>18. Pending'
  <2>1. \A i \in 1 .. Len(todo') : i = 1
    BY <1>17
  <2>2. next \in Ids' /\ Ids' \subseteq DOMAIN pages' \cup {next}
    BY <1>2, <1>6, <1>11
  <2> QED BY <2>1, <2>2, <1>17 DEF Pending
<1>19. pages' \in [DOMAIN pages' -> Nodes] /\ DOMAIN pages' \subseteq 1 .. next
  <2>1. DOMAIN pages' \subseteq 1 .. next
    BY <1>1, <1>4, <1>11
  <2> QED BY <2>1, <1>4, <1>11
<1>20. OnDiskAlready'
  <2>1. ASSUME NEW y \in DOMAIN U.lo \cap DOMAIN pages' PROVE Early(U, U, y, pages'[y])
    <3>1. y \in Ids \cup {next} /\ y # next
      BY <1>2, <1>5, <1>6, <1>11, <1>13
    <3>2. pages'[y] = U.page[y]
      BY <3>1, <1>11, <1>13
    <3> QED BY <3>2 DEF Early
  <2>2. DiskOk(U, pages')
    BY <2>1, <1>15, DiskStep
  <2> QED BY <2>2 DEF U, OnDiskAlready
<1>21. SplitBelow'
  BY <1>3, <1>5, <1>6, <1>7, <1>8 DEF SplitBelow
<1>22. Ids' \subseteq 1 .. next
  BY <1>1, <1>6
<1> QED BY <1>3, <1>6, <1>7, <1>8, <1>9, <1>10, <1>12, <1>16, <1>17, <1>18, <1>19, <1>20, <1>21,
           <1>22 DEF Halved

(***************************************************************************)
(* Insertion.                                                              *)
(***************************************************************************)
LEMMA Halves ==
    ASSUME NEW n, n = MaxKeys + 1
    PROVE  /\ n \div 2 \in 1 .. n - 1 /\ n \div 2 \in MinKeys .. MaxKeys
           /\ n - n \div 2 \in MinKeys .. MaxKeys /\ n - n \div 2 - 1 \in MinKeys .. MaxKeys
           /\ n \div 2 \in 0 .. n - 1 /\ n \in Nat
BY CapacityAssumption DEF MinKeys

LEMMA HalvedFilled ==
    ASSUME Inv, NEW id \in Ids, NEW l, NEW r, NEW k, Halved(id, l, r, k),
           Count(l) \in MinKeys .. MaxKeys, Count(r) \in MinKeys .. MaxKeys,
           pc \in {"descend", "grow"}, pc' = "grow", at' = id
    PROVE  Filled'
<1>1. /\ \A y \in Ids : Count(Ahead[y]) <= MaxKeys /\ (y # root => Count(Ahead[y]) >= MinKeys)
      /\ level[root] > 0 => Count(Ahead[root]) >= 1
  BY DEF Inv, Filled, Least
<1>2. root \in Ids /\ next \notin Ids
  BY Basics
<1>3. /\ Ids' = Ids \cup {next} /\ root' = root
      /\ \A y \in Ids : level'[y] = level[y]
      /\ Ahead' = [y \in Ids \cup {next} |->
                     IF y = id THEN l ELSE IF y = next THEN r ELSE Ahead[y]]
  BY DEF Halved
<1>4. ASSUME NEW y \in Ids'
      PROVE  /\ Count(Ahead'[y]) <= MaxKeys /\ (y # root => Count(Ahead'[y]) >= MinKeys)
             /\ y = root /\ level[root] > 0 => Count(Ahead'[y]) >= 1
  <2>1. CASE y = id
    <3>1. Ahead'[y] = l
      BY <2>1, <1>3
    <3> QED BY <3>1, Capacity
  <2>2. CASE y # id /\ y = next
    <3>1. Ahead'[y] = r
      BY <2>2, <1>3
    <3> QED BY <3>1, Capacity
  <2>3. CASE y # id /\ y # next
    <3>1. Ahead'[y] = Ahead[y] /\ y \in Ids
      BY <2>3, <1>3
    <3> QED BY <3>1, <1>1
  <2> QED BY <2>1, <2>2, <2>3
<1>5. Count(Ahead'[root']) >= 1 \/ ~(level'[root'] > 0)
  BY <1>2, <1>3, <1>4
<1>6. \A y \in Ids' : Least(y)' = MinKeys
  BY DEF Least
<1>7. Count(Ahead'[at']) >= MinKeys
  BY <1>3, Capacity
<1> QED BY <1>3, <1>4, <1>5, <1>6, <1>7 DEF Filled

LEMMA InsertIntoLeafStep ==
    ASSUME Inv, todo = <<>>, NEW rid \in Rids, InsertIntoLeaf(rid), twice' = {}
    PROVE  Inv'
<1> DEFINE n == pages[at]
           e == <<key, rid>>
           es == InsertAt(n.entries, Position(n.entries, key), e)
           x == Leaf(es, n.next)
<1>1. /\ pc = "descend" /\ n.leaf /\ Fresh(key) /\ content' = content \cup {e}
      /\ \/ /\ Count(n) < MaxKeys /\ Perform(<<Write(at, x)>>)
            /\ Return /\ UNCHANGED <<root, next, shape>>
         \/ Count(n) = MaxKeys /\ SplitLeaf(es, n.next) /\ path' = path
  <2>1. Fresh(key)
    BY DEF InsertIntoLeaf, Doubles, Present, Fresh
  <2> QED BY <2>1 DEF InsertIntoLeaf, AtLeaf
<1>2. TypeOK /\ OnPath /\ found = {} /\ Unique
  BY <1>1 DEF Inv, Located
<1>3. /\ Tree.page = Ahead /\ Tree.lo = low /\ Tree.hi = high /\ Tree.lv = level
      /\ Tree.up = high /\ Tree.content = content /\ Good(Tree) /\ Topped(Tree, root)
      /\ Placed = Ids /\ Upper = high /\ root \in Ids /\ content \in SUBSET Entries
      /\ low \in [Ids -> Int] /\ high \in [Ids -> Int] /\ level \in [Ids -> Nat]
      /\ Ahead \in [Ids -> Nodes] /\ Ids \subseteq Nat \ {0} /\ Ids \subseteq 1 .. next - 1
      /\ next \in Nat
  BY <1>1, Basics
<1>4. at \in Ids /\ low[at] <= key /\ key < high[at] /\ key \in Keys /\ key \in Int
  BY <1>2, <1>3 DEF OnPath, Keys
<1>5. /\ level[at] = 0 /\ n = Ahead[at] /\ n \in Nodes /\ n.entries \in Seq(Entries)
      /\ n.next \in Nat /\ Holds(n.entries, low[at], high[at], content)
      /\ Count(n) = Len(n.entries) /\ Len(n.entries) \in Nat
  BY <1>1, <1>4, PageIs, NodeParts
<1>6. e \in Entries /\ e[1] = key
  BY <1>4 DEF Entries
<1>7. es \in Seq(Entries) /\ Len(es) = Count(n) + 1 /\ Holds(es, low[at], high[at], content')
  <2> DEFINE s == n.entries
             lo == low[at]
             hi == high[at]
             C == content
  <2>1. /\ s \in Seq(Entries) /\ lo \in Int /\ hi \in Int /\ C \in SUBSET Entries
        /\ Holds(s, lo, hi, C) /\ e \in Entries /\ lo <= e[1] /\ e[1] < hi
        /\ \A f \in C : f[1] # e[1]
        /\ es = InsertAt(s, Position(s, e[1]), e)
    BY <1>1, <1>3, <1>4, <1>5, <1>6 DEF Fresh
  <2> HIDE DEF s, lo, hi, C, e, es
  <2>2. es \in Seq(Entries) /\ Len(es) = Len(s) + 1 /\ Holds(es, lo, hi, C \cup {e})
    BY ONLY <2>1, HoldsInsert, SMTT(60)
  <2> QED BY <2>2, <1>1, <1>5 DEF s, lo, hi, C
<1> HIDE DEF es, e
<1>8. /\ x \in Nodes /\ x.leaf /\ x.entries = es /\ x.next = n.next /\ Count(x) = Len(es)
  BY <1>5, <1>7, LeafParts
<1> HIDE DEF x
<1>9. Unique' /\ content' \in SUBSET Entries
  <2>1. \A f \in content : f[1] # key
    BY <1>1 DEF Fresh
  <2>2. ASSUME NEW f \in content', NEW g \in content', f[1] = g[1] PROVE f = g
    BY <2>1, <2>2, <1>1, <1>2, <1>6 DEF Unique
  <2> QED BY <2>2, <1>1, <1>3, <1>6 DEF Unique
<1>10. \A f \in (content \ content') \cup (content' \ content) : low[at] <= f[1] /\ f[1] < high[at]
  BY <1>1, <1>4, <1>6
<1>11. CASE /\ Count(n) < MaxKeys /\ Perform(<<Write(at, x)>>)
            /\ Return /\ UNCHANGED <<root, next, shape>>
  <2>1. /\ pc' = "idle" /\ key' \in Int /\ at' \in Nat /\ path' \in Seq(Nat) /\ promoted' \in Int
        /\ right' \in Nat /\ end' \in Int /\ Located'
    BY <1>2, <1>11, Returned
  <2>2. /\ Ids' = Ids /\ Placed' = Ids /\ Upper' = high
        /\ Ahead' = [y \in Ids |-> IF y = at THEN x ELSE Ahead[y]]
        /\ todo' = <<>> /\ pages' \in [DOMAIN pages' -> Nodes]
        /\ DOMAIN pages' \subseteq 1 .. next - 1
        /\ Good(Tree)' /\ Topped(Tree, root)' /\ Pending' /\ OnDiskAlready'
    <3>1. pc # "grow" /\ pc' # "grow" /\ root' = root /\ UNCHANGED shape
      BY <1>1, <1>11, <2>1
    <3>2. Holds(x.entries, low[at], high[at], content')
      BY <1>7, <1>8
    <3> QED BY <1>4, <1>5, <1>8, <1>9, <1>10, <1>11, <3>1, <3>2, LeafWrite
  <2>3. low' = low /\ level' = level /\ root' = root /\ next' = next
    BY <1>11 DEF shape
  <2>4. TypeOK'
    BY <1>2, <1>3, <1>9, <2>1, <2>2, <2>3 DEF TypeOK
  <2>5. Filled'
    <3>1. /\ \A y \in Ids : Count(Ahead[y]) <= MaxKeys /\ (y # root => Count(Ahead[y]) >= MinKeys)
          /\ level[root] > 0 => Count(Ahead[root]) >= 1
      BY <1>1 DEF Inv, Filled, Least
    <3>2. Count(x) = Count(Ahead[at]) + 1 /\ Count(Ahead[at]) \in Nat /\ Count(x) <= MaxKeys
      BY <1>5, <1>7, <1>8, <1>11, Capacity
    <3>3. ASSUME NEW y \in Ids
          PROVE  /\ Count(Ahead'[y]) <= MaxKeys /\ (y # root => Count(Ahead'[y]) >= MinKeys)
                 /\ y = root /\ level[root] > 0 => Count(Ahead'[y]) >= 1
      <4>1. CASE y = at
        BY <4>1, <3>1, <3>2, <2>2, Capacity
      <4>2. CASE y # at
        BY <4>2, <3>1, <2>2
      <4> QED BY <4>1, <4>2
    <3>4. \A y \in Ids : Least(y)' = MinKeys
      BY <2>1 DEF Least
    <3> QED BY <3>3, <3>4, <1>3, <2>1, <2>2, <2>3 DEF Filled
  <2> QED BY <1>9, <2>1, <2>2, <2>4, <2>5 DEF Inv
<1>12. CASE Count(n) = MaxKeys /\ SplitLeaf(es, n.next) /\ path' = path
  <2> DEFINE h == Len(es) \div 2
             l == Leaf(SubSeq(es, 1, h), next)
             r == Leaf(SubSeq(es, h + 1, Len(es)), n.next)
             k == es[h + 1][1]
             V == [Tree EXCEPT !.page = [y \in Ids |-> IF y = at THEN x ELSE pages[y]],
                               !.content = content']
  <2>1. Split(at, l, r, k)
    BY <1>12 DEF SplitLeaf
  <2>2. /\ h \in 1 .. Len(es) - 1 /\ h \in MinKeys .. MaxKeys
        /\ Len(es) - h \in MinKeys .. MaxKeys
    <3> DEFINE m == Len(es)
    <3>1. m = MaxKeys + 1
      BY <1>7, <1>12
    <3> HIDE DEF m
    <3>2. m \div 2 \in 1 .. m - 1 /\ m \div 2 \in MinKeys .. MaxKeys
          /\ m - m \div 2 \in MinKeys .. MaxKeys
      BY ONLY <3>1, Halves
    <3> QED BY <3>2 DEF m
  <2>3. /\ V.page = [y \in Ids |-> IF y = at THEN x ELSE pages[y]] /\ V.lo = low /\ V.hi = high
        /\ V.lv = level /\ V.up = high /\ V.content = content'
    BY <1>3 DEF Tree
  <2> HIDE DEF h, V
  <2>4. Good(V) /\ Topped(V, root)
    <3>1. Ahead = [y \in Ids |-> pages[y]]
      BY Calm
    <3>2. Typed(V)
      <4>1. V.page \in [Ids -> Nodes]
        BY <1>3, <1>8, <2>3, <3>1
      <4> QED BY <4>1, <1>3, <1>9, <2>3 DEF Typed, Ids
    <3>3. Good(V)
      <4> DEFINE T == Tree
                 id == at
      <4>1. /\ Good(T) /\ id \in DOMAIN T.lo /\ T.lv[id] = 0
            /\ V.lo = T.lo /\ V.hi = T.hi /\ V.lv = T.lv /\ V.up = T.up
            /\ \A y \in DOMAIN T.lo \ {id} : V.page[y] = T.page[y]
        BY <1>3, <1>4, <1>5, <2>3, <3>1
      <4>2. /\ V.page[id].leaf /\ V.page[id].next = T.page[id].next
            /\ Holds(V.page[id].entries, T.lo[id], T.hi[id], V.content)
            /\ \A f \in (T.content \ V.content) \cup (V.content \ T.content) :
                  T.lo[id] <= f[1] /\ f[1] < T.hi[id]
        <5>1. V.page[at] = x /\ Tree.page[at] = n
          BY <1>3, <1>4, <1>5, <2>3
        <5> QED BY <5>1, <1>3, <1>7, <1>8, <1>10, <2>3
      <4> HIDE DEF T, id
      <4> QED BY ONLY <4>1, <4>2, <3>2, LeafChange
    <3>4. Topped(V, root)
      BY <1>3, <2>3 DEF Topped
    <3> QED BY <3>3, <3>4
  <2>5. /\ k \in Int /\ low[at] < k /\ k < high[at]
        /\ l \in Nodes /\ Fits(V, l, low[at], k, 0) /\ Count(l) = h /\ l.next = next
        /\ r \in Nodes /\ Fits(V, r, k, high[at], 0) /\ Count(r) = Len(es) - h /\ r.next = n.next
    <3> DEFINE lo == low[at]
               hi == high[at]
               a == next
               b == n.next
    <3>1. /\ V.content \in SUBSET Entries /\ x \in Nodes /\ lo \in Int /\ hi \in Int
          /\ Fits(V, x, lo, hi, 0) /\ h \in 1 .. Len(x.entries) - 1 /\ a \in Nat /\ b \in Nat
          /\ x.entries = es
      <4>1. Fits(V, x, lo, hi, 0)
        BY <1>7, <1>8, <2>3 DEF Fits
      <4> QED BY <4>1, <1>3, <1>4, <1>5, <1>8, <1>9, <2>2, <2>3
    <3>2. /\ k = x.entries[h + 1][1] /\ l = Leaf(SubSeq(x.entries, 1, h), a)
          /\ r = Leaf(SubSeq(x.entries, h + 1, Len(x.entries)), b)
      BY <1>8
    <3> HIDE DEF lo, hi, a, b, k, l, r
    <3>3. /\ k \in Int /\ lo < k /\ k < hi
          /\ l \in Nodes /\ Fits(V, l, lo, k, 0) /\ Count(l) = h /\ l.next = a
          /\ r \in Nodes /\ Fits(V, r, k, hi, 0) /\ Count(r) = Len(x.entries) - h /\ r.next = b
      BY ONLY <3>1, <3>2, LeafCut, SMTT(30)
    <3> QED BY <3>1, <3>3 DEF lo, hi, a, b
  <2>6. /\ pc' = "grow" /\ key' = key /\ end' = end /\ found' = found /\ promoted' = k
        /\ right' = next /\ at' = at
    BY <2>1 DEF Split
  <2> HIDE DEF l, r, k
  <2>7. Splitting(V, at, l, r, k)
    <3>1. \A y \in Ids \ {at} : V.page[y] = pages[y]
      BY <2>3
    <3>2. V.page[at].next = n.next
      BY <1>4, <1>8, <2>3
    <3> QED BY <1>4, <1>5, <1>9, <2>1, <2>3, <2>4, <2>5, <2>6, <3>1, <3>2 DEF Splitting
  <2>8. Halved(at, l, r, k)
    BY <2>7, SplitStep
  <2>9. Filled'
    BY <1>1, <1>4, <2>2, <2>5, <2>6, <2>8, HalvedFilled
  <2>10. /\ Ids' = Ids \cup {next} /\ Placed' = Ids /\ Upper' = high
         /\ next' = next + 1 /\ root' = root
         /\ \A y \in Ids : low'[y] = low[y] /\ level'[y] = level[y]
         /\ todo' \in Seq(Writes) /\ pages' \in [DOMAIN pages' -> Nodes]
         /\ DOMAIN pages' \subseteq 1 .. next /\ Ids' \subseteq 1 .. next
    BY <2>8 DEF Halved
  <2>11. TypeOK'
    <3>1. next' - 1 = next /\ next' \in Nat
      <4>1. next' = next + 1 /\ next \in Nat
        BY <1>3, <2>10
      <4> QED BY ONLY <4>1
    <3> QED BY <3>1, <1>2, <1>9, <1>12, <2>5, <2>6, <2>10 DEF TypeOK
  <2>12. OnPath'
    <3>1. key' = key /\ at' = at /\ path' = path /\ root' = root
      BY <1>12, <2>6, <2>10
    <3>2. \A y \in Ids : /\ y \in Placed' /\ low'[y] = low[y] /\ level'[y] = level[y]
                        /\ Upper'[y] = Upper[y]
      BY <1>3, <2>10
    <3> QED BY <3>1, <3>2, <1>2, <1>3 DEF OnPath
  <2>13. Located'
    BY <1>2, <2>6, <2>8, <2>12 DEF Located, Halved
  <2> QED BY <1>9, <2>8, <2>9, <2>11, <2>13 DEF Inv, Halved
<1> QED BY <1>1, <1>11, <1>12

\* U is the tree of the state, with the page p one key and one child richer
Richer(U, p, i, x) ==
    /\ p = Last(path) /\ i = ChildIndex(pages[p], key)
    /\ x = Inner(InsertAt(pages[p].keys, i, promoted), InsertAt(pages[p].kids, i + 1, right))
    /\ U.page = [y \in Ids |-> IF y = p THEN x ELSE pages[y]]
    /\ U.lo = low /\ U.hi = high /\ U.lv = level /\ U.up = high /\ U.content = content

LEMMA AttachStep ==
    ASSUME Inv, todo = <<>>, pc = "grow", path # <<>>, NEW U, NEW p, NEW i, NEW x,
           Richer(U, p, i, x)
    PROVE  /\ Good(U) /\ Topped(U, root) /\ x \in Nodes /\ Count(x) = Count(pages[p]) + 1
           /\ x.keys = InsertAt(pages[p].keys, i, promoted)
           /\ x.kids = InsertAt(pages[p].kids, i + 1, right)
           /\ Count(x) = Len(x.keys)
<1> DEFINE T == Tree
           l == at
           r == right
           keys == pages[p].keys
           kids == pages[p].kids
           h == i + 1
           m == promoted
<1>1. /\ p = Last(path) /\ i = ChildIndex(pages[p], key)
      /\ x = Inner(InsertAt(keys, i, m), InsertAt(kids, i + 1, r))
      /\ U.page = [y \in Ids |-> IF y = p THEN x ELSE pages[y]]
      /\ U.lo = low /\ U.hi = high /\ U.lv = level /\ U.up = high /\ U.content = content
  BY DEF Richer
<1>2. /\ T.page = Ahead /\ T.lo = low /\ T.hi = high /\ T.lv = level /\ T.up = Upper
      /\ T.content = content /\ Good(T) /\ Topped(T, root) /\ content \in SUBSET Entries
      /\ low \in [Ids -> Int] /\ high \in [Ids -> Int] /\ level \in [Ids -> Nat]
      /\ Ahead \in [Ids -> Nodes] /\ Ids \subseteq Nat \ {0} /\ DOMAIN Upper = Placed
  BY Basics
<1>3. Ids \subseteq DOMAIN pages /\ Ahead = [y \in Ids |-> pages[y]]
  BY Calm
<1>4. /\ p \in Ids /\ p # l /\ l \in Ids /\ level[p] # 0
      /\ ~pages[p].leaf /\ keys \in Seq(Separators) /\ kids \in Seq(PageIds)
      /\ Len(keys) \in Nat /\ Len(kids) = Len(keys) + 1
      /\ i \in 1 .. Len(keys) + 1 /\ kids[i] = l
      /\ pages[p] = Ahead[p] /\ pages[p] \in Nodes
  BY <1>1, ParentFacts
<1>5. TypeOK /\ SplitBelow
  BY DEF Inv, Located
<1>6. /\ r \in Ids /\ r # l /\ level[r] = level[l] /\ low[r] = m /\ high[l] = m
      /\ m \in Separators /\ r \in PageIds
  BY <1>2, <1>5 DEF SplitBelow, TypeOK, Separators, PageIds
<1>7. Parted(T, l, r)
  <2>1. DOMAIN T.up = Ids \ {r} /\ DOMAIN T.lo = Ids
    BY <1>2 DEF Placed
  <2>2. \A y \in DOMAIN T.up : T.up[y] = IF y = l THEN T.hi[r] ELSE T.hi[y]
    BY <1>2, <2>1 DEF Upper, Placed
  <2> QED BY <2>1, <2>2, <1>2, <1>4, <1>6 DEF Parted
<1>8. /\ InsertAt(keys, i, m) \in Seq(Separators) /\ Len(InsertAt(keys, i, m)) = Len(keys) + 1
      /\ InsertAt(kids, h, r) \in Seq(PageIds)
  <2>1. h \in 1 .. Len(kids) + 1
    BY <1>4
  <2> HIDE DEF keys, kids, h, m, r
  <2>2. InsertAt(keys, i, m) \in Seq(Separators) /\ Len(InsertAt(keys, i, m)) = Len(keys) + 1
    BY ONLY <1>4, <1>6, Inserts
  <2>3. InsertAt(kids, h, r) \in Seq(PageIds)
    BY ONLY <1>4, <1>6, <2>1, Inserts
  <2> QED BY <2>2, <2>3
<1> DEFINE nk == InsertAt(keys, i, m)
           nc == InsertAt(kids, h, r)
<1>9. /\ x \in Nodes /\ x.keys = nk /\ x.kids = nc /\ Count(x) = Len(keys) + 1
      /\ Count(pages[p]) = Len(keys) /\ Count(x) = Len(nk)
  <2>1. nk \in Seq(Separators) /\ Len(nk) = Len(keys) + 1 /\ nc \in Seq(PageIds) /\ x = Inner(nk, nc)
    BY <1>1, <1>8
  <2> HIDE DEF nk, nc
  <2>2. x \in Nodes /\ x.keys = nk /\ x.kids = nc /\ Count(x) = Len(nk)
    BY ONLY <2>1, InnerParts
  <2> QED BY <2>1, <2>2, <1>4 DEF Count
<1>10. Typed(U)
  <2>1. U.page \in [Ids -> Nodes]
    BY <1>1, <1>2, <1>3, <1>9
  <2> QED BY <2>1, <1>1, <1>2 DEF Typed, Ids
<1>11. Good(U) /\ Topped(U, root)
  <2> DEFINE top == root
  <2>1. /\ Good(T) /\ Parted(T, l, r) /\ Topped(T, top) /\ p \in DOMAIN T.lo /\ T.lv[p] # 0
        /\ U.lo = T.lo /\ U.hi = T.hi /\ U.lv = T.lv /\ U.up = T.hi /\ U.content = T.content
    BY <1>1, <1>2, <1>4, <1>7
  <2>2. T.page[p] = pages[p] /\ U.page[p] = x /\ T.lo[r] = m
    BY <1>1, <1>2, <1>4, <1>6
  <2>3. /\ i \in 1 .. Len(T.page[p].kids) /\ T.page[p].kids[i] = l
        /\ U.page[p] = Inner(InsertAt(T.page[p].keys, i, T.lo[r]),
                             InsertAt(T.page[p].kids, i + 1, r))
    BY <1>1, <1>4, <2>2
  <2>4. \A y \in DOMAIN T.lo \ {p} : U.page[y] = T.page[y]
    BY <1>1, <1>2, <1>3
  <2> HIDE DEF T, l, r, top
  <2>5. Good(U) /\ Topped(U, top)
    BY ONLY <2>1, <2>3, <2>4, <1>10, Attach
  <2> QED BY <2>5 DEF top
<1>12. /\ Count(x) = Count(pages[p]) + 1 /\ Count(x) = Len(x.keys)
  BY <1>9
<1>13. /\ x.keys = InsertAt(pages[p].keys, i, promoted)
       /\ x.kids = InsertAt(pages[p].kids, i + 1, right)
  BY <1>9
<1> QED BY <1>9, <1>11, <1>12, <1>13

\* the node above has room
LEMMA InsertEnds ==
    ASSUME Inv, todo = <<>>, pc = "grow", path # <<>>, NEW p, p = Last(path),
           NEW i, i = ChildIndex(pages[p], key), Count(pages[p]) < MaxKeys,
           NEW x, x = Inner(InsertAt(pages[p].keys, i, promoted),
                            InsertAt(pages[p].kids, i + 1, right)),
           Perform(<<Write(p, x)>>), Return, UNCHANGED <<root, next, shape>>, content' = content
    PROVE  Inv'
<1> DEFINE U == Tree'
<1>1. /\ low' = low /\ high' = high /\ level' = level /\ root' = root /\ next' = next
  BY DEF shape
<1>2. TypeOK /\ Unique
  BY DEF Inv
<1>3. /\ pc' = "idle" /\ key' \in Int /\ at' \in Nat /\ path' \in Seq(Nat) /\ promoted' \in Int
      /\ right' \in Nat /\ end' \in Int /\ Located'
  BY <1>2, Returned
<1>4. /\ Ids \subseteq Nat \ {0} /\ Ids \subseteq 1 .. next - 1 /\ root \in Ids
      /\ high \in [Ids -> Int] /\ Ahead \in [Ids -> Nodes] /\ level \in [Ids -> Nat]
  BY Basics
<1>5. Ids \subseteq DOMAIN pages /\ Ahead = [y \in Ids |-> pages[y]]
  BY Calm
<1>6. p \in Ids
  BY ParentFacts
<1>7. Ids' = Ids /\ Placed' = Ids /\ Upper' = high
  <2>1. Ids' = Ids /\ Placed' = Ids
    BY <1>1, <1>3 DEF Ids, Placed
  <2> QED BY <2>1, <1>1, <1>3, <1>4 DEF Upper
<1>8. /\ todo' = <<>>
      /\ pages' = [y \in DOMAIN pages \cup {p} |-> IF y = p THEN x ELSE pages[y]]
      /\ Ahead' = [y \in Ids |-> IF y = p THEN x ELSE pages[y]]
  <2>1. Ids' \subseteq DOMAIN pages \cup {p} /\ Perform(<<Write(p, x)>>)
    BY <1>5, <1>7
  <2>2. /\ todo' = <<>>
        /\ pages' = [y \in DOMAIN pages \cup {p} |-> IF y = p THEN x ELSE pages[y]]
        /\ Ahead' = [y \in Ids' |-> IF y = p THEN x ELSE pages[y]]
    BY ONLY <2>1, OneWrite
  <2> QED BY <2>2, <1>7
<1>9. /\ U.page = Ahead' /\ U.lo = low /\ U.hi = high /\ U.lv = level /\ U.up = high
      /\ U.content = content
  BY <1>1, <1>7 DEF Tree
<1> HIDE DEF U
<1>10. Good(U) /\ Topped(U, root) /\ x \in Nodes /\ Count(x) = Count(pages[p]) + 1
  <2>1. Richer(U, p, i, x)
    BY <1>8, <1>9 DEF Richer
  <2> QED BY <2>1, AttachStep
<1>11. Good(Tree)' /\ Topped(Tree, root)'
  BY <1>1, <1>10 DEF U
<1>12. TypeOK'
  <2>1. pages' \in [DOMAIN pages' -> Nodes] /\ DOMAIN pages' \subseteq 1 .. next - 1
    BY <1>2, <1>4, <1>6, <1>8, <1>10 DEF TypeOK
  <2> QED BY <2>1, <1>1, <1>2, <1>3, <1>7, <1>8 DEF TypeOK
<1>13. Unique'
  BY <1>2 DEF Unique
<1>14. Pending'
  <2>1. Len(todo') = 0 /\ Ids \subseteq DOMAIN pages'
    BY <1>5, <1>8
  <2> QED BY <2>1, <1>7, <1>8 DEF Pending
<1>15. OnDiskAlready'
  <2>1. \A y \in DOMAIN U.lo \cap DOMAIN pages' : Early(U, U, y, pages'[y])
    BY <1>8, <1>9 DEF Ids, Early
  <2>2. DiskOk(U, pages')
    BY <2>1, <1>10, DiskStep
  <2> QED BY <2>2 DEF U, OnDiskAlready
<1>16. Filled'
  <2>1. /\ \A y \in Ids : Count(Ahead[y]) <= MaxKeys /\ (y # root => Count(Ahead[y]) >= MinKeys)
        /\ level[root] > 0 => Count(Ahead[root]) >= 1
    BY DEF Inv, Filled, Least
  <2>2. Count(Ahead[p]) = Count(pages[p]) /\ Count(Ahead[p]) \in Nat
    BY <1>4, <1>5, <1>6, NodeParts
  <2>3. ASSUME NEW y \in Ids
        PROVE  /\ Count(Ahead'[y]) <= MaxKeys /\ (y # root => Count(Ahead'[y]) >= MinKeys)
               /\ y = root /\ level[root] > 0 => Count(Ahead'[y]) >= 1
    <3>1. CASE y = p
      <4>1. Count(Ahead'[y]) = Count(Ahead[y]) + 1 /\ Count(Ahead[y]) < MaxKeys
        BY <3>1, <1>8, <1>10, <2>2
      <4> QED BY <4>1, <3>1, <2>1, <2>2, Capacity
    <3>2. CASE y # p
      BY <3>2, <2>1, <1>5, <1>8
    <3> QED BY <3>1, <3>2
  <2>4. \A y \in Ids : Least(y)' = MinKeys
    BY <1>3 DEF Least
  <2> QED BY <2>3, <2>4, <1>1, <1>3, <1>4, <1>7 DEF Filled
<1> QED BY <1>3, <1>11, <1>12, <1>13, <1>14, <1>15, <1>16 DEF Inv

\* the node above is full, and splits in its turn
LEMMA InsertClimbs ==
    ASSUME Inv, todo = <<>>, pc = "grow", path # <<>>, NEW p, p = Last(path),
           NEW i, i = ChildIndex(pages[p], key), Count(pages[p]) = MaxKeys,
           SplitInner(p, InsertAt(pages[p].keys, i, promoted), InsertAt(pages[p].kids, i + 1, right)),
           path' = Front(path), content' = content
    PROVE  Inv'
<1> DEFINE x == Inner(InsertAt(pages[p].keys, i, promoted), InsertAt(pages[p].kids, i + 1, right))
           V == [Tree EXCEPT !.page = [y \in Ids |-> IF y = p THEN x ELSE pages[y]], !.up = high]
<1>1. /\ p \in Ids /\ p # at /\ level[p] # 0 /\ level[p] = level[at] + 1 /\ at \in Ids
      /\ level[at] \in Nat
  BY ParentFacts
<1>2. TypeOK /\ Unique /\ found = {}
  BY DEF Inv, Located
<1>3. /\ Tree.lo = low /\ Tree.hi = high /\ Tree.lv = level /\ Tree.content = content
      /\ low \in [Ids -> Int] /\ high \in [Ids -> Int] /\ level \in [Ids -> Nat]
      /\ content \in SUBSET Entries /\ next \in Nat /\ Placed \subseteq Ids
  BY Basics
<1>4. /\ V.page = [y \in Ids |-> IF y = p THEN x ELSE pages[y]] /\ V.lo = low /\ V.hi = high
      /\ V.lv = level /\ V.up = high /\ V.content = content
  BY <1>3 DEF Tree
<1> HIDE DEF V
<1>5. Richer(V, p, i, x)
  BY <1>4 DEF Richer
<1> HIDE DEF x
<1>6. /\ Good(V) /\ Topped(V, root) /\ x \in Nodes /\ Count(x) = MaxKeys + 1
      /\ x.keys = InsertAt(pages[p].keys, i, promoted)
      /\ x.kids = InsertAt(pages[p].kids, i + 1, right)
      /\ Count(x) = Len(x.keys)
  <2>1. /\ Good(V) /\ Topped(V, root) /\ x \in Nodes /\ Count(x) = Count(pages[p]) + 1
        /\ x.keys = InsertAt(pages[p].keys, i, promoted)
        /\ x.kids = InsertAt(pages[p].kids, i + 1, right)
        /\ Count(x) = Len(x.keys)
    BY <1>5, AttachStep
  <2> QED BY <2>1
<1> DEFINE mid == Len(x.keys) \div 2
           l == Inner(SubSeq(x.keys, 1, mid), SubSeq(x.kids, 1, mid + 1))
           r == Inner(SubSeq(x.keys, mid + 2, Len(x.keys)), SubSeq(x.kids, mid + 2, Len(x.kids)))
           k == x.keys[mid + 1]
<1>7. Split(p, l, r, k)
  BY <1>6 DEF SplitInner
<1>8. /\ mid \in 0 .. Len(x.keys) - 1 /\ mid \in MinKeys .. MaxKeys
      /\ Len(x.keys) - mid - 1 \in MinKeys .. MaxKeys
  <2> DEFINE m == Len(x.keys)
  <2>1. m = MaxKeys + 1
    BY <1>6
  <2> HIDE DEF m
  <2>2. m \div 2 \in 0 .. m - 1 /\ m \div 2 \in MinKeys .. MaxKeys
        /\ m - m \div 2 - 1 \in MinKeys .. MaxKeys
    BY ONLY <2>1, Halves
  <2> QED BY <2>2 DEF m
<1> HIDE DEF mid
<1>9. /\ k \in Int /\ low[p] < k /\ k < high[p]
      /\ l \in Nodes /\ Fits(V, l, low[p], k, level[p]) /\ Count(l) = mid
      /\ r \in Nodes /\ Fits(V, r, k, high[p], level[p]) /\ Count(r) = Len(x.keys) - mid - 1
  <2> DEFINE lo == low[p]
             hi == high[p]
             lv == level[p]
  <2>1. /\ x \in Nodes /\ lo \in Int /\ hi \in Int /\ lv \in Nat \ {0} /\ Fits(V, x, lo, hi, lv)
        /\ mid \in 0 .. Len(x.keys) - 1
    <3>1. V.page[p] = x /\ p \in DOMAIN V.lo
      BY <1>1, <1>3, <1>4
    <3>2. Fits(V, x, low[p], high[p], level[p])
      BY <3>1, <1>4, <1>6 DEF Good, NodeOk
    <3> QED BY <3>2, <1>1, <1>3, <1>6, <1>8
  <2>2. InnerHalves(x, mid, l, r, k)
    BY <1>8 DEF InnerHalves
  <2> HIDE DEF lo, hi, lv, k, l, r
  <2>3. InnerParted(V, x, lo, hi, lv, mid, l, r, k)
    BY ONLY <2>1, <2>2, InnerCut
  <2> QED BY <2>3 DEF lo, hi, lv, InnerParted
<1>10. /\ pc' = "grow" /\ key' = key /\ end' = end /\ found' = found /\ promoted' = k
       /\ right' = next /\ at' = p
  BY <1>7 DEF Split
<1> HIDE DEF l, r, k
<1>11. Splitting(V, p, l, r, k)
  <2>1. \A y \in Ids \ {p} : V.page[y] = pages[y]
    BY <1>4
  <2>2. content' \in SUBSET Entries /\ V.content = content'
    BY <1>3, <1>4
  <2> QED BY <1>1, <1>4, <1>6, <1>7, <1>9, <1>10, <2>1, <2>2 DEF Splitting
<1>12. Halved(p, l, r, k)
  BY <1>11, SplitStep
<1>13. /\ Ids' = Ids \cup {next} /\ Placed' = Ids /\ Upper' = high
       /\ next' = next + 1 /\ root' = root
       /\ \A y \in Ids : low'[y] = low[y] /\ level'[y] = level[y]
       /\ todo' \in Seq(Writes) /\ pages' \in [DOMAIN pages' -> Nodes]
       /\ DOMAIN pages' \subseteq 1 .. next /\ Ids' \subseteq 1 .. next
  BY <1>12 DEF Halved
<1>14. Filled'
  <2>1. Count(l) \in MinKeys .. MaxKeys /\ Count(r) \in MinKeys .. MaxKeys
    BY <1>8, <1>9
  <2>2. pc \in {"descend", "grow"} /\ pc' = "grow"
    BY <1>10
  <2> QED BY <1>1, <1>10, <1>12, <2>1, <2>2, HalvedFilled
<1>15. OnPath' /\ at' \in Nat /\ path' \in Seq(Nat)
  <2>1. ASSUME NEW y \in Placed, level[y] > level[at]
        PROVE  /\ y \in Placed' /\ level'[y] = level[y] /\ low'[y] = low[y]
               /\ Upper'[y] = Upper[y]
    <3>1. y # at /\ y \in Ids
      BY <2>1, <1>1, <1>3
    <3>2. Upper[y] = high[y]
      BY <3>1 DEF Upper
    <3> QED BY <3>1, <3>2, <1>13
  <2>2. at' = Last(path) /\ key' = key /\ root' = root
    BY <1>10, <1>13
  <2> QED BY <2>1, <2>2, UpPath
<1>16. TypeOK'
  <2>1. next' - 1 = next /\ next' \in Nat
    <3>1. next' = next + 1 /\ next \in Nat
      BY <1>3, <1>13
    <3> QED BY ONLY <3>1
  <2> QED BY <2>1, <1>2, <1>9, <1>10, <1>13, <1>15 DEF TypeOK
<1>17. Located'
  BY <1>2, <1>10, <1>12, <1>15 DEF Located, Halved
<1>18. Unique'
  BY <1>2 DEF Unique
<1> QED BY <1>12, <1>14, <1>16, <1>17, <1>18 DEF Inv, Halved

LEMMA InsertIntoParentStep ==
    ASSUME Inv, todo = <<>>, InsertIntoParent
    PROVE  Inv'
<1> DEFINE p == Last(path)
           i == ChildIndex(pages[p], key)
           keys == InsertAt(pages[p].keys, i, promoted)
           kids == InsertAt(pages[p].kids, i + 1, right)
<1>1. /\ pc = "grow" /\ path # <<>> /\ content' = content
      /\ \/ /\ Count(pages[p]) < MaxKeys /\ Perform(<<Write(p, Inner(keys, kids))>>)
            /\ Return /\ UNCHANGED <<root, next, shape>>
         \/ Count(pages[p]) = MaxKeys /\ SplitInner(p, keys, kids) /\ path' = Front(path)
  BY DEF InsertIntoParent
<1>2. CASE /\ Count(pages[p]) < MaxKeys /\ Perform(<<Write(p, Inner(keys, kids))>>)
           /\ Return /\ UNCHANGED <<root, next, shape>>
  BY <1>1, <1>2, InsertEnds
<1>3. CASE Count(pages[p]) = MaxKeys /\ SplitInner(p, keys, kids) /\ path' = Front(path)
  BY <1>1, <1>3, InsertClimbs
<1> QED BY <1>1, <1>2, <1>3

LEMMA GrowRootStep ==
    ASSUME Inv, todo = <<>>, GrowRoot
    PROVE  Inv'
<1> DEFINE T == Tree
           U == Tree'
           x == Inner(<<promoted>>, <<root, right>>)
<1>1. /\ pc = "grow" /\ path = <<>> /\ pages' = With(pages, next, x)
      /\ root' = next /\ next' = next + 1 /\ todo' = <<>> /\ content' = content
      /\ low' = With(low, next, 1) /\ high' = With(high, next, Beyond)
      /\ level' = With(level, next, level[root] + 1) /\ Return
  BY DEF GrowRoot
<1>2. TypeOK /\ Unique /\ OnPath /\ SplitBelow /\ at = root
  BY <1>1 DEF Inv, Located, OnPath
<1>3. /\ pc' = "idle" /\ key' \in Int /\ at' \in Nat /\ path' \in Seq(Nat) /\ promoted' \in Int
      /\ right' \in Nat /\ end' \in Int /\ Located'
  BY <1>1, <1>2, Returned
<1>4. /\ T.page = Ahead /\ T.lo = low /\ T.hi = high /\ T.lv = level /\ T.up = Upper
      /\ T.content = content /\ Good(T) /\ Topped(T, root) /\ content \in SUBSET Entries
      /\ low \in [Ids -> Int] /\ high \in [Ids -> Int] /\ level \in [Ids -> Nat]
      /\ Ahead \in [Ids -> Nodes] /\ Ids \subseteq Nat \ {0} /\ DOMAIN Upper = Placed
      /\ Ids \subseteq 1 .. next - 1 /\ next \in Nat /\ next \notin Ids /\ root \in Ids
      /\ Beyond \in Int
  BY Basics
<1>5. Ids \subseteq DOMAIN pages /\ Ahead = [y \in Ids |-> pages[y]]
  BY Calm
<1>6. /\ right \in Ids /\ right # root /\ level[right] = level[root] /\ low[right] = promoted
      /\ high[root] = promoted /\ promoted \in Separators
  BY <1>2 DEF SplitBelow, TypeOK, Separators
<1>7. next # 0 /\ next \in 1 .. next /\ 1 .. next - 1 \subseteq 1 .. next /\ next \notin DOMAIN pages
      /\ DOMAIN pages \subseteq 1 .. next - 1 /\ pages \in [DOMAIN pages -> Nodes]
  <2>1. DOMAIN pages \subseteq 1 .. next - 1 /\ pages \in [DOMAIN pages -> Nodes]
    BY <1>2 DEF TypeOK
  <2>2. root \in 1 .. next - 1
    BY <1>4
  <2> QED BY <2>1, <2>2, <1>4
<1>8. x \in Nodes /\ Count(x) = 1
  <2>1. <<promoted>> \in Seq(Separators) /\ Len(<<promoted>>) = 1
    BY <1>6
  <2>2. <<root, right>> \in Seq(PageIds)
    BY <1>4, <1>6 DEF PageIds
  <2> QED BY <2>1, <2>2, InnerParts
<1> HIDE DEF x
<1>9. /\ DOMAIN low' = Ids \cup {next} /\ Ids' = Ids \cup {next}
      /\ low' \in [Ids \cup {next} -> Int] /\ \A y \in Ids : low'[y] = low[y]
      /\ low'[next] = 1
  BY <1>1, <1>4 DEF With, Ids
<1>10. /\ high' \in [Ids \cup {next} -> Int] /\ \A y \in Ids : high'[y] = high[y]
       /\ high'[next] = Beyond
  BY <1>1, <1>4 DEF With
<1>11. /\ level' \in [Ids \cup {next} -> Nat] /\ \A y \in Ids : level'[y] = level[y]
       /\ level'[next] = level[root] + 1
  BY <1>1, <1>4 DEF With
<1>12. Placed' = Ids \cup {next} /\ Upper' = high'
  <2>1. Placed' = Ids \cup {next}
    BY <1>3, <1>9 DEF Placed
  <2> QED BY <2>1, <1>3, <1>10 DEF Upper
<1>13. pages' = [y \in DOMAIN pages \cup {next} |-> IF y = next THEN x ELSE pages[y]]
  BY <1>1 DEF With
<1>14. Ahead' = [y \in Ids \cup {next} |-> IF y = next THEN x ELSE Ahead[y]]
  <2>1. Len(todo') = 0
    BY <1>1
  <2>2. Ahead' = [y \in Ids \cup {next} |-> pages'[y]]
    BY <2>1, <1>9 DEF Ahead
  <2>3. \A y \in Ids \cup {next} : pages'[y] = IF y = next THEN x ELSE Ahead[y]
    BY <1>5, <1>13
  <2> QED BY <2>2, <2>3
<1>15. /\ U.page = Ahead' /\ U.lo = low' /\ U.hi = high' /\ U.lv = level' /\ U.up = high'
       /\ U.content = content
  BY <1>1, <1>12 DEF Tree
<1> HIDE DEF T, U
<1>16. Typed(U)
  <2>1. Ahead' \in [Ids \cup {next} -> Nodes]
    BY <1>4, <1>8, <1>14
  <2> QED BY <2>1, <1>4, <1>7, <1>9, <1>10, <1>11, <1>15 DEF Typed
<1>17. Parted(T, root, right)
  <2>1. DOMAIN T.up = Ids \ {right} /\ DOMAIN T.lo = Ids
    BY <1>1, <1>4 DEF Placed
  <2>2. \A y \in DOMAIN T.up : T.up[y] = IF y = root THEN T.hi[right] ELSE T.hi[y]
    BY <1>1, <1>2, <1>4, <2>1 DEF Upper, Placed
  <2> QED BY <2>1, <2>2, <1>4, <1>6 DEF Parted
<1>18. Good(U) /\ Topped(U, next)
  <2> DEFINE l == root
             r == right
             new == next
             b == Beyond
  <2>1. /\ Good(T) /\ Parted(T, l, r) /\ Topped(T, l) /\ Typed(U) /\ new \notin DOMAIN T.lo
        /\ DOMAIN U.lo = DOMAIN T.lo \cup {new} /\ U.up = U.hi /\ U.content = T.content
    BY <1>4, <1>9, <1>15, <1>16, <1>17
  <2>2. ASSUME NEW y \in DOMAIN T.lo
        PROVE  /\ U.lo[y] = T.lo[y] /\ U.hi[y] = T.hi[y] /\ U.lv[y] = T.lv[y]
               /\ U.page[y] = T.page[y]
    <3>1. y \in Ids /\ y # next
      BY <1>4
    <3> QED BY <3>1, <1>4, <1>9, <1>10, <1>11, <1>14, <1>15
  <2>3. /\ U.lo[new] = 1 /\ U.hi[new] = Beyond /\ U.lv[new] = T.lv[l] + 1
        /\ U.page[new] = Inner(<<T.lo[r]>>, <<l, r>>)
    BY <1>4, <1>6, <1>9, <1>10, <1>11, <1>14, <1>15 DEF x
  <2> HIDE DEF l, r, new
  <2>4. Good(U) /\ Topped(U, new)
    BY ONLY <2>1, <2>2, <2>3, AddTop
  <2> QED BY <2>4 DEF new
<1>19. Good(Tree)' /\ Topped(Tree, root)'
  BY <1>1, <1>18 DEF U
<1>20. TypeOK'
  <2>1. next' - 1 = next /\ next' \in Nat
    <3>1. next' = next + 1 /\ next \in Nat
      BY <1>1, <1>4
    <3> QED BY ONLY <3>1
  <2>2. DOMAIN pages' \subseteq 1 .. next /\ pages' \in [DOMAIN pages' -> Nodes]
        /\ Ids' \subseteq 1 .. next
    BY <1>4, <1>7, <1>8, <1>9, <1>13
  <2>3. todo' \in Seq(Writes) /\ root' \in Nat
    BY <1>1, <1>4
  <2> QED BY <2>1, <2>2, <2>3, <1>1, <1>2, <1>3 DEF TypeOK
<1>21. Unique'
  BY <1>1, <1>2 DEF Unique
<1>22. Pending'
  <2>1. Len(todo') = 0 /\ Ids' \subseteq DOMAIN pages'
    BY <1>1, <1>5, <1>9, <1>13
  <2> QED BY <2>1, <1>1 DEF Pending
<1>23. OnDiskAlready'
  <2>1. ASSUME NEW y \in DOMAIN U.lo \cap DOMAIN pages' PROVE Early(U, U, y, pages'[y])
    <3>1. pages'[y] = U.page[y]
      BY <1>5, <1>9, <1>13, <1>14, <1>15
    <3> QED BY <3>1 DEF Early
  <2>2. DiskOk(U, pages')
    BY <2>1, <1>18, DiskStep
  <2> QED BY <2>2 DEF U, OnDiskAlready
<1>24. Filled'
  <2>1. /\ \A y \in Ids : Count(Ahead[y]) <= MaxKeys /\ (y # root => Count(Ahead[y]) >= MinKeys)
        /\ Count(Ahead[root]) >= MinKeys
    BY <1>1, <1>2 DEF Inv, Filled, Least
  <2>2. MaxKeys >= 1 /\ Count(Ahead'[next]) = 1
    BY <1>8, <1>14, CapacityAssumption
  <2>3. ASSUME NEW y \in Ids
        PROVE  Count(Ahead'[y]) <= MaxKeys /\ Count(Ahead'[y]) >= MinKeys
    <3>1. Ahead'[y] = Ahead[y]
      BY <1>4, <1>14
    <3> QED BY <3>1, <2>1
  <2>4. \A y \in Ids' : Least(y)' = MinKeys
    BY <1>3 DEF Least
  <2>5. Count(Ahead'[next]) <= MaxKeys /\ Count(Ahead'[next]) >= 1
    BY <2>2, CapacityAssumption
  <2> QED BY <2>3, <2>4, <2>5, <1>1, <1>3, <1>9 DEF Filled
<1> QED BY <1>3, <1>19, <1>20, <1>21, <1>22, <1>23, <1>24 DEF Inv

(***************************************************************************)
(* The invariant holds of every state.                                     *)
(***************************************************************************)
LEMMA InvInit == Init => Inv
<1> SUFFICES ASSUME Init PROVE Inv
  OBVIOUS
<1> DEFINE n == Leaf(<<>>, NoPage)
           T == Tree
<1>1. /\ root = 1 /\ next = 2 /\ pages = [id \in {1} |-> n] /\ todo = <<>>
      /\ pc = "idle" /\ key = 0 /\ at = NoPage /\ path = <<>>
      /\ promoted = 0 /\ right = NoPage /\ end = 0 /\ found = {} /\ content = {}
      /\ low = [id \in {1} |-> 1] /\ high = [id \in {1} |-> Beyond]
      /\ level = [id \in {1} |-> 0]
  BY DEF Init
<1>2. Beyond \in Int /\ 1 < Beyond
  BY KeysAssumption DEF Beyond
<1>3. /\ n \in Nodes /\ n.leaf /\ n.entries = <<>> /\ n.next = NoPage /\ Count(n) = 0
  <2>1. <<>> \in Seq(Entries) /\ Len(<<>>) = 0 /\ NoPage \in Nat
    BY DEF NoPage
  <2> QED BY <2>1, LeafParts
<1> HIDE DEF n
<1>4. Ids = {1} /\ Placed = {1} /\ Upper = high
  BY <1>1 DEF Ids, Placed, Upper
<1>5. Ahead = [id \in {1} |-> n]
  BY <1>1, <1>4 DEF Ahead
<1>6. /\ T.page = [id \in {1} |-> n] /\ T.lo = low /\ T.hi = high /\ T.lv = level /\ T.up = high
      /\ T.content = {}
  BY <1>1, <1>4, <1>5 DEF Tree
<1> HIDE DEF T
<1>7. Good(T)
  <2>1. Typed(T)
    BY <1>1, <1>2, <1>3, <1>6 DEF Typed
  <2>2. Apart(T)
    BY <1>1, <1>2, <1>6 DEF Apart
  <2>3. ASSUME NEW id \in DOMAIN T.lo PROVE NodeOk(T, id, T.page[id])
    <3>1. /\ id = 1 /\ T.page[id] = n /\ T.lv[id] = 0 /\ T.hi[id] = Beyond
      BY <1>1, <1>6
    <3>2. Holds(<<>>, T.lo[id], T.hi[id], T.content)
      BY <1>6 DEF Holds
    <3> QED BY <3>1, <3>2, <1>3 DEF NodeOk, Fits, Link
  <2> QED BY <2>1, <2>2, <2>3 DEF Good
<1>8. Topped(T, root)
  BY <1>1, <1>6 DEF Topped
<1>9. Good(Tree) /\ Topped(Tree, root)
  BY <1>7, <1>8 DEF T
<1>10. TypeOK
  <2>1. 1 \in 1 .. next - 1
    BY <1>1
  <2> QED BY <2>1, <1>1, <1>3, <1>4 DEF TypeOK, NoPage
<1>11. Unique
  BY <1>1 DEF Unique
<1>12. Pending
  BY <1>1, <1>4 DEF Pending
<1>13. OnDiskAlready
  <2>1. ASSUME NEW id \in DOMAIN T.lo \cap DOMAIN pages PROVE Early(T, T, id, pages[id])
    BY <1>1, <1>6 DEF Early
  <2>2. DiskOk(T, pages)
    BY <2>1, <1>7, DiskStep
  <2> QED BY <2>2 DEF T, OnDiskAlready
<1>14. Filled
  BY <1>1, <1>3, <1>4, <1>5, Capacity DEF Filled
<1>15. Located
  BY <1>1 DEF Located
<1> QED BY <1>9, <1>10, <1>11, <1>12, <1>13, <1>14, <1>15 DEF Inv

LEMMA InvNext == Inv /\ [Next]_vars /\ twice' = {} => Inv'
<1> SUFFICES ASSUME Inv, [Next]_vars, twice' = {} PROVE Inv'
  OBVIOUS
<1>1. CASE Continue
  BY <1>1, ContinueStep
<1>2. ASSUME todo = <<>>, NEW k \in Keys, Begin(k) PROVE Inv'
  BY <1>2, BeginStep
<1>3. CASE todo = <<>> /\ Descend
  BY <1>3, DescendStep
<1>4. CASE todo = <<>> /\ (FindEnd \/ ScanEnd)
  <2>1. Return /\ UNCHANGED <<file, content, shape>> /\ pc \in {"descend", "scan"}
    BY <1>4 DEF FindEnd, ScanEnd, AtLeaf
  <2> QED BY <2>1, <1>4, EndStep
<1>5. CASE todo = <<>> /\ BeginScan
  BY <1>5, BeginScanStep
<1>6. CASE todo = <<>> /\ ScanLeaf
  BY <1>6, ScanLeafStep
<1>7. ASSUME todo = <<>>, NEW rid \in Rids, InsertIntoLeaf(rid) PROVE Inv'
  BY <1>7, InsertIntoLeafStep
<1>8. ASSUME todo = <<>>, NEW rid \in Rids, RemoveFromLeaf(rid) PROVE Inv'
  BY <1>8, RemoveFromLeafStep
<1>9. CASE todo = <<>> /\ InsertIntoParent
  BY <1>9, InsertIntoParentStep
<1>10. CASE todo = <<>> /\ GrowRoot
  BY <1>10, GrowRootStep
<1>11. CASE todo = <<>> /\ RemoveFromParent
  BY <1>11, RemoveFromParentStep
<1>12. CASE todo = <<>> /\ RemoveEnd
  BY <1>12, RemoveEndStep
<1>13. CASE UNCHANGED vars
  <2>1. /\ root' = root /\ next' = next /\ pages' = pages /\ todo' = todo /\ pc' = pc /\ key' = key
        /\ at' = at /\ path' = path /\ promoted' = promoted /\ right' = right /\ end' = end
        /\ found' = found /\ content' = content /\ low' = low /\ high' = high /\ level' = level
    BY <1>13 DEF vars
  <2>2. Ids' = Ids
    BY <2>1 DEF Ids
  <2>3. Ahead' = Ahead /\ Placed' = Placed
    BY <2>1, <2>2 DEF Ahead, Placed
  <2>4. Upper' = Upper
    BY <2>1, <2>3 DEF Upper
  <2>5. Tree' = Tree
    BY <2>1, <2>3, <2>4 DEF Tree
  <2>6. TypeOK' /\ Unique' /\ Pending'
    BY <2>1, <2>2 DEF Inv, TypeOK, Unique, Pending
  <2>7. Good(Tree)' /\ Topped(Tree, root)' /\ OnDiskAlready'
    BY <2>1, <2>5 DEF Inv, OnDiskAlready
  <2>8. Filled'
    BY <2>1, <2>2, <2>3 DEF Inv, Filled, Least
  <2>9. Located'
    BY <2>1, <2>2, <2>3, <2>4 DEF Inv, Located, OnPath, SplitBelow, Scanned
  <2> QED BY <2>6, <2>7, <2>8, <2>9 DEF Inv
<1> QED BY <1>1, <1>2, <1>3, <1>4, <1>5, <1>6, <1>7, <1>8, <1>9, <1>10, <1>11, <1>12, <1>13
        DEF Next

(***************************************************************************)
(* The writes that a node's work has still to make, and the page that a     *)
(* merge swallows: it stays on disk until the node above has lost it.       *)
(***************************************************************************)
Abandoned == DOMAIN pages \ Ids

\* leaf l is on disk and holds what the swallowed leaf x holds
TakenOver(x, l) ==
    /\ l \in DOMAIN pages /\ level[l] = 0 /\ pages[l].next = pages[x].next
    /\ \A i, j \in 1 .. Len(pages[x].entries) :
          i < j => pages[x].entries[i][1] < pages[x].entries[j][1]
    /\ Within(pages[x].entries, pages[l].entries)

Writing ==
    /\ Ids \subseteq DOMAIN pages \/ Len(todo) = 1
    /\ Len(todo) = 2 => ~todo[2].node.leaf
    /\ \A x \in Abandoned :
          /\ Len(todo) = 1 /\ todo[1].drop = {x}
          /\ pages[x].leaf => \E l \in Ids : TakenOver(x, l)

LEMMA WritingInit == Init => Writing
<1> SUFFICES ASSUME Init PROVE Writing
  OBVIOUS
<1>1. Ids = {1} /\ DOMAIN pages = {1} /\ todo = <<>>
  BY DEF Init, Ids
<1> QED BY <1>1 DEF Writing, Abandoned

LEMMA WritingKept ==
    ASSUME Writing, UNCHANGED <<pages, todo>>, UNCHANGED shape
    PROVE  Writing'
<1>1. pages' = pages /\ todo' = todo /\ level' = level /\ Ids' = Ids
  BY DEF shape, Ids
<1> QED BY <1>1 DEF Writing, Abandoned, TakenOver

LEMMA AllOnDisk ==
    ASSUME Inv, Writing, todo = <<>>
    PROVE  DOMAIN pages = Ids
<1>1. Len(todo) # 1
  OBVIOUS
<1>2. Ids \subseteq DOMAIN pages /\ Abandoned = {}
  BY <1>1 DEF Writing
<1> QED BY <1>2 DEF Abandoned

LEMMA AllWritten ==
    ASSUME DOMAIN pages' = Ids', Len(todo') = 2 => ~todo'[2].node.leaf
    PROVE  Writing'
BY DEF Writing, Abandoned

\* the first write of ws, of a page of the tree, when nothing else is to be written
LEMMA FirstWrite ==
    ASSUME Inv, Writing, todo = <<>>, NEW ws, Perform(ws), Head(ws).page \in Ids,
           Head(ws).drop = {}
    PROVE  DOMAIN pages' = Ids /\ todo' = Tail(ws)
<1>1. DOMAIN pages = Ids
  BY AllOnDisk
<1> QED BY <1>1 DEF Perform, Put

LEMMA WritingOne ==
    ASSUME Inv, Writing, todo = <<>>, NEW id \in Ids, NEW n, Perform(<<Write(id, n)>>),
           UNCHANGED shape
    PROVE  Writing'
<1> DEFINE ws == <<Write(id, n)>>
<1>1. Head(ws).page = id /\ Head(ws).drop = {} /\ Tail(ws) = <<>> /\ Perform(ws)
  BY DEF Write
<1> HIDE DEF ws
<1>2. DOMAIN pages' = Ids /\ todo' = <<>>
  BY <1>1, FirstWrite
<1>3. Ids' = Ids /\ Len(todo') = 0
  BY <1>2 DEF Ids, shape
<1> QED BY <1>2, <1>3, AllWritten

LEMMA WritingSplit ==
    ASSUME Inv, Writing, todo = <<>>, NEW id \in Ids, NEW l, NEW r, NEW k, Split(id, l, r, k)
    PROVE  Writing'
<1> DEFINE ws == <<Write(id, l), Write(next, r)>>
<1>1. Head(ws).page = id /\ Head(ws).drop = {} /\ Len(Tail(ws)) = 1 /\ Perform(ws)
  BY DEF Write, Split
<1> HIDE DEF ws
<1>2. DOMAIN pages' = Ids /\ Len(todo') = 1
  BY <1>1, FirstWrite
<1>3. Ids' = Ids \cup {next}
  BY DEF Split, With, Ids
<1> QED BY <1>2, <1>3 DEF Writing, Abandoned

LEMMA WritingThree ==
    ASSUME Inv, Writing, todo = <<>>, NEW x \in Ids, NEW y, NEW p, NEW a, NEW b, NEW n,
           ~n.leaf, Perform(<<Write(x, a), Write(y, b), Write(p, n)>>), Ids' = Ids
    PROVE  Writing'
<1> DEFINE ws == <<Write(x, a), Write(y, b), Write(p, n)>>
<1>1. Head(ws) = Write(x, a) /\ Tail(ws) = <<Write(y, b), Write(p, n)>> /\ Perform(ws)
  OBVIOUS
<1>2. Write(x, a).page = x /\ Write(x, a).drop = {}
  BY DEF Write
<1> HIDE DEF ws
<1>3. DOMAIN pages' = Ids /\ todo' = <<Write(y, b), Write(p, n)>>
  BY <1>1, <1>2, FirstWrite
<1>4. todo'[2] = Write(p, n)
  BY <1>3
<1>5. todo'[2].node = n
  BY <1>4 DEF Write
<1> QED BY <1>3, <1>5, AllWritten

LEMMA WritingMerge ==
    ASSUME Writing, NEW p, NEW i, Short(p, i), NEW j \in 1 .. Len(pages[p].keys),
           NEW l, l = pages[p].kids[j], NEW r, r = pages[p].kids[j + 1], Merge(p, pages[p], j)
    PROVE  Writing'
<1> DEFINE b == IF pages[l].leaf THEN Leaf(pages[l].entries \o pages[r].entries, pages[r].next)
                ELSE Inner(Append(pages[l].keys, pages[p].keys[j]) \o pages[r].keys,
                           pages[l].kids \o pages[r].kids)
           x == Inner(RemoveAt(pages[p].keys, j), RemoveAt(pages[p].kids, j + 1))
           ws == <<Write(l, b), WriteDropping(p, x, r)>>
<1>1. Inv /\ todo = <<>>
  BY DEF Short
<1>2. Perform(ws) /\ Absorb(l, r)
  BY ZenonT(30) DEF Merge
<1> HIDE DEF x
<1>3. Facing(p, j, l, r)
  BY Pair
<1>4. l \in Ids /\ r \in Ids /\ l # r /\ level \in [Ids -> Nat]
  BY ONLY <1>1, <1>3, Basics DEF Facing
<1>5. /\ Head(ws) = Write(l, b) /\ Head(ws).page = l /\ Head(ws).drop = {}
      /\ Tail(ws) = <<WriteDropping(p, x, r)>>
  BY DEF Write
<1> HIDE DEF ws, b
<1>6. /\ DOMAIN pages' = Ids /\ todo' = <<WriteDropping(p, x, r)>>
      /\ pages' = Put(pages, Write(l, b))
  BY <1>1, <1>2, <1>4, <1>5, FirstWrite DEF Perform
<1>7. pages'[l] = b /\ pages'[r] = pages[r]
  BY <1>4, <1>6 DEF Put, Write
<1>8. Len(todo') = 1 /\ todo'[1].drop = {r}
  BY <1>6 DEF WriteDropping
<1>9. Ids' = Ids \ {r} /\ level'[l] = level[l]
  BY <1>2, <1>4, Basics DEF Absorb, Without, Ids
<1>10. ASSUME pages'[r].leaf PROVE TakenOver(r, l)'
  <2>1. /\ pages[r].leaf /\ level[l] = 0 /\ pages[l].leaf
    BY <1>3, <1>7, <1>10 DEF Facing
  <2>2. b = Leaf(pages[l].entries \o pages[r].entries, pages[r].next)
    BY <2>1 DEF b
  <2>3. /\ pages[l].entries \in Seq(Entries) /\ pages[r].entries \in Seq(Entries)
        /\ \A c, d \in 1 .. Len(pages[r].entries) :
              c < d => pages[r].entries[c][1] < pages[r].entries[d][1]
    BY ONLY <2>1, <1>1, <1>4, PageIs DEF Holds
  <2>4. Within(pages[r].entries, b.entries) /\ b.next = pages[r].next
    <3> DEFINE es == pages[l].entries
               fs == pages[r].entries
    <3>1. /\ Len(es) \in Nat /\ Len(fs) \in Nat /\ Len(es \o fs) = Len(es) + Len(fs)
          /\ \A c \in 1 .. Len(es) + Len(fs) :
                (es \o fs)[c] = IF c <= Len(es) THEN es[c] ELSE fs[c - Len(es)]
      <4>1. es \in Seq(Entries) /\ fs \in Seq(Entries)
        BY <2>3
      <4> HIDE DEF es, fs
      <4> QED BY <4>1, ConcatProperties
    <3>2. b.entries = es \o fs /\ b.next = pages[r].next
      BY ONLY <2>2 DEF Leaf
    <3> HIDE DEF es, fs
    <3>3. ASSUME NEW c \in 1 .. Len(fs)
          PROVE  \E d \in 1 .. Len(es \o fs) : fs[c] = (es \o fs)[d]
      <4> DEFINE d == Len(es) + c
      <4>1. d \in 1 .. Len(es \o fs) /\ ~(d <= Len(es)) /\ d - Len(es) = c
        BY <3>1
      <4>2. (es \o fs)[d] = fs[c]
        <5> HIDE DEF d
        <5> QED BY <4>1, <3>1
      <4> QED BY <4>1, <4>2
    <3> QED BY <3>2, <3>3 DEF Within, fs
  <2>5. l \in DOMAIN pages' /\ level'[l] = 0 /\ pages'[l].next = pages'[r].next
    BY <2>1, <2>4, <1>4, <1>6, <1>7, <1>9
  <2>6. Within(pages'[r].entries, pages'[l].entries)
    BY <2>4, <1>7
  <2>7. \A c, d \in 1 .. Len(pages'[r].entries) :
           c < d => pages'[r].entries[c][1] < pages'[r].entries[d][1]
    BY <2>3, <1>7
  <2> QED BY ONLY <2>5, <2>6, <2>7 DEF TakenOver
<1>11. Abandoned' = {r} /\ l \in Ids' /\ Ids' \subseteq DOMAIN pages'
  BY <1>4, <1>6, <1>9 DEF Abandoned
<1>12. Len(todo') # 2
  BY <1>8
<1>13. ASSUME NEW y \in Abandoned'
       PROVE  /\ Len(todo') = 1 /\ todo'[1].drop = {y}
              /\ pages'[y].leaf => \E c \in Ids' : TakenOver(y, c)'
  BY <1>8, <1>10, <1>11, <1>13
<1> QED BY ONLY <1>11, <1>12, <1>13 DEF Writing

LEMMA WritingRebalance ==
    ASSUME Writing, NEW p, NEW i, Short(p, i), Rebalance(p, pages[p], i)
    PROVE  Writing'
<1> DEFINE n == pages[p]
<1>1. Inv /\ todo = <<>>
  BY DEF Short
<1>2. /\ i \in 1 .. Len(n.keys) + 1 /\ Len(n.keys) \in Nat \ {0}
      /\ Len(n.kids) = Len(n.keys) + 1
  BY ShortFacts
<1>3. low \in [Ids -> Int]
  BY <1>1, Basics
<1>4. CASE CanLend(n, i - 1) /\ BorrowLeft(p, n, i)
  <2> DEFINE j == i - 1
             l == n.kids[j]
             r == n.kids[j + 1]
             k == IF pages[l].leaf THEN Last(pages[l].entries)[1] ELSE Last(pages[l].keys)
             x == Inner([n.keys EXCEPT ![j] = k], n.kids)
  <2>1. j \in 1 .. Len(n.keys) /\ i = j + 1
    BY <1>2, <1>4 DEF CanLend
  <2>2. /\ Perform(<<Write(l, LeftGives(pages[l])),
                     Write(r, TakesFromLeft(pages[r], pages[l], n.keys[j])), Write(p, x)>>)
        /\ Redivide(l, r, k)
    <3>1. r = n.kids[i]
      BY <2>1
    <3> QED BY <3>1, <1>4, ZenonT(30) DEF BorrowLeft
  <2>3. Facing(p, j, l, r)
    <3> HIDE DEF j
    <3> QED BY <2>1, Pair DEF l, r, n
  <2>4. ~x.leaf
    BY DEF Inner
  <2> HIDE DEF l, r, x, k
  <2>5. l \in Ids /\ Ids' = Ids
    BY <2>2, <2>3, <1>3 DEF Facing, Redivide, Ids
  <2> QED BY <2>2, <2>4, <2>5, <1>1, WritingThree
<1>5. CASE CanLend(n, i + 1) /\ BorrowRight(p, n, i)
  <2> DEFINE l == n.kids[i]
             r == n.kids[i + 1]
             k == IF pages[r].leaf THEN pages[r].entries[2][1] ELSE pages[r].keys[1]
             x == Inner([n.keys EXCEPT ![i] = k], n.kids)
  <2>1. i \in 1 .. Len(n.keys)
    BY <1>2, <1>5 DEF CanLend
  <2>2. /\ Perform(<<Write(r, RightGives(pages[r])),
                     Write(l, TakesFromRight(pages[l], pages[r], n.keys[i])), Write(p, x)>>)
        /\ Redivide(l, r, k)
    BY <1>5, ZenonT(30) DEF BorrowRight
  <2>3. Facing(p, i, l, r)
    BY <2>1, Pair
  <2>4. ~x.leaf
    BY DEF Inner
  <2> HIDE DEF l, r, x, k
  <2>5. r \in Ids /\ Ids' = Ids
    BY <2>2, <2>3, <1>3 DEF Facing, Redivide, Ids
  <2> QED BY <2>2, <2>4, <2>5, <1>1, WritingThree
<1>6. CASE Merge(p, n, IF i > 1 THEN i - 1 ELSE i)
  <2> DEFINE j == IF i > 1 THEN i - 1 ELSE i
  <2>1. j \in 1 .. Len(n.keys)
    BY <1>2
  <2> HIDE DEF j, n
  <2>2. Merge(p, n, j)
    BY <1>6 DEF j
  <2> QED BY <2>1, <2>2, WritingMerge DEF n
<1> QED BY <1>4, <1>5, <1>6 DEF Rebalance

LEMMA WritingContinue ==
    ASSUME Inv, Writing, Continue
    PROVE  Writing'
<1> DEFINE w == todo[1]
<1>1. /\ todo # <<>> /\ pages' = Put(pages, Head(todo)) /\ todo' = Tail(todo)
      /\ low' = low /\ level' = level
  BY DEF Continue, Perform, shape
<1>2. todo \in Seq(Writes) /\ Len(todo) \in Nat /\ Len(todo) <= 2 /\ Pending
  BY SMTT(30) DEF Inv, TypeOK, Pending
<1>3. Len(todo) \in {1, 2} /\ Head(todo) = w /\ Len(Tail(todo)) = Len(todo) - 1
  <2>1. Len(todo) # 0
    BY <1>1, <1>2, EmptySeq
  <2> DEFINE n == Len(todo)
  <2>2. n \in {1, 2}
    <3>1. n # 0 /\ n \in Nat /\ n <= 2
      BY <2>1, <1>2
    <3> HIDE DEF n
    <3> QED BY ONLY <3>1
  <2> QED BY <2>2, <1>1, <1>2, HeadTailProperties
<1> HIDE DEF w
<1>4. w.page \in Ids /\ w.drop \cap Ids = {} /\ Ids' = Ids
  BY <1>1, <1>2, <1>3 DEF Pending, w, Ids
<1>5. DOMAIN pages' = (DOMAIN pages \cup {w.page}) \ w.drop
  BY <1>1, <1>3 DEF Put
<1>6. Len(todo') \in {0, 1}
  BY <1>1, <1>3
<1>7. DOMAIN pages' = Ids
  <2>1. CASE Len(todo) = 2
    <3>1. DOMAIN pages = Ids
      BY <2>1 DEF Writing, Abandoned
    <3> QED BY <3>1, <1>4, <1>5
  <2>2. CASE Len(todo) = 1
    <3>1. ASSUME NEW id \in Ids, id \notin DOMAIN pages PROVE id = w.page
      BY <2>2, <3>1, <1>2 DEF Pending, w
    <3>2. ASSUME NEW id \in DOMAIN pages, id \notin Ids PROVE id \in w.drop
      BY <3>2 DEF Writing, Abandoned, w
    <3> QED BY <3>1, <3>2, <1>4, <1>5
  <2> QED BY <2>1, <2>2, <1>3
<1> QED BY <1>4, <1>6, <1>7, AllWritten

LEMMA WritingNext == Inv /\ Writing /\ [Next]_vars => Writing'
<1> SUFFICES ASSUME Inv, Writing, [Next]_vars PROVE Writing'
  OBVIOUS
<1>1. CASE Continue
  BY <1>1, WritingContinue
<1>2. CASE \/ \E k \in Keys : Begin(k)
           \/ Descend \/ FindEnd \/ BeginScan \/ ScanLeaf \/ ScanEnd
  BY <1>2, WritingKept DEF Begin, Descend, FindEnd, BeginScan, ScanLeaf, ScanEnd, file
<1>3. ASSUME todo = <<>>, NEW rid \in Rids, InsertIntoLeaf(rid) PROVE Writing'
  <2>1. at \in Ids
    BY <1>3, Basics DEF InsertIntoLeaf, AtLeaf, Inv, Located, OnPath
  <2>2. CASE \E x : Perform(<<Write(at, x)>>) /\ UNCHANGED shape
    BY <2>1, <2>2, <1>3, WritingOne
  <2>3. CASE \E l, r, k : Split(at, l, r, k)
    BY <2>1, <2>3, <1>3, WritingSplit
  <2> QED BY <2>2, <2>3, <1>3 DEF InsertIntoLeaf, SplitLeaf
<1>4. ASSUME todo = <<>>, NEW rid \in Rids, RemoveFromLeaf(rid) PROVE Writing'
  <2>1. at \in Ids /\ UNCHANGED shape
    BY <1>4, Basics DEF RemoveFromLeaf, AtLeaf, Inv, Located, OnPath
  <2>2. CASE \E x : Perform(<<Write(at, x)>>)
    BY <2>1, <2>2, <1>4, WritingOne
  <2>3. CASE UNCHANGED <<pages, todo>>
    BY <2>1, <2>3, WritingKept
  <2> QED BY <2>2, <2>3, <1>4 DEF RemoveFromLeaf
<1>5. CASE todo = <<>> /\ InsertIntoParent
  <2>1. Last(path) \in Ids
    BY <1>5, ParentFacts DEF InsertIntoParent
  <2>2. CASE \E x : Perform(<<Write(Last(path), x)>>) /\ UNCHANGED shape
    BY <2>1, <2>2, <1>5, WritingOne
  <2>3. CASE \E l, r, k : Split(Last(path), l, r, k)
    BY <2>1, <2>3, <1>5, WritingSplit
  <2> QED BY <2>2, <2>3, <1>5 DEF InsertIntoParent, SplitInner
<1>6. CASE todo = <<>> /\ GrowRoot
  <2>1. DOMAIN pages = Ids
    BY <1>6, AllOnDisk
  <2>2. DOMAIN pages' = Ids \cup {next} /\ Ids' = Ids \cup {next} /\ todo' = <<>>
    BY <2>1, <1>6 DEF GrowRoot, With, Ids
  <2>3. Len(todo') = 0
    BY <2>2
  <2> QED BY <2>2, <2>3, AllWritten
<1>7. CASE todo = <<>> /\ RemoveFromParent
  <2> DEFINE p == Last(path)
             i == ChildIndex(pages[p], key)
  <2>1. CASE Underflow /\ Rebalance(p, pages[p], i)
    <3>1. Short(p, i)
      BY <1>7, <2>1 DEF Short, RemoveFromParent
    <3> HIDE DEF p, i
    <3> QED BY <3>1, <2>1, WritingRebalance
  <2>2. CASE UNCHANGED <<pages, todo, shape>>
    BY <2>2, WritingKept
  <2> QED BY <2>1, <2>2, <1>7 DEF RemoveFromParent
<1>8. CASE todo = <<>> /\ RemoveEnd
  <2>1. DOMAIN pages = Ids
    BY <1>8, AllOnDisk
  <2>2. DOMAIN pages' = Ids' /\ todo' = <<>>
    BY <2>1, <1>8 DEF RemoveEnd, Without, Ids, shape
  <2>3. Len(todo') = 0
    BY <2>2
  <2> QED BY <2>2, <2>3, AllWritten
<1>9. CASE UNCHANGED vars
  BY <1>9, WritingKept DEF vars, shape
<1> QED BY <1>1, <1>2, <1>3, <1>4, <1>5, <1>6, <1>7, <1>8, <1>9 DEF Next

\* As long as no key was inserted while the tree held it, the tree is right in
\* every state, with the writes that are still to be made counted in: its pages
\* divide the keys, the leaves hold the entries that were inserted and not removed,
\* the nodes are filled, the running operation is on the way from the root to its
\* key, and the one page on disk that the tree no longer counts is the one that the
\* merge at hand swallows.
THEOREM TreeInvariant == Spec => [](twice = {} => Inv /\ Writing)
<1> DEFINE Right == twice = {} => Inv /\ Writing
<1>1. Init => Right
  BY InvInit, WritingInit
<1>2. Right /\ [Next]_vars => Right'
  <2> SUFFICES ASSUME Right, [Next]_vars, twice' = {} PROVE (Inv /\ Writing)'
    OBVIOUS
  <2>1. twice = {}
    BY DEF Next, vars, Continue, Begin, Descend, FindEnd, BeginScan, ScanLeaf, ScanEnd,
           InsertIntoLeaf, Doubles, RemoveFromLeaf, InsertIntoParent, GrowRoot,
           RemoveFromParent, RemoveEnd
  <2> QED BY <2>1, InvNext, WritingNext
<1> QED BY <1>1, <1>2, PTL DEF Spec

(***************************************************************************)
(* What the invariant says of the pages, of find and of range_find.        *)
(***************************************************************************)
LEMMA Settled ==
    ASSUME Inv, pc \notin {"grow", "shrink"}
    PROVE  todo = <<>> /\ Placed = Ids /\ Upper = high
BY Basics DEF Inv, Pending

LEMMA BalancedOrderedHolds == twice = {} /\ Inv => BalancedOrdered
<1> SUFFICES ASSUME twice = {}, Inv, pc = "idle"
             PROVE  /\ low[root] = 1 /\ high[root] = Beyond
                    /\ \A id \in Ids : LET n == pages[id] IN
                          /\ Count(n) <= MaxKeys /\ (id # root => Count(n) >= MinKeys)
                          /\ n.leaf <=> level[id] = 0
                          /\ n.leaf => \A i \in 1 .. Len(n.entries) :
                                /\ low[id] <= n.entries[i][1] /\ n.entries[i][1] < high[id]
                                /\ \A j \in 1 .. i - 1 : n.entries[j][1] < n.entries[i][1]
                          /\ ~n.leaf =>
                                /\ n.keys # <<>> /\ Len(n.kids) = Len(n.keys) + 1
                                /\ \A i \in 1 .. Len(n.kids) :
                                      /\ n.kids[i] \in Ids /\ level[n.kids[i]] = level[id] - 1
                                      /\ low[n.kids[i]] = From(n, low[id], i)
                                      /\ high[n.kids[i]] = To(n, high[id], i)
                                      /\ low[n.kids[i]] < high[n.kids[i]]
  BY DEF BalancedOrdered, Below
<1>1. todo = <<>> /\ Placed = Ids /\ Upper = high
  BY Settled
<1>2. low[root] = 1 /\ high[root] = Beyond
  BY <1>1, Basics
<1>3. ASSUME NEW id \in Ids
      PROVE  LET n == pages[id] IN
             /\ Count(n) <= MaxKeys /\ (id # root => Count(n) >= MinKeys)
             /\ n.leaf <=> level[id] = 0
             /\ n.leaf => \A i \in 1 .. Len(n.entries) :
                   /\ low[id] <= n.entries[i][1] /\ n.entries[i][1] < high[id]
                   /\ \A j \in 1 .. i - 1 : n.entries[j][1] < n.entries[i][1]
             /\ ~n.leaf =>
                   /\ n.keys # <<>> /\ Len(n.kids) = Len(n.keys) + 1
                   /\ \A i \in 1 .. Len(n.kids) :
                         /\ n.kids[i] \in Ids /\ level[n.kids[i]] = level[id] - 1
                         /\ low[n.kids[i]] = From(n, low[id], i)
                         /\ high[n.kids[i]] = To(n, high[id], i)
                         /\ low[n.kids[i]] < high[n.kids[i]]
  <2> DEFINE n == pages[id]
  <2>1. /\ n = Ahead[id] /\ n = Tree.page[id] /\ n \in Nodes /\ (n.leaf <=> level[id] = 0)
        /\ n.leaf => Holds(n.entries, low[id], high[id], content) /\ n.entries \in Seq(Entries)
    BY <1>1, PageIs
  <2> HIDE DEF n
  <2>2. Count(n) <= MaxKeys /\ (id # root => Count(n) >= MinKeys)
    BY <2>1 DEF Inv, Filled, Least
  <2>3. ASSUME n.leaf, NEW i \in 1 .. Len(n.entries)
        PROVE  /\ low[id] <= n.entries[i][1] /\ n.entries[i][1] < high[id]
               /\ \A j \in 1 .. i - 1 : n.entries[j][1] < n.entries[i][1]
    <3>1. \A j \in 1 .. i - 1 : j \in 1 .. Len(n.entries) /\ j < i
      BY <2>1, <2>3
    <3> QED BY <3>1, <2>1, <2>3 DEF Holds
  <2>4. ASSUME ~n.leaf
        PROVE  /\ n.keys # <<>> /\ Len(n.kids) = Len(n.keys) + 1 /\ Len(n.keys) \in Nat
               /\ Routes(Tree, Len(n.keys), n.keys, n.kids, low[id], high[id], level[id])
    <3>1. Fits(Tree, n, low[id], high[id], level[id])
      BY <2>1, Basics DEF Good, NodeOk
    <3>2. /\ Len(n.kids) = Len(n.keys) + 1
          /\ Routes(Tree, Len(n.keys), n.keys, n.kids, low[id], high[id], level[id])
      BY <3>1, <2>1, <2>4 DEF Fits
    <3>3. level[id] > 0
      BY <2>1, <2>4, Basics
    <3>4. Count(n) >= 1
      <4>1. CASE id = root
        BY <4>1, <2>1, <3>3 DEF Inv, Filled
      <4>2. CASE id # root
        <5>1. MinKeys >= 1 /\ MinKeys \in Nat
          BY CapacityAssumption DEF MinKeys
        <5>2. Count(n) \in Nat
          BY <2>1, NodeParts DEF Count
        <5> QED BY <4>2, <5>1, <5>2, <2>2
      <4> QED BY <4>1, <4>2
    <3>5. Count(n) = Len(n.keys) /\ Len(n.keys) \in Nat
      BY <2>1, <2>4, NodeParts DEF Count
    <3> QED BY <3>2, <3>4, <3>5
  <2>5. ASSUME ~n.leaf, NEW i \in 1 .. Len(n.kids)
        PROVE  /\ n.kids[i] \in Ids /\ level[n.kids[i]] = level[id] - 1
               /\ low[n.kids[i]] = From(n, low[id], i)
               /\ high[n.kids[i]] = To(n, high[id], i)
               /\ low[n.kids[i]] < high[n.kids[i]]
    <3> DEFINE m == Len(n.keys)
    <3>1. /\ m \in Nat /\ Len(n.kids) = m + 1 /\ i \in 1 .. m + 1
          /\ Routes(Tree, m, n.keys, n.kids, low[id], high[id], level[id])
      BY <2>4, <2>5
    <3> HIDE DEF m
    <3>2. /\ n.kids[i] \in DOMAIN Tree.up /\ Tree.lv[n.kids[i]] = level[id] - 1
          /\ Tree.lo[n.kids[i]] = (IF i = 1 THEN low[id] ELSE n.keys[i - 1])
          /\ Tree.up[n.kids[i]] = (IF i = m + 1 THEN high[id] ELSE n.keys[i])
      BY <3>1 DEF Routes
    <3>3. /\ Tree.up = high /\ Tree.lo = low /\ Tree.lv = level /\ DOMAIN high = Ids
      BY <1>1, Basics
    <3>4. n.kids[i] \in Ids
      BY <3>2, <3>3
    <3>5. low[n.kids[i]] < high[n.kids[i]]
      BY <3>4, <1>1, PageIs
    <3> QED BY <3>1, <3>2, <3>3, <3>4, <3>5 DEF From, To
  <2> QED BY <2>1, <2>2, <2>3, <2>4, <2>5 DEF n
<1> QED BY <1>2, <1>3

LEMMA ChainFollowsTreeHolds == Inv => ChainFollowsTree
<1> SUFFICES ASSUME Inv, pc = "idle", NEW id \in Ids, pages[id].leaf
             PROVE  IF pages[id].next = NoPage THEN high[id] = Beyond
                    ELSE /\ pages[id].next \in Ids /\ pages[pages[id].next].leaf
                         /\ low[pages[id].next] = high[id]
  BY DEF ChainFollowsTree
<1>1. todo = <<>>
  BY Settled
<1> DEFINE to == pages[id].next
<1>2. Link(Tree, to, high[id])
  BY <1>1, PageIs
<1> HIDE DEF to
<1>3. CASE to = NoPage
  BY <1>2, <1>3 DEF Link, to
<1>4. CASE to # NoPage
  <2>1. to \in Ids /\ level[to] = 0 /\ low[to] = high[id]
    BY <1>2, <1>4, Basics DEF Link
  <2>2. pages[to].leaf
    BY <2>1, <1>1, PageIs
  <2> QED BY <2>1, <2>2, <1>4 DEF to
<1> QED BY <1>3, <1>4

LEMMA FindAnswersHolds == Inv => FindAnswers
<1> SUFFICES ASSUME Inv, AtLeaf
             PROVE  Find(pages[at], key) = {e[2] : e \in {f \in content : f[1] = key}}
  BY DEF FindAnswers
<1> DEFINE es == pages[at].entries
<1>1. pc = "descend" /\ todo = <<>> /\ pages[at].leaf /\ OnPath
  BY DEF AtLeaf, Inv, Located
<1>2. at \in Ids /\ low[at] <= key /\ key < high[at]
  BY <1>1, Basics DEF OnPath
<1>3. Holds(es, low[at], high[at], content)
  BY <1>1, <1>2, PageIs
<1> HIDE DEF es
<1>4. ASSUME NEW i \in 1 .. Len(es), es[i][1] = key PROVE es[i] \in content
  BY <1>3 DEF Holds
<1>5. ASSUME NEW e \in content, e[1] = key PROVE \E i \in 1 .. Len(es) : es[i] = e
  BY <1>2, <1>3, <1>5 DEF Holds
<1>6. Find(pages[at], key) = {es[i][2] : i \in {j \in 1 .. Len(es) : es[j][1] = key}}
  BY DEF Find, es
<1>7. {es[i][2] : i \in {j \in 1 .. Len(es) : es[j][1] = key}}
         = {e[2] : e \in {f \in content : f[1] = key}}
  BY <1>4, <1>5
<1> QED BY <1>6, <1>7

LEMMA RangeAnswersHolds == twice = {} /\ Inv => RangeAnswers
<1> SUFFICES ASSUME twice = {}, Inv, pc = "scan" PROVE RangeAnswers
  BY DEF RangeAnswers
<1> DEFINE es == pages[at].entries
<1>1. todo = <<>> /\ Scanned /\ TypeOK
  BY Settled DEF Inv, Located
<1>2. /\ at \in Ids /\ level[at] = 0 /\ key \in Int /\ end \in Int
      /\ found = {e \in content : key <= e[1] /\ e[1] < end /\ e[1] < low[at]}
  BY <1>1 DEF Scanned, TypeOK
<1>3. /\ low[at] \in Int /\ high[at] \in Int /\ low[at] < high[at] /\ es \in Seq(Entries)
      /\ Holds(es, low[at], high[at], content) /\ Link(Tree, pages[at].next, high[at])
  BY <1>1, <1>2, PageIs
<1>4. ASSUME NEW e \in content PROVE e[1] \in Int /\ e[1] < Beyond
  BY <1>1, KeysAssumption DEF TypeOK, Entries, Keys, Beyond
<1> HIDE DEF es
<1>5. content \in SUBSET Entries
  BY Basics
<1>6. /\ {es[i] : i \in Hits(es)} =
           {e \in content : low[at] <= e[1] /\ e[1] < high[at] /\ key <= e[1] /\ e[1] < end}
      /\ PastEnd(es) # {} => \E i \in 1 .. Len(es) : key <= es[i][1] /\ end <= es[i][1]
  BY <1>2, <1>3, <1>5, HitsAre
<1>7. ASSUME NEW i \in Hits(es)
      PROVE  /\ \A j \in Hits(es) : i < j => es[i][1] < es[j][1]
             /\ \A e \in found : e[1] < es[i][1]
  <2>1. Hits(es) \subseteq 1 .. Len(es)
    BY DEF Hits
  <2>2. \A j \in Hits(es) : i < j => es[i][1] < es[j][1]
    BY <2>1, <1>3 DEF Holds
  <2>3. low[at] <= es[i][1] /\ es[i][1] \in Int
    BY <2>1, <1>3, EntryAt DEF Holds
  <2>4. ASSUME NEW e \in found PROVE e[1] < es[i][1]
    <3>1. e[1] \in Int /\ e[1] < low[at]
      BY <1>2, <1>4
    <3> QED BY <3>1, <2>3, <1>3
  <2> QED BY <2>2, <2>4
<1>8. ASSUME LastToScan, NEW e \in content, key <= e[1], e[1] < end
      PROVE  e[1] < high[at]
  <2>1. CASE PastEnd(es) # {}
    <3>1. PICK i \in 1 .. Len(es) : end <= es[i][1]
      BY <2>1, <1>6
    <3>2. es[i][1] < high[at] /\ es[i][1] \in Int
      BY <3>1, <1>3, EntryAt DEF Holds
    <3>3. e[1] \in Int
      BY <1>4
    <3> QED BY <3>1, <3>2, <3>3, <1>2, <1>3, <1>8
  <2>2. CASE pages[at].next = NoPage
    BY <2>2, <1>3, <1>4 DEF Link
  <2> QED BY <2>1, <2>2, <1>8 DEF LastToScan, es
<1>9. ASSUME LastToScan PROVE Listed = {e \in content : key <= e[1] /\ e[1] < end}
  <2>1. Listed = found \cup {es[i] : i \in Hits(es)}
    BY DEF Listed, es
  <2>2. ASSUME NEW e \in content, key <= e[1], e[1] < end
        PROVE  e[1] < low[at] \/ (low[at] <= e[1] /\ e[1] < high[at])
    BY <2>2, <1>3, <1>4, <1>8, <1>9
  <2> QED BY <2>1, <2>2, <1>2, <1>6
<1> HIDE DEF es
<1>10. es = pages[at].entries /\ \A S : Once(S) = S
  BY DEF Once, es
<1> QED BY <1>7, <1>9, <1>10 DEF RangeAnswers, Below

\* a level of the tree covers the keys: a leaf has k in its range
LEMMA SomeLeaf ==
    ASSUME Inv, NEW k \in Int, 1 <= k, k < Beyond
    PROVE  \E id \in Ids : level[id] = 0 /\ low[id] <= k /\ k < high[id]
<1>1. /\ Tree.page = Ahead /\ Tree.lo = low /\ Tree.hi = high /\ Tree.lv = level
      /\ Tree.up = Upper /\ Good(Tree) /\ root \in Placed /\ low[root] = 1
      /\ Upper[root] = Beyond /\ Placed \subseteq Ids /\ DOMAIN Upper = Placed
      /\ low \in [Ids -> Int] /\ high \in [Ids -> Int] /\ level \in [Ids -> Nat]
  BY Basics
<1> DEFINE Has(id) == low[id] <= k /\ k < Upper[id]
           L == {level[id] : id \in {y \in Placed : Has(y)}}
<1>2. L \in SUBSET Nat /\ L # {}
  BY <1>1
<1>3. PICK m \in L : \A i \in L : ~(<<i, m>> \in OpToRel(<, Nat))
  <2> HIDE DEF L
  <2> QED BY <1>2, NatLessThanWellFounded, WFMin, ZenonT(30)
<1>4. PICK id \in Placed : Has(id) /\ level[id] = m
  <2>1. m \in L
    OBVIOUS
  <2> HIDE DEF Has
  <2> QED BY ONLY <2>1
<1>5. PICK y \in Ids : level[y] = m /\ low[y] <= k /\ k < high[y]
  <2>1. CASE pc = "grow" /\ id = at
    <3>1. SplitBelow /\ Upper[id] = high[right]
      BY <2>1, <1>4 DEF Inv, Located, Upper
    <3>2. right \in Ids /\ level[right] = m /\ low[right] = high[id]
      BY <2>1, <3>1, <1>4 DEF SplitBelow
    <3>3. high[id] \in Int /\ id \in Ids
      BY <1>1, <1>4
    <3>4. CASE k < high[id]
      BY <3>3, <3>4, <1>4
    <3>5. CASE ~(k < high[id])
      BY <3>1, <3>2, <3>3, <3>5, <1>4
    <3> QED BY <3>4, <3>5
  <2>2. CASE ~(pc = "grow" /\ id = at)
    BY <2>2, <1>1, <1>4 DEF Upper
  <2> QED BY <2>1, <2>2
<1>6. ASSUME m # 0 PROVE FALSE
  <2> DEFINE i == ChildIndex(Ahead[y], k)
             c == Ahead[y].kids[i]
  <2>1. /\ c \in DOMAIN Upper /\ level[c] = level[y] - 1 /\ low[c] <= k /\ k < Upper[c]
    <3>1. y \in DOMAIN Tree.lo /\ Tree.lv[y] # 0 /\ Tree.lo[y] <= k /\ k < Tree.hi[y]
      BY <1>1, <1>5, <1>6
    <3>2. i = ChildIndex(Tree.page[y], k)
      BY <1>1
    <3> HIDE DEF i
    <3> QED BY <3>1, <3>2, <1>1, ChildOnWay
  <2> HIDE DEF c
  <2>2. m - 1 \in L
    BY <2>1, <1>1, <1>5
  <2>3. m \in Nat /\ m - 1 \in Nat /\ m - 1 < m
    <3>1. m \in Nat /\ m - 1 \in Nat
      <4>1. m \in L /\ m - 1 \in L /\ L \in SUBSET Nat
        BY <1>2, <2>2
      <4> HIDE DEF L
      <4> QED BY ONLY <4>1
    <3> HIDE DEF L
    <3> QED BY ONLY <3>1
  <2>4. <<m - 1, m>> \in OpToRel(<, Nat)
    BY <2>3 DEF OpToRel
  <2> HIDE DEF L
  <2> QED BY <2>2, <2>4, <1>3, ZenonT(30)
<1> QED BY <1>5, <1>6

\* x is on disk with entries of h, a leaf of the tree on disk that leads where x does
Home(x, h) ==
    /\ h \in Ids /\ h \in OnDisk /\ level[h] = 0 /\ (x \in Ids => h = x)
    /\ pages[x].next = pages[h].next /\ pages[x].entries \in Seq(Entries)
    /\ \A i, j \in 1 .. Len(pages[x].entries) :
          i < j => pages[x].entries[i][1] < pages[x].entries[j][1]
    /\ \A i \in 1 .. Len(pages[x].entries) :
          /\ pages[x].entries[i] \in content /\ pages[x].entries[i][1] \in Int
          /\ low[h] <= pages[x].entries[i][1] /\ pages[x].entries[i][1] < high[h]
    /\ Link(Tree, pages[x].next, high[h])

LEMMA HasHome ==
    ASSUME Inv, Writing, NEW x \in OnDisk
    PROVE  \E h : Home(x, h)
<1>1. DiskOk(Tree, pages) /\ TypeOK
  BY DEF Inv, OnDiskAlready
<1>2. /\ Tree.lo = low /\ Tree.hi = high /\ Tree.lv = level /\ Tree.content = content
      /\ Good(Tree) /\ low \in [Ids -> Int] /\ high \in [Ids -> Int] /\ Ahead = Tree.page
      /\ Ahead \in [Ids -> Nodes]
  BY Basics
<1>3. pages[x].entries \in Seq(Entries)
  BY <1>1 DEF TypeOK, OnDisk, Nodes
<1>4. PICK h \in Ids : /\ h \in DOMAIN pages /\ level[h] = 0 /\ (x \in Ids => h = x)
                       /\ pages[x].next = pages[h].next
                       /\ \A i, j \in 1 .. Len(pages[x].entries) :
                             i < j => pages[x].entries[i][1] < pages[x].entries[j][1]
                       /\ Within(pages[x].entries, pages[h].entries)
  <2>1. CASE x \in Ids
    <3>1. Shows(Tree, x, pages[x])
      BY <2>1, <1>1, <1>2 DEF DiskOk, OnDisk
    <3> QED BY <2>1, <3>1, <1>2 DEF Shows, OnDisk, Within
  <2>2. CASE x \notin Ids
    BY <2>2 DEF Writing, Abandoned, TakenOver, OnDisk
  <2> QED BY <2>1, <2>2
<1>5. /\ pages[h].leaf /\ pages[h].next = Ahead[h].next
      /\ Within(pages[h].entries, Ahead[h].entries)
  <2>1. Shows(Tree, h, pages[h])
    BY <1>1, <1>2, <1>4 DEF DiskOk
  <2> QED BY <2>1, <1>2, <1>4 DEF Shows
<1>6. Holds(Ahead[h].entries, low[h], high[h], content) /\ Link(Tree, Ahead[h].next, high[h])
  <2>1. NodeOk(Tree, h, Tree.page[h])
    BY <1>2 DEF Good
  <2> QED BY <2>1, <1>2, <1>4 DEF NodeOk, Fits
<1>7. ASSUME NEW i \in 1 .. Len(pages[x].entries)
      PROVE  /\ pages[x].entries[i] \in content /\ pages[x].entries[i][1] \in Int
             /\ low[h] <= pages[x].entries[i][1] /\ pages[x].entries[i][1] < high[h]
  <2>1. PICK j \in 1 .. Len(pages[h].entries) : pages[x].entries[i] = pages[h].entries[j]
    BY <1>4 DEF Within
  <2>2. PICK c \in 1 .. Len(Ahead[h].entries) : pages[h].entries[j] = Ahead[h].entries[c]
    BY <1>5 DEF Within
  <2>3. pages[x].entries[i][1] \in Int
    BY <1>3, EntryAt
  <2> QED BY <2>1, <2>2, <2>3, <1>6 DEF Holds
<1> QED BY <1>3, <1>4, <1>5, <1>6, <1>7 DEF Home, OnDisk

\* no entry is lost but one of the leaf that is written next
LEMMA NoneLost ==
    ASSUME Inv, Writing, NEW e \in content
    PROVE  \/ \E x \in OnDisk : e \in Range(pages[x].entries)
           \/ todo # <<>> /\ e \in Range(Head(todo).node.entries)
<1>1. DiskOk(Tree, pages) /\ TypeOK /\ Pending
  BY DEF Inv, OnDiskAlready
<1>2. /\ Tree.lo = low /\ Tree.hi = high /\ Tree.lv = level /\ Tree.content = content
      /\ Good(Tree) /\ low \in [Ids -> Int] /\ high \in [Ids -> Int] /\ Ahead = Tree.page
      /\ Ahead \in [Ids -> Nodes] /\ content \in SUBSET Entries
  BY Basics
<1>3. e[1] \in Int /\ 1 <= e[1] /\ e[1] < Beyond
  BY <1>2, KeysAssumption DEF Entries, Keys, Beyond
<1>4. PICK id \in Ids : level[id] = 0 /\ low[id] <= e[1] /\ e[1] < high[id]
  BY <1>3, SomeLeaf
<1>5. Ahead[id].leaf /\ Holds(Ahead[id].entries, low[id], high[id], content)
  <2>1. NodeOk(Tree, id, Tree.page[id])
    BY <1>2 DEF Good
  <2> QED BY <2>1, <1>2, <1>4 DEF NodeOk, Fits
<1>6. PICK i \in 1 .. Len(Ahead[id].entries) : Ahead[id].entries[i] = e
  BY <1>4, <1>5 DEF Holds
<1>7. e \in Range(Ahead[id].entries)
  <2>1. Ahead[id].entries \in Seq(Entries)
    BY <1>2 DEF Nodes
  <2> QED BY <2>1, <1>6 DEF Range
<1>8. todo \in Seq(Writes) /\ Len(todo) \in Nat /\ Len(todo) <= 2
  BY <1>1 DEF TypeOK, Pending
<1>9. CASE Len(todo) >= 1 /\ todo[1].page = id
  <2>1. Ahead[id] = todo[1].node
    BY <1>9 DEF Ahead
  <2>2. todo # <<>> /\ Head(todo) = todo[1]
    BY <1>8, <1>9, EmptySeq, HeadTailProperties
  <2> QED BY <2>1, <2>2, <1>7
<1>10. CASE ~(Len(todo) >= 1 /\ todo[1].page = id) /\ Len(todo) >= 2 /\ todo[2].page = id
  <2>1. Ahead[id] = todo[2].node
    BY <1>10 DEF Ahead
  <2> DEFINE n == Len(todo)
  <2>2. n = 2
    <3>1. n \in Nat /\ n <= 2 /\ n >= 2
      BY <1>8, <1>10
    <3> HIDE DEF n
    <3> QED BY ONLY <3>1
  <2> QED BY <2>1, <2>2, <1>5 DEF Writing
<1>11. CASE ~(Len(todo) >= 1 /\ todo[1].page = id) /\ ~(Len(todo) >= 2 /\ todo[2].page = id)
  <2>1. Ahead[id] = pages[id]
    BY <1>11 DEF Ahead
  <2>2. \A j \in 1 .. Len(todo) : todo[j].page # id
    <3>1. \A j \in 1 .. Len(todo) : (j = 1 /\ Len(todo) >= 1) \/ (j = 2 /\ Len(todo) >= 2)
      BY <1>8
    <3> QED BY <3>1, <1>11
  <2>3. id \in DOMAIN pages
    BY <2>2, <1>1 DEF Pending
  <2>4. id \in OnDisk
    BY <2>1, <2>3, <1>5 DEF OnDisk
  <2> QED BY <2>1, <2>4, <1>7
<1> QED BY <1>9, <1>10, <1>11

LEMMA NoneTwiceHolds == twice = {} /\ Inv /\ Writing => NoneTwice
<1> SUFFICES ASSUME twice = {}, Inv, Writing PROVE NoneTwice
  OBVIOUS
<1>1. /\ Tree.lo = low /\ Tree.lv = level /\ Tree.page = Ahead /\ Good(Tree) /\ TypeOK /\ Pending
      /\ low \in [Ids -> Int] /\ high \in [Ids -> Int] /\ OnDiskAlready
  BY Basics DEF Inv
<1>2. NoPage \notin DOMAIN pages
  BY <1>1 DEF TypeOK, NoPage
<1>3. \A x \in OnDisk : \E h : Home(x, h)
  BY HasHome
<1>4. ASSUME NEW x \in OnDisk, x \notin Ids PROVE ~Linked(x)
  <2>1. ASSUME NEW w \in OnDisk, pages[w].next = x PROVE FALSE
    <3>1. PICK h : Home(w, h)
      BY <1>3
    <3>2. Link(Tree, x, high[h])
      BY <2>1, <3>1 DEF Home
    <3>3. x # NoPage
      BY <1>2 DEF OnDisk
    <3> QED BY <3>2, <3>3, <1>1, <1>4 DEF Link, Ids
  <2> QED BY <2>1 DEF Linked
<1>5. ASSUME NEW x \in OnDisk, NEW i \in 1 .. Len(pages[x].entries),
             NEW y \in OnDisk, NEW j \in 1 .. Len(pages[y].entries),
             pages[y].entries[j] = pages[x].entries[i]
      PROVE  (x = y /\ i = j) \/ OneSwallowed(x, y)
  <2>1. PICK hx : Home(x, hx)
    BY <1>3
  <2>2. PICK hy : Home(y, hy)
    BY <1>3
  <2>3. hx = hy
    <3> DEFINE k == pages[x].entries[i][1]
    <3>1. k \in Int /\ low[hx] <= k /\ k < high[hx]
      BY <2>1 DEF Home
    <3>2. low[hy] <= k /\ k < high[hy]
      BY <2>2, <1>5 DEF Home
    <3>3. /\ hx \in Ids /\ hy \in Ids /\ level[hx] = 0 /\ level[hy] = 0
      BY <2>1, <2>2 DEF Home
    <3>4. hx # hy => high[hx] <= low[hy] \/ high[hy] <= low[hx]
      <4>1. hx \in DOMAIN Tree.lo /\ hy \in DOMAIN Tree.lo /\ Tree.lv[hx] = Tree.lv[hy]
        BY <3>3, <1>1 DEF Ids
      <4>2. Tree.hi = high
        BY Basics
      <4> QED BY <4>1, <4>2, <1>1 DEF Good, Apart
    <3>5. low[hx] \in Int /\ low[hy] \in Int /\ high[hx] \in Int /\ high[hy] \in Int
      BY <3>3, <1>1
    <3> HIDE DEF k
    <3> QED BY <3>1, <3>2, <3>4, <3>5
  <2>4. CASE x = y
    <3> DEFINE es == pages[x].entries
    <3>1. /\ \A c, d \in 1 .. Len(es) : c < d => es[c][1] < es[d][1]
          /\ \A c \in 1 .. Len(es) : es[c][1] \in Int
          /\ i \in 1 .. Len(es) /\ j \in 1 .. Len(es) /\ es[j] = es[i]
      BY <2>1, <2>4, <1>5 DEF Home
    <3>2. Len(es) \in Nat
      BY <2>1 DEF Home
    <3> HIDE DEF es
    <3>3. i \in Int /\ j \in Int /\ ~(i < j) /\ ~(j < i)
      BY <3>1, <3>2
    <3>4. i = j
      BY ONLY <3>3
    <3> QED BY <2>4, <3>4
  <2>5. CASE x # y
    <3>1. x \notin Ids \/ y \notin Ids
      BY <2>1, <2>2, <2>3, <2>5 DEF Home
    <3>2. ~(Linked(x) /\ Linked(y))
      BY <3>1, <1>4
    <3>3. pages[x].next = pages[y].next
      BY <2>1, <2>2, <2>3 DEF Home
    <3> QED BY <2>5, <3>2, <3>3 DEF OneSwallowed
  <2> QED BY <2>4, <2>5
<1>6. ASSUME NEW x \in OnDisk, pages[x].next \in OnDisk,
             NEW i \in 1 .. Len(pages[x].entries),
             NEW j \in 1 .. Len(pages[pages[x].next].entries)
      PROVE  Below(pages[x].entries[i][1], pages[pages[x].next].entries[j][1])
  <2> DEFINE y == pages[x].next
  <2>1. PICK hx : Home(x, hx)
    BY <1>3
  <2>2. y \in Ids /\ low[y] = high[hx]
    <3>1. Link(Tree, y, high[hx]) /\ y # NoPage
      BY <2>1, <1>2, <1>6 DEF Home, OnDisk
    <3> QED BY <3>1, <1>1 DEF Link, Ids
  <2> HIDE DEF y
  <2>3. PICK hy : Home(y, hy)
    BY <1>3, <1>6 DEF y
  <2>4. /\ pages[x].entries[i][1] \in Int /\ pages[x].entries[i][1] < high[hx]
        /\ pages[y].entries[j][1] \in Int /\ low[y] <= pages[y].entries[j][1]
    BY <2>1, <2>2, <2>3, <1>6 DEF Home, y
  <2>5. low[y] \in Int
    BY <2>2, <1>1
  <2> QED BY <2>2, <2>4, <2>5 DEF Below, y
<1>7. ASSUME NEW x \in OnDisk, pages[x].next \notin OnDisk \cup {NoPage}
      PROVE  todo # <<>> /\ Head(todo).page = pages[x].next /\ Head(todo).node.leaf
  <2> DEFINE y == pages[x].next
  <2>1. PICK hx : Home(x, hx)
    BY <1>3
  <2>2. y \in Ids /\ level[y] = 0
    BY <2>1, <1>1, <1>7 DEF Home, Link, Ids
  <2> HIDE DEF y
  <2>3. y \notin DOMAIN pages
    <3>1. ASSUME y \in DOMAIN pages PROVE FALSE
      <4>1. Shows(Tree, y, pages[y])
        BY <3>1, <2>2, <1>1 DEF OnDiskAlready, DiskOk, Ids
      <4> QED BY <4>1, <3>1, <2>2, <1>1, <1>7 DEF Shows, OnDisk, y
    <3> QED BY <3>1
  <2>4. Len(todo) = 1
    BY <2>2, <2>3 DEF Writing
  <2>5. todo[1].page = y
    BY <2>2, <2>3, <2>4, <1>1 DEF Pending
  <2>6. todo \in Seq(Writes)
    BY <1>1 DEF TypeOK
  <2>7. todo # <<>> /\ Head(todo) = todo[1]
    BY <2>4, <2>6, EmptySeq, HeadTailProperties
  <2>8. todo[1].node.leaf
    <3>1. Ahead[y] = todo[1].node
      BY <2>2, <2>4, <2>5 DEF Ahead
    <3>2. NodeOk(Tree, y, Tree.page[y])
      BY <2>2, <1>1 DEF Good, Ids
    <3> QED BY <3>1, <3>2, <2>2, <1>1 DEF NodeOk, Fits
  <2> QED BY <2>5, <2>7, <2>8 DEF y
<1>8. ASSUME NEW x \in OnDisk, NEW i \in 1 .. Len(pages[x].entries)
      PROVE  pages[x].entries[i] \in content
  BY <1>3 DEF Home
<1>9. \A e \in Once(content) : \/ \E x \in OnDisk : e \in Range(pages[x].entries)
                               \/ todo # <<>> /\ e \in Range(Head(todo).node.entries)
  BY NoneLost DEF Once
<1> QED BY <1>5, <1>6, <1>7, <1>8, <1>9 DEF NoneTwice

\* Between two operations the tree is balanced and ordered: every node but the
\* root is at least half full and none over its page, and the separators divide
\* the keys (rebalance_child and insert_into of bplus_tree.cpp), as long as no key
\* was inserted while the tree held it.
THEOREM BalancedOrderedAlways == Spec => [](twice = {} => BalancedOrdered)
BY TreeInvariant, BalancedOrderedHolds, PTL

\* Between two operations the chain of the leaves, which range_find follows, is
\* the leaves of the tree in order, as long as no key was inserted while the tree
\* held it.
THEOREM ChainFollowsTreeAlways == Spec => [](twice = {} => ChainFollowsTree)
BY TreeInvariant, ChainFollowsTreeHolds, PTL

\* find answers with the record ids of the key's entries, and no others, as long as
\* no key was inserted while the tree held it.
THEOREM FindAnswersAlways == Spec => [](twice = {} => FindAnswers)
BY TreeInvariant, FindAnswersHolds, PTL

\* range_find lists the entries of the range, each once and in order, as long as no
\* key was inserted while the tree held it.
THEOREM RangeAnswersAlways == Spec => [](twice = {} => RangeAnswers)
BY TreeInvariant, RangeAnswersHolds, PTL

\* In no state, the ones between two writes of a split, a borrowing or a merge
\* among them, do two leaves on disk hold an entry, but for a leaf that is being
\* swallowed, which no link leads to, and the one that takes it over; links lead to
\* leaves with higher keys or to the leaf written next; and no entry is missing but
\* one of that leaf: what a crash leaves of the index, as long as no key was
\* inserted while the tree held it.
THEOREM NoneTwiceAlways == Spec => [](twice = {} => NoneTwice)
BY TreeInvariant, NoneTwiceHolds, PTL

=============================================================================
