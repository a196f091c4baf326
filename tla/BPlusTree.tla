----------------------------- MODULE BPlusTree ------------------------------
(***************************************************************************)
(* The B+tree behind an index (src/src/btree/src/bplus_tree.cpp): nodes in *)
(* pages, leaves chained for range scans, splits that climb from a full    *)
(* leaf, borrowing and merging that climb from an underfull one.           *)
(*                                                                         *)
(* An operation holds the tree's lock and takes the steps of the code: it  *)
(* goes down from the root a node at a time, works on a leaf, climbs the   *)
(* path it came by, and writes one page at a time.  pages is what is on    *)
(* disk, so every state is one a process may die in; todo holds the writes *)
(* that a node's work still has to make.                                   *)
(*                                                                         *)
(* The tree does not refuse a key it holds.  INSERT and UPDATE look for it *)
(* first, but a REVERT and the rebuilding of a lost index do not, and a    *)
(* REVERT can bring equal keys back (TableStore.tla).  Two equal keys can  *)
(* end up on both sides of a separator, and then find and remove, which go *)
(* right of it, miss the one on its left.  twice names the keys that were  *)
(* once in the tree twice: all that is said of find, of the ranges and of  *)
(* a dead process is said of the other keys.                               *)
(***************************************************************************)
EXTENDS Integers, Sequences, SequencesExt

CONSTANTS
    KeyCount,  \* the number of keys
    Rids,      \* the record ids
    MaxKeys,   \* bound: MAX_LEAF_KEYS and MAX_INTERNAL_KEYS, 14 in the code
    MaxPages,  \* bound: the pages of the file, the one of the metadata aside
    Again,     \* bound: the keys that are inserted while the tree holds them, each once
    Ends       \* bound: where the ranges that are scanned end

ASSUME KeysAssumption == KeyCount \in Nat \ {0} /\ Ends \subseteq Int
ASSUME CapacityAssumption == MaxKeys \in Nat \ {0, 1} /\ MaxPages \in Nat

Keys == 1 .. KeyCount       \* an IndexKey has a fixed size: numbered in order
Beyond == KeyCount + 1      \* above every key
Entries == Keys \X Rids

MinKeys == MaxKeys \div 2   \* MIN_LEAF_KEYS, MIN_INTERNAL_KEYS
NoPage == 0                 \* INVALID_PAGE; page 0 holds the metadata

Leaf(entries, next_leaf) ==
    [leaf |-> TRUE, entries |-> entries, next |-> next_leaf, keys |-> <<>>, kids |-> <<>>]

Inner(keys, kids) ==
    [leaf |-> FALSE, entries |-> <<>>, next |-> NoPage, keys |-> keys, kids |-> kids]

Count(n) == IF n.leaf THEN Len(n.entries) ELSE Len(n.keys)

VARIABLES
    root, next,   \* the metadata: root_page, next_page_id
    pages,        \* the node pages on disk
    todo,         \* the writes the work on a node has still to make
    pc,           \* what the running operation is doing
    key,          \* the key it is about
    at,           \* the page it is at
    path,         \* the pages above at, from the root down
    promoted,     \* the key and the page that a split hands to the node above
    right,
    end, found,   \* a scan's end and the entries it has listed
    content,      \* history: the entries inserted and not removed
    twice,        \* history: the keys inserted while the tree held them
    low, high,    \* history: each page of the tree holds the keys low .. high - 1
    level         \* history: its height above the leaves

file == <<root, next, pages, todo>>
shape == <<low, high, level>>
vars == <<root, next, pages, todo, pc, key, at, path, promoted, right, end, found,
          content, twice, low, high, level>>

Init ==
    /\ root = 1 /\ next = 2 /\ pages = [id \in {1} |-> Leaf(<<>>, NoPage)] /\ todo = <<>>
    /\ pc = "idle" /\ key = 0 /\ at = NoPage /\ path = <<>>
    /\ promoted = 0 /\ right = NoPage /\ end = 0 /\ found = {}
    /\ content = {} /\ twice = {}
    /\ low = [id \in {1} |-> 1] /\ high = [id \in {1} |-> Beyond] /\ level = [id \in {1} |-> 0]

With(f, x, v) == [y \in DOMAIN f \cup {x} |-> IF y = x THEN v ELSE f[y]]
Without(f, x) == [y \in DOMAIN f \ {x} |-> f[y]]

(***************************************************************************)
(* Writing.  The metadata goes to disk together with the first page that   *)
(* needs it: until then nothing reads the page it counts.                  *)
(***************************************************************************)
\* a write of a node; once it is made, the pages in drop are never read again
Write(id, node) == [page |-> id, node |-> node, drop |-> {}]
WriteDropping(id, node, dropped) == [page |-> id, node |-> node, drop |-> {dropped}]

Put(disk, w) ==
    [id \in (DOMAIN disk \cup {w.page}) \ w.drop |-> IF id = w.page THEN w.node ELSE disk[id]]

\* make the first of the writes ws, and the others after it
Perform(ws) == pages' = Put(pages, Head(ws)) /\ todo' = Tail(ws)

Continue ==
    /\ todo # <<>> /\ Perform(todo)
    /\ UNCHANGED <<root, next, pc, key, at, path, promoted, right, end, found,
                   content, twice, shape>>

Return ==
    /\ pc' = "idle" /\ key' = 0 /\ at' = NoPage /\ path' = <<>>
    /\ promoted' = 0 /\ right' = NoPage /\ end' = 0 /\ found' = {}

(***************************************************************************)
(* Search.                                                                 *)
(***************************************************************************)
First(S, n) == CHOOSE i \in S \cup {n} : \A j \in S \cup {n} : i <= j

\* Mutant: a key equal to a separator is sought left of it.
ChildIndexLeft(n, k) == First({i \in 1 .. Len(n.keys) : k <= n.keys[i]}, Len(n.keys) + 1)

\* find_child_index, counted from 1
ChildIndex(n, k) == First({i \in 1 .. Len(n.keys) : k < n.keys[i]}, Len(n.keys) + 1)

Begin(k) ==
    /\ pc = "idle" /\ pc' = "descend" /\ key' = k /\ at' = root
    /\ UNCHANGED <<file, path, promoted, right, end, found, content, twice, shape>>

Descend ==
    /\ pc = "descend" /\ ~pages[at].leaf
    /\ path' = Append(path, at) /\ at' = pages[at].kids[ChildIndex(pages[at], key)]
    /\ UNCHANGED <<file, pc, key, promoted, right, end, found, content, twice, shape>>

AtLeaf == pc = "descend" /\ todo = <<>> /\ pages[at].leaf

Find(n, k) == {n.entries[i][2] : i \in {j \in 1 .. Len(n.entries) : n.entries[j][1] = k}}

\* find has its answer
FindEnd == AtLeaf /\ Return /\ UNCHANGED <<file, content, twice, shape>>

\* a range scan from key on
BeginScan ==
    /\ AtLeaf /\ pc' = "scan" /\ path' = <<>> /\ end' \in Ends
    /\ UNCHANGED <<file, key, at, promoted, right, found, content, twice, shape>>

PastEnd(es) == {i \in 1 .. Len(es) : key <= es[i][1] /\ end <= es[i][1]}

\* the positions of a leaf that a scan lists
Hits(es) ==
    {i \in 1 .. Len(es) : key <= es[i][1] /\ es[i][1] < end /\ \A j \in PastEnd(es) : i < j}

Listed == found \cup {pages[at].entries[i] : i \in Hits(pages[at].entries)}

LastToScan == PastEnd(pages[at].entries) # {} \/ pages[at].next = NoPage

ScanLeaf ==
    /\ pc = "scan" /\ ~LastToScan
    /\ found' = Listed /\ at' = pages[at].next
    /\ UNCHANGED <<file, pc, key, path, promoted, right, end, content, twice, shape>>

ScanEnd == pc = "scan" /\ LastToScan /\ Return /\ UNCHANGED <<file, content, twice, shape>>

(***************************************************************************)
(* Insertion.                                                              *)
(***************************************************************************)
\* page id is split in l and r at key k, which the node above must add
Split(id, l, r, k) ==
    /\ next <= MaxPages /\ next' = next + 1
    /\ Perform(<<Write(id, l), Write(next, r)>>)
    /\ pc' = "grow" /\ at' = id /\ promoted' = k /\ right' = next
    /\ low' = With(low, next, k) /\ high' = With([high EXCEPT ![id] = k], next, high[id])
    /\ level' = With(level, next, level[id])
    /\ UNCHANGED <<root, key, end, found>>

\* Mutant: the left half keeps its link past the new leaf.
SplitLeafUnlinked(es, nextLeaf) ==
    LET half == Len(es) \div 2 IN
    Split(at, Leaf(SubSeq(es, 1, half), nextLeaf),
              Leaf(SubSeq(es, half + 1, Len(es)), nextLeaf), es[half + 1][1])

SplitLeaf(es, nextLeaf) ==
    LET half == Len(es) \div 2 IN
    Split(at, Leaf(SubSeq(es, 1, half), next),
              Leaf(SubSeq(es, half + 1, Len(es)), nextLeaf), es[half + 1][1])

\* the middle key moves up
SplitInner(id, keys, kids) ==
    LET mid == Len(keys) \div 2 IN
    Split(id, Inner(SubSeq(keys, 1, mid), SubSeq(kids, 1, mid + 1)),
              Inner(SubSeq(keys, mid + 2, Len(keys)), SubSeq(kids, mid + 2, Len(kids))),
          keys[mid + 1])

Present(k) == \E e \in content : e[1] = k

\* a key the tree holds is inserted by revertTable and loadTable alone; the
\* bound lets it happen once to each of a few keys
Doubles(k) ==
    \/ ~Present(k) /\ UNCHANGED twice
    \/ Present(k) /\ k \in Again \ twice /\ twice' = twice \cup {k}

Position(es, k) == First({i \in 1 .. Len(es) : ~(es[i][1] <= k)}, Len(es) + 1)

InsertIntoLeaf(rid) ==
    LET n == pages[at]
        es == InsertAt(n.entries, Position(n.entries, key), <<key, rid>>)
    IN  /\ AtLeaf /\ Doubles(key)
        /\ content' = content \cup {<<key, rid>>}
        /\ \/ /\ Count(n) < MaxKeys
              /\ Perform(<<Write(at, Leaf(es, n.next))>>)
              /\ Return /\ UNCHANGED <<root, next, shape>>
           \/ Count(n) = MaxKeys /\ SplitLeaf(es, n.next) /\ UNCHANGED path

\* the node above a split adds the key and the page, or splits in its turn
InsertIntoParent ==
    LET p == Last(path)
        n == pages[p]
        i == ChildIndex(n, key)
        keys == InsertAt(n.keys, i, promoted)
        kids == InsertAt(n.kids, i + 1, right)
    IN  /\ pc = "grow" /\ path # <<>>
        /\ \/ /\ Count(n) < MaxKeys
              /\ Perform(<<Write(p, Inner(keys, kids))>>)
              /\ Return /\ UNCHANGED <<root, next, shape>>
           \/ Count(n) = MaxKeys /\ SplitInner(p, keys, kids) /\ path' = Front(path)
        /\ UNCHANGED <<content, twice>>

\* a root that split gets a new root above it; until the metadata names it,
\* nothing reads its page
GrowRoot ==
    /\ pc = "grow" /\ path = <<>> /\ next <= MaxPages
    /\ pages' = With(pages, next, Inner(<<promoted>>, <<root, right>>))
    /\ root' = next /\ next' = next + 1
    /\ low' = With(low, next, 1) /\ high' = With(high, next, Beyond)
    /\ level' = With(level, next, level[root] + 1)
    /\ Return /\ UNCHANGED <<todo, content, twice>>

(***************************************************************************)
(* Removal.  p is a page with node n whose i-th child is underfull.        *)
(***************************************************************************)
DropLast(s) == SubSeq(s, 1, Len(s) - 1)

\* neighbours l and r exchange keys: k now divides them
Redivide(l, r, k) ==
    /\ low' = [low EXCEPT ![r] = k] /\ high' = [high EXCEPT ![l] = k] /\ UNCHANGED level

LeftGives(l) == IF l.leaf THEN Leaf(DropLast(l.entries), l.next)
                ELSE Inner(DropLast(l.keys), DropLast(l.kids))

TakesFromLeft(c, l, k) ==
    IF l.leaf THEN Leaf(<<Last(l.entries)>> \o c.entries, c.next)
    ELSE Inner(<<k>> \o c.keys, <<Last(l.kids)>> \o c.kids)

\* Mutant: the child that takes the entry is written before the sibling that
\* gives it.
BorrowLeftTakeFirst(p, n, i) ==
    LET l == pages[n.kids[i - 1]]
        c == pages[n.kids[i]]
        k == IF l.leaf THEN Last(l.entries)[1] ELSE Last(l.keys)
    IN  /\ Perform(<<Write(n.kids[i], TakesFromLeft(c, l, n.keys[i - 1])),
                     Write(n.kids[i - 1], LeftGives(l)),
                     Write(p, Inner([n.keys EXCEPT ![i - 1] = k], n.kids))>>)
        /\ Redivide(n.kids[i - 1], n.kids[i], k)

BorrowLeft(p, n, i) ==
    LET l == pages[n.kids[i - 1]]
        c == pages[n.kids[i]]
        k == IF l.leaf THEN Last(l.entries)[1] ELSE Last(l.keys)
    IN  /\ Perform(<<Write(n.kids[i - 1], LeftGives(l)),
                     Write(n.kids[i], TakesFromLeft(c, l, n.keys[i - 1])),
                     Write(p, Inner([n.keys EXCEPT ![i - 1] = k], n.kids))>>)
        /\ Redivide(n.kids[i - 1], n.kids[i], k)

RightGives(r) == IF r.leaf THEN Leaf(Tail(r.entries), r.next)
                 ELSE Inner(Tail(r.keys), Tail(r.kids))

TakesFromRight(c, r, k) ==
    IF r.leaf THEN Leaf(Append(c.entries, Head(r.entries)), c.next)
    ELSE Inner(Append(c.keys, k), Append(c.kids, Head(r.kids)))

\* Mutant: the separator stays.
BorrowRightKeepsKey(p, n, i) ==
    LET c == pages[n.kids[i]]
        r == pages[n.kids[i + 1]]
        k == IF r.leaf THEN r.entries[2][1] ELSE r.keys[1]
    IN  /\ Perform(<<Write(n.kids[i + 1], RightGives(r)),
                     Write(n.kids[i], TakesFromRight(c, r, n.keys[i])),
                     Write(p, n)>>)
        /\ Redivide(n.kids[i], n.kids[i + 1], k)

BorrowRight(p, n, i) ==
    LET c == pages[n.kids[i]]
        r == pages[n.kids[i + 1]]
        k == IF r.leaf THEN r.entries[2][1] ELSE r.keys[1]
    IN  /\ Perform(<<Write(n.kids[i + 1], RightGives(r)),
                     Write(n.kids[i], TakesFromRight(c, r, n.keys[i])),
                     Write(p, Inner([n.keys EXCEPT ![i] = k], n.kids))>>)
        /\ Redivide(n.kids[i], n.kids[i + 1], k)

\* page l takes over the keys of page r
Absorb(l, r) ==
    /\ low' = Without(low, r) /\ high' = Without([high EXCEPT ![l] = high[r]], r)
    /\ level' = Without(level, r)

\* Mutant: the merged leaf still points to the page it swallowed.
MergeKeepsLink(p, n, i) ==
    LET l == pages[n.kids[i]]
        r == pages[n.kids[i + 1]]
        both == IF l.leaf THEN Leaf(l.entries \o r.entries, l.next)
                ELSE Inner(Append(l.keys, n.keys[i]) \o r.keys, l.kids \o r.kids)
    IN  /\ Perform(<<Write(n.kids[i], both),
                     WriteDropping(p, Inner(RemoveAt(n.keys, i), RemoveAt(n.kids, i + 1)),
                                   n.kids[i + 1])>>)
        /\ Absorb(n.kids[i], n.kids[i + 1])

\* the child right of the i-th separator is swallowed by the one left of it
Merge(p, n, i) ==
    LET l == pages[n.kids[i]]
        r == pages[n.kids[i + 1]]
        both == IF l.leaf THEN Leaf(l.entries \o r.entries, r.next)
                ELSE Inner(Append(l.keys, n.keys[i]) \o r.keys, l.kids \o r.kids)
    IN  /\ Perform(<<Write(n.kids[i], both),
                     WriteDropping(p, Inner(RemoveAt(n.keys, i), RemoveAt(n.kids, i + 1)),
                                   n.kids[i + 1])>>)
        /\ Absorb(n.kids[i], n.kids[i + 1])

CanLend(n, j) == j \in 1 .. Len(n.kids) /\ Count(pages[n.kids[j]]) > MinKeys

\* rebalance_child
Rebalance(p, n, i) ==
    \/ CanLend(n, i - 1) /\ BorrowLeft(p, n, i)
    \/ ~CanLend(n, i - 1) /\ CanLend(n, i + 1) /\ BorrowRight(p, n, i)
    \/ ~CanLend(n, i - 1) /\ ~CanLend(n, i + 1) /\ Merge(p, n, IF i > 1 THEN i - 1 ELSE i)

RemoveFromLeaf(rid) ==
    LET n == pages[at]
        i == First({j \in 1 .. Len(n.entries) : n.entries[j] = <<key, rid>>}, Len(n.entries) + 1)
    IN  /\ AtLeaf
        /\ \/ i > Len(n.entries) /\ Return /\ UNCHANGED <<pages, todo, content>>
           \/ /\ i <= Len(n.entries)
              /\ Perform(<<Write(at, Leaf(RemoveAt(n.entries, i), n.next))>>)
              /\ content' = content \ {<<key, rid>>} /\ pc' = "shrink"
              /\ UNCHANGED <<key, at, path, promoted, right, end, found>>
        /\ UNCHANGED <<root, next, twice, shape>>

Underflow == at # root /\ Count(pages[at]) < MinKeys

\* back in the node above
RemoveFromParent ==
    /\ pc = "shrink" /\ path # <<>>
    /\ \/ Underflow /\ Rebalance(Last(path), pages[Last(path)], ChildIndex(pages[Last(path)], key))
       \/ ~Underflow /\ UNCHANGED <<pages, todo, shape>>
    /\ at' = Last(path) /\ path' = Front(path)
    /\ UNCHANGED <<root, next, pc, key, promoted, right, end, found, content, twice>>

\* a root left without keys gives way to its only child
RemoveEnd ==
    /\ pc = "shrink" /\ path = <<>>
    /\ \/ /\ ~pages[root].leaf /\ pages[root].keys = <<>>
          /\ root' = pages[root].kids[1] /\ pages' = Without(pages, root)
          /\ low' = Without(low, root) /\ high' = Without(high, root)
          /\ level' = Without(level, root)
       \/ /\ pages[root].leaf \/ pages[root].keys # <<>>
          /\ UNCHANGED <<root, pages, shape>>
    /\ Return /\ UNCHANGED <<next, todo, content, twice>>

Next ==
    \/ Continue
    \/ /\ todo = <<>>
       /\ \/ \E k \in Keys : Begin(k)
          \/ Descend \/ FindEnd \/ BeginScan \/ ScanLeaf \/ ScanEnd
          \/ \E rid \in Rids : InsertIntoLeaf(rid) \/ RemoveFromLeaf(rid)
          \/ InsertIntoParent \/ GrowRoot \/ RemoveFromParent \/ RemoveEnd

Spec == Init /\ [][Next]_vars

(***************************************************************************)
(* Properties.                                                             *)
(***************************************************************************)
Ids == DOMAIN low   \* the pages of the tree

From(n, lo, i) == IF i = 1 THEN lo ELSE n.keys[i - 1]
To(n, hi, i) == IF i = Len(n.kids) THEN hi ELSE n.keys[i]

\* keys in order: equal ones were inserted twice
Below(j, k) == j < k \/ (j = k /\ k \in twice)

\* The tree is a B+tree whenever no operation is running: every node but the
\* root is at least half full and none over its page; a leaf holds keys of its
\* range in ascending order; the separators of a node divide its range among its
\* children, which are all one level lower, so that the leaves are at one depth.
\* Only a key that was in the tree twice is found twice in a leaf, at the upper
\* end of a leaf's range, or at both ends of one.
BalancedOrdered == pc = "idle" =>
    /\ low[root] = 1 /\ high[root] = Beyond
    /\ \A id \in Ids : LET n == pages[id] IN
          /\ Count(n) <= MaxKeys /\ (id # root => Count(n) >= MinKeys)
          /\ n.leaf <=> level[id] = 0
          /\ n.leaf => \A i \in 1 .. Len(n.entries) :
                /\ low[id] <= n.entries[i][1] /\ Below(n.entries[i][1], high[id])
                /\ \A j \in 1 .. i - 1 : Below(n.entries[j][1], n.entries[i][1])
          /\ ~n.leaf =>
                /\ n.keys # <<>> /\ Len(n.kids) = Len(n.keys) + 1
                /\ \A i \in 1 .. Len(n.kids) :
                      /\ n.kids[i] \in Ids /\ level[n.kids[i]] = level[id] - 1
                      /\ low[n.kids[i]] = From(n, low[id], i)
                      /\ high[n.kids[i]] = To(n, high[id], i)
                      /\ Below(low[n.kids[i]], high[n.kids[i]])

\* The leaf chain visits the leaves of the tree in their order, whatever was
\* split off and swallowed, equal keys or not: a leaf points to the leaf whose
\* range begins where its own ends, and only the leaf with the highest range
\* points nowhere.
ChainFollowsTree == pc = "idle" =>
    \A id \in Ids : pages[id].leaf =>
        LET to == pages[id].next IN
        IF to = NoPage THEN high[id] = Beyond
        ELSE to \in Ids /\ pages[to].leaf /\ low[to] = high[id]

\* find answers what the entries inserted and not removed say, for every key
\* that was never in the tree twice, whatever other keys were.
FindAnswers ==
    AtLeaf /\ key \notin twice =>
        Find(pages[at], key) = {e[2] : e \in {f \in content : f[1] = key}}

Once(S) == {e \in S : e[1] \notin twice}

\* range_find lists the entries of [key, end), all of them, once and in order,
\* but for keys that were in the tree twice: what a leaf adds is in order and
\* above all that is listed, and when the scan stops it has listed every entry of
\* the range.
RangeAnswers == pc = "scan" =>
    LET es == pages[at].entries IN
    /\ \A i \in Hits(es) :
          /\ \A j \in Hits(es) : i < j => Below(es[i][1], es[j][1])
          /\ \A e \in found : Below(e[1], es[i][1])
    /\ LastToScan => Once(Listed) = Once({e \in content : key <= e[1] /\ e[1] < end})

OnDisk == {id \in DOMAIN pages : pages[id].leaf}

\* on disk a leaf leads to x
Linked(x) == \E w \in OnDisk : pages[w].next = x

\* leaf y is being merged into leaf x or x into y: both lead to the same leaf, and
\* at most one of them is still led to
OneSwallowed(x, y) == x # y /\ pages[x].next = pages[y].next /\ ~(Linked(x) /\ Linked(y))

\* What a dead process leaves, at any write.  An entry that is moved between
\* leaves is taken from one before it is put in the other, so that a crash can
\* lose it: all that can be missing is in the one leaf that is written next.  A
\* merge is the exception: the leaf that takes over is written first, and the one
\* it swallows stays in the file, and under its parent, until the parent is
\* written; but for such a pair no entry is in two places.  A link leads to a leaf
\* with higher keys, or to the new leaf that a split writes next.
NoneTwice ==
    /\ \A x \in OnDisk : LET es == pages[x].entries IN
          /\ \A i \in 1 .. Len(es) : es[i][1] \notin twice =>
                /\ es[i] \in content
                /\ \A y \in OnDisk : \A j \in 1 .. Len(pages[y].entries) :
                      pages[y].entries[j] = es[i] => (x = y /\ i = j) \/ OneSwallowed(x, y)
          /\ pages[x].next \in OnDisk =>
                \A i \in 1 .. Len(es) : \A j \in 1 .. Len(pages[pages[x].next].entries) :
                    Below(es[i][1], pages[pages[x].next].entries[j][1])
          /\ pages[x].next \notin OnDisk \cup {NoPage} =>
                todo # <<>> /\ Head(todo).page = pages[x].next /\ Head(todo).node.leaf
    /\ \A e \in Once(content) :
          \/ \E x \in OnDisk : e \in Range(pages[x].entries)
          \/ todo # <<>> /\ e \in Range(Head(todo).node.entries)
=============================================================================
