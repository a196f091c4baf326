----------------------------- MODULE TableStore -----------------------------
(***************************************************************************)
(* One table of the storage engine (src/src/storage_engine.hpp): its heap  *)
(* of rows, one B+tree index per indexed column, the operation log (.wal), *)
(* and the statements INSERT, UPDATE, DELETE and REVERT that change them.  *)
(*                                                                         *)
(* A statement is a sequence of steps, one per write that reaches a file:  *)
(* a heap page, an index, a log line.  The engine is single threaded, so   *)
(* between two steps of a statement only the clock (Tick) and the death    *)
(* and restart of the process (Crash) can happen.                          *)
(*                                                                         *)
(* Abstractions.  A column value is a member of Value or NULL.  The heap   *)
(* is one page, seen as the map from slots to rows with its list of free   *)
(* slots (Page.tla looks inside).  An index is the set of its              *)
(* <<key, record id>> entries, as far as that is what its B+tree answers:  *)
(* BPlusTree.tla looks inside and says that it is so for every key that    *)
(* was never inserted while the tree held it, as long as no process died   *)
(* between the page writes of an operation on the tree.  The other keys    *)
(* are in unsure, and index leaves them out: a find of such a key may      *)
(* answer anything, so that a check that asks for it can pass, as for a    *)
(* key the tree does not hold, or fail, and an insertion or a removal of   *)
(* it changes nothing that is known.  KeyOf cuts a value down to its key,  *)
(* so two values can share one.  A WHERE clause selects any subset of the  *)
(* rows it can reach, in any order (TableQuery.tla says which).            *)
(***************************************************************************)
EXTENDS Integers, Sequences, FiniteSets

CONSTANTS
    Column,    \* the columns of the table, in order: a set of naturals
    Indexed,   \* the columns declared INDEXED: unique and not NULL
    NotNull,   \* the columns declared NOT_NULL
    Value,     \* the column values other than NULL
    Typed,     \* for each column, the values of its type
    NULL,
    NoRow,     \* what a free slot holds
    Default,   \* the DEFAULT of each column, NULL when it has none
    KeyOf,     \* the index key of a value: a long string's is cut
    Width,     \* the length of a value in a serialized row
    TooBig,    \* the rows that do not fit in an empty page
    Inputs,    \* the rows (of explicitly given columns) an INSERT may carry
    Sets,      \* the SET clauses an UPDATE may carry
    NSlot,     \* bound: the slots of the page
    MaxBatch,  \* bound: the rows of one INSERT
    MaxLog,    \* bound: the lines of the log
    MaxTime,   \* bound: the clock, in milliseconds
    MaxCrash,  \* bound: unlogged changes after which no crash happens
    Faults     \* which of REVERT and process crashes a run includes

MaybeValue == Value \cup {NULL}
Row == [Column -> MaybeValue]
MaybeRow == Row \cup {NoRow}
Partial == UNION {[C -> MaybeValue] : C \in SUBSET Column}
Rid == 0 .. NSlot - 1
Time == 0 .. MaxTime

ASSUME ColumnAssumption == Column \subseteq Nat /\ Indexed \subseteq Column
ASSUME ValueAssumption == NULL \notin Value /\ NoRow \notin Row
ASSUME DefaultAssumption == Default \in Row
ASSUME TypeAssumption == Typed \in [Column -> SUBSET Value]
ASSUME KeyAssumption == KeyOf \in [MaybeValue -> MaybeValue]
ASSUME InputAssumption == Inputs \subseteq Partial /\ Sets \subseteq Partial
ASSUME BoundAssumption == NSlot \in Nat /\ MaxBatch \in Nat /\ MaxTime \in Nat
ASSUME FaultAssumption == Faults \subseteq {"revert", "crash"}

VARIABLES
    heap,      \* the row in each slot of the data file
    free,      \* the reusable slots, the most recently freed first
    fresh,     \* the first slot never used
    index,     \* for each indexed column, the entries its B+tree is known to hold
    unsure,    \* the keys of which its B+tree may answer anything
    wal,       \* the lines of the operation log
    now,       \* the system clock
    pc,        \* where the running statement is, "idle" between statements
    input,     \* INSERT: the rows still to insert
    rids,      \* UPDATE, DELETE: the record ids still to visit
    set,       \* UPDATE: the SET clause
    target,    \* REVERT: the rows still to put back
    done,      \* INSERT: the record ids inserted so far
    rid,       \* the record id of the row in flight
    old,       \* its row before the step that put it in flight
    new,       \* its row after that step
    todo,      \* the indexed columns whose index is still to change
    past,      \* history: what the heap was at the end of each millisecond
    horizon,   \* history: when an unlogged change first happened
    unlogged,  \* history: the rows rolled back and the crashes so far
    before,    \* history: heap and index when the INSERT began
    cut        \* history: the time the REVERT goes back to

store == <<heap, free, fresh, index, unsure>>
regs  == <<input, rids, set, target, done>>
row   == <<rid, old, new, todo>>
ghost == <<past, horizon, unlogged, before, cut>>
vars  == <<store, wal, now, pc, regs, row, ghost>>

Never == MaxTime + 1

InFlight == pc \in {"insertIndex", "undoIndex", "deleteIndex",
                    "updateUnindex", "updateIndex", "revertIndex"}

Live == {r \in Rid : heap[r] # NoRow}

(***************************************************************************)
(* Heap, index and log operations.                                         *)
(***************************************************************************)
Slot == IF free = <<>> THEN fresh ELSE Head(free)

HasRoom(n) == n <= Len(free) + (NSlot - fresh)

\* Mutant (see PROJECT.json): the slot stays on the free list.
HeapInsertKeepsFree(x) ==
    /\ heap' = [heap EXCEPT ![Slot] = x]
    /\ fresh' = IF free = <<>> THEN fresh + 1 ELSE fresh
    /\ UNCHANGED free

\* insert_record: the head of the free list is reused, then a fresh slot
HeapInsert(x) ==
    /\ heap' = [heap EXCEPT ![Slot] = x]
    /\ free' = IF free = <<>> THEN <<>> ELSE Tail(free)
    /\ fresh' = IF free = <<>> THEN fresh + 1 ELSE fresh

HeapDelete(r) ==
    /\ heap' = [heap EXCEPT ![r] = NoRow]
    /\ free' = <<r>> \o free
    /\ UNCHANGED fresh

Find(c, v) == {e[2] : e \in {f \in index[c] : f[1] = KeyOf[v]}}

Sure(c, v) == KeyOf[v] \notin unsure[c]

\* the tree was left half-written: it may answer anything
Torn(c) == unsure[c] = MaybeValue

\* insert takes a key it holds; two equal entries may end up in two leaves,
\* and what looks for the key sees only one of them
IndexAdd(c, v, r) ==
    \/ /\ Sure(c, v) /\ Find(c, v) = {}
       /\ index' = [index EXCEPT ![c] = @ \cup {<<KeyOf[v], r>>}]
       /\ UNCHANGED unsure
    \/ /\ Sure(c, v) /\ Find(c, v) # {}
       /\ index' = [index EXCEPT ![c] = {e \in @ : e[1] # KeyOf[v]}]
       /\ unsure' = [unsure EXCEPT ![c] = @ \cup {KeyOf[v]}]
    \/ ~Sure(c, v) /\ UNCHANGED <<index, unsure>>

\* Mutant: the value is not cut when its entry is looked for.
IndexRemoveUncut(c, v, r) ==
    index' = [index EXCEPT ![c] = @ \ {<<v, r>>}] /\ UNCHANGED unsure

IndexRemove(c, v, r) ==
    index' = [index EXCEPT ![c] = @ \ {<<KeyOf[v], r>>}] /\ UNCHANGED unsure

\* Mutants: deletions are not logged; lines carry the time rounded up.
AppendWalNoDelete(r, x) ==
    /\ wal' = IF x = NoRow THEN wal
              ELSE Append(wal, [ts |-> now, rid |-> r, row |-> x])
    /\ past' = [past EXCEPT ![now] = heap]

AppendWalRoundsUp(r, x) ==
    /\ wal' = Append(wal, [ts |-> now + 1, rid |-> r, row |-> x])
    /\ past' = [past EXCEPT ![now] = heap]

\* a 'D' line carries NoRow; replaying treats 'I' and 'U' lines alike
AppendWal(r, x) ==
    /\ wal' = Append(wal, [ts |-> now, rid |-> r, row |-> x])
    /\ past' = [past EXCEPT ![now] = heap]

\* Mutant: the cutoff excludes its own millisecond.
LinesBefore(log, t, r) == {i \in 1 .. Len(log) : log[i].rid = r /\ log[i].ts < t}

\* the lines that count for r when the log is replayed up to time t
Lines(log, t, r) == {i \in 1 .. Len(log) : log[i].rid = r /\ log[i].ts <= t}

\* replaying the log up to time t leaves x at r
Replays(log, t, r, x) ==
    \/ Lines(log, t, r) = {} /\ x = NoRow
    \/ \E i \in Lines(log, t, r) :
          x = log[i].row /\ \A j \in Lines(log, t, r) : j <= i

Replay(log, t) == [r \in Rid |-> CHOOSE x \in MaybeRow : Replays(log, t, r, x)]

(***************************************************************************)
(* Row checks.                                                             *)
(***************************************************************************)
\* an INSERT's row: columns it does not name take their DEFAULT
Complete(p) == [c \in Column |-> IF c \in DOMAIN p THEN p[c] ELSE Default[c]]

ApplySet(x, s) == [c \in Column |-> IF c \in DOMAIN s THEN s[c] ELSE x[c]]

\* validateRow: an indexed column is implicitly NOT NULL
ValidateRow(x) == \A c \in Column :
    IF x[c] = NULL THEN c \notin NotNull \cup Indexed ELSE x[c] \in Typed[c]

Changed(x, y) == {c \in Indexed : x[c] # y[c]}

Longer(x, y) == \E c \in Column : Width[x[c]] > Width[y[c]]

NextColumn(c) == c \in todo /\ \A d \in todo : c <= d

Nothing == [heap |-> [r \in Rid |-> NoRow], index |-> [c \in Indexed |-> {}]]

Clear == /\ rid' = 0 /\ old' = NoRow /\ new' = NoRow /\ todo' = {}

Idle == /\ pc' = "idle"
        /\ input' = <<>> /\ rids' = {} /\ done' = <<>>
        /\ set' = <<>> /\ target' = [r \in Rid |-> NoRow]
        /\ Clear
        /\ before' = Nothing /\ cut' = 0

(***************************************************************************)
(* INSERT.                                                                 *)
(***************************************************************************)
BeginInsert ==
    /\ pc = "idle"
    /\ \E n \in 1 .. MaxBatch : \E s \in [1 .. n -> Inputs] :
          /\ HasRoom(n)
          /\ Len(wal) + n <= MaxLog
          /\ input' = s
    /\ pc' = "insert"
    /\ before' = [heap |-> heap, index |-> index]
    /\ UNCHANGED <<store, wal, now, rids, set, target, done, row,
                   past, horizon, unlogged, cut>>

\* Mutant: INSERT does not look for a duplicate.
InsertableUnchecked(x) == ValidateRow(x) /\ x \notin TooBig

Insertable(x) == /\ ValidateRow(x)
                 /\ \A c \in Indexed : Find(c, x[c]) = {}
                 /\ x \notin TooBig

InsertRow ==
    /\ pc = "insert" /\ input # <<>>
    /\ LET x == Complete(Head(input)) IN
          /\ Insertable(x)
          /\ HeapInsert(x)
          /\ new' = x
    /\ rid' = Slot
    /\ done' = Append(done, Slot)
    /\ todo' = Indexed
    /\ pc' = "insertIndex"
    /\ UNCHANGED <<index, unsure, wal, now, input, rids, set, target, old, ghost>>

InsertReject ==
    /\ pc = "insert" /\ input # <<>>
    /\ LET x == Complete(Head(input))
       IN  ~Insertable(x) \/ \E c \in Indexed : ~Sure(c, x[c])
    /\ pc' = "undo"
    /\ UNCHANGED <<store, wal, now, regs, row, ghost>>

InsertIndex ==
    /\ pc = "insertIndex"
    /\ \E c \in Column :
          /\ NextColumn(c)
          /\ IndexAdd(c, new[c], rid)
          /\ todo' = todo \ {c}
    /\ UNCHANGED <<heap, free, fresh, wal, now, pc, regs, rid, old, new, ghost>>

InsertLog ==
    /\ pc = "insertIndex" /\ todo = {}
    /\ AppendWal(rid, new)
    /\ input' = Tail(input)
    /\ pc' = "insert"
    /\ Clear
    /\ UNCHANGED <<store, now, rids, set, target, done, horizon, unlogged, before, cut>>

InsertEnd ==
    /\ pc = "insert" /\ input = <<>>
    /\ Idle
    /\ UNCHANGED <<store, wal, now, past, horizon, unlogged>>

(***************************************************************************)
(* rollbackInserted: the rows already inserted are taken out again, oldest *)
(* first; nothing is written to the log.                                   *)
(***************************************************************************)
\* Mutant: only the first row is rolled back.
UndoFirstOnly ==
    /\ pc = "undo" /\ done # <<>>
    /\ rid' = Head(done) /\ old' = heap[Head(done)] /\ done' = <<>>
    /\ todo' = Indexed
    /\ pc' = "undoIndex"
    /\ UNCHANGED <<store, wal, now, input, rids, set, target, new, ghost>>

Undo ==
    /\ pc = "undo" /\ done # <<>>
    /\ rid' = Head(done)
    /\ old' = heap[Head(done)]
    /\ done' = Tail(done)
    /\ todo' = Indexed
    /\ pc' = "undoIndex"
    /\ UNCHANGED <<store, wal, now, input, rids, set, target, new, ghost>>

UndoIndex ==
    /\ pc = "undoIndex"
    /\ \E c \in Column :
          /\ NextColumn(c)
          /\ IndexRemove(c, old[c], rid)
          /\ todo' = todo \ {c}
    /\ UNCHANGED <<heap, free, fresh, wal, now, pc, regs, rid, old, new, ghost>>

UndoRow ==
    /\ pc = "undoIndex" /\ todo = {}
    /\ HeapDelete(rid)
    /\ past' = [past EXCEPT ![now] = heap']
    /\ horizon' = IF now < horizon THEN now ELSE horizon
    /\ unlogged' = unlogged + 1
    /\ pc' = "undo"
    /\ Clear
    /\ UNCHANGED <<index, unsure, wal, now, regs, before, cut>>

\* Mutant: the refused INSERT is tried again.
UndoRetries ==
    /\ pc = "undo" /\ done = <<>>
    /\ pc' = "insert"
    /\ UNCHANGED <<store, wal, now, regs, row, ghost>>

UndoEnd ==
    /\ pc = "undo" /\ done = <<>>
    /\ Idle
    /\ UNCHANGED <<store, wal, now, past, horizon, unlogged>>

(***************************************************************************)
(* DELETE and UPDATE.  A WHERE clause served by an index yields the record *)
(* ids of its entries, whether or not a row is there.                      *)
(***************************************************************************)
Reachable ==
    IF \A c \in Indexed : unsure[c] = {}
    THEN Live \cup {e[2] : e \in UNION {index[c] : c \in Indexed}}
    ELSE Rid

BeginDelete ==
    /\ pc = "idle"
    /\ \E s \in SUBSET Reachable : Len(wal) + Cardinality(s) <= MaxLog /\ rids' = s
    /\ pc' = "delete"
    /\ UNCHANGED <<store, wal, now, input, set, target, done, row, ghost>>

SkipRid ==
    /\ pc \in {"delete", "update"}
    /\ \E r \in rids : heap[r] = NoRow /\ rids' = rids \ {r}
    /\ UNCHANGED <<store, wal, now, pc, input, set, target, done, row, ghost>>

DeleteRow ==
    /\ pc = "delete"
    /\ \E r \in rids :
          /\ heap[r] # NoRow
          /\ HeapDelete(r)
          /\ rids' = rids \ {r}
          /\ rid' = r
          /\ old' = heap[r]
    /\ todo' = Indexed
    /\ pc' = "deleteIndex"
    /\ UNCHANGED <<index, unsure, wal, now, input, set, target, done, new, ghost>>

DeleteIndex ==
    /\ pc = "deleteIndex"
    /\ \E c \in Column :
          /\ NextColumn(c)
          /\ IndexRemove(c, old[c], rid)
          /\ todo' = todo \ {c}
    /\ UNCHANGED <<heap, free, fresh, wal, now, pc, regs, rid, old, new, ghost>>

DeleteLog ==
    /\ pc = "deleteIndex" /\ todo = {}
    /\ AppendWal(rid, NoRow)
    /\ pc' = "delete"
    /\ Clear
    /\ UNCHANGED <<store, now, regs, horizon, unlogged, before, cut>>

BeginUpdate ==
    /\ pc = "idle"
    /\ \E s \in SUBSET Reachable : Len(wal) + Cardinality(s) <= MaxLog /\ rids' = s
    /\ set' \in Sets
    /\ pc' = "update"
    /\ UNCHANGED <<store, wal, now, input, target, done, row, ghost>>

Updatable(x, y) == /\ ValidateRow(y)
                   /\ \A c \in Changed(x, y) : Find(c, y[c]) = {}
                   /\ y \notin TooBig

UpdateRow ==
    /\ pc = "update"
    /\ \E r \in rids :
          /\ heap[r] # NoRow
          /\ LET y == ApplySet(heap[r], set) IN
                /\ Updatable(heap[r], y)
                /\ heap' = [heap EXCEPT ![r] = y]
                /\ new' = y
                /\ todo' = Changed(heap[r], y)
          /\ old' = heap[r]
          /\ rid' = r
          /\ rids' = rids \ {r}
    /\ pc' = "updateUnindex"
    /\ UNCHANGED <<free, fresh, index, unsure, wal, now, input, set, target, done, ghost>>

\* the statement stops at the first row it cannot change; a longer row may
\* also find its page full.  The rows changed before stay changed.
UpdateReject ==
    /\ pc = "update"
    /\ \E r \in rids :
          /\ heap[r] # NoRow
          /\ LET y == ApplySet(heap[r], set)
             IN  \/ ~Updatable(heap[r], y) \/ Longer(y, heap[r])
                 \/ \E c \in Changed(heap[r], y) : ~Sure(c, y[c])
    /\ Idle
    /\ UNCHANGED <<store, wal, now, past, horizon, unlogged>>

UpdateUnindex ==
    /\ pc = "updateUnindex"
    /\ \E c \in Column : NextColumn(c) /\ IndexRemove(c, old[c], rid)
    /\ pc' = "updateIndex"
    /\ UNCHANGED <<heap, free, fresh, wal, now, regs, row, ghost>>

UpdateIndex ==
    /\ pc = "updateIndex"
    /\ \E c \in Column :
          /\ NextColumn(c)
          /\ IndexAdd(c, new[c], rid)
          /\ todo' = todo \ {c}
    /\ pc' = "updateUnindex"
    /\ UNCHANGED <<heap, free, fresh, wal, now, regs, rid, old, new, ghost>>

UpdateLog ==
    /\ pc = "updateUnindex" /\ todo = {}
    /\ AppendWal(rid, new)
    /\ pc' = "update"
    /\ Clear
    /\ UNCHANGED <<store, now, regs, horizon, unlogged, before, cut>>

VisitEnd ==
    /\ pc \in {"delete", "update"} /\ rids = {}
    /\ Idle
    /\ UNCHANGED <<store, wal, now, past, horizon, unlogged>>

(***************************************************************************)
(* REVERT: the log is replayed up to the given time, the data file and the *)
(* index files are deleted and recreated empty, and the rows are inserted  *)
(* again in the order of their old record ids.  The log is not touched.    *)
(***************************************************************************)
\* Mutant: the data file is kept.
BeginRevertKeepsHeap ==
    /\ pc = "idle" /\ "revert" \in Faults
    /\ \E t \in 0 .. now : target' = Replay(wal, t) /\ cut' = t
    /\ todo' = Indexed
    /\ horizon' = IF now < horizon THEN now ELSE horizon
    /\ pc' = "revertDrop"
    /\ UNCHANGED <<store, wal, now, input, rids, set, done, rid, old, new,
                   past, unlogged, before>>

BeginRevert ==
    /\ pc = "idle" /\ "revert" \in Faults
    /\ \E t \in 0 .. now : target' = Replay(wal, t) /\ cut' = t
    /\ heap' = [r \in Rid |-> NoRow]
    /\ free' = <<>>
    /\ fresh' = 0
    /\ todo' = Indexed
    /\ horizon' = IF now < horizon THEN now ELSE horizon
    /\ pc' = "revertDrop"
    /\ UNCHANGED <<index, unsure, wal, now, input, rids, set, done, rid, old, new,
                   past, unlogged, before>>

RevertDropIndex ==
    /\ pc = "revertDrop"
    /\ \E c \in Column :
          /\ NextColumn(c)
          /\ index' = [index EXCEPT ![c] = {}]
          /\ unsure' = [unsure EXCEPT ![c] = {}]
          /\ todo' = todo \ {c}
    /\ UNCHANGED <<heap, free, fresh, wal, now, pc, regs, rid, old, new, ghost>>

RevertBuild ==
    /\ pc = "revertDrop" /\ todo = {}
    /\ pc' = "revert"
    /\ UNCHANGED <<store, wal, now, regs, row, ghost>>

RevertRow ==
    /\ pc = "revert"
    /\ \E r \in Rid :
          /\ target[r] # NoRow
          /\ \A q \in Rid : target[q] # NoRow => r <= q
          /\ HeapInsert(target[r])
          /\ new' = target[r]
          /\ target' = [target EXCEPT ![r] = NoRow]
    /\ rid' = Slot
    /\ todo' = {c \in Indexed : new'[c] # NULL}
    /\ pc' = "revertIndex"
    /\ UNCHANGED <<index, unsure, wal, now, input, rids, set, done, old, ghost>>

RevertIndex ==
    /\ pc = "revertIndex"
    /\ \E c \in Column :
          /\ NextColumn(c)
          /\ IndexAdd(c, new[c], rid)
          /\ todo' = todo \ {c}
    /\ UNCHANGED <<heap, free, fresh, wal, now, pc, regs, rid, old, new, ghost>>

RevertNext ==
    /\ pc = "revertIndex" /\ todo = {}
    /\ pc' = "revert"
    /\ Clear
    /\ UNCHANGED <<store, wal, now, regs, ghost>>

RevertEnd ==
    /\ pc = "revert" /\ \A r \in Rid : target[r] = NoRow
    /\ past' = [past EXCEPT ![now] = heap]
    /\ Idle
    /\ UNCHANGED <<store, wal, now, horizon, unlogged>>

(***************************************************************************)
(* The environment.  A crash loses the running statement; every completed  *)
(* step is in its file, but an operation on a B+tree writes several pages  *)
(* and can be cut between two of them, which tears the tree.  At the       *)
(* restart loadTable reopens the files as they are: an existing index is   *)
(* not compared with the heap, and the log is not read.  An exception that *)
(* an operation on a torn tree throws ends the statement like a crash.     *)
(***************************************************************************)
Tick ==
    /\ now < MaxTime
    /\ now' = now + 1
    /\ past' = [past EXCEPT ![now + 1] = past[now]]
    /\ UNCHANGED <<store, wal, pc, regs, row, horizon, unlogged, before, cut>>

\* the next step writes the pages of the index of column c
IndexBusy(c) ==
    /\ NextColumn(c)
    /\ pc \in {"insertIndex", "undoIndex", "deleteIndex", "updateUnindex",
               "updateIndex", "revertDrop", "revertIndex"}

Tear(c) == /\ index' = [index EXCEPT ![c] = {}]
           /\ unsure' = [unsure EXCEPT ![c] = MaybeValue]

Crash ==
    /\ pc # "idle" /\ "crash" \in Faults /\ unlogged < MaxCrash
    /\ UNCHANGED <<index, unsure>> \/ \E c \in Indexed : IndexBusy(c) /\ Tear(c)
    /\ Idle
    /\ past' = [past EXCEPT ![now] = heap]
    /\ horizon' = IF now < horizon THEN now ELSE horizon
    /\ unlogged' = unlogged + 1
    /\ UNCHANGED <<heap, free, fresh, wal, now>>

Init ==
    /\ heap = [r \in Rid |-> NoRow] /\ free = <<>> /\ fresh = 0
    /\ index = [c \in Indexed |-> {}] /\ unsure = [c \in Indexed |-> {}]
    /\ wal = <<>> /\ now = 0 /\ pc = "idle"
    /\ input = <<>> /\ rids = {} /\ set = <<>>
    /\ target = [r \in Rid |-> NoRow] /\ done = <<>>
    /\ rid = 0 /\ old = NoRow /\ new = NoRow /\ todo = {}
    /\ past = [t \in Time |-> heap]
    /\ horizon = Never /\ unlogged = 0 /\ cut = 0
    /\ before = Nothing

Insert == InsertRow \/ InsertReject \/ InsertIndex \/ InsertLog \/ InsertEnd
Rollback == Undo \/ UndoIndex \/ UndoRow \/ UndoEnd
Delete == DeleteRow \/ DeleteIndex \/ DeleteLog
Update == UpdateRow \/ UpdateReject \/ UpdateUnindex \/ UpdateIndex \/ UpdateLog
Revert == RevertDropIndex \/ RevertBuild \/ RevertRow \/ RevertIndex
          \/ RevertNext \/ RevertEnd

Step == Insert \/ Rollback \/ Delete \/ Update \/ SkipRid \/ VisitEnd \/ Revert

Begin == BeginInsert \/ BeginDelete \/ BeginUpdate \/ BeginRevert

Next == Begin \/ Step \/ Tick \/ Crash

Spec == Init /\ [][Next]_vars

\* the engine's only thread runs a statement it began to its end
FairSpec == Spec /\ WF_vars(Step)

(***************************************************************************)
(* Properties.                                                             *)
(***************************************************************************)
PCs == {"idle", "insert", "insertIndex", "undo", "undoIndex", "delete",
        "deleteIndex", "update", "updateUnindex", "updateIndex",
        "revertDrop", "revert", "revertIndex"}

LogLine == [ts : Time, rid : Rid, row : MaybeRow]

HeapType ==
    heap \in [Rid -> MaybeRow] /\ free \in Seq(Rid) /\ fresh \in 0 .. NSlot

IndexFile == [Indexed -> SUBSET (MaybeValue \X Rid)]

IndexType ==
    /\ index \in IndexFile /\ unsure \in [Indexed -> SUBSET MaybeValue]
    /\ \A c \in Indexed : \A e \in index[c] : e[1] \notin unsure[c]

LogType == wal \in Seq(LogLine) /\ now \in Time

StatementType ==
    /\ pc \in PCs
    /\ input \in Seq(Inputs) /\ rids \subseteq Rid /\ set \in Partial
    /\ target \in [Rid -> MaybeRow] /\ done \in Seq(Rid)

FlightType ==
    /\ rid \in Nat
    /\ old \in MaybeRow /\ new \in MaybeRow
    /\ todo \subseteq Indexed

HistoryType ==
    /\ past \in [Time -> [Rid -> MaybeRow]]
    /\ horizon \in 0 .. Never /\ unlogged \in Nat
    /\ before \in [heap : [Rid -> MaybeRow], index : IndexFile]
    /\ cut \in Time

\* The type of every variable: the table's files, the log, the registers of the
\* running statement and of its row in flight, and the history variables.
TypeOK == HeapType /\ IndexType /\ LogType /\ StatementType
          /\ FlightType /\ HistoryType

\* Slot allocation: the free list names every slot that was used and is empty
\* now, each once, and no slot past fresh holds a row; so an INSERT or a
\* rebuilding REVERT, whatever was deleted, rolled back or lost before it,
\* never writes over a live row.
SlotsSound ==
    /\ \A r \in Rid : r >= fresh => heap[r] = NoRow
    /\ \A i \in 1 .. Len(free) : free[i] < fresh /\ heap[free[i]] = NoRow
    /\ \A i, j \in 1 .. Len(free) : free[i] = free[j] => i = j

\* what the index of column c must hold for the row in flight, given which
\* index writes of its statement are still to come
Pending(c) ==
    CASE pc \in {"insertIndex", "revertIndex"} ->
            IF c \in todo THEN {} ELSE {KeyOf[new[c]]}
      [] pc \in {"undoIndex", "deleteIndex"} ->
            IF c \in todo THEN {KeyOf[old[c]]} ELSE {}
      [] pc = "updateUnindex" -> IF c \in todo THEN {KeyOf[old[c]]} ELSE {KeyOf[new[c]]}
      [] pc = "updateIndex" -> IF NextColumn(c) THEN {}
                               ELSE IF c \in todo THEN {KeyOf[old[c]]} ELSE {KeyOf[new[c]]}
      [] OTHER -> {}

Settled == IF InFlight THEN Live \ {rid} ELSE Live

Entries(c) == {<<KeyOf[heap[r][c]], r>> : r \in Settled} \cup {<<v, rid>> : v \in Pending(c)}

\* Heap and indexes agree: without a crash, every index holds exactly one entry
\* per live row, its key being that of the row's value, but for the row whose statement
\* is between its heap write and its last index write; INSERT, its rollback,
\* DELETE, UPDATE (partly applied ones too) and REVERT all end in agreement.
\* Excepted are the keys that a REVERT has put into the index twice: from then
\* on, until the next REVERT, nothing is said of them.
IndexAgrees ==
    "crash" \notin Faults =>
        \A c \in Indexed :
            ~(pc = "revertDrop" /\ c \in todo) =>
                index[c] = {e \in Entries(c) : e[1] \notin unsure[c]}

\* Uniqueness of INDEXED columns: as long as the table was neither reverted nor
\* killed in the middle of a statement, no two live rows share a value, nor a
\* key, in an indexed column, at any step of any statement.
UniqueKeys ==
    Faults = {} =>
        \A c \in Indexed : \A r, q \in Live :
            KeyOf[heap[r][c]] = KeyOf[heap[q][c]] => r = q

\* An index that no crash has torn never answers a key with two record ids, and
\* no statement puts a key into it that it holds, even when crashes between the
\* steps of other statements left it out of step with the heap.
IndexKeysUnique ==
    "revert" \notin Faults =>
        \A c \in Indexed :
            /\ unsure[c] # {} => Torn(c)
            /\ \A e, f \in index[c] : e[1] = f[1] => e = f

\* INSERT is all or nothing for heap and indexes: when one of its rows is
\* refused, rollbackInserted has put both back as the statement found them
\* (the indexes as far as they are known).
InsertAtomic ==
    pc = "undo" /\ done = <<>> => before = [heap |-> heap, index |-> index]

\* The log replayed up to any millisecond before the first unlogged change (a
\* rolled back INSERT, a REVERT, a crash) gives the rows the table had at the
\* end of it, record id by record id, whatever was logged after.
TimeTravel ==
    \A t \in 0 .. now : t < horizon =>
        \A r \in Rid : Replays(wal, t, r, past[t][r])

\* the record ids whose row or index entries are not what the log, or the
\* heap, says they should be
OutOfStep == {r \in Rid :
    \/ ~Replays(wal, now, r, heap[r])
    \/ \E c \in Indexed : /\ ~Torn(c)
                            /\ {e \in index[c] : e[2] = r}
                               # IF r \in Live THEN {<<KeyOf[heap[r][c]], r>>} ELSE {}}

\* What a failure can cost: at rest, at most one index per crash is torn, and at
\* most one record id per crash and per rolled back row has a row the log does
\* not replay to, or entries that are not its row's in an index that is not torn.
LossBounded ==
    pc = "idle" /\ "revert" \notin Faults =>
        /\ Cardinality(OutOfStep) <= unlogged
        /\ Cardinality({c \in Indexed : Torn(c)}) <= unlogged

SameRows(f, g) ==
    \A x \in Row : Cardinality({r \in Rid : f[r] = x}) = Cardinality({r \in Rid : g[r] = x})

\* A REVERT that has put its last row back has restored the rows the table had
\* at that time, as often as it had them, though under other record ids.
RevertRestores ==
    (pc = "revert" /\ \A r \in Rid : target[r] = NoRow) /\ cut < horizon =>
        SameRows(heap, past[cut])

\* What the comment on revertTable says of the log, for every time: a table at
\* rest is what its log replays to, and so was it at every earlier time.
RevertToAnyTime ==
    pc = "idle" => \A t \in 0 .. now : \A r \in Rid : Replays(wal, t, r, past[t][r])

\* What README.md calls the log, "a write-ahead log to recover after failures":
\* the restarted engine finds every index in agreement with its heap (the ones
\* that were torn aside, whose answers are not known).
RecoveredConsistent ==
    pc = "idle" =>
        \A c \in Indexed : ~Torn(c) => index[c] = {<<KeyOf[heap[r][c]], r>> : r \in Live}

\* Every statement of a process that finds no torn index ends: its loops over rows,
\* record ids and indexes terminate and no step of it waits for anything.
StatementEnds == pc # "idle" ~> pc = "idle"
=============================================================================
