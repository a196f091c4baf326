---------------------------- MODULE TableProofs -----------------------------
(***************************************************************************)
(* The inductive invariant Inv of a table, for any set of columns, rows    *)
(* and slots, any number of log lines and any mix of REVERTs and crashes.  *)
(*                                                                         *)
(* Neither TypeOK nor SlotsSound is inductive: that InsertRow writes into  *)
(* a slot of the page needs RoomToInsert, that UndoRow empties a slot not  *)
(* yet on the free list needs Undoable (a rollback visits live rows, each  *)
(* once), and that REVERT never runs out of slots needs Rebuilding.  The   *)
(* proof has one lemma per action or group of alike actions; NextInv puts  *)
(* them together.  On Inv rest, in this order: what the operation log      *)
(* remembers (History), how the indexes agree with the heap (Agreement,    *)
(* IndexUnique), what a rollback undoes (Tracked), what REVERT puts back   *)
(* (Restoring), what failures cost (Bounded), and what a WHERE selects     *)
(* through an index (ReachedSelected; UnsureKeys for constants of another  *)
(* type).  Of the keys in unsure, the ones a REVERT put into an index      *)
(* twice and all keys of a torn one, an index is known to hold nothing.    *)
(***************************************************************************)
EXTENDS TableQuery, TLAPS, SequenceTheorems, WellFoundedInduction, FiniteSetTheorems

\* a non-empty set of line numbers has a last one
LEMMA LastLine ==
    ASSUME NEW n \in Nat, NEW I \in SUBSET (1 .. n), I # {}
    PROVE  \E i \in I : \A j \in I : j <= i
<1> DEFINE D == {x \in Nat : n - x \in I}
<1>1. D \subseteq Nat /\ D # {}
  <2>1. PICK i \in I : TRUE
    OBVIOUS
  <2>2. n - i \in D
    OBVIOUS
  <2> QED BY <2>2
<1>2. \E x \in D : \A y \in D : ~(<<y, x>> \in OpToRel(<, Nat))
  <2> HIDE DEF D
  <2> QED BY <1>1, NatLessThanWellFounded, WFMin
<1>3. PICK x \in D : \A y \in D : ~(y < x)
  <2> HIDE DEF D
  <2>1. PICK x \in D : \A y \in D : ~(<<y, x>> \in OpToRel(<, Nat))
    BY <1>2
  <2>2. \A y \in D : ~(y < x)
    <3> SUFFICES ASSUME NEW y \in D, y < x PROVE <<y, x>> \in OpToRel(<, Nat)
      BY <2>1
    <3> QED BY <1>1 DEF OpToRel
  <2> QED BY <2>2
<1>4. n - x \in I
  OBVIOUS
<1>5. \A j \in I : j <= n - x
  <2> SUFFICES ASSUME NEW j \in I PROVE j <= n - x
    OBVIOUS
  <2>1. n - j \in Nat /\ n - (n - j) = j
    OBVIOUS
  <2>2. n - j \in D
    BY <2>1
  <2> QED BY <1>3, <2>2
<1> QED BY <1>4, <1>5

(***************************************************************************)
(* The registers of a statement mean something only between some of its    *)
(* steps.  SlotsSound and IndexAgrees are inductive once this is known.    *)
(***************************************************************************)
HoldsNew == {"insertIndex", "revertIndex", "updateUnindex", "updateIndex"}
HoldsOld == {"undoIndex", "deleteIndex", "updateUnindex", "updateIndex"}
Inserting == {"insert", "insertIndex", "undo", "undoIndex"}
Reverting == {"revertDrop", "revert", "revertIndex"}

\* the row in flight, before and after its heap write
RowInFlight ==
    /\ InFlight => rid \in Rid
    /\ pc \in HoldsNew => new \in Row /\ heap[rid] = new
    /\ pc \in HoldsOld => old \in Row
    /\ pc \notin HoldsOld => old = NoRow
    /\ pc = "undoIndex" => heap[rid] = old
    /\ pc = "deleteIndex" => heap[rid] = NoRow
    /\ pc \in {"updateUnindex", "updateIndex"} => todo \subseteq Changed(old, new)

\* what an INSERT still needs room for
RoomToInsert ==
    /\ pc = "insert" => Len(input) <= Len(free) + (NSlot - fresh)
    /\ pc = "insertIndex" => input # <<>>
                             /\ Len(input) - 1 <= Len(free) + (NSlot - fresh)

\* what an INSERT may have to take back
Undoable ==
    /\ pc \in Inserting =>
          /\ \A i \in 1 .. Len(done) : heap[done[i]] # NoRow
          /\ \A i, j \in 1 .. Len(done) : done[i] = done[j] => i = j
          /\ pc = "undoIndex" => \A i \in 1 .. Len(done) : done[i] # rid
    /\ pc \notin Inserting => done = <<>>

\* a REVERT fills the new data file from its first slot on, and no slot before
\* the old slot of the row it puts there
Rebuilding ==
    /\ pc \in Reverting => free = <<>> /\ \A r \in Rid : target[r] # NoRow => fresh <= r
    /\ pc = "revertDrop" => heap = [r \in Rid |-> NoRow]

Inv == TypeOK /\ SlotsSound /\ RowInFlight /\ RoomToInsert /\ Undoable /\ Rebuilding

\* the slot an INSERT or a REVERT writes to is in the page and empty
LEMMA InsertSlot ==
    ASSUME HeapType, SlotsSound, free = <<>> => fresh < NSlot
    PROVE  Slot \in Rid /\ heap[Slot] = NoRow
<1>1. CASE free = <<>>
  BY <1>1, BoundAssumption DEF HeapType, SlotsSound, Slot, Rid
<1>2. CASE free # <<>>
  <2>1. Head(free) = free[1] /\ 1 \in 1 .. Len(free) /\ free[1] \in Rid
    BY <1>2, EmptySeq, HeadTailProperties DEF HeapType
  <2> QED BY <1>2, <2>1 DEF HeapType, SlotsSound, Slot
<1> QED BY <1>1, <1>2

\* insert_record keeps the slots sound and uses up one of those left
LEMMA HeapInsertKeeps ==
    ASSUME HeapType, SlotsSound, free = <<>> => fresh < NSlot,
           NEW x \in Row, HeapInsert(x)
    PROVE  /\ HeapType' /\ SlotsSound'
           /\ Len(free') + (NSlot - fresh') = Len(free) + (NSlot - fresh) - 1
           /\ free = <<>> => free' = <<>> /\ fresh' = fresh + 1
<1>1. Slot \in Rid /\ heap[Slot] = NoRow
  BY InsertSlot
<1>2. CASE free = <<>>
  <2>1. fresh < NSlot /\ free' = <<>> /\ fresh' = fresh + 1 /\ Slot = fresh
    BY <1>2 DEF HeapInsert, Slot
  <2>2. HeapType'
    BY <1>1, <2>1, BoundAssumption DEF HeapType, HeapInsert, MaybeRow
  <2>3. SlotsSound'
    BY <1>1, <1>2, <2>1, BoundAssumption DEF HeapType, HeapInsert, SlotsSound, Rid
  <2> QED BY <1>2, <2>1, <2>2, <2>3, BoundAssumption DEF HeapType
<1>3. CASE free # <<>>
  <2>1. /\ free' = Tail(free) /\ fresh' = fresh /\ Slot = free[1]
        /\ free' \in Seq(Rid) /\ Len(free') = Len(free) - 1
        /\ \A i \in 1 .. Len(free') : free'[i] = free[i + 1]
    BY <1>3, HeadTailProperties DEF HeapType, HeapInsert, Slot
  <2>2. HeapType'
    BY <1>1, <2>1, BoundAssumption DEF HeapType, HeapInsert, MaybeRow
  <2>3. 1 \in 1 .. Len(free) /\ Len(free) \in Nat
    BY <1>3, EmptySeq, LenProperties DEF HeapType
  <2>4. \A i \in 1 .. Len(free') : i + 1 \in 1 .. Len(free) /\ free[i + 1] # free[1]
    BY <2>1, <2>3 DEF SlotsSound
  <2>5. SlotsSound'
    <3>1. \A r \in Rid : r >= fresh' => heap'[r] = NoRow
      BY <1>1, <2>1, <2>3 DEF HeapInsert, HeapType, SlotsSound, Rid
    <3>2. \A i \in 1 .. Len(free') : free'[i] < fresh' /\ heap'[free'[i]] = NoRow
      <4> SUFFICES ASSUME NEW i \in 1 .. Len(free')
                   PROVE  free'[i] < fresh' /\ heap'[free'[i]] = NoRow
        OBVIOUS
      <4>1. free'[i] = free[i + 1] /\ free[i + 1] \in Rid /\ free[i + 1] # Slot
        BY <2>1, <2>4, ElementOfSeq DEF HeapType
      <4> QED BY <2>1, <2>4, <4>1 DEF HeapInsert, HeapType, SlotsSound
    <3>3. \A i, j \in 1 .. Len(free') : free'[i] = free'[j] => i = j
      BY <2>1, <2>3, <2>4 DEF SlotsSound
    <3> QED BY <3>1, <3>2, <3>3 DEF SlotsSound
  <2> QED BY <1>3, <2>1, <2>2, <2>3, <2>5, BoundAssumption DEF HeapType
<1> QED BY <1>2, <1>3

\* delete_record of a live row keeps the slots sound
LEMMA HeapDeleteKeeps ==
    ASSUME HeapType, SlotsSound, NEW r \in Rid, heap[r] # NoRow, HeapDelete(r)
    PROVE  HeapType' /\ SlotsSound'
<1>1. r < fresh /\ \A i \in 1 .. Len(free) : free[i] # r
  <2>1. r \in Nat /\ fresh \in Nat
    BY BoundAssumption DEF HeapType, Rid
  <2>2. r < fresh
    BY <2>1 DEF SlotsSound
  <2>3. \A i \in 1 .. Len(free) : free[i] # r
    BY DEF SlotsSound
  <2> QED BY <2>2, <2>3
<1>2. <<r>> \in Seq(Rid) /\ Len(<<r>>) = 1 /\ <<r>>[1] = r
  OBVIOUS
<1>3. /\ free' \in Seq(Rid) /\ Len(free') = Len(free) + 1 /\ fresh' = fresh
      /\ free'[1] = r /\ \A i \in 2 .. Len(free') : free'[i] = free[i - 1]
  BY <1>2, ConcatProperties, LenProperties DEF HeapType, HeapDelete
<1>4. heap' = [heap EXCEPT ![r] = NoRow]
  BY DEF HeapDelete
<1>5. HeapType'
  BY <1>3, <1>4 DEF HeapType, MaybeRow
<1>6. Len(free) \in Nat
  BY LenProperties DEF HeapType
<1>7. \A i \in 2 .. Len(free') : i - 1 \in 1 .. Len(free) /\ free[i - 1] # r /\ free[i - 1] \in Rid
  BY <1>1, <1>3, <1>6, ElementOfSeq DEF HeapType
<1>8. SlotsSound'
  <2>1. \A q \in Rid : q >= fresh' => heap'[q] = NoRow
    BY <1>3, <1>4 DEF HeapType, SlotsSound
  <2>2. \A i \in 1 .. Len(free') : free'[i] < fresh' /\ heap'[free'[i]] = NoRow
    <3> SUFFICES ASSUME NEW i \in 1 .. Len(free')
                 PROVE  free'[i] < fresh' /\ heap'[free'[i]] = NoRow
      OBVIOUS
    <3>1. CASE i = 1
      BY <1>1, <1>3, <1>4, <3>1 DEF HeapType
    <3>2. CASE i # 1
      <4>1. i \in 2 .. Len(free')
        BY <1>3, <1>6, <3>2
      <4> QED BY <1>3, <1>4, <1>7, <4>1 DEF HeapType, SlotsSound
    <3> QED BY <3>1, <3>2
  <2>3. \A i, j \in 1 .. Len(free') : free'[i] = free'[j] => i = j
    <3> SUFFICES ASSUME NEW i \in 1 .. Len(free'), NEW j \in 1 .. Len(free'),
                        free'[i] = free'[j]
                 PROVE  i = j
      OBVIOUS
    <3>0. \A k \in 1 .. Len(free') : k # 1 => free'[k] # r
      <4> SUFFICES ASSUME NEW k \in 1 .. Len(free'), k # 1 PROVE free'[k] # r
        OBVIOUS
      <4>1. k \in 2 .. Len(free')
        BY <1>3, <1>6
      <4> QED BY <1>3, <1>7, <4>1
    <3>1. CASE i = 1 \/ j = 1
      BY <1>3, <3>0, <3>1
    <3>2. CASE i # 1 /\ j # 1
      <4>1. i \in 2 .. Len(free') /\ j \in 2 .. Len(free')
        BY <1>3, <1>6, <3>2
      <4> QED BY <1>3, <1>7, <4>1 DEF SlotsSound
    <3> QED BY <3>1, <3>2
  <2> QED BY <2>1, <2>2, <2>3 DEF SlotsSound
<1> QED BY <1>5, <1>8

\* the rows the checks and the log produce are rows of the table
LEMMA RowsTyped ==
    /\ \A p \in Partial : Complete(p) \in Row
    /\ \A p \in Partial, x \in Row : ApplySet(x, p) \in Row
    /\ <<>> \in Partial
<1>1. ASSUME NEW p \in Partial PROVE \A c \in Column : c \in DOMAIN p => p[c] \in MaybeValue
  <2>1. PICK C \in SUBSET Column : p \in [C -> MaybeValue]
    BY DEF Partial
  <2> QED BY <2>1
<1>2. \A p \in Partial : Complete(p) \in Row
  BY <1>1, DefaultAssumption DEF Row, Complete
<1>3. \A p \in Partial, x \in Row : ApplySet(x, p) \in Row
  BY <1>1 DEF Row, ApplySet
<1>4. <<>> \in Partial
  <2>1. <<>> \in [{} -> MaybeValue]
    OBVIOUS
  <2> QED BY <2>1 DEF Partial
<1> QED BY <1>2, <1>3, <1>4

\* replaying a log gives a row, or none, for every record id
LEMMA ReplayTyped ==
    ASSUME NEW log \in Seq(LogLine), NEW t
    PROVE  Replay(log, t) \in [Rid -> MaybeRow]
<1> SUFFICES ASSUME NEW r \in Rid
             PROVE  \E x \in MaybeRow : Replays(log, t, r, x)
  BY DEF Replay
<1>1. CASE Lines(log, t, r) = {}
  BY <1>1 DEF Replays, MaybeRow
<1>2. CASE Lines(log, t, r) # {}
  <2>1. Len(log) \in Nat /\ Lines(log, t, r) \in SUBSET (1 .. Len(log))
    BY LenProperties DEF Lines
  <2>2. PICK i \in Lines(log, t, r) : \A j \in Lines(log, t, r) : j <= i
    BY <1>2, <2>1, LastLine
  <2>3. log[i] \in LogLine
    BY <2>1, ElementOfSeq
  <2>4. log[i].row \in MaybeRow
    BY <2>3 DEF LogLine
  <2> QED BY <2>2, <2>4 DEF Replays
<1> QED BY <1>1, <1>2

\* the registers of a table at rest
LEMMA IdleTyped ==
    ASSUME Idle
    PROVE  /\ pc' = "idle" /\ input' = <<>> /\ rids' = {} /\ done' = <<>>
           /\ set' = <<>> /\ target' = [r \in Rid |-> NoRow]
           /\ rid' = 0 /\ old' = NoRow /\ new' = NoRow /\ todo' = {}
           /\ before' \in [heap : [Rid -> MaybeRow], index : IndexFile]
           /\ cut' = 0
BY DEF Idle, Clear, Nothing, MaybeRow, IndexFile

\* INSERT, the heap write of a row: it goes to an empty slot, noted for the rollback
LEMMA InsertRowKeeps == Inv /\ InsertRow => Inv'
<1> SUFFICES ASSUME Inv, InsertRow PROVE Inv'
  OBVIOUS
<1> DEFINE x == Complete(Head(input))
<1>1. /\ pc = "insert" /\ input # <<>> /\ x \in Row /\ Len(input) \in Nat \ {0}
      /\ HeapInsert(x) /\ new' = x /\ rid' = Slot /\ todo' = Indexed
      /\ done' = Append(done, Slot) /\ pc' = "insertIndex"
  BY HeadTailProperties, EmptySeq, RowsTyped, InputAssumption
  DEF Inv, TypeOK, StatementType, InsertRow
<1>2. HeapType /\ SlotsSound /\ (free = <<>> => fresh < NSlot)
  BY <1>1, EmptySeq, BoundAssumption DEF Inv, TypeOK, HeapType, StatementType, RoomToInsert
<1>3. /\ HeapType' /\ SlotsSound'
      /\ Len(free') + (NSlot - fresh') = Len(free) + (NSlot - fresh) - 1
  BY <1>1, <1>2, HeapInsertKeeps
<1>4. Slot \in Rid /\ heap[Slot] = NoRow
  BY <1>2, InsertSlot
<1>5. heap' = [heap EXCEPT ![Slot] = x] /\ heap'[Slot] = x
  BY <1>1, <1>4 DEF HeapInsert, Inv, TypeOK, HeapType
<1>6. /\ done' \in Seq(Rid) /\ Len(done') = Len(done) + 1 /\ Len(done) \in Nat
      /\ done'[Len(done) + 1] = Slot /\ \A i \in 1 .. Len(done) : done'[i] = done[i]
  BY <1>1, <1>4, LenProperties DEF Inv, TypeOK, StatementType
<1>7. TypeOK'
  <2>1. IndexType' /\ LogType'
    BY DEF Inv, TypeOK, IndexType, InsertRow, LogType
  <2>2. StatementType'
    BY <1>1, <1>6 DEF Inv, TypeOK, InsertRow, StatementType, PCs
  <2>3. FlightType'
    BY <1>1, <1>4 DEF Inv, TypeOK, InsertRow, FlightType, Rid, MaybeRow
  <2>4. HistoryType'
    BY DEF Inv, TypeOK, InsertRow, HistoryType, ghost
  <2> QED BY <1>3, <2>1, <2>2, <2>3, <2>4 DEF TypeOK
<1>8. RowInFlight'
  BY <1>1, <1>4, <1>5 DEF Inv, RowInFlight, InsertRow, HoldsNew, HoldsOld, ghost
<1>9. RoomToInsert'
  BY <1>1, <1>2, <1>3, LenProperties, BoundAssumption
  DEF Inv, HeapType, RoomToInsert, InsertRow
<1>10. Undoable'
  <2>1. \A i \in 1 .. Len(done) : heap[done[i]] # NoRow /\ done[i] \in Rid /\ done[i] # Slot
    BY <1>1, <1>4, ElementOfSeq DEF Inv, TypeOK, StatementType, Undoable, Inserting
  <2>2. \A i \in 1 .. Len(done') : heap'[done'[i]] # NoRow
    BY <1>5, <1>6, <1>1, <2>1, ValueAssumption DEF Inv, TypeOK, HeapType
  <2>3. \A i, j \in 1 .. Len(done') : done'[i] = done'[j] => i = j
    BY <1>1, <1>6, <2>1 DEF Inv, Undoable, Inserting
  <2> QED BY <1>1, <2>2, <2>3 DEF Undoable, Inserting
<1>11. Rebuilding'
  BY <1>1 DEF Inv, Rebuilding, Reverting
<1> QED BY <1>3, <1>7, <1>8, <1>9, <1>10, <1>11 DEF Inv

\* steps that only write one index
LEMMA IndexStepKeeps ==
    ASSUME Inv, IndexType', todo' \subseteq todo,
           UNCHANGED <<heap, free, fresh, wal, now, pc, regs, rid, old, new, ghost>>
    PROVE  Inv'
<1>1. TypeOK'
  BY DEF Inv, TypeOK, HeapType, LogType, StatementType, FlightType, HistoryType, regs, ghost
<1>2. SlotsSound'
  BY DEF Inv, SlotsSound
<1>3. RowInFlight'
  BY DEF Inv, RowInFlight, InFlight
<1>4. RoomToInsert' /\ Undoable' /\ Rebuilding'
  BY DEF Inv, RoomToInsert, Undoable, Rebuilding, regs
<1> QED BY <1>1, <1>2, <1>3, <1>4 DEF Inv

\* an index write keeps the indexes well-typed, and unsure keys out of them
LEMMA IndexWriteTyped ==
    ASSUME IndexType, NEW c \in Indexed, NEW v \in MaybeValue, NEW r \in Rid
    PROVE  /\ IndexAdd(c, v, r) => IndexType'
           /\ IndexRemove(c, v, r) => IndexType'
<1>1. KeyOf[v] \in MaybeValue
  BY KeyAssumption
<1>2. CASE /\ KeyOf[v] \notin unsure[c] /\ UNCHANGED unsure
           /\ index' = [index EXCEPT ![c] = @ \cup {<<KeyOf[v], r>>}]
  BY <1>1, <1>2 DEF IndexType, IndexFile
<1>3. CASE /\ index' = [index EXCEPT ![c] = {e \in @ : e[1] # KeyOf[v]}]
           /\ unsure' = [unsure EXCEPT ![c] = @ \cup {KeyOf[v]}]
  BY <1>1, <1>3 DEF IndexType, IndexFile
<1>4. CASE UNCHANGED <<index, unsure>>
  BY <1>4 DEF IndexType
<1>5. CASE index' = [index EXCEPT ![c] = @ \ {<<KeyOf[v], r>>}] /\ UNCHANGED unsure
  BY <1>1, <1>5 DEF IndexType, IndexFile
<1> QED BY <1>2, <1>3, <1>4, <1>5 DEF IndexAdd, IndexRemove, Sure

\* a file that is emptied or torn has no entries that are known
LEMMA IndexEmptiedTyped ==
    ASSUME IndexType, NEW c \in Indexed, NEW K \in SUBSET MaybeValue,
           index' = [index EXCEPT ![c] = {}], unsure' = [unsure EXCEPT ![c] = K]
    PROVE  IndexType'
BY DEF IndexType, IndexFile

\* the index writes that have a loop of their own disturb only index and todo
LEMMA IndexStepsKeep ==
    Inv /\ (InsertIndex \/ UndoIndex \/ DeleteIndex \/ RevertDropIndex \/ RevertIndex) => Inv'
<1> SUFFICES ASSUME Inv,
                    InsertIndex \/ UndoIndex \/ DeleteIndex \/ RevertDropIndex \/ RevertIndex
             PROVE  IndexType' /\ todo' \subseteq todo
  BY IndexStepKeeps DEF InsertIndex, UndoIndex, DeleteIndex, RevertDropIndex, RevertIndex, store
<1>1. IndexType /\ todo \subseteq Indexed /\ Indexed \subseteq Column
  BY ColumnAssumption DEF Inv, TypeOK, FlightType
<1>2. \A x \in Row, c \in Indexed : x[c] \in MaybeValue
  BY <1>1 DEF Row
<1>3. CASE InsertIndex \/ RevertIndex
  <2>1. PICK c \in todo : IndexAdd(c, new[c], rid) /\ todo' = todo \ {c}
    BY <1>3 DEF InsertIndex, RevertIndex, NextColumn
  <2>2. new \in Row /\ rid \in Rid
    BY <1>3 DEF Inv, RowInFlight, HoldsNew, InFlight, InsertIndex, RevertIndex
  <2> QED BY <1>1, <1>2, <2>1, <2>2, IndexWriteTyped
<1>4. CASE UndoIndex \/ DeleteIndex
  <2>1. PICK c \in todo : IndexRemove(c, old[c], rid) /\ todo' = todo \ {c}
    BY <1>4 DEF UndoIndex, DeleteIndex, NextColumn
  <2>2. old \in Row /\ rid \in Rid
    BY <1>4 DEF Inv, RowInFlight, HoldsOld, InFlight, UndoIndex, DeleteIndex
  <2> QED BY <1>1, <1>2, <2>1, <2>2, IndexWriteTyped
<1>5. CASE RevertDropIndex
  <2>1. PICK c \in todo : /\ index' = [index EXCEPT ![c] = {}]
                          /\ unsure' = [unsure EXCEPT ![c] = {}] /\ todo' = todo \ {c}
    BY <1>5 DEF RevertDropIndex, NextColumn
  <2> QED BY <1>1, <2>1, IndexEmptiedTyped
<1> QED BY <1>3, <1>4, <1>5

\* UPDATE's index writes also move between its two program counters
LEMMA UpdateIndexKeeps == Inv /\ (UpdateUnindex \/ UpdateIndex) => Inv'
<1> SUFFICES ASSUME Inv, UpdateUnindex \/ UpdateIndex PROVE Inv'
  OBVIOUS
<1>1. /\ pc \in {"updateUnindex", "updateIndex"} /\ pc' \in {"updateUnindex", "updateIndex"}
      /\ todo' \subseteq todo
      /\ UNCHANGED <<heap, free, fresh, wal, now, regs, rid, old, new, ghost>>
  BY DEF UpdateUnindex, UpdateIndex, row
<1>2. new \in Row /\ old \in Row /\ rid \in Rid /\ heap[rid] = new /\ IndexType
  BY <1>1 DEF Inv, TypeOK, RowInFlight, HoldsNew, HoldsOld, InFlight
<1>3. PICK c \in todo : IndexRemove(c, old[c], rid) \/ IndexAdd(c, new[c], rid)
  BY DEF UpdateUnindex, UpdateIndex, NextColumn
<1>4. c \in Indexed /\ old[c] \in MaybeValue /\ new[c] \in MaybeValue
  BY <1>2, ColumnAssumption DEF Inv, TypeOK, FlightType, Row
<1>5. IndexType'
  BY <1>2, <1>3, <1>4, IndexWriteTyped
<1>6. TypeOK'
  BY <1>1, <1>5 DEF Inv, TypeOK, HeapType, LogType, StatementType, PCs, FlightType,
                    HistoryType, regs, ghost
<1>7. SlotsSound'
  BY <1>1 DEF Inv, SlotsSound
<1>8. RowInFlight'
  BY <1>1, <1>2 DEF Inv, RowInFlight, InFlight, HoldsNew, HoldsOld
<1>9. RoomToInsert' /\ Undoable' /\ Rebuilding'
  BY <1>1 DEF Inv, RoomToInsert, Undoable, Inserting, Rebuilding, Reverting, regs
<1> QED BY <1>6, <1>7, <1>8, <1>9 DEF Inv

\* log lines
LEMMA AppendWalTyped ==
    ASSUME LogType, HistoryType, HeapType, NEW r \in Rid, NEW x \in MaybeRow, AppendWal(r, x)
    PROVE  wal' \in Seq(LogLine) /\ past' \in [Time -> [Rid -> MaybeRow]]
<1>1. [ts |-> now, rid |-> r, row |-> x] \in LogLine
  BY DEF LogType, LogLine
<1> QED BY <1>1 DEF LogType, HistoryType, HeapType, AppendWal

\* the log line that ends a row: no row is in flight after it
LEMMA LogStepsKeep == Inv /\ (InsertLog \/ DeleteLog \/ UpdateLog) => Inv'
<1> SUFFICES ASSUME Inv, InsertLog \/ DeleteLog \/ UpdateLog PROVE Inv'
  OBVIOUS
<1>1. /\ rid' = 0 /\ old' = NoRow /\ new' = NoRow /\ todo' = {}
      /\ UNCHANGED <<store, now, rids, set, target, done, horizon, unlogged, before, cut>>
  BY DEF InsertLog, DeleteLog, UpdateLog, Clear, regs
<1>2. \/ pc = "insertIndex" /\ pc' = "insert" /\ input' = Tail(input)
      \/ pc = "deleteIndex" /\ pc' = "delete" /\ input' = input
      \/ pc = "updateUnindex" /\ pc' = "update" /\ input' = input
  BY DEF InsertLog, DeleteLog, UpdateLog, regs
<1>3. rid \in Rid
  BY <1>2 DEF Inv, RowInFlight, InFlight
<1>4. PICK x \in MaybeRow : AppendWal(rid, x)
  BY DEF InsertLog, DeleteLog, UpdateLog, Inv, TypeOK, FlightType, MaybeRow
<1>5. wal' \in Seq(LogLine) /\ past' \in [Time -> [Rid -> MaybeRow]]
  BY <1>3, <1>4, AppendWalTyped DEF Inv, TypeOK
<1>6. pc = "insertIndex" => /\ input # <<>> /\ input' \in Seq(Inputs)
                            /\ Len(input') = Len(input) - 1
  BY <1>2, HeadTailProperties DEF Inv, TypeOK, StatementType, RoomToInsert
<1>7. TypeOK'
  BY <1>1, <1>2, <1>5, <1>6
  DEF Inv, TypeOK, HeapType, IndexType, LogType, StatementType, PCs, FlightType, HistoryType,
      MaybeRow, store
<1>8. SlotsSound'
  BY <1>1 DEF Inv, SlotsSound, store
<1>9. RowInFlight'
  BY <1>1, <1>2 DEF RowInFlight, InFlight, HoldsNew, HoldsOld
<1>10. RoomToInsert'
  BY <1>1, <1>2, <1>6 DEF Inv, RoomToInsert, store
<1>11. Undoable' /\ Rebuilding'
  BY <1>1, <1>2 DEF Inv, Undoable, Inserting, Rebuilding, Reverting, store
<1> QED BY <1>7, <1>8, <1>9, <1>10, <1>11 DEF Inv

\* the end of a statement, and its loss
LEMMA IdleKeeps ==
    ASSUME Inv, Idle, UNCHANGED <<heap, free, fresh, wal, now>>, IndexType',
           past' \in [Time -> [Rid -> MaybeRow]],
           horizon' \in 0 .. Never, unlogged' \in Nat
    PROVE  Inv'
<1>1. TypeOK'
  <2>1. (HeapType /\ IndexType /\ LogType)'
    BY DEF Inv, TypeOK, HeapType, LogType
  <2>2. StatementType'
    BY IdleTyped, RowsTyped, EmptySeq DEF StatementType, PCs, MaybeRow
  <2>3. FlightType' /\ HistoryType'
    BY IdleTyped, BoundAssumption DEF FlightType, HistoryType, MaybeRow, Time
  <2> QED BY <2>1, <2>2, <2>3 DEF TypeOK
<1>2. SlotsSound'
  BY DEF Inv, SlotsSound
<1>3. RowInFlight' /\ RoomToInsert' /\ Undoable' /\ Rebuilding'
  BY IdleTyped DEF RowInFlight, InFlight, HoldsNew, HoldsOld, RoomToInsert, Undoable,
                   Inserting, Rebuilding, Reverting
<1> QED BY <1>1, <1>2, <1>3 DEF Inv

\* the ways a statement ends, the death of the process included
LEMMA EndsKeep ==
    Inv /\ (InsertEnd \/ UndoEnd \/ UpdateReject \/ VisitEnd \/ RevertEnd \/ Crash) => Inv'
<1> SUFFICES ASSUME Inv,
                    InsertEnd \/ UndoEnd \/ UpdateReject \/ VisitEnd \/ RevertEnd \/ Crash
             PROVE  Inv'
  OBVIOUS
<1>1. Idle /\ UNCHANGED <<heap, free, fresh, wal, now>>
  BY DEF InsertEnd, UndoEnd, UpdateReject, VisitEnd, RevertEnd, Crash, store
<1>0. IndexType'
  <2>1. IndexType
    BY DEF Inv, TypeOK
  <2>2. CASE UNCHANGED <<index, unsure>>
    BY <2>1, <2>2 DEF IndexType
  <2>3. CASE \E c \in Indexed : Tear(c)
    BY <2>1, <2>3, IndexEmptiedTyped DEF Tear
  <2> QED BY <2>2, <2>3
          DEF InsertEnd, UndoEnd, UpdateReject, VisitEnd, RevertEnd, Crash, store
<1>2. past' \in [Time -> [Rid -> MaybeRow]]
  BY DEF Inv, TypeOK, HistoryType, HeapType, InsertEnd, UndoEnd, UpdateReject, VisitEnd,
         RevertEnd, Crash
<1>3. horizon' \in 0 .. Never /\ unlogged' \in Nat
  BY BoundAssumption DEF Inv, TypeOK, HistoryType, LogType, Time, Never, InsertEnd, UndoEnd,
     UpdateReject, VisitEnd, RevertEnd, Crash
<1> QED BY <1>0, <1>1, <1>2, <1>3, IdleKeeps

\* the beginning of a statement
LEMMA BeginVisitKeeps == Inv /\ (BeginDelete \/ BeginUpdate) => Inv'
<1> SUFFICES ASSUME Inv, BeginDelete \/ BeginUpdate PROVE Inv'
  OBVIOUS
<1>1. /\ pc = "idle" /\ pc' \in {"delete", "update"}
      /\ rids' \subseteq Reachable /\ set' \in Partial
      /\ UNCHANGED <<store, wal, now, input, target, done, row, ghost>>
  BY InputAssumption DEF Inv, TypeOK, StatementType, BeginDelete, BeginUpdate
<1>2. Reachable \subseteq Rid
  <2>1. ASSUME NEW c \in Indexed, NEW e \in index[c] PROVE e[2] \in Rid
    BY DEF Inv, TypeOK, IndexType, IndexFile
  <2> QED BY <2>1 DEF Reachable, Live
<1>3. TypeOK'
  BY <1>1, <1>2 DEF Inv, TypeOK, HeapType, IndexType, LogType, StatementType, PCs, FlightType,
                    HistoryType, store, row, ghost
<1>4. SlotsSound'
  BY <1>1 DEF Inv, SlotsSound, store
<1>5. RowInFlight' /\ RoomToInsert' /\ Undoable' /\ Rebuilding'
  BY <1>1 DEF Inv, RowInFlight, InFlight, HoldsNew, HoldsOld, RoomToInsert, Undoable,
              Inserting, Rebuilding, Reverting, store, row
<1> QED BY <1>3, <1>4, <1>5 DEF Inv

\* INSERT begins with room for all its rows
LEMMA BeginInsertKeeps == Inv /\ BeginInsert => Inv'
<1> SUFFICES ASSUME Inv, BeginInsert PROVE Inv'
  OBVIOUS
<1>1. PICK n \in 1 .. MaxBatch : input' \in [1 .. n -> Inputs] /\ HasRoom(n)
  BY DEF BeginInsert
<1>2. n \in Nat /\ input' \in Seq(Inputs) /\ Len(input') = n
  BY <1>1, BoundAssumption
<1>3. /\ pc = "idle" /\ pc' = "insert" /\ before' = [heap |-> heap, index |-> index]
      /\ UNCHANGED <<store, wal, now, rids, set, target, done, row, past, horizon,
                     unlogged, cut>>
  BY DEF BeginInsert
<1>4. TypeOK'
  BY <1>2, <1>3 DEF Inv, TypeOK, HeapType, IndexType, LogType, StatementType, PCs, FlightType,
                    HistoryType, store, row
<1>5. SlotsSound'
  BY <1>3 DEF Inv, SlotsSound, store
<1>6. RowInFlight' /\ Rebuilding'
  BY <1>3 DEF Inv, RowInFlight, InFlight, HoldsNew, HoldsOld, Rebuilding, Reverting, row
<1>7. RoomToInsert'
  BY <1>1, <1>2, <1>3 DEF RoomToInsert, HasRoom, store
<1>8. Undoable'
  BY <1>3, EmptySeq DEF Inv, Undoable, Inserting
<1> QED BY <1>4, <1>5, <1>6, <1>7, <1>8 DEF Inv

\* REVERT empties the page and has at most as many rows to put back as it has slots
LEMMA BeginRevertKeeps == Inv /\ BeginRevert => Inv'
<1> SUFFICES ASSUME Inv, BeginRevert PROVE Inv'
  OBVIOUS
<1>1. PICK t \in 0 .. now : target' = Replay(wal, t) /\ cut' = t
  BY DEF BeginRevert
<1>2. target' \in [Rid -> MaybeRow]
  BY <1>1, ReplayTyped DEF Inv, TypeOK, LogType
<1>3. t \in Time
  BY <1>1, BoundAssumption DEF Inv, TypeOK, LogType, Time
<1>4. /\ pc = "idle" /\ pc' = "revertDrop"
      /\ heap' = [r \in Rid |-> NoRow] /\ free' = <<>> /\ fresh' = 0 /\ todo' = Indexed
      /\ UNCHANGED <<index, unsure, wal, now, input, rids, set, done, rid, old, new, past,
                     unlogged, before>>
  BY DEF BeginRevert
<1>5. horizon' \in 0 .. Never
  BY BoundAssumption DEF BeginRevert, Inv, TypeOK, LogType, HistoryType, Time, Never
<1>6. HeapType' /\ SlotsSound'
  BY <1>4, EmptySeq, BoundAssumption DEF HeapType, SlotsSound, MaybeRow
<1>7. TypeOK'
  BY <1>1, <1>2, <1>3, <1>4, <1>5, <1>6
  DEF Inv, TypeOK, IndexType, LogType, StatementType, PCs, FlightType, HistoryType
<1>8. RowInFlight' /\ RoomToInsert'
  BY <1>4 DEF Inv, RowInFlight, InFlight, HoldsNew, HoldsOld, RoomToInsert
<1>9. Undoable' /\ Rebuilding'
  BY <1>4, BoundAssumption DEF Inv, Undoable, Inserting, Rebuilding, Reverting, Rid
<1> QED BY <1>6, <1>7, <1>8, <1>9 DEF Inv

\* steps that only move the program counter
LEMMA MovesKeep == Inv /\ (InsertReject \/ RevertBuild \/ RevertNext) => Inv'
<1> SUFFICES ASSUME Inv, InsertReject \/ RevertBuild \/ RevertNext PROVE Inv'
  OBVIOUS
<1>1. /\ \/ pc = "insert" /\ pc' = "undo"
         \/ pc = "revertDrop" /\ pc' = "revert"
         \/ pc = "revertIndex" /\ pc' = "revert"
      /\ UNCHANGED <<store, wal, now, regs, ghost>>
      /\ rid' \in Nat /\ old' \in MaybeRow /\ new' \in MaybeRow /\ todo' \subseteq Indexed
      /\ old' = NoRow
  BY DEF InsertReject, RevertBuild, RevertNext, Clear, row, MaybeRow, Inv, TypeOK,
         FlightType, RowInFlight, HoldsOld
<1>2. TypeOK'
  BY <1>1 DEF Inv, TypeOK, HeapType, IndexType, LogType, StatementType, PCs, FlightType,
              HistoryType, store, regs, ghost
<1>3. SlotsSound'
  BY <1>1 DEF Inv, SlotsSound, store
<1>4. RowInFlight' /\ RoomToInsert' /\ Undoable' /\ Rebuilding'
  BY <1>1 DEF Inv, RowInFlight, InFlight, HoldsNew, HoldsOld, RoomToInsert, Undoable,
              Inserting, Rebuilding, Reverting, store, regs
<1> QED BY <1>2, <1>3, <1>4 DEF Inv

\* a record id whose row is gone is passed over
LEMMA SkipRidKeeps == Inv /\ SkipRid => Inv'
<1> SUFFICES ASSUME Inv, SkipRid PROVE Inv'
  OBVIOUS
<1>1. /\ rids' \subseteq rids
      /\ UNCHANGED <<store, wal, now, pc, input, set, target, done, row, ghost>>
  BY DEF SkipRid
<1>2. TypeOK'
  BY <1>1 DEF Inv, TypeOK, HeapType, IndexType, LogType, StatementType, FlightType, HistoryType,
              store, row, ghost
<1>3. SlotsSound'
  BY <1>1 DEF Inv, SlotsSound, store
<1>4. RowInFlight' /\ RoomToInsert' /\ Undoable' /\ Rebuilding'
  BY <1>1 DEF Inv, RowInFlight, InFlight, RoomToInsert, Undoable, Rebuilding, store, row
<1> QED BY <1>2, <1>3, <1>4 DEF Inv

\* the clock advances
LEMMA TickKeeps == Inv /\ Tick => Inv'
<1> SUFFICES ASSUME Inv, Tick PROVE Inv'
  OBVIOUS
<1>1. /\ now < MaxTime /\ now' = now + 1 /\ past' = [past EXCEPT ![now + 1] = past[now]]
      /\ UNCHANGED <<store, wal, pc, regs, row, horizon, unlogged, before, cut>>
  BY DEF Tick
<1>2. now' \in Time /\ past' \in [Time -> [Rid -> MaybeRow]]
  BY <1>1, BoundAssumption DEF Inv, TypeOK, LogType, HistoryType, Time
<1>3. TypeOK'
  BY <1>1, <1>2 DEF Inv, TypeOK, HeapType, IndexType, LogType, StatementType, FlightType,
                    HistoryType, store, regs, row
<1>4. SlotsSound'
  BY <1>1 DEF Inv, SlotsSound, store
<1>5. RowInFlight' /\ RoomToInsert' /\ Undoable' /\ Rebuilding'
  BY <1>1 DEF Inv, RowInFlight, InFlight, RoomToInsert, Undoable, Rebuilding,
              store, regs, row
<1> QED BY <1>3, <1>4, <1>5 DEF Inv

\* rollback
LEMMA UndoKeeps == Inv /\ Undo => Inv'
<1> SUFFICES ASSUME Inv, Undo PROVE Inv'
  OBVIOUS
<1>1. /\ pc = "undo" /\ pc' = "undoIndex" /\ done # <<>>
      /\ rid' = Head(done) /\ old' = heap[Head(done)] /\ done' = Tail(done)
      /\ todo' = Indexed
      /\ UNCHANGED <<store, wal, now, input, rids, set, target, new, ghost>>
  BY DEF Undo
<1>2. /\ Head(done) = done[1] /\ Head(done) \in Rid /\ 1 \in 1 .. Len(done)
      /\ Tail(done) \in Seq(Rid) /\ Len(Tail(done)) = Len(done) - 1
      /\ \A i \in 1 .. Len(Tail(done)) : Tail(done)[i] = done[i + 1]
      /\ Len(done) \in Nat
  BY <1>1, HeadTailProperties, EmptySeq DEF Inv, TypeOK, StatementType
<1>3. \A i \in 1 .. Len(Tail(done)) : i + 1 \in 1 .. Len(done) /\ i + 1 # 1
  BY <1>2
<1>4. heap[Head(done)] \in Row
  BY <1>1, <1>2 DEF Inv, TypeOK, HeapType, Undoable, Inserting, MaybeRow
<1>5. TypeOK'
  BY <1>1, <1>2, <1>4 DEF Inv, TypeOK, HeapType, IndexType, LogType, StatementType, PCs, FlightType,
                          HistoryType, store, ghost, MaybeRow, Rid
<1>6. SlotsSound'
  BY <1>1 DEF Inv, SlotsSound, store
<1>7. RowInFlight' /\ RoomToInsert' /\ Rebuilding'
  BY <1>1, <1>2, <1>4 DEF RowInFlight, InFlight, HoldsNew, HoldsOld, RoomToInsert,
                          Rebuilding, Reverting, store
<1>8. Undoable'
  <2>1. \A i \in 1 .. Len(done') : heap'[done'[i]] # NoRow /\ done'[i] # rid'
    BY <1>1, <1>2, <1>3 DEF Inv, Undoable, Inserting, store
  <2>2. \A i, j \in 1 .. Len(done') : done'[i] = done'[j] => i = j
    BY <1>1, <1>2, <1>3 DEF Inv, Undoable, Inserting
  <2> QED BY <1>1, <2>1, <2>2 DEF Undoable, Inserting
<1> QED BY <1>5, <1>6, <1>7, <1>8 DEF Inv

\* rollback, the heap write: the slot emptied is a live one, not on the free list
LEMMA UndoRowKeeps == Inv /\ UndoRow => Inv'
<1> SUFFICES ASSUME Inv, UndoRow PROVE Inv'
  OBVIOUS
<1>1. /\ pc = "undoIndex" /\ pc' = "undo" /\ HeapDelete(rid)
      /\ rid' = 0 /\ old' = NoRow /\ new' = NoRow /\ todo' = {}
      /\ past' = [past EXCEPT ![now] = heap']
      /\ UNCHANGED <<index, unsure, wal, now, regs, before, cut>>
  BY DEF UndoRow, Clear
<1>2. rid \in Rid /\ heap[rid] # NoRow
  BY <1>1, ValueAssumption DEF Inv, RowInFlight, InFlight, HoldsOld
<1>3. HeapType' /\ SlotsSound'
  BY <1>1, <1>2, HeapDeleteKeeps DEF Inv, TypeOK
<1>4. horizon' \in 0 .. Never /\ unlogged' \in Nat
  BY BoundAssumption DEF UndoRow, Inv, TypeOK, LogType, HistoryType, Time, Never
<1>5. TypeOK'
  BY <1>1, <1>3, <1>4 DEF Inv, TypeOK, HeapType, IndexType, LogType, StatementType, PCs, FlightType,
                          HistoryType, regs, MaybeRow
<1>6. RowInFlight' /\ RoomToInsert' /\ Rebuilding'
  BY <1>1 DEF RowInFlight, InFlight, HoldsNew, HoldsOld, RoomToInsert, Rebuilding, Reverting
<1>7. Undoable'
  <2>1. \A i \in 1 .. Len(done) : done[i] \in Rid /\ heap'[done[i]] # NoRow
    BY <1>1, <1>2, ElementOfSeq
    DEF Inv, TypeOK, StatementType, HeapType, Undoable, Inserting, HeapDelete
  <2> QED BY <1>1, <2>1 DEF Inv, Undoable, Inserting, regs
<1> QED BY <1>3, <1>5, <1>6, <1>7 DEF Inv

\* DELETE, the heap write of a row
LEMMA DeleteRowKeeps == Inv /\ DeleteRow => Inv'
<1> SUFFICES ASSUME Inv, DeleteRow PROVE Inv'
  OBVIOUS
<1>1. PICK r \in rids : /\ heap[r] # NoRow /\ HeapDelete(r) /\ rids' = rids \ {r}
                        /\ rid' = r /\ old' = heap[r]
  BY DEF DeleteRow
<1>2. /\ pc = "delete" /\ pc' = "deleteIndex" /\ todo' = Indexed
      /\ UNCHANGED <<index, unsure, wal, now, input, set, target, done, new, ghost>>
  BY DEF DeleteRow
<1>3. r \in Rid /\ heap[r] \in Row
  BY <1>1 DEF Inv, TypeOK, HeapType, StatementType, MaybeRow
<1>4. HeapType' /\ SlotsSound' /\ heap'[r] = NoRow
  BY <1>1, <1>3, HeapDeleteKeeps DEF Inv, TypeOK, HeapType, HeapDelete
<1>5. TypeOK'
  BY <1>1, <1>2, <1>3, <1>4 DEF Inv, TypeOK, IndexType, LogType, StatementType, PCs, FlightType,
                                HistoryType, ghost, MaybeRow, Rid
<1>6. RowInFlight' /\ RoomToInsert' /\ Undoable' /\ Rebuilding'
  BY <1>1, <1>2, <1>3, <1>4
  DEF Inv, RowInFlight, InFlight, HoldsNew, HoldsOld, RoomToInsert, Undoable, Inserting,
      Rebuilding, Reverting
<1> QED BY <1>4, <1>5, <1>6 DEF Inv

\* UPDATE, the heap write of a row
LEMMA UpdateRowKeeps == Inv /\ UpdateRow => Inv'
<1> SUFFICES ASSUME Inv, UpdateRow PROVE Inv'
  OBVIOUS
<1>1. PICK r \in rids :
        /\ heap[r] # NoRow /\ heap' = [heap EXCEPT ![r] = ApplySet(heap[r], set)]
        /\ new' = ApplySet(heap[r], set) /\ todo' = Changed(heap[r], new')
        /\ old' = heap[r] /\ rid' = r /\ rids' = rids \ {r}
  BY DEF UpdateRow
<1>2. /\ pc = "update" /\ pc' = "updateUnindex"
      /\ UNCHANGED <<free, fresh, index, unsure, wal, now, input, set, target, done, ghost>>
  BY DEF UpdateRow
<1>3. r \in Rid /\ heap[r] \in Row /\ new' \in Row
  BY <1>1, RowsTyped DEF Inv, TypeOK, HeapType, StatementType, MaybeRow
<1>4. HeapType' /\ heap'[r] = new'
  BY <1>1, <1>2, <1>3 DEF Inv, TypeOK, HeapType, MaybeRow
<1>5. SlotsSound'
  <2>1. \A q \in Rid : q >= fresh => q # r
    BY <1>1 DEF Inv, SlotsSound
  <2>2. \A i \in 1 .. Len(free) : free[i] \in Rid /\ free[i] # r
    BY <1>1, ElementOfSeq DEF Inv, SlotsSound, TypeOK, HeapType
  <2> QED BY <1>1, <1>2, <2>1, <2>2 DEF Inv, SlotsSound, TypeOK, HeapType
<1>6. TypeOK'
  BY <1>1, <1>2, <1>3, <1>4 DEF Inv, TypeOK, IndexType, LogType, StatementType, PCs, FlightType,
                                HistoryType, ghost, MaybeRow, Rid, Changed
<1>7. RowInFlight'
  BY <1>1, <1>2, <1>3, <1>4 DEF RowInFlight, InFlight, HoldsNew, HoldsOld
<1>8. RoomToInsert' /\ Undoable' /\ Rebuilding'
  BY <1>2 DEF Inv, RoomToInsert, Undoable, Inserting, Rebuilding, Reverting
<1> QED BY <1>4, <1>5, <1>6, <1>7, <1>8 DEF Inv

\* REVERT, the heap write of the next row: there is a slot left for it
LEMMA RevertRowKeeps == Inv /\ RevertRow => Inv'
<1> SUFFICES ASSUME Inv, RevertRow PROVE Inv'
  OBVIOUS
<1>1. PICK r \in Rid :
        /\ target[r] # NoRow /\ \A q \in Rid : target[q] # NoRow => r <= q
        /\ HeapInsert(target[r]) /\ new' = target[r]
        /\ target' = [target EXCEPT ![r] = NoRow]
  BY DEF RevertRow
<1>2. /\ pc = "revert" /\ pc' = "revertIndex" /\ rid' = Slot /\ todo' \subseteq Indexed
      /\ UNCHANGED <<index, unsure, wal, now, input, rids, set, done, old, ghost>>
  BY DEF RevertRow
<1>3. target[r] \in Row /\ target' \in [Rid -> MaybeRow]
  BY <1>1 DEF Inv, TypeOK, StatementType, MaybeRow
<1>4. free = <<>> /\ fresh <= r /\ fresh < NSlot
  BY <1>1, <1>2, BoundAssumption DEF Inv, Rebuilding, Reverting, TypeOK, HeapType, Rid
<1>5. /\ HeapType' /\ SlotsSound' /\ free' = <<>> /\ fresh' = fresh + 1
      /\ Slot \in Rid
  BY <1>1, <1>3, <1>4, HeapInsertKeeps, InsertSlot DEF Inv, TypeOK
<1>6. heap'[Slot] = new'
  BY <1>1, <1>5 DEF Inv, TypeOK, HeapType, HeapInsert
<1>7. TypeOK'
  BY <1>1, <1>2, <1>3, <1>5 DEF Inv, TypeOK, IndexType, LogType, StatementType, PCs, FlightType,
                                HistoryType, ghost, MaybeRow, Rid
<1>8. RowInFlight' /\ RoomToInsert' /\ Undoable'
  BY <1>1, <1>2, <1>3, <1>5, <1>6 DEF Inv, RowInFlight, InFlight, HoldsNew, HoldsOld,
                                      RoomToInsert, Undoable, Inserting
<1>9. Rebuilding'
  <2>1. \A q \in Rid : target'[q] # NoRow => q # r /\ target[q] # NoRow
    BY <1>1 DEF Inv, TypeOK, StatementType
  <2>2. \A q \in Rid : target'[q] # NoRow => fresh + 1 <= q
    BY <1>1, <1>4, <2>1, BoundAssumption DEF Inv, TypeOK, HeapType, Rid
  <2> QED BY <1>2, <1>5, <2>2 DEF Rebuilding, Reverting
<1> QED BY <1>5, <1>7, <1>8, <1>9 DEF Inv

\* the new table satisfies the invariant
LEMMA InitInv == Init => Inv
<1> SUFFICES ASSUME Init PROVE Inv
  OBVIOUS
<1>1. TypeOK
  BY RowsTyped, EmptySeq, BoundAssumption
  DEF Init, TypeOK, HeapType, IndexType, LogType, StatementType, PCs, FlightType, HistoryType,
      IndexFile, Nothing, MaybeRow, Time, Never
<1>2. SlotsSound /\ RowInFlight /\ RoomToInsert /\ Undoable /\ Rebuilding
  BY EmptySeq DEF Init, SlotsSound, RowInFlight, InFlight, HoldsNew, HoldsOld, RoomToInsert,
                  Undoable, Inserting, Rebuilding, Reverting
<1> QED BY <1>1, <1>2 DEF Inv

\* every step keeps the invariant
LEMMA NextInv == Inv /\ [Next]_vars => Inv'
<1> SUFFICES ASSUME Inv, [Next]_vars PROVE Inv'
  OBVIOUS
<1>1. CASE Begin
  BY <1>1, BeginInsertKeeps, BeginVisitKeeps, BeginRevertKeeps DEF Begin
<1>2. CASE Insert
  BY <1>2, InsertRowKeeps, MovesKeep, IndexStepsKeep, LogStepsKeep, EndsKeep DEF Insert
<1>3. CASE Rollback
  BY <1>3, UndoKeeps, IndexStepsKeep, UndoRowKeeps, EndsKeep DEF Rollback
<1>4. CASE Delete
  BY <1>4, DeleteRowKeeps, IndexStepsKeep, LogStepsKeep DEF Delete
<1>5. CASE Update
  BY <1>5, UpdateRowKeeps, UpdateIndexKeeps, LogStepsKeep, EndsKeep DEF Update
<1>6. CASE Revert
  BY <1>6, IndexStepsKeep, MovesKeep, RevertRowKeeps, EndsKeep DEF Revert
<1>7. CASE SkipRid \/ VisitEnd \/ Tick \/ Crash
  BY <1>7, SkipRidKeeps, EndsKeep, TickKeeps
<1>8. CASE UNCHANGED vars
  BY <1>8 DEF vars, store, regs, row, ghost, Inv, TypeOK, HeapType, IndexType, LogType,
     StatementType, FlightType, HistoryType, SlotsSound, RowInFlight, InFlight,
     RoomToInsert, Undoable, Rebuilding
<1> QED BY <1>1, <1>2, <1>3, <1>4, <1>5, <1>6, <1>7, <1>8 DEF Next, Step

\* The invariant that the theorems of this project on the table rest on holds in
\* every state of every mix of INSERTs, UPDATEs, DELETEs, REVERTs and crashes.
THEOREM Invariance == Spec => []Inv
BY InitInv, NextInv, PTL DEF Spec

\* Every variable keeps its type: the files, the log, and the registers of
\* every statement, whatever is rolled back, reverted or lost in a crash.
THEOREM TypeCorrect == Spec => []TypeOK
<1>1. Inv => TypeOK
  BY DEF Inv
<1> QED BY <1>1, Invariance, PTL

\* No INSERT and no rebuilding REVERT ever writes over a live row: the free
\* list names exactly once each slot that is reusable (Page's next_free_slot).
THEOREM SlotsAlwaysSound == Spec => []SlotsSound
<1>1. Inv => SlotsSound
  BY DEF Inv
<1> QED BY <1>1, Invariance, PTL

------------------------------------------------------------------------------

(***************************************************************************)
(* The operation log tells the truth about every millisecond before the    *)
(* first unlogged change: the proof of TimeTravel.                         *)
(*                                                                         *)
(* TimeTravel speaks of the past only.  What makes it inductive is what    *)
(* the present must look like for the next log line to keep it true: the   *)
(* table as logged so far is the heap, except that the row in flight still *)
(* counts with the value it had before its statement touched it.           *)
(***************************************************************************)
\* the steps at which the heap is ahead of the log by one row
Unlogged == {"insertIndex", "deleteIndex", "updateUnindex", "updateIndex"}

Logged == [r \in Rid |-> IF pc \in Unlogged /\ r = rid THEN old ELSE heap[r]]

History ==
    /\ \A i \in 1 .. Len(wal) : wal[i].ts <= now
    /\ now < horizon => past[now] = Logged /\ pc \notin Reverting
    /\ TimeTravel

\* what one more line does to the lines that count for a record id
LEMMA AppendLines ==
    ASSUME NEW log \in Seq(LogLine), NEW e \in LogLine, NEW t, NEW r
    PROVE  LET more == Append(log, e) IN
           /\ e.rid = r /\ e.ts <= t =>
                 Lines(more, t, r) = Lines(log, t, r) \cup {Len(log) + 1}
           /\ ~(e.rid = r /\ e.ts <= t) => Lines(more, t, r) = Lines(log, t, r)
           /\ \A i \in Lines(log, t, r) : more[i] = log[i] /\ i \in 1 .. Len(log)
           /\ more[Len(log) + 1] = e
<1> DEFINE more == Append(log, e)
<1>1. /\ Len(more) = Len(log) + 1 /\ Len(log) \in Nat
      /\ \A i \in 1 .. Len(log) : more[i] = log[i]
      /\ more[Len(log) + 1] = e
  BY LenProperties
<1>2. \A i : i \in 1 .. Len(more) <=> i \in 1 .. Len(log) \/ i = Len(log) + 1
  BY <1>1
<1> HIDE DEF more
<1>3. Len(log) + 1 \notin 1 .. Len(log)
  BY <1>1
<1>4. e.rid = r /\ e.ts <= t => Lines(more, t, r) = Lines(log, t, r) \cup {Len(log) + 1}
  BY <1>1, <1>2, <1>3 DEF Lines
<1>5. ~(e.rid = r /\ e.ts <= t) => Lines(more, t, r) = Lines(log, t, r)
  BY <1>1, <1>2, <1>3 DEF Lines
<1>6. \A i \in Lines(log, t, r) : more[i] = log[i] /\ i \in 1 .. Len(log)
  BY <1>1 DEF Lines
<1> QED BY <1>1, <1>4, <1>5, <1>6 DEF more

\* what one more line does to the replay
LEMMA AppendReplays ==
    ASSUME NEW log \in Seq(LogLine), NEW e \in LogLine, NEW t, NEW r
    PROVE  /\ e.rid = r /\ e.ts <= t => Replays(Append(log, e), t, r, e.row)
           /\ ~(e.rid = r /\ e.ts <= t) =>
                 \A x : Replays(log, t, r, x) => Replays(Append(log, e), t, r, x)
<1> DEFINE more == Append(log, e)
<1>1. CASE e.rid = r /\ e.ts <= t
  <2>1. Len(log) + 1 \in Lines(more, t, r) /\ more[Len(log) + 1] = e
    <3>1. /\ Lines(more, t, r) = Lines(log, t, r) \cup {Len(log) + 1}
          /\ more[Len(log) + 1] = e
      BY <1>1, AppendLines
    <3> HIDE DEF more
    <3> QED BY <3>1
  <2>2. Len(more) = Len(log) + 1 /\ Len(log) \in Nat
    BY LenProperties
  <2>3. \A j \in Lines(more, t, r) : j <= Len(log) + 1
    <3> HIDE DEF more
    <3> QED BY <2>2 DEF Lines
  <2> QED BY <1>1, <2>1, <2>3 DEF Replays
<1>2. CASE ~(e.rid = r /\ e.ts <= t)
  <2>1. /\ Lines(more, t, r) = Lines(log, t, r)
        /\ \A i \in Lines(log, t, r) : more[i] = log[i]
    BY <1>2, AppendLines
  <2> QED BY <1>2, <2>1 DEF Replays
<1> QED BY <1>1, <1>2

\* steps that change neither the heap nor the log
LEMMA QuietKeeps ==
    ASSUME History, UNCHANGED <<heap, wal, now, past, horizon>>,
           pc \in Unlogged <=> pc' \in Unlogged,
           pc \in Unlogged => UNCHANGED <<rid, old>>,
           pc' \in Reverting => pc \in Reverting
    PROVE  History'
<1>1. Logged' = Logged
  BY DEF Logged
<1> QED BY <1>1 DEF History, TimeTravel

\* steps that write the heap and put a row in flight
LEMMA HeapWriteKeeps ==
    ASSUME Inv, History, UNCHANGED <<wal, now, past, horizon>>,
           pc \notin Unlogged, pc' \in Unlogged, pc' \notin Reverting,
           NEW r \in Rid, NEW x \in MaybeRow,
           heap' = [heap EXCEPT ![r] = x], rid' = r, old' = heap[r]
    PROVE  History'
<1>1. Logged' = Logged
  BY DEF Logged, Inv, TypeOK, HeapType
<1> QED BY <1>1 DEF History, TimeTravel

\* steps that write the log line of the row in flight
LEMMA LogWriteKeeps ==
    ASSUME Inv, History, AppendWal(rid, heap[rid]), UNCHANGED <<heap, now, horizon>>,
           pc \in Unlogged, pc' \notin Unlogged, pc' \notin Reverting
    PROVE  History'
<1> DEFINE e == [ts |-> now, rid |-> rid, row |-> heap[rid]]
<1>1. rid \in Rid /\ heap[rid] \in MaybeRow /\ now \in Time /\ now \in Nat
  BY BoundAssumption DEF Inv, TypeOK, HeapType, LogType, RowInFlight, InFlight, Unlogged, Time
<1>2. e \in LogLine /\ wal \in Seq(LogLine) /\ wal' = Append(wal, e)
  BY <1>1 DEF LogLine, AppendWal, Inv, TypeOK, LogType
<1>3. past' = [past EXCEPT ![now] = heap] /\ past'[now] = heap
  BY <1>1 DEF AppendWal, Inv, TypeOK, HistoryType
<1>4. Logged' = heap
  <2>1. heap \in [Rid -> MaybeRow]
    BY DEF Inv, TypeOK, HeapType
  <2> QED BY <2>1 DEF Logged
<1>5. \A i \in 1 .. Len(wal') : wal'[i].ts <= now'
  <2>1. Len(wal') = Len(wal) + 1 /\ \A i \in 1 .. Len(wal) : wal'[i] = wal[i]
    BY <1>2, LenProperties
  <2>2. wal'[Len(wal) + 1].ts = now
    BY <1>2, LenProperties
  <2>3. \A i \in 1 .. Len(wal') : i \in 1 .. Len(wal) \/ i = Len(wal) + 1
    BY <1>2, <2>1, LenProperties
  <2> QED BY <1>1, <2>1, <2>2, <2>3 DEF History
<1>6. TimeTravel'
  <2> SUFFICES ASSUME NEW t \in 0 .. now, t < horizon, NEW r \in Rid
               PROVE  Replays(wal', t, r, past'[t][r])
    BY DEF TimeTravel
  <2>1. Replays(wal, t, r, past[t][r])
    BY DEF History, TimeTravel
  <2>2. CASE t < now
    <3>1. past'[t] = past[t]
      BY <1>1, <1>3, <2>2, BoundAssumption DEF Inv, TypeOK, HistoryType, Time
    <3>2. ~(e.ts <= t)
      BY <1>1, <2>2
    <3> QED BY <1>2, <2>1, <3>1, <3>2, AppendReplays
  <2>3. CASE t = now /\ r = rid
    BY <1>1, <1>2, <1>3, <2>3, AppendReplays
  <2>4. CASE t = now /\ r # rid
    <3>1. past[now] = Logged
      BY <2>4 DEF History
    <3>2. past[now][r] = heap[r]
      BY <2>4, <3>1 DEF Logged
    <3> QED BY <1>2, <1>3, <2>1, <2>4, <3>2, AppendReplays
  <2> QED BY <1>1, <2>2, <2>3, <2>4
<1> QED BY <1>3, <1>4, <1>5, <1>6 DEF History

\* steps after which the log no longer speaks of the present
LEMMA UnloggedChangeKeeps ==
    ASSUME Inv, History, UNCHANGED <<wal, now>>, horizon' <= now, horizon' <= horizon,
           horizon' \in Nat, \A t \in Time : t < now => past'[t] = past[t]
    PROVE  History'
<1>1. now \in 0 .. MaxTime /\ horizon \in Nat
  BY BoundAssumption DEF Inv, TypeOK, LogType, HistoryType, Time, Never
<1>2. TimeTravel'
  <2> SUFFICES ASSUME NEW t \in 0 .. now, t < horizon', NEW r \in Rid
               PROVE  Replays(wal, t, r, past'[t][r])
    BY DEF TimeTravel
  <2>1. t < now /\ t < horizon /\ t \in Time
    BY <1>1, BoundAssumption DEF Time
  <2>2. past'[t] = past[t]
    BY <2>1
  <2> QED BY <2>1, <2>2 DEF History, TimeTravel
<1> QED BY <1>1, <1>2 DEF History

\* the lines written so far count at every later time
LEMMA NoLaterLines ==
    ASSUME Inv, History
    PROVE  \A r : Lines(wal, now + 1, r) = Lines(wal, now, r)
<1>1. now \in Nat
  BY BoundAssumption DEF Inv, TypeOK, LogType, Time
<1>2. \A i \in 1 .. Len(wal) : wal[i].ts <= now /\ wal[i].ts \in Nat
  <2>1. \A i \in 1 .. Len(wal) : wal[i] \in LogLine
    BY ElementOfSeq DEF Inv, TypeOK, LogType
  <2>2. \A i \in 1 .. Len(wal) : wal[i].ts \in Nat
    BY <2>1, BoundAssumption DEF LogLine, Time
  <2> QED BY <2>2 DEF History
<1>3. \A i \in 1 .. Len(wal) : wal[i].ts <= now + 1
  BY <1>1, <1>2
<1> QED BY <1>2, <1>3 DEF Lines

\* a new millisecond begins with the table the last one ended with
LEMMA TickKeepsHistory == Inv /\ History /\ Tick => History'
<1> SUFFICES ASSUME Inv, History, Tick PROVE History'
  OBVIOUS
<1>1. /\ now < MaxTime /\ now' = now + 1 /\ past' = [past EXCEPT ![now + 1] = past[now]]
      /\ UNCHANGED <<heap, wal, pc, rid, old, horizon>>
  BY DEF Tick, store, row
<1>2. now \in Nat /\ now \in Time /\ now + 1 \in Time /\ horizon \in Nat
  BY <1>1, BoundAssumption DEF Inv, TypeOK, LogType, HistoryType, Time, Never
<1>3. past'[now + 1] = past[now] /\ \A t \in 0 .. now : past'[t] = past[t]
  BY <1>1, <1>2, BoundAssumption DEF Inv, TypeOK, HistoryType, Time
<1>4. \A i \in 1 .. Len(wal) : wal[i].ts <= now /\ wal[i].ts \in Nat
  <2>1. \A i \in 1 .. Len(wal) : wal[i] \in LogLine
    BY ElementOfSeq DEF Inv, TypeOK, LogType
  <2>2. \A i \in 1 .. Len(wal) : wal[i].ts \in Nat
    BY <2>1, BoundAssumption DEF LogLine, Time
  <2> QED BY <2>2 DEF History
<1>5. \A r : Lines(wal, now + 1, r) = Lines(wal, now, r)
  BY NoLaterLines
<1>6. TimeTravel'
  <2> SUFFICES ASSUME NEW t \in 0 .. now + 1, t < horizon, NEW r \in Rid
               PROVE  Replays(wal, t, r, past'[t][r])
    BY <1>1 DEF TimeTravel
  <2>1. CASE t \in 0 .. now
    BY <1>3, <2>1 DEF History, TimeTravel
  <2>2. CASE t = now + 1
    <3>1. Replays(wal, now, r, past[now][r])
      BY <1>2, <2>2 DEF History, TimeTravel
    <3> QED BY <1>3, <1>5, <2>2, <3>1 DEF Replays
  <2> QED BY <1>2, <2>1, <2>2
<1>7. now + 1 < horizon => past'[now + 1] = Logged' /\ pc' \notin Reverting
  BY <1>1, <1>2, <1>3 DEF History, Logged
<1>8. \A i \in 1 .. Len(wal') : wal'[i].ts <= now'
  BY <1>1, <1>2, <1>4
<1> QED BY <1>1, <1>6, <1>7, <1>8 DEF History

\* the new table and its empty log agree
LEMMA InitHistory == Init => History
<1> SUFFICES ASSUME Init PROVE History
  OBVIOUS
<1>1. past[0] = Logged
  BY BoundAssumption DEF Init, Logged, Unlogged, Time
<1>2. \A r \in Rid : Replays(wal, 0, r, past[0][r])
  BY BoundAssumption DEF Init, Replays, Lines, Time
<1> QED BY <1>1, <1>2, BoundAssumption DEF History, TimeTravel, Init, Reverting, Never

\* every step keeps log, present and past in agreement
LEMMA NextHistory == Inv /\ History /\ [Next]_vars => History'
<1> SUFFICES ASSUME Inv, History, [Next]_vars PROVE History'
  OBVIOUS
<1> USE DEF Unlogged, Reverting
<1>1. CASE BeginInsert \/ BeginDelete \/ BeginUpdate \/ InsertReject \/ Undo \/ SkipRid
  BY <1>1, QuietKeeps DEF BeginInsert, BeginDelete, BeginUpdate, InsertReject, Undo,
     SkipRid, store, ghost
<1>2. CASE InsertEnd \/ UndoEnd \/ VisitEnd \/ UpdateReject
  BY <1>2, QuietKeeps, IdleTyped DEF InsertEnd, UndoEnd, VisitEnd, UpdateReject, store
<1>3. CASE InsertIndex \/ DeleteIndex \/ UpdateUnindex \/ UpdateIndex \/ UndoIndex
  BY <1>3, QuietKeeps DEF InsertIndex, DeleteIndex, UpdateUnindex, UpdateIndex, UndoIndex,
     ghost, row
<1>4. CASE InsertRow
  <2>1. HeapType /\ SlotsSound /\ (free = <<>> => fresh < NSlot) /\ input \in Seq(Inputs)
    BY <1>4, EmptySeq, BoundAssumption
    DEF InsertRow, Inv, TypeOK, HeapType, StatementType, RoomToInsert
  <2>2. Slot \in Rid /\ heap[Slot] = NoRow /\ old = NoRow
    BY <1>4, <2>1, InsertSlot DEF InsertRow, Inv, RowInFlight, HoldsOld
  <2>3. Complete(Head(input)) \in MaybeRow
    BY <1>4, <2>1, HeadTailProperties, RowsTyped, InputAssumption DEF InsertRow, MaybeRow
  <2>4. /\ heap' = [heap EXCEPT ![Slot] = Complete(Head(input))]
        /\ rid' = Slot /\ old' = old /\ pc = "insert" /\ pc' = "insertIndex"
        /\ UNCHANGED <<wal, now, past, horizon>>
    BY <1>4 DEF InsertRow, HeapInsert, ghost
  <2> QED BY <2>2, <2>3, <2>4, HeapWriteKeeps
<1>5. CASE DeleteRow
  <2>1. PICK r \in rids : HeapDelete(r) /\ rid' = r /\ old' = heap[r]
    BY <1>5 DEF DeleteRow
  <2>2. r \in Rid /\ heap' = [heap EXCEPT ![r] = NoRow] /\ NoRow \in MaybeRow
    BY <2>1, <1>5 DEF HeapDelete, Inv, TypeOK, StatementType, MaybeRow
  <2>3. /\ pc = "delete" /\ pc' = "deleteIndex"
        /\ UNCHANGED <<wal, now, past, horizon>>
    BY <1>5 DEF DeleteRow, ghost
  <2> QED BY <2>1, <2>2, <2>3, HeapWriteKeeps
<1>6. CASE UpdateRow
  <2>1. PICK r \in rids : /\ heap[r] # NoRow /\ rid' = r /\ old' = heap[r]
                          /\ heap' = [heap EXCEPT ![r] = ApplySet(heap[r], set)]
    BY <1>6 DEF UpdateRow
  <2>2. r \in Rid /\ ApplySet(heap[r], set) \in MaybeRow
    BY <2>1, RowsTyped DEF Inv, TypeOK, HeapType, StatementType, MaybeRow
  <2>3. /\ pc = "update" /\ pc' = "updateUnindex"
        /\ UNCHANGED <<wal, now, past, horizon>>
    BY <1>6 DEF UpdateRow, ghost
  <2> QED BY <2>1, <2>2, <2>3, HeapWriteKeeps
<1>7. CASE InsertLog \/ UpdateLog
  <2>1. AppendWal(rid, new) /\ UNCHANGED <<heap, now, horizon>>
    BY <1>7 DEF InsertLog, UpdateLog, store
  <2>2. pc \in Unlogged /\ pc' \notin Unlogged /\ pc' \notin Reverting /\ heap[rid] = new
    BY <1>7 DEF InsertLog, UpdateLog, Inv, RowInFlight, HoldsNew
  <2> QED BY <2>1, <2>2, LogWriteKeeps
<1>8. CASE DeleteLog
  <2>1. AppendWal(rid, NoRow) /\ UNCHANGED <<heap, now, horizon>>
    BY <1>8 DEF DeleteLog, store
  <2>2. pc \in Unlogged /\ pc' \notin Unlogged /\ pc' \notin Reverting /\ heap[rid] = NoRow
    BY <1>8 DEF DeleteLog, Inv, RowInFlight
  <2> QED BY <2>1, <2>2, LogWriteKeeps
<1>9. CASE UndoRow \/ BeginRevert \/ Crash
  <2>1. now \in Nat /\ horizon \in Nat /\ past \in [Time -> [Rid -> MaybeRow]]
    BY BoundAssumption DEF Inv, TypeOK, LogType, HistoryType, Time, Never
  <2>2. /\ UNCHANGED <<wal, now>> /\ horizon' = IF now < horizon THEN now ELSE horizon
        /\ past' = past \/ past' = [past EXCEPT ![now] = heap']
    BY <1>9 DEF UndoRow, BeginRevert, Crash, store
  <2>3. \A t \in Time : t < now => past'[t] = past[t]
    <3> SUFFICES ASSUME NEW t \in Time, t < now PROVE past'[t] = past[t]
      OBVIOUS
    <3>1. t # now
      BY <2>1
    <3> QED BY <2>1, <2>2, <3>1
  <2> QED BY <2>1, <2>2, <2>3, UnloggedChangeKeeps
<1>10. CASE Revert
  <2>1. pc \in Reverting /\ UNCHANGED <<wal, now, horizon>>
    BY <1>10 DEF Revert, RevertDropIndex, RevertBuild, RevertRow, RevertIndex, RevertNext,
       RevertEnd, ghost
  <2>2. now \in Nat /\ horizon \in Nat /\ past \in [Time -> [Rid -> MaybeRow]]
    BY BoundAssumption DEF Inv, TypeOK, LogType, HistoryType, Time, Never
  <2>3. horizon <= now
    BY <2>1, <2>2 DEF History
  <2>4. past' = past \/ past' = [past EXCEPT ![now] = heap]
    BY <1>10 DEF Revert, RevertDropIndex, RevertBuild, RevertRow, RevertIndex, RevertNext,
       RevertEnd, ghost
  <2>5. \A t \in Time : t < now => past'[t] = past[t]
    <3> SUFFICES ASSUME NEW t \in Time, t < now PROVE past'[t] = past[t]
      OBVIOUS
    <3>1. t # now
      BY <2>2
    <3> QED BY <2>2, <2>4, <3>1
  <2> QED BY <2>1, <2>2, <2>3, <2>5, UnloggedChangeKeeps
<1>11. CASE Tick
  BY <1>11, TickKeepsHistory
<1>12. CASE UNCHANGED vars
  BY <1>12, QuietKeeps DEF vars, store, row, ghost
<1> QED BY <1>1, <1>2, <1>3, <1>4, <1>5, <1>6, <1>7, <1>8, <1>9, <1>10, <1>11, <1>12
    DEF Next, Begin, Step, Insert, Rollback, Delete, Update

\* The log replayed up to any time before the first unlogged change gives the
\* rows the table had then: for every table, log and interleaving of the clock,
\* REVERT's replay loop computes the past and nothing logged later disturbs it.
THEOREM LogTellsThePast == Spec => []TimeTravel
<1>1. Init => Inv /\ History
  BY InitInv, InitHistory
<1>2. Inv /\ History /\ [Next]_vars => (Inv /\ History)'
  BY NextInv, NextHistory
<1>3. History => TimeTravel
  BY DEF History
<1> QED BY <1>1, <1>2, <1>3, PTL DEF Spec

------------------------------------------------------------------------------

(***************************************************************************)
(* The indexes of a table against its heap: without crashes they agree     *)
(* (IndexAgrees), without REVERT and crashes an INDEXED column is unique   *)
(* (UniqueKeys), and without REVERT an index answers a key with one record *)
(* id at most whatever crashed (IndexKeysUnique).                          *)
(***************************************************************************)
ValidOrFree(x) == x # NoRow => ValidateRow(x)

\* validateRow has been asked about every row that is stored, logged or put back
RowsValid ==
    /\ \A r \in Rid : ValidOrFree(heap[r]) /\ ValidOrFree(target[r])
    /\ \A i \in 1 .. Len(wal) : ValidOrFree(wal[i].row)

\* the keys under which index c must list record id r, those aside that are unsure
Keys(c, r) == IF InFlight /\ r = rid THEN Pending(c)
              ELSE IF heap[r] = NoRow THEN {} ELSE {KeyOf[heap[r][c]]}

Listed(c, r) == \A v \in MaybeValue \ unsure[c] : <<v, r>> \in index[c] <=> v \in Keys(c, r)

\* the index files a REVERT has still to delete are beside the point
InStep(c, r) == (pc = "revertDrop" /\ c \in todo) \/ Listed(c, r)

Agreement == "crash" \notin Faults => \A c \in Indexed, r \in Rid : InStep(c, r)

\* the columns of a row hold values or NULL, and have keys
LEMMA ColumnTyped ==
    \A x \in Row, c \in Indexed : x[c] \in MaybeValue /\ KeyOf[x[c]] \in MaybeValue
BY ColumnAssumption, KeyAssumption DEF Row

\* so do the keys of the row in flight
LEMMA PendingTyped ==
    ASSUME Inv, InFlight, NEW c \in Indexed
    PROVE  Pending(c) \subseteq MaybeValue
<1>1. pc \in HoldsNew => KeyOf[new[c]] \in MaybeValue
  BY ColumnTyped DEF Inv, RowInFlight
<1>2. pc \in HoldsOld => KeyOf[old[c]] \in MaybeValue
  BY ColumnTyped DEF Inv, RowInFlight
<1> QED BY <1>1, <1>2 DEF Pending, InFlight, HoldsNew, HoldsOld

\* Agreement says entry by entry what IndexAgrees says of the set
LEMMA AgreementImpliesIndexAgrees == Inv /\ Agreement => IndexAgrees
<1> SUFFICES ASSUME Inv, Agreement, "crash" \notin Faults, NEW c \in Indexed,
                    ~(pc = "revertDrop" /\ c \in todo)
             PROVE  index[c] = {e \in Entries(c) : e[1] \notin unsure[c]}
  BY DEF IndexAgrees
<1>1. \A r \in Rid : Listed(c, r)
  BY DEF Agreement, InStep
<1>2. index[c] \subseteq MaybeValue \X Rid
  BY DEF Inv, TypeOK, IndexType, IndexFile
<1>3. \A r \in Rid : heap[r] # NoRow => KeyOf[heap[r][c]] \in MaybeValue
  BY ColumnTyped DEF Inv, TypeOK, HeapType, MaybeRow
<1>4. \A v \in MaybeValue, r \in Rid : <<v, r>> \in Entries(c) <=> v \in Keys(c, r)
  <2> SUFFICES ASSUME NEW v \in MaybeValue, NEW r \in Rid
               PROVE  <<v, r>> \in Entries(c) <=> v \in Keys(c, r)
    OBVIOUS
  <2>1. <<v, r>> \in Entries(c) <=> \/ r \in Settled /\ v = KeyOf[heap[r][c]]
                                    \/ r = rid /\ v \in Pending(c)
    BY DEF Entries
  <2>2. ~InFlight => Pending(c) = {}
    BY DEF InFlight, Pending
  <2> QED BY <2>1, <2>2 DEF Settled, Live, Keys
<1>5. Entries(c) \subseteq MaybeValue \X Rid
  <2>1. \A r \in Settled : <<KeyOf[heap[r][c]], r>> \in MaybeValue \X Rid
    BY <1>3 DEF Settled, Live
  <2>2. \A v \in Pending(c) : <<v, rid>> \in MaybeValue \X Rid
    <3>1. CASE InFlight
      BY <3>1, PendingTyped DEF Inv, RowInFlight
    <3>2. CASE ~InFlight
      BY <3>2 DEF InFlight, Pending
    <3> QED BY <3>1, <3>2
  <2> QED BY <2>1, <2>2 DEF Entries
<1>6. \A e \in MaybeValue \X Rid :
          e \in index[c] <=> e \in Entries(c) /\ e[1] \notin unsure[c]
  <2>1. \A e \in index[c] : e[1] \notin unsure[c]
    BY DEF Inv, TypeOK, IndexType
  <2> QED BY <1>1, <1>4, <2>1 DEF Listed
<1> QED BY <1>2, <1>5, <1>6

-----------------------------------------------------------------------------
(* Every stored row has passed validateRow.                                *)

\* the new table has no rows
LEMMA InitRowsValid == Init => RowsValid
BY DEF Init, RowsValid, ValidOrFree

\* a log line for a valid row keeps the log valid
LEMMA LoggedRowsValid ==
    ASSUME Inv, RowsValid, NEW r \in Rid, NEW x \in MaybeRow, AppendWal(r, x),
           ValidOrFree(x)
    PROVE  \A i \in 1 .. Len(wal') : ValidOrFree(wal'[i].row)
<1>1. /\ Len(wal') = Len(wal) + 1 /\ Len(wal) \in Nat
      /\ \A i \in 1 .. Len(wal) : wal'[i] = wal[i]
      /\ wal'[Len(wal) + 1].row = x
  BY LenProperties DEF AppendWal, Inv, TypeOK, LogType
<1>2. \A i \in 1 .. Len(wal') : i \in 1 .. Len(wal) \/ i = Len(wal) + 1
  BY <1>1
<1> QED BY <1>1, <1>2 DEF RowsValid

\* rows replayed from a valid log are valid
LEMMA ReplayedRowsValid ==
    ASSUME Inv, RowsValid, NEW t, NEW r \in Rid
    PROVE  ValidOrFree(Replay(wal, t)[r])
<1> DEFINE x == Replay(wal, t)[r]
<1>1. \E y \in MaybeRow : Replays(wal, t, r, y)
  <2>1. CASE Lines(wal, t, r) = {}
    BY <2>1 DEF Replays, MaybeRow
  <2>2. CASE Lines(wal, t, r) # {}
    <3>1. Len(wal) \in Nat /\ Lines(wal, t, r) \in SUBSET (1 .. Len(wal))
      BY LenProperties DEF Lines, Inv, TypeOK, LogType
    <3>2. PICK i \in Lines(wal, t, r) : \A j \in Lines(wal, t, r) : j <= i
      BY <2>2, <3>1, LastLine
    <3>3. wal[i] \in LogLine
      BY <3>1, ElementOfSeq DEF Inv, TypeOK, LogType
    <3> QED BY <3>2, <3>3 DEF Replays, LogLine
  <2> QED BY <2>1, <2>2
<1>2. Replays(wal, t, r, x)
  BY <1>1 DEF Replay
<1>3. x = NoRow \/ \E i \in 1 .. Len(wal) : x = wal[i].row
  BY <1>2 DEF Replays, Lines
<1> QED BY <1>3 DEF RowsValid, ValidOrFree

\* every step keeps stored and logged rows valid
LEMMA NextRowsValid == Inv /\ RowsValid /\ [Next]_vars => RowsValid'
<1> SUFFICES ASSUME Inv, RowsValid, [Next]_vars PROVE RowsValid'
  OBVIOUS
<1>1. CASE UNCHANGED <<heap, target, wal>>
  BY <1>1 DEF RowsValid
<1>2. CASE UNCHANGED <<heap, wal>> /\ target' = [r \in Rid |-> NoRow]
  BY <1>2 DEF RowsValid, ValidOrFree
<1>3. CASE InsertRow
  <2>1. ValidateRow(Complete(Head(input))) /\ UNCHANGED <<target, wal>>
    BY <1>3 DEF InsertRow, Insertable
  <2>2. heap' = [heap EXCEPT ![Slot] = Complete(Head(input))]
    BY <1>3 DEF InsertRow, HeapInsert
  <2> QED BY <2>1, <2>2 DEF RowsValid, ValidOrFree, Inv, TypeOK, HeapType
<1>4. CASE UpdateRow
  <2>1. PICK r \in rids : /\ heap' = [heap EXCEPT ![r] = ApplySet(heap[r], set)]
                          /\ ValidateRow(ApplySet(heap[r], set))
    BY <1>4 DEF UpdateRow, Updatable
  <2>2. UNCHANGED <<target, wal>>
    BY <1>4 DEF UpdateRow
  <2> QED BY <2>1, <2>2 DEF RowsValid, ValidOrFree, Inv, TypeOK, HeapType
<1>5. CASE DeleteRow \/ UndoRow
  <2>1. PICK r : heap' = [heap EXCEPT ![r] = NoRow]
    BY <1>5 DEF DeleteRow, UndoRow, HeapDelete
  <2>2. UNCHANGED <<target, wal>>
    BY <1>5 DEF DeleteRow, UndoRow, regs
  <2> QED BY <2>1, <2>2 DEF RowsValid, ValidOrFree, Inv, TypeOK, HeapType
<1>6. CASE InsertLog \/ UpdateLog
  <2>1. AppendWal(rid, new) /\ UNCHANGED <<heap, target>>
    BY <1>6 DEF InsertLog, UpdateLog, store, regs
  <2>2. rid \in Rid /\ heap[rid] = new /\ new \in MaybeRow
    BY <1>6 DEF InsertLog, UpdateLog, Inv, RowInFlight, HoldsNew, InFlight, TypeOK, FlightType
  <2>3. ValidOrFree(new)
    BY <2>2 DEF RowsValid
  <2> QED BY <2>1, <2>2, <2>3, LoggedRowsValid DEF RowsValid
<1>7. CASE DeleteLog
  <2>1. AppendWal(rid, NoRow) /\ UNCHANGED <<heap, target>> /\ rid \in Rid
    BY <1>7 DEF DeleteLog, store, regs, Inv, RowInFlight, InFlight
  <2>2. NoRow \in MaybeRow /\ ValidOrFree(NoRow)
    BY DEF MaybeRow, ValidOrFree
  <2> QED BY <2>1, <2>2, LoggedRowsValid DEF RowsValid
<1>8. CASE BeginRevert
  <2>1. PICK t \in 0 .. now : target' = Replay(wal, t)
    BY <1>8 DEF BeginRevert
  <2>2. heap' = [r \in Rid |-> NoRow] /\ wal' = wal
    BY <1>8 DEF BeginRevert
  <2> QED BY <2>1, <2>2, ReplayedRowsValid DEF RowsValid, ValidOrFree
<1>9. CASE RevertRow
  <2>1. PICK r \in Rid : /\ heap' = [heap EXCEPT ![Slot] = target[r]]
                         /\ target' = [target EXCEPT ![r] = NoRow]
    BY <1>9 DEF RevertRow, HeapInsert
  <2>2. wal' = wal
    BY <1>9 DEF RevertRow
  <2> QED BY <2>1, <2>2 DEF RowsValid, ValidOrFree, Inv, TypeOK, HeapType, StatementType
<1>10. CASE \/ BeginInsert \/ BeginDelete \/ BeginUpdate \/ InsertReject \/ InsertIndex
            \/ Undo \/ UndoIndex \/ SkipRid \/ DeleteIndex \/ UpdateUnindex \/ UpdateIndex
            \/ RevertDropIndex \/ RevertBuild \/ RevertIndex \/ RevertNext \/ Tick
            \/ UNCHANGED vars
  BY <1>1, <1>10 DEF BeginInsert, BeginDelete, BeginUpdate, InsertReject, InsertIndex, Undo,
     UndoIndex, SkipRid, DeleteIndex, UpdateUnindex, UpdateIndex, RevertDropIndex,
     RevertBuild, RevertIndex, RevertNext, Tick, vars, store, regs
<1>11. CASE InsertEnd \/ UndoEnd \/ UpdateReject \/ VisitEnd \/ RevertEnd \/ Crash
  BY <1>2, <1>11, IdleTyped DEF InsertEnd, UndoEnd, UpdateReject, VisitEnd, RevertEnd, Crash, store
<1> QED BY <1>3, <1>4, <1>5, <1>6, <1>7, <1>8, <1>9, <1>10, <1>11
    DEF Next, Begin, Step, Insert, Rollback, Delete, Update, Revert

-----------------------------------------------------------------------------
(* Agreement, step by step.                                                *)

\* the new indexes are empty, as is the heap
LEMMA InitAgreement == Init => Agreement
BY DEF Init, Agreement, InStep, Listed, Keys, InFlight

\* steps that change neither the index nor what it must list
LEMMA SameKeysAgree ==
    ASSUME UNCHANGED <<index, unsure>>, \A c \in Indexed, r \in Rid : Keys(c, r)' = Keys(c, r),
           \A c \in Indexed : pc = "revertDrop" /\ c \in todo => pc' = "revertDrop" /\ c \in todo'
    PROVE  \A c \in Indexed, r \in Rid : InStep(c, r) => InStep(c, r)'
<1> SUFFICES ASSUME NEW c \in Indexed, NEW r \in Rid, Listed(c, r) PROVE Listed(c, r)'
  BY DEF InStep
<1> QED BY DEF Listed

\* a step that writes the heap slot of the row it puts in flight
LEMMA FlightBeginsAgree ==
    ASSUME UNCHANGED <<index, unsure>>, ~InFlight, InFlight', pc # "revertDrop",
           \A r \in Rid \ {rid'} : heap'[r] = heap[r],
           \A c \in Indexed : Pending(c)' = Keys(c, rid')
    PROVE  \A c \in Indexed, r \in Rid : InStep(c, r) => InStep(c, r)'
<1>1. \A c \in Indexed, r \in Rid : Keys(c, r)' = Keys(c, r)
  BY SMTT(30) DEF Keys
<1> QED BY <1>1, SameKeysAgree

\* a step after which the row in flight is in its slot, or gone from it
LEMMA FlightEndsAgree ==
    ASSUME UNCHANGED <<index, unsure>>, InFlight, ~InFlight',
           \A r \in Rid \ {rid} : heap'[r] = heap[r],
           \A c \in Indexed : Pending(c) = IF heap'[rid] = NoRow THEN {}
                                            ELSE {KeyOf[heap'[rid][c]]}
    PROVE  \A c \in Indexed, r \in Rid : InStep(c, r) => InStep(c, r)'
<1>1. \A c \in Indexed, r \in Rid : Keys(c, r)' = Keys(c, r)
  BY DEF Keys
<1>2. pc # "revertDrop"
  BY DEF InFlight
<1> QED BY <1>1, <1>2, SameKeysAgree

\* what an index write does to the entries of the keys that stay sure
LEMMA IndexWritten ==
    ASSUME IndexType, NEW c \in Indexed, NEW v \in MaybeValue, NEW r \in Rid,
           IndexAdd(c, v, r) \/ IndexRemove(c, v, r)
    PROVE  /\ \A d \in Indexed \ {c} : index'[d] = index[d] /\ unsure'[d] = unsure[d]
           /\ unsure[c] \subseteq unsure'[c]
           /\ IndexAdd(c, v, r) => \A w \in MaybeValue \ unsure'[c] : \A q :
                 <<w, q>> \in index'[c] <=> <<w, q>> \in index[c] \/ (w = KeyOf[v] /\ q = r)
           /\ IndexRemove(c, v, r) => \A w, q :
                 <<w, q>> \in index'[c] <=> <<w, q>> \in index[c] /\ ~(w = KeyOf[v] /\ q = r)
<1>1. index \in IndexFile /\ unsure \in [Indexed -> SUBSET MaybeValue] /\ KeyOf[v] \in MaybeValue
  BY KeyAssumption DEF IndexType
<1>2. CASE /\ index' = [index EXCEPT ![c] = @ \cup {<<KeyOf[v], r>>}]
           /\ UNCHANGED unsure /\ ~IndexRemove(c, v, r)
  BY <1>1, <1>2 DEF IndexFile
<1>3. CASE /\ index' = [index EXCEPT ![c] = {e \in @ : e[1] # KeyOf[v]}]
           /\ unsure' = [unsure EXCEPT ![c] = @ \cup {KeyOf[v]}] /\ ~IndexRemove(c, v, r)
  BY <1>1, <1>3 DEF IndexFile
<1>4. CASE UNCHANGED <<index, unsure>> /\ KeyOf[v] \in unsure[c] /\ ~IndexRemove(c, v, r)
  BY <1>1, <1>4
<1>5. CASE IndexRemove(c, v, r)
  <2>1. /\ index'[c] = index[c] \ {<<KeyOf[v], r>>} /\ unsure' = unsure
        /\ \A d \in Indexed \ {c} : index'[d] = index[d]
    BY <1>1, <1>5 DEF IndexFile, IndexRemove
  <2>2. IndexAdd(c, v, r) => \A w \in MaybeValue \ unsure'[c] : \A q :
           <<w, q>> \in index'[c] <=> <<w, q>> \in index[c] \/ (w = KeyOf[v] /\ q = r)
    <3> SUFFICES ASSUME IndexAdd(c, v, r)
                 PROVE  KeyOf[v] \in unsure'[c] /\ index' = index
      BY <2>1
    <3>1. index' # [index EXCEPT ![c] = @ \cup {<<KeyOf[v], r>>}]
      BY <1>1, <2>1 DEF IndexFile
    <3>2. Sure(c, v) => unsure' # [unsure EXCEPT ![c] = @ \cup {KeyOf[v]}]
      BY <1>1, <2>1 DEF Sure
    <3> QED BY <2>1, <3>1, <3>2 DEF IndexAdd, Sure
  <2> QED BY <2>1, <2>2
<1> QED BY <1>2, <1>3, <1>4, <1>5 DEF IndexAdd, Sure

\* a step that writes one index for the row in flight
LEMMA IndexWriteAgrees ==
    ASSUME Inv, InFlight, InFlight', UNCHANGED <<heap, rid>>,
           NEW c \in Indexed, NEW v \in MaybeValue,
           \/ IndexAdd(c, v, rid) /\ Pending(c)' = Pending(c) \cup {KeyOf[v]}
           \/ IndexRemove(c, v, rid) /\ Pending(c)' = Pending(c) \ {KeyOf[v]},
           \A d \in Indexed \ {c} : Pending(d)' = Pending(d)
    PROVE  \A d \in Indexed, r \in Rid : InStep(d, r) => InStep(d, r)'
<1> SUFFICES ASSUME NEW d \in Indexed, NEW r \in Rid, Listed(d, r) PROVE Listed(d, r)'
  BY DEF InStep, InFlight
<1>1. IndexType /\ rid \in Rid
  BY DEF Inv, TypeOK, RowInFlight
<1>2. CASE d # c
  <2>1. index'[d] = index[d] /\ unsure'[d] = unsure[d]
    BY <1>1, <1>2, IndexWritten
  <2>2. Keys(d, r)' = Keys(d, r)
    BY <1>2 DEF Keys
  <2> QED BY <2>1, <2>2 DEF Listed
<1>3. CASE d = c
  <2>1. r # rid => Keys(c, r)' = Keys(c, r)
    BY DEF Keys
  <2>2. Keys(c, rid) = Pending(c) /\ Keys(c, rid)' = Pending(c)'
    BY DEF Keys
  <2> SUFFICES ASSUME NEW w \in MaybeValue \ unsure'[c]
               PROVE  <<w, r>> \in index'[c] <=> w \in Keys(c, r)'
    BY <1>3 DEF Listed
  <2>3. w \notin unsure[c]
    BY <1>1, IndexWritten
  <2>4. <<w, r>> \in index[c] <=> w \in Keys(c, r)
    BY <1>3, <2>3 DEF Listed
  <2>5. CASE IndexAdd(c, v, rid) /\ Pending(c)' = Pending(c) \cup {KeyOf[v]}
    <3>1. <<w, r>> \in index'[c] <=> <<w, r>> \in index[c] \/ (w = KeyOf[v] /\ r = rid)
      BY <1>1, <2>5, IndexWritten
    <3> QED BY <2>1, <2>2, <2>4, <2>5, <3>1
  <2>6. CASE IndexRemove(c, v, rid) /\ Pending(c)' = Pending(c) \ {KeyOf[v]}
    <3>1. <<w, r>> \in index'[c] <=> <<w, r>> \in index[c] /\ ~(w = KeyOf[v] /\ r = rid)
      BY <1>1, <2>6, IndexWritten
    <3> QED BY <2>1, <2>2, <2>4, <2>6, <3>1
  <2> QED BY <2>5, <2>6
<1> QED BY <1>2, <1>3

\* a statement that ends between two rows leaves heap and indexes as they agreed
LEMMA IdleAgrees ==
    ASSUME Idle, UNCHANGED <<heap, index, unsure>>, ~InFlight, pc # "revertDrop"
    PROVE  \A c \in Indexed, r \in Rid : InStep(c, r) => InStep(c, r)'
<1>1. ~InFlight'
  BY IdleTyped DEF InFlight
<1>2. \A c \in Indexed, r \in Rid : Keys(c, r)' = Keys(c, r)
  BY <1>1 DEF Keys
<1> QED BY <1>2, SameKeysAgree

\* no step but a crash takes an index out of step with a row
LEMMA NextInStep ==
    ASSUME Inv, RowsValid, [Next]_vars, ~Crash
    PROVE  \A c \in Indexed, r \in Rid : InStep(c, r) => InStep(c, r)'
<1>0. /\ pc \in HoldsNew => new \in Row /\ heap[rid] = new /\ new # NoRow
      /\ pc \in HoldsOld => old \in Row /\ old # NoRow
      /\ InFlight => rid \in Rid
      /\ heap \in [Rid -> MaybeRow] /\ todo \subseteq Indexed
  BY ValueAssumption DEF Inv, RowInFlight, TypeOK, HeapType, FlightType
<1>1. CASE \/ BeginInsert \/ BeginDelete \/ BeginUpdate \/ InsertReject \/ SkipRid
           \/ Tick \/ UNCHANGED vars
  <2>1. UNCHANGED <<index, unsure, heap, rid, old, new, todo>>
    BY <1>1 DEF BeginInsert, BeginDelete, BeginUpdate, InsertReject, SkipRid, Tick, vars,
       store, row
  <2>3. \/ pc' = pc
        \/ ~InFlight /\ ~InFlight' /\ pc # "revertDrop" /\ pc' # "revertDrop"
    <3>1. CASE BeginInsert \/ BeginDelete \/ BeginUpdate
      BY <3>1 DEF BeginInsert, BeginDelete, BeginUpdate, InFlight
    <3>2. CASE InsertReject
      BY <3>2 DEF InsertReject, InFlight
    <3>3. CASE SkipRid \/ Tick \/ UNCHANGED vars
      BY <3>3 DEF SkipRid, Tick, vars
    <3> QED BY <1>1, <3>1, <3>2, <3>3
  <2>2. \A c \in Indexed, r \in Rid : Keys(c, r)' = Keys(c, r)
    BY <2>1, <2>3 DEF Keys, InFlight, Pending, NextColumn
  <2> QED BY <2>1, <2>2, <2>3, SameKeysAgree
<1>2. CASE InsertEnd \/ UndoEnd \/ UpdateReject \/ VisitEnd \/ RevertEnd
  <2>1. Idle /\ UNCHANGED <<heap, index, unsure>> /\ ~InFlight /\ pc # "revertDrop"
    BY <1>2 DEF InsertEnd, UndoEnd, UpdateReject, VisitEnd, RevertEnd, store, InFlight
  <2> QED BY <2>1, IdleAgrees
<1>3. CASE InsertRow
  <2>1. /\ heap' = [heap EXCEPT ![Slot] = new'] /\ rid' = Slot /\ todo' = Indexed
        /\ pc = "insert" /\ pc' = "insertIndex" /\ UNCHANGED <<index, unsure>>
    BY <1>3 DEF InsertRow, HeapInsert
  <2>2. Slot \in Rid /\ heap[Slot] = NoRow
    <3>1. HeapType /\ SlotsSound /\ (free = <<>> => fresh < NSlot)
      BY <1>3, EmptySeq, BoundAssumption
      DEF InsertRow, Inv, TypeOK, HeapType, StatementType, RoomToInsert
    <3> QED BY <3>1, InsertSlot
  <2>3. \A c \in Indexed : Pending(c)' = {} /\ Keys(c, rid') = {}
    BY <2>1, <2>2 DEF Pending, Keys, InFlight
  <2> QED BY <1>0, <2>1, <2>3, FlightBeginsAgree DEF InFlight
<1>4. CASE DeleteRow
  <2>1. PICK r \in rids : /\ heap[r] # NoRow /\ rid' = r /\ old' = heap[r]
                          /\ heap' = [heap EXCEPT ![r] = NoRow]
    BY <1>4 DEF DeleteRow, HeapDelete
  <2>2. pc = "delete" /\ pc' = "deleteIndex" /\ UNCHANGED <<index, unsure>> /\ todo' = Indexed
    BY <1>4 DEF DeleteRow
  <2>3. \A c \in Indexed : Pending(c)' = {KeyOf[heap[r][c]]} /\ Keys(c, r) = {KeyOf[heap[r][c]]}
    BY <2>1, <2>2 DEF Pending, Keys, InFlight
  <2> QED BY <1>0, <2>1, <2>2, <2>3, FlightBeginsAgree DEF InFlight
<1>5. CASE UpdateRow
  <2>1. PICK r \in rids : /\ heap[r] # NoRow /\ rid' = r /\ old' = heap[r]
                          /\ heap' = [heap EXCEPT ![r] = new']
                          /\ todo' = Changed(old', new')
    BY <1>5 DEF UpdateRow
  <2>2. pc = "update" /\ pc' = "updateUnindex" /\ UNCHANGED <<index, unsure>>
    BY <1>5 DEF UpdateRow
  <2>3. \A c \in Indexed : Pending(c)' = {KeyOf[old'[c]]}
    BY <2>1, <2>2 DEF Pending, Changed
  <2>4. \A c \in Indexed : Keys(c, r) = {KeyOf[heap[r][c]]}
    BY <2>1, <2>2 DEF Keys, InFlight
  <2> QED BY <1>0, <2>1, <2>2, <2>3, <2>4, FlightBeginsAgree DEF InFlight
<1>6. CASE Undo
  <2>1. /\ pc = "undo" /\ pc' = "undoIndex" /\ todo' = Indexed /\ UNCHANGED <<heap, index, unsure>>
        /\ rid' = Head(done) /\ old' = heap[Head(done)]
    BY <1>6 DEF Undo, store
  <2>2. heap[Head(done)] # NoRow
    <3>1. 1 \in 1 .. Len(done) /\ Head(done) = done[1]
      BY <1>6, EmptySeq, HeadTailProperties DEF Undo, Inv, TypeOK, StatementType
    <3> QED BY <2>1, <3>1 DEF Inv, Undoable, Inserting
  <2>3. \A c \in Indexed : Pending(c)' = {KeyOf[old'[c]]} /\ Keys(c, rid') = {KeyOf[old'[c]]}
    BY <2>1, <2>2 DEF Pending, Keys, InFlight
  <2> QED BY <2>1, <2>3, FlightBeginsAgree DEF InFlight
<1>7. CASE RevertRow
  <2>1. PICK r \in Rid : /\ target[r] # NoRow /\ new' = target[r]
                         /\ heap' = [heap EXCEPT ![Slot] = new']
                         /\ HeapInsert(target[r])
    BY <1>7 DEF RevertRow, HeapInsert
  <2>2. ValidateRow(new')
    BY <2>1 DEF RowsValid, ValidOrFree
  <2>3. /\ pc = "revert" /\ pc' = "revertIndex" /\ rid' = Slot /\ UNCHANGED <<index, unsure>>
        /\ todo' = Indexed
    BY <1>7, <2>2, ColumnAssumption DEF RevertRow, ValidateRow
  <2>4. Slot \in Rid /\ heap[Slot] = NoRow
    <3>1. HeapType /\ SlotsSound /\ (free = <<>> => fresh < NSlot)
      BY <2>1, <2>3, BoundAssumption DEF Inv, TypeOK, HeapType, Rebuilding, Reverting, Rid
    <3> QED BY <3>1, InsertSlot
  <2>5. \A c \in Indexed : Pending(c)' = {} /\ Keys(c, rid') = {}
    BY <2>3, <2>4 DEF Pending, Keys, InFlight
  <2> QED BY <1>0, <2>1, <2>3, <2>5, FlightBeginsAgree DEF InFlight
<1>8. CASE InsertLog \/ UpdateLog \/ RevertNext
  <2>1. /\ pc \in {"insertIndex", "updateUnindex", "revertIndex"} /\ todo = {}
        /\ pc' \in {"insert", "update", "revert"} /\ UNCHANGED <<heap, index, unsure>>
    BY <1>8 DEF InsertLog, UpdateLog, RevertNext, store
  <2>2. \A c \in Indexed : Pending(c) = {KeyOf[new[c]]}
    BY <2>1 DEF Pending
  <2>3. heap[rid] = new /\ new # NoRow
    BY <1>0, <2>1 DEF HoldsNew
  <2> QED BY <2>1, <2>2, <2>3, FlightEndsAgree DEF InFlight
<1>9. CASE DeleteLog
  <2>1. /\ pc = "deleteIndex" /\ pc' = "delete" /\ todo = {} /\ UNCHANGED <<heap, index, unsure>>
    BY <1>9 DEF DeleteLog, store
  <2>2. heap[rid] = NoRow /\ \A c \in Indexed : Pending(c) = {}
    BY <2>1 DEF Pending, Inv, RowInFlight
  <2> QED BY <2>1, <2>2, FlightEndsAgree DEF InFlight
<1>10. CASE UndoRow
  <2>1. /\ pc = "undoIndex" /\ pc' = "undo" /\ todo = {} /\ UNCHANGED <<index, unsure>>
        /\ heap' = [heap EXCEPT ![rid] = NoRow]
    BY <1>10 DEF UndoRow, HeapDelete
  <2>2. rid \in Rid /\ \A c \in Indexed : Pending(c) = {}
    BY <1>0, <2>1 DEF Pending, InFlight
  <2> QED BY <1>0, <2>1, <2>2, FlightEndsAgree DEF InFlight
<1>11. CASE InsertIndex \/ RevertIndex
  <2>1. PICK c \in todo : IndexAdd(c, new[c], rid) /\ todo' = todo \ {c}
    BY <1>11 DEF InsertIndex, RevertIndex, NextColumn
  <2>2. /\ pc \in {"insertIndex", "revertIndex"} /\ pc' = pc
        /\ UNCHANGED <<heap, rid, new>>
    BY <1>11 DEF InsertIndex, RevertIndex
  <2>3. c \in Indexed /\ new[c] \in MaybeValue
    BY <1>0, <2>2, ColumnTyped DEF HoldsNew
  <2>4. /\ Pending(c)' = Pending(c) \cup {KeyOf[new[c]]}
        /\ \A d \in Indexed \ {c} : Pending(d)' = Pending(d)
    BY <2>1, <2>2 DEF Pending
  <2> QED BY <2>1, <2>2, <2>3, <2>4, IndexWriteAgrees DEF InFlight
<1>12. CASE UndoIndex \/ DeleteIndex
  <2>1. PICK c \in todo : IndexRemove(c, old[c], rid) /\ todo' = todo \ {c}
    BY <1>12 DEF UndoIndex, DeleteIndex, NextColumn
  <2>2. /\ pc \in {"undoIndex", "deleteIndex"} /\ pc' = pc
        /\ UNCHANGED <<heap, rid, old>>
    BY <1>12 DEF UndoIndex, DeleteIndex
  <2>3. c \in Indexed /\ old[c] \in MaybeValue
    BY <1>0, <2>2, ColumnTyped DEF HoldsOld
  <2>4. /\ Pending(c)' = Pending(c) \ {KeyOf[old[c]]}
        /\ \A d \in Indexed \ {c} : Pending(d)' = Pending(d)
    BY <2>1, <2>2 DEF Pending
  <2> QED BY <2>1, <2>2, <2>3, <2>4, IndexWriteAgrees DEF InFlight
<1>13. CASE UpdateUnindex
  <2>1. PICK c \in todo : NextColumn(c) /\ IndexRemove(c, old[c], rid)
    BY <1>13 DEF UpdateUnindex, NextColumn
  <2>2. /\ pc = "updateUnindex" /\ pc' = "updateIndex"
        /\ UNCHANGED <<heap, rid, old, new, todo>>
    BY <1>13 DEF UpdateUnindex, row
  <2>3. c \in Indexed /\ old[c] \in MaybeValue
    BY <1>0, <2>2, ColumnTyped DEF HoldsOld
  <2>4. \A d \in Indexed \ {c} : ~NextColumn(d)
    BY <2>1, <1>0, ColumnAssumption DEF NextColumn
  <2>5. /\ Pending(c)' = Pending(c) \ {KeyOf[old[c]]}
        /\ \A d \in Indexed \ {c} : Pending(d)' = Pending(d)
    BY <2>1, <2>2, <2>4 DEF Pending, NextColumn
  <2> QED BY <2>1, <2>2, <2>3, <2>5, IndexWriteAgrees DEF InFlight
<1>14. CASE UpdateIndex
  <2>1. PICK c \in todo : /\ NextColumn(c) /\ IndexAdd(c, new[c], rid)
                          /\ todo' = todo \ {c}
    BY <1>14 DEF UpdateIndex, NextColumn
  <2>2. /\ pc = "updateIndex" /\ pc' = "updateUnindex"
        /\ UNCHANGED <<heap, rid, old, new>>
    BY <1>14 DEF UpdateIndex
  <2>3. c \in Indexed /\ new[c] \in MaybeValue
    BY <1>0, <2>2, ColumnTyped DEF HoldsNew
  <2>4. \A d \in Indexed \ {c} : ~NextColumn(d)
    BY <2>1, <1>0, ColumnAssumption DEF NextColumn
  <2>5. /\ Pending(c)' = Pending(c) \cup {KeyOf[new[c]]}
        /\ \A d \in Indexed \ {c} : Pending(d)' = Pending(d)
    BY <2>1, <2>2, <2>4 DEF Pending
  <2> QED BY <2>1, <2>2, <2>3, <2>5, IndexWriteAgrees DEF InFlight
<1>15. CASE BeginRevert
  <2>1. pc' = "revertDrop" /\ todo' = Indexed
    BY <1>15 DEF BeginRevert
  <2> QED BY <2>1 DEF InStep
<1>16. CASE RevertDropIndex
  <2>1. PICK c \in todo : /\ index' = [index EXCEPT ![c] = {}]
                          /\ unsure' = [unsure EXCEPT ![c] = {}] /\ todo' = todo \ {c}
    BY <1>16 DEF RevertDropIndex, NextColumn
  <2>2. /\ pc = "revertDrop" /\ pc' = "revertDrop" /\ heap' = heap
        /\ heap = [r \in Rid |-> NoRow]
    BY <1>16 DEF RevertDropIndex, Inv, Rebuilding
  <2>3. \A d \in Indexed, r \in Rid : Keys(d, r) = {} /\ Keys(d, r)' = {}
    BY <2>2 DEF Keys, InFlight
  <2>4. c \in Indexed /\ index \in IndexFile /\ unsure \in [Indexed -> SUBSET MaybeValue]
    BY <1>0 DEF Inv, TypeOK, IndexType
  <2>5. ASSUME NEW d \in Indexed, NEW r \in Rid, InStep(d, r), d \notin todo'
        PROVE  Listed(d, r)'
    <3>1. CASE d = c
      BY <2>1, <2>3, <2>4, <3>1 DEF Listed, IndexFile
    <3>2. CASE d # c
      <4>1. d \notin todo /\ index'[d] = index[d] /\ unsure'[d] = unsure[d]
        BY <2>1, <2>4, <2>5, <3>2 DEF IndexFile
      <4>2. Listed(d, r)
        BY <2>5, <4>1 DEF InStep
      <4> QED BY <2>3, <4>1, <4>2 DEF Listed
    <3> QED BY <3>1, <3>2
  <2> QED BY <2>2, <2>5 DEF InStep
<1>17. CASE RevertBuild
  <2>1. /\ pc = "revertDrop" /\ pc' = "revert" /\ todo = {}
        /\ UNCHANGED <<heap, index, unsure>>
    BY <1>17 DEF RevertBuild, store
  <2>2. \A c \in Indexed, r \in Rid : Keys(c, r)' = Keys(c, r)
    BY <2>1 DEF Keys, InFlight
  <2> QED BY <2>1, <2>2, SameKeysAgree
<1> QED BY <1>1, <1>2, <1>3, <1>4, <1>5, <1>6, <1>7, <1>8, <1>9, <1>10, <1>11, <1>12, <1>13,
           <1>14, <1>15, <1>16, <1>17
    DEF Next, Begin, Step, Insert, Rollback, Delete, Update, Revert

\* every step keeps heap and indexes in agreement as long as nothing crashes
LEMMA NextAgreement == Inv /\ RowsValid /\ Agreement /\ [Next]_vars => Agreement'
<1>1. Crash => "crash" \in Faults
  BY DEF Crash
<1> QED BY <1>1, NextInStep DEF Agreement

\* Without crashes heap and indexes agree at every step of every statement, for
\* any set of columns, indexed columns and rows; partly applied UPDATEs, rolled
\* back INSERTs and REVERTs included; the keys aside that a REVERT has put into
\* an index twice.
THEOREM IndexesAlwaysAgree == Spec => []IndexAgrees
<1>1. Init => Inv /\ RowsValid /\ Agreement
  BY InitInv, InitRowsValid, InitAgreement
<1>2. Inv /\ RowsValid /\ Agreement /\ [Next]_vars => (Inv /\ RowsValid /\ Agreement)'
  BY NextInv, NextRowsValid, NextAgreement
<1>3. Inv /\ RowsValid /\ Agreement => IndexAgrees
  BY AgreementImpliesIndexAgrees
<1> QED BY <1>1, <1>2, <1>3, PTL DEF Spec

-----------------------------------------------------------------------------
(* Uniqueness of the INDEXED columns.                                      *)

\* without REVERT its steps are never reached, and without crashes the answer
\* of an index about a key decides whether a live row has it
Unreverted == "revert" \notin Faults => pc \notin Reverting

\* the keys a statement has yet to write are in no index
KeysPending ==
    pc \in {"insertIndex", "updateUnindex", "updateIndex"} =>
        \A c \in todo : Find(c, new[c]) = {}

\* and no index is unsure of a key unless a crash has torn it
Intact == "crash" \notin Faults => \A c \in Indexed : unsure[c] = {}

IndexUnique == "revert" \notin Faults => IndexKeysUnique /\ KeysPending /\ Intact

\* a table without rows has no duplicates
LEMMA InitUnique == Init => Unreverted /\ UniqueKeys /\ IndexUnique
BY DEF Init, Unreverted, Reverting, UniqueKeys, Live, IndexUnique, IndexKeysUnique, KeysPending,
       Intact

\* without REVERT its steps are never taken
LEMMA NextUnreverted == Unreverted /\ [Next]_vars => Unreverted'
<1> SUFFICES ASSUME Unreverted, [Next]_vars, "revert" \notin Faults
             PROVE  pc' \notin Reverting
  BY DEF Unreverted
<1> USE DEF Unreverted, Reverting
<1>1. CASE Begin
  BY <1>1 DEF Begin, BeginInsert, BeginDelete, BeginUpdate, BeginRevert
<1>2. CASE Insert \/ Rollback
  BY <1>2 DEF Insert, InsertRow, InsertReject, InsertIndex, InsertLog, InsertEnd,
     Rollback, Undo, UndoIndex, UndoRow, UndoEnd, Idle
<1>3. CASE Delete \/ Update
  BY <1>3 DEF Delete, DeleteRow, DeleteIndex, DeleteLog,
     Update, UpdateRow, UpdateReject, UpdateUnindex, UpdateIndex, UpdateLog, Idle
<1>4. CASE SkipRid \/ VisitEnd \/ Tick \/ Crash \/ UNCHANGED vars
  BY <1>4 DEF SkipRid, VisitEnd, Tick, Crash, Idle, vars
<1>5. CASE Revert
  BY <1>5 DEF Revert, RevertDropIndex, RevertBuild, RevertRow, RevertIndex, RevertNext, RevertEnd
<1> QED BY <1>1, <1>2, <1>3, <1>4, <1>5 DEF Next, Step

\* what a statement learns from an index between rows: no live row has the key
LEMMA FindDecides ==
    ASSUME Agreement, Faults = {}, Intact, ~InFlight, pc # "revertDrop",
           NEW c \in Indexed, NEW v \in MaybeValue, Find(c, v) = {}
    PROVE  \A r \in Live : KeyOf[heap[r][c]] # KeyOf[v]
<1> SUFFICES ASSUME NEW r \in Rid, heap[r] # NoRow, KeyOf[heap[r][c]] = KeyOf[v] PROVE FALSE
  BY DEF Live
<1>1. <<KeyOf[v], r>> \in index[c]
  BY KeyAssumption DEF Agreement, InStep, Listed, Keys, Intact
<1> QED BY <1>1 DEF Find

\* every step keeps the rows unique: no key enters the heap that an index lists
LEMMA NextUniqueKeys ==
    Inv /\ Agreement /\ Unreverted /\ IndexUnique /\ UniqueKeys /\ [Next]_vars => UniqueKeys'
<1> SUFFICES ASSUME Inv, Agreement, Unreverted, IndexUnique, UniqueKeys, [Next]_vars,
                    Faults = {}, NEW c \in Indexed
             PROVE  \A r, q \in Live' : KeyOf[heap'[r][c]] = KeyOf[heap'[q][c]] => r = q
  BY DEF UniqueKeys
<1>0. Intact
  BY DEF IndexUnique
<1>1. \A r, q \in Live : KeyOf[heap[r][c]] = KeyOf[heap[q][c]] => r = q
  BY DEF UniqueKeys
<1>2. heap \in [Rid -> MaybeRow] /\ c \in Column
  BY ColumnAssumption DEF Inv, TypeOK, HeapType
<1>3. CASE heap' = heap
  BY <1>1, <1>3 DEF Live
<1>4. CASE InsertRow
  <2> DEFINE x == Complete(Head(input))
  <2>0. x \in Row
    <3>1. Head(input) \in Inputs
      BY <1>4, EmptySeq, HeadTailProperties DEF InsertRow, Inv, TypeOK, StatementType
    <3> QED BY <3>1, RowsTyped, InputAssumption
  <2>1. heap' = [heap EXCEPT ![Slot] = x] /\ x \in Row /\ Find(c, x[c]) = {} /\ pc = "insert"
    BY <1>4, <2>0 DEF InsertRow, HeapInsert, Insertable
  <2>2. \A r \in Live : KeyOf[heap[r][c]] # KeyOf[x[c]]
    BY <1>0, <2>1, FindDecides, ColumnTyped DEF InFlight
  <2> HIDE DEF x
  <2> QED BY <1>1, <1>2, <2>1, <2>2 DEF Live
<1>5. CASE UpdateRow
  <2>1. PICK r \in rids : /\ heap[r] # NoRow
                          /\ Updatable(heap[r], ApplySet(heap[r], set))
                          /\ heap' = [heap EXCEPT ![r] = ApplySet(heap[r], set)]
    BY <1>5 DEF UpdateRow
  <2> DEFINE y == ApplySet(heap[r], set)
  <2>2. pc = "update" /\ r \in Rid /\ y \in Row
    BY <1>5, <2>1, <1>2, RowsTyped DEF UpdateRow, Inv, TypeOK, StatementType, MaybeRow
  <2>3. \A q \in Live \ {r} : KeyOf[heap[q][c]] # KeyOf[y[c]]
    <3>1. CASE heap[r][c] = y[c]
      BY <1>1, <2>1, <2>2, <3>1 DEF Live
    <3>2. CASE heap[r][c] # y[c]
      BY <1>0, <2>1, <2>2, <3>2, FindDecides, ColumnTyped DEF Updatable, Changed, InFlight
    <3> QED BY <3>1, <3>2
  <2> HIDE DEF y
  <2> QED BY <1>1, <1>2, <2>1, <2>2, <2>3 DEF Live, y
<1>6. CASE DeleteRow \/ UndoRow
  <2>1. PICK r : heap' = [heap EXCEPT ![r] = NoRow]
    BY <1>6 DEF DeleteRow, UndoRow, HeapDelete
  <2> QED BY <1>1, <1>2, <2>1 DEF Live
<1>7. CASE \/ BeginInsert \/ BeginDelete \/ BeginUpdate \/ InsertReject \/ InsertIndex \/ InsertLog
           \/ InsertEnd \/ Undo \/ UndoIndex \/ UndoEnd \/ SkipRid \/ VisitEnd \/ DeleteIndex
           \/ DeleteLog \/ UpdateReject \/ UpdateUnindex \/ UpdateIndex \/ UpdateLog
           \/ Tick \/ Crash \/ UNCHANGED vars
  BY <1>3, <1>7 DEF BeginInsert, BeginDelete, BeginUpdate, InsertReject, InsertIndex, InsertLog,
     InsertEnd, Undo, UndoIndex, UndoEnd, SkipRid, VisitEnd, DeleteIndex, DeleteLog,
     UpdateReject, UpdateUnindex, UpdateIndex, UpdateLog, Tick, Crash, vars, store
<1>8. ~BeginRevert /\ ~Revert
  BY DEF BeginRevert, Revert, RevertDropIndex, RevertBuild, RevertRow, RevertIndex, RevertNext,
     RevertEnd, Unreverted, Reverting
<1> QED BY <1>4, <1>5, <1>6, <1>7, <1>8
    DEF Next, Begin, Step, Insert, Rollback, Delete, Update

\* every step keeps the index keys unique, crashes included
LEMMA NextIndexUnique == Inv /\ Unreverted /\ IndexUnique /\ [Next]_vars => IndexUnique'
<1> SUFFICES ASSUME Inv, Unreverted, IndexUnique, [Next]_vars, "revert" \notin Faults
             PROVE  /\ \A c \in Indexed : \A e, f \in index'[c] : e[1] = f[1] => e = f
                    /\ \A c \in Indexed : unsure'[c] # {} => unsure'[c] = MaybeValue
                    /\ KeysPending' /\ Intact'
  BY DEF IndexUnique, IndexKeysUnique, Torn
<1>0. /\ \A c \in Indexed : \A e, f \in index[c] : e[1] = f[1] => e = f
      /\ \A c \in Indexed : unsure[c] # {} => unsure[c] = MaybeValue
      /\ KeysPending /\ Intact /\ index \in IndexFile /\ todo \subseteq Indexed
      /\ unsure \in [Indexed -> SUBSET MaybeValue]
  BY DEF IndexUnique, IndexKeysUnique, Torn, Inv, TypeOK, IndexType, FlightType
<1>1. CASE UNCHANGED <<index, unsure>> /\ pc' \notin {"insertIndex", "updateUnindex", "updateIndex"}
  BY <1>0, <1>1 DEF KeysPending, Intact
<1>2. CASE InsertRow
  <2>1. UNCHANGED <<index, unsure>> /\ todo' = Indexed /\ \A c \in Indexed : Find(c, new'[c]) = {}
    BY <1>2 DEF InsertRow, Insertable
  <2> QED BY <1>0, <2>1 DEF KeysPending, Intact, Find
<1>3. CASE UpdateRow
  <2>1. PICK r \in rids : LET y == ApplySet(heap[r], set) IN
                          Updatable(heap[r], y) /\ new' = y /\ todo' = Changed(heap[r], y)
    BY <1>3 DEF UpdateRow
  <2>2. UNCHANGED <<index, unsure>> /\ \A c \in todo' : Find(c, new'[c]) = {}
    BY <1>3, <2>1 DEF UpdateRow, Updatable
  <2> QED BY <1>0, <2>2 DEF KeysPending, Intact, Find
<1>4. CASE InsertIndex \/ UpdateIndex
  <2>1. PICK c \in todo : IndexAdd(c, new[c], rid) /\ todo' = todo \ {c}
    BY <1>4 DEF InsertIndex, UpdateIndex, NextColumn
  <2>2. /\ pc \in {"insertIndex", "updateIndex"} /\ new' = new
        /\ \A d \in todo : Find(d, new[d]) = {}
    BY <1>0, <1>4 DEF InsertIndex, UpdateIndex, KeysPending
  <2>3. c \in Indexed /\ \A e \in index[c] : e[1] # KeyOf[new[c]]
    BY <1>0, <2>1, <2>2 DEF Find
  <2>4. /\ \/ index' = [index EXCEPT ![c] = @ \cup {<<KeyOf[new[c]], rid>>}]
           \/ index' = index
        /\ unsure' = unsure
    BY <2>1, <2>2 DEF IndexAdd
  <2>5. /\ index'[c] \subseteq index[c] \cup {<<KeyOf[new[c]], rid>>}
        /\ \A d \in Indexed \ {c} : index'[d] = index[d]
    BY <1>0, <2>3, <2>4 DEF IndexFile
  <2>6. KeysPending'
    BY <1>0, <2>1, <2>2, <2>5 DEF KeysPending, Find
  <2>7. \A e, f \in index'[c] : e[1] = f[1] => e = f
    BY <1>0, <2>3, <2>5
  <2> QED BY <1>0, <2>4, <2>5, <2>6, <2>7 DEF Intact
<1>5. CASE UndoIndex \/ DeleteIndex \/ UpdateUnindex
  <2>1. PICK c \in todo : /\ index' = [index EXCEPT ![c] = @ \ {<<KeyOf[old[c]], rid>>}]
                          /\ unsure' = unsure
    BY <1>5 DEF UndoIndex, DeleteIndex, UpdateUnindex, NextColumn, IndexRemove
  <2>2. \A d \in Indexed : index'[d] \subseteq index[d]
    BY <1>0, <2>1 DEF IndexFile
  <2>3. KeysPending'
    <3>1. CASE UndoIndex \/ DeleteIndex
      BY <3>1 DEF UndoIndex, DeleteIndex, KeysPending
    <3>2. CASE UpdateUnindex
      <4>1. pc = "updateUnindex" /\ todo' = todo /\ new' = new
        BY <3>2 DEF UpdateUnindex, row
      <4> QED BY <1>0, <2>2, <4>1 DEF KeysPending, Find
    <3> QED BY <1>5, <3>1, <3>2
  <2> QED BY <1>0, <2>1, <2>2, <2>3 DEF Intact
<1>6. CASE Tick \/ UNCHANGED vars
  BY <1>0, <1>6 DEF Tick, vars, store, row, KeysPending, Intact, Find
<1>7. CASE \/ BeginInsert \/ BeginDelete \/ BeginUpdate \/ InsertReject \/ InsertLog
           \/ InsertEnd \/ Undo \/ UndoRow \/ UndoEnd \/ VisitEnd \/ DeleteRow
           \/ DeleteLog \/ UpdateReject \/ UpdateLog
  BY <1>1, <1>7 DEF BeginInsert, BeginDelete, BeginUpdate, InsertReject, InsertLog,
     InsertEnd, Undo, UndoRow, UndoEnd, VisitEnd, DeleteRow, DeleteLog,
     UpdateReject, UpdateLog, Idle, store
<1>8. CASE SkipRid
  BY <1>1, <1>8 DEF SkipRid, store
<1>10. CASE Crash
  <2>1. pc' = "idle" /\ "crash" \in Faults
    BY <1>10, IdleTyped DEF Crash
  <2>2. CASE UNCHANGED <<index, unsure>>
    BY <1>1, <2>1, <2>2
  <2>3. CASE \E c \in Indexed : Tear(c)
    <3>1. PICK c \in Indexed : /\ index' = [index EXCEPT ![c] = {}]
                              /\ unsure' = [unsure EXCEPT ![c] = MaybeValue]
      BY <2>3 DEF Tear
    <3>2. \A d \in Indexed :
             \/ index'[d] = {} /\ unsure'[d] = MaybeValue
             \/ index'[d] = index[d] /\ unsure'[d] = unsure[d]
      BY <1>0, <3>1 DEF IndexFile
    <3> QED BY <1>0, <2>1, <3>2 DEF KeysPending, Intact
  <2> QED BY <1>10, <2>2, <2>3 DEF Crash
<1>9. ~BeginRevert /\ ~Revert
  BY DEF BeginRevert, Revert, RevertDropIndex, RevertBuild, RevertRow, RevertIndex, RevertNext,
     RevertEnd, Unreverted, Reverting
<1> QED BY <1>2, <1>3, <1>4, <1>5, <1>6, <1>7, <1>8, <1>9, <1>10
    DEF Next, Begin, Step, Insert, Rollback, Delete, Update

\* As long as the table is neither reverted nor killed in the middle of a
\* statement, an INDEXED column is unique among the live rows at every step.
THEOREM KeysAlwaysUnique == Spec => []UniqueKeys
<1>1. Init => Inv /\ RowsValid /\ Agreement /\ Unreverted /\ IndexUnique /\ UniqueKeys
  BY InitInv, InitRowsValid, InitAgreement, InitUnique
<1>2. Inv /\ RowsValid /\ Agreement /\ Unreverted /\ IndexUnique /\ UniqueKeys /\ [Next]_vars
      => (Inv /\ RowsValid /\ Agreement /\ Unreverted /\ IndexUnique /\ UniqueKeys)'
  BY NextInv, NextRowsValid, NextAgreement, NextUnreverted, NextIndexUnique, NextUniqueKeys
<1> QED BY <1>1, <1>2, PTL DEF Spec

\* Without REVERT an index that no crash has torn never lists a key twice, and
\* no statement inserts a key that it holds, whatever crashed and when.
THEOREM IndexKeysAlwaysUnique == Spec => []IndexKeysUnique
<1>1. Init => Inv /\ Unreverted /\ IndexUnique
  BY InitInv, InitUnique
<1>2. Inv /\ Unreverted /\ IndexUnique /\ [Next]_vars => (Inv /\ Unreverted /\ IndexUnique)'
  BY NextInv, NextUnreverted, NextIndexUnique
<1>3. IndexUnique => IndexKeysUnique
  BY DEF IndexUnique, IndexKeysUnique
<1> QED BY <1>1, <1>2, <1>3, PTL DEF Spec

-----------------------------------------------------------------------------
(***************************************************************************)
(* INSERT is all or nothing: the proof of InsertAtomic, with crashes and   *)
(* REVERTs in the history.                                                 *)
(*                                                                         *)
(* At the end of a rollback nothing is left of the rows the INSERT took    *)
(* in.  What is inductive is what heap and indexes hold on top of what the *)
(* statement found: the rows taken in and not yet taken out, with entries  *)
(* that were in no index before.  A stale entry a crash left behind is no  *)
(* exception: an INSERT that would have to write it again is refused.  Nor *)
(* is a key its index is not sure of: then none of its entries is known.   *)
(***************************************************************************)
\* the record ids the running INSERT holds
Taken == {done[i] : i \in 1 .. Len(done)} \cup IF pc = "undoIndex" THEN {rid} ELSE {}

\* those of them that index c lists
TakenIn(c) ==
    IF (pc = "insertIndex" /\ c \in todo) \/ (pc = "undoIndex" /\ c \notin todo)
    THEN Taken \ {rid} ELSE Taken

Holding(c, v, r) == r \in TakenIn(c) /\ v = KeyOf[heap[r][c]] /\ v \notin unsure[c]

Tracked == pc \in Inserting =>
    /\ pc = "insertIndex" => rid \in Taken /\ \A c \in todo : Find(c, new[c]) = {}
    /\ \A r \in Rid : before.heap[r] = IF r \in Taken THEN NoRow ELSE heap[r]
    /\ \A c \in Indexed : \A r \in Taken : <<KeyOf[heap[r][c]], r>> \notin before.index[c]
    /\ \A c \in Indexed, v \in MaybeValue, r \in Rid :
          <<v, r>> \in index[c] <=> <<v, r>> \in before.index[c] \/ Holding(c, v, r)

\* the record ids an INSERT holds are slots with a row
LEMMA TakenRows ==
    ASSUME Inv, pc \in Inserting
    PROVE  \A r \in Taken : r \in Rid /\ heap[r] # NoRow /\ heap[r] \in Row
<1>1. \A i \in 1 .. Len(done) : done[i] \in Rid /\ heap[done[i]] # NoRow
  BY ElementOfSeq DEF Inv, TypeOK, StatementType, Undoable
<1>2. pc = "undoIndex" => rid \in Rid /\ heap[rid] \in Row
  BY DEF Inv, RowInFlight, InFlight, HoldsOld
<1> QED BY <1>1, <1>2, ValueAssumption DEF Taken, Inv, TypeOK, HeapType, MaybeRow

\* no INSERT has begun
LEMMA InitTracked == Init => Tracked
BY DEF Init, Tracked, Inserting

\* INSERT begins with nothing of its own
LEMMA BeginInsertTracks == Inv /\ BeginInsert => Tracked'
<1> SUFFICES ASSUME Inv, BeginInsert PROVE Tracked'
  OBVIOUS
<1>1. /\ before' = [heap |-> heap, index |-> index] /\ UNCHANGED <<heap, index, done>>
      /\ pc' = "insert" /\ done = <<>> /\ UNCHANGED unsure
  BY DEF BeginInsert, store, Inv, Undoable, Inserting
<1>2. Taken' = {}
  BY <1>1 DEF Taken
<1> QED BY <1>1, <1>2 DEF Tracked, Holding, TakenIn

\* a row taken in: its slot was empty and its keys are in no index
LEMMA InsertRowTracks == Inv /\ Tracked /\ InsertRow => Tracked'
<1> SUFFICES ASSUME Inv, Tracked, InsertRow PROVE Tracked'
  OBVIOUS
<1> DEFINE x == Complete(Head(input))
<1>1. /\ pc = "insert" /\ pc' = "insertIndex" /\ rid' = Slot /\ todo' = Indexed
      /\ done' = Append(done, Slot) /\ UNCHANGED <<index, unsure, before>> /\ new' = x
      /\ \A c \in Indexed : Find(c, x[c]) = {}
      /\ HeapInsert(x) /\ input # <<>>
  BY DEF InsertRow, ghost, Insertable
<1>2. Slot \in Rid /\ heap[Slot] = NoRow
  <2>1. free = <<>> => fresh < NSlot
    BY <1>1, EmptySeq, BoundAssumption
    DEF Inv, TypeOK, HeapType, StatementType, RoomToInsert
  <2> QED BY <2>1, InsertSlot DEF Inv, TypeOK
<1>3. x \in Row /\ heap' = [heap EXCEPT ![Slot] = x]
  <2>1. Head(input) \in Inputs
    BY <1>1, EmptySeq, HeadTailProperties DEF Inv, TypeOK, StatementType
  <2> QED BY <1>1, <2>1, RowsTyped, InputAssumption DEF HeapInsert
<1> HIDE DEF x
<1>4. Slot \notin Taken
  BY <1>1, <1>2, TakenRows DEF Inserting
<1>5. Taken' = Taken \cup {Slot}
  <2>1. /\ Len(done') = Len(done) + 1 /\ Len(done) \in Nat
        /\ done'[Len(done) + 1] = Slot /\ \A i \in 1 .. Len(done) : done'[i] = done[i]
    BY <1>1, <1>2, LenProperties DEF Inv, TypeOK, StatementType
  <2>2. /\ Taken = {done[i] : i \in 1 .. Len(done)}
        /\ Taken' = {done'[i] : i \in 1 .. Len(done')}
    BY <1>1 DEF Taken
  <2> QED BY <2>1, <2>2
<1>6. \A r \in Taken : r \in Rid /\ r # Slot /\ heap'[r] = heap[r]
  BY <1>1, <1>2, <1>3, <1>4, TakenRows DEF Inserting, Inv, TypeOK, HeapType
<1>7. \A c \in Indexed : TakenIn(c) = Taken /\ TakenIn(c)' = Taken
  <2>1. Taken' \ {Slot} = Taken
    BY <1>4, <1>5
  <2> QED BY <1>1, <2>1 DEF TakenIn
<1>8. heap'[Slot] = x /\ \A r \in Rid \ {Slot} : heap'[r] = heap[r]
  BY <1>2, <1>3 DEF Inv, TypeOK, HeapType
<1>9. \A c \in Indexed : KeyOf[x[c]] \in MaybeValue /\ <<KeyOf[x[c]], Slot>> \notin index[c]
  BY <1>1, <1>3, ColumnTyped DEF Find
<1>10. /\ \A r \in Rid : before.heap[r] = IF r \in Taken THEN NoRow ELSE heap[r]
       /\ \A c \in Indexed : \A r \in Taken : <<KeyOf[heap[r][c]], r>> \notin before.index[c]
       /\ \A c \in Indexed, v \in MaybeValue, r \in Rid :
             <<v, r>> \in index[c] <=> <<v, r>> \in before.index[c] \/ Holding(c, v, r)
  BY <1>1 DEF Tracked, Inserting
<1>11. \A c \in Indexed, v \in MaybeValue, r \in Rid : Holding(c, v, r)' <=> Holding(c, v, r)
  BY <1>1, <1>6, <1>7 DEF Holding
<1>12. \A r \in Rid : before.heap[r] = IF r \in Taken' THEN NoRow ELSE heap'[r]
  BY <1>2, <1>4, <1>5, <1>8, <1>10
<1>13. \A c \in Indexed : \A r \in Taken' : <<KeyOf[heap'[r][c]], r>> \notin before.index[c]
  BY <1>2, <1>5, <1>6, <1>8, <1>9, <1>10
<1>14. before' = before /\ index' = index /\ rid' \in Taken'
  BY <1>1, <1>5
<1>15. \A c \in todo' : Find(c, new[c])' = {}
  BY <1>1 DEF Find
<1> QED BY <1>10, <1>11, <1>12, <1>13, <1>14, <1>15 DEF Tracked

\* one index entry written or taken out for the row in flight
LEMMA IndexWriteTracks == Inv /\ Tracked /\ (InsertIndex \/ UndoIndex) => Tracked'
<1> SUFFICES ASSUME Inv, Tracked, InsertIndex \/ UndoIndex PROVE Tracked'
  OBVIOUS
<1>1. PICK c \in todo :
          /\ todo' = todo \ {c}
          /\ \/ pc = "insertIndex" /\ IndexAdd(c, new[c], rid)
             \/ pc = "undoIndex" /\ IndexRemove(c, old[c], rid)
  BY DEF InsertIndex, UndoIndex, NextColumn
<1>2. UNCHANGED <<heap, pc, done, rid, new, before>> /\ pc \in {"insertIndex", "undoIndex"}
  BY DEF InsertIndex, UndoIndex, regs, ghost
<1>3. /\ c \in Indexed /\ todo \subseteq Indexed /\ index \in IndexFile /\ rid \in Rid
      /\ pc = "insertIndex" => heap[rid] = new
      /\ pc = "undoIndex" => heap[rid] = old
  BY <1>1, <1>2 DEF Inv, TypeOK, IndexType, FlightType, RowInFlight, InFlight, HoldsNew
<1> DEFINE k == KeyOf[heap[rid][c]]
<1>4. /\ \A d \in Indexed \ {c} : index'[d] = index[d]
      /\ unsure' = unsure
      /\ pc = "insertIndex" => \A w, q :
            <<w, q>> \in index'[c] <=> <<w, q>> \in index[c] \/ (w = k /\ q = rid /\ w \notin unsure[c])
      /\ pc = "undoIndex" => \A w, q :
            <<w, q>> \in index'[c] <=> <<w, q>> \in index[c] /\ ~(w = k /\ q = rid)
  <2>1. CASE pc = "insertIndex"
    <3>1. Find(c, new[c]) = {} /\ k = KeyOf[new[c]] /\ IndexAdd(c, new[c], rid)
      BY <1>1, <1>3, <2>1 DEF Tracked, Inserting
    <3>2. \/ /\ k \notin unsure[c] /\ unsure' = unsure
             /\ index' = [index EXCEPT ![c] = @ \cup {<<k, rid>>}]
          \/ k \in unsure[c] /\ index' = index /\ unsure' = unsure
      BY <3>1 DEF IndexAdd, Sure
    <3> QED BY <1>3, <2>1, <3>2 DEF IndexFile
  <2>2. CASE pc = "undoIndex"
    <3>1. index' = [index EXCEPT ![c] = @ \ {<<k, rid>>}] /\ unsure' = unsure
      BY <1>1, <1>3, <2>2 DEF IndexRemove
    <3> QED BY <1>3, <2>2, <3>1 DEF IndexFile
  <2> QED BY <1>2, <2>1, <2>2
<1> HIDE DEF k
<1>5. Taken' = Taken /\ rid \in Taken
  BY <1>2 DEF Taken, Tracked, Inserting
<1>6. /\ \A d \in Indexed \ {c} : TakenIn(d)' = TakenIn(d)
      /\ TakenIn(c)' = IF pc = "insertIndex" THEN Taken ELSE Taken \ {rid}
      /\ TakenIn(c) = IF pc = "insertIndex" THEN Taken \ {rid} ELSE Taken
  BY <1>1, <1>2, <1>5 DEF TakenIn
<1>7. <<k, rid>> \notin before.index[c]
  BY <1>2, <1>3, <1>5 DEF Tracked, Inserting, k
<1>8. \A d \in Indexed, v \in MaybeValue, r \in Rid :
          <<v, r>> \in index[d] <=> <<v, r>> \in before.index[d] \/ Holding(d, v, r)
  BY <1>2 DEF Tracked, Inserting
<1>9. ASSUME NEW d \in Indexed, NEW v \in MaybeValue, NEW r \in Rid
      PROVE  <<v, r>> \in index'[d] <=> <<v, r>> \in before.index[d] \/ Holding(d, v, r)'
  <2>1. CASE d # c
    BY <1>2, <1>4, <1>6, <1>8, <2>1 DEF Holding
  <2>2. CASE d = c /\ pc = "insertIndex"
    <3>1. <<v, r>> \in index'[d]
             <=> <<v, r>> \in index[d] \/ (v = k /\ r = rid /\ v \notin unsure[d])
      BY <1>4, <2>2
    <3>2. Holding(d, v, r)' <=> Holding(d, v, r) \/ (v = k /\ r = rid /\ v \notin unsure[d])
      BY <1>2, <1>4, <1>5, <1>6, <2>2 DEF Holding, k
    <3> QED BY <1>8, <3>1, <3>2
  <2>3. CASE d = c /\ pc = "undoIndex"
    <3>1. <<v, r>> \in index'[d] <=> <<v, r>> \in index[d] /\ ~(v = k /\ r = rid)
      BY <1>4, <2>3
    <3>2. Holding(d, v, r)' <=> Holding(d, v, r) /\ ~(v = k /\ r = rid)
      BY <1>2, <1>4, <1>5, <1>6, <2>3 DEF Holding, k
    <3> QED BY <1>7, <1>8, <2>3, <3>1, <3>2
  <2> QED BY <1>2, <2>1, <2>2, <2>3
<1>10. ASSUME pc = "insertIndex", NEW d \in todo' PROVE Find(d, new[d])' = {}
  <2>1. d \in Indexed \ {c} /\ Find(d, new[d]) = {}
    BY <1>1, <1>3, <1>10 DEF Tracked, Inserting
  <2> QED BY <1>2, <1>4, <2>1 DEF Find
<1> QED BY <1>2, <1>5, <1>9, <1>10 DEF Tracked, Inserting

\* the rollback turns to the next row: it is held until its slot is empty
LEMMA UndoTracks == Inv /\ Tracked /\ Undo => Tracked'
<1> SUFFICES ASSUME Inv, Tracked, Undo PROVE Tracked'
  OBVIOUS
<1>1. /\ pc = "undo" /\ pc' = "undoIndex" /\ todo' = Indexed /\ done # <<>>
      /\ rid' = Head(done) /\ done' = Tail(done) /\ UNCHANGED <<heap, index, unsure, before>>
  BY DEF Undo, store, ghost
<1>2. /\ Len(done) \in Nat \ {0} /\ Head(done) = done[1] /\ Len(done') = Len(done) - 1
      /\ \A i \in 1 .. Len(done') : done'[i] = done[i + 1]
  BY <1>1, EmptySeq, LenProperties, HeadTailProperties DEF Inv, TypeOK, StatementType
<1>3. Taken' = Taken
  <2>1. /\ Taken = {done[i] : i \in 1 .. Len(done)}
        /\ Taken' = {done'[i] : i \in 1 .. Len(done')} \cup {done[1]}
    BY <1>1, <1>2 DEF Taken
  <2>2. ASSUME NEW i \in 1 .. Len(done) PROVE done[i] \in Taken'
    <3>1. i = 1 \/ (i - 1 \in 1 .. Len(done') /\ done'[i - 1] = done[i])
      BY <1>2
    <3> QED BY <2>1, <3>1
  <2>3. ASSUME NEW i \in 1 .. Len(done') PROVE done'[i] \in Taken
    <3>1. i + 1 \in 1 .. Len(done) /\ done'[i] = done[i + 1]
      BY <1>2
    <3> QED BY <2>1, <3>1
  <2>4. done[1] \in Taken
    BY <1>2, <2>1
  <2> QED BY <2>1, <2>2, <2>3, <2>4
<1>4. \A c \in Indexed : TakenIn(c) = Taken /\ TakenIn(c)' = Taken'
  BY <1>1 DEF TakenIn
<1> QED BY <1>1, <1>3, <1>4 DEF Tracked, Inserting, Holding

\* its slot is empty again, as the statement found it
LEMMA UndoRowTracks == Inv /\ Tracked /\ UndoRow => Tracked'
<1> SUFFICES ASSUME Inv, Tracked, UndoRow PROVE Tracked'
  OBVIOUS
<1>1. /\ pc = "undoIndex" /\ pc' = "undo" /\ todo = {} /\ UNCHANGED <<index, unsure, done, before>>
      /\ heap' = [heap EXCEPT ![rid] = NoRow]
  BY DEF UndoRow, HeapDelete, regs
<1>2. rid \in Rid /\ rid \notin {done[i] : i \in 1 .. Len(done)}
  BY <1>1 DEF Inv, RowInFlight, InFlight, Undoable, Inserting
<1>3. rid \in Taken /\ Taken' = Taken \ {rid}
  BY <1>1, <1>2 DEF Taken
<1>4. \A c \in Indexed : TakenIn(c) = Taken' /\ TakenIn(c)' = Taken'
  BY <1>1, <1>3 DEF TakenIn
<1>5. heap'[rid] = NoRow /\ \A r \in Rid \ {rid} : heap'[r] = heap[r]
  BY <1>1, <1>2 DEF Inv, TypeOK, HeapType
<1>6. \A r \in Taken' : r \in Rid /\ r # rid /\ r \in Taken
  BY <1>1, <1>3, TakenRows DEF Inserting
<1>7. before.heap[rid] = NoRow
  BY <1>1, <1>2, <1>3 DEF Tracked, Inserting
<1>8. /\ \A r \in Rid : before.heap[r] = IF r \in Taken THEN NoRow ELSE heap[r]
      /\ \A c \in Indexed : \A r \in Taken : <<KeyOf[heap[r][c]], r>> \notin before.index[c]
      /\ \A c \in Indexed, v \in MaybeValue, r \in Rid :
            <<v, r>> \in index[c] <=> <<v, r>> \in before.index[c] \/ Holding(c, v, r)
  BY <1>1 DEF Tracked, Inserting
<1>9. \A c \in Indexed, v \in MaybeValue, r \in Rid : Holding(c, v, r)' <=> Holding(c, v, r)
  BY <1>1, <1>4, <1>5, <1>6 DEF Holding
<1>10. \A r \in Rid : before.heap[r] = IF r \in Taken' THEN NoRow ELSE heap'[r]
  BY <1>3, <1>5, <1>7, <1>8
<1>11. \A c \in Indexed : \A r \in Taken' : <<KeyOf[heap'[r][c]], r>> \notin before.index[c]
  BY <1>5, <1>6, <1>8
<1>12. before' = before /\ index' = index /\ pc' = "undo"
  BY <1>1
<1> QED BY <1>8, <1>9, <1>10, <1>11, <1>12 DEF Tracked

\* every step keeps track of the rows an INSERT took in
LEMMA NextTracked == Inv /\ Tracked /\ [Next]_vars => Tracked'
<1> SUFFICES ASSUME Inv, Tracked, [Next]_vars PROVE Tracked'
  OBVIOUS
<1>1. CASE BeginInsert \/ InsertRow \/ InsertIndex \/ Undo \/ UndoIndex \/ UndoRow
  BY <1>1, BeginInsertTracks, InsertRowTracks, IndexWriteTracks, UndoTracks, UndoRowTracks
<1>2. CASE InsertReject \/ InsertLog
  <2>1. /\ pc \in {"insert", "insertIndex"} /\ pc' \in {"insert", "undo"}
        /\ pc = "insertIndex" => todo = {}
        /\ UNCHANGED <<heap, index, unsure, done, before>>
    BY <1>2 DEF InsertReject, InsertLog, store, regs, ghost
  <2>2. Taken' = Taken /\ \A c \in Indexed : TakenIn(c) = Taken /\ TakenIn(c)' = Taken'
    BY <2>1 DEF Taken, TakenIn
  <2> QED BY <2>1, <2>2 DEF Tracked, Inserting, Holding
<1>3. CASE Tick \/ UNCHANGED vars
  <2>1. UNCHANGED <<heap, index, unsure, done, before, pc, rid, new, todo>>
    BY <1>3 DEF Tick, vars, store, regs, row, ghost
  <2>2. /\ Taken' = Taken /\ \A c : TakenIn(c)' = TakenIn(c)
        /\ \A c : Find(c, new[c])' = Find(c, new[c])
    BY <2>1 DEF TakenIn, Taken, Find
  <2> QED BY <2>1, <2>2 DEF Tracked, Holding
<1>4. CASE pc' \notin Inserting
  BY <1>4 DEF Tracked
<1>5. CASE BeginDelete \/ BeginUpdate \/ BeginRevert \/ InsertEnd \/ UndoEnd \/ VisitEnd \/ Crash
  BY <1>4, <1>5 DEF BeginDelete, BeginUpdate, BeginRevert, InsertEnd, UndoEnd, VisitEnd, Crash,
     Idle, Inserting
<1>6. CASE Delete \/ Update \/ SkipRid
  BY <1>4, <1>6 DEF Delete, DeleteRow, DeleteIndex, DeleteLog, Update, UpdateRow, UpdateReject,
     UpdateUnindex, UpdateIndex, UpdateLog, SkipRid, Idle, Inserting
<1>7. CASE Revert
  BY <1>4, <1>7 DEF Revert, RevertDropIndex, RevertBuild, RevertRow, RevertIndex, RevertNext,
     RevertEnd, Idle, Inserting
<1> QED BY <1>1, <1>2, <1>3, <1>5, <1>6, <1>7 DEF Next, Begin, Step, Insert, Rollback

\* An INSERT one of whose rows is refused leaves heap and indexes as it found
\* them, whatever crashed or was reverted before it.
THEOREM InsertIsAtomic == Spec => []InsertAtomic
<1>1. Init => Inv /\ Tracked
  BY InitInv, InitTracked
<1>2. Inv /\ Tracked /\ [Next]_vars => (Inv /\ Tracked)'
  BY NextInv, NextTracked
<1>3. Inv /\ Tracked => InsertAtomic
  <2> SUFFICES ASSUME Inv, Tracked, pc = "undo", done = <<>>
               PROVE  before = [heap |-> heap, index |-> index]
    BY DEF InsertAtomic
  <2>1. /\ heap \in [Rid -> MaybeRow] /\ index \in [Indexed -> SUBSET (MaybeValue \X Rid)]
        /\ before \in [heap : [Rid -> MaybeRow], index : [Indexed -> SUBSET (MaybeValue \X Rid)]]
    BY DEF Inv, TypeOK, HeapType, HistoryType, IndexType, IndexFile
  <2>2. Taken = {} /\ \A c \in Indexed : TakenIn(c) = {}
    BY DEF Taken, TakenIn
  <2>3. /\ \A r \in Rid : heap[r] = before.heap[r]
        /\ \A c \in Indexed, v \in MaybeValue, r \in Rid :
              <<v, r>> \in index[c] <=> <<v, r>> \in before.index[c]
    BY <2>2 DEF Tracked, Inserting, Holding
  <2>4. heap = before.heap
    BY <2>1, <2>3
  <2>5. ASSUME NEW c \in Indexed PROVE index[c] = before.index[c]
    <3>1. \A e \in MaybeValue \X Rid : e \in index[c] <=> e \in before.index[c]
      BY <2>3
    <3> QED BY <2>1, <3>1
  <2>6. index = before.index
    BY <2>1, <2>5
  <2> QED BY <2>1, <2>4, <2>6
<1> QED BY <1>1, <1>2, <1>3, PTL DEF Spec

------------------------------------------------------------------------------

(***************************************************************************)
(* REVERT restores the past: the proof of RevertRestores.                  *)
(*                                                                         *)
(* What is inductive is what heap and target hold together while the table *)
(* is rebuilt: row by row as many as the table had at the time gone back   *)
(* to, which the history keeps as it was because that time is over.        *)
(***************************************************************************)
\* the record ids of f that hold row x
WithRow(f, x) == {r \in Rid : f[r] = x}

Restoring == pc \in Reverting /\ cut < horizon =>
    /\ cut <= now
    /\ \A x \in Row :
          Cardinality(WithRow(heap, x)) + Cardinality(WithRow(target, x))
              = Cardinality(WithRow(past[cut], x))

\* any set of record ids can be counted
LEMMA RidsFinite ==
    ASSUME NEW S \in SUBSET Rid
    PROVE  IsFiniteSet(S) /\ Cardinality(S) \in Nat
<1>1. IsFiniteSet(Rid)
  BY FS_Interval, BoundAssumption DEF Rid
<1> QED BY <1>1, FS_Subset, FS_CardinalityType

\* a log can be replayed in one way only
LEMMA ReplayIs ==
    ASSUME NEW log \in Seq(LogLine), NEW t, NEW f \in [Rid -> MaybeRow],
           \A r \in Rid : Replays(log, t, r, f[r])
    PROVE  Replay(log, t) = f
<1> SUFFICES ASSUME NEW r \in Rid PROVE (CHOOSE x \in MaybeRow : Replays(log, t, r, x)) = f[r]
  BY DEF Replay
<1>1. ASSUME NEW x, Replays(log, t, r, x) PROVE x = f[r]
  <2>1. \A i \in Lines(log, t, r) : i \in Nat
    BY DEF Lines
  <2>2. CASE Lines(log, t, r) = {}
    BY <1>1, <2>2 DEF Replays
  <2>3. CASE Lines(log, t, r) # {}
    <3>1. PICK i \in Lines(log, t, r) :
              x = log[i].row /\ \A j \in Lines(log, t, r) : j <= i
      BY <1>1, <2>3 DEF Replays
    <3>2. PICK k \in Lines(log, t, r) :
              f[r] = log[k].row /\ \A j \in Lines(log, t, r) : j <= k
      BY <2>3 DEF Replays
    <3>3. i = k
      BY <2>1, <3>1, <3>2
    <3> QED BY <3>1, <3>2, <3>3
  <2> QED BY <2>2, <2>3
<1>2. f[r] \in MaybeRow /\ Replays(log, t, r, f[r])
  OBVIOUS
<1> QED BY <1>1, <1>2

\* REVERT begins with the rows of the time it goes back to, all of them to put back
LEMMA BeginRevertRestores == Inv /\ History /\ BeginRevert => Restoring'
<1> SUFFICES ASSUME Inv, History, BeginRevert, cut' < horizon'
             PROVE  /\ cut' <= now'
                    /\ \A x \in Row :
                          Cardinality(WithRow(heap', x)) + Cardinality(WithRow(target', x))
                              = Cardinality(WithRow(past'[cut'], x))
  BY DEF Restoring, WithRow
<1>1. /\ cut' \in 0 .. now /\ target' = Replay(wal, cut') /\ heap' = [r \in Rid |-> NoRow]
      /\ horizon' = (IF now < horizon THEN now ELSE horizon)
      /\ UNCHANGED <<wal, now, past>>
  BY DEF BeginRevert
<1>2. /\ now \in Nat /\ horizon \in Nat /\ now \in Time
      /\ past \in [Time -> [Rid -> MaybeRow]] /\ wal \in Seq(LogLine)
  BY BoundAssumption DEF Inv, TypeOK, LogType, HistoryType, Time, Never
<1>3. cut' \in Nat /\ cut' <= now /\ cut' < horizon /\ cut' \in Time
  BY <1>1, <1>2, BoundAssumption DEF Time
<1>4. past[cut'] \in [Rid -> MaybeRow] /\ \A r \in Rid : Replays(wal, cut', r, past[cut'][r])
  BY <1>1, <1>2, <1>3 DEF History, TimeTravel
<1>5. target' = past'[cut']
  BY <1>1, <1>2, <1>4, ReplayIs
<1>6. ASSUME NEW x \in Row
      PROVE  Cardinality(WithRow(heap', x)) + Cardinality(WithRow(target', x))
                 = Cardinality(WithRow(past'[cut'], x))
  <2>1. WithRow(heap', x) = {}
    BY <1>1, ValueAssumption DEF WithRow
  <2>2. Cardinality(WithRow(heap', x)) = 0
    BY <2>1, FS_EmptySet
  <2>3. Cardinality(WithRow(target', x)) \in Nat
    BY RidsFinite DEF WithRow
  <2> QED BY <1>5, <2>2, <2>3
<1> QED BY <1>1, <1>3, <1>6

\* REVERT moves one row from those to put back into the heap
LEMMA RevertRowRestores == Inv /\ Restoring /\ RevertRow => Restoring'
<1> SUFFICES ASSUME Inv, Restoring, RevertRow, cut' < horizon'
             PROVE  /\ cut' <= now'
                    /\ \A x \in Row :
                          Cardinality(WithRow(heap', x)) + Cardinality(WithRow(target', x))
                              = Cardinality(WithRow(past'[cut'], x))
  BY DEF Restoring, WithRow
<1>1. PICK r \in Rid : /\ target[r] # NoRow /\ \A q \in Rid : target[q] # NoRow => r <= q
                       /\ HeapInsert(target[r])
                       /\ target' = [target EXCEPT ![r] = NoRow]
  BY DEF RevertRow
<1>2. pc = "revert" /\ UNCHANGED <<now, past, horizon, cut>>
  BY DEF RevertRow, ghost
<1>3. /\ cut <= now
      /\ \A x \in Row :
            Cardinality(WithRow(heap, x)) + Cardinality(WithRow(target, x))
                = Cardinality(WithRow(past[cut], x))
  BY <1>2 DEF Restoring, Reverting
<1>4. Slot \in Rid /\ heap[Slot] = NoRow
  <2>1. free = <<>> /\ fresh <= r
    BY <1>1, <1>2 DEF Inv, Rebuilding, Reverting
  <2>2. fresh < NSlot
    BY <2>1, BoundAssumption DEF Rid, Inv, TypeOK, HeapType
  <2> QED BY <2>2, InsertSlot DEF Inv, TypeOK
<1>5. /\ heap \in [Rid -> MaybeRow] /\ target \in [Rid -> MaybeRow]
      /\ heap' = [heap EXCEPT ![Slot] = target[r]]
  BY <1>1 DEF HeapInsert, Inv, TypeOK, HeapType, StatementType
<1>6. ASSUME NEW x \in Row
      PROVE  Cardinality(WithRow(heap', x)) + Cardinality(WithRow(target', x))
                 = Cardinality(WithRow(past'[cut'], x))
  <2>1. x # NoRow
    BY ValueAssumption
  <2>2. CASE target[r] = x
    <3>1. WithRow(heap', x) = WithRow(heap, x) \cup {Slot} /\ Slot \notin WithRow(heap, x)
      BY <1>4, <1>5, <2>1, <2>2 DEF WithRow
    <3>2. WithRow(target', x) = WithRow(target, x) \ {r} /\ r \in WithRow(target, x)
      BY <1>1, <1>5, <2>1, <2>2 DEF WithRow
    <3>3. /\ IsFiniteSet(WithRow(heap, x)) /\ Cardinality(WithRow(heap, x)) \in Nat
          /\ IsFiniteSet(WithRow(target, x)) /\ Cardinality(WithRow(target, x)) \in Nat
      BY RidsFinite DEF WithRow
    <3>4. /\ Cardinality(WithRow(heap', x)) = Cardinality(WithRow(heap, x)) + 1
          /\ Cardinality(WithRow(target', x)) = Cardinality(WithRow(target, x)) - 1
      <4>1. Cardinality(WithRow(heap, x) \cup {Slot}) = Cardinality(WithRow(heap, x)) + 1
        BY <3>1, <3>3, FS_AddElement
      <4>2. Cardinality(WithRow(target, x) \ {r}) = Cardinality(WithRow(target, x)) - 1
        BY <3>2, <3>3, FS_RemoveElement
      <4> QED BY <3>1, <3>2, <4>1, <4>2
    <3> QED BY <1>2, <1>3, <3>3, <3>4
  <2>3. CASE target[r] # x
    <3>1. WithRow(heap', x) = WithRow(heap, x)
      BY <1>4, <1>5, <2>1, <2>3 DEF WithRow
    <3>2. WithRow(target', x) = WithRow(target, x)
      BY <1>1, <1>5, <2>1, <2>3 DEF WithRow
    <3> QED BY <1>2, <1>3, <3>1, <3>2
  <2> QED BY <2>2, <2>3
<1> QED BY <1>2, <1>3, <1>6

\* every step keeps count of the rows to restore
LEMMA NextRestoring == Inv /\ History /\ Restoring /\ [Next]_vars => Restoring'
<1> SUFFICES ASSUME Inv, History, Restoring, [Next]_vars PROVE Restoring'
  OBVIOUS
<1>1. CASE BeginRevert \/ RevertRow
  BY <1>1, BeginRevertRestores, RevertRowRestores
<1>2. CASE RevertDropIndex \/ RevertBuild \/ RevertIndex \/ RevertNext \/ UNCHANGED vars
  <2>1. UNCHANGED <<heap, target, now, past, horizon, cut>>
    BY <1>2 DEF RevertDropIndex, RevertBuild, RevertIndex, RevertNext, vars, store, regs, ghost
  <2>2. pc' \in Reverting => pc \in Reverting
    BY <1>2 DEF RevertDropIndex, RevertBuild, RevertIndex, RevertNext, vars, Reverting
  <2> QED BY <2>1, <2>2 DEF Restoring, WithRow
<1>3. CASE Tick
  <2>1. /\ now' = now + 1 /\ past' = [past EXCEPT ![now + 1] = past[now]]
        /\ UNCHANGED <<heap, target, pc, horizon, cut>>
    BY <1>3 DEF Tick, store, regs
  <2>2. now \in Nat /\ cut \in Nat /\ cut \in Time /\ past \in [Time -> [Rid -> MaybeRow]]
    BY BoundAssumption DEF Inv, TypeOK, LogType, HistoryType, Time
  <2>3. cut <= now => cut <= now' /\ past'[cut] = past[cut]
    BY <2>1, <2>2
  <2> QED BY <2>1, <2>3 DEF Restoring, WithRow
<1>4. CASE pc' \notin Reverting
  BY <1>4 DEF Restoring
<1>5. CASE BeginInsert \/ BeginDelete \/ BeginUpdate \/ VisitEnd \/ SkipRid \/ Crash \/ RevertEnd
  BY <1>4, <1>5 DEF BeginInsert, BeginDelete, BeginUpdate, VisitEnd, SkipRid, Crash, RevertEnd,
     Idle, Reverting
<1>6. CASE Insert \/ Rollback
  BY <1>4, <1>6 DEF Insert, InsertRow, InsertReject, InsertIndex, InsertLog, InsertEnd,
     Rollback, Undo, UndoIndex, UndoRow, UndoEnd, Idle, Reverting
<1>7. CASE Delete \/ Update
  BY <1>4, <1>7 DEF Delete, DeleteRow, DeleteIndex, DeleteLog, Update, UpdateRow, UpdateReject,
     UpdateUnindex, UpdateIndex, UpdateLog, Idle, Reverting
<1> QED BY <1>1, <1>2, <1>3, <1>5, <1>6, <1>7 DEF Next, Begin, Step, Revert

\* A REVERT that has put its last row back has restored the rows of the time it
\* was asked for, each as often as the table had it, provided that the log
\* still told that time.
THEOREM RevertRestoresThePast == Spec => []RevertRestores
<1>1. Init => Inv /\ History /\ Restoring
  BY InitInv, InitHistory DEF Init, Restoring, Reverting
<1>2. Inv /\ History /\ Restoring /\ [Next]_vars => (Inv /\ History /\ Restoring)'
  BY NextInv, NextHistory, NextRestoring
<1>3. Inv /\ Restoring => RevertRestores
  <2> SUFFICES ASSUME Inv, Restoring, pc = "revert", \A r \in Rid : target[r] = NoRow,
                      cut < horizon, NEW x \in Row
               PROVE  Cardinality(WithRow(heap, x)) = Cardinality(WithRow(past[cut], x))
    BY DEF RevertRestores, SameRows, WithRow
  <2>1. WithRow(target, x) = {}
    BY ValueAssumption DEF WithRow
  <2>2. Cardinality(WithRow(target, x)) = 0 /\ Cardinality(WithRow(heap, x)) \in Nat
    BY <2>1, FS_EmptySet, RidsFinite DEF WithRow
  <2> QED BY <2>2 DEF Restoring, Reverting
<1> QED BY <1>1, <1>2, <1>3, PTL DEF Spec

------------------------------------------------------------------------------

(***************************************************************************)
(* What a failure can cost: the proof of LossBounded, without REVERT.      *)
(*                                                                         *)
(* LossBounded speaks of a table at rest.  What is inductive counts, at    *)
(* every step, the record ids Off whose row the log does not replay to, or *)
(* that an index lists otherwise than it must; the row in flight is        *)
(* excused from the log, and its indexes from the writes still to come.    *)
(* Only a crash and the rollback of a row put a record id among them, and  *)
(* the row in flight is the only one they can put there: the index a crash *)
(* tears is unsure of every key, and then lists nothing otherwise than it  *)
(* must.  Those indexes are counted apart (TornBounded).                   *)
(***************************************************************************)
\* the log tells the row of r, or will before its statement goes on
Accounted(r) == (InFlight /\ r = rid) \/ Replays(wal, now, r, heap[r])

Off == {r \in Rid : ~Accounted(r) \/ \E c \in Indexed : ~InStep(c, r)}

TornIndexes == {c \in Indexed : Torn(c)}

TornBounded == IsFiniteSet(TornIndexes) /\ Cardinality(TornIndexes) <= unlogged

Bounded == "revert" \notin Faults => Cardinality(Off) <= unlogged /\ TornBounded

\* no step of a statement without REVERT leaves a row the log does not account
\* for, but the rollback of a row
LEMMA NextAccounted ==
    ASSUME Inv, History, [Next]_vars, pc \notin Reverting, ~BeginRevert, ~Crash, ~UndoRow,
           NEW r \in Rid, Accounted(r)
    PROVE  Accounted(r)'
<1>1. CASE UNCHANGED <<heap, wal, now>> /\ (InFlight => InFlight' /\ rid' = rid)
  BY <1>1 DEF Accounted
<1>2. CASE /\ UNCHANGED <<wal, now>> /\ ~InFlight /\ InFlight'
           /\ \A q \in Rid \ {rid'} : heap'[q] = heap[q]
  BY <1>2 DEF Accounted
<1>3. CASE BeginInsert \/ BeginDelete \/ BeginUpdate \/ InsertReject \/ SkipRid
  <2>1. UNCHANGED <<heap, wal, now>>
    BY <1>3 DEF BeginInsert, BeginDelete, BeginUpdate, InsertReject, SkipRid, store
  <2>2. ~InFlight
    BY <1>3 DEF BeginInsert, BeginDelete, BeginUpdate, InsertReject, SkipRid, InFlight
  <2> QED BY <1>1, <2>1, <2>2
<1>4. CASE InsertEnd \/ UndoEnd \/ VisitEnd \/ UpdateReject
  <2>1. UNCHANGED <<heap, wal, now>> /\ ~InFlight
    BY <1>4 DEF InsertEnd, UndoEnd, VisitEnd, UpdateReject, store, InFlight
  <2> QED BY <1>1, <2>1
<1>5. CASE InsertIndex \/ UndoIndex \/ DeleteIndex \/ UpdateUnindex \/ UpdateIndex \/ UNCHANGED vars
  <2>1. UNCHANGED <<heap, wal, now, rid>>
    BY <1>5 DEF InsertIndex, UndoIndex, DeleteIndex, UpdateUnindex, UpdateIndex, vars, store, row
  <2>2. InFlight => InFlight'
    BY <1>5 DEF InsertIndex, UndoIndex, DeleteIndex, UpdateUnindex, UpdateIndex, vars, InFlight
  <2> QED BY <1>1, <2>1, <2>2
<1>6. CASE InsertRow
  <2>1. /\ heap' = [heap EXCEPT ![Slot] = new'] /\ rid' = Slot /\ UNCHANGED <<wal, now>>
        /\ ~InFlight /\ InFlight'
    BY <1>6 DEF InsertRow, HeapInsert, InFlight
  <2> QED BY <1>2, <2>1 DEF Inv, TypeOK, HeapType
<1>7. CASE Undo
  <2>1. UNCHANGED <<heap, wal, now>> /\ ~InFlight
    BY <1>7 DEF Undo, store, InFlight
  <2> QED BY <1>1, <2>1
<1>8. CASE DeleteRow
  <2>1. PICK q \in rids : HeapDelete(q) /\ rid' = q
    BY <1>8 DEF DeleteRow
  <2>2. UNCHANGED <<wal, now>> /\ ~InFlight /\ InFlight' /\ heap' = [heap EXCEPT ![rid'] = NoRow]
    BY <1>8, <2>1 DEF DeleteRow, HeapDelete, InFlight
  <2> QED BY <1>2, <2>2 DEF Inv, TypeOK, HeapType
<1>9. CASE UpdateRow
  <2>1. PICK q \in rids : heap' = [heap EXCEPT ![q] = new'] /\ rid' = q
    BY <1>9 DEF UpdateRow
  <2>2. UNCHANGED <<wal, now>> /\ ~InFlight /\ InFlight'
    BY <1>9 DEF UpdateRow, InFlight
  <2> QED BY <1>2, <2>1, <2>2 DEF Inv, TypeOK, HeapType
<1>10. CASE InsertLog \/ UpdateLog \/ DeleteLog
  <2>1. /\ InFlight /\ rid \in Rid /\ UNCHANGED <<heap, now>>
        /\ AppendWal(rid, heap[rid])
    BY <1>10 DEF InsertLog, UpdateLog, DeleteLog, store, InFlight, Inv, RowInFlight, HoldsNew
  <2> DEFINE e == [ts |-> now, rid |-> rid, row |-> heap[rid]]
  <2>2. now \in Time /\ now <= now /\ heap[rid] \in MaybeRow /\ wal \in Seq(LogLine)
    BY <2>1, BoundAssumption DEF Inv, TypeOK, HeapType, IndexType, LogType, Time
  <2>3. e \in LogLine /\ wal' = Append(wal, e)
    BY <2>1, <2>2 DEF LogLine, AppendWal
  <2>4. e.rid = rid /\ e.ts = now /\ e.row = heap[rid]
    OBVIOUS
  <2> HIDE DEF e
  <2>5. CASE r = rid
    BY <2>1, <2>2, <2>3, <2>4, <2>5, AppendReplays DEF Accounted
  <2>6. CASE r # rid
    <3>1. Replays(wal, now, r, heap[r])
      BY <2>6 DEF Accounted
    <3> QED BY <2>1, <2>2, <2>3, <2>4, <2>6, <3>1, AppendReplays DEF Accounted
  <2> QED BY <2>5, <2>6
<1>11. CASE Tick
  <2>1. now' = now + 1 /\ UNCHANGED <<heap, wal, pc, rid>>
    BY <1>11 DEF Tick, store, row
  <2>2. \A x : Replays(wal, now, r, x) => Replays(wal, now + 1, r, x)
    BY NoLaterLines DEF Replays
  <2> QED BY <2>1, <2>2 DEF Accounted, InFlight
<1>12. ~Revert
  BY DEF Revert, RevertDropIndex, RevertBuild, RevertRow, RevertIndex, RevertNext, RevertEnd,
     Reverting
<1> QED BY <1>3, <1>4, <1>5, <1>6, <1>7, <1>8, <1>9, <1>10, <1>11, <1>12
    DEF Next, Begin, Step, Insert, Rollback, Delete, Update

\* every unlogged change is counted, and nothing else
LEMMA UnloggedCounts ==
    ASSUME [Next]_vars, ~Crash, ~UndoRow
    PROVE  unlogged' = unlogged
<1>1. CASE Begin \/ SkipRid \/ VisitEnd \/ Tick \/ UNCHANGED vars
  BY <1>1 DEF Begin, BeginInsert, BeginDelete, BeginUpdate, BeginRevert, SkipRid, VisitEnd, Tick,
     vars, ghost
<1>2. CASE Insert \/ Rollback
  BY <1>2 DEF Insert, InsertRow, InsertReject, InsertIndex, InsertLog, InsertEnd,
     Rollback, Undo, UndoIndex, UndoEnd, ghost
<1>3. CASE Delete \/ Update
  BY <1>3 DEF Delete, DeleteRow, DeleteIndex, DeleteLog, Update, UpdateRow, UpdateReject,
     UpdateUnindex, UpdateIndex, UpdateLog, ghost
<1>4. CASE Revert
  BY <1>4 DEF Revert, RevertDropIndex, RevertBuild, RevertRow, RevertIndex, RevertNext,
     RevertEnd, ghost
<1> QED BY <1>1, <1>2, <1>3, <1>4 DEF Next, Step

\* a crash and the rollback of a row cost at most the row in flight
LEMMA FailureCostsOne ==
    ASSUME Inv, RowsValid, Crash \/ UndoRow, pc \notin Reverting
    PROVE  /\ Off' \subseteq Off \cup {rid}
           /\ \E d : TornIndexes' \subseteq TornIndexes \cup {d}
<1>1. IndexType
  BY DEF Inv, TypeOK
<1>2. PICK d : UNCHANGED <<index, unsure>> \/ (d \in Indexed /\ Tear(d))
  <2>1. CASE Crash
    BY <2>1 DEF Crash
  <2>2. CASE UndoRow
    BY <2>2 DEF UndoRow
  <2> QED BY <2>1, <2>2
<1>3. /\ \A c \in Indexed \ {d} : index'[c] = index[c] /\ unsure'[c] = unsure[c]
      /\ d \in Indexed => \/ (index'[d] = index[d] /\ unsure'[d] = unsure[d])
                           \/ unsure'[d] = MaybeValue
  BY <1>1, <1>2 DEF Tear, IndexType, IndexFile
<1>4. TornIndexes' \subseteq TornIndexes \cup {d}
  BY <1>3 DEF TornIndexes, Torn
<1>5. ASSUME NEW r \in Rid, r # rid, r \notin Off PROVE r \notin Off'
  <2>1. Accounted(r) /\ \A c \in Indexed : InStep(c, r)
    BY <1>5 DEF Off
  <2>2. /\ UNCHANGED <<wal, now>> /\ ~InFlight' /\ pc' # "revertDrop"
        /\ heap'[r] = heap[r]
    <3>1. CASE Crash
      BY <3>1 DEF Crash, Idle, InFlight
    <3>2. CASE UndoRow
      BY <1>5, <3>2 DEF UndoRow, HeapDelete, InFlight, Inv, TypeOK, HeapType
    <3> QED BY <3>1, <3>2
  <2>3. Accounted(r)'
    BY <1>5, <2>1, <2>2 DEF Accounted
  <2>4. ASSUME NEW c \in Indexed PROVE InStep(c, r)'
    <3>1. Listed(c, r)
      BY <2>1 DEF InStep, Reverting
    <3>2. Keys(c, r)' = Keys(c, r)
      BY <1>5, <2>2 DEF Keys
    <3>3. CASE index'[c] = index[c] /\ unsure'[c] = unsure[c]
      BY <3>1, <3>2, <3>3 DEF InStep, Listed
    <3>4. CASE unsure'[c] = MaybeValue
      BY <3>4 DEF InStep, Listed
    <3> QED BY <1>3, <3>3, <3>4
  <2> QED BY <2>3, <2>4 DEF Off
<1> QED BY <1>4, <1>5 DEF Off

\* nothing but a crash makes an index unsure of a key: a statement writes none
\* that it holds
LEMMA UnsureKept ==
    ASSUME Inv, KeysPending, [Next]_vars, pc \notin Reverting, ~BeginRevert, ~Crash
    PROVE  unsure' = unsure
<1>1. CASE BeginInsert \/ BeginDelete \/ BeginUpdate \/ SkipRid \/ VisitEnd \/ Tick \/ UNCHANGED vars
  BY <1>1 DEF BeginInsert, BeginDelete, BeginUpdate, SkipRid, VisitEnd, Tick, vars, store
<1>2. CASE InsertRow \/ InsertReject \/ InsertLog \/ InsertEnd \/ Rollback
  BY <1>2 DEF InsertRow, InsertReject, InsertLog, InsertEnd, Rollback, Undo, UndoIndex, UndoRow,
     UndoEnd, IndexRemove, store
<1>3. CASE Delete \/ UpdateRow \/ UpdateReject \/ UpdateUnindex \/ UpdateLog
  BY <1>3 DEF Delete, DeleteRow, DeleteIndex, DeleteLog, UpdateRow, UpdateReject, UpdateUnindex,
     UpdateLog, IndexRemove, store
<1>4. CASE InsertIndex \/ UpdateIndex
  <2>1. PICK c \in todo : IndexAdd(c, new[c], rid)
    BY <1>4 DEF InsertIndex, UpdateIndex, NextColumn
  <2>2. Find(c, new[c]) = {}
    BY <1>4 DEF InsertIndex, UpdateIndex, KeysPending
  <2> QED BY <2>1, <2>2 DEF IndexAdd
<1>5. ~Revert
  BY DEF Revert, RevertDropIndex, RevertBuild, RevertRow, RevertIndex, RevertNext, RevertEnd,
     Reverting
<1> QED BY <1>1, <1>2, <1>3, <1>4, <1>5 DEF Next, Begin, Step, Insert, Update

\* every step keeps the loss within the failures
LEMMA NextBounded ==
    Inv /\ History /\ RowsValid /\ Unreverted /\ IndexUnique /\ Bounded /\ [Next]_vars => Bounded'
<1> SUFFICES ASSUME Inv, History, RowsValid, Unreverted, IndexUnique, Bounded, [Next]_vars,
                    "revert" \notin Faults
             PROVE  Cardinality(Off') <= unlogged' /\ TornBounded'
  BY DEF Bounded, Off
<1>1. pc \notin Reverting /\ ~BeginRevert
  BY DEF Unreverted, BeginRevert
<1>2. /\ IsFiniteSet(Off) /\ Cardinality(Off) \in Nat
      /\ IsFiniteSet(Off') /\ Cardinality(Off') \in Nat
  BY RidsFinite DEF Off
<1>3. /\ Cardinality(Off) <= unlogged /\ unlogged \in Nat
      /\ IsFiniteSet(TornIndexes) /\ Cardinality(TornIndexes) <= unlogged
  BY DEF Bounded, TornBounded, Inv, TypeOK, HistoryType
<1>4. CASE Crash \/ UndoRow
  <2>1. unlogged' = unlogged + 1
    BY <1>4 DEF Crash, UndoRow
  <2>2. PICK d : Off' \subseteq Off \cup {rid} /\ TornIndexes' \subseteq TornIndexes \cup {d}
    BY <1>1, <1>4, FailureCostsOne
  <2>3. ASSUME NEW S, NEW T, NEW x, IsFiniteSet(S), Cardinality(S) <= unlogged, T \subseteq S \cup {x}
        PROVE  IsFiniteSet(T) /\ Cardinality(T) <= unlogged'
    <3>0. Cardinality(S) \in Nat
      BY <2>3, FS_CardinalityType
    <3>1. IsFiniteSet(S \cup {x}) /\ Cardinality(S \cup {x}) <= Cardinality(S) + 1
      BY <2>3, <3>0, FS_AddElement
    <3>2. IsFiniteSet(T) /\ Cardinality(T) <= Cardinality(S \cup {x})
      BY <2>3, <3>1, FS_Subset
    <3>3. Cardinality(S \cup {x}) \in Nat /\ Cardinality(T) \in Nat /\ Cardinality(S) \in Nat
      BY <3>0, <3>1, <3>2, FS_CardinalityType
    <3> QED BY <1>3, <2>1, <2>3, <3>1, <3>2, <3>3
  <2> QED BY <1>2, <1>3, <2>2, <2>3 DEF TornBounded
<1>5. CASE ~Crash /\ ~UndoRow
  <2>1. Off' \subseteq Off
    <3> SUFFICES ASSUME NEW r \in Rid, r \notin Off PROVE r \notin Off'
      BY DEF Off
    <3>1. Accounted(r)'
      BY <1>1, <1>5, NextAccounted DEF Off
    <3>2. \A c \in Indexed : InStep(c, r)'
      BY <1>5, NextInStep DEF Off
    <3> QED BY <3>1, <3>2 DEF Off
  <2>2. Cardinality(Off') <= Cardinality(Off)
    BY <1>2, <2>1, FS_Subset
  <2>3. unlogged' = unlogged
    BY <1>1, <1>5, UnloggedCounts
  <2>4. TornIndexes' = TornIndexes
    BY <1>1, <1>5, UnsureKept DEF IndexUnique, TornIndexes, Torn
  <2> QED BY <1>2, <1>3, <2>2, <2>3, <2>4 DEF TornBounded
<1> QED BY <1>4, <1>5

\* At rest and without REVERT, however often the process died and INSERTs were
\* rolled back, the rows the log does not replay to and the rows that an index
\* no crash has torn lists wrongly are together no more than the crashes and
\* rolled back rows, and so are the indexes that crashes have torn.
THEOREM LossAlwaysBounded == Spec => []LossBounded
<1> DEFINE Loss == Inv /\ History /\ RowsValid /\ Unreverted /\ IndexUnique /\ Bounded
<1>1. Init => Loss
  <2> SUFFICES ASSUME Init PROVE Bounded
    BY InitInv, InitHistory, InitRowsValid, InitUnique
  <2>1. Off = {}
    <3> SUFFICES ASSUME NEW r \in Rid PROVE r \notin Off
      BY DEF Off
    <3>1. Replays(wal, now, r, heap[r])
      BY DEF Init, Replays, Lines
    <3>2. \A c \in Indexed : Listed(c, r)
      BY DEF Init, Listed, Keys, InFlight
    <3> QED BY <3>1, <3>2 DEF Off, Accounted, InStep
  <2>2. TornIndexes = {}
    BY DEF Init, TornIndexes, Torn, MaybeValue
  <2> QED BY <2>1, <2>2, FS_EmptySet DEF Init, Bounded, TornBounded
<1>2. Loss /\ [Next]_vars => Loss'
  BY NextInv, NextHistory, NextRowsValid, NextUnreverted, NextIndexUnique, NextBounded
<1>3. Loss => LossBounded
  <2> SUFFICES ASSUME Inv, IndexUnique, Bounded, pc = "idle", "revert" \notin Faults
               PROVE  Cardinality(OutOfStep) <= unlogged
    BY DEF LossBounded, Bounded, TornBounded, TornIndexes
  <2>1. OutOfStep \subseteq Off
    <3> SUFFICES ASSUME NEW r \in Rid, r \notin Off PROVE r \notin OutOfStep
      BY DEF OutOfStep
    <3>1. Replays(wal, now, r, heap[r])
      BY DEF Off, Accounted, InFlight
    <3>2. ASSUME NEW c \in Indexed, ~Torn(c)
          PROVE  {e \in index[c] : e[2] = r}
                     = IF r \in Live THEN {<<KeyOf[heap[r][c]], r>>} ELSE {}
      <4>1. index[c] \subseteq MaybeValue \X Rid /\ unsure[c] = {}
        BY <3>2 DEF Inv, TypeOK, IndexType, IndexFile, IndexUnique, IndexKeysUnique
      <4>2. \A v \in MaybeValue :
                <<v, r>> \in index[c] <=> heap[r] # NoRow /\ v = KeyOf[heap[r][c]]
        BY <4>1 DEF Off, InStep, Listed, Keys, InFlight
      <4>3. heap[r] # NoRow => KeyOf[heap[r][c]] \in MaybeValue
        BY ColumnTyped DEF Inv, TypeOK, HeapType, MaybeRow
      <4>4. \A e \in MaybeValue \X Rid :
                e \in index[c] /\ e[2] = r <=> r \in Live /\ e = <<KeyOf[heap[r][c]], r>>
        BY <4>2 DEF Live
      <4> QED BY <4>1, <4>3, <4>4 DEF Live
    <3> QED BY <3>1, <3>2 DEF OutOfStep
  <2>2. Cardinality(OutOfStep) <= Cardinality(Off)
    BY <2>1, RidsFinite, FS_Subset DEF Off
  <2>3. Cardinality(Off) \in Nat /\ Cardinality(OutOfStep) \in Nat /\ unlogged \in Nat
    BY RidsFinite DEF Off, OutOfStep, Inv, TypeOK, HistoryType
  <2> QED BY <2>2, <2>3 DEF Bounded
<1> QED BY <1>1, <1>2, <1>3, PTL DEF Spec

(***************************************************************************)
(* What WHERE selects through an index, for any table, rows, constants and *)
(* statements before it: between statements an index lists the keys of the *)
(* rows it should (IndexesAlwaysAgree), those aside that it is unsure of.  *)
(* The rows it would list if it were sure of all are Reached, which is     *)
(* what MatchingRecords Selects (ReachedSelected).  Every row has passed   *)
(* validateRow (RowsValid), so that a half-open range of keys can be read  *)
(* as a condition on the rows (IntLookup, StringLookup), comparison by     *)
(* comparison.                                                             *)
(***************************************************************************)
\* integers are their own keys, and keys of integers are ordered as they are
LEMMA IntegerKeys ==
    \A v \in Integer64 :
        /\ v = <<"INT", v[2]>> /\ v[2] \in MinInt .. MaxInt /\ v # NULL
        /\ IsInt(v) /\ Rank(v) = 1 /\ Cut(v) = v
        /\ \A w \in Integer64 : /\ KeyLess(v, w) <=> v[2] < w[2]
                                /\ v = w <=> v[2] = w[2]
                                /\ SameType(v, w)
<1> SUFFICES ASSUME NEW v \in Integer64, NEW w \in Integer64
             PROVE  /\ v = <<"INT", v[2]>> /\ v[2] \in MinInt .. MaxInt /\ v # NULL
                    /\ IsInt(v) /\ Rank(v) = 1 /\ Cut(v) = v
                    /\ KeyLess(v, w) <=> v[2] < w[2]
                    /\ v = w <=> v[2] = w[2]
                    /\ SameType(v, w)
  OBVIOUS
<1>1. PICK n \in MinInt .. MaxInt : v = <<"INT", n>>
  BY DEF Integer64
<1>2. PICK m \in MinInt .. MaxInt : w = <<"INT", m>>
  BY DEF Integer64
<1>3. v # NULL /\ w # NULL
  BY NullAssumption
<1>4. Rank(v) = 1 /\ Rank(w) = 1 /\ Cut(v) = v
  BY <1>1, <1>2, <1>3 DEF Rank, IsInt, Cut
<1>5. KeyLess(v, w) <=> v[2] < w[2]
  BY <1>1, <1>2, <1>3, <1>4 DEF KeyLess, Less, IsInt
<1> QED BY <1>1, <1>2, <1>3, <1>4, <1>5 DEF IsInt, SameType

\* validateRow has put a value of the column's type into every indexed column
LEMMA ColumnValues ==
    ASSUME RowsValid, NEW c \in Indexed, NEW r \in Live
    PROVE  /\ heap[r][c] \in Typed[c] /\ heap[r][c] \in Value
           /\ c \in IntColumn => heap[r][c] \in Integer64
           /\ c \in StringColumn => IsString(heap[r][c])
<1>1. ValidateRow(heap[r]) /\ c \in Column
  BY ColumnAssumption DEF RowsValid, ValidOrFree, Live
<1>2. heap[r][c] \in Typed[c]
  BY <1>1 DEF ValidateRow
<1> QED BY <1>1, <1>2, TypeAssumption DEF IntColumn, StringColumn

\* between statements an index lists the key of every row's value, but those that
\* it is unsure of
LEMMA IndexKeys ==
    ASSUME Inv, IndexAgrees, AtRest, NEW c \in Indexed
    PROVE  /\ \A r \in Live : Cut(heap[r][c]) = KeyOf[heap[r][c]] /\ Cut(heap[r][c]) \in MaybeValue
           /\ \A r \in Live : Cut(heap[r][c]) \notin unsure[c] => <<Cut(heap[r][c]), r>> \in index[c]
           /\ \A e \in index[c] : /\ e[2] \in Live /\ e[1] = Cut(heap[e[2]][c])
                                  /\ e[1] \notin unsure[c]
<1>1. \A r \in Live : KeyOf[heap[r][c]] = Cut(heap[r][c]) /\ Cut(heap[r][c]) \in MaybeValue
  <2> SUFFICES ASSUME NEW r \in Live PROVE heap[r][c] \in MaybeValue
    BY CutAssumption, KeyAssumption
  <2>1. heap[r] \in Row
    BY DEF Live, Inv, TypeOK, HeapType, MaybeRow
  <2> QED BY <2>1, ColumnTyped
<1>2. /\ index[c] = {e \in Entries(c) : e[1] \notin unsure[c]}
      /\ Settled = Live /\ Pending(c) = {}
  BY DEF IndexAgrees, AtRest, Settled, InFlight, Pending
<1>3. Entries(c) = {<<KeyOf[heap[r][c]], r>> : r \in Live}
  BY <1>2 DEF Entries
<1> QED BY <1>1, <1>2, <1>3

\* the rows whose keys are in a range, or are one key
InRange(c, low, high) == {r \in Live : /\ ~KeyLess(Cut(heap[r][c]), Cut(low))
                                       /\ KeyLess(Cut(heap[r][c]), Cut(high))}
WithKey(c, v) == {r \in Live : Cut(heap[r][c]) = Cut(v)}

\* what a clause selects from an index that is sure of every key
Reached(q) ==
    IF ~Planned(q) THEN Scan(q)
    ELSE IF q.op = "EQ" THEN WithKey(q.column, q.right)
    ELSE InRange(q.column, KeyRange(q)[1], KeyRange(q)[2])

\* the keys a clause asks its index for
Asked(q) ==
    IF q.op = "EQ" THEN {Cut(q.right)}
    ELSE {k \in MaybeValue : /\ ~KeyLess(k, Cut(KeyRange(q)[1]))
                             /\ KeyLess(k, Cut(KeyRange(q)[2]))}

\* the rows reached are those whose keys are asked for
LEMMA ReachedAsked ==
    ASSUME Inv, IndexAgrees, AtRest, NEW q \in Condition, Planned(q)
    PROVE  /\ Reached(q) = {r \in Live : Cut(heap[r][q.column]) \in Asked(q)}
           /\ MatchingRecords(q) = Answers(q.column, Asked(q))
<1>1. \A r \in Live : Cut(heap[r][q.column]) \in MaybeValue
  BY IndexKeys DEF Planned
<1>2. CASE q.op = "EQ"
  BY <1>2 DEF Reached, WithKey, Asked, MatchingRecords, FindKey
<1>3. CASE q.op # "EQ"
  BY <1>1, <1>3 DEF Reached, InRange, Asked, MatchingRecords, RangeFind
<1> QED BY <1>2, <1>3

\* what is known of the answer of an index
LEMMA ReachedSelected ==
    ASSUME Inv, IndexAgrees, AtRest, NEW q \in Condition
    PROVE  Selects(q, Reached(q))
<1>1. CASE ~Planned(q)
  BY <1>1 DEF Selects, Reached, MatchingRecords
<1>2. CASE Planned(q)
  <2> DEFINE c == q.column
             K == Asked(q)
             known == {e[2] : e \in {f \in index[c] : f[1] \in K}}
  <2>1. c \in Indexed /\ Live \subseteq Rid
    BY <1>2 DEF Planned, Live
  <2>2. Reached(q) = {r \in Live : Cut(heap[r][c]) \in K}
    BY <1>2, ReachedAsked
  <2>3. MatchingRecords(q) =
            IF Torn(c) \/ K \cap unsure[c] # {} THEN {known \cup s : s \in SUBSET Rid} ELSE {known}
    BY <1>2, ReachedAsked DEF Answers
  <2>4. Known(q) = {r \in Live : Cut(heap[r][c]) \notin unsure[c]}
    BY <2>1, IndexKeys DEF Known, Sure
  <2> HIDE DEF K
  <2>5. known \subseteq Reached(q)
    BY <2>1, <2>2, IndexKeys
  <2>6. ASSUME NEW r \in Reached(q) \cap Known(q) PROVE r \in known
    <3> DEFINE e == <<Cut(heap[r][c]), r>>
    <3>1. e \in index[c] /\ e[1] \in K /\ e[2] = r
      BY <2>1, <2>2, <2>4, IndexKeys
    <3> HIDE DEF e
    <3> QED BY <3>1
  <2> HIDE DEF known
  <2>7. CASE Torn(c) \/ K \cap unsure[c] # {}
    <3>1. MatchingRecords(q) = {known \cup s : s \in SUBSET Rid}
      BY <2>3, <2>7
    <3>2. ASSUME NEW s, MatchingRecords(q) = {s} PROVE s = Reached(q)
      <4>1. known \cup {} \in MatchingRecords(q) /\ known \cup Rid \in MatchingRecords(q)
        BY <3>1
      <4>2. s = known /\ Rid \subseteq s
        BY <3>2, <4>1
      <4> QED BY <2>1, <2>2, <2>5, <4>2
    <3> QED BY <2>6, <3>1, <3>2 DEF Selects
  <2>8. CASE ~(Torn(c) \/ K \cap unsure[c] # {})
    <3>1. MatchingRecords(q) = {known}
      BY <2>3, <2>8
    <3>2. Reached(q) \subseteq Known(q)
      BY <2>2, <2>4, <2>8
    <3>3. known = Reached(q)
      BY <2>5, <2>6, <3>2
    <3> QED BY <3>1, <3>3 DEF Selects
  <2> QED BY <2>7, <2>8
<1> QED BY <1>1, <1>2

\* integers pick rows by their numbers
LEMMA IntLookup ==
    ASSUME Inv, RowsValid, IndexAgrees, AtRest, NEW c \in Indexed \cap IntColumn,
           NEW low \in Integer64, NEW high \in Integer64
    PROVE  /\ InRange(c, low, high) =
                  {r \in Live : low[2] <= heap[r][c][2] /\ heap[r][c][2] < high[2]}
           /\ WithKey(c, low) = {r \in Live : heap[r][c][2] = low[2]}
<1>1. \A r \in Live : heap[r][c] \in Integer64
  BY ColumnValues
<1>2. /\ Cut(low) = low /\ Cut(high) = high
      /\ \A r \in Live : Cut(heap[r][c]) = heap[r][c]
  BY <1>1, IntegerKeys
<1>3. \A r \in Live : /\ KeyLess(heap[r][c], low) <=> heap[r][c][2] < low[2]
                      /\ KeyLess(heap[r][c], high) <=> heap[r][c][2] < high[2]
                      /\ heap[r][c] = low <=> heap[r][c][2] = low[2]
                      /\ heap[r][c][2] \in Int /\ low[2] \in Int
  BY <1>1, IntegerKeys, RangeAssumption
<1>4. /\ InRange(c, low, high) =
             {r \in Live : ~KeyLess(heap[r][c], low) /\ KeyLess(heap[r][c], high)}
      /\ WithKey(c, low) = {r \in Live : heap[r][c] = low}
  BY <1>2 DEF InRange, WithKey
<1> QED BY <1>3, <1>4

\* the ranges made of one integer are made of integers
LEMMA IntRanges ==
    ASSUME NEW v \in Integer64
    PROVE  /\ Up(v) \in Integer64 /\ Least \in Integer64 /\ Greatest \in Integer64
           /\ Up(v)[2] = IF v[2] = MaxInt THEN MaxInt ELSE v[2] + 1
           /\ Least[2] = MinInt /\ Greatest[2] = MaxInt
<1>1. v[2] \in MinInt .. MaxInt
  BY IntegerKeys
<1>2. (IF v[2] = MaxInt THEN MaxInt ELSE v[2] + 1) \in MinInt .. MaxInt
  BY <1>1, RangeAssumption
<1> QED BY <1>2, RangeAssumption DEF Up, Least, Greatest, Integer64

\* comparing integers is comparing numbers
LEMMA IntCompare ==
    ASSUME NEW v \in Integer64, NEW w \in Integer64
    PROVE  /\ CompareValues(v, w, "EQ") <=> v[2] = w[2]
           /\ CompareValues(v, w, "LT") <=> v[2] < w[2]
           /\ CompareValues(v, w, "GT") <=> v[2] > w[2]
           /\ CompareValues(v, w, "LTE") <=> v[2] <= w[2]
           /\ CompareValues(v, w, "GTE") <=> v[2] >= w[2]
<1>1. /\ SameType(v, w) /\ v[2] \in Int /\ w[2] \in Int /\ (v = w <=> v[2] = w[2])
      /\ IsInt(v) /\ IsInt(w)
  BY IntegerKeys, RangeAssumption
<1>2. (Less(v, w) <=> v[2] < w[2]) /\ (Less(w, v) <=> w[2] < v[2])
  BY <1>1 DEF Less
<1>3. CompareValues(v, w, "EQ") <=> v[2] = w[2]
  BY <1>1 DEF CompareValues
<1>4. CompareValues(v, w, "LT") <=> v[2] < w[2]
  BY <1>1, <1>2 DEF CompareValues
<1>5. CompareValues(v, w, "GT") <=> v[2] > w[2]
  BY <1>1, <1>2 DEF CompareValues
<1>6. CompareValues(v, w, "LTE") <=> v[2] <= w[2]
  BY <1>1, <1>2 DEF CompareValues
<1>7. CompareValues(v, w, "GTE") <=> v[2] >= w[2]
  BY <1>1, <1>2 DEF CompareValues
<1> QED BY <1>3, <1>4, <1>5, <1>6, <1>7

\* an index on an INT column answers one comparison with an integer as IntAnswers says
LEMMA IntPlan ==
    ASSUME Inv, RowsValid, IndexAgrees, AtRest, NEW q \in Condition,
           q.column \in IntColumn, Bounds(q) \subseteq Integer64
    PROVE  Reached(q) = Scan(q) \ AtMaximum(q)
<1> DEFINE c == q.column
           v == q.right
<1>0. v \in Integer64 /\ v # NULL /\ IsInt(v) /\ v[2] \in MinInt .. MaxInt
  BY IntegerKeys DEF Bounds
<1>1. CASE q.op = "NEQ"
  <2>1. Reached(q) = Scan(q)
    BY <1>1 DEF Reached, Planned
  <2>2. AtMaximum(q) = {}
    BY <1>1 DEF AtMaximum
  <2> QED BY <2>1, <2>2
<1>2. CASE c \notin Indexed
  <2>1. Reached(q) = Scan(q)
    BY <1>2 DEF Reached, Planned
  <2>2. AtMaximum(q) = {}
    BY <1>2 DEF AtMaximum
  <2> QED BY <2>1, <2>2
<1>3. CASE c \in Indexed /\ q.op # "NEQ"
  <2>1. c \in Indexed \cap IntColumn /\ Planned(q)
    BY <1>0, <1>3 DEF Planned
  <2>2. \A r \in Live : heap[r][c] \in Integer64 /\ heap[r][c][2] \in MinInt .. MaxInt
    BY <2>1, ColumnValues, IntegerKeys
  <2>3. \A r \in Live : heap[r][c] = Greatest <=> heap[r][c][2] = MaxInt
    BY <1>0, <2>2, IntRanges, IntegerKeys
  <2>4. v = Greatest <=> v[2] = MaxInt
    BY <1>0, IntRanges, IntegerKeys
  <2>5. /\ Up(v) \in Integer64 /\ Least \in Integer64 /\ Greatest \in Integer64
        /\ Up(v)[2] = IF v[2] = MaxInt THEN MaxInt ELSE v[2] + 1
        /\ Least[2] = MinInt /\ Greatest[2] = MaxInt
    BY <1>0, IntRanges
  <2>6. \A r \in Live : /\ CompareValues(heap[r][c], v, "EQ") <=> heap[r][c][2] = v[2]
                        /\ CompareValues(heap[r][c], v, "LT") <=> heap[r][c][2] < v[2]
                        /\ CompareValues(heap[r][c], v, "GT") <=> heap[r][c][2] > v[2]
                        /\ CompareValues(heap[r][c], v, "LTE") <=> heap[r][c][2] <= v[2]
                        /\ CompareValues(heap[r][c], v, "GTE") <=> heap[r][c][2] >= v[2]
    BY <1>0, <2>2, IntCompare
  <2> HIDE DEF c, v
  <2>7. CASE q.op = "EQ"
    <3>1. Reached(q) = WithKey(c, v)
      BY <2>1, <2>7 DEF Reached, c, v
    <3>2. Reached(q) = {r \in Live : heap[r][c][2] = v[2]}
      BY <1>0, <2>1, <3>1, IntLookup
    <3>3. Scan(q) = {r \in Live : heap[r][c][2] = v[2]} /\ AtMaximum(q) = {}
      BY <2>6, <2>7 DEF Scan, Holds, AtMaximum, c, v
    <3> QED BY <3>2, <3>3
  <2>8. CASE q.op = "LT"
    <3>0. KeyRange(q) = <<Least, v>>
      BY <1>0, <2>8 DEF KeyRange, IntRange, v
    <3>1. Reached(q) = InRange(c, Least, v)
      BY <2>1, <3>0, <2>8 DEF Reached, c
    <3>2. Reached(q) = {r \in Live : MinInt <= heap[r][c][2] /\ heap[r][c][2] < v[2]}
      BY <1>0, <2>1, <2>5, <3>1, IntLookup
    <3>3. Scan(q) = {r \in Live : heap[r][c][2] < v[2]} /\ AtMaximum(q) = {}
      BY <2>6, <2>8 DEF Scan, Holds, AtMaximum, c, v
    <3> QED BY <2>2, <3>2, <3>3, RangeAssumption
  <2>9. CASE q.op = "LTE"
    <3>0. KeyRange(q) = <<Least, Up(v)>>
      BY <1>0, <2>9 DEF KeyRange, IntRange, v
    <3>1. Reached(q) = InRange(c, Least, Up(v))
      BY <2>1, <3>0, <2>9 DEF Reached, c
    <3>2. Reached(q) =
              {r \in Live : MinInt <= heap[r][c][2] /\ heap[r][c][2] < Up(v)[2]}
      BY <2>1, <2>5, <3>1, IntLookup
    <3>3. Scan(q) = {r \in Live : heap[r][c][2] <= v[2]}
      BY <2>6, <2>9 DEF Scan, Holds, c, v
    <3>4. AtMaximum(q) = {r \in Live : heap[r][c][2] = MaxInt /\ v[2] = MaxInt}
      BY <2>1, <2>3, <2>4, <2>9 DEF AtMaximum, c, v
    <3> QED BY <1>0, <2>2, <2>5, <3>2, <3>3, <3>4, RangeAssumption
  <2>10. CASE q.op = "GT"
    <3>0. KeyRange(q) = <<Up(v), Greatest>>
      BY <1>0, <2>10 DEF KeyRange, IntRange, v
    <3>1. Reached(q) = InRange(c, Up(v), Greatest)
      BY <2>1, <3>0, <2>10 DEF Reached, c
    <3>2. Reached(q) =
              {r \in Live : Up(v)[2] <= heap[r][c][2] /\ heap[r][c][2] < MaxInt}
      BY <2>1, <2>5, <3>1, IntLookup
    <3>3. Scan(q) = {r \in Live : heap[r][c][2] > v[2]}
      BY <2>6, <2>10 DEF Scan, Holds, c, v
    <3>4. AtMaximum(q) = {r \in Live : heap[r][c][2] = MaxInt}
      BY <2>1, <2>3, <2>10 DEF AtMaximum, c, v
    <3> QED BY <1>0, <2>2, <2>5, <3>2, <3>3, <3>4, RangeAssumption
  <2>11. CASE q.op = "GTE"
    <3>0. KeyRange(q) = <<v, Greatest>>
      BY <1>0, <2>11 DEF KeyRange, IntRange, v
    <3>1. Reached(q) = InRange(c, v, Greatest)
      BY <2>1, <3>0, <2>11 DEF Reached, c
    <3>2. Reached(q) = {r \in Live : v[2] <= heap[r][c][2] /\ heap[r][c][2] < MaxInt}
      BY <1>0, <2>1, <2>5, <3>1, IntLookup
    <3>3. Scan(q) = {r \in Live : heap[r][c][2] >= v[2]}
      BY <2>6, <2>11 DEF Scan, Holds, c, v
    <3>4. AtMaximum(q) = {r \in Live : heap[r][c][2] = MaxInt}
      BY <2>1, <2>3, <2>11 DEF AtMaximum, c, v
    <3> QED BY <1>0, <2>2, <3>2, <3>3, <3>4, RangeAssumption
  <2>12. CASE q.op = "BETWEEN"
    <3>1. q.third \in Integer64
      BY <2>12 DEF Bounds
    <3>0. KeyRange(q) = <<v, q.third>>
      BY <2>12 DEF KeyRange, v
    <3>2. Reached(q) = InRange(c, v, q.third)
      BY <2>1, <2>12, <3>0 DEF Reached, c
    <3>3. Reached(q) =
              {r \in Live : v[2] <= heap[r][c][2] /\ heap[r][c][2] < q.third[2]}
      BY <1>0, <2>1, <3>1, <3>2, IntLookup
    <3>4. \A r \in Live : CompareValues(heap[r][c], q.third, "LT") <=> heap[r][c][2] < q.third[2]
      BY <2>2, <3>1, IntCompare
    <3>5. Scan(q) = {r \in Live : heap[r][c][2] >= v[2] /\ heap[r][c][2] < q.third[2]}
      BY <2>6, <2>12, <3>4 DEF Scan, Holds, c, v
    <3>6. AtMaximum(q) = {}
      BY <2>12 DEF AtMaximum
    <3> QED BY <1>0, <2>2, <3>3, <3>5, <3>6, RangeAssumption
  <2>13. q.op \in {"EQ", "LT", "LTE", "GT", "GTE", "BETWEEN"}
    BY <1>3 DEF Condition
  <2> QED BY <2>7, <2>8, <2>9, <2>10, <2>11, <2>12, <2>13
<1> QED BY <1>1, <1>2, <1>3

\* Between the statements of a process that was not killed, an index on an INT
\* column answers every comparison with integers as a scan of the rows would, but
\* for the rows at INT64_MAX that its half-open ranges cannot list, for any rows,
\* integers and statements.
THEOREM IntAnswersAlways == Spec => []IntAnswers
<1>1. Init => Inv /\ RowsValid /\ Agreement
  BY InitInv, InitRowsValid, InitAgreement
<1>2. Inv /\ RowsValid /\ Agreement /\ [Next]_vars => (Inv /\ RowsValid /\ Agreement)'
  BY NextInv, NextRowsValid, NextAgreement
<1>3. Inv /\ RowsValid /\ Agreement => IntAnswers
  BY AgreementImpliesIndexAgrees, ReachedSelected, IntPlan DEF IntAnswers
<1> QED BY <1>1, <1>2, <1>3, PTL DEF Spec

-----------------------------------------------------------------------------
(* Strings, their keys, and the order of the types.                        *)

\* the parts of a string
LEMMA StringParts ==
    ASSUME NEW v \in String
    PROVE  /\ v = <<"STRING", v[2]>> /\ v[2] \in Seq(Nat)
           /\ v # NULL /\ ~IsInt(v) /\ IsString(v) /\ Rank(v) = 2
<1>1. v[1] = "STRING" /\ v[2] \in Seq(Nat) /\ v = <<v[1], v[2]>>
  BY DEF String
<1>2. v # NULL
  BY NullAssumption
<1> QED BY <1>1, <1>2 DEF IsInt, IsString, Rank

\* a string whose key is cut keeps its first KeyLen bytes
LEMMA CutString ==
    ASSUME NEW v \in String
    PROVE  /\ Cut(v) \in String
           /\ Len(v[2]) <= KeyLen => Cut(v) = v
           /\ Len(v[2]) > KeyLen => /\ Cut(v)[2] = SubSeq(v[2], 1, KeyLen)
                                    /\ Len(Cut(v)[2]) = KeyLen
                                    /\ \A i \in 1 .. KeyLen : Cut(v)[2][i] = v[2][i]
<1>1. v[1] = "STRING" /\ v # NULL /\ ~IsInt(v) /\ v[2] \in Seq(Nat) /\ Len(v[2]) \in Nat
  BY StringParts, LenProperties DEF IsString
<1>2. CASE Len(v[2]) <= KeyLen
  BY <1>1, <1>2, StringAssumption DEF Cut
<1>3. CASE Len(v[2]) > KeyLen
  <2> DEFINE s == SubSeq(v[2], 1, KeyLen)
  <2>1. s \in Seq(Nat) /\ Len(s) = KeyLen /\ \A i \in 1 .. KeyLen : s[i] = v[2][i]
    BY <1>1, <1>3, StringAssumption, SubSeqProperties
  <2>2. Cut(v) = <<"STRING", s>>
    BY <1>1, <1>3, StringAssumption DEF Cut
  <2> HIDE DEF s
  <2>3. Cut(v) \in String /\ Cut(v)[2] = s
    BY <2>1, <2>2 DEF String
  <2> QED BY <1>3, <1>1, <2>1, <2>3, StringAssumption DEF s
<1> QED BY <1>1, <1>2, <1>3, StringAssumption

\* keys are ordered by their types first
LEMMA RankOrder ==
    \A k, l : /\ Rank(k) < Rank(l) => KeyLess(k, l)
              /\ Rank(l) < Rank(k) => ~KeyLess(k, l)
<1>1. \A v : Rank(v) \in {0, 1, 2}
  BY DEF Rank
<1> QED BY <1>1 DEF KeyLess

\* the strings made of one string are strings
LEMMA StringRanges ==
    /\ EmptyString \in String /\ <<"STRING", MaxString>> \in String
    /\ \A v \in String : Next0(v) \in String
<1>1. <<>> \in Seq(Nat) /\ <<0>> \in Seq(Nat) /\ MaxString \in Seq(Nat)
  BY StringAssumption
<1>2. ASSUME NEW v \in String PROVE Next0(v) \in String
  <2>1. v[2] \o <<0>> \in Seq(Nat)
    BY <1>1, StringParts, ConcatProperties
  <2> QED BY <2>1 DEF Next0, String
<1> QED BY <1>1, <1>2 DEF EmptyString, String

-----------------------------------------------------------------------------
(***************************************************************************)
(* The order of strings, and what an index on a STRING column answers.     *)
(* Precedes is decided at the end of the longest common prefix, which is   *)
(* why it is a total order, why appending a byte 0 gives the next string,  *)
(* and why a string cut to a key compares with every string not longer     *)
(* than a key as the whole of it does.                                     *)
(***************************************************************************)
\* s comes before t because of what follows their common prefix of n bytes
Decides(s, t, n) ==
    /\ n \in Nat /\ n < Len(t) /\ n <= Len(s)
    /\ \A i \in 1 .. n : s[i] = t[i]
    /\ n = Len(s) \/ s[n + 1] < t[n + 1]

\* the first n bytes of a string
LEMMA Prefix ==
    ASSUME NEW s \in Seq(Nat), NEW n \in Nat, n <= Len(s)
    PROVE  /\ SubSeq(s, 1, n) \in Seq(Nat) /\ Len(SubSeq(s, 1, n)) = n
           /\ \A i \in 1 .. n : SubSeq(s, 1, n)[i] = s[i]
<1>1. Len(s) \in Nat
  BY LenProperties
<1> QED BY <1>1, SubSeqProperties

\* the order byte by byte
LEMMA PrecedesDecided ==
    ASSUME NEW s \in Seq(Nat), NEW t \in Seq(Nat)
    PROVE  Precedes(s, t) <=> \E n \in Nat : Decides(s, t, n)
<1>1. Len(s) \in Nat /\ Len(t) \in Nat
  BY LenProperties
<1>2. ASSUME NEW n \in Nat, n <= Len(s), n <= Len(t)
      PROVE  SubSeq(s, 1, n) = SubSeq(t, 1, n) <=> \A i \in 1 .. n : s[i] = t[i]
  <2> DEFINE a == SubSeq(s, 1, n)
             b == SubSeq(t, 1, n)
  <2>1. a \in Seq(Nat) /\ Len(a) = n /\ \A i \in 1 .. n : a[i] = s[i]
    BY <1>2, Prefix
  <2>0. b \in Seq(Nat) /\ Len(b) = n /\ \A i \in 1 .. n : b[i] = t[i]
    BY <1>2, Prefix
  <2> HIDE DEF a, b
  <2>2. a = b <=> \A i \in 1 .. n : a[i] = b[i]
    BY <2>0, <2>1, SeqEqual
  <2> QED BY <2>0, <2>1, <2>2 DEF a, b
<1>3. ASSUME NEW n \in 0 .. Len(t) - 1
      PROVE  /\ n \in Nat /\ n < Len(t)
             /\ n <= Len(s) =>
                   (SubSeq(s, 1, n) = SubSeq(t, 1, n) <=> \A i \in 1 .. n : s[i] = t[i])
  BY <1>1, <1>2
<1>4. ASSUME NEW n \in Nat, n < Len(t) PROVE n \in 0 .. Len(t) - 1
  BY <1>1, <1>4
<1> QED BY <1>3, <1>4 DEF Precedes, Decides

\* strings are totally ordered
LEMMA Trichotomy ==
    ASSUME NEW s \in Seq(Nat), NEW t \in Seq(Nat)
    PROVE  /\ Precedes(s, t) \/ s = t \/ Precedes(t, s)
           /\ ~(Precedes(s, t) /\ Precedes(t, s))
           /\ s = t => ~Precedes(s, t)
<1>1. Len(s) \in Nat /\ Len(t) \in Nat
  BY LenProperties
<1>2. (\A i \in 1 .. Len(s) : s[i] \in Nat) /\ (\A i \in 1 .. Len(t) : t[i] \in Nat)
  BY ElementOfSeq
<1>3. Precedes(s, t) \/ s = t \/ Precedes(t, s)
  <2> DEFINE I == {m \in 1 .. Len(s) + 1 :
                     m - 1 <= Len(t) /\ \A i \in 1 .. m - 1 : s[i] = t[i]}
  <2>1. I \in SUBSET (1 .. Len(s) + 1) /\ 1 \in I
    BY <1>1
  <2>2. PICK m \in I : \A j \in I : j <= m
    <3>1. Len(s) + 1 \in Nat
      BY <1>1
    <3> HIDE DEF I
    <3> QED BY <2>1, <3>1, LastLine
  <2> DEFINE n == m - 1
  <2>3. n \in Nat /\ n <= Len(s) /\ n <= Len(t) /\ \A i \in 1 .. n : s[i] = t[i]
    BY <1>1, <2>2
  <2>4. ~(n + 1 <= Len(s) /\ n + 1 <= Len(t) /\ s[n + 1] = t[n + 1])
    <3> SUFFICES ASSUME n + 1 <= Len(s), n + 1 <= Len(t), s[n + 1] = t[n + 1] PROVE FALSE
      OBVIOUS
    <3>1. m + 1 \in 1 .. Len(s) + 1 /\ (m + 1) - 1 <= Len(t)
      BY <1>1, <2>3
    <3>2. ASSUME NEW i \in 1 .. (m + 1) - 1 PROVE s[i] = t[i]
      <4>1. i \in 1 .. n \/ i = n + 1
        BY <2>3
      <4> QED BY <2>3, <4>1
    <3>3. m + 1 \in I
      BY <3>1, <3>2
    <3>4. m \in Nat
      BY <2>2
    <3> HIDE DEF I
    <3> QED BY <2>2, <3>3, <3>4
  <2> HIDE DEF n
  <2>5. CASE n = Len(s) /\ n = Len(t)
    BY <2>3, <2>5, SeqEqual
  <2>6. CASE n < Len(t) /\ (n = Len(s) \/ s[n + 1] < t[n + 1])
    BY <2>3, <2>6, PrecedesDecided DEF Decides
  <2>7. CASE n < Len(s) /\ (n = Len(t) \/ t[n + 1] < s[n + 1])
    BY <2>3, <2>7, PrecedesDecided DEF Decides
  <2>8. n < Len(s) /\ n < Len(t) => s[n + 1] < t[n + 1] \/ t[n + 1] < s[n + 1]
    BY <1>1, <1>2, <2>3, <2>4
  <2> QED BY <1>1, <2>3, <2>5, <2>6, <2>7, <2>8
<1>4. ASSUME NEW n \in Nat, NEW m \in Nat, Decides(s, t, n), Decides(t, s, m) PROVE FALSE
  <2>1. n < Len(t) /\ m < Len(s) /\ n <= Len(s) /\ m <= Len(t)
    BY <1>4 DEF Decides
  <2>2. CASE n < m
    <3>1. t[n + 1] = s[n + 1] /\ s[n + 1] < t[n + 1] /\ n + 1 \in 1 .. Len(s)
      BY <1>1, <1>4, <2>1, <2>2 DEF Decides
    <3> QED BY <1>2, <3>1
  <2>3. CASE m < n
    <3>1. t[m + 1] = s[m + 1] /\ t[m + 1] < s[m + 1] /\ m + 1 \in 1 .. Len(t)
      BY <1>1, <1>4, <2>1, <2>3 DEF Decides
    <3> QED BY <1>2, <3>1
  <2>4. CASE n = m
    <3>1. /\ s[n + 1] < t[n + 1] /\ t[n + 1] < s[n + 1]
          /\ n + 1 \in 1 .. Len(s) /\ n + 1 \in 1 .. Len(t)
      BY <1>1, <1>4, <2>1, <2>4 DEF Decides
    <3> QED BY <1>2, <3>1
  <2> QED BY <2>2, <2>3, <2>4
<1>5. ~(Precedes(s, t) /\ Precedes(t, s))
  BY <1>4, PrecedesDecided
<1> QED BY <1>3, <1>5

\* no string is between s and s followed by a byte 0
LEMMA NextString ==
    ASSUME NEW s \in Seq(Nat), NEW t \in Seq(Nat)
    PROVE  /\ Precedes(s, t \o <<0>>) <=> ~Precedes(t, s)
           /\ t \o <<0>> \in Seq(Nat) /\ Len(t \o <<0>>) = Len(t) + 1
<1> DEFINE u == t \o <<0>>
<1>1. /\ u \in Seq(Nat) /\ Len(u) = Len(t) + 1 /\ Len(t) \in Nat /\ Len(s) \in Nat
      /\ u[Len(t) + 1] = 0 /\ \A i \in 1 .. Len(t) : u[i] = t[i]
  OBVIOUS
<1> HIDE DEF u
<1>2. \A i \in 1 .. Len(s) : s[i] \in Nat
  BY ElementOfSeq
<1>3. ASSUME ~Precedes(t, s) PROVE Precedes(s, u)
  <2>1. CASE s = t
    <3>1. Decides(s, u, Len(s))
      BY <1>1, <2>1 DEF Decides
    <3> QED BY <1>1, <3>1, PrecedesDecided
  <2>2. CASE Precedes(s, t)
    <3>1. PICK n \in Nat : Decides(s, t, n)
      BY <2>2, PrecedesDecided
    <3>2. n + 1 \in 1 .. Len(t) /\ 1 .. n \subseteq 1 .. Len(t) /\ n < Len(u)
      BY <1>1, <3>1 DEF Decides
    <3>3. u[n + 1] = t[n + 1] /\ \A i \in 1 .. n : u[i] = t[i]
      BY <1>1, <3>2
    <3>4. Decides(s, u, n)
      BY <3>1, <3>2, <3>3 DEF Decides
    <3> QED BY <1>1, <3>4, PrecedesDecided
  <2> QED BY <1>3, <2>1, <2>2, Trichotomy
<1>4. ASSUME Precedes(s, u) PROVE ~Precedes(t, s)
  <2>1. PICK n \in Nat : Decides(s, u, n)
    BY <1>1, <1>4, PrecedesDecided
  <2>2. CASE n < Len(t)
    <3>1. n + 1 \in 1 .. Len(t) /\ 1 .. n \subseteq 1 .. Len(t)
      BY <1>1, <2>2
    <3>2. u[n + 1] = t[n + 1] /\ \A i \in 1 .. n : u[i] = t[i]
      BY <1>1, <3>1
    <3>3. Decides(s, t, n)
      BY <2>1, <2>2, <3>2 DEF Decides
    <3> QED BY <3>3, PrecedesDecided, Trichotomy
  <2>3. CASE n = Len(t)
    <3>1. n <= Len(s) /\ (n = Len(s) \/ s[n + 1] < 0) /\ \A i \in 1 .. n : s[i] = t[i]
      BY <1>1, <2>1, <2>3 DEF Decides
    <3>2. n = Len(s)
      BY <1>1, <1>2, <3>1
    <3>3. s = t
      BY <2>3, <3>1, <3>2, SeqEqual
    <3> QED BY <3>3, Trichotomy
  <2> QED BY <1>1, <2>1, <2>2, <2>3 DEF Decides
<1> QED BY <1>1, <1>3, <1>4 DEF u

\* cutting a string does not change how it compares with one not longer than a key
LEMMA CutCompares ==
    ASSUME NEW v \in String, NEW w \in String, Len(w[2]) <= KeyLen
    PROVE  /\ KeyLess(Cut(v), Cut(w)) <=> Precedes(v[2], w[2])
           /\ Len(w[2]) < KeyLen => (Cut(v) = Cut(w) <=> v = w)
<1> DEFINE s == Cut(v)[2]
<1>1. /\ Cut(v) \in String /\ s \in Seq(Nat) /\ v[2] \in Seq(Nat) /\ w[2] \in Seq(Nat)
      /\ Cut(w) = w /\ Len(v[2]) \in Nat /\ Len(w[2]) \in Nat
  BY CutString, StringParts, LenProperties
<1>2. KeyLess(Cut(v), Cut(w)) <=> Precedes(s, w[2])
  <2>1. Rank(Cut(v)) = 2 /\ Rank(w) = 2 /\ Cut(v) # NULL /\ ~IsInt(Cut(v))
    BY <1>1, StringParts
  <2> QED BY <1>1, <2>1 DEF KeyLess, Less
<1>3. CASE Len(v[2]) <= KeyLen
  <2>1. Cut(v) = v
    BY <1>3, CutString
  <2> QED BY <1>1, <1>2, <2>1
<1>4. CASE Len(v[2]) > KeyLen
  <2>1. Len(s) = KeyLen /\ KeyLen \in Nat /\ \A i \in 1 .. KeyLen : s[i] = v[2][i]
    BY <1>4, CutString, StringAssumption
  <2> HIDE DEF s
  <2>2. \A n \in Nat : Decides(s, w[2], n) <=> Decides(v[2], w[2], n)
    <3> SUFFICES ASSUME NEW n \in Nat, n < Len(w[2])
                 PROVE  Decides(s, w[2], n) <=> Decides(v[2], w[2], n)
      BY DEF Decides
    <3>1. n < KeyLen /\ KeyLen \in Nat
      BY <1>1, <2>1
    <3>2. s[n + 1] = v[2][n + 1] /\ \A i \in 1 .. n : s[i] = v[2][i]
      <4>1. n + 1 \in 1 .. KeyLen /\ 1 .. n \subseteq 1 .. KeyLen
        BY <3>1
      <4> QED BY <2>1, <4>1
    <3>3. n # Len(s) /\ n # Len(v[2]) /\ n <= Len(s) /\ n <= Len(v[2])
      BY <1>1, <1>4, <2>1, <3>1
    <3>4. (\A i \in 1 .. n : s[i] = w[2][i]) <=> (\A i \in 1 .. n : v[2][i] = w[2][i])
      BY <3>2
    <3> QED BY <3>2, <3>3, <3>4 DEF Decides
  <2>3. Precedes(s, w[2]) <=> Precedes(v[2], w[2])
    BY <1>1, <2>2, PrecedesDecided
  <2>4. Len(w[2]) < KeyLen => Cut(v) # w /\ v # w
    BY <1>1, <1>4, <2>1 DEF s
  <2> QED BY <1>1, <1>2, <2>3, <2>4
<1> QED BY <1>1, <1>3, <1>4, StringAssumption

\* comparing strings is comparing their bytes
LEMMA StringCompare ==
    ASSUME NEW v \in String, NEW w \in String
    PROVE  /\ CompareValues(v, w, "EQ") <=> v = w
           /\ CompareValues(v, w, "LT") <=> Precedes(v[2], w[2])
           /\ CompareValues(v, w, "LTE") <=> ~Precedes(w[2], v[2])
           /\ CompareValues(v, w, "GTE") <=> ~Precedes(v[2], w[2])
<1>1. SameType(v, w) /\ ~IsInt(v) /\ ~IsInt(w)
  BY StringParts DEF SameType, IsString
<1>2. (Less(v, w) <=> Precedes(v[2], w[2])) /\ (Less(w, v) <=> Precedes(w[2], v[2]))
  BY <1>1 DEF Less
<1>3. CompareValues(v, w, "EQ") <=> v = w
  BY <1>1 DEF CompareValues
<1>4. CompareValues(v, w, "LT") <=> Precedes(v[2], w[2])
  BY <1>1, <1>2 DEF CompareValues
<1>5. CompareValues(v, w, "LTE") <=> ~Precedes(w[2], v[2])
  BY <1>1, <1>2 DEF CompareValues
<1>6. CompareValues(v, w, "GTE") <=> ~Precedes(v[2], w[2])
  BY <1>1, <1>2 DEF CompareValues
<1> QED BY <1>3, <1>4, <1>5, <1>6

\* strings not longer than a key pick rows by the order of their bytes
LEMMA StringLookup ==
    ASSUME Inv, RowsValid, IndexAgrees, AtRest, NEW c \in Indexed \cap StringColumn,
           NEW low \in String, NEW high \in String,
           Len(low[2]) <= KeyLen, Len(high[2]) <= KeyLen
    PROVE  InRange(c, low, high) =
               {r \in Live : /\ ~Precedes(heap[r][c][2], low[2])
                             /\ Precedes(heap[r][c][2], high[2])}
<1>1. \A r \in Live : heap[r][c] \in String
  BY ColumnValues, StringAssumption
<1>2. \A r \in Live :
          /\ KeyLess(Cut(heap[r][c]), Cut(low)) <=> Precedes(heap[r][c][2], low[2])
          /\ KeyLess(Cut(heap[r][c]), Cut(high)) <=> Precedes(heap[r][c][2], high[2])
  BY <1>1, CutCompares
<1>3. InRange(c, low, high) =
          {r \in Live : /\ ~KeyLess(Cut(heap[r][c]), Cut(low))
                        /\ KeyLess(Cut(heap[r][c]), Cut(high))}
  BY DEF InRange
<1> QED BY <1>2, <1>3

\* the rows >= cannot find
PastRange(q) == {r \in Live : /\ q.op = "GTE" /\ q.column \in Indexed
                              /\ ~Precedes(heap[r][q.column][2], MaxString)}

\* an index on a STRING column answers one comparison with short strings as
\* StringAnswers says
LEMMA StringPlan ==
    ASSUME Inv, RowsValid, IndexAgrees, AtRest, NEW q \in Condition,
           q.column \in StringColumn, q.op # "GT", \A v \in Bounds(q) : Short(v)
    PROVE  Reached(q) = Scan(q) \ PastRange(q)
<1> DEFINE c == q.column
           v == q.right
<1>0. v \in String /\ Short(v) /\ v # NULL /\ ~IsInt(v) /\ Len(v[2]) < KeyLen
  BY StringAssumption, StringParts DEF Bounds, Condition, Short
<1>1. CASE ~Planned(q)
  <2>1. q.op = "NEQ" \/ c \notin Indexed
    BY <1>0, <1>1 DEF Planned
  <2>2. PastRange(q) = {}
    BY <2>1 DEF PastRange
  <2> QED BY <1>1, <2>2 DEF Reached
<1>2. CASE Planned(q)
  <2>1. c \in Indexed \cap StringColumn
    BY <1>2 DEF Planned
  <2>2. \A r \in Live : heap[r][c] \in String
    BY <2>1, ColumnValues, StringAssumption
  <2>3. \A r \in Live :
            /\ CompareValues(heap[r][c], v, "EQ") <=> heap[r][c] = v
            /\ CompareValues(heap[r][c], v, "LT") <=> Precedes(heap[r][c][2], v[2])
            /\ CompareValues(heap[r][c], v, "LTE") <=> ~Precedes(v[2], heap[r][c][2])
            /\ CompareValues(heap[r][c], v, "GTE") <=> ~Precedes(heap[r][c][2], v[2])
    BY <1>0, <2>2, StringCompare
  <2>4. \A r \in Live : ~Precedes(heap[r][c][2], <<>>)
    BY DEF Precedes
  <2>5. /\ EmptyString \in String /\ EmptyString[2] = <<>> /\ Len(EmptyString[2]) <= KeyLen
        /\ v[2] \in Seq(Nat) /\ Len(v[2]) <= KeyLen
    BY <1>0, StringRanges, StringParts, StringAssumption, LenProperties, EmptySeq
    DEF EmptyString
  <2> HIDE DEF c, v
  <2>6. CASE q.op = "EQ"
    <3>1. Reached(q) = {r \in Live : Cut(heap[r][c]) = Cut(v)}
      BY <1>2, <2>1, <2>6 DEF Reached, WithKey, c, v
    <3>2. \A r \in Live : Cut(heap[r][c]) = Cut(v) <=> heap[r][c] = v
      BY <1>0, <2>2, <2>5, CutCompares
    <3>3. Scan(q) = {r \in Live : heap[r][c] = v} /\ PastRange(q) = {}
      BY <2>3, <2>6 DEF Scan, Holds, PastRange, c, v
    <3> QED BY <3>1, <3>2, <3>3
  <2>7. CASE q.op = "LT"
    <3>1. Reached(q) = InRange(c, EmptyString, v)
      BY <1>0, <1>2, <2>7 DEF Reached, KeyRange, StringRange, c, v
    <3>2. Reached(q) = {r \in Live : Precedes(heap[r][c][2], v[2])}
      BY <1>0, <2>1, <2>4, <2>5, <3>1, StringLookup
    <3>3. Scan(q) = {r \in Live : Precedes(heap[r][c][2], v[2])} /\ PastRange(q) = {}
      BY <2>3, <2>7 DEF Scan, Holds, PastRange, c, v
    <3> QED BY <3>2, <3>3
  <2>8. CASE q.op = "LTE"
    <3> DEFINE w == Next0(v)
               t == v[2] \o <<0>>
    <3>1. Reached(q) = InRange(c, EmptyString, w)
      BY <1>0, <1>2, <2>8 DEF Reached, KeyRange, StringRange, c, v
    <3>2. w \in String /\ w[2] = t
      BY <1>0, StringRanges DEF Next0
    <3>3. \A r \in Live : Precedes(heap[r][c][2], t) <=> ~Precedes(v[2], heap[r][c][2])
      BY <2>2, <2>5, NextString, StringParts
    <3>4. Len(t) = Len(v[2]) + 1 /\ Len(v[2]) \in Nat
      BY <2>5, NextString, LenProperties
    <3>5. Scan(q) = {r \in Live : ~Precedes(v[2], heap[r][c][2])} /\ PastRange(q) = {}
      BY <2>3, <2>8 DEF Scan, Holds, PastRange, c, v
    <3> HIDE DEF w, t
    <3>6. Len(w[2]) <= KeyLen
      BY <1>0, <3>2, <3>4, StringAssumption
    <3>7. Reached(q) = {r \in Live : Precedes(heap[r][c][2], t)}
      BY <2>1, <2>4, <2>5, <3>1, <3>2, <3>6, StringLookup
    <3> QED BY <3>3, <3>5, <3>7
  <2>9. CASE q.op = "GTE"
    <3> DEFINE top == <<"STRING", MaxString>>
    <3>1. Reached(q) = InRange(c, v, top)
      BY <1>0, <1>2, <2>9 DEF Reached, KeyRange, StringRange, c, v
    <3>2. top \in String /\ top[2] = MaxString /\ Len(top[2]) <= KeyLen
      BY StringRanges, StringAssumption
    <3> HIDE DEF top
    <3>3. Reached(q) = {r \in Live : /\ ~Precedes(heap[r][c][2], v[2])
                                             /\ Precedes(heap[r][c][2], MaxString)}
      BY <1>0, <2>1, <2>5, <3>1, <3>2, StringLookup
    <3>4. Scan(q) = {r \in Live : ~Precedes(heap[r][c][2], v[2])}
      BY <2>3, <2>9 DEF Scan, Holds, c, v
    <3>5. PastRange(q) = {r \in Live : ~Precedes(heap[r][c][2], MaxString)}
      BY <2>1, <2>9 DEF PastRange, c
    <3> QED BY <3>3, <3>4, <3>5
  <2>10. CASE q.op = "BETWEEN"
    <3> DEFINE w == q.third
    <3>1. w \in String /\ Len(w[2]) < KeyLen
      BY <2>10, StringAssumption DEF Bounds, Condition, Short
    <3>2. Reached(q) = InRange(c, v, w)
      BY <1>0, <1>2, <2>10 DEF Reached, KeyRange, c, v
    <3>3. \A r \in Live : CompareValues(heap[r][c], w, "LT") <=> Precedes(heap[r][c][2], w[2])
      BY <2>2, <3>1, StringCompare
    <3>4. Len(w[2]) <= KeyLen
      BY <3>1, StringParts, LenProperties, StringAssumption
    <3>5. Scan(q) = {r \in Live : /\ ~Precedes(heap[r][c][2], v[2])
                                  /\ Precedes(heap[r][c][2], w[2])}
      BY <2>3, <2>10, <3>3 DEF Scan, Holds, c, v
    <3>6. PastRange(q) = {}
      BY <2>10 DEF PastRange
    <3> HIDE DEF w
    <3>7. Reached(q) = {r \in Live : /\ ~Precedes(heap[r][c][2], v[2])
                                             /\ Precedes(heap[r][c][2], w[2])}
      BY <1>0, <2>1, <2>5, <3>1, <3>2, <3>4, StringLookup
    <3> QED BY <3>5, <3>6, <3>7
  <2>11. q.op \in {"EQ", "LT", "LTE", "GTE", "BETWEEN"}
    BY <1>2 DEF Condition, Planned
  <2> QED BY <2>6, <2>7, <2>8, <2>9, <2>10, <2>11
<1> QED BY <1>1, <1>2

\* an index never hides a row from an equality, whatever the string is
LEMMA EqualMissesNone ==
    ASSUME NEW q \in Condition, q.op = "EQ"
    PROVE  Scan(q) \subseteq Reached(q)
<1>1. CASE ~Planned(q)
  BY <1>1 DEF Reached
<1>2. CASE Planned(q)
  <2>1. Reached(q) = {r \in Live : Cut(heap[r][q.column]) = Cut(q.right)}
    BY <1>2 DEF Reached, WithKey
  <2>2. \A r \in Scan(q) : r \in Live /\ heap[r][q.column] = q.right
    BY DEF Scan, Holds, CompareValues
  <2> QED BY <2>1, <2>2
<1> QED BY <1>1, <1>2

\* Between the statements of a process that was not killed, an index on a STRING
\* column answers =, <, <=, >= and BETWEEN with strings shorter than a key as a
\* scan would, but for the rows past the largest string of >=, and misses no row
\* of an equality, for rows and strings of any length.
THEOREM StringAnswersAlways == Spec => []StringAnswers
<1>1. Init => Inv /\ RowsValid /\ Agreement
  BY InitInv, InitRowsValid, InitAgreement
<1>2. Inv /\ RowsValid /\ Agreement /\ [Next]_vars => (Inv /\ RowsValid /\ Agreement)'
  BY NextInv, NextRowsValid, NextAgreement
<1>3. Inv /\ RowsValid /\ Agreement => StringAnswers
  <2> SUFFICES ASSUME Inv, RowsValid, IndexAgrees, AtRest,
                      NEW q \in Condition, q.column \in StringColumn
               PROVE  /\ q.op # "GT" /\ (\A v \in Bounds(q) : Short(v)) =>
                            Selects(q, Scan(q) \ PastRange(q))
                      /\ q.op = "EQ" =>
                            \A x \in MatchingRecords(q) : Scan(q) \cap Known(q) \subseteq x
    BY AgreementImpliesIndexAgrees DEF StringAnswers, PastRange
  <2>1. Selects(q, Reached(q))
    BY ReachedSelected
  <2>2. q.op = "EQ" => Scan(q) \subseteq Reached(q)
    BY EqualMissesNone
  <2>3. q.op = "EQ" => \A x \in MatchingRecords(q) : Scan(q) \cap Known(q) \subseteq x
    BY <2>1, <2>2 DEF Selects
  <2> QED BY <2>1, <2>3, StringPlan
<1> QED BY <1>1, <1>2, <1>3, PTL DEF Spec

------------------------------------------------------------------------------
(***************************************************************************)
(* A clause whose constants have another type than its column.  That the   *)
(* index answers with no row, whatever it is unsure of, needs UnsureKeys:  *)
(* the keys it is unsure of were values of the column, and none of these   *)
(* is asked for.                                                           *)
(***************************************************************************)
UnsureKeys == "crash" \notin Faults =>
    \A c \in Indexed : \A k \in unsure[c] : \E v \in Typed[c] : k = KeyOf[v]

\* one index insertion makes its index unsure of the key it inserts at most
LEMMA IndexAddUnsure ==
    ASSUME IndexType, NEW c \in Indexed, NEW v, NEW r, IndexAdd(c, v, r)
    PROVE  \A d \in Indexed : \A k \in unsure'[d] : k \in unsure[d] \/ (d = c /\ k = KeyOf[v])
BY DEF IndexAdd, IndexType

\* and every step keeps UnsureKeys: the rows inserted have passed validateRow
LEMMA NextUnsureKeys == Inv /\ RowsValid /\ UnsureKeys /\ [Next]_vars => UnsureKeys'
<1> SUFFICES ASSUME Inv, RowsValid, UnsureKeys, [Next]_vars, "crash" \notin Faults
             PROVE  \A c \in Indexed : \A k \in unsure'[c] : \E v \in Typed[c] : k = KeyOf[v]
  BY DEF UnsureKeys
<1>1. CASE unsure' = unsure
  BY <1>1 DEF UnsureKeys
<1>2. CASE Begin \/ SkipRid \/ VisitEnd \/ Tick \/ UNCHANGED vars
  BY <1>1, <1>2 DEF Begin, BeginInsert, BeginDelete, BeginUpdate, BeginRevert, SkipRid, VisitEnd,
     Tick, vars, store
<1>3. CASE InsertRow \/ InsertReject \/ InsertLog \/ InsertEnd \/ Rollback
  BY <1>1, <1>3 DEF InsertRow, InsertReject, InsertLog, InsertEnd, Rollback, Undo, UndoIndex,
     UndoRow, UndoEnd, IndexRemove, store
<1>4. CASE Delete \/ UpdateRow \/ UpdateReject \/ UpdateUnindex \/ UpdateLog
  BY <1>1, <1>4 DEF Delete, DeleteRow, DeleteIndex, DeleteLog, UpdateRow, UpdateReject,
     UpdateUnindex, UpdateLog, IndexRemove, store
<1>5. CASE RevertBuild \/ RevertRow \/ RevertNext \/ RevertEnd
  BY <1>1, <1>5 DEF RevertBuild, RevertRow, RevertNext, RevertEnd, store
<1>6. CASE RevertDropIndex
  <2>1. PICK c \in Column : unsure' = [unsure EXCEPT ![c] = {}]
    BY <1>6 DEF RevertDropIndex
  <2> QED BY <2>1 DEF UnsureKeys, Inv, TypeOK, IndexType
<1>7. CASE InsertIndex \/ UpdateIndex \/ RevertIndex
  <2>1. PICK c \in todo : IndexAdd(c, new[c], rid)
    BY <1>7 DEF InsertIndex, UpdateIndex, RevertIndex, NextColumn
  <2>2. c \in Indexed /\ c \in Column /\ IndexType
    BY <2>1, ColumnAssumption DEF Inv, TypeOK, FlightType
  <2>3. pc \in HoldsNew
    BY <1>7 DEF InsertIndex, UpdateIndex, RevertIndex, HoldsNew
  <2>4. new = heap[rid] /\ rid \in Rid /\ new # NoRow
    BY <2>3, ValueAssumption DEF Inv, RowInFlight, InFlight, HoldsNew
  <2>5. new[c] \in Typed[c]
    BY <2>2, <2>4 DEF RowsValid, ValidOrFree, ValidateRow
  <2> QED BY <2>1, <2>2, <2>5, IndexAddUnsure DEF UnsureKeys
<1>8. ~Crash
  BY DEF Crash
<1> QED BY <1>2, <1>3, <1>4, <1>5, <1>6, <1>7, <1>8 DEF Next, Step, Insert, Update, Revert

\* values of different types compare as nothing
LEMMA TypesDiffer ==
    ASSUME NEW x, NEW q \in Condition,
           \A v \in Bounds(q) : v # NULL /\ x[q.column] # NULL => x[q.column][1] # v[1]
    PROVE  ~Holds(x, q)
BY DEF Holds, Bounds, CompareValues, SameType

\* the clauses of MismatchAnswers that select nothing
Mismatched(q) ==
    \/ q.column \in IntColumn /\ \A v \in Bounds(q) : IsString(v)
    \/ q.column \in StringColumn /\ Bounds(q) \subseteq Integer64
    \/ /\ q.column \in IntColumn \cup StringColumn
       /\ IsString(q.right) /\ q.third \in Integer64

\* the clauses whose BETWEEN goes from an integer to a string
Mixed(q) == /\ q.column \in IntColumn \cup StringColumn
            /\ q.right \in Integer64 /\ Short(q.third)

\* the constants of a clause
LEMMA Operands ==
    ASSUME NEW q \in Condition
    PROVE  /\ q.column \in Column /\ q.right \in Constant /\ q.right \in Bounds(q)
           /\ q.op \in {"EQ", "NEQ", "LT", "GT", "LTE", "GTE", "BETWEEN"}
           /\ q.third # NULL => q.op = "BETWEEN"
           /\ q.op = "BETWEEN" => q.third \in Constant /\ q.third \in Bounds(q)
           /\ \A v \in Bounds(q) : v \in Constant
           /\ q.op # "BETWEEN" => Bounds(q) = {q.right}
BY DEF Condition, Bounds

\* no row passes the scan of a clause with a constant of another type
LEMMA MismatchScan ==
    ASSUME RowsValid, NEW q \in Condition, Mismatched(q) \/ Mixed(q)
    PROVE  Scan(q) = {}
<1> SUFFICES ASSUME NEW r \in Live PROVE ~Holds(heap[r], q)
  BY DEF Scan
<1> DEFINE x == heap[r][q.column]
<1>1. ValidateRow(heap[r]) /\ q.column \in Column
  BY DEF RowsValid, ValidOrFree, Live, Condition
<1>2. x # NULL => x \in Typed[q.column]
  BY <1>1 DEF ValidateRow
<1>3. /\ \A w \in Integer64 : w[1] = "INT" /\ w # NULL
      /\ \A w : IsString(w) => w[1] = "STRING" /\ w # NULL
  BY IntegerKeys DEF IsInt, IsString
<1>4. x # NULL => \E w \in Bounds(q) : w # NULL /\ x[1] # w[1]
  <2> HAVE x # NULL
  <2>1. (q.column \in IntColumn /\ x[1] = "INT") \/ (q.column \in StringColumn /\ x[1] = "STRING")
    BY <1>2, <1>3 DEF Mismatched, Mixed, IntColumn, StringColumn
  <2>2. CASE Bounds(q) \subseteq Integer64 \/ \A w \in Bounds(q) : IsString(w)
    <3>1. q.right \in Bounds(q)
      BY Operands
    <3>2. CASE Mismatched(q)
      <4>1. /\ q.column \in IntColumn => x[1] = "INT"
            /\ q.column \in StringColumn => x[1] = "STRING"
        BY <1>2, <1>3 DEF IntColumn, StringColumn
      <4> QED BY <1>3, <3>1, <3>2, <4>1, Operands DEF Mismatched
    <3>3. CASE Mixed(q)
      BY <1>3, <2>2, <3>3, Operands DEF Mixed, Short
    <3> QED BY <3>2, <3>3
  <2>3. CASE ~(Bounds(q) \subseteq Integer64 \/ \A w \in Bounds(q) : IsString(w))
    <3>1. /\ (q.right \in Integer64 /\ IsString(q.third)) \/ (IsString(q.right) /\ q.third \in Integer64)
          /\ q.right \in Bounds(q)
      BY <2>3, Operands DEF Mismatched, Mixed, Short
    <3>2. q.third \in Bounds(q)
      BY <1>3, <3>1, Operands
    <3> QED BY <1>3, <2>1, <3>1, <3>2
  <2> QED BY <2>2, <2>3
<1>5. q.op # "BETWEEN" => Bounds(q) = {q.right}
  BY Operands
<1>6. q.op = "BETWEEN" => Bounds(q) = {q.right, q.third}
  BY DEF Bounds
<1>7. \A w, op : x = NULL \/ x[1] # w[1] => ~CompareValues(x, w, op)
  BY DEF CompareValues, SameType
<1> HIDE DEF x
<1>8. CASE q.op = "BETWEEN"
  <2>1. ~CompareValues(x, q.right, "GTE") \/ ~CompareValues(x, q.third, "LT")
    BY <1>4, <1>6, <1>7, <1>8
  <2> QED BY <1>8, <2>1 DEF Holds, x
<1>9. CASE q.op # "BETWEEN"
  <2>1. ~CompareValues(x, q.right, q.op)
    BY <1>4, <1>5, <1>7, <1>9
  <2> QED BY <1>9, <2>1 DEF Holds, x
<1> QED BY <1>8, <1>9

\* such a clause asks its index for no key of a value of the column
LEMMA MismatchKeys ==
    ASSUME NEW q \in Condition, Mismatched(q), Planned(q), NEW v \in Typed[q.column]
    PROVE  Cut(v) \notin Asked(q)
<1> DEFINE c == q.column
           w == q.right
           low == KeyRange(q)[1]
           high == KeyRange(q)[2]
<1>0. c \in Column /\ v \in Value /\ v \in Typed[c]
  BY TypeAssumption, Operands
<1>1. (\A x \in Integer64 : Rank(Cut(x)) = 1) /\ (\A x \in String : Rank(Cut(x)) = 2)
  BY IntegerKeys, CutString, StringParts
<1>2. /\ c \in IntColumn => Rank(Cut(v)) = 1
      /\ c \in StringColumn => Rank(Cut(v)) = 2
  BY <1>0, <1>1, StringAssumption DEF IntColumn, StringColumn
<1>3. q.op \in {"EQ", "LT", "GT", "LTE", "GTE", "BETWEEN"} /\ w \in Constant /\ w \in Bounds(q)
  BY Operands DEF Planned
<1>4. q.op = "BETWEEN" => low = w /\ high = q.third /\ q.third \in Bounds(q) /\ q.third \in Constant
  BY Operands DEF KeyRange
<1>5. \A x \in Constant : IsString(x) => x \in String
  BY StringAssumption
<1>6. q.third \in Integer64 => q.op = "BETWEEN"
  BY IntegerKeys, Operands
<1> HIDE DEF c
<1>7. CASE c \in IntColumn /\ \A x \in Bounds(q) : IsString(x)
  <2>1. w \in String /\ ~IsInt(w)
    BY <1>3, <1>5, <1>7, StringParts
  <2>2. q.op \notin {"EQ", "BETWEEN"} => low = StringRange(q.op, w)[1]
    BY <2>1 DEF KeyRange
  <2>3. q.op # "EQ" => low \in String
    BY <1>3, <1>4, <2>1, <2>2, StringRanges DEF StringRange
  <2>4. q.op # "EQ" => KeyLess(Cut(v), Cut(low))
    BY <1>1, <1>2, <1>7, <2>3, RankOrder
  <2> QED BY <1>1, <1>2, <1>7, <2>1, <2>4 DEF Asked
<1>8. CASE c \in StringColumn /\ Bounds(q) \subseteq Integer64
  <2>1. w \in Integer64 /\ IsInt(w)
    BY <1>3, <1>8, IntegerKeys
  <2>2. q.op \notin {"EQ", "BETWEEN"} => high = IntRange(q.op, w)[2]
    BY <2>1 DEF KeyRange
  <2>3. q.op # "EQ" => high \in Integer64
    BY <1>3, <1>4, <1>8, <2>1, <2>2, IntRanges DEF IntRange
  <2>4. q.op # "EQ" => ~KeyLess(Cut(v), Cut(high))
    BY <1>1, <1>2, <1>8, <2>3, RankOrder
  <2> QED BY <1>1, <1>2, <1>8, <2>1, <2>4 DEF Asked
<1>9. CASE c \in IntColumn \cup StringColumn /\ IsString(w) /\ q.third \in Integer64
  <2>1. q.op = "BETWEEN" /\ low \in String /\ high \in Integer64
    BY <1>3, <1>4, <1>5, <1>6, <1>9
  <2>2. Rank(Cut(v)) < Rank(Cut(low)) \/ Rank(Cut(high)) < Rank(Cut(v))
    BY <1>1, <1>2, <1>9, <2>1
  <2> QED BY <2>1, <2>2, RankOrder DEF Asked
<1> QED BY <1>7, <1>8, <1>9 DEF Mismatched, c

\* so the index answers that there is no row, and knows it
LEMMA MismatchPlan ==
    ASSUME Inv, RowsValid, UnsureKeys, IndexAgrees, AtRest, NEW q \in Condition, Mismatched(q)
    PROVE  MatchingRecords(q) = {{}}
<1> DEFINE c == q.column
<1>1. CASE ~Planned(q)
  BY <1>1, MismatchScan DEF MatchingRecords
<1>2. CASE Planned(q)
  <2>1. c \in Indexed
    BY <1>2 DEF Planned
  <2>2. \A v \in Typed[c] : KeyOf[v] = Cut(v) /\ Cut(v) \notin Asked(q) /\ Cut(v) # NULL
    <3> SUFFICES ASSUME NEW v \in Typed[c]
                 PROVE  KeyOf[v] = Cut(v) /\ Cut(v) \notin Asked(q) /\ Cut(v) # NULL
      OBVIOUS
    <3>1. v \in Value
      BY TypeAssumption, Operands
    <3>2. v \in Integer64 \/ v \in String
      BY <3>1, StringAssumption DEF Mismatched, IntColumn, StringColumn
    <3>3. Cut(v) # NULL
      BY <3>2, IntegerKeys, CutString, StringParts
    <3> QED BY <1>2, <3>1, <3>3, CutAssumption, MismatchKeys DEF MaybeValue
  <2>3. \A k \in unsure[c] : k \notin Asked(q) /\ k # NULL
    BY <2>1, <2>2 DEF UnsureKeys, AtRest
  <2>4. ~Torn(c)
    BY <2>3 DEF Torn, MaybeValue
  <2>5. {e \in index[c] : e[1] \in Asked(q)} = {}
    BY <2>1, <2>2, IndexKeys, ColumnValues
  <2>6. Answers(c, Asked(q)) = {{}}
    BY <2>3, <2>4, <2>5 DEF Answers
  <2> QED BY <1>2, <2>6, ReachedAsked
<1> QED BY <1>1, <1>2

\* a BETWEEN from an integer to a string keeps the bound of the column's type
LEMMA StraddledPlan ==
    ASSUME Inv, RowsValid, IndexAgrees, AtRest, NEW q \in Condition, Mixed(q)
    PROVE  Reached(q) = Straddled(q)
<1> DEFINE c == q.column
           v == q.right
           w == q.third
<1>0. /\ v \in Integer64 /\ v # NULL /\ Cut(v) = v /\ Rank(v) = 1
      /\ q.op = "BETWEEN" /\ w \in String /\ Len(w[2]) < KeyLen /\ Rank(Cut(w)) = 2
      /\ c \in IntColumn \cup StringColumn
  <2>1. v \in Integer64 /\ Short(w) /\ w # NULL /\ c \in IntColumn \cup StringColumn
    BY DEF Mixed, Short, IsString
  <2>2. q.op = "BETWEEN" /\ w \in String
    BY <2>1, Operands, StringAssumption DEF Short
  <2> QED BY <2>1, <2>2, IntegerKeys, CutString, StringParts DEF Short
<1>1. CASE ~Planned(q)
  <2>1. c \notin Indexed
    BY <1>0, <1>1 DEF Planned
  <2> QED BY <1>1, <2>1, MismatchScan DEF Reached, Straddled
<1>2. CASE Planned(q)
  <2>1. c \in Indexed /\ Reached(q) = InRange(c, v, w)
    BY <1>0, <1>2 DEF Planned, Reached, KeyRange
  <2>2. CASE c \in IntColumn
    <3>1. ASSUME NEW r \in Live
          PROVE  ~KeyLess(Cut(heap[r][c]), v) /\ KeyLess(Cut(heap[r][c]), Cut(w))
                     <=> CompareValues(heap[r][c], v, "GTE")
      <4>1. heap[r][c] \in Integer64
        BY <2>1, <2>2, <3>1, ColumnValues
      <4>2. Cut(heap[r][c]) = heap[r][c] /\ Rank(heap[r][c]) = 1
        BY <4>1, IntegerKeys
      <4>3. KeyLess(heap[r][c], v) <=> heap[r][c][2] < v[2]
        BY <1>0, <4>1, IntegerKeys
      <4>4. CompareValues(heap[r][c], v, "GTE") <=> heap[r][c][2] >= v[2]
        BY <1>0, <4>1, IntCompare
      <4>5. heap[r][c][2] \in Int /\ v[2] \in Int
        BY <1>0, <4>1, IntegerKeys, RangeAssumption
      <4>6. KeyLess(Cut(heap[r][c]), Cut(w))
        BY <1>0, <4>2, RankOrder
      <4> QED BY <4>2, <4>3, <4>4, <4>5, <4>6
    <3>2. Straddled(q) = {r \in Live : CompareValues(heap[r][c], v, "GTE")}
      BY <2>1, <2>2 DEF Straddled
    <3> QED BY <1>0, <2>1, <3>1, <3>2 DEF InRange
  <2>3. CASE c \notin IntColumn /\ c \in StringColumn
    <3>1. ASSUME NEW r \in Live
          PROVE  ~KeyLess(Cut(heap[r][c]), v) /\ KeyLess(Cut(heap[r][c]), Cut(w))
                     <=> CompareValues(heap[r][c], w, "LT")
      <4>1. heap[r][c] \in String
        BY <2>1, <2>3, <3>1, ColumnValues, StringAssumption
      <4>2. Rank(Cut(heap[r][c])) = 2
        BY <4>1, CutString, StringParts
      <4>3. ~KeyLess(Cut(heap[r][c]), v)
        BY <1>0, <4>2, RankOrder
      <4>4. Len(w[2]) <= KeyLen
        BY <1>0, StringParts, LenProperties, StringAssumption
      <4>5. KeyLess(Cut(heap[r][c]), Cut(w)) <=> Precedes(heap[r][c][2], w[2])
        BY <1>0, <4>1, <4>4, CutCompares
      <4>6. CompareValues(heap[r][c], w, "LT") <=> Precedes(heap[r][c][2], w[2])
        BY <1>0, <4>1, StringCompare
      <4> QED BY <4>3, <4>5, <4>6
    <3>2. Straddled(q) = {r \in Live : CompareValues(heap[r][c], w, "LT")}
      BY <2>1, <2>3 DEF Straddled
    <3> QED BY <1>0, <2>1, <3>1, <3>2 DEF InRange
  <2> QED BY <1>0, <2>2, <2>3
<1> QED BY <1>1, <1>2

\* Between the statements of a process that was not killed, a clause with a
\* constant of another type than its column's selects no row by a scan and none
\* through an index, keys that were in it twice included, but for a BETWEEN from
\* an integer to a string, which selects through an index the rows on the right
\* side of the bound that has the column's type.
THEOREM MismatchAnswersAlways == Spec => []MismatchAnswers
<1> DEFINE J == Inv /\ RowsValid /\ Agreement /\ UnsureKeys
<1>1. Init => J
  BY InitInv, InitRowsValid, InitAgreement DEF Init, UnsureKeys
<1>2. J /\ [Next]_vars => J'
  BY NextInv, NextRowsValid, NextAgreement, NextUnsureKeys
<1>3. J => MismatchAnswers
  <2> SUFFICES ASSUME Inv, RowsValid, UnsureKeys, IndexAgrees, AtRest, NEW q \in Condition
               PROVE  /\ Mismatched(q) => Scan(q) = {} /\ MatchingRecords(q) = {{}}
                      /\ Mixed(q) => Scan(q) = {} /\ Selects(q, Straddled(q))
    BY AgreementImpliesIndexAgrees DEF MismatchAnswers, Mismatched, Mixed
  <2>1. Mixed(q) => Selects(q, Straddled(q))
    BY ReachedSelected, StraddledPlan
  <2> QED BY <2>1, MismatchScan, MismatchPlan
<1> QED BY <1>1, <1>2, <1>3, PTL DEF Spec
=============================================================================
