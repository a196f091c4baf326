------------------------------ MODULE Catalog -------------------------------
(***************************************************************************)
(* Databases and tables as directories and files (src/src/                 *)
(* storage_engine.hpp): CREATE, DROP and REVERT make and remove the files  *)
(* of a table one by one, and a start of the process opens what it finds.  *)
(*                                                                         *)
(* A file is seen as the rows in it, and a row as the number of the CREATE *)
(* whose table it was inserted into, so that rows a file kept from an      *)
(* earlier table of the same name are told apart.  INSERT is one step here *)
(* (TableStore takes it apart), and so is putting the rows back at the end *)
(* of a REVERT.                                                            *)
(***************************************************************************)
EXTENDS Integers, FiniteSets

CONSTANTS
    Dbs,        \* the names of databases
    Tables,     \* the names of tables
    Columns,    \* the indexed columns of every table, in order
    None,       \* a file that is absent or of length 0; no database in use
    Torn,       \* an index file with a root page but zeros for its metadata
    MaxCreated  \* bound: the tables created

ASSUME NameAssumption == None \notin Dbs /\ None # Torn
ASSUME ColumnAssumption == Columns \subseteq Nat
ASSUME BoundAssumption == MaxCreated \in Nat
ASSUME FileAssumption == \A R \in SUBSET (1 .. MaxCreated) : R # None /\ R # Torn

VARIABLES
    dirs,     \* the directories of databases
    dat,      \* the data file of each table
    schema,   \* its schema file
    wal,      \* its operation log
    idx,      \* the file of each of its indexes
    known,    \* the keys of databases_
    open,     \* the tables in databases_: with columns, bare of any, or not there
    current,  \* current_db_
    pc,       \* where the running statement, or the start of the process, is
    job,      \* its table
    todo,     \* the columns whose index it has still to visit
    started,  \* whether it has written the root of the next one
    target,   \* REVERT: the rows to put back
    born,     \* history: the CREATE of each table, 0 when there is none
    created,  \* history: the tables created so far
    cut       \* history: the statements on each name that a crash cut short

disk == <<dirs, dat, schema, wal, idx>>
memory == <<known, open, current>>
regs == <<job, todo, started, target>>
ghost == <<born, created, cut>>
vars == <<disk, memory, pc, regs, ghost>>

Key == Dbs \X Tables
Of(d) == {k \in Key : k[1] = d}
ColumnsOf(k) == IF open[k] = "yes" THEN Columns ELSE {}

First(c) == c \in todo /\ \A b \in todo : c <= b

Gone(k) == /\ dat[k] = None /\ schema[k] = "none" /\ wal[k] = {}
           /\ \A c \in Columns : idx[k][c] = None

Init ==
    /\ dirs = {} /\ known = {} /\ current = None
    /\ dat = [k \in Key |-> None] /\ schema = [k \in Key |-> "none"]
    /\ wal = [k \in Key |-> {}] /\ idx = [k \in Key |-> [c \in Columns |-> None]]
    /\ open = [k \in Key |-> "no"]
    /\ pc = "idle" /\ job = None /\ todo = {} /\ started = FALSE /\ target = {}
    /\ born = [k \in Key |-> 0] /\ created = 0 /\ cut = [k \in Key |-> {}]

End == pc' = "idle" /\ job' = None /\ todo' = {} /\ started' = FALSE /\ target' = {}

(***************************************************************************)
(* Databases.                                                              *)
(***************************************************************************)
CreateDatabase ==
    /\ pc = "idle"
    /\ \E d \in Dbs \ known : dirs' = dirs \cup {d} /\ known' = known \cup {d}
    /\ UNCHANGED <<dat, schema, wal, idx, open, current, pc, regs, ghost>>

UseDatabase ==
    /\ pc = "idle"
    /\ current' \in known
    /\ UNCHANGED <<disk, known, open, pc, regs, ghost>>

\* Mutant: the database in use stays in use.
ForgetKeepsCurrent(d) ==
    /\ known' = known \ {d}
    /\ open' = [k \in Key |-> IF k[1] = d THEN "no" ELSE open[k]]
    /\ UNCHANGED current

Forget(d) ==
    /\ known' = known \ {d}
    /\ open' = [k \in Key |-> IF k[1] = d THEN "no" ELSE open[k]]
    /\ current' = IF current = d THEN None ELSE current

BeginDropDatabase ==
    /\ pc = "idle"
    /\ \E d \in known : Forget(d) /\ job' = <<d, None>>
    /\ pc' = "dropDb"
    /\ UNCHANGED <<disk, todo, started, target, ghost>>

\* remove_all takes the files of the directory in any order
RemoveFile ==
    /\ pc = "dropDb"
    /\ \E k \in Of(job[1]) :
          \/ /\ dat[k] # None /\ dat' = [dat EXCEPT ![k] = None]
             /\ UNCHANGED <<schema, wal, idx>>
          \/ /\ schema[k] # "none" /\ schema' = [schema EXCEPT ![k] = "none"]
             /\ UNCHANGED <<dat, wal, idx>>
          \/ /\ wal[k] # {} /\ wal' = [wal EXCEPT ![k] = {}]
             /\ UNCHANGED <<dat, schema, idx>>
          \/ \E c \in Columns :
             /\ idx[k][c] # None /\ idx' = [idx EXCEPT ![k][c] = None]
             /\ UNCHANGED <<dat, schema, wal>>
    /\ UNCHANGED <<dirs, memory, pc, regs, ghost>>

DropDatabaseEnd ==
    /\ pc = "dropDb" /\ \A k \in Of(job[1]) : Gone(k)
    /\ dirs' = dirs \ {job[1]}
    /\ born' = [k \in Key |-> IF k[1] = job[1] THEN 0 ELSE born[k]]
    /\ cut' = [k \in Key |-> IF k[1] = job[1] THEN {} ELSE cut[k]]
    /\ End
    /\ UNCHANGED <<dat, schema, wal, idx, memory, created>>

(***************************************************************************)
(* BPlusTree::initialize, for the next column: a file of some length is    *)
(* opened as it is; for a new one the root is written, then the metadata.  *)
(***************************************************************************)
OpenIndex ==
    /\ pc \in {"create", "load", "revert"} /\ ~started
    /\ \E c \in Columns : First(c) /\ idx[job][c] # None /\ todo' = todo \ {c}
    /\ UNCHANGED <<disk, memory, pc, job, started, target, ghost>>

WriteRoot ==
    /\ pc \in {"create", "load", "revert"} /\ ~started
    /\ \E c \in Columns :
          First(c) /\ idx[job][c] = None /\ idx' = [idx EXCEPT ![job][c] = Torn]
    /\ started' = TRUE
    /\ UNCHANGED <<dirs, dat, schema, wal, memory, pc, job, todo, target, ghost>>

WriteMeta ==
    /\ started
    /\ \E c \in Columns :
          /\ First(c)
          /\ idx' = [idx EXCEPT ![job][c] = {}]
          /\ IF pc = "load" THEN pc' = "fill" /\ UNCHANGED todo
             ELSE todo' = todo \ {c} /\ UNCHANGED pc
    /\ started' = FALSE
    /\ UNCHANGED <<dirs, dat, schema, wal, memory, job, target, ghost>>

(***************************************************************************)
(* Tables.                                                                 *)
(***************************************************************************)
Present(file) == IF file = None THEN {} ELSE file

BeginCreateTable ==
    /\ pc = "idle" /\ created < MaxCreated
    /\ \E k \in Of(current) :
          /\ open[k] = "no"
          /\ job' = k
          /\ dat' = [dat EXCEPT ![k] = Present(@)]
    /\ todo' = Columns
    /\ pc' = "create"
    /\ UNCHANGED <<dirs, schema, wal, idx, memory, started, target, ghost>>

RegisterTable ==
    /\ pc = "create" /\ todo = {}
    /\ open' = [open EXCEPT ![job] = "yes"]
    /\ schema' = [schema EXCEPT ![job] = "empty"]
    /\ pc' = "saveSchema"
    /\ UNCHANGED <<dirs, dat, wal, idx, known, current, regs, ghost>>

SaveSchema ==
    /\ pc = "saveSchema"
    /\ schema' = [schema EXCEPT ![job] = "full"]
    /\ created' = created + 1
    /\ born' = [born EXCEPT ![job] = created + 1]
    /\ End
    /\ UNCHANGED <<dirs, dat, wal, idx, memory, cut>>

Usable(k) == open[k] = "yes" /\ \A c \in Columns : idx[k][c] # Torn

Insert ==
    /\ pc = "idle"
    /\ \E k \in Of(current) :
          /\ Usable(k)
          /\ dat' = [dat EXCEPT ![k] = @ \cup {born[k]}]
          /\ idx' = [idx EXCEPT ![k] = [c \in Columns |-> @[c] \cup {born[k]}]]
          /\ wal' = [wal EXCEPT ![k] = @ \cup {born[k]}]
    /\ UNCHANGED <<dirs, schema, memory, pc, regs, ghost>>

\* read with zeros for metadata, an index has page 0 for its root, which reads
\* as an inner node that is its own child: find_leaf_page never returns
Hang ==
    /\ pc = "idle"
    /\ \E k \in Of(current) : open[k] = "yes" /\ ~Usable(k) /\ job' = k
    /\ pc' = "hung"
    /\ UNCHANGED <<disk, memory, todo, started, target, ghost>>

BeginDropTable ==
    /\ pc = "idle"
    /\ \E k \in Of(current) :
          /\ open[k] # "no"
          /\ open' = [open EXCEPT ![k] = "no"]
          /\ todo' = ColumnsOf(k)
          /\ dat' = [dat EXCEPT ![k] = None]
          /\ job' = k
    /\ pc' = "dropSchema"
    /\ UNCHANGED <<dirs, schema, wal, idx, known, current, started, target, ghost>>

DropSchema ==
    /\ pc = "dropSchema"
    /\ schema' = [schema EXCEPT ![job] = "none"]
    /\ pc' = "dropWal"
    /\ UNCHANGED <<dirs, dat, wal, idx, memory, regs, ghost>>

\* Mutant: the log is not removed.
DropWalNot ==
    /\ pc = "dropWal"
    /\ pc' = "dropIndex"
    /\ UNCHANGED <<disk, memory, regs, ghost>>

DropWal ==
    /\ pc = "dropWal"
    /\ wal' = [wal EXCEPT ![job] = {}]
    /\ pc' = "dropIndex"
    /\ UNCHANGED <<dirs, dat, schema, idx, memory, regs, ghost>>

\* Mutant: the indexes are opened again as they are.
RemoveIndexNot ==
    /\ pc \in {"dropIndex", "revertDrop"}
    /\ \E c \in Columns : First(c) /\ todo' = todo \ {c}
    /\ UNCHANGED <<disk, memory, pc, job, started, target, ghost>>

RemoveIndex ==
    /\ pc \in {"dropIndex", "revertDrop"}
    /\ \E c \in Columns :
          First(c) /\ idx' = [idx EXCEPT ![job][c] = None] /\ todo' = todo \ {c}
    /\ UNCHANGED <<dirs, dat, schema, wal, memory, pc, job, started, target, ghost>>

DropTableEnd ==
    /\ pc = "dropIndex" /\ todo = {}
    /\ born' = [born EXCEPT ![job] = 0]
    /\ cut' = [cut EXCEPT ![job] = IF Gone(job) THEN {} ELSE @]
    /\ End
    /\ UNCHANGED <<disk, memory, created>>

BeginRevert ==
    /\ pc = "idle"
    /\ \E k \in Of(current) :
          /\ open[k] # "no"
          /\ target' \in SUBSET wal[k]
          /\ todo' = ColumnsOf(k)
          /\ dat' = [dat EXCEPT ![k] = None]
          /\ job' = k
    /\ pc' = "revertDrop"
    /\ UNCHANGED <<dirs, schema, wal, idx, memory, started, ghost>>

RevertBuild ==
    /\ pc = "revertDrop" /\ todo = {}
    /\ dat' = [dat EXCEPT ![job] = {}]
    /\ todo' = ColumnsOf(job)
    /\ pc' = "revert"
    /\ UNCHANGED <<dirs, schema, wal, idx, memory, job, started, target, ghost>>

\* a logged row has as many values as the table it is put back into, or is
\* left out
RevertRows ==
    /\ pc = "revert" /\ todo = {}
    /\ LET rows == IF open[job] = "yes" THEN target ELSE {} IN
          /\ dat' = [dat EXCEPT ![job] = rows]
          /\ idx' = [idx EXCEPT ![job] =
                        [c \in Columns |-> IF c \in ColumnsOf(job) THEN @[c] \cup rows
                                           ELSE @[c]]]
    /\ End
    /\ UNCHANGED <<dirs, schema, wal, memory, ghost>>

(***************************************************************************)
(* The process dies, at any moment, and starts again: loadMetadata opens   *)
(* the tables that have a schema file, in any order.                       *)
(***************************************************************************)
Cause ==
    CASE pc \in {"create", "saveSchema"} -> {"create"}
      [] pc \in {"dropDb", "dropSchema", "dropWal", "dropIndex"} -> {"drop"}
      [] pc \in {"revertDrop", "revert"} -> {"revert"}
      [] OTHER -> {}

Crash ==
    /\ known' = dirs /\ open' = [k \in Key |-> "no"] /\ current' = None
    /\ cut' = [k \in Key |-> IF k = job \/ (pc = "dropDb" /\ k[1] = job[1])
                             THEN cut[k] \cup Cause ELSE cut[k]]
    /\ pc' = "boot" /\ job' = None /\ todo' = {} /\ started' = FALSE /\ target' = {}
    /\ UNCHANGED <<disk, born, created>>

LoadTable ==
    /\ pc = "boot"
    /\ \E k \in Key :
          /\ schema[k] # "none" /\ open[k] = "no"
          /\ dat' = [dat EXCEPT ![k] = Present(@)]
          /\ todo' = IF schema[k] = "full" THEN Columns ELSE {}
          /\ job' = k
    /\ pc' = "load"
    /\ UNCHANGED <<dirs, schema, wal, idx, memory, started, target, ghost>>

\* an index that had no file is built from the data file
FillIndex ==
    /\ pc = "fill"
    /\ \E c \in Columns :
          First(c) /\ idx' = [idx EXCEPT ![job][c] = dat[job]] /\ todo' = todo \ {c}
    /\ pc' = "load"
    /\ UNCHANGED <<dirs, dat, schema, wal, memory, job, started, target, ghost>>

LoadTableEnd ==
    /\ pc = "load" /\ todo = {}
    /\ open' = [open EXCEPT ![job] = IF schema[job] = "full" THEN "yes" ELSE "bare"]
    /\ pc' = "boot"
    /\ job' = None
    /\ UNCHANGED <<disk, known, current, todo, started, target, ghost>>

BootEnd ==
    /\ pc = "boot" /\ \A k \in Key : schema[k] # "none" => open[k] # "no"
    /\ End
    /\ UNCHANGED <<disk, memory, ghost>>

DropDatabase == BeginDropDatabase \/ RemoveFile \/ DropDatabaseEnd
InitializeIndex == OpenIndex \/ WriteRoot \/ WriteMeta
CreateTable == BeginCreateTable \/ RegisterTable \/ SaveSchema
DropTable == BeginDropTable \/ DropSchema \/ DropWal \/ RemoveIndex \/ DropTableEnd
Revert == BeginRevert \/ RevertBuild \/ RevertRows
Boot == LoadTable \/ FillIndex \/ LoadTableEnd \/ BootEnd

Next == CreateDatabase \/ UseDatabase \/ DropDatabase \/ CreateTable \/ InitializeIndex
        \/ Insert \/ Hang \/ DropTable \/ Revert \/ Crash \/ Boot

Spec == Init /\ [][Next]_vars

(***************************************************************************)
(* Properties.                                                             *)
(***************************************************************************)
Rows == SUBSET (1 .. MaxCreated)

\* Files, the map of databases and the statement in progress keep their types;
\* the database in use is one of databases_, and so is that of an open table.
TypeOK ==
    /\ dirs \subseteq Dbs /\ known \subseteq Dbs
    /\ current \in known \cup {None}
    /\ dat \in [Key -> Rows \cup {None}] /\ wal \in [Key -> Rows]
    /\ schema \in [Key -> {"none", "empty", "full"}]
    /\ idx \in [Key -> [Columns -> Rows \cup {None, Torn}]]
    /\ open \in [Key -> {"no", "bare", "yes"}]
    /\ \A k \in Key : open[k] # "no" => k[1] \in known
    /\ job \in Key \cup (Dbs \X {None}) \cup {None}
    /\ todo \subseteq Columns /\ started \in BOOLEAN /\ target \in Rows
    /\ born \in [Key -> 0 .. MaxCreated] /\ created \in 0 .. MaxCreated

RowsOf(file) == IF file \in {None, Torn} THEN {} ELSE file

\* A table owns its files: unless a DROP of its name was cut short, no file of
\* it holds, and no REVERT restores, a row of an earlier table of that name; a
\* table that was dropped has left no row behind, whatever crashed elsewhere.
OnlyOwnRows ==
    \A k \in Key : "drop" \notin cut[k] =>
        /\ RowsOf(dat[k]) \cup wal[k] \subseteq {born[k]}
        /\ \A c \in Columns : RowsOf(idx[k][c]) \subseteq {born[k]}

\* A table whose CREATE was acknowledged is there after every start, with its
\* schema, its rows in the data file and in every index, as long as no statement
\* on that very table was cut short; and only those that were can hang.
AcknowledgedSurvives ==
    /\ pc = "idle" => \A k \in Key : cut[k] = {} /\ born[k] # 0 =>
          /\ open[k] = "yes" /\ schema[k] = "full"
          /\ dat[k] \subseteq wal[k] /\ \A c \in Columns : idx[k][c] = dat[k]
    /\ pc = "hung" => cut[job] # {}
=============================================================================
