--------------------------- MODULE CatalogProofs ----------------------------
(***************************************************************************)
(* A table owns its files, and one that was acknowledged is there after    *)
(* every start, whatever the statements on the other tables did and        *)
(* wherever the process died.                                              *)
(***************************************************************************)
EXTENDS Catalog, TLAPS

Causes == {"create", "drop", "revert"}
DropSteps == {"dropSchema", "dropWal", "dropIndex"}
CreateSteps == {"create", "saveSchema"}
RevertSteps == {"revertDrop", "revert"}
LoadSteps == {"load", "fill"}
TableSteps == DropSteps \cup CreateSteps \cup RevertSteps \cup LoadSteps

\* The statement that is at work on a table, if one is.
InDrop(k) == \/ pc = "dropDb" /\ k[1] = job[1]
             \/ pc \in DropSteps /\ k = job
InCreate(k) == pc \in CreateSteps /\ k = job
InRevert(k) == pc \in RevertSteps /\ k = job

\* The registers say what the running statement works on; a database is known
\* while its directory exists, and one without a directory has left nothing.
StepInv ==
    /\ pc \in {"idle", "boot", "hung", "dropDb"} \cup TableSteps
    /\ pc \in TableSteps \cup {"hung"} => job \in Key /\ job[1] \in dirs
    /\ pc = "dropDb" => job \in Dbs \X {None} /\ job[1] \in dirs
    /\ pc \in CreateSteps => created < MaxCreated
    /\ pc \in {"idle", "boot"} => todo = {}
    /\ started => /\ pc \in {"create", "load", "revert"}
                  /\ \E c \in Columns : First(c) /\ idx[job][c] = Torn
    /\ cut \in [Key -> SUBSET Causes]
    /\ known = IF pc = "dropDb" THEN dirs \ {job[1]} ELSE dirs
    /\ \A k \in Key : k[1] \notin dirs =>
          Gone(k) /\ open[k] = "no" /\ born[k] = 0 /\ cut[k] = {}

\* The files of a table whatever was cut short: an open table has them, and one
\* with a full schema was once acknowledged.
FilesInv(k) ==
    /\ schema[k] = "full" => born[k] # 0
    /\ open[k] = "yes" /\ ~InCreate(k) => schema[k] = "full"
    /\ open[k] = "yes" /\ ~InRevert(k) =>
          dat[k] # None /\ \A c \in Columns : idx[k][c] # None
    /\ open[k] = "no" /\ ~InDrop(k) /\ pc \notin LoadSteps \cup {"boot"} =>
          schema[k] = "none"
    /\ open[k] = "bare" => schema[k] = "empty"
    /\ InDrop(k) => open[k] = "no"

\* The files of a table no DROP of which was cut short.
OwnInv(k) ==
    "drop" \notin cut[k] =>
        /\ RowsOf(dat[k]) \cup wal[k] \subseteq {born[k]}
        /\ \A c \in Columns : RowsOf(idx[k][c]) \subseteq {born[k]}
        /\ born[k] # 0 /\ ~InDrop(k) => schema[k] = "full"

\* The files of a table no statement of which was cut short.
WholeInv(k) ==
    cut[k] = {} =>
        /\ open[k] # "bare"
        /\ born[k] = 0 /\ ~InCreate(k) => Gone(k) /\ open[k] = "no"
        /\ born[k] # 0 /\ ~InDrop(k) /\ ~InRevert(k) =>
              /\ dat[k] # None /\ dat[k] \subseteq wal[k]
              /\ \A c \in Columns : idx[k][c] = dat[k]
              /\ open[k] = "no" => pc \in LoadSteps \cup {"boot"}

\* The indexes a statement has built so far: those still to be built have no
\* file, except for the root page of the one it is at.
Rebuilt == \A c \in Columns :
    IF c \in todo THEN idx[job][c] = None \/ (started /\ First(c) /\ idx[job][c] = Torn)
    ELSE idx[job][c] = {}

Removed == \A c \in Columns \ todo : idx[job][c] = None

\* The table of the running statement: what a DROP has removed, what a CREATE
\* has made, what a start has opened, what a REVERT has removed and made again;
\* and only a table with a statement cut short can have hung one.
DropInv == pc \in DropSteps =>
    /\ dat[job] = None
    /\ pc # "dropSchema" => schema[job] = "none"
    /\ pc = "dropIndex" => wal[job] = {}
    /\ "drop" \notin cut[job] => Removed \/ (born[job] = 0 /\ cut[job] # {})

CreateInv == pc \in CreateSteps =>
    /\ pc = "create" => open[job] = "no"
    /\ pc = "saveSchema" => open[job] = "yes" /\ schema[job] = "empty" /\ todo = {}
    /\ dat[job] # None /\ \A c \in Columns \ todo : idx[job][c] # None
    /\ cut[job] = {} => Rebuilt

LoadInv == pc \in LoadSteps =>
    /\ dat[job] # None /\ schema[job] # "none" /\ open[job] = "no"
    /\ schema[job] = "full" => \A c \in Columns \ todo : idx[job][c] # None
    /\ pc = "fill" => cut[job] # {}

RevertInv == pc \in RevertSteps =>
    /\ open[job] # "no" /\ target \subseteq wal[job]
    /\ pc = "revertDrop" /\ open[job] = "yes" => Removed
    /\ pc = "revert" => dat[job] = {} /\ (open[job] = "yes" => Rebuilt)

HungInv == pc = "hung" => cut[job] # {}

JobInv == DropInv /\ CreateInv /\ LoadInv /\ RevertInv /\ HungInv

CatalogInv ==
    /\ TypeOK
    /\ StepInv
    /\ \A k \in Key : FilesInv(k) /\ OwnInv(k) /\ WholeInv(k)
    /\ JobInv

\* A write to the file of one index leaves the others alone.
LEMMA IndexWritten ==
    ASSUME NEW S, NEW i \in [Key -> [Columns -> S]], NEW k \in Key, NEW c \in Columns,
           NEW v \in S
    PROVE  /\ [i EXCEPT ![k][c] = v] \in [Key -> [Columns -> S]]
           /\ \A l \in Key, b \in Columns :
                 [i EXCEPT ![k][c] = v][l][b] = IF l = k /\ b = c THEN v ELSE i[l][b]
  <1>1. [i[k] EXCEPT ![c] = v] \in [Columns -> S]
    OBVIOUS
  <1> QED BY <1>1

\* At most one index is the next to visit.
LEMMA OneFirst == ASSUME NEW b \in Columns, NEW c \in Columns, First(b), First(c) PROVE b = c
  <1>1. b \in Nat /\ c \in Nat /\ b <= c /\ c <= b
    BY ColumnAssumption DEF First
  <1> QED BY <1>1

\* The index whose metadata is written has its root page and nothing else.
MetaWritten(c) ==
    /\ First(c) /\ idx[job][c] = Torn
    /\ \A l \in Key, b \in Columns : idx'[l][b] = IF l = job /\ b = c THEN {} ELSE idx[l][b]
    /\ \/ pc = "load" /\ pc' = "fill" /\ todo' = todo
       \/ pc # "load" /\ pc' = pc /\ todo' = todo \ {c}

\* InitializeIndex writes the metadata of one index, the last write of its file, and goes on.
LEMMA WriteMetaStep ==
    ASSUME CatalogInv, WriteMeta
    PROVE  /\ pc \in {"create", "load", "revert"} /\ job \in Key
           /\ \E c \in Columns : MetaWritten(c)
  <1>0. TypeOK /\ {} \in Rows
    BY DEF CatalogInv, Rows
  <1>1. pc \in {"create", "load", "revert"} /\ job \in Key
    BY DEF CatalogInv, StepInv, WriteMeta, TableSteps, CreateSteps, LoadSteps, RevertSteps
  <1>2. PICK a \in Columns : First(a) /\ idx[job][a] = Torn
    BY DEF CatalogInv, StepInv, WriteMeta
  <1>3. PICK c \in Columns :
          /\ First(c) /\ idx' = [idx EXCEPT ![job][c] = {}]
          /\ IF pc = "load" THEN pc' = "fill" /\ todo' = todo
             ELSE todo' = todo \ {c} /\ pc' = pc
    BY DEF WriteMeta
  <1>4. idx[job][c] = Torn
    BY <1>2, <1>3, OneFirst
  <1>5. \A l \in Key, b \in Columns :
           idx'[l][b] = IF l = job /\ b = c THEN {} ELSE idx[l][b]
    BY <1>0, <1>1, <1>3, IndexWritten DEF TypeOK
  <1> QED BY <1>1, <1>3, <1>4, <1>5 DEF MetaWritten

\* An insert adds a row to every file of an open table that lacks none.
Inserted(k) ==
    /\ open[k] = "yes" /\ born[k] \in 1 .. MaxCreated
    /\ dat[k] \in Rows /\ dat'[k] = dat[k] \cup {born[k]} /\ dat'[k] \in Rows
    /\ wal'[k] = wal[k] \cup {born[k]}
    /\ dat' \in [Key -> Rows \cup {None}] /\ wal' \in [Key -> Rows]
    /\ idx' \in [Key -> [Columns -> Rows \cup {None, Torn}]]
    /\ \A c \in Columns : /\ idx[k][c] \in Rows /\ idx'[k][c] \in Rows
                          /\ idx'[k][c] = idx[k][c] \cup {born[k]}
    /\ \A l \in Key \ {k} : dat'[l] = dat[l] /\ wal'[l] = wal[l] /\ idx'[l] = idx[l]
    /\ UNCHANGED <<dirs, schema, memory, regs, ghost, open, born, cut, job, pc>>
    /\ pc = "idle"

\* INSERT adds one row to the data file, the log and every index of an open table.
LEMMA InsertStep ==
    ASSUME CatalogInv, Insert
    PROVE  \E k \in Key : Inserted(k)
  <1>0. TypeOK /\ pc = "idle"
    BY DEF CatalogInv, Insert
  <1>1. PICK k \in Key :
          /\ Usable(k)
          /\ dat' = [dat EXCEPT ![k] = @ \cup {born[k]}]
          /\ idx' = [idx EXCEPT ![k] = [c \in Columns |-> @[c] \cup {born[k]}]]
          /\ wal' = [wal EXCEPT ![k] = @ \cup {born[k]}]
    BY DEF Insert, Of
  <1>2. /\ open[k] = "yes" /\ born[k] \in 1 .. MaxCreated /\ dat[k] # None
        /\ \A c \in Columns : idx[k][c] # None /\ idx[k][c] # Torn
    BY <1>0, <1>1, BoundAssumption
       DEF CatalogInv, FilesInv, Usable, TypeOK, InCreate, InRevert, CreateSteps, RevertSteps
  <1>3. dat[k] \in Rows /\ dat[k] \cup {born[k]} \in Rows
    BY <1>0, <1>2 DEF TypeOK, Rows
  <1>4. ASSUME NEW c \in Columns
        PROVE  idx[k][c] \in Rows /\ idx[k][c] \cup {born[k]} \in Rows
    BY <1>0, <1>2 DEF TypeOK, Rows
  <1>5. /\ dat'[k] = dat[k] \cup {born[k]} /\ wal'[k] = wal[k] \cup {born[k]}
        /\ \A c \in Columns : idx'[k][c] = idx[k][c] \cup {born[k]}
        /\ \A l \in Key \ {k} : dat'[l] = dat[l] /\ wal'[l] = wal[l] /\ idx'[l] = idx[l]
    BY <1>0, <1>1 DEF TypeOK
  <1>6. UNCHANGED <<dirs, schema, memory, regs, ghost, open, born, cut, job, pc>>
    BY DEF Insert, memory, regs, ghost
  <1>7. dat' \in [Key -> Rows \cup {None}]
    BY <1>0, <1>1, <1>3 DEF TypeOK
  <1>8. wal' \in [Key -> Rows]
    BY <1>0, <1>1, <1>2 DEF TypeOK, Rows
  <1>9. idx' \in [Key -> [Columns -> Rows \cup {None, Torn}]]
    <2>1. [c \in Columns |-> idx[k][c] \cup {born[k]}] \in [Columns -> Rows \cup {None, Torn}]
      BY <1>4
    <2> QED BY <1>0, <1>1, <2>1 DEF TypeOK
  <1> QED BY <1>0, <1>2, <1>3, <1>4, <1>5, <1>6, <1>7, <1>8, <1>9 DEF Inserted

\* The end of a REVERT gives the file and the indexes the rows chosen from the log.
RowsRestored ==
    LET rows == IF open[job] = "yes" THEN target ELSE {} IN
    /\ job \in Key /\ pc = "revert" /\ pc' = "idle" /\ open[job] \in {"bare", "yes"}
    /\ dat' \in [Key -> Rows \cup {None}]
    /\ idx' \in [Key -> [Columns -> Rows \cup {None, Torn}]]
    /\ rows \in Rows /\ rows \subseteq wal[job]
    /\ dat'[job] = rows
    /\ open[job] = "yes" => \A c \in Columns : idx'[job][c] = rows
    /\ open[job] # "yes" => \A c \in Columns : idx'[job][c] = idx[job][c]
    /\ \A l \in Key \ {job} : dat'[l] = dat[l] /\ idx'[l] = idx[l]
    /\ UNCHANGED <<schema, wal, open, born, cut>>

\* REVERT puts its rows back into the data file and every index of its table.
LEMMA RevertRowsStep == ASSUME CatalogInv, RevertRows PROVE RowsRestored
  <1> DEFINE rows == IF open[job] = "yes" THEN target ELSE {}
             files == [c \in Columns |-> IF c \in ColumnsOf(job) THEN idx[job][c] \cup rows
                                         ELSE idx[job][c]]
  <1>1. TypeOK /\ job \in Key /\ {} \in Rows
    BY DEF CatalogInv, StepInv, RevertRows, TableSteps, RevertSteps, Rows
  <1>2. dat' = [dat EXCEPT ![job] = rows] /\ idx' = [idx EXCEPT ![job] = files]
    BY DEF RevertRows
  <1>3. /\ rows \in Rows /\ rows \subseteq wal[job] /\ open[job] \in {"bare", "yes"}
        /\ open[job] = "yes" => \A c \in Columns : idx[job][c] = {}
    <2>1. RevertInv /\ pc = "revert" /\ todo = {}
      BY DEF CatalogInv, JobInv, RevertRows
    <2> QED BY <1>1, <2>1 DEF RevertInv, RevertSteps, Rebuilt, TypeOK
  <1>4. /\ open[job] = "yes" => \A c \in Columns : files[c] = rows
        /\ open[job] # "yes" => \A c \in Columns : files[c] = idx[job][c]
    BY <1>3 DEF ColumnsOf
  <1>5. files \in [Columns -> Rows \cup {None, Torn}]
    <2>1. idx[job] \in [Columns -> Rows \cup {None, Torn}]
      BY <1>1 DEF TypeOK
    <2>2. \A c \in Columns : files[c] \in Rows \cup {None, Torn}
      BY <1>3, <1>4, <2>1
    <2> QED BY <2>2
  <1> HIDE DEF rows, files
  <1>6. /\ idx' \in [Key -> [Columns -> Rows \cup {None, Torn}]] /\ idx'[job] = files
        /\ \A l \in Key \ {job} : idx'[l] = idx[l]
    BY <1>1, <1>2, <1>5 DEF TypeOK
  <1>7. /\ dat' \in [Key -> Rows \cup {None}] /\ dat'[job] = rows
        /\ \A l \in Key \ {job} : dat'[l] = dat[l]
    BY <1>1, <1>2, <1>3 DEF TypeOK
  <1>8. UNCHANGED <<schema, wal, open, born, cut>> /\ pc = "revert" /\ pc' = "idle"
    BY DEF RevertRows, memory, ghost, End
  <1> QED BY <1>1, <1>3, <1>4, <1>6, <1>7, <1>8 DEF RowsRestored, rows

\* CREATE DATABASE: a directory that was not there holds no table.
LEMMA CreateDatabaseKeeps == CatalogInv /\ CreateDatabase => CatalogInv'
  <1> SUFFICES ASSUME CatalogInv, CreateDatabase PROVE CatalogInv'
    OBVIOUS
  <1>1. TypeOK'
    BY DEF CatalogInv, CreateDatabase, TypeOK, regs, ghost
  <1>2. StepInv'
    BY DEF CatalogInv, CreateDatabase, StepInv, Gone, regs, ghost
  <1>3. ASSUME NEW k \in Key PROVE FilesInv(k)'
    BY DEF CatalogInv, CreateDatabase, FilesInv, InDrop, InCreate, InRevert, ghost,
           DropSteps, CreateSteps, RevertSteps
  <1>4. ASSUME NEW k \in Key PROVE OwnInv(k)'
    BY DEF CatalogInv, CreateDatabase, OwnInv, InDrop, ghost, DropSteps
  <1>5. ASSUME NEW k \in Key PROVE WholeInv(k)'
    BY DEF CatalogInv, CreateDatabase, WholeInv, Gone, InDrop, InCreate, InRevert,
           ghost, DropSteps, CreateSteps, RevertSteps
  <1>6. JobInv'
    BY DEF CatalogInv, CreateDatabase, JobInv, DropInv, CreateInv, LoadInv,
           RevertInv, HungInv, DropSteps, CreateSteps, RevertSteps, LoadSteps
  <1> QED BY <1>1, <1>2, <1>3, <1>4, <1>5, <1>6 DEF CatalogInv

\* USE changes the current database only.
LEMMA UseDatabaseKeeps == CatalogInv /\ UseDatabase => CatalogInv'
  <1> SUFFICES ASSUME CatalogInv, UseDatabase PROVE CatalogInv'
    OBVIOUS
  <1>1. TypeOK'
    BY DEF CatalogInv, UseDatabase, TypeOK, disk, regs, ghost
  <1>2. StepInv'
    BY DEF CatalogInv, UseDatabase, StepInv, Gone, disk, regs, ghost
  <1>3. ASSUME NEW k \in Key PROVE FilesInv(k)'
    BY DEF CatalogInv, UseDatabase, FilesInv, InDrop, InCreate, InRevert, disk,
           ghost, DropSteps, CreateSteps, RevertSteps
  <1>4. ASSUME NEW k \in Key PROVE OwnInv(k)'
    BY DEF CatalogInv, UseDatabase, OwnInv, InDrop, disk, ghost, DropSteps
  <1>5. ASSUME NEW k \in Key PROVE WholeInv(k)'
    BY DEF CatalogInv, UseDatabase, WholeInv, Gone, InDrop, InCreate, InRevert, disk,
           ghost, DropSteps, CreateSteps, RevertSteps
  <1>6. JobInv'
    BY DEF CatalogInv, UseDatabase, JobInv, DropInv, CreateInv, LoadInv, RevertInv,
           HungInv, DropSteps, CreateSteps, RevertSteps, LoadSteps
  <1> QED BY <1>1, <1>2, <1>3, <1>4, <1>5, <1>6 DEF CatalogInv

\* DROP DATABASE first forgets the database and closes its tables.
LEMMA BeginDropDatabaseKeeps == CatalogInv /\ BeginDropDatabase => CatalogInv'
  <1> SUFFICES ASSUME CatalogInv, BeginDropDatabase PROVE CatalogInv'
    OBVIOUS
  <1>1. TypeOK'
    BY DEF CatalogInv, BeginDropDatabase, Forget, TypeOK, disk, ghost
  <1>2. StepInv'
    BY DEF CatalogInv, BeginDropDatabase, Forget, TypeOK, StepInv, Gone, disk, ghost,
           DropSteps, CreateSteps, RevertSteps, LoadSteps, TableSteps
  <1>3. ASSUME NEW k \in Key PROVE FilesInv(k)'
    BY DEF CatalogInv, BeginDropDatabase, Forget, FilesInv, InDrop, InCreate,
           InRevert, disk, ghost, DropSteps, CreateSteps, RevertSteps, LoadSteps
  <1>4. ASSUME NEW k \in Key PROVE OwnInv(k)'
    BY DEF CatalogInv, BeginDropDatabase, OwnInv, InDrop, disk, ghost, DropSteps
  <1>5. ASSUME NEW k \in Key PROVE WholeInv(k)'
    BY DEF CatalogInv, BeginDropDatabase, Forget, WholeInv, Gone, InDrop, InCreate,
           InRevert, disk, ghost, DropSteps, CreateSteps, RevertSteps, LoadSteps
  <1>6. JobInv'
    BY DEF CatalogInv, BeginDropDatabase, JobInv, DropInv, CreateInv, LoadInv,
           RevertInv, HungInv, DropSteps, CreateSteps, RevertSteps, LoadSteps
  <1> QED BY <1>1, <1>2, <1>3, <1>4, <1>5, <1>6 DEF CatalogInv

\* remove_all takes the files of the directory one by one, in any order.
LEMMA RemoveFileKeeps == CatalogInv /\ RemoveFile => CatalogInv'
  <1> SUFFICES ASSUME CatalogInv, RemoveFile PROVE CatalogInv'
    OBVIOUS
  <1>1. TypeOK'
    <2>0. TypeOK /\ job[1] \in Dbs
      BY DEF CatalogInv, StepInv, RemoveFile
    <2>1. PICK k \in Of(job[1]) :
            \/ dat' = [dat EXCEPT ![k] = None] /\ UNCHANGED <<schema, wal, idx>>
            \/ schema' = [schema EXCEPT ![k] = "none"] /\ UNCHANGED <<dat, wal, idx>>
            \/ wal' = [wal EXCEPT ![k] = {}] /\ UNCHANGED <<dat, schema, idx>>
            \/ \E c \in Columns : idx' = [idx EXCEPT ![k][c] = None]
                                  /\ UNCHANGED <<dat, schema, wal>>
      BY DEF RemoveFile
    <2>2. k \in Key
      BY <2>1 DEF Of
    <2>3. UNCHANGED <<dirs, memory, pc, regs, ghost>>
      BY DEF RemoveFile
    <2>4. idx' \in [Key -> [Columns -> Rows \cup {None, Torn}]]
      <3>1. CASE \E c \in Columns : idx' = [idx EXCEPT ![k][c] = None]
        BY <2>0, <2>2, <3>1, IndexWritten DEF TypeOK
      <3>2. CASE idx' = idx
        BY <2>0, <3>2 DEF TypeOK
      <3> QED BY <2>1, <3>1, <3>2
    <2>5. dat' \in [Key -> Rows \cup {None}] /\ wal' \in [Key -> Rows]
          /\ schema' \in [Key -> {"none", "empty", "full"}]
      <3> {} \in Rows
        BY DEF Rows
      <3> QED BY <2>0, <2>1, <2>2 DEF TypeOK
    <2> QED BY <2>0, <2>3, <2>4, <2>5 DEF TypeOK, memory, regs, ghost
  <1>2. StepInv'
    BY ColumnAssumption, BoundAssumption, FileAssumption
       DEF CatalogInv, RemoveFile, Of, Gone, TypeOK, StepInv, WholeInv, InCreate,
           InRevert, memory, regs, ghost, Rows, Key, Causes
  <1>3. ASSUME NEW k \in Key PROVE FilesInv(k)'
    <2>1. PICK j \in Key : /\ j[1] = job[1] /\ schema'[j] \in {schema[j], "none"}
                           /\ \A i \in Key \ {j} : /\ dat'[i] = dat[i] /\ idx'[i] = idx[i]
                                                    /\ schema'[i] = schema[i]
      BY DEF CatalogInv, TypeOK, RemoveFile, Of
    <2>2. pc = "dropDb" /\ FilesInv(k) /\ UNCHANGED <<open, pc, job, born>>
      BY DEF CatalogInv, RemoveFile, memory, regs, ghost
    <2>3. CASE k = j
      BY <2>1, <2>2, <2>3 DEF FilesInv, InDrop, DropSteps
    <2>4. CASE k # j
      BY <2>1, <2>2, <2>4 DEF FilesInv, InDrop, InCreate, InRevert
    <2> QED BY <2>3, <2>4
  <1>4. ASSUME NEW k \in Key PROVE OwnInv(k)'
    <2>1. OwnInv(k) /\ TypeOK /\ job[1] \in Dbs /\ pc = "dropDb" /\ pc' = pc
          /\ UNCHANGED <<born, cut, job>>
      BY DEF CatalogInv, StepInv, RemoveFile, regs, ghost
    <2>2. PICK l \in Of(job[1]) :
          \/ dat' = [dat EXCEPT ![l] = None] /\ UNCHANGED <<schema, wal, idx>>
          \/ schema' = [schema EXCEPT ![l] = "none"] /\ UNCHANGED <<dat, wal, idx>>
          \/ wal' = [wal EXCEPT ![l] = {}] /\ UNCHANGED <<dat, schema, idx>>
          \/ \E c \in Columns : idx' = [idx EXCEPT ![l][c] = None]
                                /\ UNCHANGED <<dat, schema, wal>>
      BY DEF RemoveFile
    <2>3. l \in Key /\ l[1] = job[1]
      BY <2>2 DEF Of
    <2>4. dat'[k] \in {dat[k], None} /\ wal'[k] \in {wal[k], {}}
      BY <2>1, <2>2, <2>3 DEF TypeOK
    <2>5. ASSUME NEW b \in Columns PROVE idx'[k][b] \in {idx[k][b], None}
      <3>1. CASE \E c \in Columns : idx' = [idx EXCEPT ![l][c] = None]
        BY <2>1, <2>3, <3>1, IndexWritten DEF TypeOK
      <3>2. CASE idx' = idx
        BY <3>2
      <3> QED BY <2>2, <3>1, <3>2
    <2>6. schema'[k] = schema[k] \/ InDrop(k)'
      BY <2>1, <2>2, <2>3 DEF InDrop, TypeOK
    <2>7. InDrop(k)' <=> InDrop(k)
      BY <2>1 DEF InDrop
    <2> QED BY <2>1, <2>4, <2>5, <2>6, <2>7 DEF OwnInv, RowsOf
  <1>5. ASSUME NEW k \in Key PROVE WholeInv(k)'
    BY NameAssumption
       DEF CatalogInv, RemoveFile, Of, Gone, TypeOK, WholeInv, InDrop, InCreate,
           InRevert, memory, regs, ghost
  <1>6. JobInv'
    BY DEF CatalogInv, RemoveFile, JobInv, DropInv, CreateInv, LoadInv, RevertInv,
           HungInv, DropSteps, CreateSteps, RevertSteps, LoadSteps
  <1> QED BY <1>1, <1>2, <1>3, <1>4, <1>5, <1>6 DEF CatalogInv

\* The directory goes when no file is left in it.
LEMMA DropDatabaseEndKeeps == CatalogInv /\ DropDatabaseEnd => CatalogInv'
  <1> SUFFICES ASSUME CatalogInv, DropDatabaseEnd PROVE CatalogInv'
    OBVIOUS
  <1>1. TypeOK'
    <2>0. TypeOK
      BY DEF CatalogInv
    <2>1. born' \in [Key -> 0 .. MaxCreated] 
      BY BoundAssumption, <2>0 DEF TypeOK, DropDatabaseEnd
    <2>2. dirs' \subseteq Dbs /\ UNCHANGED <<dat, schema, wal, idx, memory, created>> /\ End
      BY <2>0 DEF DropDatabaseEnd, TypeOK
    <2> QED BY <2>0, <2>1, <2>2 DEF TypeOK, memory, End, Rows
  <1>2. StepInv'
    BY DEF CatalogInv, DropDatabaseEnd, Of, Gone, End, StepInv, FilesInv, InDrop,
           memory, DropSteps, CreateSteps, RevertSteps, LoadSteps, TableSteps
  <1>3. ASSUME NEW k \in Key PROVE FilesInv(k)'
    <2>1. FilesInv(k) /\ born \in [Key -> 0 .. MaxCreated] /\ pc = "dropDb" /\ pc' = "idle"
      BY DEF CatalogInv, TypeOK, DropDatabaseEnd, End
    <2>2. UNCHANGED <<dat, schema, idx, open>>
      BY DEF DropDatabaseEnd, memory
    <2>3. /\ k[1] = job[1] => Gone(k)
          /\ born'[k] = IF k[1] = job[1] THEN 0 ELSE born[k]
      BY <2>1 DEF DropDatabaseEnd, Of
    <2> QED BY <2>1, <2>2, <2>3 DEF FilesInv, InDrop, InCreate, InRevert, Gone, DropSteps,
                                    CreateSteps, RevertSteps, LoadSteps
  <1>4. ASSUME NEW k \in Key PROVE OwnInv(k)'
    <2>1. /\ OwnInv(k) /\ TypeOK /\ cut \in [Key -> SUBSET Causes] /\ pc = "dropDb"
          /\ pc' = "idle"
      BY DEF CatalogInv, StepInv, DropDatabaseEnd, End
    <2>2. UNCHANGED <<dat, schema, wal, idx>>
      BY DEF DropDatabaseEnd
    <2>3. CASE k[1] = job[1]
      <3>1. Gone(k)
        BY <2>3 DEF DropDatabaseEnd, Of
      <3>2. born'[k] = 0
        BY <2>3 DEF DropDatabaseEnd
      <3> QED BY <2>2, <3>1, <3>2 DEF OwnInv, RowsOf, Gone
    <2>4. CASE k[1] # job[1]
      <3>1. born'[k] = born[k] /\ cut'[k] = cut[k]
        BY <2>4 DEF DropDatabaseEnd
      <3> QED BY <2>1, <2>2, <2>4, <3>1 DEF OwnInv, InDrop, DropSteps
    <2> QED BY <2>3, <2>4
  <1>5. ASSUME NEW k \in Key PROVE WholeInv(k)'
    BY DEF CatalogInv, DropDatabaseEnd, Of, Gone, FilesInv, WholeInv, InDrop,
           InCreate, InRevert, memory, LoadSteps
  <1>6. JobInv'
    BY DEF CatalogInv, DropDatabaseEnd, End, JobInv, DropInv, CreateInv, LoadInv,
           RevertInv, HungInv, DropSteps, CreateSteps, RevertSteps, LoadSteps
  <1> QED BY <1>1, <1>2, <1>3, <1>4, <1>5, <1>6 DEF CatalogInv

\* InitializeIndex, the file: an index that has one is not built again.
LEMMA OpenIndexKeeps == CatalogInv /\ OpenIndex => CatalogInv'
  <1> SUFFICES ASSUME CatalogInv, OpenIndex PROVE CatalogInv'
    OBVIOUS
  <1>1. TypeOK'
    BY DEF CatalogInv, OpenIndex, TypeOK, disk, memory, ghost
  <1>2. StepInv'
    BY DEF CatalogInv, OpenIndex, StepInv, Gone, disk, memory, ghost
  <1>3. ASSUME NEW k \in Key PROVE FilesInv(k)'
    BY DEF CatalogInv, OpenIndex, FilesInv, InDrop, InCreate, InRevert, disk, memory, ghost
  <1>4. ASSUME NEW k \in Key PROVE OwnInv(k)'
    BY DEF CatalogInv, OpenIndex, OwnInv, InDrop, disk, ghost
  <1>5. ASSUME NEW k \in Key PROVE WholeInv(k)'
    BY DEF CatalogInv, OpenIndex, WholeInv, Gone, InDrop, InCreate, InRevert, disk,
           memory, ghost
  <1>6. JobInv'
    BY DEF CatalogInv, OpenIndex, JobInv, DropInv, CreateInv, LoadInv, RevertInv,
           HungInv, Rebuilt, disk, memory, ghost, DropSteps
  <1> QED BY <1>1, <1>2, <1>3, <1>4, <1>5, <1>6 DEF CatalogInv

\* The root page of an index: its file is torn from here to the metadata.
LEMMA WriteRootKeeps == CatalogInv /\ WriteRoot => CatalogInv'
  <1> SUFFICES ASSUME CatalogInv, WriteRoot PROVE CatalogInv'
    OBVIOUS
  <1>1. TypeOK'
    BY DEF CatalogInv, WriteRoot, TypeOK, StepInv, memory, ghost
  <1>2. StepInv'
    BY DEF CatalogInv, WriteRoot, First, TypeOK, StepInv, Gone, memory, ghost
  <1>3. ASSUME NEW k \in Key PROVE FilesInv(k)'
    BY DEF CatalogInv, WriteRoot, FilesInv, InDrop, InCreate, InRevert, memory, ghost
  <1>4. ASSUME NEW k \in Key PROVE OwnInv(k)'
    BY DEF CatalogInv, WriteRoot, OwnInv, InDrop, RowsOf, ghost
  <1>5. ASSUME NEW k \in Key PROVE WholeInv(k)'
    BY DEF CatalogInv, WriteRoot, WholeInv, JobInv, LoadInv, RevertInv, Gone, InDrop,
           InCreate, InRevert, memory, ghost, CreateSteps, RevertSteps, LoadSteps
  <1>6. JobInv'
    BY DEF CatalogInv, WriteRoot, First, JobInv, DropInv, CreateInv, LoadInv,
           RevertInv, HungInv, Rebuilt, memory, ghost, DropSteps
  <1> QED BY <1>1, <1>2, <1>3, <1>4, <1>5, <1>6 DEF CatalogInv

\* The metadata of an index: the file is an empty index, the next one is due.
LEMMA WriteMetaKeeps == CatalogInv /\ WriteMeta => CatalogInv'
  <1> SUFFICES ASSUME CatalogInv, WriteMeta PROVE CatalogInv'
    OBVIOUS
  <1>1. TypeOK'
    <2>0. TypeOK /\ job \in Key /\ {} \in Rows
      BY DEF CatalogInv, StepInv, WriteMeta, Rows, TableSteps, CreateSteps, LoadSteps,
             RevertSteps
    <2>1. PICK c \in Columns : /\ idx' = [idx EXCEPT ![job][c] = {}]
                               /\ (todo' = todo \/ todo' = todo \ {c})
      BY DEF WriteMeta
    <2>2. idx' \in [Key -> [Columns -> Rows \cup {None, Torn}]]
      BY <2>0, <2>1, IndexWritten DEF TypeOK
    <2> QED BY <2>0, <2>1, <2>2 DEF TypeOK, WriteMeta, memory, ghost
  <1>2. StepInv'
    BY DEF CatalogInv, WriteMeta, StepInv, Gone, memory, ghost, CreateSteps,
           LoadSteps, TableSteps
  <1>3. ASSUME NEW k \in Key PROVE FilesInv(k)'
    BY DEF CatalogInv, WriteMeta, StepInv, FilesInv, JobInv, CreateInv, LoadInv,
           InDrop, InCreate, InRevert, memory, ghost, RevertSteps, LoadSteps, TableSteps
  <1>4. ASSUME NEW k \in Key PROVE OwnInv(k)'
    BY DEF CatalogInv, WriteMeta, OwnInv, InDrop, RowsOf, ghost, DropSteps
  <1>5. ASSUME NEW k \in Key PROVE WholeInv(k)'
    <2>0. TypeOK /\ WholeInv(k) /\ JobInv /\ FilesInv(k)
      BY DEF CatalogInv
    <2>1. PICK c \in Columns : MetaWritten(c)
      BY WriteMetaStep
    <2>2. UNCHANGED <<dat, schema, wal, open, job, cut, born>>
      BY DEF WriteMeta, memory, ghost
    <2>3. pc \in {"create", "load", "revert"} /\ pc' = IF pc = "load" THEN "fill" ELSE pc
      BY WriteMetaStep DEF MetaWritten
    <2>4. Torn \notin Rows /\ None # Torn
      BY FileAssumption, NameAssumption DEF Rows
    <2>5. CASE k # job
      BY <2>0, <2>1, <2>2, <2>3, <2>5
         DEF MetaWritten, WholeInv, InDrop, InCreate, InRevert, Gone, LoadSteps,
             CreateSteps, RevertSteps, DropSteps
    <2>6. CASE k = job /\ pc = "load"
      <3>1. cut[k] # {}
        BY <2>0, <2>1, <2>4, <2>6
           DEF MetaWritten, WholeInv, TypeOK, Gone, InDrop, InCreate, InRevert,
               DropSteps, CreateSteps, RevertSteps
      <3> QED BY <2>2, <3>1 DEF MetaWritten, WholeInv
    <2>7. CASE k = job /\ pc = "revert"
      <3>1. cut[k] = {} => born[k] # 0
        BY <2>0, <2>1, <2>4, <2>7 DEF MetaWritten, WholeInv, Gone, InCreate, CreateSteps
      <3> QED BY <3>1, <2>0, <2>2, <2>3, <2>7
                 DEF MetaWritten, WholeInv, InRevert, RevertSteps
    <2>8. CASE k = job /\ pc = "create"
      <3>1. born[k] # 0 => cut[k] # {}
        BY <2>0, <2>8 DEF MetaWritten, WholeInv, InDrop, InRevert, JobInv, CreateInv,
              CreateSteps, RevertSteps, DropSteps, LoadSteps
      <3> QED BY <3>1, <2>0, <2>2, <2>3, <2>8
                 DEF MetaWritten, WholeInv, InCreate, CreateSteps, InRevert
    <2> QED BY <2>3, <2>5, <2>6, <2>7, <2>8
  <1>6. JobInv'
    <2>0. TypeOK /\ WholeInv(job) /\ JobInv
      BY WriteMetaStep DEF CatalogInv
    <2>1. PICK c \in Columns : MetaWritten(c)
      BY WriteMetaStep
    <2>2. \A b \in Columns : idx'[job][b] = IF b = c THEN {} ELSE idx[job][b]
      BY <2>1, WriteMetaStep DEF MetaWritten
    <2>3. Rebuilt => \A b \in Columns :
              idx'[job][b] = IF b \in todo \ {c} THEN None ELSE {}
      BY <2>1, <2>2, OneFirst DEF MetaWritten, Rebuilt
    <2>4. /\ UNCHANGED <<dat, schema, wal, open, job, target, cut, born>>
          /\ pc \in {"create", "load", "revert"}
      BY WriteMetaStep DEF WriteMeta, memory, ghost
    <2>5. None # {} /\ None # Torn /\ Torn \notin Rows
      BY FileAssumption, NameAssumption DEF Rows
    <2>6. CASE pc = "load"
      <3>1. cut[job] # {}
        BY <2>0, <2>1, <2>5, <2>6, WriteMetaStep
           DEF MetaWritten, WholeInv, TypeOK, Gone, InDrop, InCreate, InRevert, DropSteps,
               CreateSteps, RevertSteps
      <3>2. LoadInv'
        BY <2>0, <2>1, <2>2, <2>4, <2>5, <2>6, <3>1
           DEF MetaWritten, JobInv, LoadInv, LoadSteps
      <3>3. pc' = "fill"
        BY <2>1, <2>6 DEF MetaWritten
      <3> QED BY <3>2, <3>3
              DEF JobInv, DropInv, CreateInv, RevertInv, HungInv, DropSteps, CreateSteps,
                  RevertSteps
    <2>7. CASE pc = "create"
      <3>1. pc' = "create" /\ todo' = todo \ {c}
        BY <2>1, <2>7 DEF MetaWritten
      <3>2. CreateInv'
        BY <2>0, <2>2, <2>3, <2>4, <2>5, <2>7, <3>1
           DEF JobInv, CreateInv, CreateSteps, Rebuilt
      <3> QED BY <3>1, <3>2
              DEF JobInv, DropInv, LoadInv, RevertInv, HungInv, DropSteps, LoadSteps,
                  RevertSteps
    <2>8. CASE pc = "revert"
      <3>1. pc' = "revert" /\ todo' = todo \ {c}
        BY <2>1, <2>8 DEF MetaWritten
      <3>2. RevertInv'
        BY <2>0, <2>2, <2>3, <2>4, <2>8, <3>1
           DEF JobInv, RevertInv, RevertSteps, Rebuilt
      <3> QED BY <3>1, <3>2
              DEF JobInv, DropInv, LoadInv, CreateInv, HungInv, DropSteps, LoadSteps,
                  CreateSteps
    <2> QED BY <2>4, <2>6, <2>7, <2>8
  <1> QED BY <1>1, <1>2, <1>3, <1>4, <1>5, <1>6 DEF CatalogInv

\* CREATE TABLE finds no file of the name, unless a statement on it was cut short.
LEMMA BeginCreateTableKeeps == CatalogInv /\ BeginCreateTable => CatalogInv'
  <1> SUFFICES ASSUME CatalogInv, BeginCreateTable PROVE CatalogInv'
    OBVIOUS
  <1>1. TypeOK'
    BY DEF CatalogInv, BeginCreateTable, Of, Present, TypeOK, memory, ghost, Rows
  <1>2. StepInv'
    BY NameAssumption
       DEF CatalogInv, BeginCreateTable, Of, TypeOK, StepInv, Gone, memory, ghost, Key,
           CreateSteps, TableSteps
  <1>3. ASSUME NEW k \in Key PROVE FilesInv(k)'
    BY DEF CatalogInv, BeginCreateTable, FilesInv, InDrop, InCreate, InRevert,
           memory, ghost, DropSteps, CreateSteps, RevertSteps, LoadSteps
  <1>4. ASSUME NEW k \in Key PROVE OwnInv(k)'
    BY DEF CatalogInv, BeginCreateTable, Present, OwnInv, InDrop, RowsOf, ghost, DropSteps
  <1>5. ASSUME NEW k \in Key PROVE WholeInv(k)'
    BY DEF CatalogInv, BeginCreateTable, WholeInv, Gone, InDrop, InCreate, InRevert,
           memory, ghost, DropSteps, CreateSteps, RevertSteps, LoadSteps
  <1>6. JobInv'
    <2>1. PICK k \in Key :
            /\ open[k] = "no" /\ job' = k /\ dat' = [dat EXCEPT ![k] = Present(@)]
      BY DEF BeginCreateTable, Of
    <2>2. /\ TypeOK /\ WholeInv(k) /\ OwnInv(k) /\ FilesInv(k) /\ pc = "idle"
          /\ pc' = "create" /\ todo' = Columns
          /\ UNCHANGED <<schema, wal, idx, open, started, born, cut>>
      BY DEF CatalogInv, BeginCreateTable, memory, ghost
    <2>3. {} # None
      BY FileAssumption
    <2>4. dat'[k] # None
      BY <2>1, <2>2, <2>3 DEF TypeOK, Present
    <2>5. ASSUME cut[k] = {} PROVE \A c \in Columns : idx[k][c] = None
      <3>1. born[k] = 0
        BY <2>1, <2>2, <2>5
           DEF WholeInv, InDrop, InRevert, DropSteps, RevertSteps, LoadSteps
      <3> QED BY <2>2, <2>5, <3>1 DEF WholeInv, InCreate, CreateSteps, Gone
    <2>6. CreateInv'
      BY <2>1, <2>2, <2>4, <2>5 DEF CreateInv, CreateSteps, Rebuilt
    <2> QED BY <2>2, <2>6 DEF JobInv, DropInv, LoadInv, RevertInv, HungInv, DropSteps,
                              RevertSteps, LoadSteps
  <1> QED BY <1>1, <1>2, <1>3, <1>4, <1>5, <1>6 DEF CatalogInv

\* CREATE TABLE has all its indexes: the table is open, its schema file empty.
LEMMA RegisterTableKeeps == CatalogInv /\ RegisterTable => CatalogInv'
  <1> SUFFICES ASSUME CatalogInv, RegisterTable PROVE CatalogInv'
    OBVIOUS
  <1>1. TypeOK'
    BY DEF CatalogInv, RegisterTable, TypeOK, StepInv, regs, ghost
  <1>2. StepInv'
    BY DEF CatalogInv, RegisterTable, StepInv, First, Gone, regs, ghost, CreateSteps,
           TableSteps
  <1>3. ASSUME NEW k \in Key PROVE FilesInv(k)'
    BY DEF CatalogInv, RegisterTable, TypeOK, FilesInv, JobInv, CreateInv, InDrop,
           InCreate, InRevert, regs, ghost, DropSteps, CreateSteps, LoadSteps
  <1>4. ASSUME NEW k \in Key PROVE OwnInv(k)'
    BY DEF CatalogInv, RegisterTable, FilesInv, OwnInv, JobInv, CreateInv, InDrop,
           RowsOf, ghost, DropSteps, CreateSteps, LoadSteps
  <1>5. ASSUME NEW k \in Key PROVE WholeInv(k)'
    BY DEF CatalogInv, RegisterTable, WholeInv, Gone, InDrop, InCreate, InRevert,
           regs, ghost, DropSteps, CreateSteps, RevertSteps, LoadSteps
  <1>6. JobInv'
    BY DEF CatalogInv, RegisterTable, TypeOK, StepInv, JobInv, DropInv, CreateInv,
           LoadInv, RevertInv, HungInv, Rebuilt, regs, ghost, DropSteps, RevertSteps,
           LoadSteps, TableSteps
  <1> QED BY <1>1, <1>2, <1>3, <1>4, <1>5, <1>6 DEF CatalogInv

\* CREATE TABLE writes the schema: from here on the table is acknowledged.
LEMMA SaveSchemaKeeps == CatalogInv /\ SaveSchema => CatalogInv'
  <1> SUFFICES ASSUME CatalogInv, SaveSchema PROVE CatalogInv'
    OBVIOUS
  <1>1. TypeOK'
    <2>0. TypeOK /\ job \in Key /\ created + 1 \in 0 .. MaxCreated /\ {} \in Rows
      BY BoundAssumption
         DEF CatalogInv, TypeOK, StepInv, SaveSchema, TableSteps, CreateSteps, Rows
    <2>1. /\ born' \in [Key -> 0 .. MaxCreated]
          /\ schema' \in [Key -> {"none", "empty", "full"}]
      BY <2>0 DEF SaveSchema, TypeOK
    <2> QED BY <2>0, <2>1 DEF TypeOK, SaveSchema, memory, End
  <1>2. StepInv'
    BY DEF CatalogInv, SaveSchema, End, StepInv, Gone, memory, DropSteps,
           CreateSteps, RevertSteps, LoadSteps, TableSteps
  <1>3. ASSUME NEW k \in Key PROVE FilesInv(k)'
    BY DEF CatalogInv, SaveSchema, End, TypeOK, FilesInv, JobInv, CreateInv, InDrop,
           InCreate, InRevert, memory, DropSteps, CreateSteps, LoadSteps
  <1>4. ASSUME NEW k \in Key PROVE OwnInv(k)'
    BY DEF CatalogInv, SaveSchema, TypeOK, OwnInv, JobInv, CreateInv, InDrop, RowsOf,
           Rows, DropSteps, CreateSteps
  <1>5. ASSUME NEW k \in Key PROVE WholeInv(k)'
    <2>0. /\ TypeOK /\ WholeInv(k) /\ OwnInv(k) /\ JobInv /\ job \in Key
          /\ pc = "saveSchema" /\ pc' = "idle"
      BY DEF CatalogInv, StepInv, SaveSchema, End, TableSteps, CreateSteps
    <2>1. /\ schema' = [schema EXCEPT ![job] = "full"]
          /\ born' = [born EXCEPT ![job] = created + 1]
          /\ UNCHANGED <<dat, wal, idx, open, cut>>
      BY DEF SaveSchema, memory
    <2>2. CASE k # job
      <3>1. schema'[k] = schema[k] /\ born'[k] = born[k]
        BY <2>0, <2>1, <2>2 DEF TypeOK
      <3> QED BY <2>0, <2>1, <2>2, <3>1
                 DEF WholeInv, InDrop, InCreate, InRevert, Gone, LoadSteps, CreateSteps,
                     RevertSteps, DropSteps
    <2>3. CASE k = job
      <3>1. born'[k] # 0
        BY <2>0, <2>1, <2>3, BoundAssumption DEF TypeOK
      <3>2. ASSUME cut[k] = {}
            PROVE  /\ dat[k] = {} /\ wal[k] = {} /\ open[k] = "yes"
                   /\ \A c \in Columns : idx[k][c] = {}
        <4>1. /\ dat[k] # None /\ Rebuilt /\ todo = {} /\ open[k] = "yes"
              /\ schema[k] = "empty"
          BY <2>0, <2>3, <3>2 DEF JobInv, CreateInv, CreateSteps
        <4>0. born[k] = 0
          BY <2>0, <2>3, <3>2, <4>1 DEF OwnInv, InDrop, DropSteps
        <4>2. RowsOf(dat[k]) \cup wal[k] \subseteq {0}
          BY <2>0, <3>2, <4>0 DEF OwnInv
        <4>3. dat[k] \in Rows /\ wal[k] \in Rows
          BY <4>1, <2>0 DEF TypeOK
        <4>4. dat[k] = {} /\ wal[k] = {}
          BY <4>2, <4>3, <4>1, FileAssumption DEF RowsOf, Rows
        <4> QED BY <4>1, <4>4, <2>3 DEF Rebuilt
      <3>3. {} # None
        BY FileAssumption
      <3> QED BY <3>1, <3>2, <3>3, <2>0, <2>1, <2>3 DEF WholeInv
    <2> QED BY <2>2, <2>3
  <1>6. JobInv'
    BY DEF CatalogInv, SaveSchema, End, JobInv, DropInv, CreateInv, LoadInv,
           RevertInv, HungInv, DropSteps, CreateSteps, RevertSteps, LoadSteps
  <1> QED BY <1>1, <1>2, <1>3, <1>4, <1>5, <1>6 DEF CatalogInv

\* INSERT: the row goes to the data file, the log and all indexes.
LEMMA InsertKeeps == CatalogInv /\ Insert => CatalogInv'
  <1> SUFFICES ASSUME CatalogInv, Insert PROVE CatalogInv'
    OBVIOUS
  <1>1. TypeOK'
    <2>1. PICK l \in Key : Inserted(l)
      BY InsertStep
    <2>2. TypeOK
      BY DEF CatalogInv
    <2>3. UNCHANGED <<dirs, schema, known, open, current, job, todo, started, target,
                      born, created>>
      BY <2>1 DEF Inserted, memory, regs, ghost
    <2>4. dat' \in [Key -> Rows \cup {None}] /\ wal' \in [Key -> Rows]
          /\ idx' \in [Key -> [Columns -> Rows \cup {None, Torn}]]
      BY <2>1 DEF Inserted
    <2> QED BY <2>2, <2>3, <2>4 DEF TypeOK
  <1>2. StepInv'
    BY DEF CatalogInv, Insert, Usable, StepInv, Gone, memory, regs, ghost
  <1>3. ASSUME NEW k \in Key PROVE FilesInv(k)'
    <2>1. PICK l \in Key : Inserted(l)
      BY InsertStep
    <2>2. FilesInv(k) /\ UNCHANGED <<schema, open, born, job>> /\ pc = "idle" /\ pc' = pc
      BY <2>1 DEF CatalogInv, Inserted
    <2>3. CASE k = l
      <3>1. \A R \in Rows : R # None
        BY FileAssumption DEF Rows
      <3> QED BY <2>1, <2>2, <2>3, <3>1
              DEF Inserted, FilesInv, InDrop, InCreate, InRevert, DropSteps, CreateSteps,
                  RevertSteps
    <2>4. CASE k # l
      BY <2>1, <2>2, <2>4 DEF Inserted, FilesInv, InDrop, InCreate, InRevert, DropSteps,
                             CreateSteps, RevertSteps
    <2> QED BY <2>3, <2>4
  <1>4. ASSUME NEW k \in Key PROVE OwnInv(k)'
    <2>1. PICK l \in Key : Inserted(l)
      BY InsertStep
    <2>2. /\ OwnInv(k) /\ UNCHANGED <<schema, born, cut, job>> /\ pc = "idle" /\ pc' = pc
      BY <2>1 DEF CatalogInv, Inserted
    <2>3. CASE k = l
      <3>1. \A R \in Rows : R # None /\ R # Torn
        BY FileAssumption DEF Rows
      <3>2. ASSUME "drop" \notin cut[k]
            PROVE  /\ dat[k] \subseteq {born[k]} /\ wal[k] \subseteq {born[k]}
                   /\ \A c \in Columns : idx[k][c] \subseteq {born[k]}
        BY <2>1, <2>2, <2>3, <3>1, <3>2 DEF OwnInv, RowsOf, Inserted
      <3>3. ASSUME "drop" \notin cut[k]
            PROVE  /\ RowsOf(dat'[k]) \cup wal'[k] \subseteq {born[k]}
                   /\ \A c \in Columns : RowsOf(idx'[k][c]) \subseteq {born[k]}
        BY <2>1, <2>3, <3>1, <3>2, <3>3 DEF RowsOf, Inserted
      <3>4. "drop" \notin cut[k] /\ born[k] # 0 => schema[k] = "full"
        BY <2>2 DEF OwnInv, InDrop, DropSteps
      <3> QED BY <2>2, <3>3, <3>4 DEF OwnInv
    <2>4. CASE k # l
      BY <2>1, <2>2, <2>4 DEF Inserted, OwnInv, InDrop, DropSteps
    <2> QED BY <2>3, <2>4
  <1>5. ASSUME NEW k \in Key PROVE WholeInv(k)'
    <2>1. PICK l \in Key : Inserted(l)
      BY InsertStep
    <2>2. /\ WholeInv(k)
          /\ UNCHANGED <<schema, open, born, cut, job>> /\ pc = "idle" /\ pc' = pc
      BY <2>1 DEF CatalogInv, Inserted
    <2>3. CASE k = l
      <3>1. \A R \in Rows : R # None
        BY FileAssumption DEF Rows
      <3>2. open[k] = "yes"
        BY <2>1, <2>3 DEF Inserted
      <3>3. ASSUME cut[k] = {}
            PROVE /\ born[k] # 0 /\ dat[k] \subseteq wal[k]
                  /\ \A c \in Columns : idx[k][c] = dat[k]
        BY <2>2, <3>2, <3>3
           DEF WholeInv, InDrop, InCreate, InRevert, DropSteps, CreateSteps,
                                RevertSteps
      <3> QED BY <2>1, <2>2, <2>3, <3>1, <3>2, <3>3 DEF Inserted, WholeInv
    <2>4. CASE k # l
      BY <2>1, <2>2, <2>4 DEF Inserted, WholeInv, InDrop, InCreate, InRevert, DropSteps,
                             CreateSteps, RevertSteps, Gone, LoadSteps
    <2> QED BY <2>3, <2>4
  <1>6. JobInv'
    BY DEF CatalogInv, Insert, JobInv, DropInv, CreateInv, LoadInv, RevertInv,
           HungInv, DropSteps, CreateSteps, RevertSteps, LoadSteps
  <1> QED BY <1>1, <1>2, <1>3, <1>4, <1>5, <1>6 DEF CatalogInv

\* INSERT into a torn index never returns; the table had a statement cut short.
LEMMA HangKeeps == CatalogInv /\ Hang => CatalogInv'
  <1> SUFFICES ASSUME CatalogInv, Hang PROVE CatalogInv'
    OBVIOUS
  <1>1. TypeOK'
    BY DEF CatalogInv, Hang, Of, TypeOK, disk, memory, ghost
  <1>2. StepInv'
    BY DEF CatalogInv, Hang, Of, StepInv, Gone, disk, memory, ghost, CreateSteps
  <1>3. ASSUME NEW k \in Key PROVE FilesInv(k)'
    BY DEF CatalogInv, Hang, FilesInv, InDrop, InCreate, InRevert, disk, memory,
           ghost, DropSteps, CreateSteps, RevertSteps, LoadSteps
  <1>4. ASSUME NEW k \in Key PROVE OwnInv(k)'
    BY DEF CatalogInv, Hang, OwnInv, InDrop, disk, ghost, DropSteps
  <1>5. ASSUME NEW k \in Key PROVE WholeInv(k)'
    BY DEF CatalogInv, Hang, WholeInv, Gone, InDrop, InCreate, InRevert, disk,
           memory, ghost, DropSteps, CreateSteps, RevertSteps, LoadSteps
  <1>6. JobInv'
    <2>1. PICK k \in Key : /\ open[k] = "yes" /\ job' = k
                           /\ \E c \in Columns : idx[k][c] = Torn
      BY DEF Hang, Of, Usable
    <2>2. TypeOK /\ WholeInv(k) /\ pc = "idle"
      BY DEF CatalogInv, Hang
    <2>3. UNCHANGED <<idx, cut>> /\ pc' = "hung"
      BY DEF Hang, disk, ghost
    <2>4. Torn \notin Rows /\ None # Torn
      BY FileAssumption, NameAssumption DEF Rows
    <2>5. cut[k] # {}
      BY <2>1, <2>2, <2>4
         DEF WholeInv, TypeOK, InDrop, InCreate, InRevert, DropSteps, CreateSteps,
             RevertSteps, Gone
    <2> QED BY <2>1, <2>3, <2>5
            DEF JobInv, DropInv, CreateInv, LoadInv, RevertInv,
                HungInv, DropSteps, CreateSteps, RevertSteps, LoadSteps
  <1> QED BY <1>1, <1>2, <1>3, <1>4, <1>5, <1>6 DEF CatalogInv

\* DROP TABLE closes the table and removes its data file first.
LEMMA BeginDropTableKeeps == CatalogInv /\ BeginDropTable => CatalogInv'
  <1> SUFFICES ASSUME CatalogInv, BeginDropTable PROVE CatalogInv'
    OBVIOUS
  <1>1. TypeOK'
    BY DEF CatalogInv, BeginDropTable, Of, ColumnsOf, TypeOK, ghost
  <1>2. StepInv'
    BY DEF CatalogInv, BeginDropTable, Of, StepInv, Gone, ghost, DropSteps,
           CreateSteps, TableSteps
  <1>3. ASSUME NEW k \in Key PROVE FilesInv(k)'
    BY DEF CatalogInv, BeginDropTable, TypeOK, FilesInv, InDrop, InCreate, InRevert,
           ghost, DropSteps, CreateSteps, RevertSteps, LoadSteps
  <1>4. ASSUME NEW k \in Key PROVE OwnInv(k)'
    BY DEF CatalogInv, BeginDropTable, OwnInv, InDrop, RowsOf, ghost, DropSteps
  <1>5. ASSUME NEW k \in Key PROVE WholeInv(k)'
    BY DEF CatalogInv, BeginDropTable, WholeInv, Gone, InDrop, InCreate, InRevert,
           ghost, DropSteps, CreateSteps, RevertSteps, LoadSteps
  <1>6. JobInv'
    BY DEF CatalogInv, BeginDropTable, Of, ColumnsOf, TypeOK, FilesInv, OwnInv,
           WholeInv, JobInv, DropInv, CreateInv, LoadInv, RevertInv, HungInv, Removed,
           ghost, CreateSteps, RevertSteps, LoadSteps
  <1> QED BY <1>1, <1>2, <1>3, <1>4, <1>5, <1>6 DEF CatalogInv

\* DROP TABLE removes the schema file.
LEMMA DropSchemaKeeps == CatalogInv /\ DropSchema => CatalogInv'
  <1> SUFFICES ASSUME CatalogInv, DropSchema PROVE CatalogInv'
    OBVIOUS
  <1>1. TypeOK'
    BY DEF CatalogInv, DropSchema, TypeOK, memory, regs, ghost
  <1>2. StepInv'
    BY DEF CatalogInv, DropSchema, StepInv, Gone, memory, regs, ghost, DropSteps,
           CreateSteps, TableSteps
  <1>3. ASSUME NEW k \in Key PROVE FilesInv(k)'
    BY DEF CatalogInv, DropSchema, FilesInv, InDrop, InCreate, InRevert, memory,
           regs, ghost, DropSteps, LoadSteps
  <1>4. ASSUME NEW k \in Key PROVE OwnInv(k)'
    BY DEF CatalogInv, DropSchema, OwnInv, InDrop, regs, ghost, DropSteps
  <1>5. ASSUME NEW k \in Key PROVE WholeInv(k)'
    BY DEF CatalogInv, DropSchema, WholeInv, Gone, InDrop, InCreate, InRevert,
           memory, regs, ghost, DropSteps, CreateSteps, LoadSteps
  <1>6. JobInv'
    BY DEF CatalogInv, DropSchema, TypeOK, StepInv, JobInv, DropInv, CreateInv,
           LoadInv, RevertInv, HungInv, Removed, regs, ghost, CreateSteps, RevertSteps,
           LoadSteps, TableSteps
  <1> QED BY <1>1, <1>2, <1>3, <1>4, <1>5, <1>6 DEF CatalogInv

\* DROP TABLE removes the log.
LEMMA DropWalKeeps == CatalogInv /\ DropWal => CatalogInv'
  <1> SUFFICES ASSUME CatalogInv, DropWal PROVE CatalogInv'
    OBVIOUS
  <1>1. TypeOK'
    BY DEF CatalogInv, DropWal, TypeOK, memory, regs, ghost, Rows
  <1>2. StepInv'
    BY DEF CatalogInv, DropWal, StepInv, Gone, memory, regs, ghost, DropSteps,
           CreateSteps, TableSteps
  <1>3. ASSUME NEW k \in Key PROVE FilesInv(k)'
    BY DEF CatalogInv, DropWal, FilesInv, InDrop, InCreate, InRevert, memory, regs,
           ghost, DropSteps, LoadSteps
  <1>4. ASSUME NEW k \in Key PROVE OwnInv(k)'
    BY DEF CatalogInv, DropWal, OwnInv, InDrop, regs, ghost, DropSteps
  <1>5. ASSUME NEW k \in Key PROVE WholeInv(k)'
    BY DEF CatalogInv, DropWal, WholeInv, Gone, InDrop, InCreate, InRevert, memory,
           regs, ghost, DropSteps, CreateSteps, LoadSteps
  <1>6. JobInv'
    BY DEF CatalogInv, DropWal, TypeOK, StepInv, JobInv, DropInv, CreateInv, LoadInv,
           RevertInv, HungInv, Removed, regs, ghost, CreateSteps, RevertSteps, LoadSteps,
           TableSteps
  <1> QED BY <1>1, <1>2, <1>3, <1>4, <1>5, <1>6 DEF CatalogInv

\* DROP TABLE and REVERT remove the index files of the columns the schema lists.
LEMMA RemoveIndexKeeps == CatalogInv /\ RemoveIndex => CatalogInv'
  <1> SUFFICES ASSUME CatalogInv, RemoveIndex PROVE CatalogInv'
    OBVIOUS
  <1>1. TypeOK'
    BY DEF CatalogInv, RemoveIndex, TypeOK, StepInv, memory, ghost
  <1>2. StepInv'
    BY DEF CatalogInv, RemoveIndex, StepInv, Gone, memory, ghost
  <1>3. ASSUME NEW k \in Key PROVE FilesInv(k)'
    BY DEF CatalogInv, RemoveIndex, FilesInv, InDrop, InCreate, InRevert, memory,
           ghost, DropSteps, RevertSteps
  <1>4. ASSUME NEW k \in Key PROVE OwnInv(k)'
    BY DEF CatalogInv, RemoveIndex, OwnInv, InDrop, RowsOf, ghost
  <1>5. ASSUME NEW k \in Key PROVE WholeInv(k)'
    BY DEF CatalogInv, RemoveIndex, WholeInv, Gone, InDrop, InCreate, InRevert,
           memory, ghost, DropSteps, RevertSteps
  <1>6. JobInv'
    BY DEF CatalogInv, RemoveIndex, TypeOK, StepInv, JobInv, DropInv, CreateInv,
           LoadInv, RevertInv, HungInv, Removed, memory, ghost, CreateSteps, LoadSteps
  <1> QED BY <1>1, <1>2, <1>3, <1>4, <1>5, <1>6 DEF CatalogInv

\* DROP TABLE ends when the last index file is gone.
LEMMA DropTableEndKeeps == CatalogInv /\ DropTableEnd => CatalogInv'
  <1> SUFFICES ASSUME CatalogInv, DropTableEnd PROVE CatalogInv'
    OBVIOUS
  <1>1. TypeOK'
    <2>0. TypeOK /\ {} \in Rows
      BY DEF CatalogInv, Rows
    <2>1. born' = [born EXCEPT ![job] = 0]
      BY DEF DropTableEnd
    <2>2. born' \in [Key -> 0 .. MaxCreated]
      <3>1. born \in [Key -> 0 .. MaxCreated] /\ 0 \in 0 .. MaxCreated
        BY <2>0, BoundAssumption DEF TypeOK
      <3> QED BY <2>1, <3>1
    <2> QED BY <2>0, <2>2 DEF TypeOK, DropTableEnd, memory, End, disk
  <1>2. StepInv'
    BY DEF CatalogInv, DropTableEnd, Gone, End, StepInv, disk, memory, DropSteps,
           CreateSteps, RevertSteps, LoadSteps, TableSteps
  <1>3. ASSUME NEW k \in Key PROVE FilesInv(k)'
    BY DEF CatalogInv, DropTableEnd, End, FilesInv, JobInv, DropInv, InDrop,
           InCreate, InRevert, disk, memory, DropSteps, LoadSteps
  <1>4. ASSUME NEW k \in Key PROVE OwnInv(k)'
    <2>0. TypeOK /\ OwnInv(k) /\ FilesInv(k) /\ JobInv /\ job \in Key
      BY DEF CatalogInv, StepInv, DropTableEnd, TableSteps, DropSteps
    <2>1. CASE k # job
      <3>1. /\ born'[k] = born[k] /\ cut'[k] = cut[k] /\ dat' = dat /\ idx' = idx
            /\ wal' = wal /\ schema' = schema
        BY <2>0, <2>1 DEF DropTableEnd, TypeOK, disk
      <3> QED BY <2>0, <2>1, <3>1 DEF OwnInv, InDrop, DropTableEnd, End
    <2>2. CASE k = job /\ "drop" \notin cut[job]
      <3>1. dat[k] = None /\ wal[k] = {} /\ ((Removed /\ todo = {}) \/ born[k] = 0)
        BY <2>0, <2>2 DEF JobInv, DropInv, DropTableEnd, DropSteps
      <3>2. \A c \in Columns : RowsOf(idx[k][c]) \subseteq {0}
        BY <2>0, <2>2, <3>1 DEF OwnInv, RowsOf, Removed
      <3>3. RowsOf(dat[k]) \cup wal[k] \subseteq {0}
        BY <3>1 DEF RowsOf
      <3>4. born'[k] = 0 /\ (cut'[k] = {} \/ cut'[k] = cut[k])
        <4>1. born \in [Key -> 0 .. MaxCreated] /\ cut \in [Key -> SUBSET Causes]
          BY DEF CatalogInv, TypeOK, StepInv
        <4>2. /\ born' = [born EXCEPT ![job] = 0]
              /\ cut' = [cut EXCEPT ![job] = IF Gone(job) THEN {} ELSE @]
          BY DEF DropTableEnd
        <4>3. born'[k] = 0
          BY <2>2, <4>1, <4>2
        <4>4. cut'[k] = {} \/ cut'[k] = cut[k]
          BY <2>2, <4>1, <4>2
        <4> QED BY <4>3, <4>4
      <3>5. UNCHANGED <<dat, idx, wal>>
        BY DEF DropTableEnd, disk
      <3> QED BY <3>2, <3>3, <3>4, <3>5 DEF OwnInv
    <2>3. CASE k = job /\ "drop" \in cut[job]
      <3>1. "drop" \notin cut'[k] => Gone(k)
        BY <2>0, <2>3 DEF DropTableEnd, CatalogInv, StepInv
      <3> QED BY <2>0, <2>3, <3>1 DEF OwnInv, TypeOK, DropTableEnd, RowsOf, disk, Gone
    <2> QED BY <2>1, <2>2, <2>3
  <1>5. ASSUME NEW k \in Key PROVE WholeInv(k)'
    BY DEF CatalogInv, DropTableEnd, Gone, TypeOK, StepInv, FilesInv, WholeInv,
           JobInv, DropInv, InDrop, InCreate, InRevert, Removed, disk, memory, CreateSteps,
           RevertSteps, LoadSteps, TableSteps
  <1>6. JobInv'
    BY DEF CatalogInv, DropTableEnd, End, JobInv, DropInv, CreateInv, LoadInv,
           RevertInv, HungInv, DropSteps, CreateSteps, RevertSteps, LoadSteps
  <1> QED BY <1>1, <1>2, <1>3, <1>4, <1>5, <1>6 DEF CatalogInv

\* REVERT replays the log and removes the data file.
LEMMA BeginRevertKeeps == CatalogInv /\ BeginRevert => CatalogInv'
  <1> SUFFICES ASSUME CatalogInv, BeginRevert PROVE CatalogInv'
    OBVIOUS
  <1>1. TypeOK'
    BY DEF CatalogInv, BeginRevert, Of, ColumnsOf, TypeOK, memory, ghost, Rows
  <1>2. StepInv'
    BY DEF CatalogInv, BeginRevert, Of, StepInv, Gone, memory, ghost, CreateSteps,
           RevertSteps, TableSteps
  <1>3. ASSUME NEW k \in Key PROVE FilesInv(k)'
    BY DEF CatalogInv, BeginRevert, FilesInv, InDrop, InCreate, InRevert, memory,
           ghost, DropSteps, CreateSteps, RevertSteps, LoadSteps
  <1>4. ASSUME NEW k \in Key PROVE OwnInv(k)'
    BY DEF CatalogInv, BeginRevert, OwnInv, InDrop, RowsOf, ghost, DropSteps
  <1>5. ASSUME NEW k \in Key PROVE WholeInv(k)'
    BY DEF CatalogInv, BeginRevert, WholeInv, Gone, InDrop, InCreate, InRevert,
           memory, ghost, DropSteps, CreateSteps, RevertSteps, LoadSteps
  <1>6. JobInv'
    BY DEF CatalogInv, BeginRevert, ColumnsOf, JobInv, DropInv, CreateInv, LoadInv,
           RevertInv, HungInv, Removed, memory, DropSteps, CreateSteps, LoadSteps
  <1> QED BY <1>1, <1>2, <1>3, <1>4, <1>5, <1>6 DEF CatalogInv

\* REVERT has removed its files: it builds empty indexes.
LEMMA RevertBuildKeeps == CatalogInv /\ RevertBuild => CatalogInv'
  <1> SUFFICES ASSUME CatalogInv, RevertBuild PROVE CatalogInv'
    OBVIOUS
  <1>1. TypeOK'
    BY DEF CatalogInv, RevertBuild, ColumnsOf, TypeOK, memory, ghost, Rows
  <1>2. StepInv'
    BY DEF CatalogInv, RevertBuild, StepInv, Gone, memory, ghost, CreateSteps,
           RevertSteps, TableSteps
  <1>3. ASSUME NEW k \in Key PROVE FilesInv(k)'
    BY DEF CatalogInv, RevertBuild, FilesInv, InDrop, InCreate, InRevert, memory,
           ghost, DropSteps, CreateSteps, RevertSteps, LoadSteps
  <1>4. ASSUME NEW k \in Key PROVE OwnInv(k)'
    BY DEF CatalogInv, RevertBuild, OwnInv, InDrop, RowsOf, ghost, DropSteps
  <1>5. ASSUME NEW k \in Key PROVE WholeInv(k)'
    BY DEF CatalogInv, RevertBuild, WholeInv, JobInv, RevertInv, Gone, InDrop,
           InCreate, InRevert, memory, ghost, CreateSteps, RevertSteps, LoadSteps
  <1>6. JobInv'
    BY DEF CatalogInv, RevertBuild, ColumnsOf, TypeOK, StepInv, JobInv, DropInv,
           CreateInv, LoadInv, RevertInv, HungInv, Rebuilt, Removed, memory, DropSteps,
           CreateSteps, LoadSteps, TableSteps
  <1> QED BY <1>1, <1>2, <1>3, <1>4, <1>5, <1>6 DEF CatalogInv

\* REVERT puts the replayed rows back.
LEMMA RevertRowsKeeps == CatalogInv /\ RevertRows => CatalogInv'
  <1> SUFFICES ASSUME CatalogInv, RevertRows PROVE CatalogInv'
    OBVIOUS
  <1>1. TypeOK'
    <2>1. RowsRestored
      BY RevertRowsStep
    <2>2. TypeOK /\ {} \in Rows
      BY DEF CatalogInv, Rows
    <2>3. UNCHANGED <<dirs, schema, wal, known, open, current, born, created>>
      BY DEF RevertRows, memory, ghost
    <2>4. job' = None /\ todo' = {} /\ started' = FALSE /\ target' = {}
      BY DEF RevertRows, End
    <2>5. dat' \in [Key -> Rows \cup {None}] 
          /\ idx' \in [Key -> [Columns -> Rows \cup {None, Torn}]]
      BY <2>1 DEF RowsRestored
    <2> QED BY <2>2, <2>3, <2>4, <2>5 DEF TypeOK
  <1>2. StepInv'
    BY DEF CatalogInv, RevertRows, End, StepInv, Gone, memory, ghost, DropSteps,
           CreateSteps, RevertSteps, LoadSteps, TableSteps
  <1>3. ASSUME NEW k \in Key PROVE FilesInv(k)'
    <2>1. RowsRestored
      BY RevertRowsStep
    <2>2. FilesInv(k)
      BY DEF CatalogInv
    <2>3. CASE k = job
      <3>1. \A R \in Rows : R # None
        BY FileAssumption DEF Rows
      <3> QED BY <2>1, <2>2, <2>3, <3>1
              DEF RowsRestored, FilesInv, InDrop, InCreate, InRevert, DropSteps, CreateSteps,
                  RevertSteps, LoadSteps
    <2>4. CASE k # job
      BY <2>1, <2>2, <2>4 DEF RowsRestored, FilesInv, InDrop, InCreate, InRevert, DropSteps,
                             CreateSteps, RevertSteps, LoadSteps
    <2> QED BY <2>3, <2>4
  <1>4. ASSUME NEW k \in Key PROVE OwnInv(k)'
    <2>1. RowsRestored
      BY RevertRowsStep
    <2>2. OwnInv(k)
      BY DEF CatalogInv
    <2>3. CASE k = job
      <3>1. ASSUME "drop" \notin cut[k]
            PROVE  /\ RowsOf(dat'[k]) \cup wal[k] \subseteq {born[k]}
                   /\ \A c \in Columns : RowsOf(idx'[k][c]) \subseteq {born[k]}
        BY <2>1, <2>2, <2>3, <3>1 DEF RowsRestored, OwnInv, RowsOf
      <3>2. "drop" \notin cut[k] /\ born[k] # 0 => schema[k] = "full"
        BY <2>1, <2>2, <2>3 DEF RowsRestored, OwnInv, InDrop, DropSteps
      <3> QED BY <2>1, <3>1, <3>2 DEF RowsRestored, OwnInv
    <2>4. CASE k # job
      BY <2>1, <2>2, <2>4 DEF RowsRestored, OwnInv, InDrop, DropSteps
    <2> QED BY <2>3, <2>4
  <1>5. ASSUME NEW k \in Key PROVE WholeInv(k)'
    <2>1. RowsRestored
      BY RevertRowsStep
    <2>2. WholeInv(k)
      BY DEF CatalogInv
    <2>3. CASE k = job
      <3>1. ASSUME cut[k] = {} PROVE open[k] = "yes" /\ born[k] # 0
        BY <2>1, <2>2, <2>3, <3>1 DEF RowsRestored, WholeInv, InCreate, CreateSteps, TypeOK
      <3>2. dat'[k] # None
        BY <2>1, <2>3, FileAssumption DEF RowsRestored, Rows
      <3> QED BY <2>1, <2>3, <3>1, <3>2 DEF RowsRestored, WholeInv
    <2>4. CASE k # job
      BY <2>1, <2>2, <2>4 DEF RowsRestored, WholeInv, InDrop, InCreate, InRevert, DropSteps,
                             CreateSteps, RevertSteps, Gone, LoadSteps
    <2> QED BY <2>3, <2>4
  <1>6. JobInv'
    BY DEF CatalogInv, RevertRows, End, JobInv, DropInv, CreateInv, LoadInv,
           RevertInv, HungInv, DropSteps, CreateSteps, RevertSteps, LoadSteps
  <1> QED BY <1>1, <1>2, <1>3, <1>4, <1>5, <1>6 DEF CatalogInv

\* The process dies: the running statement is among the causes of its tables.
LEMMA CrashKeeps == CatalogInv /\ Crash => CatalogInv'
  <1> SUFFICES ASSUME CatalogInv, Crash PROVE CatalogInv'
    OBVIOUS
  <1>1. TypeOK'
    BY DEF CatalogInv, Crash, TypeOK, disk, Rows
  <1>2. StepInv'
    BY DEF CatalogInv, Crash, Cause, StepInv, Gone, disk, DropSteps, CreateSteps,
           RevertSteps, LoadSteps, TableSteps, Causes
  <1>3. ASSUME NEW k \in Key PROVE FilesInv(k)'
    BY DEF CatalogInv, Crash, FilesInv, disk
  <1>4. ASSUME NEW k \in Key PROVE OwnInv(k)'
    BY DEF CatalogInv, Crash, Cause, OwnInv, InDrop, disk, DropSteps
  <1>5. ASSUME NEW k \in Key PROVE WholeInv(k)'
    <2>1. /\ TypeOK /\ WholeInv(k) /\ OwnInv(k) /\ JobInv /\ cut \in [Key -> SUBSET Causes]
          /\ pc \in {"idle", "boot", "hung", "dropDb"} \cup TableSteps
      BY DEF CatalogInv, StepInv
    <2>2. /\ UNCHANGED <<dat, schema, wal, idx, born>> /\ pc' = "boot" /\ open'[k] = "no"
      BY DEF Crash, disk
    <2>3. cut'[k] = IF k = job \/ (pc = "dropDb" /\ k[1] = job[1])
                    THEN cut[k] \cup Cause ELSE cut[k]
      BY DEF Crash
    <2>4. ASSUME cut'[k] = {}
          PROVE  cut[k] = {} /\ ~InDrop(k) /\ ~InCreate(k) /\ ~InRevert(k)
      <3>1. cut[k] = {}
        BY <2>3, <2>4
      <3>2. k = job \/ (pc = "dropDb" /\ k[1] = job[1]) => Cause = {}
        BY <2>3, <2>4
      <3> QED BY <3>1, <3>2 DEF Cause, InDrop, InCreate, InRevert, DropSteps, CreateSteps,
                                RevertSteps
    <2> QED BY <2>1, <2>2, <2>4 DEF WholeInv, Gone, LoadSteps
  <1>6. JobInv'
    BY DEF CatalogInv, Crash, JobInv, DropInv, CreateInv, LoadInv, RevertInv,
           HungInv, DropSteps, CreateSteps, RevertSteps, LoadSteps
  <1> QED BY <1>1, <1>2, <1>3, <1>4, <1>5, <1>6 DEF CatalogInv

\* The start opens a table that has a schema file, its data file first.
LEMMA LoadTableKeeps == CatalogInv /\ LoadTable => CatalogInv'
  <1> SUFFICES ASSUME CatalogInv, LoadTable PROVE CatalogInv'
    OBVIOUS
  <1>1. TypeOK'
    BY DEF CatalogInv, LoadTable, Present, TypeOK, memory, ghost, Rows
  <1>2. StepInv'
    BY DEF CatalogInv, LoadTable, StepInv, Gone, memory, ghost, CreateSteps,
           LoadSteps, TableSteps
  <1>3. ASSUME NEW k \in Key PROVE FilesInv(k)'
    BY DEF CatalogInv, LoadTable, FilesInv, InDrop, InCreate, InRevert, memory,
           ghost, CreateSteps, RevertSteps, LoadSteps
  <1>4. ASSUME NEW k \in Key PROVE OwnInv(k)'
    BY DEF CatalogInv, LoadTable, Present, OwnInv, InDrop, RowsOf, ghost, DropSteps
  <1>5. ASSUME NEW k \in Key PROVE WholeInv(k)'
    BY DEF CatalogInv, LoadTable, Present, WholeInv, Gone, InDrop, InCreate,
           InRevert, memory, ghost, DropSteps, CreateSteps, RevertSteps, LoadSteps
  <1>6. JobInv'
    <2>1. PICK k \in Key : /\ schema[k] # "none" /\ open[k] = "no" /\ job' = k
                           /\ dat' = [dat EXCEPT ![k] = Present(@)]
                           /\ todo' = IF schema[k] = "full" THEN Columns ELSE {}
      BY DEF LoadTable
    <2>2. dat'[job'] # None
      <3>1. dat'[k] = Present(dat[k])
        BY <2>1 DEF CatalogInv, TypeOK
      <3>2. {} # None
        BY FileAssumption
      <3> QED BY <2>1, <3>1, <3>2 DEF Present
    <2>3. UNCHANGED <<schema, wal, idx, open, cut>> /\ pc' = "load"
      BY DEF LoadTable, memory, ghost
    <2> QED BY <2>1, <2>2, <2>3
            DEF JobInv, DropInv, CreateInv, LoadInv, RevertInv,
                HungInv, DropSteps, CreateSteps, RevertSteps, LoadSteps
  <1> QED BY <1>1, <1>2, <1>3, <1>4, <1>5, <1>6 DEF CatalogInv

\* The start builds an index that had no file from the data file.
LEMMA FillIndexKeeps == CatalogInv /\ FillIndex => CatalogInv'
  <1> SUFFICES ASSUME CatalogInv, FillIndex PROVE CatalogInv'
    OBVIOUS
  <1>1. TypeOK'
    BY DEF CatalogInv, FillIndex, TypeOK, StepInv, memory, ghost
  <1>2. StepInv'
    BY DEF CatalogInv, FillIndex, StepInv, Gone, memory, ghost, CreateSteps,
           LoadSteps, TableSteps
  <1>3. ASSUME NEW k \in Key PROVE FilesInv(k)'
    BY DEF CatalogInv, FillIndex, FilesInv, InDrop, InCreate, InRevert, memory,
           ghost, DropSteps, CreateSteps, RevertSteps, LoadSteps
  <1>4. ASSUME NEW k \in Key PROVE OwnInv(k)'
    BY DEF CatalogInv, FillIndex, OwnInv, InDrop, ghost, DropSteps
  <1>5. ASSUME NEW k \in Key PROVE WholeInv(k)'
    BY DEF CatalogInv, FillIndex, WholeInv, Gone, InDrop, InCreate, InRevert, memory,
           ghost, DropSteps, CreateSteps, RevertSteps, LoadSteps
  <1>6. JobInv'
    BY DEF CatalogInv, FillIndex, TypeOK, StepInv, JobInv, DropInv, CreateInv,
           LoadInv, RevertInv, HungInv, memory, DropSteps, CreateSteps, RevertSteps,
           TableSteps
  <1> QED BY <1>1, <1>2, <1>3, <1>4, <1>5, <1>6 DEF CatalogInv

\* The start has all indexes of a table.
LEMMA LoadTableEndKeeps == CatalogInv /\ LoadTableEnd => CatalogInv'
  <1> SUFFICES ASSUME CatalogInv, LoadTableEnd PROVE CatalogInv'
    OBVIOUS
  <1>1. TypeOK'
    BY DEF CatalogInv, LoadTableEnd, TypeOK, StepInv, disk, ghost
  <1>2. StepInv'
    BY DEF CatalogInv, LoadTableEnd, StepInv, First, Gone, disk, ghost, DropSteps,
           CreateSteps, RevertSteps, LoadSteps, TableSteps
  <1>3. ASSUME NEW k \in Key PROVE FilesInv(k)'
    BY DEF CatalogInv, LoadTableEnd, TypeOK, FilesInv, JobInv, LoadInv, InDrop,
           InCreate, InRevert, disk, ghost, DropSteps, LoadSteps
  <1>4. ASSUME NEW k \in Key PROVE OwnInv(k)'
    BY DEF CatalogInv, LoadTableEnd, OwnInv, InDrop, disk, ghost, DropSteps
  <1>5. ASSUME NEW k \in Key PROVE WholeInv(k)'
    BY DEF CatalogInv, LoadTableEnd, OwnInv, WholeInv, JobInv, LoadInv, Gone, InDrop,
           InCreate, InRevert, disk, ghost, DropSteps, CreateSteps, RevertSteps, LoadSteps
  <1>6. JobInv'
    BY DEF CatalogInv, LoadTableEnd, JobInv, DropInv, CreateInv, LoadInv, RevertInv,
           HungInv, DropSteps, CreateSteps, RevertSteps, LoadSteps
  <1> QED BY <1>1, <1>2, <1>3, <1>4, <1>5, <1>6 DEF CatalogInv

\* The start ends with every table that has a schema file open.
LEMMA BootEndKeeps == CatalogInv /\ BootEnd => CatalogInv'
  <1> SUFFICES ASSUME CatalogInv, BootEnd PROVE CatalogInv'
    OBVIOUS
  <1>1. TypeOK'
    BY DEF CatalogInv, BootEnd, End, TypeOK, disk, memory, ghost, Rows
  <1>2. StepInv'
    <2>1. StepInv /\ pc = "boot" /\ pc' = "idle" /\ todo' = {} /\ started' = FALSE
          /\ UNCHANGED <<disk, memory, ghost>>
      BY DEF CatalogInv, BootEnd, End
    <2> QED BY <2>1 DEF StepInv, TableSteps, DropSteps, CreateSteps, RevertSteps, LoadSteps,
                        Key, disk, memory, ghost, Gone
  <1>3. ASSUME NEW k \in Key PROVE FilesInv(k)'
    BY DEF CatalogInv, BootEnd, End, FilesInv, InDrop, InCreate, InRevert, disk,
           memory, ghost, DropSteps, CreateSteps, RevertSteps
  <1>4. ASSUME NEW k \in Key PROVE OwnInv(k)'
    BY DEF CatalogInv, BootEnd, OwnInv, InDrop, disk, ghost, DropSteps
  <1>5. ASSUME NEW k \in Key PROVE WholeInv(k)'
    BY DEF CatalogInv, BootEnd, OwnInv, WholeInv, Gone, InDrop, InCreate, InRevert,
           disk, memory, ghost, DropSteps, CreateSteps, RevertSteps
  <1>6. JobInv'
    BY DEF CatalogInv, BootEnd, End, JobInv, DropInv, CreateInv, LoadInv, RevertInv,
           HungInv, DropSteps, CreateSteps, RevertSteps, LoadSteps
  <1> QED BY <1>1, <1>2, <1>3, <1>4, <1>5, <1>6 DEF CatalogInv

\* The registers, the statement at work and the files of each table agree in every
\* state.  Neither OnlyOwnRows nor AcknowledgedSurvives is inductive: that a new
\* table finds no old file needs StepInv (no directory, no file) and DropInv (what a
\* DROP has still to remove), that a start finds every file of a table needs
\* CreateInv, RevertInv and LoadInv (what CREATE, REVERT and the start have done so
\* far), and all of it holds table by table, as far as that table's cut allows.
THEOREM CatalogInvariant == Spec => []CatalogInv
  <1>1. Init => CatalogInv
    <2> SUFFICES ASSUME Init PROVE CatalogInv
      OBVIOUS
    <2>1. TypeOK
      <3>1. created \in 0 .. MaxCreated /\ {} \in Rows /\ None \in Rows \cup {None}
        BY BoundAssumption DEF Init, Rows
      <3> QED BY <3>1 DEF Init, TypeOK
    <2>2. StepInv
      BY DEF Init, StepInv, Gone, TableSteps, DropSteps, CreateSteps, RevertSteps, LoadSteps
    <2>3. ASSUME NEW k \in Key PROVE FilesInv(k) /\ OwnInv(k) /\ WholeInv(k)
      BY DEF Init, FilesInv, OwnInv, WholeInv, InDrop, InCreate, InRevert, Gone, RowsOf,
             DropSteps, CreateSteps, RevertSteps
    <2>4. JobInv
      BY DEF Init, JobInv, DropInv, CreateInv, LoadInv, RevertInv, HungInv, DropSteps,
             CreateSteps, LoadSteps, RevertSteps
    <2> QED BY <2>1, <2>2, <2>3, <2>4 DEF CatalogInv
  <1>2. CatalogInv /\ [Next]_vars => CatalogInv'
    <2> SUFFICES ASSUME CatalogInv, [Next]_vars PROVE CatalogInv'
      OBVIOUS
    <2>1. CASE CreateDatabase \/ UseDatabase \/ DropDatabase
      BY <2>1, CreateDatabaseKeeps, UseDatabaseKeeps, BeginDropDatabaseKeeps,
         RemoveFileKeeps, DropDatabaseEndKeeps DEF DropDatabase
    <2>2. CASE CreateTable \/ InitializeIndex
      BY <2>2, BeginCreateTableKeeps, RegisterTableKeeps, SaveSchemaKeeps, OpenIndexKeeps,
         WriteRootKeeps, WriteMetaKeeps DEF CreateTable, InitializeIndex
    <2>3. CASE Insert \/ Hang
      BY <2>3, InsertKeeps, HangKeeps
    <2>4. CASE DropTable
      BY <2>4, BeginDropTableKeeps, DropSchemaKeeps, DropWalKeeps, RemoveIndexKeeps,
         DropTableEndKeeps DEF DropTable
    <2>5. CASE Revert
      BY <2>5, BeginRevertKeeps, RevertBuildKeeps, RevertRowsKeeps DEF Revert
    <2>6. CASE Crash \/ Boot
      BY <2>6, CrashKeeps, LoadTableKeeps, FillIndexKeeps, LoadTableEndKeeps, BootEndKeeps
         DEF Boot
    <2>7. CASE UNCHANGED vars
      BY <2>7
         DEF vars, disk, memory, regs, ghost, CatalogInv, TypeOK, StepInv, FilesInv,
             OwnInv, WholeInv, JobInv, DropInv, CreateInv, LoadInv, RevertInv, HungInv,
             Gone, First, InDrop, InCreate, InRevert, Rebuilt, Removed, RowsOf
    <2> QED BY <2>1, <2>2, <2>3, <2>4, <2>5, <2>6, <2>7 DEF Next
  <1> QED BY <1>1, <1>2, PTL DEF Spec

\* The files, the map of databases and the running statement keep their types.
THEOREM TypeCorrect == Spec => []TypeOK
  <1>1. CatalogInv => TypeOK
    BY DEF CatalogInv
  <1> QED BY <1>1, CatalogInvariant, PTL

\* A table owns its files: no row of an earlier table of its name is in them, nor
\* comes back with a REVERT, unless a DROP of that name was cut short.
THEOREM TablesOwnTheirFiles == Spec => []OnlyOwnRows
  <1>1. CatalogInv => OnlyOwnRows
    BY DEF CatalogInv, OwnInv, OnlyOwnRows
  <1> QED BY <1>1, CatalogInvariant, PTL

\* A table whose CREATE was acknowledged is there, whole, after every start, as
\* long as no statement on that very table was cut short.
THEOREM AcknowledgedTablesSurvive == Spec => []AcknowledgedSurvives
  <1>1. CatalogInv => AcknowledgedSurvives
    <2> SUFFICES ASSUME CatalogInv PROVE AcknowledgedSurvives
      OBVIOUS
    <2>1. ASSUME NEW k \in Key, pc = "idle", cut[k] = {}, born[k] # 0
          PROVE  /\ open[k] = "yes" /\ schema[k] = "full" /\ dat[k] \subseteq wal[k]
                 /\ \A c \in Columns : idx[k][c] = dat[k]
      <3>1. WholeInv(k) /\ OwnInv(k) /\ open[k] \in {"no", "bare", "yes"}
        BY DEF CatalogInv, TypeOK
      <3> QED BY <2>1, <3>1
              DEF WholeInv, OwnInv, InDrop, InRevert, DropSteps, RevertSteps, LoadSteps
    <2>2. pc = "hung" => cut[job] # {}
      BY DEF CatalogInv, JobInv, HungInv
    <2> QED BY <2>1, <2>2 DEF AcknowledgedSurvives
  <1> QED BY <1>1, CatalogInvariant, PTL
=============================================================================
