# A TLA+ model of the DBMS in `src/`

The program is a small relational database: a command line reads statements, a
parser turns them into calls, and a storage engine keeps every table in a heap
file of slotted pages, one B+tree file per `INDEXED` column, and an operation log
(`.wal`) that `REVERT` replays. Statements run on one thread; a second thread
writes the access log and a third trims the telemetry.

This directory holds TLA+ modules translated from that code, TLC configurations
that check them on small instances, and TLAPS proofs for every value of the
constants. `PROJECT.json` maps every definition to the lines it stands for.

    tlc -config Table.cfg MCTableQuery.tla         # one of the runs below
    tlapm TableProofs.tla                          # one of the proof modules

## 1. Inventory

Paths are relative to the repository's `src/`, which holds the engine.

| part | source | state | operations | module |
|---|---|---|---|---|
| storage engine, statements on a table | `storage_engine.hpp` | per table: record manager, indexes, `.wal` stream, `last_error` | `insertRows`, `rollbackInserted`, `deleteRows`, `updateRows`, `revertTable`, `appendWal`, `loadTable`, `selectRows` | `TableStore`; of `selectRows` the rows it selects, `TableQuery` |
| catalog | `storage_engine.hpp` | directories, `.schema` files, open databases | `createDatabase`, `dropDatabase`, `useDatabase`, `createTable`, `dropTable`, `saveSchema`, `loadMetadata`, `loadTable` | `Catalog` |
| conditions and index plans | `storage_engine.hpp` | none | `compareValues`, `evaluateNode`, `matchingRecords` | `TableQuery`; trees of `AND` and `OR`: `Parser` |
| slotted page | `record/*/page.*` | header, slot array, data area, free list | `insert_record`, `update_record`, `delete_record`, `get_record`, `compact`, `find_free_slot` | `PageOps`, `Page` |
| heap file, record manager | `record/*/heap_file.*`, `record/*/record_manager.*` | file, `page_cache_`, `next_page_id_` | insert, update, delete, get, `save_page`, `load_all_pages` | `HeapFile` |
| record serialization | `record/src/record_manager.cpp`, `record/include/record.hpp` | none | `serialize_record`, `deserialize_record` | none (section 8) |
| B+tree index | `btree/src/bplus_tree.cpp`, `btree/include/bplus_node.hpp` | pages, root, page counter | `insert`, `remove`, `find`, `range_find`, `initialize` | `BPlusTree` |
| index keys | `btree/include/index_key.hpp` | none | comparison, cut to 255 bytes | `TableQuery` |
| access log | `core/utils/access_logger.hpp` | `queue_`, `running_`, file | `initialize`, `log`, `shutdown`, `workerLoop` | `AccessLogger` |
| telemetry | `core/utils/telemetry.hpp` | deques of events, worker | `recordRequest`, `getSnapshot`, `cleanup`, `start`, `stop` | `Telemetry` |
| values, string pool | `core/types/include/` | weak pointers by string | interning | none (section 8) |
| tokenizer, parser | `parser/` | tokens, position | recursive descent, call of the engine | `Parser` |
| command line | `cli/cli.cpp` | input buffer | `runBatchMode`, `runInteractive`, `executeSingleStatement`, `METRICS` | `Execution`, `Session` |
| platform layer | `core/utils/platform.hpp` | none | `fsync`, open flags | none (section 8) |

How they interact. The command line cuts its input into statements, hands each to
the parser and, when that returns, to the access log and the telemetry. The
parser calls the engine once per statement. The engine calls, for every row of a
statement, the heap file first, then each index in column order, then the log;
nothing spans these calls: there is no transaction, no undo log, and each file is
written in place. `matchingRecords` reads an index, or the heap, once, before the
first row is changed. `REVERT` deletes and rebuilds the files of the table. A
start opens the files as they are.

What is hard, and what makes each part correct:

* **One step of several failing.** A row of an `INSERT` is refused after its
  predecessors reached three files; an `UPDATE` stops half way. Correct: heap and
  indexes agree whenever a statement is over, an `INSERT` is all or nothing,
  `INDEXED` columns stay unique.
* **Death of the process between two writes.** Correct would be: a restart puts
  the files back in agreement. The code does not do that (section 6); what it
  does guarantee is that the damage stays with the row in flight and with the one
  index whose B+tree was being written, which can be left half-made; the other
  indexes keep their keys unique.
* **History.** The log must replay to what the table was, though record ids are
  reused, rolled back and handed out anew.
* **Space.** Pages reuse slots through a list threaded in their own offsets, and
  compact around the record being updated; nothing may overlap, get lost, or be
  refused without need.
* **Tree surgery.** Splits, borrows and merges move separators, children and the
  leaf chain by hand, one page write after the other.
* **Answers through an index.** A comparison becomes a half-open range of keys that
  end at a largest key and are cut to a length; the answer must be that of the scan.
* **Text.** Lines are joined, completed, cut at semicolons and stripped of comments
  by rules that differ between a script and a terminal, before a parser sees them.
  What is executed must be what was written, and no `WHERE` may get lost.
* **Two threads and a condition variable.** No entry lost, no notification lost,
  a shutdown that drains and ends.
* **Two threads and a clock.** Each reads the clock before it takes the lock, so
  what one trims the other may still be counting.

The full list of hazards, each at its line and with the properties that watch it,
is under `hazards` in `PROJECT.json`; those without a property say why.

## 2. The modules

### `TableStore`: the statements of one table

The engine's code is sequential, so the model is a program counter `pc` and the
registers of the statement in progress (`input`, `rids`, `set`, `target`, `done`
for the statement; `rid`, `old`, `new`, `todo` for the row in flight). There is
one action per write that reaches a file, because the process can die after each,
and because that is what a later row of the same statement sees.

| action | code |
|---|---|
| `BeginInsert`, `InsertRow`, `InsertIndex`, `InsertLog`, `InsertReject`, `InsertEnd` | the loop of `insertRows`: DEFAULTs, `validateRow`, the duplicate test, heap, each index, `appendWal` |
| `Undo`, `UndoIndex`, `UndoRow`, `UndoEnd` | `rollbackInserted`: for each inserted row, each index, then the heap; nothing is logged |
| `BeginDelete`, `DeleteRow`, `DeleteIndex`, `DeleteLog` | `deleteRows`: heap, each index, log |
| `BeginUpdate`, `UpdateRow`, `UpdateUnindex`, `UpdateIndex`, `UpdateLog`, `UpdateReject` | `updateRows`: heap, then for each changed column the old key out and the new one in, then the log |
| `SkipRid`, `VisitEnd` | a record id whose row cannot be read is passed over; the loop ends |
| `BeginRevert`, `RevertDropIndex`, `RevertBuild`, `RevertRow`, `RevertIndex`, `RevertNext`, `RevertEnd` | `revertTable`: replay up to a time, delete and recreate the data file, each index file, then insert row by row in the order of the old record ids |
| `Tick`, `Crash` | the clock; the death of the process and `loadTable` at the next start |

The heap is one page seen as a map from slots to rows together with its list of
free slots, since the reuse of record ids is what makes the log hard to replay;
`Page` looks inside. An index is the set `index` of the entries its B+tree is known to
hold, and the set `unsure` of the keys of which it may answer anything; `BPlusTree` looks
inside. There are two ways for a key to become unsure:

* `REVERT` inserts without looking for the key, and after a rolled back `INSERT` the
  log can bring two rows with one key. The tree takes both, a split can put them on two
  sides of a separator, and from then on `find`, `range_find` and `remove`, which go
  right of it, miss the one on the left. `IndexAdd` of a key that is there makes that key
  unsure and says nothing more of it until the next `REVERT`; the other keys of the tree
  do not suffer (`FindAnswers`, `RangeAnswers` of `BPlusTree`).
* A process that dies inside an operation on a tree leaves it half-written: half a
  leaf lost (`bplus_tree.cpp:254-255`), or a right half that no parent knows (255-281), or
  an entry given up by a leaf before its sibling has taken it (410-411). `Crash` then tears
  the index that was being written (`IndexBusy`, `Tear`): every key of it is unsure.

A check for a duplicate that asks for an unsure key can pass or fail, inserting or
removing one changes nothing that is known, and a `WHERE` that asks for one can list any
record id. A
`WHERE` clause of `DELETE` and `UPDATE` is any subset of the record ids it could
yield, in any order: those of live rows and those an index lists, stale ones
included, and all of them when some key is unsure. `past`, `horizon`, `unlogged`, `before` and `cut` are history variables: no
action reads them in a guard except that `unlogged` bounds the number of crashes.

### `TableQuery`: which rows a `WHERE` selects

`TableQuery` extends `TableStore`, so the index it asks is the one the statements
before have left, with their rollbacks and `REVERT`s. `Scan` is the reference: the
rows for which `evaluateNode` holds. `MatchingRecords` is the code: `Planned` decides
whether an index is used, `KeyRange` turns the comparison into a range, `RangeFind`
and `FindKey` read the index by the order of `IndexKey`, types first and strings cut
to `KeyLen`. `Answers` gives the answers that are possible: one, or many when an unsure
key is asked for, and `Selects` says of all of them that no row with a sure key is
missed, and of a single one that it is right. A value is a pair of a type and a number or a sequence of bytes. The
answers differ from the scan in known places, and the properties name them exactly:
`>` and `>=` miss the largest integer, `>=` of strings what lies past 64 bytes 0xFF, and
`BETWEEN` an integer and a string lists the rows that one of its bounds leaves, where the
scan finds none.

### `Text`, `Parser`, `Execution`, `Session`: from lines to calls

`Parser` has the functions of tokenizer and parser as operators from text to a call
of the engine. Text (`Text`) is a sequence of atoms (a word, a number, a mark, the quote, a
blank, `--`), so that literals, comments and semicolons are where they can do harm
and spelling is not. The parser's `error_`, its return of `nullptr` and the
exception of `std::stoll` are three values of `error`.

`Execution` is what the program does with a command cut into statements: `Empty`,
`Metrics` or `Execute` takes them one by one, as `executeSingleStatement` does, with a
log entry and then an event in the telemetry. It extends `Telemetry`, whose worker
runs beside. Which statements come (`NextLine`) and with what status they return from
the parser is left open. `executed` is history.

`Session` is a run of the program: `ReadBatch` or `ReadInteractive` takes a line and
joins it to the command, `Take` hands a finished command to `SplitStatements`, and
`ExecuteStatement` asks the parser. Each of its actions has an action of `Execution`,
or `UNCHANGED execution`, among its conjuncts, so a run of `Session` is one of
`Execution` with the rest filled in. Of the engine it has the catalog (which the parser
asks) and which calls it may refuse (`Refusable`): `CREATE TABLE`, `INSERT` and `UPDATE`; a
`SELECT` that names a column, as it may not exist; a `REVERT` to a literal that is no
timestamp. A `DELETE` of a table that the parser has found is never refused. `received` and `called` are history.

### `Telemetry`: two threads and a clock

Every operation is two steps, the reading of the clock and the part under
`data_mutex_`; `Tick` and the other thread fit in between. A deque is all that was
ever pushed and how many were popped, so that a count can be compared with the
events there really were. Caller and worker meet in `running_`, the notification of
`stop` and the join.

### `RecordMap`, `PageOps`, `Page`, `HeapFile`: where rows are kept

`RecordMap` is the abstract specification: what `RecordManager` promises to the
engine, a map from record ids to records. `PageOps` has the operations of a page as
operators on page values, down to the byte: each byte of a record knows which record and
which position it is from, so an overlap, a record moved short, or a stale byte is
seen when it is read back. `WritePos` is the `write_pos` of `compact`, slot by slot, a
recursive function. `Page` runs them in every order; `HeapFile` puts pages
in a file behind a cache, with restarts. Both are shown to implement `RecordMap`
(`IsRecordMap`) by a refinement mapping that reads every record through
`get_record`. The variable `done` names the last operation that succeeded, so that
the mapping also says which id an insert returned.

### `BPlusTree`: one index

The recursion of `insert_into` and `remove_from` is a program counter and the path
from the root (`path`, `at`): one step per node on the way down, one on the way back
for what the code does after the call returns, and one for each page write after
the first of a step (`todo`).

| action | code |
|---|---|
| `Begin`, `Descend` | every operation goes down from the root by `find_child_index` |
| `FindEnd`; `BeginScan`, `ScanLeaf`, `ScanEnd` | `find`; `range_find`, leaf by leaf along the chain |
| `InsertIntoLeaf`, `InsertIntoParent`, `GrowRoot` | `insert_into` at a leaf and after its recursive call, each with the split of a full node; the new root of `insert` |
| `RemoveFromLeaf`, `RemoveFromParent`, `RemoveEnd` | `remove_from` at a leaf and after its recursive call, with `rebalance_child` of an underfull child; the root of `remove` that gives way to its only child |
| `Continue` | the next page write of a split, a borrowing or a merge, in the order of the code |

`pages` is what is on disk, so every state is one a process may die in, and no action
is needed for the crash: the properties ask what a dead process leaves, not what work
on a broken tree would do. A page that has been merged away stays on disk until its
parent is written, and is then dropped from the state: the code never reuses it. The tree
takes keys it holds: `INSERT` and `UPDATE` ask `find` first, but `revertTable`
(`storage_engine.hpp:514`) and the rebuilding of an index at a start (904) do not.
`Doubles` is the choice, and the history variable `twice` has the keys that were
inserted while the tree held them; the properties hold for all other keys, and of the
keys in `twice` the order of the leaves and the leaf chain do. The metadata is written together with the page that needs it first,
as nothing reads a page before the metadata or another page names it. `content`, `low`,
`high` and `level` are history: the entries inserted and not removed, and for every page
the range of keys and the height it has in the tree; no guard but `Doubles` reads
them.

### `AccessLogger`: two threads

The queue and `running_` are only touched under `mutex_`, so everything between
lock and unlock is one step; `cv_.wait` releases the mutex and falls asleep in one
step, a notification is a step of its own after the unlock, and a waiter may wake
without one. `WriteEntry` runs without the mutex. `initialize` may fail to open
the file, and then there is no worker though `log` still queues.

### `Catalog`: databases and tables as files

`createTable` makes the data file, then each index file (root page, then
metadata), then enters the table in `databases_`, truncates the schema file and
fills it; `dropTable` removes data, schema, log and indexes in that order;
`dropDatabase` leaves the order to `remove_all`; `revertTable` removes and remakes
data and indexes; `loadMetadata` opens whatever has a schema file, makes what is
missing and builds an index whose file is missing from the data file. Each of
these is an action, and `Crash` can come after any, during a start too. A file is
the set of the `CREATE`s whose rows it holds, so what a file kept from an earlier
table of the same name is told apart; `INSERT` is one step. `born` and `cut` are
history: the `CREATE` each table comes from, and which statements on a name a crash
cut short since it was last free of files.

### MC modules

`MCTableStore`, `MCTableQuery`, `MCCatalog`, `MCPage`, `MCHeapFile`, `MCBPlusTree`,
`MCAccessLogger` and `MCSession` give the constants that are not model values; the
`.cfg` files pick among them.

### Mutants

Definitions introduced by a comment `Mutant:` are plausible bugs of the definition
that follows them: a dropped check, a forgotten reset, a swapped order. No action
uses them. Each property of a passing run names one that breaks it (`mutants` in
`PROJECT.json`), so no property holds whatever the code does.

## 3. The runs

| run | module, configuration | what it asks |
|---|---|---|
| `table` | `MCTableQuery`, `Table.cfg` | `INSERT` with its rollback, `UPDATE`, `DELETE` and `REVERT`, step by step: `SlotsSound`, `IndexAgrees`, `InsertAtomic`, `TimeTravel`, `RevertRestores`, every statement ends (`StatementEnds`), and `WHERE` through an index: `IntAnswers`, `StringAnswers`, `MismatchAnswers` |
| `table_crash` | `MCTableStore`, `TableCrash.cfg` | a death between any two writes, or inside an operation on a tree, two indexes: `IndexKeysUnique`, `LossBounded` |
| `table_rollback_revert` | `MCTableStore`, `TableRollbackRevert.cfg` | violated: `RevertToAnyTime` |
| `table_recovery` | `MCTableStore`, `TableRecovery.cfg` | violated: `RecoveredConsistent` |
| `table_greater` | `MCTableQuery`, `TableGreater.cfg` | violated: `GreaterAnswers` |
| `page` | `MCPage`, `Page.cfg` | every sequence of operations on one page: `RecordsApart`, `FreeListSound`, `RefusesOnlyWhenFull`, implements `RecordMap` |
| `heap_file` | `MCHeapFile`, `HeapFile.cfg` | two pages and restarts: `DiskIsCurrent`, `GrowsOnlyWhenFull`, implements `RecordMap` |
| `bplus_tree` | `MCBPlusTree`, `BPlusTree.cfg` | every sequence of inserts, removals, searches and scans, page write by page write, a key in the tree twice among them: `BalancedOrdered`, `ChainFollowsTree`, `FindAnswers`, `RangeAnswers`, and `NoneTwice` of what a death at any write leaves |
| `catalog` | `MCCatalog`, `Catalog.cfg` | databases and tables made, dropped, reverted and reopened, a crash after any file: `OnlyOwnRows`, `AcknowledgedSurvives` |
| `access_logger` | `MCAccessLogger`, `AccessLogger.cfg` | two threads: `Accounted`, `SleepsForAReason`, `DrainedOnExit`, `EntriesReachFile`, `ShutdownEnds` |
| `session` | `MCSession`, `Session.cfg` | scripts and terminals beside the telemetry worker: `ScriptRunsAsWritten`, `ConditionMeans`, `NoWhereLost`, `LoggedAndCounted`, `SnapshotBracketed`, `EventsExpire`, `InputAnswered` |
| `session_refusals` | `MCSession`, `SessionRefusals.cfg` | violated: `RefusalsCounted` |

`TypeOK` is checked where a proof rests on it or a mutant breaks it. Each property is
stated in words in a comment above its definition.

What the runs show, beyond their names:

* `IndexAgrees` is not only about rest: it says what each index holds at every step
  of every statement, the row in flight included (`Pending`). That is what the
  duplicate test of the next row, and the next start after a crash, rely on.
* `TimeTravel` holds for times before the first *unlogged change*: a rolled back
  row, a `REVERT`, a crash. Beyond it the code does not keep its promise
  (section 6), so the property is as strong as it can be made.
* `LossBounded` counts the record ids for which heap, indexes and log are not in
  step, against the failures so far, leaving out the indexes that a crash has torn, and
  then counts those. Each failure costs at most one record id and one index, so a
  stale entry, or an index that answers anything, never makes a later statement damage a
  further row or another index.
* `NoneTwice` is about the leaves on disk at every single page write. A merge is the one
  case with an entry in two leaves, contrary to the other branches: the leaf that takes
  over is written before the parent stops leading to the one it swallows. It also names
  the one link to a page not yet written, that of a split.
* `MismatchAnswers` says what `BETWEEN` with one bound of each type selects: by index
  not what the scan selects. Neither the code nor a document says which is meant.
* `ConditionMeans` compares the tree the engine is given with `Meaning`, a reading of
  the written clause that knows no recursive descent: the parts between the `OR`s
  outside parentheses, then between the `AND`s. It is evaluated for every assignment
  of truth to the comparisons of clauses with up to four of them.
* `ScriptRunsAsWritten` excepts scripts with a line that ends in a semicolon inside a
  literal (`Closed`): the code ends the command there, and on a terminal it adds such
  a semicolon itself. `NoWhereLost` has no such exception.
* `SnapshotBracketed` cannot be an equation. A snapshot that waits for the lock while
  the worker trims reports a count between those of two windows: the one that ends
  when it read the clock and the one that ends when it got the lock.

## 4. Bounds

Each bound is a constant with "bound:" in its comment.

| bound | values | why it is enough |
|---|---|---|
| `NSlot` | 3 in `table`, 2 in `table_crash` | two rows on the free list in either order and a fresh slot; one row in flight beside one at rest |
| `MaxBatch` | 3 (2) | a row refused after two earlier ones, so the rollback has an order |
| `MaxLog` | 3 | insert, update or delete, and reuse of one record id; the guards of `Begin` keep a statement whose lines would not fit from starting |
| `MaxTime` | 1 | two lines in one millisecond, and a time before and after each change |
| `MaxCrash` | 2 in `table_crash`, 1 in `table_recovery` | a second failure on top of what the first left |
| `MinInt`, `MaxInt`, `KeyLen`, `MaxString` | 0, 2, 2 bytes, one byte of 2 | the code has 64 bits, 255 bytes and 64 bytes 0xFF; what matters is which values reach the end, and rows and constants lie below, at and past each |
| `Value`, `Column` in `table` | integers 1 and 2; seven strings; an INT and a STRING column, both indexed | the largest integer, strings with a common key, one past the largest string of a range, one too long for a page, an integer where a string belongs |
| `Value`, `Column` in `table_crash` | 2 values and `NULL`, 2 indexed columns | a duplicate, a non-duplicate, a refused `NULL` |
| `DataSize`, `MaxSlots` | 5 bytes and 3 slots; 2 and 2 in `heap_file` | records of 1, 2 and 4 bytes fill a page, leave holes that only compaction joins, and move past each other; a page can run out of slots or of bytes first |
| `CountRange` | 2 in `page`, 1 in `heap_file` | the width of `slot_count`; nothing reads it to decide, so a small width drops it from the state |
| `MaxPages`, `LoadHoles` | 2; `FALSE` in `heap_file` | a second page is taken only when the first refuses; `LoadHoles` lets a restart load a page nobody wrote (section 6), which would hide all else |
| `MaxKeys`, `KeyCount`, `MaxPages`, `Again`, `Ends` | 2, five keys, 8 pages, key 3 twice, ends 4 and 6 | three levels; two equal keys in one leaf and on both sides of a separator, at the leaf and above it; every branch of split, borrow from either side and merge with either side at the leaf and at the inner level; a scan that ends inside the keys and one that runs to the end of the chain. The proofs take any, with nothing in the tree twice |
| `Dbs`, `Tables`, `Columns`, `MaxCreated` | 2 databases, 1 table name in each, 1 indexed column, 2 `CREATE`s | one table beside another in a database that is dropped, and an earlier table of the same name; with two indexed columns the run has 14 million states and passes too, but takes four minutes. The databases are interchangeable (`SYMMETRY`; no liveness is checked there) |
| `MaxLogged` | 4 | more entries than the queue, the hand and the file together need to show a gap, and two equal ones |
| `Scripts` | every script of up to three of eleven lines, in both modes, 22 chosen ones, and 37 clauses of up to four comparisons | a statement, a literal or a comment that begins on one line and goes on over two; two connectives beside and inside parentheses |
| `limit` (`MaxTime`) | 0 for most scripts, 2 to 6 for those about time | the clock of a run; 6 is past the longest window after an event at 1 |
| `Second`, `TenSeconds`, `Minute`, `TenMinutes` | 1, 2, 3, 4 | only their order matters to what is trimmed and counted; the proofs take any |

The clock only advances; the real one can be set back, and what that does to
`REVERT` is a hazard without a property.

Deadlock is checked in the table, page, heap file and catalog runs. `BPlusTree.cfg`,
`AccessLogger.cfg` and the configurations of `Session` switch it off, since there the
system really stops: a split that would need a page past the bound `MaxPages` is not
finished, after `shutdown` neither thread takes a step, and a program that has read its
input ends.

## 5. Fairness

`TableStore!FairSpec` is weak fairness of `Step`, all the steps of a statement in
progress: the engine's one thread is scheduled and no step of a statement waits
for anything. Starting a statement, the clock and crashes are not fair.
`StatementEnds` is then about the loops: each consumes what it iterates over. It is
checked without crashes, as a search in a torn tree need not end.

`AccessLogger!FairSpec` is weak fairness of the worker's own steps, of the
notification in `log`, and of the steps of a shutdown that has begun: both threads
are scheduled by the operating system, and the mutex is held only for finite
straight-line code. Logging, shutting down and spurious wakeups are not fair, so
`EntriesReachFile` does not lean on a later statement, and `ShutdownEnds` not on
luck. A worker that sleeps is woken by a notification or not at all.

`Session!FairSession` is weak fairness of the thread that executes statements once it
has a line, and of the telemetry worker; reading the next line is not fair, as it may
never be typed. The first is written out as `<>[]Busy => []<><<Work>>_vars`, where
`Busy` says when `Work` is enabled, so that TLC need not run the parser to find out;
that it is the same was checked with TLC. `InputAnswered` is then about the loops over
statements and about the join of a worker that may be anywhere; `EventsExpire` is
about queues that nobody writes to any more.

The other modules have only safety properties.

## 6. What the code does not do

Four runs end in a violation on purpose: they check what the repository says of
the program, and TLC's trace shows what it does instead (`findings`).

* **A refused `INSERT` comes back.** `rollbackInserted` undoes heap and indexes but
  leaves the `I` lines in the log, so a `REVERT` to any later time puts the rolled
  back rows into the table (`RevertToAnyTime`).
* **The log does not recover anything.** `README.md` calls it a write-ahead log
  for recovery after failures; it is written after heap and indexes, and no start
  reads it. A process that dies between the heap write and the index write restarts
  with an index that does not list the row (`RecoveredConsistent`).
* **`>` of strings finds nothing.** The plan for `name > 'a'` on an indexed `STRING`
  column leaves the upper end of the range `NULL`, which sorts before every key
  (`GreaterAnswers`). The same clause on a column without an index is right.
* **Refused statements are logged as OK.** The engine reports a refusal to its own
  error buffer, the status of a statement is taken from the parser's; a duplicate key
  or a wrong type is logged `OK` and missing from the error count of `METRICS`
  (`RefusalsCounted`, of an `INSERT`).

Two more were found by earlier runs of `Page` and `HeapFile` and are kept here without
a run. `update_record` (`page.cpp:69`), when it finds room only by compacting around
the old copy, counts the slot in without having counted it out; nothing reads
`slot_count` to decide anything. And a record that fits in no page uses up a page id
(`heap_file.cpp:52`): the next new page is written beyond a page of zeros, which a
restart loads, its checksum of 0 being that of an empty page, with all 512 slots taken
by records of length 0 and slot 0 at the head of its free list. With
`LoadHoles = TRUE` the run `heap_file` shows it as a violation of `IsRecordMap`; the
theorems about the heap file exclude it by a hypothesis (section 7).

A terminal does what its comment says to lines that begin with a letter
(`cli.cpp:91`): it completes them with a semicolon. A `DELETE` typed with its `WHERE`
on the next line is executed without it; `NoWhereLost` speaks of the statement as
completed.

`Catalog` shows one more thing that the repository makes no statement about. A
process that dies inside `BPlusTree::initialize`, between the root page and the
metadata, leaves an index file with zeros for its metadata. A later `CREATE TABLE`
or start opens it as it is, with page 0 for its root, which reads as an inner node
that is its own child: the first `INSERT` into the table never ends (`Hang`).
`AcknowledgedSurvives` says that only a table one of whose statements was cut short
can come to this, and `OnlyOwnRows` excepts names whose `DROP` was cut short,
since the next table of that name inherits what the crash left of log and indexes.

Two comments disagree with the code in ways no run is about: `heap_file.hpp:17`
speaks of an LRU cache, but no page is ever evicted; the comment at
`bplus_tree.hpp:76` says `remove_from` returns whether the node underflowed, but it
returns whether the entry was found and reports the underflow through a parameter.

## 7. What is proved

Every theorem is about `Spec` and holds for every value of the constants its module
declares: any columns, rows, slots, statements, pages, records, keys, databases, entries
and windows, nodes of any capacity, and any mix of `REVERT`s, crashes and restarts that
the statement does not exclude. The assumptions are the named `ASSUME`s of the modules,
which TLC evaluates in the runs:

| module | assumptions | what they say |
|---|---|---|
| `TableStore` | `ColumnAssumption`, `ValueAssumption`, `DefaultAssumption`, `TypeAssumption`, `KeyAssumption`, `InputAssumption`, `BoundAssumption`, `FaultAssumption` | the sets have the shapes their comments give them, `NULL` is no value and a missing row no row, every value has a key, the bounds are numbers |
| `TableQuery` | `RangeAssumption`, `CutAssumption`, `NullAssumption`, `StringAssumption` | the smallest integer is not above the largest; a key is the value cut to `KeyLen`; strings are sequences of bytes; the largest string of a range is no longer than a key |
| `PageOps` | `SizeAssumption`, `CapacityAssumption` | a record has at least one byte; there are no more slots than the number that ends the free list, 0xFFFF in the code |
| `HeapFile` | `BoundAssumption` | the bound on pages is a number |
| `BPlusTree` | `KeysAssumption`, `CapacityAssumption` | there is a key, and ranges end at numbers; a node has room for two keys (the code asserts three), and the bound on pages is a number |
| `Catalog` | `NameAssumption`, `ColumnAssumption`, `BoundAssumption`, `FileAssumption` | the marks for a missing and a torn file are not names and not contents |
| `AccessLogger`, `Telemetry` | `MaxLoggedAssumption`; `WindowAssumption`, `ClockAssumption` | a bound is a number; the windows are numbers in the order of their names |

One theorem module has a further hypothesis, `NoHoles` of `HeapFileProofs`: every record
fits in an empty page, or no restart loads a page that nobody wrote. Without it the
refinement is false (section 6).

**`TableProofs`** is in sections, each on top of the ones before.

* `Invariance`, `TypeCorrect`, `SlotsAlwaysSound`. Neither `TypeOK` nor `SlotsSound` is
  inductive. `Inv` adds what the registers of a statement mean between its steps:
  `RowInFlight` (where the row in flight is in the heap, for each `pc`),
  `RoomToInsert` (an `INSERT` still has as many free slots as rows), `Undoable` (what a
  rollback will visit are live rows, each once, so that no slot is freed twice) and
  `Rebuilding` (a `REVERT` fills the new file from its first slot and never past the
  old slot of the row it places, so it cannot run out of room). One lemma per action
  or group of alike actions.
* `LogTellsThePast`. `History` strengthens `TimeTravel` with: no line of the log is
  from the future, and as long as nothing unlogged happened the last entry of `past`
  is what the log replays to (`Logged`). The lemmas say what one more line does to a
  replay up to any time.
* `IndexesAlwaysAgree`, `KeysAlwaysUnique`, `IndexKeysAlwaysUnique`. All three are about
  the keys that are sure: those a `REVERT` has put in twice are excepted by name, and
  so is an index that a crash has torn. `Listed(c, r)` says
  which entries the index of column `c` has for record id `r`, the row in flight
  included; `InStep` allows for the indexes a `REVERT` has not emptied yet, and
  `Agreement` is `InStep` everywhere. It needs `RowsValid`, that a live row has a value
  in every column its statement will look for. Uniqueness follows from agreement, as
  the duplicate test asks the index; with crashes, where agreement fails, the invariant
  is instead `IndexUnique`: no index is known to list a key twice, without `REVERT` a key
  is unsure only in a torn index, and the keys still to be written
  by the statement in progress are in no index (`KeysPending`).
* `InsertIsAtomic`. `Tracked` says of every moment of an `INSERT` what separates the
  table from the one it found: the heap by the rows of `done` and the one in flight,
  each index by exactly their entries (`Holding`), as far as their keys are sure. Crashes may have left any stale
  entries before, so `Agreement` is not available; that no entry of the batch was there
  before is what the duplicate test gives, and without it the rollback would take away
  an entry it did not make.
* `RevertRestoresThePast`. `Restoring` says of every row how often it is in the new
  file and how often it is still to be put there: together as often as the table had it
  at the time asked for. It is about sets of record ids (`WithRow`) and their
  cardinalities, as rows come back under other ids.
* `LossAlwaysBounded`. `Off` is the set of record ids whose row the log does not tell or
  some index that is not torn does not list rightly; `Bounded` is that it has no more
  members than there were failures, and `TornBounded` the same of the torn indexes. Every action either keeps each id as it was (`NextInStep`,
  `NextAccounted`) or is a failure, and a failure costs only the row in flight.
* `IntAnswersAlways`, `StringAnswersAlways`, `MismatchAnswersAlways`, about
  `TableQuery`. Between statements an index holds exactly the sure keys of the rows
  (`IndexesAlwaysAgree`, `RowsValid`), so that a range read from it is a condition on the
  rows (`Reached`, `ReachedSelected`); for constants of another type the keys in `unsure`
  have to be of the column's type too (`UnsureKeys`). The operators are then compared one by one, at the ends of the
  range too. The width of integers, the length of keys and the largest string are
  constants, so the theorems cover 64 bits, 255 bytes and 64 bytes 0xFF. For strings the
  lemmas are about the byte order: two strings differ at a first byte or one is a prefix
  of the other (`Trichotomy`), nothing lies between a string and the same one followed
  by a byte 0 (`NextString`), and cutting a string does not change how it compares with
  one that is no longer than a key (`CutCompares`).

**`PageOpsProofs`, `PageProofs`, `HeapFileProofs`.** The first has what each operation of
a page keeps and does; the other two apply it to one page and to a file of them.

* `PageOK` is inductive: `DataInv` (the records lie inside the data area, at or above its
  start, and apart) and `ListInv` (the free list is a chain of the free slots that were
  used, each once, that ends; written as a function from positions to slots, so that no
  recursion is needed). The theorems are `PageInvariant`, `RecordsLieApart`,
  `FreeListIsSound`, `RefusalsAreJust`.
* The heart is compaction: `compact` moves the records to the end of the area in the
  order of their slots, and the proof is that the places it computes are apart, lie
  inside, and that every byte arrives (`InsertEffect`, `UpdateEffect`, `DeleteEffect`
  state it for the operations that compact).
* `PageIsRecordMap` and `HeapIsRecordMap`: under the mapping that reads each record
  through `get_record`, every step of a page, and every step of a heap file, restarts
  included, is one of `RecordMap` or changes nothing that can be read.
* `HeapInv` says that every page in memory is in the file, both well formed, with the
  same records, though the one in memory may be compacted; and, if all records fit in a
  page, that the file has no other pages. `HeapInvariant`, `DiskHoldsAll`,
  `GrowthIsJust`.

**`BPlusTreeProofs`**: `TreeInvariant`, `BalancedOrderedAlways`,
`ChainFollowsTreeAlways`, `FindAnswersAlways`, `RangeAnswersAlways`, `NoneTwiceAlways`.

* All are under the condition `twice = {}`: that no key was inserted while the tree held
  it, which is so of an index since the last `REVERT` or rebuilding that brought equal
  keys. That the other keys do not suffer from equal ones is model-checked.
* The history variables say where a page belongs, so that the tree can be described a
  page at a time and without recursion. `Good(Tree)`: pages of one level have ranges that
  do not overlap; a leaf has exactly the entries of its range, in order (`Holds`), and
  its link leads to the leaf whose range begins where its own ends (`Link`); the children
  of an inner node divide its range (`Routes`).
* `Tree` is not what is on disk but what the writes in `todo` will have made of it. So
  the first step of a split, a borrowing or a merge changes `Tree` and the writes after
  it do not. `OnDiskAlready` says what each page on disk shows of `Tree` before its write
  is made: a leaf has its link, and no entry that `Tree` does not have in that leaf. This
  is what makes the order of the writes matter: the page that gives an entry up first.
  `Writing` says which writes `todo` can hold, so that `NoneTwice` can name the one link
  to a page not written yet and the one pair of leaves with the same entries.
* Between a split and the step of the node above, that node still routes the whole
  old range to the page that split (`Upper`); after a removal the page at work may be
  one entry short (`Filled`). `Located` says that the running operation is on the path
  from the root to its key, and how much a scan has listed.
* The lemmas are in three layers: what insertion, removal and cutting do to a sequence;
  what a changed leaf, a split, an added child, a moved separator and a merge keep of
  `Good` (`LeafChange`, `Divide`, `Attach`, `Redivided`, `Absorbed`); and one lemma per
  action.

**`CatalogProofs`**: `CatalogInvariant`, `TypeCorrect`, `TablesOwnTheirFiles`,
`AcknowledgedTablesSurvive`. `CatalogInv` says for each place where the process can
die what is there of the files of the table at work (`DropInv`, `CreateInv`,
`LoadInv`, `RevertInv`, `HungInv`), and for every table that no rows in its files are
from an earlier one (`OwnInv`) and that an acknowledged one is whole (`WholeInv`),
each up to the statements that a crash cut short. One lemma per action.

**`ExecutionProofs`**, of the telemetry: `Invariance`, `SnapshotsBracketed`.
`TelemetryInv` says of each queue that only events past its window have been popped and
none is from the future. The windows of a snapshot are no longer than the one their queue is trimmed by, and its
reading of the clock is no later than the clock: what was popped is in neither of the
two windows the count is bracketed by. The busiest second is bounded from below by
the burst that begins with the first event of the last one.

Of the program: `ExecutionIsTelemetry`, `MetricsBracketed`, `LoggedAndCountedAlways`.
Every step of `Execution` is a step of the telemetry or leaves it alone
(`ExecutionSteps`), so the snapshots are as exact in the program.
`LoggedAndCounted` speaks of the moments between statements and is not inductive, as a
statement is logged in one step and counted in a later one, the worker trimming in
between. `ExecutionInv` says what holds in the middle (`AllCounted`: one entry ahead of
the queue while the caller is at the mutex, and one error ahead if it is to be counted
as one), and that the entries are the statements in order (`AllLogged`). The lemmas on
`Due` are about how many texts of a prefix are to be logged.

**`AccessLoggerProofs`**: `LoggerInvariance`, `LoggerTypeCorrect`, `NothingLost`,
`NoLostWakeup`, `ShutdownDrains`. The inductive invariant adds `Places`: which
combinations of the two threads' positions, `running_`, the queue and the worker's
hand can occur.

The prover has no induction scheme. Where the argument is one, over the lines of a
log, the slots of a page or the bytes of a string, the proofs take the least or the last
number for which a statement fails (`LeastMember`, `LastLine`, from `WFMin` of the
library) and derive a contradiction.

**Only model-checked.**

* Liveness: `StatementEnds`, `EntriesReachFile`, `ShutdownEnds`, `EventsExpire`,
  `InputAnswered`. Reasoning about fairness and `ENABLED` is beyond the prover.
* `BPlusTree` with a key in the tree twice.
* What `Session` says of the parser (`ScriptRunsAsWritten`, `ConditionMeans`,
  `NoWhereLost`). The operations are `RECURSIVE` operators, which the
  prover's backends do not take, and what they compute would need induction over texts.
  For the same reason that `Session` implements `Execution` is seen in the shape of its
  actions and not proved.

## 8. What is not modelled

* **Loss of power.** A crash is the death of the process: a write that returned is
  in its file, in the order of the calls. `fsync` is called at the end of a
  statement and when a file is closed, so a failing machine may lose or reorder
  what came before.
* **Work on a half-written tree.** `TableStore` takes an index torn by a crash to answer
  anything, for ever or until a `REVERT` makes it anew, and an exception to end the
  statement like a crash. That such a tree can also keep a search from ending, or be
  read as a node with too many keys, is not followed up.
* **What becomes of doubled keys.** Of a key that is in an index twice nothing is said: not
  which of its rows `find` lists, nor that removing one leaves the other.
* **Failing reads and writes** of the disk; the code checks few of them.
* **Characters.** `Parser` works on atoms: how characters make a word or a number,
  the case of keywords beyond "mixed", and the wording of messages are left out.
  Names of columns are checked by the grammar and dropped. What the engine
  refuses in a call it accepted from the parser is a nondeterministic choice.
* **Output**: the JSON of `selectRows`, its projections and aggregates, and what
  `METRICS` prints. They change no state; `SUM` and `AVG` add integers in a double,
  which is listed as a hazard.
* **Record serialization**, a pair of sequential conversions. `TableStore` keeps of it
  how long a row gets.
* **The string pool**: used by one thread under one mutex, and no answer depends on
  whether equal strings are shared.
* **LIKE and comparisons of two columns** in `TableQuery`: the code answers them by the
  scan, so there is nothing to compare.
* **That an operation of the tree ends** is not stated: it would only say of the model
  what `TreeInvariant` has in it, that levels go down towards the leaves and ranges go up
  along the chain.
* **Pages loaded one at a time**: `get_page` can load an uncached page from disk,
  but every page is loaded at open and none is evicted, so no call of the engine
  reaches that branch.
* **Concurrent statements**: there is one thread that executes them. `mutex_` of
  the heap file and the B+tree is taken by nobody else.

## 9. Plan

Done, in this order: `TableStore`; `PageOps`, `Page` and `HeapFile` against
`RecordMap`; `BPlusTree`; `AccessLogger`; `Catalog`; `TableQuery` on top of `TableStore`;
`Telemetry`; `Parser`, `Execution` and `Session`; the proofs of all of these but `Parser`
and `Session`.

Left:

1. Compositions: `TableStore` over `HeapFile` (record ids that are pages and slots)
   and over the promises of `BPlusTree`, each by a refinement mapping.
2. `TableStore` with a clock that can be set back, against `TimeTravel`.
