# A formal model of LumoSQL's storage code

LumoSQL keeps very little code of its own in files: it takes SQLite, replaces
its b-tree by another key-value store, and inserts hooks into its virtual
machine. What it does own is exactly where a database loses data when it is
wrong: the translation of SQLite's transactions, savepoints and cursors into
those of LMDB (`src/not-fork.d/lmdb/files/btree.c`) and of Berkeley DB
(`src/not-fork.d/bdb/files/btree.c`, the vendor's adapter with LumoSQL's
changes), and a hidden column with a checksum in every record
(`src/not-fork.d/sqlite3/files/lumo-vdbeAdd.c`,
`src/not-fork.d/sqlite3/vdbe-changes.mod`). This directory holds TLA+ models of
all three, TLC configurations that check them on small instances, and proofs that
TLAPS checks for every instance.

Contents: 1. inventory; 2. modules; 3. runs; 4. fairness; 5. proofs;
6. disagreements found; 7. what is left out; 8. plan.

## 1. Inventory

### LMDB backend (`not-fork.d/lmdb/files/btree.c`)

It replaces SQLite's `btree.c` and implements its interface, `btree.h`.

* *State.* `struct Btree`, one per connection: `inTrans` (none, read, write),
  `transType` (the transaction model), `hasData`, and a stack of
  `struct BtreeSavepoint`, each with an `MDB_txn` and the number SQLite gave
  it. `struct BtCursor`: an `MDB_cursor`, or the saved key of one that was
  closed, and a `tripCode`. In the file: one LMDB database per root page
  (`t%08x`) and a database `meta` with SQLite's header values, the transaction
  model and a commit counter.
* *Operations.* Open, Close; BeginTrans with the upgrade of a read
  transaction; CommitPhaseOne and CommitPhaseTwo, Rollback; BeginStmt,
  Savepoint; CreateTable, DropTable, ClearTable, UpdateMeta, Insert, Delete,
  TransferRow; cursors: open, close, First, Last, Next, Previous, TableMoveto,
  IndexMoveto, payload access, Count; `PRAGMA lmdb_transaction`.
* *Interactions.* SQLite calls it, in the order its VDBE and `sqlite3_step`
  dictate. Connections of other processes meet it in LMDB: a single writer
  lock, taken by `mdb_txn_begin` without a timeout, and snapshots for readers.
  Every call that ends an `MDB_txn` first *invalidates* the connection's
  cursors: it saves their positions or trips them.
* *Hard.* SQLite upgrades a read transaction, LMDB cannot. The backend has
  three answers: `optimistic` (end the read transaction, begin a write one,
  compare the commit counters), `noupgrade` (refuse) and `serialise` (every
  transaction holds the lock). SQLite's savepoints are numbered, some become
  nested LMDB transactions and some do not. A cursor dies with its
  transaction and has to come back in another one. Each LMDB call can fail
  after the one before it has had its effect.
* *Correct when* a transaction sees its snapshot and its own writes; a write
  transaction builds on the latest commit; commits are atomic and move the
  counter; the lock is held exactly while a read/write transaction lives;
  nothing is left of a transaction that has ended; cursors keep their
  position; page numbers are not reused while their rows exist.

### Rowid keys (the same file)

* *State.* The byte keys of a table; *operations* `put8`, `get8`,
  `rowid_compare`. Without `LUMO_LMDB_FIXED_ROWID` keys have 1 to 8 bytes and
  a comparison of their own. *Correct when* LMDB's order of the keys is the
  order of the rowids, which scans and the choice of a new rowid depend on.

### Hidden column and row checksums (`lumo-vdbeAdd.c`, `vdbe-changes.mod`)

* *State.* Two settings of the process (which checksum is written, how
  strictly it is checked), the extension in each record, and a flag of a VDBE
  cursor that makes `OP_Column` check a record when its first column is read.
* *Operations.* `lumoExtensionAdd` in `OP_Insert` and `OP_IdxInsert`;
  `lumoExtensionPresent`, `lumoExtensionHandle` and `check_rowsum` in
  `OP_Column`; `PRAGMA lumo_rowsum_algorithm`, `PRAGMA lumo_check_rowsum`.
* *Hard.* The settings change between two columns of a running statement; the
  hidden column is found by counting columns, and records keep the column
  count of the schema they were written under; builds know different
  algorithms; "no checksum", "wrong checksum" and "cannot tell" have three
  return values; the extension is read from what a cursor has in memory, and the
  columns for the checksum through a call that can fail.
* *Correct when* an undamaged record is always readable, and a damaged one is
  not delivered under the setting that promises so.

### Berkeley DB backend (`not-fork.d/bdb/files/btree.c`)

It implements the same interface, `btree.h`, with other means: every connection
of every process works in one shared environment, and SQLite's transactions
become Berkeley DB transactions that lock tables.

* *State.* `struct Btree`, one per connection: `inTrans`; `pFamilyTxn`, which
  lasts as long as the connection; `pMainTxn`; `pReadTxn`, its child, which
  holds the read locks; a chain of children whose last is `pSavepointTxn`, and
  their number `nSavepoint`; `deleted_tables`, the tables to remove when the
  transaction commits; `schemaLockMode` with the cursor that holds the lock.
  `struct BtShared`, one per file and process: `nRef`, `env_opened`,
  `lsn_reset`, `panic`, the handles `pMetaDb` and `pTablesDb`, the cache
  `meta[]`. `struct BtCursor`: a `DBC`, `eState`, copies of the row it is on,
  `lastKey`, `lastRes`, and a buffer of rows (`multiData`). Outside: the file
  and the environment directory beside it.
* *Operations.* Those of the LMDB backend, and
  `btreeOpenEnvironment`, `btreeOpenMetaTables`, `btreeLockSchema`.
* *Interactions.* Connections meet in the lock manager of the environment,
  which waits, finds cycles and makes one of them fail with
  `DB_LOCK_DEADLOCK`; in the `BtShared` of their process, under one *open
  mutex*; and in the files, which another process may be setting up or taking
  down. Cursors of one connection meet when one of them writes:
  `btreeTripWatchers` closes the others whose copies may be out of date.
* *Hard.* A deadlock victim's transaction can only be aborted, but SQLite is
  told `SQLITE_BUSY` and goes on with other calls. Savepoints get transactions
  lazily and in bulk, with numbers of their own. A dropped table is renamed,
  and removed after the commit, outside any transaction. A process may die
  anywhere. Opening has six steps that others can come in between, half of
  them without the mutex. Cursors answer from four kinds of copies.
* *Correct when* a transaction keeps what it wrote and what it read until it
  ends; a commit that is answered is in the file, whole; locks the code
  believes in are locks; nobody frees what another uses or uses what is not
  set up; a cursor reads the row it was put on and steps to its neighbour.

### Other parts

The pragmas of Berkeley DB (`db_pragma.c`), not-forking patches, vendored
checksum primitives, the build and test driver (`tool/build.tcl`), the
benchmark filter, hardware detection, the cluster scripts (`kbench`: workers
that take jobs from a queue and hand one back when signalled), documentation
and data. None is modelled; `PROJECT.json` gives the reason for each, section 8
says which come next.

## 2. Modules

| module | models | extends |
|---|---|---|
| `LmdbEnv` | what an LMDB environment holds for the backend and the LMDB calls on it | |
| `TxnStore` | the abstract promise: snapshots, one writer on the latest commit, atomic commits | |
| `LmdbBtree` | connections, transactions, savepoints, writes, pragma, crashes, failing calls | `LmdbEnv`; instantiates `TxnStore` |
| `LmdbCursor` | the cursors of the connections; composes every step of `LmdbBtree` with what it does to them | `LmdbBtree` |
| `LmdbBtreeProofs` | types, the writer lock and no lost update, proved | `LmdbBtree`, TLAPS |
| `LmdbTxnProofs` | snapshots, savepoints, atomic commits, fresh pages and the refinement of `TxnStore`, proved | `LmdbBtreeProofs` |
| `LmdbCursorProofs` | positions of cursors, the transactions under them and the refinement of `LmdbBtree`, proved | `LmdbCursor`, `LmdbTxnProofs` |
| `RowidKey` | keys of a table | |
| `RowidKeyProofs` | the order of keys, scans and new rowids, proved | `RowidKey`, TLAPS |
| `Rowsum` | hidden column, checksums, pragmas, a reading statement | |
| `RowsumProofs` | readable and verified rows, proved | `Rowsum`, TLAPS |
| `BdbTxn` | transactions, savepoints, table and schema locks of Berkeley DB, deadlocks, crashes | |
| `BdbTxnProofs` | types, locks and what a transaction keeps, proved | `BdbTxn`, TLAPS |
| `BdbCursor` | the cursors and blob handles of one transaction on one table | |
| `BdbCursorProofs` | what a cursor reads, finds, steps to and deletes, proved | `BdbCursor`, TLAPS |
| `BdbEnv` | opening, sharing and closing one file by several processes | |
| `BdbEnvProofs` | types, reference counts, the open mutex, LSNs, the schema table and the equipment of connections, proved | `BdbEnv`, TLAPS |
| `MCLmdbBtree`, `MCLmdbCursor`, `MCRowidKey`, `MCBdbTxn`, `MCBdbCursor`, `MCBdbEnv` | definitions TLC needs: symmetry, functions, sets of rowids | |

### LmdbEnv

LMDB is external; it is modelled from the calls `btree.c` makes. A *view* is
everything one transaction can read: which databases exist, their rows, the
largest root page and the schema cookie (`data`), and what only the backend
uses (`counter`, `ttype`). `get_meta_64` returns an `int`, so the 64-bit
counter is really compared modulo 2^32: `CounterMod`.

### LmdbBtree

| variable | in the code |
|---|---|
| `db` | the committed state of the environment |
| `writer` | the owner of LMDB's writer lock |
| `bt[c]` | `struct Btree`: `inTrans`, `svp` (the list of `BtreeSavepoint`, main transaction first), `hasData`, `transType`; `upg` is the local variable that holds the old counter while BeginTrans waits for the lock |
| `cl[c]` | not in the code: what the caller may expect (`seen` at the start, `want` now, `want` at each open savepoint), computed from its calls alone |
| `faults` | LMDB calls that failed so far |

A call of the backend is one step, because nothing it does before it returns
can be seen by another connection, except the optimistic upgrade: that call
ends its read transaction (`UpgradeStart`), waits for the lock, and goes on
(`UpgradeGranted`, `UpgradeFails`), with everything the others do in between.
A begin that has nothing to do before it waits (`BeginTransNew`) is enabled
when the lock is free.

`sqlite3BtreeBeginTrans` is seven actions, one for each of its exits;
`sqlite3BtreeCommitPhaseOne` is five, three of them a failing LMDB call.
`closeAllSavepoints` is `IsCut` (where it stops) and `Closed` (what is left),
used by each of its callers. `Crash` may happen at any time, while waiting for
the lock as well; LMDB's lock is robust and passes on.

Following a null or ended `MDB_txn` is undefined behaviour. The model lets it
end the process (`Wreck`), after which `Restart` is possible; the properties
that say it must not happen (`NoDanglingTxn`, `NoDeadCursor`) are about the
step before.

*What callers do.* SQLite's side of the interface is part of the model where
the code relies on it: a savepoint that SQL opens makes no call and is only
counted (`UserSavepoint`), a statement gets the next number (`BeginStmt`), and
a statement that is rolled back is released at once. Three things callers may
do are switched on one by one by the constant `Habits`, because each breaks a
property: asking again after `SQLITE_BUSY` (`"retryBusy"`, which SQLite's busy
handler does), setting the pragma inside a write transaction (`"pragma"`), and
`Savepoint(ROLLBACK, -1)` (`"rollbackTo"`, which the interface allows and
SQLite reaches only inside an implicit transaction savepoint).

### LmdbCursor

`cur[c][s]` is a `BtCursor`. `hnd` tells whether its `MDB_cursor` is null,
live, freed by LMDB with its transaction (`ended`), or left without one
(`orphan`); `lvl` is the nested transaction it was opened in, `pos` the row,
which may be a gap after a delete, `saved` the saved key. `mark`, `nextOk` and
`seekOk` are what the caller knows. `invalidateCursors` is `SavedCursor`,
`TrippedCursor` and `Invalidated`; `restoreCursor` is `RestoreFails`,
`Restored` and `NotRestored`.

Every transaction step of `LmdbBtree` appears here exactly once together with
its effect on the cursors, so this is a composition and not a second model: a
cursor that cannot be saved changes what the transaction layer does
(`UpgradeRefused`, `ReleaseAborts`, `RollbackAllRefused`).

Again `CursorHabits` switches on the caller's doings that break a property:
ending a transaction with open cursors (`"endOpen"`), making a call that saves
cursors while one is in a gap (`"gap"`) or has no row (`"rowless"`), and a seek
beyond the last of several rows (`"seekPast"`).

### RowidKey

Rowids have `Width` digits of base `Base` (8 bytes of 256 in the code). `Shifted`
is the loop of `put8` that shifts the rowid until nothing is left, `Digits` the
bytes it leaves, `Get8` adds them up again; `KeyLess` is `rowid_compare`, or
`memcmp` for fixed keys. A scan and inserts with given and with chosen rowids run
on top.

### Rowsum

A record is its number of columns, its extension (absent, a known checksum, an
empty one, one only another build knows), what has happened to its bytes since
(`damage`: the columns or the digest, the algorithm's number, the lengths, or the
magic string), and whether the bytes a cursor has in memory reach to the end of the
extension (`loaded`). The digest itself is abstracted to whether it matches. `Width`
and `Fields` keep the column counting on which `lumoExtensionPresent` rests: an
extension is one more header entry in a table record and none in an index entry.
`Column` is what `OP_Column` does, in its order: a column the record does not have is
answered before anything is checked, and the check happens with the first column or
never.

`Handle` has the three answers of `lumoExtensionHandle`. Two of its inputs are not
in the record. `check_rowsum` reads the columns with `sqlite3BtreePayload`, which may
fail (`unread`); in the LMDB backend it always does (`lmdb/btree.c`, line 2178). And the
extension is taken from the bytes in memory without looking whether they reach that
far: "XXX make sure we have the data in memory" (`vdbe-changes.mod`, line 193). Where
they do not, and behind an index entry that has no extension, whatever lies
there is taken for one: `stray` is its answer. `Position`, `Store` and `Damage` let a
record be in any of these states when the statement comes to it.

### BdbTxn

| variable | in the code |
|---|---|
| `db` | the committed tables, each with its contents and whether a table renamed to `old-...` is still in the file |
| `con[c]` | `struct Btree`: `levels` is the chain from `pMainTxn` to `pSavepointTxn`, each with what had been written when it began; `dirty` what `pSavepointTxn` sees written; `rd` the tables `pReadTxn` has read; `dead` the levels that were deadlock victims; `deleted`, `schema`, `nSavepoint`, `inTrans` as in the code; `wait` the lock a call waits for |
| `cl[c]` | the caller: its running statements, its savepoints, and what it may expect (`want`, `marks`, `seen`), computed from its calls alone |
| `faults` | failing calls and crashes so far |

Locks follow from `dirty` and `rd`, as `DB_DATABASE_LOCKING` takes them on
whole tables: `LockFree`. A call that needs a lock sets `wait`, and the step
that would follow is taken again when the lock is free (`Granted`), so that
everything others do comes in between; `Victim` breaks a cycle.
`sqlite3BtreeSavepoint` is the operator `BtreeSavepoint`, with one operator for
each of its outcomes: `ReadAborted`, nothing, a null `pReadTxn` that is followed
(`Wrecked`) and `ChainEnded`. `Rollback` is the same function with -1: it aborts
`pMainTxn`, unless that has neither a `pReadTxn` nor a savepoint, when line 7134
returns before it does. `sqlite3BtreeCommitPhaseTwo` is `CommitPhaseTwo` with `Published`
for the file.

SQLite's side is the statement: it begins, works, ends or fails, in autocommit
mode or inside `BEGIN`, alone or with another one still reading. COMMIT and ROLLBACK
are statements themselves and count in `nVdbeRead`: `sqlite3BtreeCommitPhaseTwo`
commits for COMMIT only if nothing else of the connection reads, and the halt of a
ROLLBACK commits what there is. With another statement reading, COMMIT
is answered with `SQLITE_OK`, nothing is published and the locks stay; the
transaction commits when the last statement ends (`LastCommit`). If a commit gets an
error (`CommitFails`) the caller is still in its transaction.

The code does not handle seven things that can happen to a connection
(`Oddities`): a rollback that aborts the read transaction with its locks; one
that aborts it in place of the transactions of inner savepoints and leaves those
behind; a release that leaves `pSavepointTxn` behind; a rollback that leaves entries of
`deleted_tables` behind; a commit answered while another statement reads; the
rollback inside `sqlite3BtreeGetMeta`; and a failing `txn_begin` or commit. They
are steps of the model like the others; a caller remembers that one
happened to it, and properties about what it may expect are about the callers without
one (`Clean`), except that a commit answered while another statement reads does
not exempt it: what it wrote is followed until the last statement has ended. The
exempt ones go on beside the others, which keep theirs, and the locks of
`BdbNothingLeftOver` and `SchemaLockHeld` are claimed for them too.

### BdbCursor

`rows` is the table, `cur[s]` a `BtCursor`: `dbc` is where the `DBC` is, `key`
and `val` the copies, `buf` and `at` the buffer and its reader, `lastKey`,
`lastRes`, `skip` and `isFirst` as in the code. `mark` and `know` are the
caller's: where it is and what it may do there. `CursorGet` is `cursorGet`
with its three sources; `Moveto`, `Restored`, `Trip` and `Watches` are the
functions of the same purpose. The constant `Habits` lists eight sequences of
calls after which a copy is used that is out of date; none is in the passing
run, and each alone breaks one of the properties (section 6).

### BdbEnv

| variable | in the code |
|---|---|
| `file` | is the file made, which tables does it have, do its LSNs belong to the environment |
| `dir` | the environment directory |
| `cookie` | the committed schema cookie |
| `bt[p]` | the `BtShared` of a process |
| `btree[c]` | a connection; `pc` is where it is in `btreeOpenEnvironment` or `sqlite3BtreeClose` |
| `mutex[p]` | the open mutex of a process |
| `faults` | opens that failed |

`btreeOpenEnvironment` is nine actions, split where a thread that does not need
the mutex, or another process, can come in between; `Failed` is its error
path. A connection reaches it in two ways: from `sqlite3BtreeOpen`, with the
mutex held, and from the first `sqlite3BtreeBeginTrans`. `Mishaps` lists six
things the code does not survive; the passing run has none of them.

## 3. Runs

Deadlock is checked in every run. In the passing runs every action and every
alternative of an action is taken at least once by one of them.

| run | instance | shows |
|---|---|---|
| `LmdbTxn` | 2 writers, all transaction models, 2 commits, tables 1 and 3 | snapshots, no lost update, no dangling or left over transaction, the lock, atomic commits that move the counter; implements `TxnStore` |
| `LmdbSavepoint` | 1 connection, 3 savepoints or statements, 1 failing call | what is rolled back is gone, what is released stays, page numbers are not reused |
| `LmdbLiveness` | 2 writers and a read-only connection, all habits, 2 commits, fairness | an upgrade that waits is answered, whatever the callers do besides |
| `LmdbCursorScan` | 1 connection, 2 cursors, 2 rows, 1 statement | saving and restoring does not move a cursor |
| `LmdbCursorHazards` | 1 connection, 1 cursor, all transaction models, all habits of both kinds, 1 failing call | the writer lock follows the main transaction on every path, the undisciplined ones and those a cursor diverts included |
| `RowidKey` | 4 binary digits, rowids 0..7, varying length | keys order like rowids, new rowids are unused |
| `Rowsum` | one table row, one index entry, one digest of this build besides the empty one, one of another build, every kind of damage, 1 added column | intact rows in memory stay readable; "always" delivers nothing unverified from complete records |
| `BdbTxn` | 2 connections, one with `BEGIN`, a savepoint and 2 statements at once, the schema table and one more, 4 and 3 calls besides ends, 1 failure or crash | writes and reads are kept, savepoints have their transactions, the tables to remove exist, the schema lock is a lock, nothing outlives a transaction, a commit is whole |
| `BdbCursor` | 2 cursors, 3 rows, rows that fit the buffer and rows that do not, buffers of 2 | cursors read their row, find what is there, step to the neighbour, delete what they are on |
| `BdbEnv` | 2 processes, 2 and 1 connections, 1 schema change, 1 failing open | references, the mutex, LSNs, the schema table and the shared handles, over opens, failures, crashes and closes |

`LmdbRetryAfterBusy` and `BdbStaleMeta` are the counterexamples of section 6.

*Bounds.* `MaxCommits`: two commits let one connection read, another commit,
and the first upgrade, and then the same with the roles exchanged on top of a
commit; counters are compared for equality only, so more commits add no new
order of events. `CounterMod` exceeds `MaxCommits`: the wrap is in the model,
and the assumption that it is not reached during one upgrade is stated
(`BtreeAssumption`). `MaxDepth = 3` lets a level with a number, one without
and one above both exist together, which is what `IsCut` has to tell apart.
`MaxFaults = 1`: a failing call is followed by every continuation; a second
failure meets the same states. `MaxRoot = 3` has one table besides page 1,
`MaxRoot = 2` none. One row value suffices because rows are compared with "no
row". Two rows are the least with a neighbour to skip. In `Rowsum` one added
column is enough to put a new column in the position of the hidden one, and one
digest is enough because the empty checksum is a second algorithm to change to. In
`RowidKey` four binary digits give keys of every length from one to four.

In `BdbTxn` two statements of one connection are the least with a commit while
another reads (the other connection runs one at a time); one savepoint and a statement with a journal give chains of
three transactions, and a savepoint without one; `MaxCalls` counts calls that
go on, not those that end a statement or a transaction: four are enough to
write, nest, write again and read, three to meet that from another connection
with both kinds of lock. In `BdbCursor` three rows and buffers of two let a
cursor be on the first row of a buffer, the last, and past it; a row too large
for the buffer makes `cursorGet` go on with single reads. The table starts with
any contents, so that few steps reach every case. In `BdbEnv` two connections
of one process share a `BtShared` and the mutex, and one of another process
shares only the file; one failing open is followed by every continuation.

*Symmetry.* Connections that may write are interchangeable in the runs without
liveness, and so are cursors of one connection, and the
two connections of one process in `BdbEnv`. Keys are ordered and are not.

*Mutants.* `PROJECT.json` names for each property a plausible bug
(definitions called "Mutant of ..." in the modules): the counter is not
compared or not moved, the lock is not asked for or not given back, the stack
is committed at the wrong level, the largest root page is not stored, a cursor
is not closed or restored elsewhere, keys are compared as strings, and so on.
With it in place of the original TLC finds the property violated.

## 4. Fairness

Only `LmdbLiveness` states any. `WF_vars(Rollback(c) /\ ...)`: a caller ends
the transaction it has open sooner or later; this is a requirement on
applications, and without it no waiting writer of LMDB is ever served.
`SF_vars(UpgradeGranted(c))`: the mutex of LMDB is handed to a waiting process
if it becomes free over and over; it need not stay free between two of its
owners, so weak fairness would say nothing. Nothing is assumed of commits,
opens or new transactions.

The Berkeley DB modules state no liveness property: a caller that is told
`SQLITE_BUSY` may repeat the same two statements for ever, and the code has no
rule that lets one of them win.

## 5. Proofs

`LmdbBtreeProofs` proves for every number of connections, tables, rows, every
bound and every combination of habits, from `EnvAssumption` and
`BtreeAssumption` only:

* `TypeCorrect == Spec => []TypeOK`. Its weight is in the stack: pushing,
  cutting at any level and writing to the top keep `svp` a sequence of
  savepoints (lemmas on `Closed`, `IsCut`, stack updates), and every write
  keeps `data` a legal data set.
* `LockCorrect == Spec => []LockMatchesTxn`: the writer lock belongs to a
  connection exactly when the main transaction of that connection is a live
  read/write one, through upgrades, failing calls, wrecked processes and all
  the habits.

`LockMatchesTxn` is not inductive. A connection in the middle of an upgrade
(`upg # NotUpgrading`) must have an ended main transaction at the bottom of a
non-empty stack, or being granted the lock would leave two states of affairs
the invariant does not tell apart; and a closed or wrecked one must have an
empty stack. The inductive invariant is `TypeOK /\ LockInv` where `LockInv` has
this (`Pending`) beside the lock itself (`HoldsLock`). Each action is then one
of three shapes: it *keeps* the lock of its connection as it is, *ends* the
main transaction, or *takes* the lock while it is free; a lemma says that any
step of these shapes preserves the invariant, and the theorem has one step per
action that shows its shape.

The same module proves, from the same assumptions and `Disciplined` (`Habits` has
neither `"retryBusy"` nor `"pragma"`):

* `UpdateCorrect == Spec => []NoLostUpdate`: a write transaction of any
  connection builds on the latest commit.

What makes this hard is the gap in the upgrade, in which the connection has no
transaction at all and anybody may commit. The invariant (`UpdateInv`) follows
the commit counter through it:

* whoever publishes data holds the lock and moves the counter by one
  (`DbPublished`), and whatever else happens to the file shows no transaction a
  difference (`DbSame`) or comes before anybody has it open (`DbFormatted`);
* so a counter that has not moved means that the data the reader saw are still
  the latest (`Seen`): this holds for the counter of a read snapshot
  (`Reading`) and for the one remembered during the upgrade (`Waiting`), and
  every step of another connection keeps it (`OthersKept`);
* a write transaction holds the lock, and the counter it will move is, in every
  level of its stack, that of the latest commit (`Writing`, `UpToDate`); that is
  why nobody else can publish (by `LockInv`) and why folding savepoints before
  the commit cannot move the counter backwards.

`Disciplined` is needed: with `"retryBusy"` the run `LmdbRetryAfterBusy` is a
counterexample, with `"pragma"` the committed pragma leaves a transaction that
has published without moving the counter. `"rollbackTo"` is not excluded.

`LmdbTxnProofs` proves the rest of what a transaction promises. Each theorem has
the weakest condition on the bounds and habits that TLC leaves:

| theorem | condition | invariant |
|---|---|---|
| `FreshRootCorrect`: `[]FreshRoot` | none | `Rooted`: the largest root page bounds the tables, in the file and at every level of every stack |
| `HandlesCorrect`: `[]NoDanglingTxn`, `EndCorrect`: `[]NothingLeftOver` | `Reliable`: no LMDB call fails, nobody sets the pragma in a write transaction | `Whole`: `inTrans`, the stack and the states of its transactions fit |
| `OpenCorrect`: `[]TxnStaysOpen` | nobody calls `Savepoint(ROLLBACK, -1)` | `Owned`: what the caller has open the backend has, and `hasData` follows |
| `SeesCorrect`: `[]SeesItsTransaction` | `Disciplined` | `Nest`: the levels above the main transaction are the caller's last savepoints, numbered as the caller counts them |
| `CounterCorrect`: `CounterTracksData`, `PublishCorrect`: `CommitPublishesTxn` | `Disciplined` | `UpdateInv` and `Nest` |
| `StoreCorrect`: `ImplementsStore` | `Habits = {}`, any number of failing calls | all of these |

`Nest` is the heart of it. SQLite numbers the savepoints of SQL and of statements;
only statements make a level of the list in `struct Btree`, and
`closeAllSavepoints` cuts that list at the topmost level with the number it is given,
or at the main transaction. The invariant says that the levels have the
last numbers the caller has used, without a gap, and that what the level below each
sees is what the caller had there. So wherever a release or a rollback
cuts, it finds the view the caller expects.

`StoreCorrect` maps each step to one of `TxnStore` (start, upgrade, change, publish,
abandon) or a stutter. A connection whose upgrade was refused is the one the
mapping has to treat apart: it keeps a read transaction, but on a later
snapshot (`Stale`). The mapping takes what it had read before in the
place of what it would see now, so the refinement says nothing about its reads, as
`SeesItsTransaction` does not.

`"retryBusy"` and `"pragma"` are counterexamples to `CommitPublishesTxn` and the
refinement, `MaxFaults = 1` to `NoDanglingTxn` and `NothingLeftOver` (section 6), so
none of the conditions can go.

`LmdbCursorProofs` is about any number of connections and cursors and any finite
set of rowids. Each theorem has, again, the weakest condition TLC leaves:

| theorem | condition | invariant |
|---|---|---|
| `CursorLockCorrect`: `[]LockMatchesTxn` | none | `TypeOK`, `LockInv` and `CursorsTyped` |
| `NeighbourCorrect`: `[]NextIsNeighbour`, `OnItsRowCorrect`: `[]OnItsRow` | `Settled`: neither `"endOpen"` nor `"gap"` | `Placed`: a cursor that works is on its caller's row, and one that is saved remembers that row, also when it was reopened and its row not found |
| `CursorsRefine`: `CursorSpec => Spec` | `Tidy`: neither `"endOpen"` nor `"rowless"` | `Working`: an open cursor is not tripped, and saved or live |
| `NoDeadCorrect`: `[]NoDeadCursor` | `Tidy` and `Reliable` | `Working`, and `NoDanglingTxn` by `CursorsRefine` |

A step of `LmdbCursor` is one of `LmdbBtree` or, over a cursor that cannot be
saved or whose transaction is gone, one that `LmdbBtree` does not have
(`Diverted`: a release that aborts, a rollback that is refused, a process that
dies). `DivertedKeeps` shows that those keep the writer lock, and
`CursorsRefine` that there are none of them while every cursor is `Working`; so all
theorems about `LmdbBtree` hold with cursors as well. To the cursors
every step is a `Moves`, the calls of a cursor and the walk of `invalidateCursors` over all
cursors alike: it keeps `Placed` and `Working`. `Moves` needs the conditions at the
two places where the code trusts its caller: `SavedCursor` asks LMDB for the
current row, which is another one if the cursor is in a gap, and the calls that
end a transaction trip cursors or leave their `MDB_cursor` to LMDB.

`RowidKeyProofs` is about every width, every base and both kinds of key. `put8` and
`get8` are loops, which the provers cannot unroll; the library's induction
theorems cannot be used with them. Two lemmas replace those: a non-empty
set of naturals has a least element (`LeastNat`, from the well-foundedness of
finite sets), hence a set with 0 that is closed under successor has all of them
(`SetInduction`). With these, `LoopExists` shows that the loop of `put8` is what
its recursive definition says, `RoundTrip` that `get8` undoes `put8`, and
`OrderIsOrder` that `rowid_compare`, and `memcmp` for fixed keys, order keys as the
numbers in them. From these:

* `RowidTypeCorrect` (no condition): the table holds keys `put8` writes.
* `FreshCorrect`: `[]NewRowidIsFresh`, `ScanCorrect`: `ScanAscends`, and
  `SkipsNothing`: no row lies between a row and the next of a scan; all three if
  no rowid is negative. With negative ones `ScanAscends` is false (section 6).

`RowsumProofs` proves `RowsumTypeCorrect`, `ReadableCorrect` (`[]RowsReadable`) and
`VerifiesCorrect` (`[]AlwaysVerifies`) without conditions on the constants.
`RowsReadable` has two conditions in itself, which the code needs: the extension
is in memory, and the columns could be read for the check. Without them an undamaged
record is reported corrupt (section 6). `AlwaysVerifies` needs the first only: a
failing read makes the check stricter. A statement may change both settings between
two columns and the check is made once, so the properties are about two moments;
`Verified` says what the first column found out about the row, and that it is still
true of it.

`BdbEnvProofs` proves about the Berkeley DB environment, for any number of
processes and connections and any bounds, from `BdbEnvAssumption`:

* `BdbTypeCorrect == BdbEnvSpec => []BdbEnvTypeOK` and
  `RefsCorrect == BdbEnvSpec => []RefsCounted`, for all mishaps. They are one
  induction (`EnvInv`): that `nRef` stays in range is known only because it
  counts connections, and the counting lemmas need the types.
* `MutexCorrect`: `[]MutexFollows` if `"familyFails"` is not among the mishaps.
* `EquippedCorrect`: `[]Equipped` if neither `"familyFails"` nor `"metaFails"`
  is. `Equipped` speaks of connections with a transaction only and is not
  inductive; `HandlesInv` adds what a connection half way through
  `btreeOpenEnvironment` already relies on, and that a connected one keeps its
  family between transactions.
* `LsnsCorrect`: `[]LsnsReset`, without `"familyFails"`, `"overlap"`, `"resetLost"` and
  `"removeEarly"`. Its invariant (`LsnInv`) follows the directory: who finds none is the
  only one to set up (`Solo`) until the LSNs are reset.
* `MasterCorrect`: `[]MasterOnce`, without `"familyFails"`, `"overlap"` and
  `"setupFails"`. `MadeInv` relates what a connection has seen of the file, and what it
  is about to create, to what is in it.

The assumptions are needed: with any one of these mishaps TLC finds a
counterexample to the property (section 6); only the last two need
`"familyFails"` excluded because they rest on `MutexFollows`. The argument is that
a step of a connection changes nothing but that connection and the `BtShared` and the mutex of its process (`ConnStep`).
What each invariant needs of the three new values is a predicate of its own:
`Counts` (the reference moves with the connection), `KeepsMutex`,
`KeepsHandles` (the shared handles stay, or the connection is the only one left
in its process, which follows from the count). There is one lemma per action
that shows it `Good` in this sense, one per invariant that a good step keeps
it, and one for the crash of a process, which touches all its connections.

`BdbTxnProofs` proves all eight properties of `BdbTxn` for any number of
connections, tables, statements, savepoints and faults, from the assumptions of
the module alone. The exempt callers are in the properties (`Clean`) and not in a
condition: the oddities do happen in these behaviours, to others and earlier.

* `BdbTypeCorrect` and `SchemaLockCorrect` (`[]SchemaLockHeld`) are about all
  connections, with oddities too. `Base` holds the types, the shape of each
  `Btree` (`levels` has one entry more than `nSavepoint`, each transaction has the
  locks of its parent, the schema lock is one of `pReadTxn` or of a level), and
  `LocksInv`: what one connection has written no other has read or written.
  Every operator that stands for a part of a call keeps the shape (`Sound`) and takes
  no lock (`Within`), so locks need a look in two places only.
* `CleanInv` relates each clean connection to its caller (`Tracks`): what each level
  had written is what the caller expects at its savepoint, and a savepoint
  without a level is one since which nothing was written (`MarksInv`); what was read
  is locked and unchanged (`SeenInv`); the tables to remove are renamed away
  at their level and all after it (`DeletedInv`); who writes does so in the last
  level (`ModesInv`, which also has the caller whose commit was answered while
  another statement read: it is in autocommit mode and a statement still runs).
  From it: `WritesCorrect` (`[]KeepsItsWrites`), `ReadsCorrect` (`[]ReadsHold`),
  `DeletedCorrect` (`[]DeletedExist`), and two with a statement to read closely:
  * `SavepointsCorrect` (`[]SavepointsHaveTxns`). `sqlite3BtreeSavepoint` decides by
    `nSavepoint` whether a savepoint has a transaction. If so, that transaction began
    when the savepoint was made. If not, nothing was written since it was made and no
    statement is writing, so rolling back nothing is right.
  * `DurableCorrect` (`CommitIsDurable`): the call that ends the last statement of a
    connection with a commit puts into the file all that was answered before,
    also what an earlier COMMIT was answered for while a statement still read.
* `HeldInv` is about all connections again, with oddities too: a write lock needs a
  transaction below `pMainTxn`, a read lock `pReadTxn`, and that `pMainTxn` (`Holds`),
  so a rollback that finds neither below `pMainTxn` leaves no lock. From it
  and `CleanInv`: `EndsCorrect` (`[]BdbNothingLeftOver`), that an idle connection holds
  no lock on a table, however its transaction ended, and that a clean one is as it
  was opened. The second half needs `Clean`: a main transaction that was begun by a
  failing call may outlive the caller's, but it is empty (section 6).

The attempt to prove these found two things. `MarksInv` was not inductive: a
rollback to an outer savepoint in a read transaction leaves the transactions of
inner ones, which is a fault of the code (section 6) that needs a second savepoint,
and became the oddity `"behind"`. And `ReadsHold` had to be about the contents of
tables only: a table renamed away is removed outside any transaction, so its
leftover may go while another connection has read it.

`BdbCursorProofs` is about any number of cursors, any finite set of rowids and any
size of the buffer. `BdbCursorTypeCorrect` has no condition, `DbcCorrect`
(`[]NoNullDbc`) excludes the habit `"insertTripped"`, and `ReadsItsRowCorrect`
(`[]ReadsItsRow`), `SeekCorrect` (`SeekFinds`), `StepCorrect` (`StepIsNeighbour`) and
`DeleteCorrect` (`DeletesItsRow`) are for callers with `Habits = {}`; each habit
breaks at least one of them. They share one invariant: every cursor is `Sound`
with the table, which has a part for each of the copies it may answer from:
`Buffered` (the rows ahead of its reader are those that follow in the table, up to
the end of the buffer), `LastKnown` (`lastKey` bounds all rows), `OnItsRow`, `Saved` (of a
tripped cursor), `Deleted` (of a cursor whose row is gone) and `Knows` (what the caller may
do there). A write keeps the others sound because each cursor that it concerns
is closed by `btreeTripWatchers` or keeps only copies the write leaves true; the
proof has one lemma for a row that appears, one for a row that goes and one for
a row that changes.

*Only model-checked*: of the properties the passing runs check, `UpgradeAnswered`,
which is liveness and out of the prover's reach; and what the two violation runs
show, which is false. Induction over data is avoided except over the numbers of
`RowidKey`.

## 6. Disagreements found

Each of these is a run that TLC ends with a counterexample, and a finding in
`PROJECT.json` with the line of the code and of the text it contradicts.

| run | what happens |
|---|---|
| `LmdbRetryAfterBusy` | after `SQLITE_BUSY` the connection holds a new read/write transaction; the retry compares its counter with itself and succeeds, on data the caller has not read |
| `BdbStaleMeta` | a value that `sqlite3BtreeUpdateMeta` put into the shared `meta[]` survives the rollback, and the next connection of the process writes it to the file when it opens it |

The models have further behaviour of this kind, which the bounds, habits and
preconditions of the passing runs keep out. Each can be seen by changing the
constant named here in the configuration that checks the property, and leaving
that property alone in it (TLC stops at the first one violated). A property that the
configuration does not name is defined in the module and can be added:

| property (configuration) | with | what happens |
|---|---|---|
| `SeesItsTransaction` (`LmdbTxn`) | without its precondition `~Stale(c)` | a refused upgrade has moved the read transaction to a later commit |
| `NothingLeftOver` (`LmdbTxn`) | `MaxFaults = 1` | a failing `mdb_txn_commit` leaves its `BtreeSavepoint`; no later transaction can begin |
| `NoDanglingTxn` (`LmdbTxn`) | `MaxFaults = 1` | a failing `mdb_txn_begin` in the upgrade leaves a read transaction without a savepoint |
| `CommitPublishesTxn` (`LmdbTxn`) | `Habits = {"pragma"}` | the pragma commits what the open transaction has written |
| `TxnStaysOpen` (`LmdbTxn`) | `Habits = {"rollbackTo"}` | `Savepoint(ROLLBACK, -1)` ends the transaction |
| `NextIsNeighbour` (`LmdbCursorScan`) | `CursorHabits = {"gap"}` | a cursor on a deleted row is saved on the following one, which the next step then skips |
| `NoDeadCursor` (`LmdbCursorScan`) | `CursorHabits = {"endOpen"}` | a tripped cursor keeps an `MDB_cursor` that has been freed |
| `SeesItsTransaction` (`LmdbCursorScan`) | `CursorHabits = {"rowless"}` | a cursor without a row turns the release of a savepoint into its rollback |
| `SeekLandsBeside` (`LmdbCursorHazards`) | `CursorHabits = {"seekPast"}` | "left pointing at a leaf page which would hold the entry" (line 1645): a seek beyond the last row reports "smaller" and is on the first row |
| `ScanAscends` (`RowidKey`) | `Rowids` with negative ones | keys are to "sort correctly when interpreted as strings" (line 180): negative rowids are returned after all others |
| `IntactIsHandled` (`Rowsum`) | | "-1 if error" (`lumo-vdbeInt.h`): an undamaged record is reported corrupt if its extension is not in memory (`vdbe-changes.mod`, line 193), or, under "always", if its columns cannot be read for the check (`lumo-vdbeAdd.c`, line 384), which `sqlite3BtreePayload` of the LMDB backend never can (`lmdb/btree.c`, line 2178) |
| `IfPresentVerifies` (`Rowsum`) | | "1, we check it if present" (`lumo-vdbeInt.h`, line 33): with the check set to "yes" a wrong checksum is accepted |
| `NeverReadsExtension` (`Rowsum`) | | "vdbe will never actually read it" (`lumo-vdbeAdd.c`, line 254): a column added later is answered with the hidden column |
| `AlwaysVerifies` (`Rowsum`) | without its precondition `Complete` | a row is not checked when the first column read is one it does not have |

The same for Berkeley DB; lines are those of `bdb/files/btree.c`:

| property (configuration) | with | what happens |
|---|---|---|
| `DroppedIsRemoved` (`BdbTxn`) | | BEGIN, DROP TABLE, SAVEPOINT, ROLLBACK TO, COMMIT: the savepoint has no transaction yet, so `pReadTxn` is aborted in its place (line 7147), and `deleted_tables` loses the entries of all transactions up to its parent (line 7170), though what they wrote stays; after the commit that is to "do a non-transactional remove of the old table" it is still in the file |
| `NoDanglingSavepoint` (`BdbTxn`) | | "pReadTxn is only NULL if the read txn is being aborted" (line 7192): a savepoint that ends in a read transaction leaves `pSavepointTxn` naming it, and the next statement that writes uses it |
| `CommitReleasesLocks` (`BdbTxn`) | | "This will release the write lock on the database file" (line 3134): with a SELECT of the connection still running, COMMIT and the end of a writing statement are answered with `SQLITE_OK`, but the transaction is not committed (line 3169) and keeps its write locks until that SELECT ends |
| `BdbNothingLeftOver` (`BdbTxn`) | without `Clean` in its second part | after a failing `txn_begin` of `pReadTxn` a rollback takes the missing read transaction for a savepoint that was not begun (line 7134) and leaves `pMainTxn` and `inTrans` as they are |
| `KeepsItsWrites` (`BdbTxn`) | `MaxSavepoint = 2`, 7 and 0 calls, without `"behind"` in `OddAfter` | BEGIN, SAVEPOINT a, SAVEPOINT b, a read, ROLLBACK TO a: the read transaction is aborted (line 7149) and the transactions and the number of the inner savepoint stay, so the statement after the next begins no transaction of its own and its failure undoes the one before it too, though `sqlite3BtreeBeginStmt` is to start a "subtransaction" for each |
| `CommitIsDurable` (`BdbTxn`) | without `"metaRollback"` in `GetMetaVictim` | `sqlite3BtreeGetMeta`, as a deadlock victim, rolls everything back and reports only that it read nothing (line 6203): the statement fails, COMMIT succeeds, nothing is in the file |
| `ReadsItsRow`, `SeekFinds` (`BdbCursor`) | `Habits = {"changeAfterScan"}`, `{"deleteUnderBlob"}`, `{"growUnderSeeker"}`, `{"seekAfterInsert"}` | a buffer that holds the whole table, the place of a blob handle, `lastKey` and `savedIntKey` are used though another cursor, or an insert, has made them wrong |
| `StepIsNeighbour` (`BdbCursor`) | `Habits = {"seekAfterRestore"}`, `{"tripRestored"}`, `{"descendingDelete"}` | `lastRes` of a restored cursor outlives a seek or another trip; a descending scan that deletes skips a row |
| `NoNullDbc` (`BdbCursor`) | `Habits = {"insertTripped"}` | `sqlite3BtreeInsert` uses the `DBC` of a cursor that was tripped, which is null |
| `SeekEndsBeside` (`BdbCursor`) | | "*pRes<0: the cursor is left pointing at an entry that is smaller": with `lastKey` set it is left on none (line 4372) |
| `MasterOnce` (`BdbEnv`) | `Mishaps = {"overlap"}`, `{"setupFails"}` | the open mutex does not reach another process: both create a table and `assert(iTable == MASTER_ROOT)` fails in one; after a failed set-up nobody creates it |
| `LsnsReset` (`BdbEnv`) | `Mishaps = {"resetLost"}`, `{"removeEarly"}` | the directory exists, so the next open does not reset the LSNs of a file that does not belong to it |
| `Equipped` (`BdbEnv`) | `Mishaps = {"metaFails"}`, `{"familyFails"}` | a second connection that cannot read the metadata closes the handles the first one uses (line 985); after a family that could not be begun the connection counts as connected and goes on without one |
| `MutexFollows` (`BdbEnv`) | `Mishaps = {"familyFails"}` | `return dberr2sqlite(ret, p)` (line 2025) keeps the open mutex |
| `NoLatchWait` (`BdbEnv`) | | "which would lead to a latch deadlock" (line 1921): `sqlite3BtreeOpen` holds the mutex itself and does wait for the metadata |

One has no property of its own: in a read transaction a second ROLLBACK TO a
savepoint (BEGIN, SAVEPOINT a, a read, ROLLBACK TO a, ROLLBACK TO a) finds `pReadTxn`
null, takes it for the transaction to end (line 7149) and follows it (line 7184). In
`BdbTxn` the connection is `"wrecked"` by that, and the process with it.

Two more were met while reading and have no model. When opening the metadata
returns `EINVAL` because of `DB_READ_UNCOMMITTED`, the code strips the flag to
"try again" (line 848), but `continue` goes to the condition of the loop, which ends it. If the creation of the
schema table fails, `pMetaDb` stays open, so no later connection creates it.

## 7. What is left out

* In-memory and temporary databases; backup and VACUUM copies; the error path
  of `sqlite3BtreeOpen`.
* Savepoints that are opened outside a write transaction and become part of
  one later. A rollback to a savepoint that has no level of its own in the LMDB
  backend is not modelled either: SQLite calls `sqlite3BtreeTripAllCursors` first,
  which returns `SQLITE_INTERNAL` (lines 1364-1367), so `sqlite3BtreeSavepoint` is not
  reached.
* The failing exits of `sqlite3BtreeCursor` in the LMDB backend (lines 1473-1482).
  They leave `pBtree` set in a cursor that is not in the list, and closing it (lines
  1591-1598) then empties the list of the connection; the hazard is listed.
* `IndexMoveto`, incremental blob access and `Count`; index entries in
  `LmdbCursor`.
* The insertion of a row into the gap another cursor is in: what LMDB does to
  that cursor is not determined by how `btree.c` uses it.
* A record is not replaced or damaged while the statement of `Rowsum` is on
  it, and the number of fields of its cursor is that of the schema. What lies behind
  the bytes in memory is any answer, not any bytes.
* Sizes: `lumoExtensionAdd` may leave the trailing zeros of a blob counted
  twice, and an index length is compared as `int` with `size_t`. Both are
  listed as hazards without a property.
* Of the Berkeley DB backend: bulk and exclusive transactions, multiversion
  snapshots, private environments with a lock file, replication, encryption,
  read-only and in-memory databases; index cursors, transient tables and
  duplicates; the cache of table handles; incremental and automatic vacuum;
  all of `db_pragma.c`. `BdbTxn` locks tables and not pages or rows, as the
  build does; `BdbCursor` has one transaction, as locks keep others off.
* LMDB's limits (254 readers, 1024 named databases) are failing calls and not
  counted.

## 8. Plan

1. *Done*: `LmdbEnv`, `TxnStore`, `LmdbBtree`, `LmdbCursor`, `RowidKey`,
   `Rowsum` with their runs; `TypeCorrect`, `LockCorrect`, `UpdateCorrect`.
2. *Attached databases*: two environments, writers that take the two locks in
   opposite order and wait for ever; the order SQLite commits them in, and a
   crash in between.
3. *Index cursors*: `IndexMoveto` with its default result, `Count` through a
   stale transaction.
4. *Record layout* of `lumoExtensionAdd`: the header length is a varint that
   counts itself; its fixed point as a lemma.
5. *kbench*: the worker, its signal handler and the queue.
6. *Done*: the Berkeley DB adapter: `BdbTxn`, `BdbCursor`, `BdbEnv` and
   `BdbEnvProofs`. Next of it: the cache of table handles and its locks, index
   cursors, vacuum, and `BdbTxn` as a refinement of a two-phase locking store.
7. *Build driver*: target selection and the decision to rebuild.
8. *Done*: *proofs*: all properties of the passing runs but `UpgradeAnswered` are
   proved. Next come the properties of the modules above.
