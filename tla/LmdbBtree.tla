----------------------------- MODULE LmdbBtree -----------------------------
(***************************************************************************)
(* The transaction layer of not-fork.d/lmdb/files/btree.c: connections     *)
(* (struct Btree) that share one LMDB environment, the stack of nested     *)
(* LMDB transactions each keeps for its savepoints (struct                 *)
(* BtreeSavepoint), the three transaction models of PRAGMA                 *)
(* lmdb_transaction, and what the environment contributes: one writer      *)
(* lock, on which mdb_txn_begin waits without a timeout, and snapshots.    *)
(*                                                                         *)
(* One call of the backend is one step, except the optimistic upgrade of   *)
(* sqlite3BtreeBeginTrans: it ends its read transaction before it waits    *)
(* for the writer lock, so other connections may commit in between.        *)
(*                                                                         *)
(* cl is not state of the program: it is what SQLite, the caller, may      *)
(* expect of its transaction from the calls it has made.                   *)
(***************************************************************************)
EXTENDS LmdbEnv, Sequences

CONSTANTS
  Conns,          \* connections, each in a process of its own
  ReadonlyConns,  \* those opened with SQLITE_OPEN_READONLY
  NoConn,         \* owner of the writer lock when it is free
  MaxCommits,     \* bound on the commit counter
  MaxDepth,       \* bound on open savepoints and statements of a transaction
  MaxFaults,      \* bound on failing LMDB calls
  Habits          \* what callers do beyond the disciplined calls, see below

\* The calls whose safety is in question, each enabled by its own habit:
\*  "retryBusy"  asks again for the write lock after BeginTrans said BUSY
\*  "pragma"     sets PRAGMA lmdb_transaction inside a write transaction
\*  "rollbackTo" calls Savepoint(ROLLBACK, -1)
AllHabits == {"retryBusy", "pragma", "rollbackTo"}

ASSUME BtreeAssumption ==
  /\ ReadonlyConns \subseteq Conns
  /\ NoConn \notin Conns
  /\ MaxCommits \in Nat /\ MaxCommits < CounterMod
  /\ MaxDepth \in Nat
  /\ MaxFaults \in Nat
  /\ Habits \subseteq AllHabits

VARIABLES
  db,      \* the committed state of the environment
  writer,  \* who holds LMDB's writer lock
  bt,      \* struct Btree of every connection
  cl,      \* what the caller of every connection may expect
  faults   \* LMDB calls that failed so far

vars == <<db, writer, bt, cl, faults>>

-----------------------------------------------------------------------------
\* A BtreeSavepoint: its nSavepoint (-1 in the main transaction), whether its
\* MDB_txn may write, whether it is still a transaction, and what it reads.
Savepoints == [n : Int, rw : BOOLEAN, live : BOOLEAN, view : View]

NotUpgrading == -1

\* "wrecked": the process followed a null or ended handle.
Btrees == [status    : {"closed", "open", "wrecked"},
           inTrans   : {"NONE", "READ", "WRITE"},
           svp       : Seq(Savepoints),
           hasData   : BOOLEAN,
           transType : TransTypes,
           upg       : {NotUpgrading} \cup 0..(CounterMod - 1)]

ClosedBtree == [status |-> "closed", inTrans |-> "NONE", svp |-> <<>>,
                hasData |-> FALSE, transType |-> DefaultType,
                upg |-> NotUpgrading]

\* open: a transaction was started and not ended by the caller; seen: what it
\* saw at its start; want: what it must see now; marks: want at every open
\* savepoint and statement, outermost first.
Clients == [open : BOOLEAN, seen : DataSet, want : DataSet,
            marks : Seq(DataSet)]

IdleClient == [open |-> FALSE, seen |-> EmptyData, want |-> EmptyData,
               marks |-> <<>>]

TypeOK ==
  /\ db \in View
  /\ writer \in Conns \cup {NoConn}
  /\ bt \in [Conns -> Btrees]
  /\ cl \in [Conns -> Clients]
  /\ faults \in 0..MaxFaults

Init ==
  /\ db = EmptyView
  /\ writer = NoConn
  /\ bt = [c \in Conns |-> ClosedBtree]
  /\ cl = [c \in Conns |-> IdleClient]
  /\ faults = 0

-----------------------------------------------------------------------------
Top(c) == bt[c].svp[Len(bt[c].svp)]

\* Between two calls of an open connection.
Usable(c) == bt[c].status = "open" /\ bt[c].upg = NotUpgrading

\* p->svp->txn is not a transaction although p->inTrans says there is one.
Dangling(c) ==
  /\ bt[c].inTrans # "NONE"
  /\ IF bt[c].svp = <<>> THEN TRUE ELSE ~Top(c).live

InTxn(c, states) == Usable(c) /\ bt[c].inTrans \in states /\ ~Dangling(c)

\* The state a failed optimistic upgrade leaves: a read transaction in name
\* on a read/write MDB_txn begun after it.
Stale(c) ==
  /\ bt[c].inTrans = "READ"
  /\ bt[c].transType = "optimistic"
  /\ bt[c].svp # <<>>
  /\ bt[c].svp[1].rw

\* Mutant of Released: the transaction is forgotten without mdb_txn_abort.
ReleasedNever(c) == writer

\* The lock once c's main MDB_txn has ended, however it ended.
Released(c) == IF writer = c THEN NoConn ELSE writer

\* An LMDB call may fail while the bound on failures allows it.
Fault == faults < MaxFaults /\ faults' = faults + 1

NoFault == faults' = faults

MainTxn(rw) == [n |-> -1, rw |-> rw, live |-> TRUE, view |-> db]

\* Mutant of EndTxn: the BtreeSavepoint is not freed.
EndTxnKeepsSavepoint(c) ==
  /\ bt' = [bt EXCEPT ![c].inTrans = "NONE"]
  /\ cl' = [cl EXCEPT ![c] = IdleClient]
  /\ writer' = Released(c)

\* The connection and its caller once the transaction is over.
EndTxn(c) ==
  /\ bt' = [bt EXCEPT ![c].inTrans = "NONE", ![c].svp = <<>>]
  /\ cl' = [cl EXCEPT ![c] = IdleClient]
  /\ writer' = Released(c)

-----------------------------------------------------------------------------
\* sqlite3BtreeOpen: a read/write open makes sure that page 1 and "meta"
\* exist, in a write transaction that does not count as a commit; a read-only
\* open fails when "meta" does not exist.  The transaction type is read once.
BtreeOpen(c) ==
  /\ bt[c].status = "closed"
  /\ IF c \in ReadonlyConns
     THEN 1 \in db.data.tabs /\ UNCHANGED db
     ELSE writer = NoConn /\ db' = [db EXCEPT !.data = MdbCreate(@, 1)]
  /\ bt' = [bt EXCEPT ![c].status = "open", ![c].transType = db.ttype]
  /\ UNCHANGED <<writer, cl, faults>>

\* sqlite3BtreeClose aborts whatever is open.
BtreeClose(c) ==
  /\ Usable(c)
  /\ (bt[c].svp # <<>> => Top(c).live)
  /\ bt' = [bt EXCEPT ![c] = ClosedBtree]
  /\ cl' = [cl EXCEPT ![c] = IdleClient]
  /\ writer' = Released(c)
  /\ UNCHANGED <<db, faults>>

\* The process dies at any point, waiting for the lock included: LMDB forgets
\* its transactions and its robust lock passes on.
Crash(c) ==
  /\ bt[c].status = "open"
  /\ bt' = [bt EXCEPT ![c] = ClosedBtree]
  /\ cl' = [cl EXCEPT ![c] = IdleClient]
  /\ writer' = Released(c)
  /\ UNCHANGED <<db, faults>>

-----------------------------------------------------------------------------
\* sqlite3BtreeBeginTrans when the answer needs no new MDB_txn: already in a
\* write transaction; a write transaction on a read-only connection
\* (SQLITE_READONLY); already in the read transaction asked for; an upgrade
\* under "noupgrade" (SQLITE_BUSY); a BtreeSavepoint left over
\* (SQLITE_INTERNAL).
BeginTransAnswered(c, wrFlag) ==
  /\ Usable(c)
  /\ \/ bt[c].inTrans = "WRITE" /\ ~Dangling(c)
     \/ bt[c].inTrans # "WRITE" /\ wrFlag /\ c \in ReadonlyConns
     \/ bt[c].inTrans = "READ" /\ ~wrFlag
     \/ /\ bt[c].inTrans = "READ" /\ wrFlag /\ c \notin ReadonlyConns
        /\ bt[c].transType = "noupgrade"
     \/ /\ bt[c].inTrans = "NONE" /\ bt[c].svp # <<>>
        /\ ~(wrFlag /\ c \in ReadonlyConns)
  /\ UNCHANGED vars

\* "serialise": the read transaction is a read/write MDB_txn already.
BeginTransSerialised(c) ==
  /\ InTxn(c, {"READ"}) /\ c \notin ReadonlyConns
  /\ bt[c].transType = "serialise"
  /\ bt' = [bt EXCEPT ![c].inTrans = "WRITE"]
  /\ UNCHANGED <<db, writer, cl, faults>>

\* "optimistic", first half: remember the commit counter, end the read
\* transaction.  The connection now waits in mdb_txn_begin.
UpgradeStart(c) ==
  /\ InTxn(c, {"READ"}) /\ c \notin ReadonlyConns
  /\ bt[c].transType = "optimistic"
  /\ Stale(c) => "retryBusy" \in Habits
  /\ bt' = [bt EXCEPT ![c].upg = IF bt[c].hasData THEN Top(c).view.counter
                                                  ELSE 0,
                      ![c].hasData = FALSE,
                      ![c].svp[1].live = FALSE]
  /\ writer' = Released(c)
  /\ UNCHANGED <<db, cl, faults>>

\* The same when a cursor's position cannot be saved: invalidateCursors fails
\* and BeginTrans gives up before it touches the transaction.
UpgradeRefused(c) ==
  /\ InTxn(c, {"READ"}) /\ c \notin ReadonlyConns
  /\ bt[c].transType = "optimistic"
  /\ UNCHANGED vars

\* Mutants of UpgradeGranted: the counter is not compared; the new MDB_txn is
\* not stored in p->svp.
UpgradeGrantedUnchecked(c) ==
  /\ bt[c].status = "open" /\ bt[c].upg # NotUpgrading
  /\ writer = NoConn
  /\ bt' = [bt EXCEPT ![c].svp[1] = MainTxn(TRUE), ![c].hasData = TRUE,
                      ![c].inTrans = "WRITE", ![c].upg = NotUpgrading]
  /\ writer' = c
  /\ UNCHANGED <<db, cl, faults>>

UpgradeGrantedUnstored(c) ==
  /\ bt[c].status = "open" /\ bt[c].upg # NotUpgrading
  /\ writer = NoConn
  /\ bt' = [bt EXCEPT ![c].inTrans = IF bt[c].upg = db.counter
                                     THEN "WRITE" ELSE "READ",
                      ![c].hasData = TRUE, ![c].upg = NotUpgrading]
  /\ writer' = c
  /\ UNCHANGED <<db, cl, faults>>

\* Second half: the lock is granted.  When the counter has moved BeginTrans
\* returns SQLITE_BUSY and keeps the new MDB_txn.
UpgradeGranted(c) ==
  /\ bt[c].status = "open" /\ bt[c].upg # NotUpgrading
  /\ writer = NoConn
  /\ bt' = [bt EXCEPT ![c].svp[1] = MainTxn(TRUE),
                      ![c].hasData = TRUE,
                      ![c].inTrans = IF bt[c].upg = db.counter
                                     THEN "WRITE" ELSE "READ",
                      ![c].upg = NotUpgrading]
  /\ writer' = c
  /\ UNCHANGED <<db, cl, faults>>

\* mdb_txn_begin, or mdb_dbi_open after it, fails: the BtreeSavepoint is
\* freed, inTrans is left alone.
UpgradeFails(c) ==
  /\ bt[c].status = "open" /\ bt[c].upg # NotUpgrading
  /\ Fault
  /\ bt' = [bt EXCEPT ![c].svp = <<>>, ![c].upg = NotUpgrading]
  /\ UNCHANGED <<db, writer, cl>>

\* Mutants of BeginTransNew: "serialise" does not ask for the lock; inTrans is
\* set for write transactions only.
BeginTransNewUnlocked(c, wrFlag) ==
  /\ Usable(c) /\ bt[c].inTrans = "NONE" /\ bt[c].svp = <<>>
  /\ ~(wrFlag /\ c \in ReadonlyConns)
  /\ wrFlag => writer = NoConn
  /\ bt' = [bt EXCEPT ![c].svp = <<MainTxn(wrFlag)>>, ![c].hasData = TRUE,
                      ![c].inTrans = IF wrFlag THEN "WRITE" ELSE "READ"]
  /\ cl' = [cl EXCEPT ![c] = [open |-> TRUE, seen |-> db.data,
                              want |-> db.data, marks |-> <<>>]]
  /\ writer' = IF wrFlag THEN c ELSE writer
  /\ UNCHANGED <<db, faults>>

BeginTransNewUnmarked(c, wrFlag) ==
  LET rw == \/ wrFlag
            \/ bt[c].transType = "serialise" /\ c \notin ReadonlyConns
  IN /\ Usable(c) /\ bt[c].inTrans = "NONE" /\ bt[c].svp = <<>>
     /\ ~(wrFlag /\ c \in ReadonlyConns)
     /\ rw => writer = NoConn
     /\ bt' = [bt EXCEPT ![c].svp = <<MainTxn(rw)>>, ![c].hasData = TRUE,
                         ![c].inTrans = IF wrFlag THEN "WRITE" ELSE "NONE"]
     /\ cl' = [cl EXCEPT ![c] = [open |-> TRUE, seen |-> db.data,
                                 want |-> db.data, marks |-> <<>>]]
     /\ writer' = IF rw THEN c ELSE writer
     /\ UNCHANGED <<db, faults>>

\* A new transaction; under "serialise" always a read/write MDB_txn if the
\* connection may write.
BeginTransNew(c, wrFlag) ==
  LET rw == \/ wrFlag
            \/ bt[c].transType = "serialise" /\ c \notin ReadonlyConns
  IN /\ Usable(c) /\ bt[c].inTrans = "NONE" /\ bt[c].svp = <<>>
     /\ ~(wrFlag /\ c \in ReadonlyConns)
     /\ rw => writer = NoConn
     /\ bt' = [bt EXCEPT ![c].svp = <<MainTxn(rw)>>,
                         ![c].hasData = TRUE,
                         ![c].inTrans = IF wrFlag THEN "WRITE" ELSE "READ"]
     /\ cl' = [cl EXCEPT ![c] = [open |-> TRUE, seen |-> db.data,
                                 want |-> db.data, marks |-> <<>>]]
     /\ writer' = IF rw THEN c ELSE writer
     /\ UNCHANGED <<db, faults>>

\* A new transaction that cannot begin leaves no trace.
BeginTransFails(c) ==
  /\ Usable(c) /\ bt[c].inTrans = "NONE" /\ bt[c].svp = <<>>
  /\ Fault
  /\ UNCHANGED <<db, writer, bt, cl>>

-----------------------------------------------------------------------------
\* closeAllSavepoints(nTo) pops the stack s down to the topmost level m that
\* is the main transaction or has nSavepoint = nTo.
IsCut(s, nTo, m) ==
  /\ m \in 1..Len(s)
  /\ m = 1 \/ s[m].n = nTo
  /\ \A j \in (m + 1)..Len(s) : s[j].n # nTo

\* Mutant of Closed: the levels are aborted even when commit is asked for.
ClosedAborting(s, m, commit) == SubSeq(s, 1, m)

\* The stack once it is cut at m: the levels above are committed into their
\* parents or, if commit is not asked for or one step of it fails, aborted.
\* Cursors are invalidated before the first level goes, so one that cannot be
\* saved turns the commit of all of them into an abort.
Closed(s, m, commit) ==
  [SubSeq(s, 1, m) EXCEPT ![m].view = IF commit THEN s[Len(s)].view ELSE @]

\* sqlite3BtreeCommitPhaseOne without a write transaction: nothing to do, or
\* the read transaction is aborted.
CommitRead(c) ==
  /\ Usable(c) /\ bt[c].inTrans # "WRITE" /\ ~Dangling(c)
  /\ IF bt[c].inTrans = "NONE" THEN UNCHANGED <<bt, cl, writer>> ELSE EndTxn(c)
  /\ UNCHANGED <<db, faults>>

\* Mutants of CommitWrite: the savepoints are not folded into the main
\* transaction; the counter does not move.
CommitWriteMainOnly(c) ==
  /\ InTxn(c, {"WRITE"})
  /\ db.counter < MaxCommits
  /\ db' = [bt[c].svp[1].view EXCEPT !.counter = NextCounter(@)]
  /\ EndTxn(c)
  /\ NoFault

CommitWriteUncounted(c) ==
  /\ InTxn(c, {"WRITE"})
  /\ db.counter < MaxCommits
  /\ db' = Top(c).view
  /\ EndTxn(c)
  /\ NoFault

\* With a write transaction: savepoints are folded into the main transaction,
\* the commit counter moves on, and the main transaction is committed.
CommitWrite(c) ==
  /\ InTxn(c, {"WRITE"})
  /\ db.counter < MaxCommits
  /\ db' = [Top(c).view EXCEPT !.counter = NextCounter(@)]
  /\ EndTxn(c)
  /\ NoFault

\* A savepoint cannot be committed: the rest of the stack is aborted, the
\* main transaction stays open without what the savepoints had written.
CommitFailsInSavepoint(c) ==
  /\ InTxn(c, {"WRITE"}) /\ Len(bt[c].svp) > 1
  /\ Fault
  /\ bt' = [bt EXCEPT ![c].svp = Closed(@, 1, FALSE)]
  /\ cl' = [cl EXCEPT ![c].want = bt[c].svp[1].view.data, ![c].marks = <<>>]
  /\ UNCHANGED <<db, writer>>

\* Mutant of CommitFailsInCounter: it returns without mdb_txn_abort.
CommitFailsInCounterUnaborted(c) ==
  /\ InTxn(c, {"WRITE"})
  /\ Fault
  /\ bt' = [bt EXCEPT ![c].inTrans = "NONE", ![c].svp = <<>>]
  /\ cl' = [cl EXCEPT ![c] = IdleClient]
  /\ UNCHANGED <<db, writer>>

\* The commit counter cannot be written: the transaction is aborted.
CommitFailsInCounter(c) ==
  /\ InTxn(c, {"WRITE"})
  /\ Fault
  /\ EndTxn(c)
  /\ UNCHANGED db

\* mdb_txn_commit fails: LMDB has ended the transaction, the BtreeSavepoint
\* that holds it stays where it is.
CommitFailsInMdb(c) ==
  /\ InTxn(c, {"WRITE"})
  /\ Fault
  /\ bt' = [bt EXCEPT ![c].inTrans = "NONE",
                      ![c].svp = <<[Closed(@, 1, TRUE)[1]
                                       EXCEPT !.live = FALSE]>>]
  /\ cl' = [cl EXCEPT ![c] = IdleClient]
  /\ writer' = Released(c)
  /\ UNCHANGED db

\* sqlite3BtreeRollback.
Rollback(c) ==
  /\ Usable(c) /\ ~Dangling(c)
  /\ IF bt[c].inTrans = "NONE" THEN UNCHANGED <<bt, cl, writer>> ELSE EndTxn(c)
  /\ UNCHANGED <<db, faults>>

\* The process is gone, by whatever following a bad pointer does to it.
Wreck(c) ==
  /\ bt' = [bt EXCEPT ![c] = [ClosedBtree EXCEPT !.status = "wrecked"]]
  /\ cl' = [cl EXCEPT ![c] = IdleClient]
  /\ writer' = Released(c)
  /\ UNCHANGED <<db, faults>>

\* Any call that follows p->svp->txn when it is dangling, and Close when a
\* failed commit has left an ended transaction behind.
UseDangling(c) ==
  /\ Usable(c)
  /\ Dangling(c) \/ (bt[c].svp # <<>> /\ ~bt[c].svp[1].live)
  /\ Wreck(c)

\* The process is started again.
Restart(c) ==
  /\ bt[c].status = "wrecked"
  /\ bt' = [bt EXCEPT ![c].status = "closed"]
  /\ UNCHANGED <<db, writer, cl, faults>>

-----------------------------------------------------------------------------
\* SAVEPOINT makes no call of the backend: SQLite only counts it, and refuses
\* it while a writing statement is running.
UserSavepoint(c) ==
  /\ InTxn(c, {"WRITE"}) /\ Len(cl[c].marks) < MaxDepth
  /\ Len(bt[c].svp) = 1
  /\ cl' = [cl EXCEPT ![c].marks = Append(@, cl[c].want)]
  /\ UNCHANGED <<db, writer, bt, faults>>

\* sqlite3BtreeBeginStmt(iStatement), where iStatement counts all savepoints
\* and statements that are open, the new one included.
BeginStmt(c) ==
  /\ InTxn(c, {"WRITE"}) /\ Len(cl[c].marks) < MaxDepth
  /\ bt' = [bt EXCEPT ![c].svp = Append(@, [n |-> Len(cl[c].marks) + 1,
                                            rw |-> TRUE, live |-> TRUE,
                                            view |-> Top(c).view])]
  /\ cl' = [cl EXCEPT ![c].marks = Append(@, cl[c].want)]
  /\ UNCHANGED <<db, writer, faults>>

\* sqlite3BtreeSavepoint(SAVEPOINT_RELEASE, i): what was written stays.
SavepointRelease(c, i) ==
  /\ InTxn(c, {"WRITE"}) /\ i < Len(cl[c].marks)
  /\ \E m \in 1..Len(bt[c].svp) :
       /\ IsCut(bt[c].svp, i, m)
       /\ bt' = [bt EXCEPT ![c].svp = Closed(@, m, TRUE)]
  /\ cl' = [cl EXCEPT ![c].marks = SubSeq(@, 1, i)]
  /\ UNCHANGED <<db, writer, faults>>

\* The same when the levels are aborted instead: because a nested commit has
\* failed, and the caller knows that its writes are gone, or because a cursor
\* could not be saved, which the caller does not expect to undo its writes.
ReleaseAborts(c, i, expected) ==
  /\ InTxn(c, {"WRITE"}) /\ i < Len(cl[c].marks)
  /\ \E m \in 1..Len(bt[c].svp) :
       /\ IsCut(bt[c].svp, i, m) /\ m < Len(bt[c].svp)
       /\ bt' = [bt EXCEPT ![c].svp = Closed(@, m, FALSE)]
       /\ cl' = [cl EXCEPT ![c].want = IF expected THEN bt[c].svp[m].view.data
                                                   ELSE @,
                           ![c].marks = SubSeq(@, 1, i)]
  /\ UNCHANGED <<db, writer>>

SavepointReleaseFails(c, i) == ReleaseAborts(c, i, TRUE) /\ Fault

\* sqlite3BtreeSavepoint(SAVEPOINT_ROLLBACK, i) for the statement that began
\* with iStatement = i + 1: what was written since is undone.  The caller
\* releases it at once, which finds nothing left to close.
SavepointRollback(c, i) ==
  /\ InTxn(c, {"WRITE"}) /\ i < Len(cl[c].marks)
  /\ \E j \in 1..Len(bt[c].svp) : bt[c].svp[j].n = i + 1
  /\ \E m \in 1..Len(bt[c].svp) :
       /\ IsCut(bt[c].svp, i, m)
       /\ bt' = [bt EXCEPT ![c].svp = Closed(@, m, FALSE)]
  /\ cl' = [cl EXCEPT ![c].want = cl[c].marks[i + 1],
                      ![c].marks = SubSeq(@, 1, i)]
  /\ UNCHANGED <<db, writer, faults>>

\* sqlite3BtreeSavepoint(SAVEPOINT_ROLLBACK, -1) when a cursor cannot be saved
\* and there is a level to close: only the levels are aborted.
RollbackAllRefused(c) ==
  /\ "rollbackTo" \in Habits
  /\ InTxn(c, {"WRITE"}) /\ Len(bt[c].svp) > 1
  /\ bt' = [bt EXCEPT ![c].svp = Closed(@, 1, FALSE)]
  /\ cl' = [cl EXCEPT ![c].want = bt[c].svp[1].view.data, ![c].marks = <<>>]
  /\ UNCHANGED <<db, writer, faults>>

\* sqlite3BtreeSavepoint(SAVEPOINT_ROLLBACK, -1): the caller expects an empty
\* transaction that is still open.
SavepointRollbackAll(c) ==
  /\ "rollbackTo" \in Habits
  /\ InTxn(c, {"WRITE"})
  /\ bt' = [bt EXCEPT ![c].inTrans = "NONE", ![c].svp = <<>>]
  /\ cl' = [cl EXCEPT ![c].want = cl[c].seen, ![c].marks = <<>>]
  /\ writer' = Released(c)
  /\ UNCHANGED <<db, faults>>

-----------------------------------------------------------------------------
\* Every call that writes does so in the innermost MDB_txn: d is what that one
\* sees afterwards, w what the caller means to see.
WriteTop(c, d, w) ==
  /\ bt' = [bt EXCEPT ![c].svp[Len(bt[c].svp)].view.data = d]
  /\ cl' = [cl EXCEPT ![c].want = w]
  /\ UNCHANGED <<db, writer, faults>>

\* sqlite3BtreeInsert and sqlite3BtreeDelete through a write cursor.
WriteRow(c, r, k, x) ==
  /\ InTxn(c, {"WRITE"})
  /\ r \in Top(c).view.data.tabs
  /\ WriteTop(c, MdbPut(Top(c).view.data, r, k, x), MdbPut(cl[c].want, r, k, x))

\* Mutant of NextRoot: pages 1 and 2 are not reserved.
NextRootUnreserved(d) == d.largest + 1

\* The root page sqlite3BtreeCreateTable picks.
NextRoot(d) == IF d.largest < 2 THEN 3 ELSE d.largest + 1

\* Mutant of WithNewTable: BTREE_LARGEST_ROOT_PAGE is not updated.
WithNewTableUncounted(d) == MdbCreate(d, NextRoot(d))

\* get_table(get_table_create), then sqlite3BtreeUpdateMeta.
WithNewTable(d) == [MdbCreate(d, NextRoot(d)) EXCEPT !.largest = NextRoot(d)]

\* sqlite3BtreeCreateTable.
CreateTable(c) ==
  /\ InTxn(c, {"WRITE"})
  /\ NextRoot(Top(c).view.data) <= MaxRoot
  /\ NextRoot(cl[c].want) <= MaxRoot
  /\ WriteTop(c, WithNewTable(Top(c).view.data), WithNewTable(cl[c].want))

\* mdb_drop as sqlite3BtreeDropTable calls it: page 1 is only emptied.
Dropped(d, r) == IF r > 1 THEN MdbDelete(d, r) ELSE MdbEmpty(d, r)

\* sqlite3BtreeDropTable.
DropTable(c, r) ==
  /\ InTxn(c, {"WRITE"})
  /\ r \in Top(c).view.data.tabs
  /\ WriteTop(c, Dropped(Top(c).view.data, r), Dropped(cl[c].want, r))

\* sqlite3BtreeClearTable.
ClearTable(c, r) ==
  /\ InTxn(c, {"WRITE"})
  /\ r \in Top(c).view.data.tabs
  /\ WriteTop(c, MdbEmpty(Top(c).view.data, r), MdbEmpty(cl[c].want, r))

\* sqlite3BtreeUpdateMeta(BTREE_SCHEMA_VERSION).
UpdateMeta(c, x) ==
  /\ InTxn(c, {"WRITE"})
  /\ bt[c].hasData
  /\ WriteTop(c, [Top(c).view.data EXCEPT !.schema = x],
                 [cl[c].want EXCEPT !.schema = x])

\* lumo_backend_pragma and put_meta_32_notxn outside a transaction: a write
\* transaction of its own, which does not count as a commit.
PragmaAlone(c, t) ==
  /\ Usable(c) /\ bt[c].inTrans = "NONE" /\ c \notin ReadonlyConns
  /\ writer = NoConn
  /\ db' = [db EXCEPT !.ttype = t]
  /\ bt' = [bt EXCEPT ![c].transType = t]
  /\ UNCHANGED <<writer, cl, faults>>

\* In a read transaction (SQLITE_BUSY) or on a read-only connection
\* (SQLITE_READONLY) the pragma is refused.
PragmaRefused(c) ==
  /\ Usable(c) /\ bt[c].inTrans # "WRITE"
  /\ c \in ReadonlyConns \/ bt[c].inTrans = "READ"
  /\ UNCHANGED vars

\* In a write transaction p->svp->txn is used, and committed.
PragmaInWrite(c, t) ==
  LET n     == Len(bt[c].svp)
      view  == [Top(c).view EXCEPT !.ttype = t]
      ended == [bt[c].svp EXCEPT ![n].live = FALSE]
  IN /\ "pragma" \in Habits
     /\ InTxn(c, {"WRITE"})
     /\ IF n = 1
        THEN /\ db' = view
             /\ bt' = [bt EXCEPT ![c].svp = ended, ![c].transType = t]
             /\ writer' = Released(c)
        ELSE /\ bt' = [bt EXCEPT ![c].svp = [ended EXCEPT ![n - 1].view = view],
                                 ![c].transType = t]
             /\ UNCHANGED <<db, writer>>
     /\ UNCHANGED <<cl, faults>>

-----------------------------------------------------------------------------
BeginTrans(c) ==
  \/ \E wrFlag \in BOOLEAN : BeginTransAnswered(c, wrFlag)
  \/ \E wrFlag \in BOOLEAN : BeginTransNew(c, wrFlag)
  \/ BeginTransSerialised(c)
  \/ BeginTransFails(c)
  \/ UpgradeStart(c)
  \/ UpgradeRefused(c)

CommitPhaseOne(c) ==
  \/ CommitRead(c)
  \/ CommitWrite(c)
  \/ CommitFailsInSavepoint(c)
  \/ CommitFailsInCounter(c)
  \/ CommitFailsInMdb(c)

Savepoint(c) ==
  \/ \E i \in 0..(MaxDepth - 1) : \/ SavepointRelease(c, i)
                                  \/ SavepointReleaseFails(c, i)
                                  \/ SavepointRollback(c, i)
  \/ SavepointRollbackAll(c)

Write(c) ==
  \/ \E r \in Roots, k \in Keys, x \in Vals \cup {NoVal} : WriteRow(c, r, k, x)
  \/ CreateTable(c)
  \/ \E r \in Roots : DropTable(c, r) \/ ClearTable(c, r)
  \/ \E x \in SchemaVals : UpdateMeta(c, x)

Pragma(c) ==
  \/ \E t \in TransTypes : PragmaAlone(c, t) \/ PragmaInWrite(c, t)
  \/ PragmaRefused(c)

Next == \E c \in Conns :
  \/ BtreeOpen(c) \/ BtreeClose(c) \/ Crash(c)
  \/ BeginTrans(c) \/ UpgradeGranted(c) \/ UpgradeFails(c)
  \/ CommitPhaseOne(c) \/ Rollback(c) \/ UseDangling(c) \/ Restart(c)
  \/ UserSavepoint(c) \/ BeginStmt(c) \/ Savepoint(c)
  \/ Write(c) \/ Pragma(c)

Spec == Init /\ [][Next]_vars

\* A caller ends the transaction it has open sooner or later, and the lock is
\* granted to one that waits for it while it keeps becoming free.
Fairness == \A c \in Conns :
  /\ WF_vars(Rollback(c) /\ bt[c].inTrans # "NONE")
  /\ SF_vars(UpgradeGranted(c))

FairSpec == Spec /\ Fairness

-----------------------------------------------------------------------------
\* A write transaction starts from the latest commit: between the caller's
\* first read and its BeginTrans(1) nobody has changed the database.  This is
\* what the commit counter of the optimistic upgrade is for.
NoLostUpdate ==
  \A c \in Conns : InTxn(c, {"WRITE"}) => cl[c].seen = db.data

\* A transaction sees the snapshot it started from and its own writes, with
\* rolled back statements undone and released ones kept.  A connection that was
\* refused its upgrade is left out: it has been moved to a later commit.
SeesItsTransaction ==
  \A c \in Conns : InTxn(c, {"READ", "WRITE"}) /\ ~Stale(c)
                     => Top(c).view.data = cl[c].want

\* A connection that believes to be in a transaction has one: no call follows
\* p->svp->txn to a transaction that is not there.
NoDanglingTxn ==
  \A c \in Conns : /\ bt[c].status # "wrecked"
                   /\ Usable(c) => ~Dangling(c)

\* A connection outside a transaction can start one: nothing is left of the
\* one before, for which BeginTrans would return SQLITE_INTERNAL.
NothingLeftOver ==
  \A c \in Conns : Usable(c) /\ bt[c].inTrans = "NONE" => bt[c].svp = <<>>

\* The writer lock is held exactly by the connection whose main MDB_txn is a
\* live read/write transaction: no path ends a transaction and keeps the lock
\* or the reverse.
LockMatchesTxn ==
  \A c \in Conns :
    writer = c <=> \E i \in 1..Len(bt[c].svp) :
                      i = 1 /\ bt[c].svp[i].rw /\ bt[c].svp[i].live

\* A transaction the caller has not ended is a transaction of the backend.
TxnStaysOpen ==
  \A c \in Conns : cl[c].open => bt[c].inTrans # "NONE"

\* sqlite3BtreeCreateTable never hands out the page of an existing table,
\* which mdb_dbi_open(MDB_CREATE) would open with the rows it has.
FreshRoot ==
  /\ NextRoot(db.data) \notin db.data.tabs
  /\ \A c \in Conns : InTxn(c, {"READ", "WRITE"})
                        => NextRoot(Top(c).view.data) \notin Top(c).view.data.tabs

\* Once the file has its page 1, its data changes only when a transaction
\* ends, into exactly what the caller of that transaction expects.
CommitPublishesTxn ==
  [][db'.data # db.data /\ 1 \in db.data.tabs
       => \E c \in Conns : /\ cl[c].open /\ ~cl'[c].open
                           /\ db'.data = cl[c].want]_vars

\* Whoever changes the data moves the commit counter with it, so that equal
\* counters mean equal data.
CounterTracksData ==
  [][db'.data # db.data /\ 1 \in db.data.tabs
       => db'.counter # db.counter]_vars

\* A caller that waits for the upgrade of its transaction gets an answer.
UpgradeAnswered ==
  \A c \in Conns : bt[c].upg # NotUpgrading ~> bt[c].upg = NotUpgrading

-----------------------------------------------------------------------------
\* The backend seen as a TxnStore.  A transaction in the middle of its upgrade,
\* or refused in it, still works on what it saw; its caller makes no call but
\* the one that ends it.
StoreMode == [c \in Conns |->
  CASE bt[c].inTrans = "NONE"  -> "none"
    [] bt[c].inTrans = "READ"  -> "read"
    [] bt[c].inTrans = "WRITE" -> "write"]

StoreWork == [c \in Conns |->
  IF InTxn(c, {"READ", "WRITE"}) /\ ~Stale(c) THEN Top(c).view.data
                                              ELSE cl[c].seen]

Store == INSTANCE TxnStore WITH
  Clients_ <- Conns, States <- DataSet,
  Blank <- EmptyData, Formatted <- MdbCreate(EmptyData, 1),
  store <- db.data, mode <- StoreMode,
  base <- [c \in Conns |-> cl[c].seen], work <- StoreWork

\* The backend keeps the promise of TxnStore: snapshots, a single writer that
\* builds on the latest commit, and atomic commits, through crashes, upgrades
\* and failing LMDB calls.
ImplementsStore == Store!StoreSpec

=============================================================================
