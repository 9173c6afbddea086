------------------------------- MODULE BdbTxn -------------------------------
(***************************************************************************)
(* Transactions of not-fork.d/bdb/files/btree.c: the Berkeley DB           *)
(* transactions a connection keeps (pMainTxn, its child pReadTxn that      *)
(* holds the read locks, and the chain of children whose last is           *)
(* pSavepointTxn), its list of tables to remove when it commits            *)
(* (deleted_tables), the schema lock, and the locks of the environment,    *)
(* which DB_DATABASE_LOCKING takes on whole tables.                        *)
(*                                                                         *)
(* A connection that needs a lock waits; a cycle of waiting connections is *)
(* broken by giving one of them DB_LOCK_DEADLOCK, which the code reports   *)
(* as SQLITE_BUSY.  cl is SQLite, the caller: the statements it runs, its  *)
(* savepoints, and what it may expect of the calls it has made.            *)
(***************************************************************************)
EXTENDS Integers, Sequences

CONSTANTS
  Conns,        \* connections
  TxConns,      \* those whose callers use BEGIN and SAVEPOINT
  Tables,       \* tables of the file, MASTER_ROOT among them
  Master,       \* MASTER_ROOT
  Vals,         \* contents of a table
  Empty,        \* that of a table without rows
  Absent,       \* no table of that number
  MaxReaders,   \* bound on the statements of each connection that run at once
  MaxSavepoint, \* bound on db->nSavepoint
  MaxCalls,     \* bound on the calls each caller makes, its ends not counted
  MaxFaults     \* bound on failing calls of Berkeley DB and on crashes

ASSUME BdbAssumption ==
  /\ Master \in Tables
  /\ Absent \notin Vals /\ Empty \in Vals
  /\ TxConns \subseteq Conns
  /\ MaxReaders \in [Conns -> Nat \ {0}] /\ MaxSavepoint \in Nat
  /\ MaxCalls \in [Conns -> Nat] /\ MaxFaults \in Nat

VARIABLES
  db,      \* the committed tables
  con,     \* struct Btree of every connection
  cl,      \* the caller of every connection
  faults   \* failures so far

bvars == <<db, con, cl, faults>>

-----------------------------------------------------------------------------
\* A table, and whether one renamed to "old-..." is still in the file.
Contents == [val : Vals \cup {Absent}, old : BOOLEAN]

\* What a transaction has written; it holds the write lock of its domain.
Writes == UNION {[S -> Contents] : S \in SUBSET Tables}

NoWrites == [t \in {} |-> Absent]

\* The tables d with the writes w over them.
Apply(w, d) == [t \in DOMAIN w \cup DOMAIN d |-> IF t \in DOMAIN w THEN w[t] ELSE d[t]]

\* The writes w and that of x to t.
Written(w, t, x) == [u \in DOMAIN w \cup {t} |-> IF u = t THEN x ELSE w[u]]

Modes == {"none", "read", "write"}

\* levels: what had been written when pMainTxn (the first) and each of its
\* descendants down to pSavepointTxn began.  rd: the tables pReadTxn has read.
\* dead: the levels that were deadlock victims, 0 for pReadTxn.  dangling:
\* pSavepointTxn is a handle whose transaction has ended.  deleted: tables renamed away, each with the
\* level that did it.  schema: p->schemaLockMode, and the level whose cursor
\* holds it, 0 for pReadTxn.  "wrecked": an ended handle was used.
Btrees == [status : {"ok", "wrecked"}, inTrans : {"NONE", "READ", "WRITE"},
           read : BOOLEAN, rd : SUBSET Tables, dead : SUBSET Nat,
           nSavepoint : Nat, levels : Seq(Writes), dirty : Writes,
           dangling : BOOLEAN, deleted : SUBSET [table : Tables, level : Nat],
           schema : [mode : Modes, level : Nat],
           wait : (Tables \X {"read", "write"}) \cup {<<>>}]

NoSchemaLock == [mode |-> "none", level |-> 0]

IdleBtree == [status |-> "ok", inTrans |-> "NONE", read |-> FALSE, rd |-> {},
              dead |-> {}, nSavepoint |-> 0, levels |-> <<>>,
              dirty |-> NoWrites, dangling |-> FALSE, deleted |-> {},
              schema |-> NoSchemaLock, wait |-> <<>>]

\* A savepoint call aborted pReadTxn while it held read locks; one aborted it in
\* place of the transactions of inner savepoints, which are left behind; one left
\* pSavepointTxn behind; a commit was answered while another statement read;
\* reading the schema cookie rolled the transaction back; a rollback left entries of
\* deleted_tables behind; a call failed.
Oddities == {"readAborted", "behind", "dangling", "reading", "metaRollback",
             "forgotten", "fault"}

\* auto: autocommit mode; nread: db->nVdbeRead; writing: a statement that
\* writes runs, with a statement transaction if journal; failed: it got an
\* error; nsav: db->nSavepoint; want: what the transaction has written; marks:
\* want at each savepoint, then at the statement; seen: what it has read;
\* odd: what happened to it that the code does not handle; calls: how many
\* it has made.
Clients == [auto : BOOLEAN, nread : Nat, writing : BOOLEAN,
            journal : BOOLEAN, failed : BOOLEAN, nsav : 0..MaxSavepoint,
            want : Writes, marks : Seq(Writes), seen : Writes,
            odd : SUBSET Oddities,
            calls : Nat]

IdleClient == [auto |-> TRUE, nread |-> 0, writing |-> FALSE,
               journal |-> FALSE, failed |-> FALSE, nsav |-> 0,
               want |-> NoWrites, marks |-> <<>>, seen |-> NoWrites,
               odd |-> {}, calls |-> 0]

BdbTypeOK ==
  /\ db \in [Tables -> Contents]
  /\ con \in [Conns -> Btrees]
  /\ cl \in [Conns -> Clients]
  /\ faults \in 0..MaxFaults

BdbInit ==
  /\ db = [t \in Tables |-> [val |-> Empty, old |-> FALSE]]
  /\ con = [c \in Conns |-> IdleBtree]
  /\ cl = [c \in Conns |-> IdleClient]
  /\ faults = 0

-----------------------------------------------------------------------------
\* The level of pSavepointTxn.
Deepest(b) == Len(b.levels)

Usable(c) == con[c].status = "ok" /\ con[c].wait = <<>>

WriteLocked(c) == DOMAIN con[c].dirty

\* What c reads: its own writes over the committed tables.
Sees(c) == Apply(con[c].dirty, db)

\* Mutant of LockFree: what others have read may be written.
LockFreeWrites(c, t, m) == \A o \in Conns \ {c} : t \notin WriteLocked(o)

LockFree(c, t, m) ==
  \A o \in Conns \ {c} :
    t \notin WriteLocked(o) /\ (m = "write" => t \notin con[o].rd)

Fault == faults < MaxFaults /\ faults' = faults + 1

Wrecked(b) == [b EXCEPT !.status = "wrecked"]

\* Mutant of BeginStmt: one child of pSavepointTxn too few.
BeginStmtShort(b, n) ==
  LET more == IF b.nSavepoint < n THEN n - b.nSavepoint ELSE 0
      main == IF b.levels = <<>> THEN 1 ELSE 0
  IN IF b.inTrans = "NONE" THEN b
     ELSE IF b.dangling /\ more > 0 THEN Wrecked(b)
     ELSE [b EXCEPT !.read = TRUE, !.nSavepoint = @ + more,
                    !.levels = @ \o [i \in 1..(main + more) |-> b.dirty]]

\* sqlite3BtreeBeginStmt: pMainTxn, pReadTxn and children of pSavepointTxn are
\* begun as far as they are missing, until there are more than n of them.
BeginStmt(b, n) ==
  LET more == IF b.nSavepoint <= n THEN n + 1 - b.nSavepoint ELSE 0
      main == IF b.levels = <<>> THEN 1 ELSE 0
  IN IF b.inTrans = "NONE" THEN b
     ELSE IF b.dangling /\ more > 0 THEN Wrecked(b)
     ELSE [b EXCEPT !.read = TRUE, !.nSavepoint = @ + more,
                    !.levels = @ \o [i \in 1..(main + more) |-> b.dirty]]

\* sqlite3BtreeBeginTrans of a connection whose db->nSavepoint is n.
BeginTrans(b, wrflag, n) ==
  LET t == [b EXCEPT !.inTrans = IF wrflag THEN "WRITE"
                                 ELSE IF @ = "NONE" THEN "READ" ELSE @]
  IN IF ~t.read \/ t.nSavepoint <= n THEN BeginStmt(t, n) ELSE t

\* The same when txn_begin fails for pMainTxn, for pReadTxn, or for a child of
\* pSavepointTxn: what was begun before it stays.
BeginTransFailed(b, wrflag, n) ==
  LET t == [b EXCEPT !.inTrans = IF wrflag THEN "WRITE"
                                 ELSE IF @ = "NONE" THEN "READ" ELSE @]
      m == [t EXCEPT !.levels = IF @ = <<>> THEN <<NoWrites>> ELSE @]
      Children(k) == [m EXCEPT !.read = TRUE, !.nSavepoint = @ + k,
                               !.levels = @ \o [i \in 1..k |-> b.dirty]]
  IN (IF b.levels = <<>> THEN {t} ELSE {}) \cup (IF b.read THEN {} ELSE {m})
     \cup {Children(k) : k \in {i \in 0..n : b.nSavepoint + i <= n /\ ~b.dangling}}

\* Mutant of SchemaAfter: the cursor is not closed with its transaction.
SchemaAfterOpen(b, level) == b.schema

\* The schema lock's cursor is closed with the transaction it belongs to, or
\* with a descendant of the one that ends.
SchemaAfter(b, level) ==
  IF b.schema.mode # "none"
     /\ (IF level = 0 THEN b.schema.level = 0
         ELSE b.schema.level >= level \/ (level = 1 /\ b.schema.level = 0))
  THEN NoSchemaLock ELSE b.schema

\* Mutant of DeletedAfter: a rollback forgets nothing.
DeletedAfterKept(b, op, level) ==
  IF b.inTrans # "WRITE" THEN b.deleted
  ELSE {[e EXCEPT !.level = level - 1] : e \in b.deleted}

\* What is left of deleted_tables when the transactions from pSavepointTxn up
\* to the one of a level end: a rollback forgets their entries, a release
\* hands every entry, of whatever transaction, to the parent.
DeletedAfter(b, op, level) ==
  IF b.inTrans # "WRITE" THEN b.deleted
  ELSE IF op = "rollback" THEN {e \in b.deleted : e.level < level}
  ELSE {[e EXCEPT !.level = level - 1] : e \in b.deleted}

\* ROLLBACK of a savepoint that has no transaction yet, or in a read
\* transaction: pReadTxn is aborted, with the read locks it holds.
ReadAborted(b) ==
  [b EXCEPT !.read = FALSE, !.rd = {}, !.dead = @ \ {0},
            !.deleted = DeletedAfter(b, "rollback", 2),
            !.schema = SchemaAfter(b, 0)]

\* The transaction of a level and its descendants end, n savepoints stay; a
\* deadlock victim among them makes a commit an abort.
LevelsEnded(b, op, level, n) ==
  LET Died == \E l \in b.dead : l >= level
  IN [b EXCEPT !.nSavepoint = n,
               !.levels = SubSeq(@, 1, level - 1),
               !.dirty = IF op = "rollback" \/ Died THEN b.levels[level] ELSE @,
               !.dead = {l \in @ : l < level},
               !.deleted = DeletedAfter(b, op, level),
               !.schema = SchemaAfter(b, level),
               !.dangling = ~(b.inTrans = "WRITE" /\ b.read)]

\* Mutants of ChainEnded: a rollback commits into the parent; nSavepoint is off.
ChainEndedCommitted(b, op, i) ==
  IF b.dangling THEN Wrecked(b) ELSE LevelsEnded(b, "release", i + 3, i + 1)

ChainEndedMiscounted(b, op, i) ==
  IF b.dangling THEN Wrecked(b) ELSE LevelsEnded(b, op, i + 3, i - 1)

\* The transaction of savepoint i ends.
ChainEnded(b, op, i) ==
  IF b.dangling THEN Wrecked(b) ELSE LevelsEnded(b, op, i + 3, i + 1)

\* sqlite3BtreeSavepoint for i >= 0.  In a read transaction that has lost
\* pReadTxn the null pointer is followed.
AbortsRead(b, op, i) ==
  op = "rollback" /\ b.read /\ (i + 2 > b.nSavepoint \/ b.inTrans = "READ")

BtreeSavepoint(b, op, i) ==
  IF AbortsRead(b, op, i) THEN ReadAborted(b)
  ELSE IF b.levels = <<>> \/ i + 2 > b.nSavepoint THEN b
  ELSE IF op = "rollback" /\ b.inTrans = "READ" THEN Wrecked(b)
  ELSE ChainEnded(b, op, i)

\* sqlite3BtreeRollback: pMainTxn is aborted, if there is one, and all its
\* descendants with it.  One that has neither a pReadTxn nor a savepoint is
\* taken for a savepoint that was not begun, and stays.
Rollback(b) ==
  IF b.levels = <<>> \/ (~b.read /\ b.nSavepoint = 0)
  THEN [b EXCEPT !.schema = NoSchemaLock]
  ELSE IF b.dangling /\ b.inTrans = "WRITE" /\ b.deleted # {} THEN Wrecked(b)
  ELSE [IdleBtree EXCEPT !.deleted = IF b.inTrans = "WRITE" THEN {} ELSE b.deleted]

\* Mutant of Ends: a commit by the last statement does not count it.
EndsAlone(b, n) == b.levels # <<>> /\ n = 0

\* sqlite3BtreeCommitPhaseTwo with db->nVdbeRead = n.  Ends: pMainTxn commits.
Ends(b, n) == b.levels # <<>> /\ n <= 1

CommitPhaseTwo(b, n) ==
  LET released == IF ~Ends(b, n) /\ b.inTrans = "WRITE"
                  THEN BtreeSavepoint(b, "release", 0) ELSE b
  IN IF Ends(b, n) THEN IdleBtree
     ELSE IF n > 1 THEN [released EXCEPT !.inTrans = "READ"]
     ELSE [released EXCEPT !.inTrans = "NONE", !.schema = NoSchemaLock]

\* The file after that: the renamed tables of the list are removed once the
\* transaction has committed.
Removed(d, deleted) ==
  [t \in Tables |-> IF \E e \in deleted : e.table = t
                    THEN [d[t] EXCEPT !.old = FALSE] ELSE d[t]]

\* Mutant of Published: what the last savepoint wrote is not handed up.
PublishedParent(b, n) ==
  IF Ends(b, n) /\ b.dead = {}
  THEN Removed(Apply(b.levels[Deepest(b)], db), b.deleted) ELSE db

Published(b, n) ==
  IF Ends(b, n) /\ b.dead = {} THEN Removed(Apply(b.dirty, db), b.deleted) ELSE db

-----------------------------------------------------------------------------
\* The steps of the caller, whose transaction lasts from its first statement,
\* or BEGIN, until the call that ends it.
Idle(c) == cl[c].auto /\ cl[c].nread = 0

MayCall(c) == con[c].status = "ok" /\ con[c].wait = <<>> /\ cl[c].calls < MaxCalls[c]

\* COMMIT gets an error: the transaction of a level that ends was a deadlock victim.
CommitFails(b, n) ==
  \E l \in b.dead : Ends(b, n) \/ (b.inTrans = "WRITE" /\ b.nSavepoint > 1 /\ l > 2)

\* The caller once its transaction has ended, n statements still running:
\* with none, and nothing left in its Btree, it starts afresh.
Over(r, b, n) ==
  [IdleClient EXCEPT !.nread = n, !.calls = r.calls,
                     !.odd = IF n = 0 /\ b = IdleBtree THEN {}
                             ELSE IF b.deleted = {} THEN r.odd
                             ELSE r.odd \cup {"forgotten"}]

SetCon(c, b) == con' = [con EXCEPT ![c] = b]

SetCl(c, r) == cl' = [cl EXCEPT ![c] = r]

\* A call the bound counts.
Called(c, r) == SetCl(c, [r EXCEPT !.calls = @ + 1])

OnlyCalled(c) == Called(c, cl[c])

NoFault == UNCHANGED faults

Dangling(b) == IF b.dangling THEN {"dangling"} ELSE {}

\* What the end of savepoint i adds to the caller's oddities.
OddAfter(b, op, i) ==
  (IF AbortsRead(b, op, i) /\ b.rd # {} THEN {"readAborted"} ELSE {})
  \cup (IF AbortsRead(b, op, i) /\ i + 2 < b.nSavepoint THEN {"behind"} ELSE {})
  \cup Dangling(BtreeSavepoint(b, op, i))

\* BEGIN of SQL reaches the backend with its first statement.
BeginTx(c) ==
  /\ c \in TxConns /\ Usable(c) /\ Idle(c)
  /\ SetCl(c, [cl[c] EXCEPT !.auto = FALSE])
  /\ UNCHANGED <<db, con, faults>>

\* OP_Transaction of a statement that reads.
BeginRead(c) ==
  /\ MayCall(c) /\ ~cl[c].failed
  /\ cl[c].nread < MaxReaders[c] /\ con[c].dead = {}
  /\ SetCon(c, BeginTrans(con[c], FALSE, cl[c].nsav))
  /\ Called(c, [cl[c] EXCEPT !.nread = @ + 1])
  /\ UNCHANGED <<db, faults>>

\* OP_Transaction of one that writes; if it uses a statement journal and is
\* not alone in its transaction, sqlite3BtreeBeginStmt follows.
BeginWrite(c, j) ==
  LET r == cl[c]
      jj == j /\ (~r.auto \/ r.nread > 0)
      b == BeginTrans(con[c], TRUE, r.nsav)
  IN /\ MayCall(c) /\ ~r.failed /\ ~r.writing
     /\ r.nread < MaxReaders[c] /\ con[c].dead = {}
     /\ SetCon(c, IF jj /\ b.status = "ok" THEN BeginStmt(b, r.nsav + 1) ELSE b)
     /\ Called(c, [r EXCEPT !.nread = @ + 1, !.writing = TRUE, !.journal = jj,
                           !.marks = IF jj THEN Append(@, r.want) ELSE @])
     /\ UNCHANGED <<db, faults>>

\* OP_Transaction gets an error: the statement ends at once.
BeginFails(c, wrflag) ==
  /\ MayCall(c) /\ ~cl[c].failed /\ ~cl[c].writing
  /\ con[c].dead = {} /\ Fault
  /\ \E b \in BeginTransFailed(con[c], wrflag, cl[c].nsav) :
       SetCon(c, IF cl[c].auto THEN Rollback(b) ELSE b)
  /\ LET r == [cl[c] EXCEPT !.odd = @ \cup {"fault"}]
     IN Called(c, IF r.auto THEN Over(r, con[c]', r.nread) ELSE r)
  /\ UNCHANGED db

\* A cursor for reading belongs to pReadTxn, which keeps the lock it takes.
ReadTable(c, t) ==
  LET b == con[c]
      first == t \notin DOMAIN cl[c].seen \cup DOMAIN cl[c].want
  IN /\ MayCall(c) /\ cl[c].nread > 0 /\ ~cl[c].failed /\ b.read /\ 0 \notin b.dead
     /\ t \notin b.rd
     /\ IF LockFree(c, t, "read")
        THEN /\ SetCon(c, [b EXCEPT !.rd = @ \cup {t}])
             /\ Called(c, [cl[c] EXCEPT !.seen = IF first THEN Written(@, t, db[t]) ELSE @])
        ELSE SetCon(c, [b EXCEPT !.wait = <<t, "read">>]) /\ UNCHANGED cl
     /\ UNCHANGED <<db, faults>>

\* A statement changes a table in pSavepointTxn: rows, a new table, the table
\* renamed away.  A handle that has ended is followed into freed memory.
ChangeTable(c, t, new, deleted) ==
  LET b == con[c]
  IN /\ MayCall(c) /\ cl[c].writing /\ ~cl[c].failed /\ b.levels # <<>>
     /\ b.dead = {}
     /\ IF b.dangling THEN SetCon(c, Wrecked(b)) /\ OnlyCalled(c)
        ELSE IF LockFree(c, t, "write")
        THEN /\ SetCon(c, [b EXCEPT !.dirty = Written(@, t, new), !.deleted = deleted])
             /\ Called(c, [cl[c] EXCEPT !.want = Written(@, t, new)])
        ELSE SetCon(c, [b EXCEPT !.wait = <<t, "write">>]) /\ UNCHANGED cl
     /\ UNCHANGED <<db, faults>>

\* sqlite3BtreeInsert, sqlite3BtreeDelete, sqlite3BtreeUpdateMeta.
WriteTable(c, t, v) ==
  /\ Sees(c)[t].val \notin {Absent, v}
  /\ ChangeTable(c, t, [Sees(c)[t] EXCEPT !.val = v], con[c].deleted)

\* sqlite3BtreeCreateTable: a number may be that of a table renamed away.
CreateTable(c, t) ==
  /\ t # Master /\ Sees(c)[t].val = Absent
  /\ ChangeTable(c, t, [Sees(c)[t] EXCEPT !.val = Empty], con[c].deleted)

ListedTables(c) == {e.table : e \in con[c].deleted}

WithEntry(c, t) == con[c].deleted \cup {[table |-> t, level |-> Deepest(con[c])]}

\* sqlite3BtreeDropTable renames the table to "old-...".  If there is one of
\* that name, it is a table this transaction dropped and the new one is just
\* removed, or one a crash has left, and it is removed first.
DropTable(c, t) ==
  /\ t # Master /\ Sees(c)[t].val # Absent
  /\ ChangeTable(c, t, [val |-> Absent, old |-> TRUE],
       IF Sees(c)[t].old /\ t \in ListedTables(c) THEN con[c].deleted
       ELSE WithEntry(c, t))

\* The fast path of sqlite3BtreeClearTable renames the table and creates it
\* anew; if there is an old one already, and for a small table, it truncates.
ClearTable(c, t, tryfast) ==
  /\ t # Master /\ Sees(c)[t].val # Absent
  /\ IF tryfast /\ ~Sees(c)[t].old
     THEN ChangeTable(c, t, [val |-> Empty, old |-> TRUE], WithEntry(c, t))
     ELSE Sees(c)[t].val # Empty
          /\ ChangeTable(c, t, [Sees(c)[t] EXCEPT !.val = Empty], con[c].deleted)

\* btreeLockSchema through a cursor on MASTER_ROOT, which is then kept open.
LockSchema(c, m) ==
  LET b == con[c]
  IN /\ MayCall(c) /\ cl[c].nread > 0 /\ ~cl[c].failed /\ b.read
     /\ b.dead = {} /\ b.levels # <<>>
     /\ IF m = "read" THEN b.schema.mode = "none"
        ELSE cl[c].writing /\ b.schema.mode # "write"
     /\ IF m = "write" /\ b.dangling THEN SetCon(c, Wrecked(b))
        ELSE IF ~LockFree(c, Master, m) THEN SetCon(c, [b EXCEPT !.wait = <<Master, m>>])
        ELSE IF m = "read"
        THEN SetCon(c, [b EXCEPT !.rd = @ \cup {Master},
                          !.schema = [mode |-> m, level |-> 0]])
        ELSE SetCon(c, [b EXCEPT !.dirty = Apply(@, [t \in {Master} |-> db[t]]),
                          !.schema = [mode |-> m, level |-> Deepest(b)]])
     /\ OnlyCalled(c) /\ UNCHANGED <<db, faults>>

-----------------------------------------------------------------------------
\* A waiting connection goes on when the lock is free; its caller asks again.
Granted(c) ==
  /\ con[c].wait # <<>> /\ LockFree(c, con[c].wait[1], con[c].wait[2])
  /\ SetCon(c, [con[c] EXCEPT !.wait = <<>>])
  /\ UNCHANGED <<db, cl, faults>>

WaitsFor(c, o) ==
  /\ con[c].wait # <<>> /\ o # c
  /\ \/ con[c].wait[1] \in WriteLocked(o)
     \/ con[c].wait[2] = "write" /\ con[c].wait[1] \in con[o].rd

InCycle(c) ==
  \E S \in SUBSET Conns : /\ c \in S /\ \E o \in S : WaitsFor(o, c)
                          /\ \A x \in S : \E y \in S : WaitsFor(x, y)

\* The detector's victim: a cursor's transaction can only be aborted now.
Victim(c) ==
  /\ InCycle(c)
  /\ SetCon(c, [con[c] EXCEPT !.wait = <<>>,
                  !.dead = @ \cup {IF con[c].wait[2] = "read" THEN 0
                                   ELSE Deepest(con[c])}])
  /\ SetCl(c, [cl[c] EXCEPT !.failed = TRUE])
  /\ UNCHANGED <<db, faults>>

\* sqlite3BtreeGetMeta, which reads the schema cookie for OP_Transaction, is
\* the victim: it rolls the whole transaction back and answers 0.
GetMetaVictim(c) ==
  /\ InCycle(c) /\ con[c].wait = <<Master, "read">> /\ ~cl[c].writing
  /\ SetCon(c, Rollback([con[c] EXCEPT !.wait = <<>>]))
  /\ SetCl(c, [cl[c] EXCEPT !.failed = TRUE, !.odd = @ \cup {"metaRollback"}])
  /\ UNCHANGED <<db, faults>>

-----------------------------------------------------------------------------
\* The end of a statement that reads commits in autocommit mode, unless a
\* statement that writes still runs.
EndRead(c) ==
  LET r == cl[c]
      commits == r.auto /\ ~r.writing
  IN /\ Usable(c) /\ ~r.failed /\ r.nread > IF r.writing THEN 1 ELSE 0
     /\ SetCon(c, IF commits THEN CommitPhaseTwo(con[c], r.nread) ELSE con[c])
     /\ db' = IF commits THEN Published(con[c], r.nread) ELSE db
     /\ SetCl(c, IF commits /\ r.nread = 1 THEN Over(r, con[c]', 0)
                 ELSE [r EXCEPT !.nread = @ - 1])
     /\ NoFault

StmtOver(r, marks) ==
  [r EXCEPT !.writing = FALSE, !.journal = FALSE, !.failed = FALSE,
            !.nread = @ - 1, !.marks = marks]

\* A caller whose commit was answered with SQLITE_OK while others still read.
Answered(r, b) ==
  [r EXCEPT !.auto = TRUE, !.nsav = 0, !.marks = <<>>,
            !.odd = @ \cup {"reading"} \cup Dangling(b)]

\* The end of one that writes commits in autocommit mode, and elsewhere
\* releases its statement transaction.
EndWrite(c) ==
  LET r == cl[c]
      b == con[c]
  IN /\ Usable(c) /\ r.writing /\ ~r.failed
     /\ IF r.auto
        THEN /\ SetCon(c, CommitPhaseTwo(b, r.nread))
             /\ db' = Published(b, r.nread)
             /\ SetCl(c, IF r.nread = 1 THEN Over(r, con[c]', 0)
                         ELSE StmtOver(Answered(r, con[c]'), <<>>))
        ELSE LET e == IF r.journal THEN BtreeSavepoint(b, "release", r.nsav) ELSE b
             IN /\ SetCon(c, e) /\ UNCHANGED db
                /\ SetCl(c, [StmtOver(r, SubSeq(r.marks, 1, r.nsav)) EXCEPT
                               !.odd = @ \cup Dangling(e)])
     /\ NoFault

\* A statement that fails ends the transaction in autocommit mode; elsewhere
\* it rolls its statement transaction back, if it has one.
FailWrite(c) ==
  LET r == cl[c]
      b == con[c]
  IN /\ Usable(c) /\ r.writing /\ (r.failed \/ r.journal)
     /\ IF r.auto
        THEN SetCon(c, Rollback(b)) /\ SetCl(c, Over(r, con[c]', r.nread - 1))
        ELSE IF r.journal
        THEN /\ SetCon(c, BtreeSavepoint(b, "rollback", r.nsav))
             /\ SetCl(c, [StmtOver(r, SubSeq(r.marks, 1, r.nsav)) EXCEPT
                            !.want = r.marks[r.nsav + 1],
                            !.odd = @ \cup OddAfter(b, "rollback", r.nsav)])
        ELSE UNCHANGED con /\ SetCl(c, StmtOver(r, r.marks))
     /\ UNCHANGED <<db, faults>>

FailRead(c) ==
  LET r == cl[c]
  IN /\ Usable(c) /\ r.failed /\ ~r.writing
     /\ SetCon(c, IF r.auto THEN Rollback(con[c]) ELSE con[c])
     /\ SetCl(c, IF r.auto THEN Over(r, con[c]', r.nread - 1)
                 ELSE [r EXCEPT !.failed = FALSE, !.nread = @ - 1])
     /\ UNCHANGED <<db, faults>>

\* COMMIT, which is a statement itself, with others of the connection still
\* reading or not.  If it fails the caller stays in its transaction.
CommitTx(c) ==
  LET r == cl[c]
      n == r.nread + 1
  IN /\ Usable(c) /\ ~r.auto /\ ~r.writing /\ ~r.failed
     /\ SetCon(c, CommitPhaseTwo(con[c], n))
     /\ db' = Published(con[c], n)
     /\ SetCl(c, IF CommitFails(con[c], n) THEN [r EXCEPT !.odd = @ \cup {"fault"}]
                 ELSE IF n = 1 THEN Over(r, con[c]', 0) ELSE Answered(r, con[c]'))
     /\ NoFault

\* ROLLBACK; the end of the statement then commits what there is.
RollbackTx(c) ==
  LET r == cl[c]
      n == r.nread + 1
      b == Rollback(con[c])
  IN /\ Usable(c) /\ ~r.auto /\ ~r.writing
     /\ SetCon(c, IF b.status = "ok" THEN CommitPhaseTwo(b, n) ELSE b)
     /\ db' = IF b.status = "ok" THEN Published(b, n) ELSE db
     /\ SetCl(c, Over(r, con[c]', r.nread))
     /\ NoFault

Savepoint(c) ==
  LET r == cl[c]
  IN /\ MayCall(c) /\ ~r.auto /\ ~r.writing /\ r.nsav < MaxSavepoint
     /\ Called(c, [r EXCEPT !.nsav = @ + 1, !.marks = Append(@, r.want)])
     /\ UNCHANGED <<db, con, faults>>

Release(c, i) ==
  LET r == cl[c]
  IN /\ MayCall(c) /\ ~r.writing /\ ~r.failed /\ i < r.nsav
     /\ con[c].dead = {}
     /\ SetCon(c, BtreeSavepoint(con[c], "release", i))
     /\ Called(c, [r EXCEPT !.nsav = i, !.marks = SubSeq(@, 1, i),
                           !.odd = @ \cup OddAfter(con[c], "release", i)])
     /\ UNCHANGED <<db, faults>>

RollbackTo(c, i) ==
  LET r == cl[c]
  IN /\ MayCall(c) /\ ~r.writing /\ ~r.failed /\ i < r.nsav
     /\ SetCon(c, BtreeSavepoint(con[c], "rollback", i))
     /\ Called(c, [r EXCEPT !.nsav = i + 1, !.marks = SubSeq(@, 1, i + 1),
                           !.want = r.marks[i + 1],
                           !.odd = @ \cup OddAfter(con[c], "rollback", i)])
     /\ UNCHANGED <<db, faults>>

\* The processes die, at a moment of their choosing or in freed memory; one
\* may be in sqlite3BtreeCommitPhaseTwo, after the commit and before the old
\* tables are removed.  The next open recovers the environment.
AllDie == /\ con' = [c \in Conns |-> IdleBtree]
          /\ cl' = [c \in Conns |-> Over(cl[c], IdleBtree, 0)]

Crash == Fault /\ AllDie /\ UNCHANGED db

CrashInCommit(c) ==
  /\ Fault /\ AllDie /\ Usable(c) /\ ~cl[c].failed
  /\ cl[c].auto = cl[c].writing
  /\ Ends(con[c], cl[c].nread + IF cl[c].auto THEN 0 ELSE 1) /\ con[c].dead = {}
  /\ db' = Apply(con[c].dirty, db)

Restart(c) == con[c].status = "wrecked" /\ AllDie /\ UNCHANGED <<db, faults>>

\* The bound on calls is reached.
Finished == (\A c \in Conns : Idle(c) /\ ~MayCall(c)) /\ UNCHANGED bvars

-----------------------------------------------------------------------------
Statement(c) ==
  \/ BeginRead(c)
  \/ \E j \in BOOLEAN : BeginWrite(c, j)
  \/ \E w \in BOOLEAN : BeginFails(c, w)
  \/ \E t \in Tables :
       \/ ReadTable(c, t)
       \/ CreateTable(c, t)
       \/ DropTable(c, t)
       \/ \E v \in Vals : WriteTable(c, t, v)
       \/ \E f \in BOOLEAN : ClearTable(c, t, f)
  \/ \E m \in {"read", "write"} : LockSchema(c, m)
  \/ Granted(c) \/ Victim(c) \/ GetMetaVictim(c)
  \/ EndRead(c) \/ EndWrite(c) \/ FailWrite(c) \/ FailRead(c)

Transaction(c) ==
  \/ BeginTx(c) \/ CommitTx(c) \/ RollbackTx(c) \/ Savepoint(c)
  \/ \E i \in 0..(MaxSavepoint - 1) : Release(c, i) \/ RollbackTo(c, i)

BdbNext ==
  \/ \E c \in Conns : Statement(c) \/ Transaction(c) \/ CrashInCommit(c) \/ Restart(c)
  \/ Crash \/ Finished

BdbSpec == BdbInit /\ [][BdbNext]_bvars

-----------------------------------------------------------------------------
\* Nothing happened to c that the code does not handle, except that a commit may
\* have been answered while another of its statements read.
Clean(c) == con[c].status = "ok" /\ cl[c].odd \subseteq {"reading"}

\* A transaction sees exactly what its statements wrote, less what its
\* savepoints and failed statements took back.
KeepsItsWrites == \A c \in Conns : Clean(c) => Sees(c) = Apply(cl[c].want, db)

\* The rows a transaction has read stay committed until it ends: nobody's update
\* is lost.  (A table renamed away may go, which is not done in a transaction.)
ReadsHold ==
  \A c \in Conns : Clean(c) =>
    \A t \in DOMAIN cl[c].seen : db[t].val = cl[c].seen[t].val

\* sqlite3BtreeSavepoint tells from p->nSavepoint whether a savepoint has a
\* transaction: if so, it began when the savepoint was made; if not, nothing
\* was written since, and nothing is being written.
SavepointsHaveTxns ==
  \A c \in Conns : Clean(c) =>
    /\ Len(con[c].levels) = IF con[c].levels = <<>> THEN 0 ELSE con[c].nSavepoint + 1
    /\ \A k \in 1..Len(cl[c].marks) :
         IF k + 1 <= con[c].nSavepoint
         THEN Apply(con[c].levels[k + 2], db) = Apply(cl[c].marks[k], db)
         ELSE cl[c].marks[k] = cl[c].want /\ ~cl[c].writing

\* Each table the commit will remove has been renamed away by then.
DeletedExist ==
  \A c \in Conns : Clean(c) => \A t \in ListedTables(c) : Sees(c)[t].old

\* The mode the connection thinks its schema lock has is that of a lock.
SchemaLockHeld ==
  \A c \in Conns : con[c].status = "ok" =>
    /\ con[c].schema.mode = "write" => Master \in WriteLocked(c)
    /\ con[c].schema.mode = "read" => Master \in WriteLocked(c) \cup con[c].rd

\* Between two transactions, however the last one ended, no table is locked, and if
\* nothing happened that the code does not handle nothing of it is left.
BdbNothingLeftOver ==
  \A c \in Conns : con[c].status = "ok" /\ Idle(c) =>
    /\ con[c].dirty = NoWrites /\ con[c].rd = {}
    /\ Clean(c) => con[c] = IdleBtree

ValsOf(d) == [t \in Tables |-> d[t].val]

\* The call that ends the last statement of c ends its transaction with a commit.
LastCommit(c) == Idle(c)' /\ (EndRead(c) \/ EndWrite(c) \/ CommitTx(c))

\* Then all that c was told is committed is in the file, whole: what this
\* transaction wrote and what was answered while the statement still read.
CommitIsDurable ==
  [][\A c \in Conns : Clean(c) /\ con[c].dead = {} /\ LastCommit(c) =>
       ValsOf(db') = ValsOf(Apply(cl[c].want, db))]_bvars

Acknowledges(c) == (EndWrite(c) /\ cl[c].auto) \/ CommitTx(c)

\* sqlite3BtreeCommitPhaseTwo: "Commit the transaction currently in progress.  [...]
\* This will release the write lock on the database file."
CommitReleasesLocks ==
  [][\A c \in Conns : Clean(c) /\ Acknowledges(c) /\ cl'[c].auto =>
       WriteLocked(c)' = {}]_bvars

\* "if/when this transaction commits, do a non-transactional remove of the old
\* table": no table renamed away outlives the commit.
DroppedIsRemoved ==
  [][\A c \in Conns : Acknowledges(c) =>
       \A t \in Tables : db'[t].old => db[t].old]_bvars

\* "pReadTxn is only NULL if the read txn is being aborted": pSavepointTxn is
\* set to a live transaction whenever the one it names ends.
NoDanglingSavepoint == \A c \in Conns : ~con[c].dangling

=============================================================================
