------------------------------- MODULE BdbEnv -------------------------------
(***************************************************************************)
(* How the connections of several processes open and close one database   *)
(* file in not-fork.d/bdb/files/btree.c: the BtShared that the connections *)
(* of a process share and count, the environment directory that belongs to *)
(* the file, the mutex that guards opening, and what one connection that   *)
(* opens, fails or dies half way leaves for the others.                    *)
(*                                                                         *)
(* sqlite3BtreeOpen only prepares the environment; btreeOpenEnvironment    *)
(* opens it, from the first sqlite3BtreeBeginTrans of a connection, or at  *)
(* once if another connection of the process has the file open.  It is     *)
(* split here where another process, or a thread that does not need the    *)
(* open mutex, can come in between.                                        *)
(*                                                                         *)
(* Transactions, locks on tables and cursors are in BdbTxn and BdbCursor;  *)
(* here a transaction only changes the schema cookie.                      *)
(***************************************************************************)
EXTENDS Integers, FiniteSets

CONSTANTS
  Procs,      \* processes
  Conns,      \* connections (struct Btree)
  ProcOf,     \* the process of each
  Nobody,     \* no connection
  MaxCookie,  \* largest schema cookie
  MaxFaults,  \* opens of the environment that may fail
  Mishaps     \* what the code does not handle and happens anyway

\*  "overlap"      a process opens a file that another one is setting up
\*  "resetLost"    an open fails, or its process dies, between making the directory
\*                 and the reset of the LSNs
\*  "removeEarly"  the directory is removed while a process has a handle
\*  "setupFails"   the metadata of a file without tables cannot be opened
\*  "metaFails"    a second connection fails to read the metadata
\*  "familyFails"  the family transaction of sqlite3BtreeBeginTrans cannot be begun
AllMishaps == {"overlap", "resetLost", "removeEarly", "setupFails", "metaFails",
               "familyFails"}

ASSUME BdbEnvAssumption ==
  /\ IsFiniteSet(Conns) /\ ProcOf \in [Conns -> Procs] /\ Nobody \notin Conns
  /\ MaxCookie \in Nat /\ MaxFaults \in Nat
  /\ Mishaps \subseteq AllMishaps

VARIABLES
  file,    \* the database file
  dir,     \* is there an environment directory beside it?
  cookie,  \* the committed schema cookie
  bt,      \* the BtShared of each process
  btree,   \* the connections
  mutex,   \* holder of each process's open mutex
  faults   \* opens that have failed

evars == <<file, dir, cookie, bt, btree, mutex, faults>>

Cookies == 0..MaxCookie
NoCookie == -1
MasterRoot == 1

\* own: the LSNs on its pages belong to the environment.
Files == [made : BOOLEAN, tables : SUBSET {1, 3}, own : BOOLEAN]

\* existed: database_existed.  reset: lsn_reset.  meta: pMetaDb and pTablesDb are
\* open.  cached: the schema cookie in meta[].
BtShareds ==
  [nRef : 0..Cardinality(Conns), existed : BOOLEAN, opened : BOOLEAN, reset : BOOLEAN,
   panic : BOOLEAN, meta : BOOLEAN, cached : Cookies \cup {NoCookie}]

NoBtShared ==
  [nRef |-> 0, existed |-> FALSE, opened |-> FALSE, reset |-> FALSE, panic |-> FALSE,
   meta |-> FALSE, cached |-> NoCookie]

Opening == {"enter", "mkdir", "open", "reset", "meta", "last", "create", "begin"}

\* pc: where the connection is in btreeOpenEnvironment or sqlite3BtreeClose.
\* caller: who called it, "OPEN" with the open mutex held, or BeginTrans with
\* the mode it asked for.  fresh: newEnv.  next: the table to create.  mine: the
\* schema cookie it has written and not committed.
Btrees ==
  [pc : Opening \cup {"closed", "idle", "closing"},
   caller : {"OPEN", "READ", "WRITE"}, connected : BOOLEAN,
   inTrans : {"NONE", "READ", "WRITE"}, txn : BOOLEAN, family : BOOLEAN,
   fresh : BOOLEAN, next : {1, 3}, mine : Cookies \cup {NoCookie}]

NewBtree ==
  [pc |-> "closed", caller |-> "OPEN", connected |-> FALSE, inTrans |-> "NONE",
   txn |-> FALSE, family |-> FALSE, fresh |-> FALSE, next |-> 1, mine |-> NoCookie]

BdbEnvTypeOK ==
  /\ file \in Files /\ dir \in BOOLEAN /\ cookie \in Cookies
  /\ bt \in [Procs -> BtShareds] /\ btree \in [Conns -> Btrees]
  /\ mutex \in [Procs -> Conns \cup {Nobody}] /\ faults \in 0..MaxFaults

BdbEnvInit ==
  /\ file = [made |-> FALSE, tables |-> {}, own |-> TRUE] /\ dir = FALSE
  /\ cookie = 0 /\ faults = 0
  /\ bt = [p \in Procs |-> NoBtShared]
  /\ btree = [c \in Conns |-> NewBtree]
  /\ mutex = [p \in Procs |-> Nobody]

-----------------------------------------------------------------------------
Shared(c) == bt[ProcOf[c]]

SetShared(c, b) == bt' = [bt EXCEPT ![ProcOf[c]] = b]

SetBtree(c, r) == btree' = [btree EXCEPT ![c] = r]

Free(c) == mutex[ProcOf[c]] = Nobody

Take(c) == mutex' = [mutex EXCEPT ![ProcOf[c]] = c]

HasMutex(c) == mutex[ProcOf[c]] = c

\* The mutex is left if this connection holds it.
Leave(c) == mutex' = [mutex EXCEPT ![ProcOf[c]] = IF @ = c THEN Nobody ELSE @]

Idle(c) == btree[c].pc = "idle"

\* Somebody has written the metadata and not committed it.
WritersBut(c) == {d \in Conns \ {c} : btree[d].mine # NoCookie}

\* Another process is setting the file up: it has a reset before it, or makes
\* the first table.
SettingUp(p) ==
  \E d \in Conns : /\ ProcOf[d] # p /\ btree[d].pc \in Opening \ {"enter", "mkdir"}
                   /\ bt[ProcOf[d]].reset \/ MasterRoot \notin file.tables

MayLoseReset(p) == bt[p].reset => "resetLost" \in Mishaps

-----------------------------------------------------------------------------
\* sqlite3BtreeOpen of a file no connection of the process has open:
\* btreeBtSharedCreate and btreePrepareEnvironment.
BtreeOpenFirst(c) ==
  /\ btree[c].pc = "closed" /\ Free(c) /\ Shared(c).nRef = 0
  /\ SetShared(c, [NoBtShared EXCEPT !.nRef = 1, !.existed = file.made])
  /\ SetBtree(c, [NewBtree EXCEPT !.pc = "idle"])
  /\ UNCHANGED <<file, dir, cookie, mutex, faults>>

\* sqlite3BtreeOpen of one that some connection has: btreeBtSharedGet, then
\* btreeOpenEnvironment with the mutex held.
BtreeOpenAgain(c) ==
  /\ btree[c].pc = "closed" /\ Free(c) /\ Shared(c).nRef > 0
  /\ SetShared(c, [Shared(c) EXCEPT !.nRef = @ + 1])
  /\ SetBtree(c, [NewBtree EXCEPT !.pc = "mkdir"])
  /\ Take(c)
  /\ UNCHANGED <<file, dir, cookie, faults>>

\* sqlite3BtreeBeginTrans, which also goes on when btreeOpenEnvironment has
\* returned: inTrans is set, and BeginStmt begins the main transaction.
Begun(r) ==
  [r EXCEPT !.inTrans = IF r.caller = "WRITE" THEN "WRITE"
                        ELSE IF @ = "NONE" THEN "READ" ELSE @,
            !.txn = TRUE, !.caller = "OPEN"]

BeginTrans(c, mode) ==
  LET r == [btree[c] EXCEPT !.caller = mode]
  IN /\ Idle(c) /\ ~Shared(c).panic
     /\ ~r.txn \/ (mode = "WRITE" /\ r.inTrans # "WRITE")
     /\ SetBtree(c, IF r.connected THEN Begun(r)
                    ELSE [r EXCEPT !.pc = "enter",
                                   !.inTrans = IF mode = "WRITE" \/ @ = "WRITE"
                                               THEN "WRITE" ELSE "READ"])
     /\ UNCHANGED <<file, dir, cookie, bt, mutex, faults>>

-----------------------------------------------------------------------------
\* btreeOpenEnvironment.
Enter(c) ==
  /\ btree[c].pc = "enter" /\ Free(c)
  /\ Take(c)
  /\ SetBtree(c, [btree[c] EXCEPT !.pc = "mkdir"])
  /\ UNCHANGED <<file, dir, cookie, bt, faults>>

\* Mutant of NeedsReset: the directory is looked for after it was made.
NeedsResetAfter(c) == FALSE

\* btreeCheckEnvOpen: the file was there and the directory was not.
NeedsReset(c) == ~dir /\ Shared(c).existed

\* Mutant of AfterOpen: it is dropped by who has opened the environment, too.
AfterOpenLeft(c, new) == IF btree[c].caller = "OPEN" THEN UNCHANGED mutex ELSE Leave(c)

\* A connection that finds the environment open drops the mutex, which is not
\* its own when it was called from sqlite3BtreeOpen.
AfterOpen(c, new) ==
  IF new \/ btree[c].caller = "OPEN" THEN UNCHANGED mutex ELSE Leave(c)

JoinEnvironment(c) ==
  /\ btree[c].pc = "mkdir" /\ Shared(c).opened
  /\ SetBtree(c, [btree[c] EXCEPT !.pc = "reset", !.connected = TRUE, !.fresh = FALSE])
  /\ AfterOpen(c, FALSE)
  /\ UNCHANGED <<file, dir, cookie, bt, faults>>

MakeDirectory(c) ==
  /\ btree[c].pc = "mkdir" /\ ~Shared(c).opened
  /\ SettingUp(ProcOf[c]) => "overlap" \in Mishaps
  /\ dir' = TRUE
  /\ SetShared(c, [Shared(c) EXCEPT !.reset = @ \/ NeedsReset(c)])
  /\ SetBtree(c, [btree[c] EXCEPT !.pc = "open"])
  /\ UNCHANGED <<file, cookie, mutex, faults>>

\* DB_ENV->open.
OpenEnvironment(c) ==
  /\ btree[c].pc = "open"
  /\ SetShared(c, [Shared(c) EXCEPT !.opened = TRUE])
  /\ SetBtree(c, [btree[c] EXCEPT !.pc = "reset", !.connected = TRUE, !.fresh = TRUE])
  /\ AfterOpen(c, TRUE)
  /\ UNCHANGED <<file, dir, cookie, faults>>

\* Mutant of Failed: sqlite3BtreeOpen does not give its reference back.
FailedCounted(c, b) ==
  /\ SetShared(c, [b EXCEPT !.panic = TRUE])
  /\ SetBtree(c, IF btree[c].caller = "OPEN" THEN NewBtree
                 ELSE [btree[c] EXCEPT !.pc = "idle", !.connected = FALSE,
                                       !.caller = "OPEN", !.fresh = FALSE])
  /\ Leave(c)
  /\ UNCHANGED <<dir, cookie>>

\* Mutant of Failed: a return where "goto err" should be.
FailedHolding(c, b) ==
  /\ SetShared(c, b)
  /\ SetBtree(c, [btree[c] EXCEPT !.pc = "idle", !.caller = "OPEN"])
  /\ UNCHANGED <<dir, cookie, mutex>>

\* The error path: the BtShared is unusable until some connection rolls back;
\* sqlite3BtreeOpen gives its reference back.
Failed(c, b) ==
  LET again == btree[c].caller = "OPEN"
  IN /\ SetShared(c, [b EXCEPT !.panic = TRUE, !.nRef = IF again THEN @ - 1 ELSE @])
     /\ SetBtree(c, IF again THEN NewBtree
                    ELSE [btree[c] EXCEPT !.pc = "idle", !.connected = FALSE,
                                           !.caller = "OPEN", !.fresh = FALSE])
     /\ Leave(c)
     /\ UNCHANGED <<dir, cookie>>

\* The handle is tried again later; lsn_reset stays.
OpenFails(c) ==
  /\ btree[c].pc = "open" /\ faults < MaxFaults /\ MayLoseReset(ProcOf[c])
  /\ Failed(c, Shared(c)) /\ faults' = faults + 1
  /\ UNCHANGED file

\* btreeOpenMetaTables.  The LSNs are reset before the first table is opened.
ResetLsns(c) ==
  LET b == Shared(c)
  IN /\ btree[c].pc = "reset"
     /\ file' = [file EXCEPT !.own = @ \/ b.reset]
     /\ SetShared(c, [b EXCEPT !.reset = FALSE])
     /\ SetBtree(c, [btree[c] EXCEPT !.pc = "meta"])
     /\ UNCHANGED <<dir, cookie, mutex, faults>>

\* The values in meta[] are written to the file, whoever put them there, and
\* some are read: both wait for a writer.  A process that had not opened the
\* metadata creates the database if there are no tables.
OpenMetaTables(c) ==
  LET b == Shared(c)
  IN /\ btree[c].pc = "meta" /\ WritersBut(c) = {}
     /\ file' = [file EXCEPT !.made = TRUE]
     /\ cookie' = IF b.cached = NoCookie THEN cookie ELSE b.cached
     /\ SetShared(c, [b EXCEPT !.meta = TRUE])
     /\ SetBtree(c, [btree[c] EXCEPT
                       !.pc = IF ~b.meta /\ file.tables = {} THEN "last" ELSE "begin"])
     /\ UNCHANGED <<dir, mutex, faults>>

\* The handles are closed whoever opened them.
OpenMetaFails(c) ==
  /\ btree[c].pc = "meta" /\ faults < MaxFaults
  /\ Shared(c).meta => "metaFails" \in Mishaps
  /\ MasterRoot \notin file.tables => "setupFails" \in Mishaps
  /\ Failed(c, [Shared(c) EXCEPT !.meta = FALSE]) /\ faults' = faults + 1
  /\ UNCHANGED file

\* btreeCreateTable: the number follows the last table's.
LastTable(c) ==
  /\ btree[c].pc = "last"
  /\ SetBtree(c, [btree[c] EXCEPT !.pc = "create",
                                  !.next = IF file.tables = {} THEN MasterRoot ELSE 3])
  /\ UNCHANGED <<file, dir, cookie, bt, mutex, faults>>

CreateTable(c) ==
  /\ btree[c].pc = "create"
  /\ file' = [file EXCEPT !.tables = @ \cup {btree[c].next}]
  /\ SetBtree(c, [btree[c] EXCEPT !.pc = "begin", !.next = MasterRoot])
  /\ UNCHANGED <<dir, cookie, bt, mutex, faults>>

\* Mutant of Started: the connection is not given a family.
StartedAlone(c) ==
  LET r == [btree[c] EXCEPT !.pc = "idle", !.inTrans = "NONE", !.fresh = FALSE]
  IN IF r.caller = "OPEN" THEN r ELSE Begun(r)

\* The family transaction; then a transaction if the caller asked for one, or
\* this process has just opened the environment: that one writes.
Started(c) ==
  LET new == btree[c].fresh
      r == [btree[c] EXCEPT !.pc = "idle", !.family = TRUE, !.inTrans = "NONE",
                            !.fresh = FALSE]
  IN IF new \/ btree[c].inTrans = "WRITE" THEN Begun([r EXCEPT !.caller = "WRITE"])
     ELSE IF r.caller = "OPEN" THEN r ELSE Begun(r)

FinishOpen(c) ==
  /\ btree[c].pc = "begin"
  /\ SetBtree(c, Started(c)) /\ Leave(c)
  /\ UNCHANGED <<file, dir, cookie, bt, faults>>

\* The function returns where it is: only sqlite3BtreeOpen leaves the mutex.
FamilyFails(c) ==
  LET again == btree[c].caller = "OPEN"
  IN /\ btree[c].pc = "begin" /\ faults < MaxFaults
     /\ again \/ "familyFails" \in Mishaps
     /\ SetShared(c, [Shared(c) EXCEPT !.nRef = IF again THEN @ - 1 ELSE @])
     /\ SetBtree(c, IF again THEN NewBtree
                    ELSE [btree[c] EXCEPT !.pc = "idle", !.inTrans = "NONE"])
     /\ IF again THEN Leave(c) ELSE UNCHANGED mutex
     /\ faults' = faults + 1
     /\ UNCHANGED <<file, dir, cookie>>

-----------------------------------------------------------------------------
Active(c) == Idle(c) /\ btree[c].connected /\ btree[c].txn

\* sqlite3BtreeUpdateMeta: meta[] is set at once, the table with the commit.
UpdateMeta(c) ==
  LET r == btree[c]
      new == (IF r.mine = NoCookie THEN cookie ELSE r.mine) + 1
  IN /\ Active(c) /\ r.inTrans = "WRITE" /\ WritersBut(c) = {} /\ new \in Cookies
     /\ SetBtree(c, [r EXCEPT !.mine = new])
     /\ SetShared(c, [Shared(c) EXCEPT !.cached = new])
     /\ UNCHANGED <<file, dir, cookie, mutex, faults>>

\* sqlite3BtreeGetMeta of a connection reads the table, and fills meta[].
GetMeta(c) ==
  LET now == IF btree[c].mine = NoCookie THEN cookie ELSE btree[c].mine
  IN /\ Active(c) /\ WritersBut(c) = {}
     /\ SetShared(c, [Shared(c) EXCEPT !.cached = now])
     /\ UNCHANGED <<file, dir, cookie, btree, mutex, faults>>

Ended(r) == [r EXCEPT !.txn = FALSE, !.inTrans = "NONE", !.mine = NoCookie]

Commit(c) ==
  /\ Active(c)
  /\ cookie' = IF btree[c].mine = NoCookie THEN cookie ELSE btree[c].mine
  /\ SetBtree(c, Ended(btree[c]))
  /\ UNCHANGED <<file, dir, bt, mutex, faults>>

\* sqlite3BtreeRollback: of a connection without a transaction too, which makes
\* the BtShared usable again.
Rollback(c) ==
  /\ Idle(c) /\ (btree[c].txn \/ Shared(c).panic)
  /\ SetShared(c, [Shared(c) EXCEPT !.panic = FALSE])
  /\ SetBtree(c, IF btree[c].txn THEN Ended(btree[c]) ELSE btree[c])
  /\ UNCHANGED <<file, dir, cookie, mutex, faults>>

-----------------------------------------------------------------------------
\* sqlite3BtreeClose: first its transactions, then under the mutex its
\* reference, with the last of which everything is closed.
BtreeClose(c) ==
  /\ Idle(c)
  /\ SetBtree(c, [Ended(btree[c]) EXCEPT !.pc = "closing", !.family = FALSE])
  /\ SetShared(c, [Shared(c) EXCEPT !.panic = @ /\ ~btree[c].txn])
  /\ UNCHANGED <<file, dir, cookie, mutex, faults>>

\* Mutant of Unreferenced: an equal sign too few in "--pBt->nRef == 0".
UnreferencedKept(b) == [b EXCEPT !.nRef = IF b.nRef = 1 THEN 0 ELSE @]

Unreferenced(b) == IF b.nRef = 1 THEN NoBtShared ELSE [b EXCEPT !.nRef = @ - 1]

FinishClose(c) ==
  /\ btree[c].pc = "closing" /\ Free(c)
  /\ SetBtree(c, NewBtree)
  /\ SetShared(c, Unreferenced(Shared(c)))
  /\ UNCHANGED <<file, dir, cookie, mutex, faults>>

\* A process dies; recovery by the next one to open the environment undoes
\* what it had not committed.
Crash(p) ==
  /\ bt[p].nRef > 0 /\ MayLoseReset(p)
  /\ bt' = [bt EXCEPT ![p] = NoBtShared]
  /\ btree' = [c \in Conns |-> IF ProcOf[c] = p THEN NewBtree ELSE btree[c]]
  /\ mutex' = [mutex EXCEPT ![p] = Nobody]
  /\ UNCHANGED <<file, dir, cookie, faults>>

\* The file is moved without its directory, or that is removed.
RemoveDirectory ==
  /\ dir
  /\ IF "removeEarly" \in Mishaps
     THEN \A p \in Procs : ~bt[p].opened /\ \A c \in Conns : btree[c].pc \notin Opening
     ELSE \A p \in Procs : bt[p].nRef = 0
  /\ dir' = FALSE /\ file' = [file EXCEPT !.own = ~file.made]
  /\ UNCHANGED <<cookie, bt, btree, mutex, faults>>

-----------------------------------------------------------------------------
OpenStep(c) ==
  \/ Enter(c) \/ JoinEnvironment(c) \/ MakeDirectory(c) \/ OpenEnvironment(c)
  \/ ResetLsns(c) \/ OpenMetaTables(c) \/ LastTable(c) \/ CreateTable(c)
  \/ FinishOpen(c)

FailStep(c) == OpenFails(c) \/ OpenMetaFails(c) \/ FamilyFails(c)

CallStep(c) ==
  \/ BtreeOpenFirst(c) \/ BtreeOpenAgain(c)
  \/ \E mode \in {"READ", "WRITE"} : BeginTrans(c, mode)
  \/ UpdateMeta(c) \/ GetMeta(c) \/ Commit(c) \/ Rollback(c) \/ BtreeClose(c)

BdbEnvNext ==
  \/ \E c \in Conns : OpenStep(c) \/ FailStep(c) \/ CallStep(c) \/ FinishClose(c)
  \/ \E p \in Procs : Crash(p)
  \/ RemoveDirectory

BdbEnvSpec == BdbEnvInit /\ [][BdbEnvNext]_evars

-----------------------------------------------------------------------------
Of(p) == {c \in Conns : ProcOf[c] = p}

\* nRef counts the connections of the process, through opens that fail and
\* closes: the BtShared is freed with the last one and never before.
RefsCounted ==
  \A p \in Procs : bt[p].nRef = Cardinality({c \in Of(p) : btree[c].pc # "closed"})

\* "These operations must be protected by the open mutex": who makes the
\* directory and opens the environment holds the mutex of its process, and
\* nobody keeps it when the call returns.
MutexFollows ==
  /\ \A p \in Procs : mutex[p] # Nobody =>
       ProcOf[mutex[p]] = p /\ btree[mutex[p]].pc \in Opening \ {"enter"}
  /\ \A c \in Conns : btree[c].pc \in {"mkdir", "open"} => HasMutex(c)

\* No page is used whose LSNs belong to an environment that is gone.
LsnsReset ==
  \A c \in Conns :
    btree[c].pc \in {"last", "create", "begin"} \/ Active(c) => file.own

\* assert(iTable == MASTER_ROOT): the table of the schema is made once, and is
\* there for every connection.
MasterOnce ==
  /\ file.tables \subseteq {MasterRoot}
  /\ \A c \in Conns : Active(c) => MasterRoot \in file.tables

\* A connection that has a transaction has an open environment, the handles of
\* the metadata and a family, whatever happened to others of its process.
Equipped ==
  \A c \in Conns : Active(c) => Shared(c).opened /\ Shared(c).meta /\ btree[c].family

\* "Once connected to a shared environment, don't trust the cache": the schema
\* cookie in the file changes by commits only.
CookieMovesByCommit == [][cookie' # cookie => \E c \in Conns : Commit(c)]_evars

\* "Some other thread may be holding a schema lock and be waiting for the open
\* mutex, which would lead to a latch deadlock": nobody waits with the mutex for
\* a connection of its own process.
WaitsFor(c, d) ==
  /\ btree[c].pc = "meta" /\ HasMutex(c)
  /\ d \in WritersBut(c) /\ ProcOf[d] = ProcOf[c]

NoLatchWait == \A c, d \in Conns : ~WaitsFor(c, d)

=============================================================================
