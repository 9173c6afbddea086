--------------------------- MODULE LmdbTxnProofs ---------------------------
(***************************************************************************)
(* What a connection may rely on inside its transaction, for any number of *)
(* connections, tables, rows and savepoints: CreateTable finds a page      *)
(* nobody uses (Rooted), a connection that believes to be in a transaction *)
(* has one and nothing of it is left when it is over (Whole), it sees      *)
(* exactly what it wrote and did not roll back (Nested), and its commit    *)
(* publishes that and moves the commit counter.  Together they show that   *)
(* the backend implements TxnStore.                                        *)
(***************************************************************************)
EXTENDS LmdbBtreeProofs

-----------------------------------------------------------------------------
\* BTREE_LARGEST_ROOT_PAGE bounds the tables there are.
Rooted(d) == \A r \in d.tabs : r = 1 \/ r <= d.largest

LevelsRooted(c) ==
  \A i \in 1..Len(bt[c].svp) : Rooted(bt[c].svp[i].view.data)

RootInv == Rooted(db.data) /\ \A c \in Conns : LevelsRooted(c)

RootStep(c) == Rooted(db'.data) /\ LevelsRooted(c)'

\* A page NextRoot picks is above every table.
LEMMA NextRootFresh ==
  ASSUME NEW d \in DataSet, Rooted(d)
  PROVE  NextRoot(d) \notin d.tabs
<1>1. d.largest \in Int /\ \A r \in d.tabs : r \in Int
  BY EnvAssumption DEF DataSet, Roots
<1> DEFINE n == d.largest
<1> HIDE DEF n
<1>2. n \in Int /\ \A r \in d.tabs : r \in Int /\ (r = 1 \/ r <= n)
  BY <1>1 DEF Rooted, n
<1>3. NextRoot(d) = IF n < 2 THEN 3 ELSE n + 1
  BY DEF NextRoot, n
<1> QED BY <1>2, <1>3

\* The writes keep the bound.
LEMMA RootedKept ==
  ASSUME NEW d \in DataSet, Rooted(d), NEW r \in Roots
  PROVE  /\ \A k \in Keys, x \in Vals \cup {NoVal} : Rooted(MdbPut(d, r, k, x))
         /\ NextRoot(d) <= MaxRoot => Rooted(WithNewTable(d))
         /\ Rooted(Dropped(d, r)) /\ Rooted(MdbEmpty(d, r))
         /\ \A x \in SchemaVals : Rooted([d EXCEPT !.schema = x])
         /\ Rooted(MdbCreate(d, 1))
<1>1. ASSUME NEW k \in Keys, NEW x \in Vals \cup {NoVal}
      PROVE  Rooted(MdbPut(d, r, k, x))
  BY DEF Rooted, MdbPut, DataSet
<1>2. Rooted(WithNewTable(d))
  <2> DEFINE p == NextRoot(d)
             e == WithNewTable(d)
  <2>1. e.tabs = d.tabs \cup {p} /\ e.largest = p
    BY DEF WithNewTable, MdbCreate, DataSet
  <2>2. d.largest \in Int /\ \A q \in d.tabs : q \in Int
    BY EnvAssumption DEF DataSet, Roots
  <2>3. p >= d.largest /\ p \in Int
    BY <2>2 DEF NextRoot
  <2> HIDE DEF p, e
  <2>4. \A q \in d.tabs : q = 1 \/ q <= p
    BY <2>2, <2>3 DEF Rooted
  <2>5. Rooted(e)
    BY <2>1, <2>3, <2>4 DEF Rooted
  <2> QED BY <2>5 DEF e
<1>3. Rooted(MdbEmpty(d, r)) /\ Rooted(MdbDelete(d, r)) /\ Rooted(MdbCreate(d, 1))
  BY DEF Rooted, MdbEmpty, MdbDelete, MdbCreate, DataSet
<1>4. Rooted(Dropped(d, r))
  BY <1>3 DEF Dropped
<1>5. \A x \in SchemaVals : Rooted([d EXCEPT !.schema = x])
  BY DEF Rooted, DataSet
<1> QED BY <1>1, <1>2, <1>3, <1>4, <1>5

\* Every write is a WriteTop of data that keep the bound.
LEMMA WriteKeepsRooted ==
  ASSUME TypeOK, NEW c \in Conns, Write(c), Rooted(Top(c).view.data)
  PROVE  \E d \in DataSet : Rooted(d) /\ \E w \in DataSet : WriteTop(c, d, w)
<1> DEFINE Goal == \E d \in DataSet :
                     Rooted(d) /\ \E w \in DataSet : WriteTop(c, d, w)
           v == Top(c).view.data
           w == cl[c].want
<1>1. bt[c].svp # <<>>
  BY WriteIsWriteTop DEF InTxn, Dangling
<1>2. v \in DataSet /\ w \in DataSet /\ Rooted(v)
  BY <1>1, TopType DEF TypeOK, Clients
<1>3. 1 \in Roots
  BY DEF Roots
<1>4. ASSUME NEW r \in Roots, NEW k \in Keys, NEW x \in Vals \cup {NoVal},
             WriteRow(c, r, k, x)
      PROVE  Goal
  <2>1. WriteTop(c, MdbPut(v, r, k, x), MdbPut(w, r, k, x))
    BY <1>4 DEF WriteRow
  <2> QED BY <1>2, <2>1, PutType, RootedKept
<1>5. ASSUME CreateTable(c) PROVE Goal
  <2>1. /\ WriteTop(c, WithNewTable(v), WithNewTable(w))
        /\ NextRoot(v) <= MaxRoot /\ NextRoot(w) <= MaxRoot
    BY <1>5 DEF CreateTable
  <2> QED BY <1>2, <1>3, <2>1, NewTableType, RootedKept
<1>6. ASSUME NEW r \in Roots, DropTable(c, r) PROVE Goal
  <2>1. WriteTop(c, Dropped(v, r), Dropped(w, r))
    BY <1>6 DEF DropTable
  <2>2. Dropped(v, r) \in DataSet /\ Dropped(w, r) \in DataSet
    BY <1>2, EmptyType DEF Dropped
  <2> QED BY <1>2, <2>1, <2>2, RootedKept
<1>7. ASSUME NEW r \in Roots, ClearTable(c, r) PROVE Goal
  <2>1. WriteTop(c, MdbEmpty(v, r), MdbEmpty(w, r))
    BY <1>7 DEF ClearTable
  <2> QED BY <1>2, <2>1, EmptyType, RootedKept
<1>8. ASSUME NEW x \in SchemaVals, UpdateMeta(c, x) PROVE Goal
  <2>1. WriteTop(c, [v EXCEPT !.schema = x], [w EXCEPT !.schema = x])
    BY <1>8 DEF UpdateMeta
  <2>2. [v EXCEPT !.schema = x] \in DataSet /\ [w EXCEPT !.schema = x] \in DataSet
    BY <1>2 DEF DataSet
  <2> QED BY <1>2, <1>3, <2>1, <2>2, RootedKept
<1> QED BY <1>4, <1>5, <1>6, <1>7, <1>8 DEF Write

-----------------------------------------------------------------------------
\* A stack of at most one level, whose data keep the bound.
LEMMA OneLevelRooted ==
  ASSUME NEW c \in Conns, NEW e, Rooted(e.view.data),
         bt'[c].svp = <<>> \/ bt'[c].svp = <<e>>
  PROVE  LevelsRooted(c)'
<1>1. CASE bt'[c].svp = <<>>
  BY <1>1 DEF LevelsRooted
<1>2. CASE bt'[c].svp = <<e>>
  <2>1. Len(bt'[c].svp) = 1 /\ bt'[c].svp[1] = e
    BY <1>2
  <2> HIDE <1>2
  <2>2. \A i \in 1..1 : i = 1
    OBVIOUS
  <2> QED BY <2>1, <2>2 DEF LevelsRooted
<1> QED BY <1>1, <1>2

LEMMA LifeRoot ==
  ASSUME TypeOK, RootInv, NEW c \in Conns,
         BtreeOpen(c) \/ BtreeClose(c) \/ Crash(c) \/ UseDangling(c) \/ Restart(c)
  PROVE  RootStep(c)
<1>1. CASE BtreeOpen(c)
  <2>1. bt'[c].svp = bt[c].svp
    BY <1>1 DEF BtreeOpen, TypeOK, Btrees
  <2>2. db.data \in DataSet /\ 1 \in Roots /\ Rooted(db.data)
    BY DEF TypeOK, View, Roots, RootInv
  <2>3. Rooted(db'.data)
    <3>1. UNCHANGED db \/ db' = [db EXCEPT !.data = MdbCreate(db.data, 1)]
      BY <1>1 DEF BtreeOpen
    <3>2. Rooted(MdbCreate(db.data, 1))
      BY <2>2, RootedKept
    <3> QED BY <2>2, <3>1, <3>2 DEF TypeOK, View
  <2> QED BY <2>1, <2>3 DEF RootStep, RootInv, LevelsRooted
<1>2. CASE BtreeClose(c) \/ Crash(c) \/ UseDangling(c) \/ Restart(c)
  <2>1. UNCHANGED db /\ (bt'[c].svp = <<>> \/ bt'[c].svp = bt[c].svp)
    BY <1>2 DEF BtreeClose, Crash, UseDangling, Wreck, Restart, ClosedBtree, TypeOK, Btrees
  <2> QED BY <2>1 DEF RootStep, RootInv, LevelsRooted
<1> QED BY <1>1, <1>2

LEMMA BeginRoot ==
  ASSUME TypeOK, LockInv, RootInv, NEW c \in Conns,
         BeginTrans(c) \/ UpgradeGranted(c) \/ UpgradeFails(c)
  PROVE  RootStep(c)
<1>1. CASE \/ \E wrFlag \in BOOLEAN : BeginTransAnswered(c, wrFlag)
           \/ UpgradeRefused(c) \/ BeginTransFails(c) \/ BeginTransSerialised(c)
  <2>1. UNCHANGED db /\ bt'[c].svp = bt[c].svp
    BY <1>1
       DEF BeginTransAnswered, UpgradeRefused, BeginTransFails, BeginTransSerialised,
           vars, TypeOK, Btrees
  <2> QED BY <2>1 DEF RootStep, RootInv, LevelsRooted
<1>2. ASSUME NEW wrFlag \in BOOLEAN, BeginTransNew(c, wrFlag)
      PROVE  RootStep(c)
  <2> DEFINE e == MainTxn(wrFlag \/ (bt[c].transType = "serialise" /\ c \notin ReadonlyConns))
  <2>1. UNCHANGED db /\ bt'[c].svp = <<e>>
    BY <1>2 DEF BeginTransNew, TypeOK, Btrees
  <2>2. Rooted(e.view.data) /\ Rooted(db.data)
    BY DEF MainTxn, RootInv
  <2> HIDE DEF e
  <2> QED BY <2>1, <2>2, OneLevelRooted DEF RootStep
<1>3. CASE UpgradeStart(c)
  <2> DEFINE s == bt[c].svp
             e == [s[1] EXCEPT !.live = FALSE]
             t == [s EXCEPT ![1].live = FALSE]
  <2>1. s \in Seq(Savepoints) /\ 1 \in 1..Len(s)
    BY <1>3, InTxnStack DEF UpgradeStart
  <2>2. UNCHANGED db /\ bt'[c].svp = t
    BY <1>3 DEF UpgradeStart, TypeOK, Btrees
  <2>3. t = [s EXCEPT ![1] = e]
    OBVIOUS
  <2>4. e \in Savepoints /\ e.view = s[1].view
    <3>1. s[1] \in Savepoints
      BY <2>1, ElementOfSeq
    <3> QED BY <3>1 DEF Savepoints
  <2> HIDE DEF e, t
  <2>5. Len(t) = Len(s) /\ \A i \in 1..Len(s) : t[i] = IF i = 1 THEN e ELSE s[i]
    BY <2>1, <2>3, <2>4, ExceptSeq
  <2>6. \A i \in 1..Len(s) : t[i].view = s[i].view
    BY <2>4, <2>5
  <2> QED BY <2>2, <2>5, <2>6 DEF RootStep, RootInv, LevelsRooted
<1>4. CASE UpgradeGranted(c)
  <2> DEFINE s == bt[c].svp
             e == MainTxn(TRUE)
             t == [s EXCEPT ![1] = e]
  <2>1. s \in Seq(Savepoints) /\ 1 \in 1..Len(s) /\ e \in Savepoints
    <3>1. s # <<>>
      BY <1>4 DEF UpgradeGranted, LockInv, Pending, Waits
    <3>2. s \in Seq(Savepoints) /\ Len(s) \in 1..Len(s) /\ Len(s) \in Nat
      BY <3>1, TopType DEF TypeOK
    <3>3. e \in Savepoints
      BY MainTxnType DEF TypeOK
    <3> HIDE DEF s, e
    <3> QED BY <3>2, <3>3
  <2>2. UNCHANGED db /\ bt'[c].svp = t
    BY <1>4 DEF UpgradeGranted, TypeOK, Btrees
  <2>3. Rooted(e.view.data)
    BY DEF MainTxn, RootInv
  <2> HIDE DEF e
  <2>4. t = [s EXCEPT ![1] = e]
    OBVIOUS
  <2> HIDE DEF t
  <2>5. Len(t) = Len(s) /\ \A i \in 1..Len(s) : t[i] = IF i = 1 THEN e ELSE s[i]
    BY <2>1, <2>4, ExceptSeq
  <2> QED BY <2>2, <2>3, <2>5 DEF RootStep, RootInv, LevelsRooted
<1>5. CASE UpgradeFails(c)
  <2>1. UNCHANGED db /\ bt'[c].svp = <<>>
    BY <1>5 DEF UpgradeFails, TypeOK, Btrees
  <2> QED BY <2>1 DEF RootStep, RootInv, LevelsRooted
<1> QED BY <1>1, <1>2, <1>3, <1>4, <1>5 DEF BeginTrans

\* Closing levels of c's stack.
LEMMA CutRoot ==
  ASSUME TypeOK, RootInv, NEW c \in Conns, InTxn(c, {"WRITE"}), UNCHANGED db,
         NEW m \in 1..Len(bt[c].svp), NEW commit \in BOOLEAN,
         bt' = [bt EXCEPT ![c].svp = Closed(@, m, commit)]
  PROVE  RootStep(c)
<1> DEFINE s == bt[c].svp
           t == Closed(s, m, commit)
<1>1. s \in Seq(Savepoints) /\ Len(s) \in 1..Len(s) /\ Len(s) \in Nat
  BY InTxnStack
<1>2. bt'[c].svp = t
  BY DEF TypeOK, Btrees
<1>3. \A i \in 1..Len(s) : Rooted(s[i].view.data)
  BY DEF RootInv, LevelsRooted
<1>4. t = Closed(s, m, commit) /\ m \in 1..Len(s)
  OBVIOUS
<1> HIDE DEF s, t
<1>5. /\ Len(t) = m
      /\ \A i \in 1..m : i # m => t[i] = s[i]
      /\ t[m].view = IF commit THEN s[Len(s)].view ELSE s[m].view
  BY <1>1, <1>4, StackClosed
<1>6. \A i \in 1..m : i \in 1..Len(s)
  BY <1>1, <1>4
<1>7. \A i \in 1..m : Rooted(t[i].view.data)
  BY <1>1, <1>3, <1>4, <1>5, <1>6
<1> QED BY <1>2, <1>5, <1>7 DEF RootStep, RootInv, LevelsRooted

LEMMA CommitRoot ==
  ASSUME TypeOK, RootInv, NEW c \in Conns, CommitPhaseOne(c) \/ Rollback(c)
  PROVE  RootStep(c)
<1>1. CASE CommitRead(c) \/ Rollback(c) \/ CommitFailsInCounter(c)
  <2>1. UNCHANGED db /\ (bt'[c].svp = <<>> \/ bt'[c].svp = bt[c].svp)
    BY <1>1 DEF CommitRead, Rollback, CommitFailsInCounter, EndTxn, TypeOK, Btrees
  <2> QED BY <2>1 DEF RootStep, RootInv, LevelsRooted
<1>2. CASE CommitWrite(c)
  <2>1. bt'[c].svp = <<>> /\ db' = [Top(c).view EXCEPT !.counter = NextCounter(@)]
    BY <1>2 DEF CommitWrite, EndTxn, TypeOK, Btrees
  <2>2. Len(bt[c].svp) \in 1..Len(bt[c].svp) /\ bt[c].svp # <<>>
    BY <1>2, InTxnStack DEF CommitWrite
  <2>3. Top(c).view \in View /\ Rooted(Top(c).view.data)
    BY <2>2, TopType DEF TypeOK, RootInv, LevelsRooted, Top
  <2>4. db'.data = Top(c).view.data
    BY <2>1, <2>3 DEF View
  <2> QED BY <2>1, <2>3, <2>4 DEF RootStep, LevelsRooted
<1>3. CASE CommitFailsInSavepoint(c)
  <2>1. InTxn(c, {"WRITE"}) /\ 1 \in 1..Len(bt[c].svp)
    BY <1>3, InTxnStack DEF CommitFailsInSavepoint
  <2> QED BY <1>3, <2>1, CutRoot DEF CommitFailsInSavepoint
<1>4. CASE CommitFailsInMdb(c)
  <2> DEFINE s == bt[c].svp
             u == Closed(s, 1, TRUE)
             e == [u[1] EXCEPT !.live = FALSE]
  <2>1. /\ s \in Seq(Savepoints) /\ 1 \in 1..Len(s) /\ Len(s) \in 1..Len(s)
    BY <1>4, InTxnStack DEF CommitFailsInMdb
  <2>2. bt'[c].svp = <<e>> /\ UNCHANGED db
    BY <1>4 DEF CommitFailsInMdb, TypeOK, Btrees
  <2>3. Rooted(s[Len(s)].view.data) /\ Rooted(db.data)
    BY <2>1 DEF RootInv, LevelsRooted
  <2>4. Rooted(e.view.data)
    <3> HIDE DEF s
    <3>1. u = Closed(s, 1, TRUE)
      OBVIOUS
    <3>2. e = [u[1] EXCEPT !.live = FALSE]
      OBVIOUS
    <3> HIDE DEF u, e
    <3>3. /\ u \in Seq(Savepoints) /\ Len(u) = 1
          /\ u[1].view = s[Len(s)].view
      <4>1. ASSUME NEW m \in 1..Len(s), NEW commit \in BOOLEAN, NEW t,
                   t = Closed(s, m, commit)
            PROVE  /\ t \in Seq(Savepoints) /\ Len(t) = m
                   /\ t[m].view = IF commit THEN s[Len(s)].view ELSE s[m].view
        BY <2>1, <4>1, StackClosed
      <4> QED BY <2>1, <3>1, <4>1
    <3>4. u[1] \in Savepoints
      BY <3>3, ElementOfSeq
    <3>5. e.view = u[1].view
      BY <3>2, <3>4 DEF Savepoints
    <3> QED BY <2>3, <3>3, <3>5
  <2> HIDE DEF e
  <2> QED BY <2>2, <2>3, <2>4, OneLevelRooted DEF RootStep
<1> QED BY <1>1, <1>2, <1>3, <1>4 DEF CommitPhaseOne

LEMMA SavepointRoot ==
  ASSUME TypeOK, RootInv, NEW c \in Conns,
         UserSavepoint(c) \/ BeginStmt(c) \/ Savepoint(c)
  PROVE  RootStep(c)
<1>1. CASE UserSavepoint(c)
  BY <1>1 DEF UserSavepoint, RootStep, RootInv, LevelsRooted
<1>2. CASE BeginStmt(c)
  <2> DEFINE e == [n |-> Len(cl[c].marks) + 1, rw |-> TRUE, live |-> TRUE,
                   view |-> Top(c).view]
             s == bt[c].svp
             t == Append(s, e)
  <2>1. /\ s \in Seq(Savepoints) /\ Len(s) \in 1..Len(s) /\ Len(s) \in Nat
        /\ s # <<>>
    BY <1>2, InTxnStack DEF BeginStmt
  <2>2. Top(c).view \in View /\ Rooted(Top(c).view.data)
    BY <2>1, TopType DEF TypeOK, RootInv, LevelsRooted, Top
  <2>3. e \in Savepoints /\ e.view = Top(c).view
    <3>1. Len(cl[c].marks) \in Nat
      BY LenProperties DEF TypeOK, Clients
    <3> QED BY <2>2, <3>1 DEF Savepoints
  <2>4. bt'[c].svp = t /\ UNCHANGED db
    BY <1>2 DEF BeginStmt, TypeOK, Btrees
  <2>5. \A i \in 1..Len(s) : Rooted(s[i].view.data)
    BY DEF RootInv, LevelsRooted
  <2> HIDE DEF e, s
  <2>6. /\ Len(t) = Len(s) + 1 /\ t[Len(s) + 1] = e
        /\ \A i \in 1..Len(s) : t[i] = s[i]
    BY <2>1, <2>3, AppendProperties
  <2> HIDE DEF t
  <2>7. \A i \in 1..Len(t) : i \in 1..Len(s) \/ i = Len(s) + 1
    BY <2>1, <2>6
  <2>8. \A i \in 1..Len(t) : Rooted(t[i].view.data)
    BY <2>2, <2>3, <2>5, <2>6, <2>7
  <2> QED BY <2>4, <2>8 DEF RootStep, RootInv, LevelsRooted
<1>3. ASSUME NEW i \in Nat,
             \/ SavepointRelease(c, i) \/ SavepointReleaseFails(c, i)
             \/ SavepointRollback(c, i)
      PROVE  RootStep(c)
  BY <1>3, CutRoot
     DEF SavepointRelease, SavepointReleaseFails, ReleaseAborts, SavepointRollback
<1>4. CASE SavepointRollbackAll(c)
  <2>1. UNCHANGED db /\ bt'[c].svp = <<>>
    BY <1>4 DEF SavepointRollbackAll, TypeOK, Btrees
  <2> QED BY <2>1 DEF RootStep, RootInv, LevelsRooted
<1>5. 0..(MaxDepth - 1) \subseteq Nat
  BY BtreeAssumption
<1> QED BY <1>1, <1>2, <1>3, <1>4, <1>5 DEF Savepoint

LEMMA WriteRoot ==
  ASSUME TypeOK, RootInv, NEW c \in Conns, Write(c)
  PROVE  RootStep(c)
<1> DEFINE s == bt[c].svp
<1>1. /\ s \in Seq(Savepoints) /\ Len(s) \in 1..Len(s)
      /\ \A i \in 1..Len(s) : Rooted(s[i].view.data)
      /\ Rooted(Top(c).view.data)
  BY WriteIsWriteTop, InTxnStack DEF RootInv, LevelsRooted, Top
<1>2. PICK d \in DataSet : Rooted(d) /\ \E w \in DataSet : WriteTop(c, d, w)
  BY <1>1, WriteKeepsRooted
<1> DEFINE t == [s EXCEPT ![Len(s)].view.data = d]
<1>3. bt'[c].svp = t /\ UNCHANGED db
  BY <1>2 DEF WriteTop, TypeOK, Btrees
<1>4. t = [s EXCEPT ![Len(s)].view.data = d]
  OBVIOUS
<1> HIDE DEF t, s
<1>5. /\ Len(t) = Len(s)
      /\ \A i \in 1..Len(s) : i # Len(s) => t[i].view = s[i].view
      /\ t[Len(s)].view.data = d
  BY <1>1, <1>4, StackWrite
<1>6. \A i \in 1..Len(t) : Rooted(t[i].view.data)
  BY <1>1, <1>2, <1>5
<1> QED BY <1>3, <1>6 DEF RootStep, RootInv, LevelsRooted

LEMMA PragmaRoot ==
  ASSUME TypeOK, RootInv, NEW c \in Conns, Pragma(c)
  PROVE  RootStep(c)
<1>1. ASSUME NEW t \in TransTypes, PragmaAlone(c, t)
      PROVE  RootStep(c)
  <2>1. db'.data = db.data /\ bt'[c].svp = bt[c].svp
    BY <1>1 DEF PragmaAlone, TypeOK, View, Btrees
  <2> QED BY <2>1 DEF RootStep, RootInv, LevelsRooted
<1>2. ASSUME NEW tt \in TransTypes, PragmaInWrite(c, tt)
      PROVE  RootStep(c)
  <2> DEFINE s == bt[c].svp
             n == Len(s)
             v == [Top(c).view EXCEPT !.ttype = tt]
             e == [s[n] EXCEPT !.live = FALSE]
             ended == [s EXCEPT ![n].live = FALSE]
  <2>1. /\ s # <<>> /\ s \in Seq(Savepoints) /\ n \in 1..n /\ n \in Nat
        /\ Top(c).view \in View
    BY <1>2, InTxnStack, TopType DEF TypeOK, PragmaInWrite
  <2>2. v \in View /\ v.data = Top(c).view.data
    BY <2>1 DEF View
  <2>3. Rooted(v.data) /\ \A i \in 1..n : Rooted(s[i].view.data)
    BY <2>1, <2>2 DEF RootInv, LevelsRooted, Top
  <2>4. e \in Savepoints /\ e.view = s[n].view
    <3>1. s[n] \in Savepoints
      BY <2>1, ElementOfSeq
    <3> QED BY <3>1 DEF Savepoints
  <2>5. /\ ended \in Seq(Savepoints) /\ Len(ended) = n
        /\ \A i \in 1..n : ended[i] = IF i = n THEN e ELSE s[i]
    <3>1. ended = [s EXCEPT ![n] = e]
      OBVIOUS
    <3> HIDE DEF e, s, ended
    <3> QED BY <2>1, <2>4, <3>1, ExceptSeq DEF n
  <2>6. \A i \in 1..n : Rooted(ended[i].view.data)
    BY <2>3, <2>4, <2>5
  <2>7. CASE n = 1
    <3>1. bt'[c].svp = ended /\ db' = v
      <4>1. bt' = [bt EXCEPT ![c].svp = ended, ![c].transType = tt] /\ db' = v
        BY <1>2, <2>7 DEF PragmaInWrite
      <4> HIDE DEF ended
      <4> QED BY <4>1 DEF TypeOK, Btrees
    <3> HIDE DEF ended, v, n
    <3> QED BY <2>3, <2>5, <2>6, <3>1 DEF RootStep, LevelsRooted
  <2>8. CASE n # 1
    <3> DEFINE f == [ended[n - 1] EXCEPT !.view = v]
               t == [ended EXCEPT ![n - 1] = f]
    <3>1. bt'[c].svp = t /\ UNCHANGED db
      <4>1. bt' = [bt EXCEPT ![c].svp = [ended EXCEPT ![n - 1].view = v],
                             ![c].transType = tt]
        BY <1>2, <2>8 DEF PragmaInWrite
      <4>2. [ended EXCEPT ![n - 1].view = v] = t
        OBVIOUS
      <4>3. UNCHANGED db
        BY <1>2, <2>8 DEF PragmaInWrite
      <4> HIDE DEF t
      <4> QED BY <4>1, <4>2, <4>3 DEF TypeOK, Btrees
    <3> HIDE DEF ended, v, e
    <3>2. n - 1 \in 1..Len(ended)
      <4> HIDE DEF n, s
      <4> QED BY <2>1, <2>5, <2>8
    <3>3. f \in Savepoints /\ f.view = v
      BY <2>2, <2>5, <3>2, ElementOfSeq, LevelView
    <3> HIDE DEF f
    <3>4. /\ Len(t) = Len(ended)
          /\ \A i \in 1..Len(ended) : t[i] = IF i = n - 1 THEN f ELSE ended[i]
      BY <2>5, <3>2, <3>3, ExceptSeq
    <3> HIDE DEF t
    <3>5. \A i \in 1..Len(t) : Rooted(t[i].view.data)
      <4> HIDE DEF n
      <4> QED BY <2>3, <2>5, <2>6, <3>3, <3>4
    <3> QED BY <3>1, <3>5 DEF RootStep, RootInv, LevelsRooted
  <2> QED BY <2>7, <2>8
<1>3. CASE PragmaRefused(c)
  BY <1>3 DEF PragmaRefused, vars, RootStep, RootInv, LevelsRooted
<1> QED BY <1>1, <1>2, <1>3 DEF Pragma

LEMMA RootNext ==
  ASSUME TypeOK, LockInv, RootInv, [Next]_vars
  PROVE  RootInv'
<1>1. CASE UNCHANGED vars
  BY <1>1 DEF vars, RootInv, LevelsRooted
<1>2. ASSUME NEW c \in Conns,
             \/ BtreeOpen(c) \/ BtreeClose(c) \/ Crash(c) \/ UseDangling(c) \/ Restart(c)
             \/ BeginTrans(c) \/ UpgradeGranted(c) \/ UpgradeFails(c)
             \/ CommitPhaseOne(c) \/ Rollback(c)
             \/ UserSavepoint(c) \/ BeginStmt(c) \/ Savepoint(c)
             \/ Write(c) \/ Pragma(c)
      PROVE  RootInv'
  <2>1. RootStep(c)
    BY <1>2, LifeRoot, BeginRoot, CommitRoot, SavepointRoot, WriteRoot, PragmaRoot
  <2>2. LockStep(c)
    BY <1>2, LifeLock, BeginLock, CommitLock, SavepointLock, WriteLock, PragmaLock
  <2>3. \A d \in Conns \ {c} : LevelsRooted(d)'
    BY <2>2 DEF LockStep, RootInv, LevelsRooted
  <2> QED BY <2>1, <2>3 DEF RootStep, RootInv
<1> QED BY <1>1, <1>2 DEF Next

\* sqlite3BtreeCreateTable never hands out the page of an existing table, with
\* any number of tables, connections and savepoints, whatever fails and
\* whatever the callers' habits: BTREE_LARGEST_ROOT_PAGE is rolled back and
\* published with the tables it counts.
THEOREM FreshRootCorrect == Spec => []FreshRoot
<1>1. Init => TypeOK /\ LockInv /\ RootInv
  <2>1. Init => RootInv
    BY DEF Init, RootInv, LevelsRooted, Rooted, EmptyView, EmptyData, ClosedBtree
  <2> QED BY <2>1, InitInv
<1>2. TypeOK /\ LockInv /\ RootInv /\ [Next]_vars => TypeOK' /\ LockInv' /\ RootInv'
  BY TypeStep, RootNext
<1>3. TypeOK /\ LockInv /\ RootInv => FreshRoot
  <2> SUFFICES ASSUME TypeOK, LockInv, RootInv PROVE FreshRoot
    OBVIOUS
  <2>1. NextRoot(db.data) \notin db.data.tabs
    BY NextRootFresh DEF TypeOK, View, RootInv
  <2>2. ASSUME NEW c \in Conns, InTxn(c, {"READ", "WRITE"})
        PROVE  NextRoot(Top(c).view.data) \notin Top(c).view.data.tabs
    <3>1. bt[c].svp # <<>> /\ Len(bt[c].svp) \in 1..Len(bt[c].svp)
      BY <2>2, InTxnStack
    <3>2. Top(c).view.data \in DataSet /\ Rooted(Top(c).view.data)
      BY <3>1, TopType DEF TypeOK, RootInv, LevelsRooted, Top
    <3> QED BY <3>2, NextRootFresh
  <2> QED BY <2>1, <2>2 DEF FreshRoot
<1> QED BY <1>1, <1>2, <1>3, PTL DEF Spec

-----------------------------------------------------------------------------
\* No LMDB call fails, and nobody sets PRAGMA lmdb_transaction inside a write
\* transaction.  Without the first a failed commit or upgrade leaves a
\* BtreeSavepoint or an inTrans behind, without the second the pragma commits
\* the transaction p->svp still names.
Reliable == MaxFaults = 0 /\ "pragma" \notin Habits

\* The stack of c belongs to the transaction inTrans speaks of, and is one of
\* live MDB_txns unless c waits in the middle of its upgrade.
Whole(c) ==
  /\ bt[c].status # "wrecked"
  /\ bt[c].status # "open" => bt[c].inTrans = "NONE"
  /\ bt[c].inTrans = "NONE" <=> bt[c].svp = <<>>
  /\ bt[c].inTrans = "READ" => Len(bt[c].svp) = 1
  /\ bt[c].upg # NotUpgrading => bt[c].inTrans = "READ"
  /\ bt[c].upg = NotUpgrading => \A i \in 1..Len(bt[c].svp) : bt[c].svp[i].live

\* A connection outside a transaction, and one that is waiting.
LEMMA WholeIdle ==
  ASSUME NEW c \in Conns, bt'[c].inTrans = "NONE", bt'[c].svp = <<>>,
         bt'[c].upg = NotUpgrading, bt'[c].status # "wrecked"
  PROVE  Whole(c)'
BY DEF Whole

\* A transaction that has just begun.
LEMMA WholeBegun ==
  ASSUME NEW c \in Conns, NEW e, e.live, bt'[c].svp = <<e>>,
         bt'[c].inTrans \in {"READ", "WRITE"}, bt'[c].upg = NotUpgrading,
         bt'[c].status = "open"
  PROVE  Whole(c)'
<1>1. Len(bt'[c].svp) = 1 /\ bt'[c].svp[1] = e /\ bt'[c].svp # <<>>
  OBVIOUS
<1>2. \A i \in 1..1 : i = 1
  OBVIOUS
<1>3. bt'[c].inTrans # "NONE" /\ bt'[c].upg = NotUpgrading /\ bt'[c].status = "open"
      /\ e.live
  OBVIOUS
<1> QED BY ONLY <1>1, <1>2, <1>3 DEF Whole

\* A write transaction whose stack becomes t.
LEMMA WholeWriting ==
  ASSUME NEW c \in Conns, Whole(c), InTxn(c, {"WRITE"}), bt[c] \in Btrees,
         NEW t, bt'[c] = [bt[c] EXCEPT !.svp = t], t # <<>>,
         \A i \in 1..Len(t) : t[i].live
  PROVE  Whole(c)'
<1>1. /\ bt'[c].svp = t /\ bt'[c].inTrans = "WRITE"
      /\ bt'[c].status = "open" /\ bt'[c].upg = NotUpgrading
  BY DEF Btrees, InTxn, Usable
<1> QED BY <1>1 DEF Whole

LEMMA LifeWhole ==
  ASSUME TypeOK, NEW c \in Conns, Whole(c),
         BtreeOpen(c) \/ BtreeClose(c) \/ Crash(c) \/ UseDangling(c) \/ Restart(c)
  PROVE  Whole(c)'
<1>1. bt[c] \in Btrees
  BY DEF TypeOK
<1>2. CASE BtreeOpen(c)
  <2>1. /\ bt[c].inTrans = "NONE" /\ bt[c].svp = <<>> /\ bt[c].upg = NotUpgrading
    BY <1>2 DEF BtreeOpen, Whole
  <2>2. /\ bt'[c].inTrans = "NONE" /\ bt'[c].svp = <<>> /\ bt'[c].upg = NotUpgrading
        /\ bt'[c].status = "open"
    BY <1>1, <1>2, <2>1 DEF BtreeOpen, TypeOK, Btrees
  <2> QED BY <2>2, WholeIdle
<1>3. CASE BtreeClose(c) \/ Crash(c)
  <2>1. bt'[c] = ClosedBtree
    BY <1>3 DEF BtreeClose, Crash, TypeOK
  <2> QED BY <2>1, WholeIdle DEF ClosedBtree
<1>4. ~UseDangling(c)
  <2>1. CASE ~Usable(c)
    BY <2>1 DEF UseDangling
  <2>2. CASE Usable(c) /\ bt[c].svp # <<>>
    <3>1. 1 \in 1..Len(bt[c].svp) /\ Len(bt[c].svp) \in 1..Len(bt[c].svp)
      BY <2>2, TopType DEF TypeOK
    <3>2. bt[c].svp[1].live /\ Top(c).live
      BY <2>2, <3>1 DEF Whole, Usable, Top
    <3> QED BY <2>2, <3>2 DEF UseDangling, Dangling
  <2>3. CASE Usable(c) /\ bt[c].svp = <<>>
    BY <2>3 DEF UseDangling, Dangling, Whole
  <2> QED BY <2>1, <2>2, <2>3
<1>5. ~Restart(c)
  BY DEF Restart, Whole
<1> QED BY <1>2, <1>3, <1>4, <1>5

LEMMA BeginWhole ==
  ASSUME TypeOK, Reliable, NEW c \in Conns, Whole(c),
         BeginTrans(c) \/ UpgradeGranted(c) \/ UpgradeFails(c)
  PROVE  Whole(c)'
<1>1. CASE \/ \E wrFlag \in BOOLEAN : BeginTransAnswered(c, wrFlag)
           \/ UpgradeRefused(c) \/ BeginTransFails(c)
  BY <1>1 DEF BeginTransAnswered, UpgradeRefused, BeginTransFails, vars, Whole
<1>2. CASE BeginTransSerialised(c)
  <2>1. /\ bt[c].inTrans = "READ" /\ bt[c].upg = NotUpgrading /\ bt[c].status = "open"
        /\ bt[c] \in Btrees
        /\ bt' = [bt EXCEPT ![c].inTrans = "WRITE"]
    BY <1>2 DEF BeginTransSerialised, InTxn, Usable, TypeOK
  <2>2. bt'[c] = [bt[c] EXCEPT !.inTrans = "WRITE"]
    BY <2>1 DEF TypeOK
  <2>3. /\ bt'[c].inTrans = "WRITE" /\ bt'[c].upg = NotUpgrading
        /\ bt'[c].status = "open" /\ bt'[c].svp = bt[c].svp
    BY <2>1, <2>2 DEF Btrees
  <2> QED BY <2>1, <2>3 DEF Whole
<1>3. ASSUME NEW wrFlag \in BOOLEAN, BeginTransNew(c, wrFlag)
      PROVE  Whole(c)'
  <2> DEFINE e == MainTxn(wrFlag \/ (bt[c].transType = "serialise" /\ c \notin ReadonlyConns))
  <2>1. /\ bt'[c].svp = <<e>> /\ bt'[c].upg = NotUpgrading /\ bt'[c].status = "open"
        /\ bt'[c].inTrans \in {"READ", "WRITE"}
    BY <1>3 DEF BeginTransNew, Usable, TypeOK, Btrees
  <2>2. e.live
    BY DEF MainTxn
  <2> HIDE DEF e
  <2> QED BY <2>1, <2>2, WholeBegun
<1>4. CASE UpgradeStart(c)
  <2> DEFINE s == bt[c].svp
             t == [s EXCEPT ![1].live = FALSE]
             n == IF bt[c].hasData THEN Top(c).view.counter ELSE 0
  <2>1. /\ bt[c].inTrans = "READ" /\ bt[c].status = "open" /\ Len(s) = 1
        /\ s \in Seq(Savepoints) /\ 1 \in 1..Len(s)
    BY <1>4, InTxnStack DEF UpgradeStart, InTxn, Usable, Whole
  <2>2. n # NotUpgrading
    <3>1. Top(c).view \in View
      BY <1>4, InTxnStack, TopType DEF TypeOK, UpgradeStart
    <3> QED BY <3>1, EnvAssumption DEF View, NotUpgrading
  <2>3. /\ bt'[c].svp = t /\ bt'[c].inTrans = "READ" /\ bt'[c].status = "open"
        /\ bt'[c].upg = n
    BY <1>4, <2>1 DEF UpgradeStart, TypeOK, Btrees
  <2> HIDE DEF n
  <2>4. Len(t) = 1 /\ t # <<>>
    <3> DEFINE e == [s[1] EXCEPT !.live = FALSE]
    <3>1. s[1] \in Savepoints BY <2>1, ElementOfSeq
    <3>2. e \in Savepoints BY <3>1 DEF Savepoints
    <3>3. t = [s EXCEPT ![1] = e] OBVIOUS
    <3> HIDE DEF e, s, t
    <3>4. s \in Seq(Savepoints) /\ 1 \in 1..Len(s)
      BY <2>1
    <3>5. t \in Seq(Savepoints) /\ Len(t) = Len(s)
      BY ONLY <3>2, <3>3, <3>4, ExceptSeq
    <3>6. Len(t) = 1
      BY <2>1, <3>5
    <3>7. t # <<>>
      BY <3>6, EmptySeq
    <3> QED BY <3>6, <3>7
  <2> HIDE DEF t
  <2> QED BY <2>2, <2>3, <2>4 DEF Whole
<1>5. CASE UpgradeGranted(c)
  <2> DEFINE s == bt[c].svp
             e == MainTxn(TRUE)
             t == [s EXCEPT ![1] = e]
  <2>1. /\ bt[c].status = "open" /\ Len(s) = 1
        /\ s \in Seq(Savepoints) /\ 1 \in 1..Len(s)
    BY <1>5 DEF UpgradeGranted, Whole, TypeOK, Btrees
  <2>2. /\ bt'[c].svp = t /\ bt'[c].upg = NotUpgrading /\ bt'[c].status = "open"
        /\ bt'[c].inTrans \in {"READ", "WRITE"}
    BY <1>5 DEF UpgradeGranted, TypeOK, Btrees
  <2>3. e \in Savepoints /\ e.live
    BY MainTxnType DEF TypeOK, MainTxn
  <2>4. t = [s EXCEPT ![1] = e]
    OBVIOUS
  <2> HIDE DEF e, s, t
  <2>5. t \in Seq(Savepoints) /\ Len(t) = 1 /\ t[1] = e
    <3>1. s \in Seq(Savepoints) /\ 1 \in 1..Len(s) /\ e \in Savepoints
      BY <2>1, <2>3
    <3>2. t \in Seq(Savepoints) /\ Len(t) = Len(s) /\ t[1] = e
      BY ONLY <2>4, <3>1, ExceptSeq
    <3> QED BY <2>1, <3>2
  <2>6. t # <<>> /\ \A i \in 1..Len(t) : i = 1
    BY <2>5, EmptySeq
  <2> QED BY <2>2, <2>3, <2>5, <2>6 DEF Whole
<1>6. ~UpgradeFails(c)
  BY BtreeAssumption DEF UpgradeFails, Fault, Reliable, TypeOK
<1> QED BY <1>1, <1>2, <1>3, <1>4, <1>5, <1>6 DEF BeginTrans

LEMMA CutWhole ==
  ASSUME TypeOK, NEW c \in Conns, Whole(c), InTxn(c, {"WRITE"}),
         NEW m \in 1..Len(bt[c].svp), NEW commit \in BOOLEAN,
         bt' = [bt EXCEPT ![c].svp = Closed(@, m, commit)]
  PROVE  Whole(c)'
<1> DEFINE s == bt[c].svp
           t == Closed(s, m, commit)
<1>1. /\ s \in Seq(Savepoints) /\ Len(s) \in Nat /\ bt[c] \in Btrees
      /\ \A i \in 1..Len(s) : s[i].live
  BY InTxnStack DEF TypeOK, Whole
<1>2. bt'[c] = [bt[c] EXCEPT !.svp = t]
  BY DEF TypeOK
<1>3. t = Closed(s, m, commit) /\ m \in 1..Len(s)
  OBVIOUS
<1> HIDE DEF s, t
<1>4. Len(t) = m /\ \A i \in 1..m : t[i].live = s[i].live
  BY <1>1, <1>3, StackClosed
<1>5. \A i \in 1..m : i \in 1..Len(s)
  BY <1>1, <1>3
<1>6. t # <<>> /\ \A i \in 1..Len(t) : t[i].live
  BY <1>1, <1>3, <1>4, <1>5
<1> QED BY <1>1, <1>2, <1>6, WholeWriting

LEMMA CommitWhole ==
  ASSUME TypeOK, Reliable, NEW c \in Conns, Whole(c), CommitPhaseOne(c) \/ Rollback(c)
  PROVE  Whole(c)'
<1>1. ASSUME Usable(c), EndTxn(c) PROVE Whole(c)'
  <2>1. /\ bt'[c].inTrans = "NONE" /\ bt'[c].svp = <<>> /\ bt'[c].upg = NotUpgrading
        /\ bt'[c].status = "open"
    BY <1>1 DEF EndTxn, Usable, TypeOK, Btrees
  <2> QED BY <2>1, WholeIdle
<1>2. CASE CommitRead(c) \/ Rollback(c)
  <2>1. Usable(c) /\ (UNCHANGED bt \/ EndTxn(c))
    BY <1>2 DEF CommitRead, Rollback
  <2> QED BY <1>1, <2>1 DEF Whole
<1>3. CASE CommitWrite(c)
  BY <1>1, <1>3 DEF CommitWrite, InTxn
<1>4. ~CommitFailsInSavepoint(c) /\ ~CommitFailsInCounter(c) /\ ~CommitFailsInMdb(c)
  BY BtreeAssumption DEF CommitFailsInSavepoint, CommitFailsInCounter, CommitFailsInMdb,
     Fault, Reliable, TypeOK
<1> QED BY <1>2, <1>3, <1>4 DEF CommitPhaseOne

LEMMA SavepointWhole ==
  ASSUME TypeOK, Reliable, NEW c \in Conns, Whole(c),
         UserSavepoint(c) \/ BeginStmt(c) \/ Savepoint(c)
  PROVE  Whole(c)'
<1>1. CASE UserSavepoint(c)
  BY <1>1 DEF UserSavepoint, Whole
<1>2. CASE BeginStmt(c)
  <2> DEFINE e == [n |-> Len(cl[c].marks) + 1, rw |-> TRUE, live |-> TRUE,
                   view |-> Top(c).view]
             s == bt[c].svp
             t == Append(s, e)
  <2>1. /\ s \in Seq(Savepoints) /\ Len(s) \in Nat /\ s # <<>> /\ bt[c] \in Btrees
        /\ InTxn(c, {"WRITE"}) /\ Top(c).view \in View
        /\ \A i \in 1..Len(s) : s[i].live
    BY <1>2, InTxnStack, TopType DEF BeginStmt, TypeOK, Whole, Usable
  <2>2. e \in Savepoints /\ e.live
    <3>1. Len(cl[c].marks) \in Nat
      BY LenProperties DEF TypeOK, Clients
    <3> QED BY <2>1, <3>1 DEF Savepoints
  <2>3. bt'[c] = [bt[c] EXCEPT !.svp = t]
    BY <1>2 DEF BeginStmt, TypeOK
  <2> HIDE DEF e, s
  <2>4. /\ Len(t) = Len(s) + 1 /\ t[Len(s) + 1] = e /\ t # <<>>
        /\ \A i \in 1..Len(s) : t[i] = s[i]
    BY <2>1, <2>2, AppendProperties
  <2> HIDE DEF t
  <2>5. \A i \in 1..Len(t) : i \in 1..Len(s) \/ i = Len(s) + 1
    BY <2>1, <2>4
  <2>6. \A i \in 1..Len(t) : t[i].live
    BY <2>1, <2>2, <2>4, <2>5
  <2> QED BY <2>1, <2>3, <2>4, <2>6, WholeWriting
<1>3. ASSUME NEW i \in Nat, SavepointRelease(c, i) \/ SavepointRollback(c, i)
      PROVE  Whole(c)'
  BY <1>3, CutWhole DEF SavepointRelease, SavepointRollback
<1>4. \A i : ~SavepointReleaseFails(c, i)
  BY BtreeAssumption DEF SavepointReleaseFails, Fault, Reliable, TypeOK
<1>5. CASE SavepointRollbackAll(c)
  <2>1. /\ bt'[c].inTrans = "NONE" /\ bt'[c].svp = <<>> /\ bt'[c].upg = NotUpgrading
        /\ bt'[c].status = "open"
    BY <1>5 DEF SavepointRollbackAll, InTxn, Usable, TypeOK, Btrees
  <2> QED BY <2>1, WholeIdle
<1>6. 0..(MaxDepth - 1) \subseteq Nat
  BY BtreeAssumption
<1> QED BY <1>1, <1>2, <1>3, <1>4, <1>5, <1>6 DEF Savepoint

LEMMA WriteWhole ==
  ASSUME TypeOK, NEW c \in Conns, Whole(c), Write(c)
  PROVE  Whole(c)'
<1> DEFINE s == bt[c].svp
<1>1. /\ InTxn(c, {"WRITE"}) /\ s \in Seq(Savepoints) /\ Len(s) \in 1..Len(s)
      /\ bt[c] \in Btrees /\ \A i \in 1..Len(s) : s[i].live
  BY WriteIsWriteTop, InTxnStack DEF Whole, TypeOK, Usable
<1>2. PICK d \in DataSet, w \in DataSet : WriteTop(c, d, w)
  BY WriteIsWriteTop
<1> DEFINE t == [s EXCEPT ![Len(s)].view.data = d]
<1>3. bt'[c] = [bt[c] EXCEPT !.svp = t]
  BY <1>2 DEF WriteTop, TypeOK
<1>4. t = [s EXCEPT ![Len(s)].view.data = d]
  OBVIOUS
<1> HIDE DEF t, s
<1>5. /\ t \in Seq(Savepoints) /\ Len(t) = Len(s)
      /\ \A i \in 1..Len(s) : t[i].live = s[i].live
  BY <1>1, <1>4, StackWrite
<1>6. t # <<>> /\ \A i \in 1..Len(t) : t[i].live
  BY <1>1, <1>5
<1> QED BY <1>1, <1>3, <1>6, WholeWriting

LEMMA PragmaWhole ==
  ASSUME TypeOK, Reliable, NEW c \in Conns, Whole(c), Pragma(c)
  PROVE  Whole(c)'
<1>1. ASSUME NEW t \in TransTypes, PragmaAlone(c, t)
      PROVE  Whole(c)'
  <2>1. /\ bt'[c].inTrans = bt[c].inTrans /\ bt'[c].svp = bt[c].svp
        /\ bt'[c].upg = bt[c].upg /\ bt'[c].status = bt[c].status
    BY <1>1 DEF PragmaAlone, TypeOK, Btrees
  <2> QED BY <2>1 DEF Whole
<1>2. CASE PragmaRefused(c)
  BY <1>2 DEF PragmaRefused, vars, Whole
<1>3. \A t \in TransTypes : ~PragmaInWrite(c, t)
  BY DEF PragmaInWrite, Reliable
<1> QED BY <1>1, <1>2, <1>3 DEF Pragma

WholeInv == TypeOK /\ LockInv /\ \A c \in Conns : Whole(c)

LEMMA WholeNext ==
  ASSUME Reliable, WholeInv, [Next]_vars
  PROVE  WholeInv'
<1>1. TypeOK' /\ LockInv'
  BY TypeStep DEF WholeInv
<1>2. CASE UNCHANGED vars
  BY <1>1, <1>2 DEF vars, WholeInv, Whole
<1>3. ASSUME NEW c \in Conns,
             \/ BtreeOpen(c) \/ BtreeClose(c) \/ Crash(c) \/ UseDangling(c) \/ Restart(c)
             \/ BeginTrans(c) \/ UpgradeGranted(c) \/ UpgradeFails(c)
             \/ CommitPhaseOne(c) \/ Rollback(c)
             \/ UserSavepoint(c) \/ BeginStmt(c) \/ Savepoint(c)
             \/ Write(c) \/ Pragma(c)
      PROVE  WholeInv'
  <2>1. TypeOK /\ LockInv /\ \A d \in Conns : Whole(d)
    BY DEF WholeInv
  <2>2. Whole(c)'
    BY <1>3, <2>1, LifeWhole, BeginWhole, CommitWhole, SavepointWhole, WriteWhole,
       PragmaWhole
  <2>3. LockStep(c)
    BY <1>3, <2>1, LifeLock, BeginLock, CommitLock, SavepointLock, WriteLock, PragmaLock
  <2>4. \A d \in Conns \ {c} : Whole(d)'
    BY <2>1, <2>3 DEF LockStep, Whole
  <2> QED BY <1>1, <2>2, <2>4 DEF WholeInv
<1> QED BY <1>2, <1>3 DEF Next

LEMMA WholeInit == Init => WholeInv
<1> SUFFICES ASSUME Init PROVE WholeInv
  OBVIOUS
<1>1. ASSUME NEW c \in Conns PROVE Whole(c)
  BY DEF Init, ClosedBtree, Whole
<1> QED BY <1>1, InitInv DEF WholeInv

\* A connection that believes to be in a transaction has one, for any number
\* of connections and savepoints and through upgrades, refused ones included,
\* as long as no LMDB call fails: p->svp->txn is a transaction whenever a
\* call may follow it.
THEOREM HandlesCorrect ==
  ASSUME Reliable
  PROVE  Spec => []NoDanglingTxn
<1>1. WholeInv /\ [Next]_vars => WholeInv'
  BY WholeNext
<1>2. WholeInv => NoDanglingTxn
  <2> SUFFICES ASSUME WholeInv, NEW c \in Conns, Usable(c)
               PROVE  ~Dangling(c)
    BY DEF WholeInv, Whole, NoDanglingTxn
  <2>1. Whole(c) /\ TypeOK /\ bt[c].upg = NotUpgrading
    BY DEF WholeInv, Usable
  <2>2. CASE bt[c].svp # <<>>
    <3>1. Len(bt[c].svp) \in 1..Len(bt[c].svp)
      BY <2>1, <2>2, TopType DEF TypeOK
    <3> QED BY <2>1, <2>2, <3>1 DEF Whole, Dangling, Top
  <2>3. CASE bt[c].svp = <<>>
    BY <2>1, <2>3 DEF Whole, Dangling
  <2> QED BY <2>2, <2>3
<1> QED BY WholeInit, <1>1, <1>2, PTL DEF Spec

\* Under the same conditions nothing is left of a transaction that is over:
\* BeginTrans never finds a BtreeSavepoint it must answer with
\* SQLITE_INTERNAL.
THEOREM EndCorrect ==
  ASSUME Reliable
  PROVE  Spec => []NothingLeftOver
<1>1. WholeInv /\ [Next]_vars => WholeInv'
  BY WholeNext
<1>2. WholeInv => NothingLeftOver
  BY DEF WholeInv, Whole, NothingLeftOver
<1> QED BY WholeInit, <1>1, <1>2, PTL DEF Spec

-----------------------------------------------------------------------------
\* The transaction of the backend is the transaction of its caller.
Owned(c) ==
  /\ bt[c].inTrans # "NONE" => cl[c].open
  /\ "rollbackTo" \notin Habits /\ bt[c].inTrans = "NONE" => cl[c] = IdleClient
  /\ bt[c].upg # NotUpgrading => bt[c].inTrans # "NONE"

LEMMA OwnedSame ==
  ASSUME NEW c \in Conns, Owned(c), bt'[c].inTrans = bt[c].inTrans,
         bt'[c].upg = bt[c].upg \/ bt[c].inTrans # "NONE",
         cl'[c] = cl[c] \/ (cl'[c].open = cl[c].open /\ bt[c].inTrans # "NONE")
  PROVE  Owned(c)'
BY DEF Owned

LEMMA OwnedEnded ==
  ASSUME NEW c \in Conns, bt'[c].inTrans = "NONE", bt'[c].upg = NotUpgrading,
         cl'[c] = IdleClient
  PROVE  Owned(c)'
BY DEF Owned

LEMMA OwnedStep ==
  ASSUME TypeOK, LockInv, NEW c \in Conns, Owned(c),
         \/ BtreeOpen(c) \/ BtreeClose(c) \/ Crash(c) \/ UseDangling(c) \/ Restart(c)
         \/ BeginTrans(c) \/ UpgradeGranted(c) \/ UpgradeFails(c)
         \/ CommitPhaseOne(c) \/ Rollback(c)
         \/ UserSavepoint(c) \/ BeginStmt(c) \/ Savepoint(c)
         \/ Write(c) \/ Pragma(c)
  PROVE  Owned(c)'
<1>1. bt[c] \in Btrees /\ cl[c] \in Clients
  BY DEF TypeOK
<1>2. CASE BtreeOpen(c) \/ Restart(c)
  <2>1. bt'[c].inTrans = bt[c].inTrans /\ bt'[c].upg = bt[c].upg /\ cl' = cl
    BY <1>2 DEF BtreeOpen, Restart, TypeOK, Btrees
  <2> QED BY <2>1, OwnedSame
<1>3. CASE BtreeClose(c) \/ Crash(c) \/ UseDangling(c)
  <2>1. bt'[c].inTrans = "NONE" /\ bt'[c].upg = NotUpgrading /\ cl'[c] = IdleClient
    BY <1>3 DEF BtreeClose, Crash, UseDangling, Wreck, ClosedBtree, TypeOK
  <2> QED BY <2>1, OwnedEnded
<1>4. CASE \/ \E wrFlag \in BOOLEAN : BeginTransAnswered(c, wrFlag)
           \/ UpgradeRefused(c) \/ BeginTransFails(c) \/ PragmaRefused(c)
  BY <1>4
     DEF BeginTransAnswered, UpgradeRefused, BeginTransFails, PragmaRefused, vars, Owned
<1>5. CASE \E wrFlag \in BOOLEAN : BeginTransNew(c, wrFlag)
  <2>1. bt'[c].inTrans \in {"READ", "WRITE"} /\ cl'[c].open
    BY <1>5 DEF BeginTransNew, TypeOK, Btrees
  <2> QED BY <2>1 DEF Owned
<1>6. CASE BeginTransSerialised(c) \/ UpgradeStart(c) \/ UpgradeFails(c)
  <2>1. cl' = cl
    BY <1>6 DEF BeginTransSerialised, UpgradeStart, UpgradeFails
  <2>2. CASE BeginTransSerialised(c)
    <3>1. bt[c].inTrans = "READ" /\ bt'[c].inTrans = "WRITE" /\ bt'[c].upg = bt[c].upg
      BY <2>2 DEF BeginTransSerialised, InTxn, TypeOK, Btrees
    <3> QED BY <2>1, <3>1 DEF Owned
  <2>3. CASE UpgradeStart(c) \/ UpgradeFails(c)
    <3>1. bt[c].inTrans # "NONE" /\ bt'[c].inTrans = bt[c].inTrans
      BY <2>3 DEF UpgradeStart, UpgradeFails, InTxn, Owned, TypeOK, Btrees
    <3> QED BY <2>1, <3>1, OwnedSame
  <2> QED BY <1>6, <2>2, <2>3
<1>7. CASE CommitRead(c) \/ Rollback(c) \/ CommitWrite(c) \/ CommitFailsInCounter(c)
  <2>1. EndTxn(c) \/ UNCHANGED <<bt, cl>>
    BY <1>7 DEF CommitRead, Rollback, CommitWrite, CommitFailsInCounter
  <2>2. bt[c].upg = NotUpgrading
    BY <1>7 DEF CommitRead, Rollback, CommitWrite, CommitFailsInCounter, InTxn, Usable
  <2>3. EndTxn(c) => /\ bt'[c].inTrans = "NONE" /\ bt'[c].upg = NotUpgrading
                     /\ cl'[c] = IdleClient
    BY <2>2 DEF EndTxn, TypeOK, Btrees
  <2> QED BY <2>1, <2>3, OwnedEnded, OwnedSame
<1>8. CASE CommitFailsInMdb(c)
  <2>1. bt[c].upg = NotUpgrading
    BY <1>8 DEF CommitFailsInMdb, InTxn, Usable
  <2>2. bt'[c].inTrans = "NONE" /\ bt'[c].upg = NotUpgrading /\ cl'[c] = IdleClient
    BY <1>8, <2>1 DEF CommitFailsInMdb, TypeOK, Btrees
  <2> QED BY <2>2, OwnedEnded
<1>9. CASE \/ CommitFailsInSavepoint(c) \/ UserSavepoint(c) \/ BeginStmt(c)
           \/ \E i \in 0..(MaxDepth - 1) : \/ SavepointRelease(c, i)
                                           \/ SavepointReleaseFails(c, i)
                                           \/ SavepointRollback(c, i)
           \/ Write(c)
  <2>1. bt[c].inTrans = "WRITE"
    BY <1>9, WriteIsWriteTop
       DEF CommitFailsInSavepoint, UserSavepoint, BeginStmt, SavepointRelease,
           SavepointReleaseFails, ReleaseAborts, SavepointRollback, InTxn
  <2>2. CASE Write(c)
    <3>1. PICK d \in DataSet, w \in DataSet : WriteTop(c, d, w)
      BY <2>2, WriteIsWriteTop
    <3>2. bt'[c].inTrans = bt[c].inTrans /\ cl'[c].open = cl[c].open
      BY <3>1 DEF WriteTop, TypeOK, Btrees, Clients
    <3> QED BY <2>1, <3>2, OwnedSame
  <2>3. CASE ~Write(c)
    <3>1. \E t : bt' = [bt EXCEPT ![c].svp = t]
      <4>1. [bt EXCEPT ![c].svp = bt[c].svp] = bt
        BY DEF TypeOK, Btrees
      <4> QED BY <1>9, <2>3, <4>1
              DEF CommitFailsInSavepoint, UserSavepoint, BeginStmt, SavepointRelease,
                  SavepointReleaseFails, ReleaseAborts, SavepointRollback
    <3>2. \/ \E m : cl' = [cl EXCEPT ![c].marks = m]
          \/ \E w, m : cl' = [cl EXCEPT ![c].want = w, ![c].marks = m]
      <4>1. CASE UserSavepoint(c) \/ BeginStmt(c)
        BY <4>1 DEF UserSavepoint, BeginStmt
      <4>2. CASE CommitFailsInSavepoint(c)
        BY <4>2 DEF CommitFailsInSavepoint
      <4>3. ASSUME NEW i, SavepointRelease(c, i)
            PROVE  \E m : cl' = [cl EXCEPT ![c].marks = m]
        BY <4>3 DEF SavepointRelease
      <4>4. ASSUME NEW i, SavepointReleaseFails(c, i) \/ SavepointRollback(c, i)
            PROVE  \E w, m : cl' = [cl EXCEPT ![c].want = w, ![c].marks = m]
        BY <4>4 DEF SavepointReleaseFails, ReleaseAborts, SavepointRollback
      <4> QED BY <1>9, <2>3, <4>1, <4>2, <4>3, <4>4
    <3>3. bt'[c].inTrans = bt[c].inTrans /\ cl'[c].open = cl[c].open
      <4>1. ASSUME NEW m, cl' = [cl EXCEPT ![c].marks = m]
            PROVE  cl'[c].open = cl[c].open
        BY <4>1 DEF TypeOK, Clients
      <4>2. ASSUME NEW w, NEW m, cl' = [cl EXCEPT ![c].want = w, ![c].marks = m]
            PROVE  cl'[c].open = cl[c].open
        BY <4>2 DEF TypeOK, Clients
      <4>3. bt'[c].inTrans = bt[c].inTrans
        BY <3>1 DEF TypeOK, Btrees
      <4> QED BY <3>2, <4>1, <4>2, <4>3
    <3> QED BY <2>1, <3>3, OwnedSame, SMTT(30)
  <2> QED BY <2>2, <2>3, SMTT(30)
<1>10. CASE SavepointRollbackAll(c)
  <2>1. bt'[c].inTrans = "NONE" /\ bt'[c].upg = NotUpgrading
    BY <1>10 DEF SavepointRollbackAll, InTxn, Usable, TypeOK, Btrees
  <2> QED BY <1>10, <2>1 DEF SavepointRollbackAll, Owned
<1>11. CASE UpgradeGranted(c)
  <2>1. /\ bt[c].upg # NotUpgrading /\ cl' = cl
        /\ bt'[c].inTrans \in {"READ", "WRITE"} /\ bt'[c].upg = NotUpgrading
    BY <1>11 DEF UpgradeGranted, TypeOK, Btrees
  <2> QED BY <2>1 DEF Owned
<1>12. CASE \E t \in TransTypes : PragmaAlone(c, t) \/ PragmaInWrite(c, t)
  <2>1. bt'[c].inTrans = bt[c].inTrans /\ bt'[c].upg = bt[c].upg /\ cl' = cl
    BY <1>12, SMTT(30) DEF PragmaAlone, PragmaInWrite, TypeOK, Btrees
  <2> QED BY <2>1, OwnedSame
<1> QED BY <1>2, <1>3, <1>4, <1>5, <1>6, <1>7, <1>8, <1>9, <1>10, <1>11, <1>12
        DEF BeginTrans, CommitPhaseOne, Savepoint, Pragma

\* What the callers of the other connections may expect does not change.
LEMMA OnlyOwnCaller ==
  ASSUME TypeOK, NEW c \in Conns,
         \/ BtreeOpen(c) \/ BtreeClose(c) \/ Crash(c) \/ UseDangling(c) \/ Restart(c)
         \/ BeginTrans(c) \/ UpgradeGranted(c) \/ UpgradeFails(c)
         \/ CommitPhaseOne(c) \/ Rollback(c)
         \/ UserSavepoint(c) \/ BeginStmt(c) \/ Savepoint(c)
         \/ Write(c) \/ Pragma(c)
  PROVE  \A d \in Conns \ {c} : cl'[d] = cl[d]
<1> DEFINE Goal == \A d \in Conns \ {c} : cl'[d] = cl[d]
<1>1. CASE \/ BtreeOpen(c) \/ Restart(c) \/ UpgradeGranted(c) \/ UpgradeFails(c)
           \/ Pragma(c)
  BY <1>1 DEF BtreeOpen, Restart, UpgradeGranted, UpgradeFails, Pragma, PragmaAlone,
     PragmaInWrite, PragmaRefused, vars
<1>2. CASE BtreeClose(c) \/ Crash(c) \/ UseDangling(c)
  BY <1>2, SMTT(30) DEF BtreeClose, Crash, UseDangling, Wreck, TypeOK
<1>3. CASE BeginTrans(c)
  BY <1>3 DEF BeginTrans, BeginTransAnswered, BeginTransNew, BeginTransSerialised,
     BeginTransFails, UpgradeStart, UpgradeRefused, vars, TypeOK
<1>4. CASE CommitPhaseOne(c) \/ Rollback(c)
  BY <1>4 DEF CommitPhaseOne, CommitRead, CommitWrite, CommitFailsInSavepoint,
     CommitFailsInCounter, CommitFailsInMdb, Rollback, EndTxn, TypeOK
<1>5. CASE UserSavepoint(c) \/ BeginStmt(c)
  BY <1>5 DEF UserSavepoint, BeginStmt, TypeOK
<1>6. CASE Savepoint(c)
  BY <1>6 DEF Savepoint, SavepointRelease, SavepointReleaseFails, ReleaseAborts,
     SavepointRollback, SavepointRollbackAll, TypeOK
<1>7. CASE Write(c)
  <2>1. PICK d \in DataSet, w \in DataSet : WriteTop(c, d, w)
    BY <1>7, WriteIsWriteTop
  <2> QED BY <2>1 DEF WriteTop, TypeOK
<1> QED BY <1>1, <1>2, <1>3, <1>4, <1>5, <1>6, <1>7, SMTT(30)

OwnedInv == TypeOK /\ LockInv /\ \A c \in Conns : Owned(c)

LEMMA OwnedNext ==
  ASSUME OwnedInv, [Next]_vars
  PROVE  OwnedInv'
<1>1. TypeOK' /\ LockInv'
  BY TypeStep DEF OwnedInv
<1>2. CASE UNCHANGED vars
  BY <1>1, <1>2 DEF vars, OwnedInv, Owned
<1>3. ASSUME NEW c \in Conns,
             \/ BtreeOpen(c) \/ BtreeClose(c) \/ Crash(c) \/ UseDangling(c) \/ Restart(c)
             \/ BeginTrans(c) \/ UpgradeGranted(c) \/ UpgradeFails(c)
             \/ CommitPhaseOne(c) \/ Rollback(c)
             \/ UserSavepoint(c) \/ BeginStmt(c) \/ Savepoint(c)
             \/ Write(c) \/ Pragma(c)
      PROVE  OwnedInv'
  <2>1. TypeOK /\ LockInv /\ \A d \in Conns : Owned(d)
    BY DEF OwnedInv
  <2>2. Owned(c)'
    BY <1>3, <2>1, OwnedStep
  <2>3. \A d \in Conns \ {c} : bt'[d] = bt[d]
    <3>1. LockStep(c)
      BY <1>3, <2>1, LifeLock, BeginLock, CommitLock, SavepointLock, WriteLock, PragmaLock
    <3> QED BY <3>1 DEF LockStep
  <2>4. \A d \in Conns \ {c} : cl'[d] = cl[d]
    BY <1>3, <2>1, OnlyOwnCaller
  <2>5. \A d \in Conns \ {c} : Owned(d)'
    BY <2>1, <2>3, <2>4 DEF Owned
  <2> QED BY <1>1, <2>2, <2>5 DEF OwnedInv
<1> QED BY <1>2, <1>3 DEF Next

LEMMA OwnedInit == Init => OwnedInv
<1> SUFFICES ASSUME Init PROVE OwnedInv
  OBVIOUS
<1>1. ASSUME NEW c \in Conns PROVE Owned(c)
  BY DEF Init, ClosedBtree, Owned
<1> QED BY <1>1, InitInv DEF OwnedInv

\* A transaction the caller has not ended is a transaction of the backend, for
\* any number of connections and whatever fails: only Savepoint(ROLLBACK, -1)
\* ends the transaction of a caller that goes on to use it.
THEOREM OpenCorrect ==
  ASSUME "rollbackTo" \notin Habits
  PROVE  Spec => []TxnStaysOpen
<1>1. OwnedInv /\ [Next]_vars => OwnedInv'
  BY OwnedNext
<1>2. OwnedInv => TxnStaysOpen
  BY DEF OwnedInv, Owned, TxnStaysOpen, IdleClient
<1> QED BY OwnedInit, <1>1, <1>2, PTL DEF Spec

-----------------------------------------------------------------------------
\* A stack s of LMDB transactions that realises a caller's marks and wants:
\* its innermost level sees what the caller wants to see; each level above the
\* main transaction was begun for the mark its nSavepoint names, the innermost
\* for the last one, and hides what the caller saw when it set that mark.
Nest(s, marks, want) ==
  /\ Len(s) - 1 <= Len(marks)
  /\ s[1].n = -1
  /\ s[Len(s)].view.data = want
  /\ \A i \in 2..Len(s) :
       /\ s[i].n = Len(marks) - Len(s) + i
       /\ s[i - 1].view.data = marks[Len(marks) - Len(s) + i]

Nested(c) == Nest(bt[c].svp, cl[c].marks, cl[c].want)

SeesInv(c) ==
  /\ bt[c].inTrans = "READ" =>
       /\ cl[c].want = cl[c].seen /\ cl[c].marks = <<>>
       /\ bt[c].svp # <<>> /\ bt[c].svp[1].live /\ ~Stale(c) =>
            bt[c].svp[1].view.data = cl[c].seen /\ bt[c].svp[1].n = -1
  /\ bt[c].inTrans = "WRITE" => Nested(c)

\* A transaction without open savepoints.
LEMMA NestOne ==
  ASSUME NEW s, Len(s) = 1, s[1].n = -1, NEW marks \in Seq(DataSet),
         NEW want, s[1].view.data = want
  PROVE  Nest(s, marks, want)
<1>1. Len(marks) \in Nat
  BY LenProperties
<1> QED BY <1>1 DEF Nest

\* Which level closeAllSavepoints(i) stops at.
LEMMA NestCutAt ==
  ASSUME NEW s \in Seq(Savepoints), NEW marks \in Seq(DataSet), NEW want,
         Nest(s, marks, want), NEW i \in Nat, NEW m \in 1..Len(s), IsCut(s, i, m)
  PROVE  /\ m # 1 => i = Len(marks) - Len(s) + m
         /\ \A j \in 1..Len(s) : s[j].n = i + 1 =>
              j = m + 1 /\ s[m].view.data = marks[i + 1]
<1> DEFINE n == Len(s)
           k == Len(marks)
<1>1. n \in Nat /\ k \in Nat
  BY LenProperties
<1>2. /\ s[1].n = -1
      /\ \A j \in 2..n : s[j].n = k - n + j /\ s[j - 1].view.data = marks[k - n + j]
  BY DEF Nest
<1>3. (m = 1 \/ s[m].n = i) /\ \A j \in (m + 1)..n : s[j].n # i
  BY DEF IsCut
<1> HIDE DEF n, k
<1>4. m \in Nat /\ m >= 1 /\ m <= n
  BY <1>1 DEF n
<1>5. m # 1 => i = k - n + m
  BY <1>1, <1>2, <1>3, <1>4
<1>6. ASSUME NEW j \in 1..n, s[j].n = i + 1
      PROVE  j = m + 1 /\ s[m].view.data = marks[i + 1]
  <2>1. j # 1
    BY <1>2, <1>6
  <2>2. j \in 2..n /\ i + 1 = k - n + j
    BY <1>1, <1>2, <1>6, <2>1, SMTT(30)
  <2>3. j = m + 1
    <3>1. CASE m # 1
      BY <1>1, <1>4, <1>5, <2>2, <3>1
    <3>2. CASE m = 1 /\ j # 2
      <4>1. j - 1 \in 2..n /\ j - 1 \in (m + 1)..n
        BY <1>1, <2>2, <3>2
      <4>2. s[j - 1].n = k - n + (j - 1)
        BY <1>2, <4>1
      <4>3. s[j - 1].n = i
        BY <1>1, <2>2, <4>2
      <4> QED BY <1>3, <4>1, <4>3
    <3>3. CASE m = 1 /\ j = 2
      BY <3>3
    <3> QED BY <3>1, <3>2, <3>3
  <2>4. s[j - 1].view.data = marks[k - n + j]
    BY <1>2, <2>2
  <2>5. j - 1 = m /\ k - n + j = i + 1
    BY <1>1, <1>4, <2>2, <2>3
  <2> QED BY <2>3, <2>4, <2>5
<1> QED BY <1>5, <1>6 DEF n, k

\* Closing the levels above mark i leaves the stack of the marks up to i.
LEMMA NestCut ==
  ASSUME NEW s \in Seq(Savepoints), NEW marks \in Seq(DataSet), NEW want,
         Nest(s, marks, want), NEW i \in Nat, i < Len(marks),
         NEW m \in 1..Len(s), IsCut(s, i, m), NEW commit \in BOOLEAN,
         NEW t, t = Closed(s, m, commit)
  PROVE  Nest(t, SubSeq(marks, 1, i), t[m].view.data)
<1> DEFINE n == Len(s)
           k == Len(marks)
           u == SubSeq(marks, 1, i)
<1>1. n \in Nat /\ k \in Nat /\ i <= k
  BY LenProperties
<1>2. /\ s[1].n = -1 /\ n - 1 <= k
      /\ \A j \in 2..n : s[j].n = k - n + j /\ s[j - 1].view.data = marks[k - n + j]
  BY DEF Nest
<1>3. /\ Len(t) = m
      /\ \A j \in 1..m : t[j].n = s[j].n /\ (j # m => t[j] = s[j])
  BY StackClosed
<1>4. \A j \in 1..k : marks[j] \in DataSet
  BY ElementOfSeq
<1>5. Len(u) = i /\ \A j \in 1..i : u[j] = marks[j]
  BY <1>1, <1>4, SubSeqProperties
<1>6. m # 1 => i = k - n + m
  BY NestCutAt
<1> HIDE DEF n, k, u
<1>7. m \in Nat /\ m >= 1 /\ m <= n
  BY <1>1 DEF n
<1>8. m - 1 <= i
  BY <1>1, <1>2, <1>6, <1>7
<1>9. t[1].n = -1
  BY <1>2, <1>3, <1>7
<1>10. ASSUME NEW j \in 2..m
       PROVE  t[j].n = i - m + j /\ t[j - 1].view.data = u[i - m + j]
  <2>1. /\ j \in 2..n /\ j \in 1..m /\ j - 1 \in 1..m /\ j - 1 # m /\ i = k - n + m
    BY <1>1, <1>6, <1>7
  <2>2. i - m + j = k - n + j /\ i - m + j \in 1..i
    BY <1>1, <1>7, <1>8, <2>1
  <2>3. t[j].n = s[j].n /\ t[j - 1] = s[j - 1]
    BY <1>3, <2>1
  <2>4. s[j].n = k - n + j /\ s[j - 1].view.data = marks[k - n + j]
    BY <1>2, <2>1
  <2>5. u[i - m + j] = marks[k - n + j]
    BY <1>5, <2>2
  <2> QED BY <2>2, <2>3, <2>4, <2>5
<1>11. Nest(t, u, t[m].view.data)
  BY <1>3, <1>5, <1>8, <1>9, <1>10 DEF Nest
<1> QED BY <1>11 DEF u

\* A statement begins: a mark and a level for it.
LEMMA NestBegun ==
  ASSUME NEW s \in Seq(Savepoints), s # <<>>, NEW marks \in Seq(DataSet),
         NEW want \in DataSet, Nest(s, marks, want), NEW e \in Savepoints,
         e.n = Len(marks) + 1, e.view.data = want
  PROVE  Nest(Append(s, e), Append(marks, want), want)
<1> DEFINE n == Len(s)
           k == Len(marks)
           t == Append(s, e)
           u == Append(marks, want)
<1>1. n \in Nat /\ k \in Nat /\ n >= 1
  BY LenProperties, EmptySeq
<1>2. /\ s[1].n = -1 /\ n - 1 <= k /\ s[n].view.data = want
      /\ \A j \in 2..n : s[j].n = k - n + j /\ s[j - 1].view.data = marks[k - n + j]
  BY DEF Nest
<1>3. Len(t) = n + 1 /\ t[n + 1] = e /\ \A j \in 1..n : t[j] = s[j]
  BY AppendProperties
<1>4. Len(u) = k + 1 /\ u[k + 1] = want /\ \A j \in 1..k : u[j] = marks[j]
  BY AppendProperties
<1>5. e.n = k + 1
  OBVIOUS
<1> HIDE DEF n, k, t, u
<1>6. t[1].n = -1 /\ (n + 1) - 1 <= k + 1
  BY <1>1, <1>2, <1>3
<1>7. ASSUME NEW j \in 2..(n + 1)
      PROVE  /\ t[j].n = (k + 1) - (n + 1) + j
             /\ t[j - 1].view.data = u[(k + 1) - (n + 1) + j]
  <2>1. (k + 1) - (n + 1) + j = k - n + j
    BY <1>1
  <2>2. CASE j = n + 1
    <3>1. k - n + j = k + 1 /\ j - 1 = n /\ n \in 1..n
      BY <1>1, <2>2
    <3> QED BY <1>2, <1>3, <1>4, <1>5, <2>1, <2>2, <3>1, ZenonT(60)
  <2>3. CASE j # n + 1
    <3>1. j \in 2..n /\ j \in 1..n /\ j - 1 \in 1..n /\ k - n + j \in 1..k
      BY <1>1, <1>2, <2>3, SMTT(30)
    <3> QED BY <1>2, <1>3, <1>4, <2>1, <3>1
  <2> QED BY <2>2, <2>3
<1>8. Nest(t, u, want)
  BY <1>3, <1>4, <1>5, <1>6, <1>7 DEF Nest
<1> QED BY <1>8 DEF t, u

\* A write in the innermost level.
LEMMA NestWritten ==
  ASSUME NEW s \in Seq(Savepoints), s # <<>>, NEW marks, NEW want,
         Nest(s, marks, want), NEW d \in DataSet,
         NEW t, t = [s EXCEPT ![Len(s)].view.data = d]
  PROVE  Nest(t, marks, d)
<1>1. Len(s) \in Nat /\ Len(s) \in 1..Len(s) /\ 1 \in 1..Len(s)
  BY LenProperties, EmptySeq
<1>2. /\ Len(t) = Len(s)
      /\ \A i \in 1..Len(s) : /\ t[i].n = s[i].n
                              /\ i # Len(s) => t[i].view = s[i].view
      /\ t[Len(s)].view.data = d
  BY <1>1, StackWrite
<1>3. \A i \in 2..Len(s) : i \in 1..Len(s) /\ i - 1 \in 1..Len(s) /\ i - 1 # Len(s)
  BY <1>1
<1> QED BY <1>1, <1>2, <1>3 DEF Nest

-----------------------------------------------------------------------------
LEMMA SeesSame ==
  ASSUME NEW c \in Conns, SeesInv(c), bt'[c] = bt[c], cl'[c] = cl[c]
  PROVE  SeesInv(c)'
BY DEF SeesInv, Nested, Stale

LEMMA SeesIdle ==
  ASSUME NEW c \in Conns, bt'[c].inTrans = "NONE"
  PROVE  SeesInv(c)'
BY DEF SeesInv

\* A write transaction whose stack and caller agree again.
LEMMA SeesWriting ==
  ASSUME NEW c \in Conns, bt'[c].inTrans = "WRITE",
         NEW t, bt'[c].svp = t, NEW marks, cl'[c].marks = marks,
         NEW want, cl'[c].want = want, Nest(t, marks, want)
  PROVE  SeesInv(c)'
BY DEF SeesInv, Nested

LEMMA LifeSees ==
  ASSUME TypeOK, NEW c \in Conns, UpdateInv(c),
         BtreeOpen(c) \/ BtreeClose(c) \/ Crash(c) \/ UseDangling(c) \/ Restart(c)
  PROVE  SeesInv(c)'
<1>1. CASE BtreeOpen(c) \/ Restart(c)
  <2>1. bt[c].inTrans = "NONE"
    BY <1>1 DEF BtreeOpen, Restart, UpdateInv
  <2>2. bt'[c].inTrans = bt[c].inTrans
    BY <1>1 DEF BtreeOpen, Restart, TypeOK, Btrees
  <2> QED BY <2>1, <2>2, SeesIdle
<1>2. CASE BtreeClose(c) \/ Crash(c) \/ UseDangling(c)
  <2>1. bt'[c].inTrans = "NONE"
    BY <1>2 DEF BtreeClose, Crash, UseDangling, Wreck, ClosedBtree, TypeOK
  <2> QED BY <2>1, SeesIdle
<1> QED BY <1>1, <1>2

\* The main MDB_txn c begins now, and what it means for SeesInv.
LEMMA SeesBegun ==
  ASSUME TypeOK, NEW c \in Conns, NEW rw \in BOOLEAN, NEW t \in Seq(Savepoints),
         Len(t) = 1, t[1] = MainTxn(rw), bt'[c].svp = t,
         bt'[c].inTrans \in {"READ", "WRITE"},
         cl'[c].want = cl'[c].seen, cl'[c].marks = <<>>,
         Stale(c)' \/ cl'[c].seen = db.data,
         bt'[c].inTrans = "WRITE" => cl'[c].seen = db.data
  PROVE  SeesInv(c)'
<1>1. t[1].n = -1 /\ t[1].view = db
  BY DEF MainTxn
<1>2. <<>> \in Seq(DataSet)
  OBVIOUS
<1>3. CASE bt'[c].inTrans = "WRITE"
  <2>1. Nest(t, <<>>, cl'[c].want)
    BY <1>1, <1>2, <1>3, NestOne
  <2> QED BY <1>3, <2>1, SeesWriting
<1>4. CASE bt'[c].inTrans = "READ"
  BY <1>1, <1>4 DEF SeesInv
<1> QED BY <1>3, <1>4

LEMMA BeginSees ==
  ASSUME TypeOK, LockInv, Disciplined, NEW c \in Conns, UpdateInv(c), SeesInv(c),
         BeginTrans(c) \/ UpgradeGranted(c) \/ UpgradeFails(c)
  PROVE  SeesInv(c)'
<1>1. CASE \/ \E wrFlag \in BOOLEAN : BeginTransAnswered(c, wrFlag)
           \/ UpgradeRefused(c) \/ BeginTransFails(c)
  BY <1>1, SeesSame DEF BeginTransAnswered, UpgradeRefused, BeginTransFails, vars
<1>2. CASE BeginTransSerialised(c)
  <2>1. /\ bt[c].inTrans = "READ" /\ bt[c].status = "open" /\ bt[c].svp # <<>>
        /\ bt[c].upg = NotUpgrading /\ c \notin ReadonlyConns
        /\ bt[c].transType = "serialise"
    BY <1>2, InTxnStack DEF BeginTransSerialised, InTxn, Usable
  <2>2. Len(bt[c].svp) = 1 /\ bt[c].svp[1].live
    BY <1>2, <2>1 DEF BeginTransSerialised, InTxn, Dangling, Top, UpdateInv
  <2>3. cl[c].marks \in Seq(DataSet)
    BY DEF TypeOK, Clients
  <2>4. bt[c].svp[1].view.data = cl[c].want /\ bt[c].svp[1].n = -1
    BY <2>1, <2>2 DEF SeesInv, Stale
  <2>5. Nest(bt[c].svp, cl[c].marks, cl[c].want)
    BY <2>2, <2>3, <2>4, NestOne
  <2>6. bt'[c].svp = bt[c].svp /\ bt'[c].inTrans = "WRITE" /\ cl' = cl
    BY <1>2, <2>1 DEF BeginTransSerialised, TypeOK, Btrees
  <2> QED BY <2>5, <2>6, SeesWriting
<1>3. ASSUME NEW wrFlag \in BOOLEAN, BeginTransNew(c, wrFlag)
      PROVE  SeesInv(c)'
  <2> DEFINE rw == wrFlag \/ (bt[c].transType = "serialise" /\ c \notin ReadonlyConns)
             t == <<MainTxn(rw)>>
  <2>1. /\ bt'[c].svp = t /\ bt'[c].inTrans \in {"READ", "WRITE"}
        /\ cl'[c].seen = db.data /\ cl'[c].want = db.data /\ cl'[c].marks = <<>>
    BY <1>3 DEF BeginTransNew, TypeOK, Btrees
  <2>2. rw \in BOOLEAN
    OBVIOUS
  <2> HIDE DEF rw
  <2>3. t \in Seq(Savepoints) /\ Len(t) = 1 /\ t[1] = MainTxn(rw)
    BY <2>2, MainTxnType DEF TypeOK
  <2> HIDE DEF t
  <2> QED BY <2>1, <2>2, <2>3, SeesBegun
<1>4. CASE UpgradeStart(c)
  <2> DEFINE s == bt[c].svp
             t == [s EXCEPT ![1].live = FALSE]
  <2>1. bt[c].inTrans = "READ" /\ s \in Seq(Savepoints) /\ 1 \in 1..Len(s)
    BY <1>4, InTxnStack DEF UpgradeStart, InTxn
  <2>2. bt'[c].inTrans = "READ" /\ bt'[c].svp = t /\ cl' = cl
    BY <1>4, <2>1 DEF UpgradeStart, TypeOK, Btrees
  <2>3. ~t[1].live
    <3> DEFINE e == [s[1] EXCEPT !.live = FALSE]
    <3>1. s[1] \in Savepoints
      BY <2>1, ElementOfSeq
    <3>2. e \in Savepoints /\ ~e.live
      BY <3>1 DEF Savepoints
    <3>3. t = [s EXCEPT ![1] = e]
      OBVIOUS
    <3> HIDE DEF e, t, s
    <3>4. t[1] = e
      BY <2>1, <3>2, <3>3, ExceptSeq
    <3> QED BY <3>2, <3>4
  <2> HIDE DEF t
  <2> QED BY <2>1, <2>2, <2>3 DEF SeesInv
<1>5. CASE UpgradeGranted(c)
  <2> DEFINE s == bt[c].svp
             t == [s EXCEPT ![1] = MainTxn(TRUE)]
  <2>1. Waiting(c)
    BY <1>5 DEF UpgradeGranted, UpdateInv
  <2>2. s \in Seq(Savepoints) /\ s # <<>> /\ Len(s) = 1 /\ MainTxn(TRUE) \in Savepoints
    BY <1>5, <2>1, MainTxnType
       DEF UpgradeGranted, TypeOK, Btrees, LockInv, Pending, Waits, Waiting
  <2>3. /\ bt'[c].svp = t /\ bt'[c].transType = "optimistic" /\ cl' = cl
        /\ bt'[c].inTrans = (IF bt[c].upg = db.counter THEN "WRITE" ELSE "READ")
    BY <1>5, <2>1 DEF UpgradeGranted, Waiting, TypeOK, Btrees
  <2>4. t \in Seq(Savepoints) /\ Len(t) = 1 /\ t[1] = MainTxn(TRUE) /\ t # <<>>
    <3> DEFINE e == MainTxn(TRUE)
    <3>1. s \in Seq(Savepoints) /\ 1 \in 1..Len(s) /\ e \in Savepoints
      <4>1. 1 \in 1..Len(s)
        <5> HIDE DEF e, s, t
        <5> QED BY <2>2
      <4> QED BY <2>2, <4>1
    <3>2. t = [s EXCEPT ![1] = e]
      OBVIOUS
    <3> HIDE DEF e, t, s
    <3>3. t \in Seq(Savepoints) /\ Len(t) = Len(s) /\ t[1] = e
      BY ONLY <3>1, <3>2, ExceptSeq
    <3>4. Len(t) = 1 /\ t # <<>>
      BY <2>2, <3>3, EmptySeq
    <3> QED BY <3>3, <3>4 DEF e
  <2> HIDE DEF t
  <2>5. cl[c].want = cl[c].seen /\ cl[c].marks = <<>>
    BY <2>1 DEF Waiting, SeesInv
  <2>6. bt[c].upg = db.counter => cl[c].seen = db.data
    BY <2>1 DEF Waiting, Seen
  <2>7. bt[c].upg # db.counter => Stale(c)'
    BY <2>3, <2>4 DEF Stale, MainTxn
  <2>8. TRUE \in BOOLEAN
    OBVIOUS
  <2> QED BY <2>3, <2>4, <2>5, <2>6, <2>7, <2>8, SeesBegun
<1>6. CASE UpgradeFails(c)
  <2>1. bt[c].inTrans = "READ"
    BY <1>6 DEF UpgradeFails, UpdateInv, Waiting
  <2>2. bt'[c].svp = <<>> /\ bt'[c].inTrans = "READ" /\ UNCHANGED cl
    BY <1>6, <2>1 DEF UpgradeFails, TypeOK, Btrees
  <2> QED BY <2>1, <2>2 DEF SeesInv
<1> QED BY <1>1, <1>2, <1>3, <1>4, <1>5, <1>6 DEF BeginTrans

\* What is known of c's stack and caller inside a write transaction.
LEMMA WriterNest ==
  ASSUME TypeOK, NEW c \in Conns, SeesInv(c), InTxn(c, {"WRITE"})
  PROVE  /\ bt[c] \in Btrees /\ bt[c].inTrans = "WRITE"
         /\ bt[c].svp # <<>> /\ bt[c].svp \in Seq(Savepoints)
         /\ 1 \in 1..Len(bt[c].svp) /\ Len(bt[c].svp) \in Nat
         /\ cl[c] \in Clients /\ cl[c].marks \in Seq(DataSet)
         /\ Len(cl[c].marks) \in Nat /\ cl[c].want \in DataSet
         /\ Nest(bt[c].svp, cl[c].marks, cl[c].want)
         /\ Top(c).view.data = cl[c].want
<1>1. /\ bt[c].svp # <<>> /\ bt[c].svp \in Seq(Savepoints)
      /\ 1 \in 1..Len(bt[c].svp) /\ Len(bt[c].svp) \in Nat
  BY InTxnStack
<1>2. bt[c].inTrans = "WRITE"
  BY DEF InTxn
<1>3. Nest(bt[c].svp, cl[c].marks, cl[c].want)
  BY <1>2 DEF SeesInv, Nested
<1>4. bt[c] \in Btrees /\ cl[c] \in Clients
  BY DEF TypeOK
<1>5. /\ cl[c].marks \in Seq(DataSet) /\ Len(cl[c].marks) \in Nat
      /\ cl[c].want \in DataSet
  BY <1>4, LenProperties DEF Clients
<1> QED BY <1>1, <1>2, <1>3, <1>4, <1>5 DEF Nest, Top

\* All levels but the main transaction are aborted, and the caller knows.
LEMMA MainOnlySees ==
  ASSUME TypeOK, NEW c \in Conns, SeesInv(c), InTxn(c, {"WRITE"}),
         bt' = [bt EXCEPT ![c].svp = Closed(@, 1, FALSE)],
         cl' = [cl EXCEPT ![c].want = bt[c].svp[1].view.data, ![c].marks = <<>>]
  PROVE  SeesInv(c)'
<1> DEFINE s == bt[c].svp
           t == Closed(s, 1, FALSE)
           w == s[1].view.data
<1>1. /\ s \in Seq(Savepoints) /\ 1 \in 1..Len(s) /\ Nest(s, cl[c].marks, cl[c].want)
      /\ bt[c].inTrans = "WRITE"
  BY WriterNest
<1>2. /\ bt'[c].inTrans = "WRITE" /\ bt'[c].svp = t
      /\ cl'[c].want = w /\ cl'[c].marks = <<>>
  BY <1>1 DEF TypeOK, Btrees, Clients
<1>3. t = Closed(s, 1, FALSE)
  OBVIOUS
<1>4. s[1].n = -1
  BY <1>1 DEF Nest
<1>5. s[1].view.data = w
  OBVIOUS
<1> HIDE DEF s, t, w
<1>6. \A m \in 1..Len(s), commit \in BOOLEAN : t = Closed(s, m, commit) =>
        /\ Len(t) = m /\ t[m].view = (IF commit THEN s[Len(s)].view ELSE s[m].view)
        /\ \A i \in 1..m : t[i].n = s[i].n
  BY <1>1, StackClosed
<1>7. Len(t) = 1 /\ t[1].view = s[1].view /\ \A i \in 1..1 : t[i].n = s[i].n
  BY <1>1, <1>3, <1>6
<1>8. t[1].n = -1 /\ t[1].view.data = w
  BY <1>4, <1>5, <1>7
<1>9. Nest(t, <<>>, w)
  <2>1. <<>> \in Seq(DataSet)
    OBVIOUS
  <2> QED BY <1>7, <1>8, <2>1, NestOne
<1> QED BY <1>2, <1>9, SeesWriting

LEMMA CommitSees ==
  ASSUME TypeOK, NEW c \in Conns, SeesInv(c), CommitPhaseOne(c) \/ Rollback(c)
  PROVE  SeesInv(c)'
<1>1. CASE CommitRead(c) \/ Rollback(c) \/ CommitWrite(c) \/ CommitFailsInCounter(c)
  <2>1. EndTxn(c) \/ UNCHANGED <<bt, cl>>
    BY <1>1 DEF CommitRead, Rollback, CommitWrite, CommitFailsInCounter
  <2>2. EndTxn(c) => bt'[c].inTrans = "NONE"
    BY DEF EndTxn, TypeOK, Btrees
  <2> QED BY <2>1, <2>2, SeesIdle, SeesSame
<1>2. CASE CommitFailsInSavepoint(c)
  BY <1>2, MainOnlySees DEF CommitFailsInSavepoint
<1>3. CASE CommitFailsInMdb(c)
  <2>1. bt'[c].inTrans = "NONE"
    BY <1>3 DEF CommitFailsInMdb, TypeOK, Btrees
  <2> QED BY <2>1, SeesIdle
<1> QED BY <1>1, <1>2, <1>3 DEF CommitPhaseOne

\* A savepoint or statement is closed down to mark i.
LEMMA CutSees ==
  ASSUME TypeOK, NEW c \in Conns, SeesInv(c), InTxn(c, {"WRITE"}),
         NEW i \in Nat, i < Len(cl[c].marks),
         NEW m \in 1..Len(bt[c].svp), IsCut(bt[c].svp, i, m), NEW commit \in BOOLEAN,
         bt' = [bt EXCEPT ![c].svp = Closed(@, m, commit)],
         cl'[c].marks = SubSeq(cl[c].marks, 1, i),
         cl'[c].want = IF commit THEN cl[c].want ELSE bt[c].svp[m].view.data
  PROVE  SeesInv(c)'
<1> DEFINE s == bt[c].svp
           t == Closed(s, m, commit)
           u == SubSeq(cl[c].marks, 1, i)
<1>1. /\ s \in Seq(Savepoints) /\ cl[c].marks \in Seq(DataSet)
      /\ Nest(s, cl[c].marks, cl[c].want) /\ bt[c].inTrans = "WRITE"
  BY WriterNest
<1>2. bt'[c].inTrans = "WRITE" /\ bt'[c].svp = t
  BY <1>1 DEF TypeOK, Btrees
<1>3. t = Closed(s, m, commit) /\ m \in 1..Len(s) /\ IsCut(s, i, m)
  OBVIOUS
<1>4. cl'[c].marks = u /\ cl'[c].want = IF commit THEN cl[c].want ELSE s[m].view.data
  OBVIOUS
<1> HIDE DEF s, t
<1>5. Nest(t, u, t[m].view.data)
  BY <1>1, <1>3, NestCut
<1>6. t[m].view = IF commit THEN s[Len(s)].view ELSE s[m].view
  BY <1>1, <1>3, StackClosed
<1>7. s[Len(s)].view.data = cl[c].want
  BY <1>1 DEF Nest
<1>8. t[m].view.data = cl'[c].want
  BY <1>4, <1>6, <1>7
<1>9. Nest(t, u, cl'[c].want)
  BY <1>5, <1>8
<1> HIDE DEF u
<1> QED BY <1>2, <1>4, <1>9, SeesWriting

LEMMA SavepointSees ==
  ASSUME TypeOK, NEW c \in Conns, SeesInv(c),
         UserSavepoint(c) \/ BeginStmt(c) \/ Savepoint(c)
  PROVE  SeesInv(c)'
<1>1. CASE UserSavepoint(c)
  <2> DEFINE u == Append(cl[c].marks, cl[c].want)
  <2>1. /\ InTxn(c, {"WRITE"}) /\ Len(bt[c].svp) = 1 /\ bt' = bt
        /\ cl'[c].marks = u /\ cl'[c].want = cl[c].want
    BY <1>1 DEF UserSavepoint, TypeOK, Clients
  <2>2. /\ bt[c].inTrans = "WRITE" /\ cl[c].marks \in Seq(DataSet)
        /\ cl[c].want \in DataSet /\ Nest(bt[c].svp, cl[c].marks, cl[c].want)
    BY <2>1, WriterNest
  <2>3. u \in Seq(DataSet)
    BY <2>2, AppendProperties
  <2> HIDE DEF u
  <2>4. bt[c].svp[1].n = -1 /\ bt[c].svp[1].view.data = cl[c].want
    BY <2>1, <2>2 DEF Nest
  <2>5. Nest(bt[c].svp, u, cl[c].want)
    BY <2>1, <2>3, <2>4, NestOne
  <2> QED BY <2>1, <2>2, <2>5, SeesWriting
<1>2. CASE BeginStmt(c)
  <2> DEFINE e == [n |-> Len(cl[c].marks) + 1, rw |-> TRUE, live |-> TRUE,
                   view |-> Top(c).view]
             s == bt[c].svp
             t == Append(s, e)
             u == Append(cl[c].marks, cl[c].want)
  <2>1. InTxn(c, {"WRITE"})
    BY <1>2 DEF BeginStmt
  <2>2. /\ s # <<>> /\ s \in Seq(Savepoints) /\ cl[c].marks \in Seq(DataSet)
        /\ cl[c].want \in DataSet /\ Nest(s, cl[c].marks, cl[c].want)
        /\ Top(c).view.data = cl[c].want /\ bt[c].inTrans = "WRITE"
        /\ Len(cl[c].marks) \in Nat /\ Top(c).view \in View
    BY <2>1, WriterNest, TopType DEF TypeOK
  <2>3. /\ e \in Savepoints /\ e.n = Len(cl[c].marks) + 1
        /\ e.view.data = cl[c].want
    BY <2>2 DEF Savepoints
  <2>4. /\ bt'[c].inTrans = "WRITE" /\ bt'[c].svp = t
        /\ cl'[c].marks = u /\ cl'[c].want = cl[c].want
    BY <1>2, <2>2 DEF BeginStmt, TypeOK, Btrees, Clients
  <2> HIDE DEF e, s
  <2>5. Nest(t, u, cl[c].want)
    BY <2>2, <2>3, NestBegun
  <2> HIDE DEF t, u
  <2> QED BY <2>4, <2>5, SeesWriting
<1>3. ASSUME NEW i \in Nat, SavepointRelease(c, i)
      PROVE  SeesInv(c)'
  <2>1. /\ InTxn(c, {"WRITE"}) /\ i < Len(cl[c].marks)
        /\ cl'[c].marks = SubSeq(cl[c].marks, 1, i) /\ cl'[c].want = cl[c].want
    BY <1>3 DEF SavepointRelease, TypeOK, Clients
  <2>2. PICK m \in 1..Len(bt[c].svp) :
          /\ IsCut(bt[c].svp, i, m)
          /\ bt' = [bt EXCEPT ![c].svp = Closed(@, m, TRUE)]
    BY <1>3 DEF SavepointRelease
  <2>3. \A commit \in BOOLEAN :
          commit => bt' = [bt EXCEPT ![c].svp = Closed(@, m, commit)]
    BY <2>2
  <2>4. PICK commit \in BOOLEAN : commit
    OBVIOUS
  <2> QED BY <2>1, <2>2, <2>3, <2>4, CutSees
<1>4. ASSUME NEW i \in Nat, SavepointReleaseFails(c, i)
      PROVE  SeesInv(c)'
  <2>1. /\ InTxn(c, {"WRITE"}) /\ i < Len(cl[c].marks)
        /\ cl'[c].marks = SubSeq(cl[c].marks, 1, i)
    BY <1>4 DEF SavepointReleaseFails, ReleaseAborts, TypeOK, Clients
  <2>2. PICK m \in 1..Len(bt[c].svp) :
          /\ IsCut(bt[c].svp, i, m)
          /\ bt' = [bt EXCEPT ![c].svp = Closed(@, m, FALSE)]
          /\ cl' = [cl EXCEPT ![c].want = bt[c].svp[m].view.data,
                              ![c].marks = SubSeq(@, 1, i)]
    BY <1>4 DEF SavepointReleaseFails, ReleaseAborts
  <2>3. cl'[c].want = bt[c].svp[m].view.data
    BY <2>2 DEF TypeOK, Clients
  <2>4. PICK commit \in BOOLEAN : ~commit
    OBVIOUS
  <2>5. bt' = [bt EXCEPT ![c].svp = Closed(@, m, commit)]
    <3>1. commit = FALSE
      BY <2>4
    <3> QED BY <2>2, <3>1
  <2> QED BY <2>1, <2>2, <2>3, <2>4, <2>5, CutSees
<1>5. ASSUME NEW i \in Nat, SavepointRollback(c, i)
      PROVE  SeesInv(c)'
  <2>1. /\ InTxn(c, {"WRITE"}) /\ i < Len(cl[c].marks)
        /\ cl'[c].marks = SubSeq(cl[c].marks, 1, i)
        /\ cl'[c].want = cl[c].marks[i + 1]
    BY <1>5 DEF SavepointRollback, TypeOK, Clients
  <2>2. PICK j \in 1..Len(bt[c].svp) : bt[c].svp[j].n = i + 1
    BY <1>5 DEF SavepointRollback
  <2>3. PICK m \in 1..Len(bt[c].svp) :
          /\ IsCut(bt[c].svp, i, m)
          /\ bt' = [bt EXCEPT ![c].svp = Closed(@, m, FALSE)]
    BY <1>5 DEF SavepointRollback
  <2>4. bt[c].svp[m].view.data = cl[c].marks[i + 1]
    BY <2>1, <2>2, <2>3, WriterNest, NestCutAt
  <2>5. PICK commit \in BOOLEAN : ~commit
    OBVIOUS
  <2>6. bt' = [bt EXCEPT ![c].svp = Closed(@, m, commit)]
    <3>1. commit = FALSE
      BY <2>5
    <3> QED BY <2>3, <3>1
  <2> QED BY <2>1, <2>3, <2>4, <2>5, <2>6, CutSees
<1>6. CASE SavepointRollbackAll(c)
  <2>1. bt'[c].inTrans = "NONE"
    BY <1>6 DEF SavepointRollbackAll, TypeOK, Btrees
  <2> QED BY <2>1, SeesIdle
<1>7. 0..(MaxDepth - 1) \subseteq Nat
  BY BtreeAssumption
<1> QED BY <1>1, <1>2, <1>3, <1>4, <1>5, <1>6, <1>7 DEF Savepoint

\* A write that starts from what the caller wants does what the caller wants.
LEMMA WriteAgrees ==
  ASSUME TypeOK, NEW c \in Conns, Write(c), Top(c).view.data = cl[c].want
  PROVE  \E d \in DataSet : WriteTop(c, d, d)
<1> DEFINE Goal == \E d \in DataSet : WriteTop(c, d, d)
           w == cl[c].want
<1>1. w \in DataSet /\ 1 \in Roots
  BY DEF TypeOK, Clients, Roots
<1>2. ASSUME NEW r \in Roots, NEW k \in Keys, NEW x \in Vals \cup {NoVal},
             WriteRow(c, r, k, x)
      PROVE  Goal
  BY <1>1, <1>2, PutType DEF WriteRow
<1>3. ASSUME CreateTable(c) PROVE Goal
  BY <1>1, <1>3, NewTableType DEF CreateTable
<1>4. ASSUME NEW r \in Roots, DropTable(c, r) PROVE Goal
  <2>1. Dropped(w, r) \in DataSet
    BY <1>1, EmptyType DEF Dropped
  <2> QED BY <1>4, <2>1 DEF DropTable
<1>5. ASSUME NEW r \in Roots, ClearTable(c, r) PROVE Goal
  BY <1>1, <1>5, EmptyType DEF ClearTable
<1>6. ASSUME NEW x \in SchemaVals, UpdateMeta(c, x) PROVE Goal
  <2>1. [w EXCEPT !.schema = x] \in DataSet
    BY <1>1 DEF DataSet
  <2>2. WriteTop(c, [w EXCEPT !.schema = x], [w EXCEPT !.schema = x])
    BY <1>6 DEF UpdateMeta
  <2> QED BY <2>1, <2>2
<1> QED BY <1>2, <1>3, <1>4, <1>5, <1>6 DEF Write

LEMMA WriteSees ==
  ASSUME TypeOK, NEW c \in Conns, SeesInv(c), Write(c)
  PROVE  SeesInv(c)'
<1> DEFINE s == bt[c].svp
<1>1. InTxn(c, {"WRITE"})
  BY WriteIsWriteTop
<1>2. /\ s \in Seq(Savepoints) /\ s # <<>> /\ Nest(s, cl[c].marks, cl[c].want)
      /\ bt[c].inTrans = "WRITE" /\ Top(c).view.data = cl[c].want
  BY <1>1, WriterNest
<1>3. PICK d \in DataSet : WriteTop(c, d, d)
  BY <1>2, WriteAgrees
<1> DEFINE t == [s EXCEPT ![Len(s)].view.data = d]
<1>4. /\ bt'[c].inTrans = "WRITE" /\ bt'[c].svp = t
      /\ cl'[c].marks = cl[c].marks /\ cl'[c].want = d
  BY <1>2, <1>3 DEF WriteTop, TypeOK, Btrees, Clients
<1>5. t = [s EXCEPT ![Len(s)].view.data = d]
  OBVIOUS
<1> HIDE DEF s, t
<1>6. Nest(t, cl[c].marks, d)
  BY <1>2, <1>5, NestWritten
<1> QED BY <1>4, <1>6, SeesWriting

LEMMA PragmaSees ==
  ASSUME TypeOK, Disciplined, NEW c \in Conns, SeesInv(c), Pragma(c)
  PROVE  SeesInv(c)'
<1>1. ASSUME NEW t \in TransTypes, PragmaAlone(c, t)
      PROVE  SeesInv(c)'
  <2>1. bt'[c].inTrans = "NONE"
    BY <1>1 DEF PragmaAlone, TypeOK, Btrees
  <2> QED BY <2>1, SeesIdle
<1>2. CASE PragmaRefused(c)
  BY <1>2, SeesSame DEF PragmaRefused, vars
<1>3. \A t \in TransTypes : ~PragmaInWrite(c, t)
  BY DEF PragmaInWrite, Disciplined
<1> QED BY <1>1, <1>2, <1>3 DEF Pragma

-----------------------------------------------------------------------------
TxnInv == IInv /\ \A c \in Conns : SeesInv(c) /\ Owned(c)

\* The actions of one connection, between two calls of Next.
Step(c) ==
  \/ BtreeOpen(c) \/ BtreeClose(c) \/ Crash(c) \/ UseDangling(c) \/ Restart(c)
  \/ BeginTrans(c) \/ UpgradeGranted(c) \/ UpgradeFails(c)
  \/ CommitPhaseOne(c) \/ Rollback(c)
  \/ UserSavepoint(c) \/ BeginStmt(c) \/ Savepoint(c)
  \/ Write(c) \/ Pragma(c)

\* A step of c leaves the other connections and their callers alone.
Kept(c) == \A d \in Conns \ {c} : bt'[d] = bt[d] /\ cl'[d] = cl[d]

LEMMA NextSteps == Next => \E c \in Conns : Step(c)
BY DEF Next, Step

LEMMA StepKeeps ==
  ASSUME TypeOK, LockInv, NEW c \in Conns, Step(c)
  PROVE  Kept(c)
<1>1. LockStep(c)
  BY LifeLock, BeginLock, CommitLock, SavepointLock, WriteLock, PragmaLock DEF Step
<1>2. \A d \in Conns \ {c} : cl'[d] = cl[d]
  BY OnlyOwnCaller DEF Step
<1> QED BY <1>1, <1>2 DEF LockStep, Kept

LEMMA TxnNext ==
  ASSUME Disciplined, TxnInv, [Next]_vars
  PROVE  TxnInv'
<1>1. IInv'
  BY UpdateNext DEF TxnInv
<1>2. CASE UNCHANGED vars
  <2>1. ASSUME NEW c \in Conns PROVE SeesInv(c)' /\ Owned(c)'
    BY <1>2, SeesSame DEF vars, TxnInv, Owned
  <2> QED BY <1>1, <2>1 DEF TxnInv
<1>3. ASSUME NEW c \in Conns, Step(c) PROVE TxnInv'
  <2>1. /\ TypeOK /\ LockInv /\ UpdateInv(c)
        /\ \A d \in Conns : SeesInv(d) /\ Owned(d)
    BY DEF TxnInv, IInv
  <2>2. SeesInv(c)'
    BY <1>3, <2>1, LifeSees, BeginSees, CommitSees, SavepointSees, WriteSees, PragmaSees
       DEF Step
  <2>3. Owned(c)'
    BY <1>3, <2>1, OwnedStep DEF Step
  <2>4. \A d \in Conns \ {c} : SeesInv(d)' /\ Owned(d)'
    <3>1. Kept(c)
      BY <1>3, <2>1, StepKeeps
    <3> QED BY <2>1, <3>1, SeesSame DEF Kept, Owned
  <2> QED BY <1>1, <2>2, <2>3, <2>4 DEF TxnInv
<1> QED BY <1>2, <1>3, NextSteps

LEMMA TxnInit == Init => TxnInv
<1> SUFFICES ASSUME Init PROVE TxnInv
  OBVIOUS
<1>1. ASSUME NEW c \in Conns PROVE SeesInv(c) /\ Owned(c)
  BY DEF Init, ClosedBtree, SeesInv, Owned
<1> QED BY <1>1, InitUpdate DEF TxnInv

\* A transaction sees the snapshot it started from and its own writes, with
\* rolled back statements undone and released ones kept, for any nesting of
\* savepoints and statements and whatever LMDB call fails: closeAllSavepoints
\* never closes a level too many or too few.
THEOREM SeesCorrect ==
  ASSUME Disciplined
  PROVE  Spec => []SeesItsTransaction
<1>1. TxnInv /\ [Next]_vars => TxnInv'
  BY TxnNext
<1>2. TxnInv => SeesItsTransaction
  <2> SUFFICES ASSUME TxnInv, NEW c \in Conns, InTxn(c, {"READ", "WRITE"}), ~Stale(c)
               PROVE  Top(c).view.data = cl[c].want
    BY DEF SeesItsTransaction
  <2>1. TypeOK /\ UpdateInv(c) /\ SeesInv(c)
    BY DEF TxnInv, IInv
  <2>2. CASE bt[c].inTrans = "WRITE"
    BY <2>1, <2>2 DEF SeesInv, Nested, Nest, Top
  <2>3. CASE bt[c].inTrans = "READ"
    <3>1. bt[c].svp # <<>> /\ Len(bt[c].svp) = 1
      BY <2>1, <2>3, InTxnStack DEF UpdateInv
    <3>2. bt[c].svp[1].live
      BY <2>3, <3>1 DEF InTxn, Dangling, Top
    <3> QED BY <2>1, <2>3, <3>1, <3>2 DEF SeesInv, Top
  <2> QED BY <2>2, <2>3 DEF InTxn
<1> QED BY TxnInit, <1>1, <1>2, PTL DEF Spec

-----------------------------------------------------------------------------
\* The committed data change only with page 1 of a new file, or with the
\* commit of a write transaction.
LEMMA DataChange ==
  ASSUME TypeOK, Disciplined, NEW c \in Conns, UpdateInv(c), Step(c)
  PROVE  \/ db'.data = db.data
         \/ BtreeOpen(c) /\ 1 \notin db.data.tabs
         \/ CommitWrite(c)
<1>1. CASE BtreeOpen(c) /\ 1 \in db.data.tabs
  <2>1. CASE db' = db
    BY <2>1
  <2>2. CASE db' = [db EXCEPT !.data = MdbCreate(@, 1)]
    <3>1. db.data.tabs \cup {1} = db.data.tabs
      BY <1>1
    <3>2. MdbCreate(db.data, 1) = [db.data EXCEPT !.tabs = db.data.tabs]
      BY <3>1 DEF MdbCreate
    <3>3. db \in View /\ db.data \in DataSet
      BY DEF TypeOK, View
    <3>4. MdbCreate(db.data, 1) = db.data
      BY <3>2, <3>3 DEF DataSet
    <3> QED BY <2>2, <3>3, <3>4 DEF View
  <2> QED BY <1>1, <2>1, <2>2 DEF BtreeOpen
<1>2. CASE BtreeClose(c) \/ Crash(c) \/ UseDangling(c) \/ Restart(c)
  BY <1>2, SMTT(30) DEF BtreeClose, Crash, UseDangling, Wreck, Restart
<1>3. CASE BeginTrans(c) \/ UpgradeGranted(c) \/ UpgradeFails(c)
  BY <1>3 DEF BeginTrans, BeginTransAnswered, BeginTransNew, BeginTransSerialised,
     BeginTransFails, UpgradeStart, UpgradeRefused, UpgradeGranted, UpgradeFails, vars
<1>4. CASE CommitPhaseOne(c) \/ Rollback(c)
  BY <1>4 DEF CommitPhaseOne, CommitRead, CommitFailsInSavepoint, CommitFailsInCounter,
     CommitFailsInMdb, Rollback
<1>5. CASE UserSavepoint(c) \/ BeginStmt(c) \/ Savepoint(c)
  BY <1>5 DEF UserSavepoint, BeginStmt, Savepoint, SavepointRelease,
     SavepointReleaseFails, ReleaseAborts, SavepointRollback, SavepointRollbackAll
<1>6. CASE Write(c)
  BY <1>6, WriteIsWriteTop DEF WriteTop
<1>7. CASE Pragma(c)
  <2>1. \A t \in TransTypes : ~PragmaInWrite(c, t)
    BY DEF PragmaInWrite, Disciplined
  <2> QED BY <1>7, <2>1 DEF Pragma, PragmaAlone, PragmaRefused, vars, TypeOK, View
<1> QED BY <1>1, <1>2, <1>3, <1>4, <1>5, <1>6, <1>7 DEF Step

\* Whoever changes the data moves the commit counter with it, for any number
\* of connections and commits below the bound: this is what makes the counter
\* a test for a lost update.
THEOREM CounterCorrect ==
  ASSUME Disciplined
  PROVE  Spec => CounterTracksData
<1>1. IInv /\ [Next]_vars => IInv'
  BY UpdateNext
<1>2. IInv /\ [Next]_vars =>
        [db'.data # db.data /\ 1 \in db.data.tabs => db'.counter # db.counter]_vars
  <2> SUFFICES ASSUME IInv, NEW c \in Conns, Step(c),
                      db'.data # db.data, 1 \in db.data.tabs
               PROVE  db'.counter # db.counter
    BY NextSteps
  <2>1. TypeOK /\ LockInv /\ UpdateInv(c)
    BY DEF IInv
  <2>2. CommitWrite(c)
    BY <2>1, DataChange
  <2>3. UpdateStep(c)
    BY <2>1, <2>2, CommitUpdate DEF CommitPhaseOne
  <2>4. db'.counter = db.counter + 1
    BY <2>3 DEF UpdateStep, DbStep, DbSame, DbFormatted, DbPublished
  <2>5. db.counter \in Int
    BY <2>1, EnvAssumption DEF TypeOK, View
  <2> QED BY <2>4, <2>5
<1> QED BY InitUpdate, <1>1, <1>2, PTL DEF Spec, CounterTracksData

\* The data of a file change only when a transaction ends, into exactly what
\* its caller expects after all its savepoints and statements: a commit
\* publishes all of a transaction or nothing, whatever LMDB call fails.
THEOREM PublishCorrect ==
  ASSUME Disciplined
  PROVE  Spec => CommitPublishesTxn
<1>1. TxnInv /\ [Next]_vars => TxnInv'
  BY TxnNext
<1>2. TxnInv /\ [Next]_vars =>
        [db'.data # db.data /\ 1 \in db.data.tabs
           => \E c \in Conns : /\ cl[c].open /\ ~cl'[c].open
                               /\ db'.data = cl[c].want]_vars
  <2> SUFFICES ASSUME TxnInv, NEW c \in Conns, Step(c),
                      db'.data # db.data, 1 \in db.data.tabs
               PROVE  /\ cl[c].open /\ ~cl'[c].open
                      /\ db'.data = cl[c].want
    BY NextSteps
  <2>1. TypeOK /\ LockInv /\ UpdateInv(c) /\ SeesInv(c) /\ Owned(c)
    BY DEF TxnInv, IInv
  <2>2. CommitWrite(c)
    BY <2>1, DataChange
  <2>3. InTxn(c, {"WRITE"}) /\ db' = [Top(c).view EXCEPT !.counter = NextCounter(@)]
        /\ cl' = [cl EXCEPT ![c] = IdleClient]
    BY <2>2 DEF CommitWrite, EndTxn
  <2>4. cl[c].open
    BY <2>1, <2>3, WriterNest DEF Owned
  <2>5. ~cl'[c].open
    BY <2>1, <2>3 DEF TypeOK, IdleClient
  <2>6. Top(c).view \in View /\ Top(c).view.data = cl[c].want
    BY <2>1, <2>3, WriterNest, TopType DEF TypeOK
  <2>7. db'.data = cl[c].want
    BY <2>3, <2>6 DEF View
  <2> QED BY <2>4, <2>5, <2>7
<1> QED BY TxnInit, <1>1, <1>2, PTL DEF Spec, CommitPublishesTxn

-----------------------------------------------------------------------------
\* The refinement: the backend as TxnStore sees it.
StoreBase == [c \in Conns |-> cl[c].seen]

StoreVars == <<db.data, StoreMode, StoreBase, StoreWork>>

\* A file without page 1 has nothing else in it either.
BlankInv == 1 \notin db.data.tabs => db.data = EmptyData

StoreInv == TxnInv /\ BlankInv

\* A function that changes at one point only.
LEMMA ChangeAt ==
  ASSUME NEW S, NEW c \in S, NEW f, NEW g,
         f = [x \in S |-> f[x]], g = [x \in S |-> g[x]],
         \A d \in S \ {c} : g[d] = f[d]
  PROVE  g = [f EXCEPT ![c] = g[c]]
OBVIOUS

\* What c sees of its transaction.
WorkAt(c) == IF InTxn(c, {"READ", "WRITE"}) /\ ~Stale(c) THEN Top(c).view.data
                                                         ELSE cl[c].seen

ModeAt(c) == CASE bt[c].inTrans = "NONE"  -> "none"
               [] bt[c].inTrans = "READ"  -> "read"
               [] bt[c].inTrans = "WRITE" -> "write"

LEMMA ModePoints ==
  /\ StoreMode = [c \in Conns |-> ModeAt(c)]
  /\ StoreMode' = [c \in Conns |-> ModeAt(c)']
BY DEF StoreMode, ModeAt

LEMMA WorkPoints == StoreWork = [c \in Conns |-> WorkAt(c)]
BY DEF StoreWork, WorkAt

LEMMA WorkPointsNext == StoreWork' = [c \in Conns |-> WorkAt(c)']
BY DEF StoreWork, WorkAt

LEMMA StoreShapes ==
  /\ StoreMode = [c \in Conns |-> StoreMode[c]]
  /\ StoreBase = [c \in Conns |-> StoreBase[c]]
  /\ StoreWork = [c \in Conns |-> StoreWork[c]]
<1>1. StoreWork = [c \in Conns |-> StoreWork[c]]
  BY WorkPoints
<1>2. StoreMode = [c \in Conns |-> StoreMode[c]]
  BY ModePoints
<1>3. StoreBase = [c \in Conns |-> StoreBase[c]]
  BY DEF StoreBase
<1> QED BY <1>1, <1>2, <1>3

LEMMA ModeOf ==
  ASSUME NEW c \in Conns
  PROVE  /\ bt[c].inTrans = "NONE" => StoreMode[c] = "none"
         /\ bt[c].inTrans = "READ" => StoreMode[c] = "read"
         /\ bt[c].inTrans = "WRITE" => StoreMode[c] = "write"
         /\ StoreBase[c] = cl[c].seen
BY DEF StoreMode, StoreBase

\* Outside a write transaction c works on what it has seen.
LEMMA WorkOf ==
  ASSUME TypeOK, NEW c \in Conns, UpdateInv(c), SeesInv(c)
  PROVE  /\ bt[c].inTrans # "WRITE" => StoreWork[c] = cl[c].seen
         /\ InTxn(c, {"WRITE"}) => StoreWork[c] = Top(c).view.data
         /\ StoreWork[c] \in DataSet
<1>1. StoreWork[c] = IF InTxn(c, {"READ", "WRITE"}) /\ ~Stale(c) THEN Top(c).view.data
                                                                 ELSE cl[c].seen
  BY WorkPoints DEF WorkAt
<1>2. ASSUME bt[c].inTrans # "WRITE", InTxn(c, {"READ", "WRITE"}), ~Stale(c)
      PROVE  Top(c).view.data = cl[c].seen
  <2>1. bt[c].inTrans = "READ" /\ bt[c].svp # <<>>
    BY <1>2, InTxnStack DEF InTxn
  <2>2. Len(bt[c].svp) = 1
    BY <2>1 DEF UpdateInv
  <2>3. bt[c].svp[1].live
    BY <1>2, <2>1, <2>2 DEF InTxn, Dangling, Top
  <2> QED BY <1>2, <2>1, <2>2, <2>3 DEF SeesInv, Top
<1>3. ASSUME InTxn(c, {"WRITE"})
      PROVE  InTxn(c, {"READ", "WRITE"}) /\ ~Stale(c)
  BY <1>3 DEF InTxn, Stale
<1>4. ASSUME InTxn(c, {"READ", "WRITE"}) PROVE Top(c).view.data \in DataSet
  BY <1>4, InTxnStack, TopType DEF TypeOK
<1>5. cl[c].seen \in DataSet
  BY DEF TypeOK, Clients
<1> QED BY <1>1, <1>2, <1>3, <1>4, <1>5

LEMMA WorkTypeNext ==
  ASSUME NEW c \in Conns
  PROVE  (TypeOK /\ UpdateInv(c) /\ SeesInv(c) => StoreWork[c] \in DataSet)'
<1>1. TypeOK /\ UpdateInv(c) /\ SeesInv(c) => StoreWork[c] \in DataSet
  BY WorkOf
<1> QED BY <1>1, PTL

LEMMA WorkSeenNext ==
  ASSUME NEW c \in Conns
  PROVE  (TypeOK /\ UpdateInv(c) /\ SeesInv(c) /\ bt[c].inTrans # "WRITE"
            => StoreWork[c] = cl[c].seen)'
<1>1. TypeOK /\ UpdateInv(c) /\ SeesInv(c) /\ bt[c].inTrans # "WRITE"
        => StoreWork[c] = cl[c].seen
  BY WorkOf
<1> QED BY <1>1, PTL

\* The others.
LEMMA StoreKept ==
  ASSUME NEW c \in Conns, Kept(c)
  PROVE  \A d \in Conns \ {c} : /\ StoreMode'[d] = StoreMode[d]
                                /\ StoreBase'[d] = StoreBase[d]
                                /\ StoreWork'[d] = StoreWork[d]
<1> SUFFICES ASSUME NEW d \in Conns, bt'[d] = bt[d], cl'[d] = cl[d]
             PROVE  /\ StoreMode'[d] = StoreMode[d] /\ StoreBase'[d] = StoreBase[d]
                    /\ StoreWork'[d] = StoreWork[d]
  BY DEF Kept
<1>1. StoreMode'[d] = StoreMode[d] /\ StoreBase'[d] = StoreBase[d]
  <2>1. ModeAt(d)' = ModeAt(d)
    BY DEF ModeAt
  <2> QED BY <2>1, ModePoints DEF StoreBase
<1>2. WorkAt(d)' = WorkAt(d)
  BY DEF WorkAt, InTxn, Usable, Dangling, Stale, Top
<1>3. StoreWork[d] = WorkAt(d) /\ StoreWork'[d] = WorkAt(d)'
  BY WorkPoints, WorkPointsNext
<1> QED BY <1>1, <1>2, <1>3

LEMMA StoreAt ==
  ASSUME NEW c \in Conns, Kept(c)
  PROVE  /\ StoreMode' = [StoreMode EXCEPT ![c] = StoreMode'[c]]
         /\ StoreBase' = [StoreBase EXCEPT ![c] = StoreBase'[c]]
         /\ StoreWork' = [StoreWork EXCEPT ![c] = StoreWork'[c]]
<1>1. StoreMode' = [d \in Conns |-> StoreMode'[d]]
  BY ModePoints
<1>2. StoreBase' = [d \in Conns |-> StoreBase'[d]]
  BY DEF StoreBase
<1>3. StoreWork' = [d \in Conns |-> StoreWork'[d]]
  BY WorkPointsNext
<1> QED BY <1>1, <1>2, <1>3, StoreShapes, StoreKept, ChangeAt

LEMMA StoreStutter ==
  ASSUME NEW c \in Conns, Kept(c), db'.data = db.data,
         StoreMode'[c] = StoreMode[c], cl'[c].seen = cl[c].seen,
         StoreWork'[c] = StoreWork[c]
  PROVE  UNCHANGED StoreVars
<1>1. StoreBase'[c] = StoreBase[c]
  BY DEF StoreBase
<1>2. /\ [StoreMode EXCEPT ![c] = StoreMode[c]] = StoreMode
      /\ [StoreBase EXCEPT ![c] = StoreBase[c]] = StoreBase
      /\ [StoreWork EXCEPT ![c] = StoreWork[c]] = StoreWork
  BY StoreShapes
<1> QED BY <1>1, <1>2, StoreAt DEF StoreVars

\* The transaction of c is over.
LEMMA StoreOver ==
  ASSUME NEW c \in Conns, Kept(c), bt'[c].inTrans = "NONE", cl'[c] = IdleClient
  PROVE  /\ StoreMode' = [StoreMode EXCEPT ![c] = "none"]
         /\ StoreBase' = [StoreBase EXCEPT ![c] = EmptyData]
         /\ StoreWork' = [StoreWork EXCEPT ![c] = EmptyData]
<1>1. /\ StoreMode'[c] = "none" /\ StoreBase'[c] = EmptyData
      /\ StoreWork'[c] = EmptyData
  BY DEF StoreMode, StoreBase, StoreWork, InTxn, IdleClient
<1> QED BY <1>1, StoreAt

LEMMA StoreAbandon ==
  ASSUME NEW c \in Conns, Kept(c), db'.data = db.data, bt[c] \in Btrees, Owned(c),
         "rollbackTo" \notin Habits,
         bt'[c].inTrans = "NONE", cl'[c] = IdleClient
  PROVE  Store!StoreNext \/ UNCHANGED StoreVars
<1>1. CASE bt[c].inTrans = "NONE"
  <2>1. cl'[c].seen = cl[c].seen /\ StoreMode'[c] = StoreMode[c]
        /\ StoreWork'[c] = StoreWork[c]
    BY <1>1 DEF Owned, IdleClient, StoreMode, StoreWork, InTxn
  <2> QED BY <2>1, StoreStutter
<1>2. CASE bt[c].inTrans # "NONE"
  <2>1. StoreMode[c] # "none"
    BY <1>2, ModeOf DEF Btrees
  <2>2. Store!Abandon(c)
    BY <2>1, StoreOver DEF Store!Abandon, Store!Finish, StoreBase
  <2> QED BY <2>2 DEF Store!StoreNext
<1> QED BY <1>1, <1>2

\* c writes in its write transaction, or undoes what it wrote.
LEMMA StoreChange ==
  ASSUME NEW c \in Conns, Kept(c), UNCHANGED db,
         TypeOK', UpdateInv(c)', SeesInv(c)',
         bt[c].inTrans = "WRITE", bt'[c].inTrans = "WRITE",
         cl'[c].seen = cl[c].seen
  PROVE  Store!StoreNext
<1>1. StoreMode[c] = "write" /\ StoreMode'[c] = StoreMode[c] /\ StoreBase'[c] = StoreBase[c]
  BY DEF StoreMode, StoreBase
<1>2. StoreWork'[c] \in DataSet
  BY WorkTypeNext
<1>3. StoreMode' = StoreMode /\ StoreBase' = StoreBase
  BY <1>1, StoreAt, StoreShapes
<1>4. Store!Change(c)
  BY <1>1, <1>2, <1>3, StoreAt DEF Store!Change, StoreBase
<1> QED BY <1>4 DEF Store!StoreNext

LEMMA StoreSame ==
  ASSUME UNCHANGED <<db, bt, cl>>
  PROVE  UNCHANGED StoreVars
<1>1. /\ StoreBase' = StoreBase /\ StoreMode' = StoreMode
  BY DEF StoreBase, StoreMode
<1>2. StoreWork' = StoreWork
  BY DEF StoreWork, InTxn, Usable, Dangling, Stale, Top
<1> QED BY <1>1, <1>2 DEF StoreVars

\* Outside a write transaction nothing shows that does not change inTrans.
LEMMA StoreRead ==
  ASSUME NEW c \in Conns, Kept(c), db'.data = db.data,
         TypeOK, UpdateInv(c), SeesInv(c), TypeOK', UpdateInv(c)', SeesInv(c)',
         bt[c].inTrans # "WRITE", bt'[c].inTrans = bt[c].inTrans,
         cl'[c].seen = cl[c].seen
  PROVE  UNCHANGED StoreVars
<1>1. StoreMode'[c] = StoreMode[c]
  <2>1. ModeAt(c)' = ModeAt(c)
    BY DEF ModeAt
  <2> QED BY <2>1, ModePoints
<1>2. StoreWork[c] = cl[c].seen
  BY WorkOf
<1>3. StoreWork'[c] = cl'[c].seen
  BY WorkSeenNext
<1> QED BY <1>1, <1>2, <1>3, StoreStutter

\* While the writer lock is free, or held by a reader, nobody writes.
LEMMA NobodyWrites ==
  ASSUME IInv, NEW c \in Conns, bt[c].inTrans # "WRITE", writer \in {NoConn, c}
  PROVE  \A o \in Conns : StoreMode[o] # "write"
<1> SUFFICES ASSUME NEW o \in Conns, StoreMode[o] = "write" PROVE FALSE
  OBVIOUS
<1>1. bt[o].inTrans = "WRITE"
  <2>1. bt[o].inTrans \in {"NONE", "READ", "WRITE"}
    BY DEF IInv, TypeOK, Btrees
  <2> QED BY <2>1, ModeOf
<1>2. writer = o
  BY <1>1 DEF IInv, UpdateInv, Writing, LockInv
<1> QED BY <1>1, <1>2, BtreeAssumption

LEMMA LifeStore ==
  ASSUME StoreInv, TypeOK', NEW c \in Conns, UpdateInv(c)', SeesInv(c)', Kept(c),
         "rollbackTo" \notin Habits,
         BtreeOpen(c) \/ BtreeClose(c) \/ Crash(c) \/ UseDangling(c) \/ Restart(c)
  PROVE  Store!StoreNext \/ UNCHANGED StoreVars
<1>1. TypeOK /\ UpdateInv(c) /\ SeesInv(c) /\ Owned(c) /\ bt[c] \in Btrees
  BY DEF StoreInv, TxnInv, IInv, TypeOK
<1>2. ASSUME db'.data = db.data, BtreeOpen(c) \/ Restart(c)
      PROVE  UNCHANGED StoreVars
  <2>1. bt[c].inTrans = "NONE" /\ cl' = cl
    BY <1>1, <1>2 DEF BtreeOpen, Restart, UpdateInv
  <2>2. bt'[c].inTrans = bt[c].inTrans
    BY <1>1, <1>2 DEF BtreeOpen, Restart, TypeOK, Btrees
  <2> QED BY <1>1, <1>2, <2>1, <2>2, StoreRead
<1>3. CASE BtreeOpen(c) /\ db'.data # db.data
  <2>1. db' = [db EXCEPT !.data = MdbCreate(@, 1)] /\ UNCHANGED cl
    BY <1>3 DEF BtreeOpen
  <2>2. db \in View /\ db.data \in DataSet
    BY <1>1 DEF TypeOK, View
  <2>3. db'.data = MdbCreate(db.data, 1)
    BY <2>1, <2>2 DEF View
  <2>4. 1 \notin db.data.tabs
    <3> SUFFICES ASSUME 1 \in db.data.tabs PROVE FALSE
      OBVIOUS
    <3>1. db.data.tabs \cup {1} = db.data.tabs
      OBVIOUS
    <3>2. MdbCreate(db.data, 1) = [db.data EXCEPT !.tabs = db.data.tabs]
      BY <3>1 DEF MdbCreate
    <3>3. MdbCreate(db.data, 1) = db.data
      BY <3>2, <2>2 DEF DataSet
    <3> QED BY <1>3, <2>3, <3>3
  <2>5. db.data = EmptyData
    BY <2>4 DEF StoreInv, BlankInv
  <2>6. bt[c].inTrans = "NONE"
    BY <1>1, <1>3 DEF BtreeOpen, UpdateInv
  <2>7. bt'[c].inTrans = "NONE"
    BY <1>1, <1>3, <2>6 DEF BtreeOpen, TypeOK, Btrees
  <2>8. StoreMode'[c] = StoreMode[c] /\ StoreBase'[c] = StoreBase[c]
        /\ StoreWork'[c] = StoreWork[c]
    BY <2>1, <2>6, <2>7 DEF StoreMode, StoreBase, StoreWork, InTxn
  <2>9. UNCHANGED <<StoreMode, StoreBase, StoreWork>>
    <3>1. /\ [StoreMode EXCEPT ![c] = StoreMode[c]] = StoreMode
          /\ [StoreBase EXCEPT ![c] = StoreBase[c]] = StoreBase
          /\ [StoreWork EXCEPT ![c] = StoreWork[c]] = StoreWork
      BY StoreShapes
    <3> QED BY <2>8, <3>1, StoreAt
  <2> QED BY <2>3, <2>5, <2>9 DEF Store!StoreNext, Store!Format, StoreBase
<1>4. CASE BtreeClose(c) \/ Crash(c) \/ UseDangling(c)
  <2>1. /\ bt'[c].inTrans = "NONE" /\ cl'[c] = IdleClient /\ UNCHANGED db
    BY <1>1, <1>4 DEF BtreeClose, Crash, UseDangling, Wreck, ClosedBtree, TypeOK
  <2> QED BY <1>1, <2>1, StoreAbandon
<1>5. Restart(c) => db'.data = db.data
  BY DEF Restart
<1> QED BY <1>2, <1>3, <1>4, <1>5

\* A transaction begins: it sees the latest commit.
LEMMA NewStore ==
  ASSUME StoreInv, NEW c \in Conns, Kept(c), NEW wrFlag \in BOOLEAN,
         BeginTransNew(c, wrFlag)
  PROVE  Store!StoreNext
<1> DEFINE rw == \/ wrFlag
                 \/ bt[c].transType = "serialise" /\ c \notin ReadonlyConns
           m  == IF wrFlag THEN "write" ELSE "read"
           t  == <<MainTxn(rw)>>
<1>1. TypeOK /\ IInv /\ bt[c].inTrans = "NONE" /\ UNCHANGED db
  BY DEF StoreInv, TxnInv, IInv, BeginTransNew
<1>2. bt' = [bt EXCEPT ![c].svp = t, ![c].hasData = TRUE,
                       ![c].inTrans = IF wrFlag THEN "WRITE" ELSE "READ"]
  BY DEF BeginTransNew
<1>3. cl' = [cl EXCEPT ![c] = [open |-> TRUE, seen |-> db.data,
                               want |-> db.data, marks |-> <<>>]]
  BY DEF BeginTransNew
<1>4. wrFlag => writer = NoConn
  BY DEF BeginTransNew
<1>5. bt \in [Conns -> Btrees] /\ cl \in [Conns -> Clients]
  BY <1>1 DEF TypeOK
<1>6. t[1].view.data = db.data /\ Len(t) = 1
  BY DEF MainTxn
<1> HIDE DEF t
<1>7. /\ bt'[c].svp = t
      /\ bt'[c].inTrans = IF wrFlag THEN "WRITE" ELSE "READ"
  BY <1>2, <1>5 DEF Btrees
<1>8. cl'[c].seen = db.data
  BY <1>3, <1>5
<1>9. StoreMode'[c] = m /\ StoreBase'[c] = db.data
  BY <1>7, <1>8 DEF StoreMode, StoreBase
<1>10. StoreWork'[c] = db.data
  <2>1. Top(c)' = t[1]
    BY <1>6, <1>7 DEF Top
  <2>2. WorkAt(c)' = db.data
    BY <2>1, <1>6, <1>8 DEF WorkAt
  <2> QED BY <2>2, WorkPointsNext
<1>11. StoreMode[c] = "none"
  BY <1>1, ModeOf
<1>12. m = "write" => \A o \in Conns : StoreMode[o] # "write"
  BY <1>1, <1>4, NobodyWrites
<1>13. m \in {"read", "write"}
  OBVIOUS
<1> HIDE DEF m
<1>14. Store!Start(c, m)
  BY <1>1, <1>9, <1>10, <1>11, <1>12, StoreAt DEF Store!Start, StoreBase
<1> QED BY <1>13, <1>14 DEF Store!StoreNext

\* A read transaction becomes a write transaction: nobody has committed since.
LEMMA UpgradeStore ==
  ASSUME IInv, TypeOK', NEW c \in Conns, SeesInv(c), UpdateInv(c)', SeesInv(c)', Kept(c),
         UNCHANGED <<db, cl>>, bt[c].inTrans = "READ", bt'[c].inTrans = "WRITE",
         cl[c].seen = db.data, writer \in {NoConn, c},
         InTxn(c, {"WRITE"})', Top(c)'.view.data = db.data
  PROVE  Store!StoreNext
<1>1. /\ StoreMode[c] = "read" /\ StoreMode'[c] = "write"
      /\ StoreBase[c] = db.data /\ StoreBase'[c] = StoreBase[c]
  BY DEF StoreMode, StoreBase
<1>2. StoreWork[c] = db.data
  BY WorkOf DEF IInv
<1>3. StoreWork'[c] = db.data
  <2>1. WorkAt(c)' = db.data
    BY DEF WorkAt
  <2> QED BY <2>1, WorkPointsNext
<1>4. \A o \in Conns : StoreMode[o] # "write"
  BY NobodyWrites
<1>5. StoreBase' = StoreBase /\ StoreWork' = StoreWork
      /\ StoreMode' = [StoreMode EXCEPT ![c] = "write"]
  BY <1>1, <1>2, <1>3, StoreAt, StoreShapes
<1>6. Store!Upgrade(c)
  BY <1>1, <1>4, <1>5 DEF Store!Upgrade, StoreBase
<1> QED BY <1>6 DEF Store!StoreNext

LEMMA BeginStore ==
  ASSUME StoreInv, TxnInv', Disciplined, NEW c \in Conns, Kept(c),
         BeginTrans(c) \/ UpgradeGranted(c) \/ UpgradeFails(c)
  PROVE  Store!StoreNext \/ UNCHANGED StoreVars
<1>1. IInv /\ TypeOK /\ UpdateInv(c) /\ SeesInv(c) /\ bt \in [Conns -> Btrees]
  BY DEF StoreInv, TxnInv, IInv, TypeOK
<1>2. TypeOK' /\ UpdateInv(c)' /\ SeesInv(c)'
  BY DEF TxnInv, IInv
<1>3. CASE UNCHANGED <<db, bt, cl>>
  BY <1>3, StoreSame
<1>4. ASSUME NEW wrFlag \in BOOLEAN, BeginTransNew(c, wrFlag) PROVE Store!StoreNext
  BY <1>4, NewStore
<1>5. CASE BeginTransSerialised(c)
  <2>1. /\ bt[c].inTrans = "READ" /\ bt[c].svp # <<>> /\ c \notin ReadonlyConns
        /\ bt[c].transType = "serialise" /\ ~Dangling(c) /\ Usable(c)
        /\ bt' = [bt EXCEPT ![c].inTrans = "WRITE"] /\ UNCHANGED <<db, cl>>
    BY <1>1, <1>5, InTxnStack DEF BeginTransSerialised, InTxn
  <2>2. Len(bt[c].svp) = 1 /\ bt[c].svp[1].live
    BY <1>1, <2>1 DEF Dangling, Top, UpdateInv
  <2>3. Reading(c) /\ ~Stale(c)
    BY <1>1, <2>1, <2>2 DEF UpdateInv, Stale
  <2>4. bt[c].svp[1].rw /\ bt[c].svp[1].view.counter = db.counter
    BY <2>1, <2>3 DEF Reading
  <2>5. cl[c].seen = db.data
    BY <2>3, <2>4 DEF Reading, Seen
  <2>6. writer = c
    BY <1>1, <2>1, <2>2, <2>4 DEF IInv, LockInv, HoldsLock
  <2>7. bt[c].svp[1].view.data = db.data
    BY <1>1, <2>1, <2>2, <2>3, <2>5 DEF SeesInv
  <2>8. /\ bt'[c].inTrans = "WRITE" /\ bt'[c].svp = bt[c].svp
        /\ bt'[c].status = bt[c].status /\ bt'[c].upg = bt[c].upg
    BY <1>1, <2>1 DEF Btrees
  <2>9. InTxn(c, {"WRITE"})' /\ Top(c)'.view.data = db.data
    BY <2>1, <2>2, <2>7, <2>8 DEF InTxn, Usable, Dangling, Top
  <2> QED BY <1>1, <1>2, <2>1, <2>5, <2>6, <2>8, <2>9, UpgradeStore
<1>6. CASE UpgradeStart(c)
  <2>1. bt[c].inTrans = "READ" /\ UNCHANGED <<db, cl>>
    BY <1>6 DEF UpgradeStart, InTxn
  <2>2. bt'[c].inTrans = bt[c].inTrans
    BY <1>1, <1>6 DEF UpgradeStart, Btrees
  <2> QED BY <1>1, <1>2, <2>1, <2>2, StoreRead
<1>7. CASE UpgradeFails(c)
  <2>1. bt[c].inTrans = "READ" /\ UNCHANGED <<db, cl>>
    BY <1>1, <1>7 DEF UpgradeFails, UpdateInv, Waiting
  <2>2. bt'[c].inTrans = bt[c].inTrans
    BY <1>1, <1>7 DEF UpgradeFails, Btrees
  <2> QED BY <1>1, <1>2, <2>1, <2>2, StoreRead
<1>8. CASE UpgradeGranted(c)
  <2>1. /\ bt[c].inTrans = "READ" /\ UNCHANGED <<db, cl>> /\ writer = NoConn
        /\ Len(bt[c].svp) = 1 /\ Seen(c, bt[c].upg) /\ bt[c].status = "open"
    BY <1>1, <1>8 DEF UpgradeGranted, UpdateInv, Waiting
  <2>2. CASE bt[c].upg # db.counter
    <3>1. bt'[c].inTrans = bt[c].inTrans
      BY <1>1, <1>8, <2>1, <2>2 DEF UpgradeGranted, Btrees
    <3> QED BY <1>1, <1>2, <2>1, <3>1, StoreRead
  <2>3. CASE bt[c].upg = db.counter
    <3>1. cl[c].seen = db.data
      BY <2>1, <2>3 DEF Seen
    <3>2. bt'[c].inTrans = "WRITE"
      BY <1>1, <1>8, <2>3 DEF UpgradeGranted, Btrees
    <3>3. Usable(c)'
      BY <1>1, <1>8, <2>1 DEF UpgradeGranted, Usable, Btrees
    <3>4. Writing(c)'
      BY <1>2, <3>2 DEF UpdateInv
    <3> DEFINE s == bt[c].svp
               e == MainTxn(TRUE)
               t == [s EXCEPT ![1] = e]
    <3>5. bt'[c].svp = t
      BY <1>1, <1>8 DEF UpgradeGranted, Btrees
    <3>6. Len(t) = 1 /\ t[1] = e
      <4>1. s \in Seq(Savepoints) /\ 1 \in 1..Len(s)
        BY <1>1, <2>1 DEF Btrees
      <4>2. e \in Savepoints
        BY <1>1, MainTxnType, TRUE \in BOOLEAN DEF TypeOK
      <4>3. t = [s EXCEPT ![1] = e]
        OBVIOUS
      <4>4. Len(s) = 1
        BY <2>1
      <4> HIDE DEF s, e, t
      <4>5. Len(t) = Len(s) /\ t[1] = e
        BY ONLY <4>1, <4>2, <4>3, ExceptSeq
      <4> QED BY <4>4, <4>5
    <3> HIDE DEF s, t
    <3>7. t[1].live /\ t[1].view.data = db.data
      BY <3>6 DEF MainTxn
    <3> HIDE DEF e
    <3>8. bt'[c].svp # <<>>
      BY <3>4 DEF Writing, HoldsLock
    <3>9. InTxn(c, {"WRITE"})' /\ Top(c)'.view.data = db.data
      BY <3>2, <3>3, <3>5, <3>6, <3>7, <3>8 DEF InTxn, Dangling, Top
    <3> QED BY <1>1, <1>2, <2>1, <3>1, <3>2, <3>9, UpgradeStore
  <2> QED BY <2>2, <2>3
<1>9. BeginTransFails(c) \/ UpgradeRefused(c)
        \/ (\E wrFlag \in BOOLEAN : BeginTransAnswered(c, wrFlag))
      => UNCHANGED <<db, bt, cl>>
  BY DEF BeginTransFails, UpgradeRefused, BeginTransAnswered, vars
<1> QED BY <1>3, <1>4, <1>5, <1>6, <1>7, <1>8, <1>9 DEF BeginTrans

LEMMA CommitStore ==
  ASSUME StoreInv, TxnInv', "rollbackTo" \notin Habits, NEW c \in Conns, Kept(c),
         CommitPhaseOne(c) \/ Rollback(c)
  PROVE  Store!StoreNext \/ UNCHANGED StoreVars
<1>1. /\ IInv /\ TypeOK /\ UpdateInv(c) /\ SeesInv(c) /\ Owned(c)
      /\ bt \in [Conns -> Btrees] /\ cl \in [Conns -> Clients]
  BY DEF StoreInv, TxnInv, IInv, TypeOK
<1>2. TypeOK' /\ UpdateInv(c)' /\ SeesInv(c)'
  BY DEF TxnInv, IInv
<1>3. ASSUME EndTxn(c) PROVE bt'[c].inTrans = "NONE" /\ cl'[c] = IdleClient
  BY <1>1, <1>3 DEF EndTxn, Btrees
<1>4. CASE CommitRead(c) \/ Rollback(c) \/ CommitFailsInCounter(c)
  <2>1. UNCHANGED db /\ (EndTxn(c) \/ UNCHANGED <<bt, cl>>)
    BY <1>4 DEF CommitRead, Rollback, CommitFailsInCounter
  <2>2. CASE EndTxn(c)
    BY <1>1, <1>3, <2>1, <2>2, StoreAbandon
  <2>3. CASE UNCHANGED <<bt, cl>>
    BY <2>1, <2>3, StoreSame
  <2> QED BY <2>1, <2>2, <2>3
<1>5. CASE CommitFailsInMdb(c)
  <2>1. bt'[c].inTrans = "NONE" /\ cl'[c] = IdleClient /\ UNCHANGED db
    BY <1>1, <1>5 DEF CommitFailsInMdb, Btrees
  <2> QED BY <1>1, <2>1, StoreAbandon
<1>6. CASE CommitFailsInSavepoint(c)
  <2>1. bt[c].inTrans = "WRITE" /\ UNCHANGED db
    BY <1>6 DEF CommitFailsInSavepoint, InTxn
  <2>2. bt'[c].inTrans = "WRITE"
    BY <1>1, <1>6, <2>1 DEF CommitFailsInSavepoint, Btrees
  <2>3. cl'[c].seen = cl[c].seen
    BY <1>1, <1>6 DEF CommitFailsInSavepoint, Clients
  <2> QED BY <1>2, <2>1, <2>2, <2>3, StoreChange
<1>7. CASE CommitWrite(c)
  <2>1. InTxn(c, {"WRITE"}) /\ EndTxn(c)
        /\ db' = [Top(c).view EXCEPT !.counter = NextCounter(@)]
    BY <1>7 DEF CommitWrite
  <2>2. StoreMode[c] = "write"
    BY <2>1, ModeOf DEF InTxn
  <2>3. StoreWork[c] = Top(c).view.data
    BY <1>1, <2>1, WorkOf
  <2>4. Top(c).view \in View
    BY <1>1, <2>1, WriterNest, TopType DEF TypeOK
  <2>5. db'.data = StoreWork[c]
    BY <2>1, <2>3, <2>4 DEF View
  <2>6. bt'[c].inTrans = "NONE" /\ cl'[c] = IdleClient
    BY <1>3, <2>1
  <2>7. Store!Publish(c)
    BY <2>2, <2>5, <2>6, StoreOver DEF Store!Publish, Store!Finish, StoreBase
  <2> QED BY <2>7 DEF Store!StoreNext
<1> QED BY <1>4, <1>5, <1>6, <1>7 DEF CommitPhaseOne

LEMMA WriteStore ==
  ASSUME StoreInv, TxnInv', Disciplined, "rollbackTo" \notin Habits,
         NEW c \in Conns, Kept(c),
         UserSavepoint(c) \/ BeginStmt(c) \/ Savepoint(c) \/ Write(c) \/ Pragma(c)
  PROVE  Store!StoreNext \/ UNCHANGED StoreVars
<1>1. /\ IInv /\ TypeOK /\ UpdateInv(c) /\ SeesInv(c)
      /\ bt \in [Conns -> Btrees] /\ cl \in [Conns -> Clients]
  BY DEF StoreInv, TxnInv, IInv, TypeOK
<1>2. TypeOK' /\ UpdateInv(c)' /\ SeesInv(c)'
  BY DEF TxnInv, IInv
<1>3. CASE UserSavepoint(c) \/ BeginStmt(c)
  <2>1. bt[c].inTrans = "WRITE" /\ UNCHANGED db
    BY <1>3 DEF UserSavepoint, BeginStmt, InTxn
  <2>2. bt'[c].inTrans = bt[c].inTrans /\ cl'[c].seen = cl[c].seen
    BY <1>1, <1>3 DEF UserSavepoint, BeginStmt, Btrees, Clients
  <2> QED BY <1>2, <2>1, <2>2, StoreChange
<1>4. CASE Savepoint(c)
  <2>1. ~SavepointRollbackAll(c)
    BY DEF SavepointRollbackAll
  <2>2. PICK i \in 0..(MaxDepth - 1) : \/ SavepointRelease(c, i)
                                       \/ SavepointReleaseFails(c, i)
                                       \/ SavepointRollback(c, i)
    BY <1>4, <2>1 DEF Savepoint
  <2>3. bt[c].inTrans = "WRITE" /\ UNCHANGED db
    BY <2>2 DEF SavepointRelease, SavepointReleaseFails, ReleaseAborts, SavepointRollback, InTxn
  <2>4. bt'[c].inTrans = bt[c].inTrans
    <3>1. \E s : bt' = [bt EXCEPT ![c].svp = s]
      BY <2>2 DEF SavepointRelease, SavepointReleaseFails, ReleaseAborts, SavepointRollback
    <3> QED BY <1>1, <3>1 DEF Btrees
  <2>5. cl'[c].seen = cl[c].seen
    <3>1. \/ \E k : cl' = [cl EXCEPT ![c].marks = k]
          \/ \E w, k : cl' = [cl EXCEPT ![c].want = w, ![c].marks = k]
      BY <2>2 DEF SavepointRelease, SavepointReleaseFails, ReleaseAborts, SavepointRollback
    <3> QED BY <1>1, <3>1 DEF Clients
  <2> QED BY <1>2, <2>3, <2>4, <2>5, StoreChange
<1>5. CASE Write(c)
  <2>1. PICK d \in DataSet, w \in DataSet : InTxn(c, {"WRITE"}) /\ WriteTop(c, d, w)
    BY <1>1, <1>5, WriteIsWriteTop
  <2>2. bt[c].inTrans = "WRITE" /\ UNCHANGED db
    BY <2>1 DEF WriteTop, InTxn
  <2>3. bt'[c].inTrans = bt[c].inTrans /\ cl'[c].seen = cl[c].seen
    BY <1>1, <2>1 DEF WriteTop, Btrees, Clients
  <2> QED BY <1>2, <2>2, <2>3, StoreChange
<1>6. CASE Pragma(c)
  <2>1. \A t \in TransTypes : ~PragmaInWrite(c, t)
    BY DEF PragmaInWrite, Disciplined
  <2>2. CASE PragmaRefused(c)
    BY <2>2, StoreSame DEF PragmaRefused, vars
  <2>3. ASSUME NEW t \in TransTypes, PragmaAlone(c, t) PROVE UNCHANGED StoreVars
    <3>1. bt[c].inTrans = "NONE" /\ UNCHANGED cl /\ db'.data = db.data
      BY <1>1, <2>3 DEF PragmaAlone, TypeOK, View
    <3>2. bt'[c].inTrans = bt[c].inTrans
      BY <1>1, <2>3 DEF PragmaAlone, Btrees
    <3> QED BY <1>1, <1>2, <3>1, <3>2, StoreRead
  <2> QED BY <1>6, <2>1, <2>2, <2>3 DEF Pragma
<1> QED BY <1>3, <1>4, <1>5, <1>6

\* Nothing is ever written to a file without page 1.
LEMMA BlankNext ==
  ASSUME StoreInv, Disciplined, NEW c \in Conns, Step(c)
  PROVE  BlankInv'
<1>1. TypeOK /\ LockInv /\ UpdateInv(c)
  BY DEF StoreInv, TxnInv, IInv
<1>2. CASE db'.data = db.data
  BY <1>2 DEF StoreInv, BlankInv
<1>3. CASE BtreeOpen(c) /\ db'.data # db.data
  <2>1. db' = [db EXCEPT !.data = MdbCreate(@, 1)]
    BY <1>3 DEF BtreeOpen
  <2>2. db \in View /\ db.data \in DataSet
    BY <1>1 DEF TypeOK, View
  <2>3. db'.data = [db.data EXCEPT !.tabs = @ \cup {1}]
    BY <2>1, <2>2 DEF View, MdbCreate
  <2>4. 1 \in db'.data.tabs
    BY <2>2, <2>3 DEF DataSet
  <2> QED BY <2>4 DEF BlankInv
<1>4. CASE CommitWrite(c)
  <2>1. UpdateStep(c)
    BY <1>1, <1>4, CommitUpdate DEF CommitPhaseOne
  <2>2. 1 \in db.data.tabs
    BY <1>1, <1>4 DEF CommitWrite, InTxn, Usable, UpdateInv
  <2> QED BY <2>1, <2>2 DEF UpdateStep, DbStep, BlankInv
<1> QED BY <1>1, <1>2, <1>3, <1>4, DataChange

\* Every step of the backend is a step of the store, or does not show.
LEMMA StoreNextStep ==
  ASSUME StoreInv, Disciplined, "rollbackTo" \notin Habits, [Next]_vars
  PROVE  /\ StoreInv'
         /\ Store!StoreNext \/ UNCHANGED StoreVars
<1>1. TxnInv'
  BY TxnNext DEF StoreInv
<1>2. CASE UNCHANGED vars
  <2>1. UNCHANGED <<db, bt, cl>>
    BY <1>2 DEF vars
  <2> QED BY <1>1, <2>1, StoreSame DEF StoreInv, BlankInv
<1>3. ASSUME NEW c \in Conns, Step(c)
      PROVE  StoreInv' /\ (Store!StoreNext \/ UNCHANGED StoreVars)
  <2>1. BlankInv'
    BY <1>3, BlankNext
  <2>2. Kept(c)
    BY <1>3, StepKeeps DEF StoreInv, TxnInv, IInv
  <2>3. TypeOK' /\ UpdateInv(c)' /\ SeesInv(c)'
    BY <1>1 DEF TxnInv, IInv
  <2>4. Store!StoreNext \/ UNCHANGED StoreVars
    BY <1>1, <1>3, <2>2, <2>3, LifeStore, BeginStore, CommitStore, WriteStore DEF Step
  <2> QED BY <1>1, <2>1, <2>4 DEF StoreInv
<1> QED BY <1>2, <1>3, NextSteps

LEMMA StoreInitially ==
  ASSUME Init
  PROVE  StoreInv /\ Store!StoreInit
<1>1. StoreInv
  BY TxnInit DEF StoreInv, BlankInv, Init, EmptyView
<1>2. \A c \in Conns : bt[c] = ClosedBtree /\ cl[c] = IdleClient
  BY DEF Init
<1>3. StoreMode = [c \in Conns |-> "none"]
  <2>1. \A c \in Conns : ModeAt(c) = "none"
    BY <1>2 DEF ModeAt, ClosedBtree
  <2> QED BY <2>1, ModePoints
<1>4. [c \in Conns |-> cl[c].seen] = [c \in Conns |-> EmptyData]
  BY <1>2 DEF IdleClient
<1>5. StoreWork = [c \in Conns |-> EmptyData]
  <2>1. \A c \in Conns : WorkAt(c) = EmptyData
    BY <1>2 DEF WorkAt, InTxn, ClosedBtree, IdleClient
  <2> QED BY <2>1, WorkPoints
<1> QED BY <1>1, <1>3, <1>4, <1>5 DEF Store!StoreInit, Init, EmptyView

\* The backend implements TxnStore, for any number of connections, savepoints
\* and failing LMDB calls: snapshots, one writer on top of the latest commit,
\* and commits that publish everything or nothing.
THEOREM StoreCorrect ==
  ASSUME Habits = {}
  PROVE  Spec => ImplementsStore
<1>1. Disciplined /\ "rollbackTo" \notin Habits
  BY DEF Disciplined
<1>2. Init => StoreInv /\ Store!StoreInit
  BY StoreInitially
<1>3. StoreInv /\ [Next]_vars => StoreInv'
  BY <1>1, StoreNextStep
<1>4. StoreInv /\ [Next]_vars =>
        [Store!StoreNext]_<<db.data, StoreMode, [c \in Conns |-> cl[c].seen], StoreWork>>
  BY <1>1, StoreNextStep DEF StoreVars, StoreBase
<1> QED BY <1>2, <1>3, <1>4, PTL DEF Spec, ImplementsStore, Store!StoreSpec

=============================================================================
