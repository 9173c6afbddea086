-------------------------- MODULE LmdbBtreeProofs --------------------------
(***************************************************************************)
(* Type correctness of LmdbBtree, the agreement of LMDB's writer lock with *)
(* the connections' own MDB_txns, and no lost update, for any number of    *)
(* connections and any data.                                               *)
(*                                                                         *)
(* LockMatchesTxn is not inductive: the step that grants an upgrade writes *)
(* into the first level of a stack, so LockInv also says that a connection *)
(* which waits for its upgrade still has that level, and that the MDB_txn  *)
(* in it has ended.  LockStep is what one call may do to the lock; every   *)
(* operation is shown to be a LockStep, and LockStep to keep LockInv.      *)
(*                                                                         *)
(* NoLostUpdate follows the commit counter.  A reader knows the counter of *)
(* its snapshot; whoever publishes data moves the counter by one, and only *)
(* the holder of the writer lock can.  So a counter that has not moved     *)
(* means that the data the reader saw are still the latest (Seen), through *)
(* the gap of the optimistic upgrade in which it has no transaction, and a *)
(* connection that holds the lock sees the counter of the latest commit in *)
(* every level of its stack (UpToDate).                                    *)
(***************************************************************************)
EXTENDS LmdbBtree, SequenceTheorems, TLAPS

\* c's main MDB_txn is a live read/write transaction.
HoldsLock(c) == bt[c].svp # <<>> /\ bt[c].svp[1].rw /\ bt[c].svp[1].live

\* A connection that waits for its upgrade has ended its read transaction and
\* kept the BtreeSavepoint that held it.
Waits(c) == /\ bt[c].status = "open"
            /\ bt[c].svp # <<>>
            /\ ~bt[c].svp[1].live

Pending == \A c \in Conns : bt[c].upg # NotUpgrading => Waits(c)

LockInv == Pending /\ \A c \in Conns : writer = c <=> HoldsLock(c)

\* Every write LMDB makes turns data into data.
LEMMA PutType ==
  ASSUME NEW d \in DataSet, NEW r \in Roots, NEW k \in Keys,
         NEW x \in Vals \cup {NoVal}
  PROVE  MdbPut(d, r, k, x) \in DataSet
BY DEF DataSet, Content, MdbPut

LEMMA CreateType ==
  ASSUME NEW d \in DataSet, NEW r \in Roots
  PROVE  MdbCreate(d, r) \in DataSet
BY DEF DataSet, MdbCreate

LEMMA EmptyType ==
  ASSUME NEW d \in DataSet, NEW r \in Roots
  PROVE  MdbEmpty(d, r) \in DataSet /\ MdbDelete(d, r) \in DataSet
BY DEF DataSet, Content, NoRows, MdbEmpty, MdbDelete

LEMMA NewTableType ==
  ASSUME NEW d \in DataSet, NextRoot(d) <= MaxRoot
  PROVE  WithNewTable(d) \in DataSet
<1>1. NextRoot(d) \in 3..MaxRoot /\ NextRoot(d) \in Roots
  BY EnvAssumption DEF DataSet, NextRoot, Roots
<1> QED BY <1>1, CreateType DEF WithNewTable, DataSet, MdbCreate

\* What Init, BtreeOpen and the end of a transaction assign.
LEMMA InitialTypes ==
  /\ EmptyData \in DataSet
  /\ EmptyView \in View
  /\ ClosedBtree \in Btrees
  /\ IdleClient \in Clients
BY EnvAssumption
DEF EmptyData, EmptyView, DataSet, View, Content, NoRows, Roots, ClosedBtree, Btrees,
    IdleClient, Clients, NotUpgrading

\* Replacing the data, or the whole view, of one level of a stack.
LEMMA LevelData ==
  ASSUME NEW l \in Savepoints, NEW d \in DataSet, NEW e,
         e = [l EXCEPT !.view.data = d]
  PROVE  /\ e \in Savepoints
         /\ e.n = l.n /\ e.rw = l.rw /\ e.live = l.live
         /\ e.view.counter = l.view.counter /\ e.view.data = d
BY DEF Savepoints, View

LEMMA LevelView ==
  ASSUME NEW l \in Savepoints, NEW v \in View, NEW e, e = [l EXCEPT !.view = v]
  PROVE  /\ e \in Savepoints
         /\ e.n = l.n /\ e.rw = l.rw /\ e.live = l.live /\ e.view = v
BY DEF Savepoints

\* A write in level n leaves the transactions of the stack as they are.
LEMMA StackWrite ==
  ASSUME NEW s \in Seq(Savepoints), NEW n \in 1..Len(s), NEW d \in DataSet,
         NEW t, t = [s EXCEPT ![n].view.data = d]
  PROVE  /\ t \in Seq(Savepoints) /\ Len(t) = Len(s)
         /\ \A i \in 1..Len(s) :
              /\ t[i].n = s[i].n /\ t[i].rw = s[i].rw /\ t[i].live = s[i].live
              /\ t[i].view.counter = s[i].view.counter
              /\ i # n => t[i].view = s[i].view
         /\ t[n].view.data = d
<1> DEFINE e == [s[n] EXCEPT !.view.data = d]
<1>1. s[n] \in Savepoints
  BY ElementOfSeq
<1>2. t = [s EXCEPT ![n] = e]
  OBVIOUS
<1> HIDE DEF e
<1>3. /\ e \in Savepoints
      /\ e.n = s[n].n /\ e.rw = s[n].rw /\ e.live = s[n].live
      /\ e.view.counter = s[n].view.counter /\ e.view.data = d
  BY ZenonT(60), <1>1, LevelData DEF e
<1>4. /\ [s EXCEPT ![n] = e] \in Seq(Savepoints)
      /\ Len([s EXCEPT ![n] = e]) = Len(s)
      /\ \A i \in 1..Len(s) : [s EXCEPT ![n] = e][i] = IF i = n THEN e ELSE s[i]
  <2>1. e \in Savepoints
    BY <1>3
  <2> QED BY ONLY <2>1, ExceptSeq, s \in Seq(Savepoints), n \in 1..Len(s)
<1>5. /\ t \in Seq(Savepoints) /\ Len(t) = Len(s)
      /\ \A i \in 1..Len(s) : t[i] = IF i = n THEN e ELSE s[i]
  BY <1>2, <1>4
<1> QED BY <1>3, <1>5

\* Closing the levels above m leaves those below it as they are, and m with
\* its own view or that of the innermost level.
LEMMA StackClosed ==
  ASSUME NEW s \in Seq(Savepoints), NEW m \in 1..Len(s), NEW commit \in BOOLEAN,
         NEW t, t = Closed(s, m, commit)
  PROVE  /\ t \in Seq(Savepoints) /\ Len(t) = m
         /\ \A i \in 1..m :
              /\ t[i].n = s[i].n /\ t[i].rw = s[i].rw /\ t[i].live = s[i].live
              /\ i # m => t[i] = s[i]
         /\ t[m].view = IF commit THEN s[Len(s)].view ELSE s[m].view
<1> DEFINE v == IF commit THEN s[Len(s)].view ELSE s[m].view
           u == SubSeq(s, 1, m)
           e == [s[m] EXCEPT !.view = v]
<1>1. Len(s) \in Nat /\ m \in Nat /\ m >= 1 /\ m <= Len(s)
  BY LenProperties
<1>2. \A i \in 1..Len(s) : s[i] \in Savepoints
  BY ElementOfSeq
<1>3. u \in Seq(Savepoints) /\ Len(u) = m /\ \A i \in 1..m : u[i] = s[i]
  BY <1>1, <1>2, SubSeqProperties
<1>4. v \in View
  BY <1>1, <1>2 DEF Savepoints
<1>5. t = [u EXCEPT ![m].view = IF commit THEN s[Len(s)].view ELSE u[m].view]
  BY DEF Closed
<1>6. u[m] = s[m]
  BY <1>1, <1>3
<1> HIDE DEF u
<1>7. t = [u EXCEPT ![m].view = v]
  BY <1>5, <1>6
<1> HIDE DEF v
<1>8. t = [u EXCEPT ![m] = e]
  BY <1>7, <1>6
<1> HIDE DEF e
<1>9. /\ e \in Savepoints
      /\ e.n = s[m].n /\ e.rw = s[m].rw /\ e.live = s[m].live /\ e.view = v
  BY <1>1, <1>2, <1>4, LevelView DEF e
<1>10. t \in Seq(Savepoints) /\ Len(t) = m
      /\ \A i \in 1..m : t[i] = IF i = m THEN e ELSE u[i]
  BY <1>1, <1>3, <1>9, <1>8, ExceptSeq
<1>11. t[m].view = IF commit THEN s[Len(s)].view ELSE s[m].view
  BY <1>1, <1>9, <1>10 DEF v
<1> QED BY <1>1, <1>3, <1>9, <1>10, <1>11

\* Closed(s, m, commit) is a stack of m levels.
LEMMA ClosedLength ==
  ASSUME NEW s \in Seq(Savepoints), NEW m \in 1..Len(s), NEW commit \in BOOLEAN
  PROVE  Closed(s, m, commit) \in Seq(Savepoints) /\ Len(Closed(s, m, commit)) = m
<1> DEFINE t == Closed(s, m, commit)
<1>1. t = Closed(s, m, commit)
  OBVIOUS
<1> HIDE DEF t
<1>2. t \in Seq(Savepoints) /\ Len(t) = m
  BY <1>1, StackClosed
<1> QED BY <1>1, <1>2

-----------------------------------------------------------------------------
\* The innermost level of a stack that is not empty.
LEMMA TopType ==
  ASSUME NEW c \in Conns, bt \in [Conns -> Btrees], bt[c].svp # <<>>
  PROVE  /\ bt[c].svp \in Seq(Savepoints)
         /\ Len(bt[c].svp) \in 1..Len(bt[c].svp)
         /\ Len(bt[c].svp) \in Nat
         /\ Top(c) \in Savepoints
         /\ Top(c).view \in View
         /\ Top(c).view.data \in DataSet
<1>1. bt[c].svp \in Seq(Savepoints)
  BY DEF Btrees
<1>2. Len(bt[c].svp) \in Nat /\ Len(bt[c].svp) # 0
  BY <1>1, LenProperties, EmptySeq
<1>3. Top(c) \in Savepoints
  BY <1>1, <1>2, ElementOfSeq DEF Top
<1> QED BY <1>1, <1>2, <1>3 DEF Savepoints, View

LEMMA WriteTopType ==
  ASSUME TypeOK, NEW c \in Conns, bt[c].svp # <<>>,
         NEW d \in DataSet, NEW w \in DataSet, WriteTop(c, d, w)
  PROVE  TypeOK'
<1> DEFINE s == bt[c].svp
           t == [s EXCEPT ![Len(s)].view.data = d]
<1>1. bt \in [Conns -> Btrees]
  BY DEF TypeOK
<1>2. s \in Seq(Savepoints) /\ Len(s) \in 1..Len(s)
  BY <1>1, TopType
<1>3. bt' = [bt EXCEPT ![c].svp = t]
  BY DEF WriteTop
<1> HIDE DEF s
<1>4. t \in Seq(Savepoints)
  BY <1>2, StackWrite
<1> HIDE DEF t
<1>5. bt' \in [Conns -> Btrees]
  BY ZenonT(60), <1>1, <1>3, <1>4 DEF Btrees
<1>6. cl' \in [Conns -> Clients]
  BY DEF TypeOK, WriteTop, Clients
<1> QED BY <1>5, <1>6 DEF TypeOK, WriteTop

\* Every write is a WriteTop of well-typed data.
LEMMA WriteIsWriteTop ==
  ASSUME TypeOK, NEW c \in Conns, Write(c)
  PROVE  /\ InTxn(c, {"WRITE"})
         /\ \E d \in DataSet, w \in DataSet : WriteTop(c, d, w)
<1>1. InTxn(c, {"WRITE"})
  BY DEF Write, WriteRow, CreateTable, DropTable, ClearTable, UpdateMeta
<1>2. bt[c].svp # <<>>
  BY <1>1 DEF InTxn, Dangling
<1>3. Top(c).view.data \in DataSet /\ cl[c].want \in DataSet
  BY <1>2, TopType DEF TypeOK, Clients
<1>4. ASSUME NEW r \in Roots, NEW k \in Keys, NEW x \in Vals \cup {NoVal},
             WriteRow(c, r, k, x)
      PROVE  \E d \in DataSet, w \in DataSet : WriteTop(c, d, w)
  BY <1>3, <1>4, PutType DEF WriteRow
<1>5. CASE CreateTable(c)
  BY <1>3, <1>5, NewTableType DEF CreateTable
<1>6. ASSUME NEW r \in Roots, DropTable(c, r)
      PROVE  \E d \in DataSet, w \in DataSet : WriteTop(c, d, w)
  BY <1>3, <1>6, EmptyType DEF DropTable, Dropped
<1>7. ASSUME NEW r \in Roots, ClearTable(c, r)
      PROVE  \E d \in DataSet, w \in DataSet : WriteTop(c, d, w)
  BY <1>3, <1>7, EmptyType DEF ClearTable
<1>8. ASSUME NEW x \in SchemaVals, UpdateMeta(c, x)
      PROVE  \E d \in DataSet, w \in DataSet : WriteTop(c, d, w)
  <2>1. [Top(c).view.data EXCEPT !.schema = x] \in DataSet
        /\ [cl[c].want EXCEPT !.schema = x] \in DataSet
    BY <1>3 DEF DataSet
  <2> QED BY <1>8, <2>1 DEF UpdateMeta
<1> QED BY <1>1, <1>4, <1>5, <1>6, <1>7, <1>8 DEF Write

LEMMA WriteType ==
  ASSUME TypeOK, NEW c \in Conns, Write(c)
  PROVE  TypeOK'
<1>1. bt[c].svp # <<>>
  BY WriteIsWriteTop DEF InTxn, Dangling
<1>2. PICK d \in DataSet, w \in DataSet : WriteTop(c, d, w)
  BY WriteIsWriteTop
<1> QED BY <1>1, <1>2, WriteTopType

LEMMA MainTxnType ==
  ASSUME db \in View, NEW rw \in BOOLEAN
  PROVE  /\ MainTxn(rw) \in Savepoints
         /\ <<MainTxn(rw)>> \in Seq(Savepoints)
BY DEF MainTxn, Savepoints

LEMMA EndTxnType ==
  ASSUME TypeOK, NEW c \in Conns, EndTxn(c)
  PROVE  /\ bt' \in [Conns -> Btrees] /\ cl' \in [Conns -> Clients]
         /\ writer' \in Conns \cup {NoConn}
<1>1. [bt[c] EXCEPT !.inTrans = "NONE", !.svp = <<>>] \in Btrees
  <2>1. bt[c] \in Btrees /\ <<>> \in Seq(Savepoints)
    BY DEF TypeOK
  <2> QED BY <2>1 DEF Btrees
<1>2. bt' = [bt EXCEPT ![c] = [bt[c] EXCEPT !.inTrans = "NONE", !.svp = <<>>]]
  BY DEF EndTxn, TypeOK
<1> QED BY <1>1, <1>2, InitialTypes DEF TypeOK, EndTxn, Released

LEMMA LifeType ==
  ASSUME TypeOK, NEW c \in Conns,
         BtreeOpen(c) \/ BtreeClose(c) \/ Crash(c) \/ UseDangling(c) \/ Restart(c)
  PROVE  TypeOK'
<1>1. CASE BtreeOpen(c)
  <2>1. [db EXCEPT !.data = MdbCreate(@, 1)] \in View /\ db.ttype \in TransTypes
    <3>1. 1 \in Roots
      BY DEF Roots
    <3>2. db \in View /\ db.data \in DataSet
      BY DEF TypeOK, View
    <3>3. MdbCreate(db.data, 1) \in DataSet
      BY <3>1, <3>2, CreateType
    <3> QED BY <3>2, <3>3 DEF View
  <2>2. bt' \in [Conns -> Btrees]
    <3> DEFINE b == [bt[c] EXCEPT !.status = "open", !.transType = db.ttype]
    <3>1. bt[c] \in Btrees
      BY DEF TypeOK
    <3>2. b \in Btrees
      BY <2>1, <3>1 DEF Btrees
    <3>3. bt' = [bt EXCEPT ![c] = b]
      BY <1>1 DEF TypeOK, BtreeOpen
    <3> HIDE DEF b
    <3> QED BY <3>2, <3>3 DEF TypeOK
  <2> QED BY <1>1, <2>1, <2>2 DEF TypeOK, BtreeOpen
<1>2. CASE BtreeClose(c) \/ Crash(c)
  BY <1>2, InitialTypes DEF TypeOK, BtreeClose, Crash, Released
<1>3. CASE UseDangling(c)
  <2>1. [ClosedBtree EXCEPT !.status = "wrecked"] \in Btrees
    BY InitialTypes DEF Btrees
  <2> QED BY <1>3, <2>1, InitialTypes DEF TypeOK, UseDangling, Wreck, Released
<1>4. CASE Restart(c)
  BY ZenonT(60), <1>4 DEF TypeOK, Restart, Btrees
<1> QED BY <1>1, <1>2, <1>3, <1>4

LEMMA BeginType ==
  ASSUME TypeOK, Pending, NEW c \in Conns,
         BeginTrans(c) \/ UpgradeGranted(c) \/ UpgradeFails(c)
  PROVE  TypeOK'
<1>1. CASE (\E wrFlag \in BOOLEAN : BeginTransAnswered(c, wrFlag)) \/ UpgradeRefused(c)
  BY <1>1 DEF BeginTransAnswered, UpgradeRefused, TypeOK, vars
<1>2. ASSUME NEW wrFlag \in BOOLEAN, BeginTransNew(c, wrFlag)
      PROVE  TypeOK'
  <2> DEFINE rw == wrFlag \/ (bt[c].transType = "serialise" /\ c \notin ReadonlyConns)
  <2>1. <<MainTxn(rw)>> \in Seq(Savepoints)
    BY MainTxnType DEF TypeOK
  <2>2. [open |-> TRUE, seen |-> db.data, want |-> db.data, marks |-> <<>>] \in Clients
    BY DEF TypeOK, View, Clients
  <2>3. bt' \in [Conns -> Btrees]
    BY <1>2, <2>1 DEF TypeOK, BeginTransNew, Btrees
  <2> QED BY <1>2, <2>2, <2>3 DEF TypeOK, BeginTransNew
<1>3. CASE BeginTransSerialised(c)
  BY ZenonT(60), <1>3 DEF TypeOK, BeginTransSerialised, Btrees
<1>4. CASE BeginTransFails(c)
  BY <1>4, BtreeAssumption DEF TypeOK, BeginTransFails, Fault
<1>5. CASE UpgradeStart(c)
  <2> DEFINE s == bt[c].svp
             t == [s EXCEPT ![1].live = FALSE]
             u == IF bt[c].hasData THEN Top(c).view.counter ELSE 0
  <2>1. s # <<>>
    BY <1>5 DEF UpgradeStart, InTxn, Dangling
  <2>2. u \in 0..(CounterMod - 1)
    BY <2>1, TopType, EnvAssumption DEF TypeOK, View
  <2>3. s \in Seq(Savepoints) /\ 1 \in 1..Len(s)
    BY <2>1, TopType DEF TypeOK
  <2>4. bt' = [bt EXCEPT ![c] = [bt[c] EXCEPT !.upg = u, !.hasData = FALSE, !.svp = t]]
    BY ZenonT(60), <1>5 DEF UpgradeStart, TypeOK
  <2> HIDE DEF s, u
  <2>5. t \in Seq(Savepoints)
    <3> DEFINE e == [s[1] EXCEPT !.live = FALSE]
    <3>1. s[1] \in Savepoints BY <2>3, ElementOfSeq
    <3>2. e \in Savepoints BY <3>1 DEF Savepoints
    <3>3. t = [s EXCEPT ![1] = e] OBVIOUS
    <3> HIDE DEF e
    <3> QED BY <2>3, <3>2, <3>3, ExceptSeq
  <2> HIDE DEF t
  <2>6. bt' \in [Conns -> Btrees]
    BY ZenonT(60), <2>2, <2>4, <2>5 DEF TypeOK, Btrees
  <2> QED BY <1>5, <2>6 DEF TypeOK, UpgradeStart, Released
<1>6. CASE UpgradeGranted(c)
  <2> DEFINE s == bt[c].svp
             t == [s EXCEPT ![1] = MainTxn(TRUE)]
  <2>1. s \in Seq(Savepoints) /\ MainTxn(TRUE) \in Savepoints
    BY MainTxnType DEF TypeOK, Btrees
  <2>2. bt' = [bt EXCEPT ![c] = [bt[c] EXCEPT !.svp = t, !.hasData = TRUE,
                 !.inTrans = IF bt[c].upg = db.counter THEN "WRITE" ELSE "READ",
                 !.upg = NotUpgrading]]
    BY <1>6 DEF UpgradeGranted, TypeOK
  <2> HIDE DEF s
  <2>3. t \in Seq(Savepoints)
    <3>1. 1 \in 1..Len(s)
      BY <1>6, <2>1, EmptySeq DEF UpgradeGranted, Pending, Waits, s
    <3> QED BY <2>1, <3>1, ExceptSeq
  <2>5. bt[c] \in Btrees
    BY DEF TypeOK
  <2>6. [bt[c] EXCEPT !.svp = t, !.hasData = TRUE,
                 !.inTrans = IF bt[c].upg = db.counter THEN "WRITE" ELSE "READ",
                 !.upg = NotUpgrading] \in Btrees
    BY <2>5, <2>3 DEF Btrees
  <2>4. bt' \in [Conns -> Btrees]
    BY <2>2, <2>6 DEF TypeOK
  <2> QED BY <1>6, <2>4 DEF TypeOK, UpgradeGranted
<1>7. CASE UpgradeFails(c)
  BY <1>7, BtreeAssumption DEF TypeOK, UpgradeFails, Fault, Btrees
<1> QED BY <1>1, <1>2, <1>3, <1>4, <1>5, <1>6, <1>7 DEF BeginTrans

\* The commit counter stays in its width, and within the bound does not wrap.
LEMMA CounterType ==
  ASSUME NEW n \in 0..(CounterMod - 1)
  PROVE  /\ NextCounter(n) \in 0..(CounterMod - 1)
         /\ n < MaxCommits => NextCounter(n) = n + 1
BY EnvAssumption, BtreeAssumption DEF NextCounter

LEMMA CommitType ==
  ASSUME TypeOK, NEW c \in Conns, CommitPhaseOne(c) \/ Rollback(c)
  PROVE  TypeOK'
<1>1. CASE CommitRead(c) \/ Rollback(c)
  BY <1>1, EndTxnType DEF TypeOK, CommitRead, Rollback
<1>2. ASSUME InTxn(c, {"WRITE"})
      PROVE  /\ bt[c].svp # <<>> /\ bt[c] \in Btrees /\ bt[c].svp \in Seq(Savepoints)
             /\ 1 \in 1..Len(bt[c].svp) /\ Top(c).view \in View
  <2>1. bt[c].svp # <<>>
    BY <1>2 DEF InTxn, Dangling
  <2> QED BY <2>1, TopType DEF TypeOK
<1>3. CASE CommitWrite(c)
  <2>1. Top(c).view \in View
    BY <1>2, <1>3 DEF CommitWrite
  <2>2. NextCounter(Top(c).view.counter) \in 0..(CounterMod - 1)
    BY <2>1, CounterType DEF View
  <2>3. db' \in View
    BY <1>3, <2>1, <2>2 DEF CommitWrite, View
  <2> QED BY <1>3, <2>3, EndTxnType DEF TypeOK, CommitWrite, NoFault
<1>4. CASE CommitFailsInSavepoint(c)
  <2> DEFINE t == Closed(bt[c].svp, 1, FALSE)
  <2>1. t \in Seq(Savepoints)
    BY <1>2, <1>4, StackClosed DEF CommitFailsInSavepoint
  <2>2. bt' = [bt EXCEPT ![c].svp = t]
    BY <1>4 DEF CommitFailsInSavepoint
  <2> HIDE DEF t
  <2>3. bt' \in [Conns -> Btrees]
    BY ZenonT(60), <2>1, <2>2 DEF TypeOK, Btrees
  <2>4. bt[c].svp[1] \in Savepoints
    BY <1>2, <1>4, ElementOfSeq DEF CommitFailsInSavepoint
  <2>4a. bt[c].svp[1].view.data \in DataSet
    BY <2>4 DEF Savepoints, View
  <2>5. cl' \in [Conns -> Clients]
    <3> DEFINE k == [cl[c] EXCEPT !.want = bt[c].svp[1].view.data, !.marks = <<>>]
    <3>1. k \in Clients
      BY <2>4a, EmptySeq DEF TypeOK, Clients
    <3>2. cl' = [cl EXCEPT ![c] = k]
      BY <1>4 DEF TypeOK, CommitFailsInSavepoint
    <3> QED BY <3>1, <3>2 DEF TypeOK
  <2> QED BY <1>4, <2>3, <2>5, BtreeAssumption DEF TypeOK, CommitFailsInSavepoint, Fault
<1>5. CASE CommitFailsInCounter(c)
  BY <1>5, EndTxnType, BtreeAssumption DEF TypeOK, CommitFailsInCounter, Fault
<1>6. CASE CommitFailsInMdb(c)
  <2> DEFINE t == Closed(bt[c].svp, 1, TRUE)
             e == [t[1] EXCEPT !.live = FALSE]
             b == [bt[c] EXCEPT !.inTrans = "NONE", !.svp = <<e>>]
  <2>1. t \in Seq(Savepoints) /\ Len(t) = 1
    <3>1. bt[c].svp \in Seq(Savepoints) /\ 1 \in 1..Len(bt[c].svp)
      BY <1>2, <1>6 DEF CommitFailsInMdb
    <3> QED BY <3>1, ClosedLength
  <2>2. bt' = [bt EXCEPT ![c] = b]
    BY <1>6 DEF CommitFailsInMdb, TypeOK
  <2> HIDE DEF t
  <2>3. t[1] \in Savepoints
    BY <2>1, ElementOfSeq
  <2>4. e \in Savepoints
    BY <2>3 DEF Savepoints
  <2> HIDE DEF e
  <2>5. b \in Btrees
    <3>1. bt[c] \in Btrees /\ <<e>> \in Seq(Savepoints)
      BY <1>2, <1>6, <2>4 DEF CommitFailsInMdb
    <3> QED BY <3>1 DEF Btrees
  <2> HIDE DEF b
  <2>6. bt' \in [Conns -> Btrees]
    BY <2>2, <2>5 DEF TypeOK
  <2>7. cl' \in [Conns -> Clients] /\ writer' \in Conns \cup {NoConn} /\ db' \in View
    BY <1>6, InitialTypes DEF TypeOK, CommitFailsInMdb, Released
  <2>8. faults' \in 0..MaxFaults
    BY <1>6, BtreeAssumption DEF TypeOK, CommitFailsInMdb, Fault
  <2> QED BY <2>6, <2>7, <2>8 DEF TypeOK
<1> QED BY <1>1, <1>3, <1>4, <1>5, <1>6 DEF CommitPhaseOne

LEMMA MarksType ==
  ASSUME NEW s \in Seq(DataSet), NEW i \in Nat, i < Len(s)
  PROVE  SubSeq(s, 1, i) \in Seq(DataSet) /\ s[i + 1] \in DataSet
<1>1. Len(s) \in Nat /\ \A j \in 1..Len(s) : s[j] \in DataSet
  BY LenProperties, ElementOfSeq
<1> QED BY <1>1, SubSeqProperties

LEMMA SavepointType ==
  ASSUME TypeOK, NEW c \in Conns, UserSavepoint(c) \/ BeginStmt(c) \/ Savepoint(c)
  PROVE  TypeOK'
<1>1. /\ InTxn(c, {"WRITE"})
      /\ bt[c] \in Btrees /\ bt[c].svp \in Seq(Savepoints) /\ cl[c] \in Clients
      /\ Len(bt[c].svp) \in 1..Len(bt[c].svp) /\ Len(bt[c].svp) \in Nat
      /\ Top(c).view \in View
  <2>1. InTxn(c, {"WRITE"})
    BY DEF UserSavepoint, BeginStmt, Savepoint, SavepointRelease, SavepointReleaseFails,
           ReleaseAborts, SavepointRollback, SavepointRollbackAll
  <2>2. bt[c].svp # <<>>
    BY <2>1 DEF InTxn, Dangling
  <2> QED BY <2>1, <2>2, TopType, SMTT(30) DEF TypeOK
<1>2. CASE UserSavepoint(c)
  <2>1. Append(cl[c].marks, cl[c].want) \in Seq(DataSet)
    BY <1>1 DEF Clients
  <2>2. cl' \in [Conns -> Clients]
    BY <1>2, <2>1 DEF TypeOK, UserSavepoint, Clients
  <2> QED BY <1>2, <2>2 DEF TypeOK, UserSavepoint
<1>3. CASE BeginStmt(c)
  <2> DEFINE e == [n |-> Len(cl[c].marks) + 1, rw |-> TRUE, live |-> TRUE,
                   view |-> Top(c).view]
  <2>1. Len(cl[c].marks) \in Nat
    BY <1>1, LenProperties DEF Clients
  <2> DEFINE t == Append(bt[c].svp, e)
  <2>2. t \in Seq(Savepoints)
    BY <1>1, <2>1 DEF Savepoints
  <2>3. bt' = [bt EXCEPT ![c].svp = t]
    BY <1>3 DEF BeginStmt
  <2> HIDE DEF t
  <2>3a. bt' \in [Conns -> Btrees]
    <3>1. bt[c] \in Btrees /\ bt \in [Conns -> Btrees]
      BY <1>1 DEF TypeOK
    <3>2. [bt[c] EXCEPT !.svp = t] \in Btrees
      BY <2>2, <3>1 DEF Btrees
    <3> QED BY <2>3, <3>1, <3>2
  <2>4. Append(cl[c].marks, cl[c].want) \in Seq(DataSet)
    BY <1>1 DEF Clients
  <2>5. cl' \in [Conns -> Clients]
    BY <1>3, <2>4 DEF TypeOK, BeginStmt, Clients
  <2> QED BY <1>3, <2>3a, <2>5 DEF TypeOK, BeginStmt
<1>4. ASSUME NEW m \in 1..Len(bt[c].svp), NEW commit \in BOOLEAN,
             bt' = [bt EXCEPT ![c].svp = Closed(@, m, commit)]
      PROVE  bt' \in [Conns -> Btrees] /\ bt[c].svp[m].view.data \in DataSet
  <2> DEFINE t == Closed(bt[c].svp, m, commit)
  <2>1. t \in Seq(Savepoints) /\ bt[c].svp[m] \in Savepoints
    BY <1>1, StackClosed, ElementOfSeq
  <2>2. bt' = [bt EXCEPT ![c].svp = t]
    BY <1>4
  <2> HIDE DEF t
  <2>3. bt[c] \in Btrees /\ bt \in [Conns -> Btrees]
    BY <1>1 DEF TypeOK
  <2>4. [bt[c] EXCEPT !.svp = t] \in Btrees
    BY <2>1, <2>3 DEF Btrees
  <2>5. bt' \in [Conns -> Btrees]
    BY <2>2, <2>3, <2>4
  <2>6. bt[c].svp[m].view.data \in DataSet
    BY <2>1 DEF Savepoints, View
  <2> QED BY <2>5, <2>6
<1>5. ASSUME NEW i \in Nat, SavepointRelease(c, i)
      PROVE  TypeOK'
  <2>1. bt' \in [Conns -> Btrees]
    BY <1>4, <1>5 DEF SavepointRelease
  <2>2. SubSeq(cl[c].marks, 1, i) \in Seq(DataSet)
    BY <1>1, <1>5, MarksType DEF SavepointRelease, Clients
  <2> QED BY <1>5, <2>1, <2>2 DEF TypeOK, SavepointRelease, Clients
<1>6. ASSUME NEW i \in Nat, SavepointReleaseFails(c, i)
      PROVE  TypeOK'
  <2>1. PICK m \in 1..Len(bt[c].svp) :
          /\ bt' = [bt EXCEPT ![c].svp = Closed(@, m, FALSE)]
          /\ cl' = [cl EXCEPT ![c].want = bt[c].svp[m].view.data,
                              ![c].marks = SubSeq(@, 1, i)]
    BY <1>6 DEF SavepointReleaseFails, ReleaseAborts
  <2>2. bt' \in [Conns -> Btrees] /\ bt[c].svp[m].view.data \in DataSet
    BY <1>4, <2>1
  <2>3. SubSeq(cl[c].marks, 1, i) \in Seq(DataSet)
    BY <1>1, <1>6, MarksType DEF SavepointReleaseFails, ReleaseAborts, Clients
  <2>4. cl' \in [Conns -> Clients]
    BY <2>1, <2>2, <2>3, ZenonT(60) DEF TypeOK, Clients
  <2> QED BY <1>6, <2>2, <2>4, BtreeAssumption
          DEF TypeOK, SavepointReleaseFails, ReleaseAborts, Fault
<1>7. ASSUME NEW i \in Nat, SavepointRollback(c, i)
      PROVE  TypeOK'
  <2>1. bt' \in [Conns -> Btrees]
    BY <1>4, <1>7 DEF SavepointRollback
  <2>2. SubSeq(cl[c].marks, 1, i) \in Seq(DataSet) /\ cl[c].marks[i + 1] \in DataSet
    BY <1>1, <1>7, MarksType DEF SavepointRollback, Clients
  <2> QED BY ZenonT(60), <1>7, <2>1, <2>2 DEF TypeOK, SavepointRollback, Clients
<1>8. CASE SavepointRollbackAll(c)
  <2>0. <<>> \in Seq(Savepoints) /\ <<>> \in Seq(DataSet)
    OBVIOUS
  <2>1. [bt[c] EXCEPT !.inTrans = "NONE", !.svp = <<>>] \in Btrees
    BY <1>1, <2>0 DEF Btrees
  <2>2. bt' = [bt EXCEPT ![c] = [bt[c] EXCEPT !.inTrans = "NONE", !.svp = <<>>]]
    BY <1>8 DEF SavepointRollbackAll, TypeOK
  <2>3. [cl[c] EXCEPT !.want = cl[c].seen, !.marks = <<>>] \in Clients
    BY <1>1, <2>0 DEF Clients
  <2>4. cl' = [cl EXCEPT ![c] = [cl[c] EXCEPT !.want = cl[c].seen, !.marks = <<>>]]
    BY <1>8 DEF SavepointRollbackAll, TypeOK
  <2> QED BY <1>8, <2>1, <2>2, <2>3, <2>4 DEF TypeOK, SavepointRollbackAll, Released
<1>9. 0..(MaxDepth - 1) \subseteq Nat
  BY BtreeAssumption
<1> QED BY <1>2, <1>3, <1>5, <1>6, <1>7, <1>8, <1>9 DEF Savepoint

LEMMA PragmaType ==
  ASSUME TypeOK, NEW c \in Conns, Pragma(c)
  PROVE  TypeOK'
<1>1. ASSUME NEW t \in TransTypes, PragmaAlone(c, t)
      PROVE  TypeOK'
  BY ZenonT(60), <1>1 DEF TypeOK, PragmaAlone, View, Btrees
<1>2. ASSUME NEW t \in TransTypes, PragmaInWrite(c, t)
      PROVE  TypeOK'
  <2> DEFINE s == bt[c].svp
             n == Len(s)
             v == [Top(c).view EXCEPT !.ttype = t]
             e == [s[n] EXCEPT !.live = FALSE]
             s1 == [s EXCEPT ![n].live = FALSE]
  <2>1. bt[c].svp # <<>>
    BY <1>2 DEF PragmaInWrite, InTxn, Dangling
  <2>2. s \in Seq(Savepoints) /\ n \in 1..Len(s) /\ n \in Nat /\ Top(c).view \in View
        /\ bt[c] \in Btrees
    BY <2>1, TopType DEF TypeOK
  <2>3. v \in View
    BY <2>2 DEF View
  <2>4. s[n] \in Savepoints /\ e \in Savepoints
    <3>1. s[n] \in Savepoints
      BY <2>2, ElementOfSeq
    <3> QED BY <3>1 DEF Savepoints
  <2>5. s1 \in Seq(Savepoints) /\ Len(s1) = n
    <3>1. s1 = [s EXCEPT ![n] = e]
      OBVIOUS
    <3> HIDE DEF e, s, s1
    <3> QED BY <2>2, <2>4, <3>1, ExceptSeq DEF n
  <2>6. CASE n = 1
    <3>1. bt' = [bt EXCEPT ![c] = [bt[c] EXCEPT !.svp = s1, !.transType = t]]
      BY <1>2, <2>6 DEF PragmaInWrite, TypeOK
    <3>2. db' = v /\ writer' = Released(c) /\ UNCHANGED <<cl, faults>>
      BY <1>2, <2>6 DEF PragmaInWrite
    <3> HIDE DEF s1, v
    <3>3. bt' \in [Conns -> Btrees]
      BY <2>2, <2>5, <3>1 DEF TypeOK, Btrees
    <3> QED BY <2>3, <3>2, <3>3 DEF TypeOK, Released
  <2>7. CASE n # 1
    <3> DEFINE f == [s1[n - 1] EXCEPT !.view = v]
               s2 == [s1 EXCEPT ![n - 1] = f]
    <3>1. bt' = [bt EXCEPT ![c] = [bt[c] EXCEPT !.svp = s2, !.transType = t]]
      <4>1. bt' = [bt EXCEPT ![c].svp = [s1 EXCEPT ![n - 1].view = v],
                             ![c].transType = t]
        BY <1>2, <2>7 DEF PragmaInWrite
      <4>2. [s1 EXCEPT ![n - 1].view = v] = s2
        OBVIOUS
      <4> HIDE DEF s2
      <4> QED BY ZenonT(60), <4>1, <4>2 DEF TypeOK
    <3>2. UNCHANGED <<db, writer, cl, faults>>
      BY <1>2, <2>7 DEF PragmaInWrite
    <3> HIDE DEF s1, v
    <3>3. n - 1 \in 1..Len(s1)
      <4> HIDE DEF n, s
      <4>1. n \in Nat /\ n # 1 /\ n >= 1 /\ Len(s1) = n
        BY <2>2, <2>5, <2>7 DEF n
      <4> QED BY <4>1
    <3>4. f \in Savepoints
      BY <2>3, <2>5, <3>3, ElementOfSeq, LevelView
    <3> HIDE DEF f
    <3>5. s2 \in Seq(Savepoints)
      BY <2>5, <3>3, <3>4, ExceptSeq
    <3> HIDE DEF s2
    <3>6. bt' \in [Conns -> Btrees]
      BY <2>2, <3>1, <3>5 DEF TypeOK, Btrees
    <3> QED BY <3>2, <3>6 DEF TypeOK
  <2> QED BY <2>6, <2>7
<1>3. CASE PragmaRefused(c)
  BY <1>3 DEF PragmaRefused, TypeOK, vars
<1> QED BY <1>1, <1>2, <1>3 DEF Pragma

-----------------------------------------------------------------------------
\* What a step of c does to the writer lock and to c's hold on it.
Keeps(c) == writer' = writer /\ (HoldsLock(c)' <=> HoldsLock(c))
Ends(c)  == writer' = Released(c) /\ ~HoldsLock(c)'
Takes(c) == writer = NoConn /\ writer' = c /\ HoldsLock(c)'

LockStep(c) ==
  /\ \A d \in Conns \ {c} : bt'[d] = bt[d]
  /\ bt'[c].upg # NotUpgrading => Waits(c)'
  /\ Keeps(c) \/ Ends(c) \/ Takes(c)

\* A LockStep of one connection keeps LockInv for all of them.
LEMMA LockStepKeepsInv ==
  ASSUME TypeOK, LockInv, NEW c \in Conns, LockStep(c)
  PROVE  LockInv'
<1>1. Pending'
  BY DEF LockStep, LockInv, Pending, Waits
<1>2. \A d \in Conns \ {c} : HoldsLock(d)' <=> HoldsLock(d)
  BY DEF LockStep, HoldsLock
<1>3. ASSUME NEW d \in Conns PROVE (writer' = d) <=> HoldsLock(d)'
  BY <1>2, BtreeAssumption
     DEF LockStep, LockInv, Keeps, Ends, Takes, Released, TypeOK
<1> QED BY <1>1, <1>3 DEF LockInv

\* The steps that leave c's stack alone.
LEMMA LockSame ==
  ASSUME TypeOK, LockInv, NEW c \in Conns,
         UNCHANGED writer, \A d \in Conns \ {c} : bt'[d] = bt[d],
         bt'[c].svp = bt[c].svp, bt'[c].upg = NotUpgrading
  PROVE  LockStep(c)
BY DEF LockStep, Keeps, HoldsLock

\* The steps after which c has no live main transaction.
LEMMA LockGone ==
  ASSUME TypeOK, NEW c \in Conns,
         writer' = Released(c), \A d \in Conns \ {c} : bt'[d] = bt[d],
         bt'[c].svp # <<>> => ~bt'[c].svp[1].live, bt'[c].upg = NotUpgrading
  PROVE  LockStep(c)
BY DEF LockStep, Ends, HoldsLock

\* The steps that change c's stack above or inside the main transaction only.
LEMMA LockKept ==
  ASSUME TypeOK, LockInv, NEW c \in Conns, NEW t \in Seq(Savepoints),
         bt[c].svp # <<>>, UNCHANGED writer,
         \A d \in Conns \ {c} : bt'[d] = bt[d],
         bt'[c].svp = t, bt'[c].upg = NotUpgrading,
         Len(t) >= 1, t[1].rw = bt[c].svp[1].rw, t[1].live = bt[c].svp[1].live
  PROVE  LockStep(c)
<1>1. t # <<>>
  BY EmptySeq
<1> QED BY <1>1 DEF LockStep, Keeps, HoldsLock

LEMMA LifeLock ==
  ASSUME TypeOK, LockInv, NEW c \in Conns,
         BtreeOpen(c) \/ BtreeClose(c) \/ Crash(c) \/ UseDangling(c) \/ Restart(c)
  PROVE  LockStep(c)
<1>1. CASE BtreeOpen(c) \/ Restart(c)
  <2>1. bt[c].upg = NotUpgrading
    BY <1>1 DEF BtreeOpen, Restart, LockInv, Pending, Waits
  <2> QED BY SMTT(30), <1>1, <2>1, LockSame DEF BtreeOpen, Restart, TypeOK, Btrees
<1>2. CASE BtreeClose(c) \/ Crash(c) \/ UseDangling(c)
  BY <1>2, LockGone
     DEF BtreeClose, Crash, UseDangling, Wreck, ClosedBtree, TypeOK, Btrees
<1> QED BY <1>1, <1>2

LEMMA EndTxnLock ==
  ASSUME TypeOK, NEW c \in Conns, Usable(c), EndTxn(c)
  PROVE  LockStep(c)
BY LockGone DEF EndTxn, Usable, TypeOK, Btrees

LEMMA BeginLock ==
  ASSUME TypeOK, LockInv, NEW c \in Conns,
         BeginTrans(c) \/ UpgradeGranted(c) \/ UpgradeFails(c)
  PROVE  LockStep(c)
<1>1. CASE (\E wrFlag \in BOOLEAN : BeginTransAnswered(c, wrFlag)) \/ UpgradeRefused(c)
           \/ BeginTransSerialised(c) \/ BeginTransFails(c)
  BY <1>1, LockSame
     DEF BeginTransAnswered, UpgradeRefused, BeginTransSerialised, BeginTransFails,
         InTxn, Usable, TypeOK, Btrees, vars
<1>2. ASSUME NEW wrFlag \in BOOLEAN, BeginTransNew(c, wrFlag)
      PROVE  LockStep(c)
  <2> DEFINE rw == wrFlag \/ (bt[c].transType = "serialise" /\ c \notin ReadonlyConns)
  <2>1. bt'[c].svp = <<MainTxn(rw)>> /\ bt'[c].upg = NotUpgrading
        /\ \A d \in Conns \ {c} : bt'[d] = bt[d]
    BY <1>2 DEF BeginTransNew, Usable, TypeOK, Btrees
  <2>2. HoldsLock(c)' <=> rw
    <3> DEFINE e == MainTxn(rw)
    <3>1. rw \in BOOLEAN
      OBVIOUS
    <3> HIDE DEF rw
    <3>2. e.rw = rw /\ e.live = TRUE
      BY DEF MainTxn
    <3> HIDE DEF e
    <3>3. bt'[c].svp = <<e>> /\ <<e>> # <<>> /\ <<e>>[1] = e
      BY <2>1 DEF e
    <3>4. bt'[c].svp # <<>> /\ bt'[c].svp[1] = e
      BY <3>3
    <3> QED BY <3>1, <3>2, <3>4 DEF HoldsLock
  <2>3. ~HoldsLock(c)
    BY <1>2 DEF BeginTransNew, HoldsLock
  <2>4. Keeps(c) \/ Takes(c)
    BY <1>2, <2>2, <2>3 DEF BeginTransNew, Keeps, Takes
  <2> QED BY <2>1, <2>4 DEF LockStep
<1>3. CASE UpgradeStart(c)
  <2> DEFINE s == bt[c].svp
             t == [s EXCEPT ![1].live = FALSE]
  <2>1. s # <<>>
    BY <1>3 DEF UpgradeStart, InTxn, Dangling
  <2>2. s \in Seq(Savepoints) /\ 1 \in 1..Len(s)
    BY <2>1, TopType DEF TypeOK
  <2>3. bt'[c].svp = t /\ bt'[c].status = bt[c].status
        /\ \A d \in Conns \ {c} : bt'[d] = bt[d]
    BY <1>3 DEF UpgradeStart, TypeOK, Btrees
  <2> HIDE DEF s
  <2>4. t # <<>> /\ ~t[1].live
    <3> DEFINE e == [s[1] EXCEPT !.live = FALSE]
    <3>1. s[1] \in Savepoints BY <2>2, ElementOfSeq
    <3>2. e \in Savepoints /\ ~e.live BY <3>1 DEF Savepoints
    <3>3. t = [s EXCEPT ![1] = e] OBVIOUS
    <3> HIDE DEF e
    <3> HIDE DEF t
    <3>4. t \in Seq(Savepoints) /\ Len(t) = Len(s) /\ t[1] = e
      BY <2>2, <3>2, <3>3, ExceptSeq
    <3> QED BY <2>2, <3>2, <3>4, EmptySeq
  <2> HIDE DEF t
  <2>5. bt[c].status = "open" /\ writer' = Released(c)
    BY <1>3 DEF UpgradeStart, InTxn, Usable
  <2> QED BY <2>3, <2>4, <2>5 DEF LockStep, Waits, Ends, HoldsLock
<1>4. CASE UpgradeGranted(c)
  <2> DEFINE s == bt[c].svp
             e == MainTxn(TRUE)
             t == [s EXCEPT ![1] = e]
  <2>1. s \in Seq(Savepoints) /\ e \in Savepoints /\ s # <<>>
    BY <1>4, MainTxnType DEF UpgradeGranted, TypeOK, Btrees, LockInv, Pending, Waits
  <2>2. bt'[c].svp = t /\ bt'[c].upg = NotUpgrading
        /\ \A d \in Conns \ {c} : bt'[d] = bt[d]
    BY <1>4 DEF UpgradeGranted, TypeOK, Btrees
  <2> HIDE DEF s
  <2>3. e.rw /\ e.live
    BY DEF MainTxn
  <2> HIDE DEF e
  <2>4. t # <<>> /\ t[1] = e
    <3>1. 1 \in 1..Len(s)
      BY <2>1, EmptySeq
    <3>2. t = [s EXCEPT ![1] = e]
      OBVIOUS
    <3> HIDE DEF t
    <3>3. t \in Seq(Savepoints) /\ Len(t) = Len(s) /\ t[1] = e
      BY <2>1, <3>1, <3>2, ExceptSeq
    <3> QED BY <3>1, <3>3, EmptySeq
  <2> HIDE DEF t
  <2> QED BY <1>4, <2>2, <2>3, <2>4 DEF UpgradeGranted, LockStep, Takes, HoldsLock
<1>5. CASE UpgradeFails(c)
  <2>1. ~HoldsLock(c)
    BY <1>5 DEF UpgradeFails, LockInv, Pending, Waits, HoldsLock
  <2> QED BY <1>5, <2>1 DEF UpgradeFails, LockStep, Keeps, HoldsLock, TypeOK, Btrees
<1> QED BY <1>1, <1>2, <1>3, <1>4, <1>5 DEF BeginTrans

\* A connection inside a transaction has a stack and no upgrade under way.
LEMMA InTxnStack ==
  ASSUME TypeOK, NEW c \in Conns, NEW S, "NONE" \notin S, InTxn(c, S)
  PROVE  /\ bt[c].svp # <<>> /\ bt[c].svp \in Seq(Savepoints)
         /\ 1 \in 1..Len(bt[c].svp) /\ Len(bt[c].svp) \in 1..Len(bt[c].svp)
         /\ Len(bt[c].svp) \in Nat
         /\ Usable(c) /\ bt[c].upg = NotUpgrading
<1>1. Usable(c) /\ bt[c].upg = NotUpgrading
  BY DEF InTxn, Usable
<1>2. bt[c].svp # <<>>
  BY DEF InTxn, Dangling, TypeOK, Btrees
<1>3. bt[c].svp \in Seq(Savepoints) /\ Len(bt[c].svp) \in 1..Len(bt[c].svp)
  BY <1>2, TopType DEF TypeOK
<1> QED BY <1>1, <1>2, <1>3, LenProperties

\* Every cut of the stack keeps the main transaction.
LEMMA CutLock ==
  ASSUME TypeOK, LockInv, NEW c \in Conns, InTxn(c, {"WRITE"}), UNCHANGED writer,
         NEW m \in 1..Len(bt[c].svp), NEW commit \in BOOLEAN,
         bt' = [bt EXCEPT ![c].svp = Closed(@, m, commit)]
  PROVE  LockStep(c)
<1> DEFINE t == Closed(bt[c].svp, m, commit)
<1>1. bt[c].svp # <<>> /\ bt[c].svp \in Seq(Savepoints) /\ bt[c].upg = NotUpgrading
  BY InTxnStack
<1>2. /\ bt'[c].svp = t /\ bt'[c].upg = NotUpgrading
      /\ \A d \in Conns \ {c} : bt'[d] = bt[d]
  BY <1>1 DEF TypeOK, Btrees
<1>3. t = Closed(bt[c].svp, m, commit)
  OBVIOUS
<1> HIDE DEF t
<1>4. t \in Seq(Savepoints) /\ Len(t) = m
      /\ t[1].rw = bt[c].svp[1].rw /\ t[1].live = bt[c].svp[1].live
  <2>1. m \in Nat /\ 1 \in 1..m
    BY <1>1, LenProperties
  <2> QED BY <1>1, <1>3, <2>1, StackClosed
<1>5. Len(t) >= 1
  BY <1>1, <1>4, LenProperties
<1> QED BY <1>1, <1>2, <1>4, <1>5, LockKept

LEMMA CommitLock ==
  ASSUME TypeOK, LockInv, NEW c \in Conns, CommitPhaseOne(c) \/ Rollback(c)
  PROVE  LockStep(c)
<1>1. CASE CommitRead(c) \/ Rollback(c)
  BY <1>1, EndTxnLock, LockSame DEF CommitRead, Rollback, Usable
<1>2. CASE CommitWrite(c) \/ CommitFailsInCounter(c)
  BY <1>2, EndTxnLock DEF CommitWrite, CommitFailsInCounter, InTxn
<1>3. CASE CommitFailsInSavepoint(c)
  <2>1. InTxn(c, {"WRITE"}) /\ 1 \in 1..Len(bt[c].svp)
    BY <1>3, InTxnStack DEF CommitFailsInSavepoint
  <2> QED BY <1>3, <2>1, CutLock DEF CommitFailsInSavepoint
<1>4. CASE CommitFailsInMdb(c)
  <2> DEFINE e == [Closed(bt[c].svp, 1, TRUE)[1] EXCEPT !.live = FALSE]
  <2>1. /\ bt[c].svp # <<>> /\ bt[c].svp \in Seq(Savepoints)
        /\ 1 \in 1..Len(bt[c].svp) /\ bt[c].upg = NotUpgrading
    BY <1>4, InTxnStack DEF CommitFailsInMdb
  <2>2. bt'[c].svp = <<e>> /\ bt'[c].upg = NotUpgrading
        /\ \A d \in Conns \ {c} : bt'[d] = bt[d]
    BY <1>4, <2>1 DEF CommitFailsInMdb, TypeOK, Btrees
  <2>3. ~e.live
    <3> DEFINE t == Closed(bt[c].svp, 1, TRUE)
    <3>1. t \in Seq(Savepoints) /\ Len(t) = 1
      BY <2>1, ClosedLength
    <3> HIDE DEF t
    <3>2. t[1] \in Savepoints
      BY <3>1, ElementOfSeq
    <3>3. ~[t[1] EXCEPT !.live = FALSE].live
      BY <3>2 DEF Savepoints
    <3> QED BY <3>3 DEF t
  <2> HIDE DEF e
  <2>4. bt'[c].svp[1] = e
    BY <2>2
  <2> QED BY <1>4, <2>2, <2>3, <2>4, LockGone DEF CommitFailsInMdb
<1> QED BY <1>1, <1>2, <1>3, <1>4 DEF CommitPhaseOne

LEMMA SavepointLock ==
  ASSUME TypeOK, LockInv, NEW c \in Conns,
         UserSavepoint(c) \/ BeginStmt(c) \/ Savepoint(c)
  PROVE  LockStep(c)
<1>1. CASE UserSavepoint(c)
  BY <1>1, LockSame, InTxnStack DEF UserSavepoint
<1>2. CASE BeginStmt(c)
  <2> DEFINE e == [n |-> Len(cl[c].marks) + 1, rw |-> TRUE, live |-> TRUE,
                   view |-> Top(c).view]
             s == bt[c].svp
             t == Append(s, e)
  <2>1. s # <<>> /\ s \in Seq(Savepoints) /\ 1 \in 1..Len(s) /\ Len(s) \in Nat
        /\ bt[c].upg = NotUpgrading
    BY <1>2, InTxnStack DEF BeginStmt
  <2>2. e \in Savepoints
    <3>1. Len(cl[c].marks) \in Nat
      BY LenProperties DEF TypeOK, Clients
    <3>2. Top(c).view \in View
      BY <2>1, TopType DEF TypeOK
    <3> QED BY <3>1, <3>2 DEF Savepoints
  <2>3. bt'[c].svp = t /\ bt'[c].upg = NotUpgrading
        /\ \A d \in Conns \ {c} : bt'[d] = bt[d]
    BY <1>2, <2>1 DEF BeginStmt, TypeOK, Btrees
  <2> HIDE DEF e, s
  <2>4. t \in Seq(Savepoints) /\ Len(t) >= 1 /\ t[1] = s[1]
    BY <2>1, <2>2, AppendProperties
  <2> HIDE DEF t
  <2> QED BY <1>2, <2>1, <2>3, <2>4, LockKept DEF BeginStmt, s
<1>3. ASSUME NEW i \in Nat, SavepointRelease(c, i)
      PROVE  LockStep(c)
  BY <1>3, CutLock DEF SavepointRelease
<1>4. ASSUME NEW i \in Nat, SavepointReleaseFails(c, i)
      PROVE  LockStep(c)
  BY <1>4, CutLock DEF SavepointReleaseFails, ReleaseAborts
<1>5. ASSUME NEW i \in Nat, SavepointRollback(c, i)
      PROVE  LockStep(c)
  BY <1>5, CutLock DEF SavepointRollback
<1>6. CASE SavepointRollbackAll(c)
  BY <1>6, LockGone, InTxnStack DEF SavepointRollbackAll, TypeOK, Btrees
<1>7. 0..(MaxDepth - 1) \subseteq Nat
  BY BtreeAssumption
<1> QED BY <1>1, <1>2, <1>3, <1>4, <1>5, <1>6, <1>7 DEF Savepoint

LEMMA WriteTopLock ==
  ASSUME TypeOK, LockInv, NEW c \in Conns, InTxn(c, {"WRITE"}),
         NEW d \in DataSet, NEW w \in DataSet, WriteTop(c, d, w)
  PROVE  LockStep(c)
<1> DEFINE s == bt[c].svp
           n == Len(s)
           t == [s EXCEPT ![n].view.data = d]
<1>1. s # <<>> /\ s \in Seq(Savepoints) /\ 1 \in 1..n /\ n \in 1..n /\ n \in Nat
      /\ bt[c].upg = NotUpgrading
  BY InTxnStack
<1>2. bt'[c].svp = t /\ bt'[c].upg = NotUpgrading
      /\ \A x \in Conns \ {c} : bt'[x] = bt[x]
  BY <1>1 DEF WriteTop, TypeOK, Btrees
<1>3. t = [s EXCEPT ![Len(s)].view.data = d]
  OBVIOUS
<1> HIDE DEF t, s
<1>4. /\ t \in Seq(Savepoints) /\ Len(t) = Len(s)
      /\ t[1].rw = s[1].rw /\ t[1].live = s[1].live
  <2>1. Len(s) \in 1..Len(s) /\ 1 \in 1..Len(s)
    BY <1>1
  <2>2. s \in Seq(Savepoints) /\ d \in DataSet
    BY <1>1
  <2> HIDE DEF n
  <2>3. /\ t \in Seq(Savepoints) /\ Len(t) = Len(s)
        /\ \A i \in 1..Len(s) : t[i].rw = s[i].rw /\ t[i].live = s[i].live
    BY SMTT(30), <1>3, <2>1, <2>2, StackWrite
  <2> QED BY <2>1, <2>3
<1>5. UNCHANGED writer /\ Len(t) >= 1
  BY <1>1, <1>4 DEF WriteTop
<1> QED BY <1>1, <1>2, <1>4, <1>5, LockKept DEF s

LEMMA WriteLock ==
  ASSUME TypeOK, LockInv, NEW c \in Conns, Write(c)
  PROVE  LockStep(c)
BY WriteIsWriteTop, WriteTopLock

LEMMA PragmaLock ==
  ASSUME TypeOK, LockInv, NEW c \in Conns, Pragma(c)
  PROVE  LockStep(c)
<1>1. CASE PragmaRefused(c) \/ \E t \in TransTypes : PragmaAlone(c, t)
  BY <1>1, LockSame DEF PragmaRefused, PragmaAlone, Usable, vars, TypeOK, Btrees
<1>2. ASSUME NEW tt \in TransTypes, PragmaInWrite(c, tt)
      PROVE  LockStep(c)
  <2> DEFINE s == bt[c].svp
             n == Len(s)
             v == [Top(c).view EXCEPT !.ttype = tt]
             e == [s[n] EXCEPT !.live = FALSE]
             ended == [s EXCEPT ![n].live = FALSE]
  <2>1. InTxn(c, {"WRITE"})
    BY <1>2 DEF PragmaInWrite
  <2>2. /\ s # <<>> /\ s \in Seq(Savepoints) /\ 1 \in 1..n /\ n \in 1..n /\ n \in Nat
        /\ bt[c].upg = NotUpgrading /\ Top(c).view \in View
    BY <2>1, InTxnStack, TopType DEF TypeOK
  <2>3. v \in View
    BY <2>2 DEF View
  <2>4. e \in Savepoints /\ ~e.live
    <3>1. s[n] \in Savepoints
      BY <2>2, ElementOfSeq
    <3> QED BY <3>1 DEF Savepoints
  <2>5. /\ ended \in Seq(Savepoints) /\ Len(ended) = n
        /\ \A i \in 1..n : ended[i] = IF i = n THEN e ELSE s[i]
    <3>1. ended = [s EXCEPT ![n] = e]
      OBVIOUS
    <3> HIDE DEF e, s, ended
    <3> QED BY <2>2, <2>4, <3>1, ExceptSeq DEF n
  <2>6. CASE n = 1
    <3>1. bt'[c].svp = ended /\ bt'[c].upg = NotUpgrading
          /\ \A d \in Conns \ {c} : bt'[d] = bt[d]
      <4>1. bt' = [bt EXCEPT ![c].svp = ended, ![c].transType = tt]
        BY <1>2, <2>6 DEF PragmaInWrite
      <4> HIDE DEF ended
      <4> QED BY <2>2, <4>1 DEF TypeOK, Btrees
    <3>2. writer' = Released(c)
      BY <1>2, <2>6 DEF PragmaInWrite
    <3> HIDE DEF ended, e
    <3>3. ~ended[1].live
      BY <2>2, <2>4, <2>5, <2>6
    <3> QED BY <3>1, <3>2, <3>3, LockGone
  <2>7. CASE n # 1
    <3> DEFINE f == [ended[n - 1] EXCEPT !.view = v]
               t == [ended EXCEPT ![n - 1] = f]
    <3>1. bt'[c].svp = t /\ bt'[c].upg = NotUpgrading
          /\ \A d \in Conns \ {c} : bt'[d] = bt[d]
      <4>1. bt' = [bt EXCEPT ![c].svp = [ended EXCEPT ![n - 1].view = v],
                             ![c].transType = tt]
        BY <1>2, <2>7 DEF PragmaInWrite
      <4>2. [ended EXCEPT ![n - 1].view = v] = t
        OBVIOUS
      <4> HIDE DEF t
      <4> QED BY <2>2, <4>1, <4>2 DEF TypeOK, Btrees
    <3>2. writer' = writer
      BY <1>2, <2>7 DEF PragmaInWrite
    <3> HIDE DEF ended, v, e
    <3>3. n - 1 \in 1..Len(ended) /\ 1 \in 1..Len(ended) /\ 1 # n
      <4> HIDE DEF n, s
      <4> QED BY <2>2, <2>5, <2>7
    <3>4. /\ f \in Savepoints
          /\ f.rw = ended[n - 1].rw /\ f.live = ended[n - 1].live
      BY <2>3, <2>5, <3>3, ElementOfSeq, LevelView
    <3> HIDE DEF f
    <3>5. /\ t \in Seq(Savepoints) /\ Len(t) = Len(ended)
          /\ \A i \in 1..Len(ended) : t[i] = IF i = n - 1 THEN f ELSE ended[i]
      BY <2>5, <3>3, <3>4, ExceptSeq
    <3> HIDE DEF t
    <3>6. Len(t) >= 1 /\ t[1].rw = s[1].rw /\ t[1].live = s[1].live
      <4> HIDE DEF n, s
      <4> QED BY SMTT(30), <2>2, <2>5, <3>3, <3>4, <3>5
    <3> QED BY <2>2, <3>1, <3>2, <3>5, <3>6, LockKept
  <2> QED BY <2>6, <2>7
<1> QED BY <1>1, <1>2 DEF Pragma

-----------------------------------------------------------------------------
\* TypeOK and LockInv are inductive together.
LEMMA TypeStep ==
  ASSUME TypeOK, LockInv, [Next]_vars
  PROVE  TypeOK' /\ LockInv'
<1>1. CASE UNCHANGED vars
  BY <1>1 DEF vars, TypeOK, LockInv, Pending, Waits, HoldsLock
<1>2. ASSUME NEW c \in Conns,
             \/ BtreeOpen(c) \/ BtreeClose(c) \/ Crash(c) \/ UseDangling(c) \/ Restart(c)
             \/ BeginTrans(c) \/ UpgradeGranted(c) \/ UpgradeFails(c)
             \/ CommitPhaseOne(c) \/ Rollback(c)
             \/ UserSavepoint(c) \/ BeginStmt(c) \/ Savepoint(c)
             \/ Write(c) \/ Pragma(c)
      PROVE  TypeOK' /\ LockInv'
  <2>1. Pending
    BY DEF LockInv
  <2>2. TypeOK'
    BY <1>2, <2>1, LifeType, BeginType, CommitType, SavepointType, WriteType, PragmaType
  <2>3. LockStep(c)
    BY <1>2, LifeLock, BeginLock, CommitLock, SavepointLock, WriteLock, PragmaLock
  <2> QED BY <2>2, <2>3, LockStepKeepsInv
<1> QED BY <1>1, <1>2 DEF Next

LEMMA InitInv == Init => TypeOK /\ LockInv
<1> SUFFICES ASSUME Init PROVE TypeOK /\ LockInv
  OBVIOUS
<1>1. TypeOK
  BY InitialTypes, BtreeAssumption DEF Init, TypeOK
<1>2. LockInv
  BY BtreeAssumption DEF Init, LockInv, Pending, HoldsLock, ClosedBtree
<1> QED BY <1>1, <1>2

\* The state is well formed in every execution: every level of every stack of
\* MDB_txns is a savepoint and all data have the shape LMDB stores, whatever
\* the callers do and whichever calls fail.
THEOREM TypeCorrect == Spec => []TypeOK
<1>1. TypeOK /\ LockInv /\ [Next]_vars => TypeOK' /\ LockInv'
  BY TypeStep
<1> QED BY InitInv, <1>1, PTL DEF Spec

LEMMA LockFollows == TypeOK /\ LockInv => LockMatchesTxn
<1> SUFFICES ASSUME TypeOK, LockInv, NEW c \in Conns
             PROVE  writer = c <=> \E i \in 1..Len(bt[c].svp) :
                                      i = 1 /\ bt[c].svp[i].rw /\ bt[c].svp[i].live
  BY DEF LockMatchesTxn
<1>1. bt[c].svp \in Seq(Savepoints)
  BY DEF TypeOK, Btrees
<1>2. bt[c].svp # <<>> <=> 1 \in 1..Len(bt[c].svp)
  BY <1>1, EmptySeq, LenProperties
<1> QED BY <1>2 DEF LockInv, HoldsLock

\* The writer lock of the environment is held exactly by the connection whose
\* main MDB_txn is a live read/write transaction: no path of btree.c, through
\* upgrades, nested transactions, failing LMDB calls and the habits that
\* break other promises, drops the one and keeps the other.
THEOREM LockCorrect == Spec => []LockMatchesTxn
<1>1. TypeOK /\ LockInv /\ [Next]_vars => TypeOK' /\ LockInv'
  BY TypeStep
<1> QED BY InitInv, <1>1, LockFollows, PTL DEF Spec

-----------------------------------------------------------------------------
\* Callers give up a transaction whose upgrade was refused, and set the
\* transaction type outside of transactions.
Disciplined == Habits \cap {"retryBusy", "pragma"} = {}

\* A commit counter read when c saw its snapshot: it has not been passed by,
\* or it tells that the data have changed since.
Seen(c, n) == n <= db.counter /\ (n = db.counter => cl[c].seen = db.data)

\* The level sees the counter of the latest commit, and a formatted file.
UpToDate(l) == l.view.counter = db.counter /\ 1 \in l.view.data.tabs

\* In the middle of its upgrade: it remembers the counter of its snapshot.
Waiting(c) ==
  /\ bt[c].inTrans = "READ" /\ bt[c].transType = "optimistic"
  /\ Len(bt[c].svp) = 1
  /\ Seen(c, bt[c].upg)

\* In a read transaction, which holds the lock under "serialise".
Reading(c) ==
  LET s == bt[c].svp[1] IN
  /\ bt[c].hasData
  /\ 1 \in s.view.data.tabs
  /\ ~Stale(c) => Seen(c, s.view.counter)
  /\ ~Stale(c) /\ s.rw => s.view.counter = db.counter
  /\ bt[c].transType = "serialise" /\ c \notin ReadonlyConns => s.rw

\* In a write transaction: c has the lock and nobody has committed since.
Writing(c) ==
  /\ HoldsLock(c)
  /\ cl[c].seen = db.data
  /\ \A i \in 1..Len(bt[c].svp) : UpToDate(bt[c].svp[i])

UpdateInv(c) ==
  /\ bt[c].status = "open" => 1 \in db.data.tabs
  /\ bt[c].status # "open" => bt[c].inTrans = "NONE"
  /\ bt[c].upg # NotUpgrading => Waiting(c)
  /\ bt[c].inTrans = "READ" /\ bt[c].svp # <<>> =>
       /\ Len(bt[c].svp) = 1
       /\ bt[c].svp[1].live => Reading(c)
  /\ bt[c].inTrans = "WRITE" => Writing(c)

IInv == TypeOK /\ LockInv /\ \A c \in Conns : UpdateInv(c)

-----------------------------------------------------------------------------
\* What a step of c may do to the committed state: nothing a transaction could
\* notice, create page 1 of a file nobody has open, or publish c's commit.
DbSame == db'.data = db.data /\ db'.counter = db.counter

DbFormatted == 1 \notin db.data.tabs

DbPublished(c) == writer = c /\ db'.counter = db.counter + 1

DbStep(c) ==
  /\ DbSame \/ DbFormatted \/ DbPublished(c)
  /\ 1 \in db.data.tabs => 1 \in db'.data.tabs
  /\ \A d \in Conns \ {c} : cl'[d] = cl[d]

UpdateStep(c) == DbStep(c) /\ UpdateInv(c)'

\* No step of c disturbs what is known of another connection d.
LEMMA OthersKept ==
  ASSUME TypeOK, LockInv, NEW c \in Conns, NEW d \in Conns, c # d,
         UpdateInv(d), DbStep(c), bt'[d] = bt[d]
  PROVE  UpdateInv(d)'
<1>1. cl'[d] = cl[d]
  BY DEF DbStep
<1>2. CASE DbSame
  BY <1>1, <1>2
     DEF DbStep, DbSame, UpdateInv, Waiting, Reading, Writing, Seen, UpToDate, Stale,
         HoldsLock
<1>3. CASE DbFormatted
  <2>1. bt[d].status # "open" /\ bt[d].inTrans = "NONE" /\ bt[d].upg = NotUpgrading
    BY <1>3 DEF DbFormatted, UpdateInv, LockInv, Pending, Waits
  <2> QED BY <2>1 DEF UpdateInv
<1>4. CASE DbPublished(c)
  <2>1. ~HoldsLock(d)
    BY <1>4 DEF DbPublished, LockInv
  <2>2. db.counter \in Int /\ db'.counter = db.counter + 1
    BY <1>4, EnvAssumption DEF DbPublished, TypeOK, View
  <2>3. ASSUME NEW n \in Int, Seen(d, n) PROVE Seen(d, n)'
    BY <2>2, <2>3 DEF Seen
  <2>4. bt[d].upg \in Int
    BY EnvAssumption DEF TypeOK, Btrees, NotUpgrading
  <2>5. bt[d].upg # NotUpgrading => Waiting(d)'
    BY <2>3, <2>4 DEF UpdateInv, Waiting, Seen
  <2>6. ASSUME bt[d].inTrans = "READ", bt[d].svp # <<>>
        PROVE  Len(bt[d].svp) = 1 /\ (bt[d].svp[1].live => Reading(d)')
    <3>1. bt[d].svp[1].view.counter \in Int
      <4>1. bt[d].svp \in Seq(Savepoints) /\ 1 \in 1..Len(bt[d].svp)
        BY <2>6, TopType DEF TypeOK
      <4>2. bt[d].svp[1] \in Savepoints
        BY <4>1, ElementOfSeq
      <4> QED BY <4>2, EnvAssumption DEF Savepoints, View
    <3> QED BY <2>1, <2>3, <2>6, <3>1
            DEF UpdateInv, Reading, Stale, HoldsLock, Seen
  <2>7. bt[d].inTrans # "WRITE"
    BY <2>1 DEF UpdateInv, Writing
  <2> QED BY <2>5, <2>6, <2>7 DEF UpdateInv, DbStep
<1> QED BY <1>2, <1>3, <1>4 DEF DbStep

\* A connection outside a transaction.
LEMMA EndedInv ==
  ASSUME NEW c \in Conns, bt'[c].inTrans = "NONE", bt'[c].upg = NotUpgrading,
         bt'[c].status = "open" => 1 \in db'.data.tabs
  PROVE  UpdateInv(c)'
BY DEF UpdateInv

\* A step that changes neither the connection nor what its caller has seen.
LEMMA SameInv ==
  ASSUME NEW c \in Conns, UpdateInv(c), UNCHANGED <<db, bt>>,
         cl'[c].seen = cl[c].seen, \A d \in Conns \ {c} : cl'[d] = cl[d]
  PROVE  UpdateStep(c)
BY DEF UpdateStep, DbStep, DbSame, UpdateInv, Waiting, Reading, Writing, Seen,
       UpToDate, Stale, HoldsLock

\* A write transaction whose stack becomes t.
LEMMA WritingKept ==
  ASSUME NEW c \in Conns, UpdateInv(c), bt[c].inTrans = "WRITE",
         bt[c].status = "open", bt[c].upg = NotUpgrading,
         UNCHANGED db, cl'[c].seen = cl[c].seen,
         \A d \in Conns \ {c} : cl'[d] = cl[d],
         NEW t, bt'[c] = [bt[c] EXCEPT !.svp = t], bt[c] \in Btrees,
         t # <<>>, t[1].rw = bt[c].svp[1].rw, t[1].live = bt[c].svp[1].live,
         \A i \in 1..Len(t) : UpToDate(t[i])
  PROVE  UpdateStep(c)
<1>1. /\ bt'[c].svp = t /\ bt'[c].inTrans = "WRITE"
      /\ bt'[c].status = "open" /\ bt'[c].upg = NotUpgrading
  BY DEF Btrees
<1>2. Writing(c)'
  BY <1>1 DEF UpdateInv, Writing, HoldsLock, UpToDate
<1> QED BY <1>1, <1>2 DEF UpdateStep, DbStep, DbSame, UpdateInv

-----------------------------------------------------------------------------
LEMMA LifeUpdate ==
  ASSUME TypeOK, LockInv, NEW c \in Conns, UpdateInv(c),
         BtreeOpen(c) \/ BtreeClose(c) \/ Crash(c) \/ UseDangling(c) \/ Restart(c)
  PROVE  UpdateStep(c)
<1>1. CASE BtreeOpen(c)
  <2>1. bt'[c].inTrans = "NONE" /\ bt'[c].upg = NotUpgrading
    BY <1>1 DEF BtreeOpen, UpdateInv, LockInv, Pending, Waits, TypeOK, Btrees
  <2>2. 1 \in db'.data.tabs
    BY <1>1 DEF BtreeOpen, MdbCreate, TypeOK, View, DataSet
  <2>3. DbSame \/ DbFormatted
    <3>1. CASE UNCHANGED db
      BY <3>1 DEF DbSame
    <3>2. CASE 1 \in db.data.tabs /\ db' = [db EXCEPT !.data = MdbCreate(@, 1)]
      <4>1. MdbCreate(db.data, 1) = [db.data EXCEPT !.tabs = db.data.tabs]
        <5>1. db.data.tabs \cup {1} = db.data.tabs
          BY <3>2
        <5> QED BY <5>1 DEF MdbCreate
      <4>2. db \in View /\ db.data \in DataSet
        BY DEF TypeOK, View
      <4>3. [db.data EXCEPT !.tabs = db.data.tabs] = db.data
        BY <4>2 DEF DataSet
      <4>4. db' = [db EXCEPT !.data = db.data]
        BY <3>2, <4>1, <4>3
      <4> QED BY <4>2, <4>4 DEF DbSame, View
    <3> QED BY <1>1, <3>1, <3>2 DEF BtreeOpen, DbFormatted
  <2> QED BY <1>1, <2>1, <2>2, <2>3, EndedInv DEF BtreeOpen, UpdateStep, DbStep
<1>2. CASE BtreeClose(c) \/ Crash(c) \/ UseDangling(c)
  <2>1. bt'[c].inTrans = "NONE" /\ bt'[c].upg = NotUpgrading /\ bt'[c].status # "open"
    BY <1>2 DEF BtreeClose, Crash, UseDangling, Wreck, ClosedBtree, TypeOK
  <2>2. UNCHANGED db /\ \A d \in Conns \ {c} : cl'[d] = cl[d]
    BY <1>2 DEF BtreeClose, Crash, UseDangling, Wreck, TypeOK
  <2> QED BY <2>1, <2>2, EndedInv DEF UpdateStep, DbStep, DbSame
<1>3. CASE Restart(c)
  <2>1. bt'[c].inTrans = "NONE" /\ bt'[c].upg = NotUpgrading /\ bt'[c].status = "closed"
    BY <1>3 DEF Restart, UpdateInv, LockInv, Pending, Waits, TypeOK, Btrees
  <2> QED BY <1>3, <2>1, EndedInv DEF Restart, UpdateStep, DbStep, DbSame
<1> QED BY <1>1, <1>2, <1>3

LEMMA BeginUpdate ==
  ASSUME TypeOK, LockInv, Disciplined, NEW c \in Conns, UpdateInv(c),
         BeginTrans(c) \/ UpgradeGranted(c) \/ UpgradeFails(c)
  PROVE  UpdateStep(c)
<1>1. CASE \/ \E wrFlag \in BOOLEAN : BeginTransAnswered(c, wrFlag)
           \/ UpgradeRefused(c) \/ BeginTransFails(c)
  BY <1>1, SameInv DEF BeginTransAnswered, UpgradeRefused, BeginTransFails, vars
<1>2. CASE BeginTransSerialised(c)
  <2>1. /\ bt[c].inTrans = "READ" /\ bt[c].status = "open" /\ bt[c].svp # <<>>
        /\ bt[c].upg = NotUpgrading /\ c \notin ReadonlyConns
        /\ bt[c].transType = "serialise"
    BY <1>2, InTxnStack DEF BeginTransSerialised, InTxn, Usable
  <2>2. Len(bt[c].svp) = 1 /\ bt[c].svp[1].live
    BY <1>2, <2>1 DEF BeginTransSerialised, InTxn, Dangling, Top, UpdateInv
  <2>3. Reading(c) /\ ~Stale(c)
    BY <2>1, <2>2 DEF UpdateInv, Stale
  <2>4. /\ HoldsLock(c) /\ cl[c].seen = db.data /\ UpToDate(bt[c].svp[1])
    BY <2>1, <2>2, <2>3 DEF Reading, HoldsLock, Seen, UpToDate
  <2>5. /\ bt'[c].svp = bt[c].svp /\ bt'[c].inTrans = "WRITE"
        /\ bt'[c].status = "open" /\ bt'[c].upg = NotUpgrading
        /\ UNCHANGED <<db, cl>>
    BY <1>2, <2>1 DEF BeginTransSerialised, TypeOK, Btrees
  <2>6. Writing(c)'
    BY <2>2, <2>4, <2>5 DEF Writing, HoldsLock, UpToDate
  <2> QED BY <2>1, <2>5, <2>6 DEF UpdateStep, DbStep, DbSame, UpdateInv
<1>3. ASSUME NEW wrFlag \in BOOLEAN, BeginTransNew(c, wrFlag)
      PROVE  UpdateStep(c)
  <2> DEFINE rw == wrFlag \/ (bt[c].transType = "serialise" /\ c \notin ReadonlyConns)
             e  == MainTxn(rw)
  <2>1. /\ bt'[c].svp = <<e>> /\ bt'[c].upg = NotUpgrading /\ bt'[c].status = "open"
        /\ bt'[c].inTrans = (IF wrFlag THEN "WRITE" ELSE "READ")
        /\ bt'[c].hasData /\ bt'[c].transType = bt[c].transType
        /\ cl'[c].seen = db.data /\ \A d \in Conns \ {c} : cl'[d] = cl[d]
        /\ UNCHANGED db
    BY <1>3 DEF BeginTransNew, Usable, TypeOK, Btrees
  <2>2. 1 \in db.data.tabs
    BY <1>3 DEF BeginTransNew, Usable, UpdateInv
  <2>3. /\ e.live /\ e.view = db
        /\ wrFlag => e.rw
        /\ bt[c].transType = "serialise" /\ c \notin ReadonlyConns => e.rw
    <3>1. e.rw = rw /\ e.live = TRUE /\ e.view = db
      BY DEF MainTxn
    <3> HIDE DEF e
    <3>2. rw \in BOOLEAN
      OBVIOUS
    <3>3. e.rw <=> rw
      <4> HIDE DEF rw
      <4> QED BY <3>1, <3>2
    <3> QED BY <3>1, <3>3
  <2> HIDE DEF e
  <2>4. bt'[c].svp # <<>> /\ Len(bt'[c].svp) = 1 /\ bt'[c].svp[1] = e
    BY <2>1
  <2>5. db.counter \in Int
    BY EnvAssumption DEF TypeOK, View
  <2>6. wrFlag => Writing(c)'
    BY <2>1, <2>2, <2>3, <2>4 DEF Writing, HoldsLock, UpToDate
  <2>7. Reading(c)'
    BY <2>1, <2>2, <2>3, <2>4, <2>5 DEF Reading, Seen
  <2> QED BY <2>1, <2>2, <2>4, <2>6, <2>7 DEF UpdateStep, DbStep, DbSame, UpdateInv
<1>4. CASE UpgradeStart(c)
  <2> DEFINE s == bt[c].svp
             t == [s EXCEPT ![1].live = FALSE]
  <2>1. /\ bt[c].inTrans = "READ" /\ bt[c].status = "open" /\ s # <<>>
        /\ bt[c].transType = "optimistic" /\ ~Stale(c)
    BY <1>4, InTxnStack DEF UpgradeStart, InTxn, Usable, Disciplined
  <2>2. Len(s) = 1 /\ s[1].live
    BY <1>4, <2>1 DEF UpgradeStart, InTxn, Dangling, Top, UpdateInv
  <2>3. Reading(c) /\ Seen(c, s[1].view.counter) /\ bt[c].hasData
    BY <2>1, <2>2 DEF UpdateInv, Reading
  <2>4. s \in Seq(Savepoints) /\ 1 \in 1..Len(s)
    BY <2>1, TopType, SMTT(30) DEF TypeOK
  <2>5. /\ bt'[c].svp = t /\ bt'[c].inTrans = "READ" /\ bt'[c].status = "open"
        /\ bt'[c].transType = "optimistic" /\ bt'[c].upg = s[1].view.counter
        /\ UNCHANGED <<db, cl>>
    BY <1>4, <2>1, <2>2, <2>3 DEF UpgradeStart, TypeOK, Btrees, Top
  <2> HIDE DEF s
  <2>6. Len(t) = 1 /\ ~t[1].live
    <3> DEFINE e == [s[1] EXCEPT !.live = FALSE]
    <3>1. s[1] \in Savepoints BY <2>4, ElementOfSeq
    <3>2. e \in Savepoints /\ ~e.live BY <3>1 DEF Savepoints
    <3>3. t = [s EXCEPT ![1] = e] OBVIOUS
    <3> HIDE DEF e
    <3> HIDE DEF t
    <3>4. t \in Seq(Savepoints) /\ Len(t) = Len(s) /\ t[1] = e
      BY <2>4, <3>2, <3>3, ExceptSeq
    <3> QED BY <2>2, <3>2, <3>4
  <2> HIDE DEF t
  <2>7. Waiting(c)'
    BY <2>3, <2>5, <2>6 DEF Waiting, Seen
  <2>8. 1 \in db.data.tabs
    BY <2>1 DEF UpdateInv
  <2> QED BY <2>5, <2>6, <2>7, <2>8 DEF UpdateStep, DbStep, DbSame, UpdateInv
<1>5. CASE UpgradeGranted(c)
  <2> DEFINE s == bt[c].svp
             e == MainTxn(TRUE)
             t == [s EXCEPT ![1] = e]
  <2>1. Waiting(c) /\ bt[c].status = "open" /\ 1 \in db.data.tabs
    BY <1>5 DEF UpgradeGranted, UpdateInv
  <2>2. s \in Seq(Savepoints) /\ e \in Savepoints /\ s # <<>> /\ Len(s) = 1
    BY <1>5, <2>1, MainTxnType
       DEF UpgradeGranted, TypeOK, Btrees, LockInv, Pending, Waits, Waiting
  <2>3. /\ bt'[c].svp = t /\ bt'[c].upg = NotUpgrading /\ bt'[c].status = "open"
        /\ bt'[c].hasData /\ bt'[c].transType = "optimistic"
        /\ bt'[c].inTrans = (IF bt[c].upg = db.counter THEN "WRITE" ELSE "READ")
        /\ UNCHANGED <<db, cl>>
    BY <1>5, <2>1 DEF UpgradeGranted, Waiting, TypeOK, Btrees
  <2> HIDE DEF s
  <2>4. e.rw /\ e.live /\ e.view = db
    BY DEF MainTxn
  <2> HIDE DEF e
  <2>5. t # <<>> /\ Len(t) = 1 /\ t[1] = e
    <3>1. t = [s EXCEPT ![1] = e]
      OBVIOUS
    <3> HIDE DEF t
    <3>2. t \in Seq(Savepoints) /\ Len(t) = Len(s) /\ t[1] = e
      BY <2>2, <3>1, ExceptSeq
    <3> QED BY <2>2, <3>2, EmptySeq
  <2> HIDE DEF t
  <2>6. bt[c].upg = db.counter => Writing(c)'
    BY <2>1, <2>3, <2>4, <2>5 DEF Waiting, Seen, Writing, HoldsLock, UpToDate
  <2>7. bt[c].upg # db.counter => Stale(c)'
    BY <2>3, <2>4, <2>5 DEF Stale
  <2>8. bt[c].upg # db.counter => Reading(c)'
    BY <2>1, <2>3, <2>4, <2>5, <2>7 DEF Reading
  <2> QED BY <2>1, <2>3, <2>5, <2>6, <2>8 DEF UpdateStep, DbStep, DbSame, UpdateInv
<1>6. CASE UpgradeFails(c)
  <2>1. /\ bt'[c].svp = <<>> /\ bt'[c].upg = NotUpgrading /\ bt'[c].status = "open"
        /\ bt'[c].inTrans = "READ" /\ UNCHANGED <<db, cl>>
    BY <1>6 DEF UpgradeFails, UpdateInv, Waiting, TypeOK, Btrees
  <2>2. 1 \in db.data.tabs
    BY <1>6 DEF UpgradeFails, UpdateInv
  <2> QED BY <2>1, <2>2 DEF UpdateStep, DbStep, DbSame, UpdateInv
<1> QED BY <1>1, <1>2, <1>3, <1>4, <1>5, <1>6 DEF BeginTrans

\* What is known of c and its stack inside a write transaction.
LEMMA WriterStack ==
  ASSUME TypeOK, LockInv, NEW c \in Conns, UpdateInv(c), InTxn(c, {"WRITE"})
  PROVE  /\ bt[c] \in Btrees /\ bt[c].inTrans = "WRITE" /\ bt[c].status = "open"
         /\ bt[c].upg = NotUpgrading /\ 1 \in db.data.tabs
         /\ bt[c].svp # <<>> /\ bt[c].svp \in Seq(Savepoints)
         /\ 1 \in 1..Len(bt[c].svp) /\ Len(bt[c].svp) \in 1..Len(bt[c].svp)
         /\ Len(bt[c].svp) \in Nat
         /\ Writing(c) /\ UpToDate(Top(c)) /\ writer = c
<1>1. bt[c].inTrans = "WRITE" /\ bt[c].status = "open"
  BY DEF InTxn, Usable
<1>2. /\ bt[c].svp # <<>> /\ bt[c].svp \in Seq(Savepoints)
      /\ 1 \in 1..Len(bt[c].svp) /\ Len(bt[c].svp) \in 1..Len(bt[c].svp)
      /\ Len(bt[c].svp) \in Nat /\ bt[c].upg = NotUpgrading
  BY InTxnStack
<1>3. Writing(c) /\ 1 \in db.data.tabs
  BY <1>1 DEF UpdateInv
<1>4. UpToDate(Top(c)) /\ writer = c
  BY <1>2, <1>3 DEF Writing, Top, LockInv
<1> QED BY <1>1, <1>2, <1>3, <1>4 DEF TypeOK

\* Closing savepoints leaves levels that are current.
LEMMA CutUpdate ==
  ASSUME TypeOK, LockInv, NEW c \in Conns, UpdateInv(c), InTxn(c, {"WRITE"}),
         UNCHANGED db, cl'[c].seen = cl[c].seen,
         \A d \in Conns \ {c} : cl'[d] = cl[d],
         NEW m \in 1..Len(bt[c].svp), NEW commit \in BOOLEAN,
         bt' = [bt EXCEPT ![c].svp = Closed(@, m, commit)]
  PROVE  UpdateStep(c)
<1> DEFINE s == bt[c].svp
           t == Closed(s, m, commit)
<1>1. /\ s \in Seq(Savepoints) /\ 1 \in 1..Len(s) /\ Len(s) \in 1..Len(s)
      /\ Len(s) \in Nat
      /\ \A i \in 1..Len(s) : UpToDate(s[i])
  BY WriterStack DEF Writing
<1>2. bt'[c] = [bt[c] EXCEPT !.svp = t]
  BY DEF TypeOK
<1>3. t = Closed(s, m, commit)
  OBVIOUS
<1> HIDE DEF s, t
<1>4. m \in 1..Len(s)
  BY DEF s
<1>5. /\ t \in Seq(Savepoints) /\ Len(t) = m
      /\ \A i \in 1..m : /\ t[i].rw = s[i].rw /\ t[i].live = s[i].live
                         /\ i # m => t[i] = s[i]
      /\ t[m].view = IF commit THEN s[Len(s)].view ELSE s[m].view
  BY <1>1, <1>3, <1>4, StackClosed
<1>6. 1 \in 1..m /\ m \in 1..m
  BY <1>1, <1>4
<1>7. \A i \in 1..Len(t) : UpToDate(t[i])
  <2>1. UpToDate(t[m])
    BY <1>1, <1>4, <1>5 DEF UpToDate
  <2>2. \A i \in 1..m : i \in 1..Len(s)
    BY <1>1, <1>4
  <2>3. \A i \in 1..m : i # m => UpToDate(t[i])
    BY <1>1, <1>5, <2>2
  <2>4. \A i \in 1..m : UpToDate(t[i])
    BY <2>1, <2>3
  <2> QED BY <1>5, <2>4
<1>8. t # <<>> /\ t[1].rw = s[1].rw /\ t[1].live = s[1].live
  BY <1>5, <1>6, EmptySeq
<1> QED BY <1>2, <1>7, <1>8, WriterStack, WritingKept DEF s

LEMMA EndTxnUpdate ==
  ASSUME TypeOK, NEW c \in Conns, UpdateInv(c), Usable(c), EndTxn(c),
         DbSame \/ DbPublished(c), 1 \in db'.data.tabs
  PROVE  UpdateStep(c)
<1>1. bt'[c].inTrans = "NONE" /\ bt'[c].upg = NotUpgrading
  BY DEF EndTxn, Usable, TypeOK, Btrees
<1> QED BY <1>1, EndedInv DEF EndTxn, UpdateStep, DbStep, TypeOK

LEMMA CommitUpdate ==
  ASSUME TypeOK, LockInv, NEW c \in Conns, UpdateInv(c),
         CommitPhaseOne(c) \/ Rollback(c)
  PROVE  UpdateStep(c)
<1>1. CASE CommitRead(c) \/ Rollback(c)
  <2>1. Usable(c) /\ UNCHANGED db /\ (EndTxn(c) \/ UNCHANGED <<bt, cl>>)
    BY <1>1 DEF CommitRead, Rollback
  <2>2. 1 \in db'.data.tabs
    BY <2>1 DEF Usable, UpdateInv
  <2> QED BY <2>1, <2>2, EndTxnUpdate, SameInv DEF DbSame
<1>2. CASE CommitWrite(c)
  <2>1. /\ Usable(c) /\ EndTxn(c) /\ db.counter < MaxCommits
        /\ db' = [Top(c).view EXCEPT !.counter = NextCounter(@)]
        /\ InTxn(c, {"WRITE"})
    BY <1>2 DEF CommitWrite, InTxn
  <2>2. UpToDate(Top(c)) /\ writer = c
    BY <2>1, WriterStack
  <2>3. Top(c).view \in View
    BY <2>1, WriterStack, TopType DEF TypeOK
  <2>4. NextCounter(db.counter) = db.counter + 1
    <3>1. db.counter \in Nat /\ db.counter + 1 < CounterMod /\ CounterMod \in Nat
      BY <2>1, EnvAssumption, BtreeAssumption DEF TypeOK, View
    <3> DEFINE n == db.counter
    <3> HIDE DEF n
    <3>2. n \in Nat /\ n + 1 < CounterMod /\ CounterMod \in Nat
      BY <3>1 DEF n
    <3>3. (n + 1) % CounterMod = n + 1
      BY <3>2, SMT
    <3> QED BY <3>3 DEF NextCounter, n
  <2>5. db'.counter = db.counter + 1 /\ 1 \in db'.data.tabs
    BY <2>1, <2>2, <2>3, <2>4, SMTT(30) DEF UpToDate, View
  <2> QED BY <2>1, <2>2, <2>5, EndTxnUpdate DEF DbPublished
<1>3. CASE CommitFailsInSavepoint(c)
  <2>1. InTxn(c, {"WRITE"}) /\ 1 \in 1..Len(bt[c].svp)
    BY <1>3, WriterStack DEF CommitFailsInSavepoint
  <2>2. cl'[c].seen = cl[c].seen /\ \A d \in Conns \ {c} : cl'[d] = cl[d]
    BY <1>3 DEF CommitFailsInSavepoint, TypeOK, Clients
  <2> QED BY <1>3, <2>1, <2>2, CutUpdate DEF CommitFailsInSavepoint
<1>4. CASE CommitFailsInCounter(c)
  <2>1. Usable(c) /\ EndTxn(c) /\ UNCHANGED db /\ 1 \in db.data.tabs
    BY <1>4, WriterStack DEF CommitFailsInCounter, InTxn
  <2> QED BY <2>1, EndTxnUpdate DEF DbSame
<1>5. CASE CommitFailsInMdb(c)
  <2>1. bt[c].upg = NotUpgrading /\ 1 \in db.data.tabs /\ UNCHANGED db
    BY <1>5, WriterStack DEF CommitFailsInMdb
  <2>2. /\ bt'[c].inTrans = "NONE" /\ bt'[c].upg = NotUpgrading
        /\ \A d \in Conns \ {c} : cl'[d] = cl[d]
    BY <1>5, <2>1 DEF CommitFailsInMdb, TypeOK, Btrees
  <2> QED BY <2>1, <2>2, EndedInv DEF UpdateStep, DbStep, DbSame
<1> QED BY <1>1, <1>2, <1>3, <1>4, <1>5 DEF CommitPhaseOne

LEMMA SavepointUpdate ==
  ASSUME TypeOK, LockInv, NEW c \in Conns, UpdateInv(c),
         UserSavepoint(c) \/ BeginStmt(c) \/ Savepoint(c)
  PROVE  UpdateStep(c)
<1>1. CASE UserSavepoint(c)
  BY <1>1, SameInv DEF UserSavepoint, TypeOK, Clients
<1>2. CASE BeginStmt(c)
  <2> DEFINE e == [n |-> Len(cl[c].marks) + 1, rw |-> TRUE, live |-> TRUE,
                   view |-> Top(c).view]
             s == bt[c].svp
             t == Append(s, e)
  <2>1. InTxn(c, {"WRITE"})
    BY <1>2 DEF BeginStmt
  <2>2. /\ s # <<>> /\ s \in Seq(Savepoints) /\ 1 \in 1..Len(s) /\ Len(s) \in Nat
        /\ \A i \in 1..Len(s) : UpToDate(s[i])
    BY <2>1, WriterStack DEF Writing
  <2>3. e \in Savepoints
    <3>1. Len(cl[c].marks) \in Nat
      BY LenProperties DEF TypeOK, Clients
    <3>2. Top(c).view \in View
      BY <2>2, TopType DEF TypeOK
    <3> QED BY <3>1, <3>2 DEF Savepoints
  <2>4. UpToDate(e)
    BY <2>1, WriterStack DEF UpToDate
  <2>5. /\ bt'[c] = [bt[c] EXCEPT !.svp = t] /\ UNCHANGED db
        /\ cl'[c].seen = cl[c].seen /\ \A d \in Conns \ {c} : cl'[d] = cl[d]
    BY <1>2 DEF BeginStmt, TypeOK, Clients
  <2> HIDE DEF e, s
  <2>6. /\ t # <<>> /\ t[1] = s[1] /\ Len(t) = Len(s) + 1 /\ t[Len(s) + 1] = e
        /\ \A i \in 1..Len(s) : t[i] = s[i]
    BY <2>2, <2>3, AppendProperties
  <2> HIDE DEF t
  <2>7. \A i \in 1..Len(t) : UpToDate(t[i])
    <3> SUFFICES ASSUME NEW i \in 1..Len(t) PROVE UpToDate(t[i])
      OBVIOUS
    <3>1. CASE i \in 1..Len(s)
      BY <2>2, <2>6, <3>1
    <3>2. CASE i = Len(s) + 1
      BY <2>4, <2>6, <3>2
    <3> QED BY <2>2, <2>6, <3>1, <3>2
  <2> QED BY <2>1, <2>5, <2>6, <2>7, WriterStack, WritingKept DEF s
<1>3. ASSUME NEW i \in Nat, SavepointRelease(c, i)
      PROVE  UpdateStep(c)
  <2>1. cl'[c].seen = cl[c].seen /\ \A d \in Conns \ {c} : cl'[d] = cl[d]
    BY <1>3 DEF SavepointRelease, TypeOK, Clients
  <2> QED BY <1>3, <2>1, CutUpdate DEF SavepointRelease
<1>4. ASSUME NEW i \in Nat, SavepointReleaseFails(c, i)
      PROVE  UpdateStep(c)
  <2>1. cl'[c].seen = cl[c].seen /\ \A d \in Conns \ {c} : cl'[d] = cl[d]
    BY <1>4 DEF SavepointReleaseFails, ReleaseAborts, TypeOK, Clients
  <2> QED BY <1>4, <2>1, CutUpdate DEF SavepointReleaseFails, ReleaseAborts
<1>5. ASSUME NEW i \in Nat, SavepointRollback(c, i)
      PROVE  UpdateStep(c)
  <2>1. cl'[c].seen = cl[c].seen /\ \A d \in Conns \ {c} : cl'[d] = cl[d]
    BY <1>5 DEF SavepointRollback, TypeOK, Clients
  <2> QED BY <1>5, <2>1, CutUpdate DEF SavepointRollback
<1>6. CASE SavepointRollbackAll(c)
  <2>1. bt[c].upg = NotUpgrading /\ 1 \in db.data.tabs /\ UNCHANGED db
    BY <1>6, WriterStack DEF SavepointRollbackAll
  <2>2. /\ bt'[c].inTrans = "NONE" /\ bt'[c].upg = NotUpgrading
        /\ \A d \in Conns \ {c} : cl'[d] = cl[d]
    BY <1>6, <2>1 DEF SavepointRollbackAll, TypeOK, Btrees
  <2> QED BY <2>1, <2>2, EndedInv DEF UpdateStep, DbStep, DbSame
<1>7. 0..(MaxDepth - 1) \subseteq Nat
  BY BtreeAssumption
<1> QED BY <1>1, <1>2, <1>3, <1>4, <1>5, <1>6, <1>7 DEF Savepoint

-----------------------------------------------------------------------------
\* No write removes page 1 from the file.
LEMMA FormatKept ==
  ASSUME NEW d \in DataSet, 1 \in d.tabs, NEW r \in Roots
  PROVE  /\ \A k \in Keys, x \in Vals \cup {NoVal} : 1 \in MdbPut(d, r, k, x).tabs
         /\ NextRoot(d) <= MaxRoot => 1 \in WithNewTable(d).tabs
         /\ 1 \in Dropped(d, r).tabs /\ 1 \in MdbEmpty(d, r).tabs
         /\ \A x \in SchemaVals : 1 \in [d EXCEPT !.schema = x].tabs
<1>1. \A k \in Keys, x \in Vals \cup {NoVal} : MdbPut(d, r, k, x).tabs = d.tabs
  BY DEF MdbPut, DataSet
<1>2. WithNewTable(d).tabs = d.tabs \cup {NextRoot(d)}
  BY DEF WithNewTable, MdbCreate, DataSet
<1>3. MdbEmpty(d, r).tabs = d.tabs
  BY DEF MdbEmpty, DataSet
<1>4. 1 \in Dropped(d, r).tabs
  <2>1. CASE r > 1
    BY <2>1 DEF Dropped, MdbDelete, DataSet
  <2>2. CASE ~(r > 1)
    BY <1>3, <2>2 DEF Dropped
  <2> QED BY <2>1, <2>2
<1>5. \A x \in SchemaVals : [d EXCEPT !.schema = x].tabs = d.tabs
  BY DEF DataSet
<1> QED BY <1>1, <1>2, <1>3, <1>4, <1>5

\* Every write is a WriteTop of data that still have page 1.
LEMMA WriteKeepsFormat ==
  ASSUME TypeOK, NEW c \in Conns, Write(c), 1 \in Top(c).view.data.tabs
  PROVE  \E d \in DataSet : 1 \in d.tabs /\ \E w \in DataSet : WriteTop(c, d, w)
<1> DEFINE Goal == \E d \in DataSet :
                     1 \in d.tabs /\ \E w \in DataSet : WriteTop(c, d, w)
           v == Top(c).view.data
           w == cl[c].want
<1>1. bt[c].svp # <<>>
  BY WriteIsWriteTop DEF InTxn, Dangling
<1>2. v \in DataSet /\ w \in DataSet /\ 1 \in v.tabs
  BY <1>1, TopType DEF TypeOK, Clients
<1>3. 1 \in Roots
  BY DEF Roots
<1>4. ASSUME NEW r \in Roots, NEW k \in Keys, NEW x \in Vals \cup {NoVal},
             WriteRow(c, r, k, x)
      PROVE  Goal
  <2>1. WriteTop(c, MdbPut(v, r, k, x), MdbPut(w, r, k, x))
    BY <1>4 DEF WriteRow
  <2> QED BY <1>2, <2>1, PutType, FormatKept
<1>5. ASSUME CreateTable(c) PROVE Goal
  <2>1. /\ WriteTop(c, WithNewTable(v), WithNewTable(w))
        /\ NextRoot(v) <= MaxRoot /\ NextRoot(w) <= MaxRoot
    BY <1>5 DEF CreateTable
  <2> QED BY <1>2, <1>3, <2>1, NewTableType, FormatKept
<1>6. ASSUME NEW r \in Roots, DropTable(c, r) PROVE Goal
  <2>1. WriteTop(c, Dropped(v, r), Dropped(w, r))
    BY <1>6 DEF DropTable
  <2>2. Dropped(v, r) \in DataSet /\ Dropped(w, r) \in DataSet
    BY <1>2, EmptyType DEF Dropped
  <2> QED BY <1>2, <2>1, <2>2, FormatKept
<1>7. ASSUME NEW r \in Roots, ClearTable(c, r) PROVE Goal
  <2>1. WriteTop(c, MdbEmpty(v, r), MdbEmpty(w, r))
    BY <1>7 DEF ClearTable
  <2> QED BY <1>2, <2>1, EmptyType, FormatKept
<1>8. ASSUME NEW x \in SchemaVals, UpdateMeta(c, x) PROVE Goal
  <2>1. WriteTop(c, [v EXCEPT !.schema = x], [w EXCEPT !.schema = x])
    BY <1>8 DEF UpdateMeta
  <2>2. [v EXCEPT !.schema = x] \in DataSet /\ [w EXCEPT !.schema = x] \in DataSet
    BY <1>2 DEF DataSet
  <2> QED BY <1>2, <1>3, <2>1, <2>2, FormatKept
<1> QED BY <1>4, <1>5, <1>6, <1>7, <1>8 DEF Write

LEMMA WriteUpdate ==
  ASSUME TypeOK, LockInv, NEW c \in Conns, UpdateInv(c), Write(c)
  PROVE  UpdateStep(c)
<1> DEFINE s == bt[c].svp
<1>1. InTxn(c, {"WRITE"})
  BY WriteIsWriteTop
<1>2. /\ s # <<>> /\ s \in Seq(Savepoints)
      /\ 1 \in 1..Len(s) /\ Len(s) \in 1..Len(s)
      /\ \A i \in 1..Len(s) : UpToDate(s[i])
      /\ 1 \in Top(c).view.data.tabs
  BY <1>1, WriterStack DEF Writing, UpToDate
<1>3. PICK d \in DataSet : 1 \in d.tabs /\ \E w \in DataSet : WriteTop(c, d, w)
  BY <1>2, WriteKeepsFormat
<1>4. PICK w \in DataSet : WriteTop(c, d, w)
  BY <1>3
<1> DEFINE t == [s EXCEPT ![Len(s)].view.data = d]
<1>5. /\ bt'[c] = [bt[c] EXCEPT !.svp = t] /\ UNCHANGED db
      /\ cl'[c].seen = cl[c].seen /\ \A x \in Conns \ {c} : cl'[x] = cl[x]
  BY <1>4 DEF WriteTop, TypeOK, Clients
<1>6. t = [s EXCEPT ![Len(s)].view.data = d]
  OBVIOUS
<1> HIDE DEF t, s
<1>7. /\ Len(t) = Len(s)
      /\ \A i \in 1..Len(s) :
           /\ t[i].rw = s[i].rw /\ t[i].live = s[i].live
           /\ t[i].view.counter = s[i].view.counter
           /\ i # Len(s) => t[i].view = s[i].view
      /\ t[Len(s)].view.data = d
  <2>1. Len(s) \in 1..Len(s)
    BY <1>2
  <2>2. s \in Seq(Savepoints) /\ d \in DataSet
    BY <1>2
  <2> QED BY <1>6, <2>1, <2>2, StackWrite
<1>8. \A i \in 1..Len(t) : UpToDate(t[i])
  BY <1>2, <1>3, <1>7 DEF UpToDate
<1>9. t # <<>> /\ t[1].rw = s[1].rw /\ t[1].live = s[1].live
  BY <1>2, <1>7
<1> QED BY <1>1, <1>5, <1>8, <1>9, WriterStack, WritingKept DEF s

LEMMA PragmaUpdate ==
  ASSUME TypeOK, LockInv, Disciplined, NEW c \in Conns, UpdateInv(c), Pragma(c)
  PROVE  UpdateStep(c)
<1>1. ASSUME NEW t \in TransTypes, PragmaAlone(c, t)
      PROVE  UpdateStep(c)
  <2>1. bt'[c].inTrans = "NONE" /\ bt'[c].upg = NotUpgrading /\ UNCHANGED cl
    BY <1>1 DEF PragmaAlone, Usable, TypeOK, Btrees
  <2>2. DbSame /\ db'.data = db.data
    BY <1>1 DEF PragmaAlone, DbSame, TypeOK, View
  <2>3. 1 \in db.data.tabs
    BY <1>1 DEF PragmaAlone, Usable, UpdateInv
  <2> QED BY <2>1, <2>2, <2>3, EndedInv DEF UpdateStep, DbStep
<1>2. CASE PragmaRefused(c)
  BY <1>2, SameInv DEF PragmaRefused, vars
<1>3. \A t \in TransTypes : ~PragmaInWrite(c, t)
  BY DEF PragmaInWrite, Disciplined
<1> QED BY <1>1, <1>2, <1>3 DEF Pragma

-----------------------------------------------------------------------------
\* The invariant is inductive.
LEMMA UpdateNext ==
  ASSUME Disciplined, IInv, [Next]_vars
  PROVE  IInv'
<1>1. TypeOK' /\ LockInv'
  BY TypeStep DEF IInv
<1>2. CASE UNCHANGED vars
  BY <1>1, <1>2
     DEF vars, IInv, UpdateInv, Waiting, Reading, Writing, Seen, UpToDate, Stale, HoldsLock
<1>3. ASSUME NEW c \in Conns,
             \/ BtreeOpen(c) \/ BtreeClose(c) \/ Crash(c) \/ UseDangling(c) \/ Restart(c)
             \/ BeginTrans(c) \/ UpgradeGranted(c) \/ UpgradeFails(c)
             \/ CommitPhaseOne(c) \/ Rollback(c)
             \/ UserSavepoint(c) \/ BeginStmt(c) \/ Savepoint(c)
             \/ Write(c) \/ Pragma(c)
      PROVE  IInv'
  <2>1. TypeOK /\ LockInv /\ \A d \in Conns : UpdateInv(d)
    BY DEF IInv
  <2>2. UpdateStep(c)
    BY <1>3, <2>1, LifeUpdate, BeginUpdate, CommitUpdate, SavepointUpdate, WriteUpdate,
       PragmaUpdate
  <2>3. \A d \in Conns \ {c} : bt'[d] = bt[d]
    <3>1. LockStep(c)
      BY <1>3, <2>1, LifeLock, BeginLock, CommitLock, SavepointLock, WriteLock, PragmaLock
    <3> QED BY <3>1 DEF LockStep
  <2>4. ASSUME NEW d \in Conns PROVE UpdateInv(d)'
    <3>1. CASE d = c
      BY <2>2, <3>1 DEF UpdateStep
    <3>2. CASE d # c
      BY <2>1, <2>2, <2>3, <3>2, OthersKept DEF UpdateStep
    <3> QED BY <3>1, <3>2
  <2> QED BY <1>1, <2>4 DEF IInv
<1> QED BY <1>2, <1>3 DEF Next

LEMMA InitUpdate == Init => IInv
<1> SUFFICES ASSUME Init PROVE IInv
  OBVIOUS
<1>1. ASSUME NEW c \in Conns PROVE UpdateInv(c)
  BY DEF Init, ClosedBtree, UpdateInv
<1> QED BY <1>1, InitInv DEF IInv

\* A write transaction starts from the latest commit, for any number of
\* connections, savepoints and failing LMDB calls: the commit counter that
\* sqlite3BtreeBeginTrans compares after its optimistic upgrade, and the lock
\* in the other transaction models, keep every other commit out between the
\* caller's first read and its write, as long as nobody asks again after
\* SQLITE_BUSY or sets PRAGMA lmdb_transaction inside a write transaction.
THEOREM UpdateCorrect ==
  ASSUME Disciplined
  PROVE  Spec => []NoLostUpdate
<1>1. IInv /\ [Next]_vars => IInv'
  BY UpdateNext
<1>2. IInv => NoLostUpdate
  BY DEF IInv, UpdateInv, Writing, NoLostUpdate, InTxn
<1> QED BY InitUpdate, <1>1, <1>2, PTL DEF Spec

=============================================================================
