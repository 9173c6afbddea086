----------------------------- MODULE LmdbCursor -----------------------------
(***************************************************************************)
(* The cursors of not-fork.d/lmdb/files/btree.c (struct BtCursor) composed *)
(* with the transactions of LmdbBtree.  An LMDB cursor dies with the       *)
(* transaction it was opened in, so every transaction call first walks the *)
(* list of cursors (invalidateCursors) and saves their positions or trips  *)
(* them; a saved cursor is reopened by its next use (restoreCursor).       *)
(*                                                                         *)
(* LMDB is external: a table is one page, a cursor is on a key, and a      *)
(* cursor whose row was deleted sits in the gap the row has left.          *)
(***************************************************************************)
EXTENDS LmdbBtree, FiniteSetsExt

CONSTANTS
  Slots,         \* cursors a connection may have
  CursorHabits   \* calls that are made although cursors stand in the way

\*  "endOpen"      ends a transaction while cursors are open
\*  "gap"          lets a cursor be saved, or deletes through it, while it sits
\*                 where its row was
\*  "seekPast"     seeks beyond the last row
\*  "rowless"      lets cursors be saved while one has no row at all
AllCursorHabits == {"endOpen", "gap", "seekPast", "rowless"}

ASSUME CursorAssumption ==
  /\ Keys \subseteq Nat \ {0}
  /\ IsFiniteSet(Keys)
  /\ CursorHabits \subseteq AllCursorHabits

VARIABLE cur     \* struct BtCursor of every connection and slot

cvars == <<db, writer, bt, cl, faults, cur>>

NoKey == 0

-----------------------------------------------------------------------------
\* hnd is the MDB_cursor: no pointer, a working cursor, memory LMDB has freed
\* with its write transaction, or a cursor of a read transaction that is gone.
\* lvl: the level of the savepoint stack it was opened in.  pos: where it is,
\* NoKey if it was never positioned.  saved: savedKey.  mark, nextOk, seekOk
\* are what the caller knows: the row it was put on last, whether every Next
\* and Previous went to the neighbour of that row, and whether every seek that
\* found no match ended beside the key.
CursorRec == [open : BOOLEAN, root : Roots, wr : BOOLEAN,
              hnd : {"null", "live", "ended", "orphan"},
              lvl : 0..(MaxDepth + 1),
              pos : Keys \cup {NoKey}, saved : Keys \cup {NoKey},
              trip : {"OK", "INTERNAL", "ABORT"}, eof : BOOLEAN,
              mark : Keys \cup {NoKey}, nextOk : BOOLEAN, seekOk : BOOLEAN]

\* sqlite3BtreeCursorZero.
ZeroCursor == [open |-> FALSE, root |-> 1, wr |-> FALSE, hnd |-> "null",
               lvl |-> 0, pos |-> NoKey, saved |-> NoKey, trip |-> "OK",
               eof |-> FALSE, mark |-> NoKey, nextOk |-> TRUE, seekOk |-> TRUE]

CursorTypeOK == TypeOK /\ cur \in [Conns -> [Slots -> CursorRec]]

CursorInit == Init /\ cur = [c \in Conns |-> [s \in Slots |-> ZeroCursor]]

-----------------------------------------------------------------------------
\* The rows of table r in data d, and where LMDB's moves lead in them.
KeysIn(d, r) == {k \in Keys : d.rows[r][k] # NoVal}

Lowest(S) == IF S = {} THEN NoKey ELSE Min(S)

Highest(S) == IF S = {} THEN NoKey ELSE Max(S)

After(d, r, k) == Lowest({j \in KeysIn(d, r) : j > k})

Before(d, r, k) == Highest({j \in KeysIn(d, r) : k = NoKey \/ j < k})

\* MDB_GET_CURRENT: EINVAL on a cursor that was never positioned; in a gap it
\* returns the row that has moved up.
Current(d, q) ==
  IF q.pos = NoKey \/ q.pos \in KeysIn(d, q.root) THEN q.pos
                                                  ELSE After(d, q.root, q.pos)

\* Whether invalidateCursors has anything to do with q.
Attached(q) == q.open /\ q.trip = "OK" /\ q.hnd # "null"

\* Mutant of SavedCursor: the MDB_cursor is not closed.
SavedCursorUnclosed(d, q) ==
  IF ~Attached(q) THEN q
  ELSE IF Current(d, q) = NoKey THEN [q EXCEPT !.trip = "INTERNAL"]
  ELSE [q EXCEPT !.saved = Current(d, q)]

\* invalidateCursors(SQLITE_OK) on one cursor: its position is saved and the
\* MDB_cursor closed; one without a current row is tripped with the mapped
\* error, and the call as a whole fails.
SavedCursor(d, q) ==
  IF ~Attached(q) THEN q
  ELSE IF Current(d, q) = NoKey THEN [q EXCEPT !.trip = "INTERNAL"]
  ELSE [q EXCEPT !.saved = Current(d, q), !.hnd = "null", !.lvl = 0]

CanSave(c, d) ==
  \A s \in Slots : Attached(cur[c][s]) => Current(d, cur[c][s]) # NoKey

\* invalidateCursors(code): the MDB_cursor is left where it is, and with
\* writeOnly a read cursor is not touched at all.
TrippedCursor(code, writeOnly, q) ==
  IF Attached(q) /\ (q.wr \/ ~writeOnly) THEN [q EXCEPT !.trip = code] ELSE q

Invalidated(code, writeOnly, d, q) ==
  IF code = "OK" THEN SavedCursor(d, q) ELSE TrippedCursor(code, writeOnly, q)

\* LMDB ends the transactions above level m: it frees the cursors opened in
\* the read/write ones, those of a read-only one lose their transaction.
HandleAfter(m, rw, q) ==
  IF q.hnd = "live" /\ q.lvl > m
  THEN [q EXCEPT !.hnd = IF rw THEN "ended" ELSE "orphan"] ELSE q

\* The cursors of c once levels above m are gone.
CutCursors(c, code, writeOnly, m) ==
  cur' = [cur EXCEPT ![c] = [s \in Slots |->
            HandleAfter(m, bt[c].svp[1].rw,
              Invalidated(code, writeOnly, Top(c).view.data, cur[c][s]))]]

NoneOpen(c) == \A s \in Slots : ~cur[c][s].open

InGap(c) ==
  \E s \in Slots : LET q == cur[c][s] IN
    /\ Attached(q) /\ q.pos # NoKey
    /\ q.pos \notin KeysIn(Top(c).view.data, q.root)

\* Which cursors the caller leaves open when it ends a transaction, and in
\* which state when it makes a call that saves them.
MayEnd(c) == NoneOpen(c) \/ "endOpen" \in CursorHabits

MaySave(c) ==
  /\ InGap(c) => "gap" \in CursorHabits
  /\ ~CanSave(c, Top(c).view.data) => "rowless" \in CursorHabits

-----------------------------------------------------------------------------
\* The calls of LmdbBtree with what they do to the cursors of c.

\* CommitPhaseOne trips all cursors and leaves their MDB_cursors alone.
CommitTripping(c) ==
  /\ bt[c].inTrans # "NONE" /\ ~Dangling(c) /\ MayEnd(c)
  /\ \/ /\ \/ CommitRead(c) \/ CommitWrite(c)
           \/ CommitFailsInCounter(c) \/ CommitFailsInMdb(c)
        /\ CutCursors(c, "INTERNAL", FALSE, 0)
     \/ CommitFailsInSavepoint(c) /\ CutCursors(c, "INTERNAL", FALSE, 1)

\* Rollback(tripCode, writeOnly): closing the savepoints, if there are any,
\* already invalidates all cursors whatever writeOnly says.
RollbackTripping(c, code, writeOnly) ==
  /\ bt[c].inTrans # "NONE" /\ ~Dangling(c) /\ MayEnd(c)
  /\ Rollback(c)
  /\ CutCursors(c, code, writeOnly /\ Len(bt[c].svp) = 1, 0)

\* The optimistic upgrade saves all cursors, or gives up.
UpgradeSaving(c) ==
  /\ InTxn(c, {"READ"}) /\ MaySave(c)
  /\ IF CanSave(c, Top(c).view.data)
     THEN UpgradeStart(c) /\ CutCursors(c, "OK", FALSE, 0)
     ELSE UpgradeRefused(c) /\ CutCursors(c, "OK", FALSE, Len(bt[c].svp))

\* Savepoint(op, i): cursors are saved only if a level is closed.
SavepointSaving(c, i) ==
  /\ InTxn(c, {"WRITE"}) /\ MaySave(c)
  /\ \E m \in 1..Len(bt[c].svp) :
       /\ IsCut(bt[c].svp, i, m)
       /\ IF m < Len(bt[c].svp) THEN CutCursors(c, "OK", FALSE, m)
                                ELSE UNCHANGED cur
       /\ \/ SavepointRollback(c, i)
          \/ SavepointReleaseFails(c, i)
          \/ IF m < Len(bt[c].svp) /\ ~CanSave(c, Top(c).view.data)
             THEN ReleaseAborts(c, i, FALSE) /\ NoFault
             ELSE SavepointRelease(c, i)

\* Savepoint(ROLLBACK, -1).
SavepointAllSaving(c) ==
  /\ InTxn(c, {"WRITE"}) /\ MaySave(c) /\ MayEnd(c)
  /\ IF Len(bt[c].svp) > 1 /\ ~CanSave(c, Top(c).view.data)
     THEN RollbackAllRefused(c) /\ CutCursors(c, "OK", FALSE, 1)
     ELSE SavepointRollbackAll(c) /\ CutCursors(c, "OK", FALSE, 0)

\* A dropped or cleared table has no cursors on it.
TableStep(c) ==
  /\ \/ CreateTable(c)
     \/ \E r \in Roots : /\ DropTable(c, r) \/ ClearTable(c, r)
                         /\ \A s \in Slots : cur[c][s].open => cur[c][s].root # r
     \/ \E x \in SchemaVals : UpdateMeta(c, x)
  /\ UNCHANGED cur

\* Calls that leave cursors alone.
OtherTxnStep(c) ==
  /\ \/ BtreeOpen(c) \/ Restart(c)
     \/ \E wrFlag \in BOOLEAN : BeginTransAnswered(c, wrFlag)
     \/ \E wrFlag \in BOOLEAN : BeginTransNew(c, wrFlag)
     \/ BeginTransSerialised(c) \/ BeginTransFails(c)
     \/ UpgradeGranted(c) \/ UpgradeFails(c)
     \/ UserSavepoint(c) \/ BeginStmt(c)
     \/ NoneOpen(c) /\ BtreeClose(c)
     \/ NoneOpen(c) /\ Pragma(c)
  /\ UNCHANGED cur

\* The process is gone and its cursors with it.
ProcessEnds(c) ==
  /\ \/ Crash(c)
     \/ UseDangling(c)
     \/ /\ Usable(c)
        /\ \E s \in Slots : cur[c][s].open /\ cur[c][s].hnd \in {"ended", "orphan"}
        /\ Wreck(c)
  /\ cur' = [cur EXCEPT ![c] = [s \in Slots |-> ZeroCursor]]

-----------------------------------------------------------------------------
\* The cursor calls.

Data(c) == Top(c).view.data

CursorUse(c, s) == InTxn(c, {"READ", "WRITE"}) /\ cur[c][s].open

SetCursor(c, s, q) == cur' = [cur EXCEPT ![c][s] = q]

OnlyCursors == UNCHANGED <<db, writer, bt, cl, faults>>

\* restoreCursor: a tripped cursor answers with its tripCode; a saved one is
\* opened again in the innermost transaction and, if the next call is not a
\* seek, put back on the saved key, where MDB_SET may find nothing.
RestoreFails(d, q, reposition) ==
  \/ q.trip # "OK"
  \/ q.saved # NoKey /\ q.root \notin d.tabs
  \/ q.saved # NoKey /\ reposition /\ q.saved \notin KeysIn(d, q.root)

Reopened(c, q) == [q EXCEPT !.hnd = "live", !.lvl = Len(bt[c].svp), !.pos = NoKey]

\* Mutants of Restored: the cursor is put on the first row, or on none.
RestoredFirst(c, q, reposition) ==
  IF q.saved = NoKey THEN q
  ELSE [Reopened(c, q) EXCEPT !.pos = Lowest(KeysIn(Data(c), q.root)),
                              !.saved = NoKey]

RestoredNowhere(c, q, reposition) ==
  IF q.saved = NoKey THEN q ELSE [Reopened(c, q) EXCEPT !.saved = NoKey]

Restored(c, q, reposition) ==
  IF q.saved = NoKey THEN q
  ELSE [Reopened(c, q) EXCEPT !.pos = IF reposition THEN q.saved ELSE NoKey,
                              !.saved = NoKey]

\* What is left of a cursor that could not be restored: MDB_SET leaves the new
\* MDB_cursor where the missing row would be, and savedKey is kept.
NotRestored(c, q) ==
  IF q.trip = "OK" /\ q.root \in Data(c).tabs
  THEN [Reopened(c, q) EXCEPT !.pos = q.saved] ELSE q

\* q works after restoreCursor; it is then r.
Ready(c, s, reposition) ==
  /\ CursorUse(c, s)
  /\ ~RestoreFails(Data(c), cur[c][s], reposition)
  /\ Restored(c, cur[c][s], reposition).hnd = "live"

\* sqlite3BtreeCursor: a write cursor needs a write transaction.
OpenCursor(c, s, root, wrFlag) ==
  LET first == Lowest(KeysIn(Data(c), root))
  IN /\ InTxn(c, {"READ", "WRITE"}) /\ ~cur[c][s].open
     /\ root \in Data(c).tabs
     /\ wrFlag => bt[c].inTrans = "WRITE"
     /\ SetCursor(c, s, [ZeroCursor EXCEPT
                           !.open = TRUE, !.root = root, !.wr = wrFlag,
                           !.hnd = "live", !.lvl = Len(bt[c].svp),
                           !.pos = first, !.mark = first,
                           !.eof = (first = NoKey)])
     /\ OnlyCursors

\* sqlite3BtreeCloseCursor.
CloseCursor(c, s) ==
  /\ Usable(c) /\ cur[c][s].open /\ cur[c][s].hnd # "ended"
  /\ SetCursor(c, s, ZeroCursor)
  /\ OnlyCursors

\* A call that finds the cursor tripped, or its saved row gone.
FailedUse(c, s, reposition) ==
  /\ CursorUse(c, s)
  /\ RestoreFails(Data(c), cur[c][s], reposition)
  /\ SetCursor(c, s, NotRestored(c, cur[c][s]))
  /\ OnlyCursors

\* cursorMove: LMDB stays where it is when there is nowhere to go.
Landed(q, k) ==
  [q EXCEPT !.pos = IF k = NoKey THEN @ ELSE k, !.eof = (k = NoKey),
            !.mark = IF k = NoKey THEN @ ELSE k]

\* sqlite3BtreeFirst and sqlite3BtreeLast.
First(c, s) ==
  /\ Ready(c, s, FALSE)
  /\ LET q == Restored(c, cur[c][s], FALSE)
     IN SetCursor(c, s, Landed(q, Lowest(KeysIn(Data(c), q.root))))
  /\ OnlyCursors

Last(c, s) ==
  /\ Ready(c, s, FALSE)
  /\ LET q == Restored(c, cur[c][s], FALSE)
     IN SetCursor(c, s, Landed(q, Highest(KeysIn(Data(c), q.root))))
  /\ OnlyCursors

\* sqlite3BtreeNext and sqlite3BtreePrevious: the caller expects the neighbour
\* of the row it was on, whether or not that row is still there.
Next1(c, s) ==
  /\ Ready(c, s, TRUE) /\ ~cur[c][s].eof
  /\ LET q == Restored(c, cur[c][s], TRUE)
         k == After(Data(c), q.root, q.pos)
     IN SetCursor(c, s, [Landed(q, k) EXCEPT
          !.nextOk = @ /\ k = After(Data(c), q.root, q.mark)])
  /\ OnlyCursors

Previous1(c, s) ==
  /\ Ready(c, s, TRUE) /\ ~cur[c][s].eof
  /\ LET q == Restored(c, cur[c][s], TRUE)
         k == Before(Data(c), q.root, q.pos)
     IN SetCursor(c, s, [Landed(q, k) EXCEPT
          !.nextOk = @ /\ k = Before(Data(c), q.root, q.mark)])
  /\ OnlyCursors

\* sqlite3BtreeTableMoveto: the first row that is not smaller, and if there is
\* none (*pRes = -1) the first row of the table.
TableMoveto(c, s, intKey) ==
  /\ Ready(c, s, FALSE)
  /\ LET q    == Restored(c, cur[c][s], FALSE)
         all  == KeysIn(Data(c), q.root)
         up   == Lowest({k \in all : k >= intKey})
         land == IF up # NoKey THEN up ELSE Lowest(all)
     IN /\ up = NoKey /\ Cardinality(all) > 1 => "seekPast" \in CursorHabits
        /\ SetCursor(c, s, [q EXCEPT
             !.eof = FALSE, !.pos = land, !.mark = land,
             !.seekOk = @ /\ (up = NoKey => land = Highest(all))])
  /\ OnlyCursors

\* What LMDB does to a cursor in a gap when a row is put into that gap is left
\* out: k does not fall into the gap of another cursor.
FillsNoGap(c, s, k) ==
  \A t \in Slots \ {s} : LET q == cur[c][t]
                             all == KeysIn(Data(c), q.root)
    IN Attached(q) /\ q.root = cur[c][s].root /\ q.pos \notin all \cup {NoKey}
         => k < q.pos \/ \E j \in all : q.pos < j /\ j <= k

\* sqlite3BtreeInsert of a row, then the same of a row that TransferRow took
\* from cursor t (BTREE_PREFORMAT): the source is restored first.
Insert(c, s, k, x) ==
  /\ Ready(c, s, FALSE) /\ cur[c][s].wr /\ FillsNoGap(c, s, k)
  /\ WriteRow(c, cur[c][s].root, k, x)
  /\ SetCursor(c, s, [Restored(c, cur[c][s], FALSE) EXCEPT !.pos = k, !.mark = k])

TransferRow(c, s, t, k) ==
  /\ s # t
  /\ Ready(c, s, FALSE) /\ cur[c][s].wr /\ FillsNoGap(c, s, k)
  /\ Ready(c, t, TRUE)
  /\ LET q == Restored(c, cur[c][t], TRUE)
         j == Current(Data(c), q)
     IN /\ j # NoKey
        /\ WriteRow(c, cur[c][s].root, k, Data(c).rows[q.root][j])
        /\ cur' = [cur EXCEPT ![c][t] = q,
                     ![c][s] = [Restored(c, cur[c][s], FALSE) EXCEPT
                                  !.pos = k, !.mark = k]]

\* sqlite3BtreeDelete: the cursor stays in the gap.
Delete(c, s) ==
  /\ Ready(c, s, TRUE) /\ cur[c][s].wr
  /\ LET q == Restored(c, cur[c][s], TRUE)
         k == Current(Data(c), q)
     IN /\ k # NoKey
        /\ k # q.mark => "gap" \in CursorHabits
        /\ WriteRow(c, q.root, k, NoVal)
        /\ SetCursor(c, s, [q EXCEPT !.pos = k])

\* sqlite3BtreePayloadFetch and PayloadSize only restore the cursor.
PayloadFetch(c, s) ==
  /\ Ready(c, s, TRUE)
  /\ SetCursor(c, s, Restored(c, cur[c][s], TRUE))
  /\ OnlyCursors

\* sqlite3BtreeIntegerKey reads the saved key without restoring the cursor.
IntegerKey(d, q) == IF q.saved # NoKey THEN q.saved ELSE Current(d, q)

-----------------------------------------------------------------------------
TxnStep(c) ==
  \/ CommitTripping(c)
  \/ \E code \in {"OK", "ABORT"}, writeOnly \in BOOLEAN :
       RollbackTripping(c, code, writeOnly)
  \/ UpgradeSaving(c)
  \/ \E i \in 0..(MaxDepth - 1) : SavepointSaving(c, i)
  \/ SavepointAllSaving(c)
  \/ TableStep(c) \/ OtherTxnStep(c) \/ ProcessEnds(c)

CursorStep(c, s) ==
  \/ \E root \in Roots, wrFlag \in BOOLEAN : OpenCursor(c, s, root, wrFlag)
  \/ CloseCursor(c, s)
  \/ \E reposition \in BOOLEAN : FailedUse(c, s, reposition)
  \/ First(c, s) \/ Last(c, s) \/ Next1(c, s) \/ Previous1(c, s)
  \/ \E k \in Keys : TableMoveto(c, s, k)
  \/ \E k \in Keys, x \in Vals : Insert(c, s, k, x)
  \/ \E t \in Slots, k \in Keys : TransferRow(c, s, t, k)
  \/ Delete(c, s) \/ PayloadFetch(c, s)

CursorNext ==
  \E c \in Conns : TxnStep(c) \/ \E s \in Slots : CursorStep(c, s)

CursorSpec == CursorInit /\ [][CursorNext]_cvars

-----------------------------------------------------------------------------
\* Saving and restoring a cursor across transactions and savepoints does not
\* move it: every Next and Previous goes to the neighbour of the row the
\* caller was on, so a scan neither skips a row nor sees one twice.
NextIsNeighbour == \A c \in Conns, s \in Slots : cur[c][s].nextOk

\* A seek without an exact match leaves the cursor beside the place the key
\* would have, where a caller that wants the nearest smaller row reads on.
SeekLandsBeside == \A c \in Conns, s \in Slots : cur[c][s].seekOk

\* The rowid a cursor reports is that of the row the caller put it on, as
\* long as the row exists, whether the cursor is live or saved.
OnItsRow ==
  \A c \in Conns, s \in Slots : LET q == cur[c][s] IN
    CursorUse(c, s) /\ q.trip = "OK" /\ q.mark # NoKey /\ ~q.eof =>
      (q.mark \in KeysIn(Data(c), q.root) => IntegerKey(Data(c), q) = q.mark)

\* No call hands LMDB a cursor whose transaction is over.
NoDeadCursor ==
  \A c \in Conns : /\ bt[c].status # "wrecked"
                   /\ \A s \in Slots : cur[c][s].open /\ Usable(c)
                        => cur[c][s].hnd \in {"null", "live"}

=============================================================================
