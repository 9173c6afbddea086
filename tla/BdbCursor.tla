------------------------------ MODULE BdbCursor -----------------------------
(***************************************************************************)
(* The cursors of not-fork.d/bdb/files/btree.c (struct BtCursor) on one    *)
(* rowid table, within one transaction of one connection: the locks of     *)
(* BdbTxn keep other connections away from a table a transaction uses.     *)
(*                                                                         *)
(* A cursor keeps copies of what it has read: the row it is on, the        *)
(* largest row of the table (lastKey), and a buffer of rows fetched at     *)
(* once (multiData).  When another cursor of the connection writes,        *)
(* btreeTripWatchers closes the cursors whose copies may be out of date;   *)
(* they are opened again by their next use (btreeRestoreCursorPosition).   *)
(*                                                                         *)
(* Berkeley DB is external: a DBC is on a key, whether or not its row is   *)
(* still there, or on none.                                                *)
(***************************************************************************)
EXTENDS Integers, Sequences, FiniteSets

CONSTANTS
  Slots,      \* cursors the connection may have
  Keys,       \* rowids
  Vals,       \* contents of a row
  NoVal,      \* no such row
  Oversize,   \* contents too large for the buffer
  BufRows,    \* rows the buffer holds
  Habits      \* calls the code does not handle and the caller makes anyway

\*  "growUnderSeeker"   inserts beyond the last row another cursor remembers
\*  "changeAfterScan"   writes after another cursor scanned the whole table
\*  "seekAfterInsert"   seeks, inserts another row, seeks the first one again
\*  "seekAfterRestore"  rewinds or seeks right after a row vanished
\*  "insertTripped"     inserts with a cursor that was tripped and not sought
\*  "deleteUnderBlob"   deletes a row two blob handles are on
\*  "descendingDelete"  deletes while it scans from the end
\*  "tripRestored"      writes to the row a restored cursor is next to
AllBdbHabits == {"growUnderSeeker", "changeAfterScan", "seekAfterInsert",
                 "seekAfterRestore", "insertTripped", "deleteUnderBlob",
                 "descendingDelete", "tripRestored"}

ASSUME BdbCursorAssumption ==
  /\ Keys \subseteq Nat \ {0} /\ IsFiniteSet(Keys)
  /\ NoVal \notin Vals /\ Oversize \subseteq Vals
  /\ BufRows \in Nat \ {0}
  /\ Habits \subseteq AllBdbHabits

VARIABLES
  rows,  \* the table
  cur    \* the cursors

bcvars == <<rows, cur>>

Tables == [Keys -> Vals \cup {NoVal}]

NoKey == 0
NoDbc == -1
EmptyTable == -1

\* state: eState, and CLOSED, and WRECKED once a null DBC was used.  dbc: NoDbc,
\* NoKey for an unpositioned one, or the key it is on.  key, val: savedIntKey
\* and data.  buf: the rows in multiData, of which at is the one read last, 0
\* if multiGetPtr is null.  mark, know: the
\* row the caller was put on last, and whether it may read it, or only step from
\* its place, or from between it and the row before or after it, or neither.
\* once: the caller makes one scan that deletes as it goes.
BtCursors ==
  [state : {"CLOSED", "INVALID", "VALID", "REQUIRESEEK", "SKIPNEXT", "FAULT", "WRECKED"},
   blob : BOOLEAN, once : BOOLEAN,
   dbc : Keys \cup {NoKey, NoDbc}, key : Keys \cup {NoKey}, val : Vals \cup {NoVal},
   lastRes : -1..1, lastKey : Keys \cup {NoKey, EmptyTable}, skip : BOOLEAN,
   buf : Seq(Keys \X Vals), at : 0..BufRows, isFirst : BOOLEAN,
   mark : Keys \cup {NoKey}, know : {"row", "place", "before", "after", "none"}]

\* sqlite3BtreeCursorZero.
ZeroCursor ==
  [state |-> "CLOSED", blob |-> FALSE, once |-> FALSE,
   dbc |-> NoDbc, key |-> NoKey, val |-> NoVal, lastRes |-> 0, lastKey |-> NoKey,
   skip |-> TRUE, buf |-> <<>>, at |-> 0, isFirst |-> FALSE,
   mark |-> NoKey, know |-> "none"]

BdbCursorTypeOK ==
  /\ rows \in Tables
  /\ cur \in [Slots -> BtCursors]

BdbCursorInit ==
  /\ rows \in Tables
  /\ cur = [s \in Slots |-> ZeroCursor]

-----------------------------------------------------------------------------
\* Moves in the table.
Present == {k \in Keys : rows[k] # NoVal}

Lowest(S) == CHOOSE k \in S \cup {NoKey} :
               IF S = {} THEN k = NoKey ELSE k # NoKey /\ \A j \in S : k <= j

Highest(S) == CHOOSE k \in S \cup {NoKey} : \A j \in S : j <= k

\* DB_FIRST, DB_LAST, DB_NEXT and DB_PREV of a DBC; one that is on no row goes
\* to the first or the last one.
Target(d, op) ==
  CASE op = "FIRST" -> Lowest(Present)
    [] op = "LAST"  -> Highest(Present)
    [] op = "NEXT"  -> Lowest({k \in Present : k > d})
    [] op = "PREV"  -> Highest({k \in Present : d = NoKey \/ k < d})

\* Mutant of Bulk: one row more than fits.
BulkOver(k) ==
  LET UpTo(j) == {i \in Present : k <= i /\ i <= j}
      fit == {j \in Present : j >= k /\ Cardinality(UpTo(j)) <= BufRows + 1}
      Nth(n) == CHOOSE j \in fit : Cardinality(UpTo(j)) = n
  IN [n \in 1..Cardinality(fit) |-> <<Nth(n), rows[Nth(n)]>>]

\* The rows a bulk get returns that begins with row k.
Bulk(k) ==
  LET UpTo(j) == {i \in Present : k <= i /\ i <= j}
      fit == {j \in Present : /\ j >= k /\ Cardinality(UpTo(j)) <= BufRows
                              /\ \A i \in UpTo(j) : rows[i] \notin Oversize}
      Nth(n) == CHOOSE j \in fit : Cardinality(UpTo(j)) = n
  IN [n \in 1..Cardinality(fit) |-> <<Nth(n), rows[Nth(n)]>>]

OnRow(c, k) == [c EXCEPT !.state = "VALID", !.key = k, !.val = rows[k]]

\* What is not looked at again: a buffer that is neither read nor the whole
\* table, where an INVALID cursor was, what a lost caller was on.
Tidy(c) ==
  LET b == IF c.at = 0 /\ ~c.isFirst THEN [c EXCEPT !.buf = <<>>] ELSE c
      i == IF c.state = "INVALID"
           THEN [b EXCEPT !.key = NoKey, !.val = NoVal,
                          !.dbc = IF @ = NoDbc \/ c.isFirst THEN @ ELSE NoKey] ELSE b
  IN IF c.know = "none" THEN [i EXCEPT !.mark = NoKey] ELSE i

\* cursorGet: from the buffer, with a bulk get, or with one that reads a row.
GetBuffered(c) ==
  LET row == c.buf[c.at + 1]
  IN [c EXCEPT !.at = @ + 1, !.key = row[1], !.val = row[2]]

GetSingle(c, op) ==
  LET k == Target(c.dbc, op)
      d == [c EXCEPT !.lastRes = 0, !.isFirst = FALSE]
  IN IF k = NoKey THEN [d EXCEPT !.state = "INVALID"]
                  ELSE [OnRow(d, k) EXCEPT !.dbc = k]

GetBulk(c, op) ==
  LET k == Target(c.dbc, op)
      b == Bulk(k)
  IN IF k = NoKey THEN [c EXCEPT !.state = "INVALID"]
     ELSE IF b = <<>> THEN GetSingle(c, op)
     ELSE [OnRow(c, k) EXCEPT !.dbc = b[Len(b)][1], !.buf = b, !.at = 1,
                              !.isFirst = (op = "FIRST")]

CursorGet(c, op) ==
  IF op = "NEXT" /\ c.at # 0 /\ c.at < Len(c.buf) THEN GetBuffered(c)
  ELSE LET d == IF op = "NEXT" THEN [c EXCEPT !.at = 0] ELSE c
       IN IF op = "FIRST" \/ (op = "NEXT" /\ ~d.skip) THEN GetBulk(d, op)
          ELSE GetSingle(IF op = "NEXT" THEN [d EXCEPT !.skip = FALSE] ELSE d, op)

\* sqlite3BtreeMovetoUnpacked of a rowid: the first row that is not smaller,
\* or the last one, which lastKey remembers.
MovetoLand(c, k) ==
  LET up == Lowest({j \in Present : j >= k})
      k1 == IF up # NoKey THEN up ELSE Highest(Present)
  IN IF k1 = NoKey THEN [c EXCEPT !.state = "INVALID", !.lastKey = EmptyTable]
     ELSE [OnRow(c, k1) EXCEPT !.dbc = k1, !.lastKey = IF up = NoKey THEN k1 ELSE @]

Moveto(c, k) ==
  LET d == [c EXCEPT !.at = 0, !.isFirst = FALSE, !.skip = TRUE]
  IN CASE c.state = "VALID" /\ c.key = k -> c
       [] ~(c.state = "VALID" /\ c.key = k) /\ c.lastKey # NoKey /\ k > c.lastKey ->
            [d EXCEPT !.state = "INVALID"]
       [] OTHER -> MovetoLand(d, k)

\* *pRes of that.
MovetoRes(c, k) ==
  IF c.state = "INVALID" \/ c.key < k THEN -1 ELSE IF c.key = k THEN 0 ELSE 1

\* btreeRestoreCursorPosition: with skipMoveto the cursor is only opened.
Reopened(c) ==
  IF c.dbc = NoDbc THEN [c EXCEPT !.dbc = NoKey, !.state = "INVALID"] ELSE c

\* Mutant of Restored: lastRes is not kept.
RestoredExact(c) ==
  IF c.state = "REQUIRESEEK" THEN Moveto([c EXCEPT !.dbc = NoKey], c.key) ELSE c

Restored(c) ==
  LET m == Moveto([c EXCEPT !.dbc = NoKey], c.key)
  IN IF c.state = "REQUIRESEEK" THEN [m EXCEPT !.lastRes = MovetoRes(m, c.key)] ELSE c

\* Mutant of Trip: eState stays.
TripKept(c, incrBlobUpdate) == Tidy([c EXCEPT !.dbc = NoDbc, !.at = 0, !.isFirst = FALSE])

\* btreeTripCursor.
Trip(c, incrBlobUpdate) ==
  LET d == [c EXCEPT !.dbc = NoDbc, !.at = 0, !.isFirst = FALSE]
  IN Tidy(IF c.state # "VALID" THEN d
          ELSE [d EXCEPT !.state = IF c.blob /\ ~incrBlobUpdate THEN "INVALID"
                                                               ELSE "REQUIRESEEK"])

\* Mutant of Watches: buffers are not looked at.
WatchesRow(c, d) == c.state = "VALID" /\ c.dbc = d

\* btreeTripWatchers: cursors on the row d, and all that have a buffer.
Watches(c, d) == c.state = "VALID" /\ (c.at # 0 \/ c.dbc = d)

WithTripped(s, c, d, incrBlobUpdate) ==
  cur' = [t \in Slots |-> IF t = s THEN Tidy(c)
                          ELSE IF Watches(cur[t], d) THEN Trip(cur[t], incrBlobUpdate)
                          ELSE cur[t]]

SetCursor(s, c) == cur' = [cur EXCEPT ![s] = Tidy(c)]

OnlyCursor == UNCHANGED rows

-----------------------------------------------------------------------------
\* A caller that deletes with BTREE_SAVEPOSITION steps before it does anything
\* else.
Free == \A s \in Slots : cur[s].state \notin {"SKIPNEXT", "WRECKED"}

Live(s) == cur[s].state \notin {"CLOSED", "FAULT", "WRECKED"} /\ ~cur[s].blob

\* What the caller knows after a step: where it is, or that there is no row.
Told(c) ==
  IF c.state = "VALID" THEN [c EXCEPT !.mark = c.key, !.know = "row"]
                       ELSE [c EXCEPT !.know = "none"]

\* sqlite3BtreeCursor and sqlite3BtreeCloseCursor.  The cursor may write: one
\* that may not does less.
OpenCursor(s) ==
  /\ Free /\ cur[s].state = "CLOSED"
  /\ SetCursor(s, [ZeroCursor EXCEPT !.state = "INVALID", !.dbc = NoKey])
  /\ OnlyCursor

CloseCursor(s) ==
  /\ Free /\ cur[s].state # "CLOSED"
  /\ SetCursor(s, ZeroCursor) /\ OnlyCursor

\* lastRes of a restored cursor survives a seek, and a bulk get.
MayRewind(s) ==
  /\ Free /\ Live(s) /\ ~cur[s].once
  /\ cur[s].lastRes # 0 => "seekAfterRestore" \in Habits

\* sqlite3BtreeFirst: a buffer that holds the table from its start is read
\* again.
Rewound(c) ==
  IF c.isFirst THEN [GetBuffered([c EXCEPT !.at = 0]) EXCEPT !.state = "VALID"]
  ELSE CursorGet(Reopened([c EXCEPT !.at = 0]), "FIRST")

BtreeFirst(s) ==
  /\ MayRewind(s)
  /\ SetCursor(s, Told(Rewound(cur[s]))) /\ OnlyCursor

\* sqlite3BtreeLast.
BtreeLast(s) ==
  /\ Free /\ Live(s) /\ ~cur[s].once
  /\ SetCursor(s, Told(CursorGet([Reopened(cur[s]) EXCEPT !.at = 0], "LAST")))
  /\ OnlyCursor

\* sqlite3BtreeMovetoUnpacked by the caller.  After an insert savedIntKey need
\* not be where the cursor is, and data is the caller's.
Seek(s, k) ==
  LET c == cur[s]
  IN /\ MayRewind(s)
     /\ (c.state = "VALID" /\ c.key = k /\ c.at = 0 /\ (c.dbc # k \/ c.know # "row"))
          => "seekAfterInsert" \in Habits
     /\ SetCursor(s, Told(Moveto(Reopened(c), k))) /\ OnlyCursor

MayStep(s) == Live(s) /\ cur[s].know # "none"

\* sqlite3BtreeNext: the cursor may be on the next row already, because it
\* deleted the one it was on, or because that had vanished when the cursor was
\* restored.
NextAfterDelete(s) ==
  LET c == cur[s]
      v == [c EXCEPT !.state = "VALID"]
  IN /\ MayStep(s) /\ c.state = "SKIPNEXT"
     /\ SetCursor(s, IF c.lastRes = 0 THEN Told(v) ELSE [v EXCEPT !.know = "none"])
     /\ OnlyCursor

BtreeNext(s) ==
  LET r == Restored(cur[s])
  IN /\ Free /\ MayStep(s)
     /\ SetCursor(s, Told(IF cur[s].state = "INVALID" THEN r
                          ELSE IF r.lastRes > 0 THEN [r EXCEPT !.lastRes = 0]
                          ELSE CursorGet(r, "NEXT")))
     /\ OnlyCursor

\* sqlite3BtreePrevious; a caller that reads ahead does not turn around.
BtreePrevious(s) ==
  LET c == cur[s]
      r == IF c.state = "SKIPNEXT" THEN [c EXCEPT !.state = "VALID", !.lastRes = 0]
           ELSE Restored(c)
  IN /\ Free \/ c.state = "SKIPNEXT"
     /\ MayStep(s)
     /\ c.at # 0 => c.state = "SKIPNEXT" /\ "descendingDelete" \in Habits
     /\ SetCursor(s, Told(IF r.state = "INVALID" THEN r
                          ELSE IF r.lastRes < 0 THEN [r EXCEPT !.lastRes = 0]
                          ELSE CursorGet(r, "PREV")))
     /\ OnlyCursor

\* sqlite3BtreeCursorRestore, before a column is read: the caller sees whether
\* it is on the same row.
CursorRestore(s) ==
  LET r == Restored(cur[s])
  IN /\ Free /\ MayStep(s) /\ cur[s].state = "REQUIRESEEK"
     /\ SetCursor(s, IF r.state = "VALID" /\ r.lastRes = 0 THEN Told(r)
                     ELSE [r EXCEPT !.mark = r.key,
                             !.know = IF r.state = "INVALID" THEN "none"
                                      ELSE IF r.lastRes > 0 THEN "before" ELSE "after"])
     /\ OnlyCursor

-----------------------------------------------------------------------------
\* What a write may do to cursors that btreeTripWatchers does not close.
GrowsUnder(s, k) ==
  \E t \in Slots \ {s} : cur[t].lastKey # NoKey /\ k > cur[t].lastKey

MissesScan(s) ==
  \E t \in Slots \ {s} : cur[t].isFirst /\ cur[t].state # "VALID"

MissesBlob(S) ==
  \E t \in Slots : cur[t].blob /\ cur[t].state = "REQUIRESEEK" /\ cur[t].key \in S

TripsRestored(s, k) ==
  \E t \in Slots \ {s} : cur[t].know \in {"before", "after"} /\ Watches(cur[t], k)

MayWrite(s, k) ==
  /\ MissesScan(s) => "changeAfterScan" \in Habits
  /\ TripsRestored(s, k) => "tripRestored" \in Habits

\* Mutant of Inserted: lastKey is not reset.
InsertedKeeps(c, k) ==
  [c EXCEPT !.at = 0, !.isFirst = FALSE, !.dbc = k, !.skip = FALSE, !.know = "none"]

\* sqlite3BtreeInsert: the state of the cursor is not changed, its position is.
Inserted(c, k) ==
  [c EXCEPT !.at = 0, !.isFirst = FALSE, !.lastKey = NoKey, !.dbc = k, !.skip = FALSE,
            !.know = IF c.state = "VALID" /\ c.key = k /\ @ \in {"row", "place"}
                     THEN "place" ELSE "none"]

Insert(s, k, v) ==
  LET c == cur[s]
  IN /\ Free /\ Live(s) /\ ~c.once /\ rows[k] # v
     /\ GrowsUnder(s, k) => "growUnderSeeker" \in Habits
     /\ MayWrite(s, k)
     /\ c.dbc = NoDbc => "insertTripped" \in Habits
     /\ IF c.dbc = NoDbc
        THEN SetCursor(s, [ZeroCursor EXCEPT !.state = "WRECKED"]) /\ UNCHANGED rows
        ELSE /\ rows' = [rows EXCEPT ![k] = v]
             /\ WithTripped(s, Inserted(c, k), k, FALSE)

\* Mutant of Unbuffered: the DBC stays at the end of the buffer.
UnbufferedStays(c) == [c EXCEPT !.at = 0, !.isFirst = FALSE]

\* A cursor that reads a buffer is put on its row before it deletes.
Unbuffered(c) ==
  IF c.at = 0 THEN c ELSE [c EXCEPT !.at = 0, !.isFirst = FALSE, !.dbc = c.key]

\* sqlite3BtreeDelete: the cursor is left on no row, or with BTREE_SAVEPOSITION
\* on the next one.
Delete(s, savePosition) ==
  LET c == cur[s]
      d == Unbuffered(c)
      g == CursorGet(d, "NEXT")
      e == IF savePosition
           THEN [g EXCEPT !.state = "SKIPNEXT", !.once = TRUE, !.know = "place",
                          !.lastRes = IF g.state = "INVALID" THEN 1 ELSE 0]
           ELSE [d EXCEPT !.state = "INVALID", !.dbc = NoKey, !.know = "none"]
  IN /\ Free /\ Live(s) /\ c.state = "VALID" /\ c.know = "row"
     /\ rows[d.dbc] # NoVal
     /\ MayWrite(s, d.dbc)
     /\ MissesBlob({d.dbc}) => "deleteUnderBlob" \in Habits
     /\ rows' = [rows EXCEPT ![d.dbc] = NoVal]
     /\ WithTripped(s, e, d.dbc, FALSE)

\* sqlite3BtreeClearTable of a table that has cursors: btreeTripAll closes
\* those that are open in Berkeley DB, whatever their state.
ClearTable ==
  /\ Free /\ Present # {}
  /\ MissesBlob(Keys) => "deleteUnderBlob" \in Habits
  /\ (\E s \in Slots : cur[s].know \in {"before", "after"}) => "tripRestored" \in Habits
  /\ rows' = [k \in Keys |-> NoVal]
  /\ cur' = [t \in Slots |-> IF cur[t].dbc = NoDbc THEN cur[t] ELSE Trip(cur[t], FALSE)]

\* sqlite3_blob_open: the cursor that was put on a row becomes a blob handle.
IncrblobCursor(s) ==
  /\ Free /\ Live(s) /\ ~cur[s].once
  /\ cur[s].state = "VALID" /\ cur[s].know = "row" /\ cur[s].at = 0
  /\ cur[s].dbc = cur[s].key
  /\ SetCursor(s, [cur[s] EXCEPT !.blob = TRUE]) /\ OnlyCursor

\* sqlite3BtreePayloadChecked: a handle whose row was changed has expired.
PayloadChecked(s) ==
  /\ Free /\ cur[s].blob /\ cur[s].state = "REQUIRESEEK"
  /\ SetCursor(s, Restored(cur[s])) /\ OnlyCursor

\* sqlite3BtreePutData: other handles on the row stay usable.
PutData(s, v) ==
  LET r == Restored(cur[s])
  IN /\ Free /\ cur[s].blob /\ r.state = "VALID"
     /\ rows[r.dbc] \notin {NoVal, v}
     /\ MayWrite(s, r.dbc)
     /\ rows' = [rows EXCEPT ![r.dbc] = v]
     /\ WithTripped(s, [r EXCEPT !.val = v], r.dbc, TRUE)

\* ROLLBACK TO with sqlite3BtreeTripAllCursors undoes writes, here to one row:
\* repeated, to any.
RollbackTo ==
  /\ Free
  /\ \E k \in Keys, v \in Vals \cup {NoVal} : rows' = [rows EXCEPT ![k] = v]
  /\ cur' = [t \in Slots |-> IF cur[t].state = "CLOSED" THEN cur[t]
                             ELSE [ZeroCursor EXCEPT !.state = "FAULT"]]

-----------------------------------------------------------------------------
ReadStep(s) ==
  \/ OpenCursor(s) \/ CloseCursor(s)
  \/ BtreeFirst(s) \/ BtreeLast(s) \/ BtreeNext(s) \/ NextAfterDelete(s)
  \/ BtreePrevious(s) \/ CursorRestore(s) \/ IncrblobCursor(s) \/ PayloadChecked(s)
  \/ \E k \in Keys : Seek(s, k)

WriteStep(s) ==
  \/ \E k \in Keys, v \in Vals : Insert(s, k, v)
  \/ \E f \in BOOLEAN : Delete(s, f)
  \/ \E v \in Vals : PutData(s, v)

BdbCursorNext ==
  \/ \E s \in Slots : ReadStep(s) \/ WriteStep(s)
  \/ ClearTable \/ RollbackTo

BdbCursorSpec == BdbCursorInit /\ [][BdbCursorNext]_bcvars

-----------------------------------------------------------------------------
\* A row that is read is the row of the table the caller was put on, with its
\* present contents: no copy a cursor keeps is out of date when it is used, and
\* a blob handle never slips to another row.
ReadsItsRow ==
  \A s \in Slots : LET c == cur[s] IN
    c.state = "VALID" /\ c.know = "row" => c.key = c.mark /\ rows[c.key] = c.val

\* Only steps that move s alone need be looked at below.
Moves(s) == cur'[s] # cur[s] /\ rows' = rows

\* A seek finds the row if it is there; if it is not, the cursor ends on the
\* next one, and beyond the last row on that one or on none.
SeekFinds ==
  [][\A s \in Slots, k \in Keys : Moves(s) /\ Seek(s, k) =>
       LET c == cur'[s]
           up == Lowest({j \in Present : j >= k})
       IN \/ /\ c.know = "row"
             /\ c.at = 0 => c.dbc = c.key
             /\ c.mark = IF up # NoKey THEN up ELSE Highest(Present)
          \/ c.know = "none" /\ up = NoKey]_bcvars

\* "*pRes<0: the cursor is left pointing at an entry that is smaller than
\* pUnKey or if the table is empty and the cursor is therefore left point to
\* nothing": with rows in the table, a seek never ends nowhere.
SeekEndsBeside ==
  [][\A s \in Slots, k \in Keys : Seek(s, k) /\ Present # {} =>
       cur'[s].know = "row"]_bcvars

\* A scan goes to the neighbour of the row it was on, in the table as it is
\* now: none is skipped and none is seen twice, whatever was written meanwhile.
After(c) == {j \in Present : j > c.mark} \cup
            (IF c.know = "before" THEN Present \cap {c.mark} ELSE {})

Before(c) == {j \in Present : j < c.mark} \cup
             (IF c.know = "after" THEN Present \cap {c.mark} ELSE {})

Reaches(c, k) == /\ c.know = (IF k = NoKey THEN "none" ELSE "row")
                 /\ k # NoKey => c.mark = k

StepIsNeighbour ==
  [][\A s \in Slots : Moves(s) =>
       /\ BtreeNext(s) \/ NextAfterDelete(s) => Reaches(cur'[s], Lowest(After(cur[s])))
       /\ BtreePrevious(s) => Reaches(cur'[s], Highest(Before(cur[s])))]_bcvars

\* A delete removes the row the caller is on, and no other.
DeletesItsRow ==
  [][\A s \in Slots, f \in BOOLEAN : rows' # rows /\ Delete(s, f) =>
       rows' = [rows EXCEPT ![cur[s].mark] = NoVal]]_bcvars

\* No call goes to Berkeley DB with a cursor that was closed behind its owner's
\* back: one that counts as positioned is open there.
NoNullDbc ==
  \A s \in Slots : /\ cur[s].state # "WRECKED"
                   /\ cur[s].state \in {"VALID", "SKIPNEXT"} => cur[s].dbc # NoDbc

=============================================================================
