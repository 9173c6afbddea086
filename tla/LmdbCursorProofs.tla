-------------------------- MODULE LmdbCursorProofs --------------------------
(***************************************************************************)
(* The cursors of LmdbCursor, for any number of connections and cursors    *)
(* and any finite set of rowids.                                           *)
(*                                                                         *)
(* LmdbCursor composes the steps of LmdbBtree with their effect on the     *)
(* cursors; only a cursor that cannot be saved, or one whose transaction   *)
(* is gone, leads to a step LmdbBtree does not take (Diverted).  LockInv   *)
(* is kept by those as well.                                               *)
(*                                                                         *)
(* Placed is about the position of a cursor: live, saved and restored it   *)
(* is the caller's.  Working says which cursors lead to no diverted step,  *)
(* and if all of them are, every behaviour of LmdbCursor is one of         *)
(* LmdbBtree.  Every step makes a Move of every cursor, which keeps both.  *)
(***************************************************************************)
EXTENDS LmdbCursor, LmdbTxnProofs, FiniteSetTheorems, WellFoundedInduction

Handles == {"null", "live", "ended", "orphan"}
Trips   == {"OK", "INTERNAL", "ABORT"}
Spots   == Keys \cup {NoKey}

\* CursorRec, whatever the depth of the stack a cursor was opened at.
CursorRecs == [open : BOOLEAN, root : Roots, wr : BOOLEAN, hnd : Handles,
               lvl : Nat, pos : Spots, saved : Spots, trip : Trips,
               eof : BOOLEAN, mark : Spots, nextOk : BOOLEAN, seekOk : BOOLEAN]

CursorsTyped == cur \in [Conns -> [Slots -> CursorRecs]]

-----------------------------------------------------------------------------
\* The lowest and the highest row.
LEMMA LeastNat ==
  ASSUME NEW T \in SUBSET Nat, T # {}
  PROVE  \E x \in T : \A y \in T : x <= y
<1> DEFINE F == {0..n : n \in T}
<1>1. F \subseteq FiniteSubsetsOf(Nat) /\ F # {}
  <2>1. ASSUME NEW n \in T PROVE 0..n \in FiniteSubsetsOf(Nat)
    <3>1. IsFiniteSet(0..n)
      BY FS_Interval
    <3> QED BY <3>1 DEF FiniteSubsetsOf
  <2> QED BY <2>1
<1>2. PICK I \in F : \A J \in F : ~(<<J, I>> \in StrictSubsetOrdering(Nat))
  <2>1. IsWellFoundedOn(StrictSubsetOrdering(Nat), FiniteSubsetsOf(Nat))
    BY FS_StrictSubsetOrderingWellFounded
  <2> HIDE DEF F
  <2> QED BY <1>1, <2>1, WFMin, Zenon
<1>3. PICK x \in T : I = 0..x
  OBVIOUS
<1>4. ASSUME NEW y \in T, y < x PROVE FALSE
  <2>1. x \in 0..x /\ x \notin 0..y
    BY <1>4
  <2>2. <<0..y, I>> \in StrictSubsetOrdering(Nat)
    BY <1>3, <1>4, <2>1 DEF StrictSubsetOrdering
  <2> QED BY <1>2, <2>2
<1> QED BY <1>4

LEMMA GreatestKey ==
  ASSUME NEW S \in SUBSET Keys, S # {}
  PROVE  \E k \in S : \A j \in S : k >= j
<1> DEFINE Up(k) == {j \in S : j > k}
           T == {Cardinality(Up(k)) : k \in S}
<1>1. IsFiniteSet(S) /\ S \subseteq Nat
  BY CursorAssumption, FS_Subset
<1>2. ASSUME NEW k \in S PROVE IsFiniteSet(Up(k)) /\ Cardinality(Up(k)) \in Nat
  <2>1. IsFiniteSet(Up(k))
    BY <1>1, FS_Subset
  <2> QED BY <2>1, FS_CardinalityType
<1>3. PICK n \in T : \A m \in T : n <= m
  <2>1. T \in SUBSET Nat /\ T # {}
    BY <1>2
  <2> HIDE DEF T
  <2> QED BY <2>1, LeastNat
<1>4. PICK k \in S : n = Cardinality(Up(k))
  OBVIOUS
<1>5. ASSUME NEW j \in S, j > k PROVE FALSE
  <2>0. j \in Nat /\ k \in Nat /\ \A i \in S : i \in Nat
    BY <1>1
  <2>1. Up(j) \in SUBSET Up(k) /\ j \in Up(k) /\ j \notin Up(j)
    <3>1. ASSUME NEW i \in Up(j) PROVE i \in Up(k)
      <4>1. i \in S /\ i \in Nat /\ i > j
        BY <2>0
      <4> QED BY <1>5, <2>0, <4>1
    <3>2. j \in Up(k) /\ j \notin Up(j)
      BY <1>5, <2>0
    <3>3. Up(j) \subseteq Up(k)
      <4> HIDE DEF Up
      <4> QED BY <3>1
    <3> QED BY <3>2, <3>3
  <2> HIDE DEF Up
  <2>2. Cardinality(Up(j)) < Cardinality(Up(k))
    <3>1. Up(j) # Up(k)
      BY <2>1
    <3>2. Cardinality(Up(j)) <= Cardinality(Up(k))
      BY <1>2, <2>1, FS_Subset
    <3>3. Cardinality(Up(j)) = Cardinality(Up(k)) => Up(j) = Up(k)
      BY <1>2, <2>1, FS_Subset
    <3> QED BY <1>2, <3>1, <3>2, <3>3
  <2>3. n <= Cardinality(Up(j))
    BY <1>3 DEF T
  <2> QED BY <1>2, <1>4, <2>2, <2>3
<1>6. \A j \in S : k >= j
  BY <1>1, <1>5
<1> QED BY <1>6

LEMMA LowestType ==
  ASSUME NEW S \in SUBSET Keys
  PROVE  Lowest(S) \in S \cup {NoKey} /\ (S # {} => Lowest(S) \in S)
<1>1. ASSUME S # {} PROVE Min(S) \in S
  <2>1. S \in SUBSET Nat
    BY CursorAssumption
  <2>2. PICK k \in S : \A j \in S : k <= j
    BY <1>1, <2>1, LeastNat
  <2> QED BY <2>2 DEF Min
<1> QED BY <1>1 DEF Lowest

LEMMA HighestType ==
  ASSUME NEW S \in SUBSET Keys
  PROVE  Highest(S) \in S \cup {NoKey}
<1>1. ASSUME S # {} PROVE Max(S) \in S
  <2>1. PICK k \in S : \A j \in S : k >= j
    BY <1>1, GreatestKey
  <2> QED BY <2>1 DEF Max
<1> QED BY <1>1 DEF Highest

LEMMA MovesType ==
  ASSUME NEW d, NEW r, NEW k
  PROVE  /\ KeysIn(d, r) \in SUBSET Keys
         /\ After(d, r, k) \in Keys \cup {NoKey}
         /\ Before(d, r, k) \in Keys \cup {NoKey}
<1>1. KeysIn(d, r) \in SUBSET Keys
  BY DEF KeysIn
<1> DEFINE U == {j \in KeysIn(d, r) : j > k}
           V == {j \in KeysIn(d, r) : k = NoKey \/ j < k}
<1>2. U \in SUBSET Keys /\ V \in SUBSET Keys
  BY <1>1
<1>3. After(d, r, k) = Lowest(U) /\ Before(d, r, k) = Highest(V)
  BY DEF After, Before
<1> HIDE DEF U, V
<1>4. Lowest(U) \in Keys \cup {NoKey} /\ Highest(V) \in Keys \cup {NoKey}
  BY <1>2, LowestType, HighestType
<1> QED BY <1>1, <1>3, <1>4

LEMMA CurrentType ==
  ASSUME NEW d, NEW q \in CursorRecs
  PROVE  /\ Current(d, q) \in Spots
         /\ q.pos # NoKey /\ q.pos \in KeysIn(d, q.root) => Current(d, q) = q.pos
         /\ q.pos = NoKey => Current(d, q) = NoKey
<1>1. q.pos \in Spots
  BY DEF CursorRecs
<1>2. After(d, q.root, q.pos) \in Spots
  BY MovesType, SMTT(30) DEF Spots
<1> QED BY <1>1, <1>2 DEF Current

-----------------------------------------------------------------------------
\* The updates the calls make of a cursor.
LEMMA FieldsTyped ==
  ASSUME NEW q \in CursorRecs
  PROVE  /\ \A t \in Trips : [q EXCEPT !.trip = t] \in CursorRecs
         /\ \A h \in Handles : [q EXCEPT !.hnd = h] \in CursorRecs
         /\ \A v \in Spots, h \in Handles, l \in Nat : [q EXCEPT !.saved = v, !.hnd = h, !.lvl = l] \in CursorRecs
         /\ \A h \in Handles, l \in Nat, p \in Spots : [q EXCEPT !.hnd = h, !.lvl = l, !.pos = p] \in CursorRecs
         /\ \A p \in Spots : [q EXCEPT !.pos = p] \in CursorRecs
         /\ \A p, v \in Spots : [q EXCEPT !.pos = p, !.saved = v] \in CursorRecs
         /\ \A p, m \in Spots : [q EXCEPT !.pos = p, !.mark = m] \in CursorRecs
         /\ \A p, m \in Spots, e \in BOOLEAN : [q EXCEPT !.pos = p, !.eof = e, !.mark = m] \in CursorRecs
         /\ \A p, m \in Spots, e, n \in BOOLEAN : [q EXCEPT !.eof = e, !.pos = p, !.mark = m, !.seekOk = n] \in CursorRecs
         /\ \A n \in BOOLEAN : [q EXCEPT !.nextOk = n] \in CursorRecs
<1>1. \A t \in Trips : [q EXCEPT !.trip = t] \in CursorRecs
  BY ZenonT(60) DEF CursorRecs
<1>2. \A h \in Handles : [q EXCEPT !.hnd = h] \in CursorRecs
  BY ZenonT(60) DEF CursorRecs
<1>3. \A v \in Spots, h \in Handles, l \in Nat : [q EXCEPT !.saved = v, !.hnd = h, !.lvl = l] \in CursorRecs
  BY ZenonT(60) DEF CursorRecs
<1>4. \A h \in Handles, l \in Nat, p \in Spots : [q EXCEPT !.hnd = h, !.lvl = l, !.pos = p] \in CursorRecs
  BY ZenonT(60) DEF CursorRecs
<1>5. \A p \in Spots : [q EXCEPT !.pos = p] \in CursorRecs
  BY ZenonT(60) DEF CursorRecs
<1>6. \A p, v \in Spots : [q EXCEPT !.pos = p, !.saved = v] \in CursorRecs
  BY ZenonT(60) DEF CursorRecs
<1>7. \A p, m \in Spots : [q EXCEPT !.pos = p, !.mark = m] \in CursorRecs
  BY ZenonT(60) DEF CursorRecs
<1>8. \A p, m \in Spots, e \in BOOLEAN : [q EXCEPT !.pos = p, !.eof = e, !.mark = m] \in CursorRecs
  BY ZenonT(60) DEF CursorRecs
<1>9. \A p, m \in Spots, e, n \in BOOLEAN : [q EXCEPT !.eof = e, !.pos = p, !.mark = m, !.seekOk = n] \in CursorRecs
  BY ZenonT(60) DEF CursorRecs
<1>10. \A n \in BOOLEAN : [q EXCEPT !.nextOk = n] \in CursorRecs
  BY ZenonT(60) DEF CursorRecs
<1> QED BY <1>1, <1>2, <1>3, <1>4, <1>5, <1>6, <1>7, <1>8, <1>9, <1>10

LEMMA ZeroTyped == ZeroCursor \in CursorRecs /\ ~ZeroCursor.open /\ ZeroCursor.nextOk
BY EnvAssumption DEF ZeroCursor, CursorRecs, Handles, Trips, Spots, Roots

\* The cursor sqlite3BtreeCursor makes.
Opened(r, w, l, p, e) ==
  [ZeroCursor EXCEPT !.open = TRUE, !.root = r, !.wr = w, !.hnd = "live",
                     !.lvl = l, !.pos = p, !.mark = p, !.eof = e]

LEMMA OpenedDef ==
  ASSUME NEW r \in Roots, NEW w \in BOOLEAN, NEW l \in Nat, NEW p \in Spots,
         NEW e \in BOOLEAN
  PROVE  LET o == Opened(r, w, l, p, e) IN
         /\ o \in CursorRecs
         /\ o.trip = "OK" /\ o.hnd = "live" /\ o.saved = NoKey /\ o.pos = p
         /\ o.mark = p /\ o.nextOk
BY ZenonT(60) DEF Opened, ZeroCursor, CursorRecs, Handles, Trips, Spots

\* What a call that ends a transaction leaves of a cursor: its row.
SameRow(r, q) ==
  /\ r.open = q.open /\ r.root = q.root /\ r.wr = q.wr /\ r.pos = q.pos
  /\ r.eof = q.eof /\ r.mark = q.mark /\ r.nextOk = q.nextOk

LEMMA SavedDef ==
  ASSUME NEW q \in CursorRecs, NEW d, NEW r, r = SavedCursor(d, q)
  PROVE  /\ r \in CursorRecs /\ SameRow(r, q)
         /\ ~Attached(q) => r = q
         /\ Attached(q) /\ Current(d, q) = NoKey => r.trip = "INTERNAL"
         /\ Attached(q) /\ Current(d, q) # NoKey
              => r.saved = Current(d, q) /\ r.hnd = "null" /\ r.trip = q.trip
<1>1. Current(d, q) \in Spots
  BY CurrentType
<1>2. CASE ~Attached(q)
  BY <1>2 DEF SavedCursor, SameRow
<1>3. CASE Attached(q) /\ Current(d, q) = NoKey
  <2>1. r = [q EXCEPT !.trip = "INTERNAL"] /\ "INTERNAL" \in Trips
    BY <1>3 DEF SavedCursor, Trips
  <2>2. r \in CursorRecs
    <3>1. \A t \in Trips : [q EXCEPT !.trip = t] \in CursorRecs
      BY FieldsTyped
    <3> QED BY ZenonT(60), <2>1, <3>1
  <2>3. SameRow(r, q) /\ r.trip = "INTERNAL"
    BY <2>1 DEF CursorRecs, SameRow
  <2> QED BY <1>3, <2>2, <2>3
<1>4. CASE Attached(q) /\ Current(d, q) # NoKey
  <2> DEFINE k == Current(d, q)
  <2>1. r = [q EXCEPT !.saved = k, !.hnd = "null", !.lvl = 0] /\ "null" \in Handles
        /\ 0 \in Nat
    BY <1>4 DEF SavedCursor, Handles
  <2>2. k \in Spots
    BY <1>1
  <2> HIDE DEF k
  <2>3. r \in CursorRecs
    <3>1. \A v \in Spots, h \in Handles, l \in Nat :
             [q EXCEPT !.saved = v, !.hnd = h, !.lvl = l] \in CursorRecs
      BY FieldsTyped
    <3> QED BY ZenonT(60), <2>1, <2>2, <3>1
  <2>4. SameRow(r, q) /\ r.saved = k /\ r.hnd = "null" /\ r.trip = q.trip
    BY <2>1 DEF CursorRecs, SameRow
  <2> QED BY <1>4, <2>3, <2>4 DEF k
<1> QED BY <1>2, <1>3, <1>4

LEMMA TrippedDef ==
  ASSUME NEW q \in CursorRecs, NEW code \in Trips \ {"OK"}, NEW w, NEW r,
         r = TrippedCursor(code, w, q)
  PROVE  /\ r \in CursorRecs /\ SameRow(r, q)
         /\ r = q \/ (Attached(q) /\ r.trip # "OK")
<1>1. CASE r = q
  BY <1>1 DEF SameRow
<1>2. CASE r # q
  <2>1. r = [q EXCEPT !.trip = code] /\ Attached(q)
    BY <1>2 DEF TrippedCursor
  <2>2. r \in CursorRecs
    <3>1. \A t \in Trips : [q EXCEPT !.trip = t] \in CursorRecs
      BY FieldsTyped
    <3> QED BY ZenonT(60), <2>1, <3>1
  <2>3. SameRow(r, q) /\ r.trip = code
    BY <2>1 DEF CursorRecs, SameRow
  <2> QED BY <2>1, <2>2, <2>3
<1> QED BY <1>1, <1>2

LEMMA HandleDef ==
  ASSUME NEW q \in CursorRecs, NEW m, NEW rw, NEW r, r = HandleAfter(m, rw, q)
  PROVE  /\ r \in CursorRecs /\ SameRow(r, q)
         /\ r.trip = q.trip /\ r.saved = q.saved
         /\ q.hnd # "live" => r.hnd = q.hnd
         /\ q.hnd = "null" <=> r.hnd = "null"
<1>1. CASE r = q
  BY <1>1 DEF SameRow
<1>2. CASE r # q
  <2> DEFINE h == IF rw THEN "ended" ELSE "orphan"
  <2>1. r = [q EXCEPT !.hnd = h] /\ h \in Handles /\ h # "null" /\ q.hnd = "live"
    BY <1>2 DEF HandleAfter, Handles
  <2> HIDE DEF h
  <2>2. r \in CursorRecs
    BY <2>1, FieldsTyped
  <2>3. SameRow(r, q) /\ r.hnd = h /\ r.trip = q.trip /\ r.saved = q.saved
    BY <2>1 DEF CursorRecs, SameRow
  <2> QED BY <2>1, <2>2, <2>3
<1> QED BY <1>1, <1>2

-----------------------------------------------------------------------------
\* A cursor that works is on the row the caller put it on, and one that is
\* saved remembers that row; no scan has left its order.
Placed(q) ==
  /\ q.open /\ q.trip = "OK" =>
       /\ q.saved # NoKey /\ q.hnd # "null" => q.pos = q.saved
       /\ ~q.eof => q.mark = IF q.saved # NoKey THEN q.saved ELSE q.pos
  /\ q.nextOk

\* The next use of a cursor reaches a transaction that is there.
Working(q) == q.open => q.trip = "OK" /\ q.hnd \in {"null", "live"}

\* Nobody ends a transaction under an open cursor and, for the positions, no
\* cursor is saved or deleted through while it sits where its row was; for the
\* transactions, none is saved while it has no row.
Settled == CursorHabits \cap {"endOpen", "gap"} = {}
Tidy    == CursorHabits \cap {"endOpen", "rowless"} = {}

\* What a call may make of q.
Moves(r, q) ==
  /\ r \in CursorRecs
  /\ Settled /\ Placed(q) => Placed(r)
  /\ Tidy /\ Working(q) => Working(r)

\* A live cursor that is on its row, or past the last one.
LEMMA LiveMoves ==
  ASSUME NEW q \in CursorRecs, NEW r \in CursorRecs,
         r.trip = "OK", r.saved = NoKey, r.hnd = "live",
         Settled /\ Placed(q) => r.nextOk /\ (r.eof \/ r.mark = r.pos)
  PROVE  Moves(r, q)
BY DEF Moves, Placed, Working

LEMMA RestoredDef ==
  ASSUME NEW c \in Conns, Len(bt[c].svp) \in Nat,
         NEW q \in CursorRecs, NEW rep \in BOOLEAN,
         NEW r, r = Restored(c, q, rep)
  PROVE  /\ r \in CursorRecs
         /\ r.open = q.open /\ r.root = q.root /\ r.wr = q.wr /\ r.trip = q.trip
         /\ r.eof = q.eof /\ r.mark = q.mark /\ r.nextOk = q.nextOk
         /\ r.saved = NoKey
<1>1. CASE q.saved = NoKey
  BY <1>1 DEF Restored
<1>2. CASE q.saved # NoKey
  <2> DEFINE l == Len(bt[c].svp)
             o == [q EXCEPT !.hnd = "live", !.lvl = l, !.pos = NoKey]
             p == IF rep THEN q.saved ELSE NoKey
  <2>1. r = [o EXCEPT !.pos = p, !.saved = NoKey]
    BY <1>2 DEF Restored, Reopened
  <2>2. p \in Spots /\ NoKey \in Spots /\ l \in Nat /\ "live" \in Handles
    BY DEF CursorRecs, Spots, Handles
  <2> HIDE DEF l, p
  <2>3. o \in CursorRecs
    <3>1. \A h \in Handles, n \in Nat, k \in Spots :
             [q EXCEPT !.hnd = h, !.lvl = n, !.pos = k] \in CursorRecs
      BY FieldsTyped
    <3> QED BY ZenonT(60), <2>2, <3>1
  <2>4. /\ o.open = q.open /\ o.root = q.root /\ o.wr = q.wr /\ o.trip = q.trip
        /\ o.eof = q.eof /\ o.mark = q.mark /\ o.nextOk = q.nextOk
    BY DEF CursorRecs
  <2> HIDE DEF o
  <2>5. r \in CursorRecs
    <3>1. \A k, v \in Spots : [o EXCEPT !.pos = k, !.saved = v] \in CursorRecs
      BY <2>3, FieldsTyped
    <3> QED BY ZenonT(60), <2>1, <2>2, <3>1
  <2>6. /\ r.open = o.open /\ r.root = o.root /\ r.wr = o.wr /\ r.trip = o.trip
        /\ r.eof = o.eof /\ r.mark = o.mark /\ r.nextOk = o.nextOk
        /\ r.saved = NoKey
    BY <2>1, <2>3 DEF CursorRecs
  <2> QED BY <1>2, <2>4, <2>5, <2>6
<1> QED BY <1>1, <1>2

\* The row a cursor is put back on.
LEMMA RestoredBack ==
  ASSUME NEW c \in Conns, NEW q \in CursorRecs, NEW r, r = Restored(c, q, TRUE)
  PROVE  /\ r.eof = q.eof /\ r.mark = q.mark /\ r.nextOk = q.nextOk
         /\ r.pos = IF q.saved # NoKey THEN q.saved ELSE q.pos
<1>1. CASE q.saved = NoKey
  BY <1>1 DEF Restored
<1>2. CASE q.saved # NoKey
  <2> DEFINE o == [q EXCEPT !.hnd = "live", !.lvl = Len(bt[c].svp), !.pos = NoKey]
  <2>1. r = [o EXCEPT !.pos = q.saved, !.saved = NoKey]
    BY <1>2 DEF Restored, Reopened
  <2> QED BY <1>2, <2>1 DEF CursorRecs
<1> QED BY <1>1, <1>2

\* A cursor whose saved row is gone.
LEMMA NotRestoredMoves ==
  ASSUME NEW c \in Conns, Len(bt[c].svp) \in Nat, NEW q \in CursorRecs,
         NEW rep \in BOOLEAN, RestoreFails(Data(c), q, rep),
         NEW r, r = NotRestored(c, q)
  PROVE  Moves(r, q)
<1>1. CASE ~(q.trip = "OK" /\ q.root \in Data(c).tabs)
  <2>1. r = q
    BY <1>1 DEF NotRestored
  <2> QED BY <2>1 DEF Moves
<1>2. CASE q.trip = "OK" /\ q.root \in Data(c).tabs
  <2> DEFINE l == Len(bt[c].svp)
             o == [q EXCEPT !.hnd = "live", !.lvl = l, !.pos = NoKey]
             p == q.saved
  <2>1. r = [o EXCEPT !.pos = p]
    BY <1>2 DEF NotRestored, Reopened
  <2>2. p \in Spots /\ NoKey \in Spots /\ l \in Nat /\ "live" \in Handles
    BY DEF CursorRecs, Spots, Handles
  <2>3. q.saved # NoKey
    BY <1>2 DEF RestoreFails
  <2> HIDE DEF l
  <2>4. o \in CursorRecs
    <3>1. \A h \in Handles, n \in Nat, k \in Spots :
             [q EXCEPT !.hnd = h, !.lvl = n, !.pos = k] \in CursorRecs
      BY FieldsTyped
    <3> QED BY ZenonT(60), <2>2, <3>1
  <2>5. /\ o.open = q.open /\ o.trip = "OK" /\ o.eof = q.eof /\ o.mark = q.mark
        /\ o.nextOk = q.nextOk /\ o.saved = q.saved /\ o.hnd = "live"
    BY <1>2 DEF CursorRecs
  <2> HIDE DEF o
  <2>6. r \in CursorRecs
    BY <2>1, <2>2, <2>4, FieldsTyped
  <2>7. /\ r.open = o.open /\ r.trip = o.trip /\ r.eof = o.eof /\ r.mark = o.mark
        /\ r.nextOk = o.nextOk /\ r.saved = o.saved /\ r.hnd = o.hnd /\ r.pos = q.saved
    BY <2>1, <2>4 DEF CursorRecs
  <2>8. Placed(q) => Placed(r)
    BY <1>2, <2>3, <2>5, <2>7 DEF Placed
  <2> QED BY <2>5, <2>6, <2>7, <2>8 DEF Moves, Working
<1> QED BY <1>1, <1>2

-----------------------------------------------------------------------------
\* The cursor calls.
LEMMA ReadyDef ==
  ASSUME TypeOK, CursorsTyped, NEW c \in Conns, NEW s \in Slots, NEW rep \in BOOLEAN,
         Ready(c, s, rep), NEW q, q = Restored(c, cur[c][s], rep)
  PROVE  /\ q \in CursorRecs /\ cur[c][s] \in CursorRecs
         /\ q.trip = "OK" /\ q.saved = NoKey /\ q.hnd = "live"
         /\ q.root = cur[c][s].root /\ q.eof = cur[c][s].eof
         /\ Placed(cur[c][s]) => q.nextOk
         /\ Data(c) \in DataSet
<1>1. cur[c][s] \in CursorRecs
  BY DEF CursorsTyped
<1>2. /\ InTxn(c, {"READ", "WRITE"}) /\ cur[c][s].open /\ q.hnd = "live"
      /\ ~RestoreFails(Data(c), cur[c][s], rep)
  BY DEF Ready, CursorUse
<1>3. bt[c].svp # <<>> /\ Len(bt[c].svp) \in Nat
  BY <1>2, InTxnStack
<1>4. Data(c) \in DataSet
  BY <1>3, TopType DEF TypeOK, Data
<1>5. cur[c][s].trip = "OK"
  BY <1>2 DEF RestoreFails
<1>6. /\ q \in CursorRecs
      /\ q.root = cur[c][s].root /\ q.trip = cur[c][s].trip
      /\ q.eof = cur[c][s].eof /\ q.mark = cur[c][s].mark /\ q.nextOk = cur[c][s].nextOk
      /\ q.saved = NoKey
  BY <1>1, <1>3, RestoredDef
<1> QED BY <1>1, <1>2, <1>4, <1>5, <1>6 DEF Placed

LEMMA ReadyPlaced ==
  ASSUME TypeOK, CursorsTyped, NEW c \in Conns, NEW s \in Slots, Ready(c, s, TRUE),
         Placed(cur[c][s]), NEW q, q = Restored(c, cur[c][s], TRUE)
  PROVE  q.nextOk /\ (q.eof \/ q.mark = q.pos)
<1> DEFINE o == cur[c][s]
<1>1. o \in CursorRecs
  BY DEF CursorsTyped
<1>2. InTxn(c, {"READ", "WRITE"}) /\ o.open /\ o.trip = "OK"
  BY DEF Ready, CursorUse, RestoreFails
<1> HIDE DEF o
<1>4. /\ q.eof = o.eof /\ q.mark = o.mark /\ q.nextOk = o.nextOk
      /\ q.pos = IF o.saved # NoKey THEN o.saved ELSE o.pos
  <2>1. q = Restored(c, o, TRUE)
    BY DEF o
  <2> QED BY <1>1, <2>1, RestoredBack
<1>5. Placed(o)
  BY DEF o
<1> QED BY <1>2, <1>4, <1>5 DEF Placed

LEMMA LandedDef ==
  ASSUME NEW q \in CursorRecs, NEW k \in Spots, NEW r, r = Landed(q, k)
  PROVE  /\ r \in CursorRecs /\ r.trip = q.trip /\ r.saved = q.saved
         /\ r.hnd = q.hnd /\ r.nextOk = q.nextOk
         /\ r.eof \/ r.mark = r.pos
<1> DEFINE p == IF k = NoKey THEN q.pos ELSE k
           m == IF k = NoKey THEN q.mark ELSE k
           e == IF k = NoKey THEN TRUE ELSE FALSE
<1>1. r = [q EXCEPT !.pos = p, !.eof = e, !.mark = m]
  BY DEF Landed, CursorRecs
<1>2. p \in Spots /\ m \in Spots /\ e \in BOOLEAN
  BY DEF CursorRecs
<1>5. e \/ m = p
  OBVIOUS
<1> HIDE DEF p, m, e
<1>3. r \in CursorRecs
  <2>1. \A i, j \in Spots, b \in BOOLEAN :
           [q EXCEPT !.pos = i, !.eof = b, !.mark = j] \in CursorRecs
    BY FieldsTyped
  <2>2. [q EXCEPT !.pos = p, !.eof = e, !.mark = m] \in CursorRecs
    BY ZenonT(60), <1>2, <2>1
  <2> QED BY <1>1, <2>2
<1>4. /\ r.trip = q.trip /\ r.saved = q.saved /\ r.hnd = q.hnd /\ r.nextOk = q.nextOk
      /\ r.pos = p /\ r.eof = e /\ r.mark = m
  BY <1>1 DEF CursorRecs
<1> QED BY <1>3, <1>4, <1>5

\* A step of the scan: First and Last, and Next and Previous, which compare
\* the row they reach with the one the caller expects.
LEMMA LandedMoves ==
  ASSUME NEW q \in CursorRecs, NEW o \in CursorRecs, NEW k \in Spots,
         q.trip = "OK", q.saved = NoKey, q.hnd = "live", Placed(o) => q.nextOk
  PROVE  /\ Moves(Landed(q, k), o)
         /\ \A b \in BOOLEAN : (Placed(o) => b) =>
               Moves([Landed(q, k) EXCEPT !.nextOk = @ /\ b], o)
<1> DEFINE r == Landed(q, k)
<1>1. /\ r \in CursorRecs /\ r.trip = "OK" /\ r.saved = NoKey
      /\ r.hnd = "live" /\ r.nextOk = q.nextOk
      /\ r.eof \/ r.mark = r.pos
  BY LandedDef
<1> HIDE DEF r
<1>2. Moves(r, o)
  BY <1>1, LiveMoves
<1>3. ASSUME NEW b \in BOOLEAN, Placed(o) => b
      PROVE  Moves([r EXCEPT !.nextOk = @ /\ b], o)
  <2> DEFINE n == r.nextOk /\ b
             x == [r EXCEPT !.nextOk = n]
  <2>1. n \in BOOLEAN /\ (Placed(o) => n)
    BY <1>1, <1>3 DEF CursorRecs
  <2>2. [r EXCEPT !.nextOk = @ /\ b] = x
    OBVIOUS
  <2> HIDE DEF n
  <2>3. x \in CursorRecs
    <3>1. \A a \in BOOLEAN : [r EXCEPT !.nextOk = a] \in CursorRecs
      BY <1>1, FieldsTyped
    <3> QED BY ZenonT(60), <2>1, <3>1
  <2>4. /\ x.trip = r.trip /\ x.saved = r.saved /\ x.hnd = r.hnd /\ x.nextOk = n
        /\ x.eof = r.eof /\ x.mark = r.mark /\ x.pos = r.pos
    BY <1>1 DEF CursorRecs
  <2> HIDE DEF x
  <2>5. Moves(x, o)
    BY <1>1, <2>1, <2>3, <2>4, LiveMoves
  <2> QED BY <2>2, <2>5
<1> QED BY <1>2, <1>3 DEF r

\* A call that puts the cursor on p, and says so.
LEMMA PutMoves ==
  ASSUME NEW q \in CursorRecs, NEW o \in CursorRecs, NEW p \in Spots,
         q.trip = "OK", q.saved = NoKey, q.hnd = "live", Placed(o) => q.nextOk
  PROVE  /\ Moves([q EXCEPT !.pos = p, !.mark = p], o)
         /\ \A b \in BOOLEAN :
               Moves([q EXCEPT !.eof = FALSE, !.pos = p, !.mark = p,
                               !.seekOk = @ /\ b], o)
<1>1. Moves([q EXCEPT !.pos = p, !.mark = p], o)
  <2> DEFINE r == [q EXCEPT !.pos = p, !.mark = p]
  <2>1. r \in CursorRecs
    <3>1. \A i, j \in Spots : [q EXCEPT !.pos = i, !.mark = j] \in CursorRecs
      BY FieldsTyped
    <3> QED BY ZenonT(60), <3>1
  <2>2. /\ r.trip = "OK" /\ r.saved = NoKey /\ r.hnd = "live"
        /\ r.nextOk = q.nextOk /\ r.mark = r.pos
    BY DEF CursorRecs
  <2> HIDE DEF r
  <2>3. Moves(r, o)
    BY <2>1, <2>2, LiveMoves
  <2> QED BY <2>3 DEF r
<1>2. ASSUME NEW b \in BOOLEAN
      PROVE  Moves([q EXCEPT !.eof = FALSE, !.pos = p, !.mark = p,
                             !.seekOk = @ /\ b], o)
  <2> DEFINE n == q.seekOk /\ b
             r == [q EXCEPT !.eof = FALSE, !.pos = p, !.mark = p, !.seekOk = n]
  <2>1. [q EXCEPT !.eof = FALSE, !.pos = p, !.mark = p, !.seekOk = @ /\ b] = r
    OBVIOUS
  <2>2. n \in BOOLEAN
    BY DEF CursorRecs
  <2> HIDE DEF n
  <2>3. r \in CursorRecs
    <3>1. \A i, j \in Spots, e, a \in BOOLEAN :
             [q EXCEPT !.eof = e, !.pos = i, !.mark = j, !.seekOk = a] \in CursorRecs
      BY FieldsTyped
    <3>2. FALSE \in BOOLEAN
      OBVIOUS
    <3> QED BY ZenonT(60), <2>2, <3>1, <3>2
  <2>4. /\ r.trip = "OK" /\ r.saved = NoKey /\ r.hnd = "live"
        /\ r.nextOk = q.nextOk /\ r.mark = r.pos
    BY DEF CursorRecs
  <2> HIDE DEF r
  <2>5. Moves(r, o)
    BY <2>3, <2>4, LiveMoves
  <2> QED BY <2>1, <2>5
<1> QED BY <1>1, <1>2

\* What a call does to the cursors of its connection.
CursorsMove(c) ==
  \E new \in [Slots -> CursorRecs] :
    /\ cur' = [cur EXCEPT ![c] = new]
    /\ \A u \in Slots : Moves(new[u], cur[c][u])

LEMMA OneMoves ==
  ASSUME CursorsTyped, NEW c \in Conns, NEW s \in Slots, NEW r,
         Moves(r, cur[c][s]), SetCursor(c, s, r)
  PROVE  CursorsMove(c)
<1> DEFINE new == [cur[c] EXCEPT ![s] = r]
<1>1. cur \in [Conns -> [Slots -> CursorRecs]] /\ r \in CursorRecs
  BY DEF CursorsTyped, Moves
<1>2. new \in [Slots -> CursorRecs] /\ cur' = [cur EXCEPT ![c] = new]
  BY <1>1 DEF SetCursor
<1>3. ASSUME NEW u \in Slots PROVE Moves(new[u], cur[c][u])
  <2>1. CASE u = s
    BY <1>1, <2>1
  <2>2. CASE u # s
    <3>1. new[u] = cur[c][u] /\ cur[c][u] \in CursorRecs
      BY <1>1, <2>2
    <3> QED BY <3>1 DEF Moves
  <2> QED BY <2>1, <2>2
<1> QED BY <1>2, <1>3 DEF CursorsMove

\* The steps of one connection's cursors are well-typed moves of them, and
\* to LmdbBtree they are writes or nothing.
LEMMA OpenMoves ==
  ASSUME TypeOK, CursorsTyped, NEW c \in Conns, NEW s \in Slots,
         NEW root \in Roots, NEW wrFlag \in BOOLEAN, OpenCursor(c, s, root, wrFlag)
  PROVE  CursorsMove(c)
<1> DEFINE first == Lowest(KeysIn(Data(c), root))
           l == Len(bt[c].svp)
           e == IF first = NoKey THEN TRUE ELSE FALSE
           o == Opened(root, wrFlag, l, first, e)
<1>1. l \in Nat
  BY InTxnStack DEF OpenCursor
<1>2. first \in Spots /\ e \in BOOLEAN
  BY MovesType, LowestType DEF Spots
<1>3. SetCursor(c, s, o)
  <2>1. e = (first = NoKey)
    OBVIOUS
  <2> QED BY <2>1 DEF OpenCursor, Opened
<1> HIDE DEF first, l, e
<1>4. /\ o \in CursorRecs /\ o.trip = "OK" /\ o.hnd = "live" /\ o.saved = NoKey
      /\ o.pos = first /\ o.mark = first /\ o.nextOk
  BY <1>1, <1>2, OpenedDef
<1> HIDE DEF o
<1>5. Moves(o, cur[c][s])
  BY <1>4 DEF Moves, Placed, Working
<1> QED BY <1>3, <1>5, OneMoves

LEMMA LeaveMoves ==
  ASSUME TypeOK, CursorsTyped, NEW c \in Conns, NEW s \in Slots,
         \/ CloseCursor(c, s)
         \/ \E reposition \in BOOLEAN : FailedUse(c, s, reposition)
         \/ PayloadFetch(c, s)
  PROVE  CursorsMove(c)
<1>1. cur[c][s] \in CursorRecs
  BY DEF CursorsTyped
<1>2. CASE CloseCursor(c, s)
  <2>2. Moves(ZeroCursor, cur[c][s])
    BY ZeroTyped DEF Moves, Placed, Working
  <2> QED BY <1>2, <2>2, OneMoves DEF CloseCursor
<1>3. ASSUME NEW rep \in BOOLEAN, FailedUse(c, s, rep) PROVE CursorsMove(c)
  <2>1. Len(bt[c].svp) \in Nat
    BY <1>3, InTxnStack DEF FailedUse, CursorUse
  <2>2. RestoreFails(Data(c), cur[c][s], rep) /\ SetCursor(c, s, NotRestored(c, cur[c][s]))
    BY <1>3 DEF FailedUse
  <2>3. Moves(NotRestored(c, cur[c][s]), cur[c][s])
    BY <1>1, <2>1, <2>2, NotRestoredMoves
  <2> QED BY <2>2, <2>3, OneMoves
<1>4. CASE PayloadFetch(c, s)
  <2> DEFINE q == Restored(c, cur[c][s], TRUE)
  <2>1. Ready(c, s, TRUE) /\ SetCursor(c, s, q)
    BY <1>4 DEF PayloadFetch
  <2>2. q = Restored(c, cur[c][s], TRUE)
    OBVIOUS
  <2> HIDE DEF q
  <2>3. q \in CursorRecs /\ q.trip = "OK" /\ q.saved = NoKey /\ q.hnd = "live"
    BY <2>1, <2>2, ReadyDef
  <2>5. Placed(cur[c][s]) => q.nextOk /\ (q.eof \/ q.mark = q.pos)
    BY <2>1, <2>2, ReadyPlaced
  <2>4. Moves(q, cur[c][s])
    BY <1>1, <2>3, <2>5, LiveMoves
  <2> QED BY <2>1, <2>4, OneMoves
<1> QED BY <1>2, <1>3, <1>4

LEMMA ScanMoves ==
  ASSUME TypeOK, CursorsTyped, NEW c \in Conns, NEW s \in Slots,
         First(c, s) \/ Last(c, s) \/ Next1(c, s) \/ Previous1(c, s)
  PROVE  CursorsMove(c)
<1> DEFINE o == cur[c][s]
           d == Data(c)
<1>1. CASE First(c, s) \/ Last(c, s)
  <2> DEFINE q == Restored(c, o, FALSE)
             all == KeysIn(d, q.root)
  <2>1. /\ Ready(c, s, FALSE)
        /\ \/ SetCursor(c, s, Landed(q, Lowest(all)))
           \/ SetCursor(c, s, Landed(q, Highest(all)))
    BY <1>1 DEF First, Last
  <2>2. q = Restored(c, cur[c][s], FALSE)
    OBVIOUS
  <2>3. Lowest(all) \in Spots /\ Highest(all) \in Spots
    <3>1. all \in SUBSET Keys
      BY MovesType
    <3> HIDE DEF all
    <3> QED BY <3>1, LowestType, HighestType DEF Spots
  <2> HIDE DEF q, all
  <2>4. /\ q \in CursorRecs /\ o \in CursorRecs /\ q.trip = "OK" /\ q.saved = NoKey
        /\ q.hnd = "live" /\ (Placed(o) => q.nextOk)
    BY <2>1, <2>2, ReadyDef
  <2> HIDE DEF o
  <2>5. Moves(Landed(q, Lowest(all)), o) /\ Moves(Landed(q, Highest(all)), o)
    BY <2>3, <2>4, LandedMoves
  <2> QED BY <2>1, <2>5, OneMoves DEF o
<1>2. CASE Next1(c, s) \/ Previous1(c, s)
  <2> DEFINE q == Restored(c, o, TRUE)
             k == After(d, q.root, q.pos)
             j == Before(d, q.root, q.pos)
             b == IF k = After(d, q.root, q.mark) THEN TRUE ELSE FALSE
             a == IF j = Before(d, q.root, q.mark) THEN TRUE ELSE FALSE
  <2>1. /\ Ready(c, s, TRUE) /\ ~o.eof
        /\ \/ SetCursor(c, s, [Landed(q, k) EXCEPT !.nextOk = @ /\ b])
           \/ SetCursor(c, s, [Landed(q, j) EXCEPT !.nextOk = @ /\ a])
    <3>1. b = (k = After(d, q.root, q.mark)) /\ a = (j = Before(d, q.root, q.mark))
      OBVIOUS
    <3> QED BY <1>2, <3>1 DEF Next1, Previous1
  <2>2. q = Restored(c, cur[c][s], TRUE)
    OBVIOUS
  <2>3. k \in Spots /\ j \in Spots
    BY MovesType DEF Spots
  <2>4. q.mark = q.pos => a /\ b
    OBVIOUS
  <2>5. a \in BOOLEAN /\ b \in BOOLEAN
    OBVIOUS
  <2> HIDE DEF q, k, j, a, b
  <2>9. Ready(c, s, TRUE)
    BY <2>1
  <2>6. /\ q \in CursorRecs /\ o \in CursorRecs /\ q.trip = "OK" /\ q.saved = NoKey
        /\ q.hnd = "live" /\ (Placed(o) => q.nextOk) /\ q.eof = o.eof
        /\ Placed(o) => q.eof \/ q.mark = q.pos
    <3>1. /\ q \in CursorRecs /\ cur[c][s] \in CursorRecs /\ q.trip = "OK"
          /\ q.saved = NoKey /\ q.hnd = "live" /\ q.eof = cur[c][s].eof
      BY <2>2, <2>9, ReadyDef
    <3>2. Placed(cur[c][s]) => q.nextOk /\ (q.eof \/ q.mark = q.pos)
      BY <2>2, <2>9, ReadyPlaced
    <3> QED BY <3>1, <3>2
  <2> HIDE DEF o
  <2>7. Placed(o) => a /\ b
    BY <2>1, <2>4, <2>6
  <2>8. /\ Moves([Landed(q, k) EXCEPT !.nextOk = @ /\ b], o)
        /\ Moves([Landed(q, j) EXCEPT !.nextOk = @ /\ a], o)
    BY <2>3, <2>5, <2>6, <2>7, LandedMoves
  <2> QED BY <2>1, <2>8, OneMoves, SMTT(30) DEF o
<1> QED BY <1>1, <1>2

LEMMA SeekMoves ==
  ASSUME TypeOK, CursorsTyped, NEW c \in Conns, NEW s \in Slots, NEW k \in Keys,
         TableMoveto(c, s, k)
  PROVE  CursorsMove(c)
<1> DEFINE o == cur[c][s]
           q == Restored(c, o, FALSE)
           all == KeysIn(Data(c), q.root)
           beyond == {j \in all : j >= k}
           up == Lowest(beyond)
           land == IF up # NoKey THEN up ELSE Lowest(all)
           b == IF up = NoKey => land = Highest(all) THEN TRUE ELSE FALSE
<1>1. /\ Ready(c, s, FALSE)
      /\ SetCursor(c, s, [q EXCEPT !.eof = FALSE, !.pos = land, !.mark = land,
                                   !.seekOk = @ /\ b])
  <2>1. b = (up = NoKey => land = Highest(all))
    OBVIOUS
  <2> QED BY <2>1 DEF TableMoveto
<1>2. q = Restored(c, cur[c][s], FALSE)
  OBVIOUS
<1>3. land \in Spots
  <2>1. all \in SUBSET Keys
    BY MovesType
  <2>2. beyond \in SUBSET Keys
    <3> HIDE DEF all
    <3> QED BY <2>1
  <2> HIDE DEF all, beyond
  <2> QED BY <2>1, <2>2, LowestType DEF Spots
<1>4. b \in BOOLEAN
  OBVIOUS
<1> HIDE DEF q, land, b, all
<1>5. /\ q \in CursorRecs /\ o \in CursorRecs /\ q.trip = "OK" /\ q.saved = NoKey
      /\ q.hnd = "live" /\ (Placed(o) => q.nextOk)
  BY <1>1, <1>2, ReadyDef
<1> HIDE DEF o
<1>6. Moves([q EXCEPT !.eof = FALSE, !.pos = land, !.mark = land,
                      !.seekOk = @ /\ b], o)
  BY <1>3, <1>4, <1>5, PutMoves
<1> QED BY <1>1, <1>6, OneMoves DEF o

LEMMA InsertMoves ==
  ASSUME TypeOK, CursorsTyped, NEW c \in Conns, NEW s \in Slots, NEW k \in Keys,
         NEW x \in Vals, Insert(c, s, k, x)
  PROVE  CursorsMove(c) /\ Write(c)
<1> DEFINE q == Restored(c, cur[c][s], FALSE)
<1>1. Ready(c, s, FALSE) /\ SetCursor(c, s, [q EXCEPT !.pos = k, !.mark = k])
  BY DEF Insert
<1>2. WriteRow(c, cur[c][s].root, k, x)
  BY DEF Insert
<1>3. q = Restored(c, cur[c][s], FALSE) /\ k \in Spots
  BY DEF Spots
<1> HIDE DEF q
<1>4. /\ q \in CursorRecs /\ cur[c][s] \in CursorRecs /\ q.trip = "OK"
      /\ q.saved = NoKey /\ q.hnd = "live" /\ (Placed(cur[c][s]) => q.nextOk)
  BY <1>1, <1>3, ReadyDef
<1>5. Moves([q EXCEPT !.pos = k, !.mark = k], cur[c][s])
  BY <1>3, <1>4, PutMoves
<1>6. cur[c][s].root \in Roots
  BY <1>4 DEF CursorRecs
<1> QED BY <1>1, <1>2, <1>5, <1>6, OneMoves DEF Write

LEMMA TransferMoves ==
  ASSUME TypeOK, CursorsTyped, NEW c \in Conns, NEW s \in Slots, NEW t \in Slots,
         NEW k \in Keys, TransferRow(c, s, t, k)
  PROVE  CursorsMove(c) /\ Write(c)
<1> DEFINE p == Restored(c, cur[c][s], FALSE)
           q == Restored(c, cur[c][t], TRUE)
           r == [p EXCEPT !.pos = k, !.mark = k]
           j == Current(Data(c), q)
           new == [cur[c] EXCEPT ![t] = q, ![s] = r]
<1>1. /\ Ready(c, s, FALSE) /\ Ready(c, t, TRUE) /\ j # NoKey
      /\ WriteRow(c, cur[c][s].root, k, Data(c).rows[q.root][j])
      /\ cur' = [cur EXCEPT ![c][t] = q, ![c][s] = r]
  BY DEF TransferRow
<1>2. p = Restored(c, cur[c][s], FALSE) /\ k \in Spots
  BY DEF Spots
<1>3. q = Restored(c, cur[c][t], TRUE) /\ j = Current(Data(c), q)
  OBVIOUS
<1> HIDE DEF p, q, j
<1>4. /\ p \in CursorRecs /\ cur[c][s] \in CursorRecs /\ p.trip = "OK"
      /\ p.saved = NoKey /\ p.hnd = "live" /\ (Placed(cur[c][s]) => p.nextOk)
  BY <1>1, <1>2, ReadyDef
<1>5. /\ q \in CursorRecs /\ cur[c][t] \in CursorRecs /\ q.trip = "OK"
      /\ q.saved = NoKey /\ q.hnd = "live"
      /\ Placed(cur[c][t]) => q.nextOk /\ (q.eof \/ q.mark = q.pos)
      /\ Data(c) \in DataSet
  <2>1. Ready(c, t, TRUE)
    BY <1>1
  <2>2. /\ q \in CursorRecs /\ cur[c][t] \in CursorRecs /\ q.trip = "OK"
        /\ q.saved = NoKey /\ q.hnd = "live" /\ Data(c) \in DataSet
    BY <1>3, <2>1, ReadyDef
  <2>4. q = Restored(c, cur[c][t], TRUE)
    BY <1>3
  <2>3. Placed(cur[c][t]) => q.nextOk /\ (q.eof \/ q.mark = q.pos)
    BY <2>1, <2>4, ReadyPlaced
  <2> QED BY <2>2, <2>3
<1>6. Moves(r, cur[c][s])
  BY <1>2, <1>4, PutMoves
<1>7. Moves(q, cur[c][t])
  BY <1>5, LiveMoves
<1>8. Data(c).rows[q.root][j] \in Vals \cup {NoVal}
  <2>1. j \in Keys
    <3>1. j # NoKey
      BY <1>1
    <3>2. j \in Spots
      BY <1>3, <1>5, CurrentType
    <3> QED BY <3>1, <3>2 DEF Spots
  <2>3. q.root \in Roots
    BY <1>5 DEF CursorRecs
  <2> QED BY <1>5, <2>1, <2>3 DEF DataSet, Content
<1>9. Write(c)
  <2>1. cur[c][s].root \in Roots
    BY <1>4 DEF CursorRecs
  <2>2. WriteRow(c, cur[c][s].root, k, Data(c).rows[q.root][j])
    BY <1>1
  <2> QED BY <1>8, <2>1, <2>2 DEF Write
<1> HIDE DEF r
<1>10. new \in [Slots -> CursorRecs] /\ cur' = [cur EXCEPT ![c] = new]
  <2>1. r \in CursorRecs /\ cur \in [Conns -> [Slots -> CursorRecs]]
    BY <1>6 DEF Moves, CursorsTyped
  <2>2. cur' = [cur EXCEPT ![c][t] = q, ![c][s] = r]
    BY <1>1
  <2> QED BY <1>5, <2>1, <2>2
<1>11. ASSUME NEW u \in Slots PROVE Moves(new[u], cur[c][u])
  <2>1. CASE u = s
    <3>1. new[u] = r
      BY <2>1 DEF CursorsTyped
    <3> HIDE DEF new
    <3> QED BY <1>6, <2>1, <3>1
  <2>2. CASE u = t /\ u # s
    <3>1. new[u] = q
      BY <2>2 DEF CursorsTyped
    <3> HIDE DEF new
    <3> QED BY <1>7, <2>2, <3>1
  <2>3. CASE u # s /\ u # t
    <3>1. new[u] = cur[c][u] /\ cur[c][u] \in CursorRecs
      BY <2>3 DEF CursorsTyped
    <3> HIDE DEF new
    <3> QED BY <3>1 DEF Moves
  <2> QED BY <2>1, <2>2, <2>3
<1> QED BY <1>9, <1>10, <1>11 DEF CursorsMove

LEMMA DeleteMoves ==
  ASSUME TypeOK, CursorsTyped, NEW c \in Conns, NEW s \in Slots, Delete(c, s)
  PROVE  CursorsMove(c) /\ Write(c)
<1> DEFINE q == Restored(c, cur[c][s], TRUE)
           k == Current(Data(c), q)
           r == [q EXCEPT !.pos = k]
<1>1. /\ Ready(c, s, TRUE) /\ k # NoKey /\ SetCursor(c, s, r)
      /\ k # q.mark => "gap" \in CursorHabits
      /\ WriteRow(c, q.root, k, NoVal)
  BY DEF Delete
<1>2. q = Restored(c, cur[c][s], TRUE) /\ k = Current(Data(c), q)
  OBVIOUS
<1> HIDE DEF q, k
<1>3. /\ q \in CursorRecs /\ q.trip = "OK" /\ q.saved = NoKey /\ q.hnd = "live"
      /\ Placed(cur[c][s]) => q.nextOk
  <2>1. Ready(c, s, TRUE)
    BY <1>1
  <2> QED BY <1>2, <2>1, ReadyDef
<1>4. k \in Keys /\ k \in Spots /\ q.root \in Roots
  <2>1. k # NoKey
    BY <1>1
  <2>2. k \in Spots
    BY <1>2, <1>3, CurrentType
  <2>3. q.root \in Roots
    BY <1>3 DEF CursorRecs
  <2> QED BY <2>1, <2>2, <2>3 DEF Spots
<1>5. r \in CursorRecs
  <2>1. \A p \in Spots : [q EXCEPT !.pos = p] \in CursorRecs
    BY <1>3, FieldsTyped
  <2> QED BY ZenonT(60), <1>4, <2>1
<1>6. /\ r.trip = "OK" /\ r.saved = NoKey /\ r.hnd = "live" /\ r.pos = k
      /\ r.nextOk = q.nextOk /\ r.mark = q.mark
  BY <1>3 DEF CursorRecs
<1>7. SetCursor(c, s, r) /\ (Settled => k = q.mark)
  BY <1>1 DEF Settled
<1> HIDE DEF r
<1>8. Moves(r, cur[c][s])
  BY <1>3, <1>5, <1>6, <1>7, LiveMoves DEF CursorsTyped
<1>9. Write(c)
  <2>1. WriteRow(c, q.root, k, NoVal)
    BY <1>1
  <2> QED BY <1>4, <2>1 DEF Write
<1> QED BY <1>7, <1>8, <1>9, OneMoves

LEMMA CursorStepMoves ==
  ASSUME TypeOK, CursorsTyped, NEW c \in Conns, NEW s \in Slots, CursorStep(c, s)
  PROVE  CursorsMove(c) /\ (UNCHANGED vars \/ Step(c))
<1>1. CASE \E root \in Roots, wrFlag \in BOOLEAN : OpenCursor(c, s, root, wrFlag)
  BY <1>1, OpenMoves DEF OpenCursor, OnlyCursors, vars
<1>2. CASE \/ CloseCursor(c, s) \/ PayloadFetch(c, s)
           \/ \E reposition \in BOOLEAN : FailedUse(c, s, reposition)
  BY <1>2, LeaveMoves, ZenonT(60) DEF CloseCursor, PayloadFetch, FailedUse, OnlyCursors, vars
<1>3. CASE First(c, s) \/ Last(c, s) \/ Next1(c, s) \/ Previous1(c, s)
  BY <1>3, ScanMoves, ZenonT(60) DEF First, Last, Next1, Previous1, OnlyCursors, vars
<1>4. CASE \E k \in Keys : TableMoveto(c, s, k)
  BY <1>4, SeekMoves, ZenonT(60) DEF TableMoveto, OnlyCursors, vars
<1>5. CASE \/ \E k \in Keys, x \in Vals : Insert(c, s, k, x)
           \/ \E t \in Slots, k \in Keys : TransferRow(c, s, t, k)
           \/ Delete(c, s)
  BY <1>5, InsertMoves, TransferMoves, DeleteMoves DEF Step
<1> QED BY <1>1, <1>2, <1>3, <1>4, <1>5 DEF CursorStep

-----------------------------------------------------------------------------
\* The transaction calls, and what invalidateCursors makes of one cursor.
LEMMA CutOne ==
  ASSUME NEW q \in CursorRecs, NEW code \in Trips, NEW w, NEW d, NEW m, NEW rw,
         NEW r, r = HandleAfter(m, rw, Invalidated(code, w, d, q))
  PROVE  /\ r \in CursorRecs
         /\ /\ Placed(q)
            /\ ~q.open \/ (Attached(q) /\ q.pos # NoKey => q.pos \in KeysIn(d, q.root))
            => Placed(r)
         /\ /\ Working(q)
            /\ ~q.open \/ (code = "OK" /\ (Attached(q) => Current(d, q) # NoKey))
            => Working(r)
<1> DEFINE p == Invalidated(code, w, d, q)
<1>1. p \in CursorRecs /\ SameRow(p, q)
  <2>1. CASE code = "OK"
    BY <2>1, SavedDef DEF Invalidated
  <2>2. CASE code # "OK"
    <3>1. p = TrippedCursor(code, w, q) /\ code \in Trips \ {"OK"}
      BY <2>2 DEF Invalidated
    <3> HIDE DEF p
    <3> QED BY <3>1, TrippedDef
  <2> QED BY <2>1, <2>2
<1>2. ASSUME Placed(q),
             ~q.open \/ (Attached(q) /\ q.pos # NoKey => q.pos \in KeysIn(d, q.root))
      PROVE  Placed(p)
  <2>1. CASE ~q.open
    <3> HIDE DEF p
    <3> QED BY <1>1, <1>2, <2>1 DEF Placed, SameRow
  <2>2. CASE q.open /\ code = "OK"
    <3>1. p = SavedCursor(d, q)
      BY <2>2 DEF Invalidated
    <3> HIDE DEF p
    <3>2. CASE ~Attached(q)
      BY <1>2, <3>1, <3>2, SavedDef
    <3>3. CASE Attached(q) /\ Current(d, q) = NoKey
      <4>1. p.trip = "INTERNAL"
        BY <3>1, <3>3, SavedDef
      <4> QED BY <1>1, <1>2, <4>1 DEF Placed, SameRow
    <3>4. CASE Attached(q) /\ Current(d, q) # NoKey
      <4>1. p.saved = Current(d, q) /\ p.hnd = "null" /\ p.trip = q.trip
        BY <3>1, <3>4, SavedDef
      <4>2. Current(d, q) = q.pos
        BY <1>2, <2>2, <3>4, CurrentType
      <4>3. ~q.eof => q.mark = q.pos
        BY <1>2, <2>2, <3>4 DEF Placed, Attached
      <4> QED BY <1>1, <1>2, <3>4, <4>1, <4>2, <4>3 DEF Placed, SameRow
    <3> QED BY <3>2, <3>3, <3>4
  <2>3. CASE q.open /\ code # "OK"
    <3>1. p = TrippedCursor(code, w, q) /\ code \in Trips \ {"OK"}
      BY <2>3 DEF Invalidated
    <3> HIDE DEF p
    <3>2. p = q \/ p.trip # "OK"
      BY <3>1, TrippedDef
    <3> QED BY <1>1, <1>2, <3>2 DEF Placed, SameRow
  <2> QED BY <2>1, <2>2, <2>3
<1>3. ASSUME Working(q),
             ~q.open \/ (code = "OK" /\ (Attached(q) => Current(d, q) # NoKey))
      PROVE  Working(p)
  <2>1. CASE ~q.open
    <3> HIDE DEF p
    <3> QED BY <1>1, <2>1 DEF Working, SameRow
  <2>2. CASE q.open
    <3>1. p = SavedCursor(d, q)
      BY <1>3, <2>2 DEF Invalidated
    <3> HIDE DEF p
    <3> QED BY <1>3, <2>2, <3>1, SavedDef DEF Working
  <2> QED BY <2>1, <2>2
<1>4. r = HandleAfter(m, rw, p)
  OBVIOUS
<1> HIDE DEF p
<1>5. /\ r \in CursorRecs /\ SameRow(r, p) /\ r.trip = p.trip /\ r.saved = p.saved
      /\ p.hnd = "null" <=> r.hnd = "null"
  BY <1>1, <1>4, HandleDef
<1>6. Placed(p) => Placed(r)
  BY <1>5 DEF Placed, SameRow
<1>7. ASSUME Working(q),
             ~q.open \/ (code = "OK" /\ (Attached(q) => Current(d, q) # NoKey))
      PROVE  Working(r)
  <2>1. CASE ~q.open
    BY <1>1, <1>5, <2>1 DEF Working, SameRow
  <2>2. CASE q.open
    <3>1. p = SavedCursor(d, q)
      BY <1>3, <1>4, <1>7, <2>2 DEF Invalidated, p
    <3>2. p.hnd = "null"
      BY <1>7, <2>2, <3>1, SavedDef DEF Working, Attached
    <3>3. Working(p)
      BY <1>3, <1>7
    <3> QED BY <1>5, <3>2, <3>3 DEF Working, SameRow
  <2> QED BY <2>1, <2>2
<1> QED BY <1>2, <1>5, <1>6, <1>7

LEMMA CutMoves ==
  ASSUME CursorsTyped, NEW c \in Conns, NEW code \in Trips, NEW w, NEW m,
         CutCursors(c, code, w, m),
         Settled => NoneOpen(c) \/ ~InGap(c),
         Tidy => NoneOpen(c) \/ (code = "OK" /\ CanSave(c, Top(c).view.data))
  PROVE  CursorsMove(c)
<1> DEFINE d == Top(c).view.data
           rw == bt[c].svp[1].rw
           n(u) == HandleAfter(m, rw, Invalidated(code, w, d, cur[c][u]))
           new == [u \in Slots |-> n(u)]
<1>1. cur' = [cur EXCEPT ![c] = new]
  BY DEF CutCursors
<1>2. ASSUME NEW u \in Slots PROVE Moves(n(u), cur[c][u])
  <2> DEFINE q == cur[c][u]
             r == n(u)
  <2>1. q \in CursorRecs
    BY DEF CursorsTyped
  <2>2. r = HandleAfter(m, rw, Invalidated(code, w, d, q))
    OBVIOUS
  <2>3. Settled => ~q.open \/ (Attached(q) /\ q.pos # NoKey => q.pos \in KeysIn(d, q.root))
    BY DEF NoneOpen, InGap
  <2>4. Tidy => ~q.open \/ (code = "OK" /\ (Attached(q) => Current(d, q) # NoKey))
    BY DEF NoneOpen, CanSave
  <2> HIDE DEF q, r, d, rw
  <2>5. Moves(r, q)
    BY <2>1, <2>2, <2>3, <2>4, CutOne DEF Moves
  <2> QED BY <2>5 DEF q, r
<1> HIDE DEF n
<1>3. new \in [Slots -> CursorRecs]
  BY <1>2 DEF Moves
<1>4. \A u \in Slots : Moves(new[u], cur[c][u])
  BY <1>2
<1> HIDE DEF new
<1> QED BY <1>1, <1>3, <1>4 DEF CursorsMove

\* The steps of LmdbCursor that LmdbBtree does not take: the levels of a stack
\* are aborted, or the process dies of a cursor whose transaction is gone.
Diverted(c) ==
  \/ \E i \in Nat : ReleaseAborts(c, i, FALSE) /\ NoFault
  \/ RollbackAllRefused(c)
  \/ Usable(c) /\ Wreck(c)

LEMMA SameMoves ==
  ASSUME CursorsTyped, NEW c \in Conns, UNCHANGED cur
  PROVE  CursorsMove(c)
<1>1. cur[c] \in [Slots -> CursorRecs] /\ cur' = [cur EXCEPT ![c] = cur[c]]
  BY DEF CursorsTyped
<1> QED BY <1>1 DEF CursorsMove, Moves

LEMMA EndsMove ==
  ASSUME CursorsTyped, NEW c \in Conns, ProcessEnds(c)
  PROVE  CursorsMove(c)
<1> DEFINE new == [s \in Slots |-> ZeroCursor]
<1>1. cur' = [cur EXCEPT ![c] = new]
  BY DEF ProcessEnds
<1>2. new \in [Slots -> CursorRecs]
  BY ZeroTyped
<1>3. ASSUME NEW u \in Slots PROVE Moves(new[u], cur[c][u])
  BY ZeroTyped DEF Moves, Placed, Working
<1> QED BY <1>1, <1>2, <1>3 DEF CursorsMove

LEMMA TxnStepMoves ==
  ASSUME CursorsTyped, NEW c \in Conns, TxnStep(c)
  PROVE  CursorsMove(c)
<1>1. {"OK", "INTERNAL", "ABORT"} \subseteq Trips
  BY DEF Trips
<1>2. MayEnd(c) => (Settled \/ Tidy => NoneOpen(c))
  BY DEF MayEnd, Settled, Tidy
<1>3. MaySave(c) => /\ Settled => ~InGap(c)
                    /\ Tidy => CanSave(c, Top(c).view.data)
  BY DEF MaySave, Settled, Tidy
<1>4. CASE CommitTripping(c)
  <2>1. MayEnd(c) /\ \E m : CutCursors(c, "INTERNAL", FALSE, m)
    BY <1>4 DEF CommitTripping
  <2> QED BY <1>1, <1>2, <2>1, CutMoves
<1>5. ASSUME NEW code \in {"OK", "ABORT"}, NEW writeOnly \in BOOLEAN,
             RollbackTripping(c, code, writeOnly)
      PROVE  CursorsMove(c)
  <2> DEFINE w == writeOnly /\ Len(bt[c].svp) = 1
  <2>1. MayEnd(c) /\ CutCursors(c, code, w, 0)
    BY <1>5 DEF RollbackTripping
  <2> HIDE DEF w
  <2> QED BY <1>1, <1>2, <2>1, CutMoves
<1>6. CASE UpgradeSaving(c)
  <2>1. MaySave(c) /\ \E m : CutCursors(c, "OK", FALSE, m)
    BY <1>6 DEF UpgradeSaving
  <2> QED BY <1>1, <1>3, <2>1, CutMoves
<1>7. ASSUME NEW i, SavepointSaving(c, i) PROVE CursorsMove(c)
  <2>1. MaySave(c) /\ (UNCHANGED cur \/ \E m : CutCursors(c, "OK", FALSE, m))
    BY <1>7 DEF SavepointSaving
  <2> QED BY <1>1, <1>3, <2>1, CutMoves, SameMoves
<1>8. CASE SavepointAllSaving(c)
  <2>1. MaySave(c) /\ \E m : CutCursors(c, "OK", FALSE, m)
    BY <1>8 DEF SavepointAllSaving
  <2> QED BY <1>1, <1>3, <2>1, CutMoves
<1>9. CASE TableStep(c) \/ OtherTxnStep(c)
  BY <1>9, SameMoves DEF TableStep, OtherTxnStep
<1> QED BY <1>4, <1>5, <1>6, <1>7, <1>8, <1>9, EndsMove DEF TxnStep

\* To LmdbBtree a transaction call is one of its own, or a diverted one, and
\* it is its own as long as every cursor works and nobody tears one off.
LEMMA TxnStepSteps ==
  ASSUME NEW c \in Conns, TxnStep(c)
  PROVE  /\ Step(c) \/ Diverted(c)
         /\ Tidy /\ (\A s \in Slots : Working(cur[c][s])) => Step(c)
<1>1. CASE CommitTripping(c)
  BY <1>1 DEF CommitTripping, Step, CommitPhaseOne
<1>2. CASE \E code \in {"OK", "ABORT"}, writeOnly \in BOOLEAN :
             RollbackTripping(c, code, writeOnly)
  BY <1>2 DEF RollbackTripping, Step
<1>3. CASE UpgradeSaving(c)
  BY <1>3 DEF UpgradeSaving, Step, BeginTrans
<1>4. ASSUME NEW i \in 0..(MaxDepth - 1), SavepointSaving(c, i)
      PROVE  /\ Step(c) \/ Diverted(c)
             /\ Tidy => Step(c)
  <2>1. /\ \/ SavepointRollback(c, i) \/ SavepointReleaseFails(c, i)
           \/ SavepointRelease(c, i)
           \/ ~CanSave(c, Top(c).view.data) /\ ReleaseAborts(c, i, FALSE) /\ NoFault
        /\ MaySave(c)
    BY <1>4 DEF SavepointSaving
  <2>2. i \in Nat
    BY BtreeAssumption
  <2> QED BY <2>1, <2>2 DEF Step, Savepoint, Diverted, MaySave, Tidy
<1>5. CASE SavepointAllSaving(c)
  BY <1>5 DEF SavepointAllSaving, Step, Savepoint, Diverted, MaySave, Tidy
<1>6. CASE TableStep(c)
  BY <1>6 DEF TableStep, Step, Write
<1>7. CASE OtherTxnStep(c)
  BY <1>7 DEF OtherTxnStep, Step, BeginTrans
<1>8. CASE ProcessEnds(c)
  <2>1. CASE Crash(c) \/ UseDangling(c)
    BY <2>1 DEF Step
  <2>2. CASE /\ Usable(c) /\ Wreck(c)
             /\ \E s \in Slots : cur[c][s].open /\ cur[c][s].hnd \in {"ended", "orphan"}
    BY <2>2 DEF Diverted, Working
  <2> QED BY <1>8, <2>1, <2>2 DEF ProcessEnds
<1> QED BY <1>1, <1>2, <1>3, <1>4, <1>5, <1>6, <1>7, <1>8 DEF TxnStep

-----------------------------------------------------------------------------
\* The diverted steps keep what LockInv needs.
LEMMA DivertedKeeps ==
  ASSUME TypeOK, LockInv, NEW c \in Conns, Diverted(c)
  PROVE  TypeOK' /\ LockInv'
<1>1. ASSUME NEW m \in 1..Len(bt[c].svp), NEW k \in Nat, NEW w \in DataSet,
             InTxn(c, {"WRITE"}),
             bt' = [bt EXCEPT ![c].svp = Closed(@, m, FALSE)],
             cl' = [cl EXCEPT ![c].want = w, ![c].marks = SubSeq(@, 1, k)],
             k <= Len(cl[c].marks), UNCHANGED <<db, writer, faults>>
      PROVE  TypeOK' /\ LockInv'
  <2> DEFINE t == Closed(bt[c].svp, m, FALSE)
             l == SubSeq(cl[c].marks, 1, k)
  <2>1. LockStep(c)
    BY <1>1, CutLock
  <2>2. bt[c].svp \in Seq(Savepoints) /\ bt[c] \in Btrees /\ cl[c] \in Clients
    BY DEF TypeOK, Btrees
  <2>3. t \in Seq(Savepoints)
    BY <2>2, ClosedLength
  <2>4. l \in Seq(DataSet)
    <3>1. cl[c].marks \in Seq(DataSet)
      BY <2>2 DEF Clients
    <3>2. Len(cl[c].marks) \in Nat /\ \A j \in 1..Len(cl[c].marks) : cl[c].marks[j] \in DataSet
      BY <3>1, LenProperties, ElementOfSeq
    <3> QED BY <1>1, <3>1, <3>2, SubSeqProperties
  <2>5. bt' = [bt EXCEPT ![c].svp = t] /\ cl' = [cl EXCEPT ![c].want = w, ![c].marks = l]
    BY <1>1
  <2> HIDE DEF t, l
  <2>6. bt' \in [Conns -> Btrees]
    BY ZenonT(60), <2>3, <2>5 DEF TypeOK, Btrees
  <2>7. cl' \in [Conns -> Clients]
    <3>1. [cl[c] EXCEPT !.want = w, !.marks = l] \in Clients
      BY <1>1, <2>2, <2>4 DEF Clients
    <3> QED BY <2>5, <3>1 DEF TypeOK
  <2>8. TypeOK'
    BY <1>1, <2>6, <2>7 DEF TypeOK
  <2> QED BY <2>1, <2>8, LockStepKeepsInv
<1>2. ASSUME NEW i \in Nat, ReleaseAborts(c, i, FALSE), NoFault
      PROVE  TypeOK' /\ LockInv'
  <2>1. /\ InTxn(c, {"WRITE"}) /\ i < Len(cl[c].marks)
        /\ UNCHANGED <<db, writer, faults>>
        /\ \E m \in 1..Len(bt[c].svp) :
             /\ bt' = [bt EXCEPT ![c].svp = Closed(@, m, FALSE)]
             /\ cl' = [cl EXCEPT ![c].want = @, ![c].marks = SubSeq(@, 1, i)]
    BY <1>2 DEF ReleaseAborts, NoFault
  <2>2. i <= Len(cl[c].marks) /\ cl[c].want \in DataSet
    <3>1. Len(cl[c].marks) \in Nat /\ cl[c].want \in DataSet
      BY LenProperties DEF TypeOK, Clients
    <3> QED BY <2>1, <3>1
  <2>3. PICK m \in 1..Len(bt[c].svp) :
             /\ bt' = [bt EXCEPT ![c].svp = Closed(@, m, FALSE)]
             /\ cl' = [cl EXCEPT ![c].want = cl[c].want, ![c].marks = SubSeq(@, 1, i)]
    BY <2>1
  <2> QED BY <1>1, <2>1, <2>2, <2>3
<1>3. CASE RollbackAllRefused(c)
  <2>1. /\ InTxn(c, {"WRITE"}) /\ UNCHANGED <<db, writer, faults>>
        /\ bt' = [bt EXCEPT ![c].svp = Closed(@, 1, FALSE)]
        /\ cl' = [cl EXCEPT ![c].want = bt[c].svp[1].view.data, ![c].marks = <<>>]
    BY <1>3 DEF RollbackAllRefused
  <2>2. /\ bt[c].svp \in Seq(Savepoints) /\ 1 \in 1..Len(bt[c].svp)
    BY <2>1, InTxnStack
  <2>3. bt[c].svp[1].view.data \in DataSet
    <3>1. bt[c].svp[1] \in Savepoints
      BY <2>2, ElementOfSeq
    <3> QED BY <3>1 DEF Savepoints, View
  <2>4. cl[c].marks \in Seq(DataSet) /\ Len(cl[c].marks) \in Nat
    BY LenProperties DEF TypeOK, Clients
  <2>5. SubSeq(cl[c].marks, 1, 0) = <<>> /\ 0 <= Len(cl[c].marks)
    BY <2>4
  <2>6. cl' = [cl EXCEPT ![c].want = bt[c].svp[1].view.data, ![c].marks = SubSeq(@, 1, 0)]
    BY <2>1, <2>5
  <2> QED BY <1>1, <2>1, <2>2, <2>3, <2>5, <2>6
<1>4. CASE Usable(c) /\ Wreck(c)
  <2>1. TypeOK'
    BY <1>4, InitialTypes
       DEF Wreck, TypeOK, Released, Btrees, ClosedBtree
  <2>2. LockStep(c)
    BY <1>4, LockGone DEF Wreck, ClosedBtree, TypeOK, Btrees
  <2> QED BY <2>1, <2>2, LockStepKeepsInv
<1> QED BY <1>2, <1>3, <1>4 DEF Diverted

-----------------------------------------------------------------------------
\* Every cursor makes a Move in every step, and the rest of the state takes a
\* step of LmdbBtree or a diverted one.
LEMMA CursorsMoved ==
  ASSUME CursorsTyped, NEW c \in Conns, CursorsMove(c)
  PROVE  /\ CursorsTyped'
         /\ \A d \in Conns, s \in Slots : Moves(cur'[d][s], cur[d][s])
<1>1. PICK new \in [Slots -> CursorRecs] :
         /\ cur' = [cur EXCEPT ![c] = new]
         /\ \A u \in Slots : Moves(new[u], cur[c][u])
  BY DEF CursorsMove
<1>2. CursorsTyped'
  BY <1>1 DEF CursorsTyped
<1>3. ASSUME NEW d \in Conns, NEW s \in Slots
      PROVE  Moves(cur'[d][s], cur[d][s])
  <2>1. CASE d = c
    BY <1>1, <2>1 DEF CursorsTyped
  <2>2. CASE d # c
    <3>1. cur'[d][s] = cur[d][s] /\ cur[d][s] \in CursorRecs
      BY <1>1, <2>2 DEF CursorsTyped
    <3> QED BY <3>1 DEF Moves
  <2> QED BY <2>1, <2>2
<1> QED BY <1>2, <1>3

CursorInv == TypeOK /\ LockInv /\ CursorsTyped

LEMMA CursorInvInit == CursorInit => CursorInv
BY InitInv, ZeroTyped DEF CursorInit, CursorInv, CursorsTyped

LEMMA CursorInvNext ==
  ASSUME CursorInv, [CursorNext]_cvars
  PROVE  /\ CursorInv'
         /\ \A c \in Conns, s \in Slots : Moves(cur'[c][s], cur[c][s])
         /\ Tidy /\ (\A c \in Conns, s \in Slots : Working(cur[c][s])) => [Next]_vars
<1>1. TypeOK /\ LockInv /\ CursorsTyped
  BY DEF CursorInv
<1>2. CASE UNCHANGED cvars
  <2>1. UNCHANGED vars /\ cur' = cur
    BY <1>2 DEF cvars, vars
  <2>2. TypeOK' /\ LockInv'
    BY <1>1, <2>1, TypeStep
  <2>3. ASSUME NEW c \in Conns, NEW s \in Slots PROVE Moves(cur'[c][s], cur[c][s])
    BY <1>1, <2>1 DEF CursorsTyped, Moves
  <2> QED BY <1>1, <2>1, <2>2, <2>3 DEF CursorInv, CursorsTyped
<1>3. ASSUME NEW c \in Conns, TxnStep(c) \/ \E s \in Slots : CursorStep(c, s)
      PROVE  /\ CursorInv'
             /\ \A d \in Conns, s \in Slots : Moves(cur'[d][s], cur[d][s])
             /\ Tidy /\ (\A d \in Conns, s \in Slots : Working(cur[d][s])) => [Next]_vars
  <2>1. /\ CursorsMove(c)
        /\ UNCHANGED vars \/ Step(c) \/ Diverted(c)
        /\ Tidy /\ (\A s \in Slots : Working(cur[c][s])) => UNCHANGED vars \/ Step(c)
    BY <1>1, <1>3, TxnStepMoves, TxnStepSteps, CursorStepMoves
  <2>2. UNCHANGED vars \/ Step(c) => [Next]_vars
    BY DEF Step, Next
  <2>3. TypeOK' /\ LockInv'
    BY <1>1, <2>1, <2>2, TypeStep, DivertedKeeps
  <2>4. /\ CursorsTyped'
        /\ \A d \in Conns, s \in Slots : Moves(cur'[d][s], cur[d][s])
    BY <1>1, <2>1, CursorsMoved
  <2> QED BY <2>1, <2>2, <2>3, <2>4 DEF CursorInv
<1> QED BY <1>2, <1>3 DEF CursorNext

\* The writer lock is held by exactly the connection with a live read/write
\* transaction, also when calls are made over cursors that cannot be saved or
\* are torn from their transaction: the abort of a release that
\* invalidateCursors turns into, and the death of a process that touches a
\* freed MDB_cursor, end the one with the other.
THEOREM CursorLockCorrect == CursorSpec => []LockMatchesTxn
<1>1. CursorInv /\ [CursorNext]_cvars => CursorInv'
  BY CursorInvNext
<1>2. CursorInv => LockMatchesTxn
  BY LockFollows DEF CursorInv
<1> QED BY CursorInvInit, <1>1, <1>2, PTL DEF CursorSpec

-----------------------------------------------------------------------------
\* The position of the cursors.
PlacedInv == CursorInv /\ \A c \in Conns, s \in Slots : Placed(cur[c][s])

LEMMA PlacedInit == CursorInit => PlacedInv
<1> SUFFICES ASSUME CursorInit, NEW c \in Conns, NEW s \in Slots
             PROVE  Placed(cur[c][s])
  BY CursorInvInit DEF PlacedInv
<1>1. cur[c][s] = ZeroCursor
  BY DEF CursorInit
<1> QED BY <1>1, ZeroTyped DEF Placed

LEMMA PlacedNext ==
  ASSUME Settled, PlacedInv, [CursorNext]_cvars
  PROVE  PlacedInv'
<1>1. CursorInv' /\ \A c \in Conns, s \in Slots : Moves(cur'[c][s], cur[c][s])
  BY CursorInvNext DEF PlacedInv
<1> QED BY <1>1 DEF PlacedInv, Moves

\* A scan neither skips a row nor sees one twice, for any set of rows, any
\* number of cursors, and whatever transactions, savepoints and writes through
\* other cursors come between two of its steps: every sqlite3BtreeNext and
\* sqlite3BtreePrevious goes to the neighbour of the row the caller was on,
\* however often invalidateCursors and restoreCursor have saved and reopened
\* the cursor in between.
THEOREM NeighbourCorrect ==
  ASSUME Settled
  PROVE  CursorSpec => []NextIsNeighbour
<1>1. PlacedInv /\ [CursorNext]_cvars => PlacedInv'
  BY PlacedNext
<1>2. PlacedInv => NextIsNeighbour
  BY DEF PlacedInv, Placed, NextIsNeighbour
<1> QED BY PlacedInit, <1>1, <1>2, PTL DEF CursorSpec

\* The rowid a cursor reports is that of the row the caller put it on as long
\* as the row is there: sqlite3BtreeIntegerKey, which reads savedKey without
\* restoring the cursor, agrees with the live cursor it stands for.
THEOREM OnItsRowCorrect ==
  ASSUME Settled
  PROVE  CursorSpec => []OnItsRow
<1>1. PlacedInv /\ [CursorNext]_cvars => PlacedInv'
  BY PlacedNext
<1>2. PlacedInv => OnItsRow
  <2> SUFFICES ASSUME PlacedInv, NEW c \in Conns, NEW s \in Slots,
                      cur[c][s].open, cur[c][s].trip = "OK",
                      cur[c][s].mark # NoKey, ~cur[c][s].eof,
                      cur[c][s].mark \in KeysIn(Data(c), cur[c][s].root)
               PROVE  IntegerKey(Data(c), cur[c][s]) = cur[c][s].mark
    BY DEF OnItsRow, CursorUse
  <2>1. cur[c][s] \in CursorRecs /\ Placed(cur[c][s])
    BY DEF PlacedInv, CursorInv, CursorsTyped
  <2>2. CASE cur[c][s].saved # NoKey
    BY <2>1, <2>2 DEF Placed, IntegerKey
  <2>3. CASE cur[c][s].saved = NoKey
    <3>1. cur[c][s].mark = cur[c][s].pos
      BY <2>1, <2>3 DEF Placed
    <3>2. Current(Data(c), cur[c][s]) = cur[c][s].pos
      BY <2>1, <3>1, CurrentType
    <3> QED BY <2>3, <3>1, <3>2 DEF IntegerKey
  <2> QED BY <2>2, <2>3
<1> QED BY PlacedInit, <1>1, <1>2, PTL DEF CursorSpec

-----------------------------------------------------------------------------
\* The transactions under the cursors.
WorkingInv == CursorInv /\ \A c \in Conns, s \in Slots : Working(cur[c][s])

LEMMA WorkingInit == CursorInit => WorkingInv
<1> SUFFICES ASSUME CursorInit, NEW c \in Conns, NEW s \in Slots
             PROVE  Working(cur[c][s])
  BY CursorInvInit DEF WorkingInv
<1>1. cur[c][s] = ZeroCursor
  BY DEF CursorInit
<1> QED BY <1>1, ZeroTyped DEF Working

LEMMA WorkingNext ==
  ASSUME Tidy, WorkingInv, [CursorNext]_cvars
  PROVE  WorkingInv' /\ [Next]_vars
<1>1. /\ CursorInv' /\ [Next]_vars
      /\ \A c \in Conns, s \in Slots : Moves(cur'[c][s], cur[c][s])
  BY CursorInvNext DEF WorkingInv
<1> QED BY <1>1 DEF WorkingInv, Moves

\* The backend with cursors implements the backend without: as long as cursors
\* are closed before their transaction is ended and each has a row when it is
\* saved, what the calls do to the transactions, the writer lock and the data
\* is what LmdbBtree says, so all that is proved of LmdbBtree holds with
\* cursors too.
THEOREM CursorsRefine ==
  ASSUME Tidy
  PROVE  CursorSpec => Spec
<1>1. CursorInit => Init
  BY DEF CursorInit
<1>2. WorkingInv /\ [CursorNext]_cvars => WorkingInv' /\ [Next]_vars
  BY WorkingNext
<1> QED BY WorkingInit, <1>1, <1>2, PTL DEF CursorSpec, Spec

\* No call hands LMDB a cursor whose transaction is over: every cursor of an
\* open connection is closed, saved or in a transaction that is there, through
\* upgrades, savepoints and crashes of other connections.
THEOREM NoDeadCorrect ==
  ASSUME Reliable, Tidy
  PROVE  CursorSpec => []NoDeadCursor
<1>1. WorkingInv /\ [CursorNext]_cvars => WorkingInv'
  BY WorkingNext
<1>2. Spec => []NoDanglingTxn
  BY HandlesCorrect
<1>3. CursorSpec => Spec
  BY CursorsRefine
<1>4. WorkingInv /\ NoDanglingTxn => NoDeadCursor
  BY DEF WorkingInv, Working, NoDanglingTxn, NoDeadCursor
<1> QED BY WorkingInit, <1>1, <1>2, <1>3, <1>4, PTL DEF CursorSpec

=============================================================================
