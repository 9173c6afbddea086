---------------------------- MODULE BdbTxnProofs ----------------------------
(***************************************************************************)
(* What BdbTxn promises, for any number of connections, tables, statements,*)
(* savepoints and faults.                                                  *)
(*                                                                         *)
(* The operators of the model take a Btree to what a call leaves of it.    *)
(* Each is shown to keep its shape (Sound) and to take no lock (Within);   *)
(* with the two places that take one this gives the types, the schema lock *)
(* and LocksInv: what one connection has written no other has read or      *)
(* written.  The properties of connections to which nothing happened that  *)
(* the code does not handle then rest on Tracks, which relates a Btree to  *)
(* what its caller may expect of it; what every connection has let go of   *)
(* when it is idle rests on Holds.                                         *)
(***************************************************************************)
EXTENDS BdbTxn, TLAPS

\* levels has one entry for pMainTxn and one for each of nSavepoint descendants,
\* which has the locks of those before it.
Shaped(b) ==
  /\ b \in Btrees
  /\ b.levels = <<>> => b.nSavepoint = 0 /\ b.dirty = NoWrites
  /\ b.levels # <<>> => Len(b.levels) = b.nSavepoint + 1
  /\ \A i, j \in 1..Len(b.levels) : i <= j => DOMAIN b.levels[i] \subseteq DOMAIN b.levels[j]
  /\ \A i \in 1..Len(b.levels) : DOMAIN b.levels[i] \subseteq DOMAIN b.dirty
  /\ \A e \in b.deleted : e.table # Master

\* The schema lock is that of pReadTxn, or that of a level and all after it.
SchemaInv(b) ==
  /\ b.schema.mode = "read" => b.schema.level = 0 /\ Master \in b.rd
  /\ b.schema.mode = "write" =>
       /\ b.schema.level \in 1..Len(b.levels) /\ Master \in DOMAIN b.dirty
       /\ \A i \in 1..Len(b.levels) :
            i > b.schema.level => Master \in DOMAIN b.levels[i]

Sound(b) == Shaped(b) /\ SchemaInv(b)

\* q holds no lock that b does not hold, and waits for nothing else.
Within(q, b) ==
  DOMAIN q.dirty \subseteq DOMAIN b.dirty /\ q.rd \subseteq b.rd /\ q.wait \in {b.wait, <<>>}

-----------------------------------------------------------------------------
\* What transactions write.
LEMMA NoWritesFact == NoWrites \in Writes /\ DOMAIN NoWrites = {}
<1>1. NoWrites \in [{} -> Contents]
  BY DEF NoWrites
<1> QED BY <1>1 DEF Writes, NoWrites

LEMMA WritesFact ==
  ASSUME NEW w \in Writes
  PROVE  /\ DOMAIN w \subseteq Tables
         /\ w = [t \in DOMAIN w |-> w[t]]
         /\ \A t \in DOMAIN w : w[t] \in Contents
         /\ DOMAIN w = {} => w = NoWrites
<1>1. PICK S \in SUBSET Tables : w \in [S -> Contents]
  BY DEF Writes
<1>2. DOMAIN w = S /\ w = [t \in S |-> w[t]]
  BY <1>1
<1> QED BY <1>1, <1>2 DEF NoWrites

LEMMA WritesMade ==
  ASSUME NEW S \in SUBSET Tables, NEW f, f = [t \in S |-> f[t]],
         \A t \in S : f[t] \in Contents
  PROVE  f \in Writes
<1>1. f \in [S -> Contents]
  OBVIOUS
<1> QED BY <1>1 DEF Writes

LEMMA WrittenFact ==
  ASSUME NEW w \in Writes, NEW t \in Tables, NEW x \in Contents
  PROVE  /\ Written(w, t, x) \in Writes
         /\ DOMAIN Written(w, t, x) = DOMAIN w \cup {t}
         /\ Written(w, t, x)[t] = x
         /\ \A u \in DOMAIN w \ {t} : Written(w, t, x)[u] = w[u]
<1> DEFINE f == Written(w, t, x)
<1>1. f = [u \in DOMAIN w \cup {t} |-> IF u = t THEN x ELSE w[u]]
  BY DEF Written
<1>2. /\ DOMAIN f = DOMAIN w \cup {t} /\ f[t] = x
      /\ \A u \in DOMAIN w \ {t} : f[u] = w[u]
      /\ f = [u \in DOMAIN w \cup {t} |-> f[u]]
  BY <1>1
<1>3. DOMAIN w \cup {t} \in SUBSET Tables /\ \A u \in DOMAIN w \cup {t} : f[u] \in Contents
  BY <1>2, WritesFact
<1> HIDE DEF f
<1>4. f \in Writes
  BY <1>2, <1>3, WritesMade
<1> QED BY <1>2, <1>4 DEF f

LEMMA ApplyFact ==
  ASSUME NEW w \in Writes, NEW d, d \in [Tables -> Contents]
  PROVE  /\ Apply(w, d) \in [Tables -> Contents]
         /\ \A t \in Tables : Apply(w, d)[t] = IF t \in DOMAIN w THEN w[t] ELSE d[t]
<1>1. DOMAIN w \subseteq Tables /\ \A t \in DOMAIN w : w[t] \in Contents
  BY WritesFact
<1>2. DOMAIN w \cup DOMAIN d = Tables
  BY <1>1
<1> QED BY <1>1, <1>2 DEF Apply

-----------------------------------------------------------------------------
\* Sequences: one prolonged by copies, and one cut short.
LEMMA Prolonged ==
  ASSUME NEW S, NEW s \in Seq(S), NEW k \in Nat, NEW w \in S,
         NEW q, q = s \o [i \in 1..k |-> w]
  PROVE  /\ q \in Seq(S) /\ Len(q) = Len(s) + k
         /\ \A i \in 1..Len(s) : q[i] = s[i]
         /\ \A i \in 1..Len(q) : i > Len(s) => q[i] = w
<1>1. [i \in 1..k |-> w] \in Seq(S) /\ Len([i \in 1..k |-> w]) = k
  OBVIOUS
<1> QED BY <1>1

LEMMA Shortened ==
  ASSUME NEW S, NEW s \in Seq(S), NEW n \in 0..Len(s), NEW q, q = SubSeq(s, 1, n)
  PROVE  /\ q \in Seq(S) /\ Len(q) = n
         /\ \A i \in 1..n : q[i] = s[i]
  OBVIOUS

-----------------------------------------------------------------------------
\* The parts of a Btree.
LEMMA Parts ==
  ASSUME NEW b \in Btrees
  PROVE  /\ b.nSavepoint \in Nat /\ b.levels \in Seq(Writes) /\ b.dirty \in Writes
         /\ b.rd \subseteq Tables /\ b.dead \subseteq Nat /\ Len(b.levels) \in Nat
         /\ \A i \in 1..Len(b.levels) : b.levels[i] \in Writes
         /\ b.levels = <<>> <=> Len(b.levels) = 0
  BY DEF Btrees

LEMMA IdleSound == Sound(IdleBtree) /\ IdleBtree.dirty = NoWrites /\ IdleBtree.rd = {}
<1>1. <<>> \in Seq(Writes) /\ Len(<<>>) = 0 /\ NoWrites \in Writes
  BY NoWritesFact
<1>2. IdleBtree \in Btrees
  BY <1>1 DEF IdleBtree, Btrees, NoSchemaLock, Modes
<1> QED BY <1>1, <1>2 DEF Sound, Shaped, SchemaInv, IdleBtree, NoSchemaLock

\* sqlite3BtreeBeginStmt.
LEMMA BeginStmtSound ==
  ASSUME NEW b, Sound(b), NEW n \in Nat
  PROVE  /\ Sound(BeginStmt(b, n)) /\ Within(BeginStmt(b, n), b)
         /\ BeginStmt(b, n).wait = b.wait
<1>t. b \in Btrees /\ b.dirty \in Writes /\ b.levels \in Seq(Writes) /\ b.nSavepoint \in Nat
  BY Parts DEF Sound, Shaped
<1> DEFINE more == IF b.nSavepoint <= n THEN n + 1 - b.nSavepoint ELSE 0
           main == IF b.levels = <<>> THEN 1 ELSE 0
           s == b.levels \o [i \in 1..(main + more) |-> b.dirty]
           q == [b EXCEPT !.read = TRUE, !.nSavepoint = @ + more, !.levels = s]
<1>1. more \in Nat /\ main \in Nat /\ main + more \in Nat
  BY <1>t
<1>2. /\ s \in Seq(Writes) /\ Len(s) = Len(b.levels) + (main + more)
      /\ \A i \in 1..Len(b.levels) : s[i] = b.levels[i]
      /\ \A i \in 1..Len(s) : i > Len(b.levels) => s[i] = b.dirty
  <2> DEFINE k == main + more
  <2>1. k \in Nat
    BY <1>1
  <2>2. s = b.levels \o [i \in 1..k |-> b.dirty]
    OBVIOUS
  <2> HIDE DEF k, s
  <2>3. /\ s \in Seq(Writes) /\ Len(s) = Len(b.levels) + k
        /\ \A i \in 1..Len(b.levels) : s[i] = b.levels[i]
        /\ \A i \in 1..Len(s) : i > Len(b.levels) => s[i] = b.dirty
    BY <1>t, <2>1, <2>2, Prolonged
  <2> QED BY <2>3 DEF k
<1>3. Len(s) = b.nSavepoint + more + 1
  <2>1. CASE b.levels = <<>>
    BY <1>1, <1>2, <1>t, <2>1 DEF Sound, Shaped
  <2>2. CASE b.levels # <<>>
    BY <1>1, <1>2, <1>t, <2>2 DEF Sound, Shaped
  <2> QED BY <2>1, <2>2
<1> HIDE DEF s, more, main
<1>4. q \in Btrees
  <2>1. b.nSavepoint + more \in Nat /\ s \in Seq(Writes)
    BY <1>t, <1>1, <1>2
  <2>2. q = [b EXCEPT !.read = TRUE, !.nSavepoint = b.nSavepoint + more, !.levels = s]
    OBVIOUS
  <2> HIDE DEF q
  <2> QED BY <1>t, <2>1, <2>2 DEF Btrees
<1>5. /\ q.levels = s /\ q.nSavepoint = b.nSavepoint + more /\ q.dirty = b.dirty
      /\ q.rd = b.rd /\ q.wait = b.wait /\ q.schema = b.schema /\ q.deleted = b.deleted
  BY <1>t DEF Btrees
<1> HIDE DEF q
<1>6. s # <<>>
  <2>1. Len(s) # 0
    BY <1>1, <1>3, <1>t
  <2> QED BY <2>1
<1>7. \A i, j \in 1..Len(s) : i <= j => DOMAIN s[i] \subseteq DOMAIN s[j]
  <2> SUFFICES ASSUME NEW i \in 1..Len(s), NEW j \in 1..Len(s), i <= j
               PROVE  DOMAIN s[i] \subseteq DOMAIN s[j]
    OBVIOUS
  <2>1. CASE j <= Len(b.levels)
    <3>1. i \in 1..Len(b.levels) /\ j \in 1..Len(b.levels)
      BY <1>t, <2>1
    <3> QED BY <1>2, <3>1 DEF Sound, Shaped
  <2>2. CASE j > Len(b.levels) /\ i <= Len(b.levels)
    <3>1. i \in 1..Len(b.levels)
      BY <1>t, <2>2
    <3> QED BY <1>2, <2>2, <3>1 DEF Sound, Shaped
  <2>3. CASE j > Len(b.levels) /\ i > Len(b.levels)
    BY <1>2, <2>3
  <2> QED BY <1>t, <2>1, <2>2, <2>3, Parts
<1>8. \A i \in 1..Len(s) : DOMAIN s[i] \subseteq DOMAIN b.dirty
  <2> SUFFICES ASSUME NEW i \in 1..Len(s) PROVE DOMAIN s[i] \subseteq DOMAIN b.dirty
    OBVIOUS
  <2>1. CASE i \in 1..Len(b.levels)
    BY <1>2, <2>1 DEF Sound, Shaped
  <2>2. CASE i > Len(b.levels)
    BY <1>2, <2>2
  <2> QED BY <1>t, <2>1, <2>2, Parts
<1>9. SchemaInv(q)
  <2> DEFINE k == main + more
  <2>k. k \in Nat /\ Len(s) = Len(b.levels) + k /\ Len(b.levels) \in Nat
    BY <1>1, <1>2, <1>t, Parts
  <2> HIDE DEF k
  <2>1. Len(s) >= Len(b.levels) /\ Len(s) \in Nat /\ Len(b.levels) \in Nat
    BY <2>k
  <2>2. ASSUME b.schema.mode = "write"
        PROVE  /\ b.schema.level \in 1..Len(s) /\ Master \in DOMAIN b.dirty
               /\ \A i \in 1..Len(s) : i > b.schema.level => Master \in DOMAIN s[i]
    <3>1. /\ b.schema.level \in 1..Len(b.levels) /\ Master \in DOMAIN b.dirty
          /\ \A i \in 1..Len(b.levels) : i > b.schema.level => Master \in DOMAIN b.levels[i]
      BY <2>2 DEF Sound, SchemaInv
    <3>2. ASSUME NEW i \in 1..Len(s), i > b.schema.level PROVE Master \in DOMAIN s[i]
      <4>1. CASE i \in 1..Len(b.levels)
        BY <1>2, <3>1, <3>2, <4>1
      <4>2. CASE i > Len(b.levels)
        BY <1>2, <3>1, <4>2
      <4> QED BY <2>1, <4>1, <4>2
    <3> QED BY <2>1, <3>1, <3>2
  <2> QED BY <1>5, <2>2 DEF Sound, SchemaInv
<1>10. Sound(q) /\ Within(q, b) /\ q.wait = b.wait
  BY <1>3, <1>4, <1>5, <1>6, <1>7, <1>8, <1>9 DEF Sound, Shaped, Within
<1>11. BeginStmt(b, n) \in {b, Wrecked(b), q}
  BY DEF BeginStmt, q, s, more, main
<1>12. Sound(Wrecked(b)) /\ Within(Wrecked(b), b) /\ Wrecked(b).wait = b.wait
  <2>1. Wrecked(b) \in Btrees
    BY <1>t DEF Wrecked, Btrees
  <2>2. /\ Wrecked(b).levels = b.levels /\ Wrecked(b).nSavepoint = b.nSavepoint
        /\ Wrecked(b).dirty = b.dirty /\ Wrecked(b).rd = b.rd /\ Wrecked(b).wait = b.wait
        /\ Wrecked(b).schema = b.schema /\ Wrecked(b).deleted = b.deleted
    BY <1>t DEF Wrecked, Btrees
  <2> QED BY <2>1, <2>2 DEF Sound, Shaped, SchemaInv, Within
<1>13. Within(b, b)
  BY DEF Within
<1> QED BY <1>10, <1>11, <1>12, <1>13

LEMMA SoundSame ==
  ASSUME NEW b, Sound(b), NEW q \in Btrees,
         q.levels = b.levels, q.nSavepoint = b.nSavepoint, q.dirty = b.dirty,
         q.rd = b.rd, q.schema = b.schema, q.deleted = b.deleted,
         q.wait \in {b.wait, <<>>}
  PROVE  Sound(q) /\ Within(q, b)
  BY DEF Sound, Shaped, SchemaInv, Within

LEMMA WithinTrans ==
  ASSUME NEW b, NEW q, NEW s, Within(q, b), Within(s, q)
  PROVE  Within(s, b)
  BY DEF Within

LEMMA WreckedSound ==
  ASSUME NEW b, Sound(b)
  PROVE  Sound(Wrecked(b)) /\ Within(Wrecked(b), b)
<1>t. b \in Btrees
  BY DEF Sound, Shaped
<1>1. Wrecked(b) \in Btrees
  BY <1>t DEF Wrecked, Btrees
<1>2. /\ Wrecked(b).levels = b.levels /\ Wrecked(b).nSavepoint = b.nSavepoint
      /\ Wrecked(b).dirty = b.dirty /\ Wrecked(b).rd = b.rd /\ Wrecked(b).wait = b.wait
      /\ Wrecked(b).schema = b.schema /\ Wrecked(b).deleted = b.deleted
  BY <1>t DEF Wrecked, Btrees
<1> QED BY <1>1, <1>2, SoundSame

\* What sqlite3BtreeBeginTrans makes of inTrans.
LEMMA ModeSound ==
  ASSUME NEW b, Sound(b), NEW m \in {"NONE", "READ", "WRITE"}
  PROVE  /\ Sound([b EXCEPT !.inTrans = m]) /\ Within([b EXCEPT !.inTrans = m], b)
         /\ [b EXCEPT !.inTrans = m].wait = b.wait
<1>t. b \in Btrees
  BY DEF Sound, Shaped
<1> DEFINE q == [b EXCEPT !.inTrans = m]
<1>1. q \in Btrees
  BY <1>t DEF Btrees
<1>2. /\ q.levels = b.levels /\ q.nSavepoint = b.nSavepoint /\ q.dirty = b.dirty
      /\ q.rd = b.rd /\ q.wait = b.wait /\ q.schema = b.schema /\ q.deleted = b.deleted
  BY <1>t DEF Btrees
<1> HIDE DEF q
<1>3. Sound(q) /\ Within(q, b) /\ q.wait = b.wait
  BY <1>1, <1>2, SoundSame
<1> QED BY <1>3 DEF q

LEMMA BeginTransSound ==
  ASSUME NEW b, Sound(b), NEW wrflag \in BOOLEAN, NEW n \in Nat
  PROVE  /\ Sound(BeginTrans(b, wrflag, n)) /\ Within(BeginTrans(b, wrflag, n), b)
         /\ BeginTrans(b, wrflag, n).wait = b.wait
<1> DEFINE m == IF wrflag THEN "WRITE" ELSE IF b.inTrans = "NONE" THEN "READ" ELSE b.inTrans
           t == [b EXCEPT !.inTrans = m]
<1>1. m \in {"NONE", "READ", "WRITE"}
  BY DEF Sound, Shaped, Btrees
<1> HIDE DEF m
<1>2. Sound(t) /\ Within(t, b) /\ t.wait = b.wait
  BY <1>1, ModeSound
<1> HIDE DEF t
<1>3. Sound(BeginStmt(t, n)) /\ Within(BeginStmt(t, n), t) /\ BeginStmt(t, n).wait = t.wait
  BY <1>2, BeginStmtSound
<1>4. BeginTrans(b, wrflag, n) \in {t, BeginStmt(t, n)}
  BY DEF BeginTrans, t, m
<1> QED BY <1>2, <1>3, <1>4, WithinTrans

LEMMA BeginTransFailedSound ==
  ASSUME NEW b, Sound(b), NEW wrflag \in BOOLEAN, NEW n \in Nat,
         NEW q \in BeginTransFailed(b, wrflag, n)
  PROVE  Sound(q) /\ Within(q, b) /\ q.wait = b.wait
<1> DEFINE k == IF wrflag THEN "WRITE" ELSE IF b.inTrans = "NONE" THEN "READ" ELSE b.inTrans
           t == [b EXCEPT !.inTrans = k]
           s == IF t.levels = <<>> THEN <<NoWrites>> ELSE t.levels
           m == [t EXCEPT !.levels = s]
           r(x) == [m EXCEPT !.read = TRUE, !.nSavepoint = @ + x,
                             !.levels = @ \o [i \in 1..x |-> b.dirty]]
<1>1. k \in {"NONE", "READ", "WRITE"} /\ k # "NONE"
  BY DEF Sound, Shaped, Btrees
<1>2. \/ q \in {t, m}
      \/ ~b.dangling /\ \E x \in 0..n : q = r(x)
  BY DEF BeginTransFailed
<1> HIDE DEF k
<1>3. Sound(t) /\ Within(t, b) /\ t.wait = b.wait
  BY <1>1, ModeSound
<1>d. t.dirty = b.dirty /\ t.inTrans = k /\ t.dangling = b.dangling
  BY DEF Sound, Shaped, Btrees
<1> HIDE DEF t
<1>4. t \in Btrees /\ t.levels \in Seq(Writes) /\ t.dirty \in Writes
  BY <1>3, Parts DEF Sound, Shaped
<1>5. /\ Sound(m) /\ Within(m, t) /\ m.wait = t.wait /\ m.levels # <<>>
      /\ m.dirty = t.dirty /\ m.inTrans = t.inTrans /\ m.dangling = t.dangling
  <2>1. CASE t.levels = <<>>
    <3>1. s \in Seq(Writes) /\ Len(s) = 1 /\ s[1] = NoWrites /\ s # <<>>
      BY <2>1, NoWritesFact
    <3> HIDE DEF s
    <3>2. m \in Btrees
      BY <1>4, <3>1 DEF Btrees
    <3>3. /\ m.levels = s /\ m.nSavepoint = t.nSavepoint /\ m.dirty = t.dirty
          /\ m.rd = t.rd /\ m.wait = t.wait /\ m.schema = t.schema /\ m.deleted = t.deleted
          /\ m.inTrans = t.inTrans /\ m.dangling = t.dangling
      BY <1>4 DEF Btrees
    <3> HIDE DEF m
    <3>4. t.nSavepoint = 0 /\ t.dirty = NoWrites /\ t.schema.mode # "write"
      <4>1. Len(t.levels) = 0
        BY <2>1
      <4> QED BY <1>3, <2>1, <4>1 DEF Sound, Shaped, SchemaInv
    <3>5. \A i \in 1..Len(s) : DOMAIN s[i] = {}
      BY <3>1, NoWritesFact
    <3>6. SchemaInv(m)
      BY <1>3, <3>3, <3>4 DEF Sound, SchemaInv
    <3>7. Len(s) = t.nSavepoint + 1
      BY <3>1, <3>4
    <3> QED BY <1>3, <3>1, <3>2, <3>3, <3>5, <3>6, <3>7 DEF Sound, Shaped, Within
  <2>2. CASE t.levels # <<>>
    <3>1. m = t
      BY <1>4, <2>2 DEF Btrees
    <3> HIDE DEF m
    <3> QED BY <1>3, <2>2, <3>1 DEF Within
  <2> QED BY <2>1, <2>2
<1>6. CASE q \in {t, m}
  <2> HIDE DEF m
  <2>1. Sound(m) /\ Within(m, b) /\ m.wait = b.wait
    BY <1>3, <1>5, WithinTrans
  <2> QED BY <1>3, <1>6, <2>1
<1>7. CASE ~b.dangling /\ \E x \in 0..n : q = r(x)
  <2>1. PICK x \in 0..n : q = r(x)
    BY <1>7
  <2>2. m \in Btrees /\ m.levels \in Seq(Writes) /\ m.nSavepoint \in Nat /\ m.dirty = b.dirty
    BY <1>5, <1>d, Parts DEF Sound, Shaped
  <2>i. m.inTrans # "NONE" /\ ~m.dangling
    BY <1>1, <1>5, <1>7, <1>d
  <2> HIDE DEF m
  <2>3. CASE x = 0
    <3> DEFINE y == [m EXCEPT !.read = TRUE]
    <3>1. y \in Btrees
      BY <2>2 DEF Btrees
    <3>2. /\ y.levels = m.levels /\ y.nSavepoint = m.nSavepoint /\ y.dirty = m.dirty
          /\ y.rd = m.rd /\ y.wait = m.wait /\ y.schema = m.schema /\ y.deleted = m.deleted
      BY <2>2 DEF Btrees
    <3>3. Sound(y) /\ Within(y, m)
      BY <1>5, <3>1, <3>2, SoundSame
    <3>4. q = y
      <4>1. m.levels \o [i \in 1..0 |-> b.dirty] = m.levels /\ m.nSavepoint + 0 = m.nSavepoint
        BY <2>2
      <4>2. q = [m EXCEPT !.read = TRUE, !.nSavepoint = m.nSavepoint, !.levels = m.levels]
        BY <2>1, <2>3, <4>1
      <4> QED BY <2>2, <4>2 DEF Btrees
    <3> QED BY <1>3, <1>5, <3>2, <3>3, <3>4, WithinTrans
  <2>4. CASE x > 0
    <3> DEFINE h == m.nSavepoint + x - 1
    <3>1. h \in Nat /\ m.nSavepoint <= h /\ h + 1 - m.nSavepoint = x /\ 0 + x = x
      BY <2>2, <2>4
    <3> HIDE DEF h
    <3>2. BeginStmt(m, h) = q
      <4>1. q = [m EXCEPT !.read = TRUE, !.nSavepoint = @ + x,
                          !.levels = @ \o [i \in 1..(0 + x) |-> m.dirty]]
        BY <2>1, <2>2, <3>1
      <4> QED BY <1>5, <2>i, <3>1, <4>1 DEF BeginStmt
    <3>3. Sound(q) /\ Within(q, m) /\ q.wait = m.wait
      BY <1>5, <3>1, <3>2, BeginStmtSound
    <3> QED BY <1>3, <1>5, <3>3, WithinTrans
  <2> QED BY <2>1, <2>3, <2>4
<1> QED BY <1>2, <1>6, <1>7

\* Entries of deleted_tables are dropped, or get another level.
LEMMA DeletedAfterFact ==
  ASSUME NEW b \in Btrees, NEW op, NEW level \in Nat, level > 0
  PROVE  /\ DeletedAfter(b, op, level) \in SUBSET [table : Tables, level : Nat]
         /\ \A e \in DeletedAfter(b, op, level) : \E f \in b.deleted : e.table = f.table
<1>1. b.deleted \in SUBSET [table : Tables, level : Nat]
  BY DEF Btrees
<1>2. level - 1 \in Nat
  OBVIOUS
<1>3. ASSUME NEW e \in b.deleted
      PROVE  /\ [e EXCEPT !.level = level - 1] \in [table : Tables, level : Nat]
             /\ [e EXCEPT !.level = level - 1].table = e.table
  BY <1>1, <1>2, <1>3
<1> QED BY <1>1, <1>3 DEF DeletedAfter

LEMMA SchemaAfterFact ==
  ASSUME NEW b \in Btrees, NEW level \in Nat
  PROVE  /\ SchemaAfter(b, level) \in [mode : Modes, level : Nat]
         /\ SchemaAfter(b, level) \in {b.schema, NoSchemaLock}
  BY DEF SchemaAfter, Btrees, NoSchemaLock, Modes

\* A rollback without a transaction to roll back.
LEMMA ReadAbortedSound ==
  ASSUME NEW b, Sound(b)
  PROVE  Sound(ReadAborted(b)) /\ Within(ReadAborted(b), b)
<1>t. b \in Btrees
  BY DEF Sound, Shaped
<1> DEFINE q == ReadAborted(b)
<1>1. /\ q = [b EXCEPT !.read = FALSE, !.rd = {}, !.dead = b.dead \ {0},
                       !.deleted = DeletedAfter(b, "rollback", 2),
                       !.schema = SchemaAfter(b, 0)]
  BY DEF ReadAborted
<1>2. /\ DeletedAfter(b, "rollback", 2) \in SUBSET [table : Tables, level : Nat]
      /\ \A e \in DeletedAfter(b, "rollback", 2) : \E f \in b.deleted : e.table = f.table
      /\ SchemaAfter(b, 0) \in [mode : Modes, level : Nat]
  BY <1>t, DeletedAfterFact, SchemaAfterFact
<1>3. q \in Btrees
  BY <1>t, <1>1, <1>2, ZenonT(60) DEF Btrees
<1>4. /\ q.levels = b.levels /\ q.nSavepoint = b.nSavepoint /\ q.dirty = b.dirty
      /\ q.rd = {} /\ q.wait = b.wait /\ q.schema = SchemaAfter(b, 0)
      /\ q.deleted = DeletedAfter(b, "rollback", 2)
  BY <1>t, <1>1 DEF Btrees
<1> HIDE DEF q
<1>5. SchemaInv(q)
  <2>1. CASE b.schema.mode = "write"
    <3>1. b.schema.level # 0
      BY <2>1 DEF Sound, SchemaInv
    <3>2. SchemaAfter(b, 0) = b.schema
      BY <3>1 DEF SchemaAfter
    <3> QED BY <1>4, <2>1, <3>2 DEF Sound, SchemaInv
  <2>2. CASE b.schema.mode # "write"
    <3>1. SchemaAfter(b, 0).mode = "none"
      BY <1>t, <2>2 DEF Sound, SchemaInv, SchemaAfter, NoSchemaLock, Btrees, Modes
    <3> QED BY <1>4, <3>1 DEF SchemaInv
  <2> QED BY <2>1, <2>2
<1>6. \A e \in q.deleted : e.table # Master
  BY <1>2, <1>4 DEF Sound, Shaped
<1>7. Sound(q) /\ Within(q, b)
  BY <1>3, <1>4, <1>5, <1>6 DEF Sound, Shaped, Within
<1> QED BY <1>7 DEF q

\* The end of a level and its descendants.
LEMMA LevelsEndedSound ==
  ASSUME NEW b, Sound(b), NEW op, NEW n \in Nat, NEW level \in 1..Len(b.levels),
         n = level - 2, level > 2
  PROVE  Sound(LevelsEnded(b, op, level, n)) /\ Within(LevelsEnded(b, op, level, n), b)
<1>t. /\ b \in Btrees /\ b.levels \in Seq(Writes) /\ b.dirty \in Writes /\ level \in Nat
      /\ b.levels[level] \in Writes /\ b.dead \subseteq Nat /\ Len(b.levels) \in Nat
  BY Parts DEF Sound, Shaped
<1> DEFINE s == SubSeq(b.levels, 1, level - 1)
           w == IF op = "rollback" \/ (\E l \in b.dead : l >= level) THEN b.levels[level]
                ELSE b.dirty
           d == {l \in b.dead : l < level}
           e == DeletedAfter(b, op, level)
           m == SchemaAfter(b, level)
           x == ~(b.inTrans = "WRITE" /\ b.read)
           q == LevelsEnded(b, op, level, n)
<1>1. q = [b EXCEPT !.nSavepoint = n, !.levels = s, !.dirty = w, !.dead = d,
                    !.deleted = e, !.schema = m, !.dangling = x]
  BY DEF LevelsEnded
<1>2. /\ s \in Seq(Writes) /\ Len(s) = level - 1
      /\ \A i \in 1..Len(s) : i \in 1..Len(b.levels) /\ s[i] = b.levels[i] /\ i < level
  <2>1. level - 1 \in 0..Len(b.levels)
    BY <1>t
  <2>2. /\ s \in Seq(Writes) /\ Len(s) = level - 1
        /\ \A i \in 1..(level - 1) : s[i] = b.levels[i]
    BY <1>t, <2>1, Shortened
  <2> QED BY <1>t, <2>2
<1>3. w \in Writes /\ d \in SUBSET Nat /\ x \in BOOLEAN
  BY <1>t DEF Btrees
<1>4. /\ e \in SUBSET [table : Tables, level : Nat]
      /\ \A f \in e : \E g \in b.deleted : f.table = g.table
      /\ m \in [mode : Modes, level : Nat] /\ m \in {b.schema, NoSchemaLock}
  BY <1>t, DeletedAfterFact, SchemaAfterFact, SMTT(30)
<1>5. /\ DOMAIN w \subseteq DOMAIN b.dirty
      /\ \A i \in 1..Len(s) : DOMAIN s[i] \subseteq DOMAIN w
      /\ \A i, j \in 1..Len(s) : i <= j => DOMAIN s[i] \subseteq DOMAIN s[j]
  <2>1. ASSUME NEW i \in 1..Len(s) PROVE DOMAIN s[i] \subseteq DOMAIN b.levels[level]
    <3>1. i \in 1..Len(b.levels) /\ s[i] = b.levels[i] /\ i <= level
      BY <1>2, <1>t
    <3> QED BY <3>1 DEF Sound, Shaped
  <2>2. \A i \in 1..Len(s) : DOMAIN s[i] \subseteq DOMAIN b.dirty
    BY <1>2 DEF Sound, Shaped
  <2>3. \A i, j \in 1..Len(s) : i <= j => DOMAIN s[i] \subseteq DOMAIN s[j]
    BY <1>2 DEF Sound, Shaped
  <2>4. DOMAIN b.levels[level] \subseteq DOMAIN b.dirty
    BY DEF Sound, Shaped
  <2> QED BY <2>1, <2>2, <2>3, <2>4
<1>6. m.mode = "write" => /\ m.level \in 1..Len(s) /\ Master \in DOMAIN w
                          /\ \A i \in 1..Len(s) : i > m.level => Master \in DOMAIN s[i]
  <2> SUFFICES ASSUME m.mode = "write"
               PROVE  /\ m.level \in 1..Len(s) /\ Master \in DOMAIN w
                      /\ \A i \in 1..Len(s) : i > m.level => Master \in DOMAIN s[i]
    OBVIOUS
  <2>1. m = b.schema /\ ~(b.schema.level >= level)
    BY <1>t DEF SchemaAfter, NoSchemaLock
  <2>2. /\ m.level \in 1..Len(b.levels) /\ Master \in DOMAIN b.dirty
        /\ \A i \in 1..Len(b.levels) : i > m.level => Master \in DOMAIN b.levels[i]
    BY <2>1 DEF Sound, SchemaInv
  <2>3. m.level < level /\ m.level \in 1..Len(s)
    BY <1>2, <1>t, <2>1, <2>2
  <2> HIDE DEF s, m
  <2>4. Master \in DOMAIN w
    BY <1>t, <2>2, <2>3
  <2> QED BY <1>2, <2>2, <2>3, <2>4
<1>7. m.mode = "read" => m.level = 0 /\ Master \in b.rd
  BY <1>4 DEF Sound, SchemaInv, NoSchemaLock
<1>8. s # <<>> /\ Len(s) = n + 1
  <2>1. Len(s) = n + 1 /\ Len(s) # 0
    BY <1>2, <1>t
  <2> QED BY <2>1
<1> HIDE DEF s, w, d, e, m, x, q
<1>9. q \in Btrees
  BY <1>t, <1>1, <1>2, <1>3, <1>4 DEF Btrees
<1>10. /\ q.levels = s /\ q.nSavepoint = n /\ q.dirty = w /\ q.rd = b.rd /\ q.wait = b.wait
       /\ q.schema = m /\ q.deleted = e
  BY <1>t, <1>1 DEF Btrees
<1>11. \A f \in e : f.table # Master
  BY <1>4 DEF Sound, Shaped
<1>12. Sound(q) /\ Within(q, b)
  BY <1>5, <1>6, <1>7, <1>8, <1>9, <1>10, <1>11 DEF Sound, Shaped, SchemaInv, Within
<1> QED BY <1>12 DEF q

\* The transaction of savepoint i, when it has one.
LEMMA SavepointCases ==
  ASSUME NEW b, Sound(b), NEW op, NEW i \in Nat
  PROVE  \/ AbortsRead(b, op, i) /\ BtreeSavepoint(b, op, i) = ReadAborted(b)
         \/ /\ ~AbortsRead(b, op, i) /\ (b.levels = <<>> \/ i + 2 > b.nSavepoint)
            /\ BtreeSavepoint(b, op, i) = b
         \/ /\ ~AbortsRead(b, op, i) /\ BtreeSavepoint(b, op, i) = Wrecked(b)
            /\ b.dangling \/ (op = "rollback" /\ b.inTrans = "READ")
         \/ /\ ~AbortsRead(b, op, i) /\ ~b.dangling /\ b.levels # <<>>
            /\ i + 2 <= b.nSavepoint /\ i + 3 \in 1..Len(b.levels)
            /\ BtreeSavepoint(b, op, i) = LevelsEnded(b, op, i + 3, i + 1)
<1>t. b.nSavepoint \in Nat /\ b \in Btrees
  BY Parts DEF Sound, Shaped
<1>1. CASE AbortsRead(b, op, i)
  BY <1>1 DEF BtreeSavepoint
<1>2. CASE ~AbortsRead(b, op, i) /\ (b.levels = <<>> \/ i + 2 > b.nSavepoint)
  BY <1>2 DEF BtreeSavepoint
<1>3. CASE ~AbortsRead(b, op, i) /\ b.levels # <<>> /\ ~(i + 2 > b.nSavepoint)
  <2>1. \/ op = "rollback" /\ b.inTrans = "READ" /\ BtreeSavepoint(b, op, i) = Wrecked(b)
        \/ BtreeSavepoint(b, op, i) = ChainEnded(b, op, i)
    BY <1>3 DEF BtreeSavepoint
  <2>2. i + 2 <= b.nSavepoint /\ i + 3 \in 1..Len(b.levels)
    BY <1>3, <1>t DEF Sound, Shaped
  <2> QED BY <1>3, <2>1, <2>2 DEF ChainEnded
<1> QED BY <1>1, <1>2, <1>3

LEMMA SavepointSound ==
  ASSUME NEW b, Sound(b), NEW op, NEW i \in Nat
  PROVE  Sound(BtreeSavepoint(b, op, i)) /\ Within(BtreeSavepoint(b, op, i), b)
<1>1. CASE BtreeSavepoint(b, op, i) = ReadAborted(b)
  BY <1>1, ReadAbortedSound
<1>2. CASE BtreeSavepoint(b, op, i) = b
  BY <1>2 DEF Within
<1>3. CASE BtreeSavepoint(b, op, i) = Wrecked(b)
  BY <1>3, WreckedSound
<1>4. CASE /\ i + 3 \in 1..Len(b.levels)
           /\ BtreeSavepoint(b, op, i) = LevelsEnded(b, op, i + 3, i + 1)
  <2>1. i + 1 \in Nat /\ i + 1 = (i + 3) - 2 /\ i + 3 > 2
    OBVIOUS
  <2> QED BY <1>4, <2>1, LevelsEndedSound
<1> QED BY <1>1, <1>2, <1>3, <1>4, SavepointCases

\* sqlite3BtreeRollback.
LEMMA RollbackCases ==
  ASSUME NEW b
  PROVE  \/ /\ b.levels = <<>> \/ (~b.read /\ b.nSavepoint = 0)
            /\ Rollback(b) = [b EXCEPT !.schema = NoSchemaLock]
         \/ b.levels # <<>> /\ b.dangling /\ Rollback(b) = Wrecked(b)
         \/ /\ b.levels # <<>>
            /\ Rollback(b) = [IdleBtree EXCEPT !.deleted = IF b.inTrans = "WRITE" THEN {}
                                                           ELSE b.deleted]
<1> DEFINE Missed == b.levels = <<>> \/ (~b.read /\ b.nSavepoint = 0)
<1>1. CASE Missed
  BY <1>1 DEF Rollback
<1>2. CASE ~Missed /\ b.dangling /\ b.inTrans = "WRITE" /\ b.deleted # {}
  BY <1>2 DEF Rollback
<1>3. CASE ~Missed /\ ~(b.dangling /\ b.inTrans = "WRITE" /\ b.deleted # {})
  BY <1>3 DEF Rollback
<1> QED BY <1>1, <1>2, <1>3

LEMMA UnlockedSound ==
  ASSUME NEW b, Sound(b)
  PROVE  /\ Sound([b EXCEPT !.schema = NoSchemaLock])
         /\ Within([b EXCEPT !.schema = NoSchemaLock], b)
<1> DEFINE q == [b EXCEPT !.schema = NoSchemaLock]
<1>t. b \in Btrees
  BY DEF Sound, Shaped
<1>1. q \in Btrees
  BY <1>t DEF Btrees, NoSchemaLock, Modes
<1>2. /\ q.levels = b.levels /\ q.nSavepoint = b.nSavepoint /\ q.dirty = b.dirty
      /\ q.rd = b.rd /\ q.wait = b.wait /\ q.schema = NoSchemaLock /\ q.deleted = b.deleted
  BY <1>t DEF Btrees
<1> HIDE DEF q
<1>3. Sound(q) /\ Within(q, b)
  BY <1>1, <1>2 DEF Sound, Shaped, SchemaInv, Within, NoSchemaLock
<1> QED BY <1>3 DEF q

LEMMA RollbackSound ==
  ASSUME NEW b, Sound(b)
  PROVE  Sound(Rollback(b)) /\ Within(Rollback(b), b)
<1>1. CASE Rollback(b) = [b EXCEPT !.schema = NoSchemaLock]
  BY <1>1, UnlockedSound
<1>2. CASE Rollback(b) = Wrecked(b)
  BY <1>2, WreckedSound
<1>3. CASE Rollback(b) = [IdleBtree EXCEPT !.deleted = IF b.inTrans = "WRITE" THEN {}
                                                       ELSE b.deleted]
  <2> DEFINE d == IF b.inTrans = "WRITE" THEN {} ELSE b.deleted
             q == [IdleBtree EXCEPT !.deleted = d]
  <2>1. d \in SUBSET [table : Tables, level : Nat] /\ \A e \in d : e.table # Master
    BY DEF Sound, Shaped, Btrees
  <2>2. IdleBtree \in Btrees
    BY IdleSound DEF Sound, Shaped
  <2> HIDE DEF d
  <2>3. q \in Btrees
    BY <2>1, <2>2 DEF Btrees
  <2>4. /\ q.levels = <<>> /\ q.nSavepoint = 0 /\ q.dirty = NoWrites /\ q.rd = {}
        /\ q.wait = <<>> /\ q.schema = NoSchemaLock /\ q.deleted = d
    BY DEF IdleBtree
  <2> HIDE DEF q
  <2>5. Sound(q) /\ Within(q, b)
    BY <2>1, <2>3, <2>4, NoWritesFact DEF Sound, Shaped, SchemaInv, NoSchemaLock, Within
  <2> QED BY <1>3, <2>5 DEF q, d
<1> QED BY <1>1, <1>2, <1>3, RollbackCases

\* sqlite3BtreeCommitPhaseTwo.
LEMMA CommitSound ==
  ASSUME NEW b, Sound(b), NEW n \in Nat
  PROVE  Sound(CommitPhaseTwo(b, n)) /\ Within(CommitPhaseTwo(b, n), b)
<1> DEFINE r == IF ~Ends(b, n) /\ b.inTrans = "WRITE" THEN BtreeSavepoint(b, "release", 0)
                ELSE b
<1>1. Sound(r) /\ Within(r, b)
  BY SavepointSound DEF Within
<1>2. CASE CommitPhaseTwo(b, n) = IdleBtree
  BY <1>2, IdleSound, NoWritesFact DEF Within, IdleBtree
<1>3. CASE CommitPhaseTwo(b, n) = [r EXCEPT !.inTrans = "READ"]
  <2> HIDE DEF r
  <2>1. Sound([r EXCEPT !.inTrans = "READ"]) /\ Within([r EXCEPT !.inTrans = "READ"], r)
    BY <1>1, ModeSound
  <2> QED BY <1>1, <1>3, <2>1, WithinTrans
<1>4. CASE CommitPhaseTwo(b, n) = [r EXCEPT !.inTrans = "NONE", !.schema = NoSchemaLock]
  <2> HIDE DEF r
  <2> DEFINE q == [r EXCEPT !.inTrans = "NONE"]
  <2>1. Sound(q) /\ Within(q, r)
    BY <1>1, ModeSound
  <2>2. [r EXCEPT !.inTrans = "NONE", !.schema = NoSchemaLock]
          = [q EXCEPT !.schema = NoSchemaLock]
    BY <1>1 DEF Sound, Shaped, Btrees
  <2> HIDE DEF q
  <2>3. /\ Sound([q EXCEPT !.schema = NoSchemaLock])
        /\ Within([q EXCEPT !.schema = NoSchemaLock], q)
    BY <2>1, UnlockedSound
  <2> QED BY <1>1, <1>4, <2>1, <2>2, <2>3, WithinTrans
<1>5. \/ CommitPhaseTwo(b, n) = IdleBtree
      \/ CommitPhaseTwo(b, n) = [r EXCEPT !.inTrans = "READ"]
      \/ CommitPhaseTwo(b, n) = [r EXCEPT !.inTrans = "NONE", !.schema = NoSchemaLock]
  BY DEF CommitPhaseTwo
<1> QED BY <1>2, <1>3, <1>4, <1>5

-----------------------------------------------------------------------------
\* There is a mark for each savepoint and one for a statement transaction; who
\* waits, writes or has failed runs a statement.
Asked(b, r) ==
  /\ r \in Clients
  /\ Len(r.marks) = r.nsav + (IF r.journal THEN 1 ELSE 0)
  /\ r.journal => r.writing
  /\ r.writing \/ r.failed \/ b.wait # <<>> => r.nread > 0

StateInv == \A c \in Conns : Sound(con[c]) /\ Asked(con[c], cl[c])

\* What one connection has written no other has written or read.
LocksInv ==
  \A c, o \in Conns :
    c # o => DOMAIN con[c].dirty \cap (DOMAIN con[o].dirty \cup con[o].rd) = {}

Base == BdbTypeOK /\ StateInv /\ LocksInv

\* The locks of b, if it is the Btree of c, are compatible with all others.
Compatible(c, b) ==
  \A o \in Conns \ {c} : /\ DOMAIN b.dirty \cap (DOMAIN con[o].dirty \cup con[o].rd) = {}
                         /\ b.rd \cap DOMAIN con[o].dirty = {}

ConnStep(c, b, r) ==
  /\ Sound(b) /\ Asked(b, r) /\ Compatible(c, b)
  /\ con' = [con EXCEPT ![c] = b] /\ cl' = [cl EXCEPT ![c] = r]
  /\ db' \in [Tables -> Contents] /\ faults' \in 0..MaxFaults

LEMMA ConnStepBase ==
  ASSUME Base, NEW c \in Conns, NEW b, NEW r, ConnStep(c, b, r)
  PROVE  Base'
<1>t. con \in [Conns -> Btrees] /\ cl \in [Conns -> Clients]
  BY DEF Base, BdbTypeOK
<1>1. /\ con' = [con EXCEPT ![c] = b] /\ cl' = [cl EXCEPT ![c] = r]
      /\ b \in Btrees /\ r \in Clients
  BY DEF ConnStep, Sound, Shaped, Asked
<1>2. /\ con' \in [Conns -> Btrees] /\ cl' \in [Conns -> Clients]
      /\ con'[c] = b /\ cl'[c] = r
      /\ \A o \in Conns \ {c} : con'[o] = con[o] /\ cl'[o] = cl[o]
  BY <1>t, <1>1
<1>3. StateInv'
  BY <1>2 DEF Base, StateInv, ConnStep
<1>4. LocksInv'
  BY <1>2 DEF Base, LocksInv, ConnStep, Compatible
<1> QED BY <1>2, <1>3, <1>4 DEF Base, BdbTypeOK, ConnStep

LEMMA WithinCompatible ==
  ASSUME Base, NEW c \in Conns, NEW b, Within(b, con[c])
  PROVE  Compatible(c, b)
  BY DEF Base, LocksInv, Compatible, Within

\* What is known of a connection and its caller.
LEMMA ConnFacts ==
  ASSUME Base, NEW c \in Conns
  PROVE  /\ con[c] \in Btrees /\ Sound(con[c]) /\ cl[c] \in Clients
         /\ Asked(con[c], cl[c]) /\ Within(con[c], con[c]) /\ Compatible(c, con[c])
         /\ con = [con EXCEPT ![c] = con[c]] /\ cl = [cl EXCEPT ![c] = cl[c]]
         /\ db \in [Tables -> Contents] /\ faults \in 0..MaxFaults
         /\ cl[c].nread \in Nat /\ cl[c].nsav \in Nat /\ cl[c].calls \in Nat
         /\ cl[c].marks \in Seq(Writes) /\ cl[c].want \in Writes /\ cl[c].seen \in Writes
         /\ cl[c].nread \in Nat /\ cl[c].nsav \in 0..MaxSavepoint
         /\ MaxSavepoint \in Nat /\ MaxFaults \in Nat
<1>1. con \in [Conns -> Btrees] /\ cl \in [Conns -> Clients]
  BY DEF Base, BdbTypeOK
<1>2. Within(con[c], con[c])
  BY DEF Within
<1>3. cl[c] \in Clients
  BY <1>1
<1>4. MaxSavepoint \in Nat /\ MaxFaults \in Nat
  BY BdbAssumption
<1>5. /\ cl[c].nread \in Nat /\ cl[c].nsav \in Nat /\ cl[c].calls \in Nat
      /\ cl[c].marks \in Seq(Writes) /\ cl[c].want \in Writes /\ cl[c].seen \in Writes
      /\ cl[c].nread \in Nat /\ cl[c].nsav \in 0..MaxSavepoint
  BY <1>3, <1>4 DEF Clients
<1> QED BY <1>1, <1>2, <1>3, <1>4, <1>5, WithinCompatible DEF Base, BdbTypeOK, StateInv

LEMMA FaultFact ==
  ASSUME Base, Fault
  PROVE  faults' \in 0..MaxFaults
  BY BdbAssumption DEF Base, BdbTypeOK, Fault

\* A caller that has made one call more.
LEMMA CalledFact ==
  ASSUME NEW r \in Clients, NEW s, s = [r EXCEPT !.calls = @ + 1]
  PROVE  /\ s \in Clients
         /\ s.auto = r.auto /\ s.nread = r.nread /\ s.writing = r.writing
         /\ s.journal = r.journal /\ s.failed = r.failed /\ s.nsav = r.nsav
         /\ s.want = r.want /\ s.marks = r.marks /\ s.seen = r.seen /\ s.odd = r.odd
<1>1. r.calls + 1 \in Nat
  BY DEF Clients
<1> QED BY <1>1 DEF Clients

LEMMA OverFields ==
  ASSUME NEW r \in Clients, NEW b, NEW n \in Nat, NEW s, s = Over(r, b, n)
  PROVE  /\ s \in Clients /\ s.nread = n /\ s.auto /\ ~s.writing /\ ~s.journal
         /\ ~s.failed /\ s.nsav = 0 /\ s.want = NoWrites /\ s.marks = <<>>
         /\ s.seen = NoWrites
<1>1. MaxSavepoint \in Nat /\ NoWrites \in Writes /\ <<>> \in Seq(Writes)
  BY BdbAssumption, NoWritesFact
<1> DEFINE o == IF n = 0 /\ b = IdleBtree THEN {}
                ELSE IF b.deleted = {} THEN r.odd ELSE r.odd \cup {"forgotten"}
<1>2. o \in SUBSET Oddities /\ r.calls \in Nat
  BY DEF Clients, Oddities
<1>3. s = [auto |-> TRUE, nread |-> n, writing |-> FALSE, journal |-> FALSE,
           failed |-> FALSE, nsav |-> 0, want |-> NoWrites, marks |-> <<>>,
           seen |-> NoWrites, odd |-> o, calls |-> r.calls]
  BY DEF Over, IdleClient
<1>4. 0 \in 0..MaxSavepoint
  BY <1>1
<1> HIDE DEF o
<1>5. s \in Clients
  BY <1>1, <1>2, <1>3, <1>4 DEF Clients
<1> QED BY <1>3, <1>5

LEMMA OverOdd ==
  ASSUME NEW r \in Clients, NEW b, NEW n
  PROVE  Over(r, b, n).odd = IF n = 0 /\ b = IdleBtree THEN {}
                             ELSE IF b.deleted = {} THEN r.odd
                             ELSE r.odd \cup {"forgotten"}
  BY DEF Over, IdleClient

LEMMA OverAsked ==
  ASSUME NEW r \in Clients, NEW b, NEW e, NEW n \in Nat, b.wait = <<>>
  PROVE  Asked(b, Over(r, e, n))
<1> DEFINE s == Over(r, e, n)
<1>1. /\ s \in Clients /\ ~s.writing /\ ~s.journal /\ ~s.failed
      /\ s.nsav = 0 /\ s.marks = <<>>
  BY OverFields
<1> HIDE DEF s
<1>2. Len(s.marks) = 0 /\ Asked(b, s)
  BY <1>1 DEF Asked
<1> QED BY <1>2 DEF s

\* One statement less runs.
LEMMA FewerFact ==
  ASSUME NEW r \in Clients, r.nread > 0
  PROVE  r.nread - 1 \in Nat
  BY BdbAssumption DEF Clients

LEMMA StmtOverFact ==
  ASSUME NEW r \in Clients, r.nread > 0, NEW m \in Seq(Writes), NEW s, s = StmtOver(r, m)
  PROVE  /\ s \in Clients /\ s.nread = r.nread - 1 /\ s.auto = r.auto /\ ~s.writing
         /\ ~s.journal /\ ~s.failed /\ s.nsav = r.nsav /\ s.want = r.want /\ s.marks = m
         /\ s.seen = r.seen /\ s.odd = r.odd
<1>1. r.nread - 1 \in Nat
  BY FewerFact
<1> QED BY <1>1 DEF StmtOver, Clients

LEMMA OddsFact ==
  ASSUME NEW b, NEW op, NEW i
  PROVE  Dangling(b) \in SUBSET Oddities /\ OddAfter(b, op, i) \in SUBSET Oddities
<1>1. \A x : Dangling(x) \in SUBSET Oddities
  BY DEF Dangling, Oddities
<1>2. Dangling(BtreeSavepoint(b, op, i)) \in SUBSET Oddities
  BY <1>1
<1> QED BY <1>1, <1>2 DEF OddAfter, Oddities

LEMMA AnsweredFact ==
  ASSUME NEW r \in Clients, NEW b, NEW s, s = Answered(r, b)
  PROVE  /\ s \in Clients /\ s.nread = r.nread /\ s.auto /\ s.writing = r.writing
         /\ s.journal = r.journal /\ s.failed = r.failed /\ s.nsav = 0 /\ s.marks = <<>>
         /\ s.want = r.want /\ s.seen = r.seen
         /\ s.odd = r.odd \cup {"reading"} \cup Dangling(b)
<1>1. 0 \in 0..MaxSavepoint /\ <<>> \in Seq(Writes)
  BY BdbAssumption
<1> DEFINE o == Dangling(b)
<1>o. o \in SUBSET Oddities /\ s = [r EXCEPT !.auto = TRUE, !.nsav = 0, !.marks = <<>>,
                                       !.odd = r.odd \cup {"reading"} \cup o]
  BY OddsFact DEF Answered
<1> HIDE DEF o
<1>2. r.odd \cup {"reading"} \cup o \in SUBSET Oddities
  BY <1>o DEF Clients, Oddities
<1>3. s \in Clients
  BY <1>1, <1>2, <1>o DEF Clients
<1>4. /\ s.nread = r.nread /\ s.auto /\ s.writing = r.writing
      /\ s.journal = r.journal /\ s.failed = r.failed /\ s.nsav = 0 /\ s.marks = <<>>
      /\ s.want = r.want /\ s.seen = r.seen /\ s.odd = r.odd \cup {"reading"} \cup o
  BY <1>o DEF Clients
<1> QED BY <1>3, <1>4 DEF o

\* The committed tables after a commit.
LEMMA RemovedFact ==
  ASSUME NEW d, d \in [Tables -> Contents], NEW S, S \in SUBSET [table : Tables, level : Nat]
  PROVE  /\ Removed(d, S) \in [Tables -> Contents]
         /\ \A t \in Tables :
              /\ Removed(d, S)[t].val = d[t].val
              /\ (\A e \in S : e.table # t) => Removed(d, S)[t] = d[t]
<1>1. ASSUME NEW t \in Tables
      PROVE  [d[t] EXCEPT !.old = FALSE] \in Contents
             /\ [d[t] EXCEPT !.old = FALSE].val = d[t].val /\ d[t] \in Contents
  BY DEF Contents
<1> QED BY <1>1 DEF Removed

LEMMA PublishedFact ==
  ASSUME db \in [Tables -> Contents], NEW b, Sound(b), NEW n
  PROVE  /\ Published(b, n) \in [Tables -> Contents]
         /\ \A t \in Tables \ DOMAIN b.dirty :
              /\ Published(b, n)[t].val = db[t].val
              /\ t = Master => Published(b, n)[t] = db[t]
<1>1. b.dirty \in Writes /\ b.deleted \in SUBSET [table : Tables, level : Nat]
  BY DEF Sound, Shaped, Btrees
<1> DEFINE d == Apply(b.dirty, db)
<1>2. /\ d \in [Tables -> Contents]
      /\ \A t \in Tables : d[t] = IF t \in DOMAIN b.dirty THEN b.dirty[t] ELSE db[t]
  BY <1>1, ApplyFact
<1>3. Published(b, n) \in {db, Removed(d, b.deleted)}
  BY DEF Published
<1> HIDE DEF d
<1>4. /\ Removed(d, b.deleted) \in [Tables -> Contents]
      /\ \A t \in Tables :
           /\ Removed(d, b.deleted)[t].val = d[t].val
           /\ (\A e \in b.deleted : e.table # t) => Removed(d, b.deleted)[t] = d[t]
  BY <1>1, <1>2, RemovedFact
<1>5. \A e \in b.deleted : e.table # Master
  BY DEF Sound, Shaped
<1> QED BY <1>2, <1>3, <1>4, <1>5

-----------------------------------------------------------------------------
\* A step of one connection that keeps its Btree sound, and its locks compatible.
LEMMA OneStep ==
  ASSUME Base, NEW c \in Conns, NEW b, NEW r, Sound(b), Asked(b, r), Compatible(c, b),
         SetCon(c, b), SetCl(c, r), db' \in [Tables -> Contents], faults' \in 0..MaxFaults
  PROVE  Base'
<1>1. ConnStep(c, b, r)
  BY DEF ConnStep, SetCon, SetCl
<1> QED BY <1>1, ConnStepBase

\* One that takes no lock.
LEMMA NoLockStep ==
  ASSUME Base, NEW c \in Conns, NEW b, NEW r, Sound(b), Asked(b, r), Within(b, con[c]),
         SetCon(c, b), SetCl(c, r), db' \in [Tables -> Contents], faults' \in 0..MaxFaults
  PROVE  Base'
  BY WithinCompatible, OneStep

LEMMA SoundWait ==
  ASSUME NEW b, Sound(b), NEW w \in (Tables \X {"read", "write"}) \cup {<<>>}
  PROVE  /\ Sound([b EXCEPT !.wait = w])
         /\ [b EXCEPT !.wait = w].wait = w
         /\ [b EXCEPT !.wait = w].dirty = b.dirty /\ [b EXCEPT !.wait = w].rd = b.rd
<1> DEFINE q == [b EXCEPT !.wait = w]
<1>t. b \in Btrees
  BY DEF Sound, Shaped
<1>1. q \in Btrees
  BY <1>t DEF Btrees
<1>2. /\ q.levels = b.levels /\ q.nSavepoint = b.nSavepoint /\ q.dirty = b.dirty
      /\ q.rd = b.rd /\ q.schema = b.schema /\ q.deleted = b.deleted /\ q.wait = w
  BY <1>t DEF Btrees
<1> HIDE DEF q
<1>3. Sound(q)
  BY <1>1, <1>2 DEF Sound, Shaped, SchemaInv
<1> QED BY <1>2, <1>3 DEF q

\* A connection that waits holds what it held.
LEMMA WaitStep ==
  ASSUME Base, NEW c \in Conns, NEW w \in Tables \X {"read", "write"}, NEW r,
         r \in Clients, r.marks = cl[c].marks, r.nsav = cl[c].nsav,
         r.journal <=> cl[c].journal, r.writing <=> cl[c].writing,
         r.failed <=> cl[c].failed, r.nread = cl[c].nread, cl[c].nread > 0,
         SetCon(c, [con[c] EXCEPT !.wait = w]), SetCl(c, r), UNCHANGED <<db, faults>>
  PROVE  Base'
<1> DEFINE q == [con[c] EXCEPT !.wait = w]
<1>1. Sound(q) /\ q.dirty = con[c].dirty /\ q.rd = con[c].rd
  BY ConnFacts, SoundWait
<1>2. Compatible(c, q)
  BY <1>1, ConnFacts DEF Compatible
<1>3. Asked(q, r)
  BY ConnFacts DEF Asked
<1>4. db' = db /\ faults' = faults
  OBVIOUS
<1> HIDE DEF q
<1>5. db' \in [Tables -> Contents] /\ faults' \in 0..MaxFaults
  BY <1>4, ConnFacts
<1>6. SetCon(c, q)
  BY DEF q
<1> QED BY <1>1, <1>2, <1>3, <1>5, <1>6, OneStep

LEMMA CalledAsked ==
  ASSUME NEW b, NEW r \in Clients, Asked(b, r)
  PROVE  Asked(b, [r EXCEPT !.calls = @ + 1])
<1> DEFINE s == [r EXCEPT !.calls = @ + 1]
<1>1. /\ s \in Clients /\ s.nread = r.nread /\ s.writing = r.writing
      /\ s.journal = r.journal /\ s.failed = r.failed /\ s.nsav = r.nsav
      /\ s.marks = r.marks
  BY CalledFact
<1> HIDE DEF s
<1>2. Asked(b, s)
  BY <1>1 DEF Asked
<1> QED BY <1>2 DEF s

LEMMA BeginTxBase ==
  ASSUME Base, NEW c \in Conns, BeginTx(c)
  PROVE  Base'
<1> DEFINE r == cl[c]
           s == [r EXCEPT !.auto = FALSE]
<1>1. s \in Clients
  BY ConnFacts, ZenonT(60) DEF Clients
<1>2. /\ s.nread = r.nread /\ s.writing = r.writing
      /\ s.journal = r.journal /\ s.failed = r.failed /\ s.nsav = r.nsav
      /\ s.marks = r.marks
  BY ConnFacts DEF Clients
<1>3. SetCl(c, s) /\ con' = con /\ db' = db /\ faults' = faults
  BY DEF BeginTx
<1>4. Asked(con[c], r)
  BY ConnFacts
<1> HIDE DEF s, r
<1>5. Asked(con[c], s)
  BY <1>1, <1>2, <1>4 DEF Asked
<1>6. SetCon(c, con[c])
  BY <1>3, ConnFacts DEF SetCon
<1>7. db' \in [Tables -> Contents] /\ faults' \in 0..MaxFaults
  BY <1>3, ConnFacts
<1> QED BY <1>3, <1>5, <1>6, <1>7, ConnFacts, NoLockStep

LEMMA BeginReadBase ==
  ASSUME Base, NEW c \in Conns, BeginRead(c)
  PROVE  Base'
<1> DEFINE r == cl[c]
           s == [r EXCEPT !.nread = r.nread + 1]
           b == BeginTrans(con[c], FALSE, r.nsav)
<1>1. r.nread + 1 \in Nat /\ r.nread \in Nat /\ con[c].wait = <<>>
  BY ConnFacts DEF BeginRead, MayCall
<1>2. s \in Clients
  BY <1>1, ConnFacts DEF Clients
<1>3. /\ s.nread = r.nread + 1 /\ s.writing = r.writing
      /\ s.journal = r.journal /\ s.failed = r.failed /\ s.nsav = r.nsav
      /\ s.marks = r.marks
  BY ConnFacts DEF Clients
<1>4. /\ SetCl(c, [s EXCEPT !.calls = @ + 1]) /\ SetCon(c, b)
      /\ db' = db /\ faults' = faults
  BY DEF BeginRead, Called
<1>5. Sound(b) /\ Within(b, con[c])
  BY ConnFacts, BeginTransSound
<1>6. Asked(con[c], r)
  BY ConnFacts
<1> HIDE DEF s, r, b
<1>7. Asked(b, s)
  BY <1>1, <1>2, <1>3, <1>6 DEF Asked
<1>8. Asked(b, [s EXCEPT !.calls = @ + 1])
  BY <1>2, <1>7, CalledAsked
<1>9. db' \in [Tables -> Contents] /\ faults' \in 0..MaxFaults
  BY <1>4, ConnFacts
<1> QED BY <1>4, <1>5, <1>8, <1>9, NoLockStep

LEMMA BeginWriteBase ==
  ASSUME Base, NEW c \in Conns, NEW j \in BOOLEAN, BeginWrite(c, j)
  PROVE  Base'
<1> DEFINE r == cl[c]
           jj == j /\ (~r.auto \/ r.nread > 0)
           b == BeginTrans(con[c], TRUE, r.nsav)
           e == IF jj /\ b.status = "ok" THEN BeginStmt(b, r.nsav + 1) ELSE b
           m == IF jj THEN Append(r.marks, r.want) ELSE r.marks
           s == [r EXCEPT !.nread = r.nread + 1, !.writing = TRUE, !.journal = jj,
                          !.marks = m]
<1>1. r.nread + 1 \in Nat /\ r.nread \in Nat /\ con[c].wait = <<>>
  BY ConnFacts DEF BeginWrite, MayCall
<1>2. jj \in BOOLEAN
  BY ConnFacts DEF Clients
<1>3. /\ m \in Seq(Writes) /\ ~r.writing
      /\ Len(m) = r.nsav + (IF jj THEN 1 ELSE 0)
  <2>1. Len(r.marks) = r.nsav
    BY ConnFacts DEF BeginWrite, Asked
  <2> QED BY <2>1, ConnFacts DEF BeginWrite
<1>4. Sound(e) /\ Within(e, con[c])
  <2>1. Sound(b) /\ Within(b, con[c])
    BY ConnFacts, BeginTransSound
  <2>2. r.nsav + 1 \in Nat
    BY ConnFacts
  <2>3. Sound(BeginStmt(b, r.nsav + 1)) /\ Within(BeginStmt(b, r.nsav + 1), b)
    BY <2>1, <2>2, BeginStmtSound
  <2> QED BY <2>1, <2>3, WithinTrans
<1>5. /\ SetCl(c, [s EXCEPT !.calls = @ + 1]) /\ SetCon(c, e)
      /\ db' = db /\ faults' = faults
  BY DEF BeginWrite, Called
<1>r. r \in Clients
  BY ConnFacts
<1> HIDE DEF m, jj, e, b
<1>6. s \in Clients
  BY <1>1, <1>2, <1>3, <1>r DEF Clients
<1>7. /\ s.nread = r.nread + 1 /\ s.writing /\ (s.journal <=> jj)
      /\ s.failed = r.failed /\ s.nsav = r.nsav /\ s.marks = m
  BY <1>r DEF Clients
<1> HIDE DEF s, r
<1>8. Asked(e, s)
  BY <1>1, <1>3, <1>6, <1>7 DEF Asked
<1>9. Asked(e, [s EXCEPT !.calls = @ + 1])
  BY <1>6, <1>8, CalledAsked
<1>10. db' \in [Tables -> Contents] /\ faults' \in 0..MaxFaults
  BY <1>5, ConnFacts
<1> QED BY <1>4, <1>5, <1>9, <1>10, NoLockStep

LEMMA BeginFailsBase ==
  ASSUME Base, NEW c \in Conns, NEW w \in BOOLEAN, BeginFails(c, w)
  PROVE  Base'
<1> DEFINE r == cl[c]
           f == [r EXCEPT !.odd = @ \cup {"fault"}]
           s == IF f.auto THEN Over(f, con'[c], f.nread) ELSE f
<1>1. r \in Clients /\ Asked(con[c], r) /\ con[c].wait = <<>> /\ r.nsav \in Nat
  BY ConnFacts DEF BeginFails, MayCall
<1>2. r.odd \cup {"fault"} \in SUBSET Oddities
  BY <1>1 DEF Clients, Oddities
<1>3. PICK b \in BeginTransFailed(con[c], w, r.nsav) :
        SetCon(c, IF r.auto THEN Rollback(b) ELSE b)
  BY DEF BeginFails
<1> DEFINE e == IF r.auto THEN Rollback(b) ELSE b
<1>4. Sound(e) /\ Within(e, con[c])
  <2>1. Sound(b) /\ Within(b, con[c])
    BY <1>1, ConnFacts, BeginTransFailedSound
  <2> QED BY <2>1, RollbackSound, WithinTrans
<1>5. /\ SetCl(c, [s EXCEPT !.calls = @ + 1]) /\ SetCon(c, e) /\ db' = db
      /\ faults' \in 0..MaxFaults
  BY <1>3, FaultFact DEF BeginFails, Called
<1>w. e.wait = <<>>
  BY <1>1, <1>4 DEF Within
<1> HIDE DEF r, e
<1>6. f \in Clients
  BY <1>1, <1>2 DEF Clients
<1>7. /\ f.nread = r.nread /\ f.writing = r.writing /\ f.journal = r.journal
      /\ f.failed = r.failed /\ f.nsav = r.nsav /\ f.marks = r.marks
  BY <1>1 DEF Clients
<1> HIDE DEF f
<1>8. s \in Clients /\ Asked(e, s)
  <2>1. Asked(e, f)
    BY <1>1, <1>w, <1>6, <1>7 DEF Asked
  <2>2. f.nread \in Nat
    BY <1>6 DEF Clients
  <2>3. Asked(e, Over(f, con'[c], f.nread)) /\ Over(f, con'[c], f.nread) \in Clients
    BY <1>6, <1>w, <2>2, OverAsked, OverFields
  <2> QED BY <1>6, <2>1, <2>3
<1> HIDE DEF s
<1>9. Asked(e, [s EXCEPT !.calls = @ + 1])
  BY <1>8, CalledAsked
<1>10. db' \in [Tables -> Contents]
  BY <1>5, ConnFacts
<1> QED BY <1>4, <1>5, <1>9, <1>10, NoLockStep

\* A read lock that is free.
LEMMA ReadLockSound ==
  ASSUME Base, NEW c \in Conns, NEW t \in Tables, LockFree(c, t, "read"), NEW b,
         b = [con[c] EXCEPT !.rd = con[c].rd \cup {t}]
  PROVE  /\ Sound(b) /\ Compatible(c, b) /\ b.wait = con[c].wait
         /\ b.levels = con[c].levels /\ b.dirty = con[c].dirty /\ t \in b.rd
         /\ b.schema = con[c].schema
<1> DEFINE p == con[c]
<1>t. p \in Btrees /\ Sound(p) /\ Compatible(c, p)
  BY ConnFacts
<1>1. b = [p EXCEPT !.rd = p.rd \cup {t}]
  OBVIOUS
<1>2. \A o \in Conns \ {c} : t \notin DOMAIN con[o].dirty
  BY DEF LockFree, WriteLocked
<1> HIDE DEF p
<1>3. b \in Btrees
  BY <1>t, <1>1 DEF Btrees
<1>4. /\ b.levels = p.levels /\ b.nSavepoint = p.nSavepoint /\ b.dirty = p.dirty
      /\ b.rd = p.rd \cup {t} /\ b.schema = p.schema /\ b.deleted = p.deleted
      /\ b.wait = p.wait
  BY <1>t, <1>1 DEF Btrees
<1>5. Sound(b)
  BY <1>t, <1>3, <1>4 DEF Sound, Shaped, SchemaInv
<1>6. Compatible(c, b)
  BY <1>t, <1>2, <1>4 DEF Compatible
<1> QED BY <1>4, <1>5, <1>6 DEF p

LEMMA ReadTableBase ==
  ASSUME Base, NEW c \in Conns, NEW t \in Tables, ReadTable(c, t)
  PROVE  Base'
<1> DEFINE r == cl[c]
<1>1. /\ r \in Clients /\ Asked(con[c], r) /\ con[c].wait = <<>> /\ r.nread > 0
      /\ db' = db /\ faults' = faults
  BY ConnFacts DEF ReadTable, MayCall
<1>2. db' \in [Tables -> Contents] /\ faults' \in 0..MaxFaults
  BY <1>1, ConnFacts
<1>3. CASE LockFree(c, t, "read")
  <2> DEFINE first == t \notin DOMAIN r.seen \cup DOMAIN r.want
             x == IF first THEN Written(r.seen, t, db[t]) ELSE r.seen
             s == [r EXCEPT !.seen = x]
             b == [con[c] EXCEPT !.rd = con[c].rd \cup {t}]
  <2>1. x \in Writes
    BY ConnFacts, WrittenFact
  <2>2. SetCon(c, b) /\ SetCl(c, [s EXCEPT !.calls = @ + 1])
    BY <1>3 DEF ReadTable, Called
  <2> HIDE DEF x, r, b
  <2>3. /\ s \in Clients /\ s.nread = r.nread /\ s.writing = r.writing
        /\ s.journal = r.journal /\ s.failed = r.failed /\ s.nsav = r.nsav
        /\ s.marks = r.marks
    BY <1>1, <2>1 DEF Clients
  <2>4. Sound(b) /\ Compatible(c, b) /\ b.wait = con[c].wait
    BY <1>3, ReadLockSound DEF b
  <2> HIDE DEF s
  <2>5. Asked(b, s)
    BY <1>1, <2>3, <2>4 DEF Asked
  <2>6. Asked(b, [s EXCEPT !.calls = @ + 1])
    BY <2>3, <2>5, CalledAsked
  <2> QED BY <1>2, <2>2, <2>4, <2>6, OneStep
<1>4. CASE ~LockFree(c, t, "read")
  <2>1. SetCon(c, [con[c] EXCEPT !.wait = <<t, "read">>]) /\ cl' = cl
    BY <1>4 DEF ReadTable
  <2>2. SetCl(c, r)
    BY <2>1, ConnFacts DEF SetCl
  <2>3. <<t, "read">> \in Tables \X {"read", "write"}
    OBVIOUS
  <2> QED BY <1>1, <2>1, <2>2, <2>3, WaitStep
<1> QED BY <1>3, <1>4

\* A write lock that is free, and what is written under it.
LEMMA WriteLockSound ==
  ASSUME Base, NEW c \in Conns, NEW t \in Tables, LockFree(c, t, "write"),
         con[c].levels # <<>>, NEW b \in Btrees, DOMAIN b.dirty = DOMAIN con[c].dirty \cup {t},
         \A e \in b.deleted : e.table # Master, b.levels = con[c].levels,
         b.nSavepoint = con[c].nSavepoint, b.rd = con[c].rd, b.schema = con[c].schema
  PROVE  Sound(b) /\ Compatible(c, b)
<1>1. Sound(con[c]) /\ Compatible(c, con[c])
  BY ConnFacts
<1>2. \A o \in Conns \ {c} : t \notin DOMAIN con[o].dirty \cup con[o].rd
  BY DEF LockFree, WriteLocked
<1>3. Sound(b)
  BY <1>1 DEF Sound, Shaped, SchemaInv
<1>4. Compatible(c, b)
  BY <1>1, <1>2 DEF Compatible
<1> QED BY <1>3, <1>4

LEMMA WreckedStep ==
  ASSUME Base, NEW c \in Conns, con[c].wait = <<>>, SetCon(c, Wrecked(con[c])), OnlyCalled(c),
         UNCHANGED <<db, faults>>
  PROVE  Base'
<1>1. Sound(Wrecked(con[c])) /\ Within(Wrecked(con[c]), con[c])
  BY ConnFacts, WreckedSound
<1>2. Asked(Wrecked(con[c]), cl[c]) /\ cl[c] \in Clients
  BY <1>1, ConnFacts DEF Within, Asked
<1>3. Asked(Wrecked(con[c]), [cl[c] EXCEPT !.calls = @ + 1])
  BY <1>2, CalledAsked
<1>4. SetCl(c, [cl[c] EXCEPT !.calls = @ + 1])
  BY DEF OnlyCalled, Called
<1>5. db' = db /\ faults' = faults
  OBVIOUS
<1>6. db' \in [Tables -> Contents] /\ faults' \in 0..MaxFaults
  BY <1>5, ConnFacts
<1> QED BY <1>1, <1>3, <1>4, <1>6, NoLockStep

LEMMA ChangeTableBase ==
  ASSUME Base, NEW c \in Conns, NEW t \in Tables, NEW x \in Contents,
         NEW d, d \in SUBSET [table : Tables, level : Nat], \A e \in d : e.table # Master,
         ChangeTable(c, t, x, d)
  PROVE  Base'
<1> DEFINE r == cl[c]
<1>1. /\ r \in Clients /\ Asked(con[c], r) /\ con[c].wait = <<>> /\ r.writing /\ r.nread > 0
      /\ db' = db /\ faults' = faults /\ con[c].levels # <<>>
  BY ConnFacts DEF ChangeTable, MayCall, Asked
<1>2. db' \in [Tables -> Contents] /\ faults' \in 0..MaxFaults
  BY <1>1, ConnFacts
<1>3. CASE con[c].dangling
  BY <1>1, <1>3, WreckedStep DEF ChangeTable
<1>4. CASE ~con[c].dangling /\ LockFree(c, t, "write")
  <2> DEFINE w == Written(con[c].dirty, t, x)
             v == Written(r.want, t, x)
             s == [r EXCEPT !.want = v]
             b == [con[c] EXCEPT !.dirty = w, !.deleted = d]
  <2>1. /\ v \in Writes /\ w \in Writes /\ DOMAIN w = DOMAIN con[c].dirty \cup {t}
    <3>1. con[c].dirty \in Writes /\ r.want \in Writes
      BY ConnFacts, Parts
    <3> QED BY <3>1, WrittenFact, ZenonT(60)
  <2>2. SetCon(c, b) /\ SetCl(c, [s EXCEPT !.calls = @ + 1])
    BY <1>4 DEF ChangeTable, Called
  <2>p. con[c] \in Btrees
    BY ConnFacts
  <2> HIDE DEF w, v
  <2>q. /\ b \in Btrees /\ b.levels = con[c].levels /\ b.nSavepoint = con[c].nSavepoint
        /\ b.rd = con[c].rd /\ b.schema = con[c].schema /\ b.wait = con[c].wait
        /\ b.dirty = w /\ b.deleted = d
    <3> DEFINE p == con[c]
    <3> HIDE DEF p
    <3>1. p \in Btrees /\ b = [p EXCEPT !.dirty = w, !.deleted = d]
      BY <2>p DEF p
    <3> HIDE DEF b, r
    <3>2. /\ b \in Btrees /\ b.levels = p.levels /\ b.nSavepoint = p.nSavepoint
          /\ b.rd = p.rd /\ b.schema = p.schema /\ b.wait = p.wait
          /\ b.dirty = w /\ b.deleted = d
      BY <2>1, <3>1 DEF Btrees
    <3> QED BY <3>2 DEF p
  <2> HIDE DEF r, b
  <2>3. /\ s \in Clients /\ s.nread = r.nread /\ s.writing = r.writing
        /\ s.journal = r.journal /\ s.failed = r.failed /\ s.nsav = r.nsav
        /\ s.marks = r.marks
    BY <1>1, <2>1 DEF Clients
  <2>4. Sound(b) /\ Compatible(c, b) /\ b.wait = con[c].wait
    BY <1>1, <1>4, <2>1, <2>q, WriteLockSound
  <2> HIDE DEF s
  <2>5. Asked(b, s)
    BY <1>1, <2>3, <2>4 DEF Asked
  <2>6. Asked(b, [s EXCEPT !.calls = @ + 1])
    BY <2>3, <2>5, CalledAsked
  <2> QED BY <1>2, <2>2, <2>4, <2>6, OneStep
<1>5. CASE ~con[c].dangling /\ ~LockFree(c, t, "write")
  <2>1. SetCon(c, [con[c] EXCEPT !.wait = <<t, "write">>]) /\ cl' = cl
    BY <1>5 DEF ChangeTable
  <2>2. SetCl(c, r)
    BY <2>1, ConnFacts DEF SetCl
  <2>3. <<t, "write">> \in Tables \X {"read", "write"}
    OBVIOUS
  <2> QED BY <1>1, <2>1, <2>2, <2>3, WaitStep
<1> QED BY <1>3, <1>4, <1>5

\* What the four kinds of change write, and their entries of deleted_tables.
LEMMA ChangesFact ==
  ASSUME Base, NEW c \in Conns, NEW t \in Tables
  PROVE  /\ Sees(c)[t] \in Contents /\ Sees(c) \in [Tables -> Contents]
         /\ \A v \in Vals \cup {Absent} :
              /\ [Sees(c)[t] EXCEPT !.val = v] \in Contents
              /\ [Sees(c)[t] EXCEPT !.val = v].val = v
              /\ [Sees(c)[t] EXCEPT !.val = v].old = Sees(c)[t].old
         /\ Empty \in Vals
         /\ [val |-> Absent, old |-> TRUE] \in Contents
         /\ [val |-> Empty, old |-> TRUE] \in Contents
         /\ con[c].deleted \in SUBSET [table : Tables, level : Nat]
         /\ \A e \in con[c].deleted : e.table # Master
         /\ WithEntry(c, t) \in SUBSET [table : Tables, level : Nat]
         /\ t # Master => \A e \in WithEntry(c, t) : e.table # Master
<1>1. con[c] \in Btrees /\ Sound(con[c]) /\ db \in [Tables -> Contents]
  BY ConnFacts
<1>2. con[c].dirty \in Writes /\ Len(con[c].levels) \in Nat
  BY <1>1, Parts
<1>3. Sees(c) \in [Tables -> Contents]
  BY <1>1, <1>2, ApplyFact DEF Sees
<1> DEFINE x == Sees(c)[t]
<1>4. x \in Contents
  BY <1>3
<1> HIDE DEF x
<1>5. \A v \in Vals \cup {Absent} : /\ [x EXCEPT !.val = v] \in Contents
                                    /\ [x EXCEPT !.val = v].val = v
                                    /\ [x EXCEPT !.val = v].old = x.old
  BY <1>4 DEF Contents
<1>6. /\ Empty \in Vals /\ [val |-> Absent, old |-> TRUE] \in Contents
      /\ [val |-> Empty, old |-> TRUE] \in Contents
  BY BdbAssumption DEF Contents
<1>7. /\ con[c].deleted \in SUBSET [table : Tables, level : Nat]
      /\ \A e \in con[c].deleted : e.table # Master
  BY <1>1 DEF Sound, Shaped, Btrees
<1>8. [table |-> t, level |-> Deepest(con[c])] \in [table : Tables, level : Nat]
  BY <1>2 DEF Deepest
<1> QED BY <1>3, <1>4, <1>5, <1>6, <1>7, <1>8 DEF x, WithEntry

Changes(c, t) ==
  \/ CreateTable(c, t) \/ DropTable(c, t)
  \/ \E v \in Vals : WriteTable(c, t, v)
  \/ \E f \in BOOLEAN : ClearTable(c, t, f)

LEMMA ChangesBase ==
  ASSUME Base, NEW c \in Conns, NEW t \in Tables, Changes(c, t)
  PROVE  Base'
<1>1. CASE CreateTable(c, t)
  BY <1>1, ChangesFact, ChangeTableBase DEF CreateTable
<1>2. CASE DropTable(c, t)
  <2> DEFINE x == [val |-> Absent, old |-> TRUE]
             d == IF Sees(c)[t].old /\ t \in ListedTables(c) THEN con[c].deleted
                  ELSE WithEntry(c, t)
  <2>1. ChangeTable(c, t, x, d) /\ t # Master
    BY <1>2 DEF DropTable
  <2>2. x \in Contents /\ d \in SUBSET [table : Tables, level : Nat]
    BY ChangesFact
  <2>3. \A e \in d : e.table # Master
    BY <2>1, ChangesFact
  <2> HIDE DEF x, d
  <2> QED BY <2>1, <2>2, <2>3, ChangeTableBase
<1>3. ASSUME NEW v \in Vals, WriteTable(c, t, v) PROVE Base'
  BY <1>3, ChangesFact, ChangeTableBase DEF WriteTable
<1>4. ASSUME NEW f \in BOOLEAN, ClearTable(c, t, f) PROVE Base'
  <2>1. t # Master
    BY <1>4 DEF ClearTable
  <2>2. CASE ChangeTable(c, t, [val |-> Empty, old |-> TRUE], WithEntry(c, t))
    <3> DEFINE x == [val |-> Empty, old |-> TRUE]
               d == WithEntry(c, t)
    <3>1. ChangeTable(c, t, x, d) /\ x \in Contents
          /\ d \in SUBSET [table : Tables, level : Nat] /\ \A e \in d : e.table # Master
      BY <2>1, <2>2, ChangesFact
    <3> HIDE DEF x, d
    <3> QED BY <3>1, ChangeTableBase
  <2>3. CASE ChangeTable(c, t, [Sees(c)[t] EXCEPT !.val = Empty], con[c].deleted)
    <3> DEFINE x == [Sees(c)[t] EXCEPT !.val = Empty]
               d == con[c].deleted
    <3>1. ChangeTable(c, t, x, d) /\ x \in Contents
          /\ d \in SUBSET [table : Tables, level : Nat] /\ \A e \in d : e.table # Master
      BY <2>3, ChangesFact
    <3> HIDE DEF x, d
    <3> QED BY <3>1, ChangeTableBase
  <2> QED BY <1>4, <2>2, <2>3 DEF ClearTable
<1> QED BY <1>1, <1>2, <1>3, <1>4 DEF Changes

\* The schema lock is taken, by a cursor of pReadTxn or of pSavepointTxn.
LEMMA LockSchemaBase ==
  ASSUME Base, NEW c \in Conns, NEW m \in {"read", "write"}, LockSchema(c, m)
  PROVE  Base'
<1> DEFINE r == cl[c]
           p == con[c]
           s == [r EXCEPT !.calls = @ + 1]
<1>1. /\ r \in Clients /\ Asked(p, r) /\ p.wait = <<>> /\ r.nread > 0 /\ p.levels # <<>>
      /\ db' = db /\ faults' = faults /\ SetCl(c, s)
  BY ConnFacts DEF LockSchema, MayCall, OnlyCalled, Called
<1>2. db' \in [Tables -> Contents] /\ faults' \in 0..MaxFaults
  BY <1>1, ConnFacts
<1>m. Master \in Tables
  BY BdbAssumption
<1>3. CASE m = "write" /\ p.dangling
  BY <1>1, <1>3, WreckedStep DEF LockSchema, OnlyCalled
<1>4. CASE ~(m = "write" /\ p.dangling) /\ ~LockFree(c, Master, m)
  <2>1. SetCon(c, [con[c] EXCEPT !.wait = <<Master, m>>])
    BY <1>4 DEF LockSchema
  <2>2. /\ s \in Clients /\ s.nread = r.nread /\ s.writing = r.writing
        /\ s.journal = r.journal /\ s.failed = r.failed /\ s.nsav = r.nsav
        /\ s.marks = r.marks
    BY <1>1, CalledFact
  <2>3. <<Master, m>> \in Tables \X {"read", "write"}
    BY <1>m
  <2> HIDE DEF s
  <2> QED BY <1>1, <2>1, <2>2, <2>3, WaitStep
<1>5. CASE m = "read" /\ LockFree(c, Master, m)
  <2> DEFINE q == [p EXCEPT !.rd = p.rd \cup {Master}]
             n == [mode |-> "read", level |-> 0]
             b == [q EXCEPT !.schema = n]
  <2>1. SetCon(c, [p EXCEPT !.rd = p.rd \cup {Master}, !.schema = n])
    BY <1>5 DEF LockSchema
  <2>2. p \in Btrees
    BY ConnFacts
  <2>3. Sound(q) /\ Compatible(c, q) /\ q.wait = p.wait /\ Master \in q.rd
    BY <1>5, <1>m, ReadLockSound
  <2> HIDE DEF p
  <2>4. [p EXCEPT !.rd = p.rd \cup {Master}, !.schema = n] = b
    BY <2>2 DEF Btrees
  <2> HIDE DEF q
  <2>5. q \in Btrees /\ n \in [mode : Modes, level : Nat]
    BY <2>3 DEF Sound, Shaped, Modes
  <2>6. n.mode = "read" /\ n.level = 0
    OBVIOUS
  <2> HIDE DEF n
  <2>7. b \in Btrees
    BY <2>5 DEF Btrees
  <2>8. /\ b.levels = q.levels /\ b.nSavepoint = q.nSavepoint /\ b.dirty = q.dirty
        /\ b.rd = q.rd /\ b.schema = n /\ b.deleted = q.deleted /\ b.wait = q.wait
    BY <2>5 DEF Btrees
  <2> HIDE DEF b
  <2>9. Sound(b) /\ Compatible(c, b)
    BY <2>3, <2>6, <2>7, <2>8 DEF Sound, Shaped, SchemaInv, Compatible
  <2>10. Asked(b, s)
    <3>1. Asked(b, r)
      BY <1>1, <2>3, <2>8 DEF Asked
    <3> QED BY <1>1, <3>1, CalledAsked
  <2> QED BY <1>1, <1>2, <2>1, <2>4, <2>9, <2>10, OneStep
<1>6. CASE m = "write" /\ ~p.dangling /\ LockFree(c, Master, m)
  <2> DEFINE w == Apply(p.dirty, [t \in {Master} |-> db[t]])
             q == [p EXCEPT !.dirty = w]
             n == [mode |-> "write", level |-> Deepest(p)]
             b == [q EXCEPT !.schema = n]
  <2>1. SetCon(c, [p EXCEPT !.dirty = w, !.schema = n])
    BY <1>6 DEF LockSchema
  <2>2. p \in Btrees /\ Sound(p) /\ p.dirty \in Writes /\ db \in [Tables -> Contents]
    BY ConnFacts, Parts
  <2>3. w \in Writes /\ DOMAIN w = DOMAIN p.dirty \cup {Master}
    <3> DEFINE S == DOMAIN p.dirty \cup {Master}
    <3>1. S \in SUBSET Tables
      BY <1>m, <2>2, WritesFact
    <3>2. DOMAIN [t \in {Master} |-> db[t]] = {Master}
      OBVIOUS
    <3>3. w = [t \in S |-> IF t \in DOMAIN p.dirty THEN p.dirty[t] ELSE db[t]]
      BY <3>2 DEF Apply
    <3>4. w = [t \in S |-> w[t]] /\ \A t \in S : w[t] \in Contents
      BY <2>2, <3>1, <3>3, WritesFact
    <3> HIDE DEF w, S
    <3>5. w \in Writes
      BY <3>1, <3>4, WritesMade
    <3>6. DOMAIN w = S
      BY <3>4
    <3> QED BY <3>5, <3>6 DEF S
  <2>5. /\ Sound(q) /\ Compatible(c, q) /\ q.wait = p.wait /\ q.levels = p.levels
        /\ q.dirty = w
    <3> HIDE DEF w, p, n, b
    <3>1. /\ q \in Btrees /\ q.levels = p.levels /\ q.nSavepoint = p.nSavepoint
          /\ q.rd = p.rd /\ q.schema = p.schema /\ q.wait = p.wait
          /\ q.dirty = w /\ q.deleted = p.deleted
      BY <2>2, <2>3 DEF Btrees
    <3>2. \A e \in p.deleted : e.table # Master
      BY <2>2 DEF Sound, Shaped
    <3> HIDE DEF q
    <3>3. con[c].levels # <<>> /\ LockFree(c, Master, "write")
      BY <1>1, <1>6 DEF p
    <3> QED BY <1>m, <2>3, <3>1, <3>2, <3>3, WriteLockSound DEF p
  <2>6. [p EXCEPT !.dirty = w, !.schema = n] = b
    <3> HIDE DEF w, n
    <3> QED BY <2>2 DEF Btrees
  <2>7. Deepest(p) \in 1..Len(q.levels) /\ Deepest(p) = Len(q.levels) /\ Deepest(p) \in Nat
    BY <1>1, <2>2, <2>5, Parts DEF Deepest
  <2> HIDE DEF q, p
  <2>8. q \in Btrees /\ n \in [mode : Modes, level : Nat]
    BY <2>5, <2>7 DEF Sound, Shaped, Modes
  <2>9. n.mode = "write" /\ n.level = Len(q.levels)
    BY <2>7
  <2>10. Master \in DOMAIN q.dirty
    BY <2>3, <2>5
  <2> HIDE DEF n, w
  <2>11. b \in Btrees
    BY <2>8 DEF Btrees
  <2>12. /\ b.levels = q.levels /\ b.nSavepoint = q.nSavepoint /\ b.dirty = q.dirty
         /\ b.rd = q.rd /\ b.schema = n /\ b.deleted = q.deleted /\ b.wait = q.wait
    BY <2>8 DEF Btrees
  <2> HIDE DEF b
  <2>13. SchemaInv(b)
    <3>1. \A i \in 1..Len(b.levels) : ~(i > b.schema.level)
      BY <2>7, <2>9, <2>12
    <3>2. b.schema.level \in 1..Len(b.levels)
      BY <2>7, <2>9, <2>12
    <3> QED BY <3>1, <3>2, <2>9, <2>10, <2>12 DEF SchemaInv
  <2>14. Sound(b) /\ Compatible(c, b)
    BY <2>5, <2>11, <2>12, <2>13 DEF Sound, Shaped, Compatible
  <2>15. Asked(b, s)
    <3>1. Asked(b, r)
      BY <1>1, <2>5, <2>12 DEF Asked
    <3> QED BY <1>1, <3>1, CalledAsked
  <2> QED BY <1>1, <1>2, <2>1, <2>6, <2>14, <2>15, OneStep
<1> QED BY <1>3, <1>4, <1>5, <1>6

-----------------------------------------------------------------------------
\* The same state but for the caller's failure and its oddities.
LEMMA GrantedBase ==
  ASSUME Base, NEW c \in Conns, Granted(c)
  PROVE  Base'
<1> DEFINE b == [con[c] EXCEPT !.wait = <<>>]
<1>1. SetCon(c, b) /\ cl' = cl /\ db' = db /\ faults' = faults
  BY DEF Granted
<1>2. Sound(b) /\ b.wait = <<>> /\ b.dirty = con[c].dirty /\ b.rd = con[c].rd
  BY ConnFacts, SoundWait
<1> HIDE DEF b
<1>3. Within(b, con[c])
  BY <1>2 DEF Within
<1>4. Asked(b, cl[c])
  BY <1>2, ConnFacts DEF Asked
<1>5. SetCl(c, cl[c])
  BY <1>1, ConnFacts DEF SetCl
<1>6. db' \in [Tables -> Contents] /\ faults' \in 0..MaxFaults
  BY <1>1, ConnFacts
<1> QED BY <1>1, <1>2, <1>3, <1>4, <1>5, <1>6, NoLockStep

LEMMA CycleWaits ==
  ASSUME NEW c \in Conns, InCycle(c)
  PROVE  con[c].wait # <<>>
  BY DEF InCycle, WaitsFor

LEMMA VictimBase ==
  ASSUME Base, NEW c \in Conns, Victim(c)
  PROVE  Base'
<1> DEFINE r == cl[c]
           p == con[c]
           l == IF p.wait[2] = "read" THEN 0 ELSE Deepest(p)
           q == [p EXCEPT !.wait = <<>>]
           d == p.dead \cup {l}
           b == [q EXCEPT !.dead = d]
           s == [r EXCEPT !.failed = TRUE]
<1>t. p \in Btrees /\ Sound(p) /\ r \in Clients /\ Asked(p, r)
  BY ConnFacts
<1>1. /\ SetCon(c, [p EXCEPT !.wait = <<>>, !.dead = d]) /\ SetCl(c, s)
      /\ db' = db /\ faults' = faults /\ p.wait # <<>>
  BY CycleWaits DEF Victim
<1>2. d \in SUBSET Nat
  BY <1>t, Parts DEF Deepest
<1> HIDE DEF d, l, p, r
<1>3. [p EXCEPT !.wait = <<>>, !.dead = d] = b
  BY <1>t DEF Btrees
<1>4. Sound(q) /\ q.wait = <<>> /\ q.dirty = p.dirty /\ q.rd = p.rd
  BY <1>t, SoundWait
<1> HIDE DEF q
<1>5. b \in Btrees
  BY <1>2, <1>4 DEF Sound, Shaped, Btrees
<1>6. /\ b.levels = q.levels /\ b.nSavepoint = q.nSavepoint /\ b.dirty = q.dirty
      /\ b.rd = q.rd /\ b.schema = q.schema /\ b.deleted = q.deleted /\ b.wait = q.wait
  BY <1>4 DEF Sound, Shaped, Btrees
<1> HIDE DEF b
<1>7. Sound(b)
  BY <1>4, <1>5, <1>6, SoundSame
<1>8. Within(b, p)
  BY <1>4, <1>6 DEF Within
<1>9. /\ s \in Clients /\ s.nread = r.nread /\ s.writing = r.writing
      /\ s.journal = r.journal /\ s.nsav = r.nsav /\ s.marks = r.marks
  BY <1>t DEF Clients
<1> HIDE DEF s
<1>10. Asked(b, s)
  BY <1>t, <1>1, <1>4, <1>6, <1>9 DEF Asked
<1>11. db' \in [Tables -> Contents] /\ faults' \in 0..MaxFaults
  BY <1>1, ConnFacts
<1> QED BY <1>1, <1>3, <1>7, <1>8, <1>10, <1>11, NoLockStep DEF p

LEMMA GetMetaVictimBase ==
  ASSUME Base, NEW c \in Conns, GetMetaVictim(c)
  PROVE  Base'
<1> DEFINE r == cl[c]
           q == [con[c] EXCEPT !.wait = <<>>]
           b == Rollback(q)
           s == [r EXCEPT !.failed = TRUE, !.odd = @ \cup {"metaRollback"}]
<1>t. r \in Clients /\ Asked(con[c], r) /\ Sound(con[c])
  BY ConnFacts
<1>1. /\ SetCon(c, b) /\ SetCl(c, s) /\ db' = db /\ faults' = faults /\ con[c].wait # <<>>
  BY CycleWaits DEF GetMetaVictim
<1>2. Sound(q) /\ q.wait = <<>> /\ q.dirty = con[c].dirty /\ q.rd = con[c].rd
  BY <1>t, SoundWait
<1> HIDE DEF q
<1>3. Sound(b) /\ Within(b, q)
  BY <1>2, RollbackSound
<1> HIDE DEF b, r
<1>4. Within(b, con[c]) /\ b.wait = <<>>
  BY <1>2, <1>3 DEF Within
<1>5. r.odd \cup {"metaRollback"} \in SUBSET Oddities
  BY <1>t DEF Clients, Oddities
<1>6. /\ s \in Clients /\ s.nread = r.nread /\ s.writing = r.writing
      /\ s.journal = r.journal /\ s.nsav = r.nsav /\ s.marks = r.marks
  BY <1>t, <1>5 DEF Clients
<1> HIDE DEF s
<1>7. Asked(b, s)
  BY <1>t, <1>1, <1>4, <1>6 DEF Asked
<1>8. db' \in [Tables -> Contents] /\ faults' \in 0..MaxFaults
  BY <1>1, ConnFacts
<1> QED BY <1>1, <1>3, <1>4, <1>7, <1>8, NoLockStep

-----------------------------------------------------------------------------
LEMMA StmtOverAsked ==
  ASSUME NEW a \in Clients, a.nread > 0, NEW e \in Seq(Writes), Len(e) = a.nsav,
         NEW b, b.wait = <<>>
  PROVE  Asked(b, StmtOver(a, e))
<1> DEFINE s == StmtOver(a, e)
<1>1. /\ s \in Clients /\ ~s.writing /\ ~s.journal /\ ~s.failed /\ s.nsav = a.nsav
      /\ s.marks = e
  BY StmtOverFact
<1> HIDE DEF s
<1>2. a.nsav \in Nat
  BY BdbAssumption DEF Clients
<1>3. Asked(b, s)
  BY <1>1, <1>2 DEF Asked
<1> QED BY <1>3 DEF s

\* A caller whose statement ends, whose commit was answered, or both.
LEMMA EndAsked ==
  ASSUME NEW r \in Clients, NEW b, NEW p, Asked(p, r), r.nread > 0, b.wait = <<>>,
         r.writing, NEW o, o \in SUBSET Oddities, NEW e
  PROVE  /\ Asked(b, StmtOver(Answered(r, e), <<>>))
         /\ Asked(b, StmtOver(r, SubSeq(r.marks, 1, r.nsav)))
         /\ Asked(b, [StmtOver(r, SubSeq(r.marks, 1, r.nsav)) EXCEPT !.odd = @ \cup o])
         /\ ~r.journal => Asked(b, StmtOver(r, r.marks))
<1>1. Len(<<>>) = 0 /\ <<>> \in Seq(Writes)
  OBVIOUS
<1>2. Asked(b, StmtOver(Answered(r, e), <<>>))
  <2> DEFINE a == Answered(r, e)
  <2>1. a \in Clients /\ a.nread = r.nread /\ a.nsav = 0
    BY AnsweredFact
  <2> HIDE DEF a
  <2>2. Asked(b, StmtOver(a, <<>>))
    BY <1>1, <2>1, StmtOverAsked
  <2> QED BY <2>2 DEF a
<1> DEFINE m == SubSeq(r.marks, 1, r.nsav)
<1>3. m \in Seq(Writes) /\ Len(m) = r.nsav
  <2>1. r.marks \in Seq(Writes) /\ r.nsav \in Nat
    BY BdbAssumption DEF Clients
  <2>2. r.nsav \in 0..Len(r.marks)
    BY <2>1 DEF Asked
  <2> QED BY <2>1, <2>2, Shortened
<1> HIDE DEF m
<1> DEFINE s == StmtOver(r, m)
           x == [s EXCEPT !.odd = s.odd \cup o]
<1>4. /\ s \in Clients /\ ~s.writing /\ ~s.journal /\ ~s.failed /\ s.nsav = r.nsav
      /\ s.marks = m
  BY <1>3, StmtOverFact
<1> HIDE DEF s
<1>5. Asked(b, s)
  BY <1>3, <1>4 DEF Asked
<1>6. s.odd \cup o \in SUBSET Oddities
  BY <1>4 DEF Clients
<1>7. /\ x \in Clients /\ ~x.writing /\ ~x.journal /\ ~x.failed /\ x.nsav = r.nsav
      /\ x.marks = m
  BY <1>4, <1>6 DEF Clients
<1> HIDE DEF x
<1>8. Asked(b, x)
  BY <1>3, <1>7 DEF Asked
<1>9. ASSUME ~r.journal PROVE Asked(b, StmtOver(r, r.marks))
  <2> DEFINE y == StmtOver(r, r.marks)
  <2>1. r.marks \in Seq(Writes) /\ Len(r.marks) = r.nsav
    BY <1>9 DEF Clients, Asked
  <2>2. /\ y \in Clients /\ ~y.writing /\ ~y.journal /\ ~y.failed /\ y.nsav = r.nsav
        /\ y.marks = r.marks
    BY <2>1, StmtOverFact
  <2> HIDE DEF y
  <2>3. Asked(b, y)
    BY <2>1, <2>2 DEF Asked
  <2> QED BY <2>3 DEF y
<1> QED BY <1>2, <1>5, <1>8, <1>9 DEF x, s, m

LEMMA CommitFact ==
  ASSUME Base, NEW c \in Conns, NEW n \in Nat
  PROVE  /\ Sound(CommitPhaseTwo(con[c], n)) /\ Within(CommitPhaseTwo(con[c], n), con[c])
         /\ Published(con[c], n) \in [Tables -> Contents]
  BY ConnFacts, CommitSound, PublishedFact

LEMMA EndReadBase ==
  ASSUME Base, NEW c \in Conns, EndRead(c)
  PROVE  Base'
<1> DEFINE r == cl[c]
           commits == r.auto /\ ~r.writing
           b == IF commits THEN CommitPhaseTwo(con[c], r.nread) ELSE con[c]
           s == [r EXCEPT !.nread = r.nread - 1]
<1>1. /\ r \in Clients /\ Asked(con[c], r) /\ r.nread \in Nat /\ con[c].wait = <<>>
      /\ r.nread > (IF r.writing THEN 1 ELSE 0) /\ ~r.failed
  BY ConnFacts DEF EndRead, Usable
<1>2. r.nread - 1 \in Nat /\ 0 \in Nat /\ r.nread > 0
  BY <1>1, FewerFact, BdbAssumption
<1>3. Sound(b) /\ Within(b, con[c])
  BY <1>1, ConnFacts, CommitFact
<1>4. b.wait = <<>>
  BY <1>1, <1>3 DEF Within
<1>5. SetCon(c, b) /\ faults' = faults /\ (\/ SetCl(c, Over(r, con'[c], 0)) \/ SetCl(c, s))
  BY DEF EndRead, NoFault
<1>6. db' \in [Tables -> Contents] /\ faults' \in 0..MaxFaults
  <2>1. db' \in {db, Published(con[c], r.nread)}
    BY DEF EndRead
  <2> QED BY <1>1, <1>5, <2>1, ConnFacts, CommitFact
<1> HIDE DEF r, b
<1>7. CASE SetCl(c, Over(r, con'[c], 0))
  <2>1. Asked(b, Over(r, con'[c], 0))
    BY <1>1, <1>2, <1>4, OverAsked
  <2> QED BY <1>3, <1>5, <1>6, <1>7, <2>1, NoLockStep
<1>8. CASE SetCl(c, s)
  <2>1. /\ s \in Clients /\ s.nread = r.nread - 1 /\ s.writing = r.writing
        /\ s.journal = r.journal /\ s.failed = r.failed /\ s.nsav = r.nsav
        /\ s.marks = r.marks
    BY <1>1, <1>2 DEF Clients
  <2> HIDE DEF s
  <2>2. Asked(b, s)
    BY <1>1, <1>4, <2>1 DEF Asked
  <2> QED BY <1>3, <1>5, <1>6, <1>8, <2>2, NoLockStep
<1> QED BY <1>5, <1>7, <1>8

LEMMA EndWriteBase ==
  ASSUME Base, NEW c \in Conns, EndWrite(c)
  PROVE  Base'
<1> DEFINE r == cl[c]
<1>1. /\ r \in Clients /\ Asked(con[c], r) /\ con[c].wait = <<>> /\ r.writing /\ r.nread > 0
      /\ faults' = faults
  BY ConnFacts DEF EndWrite, Usable, Asked, NoFault
<1>2. faults' \in 0..MaxFaults /\ 0 \in Nat
  BY <1>1, ConnFacts
<1>3. CASE r.auto
  <2> DEFINE b == CommitPhaseTwo(con[c], r.nread)
  <2>1. /\ SetCon(c, b) /\ db' = Published(con[c], r.nread)
        /\ \/ SetCl(c, Over(r, con'[c], 0))
           \/ SetCl(c, StmtOver(Answered(r, con'[c]), <<>>))
    BY <1>3 DEF EndWrite
  <2>2. Sound(b) /\ Within(b, con[c]) /\ db' \in [Tables -> Contents]
    BY <2>1, ConnFacts, CommitFact
  <2>3. b.wait = <<>>
    BY <1>1, <2>2 DEF Within
  <2> HIDE DEF r, b
  <2>4. /\ Asked(b, Over(r, con'[c], 0))
        /\ Asked(b, StmtOver(Answered(r, con'[c]), <<>>))
    <3>1. Asked(b, Over(r, con'[c], 0))
      BY <1>1, <1>2, <2>3, OverAsked
    <3>2. {} \in SUBSET Oddities
      OBVIOUS
    <3>3. Asked(b, StmtOver(Answered(r, con'[c]), <<>>))
      BY <1>1, <2>3, <3>2, EndAsked
    <3> QED BY <3>1, <3>3
  <2> QED BY <1>2, <2>1, <2>2, <2>4, NoLockStep
<1>4. CASE ~r.auto
  <2> DEFINE b == IF r.journal THEN BtreeSavepoint(con[c], "release", r.nsav) ELSE con[c]
             o == Dangling(b)
             s == [StmtOver(r, SubSeq(r.marks, 1, r.nsav)) EXCEPT !.odd = @ \cup o]
  <2>1. SetCon(c, b) /\ db' = db /\ SetCl(c, s)
    BY <1>4 DEF EndWrite
  <2>2. Sound(b) /\ Within(b, con[c]) /\ db' \in [Tables -> Contents]
    BY <2>1, ConnFacts, SavepointSound
  <2>3. b.wait = <<>> /\ o \in SUBSET Oddities
    BY <1>1, <2>2, OddsFact DEF Within
  <2> HIDE DEF r, b, o
  <2>4. Asked(b, s)
    BY <1>1, <2>3, EndAsked
  <2> HIDE DEF s
  <2> QED BY <1>2, <2>1, <2>2, <2>4, NoLockStep
<1> QED BY <1>3, <1>4

LEMMA FailWriteBase ==
  ASSUME Base, NEW c \in Conns, FailWrite(c)
  PROVE  Base'
<1> DEFINE r == cl[c]
<1>1. /\ r \in Clients /\ Asked(con[c], r) /\ con[c].wait = <<>> /\ r.writing /\ r.nread > 0
      /\ db' = db /\ faults' = faults
  BY ConnFacts DEF FailWrite, Usable, Asked
<1>2. faults' \in 0..MaxFaults /\ db' \in [Tables -> Contents] /\ r.nread - 1 \in Nat
  BY <1>1, ConnFacts, FewerFact
<1>3. CASE r.auto
  <2> DEFINE b == Rollback(con[c])
  <2>1. SetCon(c, b) /\ SetCl(c, Over(r, con'[c], r.nread - 1))
    BY <1>3 DEF FailWrite
  <2>2. Sound(b) /\ Within(b, con[c])
    BY ConnFacts, RollbackSound
  <2>3. b.wait = <<>>
    BY <1>1, <2>2 DEF Within
  <2> HIDE DEF r, b
  <2>4. Asked(b, Over(r, con'[c], r.nread - 1))
    BY <1>1, <1>2, <2>3, OverAsked
  <2> QED BY <1>2, <2>1, <2>2, <2>4, NoLockStep
<1>4. CASE ~r.auto /\ r.journal
  <2> DEFINE b == BtreeSavepoint(con[c], "rollback", r.nsav)
             o == OddAfter(con[c], "rollback", r.nsav)
             w == r.marks[r.nsav + 1]
             y == StmtOver(r, SubSeq(r.marks, 1, r.nsav))
             s == [y EXCEPT !.want = w, !.odd = @ \cup o]
             x == [y EXCEPT !.odd = @ \cup o]
             z == [x EXCEPT !.want = w]
  <2>1. SetCon(c, b) /\ SetCl(c, s)
    BY <1>4 DEF FailWrite
  <2>2. Sound(b) /\ Within(b, con[c])
    BY ConnFacts, SavepointSound
  <2>3. b.wait = <<>> /\ o \in SUBSET Oddities
    BY <1>1, <2>2, OddsFact DEF Within
  <2>4. w \in Writes
    <3>1. /\ r.nsav \in Nat /\ r.marks \in Seq(Writes) /\ Len(r.marks) = r.nsav + 1
      BY <1>4, ConnFacts DEF Asked
    <3>2. r.nsav + 1 \in 1..Len(r.marks)
      BY <3>1
    <3> QED BY <3>1, <3>2
  <2> HIDE DEF r, b, o, w
  <2>5. Asked(b, x)
    BY <1>1, <2>3, EndAsked
  <2>6. y \in Clients
    <3>1. SubSeq(r.marks, 1, r.nsav) \in Seq(Writes)
      <4>1. r.marks \in Seq(Writes) /\ r.nsav \in 0..Len(r.marks)
        BY <1>1, ConnFacts DEF Asked, r
      <4> QED BY <4>1, Shortened
    <3> DEFINE m == SubSeq(r.marks, 1, r.nsav)
    <3> HIDE DEF m
    <3> QED BY <1>1, <3>1, StmtOverFact
  <2> HIDE DEF y
  <2>7. s = z
    BY <2>6 DEF Clients
  <2>8. x \in Clients
    BY <2>5 DEF Asked
  <2> HIDE DEF x
  <2>9. /\ z \in Clients /\ z.writing = x.writing /\ z.journal = x.journal
        /\ z.failed = x.failed /\ z.nsav = x.nsav /\ z.marks = x.marks /\ z.nread = x.nread
    BY <2>4, <2>8 DEF Clients
  <2> HIDE DEF z
  <2>10. Asked(b, z)
    BY <2>5, <2>9 DEF Asked
  <2> HIDE DEF s
  <2> QED BY <1>2, <2>1, <2>2, <2>7, <2>10, NoLockStep
<1>5. CASE ~r.auto /\ ~r.journal
  <2>1. con' = con /\ SetCl(c, StmtOver(r, r.marks))
    BY <1>5 DEF FailWrite
  <2>2. {} \in SUBSET Oddities
    OBVIOUS
  <2>3. Asked(con[c], StmtOver(r, r.marks))
    <3> HIDE DEF r
    <3> QED BY <1>1, <1>5, <2>2, EndAsked
  <2>4. SetCon(c, con[c])
    BY <2>1, ConnFacts DEF SetCon
  <2> QED BY <1>2, <2>1, <2>3, <2>4, ConnFacts, NoLockStep
<1> QED BY <1>3, <1>4, <1>5

LEMMA FailReadBase ==
  ASSUME Base, NEW c \in Conns, FailRead(c)
  PROVE  Base'
<1> DEFINE r == cl[c]
           b == IF r.auto THEN Rollback(con[c]) ELSE con[c]
           s == [r EXCEPT !.failed = FALSE, !.nread = r.nread - 1]
<1>1. /\ r \in Clients /\ Asked(con[c], r) /\ con[c].wait = <<>> /\ ~r.writing /\ r.nread > 0
      /\ db' = db /\ faults' = faults
  BY ConnFacts DEF FailRead, Usable, Asked
<1>2. faults' \in 0..MaxFaults /\ db' \in [Tables -> Contents] /\ r.nread - 1 \in Nat
  BY <1>1, ConnFacts, FewerFact
<1>3. Sound(b) /\ Within(b, con[c])
  BY ConnFacts, RollbackSound
<1>4. b.wait = <<>>
  BY <1>1, <1>3 DEF Within
<1>5. SetCon(c, b) /\ (SetCl(c, Over(r, con'[c], r.nread - 1)) \/ SetCl(c, s))
  BY DEF FailRead
<1> HIDE DEF r, b
<1>6. Asked(b, Over(r, con'[c], r.nread - 1))
  BY <1>1, <1>2, <1>4, OverAsked
<1>7. Asked(b, s)
  <2>1. /\ s \in Clients /\ s.writing = r.writing /\ s.journal = r.journal
        /\ ~s.failed /\ s.nsav = r.nsav /\ s.marks = r.marks
    BY <1>1, <1>2 DEF Clients
  <2> HIDE DEF s
  <2> QED BY <1>1, <1>4, <2>1 DEF Asked
<1> HIDE DEF s
<1> QED BY <1>2, <1>3, <1>5, <1>6, <1>7, NoLockStep

LEMMA CommitTxBase ==
  ASSUME Base, NEW c \in Conns, CommitTx(c)
  PROVE  Base'
<1> DEFINE r == cl[c]
           n == r.nread + 1
           b == CommitPhaseTwo(con[c], n)
           s == Answered(r, con'[c])
           f == [r EXCEPT !.odd = @ \cup {"fault"}]
<1>1. /\ r \in Clients /\ Asked(con[c], r) /\ con[c].wait = <<>> /\ ~r.writing
      /\ faults' = faults /\ db' = Published(con[c], n) /\ n \in Nat
  BY ConnFacts DEF CommitTx, Usable, NoFault
<1>2. faults' \in 0..MaxFaults /\ db' \in [Tables -> Contents] /\ 0 \in Nat
  BY <1>1, ConnFacts, CommitFact
<1>3. Sound(b) /\ Within(b, con[c])
  BY <1>1, CommitFact
<1>4. b.wait = <<>>
  BY <1>1, <1>3 DEF Within
<1>5. SetCon(c, b) /\ (SetCl(c, Over(r, con'[c], 0)) \/ SetCl(c, s) \/ SetCl(c, f))
  BY DEF CommitTx
<1> HIDE DEF r, b, n
<1>6. Asked(b, Over(r, con'[c], 0))
  BY <1>1, <1>2, <1>4, OverAsked
<1>7. Asked(b, s)
  <2>1. /\ s \in Clients /\ s.nread = r.nread /\ s.writing = r.writing
        /\ s.journal = r.journal /\ s.failed = r.failed /\ s.nsav = 0 /\ s.marks = <<>>
    BY <1>1, AnsweredFact
  <2> HIDE DEF s
  <2>2. Len(s.marks) = 0
    BY <2>1
  <2> QED BY <1>1, <1>4, <2>1, <2>2 DEF Asked
<1>8. Asked(b, f)
  <2>1. r.odd \cup {"fault"} \in SUBSET Oddities
    BY <1>1 DEF Clients, Oddities
  <2>2. /\ f \in Clients /\ f.nread = r.nread /\ f.writing = r.writing
        /\ f.journal = r.journal /\ f.failed = r.failed /\ f.nsav = r.nsav
        /\ f.marks = r.marks
    BY <1>1, <2>1 DEF Clients
  <2> HIDE DEF f
  <2> QED BY <1>1, <1>4, <2>2 DEF Asked
<1> HIDE DEF s, f
<1> QED BY <1>2, <1>3, <1>5, <1>6, <1>7, <1>8, NoLockStep

LEMMA RollbackTxBase ==
  ASSUME Base, NEW c \in Conns, RollbackTx(c)
  PROVE  Base'
<1> DEFINE r == cl[c]
           n == r.nread + 1
           q == Rollback(con[c])
           b == IF q.status = "ok" THEN CommitPhaseTwo(q, n) ELSE q
<1>1. /\ r \in Clients /\ Asked(con[c], r) /\ con[c].wait = <<>> /\ n \in Nat
      /\ faults' = faults /\ db' \in {db, Published(q, n)}
  BY ConnFacts DEF RollbackTx, Usable, NoFault
<1>2. Sound(q) /\ Within(q, con[c])
  BY ConnFacts, RollbackSound
<1> HIDE DEF q
<1>3. faults' \in 0..MaxFaults /\ db' \in [Tables -> Contents] /\ r.nread \in Nat
  BY <1>1, <1>2, ConnFacts, PublishedFact
<1>4. Sound(b) /\ Within(b, con[c])
  BY <1>1, <1>2, CommitSound, WithinTrans
<1>5. b.wait = <<>>
  BY <1>1, <1>4 DEF Within
<1>6. SetCon(c, b) /\ SetCl(c, Over(r, con'[c], r.nread))
  BY DEF RollbackTx, q
<1> HIDE DEF r, b
<1>7. Asked(b, Over(r, con'[c], r.nread))
  BY <1>1, <1>3, <1>5, OverAsked
<1> QED BY <1>3, <1>4, <1>6, <1>7, NoLockStep

LEMMA SavepointBase ==
  ASSUME Base, NEW c \in Conns, Savepoint(c)
  PROVE  Base'
<1> DEFINE r == cl[c]
           m == Append(r.marks, r.want)
           s == [r EXCEPT !.nsav = r.nsav + 1, !.marks = m]
<1>1. /\ r \in Clients /\ Asked(con[c], r) /\ ~r.writing /\ r.marks \in Seq(Writes)
      /\ r.nsav \in Nat /\ r.want \in Writes
      /\ con' = con /\ db' = db /\ faults' = faults
      /\ r.nsav + 1 \in 0..MaxSavepoint /\ SetCl(c, [s EXCEPT !.calls = @ + 1])
  BY ConnFacts DEF Savepoint, Called
<1> HIDE DEF r
<1>2. m \in Seq(Writes) /\ Len(m) = Len(r.marks) + 1
  BY <1>1
<1> HIDE DEF m
<1>3. /\ s \in Clients /\ s.nread = r.nread /\ s.writing = r.writing
      /\ s.journal = r.journal /\ s.failed = r.failed /\ s.nsav = r.nsav + 1
      /\ s.marks = m
  BY <1>1, <1>2 DEF Clients
<1> HIDE DEF s
<1>4. Asked(con[c], s)
  <2>1. ~r.journal /\ Len(r.marks) = r.nsav
    BY <1>1 DEF Asked
  <2>2. Len(s.marks) = s.nsav + (IF s.journal THEN 1 ELSE 0)
    BY <1>1, <1>2, <1>3, <2>1
  <2> QED BY <1>1, <1>3, <2>1, <2>2 DEF Asked
<1>5. Asked(con[c], [s EXCEPT !.calls = @ + 1])
  BY <1>3, <1>4, CalledAsked
<1>6. SetCon(c, con[c])
  BY <1>1, ConnFacts DEF SetCon
<1>7. db' \in [Tables -> Contents] /\ faults' \in 0..MaxFaults
  BY <1>1, ConnFacts
<1> QED BY <1>1, <1>5, <1>6, <1>7, ConnFacts, NoLockStep

\* The marks of a caller that has ended savepoints.
LEMMA MarksCut ==
  ASSUME NEW r \in Clients, NEW b, Asked(b, r), ~r.writing, NEW k \in 0..r.nsav
  PROVE  SubSeq(r.marks, 1, k) \in Seq(Writes) /\ Len(SubSeq(r.marks, 1, k)) = k
<1>1. r.marks \in Seq(Writes) /\ r.nsav \in Nat /\ Len(r.marks) = r.nsav
  BY BdbAssumption DEF Asked, Clients
<1> QED BY <1>1, Shortened

LEMMA EndedAsked ==
  ASSUME NEW r \in Clients, NEW b, Asked(b, r), NEW e, e.wait \in {b.wait, <<>>}, ~r.writing,
         NEW s \in Clients, Len(s.marks) = s.nsav, s.nread = r.nread,
         s.writing = r.writing, s.journal = r.journal, s.failed = r.failed
  PROVE  Asked(e, s)
<1>1. ~s.journal /\ ~s.writing
  BY DEF Asked
<1>2. Len(s.marks) = s.nsav + (IF s.journal THEN 1 ELSE 0)
  BY <1>1, BdbAssumption DEF Clients
<1>3. s.writing \/ s.failed \/ e.wait # <<>> => s.nread > 0
  BY DEF Asked
<1> QED BY <1>1, <1>2, <1>3 DEF Asked

LEMMA ReleaseBase ==
  ASSUME Base, NEW c \in Conns, NEW i \in 0..(MaxSavepoint - 1), Release(c, i)
  PROVE  Base'
<1> DEFINE r == cl[c]
           b == BtreeSavepoint(con[c], "release", i)
           o == OddAfter(con[c], "release", i)
           m == SubSeq(r.marks, 1, i)
           s == [r EXCEPT !.nsav = i, !.marks = m, !.odd = r.odd \cup o]
<1>1. /\ r \in Clients /\ Asked(con[c], r) /\ ~r.writing /\ r.want \in Writes
      /\ i \in 0..r.nsav /\ i \in 0..MaxSavepoint /\ i \in Nat
      /\ SetCon(c, b) /\ db' = db /\ faults' = faults /\ SetCl(c, [s EXCEPT !.calls = @ + 1])
  BY ConnFacts DEF Release, Called
<1>2. Sound(b) /\ Within(b, con[c]) /\ b.wait \in {con[c].wait, <<>>}
  BY <1>1, ConnFacts, SavepointSound DEF Within
<1>3. o \in SUBSET Oddities
  BY OddsFact
<1> HIDE DEF r, o, b
<1>4. m \in Seq(Writes) /\ Len(m) = i
  BY <1>1, MarksCut
<1> HIDE DEF m
<1>s. /\ s \in Clients /\ s.nread = r.nread /\ s.writing = r.writing /\ s.nsav = i
      /\ s.journal = r.journal /\ s.failed = r.failed /\ s.marks = m
  <2>1. r.odd \cup o \in SUBSET Oddities
    BY <1>1, <1>3 DEF Clients
  <2> QED BY <1>1, <1>4, <2>1 DEF Clients
<1> HIDE DEF s
<1>5. s \in Clients /\ Asked(b, s)
  BY <1>1, <1>2, <1>4, <1>s, EndedAsked
<1>6. Asked(b, [s EXCEPT !.calls = @ + 1])
  BY <1>4, <1>5, CalledAsked
<1>7. db' \in [Tables -> Contents] /\ faults' \in 0..MaxFaults
  BY <1>1, ConnFacts
<1> QED BY <1>1, <1>2, <1>6, <1>7, NoLockStep

LEMMA RollbackToBase ==
  ASSUME Base, NEW c \in Conns, NEW i \in 0..(MaxSavepoint - 1), RollbackTo(c, i)
  PROVE  Base'
<1> DEFINE r == cl[c]
           b == BtreeSavepoint(con[c], "rollback", i)
           o == OddAfter(con[c], "rollback", i)
           w == r.marks[i + 1]
           k == i + 1
           m == SubSeq(r.marks, 1, k)
           s == [r EXCEPT !.nsav = k, !.marks = m, !.want = w, !.odd = r.odd \cup o]
<1>1. /\ r \in Clients /\ Asked(con[c], r) /\ ~r.writing
      /\ k \in 0..r.nsav /\ k \in 0..MaxSavepoint /\ i \in Nat /\ r.nsav \in Nat
      /\ SetCon(c, b) /\ db' = db /\ faults' = faults /\ SetCl(c, [s EXCEPT !.calls = @ + 1])
  BY ConnFacts DEF RollbackTo, Called
<1>2. Sound(b) /\ Within(b, con[c]) /\ b.wait \in {con[c].wait, <<>>}
  BY <1>1, ConnFacts, SavepointSound DEF Within
<1>3. o \in SUBSET Oddities
  BY OddsFact
<1>4. w \in Writes
  <2>1. Len(r.marks) = r.nsav /\ r.marks \in Seq(Writes) /\ i + 1 \in 1..r.nsav
    BY <1>1 DEF Asked, Clients
  <2> QED BY <2>1
<1> HIDE DEF r, o, b, w, k
<1>m. m \in Seq(Writes) /\ Len(m) = k
  BY <1>1, MarksCut
<1> HIDE DEF m
<1>s. /\ s \in Clients /\ s.nread = r.nread /\ s.writing = r.writing /\ s.nsav = k
      /\ s.journal = r.journal /\ s.failed = r.failed /\ s.marks = m
  <2>1. r.odd \cup o \in SUBSET Oddities
    BY <1>1, <1>3 DEF Clients
  <2> QED BY <1>1, <1>4, <1>m, <2>1 DEF Clients
<1> HIDE DEF s
<1>5. s \in Clients /\ Asked(b, s)
  BY <1>1, <1>2, <1>m, <1>s, EndedAsked
<1>6. Asked(b, [s EXCEPT !.calls = @ + 1])
  BY <1>5, CalledAsked
<1>7. db' \in [Tables -> Contents] /\ faults' \in 0..MaxFaults
  BY <1>1, ConnFacts
<1> QED BY <1>1, <1>2, <1>6, <1>7, NoLockStep

-----------------------------------------------------------------------------
LEMMA AllDieBase ==
  ASSUME Base, AllDie, db' \in [Tables -> Contents], faults' \in 0..MaxFaults
  PROVE  Base'
<1>1. 0 \in Nat /\ IdleBtree \in Btrees /\ IdleBtree.wait = <<>>
  BY BdbAssumption, IdleSound DEF Sound, Shaped, IdleBtree
<1>2. ASSUME NEW c \in Conns
      PROVE  /\ con'[c] = IdleBtree /\ cl'[c] = Over(cl[c], IdleBtree, 0)
             /\ Asked(con'[c], cl'[c]) /\ cl'[c] \in Clients
  <2>1. con'[c] = IdleBtree /\ cl'[c] = Over(cl[c], IdleBtree, 0)
    BY DEF AllDie
  <2>2. Asked(IdleBtree, Over(cl[c], IdleBtree, 0))
    BY <1>1, ConnFacts, OverAsked
  <2> QED BY <2>1, <2>2 DEF Asked
<1>3. con' \in [Conns -> Btrees] /\ cl' \in [Conns -> Clients]
  BY <1>1, <1>2 DEF AllDie
<1>4. StateInv'
  BY <1>2, IdleSound DEF StateInv
<1>5. LocksInv'
  BY <1>2, IdleSound, NoWritesFact DEF LocksInv
<1> QED BY <1>3, <1>4, <1>5 DEF Base, BdbTypeOK

LEMMA DeathBase ==
  ASSUME Base, Crash \/ \E c \in Conns : CrashInCommit(c) \/ Restart(c)
  PROVE  Base'
<1>1. CASE Crash
  BY <1>1, FaultFact, AllDieBase DEF Crash, Base, BdbTypeOK
<1>2. ASSUME NEW c \in Conns, CrashInCommit(c) PROVE Base'
  <2>1. con[c].dirty \in Writes /\ db \in [Tables -> Contents]
    BY ConnFacts, Parts
  <2>2. db' \in [Tables -> Contents]
    BY <1>2, <2>1, ApplyFact DEF CrashInCommit
  <2> QED BY <1>2, <2>2, FaultFact, AllDieBase DEF CrashInCommit
<1>3. ASSUME NEW c \in Conns, Restart(c) PROVE Base'
  BY <1>3, AllDieBase DEF Restart, Base, BdbTypeOK
<1> QED BY <1>1, <1>2, <1>3

LEMMA StutterBase ==
  ASSUME Base, UNCHANGED bvars
  PROVE  Base'
<1>1. db' = db /\ con' = con /\ cl' = cl /\ faults' = faults
  BY DEF bvars
<1> QED BY <1>1 DEF Base, BdbTypeOK, StateInv, LocksInv

LEMMA InitBase ==
  ASSUME BdbInit
  PROVE  Base
<1>1. [val |-> Empty, old |-> FALSE] \in Contents /\ 0 \in 0..MaxFaults
  BY BdbAssumption DEF Contents
<1>2. IdleBtree \in Btrees /\ IdleBtree.wait = <<>>
  BY IdleSound DEF Sound, Shaped, IdleBtree
<1>3. Len(<<>>) = 0 /\ <<>> \in Seq(Writes) /\ NoWrites \in Writes
  BY NoWritesFact
<1>4. IdleClient \in Clients /\ Asked(IdleBtree, IdleClient)
  <2>1. 0 \in Nat /\ 0 \in 0..MaxSavepoint
    BY BdbAssumption
  <2>2. IdleClient \in Clients
    BY <1>3, <2>1 DEF IdleClient, Clients
  <2> QED BY <1>2, <1>3, <2>2 DEF Asked, IdleClient
<1>5. BdbTypeOK
  BY <1>1, <1>2, <1>4 DEF BdbInit, BdbTypeOK
<1>6. StateInv
  BY <1>4, IdleSound DEF BdbInit, StateInv
<1>7. LocksInv
  BY IdleSound, NoWritesFact DEF BdbInit, LocksInv
<1> QED BY <1>5, <1>6, <1>7 DEF Base

\* The steps of one connection that its processes survive.
LEMMA ConnActions ==
  ASSUME NEW c \in Conns, Statement(c) \/ Transaction(c)
  PROVE  \/ BeginRead(c) \/ \E j \in BOOLEAN : BeginWrite(c, j)
         \/ \E w \in BOOLEAN : BeginFails(c, w)
         \/ \E t \in Tables : ReadTable(c, t) \/ Changes(c, t)
         \/ \E m \in {"read", "write"} : LockSchema(c, m)
         \/ Granted(c) \/ Victim(c) \/ GetMetaVictim(c)
         \/ EndRead(c) \/ EndWrite(c) \/ FailWrite(c) \/ FailRead(c)
         \/ BeginTx(c) \/ CommitTx(c) \/ RollbackTx(c) \/ Savepoint(c)
         \/ \E i \in 0..(MaxSavepoint - 1) : Release(c, i) \/ RollbackTo(c, i)
  BY DEF Statement, Transaction, Changes

LEMMA BaseStep ==
  ASSUME Base, [BdbNext]_bvars
  PROVE  Base'
<1>1. ASSUME NEW c \in Conns, Statement(c) \/ Transaction(c) PROVE Base'
  BY <1>1, ConnActions, BeginReadBase, BeginWriteBase, BeginFailsBase, ReadTableBase,
     ChangesBase, LockSchemaBase, GrantedBase, VictimBase, GetMetaVictimBase, EndReadBase,
     EndWriteBase, FailWriteBase, FailReadBase, BeginTxBase, CommitTxBase, RollbackTxBase,
     SavepointBase, ReleaseBase, RollbackToBase
<1>2. CASE Crash \/ \E c \in Conns : CrashInCommit(c) \/ Restart(c)
  BY <1>2, DeathBase
<1>3. CASE UNCHANGED bvars
  BY <1>3, StutterBase
<1> QED BY <1>1, <1>2, <1>3 DEF BdbNext, Finished

LEMMA BaseInvariant == BdbSpec => []Base
<1>1. BdbInit => Base
  BY InitBase
<1>2. Base /\ [BdbNext]_bvars => Base'
  BY BaseStep
<1> QED BY <1>1, <1>2, PTL DEF BdbSpec

\* Every transaction, lock and list of a connection keeps its type, whatever calls
\* are made and whatever fails.
THEOREM BdbTypeCorrect == BdbSpec => []BdbTypeOK
<1>1. Base => BdbTypeOK
  BY DEF Base
<1> QED BY <1>1, BaseInvariant, PTL

\* The schema lock: while p->schemaLockMode says that the connection has one, it
\* holds a lock on MASTER_ROOT, through every end of the transactions it was taken in.
THEOREM SchemaLockCorrect == BdbSpec => []SchemaLockHeld
<1>1. ASSUME Base PROVE SchemaLockHeld
  BY <1>1, ConnFacts DEF SchemaLockHeld, Sound, SchemaInv, WriteLocked
<1> QED BY <1>1, BaseInvariant, PTL

-----------------------------------------------------------------------------
\* w is what m says, but for the write lock on Master that goes with the schema.
Matches(w, m, d) ==
  /\ DOMAIN m \subseteq DOMAIN w
  /\ \A t \in DOMAIN w : IF t \in DOMAIN m THEN w[t] = m[t] ELSE t = Master /\ w[t] = d[t]

\* What a connection has written, now and when the transaction of a savepoint
\* began, is what the caller's statements wrote; without a transaction there, the
\* caller has written nothing since the savepoint.
MarksInv(b, r, d) ==
  /\ Matches(b.dirty, r.want, d)
  /\ \A k \in 1..Len(r.marks) :
       IF k + 1 <= b.nSavepoint THEN Matches(b.levels[k + 2], r.marks[k], d)
       ELSE r.marks[k] = r.want

\* What the caller has read is locked, and as it was.
SeenInv(b, r, d) ==
  \A t \in DOMAIN r.seen : t \in b.rd /\ d[t].val = r.seen[t].val

\* A listed table is renamed away in every transaction from the one that did it on.
DeletedInv(b) ==
  \A e \in b.deleted :
    /\ e.level \in 1..Len(b.levels)
    /\ e.table \in DOMAIN b.dirty /\ b.dirty[e.table].old
    /\ \A i \in 1..Len(b.levels) :
         i > e.level => e.table \in DOMAIN b.levels[i] /\ b.levels[i][e.table].old

\* A caller that writes does so in the transaction of its last savepoint or
\* statement, the last there is; only who writes, or is between BEGIN and COMMIT, is
\* in a transaction.  A commit that was answered while a statement read leaves one
\* until that statement ends, in a Btree that says it reads.
ModesInv(b, r) ==
  /\ ~b.dangling
  /\ b.nSavepoint <= Len(r.marks) + 1 \/ "reading" \in r.odd
  /\ r.writing => /\ b.inTrans = "WRITE" /\ Len(r.marks) < b.nSavepoint
                  /\ ~r.failed => b.dead = {}
  /\ b.inTrans = "WRITE" => r.writing \/ ~r.auto
  /\ b.inTrans # "WRITE" => (b.dirty = NoWrites /\ b.deleted = {}) \/ "reading" \in r.odd
  /\ b.levels = <<>> =>
       /\ \/ b = IdleBtree
          \/ b = [IdleBtree EXCEPT !.inTrans = "READ"] /\ r.auto /\ r.nread > 0
       /\ ~r.failed
  /\ b.levels # <<>> => b.nSavepoint > 0 /\ (r.nread > 0 \/ ~r.auto)
  /\ "reading" \in r.odd =>
       /\ r.auto /\ r.nread > 0 /\ r.nsav = 0
       /\ r.writing \/ b.nSavepoint <= 1 \/ b.dirty = NoWrites

Tracks(b, r, d) ==
  MarksInv(b, r, d) /\ SeenInv(b, r, d) /\ DeletedInv(b) /\ ModesInv(b, r)

CleanInv == \A c \in Conns : Clean(c) => Tracks(con[c], cl[c], db)

\* The tables that c has not written stay, but for what is left of one renamed
\* away; Master stays as it is.
OnlyBy(c) ==
  \A t \in Tables \ DOMAIN con[c].dirty :
    db'[t].val = db[t].val /\ (t = Master => db'[t] = db[t])

\* Another connection's step does no harm.
LEMMA OthersTrack ==
  ASSUME Base, NEW c \in Conns, NEW o \in Conns, c # o, Tracks(con[o], cl[o], db), OnlyBy(c)
  PROVE  Tracks(con[o], cl[o], db')
<1> DEFINE b == con[o]
           r == cl[o]
<1>1. /\ b.dirty \in Writes /\ b.rd \subseteq Tables /\ Sound(b)
      /\ \A i \in 1..Len(b.levels) : b.levels[i] \in Writes
      /\ b.levels = <<>> <=> Len(b.levels) = 0
      /\ b.nSavepoint \in Nat
  BY ConnFacts, Parts
<1>2. DOMAIN con[c].dirty \cap (DOMAIN b.dirty \cup b.rd) = {}
  BY DEF Base, LocksInv
<1>3. ASSUME NEW w \in Writes, DOMAIN w \subseteq DOMAIN b.dirty, NEW m, Matches(w, m, db)
      PROVE  Matches(w, m, db')
  <2>1. \A t \in DOMAIN w : t = Master => db'[t] = db[t]
    BY <1>2, <1>3, WritesFact DEF OnlyBy
  <2> QED BY <1>3, <2>1 DEF Matches
<1>4. MarksInv(b, r, db')
  <2>1. Matches(b.dirty, r.want, db')
    BY <1>1, <1>3 DEF Tracks, MarksInv
  <2>2. ASSUME NEW k \in 1..Len(r.marks)
        PROVE  IF k + 1 <= b.nSavepoint THEN Matches(b.levels[k + 2], r.marks[k], db')
               ELSE r.marks[k] = r.want
    <3>1. CASE k + 1 <= b.nSavepoint
      <4>1. k + 2 \in 1..Len(b.levels)
        BY <1>1, <3>1 DEF Sound, Shaped
      <4>2. b.levels[k + 2] \in Writes /\ DOMAIN b.levels[k + 2] \subseteq DOMAIN b.dirty
        BY <1>1, <4>1 DEF Sound, Shaped
      <4>3. Matches(b.levels[k + 2], r.marks[k], db)
        BY <3>1 DEF Tracks, MarksInv
      <4> QED BY <1>3, <3>1, <4>2, <4>3
    <3>2. CASE ~(k + 1 <= b.nSavepoint)
      BY <3>2 DEF Tracks, MarksInv
    <3> QED BY <3>1, <3>2
  <2> QED BY <2>1, <2>2 DEF MarksInv
<1>5. SeenInv(b, r, db')
  <2>1. SeenInv(b, r, db)
    BY DEF Tracks
  <2> HIDE DEF b, r
  <2>2. \A t \in b.rd : t \in Tables \ DOMAIN con[c].dirty
    BY <1>1, <1>2
  <2> QED BY <2>1, <2>2 DEF SeenInv, OnlyBy
<1> QED BY <1>4, <1>5 DEF Tracks

\* A caller that starts afresh, with or without statements that still read.
LEMMA FreshTracks ==
  ASSUME NEW s, s.marks = <<>>, s.want = NoWrites, s.seen = NoWrites, ~s.writing, ~s.failed,
         "reading" \in s.odd => s.auto /\ s.nread > 0 /\ s.nsav = 0, NEW d
  PROVE  Tracks(IdleBtree, s, d)
<1>1. /\ IdleBtree.dirty = NoWrites /\ IdleBtree.deleted = {} /\ ~IdleBtree.dangling
      /\ IdleBtree.nSavepoint = 0 /\ IdleBtree.inTrans = "NONE" /\ IdleBtree.levels = <<>>
  BY DEF IdleBtree
<1>2. Len(s.marks) = 0
  OBVIOUS
<1>3. MarksInv(IdleBtree, s, d) /\ SeenInv(IdleBtree, s, d)
  BY <1>1, <1>2, NoWritesFact DEF MarksInv, SeenInv, Matches
<1>4. DeletedInv(IdleBtree)
  BY <1>1 DEF DeletedInv
<1>5. ModesInv(IdleBtree, s)
  BY <1>1, <1>2 DEF ModesInv
<1> QED BY <1>3, <1>4, <1>5 DEF Tracks

LEMMA FreshReads ==
  ASSUME NEW s, s.marks = <<>>, s.want = NoWrites, s.seen = NoWrites, ~s.writing, ~s.failed,
         s.auto, s.nread > 0, s.nsav = 0, NEW d
  PROVE  Tracks([IdleBtree EXCEPT !.inTrans = "READ"], s, d)
<1> DEFINE q == [IdleBtree EXCEPT !.inTrans = "READ"]
<1>1. /\ q.dirty = NoWrites /\ q.deleted = {} /\ ~q.dangling
      /\ q.nSavepoint = 0 /\ q.inTrans = "READ" /\ q.levels = <<>>
  BY DEF IdleBtree
<1>2. Len(s.marks) = 0 /\ q = [IdleBtree EXCEPT !.inTrans = "READ"]
  OBVIOUS
<1> HIDE DEF q
<1>3. MarksInv(q, s, d) /\ SeenInv(q, s, d)
  BY <1>1, <1>2, NoWritesFact DEF MarksInv, SeenInv, Matches
<1>4. DeletedInv(q)
  BY <1>1 DEF DeletedInv
<1>5. ModesInv(q, s)
  BY <1>1, <1>2 DEF ModesInv
<1>6. Tracks(q, s, d)
  BY <1>3, <1>4, <1>5 DEF Tracks
<1> QED BY <1>6 DEF q

LEMMA OverTracks ==
  ASSUME NEW r \in Clients, NEW e, NEW n \in Nat, e = IdleBtree \/ n > 0, NEW d
  PROVE  Tracks(IdleBtree, Over(r, e, n), d)
<1> DEFINE s == Over(r, e, n)
<1>1. /\ ~s.writing /\ ~s.failed /\ s.want = NoWrites /\ s.marks = <<>> /\ s.seen = NoWrites
      /\ s.auto /\ s.nread = n /\ s.nsav = 0
  BY OverFields
<1>2. s.odd = {} \/ n > 0
  <2>1. CASE n = 0
    <3>1. e = IdleBtree
      BY <2>1
    <3> QED BY <2>1, <3>1, OverOdd
  <2>2. CASE n > 0
    BY <2>2
  <2> QED BY <2>1, <2>2, BdbAssumption
<1> HIDE DEF s
<1>3. Tracks(IdleBtree, s, d)
  BY <1>1, <1>2, FreshTracks
<1> QED BY <1>3 DEF s

LEMMA CleanStep ==
  ASSUME Base, CleanInv, NEW c \in Conns, NEW b, NEW r, SetCon(c, b), SetCl(c, r), OnlyBy(c),
         b.status = "ok" /\ r.odd \subseteq {"reading"} => Tracks(b, r, db')
  PROVE  CleanInv'
<1>1. con \in [Conns -> Btrees] /\ cl \in [Conns -> Clients]
  BY DEF Base, BdbTypeOK
<1>2. /\ con'[c] = b /\ cl'[c] = r
      /\ \A o \in Conns \ {c} : con'[o] = con[o] /\ cl'[o] = cl[o]
  BY <1>1 DEF SetCon, SetCl
<1>3. ASSUME NEW o \in Conns, con'[o].status = "ok" /\ cl'[o].odd \subseteq {"reading"}
      PROVE  Tracks(con'[o], cl'[o], db')
  <2>1. CASE o = c
    BY <1>2, <1>3, <2>1
  <2>2. CASE o # c
    <3>1. con'[o] = con[o] /\ cl'[o] = cl[o]
      BY <1>2, <2>2
    <3>2. Tracks(con[o], cl[o], db)
      BY <1>3, <3>1 DEF CleanInv, Clean
    <3>3. Tracks(con[o], cl[o], db')
      BY <2>2, <3>2, OthersTrack
    <3> QED BY <3>1, <3>3
  <2> QED BY <2>1, <2>2
<1> QED BY <1>3 DEF CleanInv, Clean

LEMMA OnlyByPublished ==
  ASSUME Base, NEW c \in Conns,
         db' = db \/ db' = Published(con[c], cl[c].nread) \/ db' = Apply(con[c].dirty, db)
  PROVE  OnlyBy(c)
<1>1. db \in [Tables -> Contents] /\ Sound(con[c]) /\ con[c].dirty \in Writes
  BY ConnFacts, Parts
<1>2. CASE db' = db
  BY <1>2 DEF OnlyBy
<1>3. CASE db' = Published(con[c], cl[c].nread)
  BY <1>1, <1>3, PublishedFact DEF OnlyBy
<1>4. CASE db' = Apply(con[c].dirty, db)
  BY <1>1, <1>4, ApplyFact DEF OnlyBy
<1> QED BY <1>2, <1>3, <1>4

LEMMA OnlyByWithin ==
  ASSUME Base, NEW c \in Conns, NEW b, Sound(b), Within(b, con[c]), NEW n,
         db' = db \/ db' = Published(b, n)
  PROVE  OnlyBy(c)
<1>1. /\ db \in [Tables -> Contents] /\ con[c].dirty \in Writes
      /\ DOMAIN b.dirty \subseteq DOMAIN con[c].dirty
  BY ConnFacts, Parts DEF Within
<1>2. CASE db' = db
  BY <1>2 DEF OnlyBy
<1>3. CASE db' = Published(b, n)
  BY <1>1, <1>3, PublishedFact DEF OnlyBy
<1> QED BY <1>2, <1>3

-----------------------------------------------------------------------------
\* q is b after more transactions have been begun under pSavepointTxn.
Extends(q, b) ==
  /\ q.dirty = b.dirty /\ q.deleted = b.deleted /\ q.rd = b.rd /\ q.dead = b.dead
  /\ q.status = b.status /\ q.dangling = b.dangling /\ q.nSavepoint >= b.nSavepoint
  /\ Len(q.levels) >= Len(b.levels)
  /\ \A i \in 1..Len(b.levels) : q.levels[i] = b.levels[i]
  /\ \A i \in 1..Len(q.levels) : i > Len(b.levels) => q.levels[i] = b.dirty

LEMMA BeginStmtFact ==
  ASSUME NEW b, Sound(b), ~b.dangling, b.inTrans # "NONE", NEW n \in Nat
  PROVE  /\ Extends(BeginStmt(b, n), b) /\ BeginStmt(b, n).inTrans = b.inTrans
         /\ BeginStmt(b, n).levels # <<>>
         /\ BeginStmt(b, n).nSavepoint = IF b.nSavepoint > n THEN b.nSavepoint ELSE n + 1
<1>t. b \in Btrees /\ b.dirty \in Writes /\ b.levels \in Seq(Writes) /\ b.nSavepoint \in Nat
  BY Parts DEF Sound, Shaped
<1> DEFINE more == IF b.nSavepoint <= n THEN n + 1 - b.nSavepoint ELSE 0
           main == IF b.levels = <<>> THEN 1 ELSE 0
           k == main + more
           v == b.nSavepoint + more
           s == b.levels \o [i \in 1..k |-> b.dirty]
           q == BeginStmt(b, n)
<1>1. k \in Nat /\ v \in Nat /\ v >= b.nSavepoint
      /\ v = IF b.nSavepoint > n THEN b.nSavepoint ELSE n + 1
  BY <1>t
<1>2. b.levels = <<>> => k > 0
  BY <1>t
<1>3. q = [b EXCEPT !.read = TRUE, !.nSavepoint = v, !.levels = s]
  BY DEF BeginStmt
<1> HIDE DEF k
<1>4. /\ s \in Seq(Writes) /\ Len(s) = Len(b.levels) + k
      /\ \A i \in 1..Len(b.levels) : s[i] = b.levels[i]
      /\ \A i \in 1..Len(s) : i > Len(b.levels) => s[i] = b.dirty
  BY <1>t, <1>1, Prolonged
<1> HIDE DEF s, v, q
<1>5. /\ q.levels = s /\ q.nSavepoint = v /\ q.dirty = b.dirty /\ q.rd = b.rd
      /\ q.deleted = b.deleted /\ q.dead = b.dead /\ q.status = b.status
      /\ (q.dangling <=> b.dangling) /\ q.dangling = b.dangling /\ q.inTrans = b.inTrans
  BY <1>t, <1>3 DEF Btrees
<1>6. Len(s) >= Len(b.levels) /\ Len(s) # 0 /\ s # <<>>
  <2>1. Len(b.levels) \in Nat /\ (b.levels = <<>> <=> Len(b.levels) = 0)
    BY <1>t, Parts
  <2>2. Len(s) >= Len(b.levels) /\ Len(s) # 0
    BY <1>1, <1>2, <1>4, <2>1
  <2> QED BY <2>2
<1>7. Extends(q, b)
  BY <1>1, <1>4, <1>5, <1>6 DEF Extends
<1> QED BY <1>1, <1>5, <1>6, <1>7 DEF q

\* The mode alone.
LEMMA ModeFact ==
  ASSUME NEW b, Sound(b), NEW m \in {"NONE", "READ", "WRITE"}
  PROVE  LET q == [b EXCEPT !.inTrans = m]
         IN /\ Extends(q, b) /\ q.inTrans = m /\ q.levels = b.levels
            /\ q.nSavepoint = b.nSavepoint /\ (q.read <=> b.read) /\ q.wait = b.wait
<1> DEFINE q == [b EXCEPT !.inTrans = m]
<1>t. b \in Btrees /\ b.nSavepoint \in Nat /\ Len(b.levels) \in Nat
  BY Parts DEF Sound, Shaped
<1>1. /\ q.levels = b.levels /\ q.nSavepoint = b.nSavepoint /\ q.dirty = b.dirty
      /\ q.rd = b.rd /\ q.deleted = b.deleted /\ q.dead = b.dead /\ q.status = b.status
      /\ q.dangling = b.dangling /\ q.inTrans = m /\ (q.read <=> b.read) /\ q.wait = b.wait
  BY <1>t DEF Btrees
<1> HIDE DEF q
<1>2. q.nSavepoint >= b.nSavepoint /\ Len(q.levels) >= Len(b.levels)
      /\ \A i \in 1..Len(q.levels) : ~(i > Len(b.levels))
  BY <1>t, <1>1
<1>3. Extends(q, b)
  BY <1>1, <1>2 DEF Extends
<1> QED BY <1>1, <1>3 DEF q

LEMMA BeginTransFact ==
  ASSUME NEW b, Sound(b), ~b.dangling, NEW wrflag \in BOOLEAN, NEW n \in Nat
  PROVE  LET q == BeginTrans(b, wrflag, n)
         IN /\ Extends(q, b) /\ q.levels # <<>>
            /\ q.inTrans = IF wrflag THEN "WRITE"
                           ELSE IF b.inTrans = "NONE" THEN "READ" ELSE b.inTrans
            /\ q.nSavepoint = IF b.nSavepoint > n THEN b.nSavepoint ELSE n + 1
<1> DEFINE m == IF wrflag THEN "WRITE" ELSE IF b.inTrans = "NONE" THEN "READ" ELSE b.inTrans
           t == [b EXCEPT !.inTrans = m]
           q == BeginTrans(b, wrflag, n)
<1>1. m \in {"NONE", "READ", "WRITE"} /\ m # "NONE"
  BY DEF Sound, Shaped, Btrees
<1>2. q = IF ~t.read \/ t.nSavepoint <= n THEN BeginStmt(t, n) ELSE t
  BY DEF BeginTrans
<1> HIDE DEF m
<1>3. /\ Extends(t, b) /\ t.inTrans = m /\ t.levels = b.levels
      /\ t.nSavepoint = b.nSavepoint /\ Sound(t) /\ b.nSavepoint \in Nat
  <2>1. Sound(t)
    BY <1>1, ModeSound
  <2>2. /\ Extends(t, b) /\ t.inTrans = m /\ t.levels = b.levels
        /\ t.nSavepoint = b.nSavepoint
    BY <1>1, ModeFact
  <2>3. b.nSavepoint \in Nat
    BY Parts DEF Sound, Shaped
  <2> HIDE DEF t
  <2> QED BY <2>1, <2>2, <2>3
<1> HIDE DEF t, q
<1>4. ~t.dangling
  BY <1>3 DEF Extends
<1>5. CASE ~t.read \/ t.nSavepoint <= n
  <2>1. /\ Extends(q, t) /\ q.inTrans = m /\ q.levels # <<>>
        /\ q.nSavepoint = IF t.nSavepoint > n THEN t.nSavepoint ELSE n + 1
    BY <1>1, <1>2, <1>3, <1>4, <1>5, BeginStmtFact
  <2>2. Extends(q, b)
    BY <1>3, <2>1 DEF Extends
  <2> QED BY <1>3, <2>1, <2>2 DEF q, m
<1>6. CASE ~(~t.read \/ t.nSavepoint <= n)
  <2>1. q = t /\ b.nSavepoint > n
    BY <1>2, <1>3, <1>6
  <2>2. t.levels # <<>>
    BY <1>3, <2>1 DEF Sound, Shaped
  <2> QED BY <1>3, <2>1, <2>2 DEF q, m
<1> QED BY <1>5, <1>6

LEMMA ExtendsTrans ==
  ASSUME NEW p, NEW q, NEW b, Extends(p, q), Extends(q, b), Sound(p), Sound(q), Sound(b)
  PROVE  Extends(p, b)
<1>1. /\ p.nSavepoint \in Nat /\ q.nSavepoint \in Nat /\ b.nSavepoint \in Nat
      /\ Len(p.levels) \in Nat /\ Len(q.levels) \in Nat /\ Len(b.levels) \in Nat
  BY Parts DEF Sound, Shaped
<1>2. ASSUME NEW i \in 1..Len(p.levels), i > Len(b.levels)
      PROVE  p.levels[i] = b.dirty
  <2>1. CASE i \in 1..Len(q.levels)
    BY <1>2, <2>1 DEF Extends
  <2>2. CASE i > Len(q.levels)
    BY <2>2 DEF Extends
  <2> QED BY <1>1, <2>1, <2>2
<1>3. \A i \in 1..Len(b.levels) : p.levels[i] = b.levels[i]
  <2>1. \A i \in 1..Len(b.levels) : i \in 1..Len(q.levels)
    BY <1>1 DEF Extends
  <2> QED BY <2>1 DEF Extends
<1> QED BY <1>1, <1>2, <1>3 DEF Extends

\* What was true of a connection, but for its modes, stays true when transactions are
\* begun and the caller makes a savepoint or starts a statement.
LEMMA ExtendsTracks ==
  ASSUME NEW b, Sound(b), NEW q, Sound(q), Extends(q, b), NEW r, NEW s, NEW d,
         MarksInv(b, r, d), SeenInv(b, r, d), DeletedInv(b),
         s.want = r.want, s.seen = r.seen,
         \A k \in 1..Len(s.marks) :
           \/ k \in 1..Len(r.marks) /\ s.marks[k] = r.marks[k]
           \/ k + 1 > b.nSavepoint /\ s.marks[k] = r.want
           \/ b.dirty = NoWrites /\ s.marks[k] = r.want
  PROVE  MarksInv(q, s, d) /\ SeenInv(q, s, d) /\ DeletedInv(q)
<1>t. /\ b.nSavepoint \in Nat /\ Len(b.levels) \in Nat /\ q.nSavepoint \in Nat
      /\ Len(q.levels) \in Nat /\ (b.levels = <<>> <=> Len(b.levels) = 0)
      /\ (q.levels = <<>> <=> Len(q.levels) = 0)
  BY Parts DEF Sound, Shaped
<1>1. ASSUME NEW k \in 1..Len(s.marks)
      PROVE  IF k + 1 <= q.nSavepoint THEN Matches(q.levels[k + 2], s.marks[k], d)
             ELSE s.marks[k] = r.want
  <2>k. k \in Nat
    OBVIOUS
  <2>1. CASE k + 1 <= b.nSavepoint
    <3>1. k + 2 \in 1..Len(b.levels)
      BY <1>t, <2>1, <2>k DEF Sound, Shaped
    <3>2. q.levels[k + 2] = b.levels[k + 2] /\ k + 1 <= q.nSavepoint
      BY <1>t, <2>1, <2>k, <3>1 DEF Extends
    <3>3. CASE k \in 1..Len(r.marks) /\ s.marks[k] = r.marks[k]
      <4>1. Matches(b.levels[k + 2], r.marks[k], d)
        BY <2>1, <3>3 DEF MarksInv
      <4> QED BY <3>2, <3>3, <4>1
    <3>4. CASE b.dirty = NoWrites /\ s.marks[k] = r.want
      <4>1. DOMAIN b.levels[k + 2] = {}
        BY <3>1, <3>4, NoWritesFact DEF Sound, Shaped
      <4>2. DOMAIN r.want = {}
        BY <3>4, NoWritesFact DEF MarksInv, Matches
      <4>3. Matches(b.levels[k + 2], s.marks[k], d)
        BY <3>4, <4>1, <4>2 DEF Matches
      <4> QED BY <3>2, <4>3
    <3> QED BY <1>t, <2>1, <2>k, <3>3, <3>4
  <2>2. CASE ~(k + 1 <= b.nSavepoint)
    <3>1. s.marks[k] = r.want
      BY <2>2 DEF MarksInv
    <3>2. ASSUME k + 1 <= q.nSavepoint PROVE Matches(q.levels[k + 2], s.marks[k], d)
      <4>1. k + 2 \in 1..Len(q.levels) /\ k + 2 > Len(b.levels)
        BY <1>t, <2>2, <2>k, <3>2 DEF Sound, Shaped
      <4>2. q.levels[k + 2] = b.dirty
        BY <4>1 DEF Extends
      <4> QED BY <3>1, <4>2 DEF MarksInv
    <3> QED BY <3>1, <3>2
  <2> QED BY <2>1, <2>2
<1>2. MarksInv(q, s, d)
  BY <1>1 DEF MarksInv, Extends
<1>3. SeenInv(q, s, d)
  BY DEF SeenInv, Extends
<1>4. DeletedInv(q)
  <2> SUFFICES ASSUME NEW e \in b.deleted
               PROVE  /\ e.level \in 1..Len(q.levels)
                      /\ e.table \in DOMAIN q.dirty /\ q.dirty[e.table].old
                      /\ \A i \in 1..Len(q.levels) : i > e.level =>
                           e.table \in DOMAIN q.levels[i] /\ q.levels[i][e.table].old
    BY DEF DeletedInv, Extends
  <2>1. /\ e.level \in 1..Len(b.levels) /\ e.table \in DOMAIN b.dirty
        /\ b.dirty[e.table].old
        /\ \A i \in 1..Len(b.levels) : i > e.level =>
             e.table \in DOMAIN b.levels[i] /\ b.levels[i][e.table].old
    BY DEF DeletedInv
  <2>2. e.level \in 1..Len(q.levels) /\ q.dirty = b.dirty
    BY <1>t, <2>1 DEF Extends
  <2>3. ASSUME NEW i \in 1..Len(q.levels), i > e.level
        PROVE  e.table \in DOMAIN q.levels[i] /\ q.levels[i][e.table].old
    <3>1. CASE i \in 1..Len(b.levels)
      BY <2>1, <2>3, <3>1 DEF Extends
    <3>2. CASE i > Len(b.levels)
      BY <2>1, <3>2 DEF Extends
    <3> QED BY <1>t, <3>1, <3>2
  <2> QED BY <2>1, <2>2, <2>3
<1> QED BY <1>2, <1>3, <1>4

-----------------------------------------------------------------------------
\* What is left when a level and its descendants have ended.
LEMMA LevelsEndedFact ==
  ASSUME NEW b, Sound(b), NEW op, NEW n \in Nat, NEW level \in Nat,
         level <= Len(b.levels), level > 1
  PROVE  LET q == LevelsEnded(b, op, level, n)
         IN /\ q.status = b.status /\ q.inTrans = b.inTrans /\ q.rd = b.rd
            /\ q.wait = b.wait /\ q.nSavepoint = n /\ q.deleted = DeletedAfter(b, op, level)
            /\ (~q.dangling => b.inTrans = "WRITE" /\ b.read)
<1> DEFINE s == SubSeq(b.levels, 1, level - 1)
           w == IF op = "rollback" \/ (\E l \in b.dead : l >= level) THEN b.levels[level]
                ELSE b.dirty
           d == {l \in b.dead : l < level}
           e == DeletedAfter(b, op, level)
           m == SchemaAfter(b, level)
           x == ~(b.inTrans = "WRITE" /\ b.read)
           q == LevelsEnded(b, op, level, n)
<1>t. b \in Btrees
  BY DEF Sound, Shaped
<1>1. q = [b EXCEPT !.nSavepoint = n, !.levels = s, !.dirty = w, !.dead = d,
                    !.deleted = e, !.schema = m, !.dangling = x]
  BY DEF LevelsEnded
<1> HIDE DEF s, w, d, e, m, x, q
<1>2. /\ q.nSavepoint = n /\ q.rd = b.rd /\ q.wait = b.wait /\ q.deleted = e
      /\ q.dangling = x /\ q.status = b.status /\ q.inTrans = b.inTrans
  BY <1>t, <1>1 DEF Btrees
<1>3. ~q.dangling => b.inTrans = "WRITE" /\ b.read
  BY <1>2 DEF x
<1> QED BY <1>2, <1>3 DEF q, e

LEMMA LevelsEndedLevels ==
  ASSUME NEW b, Sound(b), NEW op, NEW n \in Nat, NEW level \in Nat,
         level <= Len(b.levels), level > 1
  PROVE  LET q == LevelsEnded(b, op, level, n)
         IN /\ Len(q.levels) = level - 1 /\ q.levels # <<>>
            /\ \A i \in 1..Len(q.levels) : i \in 1..Len(b.levels) /\ q.levels[i] = b.levels[i]
<1> DEFINE s == SubSeq(b.levels, 1, level - 1)
           w == IF op = "rollback" \/ (\E l \in b.dead : l >= level) THEN b.levels[level]
                ELSE b.dirty
           d == {l \in b.dead : l < level}
           e == DeletedAfter(b, op, level)
           m == SchemaAfter(b, level)
           x == ~(b.inTrans = "WRITE" /\ b.read)
           q == LevelsEnded(b, op, level, n)
<1>t. b \in Btrees
  BY DEF Sound, Shaped
<1>1. q = [b EXCEPT !.nSavepoint = n, !.levels = s, !.dirty = w, !.dead = d,
                    !.deleted = e, !.schema = m, !.dangling = x]
  BY DEF LevelsEnded
<1> HIDE DEF s, w, d, e, m, x, q
<1>2. q.levels = s
  BY <1>t, <1>1 DEF Btrees
<1>3. b.levels \in Seq(Writes) /\ Len(b.levels) \in Nat /\ level - 1 \in 0..Len(b.levels)
  BY <1>t, Parts
<1>4. Len(s) = level - 1 /\ \A i \in 1..(level - 1) : s[i] = b.levels[i]
  BY <1>3, Shortened DEF s
<1>5. s # <<>>
  <2>1. Len(s) # 0
    BY <1>4
  <2> QED BY <2>1
<1>6. \A i \in 1..Len(s) : i \in 1..Len(b.levels) /\ s[i] = b.levels[i]
  BY <1>3, <1>4
<1> QED BY <1>2, <1>4, <1>5, <1>6 DEF q

LEMMA RollbackWrites ==
  ASSUME NEW b, Sound(b), NEW n \in Nat, NEW level \in Nat,
         level <= Len(b.levels), level > 1
  PROVE  LevelsEnded(b, "rollback", level, n).dirty = b.levels[level]
<1> DEFINE s == SubSeq(b.levels, 1, level - 1)
           w == b.levels[level]
           d == {l \in b.dead : l < level}
           e == DeletedAfter(b, "rollback", level)
           m == SchemaAfter(b, level)
           x == ~(b.inTrans = "WRITE" /\ b.read)
           q == LevelsEnded(b, "rollback", level, n)
<1>t. b \in Btrees
  BY DEF Sound, Shaped
<1>1. q = [b EXCEPT !.nSavepoint = n, !.levels = s, !.dirty = w, !.dead = d,
                    !.deleted = e, !.schema = m, !.dangling = x]
  BY DEF LevelsEnded
<1> HIDE DEF s, w, d, e, m, x, q
<1>2. q.dirty = w
  BY <1>t, <1>1 DEF Btrees
<1> QED BY <1>2 DEF q, w

LEMMA ReleaseWrites ==
  ASSUME NEW b, Sound(b), NEW n \in Nat, NEW level \in Nat,
         level <= Len(b.levels), level > 1, NEW op, op # "rollback",
         \A l \in b.dead : l < level
  PROVE  LevelsEnded(b, op, level, n).dirty = b.dirty
<1> DEFINE s == SubSeq(b.levels, 1, level - 1)
           w == IF op = "rollback" \/ (\E l \in b.dead : l >= level) THEN b.levels[level]
                ELSE b.dirty
           d == {l \in b.dead : l < level}
           e == DeletedAfter(b, op, level)
           m == SchemaAfter(b, level)
           x == ~(b.inTrans = "WRITE" /\ b.read)
           q == LevelsEnded(b, op, level, n)
<1>t. b \in Btrees
  BY DEF Sound, Shaped
<1>1. q = [b EXCEPT !.nSavepoint = n, !.levels = s, !.dirty = w, !.dead = d,
                    !.deleted = e, !.schema = m, !.dangling = x]
  BY DEF LevelsEnded
<1>d. w = b.dirty
  <2>1. \A l \in b.dead : l \in Nat
    BY <1>t DEF Btrees
  <2> QED BY <2>1
<1> HIDE DEF s, w, d, e, m, x, q
<1>2. q.dirty = w
  BY <1>t, <1>1 DEF Btrees
<1> QED BY <1>2, <1>d DEF q

LEMMA EndedDead ==
  ASSUME NEW b, Sound(b), NEW n \in Nat, NEW level \in Nat,
         level <= Len(b.levels), level > 1, NEW op, b.dead = {}
  PROVE  LevelsEnded(b, op, level, n).dead = {}
<1> DEFINE s == SubSeq(b.levels, 1, level - 1)
           w == IF op = "rollback" \/ (\E l \in b.dead : l >= level) THEN b.levels[level]
                ELSE b.dirty
           d == {l \in b.dead : l < level}
           e == DeletedAfter(b, op, level)
           m == SchemaAfter(b, level)
           x == ~(b.inTrans = "WRITE" /\ b.read)
           q == LevelsEnded(b, op, level, n)
<1>t. b \in Btrees
  BY DEF Sound, Shaped
<1>1. q = [b EXCEPT !.nSavepoint = n, !.levels = s, !.dirty = w, !.dead = d,
                    !.deleted = e, !.schema = m, !.dangling = x]
  BY DEF LevelsEnded
<1> HIDE DEF s, w, d, e, m, x, q
<1>2. q.dead = d
  BY <1>t, <1>1 DEF Btrees
<1> QED BY <1>2 DEF q, d

\* A savepoint's transaction ends in its parent as the caller expects: a release
\* keeps what was written, a rollback brings back what was there.
LEMMA EndedTracks ==
  ASSUME NEW b, Sound(b), NEW i \in Nat, i + 2 <= b.nSavepoint, b.levels # <<>>,
         NEW op \in {"release", "rollback"}, op = "rollback" \/ \A l \in b.dead : l < i + 3,
         ~LevelsEnded(b, op, i + 3, i + 1).dangling, NEW r, NEW s, NEW d,
         MarksInv(b, r, d), SeenInv(b, r, d), DeletedInv(b),
         r.marks \in Seq(Writes), Len(s.marks) \in Nat, s.seen = r.seen,
         \A k \in 1..Len(s.marks) : k \in 1..Len(r.marks) /\ s.marks[k] = r.marks[k],
         op = "rollback" => /\ i + 1 \in 1..Len(r.marks) /\ s.want = r.marks[i + 1]
                            /\ Len(s.marks) <= i + 1,
         op = "release" => s.want = r.want /\ Len(s.marks) <= i
  PROVE  LET q == LevelsEnded(b, op, i + 3, i + 1)
         IN /\ MarksInv(q, s, d) /\ SeenInv(q, s, d) /\ DeletedInv(q)
            /\ q.nSavepoint = i + 1 /\ q.levels # <<>> /\ q.inTrans = "WRITE"
            /\ b.inTrans = "WRITE"
<1> DEFINE q == LevelsEnded(b, op, i + 3, i + 1)
<1>t. b.nSavepoint \in Nat /\ Len(b.levels) \in Nat /\ Len(b.levels) = b.nSavepoint + 1
  BY Parts DEF Sound, Shaped
<1>L1. PICK L \in Nat : L = i + 3
  OBVIOUS
<1>L2. PICK n \in Nat : n = i + 1
  OBVIOUS
<1>L. L = i + 3 /\ n = i + 1
  BY <1>L1, <1>L2
<1>1. L \in 1..Len(b.levels) /\ L > 1 /\ n \in Nat
  BY <1>t, <1>L
<1>q. ~q.dangling /\ q = LevelsEnded(b, op, L, n)
  BY <1>L
<1> HIDE DEF q
<1>2. /\ q.rd = b.rd /\ q.nSavepoint = n /\ Len(q.levels) = L - 1 /\ q.levels # <<>>
      /\ \A j \in 1..Len(q.levels) : j \in 1..Len(b.levels) /\ q.levels[j] = b.levels[j]
      /\ q.dirty = (IF op = "rollback" THEN b.levels[L] ELSE b.dirty)
      /\ q.deleted = DeletedAfter(b, op, L)
      /\ b.inTrans = "WRITE" /\ q.inTrans = "WRITE"
  <2> DEFINE p == LevelsEnded(b, op, L, n)
  <2>1. L \in Nat /\ L <= Len(b.levels) /\ L > 1 /\ n \in Nat /\ Sound(b)
    BY <1>1
  <2>2. /\ p.rd = b.rd /\ p.nSavepoint = n /\ p.inTrans = b.inTrans
        /\ p.deleted = DeletedAfter(b, op, L)
        /\ (~p.dangling => b.inTrans = "WRITE" /\ b.read)
    BY ONLY <2>1, LevelsEndedFact
  <2>3. /\ Len(p.levels) = L - 1 /\ p.levels # <<>>
        /\ \A j \in 1..Len(p.levels) : j \in 1..Len(b.levels) /\ p.levels[j] = b.levels[j]
    <3> HIDE DEF p
    <3>1. p = LevelsEnded(b, op, L, n)
      BY DEF p
    <3>2. Len(p.levels) = L - 1
      BY ONLY <2>1, <3>1, LevelsEndedLevels
    <3>3. p.levels # <<>>
      BY ONLY <2>1, <3>1, LevelsEndedLevels
    <3>4. \A j \in 1..Len(p.levels) : j \in 1..Len(b.levels) /\ p.levels[j] = b.levels[j]
      BY ONLY <2>1, <3>1, LevelsEndedLevels
    <3> QED BY <3>2, <3>3, <3>4
  <2>4. op = "rollback" => p.dirty = b.levels[L]
    BY <2>1, RollbackWrites
  <2>5. op # "rollback" => p.dirty = b.dirty
    <3>1. op # "rollback" => \A l \in b.dead : l < L
      BY <1>L
    <3> QED BY <2>1, <3>1, ReleaseWrites
  <2> QED BY <1>q, <2>2, <2>3, <2>4, <2>5
<1>3. q.dirty = IF op = "rollback" THEN b.levels[L] ELSE b.dirty
  BY <1>2
<1>4. MarksInv(q, s, d)
  <2>1. Matches(q.dirty, s.want, d)
    <3>1. CASE op = "rollback"
      <4>1. i + 1 \in 1..Len(r.marks) /\ (i + 1) + 1 <= b.nSavepoint /\ (i + 1) + 2 = L
        BY <3>1, <1>L
      <4>2. Matches(b.levels[(i + 1) + 2], r.marks[i + 1], d)
        BY <4>1 DEF MarksInv
      <4> QED BY <1>3, <3>1, <4>1, <4>2
    <3>2. CASE op = "release"
      BY <1>3, <3>2 DEF MarksInv
    <3> QED BY <3>1, <3>2
  <2>2. ASSUME NEW k \in 1..Len(s.marks)
        PROVE  IF k + 1 <= q.nSavepoint THEN Matches(q.levels[k + 2], s.marks[k], d)
               ELSE s.marks[k] = s.want
    <3>1. k \in 1..Len(r.marks) /\ s.marks[k] = r.marks[k] /\ k \in Nat /\ k <= i + 1
      OBVIOUS
    <3>2. CASE k + 1 <= i + 1
      <4>1. k + 2 \in 1..Len(q.levels) /\ k + 1 <= b.nSavepoint /\ k + 1 <= q.nSavepoint
        BY <1>2, <1>L, <1>t, <3>1, <3>2
      <4>2. Matches(b.levels[k + 2], r.marks[k], d)
        BY <3>1, <4>1 DEF MarksInv
      <4> QED BY <1>2, <3>1, <4>1, <4>2
    <3>3. CASE ~(k + 1 <= i + 1)
      <4>1. k = i + 1 /\ op = "rollback"
        BY <3>1, <3>3
      <4>2. s.marks[k] = s.want /\ ~(k + 1 <= q.nSavepoint)
        BY <1>2, <1>L, <3>1, <4>1
      <4> QED BY <4>2
    <3> QED BY <3>2, <3>3
  <2> QED BY <2>1, <2>2 DEF MarksInv
<1>5. SeenInv(q, s, d)
  BY <1>2 DEF SeenInv
<1>6. DeletedInv(q)
  <2>1. CASE op = "rollback"
    <3>1. q.deleted = {e \in b.deleted : e.level < L} /\ q.dirty = b.levels[L]
      BY <1>2, <1>3, <2>1 DEF DeletedAfter
    <3> SUFFICES ASSUME NEW e \in b.deleted, e.level < L
                 PROVE  /\ e.level \in 1..Len(q.levels)
                        /\ e.table \in DOMAIN q.dirty /\ q.dirty[e.table].old
                        /\ \A j \in 1..Len(q.levels) : j > e.level =>
                             e.table \in DOMAIN q.levels[j] /\ q.levels[j][e.table].old
      BY <3>1 DEF DeletedInv
    <3>2. /\ e.level \in 1..Len(b.levels)
          /\ \A j \in 1..Len(b.levels) : j > e.level =>
               e.table \in DOMAIN b.levels[j] /\ b.levels[j][e.table].old
      BY DEF DeletedInv
    <3>3. e.level \in 1..Len(q.levels) /\ L > e.level
      BY <1>1, <1>2, <1>t, <3>2
    <3> QED BY <1>1, <1>2, <3>1, <3>2, <3>3
  <2>2. CASE op = "release"
    <3>1. q.deleted = {[e EXCEPT !.level = L - 1] : e \in b.deleted} /\ q.dirty = b.dirty
      BY <1>2, <1>3, <2>2 DEF DeletedAfter
    <3>2. b.deleted \in SUBSET [table : Tables, level : Nat]
      BY DEF Sound, Shaped, Btrees
    <3>3. L - 1 \in 1..Len(q.levels) /\ \A j \in 1..Len(q.levels) : ~(j > L - 1)
      BY <1>1, <1>2
    <3>4. ASSUME NEW f \in q.deleted
          PROVE  f.level = L - 1 /\ f.table \in DOMAIN q.dirty /\ q.dirty[f.table].old
      <4>1. PICK e \in b.deleted : f = [e EXCEPT !.level = L - 1]
        BY <3>1
      <4>2. f.level = L - 1 /\ f.table = e.table
        BY <3>2, <4>1
      <4>3. e.table \in DOMAIN b.dirty /\ b.dirty[e.table].old
        BY DEF DeletedInv
      <4> QED BY <3>1, <4>2, <4>3
    <3> QED BY <3>3, <3>4 DEF DeletedInv
  <2> QED BY <2>1, <2>2
<1>7. MarksInv(q, s, d) /\ SeenInv(q, s, d) /\ DeletedInv(q) /\ q.nSavepoint = i + 1
      /\ q.levels # <<>> /\ q.inTrans = "WRITE" /\ b.inTrans = "WRITE"
  BY <1>2, <1>4, <1>5, <1>6, <1>L
<1> QED BY <1>7 DEF q

-----------------------------------------------------------------------------
\* What Tracks says of transactions, savepoints, reads and lists depends on these
\* fields; more may be read-locked.
LEMMA SameTracks ==
  ASSUME NEW b, NEW q, NEW r, NEW s, NEW d,
         MarksInv(b, r, d), SeenInv(b, r, d), DeletedInv(b),
         q.dirty = b.dirty, q.levels = b.levels, q.nSavepoint = b.nSavepoint,
         q.deleted = b.deleted, b.rd \subseteq q.rd,
         s.want = r.want, s.marks = r.marks, s.seen = r.seen
  PROVE  MarksInv(q, s, d) /\ SeenInv(q, s, d) /\ DeletedInv(q)
<1>1. MarksInv(q, s, d)
  BY DEF MarksInv
<1>2. SeenInv(q, s, d)
  BY DEF SeenInv
<1>3. DeletedInv(q)
  BY DEF DeletedInv
<1> QED BY <1>1, <1>2, <1>3

\* A step that takes the connection to a state with an oddity.
LEMMA OddStep ==
  ASSUME Base, CleanInv, NEW c \in Conns, NEW b, NEW r, SetCon(c, b), SetCl(c, r), OnlyBy(c),
         ~(r.odd \subseteq {"reading"})
  PROVE  CleanInv'
  BY CleanStep

\* BEGIN changes nothing but the caller's mode: it had no transaction.
LEMMA BeginTxClean ==
  ASSUME Base, CleanInv, NEW c \in Conns, BeginTx(c)
  PROVE  CleanInv'
<1> DEFINE b == con[c]
           r == cl[c]
           s == [r EXCEPT !.auto = FALSE]
<1>1. /\ SetCl(c, s) /\ con' = con /\ db' = db /\ r.auto /\ r.nread = 0 /\ b.status = "ok"
  BY DEF BeginTx, Idle, Usable
<1>2. /\ ~s.auto /\ s.nread = r.nread /\ s.writing = r.writing /\ s.failed = r.failed
      /\ s.want = r.want /\ s.marks = r.marks /\ s.seen = r.seen /\ s.odd = r.odd
  BY ConnFacts DEF Clients
<1>3. SetCon(c, b) /\ OnlyBy(c)
  BY <1>1, ConnFacts, OnlyByPublished DEF SetCon
<1>4. ASSUME s.odd \subseteq {"reading"} PROVE Tracks(b, s, db)
  <2>1. Tracks(b, r, db)
    BY <1>1, <1>2, <1>4 DEF CleanInv, Clean
  <2> HIDE DEF s, r, b
  <2>2. MarksInv(b, s, db) /\ SeenInv(b, s, db) /\ DeletedInv(b)
    BY <1>2, <2>1, SameTracks DEF Tracks
  <2>3. ModesInv(b, r)
    BY <2>1 DEF Tracks
  <2>4. ~(0 > 0)
    OBVIOUS
  <2>5. b = IdleBtree
    BY <1>1, <2>3, <2>4 DEF ModesInv
  <2>6. ModesInv(b, s)
    BY <1>1, <1>2, <2>3, <2>4, <2>5 DEF ModesInv
  <2> QED BY <2>2, <2>6 DEF Tracks
<1> HIDE DEF s
<1>5. ASSUME b.status = "ok" /\ s.odd \subseteq {"reading"} PROVE Tracks(b, s, db')
  BY <1>1, <1>4, <1>5
<1> HIDE DEF b
<1> QED BY <1>1, <1>3, <1>5, CleanStep

LEMMA BeginReadClean ==
  ASSUME Base, CleanInv, NEW c \in Conns, BeginRead(c)
  PROVE  CleanInv'
<1> DEFINE b == con[c]
           r == cl[c]
           p == [r EXCEPT !.nread = r.nread + 1]
           s == [p EXCEPT !.calls = @ + 1]
           q == BeginTrans(b, FALSE, r.nsav)
<1>0. SetCl(c, s) /\ SetCon(c, q) /\ db' = db
  BY DEF BeginRead, Called
<1>1. /\ SetCl(c, s) /\ SetCon(c, q) /\ db' = db /\ ~r.failed /\ b.status = "ok"
      /\ r.nread + 1 \in Nat
  <2>1. ~r.failed /\ b.status = "ok" /\ r.nread + 1 \in Nat
    BY ConnFacts DEF BeginRead, MayCall
  <2> QED BY <1>0, <2>1
<1>c. /\ Sound(b) /\ r \in Clients /\ Asked(b, r) /\ r.nsav \in Nat /\ r.nread \in Nat
  BY ConnFacts
<1>2. p \in Clients
  BY <1>1, <1>c DEF Clients
<1>3. /\ s.auto = r.auto /\ s.nread = r.nread + 1 /\ s.writing = r.writing
      /\ s.failed = r.failed /\ s.want = r.want /\ s.marks = r.marks /\ s.seen = r.seen
      /\ s.odd = r.odd /\ s.nsav = r.nsav
  <2>1. /\ p.auto = r.auto /\ p.nread = r.nread + 1 /\ p.writing = r.writing
        /\ p.failed = r.failed /\ p.want = r.want /\ p.marks = r.marks /\ p.seen = r.seen
        /\ p.odd = r.odd /\ p.nsav = r.nsav
    BY <1>c DEF Clients
  <2> HIDE DEF p
  <2> QED BY <1>2, <2>1, CalledFact
<1>4. OnlyBy(c)
  BY <1>1, OnlyByPublished
<1>5. ASSUME s.odd \subseteq {"reading"} PROVE Tracks(q, s, db)
  <2>1. Tracks(b, r, db)
    BY <1>1, <1>3, <1>5 DEF CleanInv, Clean
  <2> HIDE DEF s, r, b
  <2>2. ~b.dangling
    BY <2>1 DEF Tracks, ModesInv
  <2>3. Sound(q)
    BY <1>c, BeginTransSound
  <2>4. /\ Extends(q, b) /\ q.levels # <<>>
        /\ q.inTrans = IF b.inTrans = "NONE" THEN "READ" ELSE b.inTrans
        /\ q.nSavepoint = IF b.nSavepoint > r.nsav THEN b.nSavepoint ELSE r.nsav + 1
    BY <1>c, <2>2, BeginTransFact
  <2> HIDE DEF q
  <2>5. MarksInv(q, s, db) /\ SeenInv(q, s, db) /\ DeletedInv(q)
    <3>1. \A k \in 1..Len(s.marks) : k \in 1..Len(r.marks) /\ s.marks[k] = r.marks[k]
      BY <1>3
    <3>2. MarksInv(b, r, db) /\ SeenInv(b, r, db) /\ DeletedInv(b)
      BY <2>1 DEF Tracks
    <3> QED BY <1>3, <1>c, <2>3, <2>4, <3>1, <3>2, ExtendsTracks
  <2>6. ModesInv(q, s)
    <3>1. /\ b.nSavepoint \in Nat /\ q.nSavepoint \in Nat /\ Len(r.marks) \in Nat
          /\ Len(r.marks) >= r.nsav
      BY <1>c, <2>3, Parts DEF Sound, Shaped, Asked
    <3>2. ModesInv(b, r)
      BY <2>1 DEF Tracks
    <3>3. q.nSavepoint <= Len(s.marks) + 1 \/ "reading" \in s.odd
      BY <1>3, <1>c, <2>4, <3>1, <3>2 DEF ModesInv
    <3>4. s.writing => Len(s.marks) < q.nSavepoint
      BY <1>3, <2>4, <3>1, <3>2 DEF ModesInv, Extends
    <3>5. s.nread > 0 /\ q.nSavepoint > 0
      BY <1>3, <1>c, <2>4, <3>1
    <3>6. "reading" \in s.odd => /\ s.auto /\ s.nread > 0 /\ s.nsav = 0
                                 /\ s.writing \/ q.nSavepoint <= 1 \/ q.dirty = NoWrites
      BY <1>3, <2>4, <3>1, <3>2, <3>5 DEF ModesInv, Extends
    <3> QED BY <1>1, <1>3, <2>4, <3>2, <3>3, <3>4, <3>5, <3>6 DEF ModesInv, Extends
  <2> QED BY <2>5, <2>6 DEF Tracks
<1> HIDE DEF q, s
<1> QED BY <1>1, <1>4, <1>5, CleanStep

LEMMA BeginWriteClean ==
  ASSUME Base, CleanInv, NEW c \in Conns, NEW j \in BOOLEAN, BeginWrite(c, j)
  PROVE  CleanInv'
<1> DEFINE b == con[c]
           r == cl[c]
           jj == j /\ (~r.auto \/ r.nread > 0)
           q == BeginTrans(b, TRUE, r.nsav)
           e == IF jj /\ q.status = "ok" THEN BeginStmt(q, r.nsav + 1) ELSE q
           m == IF jj THEN Append(r.marks, r.want) ELSE r.marks
           p == [r EXCEPT !.nread = r.nread + 1, !.writing = TRUE, !.journal = jj,
                          !.marks = m]
           s == [p EXCEPT !.calls = @ + 1]
<1>0. SetCl(c, s) /\ SetCon(c, e) /\ db' = db
  BY DEF BeginWrite, Called
<1>1. /\ ~r.failed /\ ~r.writing /\ b.status = "ok" /\ b.dead = {}
      /\ r.nread + 1 \in Nat
  BY ConnFacts DEF BeginWrite, MayCall
<1>c. /\ Sound(b) /\ r \in Clients /\ Asked(b, r) /\ r.nsav \in Nat /\ r.nread \in Nat
      /\ r.marks \in Seq(Writes) /\ r.want \in Writes
  BY ConnFacts
<1>o. OnlyBy(c)
  BY <1>0, OnlyByPublished
<1>2. Len(r.marks) = r.nsav /\ jj \in BOOLEAN
  BY <1>1, <1>c DEF Asked, Clients
<1>3. /\ m \in Seq(Writes) /\ Len(m) = r.nsav + (IF jj THEN 1 ELSE 0)
      /\ \A k \in 1..Len(m) :
           \/ k \in 1..Len(r.marks) /\ m[k] = r.marks[k]
           \/ jj /\ k = r.nsav + 1 /\ m[k] = r.want
  <2>1. CASE jj
    <3>1. m = Append(r.marks, r.want)
      BY <2>1
    <3> HIDE DEF m, r
    <3> QED BY <1>2, <1>c, <2>1, <3>1
  <2>2. CASE ~jj
    BY <1>2, <1>c, <2>2
  <2> QED BY <2>1, <2>2
<1> HIDE DEF jj, m
<1>4. p \in Clients
  BY <1>1, <1>2, <1>3, <1>c DEF Clients
<1>5. /\ s.nread = r.nread + 1 /\ s.writing /\ s.failed = r.failed /\ s.want = r.want
      /\ s.marks = m /\ s.seen = r.seen /\ s.odd = r.odd
      /\ s.auto = r.auto /\ s.nsav = r.nsav
  <2>1. /\ p.auto = r.auto /\ p.nsav = r.nsav
        /\ p.nread = r.nread + 1 /\ p.writing /\ p.failed = r.failed /\ p.want = r.want
        /\ p.marks = m /\ p.seen = r.seen /\ p.odd = r.odd
    BY <1>c DEF Clients
  <2> HIDE DEF p
  <2> QED BY <1>4, <2>1, CalledFact
<1>6. ASSUME s.odd \subseteq {"reading"} PROVE Tracks(e, s, db)
  <2>1. Tracks(b, r, db)
    BY <1>1, <1>5, <1>6 DEF CleanInv, Clean
  <2> HIDE DEF s, r, b
  <2>2. /\ ~b.dangling /\ b.nSavepoint \in Nat
        /\ b.nSavepoint <= r.nsav + 1 \/ "reading" \in r.odd
        /\ "reading" \in r.odd =>
             r.auto /\ r.nsav = 0 /\ (b.nSavepoint <= 1 \/ b.dirty = NoWrites)
    BY <1>1, <1>2, <1>c, <2>1, Parts DEF Tracks, ModesInv, Sound, Shaped, r, b
  <2>3. Sound(q)
    BY <1>c, BeginTransSound
  <2>4. /\ Extends(q, b) /\ q.levels # <<>> /\ q.inTrans = "WRITE"
        /\ q.nSavepoint = IF b.nSavepoint > r.nsav THEN b.nSavepoint ELSE r.nsav + 1
    BY <1>c, <2>2, BeginTransFact
  <2> HIDE DEF q
  <2>5. /\ Sound(e) /\ Extends(e, b) /\ e.levels # <<>> /\ e.inTrans = "WRITE"
        /\ Len(m) < e.nSavepoint
        /\ e.nSavepoint <= Len(m) + 1 \/ "reading" \in r.odd
    <3>q. r.nsav < q.nSavepoint /\ (q.nSavepoint = r.nsav + 1 \/ "reading" \in r.odd)
      BY <1>c, <2>2, <2>4
    <3>1. CASE jj
      <4>1. e = BeginStmt(q, r.nsav + 1) /\ r.nsav + 1 \in Nat /\ ~q.dangling
        BY <1>1, <1>c, <2>2, <2>4, <3>1 DEF Extends
      <4>2. Sound(e)
        BY <2>3, <4>1, BeginStmtSound
      <4>3. /\ Extends(e, q) /\ e.inTrans = q.inTrans /\ e.levels # <<>>
            /\ e.nSavepoint = IF q.nSavepoint > r.nsav + 1 THEN q.nSavepoint
                              ELSE (r.nsav + 1) + 1
        BY <2>3, <2>4, <4>1, BeginStmtFact
      <4>4. Extends(e, b)
        BY <1>c, <2>3, <2>4, <4>2, <4>3, ExtendsTrans
      <4>5. /\ Len(m) < e.nSavepoint
            /\ e.nSavepoint <= Len(m) + 1 \/ "reading" \in r.odd
        BY <1>3, <1>c, <3>1, <3>q, <4>2, <4>3, Parts DEF Sound, Shaped
      <4> QED BY <2>4, <4>2, <4>3, <4>4, <4>5
    <3>2. CASE ~jj
      <4>1. /\ e = q /\ Len(m) < q.nSavepoint
            /\ q.nSavepoint <= Len(m) + 1 \/ "reading" \in r.odd
        BY <1>3, <1>c, <3>2, <3>q
      <4> QED BY <2>3, <2>4, <4>1
    <3> QED BY <3>1, <3>2
  <2> HIDE DEF e
  <2>6. MarksInv(e, s, db) /\ SeenInv(e, s, db) /\ DeletedInv(e)
    <3>1. \A k \in 1..Len(s.marks) :
            \/ k \in 1..Len(r.marks) /\ s.marks[k] = r.marks[k]
            \/ k + 1 > b.nSavepoint /\ s.marks[k] = r.want
            \/ b.dirty = NoWrites /\ s.marks[k] = r.want
      BY <1>3, <1>5, <1>c, <2>2
    <3>2. MarksInv(b, r, db) /\ SeenInv(b, r, db) /\ DeletedInv(b)
      BY <2>1 DEF Tracks
    <3> QED BY <1>5, <1>c, <2>5, <3>1, <3>2, ExtendsTracks
  <2>7. ModesInv(e, s)
    <3>1. /\ e.nSavepoint <= Len(s.marks) + 1 \/ "reading" \in s.odd
          /\ Len(s.marks) < e.nSavepoint /\ s.nread > 0 /\ e.nSavepoint > 0
      <4>1. e.nSavepoint \in Nat /\ Len(m) \in Nat
        BY <1>3, <2>5, Parts DEF Sound, Shaped
      <4> QED BY <1>3, <1>5, <1>c, <2>5, <4>1
    <3>2. e.dead = {} /\ ~e.dangling
      BY <1>1, <2>2, <2>5 DEF Extends, b
    <3> QED BY <1>5, <2>2, <2>5, <3>1, <3>2 DEF ModesInv
  <2> QED BY <2>6, <2>7 DEF Tracks
<1> HIDE DEF e, s
<1> QED BY <1>0, <1>6, <1>o, CleanStep

\* Calls that fail, and what sqlite3BtreeGetMeta does when it is a victim.
LEMMA BeginFailsClean ==
  ASSUME Base, CleanInv, NEW c \in Conns, NEW w \in BOOLEAN, BeginFails(c, w)
  PROVE  CleanInv'
<1> DEFINE r == cl[c]
           f == [r EXCEPT !.odd = @ \cup {"fault"}]
           p == IF f.auto THEN Over(f, con'[c], f.nread) ELSE f
           s == [p EXCEPT !.calls = @ + 1]
<1>1. SetCl(c, s) /\ db' = db
  BY DEF BeginFails, Called
<1>2. PICK q : SetCon(c, q)
  BY DEF BeginFails
<1>3. r \in Clients /\ con'[c] = q
  BY <1>2, ConnFacts DEF SetCon, Base, BdbTypeOK
<1>7. OnlyBy(c)
  BY <1>1, OnlyByPublished
<1> HIDE DEF r
<1>4. f \in Clients /\ "fault" \in f.odd /\ f.nread \in Nat
  <2>1. r.odd \cup {"fault"} \in SUBSET Oddities
    BY <1>3 DEF Clients, Oddities
  <2> QED BY <1>3, <2>1 DEF Clients
<1> HIDE DEF f
<1>5. p \in Clients
  BY <1>4, OverFields
<1>6. CASE f.auto /\ f.nread = 0 /\ q = IdleBtree
  <2>1. p = Over(f, q, 0) /\ 0 \in Nat
    BY <1>3, <1>4, <1>6
  <2>2. /\ ~p.writing /\ ~p.failed /\ p.want = NoWrites /\ p.marks = <<>> /\ p.seen = NoWrites
    BY <1>4, <2>1, OverFields
  <2>3. p.odd = {}
    BY <1>4, <1>6, <2>1, OverOdd
  <2> HIDE DEF p
  <2>4. /\ ~s.writing /\ ~s.failed /\ s.want = NoWrites /\ s.marks = <<>> /\ s.seen = NoWrites
        /\ s.odd = {}
    BY <1>5, <2>2, <2>3, CalledFact
  <2> HIDE DEF s
  <2>5. Tracks(q, s, db')
    BY <1>6, <2>4, FreshTracks
  <2> QED BY <1>1, <1>2, <1>7, <2>5, CleanStep
<1>8. CASE ~(f.auto /\ f.nread = 0 /\ q = IdleBtree)
  <2>1. "fault" \in p.odd
    <3>1. CASE f.auto
      <4>1. \A e : Over(f, e, f.nread).odd = IF f.nread = 0 /\ e = IdleBtree THEN {}
                                             ELSE IF e.deleted = {} THEN f.odd
                                             ELSE f.odd \cup {"forgotten"}
        BY <1>4, OverOdd
      <4>2. "fault" \in Over(f, q, f.nread).odd
        BY <1>4, <1>8, <3>1, <4>1
      <4>3. "fault" \in Over(f, con'[c], f.nread).odd
        BY <1>3, <4>2
      <4> QED BY <3>1, <4>3
    <3>2. CASE ~f.auto
      BY <1>4, <3>2
    <3> QED BY <3>1, <3>2
  <2> HIDE DEF p
  <2>2. "fault" \in s.odd
    BY <1>5, <2>1, CalledFact
  <2> HIDE DEF s
  <2>3. ~(s.odd \subseteq {"reading"})
    BY <2>2
  <2> QED BY <1>1, <1>2, <1>7, <2>3, OddStep
<1> QED BY <1>6, <1>8

LEMMA GetMetaVictimClean ==
  ASSUME Base, CleanInv, NEW c \in Conns, GetMetaVictim(c)
  PROVE  CleanInv'
<1> DEFINE r == cl[c]
           q == Rollback([con[c] EXCEPT !.wait = <<>>])
           s == [r EXCEPT !.failed = TRUE, !.odd = @ \cup {"metaRollback"}]
<1>1. SetCl(c, s) /\ SetCon(c, q) /\ db' = db
  BY DEF GetMetaVictim
<1>2. ~(s.odd \subseteq {"reading"})
  BY ConnFacts DEF Clients
<1>3. OnlyBy(c)
  BY <1>1, OnlyByPublished
<1> HIDE DEF s, q
<1> QED BY <1>1, <1>2, <1>3, OddStep

\* A Btree that has a transaction, and only more read locks or another wait.
LEMMA KeptTracks ==
  ASSUME NEW b, NEW q, NEW r, NEW s, NEW d, Tracks(b, r, d), b.levels # <<>>,
         q.dirty = b.dirty, q.levels = b.levels, q.nSavepoint = b.nSavepoint,
         q.deleted = b.deleted, b.rd \subseteq q.rd, q.dead = b.dead,
         q.inTrans = b.inTrans, q.dangling = b.dangling,
         s.want = r.want, s.marks = r.marks, s.seen = r.seen, s.auto = r.auto,
         s.nread = r.nread, s.writing = r.writing, s.failed = r.failed,
         s.nsav = r.nsav, s.odd = r.odd
  PROVE  Tracks(q, s, d)
<1>1. MarksInv(q, s, d) /\ SeenInv(q, s, d) /\ DeletedInv(q)
  BY SameTracks DEF Tracks
<1>2. ModesInv(q, s)
  BY DEF Tracks, ModesInv
<1> QED BY <1>1, <1>2 DEF Tracks

\* Who waits, or has a read transaction, has a transaction.
LEMMA WaitsInTrans ==
  ASSUME NEW b, NEW r, NEW d, Tracks(b, r, d), b.wait # <<>> \/ b.read
  PROVE  b.levels # <<>>
<1>1. IdleBtree.wait = <<>> /\ ~IdleBtree.read
  BY DEF IdleBtree
<1> DEFINE q == [IdleBtree EXCEPT !.inTrans = "READ"]
<1>2. q.wait = <<>> /\ ~q.read
  BY DEF IdleBtree
<1> HIDE DEF q
<1>3. b.levels = <<>> => b = IdleBtree \/ b = q
  BY DEF Tracks, ModesInv, q
<1> QED BY <1>1, <1>2, <1>3

LEMMA WaitFact ==
  ASSUME NEW b \in Btrees, NEW w
  PROVE  LET q == [b EXCEPT !.wait = w]
         IN /\ q.dirty = b.dirty /\ q.levels = b.levels /\ q.nSavepoint = b.nSavepoint
            /\ q.deleted = b.deleted /\ q.rd = b.rd /\ q.dead = b.dead
            /\ q.inTrans = b.inTrans /\ q.dangling = b.dangling /\ q.status = b.status
  BY DEF Btrees

LEMMA WaitClean ==
  ASSUME Base, CleanInv, NEW c \in Conns, NEW w, NEW s,
         SetCon(c, [con[c] EXCEPT !.wait = w]), SetCl(c, s), db' = db,
         con[c].levels # <<>>, con[c].status = "ok",
         s.want = cl[c].want, s.marks = cl[c].marks, s.seen = cl[c].seen,
         s.auto = cl[c].auto, s.nread = cl[c].nread, s.writing = cl[c].writing,
         s.failed = cl[c].failed, s.odd = cl[c].odd, s.nsav = cl[c].nsav
  PROVE  CleanInv'
<1> DEFINE q == [con[c] EXCEPT !.wait = w]
<1>1. con[c] \in Btrees /\ OnlyBy(c)
  BY ConnFacts, OnlyByPublished
<1>2. /\ q.dirty = con[c].dirty /\ q.levels = con[c].levels
      /\ q.nSavepoint = con[c].nSavepoint /\ q.deleted = con[c].deleted
      /\ q.rd = con[c].rd /\ q.dead = con[c].dead
      /\ q.inTrans = con[c].inTrans /\ q.dangling = con[c].dangling
  BY <1>1, WaitFact
<1>3. SetCon(c, q)
  OBVIOUS
<1> HIDE DEF q
<1>4. ASSUME s.odd \subseteq {"reading"} PROVE Tracks(q, s, db')
  <2>1. Tracks(con[c], cl[c], db)
    BY <1>4 DEF CleanInv, Clean
  <2> QED BY <1>2, <2>1, KeptTracks
<1> QED BY <1>1, <1>3, <1>4, CleanStep

LEMMA WreckedClean ==
  ASSUME Base, CleanInv, NEW c \in Conns, NEW s, SetCon(c, Wrecked(con[c])), SetCl(c, s), db' = db
  PROVE  CleanInv'
<1>1. con[c] \in Btrees /\ OnlyBy(c)
  BY ConnFacts, OnlyByPublished
<1> DEFINE q == Wrecked(con[c])
<1>2. q.status = "wrecked"
  BY <1>1 DEF Wrecked, Btrees
<1> HIDE DEF q
<1> QED BY <1>1, <1>2, CleanStep DEF q

LEMMA ReadFact ==
  ASSUME NEW w \in Writes, NEW t \in Tables, NEW x \in Contents,
         NEW y \in {Written(w, t, x), w}
  PROVE  \A u \in DOMAIN y : (u = t /\ y[u] = x) \/ (u \in DOMAIN w /\ y[u] = w[u])
<1> DEFINE z == Written(w, t, x)
<1>1. /\ DOMAIN z = DOMAIN w \cup {t} /\ z[t] = x
      /\ \A u \in DOMAIN w \ {t} : z[u] = w[u]
  BY WrittenFact
<1> HIDE DEF z
<1>2. \A u \in DOMAIN z : (u = t /\ z[u] = x) \/ (u \in DOMAIN w /\ z[u] = w[u])
  BY <1>1
<1> QED BY <1>2 DEF z

LEMMA ReadTableClean ==
  ASSUME Base, CleanInv, NEW c \in Conns, NEW t \in Tables, ReadTable(c, t)
  PROVE  CleanInv'
<1> DEFINE r == cl[c]
           b == con[c]
<1>1. b.status = "ok" /\ b.read /\ db' = db
  BY DEF ReadTable, MayCall
<1>t. r \in Clients /\ b \in Btrees /\ r.seen \in Writes /\ db \in [Tables -> Contents]
  BY ConnFacts
<1>o. OnlyBy(c)
  BY <1>1, OnlyByPublished
<1>2. CASE LockFree(c, t, "read")
  <2> DEFINE x == IF t \notin DOMAIN r.seen \cup DOMAIN r.want
                  THEN Written(r.seen, t, db[t]) ELSE r.seen
             p == [r EXCEPT !.seen = x]
             s == [p EXCEPT !.calls = @ + 1]
             q == [b EXCEPT !.rd = b.rd \cup {t}]
  <2>1. SetCon(c, q) /\ SetCl(c, s)
    BY <1>2 DEF ReadTable, Called
  <2>2. x \in Writes
    BY <1>t, WrittenFact
  <2>x. \A u \in DOMAIN x : (u = t /\ x[u] = db[t]) \/ (u \in DOMAIN r.seen /\ x[u] = r.seen[u])
    <3>1. x \in {Written(r.seen, t, db[t]), r.seen} /\ db[t] \in Contents
      BY <1>t
    <3> HIDE DEF x, p, s, q, b, r
    <3> QED BY <1>t, <3>1, ReadFact
  <2> HIDE DEF x
  <2>3. /\ s.want = r.want /\ s.marks = r.marks /\ s.seen = x /\ s.auto = r.auto
        /\ s.nread = r.nread /\ s.writing = r.writing /\ s.failed = r.failed /\ s.odd = r.odd
        /\ s.nsav = r.nsav
    <3>1. /\ p \in Clients /\ p.want = r.want /\ p.marks = r.marks /\ p.seen = x
          /\ p.auto = r.auto /\ p.nread = r.nread /\ p.writing = r.writing
          /\ p.failed = r.failed /\ p.odd = r.odd /\ p.nsav = r.nsav
      BY <1>t, <2>2 DEF Clients
    <3> HIDE DEF p
    <3> QED BY <3>1, CalledFact
  <2>4. /\ q.dirty = b.dirty /\ q.levels = b.levels /\ q.nSavepoint = b.nSavepoint
        /\ q.deleted = b.deleted /\ q.rd = b.rd \cup {t} /\ q.dead = b.dead
        /\ q.inTrans = b.inTrans /\ q.dangling = b.dangling
    BY <1>t DEF Btrees
  <2>5. ASSUME s.odd \subseteq {"reading"} PROVE Tracks(q, s, db)
    <3>1. Tracks(b, r, db)
      BY <1>1, <2>3, <2>5 DEF CleanInv, Clean
    <3> HIDE DEF b, r, s, q
    <3>2. b.levels # <<>>
      BY <1>1, <3>1, WaitsInTrans
    <3>3. MarksInv(q, s, db)
      BY <2>3, <2>4, <3>1 DEF Tracks, MarksInv
    <3>4. SeenInv(q, s, db)
      BY <2>3, <2>4, <2>x, <3>1 DEF Tracks, SeenInv
    <3>5. DeletedInv(q)
      BY <2>4, <3>1 DEF Tracks, DeletedInv
    <3>6. ModesInv(q, s)
      BY <2>3, <2>4, <3>1, <3>2 DEF Tracks, ModesInv
    <3> QED BY <3>3, <3>4, <3>5, <3>6 DEF Tracks
  <2> HIDE DEF s, q
  <2> QED BY <1>1, <1>o, <2>1, <2>5, CleanStep
<1>3. CASE ~LockFree(c, t, "read")
  <2>1. SetCon(c, [con[c] EXCEPT !.wait = <<t, "read">>]) /\ SetCl(c, cl[c])
    BY <1>3, ConnFacts DEF ReadTable, SetCl
  <2>2. CASE ~(r.odd \subseteq {"reading"})
    <3> DEFINE q == [con[c] EXCEPT !.wait = <<t, "read">>]
    <3> HIDE DEF q
    <3> QED BY <1>o, <2>1, <2>2, OddStep DEF q
  <2>3. CASE r.odd \subseteq {"reading"}
    <3>1. con[c].levels # <<>>
      BY <1>1, <2>3, WaitsInTrans DEF CleanInv, Clean
    <3> QED BY <1>1, <2>1, <3>1, WaitClean
  <2> QED BY <2>2, <2>3
<1> QED BY <1>2, <1>3

LEMMA GrantedClean ==
  ASSUME Base, CleanInv, NEW c \in Conns, Granted(c)
  PROVE  CleanInv'
<1>1. /\ SetCon(c, [con[c] EXCEPT !.wait = <<>>]) /\ SetCl(c, cl[c]) /\ db' = db
      /\ con[c].wait # <<>>
  BY ConnFacts DEF Granted, SetCl
<1>o. OnlyBy(c)
  BY <1>1, OnlyByPublished
<1> DEFINE q == [con[c] EXCEPT !.wait = <<>>]
<1>2. q.status = con[c].status
  BY ConnFacts DEF Btrees
<1>3. CASE ~(con[c].status = "ok" /\ cl[c].odd \subseteq {"reading"})
  <2> HIDE DEF q
  <2> QED BY <1>1, <1>2, <1>3, <1>o, CleanStep DEF q
<1>4. CASE con[c].status = "ok" /\ cl[c].odd \subseteq {"reading"}
  <2>1. con[c].levels # <<>>
    BY <1>1, <1>4, WaitsInTrans DEF CleanInv, Clean
  <2> QED BY <1>1, <1>4, <2>1, WaitClean
<1> QED BY <1>3, <1>4

LEMMA VictimClean ==
  ASSUME Base, CleanInv, NEW c \in Conns, Victim(c)
  PROVE  CleanInv'
<1> DEFINE r == cl[c]
           b == con[c]
           d == b.dead \cup {IF b.wait[2] = "read" THEN 0 ELSE Deepest(b)}
           q == [b EXCEPT !.wait = <<>>, !.dead = d]
           s == [r EXCEPT !.failed = TRUE]
<1>1. SetCon(c, q) /\ SetCl(c, s) /\ db' = db /\ b.wait # <<>>
  BY CycleWaits DEF Victim
<1>o. OnlyBy(c)
  BY <1>1, OnlyByPublished
<1> HIDE DEF d
<1>2. /\ q.dirty = b.dirty /\ q.levels = b.levels /\ q.nSavepoint = b.nSavepoint
      /\ q.deleted = b.deleted /\ q.rd = b.rd /\ q.status = b.status
      /\ q.inTrans = b.inTrans /\ q.dangling = b.dangling
  BY ConnFacts DEF Btrees
<1>3. /\ s.want = r.want /\ s.marks = r.marks /\ s.seen = r.seen /\ s.auto = r.auto
      /\ s.nread = r.nread /\ s.writing = r.writing /\ s.failed /\ s.odd = r.odd
      /\ s.nsav = r.nsav
  BY ConnFacts DEF Clients
<1>4. ASSUME q.status = "ok" /\ s.odd \subseteq {"reading"} PROVE Tracks(q, s, db)
  <2>1. Tracks(b, r, db)
    BY <1>2, <1>3, <1>4 DEF CleanInv, Clean
  <2> HIDE DEF b, r, s, q
  <2>2. b.levels # <<>>
    BY <1>1, <2>1, WaitsInTrans
  <2>3. MarksInv(q, s, db) /\ SeenInv(q, s, db) /\ DeletedInv(q)
    BY <1>2, <1>3, <2>1, SameTracks DEF Tracks
  <2>4. ModesInv(q, s)
    BY <1>2, <1>3, <2>1, <2>2 DEF Tracks, ModesInv
  <2> QED BY <2>3, <2>4 DEF Tracks
<1> HIDE DEF s, q
<1> QED BY <1>1, <1>4, <1>o, CleanStep

\* Both what the transaction and what the caller has written get x at t.
LEMMA MatchesWritten ==
  ASSUME NEW w \in Writes, NEW m \in Writes, NEW t \in Tables, NEW x \in Contents, NEW d,
         Matches(w, m, d)
  PROVE  Matches(Written(w, t, x), Written(m, t, x), d)
<1> DEFINE v == Written(w, t, x)
           n == Written(m, t, x)
<1>1. /\ DOMAIN v = DOMAIN w \cup {t} /\ v[t] = x
      /\ \A u \in DOMAIN w \ {t} : v[u] = w[u]
  BY WrittenFact, ZenonT(60)
<1>2. /\ DOMAIN n = DOMAIN m \cup {t} /\ n[t] = x
      /\ \A u \in DOMAIN m \ {t} : n[u] = m[u]
  BY WrittenFact, ZenonT(60)
<1> HIDE DEF v, n
<1>3. Matches(v, n, d)
  BY <1>1, <1>2 DEF Matches
<1> QED BY <1>3 DEF v, n

\* x is written to t: entries of deleted_tables stay, or t gets one, and is then
\* renamed away.
LEMMA ChangeTableClean ==
  ASSUME Base, CleanInv, NEW c \in Conns, NEW t \in Tables, NEW x \in Contents,
         NEW d, d \in SUBSET [table : Tables, level : Nat],
         \A e \in d : \/ e \in con[c].deleted /\ (e.table = t /\ Sees(c)[t].old => x.old)
                      \/ e.table = t /\ x.old /\ e.level = Deepest(con[c]),
         ChangeTable(c, t, x, d)
  PROVE  CleanInv'
<1> DEFINE r == cl[c]
           b == con[c]
<1>1. /\ b.status = "ok" /\ b.levels # <<>> /\ db' = db /\ r.writing
  BY DEF ChangeTable, MayCall
<1>t. /\ r \in Clients /\ b \in Btrees /\ b.dirty \in Writes /\ r.want \in Writes
      /\ Sound(b) /\ db \in [Tables -> Contents]
  BY ConnFacts, Parts
<1>o. OnlyBy(c)
  BY <1>1, OnlyByPublished
<1>2. CASE ~b.dangling /\ LockFree(c, t, "write")
  <2> DEFINE w == Written(b.dirty, t, x)
             v == Written(r.want, t, x)
             p == [r EXCEPT !.want = v]
             s == [p EXCEPT !.calls = @ + 1]
             q == [b EXCEPT !.dirty = w, !.deleted = d]
  <2>1. SetCon(c, q) /\ SetCl(c, s)
    BY <1>2 DEF ChangeTable, Called
  <2>2. v \in Writes
    BY <1>t, WrittenFact
  <2>w. /\ DOMAIN w = DOMAIN b.dirty \cup {t} /\ w[t] = x
        /\ \A u \in DOMAIN b.dirty \ {t} : w[u] = b.dirty[u]
    BY DEF Written
  <2>m. ASSUME Matches(b.dirty, r.want, db) PROVE Matches(w, v, db)
    BY <1>t, <2>m, MatchesWritten
  <2>s. t \in DOMAIN b.dirty => Sees(c)[t] = b.dirty[t]
    BY <1>t, ApplyFact DEF Sees
  <2> HIDE DEF w, v
  <2>3. /\ s.want = v /\ s.marks = r.marks /\ s.seen = r.seen /\ s.auto = r.auto
        /\ s.nread = r.nread /\ s.writing = r.writing /\ s.failed = r.failed /\ s.odd = r.odd
        /\ s.nsav = r.nsav
    <3>1. /\ p \in Clients /\ p.want = v /\ p.marks = r.marks /\ p.seen = r.seen
          /\ p.auto = r.auto /\ p.nread = r.nread /\ p.writing = r.writing
          /\ p.failed = r.failed /\ p.odd = r.odd /\ p.nsav = r.nsav
      BY <1>t, <2>2 DEF Clients
    <3> HIDE DEF p
    <3> QED BY <3>1, CalledFact
  <2>4. /\ q.dirty = w /\ q.levels = b.levels /\ q.nSavepoint = b.nSavepoint
        /\ q.deleted = d /\ q.rd = b.rd /\ q.dead = b.dead
        /\ q.inTrans = b.inTrans /\ q.dangling = b.dangling
    BY <1>t DEF Btrees
  <2>5. ASSUME s.odd \subseteq {"reading"} PROVE Tracks(q, s, db)
    <3>1. Tracks(b, r, db)
      BY <1>1, <2>3, <2>5 DEF CleanInv, Clean
    <3>d. Deepest(b) \in 1..Len(b.levels) /\ \A i \in 1..Len(b.levels) : ~(i > Deepest(b))
      BY <1>1, <1>t, Parts DEF Deepest
    <3>e. \A e \in d : \/ e \in b.deleted /\ (e.table = t /\ Sees(c)[t].old => x.old)
                       \/ e.table = t /\ x.old /\ e.level = Deepest(b)
      OBVIOUS
    <3>n. Len(r.marks) \in Nat /\ b.nSavepoint \in Nat
      BY <1>t, Parts DEF Clients
    <3> HIDE DEF b, r, s, q
    <3>2. MarksInv(q, s, db)
      <4>1. Matches(q.dirty, s.want, db)
        BY <2>3, <2>4, <2>m, <3>1 DEF Tracks, MarksInv
      <4>2. Len(r.marks) < b.nSavepoint
        BY <1>1, <3>1 DEF Tracks, ModesInv
      <4>3. \A k \in 1..Len(s.marks) :
              k + 1 <= b.nSavepoint /\ Matches(b.levels[k + 2], r.marks[k], db)
        BY <2>3, <3>1, <3>n, <4>2 DEF Tracks, MarksInv
      <4> QED BY <2>3, <2>4, <4>1, <4>3 DEF MarksInv
    <3>3. SeenInv(q, s, db)
      BY <2>3, <2>4, <3>1 DEF Tracks, SeenInv
    <3>4. DeletedInv(q)
      <4> SUFFICES ASSUME NEW e \in d
                   PROVE  /\ e.level \in 1..Len(b.levels)
                          /\ e.table \in DOMAIN w /\ w[e.table].old
                          /\ \A i \in 1..Len(b.levels) :
                               i > e.level => e.table \in DOMAIN b.levels[i]
                                              /\ b.levels[i][e.table].old
        BY <2>4 DEF DeletedInv
      <4>1. CASE e.table = t /\ x.old /\ e.level = Deepest(b)
        BY <2>w, <3>d, <4>1
      <4>2. CASE e \in b.deleted /\ (e.table = t /\ Sees(c)[t].old => x.old)
        <5>1. /\ e.level \in 1..Len(b.levels)
              /\ e.table \in DOMAIN b.dirty /\ b.dirty[e.table].old
              /\ \A i \in 1..Len(b.levels) :
                   i > e.level => e.table \in DOMAIN b.levels[i] /\ b.levels[i][e.table].old
          BY <3>1, <4>2 DEF Tracks, DeletedInv
        <5>2. CASE e.table = t
          <6>1. Sees(c)[t].old
            BY <2>s, <5>1, <5>2
          <6>2. x.old
            BY <4>2, <5>2, <6>1
          <6>3. e.table \in DOMAIN w /\ w[e.table].old
            BY <2>w, <5>2, <6>2
          <6> QED BY <5>1, <6>3
        <5>3. CASE e.table # t
          BY <2>w, <5>1, <5>3
        <5> QED BY <5>2, <5>3
      <4> QED BY <3>e, <4>1, <4>2
    <3>5. ModesInv(q, s)
      BY <1>1, <2>3, <2>4, <3>1 DEF Tracks, ModesInv
    <3> QED BY <3>2, <3>3, <3>4, <3>5 DEF Tracks
  <2> HIDE DEF s, q
  <2> QED BY <1>1, <1>o, <2>1, <2>5, CleanStep
<1>3. CASE ~b.dangling /\ ~LockFree(c, t, "write")
  <2>1. SetCon(c, [con[c] EXCEPT !.wait = <<t, "write">>]) /\ SetCl(c, cl[c])
    BY <1>3, ConnFacts DEF ChangeTable, SetCl
  <2> QED BY <1>1, <2>1, WaitClean
<1>4. CASE b.dangling
  <2>1. SetCon(c, Wrecked(con[c])) /\ SetCl(c, [cl[c] EXCEPT !.calls = @ + 1])
    BY <1>4 DEF ChangeTable, OnlyCalled, Called
  <2> DEFINE s == [cl[c] EXCEPT !.calls = @ + 1]
  <2> HIDE DEF s
  <2> QED BY <1>1, <2>1, WreckedClean DEF s
<1> QED BY <1>2, <1>3, <1>4

LEMMA ChangesClean ==
  ASSUME Base, CleanInv, NEW c \in Conns, NEW t \in Tables, Changes(c, t)
  PROVE  CleanInv'
<1>d. /\ WithEntry(c, t) \in SUBSET [table : Tables, level : Nat]
      /\ con[c].deleted \in SUBSET [table : Tables, level : Nat]
      /\ \A e \in WithEntry(c, t) : e \in con[c].deleted
                                    \/ (e.table = t /\ e.level = Deepest(con[c]))
  BY ChangesFact DEF WithEntry
<1>v. ASSUME NEW v \in Vals \cup {Absent},
             ChangeTable(c, t, [Sees(c)[t] EXCEPT !.val = v], con[c].deleted)
      PROVE  CleanInv'
  <2> DEFINE x == [Sees(c)[t] EXCEPT !.val = v]
             d == con[c].deleted
  <2>1. ChangeTable(c, t, x, d)
    BY <1>v
  <2>2. x \in Contents /\ x.old = Sees(c)[t].old
    BY ChangesFact
  <2>3. d \in SUBSET [table : Tables, level : Nat]
    BY <1>d
  <2> HIDE DEF x
  <2>4. \A e \in d : \/ e \in con[c].deleted /\ (e.table = t /\ Sees(c)[t].old => x.old)
                     \/ e.table = t /\ x.old /\ e.level = Deepest(con[c])
    BY <2>2
  <2> HIDE DEF d
  <2> QED BY <2>1, <2>2, <2>3, <2>4, ChangeTableClean
<1>w. ASSUME NEW x \in Contents, x.old, NEW d \in {con[c].deleted, WithEntry(c, t)},
             ChangeTable(c, t, x, d)
      PROVE  CleanInv'
  <2>1. d \in SUBSET [table : Tables, level : Nat]
    BY <1>d
  <2>2. \A e \in d : \/ e \in con[c].deleted /\ (e.table = t /\ Sees(c)[t].old => x.old)
                     \/ e.table = t /\ x.old /\ e.level = Deepest(con[c])
    BY <1>d, <1>w
  <2> QED BY <1>w, <2>1, <2>2, ChangeTableClean
<1>1. CASE CreateTable(c, t)
  BY <1>1, <1>v, ChangesFact DEF CreateTable
<1>2. CASE DropTable(c, t)
  <2> DEFINE x == [val |-> Absent, old |-> TRUE]
             d == IF Sees(c)[t].old /\ t \in ListedTables(c) THEN con[c].deleted
                  ELSE WithEntry(c, t)
  <2>1. ChangeTable(c, t, x, d) /\ x \in Contents /\ x.old
    BY <1>2, ChangesFact DEF DropTable
  <2>2. d \in {con[c].deleted, WithEntry(c, t)}
    OBVIOUS
  <2> HIDE DEF x, d
  <2> QED BY <1>w, <2>1, <2>2
<1>3. ASSUME NEW v \in Vals, WriteTable(c, t, v) PROVE CleanInv'
  BY <1>3, <1>v DEF WriteTable
<1>4. ASSUME NEW f \in BOOLEAN, ClearTable(c, t, f) PROVE CleanInv'
  <2>2. CASE ChangeTable(c, t, [val |-> Empty, old |-> TRUE], WithEntry(c, t))
    <3> DEFINE x == [val |-> Empty, old |-> TRUE]
    <3>1. ChangeTable(c, t, x, WithEntry(c, t)) /\ x \in Contents /\ x.old
      BY <2>2, ChangesFact
    <3> HIDE DEF x
    <3> QED BY <1>w, <3>1
  <2>3. CASE ChangeTable(c, t, [Sees(c)[t] EXCEPT !.val = Empty], con[c].deleted)
    BY <1>v, <2>3, ChangesFact
  <2> QED BY <1>4, <2>2, <2>3 DEF ClearTable
<1> QED BY <1>1, <1>2, <1>3, <1>4 DEF Changes

LEMMA LockSchemaClean ==
  ASSUME Base, CleanInv, NEW c \in Conns, NEW m \in {"read", "write"}, LockSchema(c, m)
  PROVE  CleanInv'
<1> DEFINE r == cl[c]
           b == con[c]
           s == [r EXCEPT !.calls = @ + 1]
<1>1. /\ b.status = "ok" /\ b.levels # <<>> /\ db' = db /\ SetCl(c, s)
      /\ m = "write" => r.writing
  BY DEF LockSchema, MayCall, OnlyCalled, Called
<1>t. /\ r \in Clients /\ b \in Btrees /\ b.dirty \in Writes /\ Sound(b)
      /\ db \in [Tables -> Contents]
  BY ConnFacts, Parts
<1>o. OnlyBy(c)
  BY <1>1, OnlyByPublished
<1>2. /\ s.want = r.want /\ s.marks = r.marks /\ s.seen = r.seen /\ s.auto = r.auto
      /\ s.nread = r.nread /\ s.writing = r.writing /\ s.failed = r.failed /\ s.odd = r.odd
      /\ s.nsav = r.nsav
  BY <1>t, CalledFact
<1>3. CASE m = "write" /\ b.dangling
  <2>1. SetCon(c, Wrecked(con[c]))
    BY <1>3 DEF LockSchema
  <2> HIDE DEF s
  <2> QED BY <1>1, <2>1, WreckedClean
<1>4. CASE ~(m = "write" /\ b.dangling) /\ ~LockFree(c, Master, m)
  <2>1. SetCon(c, [con[c] EXCEPT !.wait = <<Master, m>>])
    BY <1>4 DEF LockSchema
  <2> HIDE DEF s
  <2> QED BY <1>1, <1>2, <2>1, WaitClean
<1>5. CASE m = "read" /\ LockFree(c, Master, m)
  <2> DEFINE n == [mode |-> "read", level |-> 0]
             q == [b EXCEPT !.rd = b.rd \cup {Master}, !.schema = n]
  <2>1. SetCon(c, q)
    BY <1>5 DEF LockSchema
  <2> HIDE DEF n
  <2>2. /\ q.dirty = b.dirty /\ q.levels = b.levels /\ q.nSavepoint = b.nSavepoint
        /\ q.deleted = b.deleted /\ q.rd = b.rd \cup {Master} /\ q.dead = b.dead
        /\ q.inTrans = b.inTrans /\ q.dangling = b.dangling
    BY <1>t DEF Btrees
  <2>3. ASSUME s.odd \subseteq {"reading"} PROVE Tracks(q, s, db)
    <3>1. Tracks(b, r, db)
      BY <1>1, <1>2, <2>3 DEF CleanInv, Clean
    <3> HIDE DEF b, r, s, q
    <3>2. b.rd \subseteq q.rd
      BY <2>2
    <3> QED BY <1>1, <1>2, <2>2, <3>1, <3>2, KeptTracks
  <2> HIDE DEF s, q
  <2> QED BY <1>1, <1>o, <2>1, <2>3, CleanStep
<1>6. CASE m = "write" /\ ~b.dangling /\ LockFree(c, Master, m)
  <2> DEFINE n == [mode |-> "write", level |-> Deepest(b)]
             w == Apply(b.dirty, [t \in {Master} |-> db[t]])
             q == [b EXCEPT !.dirty = w, !.schema = n]
  <2>1. SetCon(c, q)
    BY <1>6 DEF LockSchema
  <2>w. /\ DOMAIN w = DOMAIN b.dirty \cup {Master}
        /\ \A t \in DOMAIN b.dirty : w[t] = b.dirty[t]
        /\ Master \notin DOMAIN b.dirty => w[Master] = db[Master]
    BY DEF Apply
  <2> HIDE DEF n, w
  <2>2. /\ q.dirty = w /\ q.levels = b.levels /\ q.nSavepoint = b.nSavepoint
        /\ q.deleted = b.deleted /\ q.rd = b.rd /\ q.dead = b.dead
        /\ q.inTrans = b.inTrans /\ q.dangling = b.dangling
    BY <1>t DEF Btrees
  <2>3. ASSUME s.odd \subseteq {"reading"} PROVE Tracks(q, s, db)
    <3>1. Tracks(b, r, db)
      BY <1>1, <1>2, <2>3 DEF CleanInv, Clean
    <3> HIDE DEF b, r, s, q
    <3>2. Matches(w, r.want, db)
      BY <2>w, <3>1 DEF Tracks, MarksInv, Matches
    <3>3. MarksInv(q, s, db)
      BY <1>2, <2>2, <3>1, <3>2 DEF Tracks, MarksInv
    <3>4. SeenInv(q, s, db)
      BY <1>2, <2>2, <3>1 DEF Tracks, SeenInv
    <3>5. DeletedInv(q)
      BY <2>2, <2>w, <3>1 DEF Tracks, DeletedInv
    <3>6. ModesInv(q, s)
      BY <1>1, <1>2, <1>6, <2>2, <3>1 DEF Tracks, ModesInv
    <3> QED BY <3>3, <3>4, <3>5, <3>6 DEF Tracks
  <2> HIDE DEF s, q
  <2> QED BY <1>1, <1>o, <2>1, <2>3, CleanStep
<1> QED BY <1>3, <1>4, <1>5, <1>6

-----------------------------------------------------------------------------
\* The end of a transaction leaves nothing of it in the Btree.
LEMMA IdleAlready ==
  /\ [IdleBtree EXCEPT !.schema = NoSchemaLock] = IdleBtree
  /\ [IdleBtree EXCEPT !.deleted = {}] = IdleBtree
  /\ [IdleBtree EXCEPT !.inTrans = "NONE", !.schema = NoSchemaLock] = IdleBtree
  /\ [[IdleBtree EXCEPT !.inTrans = "READ"]
        EXCEPT !.inTrans = "NONE", !.schema = NoSchemaLock] = IdleBtree
<1>1. IdleBtree \in Btrees
  BY IdleSound DEF Sound, Shaped
<1>2. /\ IdleBtree.schema = NoSchemaLock /\ IdleBtree.deleted = {}
      /\ IdleBtree.inTrans = "NONE"
  BY DEF IdleBtree
<1>3. ASSUME NEW b \in Btrees
      PROVE  /\ [b EXCEPT !.schema = b.schema] = b /\ [b EXCEPT !.deleted = b.deleted] = b
             /\ [b EXCEPT !.inTrans = b.inTrans, !.schema = b.schema] = b
             /\ [[b EXCEPT !.inTrans = "READ"]
                   EXCEPT !.inTrans = b.inTrans, !.schema = b.schema] = b
  BY DEF Btrees
<1>4. /\ [IdleBtree EXCEPT !.schema = IdleBtree.schema] = IdleBtree
      /\ [IdleBtree EXCEPT !.deleted = IdleBtree.deleted] = IdleBtree
      /\ [IdleBtree EXCEPT !.inTrans = IdleBtree.inTrans, !.schema = IdleBtree.schema]
           = IdleBtree
      /\ [[IdleBtree EXCEPT !.inTrans = "READ"]
            EXCEPT !.inTrans = IdleBtree.inTrans, !.schema = IdleBtree.schema] = IdleBtree
  BY <1>1, <1>3
<1> QED BY <1>2, <1>4

LEMMA RolledBack ==
  ASSUME NEW b \in Btrees, NEW r, NEW d, Tracks(b, r, d), ~r.auto \/ r.failed \/ r.writing
  PROVE  /\ Rollback(b) = IdleBtree \/ Rollback(b).deleted # {}
         /\ ~r.auto \/ r.writing => Rollback(b) = IdleBtree
<1>m. ModesInv(b, r)
  BY DEF Tracks
<1>1. CASE b.levels = <<>>
  <2>1. [IdleBtree EXCEPT !.inTrans = "READ"].inTrans = "READ" /\ IdleBtree.inTrans = "NONE"
    BY DEF IdleBtree
  <2>2. b = IdleBtree
    <3> DEFINE q == [IdleBtree EXCEPT !.inTrans = "READ"]
    <3>1. q.inTrans = "READ"
      BY <2>1
    <3> HIDE DEF q
    <3>2. b = IdleBtree \/ (b = q /\ r.auto)
      BY <1>1, <1>m DEF ModesInv, q
    <3>3. ~r.failed /\ (r.writing => b.inTrans = "WRITE")
      BY <1>1, <1>m DEF ModesInv
    <3> QED BY <3>1, <3>2, <3>3
  <2>3. [IdleBtree EXCEPT !.schema = NoSchemaLock] = IdleBtree
    BY IdleAlready
  <2> QED BY <1>1, <2>2, <2>3 DEF Rollback
<1>2. CASE b.levels # <<>>
  <2> DEFINE D == IF b.inTrans = "WRITE" THEN {} ELSE b.deleted
             q == [IdleBtree EXCEPT !.deleted = D]
  <2>1. ~b.dangling /\ b.nSavepoint # 0 /\ (~r.auto \/ r.writing => D = {})
    BY <1>2, <1>m DEF ModesInv
  <2>2. Rollback(b) = q
    BY <1>2, <2>1 DEF Rollback
  <2>3. D = {} => q = IdleBtree
    BY IdleAlready
  <2>4. q.deleted = D
    BY DEF IdleBtree
  <2> HIDE DEF q, D
  <2> QED BY <2>1, <2>2, <2>3, <2>4
<1> QED BY <1>1, <1>2

LEMMA Committed ==
  ASSUME NEW b \in Btrees, NEW r, NEW d, Tracks(b, r, d), NEW n \in Nat, n <= 1
  PROVE  CommitPhaseTwo(b, n) = IdleBtree
<1>n. ~(n > 1)
  OBVIOUS
<1>1. CASE b.levels # <<>>
  BY <1>1 DEF CommitPhaseTwo, Ends
<1>2. CASE b.levels = <<>>
  <2> DEFINE q == [IdleBtree EXCEPT !.inTrans = "READ"]
  <2>1. b = IdleBtree \/ b = q
    BY <1>2 DEF Tracks, ModesInv
  <2>2. IdleBtree.inTrans = "NONE" /\ q.inTrans = "READ"
    BY DEF IdleBtree
  <2>3. /\ [q EXCEPT !.inTrans = "NONE", !.schema = NoSchemaLock] = IdleBtree
        /\ [IdleBtree EXCEPT !.inTrans = "NONE", !.schema = NoSchemaLock] = IdleBtree
    BY IdleAlready
  <2> HIDE DEF q
  <2>4. ~Ends(b, n) /\ b.inTrans # "WRITE"
    BY <1>2, <2>1, <2>2 DEF Ends
  <2>5. CommitPhaseTwo(b, n) = [b EXCEPT !.inTrans = "NONE", !.schema = NoSchemaLock]
    BY <1>n, <2>4 DEF CommitPhaseTwo
  <2> QED BY <2>1, <2>3, <2>5
<1> QED BY <1>1, <1>2

\* A transaction ends, and the caller starts afresh.
LEMMA OverClean ==
  ASSUME Base, CleanInv, NEW c \in Conns, NEW q, NEW n \in Nat,
         SetCon(c, q), SetCl(c, Over(cl[c], q, n)), OnlyBy(c), con[c].status = "ok",
         Clean(c) => \/ q = IdleBtree
                     \/ q = [IdleBtree EXCEPT !.inTrans = "READ"] /\ n > 0
                     \/ q.deleted # {}
  PROVE  CleanInv'
<1> DEFINE s == Over(cl[c], q, n)
<1>1. cl[c] \in Clients
  BY ConnFacts
<1>2. s.odd = IF n = 0 /\ q = IdleBtree THEN {}
              ELSE IF q.deleted = {} THEN cl[c].odd ELSE cl[c].odd \cup {"forgotten"}
  BY <1>1, OverOdd
<1>t. /\ ~s.writing /\ ~s.failed /\ s.want = NoWrites /\ s.marks = <<>> /\ s.seen = NoWrites
      /\ s.auto /\ s.nread = n /\ s.nsav = 0
  BY <1>1, OverFields
<1>6. SetCl(c, s)
  OBVIOUS
<1> HIDE DEF s
<1>5. ASSUME s.odd \subseteq {"reading"} PROVE Tracks(q, s, db')
  <2>1. CASE q = IdleBtree /\ n = 0
    <3>1. s.odd = {}
      BY <1>2, <2>1
    <3> QED BY <1>t, <2>1, <3>1, FreshTracks
  <2>2. CASE ~(q = IdleBtree /\ n = 0)
    <3>1. q.deleted = {} /\ cl[c].odd \subseteq {"reading"}
      BY <1>2, <1>5, <2>2
    <3>2. q = IdleBtree \/ (q = [IdleBtree EXCEPT !.inTrans = "READ"] /\ n > 0)
      BY <3>1 DEF Clean
    <3>3. n > 0
      BY <2>2, <3>2, BdbAssumption
    <3>4. CASE q = IdleBtree
      BY <1>t, <3>3, <3>4, FreshTracks
    <3>5. CASE q = [IdleBtree EXCEPT !.inTrans = "READ"]
      <4>1. Tracks([IdleBtree EXCEPT !.inTrans = "READ"], s, db')
        BY <1>t, <3>3, FreshReads
      <4> QED BY <3>5, <4>1
    <3> QED BY <3>2, <3>4, <3>5
  <2> QED BY <2>1, <2>2
<1> QED BY <1>5, <1>6, CleanStep

\* The commit by the statement ROLLBACK finds nothing to commit.
LEMMA IdleCommitted ==
  ASSUME NEW n \in Nat
  PROVE  CommitPhaseTwo(IdleBtree, n)
           = IF n > 1 THEN [IdleBtree EXCEPT !.inTrans = "READ"] ELSE IdleBtree
<1>1. IdleBtree.levels = <<>> /\ IdleBtree.inTrans = "NONE"
  BY DEF IdleBtree
<1>2. ~Ends(IdleBtree, n) /\ IdleBtree.inTrans # "WRITE"
  BY <1>1 DEF Ends
<1>3. CASE n > 1
  BY <1>2, <1>3 DEF CommitPhaseTwo
<1>4. CASE ~(n > 1)
  BY <1>2, <1>4, IdleAlready DEF CommitPhaseTwo
<1> QED BY <1>3, <1>4

LEMMA RollbackTxClean ==
  ASSUME Base, CleanInv, NEW c \in Conns, RollbackTx(c)
  PROVE  CleanInv'
<1> DEFINE r == cl[c]
           n == r.nread + 1
           b == Rollback(con[c])
           q == IF b.status = "ok" THEN CommitPhaseTwo(b, n) ELSE b
<1>1. /\ SetCon(c, q) /\ db' = (IF b.status = "ok" THEN Published(b, n) ELSE db)
      /\ con[c].status = "ok" /\ ~r.auto
  BY DEF RollbackTx, Usable
<1>2. con'[c] = q
  BY <1>1 DEF SetCon, Base, BdbTypeOK
<1>3. SetCl(c, Over(cl[c], con'[c], r.nread))
  BY DEF RollbackTx
<1>4. SetCl(c, Over(cl[c], q, r.nread))
  BY <1>2, <1>3
<1>n. r.nread \in Nat /\ r.nread \in Nat /\ n \in Nat
  BY ConnFacts
<1>5. ASSUME Clean(c)
      PROVE  q = IdleBtree \/ (q = [IdleBtree EXCEPT !.inTrans = "READ"] /\ r.nread > 0)
  <2>1. b = IdleBtree
    BY <1>1, <1>5, ConnFacts, RolledBack DEF CleanInv
  <2>2. q = CommitPhaseTwo(IdleBtree, n)
    BY <2>1 DEF IdleBtree
  <2>3. q = IF n > 1 THEN [IdleBtree EXCEPT !.inTrans = "READ"] ELSE IdleBtree
    BY <1>n, <2>2, IdleCommitted
  <2> HIDE DEF q
  <2> QED BY <1>n, <2>3
<1>6. OnlyBy(c)
  <2>1. Sound(b) /\ Within(b, con[c])
    BY ConnFacts, RollbackSound
  <2> QED BY <1>1, <2>1, OnlyByWithin
<1> HIDE DEF q, b, n
<1> QED BY <1>1, <1>4, <1>5, <1>6, <1>n, OverClean

\* A commit that is answered while statements still read: what was written stays in
\* the transactions that are left, the caller has no savepoint any more.
LEMMA AnsweredTracks ==
  ASSUME NEW b, Sound(b), NEW r \in Clients, NEW s, NEW d, Tracks(b, r, d),
         NEW n \in Nat, n > 1, ~CommitPhaseTwo(b, n).dangling,
         b.inTrans = "WRITE" /\ b.nSavepoint > 1 => \A l \in b.dead : ~(l > 2),
         s.want = r.want, s.seen = r.seen, s.marks = <<>>, s.auto, s.nread > 0, s.nsav = 0,
         ~s.writing, ~s.failed, "reading" \in s.odd
  PROVE  Tracks(CommitPhaseTwo(b, n), s, d)
<1> DEFINE p == IF b.inTrans = "WRITE" THEN BtreeSavepoint(b, "release", 0) ELSE b
           q == CommitPhaseTwo(b, n)
<1>t. /\ b \in Btrees /\ b.nSavepoint \in Nat /\ Len(b.levels) \in Nat
      /\ r.marks \in Seq(Writes)
  BY Parts DEF Sound, Shaped, Clients
<1>m. MarksInv(b, r, d) /\ SeenInv(b, r, d) /\ DeletedInv(b) /\ ModesInv(b, r)
  BY DEF Tracks
<1>0. q = [p EXCEPT !.inTrans = "READ"] /\ Len(s.marks) = 0 /\ ~q.dangling
  BY DEF CommitPhaseTwo, Ends
<1>1. CASE b.inTrans = "WRITE" /\ b.levels # <<>> /\ 2 <= b.nSavepoint
  <2> DEFINE e == LevelsEnded(b, "release", 3, 1)
  <2>1. BtreeSavepoint(b, "release", 0) = ChainEnded(b, "release", 0)
    BY <1>1, <1>t DEF BtreeSavepoint, AbortsRead
  <2>2. ChainEnded(b, "release", 0) = LevelsEnded(b, "release", 0 + 3, 0 + 1)
    BY <1>m DEF ChainEnded, ModesInv
  <2>3. p = LevelsEnded(b, "release", 0 + 3, 0 + 1)
    BY <1>1, <2>1, <2>2
  <2>4. p \in Btrees
    <3>1. Sound(BtreeSavepoint(b, "release", 0))
      BY SavepointSound
    <3> QED BY <1>1, <3>1 DEF Sound, Shaped
  <2> HIDE DEF p
  <2>5. ~p.dangling
    BY <1>0, <2>4 DEF Btrees
  <2>6. \A l \in b.dead : l < 0 + 3
    <3>1. \A l \in b.dead : l \in Nat /\ ~(l > 2)
      BY <1>1, <1>t DEF Btrees
    <3> QED BY <3>1
  <2>7. /\ MarksInv(p, s, d) /\ SeenInv(p, s, d) /\ DeletedInv(p)
        /\ p.nSavepoint = 1 /\ p.levels # <<>>
    <3>1. PICK i \in Nat : i = 0
      OBVIOUS
    <3>2. /\ p = LevelsEnded(b, "release", i + 3, i + 1) /\ i + 2 <= b.nSavepoint
          /\ \A l \in b.dead : l < i + 3
      BY <1>1, <2>3, <2>6, <3>1
    <3>3. /\ Len(s.marks) \in Nat /\ Len(s.marks) <= i
          /\ \A k \in 1..Len(s.marks) : k \in 1..Len(r.marks) /\ s.marks[k] = r.marks[k]
      BY <1>0, <3>1
    <3>4. /\ MarksInv(p, s, d) /\ SeenInv(p, s, d) /\ DeletedInv(p)
          /\ p.nSavepoint = i + 1 /\ p.levels # <<>>
      <4>1. ~LevelsEnded(b, "release", i + 3, i + 1).dangling
        BY <2>5, <3>2
      <4>2. /\ MarksInv(LevelsEnded(b, "release", i + 3, i + 1), s, d)
            /\ SeenInv(LevelsEnded(b, "release", i + 3, i + 1), s, d)
            /\ DeletedInv(LevelsEnded(b, "release", i + 3, i + 1))
            /\ LevelsEnded(b, "release", i + 3, i + 1).nSavepoint = i + 1
            /\ LevelsEnded(b, "release", i + 3, i + 1).levels # <<>>
        BY <1>1, <1>m, <1>t, <3>2, <3>3, <4>1, EndedTracks, ZenonT(60)
      <4> QED BY <3>2, <4>2
    <3> QED BY <3>1, <3>4
  <2>8. /\ q.dirty = p.dirty /\ q.levels = p.levels /\ q.nSavepoint = p.nSavepoint
        /\ q.deleted = p.deleted /\ q.rd = p.rd /\ q.inTrans = "READ"
    BY <1>0, <2>4 DEF Btrees
  <2> HIDE DEF q
  <2>9. MarksInv(q, s, d) /\ SeenInv(q, s, d) /\ DeletedInv(q)
    BY <2>7, <2>8, SameTracks
  <2>10. ModesInv(q, s)
    BY <1>0, <2>7, <2>8 DEF ModesInv
  <2>11. Tracks(q, s, d)
    BY <2>9, <2>10 DEF Tracks
  <2> QED BY <2>11 DEF q
<1>2. CASE ~(b.inTrans = "WRITE" /\ b.levels # <<>> /\ 2 <= b.nSavepoint)
  <2>1. BtreeSavepoint(b, "release", 0) = b \/ b.inTrans # "WRITE"
    BY <1>2, <1>t DEF BtreeSavepoint, AbortsRead
  <2>2. p = b
    BY <2>1
  <2> HIDE DEF p
  <2>8. /\ q = [b EXCEPT !.inTrans = "READ"]
        /\ q.dirty = b.dirty /\ q.levels = b.levels /\ q.nSavepoint = b.nSavepoint
        /\ q.deleted = b.deleted /\ q.rd = b.rd /\ q.inTrans = "READ"
    BY <1>0, <1>t, <2>2 DEF Btrees
  <2> HIDE DEF q
  <2>9. MarksInv(q, s, d) /\ SeenInv(q, s, d) /\ DeletedInv(q)
    <3>1. Matches(q.dirty, s.want, d)
      BY <1>m, <2>8 DEF MarksInv
    <3>2. MarksInv(q, s, d)
      BY <1>0, <3>1 DEF MarksInv
    <3>3. SeenInv(q, s, d)
      BY <1>m, <2>8 DEF SeenInv
    <3>4. DeletedInv(q)
      BY <1>m, <2>8 DEF DeletedInv
    <3> QED BY <3>2, <3>3, <3>4
  <2>3. q.levels = <<>> => q = [IdleBtree EXCEPT !.inTrans = "READ"]
    <3> DEFINE e == [IdleBtree EXCEPT !.inTrans = "READ"]
    <3>1. [e EXCEPT !.inTrans = "READ"] = e
      BY DEF IdleBtree
    <3>2. b.levels = <<>> => b = IdleBtree \/ b = e
      BY <1>m DEF ModesInv
    <3> QED BY <2>8, <3>1, <3>2
  <2>4. q.nSavepoint <= 1 \/ q.dirty = NoWrites
    <3>1. CASE b.inTrans = "WRITE"
      <4>1. b.levels = <<>> => b.nSavepoint = 0
        BY DEF Sound, Shaped
      <4> QED BY <1>2, <1>t, <2>8, <3>1, <4>1
    <3>2. CASE b.inTrans # "WRITE"
      BY <1>m, <2>8, <3>2 DEF ModesInv
    <3> QED BY <3>1, <3>2
  <2>10. ModesInv(q, s)
    BY <1>0, <1>m, <2>3, <2>4, <2>8 DEF ModesInv
  <2>11. Tracks(q, s, d)
    BY <2>9, <2>10 DEF Tracks
  <2> QED BY <2>11 DEF q
<1> QED BY <1>1, <1>2

LEMMA CommitTxClean ==
  ASSUME Base, CleanInv, NEW c \in Conns, CommitTx(c)
  PROVE  CleanInv'
<1> DEFINE r == cl[c]
           b == con[c]
           n == r.nread + 1
           q == CommitPhaseTwo(b, n)
           f == [r EXCEPT !.odd = @ \cup {"fault"}]
           s == Answered(r, q)
<1>1. /\ SetCon(c, q) /\ db' = Published(b, n) /\ b.status = "ok"
      /\ ~r.auto /\ ~r.writing /\ ~r.failed
  BY DEF CommitTx, Usable
<1>2. con'[c] = q
  BY <1>1 DEF SetCon, Base, BdbTypeOK
<1>3. SetCl(c, IF CommitFails(b, n) THEN f
               ELSE IF n = 1 THEN Over(r, con'[c], 0) ELSE Answered(r, con'[c]))
  BY DEF CommitTx
<1>n. /\ r.nread \in Nat /\ n \in Nat /\ b \in Btrees /\ r \in Clients /\ Sound(b)
      /\ 0 \in Nat /\ Within(b, con[c])
  BY ConnFacts
<1>4. OnlyBy(c)
  BY <1>1, <1>n, OnlyByWithin
<1>5. CASE CommitFails(b, n)
  <2>1. SetCl(c, f)
    BY <1>3, <1>5
  <2>2. ~(f.odd \subseteq {"reading"})
    BY <1>n DEF Clients
  <2> HIDE DEF q, f
  <2> QED BY <1>1, <1>4, <2>1, <2>2, OddStep
<1>6. CASE ~CommitFails(b, n) /\ n = 1
  <2>1. Clean(c) => q = IdleBtree
    BY <1>6, <1>n, Committed DEF CleanInv
  <2> HIDE DEF q
  <2>2. SetCl(c, Over(cl[c], q, 0))
    BY <1>2, <1>3, <1>6
  <2> QED BY <1>1, <1>4, <1>n, <2>1, <2>2, OverClean
<1>7. CASE ~CommitFails(b, n) /\ n # 1
  <2>1. SetCl(c, s) /\ n > 1 /\ r.nread > 0
    BY <1>2, <1>3, <1>7, <1>n
  <2>2. /\ s.nread = r.nread /\ s.auto /\ s.writing = r.writing /\ s.failed = r.failed
        /\ s.nsav = 0 /\ s.marks = <<>> /\ s.want = r.want /\ s.seen = r.seen
        /\ s.odd = r.odd \cup {"reading"} \cup Dangling(q)
    BY <1>n, AnsweredFact
  <2> HIDE DEF s
  <2>3. ASSUME s.odd \subseteq {"reading"} PROVE Tracks(q, s, db')
    <3> DEFINE x == q.dangling
    <3>0. Dangling(q) = IF x THEN {"dangling"} ELSE {}
      BY DEF Dangling
    <3> HIDE DEF x
    <3>1. r.odd \subseteq {"reading"} /\ ~x
      BY <2>2, <2>3, <3>0
    <3>2. Tracks(b, r, db)
      BY <1>1, <3>1 DEF CleanInv, Clean
    <3>3. b.inTrans = "WRITE" /\ b.nSavepoint > 1 => \A l \in b.dead : ~(l > 2)
      BY <1>7 DEF CommitFails
    <3>4. db' = db
      <4>1. ~(n <= 1)
        BY <1>n, <2>1
      <4> HIDE DEF n
      <4> QED BY <1>1, <4>1 DEF Published, Ends
    <3>5. "reading" \in s.odd
      BY <2>2
    <3> HIDE DEF b, r, n
    <3>6. Tracks(CommitPhaseTwo(b, n), s, db)
      BY <1>1, <1>n, <2>1, <2>2, <3>1, <3>2, <3>3, <3>5, AnsweredTracks DEF x
    <3> QED BY <3>4, <3>6
  <2> HIDE DEF q
  <2> QED BY <1>1, <1>4, <2>1, <2>3, CleanStep
<1> QED BY <1>5, <1>6, <1>7

LEMMA FailReadClean ==
  ASSUME Base, CleanInv, NEW c \in Conns, FailRead(c)
  PROVE  CleanInv'
<1> DEFINE r == cl[c]
           b == con[c]
<1>1. b.status = "ok" /\ r.failed /\ ~r.writing /\ db' = db
  BY DEF FailRead, Usable
<1>t. /\ r \in Clients /\ b \in Btrees /\ Asked(b, r) /\ OnlyBy(c) /\ r.nread \in Nat
  BY <1>1, ConnFacts, OnlyByPublished
<1>n. r.nread > 0 /\ r.nread - 1 \in Nat
  BY <1>1, <1>t, FewerFact DEF Asked
<1>2. CASE r.auto
  <2> DEFINE q == Rollback(b)
  <2>1. SetCon(c, q)
    BY <1>2 DEF FailRead
  <2>2. con'[c] = q
    BY <2>1 DEF SetCon, Base, BdbTypeOK
  <2>3. SetCl(c, Over(r, con'[c], r.nread - 1))
    BY <1>2 DEF FailRead
  <2>4. Clean(c) => q = IdleBtree \/ q.deleted # {}
    BY <1>1, <1>t, RolledBack DEF CleanInv
  <2> HIDE DEF q
  <2>5. SetCl(c, Over(r, q, r.nread - 1))
    BY <2>2, <2>3
  <2> QED BY <1>1, <1>n, <1>t, <2>1, <2>4, <2>5, OverClean
<1>3. CASE ~r.auto
  <2> DEFINE s == [r EXCEPT !.failed = FALSE, !.nread = @ - 1]
  <2>1. SetCon(c, b) /\ SetCl(c, s)
    BY <1>3 DEF FailRead
  <2>2. /\ s.want = r.want /\ s.marks = r.marks /\ s.seen = r.seen /\ s.auto = r.auto
        /\ s.writing = r.writing /\ ~s.failed /\ s.odd = r.odd
    BY <1>t DEF Clients
  <2>3. ASSUME s.odd \subseteq {"reading"} PROVE Tracks(b, s, db)
    <3>1. Tracks(b, r, db)
      BY <1>1, <2>2, <2>3 DEF CleanInv, Clean
    <3> HIDE DEF b, r, s
    <3>2. MarksInv(b, s, db) /\ SeenInv(b, s, db) /\ DeletedInv(b)
      BY <2>2, <3>1, SameTracks DEF Tracks
    <3>3. b.levels # <<>>
      BY <1>1, <3>1 DEF Tracks, ModesInv
    <3>4. ModesInv(b, s)
      BY <1>1, <1>3, <2>2, <3>1, <3>3 DEF Tracks, ModesInv
    <3> QED BY <3>2, <3>4 DEF Tracks
  <2> HIDE DEF s, b
  <2> QED BY <1>1, <1>t, <2>1, <2>3, CleanStep
<1> QED BY <1>2, <1>3

LEMMA EndReadClean ==
  ASSUME Base, CleanInv, NEW c \in Conns, EndRead(c)
  PROVE  CleanInv'
<1> DEFINE r == cl[c]
           b == con[c]
           commits == r.auto /\ ~r.writing
<1>1. /\ b.status = "ok" /\ ~r.failed /\ r.nread > (IF r.writing THEN 1 ELSE 0)
  BY DEF EndRead, Usable
<1>t. r \in Clients /\ b \in Btrees /\ r.nread \in Nat /\ r.nread \in Nat
  BY ConnFacts
<1>2. CASE commits /\ r.nread = 1
  <2> DEFINE q == CommitPhaseTwo(b, r.nread)
  <2>1. SetCon(c, q) /\ db' = Published(b, r.nread)
    BY <1>2 DEF EndRead
  <2>2. con'[c] = q
    BY <2>1 DEF SetCon, Base, BdbTypeOK
  <2>3. SetCl(c, Over(r, con'[c], 0))
    BY <1>2 DEF EndRead
  <2>4. Clean(c) => q = IdleBtree
    BY <1>2, <1>t, Committed DEF CleanInv
  <2>5. OnlyBy(c) /\ 0 \in Nat
    BY <2>1, <1>t, OnlyByPublished, BdbAssumption
  <2> HIDE DEF q
  <2>6. SetCl(c, Over(r, q, 0))
    BY <2>2, <2>3
  <2> QED BY <1>1, <2>1, <2>4, <2>5, <2>6, OverClean
<1>3. CASE ~(commits /\ r.nread = 1)
  <2> DEFINE s == [r EXCEPT !.nread = @ - 1]
             q == IF commits THEN CommitPhaseTwo(b, r.nread) ELSE b
  <2>1. SetCon(c, q) /\ db' = (IF commits THEN Published(b, r.nread) ELSE db)
    BY DEF EndRead
  <2>2. SetCl(c, s)
    BY <1>3 DEF EndRead
  <2>3. /\ s.want = r.want /\ s.marks = r.marks /\ s.seen = r.seen /\ s.auto = r.auto
        /\ s.writing = r.writing /\ s.failed = r.failed /\ s.odd = r.odd
        /\ s.nread = r.nread - 1 /\ s.nsav = r.nsav
    BY <1>t DEF Clients
  <2>4. OnlyBy(c)
    BY <2>1, OnlyByPublished
  <2>5. CASE commits
    <3>n. r.nread > 1 /\ ~(r.nread <= 1) /\ r.nread - 1 > 0
      BY <1>1, <1>3, <1>t, <2>5
    <3>1. db' = db
      BY <2>1, <2>5, <3>n DEF Published, Ends
    <3>2. ASSUME s.odd \subseteq {"reading"} PROVE Tracks(q, s, db)
      <4>1. Tracks(b, r, db)
        BY <1>1, <2>3, <3>2 DEF CleanInv, Clean
      <4>2. b.inTrans # "WRITE"
        BY <2>5, <4>1 DEF Tracks, ModesInv
      <4>3. q = [b EXCEPT !.inTrans = "READ"]
        BY <2>5, <3>n, <4>2 DEF CommitPhaseTwo, Ends
      <4> HIDE DEF b, r, s, q
      <4>4. /\ q.dirty = b.dirty /\ q.levels = b.levels /\ q.nSavepoint = b.nSavepoint
            /\ q.deleted = b.deleted /\ q.rd = b.rd /\ q.dead = b.dead
            /\ q.inTrans = "READ" /\ q.dangling = b.dangling
        BY <1>t, <4>3 DEF Btrees
      <4>5. MarksInv(q, s, db) /\ SeenInv(q, s, db) /\ DeletedInv(q)
        BY <2>3, <4>1, <4>4, SameTracks DEF Tracks
      <4>6. b.levels = <<>> => q = [IdleBtree EXCEPT !.inTrans = "READ"]
        <5> DEFINE e == [IdleBtree EXCEPT !.inTrans = "READ"]
        <5>1. [e EXCEPT !.inTrans = "READ"] = e
          BY DEF IdleBtree
        <5>2. b.levels = <<>> => b = IdleBtree \/ b = e
          BY <4>1 DEF Tracks, ModesInv
        <5>3. b = IdleBtree => q = e
          BY <4>3
        <5> HIDE DEF e
        <5>4. b = e => q = e
          BY <4>3, <5>1
        <5> QED BY <5>2, <5>3, <5>4 DEF e
      <4>7. ModesInv(q, s)
        BY <1>1, <2>3, <2>5, <3>n, <4>1, <4>2, <4>4, <4>6 DEF Tracks, ModesInv
      <4> QED BY <4>5, <4>7 DEF Tracks
    <3> HIDE DEF q, s
    <3> QED BY <2>1, <2>2, <2>4, <3>1, <3>2, CleanStep
  <2>6. CASE ~commits
    <3>0. q = b /\ db' = db
      BY <2>1, <2>6
    <3>2. ASSUME s.odd \subseteq {"reading"} PROVE Tracks(b, s, db)
      <4>1. Tracks(b, r, db)
        BY <1>1, <2>3, <3>2 DEF CleanInv, Clean
      <4>2. ~r.auto \/ (r.writing /\ r.nread - 1 > 0)
        BY <1>1, <1>t, <2>6
      <4> DEFINE e == [IdleBtree EXCEPT !.inTrans = "READ"]
      <4>e. e.inTrans = "READ" /\ IdleBtree.inTrans = "NONE"
        BY DEF IdleBtree
      <4> HIDE DEF b, r, s, q
      <4>3. b.levels = <<>> => b = IdleBtree
        <5> HIDE DEF e
        <5>1. b.levels = <<>> => b = IdleBtree \/ (b = e /\ r.auto)
          BY <4>1 DEF Tracks, ModesInv, e
        <5>2. r.writing => b.inTrans = "WRITE"
          BY <4>1 DEF Tracks, ModesInv
        <5> QED BY <4>2, <4>e, <5>1, <5>2
      <4>5. MarksInv(b, s, db) /\ SeenInv(b, s, db) /\ DeletedInv(b)
        BY <2>3, <4>1, SameTracks DEF Tracks
      <4>7. ModesInv(b, s)
        BY <1>1, <2>3, <4>1, <4>2, <4>3 DEF Tracks, ModesInv
      <4> QED BY <4>5, <4>7 DEF Tracks
    <3>3. SetCon(c, b)
      BY <2>1, <3>0
    <3> HIDE DEF q, s, b
    <3> QED BY <2>2, <2>4, <3>0, <3>2, <3>3, CleanStep
  <2> QED BY <2>5, <2>6
<1> QED BY <1>2, <1>3

-----------------------------------------------------------------------------
\* The ends of statement transactions and savepoints.
LEMMA MarksKept ==
  ASSUME NEW r \in Clients, NEW k \in 0..Len(r.marks)
  PROVE  /\ SubSeq(r.marks, 1, k) \in Seq(Writes) /\ Len(SubSeq(r.marks, 1, k)) = k
         /\ \A j \in 1..Len(SubSeq(r.marks, 1, k)) :
              j \in 1..Len(r.marks) /\ SubSeq(r.marks, 1, k)[j] = r.marks[j]
<1>1. r.marks \in Seq(Writes) /\ Len(r.marks) \in Nat
  BY DEF Clients
<1> DEFINE m == SubSeq(r.marks, 1, k)
<1>2. m \in Seq(Writes) /\ Len(m) = k /\ \A j \in 1..k : m[j] = r.marks[j]
  BY <1>1, Shortened
<1> HIDE DEF m
<1>3. \A j \in 1..Len(m) : j \in 1..Len(r.marks) /\ m[j] = r.marks[j]
  BY <1>1, <1>2
<1> QED BY <1>2, <1>3 DEF m

LEMMA EndedModes ==
  ASSUME NEW q, NEW s, ~q.dangling, q.nSavepoint <= Len(s.marks) + 1, q.inTrans = "WRITE",
         q.nSavepoint > 0, q.levels # <<>>, ~s.writing, ~s.auto, "reading" \notin s.odd
  PROVE  ModesInv(q, s)
  BY DEF ModesInv

\* Nothing is begun or ended, but savepoints the Btree does not know are.
LEMMA ForgottenTracks ==
  ASSUME NEW b, Sound(b), NEW r, NEW s, NEW d, Tracks(b, r, d),
         s.want = r.want, s.seen = r.seen, s.auto = r.auto, s.nread = r.nread,
         s.writing = r.writing, s.failed = r.failed, ~s.writing, Len(s.marks) \in Nat,
         \A k \in 1..Len(s.marks) :
           \/ k \in 1..Len(r.marks) /\ s.marks[k] = r.marks[k]
           \/ k + 1 > b.nSavepoint /\ s.marks[k] = r.want,
         b.nSavepoint <= Len(s.marks) + 1, "reading" \notin r.odd \cup s.odd
  PROVE  Tracks(b, s, d)
<1>1. b.nSavepoint \in Nat /\ Len(b.levels) \in Nat
  BY Parts DEF Sound, Shaped
<1>2. Extends(b, b)
  BY <1>1 DEF Extends
<1>3. MarksInv(b, s, d) /\ SeenInv(b, s, d) /\ DeletedInv(b)
  BY <1>2, ExtendsTracks DEF Tracks
<1>4. ModesInv(b, s)
  BY DEF Tracks, ModesInv
<1> QED BY <1>3, <1>4 DEF Tracks

\* The statement transaction is that of the savepoint after the last.
LEMMA JournalEnds ==
  ASSUME NEW b, Sound(b), NEW r \in Clients, Asked(b, r), NEW d, Tracks(b, r, d),
         r.writing, r.journal, NEW op
  PROVE  /\ r.nsav \in Nat /\ Len(r.marks) = r.nsav + 1 /\ r.nsav + 2 <= b.nSavepoint
         /\ b.levels # <<>>
         /\ BtreeSavepoint(b, op, r.nsav) = LevelsEnded(b, op, r.nsav + 3, r.nsav + 1)
<1>1. r.nsav \in Nat /\ Len(r.marks) = r.nsav + 1 /\ b.nSavepoint \in Nat
  BY BdbAssumption, Parts DEF Clients, Asked, Sound, Shaped
<1>2. Len(r.marks) < b.nSavepoint /\ b.inTrans = "WRITE" /\ ~b.dangling
  BY DEF Tracks, ModesInv
<1>3. r.nsav + 2 <= b.nSavepoint /\ ~(r.nsav + 2 > b.nSavepoint)
  BY <1>1, <1>2
<1>4. b.levels # <<>>
  BY <1>1, <1>3 DEF Sound, Shaped
<1>5. ~AbortsRead(b, op, r.nsav)
  BY <1>2, <1>3 DEF AbortsRead
<1>6. BtreeSavepoint(b, op, r.nsav) = LevelsEnded(b, op, r.nsav + 3, r.nsav + 1)
  BY <1>2, <1>3, <1>4, <1>5 DEF BtreeSavepoint, ChainEnded
<1> QED BY <1>1, <1>3, <1>4, <1>6

LEMMA EndWriteClean ==
  ASSUME Base, CleanInv, NEW c \in Conns, EndWrite(c)
  PROVE  CleanInv'
<1> DEFINE r == cl[c]
           b == con[c]
<1>1. b.status = "ok" /\ r.writing /\ ~r.failed
  BY DEF EndWrite, Usable
<1>t. /\ r \in Clients /\ b \in Btrees /\ Sound(b) /\ Asked(b, r) /\ r.nread \in Nat
      /\ r.nread \in Nat /\ r.nsav \in Nat /\ r.marks \in Seq(Writes)
  BY ConnFacts
<1>n. r.nread > 0
  BY <1>1, <1>t DEF Asked
<1>2. CASE r.auto /\ r.nread = 1
  <2> DEFINE q == CommitPhaseTwo(b, r.nread)
  <2>1. SetCon(c, q) /\ db' = Published(b, r.nread)
    BY <1>2 DEF EndWrite
  <2>2. con'[c] = q
    BY <2>1 DEF SetCon, Base, BdbTypeOK
  <2>3. SetCl(c, Over(r, con'[c], 0))
    BY <1>2 DEF EndWrite
  <2>4. Clean(c) => q = IdleBtree
    BY <1>2, <1>t, Committed DEF CleanInv
  <2>5. OnlyBy(c) /\ 0 \in Nat
    BY <2>1, <1>t, OnlyByPublished, BdbAssumption
  <2> HIDE DEF q
  <2>6. SetCl(c, Over(r, q, 0))
    BY <2>2, <2>3
  <2> QED BY <1>1, <2>1, <2>4, <2>5, <2>6, OverClean
<1>3. CASE r.auto /\ r.nread # 1
  <2> DEFINE q == CommitPhaseTwo(b, r.nread)
             a == Answered(r, q)
  <2>e. PICK e \in Seq(Writes) : e = <<>>
    <3>1. <<>> \in Seq(Writes)
      OBVIOUS
    <3> QED BY <3>1, Zenon
  <2> DEFINE s == StmtOver(a, e)
  <2>1. SetCon(c, q) /\ db' = Published(b, r.nread) /\ SetCl(c, s)
    <3>1. /\ SetCon(c, q) /\ db' = Published(b, r.nread)
          /\ SetCl(c, StmtOver(Answered(r, con'[c]), <<>>))
      BY <1>3 DEF EndWrite
    <3>2. con'[c] = q
      BY <3>1 DEF SetCon, Base, BdbTypeOK
    <3> QED BY <2>e, <3>1, <3>2
  <2>n. r.nread > 1 /\ r.nread - 1 > 0 /\ ~(r.nread <= 1)
    BY <1>3, <1>n, <1>t
  <2>2. /\ a \in Clients /\ a.nread = r.nread /\ a.auto /\ a.nsav = 0 /\ a.want = r.want
        /\ a.seen = r.seen /\ a.odd = r.odd \cup {"reading"} \cup Dangling(q)
    BY <1>t, AnsweredFact
  <2> HIDE DEF a
  <2>3. /\ s.nread = r.nread - 1 /\ s.auto /\ ~s.writing /\ ~s.failed /\ s.nsav = 0
        /\ s.marks = e /\ s.want = r.want /\ s.seen = r.seen
        /\ s.odd = r.odd \cup {"reading"} \cup Dangling(q)
    BY <1>n, <2>2, StmtOverFact
  <2>4. OnlyBy(c)
    BY <2>1, OnlyByPublished
  <2> HIDE DEF s
  <2>5. ASSUME s.odd \subseteq {"reading"} PROVE Tracks(q, s, db')
    <3> DEFINE x == q.dangling
    <3>0. Dangling(q) = IF x THEN {"dangling"} ELSE {}
      BY DEF Dangling
    <3> HIDE DEF x
    <3>1. r.odd \subseteq {"reading"} /\ ~x
      BY <2>3, <2>5, <3>0
    <3>2. Tracks(b, r, db)
      BY <1>1, <3>1 DEF CleanInv, Clean
    <3>3. b.dead = {}
      BY <1>1, <3>2 DEF Tracks, ModesInv
    <3>4. db' = db
      BY <2>1, <2>n DEF Published, Ends
    <3>5. "reading" \in s.odd /\ s.marks = <<>> /\ s.nread > 0
      BY <2>3, <2>e, <2>n
    <3> HIDE DEF b, r
    <3>6. Tracks(CommitPhaseTwo(b, r.nread), s, db)
      BY <1>t, <2>3, <2>n, <3>1, <3>2, <3>3, <3>5, AnsweredTracks DEF x
    <3> QED BY <3>4, <3>6
  <2> HIDE DEF q
  <2> QED BY <2>1, <2>4, <2>5, CleanStep
<1>4. CASE ~r.auto
  <2> DEFINE q == IF r.journal THEN BtreeSavepoint(b, "release", r.nsav) ELSE b
             o == Dangling(q)
             m == SubSeq(r.marks, 1, r.nsav)
             a == StmtOver(r, m)
             s == [a EXCEPT !.odd = @ \cup o]
  <2>1. SetCon(c, q) /\ db' = db /\ SetCl(c, s)
    BY <1>4 DEF EndWrite
  <2>2. OnlyBy(c)
    BY <2>1, OnlyByPublished
  <2>m. r.nsav \in 0..Len(r.marks)
    BY <1>t DEF Asked
  <2>3. /\ m \in Seq(Writes) /\ Len(m) = r.nsav
        /\ \A j \in 1..Len(m) : j \in 1..Len(r.marks) /\ m[j] = r.marks[j]
    BY <1>t, <2>m, MarksKept
  <2>q. q.dangling => "dangling" \in o
    BY DEF Dangling
  <2> HIDE DEF m, o
  <2>4. /\ a \in Clients /\ a.nread = r.nread - 1 /\ a.auto = r.auto /\ ~a.writing
        /\ ~a.failed /\ a.want = r.want /\ a.marks = m /\ a.seen = r.seen /\ a.odd = r.odd
    BY <1>n, <1>t, <2>3, StmtOverFact
  <2> HIDE DEF a
  <2>5. /\ s.auto = r.auto /\ ~s.writing /\ ~s.failed /\ s.want = r.want /\ s.marks = m
        /\ s.seen = r.seen /\ s.odd = r.odd \cup o /\ s.nread = r.nread - 1
    BY <2>4 DEF Clients
  <2>6. ASSUME s.odd \subseteq {"reading"} PROVE Tracks(q, s, db)
    <3>1. Tracks(b, r, db) /\ ~q.dangling
      BY <1>1, <2>5, <2>6, <2>q DEF CleanInv, Clean
    <3>r. "reading" \notin r.odd /\ "reading" \notin s.odd
      <4>1. "reading" \notin r.odd
        BY <1>4, <3>1 DEF Tracks, ModesInv
      <4>2. "reading" \notin o
        BY DEF o, Dangling
      <4> QED BY <2>5, <4>1, <4>2
    <3>2. CASE r.journal
      <4>1. /\ Len(r.marks) = r.nsav + 1 /\ r.nsav + 2 <= b.nSavepoint /\ b.levels # <<>>
            /\ q = LevelsEnded(b, "release", r.nsav + 3, r.nsav + 1)
        BY <1>1, <1>t, <3>1, <3>2, JournalEnds
      <4>2. b.dead = {}
        BY <1>1, <3>1 DEF Tracks, ModesInv
      <4>3. MarksInv(b, r, db) /\ SeenInv(b, r, db) /\ DeletedInv(b)
        BY <3>1 DEF Tracks
      <4> HIDE DEF b, r, s, q
      <4>4. /\ Len(s.marks) \in Nat /\ Len(s.marks) <= r.nsav
            /\ \A k \in 1..Len(s.marks) : k \in 1..Len(r.marks) /\ s.marks[k] = r.marks[k]
        BY <1>t, <2>3, <2>5
      <4>5. /\ MarksInv(q, s, db) /\ SeenInv(q, s, db) /\ DeletedInv(q)
            /\ q.nSavepoint = r.nsav + 1 /\ q.levels # <<>> /\ q.inTrans = "WRITE"
        BY <1>t, <2>5, <3>1, <4>1, <4>2, <4>3, <4>4, EndedTracks, ZenonT(60)
      <4>6. ModesInv(q, s)
        BY <1>4, <1>t, <2>3, <2>5, <3>1, <3>r, <4>5, EndedModes
      <4> QED BY <4>5, <4>6 DEF Tracks
    <3>3. CASE ~r.journal
      <4>1. q = b /\ Len(r.marks) = r.nsav /\ b.nSavepoint \in Nat
        BY <1>t, <3>3, Parts DEF Asked
      <4>2. Len(r.marks) < b.nSavepoint /\ b.nSavepoint <= Len(r.marks) + 1
        BY <1>1, <3>1, <3>r DEF Tracks, ModesInv
      <4>3. m = r.marks
        BY <1>t, <2>3, <4>1
      <4>4. b.levels # <<>>
        BY <1>t, <4>1, <4>2 DEF Sound, Shaped
      <4>m. s.marks = r.marks
        BY <2>5, <4>3
      <4> HIDE DEF b, r, s, q
      <4>5. MarksInv(b, s, db) /\ SeenInv(b, s, db) /\ DeletedInv(b)
        BY <2>5, <3>1, <4>m, SameTracks DEF Tracks
      <4>6. ModesInv(b, s)
        BY <1>1, <1>4, <2>5, <3>1, <3>r, <4>m, <4>4 DEF Tracks, ModesInv
      <4> QED BY <4>1, <4>5, <4>6 DEF Tracks
    <3> QED BY <3>2, <3>3
  <2> HIDE DEF q, s
  <2> QED BY <2>1, <2>2, <2>6, CleanStep
<1> QED BY <1>2, <1>3, <1>4

LEMMA FailWriteClean ==
  ASSUME Base, CleanInv, NEW c \in Conns, FailWrite(c)
  PROVE  CleanInv'
<1> DEFINE r == cl[c]
           b == con[c]
<1>1. b.status = "ok" /\ r.writing /\ (r.failed \/ r.journal) /\ db' = db
  BY DEF FailWrite, Usable
<1>t. /\ r \in Clients /\ b \in Btrees /\ Sound(b) /\ Asked(b, r) /\ r.nread \in Nat
      /\ r.nread \in Nat /\ r.nsav \in Nat /\ r.marks \in Seq(Writes)
  BY ConnFacts
<1>n. r.nread > 0 /\ r.nread - 1 \in Nat
  BY <1>1, <1>t, FewerFact DEF Asked
<1>o. OnlyBy(c)
  BY <1>1, OnlyByPublished
<1>2. CASE r.auto
  <2> DEFINE q == Rollback(b)
  <2>1. SetCon(c, q)
    BY <1>2 DEF FailWrite
  <2>2. con'[c] = q
    BY <2>1 DEF SetCon, Base, BdbTypeOK
  <2>3. SetCl(c, Over(r, con'[c], r.nread - 1))
    BY <1>2 DEF FailWrite
  <2>4. Clean(c) => q = IdleBtree
    BY <1>1, <1>t, RolledBack DEF CleanInv
  <2> HIDE DEF q
  <2>5. SetCl(c, Over(r, q, r.nread - 1))
    BY <2>2, <2>3
  <2> QED BY <1>1, <1>n, <1>o, <2>1, <2>4, <2>5, OverClean
<1>3. CASE ~r.auto /\ r.journal
  <2> DEFINE q == BtreeSavepoint(b, "rollback", r.nsav)
             o == OddAfter(b, "rollback", r.nsav)
             m == SubSeq(r.marks, 1, r.nsav)
             w == r.marks[r.nsav + 1]
             a == StmtOver(r, m)
             s == [a EXCEPT !.want = w, !.odd = @ \cup o]
  <2>1. SetCon(c, q) /\ SetCl(c, s)
    BY <1>3 DEF FailWrite
  <2>m. Len(r.marks) = r.nsav + 1
    BY <1>3, <1>t DEF Asked
  <2>i. r.nsav + 1 \in 1..Len(r.marks) /\ r.nsav \in 0..Len(r.marks)
    BY <1>t, <2>m
  <2>3. /\ m \in Seq(Writes) /\ Len(m) = r.nsav
        /\ \A j \in 1..Len(m) : j \in 1..Len(r.marks) /\ m[j] = r.marks[j]
    BY <1>t, <2>i, MarksKept
  <2>q. (q.dangling => "dangling" \in o) /\ "reading" \notin o
    BY DEF OddAfter, Dangling
  <2> HIDE DEF m, o
  <2>4. /\ a \in Clients /\ a.nread = r.nread - 1 /\ a.auto = r.auto /\ ~a.writing
        /\ ~a.failed /\ a.marks = m /\ a.seen = r.seen /\ a.odd = r.odd
    BY <1>n, <1>t, <2>3, StmtOverFact
  <2> HIDE DEF a, w
  <2>5. /\ s.auto = r.auto /\ ~s.writing /\ ~s.failed /\ s.want = w /\ s.marks = m
        /\ s.seen = r.seen /\ s.odd = r.odd \cup o
    BY <2>4 DEF Clients
  <2>6. ASSUME s.odd \subseteq {"reading"} PROVE Tracks(q, s, db)
    <3>1. Tracks(b, r, db) /\ ~q.dangling
      BY <1>1, <2>5, <2>6, <2>q DEF CleanInv, Clean
    <3>r. "reading" \notin s.odd
      BY <1>3, <2>5, <2>q, <3>1 DEF Tracks, ModesInv
    <3>2. /\ r.nsav + 2 <= b.nSavepoint /\ b.levels # <<>>
          /\ q = LevelsEnded(b, "rollback", r.nsav + 3, r.nsav + 1)
      BY <1>1, <1>3, <1>t, <3>1, JournalEnds
    <3>3. MarksInv(b, r, db) /\ SeenInv(b, r, db) /\ DeletedInv(b)
      BY <3>1 DEF Tracks
    <3>w. s.want = r.marks[r.nsav + 1]
      BY <2>5 DEF w
    <3> HIDE DEF b, r, s, q
    <3>4. /\ Len(s.marks) \in Nat /\ Len(s.marks) <= r.nsav + 1
          /\ \A k \in 1..Len(s.marks) : k \in 1..Len(r.marks) /\ s.marks[k] = r.marks[k]
      BY <1>t, <2>3, <2>5
    <3>5. /\ MarksInv(q, s, db) /\ SeenInv(q, s, db) /\ DeletedInv(q)
          /\ q.nSavepoint = r.nsav + 1 /\ q.levels # <<>> /\ q.inTrans = "WRITE"
      BY <1>t, <2>5, <2>i, <3>1, <3>2, <3>3, <3>4, <3>w, EndedTracks
    <3>6. ModesInv(q, s)
      BY <1>3, <1>t, <2>3, <2>5, <3>1, <3>5, <3>r, EndedModes
    <3> QED BY <3>5, <3>6 DEF Tracks
  <2> HIDE DEF q, s
  <2> QED BY <1>1, <1>o, <2>1, <2>6, CleanStep
<1>4. CASE ~r.auto /\ ~r.journal
  <2> DEFINE s == StmtOver(r, r.marks)
  <2>1. SetCon(c, b) /\ SetCl(c, s)
    BY <1>4, ConnFacts DEF FailWrite, SetCon
  <2>2. /\ s.nread = r.nread - 1 /\ s.auto = r.auto /\ ~s.writing /\ ~s.failed
        /\ s.want = r.want /\ s.marks = r.marks /\ s.seen = r.seen /\ s.odd = r.odd
    BY <1>n, <1>t, StmtOverFact
  <2>3. ASSUME s.odd \subseteq {"reading"} PROVE Tracks(b, s, db)
    <3>1. Tracks(b, r, db)
      BY <1>1, <2>2, <2>3 DEF CleanInv, Clean
    <3> HIDE DEF b, r, s
    <3>2. MarksInv(b, s, db) /\ SeenInv(b, s, db) /\ DeletedInv(b)
      BY <2>2, <3>1, SameTracks DEF Tracks
    <3>3. Len(r.marks) < b.nSavepoint /\ b.nSavepoint \in Nat /\ Len(r.marks) \in Nat
      BY <1>1, <1>t, <3>1, Parts DEF Tracks, ModesInv
    <3>4. b.levels # <<>>
      BY <1>t, <3>3 DEF Sound, Shaped
    <3>5. ModesInv(b, s)
      BY <1>1, <1>4, <2>2, <3>1, <3>4 DEF Tracks, ModesInv
    <3> QED BY <3>2, <3>5 DEF Tracks
  <2> HIDE DEF s, b
  <2> QED BY <1>1, <1>o, <2>1, <2>3, CleanStep
<1> QED BY <1>2, <1>3, <1>4

LEMMA SavepointClean ==
  ASSUME Base, CleanInv, NEW c \in Conns, Savepoint(c)
  PROVE  CleanInv'
<1> DEFINE r == cl[c]
           b == con[c]
           m == Append(r.marks, r.want)
           p == [r EXCEPT !.nsav = r.nsav + 1, !.marks = m]
           s == [p EXCEPT !.calls = @ + 1]
<1>1. /\ b.status = "ok" /\ ~r.auto /\ ~r.writing /\ db' = db /\ r.nsav < MaxSavepoint
      /\ con' = con
  BY DEF Savepoint, MayCall
<1>2. SetCon(c, b) /\ SetCl(c, s)
  <2>1. SetCl(c, s)
    BY DEF Savepoint, Called
  <2> QED BY <1>1, <2>1, ConnFacts DEF SetCon
<1>t. /\ r \in Clients /\ Sound(b) /\ Asked(b, r) /\ r.nsav \in Nat /\ MaxSavepoint \in Nat
      /\ r.marks \in Seq(Writes) /\ r.want \in Writes /\ OnlyBy(c)
  BY <1>1, ConnFacts, OnlyByPublished
<1>3. Len(r.marks) = r.nsav
  BY <1>1, <1>t DEF Asked
<1>4. /\ m \in Seq(Writes) /\ Len(m) = r.nsav + 1
      /\ \A k \in 1..Len(m) : \/ k \in 1..Len(r.marks) /\ m[k] = r.marks[k]
                              \/ k = r.nsav + 1 /\ m[k] = r.want
  <2> HIDE DEF r
  <2> QED BY <1>3, <1>t
<1> HIDE DEF m
<1>5. /\ s.auto = r.auto /\ s.nread = r.nread /\ s.writing = r.writing
      /\ s.failed = r.failed /\ s.want = r.want /\ s.marks = m /\ s.seen = r.seen
      /\ s.odd = r.odd
  <2>1. r.nsav + 1 \in 0..MaxSavepoint
    BY <1>1, <1>t
  <2>2. /\ p \in Clients /\ p.auto = r.auto /\ p.nread = r.nread /\ p.writing = r.writing
        /\ p.failed = r.failed /\ p.want = r.want /\ p.marks = m /\ p.seen = r.seen
        /\ p.odd = r.odd
    BY <1>4, <1>t, <2>1 DEF Clients
  <2> HIDE DEF p
  <2> QED BY <2>2, CalledFact
<1>6. ASSUME s.odd \subseteq {"reading"} PROVE Tracks(b, s, db)
  <2>1. Tracks(b, r, db)
    BY <1>1, <1>5, <1>6 DEF CleanInv, Clean
  <2>r. "reading" \notin r.odd \cup s.odd
    BY <1>1, <1>5, <2>1 DEF Tracks, ModesInv
  <2> HIDE DEF b, r, s
  <2>2. b.nSavepoint <= r.nsav + 1 /\ b.nSavepoint \in Nat
    BY <1>3, <1>t, <2>1, <2>r, Parts DEF Tracks, ModesInv, Sound, Shaped
  <2>3. /\ Len(s.marks) \in Nat /\ b.nSavepoint <= Len(s.marks) + 1
        /\ \A k \in 1..Len(s.marks) :
             \/ k \in 1..Len(r.marks) /\ s.marks[k] = r.marks[k]
             \/ k + 1 > b.nSavepoint /\ s.marks[k] = r.want
    BY <1>4, <1>5, <1>t, <2>2, SMTT(30)
  <2> QED BY <1>1, <1>5, <1>t, <2>1, <2>3, <2>r, ForgottenTracks
<1> HIDE DEF b, s
<1> QED BY <1>1, <1>2, <1>6, <1>t, CleanStep

LEMMA ReleaseClean ==
  ASSUME Base, CleanInv, NEW c \in Conns, NEW i \in 0..(MaxSavepoint - 1), Release(c, i)
  PROVE  CleanInv'
<1> DEFINE r == cl[c]
           b == con[c]
           q == BtreeSavepoint(b, "release", i)
           o == OddAfter(b, "release", i)
           m == SubSeq(r.marks, 1, i)
           p == [r EXCEPT !.nsav = i, !.marks = m, !.odd = r.odd \cup o]
           s == [p EXCEPT !.calls = @ + 1]
<1>0. SetCl(c, s) /\ SetCon(c, q) /\ db' = db
  BY DEF Release, Called
<1>1. /\ b.status = "ok" /\ ~r.writing /\ ~r.failed /\ b.dead = {} /\ i < r.nsav
  BY DEF Release, MayCall
<1>t. /\ r \in Clients /\ Sound(b) /\ Asked(b, r) /\ r.nsav \in Nat /\ MaxSavepoint \in Nat
      /\ r.nsav \in 0..MaxSavepoint /\ OnlyBy(c) /\ i \in Nat
  BY <1>0, ConnFacts, OnlyByPublished
<1>3. Len(r.marks) = r.nsav
  BY <1>1, <1>t DEF Asked
<1>4. /\ m \in Seq(Writes) /\ Len(m) = i
      /\ \A k \in 1..Len(m) : k \in 1..Len(r.marks) /\ m[k] = r.marks[k]
  <2>1. i \in 0..Len(r.marks)
    BY <1>1, <1>3, <1>t
  <2> QED BY <1>t, <2>1, MarksKept
<1>o. o \in SUBSET Oddities /\ (q.dangling => "dangling" \in o) /\ "reading" \notin o
  BY OddsFact DEF OddAfter, Dangling
<1> HIDE DEF m, o
<1>5. /\ s.auto = r.auto /\ s.nread = r.nread /\ s.writing = r.writing
      /\ s.failed = r.failed /\ s.want = r.want /\ s.marks = m /\ s.seen = r.seen
      /\ s.odd = r.odd \cup o
  <2>1. i \in 0..MaxSavepoint /\ r.odd \cup o \in SUBSET Oddities
    BY <1>1, <1>o, <1>t DEF Clients
  <2>2. /\ p \in Clients /\ p.auto = r.auto /\ p.nread = r.nread /\ p.writing = r.writing
        /\ p.failed = r.failed /\ p.want = r.want /\ p.marks = m /\ p.seen = r.seen
        /\ p.odd = r.odd \cup o
    BY <1>4, <1>t, <2>1 DEF Clients
  <2> HIDE DEF p
  <2> QED BY <2>2, CalledFact
<1>6. ASSUME s.odd \subseteq {"reading"} PROVE Tracks(q, s, db)
  <2>1. Tracks(b, r, db) /\ ~q.dangling
    BY <1>1, <1>5, <1>6, <1>o DEF CleanInv, Clean
  <2>r. "reading" \notin r.odd \cup s.odd
    <3>1. r.nsav # 0
      BY <1>1, <1>t
    <3>2. "reading" \notin r.odd
      BY <2>1, <3>1 DEF Tracks, ModesInv
    <3> QED BY <1>5, <1>o, <3>2
  <2>n. b.nSavepoint \in Nat
    BY <1>t, Parts DEF Sound, Shaped
  <2>a. ~AbortsRead(b, "release", i) /\ ~b.dangling
    BY <2>1 DEF AbortsRead, Tracks, ModesInv
  <2>2. CASE b.levels = <<>> \/ i + 2 > b.nSavepoint
    <3>1. q = b
      BY <2>2, <2>a DEF BtreeSavepoint
    <3>2. b.nSavepoint <= i + 1
      BY <1>t, <2>2, <2>n DEF Sound, Shaped
    <3> HIDE DEF b, r, s, q
    <3>3. /\ Len(s.marks) \in Nat /\ b.nSavepoint <= Len(s.marks) + 1
          /\ \A k \in 1..Len(s.marks) : k \in 1..Len(r.marks) /\ s.marks[k] = r.marks[k]
      BY <1>4, <1>5, <1>t, <3>2
    <3>4. Tracks(b, s, db)
      BY <1>1, <1>5, <1>t, <2>1, <3>3, <2>r, ForgottenTracks
    <3> QED BY <3>1, <3>4
  <2>3. CASE b.levels # <<>> /\ ~(i + 2 > b.nSavepoint)
    <3>1. q = LevelsEnded(b, "release", i + 3, i + 1) /\ i + 2 <= b.nSavepoint
      BY <1>t, <2>3, <2>a, <2>n DEF BtreeSavepoint, ChainEnded
    <3>2. MarksInv(b, r, db) /\ SeenInv(b, r, db) /\ DeletedInv(b)
      BY <2>1 DEF Tracks
    <3>m. r.marks \in Seq(Writes)
      BY <1>t DEF Clients
    <3>d. b.dead = {}
      BY <1>1
    <3> HIDE DEF b, r, s, q
    <3>4. /\ Len(s.marks) \in Nat /\ Len(s.marks) <= i
          /\ \A k \in 1..Len(s.marks) : k \in 1..Len(r.marks) /\ s.marks[k] = r.marks[k]
      BY <1>4, <1>5, <1>t
    <3>5. /\ MarksInv(q, s, db) /\ SeenInv(q, s, db) /\ DeletedInv(q)
          /\ q.nSavepoint = i + 1 /\ q.levels # <<>> /\ q.inTrans = "WRITE"
          /\ b.inTrans = "WRITE"
      BY <1>5, <1>t, <2>1, <2>3, <3>1, <3>2, <3>4, <3>d, <3>m, EndedTracks, ZenonT(60)
    <3>6. ~r.auto
      BY <1>1, <2>1, <3>5 DEF Tracks, ModesInv
    <3>7. ModesInv(q, s)
      <4>1. q.nSavepoint <= Len(s.marks) + 1 /\ q.nSavepoint > 0
        BY <1>4, <1>5, <1>t, <3>5
      <4> QED BY <1>1, <1>5, <2>1, <3>5, <3>6, <4>1, <2>r, EndedModes
    <3> QED BY <3>5, <3>7 DEF Tracks
  <2> QED BY <2>2, <2>3
<1> HIDE DEF q, s
<1> QED BY <1>0, <1>6, <1>t, CleanStep

\* ROLLBACK TO a savepoint that has no transaction, or in a read transaction.
LEMMA ReadAbortedFact ==
  ASSUME NEW b, Sound(b)
  PROVE  LET q == ReadAborted(b)
         IN /\ q.dirty = b.dirty /\ q.levels = b.levels /\ q.nSavepoint = b.nSavepoint
            /\ q.inTrans = b.inTrans /\ q.dangling = b.dangling /\ q.dead = b.dead \ {0}
            /\ q.deleted \subseteq b.deleted
<1> DEFINE d == b.dead \ {0}
           e == DeletedAfter(b, "rollback", 2)
           m == SchemaAfter(b, 0)
           q == ReadAborted(b)
<1>1. b \in Btrees
  BY DEF Sound, Shaped
<1>2. e \subseteq b.deleted
  BY DEF DeletedAfter
<1>3. q = [b EXCEPT !.read = FALSE, !.rd = {}, !.dead = d, !.deleted = e, !.schema = m]
  BY DEF ReadAborted
<1> HIDE DEF e, m, d, q
<1>4. /\ q.dirty = b.dirty /\ q.levels = b.levels /\ q.nSavepoint = b.nSavepoint
      /\ q.inTrans = b.inTrans /\ q.dangling = b.dangling /\ q.dead = d /\ q.deleted = e
  BY <1>1, <1>3 DEF Btrees
<1> QED BY <1>2, <1>4 DEF d, q

LEMMA ReadAbortedTracks ==
  ASSUME NEW b, Sound(b), NEW r, NEW s, NEW d, Tracks(b, r, d), NEW i \in Nat,
         r.marks \in Seq(Writes), i + 1 \in 1..Len(r.marks),
         AbortsRead(b, "rollback", i), b.rd = {}, b.nSavepoint <= i + 2,
         Len(s.marks) = i + 1, \A k \in 1..Len(s.marks) : s.marks[k] = r.marks[k],
         s.want = r.marks[i + 1], s.seen = r.seen, s.auto = r.auto, s.nread = r.nread,
         ~r.writing, ~s.writing, ~s.failed, "reading" \notin r.odd \cup s.odd
  PROVE  Tracks(ReadAborted(b), s, d)
<1> DEFINE q == ReadAborted(b)
<1>q. /\ q.dirty = b.dirty /\ q.levels = b.levels /\ q.nSavepoint = b.nSavepoint
      /\ q.inTrans = b.inTrans /\ q.dangling = b.dangling /\ q.deleted \subseteq b.deleted
  BY ReadAbortedFact
<1> HIDE DEF q
<1>t. /\ b.nSavepoint \in Nat /\ Len(b.levels) \in Nat /\ b.dirty \in Writes
  BY Parts DEF Sound, Shaped
<1>l. b.levels # <<>>
  BY WaitsInTrans DEF AbortsRead
<1>1. ASSUME i + 2 > b.nSavepoint PROVE s.want = r.want
  <2>1. ~((i + 1) + 1 <= b.nSavepoint)
    BY <1>1, <1>t
  <2> QED BY <2>1 DEF Tracks, MarksInv
<1>2. Matches(b.dirty, s.want, d)
  <2>1. CASE i + 2 > b.nSavepoint
    BY <1>1, <2>1 DEF Tracks, MarksInv
  <2>2. CASE ~(i + 2 > b.nSavepoint)
    <3>1. b.inTrans = "READ" /\ b.nSavepoint = i + 2
      BY <1>t, <2>2 DEF AbortsRead
    <3>2. b.dirty = NoWrites
      BY <3>1 DEF Tracks, ModesInv
    <3>3. (i + 1) + 1 <= b.nSavepoint /\ (i + 1) + 2 \in 1..Len(b.levels)
      BY <1>l, <1>t, <3>1 DEF Sound, Shaped
    <3>4. Matches(b.levels[(i + 1) + 2], r.marks[i + 1], d)
      BY <3>3 DEF Tracks, MarksInv
    <3>5. DOMAIN b.levels[(i + 1) + 2] \subseteq DOMAIN b.dirty
      BY <3>3 DEF Sound, Shaped
    <3>6. DOMAIN s.want = {} /\ DOMAIN b.dirty = {}
      BY <3>2, <3>4, <3>5, NoWritesFact DEF Matches
    <3> QED BY <3>6 DEF Matches
  <2> QED BY <2>1, <2>2
<1>3. ASSUME NEW k \in 1..Len(s.marks)
      PROVE  IF k + 1 <= b.nSavepoint THEN Matches(b.levels[k + 2], s.marks[k], d)
             ELSE s.marks[k] = s.want
  <2>1. k \in 1..Len(r.marks) /\ s.marks[k] = r.marks[k] /\ k <= i + 1 /\ k \in Nat
    OBVIOUS
  <2>2. CASE k + 1 <= b.nSavepoint
    BY <2>1, <2>2 DEF Tracks, MarksInv
  <2>3. CASE ~(k + 1 <= b.nSavepoint)
    <3>1. r.marks[k] = r.want
      BY <2>1, <2>3 DEF Tracks, MarksInv
    <3>2. i + 2 > b.nSavepoint
      BY <1>t, <2>1, <2>3
    <3> QED BY <1>1, <2>1, <2>3, <3>1, <3>2
  <2> QED BY <2>2, <2>3
<1>4. MarksInv(q, s, d)
  BY <1>2, <1>3, <1>q DEF MarksInv
<1>5. SeenInv(q, s, d)
  BY DEF Tracks, SeenInv
<1>6. DeletedInv(q)
  BY <1>q DEF Tracks, DeletedInv
<1>7. ModesInv(q, s)
  <2>1. q.nSavepoint <= Len(s.marks) + 1
    BY <1>q, <1>t
  <2>2. b.deleted = {} => q.deleted = {}
    BY <1>q
  <2> QED BY <1>l, <1>q, <2>1, <2>2 DEF Tracks, ModesInv
<1> QED BY <1>4, <1>5, <1>6, <1>7 DEF Tracks, q

LEMMA RollbackToClean ==
  ASSUME Base, CleanInv, NEW c \in Conns, NEW i \in 0..(MaxSavepoint - 1), RollbackTo(c, i)
  PROVE  CleanInv'
<1> DEFINE r == cl[c]
           b == con[c]
           q == BtreeSavepoint(b, "rollback", i)
           o == OddAfter(b, "rollback", i)
           w == r.marks[i + 1]
           n == i + 1
           m == SubSeq(r.marks, 1, n)
           p == [r EXCEPT !.nsav = n, !.marks = m, !.want = w, !.odd = r.odd \cup o]
           s == [p EXCEPT !.calls = @ + 1]
<1>0. SetCl(c, s) /\ SetCon(c, q) /\ db' = db
  BY DEF RollbackTo, Called
<1>1. b.status = "ok" /\ ~r.writing /\ ~r.failed /\ i < r.nsav
  BY DEF RollbackTo, MayCall
<1>t. /\ r \in Clients /\ Sound(b) /\ Asked(b, r) /\ r.nsav \in Nat /\ MaxSavepoint \in Nat
      /\ r.nsav \in 0..MaxSavepoint /\ OnlyBy(c) /\ i \in Nat /\ r.marks \in Seq(Writes)
  BY <1>0, ConnFacts, OnlyByPublished
<1>3. Len(r.marks) = r.nsav
  BY <1>1, <1>t DEF Asked
<1>i. i + 1 \in 1..Len(r.marks) /\ n \in 0..Len(r.marks) /\ n \in 0..MaxSavepoint
  BY <1>1, <1>3, <1>t
<1>4. /\ m \in Seq(Writes) /\ Len(m) = n
      /\ \A k \in 1..Len(m) : k \in 1..Len(r.marks) /\ m[k] = r.marks[k]
  BY <1>i, <1>t, MarksKept
<1>w. w \in Writes
  BY <1>i, <1>t
<1>o. /\ o \in SUBSET Oddities /\ (q.dangling => "dangling" \in o) /\ "reading" \notin o
      /\ AbortsRead(b, "rollback", i) =>
           /\ b.rd # {} => "readAborted" \in o
           /\ i + 2 < b.nSavepoint => "behind" \in o
  BY OddsFact DEF OddAfter, Dangling
<1> HIDE DEF m, o, w
<1>5. /\ s.auto = r.auto /\ s.nread = r.nread /\ s.writing = r.writing
      /\ s.failed = r.failed /\ s.want = w /\ s.marks = m /\ s.seen = r.seen
      /\ s.odd = r.odd \cup o
  <2>1. r.odd \cup o \in SUBSET Oddities
    BY <1>o, <1>t DEF Clients
  <2> HIDE DEF n
  <2>2. /\ p \in Clients /\ p.auto = r.auto /\ p.nread = r.nread /\ p.writing = r.writing
        /\ p.failed = r.failed /\ p.want = w /\ p.marks = m /\ p.seen = r.seen
        /\ p.odd = r.odd \cup o
    BY <1>4, <1>i, <1>t, <1>w, <2>1 DEF Clients
  <2> HIDE DEF p
  <2> QED BY <2>2, CalledFact
<1>6. ASSUME q.status = "ok", s.odd \subseteq {"reading"} PROVE Tracks(q, s, db)
  <2>1. Tracks(b, r, db) /\ ~q.dangling /\ o \subseteq {"reading"}
    BY <1>1, <1>5, <1>6, <1>o DEF CleanInv, Clean
  <2>r. "reading" \notin r.odd \cup s.odd
    <3>1. r.nsav # 0
      BY <1>1, <1>t
    <3>2. "reading" \notin r.odd
      BY <2>1, <3>1 DEF Tracks, ModesInv
    <3> QED BY <1>5, <1>o, <3>2
  <2>n. b.nSavepoint \in Nat
    BY <1>t, Parts DEF Sound, Shaped
  <2>w. s.want = r.marks[i + 1]
    BY <1>5 DEF w
  <2>m. /\ Len(s.marks) = i + 1
        /\ \A k \in 1..Len(s.marks) : k \in 1..Len(r.marks) /\ s.marks[k] = r.marks[k]
    <3> HIDE DEF r, s
    <3> QED BY <1>4, <1>5
  <2>a. CASE AbortsRead(b, "rollback", i)
    <3>1. q = ReadAborted(b)
      BY <2>a DEF BtreeSavepoint
    <3>2. b.rd = {} /\ b.nSavepoint <= i + 2
      BY <1>o, <1>t, <2>1, <2>a, <2>n
    <3> HIDE DEF b, r, s, q, n
    <3>3. Tracks(ReadAborted(b), s, db)
      BY <1>1, <1>5, <1>i, <1>t, <2>1, <2>a, <2>m, <2>w, <2>r, <3>2, ReadAbortedTracks
    <3> QED BY <3>1, <3>3
  <2>2. CASE ~AbortsRead(b, "rollback", i) /\ (b.levels = <<>> \/ i + 2 > b.nSavepoint)
    <3>1. q = b
      BY <2>2 DEF BtreeSavepoint
    <3>2. b.nSavepoint <= i + 1
      BY <1>t, <2>2, <2>n DEF Sound, Shaped
    <3> HIDE DEF b, r, s, q, n
    <3>w. s.want = r.want
      <4>1. ~((i + 1) + 1 <= b.nSavepoint)
        BY <1>t, <2>n, <3>2
      <4> QED BY <1>i, <2>1, <2>w, <4>1 DEF Tracks, MarksInv
    <3>3. /\ Len(s.marks) \in Nat /\ b.nSavepoint <= Len(s.marks) + 1
          /\ \A k \in 1..Len(s.marks) : k \in 1..Len(r.marks) /\ s.marks[k] = r.marks[k]
      BY <1>t, <2>m, <2>n, <3>2
    <3>4. Tracks(b, s, db)
      BY <1>1, <1>5, <1>t, <2>1, <3>3, <3>w, <2>r, ForgottenTracks
    <3> QED BY <3>1, <3>4
  <2>3. CASE ~AbortsRead(b, "rollback", i) /\ b.levels # <<>> /\ ~(i + 2 > b.nSavepoint)
    <3>0. ~b.dangling
      BY <2>1 DEF Tracks, ModesInv
    <3>w. b.inTrans # "READ"
      <4>1. b.inTrans = "READ" => q = Wrecked(b)
        BY <2>3 DEF BtreeSavepoint
      <4>2. b \in Btrees
        BY <1>t DEF Sound, Shaped
      <4>3. Wrecked(b).status = "wrecked"
        BY <4>2 DEF Wrecked, Btrees
      <4> QED BY <1>6, <4>1, <4>3
    <3>1. q = LevelsEnded(b, "rollback", i + 3, i + 1) /\ i + 2 <= b.nSavepoint
      BY <1>t, <2>3, <2>n, <3>0, <3>w DEF BtreeSavepoint, ChainEnded
    <3>2. MarksInv(b, r, db) /\ SeenInv(b, r, db) /\ DeletedInv(b)
      BY <2>1 DEF Tracks
    <3> HIDE DEF b, r, s, q, n
    <3>4. /\ Len(s.marks) \in Nat /\ Len(s.marks) <= i + 1
      BY <1>t, <2>m
    <3>5. /\ MarksInv(q, s, db) /\ SeenInv(q, s, db) /\ DeletedInv(q)
          /\ q.nSavepoint = i + 1 /\ q.levels # <<>> /\ q.inTrans = "WRITE"
          /\ b.inTrans = "WRITE"
      <4> DEFINE e == LevelsEnded(b, "rollback", i + 3, i + 1)
      <4>1. /\ ~e.dangling /\ "rollback" \in {"release", "rollback"} /\ i + 2 <= b.nSavepoint
            /\ "rollback" # "release"
        BY <2>1, <3>1
      <4>2. s.seen = r.seen
        BY <1>5
      <4>3. /\ MarksInv(e, s, db) /\ SeenInv(e, s, db) /\ DeletedInv(e)
            /\ e.nSavepoint = i + 1 /\ e.levels # <<>> /\ e.inTrans = "WRITE"
            /\ b.inTrans = "WRITE"
        BY <1>i, <1>t, <2>3, <2>m, <2>w, <3>2, <3>4, <4>1, <4>2, EndedTracks, ZenonT(60)
      <4> HIDE DEF e
      <4>4. q = e
        BY <3>1 DEF e
      <4> QED BY <4>3, <4>4
    <3>6. ~r.auto
      BY <1>1, <2>1, <3>5 DEF Tracks, ModesInv
    <3>7. q.nSavepoint <= Len(s.marks) + 1 /\ q.nSavepoint > 0
      BY <1>t, <2>m, <3>5
    <3>8. ModesInv(q, s)
      BY <1>1, <1>5, <2>1, <3>5, <3>6, <3>7, <2>r, EndedModes
    <3> QED BY <3>5, <3>8 DEF Tracks
  <2> QED BY <2>a, <2>2, <2>3
<1> HIDE DEF q, s
<1> QED BY <1>0, <1>6, <1>t, CleanStep

-----------------------------------------------------------------------------
LEMMA DeathClean ==
  ASSUME Base, CleanInv, AllDie
  PROVE  CleanInv'
<1>1. 0 \in Nat
  BY BdbAssumption
<1>2. ASSUME NEW c \in Conns PROVE Tracks(con'[c], cl'[c], db')
  <2>1. con'[c] = IdleBtree /\ cl'[c] = Over(cl[c], IdleBtree, 0)
    BY DEF AllDie
  <2>2. Tracks(IdleBtree, Over(cl[c], IdleBtree, 0), db')
    BY <1>1, ConnFacts, OverTracks
  <2> QED BY <2>1, <2>2
<1> QED BY <1>2 DEF CleanInv

LEMMA InitClean ==
  ASSUME BdbInit
  PROVE  CleanInv
<1>1. /\ IdleClient.marks = <<>> /\ IdleClient.want = NoWrites /\ IdleClient.seen = NoWrites
      /\ ~IdleClient.writing /\ ~IdleClient.failed /\ IdleClient.odd = {}
  BY DEF IdleClient
<1>2. Tracks(IdleBtree, IdleClient, db)
  <2> DEFINE s == IdleClient
  <2> HIDE DEF s
  <2> QED BY <1>1, FreshTracks DEF s
<1> QED BY <1>2 DEF BdbInit, CleanInv

LEMMA StutterClean ==
  ASSUME CleanInv, UNCHANGED bvars
  PROVE  CleanInv'
<1>1. db' = db /\ con' = con /\ cl' = cl
  BY DEF bvars
<1> QED BY <1>1 DEF CleanInv, Clean

LEMMA CleanNext ==
  ASSUME Base, CleanInv, [BdbNext]_bvars
  PROVE  CleanInv'
<1>1. ASSUME NEW c \in Conns, Statement(c) \/ Transaction(c) PROVE CleanInv'
  BY <1>1, ConnActions, BeginReadClean, BeginWriteClean, BeginFailsClean, ReadTableClean,
     ChangesClean, LockSchemaClean, GrantedClean, VictimClean, GetMetaVictimClean,
     EndReadClean, EndWriteClean, FailWriteClean, FailReadClean, BeginTxClean,
     CommitTxClean, RollbackTxClean, SavepointClean, ReleaseClean, RollbackToClean
<1>2. CASE Crash \/ \E c \in Conns : CrashInCommit(c) \/ Restart(c)
  BY <1>2, DeathClean DEF Crash, CrashInCommit, Restart
<1>3. CASE UNCHANGED bvars
  BY <1>3, StutterClean
<1> QED BY <1>1, <1>2, <1>3 DEF BdbNext, Finished

LEMMA CleanInvariant == BdbSpec => [](Base /\ CleanInv)
<1>1. BdbInit => Base /\ CleanInv
  BY InitBase, InitClean
<1>2. Base /\ CleanInv /\ [BdbNext]_bvars => (Base /\ CleanInv)'
  BY BaseStep, CleanNext
<1> QED BY <1>1, <1>2, PTL DEF BdbSpec

LEMMA MatchesApply ==
  ASSUME NEW w \in Writes, NEW m \in Writes, NEW d, d \in [Tables -> Contents],
         Matches(w, m, d)
  PROVE  Apply(w, d) = Apply(m, d)
<1> DEFINE v == Apply(w, d)
           n == Apply(m, d)
<1>1. /\ v \in [Tables -> Contents]
      /\ \A t \in Tables : v[t] = IF t \in DOMAIN w THEN w[t] ELSE d[t]
  BY ApplyFact
<1>2. /\ n \in [Tables -> Contents]
      /\ \A t \in Tables : n[t] = IF t \in DOMAIN m THEN m[t] ELSE d[t]
  BY ApplyFact
<1> HIDE DEF v, n
<1>3. \A t \in Tables : v[t] = n[t]
  BY <1>1, <1>2 DEF Matches
<1>4. v = n
  BY <1>1, <1>2, <1>3
<1> QED BY <1>4 DEF v, n

\* What a transaction sees: through savepoints made, released and rolled back, through
\* statements that fail, a connection whose calls the code handles sees what its
\* statements wrote, and nothing that was taken back.
THEOREM WritesCorrect == BdbSpec => []KeepsItsWrites
<1>1. ASSUME Base, CleanInv, NEW c \in Conns, Clean(c)
      PROVE  Sees(c) = Apply(cl[c].want, db)
  <2>1. Matches(con[c].dirty, cl[c].want, db)
    BY <1>1 DEF CleanInv, Tracks, MarksInv
  <2>2. con[c].dirty \in Writes /\ cl[c].want \in Writes /\ db \in [Tables -> Contents]
    BY <1>1, ConnFacts, Parts
  <2> QED BY <2>1, <2>2, MatchesApply DEF Sees
<1>2. Base /\ CleanInv => KeepsItsWrites
  BY <1>1 DEF KeepsItsWrites
<1> QED BY <1>2, CleanInvariant, PTL

\* What a transaction has read: the rows keep their read locks, so they stay as they
\* were read, whatever the other connections commit.
THEOREM ReadsCorrect == BdbSpec => []ReadsHold
<1>1. CleanInv => ReadsHold
  BY DEF CleanInv, Tracks, SeenInv, ReadsHold
<1> QED BY <1>1, CleanInvariant, PTL

\* p->nSavepoint: each savepoint it counts has a transaction, begun before anything was
\* written after that savepoint; while the caller writes every open savepoint is counted,
\* and since one that is not was made nothing has been written.
THEOREM SavepointsCorrect == BdbSpec => []SavepointsHaveTxns
<1>1. ASSUME Base, CleanInv, NEW c \in Conns, Clean(c)
      PROVE  /\ Len(con[c].levels) = IF con[c].levels = <<>> THEN 0
                                     ELSE con[c].nSavepoint + 1
             /\ \A k \in 1..Len(cl[c].marks) :
                  IF k + 1 <= con[c].nSavepoint
                  THEN Apply(con[c].levels[k + 2], db) = Apply(cl[c].marks[k], db)
                  ELSE cl[c].marks[k] = cl[c].want /\ ~cl[c].writing
  <2> DEFINE b == con[c]
             r == cl[c]
  <2>1. Sound(b) /\ r.marks \in Seq(Writes) /\ db \in [Tables -> Contents] /\ Tracks(b, r, db)
    BY <1>1, ConnFacts DEF CleanInv
  <2> HIDE DEF b, r
  <2>2. /\ b.nSavepoint \in Nat /\ Len(b.levels) \in Nat /\ Len(r.marks) \in Nat
        /\ \A i \in 1..Len(b.levels) : b.levels[i] \in Writes
        /\ (b.levels = <<>> <=> Len(b.levels) = 0)
    BY <2>1, Parts DEF Sound, Shaped
  <2>3. Len(b.levels) = IF b.levels = <<>> THEN 0 ELSE b.nSavepoint + 1
    BY <2>1, <2>2 DEF Sound, Shaped
  <2>4. ASSUME NEW k \in 1..Len(r.marks), k + 1 <= b.nSavepoint
        PROVE  Apply(b.levels[k + 2], db) = Apply(r.marks[k], db)
    <3>1. Matches(b.levels[k + 2], r.marks[k], db)
      BY <2>1, <2>4 DEF Tracks, MarksInv
    <3>2. k + 2 \in 1..Len(b.levels)
      BY <2>1, <2>2, <2>4 DEF Sound, Shaped
    <3>3. b.levels[k + 2] \in Writes /\ r.marks[k] \in Writes
      BY <2>1, <2>2, <3>2
    <3> QED BY <2>1, <3>1, <3>3, MatchesApply
  <2>5. ASSUME NEW k \in 1..Len(r.marks), ~(k + 1 <= b.nSavepoint)
        PROVE  r.marks[k] = r.want /\ ~r.writing
    <3>1. r.marks[k] = r.want
      BY <2>1, <2>5 DEF Tracks, MarksInv
    <3>2. r.writing => Len(r.marks) < b.nSavepoint
      BY <2>1 DEF Tracks, ModesInv
    <3> QED BY <2>2, <2>5, <3>1, <3>2
  <2> QED BY <2>3, <2>4, <2>5 DEF b, r
<1>2. Base /\ CleanInv => SavepointsHaveTxns
  BY <1>1 DEF SavepointsHaveTxns
<1> QED BY <1>2, CleanInvariant, PTL

\* deleted_tables: whatever is rolled back or released, each table on the list has been
\* renamed away in the transaction that will commit.
THEOREM DeletedCorrect == BdbSpec => []DeletedExist
<1>1. ASSUME Base, CleanInv, NEW c \in Conns, Clean(c), NEW t \in ListedTables(c)
      PROVE  Sees(c)[t].old
  <2>1. PICK e \in con[c].deleted : e.table = t
    BY <1>1 DEF ListedTables
  <2>2. t \in DOMAIN con[c].dirty /\ con[c].dirty[t].old
    BY <1>1, <2>1 DEF CleanInv, Tracks, DeletedInv
  <2>3. con[c].dirty \in Writes /\ db \in [Tables -> Contents]
    BY <1>1, ConnFacts, Parts
  <2>4. t \in Tables
    BY <2>2, <2>3, WritesFact
  <2>5. Sees(c)[t] = con[c].dirty[t]
    BY <2>2, <2>3, <2>4, ApplyFact DEF Sees
  <2> QED BY <2>2, <2>5
<1>2. Base /\ CleanInv => DeletedExist
  BY <1>1 DEF DeletedExist
<1> QED BY <1>2, CleanInvariant, PTL

-----------------------------------------------------------------------------
\* What a Btree holds, whatever has happened to its caller: tables are written in a
\* savepoint's transaction and read in pReadTxn, and both have a pMainTxn.
Empties(b) == DOMAIN b.dirty = {} /\ b.rd = {}

Holds(b) ==
  /\ b.nSavepoint = 0 => DOMAIN b.dirty = {}
  /\ b.rd # {} => b.read
  /\ b.read => b.levels # <<>>

\* A caller that writes has begun such a transaction, one that is idle has ended all.
HeldBy(b, r) ==
  /\ Holds(b)
  /\ b.status = "ok" => /\ r.writing => b.nSavepoint > 0
                        /\ r.auto /\ r.nread = 0 => Empties(b)

HeldInv == \A c \in Conns : HeldBy(con[c], cl[c])

\* Transactions are begun from b to q.
Begun(q, b) ==
  /\ q.dirty = b.dirty /\ q.rd = b.rd /\ q.nSavepoint >= b.nSavepoint
  /\ b.read => q.read
  /\ q.read => b.read \/ q.levels # <<>>
  /\ b.levels # <<>> => q.levels # <<>>

LEMMA BegunHolds ==
  ASSUME NEW b \in Btrees, NEW q \in Btrees, Begun(q, b), Holds(b)
  PROVE  Holds(q) /\ (b.nSavepoint > 0 => q.nSavepoint > 0)
<1>1. b.nSavepoint \in Nat /\ q.nSavepoint \in Nat
  BY Parts
<1>2. q.nSavepoint = 0 => b.nSavepoint = 0
  BY <1>1 DEF Begun
<1>3. b.nSavepoint > 0 => q.nSavepoint > 0
  BY <1>1 DEF Begun
<1> QED BY <1>2, <1>3 DEF Begun, Holds

LEMMA BegunTrans ==
  ASSUME NEW p \in Btrees, NEW q \in Btrees, NEW b \in Btrees, Begun(p, q), Begun(q, b)
  PROVE  Begun(p, b)
<1>1. p.nSavepoint \in Nat /\ q.nSavepoint \in Nat /\ b.nSavepoint \in Nat
  BY Parts
<1>2. p.nSavepoint >= b.nSavepoint
  BY <1>1 DEF Begun
<1> QED BY <1>2 DEF Begun

LEMMA WreckedFact ==
  ASSUME NEW b \in Btrees
  PROVE  /\ Wrecked(b) \in Btrees /\ Wrecked(b).status = "wrecked" /\ Begun(Wrecked(b), b)
         /\ Wrecked(b).nSavepoint = b.nSavepoint
<1> DEFINE q == Wrecked(b)
<1>1. /\ q \in Btrees /\ q.status = "wrecked" /\ q.dirty = b.dirty /\ q.rd = b.rd
      /\ q.nSavepoint = b.nSavepoint /\ (q.read <=> b.read) /\ q.levels = b.levels
  BY DEF Wrecked, Btrees
<1> HIDE DEF q
<1>2. q.nSavepoint >= b.nSavepoint
  BY <1>1, Parts
<1>3. Begun(q, b)
  BY <1>1, <1>2 DEF Begun
<1> QED BY <1>1, <1>3 DEF q

LEMMA ModeBegun ==
  ASSUME NEW b, Sound(b), NEW m \in {"NONE", "READ", "WRITE"}
  PROVE  LET q == [b EXCEPT !.inTrans = m]
         IN /\ q \in Btrees /\ Begun(q, b) /\ q.inTrans = m /\ q.status = b.status
            /\ q.nSavepoint = b.nSavepoint /\ (q.read <=> b.read) /\ q.levels = b.levels
            /\ q.dangling = b.dangling
<1> DEFINE q == [b EXCEPT !.inTrans = m]
<1>t. b \in Btrees
  BY DEF Sound, Shaped
<1>1. /\ q \in Btrees /\ q.status = b.status /\ q.dirty = b.dirty /\ q.rd = b.rd
      /\ q.nSavepoint = b.nSavepoint /\ (q.read <=> b.read) /\ q.levels = b.levels
      /\ q.inTrans = m /\ q.dangling = b.dangling
  BY <1>t DEF Btrees
<1> HIDE DEF q
<1>2. q.nSavepoint >= b.nSavepoint
  BY <1>1, Parts
<1>3. Begun(q, b)
  BY <1>1, <1>2 DEF Begun
<1> QED BY <1>1, <1>3 DEF q

\* Children are added to a chain.
LEMMA ChainBegun ==
  ASSUME NEW b, Sound(b), NEW more \in Nat, NEW k \in Nat, b.levels = <<>> => k > 0, NEW q,
         q = [b EXCEPT !.read = TRUE, !.nSavepoint = @ + more,
                       !.levels = @ \o [i \in 1..k |-> b.dirty]]
  PROVE  q \in Btrees /\ Begun(q, b) /\ q.nSavepoint = b.nSavepoint + more
<1>t. /\ b \in Btrees /\ b.dirty \in Writes /\ b.levels \in Seq(Writes)
      /\ b.nSavepoint \in Nat /\ Len(b.levels) \in Nat /\ (b.levels = <<>> <=> Len(b.levels) = 0)
  BY Parts DEF Sound, Shaped
<1> DEFINE s == b.levels \o [i \in 1..k |-> b.dirty]
           v == b.nSavepoint + more
<1>1. s \in Seq(Writes) /\ Len(s) = Len(b.levels) + k
  BY <1>t, Prolonged
<1>2. q = [b EXCEPT !.read = TRUE, !.nSavepoint = v, !.levels = s]
  OBVIOUS
<1> HIDE DEF s
<1>3. s # <<>>
  <2>1. Len(s) # 0
    BY <1>1, <1>t
  <2> QED BY <2>1
<1>v. v \in Nat /\ v >= b.nSavepoint
  BY <1>t
<1> HIDE DEF v
<1>4. /\ q \in Btrees /\ q.dirty = b.dirty /\ q.rd = b.rd /\ q.read /\ q.levels = s
      /\ q.nSavepoint = v
  BY <1>1, <1>2, <1>t, <1>v DEF Btrees
<1>5. Begun(q, b)
  BY <1>3, <1>4, <1>v DEF Begun
<1> QED BY <1>4, <1>5 DEF v

LEMMA BeginStmtBegun ==
  ASSUME NEW b, Sound(b), NEW n \in Nat
  PROVE  LET q == BeginStmt(b, n)
         IN /\ q \in Btrees /\ Begun(q, b)
            /\ q.status = "ok" /\ b.inTrans # "NONE" => q.nSavepoint > n
<1>t. b \in Btrees /\ b.nSavepoint \in Nat
  BY Parts DEF Sound, Shaped
<1> DEFINE more == IF b.nSavepoint <= n THEN n + 1 - b.nSavepoint ELSE 0
           main == IF b.levels = <<>> THEN 1 ELSE 0
           k == main + more
           q == BeginStmt(b, n)
<1>1. more \in Nat /\ k \in Nat /\ (b.levels = <<>> => k > 0) /\ b.nSavepoint + more > n
  BY <1>t
<1>2. CASE b.inTrans = "NONE"
  <2>1. q = b
    BY <1>2 DEF BeginStmt
  <2> QED BY <1>2, <1>t, <2>1 DEF Begun
<1>3. CASE b.inTrans # "NONE" /\ b.dangling /\ more > 0
  <2>1. q = Wrecked(b)
    BY <1>3 DEF BeginStmt
  <2> QED BY <1>t, <2>1, WreckedFact
<1>4. CASE b.inTrans # "NONE" /\ ~(b.dangling /\ more > 0)
  <2>1. q = [b EXCEPT !.read = TRUE, !.nSavepoint = @ + more,
                      !.levels = @ \o [i \in 1..k |-> b.dirty]]
    BY <1>4 DEF BeginStmt
  <2> HIDE DEF more, k, q
  <2>2. q \in Btrees /\ Begun(q, b) /\ q.nSavepoint = b.nSavepoint + more
    BY <1>1, <2>1, ChainBegun
  <2> QED BY <1>1, <2>2 DEF q
<1> QED BY <1>2, <1>3, <1>4

LEMMA BeginTransBegun ==
  ASSUME NEW b, Sound(b), NEW wrflag \in BOOLEAN, NEW n \in Nat
  PROVE  LET q == BeginTrans(b, wrflag, n)
         IN q \in Btrees /\ Begun(q, b) /\ (q.status = "ok" => q.nSavepoint > n)
<1> DEFINE m == IF wrflag THEN "WRITE" ELSE IF b.inTrans = "NONE" THEN "READ" ELSE b.inTrans
           t == [b EXCEPT !.inTrans = m]
           q == BeginTrans(b, wrflag, n)
<1>1. m \in {"NONE", "READ", "WRITE"} /\ m # "NONE" /\ b \in Btrees /\ b.nSavepoint \in Nat
  BY Parts DEF Sound, Shaped, Btrees
<1>2. q = IF ~t.read \/ t.nSavepoint <= n THEN BeginStmt(t, n) ELSE t
  BY DEF BeginTrans
<1> HIDE DEF m
<1>3. Sound(t) /\ t \in Btrees /\ Begun(t, b) /\ t.inTrans = m /\ t.nSavepoint = b.nSavepoint
  BY <1>1, ModeSound, ModeBegun
<1> HIDE DEF t, q
<1>4. CASE ~t.read \/ t.nSavepoint <= n
  <2>1. q = BeginStmt(t, n)
    BY <1>2, <1>4
  <2>2. q \in Btrees /\ Begun(q, t) /\ (q.status = "ok" => q.nSavepoint > n)
    BY <1>1, <1>3, <2>1, BeginStmtBegun
  <2>3. Begun(q, b)
    BY <1>1, <1>3, <2>2, BegunTrans
  <2> QED BY <2>2, <2>3 DEF q
<1>5. CASE ~(~t.read \/ t.nSavepoint <= n)
  <2>1. q = t /\ q.nSavepoint > n
    BY <1>1, <1>2, <1>3, <1>5
  <2> QED BY <1>3, <2>1 DEF q
<1> QED BY <1>4, <1>5

LEMMA BeginTransFailedBegun ==
  ASSUME NEW b, Sound(b), NEW wrflag \in BOOLEAN, NEW n \in Nat,
         NEW q \in BeginTransFailed(b, wrflag, n)
  PROVE  q \in Btrees /\ Begun(q, b)
<1> DEFINE v == IF wrflag THEN "WRITE" ELSE IF b.inTrans = "NONE" THEN "READ" ELSE b.inTrans
           t == [b EXCEPT !.inTrans = v]
           s == IF t.levels = <<>> THEN <<NoWrites>> ELSE t.levels
           m == [t EXCEPT !.levels = s]
           r(x) == [m EXCEPT !.read = TRUE, !.nSavepoint = @ + x,
                             !.levels = @ \o [i \in 1..x |-> b.dirty]]
<1>1. v \in {"NONE", "READ", "WRITE"} /\ b \in Btrees
  BY DEF Sound, Shaped, Btrees
<1>2. q \in {t, m} \/ \E x \in 0..n : q = r(x)
  BY DEF BeginTransFailed
<1> HIDE DEF v
<1>3. Sound(t) /\ t \in Btrees /\ Begun(t, b) /\ t.dirty = b.dirty
  BY <1>1, ModeSound, ModeBegun DEF Begun
<1> HIDE DEF t
<1>4. t.levels \in Seq(Writes) /\ t.nSavepoint \in Nat
  BY <1>3, Parts
<1>5. s \in Seq(Writes) /\ s # <<>>
  BY <1>4, NoWritesFact
<1> HIDE DEF s
<1>6. /\ m \in Btrees /\ m.dirty = t.dirty /\ m.rd = t.rd /\ m.nSavepoint = t.nSavepoint
      /\ (m.read <=> t.read) /\ m.levels = s
  BY <1>3, <1>5 DEF Btrees
<1> HIDE DEF m
<1>7. Begun(m, b)
  <2>1. m.nSavepoint >= t.nSavepoint
    BY <1>4, <1>6
  <2>2. Begun(m, t)
    BY <1>5, <1>6, <2>1 DEF Begun
  <2> QED BY <1>1, <1>3, <1>6, <2>2, BegunTrans
<1>8. ASSUME NEW x \in 0..n, q = r(x) PROVE q \in Btrees /\ Begun(q, b)
  <2> DEFINE e == m.levels \o [i \in 1..x |-> b.dirty]
             y == m.nSavepoint + x
  <2>1. x \in Nat /\ b.dirty \in Writes /\ Len(m.levels) \in Nat
    BY <1>1, <1>6, Parts
  <2>2. e \in Seq(Writes) /\ Len(e) = Len(m.levels) + x
    BY <1>5, <1>6, <2>1, Prolonged
  <2>3. Len(m.levels) # 0
    BY <1>5, <1>6
  <2>4. q = [m EXCEPT !.read = TRUE, !.nSavepoint = y, !.levels = e]
    BY <1>8
  <2>y. y \in Nat /\ y >= m.nSavepoint
    BY <1>4, <1>6, <2>1
  <2> HIDE DEF e, y
  <2>5. e # <<>>
    <3>1. Len(e) # 0
      BY <2>1, <2>2, <2>3
    <3> QED BY <3>1
  <2>6. /\ q \in Btrees /\ q.dirty = m.dirty /\ q.rd = m.rd /\ q.read /\ q.levels = e
        /\ q.nSavepoint = y
    BY <1>6, <2>2, <2>4, <2>y DEF Btrees
  <2>7. Begun(q, m)
    BY <2>5, <2>6, <2>y DEF Begun
  <2> QED BY <1>1, <1>6, <1>7, <2>6, <2>7, BegunTrans
<1> QED BY <1>2, <1>3, <1>6, <1>7, <1>8

\* A savepoint call leaves a chain that holds what it held, or less.
LEMMA SavepointHolds ==
  ASSUME NEW b, Sound(b), Holds(b), NEW op, NEW i \in Nat
  PROVE  Holds(BtreeSavepoint(b, op, i))
<1>t. b \in Btrees
  BY DEF Sound, Shaped
<1>1. CASE BtreeSavepoint(b, op, i) = ReadAborted(b)
  <2> DEFINE d == b.dead \ {0}
             e == DeletedAfter(b, "rollback", 2)
             m == SchemaAfter(b, 0)
             q == ReadAborted(b)
  <2>1. q = [b EXCEPT !.read = FALSE, !.rd = {}, !.dead = d, !.deleted = e, !.schema = m]
    BY DEF ReadAborted
  <2> HIDE DEF d, e, m, q
  <2>2. q.dirty = b.dirty /\ q.nSavepoint = b.nSavepoint /\ q.rd = {} /\ ~q.read
    BY <1>t, <2>1 DEF Btrees
  <2>3. Holds(q)
    BY <2>2 DEF Holds
  <2> QED BY <1>1, <2>3 DEF q
<1>2. CASE BtreeSavepoint(b, op, i) = Wrecked(b)
  BY <1>2, <1>t, WreckedFact, BegunHolds
<1>3. CASE /\ i + 3 \in 1..Len(b.levels)
           /\ BtreeSavepoint(b, op, i) = LevelsEnded(b, op, i + 3, i + 1)
  <2> DEFINE n == i + 1
             L == i + 3
             s == SubSeq(b.levels, 1, L - 1)
             w == IF op = "rollback" \/ (\E l \in b.dead : l >= L) THEN b.levels[L]
                  ELSE b.dirty
             d == {l \in b.dead : l < L}
             e == DeletedAfter(b, op, L)
             m == SchemaAfter(b, L)
             x == ~(b.inTrans = "WRITE" /\ b.read)
             q == LevelsEnded(b, op, L, n)
  <2>1. q = [b EXCEPT !.nSavepoint = n, !.levels = s, !.dirty = w, !.dead = d,
                      !.deleted = e, !.schema = m, !.dangling = x]
    BY DEF LevelsEnded
  <2>2. L \in Nat /\ L <= Len(b.levels) /\ L > 1 /\ n \in Nat /\ n # 0
    BY <1>3, <1>t, Parts
  <2>3. q.levels # <<>>
    <3> HIDE DEF L, n
    <3> QED BY <2>2, LevelsEndedLevels
  <2> HIDE DEF s, w, d, e, m, x, q, n, L
  <2>4. q.nSavepoint = n /\ q.rd = b.rd /\ (q.read <=> b.read)
    BY <1>t, <2>1 DEF Btrees
  <2>5. Holds(q)
    BY <2>2, <2>3, <2>4 DEF Holds
  <2> QED BY <1>3, <2>5 DEF q, n, L
<1> QED BY <1>1, <1>2, <1>3, SavepointCases

\* sqlite3BtreeRollback, whatever it finds.
LEMMA RollbackHolds ==
  ASSUME NEW b, Sound(b), Holds(b)
  PROVE  Holds(Rollback(b)) /\ (Rollback(b).status = "ok" => Empties(Rollback(b)))
<1>t. b \in Btrees
  BY DEF Sound, Shaped
<1>1. CASE /\ b.levels = <<>> \/ (~b.read /\ b.nSavepoint = 0)
           /\ Rollback(b) = [b EXCEPT !.schema = NoSchemaLock]
  <2> DEFINE q == [b EXCEPT !.schema = NoSchemaLock]
  <2>1. /\ q.dirty = b.dirty /\ q.rd = b.rd /\ q.nSavepoint = b.nSavepoint
        /\ (q.read <=> b.read) /\ q.levels = b.levels
    BY <1>t DEF Btrees
  <2> HIDE DEF q
  <2>2. DOMAIN b.dirty = {} /\ b.rd = {}
    <3>1. CASE b.levels = <<>>
      BY <3>1, NoWritesFact DEF Sound, Shaped, Holds
    <3>2. CASE ~b.read /\ b.nSavepoint = 0
      BY <3>2 DEF Holds
    <3> QED BY <1>1, <3>1, <3>2
  <2>3. Holds(q) /\ Empties(q)
    BY <2>1, <2>2 DEF Holds, Empties
  <2> QED BY <1>1, <2>3 DEF q
<1>2. CASE Rollback(b) = Wrecked(b)
  BY <1>2, <1>t, WreckedFact, BegunHolds
<1>3. CASE Rollback(b) = [IdleBtree EXCEPT !.deleted = IF b.inTrans = "WRITE" THEN {}
                                                       ELSE b.deleted]
  <2> DEFINE q == [IdleBtree EXCEPT !.deleted = IF b.inTrans = "WRITE" THEN {}
                                                ELSE b.deleted]
  <2>1. q.dirty = NoWrites /\ q.rd = {} /\ ~q.read
    BY DEF IdleBtree
  <2> HIDE DEF q
  <2>2. Holds(q) /\ Empties(q)
    BY <2>1, NoWritesFact DEF Holds, Empties
  <2> QED BY <1>3, <2>2 DEF q
<1> QED BY <1>1, <1>2, <1>3, RollbackCases

LEMMA IdleHolds == Holds(IdleBtree) /\ Empties(IdleBtree) /\ IdleBtree.status = "ok"
<1>1. IdleBtree.dirty = NoWrites /\ IdleBtree.rd = {} /\ ~IdleBtree.read
      /\ IdleBtree.status = "ok"
  BY DEF IdleBtree
<1> QED BY <1>1, NoWritesFact DEF Holds, Empties

\* sqlite3BtreeCommitPhaseTwo; for the last statement nothing is held any more.
LEMMA CommitHolds ==
  ASSUME NEW b, Sound(b), Holds(b), NEW n \in Nat
  PROVE  /\ Holds(CommitPhaseTwo(b, n))
         /\ n <= 1 => Empties(CommitPhaseTwo(b, n))
<1> DEFINE r == IF ~Ends(b, n) /\ b.inTrans = "WRITE" THEN BtreeSavepoint(b, "release", 0)
                ELSE b
           p == [r EXCEPT !.inTrans = "READ"]
           q == [r EXCEPT !.inTrans = "NONE", !.schema = NoSchemaLock]
<1>1. Sound(r) /\ Holds(r)
  BY SavepointSound, SavepointHolds
<1>2. ~Ends(b, n) /\ n <= 1 => b.levels = <<>> /\ r = b
  BY DEF Ends, BtreeSavepoint, AbortsRead
<1> HIDE DEF r
<1>t. r \in Btrees
  BY <1>1 DEF Sound, Shaped
<1>3. /\ q.dirty = r.dirty /\ q.rd = r.rd /\ q.nSavepoint = r.nSavepoint
      /\ (q.read <=> r.read) /\ q.levels = r.levels
      /\ p.dirty = r.dirty /\ p.rd = r.rd /\ p.nSavepoint = r.nSavepoint
      /\ (p.read <=> r.read) /\ p.levels = r.levels
  BY <1>t DEF Btrees
<1>4. \/ Ends(b, n) /\ CommitPhaseTwo(b, n) = IdleBtree
      \/ ~Ends(b, n) /\ n > 1 /\ CommitPhaseTwo(b, n) = p
      \/ ~Ends(b, n) /\ CommitPhaseTwo(b, n) = q
  BY DEF CommitPhaseTwo, r
<1> HIDE DEF p, q
<1>5. Holds(p) /\ Holds(q)
  BY <1>1, <1>3 DEF Holds
<1>6. ~Ends(b, n) /\ n <= 1 => Empties(q)
  BY <1>2, <1>3, NoWritesFact DEF Sound, Shaped, Holds, Empties
<1>7. n > 1 => ~(n <= 1)
  OBVIOUS
<1> QED BY <1>4, <1>5, <1>6, <1>7, IdleHolds

\* A step of one connection.
LEMMA HeldStep ==
  ASSUME Base, HeldInv, NEW c \in Conns, NEW b, NEW r, SetCon(c, b), SetCl(c, r), HeldBy(b, r)
  PROVE  HeldInv'
<1>1. /\ con'[c] = b /\ cl'[c] = r
      /\ \A o \in Conns \ {c} : con'[o] = con[o] /\ cl'[o] = cl[o]
  BY DEF Base, BdbTypeOK, SetCon, SetCl
<1> QED BY <1>1 DEF HeldInv

\* The caller has counted the call.
LEMMA HeldCalled ==
  ASSUME NEW b, NEW r \in Clients, HeldBy(b, r)
  PROVE  HeldBy(b, [r EXCEPT !.calls = @ + 1])
<1> DEFINE s == [r EXCEPT !.calls = @ + 1]
<1>1. s.auto = r.auto /\ s.nread = r.nread /\ s.writing = r.writing
  BY CalledFact
<1> HIDE DEF s
<1>2. HeldBy(b, s)
  BY <1>1 DEF HeldBy
<1> QED BY <1>2 DEF s

\* A transaction has been rolled back, or was, and the last statement committed.
LEMMA HeldOver ==
  ASSUME NEW r \in Clients, NEW b, NEW e, NEW n \in Nat, Holds(b),
         n = 0 /\ b.status = "ok" => Empties(b)
  PROVE  HeldBy(b, Over(r, e, n))
<1> DEFINE s == Over(r, e, n)
<1>1. s.nread = n /\ ~s.writing
  BY OverFields
<1> HIDE DEF s
<1>2. HeldBy(b, s)
  BY <1>1 DEF HeldBy
<1> QED BY <1>2 DEF s

LEMMA BeginTxHeld ==
  ASSUME Base, HeldInv, NEW c \in Conns, BeginTx(c)
  PROVE  HeldInv'
<1> DEFINE r == cl[c]
           s == [r EXCEPT !.auto = FALSE]
<1>1. SetCl(c, s) /\ SetCon(c, con[c]) /\ HeldBy(con[c], r) /\ r \in Clients
  BY ConnFacts DEF BeginTx, SetCon, HeldInv
<1>2. ~s.auto /\ s.writing = r.writing
  BY <1>1 DEF Clients
<1> HIDE DEF s, r
<1>3. HeldBy(con[c], s)
  BY <1>1, <1>2 DEF HeldBy
<1> QED BY <1>1, <1>3, HeldStep

LEMMA BeginReadHeld ==
  ASSUME Base, HeldInv, NEW c \in Conns, BeginRead(c)
  PROVE  HeldInv'
<1> DEFINE r == cl[c]
           s == [r EXCEPT !.nread = r.nread + 1]
           b == BeginTrans(con[c], FALSE, r.nsav)
<1>1. /\ SetCl(c, [s EXCEPT !.calls = @ + 1]) /\ SetCon(c, b) /\ HeldBy(con[c], r)
      /\ con[c].status = "ok"
  BY DEF BeginRead, MayCall, Called, HeldInv
<1>2. /\ r.nread + 1 \in Nat /\ r.nread + 1 # 0 /\ r \in Clients
      /\ con[c] \in Btrees /\ Sound(con[c]) /\ r.nsav \in Nat
  BY ConnFacts DEF BeginRead
<1>3. s \in Clients /\ s.nread # 0 /\ s.writing = r.writing
  BY <1>2 DEF Clients
<1>4. b \in Btrees /\ Begun(b, con[c])
  BY <1>2, BeginTransBegun
<1> HIDE DEF s, r, b
<1>5. Holds(b) /\ (con[c].nSavepoint > 0 => b.nSavepoint > 0)
  BY <1>1, <1>2, <1>4, BegunHolds DEF HeldBy
<1>6. HeldBy(b, s)
  BY <1>1, <1>3, <1>5 DEF HeldBy
<1> QED BY <1>1, <1>3, <1>6, HeldCalled, HeldStep

LEMMA BeginWriteHeld ==
  ASSUME Base, HeldInv, NEW c \in Conns, NEW j \in BOOLEAN, BeginWrite(c, j)
  PROVE  HeldInv'
<1> DEFINE r == cl[c]
           jj == j /\ (~r.auto \/ r.nread > 0)
           b == BeginTrans(con[c], TRUE, r.nsav)
           e == IF jj /\ b.status = "ok" THEN BeginStmt(b, r.nsav + 1) ELSE b
           m == IF jj THEN Append(r.marks, r.want) ELSE r.marks
           s == [r EXCEPT !.nread = r.nread + 1, !.writing = TRUE, !.journal = jj,
                          !.marks = m]
<1>1. /\ SetCl(c, [s EXCEPT !.calls = @ + 1]) /\ SetCon(c, e) /\ HeldBy(con[c], r)
  BY DEF BeginWrite, Called, HeldInv
<1>2. /\ r.nread + 1 \in Nat /\ r.nread + 1 # 0 /\ r \in Clients
      /\ con[c] \in Btrees /\ Sound(con[c]) /\ r.nsav \in Nat /\ r.nsav + 1 \in Nat
  BY ConnFacts DEF BeginWrite
<1>3. jj \in BOOLEAN /\ m \in Seq(Writes)
  BY <1>2, ConnFacts DEF Clients
<1> HIDE DEF jj, m
<1>4. s \in Clients /\ s.nread # 0
  BY <1>2, <1>3 DEF Clients
<1>5. b \in Btrees /\ Begun(b, con[c]) /\ (b.status = "ok" => b.nSavepoint > r.nsav)
  BY <1>2, BeginTransBegun
<1>6. Sound(b)
  BY <1>2, BeginTransSound
<1> HIDE DEF s, r, b
<1>7. Holds(b)
  BY <1>1, <1>2, <1>5, BegunHolds DEF HeldBy
<1>8. Holds(e) /\ (e.status = "ok" => e.nSavepoint > 0)
  <2>1. b.status = "ok" => b.nSavepoint > 0
    BY <1>2, <1>5, Parts
  <2>2. CASE e = b
    BY <1>7, <2>1, <2>2
  <2>3. CASE b.status = "ok" /\ e = BeginStmt(b, r.nsav + 1)
    <3>1. e \in Btrees /\ Begun(e, b)
      BY <1>2, <1>6, <2>3, BeginStmtBegun
    <3> HIDE DEF e
    <3> QED BY <1>5, <1>7, <2>1, <2>3, <3>1, BegunHolds
  <2> QED BY <2>2, <2>3
<1> HIDE DEF e
<1>9. HeldBy(e, s)
  BY <1>4, <1>8 DEF HeldBy
<1> QED BY <1>1, <1>4, <1>9, HeldCalled, HeldStep

LEMMA BeginFailsHeld ==
  ASSUME Base, HeldInv, NEW c \in Conns, NEW w \in BOOLEAN, BeginFails(c, w)
  PROVE  HeldInv'
<1> DEFINE r == cl[c]
           f == [r EXCEPT !.odd = @ \cup {"fault"}]
           s == IF f.auto THEN Over(f, con'[c], f.nread) ELSE f
<1>1. /\ r \in Clients /\ r.nsav \in Nat /\ con[c] \in Btrees /\ Sound(con[c])
      /\ HeldBy(con[c], r) /\ ~r.writing
  BY ConnFacts DEF BeginFails, HeldInv
<1>2. PICK b \in BeginTransFailed(con[c], w, r.nsav) :
        SetCon(c, IF r.auto THEN Rollback(b) ELSE b)
  BY DEF BeginFails
<1>3. SetCl(c, [s EXCEPT !.calls = @ + 1])
  BY DEF BeginFails, Called
<1>4. f \in Clients /\ f.auto = r.auto /\ f.writing = r.writing /\ f.nread \in Nat
  <2>1. r.odd \cup {"fault"} \in SUBSET Oddities
    BY <1>1 DEF Clients, Oddities
  <2> QED BY <1>1, <2>1 DEF Clients
<1>5. b \in Btrees /\ Begun(b, con[c]) /\ Sound(b)
  BY <1>1, <1>2, BeginTransFailedBegun, BeginTransFailedSound
<1>6. Holds(b)
  BY <1>1, <1>5, BegunHolds DEF HeldBy
<1> HIDE DEF r, f
<1>7. CASE r.auto
  <2>1. Holds(Rollback(b)) /\ (Rollback(b).status = "ok" => Empties(Rollback(b)))
    BY <1>5, <1>6, RollbackHolds
  <2>2. HeldBy(Rollback(b), Over(f, con'[c], f.nread)) /\ Over(f, con'[c], f.nread) \in Clients
    BY <1>4, <2>1, HeldOver, OverFields
  <2> QED BY <1>2, <1>3, <1>4, <1>7, <2>2, HeldCalled, HeldStep
<1>8. CASE ~r.auto
  <2>1. HeldBy(b, f)
    BY <1>1, <1>4, <1>6, <1>8 DEF HeldBy
  <2> QED BY <1>2, <1>3, <1>4, <1>8, <2>1, HeldCalled, HeldStep
<1> QED BY <1>7, <1>8

\* What is locked and written is as it was.
LEMMA HeldSame ==
  ASSUME NEW b, NEW q, NEW r, NEW s, HeldBy(b, r), q.dirty = b.dirty, q.rd = b.rd,
         q.nSavepoint = b.nSavepoint, q.read <=> b.read, q.levels = b.levels,
         q.status = b.status, s.auto <=> r.auto, s.nread = r.nread, s.writing <=> r.writing
  PROVE  HeldBy(q, s)
  BY DEF HeldBy, Holds, Empties

LEMMA WaitHeld ==
  ASSUME Base, HeldInv, NEW c \in Conns, NEW w, NEW r, HeldBy(con[c], r),
         SetCon(c, [con[c] EXCEPT !.wait = w]), SetCl(c, r)
  PROVE  HeldInv'
<1> DEFINE b == con[c]
           q == [b EXCEPT !.wait = w]
<1>1. b \in Btrees
  BY ConnFacts
<1>2. /\ q.dirty = b.dirty /\ q.rd = b.rd /\ q.nSavepoint = b.nSavepoint
      /\ (q.read <=> b.read) /\ q.levels = b.levels /\ q.status = b.status
  BY <1>1 DEF Btrees
<1>3. SetCon(c, q)
  OBVIOUS
<1> HIDE DEF q
<1>4. HeldBy(q, r)
  BY <1>2 DEF HeldBy, Holds, Empties
<1> QED BY <1>3, <1>4, HeldStep

LEMMA WreckedHeld ==
  ASSUME Base, HeldInv, NEW c \in Conns, SetCon(c, Wrecked(con[c])), OnlyCalled(c)
  PROVE  HeldInv'
<1>1. con[c] \in Btrees /\ cl[c] \in Clients /\ Holds(con[c])
  BY ConnFacts DEF HeldInv, HeldBy
<1>2. HeldBy(Wrecked(con[c]), cl[c])
  BY <1>1, WreckedFact, BegunHolds DEF HeldBy
<1>3. SetCl(c, [cl[c] EXCEPT !.calls = @ + 1])
  BY DEF OnlyCalled, Called
<1> QED BY <1>1, <1>2, <1>3, HeldCalled, HeldStep

LEMMA ReadTableHeld ==
  ASSUME Base, HeldInv, NEW c \in Conns, NEW t \in Tables, ReadTable(c, t)
  PROVE  HeldInv'
<1> DEFINE r == cl[c]
           b == con[c]
           x == IF t \notin DOMAIN r.seen \cup DOMAIN r.want THEN Written(r.seen, t, db[t])
                ELSE r.seen
           s == [r EXCEPT !.seen = x]
           q == [b EXCEPT !.rd = b.rd \cup {t}]
<1>1. r \in Clients /\ b \in Btrees /\ HeldBy(b, r) /\ r.nread # 0 /\ b.read
  BY ConnFacts DEF ReadTable, HeldInv
<1>2. CASE LockFree(c, t, "read")
  <2>1. SetCon(c, q) /\ SetCl(c, [s EXCEPT !.calls = @ + 1])
    BY <1>2 DEF ReadTable, Called
  <2>2. x \in Writes
    BY ConnFacts, WrittenFact
  <2> HIDE DEF x, r, b
  <2>3. s \in Clients /\ s.nread = r.nread /\ s.writing = r.writing
    BY <1>1, <2>2 DEF Clients
  <2>4. /\ q.dirty = b.dirty /\ q.nSavepoint = b.nSavepoint /\ (q.read <=> b.read)
        /\ q.levels = b.levels /\ q.status = b.status
    BY <1>1 DEF Btrees
  <2> HIDE DEF q, s
  <2>5. HeldBy(q, s)
    BY <1>1, <2>3, <2>4 DEF HeldBy, Holds
  <2> QED BY <2>1, <2>3, <2>5, HeldCalled, HeldStep
<1>3. CASE ~LockFree(c, t, "read")
  <2>1. SetCon(c, [con[c] EXCEPT !.wait = <<t, "read">>]) /\ SetCl(c, cl[c])
    BY <1>3, ConnFacts DEF ReadTable, SetCl
  <2> QED BY <1>1, <2>1, WaitHeld
<1> QED BY <1>2, <1>3

LEMMA ChangeTableHeld ==
  ASSUME Base, HeldInv, NEW c \in Conns, NEW t \in Tables, NEW x \in Contents, NEW d,
         ChangeTable(c, t, x, d)
  PROVE  HeldInv'
<1> DEFINE r == cl[c]
           b == con[c]
<1>1. /\ r \in Clients /\ b \in Btrees /\ HeldBy(b, r) /\ Asked(b, r) /\ r.writing
      /\ b.status = "ok" /\ b.levels # <<>>
  BY ConnFacts DEF ChangeTable, MayCall, HeldInv
<1>n. r.nread # 0 /\ b.nSavepoint # 0
  BY <1>1 DEF Asked, HeldBy
<1>2. CASE b.dangling
  BY <1>2, WreckedHeld DEF ChangeTable
<1>3. CASE ~b.dangling /\ LockFree(c, t, "write")
  <2> DEFINE w == Written(b.dirty, t, x)
             v == Written(r.want, t, x)
             s == [r EXCEPT !.want = v]
             q == [b EXCEPT !.dirty = w, !.deleted = d]
  <2>1. SetCon(c, q) /\ SetCl(c, [s EXCEPT !.calls = @ + 1])
    BY <1>3 DEF ChangeTable, Called
  <2>2. v \in Writes
    BY ConnFacts, WrittenFact
  <2> HIDE DEF w, v, r, b
  <2>3. s \in Clients /\ s.nread = r.nread /\ s.writing = r.writing
    BY <1>1, <2>2 DEF Clients
  <2>4. /\ q.rd = b.rd /\ q.nSavepoint = b.nSavepoint /\ (q.read <=> b.read)
        /\ q.levels = b.levels /\ q.status = b.status
    BY <1>1 DEF Btrees
  <2> HIDE DEF q, s
  <2>5. HeldBy(q, s)
    BY <1>1, <1>n, <2>3, <2>4 DEF HeldBy, Holds
  <2> QED BY <2>1, <2>3, <2>5, HeldCalled, HeldStep
<1>4. CASE ~b.dangling /\ ~LockFree(c, t, "write")
  <2>1. SetCon(c, [con[c] EXCEPT !.wait = <<t, "write">>]) /\ SetCl(c, cl[c])
    BY <1>4, ConnFacts DEF ChangeTable, SetCl
  <2> QED BY <1>1, <2>1, WaitHeld
<1> QED BY <1>2, <1>3, <1>4

LEMMA ChangesHeld ==
  ASSUME Base, HeldInv, NEW c \in Conns, NEW t \in Tables, Changes(c, t)
  PROVE  HeldInv'
<1>1. ASSUME NEW x \in Contents, NEW d, ChangeTable(c, t, x, d) PROVE HeldInv'
  BY <1>1, ChangeTableHeld
<1>2. /\ Sees(c)[t] \in Contents /\ [val |-> Absent, old |-> TRUE] \in Contents
      /\ [val |-> Empty, old |-> TRUE] \in Contents /\ Empty \in Vals
      /\ \A v \in Vals \cup {Absent} : [Sees(c)[t] EXCEPT !.val = v] \in Contents
  BY ChangesFact
<1>3. CASE CreateTable(c, t)
  BY <1>1, <1>2, <1>3 DEF CreateTable
<1>4. CASE DropTable(c, t)
  BY <1>1, <1>2, <1>4 DEF DropTable
<1>5. ASSUME NEW v \in Vals, WriteTable(c, t, v) PROVE HeldInv'
  BY <1>1, <1>2, <1>5 DEF WriteTable
<1>6. ASSUME NEW f \in BOOLEAN, ClearTable(c, t, f) PROVE HeldInv'
  <2>1. \/ ChangeTable(c, t, [val |-> Empty, old |-> TRUE], WithEntry(c, t))
        \/ ChangeTable(c, t, [Sees(c)[t] EXCEPT !.val = Empty], con[c].deleted)
    BY <1>6 DEF ClearTable
  <2> QED BY <1>1, <1>2, <2>1
<1> QED BY <1>3, <1>4, <1>5, <1>6 DEF Changes

LEMMA LockSchemaHeld ==
  ASSUME Base, HeldInv, NEW c \in Conns, NEW m \in {"read", "write"}, LockSchema(c, m)
  PROVE  HeldInv'
<1> DEFINE r == cl[c]
           b == con[c]
<1>1. /\ r \in Clients /\ b \in Btrees /\ HeldBy(b, r) /\ b.status = "ok" /\ r.nread # 0
      /\ b.read /\ b.levels # <<>> /\ SetCl(c, [r EXCEPT !.calls = @ + 1])
  BY ConnFacts DEF LockSchema, MayCall, HeldInv, OnlyCalled, Called
<1>2. CASE m = "write" /\ b.dangling
  BY <1>2, WreckedHeld DEF LockSchema
<1>3. CASE ~(m = "write" /\ b.dangling) /\ ~LockFree(c, Master, m)
  <2> DEFINE s == [r EXCEPT !.calls = @ + 1]
  <2>1. SetCon(c, [con[c] EXCEPT !.wait = <<Master, m>>])
    BY <1>3 DEF LockSchema
  <2>2. HeldBy(con[c], s) /\ SetCl(c, s)
    BY <1>1, HeldCalled
  <2> HIDE DEF s
  <2> QED BY <2>1, <2>2, WaitHeld
<1>4. CASE m = "read" /\ LockFree(c, Master, m)
  <2> DEFINE x == [mode |-> m, level |-> 0]
             q == [b EXCEPT !.rd = b.rd \cup {Master}, !.schema = x]
  <2>1. SetCon(c, q)
    BY <1>4 DEF LockSchema
  <2> HIDE DEF x, r, b
  <2>2. /\ q.dirty = b.dirty /\ q.nSavepoint = b.nSavepoint /\ (q.read <=> b.read)
        /\ q.levels = b.levels /\ q.status = b.status
    BY <1>1 DEF Btrees
  <2> HIDE DEF q
  <2>3. HeldBy(q, r)
    BY <1>1, <2>2 DEF HeldBy, Holds
  <2> QED BY <1>1, <2>1, <2>3, HeldCalled, HeldStep
<1>5. CASE m = "write" /\ ~b.dangling /\ LockFree(c, Master, m)
  <2> DEFINE w == Apply(b.dirty, [t \in {Master} |-> db[t]])
             x == [mode |-> m, level |-> Deepest(b)]
             q == [b EXCEPT !.dirty = w, !.schema = x]
  <2>1. SetCon(c, q) /\ r.writing
    BY <1>5 DEF LockSchema
  <2> HIDE DEF w, x, r, b
  <2>2. /\ q.rd = b.rd /\ q.nSavepoint = b.nSavepoint /\ (q.read <=> b.read)
        /\ q.levels = b.levels /\ q.status = b.status
    BY <1>1 DEF Btrees
  <2> HIDE DEF q
  <2>3. b.nSavepoint > 0 /\ b.nSavepoint # 0
    BY <1>1, <2>1 DEF HeldBy
  <2>4. HeldBy(q, r)
    BY <1>1, <2>2, <2>3 DEF HeldBy, Holds
  <2> QED BY <1>1, <2>1, <2>4, HeldCalled, HeldStep
<1> QED BY <1>2, <1>3, <1>4, <1>5

LEMMA GrantedHeld ==
  ASSUME Base, HeldInv, NEW c \in Conns, Granted(c)
  PROVE  HeldInv'
<1>1. SetCon(c, [con[c] EXCEPT !.wait = <<>>]) /\ SetCl(c, cl[c])
  BY ConnFacts DEF Granted, SetCl
<1> QED BY <1>1, WaitHeld DEF HeldInv

LEMMA VictimHeld ==
  ASSUME Base, HeldInv, NEW c \in Conns, Victim(c)
  PROVE  HeldInv'
<1> DEFINE r == cl[c]
           b == con[c]
           d == b.dead \cup {IF b.wait[2] = "read" THEN 0 ELSE Deepest(b)}
           s == [r EXCEPT !.failed = TRUE]
           q == [b EXCEPT !.wait = <<>>, !.dead = d]
<1>1. SetCon(c, q) /\ SetCl(c, s) /\ HeldBy(b, r) /\ r \in Clients /\ b \in Btrees
  BY ConnFacts DEF Victim, HeldInv
<1> HIDE DEF r, b, d
<1>2. /\ q.dirty = b.dirty /\ q.rd = b.rd /\ q.nSavepoint = b.nSavepoint
      /\ (q.read <=> b.read) /\ q.levels = b.levels /\ q.status = b.status
      /\ (s.auto <=> r.auto) /\ s.nread = r.nread /\ (s.writing <=> r.writing)
  BY <1>1 DEF Btrees, Clients
<1> HIDE DEF q, s
<1>3. HeldBy(q, s)
  BY <1>1, <1>2, HeldSame
<1> QED BY <1>1, <1>3, HeldStep

LEMMA GetMetaVictimHeld ==
  ASSUME Base, HeldInv, NEW c \in Conns, GetMetaVictim(c)
  PROVE  HeldInv'
<1> DEFINE r == cl[c]
           b == con[c]
           w == [b EXCEPT !.wait = <<>>]
           o == r.odd \cup {"metaRollback"}
           s == [r EXCEPT !.failed = TRUE, !.odd = o]
           q == Rollback(w)
<1>1. SetCon(c, q) /\ SetCl(c, s) /\ HeldBy(b, r) /\ r \in Clients /\ Sound(b) /\ ~r.writing
      /\ b \in Btrees
  BY ConnFacts DEF GetMetaVictim, HeldInv
<1>2. Sound(w)
  BY <1>1, SoundWait
<1>3. /\ w.dirty = b.dirty /\ w.rd = b.rd /\ w.nSavepoint = b.nSavepoint
      /\ (w.read <=> b.read) /\ w.levels = b.levels
  BY <1>1 DEF Btrees
<1> HIDE DEF r, b, w, o
<1>4. Holds(w)
  BY <1>1, <1>3 DEF HeldBy, Holds
<1>5. Holds(q) /\ (q.status = "ok" => Empties(q))
  BY <1>2, <1>4, RollbackHolds
<1>6. s.writing <=> r.writing
  BY <1>1 DEF Clients
<1> HIDE DEF q, s
<1>7. HeldBy(q, s)
  BY <1>1, <1>5, <1>6 DEF HeldBy
<1> QED BY <1>1, <1>7, HeldStep

LEMMA EndReadHeld ==
  ASSUME Base, HeldInv, NEW c \in Conns, EndRead(c)
  PROVE  HeldInv'
<1> DEFINE r == cl[c]
           b == con[c]
           s == [r EXCEPT !.nread = r.nread - 1]
           q == CommitPhaseTwo(b, r.nread)
<1>1. /\ HeldBy(b, r) /\ r \in Clients /\ Sound(b) /\ r.nread \in Nat
      /\ r.nread > (IF r.writing THEN 1 ELSE 0) /\ 0 \in Nat
      /\ r.nread \in Nat
  BY ConnFacts, BdbAssumption DEF EndRead, HeldInv
<1>2. /\ s.nread = r.nread - 1 /\ (s.writing <=> r.writing) /\ (s.auto <=> r.auto)
  BY <1>1 DEF Clients
<1>3. Holds(q) /\ (r.nread <= 1 => Empties(q))
  BY <1>1, CommitHolds DEF HeldBy
<1>4. CASE r.auto /\ ~r.writing /\ r.nread = 1
  <2>1. SetCon(c, q) /\ SetCl(c, Over(r, con'[c], 0))
    BY <1>4 DEF EndRead
  <2> HIDE DEF q, r, b
  <2>2. HeldBy(q, Over(r, con'[c], 0))
    BY <1>1, <1>3, <1>4, HeldOver
  <2> QED BY <2>1, <2>2, HeldStep
<1>5. CASE r.auto /\ ~r.writing /\ r.nread # 1
  <2>1. SetCon(c, q) /\ SetCl(c, s)
    BY <1>5 DEF EndRead
  <2> HIDE DEF q, r, b, s
  <2>2. s.nread # 0
    BY <1>1, <1>2, <1>5
  <2>3. HeldBy(q, s)
    BY <1>2, <1>3, <1>5, <2>2 DEF HeldBy
  <2> QED BY <2>1, <2>3, HeldStep
<1>6. CASE ~(r.auto /\ ~r.writing)
  <2>1. SetCon(c, b) /\ SetCl(c, s)
    BY <1>6 DEF EndRead
  <2> HIDE DEF q, r, b, s
  <2>2. s.auto => s.nread # 0
    BY <1>1, <1>2, <1>6
  <2>3. HeldBy(b, s)
    BY <1>1, <1>2, <2>2 DEF HeldBy
  <2> QED BY <2>1, <2>3, HeldStep
<1> QED BY <1>4, <1>5, <1>6

\* The statement of a caller is over, and it was not the last or it is in a transaction.
LEMMA HeldStmtOver ==
  ASSUME NEW r \in Clients, NEW m, NEW o, NEW b, Holds(b), ~r.auto \/ r.nread - 1 # 0, NEW w
  PROVE  /\ HeldBy(b, StmtOver(r, m))
         /\ HeldBy(b, [StmtOver(r, m) EXCEPT !.odd = @ \cup o])
         /\ HeldBy(b, [StmtOver(r, m) EXCEPT !.want = w, !.odd = @ \cup o])
<1> DEFINE s == StmtOver(r, m)
           x == [s EXCEPT !.odd = @ \cup o]
           y == [s EXCEPT !.want = w, !.odd = @ \cup o]
<1>1. /\ ~s.writing /\ (s.auto <=> r.auto) /\ s.nread = r.nread - 1
      /\ ~x.writing /\ (x.auto <=> r.auto) /\ x.nread = r.nread - 1
      /\ ~y.writing /\ (y.auto <=> r.auto) /\ y.nread = r.nread - 1
  BY DEF StmtOver, Clients
<1> HIDE DEF s, x, y
<1>2. HeldBy(b, s) /\ HeldBy(b, x) /\ HeldBy(b, y)
  BY <1>1 DEF HeldBy
<1> QED BY <1>2 DEF s, x, y

LEMMA EndWriteHeld ==
  ASSUME Base, HeldInv, NEW c \in Conns, EndWrite(c)
  PROVE  HeldInv'
<1> DEFINE r == cl[c]
           b == con[c]
           q == CommitPhaseTwo(b, r.nread)
<1>1. /\ HeldBy(b, r) /\ r \in Clients /\ Sound(b) /\ r.nread \in Nat
      /\ Asked(b, r) /\ r.writing /\ 0 \in Nat /\ r.nsav \in Nat
  BY ConnFacts, BdbAssumption DEF EndWrite, HeldInv
<1>2. r.nread > 0 /\ Holds(b)
  BY <1>1 DEF Asked, HeldBy
<1>3. CASE r.auto
  <2>1. Holds(q) /\ (r.nread <= 1 => Empties(q))
    BY <1>1, <1>2, CommitHolds
  <2>2. SetCon(c, q)
    BY <1>3 DEF EndWrite
  <2>3. CASE r.nread = 1
    <3>1. SetCl(c, Over(r, con'[c], 0))
      BY <1>3, <2>3 DEF EndWrite
    <3> HIDE DEF q, r, b
    <3>2. HeldBy(q, Over(r, con'[c], 0))
      BY <1>1, <2>1, <2>3, HeldOver
    <3> QED BY <2>2, <3>1, <3>2, HeldStep
  <2>4. CASE r.nread # 1
    <3> DEFINE a == Answered(r, con'[c])
    <3>1. SetCl(c, StmtOver(a, <<>>))
      BY <1>3, <2>4 DEF EndWrite
    <3>2. a \in Clients /\ a.nread = r.nread
      BY <1>1, AnsweredFact
    <3> HIDE DEF q, r, b, a
    <3>3. a.nread - 1 # 0
      BY <1>1, <1>2, <2>4, <3>2
    <3>4. HeldBy(q, StmtOver(a, <<>>))
      BY <2>1, <3>2, <3>3, HeldStmtOver
    <3> QED BY <2>2, <3>1, <3>4, HeldStep
  <2> QED BY <2>3, <2>4
<1>4. CASE ~r.auto
  <2> DEFINE e == IF r.journal THEN BtreeSavepoint(b, "release", r.nsav) ELSE b
             m == SubSeq(r.marks, 1, r.nsav)
             o == Dangling(e)
             s == [StmtOver(r, m) EXCEPT !.odd = @ \cup o]
  <2>1. SetCon(c, e) /\ SetCl(c, s)
    BY <1>4 DEF EndWrite
  <2>2. Holds(e)
    BY <1>1, <1>2, SavepointHolds
  <2> HIDE DEF e, m, o, r
  <2>3. HeldBy(e, s)
    BY <1>1, <1>4, <2>2, HeldStmtOver
  <2> QED BY <2>1, <2>3, HeldStep
<1> QED BY <1>3, <1>4

LEMMA FailWriteHeld ==
  ASSUME Base, HeldInv, NEW c \in Conns, FailWrite(c)
  PROVE  HeldInv'
<1> DEFINE r == cl[c]
           b == con[c]
           q == Rollback(b)
<1>1. /\ HeldBy(b, r) /\ r \in Clients /\ Sound(b) /\ r.nread \in Nat /\ con \in [Conns -> Btrees]
      /\ Asked(b, r) /\ r.writing /\ r.nsav \in Nat
  BY ConnFacts DEF FailWrite, HeldInv, Base, BdbTypeOK
<1>2. r.nread > 0 /\ Holds(b) /\ r.nread - 1 \in Nat
  BY <1>1, FewerFact DEF Asked, HeldBy
<1>3. CASE r.auto
  <2>1. Holds(q) /\ (q.status = "ok" => Empties(q))
    BY <1>1, <1>2, RollbackHolds
  <2>2. SetCon(c, q) /\ SetCl(c, Over(r, con'[c], r.nread - 1))
    BY <1>3 DEF FailWrite
  <2> HIDE DEF q, r, b
  <2>3. HeldBy(q, Over(r, con'[c], r.nread - 1))
    BY <1>1, <1>2, <2>1, HeldOver
  <2> QED BY <2>2, <2>3, HeldStep
<1>4. CASE ~r.auto /\ r.journal
  <2> DEFINE e == BtreeSavepoint(b, "rollback", r.nsav)
             m == SubSeq(r.marks, 1, r.nsav)
             o == OddAfter(b, "rollback", r.nsav)
             w == r.marks[r.nsav + 1]
             s == [StmtOver(r, m) EXCEPT !.want = w, !.odd = @ \cup o]
  <2>1. SetCon(c, e) /\ SetCl(c, s)
    BY <1>4 DEF FailWrite
  <2>2. Holds(e)
    BY <1>1, <1>2, SavepointHolds
  <2> HIDE DEF e, m, o, w, r
  <2>3. HeldBy(e, s)
    BY <1>1, <1>4, <2>2, HeldStmtOver
  <2> QED BY <2>1, <2>3, HeldStep
<1>5. CASE ~r.auto /\ ~r.journal
  <2>1. SetCon(c, b) /\ SetCl(c, StmtOver(r, r.marks))
    BY <1>5, ConnFacts DEF FailWrite, SetCon
  <2> HIDE DEF r, b
  <2>2. HeldBy(b, StmtOver(r, r.marks))
    BY <1>1, <1>2, <1>5, HeldStmtOver
  <2> QED BY <2>1, <2>2, HeldStep
<1> QED BY <1>3, <1>4, <1>5

LEMMA FailReadHeld ==
  ASSUME Base, HeldInv, NEW c \in Conns, FailRead(c)
  PROVE  HeldInv'
<1> DEFINE r == cl[c]
           b == con[c]
           q == Rollback(b)
           s == [r EXCEPT !.failed = FALSE, !.nread = r.nread - 1]
<1>1. /\ HeldBy(b, r) /\ r \in Clients /\ Sound(b) /\ Asked(b, r) /\ ~r.writing /\ r.failed
  BY ConnFacts DEF FailRead, HeldInv
<1>2. Holds(b) /\ r.nread - 1 \in Nat
  BY <1>1, FewerFact DEF Asked, HeldBy
<1>3. CASE r.auto
  <2>1. Holds(q) /\ (q.status = "ok" => Empties(q))
    BY <1>1, <1>2, RollbackHolds
  <2>2. SetCon(c, q) /\ SetCl(c, Over(r, con'[c], r.nread - 1))
    BY <1>3 DEF FailRead
  <2> HIDE DEF q, r, b
  <2>3. HeldBy(q, Over(r, con'[c], r.nread - 1))
    BY <1>1, <1>2, <2>1, HeldOver
  <2> QED BY <2>2, <2>3, HeldStep
<1>4. CASE ~r.auto
  <2>1. SetCon(c, b) /\ SetCl(c, s)
    BY <1>4 DEF FailRead
  <2>2. (s.auto <=> r.auto) /\ (s.writing <=> r.writing)
    BY <1>1 DEF Clients
  <2> HIDE DEF q, r, b, s
  <2>3. HeldBy(b, s)
    BY <1>1, <1>2, <1>4, <2>2 DEF HeldBy
  <2> QED BY <2>1, <2>3, HeldStep
<1> QED BY <1>3, <1>4

LEMMA CommitTxHeld ==
  ASSUME Base, HeldInv, NEW c \in Conns, CommitTx(c)
  PROVE  HeldInv'
<1> DEFINE r == cl[c]
           b == con[c]
           n == r.nread + 1
           q == CommitPhaseTwo(b, n)
           f == [r EXCEPT !.odd = @ \cup {"fault"}]
<1>1. /\ HeldBy(b, r) /\ r \in Clients /\ Sound(b) /\ r.nread \in Nat /\ n \in Nat
      /\ 0 \in Nat /\ ~r.auto /\ ~r.writing /\ SetCon(c, q)
  BY ConnFacts, BdbAssumption DEF CommitTx, HeldInv
<1>2. Holds(q) /\ (n <= 1 => Empties(q))
  BY <1>1, CommitHolds DEF HeldBy
<1>3. CASE CommitFails(b, n)
  <2>1. SetCl(c, f)
    BY <1>3 DEF CommitTx
  <2>2. (f.auto <=> r.auto) /\ (f.writing <=> r.writing)
    BY <1>1 DEF Clients
  <2> HIDE DEF q, r, b, f
  <2>3. HeldBy(q, f)
    BY <1>1, <1>2, <2>2 DEF HeldBy
  <2> QED BY <1>1, <2>1, <2>3, HeldStep
<1>4. CASE ~CommitFails(b, n) /\ n = 1
  <2>1. SetCl(c, Over(r, con'[c], 0))
    BY <1>4 DEF CommitTx
  <2> HIDE DEF q, r, b, n
  <2>2. HeldBy(q, Over(r, con'[c], 0))
    BY <1>1, <1>2, <1>4, HeldOver
  <2> QED BY <1>1, <2>1, <2>2, HeldStep
<1>5. CASE ~CommitFails(b, n) /\ n # 1
  <2> DEFINE a == Answered(r, con'[c])
  <2>1. SetCl(c, a)
    BY <1>5 DEF CommitTx
  <2>2. a.nread = r.nread /\ (a.writing <=> r.writing)
    BY <1>1, AnsweredFact
  <2>3. r.nread # 0
    BY <1>1, <1>5
  <2> HIDE DEF q, r, b, n, a
  <2>4. HeldBy(q, a)
    BY <1>1, <1>2, <2>2, <2>3 DEF HeldBy
  <2> QED BY <1>1, <2>1, <2>4, HeldStep
<1> QED BY <1>3, <1>4, <1>5

LEMMA RollbackTxHeld ==
  ASSUME Base, HeldInv, NEW c \in Conns, RollbackTx(c)
  PROVE  HeldInv'
<1> DEFINE r == cl[c]
           n == r.nread + 1
           b == Rollback(con[c])
           q == IF b.status = "ok" THEN CommitPhaseTwo(b, n) ELSE b
<1>1. /\ HeldBy(con[c], r) /\ r \in Clients /\ Sound(con[c]) /\ n \in Nat
      /\ r.nread \in Nat
  BY ConnFacts DEF HeldInv
<1>2. SetCon(c, q) /\ SetCl(c, Over(r, con'[c], r.nread))
  BY DEF RollbackTx
<1>3. Sound(b) /\ Holds(b) /\ (b.status = "ok" => Empties(b))
  BY <1>1, RollbackSound, RollbackHolds DEF HeldBy
<1> HIDE DEF b, n, r
<1>4. Holds(q) /\ (q.status = "ok" => Empties(q))
  <2>1. CASE b.status = "ok"
    <3>1. Holds(q) /\ Within(q, b)
      BY <1>1, <1>3, <2>1, CommitHolds, CommitSound
    <3> QED BY <1>3, <2>1, <3>1 DEF Empties, Within
  <2>2. CASE b.status # "ok"
    BY <1>3, <2>2
  <2> QED BY <2>1, <2>2
<1> HIDE DEF q
<1>5. HeldBy(q, Over(r, con'[c], r.nread))
  BY <1>1, <1>4, HeldOver
<1> QED BY <1>2, <1>5, HeldStep

LEMMA SavepointHeld ==
  ASSUME Base, HeldInv, NEW c \in Conns, Savepoint(c)
  PROVE  HeldInv'
<1> DEFINE r == cl[c]
           s == [r EXCEPT !.nsav = @ + 1, !.marks = Append(@, r.want)]
           x == [s EXCEPT !.calls = @ + 1]
<1>1. /\ HeldBy(con[c], r) /\ r \in Clients /\ ~r.auto /\ ~r.writing
      /\ SetCon(c, con[c]) /\ SetCl(c, x)
  BY ConnFacts DEF Savepoint, HeldInv, SetCon, Called
<1>2. (x.auto <=> r.auto) /\ (x.writing <=> r.writing)
  BY <1>1 DEF Clients
<1> HIDE DEF x, r
<1>3. HeldBy(con[c], x)
  BY <1>1, <1>2 DEF HeldBy
<1> QED BY <1>1, <1>3, HeldStep

\* A savepoint of a caller that is not writing ends.
LEMMA EndedHeld ==
  ASSUME Base, HeldInv, NEW c \in Conns, NEW op, NEW i \in Nat, NEW s,
         con[c].status = "ok", ~s.writing, s.auto <=> cl[c].auto, s.nread = cl[c].nread,
         SetCon(c, BtreeSavepoint(con[c], op, i)), SetCl(c, s)
  PROVE  HeldInv'
<1> DEFINE q == BtreeSavepoint(con[c], op, i)
<1>1. HeldBy(con[c], cl[c]) /\ Sound(con[c])
  BY ConnFacts DEF HeldInv
<1>2. Holds(q) /\ Within(q, con[c])
  BY <1>1, SavepointHolds, SavepointSound DEF HeldBy
<1>3. SetCon(c, q)
  OBVIOUS
<1> HIDE DEF q
<1>4. HeldBy(q, s)
  BY <1>1, <1>2 DEF HeldBy, Empties, Within
<1> QED BY <1>3, <1>4, HeldStep

LEMMA ReleaseHeld ==
  ASSUME Base, HeldInv, NEW c \in Conns, NEW i \in 0..(MaxSavepoint - 1), Release(c, i)
  PROVE  HeldInv'
<1> DEFINE r == cl[c]
           o == OddAfter(con[c], "release", i)
           s == [r EXCEPT !.nsav = i, !.marks = SubSeq(@, 1, i), !.odd = @ \cup o]
           x == [s EXCEPT !.calls = @ + 1]
<1>1. /\ r \in Clients /\ ~r.writing /\ con[c].status = "ok" /\ i \in Nat
      /\ SetCon(c, BtreeSavepoint(con[c], "release", i)) /\ SetCl(c, x)
  BY ConnFacts DEF Release, MayCall, Called
<1>2. (x.auto <=> r.auto) /\ (x.writing <=> r.writing) /\ x.nread = r.nread
  BY <1>1 DEF Clients
<1> HIDE DEF x
<1> QED BY <1>1, <1>2, EndedHeld

LEMMA RollbackToHeld ==
  ASSUME Base, HeldInv, NEW c \in Conns, NEW i \in 0..(MaxSavepoint - 1), RollbackTo(c, i)
  PROVE  HeldInv'
<1> DEFINE r == cl[c]
           o == OddAfter(con[c], "rollback", i)
           w == r.marks[i + 1]
           s == [r EXCEPT !.nsav = i + 1, !.marks = SubSeq(@, 1, i + 1), !.want = w,
                          !.odd = @ \cup o]
           x == [s EXCEPT !.calls = @ + 1]
<1>1. /\ r \in Clients /\ ~r.writing /\ con[c].status = "ok" /\ i \in Nat
      /\ SetCon(c, BtreeSavepoint(con[c], "rollback", i)) /\ SetCl(c, x)
  BY ConnFacts DEF RollbackTo, MayCall, Called
<1>2. (x.auto <=> r.auto) /\ (x.writing <=> r.writing) /\ x.nread = r.nread
  BY <1>1 DEF Clients
<1> HIDE DEF x
<1> QED BY <1>1, <1>2, EndedHeld

LEMMA DeathHeld ==
  ASSUME Base, AllDie
  PROVE  HeldInv'
<1>1. ASSUME NEW c \in Conns PROVE HeldBy(con'[c], cl'[c])
  <2>1. con'[c] = IdleBtree /\ cl'[c] = Over(cl[c], IdleBtree, 0)
    BY DEF AllDie
  <2>2. cl[c] \in Clients /\ 0 \in Nat
    BY ConnFacts
  <2>3. HeldBy(IdleBtree, Over(cl[c], IdleBtree, 0))
    BY <2>2, HeldOver, IdleHolds
  <2> QED BY <2>1, <2>3
<1> QED BY <1>1 DEF HeldInv

LEMMA InitHeld ==
  ASSUME BdbInit
  PROVE  HeldInv
<1>1. ~IdleClient.writing
  BY DEF IdleClient
<1>2. HeldBy(IdleBtree, IdleClient)
  BY <1>1, IdleHolds DEF HeldBy
<1> QED BY <1>2 DEF BdbInit, HeldInv

LEMMA HeldNext ==
  ASSUME Base, HeldInv, [BdbNext]_bvars
  PROVE  HeldInv'
<1>1. ASSUME NEW c \in Conns, Statement(c) \/ Transaction(c) PROVE HeldInv'
  BY <1>1, ConnActions, BeginReadHeld, BeginWriteHeld, BeginFailsHeld, ReadTableHeld,
     ChangesHeld, LockSchemaHeld, GrantedHeld, VictimHeld, GetMetaVictimHeld, EndReadHeld,
     EndWriteHeld, FailWriteHeld, FailReadHeld, BeginTxHeld, CommitTxHeld, RollbackTxHeld,
     SavepointHeld, ReleaseHeld, RollbackToHeld
<1>2. CASE Crash \/ \E c \in Conns : CrashInCommit(c) \/ Restart(c)
  BY <1>2, DeathHeld DEF Crash, CrashInCommit, Restart
<1>3. CASE UNCHANGED bvars
  BY <1>3 DEF bvars, HeldInv
<1> QED BY <1>1, <1>2, <1>3 DEF BdbNext, Finished

LEMMA HeldInvariant == BdbSpec => [](Base /\ HeldInv)
<1>1. BdbInit => Base /\ HeldInv
  BY InitBase, InitHeld
<1>2. Base /\ HeldInv /\ [BdbNext]_bvars => (Base /\ HeldInv)'
  BY BaseStep, HeldNext
<1> QED BY <1>1, <1>2, PTL DEF BdbSpec

\* Between two transactions no table is locked, whatever failed and whatever was left
\* behind; and a connection whose calls the code handles is as it was when it was opened:
\* no transaction, list or schema lock outlives the call that ends them.
THEOREM EndsCorrect == BdbSpec => []BdbNothingLeftOver
<1>1. ASSUME Base, CleanInv, HeldInv, NEW c \in Conns, con[c].status = "ok", Idle(c)
      PROVE  /\ con[c].dirty = NoWrites /\ con[c].rd = {}
             /\ Clean(c) => con[c] = IdleBtree
  <2> DEFINE b == con[c]
             r == cl[c]
  <2>1. r.auto /\ r.nread = 0 /\ ~(r.nread > 0) /\ b.dirty \in Writes /\ HeldBy(b, r)
    BY <1>1, ConnFacts, Parts DEF Idle, HeldInv
  <2>2. Clean(c) => ModesInv(b, r)
    BY <1>1 DEF CleanInv, Tracks
  <2> HIDE DEF b, r
  <2>3. DOMAIN b.dirty = {} /\ b.rd = {}
    BY <1>1, <2>1 DEF HeldBy, Empties, b
  <2>4. b.dirty = NoWrites
    BY <2>1, <2>3, WritesFact
  <2>5. Clean(c) => b = IdleBtree
    BY <2>1, <2>2 DEF ModesInv
  <2> QED BY <2>3, <2>4, <2>5 DEF b
<1>2. Base /\ CleanInv /\ HeldInv => BdbNothingLeftOver
  BY <1>1 DEF BdbNothingLeftOver
<1> QED BY <1>2, CleanInvariant, HeldInvariant, PTL

\* The call that ends the last statement of a connection with a commit: all that its
\* transaction wrote, and all that was answered to it before as committed while that
\* statement read, is in the file, whole.
THEOREM DurableCorrect == BdbSpec => CommitIsDurable
<1>1. ASSUME Base, CleanInv, NEW c \in Conns, LastCommit(c), con[c].dead = {}, Clean(c)
      PROVE  ValsOf(db') = ValsOf(Apply(cl[c].want, db))
  <2> DEFINE b == con[c]
             r == cl[c]
             d == Apply(b.dirty, db)
  <2>t. /\ b \in Btrees /\ Sound(b) /\ r \in Clients /\ b.dirty \in Writes /\ r.want \in Writes
        /\ db \in [Tables -> Contents] /\ r.nread \in Nat /\ Asked(b, r)
        /\ b.deleted \in SUBSET [table : Tables, level : Nat]
        /\ cl \in [Conns -> Clients] /\ b.levels \in Seq(Writes) /\ con \in [Conns -> Btrees]
    BY <1>1, ConnFacts, Parts DEF Sound, Shaped, Btrees, Base, BdbTypeOK
  <2>0. Tracks(b, r, db)
    BY <1>1 DEF CleanInv
  <2>i. cl'[c].auto /\ cl'[c].nread = 0
    BY <1>1 DEF LastCommit, Idle
  <2>a. ASSUME EndRead(c) PROVE db' = Published(b, 1)
    <3> DEFINE s == [r EXCEPT !.nread = r.nread - 1]
    <3>1. r.nread > (IF r.writing THEN 1 ELSE 0)
      BY <2>a DEF EndRead
    <3>2. CASE r.auto /\ ~r.writing /\ r.nread = 1
      <4>1. db' = Published(b, 1)
        BY <2>a, <3>2 DEF EndRead
      <4> QED BY <4>1
    <3>3. CASE ~(r.auto /\ ~r.writing /\ r.nread = 1)
      <4>1. cl'[c] = s
        BY <2>a, <2>t, <3>3 DEF EndRead, SetCl
      <4>2. s.nread = r.nread - 1 /\ (s.auto <=> r.auto)
        BY <2>t DEF Clients
      <4> HIDE DEF s, r
      <4>3. r.nread = 1 /\ r.auto
        BY <2>i, <2>t, <4>1, <4>2
      <4> QED BY <3>1, <3>3, <4>3
    <3> QED BY <3>2, <3>3
  <2>b. ASSUME EndWrite(c) PROVE db' = Published(b, 1)
    <3>1. r.nread > 0
      BY <2>b, <2>t DEF EndWrite, Asked
    <3>2. CASE r.auto /\ r.nread = 1
      <4>1. db' = Published(b, 1)
        BY <2>b, <3>2 DEF EndWrite
      <4> QED BY <4>1
    <3>3. CASE r.auto /\ r.nread # 1
      <4> DEFINE a == Answered(r, con'[c])
      <4>e. PICK e \in Seq(Writes) : e = <<>>
        <5>1. <<>> \in Seq(Writes)
          OBVIOUS
        <5> QED BY <5>1, Zenon
      <4>1. cl'[c] = StmtOver(a, e)
        BY <2>b, <2>t, <3>3, <4>e DEF EndWrite, SetCl
      <4>2. a \in Clients /\ a.nread = r.nread
        BY <2>t, AnsweredFact
      <4> HIDE DEF a, r
      <4>3. cl'[c].nread = r.nread - 1
        BY <3>1, <4>1, <4>2, StmtOverFact
      <4> QED BY <2>i, <2>t, <3>1, <3>3, <4>3
    <3>4. CASE ~r.auto
      <4> DEFINE m == SubSeq(r.marks, 1, r.nsav)
                 e == IF r.journal THEN BtreeSavepoint(b, "release", r.nsav) ELSE b
                 x == StmtOver(r, m)
                 s == [x EXCEPT !.odd = @ \cup Dangling(e)]
      <4>1. cl'[c] = s
        BY <2>b, <2>t, <3>4 DEF EndWrite, SetCl
      <4>2. s.auto = x.auto /\ x.auto = r.auto
        BY <2>t DEF StmtOver, Clients
      <4> HIDE DEF s, x, r
      <4> QED BY <2>i, <3>4, <4>1, <4>2
    <3> QED BY <3>2, <3>3, <3>4
  <2>c. ASSUME CommitTx(c) PROVE db' = Published(b, 1)
    <3> DEFINE f == [r EXCEPT !.odd = @ \cup {"fault"}]
               n == r.nread + 1
    <3>1. CASE CommitFails(b, n)
      <4>1. cl'[c] = f /\ ~r.auto
        BY <2>c, <2>t, <3>1 DEF CommitTx, SetCl
      <4>2. f.auto = r.auto
        BY <2>t DEF Clients
      <4> HIDE DEF f, r
      <4> QED BY <2>i, <4>1, <4>2
    <3>2. CASE ~CommitFails(b, n) /\ n = 1
      <4>1. db' = Published(b, 1)
        BY <2>c, <3>2 DEF CommitTx
      <4> QED BY <4>1
    <3>3. CASE ~CommitFails(b, n) /\ n # 1
      <4>1. cl'[c] = Answered(r, con'[c])
        BY <2>c, <2>t, <3>3 DEF CommitTx, SetCl
      <4>2. cl'[c].nread = r.nread
        BY <2>t, <4>1, AnsweredFact
      <4> HIDE DEF r
      <4> QED BY <2>i, <2>t, <3>3, <4>2
    <3> QED BY <3>1, <3>2, <3>3
  <2>1. db' = Published(b, 1)
    BY <1>1, <2>a, <2>b, <2>c DEF LastCommit
  <2>2. d = Apply(r.want, db) /\ d \in [Tables -> Contents]
    BY <2>0, <2>t, ApplyFact, MatchesApply DEF Tracks, MarksInv
  <2>3. CASE b.levels # <<>>
    <3>1. db' = Removed(d, b.deleted)
      BY <1>1, <2>1, <2>3 DEF Published, Ends
    <3> HIDE DEF d, b, r
    <3>2. \A t \in Tables : Removed(d, b.deleted)[t].val = d[t].val
      BY <2>2, <2>t, RemovedFact
    <3>3. ValsOf(db') = ValsOf(d)
      BY <3>1, <3>2 DEF ValsOf
    <3> QED BY <2>2, <3>3 DEF r
  <2>4. CASE b.levels = <<>>
    <3>1. db' = db
      BY <2>1, <2>4 DEF Published, Ends
    <3>2. b.dirty = NoWrites
      BY <2>4, <2>t DEF Sound, Shaped
    <3>3. \A t \in Tables : d[t] = db[t]
      BY <2>t, <3>2, ApplyFact, NoWritesFact
    <3> HIDE DEF d, b, r
    <3>4. ValsOf(db') = ValsOf(d)
      BY <3>1, <3>3 DEF ValsOf
    <3> QED BY <2>2, <3>4 DEF r
  <2> QED BY <2>3, <2>4
<1>2. ASSUME Base, CleanInv, [BdbNext]_bvars
      PROVE  [\A c \in Conns :
                Clean(c) /\ con[c].dead = {} /\ LastCommit(c) =>
                  ValsOf(db') = ValsOf(Apply(cl[c].want, db))]_bvars
  BY <1>1, <1>2
<1> QED BY <1>2, CleanInvariant, PTL DEF CommitIsDurable, BdbSpec

=============================================================================
