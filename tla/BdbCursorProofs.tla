--------------------------- MODULE BdbCursorProofs --------------------------
(***************************************************************************)
(* Proofs about BdbCursor, for any number of cursors, any finite set of    *)
(* rowids and any size of the buffer.                                      *)
(*                                                                         *)
(* The invariant is Sound: what each cursor has a copy of, a buffer, the   *)
(* largest row or the row it is on, agrees with the table for as long as   *)
(* the cursor will use it.  r is the table in the definitions below: the   *)
(* proof of a write needs them before and after it.                        *)
(***************************************************************************)
EXTENDS BdbCursor, FiniteSetTheorems, WellFoundedInduction, TLAPS

-----------------------------------------------------------------------------
\* Least and greatest rows.
LEMMA LeastNat ==
  ASSUME NEW T \in SUBSET Nat, T # {}
  PROVE  \E x \in T : \A y \in T : x <= y
<1> DEFINE F == {0..n : n \in T}
<1>1. F \subseteq FiniteSubsetsOf(Nat) /\ F # {}
  <2>1. ASSUME NEW n \in T PROVE 0..n \in FiniteSubsetsOf(Nat)
    <3>1. IsFiniteSet(0..n)
      BY FS_Interval
    <3> QED BY <3>1 DEF FiniteSubsetsOf
  <2> QED BY <2>1
<1>2. PICK I \in F : \A J \in F : ~(<<J, I>> \in StrictSubsetOrdering(Nat))
  <2>1. IsWellFoundedOn(StrictSubsetOrdering(Nat), FiniteSubsetsOf(Nat))
    BY FS_StrictSubsetOrderingWellFounded
  <2> HIDE DEF F
  <2> QED BY <1>1, <2>1, WFMin, Zenon
<1>3. PICK x \in T : I = 0..x
  OBVIOUS
<1>4. ASSUME NEW y \in T, y < x PROVE FALSE
  <2>1. x \in 0..x /\ x \notin 0..y
    BY <1>4
  <2>2. <<0..y, I>> \in StrictSubsetOrdering(Nat)
    BY <1>3, <1>4, <2>1 DEF StrictSubsetOrdering
  <2> QED BY <1>2, <2>2
<1> QED BY <1>4

LEMMA GreatestKey ==
  ASSUME NEW S \in SUBSET Keys, S # {}
  PROVE  \E k \in S : \A j \in S : j <= k
<1> DEFINE Up(k) == {j \in S : j > k}
           T == {Cardinality(Up(k)) : k \in S}
<1>1. IsFiniteSet(S) /\ S \subseteq Nat
  BY BdbCursorAssumption, FS_Subset
<1>2. ASSUME NEW k \in S PROVE IsFiniteSet(Up(k)) /\ Cardinality(Up(k)) \in Nat
  <2>1. IsFiniteSet(Up(k))
    BY <1>1, FS_Subset
  <2> QED BY <2>1, FS_CardinalityType
<1>3. PICK n \in T : \A m \in T : n <= m
  <2>1. T \in SUBSET Nat /\ T # {}
    BY <1>2
  <2> HIDE DEF T
  <2> QED BY <2>1, LeastNat
<1>4. PICK k \in S : n = Cardinality(Up(k))
  OBVIOUS
<1>5. ASSUME NEW j \in S, j > k PROVE FALSE
  <2>0. j \in Nat /\ k \in Nat /\ \A i \in S : i \in Nat
    BY <1>1
  <2>1. Up(j) \in SUBSET Up(k) /\ j \in Up(k) /\ j \notin Up(j)
    <3>1. ASSUME NEW i \in Up(j) PROVE i \in Up(k)
      <4>1. i \in S /\ i \in Nat /\ i > j
        BY <2>0
      <4> QED BY <1>5, <2>0, <4>1
    <3>2. j \in Up(k) /\ j \notin Up(j)
      BY <1>5, <2>0
    <3>3. Up(j) \subseteq Up(k)
      <4> HIDE DEF Up
      <4> QED BY <3>1
    <3> QED BY <3>2, <3>3
  <2>2. Cardinality(Up(j)) <= Cardinality(Up(k)) /\ Cardinality(Up(j)) # Cardinality(Up(k))
    <3> HIDE DEF Up
    <3> QED BY <1>2, <2>1, FS_Subset
  <2>3. n <= Cardinality(Up(j))
    BY <1>3
  <2>4. Cardinality(Up(j)) \in Nat /\ Cardinality(Up(k)) \in Nat
    BY <1>2
  <2> HIDE DEF Up
  <2> QED BY <1>4, <2>2, <2>3, <2>4
<1> QED BY <1>1, <1>5

LEMMA LowestDef ==
  ASSUME NEW S \in SUBSET Keys
  PROVE  /\ Lowest(S) \in Keys \cup {NoKey}
         /\ S = {} => Lowest(S) = NoKey
         /\ S # {} => Lowest(S) \in S /\ Lowest(S) # NoKey
         /\ \A j \in S : Lowest(S) <= j
<1> DEFINE P(k) == IF S = {} THEN k = NoKey ELSE k # NoKey /\ \A j \in S : k <= j
<1>1. \E k \in S \cup {NoKey} : P(k)
  <2>1. CASE S = {}
    BY <2>1
  <2>2. CASE S # {}
    <3>1. PICK k \in S : \A j \in S : k <= j
      BY <2>2, LeastNat, BdbCursorAssumption
    <3> QED BY <2>2, <3>1, BdbCursorAssumption DEF NoKey
  <2> QED BY <2>1, <2>2
<1>2. Lowest(S) \in S \cup {NoKey} /\ P(Lowest(S))
  <2>1. Lowest(S) = CHOOSE k \in S \cup {NoKey} : P(k)
    BY DEF Lowest
  <2> HIDE DEF P
  <2> QED BY <1>1, <2>1
<1> QED BY <1>2

LEMMA HighestDef ==
  ASSUME NEW S \in SUBSET Keys
  PROVE  /\ Highest(S) \in Keys \cup {NoKey}
         /\ S = {} => Highest(S) = NoKey
         /\ S # {} => Highest(S) \in S /\ Highest(S) # NoKey
         /\ \A j \in S : j <= Highest(S)
<1> DEFINE P(k) == \A j \in S : j <= k
<1>1. \E k \in S \cup {NoKey} : P(k)
  BY GreatestKey
<1>2. Highest(S) \in S \cup {NoKey} /\ P(Highest(S))
  <2>1. Highest(S) = CHOOSE k \in S \cup {NoKey} : P(k)
    BY DEF Highest
  <2> HIDE DEF P
  <2> QED BY <1>1, <2>1
<1>3. CASE S = {}
  BY <1>2, <1>3
<1>4. CASE S # {}
  <2>1. PICK j \in S : j \in Nat /\ j > 0
    <3>1. PICK j : j \in S
      BY <1>4
    <3>2. j \in Nat \ {0}
      BY <3>1, BdbCursorAssumption
    <3> QED BY <3>1, <3>2
  <2>2. Highest(S) # NoKey
    <3>1. SUFFICES ASSUME Highest(S) = 0 PROVE FALSE
      BY DEF NoKey
    <3>2. j <= 0
      BY <1>2, <3>1
    <3> QED BY <2>1, <3>2
  <2> QED BY <1>2, <1>4, <2>2
<1> QED BY <1>3, <1>4

LEMMA LowestIs ==
  ASSUME NEW S \in SUBSET Keys, NEW k \in S, \A j \in S : k <= j
  PROVE  Lowest(S) = k
<1>1. Lowest(S) \in S /\ (\A j \in S : Lowest(S) <= j)
  BY LowestDef
<1>2. Lowest(S) \in Nat /\ k \in Nat
  BY <1>1, BdbCursorAssumption
<1> QED BY <1>1, <1>2

LEMMA HighestIs ==
  ASSUME NEW S \in SUBSET Keys, NEW k \in S, \A j \in S : j <= k
  PROVE  Highest(S) = k
<1>1. Highest(S) \in S /\ (\A j \in S : j <= Highest(S))
  BY HighestDef
<1>2. Highest(S) \in Nat /\ k \in Nat
  BY <1>1, BdbCursorAssumption
<1> QED BY <1>1, <1>2

-----------------------------------------------------------------------------
\* A bulk get returns rows that follow each other, from row k on, and no more
\* than fit into the buffer.
LEMMA BulkDef ==
  ASSUME rows \in Tables, NEW k \in Present
  PROVE  /\ Bulk(k) \in Seq(Keys \X Vals)
         /\ Len(Bulk(k)) \in 0..BufRows
         /\ \A i \in 1..Len(Bulk(k)) :
              /\ Bulk(k)[i][1] \in Present /\ Bulk(k)[i][2] = rows[Bulk(k)[i][1]]
              /\ k <= Bulk(k)[i][1]
         /\ Bulk(k) # <<>> => Bulk(k)[1][1] = k
         /\ \A i \in 1..(Len(Bulk(k)) - 1) :
              Bulk(k)[i + 1][1] = Lowest({j \in Present : j > Bulk(k)[i][1]})
<1> DEFINE UpTo(j) == {i \in Present : k <= i /\ i <= j}
           fit == {j \in Present : /\ j >= k /\ Cardinality(UpTo(j)) <= BufRows
                                   /\ \A i \in UpTo(j) : rows[i] \notin Oversize}
           Nth(n) == CHOOSE j \in fit : Cardinality(UpTo(j)) = n
           rank == [j \in fit |-> Cardinality(UpTo(j))]
           N == Cardinality(fit)
<1>1. Bulk(k) = [n \in 1..N |-> <<Nth(n), rows[Nth(n)]>>]
  BY DEF Bulk
<1>2. Present \subseteq Keys /\ Keys \subseteq Nat /\ IsFiniteSet(Present) /\ k \in Nat
      /\ BufRows \in Nat
  <2>1. Present \subseteq Keys
    BY DEF Present
  <2> QED BY <2>1, BdbCursorAssumption, FS_Subset
<1>3. \A j : IsFiniteSet(UpTo(j)) /\ Cardinality(UpTo(j)) \in Nat
  <2> TAKE j
  <2>1. UpTo(j) \in SUBSET Present
    OBVIOUS
  <2> HIDE DEF UpTo
  <2> QED BY <1>2, <2>1, FS_Subset, FS_CardinalityType
<1>4. IsFiniteSet(fit) /\ N \in Nat
  <2>1. fit \in SUBSET Present
    OBVIOUS
  <2> HIDE DEF fit
  <2> QED BY <1>2, <2>1, FS_Subset, FS_CardinalityType
<1>5. ASSUME NEW j \in fit, NEW i \in Present, k <= i, i <= j
      PROVE  i \in fit /\ UpTo(i) \subseteq UpTo(j)
  <2>1. UpTo(i) \subseteq UpTo(j)
    <3>1. ASSUME NEW h \in Present, k <= h, h <= i PROVE h <= j
      BY <1>2, <1>5, <3>1
    <3> QED BY <3>1
  <2>2. Cardinality(UpTo(i)) <= Cardinality(UpTo(j))
    <3> HIDE DEF UpTo
    <3> QED BY <1>3, <2>1, FS_Subset
  <2>3. Cardinality(UpTo(j)) <= BufRows
    OBVIOUS
  <2>4. Cardinality(UpTo(i)) <= BufRows
    <3> HIDE DEF UpTo, fit
    <3> QED BY <1>2, <1>3, <2>2, <2>3
  <2>5. \A h \in UpTo(i) : rows[h] \notin Oversize
    <3>1. \A h \in UpTo(j) : rows[h] \notin Oversize
      OBVIOUS
    <3> HIDE DEF UpTo
    <3> QED BY <2>1, <3>1
  <2>6. i >= k
    BY <1>2, <1>5
  <2> QED BY <2>1, <2>4, <2>5, <2>6
<1>6. ASSUME NEW i \in fit, NEW j \in fit, i < j
      PROVE  rank[i] < rank[j]
  <2>1. i \in Nat /\ j \in Nat /\ i \in Present /\ j \in Present /\ k <= i /\ k <= j
    BY <1>2
  <2>2. UpTo(i) \subseteq UpTo(j)
    <3> HIDE DEF UpTo, fit
    <3> QED BY <1>5, <1>6, <2>1
  <2>3. j \in UpTo(j) /\ j \notin UpTo(i)
    BY <1>6, <2>1
  <2>4. Cardinality(UpTo(i)) <= Cardinality(UpTo(j))
        /\ Cardinality(UpTo(i)) # Cardinality(UpTo(j))
    <3> HIDE DEF UpTo
    <3> QED BY <1>3, <2>2, <2>3, FS_Subset
  <2>5. rank[i] = Cardinality(UpTo(i)) /\ rank[j] = Cardinality(UpTo(j))
    OBVIOUS
  <2> HIDE DEF UpTo, fit, rank
  <2> QED BY <1>3, <2>4, <2>5
<1>7. ASSUME NEW j \in fit PROVE rank[j] \in 1..N /\ rank[j] <= BufRows
  <2>1. j \in Present /\ j >= k /\ j \in Nat /\ Cardinality(UpTo(j)) <= BufRows
    BY <1>2
  <2>2. UpTo(j) \subseteq fit
    <3>1. ASSUME NEW i \in UpTo(j) PROVE i \in fit
      <4>1. i \in Present /\ k <= i /\ i <= j
        OBVIOUS
      <4> HIDE DEF UpTo, fit
      <4> QED BY <1>5, <4>1
    <3> HIDE DEF UpTo, fit
    <3> QED BY <3>1
  <2>3. k \in UpTo(j)
    BY <1>2, <2>1
  <2>4. Cardinality(UpTo(j)) <= N /\ Cardinality(UpTo(j)) # 0
    <3> HIDE DEF UpTo, fit
    <3> QED BY <1>3, <1>4, <2>2, <2>3, FS_Subset, FS_EmptySet
  <2>5. rank[j] = Cardinality(UpTo(j))
    OBVIOUS
  <2>6. Cardinality(UpTo(j)) \in Nat
    BY <1>3
  <2> HIDE DEF UpTo, fit, rank
  <2> QED BY <1>4, <2>1, <2>4, <2>5, <2>6
<1>8. ASSUME NEW n \in 1..N PROVE \E j \in fit : rank[j] = n
  <2>1. rank \in Injection(fit, 1..N)
    <3>1. rank \in [fit -> 1..N]
      <4>1. rank = [j \in fit |-> rank[j]]
        OBVIOUS
      <4> HIDE DEF rank, fit
      <4> QED BY <1>7, <4>1
    <3>2. ASSUME NEW i \in fit, NEW j \in fit, rank[i] = rank[j] PROVE i = j
      <4>1. i \in Nat /\ j \in Nat
        BY <1>2
      <4>2. rank[i] \in 1..N /\ rank[j] \in 1..N
        BY <1>7
      <4> HIDE DEF rank, fit
      <4> QED BY <1>4, <1>6, <3>2, <4>1, <4>2
    <3> HIDE DEF rank, fit
    <3> QED BY <3>1, <3>2 DEF Injection, IsInjective
  <2>2. IsFiniteSet(1..N) /\ Cardinality(1..N) = N
    BY <1>4, FS_Interval
  <2>3. rank \in Surjection(fit, 1..N)
    <3> HIDE DEF rank, fit
    <3> QED BY <2>1, <2>2, FS_Injection
  <2> HIDE DEF rank, fit
  <2> QED BY <2>3 DEF Surjection
<1>9. ASSUME NEW n \in 1..N PROVE Nth(n) \in fit /\ rank[Nth(n)] = n
  <2>1. \E j \in fit : Cardinality(UpTo(j)) = n
    BY <1>8
  <2>2. Nth(n) \in fit /\ Cardinality(UpTo(Nth(n))) = n
    <3> HIDE DEF UpTo, fit
    <3> QED BY <2>1
  <2> HIDE DEF UpTo, fit, Nth
  <2> QED BY <2>2
<1>10. /\ Bulk(k) \in Seq(Keys \X Vals)
       /\ Len(Bulk(k)) = N
       /\ \A i \in 1..N : Bulk(k)[i] = <<Nth(i), rows[Nth(i)]>>
  <2>1. \A i \in 1..N : Nth(i) \in Keys /\ rows[Nth(i)] \in Vals
    <3> TAKE i \in 1..N
    <3>1. Nth(i) \in fit
      BY <1>9
    <3>2. Nth(i) \in Present
      <4>1. fit \subseteq Present
        OBVIOUS
      <4> HIDE DEF fit, Nth
      <4> QED BY <3>1, <4>1
    <3> HIDE DEF fit, Nth
    <3> QED BY <3>2 DEF Present, Tables
  <2> HIDE DEF fit, Nth, N
  <2> QED BY <1>1, <1>4, <2>1
<1>11. N <= BufRows
  <2>1. CASE N = 0
    BY <1>2, <2>1
  <2>2. CASE N > 0
    <3>1. N \in 1..N
      BY <1>4, <2>2
    <3>2. Nth(N) \in fit /\ rank[Nth(N)] = N
      BY <1>9, <3>1
    <3>3. rank[Nth(N)] <= BufRows
      BY <1>7, <3>2
    <3> HIDE DEF rank, Nth, fit, N
    <3> QED BY <3>2, <3>3
  <2> HIDE DEF fit
  <2> QED BY <1>4, <2>1, <2>2
<1>12. \A i \in 1..N : Nth(i) \in Present /\ Nth(i) \in Nat /\ k <= Nth(i)
  <2> TAKE i \in 1..N
  <2>1. Nth(i) \in fit
    BY <1>9
  <2>2. \A j \in fit : j \in Present /\ j \in Nat /\ k <= j
    BY <1>2
  <2> HIDE DEF fit, Nth
  <2> QED BY <2>1, <2>2
<1>13. ASSUME N >= 1 PROVE Nth(1) = k
  <2>1. 1 \in 1..N
    BY <1>4, <1>13
  <2>2. Nth(1) \in fit /\ rank[Nth(1)] = 1 /\ Nth(1) \in Nat /\ k <= Nth(1)
    BY <1>9, <1>12, <2>1
  <2>3. k \in fit
    <3> HIDE DEF fit, UpTo, Nth
    <3> QED BY <1>2, <1>5, <2>2
  <2>4. rank[k] \in 1..N
    BY <1>7, <2>3
  <2>5. ~(k < Nth(1))
    <3> HIDE DEF fit, UpTo, Nth, rank
    <3> QED BY <1>4, <1>6, <2>2, <2>3, <2>4
  <2> HIDE DEF fit, UpTo, Nth
  <2> QED BY <1>2, <2>2, <2>5
<1>14. ASSUME NEW i \in 1..(N - 1) PROVE Nth(i + 1) = Lowest({j \in Present : j > Nth(i)})
  <2> DEFINE S == {j \in Present : j > Nth(i)}
  <2>1. i \in 1..N /\ i + 1 \in 1..N /\ i \in Nat
    BY <1>4
  <2>2. /\ Nth(i) \in fit /\ rank[Nth(i)] = i
        /\ Nth(i + 1) \in fit /\ rank[Nth(i + 1)] = i + 1
    BY <1>9, <2>1
  <2>3. /\ Nth(i) \in Present /\ Nth(i) \in Nat /\ k <= Nth(i)
        /\ Nth(i + 1) \in Present /\ Nth(i + 1) \in Nat
    BY <1>12, <2>1
  <2>4. Nth(i) < Nth(i + 1)
    <3>1. CASE Nth(i + 1) < Nth(i)
      <4> HIDE DEF fit, Nth, rank
      <4> QED BY <1>6, <2>1, <2>2, <3>1
    <3>2. CASE Nth(i + 1) = Nth(i)
      <4> HIDE DEF fit, Nth, rank
      <4> QED BY <2>1, <2>2, <3>2
    <3> HIDE DEF Nth
    <3> QED BY <2>3, <3>1, <3>2
  <2>5. ASSUME NEW j \in S, j < Nth(i + 1) PROVE FALSE
    <3>1. j \in Present /\ j \in Nat /\ j > Nth(i)
      BY <1>2
    <3>2. j \in fit
      <4> HIDE DEF fit, Nth, UpTo, S
      <4> QED BY <1>2, <1>5, <2>2, <2>3, <2>5, <3>1
    <3>3. rank[j] \in 1..N
      BY <1>7, <3>2
    <3>4. rank[j] < i + 1 /\ i < rank[j]
      <4> HIDE DEF fit, Nth, rank, S
      <4> QED BY <1>6, <2>2, <2>3, <2>5, <3>1, <3>2
    <3> HIDE DEF fit, rank, S
    <3> QED BY <1>4, <2>1, <3>3, <3>4
  <2>6. S \in SUBSET Keys /\ Nth(i + 1) \in S /\ \A j \in S : j \in Nat
    <3> HIDE DEF Nth
    <3> QED BY <1>2, <2>3, <2>4
  <2>7. \A j \in S : Nth(i + 1) <= j
    <3> HIDE DEF Nth, S
    <3> QED BY <2>3, <2>5, <2>6
  <2>8. Lowest(S) = Nth(i + 1)
    <3> HIDE DEF Nth, S
    <3> QED BY <2>6, <2>7, LowestIs
  <2> QED BY <2>8
<1>15. \A i \in 1..N : Bulk(k)[i][1] = Nth(i) /\ Bulk(k)[i][2] = rows[Nth(i)]
  <2> HIDE DEF Nth, N
  <2> QED BY <1>10
<1>16. Bulk(k) # <<>> => Bulk(k)[1][1] = k
  <2>1. CASE N = 0
    <3> HIDE DEF N, Nth
    <3> QED BY <1>10, <2>1
  <2>2. CASE N >= 1
    <3>1. 1 \in 1..N
      BY <1>4, <2>2
    <3> HIDE DEF N, Nth
    <3> QED BY <1>13, <1>15, <2>2, <3>1
  <2> HIDE DEF N
  <2> QED BY <1>4, <2>1, <2>2
<1>17. \A i \in 1..(N - 1) : Bulk(k)[i + 1][1] = Lowest({j \in Present : j > Bulk(k)[i][1]})
  <2> TAKE i \in 1..(N - 1)
  <2>1. i \in 1..N /\ i + 1 \in 1..N
    BY <1>4
  <2> HIDE DEF N, Nth
  <2> QED BY <1>14, <1>15, <2>1
<1> HIDE DEF N, Nth
<1>18. Len(Bulk(k)) \in 0..BufRows
  BY <1>2, <1>4, <1>10, <1>11
<1>19. \A i \in 1..Len(Bulk(k)) :
         /\ Bulk(k)[i][1] \in Present /\ Bulk(k)[i][2] = rows[Bulk(k)[i][1]]
         /\ k <= Bulk(k)[i][1]
  BY <1>10, <1>12, <1>15
<1>20. \A i \in 1..(Len(Bulk(k)) - 1) :
         Bulk(k)[i + 1][1] = Lowest({j \in Present : j > Bulk(k)[i][1]})
  BY <1>10, <1>17
<1> QED BY <1>10, <1>16, <1>18, <1>19, <1>20

-----------------------------------------------------------------------------
\* What the operations do to the fields of a cursor.
Typed(c) ==
  /\ c \in BtCursors
  /\ c.at # 0 \/ c.isFirst => Len(c.buf) \in 1..BufRows
  /\ c.at <= Len(c.buf)

\* A call by which the caller learns nothing yet.
Kept(g, c) ==
  /\ g.blob = c.blob /\ g.once = c.once /\ g.mark = c.mark /\ g.know = c.know
  /\ g.lastKey = c.lastKey

LEMMA TidyDef ==
  ASSUME NEW c \in BtCursors
  PROVE  LET g == Tidy(c) IN
         /\ g \in BtCursors
         /\ g.state = c.state /\ g.blob = c.blob /\ g.once = c.once
         /\ g.lastRes = c.lastRes /\ g.lastKey = c.lastKey /\ g.skip = c.skip
         /\ g.at = c.at /\ g.isFirst = c.isFirst /\ g.know = c.know
         /\ g.buf = (IF c.at = 0 /\ ~c.isFirst THEN <<>> ELSE c.buf)
         /\ g.key = (IF c.state = "INVALID" THEN NoKey ELSE c.key)
         /\ g.val = (IF c.state = "INVALID" THEN NoVal ELSE c.val)
         /\ g.dbc = (IF c.state # "INVALID" \/ c.dbc = NoDbc \/ c.isFirst
                     THEN c.dbc ELSE NoKey)
         /\ g.mark = (IF c.know = "none" THEN NoKey ELSE c.mark)
<1> DEFINE b == IF c.at = 0 /\ ~c.isFirst THEN [c EXCEPT !.buf = <<>>] ELSE c
           i == IF c.state = "INVALID"
                THEN [b EXCEPT !.key = NoKey, !.val = NoVal,
                               !.dbc = IF @ = NoDbc \/ c.isFirst THEN @ ELSE NoKey] ELSE b
           g == IF c.know = "none" THEN [i EXCEPT !.mark = NoKey] ELSE i
<1>1. b \in BtCursors
  <2> DEFINE B == Keys \X Vals
  <2>1. PICK e \in Seq(B) : e = <<>>
    <3>1. <<>> \in Seq(B)
      OBVIOUS
    <3> HIDE DEF B
    <3> QED BY <3>1, Zenon
  <2>2. [c EXCEPT !.buf = e] \in BtCursors
    BY DEF BtCursors
  <2> QED BY <2>1, <2>2
<1>2. /\ b.state = c.state /\ b.blob = c.blob /\ b.once = c.once
      /\ b.lastRes = c.lastRes /\ b.lastKey = c.lastKey /\ b.skip = c.skip
      /\ b.at = c.at /\ b.isFirst = c.isFirst /\ b.know = c.know
      /\ b.key = c.key /\ b.val = c.val /\ b.dbc = c.dbc /\ b.mark = c.mark
      /\ b.buf = (IF c.at = 0 /\ ~c.isFirst THEN <<>> ELSE c.buf)
  BY DEF BtCursors
<1> HIDE DEF b
<1>3a. i \in BtCursors
  <2>1. b.dbc \in Keys \cup {NoKey, NoDbc}
    BY <1>1 DEF BtCursors
  <2> DEFINE d == IF b.dbc = NoDbc \/ c.isFirst THEN b.dbc ELSE NoKey
  <2>2. d \in Keys \cup {NoKey, NoDbc}
    BY <2>1
  <2> HIDE DEF d
  <2>3. [b EXCEPT !.key = NoKey, !.val = NoVal, !.dbc = d] \in BtCursors
    BY <1>1, <2>2, ZenonT(60) DEF BtCursors
  <2> QED BY <1>1, <2>3 DEF d
<1>3. /\ i.state = b.state /\ i.blob = b.blob /\ i.once = b.once
      /\ i.lastRes = b.lastRes /\ i.lastKey = b.lastKey /\ i.skip = b.skip
      /\ i.at = b.at /\ i.isFirst = b.isFirst /\ i.know = b.know
      /\ i.buf = b.buf /\ i.mark = b.mark
      /\ i.key = (IF c.state = "INVALID" THEN NoKey ELSE b.key)
      /\ i.val = (IF c.state = "INVALID" THEN NoVal ELSE b.val)
      /\ i.dbc = (IF c.state # "INVALID" \/ b.dbc = NoDbc \/ c.isFirst
                  THEN b.dbc ELSE NoKey)
  BY <1>1 DEF BtCursors
<1> HIDE DEF i
<1>4a. g \in BtCursors
  <2>1. [i EXCEPT !.mark = NoKey] \in BtCursors
    BY <1>3a, SMTT(30) DEF BtCursors
  <2> QED BY <1>3a, <2>1
<1>4. /\ g.state = i.state /\ g.blob = i.blob /\ g.once = i.once
      /\ g.lastRes = i.lastRes /\ g.lastKey = i.lastKey /\ g.skip = i.skip
      /\ g.at = i.at /\ g.isFirst = i.isFirst /\ g.know = i.know
      /\ g.buf = i.buf /\ g.key = i.key /\ g.val = i.val /\ g.dbc = i.dbc
      /\ g.mark = (IF c.know = "none" THEN NoKey ELSE i.mark)
  BY <1>3a DEF BtCursors
<1>5. Tidy(c) = g
  BY DEF Tidy, b, i
<1> HIDE DEF g
<1> QED BY <1>2, <1>3, <1>4, <1>4a, <1>5

LEMMA GetBufferedDef ==
  ASSUME NEW c, Typed(c), c.at < Len(c.buf), Len(c.buf) <= BufRows
  PROVE  LET g == GetBuffered(c) IN
         /\ g \in BtCursors /\ Kept(g, c)
         /\ g.state = c.state /\ g.dbc = c.dbc /\ g.lastRes = c.lastRes
         /\ g.skip = c.skip /\ g.buf = c.buf /\ g.isFirst = c.isFirst
         /\ g.at = c.at + 1 /\ g.at \in 1..Len(c.buf)
         /\ g.key = c.buf[c.at + 1][1] /\ g.val = c.buf[c.at + 1][2]
<1> DEFINE row == c.buf[c.at + 1]
           g == [c EXCEPT !.at = @ + 1, !.key = row[1], !.val = row[2]]
<1>1. c \in BtCursors /\ c.at \in 0..BufRows /\ c.buf \in Seq(Keys \X Vals) /\ BufRows \in Nat
      /\ Len(c.buf) \in Nat
  BY BdbCursorAssumption DEF Typed, BtCursors
<1>2. c.at + 1 \in 1..Len(c.buf) /\ c.at + 1 \in 0..BufRows
  BY <1>1
<1>3. row \in Keys \X Vals
  BY <1>1, <1>2
<1>4. row[1] \in Keys /\ row[2] \in Vals
  BY <1>3
<1>5. g = GetBuffered(c)
  BY DEF GetBuffered
<1> HIDE DEF row
<1>6. g \in BtCursors
  BY <1>1, <1>2, <1>4 DEF BtCursors
<1>7. /\ Kept(g, c)
      /\ g.state = c.state /\ g.dbc = c.dbc /\ g.lastRes = c.lastRes
      /\ g.skip = c.skip /\ g.buf = c.buf /\ g.isFirst = c.isFirst
      /\ g.at = c.at + 1 /\ g.key = row[1] /\ g.val = row[2]
  BY <1>1 DEF BtCursors, Kept
<1> QED BY <1>2, <1>5, <1>6, <1>7 DEF row

LEMMA TargetDef ==
  ASSUME rows \in Tables, NEW d \in Keys \cup {NoKey, NoDbc},
         NEW op \in {"FIRST", "LAST", "NEXT", "PREV"}
  PROVE  /\ Target(d, op) \in Present \cup {NoKey}
         /\ NoKey \notin Present
         /\ op = "FIRST" => Target(d, op) = Lowest(Present)
         /\ op = "LAST" => Target(d, op) = Highest(Present)
         /\ op = "NEXT" => Target(d, op) = Lowest({k \in Present : k > d})
         /\ op = "PREV" => Target(d, op) = Highest({k \in Present : d = NoKey \/ k < d})
<1>1. Present \subseteq Keys /\ NoKey \notin Present
  BY BdbCursorAssumption DEF Present, NoKey
<1> DEFINE S == IF op = "NEXT" THEN {k \in Present : k > d}
                ELSE IF op = "PREV" THEN {k \in Present : d = NoKey \/ k < d}
                ELSE Present
<1>2. S \in SUBSET Keys /\ S \subseteq Present
  BY <1>1
<1>3. Target(d, op) = (IF op \in {"FIRST", "NEXT"} THEN Lowest(S) ELSE Highest(S))
  BY DEF Target
<1>4. Lowest(S) \in Present \cup {NoKey} /\ Highest(S) \in Present \cup {NoKey}
  <2> HIDE DEF S
  <2> QED BY <1>2, LowestDef, HighestDef
<1>5. /\ op = "FIRST" => Target(d, op) = Lowest(Present)
      /\ op = "LAST" => Target(d, op) = Highest(Present)
      /\ op = "NEXT" => Target(d, op) = Lowest({k \in Present : k > d})
      /\ op = "PREV" => Target(d, op) = Highest({k \in Present : d = NoKey \/ k < d})
  BY DEF Target
<1> HIDE DEF S
<1> QED BY <1>1, <1>3, <1>4, <1>5

LEMMA OnRowDef ==
  ASSUME rows \in Tables, NEW c \in BtCursors, NEW k \in Present
  PROVE  LET g == OnRow(c, k) IN
         /\ g \in BtCursors /\ Kept(g, c)
         /\ g.state = "VALID" /\ g.key = k /\ g.val = rows[k]
         /\ g.dbc = c.dbc /\ g.lastRes = c.lastRes /\ g.skip = c.skip
         /\ g.buf = c.buf /\ g.at = c.at /\ g.isFirst = c.isFirst
<1>1. k \in Keys /\ rows[k] \in Vals
  BY DEF Present, Tables
<1> QED BY <1>1, ZenonT(60) DEF OnRow, BtCursors, Kept

-----------------------------------------------------------------------------
LEMMA GetSingleDef ==
  ASSUME rows \in Tables, NEW c \in BtCursors,
         NEW op \in {"FIRST", "LAST", "NEXT", "PREV"}
  PROVE  LET g == GetSingle(c, op)
             k == Target(c.dbc, op) IN
         /\ g \in BtCursors /\ Kept(g, c)
         /\ g.lastRes = 0 /\ ~g.isFirst /\ g.skip = c.skip /\ g.buf = c.buf /\ g.at = c.at
         /\ k = NoKey => /\ g.state = "INVALID" /\ g.dbc = c.dbc
                         /\ g.key = c.key /\ g.val = c.val
         /\ k # NoKey => /\ g.state = "VALID" /\ g.dbc = k
                         /\ g.key = k /\ g.val = rows[k]
<1> DEFINE k == Target(c.dbc, op)
           d == [c EXCEPT !.lastRes = 0, !.isFirst = FALSE]
<1>1. k \in Present \cup {NoKey}
  <2>1. c.dbc \in Keys \cup {NoKey, NoDbc}
    BY DEF BtCursors
  <2> QED BY <2>1, TargetDef
<1>2a. d \in BtCursors
  <2>1. 0 \in -1..1
    OBVIOUS
  <2> QED BY <2>1 DEF BtCursors
<1>2. /\ d \in BtCursors /\ Kept(d, c) /\ d.lastRes = 0 /\ ~d.isFirst
      /\ d.skip = c.skip /\ d.buf = c.buf /\ d.at = c.at
      /\ d.dbc = c.dbc /\ d.key = c.key /\ d.val = c.val
  <2> HIDE DEF k
  <2> QED BY <1>2a DEF BtCursors, Kept
<1>3. GetSingle(c, op) = IF k = NoKey THEN [d EXCEPT !.state = "INVALID"]
                                     ELSE [OnRow(d, k) EXCEPT !.dbc = k]
  BY DEF GetSingle
<1> HIDE DEF k, d
<1>4. CASE k = NoKey
  BY <1>2, <1>3, <1>4 DEF BtCursors, Kept, k
<1>5. CASE k # NoKey
  <2>1. k \in Present /\ k \in Keys
    BY <1>1, <1>5 DEF Present
  <2> DEFINE o == OnRow(d, k)
  <2>2. /\ o \in BtCursors /\ Kept(o, d) /\ o.state = "VALID" /\ o.key = k /\ o.val = rows[k]
        /\ o.lastRes = d.lastRes /\ o.skip = d.skip
        /\ o.buf = d.buf /\ o.at = d.at /\ o.isFirst = d.isFirst
    BY <1>2, <2>1, OnRowDef
  <2>3. GetSingle(c, op) = [o EXCEPT !.dbc = k]
    BY <1>3, <1>5
  <2> HIDE DEF o
  <2> QED BY <1>2, <1>5, <2>1, <2>2, <2>3 DEF BtCursors, Kept, k
<1> QED BY <1>4, <1>5

\* What a bulk get that returns rows leaves behind.
Filled(g, c, k, first) ==
  /\ g.state = "VALID" /\ g.key = k /\ g.val = rows[k]
  /\ g.buf = Bulk(k) /\ g.buf # <<>> /\ g.dbc = g.buf[Len(g.buf)][1] /\ g.at = 1
  /\ g.isFirst = first /\ g.lastRes = c.lastRes /\ g.skip = c.skip

LEMMA BufferSet ==
  ASSUME NEW o \in BtCursors, NEW e \in Keys, NEW b \in Seq(Keys \X Vals),
         NEW n \in 0..BufRows, NEW f \in BOOLEAN
  PROVE  [o EXCEPT !.dbc = e, !.buf = b, !.at = n, !.isFirst = f] \in BtCursors
BY ZenonT(120) DEF BtCursors

LEMMA GetBulkDef ==
  ASSUME rows \in Tables, NEW c \in BtCursors,
         NEW op \in {"FIRST", "LAST", "NEXT", "PREV"}
  PROVE  LET g == GetBulk(c, op)
             k == Target(c.dbc, op) IN
         /\ g \in BtCursors /\ Kept(g, c)
         /\ k = NoKey => /\ g.state = "INVALID" /\ g.dbc = c.dbc
                         /\ g.isFirst = c.isFirst /\ g.buf = c.buf /\ g.at = c.at
                         /\ g.lastRes = c.lastRes
         /\ k # NoKey => \/ Filled(g, c, k, op = "FIRST")
                         \/ g = GetSingle(c, op)
<1> DEFINE k == Target(c.dbc, op)
           b == Bulk(k)
<1>1. k \in Present \cup {NoKey}
  <2>1. c.dbc \in Keys \cup {NoKey, NoDbc}
    BY DEF BtCursors
  <2> QED BY <2>1, TargetDef
<1>2. GetBulk(c, op) = IF k = NoKey THEN [c EXCEPT !.state = "INVALID"]
                       ELSE IF b = <<>> THEN GetSingle(c, op)
                       ELSE [OnRow(c, k) EXCEPT !.dbc = b[Len(b)][1], !.buf = b, !.at = 1,
                                                !.isFirst = (op = "FIRST")]
  BY DEF GetBulk
<1> HIDE DEF k, b
<1>3. CASE k = NoKey
  BY <1>2, <1>3 DEF BtCursors, Kept, k
<1>4. CASE k # NoKey /\ b = <<>>
  BY <1>2, <1>4, GetSingleDef DEF k
<1>5. CASE k # NoKey /\ b # <<>>
  <2>1. k \in Present /\ k \in Keys
    BY <1>1, <1>5 DEF Present
  <2>2. b \in Seq(Keys \X Vals) /\ Len(b) \in 1..BufRows
    <3>1. b \in Seq(Keys \X Vals) /\ Len(b) \in 0..BufRows
      BY <2>1, BulkDef DEF b
    <3>2. BufRows \in Nat
      BY BdbCursorAssumption
    <3> QED BY <1>5, <3>1, <3>2
  <2>3. b[Len(b)][1] \in Keys /\ 1 \in 0..BufRows
    <3>1. b[Len(b)] \in Keys \X Vals
      BY <2>2, BdbCursorAssumption
    <3> QED BY <2>2, <3>1, BdbCursorAssumption
  <2> DEFINE o == OnRow(c, k)
             e == b[Len(b)][1]
             f == (op = "FIRST")
             g == [o EXCEPT !.dbc = e, !.buf = b, !.at = 1, !.isFirst = f]
  <2>4. /\ o \in BtCursors /\ Kept(o, c) /\ o.state = "VALID" /\ o.key = k /\ o.val = rows[k]
        /\ o.lastRes = c.lastRes /\ o.skip = c.skip
    BY <2>1, OnRowDef
  <2>5. GetBulk(c, op) = g
    BY <1>2, <1>5
  <2>6. e \in Keys /\ f \in BOOLEAN
    BY <2>3
  <2> HIDE DEF o, e, f
  <2>7. g \in BtCursors
    BY <2>2, <2>3, <2>4, <2>6, BufferSet
  <2>8. /\ Kept(g, c) /\ g.state = "VALID" /\ g.key = k /\ g.val = rows[k]
        /\ g.buf = b /\ g.dbc = e /\ g.at = 1 /\ g.isFirst = f
        /\ g.lastRes = c.lastRes /\ g.skip = c.skip
    BY <2>4 DEF BtCursors, Kept
  <2>9. Filled(g, c, k, f)
    BY <1>5, <2>8 DEF Filled, b, e
  <2> HIDE DEF g
  <2> QED BY <1>5, <2>5, <2>7, <2>8, <2>9 DEF k, f
<1> QED BY <1>3, <1>4, <1>5

-----------------------------------------------------------------------------
\* The outcomes of cursorGet: the next row of the buffer, no row, one row, or a
\* buffer that starts with it.
Advanced(g, c) == c.at # 0 /\ c.at < Len(c.buf) /\ g = GetBuffered(c)

NoneGot(g, c, at) ==
  /\ g.state = "INVALID" /\ g.dbc = c.dbc /\ g.buf = c.buf /\ g.at = at
  /\ g.isFirst => c.isFirst

OneGot(g, c, k, at) ==
  /\ g.state = "VALID" /\ g.dbc = k /\ g.key = k /\ g.val = rows[k]
  /\ ~g.isFirst /\ g.lastRes = 0 /\ g.buf = c.buf /\ g.at = at

LEMMA CursorGetDef ==
  ASSUME rows \in Tables, NEW c, Typed(c),
         NEW op \in {"FIRST", "LAST", "NEXT", "PREV"}
  PROVE  LET g == CursorGet(c, op)
             k == Target(c.dbc, op)
             at == IF op = "NEXT" THEN 0 ELSE c.at IN
         /\ g \in BtCursors /\ Kept(g, c)
         /\ \/ op = "NEXT" /\ Advanced(g, c)
            \/ /\ op = "NEXT" => c.at = 0 \/ c.at = Len(c.buf)
               /\ \/ k = NoKey /\ NoneGot(g, c, at)
                  \/ k # NoKey /\ OneGot(g, c, k, at)
                  \/ /\ k # NoKey /\ Filled(g, c, k, op = "FIRST")
                     /\ op = "FIRST" \/ (op = "NEXT" /\ ~c.skip)
<1> DEFINE k == Target(c.dbc, op)
           at == IF op = "NEXT" THEN 0 ELSE c.at
           d == IF op = "NEXT" THEN [c EXCEPT !.at = 0] ELSE c
           e == IF op = "NEXT" THEN [d EXCEPT !.skip = FALSE] ELSE d
           ahead == op = "NEXT" /\ c.at # 0 /\ c.at < Len(c.buf)
           bulk == op = "FIRST" \/ (op = "NEXT" /\ ~d.skip)
           g == CursorGet(c, op)
<1>1. c \in BtCursors /\ c.at \in 0..BufRows /\ c.at <= Len(c.buf) /\ Len(c.buf) \in Nat
      /\ BufRows \in Nat /\ (c.at # 0 => Len(c.buf) <= BufRows)
  BY BdbCursorAssumption DEF Typed, BtCursors
<1>2. CASE ahead
  <2>1. g = GetBuffered(c)
    BY <1>2 DEF CursorGet
  <2>2. g \in BtCursors /\ Kept(g, c)
    <3> HIDE DEF g
    <3> QED BY <1>1, <1>2, <2>1, GetBufferedDef
  <2>3. Advanced(g, c)
    <3> HIDE DEF g
    <3> QED BY <1>2, <2>1 DEF Advanced
  <2> QED BY <1>2, <2>2, <2>3
<1>3. CASE ~ahead
  <2>1. op = "NEXT" => c.at = 0 \/ c.at = Len(c.buf)
    BY <1>1, <1>3
  <2>2. /\ d \in BtCursors /\ Kept(d, c) /\ d.at = at /\ d.dbc = c.dbc /\ d.buf = c.buf
        /\ d.isFirst = c.isFirst /\ d.skip = c.skip /\ d.lastRes = c.lastRes
    <3>1. CASE op = "NEXT"
      <4>1. 0 \in 0..BufRows
        BY <1>1
      <4>2. [c EXCEPT !.at = 0] \in BtCursors
        BY <1>1, <4>1, ZenonT(120) DEF BtCursors
      <4> QED BY <1>1, <3>1, <4>2 DEF BtCursors, Kept
    <3>2. CASE op # "NEXT"
      BY <1>1, <3>2 DEF Kept
    <3> QED BY <3>1, <3>2
  <2> HIDE DEF d
  <2>3. /\ e \in BtCursors /\ Kept(e, d) /\ e.at = d.at /\ e.dbc = d.dbc /\ e.buf = d.buf
        /\ e.isFirst = d.isFirst
    <3>1. CASE op = "NEXT"
      <4>1. [d EXCEPT !.skip = FALSE] \in BtCursors
        BY <2>2, ZenonT(120) DEF BtCursors
      <4> QED BY <2>2, <3>1, <4>1 DEF BtCursors, Kept
    <3>2. CASE op # "NEXT"
      BY <2>2, <3>2 DEF Kept
    <3> QED BY <3>1, <3>2
  <2> HIDE DEF e
  <2>4. g = IF bulk THEN GetBulk(d, op) ELSE GetSingle(e, op)
    BY <1>3 DEF CursorGet, d, e
  <2> HIDE DEF g, k, at
  <2>5. ASSUME NEW h \in BtCursors, Kept(h, c), h.at = at, h.dbc = c.dbc, h.buf = c.buf,
               h.isFirst = c.isFirst, g = GetSingle(h, op)
        PROVE  /\ g \in BtCursors /\ Kept(g, c)
               /\ k = NoKey => NoneGot(g, c, at)
               /\ k # NoKey => OneGot(g, c, k, at)
    <3>1. /\ g \in BtCursors /\ Kept(g, h)
          /\ g.lastRes = 0 /\ ~g.isFirst /\ g.skip = h.skip /\ g.buf = h.buf /\ g.at = h.at
          /\ k = NoKey => g.state = "INVALID" /\ g.dbc = h.dbc
          /\ k # NoKey => /\ g.state = "VALID" /\ g.dbc = k /\ g.key = k /\ g.val = rows[k]
      BY <2>5, GetSingleDef DEF k
    <3> QED BY <2>5, <3>1 DEF Kept, NoneGot, OneGot
  <2>6. CASE ~bulk
    <3>1. g = GetSingle(e, op) /\ Kept(e, c)
      BY <2>2, <2>3, <2>4, <2>6 DEF Kept
    <3> QED BY <2>1, <2>2, <2>3, <2>5, <3>1 DEF k, at, g
  <2>7. CASE bulk
    <3>1. g = GetBulk(d, op) /\ (op = "FIRST" \/ (op = "NEXT" /\ ~c.skip))
      BY <2>2, <2>4, <2>7
    <3>2. /\ g \in BtCursors /\ Kept(g, d)
          /\ k = NoKey => /\ g.state = "INVALID" /\ g.dbc = d.dbc
                          /\ g.isFirst = d.isFirst /\ g.buf = d.buf /\ g.at = d.at
          /\ k # NoKey => \/ Filled(g, d, k, op = "FIRST")
                          \/ g = GetSingle(d, op)
      BY <2>2, <3>1, GetBulkDef DEF k
    <3>3. Kept(g, c)
      BY <2>2, <3>2 DEF Kept
    <3>4. CASE k = NoKey
      <4>1. NoneGot(g, c, at)
        BY <2>2, <3>2, <3>4 DEF NoneGot
      <4> QED BY <2>1, <3>2, <3>3, <3>4, <4>1 DEF k, at, g
    <3>5. CASE k # NoKey /\ Filled(g, d, k, op = "FIRST")
      <4>1. Filled(g, c, k, op = "FIRST")
        BY <2>2, <3>5 DEF Filled
      <4> QED BY <2>1, <3>1, <3>2, <3>3, <3>5, <4>1 DEF k, at, g
    <3>6. CASE k # NoKey /\ g = GetSingle(d, op)
      BY <2>1, <2>2, <2>5, <3>6 DEF k, at, g
    <3> QED BY <3>2, <3>4, <3>5, <3>6
  <2> QED BY <2>6, <2>7
<1> QED BY <1>2, <1>3

-----------------------------------------------------------------------------
LEMMA ToldDef ==
  ASSUME NEW c \in BtCursors
  PROVE  LET g == Told(c) IN
         /\ g \in BtCursors
         /\ g.state = c.state /\ g.blob = c.blob /\ g.once = c.once
         /\ g.dbc = c.dbc /\ g.key = c.key /\ g.val = c.val
         /\ g.lastRes = c.lastRes /\ g.lastKey = c.lastKey /\ g.skip = c.skip
         /\ g.buf = c.buf /\ g.at = c.at /\ g.isFirst = c.isFirst
         /\ g.know = (IF c.state = "VALID" THEN "row" ELSE "none")
         /\ g.mark = (IF c.state = "VALID" THEN c.key ELSE c.mark)
<1>1. c.key \in Keys \cup {NoKey}
  BY DEF BtCursors
<1>2. [c EXCEPT !.mark = c.key, !.know = "row"] \in BtCursors
  BY <1>1, ZenonT(120) DEF BtCursors
<1>3. [c EXCEPT !.know = "none"] \in BtCursors
  BY ZenonT(120) DEF BtCursors
<1>4. CASE c.state = "VALID"
  BY <1>2, <1>4 DEF Told, BtCursors
<1>5. CASE c.state # "VALID"
  BY <1>3, <1>5 DEF Told, BtCursors
<1> QED BY <1>4, <1>5

LEMMA ReopenedDef ==
  ASSUME NEW c \in BtCursors
  PROVE  LET g == Reopened(c) IN
         /\ g \in BtCursors /\ Kept(g, c)
         /\ g.key = c.key /\ g.val = c.val /\ g.lastRes = c.lastRes /\ g.skip = c.skip
         /\ g.buf = c.buf /\ g.at = c.at /\ g.isFirst = c.isFirst
         /\ g.state = (IF c.dbc = NoDbc THEN "INVALID" ELSE c.state)
         /\ g.dbc = (IF c.dbc = NoDbc THEN NoKey ELSE c.dbc)
<1>1. [c EXCEPT !.dbc = NoKey, !.state = "INVALID"] \in BtCursors
  BY ZenonT(120) DEF BtCursors
<1>2. CASE c.dbc = NoDbc
  BY <1>1, <1>2 DEF Reopened, BtCursors, Kept
<1>3. CASE c.dbc # NoDbc
  BY <1>3 DEF Reopened, Kept
<1> QED BY <1>2, <1>3

\* Where sqlite3BtreeMovetoUnpacked ends: it stays, finds in lastKey that there
\* is no such row, or looks for it.
Landing(k) ==
  LET up == Lowest({j \in Present : j >= k})
  IN IF up # NoKey THEN up ELSE Highest(Present)

LEMMA LandingDef ==
  ASSUME rows \in Tables, NEW k \in Keys \cup {NoKey}
  PROVE  LET up == Lowest({j \in Present : j >= k}) IN
         /\ up \in Keys \cup {NoKey}
         /\ up # NoKey => up \in Present /\ up >= k /\ Landing(k) = up
         /\ \A j \in Present : j >= k => up # NoKey /\ up <= j
         /\ up = NoKey => Landing(k) = Highest(Present)
         /\ Landing(k) \in Present \cup {NoKey}
         /\ Landing(k) = NoKey <=> Present = {}
<1> DEFINE S == {j \in Present : j >= k}
           up == Lowest(S)
<1>1. Present \in SUBSET Keys /\ S \in SUBSET Keys /\ NoKey \notin Keys
  BY BdbCursorAssumption DEF Present, NoKey
<1>2. up \in Keys \cup {NoKey} /\ (S = {} => up = NoKey)
      /\ (S # {} => up \in S /\ up # NoKey) /\ (\A j \in S : up <= j)
  <2> HIDE DEF S
  <2> QED BY <1>1, LowestDef
<1>3. Landing(k) = IF up # NoKey THEN up ELSE Highest(Present)
  BY DEF Landing
<1>4. up # NoKey => up \in Present /\ up >= k
  <2>1. up # NoKey => up \in S
    BY <1>2
  <2> HIDE DEF up
  <2> QED BY <2>1
<1>5. \A j \in Present : j >= k => up # NoKey /\ up <= j
  <2> TAKE j \in Present
  <2>1. j >= k => j \in S
    OBVIOUS
  <2> HIDE DEF S, up
  <2> QED BY <1>2, <2>1
<1>6. /\ Highest(Present) \in Present \cup {NoKey}
      /\ Present = {} => Highest(Present) = NoKey
      /\ Present # {} => Highest(Present) # NoKey
  BY <1>1, HighestDef
<1>7. Present = {} => up = NoKey
  BY <1>4
<1> HIDE DEF up
<1> QED BY <1>2, <1>3, <1>4, <1>5, <1>6, <1>7 DEF up

\* The record of a cursor, one or two of its fields set.  The sets of the
\* fields are hidden, so that the prover does not try their members.
LEMMA FieldsTyped ==
  ASSUME NEW c \in BtCursors,
         NEW st \in {"CLOSED", "INVALID", "VALID", "REQUIRESEEK", "SKIPNEXT", "FAULT", "WRECKED"},
         NEW last \in Keys \cup {NoKey, EmptyTable}
  PROVE  /\ [c EXCEPT !.state = st] \in BtCursors
         /\ [c EXCEPT !.state = st, !.lastKey = last] \in BtCursors
<1> DEFINE St == {"CLOSED", "INVALID", "VALID", "REQUIRESEEK", "SKIPNEXT", "FAULT", "WRECKED"}
           Lr == -1..1
           Kn == {"row", "place", "before", "after", "none"}
           Ks == Keys \cup {NoKey}
           Ds == Keys \cup {NoKey, NoDbc}
           Vs == Vals \cup {NoVal}
           Ls == Keys \cup {NoKey, EmptyTable}
           Bf == Seq(Keys \X Vals)
           At == 0..BufRows
           Cs == [state : St, blob : BOOLEAN, once : BOOLEAN, dbc : Ds, key : Ks, val : Vs,
                  lastRes : Lr, lastKey : Ls, skip : BOOLEAN, buf : Bf, at : At,
                  isFirst : BOOLEAN, mark : Ks, know : Kn]
<1>1. BtCursors = Cs
  BY DEF BtCursors
<1>2. c \in Cs /\ st \in St /\ last \in Ls
  BY <1>1
<1> HIDE DEF St, Lr, Kn, Ks, Ds, Vs, Ls, Bf, At
<1>3. [c EXCEPT !.state = st] \in Cs
  BY <1>2, ZenonT(60)
<1>4. [c EXCEPT !.state = st, !.lastKey = last] \in Cs
  BY <1>2, ZenonT(60)
<1> QED BY <1>1, <1>3, <1>4

LEMMA MovetoDef ==
  ASSUME rows \in Tables, NEW c \in BtCursors, NEW k \in Keys \cup {NoKey}
  PROVE  LET g == Moveto(c, k)
             up == Lowest({j \in Present : j >= k})
             n == Landing(k) IN
         /\ g \in BtCursors
         /\ \/ c.state = "VALID" /\ c.key = k /\ g = c
            \/ /\ ~(c.state = "VALID" /\ c.key = k)
               /\ g.blob = c.blob /\ g.once = c.once /\ g.mark = c.mark /\ g.know = c.know
               /\ g.at = 0 /\ ~g.isFirst /\ g.skip /\ g.lastRes = c.lastRes
               /\ g.buf = c.buf
               /\ \/ /\ c.lastKey # NoKey /\ k > c.lastKey
                     /\ g.state = "INVALID" /\ g.lastKey = c.lastKey /\ g.dbc = c.dbc
                  \/ /\ c.lastKey # NoKey => ~(k > c.lastKey)
                     /\ n = NoKey /\ g.state = "INVALID" /\ g.lastKey = EmptyTable
                     /\ g.dbc = c.dbc
                  \/ /\ c.lastKey # NoKey => ~(k > c.lastKey)
                     /\ n # NoKey /\ g.state = "VALID" /\ g.key = n /\ g.val = rows[n]
                     /\ g.dbc = n /\ g.lastKey = (IF up = NoKey THEN n ELSE c.lastKey)
<1> DEFINE d == [c EXCEPT !.at = 0, !.isFirst = FALSE, !.skip = TRUE]
           up == Lowest({j \in Present : j >= k})
           n == Landing(k)
           stays == c.state = "VALID" /\ c.key = k
           beyond == c.lastKey # NoKey /\ k > c.lastKey
           g == Moveto(c, k)
<1>1. n \in Present \cup {NoKey} /\ NoKey \notin Present /\ Present \subseteq Keys
  <2>1. Present \subseteq Keys /\ NoKey \notin Keys
    BY BdbCursorAssumption DEF Present, NoKey
  <2> QED BY <2>1, LandingDef
<1>2. d \in BtCursors
  <2>1. 0 \in 0..BufRows
    BY BdbCursorAssumption
  <2> QED BY <2>1, ZenonT(120) DEF BtCursors
<1>3. /\ d.blob = c.blob /\ d.once = c.once /\ d.mark = c.mark /\ d.know = c.know
      /\ d.at = 0 /\ ~d.isFirst /\ d.skip /\ d.lastRes = c.lastRes /\ d.buf = c.buf
      /\ d.lastKey = c.lastKey /\ d.dbc = c.dbc
  BY DEF BtCursors
<1>4. g = IF stays THEN c ELSE IF beyond THEN [d EXCEPT !.state = "INVALID"]
          ELSE MovetoLand(d, k)
  BY DEF Moveto
<1>5. MovetoLand(d, k) =
        IF n = NoKey THEN [d EXCEPT !.state = "INVALID", !.lastKey = EmptyTable]
        ELSE [OnRow(d, n) EXCEPT !.dbc = n, !.lastKey = IF up = NoKey THEN n ELSE @]
  BY DEF MovetoLand, Landing
<1> HIDE DEF d, g, n, up
<1>6. CASE stays
  BY <1>4, <1>6 DEF g, n, up
<1>7. CASE ~stays /\ beyond
  <2>1. [d EXCEPT !.state = "INVALID"] \in BtCursors
    BY <1>2, FieldsTyped
  <2>2. g = [d EXCEPT !.state = "INVALID"]
    BY <1>4, <1>7
  <2>3. /\ g.blob = d.blob /\ g.once = d.once /\ g.mark = d.mark /\ g.know = d.know
        /\ g.at = d.at /\ g.isFirst = d.isFirst /\ g.skip = d.skip
        /\ g.lastRes = d.lastRes /\ g.buf = d.buf
        /\ g.lastKey = d.lastKey /\ g.dbc = d.dbc /\ g.state = "INVALID"
    BY <1>2, <2>2 DEF BtCursors
  <2>4. g \in BtCursors
    BY <2>1, <2>2
  <2> QED BY <1>3, <1>7, <2>3, <2>4 DEF g, n, up
<1>8. CASE ~stays /\ ~beyond /\ n = NoKey
  <2>1. [d EXCEPT !.state = "INVALID", !.lastKey = EmptyTable] \in BtCursors
    BY <1>2, FieldsTyped
  <2>2. g = [d EXCEPT !.state = "INVALID", !.lastKey = EmptyTable]
    BY <1>4, <1>5, <1>8
  <2>3. /\ g.blob = d.blob /\ g.once = d.once /\ g.mark = d.mark /\ g.know = d.know
        /\ g.at = d.at /\ g.isFirst = d.isFirst /\ g.skip = d.skip
        /\ g.lastRes = d.lastRes /\ g.buf = d.buf
        /\ g.lastKey = EmptyTable /\ g.dbc = d.dbc /\ g.state = "INVALID"
    BY <1>2, <2>2 DEF BtCursors
  <2>4. g \in BtCursors
    BY <2>1, <2>2
  <2> QED BY <1>3, <1>8, <2>3, <2>4, SMTT(30) DEF g, n, up
<1>9. CASE ~stays /\ ~beyond /\ n # NoKey
  <2> DEFINE o == OnRow(d, n)
             l == IF up = NoKey THEN n ELSE o.lastKey
  <2>1. n \in Present /\ n \in Keys
    BY <1>1, <1>9
  <2>2. /\ o \in BtCursors /\ Kept(o, d) /\ o.state = "VALID" /\ o.key = n /\ o.val = rows[n]
        /\ o.lastRes = d.lastRes /\ o.skip = d.skip
        /\ o.buf = d.buf /\ o.at = d.at /\ o.isFirst = d.isFirst
    BY <1>2, <2>1, OnRowDef
  <2>3. l \in Keys \cup {NoKey, EmptyTable} /\ l = (IF up = NoKey THEN n ELSE c.lastKey)
    BY <1>3, <2>1, <2>2 DEF BtCursors, Kept
  <2>4. g = [o EXCEPT !.dbc = n, !.lastKey = l]
    BY <1>4, <1>5, <1>9, <2>2 DEF BtCursors
  <2> HIDE DEF o, l
  <2>5. [o EXCEPT !.dbc = n, !.lastKey = l] \in BtCursors
    BY <2>1, <2>2, <2>3, ZenonT(120) DEF BtCursors
  <2>6. g \in BtCursors
    BY <2>4, <2>5
  <2>7. /\ g.blob = o.blob /\ g.once = o.once /\ g.mark = o.mark /\ g.know = o.know
        /\ g.at = o.at /\ g.isFirst = o.isFirst /\ g.skip = o.skip
        /\ g.lastRes = o.lastRes /\ g.buf = o.buf /\ g.key = o.key /\ g.val = o.val
        /\ g.lastKey = l /\ g.dbc = n /\ g.state = o.state
    BY <2>2, <2>4 DEF BtCursors
  <2> QED BY <1>3, <1>9, <2>2, <2>3, <2>6, <2>7 DEF g, n, up, Kept
<1> QED BY <1>6, <1>7, <1>8, <1>9

LEMMA RestoredDef ==
  ASSUME rows \in Tables, NEW c \in BtCursors
  PROVE  LET g == Restored(c)
             k == c.key
             up == Lowest({j \in Present : j >= k})
             n == Landing(k) IN
         /\ g \in BtCursors
         /\ c.state # "REQUIRESEEK" => g = c
         /\ c.state = "REQUIRESEEK" =>
              /\ g.blob = c.blob /\ g.once = c.once /\ g.mark = c.mark /\ g.know = c.know
              /\ g.at = 0 /\ ~g.isFirst /\ g.skip /\ g.buf = c.buf
              /\ \/ /\ c.lastKey # NoKey /\ k > c.lastKey
                    /\ g.state = "INVALID" /\ g.lastKey = c.lastKey /\ g.dbc = NoKey
                    /\ g.lastRes = -1
                 \/ /\ c.lastKey # NoKey => ~(k > c.lastKey)
                    /\ n = NoKey /\ g.state = "INVALID" /\ g.lastKey = EmptyTable
                    /\ g.dbc = NoKey /\ g.lastRes = -1
                 \/ /\ c.lastKey # NoKey => ~(k > c.lastKey)
                    /\ n # NoKey /\ g.state = "VALID" /\ g.key = n /\ g.val = rows[n]
                    /\ g.dbc = n /\ g.lastKey = (IF up = NoKey THEN n ELSE c.lastKey)
                    /\ g.lastRes = (IF n < k THEN -1 ELSE IF n = k THEN 0 ELSE 1)
<1> DEFINE g == Restored(c)
           k == c.key
           up == Lowest({j \in Present : j >= k})
           n == Landing(k)
           d == [c EXCEPT !.dbc = NoKey]
           m == Moveto(d, k)
           l == MovetoRes(m, k)
<1>1. g = IF c.state = "REQUIRESEEK" THEN [m EXCEPT !.lastRes = l] ELSE c
  BY DEF Restored
<1>2. d \in BtCursors /\ k \in Keys \cup {NoKey}
  <2>1. d \in BtCursors
    BY ZenonT(120) DEF BtCursors
  <2> QED BY <2>1 DEF BtCursors
<1>3. /\ d.state = c.state /\ d.blob = c.blob /\ d.once = c.once /\ d.mark = c.mark
      /\ d.know = c.know /\ d.buf = c.buf /\ d.lastKey = c.lastKey /\ d.key = c.key
      /\ d.dbc = NoKey
  BY DEF BtCursors
<1> HIDE DEF d
<1>4. /\ m \in BtCursors
      /\ c.state = "REQUIRESEEK" =>
           /\ m.blob = d.blob /\ m.once = d.once /\ m.mark = d.mark /\ m.know = d.know
           /\ m.at = 0 /\ ~m.isFirst /\ m.skip /\ m.buf = d.buf
           /\ \/ /\ d.lastKey # NoKey /\ k > d.lastKey
                 /\ m.state = "INVALID" /\ m.lastKey = d.lastKey /\ m.dbc = d.dbc
              \/ /\ d.lastKey # NoKey => ~(k > d.lastKey)
                 /\ n = NoKey /\ m.state = "INVALID" /\ m.lastKey = EmptyTable
                 /\ m.dbc = d.dbc
              \/ /\ d.lastKey # NoKey => ~(k > d.lastKey)
                 /\ n # NoKey /\ m.state = "VALID" /\ m.key = n /\ m.val = rows[n]
                 /\ m.dbc = n /\ m.lastKey = (IF up = NoKey THEN n ELSE d.lastKey)
  <2>1. /\ m \in BtCursors
        /\ \/ d.state = "VALID" /\ d.key = k /\ m = d
           \/ /\ ~(d.state = "VALID" /\ d.key = k)
              /\ m.blob = d.blob /\ m.once = d.once /\ m.mark = d.mark /\ m.know = d.know
              /\ m.at = 0 /\ ~m.isFirst /\ m.skip /\ m.lastRes = d.lastRes
              /\ m.buf = d.buf
              /\ \/ /\ d.lastKey # NoKey /\ k > d.lastKey
                    /\ m.state = "INVALID" /\ m.lastKey = d.lastKey /\ m.dbc = d.dbc
                 \/ /\ d.lastKey # NoKey => ~(k > d.lastKey)
                    /\ n = NoKey /\ m.state = "INVALID" /\ m.lastKey = EmptyTable
                    /\ m.dbc = d.dbc
                 \/ /\ d.lastKey # NoKey => ~(k > d.lastKey)
                    /\ n # NoKey /\ m.state = "VALID" /\ m.key = n /\ m.val = rows[n]
                    /\ m.dbc = n /\ m.lastKey = (IF up = NoKey THEN n ELSE d.lastKey)
    <3> HIDE DEF k
    <3> QED BY <1>2, MovetoDef, Zenon
  <2> HIDE DEF m, up, n, k
  <2> QED BY <1>3, <2>1
<1> HIDE DEF m
<1>5. /\ l \in -1..1
      /\ m.state = "INVALID" => l = -1
      /\ m.state = "VALID" => l = (IF m.key < k THEN -1 ELSE IF m.key = k THEN 0 ELSE 1)
  BY DEF MovetoRes
<1> HIDE DEF l
<1>6. [m EXCEPT !.lastRes = l] \in BtCursors
  BY <1>4, <1>5, ZenonT(120) DEF BtCursors
<1> HIDE DEF g, up, n, k
<1>7. CASE c.state # "REQUIRESEEK"
  BY <1>1, <1>7 DEF g
<1>8. CASE c.state = "REQUIRESEEK"
  <2>1. g = [m EXCEPT !.lastRes = l]
    BY <1>1, <1>8
  <2>2. /\ g.blob = m.blob /\ g.once = m.once /\ g.mark = m.mark /\ g.know = m.know
        /\ g.at = m.at /\ g.isFirst = m.isFirst /\ g.skip = m.skip /\ g.buf = m.buf
        /\ g.state = m.state /\ g.lastKey = m.lastKey /\ g.dbc = m.dbc /\ g.key = m.key
        /\ g.val = m.val /\ g.lastRes = l
    BY <1>4, <2>1 DEF BtCursors
  <2>3. g \in BtCursors
    BY <1>6, <2>1
  <2>4. /\ g.blob = c.blob /\ g.once = c.once /\ g.mark = c.mark /\ g.know = c.know
        /\ g.at = 0 /\ ~g.isFirst /\ g.skip /\ g.buf = c.buf
    BY <1>3, <1>4, <1>8, <2>2
  <2>5. \/ /\ c.lastKey # NoKey /\ k > c.lastKey
           /\ g.state = "INVALID" /\ g.lastKey = c.lastKey /\ g.dbc = NoKey
           /\ g.lastRes = -1
        \/ /\ c.lastKey # NoKey => ~(k > c.lastKey)
           /\ n = NoKey /\ g.state = "INVALID" /\ g.lastKey = EmptyTable
           /\ g.dbc = NoKey /\ g.lastRes = -1
        \/ /\ c.lastKey # NoKey => ~(k > c.lastKey)
           /\ n # NoKey /\ g.state = "VALID" /\ g.key = n /\ g.val = rows[n]
           /\ g.dbc = n /\ g.lastKey = (IF up = NoKey THEN n ELSE c.lastKey)
           /\ g.lastRes = (IF n < k THEN -1 ELSE IF n = k THEN 0 ELSE 1)
    BY <1>3, <1>4, <1>5, <1>8, <2>2
  <2> QED BY <1>8, <2>3, <2>4, <2>5 DEF g, up, n, k
<1> QED BY <1>7, <1>8

\* A closed cursor: Tidy has nothing to do but with its buffer.
LEMMA TripDef ==
  ASSUME NEW c \in BtCursors, NEW f \in BOOLEAN
  PROVE  LET g == Trip(c, f)
             s == IF c.state # "VALID" THEN c.state
                  ELSE IF c.blob /\ ~f THEN "INVALID" ELSE "REQUIRESEEK" IN
         /\ g \in BtCursors
         /\ g.state = s /\ g.blob = c.blob /\ g.once = c.once /\ g.know = c.know
         /\ g.lastRes = c.lastRes /\ g.lastKey = c.lastKey
         /\ g.dbc = NoDbc /\ g.at = 0 /\ ~g.isFirst
         /\ s # "INVALID" => g.key = c.key
         /\ c.know # "none" => g.mark = c.mark
<1> DEFINE d == [c EXCEPT !.dbc = NoDbc, !.at = 0, !.isFirst = FALSE]
           s == IF c.state # "VALID" THEN c.state
                ELSE IF c.blob /\ ~f THEN "INVALID" ELSE "REQUIRESEEK"
           e == [d EXCEPT !.state = s]
<1>1. d \in BtCursors
  <2>1. 0 \in 0..BufRows
    BY BdbCursorAssumption
  <2> QED BY <2>1, ZenonT(120) DEF BtCursors
<1>2. /\ d.state = c.state /\ d.blob = c.blob /\ d.once = c.once /\ d.know = c.know
      /\ d.lastRes = c.lastRes /\ d.lastKey = c.lastKey /\ d.key = c.key /\ d.mark = c.mark
      /\ d.dbc = NoDbc /\ d.at = 0 /\ ~d.isFirst
  BY DEF BtCursors
<1> HIDE DEF d
<1>3. s \in {c.state, "INVALID", "REQUIRESEEK"}
  OBVIOUS
<1>4. Trip(c, f) = Tidy(e)
  <2>1. CASE c.state # "VALID"
    <3>1. e = d
      BY <1>1, <1>2, <2>1 DEF BtCursors
    <3> QED BY <2>1, <3>1 DEF Trip, d
  <2>2. CASE c.state = "VALID"
    BY <2>2 DEF Trip, d
  <2> QED BY <2>1, <2>2
<1> HIDE DEF s
<1>5. e \in BtCursors
  <2>1. CASE s = c.state
    <3>1. e = d
      BY <1>1, <1>2, <2>1 DEF BtCursors
    <3> QED BY <1>1, <3>1
  <2>2. CASE s = "INVALID"
    <3>1. [d EXCEPT !.state = "INVALID"] \in BtCursors
      BY <1>1, FieldsTyped
    <3> QED BY <2>2, <3>1
  <2>3. CASE s = "REQUIRESEEK"
    <3>1. [d EXCEPT !.state = "REQUIRESEEK"] \in BtCursors
      BY <1>1, FieldsTyped
    <3> QED BY <2>3, <3>1, SMTT(30)
  <2> QED BY <1>3, <2>1, <2>2, <2>3
<1>6. /\ e.state = s /\ e.blob = d.blob /\ e.once = d.once /\ e.know = d.know
      /\ e.lastRes = d.lastRes /\ e.lastKey = d.lastKey /\ e.key = d.key /\ e.mark = d.mark
      /\ e.dbc = d.dbc /\ e.at = d.at /\ e.isFirst = d.isFirst
  BY <1>1 DEF BtCursors
<1> HIDE DEF e
<1>7. LET g == Tidy(e) IN
      /\ g \in BtCursors
      /\ g.state = s /\ g.blob = c.blob /\ g.once = c.once /\ g.know = c.know
      /\ g.lastRes = c.lastRes /\ g.lastKey = c.lastKey
      /\ g.dbc = NoDbc /\ g.at = 0 /\ ~g.isFirst
      /\ s # "INVALID" => g.key = c.key
      /\ c.know # "none" => g.mark = c.mark
  BY <1>2, <1>5, <1>6, TidyDef
<1> QED BY <1>4, <1>7 DEF s

LEMMA InsertedDef ==
  ASSUME NEW c \in BtCursors, NEW k \in Keys
  PROVE  LET g == Inserted(c, k) IN
         /\ g \in BtCursors
         /\ g.state = c.state /\ g.blob = c.blob /\ g.once = c.once /\ g.lastRes = c.lastRes
         /\ g.key = c.key /\ g.val = c.val /\ g.mark = c.mark /\ g.buf = c.buf
         /\ g.at = 0 /\ ~g.isFirst /\ g.lastKey = NoKey /\ g.dbc = k
         /\ g.know = (IF c.state = "VALID" /\ c.key = k /\ c.know \in {"row", "place"}
                      THEN "place" ELSE "none")
<1> DEFINE w == IF c.state = "VALID" /\ c.key = k /\ c.know \in {"row", "place"}
                THEN "place" ELSE "none"
           g == [c EXCEPT !.at = 0, !.isFirst = FALSE, !.lastKey = NoKey, !.dbc = k,
                          !.skip = FALSE, !.know = w]
<1>1. 0 \in 0..BufRows /\ w \in {"row", "place", "before", "after", "none"}
  BY BdbCursorAssumption
<1>2. Inserted(c, k) = g
  BY DEF Inserted
<1> HIDE DEF w
<1>3. g \in BtCursors
  BY <1>1, ZenonT(120) DEF BtCursors
<1>4. /\ g.state = c.state /\ g.blob = c.blob /\ g.once = c.once /\ g.lastRes = c.lastRes
      /\ g.key = c.key /\ g.val = c.val /\ g.mark = c.mark /\ g.buf = c.buf
      /\ g.at = 0 /\ ~g.isFirst /\ g.lastKey = NoKey /\ g.dbc = k /\ g.know = w
  BY DEF BtCursors
<1> HIDE DEF g
<1> QED BY <1>2, <1>3, <1>4 DEF w

LEMMA UnbufferedDef ==
  ASSUME NEW c \in BtCursors
  PROVE  LET g == Unbuffered(c) IN
         /\ g \in BtCursors /\ Kept(g, c)
         /\ g.state = c.state /\ g.key = c.key /\ g.val = c.val /\ g.lastRes = c.lastRes
         /\ g.skip = c.skip /\ g.buf = c.buf /\ g.at = 0
         /\ g.isFirst = (c.at = 0 /\ c.isFirst)
         /\ g.dbc = (IF c.at = 0 THEN c.dbc ELSE c.key)
<1>1. 0 \in 0..BufRows /\ c.key \in Keys \cup {NoKey, NoDbc}
  BY BdbCursorAssumption DEF BtCursors
<1>2. CASE c.at = 0
  <2>1. Unbuffered(c) = c
    BY <1>2 DEF Unbuffered
  <2>2. c.isFirst \in BOOLEAN
    BY DEF BtCursors
  <2> QED BY <1>2, <2>1, <2>2 DEF Kept
<1>3. CASE c.at # 0
  <2> DEFINE g == [c EXCEPT !.at = 0, !.isFirst = FALSE, !.dbc = c.key]
  <2>1. Unbuffered(c) = g
    BY <1>3 DEF Unbuffered
  <2>2. g \in BtCursors
    BY <1>1, ZenonT(120) DEF BtCursors
  <2>3. /\ Kept(g, c)
        /\ g.state = c.state /\ g.key = c.key /\ g.val = c.val /\ g.lastRes = c.lastRes
        /\ g.skip = c.skip /\ g.buf = c.buf /\ g.at = 0 /\ g.isFirst = FALSE /\ g.dbc = c.key
    BY DEF BtCursors, Kept
  <2> HIDE DEF g
  <2> QED BY <1>3, <2>1, <2>2, <2>3
<1> QED BY <1>2, <1>3

-----------------------------------------------------------------------------
\* Every operation leaves a well-typed cursor, and one that counts as
\* positioned, or has the table in its buffer, is open in Berkeley DB.
Open(c) ==
  /\ c.state # "WRECKED"
  /\ c.state \in {"VALID", "SKIPNEXT"} \/ c.isFirst => c.dbc # NoDbc

Passes(g, c) == Typed(g) /\ (Open(c) => Open(g))

LEMMA TypedFacts ==
  ASSUME NEW c, Typed(c)
  PROVE  /\ c \in BtCursors /\ c.at \in Nat /\ Len(c.buf) \in Nat /\ BufRows \in Nat
         /\ c.buf \in Seq(Keys \X Vals) /\ c.at <= Len(c.buf) /\ c.at \in 0..BufRows
         /\ c.at # 0 \/ c.isFirst => Len(c.buf) \in 1..BufRows
         /\ c.key \in Keys \cup {NoKey} /\ c.dbc \in Keys \cup {NoKey, NoDbc}
         /\ c.lastKey \in Keys \cup {NoKey, EmptyTable} /\ c.lastRes \in -1..1
         /\ c.mark \in Keys \cup {NoKey}
         /\ NoDbc \notin Keys /\ NoKey \notin Keys /\ NoKey # NoDbc
  BY BdbCursorAssumption DEF Typed, BtCursors, NoKey, NoDbc

LEMMA TidyPasses ==
  ASSUME NEW c, Typed(c)
  PROVE  Passes(Tidy(c), c)
<1> DEFINE g == Tidy(c)
<1>1. /\ c \in BtCursors /\ c.at \in Nat /\ Len(c.buf) \in Nat /\ c.at <= Len(c.buf)
      /\ c.at # 0 \/ c.isFirst => Len(c.buf) \in 1..BufRows
      /\ NoKey # NoDbc
  BY TypedFacts
<1>2. /\ g \in BtCursors /\ g.state = c.state /\ g.at = c.at /\ g.isFirst = c.isFirst
      /\ g.buf = (IF c.at = 0 /\ ~c.isFirst THEN <<>> ELSE c.buf)
      /\ g.dbc = (IF c.state # "INVALID" \/ c.dbc = NoDbc \/ c.isFirst
                  THEN c.dbc ELSE NoKey)
  BY <1>1, TidyDef
<1> HIDE DEF g
<1>3. Typed(g)
  <2>1. CASE c.at = 0 /\ ~c.isFirst
    <3>1. Len(g.buf) = 0
      BY <1>2, <2>1
    <3> QED BY <1>2, <2>1, <3>1 DEF Typed
  <2>2. CASE ~(c.at = 0 /\ ~c.isFirst)
    BY <1>1, <1>2, <2>2 DEF Typed
  <2> QED BY <2>1, <2>2
<1>4. Open(c) => Open(g)
  BY <1>1, <1>2 DEF Open
<1> QED BY <1>3, <1>4 DEF Passes, g

LEMMA CursorGetPasses ==
  ASSUME rows \in Tables, NEW c, Typed(c),
         NEW op \in {"FIRST", "LAST", "NEXT", "PREV"}
  PROVE  /\ Passes(CursorGet(c, op), c)
         /\ c.dbc # NoDbc => CursorGet(c, op).dbc # NoDbc
<1> DEFINE g == CursorGet(c, op)
           k == Target(c.dbc, op)
           at == IF op = "NEXT" THEN 0 ELSE c.at
<1>1. /\ c \in BtCursors /\ c.at \in Nat /\ Len(c.buf) \in Nat /\ c.at <= Len(c.buf)
      /\ c.at # 0 \/ c.isFirst => Len(c.buf) \in 1..BufRows
      /\ NoKey # NoDbc /\ NoDbc \notin Keys /\ c.dbc \in Keys \cup {NoKey, NoDbc}
      /\ BufRows \in Nat
  BY TypedFacts
<1>2. /\ g \in BtCursors
      /\ \/ op = "NEXT" /\ Advanced(g, c)
         \/ k = NoKey /\ NoneGot(g, c, at)
         \/ k # NoKey /\ OneGot(g, c, k, at)
         \/ k # NoKey /\ Filled(g, c, k, op = "FIRST")
  BY CursorGetDef
<1>3. k \in Present \cup {NoKey} /\ Present \subseteq Keys
  <2>1. Present \subseteq Keys
    BY DEF Present
  <2> QED BY <1>1, <2>1, TargetDef
<1>4. at \in {0, c.at}
  OBVIOUS
<1> HIDE DEF g, k, at
<1>5. CASE Advanced(g, c)
  <2>1. /\ g.state = c.state /\ g.dbc = c.dbc /\ g.buf = c.buf /\ g.isFirst = c.isFirst
        /\ g.at \in 1..Len(c.buf)
    <3>1. c.at < Len(c.buf) /\ g = GetBuffered(c) /\ Len(c.buf) <= BufRows
      BY <1>1, <1>5 DEF Advanced
    <3> QED BY <3>1, GetBufferedDef
  <2>2. Len(c.buf) \in 1..BufRows
    BY <1>1, <1>5 DEF Advanced
  <2> QED BY <1>1, <1>2, <2>1, <2>2 DEF Passes, Typed, Open, g
<1>6. CASE NoneGot(g, c, at)
  <2>1. Typed(g)
    BY <1>1, <1>2, <1>4, <1>6 DEF NoneGot, Typed
  <2> QED BY <1>6, <2>1 DEF NoneGot, Passes, Open, g
<1>7. CASE k # NoKey /\ OneGot(g, c, k, at)
  <2>1. Typed(g)
    BY <1>1, <1>2, <1>4, <1>7 DEF OneGot, Typed
  <2>2. g.dbc # NoDbc
    BY <1>1, <1>3, <1>7 DEF OneGot
  <2>3. g.state = "VALID"
    BY <1>7 DEF OneGot
  <2> QED BY <2>1, <2>2, <2>3 DEF Passes, Open, g
<1>8. CASE k # NoKey /\ Filled(g, c, k, op = "FIRST")
  <2>1. k \in Present
    BY <1>3, <1>8
  <2>2. Len(g.buf) \in 1..BufRows /\ g.buf \in Seq(Keys \X Vals)
    <3>1. Len(Bulk(k)) \in 0..BufRows /\ Bulk(k) \in Seq(Keys \X Vals)
      BY <2>1, BulkDef
    <3>2. g.buf = Bulk(k) /\ g.buf # <<>>
      BY <1>8 DEF Filled
    <3> QED BY <1>1, <3>1, <3>2
  <2>3. g.dbc \in Keys
    <3>1. g.buf[Len(g.buf)] \in Keys \X Vals
      BY <1>1, <2>2
    <3> QED BY <1>8, <3>1 DEF Filled
  <2>4. Typed(g)
    BY <1>1, <1>2, <1>8, <2>2 DEF Filled, Typed
  <2>5. g.state = "VALID"
    BY <1>8 DEF Filled
  <2> QED BY <1>1, <2>3, <2>4, <2>5 DEF Passes, Open, g
<1> QED BY <1>2, <1>5, <1>6, <1>7, <1>8

LEMMA ToldPasses ==
  ASSUME NEW c, Typed(c)
  PROVE  Passes(Told(c), c)
<1>1. c \in BtCursors
  BY DEF Typed
<1> DEFINE g == Told(c)
<1>2. /\ g \in BtCursors /\ g.state = c.state /\ g.dbc = c.dbc
      /\ g.buf = c.buf /\ g.at = c.at /\ g.isFirst = c.isFirst
  BY <1>1, ToldDef
<1> HIDE DEF g
<1> QED BY <1>2 DEF Passes, Typed, Open, g

LEMMA ReopenedPasses ==
  ASSUME NEW c, Typed(c)
  PROVE  Passes(Reopened(c), c)
<1>1. c \in BtCursors /\ NoKey # NoDbc
  BY TypedFacts
<1> DEFINE g == Reopened(c)
<1>2. /\ g \in BtCursors /\ g.buf = c.buf /\ g.at = c.at /\ g.isFirst = c.isFirst
      /\ g.state = (IF c.dbc = NoDbc THEN "INVALID" ELSE c.state)
      /\ g.dbc = (IF c.dbc = NoDbc THEN NoKey ELSE c.dbc)
  BY <1>1, ReopenedDef
<1> HIDE DEF g
<1> QED BY <1>1, <1>2 DEF Passes, Typed, Open, g

LEMMA MovetoPasses ==
  ASSUME rows \in Tables, NEW c, Typed(c), NEW k \in Keys
  PROVE  Passes(Moveto(c, k), c)
<1> DEFINE g == Moveto(c, k)
           n == Landing(k)
<1>1. /\ c \in BtCursors /\ c.at \in Nat /\ Len(c.buf) \in Nat /\ NoDbc \notin Keys
      /\ NoKey # NoDbc
  BY TypedFacts
<1>2. /\ g \in BtCursors
      /\ \/ g = c
         \/ /\ g.at = 0 /\ ~g.isFirst /\ g.buf = c.buf
            /\ g.state = "INVALID" \/ (g.state = "VALID" /\ n # NoKey /\ g.dbc = n)
  <2>1. k \in Keys \cup {NoKey}
    OBVIOUS
  <2> QED BY <1>1, <2>1, MovetoDef, ZenonT(60)
<1>3. n # NoKey => n \in Keys
  BY LandingDef DEF Present
<1> HIDE DEF g, n
<1> QED BY <1>1, <1>2, <1>3 DEF Passes, Typed, Open, g

LEMMA RestoredPasses ==
  ASSUME rows \in Tables, NEW c, Typed(c)
  PROVE  Passes(Restored(c), c)
<1> DEFINE g == Restored(c)
           n == Landing(c.key)
<1>1. /\ c \in BtCursors /\ c.at \in Nat /\ Len(c.buf) \in Nat /\ NoDbc \notin Keys
      /\ NoKey # NoDbc /\ c.key \in Keys \cup {NoKey}
  BY TypedFacts
<1>2. /\ g \in BtCursors
      /\ \/ g = c
         \/ /\ g.at = 0 /\ ~g.isFirst /\ g.buf = c.buf
            /\ g.state = "INVALID" \/ (g.state = "VALID" /\ n # NoKey /\ g.dbc = n)
  BY <1>1, RestoredDef
<1>3. n # NoKey => n \in Keys
  BY <1>1, LandingDef DEF Present
<1> HIDE DEF g, n
<1> QED BY <1>1, <1>2, <1>3 DEF Passes, Typed, Open, g

LEMMA TripPasses ==
  ASSUME NEW c, Typed(c), NEW f \in BOOLEAN
  PROVE  /\ Typed(Trip(c, f))
         /\ Open(c) /\ c.state # "SKIPNEXT" => Open(Trip(c, f))
<1> DEFINE g == Trip(c, f)
<1>1. c \in BtCursors
  BY DEF Typed
<1>2. /\ g \in BtCursors /\ g.at = 0 /\ ~g.isFirst /\ Len(g.buf) \in Nat
      /\ g.state = (IF c.state # "VALID" THEN c.state
                    ELSE IF c.blob /\ ~f THEN "INVALID" ELSE "REQUIRESEEK")
  <2>1. /\ g \in BtCursors /\ g.at = 0 /\ ~g.isFirst
        /\ g.state = (IF c.state # "VALID" THEN c.state
                      ELSE IF c.blob /\ ~f THEN "INVALID" ELSE "REQUIRESEEK")
    BY <1>1, TripDef
  <2> HIDE DEF g
  <2>2. g.buf \in Seq(Keys \X Vals)
    BY <2>1 DEF BtCursors
  <2> QED BY <2>1, <2>2
<1> HIDE DEF g
<1> QED BY <1>2 DEF Typed, Open, g

LEMMA RewindDef ==
  ASSUME NEW c, Typed(c)
  PROVE  LET g == [c EXCEPT !.at = 0] IN
         /\ Passes(g, c) /\ Kept(g, c) /\ g.at = 0
         /\ g.state = c.state /\ g.dbc = c.dbc /\ g.key = c.key /\ g.val = c.val
         /\ g.lastRes = c.lastRes /\ g.skip = c.skip /\ g.buf = c.buf
         /\ g.isFirst = c.isFirst
<1> DEFINE g == [c EXCEPT !.at = 0]
<1>1. /\ c \in BtCursors /\ 0 \in 0..BufRows /\ Len(c.buf) \in Nat
      /\ c.isFirst => Len(c.buf) \in 1..BufRows
  BY TypedFacts
<1>2. g \in BtCursors
  BY <1>1, ZenonT(120) DEF BtCursors
<1>3. /\ Kept(g, c) /\ g.at = 0
      /\ g.state = c.state /\ g.dbc = c.dbc /\ g.key = c.key /\ g.val = c.val
      /\ g.lastRes = c.lastRes /\ g.skip = c.skip /\ g.buf = c.buf
      /\ g.isFirst = c.isFirst
  BY <1>1 DEF BtCursors, Kept
<1> HIDE DEF g
<1>4. Passes(g, c)
  BY <1>1, <1>2, <1>3 DEF Passes, Typed, Open
<1> QED BY <1>3, <1>4 DEF g

\* A buffer that holds the table from its start: what reading it again gives.
LEMMA RereadDef ==
  ASSUME NEW c, Typed(c), c.isFirst
  PROVE  LET d == [c EXCEPT !.at = 0]
             b == GetBuffered(d)
             g == [b EXCEPT !.state = "VALID"] IN
         /\ Typed(g) /\ Kept(g, c) /\ g.state = "VALID" /\ g.dbc = c.dbc
         /\ g.lastRes = c.lastRes /\ g.skip = c.skip /\ g.buf = c.buf /\ g.isFirst
         /\ g.at = 1 /\ g.key = c.buf[1][1] /\ g.val = c.buf[1][2]
<1> DEFINE d == [c EXCEPT !.at = 0]
           b == GetBuffered(d)
           g == [b EXCEPT !.state = "VALID"]
<1>1. Len(c.buf) \in 1..BufRows /\ BufRows \in Nat
  BY TypedFacts
<1>2. /\ Typed(d) /\ Kept(d, c) /\ d.at = 0 /\ d.state = c.state /\ d.dbc = c.dbc
      /\ d.lastRes = c.lastRes /\ d.skip = c.skip /\ d.buf = c.buf /\ d.isFirst = c.isFirst
  BY RewindDef DEF Passes
<1> HIDE DEF d
<1>3. /\ b \in BtCursors /\ Kept(b, d) /\ b.dbc = d.dbc /\ b.lastRes = d.lastRes
      /\ b.skip = d.skip /\ b.buf = d.buf /\ b.isFirst = d.isFirst
      /\ b.at = d.at + 1 /\ b.key = d.buf[d.at + 1][1] /\ b.val = d.buf[d.at + 1][2]
  <2>1. d.at < Len(d.buf) /\ Len(d.buf) <= BufRows
    BY <1>1, <1>2
  <2> QED BY <1>2, <2>1, GetBufferedDef
<1> HIDE DEF b
<1>4. g \in BtCursors
  BY <1>3, ZenonT(120) DEF BtCursors
<1>5. /\ Kept(g, b) /\ g.state = "VALID" /\ g.dbc = b.dbc /\ g.lastRes = b.lastRes
      /\ g.skip = b.skip /\ g.buf = b.buf /\ g.isFirst = b.isFirst
      /\ g.at = b.at /\ g.key = b.key /\ g.val = b.val
  BY <1>3 DEF BtCursors, Kept
<1> HIDE DEF g
<1>6. /\ Kept(g, c) /\ g.dbc = c.dbc /\ g.lastRes = c.lastRes
      /\ g.skip = c.skip /\ g.buf = c.buf /\ g.isFirst
      /\ g.at = 1 /\ g.key = c.buf[1][1] /\ g.val = c.buf[1][2]
  BY <1>2, <1>3, <1>5 DEF Kept
<1>7. Typed(g)
  BY <1>1, <1>4, <1>6 DEF Typed
<1> QED BY <1>5, <1>6, <1>7 DEF g, b, d

LEMMA RewoundPasses ==
  ASSUME rows \in Tables, NEW c, Typed(c)
  PROVE  Passes(Rewound(c), c)
<1> DEFINE d == [c EXCEPT !.at = 0]
<1>1. Passes(d, c)
  BY RewindDef
<1>2. CASE c.isFirst
  <2> DEFINE g == [GetBuffered(d) EXCEPT !.state = "VALID"]
  <2>1. Typed(g) /\ g.state = "VALID" /\ g.dbc = c.dbc
    BY <1>2, RereadDef
  <2>2. Rewound(c) = g
    BY <1>2 DEF Rewound
  <2> HIDE DEF g
  <2> QED BY <1>2, <2>1, <2>2 DEF Passes, Open
<1>3. CASE ~c.isFirst
  <2> HIDE DEF d
  <2>1. Passes(Reopened(d), d)
    BY <1>1, ReopenedPasses DEF Passes
  <2>2. Passes(CursorGet(Reopened(d), "FIRST"), Reopened(d))
    BY <2>1, CursorGetPasses DEF Passes
  <2>3. Rewound(c) = CursorGet(Reopened(d), "FIRST")
    BY <1>3 DEF Rewound, d
  <2> QED BY <1>1, <2>1, <2>2, <2>3 DEF Passes
<1> QED BY <1>2, <1>3

LEMMA ZeroTyped ==
  /\ Typed(ZeroCursor) /\ Open(ZeroCursor)
  /\ Typed([ZeroCursor EXCEPT !.state = "INVALID", !.dbc = NoKey])
  /\ Open([ZeroCursor EXCEPT !.state = "INVALID", !.dbc = NoKey])
  /\ Typed([ZeroCursor EXCEPT !.state = "FAULT"]) /\ Open([ZeroCursor EXCEPT !.state = "FAULT"])
  /\ Typed([ZeroCursor EXCEPT !.state = "WRECKED"])
<1> DEFINE z(s, d) == [ZeroCursor EXCEPT !.state = s, !.dbc = d]
<1>1. ZeroCursor \in BtCursors
  <2> DEFINE B == Keys \X Vals
  <2>1. PICK e \in Seq(B) : e = <<>>
    <3>1. <<>> \in Seq(B)
      OBVIOUS
    <3> HIDE DEF B
    <3> QED BY <3>1, Zenon
  <2>2. 0 \in 0..BufRows /\ 0 \in -1..1
    BY BdbCursorAssumption
  <2>3. ZeroCursor =
          [state |-> "CLOSED", blob |-> FALSE, once |-> FALSE,
           dbc |-> NoDbc, key |-> NoKey, val |-> NoVal, lastRes |-> 0, lastKey |-> NoKey,
           skip |-> TRUE, buf |-> e, at |-> 0, isFirst |-> FALSE,
           mark |-> NoKey, know |-> "none"]
    BY <2>1 DEF ZeroCursor
  <2> HIDE DEF B
  <2> QED BY <2>2, <2>3, ZenonT(120) DEF BtCursors, B
<1>2. /\ ZeroCursor.at = 0 /\ ~ZeroCursor.isFirst /\ Len(ZeroCursor.buf) = 0
      /\ ZeroCursor.state = "CLOSED"
  BY DEF ZeroCursor
<1>3. Typed(ZeroCursor) /\ Open(ZeroCursor)
  BY <1>1, <1>2 DEF Typed, Open
<1>4. PICK c \in BtCursors : c = ZeroCursor
  BY <1>1
<1>5. /\ [c EXCEPT !.state = "INVALID", !.dbc = NoKey] \in BtCursors
      /\ [c EXCEPT !.state = "FAULT"] \in BtCursors
      /\ [c EXCEPT !.state = "WRECKED"] \in BtCursors
  <2>1. [c EXCEPT !.state = "INVALID", !.dbc = NoKey] \in BtCursors
    BY ZenonT(120) DEF BtCursors
  <2>2. [c EXCEPT !.state = "FAULT"] \in BtCursors
    BY ZenonT(120) DEF BtCursors
  <2>3. [c EXCEPT !.state = "WRECKED"] \in BtCursors
    BY ZenonT(120) DEF BtCursors
  <2> QED BY <2>1, <2>2, <2>3
<1>6. Typed([c EXCEPT !.state = "INVALID", !.dbc = NoKey])
      /\ Open([c EXCEPT !.state = "INVALID", !.dbc = NoKey])
  <2> DEFINE g == [c EXCEPT !.state = "INVALID", !.dbc = NoKey]
  <2>1. g \in BtCursors /\ g.at = c.at /\ g.isFirst = c.isFirst /\ g.buf = c.buf
        /\ g.state = "INVALID"
    BY <1>5 DEF BtCursors
  <2> HIDE DEF g
  <2>2. Typed(g) /\ Open(g)
    BY <1>2, <1>4, <2>1 DEF Typed, Open
  <2> QED BY <2>2 DEF g
<1>7. Typed([c EXCEPT !.state = "FAULT"]) /\ Open([c EXCEPT !.state = "FAULT"])
  <2> DEFINE g == [c EXCEPT !.state = "FAULT"]
  <2>1. g \in BtCursors /\ g.at = c.at /\ g.isFirst = c.isFirst /\ g.buf = c.buf
        /\ g.state = "FAULT"
    BY <1>5 DEF BtCursors
  <2> HIDE DEF g
  <2>2. Typed(g) /\ Open(g)
    BY <1>2, <1>4, <2>1 DEF Typed, Open
  <2> QED BY <2>2 DEF g
<1>8. Typed([c EXCEPT !.state = "WRECKED"])
  <2> DEFINE g == [c EXCEPT !.state = "WRECKED"]
  <2>1. g \in BtCursors /\ g.at = c.at /\ g.isFirst = c.isFirst /\ g.buf = c.buf
    BY <1>5 DEF BtCursors
  <2> HIDE DEF g
  <2>2. Typed(g)
    BY <1>2, <1>4, <2>1 DEF Typed
  <2> QED BY <2>2 DEF g
<1> QED BY <1>3, <1>4, <1>6, <1>7, <1>8

\* Fields that an action changes by itself.
LEMMA MarkDef ==
  ASSUME NEW c, Typed(c), NEW m \in Keys \cup {NoKey},
         NEW n \in {"row", "place", "before", "after", "none"}
  PROVE  LET g == [c EXCEPT !.mark = m, !.know = n] IN
         /\ Passes(g, c) /\ g.mark = m /\ g.know = n
         /\ g.state = c.state /\ g.blob = c.blob /\ g.once = c.once /\ g.dbc = c.dbc
         /\ g.key = c.key /\ g.val = c.val /\ g.lastRes = c.lastRes /\ g.lastKey = c.lastKey
         /\ g.skip = c.skip /\ g.buf = c.buf /\ g.at = c.at /\ g.isFirst = c.isFirst
<1> DEFINE g == [c EXCEPT !.mark = m, !.know = n]
<1>1. c \in BtCursors
  BY DEF Typed
<1>2. g \in BtCursors
  <2>1. CASE n = "row"
    BY <1>1, <2>1, ZenonT(120) DEF BtCursors
  <2>2. CASE n = "place"
    BY <1>1, <2>2, ZenonT(120) DEF BtCursors
  <2>3. CASE n = "before"
    BY <1>1, <2>3, ZenonT(120) DEF BtCursors
  <2>4. CASE n = "after"
    BY <1>1, <2>4, ZenonT(120) DEF BtCursors
  <2>5. CASE n = "none"
    BY <1>1, <2>5, ZenonT(120) DEF BtCursors
  <2> QED BY <2>1, <2>2, <2>3, <2>4, <2>5
<1>3. /\ g.mark = m /\ g.know = n
      /\ g.state = c.state /\ g.blob = c.blob /\ g.once = c.once /\ g.dbc = c.dbc
      /\ g.key = c.key /\ g.val = c.val /\ g.lastRes = c.lastRes /\ g.lastKey = c.lastKey
      /\ g.skip = c.skip /\ g.buf = c.buf /\ g.at = c.at /\ g.isFirst = c.isFirst
  BY <1>1 DEF BtCursors
<1> HIDE DEF g
<1>4. Passes(g, c)
  BY <1>2, <1>3 DEF Passes, Typed, Open
<1> QED BY <1>3, <1>4 DEF g

LEMMA SettledDef ==
  ASSUME NEW c, Typed(c)
  PROVE  LET g == [c EXCEPT !.lastRes = 0] IN
         /\ Passes(g, c) /\ Kept(g, c) /\ g.lastRes = 0
         /\ g.state = c.state /\ g.dbc = c.dbc
         /\ g.key = c.key /\ g.val = c.val
         /\ g.skip = c.skip /\ g.buf = c.buf /\ g.at = c.at /\ g.isFirst = c.isFirst
<1> DEFINE g == [c EXCEPT !.lastRes = 0]
<1>1. c \in BtCursors
  BY DEF Typed
<1>2. g \in BtCursors
  <2>1. 0 \in -1..1
    OBVIOUS
  <2> QED BY <1>1, <2>1, ZenonT(120) DEF BtCursors
<1>3. /\ Kept(g, c) /\ g.lastRes = 0
      /\ g.state = c.state /\ g.dbc = c.dbc
      /\ g.key = c.key /\ g.val = c.val
      /\ g.skip = c.skip /\ g.buf = c.buf /\ g.at = c.at /\ g.isFirst = c.isFirst
  BY <1>1 DEF BtCursors, Kept
<1> HIDE DEF g
<1>4. Passes(g, c)
  BY <1>2, <1>3 DEF Passes, Typed, Open
<1> QED BY <1>3, <1>4 DEF g

\* The cursor that a delete with BTREE_SAVEPOSITION has moved on.
LEMMA SkipDef ==
  ASSUME NEW c, Typed(c), NEW n \in {0, 1}
  PROVE  LET g == [c EXCEPT !.state = "SKIPNEXT", !.once = TRUE, !.know = "place",
                            !.lastRes = n] IN
         /\ Typed(g) /\ g.state = "SKIPNEXT" /\ g.know = "place" /\ g.lastRes = n
         /\ g.blob = c.blob /\ g.mark = c.mark /\ g.dbc = c.dbc
         /\ g.key = c.key /\ g.val = c.val /\ g.lastKey = c.lastKey
         /\ g.skip = c.skip /\ g.buf = c.buf /\ g.at = c.at /\ g.isFirst = c.isFirst
<1> DEFINE g == [c EXCEPT !.state = "SKIPNEXT", !.once = TRUE, !.know = "place",
                          !.lastRes = n]
<1>1. c \in BtCursors
  BY DEF Typed
<1>2. g \in BtCursors
  <2>1. n \in -1..1
    OBVIOUS
  <2> QED BY <1>1, <2>1, ZenonT(120) DEF BtCursors
<1>3. /\ g.state = "SKIPNEXT" /\ g.know = "place" /\ g.lastRes = n
      /\ g.blob = c.blob /\ g.mark = c.mark /\ g.dbc = c.dbc
      /\ g.key = c.key /\ g.val = c.val /\ g.lastKey = c.lastKey
      /\ g.skip = c.skip /\ g.buf = c.buf /\ g.at = c.at /\ g.isFirst = c.isFirst
  BY <1>1 DEF BtCursors
<1> HIDE DEF g
<1>4. Typed(g)
  BY <1>2, <1>3 DEF Typed
<1> QED BY <1>3, <1>4 DEF g

\* One that a delete without it leaves on no row.
LEMMA GoneDef ==
  ASSUME NEW c, Typed(c)
  PROVE  LET g == [c EXCEPT !.state = "INVALID", !.dbc = NoKey, !.know = "none"] IN
         /\ Typed(g) /\ g.state = "INVALID" /\ g.know = "none" /\ g.dbc = NoKey
         /\ g.blob = c.blob /\ g.lastKey = c.lastKey /\ g.lastRes = c.lastRes
         /\ g.buf = c.buf /\ g.at = c.at /\ g.isFirst = c.isFirst
<1> DEFINE g == [c EXCEPT !.state = "INVALID", !.dbc = NoKey, !.know = "none"]
<1>1. c \in BtCursors
  BY DEF Typed
<1>2. g \in BtCursors
  BY <1>1, ZenonT(120) DEF BtCursors
<1>3. /\ g.state = "INVALID" /\ g.know = "none" /\ g.dbc = NoKey
      /\ g.blob = c.blob /\ g.lastKey = c.lastKey /\ g.lastRes = c.lastRes
      /\ g.buf = c.buf /\ g.at = c.at /\ g.isFirst = c.isFirst
  BY <1>1 DEF BtCursors
<1> HIDE DEF g
<1>4. Typed(g)
  BY <1>2, <1>3 DEF Typed
<1> QED BY <1>3, <1>4 DEF g

\* A cursor whose caller knows nothing any more counts as positioned.
LEMMA LostDef ==
  ASSUME NEW c, Typed(c)
  PROVE  LET v == [c EXCEPT !.state = "VALID"]
             g == [v EXCEPT !.know = "none"] IN
         /\ Typed(v) /\ v.state = "VALID" /\ Kept(v, c)
         /\ v.dbc = c.dbc /\ v.key = c.key /\ v.val = c.val /\ v.lastRes = c.lastRes
         /\ v.skip = c.skip /\ v.buf = c.buf /\ v.at = c.at /\ v.isFirst = c.isFirst
         /\ Typed(g) /\ g.state = "VALID" /\ g.know = "none" /\ g.dbc = c.dbc
         /\ g.blob = c.blob /\ g.lastKey = c.lastKey /\ g.lastRes = c.lastRes
         /\ g.buf = c.buf /\ g.at = c.at /\ g.isFirst = c.isFirst
<1> DEFINE v == [c EXCEPT !.state = "VALID"]
           g == [v EXCEPT !.know = "none"]
<1>1. c \in BtCursors
  BY DEF Typed
<1>2. v \in BtCursors
  BY <1>1, ZenonT(120) DEF BtCursors
<1>3. /\ v.state = "VALID" /\ Kept(v, c)
      /\ v.dbc = c.dbc /\ v.key = c.key /\ v.val = c.val /\ v.lastRes = c.lastRes
      /\ v.skip = c.skip /\ v.buf = c.buf /\ v.at = c.at /\ v.isFirst = c.isFirst
  BY <1>1 DEF BtCursors, Kept
<1> HIDE DEF v
<1>4. g \in BtCursors
  BY <1>2, ZenonT(120) DEF BtCursors
<1>5. /\ g.state = "VALID" /\ g.know = "none" /\ g.dbc = v.dbc
      /\ g.blob = v.blob /\ g.lastKey = v.lastKey /\ g.lastRes = v.lastRes
      /\ g.buf = v.buf /\ g.at = v.at /\ g.isFirst = v.isFirst
  BY <1>2, <1>3 DEF BtCursors
<1> HIDE DEF g
<1>6. Typed(v)
  BY <1>2, <1>3 DEF Typed
<1>7. Typed(g)
  BY <1>3, <1>4, <1>5 DEF Typed
<1> QED BY <1>3, <1>5, <1>6, <1>7 DEF g, v, Kept

LEMMA BlobDef ==
  ASSUME NEW c, Typed(c)
  PROVE  LET g == [c EXCEPT !.blob = TRUE] IN
         /\ Passes(g, c) /\ g.blob = TRUE /\ g.state = c.state /\ g.know = c.know
         /\ g.mark = c.mark /\ g.dbc = c.dbc /\ g.key = c.key /\ g.val = c.val
         /\ g.lastRes = c.lastRes /\ g.lastKey = c.lastKey /\ g.skip = c.skip
         /\ g.buf = c.buf /\ g.at = c.at /\ g.isFirst = c.isFirst
<1> DEFINE g == [c EXCEPT !.blob = TRUE]
<1>1. c \in BtCursors
  BY DEF Typed
<1>2. g \in BtCursors
  BY <1>1, ZenonT(120) DEF BtCursors
<1>3. /\ g.blob = TRUE /\ g.state = c.state /\ g.know = c.know
      /\ g.mark = c.mark /\ g.dbc = c.dbc /\ g.key = c.key /\ g.val = c.val
      /\ g.lastRes = c.lastRes /\ g.lastKey = c.lastKey /\ g.skip = c.skip
      /\ g.buf = c.buf /\ g.at = c.at /\ g.isFirst = c.isFirst
  BY <1>1 DEF BtCursors
<1> HIDE DEF g
<1>4. Passes(g, c)
  BY <1>2, <1>3 DEF Passes, Typed, Open
<1> QED BY <1>3, <1>4 DEF g

LEMMA ValDef ==
  ASSUME NEW c, Typed(c), NEW v \in Vals
  PROVE  LET g == [c EXCEPT !.val = v] IN
         /\ Passes(g, c) /\ Kept(g, c) /\ g.state = c.state /\ g.dbc = c.dbc
         /\ g.key = c.key /\ g.val = v /\ g.lastRes = c.lastRes
         /\ g.buf = c.buf /\ g.at = c.at /\ g.isFirst = c.isFirst
<1> DEFINE g == [c EXCEPT !.val = v]
<1>1. c \in BtCursors
  BY DEF Typed
<1>2. g \in BtCursors
  BY <1>1, ZenonT(120) DEF BtCursors
<1>3. /\ Kept(g, c) /\ g.state = c.state /\ g.dbc = c.dbc
      /\ g.key = c.key /\ g.val = v /\ g.lastRes = c.lastRes
      /\ g.buf = c.buf /\ g.at = c.at /\ g.isFirst = c.isFirst
  BY <1>1 DEF BtCursors, Kept
<1> HIDE DEF g
<1>4. Passes(g, c)
  BY <1>2, <1>3 DEF Passes, Typed, Open
<1> QED BY <1>3, <1>4 DEF g

-----------------------------------------------------------------------------
\* The type invariant, and that no call uses a cursor Berkeley DB has closed.
TypeInv ==
  /\ rows \in Tables /\ cur \in [Slots -> BtCursors]
  /\ \A s \in Slots : Typed(cur[s])

OpenInv == \A s \in Slots : Open(cur[s])

LEMMA SetCursorTyped ==
  ASSUME TypeInv, NEW s \in Slots, NEW c, Typed(c), SetCursor(s, c)
  PROVE  /\ cur' \in [Slots -> BtCursors]
         /\ cur'[s] = Tidy(c)
         /\ \A t \in Slots \ {s} : cur'[t] = cur[t]
         /\ \A t \in Slots : Typed(cur'[t])
         /\ OpenInv /\ Open(c) => \A t \in Slots : Open(cur'[t])
<1> DEFINE g == Tidy(c)
<1>1. Passes(g, c)
  BY TidyPasses
<1>2. g \in BtCursors
  BY <1>1 DEF Passes, Typed
<1>3. cur' = [cur EXCEPT ![s] = g]
  BY DEF SetCursor
<1> HIDE DEF g
<1>4. cur' \in [Slots -> BtCursors] /\ cur'[s] = g /\ \A t \in Slots \ {s} : cur'[t] = cur[t]
  BY <1>2, <1>3 DEF TypeInv
<1>5. \A t \in Slots : Typed(cur'[t])
  BY <1>1, <1>4 DEF TypeInv, Passes
<1>6. OpenInv /\ Open(c) => \A t \in Slots : Open(cur'[t])
  BY <1>1, <1>4 DEF OpenInv, Passes
<1> QED BY <1>4, <1>5, <1>6 DEF g

LEMMA WithTrippedTyped ==
  ASSUME TypeInv, Free, NEW s \in Slots, NEW c, Typed(c), NEW d, NEW f \in BOOLEAN,
         WithTripped(s, c, d, f)
  PROVE  /\ cur' \in [Slots -> BtCursors]
         /\ cur'[s] = Tidy(c)
         /\ \A t \in Slots \ {s} : IF Watches(cur[t], d) THEN cur'[t] = Trip(cur[t], f)
                                                         ELSE cur'[t] = cur[t]
         /\ \A t \in Slots : Typed(cur'[t])
         /\ OpenInv /\ Open(c) => \A t \in Slots : Open(cur'[t])
<1> DEFINE g == Tidy(c)
           h(t) == Trip(cur[t], f)
<1>1. Passes(g, c) /\ g \in BtCursors
  BY TidyPasses DEF Passes, Typed
<1>2. ASSUME NEW t \in Slots
      PROVE  /\ h(t) \in BtCursors /\ Typed(h(t)) /\ cur[t] \in BtCursors /\ Typed(cur[t])
             /\ Open(cur[t]) => Open(h(t))
  <2>1. Typed(cur[t]) /\ cur[t].state # "SKIPNEXT" /\ cur[t] \in BtCursors
    BY DEF TypeInv, Free
  <2>2. Typed(h(t)) /\ (Open(cur[t]) => Open(h(t)))
    BY <2>1, TripPasses
  <2> HIDE DEF h
  <2> QED BY <2>1, <2>2 DEF Typed
<1>3. cur' = [t \in Slots |-> IF t = s THEN g ELSE IF Watches(cur[t], d) THEN h(t) ELSE cur[t]]
  BY DEF WithTripped
<1> HIDE DEF g, h
<1>4. /\ cur' \in [Slots -> BtCursors] /\ cur'[s] = g
      /\ \A t \in Slots \ {s} : IF Watches(cur[t], d) THEN cur'[t] = h(t)
                                                      ELSE cur'[t] = cur[t]
  BY <1>1, <1>2, <1>3
<1>5. \A t \in Slots : Typed(cur'[t])
  BY <1>1, <1>2, <1>4 DEF Passes
<1>6. OpenInv /\ Open(c) => \A t \in Slots : Open(cur'[t])
  BY <1>1, <1>2, <1>4 DEF OpenInv, Passes
<1> QED BY <1>4, <1>5, <1>6 DEF g, h

\* A step that reads changes one cursor, and leaves it well typed and open.
LEMMA ReadStepIs ==
  ASSUME TypeInv, NEW s \in Slots, ReadStep(s)
  PROVE  /\ OnlyCursor
         /\ \E c : Typed(c) /\ (Open(cur[s]) => Open(c)) /\ SetCursor(s, c)
<1> DEFINE c == cur[s]
<1>1. Typed(c) /\ rows \in Tables
  BY DEF TypeInv
<1>2. ASSUME NEW g, Passes(g, c) PROVE Passes(Told(g), c)
  BY <1>2, ToldPasses DEF Passes
<1>r. Passes(Restored(c), c)
  BY <1>1, RestoredPasses
<1> HIDE DEF c
<1>3. CASE OpenCursor(s)
  BY <1>3, ZeroTyped DEF OpenCursor
<1>4. CASE CloseCursor(s)
  BY <1>4, ZeroTyped DEF CloseCursor
<1>5. CASE BtreeFirst(s)
  <2>1. Passes(Told(Rewound(c)), c)
    BY <1>1, <1>2, RewoundPasses
  <2> QED BY <1>5, <2>1 DEF BtreeFirst, Passes, c
<1>6. CASE BtreeLast(s)
  <2> DEFINE d == [Reopened(c) EXCEPT !.at = 0]
  <2>1. Passes(d, c)
    <3>1. Passes(Reopened(c), c)
      BY <1>1, ReopenedPasses
    <3>2. Passes(d, Reopened(c))
      BY <3>1, RewindDef DEF Passes
    <3> QED BY <3>1, <3>2 DEF Passes
  <2> HIDE DEF d
  <2>2. Passes(CursorGet(d, "LAST"), d)
    BY <1>1, <2>1, CursorGetPasses DEF Passes
  <2>3. Passes(Told(CursorGet(d, "LAST")), c)
    BY <1>2, <2>1, <2>2 DEF Passes
  <2> QED BY <1>6, <2>3 DEF BtreeLast, Passes, c, d
<1>7. CASE BtreeNext(s)
  <2> DEFINE r == Restored(c)
             g == IF c.state = "INVALID" THEN r
                  ELSE IF r.lastRes > 0 THEN [r EXCEPT !.lastRes = 0]
                  ELSE CursorGet(r, "NEXT")
  <2>1. Passes([r EXCEPT !.lastRes = 0], r)
    BY <1>r, SettledDef DEF Passes
  <2>2. Passes(CursorGet(r, "NEXT"), r)
    BY <1>1, <1>r, CursorGetPasses DEF Passes
  <2>3. Passes(Told(g), c)
    <3> HIDE DEF r
    <3>1. Passes(g, c)
      BY <1>r, <2>1, <2>2 DEF Passes, r
    <3> HIDE DEF g
    <3> QED BY <1>2, <3>1
  <2> QED BY <1>7, <2>3 DEF BtreeNext, Passes, c
<1>8. CASE NextAfterDelete(s)
  <2> DEFINE v == [c EXCEPT !.state = "VALID"]
             g == [v EXCEPT !.know = "none"]
  <2>1. /\ Typed(v) /\ v.state = "VALID" /\ v.dbc = c.dbc /\ v.isFirst = c.isFirst
        /\ Typed(g) /\ g.state = "VALID" /\ g.dbc = c.dbc /\ g.isFirst = c.isFirst
    BY <1>1, LostDef
  <2>2. c.state = "SKIPNEXT"
    BY <1>8 DEF NextAfterDelete, c
  <2> HIDE DEF v, g
  <2>3. Passes(v, c) /\ Passes(g, c)
    BY <2>1, <2>2 DEF Passes, Open
  <2>4. Passes(IF c.lastRes = 0 THEN Told(v) ELSE g, c)
    BY <1>2, <2>3
  <2> QED BY <1>8, <2>4 DEF NextAfterDelete, Passes, c, v, g
<1>9. CASE BtreePrevious(s)
  <2> DEFINE v == [c EXCEPT !.state = "VALID", !.lastRes = 0]
             r == IF c.state = "SKIPNEXT" THEN v ELSE Restored(c)
             g == IF r.state = "INVALID" THEN r
                  ELSE IF r.lastRes < 0 THEN [r EXCEPT !.lastRes = 0]
                  ELSE CursorGet(r, "PREV")
  <2>1. c.state = "SKIPNEXT" => Passes(v, c)
    <3> DEFINE u == [c EXCEPT !.state = "VALID"]
    <3>1. /\ Typed(u) /\ u.state = "VALID" /\ u.dbc = c.dbc /\ u.isFirst = c.isFirst
      BY <1>1, LostDef
    <3>2. v = [u EXCEPT !.lastRes = 0]
      BY <1>1 DEF Typed, BtCursors
    <3> HIDE DEF u, v
    <3>3. Passes(v, u)
      BY <3>1, <3>2, SettledDef
    <3> QED BY <3>1, <3>3 DEF Passes, Open
  <2>2. Passes(r, c)
    BY <1>r, <2>1
  <2> HIDE DEF r
  <2>3. Passes([r EXCEPT !.lastRes = 0], r)
    BY <2>2, SettledDef DEF Passes
  <2>4. Passes(CursorGet(r, "PREV"), r)
    BY <1>1, <2>2, CursorGetPasses DEF Passes
  <2>5. Passes(Told(g), c)
    <3>1. Passes(g, c)
      BY <2>2, <2>3, <2>4 DEF Passes
    <3> HIDE DEF g
    <3> QED BY <1>2, <3>1
  <2> QED BY <1>9, <2>5 DEF BtreePrevious, Passes, c, r
<1>10. CASE CursorRestore(s)
  <2> DEFINE r == Restored(c)
             n == IF r.state = "INVALID" THEN "none"
                  ELSE IF r.lastRes > 0 THEN "before" ELSE "after"
             m == [r EXCEPT !.mark = r.key, !.know = n]
             g == IF r.state = "VALID" /\ r.lastRes = 0 THEN Told(r) ELSE m
  <2>1. SetCursor(s, g) /\ OnlyCursor
    BY <1>10 DEF CursorRestore, c
  <2> HIDE DEF r
  <2>2. Passes(r, c)
    BY <1>r DEF r
  <2>3. r.key \in Keys \cup {NoKey}
    BY <2>2, TypedFacts DEF Passes
  <2>4. n \in {"row", "place", "before", "after", "none"}
    OBVIOUS
  <2>5. Passes(m, c)
    <3> HIDE DEF n
    <3>0. Typed(r)
      BY <2>2 DEF Passes
    <3>1. Passes(m, r)
      BY <2>3, <2>4, <3>0, MarkDef, ZenonT(60)
    <3> HIDE DEF m
    <3> QED BY <2>2, <3>1 DEF Passes
  <2>6. Passes(Told(r), c)
    BY <1>2, <2>2
  <2> HIDE DEF m
  <2>7. Passes(g, c)
    BY <2>5, <2>6
  <2> HIDE DEF g
  <2> QED BY <2>1, <2>7 DEF Passes, c
<1>11. CASE IncrblobCursor(s)
  <2>1. Passes([c EXCEPT !.blob = TRUE], c)
    BY <1>1, BlobDef
  <2> QED BY <1>11, <2>1 DEF IncrblobCursor, Passes, c
<1>12. CASE PayloadChecked(s)
  BY <1>r, <1>12 DEF PayloadChecked, Passes, c
<1>13. ASSUME NEW k \in Keys, Seek(s, k)
       PROVE  OnlyCursor /\ \E g : Typed(g) /\ (Open(c) => Open(g)) /\ SetCursor(s, g)
  <2>1. Passes(Reopened(c), c)
    BY <1>1, ReopenedPasses
  <2>2. Passes(Moveto(Reopened(c), k), Reopened(c))
    BY <1>1, <2>1, MovetoPasses DEF Passes
  <2>3. Passes(Told(Moveto(Reopened(c), k)), c)
    BY <1>2, <2>1, <2>2 DEF Passes
  <2> QED BY <1>13, <2>3 DEF Seek, Passes, c
<1> QED BY <1>3, <1>4, <1>5, <1>6, <1>7, <1>8, <1>9, <1>10, <1>11, <1>12, <1>13
        DEF ReadStep, c

\* Whatever is inserted, deleted or rolled back; an insertion with a tripped
\* cursor is the one step that wrecks the process.
LEMMA StepTyped ==
  ASSUME TypeInv, [BdbCursorNext]_bcvars
  PROVE  TypeInv' /\ ("insertTripped" \notin Habits /\ OpenInv => OpenInv')
<1> DEFINE Good == TypeInv' /\ ("insertTripped" \notin Habits /\ OpenInv => OpenInv')
<1>r. /\ rows \in Tables /\ cur \in [Slots -> BtCursors] /\ \A t \in Slots : Typed(cur[t])
      /\ \A k \in Keys, v \in Vals \cup {NoVal} : [rows EXCEPT ![k] = v] \in Tables
  BY DEF TypeInv, Tables
<1>1. CASE UNCHANGED bcvars
  BY <1>1 DEF bcvars, TypeInv, OpenInv
<1>2. ASSUME NEW s \in Slots, ReadStep(s) PROVE Good
  <2>1. rows' = rows
    BY <1>2, ReadStepIs DEF OnlyCursor
  <2>2. PICK c : Typed(c) /\ (Open(cur[s]) => Open(c)) /\ SetCursor(s, c)
    BY <1>2, ReadStepIs
  <2>3. /\ cur' \in [Slots -> BtCursors] /\ \A t \in Slots : Typed(cur'[t])
        /\ OpenInv /\ Open(c) => \A t \in Slots : Open(cur'[t])
    BY <2>2, SetCursorTyped
  <2> QED BY <1>r, <2>1, <2>2, <2>3 DEF TypeInv, OpenInv
<1>3. ASSUME NEW s \in Slots, NEW k \in Keys, NEW v \in Vals, Insert(s, k, v) PROVE Good
  <2>1. CASE cur[s].dbc = NoDbc
    <3> DEFINE z == [ZeroCursor EXCEPT !.state = "WRECKED"]
    <3>1. SetCursor(s, z) /\ rows' = rows /\ "insertTripped" \in Habits
      BY <1>3, <2>1 DEF Insert
    <3>2. Typed(z)
      BY ZeroTyped
    <3> HIDE DEF z
    <3>3. cur' \in [Slots -> BtCursors] /\ \A t \in Slots : Typed(cur'[t])
      BY <3>1, <3>2, SetCursorTyped
    <3> QED BY <1>r, <3>1, <3>3 DEF TypeInv
  <2>2. CASE cur[s].dbc # NoDbc
    <3> DEFINE g == Inserted(cur[s], k)
    <3>1. WithTripped(s, g, k, FALSE) /\ Free /\ rows' = [rows EXCEPT ![k] = v]
          /\ cur[s].state # "WRECKED"
      BY <1>3, <2>2 DEF Insert, Live
    <3>2. g \in BtCursors /\ g.at = 0 /\ ~g.isFirst /\ g.dbc = k /\ g.state = cur[s].state
      BY <1>r, InsertedDef
    <3> HIDE DEF g
    <3>3. Typed(g) /\ Open(g)
      <4>1. g.buf \in Seq(Keys \X Vals)
        BY <3>2 DEF BtCursors
      <4>2. Len(g.buf) \in Nat /\ NoDbc \notin Keys
        BY <4>1, BdbCursorAssumption DEF NoDbc
      <4> QED BY <3>1, <3>2, <4>2 DEF Typed, Open
    <3>4. /\ cur' \in [Slots -> BtCursors] /\ \A t \in Slots : Typed(cur'[t])
          /\ OpenInv => \A t \in Slots : Open(cur'[t])
      BY <3>1, <3>3, WithTrippedTyped
    <3> QED BY <1>r, <3>1, <3>4 DEF TypeInv, OpenInv
  <2> QED BY <2>1, <2>2
<1>4. ASSUME NEW s \in Slots, NEW f \in BOOLEAN, Delete(s, f) PROVE Good
  <2> DEFINE c == cur[s]
             d == Unbuffered(c)
             g == CursorGet(d, "NEXT")
             n == IF g.state = "INVALID" THEN 1 ELSE 0
             p == [g EXCEPT !.state = "SKIPNEXT", !.once = TRUE, !.know = "place",
                            !.lastRes = n]
             q == [d EXCEPT !.state = "INVALID", !.dbc = NoKey, !.know = "none"]
             e == IF f THEN p ELSE q
  <2>1. /\ Free /\ c.state = "VALID" /\ WithTripped(s, e, d.dbc, FALSE)
        /\ rows' = [rows EXCEPT ![d.dbc] = NoVal]
    BY <1>4 DEF Delete
  <2>2. rows' \in Tables
    BY <1>r, <2>1 DEF Tables
  <2>3. Typed(c)
    BY <1>r
  <2> HIDE DEF c
  <2>4. Typed(d) /\ d.at = 0 /\ (c.dbc # NoDbc => d.dbc # NoDbc)
    <3>1. c \in BtCursors /\ c.key # NoDbc /\ Len(c.buf) \in Nat
          /\ (c.isFirst => Len(c.buf) \in 1..BufRows)
      BY <2>3, TypedFacts
    <3>2. /\ d \in BtCursors /\ d.buf = c.buf /\ d.at = 0
          /\ d.isFirst = (c.at = 0 /\ c.isFirst)
          /\ d.dbc = (IF c.at = 0 THEN c.dbc ELSE c.key)
      BY <3>1, UnbufferedDef
    <3> HIDE DEF d
    <3>3. d.dbc # NoDbc \/ c.dbc = NoDbc
      BY <3>1, <3>2
    <3>4. d.isFirst => c.isFirst
      BY <3>2
    <3>5. Typed(d)
      BY <3>1, <3>2, <3>4 DEF Typed
    <3> QED BY <3>2, <3>3, <3>5
  <2> HIDE DEF d
  <2>5. Typed(g) /\ (d.dbc # NoDbc => g.dbc # NoDbc)
    BY <1>r, <2>4, CursorGetPasses DEF Passes
  <2> HIDE DEF g
  <2>6. Typed(p) /\ p.state = "SKIPNEXT" /\ p.dbc = g.dbc
    <3>1. n \in {0, 1}
      OBVIOUS
    <3> HIDE DEF n
    <3> QED BY <2>5, <3>1, SkipDef, ZenonT(60)
  <2>7. Typed(q) /\ q.state = "INVALID" /\ q.dbc = NoKey /\ NoKey # NoDbc
    <3>1. NoKey # NoDbc
      BY DEF NoKey, NoDbc
    <3>2. Typed(q) /\ q.state = "INVALID" /\ q.dbc = NoKey
      BY <2>4, GoneDef
    <3> QED BY <3>1, <3>2
  <2> HIDE DEF p, q
  <2>8. Typed(e) /\ (c.dbc # NoDbc => Open(e))
    BY <2>4, <2>5, <2>6, <2>7 DEF Open
  <2> HIDE DEF e
  <2>9. /\ cur' \in [Slots -> BtCursors] /\ \A t \in Slots : Typed(cur'[t])
        /\ OpenInv /\ Open(e) => \A t \in Slots : Open(cur'[t])
    BY <2>1, <2>8, WithTrippedTyped
  <2>10. OpenInv => c.dbc # NoDbc
    BY <2>1 DEF OpenInv, Open, c
  <2> QED BY <2>2, <2>8, <2>9, <2>10 DEF TypeInv, OpenInv
<1>5. ASSUME NEW s \in Slots, NEW v \in Vals, PutData(s, v) PROVE Good
  <2> DEFINE c == cur[s]
             r == Restored(c)
             g == [r EXCEPT !.val = v]
  <2>1. /\ Free /\ WithTripped(s, g, r.dbc, TRUE) /\ rows' = [rows EXCEPT ![r.dbc] = v]
    BY <1>5 DEF PutData
  <2>2. rows' \in Tables
    BY <1>r, <2>1 DEF Tables
  <2>3. Typed(c)
    BY <1>r
  <2> HIDE DEF c
  <2>4. Passes(r, c)
    BY <1>r, <2>3, RestoredPasses
  <2> HIDE DEF r
  <2>5. Passes(g, r)
    BY <2>4, ValDef DEF Passes
  <2> HIDE DEF g
  <2>6. /\ cur' \in [Slots -> BtCursors] /\ \A t \in Slots : Typed(cur'[t])
        /\ OpenInv /\ Open(g) => \A t \in Slots : Open(cur'[t])
    BY <2>1, <2>5, WithTrippedTyped DEF Passes
  <2> QED BY <2>2, <2>4, <2>5, <2>6 DEF TypeInv, OpenInv, Passes, c
<1>6. CASE ClearTable
  <2>1. /\ Free /\ rows' = [k \in Keys |-> NoVal]
        /\ cur' = [t \in Slots |-> IF cur[t].dbc = NoDbc THEN cur[t] ELSE Trip(cur[t], FALSE)]
    BY <1>6 DEF ClearTable
  <2>2. rows' \in Tables
    BY <2>1 DEF Tables
  <2> DEFINE h(t) == Trip(cur[t], FALSE)
  <2>3. ASSUME NEW t \in Slots
        PROVE  h(t) \in BtCursors /\ Typed(h(t)) /\ (Open(cur[t]) => Open(h(t)))
    <3>1. Typed(cur[t]) /\ cur[t].state # "SKIPNEXT"
      BY <1>r, <2>1 DEF Free
    <3>2. Typed(h(t)) /\ (Open(cur[t]) => Open(h(t)))
      BY <3>1, TripPasses
    <3> HIDE DEF h
    <3> QED BY <3>2 DEF Typed
  <2>4. cur' = [t \in Slots |-> IF cur[t].dbc = NoDbc THEN cur[t] ELSE h(t)]
    BY <2>1
  <2> HIDE DEF h
  <2>5. /\ cur' \in [Slots -> BtCursors] /\ \A t \in Slots : Typed(cur'[t])
        /\ OpenInv => \A t \in Slots : Open(cur'[t])
    BY <1>r, <2>3, <2>4 DEF OpenInv
  <2> QED BY <2>2, <2>5 DEF TypeInv, OpenInv
<1>7. CASE RollbackTo
  <2> DEFINE z == [ZeroCursor EXCEPT !.state = "FAULT"]
  <2>1. /\ \E k \in Keys, v \in Vals \cup {NoVal} : rows' = [rows EXCEPT ![k] = v]
        /\ cur' = [t \in Slots |-> IF cur[t].state = "CLOSED" THEN cur[t] ELSE z]
    BY <1>7 DEF RollbackTo
  <2>2. rows' \in Tables
    BY <1>r, <2>1
  <2>3. Typed(z) /\ Open(z) /\ z \in BtCursors
    BY ZeroTyped DEF Typed
  <2> HIDE DEF z
  <2>4. /\ cur' \in [Slots -> BtCursors] /\ \A t \in Slots : Typed(cur'[t])
        /\ OpenInv => \A t \in Slots : Open(cur'[t])
    BY <1>r, <2>1, <2>3 DEF OpenInv
  <2> QED BY <2>2, <2>4 DEF TypeInv, OpenInv
<1> QED BY <1>1, <1>2, <1>3, <1>4, <1>5, <1>6, <1>7 DEF BdbCursorNext, WriteStep

LEMMA InitTyped == BdbCursorInit => TypeInv /\ OpenInv
<1>1. Typed(ZeroCursor) /\ Open(ZeroCursor) /\ ZeroCursor \in BtCursors
  BY ZeroTyped DEF Typed
<1> QED BY <1>1 DEF BdbCursorInit, TypeInv, OpenInv

\* Every reachable state is well typed, whatever the caller's habits: what a
\* bulk get puts into the buffer fits, and a buffer that is read is not empty.
THEOREM BdbCursorTypeCorrect == BdbCursorSpec => []BdbCursorTypeOK
<1>1. BdbCursorInit => TypeInv
  BY InitTyped
<1>2. TypeInv /\ [BdbCursorNext]_bcvars => TypeInv'
  BY StepTyped
<1>3. TypeInv => BdbCursorTypeOK
  BY DEF TypeInv, BdbCursorTypeOK
<1> QED BY <1>1, <1>2, <1>3, PTL DEF BdbCursorSpec

\* No call goes to Berkeley DB with a cursor that btreeTripWatchers or
\* btreeTripAll has closed, unless the caller inserts through a tripped one.
THEOREM DbcCorrect ==
  ASSUME "insertTripped" \notin Habits
  PROVE  BdbCursorSpec => []NoNullDbc
<1>1. BdbCursorInit => TypeInv /\ OpenInv
  BY InitTyped
<1>2. TypeInv /\ OpenInv /\ [BdbCursorNext]_bcvars => TypeInv' /\ OpenInv'
  BY StepTyped
<1>3. OpenInv => NoNullDbc
  BY DEF OpenInv, Open, NoNullDbc
<1> QED BY <1>1, <1>2, <1>3, PTL DEF BdbCursorSpec

-----------------------------------------------------------------------------
\* The rows of a table, and its least row after row k.
Has(r) == {k \in Keys : r[k] # NoVal}

NextRow(r, k) == Lowest({j \in Has(r) : j > k})

\* multiData holds rows of the table that follow each other, and the DBC is on
\* the last one.
Buffer(r, c) ==
  /\ Len(c.buf) \in 1..BufRows
  /\ \A i \in 1..Len(c.buf) : c.buf[i][1] \in Has(r) /\ c.buf[i][2] = r[c.buf[i][1]]
  /\ \A i \in 1..(Len(c.buf) - 1) : c.buf[i + 1][1] = NextRow(r, c.buf[i][1])
  /\ c.dbc = c.buf[Len(c.buf)][1]

\* A buffer that is read, and one that may be read again.
Reads(r, c) == Buffer(r, c) /\ c.buf[c.at][1] = c.key /\ c.buf[c.at][2] = c.val

Rescans(r, c) == Buffer(r, c) /\ c.buf[1][1] = Lowest(Has(r))

Buffered(r, c) ==
  /\ c.at # 0 => /\ c.state \in {"VALID", "SKIPNEXT"} /\ c.know \in {"row", "place"}
                 /\ Reads(r, c)
  /\ c.isFirst => /\ c.state = "INVALID" \/ (c.state = "VALID" /\ c.at # 0)
                  /\ Rescans(r, c)

\* lastKey, if it is set, is not below any row.
LastKnown(r, c) ==
  /\ c.lastKey \in Keys => \A j \in Has(r) : j <= c.lastKey
  /\ c.lastKey = EmptyTable => Has(r) = {}

\* Where a cursor is, state by state.
OnItsRow(r, c) ==
  c.state = "VALID" /\ c.know # "none" =>
    /\ c.key = c.mark /\ c.key \in Has(r)
    /\ c.know # "place" => c.val = r[c.key]
    /\ c.at = 0 => c.dbc = c.key
    /\ c.know = "place" => c.at = 0
    /\ ~c.blob => c.lastRes = (IF c.know = "before" THEN 1
                               ELSE IF c.know = "after" THEN -1 ELSE 0)

Saved(r, c) ==
  c.state = "REQUIRESEEK" =>
    /\ c.dbc = NoDbc /\ c.at = 0 /\ ~c.isFirst
    /\ c.know # "none" => /\ c.key = c.mark /\ c.key \in Keys
                          /\ c.lastKey # NoKey => c.key <= c.lastKey
    /\ c.blob => c.key \in Has(r)

Deleted(r, c) ==
  c.state = "SKIPNEXT" =>
    /\ ~c.blob /\ ~c.isFirst /\ c.know = "place" /\ c.mark \in Keys \ Has(r)
    /\ \/ /\ c.lastRes = 0 /\ c.key = NextRow(r, c.mark) /\ c.key # NoKey
          /\ c.val = r[c.key] /\ (c.at = 0 => c.dbc = c.key)
       \/ /\ c.lastRes = 1 /\ c.at = 0 /\ c.dbc = c.mark
          /\ NextRow(r, c.mark) = NoKey

Knows(c) ==
  /\ c.know \in {"before", "after"} => c.state = "VALID" /\ c.at = 0 /\ ~c.blob /\ c.skip
  /\ c.state = "INVALID" /\ ~c.blob => c.know = "none"
  /\ c.blob => c.know = "row" /\ c.at = 0 /\ ~c.isFirst
  /\ c.state \in {"CLOSED", "FAULT"} =>
       /\ c.dbc = NoDbc /\ c.at = 0 /\ ~c.isFirst /\ ~c.blob
       /\ c.lastKey = NoKey /\ c.know = "none"

Sound(r, c) ==
  /\ Buffered(r, c) /\ LastKnown(r, c) /\ OnItsRow(r, c)
  /\ Saved(r, c) /\ Deleted(r, c) /\ Knows(c)

-----------------------------------------------------------------------------
LEMMA HasIs ==
  /\ Has(rows) = Present /\ Present \subseteq Keys
  /\ \A k : NextRow(rows, k) = Lowest({j \in Present : j > k})
BY DEF Has, NextRow, Present

LEMMA NextRowDef ==
  ASSUME NEW r, NEW k
  PROVE  /\ NextRow(r, k) \in Has(r) \cup {NoKey}
         /\ NextRow(r, k) # NoKey => NextRow(r, k) > k
         /\ \A j \in Has(r) : j > k => NextRow(r, k) <= j /\ NextRow(r, k) # NoKey
<1> DEFINE S == {j \in Has(r) : j > k}
<1>1. S \in SUBSET Keys /\ S \subseteq Has(r)
  BY DEF Has
<1>2. NextRow(r, k) = Lowest(S)
  BY DEF NextRow
<1>3. /\ S = {} => Lowest(S) = NoKey
      /\ S # {} => Lowest(S) \in S /\ Lowest(S) # NoKey
      /\ \A j \in S : Lowest(S) <= j
  <2> HIDE DEF S
  <2> QED BY <1>1, LowestDef
<1>4. S # {} => Lowest(S) \in Has(r) /\ Lowest(S) > k
  BY <1>3
<1>5. ASSUME NEW j \in Has(r), j > k PROVE j \in S
  BY <1>5
<1> HIDE DEF S
<1> QED BY <1>2, <1>3, <1>4, <1>5

\* Only the buffer, the DBC and where the cursor reads matter.
LEMMA SameBuffer ==
  ASSUME NEW r, NEW c, NEW g, g.buf = c.buf, g.dbc = c.dbc
  PROVE  /\ Buffer(r, g) <=> Buffer(r, c)
         /\ Rescans(r, g) <=> Rescans(r, c)
         /\ g.at = c.at /\ g.key = c.key /\ g.val = c.val => (Reads(r, g) <=> Reads(r, c))
<1>1. Buffer(r, g) <=> Buffer(r, c)
  BY DEF Buffer
<1>2. Rescans(r, g) <=> Rescans(r, c)
  BY <1>1 DEF Rescans
<1>3. g.at = c.at /\ g.key = c.key /\ g.val = c.val => (Reads(r, g) <=> Reads(r, c))
  BY <1>1 DEF Reads
<1> QED BY <1>1, <1>2, <1>3

\* What a cursor that reads its buffer is on, and what follows it.
LEMMA ReadsDef ==
  ASSUME NEW r, NEW c, Typed(c), Reads(r, c), c.at # 0
  PROVE  /\ c.key \in Has(r) /\ c.val = r[c.key]
         /\ c.at = Len(c.buf) => c.dbc = c.key
         /\ c.at < Len(c.buf) => /\ c.buf[c.at + 1][1] = NextRow(r, c.key)
                                 /\ c.buf[c.at + 1][1] \in Has(r)
                                 /\ c.buf[c.at + 1][2] = r[c.buf[c.at + 1][1]]
<1>1. c.at \in Nat /\ Len(c.buf) \in Nat /\ c.at <= Len(c.buf)
  BY TypedFacts
<1>2. /\ c.at \in 1..Len(c.buf)
      /\ c.at < Len(c.buf) => c.at + 1 \in 1..Len(c.buf) /\ c.at \in 1..(Len(c.buf) - 1)
  BY <1>1
<1> QED BY <1>2 DEF Reads, Buffer

LEMMA RescansDef ==
  ASSUME NEW r, NEW c, Rescans(r, c)
  PROVE  /\ c.buf[1][1] \in Has(r) /\ c.buf[1][2] = r[c.buf[1][1]]
         /\ c.buf[1][1] = Lowest(Has(r))
         /\ Len(c.buf) \in 1..BufRows
<1>1. 1 \in 1..Len(c.buf)
  BY BdbCursorAssumption DEF Rescans, Buffer
<1> QED BY <1>1 DEF Rescans, Buffer

LEMMA FilledDef ==
  ASSUME rows \in Tables, NEW g, NEW c, NEW k \in Present, NEW first, Filled(g, c, k, first)
  PROVE  /\ Buffer(rows, g) /\ Reads(rows, g)
         /\ g.buf[1][1] = k
         /\ \A i \in 1..Len(g.buf) : k <= g.buf[i][1]
<1>1. g.buf = Bulk(k) /\ g.buf # <<>> /\ g.dbc = g.buf[Len(g.buf)][1] /\ g.at = 1
      /\ g.key = k /\ g.val = rows[k]
  BY DEF Filled
<1>2. /\ g.buf \in Seq(Keys \X Vals)
      /\ Len(g.buf) \in 0..BufRows
      /\ \A i \in 1..Len(g.buf) :
           /\ g.buf[i][1] \in Present /\ g.buf[i][2] = rows[g.buf[i][1]]
           /\ k <= g.buf[i][1]
      /\ g.buf[1][1] = k
      /\ \A i \in 1..(Len(g.buf) - 1) :
           g.buf[i + 1][1] = Lowest({j \in Present : j > g.buf[i][1]})
  BY <1>1, BulkDef
<1>3. Len(g.buf) \in 1..BufRows
  <2>1. Len(g.buf) # 0 /\ BufRows \in Nat
    BY <1>1, <1>2, BdbCursorAssumption
  <2> QED BY <1>2, <2>1
<1>4. Buffer(rows, g)
  BY <1>1, <1>2, <1>3, HasIs DEF Buffer
<1>5. Reads(rows, g)
  <2>1. 1 \in 1..Len(g.buf)
    BY <1>3
  <2> QED BY <1>1, <1>2, <1>4, <2>1 DEF Reads
<1> QED BY <1>2, <1>4, <1>5

-----------------------------------------------------------------------------
\* What a call that moves a cursor leaves before the caller is told.
Ready(r, c) ==
  /\ ~c.blob /\ c.state \in {"VALID", "INVALID"}
  /\ c.state = "VALID" => /\ c.key \in Has(r) /\ c.val = r[c.key] /\ c.lastRes = 0
                          /\ c.at = 0 => c.dbc = c.key /\ ~c.isFirst
  /\ c.at # 0 => c.state = "VALID" /\ Reads(r, c)
  /\ c.isFirst => Rescans(r, c)
  /\ LastKnown(r, c)

LEMMA ToldSound ==
  ASSUME NEW r, NEW c, Typed(c), Ready(r, c)
  PROVE  Typed(Told(c)) /\ Sound(r, Told(c))
<1> DEFINE g == Told(c)
<1>1. Typed(g)
  BY ToldPasses DEF Passes
<1>2. /\ g.state = c.state /\ g.blob = c.blob
      /\ g.dbc = c.dbc /\ g.key = c.key /\ g.val = c.val
      /\ g.lastRes = c.lastRes /\ g.lastKey = c.lastKey
      /\ g.buf = c.buf /\ g.at = c.at /\ g.isFirst = c.isFirst
      /\ g.know = (IF c.state = "VALID" THEN "row" ELSE "none")
      /\ g.mark = (IF c.state = "VALID" THEN c.key ELSE c.mark)
  BY ToldDef DEF Typed
<1> HIDE DEF g
<1>3. (Reads(r, g) <=> Reads(r, c)) /\ (Rescans(r, g) <=> Rescans(r, c))
  BY <1>2, SameBuffer
<1>4. Buffered(r, g)
  BY <1>2, <1>3 DEF Ready, Buffered
<1>5. LastKnown(r, g)
  BY <1>2 DEF Ready, LastKnown
<1>6. OnItsRow(r, g)
  BY <1>2 DEF Ready, OnItsRow
<1>7. Saved(r, g) /\ Deleted(r, g)
  BY <1>2 DEF Ready, Saved, Deleted
<1>8. Knows(g)
  BY <1>2 DEF Ready, Knows
<1> QED BY <1>1, <1>4, <1>5, <1>6, <1>7, <1>8 DEF Sound, g

LEMMA TidySound ==
  ASSUME NEW r, NEW c, Typed(c), Sound(r, c)
  PROVE  Sound(r, Tidy(c))
<1> DEFINE g == Tidy(c)
<1>1. /\ g.state = c.state /\ g.blob = c.blob
      /\ g.lastRes = c.lastRes /\ g.lastKey = c.lastKey /\ g.skip = c.skip
      /\ g.at = c.at /\ g.isFirst = c.isFirst /\ g.know = c.know
      /\ g.buf = (IF c.at = 0 /\ ~c.isFirst THEN <<>> ELSE c.buf)
      /\ c.state # "INVALID" => g.key = c.key /\ g.val = c.val
      /\ g.dbc = (IF c.state # "INVALID" \/ c.dbc = NoDbc \/ c.isFirst
                  THEN c.dbc ELSE NoKey)
      /\ g.mark = (IF c.know = "none" THEN NoKey ELSE c.mark)
  BY TidyDef DEF Typed
<1> HIDE DEF g
<1>2. /\ c.at # 0 => (Reads(r, g) <=> Reads(r, c))
      /\ c.isFirst => (Rescans(r, g) <=> Rescans(r, c))
  <2>1. CASE c.at # 0
    <3>1. c.state # "INVALID"
      BY <2>1 DEF Sound, Buffered
    <3>2. g.buf = c.buf /\ g.dbc = c.dbc /\ g.at = c.at /\ g.key = c.key /\ g.val = c.val
      BY <1>1, <2>1, <3>1
    <3> QED BY <3>2, SameBuffer
  <2>2. CASE c.at = 0 /\ c.isFirst
    <3>1. g.buf = c.buf /\ g.dbc = c.dbc
      BY <1>1, <2>2
    <3> QED BY <2>2, <3>1, SameBuffer
  <2> QED BY <2>1, <2>2
<1>3. Buffered(r, g)
  BY <1>1, <1>2 DEF Sound, Buffered
<1>4. LastKnown(r, g)
  BY <1>1 DEF Sound, LastKnown
<1>5. OnItsRow(r, g)
  BY <1>1 DEF Sound, OnItsRow
<1>6. Saved(r, g)
  BY <1>1 DEF Sound, Saved
<1>7. Deleted(r, g)
  BY <1>1 DEF Sound, Deleted
<1>8. Knows(g)
  BY <1>1 DEF Sound, Knows
<1> QED BY <1>3, <1>4, <1>5, <1>6, <1>7, <1>8 DEF Sound, g

\* What the caller sees of a cursor that a call has moved.
Goes(g, k) == IF k = NoKey THEN g.state = "INVALID" ELSE g.state = "VALID" /\ g.key = k

LEMMA ToldGoes ==
  ASSUME NEW g, Typed(g), NEW k, Goes(g, k)
  PROVE  /\ Reaches(Tidy(Told(g)), k)
         /\ k # NoKey => LET h == Tidy(Told(g)) IN
                         h.at = g.at /\ h.key = g.key /\ h.dbc = g.dbc
<1> DEFINE t == Told(g)
           h == Tidy(t)
<1>1. /\ t \in BtCursors /\ t.state = g.state
      /\ t.dbc = g.dbc /\ t.key = g.key /\ t.at = g.at
      /\ t.know = (IF g.state = "VALID" THEN "row" ELSE "none")
      /\ t.mark = (IF g.state = "VALID" THEN g.key ELSE g.mark)
  BY ToldDef DEF Typed
<1> HIDE DEF t
<1>2. /\ h.at = t.at /\ h.know = t.know
      /\ t.state # "INVALID" => h.key = t.key /\ h.dbc = t.dbc
      /\ t.know # "none" => h.mark = t.mark
  BY <1>1, TidyDef
<1> HIDE DEF h
<1>3. Reaches(h, k)
  BY <1>1, <1>2 DEF Goes, Reaches
<1>4. k # NoKey => h.at = g.at /\ h.key = g.key /\ h.dbc = g.dbc
  BY <1>1, <1>2 DEF Goes
<1> QED BY <1>3, <1>4 DEF h, t

\* cursorGet, for a cursor that Berkeley DB is asked to move or that reads on in
\* its buffer.
LEMMA GetReady ==
  ASSUME rows \in Tables, NEW c, Typed(c), NEW op \in {"FIRST", "LAST", "NEXT", "PREV"},
         ~c.blob, LastKnown(rows, c), c.isFirst => Rescans(rows, c),
         c.at # 0 => op = "NEXT" /\ c.state = "VALID" /\ Reads(rows, c) /\ c.lastRes = 0,
         op = "FIRST" \/ (op = "NEXT" /\ ~c.skip) => c.lastRes = 0
  PROVE  LET g == CursorGet(c, op) IN
         /\ Typed(g) /\ Ready(rows, g)
         /\ Goes(g, IF c.at # 0 THEN NextRow(rows, c.key) ELSE Target(c.dbc, op))
<1> DEFINE g == CursorGet(c, op)
           k == Target(c.dbc, op)
           at == IF op = "NEXT" THEN 0 ELSE c.at
<1>1. Typed(g)
  BY CursorGetPasses DEF Passes
<1>2. /\ Kept(g, c)
      /\ \/ op = "NEXT" /\ Advanced(g, c)
         \/ /\ op = "NEXT" => c.at = 0 \/ c.at = Len(c.buf)
            /\ \/ k = NoKey /\ NoneGot(g, c, at)
               \/ k # NoKey /\ OneGot(g, c, k, at)
               \/ /\ k # NoKey /\ Filled(g, c, k, op = "FIRST")
                  /\ op = "FIRST" \/ (op = "NEXT" /\ ~c.skip)
  BY CursorGetDef
<1>3. at = 0
  OBVIOUS
<1>4. c.dbc \in Keys \cup {NoKey, NoDbc}
  BY TypedFacts
<1>5. /\ k \in Present \cup {NoKey} /\ NoKey \notin Present
      /\ op = "FIRST" => k = Lowest(Present)
      /\ op = "NEXT" => k = NextRow(rows, c.dbc)
  BY <1>4, TargetDef, HasIs
<1>6. c.at # 0 /\ c.at = Len(c.buf) => k = NextRow(rows, c.key)
  BY <1>5, ReadsDef
<1>7. Has(rows) = Present
  BY HasIs
<1> HIDE DEF g, k, at
<1>8. LastKnown(rows, g)
  BY <1>2 DEF LastKnown, Kept
<1>9. ~g.blob
  BY <1>2 DEF Kept
<1>10. CASE op = "NEXT" /\ Advanced(g, c)
  <2>1. /\ c.at # 0 /\ c.at < Len(c.buf) /\ c.state = "VALID" /\ Reads(rows, c)
        /\ c.lastRes = 0
    BY <1>10 DEF Advanced
  <2>2. Len(c.buf) <= BufRows /\ c.at \in Nat
    <3>1. Len(c.buf) \in 1..BufRows /\ BufRows \in Nat
      BY <2>1, TypedFacts
    <3> QED BY <3>1, TypedFacts
  <2>3. /\ g.state = c.state /\ g.dbc = c.dbc /\ g.lastRes = c.lastRes
        /\ g.buf = c.buf /\ g.isFirst = c.isFirst
        /\ g.at = c.at + 1
        /\ g.key = c.buf[c.at + 1][1] /\ g.val = c.buf[c.at + 1][2]
    BY <1>10, <2>1, <2>2, GetBufferedDef DEF Advanced
  <2>4. /\ c.buf[c.at + 1][1] = NextRow(rows, c.key)
        /\ c.buf[c.at + 1][1] \in Has(rows)
        /\ c.buf[c.at + 1][2] = rows[c.buf[c.at + 1][1]]
    BY <2>1, ReadsDef
  <2>5. Reads(rows, g) /\ (g.isFirst => Rescans(rows, g))
    <3>1. Buffer(rows, g) /\ (c.isFirst => Rescans(rows, g))
      BY <2>1, <2>3, SameBuffer DEF Reads
    <3> QED BY <2>3, <3>1 DEF Reads
  <2>6. g.at # 0
    BY <2>2, <2>3
  <2>7. Ready(rows, g)
    BY <1>8, <1>9, <2>1, <2>3, <2>4, <2>5, <2>6 DEF Ready
  <2>8. Goes(g, NextRow(rows, c.key))
    BY <1>5, <1>7, <2>1, <2>3, <2>4 DEF Goes
  <2> QED BY <1>1, <2>1, <2>7, <2>8 DEF g
<1>11. CASE k = NoKey /\ NoneGot(g, c, at) /\ (op = "NEXT" => c.at = 0 \/ c.at = Len(c.buf))
  <2>1. g.state = "INVALID" /\ g.dbc = c.dbc /\ g.buf = c.buf /\ g.at = 0
        /\ (g.isFirst => c.isFirst)
    BY <1>3, <1>11 DEF NoneGot
  <2>2. g.isFirst => Rescans(rows, g)
    BY <2>1, SameBuffer
  <2>3. Ready(rows, g)
    BY <1>8, <1>9, <2>1, <2>2 DEF Ready
  <2>4. Goes(g, k)
    BY <1>11, <2>1 DEF Goes
  <2> QED BY <1>1, <1>6, <1>11, <2>3, <2>4 DEF g, k
<1>12. CASE k # NoKey /\ OneGot(g, c, k, at) /\ (op = "NEXT" => c.at = 0 \/ c.at = Len(c.buf))
  <2>1. /\ g.state = "VALID" /\ g.dbc = k /\ g.key = k /\ g.val = rows[k]
        /\ ~g.isFirst /\ g.lastRes = 0 /\ g.at = 0
    BY <1>3, <1>12 DEF OneGot
  <2>2. Ready(rows, g)
    BY <1>5, <1>7, <1>8, <1>9, <1>12, <2>1 DEF Ready
  <2>3. Goes(g, k)
    BY <1>12, <2>1 DEF Goes
  <2> QED BY <1>1, <1>6, <1>12, <2>2, <2>3 DEF g, k
<1>13. CASE /\ k # NoKey /\ Filled(g, c, k, op = "FIRST")
            /\ op = "FIRST" \/ (op = "NEXT" /\ ~c.skip)
            /\ op = "NEXT" => c.at = 0 \/ c.at = Len(c.buf)
  <2>1. g.state = "VALID" /\ g.key = k /\ g.val = rows[k] /\ g.at = 1
        /\ g.isFirst = (op = "FIRST") /\ g.lastRes = c.lastRes
    BY <1>13 DEF Filled
  <2>2. Buffer(rows, g) /\ Reads(rows, g) /\ g.buf[1][1] = k
    BY <1>5, <1>13, FilledDef
  <2>3. g.isFirst => Rescans(rows, g)
    BY <1>5, <1>7, <2>1, <2>2 DEF Rescans
  <2>4. Ready(rows, g)
    BY <1>5, <1>7, <1>8, <1>9, <1>13, <2>1, <2>2, <2>3 DEF Ready
  <2>5. Goes(g, k)
    BY <1>13, <2>1 DEF Goes
  <2> QED BY <1>1, <1>6, <1>13, <2>4, <2>5 DEF g, k
<1> QED BY <1>2, <1>10, <1>11, <1>12, <1>13

\* What a seek for row k finds, and what is beside row k.
LEMMA LandingBeside ==
  ASSUME rows \in Tables, NEW k \in Keys
  PROVE  LET n == Landing(k) IN
         /\ n \in Present \cup {NoKey} /\ NoKey \notin Present
         /\ k \in Present => n = k
         /\ n \in Present /\ n > k => /\ NextRow(rows, k) = n
                                      /\ \A j \in Present : j < n <=> j < k
                                      /\ k \notin Present
         /\ n \in Present /\ n < k => \A j \in Present : j <= n /\ j < k
         /\ n \in Present /\ n < k => NextRow(rows, k) = NoKey /\ NextRow(rows, n) = NoKey
         /\ n = NoKey => Present = {}
<1> DEFINE n == Landing(k)
           up == Lowest({j \in Present : j >= k})
<1>1. /\ up # NoKey => up \in Present /\ up >= k /\ n = up
      /\ \A j \in Present : j >= k => up # NoKey /\ up <= j
      /\ up = NoKey => n = Highest(Present)
      /\ n \in Present \cup {NoKey}
      /\ n = NoKey <=> Present = {}
  BY LandingDef
<1>2. Present \subseteq Nat /\ k \in Nat /\ NoKey \notin Present /\ Has(rows) = Present
  BY HasIs, BdbCursorAssumption DEF NoKey
<1>3. up = NoKey => \A j \in Present : j <= n
  BY <1>1, HasIs, HighestDef
<1> HIDE DEF n, up
<1>4. k \in Present => n = k
  BY <1>1, <1>2
<1>5. n \in Present /\ n > k => (\A j \in Present : j < n <=> j < k) /\ k \notin Present
  <2>1. ASSUME n \in Present, n > k PROVE up = n
    <3>1. n \in Nat /\ n >= k
      BY <1>2, <2>1
    <3> QED BY <1>1, <2>1, <3>1
  <2> QED BY <1>1, <1>2, <2>1
<1>6. n \in Present /\ n > k => NextRow(rows, k) = n
  <2> SUFFICES ASSUME n \in Present, n > k PROVE NextRow(rows, k) = n
    OBVIOUS
  <2>1. \A j \in {j \in Present : j > k} : n <= j
    BY <1>2, <1>5
  <2>2. {j \in Present : j > k} \in SUBSET Keys /\ n \in {j \in Present : j > k}
    BY HasIs
  <2>3. Lowest({j \in Present : j > k}) = n
    BY <2>1, <2>2, LowestIs
  <2> QED BY <2>3, HasIs
<1>7. n \in Present /\ n < k => up = NoKey /\ \A j \in Present : j <= n /\ j < k
  <2> SUFFICES ASSUME n \in Present, n < k PROVE up = NoKey /\ \A j \in Present : j <= n /\ j < k
    OBVIOUS
  <2>1. up = NoKey
    BY <1>1, <1>2
  <2>2. \A j \in Present : j <= n
    BY <1>3, <2>1
  <2> QED BY <1>2, <2>1, <2>2
<1>8. n \in Present /\ n < k => NextRow(rows, k) = NoKey /\ NextRow(rows, n) = NoKey
  <2> SUFFICES ASSUME n \in Present, n < k PROVE NextRow(rows, k) = NoKey /\ NextRow(rows, n) = NoKey
    OBVIOUS
  <2>1. \A j \in Present : ~(j > n) /\ ~(j > k)
    BY <1>2, <1>7
  <2> QED BY <1>2, <2>1, NextRowDef
<1> QED BY <1>1, <1>2, <1>4, <1>5, <1>6, <1>7, <1>8 DEF n

\* lastKey says truly that there is no row k or a greater one.
LEMMA BeyondLast ==
  ASSUME rows \in Tables, NEW c, Typed(c), LastKnown(rows, c), NEW k \in Keys,
         c.lastKey # NoKey, k > c.lastKey
  PROVE  Lowest({j \in Present : j >= k}) = NoKey
<1>1. c.lastKey \in Keys \cup {NoKey, EmptyTable} /\ Keys \subseteq Nat
      /\ Has(rows) = Present /\ Present \subseteq Keys
  BY TypedFacts, HasIs, BdbCursorAssumption
<1>2. CASE c.lastKey = EmptyTable
  <2>1. {j \in Present : j >= k} = {}
    BY <1>1, <1>2 DEF LastKnown
  <2> QED BY <2>1, LowestDef
<1>3. CASE c.lastKey \in Keys
  <2>1. \A j \in Present : j <= c.lastKey
    BY <1>1, <1>3 DEF LastKnown
  <2>2. {j \in Present : j >= k} = {}
    <3>1. k \in Nat /\ c.lastKey \in Nat /\ k > c.lastKey /\ \A j \in Present : j \in Nat
      BY <1>1, <1>3
    <3>2. ASSUME NEW j \in Present, j >= k PROVE FALSE
      <4>1. j \in Nat /\ j <= c.lastKey
        BY <2>1, <3>1
      <4> QED BY <3>1, <3>2, <4>1
    <3> QED BY <3>2
  <2> QED BY <2>2, LowestDef
<1> QED BY <1>1, <1>2, <1>3

\* What a look-up of row k remembers as the last row.
LEMMA LandingKnown ==
  ASSUME rows \in Tables, NEW c, LastKnown(rows, c), NEW k \in Keys, NEW g,
         LET up == Lowest({j \in Present : j >= k})
             n == Landing(k) IN
         \/ n = NoKey /\ g.lastKey = EmptyTable
         \/ n # NoKey /\ g.lastKey = (IF up = NoKey THEN n ELSE c.lastKey)
  PROVE  LastKnown(rows, g)
<1> DEFINE up == Lowest({j \in Present : j >= k})
           n == Landing(k)
<1>1. /\ up = NoKey => n = Highest(Present)
      /\ n = NoKey <=> Present = {}
  BY LandingDef
<1>2. Has(rows) = Present /\ EmptyTable \notin Keys /\ Present \subseteq Keys
  BY HasIs, BdbCursorAssumption DEF EmptyTable
<1>3. \A j \in Present : j <= Highest(Present)
  BY <1>2, HighestDef
<1>4. /\ n = NoKey => g.lastKey = EmptyTable
      /\ n # NoKey => g.lastKey = (IF up = NoKey THEN n ELSE c.lastKey)
  OBVIOUS
<1>5. n \in Present \cup {NoKey}
  BY LandingDef
<1> HIDE DEF n, up
<1>6. CASE n = NoKey
  BY <1>1, <1>2, <1>4, <1>6 DEF LastKnown
<1>7. CASE n # NoKey /\ up = NoKey
  BY <1>1, <1>2, <1>3, <1>4, <1>5, <1>7 DEF LastKnown
<1>8. CASE n # NoKey /\ up # NoKey
  BY <1>4, <1>8 DEF LastKnown
<1> QED BY <1>6, <1>7, <1>8

LEMMA SeekReady ==
  ASSUME rows \in Tables, NEW c, Typed(c), ~c.blob, LastKnown(rows, c), c.lastRes = 0,
         NEW k \in Keys, c.state = "VALID" /\ c.key = k => Ready(rows, c)
  PROVE  LET g == Moveto(c, k) IN
         /\ Typed(g) /\ Ready(rows, g)
         /\ \/ Goes(g, Landing(k))
            \/ g.state = "INVALID" /\ Lowest({j \in Present : j >= k}) = NoKey
<1> DEFINE g == Moveto(c, k)
           up == Lowest({j \in Present : j >= k})
           n == Landing(k)
<1>1. Typed(g)
  BY MovetoPasses DEF Passes
<1>2. \/ c.state = "VALID" /\ c.key = k /\ g = c
      \/ /\ g.blob = c.blob /\ g.at = 0 /\ ~g.isFirst /\ g.lastRes = c.lastRes
         /\ \/ /\ c.lastKey # NoKey /\ k > c.lastKey
               /\ g.state = "INVALID" /\ g.lastKey = c.lastKey
            \/ n = NoKey /\ g.state = "INVALID" /\ g.lastKey = EmptyTable
            \/ /\ n # NoKey /\ g.state = "VALID" /\ g.key = n /\ g.val = rows[n]
               /\ g.dbc = n /\ g.lastKey = (IF up = NoKey THEN n ELSE c.lastKey)
  BY MovetoDef DEF Typed
<1>3. n \in Present \cup {NoKey} /\ Has(rows) = Present /\ (k \in Present => n = k)
      /\ k # NoKey
  BY LandingBeside, HasIs, BdbCursorAssumption DEF NoKey
<1>4. ASSUME c.lastKey # NoKey, k > c.lastKey PROVE up = NoKey
  BY <1>4, BeyondLast
<1>5. ASSUME \/ n = NoKey /\ g.lastKey = EmptyTable
             \/ n # NoKey /\ g.lastKey = (IF up = NoKey THEN n ELSE c.lastKey)
      PROVE  LastKnown(rows, g)
  <2> HIDE DEF g
  <2> QED BY <1>5, LandingKnown
<1> HIDE DEF g, up, n
<1>6. CASE c.state = "VALID" /\ c.key = k /\ g = c
  <2>1. Ready(rows, g) /\ k \in Present /\ Goes(g, k)
    BY <1>3, <1>6 DEF Ready, Goes
  <2> QED BY <1>1, <1>3, <2>1 DEF g, n
<1>7. CASE /\ g.blob = c.blob /\ g.at = 0 /\ ~g.isFirst /\ g.lastRes = c.lastRes
           /\ c.lastKey # NoKey /\ k > c.lastKey
           /\ g.state = "INVALID" /\ g.lastKey = c.lastKey
  <2>1. LastKnown(rows, g)
    BY <1>7 DEF LastKnown
  <2>2. Ready(rows, g)
    BY <1>7, <2>1 DEF Ready
  <2> QED BY <1>1, <1>4, <1>7, <2>2 DEF g, up
<1>8. CASE /\ g.blob = c.blob /\ g.at = 0 /\ ~g.isFirst /\ g.lastRes = c.lastRes
           /\ n = NoKey /\ g.state = "INVALID" /\ g.lastKey = EmptyTable
  <2>1. Ready(rows, g) /\ Goes(g, n)
    BY <1>5, <1>8 DEF Ready, Goes
  <2> QED BY <1>1, <2>1 DEF g, n
<1>9. CASE /\ g.blob = c.blob /\ g.at = 0 /\ ~g.isFirst /\ g.lastRes = c.lastRes
           /\ n # NoKey /\ g.state = "VALID" /\ g.key = n /\ g.val = rows[n]
           /\ g.dbc = n /\ g.lastKey = (IF up = NoKey THEN n ELSE c.lastKey)
  <2>1. Ready(rows, g) /\ Goes(g, n)
    BY <1>3, <1>5, <1>9 DEF Ready, Goes
  <2> QED BY <1>1, <2>1 DEF g, n
<1> QED BY <1>2, <1>6, <1>7, <1>8, <1>9

\* A cursor whose row was saved is put on it again, or beside where it was.
LEMMA RestoredSound ==
  ASSUME rows \in Tables, NEW c, Typed(c), c.state = "REQUIRESEEK", LastKnown(rows, c),
         c.key \in Keys, c.lastKey # NoKey => c.key <= c.lastKey
  PROVE  LET g == Restored(c)
             n == Landing(c.key) IN
         /\ Typed(g) /\ LastKnown(rows, g) /\ Goes(g, n) /\ g.dbc = n
         /\ g.blob = c.blob /\ g.know = c.know /\ g.mark = c.mark
         /\ g.at = 0 /\ ~g.isFirst /\ g.skip
         /\ n = NoKey => g.lastRes = -1
         /\ n # NoKey => /\ g.val = rows[n]
                         /\ g.lastRes = (IF n < c.key THEN -1 ELSE IF n = c.key THEN 0 ELSE 1)
<1> DEFINE g == Restored(c)
           k == c.key
           up == Lowest({j \in Present : j >= k})
           n == Landing(k)
<1>1. Typed(g)
  BY RestoredPasses DEF Passes
<1>2. ~(c.lastKey # NoKey /\ k > c.lastKey)
  <2>1. c.lastKey \in Keys \cup {NoKey, EmptyTable} /\ k \in Nat /\ Keys \subseteq Nat
    BY TypedFacts, BdbCursorAssumption
  <2>2. c.lastKey \in Int
    <3>1. NoKey \in Int /\ EmptyTable \in Int
      BY DEF NoKey, EmptyTable
    <3>2. \A j \in Keys : j \in Int
      BY <2>1
    <3> QED BY <2>1, <3>1, <3>2
  <2> QED BY <2>1, <2>2
<1>3. /\ g.blob = c.blob /\ g.mark = c.mark /\ g.know = c.know
      /\ g.at = 0 /\ ~g.isFirst /\ g.skip
      /\ \/ /\ n = NoKey /\ g.state = "INVALID" /\ g.lastKey = EmptyTable
            /\ g.dbc = NoKey /\ g.lastRes = -1
         \/ /\ n # NoKey /\ g.state = "VALID" /\ g.key = n /\ g.val = rows[n]
            /\ g.dbc = n /\ g.lastKey = (IF up = NoKey THEN n ELSE c.lastKey)
            /\ g.lastRes = (IF n < k THEN -1 ELSE IF n = k THEN 0 ELSE 1)
  <2>1. c \in BtCursors
    BY DEF Typed
  <2>2. /\ g.blob = c.blob /\ g.mark = c.mark /\ g.know = c.know
        /\ g.at = 0 /\ ~g.isFirst /\ g.skip
        /\ \/ c.lastKey # NoKey /\ k > c.lastKey
           \/ /\ n = NoKey /\ g.state = "INVALID" /\ g.lastKey = EmptyTable
              /\ g.dbc = NoKey /\ g.lastRes = -1
           \/ /\ n # NoKey /\ g.state = "VALID" /\ g.key = n /\ g.val = rows[n]
              /\ g.dbc = n /\ g.lastKey = (IF up = NoKey THEN n ELSE c.lastKey)
              /\ g.lastRes = (IF n < k THEN -1 ELSE IF n = k THEN 0 ELSE 1)
    BY <2>1, RestoredDef
  <2> HIDE DEF g, n, up
  <2> QED BY <1>2, <2>2
<1>4. LastKnown(rows, g)
  <2>1. \/ n = NoKey /\ g.lastKey = EmptyTable
        \/ n # NoKey /\ g.lastKey = (IF up = NoKey THEN n ELSE c.lastKey)
    BY <1>3
  <2> HIDE DEF g
  <2> QED BY <2>1, LandingKnown
<1> HIDE DEF g, n, up
<1>5. Goes(g, n) /\ g.dbc = n
  BY <1>3 DEF Goes
<1> QED BY <1>1, <1>3, <1>4, <1>5 DEF g, n

-----------------------------------------------------------------------------
CursorInv == TypeInv /\ OpenInv /\ \A s \in Slots : Sound(rows, cur[s])

LEMMA SetSound ==
  ASSUME TypeInv, NEW s \in Slots, NEW g, Typed(g), Sound(rows, g), SetCursor(s, g)
  PROVE  cur'[s] = Tidy(g) /\ Sound(rows, cur'[s])
BY SetCursorTyped, TidySound

LEMMA MovedSound ==
  ASSUME TypeInv, NEW s \in Slots, NEW g, Typed(g), Ready(rows, g), SetCursor(s, Told(g)),
         NEW k, Goes(g, k)
  PROVE  /\ Sound(rows, cur'[s]) /\ Reaches(cur'[s], k)
         /\ k # NoKey => cur'[s].at = g.at /\ cur'[s].key = g.key /\ cur'[s].dbc = g.dbc
<1>1. Typed(Told(g)) /\ Sound(rows, Told(g))
  BY ToldSound
<1>2. cur'[s] = Tidy(Told(g)) /\ Sound(rows, cur'[s])
  BY <1>1, SetSound
<1> QED BY <1>2, ToldGoes

\* One that is on a row, or beside where its row was, and does not read a buffer.
LEMMA SettleReady ==
  ASSUME rows \in Tables, NEW c, Typed(c), c.state = "VALID", ~c.blob, c.at = 0, ~c.isFirst,
         c.key \in Has(rows), c.val = rows[c.key], c.dbc = c.key, LastKnown(rows, c)
  PROVE  LET g == [c EXCEPT !.lastRes = 0] IN
         Typed(g) /\ Ready(rows, g) /\ Goes(g, c.key)
<1> DEFINE g == [c EXCEPT !.lastRes = 0]
<1>1. /\ Typed(g) /\ Kept(g, c) /\ g.lastRes = 0
      /\ g.state = c.state /\ g.dbc = c.dbc
      /\ g.key = c.key /\ g.val = c.val
      /\ g.buf = c.buf /\ g.at = c.at /\ g.isFirst = c.isFirst
  BY SettledDef DEF Passes
<1>2. c.key # NoKey
  BY HasIs, BdbCursorAssumption DEF NoKey
<1> HIDE DEF g
<1>3. LastKnown(rows, g)
  BY <1>1 DEF LastKnown, Kept
<1>4. Ready(rows, g) /\ Goes(g, c.key)
  BY <1>1, <1>2, <1>3 DEF Ready, Goes, Kept
<1> QED BY <1>1, <1>4 DEF g

\* A positioned cursor whose caller may step from where it is.
LEMMA PlacedDef ==
  ASSUME NEW r, NEW c, Typed(c), Sound(r, c), c.state = "VALID", c.know # "none", ~c.blob
  PROVE  /\ c.key = c.mark /\ c.key \in Has(r)
         /\ c.know # "place" => c.val = r[c.key]
         /\ c.at = 0 => c.dbc = c.key /\ ~c.isFirst
         /\ c.at # 0 => c.know = "row" /\ Reads(r, c)
         /\ c.know \in {"before", "after"} => c.at = 0 /\ c.skip
         /\ c.lastRes = (IF c.know = "before" THEN 1 ELSE IF c.know = "after" THEN -1 ELSE 0)
         /\ c.isFirst => Rescans(r, c)
         /\ LastKnown(r, c)
BY DEF Sound, Buffered, OnItsRow, Knows

\* One whose row was saved.
LEMMA SavedDef ==
  ASSUME NEW r, NEW c, Typed(c), Sound(r, c), c.state = "REQUIRESEEK", c.know # "none"
  PROVE  /\ c.key = c.mark /\ c.key \in Keys /\ (c.lastKey # NoKey => c.key <= c.lastKey)
         /\ c.know \in {"row", "place"} /\ LastKnown(r, c)
         /\ c.blob => c.know = "row" /\ c.key \in Has(r)
<1>1. c.know \in {"row", "place", "before", "after", "none"}
  BY DEF Typed, BtCursors
<1> QED BY <1>1 DEF Sound, Saved, Knows

LEMMA NextSound ==
  ASSUME CursorInv, NEW s \in Slots, BtreeNext(s)
  PROVE  Sound(rows, cur'[s]) /\ Reaches(cur'[s], Lowest(After(cur[s])))
<1> DEFINE c == cur[s]
           r == Restored(c)
           z == [r EXCEPT !.lastRes = 0]
           g == CursorGet(r, "NEXT")
           e == IF c.state = "INVALID" THEN r ELSE IF r.lastRes > 0 THEN z ELSE g
           k == Lowest(After(c))
<1>1. Typed(c) /\ Sound(rows, c) /\ rows \in Tables /\ TypeInv
  BY DEF CursorInv, TypeInv
<1>2. /\ ~c.blob /\ c.know # "none" /\ SetCursor(s, Told(e))
      /\ c.state \notin {"CLOSED", "FAULT", "WRECKED", "SKIPNEXT"}
  BY DEF BtreeNext, MayStep, Live, Free
<1>3. c.state \in {"VALID", "REQUIRESEEK"}
  <2>1. c.state \in {"CLOSED", "INVALID", "VALID", "REQUIRESEEK", "SKIPNEXT", "FAULT", "WRECKED"}
    BY <1>1 DEF Typed, BtCursors
  <2> QED BY <1>1, <1>2, <2>1 DEF Sound, Knows
<1>4. /\ c.know # "before" => k = NextRow(rows, c.mark)
      /\ c.know = "before" /\ c.mark \in Present => k = c.mark
  <2>1. c.know # "before" => After(c) = {j \in Present : j > c.mark}
    BY DEF After
  <2>2. ASSUME c.know = "before", c.mark \in Present PROVE k = c.mark
    <3>1. After(c) = {j \in Present : j > c.mark} \cup {c.mark}
      BY <2>2 DEF After
    <3>2. Present \subseteq Keys /\ Keys \subseteq Nat
      BY HasIs, BdbCursorAssumption
    <3>3. After(c) \in SUBSET Keys /\ c.mark \in After(c)
      BY <2>2, <3>1, <3>2
    <3>4. \A j \in After(c) : c.mark <= j
      <4>1. \A j \in Keys : j \in Nat
        BY <3>2
      <4>2. c.mark \in Nat
        BY <2>2, <3>2, <4>1
      <4>3. ASSUME NEW j \in After(c) PROVE c.mark <= j
        <5>1. j = c.mark \/ (j \in Keys /\ j > c.mark)
          BY <3>1, <3>2
        <5> QED BY <4>1, <4>2, <5>1
      <4> QED BY <4>3
    <3> QED BY <3>3, <3>4, LowestIs
  <2> QED BY <2>1, <2>2, HasIs
<1>5. Has(rows) = Present /\ Present \subseteq Keys /\ Keys \subseteq Nat /\ NoKey \notin Present
  BY HasIs, BdbCursorAssumption DEF NoKey
<1> HIDE DEF c, k
<1>6. CASE c.state = "VALID"
  <2>1. /\ c.key = c.mark /\ c.key \in Has(rows)
        /\ c.know # "place" => c.val = rows[c.key]
        /\ c.at = 0 => c.dbc = c.key /\ ~c.isFirst
        /\ c.at # 0 => c.know = "row" /\ Reads(rows, c)
        /\ c.know \in {"before", "after"} => c.at = 0 /\ c.skip
        /\ c.lastRes = (IF c.know = "before" THEN 1 ELSE IF c.know = "after" THEN -1 ELSE 0)
        /\ c.isFirst => Rescans(rows, c)
        /\ LastKnown(rows, c)
    BY <1>1, <1>2, <1>6, PlacedDef
  <2>2. r = c
    BY <1>1, <1>6, RestoredDef DEF Typed
  <2>3. CASE c.know = "before"
    <3>1. Typed(z) /\ Ready(rows, z) /\ Goes(z, c.key)
      BY <1>1, <1>2, <1>6, <2>1, <2>2, <2>3, SettleReady
    <3>2. e = z /\ k = c.key
      BY <1>4, <1>5, <1>6, <2>1, <2>2, <2>3
    <3> HIDE DEF e
    <3> QED BY <1>1, <1>2, <3>1, <3>2, MovedSound DEF c, k
  <2>4. CASE c.know # "before"
    <3> DEFINE h == CursorGet(c, "NEXT")
               n == IF c.at # 0 THEN NextRow(rows, c.key) ELSE Target(c.dbc, "NEXT")
    <3>1. Typed(h) /\ Ready(rows, h) /\ Goes(h, n)
      BY <1>1, <1>2, <1>6, <2>1, <2>4, GetReady
    <3>2. Target(c.dbc, "NEXT") = NextRow(rows, c.dbc)
      BY <1>1, TypedFacts, TargetDef, HasIs
    <3>3. n = k
      BY <1>4, <2>1, <2>4, <3>2
    <3>4. e = h
      BY <1>6, <2>1, <2>2, <2>4
    <3> HIDE DEF e, h, n
    <3> QED BY <1>1, <1>2, <3>1, <3>3, <3>4, MovedSound DEF c, k
  <2> QED BY <2>3, <2>4
<1>7. CASE c.state = "REQUIRESEEK"
  <2> DEFINE n == Landing(c.key)
  <2>1. /\ c.key = c.mark /\ c.key \in Keys /\ (c.lastKey # NoKey => c.key <= c.lastKey)
        /\ c.know \in {"row", "place"} /\ LastKnown(rows, c)
    BY <1>1, <1>2, <1>7, SavedDef
  <2>2. /\ Typed(r) /\ LastKnown(rows, r) /\ Goes(r, n) /\ r.dbc = n
        /\ r.blob = c.blob /\ r.at = 0 /\ ~r.isFirst /\ r.skip
        /\ n = NoKey => r.lastRes = -1
        /\ n # NoKey => /\ r.val = rows[n]
                        /\ r.lastRes = (IF n < c.key THEN -1 ELSE IF n = c.key THEN 0 ELSE 1)
    BY <1>1, <1>7, <2>1, RestoredSound
  <2>3. /\ n \in Present \cup {NoKey}
        /\ n \in Present /\ n > c.key => NextRow(rows, c.key) = n
        /\ n \in Present /\ n < c.key => NextRow(rows, c.key) = NoKey /\ NextRow(rows, n) = NoKey
        /\ n = NoKey => Present = {}
    BY <1>1, <2>1, LandingBeside
  <2>4. k = NextRow(rows, c.key)
    BY <1>4, <2>1
  <2> HIDE DEF r, n
  <2>5. CASE n # NoKey /\ n > c.key
    <3>1. r.state = "VALID" /\ r.key = n /\ r.lastRes = 1
      BY <1>5, <2>1, <2>2, <2>3, <2>5 DEF Goes
    <3>2. Typed(z) /\ Ready(rows, z) /\ Goes(z, n)
      BY <1>1, <1>2, <1>5, <2>2, <2>3, <2>5, <3>1, SettleReady
    <3>3. e = z
      BY <1>7, <3>1
    <3> HIDE DEF e, z
    <3> QED BY <1>1, <1>2, <2>3, <2>4, <2>5, <3>2, <3>3, MovedSound DEF c, k
  <2>6. CASE n = NoKey \/ ~(n > c.key)
    <3>0. c.key \in Nat /\ (n # NoKey => n \in Nat)
      BY <1>5, <2>1, <2>3
    <3>1. ~(r.lastRes > 0)
      <4>1. CASE n = NoKey
        BY <2>2, <4>1
      <4>2. CASE n # NoKey
        <5>1. r.lastRes = (IF n < c.key THEN -1 ELSE IF n = c.key THEN 0 ELSE 1)
              /\ ~(n > c.key)
          BY <2>2, <2>6, <4>2
        <5> QED BY <3>0, <4>2, <5>1
      <4> QED BY <4>1, <4>2
    <3>2. Typed(g) /\ Ready(rows, g) /\ Goes(g, Target(n, "NEXT"))
      BY <1>1, <1>2, <2>2, GetReady
    <3>3. Target(n, "NEXT") = NextRow(rows, n)
      BY <1>1, <1>5, <2>3, TargetDef, HasIs
    <3>4. NextRow(rows, n) = k
      <4>1. CASE n = NoKey
        <5>1. NextRow(rows, n) = NoKey /\ NextRow(rows, c.key) = NoKey
          BY <1>5, <2>3, <4>1, NextRowDef
        <5> QED BY <2>4, <5>1
      <4>2. CASE n # NoKey /\ n < c.key
        BY <2>3, <2>4, <4>2
      <4>3. CASE n # NoKey /\ n = c.key
        BY <2>4, <4>3
      <4> QED BY <2>6, <3>0, <4>1, <4>2, <4>3
    <3>5. e = g
      BY <1>7, <3>1
    <3> HIDE DEF e, g
    <3> QED BY <1>1, <1>2, <3>2, <3>3, <3>4, <3>5, MovedSound DEF c, k
  <2> QED BY <2>5, <2>6
<1> QED BY <1>3, <1>6, <1>7

LEMMA PreviousSound ==
  ASSUME CursorInv, NEW s \in Slots, BtreePrevious(s), Habits = {}
  PROVE  Sound(rows, cur'[s]) /\ Reaches(cur'[s], Highest(Before(cur[s])))
<1> DEFINE c == cur[s]
           v == [c EXCEPT !.state = "VALID", !.lastRes = 0]
           r == IF c.state = "SKIPNEXT" THEN v ELSE Restored(c)
           z == [r EXCEPT !.lastRes = 0]
           g == CursorGet(r, "PREV")
           e == IF r.state = "INVALID" THEN r ELSE IF r.lastRes < 0 THEN z ELSE g
           k == Highest(Before(c))
           Below(n) == {j \in Present : j < n}
<1>1. Typed(c) /\ Sound(rows, c) /\ rows \in Tables /\ TypeInv
  BY DEF CursorInv, TypeInv
<1>2. /\ ~c.blob /\ c.know # "none" /\ SetCursor(s, Told(e)) /\ c.at = 0
      /\ c.state \notin {"CLOSED", "FAULT", "WRECKED"}
  BY DEF BtreePrevious, MayStep, Live
<1>3. c.state \in {"VALID", "REQUIRESEEK", "SKIPNEXT"}
  <2>1. c.state \in {"CLOSED", "INVALID", "VALID", "REQUIRESEEK", "SKIPNEXT", "FAULT", "WRECKED"}
    BY <1>1 DEF Typed, BtCursors
  <2> QED BY <1>1, <1>2, <2>1 DEF Sound, Knows
<1>4. Has(rows) = Present /\ Present \subseteq Keys /\ NoKey \notin Present
      /\ (\A j \in Keys : j \in Nat) /\ NoKey \notin Keys
  BY HasIs, BdbCursorAssumption DEF NoKey
<1>5. /\ c.know # "after" => k = Highest(Below(c.mark))
      /\ c.know = "after" /\ c.mark \in Present => k = c.mark
  <2>1. c.know # "after" => Before(c) = Below(c.mark)
    BY DEF Before
  <2>2. ASSUME c.know = "after", c.mark \in Present PROVE k = c.mark
    <3>1. Before(c) = Below(c.mark) \cup {c.mark}
      BY <2>2 DEF Before
    <3>2. c.mark \in Nat
      BY <1>4, <2>2
    <3>3. Before(c) \in SUBSET Keys /\ c.mark \in Before(c)
      BY <1>4, <2>2, <3>1
    <3>4. ASSUME NEW j \in Before(c) PROVE j <= c.mark
      <4>1. j = c.mark \/ (j \in Keys /\ j < c.mark)
        BY <1>4, <3>1
      <4> QED BY <1>4, <3>2, <4>1
    <3> QED BY <3>3, <3>4, HighestIs
  <2> QED BY <2>1, <2>2
<1>6. \A n \in Keys : Target(n, "PREV") = Highest(Below(n))
  <2> TAKE n \in Keys
  <2>1. Target(n, "PREV") = Highest({j \in Present : n = NoKey \/ j < n})
    BY <1>1, TargetDef
  <2>2. {j \in Present : n = NoKey \/ j < n} = Below(n)
    BY <1>4
  <2> QED BY <2>1, <2>2
<1> HIDE DEF c, k
<1>7. CASE c.state = "VALID"
  <2>1. /\ c.key = c.mark /\ c.key \in Has(rows)
        /\ c.know # "place" => c.val = rows[c.key]
        /\ c.dbc = c.key /\ ~c.isFirst
        /\ c.lastRes = (IF c.know = "before" THEN 1 ELSE IF c.know = "after" THEN -1 ELSE 0)
        /\ LastKnown(rows, c)
    BY <1>1, <1>2, <1>7, PlacedDef
  <2>2. r = c
    BY <1>1, <1>7, RestoredDef DEF Typed
  <2> HIDE DEF r
  <2>3. CASE c.know = "after"
    <3>1. Typed(z) /\ Ready(rows, z) /\ Goes(z, c.key)
      BY <1>1, <1>2, <1>7, <2>1, <2>2, <2>3, SettleReady
    <3>2. e = z /\ k = c.key
      BY <1>4, <1>5, <1>7, <2>1, <2>2, <2>3
    <3> HIDE DEF e, z
    <3> QED BY <1>1, <1>2, <3>1, <3>2, MovedSound DEF c, k
  <2>4. CASE c.know # "after"
    <3>1. Typed(g) /\ Ready(rows, g) /\ Goes(g, Target(c.dbc, "PREV"))
      BY <1>1, <1>2, <2>1, <2>2, GetReady
    <3>2. Target(c.dbc, "PREV") = k
      BY <1>4, <1>5, <1>6, <2>1, <2>4
    <3>3. e = g
      BY <1>7, <2>1, <2>2, <2>4
    <3> HIDE DEF e, g
    <3> QED BY <1>1, <1>2, <3>1, <3>2, <3>3, MovedSound DEF c, k
  <2> QED BY <2>3, <2>4
<1>8. CASE c.state = "REQUIRESEEK"
  <2> DEFINE n == Landing(c.key)
  <2>1. /\ c.key = c.mark /\ c.key \in Keys /\ (c.lastKey # NoKey => c.key <= c.lastKey)
        /\ c.know \in {"row", "place"} /\ LastKnown(rows, c)
    BY <1>1, <1>2, <1>8, SavedDef
  <2>2. r = Restored(c)
    BY <1>8
  <2>3. /\ Typed(r) /\ LastKnown(rows, r) /\ Goes(r, n) /\ r.dbc = n
        /\ r.blob = c.blob /\ r.at = 0 /\ ~r.isFirst /\ r.skip
        /\ n # NoKey => /\ r.val = rows[n]
                        /\ r.lastRes = (IF n < c.key THEN -1 ELSE IF n = c.key THEN 0 ELSE 1)
    BY <1>1, <1>8, <2>1, <2>2, RestoredSound
  <2>4. /\ n \in Present \cup {NoKey}
        /\ n \in Present /\ n > c.key => \A j \in Present : j < n <=> j < c.key
        /\ n \in Present /\ n < c.key => \A j \in Present : j <= n /\ j < c.key
        /\ n = NoKey => Present = {}
    BY <1>1, <2>1, LandingBeside
  <2>5. k = Highest(Below(c.key))
    BY <1>5, <2>1
  <2>6. c.key \in Nat /\ (n # NoKey => n \in Nat /\ n \in Keys)
    BY <1>4, <2>1, <2>4
  <2> HIDE DEF r, n
  <2>7. CASE n = NoKey
    <3>1. r.state = "INVALID"
      BY <2>3, <2>7 DEF Goes
    <3>2. Ready(rows, r)
      BY <1>2, <2>3, <3>1 DEF Ready
    <3>3. k = NoKey
      <4>1. Below(c.key) = {}
        BY <2>4, <2>7
      <4> QED BY <2>5, <4>1, HighestDef
    <3>4. e = r
      BY <3>1
    <3> HIDE DEF e
    <3> QED BY <1>1, <1>2, <2>3, <2>7, <3>2, <3>3, <3>4, MovedSound DEF c, k
  <2>8. CASE n # NoKey /\ n < c.key
    <3>1. r.state = "VALID" /\ r.key = n /\ r.lastRes = -1
      BY <2>3, <2>8 DEF Goes
    <3>2. Typed(z) /\ Ready(rows, z) /\ Goes(z, n)
      BY <1>1, <1>2, <1>4, <2>3, <2>4, <2>8, <3>1, SettleReady
    <3>3. k = n
      <4>1. Below(c.key) \in SUBSET Keys /\ n \in Below(c.key)
            /\ \A j \in Below(c.key) : j <= n
        BY <1>4, <2>4, <2>8
      <4> HIDE DEF Below
      <4> QED BY <2>5, <4>1, HighestIs
    <3>4. e = z
      BY <3>1
    <3> HIDE DEF e, z
    <3> QED BY <1>1, <1>2, <3>2, <3>3, <3>4, MovedSound DEF c, k
  <2>9. CASE n # NoKey /\ ~(n < c.key)
    <3>1. r.state = "VALID" /\ ~(r.lastRes < 0)
      BY <2>3, <2>6, <2>9 DEF Goes
    <3>2. Typed(g) /\ Ready(rows, g) /\ Goes(g, Target(n, "PREV"))
      BY <1>1, <1>2, <2>3, GetReady
    <3>3. Target(n, "PREV") = k
      <4>1. CASE n = c.key
        BY <1>6, <2>1, <2>5, <4>1
      <4>2. CASE n > c.key
        <5>1. Below(n) = Below(c.key)
          BY <2>4, <2>9, <4>2
        <5> QED BY <1>6, <2>5, <2>6, <2>9, <5>1
      <4> QED BY <2>6, <2>9, <4>1, <4>2
    <3>4. e = g
      BY <3>1
    <3> HIDE DEF e, g
    <3> QED BY <1>1, <1>2, <3>2, <3>3, <3>4, MovedSound DEF c, k
  <2> QED BY <2>7, <2>8, <2>9
<1>9. CASE c.state = "SKIPNEXT"
  <2>1. /\ ~c.isFirst /\ c.know = "place" /\ c.mark \in Keys /\ c.mark \notin Present
        /\ LastKnown(rows, c)
        /\ \/ c.key = NextRow(rows, c.mark) /\ c.key # NoKey /\ c.dbc = c.key
           \/ c.dbc = c.mark
    BY <1>1, <1>2, <1>4, <1>9 DEF Sound, Deleted
  <2>2. r = v
    BY <1>9
  <2>3. /\ Typed(v) /\ v.state = "VALID" /\ v.lastRes = 0 /\ v.dbc = c.dbc /\ v.blob = c.blob
        /\ v.lastKey = c.lastKey /\ v.at = c.at /\ v.isFirst = c.isFirst
    <3> DEFINE u == [c EXCEPT !.state = "VALID"]
    <3>1. /\ Typed(u) /\ u.state = "VALID" /\ Kept(u, c) /\ u.dbc = c.dbc
          /\ u.at = c.at /\ u.isFirst = c.isFirst
      BY <1>1, LostDef
    <3>2. v = [u EXCEPT !.lastRes = 0]
      BY <1>1 DEF Typed, BtCursors
    <3> HIDE DEF u, v
    <3>3. /\ Passes(v, u) /\ Kept(v, u) /\ v.lastRes = 0 /\ v.state = u.state /\ v.dbc = u.dbc
          /\ v.at = u.at /\ v.isFirst = u.isFirst
      BY <3>1, <3>2, SettledDef
    <3> QED BY <3>1, <3>3 DEF Passes, Kept
  <2> HIDE DEF r, v
  <2>4. LastKnown(rows, v)
    BY <2>1, <2>3 DEF LastKnown
  <2>5. Typed(g) /\ Ready(rows, g) /\ Goes(g, Target(c.dbc, "PREV"))
    BY <1>1, <1>2, <2>1, <2>2, <2>3, <2>4, GetReady
  <2>6. Target(c.dbc, "PREV") = k
    <3>1. c.dbc \in Keys /\ Below(c.dbc) = Below(c.mark)
      <4>1. CASE c.dbc = c.mark
        BY <2>1, <4>1
      <4>2. CASE c.key = NextRow(rows, c.mark) /\ c.key # NoKey /\ c.dbc = c.key
        <5>1. /\ c.dbc \in Present /\ c.dbc > c.mark
              /\ \A j \in Present : j > c.mark => c.dbc <= j
          BY <1>4, <4>2, NextRowDef
        <5>2. c.dbc \in Nat /\ c.mark \in Nat /\ c.dbc \in Keys
          BY <1>4, <2>1, <5>1
        <5>3. ASSUME NEW j \in Present PROVE j < c.dbc <=> j < c.mark
          <6>1. j \in Nat /\ j # c.mark
            BY <1>4, <2>1
          <6> QED BY <5>1, <5>2, <6>1
        <5> QED BY <5>2, <5>3
      <4> QED BY <2>1, <4>1, <4>2
    <3> HIDE DEF Below
    <3> QED BY <1>5, <1>6, <2>1, <3>1
  <2>7. e = g
    BY <2>2, <2>3
  <2> HIDE DEF e, g
  <2> QED BY <1>1, <1>2, <2>5, <2>6, <2>7, MovedSound DEF c, k
<1> QED BY <1>3, <1>7, <1>8, <1>9

LEMMA NextAfterDeleteSound ==
  ASSUME CursorInv, NEW s \in Slots, NextAfterDelete(s)
  PROVE  Sound(rows, cur'[s]) /\ Reaches(cur'[s], Lowest(After(cur[s])))
<1> DEFINE c == cur[s]
           v == [c EXCEPT !.state = "VALID"]
           g == [v EXCEPT !.know = "none"]
           k == Lowest(After(c))
<1>1. Typed(c) /\ Sound(rows, c) /\ rows \in Tables /\ TypeInv
  BY DEF CursorInv, TypeInv
<1>2. c.state = "SKIPNEXT" /\ SetCursor(s, IF c.lastRes = 0 THEN Told(v) ELSE g)
  BY DEF NextAfterDelete
<1>3. /\ ~c.blob /\ ~c.isFirst /\ c.know = "place"
      /\ LastKnown(rows, c) /\ (c.at # 0 => Reads(rows, c))
      /\ \/ /\ c.lastRes = 0 /\ c.key = NextRow(rows, c.mark) /\ c.key # NoKey
            /\ c.val = rows[c.key] /\ (c.at = 0 => c.dbc = c.key)
         \/ /\ c.lastRes = 1 /\ c.at = 0 /\ NextRow(rows, c.mark) = NoKey
  BY <1>1, <1>2 DEF Sound, Deleted, Buffered
<1>4. k = NextRow(rows, c.mark)
  <2>1. After(c) = {j \in Present : j > c.mark}
    BY <1>3 DEF After
  <2> QED BY <2>1, HasIs
<1>5. /\ Typed(v) /\ v.state = "VALID" /\ Kept(v, c)
      /\ v.dbc = c.dbc /\ v.key = c.key /\ v.val = c.val /\ v.lastRes = c.lastRes
      /\ v.buf = c.buf /\ v.at = c.at /\ v.isFirst = c.isFirst
      /\ Typed(g) /\ g.state = "VALID" /\ g.know = "none"
      /\ g.blob = c.blob /\ g.lastKey = c.lastKey
      /\ g.at = c.at /\ g.isFirst = c.isFirst
  BY <1>1, LostDef
<1> HIDE DEF c, k, v, g
<1>6. CASE c.lastRes = 0
  <2>1. c.key = k /\ k \in Has(rows) /\ k # NoKey
    BY <1>3, <1>4, <1>6, NextRowDef
  <2>2. LastKnown(rows, v) /\ (v.at # 0 => Reads(rows, v))
    BY <1>3, <1>5, SameBuffer DEF LastKnown, Kept
  <2>3. Ready(rows, v) /\ Goes(v, k)
    BY <1>3, <1>5, <1>6, <2>1, <2>2 DEF Ready, Goes, Kept
  <2> QED BY <1>1, <1>2, <1>5, <1>6, <2>3, MovedSound DEF c, k
<1>7. CASE c.lastRes # 0
  <2>1. Sound(rows, g)
    <3>1. LastKnown(rows, g)
      BY <1>3, <1>5 DEF LastKnown
    <3>2. g.at = 0 /\ ~g.isFirst /\ ~g.blob
      BY <1>3, <1>5, <1>7
    <3> QED BY <1>5, <3>1, <3>2 DEF Sound, Buffered, OnItsRow, Saved, Deleted, Knows
  <2>2. SetCursor(s, g)
    BY <1>2, <1>7
  <2>3. cur'[s] = Tidy(g) /\ Sound(rows, cur'[s])
    BY <1>1, <1>5, <2>1, <2>2, SetSound
  <2>4. Tidy(g).know = "none"
    BY <1>5, TidyDef DEF Typed
  <2>5. k = NoKey
    BY <1>3, <1>4, <1>7
  <2>6. Reaches(cur'[s], k)
    BY <2>3, <2>4, <2>5 DEF Reaches
  <2> QED BY <2>3, <2>6 DEF k, c
<1> QED BY <1>6, <1>7

LEMMA FirstSound ==
  ASSUME CursorInv, NEW s \in Slots, BtreeFirst(s), Habits = {}
  PROVE  Sound(rows, cur'[s])
<1> DEFINE c == cur[s]
           g == Rewound(c)
<1>1. Typed(c) /\ Sound(rows, c) /\ Open(c) /\ rows \in Tables /\ TypeInv
  BY DEF CursorInv, TypeInv, OpenInv
<1>2. ~c.blob /\ c.lastRes = 0 /\ SetCursor(s, Told(g))
  BY DEF BtreeFirst, MayRewind, Live
<1> HIDE DEF c
<1>3. CASE c.isFirst
  <2> DEFINE h == [GetBuffered([c EXCEPT !.at = 0]) EXCEPT !.state = "VALID"]
  <2>1. /\ Typed(h) /\ Kept(h, c) /\ h.state = "VALID" /\ h.dbc = c.dbc
        /\ h.lastRes = c.lastRes /\ h.buf = c.buf /\ h.isFirst
        /\ h.at = 1 /\ h.key = c.buf[1][1] /\ h.val = c.buf[1][2]
    BY <1>1, <1>3, RereadDef
  <2>2. g = h
    BY <1>3 DEF Rewound
  <2> HIDE DEF g, h
  <2>3. Rescans(rows, c) /\ LastKnown(rows, c)
    BY <1>1, <1>3 DEF Sound, Buffered
  <2>4. Rescans(rows, h) /\ Reads(rows, h)
    <3>1. Rescans(rows, h)
      BY <2>1, <2>3, SameBuffer
    <3> QED BY <2>1, <3>1 DEF Rescans, Reads
  <2>5. LastKnown(rows, h)
    BY <2>1, <2>3 DEF LastKnown, Kept
  <2>6. h.key \in Has(rows) /\ h.val = rows[h.key] /\ h.key # NoKey
    <3>1. h.key \in Has(rows) /\ h.val = rows[h.key]
      BY <2>1, <2>3, RescansDef
    <3> QED BY <3>1, HasIs, BdbCursorAssumption DEF NoKey
  <2>7. Ready(rows, h) /\ Goes(h, h.key)
    BY <1>2, <2>1, <2>4, <2>5, <2>6 DEF Ready, Goes, Kept
  <2> QED BY <1>1, <1>2, <2>1, <2>2, <2>7, MovedSound DEF c
<1>4. CASE ~c.isFirst
  <2> DEFINE d == [c EXCEPT !.at = 0]
             o == Reopened(d)
             h == CursorGet(o, "FIRST")
  <2>1. g = h
    BY <1>4 DEF Rewound
  <2> HIDE DEF g
  <2>2. Typed(d) /\ Kept(d, c) /\ d.at = 0 /\ d.lastRes = c.lastRes /\ d.isFirst = c.isFirst
    BY <1>1, RewindDef DEF Passes
  <2> HIDE DEF d
  <2>3. Typed(o) /\ Kept(o, d) /\ o.at = 0 /\ o.lastRes = d.lastRes /\ o.isFirst = d.isFirst
    BY <2>2, ReopenedDef, ReopenedPasses DEF Typed, Passes
  <2> HIDE DEF o
  <2>4. LastKnown(rows, o)
    BY <1>1, <2>2, <2>3 DEF Sound, LastKnown, Kept
  <2>5. ~o.blob /\ ~o.isFirst /\ o.lastRes = 0
    BY <1>2, <1>4, <2>2, <2>3 DEF Kept
  <2>6. Typed(h) /\ Ready(rows, h) /\ Goes(h, Target(o.dbc, "FIRST"))
    BY <1>1, <2>3, <2>4, <2>5, GetReady
  <2> HIDE DEF h
  <2> QED BY <1>1, <1>2, <2>1, <2>6, MovedSound DEF c
<1> QED BY <1>3, <1>4

LEMMA LastSound ==
  ASSUME CursorInv, NEW s \in Slots, BtreeLast(s)
  PROVE  Sound(rows, cur'[s])
<1> DEFINE c == cur[s]
           o == Reopened(c)
           d == [o EXCEPT !.at = 0]
           h == CursorGet(d, "LAST")
<1>1. Typed(c) /\ Sound(rows, c) /\ Open(c) /\ rows \in Tables /\ TypeInv
  BY DEF CursorInv, TypeInv, OpenInv
<1>2. ~c.blob /\ SetCursor(s, Told(h))
  BY DEF BtreeLast, Live
<1> HIDE DEF c
<1>3. Typed(o) /\ Kept(o, c) /\ o.isFirst = c.isFirst /\ o.buf = c.buf
      /\ (c.dbc # NoDbc => o.dbc = c.dbc)
  BY <1>1, ReopenedDef, ReopenedPasses DEF Typed, Passes
<1> HIDE DEF o
<1>4. Typed(d) /\ Kept(d, o) /\ d.at = 0 /\ d.isFirst = o.isFirst /\ d.buf = o.buf
      /\ d.dbc = o.dbc
  BY <1>3, RewindDef DEF Passes
<1> HIDE DEF d
<1>5. LastKnown(rows, d) /\ ~d.blob
  BY <1>1, <1>2, <1>3, <1>4 DEF Sound, LastKnown, Kept
<1>6. d.isFirst => Rescans(rows, d)
  <2> SUFFICES ASSUME d.isFirst PROVE Rescans(rows, d)
    OBVIOUS
  <2>1. c.isFirst /\ c.dbc # NoDbc
    BY <1>1, <1>3, <1>4 DEF Open
  <2>2. Rescans(rows, c) /\ d.buf = c.buf /\ d.dbc = c.dbc
    BY <1>1, <1>3, <1>4, <2>1 DEF Sound, Buffered
  <2> QED BY <2>2, SameBuffer
<1>7. Typed(h) /\ Ready(rows, h) /\ Goes(h, Target(d.dbc, "LAST"))
  BY <1>1, <1>4, <1>5, <1>6, GetReady
<1> HIDE DEF h
<1> QED BY <1>1, <1>2, <1>7, MovedSound DEF c

\* What SeekFinds says of one seek.
Found(c, k) ==
  LET up == Lowest({j \in Present : j >= k})
  IN \/ /\ c.know = "row"
        /\ c.at = 0 => c.dbc = c.key
        /\ c.mark = IF up # NoKey THEN up ELSE Highest(Present)
     \/ c.know = "none" /\ up = NoKey

LEMMA SeekSound ==
  ASSUME CursorInv, NEW s \in Slots, NEW k \in Keys, Seek(s, k), Habits = {}
  PROVE  Sound(rows, cur'[s]) /\ Found(cur'[s], k)
<1> DEFINE c == cur[s]
           o == Reopened(c)
           g == Moveto(o, k)
           up == Lowest({j \in Present : j >= k})
           n == Landing(k)
<1>1. Typed(c) /\ Sound(rows, c) /\ Open(c) /\ rows \in Tables /\ TypeInv
  BY DEF CursorInv, TypeInv, OpenInv
<1>2. /\ ~c.blob /\ c.lastRes = 0 /\ SetCursor(s, Told(g))
      /\ c.state = "VALID" /\ c.key = k /\ c.at = 0 => c.dbc = k /\ c.know = "row"
  BY DEF Seek, MayRewind, Live
<1> HIDE DEF c
<1>3. /\ Typed(o) /\ Kept(o, c) /\ o.key = c.key /\ o.val = c.val /\ o.lastRes = c.lastRes
      /\ o.buf = c.buf /\ o.at = c.at /\ o.isFirst = c.isFirst
      /\ o.state = (IF c.dbc = NoDbc THEN "INVALID" ELSE c.state)
      /\ c.dbc # NoDbc => o.dbc = c.dbc
  BY <1>1, ReopenedDef, ReopenedPasses DEF Typed, Passes
<1> HIDE DEF o
<1>4. LastKnown(rows, o) /\ ~o.blob /\ o.lastRes = 0
  BY <1>1, <1>2, <1>3 DEF Sound, LastKnown, Kept
<1>5. ASSUME o.state = "VALID", o.key = k PROVE Ready(rows, o)
  <2>1. c.state = "VALID" /\ c.key = k /\ o.dbc = c.dbc
    BY <1>3, <1>5
  <2>2. c.know # "none"
    BY <1>1, <1>2, <2>1 DEF Sound, Buffered
  <2>3. /\ c.key \in Has(rows)
        /\ c.know # "place" => c.val = rows[c.key]
        /\ c.at = 0 => c.dbc = c.key /\ ~c.isFirst
        /\ c.at # 0 => c.know = "row" /\ Reads(rows, c)
        /\ c.isFirst => Rescans(rows, c)
    BY <1>1, <1>2, <2>1, <2>2, PlacedDef
  <2>4. c.at = 0 => c.know = "row"
    BY <1>2, <2>1
  <2>5. (Reads(rows, o) <=> Reads(rows, c)) /\ (Rescans(rows, o) <=> Rescans(rows, c))
    BY <1>3, <2>1, SameBuffer
  <2> QED BY <1>3, <1>4, <1>5, <2>1, <2>3, <2>4, <2>5 DEF Ready
<1>6. /\ Typed(g) /\ Ready(rows, g)
      /\ Goes(g, n) \/ (g.state = "INVALID" /\ up = NoKey)
  BY <1>1, <1>3, <1>4, <1>5, SeekReady
<1>7. /\ n = (IF up # NoKey THEN up ELSE Highest(Present))
      /\ n = NoKey => up = NoKey
  <2>1. n = (IF up # NoKey THEN up ELSE Highest(Present))
    BY DEF Landing
  <2> HIDE DEF n, up
  <2> QED BY <2>1
<1> HIDE DEF g, n
<1>8. CASE Goes(g, n)
  <2>1. /\ Sound(rows, cur'[s]) /\ Reaches(cur'[s], n)
        /\ n # NoKey => cur'[s].at = g.at /\ cur'[s].key = g.key /\ cur'[s].dbc = g.dbc
    BY <1>1, <1>2, <1>6, <1>8, MovedSound DEF c
  <2>2. n # NoKey /\ g.at = 0 => g.dbc = g.key
    BY <1>6, <1>8 DEF Goes, Ready
  <2> DEFINE h == cur'[s]
  <2>3. CASE n = NoKey
    <3>1. h.know = "none" /\ up = NoKey
      BY <1>7, <2>1, <2>3 DEF Reaches
    <3> QED BY <2>1, <3>1 DEF Found
  <2>4. CASE n # NoKey
    <3>1. h.know = "row" /\ h.mark = n /\ (h.at = 0 => h.dbc = h.key)
      BY <2>1, <2>2, <2>4 DEF Reaches
    <3> HIDE DEF h, up
    <3>2. h.mark = IF up # NoKey THEN up ELSE Highest(Present)
      BY <1>7, <3>1
    <3> QED BY <2>1, <3>1, <3>2 DEF Found, h, up
  <2> QED BY <2>3, <2>4
<1>9. CASE g.state = "INVALID" /\ up = NoKey
  <2>1. Goes(g, NoKey)
    BY <1>9 DEF Goes
  <2>2. Sound(rows, cur'[s]) /\ Reaches(cur'[s], NoKey)
    BY <1>1, <1>2, <1>6, <2>1, MovedSound DEF c
  <2> QED BY <1>9, <2>2 DEF Found, Reaches
<1> QED BY <1>6, <1>8, <1>9

LEMMA RestoreSound ==
  ASSUME CursorInv, NEW s \in Slots, CursorRestore(s)
  PROVE  Sound(rows, cur'[s])
<1> DEFINE c == cur[s]
           r == Restored(c)
           w == IF r.state = "INVALID" THEN "none" ELSE IF r.lastRes > 0 THEN "before" ELSE "after"
           m == [r EXCEPT !.mark = r.key, !.know = w]
           n == Landing(c.key)
<1>1. Typed(c) /\ Sound(rows, c) /\ rows \in Tables /\ TypeInv
  BY DEF CursorInv, TypeInv
<1>2. /\ ~c.blob /\ c.know # "none" /\ c.state = "REQUIRESEEK"
      /\ SetCursor(s, IF r.state = "VALID" /\ r.lastRes = 0 THEN Told(r) ELSE m)
  BY DEF CursorRestore, MayStep, Live
<1> HIDE DEF c
<1>3. /\ c.key \in Keys /\ (c.lastKey # NoKey => c.key <= c.lastKey) /\ LastKnown(rows, c)
  BY <1>1, <1>2, SavedDef
<1>4. /\ Typed(r) /\ LastKnown(rows, r) /\ Goes(r, n) /\ r.dbc = n
      /\ r.blob = c.blob /\ r.at = 0 /\ ~r.isFirst /\ r.skip
      /\ n # NoKey => /\ r.val = rows[n]
                      /\ r.lastRes = (IF n < c.key THEN -1 ELSE IF n = c.key THEN 0 ELSE 1)
  BY <1>1, <1>2, <1>3, RestoredSound
<1>5. n \in Present \cup {NoKey} /\ Has(rows) = Present
  BY <1>1, <1>3, LandingBeside, HasIs
<1> HIDE DEF r, n
<1>6. CASE r.state = "VALID" /\ r.lastRes = 0
  <2>1. Ready(rows, r)
    BY <1>2, <1>4, <1>5, <1>6 DEF Ready, Goes
  <2> QED BY <1>1, <1>2, <1>4, <1>6, <2>1, MovedSound DEF c
<1>7. CASE ~(r.state = "VALID" /\ r.lastRes = 0)
  <2>1. r.key \in Keys \cup {NoKey} /\ r.lastRes \in -1..1
    BY <1>4, TypedFacts
  <2>2. w \in {"row", "place", "before", "after", "none"}
    OBVIOUS
  <2>3. /\ r.state = "INVALID" => w = "none"
        /\ r.state = "VALID" => \/ w = "before" /\ r.lastRes = 1
                                \/ w = "after" /\ r.lastRes = -1
    BY <1>7, <2>1
  <2> HIDE DEF w
  <2>4. /\ Typed(m) /\ m.mark = r.key /\ m.know = w
        /\ m.state = r.state /\ m.blob = r.blob /\ m.dbc = r.dbc
        /\ m.key = r.key /\ m.val = r.val /\ m.lastRes = r.lastRes /\ m.lastKey = r.lastKey
        /\ m.skip = r.skip /\ m.at = r.at /\ m.isFirst = r.isFirst
    <3>1. Typed(r)
      BY <1>4
    <3>2. Passes(m, r)
      BY <2>1, <2>2, <3>1, MarkDef, ZenonT(60)
    <3>3. r \in BtCursors
      BY <3>1 DEF Typed
    <3>4. /\ m.mark = r.key /\ m.know = w
          /\ m.state = r.state /\ m.blob = r.blob /\ m.dbc = r.dbc
          /\ m.key = r.key /\ m.val = r.val /\ m.lastRes = r.lastRes /\ m.lastKey = r.lastKey
          /\ m.skip = r.skip /\ m.at = r.at /\ m.isFirst = r.isFirst
      BY <3>3 DEF BtCursors
    <3> QED BY <3>2, <3>4 DEF Passes
  <2> HIDE DEF m
  <2>5. r.state \in {"VALID", "INVALID"} /\ (r.state = "VALID" => r.key = n /\ n # NoKey)
    BY <1>4 DEF Goes
  <2>6. LastKnown(rows, m) /\ Buffered(rows, m) /\ Saved(rows, m) /\ Deleted(rows, m)
    BY <1>4, <2>4, <2>5 DEF LastKnown, Buffered, Saved, Deleted
  <2>7. OnItsRow(rows, m)
    BY <1>4, <1>5, <2>3, <2>4, <2>5 DEF OnItsRow
  <2>8. Knows(m)
    BY <1>2, <1>4, <2>3, <2>4, <2>5 DEF Knows
  <2>9. Sound(rows, m)
    BY <2>6, <2>7, <2>8 DEF Sound
  <2> QED BY <1>1, <1>2, <1>7, <2>4, <2>9, SetSound
<1> QED BY <1>6, <1>7

LEMMA BlobSound ==
  ASSUME CursorInv, NEW s \in Slots, IncrblobCursor(s)
  PROVE  Sound(rows, cur'[s])
<1> DEFINE c == cur[s]
           g == [c EXCEPT !.blob = TRUE]
<1>1. Typed(c) /\ Sound(rows, c) /\ rows \in Tables /\ TypeInv
  BY DEF CursorInv, TypeInv
<1>2. /\ ~c.blob /\ c.know = "row" /\ c.state = "VALID" /\ c.at = 0 /\ SetCursor(s, g)
  BY DEF IncrblobCursor, Live
<1> HIDE DEF c
<1>3. /\ Typed(g) /\ g.blob = TRUE /\ g.state = c.state /\ g.know = c.know
      /\ g.mark = c.mark /\ g.dbc = c.dbc /\ g.key = c.key /\ g.val = c.val
      /\ g.lastKey = c.lastKey /\ g.at = c.at /\ g.isFirst = c.isFirst
  BY <1>1, BlobDef DEF Passes
<1> HIDE DEF g
<1>4. Sound(rows, g)
  BY <1>1, <1>2, <1>3 DEF Sound, Buffered, LastKnown, OnItsRow, Saved, Deleted, Knows
<1> QED BY <1>1, <1>2, <1>3, <1>4, SetSound

\* A blob handle that is restored is on the same row again.
LEMMA RestoredBlob ==
  ASSUME rows \in Tables, NEW c, Typed(c), Sound(rows, c), c.blob, c.state = "REQUIRESEEK"
  PROVE  LET g == Restored(c) IN
         /\ Typed(g) /\ Sound(rows, g)
         /\ g.state = "VALID" /\ g.dbc = c.key /\ g.key = c.key /\ g.mark = c.key
         /\ c.key \in Present
<1> DEFINE g == Restored(c)
           n == Landing(c.key)
<1>1. c.know = "row"
  BY DEF Sound, Knows
<1>2. /\ c.key = c.mark /\ c.key \in Keys /\ (c.lastKey # NoKey => c.key <= c.lastKey)
      /\ LastKnown(rows, c) /\ c.key \in Has(rows)
  BY <1>1, SavedDef
<1>3. /\ Typed(g) /\ LastKnown(rows, g) /\ Goes(g, n) /\ g.dbc = n
      /\ g.blob = c.blob /\ g.know = c.know /\ g.mark = c.mark
      /\ g.at = 0 /\ ~g.isFirst
      /\ n # NoKey => g.val = rows[n]
  BY <1>2, RestoredSound
<1>4. n = c.key /\ n # NoKey
  BY <1>2, LandingBeside, HasIs
<1> HIDE DEF g, n
<1>5. g.state = "VALID" /\ g.key = c.key
  BY <1>3, <1>4 DEF Goes
<1>6. Sound(rows, g)
  BY <1>1, <1>2, <1>3, <1>4, <1>5 DEF Sound, Buffered, OnItsRow, Saved, Deleted, Knows
<1> QED BY <1>2, <1>3, <1>4, <1>5, <1>6, HasIs DEF g

LEMMA PayloadSound ==
  ASSUME CursorInv, NEW s \in Slots, PayloadChecked(s)
  PROVE  Sound(rows, cur'[s])
<1>1. Typed(cur[s]) /\ Sound(rows, cur[s]) /\ rows \in Tables /\ TypeInv
  BY DEF CursorInv, TypeInv
<1>2. /\ cur[s].blob /\ cur[s].state = "REQUIRESEEK" /\ SetCursor(s, Restored(cur[s]))
  BY DEF PayloadChecked
<1>3. Typed(Restored(cur[s])) /\ Sound(rows, Restored(cur[s]))
  BY <1>1, <1>2, RestoredBlob
<1> QED BY <1>1, <1>2, <1>3, SetSound

\* A cursor that is opened, closed or failed has no copies.
LEMMA ZeroSound ==
  ASSUME NEW r
  PROVE  /\ Sound(r, ZeroCursor)
         /\ Sound(r, [ZeroCursor EXCEPT !.state = "INVALID", !.dbc = NoKey])
         /\ Sound(r, [ZeroCursor EXCEPT !.state = "FAULT"])
<1> DEFINE Blank(c) == /\ c.state \in {"CLOSED", "INVALID", "FAULT"}
                       /\ c.at = 0 /\ ~c.isFirst /\ ~c.blob /\ c.know = "none"
                       /\ c.lastKey = NoKey /\ (c.state # "INVALID" => c.dbc = NoDbc)
<1>1. NoKey \notin Keys /\ NoKey # EmptyTable
  BY BdbCursorAssumption DEF NoKey, EmptyTable
<1>2. ASSUME NEW c, Blank(c) PROVE Sound(r, c)
  BY <1>1, <1>2 DEF Sound, Buffered, LastKnown, OnItsRow, Saved, Deleted, Knows
<1>3. /\ Blank(ZeroCursor)
      /\ Blank([ZeroCursor EXCEPT !.state = "INVALID", !.dbc = NoKey])
      /\ Blank([ZeroCursor EXCEPT !.state = "FAULT"])
  BY DEF ZeroCursor
<1> HIDE DEF Blank
<1> QED BY <1>2, <1>3

\* A step that reads leaves every cursor's copies right.
LEMMA ReadStepSound ==
  ASSUME CursorInv, NEW s \in Slots, ReadStep(s), Habits = {}
  PROVE  rows' = rows /\ \A t \in Slots : Sound(rows', cur'[t])
<1>1. TypeInv /\ rows' = rows
  BY ReadStepIs DEF CursorInv, OnlyCursor
<1>2. \A t \in Slots \ {s} : cur'[t] = cur[t]
  <2>1. PICK c : Typed(c) /\ SetCursor(s, c)
    BY <1>1, ReadStepIs
  <2> QED BY <1>1, <2>1, SetCursorTyped
<1>3. Sound(rows, cur'[s])
  <2>1. CASE OpenCursor(s)
    BY <1>1, <2>1, ZeroTyped, ZeroSound, SetSound DEF OpenCursor
  <2>2. CASE CloseCursor(s)
    BY <1>1, <2>2, ZeroTyped, ZeroSound, SetSound DEF CloseCursor
  <2>3. CASE BtreeFirst(s)
    BY <2>3, FirstSound
  <2>4. CASE BtreeLast(s)
    BY <2>4, LastSound
  <2>5. CASE BtreeNext(s)
    BY <2>5, NextSound
  <2>6. CASE NextAfterDelete(s)
    BY <2>6, NextAfterDeleteSound
  <2>7. CASE BtreePrevious(s)
    BY <2>7, PreviousSound
  <2>8. CASE CursorRestore(s)
    BY <2>8, RestoreSound
  <2>9. CASE IncrblobCursor(s)
    BY <2>9, BlobSound
  <2>10. CASE PayloadChecked(s)
    BY <2>10, PayloadSound
  <2>11. ASSUME NEW k \in Keys, Seek(s, k) PROVE Sound(rows, cur'[s])
    BY <2>11, SeekSound
  <2> QED BY <2>1, <2>2, <2>3, <2>4, <2>5, <2>6, <2>7, <2>8, <2>9, <2>10, <2>11 DEF ReadStep
<1> QED BY <1>1, <1>2, <1>3 DEF CursorInv

-----------------------------------------------------------------------------
\* A write by another cursor: q is the table after it.
LEMMA TrippedSound ==
  ASSUME NEW r, NEW q, NEW c, Typed(c), Sound(r, c), NEW f \in BOOLEAN,
         c.state \notin {"SKIPNEXT", "WRECKED"}, c.know \notin {"before", "after"},
         LastKnown(q, c),
         c.blob /\ (f \/ c.state = "REQUIRESEEK") /\ c.key \in Has(r) => c.key \in Has(q)
  PROVE  Sound(q, Trip(c, f))
<1> DEFINE g == Trip(c, f)
           s == IF c.state # "VALID" THEN c.state
                ELSE IF c.blob /\ ~f THEN "INVALID" ELSE "REQUIRESEEK"
<1>1. /\ g.state = s /\ g.blob = c.blob /\ g.know = c.know
      /\ g.lastKey = c.lastKey
      /\ g.dbc = NoDbc /\ g.at = 0 /\ ~g.isFirst
      /\ s # "INVALID" => g.key = c.key
      /\ c.know # "none" => g.mark = c.mark
  BY TripDef DEF Typed
<1>2. c.lastKey \in Keys \cup {NoKey, EmptyTable} /\ EmptyTable \notin Keys /\ Has(r) \subseteq Keys
  BY TypedFacts, BdbCursorAssumption DEF EmptyTable, Has
<1>3. /\ c.state = "VALID" => s = (IF c.blob /\ ~f THEN "INVALID" ELSE "REQUIRESEEK")
      /\ c.state # "VALID" => s = c.state
  OBVIOUS
<1> HIDE DEF g, s
<1>4. LastKnown(q, g)
  BY <1>1 DEF LastKnown
<1>5. Saved(q, g)
  <2> SUFFICES ASSUME s = "REQUIRESEEK" PROVE Saved(q, g)
    BY <1>1 DEF Saved
  <2>1. CASE c.state = "VALID"
    <3>1. c.know # "none" => c.key = c.mark /\ c.key \in Has(r)
      BY <2>1 DEF Sound, OnItsRow
    <3>2. c.know # "none" /\ c.lastKey # NoKey => c.key <= c.lastKey
      BY <1>2, <3>1 DEF Sound, LastKnown
    <3>3. c.blob => c.know # "none" /\ f
      BY <1>3, <2>1 DEF Sound, Knows
    <3> QED BY <1>1, <1>2, <3>1, <3>2, <3>3 DEF Saved
  <2>2. CASE c.state # "VALID"
    <3>1. c.state = "REQUIRESEEK"
      BY <1>3, <2>2
    <3> QED BY <1>1, <3>1 DEF Sound, Saved
  <2> QED BY <2>1, <2>2
<1>6. Knows(g)
  BY <1>1, <1>3 DEF Sound, Knows
<1>7. Buffered(q, g) /\ OnItsRow(q, g) /\ Deleted(q, g)
  BY <1>1, <1>3 DEF Buffered, OnItsRow, Deleted
<1> QED BY <1>4, <1>5, <1>6, <1>7 DEF Sound, g

LEMMA UnwatchedSound ==
  ASSUME NEW r, NEW q, NEW c, Sound(r, c), NEW d, ~Watches(c, d),
         c.state \notin {"SKIPNEXT", "WRECKED"}, c.isFirst => c.state = "VALID",
         \A k \in Keys \ {d} : q[k] = r[k],
         LastKnown(q, c),
         c.blob /\ c.state = "REQUIRESEEK" /\ c.key \in Has(r) => c.key \in Has(q)
  PROVE  Sound(q, c)
<1>1. c.at = 0 /\ ~c.isFirst
  BY DEF Sound, Buffered, Watches
<1>2. Buffered(q, c) /\ Deleted(q, c)
  BY <1>1 DEF Buffered, Deleted
<1>3. OnItsRow(q, c)
  <2> SUFFICES ASSUME c.state = "VALID", c.know # "none" PROVE OnItsRow(q, c)
    BY DEF OnItsRow
  <2>1. c.dbc = c.key /\ c.key \in Has(r) /\ c.dbc # d
    BY <1>1 DEF Sound, OnItsRow, Watches
  <2>2. q[c.key] = r[c.key] /\ c.key \in Has(q)
    BY <2>1 DEF Has
  <2> QED BY <2>2 DEF Sound, OnItsRow
<1>4. Saved(q, c) /\ Knows(c)
  BY DEF Sound, Saved
<1> QED BY <1>2, <1>3, <1>4 DEF Sound

\* What is left to show of a write to row d is where it leaves its own cursor.
LEMMA OthersSound ==
  ASSUME CursorInv, Free, NEW s \in Slots, NEW c, Typed(c), NEW d \in Keys, NEW f \in BOOLEAN,
         WithTripped(s, c, d, f), Habits = {}, MayWrite(s, d),
         \A k \in Keys \ {d} : rows'[k] = rows[k],
         d \in Has(rows') => d \in Has(rows) \/ ~GrowsUnder(s, d),
         d \in Has(rows) => d \in Has(rows') \/ (~f /\ ~MissesBlob({d})),
         Sound(rows', c)
  PROVE  \A t \in Slots : Sound(rows', cur'[t])
<1>1. /\ cur'[s] = Tidy(c)
      /\ \A t \in Slots \ {s} : IF Watches(cur[t], d) THEN cur'[t] = Trip(cur[t], f)
                                                      ELSE cur'[t] = cur[t]
  BY WithTrippedTyped DEF CursorInv
<1>2. Sound(rows', cur'[s])
  BY <1>1, TidySound
<1>3. ASSUME NEW t \in Slots \ {s} PROVE Sound(rows', cur'[t])
  <2> DEFINE o == cur[t]
  <2>1. Typed(o) /\ Sound(rows, o) /\ o.state \notin {"SKIPNEXT", "WRECKED"}
    BY DEF CursorInv, TypeInv, Free
  <2>2. /\ o.isFirst => o.state = "VALID"
        /\ Watches(o, d) => o.know \notin {"before", "after"}
    BY DEF MayWrite, MissesScan, TripsRestored
  <2>3. LastKnown(rows', o)
    <3>1. \A j \in Has(rows') : j \in Has(rows) \/ j = d
      BY DEF Has
    <3>2. LastKnown(rows, o)
      BY <2>1 DEF Sound
    <3>3. d \in Has(rows) \/ d \notin Has(rows') \/ o.lastKey = NoKey \/ ~(d > o.lastKey)
      BY DEF GrowsUnder
    <3>4. \A k \in Keys : k \in Nat
      BY BdbCursorAssumption
    <3>5. o.lastKey = EmptyTable => d > o.lastKey /\ o.lastKey # NoKey
      BY <3>4 DEF EmptyTable, NoKey
    <3>6. NoKey \notin Keys
      BY BdbCursorAssumption DEF NoKey
    <3> HIDE DEF o
    <3>7. o.lastKey = EmptyTable => Has(rows') = {}
      BY <3>1, <3>2, <3>3, <3>5 DEF LastKnown
    <3>8. o.lastKey \in Keys => \A j \in Has(rows') : j <= o.lastKey
      <4> SUFFICES ASSUME o.lastKey \in Keys, NEW j \in Has(rows') PROVE j <= o.lastKey
        OBVIOUS
      <4>1. CASE j \in Has(rows)
        BY <3>2, <4>1 DEF LastKnown
      <4>2. CASE j = d /\ d \notin Has(rows)
        <5>1. ~(d > o.lastKey)
          BY <3>3, <3>6, <4>2
        <5> QED BY <3>4, <4>2, <5>1
      <4> QED BY <3>1, <4>1, <4>2
    <3> QED BY <3>7, <3>8 DEF LastKnown
  <2>4. o.blob /\ (f \/ o.state = "REQUIRESEEK") /\ o.key \in Has(rows) => o.key \in Has(rows')
    <3> SUFFICES ASSUME o.blob, f \/ o.state = "REQUIRESEEK", o.key \in Has(rows),
                        o.key \notin Has(rows')
                 PROVE  FALSE
      OBVIOUS
    <3>1. o.key = d
      BY DEF Has
    <3>2. ~f /\ ~MissesBlob({d})
      BY <3>1
    <3> QED BY <3>1, <3>2 DEF MissesBlob
  <2> HIDE DEF o
  <2>5. CASE Watches(o, d)
    <3>1. Sound(rows', Trip(o, f))
      BY <2>1, <2>2, <2>3, <2>4, <2>5, TrippedSound
    <3> QED BY <1>1, <2>5, <3>1 DEF o
  <2>6. CASE ~Watches(o, d)
    <3>1. Sound(rows', o)
      BY <2>1, <2>2, <2>3, <2>4, <2>6, UnwatchedSound
    <3> QED BY <1>1, <2>6, <3>1 DEF o
  <2> QED BY <2>5, <2>6
<1> QED BY <1>2, <1>3

LEMMA InsertSound ==
  ASSUME CursorInv, NEW s \in Slots, NEW k \in Keys, NEW v \in Vals, Insert(s, k, v),
         Habits = {}
  PROVE  \A t \in Slots : Sound(rows', cur'[t])
<1> DEFINE c == cur[s]
           g == Inserted(c, k)
<1>1. Typed(c) /\ Sound(rows, c) /\ rows \in Tables /\ TypeInv
  BY DEF CursorInv, TypeInv
<1>2. /\ Free /\ ~c.blob /\ c.state \notin {"CLOSED", "FAULT", "WRECKED"} /\ c.dbc # NoDbc
      /\ ~GrowsUnder(s, k) /\ MayWrite(s, k)
      /\ rows' = [rows EXCEPT ![k] = v] /\ WithTripped(s, g, k, FALSE)
  BY DEF Insert, Live
<1>3. /\ rows'[k] = v /\ v # NoVal /\ k \in Has(rows')
      /\ \A j \in Keys \ {k} : rows'[j] = rows[j]
  BY <1>1, <1>2, BdbCursorAssumption DEF Tables, Has
<1>4. c.state \in {"VALID", "INVALID"}
  <2>1. c.state \in {"CLOSED", "INVALID", "VALID", "REQUIRESEEK", "SKIPNEXT", "FAULT", "WRECKED"}
    BY <1>1 DEF Typed, BtCursors
  <2> QED BY <1>1, <1>2, <2>1 DEF Sound, Saved, Free
<1> HIDE DEF c
<1>5. /\ g \in BtCursors
      /\ g.state = c.state /\ g.blob = c.blob /\ g.lastRes = c.lastRes
      /\ g.key = c.key /\ g.mark = c.mark /\ g.buf = c.buf
      /\ g.at = 0 /\ ~g.isFirst /\ g.lastKey = NoKey /\ g.dbc = k
      /\ g.know = (IF c.state = "VALID" /\ c.key = k /\ c.know \in {"row", "place"}
                   THEN "place" ELSE "none")
  BY <1>1, InsertedDef DEF Typed
<1> HIDE DEF g
<1>6. Typed(g)
  <2>1. c.at \in Nat /\ Len(c.buf) \in Nat
    BY <1>1, TypedFacts
  <2> QED BY <1>5, <2>1 DEF Typed
<1>7. Sound(rows', g)
  <2>1. NoKey \notin Keys /\ NoKey # EmptyTable
    BY BdbCursorAssumption DEF NoKey, EmptyTable
  <2>2. Buffered(rows', g) /\ LastKnown(rows', g) /\ Saved(rows', g) /\ Deleted(rows', g)
    BY <1>4, <1>5, <2>1 DEF Buffered, LastKnown, Saved, Deleted
  <2>3. OnItsRow(rows', g)
    <3> SUFFICES ASSUME c.state = "VALID", c.key = k, c.know \in {"row", "place"}
                 PROVE  OnItsRow(rows', g)
      BY <1>5 DEF OnItsRow
    <3>1. g.know = "place" /\ g.key = g.mark /\ g.lastRes = 0
      BY <1>1, <1>2, <1>5 DEF Sound, OnItsRow
    <3> QED BY <1>3, <1>5, <3>1 DEF OnItsRow
  <2>4. Knows(g)
    BY <1>2, <1>4, <1>5 DEF Knows
  <2> QED BY <2>2, <2>3, <2>4 DEF Sound
<1> QED BY <1>1, <1>2, <1>3, <1>6, <1>7, OthersSound

\* A buffer that has only rows beyond the one that is deleted.
LEMMA BufferBeyond ==
  ASSUME NEW r \in Tables, NEW q, NEW c, Buffer(r, c), NEW m \in Keys,
         \A k \in Keys \ {m} : q[k] = r[k],
         \A i \in 1..Len(c.buf) : c.buf[i][1] > m
  PROVE  Buffer(q, c)
<1>1. \A k \in Keys : k \in Nat
  BY BdbCursorAssumption
<1>2. ASSUME NEW k \in Keys, k > m
      PROVE  q[k] = r[k] /\ (k \in Has(r) => k \in Has(q)) /\ NextRow(q, k) = NextRow(r, k)
  <2>1. ASSUME NEW j \in Keys, j > k PROVE j # m
    BY <1>1, <1>2, <2>1
  <2>2. k # m
    BY <1>1, <1>2
  <2>3. {j \in Has(q) : j > k} = {j \in Has(r) : j > k}
    BY <2>1 DEF Has
  <2> QED BY <2>2, <2>3 DEF Has, NextRow
<1>3. /\ Len(c.buf) \in 1..BufRows
      /\ \A i \in 1..Len(c.buf) : c.buf[i][1] \in Has(r) /\ c.buf[i][2] = r[c.buf[i][1]]
      /\ \A i \in 1..(Len(c.buf) - 1) : c.buf[i + 1][1] = NextRow(r, c.buf[i][1])
      /\ c.dbc = c.buf[Len(c.buf)][1]
  BY DEF Buffer
<1>4. \A i \in 1..Len(c.buf) : c.buf[i][1] \in Keys /\ c.buf[i][1] > m
  BY <1>3 DEF Has
<1>5. \A i \in 1..Len(c.buf) : c.buf[i][1] \in Has(q) /\ c.buf[i][2] = q[c.buf[i][1]]
  BY <1>2, <1>3, <1>4
<1>6. \A i \in 1..(Len(c.buf) - 1) : c.buf[i + 1][1] = NextRow(q, c.buf[i][1])
  <2> TAKE i \in 1..(Len(c.buf) - 1)
  <2>1. i \in 1..Len(c.buf)
    BY <1>3
  <2> QED BY <1>2, <1>3, <1>4, <2>1
<1> QED BY <1>3, <1>5, <1>6 DEF Buffer

LEMMA DeleteSound ==
  ASSUME CursorInv, NEW s \in Slots, NEW f \in BOOLEAN, Delete(s, f), Habits = {}
  PROVE  /\ \A t \in Slots : Sound(rows', cur'[t])
         /\ rows' = [rows EXCEPT ![cur[s].mark] = NoVal]
<1> DEFINE c == cur[s]
           m == c.mark
           d == Unbuffered(c)
           k == NextRow(rows, m)
           g == CursorGet(d, "NEXT")
           n == IF g.state = "INVALID" THEN 1 ELSE 0
           p == [g EXCEPT !.state = "SKIPNEXT", !.once = TRUE, !.know = "place", !.lastRes = n]
           z == [d EXCEPT !.state = "INVALID", !.dbc = NoKey, !.know = "none"]
           e == IF f THEN p ELSE z
<1>1. Typed(c) /\ Sound(rows, c) /\ rows \in Tables /\ TypeInv
  BY DEF CursorInv, TypeInv
<1>2. /\ Free /\ ~c.blob /\ c.state = "VALID" /\ c.know = "row"
      /\ MayWrite(s, d.dbc) /\ ~MissesBlob({d.dbc})
      /\ rows' = [rows EXCEPT ![d.dbc] = NoVal] /\ WithTripped(s, e, d.dbc, FALSE)
  BY DEF Delete, Live
<1> HIDE DEF c
<1>3. /\ c.key = m /\ m \in Has(rows) /\ c.lastRes = 0
      /\ c.at = 0 => c.dbc = c.key /\ ~c.isFirst
      /\ LastKnown(rows, c)
  BY <1>1, <1>2, PlacedDef
<1>4. /\ Typed(d) /\ Kept(d, c) /\ d.state = "VALID" /\ d.at = 0 /\ ~d.isFirst /\ d.dbc = m
  <2>1. /\ d \in BtCursors /\ Kept(d, c) /\ d.state = c.state /\ d.buf = c.buf /\ d.at = 0
        /\ d.isFirst = (c.at = 0 /\ c.isFirst)
        /\ d.dbc = (IF c.at = 0 THEN c.dbc ELSE c.key)
    BY <1>1, UnbufferedDef DEF Typed
  <2>2. Len(d.buf) \in Nat /\ c.at \in Nat
    BY <1>1, <2>1, TypedFacts
  <2> HIDE DEF d
  <2>3. ~d.isFirst /\ d.dbc = m
    BY <1>3, <2>1
  <2> QED BY <1>2, <2>1, <2>2, <2>3 DEF Typed
<1> HIDE DEF d
<1>5. m \in Keys /\ rows' = [rows EXCEPT ![m] = NoVal]
  BY <1>2, <1>3, <1>4 DEF Has
<1>6. /\ rows'[m] = NoVal /\ m \notin Has(rows')
      /\ \A j \in Keys \ {m} : rows'[j] = rows[j]
      /\ \A j \in Keys : j \in Nat
      /\ Has(rows') \subseteq Has(rows)
  BY <1>1, <1>5, BdbCursorAssumption DEF Tables, Has
<1>7. NextRow(rows', m) = k /\ k \in Has(rows) \cup {NoKey} /\ (k # NoKey => k > m)
      /\ NoKey \notin Keys
  <2>1. {j \in Has(rows') : j > m} = {j \in Has(rows) : j > m}
    BY <1>5, <1>6 DEF Has
  <2>2. NextRow(rows', m) = k
    BY <2>1 DEF NextRow
  <2>3. k \in Has(rows) \cup {NoKey} /\ (k # NoKey => k > m)
    BY NextRowDef
  <2>4. NoKey \notin Keys
    BY BdbCursorAssumption DEF NoKey
  <2> HIDE DEF k
  <2> QED BY <2>2, <2>3, <2>4
<1>8. LastKnown(rows', d)
  BY <1>3, <1>4, <1>6 DEF LastKnown, Kept
<1>9. Typed(z) /\ Sound(rows', z)
  <2>1. /\ Typed(z) /\ z.state = "INVALID" /\ z.know = "none"
        /\ z.blob = d.blob /\ z.lastKey = d.lastKey
        /\ z.at = d.at /\ z.isFirst = d.isFirst
    BY <1>4, GoneDef
  <2> HIDE DEF z
  <2>2. LastKnown(rows', z)
    BY <1>8, <2>1 DEF LastKnown
  <2> QED BY <1>2, <1>4, <2>1, <2>2
          DEF Sound, Buffered, OnItsRow, Saved, Deleted, Knows, Kept
<1>10. Typed(p) /\ Sound(rows', p)
  <2>1. Typed(g)
    BY <1>1, <1>4, CursorGetPasses DEF Passes
  <2>2. Target(d.dbc, "NEXT") = k
    <3>1. m \in Keys \cup {NoKey, NoDbc}
      BY <1>5
    <3> QED BY <1>1, <1>4, <3>1, TargetDef, HasIs
  <2>3. /\ Kept(g, d)
        /\ \/ k = NoKey /\ NoneGot(g, d, 0)
           \/ k # NoKey /\ OneGot(g, d, k, 0)
           \/ k # NoKey /\ Filled(g, d, k, FALSE)
    <3>1. LET op == "NEXT"
              t == Target(d.dbc, op) IN
          /\ Kept(g, d)
          /\ \/ op = "NEXT" /\ Advanced(g, d)
             \/ t = NoKey /\ NoneGot(g, d, 0)
             \/ t # NoKey /\ OneGot(g, d, t, 0)
             \/ t # NoKey /\ Filled(g, d, t, op = "FIRST")
      BY <1>1, <1>4, CursorGetDef
    <3>2. ("NEXT" = "FIRST") = FALSE
      OBVIOUS
    <3>3. ~Advanced(g, d)
      BY <1>4 DEF Advanced
    <3> HIDE DEF g, k
    <3> QED BY <2>2, <3>1, <3>2, <3>3
  <2> HIDE DEF g
  <2>4. /\ Typed(p) /\ p.state = "SKIPNEXT" /\ p.know = "place" /\ p.lastRes = n
        /\ p.blob = g.blob /\ p.mark = g.mark /\ p.dbc = g.dbc
        /\ p.key = g.key /\ p.val = g.val /\ p.lastKey = g.lastKey
        /\ p.buf = g.buf /\ p.at = g.at /\ p.isFirst = g.isFirst
    <3>1. n \in {0, 1}
      OBVIOUS
    <3> HIDE DEF n
    <3>2. Typed(p)
      BY <2>1, <3>1, SkipDef, Zenon
    <3>3. g \in BtCursors
      BY <2>1 DEF Typed
    <3>4. /\ p.state = "SKIPNEXT" /\ p.know = "place" /\ p.lastRes = n
          /\ p.blob = g.blob /\ p.mark = g.mark /\ p.dbc = g.dbc
          /\ p.key = g.key /\ p.val = g.val /\ p.lastKey = g.lastKey
          /\ p.buf = g.buf /\ p.at = g.at /\ p.isFirst = g.isFirst
      BY <3>3 DEF BtCursors
    <3> QED BY <3>2, <3>4
  <2> HIDE DEF p, k
  <2>5. LastKnown(rows', p)
    BY <1>8, <2>3, <2>4 DEF LastKnown, Kept
  <2>6. ~p.blob /\ p.mark = m
    BY <1>2, <1>4, <2>3, <2>4 DEF Kept
  <2>7. ~p.isFirst
    BY <1>4, <2>3, <2>4 DEF NoneGot, OneGot, Filled
  <2>8. (p.at # 0 => Reads(rows', p)) /\ Deleted(rows', p)
    <3>1. CASE k = NoKey /\ NoneGot(g, d, 0)
      BY <1>4, <1>5, <1>6, <1>7, <2>4, <2>6, <2>7, <3>1 DEF NoneGot, Deleted
    <3>2. CASE k # NoKey /\ OneGot(g, d, k, 0)
      <4>1. k \in Keys \ {m}
        BY <1>5, <1>6, <1>7, <3>2 DEF Has
      <4> QED BY <1>5, <1>6, <1>7, <2>4, <2>6, <2>7, <3>2, <4>1, ZenonT(60) DEF OneGot, Deleted
    <3>3. CASE k # NoKey /\ Filled(g, d, k, FALSE)
      <4>1. k \in Present /\ k \in Keys \ {m} /\ k \in Nat /\ m \in Nat /\ k > m
        BY <1>5, <1>6, <1>7, <3>3, HasIs
      <4>2. /\ g.state = "VALID" /\ g.key = k /\ g.val = rows[k] /\ g.at = 1
        BY <3>3 DEF Filled
      <4>3. Buffer(rows, g) /\ Reads(rows, g) /\ \A i \in 1..Len(g.buf) : k <= g.buf[i][1]
        BY <1>1, <3>3, <4>1, FilledDef
      <4>4. \A i \in 1..Len(g.buf) : g.buf[i][1] > m
        <5> TAKE i \in 1..Len(g.buf)
        <5>1. g.buf[i][1] \in Keys
          BY <4>3 DEF Buffer, Has
        <5>2. g.buf[i][1] \in Nat /\ k <= g.buf[i][1]
          BY <1>6, <4>3, <5>1
        <5> QED BY <4>1, <5>2
      <4>5. Buffer(rows', g)
        <5>1. \A j \in Keys \ {m} : rows'[j] = rows[j]
          BY <1>6
        <5>2. rows \in Tables /\ m \in Keys /\ Buffer(rows, g)
          BY <1>1, <1>5, <4>3
        <5> HIDE DEF m
        <5> QED BY <4>4, <5>1, <5>2, BufferBeyond
      <4>6. Reads(rows', g)
        BY <4>3, <4>5 DEF Reads
      <4>7. Reads(rows', p)
        BY <2>4, <4>6, SameBuffer
      <4>8. rows'[k] = rows[k]
        BY <1>6, <4>1
      <4>9. p.lastRes = 0
        BY <2>4, <4>2
      <4>10. /\ p.key = NextRow(rows', p.mark) /\ p.key # NoKey /\ p.val = rows'[p.key]
             /\ p.at # 0
        BY <1>7, <2>4, <2>6, <3>3, <4>2, <4>8
      <4>11. p.mark \in Keys \ Has(rows')
        BY <1>5, <1>6, <2>6
      <4>12. Deleted(rows', p)
        BY <2>4, <2>6, <2>7, <4>9, <4>10, <4>11 DEF Deleted
      <4> QED BY <4>7, <4>12
    <3> QED BY <2>3, <3>1, <3>2, <3>3
  <2>9. Sound(rows', p)
    BY <2>4, <2>5, <2>6, <2>7, <2>8 DEF Sound, Buffered, OnItsRow, Saved, Knows
  <2> QED BY <2>4, <2>9
<1> HIDE DEF p, z
<1>11. Typed(e) /\ Sound(rows', e)
  BY <1>9, <1>10
<1> HIDE DEF e
<1>12. \A t \in Slots : Sound(rows', cur'[t])
  BY <1>1, <1>2, <1>4, <1>5, <1>6, <1>11, OthersSound
<1> QED BY <1>5, <1>12 DEF c

LEMMA PutDataSound ==
  ASSUME CursorInv, NEW s \in Slots, NEW v \in Vals, PutData(s, v), Habits = {}
  PROVE  \A t \in Slots : Sound(rows', cur'[t])
<1> DEFINE c == cur[s]
           r == Restored(c)
           g == [r EXCEPT !.val = v]
           d == r.dbc
<1>1. Typed(c) /\ Sound(rows, c) /\ rows \in Tables /\ TypeInv
  BY DEF CursorInv, TypeInv
<1>2. /\ Free /\ c.blob /\ r.state = "VALID" /\ rows[d] # NoVal
      /\ MayWrite(s, d)
      /\ rows' = [rows EXCEPT ![d] = v] /\ WithTripped(s, g, d, TRUE)
  BY DEF PutData
<1> HIDE DEF c
<1>3. Typed(r) /\ Sound(rows, r) /\ r.state = "VALID" /\ r.blob
  <2>1. CASE c.state = "REQUIRESEEK"
    <3>1. Typed(r) /\ Sound(rows, r)
      BY <1>1, <1>2, <2>1, RestoredBlob
    <3>2. r.blob = c.blob
      BY <1>1, <2>1, RestoredDef DEF Typed
    <3> QED BY <1>2, <3>1, <3>2
  <2>2. CASE c.state # "REQUIRESEEK"
    <3>1. r = c
      BY <1>1, <2>2, RestoredDef DEF Typed
    <3> QED BY <1>1, <1>2, <3>1
  <2> QED BY <2>1, <2>2
<1> HIDE DEF r
<1>4. /\ r.know = "row" /\ r.at = 0 /\ ~r.isFirst
      /\ r.key = r.mark /\ r.key \in Has(rows) /\ d = r.key /\ LastKnown(rows, r)
  BY <1>3 DEF Sound, Knows, OnItsRow
<1>5. d \in Keys /\ d \in Has(rows)
  BY <1>4 DEF Has
<1>6. /\ rows'[d] = v /\ v # NoVal /\ d \in Has(rows')
      /\ \A j \in Keys \ {d} : rows'[j] = rows[j]
      /\ Has(rows') = Has(rows)
  <2>1. rows'[d] = v /\ v # NoVal /\ \A j \in Keys \ {d} : rows'[j] = rows[j]
    BY <1>1, <1>2, <1>5, BdbCursorAssumption DEF Tables
  <2> HIDE DEF d
  <2> QED BY <1>5, <2>1 DEF Has
<1>7. /\ Typed(g) /\ g.blob = r.blob /\ g.mark = r.mark /\ g.know = r.know
      /\ g.lastKey = r.lastKey
      /\ g.state = r.state /\ g.dbc = r.dbc /\ g.key = r.key /\ g.val = v
      /\ g.at = r.at /\ g.isFirst = r.isFirst
  BY <1>3, ValDef, ZenonT(60) DEF Passes, Kept
<1> HIDE DEF g
<1>8. Sound(rows', g)
  <2>1. LastKnown(rows', g)
    BY <1>4, <1>6, <1>7 DEF LastKnown
  <2> QED BY <1>3, <1>4, <1>6, <1>7, <2>1
          DEF Sound, Buffered, OnItsRow, Saved, Deleted, Knows
<1> HIDE DEF d
<1> QED BY <1>1, <1>2, <1>5, <1>6, <1>7, <1>8, OthersSound

LEMMA ClearSound ==
  ASSUME CursorInv, ClearTable, Habits = {}
  PROVE  \A t \in Slots : Sound(rows', cur'[t])
<1>1. /\ Free /\ ~MissesBlob(Keys) /\ rows' = [k \in Keys |-> NoVal]
      /\ \A s \in Slots : cur[s].know \notin {"before", "after"}
      /\ cur' = [t \in Slots |-> IF cur[t].dbc = NoDbc THEN cur[t] ELSE Trip(cur[t], FALSE)]
  BY DEF ClearTable
<1>2. Has(rows') = {}
  BY <1>1 DEF Has
<1>3. ASSUME NEW t \in Slots PROVE Sound(rows', cur'[t])
  <2> DEFINE o == cur[t]
  <2>1. Typed(o) /\ Sound(rows, o) /\ Open(o) /\ o.state \notin {"SKIPNEXT", "WRECKED"}
        /\ o.know \notin {"before", "after"}
    BY <1>1 DEF CursorInv, TypeInv, OpenInv, Free
  <2>2. cur'[t] = (IF o.dbc = NoDbc THEN o ELSE Trip(o, FALSE))
    BY <1>1
  <2>3. LastKnown(rows', o)
    BY <1>2 DEF LastKnown
  <2>4. ~(o.blob /\ o.state = "REQUIRESEEK" /\ o.key \in Keys)
    BY <1>1 DEF MissesBlob
  <2> HIDE DEF o
  <2>5. Has(rows) \subseteq Keys
    BY DEF Has
  <2>6. CASE o.dbc # NoDbc
    <3>1. Sound(rows', Trip(o, FALSE))
      BY <2>1, <2>3, <2>4, <2>5, TrippedSound
    <3> QED BY <2>2, <2>6, <3>1
  <2>7. CASE o.dbc = NoDbc
    <3>1. o.state # "VALID" /\ ~o.isFirst
      BY <2>1, <2>7 DEF Open
    <3>2. o.at = 0
      BY <2>1, <3>1 DEF Sound, Buffered
    <3>3. Buffered(rows', o) /\ OnItsRow(rows', o) /\ Deleted(rows', o)
      BY <2>1, <3>1, <3>2 DEF Buffered, OnItsRow, Deleted
    <3>4. Saved(rows', o) /\ Knows(o)
      BY <2>1, <2>4, <2>5 DEF Sound, Saved
    <3> QED BY <2>2, <2>3, <2>7, <3>3, <3>4 DEF Sound
  <2> QED BY <2>6, <2>7
<1> QED BY <1>3

LEMMA RollbackSound ==
  ASSUME CursorInv, RollbackTo
  PROVE  \A t \in Slots : Sound(rows', cur'[t])
<1> DEFINE z == [ZeroCursor EXCEPT !.state = "FAULT"]
<1>1. cur' = [t \in Slots |-> IF cur[t].state = "CLOSED" THEN cur[t] ELSE z]
  BY DEF RollbackTo
<1>2. Sound(rows', z)
  BY ZeroSound
<1> HIDE DEF z
<1>3. ASSUME NEW t \in Slots, cur[t].state = "CLOSED" PROVE Sound(rows', cur[t])
  <2>1. Knows(cur[t])
    BY DEF CursorInv, Sound
  <2>2. NoKey \notin Keys /\ NoKey # EmptyTable
    BY BdbCursorAssumption DEF NoKey, EmptyTable
  <2> QED BY <1>3, <2>1, <2>2 DEF Sound, Buffered, LastKnown, OnItsRow, Saved, Deleted, Knows
<1> QED BY <1>1, <1>2, <1>3

\* The copies stay right whatever is read, written, cleared or rolled back.
LEMMA StepSound ==
  ASSUME CursorInv, [BdbCursorNext]_bcvars, Habits = {}
  PROVE  CursorInv'
<1>1. TypeInv' /\ OpenInv'
  BY StepTyped DEF CursorInv
<1>2. \A t \in Slots : Sound(rows', cur'[t])
  <2>1. CASE UNCHANGED bcvars
    BY <2>1 DEF bcvars, CursorInv
  <2>2. ASSUME NEW s \in Slots, ReadStep(s) PROVE \A t \in Slots : Sound(rows', cur'[t])
    BY <2>2, ReadStepSound
  <2>3. ASSUME NEW s \in Slots, NEW k \in Keys, NEW v \in Vals, Insert(s, k, v)
        PROVE  \A t \in Slots : Sound(rows', cur'[t])
    BY <2>3, InsertSound
  <2>4. ASSUME NEW s \in Slots, NEW f \in BOOLEAN, Delete(s, f)
        PROVE  \A t \in Slots : Sound(rows', cur'[t])
    BY <2>4, DeleteSound
  <2>5. ASSUME NEW s \in Slots, NEW v \in Vals, PutData(s, v)
        PROVE  \A t \in Slots : Sound(rows', cur'[t])
    BY <2>5, PutDataSound
  <2>6. CASE ClearTable
    BY <2>6, ClearSound
  <2>7. CASE RollbackTo
    BY <2>7, RollbackSound
  <2> QED BY <2>1, <2>2, <2>3, <2>4, <2>5, <2>6, <2>7 DEF BdbCursorNext, WriteStep
<1> QED BY <1>1, <1>2 DEF CursorInv

LEMMA InitSound == BdbCursorInit => CursorInv
<1>1. Sound(rows, ZeroCursor)
  BY ZeroSound
<1> QED BY <1>1, InitTyped DEF BdbCursorInit, CursorInv

LEMMA SoundAlways ==
  ASSUME Habits = {}
  PROVE  BdbCursorSpec => []CursorInv
<1>1. CursorInv /\ [BdbCursorNext]_bcvars => CursorInv'
  BY StepSound
<1> QED BY <1>1, InitSound, PTL DEF BdbCursorSpec

\* A row that is read is the row the caller was put on, with its present
\* contents, however many cursors write meanwhile: btreeTripWatchers misses no
\* copy that is still used, if the caller has none of the habits.
THEOREM ReadsItsRowCorrect ==
  ASSUME Habits = {}
  PROVE  BdbCursorSpec => []ReadsItsRow
<1>1. CursorInv => ReadsItsRow
  BY DEF CursorInv, Sound, OnItsRow, ReadsItsRow
<1> QED BY <1>1, SoundAlways, PTL

\* A seek finds the row if it is there, and ends beside it if it is not: lastKey
\* says only what is so, and a cursor that stays where it is is on that row.
THEOREM SeekCorrect ==
  ASSUME Habits = {}
  PROVE  BdbCursorSpec => SeekFinds
<1> DEFINE Step == \A s \in Slots, k \in Keys : Moves(s) /\ Seek(s, k) =>
                     LET c == cur'[s]
                         up == Lowest({j \in Present : j >= k})
                     IN \/ /\ c.know = "row"
                           /\ c.at = 0 => c.dbc = c.key
                           /\ c.mark = IF up # NoKey THEN up ELSE Highest(Present)
                        \/ c.know = "none" /\ up = NoKey
<1>1. CursorInv => Step
  BY SeekSound DEF Found
<1>2. CursorInv => [Step]_bcvars
  BY <1>1
<1>3. BdbCursorSpec => [][Step]_bcvars
  BY <1>2, SoundAlways, PTL
<1> QED BY <1>3 DEF SeekFinds

\* A scan in either direction goes to the neighbour of the row it was on, in the
\* table as it is now, from a buffer, from a row that has vanished, or after a
\* delete that has moved the cursor already.
THEOREM StepCorrect ==
  ASSUME Habits = {}
  PROVE  BdbCursorSpec => StepIsNeighbour
<1> DEFINE Step == \A s \in Slots : Moves(s) =>
                     /\ BtreeNext(s) \/ NextAfterDelete(s) =>
                          Reaches(cur'[s], Lowest(After(cur[s])))
                     /\ BtreePrevious(s) => Reaches(cur'[s], Highest(Before(cur[s])))
<1>1. CursorInv => Step
  BY NextSound, NextAfterDeleteSound, PreviousSound
<1>2. CursorInv => [Step]_bcvars
  BY <1>1
<1>3. BdbCursorSpec => [][Step]_bcvars
  BY <1>2, SoundAlways, PTL
<1> QED BY <1>3 DEF StepIsNeighbour

\* A delete removes the row the caller is on, also when the cursor reads ahead
\* in a buffer and its DBC is elsewhere.
THEOREM DeleteCorrect ==
  ASSUME Habits = {}
  PROVE  BdbCursorSpec => DeletesItsRow
<1> DEFINE Step == \A s \in Slots, f \in BOOLEAN : rows' # rows /\ Delete(s, f) =>
                     rows' = [rows EXCEPT ![cur[s].mark] = NoVal]
<1>1. CursorInv => Step
  BY DeleteSound
<1>2. CursorInv => [Step]_bcvars
  BY <1>1
<1>3. BdbCursorSpec => [][Step]_bcvars
  BY <1>2, SoundAlways, PTL
<1> QED BY <1>3 DEF DeletesItsRow

=============================================================================
