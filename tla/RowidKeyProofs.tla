--------------------------- MODULE RowidKeyProofs ---------------------------
(***************************************************************************)
(* Proofs about RowidKey, for rowids of any width and base.                *)
(*                                                                         *)
(* put8 and get8 are loops.  What a loop computes is proved by induction   *)
(* on sets of numbers: SetInduction follows from the well-foundedness of   *)
(* finite sets under inclusion.                                            *)
(***************************************************************************)
EXTENDS RowidKey, FiniteSetTheorems, WellFoundedInduction, TLAPS

-----------------------------------------------------------------------------
\* A set of natural numbers has a least element.
LEMMA LeastNat ==
  ASSUME NEW T \in SUBSET Nat, T # {}
  PROVE  \E x \in T : \A y \in T : x <= y
<1> DEFINE F == {0..n : n \in T}
<1>1. F \subseteq FiniteSubsetsOf(Nat) /\ F # {}
  <2>1. ASSUME NEW n \in T PROVE 0..n \in FiniteSubsetsOf(Nat)
    <3>1. IsFiniteSet(0..n)
      BY FS_Interval
    <3> QED BY <3>1 DEF FiniteSubsetsOf
  <2> QED BY <2>1
<1>2. IsWellFoundedOn(StrictSubsetOrdering(Nat), FiniteSubsetsOf(Nat))
  BY FS_StrictSubsetOrderingWellFounded
<1>3. PICK I \in F : \A J \in F : ~(<<J, I>> \in StrictSubsetOrdering(Nat))
  <2> HIDE DEF F
  <2> QED BY <1>1, <1>2, WFMin, Zenon
<1>4. PICK x \in T : I = 0..x
  OBVIOUS
<1>5. ASSUME NEW y \in T, y < x PROVE FALSE
  <2>1. x \in 0..x /\ x \notin 0..y
    BY <1>5
  <2>2. <<0..y, I>> \in StrictSubsetOrdering(Nat)
    BY <1>4, <1>5, <2>1 DEF StrictSubsetOrdering
  <2> QED BY <2>2, <1>3
<1> QED BY <1>5

LEMMA SetInduction ==
  ASSUME NEW S, 0 \in S, \A n \in Nat : n \in S => n + 1 \in S
  PROVE  Nat \subseteq S
<1> DEFINE T == {n \in Nat : n \notin S}
<1>1. SUFFICES ASSUME T # {} PROVE FALSE
  OBVIOUS
<1>2. PICK x \in T : \A y \in T : x <= y
  BY <1>1, LeastNat
<1>3. x - 1 \in Nat /\ x - 1 \notin T
  BY <1>2
<1> QED BY <1>2, <1>3

\* The same up to a bound.
LEMMA BoundedInduction ==
  ASSUME NEW N \in Nat, NEW S, 0 \in S,
         \A i \in 0..(N - 1) : i \in S => i + 1 \in S
  PROVE  0..N \subseteq S
<1> DEFINE T == {i \in Nat : i <= N => i \in S}
<1>1. 0 \in T
  OBVIOUS
<1>2. \A n \in Nat : n \in T => n + 1 \in T
  OBVIOUS
<1>3. Nat \subseteq T
  <2> HIDE DEF T
  <2> QED BY <1>1, <1>2, SetInduction
<1> QED BY <1>3

\* A loop that computes each value from its index and the one before it, by
\* the table g, computes something.
Loops(f, g, a, N) ==
  f \in [0..N -> Nat] /\ f[0] = a /\ \A i \in 1..N : f[i] = g[<<i, f[i - 1]>>]

LEMMA LoopExists ==
  ASSUME NEW g \in [Nat \X Nat -> Nat], NEW a \in Nat, NEW N \in Nat
  PROVE  \E f : Loops(f, g, a, N)
<1> DEFINE L(n, f) == f[0] = a /\ \A i \in 1..n : f[i] = g[<<i, f[i - 1]>>]
           S == {n \in Nat : \E f \in [0..n -> Nat] : L(n, f)}
<1>1. 0 \in S
  <2> DEFINE h == [i \in 0..0 |-> a]
  <2>1. h \in [0..0 -> Nat] /\ h[0] = a
    OBVIOUS
  <2>2. L(0, h)
    BY <2>1
  <2> HIDE DEF h
  <2> QED BY <2>1, <2>2
<1>2. ASSUME NEW n \in Nat, n \in S PROVE n + 1 \in S
  <2>1. PICK f \in [0..n -> Nat] : L(n, f)
    BY <1>2
  <2> DEFINE h == [i \in 0..(n + 1) |-> IF i = n + 1 THEN g[<<n + 1, f[n]>>] ELSE f[i]]
  <2>2. h \in [0..(n + 1) -> Nat]
    OBVIOUS
  <2>3. h[0] = a
    BY <2>1
  <2>4. ASSUME NEW i \in 1..(n + 1) PROVE h[i] = g[<<i, h[i - 1]>>]
    <3>1. CASE i = n + 1
      <4>1. h[n + 1] = g[<<n + 1, f[n]>>] /\ h[n] = f[n] /\ i - 1 = n
        BY <3>1
      <4> QED BY <3>1, <4>1
    <3>2. CASE i \in 1..n
      <4>1. h[i] = f[i] /\ h[i - 1] = f[i - 1]
        BY <3>2
      <4> QED BY <2>1, <3>2, <4>1
    <3> QED BY <3>1, <3>2
  <2> HIDE DEF h
  <2>5. L(n + 1, h)
    BY <2>3, <2>4
  <2> HIDE DEF L
  <2> QED BY <2>2, <2>5, SMTT(30)
<1>3. Nat \subseteq S
  <2> HIDE DEF S
  <2> QED BY <1>1, <1>2, SetInduction
<1> QED BY <1>3 DEF Loops

-----------------------------------------------------------------------------
LEMMA PowerDef ==
  /\ Power \in [0..Width -> Nat]
  /\ Power[0] = 1
  /\ \A i \in 1..Width : Power[i] = Base * Power[i - 1]
<1> DEFINE g == [p \in Nat \X Nat |-> Base * p[2]]
           R(f) == f = [i \in 0..Width |-> IF i = 0 THEN 1 ELSE Base * f[i - 1]]
<1>1. g \in [Nat \X Nat -> Nat] /\ 1 \in Nat /\ Width \in Nat /\ Base \in Nat
  BY RowidAssumption
<1>a. \E f : Loops(f, g, 1, Width)
  <2> HIDE DEF g
  <2> QED BY <1>1, LoopExists, Zenon
<1>2. PICK f \in [0..Width -> Nat] :
        f[0] = 1 /\ \A i \in 1..Width : f[i] = g[<<i, f[i - 1]>>]
  <2> HIDE DEF g
  <2> QED BY <1>a DEF Loops
<1>3. ASSUME NEW i \in 1..Width PROVE f[i] = Base * f[i - 1]
  <2>1. f[i - 1] \in Nat /\ i \in Nat
    BY <1>1
  <2>2. g[<<i, f[i - 1]>>] = Base * f[i - 1]
    BY <2>1
  <2> QED BY <1>2, <2>2
<1>4. R(f)
  BY <1>1, <1>2, <1>3
<1>5. Power = CHOOSE p : R(p)
  BY DEF Power
<1>6. R(Power)
  <2> HIDE DEF R
  <2> QED BY <1>4, <1>5
<1>7. Power[0] = 1 /\ \A i \in 1..Width : Power[i] = Base * Power[i - 1]
  BY <1>1, <1>6
<1>8. \A i \in 0..Width : Power[i] = f[i]
  <2> DEFINE S == {i \in 0..Width : Power[i] = f[i]}
  <2>1. 0 \in S
    BY <1>1, <1>2, <1>7
  <2>2. \A i \in 0..(Width - 1) : i \in S => i + 1 \in S
    BY <1>1, <1>3, <1>7
  <2>3. 0..Width \subseteq S
    <3> HIDE DEF S
    <3> QED BY <1>1, <2>1, <2>2, BoundedInduction
  <2> QED BY <2>3
<1>9. Power = [i \in 0..Width |-> Power[i]]
  BY <1>6
<1> QED BY <1>7, <1>8, <1>9

-----------------------------------------------------------------------------
\* The loop of put8.
LEMMA ShiftedDef ==
  ASSUME NEW u \in Nat
  PROVE  /\ Shifted(u) \in [0..Width -> Nat]
         /\ Shifted(u)[0] = u
         /\ \A i \in 1..Width : Shifted(u)[i] = Shifted(u)[i - 1] \div Base
<1> DEFINE g == [p \in Nat \X Nat |-> p[2] \div Base]
           R(f) == f = [i \in 0..Width |-> IF i = 0 THEN u ELSE f[i - 1] \div Base]
           s == Shifted(u)
<1>0. Width \in Nat /\ Base \in Nat /\ Base > 1 /\ u \in Nat
  BY RowidAssumption
<1>1. g \in [Nat \X Nat -> Nat]
  <2>1. \A x \in Nat : x \div Base \in Nat
    BY <1>0
  <2> QED BY <2>1
<1>a. \E f : Loops(f, g, u, Width)
  <2> HIDE DEF g, R, s
  <2> QED BY <1>0, <1>1, LoopExists, Zenon
<1>2. PICK f \in [0..Width -> Nat] :
        f[0] = u /\ \A i \in 1..Width : f[i] = g[<<i, f[i - 1]>>]
  <2> HIDE DEF g, R, s
  <2> QED BY <1>a DEF Loops
<1>3. ASSUME NEW i \in 1..Width PROVE f[i] = f[i - 1] \div Base
  <2>1. f[i - 1] \in Nat /\ i \in Nat
    BY <1>0
  <2>2. g[<<i, f[i - 1]>>] = f[i - 1] \div Base
    BY <2>1
  <2> QED BY <1>2, <2>2
<1>4. R(f)
  BY <1>0, <1>2, <1>3
<1>5. s = CHOOSE p : R(p)
  BY DEF Shifted
<1>6. R(s)
  <2> HIDE DEF R, s
  <2> QED BY <1>4, <1>5
<1> HIDE DEF s
<1>7. s[0] = u /\ \A i \in 1..Width : s[i] = s[i - 1] \div Base
  BY <1>0, <1>6
<1>8. \A i \in 0..Width : s[i] = f[i]
  <2> DEFINE S == {i \in 0..Width : s[i] = f[i]}
  <2>1. 0 \in S
    BY <1>0, <1>2, <1>7
  <2>2. \A i \in 0..(Width - 1) : i \in S => i + 1 \in S
    BY <1>0, <1>3, <1>7
  <2>3. 0..Width \subseteq S
    <3> HIDE DEF S
    <3> QED BY <1>0, <2>1, <2>2, BoundedInduction
  <2> QED BY <2>3
<1>9. s = [i \in 0..Width |-> s[i]]
  BY <1>6
<1>10. s \in [0..Width -> Nat] /\ s[0] = u
       /\ \A i \in 1..Width : s[i] = s[i - 1] \div Base
  BY <1>7, <1>8, <1>9
<1> QED BY <1>10 DEF s

\* Division by the base.
LEMMA DivMod ==
  ASSUME NEW a \in Nat
  PROVE  /\ a \div Base \in Nat /\ a % Base \in 0..(Base - 1)
         /\ a = (a \div Base) * Base + (a % Base)
<1>1. Base \in Nat /\ Base > 1
  BY RowidAssumption
<1>2. a \div Base \in Nat
  BY <1>1
<1>3. a % Base \in 0..(Base - 1)
  BY <1>1
<1>4. a = Base * (a \div Base) + (a % Base)
  BY <1>1
<1>5. Base * (a \div Base) = (a \div Base) * Base
  BY <1>1, <1>2
<1> QED BY <1>2, <1>3, <1>4, <1>5

LEMMA DivMonotonic ==
  ASSUME NEW a \in Nat, NEW b \in Nat, a <= b
  PROVE  a \div Base <= b \div Base
<1> DEFINE q == a \div Base
           r == b \div Base
           x == a % Base
           y == b % Base
<1>1. /\ q \in Nat /\ r \in Nat /\ x \in 0..(Base - 1) /\ y \in 0..(Base - 1)
      /\ a = q * Base + x /\ b = r * Base + y /\ Base \in Nat /\ Base > 1
  BY DivMod, RowidAssumption
<1> HIDE DEF q, r, x, y
<1>2. SUFFICES ASSUME q >= r + 1 PROVE FALSE
  BY <1>1 DEF q, r
<1>3. q * Base >= (r + 1) * Base
  BY <1>1, <1>2
<1>4. (r + 1) * Base = r * Base + Base
  BY <1>1
<1>5. q * Base \in Nat /\ r * Base \in Nat
  BY <1>1
<1> QED BY <1>1, <1>3, <1>4, <1>5

LEMMA DivBelow ==
  ASSUME NEW a \in Nat, NEW p \in Nat, a < Base * p
  PROVE  a \div Base < p
<1> DEFINE q == a \div Base
           x == a % Base
<1>1. /\ q \in Nat /\ x \in 0..(Base - 1)
      /\ a = q * Base + x /\ Base \in Nat /\ Base > 1
  BY DivMod, RowidAssumption
<1> HIDE DEF q, x
<1>2. SUFFICES ASSUME q >= p PROVE FALSE
  BY <1>1 DEF q
<1>3. q * Base >= p * Base
  BY <1>1, <1>2
<1>4. p * Base = Base * p /\ q * Base \in Nat /\ p * Base \in Nat
  BY <1>1
<1> QED BY <1>1, <1>3, <1>4

\* Nothing is left of a rowid after Width shifts.
LEMMA ShiftedOut ==
  ASSUME NEW u \in Nat, u < Modulus
  PROVE  Shifted(u)[Width] = 0
<1> DEFINE s == Shifted(u)
           S == {i \in 0..Width : s[i] < Power[Width - i]}
<1>0. Width \in Nat /\ Width > 0
  BY RowidAssumption
<1>1. /\ s \in [0..Width -> Nat] /\ s[0] = u
      /\ \A i \in 1..Width : s[i] = s[i - 1] \div Base
  BY ShiftedDef
<1> HIDE DEF s
<1>2. 0 \in S
  BY <1>0, <1>1 DEF Modulus
<1>3. ASSUME NEW i \in 0..(Width - 1), i \in S PROVE i + 1 \in S
  <2>1. s[i] < Base * Power[Width - (i + 1)]
    <3>1. Width - i \in 1..Width /\ (Width - i) - 1 = Width - (i + 1)
      BY <1>0
    <3>2. Power[Width - i] = Base * Power[(Width - i) - 1]
      BY <3>1, PowerDef
    <3> QED BY <1>3, <3>1, <3>2
  <2>2. s[i] \in Nat /\ Power[Width - (i + 1)] \in Nat
    <3>1. i \in 0..Width /\ Width - (i + 1) \in 0..Width
      BY <1>0
    <3> QED BY <1>1, <3>1, PowerDef
  <2>3. s[i] \div Base < Power[Width - (i + 1)]
    BY <2>1, <2>2, DivBelow
  <2>4. s[i + 1] = s[i] \div Base
    <3>1. i + 1 \in 1..Width /\ (i + 1) - 1 = i
      BY <1>0
    <3> QED BY <1>1, <3>1
  <2> QED BY <1>0, <2>3, <2>4
<1>4. 0..Width \subseteq S
  <2> HIDE DEF S
  <2> QED BY <1>0, <1>2, <1>3, BoundedInduction
<1>5. s[Width] < Power[0]
  <2>1. Width \in S /\ Width - Width = 0
    BY <1>0, <1>4
  <2> QED BY <2>1
<1>6. s[Width] \in Nat
  BY <1>0, <1>1
<1>7. s[Width] = 0
  BY <1>5, <1>6, PowerDef
<1> QED BY <1>7 DEF s

\* What is left of the smaller rowid is never more.
LEMMA ShiftedMonotonic ==
  ASSUME NEW u \in Nat, NEW v \in Nat, u <= v
  PROVE  \A i \in 0..Width : Shifted(u)[i] <= Shifted(v)[i]
<1> DEFINE s == Shifted(u)
           t == Shifted(v)
           S == {i \in 0..Width : s[i] <= t[i]}
<1>0. Width \in Nat /\ Width > 0
  BY RowidAssumption
<1>1. /\ s \in [0..Width -> Nat] /\ s[0] = u
      /\ \A i \in 1..Width : s[i] = s[i - 1] \div Base
  BY ShiftedDef
<1>2. /\ t \in [0..Width -> Nat] /\ t[0] = v
      /\ \A i \in 1..Width : t[i] = t[i - 1] \div Base
  BY ShiftedDef
<1> HIDE DEF s, t
<1>3. 0 \in S
  BY <1>0, <1>1, <1>2
<1>4. ASSUME NEW i \in 0..(Width - 1), i \in S PROVE i + 1 \in S
  <2>1. s[i] \div Base <= t[i] \div Base
    BY <1>0, <1>1, <1>2, <1>4, DivMonotonic
  <2>2. i + 1 \in 1..Width /\ (i + 1) - 1 = i
    BY <1>0
  <2> QED BY <1>1, <1>2, <2>1, <2>2
<1>5. 0..Width \subseteq S
  <2> HIDE DEF S
  <2> QED BY <1>0, <1>3, <1>4, BoundedInduction
<1>6. \A i \in 0..Width : s[i] <= t[i]
  BY <1>5
<1> QED BY <1>6 DEF s, t

\* Once what is left of two is equal, or nothing is left, it stays so.
LEMMA ShiftedStays ==
  ASSUME NEW u \in Nat, NEW v \in Nat, NEW k \in 0..Width,
         Shifted(u)[k] = Shifted(v)[k]
  PROVE  \A i \in k..Width : Shifted(u)[i] = Shifted(v)[i]
<1> DEFINE s == Shifted(u)
           t == Shifted(v)
           S == {i \in 0..Width : i >= k => s[i] = t[i]}
<1>0. Width \in Nat /\ Width > 0
  BY RowidAssumption
<1>1. /\ s \in [0..Width -> Nat] /\ s[0] = u
      /\ \A i \in 1..Width : s[i] = s[i - 1] \div Base
  BY ShiftedDef
<1>2. /\ t \in [0..Width -> Nat] /\ t[0] = v
      /\ \A i \in 1..Width : t[i] = t[i - 1] \div Base
  BY ShiftedDef
<1>3. s[k] = t[k]
  OBVIOUS
<1> HIDE DEF s, t
<1>4. 0 \in S
  BY <1>0, <1>3
<1>5. ASSUME NEW i \in 0..(Width - 1), i \in S PROVE i + 1 \in S
  <2>1. i + 1 \in 1..Width /\ (i + 1) - 1 = i
    BY <1>0
  <2>2. CASE i + 1 = k
    BY <1>3, <2>1, <2>2
  <2>3. CASE i + 1 > k
    <3>1. s[i] = t[i]
      BY <1>5, <2>1, <2>3
    <3> QED BY <1>1, <1>2, <2>1, <3>1
  <2>4. CASE i + 1 < k
    BY <2>1, <2>4
  <2> QED BY <2>1, <2>2, <2>3, <2>4
<1>6. 0..Width \subseteq S
  <2> HIDE DEF S
  <2> QED BY <1>0, <1>4, <1>5, BoundedInduction
<1>7. \A i \in k..Width : s[i] = t[i]
  BY <1>0, <1>6
<1> QED BY <1>7 DEF s, t

LEMMA ShiftedZero ==
  ASSUME NEW u \in Nat, NEW k \in 0..Width, Shifted(u)[k] = 0
  PROVE  \A i \in k..Width : Shifted(u)[i] = 0
<1> DEFINE s == Shifted(u)
           S == {i \in 0..Width : i >= k => s[i] = 0}
<1>0. Width \in Nat /\ Base \in Nat /\ Base > 1
  BY RowidAssumption
<1>1. \A i \in 1..Width : s[i] = s[i - 1] \div Base
  BY ShiftedDef
<1>2. s[k] = 0 /\ 0 \div Base = 0
  BY <1>0
<1> HIDE DEF s
<1>3. 0 \in S
  BY <1>0, <1>2
<1>4. ASSUME NEW i \in 0..(Width - 1), i \in S PROVE i + 1 \in S
  <2>1. i + 1 \in 1..Width /\ (i + 1) - 1 = i
    BY <1>0
  <2>2. CASE i + 1 = k
    BY <1>2, <2>1, <2>2
  <2>3. CASE i + 1 > k
    <3>1. s[i] = 0
      BY <1>4, <2>1, <2>3
    <3> QED BY <1>1, <1>2, <2>1, <3>1
  <2>4. CASE i + 1 < k
    BY <2>1, <2>4
  <2> QED BY <2>1, <2>2, <2>3, <2>4
<1>5. 0..Width \subseteq S
  <2> HIDE DEF S
  <2> QED BY <1>0, <1>3, <1>4, BoundedInduction
<1>6. \A i \in k..Width : s[i] = 0
  BY <1>0, <1>5
<1> QED BY <1>6 DEF s

-----------------------------------------------------------------------------
\* Keys.
Size(u) == IF FixedRowid THEN Width ELSE Digits(u)

LEMMA SizeDef ==
  ASSUME NEW u \in Nat, u < Modulus
  PROVE  /\ Size(u) \in 1..Width
         /\ Shifted(u)[Size(u)] = 0
         /\ ~FixedRowid => Size(u) = 1 \/ Shifted(u)[Size(u) - 1] # 0
<1> DEFINE s == Shifted(u)
           T == {n \in 1..Width : s[n] = 0}
           P(n) == s[n] = 0 /\ (n = 1 \/ s[n - 1] # 0)
<1>0. Width \in Nat /\ Width > 0 /\ FixedRowid \in BOOLEAN
  BY RowidAssumption
<1>1. s[Width] = 0 /\ s \in [0..Width -> Nat]
  BY ShiftedOut, ShiftedDef
<1>2. CASE FixedRowid
  BY <1>0, <1>1, <1>2 DEF Size
<1>3. CASE ~FixedRowid
  <2> HIDE DEF s
  <2>1. Width \in T /\ T \in SUBSET Nat
    BY <1>0, <1>1
  <2>2. PICK x \in T : \A y \in T : x <= y
    <3> HIDE DEF T
    <3> QED BY <2>1, LeastNat
  <2>3. x \in 1..Width /\ P(x)
    <3>1. x - 1 \notin T
      BY <2>2
    <3> QED BY <2>2, <3>1, <1>0
  <2>4. Digits(u) = CHOOSE n \in 1..Width : P(n)
    BY DEF Digits, s
  <2>5. Digits(u) \in 1..Width /\ P(Digits(u))
    <3> HIDE DEF P
    <3> QED BY <2>3, <2>4
  <2> QED BY <1>3, <2>5 DEF Size, s
<1> QED BY <1>0, <1>2, <1>3

LEMMA Put8Def ==
  ASSUME NEW u \in Nat, u < Modulus
  PROVE  /\ Put8(u) \in Seq(Nat)
         /\ Len(Put8(u)) = Size(u)
         /\ \A i \in 1..Size(u) : Put8(u)[i] = Shifted(u)[Size(u) - i] % Base
<1>1. Size(u) \in 1..Width /\ Width \in Nat
  BY SizeDef, RowidAssumption
<1>2. Put8(u) = [i \in 1..Size(u) |-> Shifted(u)[Size(u) - i] % Base]
  BY DEF Put8, Size, Digit
<1>3. ASSUME NEW i \in 1..Size(u) PROVE Shifted(u)[Size(u) - i] % Base \in Nat
  <2>1. Size(u) - i \in 0..Width
    BY <1>1
  <2>2. Shifted(u)[Size(u) - i] \in Nat
    BY <2>1, ShiftedDef
  <2> QED BY <2>2, DivMod
<1>4. Put8(u) \in [1..Size(u) -> Nat]
  BY <1>2, <1>3
<1> QED BY <1>1, <1>2, <1>4

LEMMA Get8Def ==
  ASSUME NEW b \in Seq(Nat)
  PROVE  \E f \in [0..Len(b) -> Nat] :
           /\ f[0] = 0
           /\ \A i \in 1..Len(b) : f[i] = f[i - 1] * Base + b[i]
           /\ Get8(b) = f[Len(b)]
<1> DEFINE N == Len(b)
           g == [p \in Nat \X Nat |-> p[2] * Base + (IF p[1] \in 1..N THEN b[p[1]] ELSE 0)]
           R(f) == f = [i \in 0..N |-> IF i = 0 THEN 0 ELSE f[i - 1] * Base + b[i]]
           t == CHOOSE f : R(f)
<1>0. N \in Nat /\ Base \in Nat /\ 0 \in Nat
  BY RowidAssumption
<1>1. g \in [Nat \X Nat -> Nat]
  <2>1. \A i \in 1..N : b[i] \in Nat
    OBVIOUS
  <2>2. \A x \in Nat : x * Base \in Nat
    BY <1>0
  <2>3. ASSUME NEW p \in Nat \X Nat
        PROVE  p[2] * Base + (IF p[1] \in 1..N THEN b[p[1]] ELSE 0) \in Nat
    <3>1. p[2] * Base \in Nat
      BY <2>2
    <3>2. (IF p[1] \in 1..N THEN b[p[1]] ELSE 0) \in Nat
      BY <2>1
    <3> QED BY <3>1, <3>2
  <2> QED BY <2>3
<1>a. \E f : Loops(f, g, 0, N)
  <2> HIDE DEF g, R, t, N
  <2> QED BY <1>0, <1>1, LoopExists, Zenon
<1>2. PICK f \in [0..N -> Nat] :
        f[0] = 0 /\ \A i \in 1..N : f[i] = g[<<i, f[i - 1]>>]
  <2> HIDE DEF g, R, t, N
  <2> QED BY <1>a DEF Loops
<1>3. ASSUME NEW i \in 1..N PROVE f[i] = f[i - 1] * Base + b[i]
  <2>1. f[i - 1] \in Nat /\ i \in Nat
    BY <1>0, SMTT(30)
  <2>2. g[<<i, f[i - 1]>>] = f[i - 1] * Base + b[i]
    BY <2>1
  <2> QED BY <1>2, <2>2
<1>4. R(f)
  BY <1>0, <1>2, <1>3
<1>5. R(t)
  <2> HIDE DEF R
  <2> QED BY <1>4
<1>6. Get8(b) = t[N]
  BY DEF Get8
<1> HIDE DEF t
<1>7. t[0] = 0 /\ \A i \in 1..N : t[i] = t[i - 1] * Base + b[i]
  <2>1. t = [i \in 0..N |-> IF i = 0 THEN 0 ELSE t[i - 1] * Base + b[i]]
    BY <1>5
  <2> HIDE DEF N, R
  <2>2. t[0] = 0
    BY <1>0, <2>1
  <2>3. ASSUME NEW i \in 1..N PROVE t[i] = t[i - 1] * Base + b[i]
    <3>1. i \in 0..N /\ i # 0
      BY <1>0
    <3> QED BY <2>1, <3>1
  <2> QED BY <2>2, <2>3
<1>8. \A i \in 0..N : t[i] = f[i]
  <2> DEFINE S == {i \in 0..N : t[i] = f[i]}
  <2>1. 0 \in S
    BY <1>0, <1>2, <1>7
  <2>2. \A i \in 0..(N - 1) : i \in S => i + 1 \in S
    BY <1>0, <1>3, <1>7
  <2>3. 0..N \subseteq S
    <3> HIDE DEF S, N
    <3> QED BY <1>0, <2>1, <2>2, BoundedInduction
  <2> QED BY <2>3
<1>9. t = [i \in 0..N |-> t[i]]
  BY <1>5
<1>10. t \in [0..N -> Nat]
  BY <1>8, <1>9
<1> QED BY <1>6, <1>7, <1>10

\* get8 reads what put8 has written.
LEMMA RoundTrip ==
  ASSUME NEW u \in Nat, u < Modulus
  PROVE  Get8(Put8(u)) = u
<1> DEFINE b == Put8(u)
           n == Size(u)
           s == Shifted(u)
<1>1. b \in Seq(Nat) /\ Len(b) = n /\ \A i \in 1..n : b[i] = s[n - i] % Base
  BY Put8Def
<1>2. n \in 1..Width /\ s[n] = 0 /\ Width \in Nat
  BY SizeDef, RowidAssumption
<1>3. /\ s \in [0..Width -> Nat] /\ s[0] = u
      /\ \A i \in 1..Width : s[i] = s[i - 1] \div Base
  BY ShiftedDef
<1>4. PICK f \in [0..Len(b) -> Nat] :
        /\ f[0] = 0
        /\ \A i \in 1..Len(b) : f[i] = f[i - 1] * Base + b[i]
        /\ Get8(b) = f[Len(b)]
  BY <1>1, Get8Def
<1> DEFINE S == {i \in 0..n : f[i] = s[n - i]}
<1> HIDE DEF b, n, s
<1>5. 0 \in S
  BY <1>1, <1>2, <1>4
<1>6. ASSUME NEW i \in 0..(n - 1), i \in S PROVE i + 1 \in S
  <2>1. /\ i + 1 \in 1..n /\ (i + 1) - 1 = i /\ n - i \in 1..Width
        /\ (n - i) - 1 = n - (i + 1) /\ n - (i + 1) \in 0..Width
    BY <1>2
  <2>2. f[i + 1] = f[i] * Base + b[i + 1]
    BY <1>1, <1>4, <2>1
  <2>3. b[i + 1] = s[n - (i + 1)] % Base
    BY <1>1, <2>1
  <2>4. f[i] = s[n - (i + 1)] \div Base
    BY <1>3, <1>6, <2>1
  <2>5. s[n - (i + 1)] \in Nat
    BY <1>3, <2>1
  <2>6. s[n - (i + 1)] = f[i] * Base + b[i + 1]
    BY <2>3, <2>4, <2>5, DivMod
  <2> QED BY <2>1, <2>2, <2>6
<1>7. 0..n \subseteq S
  <2> HIDE DEF S
  <2> QED BY <1>2, <1>5, <1>6, BoundedInduction, SMTT(30)
<1>8. f[n] = s[0]
  <2>1. n \in S /\ n - n = 0
    BY <1>2, <1>7
  <2> QED BY <2>1
<1>9. Get8(b) = u
  BY <1>1, <1>3, <1>4, <1>8
<1> QED BY <1>9 DEF b

LEMMA Put8Injective ==
  ASSUME NEW u \in Nat, u < Modulus, NEW v \in Nat, v < Modulus, Put8(u) = Put8(v)
  PROVE  u = v
<1>1. Get8(Put8(u)) = u /\ Get8(Put8(v)) = v
  BY RoundTrip
<1> QED BY <1>1

\* A smaller number never has more digits.
LEMMA SizeMonotonic ==
  ASSUME NEW u \in Nat, u < Modulus, NEW v \in Nat, v < Modulus, u <= v
  PROVE  Size(u) <= Size(v)
<1> DEFINE n == Size(u)
           m == Size(v)
<1>1. /\ n \in 1..Width /\ m \in 1..Width /\ Width \in Nat
      /\ Shifted(v)[m] = 0
      /\ ~FixedRowid => n = 1 \/ Shifted(u)[n - 1] # 0
  BY SizeDef, RowidAssumption
<1>2. CASE FixedRowid
  BY <1>2, <1>1 DEF Size
<1>3. CASE ~FixedRowid
  <2>1. SUFFICES ASSUME n > m PROVE FALSE
    BY <1>1
  <2>2. n - 1 \in m..Width /\ n - 1 \in 0..Width /\ n # 1
    BY <1>1, <2>1
  <2>3. Shifted(v)[n - 1] = 0
    <3>1. m \in 0..Width
      BY <1>1
    <3> HIDE DEF n, m
    <3> QED BY <1>1, <2>2, <3>1, ShiftedZero
  <2>4. Shifted(u)[n - 1] \in Nat /\ Shifted(u)[n - 1] <= Shifted(v)[n - 1]
    <3> HIDE DEF n, m
    <3> QED BY <2>2, ShiftedDef, ShiftedMonotonic
  <2> QED BY <1>1, <1>3, <2>2, <2>3, <2>4
<1>4. FixedRowid \in BOOLEAN
  BY RowidAssumption
<1> QED BY <1>2, <1>3, <1>4

\* rowid_compare orders keys like the numbers put8 was given.
LEMMA OrderKept ==
  ASSUME NEW u \in Nat, u < Modulus, NEW v \in Nat, v < Modulus, u < v
  PROVE  KeyLess(Put8(u), Put8(v))
<1> DEFINE s == Shifted(u)
           t == Shifted(v)
           n == Size(u)
           a == Put8(u)
           b == Put8(v)
<1>1. /\ a \in Seq(Nat) /\ Len(a) = n /\ \A i \in 1..n : a[i] = s[n - i] % Base
      /\ b \in Seq(Nat) /\ Len(b) = Size(v)
      /\ \A i \in 1..Size(v) : b[i] = t[Size(v) - i] % Base
  BY Put8Def
<1>2. n \in 1..Width /\ Size(v) \in 1..Width /\ n <= Size(v) /\ Width \in Nat
  BY SizeDef, SizeMonotonic, RowidAssumption
<1>3. CASE n < Size(v)
  BY <1>1, <1>3 DEF KeyLess
<1>4. CASE n = Size(v)
  <2>1. s[n] = 0 /\ t[n] = 0 /\ s[0] = u /\ t[0] = v
    BY <1>4, SizeDef, ShiftedDef
  <2>2. /\ s \in [0..Width -> Nat] /\ t \in [0..Width -> Nat]
        /\ \A i \in 1..Width : s[i] = s[i - 1] \div Base
        /\ \A i \in 1..Width : t[i] = t[i - 1] \div Base
    BY ShiftedDef
  <2>3. \A i \in 0..Width : s[i] <= t[i]
    BY ShiftedMonotonic
  <2>4. \A k \in 0..Width : s[k] = t[k] => \A i \in k..Width : s[i] = t[i]
    BY ShiftedStays
  <2> DEFINE T == {k \in 0..n : s[k] = t[k]}
  <2> HIDE DEF s, t, n, a, b
  <2>5. PICK k \in T : \A j \in T : k <= j
    <3>1. n \in T /\ T \in SUBSET Nat
      BY <1>2, <2>1
    <3> HIDE DEF T
    <3> QED BY <3>1, LeastNat
  <2>6. k \in 1..n /\ s[k] = t[k]
    BY <1>2, <2>1, <2>5
  <2>7. s[k - 1] < t[k - 1] /\ s[k - 1] \in Nat /\ t[k - 1] \in Nat
    <3>1. k - 1 \notin T /\ k - 1 \in 0..n /\ k - 1 \in 0..Width
      BY <1>2, <2>5, <2>6
    <3>2. s[k - 1] # t[k - 1]
      BY <3>1
    <3>3. s[k - 1] <= t[k - 1] /\ s[k - 1] \in Nat /\ t[k - 1] \in Nat
      BY <2>2, <2>3, <3>1
    <3> QED BY <3>2, <3>3
  <2>8. s[k - 1] % Base < t[k - 1] % Base
    <3>1. s[k - 1] \div Base = t[k - 1] \div Base
      BY <1>2, <2>2, <2>6, SMTT(30)
    <3> DEFINE x == s[k - 1]
               y == t[k - 1]
    <3>2. x = (x \div Base) * Base + (x % Base) /\ x % Base \in 0..(Base - 1)
      BY <2>7, DivMod
    <3>3. y = (x \div Base) * Base + (y % Base) /\ y % Base \in 0..(Base - 1)
      BY <2>7, <3>1, DivMod
    <3>4. (x \div Base) * Base \in Nat
      <4>1. x \div Base \in Nat /\ Base \in Nat
        BY <2>7, DivMod, RowidAssumption
      <4> QED BY <4>1
    <3> DEFINE q == (x \div Base) * Base
               c == x % Base
               d == y % Base
    <3>5. x < y /\ x = q + c /\ y = q + d /\ q \in Nat /\ c \in 0..(Base - 1)
          /\ d \in 0..(Base - 1) /\ Base \in Nat
      BY <2>7, <3>2, <3>3, <3>4, RowidAssumption
    <3>6. c < d
      <4> HIDE DEF q, c, d, x, y
      <4> QED BY <3>5
    <3> QED BY <3>6
  <2> DEFINE i == n - (k - 1)
  <2>9. i \in 1..n /\ n - i = k - 1
    BY <1>2, <2>6
  <2>10. a[i] < b[i]
    BY <1>1, <1>4, <2>8, <2>9, ZenonT(60)
  <2>11. ASSUME NEW j \in 1..(i - 1) PROVE a[j] = b[j]
    <3>1. j \in 1..n /\ n - j \in k..Width
      BY <1>2, <2>6, <2>9
    <3>2. k \in 0..Width
      BY <1>2, <2>6
    <3>3. s[n - j] = t[n - j]
      BY <2>4, <2>6, <3>1, <3>2
    <3> QED BY <1>1, <1>4, <3>1, <3>3
  <2>12. Len(a) = n /\ Len(b) = n
    BY <1>1, <1>4
  <2> HIDE DEF i
  <2>13. BytesLess(a, b)
    BY <2>9, <2>10, <2>11, <2>12 DEF BytesLess
  <2>14. KeyLess(a, b)
    BY <2>12, <2>13 DEF KeyLess
  <2> QED BY <2>14 DEF a, b
<1> QED BY <1>2, <1>3, <1>4

LEMMA KeyLessAsymmetric ==
  ASSUME NEW a \in Seq(Nat), NEW b \in Seq(Nat), KeyLess(a, b)
  PROVE  ~KeyLess(b, a)
<1>1. CASE Len(a) < Len(b)
  BY <1>1 DEF KeyLess
<1>2. CASE Len(a) = Len(b) /\ BytesLess(a, b)
  <2>1. SUFFICES ASSUME BytesLess(b, a) PROVE FALSE
    BY <1>2 DEF KeyLess
  <2>2. PICK i \in 1..Len(a) : a[i] < b[i] /\ \A j \in 1..(i - 1) : a[j] = b[j]
    BY <1>2 DEF BytesLess
  <2>3. PICK k \in 1..Len(b) : b[k] < a[k] /\ \A j \in 1..(k - 1) : b[j] = a[j]
    BY <2>1 DEF BytesLess
  <2>4. a[i] \in Nat /\ b[i] \in Nat /\ a[k] \in Nat /\ b[k] \in Nat
    BY <1>2, SMTT(30)
  <2>5. CASE i < k
    BY <2>2, <2>3, <2>4, <2>5, SMTT(30)
  <2>6. CASE k < i
    BY <2>2, <2>3, <2>4, <2>6
  <2>7. CASE i = k
    BY <2>2, <2>3, <2>4, <2>7
  <2> QED BY <2>5, <2>6, <2>7
<1> QED BY <1>1, <1>2 DEF KeyLess

LEMMA OrderIsOrder ==
  ASSUME NEW u \in Nat, u < Modulus, NEW v \in Nat, v < Modulus
  PROVE  KeyLess(Put8(u), Put8(v)) <=> u < v
<1>1. Put8(u) \in Seq(Nat) /\ Put8(v) \in Seq(Nat)
  BY Put8Def
<1>2. CASE u < v
  BY <1>2, OrderKept
<1>3. CASE v < u
  BY <1>1, <1>3, OrderKept, KeyLessAsymmetric
<1>4. CASE u = v
  BY <1>1, <1>4, KeyLessAsymmetric
<1> QED BY <1>2, <1>3, <1>4

-----------------------------------------------------------------------------
\* Rowids.
LEMMA MaxRowidDef ==
  /\ Modulus \in Nat /\ MaxRowid \in Nat
  /\ MaxRowid < Modulus /\ 2 * (MaxRowid + 1) <= Modulus
<1> DEFINE S == {i \in 0..Width : Power[i] >= 1}
<1>0. Width \in Nat /\ Width > 0 /\ Base \in Nat /\ Base > 1
  BY RowidAssumption
<1>1. 0 \in S
  BY <1>0, PowerDef
<1>2. ASSUME NEW i \in 0..(Width - 1), i \in S PROVE i + 1 \in S
  <2>1. i + 1 \in 1..Width /\ (i + 1) - 1 = i /\ i \in 0..Width
    BY <1>0
  <2>2. Power[i + 1] = Base * Power[i] /\ Power[i] \in Nat
    BY <2>1, PowerDef
  <2>3. Power[i] >= 1
    BY <1>2
  <2>4. ASSUME NEW p \in Nat, p >= 1 PROVE Base * p >= 1
    <3>1. Base * p = (Base - 1) * p + p /\ (Base - 1) * p >= 0
      BY <1>0
    <3> QED BY <1>0, <2>4, <3>1
  <2>5. Power[i + 1] >= 1 /\ i + 1 \in 0..Width
    BY <1>0, <2>1, <2>2, <2>3, <2>4
  <2> QED BY <2>5
<1>3. 0..Width \subseteq S
  <2> HIDE DEF S
  <2> QED BY <1>0, <1>1, <1>2, BoundedInduction
<1>4. Modulus \in Nat /\ Modulus >= 2
  <2>1. Width \in 1..Width /\ Width - 1 \in 0..Width
    BY <1>0
  <2>2. Modulus = Base * Power[Width - 1] /\ Power[Width - 1] \in Nat
        /\ Power[Width - 1] >= 1
    BY <1>3, <2>1, PowerDef DEF Modulus
  <2>3. Base * Power[Width - 1] >= 2
    BY <1>0, <2>2
  <2> QED BY <1>0, <2>2, <2>3
<1> QED BY <1>4 DEF MaxRowid

LEMMA UnsignedRange ==
  ASSUME NEW v \in (-(MaxRowid + 1))..MaxRowid
  PROVE  Unsigned(v) \in 0..(Modulus - 1)
<1>1. Modulus \in Nat /\ MaxRowid \in Nat /\ MaxRowid < Modulus
      /\ 2 * (MaxRowid + 1) <= Modulus
  BY MaxRowidDef
<1> QED BY <1>1 DEF Unsigned

\* put8 writes keys of the table and nothing else does, for every rowid that
\* SQLite can store, the negative ones included.
THEOREM RowidTypeCorrect == RowidSpec => []RowidTypeOK
<1> USE DEF RowidTypeOK
<1>1. RowidInit => RowidTypeOK
  BY DEF RowidInit
<1>2. ASSUME RowidTypeOK, [RowidNext]_kvars PROVE RowidTypeOK'
  <2>1. CASE UNCHANGED kvars
    BY <1>2, <2>1 DEF kvars
  <2>2. ASSUME NEW v \in Rowids, InsertAt(v) PROVE RowidTypeOK'
    <3>1. Unsigned(v) \in 0..(Modulus - 1)
      BY UnsignedRange, RowidAssumption
    <3> QED BY <1>2, <2>2, <3>1 DEF InsertAt
  <2>3. ASSUME NEW v \in Rowids, DeleteAt(v) PROVE RowidTypeOK'
    BY <1>2, <2>3 DEF DeleteAt
  <2>4. ASSUME InsertNew PROVE RowidTypeOK'
    <3>1. PICK v \in (-MaxRowid)..MaxRowid :
            /\ keys' = keys \cup {Put8(Unsigned(v))}
            /\ fresh' = (fresh /\ Put8(Unsigned(v)) \notin keys)
            /\ UNCHANGED at
      BY <2>4 DEF InsertNew
    <3>2. v \in (-(MaxRowid + 1))..MaxRowid
      BY MaxRowidDef
    <3>3. Unsigned(v) \in 0..(Modulus - 1)
      BY <3>2, UnsignedRange
    <3> QED BY <1>2, <3>1, <3>3
  <2>5. ASSUME Scan PROVE RowidTypeOK'
    BY <1>2, <2>5 DEF Scan
  <2>6. ASSUME Rewind PROVE RowidTypeOK'
    BY <1>2, <2>6 DEF Rewind
  <2> QED BY <1>2, <2>1, <2>2, <2>3, <2>4, <2>5, <2>6 DEF RowidNext
<1> QED BY <1>1, <1>2, PTL DEF RowidSpec

-----------------------------------------------------------------------------
\* With rowids that are not negative only, the keys are those of rowids.
NaturalKeys ==
  /\ keys \subseteq {Put8(u) : u \in 0..MaxRowid}
  /\ at \in keys \cup {<<>>}
  /\ fresh = TRUE

LEMMA RowidOf ==
  ASSUME NEW u \in 0..MaxRowid
  PROVE  /\ u \in Nat /\ u < Modulus
         /\ Unsigned(u) = u
         /\ Rowid(Put8(u)) = u
<1>1. MaxRowid \in Nat /\ Modulus \in Nat /\ MaxRowid < Modulus
  BY MaxRowidDef
<1>2. u \in Nat /\ u < Modulus /\ Unsigned(u) = u
  BY <1>1 DEF Unsigned
<1>3. Get8(Put8(u)) = u
  BY <1>2, RoundTrip
<1> QED BY <1>1, <1>2, <1>3 DEF Rowid, Signed

\* Keys compare like the rowids they are of.
LEMMA KeyOrder ==
  ASSUME NaturalKeys, NEW a \in keys, NEW b \in keys
  PROVE  /\ Rowid(a) \in 0..MaxRowid /\ a = Put8(Rowid(a))
         /\ KeyLess(a, b) <=> Rowid(a) < Rowid(b)
         /\ a = b <=> Rowid(a) = Rowid(b)
<1>1. PICK u \in 0..MaxRowid : a = Put8(u)
  BY DEF NaturalKeys
<1>2. PICK v \in 0..MaxRowid : b = Put8(v)
  BY DEF NaturalKeys
<1>3. /\ u \in Nat /\ u < Modulus /\ Rowid(a) = u
      /\ v \in Nat /\ v < Modulus /\ Rowid(b) = v
  BY <1>1, <1>2, RowidOf
<1>4. KeyLess(a, b) <=> u < v
  BY <1>1, <1>2, <1>3, OrderIsOrder
<1>5. a = b <=> u = v
  BY <1>1, <1>2, <1>3, Put8Injective
<1> QED BY <1>1, <1>3, <1>4, <1>5

\* The last row of a table that has rows is the one with the largest rowid.
LEMMA LastIsLargest ==
  ASSUME NaturalKeys, keys # {}
  PROVE  Last \in keys /\ \A b \in keys : Rowid(b) <= Rowid(Last)
<1> DEFINE T == {MaxRowid - Rowid(b) : b \in keys}
           P(a) == \A b \in keys \ {a} : KeyLess(b, a)
<1>1. MaxRowid \in Nat /\ \A b \in keys : Rowid(b) \in 0..MaxRowid
  BY MaxRowidDef, KeyOrder
<1>2. PICK x \in T : \A y \in T : x <= y
  <2>1. T \in SUBSET Nat /\ T # {}
    BY <1>1
  <2> HIDE DEF T
  <2> QED BY <2>1, LeastNat
<1>3. PICK a \in keys : x = MaxRowid - Rowid(a)
  BY <1>2
<1>4. \A b \in keys : Rowid(b) <= Rowid(a)
  <2> TAKE b \in keys
  <2>1. MaxRowid - Rowid(b) \in T
    OBVIOUS
  <2>2. MaxRowid - Rowid(a) <= MaxRowid - Rowid(b)
    <3> HIDE DEF T
    <3> QED BY <1>2, <1>3, <2>1
  <2>3. Rowid(a) \in 0..MaxRowid /\ Rowid(b) \in 0..MaxRowid
    BY <1>1
  <2> HIDE DEF T
  <2> QED BY <1>1, <2>2, <2>3
<1>5. P(a)
  <2> TAKE b \in keys \ {a}
  <2>1. Rowid(b) <= Rowid(a) /\ Rowid(b) # Rowid(a)
    BY <1>4, KeyOrder
  <2>2. Rowid(b) < Rowid(a)
    BY <1>1, <2>1
  <2> QED BY <2>2, KeyOrder
<1>6. Last \in keys /\ P(Last)
  <2>1. Last = CHOOSE c \in keys : P(c)
    BY DEF Last
  <2> HIDE DEF P
  <2> QED BY <1>5, <2>1
<1>7. ASSUME NEW b \in keys PROVE Rowid(b) <= Rowid(Last)
  <2>1. CASE b = Last
    BY <1>1, <2>1
  <2>2. CASE b # Last
    <3>1. KeyLess(b, Last)
      BY <1>6, <2>2
    <3> QED BY <1>1, <1>6, <3>1, KeyOrder
  <2> QED BY <2>1, <2>2
<1> QED BY <1>6, <1>7

LEMMA NaturalKeysKept ==
  ASSUME Rowids \subseteq Nat
  PROVE  RowidSpec => []NaturalKeys
<1>1. RowidInit => NaturalKeys
  BY DEF RowidInit, NaturalKeys
<1>2. ASSUME NaturalKeys, [RowidNext]_kvars PROVE NaturalKeys'
  <2>0. MaxRowid \in Nat
    BY MaxRowidDef
  <2>1. CASE UNCHANGED kvars
    BY <1>2, <2>1 DEF kvars, NaturalKeys
  <2>2. ASSUME NEW v \in Rowids, InsertAt(v) PROVE NaturalKeys'
    <3>1. v \in 0..MaxRowid
      BY <2>0, RowidAssumption
    <3>2. Unsigned(v) = v
      BY <3>1, RowidOf
    <3> QED BY <1>2, <2>2, <3>1, <3>2 DEF InsertAt, NaturalKeys
  <2>3. ASSUME NEW v \in Rowids, DeleteAt(v) PROVE NaturalKeys'
    BY <1>2, <2>3 DEF DeleteAt, NaturalKeys
  <2>4. ASSUME InsertNew PROVE NaturalKeys'
    <3>1. PICK v \in (-MaxRowid)..MaxRowid :
            /\ IF keys = {} THEN v = 1
               ELSE IF Rowid(Last) < MaxRowid THEN v = Rowid(Last) + 1
               ELSE v > 0 /\ Put8(v) \notin keys
            /\ keys' = keys \cup {Put8(Unsigned(v))}
            /\ fresh' = (fresh /\ Put8(Unsigned(v)) \notin keys)
            /\ UNCHANGED at
      BY <2>4 DEF InsertNew
    <3>2. v \in 0..MaxRowid /\ Put8(v) \notin keys
      <4>1. CASE keys = {}
        BY <2>0, <3>1, <4>1
      <4>2. CASE keys # {} /\ Rowid(Last) < MaxRowid
        <5>1. v = Rowid(Last) + 1
          BY <3>1, <4>2
        <5>2. Last \in keys /\ \A b \in keys : Rowid(b) <= Rowid(Last)
          BY <1>2, <4>2, LastIsLargest
        <5>3. Rowid(Last) \in 0..MaxRowid
          BY <1>2, <5>2, KeyOrder
        <5>4. v \in 0..MaxRowid
          BY <2>0, <4>2, <5>1, <5>3
        <5>5. Rowid(Put8(v)) = v
          BY <5>4, RowidOf
        <5> QED BY <5>1, <5>2, <5>3, <5>4, <5>5
      <4>3. CASE keys # {} /\ ~(Rowid(Last) < MaxRowid)
        BY <2>0, <3>1, <4>3
      <4> QED BY <4>1, <4>2, <4>3
    <3>3. Unsigned(v) = v
      BY <3>2, RowidOf
    <3> QED BY <1>2, <3>1, <3>2, <3>3 DEF NaturalKeys
  <2>5. ASSUME Scan PROVE NaturalKeys'
    BY <1>2, <2>5 DEF Scan, NaturalKeys
  <2>6. ASSUME Rewind PROVE NaturalKeys'
    BY <1>2, <2>6 DEF Rewind, NaturalKeys
  <2> QED BY <1>2, <2>1, <2>2, <2>3, <2>4, <2>5, <2>6 DEF RowidNext
<1> QED BY <1>1, <1>2, PTL DEF RowidSpec

\* OP_NewRowid never gets the rowid of a row that exists, in a table without
\* negative rowids: the last key in LMDB's order is that of the largest rowid.
\* (With a negative one it is not, which the assumption excludes.)
THEOREM FreshCorrect ==
  ASSUME Rowids \subseteq Nat
  PROVE  RowidSpec => []NewRowidIsFresh
<1>1. NaturalKeys => NewRowidIsFresh
  BY DEF NaturalKeys, NewRowidIsFresh
<1> QED BY <1>1, NaturalKeysKept, PTL

\* A scan returns the rows in the order of their rowids.
THEOREM ScanCorrect ==
  ASSUME Rowids \subseteq Nat
  PROVE  RowidSpec => ScanAscends
<1>1. ASSUME NaturalKeys, NaturalKeys', [RowidNext]_kvars
      PROVE  [at # <<>> /\ at' # <<>> /\ at' # at => Rowid(at) < Rowid(at')]_kvars
  <2>1. CASE UNCHANGED kvars
    BY <2>1
  <2>2. ASSUME RowidNext, at # <<>>, at' # <<>>, at' # at PROVE Rowid(at) < Rowid(at')
    <3>1. Scan
      BY <2>2 DEF RowidNext, InsertAt, DeleteAt, InsertNew, Rewind
    <3>2. at' \in keys /\ KeyLess(at, at')
      BY <2>2, <3>1 DEF Scan
    <3>3. at \in keys
      BY <1>1, <2>2 DEF NaturalKeys
    <3> QED BY <1>1, <3>2, <3>3, KeyOrder
  <2> QED BY <1>1, <2>1, <2>2
<1> QED BY <1>1, NaturalKeysKept, PTL DEF RowidSpec, ScanAscends

\* ... and none is left out: no row lies between the one a scan is on and the
\* next.
THEOREM SkipsNothing ==
  ASSUME Rowids \subseteq Nat
  PROVE  RowidSpec => NothingSkipped
<1> DEFINE Step == at' # at /\ at' # <<>> =>
             \A b \in keys : Rowid(b) < Rowid(at')
                               => at # <<>> /\ Rowid(b) <= Rowid(at)
<1>1. ASSUME NaturalKeys, [RowidNext]_kvars PROVE [Step]_kvars
  <2>1. CASE UNCHANGED kvars
    BY <2>1
  <2>2. ASSUME RowidNext, at' # <<>>, at' # at,
               NEW b \in keys, Rowid(b) < Rowid(at')
        PROVE  at # <<>> /\ Rowid(b) <= Rowid(at)
    <3>1. Scan
      BY <2>2 DEF RowidNext, InsertAt, DeleteAt, InsertNew, Rewind
    <3> DEFINE rest == {r \in keys : at = <<>> \/ KeyLess(at, r)}
    <3>2. at' \in rest /\ \A o \in rest \ {at'} : KeyLess(at', o)
      BY <3>1 DEF Scan
    <3>3. Rowid(b) \in Nat /\ Rowid(at') \in Nat
      BY <1>1, <3>2, KeyOrder
    <3>4. b \notin rest
      <4>1. SUFFICES ASSUME b \in rest PROVE FALSE
        OBVIOUS
      <4>2. b # at'
        BY <2>2, <3>3
      <4>3. Rowid(at') < Rowid(b)
        BY <1>1, <3>2, <4>1, <4>2, KeyOrder
      <4> QED BY <2>2, <3>3, <4>3
    <3>5. at # <<>> /\ at \in keys /\ ~KeyLess(at, b)
      BY <1>1, <3>4 DEF NaturalKeys
    <3>6. Rowid(at) \in Nat /\ ~(Rowid(at) < Rowid(b))
      BY <1>1, <3>5, KeyOrder
    <3> QED BY <3>3, <3>5, <3>6
  <2> QED BY <1>1, <2>1, <2>2
<1> QED BY <1>1, NaturalKeysKept, PTL DEF RowidSpec, NothingSkipped

=============================================================================
