---------------------------- MODULE BdbEnvProofs ----------------------------
(***************************************************************************)
(* The types of BdbEnv, the reference count of each BtShared, the open     *)
(* mutex, the equipment of a connection with a transaction, the reset of   *)
(* the LSNs and the table of the schema, for any number of processes and   *)
(* connections.                                                            *)
(*                                                                         *)
(* A step of a connection changes that connection, the BtShared and the    *)
(* mutex of its process and nothing else of the kind.  ConnStep says so,   *)
(* and what each invariant needs of it is a predicate on the three new     *)
(* values: Counts, KeepsMutex, KeepsHandles.  Every action is shown to be  *)
(* such a step, and such a step to keep the invariants.                    *)
(*                                                                         *)
(* The last two rest on a file that is not ready being in the hands of one *)
(* connection, which has the open mutex: Solo, in LsnInv and MadeInv.      *)
(***************************************************************************)
EXTENDS BdbEnv, FiniteSetTheorems, TLAPS

\* The connections of a process that hold a reference to its BtShared.
Users(p) == {c \in Of(p) : btree[c].pc # "closed"}

EnvInv == BdbEnvTypeOK /\ RefsCounted

\* A BtShared but for the range of nRef.
Uncounted ==
  [nRef : Int, existed : BOOLEAN, opened : BOOLEAN, reset : BOOLEAN, panic : BOOLEAN,
   meta : BOOLEAN, cached : Cookies \cup {NoCookie}]

Refs(r) == IF r.pc = "closed" THEN 0 ELSE 1

\* The connection becomes r, its BtShared b and the mutex of its process x.
ConnStep(c, r, b, x) ==
  /\ r \in Btrees /\ b \in Uncounted /\ x \in {c, Nobody, mutex[ProcOf[c]]}
  /\ btree' = [btree EXCEPT ![c] = r]
  /\ bt' = [bt EXCEPT ![ProcOf[c]] = b]
  /\ mutex' = [mutex EXCEPT ![ProcOf[c]] = x]

Counts(c, r, b) == b.nRef = bt[ProcOf[c]].nRef + Refs(r) - Refs(btree[c])

\* The mutex is not taken from another connection; this one has it where it
\* must, and only inside the call.
KeepsMutex(c, r, x) ==
  /\ mutex[ProcOf[c]] \in {c, Nobody} \/ x = mutex[ProcOf[c]]
  /\ x = c => r.pc \in Opening \ {"enter"}
  /\ r.pc \in {"mkdir", "open"} => x = c

\* What a connection relies on, given its BtShared, is there.
Fits(r, b) ==
  /\ r.pc = "idle" /\ r.connected => b.opened /\ b.meta /\ r.family
  /\ r.pc \in {"reset", "meta", "last", "create", "begin"} => b.opened
  /\ r.pc \in {"last", "create", "begin"} => b.meta

HandlesInv == \A c \in Conns : Fits(btree[c], Shared(c))

\* The shared handles stay, or there is nobody else.
KeepsHandles(c, r, b) ==
  /\ Fits(r, b)
  /\ \/ (Shared(c).opened => b.opened) /\ (Shared(c).meta => b.meta)
     \/ Users(ProcOf[c]) \subseteq {c}

-----------------------------------------------------------------------------
LEMMA UsersFinite ==
  ASSUME NEW p
  PROVE  IsFiniteSet(Users(p)) /\ Cardinality(Users(p)) \in 0..Cardinality(Conns)
<1>1. Users(p) \in SUBSET Conns
  BY DEF Users, Of
<1>2. IsFiniteSet(Conns)
  BY BdbEnvAssumption
<1>3. IsFiniteSet(Users(p)) /\ Cardinality(Users(p)) <= Cardinality(Conns)
  BY <1>1, <1>2, FS_Subset
<1>4. Cardinality(Users(p)) \in Nat /\ Cardinality(Conns) \in Nat
  BY <1>2, <1>3, FS_CardinalityType
<1> QED BY <1>3, <1>4

\* A step that counts as it should keeps the count of every process.
LEMMA RefsStep ==
  ASSUME EnvInv, NEW c \in Conns, NEW r, NEW b, NEW x,
         ConnStep(c, r, b, x), Counts(c, r, b)
  PROVE  RefsCounted'
<1> DEFINE p == ProcOf[c]
<1>t. p \in Procs /\ bt \in [Procs -> BtShareds] /\ btree \in [Conns -> Btrees]
  BY BdbEnvAssumption DEF EnvInv, BdbEnvTypeOK
<1>b. btree' = [btree EXCEPT ![c] = r] /\ bt' = [bt EXCEPT ![p] = b]
  BY DEF ConnStep
<1>1. ASSUME NEW q \in Procs, q # p
      PROVE  bt'[q].nRef = Cardinality(Users(q)')
  <2>1. Users(q)' = Users(q)
    BY <1>1, <1>t, <1>b DEF Users, Of
  <2>2. bt'[q] = bt[q]
    BY <1>1, <1>t, <1>b
  <2> QED BY <2>1, <2>2 DEF EnvInv, RefsCounted, Users
<1>2. bt'[p].nRef = Cardinality(Users(p)')
  <2>1. bt'[p].nRef = Cardinality(Users(p)) + Refs(r) - Refs(btree[c])
    <3>1. bt'[p] = b /\ b.nRef = bt[p].nRef + Refs(r) - Refs(btree[c])
      BY <1>t, <1>b DEF Counts
    <3>2. bt[p].nRef = Cardinality(Users(p))
      BY <1>t DEF EnvInv, RefsCounted, Users
    <3> QED BY <3>1, <3>2
  <2>2. Cardinality(Users(p)) \in Nat /\ IsFiniteSet(Users(p))
    BY UsersFinite, FS_CardinalityType
  <2>3. c \in Users(p) <=> btree[c].pc # "closed"
    BY DEF Users, Of
  <2>4. CASE r.pc = "closed"
    <3>1. Users(p)' = Users(p) \ {c}
      BY <2>4, <1>t, <1>b DEF Users, Of
    <3>2. Cardinality(Users(p) \ {c}) =
            IF c \in Users(p) THEN Cardinality(Users(p)) - 1 ELSE Cardinality(Users(p))
      BY <2>2, FS_RemoveElement
    <3> QED BY <2>1, <2>2, <2>3, <2>4, <3>1, <3>2 DEF Refs
  <2>5. CASE r.pc # "closed"
    <3>1. Users(p)' = Users(p) \cup {c}
      BY <2>5, <1>t, <1>b DEF Users, Of
    <3>2. Cardinality(Users(p) \cup {c}) =
            IF c \in Users(p) THEN Cardinality(Users(p)) ELSE Cardinality(Users(p)) + 1
      BY <2>2, FS_AddElement
    <3> QED BY <2>1, <2>2, <2>3, <2>5, <3>1, <3>2 DEF Refs
  <2> QED BY <2>4, <2>5
<1> QED BY <1>1, <1>2 DEF RefsCounted, Users

\* It keeps the types, the range of the count included.
LEMMA TypeStep ==
  ASSUME EnvInv, NEW c \in Conns, NEW r, NEW b, NEW x,
         ConnStep(c, r, b, x), RefsCounted'
  PROVE  /\ bt' \in [Procs -> BtShareds] /\ btree' \in [Conns -> Btrees]
         /\ mutex' \in [Procs -> Conns \cup {Nobody}]
<1>t. /\ ProcOf[c] \in Procs /\ bt \in [Procs -> BtShareds]
      /\ btree \in [Conns -> Btrees] /\ mutex \in [Procs -> Conns \cup {Nobody}]
  BY BdbEnvAssumption DEF EnvInv, BdbEnvTypeOK
<1>1. b.nRef \in 0..Cardinality(Conns)
  <2>1. bt'[ProcOf[c]] = b
    BY <1>t DEF ConnStep
  <2>2. b.nRef = Cardinality(Users(ProcOf[c])')
    BY <1>t, <2>1 DEF RefsCounted, Users
  <2>3. Users(ProcOf[c])' \in SUBSET Conns /\ IsFiniteSet(Conns)
    BY BdbEnvAssumption DEF Users, Of
  <2>4. /\ IsFiniteSet(Users(ProcOf[c])')
        /\ Cardinality(Users(ProcOf[c])') <= Cardinality(Conns)
    BY <2>3, FS_Subset
  <2>5. Cardinality(Users(ProcOf[c])') \in Nat /\ Cardinality(Conns) \in Nat
    BY <2>3, <2>4, FS_CardinalityType
  <2> QED BY <2>2, <2>4, <2>5
<1>2. b \in BtShareds
  BY <1>1 DEF ConnStep, Uncounted, BtShareds
<1> QED BY <1>t, <1>2 DEF ConnStep

\* It keeps the open mutex where it must be.
LEMMA MutexStep ==
  ASSUME EnvInv, MutexFollows, NEW c \in Conns, NEW r, NEW b, NEW x,
         ConnStep(c, r, b, x), KeepsMutex(c, r, x)
  PROVE  MutexFollows'
<1> DEFINE p == ProcOf[c]
<1>t. /\ p \in Procs /\ ProcOf \in [Conns -> Procs] /\ Nobody \notin Conns
      /\ btree \in [Conns -> Btrees] /\ mutex \in [Procs -> Conns \cup {Nobody}]
  BY BdbEnvAssumption DEF EnvInv, BdbEnvTypeOK
<1>b. btree' = [btree EXCEPT ![c] = r] /\ mutex' = [mutex EXCEPT ![p] = x]
  BY DEF ConnStep
<1>1. ASSUME NEW q \in Procs, mutex'[q] # Nobody
      PROVE  ProcOf[mutex'[q]] = q /\ btree'[mutex'[q]].pc \in Opening \ {"enter"}
  <2>1. CASE mutex'[q] = c
    <3>1. q = p
      <4>1. CASE q # p
        BY <4>1, <2>1, <1>t, <1>b, <1>1 DEF MutexFollows
      <4> QED BY <4>1
    <3> QED BY <3>1, <2>1, <1>t, <1>b DEF KeepsMutex
  <2>2. CASE mutex'[q] # c
    <3>1. mutex'[q] = mutex[q]
      BY <2>2, <1>1, <1>t, <1>b DEF ConnStep
    <3>2. mutex[q] \in Conns /\ btree'[mutex[q]] = btree[mutex[q]]
      BY <3>1, <2>2, <1>1, <1>t, <1>b
    <3> QED BY <3>1, <3>2, <1>1 DEF MutexFollows
  <2> QED BY <2>1, <2>2
<1>2. ASSUME NEW d \in Conns, btree'[d].pc \in {"mkdir", "open"}
      PROVE  mutex'[ProcOf[d]] = d
  <2>1. CASE d = c
    BY <2>1, <1>2, <1>t, <1>b DEF KeepsMutex
  <2>2. CASE d # c
    <3>1. mutex[ProcOf[d]] = d
      BY <2>2, <1>2, <1>t, <1>b DEF MutexFollows, HasMutex
    <3>2. mutex'[ProcOf[d]] = mutex[ProcOf[d]]
      BY <2>2, <3>1, <1>t, <1>b DEF KeepsMutex
    <3> QED BY <3>1, <3>2
  <2> QED BY <2>1, <2>2
<1> QED BY <1>1, <1>2 DEF MutexFollows, HasMutex

\* It keeps what connections rely on.
LEMMA HandlesStep ==
  ASSUME EnvInv, HandlesInv, NEW c \in Conns, NEW r, NEW b, NEW x,
         ConnStep(c, r, b, x), KeepsHandles(c, r, b)
  PROVE  HandlesInv'
<1>t. /\ ProcOf \in [Conns -> Procs] /\ bt \in [Procs -> BtShareds]
      /\ btree \in [Conns -> Btrees]
  BY BdbEnvAssumption DEF EnvInv, BdbEnvTypeOK
<1>b. btree' = [btree EXCEPT ![c] = r] /\ bt' = [bt EXCEPT ![ProcOf[c]] = b]
  BY DEF ConnStep
<1>1. ASSUME NEW d \in Conns
      PROVE  Fits(btree'[d], bt'[ProcOf[d]])
  <2>1. CASE d = c
    BY <2>1, <1>t, <1>b DEF KeepsHandles
  <2>2. CASE d # c /\ ProcOf[d] # ProcOf[c]
    BY <2>2, <1>t, <1>b DEF HandlesInv, Shared
  <2>3. CASE d # c /\ ProcOf[d] = ProcOf[c]
    <3>1. btree'[d] = btree[d] /\ bt'[ProcOf[d]] = b /\ Fits(btree[d], bt[ProcOf[c]])
      BY <2>3, <1>t, <1>b DEF HandlesInv, Shared
    <3>2. CASE Users(ProcOf[c]) \subseteq {c}
      <4>1. btree[d].pc = "closed"
        BY <2>3, <3>2 DEF Users, Of
      <4> QED BY <3>1, <4>1 DEF Fits
    <3>3. CASE (Shared(c).opened => b.opened) /\ (Shared(c).meta => b.meta)
      BY <3>1, <3>3 DEF Fits, Shared
    <3> QED BY <3>2, <3>3 DEF KeepsHandles
  <2> QED BY <2>1, <2>2, <2>3
<1> QED BY <1>1 DEF HandlesInv, Shared

-----------------------------------------------------------------------------
\* What an action of a connection has to be.  A failing txn_begin of the family
\* keeps the mutex and leaves a connection without one; a connection that fails
\* to read the metadata takes the handles of the others away.
Good(c, r, b, x) ==
  /\ ConnStep(c, r, b, x) /\ Counts(c, r, b)
  /\ "familyFails" \notin Mishaps /\ MutexFollows => KeepsMutex(c, r, x)
  /\ ("familyFails" \notin Mishaps /\ "metaFails" \notin Mishaps /\ HandlesInv)
       => KeepsHandles(c, r, b)

IsGood(c) == \E r, b, x : Good(c, r, b, x)

LEMMA Facts ==
  ASSUME EnvInv, NEW c \in Conns
  PROVE  /\ ProcOf[c] \in Procs /\ btree[c] \in Btrees /\ Shared(c) \in BtShareds
         /\ Shared(c) \in Uncounted
         /\ c # Nobody /\ mutex[ProcOf[c]] \in Conns \cup {Nobody}
         /\ btree = [btree EXCEPT ![c] = btree[c]]
         /\ bt = [bt EXCEPT ![ProcOf[c]] = Shared(c)]
         /\ mutex = [mutex EXCEPT ![ProcOf[c]] = mutex[ProcOf[c]]]
<1>1. /\ ProcOf[c] \in Procs /\ btree \in [Conns -> Btrees]
      /\ bt \in [Procs -> BtShareds] /\ mutex \in [Procs -> Conns \cup {Nobody}]
      /\ c # Nobody
  BY BdbEnvAssumption DEF EnvInv, BdbEnvTypeOK
<1>2. Shared(c) \in BtShareds
  BY <1>1 DEF Shared
<1>3. Shared(c) \in Uncounted
  <2>1. \A n \in 0..Cardinality(Conns) : n \in Int
    OBVIOUS
  <2> QED BY <1>2, <2>1 DEF BtShareds, Uncounted
<1> QED BY <1>1, <1>2, <1>3 DEF Shared

\* Who alone has a reference, or could have one.
LEMMA Alone ==
  ASSUME EnvInv, NEW c \in Conns,
         Shared(c).nRef = 0 \/ (Shared(c).nRef = 1 /\ btree[c].pc # "closed")
  PROVE  Users(ProcOf[c]) \subseteq {c}
<1>1. Cardinality(Users(ProcOf[c])) = Shared(c).nRef /\ IsFiniteSet(Users(ProcOf[c]))
  BY UsersFinite, Facts DEF EnvInv, RefsCounted, Users, Shared
<1>2. CASE Shared(c).nRef = 0
  BY <1>1, <1>2, FS_EmptySet
<1>3. CASE Shared(c).nRef = 1 /\ btree[c].pc # "closed"
  <2>1. PICK d : Users(ProcOf[c]) = {d}
    BY <1>1, <1>3, FS_Singleton
  <2>2. c \in Users(ProcOf[c])
    BY <1>3 DEF Users, Of
  <2> QED BY <2>1, <2>2
<1> QED BY <1>2, <1>3

LEMMA EnterGood ==
  ASSUME EnvInv, NEW c \in Conns, Enter(c)
  PROVE  IsGood(c)
<1> DEFINE r == [btree[c] EXCEPT !.pc = "mkdir"]
           b == Shared(c)
           x == c
<1>f. /\ ProcOf[c] \in Procs /\ btree[c] \in Btrees /\ Shared(c) \in BtShareds
      /\ Shared(c) \in Uncounted
      /\ c # Nobody /\ mutex[ProcOf[c]] \in Conns \cup {Nobody}
      /\ btree = [btree EXCEPT ![c] = btree[c]]
      /\ bt = [bt EXCEPT ![ProcOf[c]] = Shared(c)]
      /\ mutex = [mutex EXCEPT ![ProcOf[c]] = mutex[ProcOf[c]]]
  BY Facts
<1>r. r \in Btrees
  BY <1>f DEF Enter, Btrees, Opening
<1>b. b \in Uncounted
  BY <1>f DEF Uncounted
<1>1. r \in Btrees /\ b \in Uncounted /\ x \in {c, Nobody, mutex[ProcOf[c]]}
  BY <1>r, <1>b
<1>2. btree' = [btree EXCEPT ![c] = r] /\ bt' = [bt EXCEPT ![ProcOf[c]] = b]
  BY <1>f DEF Enter, SetBtree
<1>3. mutex' = [mutex EXCEPT ![ProcOf[c]] = x]
  BY <1>f DEF Enter, Take, Free, Shared
<1>n. b.nRef = Shared(c).nRef /\ Shared(c).nRef \in Int
  BY <1>f DEF Uncounted
<1>p. r.pc # "closed" /\ btree[c].pc # "closed"
  BY <1>f DEF Enter, Btrees
<1>4. Counts(c, r, b)
  BY <1>n, <1>p DEF Counts, Refs, Shared
<1>5. MutexFollows => KeepsMutex(c, r, x)
  BY <1>f DEF Enter, KeepsMutex, MutexFollows, HasMutex, Opening, Free
<1>6. HandlesInv => KeepsHandles(c, r, b)
  BY <1>f DEF Enter, KeepsHandles, HandlesInv, Fits, Shared
<1> QED BY <1>1, <1>2, <1>3, <1>4, <1>5, <1>6 DEF IsGood, Good, ConnStep

LEMMA JoinEnvironmentGood ==
  ASSUME EnvInv, NEW c \in Conns, JoinEnvironment(c)
  PROVE  IsGood(c)
<1> DEFINE r == [btree[c] EXCEPT !.pc = "reset", !.connected = TRUE, !.fresh = FALSE]
           b == Shared(c)
           x == IF btree[c].caller = "OPEN" \/ mutex[ProcOf[c]] # c
                   THEN mutex[ProcOf[c]] ELSE Nobody
<1>f. /\ ProcOf[c] \in Procs /\ btree[c] \in Btrees /\ Shared(c) \in BtShareds
      /\ Shared(c) \in Uncounted
      /\ c # Nobody /\ mutex[ProcOf[c]] \in Conns \cup {Nobody}
      /\ btree = [btree EXCEPT ![c] = btree[c]]
      /\ bt = [bt EXCEPT ![ProcOf[c]] = Shared(c)]
      /\ mutex = [mutex EXCEPT ![ProcOf[c]] = mutex[ProcOf[c]]]
  BY Facts
<1>r. r \in Btrees
  BY <1>f DEF JoinEnvironment, Btrees, Opening
<1>b. b \in Uncounted
  BY <1>f DEF Uncounted
<1>1. r \in Btrees /\ b \in Uncounted /\ x \in {c, Nobody, mutex[ProcOf[c]]}
  BY <1>r, <1>b
<1>2. btree' = [btree EXCEPT ![c] = r] /\ bt' = [bt EXCEPT ![ProcOf[c]] = b]
  BY <1>f DEF JoinEnvironment, SetBtree, AfterOpen
<1>3. mutex' = [mutex EXCEPT ![ProcOf[c]] = x]
  BY <1>f DEF JoinEnvironment, Leave, Shared, AfterOpen
<1>n. b.nRef = Shared(c).nRef /\ Shared(c).nRef \in Int
  BY <1>f DEF Uncounted
<1>p. r.pc # "closed" /\ btree[c].pc # "closed"
  BY <1>f DEF JoinEnvironment, Btrees, AfterOpen
<1>4. Counts(c, r, b)
  BY <1>n, <1>p DEF Counts, Refs, Shared
<1>5. MutexFollows => KeepsMutex(c, r, x)
  BY <1>f DEF JoinEnvironment, KeepsMutex, MutexFollows, HasMutex, Opening
<1>6. HandlesInv => KeepsHandles(c, r, b)
  BY <1>f DEF JoinEnvironment, KeepsHandles, HandlesInv, Fits, Shared
<1> QED BY <1>1, <1>2, <1>3, <1>4, <1>5, <1>6 DEF IsGood, Good, ConnStep

LEMMA MakeDirectoryGood ==
  ASSUME EnvInv, NEW c \in Conns, MakeDirectory(c)
  PROVE  IsGood(c)
<1> DEFINE r == [btree[c] EXCEPT !.pc = "open"]
           b == [Shared(c) EXCEPT !.reset = @ \/ NeedsReset(c)]
           x == mutex[ProcOf[c]]
<1>f. /\ ProcOf[c] \in Procs /\ btree[c] \in Btrees /\ Shared(c) \in BtShareds
      /\ Shared(c) \in Uncounted
      /\ c # Nobody /\ mutex[ProcOf[c]] \in Conns \cup {Nobody}
      /\ btree = [btree EXCEPT ![c] = btree[c]]
      /\ bt = [bt EXCEPT ![ProcOf[c]] = Shared(c)]
      /\ mutex = [mutex EXCEPT ![ProcOf[c]] = mutex[ProcOf[c]]]
  BY Facts
<1>r. r \in Btrees
  BY <1>f DEF MakeDirectory, Btrees, Opening
<1>b. b \in Uncounted
  BY <1>f DEF Uncounted, NeedsReset, BtShareds
<1>1. r \in Btrees /\ b \in Uncounted /\ x \in {c, Nobody, mutex[ProcOf[c]]}
  BY <1>r, <1>b
<1>2. btree' = [btree EXCEPT ![c] = r] /\ bt' = [bt EXCEPT ![ProcOf[c]] = b]
  BY <1>f DEF MakeDirectory, SetBtree, SetShared
<1>3. mutex' = [mutex EXCEPT ![ProcOf[c]] = x]
  BY <1>f DEF MakeDirectory, Shared
<1>n. b.nRef = Shared(c).nRef /\ Shared(c).nRef \in Int
  BY <1>f DEF Uncounted, NeedsReset, BtShareds
<1>p. r.pc # "closed" /\ btree[c].pc # "closed"
  BY <1>f DEF MakeDirectory, Btrees
<1>4. Counts(c, r, b)
  BY <1>n, <1>p DEF Counts, Refs, Shared
<1>5. MutexFollows => KeepsMutex(c, r, x)
  BY <1>f DEF MakeDirectory, KeepsMutex, MutexFollows, HasMutex, Opening
<1>6. HandlesInv => KeepsHandles(c, r, b)
  BY <1>f DEF MakeDirectory, KeepsHandles, HandlesInv, Fits, Shared
<1> QED BY <1>1, <1>2, <1>3, <1>4, <1>5, <1>6 DEF IsGood, Good, ConnStep

LEMMA OpenEnvironmentGood ==
  ASSUME EnvInv, NEW c \in Conns, OpenEnvironment(c)
  PROVE  IsGood(c)
<1> DEFINE r == [btree[c] EXCEPT !.pc = "reset", !.connected = TRUE, !.fresh = TRUE]
           b == [Shared(c) EXCEPT !.opened = TRUE]
           x == mutex[ProcOf[c]]
<1>f. /\ ProcOf[c] \in Procs /\ btree[c] \in Btrees /\ Shared(c) \in BtShareds
      /\ Shared(c) \in Uncounted
      /\ c # Nobody /\ mutex[ProcOf[c]] \in Conns \cup {Nobody}
      /\ btree = [btree EXCEPT ![c] = btree[c]]
      /\ bt = [bt EXCEPT ![ProcOf[c]] = Shared(c)]
      /\ mutex = [mutex EXCEPT ![ProcOf[c]] = mutex[ProcOf[c]]]
  BY Facts
<1>r. r \in Btrees
  BY <1>f DEF OpenEnvironment, Btrees, Opening
<1>b. b \in Uncounted
  BY <1>f DEF Uncounted
<1>1. r \in Btrees /\ b \in Uncounted /\ x \in {c, Nobody, mutex[ProcOf[c]]}
  BY <1>r, <1>b
<1>2. btree' = [btree EXCEPT ![c] = r] /\ bt' = [bt EXCEPT ![ProcOf[c]] = b]
  BY <1>f DEF OpenEnvironment, SetBtree, SetShared, AfterOpen
<1>3. mutex' = [mutex EXCEPT ![ProcOf[c]] = x]
  BY <1>f DEF OpenEnvironment, Leave, Shared, AfterOpen
<1>n. b.nRef = Shared(c).nRef /\ Shared(c).nRef \in Int
  BY <1>f DEF Uncounted
<1>p. r.pc # "closed" /\ btree[c].pc # "closed"
  BY <1>f DEF OpenEnvironment, Btrees, AfterOpen
<1>4. Counts(c, r, b)
  BY <1>n, <1>p DEF Counts, Refs, Shared
<1>5. MutexFollows => KeepsMutex(c, r, x)
  BY <1>f DEF OpenEnvironment, KeepsMutex, MutexFollows, HasMutex, Opening
<1>6. HandlesInv => KeepsHandles(c, r, b)
  BY <1>f DEF OpenEnvironment, KeepsHandles, HandlesInv, Fits, Shared
<1> QED BY <1>1, <1>2, <1>3, <1>4, <1>5, <1>6 DEF IsGood, Good, ConnStep

LEMMA ResetLsnsGood ==
  ASSUME EnvInv, NEW c \in Conns, ResetLsns(c)
  PROVE  IsGood(c)
<1> DEFINE r == [btree[c] EXCEPT !.pc = "meta"]
           b == [Shared(c) EXCEPT !.reset = FALSE]
           x == mutex[ProcOf[c]]
<1>f. /\ ProcOf[c] \in Procs /\ btree[c] \in Btrees /\ Shared(c) \in BtShareds
      /\ Shared(c) \in Uncounted
      /\ c # Nobody /\ mutex[ProcOf[c]] \in Conns \cup {Nobody}
      /\ btree = [btree EXCEPT ![c] = btree[c]]
      /\ bt = [bt EXCEPT ![ProcOf[c]] = Shared(c)]
      /\ mutex = [mutex EXCEPT ![ProcOf[c]] = mutex[ProcOf[c]]]
  BY Facts
<1>r. r \in Btrees
  BY <1>f DEF ResetLsns, Btrees, Opening
<1>b. b \in Uncounted
  BY <1>f DEF Uncounted
<1>1. r \in Btrees /\ b \in Uncounted /\ x \in {c, Nobody, mutex[ProcOf[c]]}
  BY <1>r, <1>b
<1>2. btree' = [btree EXCEPT ![c] = r] /\ bt' = [bt EXCEPT ![ProcOf[c]] = b]
  BY <1>f DEF ResetLsns, SetBtree, SetShared
<1>3. mutex' = [mutex EXCEPT ![ProcOf[c]] = x]
  BY <1>f DEF ResetLsns, Shared
<1>n. b.nRef = Shared(c).nRef /\ Shared(c).nRef \in Int
  BY <1>f DEF Uncounted
<1>p. r.pc # "closed" /\ btree[c].pc # "closed"
  BY <1>f DEF ResetLsns, Btrees
<1>4. Counts(c, r, b)
  BY <1>n, <1>p DEF Counts, Refs, Shared
<1>5. MutexFollows => KeepsMutex(c, r, x)
  BY <1>f DEF ResetLsns, KeepsMutex, MutexFollows, HasMutex, Opening
<1>6. HandlesInv => KeepsHandles(c, r, b)
  BY <1>f DEF ResetLsns, KeepsHandles, HandlesInv, Fits, Shared
<1> QED BY <1>1, <1>2, <1>3, <1>4, <1>5, <1>6 DEF IsGood, Good, ConnStep

LEMMA OpenMetaTablesGood ==
  ASSUME EnvInv, NEW c \in Conns, OpenMetaTables(c)
  PROVE  IsGood(c)
<1> DEFINE r == [btree[c] EXCEPT !.pc = IF ~Shared(c).meta /\ file.tables = {}
                       THEN "last" ELSE "begin"]
           b == [Shared(c) EXCEPT !.meta = TRUE]
           x == mutex[ProcOf[c]]
<1>f. /\ ProcOf[c] \in Procs /\ btree[c] \in Btrees /\ Shared(c) \in BtShareds
      /\ Shared(c) \in Uncounted
      /\ c # Nobody /\ mutex[ProcOf[c]] \in Conns \cup {Nobody}
      /\ btree = [btree EXCEPT ![c] = btree[c]]
      /\ bt = [bt EXCEPT ![ProcOf[c]] = Shared(c)]
      /\ mutex = [mutex EXCEPT ![ProcOf[c]] = mutex[ProcOf[c]]]
  BY Facts
<1>r. r \in Btrees
  BY <1>f DEF OpenMetaTables, Btrees, Opening
<1>b. b \in Uncounted
  BY <1>f DEF Uncounted
<1>1. r \in Btrees /\ b \in Uncounted /\ x \in {c, Nobody, mutex[ProcOf[c]]}
  BY <1>r, <1>b
<1>2. btree' = [btree EXCEPT ![c] = r] /\ bt' = [bt EXCEPT ![ProcOf[c]] = b]
  BY <1>f DEF OpenMetaTables, SetBtree, SetShared
<1>3. mutex' = [mutex EXCEPT ![ProcOf[c]] = x]
  BY <1>f DEF OpenMetaTables, Shared
<1>n. b.nRef = Shared(c).nRef /\ Shared(c).nRef \in Int
  BY <1>f DEF Uncounted
<1>p. r.pc # "closed" /\ btree[c].pc # "closed"
  BY <1>f DEF OpenMetaTables, Btrees
<1>4. Counts(c, r, b)
  BY <1>n, <1>p DEF Counts, Refs, Shared
<1>5. MutexFollows => KeepsMutex(c, r, x)
  BY <1>f DEF OpenMetaTables, KeepsMutex, MutexFollows, HasMutex, Opening
<1>6. HandlesInv => KeepsHandles(c, r, b)
  BY <1>f DEF OpenMetaTables, KeepsHandles, HandlesInv, Fits, Shared
<1> QED BY <1>1, <1>2, <1>3, <1>4, <1>5, <1>6 DEF IsGood, Good, ConnStep

LEMMA LastTableGood ==
  ASSUME EnvInv, NEW c \in Conns, LastTable(c)
  PROVE  IsGood(c)
<1> DEFINE r == [btree[c] EXCEPT !.pc = "create", !.next = IF file.tables = {}
                       THEN MasterRoot ELSE 3]
           b == Shared(c)
           x == mutex[ProcOf[c]]
<1>f. /\ ProcOf[c] \in Procs /\ btree[c] \in Btrees /\ Shared(c) \in BtShareds
      /\ Shared(c) \in Uncounted
      /\ c # Nobody /\ mutex[ProcOf[c]] \in Conns \cup {Nobody}
      /\ btree = [btree EXCEPT ![c] = btree[c]]
      /\ bt = [bt EXCEPT ![ProcOf[c]] = Shared(c)]
      /\ mutex = [mutex EXCEPT ![ProcOf[c]] = mutex[ProcOf[c]]]
  BY Facts
<1>r. r \in Btrees
  BY <1>f DEF LastTable, Btrees, Opening, MasterRoot
<1>b. b \in Uncounted
  BY <1>f DEF Uncounted
<1>1. r \in Btrees /\ b \in Uncounted /\ x \in {c, Nobody, mutex[ProcOf[c]]}
  BY <1>r, <1>b
<1>2. btree' = [btree EXCEPT ![c] = r] /\ bt' = [bt EXCEPT ![ProcOf[c]] = b]
  BY <1>f DEF LastTable, SetBtree
<1>3. mutex' = [mutex EXCEPT ![ProcOf[c]] = x]
  BY <1>f DEF LastTable, Shared
<1>n. b.nRef = Shared(c).nRef /\ Shared(c).nRef \in Int
  BY <1>f DEF Uncounted
<1>p. r.pc # "closed" /\ btree[c].pc # "closed"
  BY <1>f DEF LastTable, Btrees
<1>4. Counts(c, r, b)
  BY <1>n, <1>p DEF Counts, Refs, Shared
<1>5. MutexFollows => KeepsMutex(c, r, x)
  BY <1>f DEF LastTable, KeepsMutex, MutexFollows, HasMutex, Opening
<1>6. HandlesInv => KeepsHandles(c, r, b)
  BY <1>f DEF LastTable, KeepsHandles, HandlesInv, Fits, Shared
<1> QED BY <1>1, <1>2, <1>3, <1>4, <1>5, <1>6 DEF IsGood, Good, ConnStep

LEMMA CreateTableGood ==
  ASSUME EnvInv, NEW c \in Conns, CreateTable(c)
  PROVE  IsGood(c)
<1> DEFINE r == [btree[c] EXCEPT !.pc = "begin", !.next = MasterRoot]
           b == Shared(c)
           x == mutex[ProcOf[c]]
<1>f. /\ ProcOf[c] \in Procs /\ btree[c] \in Btrees /\ Shared(c) \in BtShareds
      /\ Shared(c) \in Uncounted
      /\ c # Nobody /\ mutex[ProcOf[c]] \in Conns \cup {Nobody}
      /\ btree = [btree EXCEPT ![c] = btree[c]]
      /\ bt = [bt EXCEPT ![ProcOf[c]] = Shared(c)]
      /\ mutex = [mutex EXCEPT ![ProcOf[c]] = mutex[ProcOf[c]]]
  BY Facts
<1>r. r \in Btrees
  BY <1>f DEF CreateTable, Btrees, Opening, MasterRoot
<1>b. b \in Uncounted
  BY <1>f DEF Uncounted
<1>1. r \in Btrees /\ b \in Uncounted /\ x \in {c, Nobody, mutex[ProcOf[c]]}
  BY <1>r, <1>b
<1>2. btree' = [btree EXCEPT ![c] = r] /\ bt' = [bt EXCEPT ![ProcOf[c]] = b]
  BY <1>f DEF CreateTable, SetBtree
<1>3. mutex' = [mutex EXCEPT ![ProcOf[c]] = x]
  BY <1>f DEF CreateTable, Shared
<1>n. b.nRef = Shared(c).nRef /\ Shared(c).nRef \in Int
  BY <1>f DEF Uncounted
<1>p. r.pc # "closed" /\ btree[c].pc # "closed"
  BY <1>f DEF CreateTable, Btrees
<1>4. Counts(c, r, b)
  BY <1>n, <1>p DEF Counts, Refs, Shared
<1>5. MutexFollows => KeepsMutex(c, r, x)
  BY <1>f DEF CreateTable, KeepsMutex, MutexFollows, HasMutex, Opening
<1>6. HandlesInv => KeepsHandles(c, r, b)
  BY <1>f DEF CreateTable, KeepsHandles, HandlesInv, Fits, Shared
<1> QED BY <1>1, <1>2, <1>3, <1>4, <1>5, <1>6 DEF IsGood, Good, ConnStep

LEMMA BegunKeeps ==
  ASSUME NEW r \in Btrees
  PROVE  /\ Begun(r) \in Btrees
         /\ Begun(r).pc = r.pc /\ Begun(r).connected = r.connected
         /\ Begun(r).family = r.family
BY DEF Begun, Btrees

LEMMA StartedIs ==
  ASSUME NEW c, btree[c] \in Btrees
  PROVE  Started(c) \in Btrees /\ Started(c).pc = "idle" /\ Started(c).family
<1> DEFINE s == [btree[c] EXCEPT !.pc = "idle", !.family = TRUE, !.inTrans = "NONE",
                                 !.fresh = FALSE]
           w == [s EXCEPT !.caller = "WRITE"]
<1>1. s \in Btrees /\ s.pc = "idle" /\ s.family
  BY DEF Btrees
<1>2. w \in Btrees /\ w.pc = "idle" /\ w.family
  BY <1>1 DEF Btrees
<1>3. Started(c) \in {s, Begun(s), Begun(w)}
  BY DEF Started
<1> HIDE DEF s, w
<1> QED BY <1>1, <1>2, <1>3, BegunKeeps

LEMMA FinishOpenGood ==
  ASSUME EnvInv, NEW c \in Conns, FinishOpen(c)
  PROVE  IsGood(c)
<1> DEFINE r == Started(c)
           b == Shared(c)
           x == IF mutex[ProcOf[c]] = c THEN Nobody ELSE mutex[ProcOf[c]]
<1>f. /\ ProcOf[c] \in Procs /\ btree[c] \in Btrees /\ Shared(c) \in BtShareds
      /\ Shared(c) \in Uncounted
      /\ c # Nobody /\ mutex[ProcOf[c]] \in Conns \cup {Nobody}
      /\ btree = [btree EXCEPT ![c] = btree[c]]
      /\ bt = [bt EXCEPT ![ProcOf[c]] = Shared(c)]
      /\ mutex = [mutex EXCEPT ![ProcOf[c]] = mutex[ProcOf[c]]]
  BY Facts
<1>r. r \in Btrees
  BY <1>f, StartedIs DEF FinishOpen, Btrees, Opening
<1>b. b \in Uncounted
  BY <1>f, StartedIs DEF Uncounted
<1>1. r \in Btrees /\ b \in Uncounted /\ x \in {c, Nobody, mutex[ProcOf[c]]}
  BY <1>r, <1>b
<1>2. btree' = [btree EXCEPT ![c] = r] /\ bt' = [bt EXCEPT ![ProcOf[c]] = b]
  BY <1>f DEF FinishOpen, SetBtree
<1>3. mutex' = [mutex EXCEPT ![ProcOf[c]] = x]
  BY <1>f DEF FinishOpen, Leave, Shared
<1>n. b.nRef = Shared(c).nRef /\ Shared(c).nRef \in Int
  BY <1>f, StartedIs DEF Uncounted
<1>p. r.pc # "closed" /\ btree[c].pc # "closed"
  BY <1>f, StartedIs DEF FinishOpen, Btrees
<1>4. Counts(c, r, b)
  BY <1>n, <1>p DEF Counts, Refs, Shared
<1>5. MutexFollows => KeepsMutex(c, r, x)
  BY <1>f, StartedIs DEF FinishOpen, KeepsMutex, MutexFollows, HasMutex, Opening
<1>6. HandlesInv => KeepsHandles(c, r, b)
  BY <1>f, StartedIs DEF FinishOpen, KeepsHandles, HandlesInv, Fits, Shared
<1> QED BY <1>1, <1>2, <1>3, <1>4, <1>5, <1>6 DEF IsGood, Good, ConnStep

-----------------------------------------------------------------------------

LEMMA BtreeOpenFirstGood ==
  ASSUME EnvInv, NEW c \in Conns, BtreeOpenFirst(c)
  PROVE  IsGood(c)
<1> DEFINE r == [NewBtree EXCEPT !.pc = "idle"]
           b == [NoBtShared EXCEPT !.nRef = 1, !.existed = file.made]
           x == mutex[ProcOf[c]]
<1>f. /\ ProcOf[c] \in Procs /\ btree[c] \in Btrees /\ Shared(c) \in BtShareds
      /\ Shared(c) \in Uncounted
      /\ c # Nobody /\ mutex[ProcOf[c]] \in Conns \cup {Nobody}
      /\ btree = [btree EXCEPT ![c] = btree[c]]
      /\ bt = [bt EXCEPT ![ProcOf[c]] = Shared(c)]
      /\ mutex = [mutex EXCEPT ![ProcOf[c]] = mutex[ProcOf[c]]]
  BY Facts
<1>r. r \in Btrees
  BY <1>f, ZenonT(60) DEF BtreeOpenFirst, Btrees, Opening, NewBtree, NoCookie
<1>b. b \in Uncounted
  <2>1. NoBtShared \in Uncounted /\ file.made \in BOOLEAN
    BY DEF Uncounted, NoBtShared, EnvInv, BdbEnvTypeOK, Files
  <2>2. [NoBtShared EXCEPT !.nRef = 1] \in Uncounted
    BY <2>1 DEF Uncounted
  <2>3. \A s \in Uncounted, e \in BOOLEAN : [s EXCEPT !.existed = e] \in Uncounted
    BY DEF Uncounted
  <2>4. b = [[NoBtShared EXCEPT !.nRef = 1] EXCEPT !.existed = file.made]
    OBVIOUS
  <2> QED BY <2>1, <2>2, <2>3, <2>4
<1>1. r \in Btrees /\ b \in Uncounted /\ x \in {c, Nobody, mutex[ProcOf[c]]}
  BY <1>r, <1>b
<1>2. btree' = [btree EXCEPT ![c] = r] /\ bt' = [bt EXCEPT ![ProcOf[c]] = b]
  BY <1>f DEF BtreeOpenFirst, SetBtree, SetShared, NewBtree
<1>3. mutex' = [mutex EXCEPT ![ProcOf[c]] = x]
  BY <1>f DEF BtreeOpenFirst, Free, Shared, NewBtree
<1>n. b.nRef = Shared(c).nRef + 1 /\ Shared(c).nRef \in Int
  BY <1>f DEF Uncounted, NoBtShared, NoCookie, BtreeOpenFirst, EnvInv, BdbEnvTypeOK, Files
<1>p. r.pc # "closed" /\ btree[c].pc = "closed"
  BY <1>f DEF BtreeOpenFirst, Btrees, NewBtree
<1>4. Counts(c, r, b)
  BY <1>n, <1>p DEF Counts, Refs, Shared
<1>a. Shared(c).nRef = 0 \/ (Shared(c).nRef = 1 /\ btree[c].pc # "closed")
        => Users(ProcOf[c]) \subseteq {c}
  BY Alone
<1>5. MutexFollows => KeepsMutex(c, r, x)
  BY <1>f DEF BtreeOpenFirst, KeepsMutex, MutexFollows, HasMutex, Opening, Free, NewBtree
<1>6. HandlesInv => KeepsHandles(c, r, b)
  BY <1>f, <1>a DEF BtreeOpenFirst, KeepsHandles, HandlesInv, Fits, Shared, NewBtree
<1> QED BY <1>1, <1>2, <1>3, <1>4, <1>5, <1>6 DEF IsGood, Good, ConnStep

LEMMA BtreeOpenAgainGood ==
  ASSUME EnvInv, NEW c \in Conns, BtreeOpenAgain(c)
  PROVE  IsGood(c)
<1> DEFINE r == [NewBtree EXCEPT !.pc = "mkdir"]
           b == [Shared(c) EXCEPT !.nRef = @ + 1]
           x == c
<1>f. /\ ProcOf[c] \in Procs /\ btree[c] \in Btrees /\ Shared(c) \in BtShareds
      /\ Shared(c) \in Uncounted
      /\ c # Nobody /\ mutex[ProcOf[c]] \in Conns \cup {Nobody}
      /\ btree = [btree EXCEPT ![c] = btree[c]]
      /\ bt = [bt EXCEPT ![ProcOf[c]] = Shared(c)]
      /\ mutex = [mutex EXCEPT ![ProcOf[c]] = mutex[ProcOf[c]]]
  BY Facts
<1>r. r \in Btrees
  BY <1>f DEF BtreeOpenAgain, Btrees, Opening, NewBtree, NoCookie
<1>b. b \in Uncounted
  BY <1>f DEF Uncounted
<1>1. r \in Btrees /\ b \in Uncounted /\ x \in {c, Nobody, mutex[ProcOf[c]]}
  BY <1>r, <1>b
<1>2. btree' = [btree EXCEPT ![c] = r] /\ bt' = [bt EXCEPT ![ProcOf[c]] = b]
  BY <1>f DEF BtreeOpenAgain, SetBtree, SetShared, NewBtree
<1>3. mutex' = [mutex EXCEPT ![ProcOf[c]] = x]
  BY <1>f DEF BtreeOpenAgain, Take, Free, Shared, NewBtree
<1>n. b.nRef = Shared(c).nRef + 1 /\ Shared(c).nRef \in Int
  BY <1>f DEF Uncounted
<1>p. r.pc # "closed" /\ btree[c].pc = "closed"
  BY <1>f DEF BtreeOpenAgain, Btrees, NewBtree
<1>4. Counts(c, r, b)
  BY <1>n, <1>p DEF Counts, Refs, Shared
<1>5. MutexFollows => KeepsMutex(c, r, x)
  BY <1>f DEF BtreeOpenAgain, KeepsMutex, MutexFollows, HasMutex, Opening, Free, NewBtree
<1>6. HandlesInv => KeepsHandles(c, r, b)
  BY <1>f DEF BtreeOpenAgain, KeepsHandles, HandlesInv, Fits, Shared, NewBtree
<1> QED BY <1>1, <1>2, <1>3, <1>4, <1>5, <1>6 DEF IsGood, Good, ConnStep

LEMMA BeginTransGood ==
  ASSUME EnvInv, NEW c \in Conns, NEW mode \in {"READ", "WRITE"}, BeginTrans(c, mode)
  PROVE  IsGood(c)
<1> DEFINE r == IF btree[c].connected THEN Begun([btree[c] EXCEPT !.caller = mode])
                ELSE [btree[c] EXCEPT !.caller = mode, !.pc = "enter",
                                      !.inTrans = IF mode = "WRITE" \/ @ = "WRITE"
                                                  THEN "WRITE" ELSE "READ"]
           b == Shared(c)
           x == mutex[ProcOf[c]]
<1>f. /\ ProcOf[c] \in Procs /\ btree[c] \in Btrees /\ Shared(c) \in BtShareds
      /\ Shared(c) \in Uncounted
      /\ c # Nobody /\ mutex[ProcOf[c]] \in Conns \cup {Nobody}
      /\ btree = [btree EXCEPT ![c] = btree[c]]
      /\ bt = [bt EXCEPT ![ProcOf[c]] = Shared(c)]
      /\ mutex = [mutex EXCEPT ![ProcOf[c]] = mutex[ProcOf[c]]]
  BY Facts
<1>r. r \in Btrees
  BY <1>f, ZenonT(60) DEF BeginTrans, Btrees, Opening, Begun
<1>b. b \in Uncounted
  BY <1>f DEF Uncounted
<1>1. r \in Btrees /\ b \in Uncounted /\ x \in {c, Nobody, mutex[ProcOf[c]]}
  BY <1>r, <1>b
<1>2. btree' = [btree EXCEPT ![c] = r] /\ bt' = [bt EXCEPT ![ProcOf[c]] = b]
  BY <1>f DEF BeginTrans, SetBtree, Begun
<1>3. mutex' = [mutex EXCEPT ![ProcOf[c]] = x]
  BY <1>f DEF BeginTrans, Shared, Begun
<1>n. b.nRef = Shared(c).nRef /\ Shared(c).nRef \in Int
  BY <1>f DEF Uncounted
<1>p. r.pc # "closed" /\ btree[c].pc # "closed"
  BY <1>f DEF BeginTrans, Btrees, Idle, Begun
<1>4. Counts(c, r, b)
  BY <1>n, <1>p DEF Counts, Refs, Shared
<1>5. MutexFollows => KeepsMutex(c, r, x)
  BY <1>f DEF BeginTrans, KeepsMutex, MutexFollows, HasMutex, Opening, Idle, Begun
<1>6. HandlesInv => KeepsHandles(c, r, b)
  BY <1>f DEF BeginTrans, KeepsHandles, HandlesInv, Fits, Shared, Idle, Begun
<1> QED BY <1>1, <1>2, <1>3, <1>4, <1>5, <1>6 DEF IsGood, Good, ConnStep

LEMMA OpenFailsGood ==
  ASSUME EnvInv, NEW c \in Conns, OpenFails(c)
  PROVE  IsGood(c)
<1> DEFINE r == IF btree[c].caller = "OPEN" THEN NewBtree
                ELSE [btree[c] EXCEPT !.pc = "idle", !.connected = FALSE,
                                      !.caller = "OPEN", !.fresh = FALSE]
           b == [Shared(c) EXCEPT !.panic = TRUE,
                                !.nRef = IF btree[c].caller = "OPEN" THEN @ - 1 ELSE @]
           x == IF mutex[ProcOf[c]] = c THEN Nobody ELSE mutex[ProcOf[c]]
<1>f. /\ ProcOf[c] \in Procs /\ btree[c] \in Btrees /\ Shared(c) \in BtShareds
      /\ Shared(c) \in Uncounted
      /\ c # Nobody /\ mutex[ProcOf[c]] \in Conns \cup {Nobody}
      /\ btree = [btree EXCEPT ![c] = btree[c]]
      /\ bt = [bt EXCEPT ![ProcOf[c]] = Shared(c)]
      /\ mutex = [mutex EXCEPT ![ProcOf[c]] = mutex[ProcOf[c]]]
  BY Facts
<1>r. r \in Btrees
  BY <1>f DEF OpenFails, Btrees, Opening, NewBtree, NoCookie
<1>b. b \in Uncounted
  <2>1. \A k \in Int : [Shared(c) EXCEPT !.panic = TRUE, !.nRef = k] \in Uncounted
    BY <1>f DEF Uncounted
  <2>2. Shared(c).nRef \in Int
    BY <1>f DEF Uncounted
  <2>3. (IF btree[c].caller = "OPEN" THEN Shared(c).nRef - 1 ELSE Shared(c).nRef) \in Int
    BY <2>2
  <2> QED BY <2>1, <2>3
<1>1. r \in Btrees /\ b \in Uncounted /\ x \in {c, Nobody, mutex[ProcOf[c]]}
  BY <1>r, <1>b
<1>2. btree' = [btree EXCEPT ![c] = r] /\ bt' = [bt EXCEPT ![ProcOf[c]] = b]
  BY <1>f DEF OpenFails, SetBtree, SetShared, NewBtree, Failed, NoCookie
<1>3. mutex' = [mutex EXCEPT ![ProcOf[c]] = x]
  BY <1>f DEF OpenFails, Leave, Shared, NewBtree, Failed, NoCookie
<1>n. /\ b.nRef = Shared(c).nRef + (IF btree[c].caller = "OPEN" THEN -1 ELSE 0)
      /\ Shared(c).nRef \in Int
  BY <1>f DEF Uncounted
<1>p. btree[c].pc # "closed" /\ (r.pc = "closed" <=> btree[c].caller = "OPEN")
  BY <1>f DEF OpenFails, Btrees, NewBtree, Failed, NoCookie
<1>4. Counts(c, r, b)
  BY <1>n, <1>p DEF Counts, Refs, Shared
<1>5. MutexFollows => KeepsMutex(c, r, x)
  BY <1>f DEF OpenFails, KeepsMutex, MutexFollows, HasMutex, Opening, NewBtree, Failed
<1>6. HandlesInv => KeepsHandles(c, r, b)
  BY <1>f DEF OpenFails, KeepsHandles, HandlesInv, Fits, Shared, NewBtree, Failed
<1> QED BY <1>1, <1>2, <1>3, <1>4, <1>5, <1>6 DEF IsGood, Good, ConnStep

LEMMA OpenMetaFailsGood ==
  ASSUME EnvInv, NEW c \in Conns, OpenMetaFails(c)
  PROVE  IsGood(c)
<1> DEFINE r == IF btree[c].caller = "OPEN" THEN NewBtree
                ELSE [btree[c] EXCEPT !.pc = "idle", !.connected = FALSE,
                                      !.caller = "OPEN", !.fresh = FALSE]
           b == [Shared(c) EXCEPT !.meta = FALSE, !.panic = TRUE,
                                !.nRef = IF btree[c].caller = "OPEN" THEN @ - 1 ELSE @]
           x == IF mutex[ProcOf[c]] = c THEN Nobody ELSE mutex[ProcOf[c]]
<1>f. /\ ProcOf[c] \in Procs /\ btree[c] \in Btrees /\ Shared(c) \in BtShareds
      /\ Shared(c) \in Uncounted
      /\ c # Nobody /\ mutex[ProcOf[c]] \in Conns \cup {Nobody}
      /\ btree = [btree EXCEPT ![c] = btree[c]]
      /\ bt = [bt EXCEPT ![ProcOf[c]] = Shared(c)]
      /\ mutex = [mutex EXCEPT ![ProcOf[c]] = mutex[ProcOf[c]]]
  BY Facts
<1>r. r \in Btrees
  BY <1>f DEF OpenMetaFails, Btrees, Opening, NewBtree, NoCookie
<1>b. b \in Uncounted
  <2>1. \A k \in Int :
            [Shared(c) EXCEPT !.meta = FALSE, !.panic = TRUE, !.nRef = k] \in Uncounted
    BY <1>f DEF Uncounted
  <2>2. Shared(c).nRef \in Int
    BY <1>f DEF Uncounted
  <2>3. (IF btree[c].caller = "OPEN" THEN Shared(c).nRef - 1 ELSE Shared(c).nRef) \in Int
    BY <2>2
  <2> QED BY <2>1, <2>3
<1>1. r \in Btrees /\ b \in Uncounted /\ x \in {c, Nobody, mutex[ProcOf[c]]}
  BY <1>r, <1>b
<1>2. btree' = [btree EXCEPT ![c] = r] /\ bt' = [bt EXCEPT ![ProcOf[c]] = b]
  BY <1>f DEF OpenMetaFails, SetBtree, SetShared, NewBtree, Failed, NoCookie
<1>3. mutex' = [mutex EXCEPT ![ProcOf[c]] = x]
  BY <1>f DEF OpenMetaFails, Leave, Shared, NewBtree, Failed, NoCookie
<1>n. /\ b.nRef = Shared(c).nRef + (IF btree[c].caller = "OPEN" THEN -1 ELSE 0)
      /\ Shared(c).nRef \in Int
  BY <1>f DEF Uncounted
<1>p. btree[c].pc # "closed" /\ (r.pc = "closed" <=> btree[c].caller = "OPEN")
  BY <1>f DEF OpenMetaFails, Btrees, NewBtree, Failed, NoCookie
<1>4. Counts(c, r, b)
  BY <1>n, <1>p DEF Counts, Refs, Shared
<1>5. MutexFollows => KeepsMutex(c, r, x)
  BY <1>f DEF OpenMetaFails, KeepsMutex, MutexFollows, HasMutex, Opening, NewBtree, Failed
<1>6. "metaFails" \notin Mishaps /\ HandlesInv => KeepsHandles(c, r, b)
  BY <1>f DEF OpenMetaFails, KeepsHandles, HandlesInv, Fits, Shared, NewBtree, Failed
<1> QED BY <1>1, <1>2, <1>3, <1>4, <1>5, <1>6 DEF IsGood, Good, ConnStep

LEMMA FamilyFailsGood ==
  ASSUME EnvInv, NEW c \in Conns, FamilyFails(c)
  PROVE  IsGood(c)
<1> DEFINE r == IF btree[c].caller = "OPEN"
                   THEN NewBtree ELSE [btree[c] EXCEPT !.pc = "idle", !.inTrans = "NONE"]
           b == [Shared(c) EXCEPT !.nRef = IF btree[c].caller = "OPEN" THEN @ - 1 ELSE @]
           x == IF btree[c].caller = "OPEN" /\ mutex[ProcOf[c]] = c
                   THEN Nobody ELSE mutex[ProcOf[c]]
<1>f. /\ ProcOf[c] \in Procs /\ btree[c] \in Btrees /\ Shared(c) \in BtShareds
      /\ Shared(c) \in Uncounted
      /\ c # Nobody /\ mutex[ProcOf[c]] \in Conns \cup {Nobody}
      /\ btree = [btree EXCEPT ![c] = btree[c]]
      /\ bt = [bt EXCEPT ![ProcOf[c]] = Shared(c)]
      /\ mutex = [mutex EXCEPT ![ProcOf[c]] = mutex[ProcOf[c]]]
  BY Facts
<1>r. r \in Btrees
  BY <1>f DEF FamilyFails, Btrees, Opening, NewBtree, NoCookie
<1>b. b \in Uncounted
  BY <1>f DEF Uncounted
<1>1. r \in Btrees /\ b \in Uncounted /\ x \in {c, Nobody, mutex[ProcOf[c]]}
  BY <1>r, <1>b
<1>2. btree' = [btree EXCEPT ![c] = r] /\ bt' = [bt EXCEPT ![ProcOf[c]] = b]
  BY <1>f DEF FamilyFails, SetBtree, SetShared, NewBtree, NoCookie
<1>3. mutex' = [mutex EXCEPT ![ProcOf[c]] = x]
  BY <1>f DEF FamilyFails, Leave, Shared, NewBtree, NoCookie
<1>n. /\ b.nRef = Shared(c).nRef + (IF btree[c].caller = "OPEN" THEN -1 ELSE 0)
      /\ Shared(c).nRef \in Int
  BY <1>f DEF Uncounted
<1>p. btree[c].pc # "closed" /\ (r.pc = "closed" <=> btree[c].caller = "OPEN")
  BY <1>f DEF FamilyFails, Btrees, NewBtree, NoCookie
<1>4. Counts(c, r, b)
  BY <1>n, <1>p DEF Counts, Refs, Shared
<1>5. "familyFails" \notin Mishaps /\ MutexFollows => KeepsMutex(c, r, x)
  BY <1>f DEF FamilyFails, KeepsMutex, MutexFollows, HasMutex, Opening, NewBtree
<1>6. "familyFails" \notin Mishaps /\ HandlesInv => KeepsHandles(c, r, b)
  BY <1>f DEF FamilyFails, KeepsHandles, HandlesInv, Fits, Shared, NewBtree
<1> QED BY <1>1, <1>2, <1>3, <1>4, <1>5, <1>6 DEF IsGood, Good, ConnStep

-----------------------------------------------------------------------------

LEMMA UpdateMetaGood ==
  ASSUME EnvInv, NEW c \in Conns, UpdateMeta(c)
  PROVE  IsGood(c)
<1> DEFINE r == [btree[c] EXCEPT !.mine = (IF btree[c].mine = NoCookie
                       THEN cookie ELSE btree[c].mine) + 1]
           b == [Shared(c) EXCEPT !.cached =
                   (IF btree[c].mine = NoCookie THEN cookie ELSE btree[c].mine) + 1]
           x == mutex[ProcOf[c]]
<1>f. /\ ProcOf[c] \in Procs /\ btree[c] \in Btrees /\ Shared(c) \in BtShareds
      /\ Shared(c) \in Uncounted
      /\ c # Nobody /\ mutex[ProcOf[c]] \in Conns \cup {Nobody}
      /\ btree = [btree EXCEPT ![c] = btree[c]]
      /\ bt = [bt EXCEPT ![ProcOf[c]] = Shared(c)]
      /\ mutex = [mutex EXCEPT ![ProcOf[c]] = mutex[ProcOf[c]]]
  BY Facts
<1>r. r \in Btrees
  BY <1>f DEF UpdateMeta, Btrees, Opening
<1>b. b \in Uncounted
  BY <1>f DEF Uncounted, UpdateMeta
<1>1. r \in Btrees /\ b \in Uncounted /\ x \in {c, Nobody, mutex[ProcOf[c]]}
  BY <1>r, <1>b
<1>2. btree' = [btree EXCEPT ![c] = r] /\ bt' = [bt EXCEPT ![ProcOf[c]] = b]
  BY <1>f DEF UpdateMeta, SetBtree, SetShared
<1>3. mutex' = [mutex EXCEPT ![ProcOf[c]] = x]
  BY <1>f DEF UpdateMeta, Shared
<1>n. b.nRef = Shared(c).nRef /\ Shared(c).nRef \in Int
  BY <1>f DEF Uncounted, UpdateMeta
<1>p. r.pc # "closed" /\ btree[c].pc # "closed"
  BY <1>f DEF UpdateMeta, Btrees, Idle, Active
<1>4. Counts(c, r, b)
  BY <1>n, <1>p DEF Counts, Refs, Shared
<1>5. MutexFollows => KeepsMutex(c, r, x)
  BY <1>f DEF UpdateMeta, KeepsMutex, MutexFollows, HasMutex, Opening, Idle, Active
<1>6. HandlesInv => KeepsHandles(c, r, b)
  BY <1>f DEF UpdateMeta, KeepsHandles, HandlesInv, Fits, Shared, Idle, Active
<1> QED BY <1>1, <1>2, <1>3, <1>4, <1>5, <1>6 DEF IsGood, Good, ConnStep

LEMMA GetMetaGood ==
  ASSUME EnvInv, NEW c \in Conns, GetMeta(c)
  PROVE  IsGood(c)
<1> DEFINE r == btree[c]
           b == [Shared(c) EXCEPT !.cached = IF btree[c].mine = NoCookie
                       THEN cookie ELSE btree[c].mine]
           x == mutex[ProcOf[c]]
<1>f. /\ ProcOf[c] \in Procs /\ btree[c] \in Btrees /\ Shared(c) \in BtShareds
      /\ Shared(c) \in Uncounted
      /\ c # Nobody /\ mutex[ProcOf[c]] \in Conns \cup {Nobody}
      /\ btree = [btree EXCEPT ![c] = btree[c]]
      /\ bt = [bt EXCEPT ![ProcOf[c]] = Shared(c)]
      /\ mutex = [mutex EXCEPT ![ProcOf[c]] = mutex[ProcOf[c]]]
  BY Facts
<1>r. r \in Btrees
  BY <1>f DEF GetMeta, Btrees, Opening
<1>b. b \in Uncounted
  BY <1>f DEF Uncounted, EnvInv, BdbEnvTypeOK, Btrees
<1>1. r \in Btrees /\ b \in Uncounted /\ x \in {c, Nobody, mutex[ProcOf[c]]}
  BY <1>r, <1>b
<1>2. btree' = [btree EXCEPT ![c] = r] /\ bt' = [bt EXCEPT ![ProcOf[c]] = b]
  BY <1>f DEF GetMeta, SetShared
<1>3. mutex' = [mutex EXCEPT ![ProcOf[c]] = x]
  BY <1>f DEF GetMeta, Shared
<1>n. b.nRef = Shared(c).nRef /\ Shared(c).nRef \in Int
  BY <1>f DEF Uncounted, EnvInv, BdbEnvTypeOK, Btrees
<1>p. r.pc # "closed" /\ btree[c].pc # "closed"
  BY <1>f DEF GetMeta, Btrees, Idle, Active
<1>4. Counts(c, r, b)
  BY <1>n, <1>p DEF Counts, Refs, Shared
<1>5. MutexFollows => KeepsMutex(c, r, x)
  BY <1>f DEF GetMeta, KeepsMutex, MutexFollows, HasMutex, Opening, Idle, Active
<1>6. HandlesInv => KeepsHandles(c, r, b)
  BY <1>f DEF GetMeta, KeepsHandles, HandlesInv, Fits, Shared, Idle, Active
<1> QED BY <1>1, <1>2, <1>3, <1>4, <1>5, <1>6 DEF IsGood, Good, ConnStep

LEMMA CommitGood ==
  ASSUME EnvInv, NEW c \in Conns, Commit(c)
  PROVE  IsGood(c)
<1> DEFINE r == Ended(btree[c])
           b == Shared(c)
           x == mutex[ProcOf[c]]
<1>f. /\ ProcOf[c] \in Procs /\ btree[c] \in Btrees /\ Shared(c) \in BtShareds
      /\ Shared(c) \in Uncounted
      /\ c # Nobody /\ mutex[ProcOf[c]] \in Conns \cup {Nobody}
      /\ btree = [btree EXCEPT ![c] = btree[c]]
      /\ bt = [bt EXCEPT ![ProcOf[c]] = Shared(c)]
      /\ mutex = [mutex EXCEPT ![ProcOf[c]] = mutex[ProcOf[c]]]
  BY Facts
<1>r. r \in Btrees
  BY <1>f DEF Commit, Btrees, Opening, Ended
<1>b. b \in Uncounted
  BY <1>f DEF Uncounted
<1>1. r \in Btrees /\ b \in Uncounted /\ x \in {c, Nobody, mutex[ProcOf[c]]}
  BY <1>r, <1>b
<1>2. btree' = [btree EXCEPT ![c] = r] /\ bt' = [bt EXCEPT ![ProcOf[c]] = b]
  BY <1>f DEF Commit, SetBtree, Ended
<1>3. mutex' = [mutex EXCEPT ![ProcOf[c]] = x]
  BY <1>f DEF Commit, Shared, Ended
<1>n. b.nRef = Shared(c).nRef /\ Shared(c).nRef \in Int
  BY <1>f DEF Uncounted
<1>p. r.pc # "closed" /\ btree[c].pc # "closed"
  BY <1>f DEF Commit, Btrees, Idle, Active, Ended
<1>4. Counts(c, r, b)
  BY <1>n, <1>p DEF Counts, Refs, Shared
<1>5. MutexFollows => KeepsMutex(c, r, x)
  BY <1>f DEF Commit, KeepsMutex, MutexFollows, HasMutex, Opening, Idle, Active, Ended
<1>6. HandlesInv => KeepsHandles(c, r, b)
  BY <1>f DEF Commit, KeepsHandles, HandlesInv, Fits, Shared, Idle, Active, Ended
<1> QED BY <1>1, <1>2, <1>3, <1>4, <1>5, <1>6 DEF IsGood, Good, ConnStep

LEMMA RollbackGood ==
  ASSUME EnvInv, NEW c \in Conns, Rollback(c)
  PROVE  IsGood(c)
<1> DEFINE r == IF btree[c].txn THEN Ended(btree[c]) ELSE btree[c]
           b == [Shared(c) EXCEPT !.panic = FALSE]
           x == mutex[ProcOf[c]]
<1>f. /\ ProcOf[c] \in Procs /\ btree[c] \in Btrees /\ Shared(c) \in BtShareds
      /\ Shared(c) \in Uncounted
      /\ c # Nobody /\ mutex[ProcOf[c]] \in Conns \cup {Nobody}
      /\ btree = [btree EXCEPT ![c] = btree[c]]
      /\ bt = [bt EXCEPT ![ProcOf[c]] = Shared(c)]
      /\ mutex = [mutex EXCEPT ![ProcOf[c]] = mutex[ProcOf[c]]]
  BY Facts
<1>r. r \in Btrees
  BY <1>f, ZenonT(60) DEF Rollback, Btrees, Opening, Ended
<1>b. b \in Uncounted
  BY <1>f DEF Uncounted
<1>1. r \in Btrees /\ b \in Uncounted /\ x \in {c, Nobody, mutex[ProcOf[c]]}
  BY <1>r, <1>b
<1>2. btree' = [btree EXCEPT ![c] = r] /\ bt' = [bt EXCEPT ![ProcOf[c]] = b]
  BY <1>f DEF Rollback, SetBtree, SetShared, Ended
<1>3. mutex' = [mutex EXCEPT ![ProcOf[c]] = x]
  BY <1>f DEF Rollback, Shared, Ended
<1>n. b.nRef = Shared(c).nRef /\ Shared(c).nRef \in Int
  BY <1>f DEF Uncounted
<1>p. r.pc # "closed" /\ btree[c].pc # "closed"
  BY <1>f DEF Rollback, Btrees, Idle, Ended
<1>4. Counts(c, r, b)
  BY <1>n, <1>p DEF Counts, Refs, Shared
<1>5. MutexFollows => KeepsMutex(c, r, x)
  BY <1>f DEF Rollback, KeepsMutex, MutexFollows, HasMutex, Opening, Idle, Ended
<1>6. HandlesInv => KeepsHandles(c, r, b)
  BY <1>f DEF Rollback, KeepsHandles, HandlesInv, Fits, Shared, Idle, Ended
<1> QED BY <1>1, <1>2, <1>3, <1>4, <1>5, <1>6 DEF IsGood, Good, ConnStep

LEMMA BtreeCloseGood ==
  ASSUME EnvInv, NEW c \in Conns, BtreeClose(c)
  PROVE  IsGood(c)
<1> DEFINE r == [Ended(btree[c]) EXCEPT !.pc = "closing", !.family = FALSE]
           b == [Shared(c) EXCEPT !.panic = @ /\ ~btree[c].txn]
           x == mutex[ProcOf[c]]
<1>f. /\ ProcOf[c] \in Procs /\ btree[c] \in Btrees /\ Shared(c) \in BtShareds
      /\ Shared(c) \in Uncounted
      /\ c # Nobody /\ mutex[ProcOf[c]] \in Conns \cup {Nobody}
      /\ btree = [btree EXCEPT ![c] = btree[c]]
      /\ bt = [bt EXCEPT ![ProcOf[c]] = Shared(c)]
      /\ mutex = [mutex EXCEPT ![ProcOf[c]] = mutex[ProcOf[c]]]
  BY Facts
<1>r. r \in Btrees
  BY <1>f DEF BtreeClose, Btrees, Opening, Ended
<1>b. b \in Uncounted
  BY <1>f DEF Uncounted, Btrees
<1>1. r \in Btrees /\ b \in Uncounted /\ x \in {c, Nobody, mutex[ProcOf[c]]}
  BY <1>r, <1>b
<1>2. btree' = [btree EXCEPT ![c] = r] /\ bt' = [bt EXCEPT ![ProcOf[c]] = b]
  BY <1>f DEF BtreeClose, SetBtree, SetShared, Ended
<1>3. mutex' = [mutex EXCEPT ![ProcOf[c]] = x]
  BY <1>f DEF BtreeClose, Shared, Ended
<1>n. b.nRef = Shared(c).nRef /\ Shared(c).nRef \in Int
  BY <1>f DEF Uncounted, Btrees
<1>p. r.pc # "closed" /\ btree[c].pc # "closed"
  BY <1>f DEF BtreeClose, Btrees, Idle, Ended
<1>4. Counts(c, r, b)
  BY <1>n, <1>p DEF Counts, Refs, Shared
<1>5. MutexFollows => KeepsMutex(c, r, x)
  BY <1>f DEF BtreeClose, KeepsMutex, MutexFollows, HasMutex, Opening, Idle, Ended
<1>6. HandlesInv => KeepsHandles(c, r, b)
  BY <1>f DEF BtreeClose, KeepsHandles, HandlesInv, Fits, Shared, Idle, Ended
<1> QED BY <1>1, <1>2, <1>3, <1>4, <1>5, <1>6 DEF IsGood, Good, ConnStep

LEMMA FinishCloseGood ==
  ASSUME EnvInv, NEW c \in Conns, FinishClose(c)
  PROVE  IsGood(c)
<1> DEFINE r == NewBtree
           b == Unreferenced(Shared(c))
           x == mutex[ProcOf[c]]
<1>f. /\ ProcOf[c] \in Procs /\ btree[c] \in Btrees /\ Shared(c) \in BtShareds
      /\ Shared(c) \in Uncounted
      /\ c # Nobody /\ mutex[ProcOf[c]] \in Conns \cup {Nobody}
      /\ btree = [btree EXCEPT ![c] = btree[c]]
      /\ bt = [bt EXCEPT ![ProcOf[c]] = Shared(c)]
      /\ mutex = [mutex EXCEPT ![ProcOf[c]] = mutex[ProcOf[c]]]
  BY Facts
<1>r. r \in Btrees
  BY <1>f DEF FinishClose, Btrees, Opening, NewBtree, NoCookie
<1>b. b \in Uncounted
  BY <1>f DEF Uncounted, Unreferenced, NoBtShared, NoCookie
<1>1. r \in Btrees /\ b \in Uncounted /\ x \in {c, Nobody, mutex[ProcOf[c]]}
  BY <1>r, <1>b
<1>2. btree' = [btree EXCEPT ![c] = r] /\ bt' = [bt EXCEPT ![ProcOf[c]] = b]
  BY <1>f DEF FinishClose, SetBtree, SetShared, NewBtree
<1>3. mutex' = [mutex EXCEPT ![ProcOf[c]] = x]
  BY <1>f DEF FinishClose, Free, Shared, NewBtree
<1>n. b.nRef = Shared(c).nRef - 1 /\ Shared(c).nRef \in Int
  BY <1>f DEF Uncounted, Unreferenced, NoBtShared, NoCookie
<1>p. r.pc = "closed" /\ btree[c].pc # "closed"
  BY <1>f DEF FinishClose, Btrees, NewBtree
<1>4. Counts(c, r, b)
  BY <1>n, <1>p DEF Counts, Refs, Shared
<1>a. Shared(c).nRef = 0 \/ (Shared(c).nRef = 1 /\ btree[c].pc # "closed")
        => Users(ProcOf[c]) \subseteq {c}
  BY Alone
<1>5. MutexFollows => KeepsMutex(c, r, x)
  BY <1>f
     DEF FinishClose, KeepsMutex, MutexFollows, HasMutex, Opening, Free, NewBtree,
         Unreferenced
<1>6. HandlesInv => KeepsHandles(c, r, b)
  BY <1>f, <1>a
     DEF FinishClose, KeepsHandles, HandlesInv, Fits, Shared, NewBtree, Unreferenced
<1> QED BY <1>1, <1>2, <1>3, <1>4, <1>5, <1>6 DEF IsGood, Good, ConnStep

-----------------------------------------------------------------------------
LEMMA ConnectionGood ==
  ASSUME EnvInv, NEW c \in Conns, OpenStep(c) \/ FailStep(c) \/ CallStep(c) \/ FinishClose(c)
  PROVE  IsGood(c)
<1>1. CASE OpenStep(c)
  BY <1>1, EnterGood, JoinEnvironmentGood, MakeDirectoryGood, OpenEnvironmentGood,
     ResetLsnsGood, OpenMetaTablesGood, LastTableGood, CreateTableGood, FinishOpenGood
     DEF OpenStep
<1>2. CASE FailStep(c)
  BY <1>2, OpenFailsGood, OpenMetaFailsGood, FamilyFailsGood DEF FailStep
<1>3. CASE CallStep(c)
  BY <1>3, BtreeOpenFirstGood, BtreeOpenAgainGood, BeginTransGood, UpdateMetaGood,
     GetMetaGood, CommitGood, RollbackGood, BtreeCloseGood
     DEF CallStep
<1>4. CASE FinishClose(c)
  BY <1>4, FinishCloseGood
<1> QED BY <1>1, <1>2, <1>3, <1>4

PlainTypes == /\ file \in Files /\ dir \in BOOLEAN
              /\ cookie \in Cookies /\ faults \in 0..MaxFaults

\* The steps of a connection keep the types of what all processes share.
LEMMA PlainStep ==
  ASSUME EnvInv, NEW c \in Conns, OpenStep(c) \/ FailStep(c) \/ CallStep(c) \/ FinishClose(c)
  PROVE  PlainTypes'
<1>t. PlainTypes /\ MaxFaults \in Nat
  BY BdbEnvAssumption DEF EnvInv, BdbEnvTypeOK, PlainTypes
<1>f. Shared(c) \in BtShareds /\ btree[c] \in Btrees
  BY Facts
<1>1. CASE UNCHANGED <<file, dir, cookie, faults>>
  BY <1>1, <1>t DEF PlainTypes
<1>2. CASE MakeDirectory(c)
  BY <1>2, <1>t DEF PlainTypes, MakeDirectory
<1>3. CASE ResetLsns(c)
  <2>1. file' \in Files
    BY <1>3, <1>t, <1>f DEF PlainTypes, ResetLsns, Files, BtShareds
  <2> QED BY <2>1, <1>3, <1>t DEF PlainTypes, ResetLsns
<1>4. CASE OpenMetaTables(c)
  <2>1. file' \in Files
    BY <1>4, <1>t DEF PlainTypes, OpenMetaTables, Files
  <2>2. cookie' \in Cookies
    BY <1>4, <1>t, <1>f DEF PlainTypes, OpenMetaTables, BtShareds
  <2> QED BY <2>1, <2>2, <1>4, <1>t DEF PlainTypes, OpenMetaTables
<1>5. CASE CreateTable(c)
  <2>1. btree[c].next \in {1, 3}
    BY <1>f DEF Btrees
  <2>2. file' \in Files
    BY <2>1, <1>5, <1>t DEF PlainTypes, CreateTable, Files
  <2> QED BY <2>2, <1>5, <1>t DEF PlainTypes, CreateTable
<1>6. CASE Commit(c)
  <2>1. btree[c].mine \in Cookies \cup {NoCookie}
    BY <1>f DEF Btrees
  <2> QED BY <2>1, <1>6, <1>t DEF PlainTypes, Commit
<1>7. CASE FailStep(c)
  <2>1. /\ faults < MaxFaults /\ faults' = faults + 1
        /\ file' = file /\ dir' = dir /\ cookie' = cookie
    BY <1>7 DEF FailStep, OpenFails, OpenMetaFails, FamilyFails, Failed
  <2> QED BY <2>1, <1>t DEF PlainTypes
<1>8. \/ UNCHANGED <<file, dir, cookie, faults>> \/ MakeDirectory(c) \/ ResetLsns(c)
      \/ OpenMetaTables(c) \/ CreateTable(c) \/ Commit(c) \/ FailStep(c)
  BY DEF OpenStep, CallStep, Enter, JoinEnvironment, OpenEnvironment, LastTable, FinishOpen,
         BtreeOpenFirst, BtreeOpenAgain, BeginTrans, UpdateMeta, GetMeta, Rollback,
         BtreeClose, FinishClose
<1> QED BY <1>1, <1>2, <1>3, <1>4, <1>5, <1>6, <1>7, <1>8

\* The connections of a process that dies are gone; nothing else changes.
LEMMA CrashStep ==
  ASSUME EnvInv, NEW p \in Procs, Crash(p)
  PROVE  EnvInv' /\ (MutexFollows => MutexFollows') /\ (HandlesInv => HandlesInv')
<1>t. BdbEnvTypeOK /\ ProcOf \in [Conns -> Procs] /\ Nobody \notin Conns
  BY BdbEnvAssumption DEF EnvInv
<1>1. NoBtShared \in BtShareds /\ NewBtree \in Btrees /\ NewBtree.pc = "closed"
  <2>1. Cardinality(Conns) \in Nat
    BY BdbEnvAssumption, FS_CardinalityType
  <2>2. 0 \in 0..Cardinality(Conns)
    BY <2>1
  <2>3. NoBtShared \in BtShareds
    BY <2>2 DEF NoBtShared, BtShareds
  <2> QED BY <2>3 DEF NewBtree, Btrees
<1>2. /\ bt' = [bt EXCEPT ![p] = NoBtShared] /\ mutex' = [mutex EXCEPT ![p] = Nobody]
      /\ btree' = [c \in Conns |-> IF ProcOf[c] = p THEN NewBtree ELSE btree[c]]
      /\ UNCHANGED <<file, dir, cookie, faults>>
  BY DEF Crash
<1>3. BdbEnvTypeOK'
  BY <1>t, <1>1, <1>2 DEF BdbEnvTypeOK
<1>4. RefsCounted'
  <2>1. ASSUME NEW q \in Procs
        PROVE  bt'[q].nRef = Cardinality(Users(q)')
    <3>1. CASE q = p
      <4>1. Users(q)' = {}
        BY <3>1, <1>1, <1>2 DEF Users, Of
      <4>2. bt'[q].nRef = 0
        BY <3>1, <1>t, <1>2 DEF BdbEnvTypeOK, NoBtShared
      <4> QED BY <4>1, <4>2, FS_EmptySet
    <3>2. CASE q # p
      <4>1. Users(q)' = Users(q) /\ bt'[q] = bt[q]
        BY <3>2, <1>t, <1>2 DEF Users, Of, BdbEnvTypeOK
      <4> QED BY <4>1 DEF EnvInv, RefsCounted, Users
    <3> QED BY <3>1, <3>2
  <2> QED BY <2>1 DEF RefsCounted, Users
<1>5. ASSUME MutexFollows
      PROVE  MutexFollows'
  <2>1. ASSUME NEW q \in Procs, mutex'[q] # Nobody
        PROVE  ProcOf[mutex'[q]] = q /\ btree'[mutex'[q]].pc \in Opening \ {"enter"}
    <3>1. q # p /\ mutex'[q] = mutex[q]
      BY <2>1, <1>t, <1>2 DEF BdbEnvTypeOK
    <3>2. mutex[q] \in Conns /\ ProcOf[mutex[q]] = q
      BY <2>1, <3>1, <1>t, <1>5 DEF BdbEnvTypeOK, MutexFollows
    <3> QED BY <2>1, <3>1, <3>2, <1>2, <1>5 DEF MutexFollows
  <2>2. ASSUME NEW d \in Conns, btree'[d].pc \in {"mkdir", "open"}
        PROVE  mutex'[ProcOf[d]] = d
    BY <2>2, <1>t, <1>1, <1>2, <1>5 DEF BdbEnvTypeOK, MutexFollows, HasMutex
  <2> QED BY <2>1, <2>2 DEF MutexFollows, HasMutex
<1>6. ASSUME HandlesInv
      PROVE  HandlesInv'
  <2>1. ASSUME NEW d \in Conns
        PROVE  Fits(btree'[d], bt'[ProcOf[d]])
    <3>1. CASE ProcOf[d] = p
      BY <3>1, <1>1, <1>2 DEF Fits
    <3>2. CASE ProcOf[d] # p
      BY <3>2, <1>t, <1>2, <1>6 DEF HandlesInv, Shared, BdbEnvTypeOK
    <3> QED BY <3>1, <3>2
  <2> QED BY <2>1 DEF HandlesInv, Shared
<1> QED BY <1>3, <1>4, <1>5, <1>6 DEF EnvInv

-----------------------------------------------------------------------------
\* What every step keeps, and under which assumption.
LEMMA EnvStep ==
  ASSUME EnvInv, [BdbEnvNext]_evars
  PROVE  /\ EnvInv'
         /\ "familyFails" \notin Mishaps /\ MutexFollows => MutexFollows'
         /\ ("familyFails" \notin Mishaps /\ "metaFails" \notin Mishaps /\ HandlesInv)
              => HandlesInv'
<1>1. ASSUME NEW c \in Conns,
             OpenStep(c) \/ FailStep(c) \/ CallStep(c) \/ FinishClose(c)
      PROVE  /\ EnvInv'
             /\ "familyFails" \notin Mishaps /\ MutexFollows => MutexFollows'
             /\ ("familyFails" \notin Mishaps /\ "metaFails" \notin Mishaps /\ HandlesInv)
                  => HandlesInv'
  <2>1. PICK r, b, x : Good(c, r, b, x)
    BY <1>1, ConnectionGood DEF IsGood
  <2>2. RefsCounted'
    BY <2>1, RefsStep DEF Good
  <2>3. BdbEnvTypeOK'
    BY <1>1, <2>1, <2>2, TypeStep, PlainStep DEF Good, PlainTypes, BdbEnvTypeOK
  <2>4. "familyFails" \notin Mishaps /\ MutexFollows => MutexFollows'
    BY <2>1, MutexStep DEF Good
  <2>5. ("familyFails" \notin Mishaps /\ "metaFails" \notin Mishaps /\ HandlesInv)
          => HandlesInv'
    BY <2>1, HandlesStep DEF Good
  <2> QED BY <2>2, <2>3, <2>4, <2>5 DEF EnvInv
<1>2. ASSUME RemoveDirectory \/ UNCHANGED evars
      PROVE  /\ EnvInv' /\ (MutexFollows => MutexFollows')
             /\ (HandlesInv => HandlesInv')
  <2>1. UNCHANGED <<bt, btree, mutex, cookie, faults>>
    BY <1>2 DEF RemoveDirectory, evars
  <2>2. file' \in Files /\ dir' \in BOOLEAN
    BY <1>2 DEF RemoveDirectory, evars, EnvInv, BdbEnvTypeOK, Files
  <2>3. EnvInv'
    BY <2>1, <2>2 DEF EnvInv, BdbEnvTypeOK, RefsCounted
  <2>4. MutexFollows => MutexFollows'
    BY <2>1 DEF MutexFollows, HasMutex
  <2>5. HandlesInv => HandlesInv'
    BY <2>1 DEF HandlesInv, Shared
  <2> QED BY <2>3, <2>4, <2>5
<1> QED BY <1>1, <1>2, CrashStep DEF BdbEnvNext

LEMMA EnvInitially ==
  ASSUME BdbEnvInit
  PROVE  EnvInv /\ MutexFollows /\ HandlesInv
<1>1. NoBtShared \in BtShareds /\ NoBtShared.nRef = 0
  <2>1. Cardinality(Conns) \in Nat
    BY BdbEnvAssumption, FS_CardinalityType
  <2>2. 0 \in 0..Cardinality(Conns)
    BY <2>1
  <2> QED BY <2>2 DEF NoBtShared, BtShareds
<1>2. NewBtree \in Btrees /\ NewBtree.pc = "closed"
  BY DEF NewBtree, Btrees
<1>3. BdbEnvTypeOK
  <2>1. bt \in [Procs -> BtShareds] /\ btree \in [Conns -> Btrees]
    BY <1>1, <1>2 DEF BdbEnvInit
  <2>2. file \in Files /\ dir \in BOOLEAN
    BY DEF BdbEnvInit, Files
  <2>3. cookie \in Cookies /\ faults \in 0..MaxFaults
    BY BdbEnvAssumption DEF BdbEnvInit, Cookies
  <2>4. mutex \in [Procs -> Conns \cup {Nobody}]
    BY DEF BdbEnvInit
  <2> QED BY <2>1, <2>2, <2>3, <2>4 DEF BdbEnvTypeOK
<1>4. RefsCounted
  <2>1. ASSUME NEW p \in Procs
        PROVE  bt[p].nRef = Cardinality(Users(p))
    <3>1. Users(p) = {}
      BY <1>2 DEF BdbEnvInit, Users, Of
    <3> QED BY <1>1, <3>1, FS_EmptySet DEF BdbEnvInit
  <2> QED BY <2>1 DEF RefsCounted, Users
<1>5. MutexFollows
  BY <1>2 DEF BdbEnvInit, MutexFollows
<1>6. HandlesInv
  BY <1>2, BdbEnvAssumption DEF BdbEnvInit, HandlesInv, Fits, Shared
<1> QED BY <1>3, <1>4, <1>5, <1>6 DEF EnvInv

-----------------------------------------------------------------------------
\* A file that is not ready, because its LSNs belong to an environment that is
\* gone or because it has no table yet, is in the hands of one connection.
Late == {"open", "reset", "meta", "last", "create", "begin"}

\* c works with the environment, or is about to open it.
Uses(c) == btree[c].pc \in Late \/ (Idle(c) /\ btree[c].connected)

HasOpened(c) == Uses(c) /\ btree[c].pc # "open"

Opened(p) == bt[p].nRef > 0 /\ bt[p].opened

\* At most one connection uses the environment.  It has the open mutex of its
\* process and is at one of the places P.
Solo(P) ==
  /\ \A c \in Conns : Uses(c) => HasMutex(c) /\ btree[c].pc \in P
  /\ \A c, d \in Conns : Uses(c) /\ Uses(d) => c = d
  /\ \A p \in Procs : Opened(p) => \E c \in Of(p) : HasOpened(c)

Act(c) == OpenStep(c) \/ FailStep(c) \/ CallStep(c) \/ FinishClose(c)

LEMMA Counted ==
  ASSUME NEW c \in Conns
  PROVE  EnvInv /\ btree[c].pc # "closed" => Shared(c).nRef > 0
<1> SUFFICES ASSUME EnvInv, btree[c].pc # "closed" PROVE Shared(c).nRef > 0
  OBVIOUS
<1>1. c \in Users(ProcOf[c])
  BY DEF Users, Of
<1>2. Cardinality(Users(ProcOf[c])) = Shared(c).nRef /\ IsFiniteSet(Users(ProcOf[c]))
  BY UsersFinite, Facts DEF EnvInv, RefsCounted, Users, Shared
<1>3. Cardinality(Users(ProcOf[c])) \in Nat /\ Cardinality(Users(ProcOf[c])) # 0
  BY <1>1, <1>2, FS_EmptySet, FS_CardinalityType
<1> QED BY <1>2, <1>3

LEMMA CountedNext ==
  ASSUME NEW c \in Conns
  PROVE  (EnvInv /\ btree[c].pc # "closed" => Shared(c).nRef > 0)'
<1>1. EnvInv /\ btree[c].pc # "closed" => Shared(c).nRef > 0
  BY Counted
<1> QED BY <1>1, PTL

\* A step of c leaves the other connections, and what they have, alone.
LEMMA Alien ==
  ASSUME EnvInv, MutexFollows, "familyFails" \notin Mishaps, NEW c \in Conns, Act(c)
  PROVE  /\ \A d \in Conns \ {c} : /\ btree'[d] = btree[d]
                                   /\ HasMutex(d) => HasMutex(d)'
                                   /\ Uses(d)' <=> Uses(d)
         /\ \A q \in Procs \ {ProcOf[c]} : bt'[q] = bt[q]
<1>1. PICK r, b, x : Good(c, r, b, x)
  BY ConnectionGood DEF IsGood, Act
<1>2. /\ btree' = [btree EXCEPT ![c] = r] /\ bt' = [bt EXCEPT ![ProcOf[c]] = b]
      /\ mutex' = [mutex EXCEPT ![ProcOf[c]] = x]
      /\ mutex[ProcOf[c]] \in {c, Nobody} \/ x = mutex[ProcOf[c]]
  BY <1>1 DEF Good, ConnStep, KeepsMutex
<1>3. /\ ProcOf \in [Conns -> Procs] /\ Nobody \notin Conns
      /\ btree \in [Conns -> Btrees] /\ bt \in [Procs -> BtShareds]
      /\ mutex \in [Procs -> Conns \cup {Nobody}]
  BY BdbEnvAssumption DEF EnvInv, BdbEnvTypeOK
<1>4. ASSUME NEW d \in Conns \ {c}
      PROVE  /\ btree'[d] = btree[d] /\ (HasMutex(d) => HasMutex(d)')
             /\ (Uses(d)' <=> Uses(d))
  <2>1. btree'[d] = btree[d]
    BY <1>2, <1>3
  <2>2. HasMutex(d) => HasMutex(d)'
    BY <1>2, <1>3 DEF HasMutex
  <2> QED BY <2>1, <2>2 DEF Uses, Idle
<1>5. \A q \in Procs \ {ProcOf[c]} : bt'[q] = bt[q]
  BY <1>2, <1>3
<1> QED BY <1>4, <1>5

LEMMA SoloStep ==
  ASSUME EnvInv, MutexFollows, "familyFails" \notin Mishaps, NEW P, Solo(P),
         NEW c \in Conns, Act(c),
         Uses(c)' => HasMutex(c)' /\ btree'[c].pc \in P,
         Uses(c)' => \A d \in Conns : Uses(d) => d = c,
         Opened(ProcOf[c])' => Opened(ProcOf[c]) \/ HasOpened(c)',
         Opened(ProcOf[c])' /\ HasOpened(c) => HasOpened(c)'
  PROVE  Solo(P)'
<1>a. /\ \A d \in Conns \ {c} : /\ btree'[d] = btree[d]
                                /\ HasMutex(d) => HasMutex(d)'
                                /\ Uses(d)' <=> Uses(d)
      /\ \A q \in Procs \ {ProcOf[c]} : bt'[q] = bt[q]
  BY Alien
<1>t. ProcOf \in [Conns -> Procs]
  BY BdbEnvAssumption
<1>1. ASSUME NEW d \in Conns, Uses(d)'
      PROVE  HasMutex(d)' /\ btree'[d].pc \in P
  BY <1>1, <1>a DEF Solo
<1>2. ASSUME NEW d \in Conns, NEW e \in Conns, Uses(d)', Uses(e)'
      PROVE  d = e
  BY <1>2, <1>a DEF Solo
<1>3. ASSUME NEW q \in Procs, Opened(q)'
      PROVE  \E d \in Of(q) : HasOpened(d)'
  <2>1. CASE q = ProcOf[c] /\ HasOpened(c)'
    BY <2>1 DEF Of
  <2>2. CASE q # ProcOf[c] \/ ~HasOpened(c)'
    <3>1. Opened(q)
      BY <1>3, <2>2, <1>a DEF Opened
    <3>2. PICK d \in Of(q) : HasOpened(d)
      BY <3>1 DEF Solo
    <3>3. d # c
      BY <1>3, <2>2, <3>2 DEF Of
    <3>4. HasOpened(d)'
      BY <3>2, <3>3, <1>a DEF HasOpened, Of
    <3> QED BY <3>2, <3>4
  <2> QED BY <2>1, <2>2
<1> QED BY <1>1, <1>2, <1>3 DEF Solo, Of

LEMMA SoloSame ==
  ASSUME NEW P, Solo(P), UNCHANGED <<bt, btree, mutex>>
  PROVE  Solo(P)'
<1>0. bt' = bt /\ btree' = btree /\ mutex' = mutex
  OBVIOUS
<1>1. ASSUME NEW c \in Conns
      PROVE  /\ Uses(c)' <=> Uses(c)
             /\ HasOpened(c)' <=> HasOpened(c)
             /\ HasMutex(c)' <=> HasMutex(c)
  BY <1>0 DEF Uses, Idle, HasOpened, HasMutex
<1>2. ASSUME NEW p \in Procs, Opened(p)'
      PROVE  \E c \in Of(p) : HasOpened(c)'
  <2>1. PICK c \in Of(p) : HasOpened(c)
    BY <1>0, <1>2 DEF Solo, Opened
  <2> QED BY <1>1, <2>1 DEF Of
<1> QED BY <1>0, <1>1, <1>2 DEF Solo, Of

\* The shared handles are no more than they were, and what is known of the
\* file is kept.
Kept(c) ==
  /\ Shared(c).existed => Shared(c)'.existed
  /\ Shared(c).reset => Shared(c)'.reset
  /\ Shared(c)'.opened => Shared(c).opened
  /\ Shared(c)'.meta => Shared(c).meta

\* A step of a connection that does not use the environment.
Rest(c) ==
  /\ ~Uses(c) /\ ~Uses(c)' /\ UNCHANGED <<file, dir>>
  /\ btree'[c].pc \notin {"last", "create"}
  /\ \/ Shared(c)'.nRef = 0
     \/ /\ Shared(c).nRef = 0
        /\ file.made => Shared(c)'.existed
        /\ ~Shared(c)'.opened /\ ~Shared(c)'.meta
     \/ /\ Shared(c).nRef > 0
        /\ Kept(c)

LEMMA RestStep ==
  ASSUME EnvInv, NEW c \in Conns, CallStep(c) \/ FinishClose(c) \/ Enter(c),
         ~(Idle(c) /\ btree[c].connected)
  PROVE  Rest(c)
<1>t. /\ ProcOf[c] \in Procs /\ btree \in [Conns -> Btrees] /\ bt \in [Procs -> BtShareds]
      /\ btree[c] \in Btrees /\ Shared(c) \in BtShareds /\ Shared(c).nRef \in Nat
  <2>1. Cardinality(Conns) \in Nat
    BY BdbEnvAssumption, FS_CardinalityType
  <2> QED BY <2>1, Facts DEF EnvInv, BdbEnvTypeOK, BtShareds
<1>n. btree[c].pc # "closed" => Shared(c).nRef > 0
  BY Counted
<1>1. CASE BtreeOpenFirst(c)
  BY <1>1, <1>t DEF BtreeOpenFirst, SetShared, SetBtree, NewBtree, NoBtShared, Shared, Rest,
     Uses, Late, Idle
<1>2. CASE BtreeOpenAgain(c)
  BY <1>2, <1>t DEF BtreeOpenAgain, SetShared, SetBtree, NewBtree, Shared, Rest, Kept,
     Uses, Late, Idle, BtShareds
<1>3. CASE \E mode \in {"READ", "WRITE"} : BeginTrans(c, mode)
  <2>1. PICK mode \in {"READ", "WRITE"} : BeginTrans(c, mode)
    BY <1>3
  <2>2. Idle(c) /\ ~btree[c].connected /\ UNCHANGED <<file, dir, bt>>
    BY <2>1 DEF BeginTrans
  <2>3. btree'[c].pc = "enter"
    BY <2>1, <2>2, <1>t DEF BeginTrans, SetBtree, Btrees
  <2> QED BY <2>2, <2>3, <1>n DEF Rest, Kept, Uses, Late, Idle, Shared
<1>4. CASE UpdateMeta(c) \/ GetMeta(c) \/ Commit(c)
  BY <1>4 DEF UpdateMeta, GetMeta, Commit, Active
<1>5. CASE Rollback(c)
  <2>1. Idle(c) /\ ~btree[c].connected /\ UNCHANGED <<file, dir>>
        /\ bt' = [bt EXCEPT ![ProcOf[c]] = [Shared(c) EXCEPT !.panic = FALSE]]
    BY <1>5 DEF Rollback, SetShared
  <2>2. btree'[c].pc = "idle" /\ ~btree'[c].connected
    BY <1>5, <2>1, <1>t DEF Rollback, SetBtree, Ended, Idle, Btrees
  <2> QED BY <2>1, <2>2, <1>t, <1>n DEF Rest, Kept, Uses, Late, Idle, Shared, BtShareds
<1>6. CASE BtreeClose(c)
  <2>1. Idle(c) /\ ~btree[c].connected /\ UNCHANGED <<file, dir>>
        /\ bt' = [bt EXCEPT ![ProcOf[c]] = [Shared(c) EXCEPT !.panic = @ /\ ~btree[c].txn]]
    BY <1>6 DEF BtreeClose, SetShared
  <2>2. btree'[c].pc = "closing"
    BY <1>6, <1>t DEF BtreeClose, SetBtree, Ended, Btrees
  <2>3. Kept(c)
    BY <2>1, <1>t DEF Kept, Shared, BtShareds
  <2> QED BY <2>1, <2>2, <2>3, <1>n DEF Rest, Uses, Late, Idle
<1>7. CASE FinishClose(c)
  <2>1. btree[c].pc = "closing" /\ UNCHANGED <<file, dir>>
        /\ bt' = [bt EXCEPT ![ProcOf[c]] = Unreferenced(Shared(c))]
    BY <1>7 DEF FinishClose, SetShared
  <2>2. btree'[c].pc = "closed"
    BY <1>7, <1>t DEF FinishClose, SetBtree, NewBtree
  <2>3. Shared(c)' = Unreferenced(Shared(c))
    BY <2>1, <1>t DEF Shared
  <2>4. CASE Shared(c).nRef = 1
    BY <2>1, <2>2, <2>3, <2>4, <1>t
       DEF Rest, Uses, Late, Idle, Unreferenced, NoBtShared
  <2>5. CASE Shared(c).nRef # 1
    <3>1. Kept(c)
      BY <2>3, <2>5, <1>t DEF Kept, Unreferenced, BtShareds
    <3> QED BY <2>1, <2>2, <3>1, <1>t, <1>n DEF Rest, Uses, Late, Idle
  <2> QED BY <2>4, <2>5
<1>8. CASE Enter(c)
  BY <1>8, <1>t, <1>n DEF Enter, SetBtree, Rest, Kept, Uses, Late, Idle, Shared, Btrees
<1> QED BY <1>1, <1>2, <1>3, <1>4, <1>5, <1>6, <1>7, <1>8 DEF CallStep

LEMMA RestSolo ==
  ASSUME EnvInv, MutexFollows, "familyFails" \notin Mishaps, NEW P, Solo(P),
         NEW c \in Conns, Act(c), Rest(c)
  PROVE  Solo(P)'
<1>1. ~Uses(c)' /\ ~HasOpened(c)
  BY DEF Rest, HasOpened
<1>2. Opened(ProcOf[c])' => Opened(ProcOf[c])
  <2>1. ~(0 > 0)
    OBVIOUS
  <2> QED BY <2>1 DEF Rest, Kept, Opened, Shared
<1> QED BY <1>1, <1>2, SoloStep

\* Who waits to make the directory finds it done by nobody in its process.
LEMMA NoJoin ==
  ASSUME EnvInv, MutexFollows, NEW P, Solo(P), NEW c \in Conns
  PROVE  ~JoinEnvironment(c)
<1> SUFFICES ASSUME JoinEnvironment(c) PROVE FALSE
  OBVIOUS
<1>1. btree[c].pc = "mkdir" /\ Shared(c).opened /\ HasMutex(c)
  BY DEF JoinEnvironment, MutexFollows
<1>2. Opened(ProcOf[c]) /\ ProcOf[c] \in Procs
  BY <1>1, Counted, Facts DEF Opened, Shared
<1>3. PICK d \in Of(ProcOf[c]) : HasOpened(d)
  BY <1>2 DEF Solo
<1>4. d \in Conns /\ HasMutex(d) /\ ProcOf[d] = ProcOf[c]
  BY <1>3 DEF Solo, HasOpened, Of
<1>5. d = c
  BY <1>1, <1>4 DEF HasMutex
<1> QED BY <1>1, <1>3, <1>5 DEF HasOpened, Uses, Late, Idle

\* Who makes the directory is the first to use the environment.
LEMMA SoloMkdir ==
  ASSUME EnvInv, MutexFollows, {"familyFails", "overlap"} \cap Mishaps = {},
         NEW P, Solo(P), "open" \in P, P \subseteq Late,
         NEW c \in Conns, MakeDirectory(c),
         \A d \in Conns : Uses(d) => Shared(d).reset \/ MasterRoot \notin file.tables
  PROVE  /\ \A d \in Conns : ~Uses(d)
         /\ btree'[c].pc = "open" /\ Uses(c)' /\ Solo(P)'
         /\ Shared(c).nRef > 0 /\ Shared(c)' = [Shared(c) EXCEPT !.reset = @ \/ NeedsReset(c)]
<1>t. /\ ProcOf[c] \in Procs /\ btree \in [Conns -> Btrees] /\ bt \in [Procs -> BtShareds]
      /\ btree[c] \in Btrees /\ Shared(c) \in BtShareds
  BY Facts DEF EnvInv, BdbEnvTypeOK
<1>1. btree[c].pc = "mkdir" /\ HasMutex(c) /\ UNCHANGED mutex
      /\ btree' = [btree EXCEPT ![c] = [btree[c] EXCEPT !.pc = "open"]]
      /\ bt' = [bt EXCEPT ![ProcOf[c]] = [Shared(c) EXCEPT !.reset = @ \/ NeedsReset(c)]]
  BY DEF MakeDirectory, MutexFollows, SetBtree, SetShared
<1>2. ~Uses(c)
  BY <1>1 DEF Uses, Late, Idle
<1>3. ASSUME NEW d \in Conns, Uses(d) PROVE FALSE
  <2>1. HasMutex(d) /\ btree[d].pc \in Late /\ d # c
    BY <1>2, <1>3 DEF Solo
  <2>2. ProcOf[d] # ProcOf[c]
    BY <1>1, <2>1 DEF HasMutex
  <2>3. SettingUp(ProcOf[c])
    BY <1>3, <2>1, <2>2 DEF SettingUp, Late, Opening, Shared
  <2> QED BY <2>3 DEF MakeDirectory
<1>4. btree'[c].pc = "open" /\ Uses(c)'
  BY <1>1, <1>t DEF Uses, Late, Btrees
<1>5. Shared(c)' = [Shared(c) EXCEPT !.reset = @ \/ NeedsReset(c)]
  BY <1>1, <1>t DEF Shared
<1>6. Opened(ProcOf[c])' => Opened(ProcOf[c])
  BY <1>5, <1>t DEF Opened, Shared, BtShareds
<1>7. HasMutex(c)' /\ Act(c)
  BY <1>1 DEF HasMutex, Act, OpenStep
<1>8. Solo(P)'
  BY <1>2, <1>3, <1>4, <1>6, <1>7, SoloStep DEF HasOpened
<1> QED BY <1>1, <1>3, <1>4, <1>5, <1>8, Counted

-----------------------------------------------------------------------------
\* Pages with LSNs of an environment that is gone: every process that has the
\* file open knows that it was there before, and the connection that makes the
\* next directory is alone with the file until it has reset them.
LsnInv ==
  ~file.own =>
    /\ file.made
    /\ \A p \in Procs : bt[p].nRef > 0 => bt[p].existed
    /\ Solo({"open", "reset"})
    /\ \A c \in Conns : Uses(c) => Shared(c).reset
    /\ dir => \E c \in Conns : Uses(c)

LEMMA LsnAct ==
  ASSUME EnvInv, EnvInv', MutexFollows, LsnInv,
         {"familyFails", "overlap", "resetLost"} \cap Mishaps = {},
         NEW c \in Conns, Act(c)
  PROVE  LsnInv'
<1> DEFINE P == {"open", "reset"}
<1>t. /\ ProcOf \in [Conns -> Procs] /\ ProcOf[c] \in Procs /\ file \in Files
      /\ btree \in [Conns -> Btrees] /\ bt \in [Procs -> BtShareds]
      /\ btree[c] \in Btrees /\ Shared(c) \in BtShareds
  BY BdbEnvAssumption, Facts DEF EnvInv, BdbEnvTypeOK
<1>a. /\ \A d \in Conns \ {c} : /\ btree'[d] = btree[d]
                                /\ HasMutex(d) => HasMutex(d)'
                                /\ Uses(d)' <=> Uses(d)
      /\ \A q \in Procs \ {ProcOf[c]} : bt'[q] = bt[q]
  BY Alien
<1>1. CASE file'.own
  BY <1>1 DEF LsnInv
<1>2. CASE file.own
  <2>1. file'.own
    BY <1>2, <1>t
       DEF Act, OpenStep, FailStep, CallStep, Enter, JoinEnvironment, MakeDirectory,
           OpenEnvironment, ResetLsns, OpenMetaTables, LastTable, CreateTable, FinishOpen,
           OpenFails, OpenMetaFails, FamilyFails, BtreeOpenFirst, BtreeOpenAgain,
           BeginTrans, UpdateMeta, GetMeta, Commit, Rollback, BtreeClose, FinishClose, Files
  <2> QED BY <1>1, <2>1
<1>3. CASE ~file.own /\ ~file'.own
  <2>1. /\ file.made /\ \A p \in Procs : bt[p].nRef > 0 => bt[p].existed
        /\ Solo(P) /\ \A d \in Conns : Uses(d) => Shared(d).reset
        /\ dir => \E d \in Conns : Uses(d)
    BY <1>3 DEF LsnInv
  <2>2. Uses(c) => btree[c].pc \in P
    BY <2>1 DEF Solo
  <2>3. CASE Rest(c)
    <3>1. Solo(P)'
      BY <2>1, <2>3, RestSolo
    <3>2. UNCHANGED <<file, dir>> /\ ~Uses(c) /\ ~Uses(c)'
      BY <2>3 DEF Rest
    <3>3. ASSUME NEW p \in Procs, bt'[p].nRef > 0 PROVE bt'[p].existed
      <4>1. CASE p # ProcOf[c]
        BY <1>a, <2>1, <3>3, <4>1
      <4>2. CASE p = ProcOf[c]
        <5>1. ~(0 > 0)
          OBVIOUS
        <5> QED BY <2>1, <2>3, <3>3, <4>2, <5>1, <1>t DEF Rest, Kept, Shared
      <4> QED BY <4>1, <4>2
    <3>4. ASSUME NEW d \in Conns, Uses(d)' PROVE Shared(d)'.reset
      <4>1. d # c /\ Uses(d) /\ Shared(d).reset
        BY <1>a, <2>1, <3>2, <3>4
      <4>2. CASE ProcOf[d] # ProcOf[c]
        BY <1>a, <1>t, <4>1, <4>2 DEF Shared
      <4>3. CASE ProcOf[d] = ProcOf[c]
        <5>1. btree[d].pc # "closed" /\ btree'[d].pc # "closed"
          BY <1>a, <4>1 DEF Uses, Late, Idle
        <5>2. Shared(c).nRef > 0 /\ Shared(c)'.nRef > 0
          BY <4>3, <5>1, Counted, CountedNext DEF Shared
        <5>3. ~(0 > 0)
          OBVIOUS
        <5> QED BY <2>3, <4>1, <4>3, <5>2, <5>3 DEF Rest, Kept, Shared
      <4> QED BY <4>2, <4>3
    <3>5. dir' => \E d \in Conns : Uses(d)'
      BY <1>a, <2>1, <3>2
    <3> QED BY <2>1, <3>1, <3>2, <3>3, <3>4, <3>5 DEF LsnInv
  <2>4. CASE MakeDirectory(c)
    <3>1. /\ \A d \in Conns : ~Uses(d)
          /\ btree'[c].pc = "open" /\ Uses(c)' /\ Solo(P)'
          /\ Shared(c).nRef > 0 /\ Shared(c)' = [Shared(c) EXCEPT !.reset = @ \/ NeedsReset(c)]
      BY <2>1, <2>4, SoloMkdir DEF Late
    <3>2. ~dir /\ Shared(c).existed
      BY <2>1, <3>1, <1>t DEF Shared
    <3>3. Shared(c)'.reset /\ Shared(c)'.existed
      BY <3>1, <3>2, <1>t DEF NeedsReset, BtShareds
    <3>4. file' = file
      BY <2>4 DEF MakeDirectory
    <3>5. \A p \in Procs : bt'[p].nRef > 0 => bt'[p].existed
      BY <1>a, <1>t, <2>1, <3>3 DEF Shared
    <3>6. \A d \in Conns : Uses(d)' => Shared(d)'.reset
      BY <1>a, <3>1, <3>3
    <3> QED BY <2>1, <3>1, <3>4, <3>5, <3>6 DEF LsnInv
  <2>5. CASE OpenEnvironment(c)
    <3>1. /\ btree[c].pc = "open" /\ UNCHANGED <<file, dir, mutex>>
          /\ bt' = [bt EXCEPT ![ProcOf[c]] = [Shared(c) EXCEPT !.opened = TRUE]]
      BY <2>5 DEF OpenEnvironment, SetShared, AfterOpen
    <3>2. btree'[c].pc = "reset"
      BY <2>5, <1>t DEF OpenEnvironment, SetBtree, Btrees
    <3>3. Uses(c) /\ Uses(c)' /\ HasOpened(c)' /\ HasMutex(c)'
      BY <2>1, <3>1, <3>2 DEF Uses, HasOpened, Late, Solo, HasMutex
    <3>4. Shared(c)'.existed = Shared(c).existed /\ Shared(c)'.reset = Shared(c).reset
          /\ Shared(c)'.nRef = Shared(c).nRef
      BY <3>1, <1>t DEF Shared, BtShareds
    <3>5. Solo(P)'
      BY <2>1, <3>2, <3>3, SoloStep DEF Solo
    <3>6. \A p \in Procs : bt'[p].nRef > 0 => bt'[p].existed
      BY <1>a, <1>t, <2>1, <3>4 DEF Shared
    <3>7. \A d \in Conns : Uses(d)' => Shared(d)'.reset
      BY <1>a, <2>1, <3>3, <3>4 DEF Solo
    <3> QED BY <2>1, <3>1, <3>3, <3>5, <3>6, <3>7 DEF LsnInv
  <2>6. ~OpenFails(c)
    <3>1. btree[c].pc = "open" => Shared(c).reset
      BY <2>1 DEF Uses, Late
    <3> QED BY <3>1 DEF OpenFails, MayLoseReset, Shared
  <2>7. ~ResetLsns(c)
    <3>1. btree[c].pc = "reset" => Shared(c).reset
      BY <2>1 DEF Uses, Late
    <3> QED BY <3>1, <1>3, <1>t DEF ResetLsns, Files
  <2>8. /\ ~OpenMetaTables(c) /\ ~LastTable(c) /\ ~CreateTable(c) /\ ~FinishOpen(c)
        /\ ~OpenMetaFails(c) /\ ~FamilyFails(c) /\ ~(Idle(c) /\ btree[c].connected)
    BY <2>2 DEF OpenMetaTables, LastTable, CreateTable, FinishOpen, OpenMetaFails,
       FamilyFails, Uses, Late, Idle
  <2>9. ~JoinEnvironment(c)
    BY <2>1, NoJoin
  <2> QED BY <2>3, <2>4, <2>5, <2>6, <2>7, <2>8, <2>9, RestStep DEF Act, OpenStep, FailStep
<1> QED BY <1>1, <1>2, <1>3

LEMMA LsnCrash ==
  ASSUME EnvInv, LsnInv, "resetLost" \notin Mishaps, NEW p \in Procs, Crash(p)
  PROVE  LsnInv'
<1> SUFFICES ASSUME ~file.own PROVE LsnInv'
  BY DEF Crash, LsnInv
<1>t. /\ ProcOf \in [Conns -> Procs] /\ btree \in [Conns -> Btrees]
      /\ bt \in [Procs -> BtShareds] /\ mutex \in [Procs -> Conns \cup {Nobody}]
  BY BdbEnvAssumption DEF EnvInv, BdbEnvTypeOK
<1>1. /\ file.made /\ \A q \in Procs : bt[q].nRef > 0 => bt[q].existed
      /\ Solo({"open", "reset"}) /\ \A d \in Conns : Uses(d) => Shared(d).reset
      /\ dir => \E d \in Conns : Uses(d)
  BY DEF LsnInv
<1>2. /\ bt' = [bt EXCEPT ![p] = NoBtShared] /\ mutex' = [mutex EXCEPT ![p] = Nobody]
      /\ btree' = [c \in Conns |-> IF ProcOf[c] = p THEN NewBtree ELSE btree[c]]
      /\ UNCHANGED <<file, dir>> /\ ~bt[p].reset
  BY DEF Crash, MayLoseReset
<1>3. ASSUME NEW d \in Conns
      PROVE  /\ Uses(d)' <=> Uses(d)
             /\ Uses(d) => btree'[d] = btree[d] /\ ProcOf[d] # p
                           /\ Shared(d)' = Shared(d) /\ (HasMutex(d) => HasMutex(d)')
  <2>1. CASE ProcOf[d] = p
    <3>1. ~Uses(d)
      BY <1>1, <1>2, <2>1 DEF Shared
    <3>2. ~Uses(d)'
      BY <1>2, <2>1 DEF Uses, Late, Idle, NewBtree
    <3> QED BY <3>1, <3>2
  <2>2. CASE ProcOf[d] # p
    <3>1. btree'[d] = btree[d] /\ Shared(d)' = Shared(d) /\ (HasMutex(d) => HasMutex(d)')
      BY <1>2, <1>t, <2>2 DEF Shared, HasMutex
    <3> QED BY <2>2, <3>1 DEF Uses, Idle
  <2> QED BY <2>1, <2>2
<1>4. \A q \in Procs : Opened(q)' => Opened(q) /\ q # p
  <2>1. ~(0 > 0)
    OBVIOUS
  <2> QED BY <1>2, <1>t, <2>1 DEF Opened, NoBtShared
<1>5. Solo({"open", "reset"})'
  <2>1. \A c \in Conns : Uses(c)' => HasMutex(c)' /\ btree'[c].pc \in {"open", "reset"}
    BY <1>1, <1>3 DEF Solo
  <2>2. \A c, d \in Conns : Uses(c)' /\ Uses(d)' => c = d
    BY <1>1, <1>3 DEF Solo
  <2>3. ASSUME NEW q \in Procs, Opened(q)' PROVE \E c \in Of(q) : HasOpened(c)'
    <3>1. PICK c \in Of(q) : HasOpened(c)
      BY <1>1, <1>4, <2>3 DEF Solo
    <3>2. HasOpened(c)'
      BY <1>3, <3>1 DEF HasOpened, Of
    <3> QED BY <3>2
  <2> QED BY <2>1, <2>2, <2>3 DEF Solo, Of
<1>6. \A q \in Procs : bt'[q].nRef > 0 => bt'[q].existed
  <2>1. ~(0 > 0)
    OBVIOUS
  <2> QED BY <1>1, <1>2, <1>t, <2>1 DEF NoBtShared
<1>7. \A d \in Conns : Uses(d)' => Shared(d)'.reset
  BY <1>1, <1>3
<1>8. dir' => \E d \in Conns : Uses(d)'
  BY <1>1, <1>2, <1>3
<1> QED BY <1>1, <1>2, <1>5, <1>6, <1>7, <1>8 DEF LsnInv

\* The directory can only be removed while no process has the file open.
LEMMA LsnRemove ==
  ASSUME EnvInv, LsnInv, "removeEarly" \notin Mishaps, RemoveDirectory
  PROVE  LsnInv'
<1> SUFFICES ASSUME ~file'.own PROVE LsnInv'
  BY DEF LsnInv
<1>t. file \in Files /\ ProcOf \in [Conns -> Procs]
  BY BdbEnvAssumption DEF EnvInv, BdbEnvTypeOK
<1>1. /\ \A p \in Procs : bt[p].nRef = 0
      /\ ~dir' /\ file' = [file EXCEPT !.own = ~file.made] /\ UNCHANGED <<bt, btree, mutex>>
  BY DEF RemoveDirectory
<1>2. file'.made
  BY <1>1, <1>t DEF Files
<1>3. ~(0 > 0)
  OBVIOUS
<1>4. \A c \in Conns : ~Uses(c)
  BY <1>1, <1>3, <1>t, Counted DEF Shared, Uses, Late, Idle
<1>5. \A c \in Conns : ~Uses(c)'
  BY <1>1, <1>4 DEF Uses, Idle
<1>6. Solo({"open", "reset"})'
  BY <1>1, <1>3, <1>5 DEF Solo, Opened
<1> QED BY <1>1, <1>2, <1>3, <1>5, <1>6 DEF LsnInv

LEMMA LsnStep ==
  ASSUME EnvInv, MutexFollows, LsnInv,
         {"familyFails", "overlap", "resetLost", "removeEarly"} \cap Mishaps = {},
         [BdbEnvNext]_evars
  PROVE  LsnInv'
<1>1. EnvInv'
  BY EnvStep
<1>2. ASSUME UNCHANGED evars PROVE LsnInv'
  <2>1. (\A c \in Conns : Uses(c)' <=> Uses(c)) /\ \A p \in Procs : Opened(p)' <=> Opened(p)
    BY <1>2 DEF evars, Uses, Idle, Opened
  <2>2. Solo({"open", "reset"}) => Solo({"open", "reset"})'
    BY <1>2, SoloSame DEF evars
  <2> QED BY <1>2, <2>1, <2>2 DEF evars, LsnInv, Shared
<1>3. ASSUME NEW c \in Conns, Act(c) PROVE LsnInv'
  BY <1>1, <1>3, LsnAct
<1> QED BY <1>2, <1>3, LsnCrash, LsnRemove DEF BdbEnvNext, Act

-----------------------------------------------------------------------------
\* A file without the table of the schema: the connection that sets it up is
\* alone with it until the table is made, and nobody else has the metadata.
Setup == {"open", "reset", "meta", "last", "create"}

Creating(c) == btree[c].pc \in {"last", "create"}

MadeInv ==
  /\ file.tables \subseteq {MasterRoot}
  /\ \A c \in Conns : /\ Creating(c) => MasterRoot \notin file.tables
                      /\ btree[c].pc = "create" => btree[c].next = MasterRoot
  /\ MasterRoot \notin file.tables =>
       /\ Solo(Setup)
       /\ \A p \in Procs : bt[p].nRef > 0 /\ bt[p].meta => \E c \in Of(p) : Creating(c)

\* Once the table is there, none is made.
LEMMA MadeReady ==
  ASSUME EnvInv, MutexFollows, MadeInv, "familyFails" \notin Mishaps,
         NEW c \in Conns, Act(c), MasterRoot \in file.tables
  PROVE  MadeInv'
<1>t. /\ file \in Files /\ btree \in [Conns -> Btrees] /\ btree[c] \in Btrees
  BY Facts DEF EnvInv, BdbEnvTypeOK
<1>1. \A d \in Conns : ~Creating(d)
  BY DEF MadeInv
<1>2. file'.tables = file.tables
  BY <1>1, <1>t
     DEF Act, OpenStep, FailStep, CallStep, Enter, JoinEnvironment, MakeDirectory,
         OpenEnvironment, ResetLsns, OpenMetaTables, LastTable, CreateTable, FinishOpen,
         OpenFails, OpenMetaFails, FamilyFails, BtreeOpenFirst, BtreeOpenAgain,
         BeginTrans, UpdateMeta, GetMeta, Commit, Rollback, BtreeClose, FinishClose, Files,
         Creating
<1>3. ~Creating(c)'
  <2>1. CASE OpenFails(c)
    BY <2>1, <1>t DEF OpenFails, Failed, SetBtree, NewBtree, Creating, Btrees
  <2>2. CASE OpenMetaFails(c)
    BY <2>2, <1>t DEF OpenMetaFails, Failed, SetBtree, NewBtree, Creating, Btrees
  <2>3. CASE FamilyFails(c)
    BY <2>3, <1>t DEF FamilyFails, SetBtree, NewBtree, Creating, Btrees
  <2>4. CASE FinishOpen(c)
    BY <2>4, <1>t DEF FinishOpen, Started, Begun, SetBtree, Creating, Btrees
  <2>5. CASE Enter(c)
    BY <2>5, <1>t DEF Enter, SetBtree, Creating, Btrees
  <2>6. CASE JoinEnvironment(c)
    BY <2>6, <1>t DEF JoinEnvironment, SetBtree, Creating, Btrees
  <2>7. CASE MakeDirectory(c)
    BY <2>7, <1>t DEF MakeDirectory, SetBtree, Creating, Btrees
  <2>8. CASE OpenEnvironment(c)
    BY <2>8, <1>t DEF OpenEnvironment, SetBtree, Creating, Btrees
  <2>9. CASE ResetLsns(c)
    BY <2>9, <1>t DEF ResetLsns, SetBtree, Creating, Btrees
  <2>10. CASE OpenMetaTables(c)
    <3>1. file.tables # {}
      OBVIOUS
    <3>2. btree'[c].pc = "begin"
      BY <2>10, <3>1, <1>t DEF OpenMetaTables, SetBtree, Btrees
    <3> QED BY <3>2 DEF Creating
  <2>11. CASE LastTable(c) \/ CreateTable(c)
    BY <2>11, <1>1 DEF LastTable, CreateTable, Creating
  <2>12. CASE BtreeOpenFirst(c)
    BY <2>12, <1>t DEF BtreeOpenFirst, SetBtree, NewBtree, Creating, Btrees
  <2>13. CASE BtreeOpenAgain(c)
    BY <2>13, <1>t DEF BtreeOpenAgain, SetBtree, NewBtree, Creating, Btrees
  <2>14. ASSUME NEW mode \in {"READ", "WRITE"}, BeginTrans(c, mode)
         PROVE  ~Creating(c)'
    <3>1. btree'[c].pc \in {"idle", "enter"}
      BY <2>14, <1>t DEF BeginTrans, Begun, Idle, SetBtree, Btrees
    <3> QED BY <3>1 DEF Creating
  <2>15. CASE UpdateMeta(c)
    BY <2>15, <1>t DEF UpdateMeta, Active, Idle, SetBtree, Creating, Btrees
  <2>16. CASE GetMeta(c)
    BY <2>16, <1>1 DEF GetMeta, Creating
  <2>17. CASE Commit(c)
    BY <2>17, <1>t DEF Commit, Ended, Active, Idle, SetBtree, Creating, Btrees
  <2>18. CASE Rollback(c)
    BY <2>18, <1>t DEF Rollback, Ended, Idle, SetBtree, Creating, Btrees
  <2>19. CASE BtreeClose(c)
    BY <2>19, <1>t DEF BtreeClose, Ended, SetBtree, Creating, Btrees
  <2>20. CASE FinishClose(c)
    BY <2>20, <1>t DEF FinishClose, SetBtree, NewBtree, Creating, Btrees
  <2> QED BY <2>1, <2>2, <2>3, <2>4, <2>5, <2>6, <2>7, <2>8, <2>9, <2>10, <2>11, <2>12,
             <2>13, <2>14, <2>15, <2>16, <2>17, <2>18, <2>19, <2>20
          DEF Act, OpenStep, FailStep, CallStep
<1>4. \A d \in Conns : ~Creating(d)'
  BY <1>1, <1>3, Alien DEF Creating
<1>5. \A d \in Conns : btree'[d].pc # "create"
  BY <1>4 DEF Creating
<1> QED BY <1>2, <1>4, <1>5 DEF MadeInv

\* Until then nobody gets between the connection that sets the file up and its
\* table.
LEMMA MadeAct ==
  ASSUME EnvInv, EnvInv', MutexFollows, MadeInv,
         {"familyFails", "overlap", "setupFails"} \cap Mishaps = {},
         NEW c \in Conns, Act(c), MasterRoot \notin file.tables
  PROVE  MadeInv'
<1>t. /\ ProcOf \in [Conns -> Procs] /\ ProcOf[c] \in Procs /\ file \in Files
      /\ btree \in [Conns -> Btrees] /\ bt \in [Procs -> BtShareds]
      /\ btree[c] \in Btrees /\ Shared(c) \in BtShareds
  BY BdbEnvAssumption, Facts DEF EnvInv, BdbEnvTypeOK
<1>a. /\ \A d \in Conns \ {c} : /\ btree'[d] = btree[d]
                                /\ HasMutex(d) => HasMutex(d)'
                                /\ Uses(d)' <=> Uses(d)
      /\ \A q \in Procs \ {ProcOf[c]} : bt'[q] = bt[q]
  BY Alien
<1>b. /\ Solo(Setup) /\ file.tables = {}
      /\ \A p \in Procs : bt[p].nRef > 0 /\ bt[p].meta => \E d \in Of(p) : Creating(d)
      /\ \A d \in Conns : btree[d].pc = "create" => btree[d].next = MasterRoot
  BY DEF MadeInv
<1>c. Uses(c) => btree[c].pc \in Setup
  BY <1>b DEF Solo
<1>d. \A d \in Conns : Creating(d) => Uses(d)
  BY DEF Creating, Uses, Late
\* What has to be shown of a step that makes no table.
<1>e. ASSUME file'.tables = file.tables, Solo(Setup)',
             btree'[c].pc = "create" => btree'[c].next = MasterRoot,
             Shared(c)'.nRef > 0 /\ Shared(c)'.meta =>
               \E d \in Of(ProcOf[c]) : Creating(d)'
      PROVE  MadeInv'
  <2>1. \A d \in Conns : btree'[d].pc = "create" => btree'[d].next = MasterRoot
    BY <1>a, <1>b, <1>e
  <2>2. ASSUME NEW p \in Procs, bt'[p].nRef > 0, bt'[p].meta
        PROVE  \E d \in Of(p) : Creating(d)'
    <3>1. CASE p = ProcOf[c]
      BY <1>e, <2>2, <3>1 DEF Shared
    <3>2. CASE p # ProcOf[c]
      <4>1. PICK d \in Of(p) : Creating(d)
        BY <1>a, <1>b, <2>2, <3>2
      <4>2. d \in Conns /\ d # c
        BY <3>2, <4>1 DEF Of
      <4>3. Creating(d)'
        BY <1>a, <4>1, <4>2 DEF Creating
      <4> QED BY <4>1, <4>3
    <3> QED BY <3>1, <3>2
  <2> QED BY <1>b, <1>e, <2>1, <2>2 DEF MadeInv, Of
\* While c sets the file up and has no table yet, the metadata are closed.
<1>f. ASSUME Uses(c), ~Creating(c)
      PROVE  ~(Shared(c).nRef > 0 /\ Shared(c).meta)
  BY <1>b, <1>d, <1>f, <1>t DEF Solo, Shared, Of
<1>g. Creating(c)' => \E d \in Of(ProcOf[c]) : Creating(d)'
  BY DEF Of
<1>1. CASE Rest(c)
  <2>1. Solo(Setup)'
    BY <1>b, <1>1, RestSolo
  <2>2. UNCHANGED file /\ ~Uses(c) /\ btree'[c].pc # "create"
    BY <1>1 DEF Rest
  <2>3. ASSUME Shared(c)'.nRef > 0, Shared(c)'.meta
        PROVE  \E d \in Of(ProcOf[c]) : Creating(d)'
    <3>1. ~(0 > 0)
      OBVIOUS
    <3>2. Shared(c).nRef > 0 /\ Shared(c).meta
      BY <1>1, <2>3, <3>1 DEF Rest, Kept
    <3>3. PICK d \in Of(ProcOf[c]) : Creating(d)
      BY <1>b, <1>t, <3>2 DEF Shared
    <3>4. Creating(d)'
      BY <1>a, <1>d, <2>2, <3>3 DEF Of, Creating
    <3> QED BY <3>3, <3>4
  <2> QED BY <1>e, <2>1, <2>2, <2>3
<1>2. CASE MakeDirectory(c)
  <2>1. /\ \A d \in Conns : ~Uses(d)
        /\ btree'[c].pc = "open" /\ Solo(Setup)'
        /\ Shared(c).nRef > 0
        /\ Shared(c)' = [Shared(c) EXCEPT !.reset = @ \/ NeedsReset(c)]
    BY <1>b, <1>2, SoloMkdir DEF Setup, Late
  <2>2. ~(Shared(c).nRef > 0 /\ Shared(c).meta)
    BY <1>b, <1>d, <1>t, <2>1 DEF Shared, Of
  <2>3. ~Shared(c)'.meta
    BY <2>1, <2>2, <1>t DEF BtShareds
  <2> QED BY <1>e, <1>2, <2>1, <2>3 DEF MakeDirectory
<1>3. CASE OpenEnvironment(c)
  <2>1. /\ btree[c].pc = "open" /\ UNCHANGED <<file, dir, mutex>>
        /\ bt' = [bt EXCEPT ![ProcOf[c]] = [Shared(c) EXCEPT !.opened = TRUE]]
    BY <1>3 DEF OpenEnvironment, SetShared, AfterOpen
  <2>2. btree'[c].pc = "reset"
    BY <1>3, <1>t DEF OpenEnvironment, SetBtree, Btrees
  <2>3. Uses(c) /\ ~Creating(c) /\ Uses(c)' /\ HasOpened(c)' /\ HasMutex(c)'
    BY <1>b, <2>1, <2>2 DEF Uses, HasOpened, Late, Solo, HasMutex, Creating
  <2>4. Shared(c)'.meta = Shared(c).meta /\ Shared(c)'.nRef = Shared(c).nRef
    BY <2>1, <1>t DEF Shared, BtShareds
  <2>5. Solo(Setup)'
    BY <1>b, <2>2, <2>3, SoloStep DEF Solo, Setup
  <2> QED BY <1>e, <1>f, <2>1, <2>2, <2>3, <2>4, <2>5
<1>4. CASE OpenFails(c)
  <2>1. btree[c].pc = "open" /\ UNCHANGED file /\ Failed(c, Shared(c))
    BY <1>4 DEF OpenFails
  <2>2. Uses(c) /\ ~Creating(c) /\ ~HasOpened(c)
    BY <2>1 DEF Uses, Late, Creating, HasOpened
  <2>3. btree'[c].pc \in {"idle", "closed"} /\ ~btree'[c].connected
    BY <2>1, <1>t DEF Failed, SetBtree, NewBtree, Btrees
  <2>4. ~Uses(c)'
    BY <2>3 DEF Uses, Late, Idle
  <2>5. /\ Shared(c)'.opened = Shared(c).opened /\ Shared(c)'.meta = Shared(c).meta
        /\ Shared(c)'.nRef \in {Shared(c).nRef, Shared(c).nRef - 1}
    BY <2>1, <1>t DEF Failed, SetShared, Shared, BtShareds
  <2>6. Shared(c).nRef > 0
    BY <2>1, Counted
  <2>7. Solo(Setup)'
    BY <1>b, <2>2, <2>4, <2>5, <2>6, SoloStep DEF Opened, Shared
  <2> QED BY <1>e, <1>f, <2>1, <2>2, <2>3, <2>5, <2>6, <2>7
<1>5. CASE ResetLsns(c) \/ LastTable(c)
  <2>1. btree[c].pc \in {"reset", "last"} /\ file'.tables = file.tables /\ UNCHANGED mutex
    BY <1>5, <1>t DEF ResetLsns, LastTable, Files
  <2>2. \/ btree[c].pc = "reset" /\ btree'[c].pc = "meta"
        \/ btree[c].pc = "last" /\ btree'[c].pc = "create" /\ btree'[c].next = MasterRoot
    <3>1. CASE ResetLsns(c)
      BY <3>1, <1>t DEF ResetLsns, SetBtree, Btrees
    <3>2. CASE LastTable(c)
      BY <3>2, <1>b, <1>t DEF LastTable, SetBtree, Btrees
    <3> QED BY <1>5, <3>1, <3>2
  <2>3. /\ Shared(c)'.nRef = Shared(c).nRef
        /\ Shared(c)'.opened = Shared(c).opened /\ Shared(c)'.meta = Shared(c).meta
    BY <1>5, <1>t DEF ResetLsns, LastTable, SetShared, Shared, BtShareds
  <2>4. Uses(c) /\ Uses(c)' /\ HasOpened(c)' /\ HasMutex(c)' /\ btree'[c].pc \in Setup
    BY <1>b, <2>1, <2>2 DEF Uses, HasOpened, Late, Solo, HasMutex, Setup
  <2>5. Solo(Setup)'
    BY <1>b, <2>3, <2>4, SoloStep DEF Solo, Opened, Shared
  <2>6. Shared(c)'.nRef > 0 /\ Shared(c)'.meta => Creating(c)'
    BY <1>f, <2>2, <2>3, <2>4 DEF Creating
  <2> QED BY <1>g, <1>e, <2>1, <2>2, <2>5, <2>6
<1>6. CASE OpenMetaTables(c)
  <2>1. btree[c].pc = "meta" /\ file'.tables = file.tables /\ UNCHANGED mutex
    BY <1>6, <1>t DEF OpenMetaTables, Files
  <2>2. Uses(c) /\ ~Creating(c) /\ Shared(c).nRef > 0
    BY <2>1, Counted DEF Uses, Late, Creating
  <2>3. ~Shared(c).meta
    BY <1>f, <2>2
  <2>4. btree'[c].pc = "last"
    BY <1>6, <1>b, <1>t, <2>3 DEF OpenMetaTables, SetBtree, Btrees
  <2>5. Uses(c)' /\ HasOpened(c)' /\ HasMutex(c)' /\ btree'[c].pc \in Setup /\ Creating(c)'
    BY <1>b, <2>1, <2>2, <2>4 DEF Uses, HasOpened, Late, Solo, HasMutex, Setup, Creating
  <2>6. Solo(Setup)'
    BY <1>b, <2>2, <2>5, SoloStep DEF Solo
  <2> QED BY <1>g, <1>e, <2>1, <2>4, <2>5, <2>6
<1>7. CASE CreateTable(c)
  <2>1. btree[c].pc = "create" /\ btree[c].next = MasterRoot
    BY <1>7, <1>b DEF CreateTable
  <2>2. file'.tables = {MasterRoot}
    BY <1>7, <1>b, <1>t, <2>1 DEF CreateTable, Files
  <2>3. btree'[c].pc = "begin"
    BY <1>7, <1>t DEF CreateTable, SetBtree, Btrees
  <2>4. ASSUME NEW d \in Conns PROVE ~Creating(d)'
    <3>1. CASE d = c
      BY <2>3, <3>1 DEF Creating
    <3>2. CASE d # c
      BY <1>a, <1>b, <1>d, <2>1, <3>2 DEF Solo, Creating
    <3> QED BY <3>1, <3>2
  <2>5. \A d \in Conns : btree'[d].pc # "create"
    BY <2>4 DEF Creating
  <2> QED BY <2>2, <2>4, <2>5 DEF MadeInv
<1>8. /\ ~FinishOpen(c) /\ ~FamilyFails(c) /\ ~OpenMetaFails(c)
      /\ ~(Idle(c) /\ btree[c].connected)
  BY <1>c DEF FinishOpen, FamilyFails, OpenMetaFails, Uses, Late, Idle, Setup
<1>9. ~JoinEnvironment(c)
  BY <1>b, NoJoin
<1> QED BY <1>1, <1>2, <1>3, <1>4, <1>5, <1>6, <1>7, <1>8, <1>9, RestStep
        DEF Act, OpenStep, FailStep

LEMMA MadeCrash ==
  ASSUME EnvInv, MadeInv, NEW p \in Procs, Crash(p)
  PROVE  MadeInv'
<1>t. /\ ProcOf \in [Conns -> Procs] /\ btree \in [Conns -> Btrees]
      /\ bt \in [Procs -> BtShareds] /\ mutex \in [Procs -> Conns \cup {Nobody}]
  BY BdbEnvAssumption DEF EnvInv, BdbEnvTypeOK
<1>1. /\ bt' = [bt EXCEPT ![p] = NoBtShared] /\ mutex' = [mutex EXCEPT ![p] = Nobody]
      /\ btree' = [c \in Conns |-> IF ProcOf[c] = p THEN NewBtree ELSE btree[c]]
      /\ UNCHANGED <<file, dir>>
  BY DEF Crash
<1>2. ASSUME NEW d \in Conns, ProcOf[d] = p
      PROVE  ~Uses(d)' /\ ~Creating(d)' /\ btree'[d].pc = "closed"
  BY <1>1, <1>2 DEF Uses, Late, Idle, NewBtree, Creating
<1>3. ASSUME NEW d \in Conns, ProcOf[d] # p
      PROVE  /\ btree'[d] = btree[d] /\ (HasMutex(d) => HasMutex(d)')
             /\ (Uses(d)' <=> Uses(d)) /\ (HasOpened(d) => HasOpened(d)')
             /\ (Creating(d)' <=> Creating(d))
  BY <1>1, <1>3, <1>t DEF HasMutex, Uses, Idle, HasOpened, Creating
<1>4. ~(0 > 0)
  OBVIOUS
<1>5. \A q \in Procs : bt'[q].nRef > 0 => q # p /\ bt'[q] = bt[q]
  BY <1>1, <1>4, <1>t DEF NoBtShared
<1>6. ASSUME MasterRoot \notin file.tables
      PROVE  /\ Solo(Setup)'
             /\ \A q \in Procs : bt'[q].nRef > 0 /\ bt'[q].meta =>
                                   \E c \in Of(q) : Creating(c)'
  <2>1. /\ Solo(Setup)
        /\ \A q \in Procs : bt[q].nRef > 0 /\ bt[q].meta => \E c \in Of(q) : Creating(c)
    BY <1>6 DEF MadeInv
  <2>2. \A c \in Conns : Uses(c)' => HasMutex(c)' /\ btree'[c].pc \in Setup
    BY <1>2, <1>3, <2>1 DEF Solo
  <2>3. \A c, d \in Conns : Uses(c)' /\ Uses(d)' => c = d
    BY <1>2, <1>3, <2>1 DEF Solo
  <2>4. ASSUME NEW q \in Procs, Opened(q)' PROVE \E c \in Of(q) : HasOpened(c)'
    <3>1. Opened(q) /\ q # p
      BY <1>5, <2>4 DEF Opened
    <3>2. PICK c \in Of(q) : HasOpened(c)
      BY <2>1, <3>1 DEF Solo
    <3> QED BY <1>3, <3>1, <3>2 DEF Of
  <2>5. ASSUME NEW q \in Procs, bt'[q].nRef > 0, bt'[q].meta
        PROVE  \E c \in Of(q) : Creating(c)'
    <3>1. PICK c \in Of(q) : Creating(c) /\ q # p
      BY <1>5, <2>1, <2>5
    <3> QED BY <1>3, <3>1 DEF Of
  <2> QED BY <2>2, <2>3, <2>4, <2>5 DEF Solo, Of
<1>7. \A c \in Conns : /\ Creating(c)' => MasterRoot \notin file.tables
                       /\ btree'[c].pc = "create" => btree'[c].next = MasterRoot
  BY <1>2, <1>3 DEF MadeInv
<1> QED BY <1>1, <1>6, <1>7 DEF MadeInv, Of

LEMMA MadeStep ==
  ASSUME EnvInv, MutexFollows, MadeInv,
         {"familyFails", "overlap", "setupFails"} \cap Mishaps = {},
         [BdbEnvNext]_evars
  PROVE  MadeInv'
<1>1. EnvInv'
  BY EnvStep
<1>2. ASSUME UNCHANGED evars \/ RemoveDirectory PROVE MadeInv'
  <2>1. UNCHANGED <<bt, btree, mutex>> /\ file'.tables = file.tables
    BY <1>2 DEF evars, RemoveDirectory, EnvInv, BdbEnvTypeOK, Files
  <2>2. \A c \in Conns : Creating(c)' <=> Creating(c)
    BY <2>1 DEF Creating
  <2>3. Solo(Setup) => Solo(Setup)'
    BY <2>1, SoloSame
  <2>4. \A p \in Procs : bt[p].nRef > 0 /\ bt[p].meta =>
          ((\E c \in Of(p) : Creating(c)) => \E c \in Of(p) : Creating(c)')
    BY <2>2 DEF Of
  <2> QED BY <2>1, <2>2, <2>3, <2>4 DEF MadeInv, Of
<1>3. ASSUME NEW c \in Conns, Act(c) PROVE MadeInv'
  BY <1>1, <1>3, MadeReady, MadeAct
<1> QED BY <1>2, <1>3, MadeCrash DEF BdbEnvNext, Act

LEMMA ReadyInitially ==
  ASSUME BdbEnvInit
  PROVE  LsnInv /\ MadeInv
<1>1. \A c \in Conns : btree[c].pc = "closed"
  BY DEF BdbEnvInit, NewBtree
<1>2. \A c \in Conns : ~Uses(c) /\ ~Creating(c)
  BY <1>1 DEF Uses, Late, Idle, Creating
<1>3. \A p \in Procs : ~bt[p].opened /\ ~bt[p].meta
  BY DEF BdbEnvInit, NoBtShared
<1>4. Solo(Setup)
  BY <1>2, <1>3 DEF Solo, Opened
<1> QED BY <1>1, <1>2, <1>3, <1>4 DEF BdbEnvInit, LsnInv, MadeInv

-----------------------------------------------------------------------------
\* sqlite3BtreeOpen, sqlite3BtreeBeginTrans, sqlite3BtreeClose and the errors
\* and crashes between them leave every variable of its type; the count of a
\* BtShared never goes below zero or past the number of connections.
THEOREM BdbTypeCorrect == BdbEnvSpec => []BdbEnvTypeOK
<1>1. BdbEnvInit => EnvInv
  BY EnvInitially
<1>2. EnvInv /\ [BdbEnvNext]_evars => EnvInv'
  BY EnvStep
<1>3. EnvInv => BdbEnvTypeOK
  BY DEF EnvInv
<1> QED BY <1>1, <1>2, <1>3, PTL DEF BdbEnvSpec

\* nRef of a BtShared is the number of connections of its process that have not
\* been closed, whichever opens fail and whenever a process dies: the last
\* sqlite3BtreeClose frees it, and none before.
THEOREM RefsCorrect == BdbEnvSpec => []RefsCounted
<1>1. BdbEnvInit => EnvInv
  BY EnvInitially
<1>2. EnvInv /\ [BdbEnvNext]_evars => EnvInv'
  BY EnvStep
<1>3. EnvInv => RefsCounted
  BY DEF EnvInv
<1> QED BY <1>1, <1>2, <1>3, PTL DEF BdbEnvSpec

\* If the family transaction of sqlite3BtreeBeginTrans can always be begun, the
\* directory is made and the environment opened under the open mutex only, and
\* no connection has it outside btreeOpenEnvironment.
THEOREM MutexCorrect ==
  ASSUME "familyFails" \notin Mishaps
  PROVE  BdbEnvSpec => []MutexFollows
<1> DEFINE Inv == EnvInv /\ MutexFollows
<1>1. BdbEnvInit => Inv
  BY EnvInitially
<1>2. Inv /\ [BdbEnvNext]_evars => Inv'
  BY EnvStep
<1>3. Inv => MutexFollows
  OBVIOUS
<1> QED BY <1>1, <1>2, <1>3, PTL DEF BdbEnvSpec

\* If, besides, the metadata that one connection of a process could read can be
\* read by the next, a connection with a transaction has an open environment, the
\* handles of the metadata and a family.
THEOREM EquippedCorrect ==
  ASSUME "familyFails" \notin Mishaps, "metaFails" \notin Mishaps
  PROVE  BdbEnvSpec => []Equipped
<1> DEFINE Inv == EnvInv /\ HandlesInv
<1>1. BdbEnvInit => Inv
  BY EnvInitially
<1>2. Inv /\ [BdbEnvNext]_evars => Inv'
  BY EnvStep
<1>3. Inv => Equipped
  BY DEF HandlesInv, Fits, Equipped, Active, Idle
<1> QED BY <1>1, <1>2, <1>3, PTL DEF BdbEnvSpec

\* If, besides, no other process opens the file meanwhile, a process dies or
\* fails without losing lsn_reset, and the directory is not removed under open
\* connections, then whoever uses the tables of a file whose directory is gone
\* has had btreeOpenMetaTables reset its LSNs.
THEOREM LsnsCorrect ==
  ASSUME {"familyFails", "overlap", "resetLost", "removeEarly"} \cap Mishaps = {}
  PROVE  BdbEnvSpec => []LsnsReset
<1> DEFINE Inv == EnvInv /\ MutexFollows /\ LsnInv
<1>1. BdbEnvInit => Inv
  BY EnvInitially, ReadyInitially
<1>2. Inv /\ [BdbEnvNext]_evars => Inv'
  BY EnvStep, LsnStep
<1>3. Inv => LsnsReset
  BY DEF LsnInv, LsnsReset, Solo, Uses, Late, Active, Idle
<1> QED BY <1>1, <1>2, <1>3, PTL DEF BdbEnvSpec

\* If, besides, the metadata of a file that is set up can be opened, the table
\* of the schema is made once: btreeCreateTable finds no table before it, and
\* who begins a transaction finds the table.
THEOREM MasterCorrect ==
  ASSUME {"familyFails", "overlap", "setupFails"} \cap Mishaps = {}
  PROVE  BdbEnvSpec => []MasterOnce
<1> DEFINE Inv == EnvInv /\ MutexFollows /\ MadeInv
<1>1. BdbEnvInit => Inv
  BY EnvInitially, ReadyInitially
<1>2. Inv /\ [BdbEnvNext]_evars => Inv'
  BY EnvStep, MadeStep
<1>3. Inv => MasterOnce
  BY DEF MadeInv, MasterOnce, Solo, Setup, Uses, Late, Active, Idle
<1> QED BY <1>1, <1>2, <1>3, PTL DEF BdbEnvSpec

=============================================================================
