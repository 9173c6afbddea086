------------------------------ MODULE RowidKey ------------------------------
(***************************************************************************)
(* The keys of a table in an LMDB database: not-fork.d/lmdb/files/btree.c  *)
(* stores a rowid with put8, reads it with get8 and, when the length of a  *)
(* key varies, has LMDB compare keys with rowid_compare.  A table is the   *)
(* set of its keys; LMDB walks it in key order.                            *)
(*                                                                         *)
(* A rowid has Width digits of base Base (8 bytes in the code) and the     *)
(* i64 of SQLite is cast to the u64 that put8 takes.                       *)
(***************************************************************************)
EXTENDS Integers, Sequences, FiniteSets

CONSTANTS
  Base, Width,   \* digits of a rowid: 256 and 8 in the code
  FixedRowid,    \* LUMO_LMDB_FIXED_ROWID
  Rowids         \* rowids that are inserted explicitly

\* Powers of the base.
Power[i \in 0..Width] == IF i = 0 THEN 1 ELSE Base * Power[i - 1]

Modulus == Power[Width]

MaxRowid == Modulus \div 2 - 1

ASSUME RowidAssumption ==
  /\ Base \in Nat /\ Base > 1 /\ Width \in Nat /\ Width > 0
  /\ FixedRowid \in BOOLEAN
  /\ Rowids \subseteq (-(MaxRowid + 1))..MaxRowid

VARIABLES
  keys,   \* the keys of the table
  at,     \* the key a scan is on, <<>> before its first row
  fresh   \* whether every rowid SQLite chose was unused

kvars == <<keys, at, fresh>>

-----------------------------------------------------------------------------
Unsigned(v) == IF v < 0 THEN v + Modulus ELSE v

Signed(u) == IF u > MaxRowid THEN u - Modulus ELSE u

\* u shifted right by up to Width digits.
Shifted(u) == LET s[i \in 0..Width] == IF i = 0 THEN u ELSE s[i - 1] \div Base
              IN s

\* Digit i of u, counted from the least significant one.
Digit(u, i) == Shifted(u)[i] % Base

\* The digits put8 writes without LUMO_LMDB_FIXED_ROWID: one at least, and then
\* until nothing is left.
Digits(u) == CHOOSE n \in 1..Width : /\ Shifted(u)[n] = 0
                                     /\ n = 1 \/ Shifted(u)[n - 1] # 0

\* Mutant of Put8: least significant byte first.
Put8Reversed(u) ==
  [i \in 1..(IF FixedRowid THEN Width ELSE Digits(u)) |-> Digit(u, i - 1)]

\* put8: most significant byte first.
Put8(u) == LET n == IF FixedRowid THEN Width ELSE Digits(u)
           IN [i \in 1..n |-> Digit(u, n - i)]

\* get8.
Get8(b) == LET sum[i \in 0..Len(b)] ==
                 IF i = 0 THEN 0 ELSE sum[i - 1] * Base + b[i]
           IN sum[Len(b)]

\* memcmp of two keys of the same length.
BytesLess(a, b) ==
  \E i \in 1..Len(a) : a[i] < b[i] /\ \A j \in 1..(i - 1) : a[j] = b[j]

\* Mutant of KeyLess: compared like strings, whatever their lengths.
KeyLessBytes(a, b) ==
  LET n == IF Len(a) < Len(b) THEN Len(a) ELSE Len(b)
  IN \/ BytesLess(SubSeq(a, 1, n), SubSeq(b, 1, n))
     \/ SubSeq(a, 1, n) = SubSeq(b, 1, n) /\ Len(a) < Len(b)

\* rowid_compare: the longer key is the bigger one.  Keys of fixed length are
\* compared by LMDB's own memcmp.
KeyLess(a, b) == Len(a) < Len(b) \/ (Len(a) = Len(b) /\ BytesLess(a, b))

First == CHOOSE a \in keys : \A b \in keys \ {a} : KeyLess(a, b)

Last == CHOOSE a \in keys : \A b \in keys \ {a} : KeyLess(b, a)

Rowid(b) == Signed(Get8(b))

RowidTypeOK ==
  /\ keys \subseteq {Put8(u) : u \in 0..(Modulus - 1)}
  /\ at \in keys \cup {<<>>}
  /\ fresh \in BOOLEAN

RowidInit == keys = {} /\ at = <<>> /\ fresh = TRUE

-----------------------------------------------------------------------------
\* sqlite3BtreeInsert of a row whose rowid is given.
InsertAt(v) ==
  /\ keys' = keys \cup {Put8(Unsigned(v))}
  /\ UNCHANGED <<at, fresh>>

\* OP_NewRowid and sqlite3BtreeInsert: SQLite takes the rowid after that of the
\* last row, and when the last row has the largest rowid, an unused one.
InsertNew ==
  \E v \in (-MaxRowid)..MaxRowid :
    /\ IF keys = {} THEN v = 1
       ELSE IF Rowid(Last) < MaxRowid THEN v = Rowid(Last) + 1
       ELSE v > 0 /\ Put8(v) \notin keys
    /\ keys' = keys \cup {Put8(Unsigned(v))}
    /\ fresh' = (fresh /\ Put8(Unsigned(v)) \notin keys)
    /\ UNCHANGED at

\* sqlite3BtreeDelete of the row with rowid v, found by its key; a scan is not
\* on it.
DeleteAt(v) ==
  /\ Put8(Unsigned(v)) \in keys \ {at}
  /\ keys' = keys \ {Put8(Unsigned(v))}
  /\ UNCHANGED <<at, fresh>>

\* sqlite3BtreeFirst, sqlite3BtreeNext.
Scan ==
  /\ LET rest == {b \in keys : at = <<>> \/ KeyLess(at, b)}
     IN \E b \in rest : /\ \A o \in rest \ {b} : KeyLess(b, o)
                        /\ at' = b
  /\ UNCHANGED <<keys, fresh>>

Rewind == at # <<>> /\ at' = <<>> /\ UNCHANGED <<keys, fresh>>

RowidNext ==
  \/ \E v \in Rowids : InsertAt(v) \/ DeleteAt(v)
  \/ InsertNew \/ Scan \/ Rewind

RowidSpec == RowidInit /\ [][RowidNext]_kvars

-----------------------------------------------------------------------------
\* A scan of a table visits its rows in the order of their rowids, which is
\* what the comment of put8 means by "they sort correctly".
ScanAscends == [][at # <<>> /\ at' # <<>> /\ at' # at => Rowid(at) < Rowid(at')]_kvars

\* The rowid SQLite chooses for a new row is not that of a row that exists,
\* which the insertion would overwrite.
NewRowidIsFresh == fresh

\* A scan leaves no row out: whatever has a smaller rowid than the row it comes
\* to is not beyond the row it leaves.
NothingSkipped ==
  [][at' # at /\ at' # <<>> =>
       \A b \in keys : Rowid(b) < Rowid(at')
                         => at # <<>> /\ Rowid(b) <= Rowid(at)]_kvars

=============================================================================
