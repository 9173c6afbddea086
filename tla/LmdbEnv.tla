------------------------------ MODULE LmdbEnv ------------------------------
(***************************************************************************)
(* What LumoSQL's LMDB backend keeps inside an LMDB environment, and the   *)
(* LMDB calls it uses on it.  LMDB itself is external: its operations are  *)
(* modelled from the way not-fork.d/lmdb/files/btree.c calls them.         *)
(*                                                                         *)
(* A view is everything one LMDB transaction can read: the named databases *)
(* "t%08x" (one per b-tree root page) with their rows, and the database    *)
(* "meta" with the values the backend stores in it.                        *)
(***************************************************************************)
EXTENDS Integers, FiniteSets

CONSTANTS
  Keys,         \* row keys (rowids)
  Vals,         \* row contents
  NoVal,        \* the content of a row that is not there
  MaxRoot,      \* bound: the largest root page CreateTable may hand out
  SchemaVals,   \* values of the meta entry BTREE_SCHEMA_VERSION
  TransTypes,   \* values of the meta entry LUMO_LMDB_TRANSACTION
  DefaultType,  \* what get_meta_32_direct returns when the entry is absent
  CounterMod    \* the commit counter wraps here (2^32 in the code)

ASSUME EnvAssumption ==
  /\ NoVal \notin Vals
  /\ MaxRoot \in Nat /\ MaxRoot >= 2
  /\ 0 \in SchemaVals
  /\ TransTypes \subseteq {"optimistic", "noupgrade", "serialise"}
  /\ DefaultType \in TransTypes
  /\ CounterMod \in Nat /\ CounterMod > 1

-----------------------------------------------------------------------------
\* Page 1 always exists once the file has been opened read/write; CreateTable
\* never hands out page 2.
Roots == {1} \cup 3..MaxRoot

Content == [Keys -> Vals \cup {NoVal}]

NoRows == [k \in Keys |-> NoVal]

\* The part of a view SQL can see, and the two entries only the backend uses.
DataSet == [tabs    : SUBSET Roots,
            rows    : [Roots -> Content],
            largest : {0} \cup 3..MaxRoot,
            schema  : SchemaVals]

View == [data : DataSet, counter : 0..(CounterMod - 1), ttype : TransTypes]

EmptyData == [tabs    |-> {},
              rows    |-> [r \in Roots |-> NoRows],
              largest |-> 0,
              schema  |-> 0]

EmptyView == [data |-> EmptyData, counter |-> 0, ttype |-> DefaultType]

-----------------------------------------------------------------------------
\* mdb_dbi_open(MDB_CREATE): an existing database is opened as it is.
MdbCreate(d, r) == [d EXCEPT !.tabs = @ \cup {r}]

\* mdb_cursor_put, mdb_cursor_del on one key of an existing database.
MdbPut(d, r, k, x) == [d EXCEPT !.rows[r][k] = x]

\* mdb_drop(del = 0) empties a database, mdb_drop(del = 1) deletes it as well.
MdbEmpty(d, r) == [d EXCEPT !.rows[r] = NoRows]

MdbDelete(d, r) == [d EXCEPT !.rows[r] = NoRows, !.tabs = @ \ {r}]

\* get_meta_64 returns an int, so counters are compared and stored modulo 2^32.
NextCounter(n) == (n + 1) % CounterMod

=============================================================================
