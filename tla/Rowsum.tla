------------------------------- MODULE Rowsum -------------------------------
(***************************************************************************)
(* The hidden column of LumoSQL (not-fork.d/sqlite3/files/lumo-vdbeAdd.c)  *)
(* and the places of SQLite's VDBE that vdbe-changes.mod makes call it:    *)
(* OP_Insert and OP_IdxInsert append an extension with a checksum to every *)
(* record, OP_Column looks for it when it reads the first column of a      *)
(* record, and two pragmas set which checksum is written and how strictly  *)
(* it is checked.  Both settings are variables of the process, so they     *)
(* change under statements that are running.                               *)
(*                                                                         *)
(* A record is the number of its columns, its extension, what has happened *)
(* to its bytes since, and how much of it a cursor has in memory when      *)
(* OP_Column looks at it.                                                  *)
(***************************************************************************)
EXTENDS Integers

CONSTANTS
  Entries,         \* table rows and index entries
  IndexEntries,    \* those that are index entries
  Hashes,          \* checksum algorithms of this build
  OtherHash,       \* one that only another build has
  FirstCols,       \* columns of the table when it is created
  MaxCols          \* bound: columns ALTER TABLE ADD COLUMN may reach

ASSUME RowsumAssumption ==
  /\ IndexEntries \subseteq Entries
  /\ OtherHash \notin Hashes \cup {"empty", "none", "absent"}
  /\ Hashes \cap {"empty", "none", "absent"} = {}
  /\ FirstCols \in Nat \ {0} /\ MaxCols \in Nat /\ FirstCols <= MaxCols

VARIABLES
  algorithm,  \* lumo_rowsum_algorithm
  check,      \* lumo_extension_check_rowsum: 0 no, 1 if present, 2 always
  ncols,      \* columns of the table
  stored,     \* the records in the file
  reader      \* a statement that reads one record after the other

rvars == <<algorithm, check, ncols, stored, reader>>

-----------------------------------------------------------------------------
\* "empty" is a checksum of length 0.
Known == Hashes \cup {"empty"}

Algorithms == Known \cup {"none"}

\* Bytes have changed: the columns or the checksum, the number of the algorithm
\* (to one whose checksums have another length), the lengths and the end of the
\* extension, or its magic string.
Damages == {"columns", "number", "form", "magic"}

\* loaded: the bytes OP_Column has in memory reach to the end of the extension.
Records == [cols : 1..MaxCols, ext : Known \cup {OtherHash, "absent"},
            damage : Damages \cup {"none"}, loaded : BOOLEAN]

Nothing == "nothing"

\* on: the record it is on; fresh: no column of it was read yet; asked: how
\* strictly it was checked when the first one was; unread: its columns could not
\* be read for that; got: the last answer.
Readers == [on : Entries \cup {Nothing}, fresh : BOOLEAN, asked : 0..2,
            unread : BOOLEAN,
            got : {"nothing", "value", "default", "extension", "corrupt"}]

NoReader == [on |-> Nothing, fresh |-> TRUE, asked |-> 0, unread |-> FALSE,
             got |-> "nothing"]

RowsumTypeOK ==
  /\ algorithm \in Algorithms
  /\ check \in 0..2
  /\ ncols \in FirstCols..MaxCols
  /\ DOMAIN stored \subseteq Entries
  /\ \A e \in DOMAIN stored : stored[e] \in Records
  /\ reader \in Readers
  /\ reader.on # Nothing => reader.on \in DOMAIN stored

\* The settings a process starts with, and an empty file.
RowsumInit ==
  /\ algorithm \in Hashes
  /\ check = 2
  /\ ncols = FirstCols
  /\ stored = << >>
  /\ reader = NoReader

-----------------------------------------------------------------------------
\* PRAGMA lumo_rowsum_algorithm.  The comment in lumo_parse_pragma: without
\* checksums and with the check set to "always" the next update would fail.
SetAlgorithm(a) ==
  /\ algorithm' = a
  /\ check' = IF a = "none" /\ check > 1 THEN 1 ELSE check
  /\ UNCHANGED <<ncols, stored, reader>>

\* PRAGMA lumo_check_rowsum.
SetCheck(n) ==
  /\ check' = n
  /\ UNCHANGED <<algorithm, ncols, stored, reader>>

\* The columns OP_Column may be asked for (nField of its cursor).
Fields(e) == IF e \in IndexEntries THEN 1 ELSE ncols

\* A record is replaced by a statement that is not reading it.
Store(e, ext, loaded) ==
  /\ reader.on # e
  /\ stored' = [x \in DOMAIN stored \cup {e} |->
                  IF x = e THEN [cols |-> Fields(e), ext |-> ext,
                                 damage |-> "none", loaded |-> loaded]
                           ELSE stored[x]]
  /\ UNCHANGED <<algorithm, check, ncols, reader>>

\* OP_Insert and OP_IdxInsert: lumoExtensionAdd appends what the setting says.
Insert(e, loaded) ==
  Store(e, IF algorithm = "none" THEN "absent" ELSE algorithm, loaded)

\* The same file written by SQLite without extensions or by another build.
InsertElsewhere(e, ext, loaded) == Store(e, ext, loaded)

\* Bytes of a record change on the medium.
Damage(e, d) ==
  /\ e \in DOMAIN stored /\ reader.on # e /\ stored[e].damage = "none"
  /\ d # "columns" => stored[e].ext # "absent"
  /\ d = "number" => stored[e].ext \in Known
  /\ stored' = [stored EXCEPT ![e].damage = d]
  /\ UNCHANGED <<algorithm, check, ncols, reader>>

\* ALTER TABLE ADD COLUMN changes the schema and no record.
AddColumn ==
  /\ ncols < MaxCols
  /\ ncols' = ncols + 1
  /\ reader' = NoReader
  /\ UNCHANGED <<algorithm, check, stored>>

-----------------------------------------------------------------------------
\* Entries of the record's header: in a table the extension is a further BLOB,
\* in an index it has no entry.
Width(e) ==
  stored[e].cols +
    IF e \notin IndexEntries /\ stored[e].ext # "absent" THEN 1 ELSE 0

\* Mutant of Present: the column that was just read is counted twice.
PresentShort(e) == e \in IndexEntries \/ Fields(e) < stored[e].cols

\* lumoExtensionPresent: skip the columns the cursor knows of; what follows
\* them may be the extension.  For an index entry without one the length between
\* the columns and a second copy of the ROWID is negative, and compared as if it
\* were huge, so that the magic string has to rule it out.
Present(e) == e \in IndexEntries \/ Fields(e) < Width(e)

\* Mutant of Matches: check_rowsum takes every checksum for its own.
MatchesAny(e, unread) == TRUE

\* check_rowsum clears need_rowsum: the checksum is that of the columns, which
\* sqlite3BtreePayload has read, or there is no way to tell.
Matches(e, unread) ==
  stored[e].ext \in Hashes => stored[e].damage # "columns" /\ ~unread

\* lumoExtensionHandle returns an error whatever need_rowsum says: lengths that do
\* not fit, or a checksum that has not the length of its algorithm, which is
\* looked at by check_rowsum only.
Malformed(e) ==
  stored[e].damage = "form" \/ (stored[e].damage = "number" /\ check > 0)

\* lumoExtensionHandle: 0 when the magic string is missing, -1 for an error, 1
\* when all is well.  A checksum that does not match and columns that cannot be
\* read only keep need_rowsum, which is set for "always".  The extension is taken
\* to be in memory; otherwise, and behind an index entry without one, stray bytes
\* decide.  In the latter case no checksum can be found among them.
Handle(e, unread, stray) ==
  LET r     == stored[e]
      there == r.ext # "absent" /\ r.loaded
  IN CASE r.ext = "absent"              -> IF stray = 1 /\ check = 2 THEN -1 ELSE stray
       [] r.ext # "absent" /\ ~r.loaded -> stray
       [] there /\ r.damage = "magic"   -> 0
       [] there /\ r.damage # "magic"   ->
            IF Malformed(e) \/ (check = 2 /\ ~Matches(e, unread)) THEN -1 ELSE 1

\* What the first read of a record by OP_Column decides.
Accepted(e, unread, stray) ==
  IF Present(e) /\ Handle(e, unread, stray) # 0
  THEN Handle(e, unread, stray) = 1 ELSE check < 2

\* The statement moves to a record.
Position(e) ==
  /\ e \in DOMAIN stored
  /\ reader' = [NoReader EXCEPT !.on = e]
  /\ UNCHANGED <<algorithm, check, ncols, stored>>

\* OP_Column for column p2, counted from 0.  A column the header does not
\* have is answered with its default before anything is checked; the check
\* runs with the first OP_Column of a record or never.  unread: reading the columns
\* for it fails, as sqlite3BtreePayload of the LMDB backend always does.
Column(p2, unread, stray) ==
  LET e     == reader.on
      found == p2 < Width(e)
      first == found /\ reader.fresh
      ok    == first => Accepted(e, unread, stray)
  IN /\ e # Nothing /\ reader.got # "corrupt"
     /\ p2 < Fields(e)
     /\ reader' = [reader EXCEPT
          !.fresh = FALSE,
          !.asked = IF reader.fresh THEN check ELSE @,
          !.unread = @ \/ (first /\ unread),
          !.got   = CASE ~found                        -> "default"
                      [] found /\ ~ok                  -> "corrupt"
                      [] found /\ ok /\ p2 < stored[e].cols -> "value"
                      [] OTHER                         -> "extension"]
     /\ UNCHANGED <<algorithm, check, ncols, stored>>

RowsumNext ==
  \/ \E a \in Algorithms : SetAlgorithm(a)
  \/ \E n \in 0..2 : SetCheck(n)
  \/ \E e \in Entries :
       \/ Position(e)
       \/ \E d \in Damages : Damage(e, d)
       \/ \E loaded \in BOOLEAN :
            \/ Insert(e, loaded)
            \/ \E ext \in {"absent", OtherHash} : InsertElsewhere(e, ext, loaded)
  \/ AddColumn
  \/ \E p2 \in 0..(MaxCols - 1), unread \in BOOLEAN, stray \in {-1, 0, 1} :
       Column(p2, unread, stray)

RowsumSpec == RowsumInit /\ [][RowsumNext]_rvars

-----------------------------------------------------------------------------
\* The record under the reader has all the columns of the table: none was
\* added after it was written.
Complete == stored[reader.on].cols = Fields(reader.on)

\* The record under the reader has an extension and is as it was written.
Intact == stored[reader.on].ext # "absent" /\ stored[reader.on].damage = "none"

\* Whatever order the pragmas, the writes and the columns of a statement come
\* in, a complete record that carries an extension and was not damaged is not
\* reported corrupt, if its extension is in memory and its columns can be read.
RowsReadable ==
  reader.got = "corrupt" /\ Complete =>
    ~Intact \/ ~stored[reader.on].loaded \/ reader.unread

\* Under "always" no column is delivered from a complete record without a
\* checksum, nor, if the extension is in memory, from one whose extension is
\* damaged or, if this build can compute it, whose checksum is wrong.
AlwaysVerifies ==
  reader.got = "value" /\ reader.asked = 2 /\ Complete =>
    /\ stored[reader.on].ext # "absent"
    /\ stored[reader.on].loaded =>
         /\ stored[reader.on].damage \in {"none", "columns"}
         /\ stored[reader.on].ext \in Hashes => Intact

\* lumo-vdbeInt.h of lumoExtensionHandle: "return 0 if not handled (not a Lumo
\* column), 1 if OK, -1 if error".
IntactIsHandled == reader.got = "corrupt" /\ Complete => ~Intact

\* lumo-vdbeInt.h of the setting "yes": "we check it if present".
IfPresentVerifies ==
  reader.got = "value" /\ reader.asked = 1 /\ stored[reader.on].loaded
    /\ stored[reader.on].ext \in Hashes => Intact

\* lumoExtensionAdd of the column it adds: "vdbe will never actually read it
\* because it won't look for it".
NeverReadsExtension == reader.got # "extension"

=============================================================================
