---------------------------- MODULE RowsumProofs ----------------------------
(***************************************************************************)
(* The checksums of rows, for any number of entries, columns and checksum  *)
(* algorithms.  The two settings are variables of the process and change   *)
(* between two columns of the same row, but a row is checked once, with    *)
(* its first column, and nobody rewrites the row under a reader.  So what  *)
(* the first column has found out stays true of the row (Verified), and an *)
(* error is justified by the row, by the bytes of it in memory, or by the  *)
(* read that failed (RowsReadable).                                        *)
(***************************************************************************)
EXTENDS Rowsum, TLAPS

\* What a record is whose columns are delivered under "always".
Vouched(r) ==
  /\ r.ext # "absent"
  /\ r.loaded => /\ r.damage \in {"none", "columns"}
                 /\ r.ext \in Hashes => r.damage = "none"

\* A reader that has read a column of a complete row under "always".
Verified ==
  /\ reader.on # Nothing /\ ~reader.fresh
  /\ reader.asked = 2 /\ reader.got # "corrupt" /\ Complete
  => Vouched(stored[reader.on])

\* An answer is about a record, and was given by the first column or later.
Answered ==
  /\ reader.on = Nothing => reader.got = "nothing"
  /\ reader.fresh => reader.got = "nothing"

RowsumInv == RowsumTypeOK /\ Answered /\ Verified /\ RowsReadable

-----------------------------------------------------------------------------
LEMMA FieldsType ==
  ASSUME RowsumTypeOK, NEW e \in Entries
  PROVE  Fields(e) \in 1..MaxCols
BY RowsumAssumption DEF RowsumTypeOK, Fields

\* Every step of a writer leaves the record under the reader alone.
Undisturbed ==
  /\ UNCHANGED <<algorithm, check, ncols, reader>>
  /\ DOMAIN stored \subseteq DOMAIN stored'
  /\ \A e \in DOMAIN stored : e = reader.on => stored'[e] = stored[e]

LEMMA StoreStep ==
  ASSUME RowsumTypeOK, NEW e \in Entries, NEW ext \in Known \cup {OtherHash, "absent"},
         NEW loaded \in BOOLEAN, Store(e, ext, loaded)
  PROVE  RowsumTypeOK' /\ Undisturbed
<1> DEFINE r == [cols |-> Fields(e), ext |-> ext, damage |-> "none", loaded |-> loaded]
<1>1. r \in Records
  BY FieldsType DEF Records
<1>2. reader.on # e /\ UNCHANGED <<algorithm, check, ncols, reader>>
      /\ stored' = [x \in DOMAIN stored \cup {e} |-> IF x = e THEN r ELSE stored[x]]
  BY DEF Store
<1> HIDE DEF r
<1>3. /\ DOMAIN stored' = DOMAIN stored \cup {e} /\ stored'[e] = r
      /\ \A x \in DOMAIN stored \ {e} : stored'[x] = stored[x]
  BY <1>2
<1>4. Undisturbed
  BY <1>2, <1>3 DEF Undisturbed
<1>5. \A x \in DOMAIN stored' : stored'[x] \in Records
  BY <1>1, <1>3 DEF RowsumTypeOK
<1> QED BY <1>2, <1>3, <1>4, <1>5 DEF RowsumTypeOK

LEMMA DamageStep ==
  ASSUME RowsumTypeOK, NEW e \in Entries, NEW d \in Damages, Damage(e, d)
  PROVE  RowsumTypeOK' /\ Undisturbed
<1> DEFINE r == [stored[e] EXCEPT !.damage = d]
<1>1. e \in DOMAIN stored /\ reader.on # e /\ stored' = [stored EXCEPT ![e] = r]
      /\ UNCHANGED <<algorithm, check, ncols, reader>>
  BY DEF Damage
<1>2. r \in Records
  BY <1>1 DEF RowsumTypeOK, Records
<1> HIDE DEF r
<1>3. /\ DOMAIN stored' = DOMAIN stored /\ stored'[e] = r
      /\ \A x \in DOMAIN stored \ {e} : stored'[x] = stored[x]
  BY <1>1
<1>4. Undisturbed
  BY <1>1, <1>3 DEF Undisturbed
<1>5. \A x \in DOMAIN stored' : stored'[x] \in Records
  BY <1>2, <1>3 DEF RowsumTypeOK
<1> QED BY <1>1, <1>3, <1>4, <1>5 DEF RowsumTypeOK

LEMMA UndisturbedKeeps ==
  ASSUME RowsumInv, Undisturbed
  PROVE  Answered' /\ Verified' /\ RowsReadable'
<1>1. UNCHANGED <<reader, ncols>>
  BY DEF Undisturbed
<1>2. ASSUME reader.on # Nothing
      PROVE  stored'[reader.on] = stored[reader.on] /\ (Complete' <=> Complete)
  <2>1. reader.on \in DOMAIN stored
    BY <1>2 DEF RowsumInv, RowsumTypeOK
  <2>2. stored'[reader.on] = stored[reader.on]
    BY <2>1 DEF Undisturbed
  <2> QED BY <1>1, <2>2 DEF Complete, Fields
<1>3. CASE reader.on = Nothing
  BY <1>1, <1>3 DEF RowsumInv, Answered, Verified, RowsReadable
<1>4. CASE reader.on # Nothing
  BY <1>1, <1>2, <1>4 DEF RowsumInv, Answered, Verified, RowsReadable, Intact
<1> QED BY <1>3, <1>4

-----------------------------------------------------------------------------
\* The pragmas change what will be asked, not what was.
LEMMA PragmaStep ==
  ASSUME RowsumInv,
         \/ \E a \in Algorithms : SetAlgorithm(a)
         \/ \E n \in 0..2 : SetCheck(n)
  PROVE  RowsumInv'
<1>1. UNCHANGED <<ncols, stored, reader>>
  BY DEF SetAlgorithm, SetCheck
<1>2. algorithm' \in Algorithms /\ check' \in 0..2
  BY DEF SetAlgorithm, SetCheck, RowsumInv, RowsumTypeOK
<1>3. RowsumTypeOK'
  BY <1>1, <1>2 DEF RowsumInv, RowsumTypeOK
<1> QED BY <1>1, <1>3 DEF RowsumInv, Answered, Verified, RowsReadable, Intact, Complete, Fields

LEMMA PositionStep ==
  ASSUME RowsumInv, NEW e \in Entries, Position(e)
  PROVE  RowsumInv'
<1>1. e \in DOMAIN stored /\ UNCHANGED <<algorithm, check, ncols, stored>>
  BY DEF Position
<1>2. reader' = [on |-> e, fresh |-> TRUE, asked |-> 0, unread |-> FALSE,
                     got |-> "nothing"]
  BY DEF Position, NoReader
<1>3. RowsumTypeOK'
  BY <1>1, <1>2 DEF RowsumInv, RowsumTypeOK, Readers
<1> QED BY <1>2, <1>3 DEF RowsumInv, Answered, Verified, RowsReadable

LEMMA AddColumnStep ==
  ASSUME RowsumInv, AddColumn
  PROVE  RowsumInv'
<1>1. reader' = [on |-> Nothing, fresh |-> TRUE, asked |-> 0, unread |-> FALSE,
                     got |-> "nothing"]
  BY DEF AddColumn, NoReader
<1>2. RowsumTypeOK'
  BY <1>1, RowsumAssumption DEF AddColumn, RowsumInv, RowsumTypeOK, Readers
<1> QED BY <1>1, <1>2 DEF RowsumInv, Answered, Verified, RowsReadable

\* The extension of a complete row is found: it is where the columns the
\* cursor knows of end.
LEMMA ExtensionFound ==
  ASSUME RowsumTypeOK, NEW e \in DOMAIN stored, stored[e].cols = Fields(e)
  PROVE  /\ stored[e].ext # "absent" => Present(e)
         /\ \A p2 \in Nat : p2 < Fields(e) => p2 < Width(e)
<1>1. stored[e].cols \in Int /\ Fields(e) \in Int
  BY FieldsType DEF RowsumTypeOK
<1> QED BY <1>1 DEF Present, Width

\* What the first column decides about a complete row.
LEMMA AcceptedIff ==
  ASSUME RowsumTypeOK, NEW e \in DOMAIN stored, stored[e].cols = Fields(e),
         NEW unread \in BOOLEAN, NEW stray \in {-1, 0, 1}
  PROVE  /\ Accepted(e, unread, stray) /\ check = 2 => Vouched(stored[e])
         /\ ~Accepted(e, unread, stray) =>
              \/ stored[e].ext = "absent" \/ stored[e].damage # "none"
              \/ ~stored[e].loaded \/ unread
<1>1. check \in {0, 1, 2} /\ stored[e] \in Records
  BY DEF RowsumTypeOK
<1>2. CASE stored[e].ext = "absent"
  <2>1. check = 2 => Handle(e, unread, stray) \in {-1, 0}
    BY <1>2 DEF Handle
  <2> QED BY <1>1, <1>2, <2>1 DEF Accepted, Vouched
<1>3. CASE stored[e].ext # "absent" /\ ~stored[e].loaded
  BY <1>3 DEF Vouched
<1>4. CASE stored[e].ext # "absent" /\ stored[e].loaded /\ stored[e].damage = "magic"
  <2>1. Present(e) /\ Handle(e, unread, stray) = 0
    BY <1>4, ExtensionFound DEF Handle
  <2> QED BY <1>1, <1>4, <2>1 DEF Accepted
<1>5. CASE stored[e].ext # "absent" /\ stored[e].loaded /\ stored[e].damage # "magic"
  <2>1. Present(e)
        /\ Handle(e, unread, stray) =
             IF Malformed(e) \/ (check = 2 /\ ~Matches(e, unread)) THEN -1 ELSE 1
    BY <1>5, ExtensionFound DEF Handle
  <2>2. Accepted(e, unread, stray) <=>
          ~(Malformed(e) \/ (check = 2 /\ ~Matches(e, unread)))
    BY <2>1 DEF Accepted
  <2>3. ~Accepted(e, unread, stray) => stored[e].damage # "none" \/ unread
    BY <2>2 DEF Malformed, Matches
  <2>4. ASSUME Accepted(e, unread, stray), check = 2
        PROVE  Vouched(stored[e])
    <3>1. stored[e].damage \in {"none", "columns"}
      BY <1>1, <1>5, <2>2, <2>4 DEF Malformed, Records, Damages
    <3>2. stored[e].ext \in Hashes => stored[e].damage # "columns"
      BY <2>2, <2>4 DEF Matches
    <3> QED BY <1>5, <3>1, <3>2 DEF Vouched
  <2> QED BY <2>3, <2>4
<1> QED BY <1>2, <1>3, <1>4, <1>5

LEMMA ColumnStep ==
  ASSUME RowsumInv, NEW p2 \in 0..(MaxCols - 1), NEW unread \in BOOLEAN,
         NEW stray \in {-1, 0, 1}, Column(p2, unread, stray)
  PROVE  RowsumInv'
<1> DEFINE e     == reader.on
           found == p2 < Width(e)
           first == found /\ reader.fresh
           ok    == first => Accepted(e, unread, stray)
           asked == IF reader.fresh THEN check ELSE reader.asked
           lost  == reader.unread \/ (first /\ unread)
           got   == CASE ~found                        -> "default"
                      [] found /\ ~ok                  -> "corrupt"
                      [] found /\ ok /\ p2 < stored[e].cols -> "value"
                      [] OTHER                         -> "extension"
<1>1. /\ RowsumTypeOK /\ e # Nothing /\ reader.got # "corrupt" /\ p2 < Fields(e)
      /\ UNCHANGED <<algorithm, check, ncols, stored>>
      /\ reader' = [reader EXCEPT !.fresh = FALSE, !.asked = asked,
                                  !.unread = lost, !.got = got]
  BY DEF Column, RowsumInv
<1>2. e \in DOMAIN stored /\ reader \in Readers /\ check \in 0..2
  BY <1>1 DEF RowsumTypeOK
<1>3. asked \in 0..2 /\ got \in {"value", "default", "extension", "corrupt"}
  BY <1>2 DEF Readers
<1>4. got = "corrupt" <=> found /\ ~ok
  OBVIOUS
<1>5. lost \in BOOLEAN
  BY <1>2 DEF Readers
<1> HIDE DEF got, asked, lost
<1>6. reader' \in Readers /\ reader'.on = e /\ ~reader'.fresh
      /\ reader'.asked = asked /\ reader'.unread = lost /\ reader'.got = got
  BY <1>1, <1>2, <1>3, <1>5 DEF Readers
<1>7. RowsumTypeOK'
  BY <1>1, <1>2, <1>6 DEF RowsumTypeOK
<1>8. Complete' <=> stored[e].cols = Fields(e)
  BY <1>1, <1>6 DEF Complete, Fields
<1>9. Verified'
  <2> SUFFICES ASSUME asked = 2, got # "corrupt", stored[e].cols = Fields(e)
               PROVE  Vouched(stored[e])
    BY <1>1, <1>6, <1>8 DEF Verified, Vouched
  <2>1. found
    BY <1>1, <1>2, ExtensionFound
  <2>2. ok
    BY <1>4, <2>1
  <2>3. CASE reader.fresh
    BY <1>1, <1>2, <2>1, <2>2, <2>3, AcceptedIff DEF asked
  <2>4. CASE ~reader.fresh
    BY <1>1, <2>4 DEF asked, RowsumInv, Verified, Complete
  <2> QED BY <2>3, <2>4
<1>10. RowsReadable'
  <2> SUFFICES ASSUME got = "corrupt", stored[e].cols = Fields(e)
               PROVE  \/ ~(stored[e].ext # "absent" /\ stored[e].damage = "none")
                      \/ ~stored[e].loaded \/ lost
    BY <1>1, <1>6, <1>8 DEF RowsReadable, Intact
  <2>1. first /\ ~Accepted(e, unread, stray)
    BY <1>4
  <2> QED BY <1>1, <1>2, <2>1, AcceptedIff DEF lost
<1>11. Answered'
  BY <1>1, <1>6 DEF Answered
<1> QED BY <1>7, <1>9, <1>10, <1>11 DEF RowsumInv

-----------------------------------------------------------------------------
LEMMA RowsumStep ==
  ASSUME RowsumInv, [RowsumNext]_rvars
  PROVE  RowsumInv'
<1>1. RowsumTypeOK
  BY DEF RowsumInv
<1>2. CASE UNCHANGED rvars
  BY <1>2 DEF rvars, RowsumInv, RowsumTypeOK, Answered, Verified, RowsReadable, Intact, Complete, Fields
<1>3. ASSUME NEW e \in Entries, NEW loaded \in BOOLEAN, Insert(e, loaded)
      PROVE  RowsumInv'
  <2> DEFINE ext == IF algorithm = "none" THEN "absent" ELSE algorithm
  <2>1. ext \in Known \cup {OtherHash, "absent"}
    BY <1>1 DEF RowsumTypeOK, Algorithms
  <2>2. Store(e, ext, loaded)
    BY <1>3 DEF Insert
  <2> HIDE DEF ext
  <2> QED BY <1>1, <2>1, <2>2, StoreStep, UndisturbedKeeps DEF RowsumInv
<1>4. ASSUME NEW e \in Entries, NEW ext \in {"absent", OtherHash},
             NEW loaded \in BOOLEAN, InsertElsewhere(e, ext, loaded)
      PROVE  RowsumInv'
  BY <1>1, <1>4, StoreStep, UndisturbedKeeps DEF InsertElsewhere, RowsumInv
<1>5. ASSUME NEW e \in Entries, NEW d \in Damages, Damage(e, d) PROVE RowsumInv'
  BY <1>1, <1>5, DamageStep, UndisturbedKeeps DEF RowsumInv
<1> QED BY <1>2, <1>3, <1>4, <1>5, PragmaStep, PositionStep, AddColumnStep, ColumnStep
        DEF RowsumNext

LEMMA RowsumInitially == RowsumInit => RowsumInv
<1> SUFFICES ASSUME RowsumInit PROVE RowsumInv
  OBVIOUS
<1>1. stored = << >> /\ DOMAIN stored = {}
  BY DEF RowsumInit
<1>2. reader = [on |-> Nothing, fresh |-> TRUE, asked |-> 0, unread |-> FALSE,
                     got |-> "nothing"]
  BY DEF RowsumInit, NoReader
<1>3. RowsumTypeOK
  BY <1>1, <1>2, RowsumAssumption
     DEF RowsumInit, RowsumTypeOK, Algorithms, Known, Readers
<1> QED BY <1>2, <1>3 DEF RowsumInv, Answered, Verified, RowsReadable

\* Whatever order the pragmas, the writes and the columns of a statement come
\* in: every record keeps the form OP_Insert gave it, and the reader is on one.
THEOREM RowsumTypeCorrect == RowsumSpec => []RowsumTypeOK
<1>1. RowsumInv /\ [RowsumNext]_rvars => RowsumInv'
  BY RowsumStep
<1>2. RowsumInv => RowsumTypeOK
  BY DEF RowsumInv
<1> QED BY RowsumInitially, <1>1, <1>2, PTL DEF RowsumSpec

\* A complete record with an extension that was not damaged is refused only if
\* the extension is not in memory or reading the columns fails for its first
\* OP_Column, whichever build wrote it and whatever lumo_check_rowsum is set to
\* while the statement runs.
THEOREM ReadableCorrect == RowsumSpec => []RowsReadable
<1>1. RowsumInv /\ [RowsumNext]_rvars => RowsumInv'
  BY RowsumStep
<1>2. RowsumInv => RowsReadable
  BY DEF RowsumInv
<1> QED BY RowsumInitially, <1>1, <1>2, PTL DEF RowsumSpec

\* Under "always" no column of a complete record is delivered that carries no
\* extension or, if the extension is in memory, a damaged one or a wrong
\* checksum: the later columns included, which are not checked themselves.
THEOREM VerifiesCorrect == RowsumSpec => []AlwaysVerifies
<1>1. RowsumInv /\ [RowsumNext]_rvars => RowsumInv'
  BY RowsumStep
<1>2. RowsumInv => AlwaysVerifies
  BY DEF RowsumInv, Answered, Verified, Vouched, AlwaysVerifies, Intact
<1> QED BY RowsumInitially, <1>1, <1>2, PTL DEF RowsumSpec

=============================================================================
