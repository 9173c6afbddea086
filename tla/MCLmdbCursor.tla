---------------------------- MODULE MCLmdbCursor ----------------------------
(* Small instances of LmdbCursor.  The cursors of a connection are          *)
(* interchangeable; keys are not, they are ordered.                          *)
EXTENDS LmdbCursor, TLC

SlotSymmetry == Permutations(Slots)

=============================================================================
