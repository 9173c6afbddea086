----------------------------- MODULE MCRowidKey -----------------------------
(* RowidKey with rowids of four binary digits.                              *)
EXTENDS RowidKey

SmallRowids == 0..7

SignedRowids == (-8)..7

=============================================================================
