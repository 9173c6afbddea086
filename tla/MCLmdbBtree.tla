---------------------------- MODULE MCLmdbBtree ----------------------------
(* Small instances of LmdbBtree.  The connections that may write are        *)
(* interchangeable, and so are the values of a row.                          *)
EXTENDS LmdbBtree, TLC

Symmetry == Permutations(Conns \ ReadonlyConns) \cup Permutations(Vals)

=============================================================================
