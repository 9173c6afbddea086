---------------------------- MODULE MCBdbCursor -----------------------------
\* Values of the constants of BdbCursor that a .cfg cannot write.
EXTENDS BdbCursor, TLC

BdbSlotSymmetry == Permutations(Slots)

=============================================================================
