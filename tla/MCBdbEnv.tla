------------------------------ MODULE MCBdbEnv ------------------------------
\* Values of the constants of BdbEnv that a .cfg cannot write.
EXTENDS BdbEnv, TLC

CONSTANTS a1, a2, b1, pa, pb

TwoAndOne == a1 :> pa @@ a2 :> pa @@ b1 :> pb

BdbConnSymmetry == Permutations({a1, a2})

=============================================================================
