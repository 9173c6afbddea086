------------------------------ MODULE MCBdbTxn ------------------------------
\* Values of the constants of BdbTxn that a .cfg cannot write.
EXTENDS BdbTxn, TLC

\* One caller runs transactions, and two statements at once, against another that
\* runs one statement after the other.
CONSTANTS c1, c2

LongAndShort == c1 :> 4 @@ c2 :> 3

TwoAndOne == c1 :> 2 @@ c2 :> 1

=============================================================================
