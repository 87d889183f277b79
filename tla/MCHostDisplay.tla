-------------------------- MODULE MCHostDisplay --------------------------
EXTENDS DisplayClaims, TLC

CONSTANTS l1, l2, l3

\* Connections only differ by the order in which they are used.
MCSymmetry == Permutations(Links)
=============================================================================
