------------------------ MODULE MCViewerContinuity ------------------------
EXTENDS ViewerContinuity, TLC

CONSTANTS small, large, l1, l2, l3, l4

\* The fourth lease is rarely in use.
Same == Permutations({l1, l2, l3}) \cup Permutations(Sizes)
=============================================================================
