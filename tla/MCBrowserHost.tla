-------------------------- MODULE MCBrowserHost --------------------------
EXTENDS BrowserClaims, TLC

CONSTANTS l1, l2

\* Connections only differ by the order in which they are used.
MCSymmetry == Permutations(Links)
=============================================================================
