--------------------------- MODULE MCSessionGraph ---------------------------
(* Three desktops: enough for cycles of two and of three edges.            *)
EXTENDS SessionGraph

CONSTANTS n1, n2, n3
=============================================================================
