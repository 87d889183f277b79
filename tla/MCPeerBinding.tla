-------------------------- MODULE MCPeerBinding --------------------------
EXTENDS PeerBinding, TLC

CONSTANTS a, b, c1, c2

\* Devices and connections only differ by what has happened to them.
MCSymmetry == Permutations(Devices) \cup Permutations(Connections)
=============================================================================
