------------------------- MODULE MCSessionAdmission -------------------------
(* Two devices, one of them with two connections, so that a session can be *)
(* resumed, taken over, and contended for.                                 *)
EXTENDS SessionClaims, TLC

CONSTANTS A, B, a1, a2, b1

MCOwner == (a1 :> A) @@ (a2 :> A) @@ (b1 :> B)
MCPairOwner == (a1 :> A) @@ (b1 :> B)

\* Two connections of one device: its session can be resumed, and taken over by
\* itself.
MCTwinOwner == (a1 :> A) @@ (a2 :> A)

\* The two connections of A are interchangeable.
MCSymmetry == Permutations({a1, a2})

\* With one connection each, two devices with the same abilities are
\* interchangeable together with their connections.
MCPairSymmetry == {p \in Permutations({A, B, a1, b1}) :
    \A l \in {a1, b1} : p[l] \in {a1, b1} /\ p[MCPairOwner[l]] = MCPairOwner[p[l]]}
=============================================================================
