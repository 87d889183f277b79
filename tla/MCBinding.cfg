SPECIFICATION Spec

CONSTANTS
    a = a
    b = b
    c1 = c1
    c2 = c2
    Devices = {a, b}
    Connections = {c1, c2}
    None = None
    MaxInvites = 1
    MaxCrashes = 1
    SavesFail = TRUE
    TrustFails = TRUE

SYMMETRY MCSymmetry
INVARIANT TypeOK
INVARIANT ReadyIsMutual
INVARIANT TrustedIsListed
INVARIANT OnlyApproved

CHECK_DEADLOCK FALSE
