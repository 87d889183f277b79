SPECIFICATION Spec

CONSTANTS
    l1 = l1
    l2 = l2
    l3 = l3
    Links = {l1, l2, l3}
    NoLink = NoLink
    WireMax = 3
    MaxBacklog = 2
    MaxResizes = 2
    MaxStops = 1
    HelperMayFail = TRUE
    TrustUpdates = TRUE

SYMMETRY MCSymmetry

INVARIANT WorkspaceIsControllers
INVARIANT QueuedHasController
PROPERTY SettledMeansRestored

CHECK_DEADLOCK FALSE
