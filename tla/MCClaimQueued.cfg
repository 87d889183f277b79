SPECIFICATION FairSpec

CONSTANTS
    l1 = l1
    l2 = l2
    l3 = l3
    Links = {l1, l2, l3}
    NoLink = NoLink
    WireMax = 4
    MaxBacklog = 3
    MaxResizes = 1
    MaxStops = 0
    HelperMayFail = FALSE
    TrustUpdates = FALSE

PROPERTY QueuedIsStarted

CHECK_DEADLOCK FALSE
