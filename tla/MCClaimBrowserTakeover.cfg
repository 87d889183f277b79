SPECIFICATION FairSharedSpec

CONSTANTS
    l1 = l1
    l2 = l2
    Links = {l1, l2}
    NoLink = NoLink
    Browser = Browser
    WireMax = 3
    MaxBacklog = 2
    MaxResizes = 1
    MaxStops = 0
    HelperMayFail = FALSE
    TrustUpdates = FALSE
    MaxSessions = 1
    MaxBrowserResizes = 1
    MaxLost = 0
    LostReplies = {}


PROPERTY TakeoverEnds

CHECK_DEADLOCK FALSE
