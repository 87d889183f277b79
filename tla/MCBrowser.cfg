SPECIFICATION SharedSpec

CONSTANTS
    l1 = l1
    l2 = l2
    Links = {l1, l2}
    NoLink = NoLink
    Browser = Browser
    WireMax = 3
    MaxBacklog = 2
    MaxResizes = 1
    MaxStops = 1
    HelperMayFail = FALSE
    TrustUpdates = FALSE
    MaxSessions = 2
    MaxBrowserResizes = 2
    MaxLost = 0
    LostReplies = {}

SYMMETRY MCSymmetry
INVARIANT BrowserTypeOK
INVARIANT WorkspaceIsTheirs

CHECK_DEADLOCK FALSE
