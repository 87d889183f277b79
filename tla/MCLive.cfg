SPECIFICATION FairSpec
CONSTANTS
    A = A
    B = B
    a1 = a1
    a2 = a2
    b1 = b1
    Clients = {A}
    Links = {a1, a2}
    Owner <- MCTwinOwner
    NoLink = NoLink
    Leases = {1, 2}
    NoLease = 0
    Browser = Browser
    BrowserLease = 99
    NoClient = NoClient
    LifecycleClients = {A}
    ClipboardClients = {}
    TopologyLimit = 1
    MaxRequests = 2
    MaxRestarts = 1
    MaxGeneration = 1
    RevocationPossible = TRUE
    FenceMayTimeOut = TRUE
    RepliesMayBeLost = TRUE
    EndpointQueryOnSession = FALSE
CHECK_DEADLOCK FALSE
PROPERTIES
    OperationCompletes
    NoOrphanedLease
