SPECIFICATION Spec
CONSTANTS
    A = A
    B = B
    a1 = a1
    a2 = a2
    b1 = b1
    Clients = {A, B}
    Links = {a1, b1}
    Owner <- MCPairOwner
    NoLink = NoLink
    Leases = {1, 2}
    NoLease = 0
    Browser = Browser
    BrowserLease = 99
    NoClient = NoClient
    LifecycleClients = {A, B}
    ClipboardClients = {}
    TopologyLimit = 2
    MaxRequests = 2
    MaxRestarts = 0
    MaxGeneration = 0
    RevocationPossible = FALSE
    FenceMayTimeOut = FALSE
    RepliesMayBeLost = FALSE
    EndpointQueryOnSession = TRUE
CHECK_DEADLOCK FALSE
INVARIANTS
    OwnersEndThroughFail
