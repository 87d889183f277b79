SPECIFICATION Spec
CONSTANTS
    A = A
    B = B
    a1 = a1
    a2 = a2
    b1 = b1
    Clients = {A, B}
    Links = {a1, a2, b1}
    Owner <- MCOwner
    NoLink = NoLink
    Leases = {1, 2, 3}
    NoLease = 0
    Browser = Browser
    BrowserLease = 99
    NoClient = NoClient
    LifecycleClients = {A, B}
    ClipboardClients = {A}
    TopologyLimit = 1
    MaxRequests = 3
    MaxRestarts = 1
    MaxGeneration = 0
    RevocationPossible = FALSE
    FenceMayTimeOut = FALSE
    RepliesMayBeLost = FALSE
    EndpointQueryOnSession = FALSE
CHECK_DEADLOCK FALSE
SYMMETRY MCSymmetry
INVARIANTS
    SoleAdmission
    ConfirmedEviction
    AdmittedOwnsHost
PROPERTIES
    HandOver
