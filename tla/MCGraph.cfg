SPECIFICATION FairSpec

CONSTANTS
    n1 = n1
    n2 = n2
    n3 = n3
    Nodes = {n1, n2, n3}
    MaxAttempts = 3
    MaxPath = 2
    NetworkFails = TRUE


INVARIANT ClearedAcyclic
PROPERTY ChecksEnd

CHECK_DEADLOCK FALSE
