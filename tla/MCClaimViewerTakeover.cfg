SPECIFICATION Spec

CONSTANTS
    small = small
    large = large
    l1 = l1
    l2 = l2
    l3 = l3
    l4 = l4
    Attempts = 2
    Sizes = {large}
    Physical = Physical
    Leases = {l1, l2, l3, l4}
    NoLease = NoLease
    OthersCome = TRUE
    HostFaults = TRUE
    MediaFaults = TRUE
    LinkFaults = TRUE
    Hides = FALSE


CHECK_DEADLOCK FALSE
PROPERTY TakeoverIsTerminal
