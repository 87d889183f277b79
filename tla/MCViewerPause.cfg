SPECIFICATION FairSpec

CONSTANTS
    small = small
    large = large
    l1 = l1
    l2 = l2
    l3 = l3
    l4 = l4
    Attempts = 1
    Sizes = {large}
    Physical = Physical
    Leases = {l1, l2, l3, l4}
    NoLease = NoLease
    OthersCome = FALSE
    HostFaults = FALSE
    MediaFaults = FALSE
    LinkFaults = TRUE
    Hides = TRUE



CHECK_DEADLOCK FALSE

PROPERTY PauseLifted
