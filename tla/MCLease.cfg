SPECIFICATION FairSpec

CONSTANTS
    small = small
    large = large
    custom = custom
    Modes = {small, custom}
    ListedModes = {small}
    StartMode = small
    Recommended <- OtherThanStart
    Highest <- UpTo
    Preference = 1
    LeaseCount = 2
    MaxRequests = 2
    MaxKills = 2
    StepsFail = TRUE
    WorkersOutlive = TRUE

INVARIANT LayoutIsKept
INVARIANT PreferenceIsKept
INVARIANT BaselineIsUsers
PROPERTY LeaseEnds

CHECK_DEADLOCK FALSE
