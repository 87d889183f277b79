SPECIFICATION Spec

CONSTANTS
    small = small
    large = large
    custom = custom
    Modes = {small, large, custom}
    ListedModes = {small, large}
    StartMode = small
    Recommended <- OtherThanStart
    Highest <- UpTo
    Preference = 1
    LeaseCount = 2
    MaxRequests = 1
    MaxKills = 1
    StepsFail = FALSE
    WorkersOutlive = TRUE

INVARIANT MutexProvesIdle

CHECK_DEADLOCK FALSE
