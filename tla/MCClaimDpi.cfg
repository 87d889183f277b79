SPECIFICATION Spec

CONSTANTS
    small = small
    large = large
    custom = custom
    Modes = {small, large, custom}
    ListedModes = {small, large}
    StartMode = small
    Recommended <- OtherThanStart
    Highest <- UpTo
    Preference = 1
    LeaseCount = 2
    MaxRequests = 1
    MaxKills = 0
    StepsFail = FALSE
    WorkersOutlive = TRUE

INVARIANT CleanupRestoresStep

CHECK_DEADLOCK FALSE
