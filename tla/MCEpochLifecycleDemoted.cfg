SPECIFICATION GuardedSpec
CONSTANTS
    N = 2
    Resources = {}
    Length = 4
    Start <- ShortStart
    K = 1
    Slots = 1
    MaxCohorts = 4
    MaxMembers = 5
    Timelock = 1
    Grace = 0
    Extension = 1
    RetryWindow = 0
    StaleBound = 2
    Intakes = 1
    Horizon = 7
PROPERTY DemotedOnlyOnce
CHECK_DEADLOCK FALSE
