SPECIFICATION GuardedSpec
CONSTANTS
    N = 1
    Resources = {}
    Length = 7
    Start <- DailyStart
    K = 2
    Slots = 5
    MaxCohorts = 4
    MaxMembers = 5
    Timelock = 5
    Grace = 5
    Extension = 1
    RetryWindow = 1
    StaleBound = 2
    Intakes = 1
    Horizon = 7
INVARIANT FundedInSeed
CHECK_DEADLOCK FALSE
