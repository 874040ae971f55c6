SPECIFICATION GuardedSpec
CONSTANTS
    N = 2
    Resources = {r1}
    Length = 4
    Start <- ShortStart
    K = 1
    Slots = 2
    MaxCohorts = 4
    MaxMembers = 5
    Timelock = 3
    Grace = 0
    Extension = 4
    RetryWindow = 0
    StaleBound = 2
    Intakes = 1
    Horizon = 11
INVARIANTS
    TypeOK
    VaultsFollow
    CohortsSound
    NeutralIsFinal
    LocksHeld
    DecisionMatchesBranch
    LedgersAgree
PROPERTIES
    SweepsAgree
    FollowsTaught
CHECK_DEADLOCK FALSE
