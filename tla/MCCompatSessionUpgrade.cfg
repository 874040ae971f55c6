SPECIFICATION Spec
CONSTANTS
    Blocks <- MCBlocks
    Genesis = 0
    Parent <- MCParent
    Runtimes <- MCRuntimes
    RuntimeMaps <- MCRuntimeMaps
    Supported = {2, 3, 4}
    Compatible <- MCCompatible
    Unreadable = {3}
    None = none
    MaxHeld = 2
PROPERTY FollowsUpgrades
CHECK_DEADLOCK FALSE
