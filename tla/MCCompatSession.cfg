SPECIFICATION Spec
CONSTANTS
    Blocks <- MCBlocks
    Genesis = 0
    Parent <- MCParent
    Runtimes <- MCRuntimes
    RuntimeMaps <- MCRuntimeMaps
    Supported = {2, 3, 4}
    Compatible <- MCCompatible
    Unreadable = {3}
    None = none
    MaxHeld = 2
INVARIANT TypeOK
INVARIANT FinalizedSound
INVARIANT OpenVerdictCurrent
PROPERTY Settles
CHECK_DEADLOCK FALSE
