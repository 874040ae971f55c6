SPECIFICATION Spec
CONSTANTS
    Window = 3
    Renewals = 1
    RollsBack = TRUE
INVARIANTS
    GatesAgree
    NoOrphanFreeze
    NoLapse
    RenewalUsable
PROPERTIES
    FreezeOnlyOnDrift
    ThawsOnceWhole
