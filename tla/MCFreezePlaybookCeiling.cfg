SPECIFICATION Spec
CONSTANTS
    Window = 2
    Renewals = 1
    RollsBack = FALSE
INVARIANTS
    TwoWindowsAtMost
