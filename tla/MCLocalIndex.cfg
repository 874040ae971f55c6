SPECIFICATION Spec
CONSTANTS
    Tabs = {t1, t2}
    Self = self
    Sources = {self, op}
    Nobody = nobody
    Blocks <- MCBlocks
    Watched <- MCWatched
    Earlier <- MCEarlier
    Charted <- MCCharted
    FirstTier <- MCFirstTier
    Settled <- MCSettled
    MaxWrites = 2
    MaxFaults = 2
SYMMETRY TabSymmetry
INVARIANT Canonical
INVARIANT ClaimsBacked
INVARIANT Honest
INVARIANT LabelsExact
INVARIANT HolesExact
PROPERTY CommitsExtendAlways
CHECK_DEADLOCK FALSE
