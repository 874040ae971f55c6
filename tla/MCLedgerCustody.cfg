SPECIFICATION Spec
CONSTANTS
    alice = alice
    bob = bob
    book = book
    v1 = v1
    v2 = v2
    Accounts = {alice, bob, book}
    Protocol = {book}
    Vaults = {v1, v2}
    PositionDeposit = 1
    MinBalance = 1
    ArchiveDelay = 1
    ReapBatch = 2
    Amounts = {1, 2}
    MaxEscrow = 2
    MaxAccrued = 1
    MaxRows = 3
    MaxNow = 1
SYMMETRY Symmetry
INVARIANTS
    TypeOK
    Covered
    MirrorsAgree
    CranksNeverRefused
CHECK_DEADLOCK FALSE
