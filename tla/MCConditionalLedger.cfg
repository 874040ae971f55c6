SPECIFICATION RecordedSpec
CONSTANTS
    alice = alice
    bob = bob
    book = book
    Accounts = {alice, bob, book}
    Protocol = {book}
    Scale = 5
    PerbillOne = 10
    KernelMinSplit = 2
    MinTransfer = 2
    MaxPositions = 3
    Rates = {3}
    MinSplits = {2}
    Amounts = {3, 4}
    Scores = {0, 2, 6}
    LiveBranches = {"Accept"}
    LiveGates = {"Survival"}
    MaxEscrow = 4
SYMMETRY Holders
INVARIANTS
    TypeOK
    Solvent
    Backed
    BooksAgree
    ExitsOpen
PROPERTIES
    ImplementsTaught
CHECK_DEADLOCK FALSE
