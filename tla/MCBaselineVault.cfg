SPECIFICATION Spec
CONSTANTS
    alice = alice
    bob = bob
    book = book
    Accounts = {alice, bob, book}
    Protocol = {book}
    Scale = 5
    PerbillOne = 4
    Bp = 2
    unread = unread
    Unread = unread
    KernelMinSplit = 2
    MinTransfer = 2
    MaxPositions = 2
    Rates = {1, 3, 5}
    MinSplits = {2, 3}
    Amounts = {1, 2, 4}
    Scores = {0, 2, 5, 6}
    MaxEscrow = 7
SYMMETRY Holders
INVARIANTS
    TypeOK
    BaselineSolvent
    BaselineBooksAgree
    FeeSound
    QuoteExact
CHECK_DEADLOCK FALSE
