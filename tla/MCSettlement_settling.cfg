\* Two replicas, two deposits, the provider refusing and losing replies.
CONSTANTS
    None = None
    win = win
    lose = lose
    lost = lost
    w1 = w1
    w2 = w2
    Deposits = {win, lose}
    Collected = {}
    Winner = win
    Workers = {w1, w2}
    MaxRetries = 2
    ItemsPerTick = 1
    MayBeOversized = FALSE
    MayExpire = FALSE
    MaxFaults = 1
    MaxMoves = 0

SPECIFICATION Spec

INVARIANTS
    MoneyMatchesBooks
    AcknowledgedIsDone
    SettledMeansPaid

PROPERTIES
    ImplementsEscrow

SYMMETRY Replicas

\* A settled auction leaves nothing to do.
CHECK_DEADLOCK FALSE
