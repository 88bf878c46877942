\* Two replicas, one item, failures, expiry and administrators.
CONSTANTS
    None = None
    win = win
    lose = lose
    lost = lost
    w1 = w1
    w2 = w2
    Deposits = {lose, lost}
    Collected = {lost}
    Winner = None
    Workers = {w1, w2}
    MaxRetries = 2
    ItemsPerTick = 1
    MayBeOversized = TRUE
    MayExpire = TRUE
    MaxFaults = 1
    MaxMoves = 1

SPECIFICATION Spec

INVARIANTS
    SettlingIsWatched

PROPERTIES
    EndedGetsSettled

\* A settled auction leaves nothing to do.
CHECK_DEADLOCK FALSE
