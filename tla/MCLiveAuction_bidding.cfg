\* Three requests of two attempts, one of them a retry; the auction ends once.
CONSTANTS
    None = None
    r1 = r1
    r2 = r2
    r3 = r3
    k1 = k1
    k2 = k2
    Keys = {k1, k2}
    Eligible = {k1, k2}
    Requests = {r1, r2, r3}
    KeyOf <- MCKeyOf
    Workers = {w1}
    Amounts = {2, 3}
    StartingPrice = 1
    MinimumIncrement = 1
    ScheduledEnd = 1
    SniperWindow = 1
    SniperExtension = 2
    MaxExtensions = 1
    FirstStatus = "live"
    MaxTime = 2
    MaxFaults = 0

SPECIFICATION Spec

INVARIANTS
    TypeOK
    BidsRise
    RowMatchesBids
    AcceptedIsDurable

PROPERTIES
    ImplementsEnglishAuction

\* Requests are answered and the clock stops at MaxTime.
SYMMETRY Retries

CHECK_DEADLOCK FALSE
