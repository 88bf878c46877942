\* Two worker replicas and two failures; one bid.
CONSTANTS
    None = None
    r1 = r1
    r2 = r2
    r3 = r3
    k1 = k1
    k2 = k2
    Keys = {k1}
    Eligible = {k1}
    Requests = {r1}
    KeyOf <- MCKeyOf
    Workers = {w1, w2}
    Amounts = {2}
    StartingPrice = 1
    MinimumIncrement = 1
    ScheduledEnd = 2
    SniperWindow = 1
    SniperExtension = 2
    MaxExtensions = 1
    FirstStatus = "live"
    MaxTime = 3
    MaxFaults = 2

SPECIFICATION Spec

INVARIANTS
    OutboxTellsTheRow

PROPERTIES
    AuctionGetsEnded

\* Requests are answered and the clock stops at MaxTime.
CHECK_DEADLOCK FALSE
