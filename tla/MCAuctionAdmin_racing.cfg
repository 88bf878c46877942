\* Two commands race a bidder, an outsider and the worker.
CONSTANTS
    None = None
    r1 = r1
    r2 = r2
    k1 = k1
    k2 = k2
    c1 = c1
    c2 = c2
    Keys = {k1, k2}
    Eligible = {k1}
    Requests = {r1, r2}
    KeyOf <- MCKeyOf
    Workers = {w1}
    Amounts = {2}
    StartingPrice = 1
    MinimumIncrement = 1
    ScheduledEnd = 1
    SniperWindow = 1
    SniperExtension = 1
    MaxExtensions = 1
    FirstStatus = "scheduled"
    MaxTime = 2
    MaxFaults = 0
    Commands = {c1, c2}
    ExtraTime = 1

SPECIFICATION AdminSpec

INVARIANTS
    CancelledSellsNothing
    OutboxTellsTheBids

PROPERTIES
    StoppedForGood

SYMMETRY Administrators

\* Commands and requests end, and the clock stops at MaxTime.
CHECK_DEADLOCK FALSE
