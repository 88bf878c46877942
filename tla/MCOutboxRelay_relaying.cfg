\* Two relays, two events, two attempts each, and one mishap anywhere.
CONSTANTS
    NoRelay = NoRelay
    Relay = {w1, w2}
    Kinds <- MCKinds
    MaxAttempts = 2
    BatchSize = 2
    MaxMishaps = 1
    Clustered = FALSE

SPECIFICATION FairRelaySpec

INVARIANTS
    AtLeastOnce
    GivenUpLate
    FirstSeenInOrder
    AttemptsCounted

PROPERTIES
    FinishedForGood
    EventsLeave

\* The model ends with every event delivered or given up.
CHECK_DEADLOCK FALSE
