\* One worker of a cluster, which dies once.
CONSTANTS
    NoRelay = NoRelay
    Relay = {w1}
    Kinds <- MCUnsoldKinds
    MaxAttempts = 2
    BatchSize = 2
    MaxMishaps = 1
    Clustered = TRUE

SPECIFICATION FairRelaySpec

PROPERTIES
    EventsLeave

\* The model ends when the only worker that relays is gone.
CHECK_DEADLOCK FALSE
