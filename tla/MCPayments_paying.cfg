\* Two payments for one place, two requests, one fair reconciliation worker
\* that takes up one payment of each status at a time.
CONSTANTS
    NoOne = NoOne
    card = card
    wire = wire
    place = place
    Payment = {card, wire}
    Transfer = {wire}
    Seat = {place}
    SeatOf <- MCSeatOf
    Request = {r1, r2}
    Worker = {w1}
    BatchSize = 1
    Finds = {"pending", "awaiting_3ds"}
    MaxMishaps = 1

SPECIFICATION FairSpec

INVARIANTS
    AskedAtMostOnce
    BooksMatchProvider
    SeatsMatchPayments

PROPERTIES
    TriggerNeverFires
    ImplementsPaidPlaces
    StuckGetsResolved

\* Payments come to rest.
CHECK_DEADLOCK FALSE
