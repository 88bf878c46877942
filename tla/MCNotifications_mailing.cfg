\* Two rows, two dispatchers without locks, two attempts, one mishap.
CONSTANTS
    NoRow = NoRow
    Notification = {n1, n2}
    Dispatcher = {d1, d2}
    MaxAttempts = 2
    MaxMishaps = 1

SPECIFICATION FairSpec

INVARIANTS
    SentWasMailed
    GivenUpLate
    FewAreForgotten

PROPERTIES
    RowsAreDealtWith

\* The model ends with the rows sent, failed or left behind.
CHECK_DEADLOCK FALSE
