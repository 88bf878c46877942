\* A tab that loads, two calls of it, and one mishap.
CONSTANTS
    t1 = t1
    Tab = {t1}
    Call = {c1, c2}
    TabOf <- MCTabOf
    MaxMishaps = 1

SPECIFICATION FairSpec

INVARIANTS
    SessionSurvives
    OneSession
    QueueHasAnOwner

PROPERTIES
    CallsSettle

\* The model ends when every call has been made and answered.
CHECK_DEADLOCK FALSE
