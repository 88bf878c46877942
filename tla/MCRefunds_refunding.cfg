\* Three refunds of a payment of three units, asked for by four requests.
CONSTANTS
    NoKey = NoKey
    Key = {k1, k2, k3}
    Request = {r1, r2, r3, r4}
    Captured = 3
    Amounts = {1, 2}

SPECIFICATION Spec

INVARIANTS
    NeverOverCommitted
    PaidOutOnce
    StatusTellsTotal

PROPERTIES
    ImplementsBudget

SYMMETRY Callers

\* Every request is answered in the end.
CHECK_DEADLOCK FALSE
