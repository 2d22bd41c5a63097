CONSTANTS
    p1 = p1
    p2 = p2
    Payments <- MCPayments
SPECIFICATION Spec
SYMMETRY Symmetry
INVARIANTS KeptChargeKeepsOrder
CHECK_DEADLOCK FALSE
