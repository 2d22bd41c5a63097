CONSTANTS
    p1 = p1
    p2 = p2
    Payments <- MCPayments
SPECIFICATION Spec
SYMMETRY Symmetry
INVARIANTS TypeOK OneChargeKept RefundsAreReal ChargesAreReal
CHECK_DEADLOCK FALSE
