CONSTANTS
    p1 = p1
    p2 = p2
    Payments <- OnePayment
SPECIFICATION Spec

INVARIANTS ReturnedChargeBuysNothing PaidOrderHasCharge
CHECK_DEADLOCK FALSE
