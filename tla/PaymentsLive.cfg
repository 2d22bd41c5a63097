CONSTANTS
    p1 = p1
    p2 = p2
    Payments <- OnePayment
SPECIFICATION FairSpec

PROPERTIES ChargeSettles
CHECK_DEADLOCK FALSE
