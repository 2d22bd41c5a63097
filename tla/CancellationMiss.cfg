CONSTANTS
    o1 = o1
    o2 = o2
    a1 = a1
    e1 = e1
    Orders <- OneOrder
    Admins <- OneAdmin
    Editors <- OneEditor
    AskedAtOnce = 1
    MaxAttempts = 2
SPECIFICATION Spec
INVARIANTS CancelledEventKeepsNoSale
PROPERTIES StaysCancelled
CHECK_DEADLOCK FALSE
