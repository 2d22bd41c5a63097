CONSTANTS
    u1 = u1
    u2 = u2
    r1 = r1
    r2 = r2
    o1 = o1
    o2 = o2
    s1 = s1
    s2 = s2
    NoUser = NoUser
    Users <- MCUsers
    Seats <- OneSeat
    OrderIds <- SameOwnerOrders
    Owner <- SameOwner
    Requests <- MCRequests
    MaxSeats = 2
SPECIFICATION Spec
SYMMETRY Symmetry
INVARIANTS OnePendingOrderPerSeat
CHECK_DEADLOCK FALSE
