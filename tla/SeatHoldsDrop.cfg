CONSTANTS
    u1 = u1
    u2 = u2
    r1 = r1
    r2 = r2
    Users <- MCUsers
    Requests <- MCRequests
    Seats <- OneSeat
    NoUser = NoUser
    MaxSeats = 1
    HoldFor = 1
    Tolerance = 0
    SweeperBatch = 1
    MaxTime = 2
SPECIFICATION Spec
SYMMETRY Symmetry
PROPERTIES DropsOwnKeyOnly
CHECK_DEADLOCK FALSE
