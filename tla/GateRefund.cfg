CONSTANTS
    t1 = t1
    t2 = t2
    g1 = g1
    g2 = g2
    NoTicket = NoTicket
    Tickets <- MCTickets
    Gates <- MCGates
    MaxUndone = 1
SPECIFICATION Spec
SYMMETRY Symmetry
PROPERTIES NoRefundWhileInside
