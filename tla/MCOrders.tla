------------------------------ MODULE MCOrders ------------------------------
(* Orders on small instances: two buyers, one of them with two keys. *)
EXTENDS Orders, TLC

CONSTANTS u1, u2, r1, r2, o1, o2, s1, s2

MCUsers == {u1, u2}
MCSeats == {s1, s2}
OneSeat == {s1}
MCRequests == {r1, r2}
SameOwnerOrders == {o1, o2}
SameOwner == [o \in SameOwnerOrders |-> u1]

\* Request threads are interchangeable, and so are seats.
Symmetry == Permutations(Requests) \cup Permutations(Seats)
=============================================================================
