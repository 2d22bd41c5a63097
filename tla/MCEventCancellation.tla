------------------------ MODULE MCEventCancellation ------------------------
(* EventCancellation with two orders. *)
EXTENDS EventCancellation

CONSTANTS o1, o2, a1, e1

TwoOrders == {o1, o2}
OneOrder == {o1}
OneAdmin == {a1}
OneEditor == {e1}
=============================================================================
