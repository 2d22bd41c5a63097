------------------------------- MODULE MCGate -------------------------------
(* Gate with two tickets and two turnstiles. *)
EXTENDS Gate, TLC

CONSTANTS t1, t2, g1, g2

MCTickets == {t1, t2}
MCGates == {g1, g2}

\* Tickets are interchangeable, and so are turnstiles.
Symmetry == Permutations(Tickets) \cup Permutations(Gates)
=============================================================================
