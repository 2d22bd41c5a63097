---------------------------- MODULE MCSeatHolds ----------------------------
(* SeatHolds on instances small enough to explore completely. *)
EXTENDS SeatHolds, TLC

CONSTANTS u1, u2, r1, r2

MCUsers == {u1, u2}
MCRequests == {r1, r2}
OneUser == {u1}
OneRequest == {r1}
TwoSeats == {1, 2}
OneSeat == {1}

\* Accounts and request threads are interchangeable; seats are not, since the
\* code sorts by their ids.
Symmetry == Permutations(MCUsers) \cup Permutations(MCRequests)

\* Bound: two requests overlap only before the clock's first tick; from then on one
\* thread serves whatever comes.  SweepSelect and SweepRelease, the fair actions, change
\* neither the clock nor a request, so the bound keeps none of their steps away.
OneAtATimeAfterTheStart == now = 0 \/ req[r2] = Idle
=============================================================================
