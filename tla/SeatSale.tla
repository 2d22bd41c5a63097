------------------------------ MODULE SeatSale ------------------------------
(***************************************************************************)
(* What the seat inventory of one event promises, whatever transactions,   *)
(* caches and sweepers stand behind it: a seat has one owner at a time, an *)
(* owner loses it only by letting go of it, and nobody holds more than     *)
(* MaxSeats seats.  SeatHolds and Orders are both shown to implement it.   *)
(***************************************************************************)
EXTENDS Naturals, FiniteSets

CONSTANTS Seats,      \* seat ids of the event
          Users,      \* customer accounts
          NoUser,     \* held_by IS NULL
          MaxSeats    \* app.hold.max-seats

VARIABLES status,     \* seats.status
          heldBy      \* seats.held_by

saleVars == <<status, heldBy>>

SeatStatus == {"AVAILABLE", "HELD", "BOOKED", "BLOCKED"}

HeldOf(u) == {s \in Seats : status[s] = "HELD" /\ heldBy[s] = u}

Init == /\ status = [s \in Seats |-> "AVAILABLE"]
        /\ heldBy = [s \in Seats |-> NoUser]

\* A selection is taken whole, from nobody else, and within the cap.
Take(u, S) ==
    /\ \A s \in S : status[s] = "AVAILABLE" \/ s \in HeldOf(u)
    /\ Cardinality(HeldOf(u) \cup S) <= MaxSeats
    /\ status' = [s \in Seats |-> IF s \in S THEN "HELD" ELSE status[s]]
    /\ heldBy' = [s \in Seats |-> IF s \in S THEN u ELSE heldBy[s]]

\* Held seats go back on sale.
LetGo(S) ==
    /\ \A s \in S : status[s] = "HELD"
    /\ status' = [s \in Seats |-> IF s \in S THEN "AVAILABLE" ELSE status[s]]
    /\ heldBy' = [s \in Seats |-> IF s \in S THEN NoUser ELSE heldBy[s]]

\* Held seats are sold to their holder and to nobody else.
Sell(u, S) ==
    /\ S \subseteq HeldOf(u)
    /\ status' = [s \in Seats |-> IF s \in S THEN "BOOKED" ELSE status[s]]
    /\ UNCHANGED heldBy

\* Sold seats go back on sale.
Restock(S) ==
    /\ \A s \in S : status[s] = "BOOKED"
    /\ status' = [s \in Seats |-> IF s \in S THEN "AVAILABLE" ELSE status[s]]
    /\ heldBy' = [s \in Seats |-> IF s \in S THEN NoUser ELSE heldBy[s]]

\* A seat is taken off sale while it is nobody's, and put back.
Withdraw(s) ==
    /\ status[s] = "AVAILABLE"
    /\ status' = [status EXCEPT ![s] = "BLOCKED"]
    /\ UNCHANGED heldBy

PutBack(s) ==
    /\ status[s] = "BLOCKED"
    /\ status' = [status EXCEPT ![s] = "AVAILABLE"]
    /\ UNCHANGED heldBy

Next ==
    \/ \E S \in SUBSET Seats :
          \/ LetGo(S)
          \/ Restock(S)
          \/ \E u \in Users : Take(u, S) \/ Sell(u, S)
    \/ \E s \in Seats : Withdraw(s) \/ PutBack(s)

Spec == Init /\ [][Next]_saleVars
=============================================================================
