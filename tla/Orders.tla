------------------------------- MODULE Orders -------------------------------
(***************************************************************************)
(* Orders over the seats of one event: creating one from held seats,       *)
(* closing it unpaid, confirming it once it is paid, and voiding the sale. *)
(*                                                                         *)
(* An order is named by what makes it unique, the pair of its buyer and    *)
(* that buyer's idempotency key; Owner gives the buyer.  Every transition  *)
(* of an order happens under its row lock (findByIdForUpdate) and is one   *)
(* step; what a request reads without a lock is a step before it.  Holding *)
(* and losing a seat are single steps here: SeatHolds has their detail.    *)
(* Which tickets a gate has used is an input of VoidSale.                  *)
(***************************************************************************)
EXTENDS Integers, FiniteSets

CONSTANTS Seats,      \* seat ids of the event
          Users,      \* customer accounts
          NoUser,     \* held_by IS NULL
          OrderIds,   \* (buyer, idempotency key) pairs
          Owner,      \* the buyer of each
          Requests,   \* request threads
          MaxSeats    \* app.hold.max-seats

ASSUME OrdersAssumption == /\ Owner \in [OrderIds -> Users]
                           /\ NoUser \notin Users
                           /\ IsFiniteSet(Seats) /\ MaxSeats \in Nat

VARIABLES status,     \* seats.status
          heldBy,     \* seats.held_by
          order,      \* orders.status, "NONE" before the row exists
          items,      \* the seats of its order items
          live,       \* the seats it has an ISSUED or USED ticket for
          req         \* what each request thread has read so far

seatVars == <<status, heldBy>>
orderVars == <<order, items, live>>
vars == <<seatVars, orderVars, req>>

SeatStatus == {"AVAILABLE", "HELD", "BOOKED", "BLOCKED"}
OrderStatus == {"NONE", "PENDING_PAYMENT", "PAID", "CANCELLED", "EXPIRED", "REFUNDED"}

Idle == [op |-> "idle"]
Request == {Idle}
    \cup [op: {"create: held", "create: clear"}, id: OrderIds, ids: SUBSET Seats]
    \cup [op: {"release: read", "release: clear"}, user: Users, ids: SUBSET Seats]
    \cup [op: {"force"}, seat: Seats, pending: SUBSET OrderIds]

HeldOf(u) == {s \in Seats : status[s] = "HELD" /\ heldBy[s] = u}
Pending(o) == order[o] = "PENDING_PAYMENT"
PendingOn(S) == {o \in OrderIds : Pending(o) /\ items[o] \cap S # {}}

\* held_by is NULL exactly while the seat is nobody's, and an order has items.
TypeOK ==
    /\ status \in [Seats -> SeatStatus]
    /\ heldBy \in [Seats -> Users \cup {NoUser}]
    /\ order \in [OrderIds -> OrderStatus]
    /\ items \in [OrderIds -> SUBSET Seats]
    /\ live \in [OrderIds -> SUBSET Seats]
    /\ req \in [Requests -> Request]
    /\ \A s \in Seats : heldBy[s] = NoUser <=> status[s] \in {"AVAILABLE", "BLOCKED"}
    /\ \A o \in OrderIds : order[o] = "NONE" <=> items[o] = {}

Init ==
    /\ status = [s \in Seats |-> "AVAILABLE"]
    /\ heldBy = [s \in Seats |-> NoUser]
    /\ order = [o \in OrderIds |-> "NONE"]
    /\ items = [o \in OrderIds |-> {}]
    /\ live = [o \in OrderIds |-> {}]
    /\ req = [r \in Requests |-> Idle]

-----------------------------------------------------------------------------
(* The seats, as the order side meets them                                  *)

BackOnSale(S) ==
    /\ status' = [s \in Seats |-> IF s \in S THEN "AVAILABLE" ELSE status[s]]
    /\ heldBy' = [s \in Seats |-> IF s \in S THEN NoUser ELSE heldBy[s]]

Hold(u, ids) ==
    /\ ids # {}
    /\ \A s \in ids : status[s] = "AVAILABLE" \/ s \in HeldOf(u)
    /\ Cardinality(HeldOf(u) \cup ids) <= MaxSeats
    /\ status' = [s \in Seats |-> IF s \in ids THEN "HELD" ELSE status[s]]
    /\ heldBy' = [s \in Seats |-> IF s \in ids THEN u ELSE heldBy[s]]
    /\ UNCHANGED <<orderVars, req>>

\* A hold's deadline may pass at any time; orders never read the deadline again.
HoldExpires(s) ==
    /\ status[s] = "HELD"
    /\ BackOnSale({s})
    /\ UNCHANGED <<orderVars, req>>

-----------------------------------------------------------------------------
(* OrderService.create                                                      *)

\* Faulty variant: accepts an order for no seats.
FindHeldNothing(r, o, ids) ==
    /\ req[r] = Idle
    /\ order[o] = "NONE"
    /\ ids \subseteq HeldOf(Owner[o])
    /\ req' = [req EXCEPT ![r] = [op |-> "create: held", id |-> o, ids |-> ids]]
    /\ UNCHANGED <<seatVars, orderVars>>

\* The key is unused as far as this transaction sees, and every seat is HELD by
\* the buyer; otherwise the existing order is the answer, or 409 HOLD_EXPIRED.
FindHeld(r, o, ids) ==
    /\ req[r] = Idle
    /\ order[o] = "NONE"
    /\ ids # {} /\ ids \subseteq HeldOf(Owner[o])
    /\ req' = [req EXCEPT ![r] = [op |-> "create: held", id |-> o, ids |-> ids]]
    /\ UNCHANGED <<seatVars, orderVars>>

\* existsPendingForSeats: 409 ORDER_ALREADY_PENDING, or go on.
CheckPending(r) ==
    /\ req[r].op = "create: held"
    /\ req' = [req EXCEPT ![r] = IF PendingOn(req[r].ids) = {}
                                 THEN [req[r] EXCEPT !.op = "create: clear"]
                                 ELSE Idle]
    /\ UNCHANGED <<seatVars, orderVars>>

\* The row is inserted unless a concurrent request with the same key was first
\* (uq_orders_idem).
InsertOrder(r) ==
    LET o == req[r].id
    IN /\ req[r].op = "create: clear"
       /\ IF order[o] = "NONE"
          THEN /\ order' = [order EXCEPT ![o] = "PENDING_PAYMENT"]
               /\ items' = [items EXCEPT ![o] = req[r].ids]
          ELSE UNCHANGED <<order, items>>
       /\ req' = [req EXCEPT ![r] = Idle]
       /\ UNCHANGED <<seatVars, live>>

-----------------------------------------------------------------------------
(* Closing an unpaid order                                                  *)

\* releaseSeatsAndClose: only the rows its buyer still holds go back on sale.
Close(O, S, newStatus) ==
    /\ order' = [o \in OrderIds |-> IF o \in O THEN newStatus ELSE order[o]]
    /\ BackOnSale({s \in Seats : s \in S \/ \E o \in O : s \in items[o] \cap HeldOf(Owner[o])})
    /\ UNCHANGED <<items, live>>

\* Faulty variant: the sweeper closes what it selected without locking and
\* looking at the status again.
ExpireUnlocked(o) == order[o] # "NONE" /\ Close({o}, {}, "EXPIRED") /\ UNCHANGED req

\* By its buyer, or when its seats turn out lost under a payment.
Cancel(o) == Pending(o) /\ Close({o}, {}, "CANCELLED") /\ UNCHANGED req

\* By the expiry sweeper, once the payment window or a hold has run out.
Expire(o) == Pending(o) /\ Close({o}, {}, "EXPIRED") /\ UNCHANGED req

-----------------------------------------------------------------------------
(* HoldService.releaseMine and adminRelease, with the orders they look at   *)

ReadMine(r, u) ==
    /\ req[r] = Idle
    /\ HeldOf(u) # {}
    /\ req' = [req EXCEPT ![r] = [op |-> "release: read", user |-> u, ids |-> HeldOf(u)]]
    /\ UNCHANGED <<seatVars, orderVars>>

\* findPendingSeatIds: 409 ORDER_PENDING if the caller's own order covers one.
CheckOwnPending(r) ==
    /\ req[r].op = "release: read"
    /\ req' = [req EXCEPT ![r] =
           IF \A o \in PendingOn(req[r].ids) : Owner[o] # req[r].user
           THEN [req[r] EXCEPT !.op = "release: clear"]
           ELSE Idle]
    /\ UNCHANGED <<seatVars, orderVars>>

ReleaseMine(r) ==
    /\ req[r].op = "release: clear"
    /\ BackOnSale(req[r].ids \cap HeldOf(req[r].user))
    /\ req' = [req EXCEPT ![r] = Idle]
    /\ UNCHANGED orderVars

FindPendingOrders(r, s) ==
    /\ req[r] = Idle
    /\ req' = [req EXCEPT ![r] = [op |-> "force", seat |-> s, pending |-> PendingOn({s})]]
    /\ UNCHANGED <<seatVars, orderVars>>

\* The orders found are locked; 409 SEAT_NOT_HELD, or the seat is released and
\* those of them still pending are closed with it.
AdminRelease(r) ==
    LET s == req[r].seat
    IN /\ req[r].op = "force"
       /\ IF status[s] = "HELD"
          THEN Close({o \in req[r].pending : Pending(o)}, {s}, "CANCELLED")
          ELSE UNCHANGED <<seatVars, orderVars>>
       /\ req' = [req EXCEPT ![r] = Idle]

-----------------------------------------------------------------------------
(* Paying, and voiding what was paid                                        *)

\* Faulty variants: WHERE held_by = sub, whatever the status; WHERE status = HELD.
BookableIfEverMine(o, s) == heldBy[s] = Owner[o]
BookableIfHeld(o, s) == status[s] = "HELD"

\* WHERE id IN (order's seats) AND status = HELD AND held_by = sub
Bookable(o, s) == status[s] = "HELD" /\ heldBy[s] = Owner[o]

\* confirmPaid: all of the seats or none (SeatsLostException, then Cancel).
ConfirmPaid(o) ==
    /\ Pending(o)
    /\ \A s \in items[o] : Bookable(o, s)
    /\ order' = [order EXCEPT ![o] = "PAID"]
    /\ status' = [s \in Seats |-> IF s \in items[o] THEN "BOOKED" ELSE status[s]]
    /\ live' = [live EXCEPT ![o] = items[o]]
    /\ UNCHANGED <<heldBy, items, req>>

\* Faulty variant: puts the seats of used tickets back on sale too.
VoidedAll(o, used) == live[o]

\* The tickets no gate has used are cancelled, and their seats released.
Voided(o, used) == live[o] \ used

\* markRefunded and markDisputed.
VoidSale(o, used, newStatus) ==
    /\ order[o] = "PAID"
    /\ used \subseteq live[o]
    /\ order' = [order EXCEPT ![o] = newStatus]
    /\ live' = [live EXCEPT ![o] = used]
    /\ BackOnSale({s \in Voided(o, used) : status[s] = "BOOKED"})
    /\ UNCHANGED <<items, req>>

BlockSeat(s) ==
    /\ status[s] = "AVAILABLE"
    /\ status' = [status EXCEPT ![s] = "BLOCKED"]
    /\ UNCHANGED <<heldBy, orderVars, req>>

UnblockSeat(s) ==
    /\ status[s] = "BLOCKED"
    /\ status' = [status EXCEPT ![s] = "AVAILABLE"]
    /\ UNCHANGED <<heldBy, orderVars, req>>

-----------------------------------------------------------------------------
RequestStep(r) ==
    \/ \E o \in OrderIds, ids \in SUBSET Seats : FindHeld(r, o, ids)
    \/ \E u \in Users : ReadMine(r, u)
    \/ \E s \in Seats : FindPendingOrders(r, s)
    \/ CheckPending(r) \/ InsertOrder(r)
    \/ CheckOwnPending(r) \/ ReleaseMine(r) \/ AdminRelease(r)

OrderStep(o) ==
    \/ Cancel(o) \/ Expire(o) \/ ConfirmPaid(o)
    \/ \E used \in SUBSET Seats :
          VoidSale(o, used, "REFUNDED") \/ VoidSale(o, used, "CANCELLED")

SeatStep(s) == HoldExpires(s) \/ BlockSeat(s) \/ UnblockSeat(s)

Next ==
    \/ \E r \in Requests : RequestStep(r)
    \/ \E o \in OrderIds : OrderStep(o)
    \/ \E s \in Seats : SeatStep(s)
    \/ \E u \in Users, ids \in SUBSET Seats : Hold(u, ids)

Spec == Init /\ [][Next]_vars

-----------------------------------------------------------------------------
(* Properties                                                               *)

\* No seat is ever sold twice: two orders never have standing tickets for one
\* seat, whatever expires, is released or is refunded around the payments.
NoDoubleSale ==
    \A o, p \in OrderIds : o # p => live[o] \cap live[p] = {}

\* A paid order has a standing ticket and a booked seat for every item it was
\* paid for, and a seat is booked only on the strength of such a ticket.
PaidIsBooked ==
    /\ \A o \in OrderIds : order[o] = "PAID" => live[o] = items[o]
    /\ \A s \in Seats : status[s] = "BOOKED" <=> \E o \in OrderIds : s \in live[o]

\* An order leaves PENDING_PAYMENT once, and only a paid one can be voided:
\* REFUNDED, EXPIRED and CANCELLED are final.
OrderMoves == {<<"NONE", "PENDING_PAYMENT">>, <<"PENDING_PAYMENT", "PAID">>,
               <<"PENDING_PAYMENT", "CANCELLED">>, <<"PENDING_PAYMENT", "EXPIRED">>,
               <<"PAID", "REFUNDED">>, <<"PAID", "CANCELLED">>}
OrderLifecycle ==
    [][\A o \in OrderIds : order'[o] # order[o] => <<order[o], order'[o]>> \in OrderMoves]_vars

\* The seats side of it is the inventory SeatSale promises.
Sale == INSTANCE SeatSale WITH Seats <- Seats, Users <- Users, NoUser <- NoUser,
    MaxSeats <- MaxSeats, status <- status, heldBy <- heldBy
SeatSaleSpec == Sale!Spec

\* "There is already a pending order for one of these seats": a seat has at most
\* one order waiting to be paid.
OnePendingOrderPerSeat ==
    \A o, p \in OrderIds :
        (o # p /\ Pending(o) /\ Pending(p)) => items[o] \cap items[p] = {}

\* "Cancelling the order is the release path for those seats": the holder's own
\* release never frees a seat that the holder's unpaid order covers.
ReleaseSparesPendingOrders ==
    [][\A r \in Requests : ReleaseMine(r) =>
          \A o \in OrderIds : (Pending(o) /\ Owner[o] = req[r].user)
                => items[o] \cap req[r].ids \cap HeldOf(req[r].user) = {}]_vars
=============================================================================
