---------------------------- MODULE OrdersProofs ----------------------------
(***************************************************************************)
(* Theorems about Orders for any seats, buyers, orders and requests.       *)
(*                                                                         *)
(* That no seat is sold twice is not inductive alone: it rests on booked   *)
(* seats and standing tickets being the same thing, and on an order having *)
(* no tickets before it is paid.                                           *)
(***************************************************************************)
EXTENDS Orders, FiniteSetTheorems, TLAPS

USE OrdersAssumption

\* A request to create an order names a seat.
AsksForSeats == \A r \in Requests :
    req[r].op \in {"create: held", "create: clear"} => req[r].ids # {}

\* Tickets are issued when an order is paid, and never before.
TicketsArePaidFor == \A o \in OrderIds :
    order[o] \in {"NONE", "PENDING_PAYMENT"} => live[o] = {}

Typed == TypeOK /\ AsksForSeats
Inv == Typed /\ TicketsArePaidFor /\ NoDoubleSale /\ PaidIsBooked

-----------------------------------------------------------------------------
(* Typing                                                                   *)

Creates == [op: {"create: held", "create: clear"}, id: OrderIds, ids: SUBSET Seats]
Releases == [op: {"release: read", "release: clear"}, user: Users, ids: SUBSET Seats]
Forces == [op: {"force"}, seat: Seats, pending: SUBSET OrderIds]

\* What a request is in the middle of tells its shape.
LEMMA Shapes ==
    ASSUME NEW x \in Request
    PROVE  /\ x.op \in {"create: held", "create: clear"} => x \in Creates
           /\ x.op \in {"release: read", "release: clear"} => x \in Releases
           /\ x.op = "force" => x \in Forces
<1>1. CASE x = Idle
  <2>1. x.op = "idle"
    BY <1>1 DEF Idle
  <2> QED BY <2>1
<1>2. CASE x \in Creates
  <2>1. x.op \in {"create: held", "create: clear"}
    BY <1>2 DEF Creates
  <2> QED BY <1>2, <2>1
<1>3. CASE x \in Releases
  <2>1. x.op \in {"release: read", "release: clear"}
    BY <1>3 DEF Releases
  <2> QED BY <1>3, <2>1
<1>4. CASE x \in Forces
  <2>1. x.op = "force"
    BY <1>4 DEF Forces
  <2> QED BY <1>4, <2>1
<1> QED BY <1>1, <1>2, <1>3, <1>4 DEF Request, Creates, Releases, Forces

LEMMA IdleTyped == Idle \in Request /\ Idle.op = "idle"
BY DEF Idle, Request

LEMMA CreateRequest ==
    ASSUME Typed, NEW r \in Requests, req[r].op \in {"create: held", "create: clear"}
    PROVE  req[r] \in Creates /\ req[r].ids # {}
<1>1. req[r] \in Request
  BY DEF Typed, TypeOK
<1> QED BY <1>1, Shapes DEF Typed, AsksForSeats

LEMMA ReleaseRequest ==
    ASSUME Typed, NEW r \in Requests, req[r].op \in {"release: read", "release: clear"}
    PROVE  req[r] \in Releases
<1>1. req[r] \in Request
  BY DEF Typed, TypeOK
<1> QED BY <1>1, Shapes

LEMMA ForceRequest ==
    ASSUME Typed, NEW r \in Requests, req[r].op = "force"
    PROVE  req[r] \in Forces
<1>1. req[r] \in Request
  BY DEF Typed, TypeOK
<1> QED BY <1>1, Shapes

\* A request's next step, when nothing but the request changes.
LEMMA RequestTyped ==
    ASSUME Typed, NEW r \in Requests, NEW x \in Request, req' = [req EXCEPT ![r] = x],
           UNCHANGED <<seatVars, orderVars>>,
           x.op \in {"create: held", "create: clear"} => x.ids # {}
    PROVE  Typed'
BY DEF Typed, TypeOK, AsksForSeats, seatVars, orderVars

\* A step of the seats alone.
LEMMA BackOnSaleTyped ==
    ASSUME Typed, NEW S, BackOnSale(S)
    PROVE  /\ status' \in [Seats -> SeatStatus]
           /\ heldBy' \in [Seats -> Users \cup {NoUser}]
           /\ \A s \in Seats : heldBy'[s] = NoUser <=> status'[s] \in {"AVAILABLE", "BLOCKED"}
BY DEF Typed, TypeOK, BackOnSale, SeatStatus

LEMMA CloseTyped ==
    ASSUME Typed, NEW O, NEW S, NEW new \in {"CANCELLED", "EXPIRED"},
           \A o \in O : Pending(o), Close(O, S, new)
    PROVE  /\ status' \in [Seats -> SeatStatus]
           /\ heldBy' \in [Seats -> Users \cup {NoUser}]
           /\ \A s \in Seats : heldBy'[s] = NoUser <=> status'[s] \in {"AVAILABLE", "BLOCKED"}
           /\ order' \in [OrderIds -> OrderStatus]
           /\ \A o \in OrderIds : order'[o] = "NONE" <=> items'[o] = {}
           /\ UNCHANGED <<items, live>>
<1>1. BackOnSale({s \in Seats : s \in S \/ \E o \in O : s \in items[o] \cap HeldOf(Owner[o])})
  BY DEF Close
<1>2. /\ order' \in [OrderIds -> OrderStatus]
      /\ \A o \in OrderIds : order'[o] = "NONE" <=> items'[o] = {}
  BY DEF Typed, TypeOK, Close, OrderStatus, Pending
<1> HIDE DEF BackOnSale
<1> QED BY <1>1, <1>2, BackOnSaleTyped DEF Close

LEMMA RequestsKeepTyping ==
    ASSUME Typed, NEW r \in Requests, RequestStep(r)
    PROVE  Typed'
<1>1. ASSUME NEW o \in OrderIds, NEW ids \in SUBSET Seats, FindHeld(r, o, ids) PROVE Typed'
  BY <1>1, RequestTyped DEF FindHeld, Request
<1>2. ASSUME NEW u \in Users, ReadMine(r, u) PROVE Typed'
  <2>1. HeldOf(u) \in SUBSET Seats
    BY DEF HeldOf
  <2> QED BY <1>2, <2>1, RequestTyped DEF ReadMine, Request
<1>3. ASSUME NEW s \in Seats, FindPendingOrders(r, s) PROVE Typed'
  <2>1. PendingOn({s}) \in SUBSET OrderIds
    BY DEF PendingOn
  <2> QED BY <1>3, <2>1, RequestTyped DEF FindPendingOrders, Request
<1>4. CASE CheckPending(r)
  <2>1. req[r] \in Creates /\ req[r].ids # {}
    BY <1>4, CreateRequest DEF CheckPending
  <2> DEFINE next == [req[r] EXCEPT !.op = "create: clear"]
  <2>2. next \in Creates /\ next.ids # {}
    BY <2>1 DEF Creates
  <2>3. next \in Request
    BY <2>2 DEF Request, Creates
  <2> HIDE DEF next
  <2>4. req' = [req EXCEPT ![r] = next] \/ req' = [req EXCEPT ![r] = Idle]
    BY <1>4 DEF CheckPending, next
  <2>5. UNCHANGED <<seatVars, orderVars>>
    BY <1>4 DEF CheckPending
  <2> QED BY <2>2, <2>3, <2>4, <2>5, IdleTyped, RequestTyped
<1>5. CASE InsertOrder(r)
  <2>1. req[r] \in Creates /\ req[r].ids # {}
    BY <1>5, CreateRequest DEF InsertOrder
  <2>2. Idle \in Request /\ Idle.op \notin {"create: held", "create: clear"}
    BY IdleTyped
  <2> DEFINE new == req[r].id
             S == req[r].ids
  <2>a. new \in OrderIds /\ S \in SUBSET Seats /\ S # {}
    BY <2>1 DEF Creates
  <2>b. \/ UNCHANGED <<order, items>>
        \/ /\ order' = [order EXCEPT ![new] = "PENDING_PAYMENT"]
           /\ items' = [items EXCEPT ![new] = S]
    BY <1>5 DEF InsertOrder
  <2> HIDE DEF new, S
  <2>3. /\ order' \in [OrderIds -> OrderStatus] /\ items' \in [OrderIds -> SUBSET Seats]
        /\ \A o \in OrderIds : order'[o] = "NONE" <=> items'[o] = {}
    BY <2>a, <2>b DEF Typed, TypeOK, OrderStatus
  <2>4. req' \in [Requests -> Request] /\ AsksForSeats'
    BY <1>5, <2>2 DEF InsertOrder, Typed, TypeOK, AsksForSeats
  <2> QED BY <1>5, <2>3, <2>4 DEF InsertOrder, Typed, TypeOK, seatVars
<1>6. CASE CheckOwnPending(r)
  <2>1. req[r] \in Releases
    BY <1>6, ReleaseRequest DEF CheckOwnPending
  <2> DEFINE next == [req[r] EXCEPT !.op = "release: clear"]
  <2>2. next \in Releases /\ next.op = "release: clear"
    BY <2>1 DEF Releases
  <2>3. next \in Request
    BY <2>2 DEF Request, Releases
  <2> HIDE DEF next
  <2>4. req' = [req EXCEPT ![r] = next] \/ req' = [req EXCEPT ![r] = Idle]
    BY <1>6 DEF CheckOwnPending, next
  <2>5. UNCHANGED <<seatVars, orderVars>>
    BY <1>6 DEF CheckOwnPending
  <2> QED BY <2>2, <2>3, <2>4, <2>5, IdleTyped, RequestTyped
<1>7. CASE ReleaseMine(r)
  <2>1. Idle \in Request /\ Idle.op \notin {"create: held", "create: clear"}
    BY IdleTyped
  <2>2. req' \in [Requests -> Request] /\ AsksForSeats'
    BY <1>7, <2>1 DEF ReleaseMine, Typed, TypeOK, AsksForSeats
  <2> QED BY <1>7, <2>2, BackOnSaleTyped DEF ReleaseMine, Typed, TypeOK, orderVars
<1>8. CASE AdminRelease(r)
  <2>1. Idle \in Request /\ Idle.op \notin {"create: held", "create: clear"}
    BY IdleTyped
  <2>2. req' \in [Requests -> Request] /\ AsksForSeats'
    BY <1>8, <2>1 DEF AdminRelease, Typed, TypeOK, AsksForSeats
  <2>3. CASE Close({o \in req[r].pending : Pending(o)}, {req[r].seat}, "CANCELLED")
    <3>1. \A o \in {o \in req[r].pending : Pending(o)} : Pending(o)
      OBVIOUS
    <3> QED BY <2>2, <2>3, <3>1, CloseTyped DEF Typed, TypeOK
  <2>4. CASE UNCHANGED <<seatVars, orderVars>>
    BY <2>2, <2>4 DEF Typed, TypeOK, seatVars, orderVars
  <2> QED BY <1>8, <2>3, <2>4 DEF AdminRelease
<1> QED BY <1>1, <1>2, <1>3, <1>4, <1>5, <1>6, <1>7, <1>8 DEF RequestStep

LEMMA OrdersKeepTyping ==
    ASSUME Typed, NEW o \in OrderIds, OrderStep(o)
    PROVE  Typed'
<1>1. ASSUME NEW new \in {"CANCELLED", "EXPIRED"}, Pending(o), Close({o}, {}, new), UNCHANGED req
      PROVE  Typed'
  <2>1. \A p \in {o} : Pending(p)
    BY <1>1
  <2>2. /\ status' \in [Seats -> SeatStatus]
        /\ heldBy' \in [Seats -> Users \cup {NoUser}]
        /\ \A s \in Seats : heldBy'[s] = NoUser <=> status'[s] \in {"AVAILABLE", "BLOCKED"}
        /\ order' \in [OrderIds -> OrderStatus]
        /\ \A p \in OrderIds : order'[p] = "NONE" <=> items'[p] = {}
        /\ UNCHANGED <<items, live>>
    BY <1>1, <2>1, CloseTyped
  <2> QED BY <1>1, <2>2 DEF Typed, TypeOK, AsksForSeats
<1>2. CASE ConfirmPaid(o)
  <2>1. /\ status' \in [Seats -> SeatStatus]
        /\ \A s \in Seats : heldBy'[s] = NoUser <=> status'[s] \in {"AVAILABLE", "BLOCKED"}
    BY <1>2 DEF ConfirmPaid, Bookable, Typed, TypeOK, SeatStatus
  <2>2. /\ order' \in [OrderIds -> OrderStatus] /\ live' \in [OrderIds -> SUBSET Seats]
        /\ \A p \in OrderIds : order'[p] = "NONE" <=> items'[p] = {}
    BY <1>2 DEF ConfirmPaid, Pending, Typed, TypeOK, OrderStatus
  <2> QED BY <1>2, <2>1, <2>2 DEF ConfirmPaid, Typed, TypeOK, AsksForSeats
<1>3. ASSUME NEW used \in SUBSET Seats, NEW new \in {"REFUNDED", "CANCELLED"}, VoidSale(o, used, new)
      PROVE  Typed'
  <2>1. BackOnSale({s \in Voided(o, used) : status[s] = "BOOKED"})
    BY <1>3 DEF VoidSale
  <2>2. /\ order' \in [OrderIds -> OrderStatus] /\ live' \in [OrderIds -> SUBSET Seats]
        /\ \A p \in OrderIds : order'[p] = "NONE" <=> items'[p] = {}
    BY <1>3 DEF VoidSale, Typed, TypeOK, OrderStatus
  <2> QED BY <1>3, <2>1, <2>2, BackOnSaleTyped DEF VoidSale, Typed, TypeOK, AsksForSeats
<1>4. ASSUME Cancel(o) \/ Expire(o) PROVE Typed'
  BY <1>1, <1>4 DEF Cancel, Expire
<1> QED BY <1>2, <1>3, <1>4 DEF OrderStep

LEMMA SeatsKeepTyping ==
    ASSUME Typed,
           \/ \E s \in Seats : SeatStep(s)
           \/ \E u \in Users, ids \in SUBSET Seats : Hold(u, ids)
    PROVE  Typed'
<1>1. ASSUME NEW s \in Seats, HoldExpires(s) PROVE Typed'
  BY <1>1, BackOnSaleTyped DEF HoldExpires, Typed, TypeOK, AsksForSeats, orderVars
<1>2. ASSUME NEW s \in Seats, BlockSeat(s) \/ UnblockSeat(s) PROVE Typed'
  BY <1>2 DEF BlockSeat, UnblockSeat, Typed, TypeOK, AsksForSeats, orderVars, SeatStatus
<1>3. ASSUME NEW u \in Users, NEW ids \in SUBSET Seats, Hold(u, ids) PROVE Typed'
  BY <1>3 DEF Hold, Typed, TypeOK, AsksForSeats, orderVars, SeatStatus
<1> QED BY <1>1, <1>2, <1>3 DEF SeatStep

LEMMA StepTyped == Typed /\ [Next]_vars => Typed'
<1> SUFFICES ASSUME Typed, [Next]_vars PROVE Typed'
  OBVIOUS
<1>1. CASE UNCHANGED vars
  BY <1>1 DEF vars, seatVars, orderVars, Typed, TypeOK, AsksForSeats
<1> QED BY <1>1, RequestsKeepTyping, OrdersKeepTyping, SeatsKeepTyping DEF Next

LEMMA InitTyped == Init => Typed
<1> SUFFICES ASSUME Init PROVE Typed
  OBVIOUS
<1>1. req \in [Requests -> Request] /\ AsksForSeats
  BY IdleTyped DEF Init, AsksForSeats
<1> QED BY <1>1 DEF Init, Typed, TypeOK, SeatStatus, OrderStatus

\* Every row and every request is of its type: a seat has a holder exactly while
\* it is held or booked, and an order has items from the moment it exists.
THEOREM Typing == Spec => []TypeOK
<1>1. Typed => TypeOK
  BY DEF Typed
<1> QED BY <1>1, InitTyped, StepTyped, PTL DEF Spec

-----------------------------------------------------------------------------
(* Selling                                                                  *)

\* What sells nothing and voids nothing: booked seats stay booked, no other is
\* booked, tickets stay, and an order is not moved to or from PAID.
SalesUntouched ==
    /\ live' = live
    /\ \A s \in Seats : status'[s] = "BOOKED" <=> status[s] = "BOOKED"
    /\ \A o \in OrderIds :
          /\ order'[o] = "PAID" => order[o] = "PAID" /\ items'[o] = items[o]
          /\ order'[o] \in {"NONE", "PENDING_PAYMENT"} => order[o] \in {"NONE", "PENDING_PAYMENT"}

LEMMA UntouchedKeepsInv ==
    ASSUME Inv, Typed', SalesUntouched
    PROVE  Inv'
BY DEF Inv, SalesUntouched, TicketsArePaidFor, NoDoubleSale, PaidIsBooked

LEMMA CloseSellsNothing ==
    ASSUME Typed, NEW O, NEW S, NEW new \in {"CANCELLED", "EXPIRED"},
           \A s \in S : s \in Seats /\ status[s] = "HELD", Close(O, S, new)
    PROVE  SalesUntouched
<1>1. \A s \in Seats : status'[s] = "BOOKED" <=> status[s] = "BOOKED"
  BY DEF Close, BackOnSale, HeldOf, Typed, TypeOK
<1> QED BY <1>1 DEF Close, SalesUntouched, Typed, TypeOK

LEMMA RequestsSellNothing ==
    ASSUME Typed, NEW r \in Requests, RequestStep(r)
    PROVE  SalesUntouched
<1>1. CASE UNCHANGED <<seatVars, orderVars>>
  BY <1>1 DEF SalesUntouched, seatVars, orderVars
<1>2. CASE InsertOrder(r)
  <2>1. req[r].id \in OrderIds
    BY <1>2, CreateRequest DEF InsertOrder, Creates
  <2> QED BY <1>2, <2>1 DEF InsertOrder, SalesUntouched, seatVars, Typed, TypeOK
<1>3. CASE ReleaseMine(r)
  BY <1>3 DEF ReleaseMine, BackOnSale, HeldOf, SalesUntouched, orderVars
<1>4. CASE AdminRelease(r)
  <2>1. req[r].seat \in Seats
    BY <1>4, ForceRequest DEF AdminRelease, Forces
  <2>2. CASE status[req[r].seat] = "HELD"
    BY <1>4, <2>1, <2>2, CloseSellsNothing DEF AdminRelease
  <2>3. CASE status[req[r].seat] # "HELD"
    BY <1>4, <2>3, <1>1 DEF AdminRelease
  <2> QED BY <2>2, <2>3
<1> QED BY <1>1, <1>2, <1>3, <1>4
           DEF RequestStep, FindHeld, ReadMine, FindPendingOrders, CheckPending, CheckOwnPending

\* Paying books the order's seats, all of which are HELD by its buyer: none of
\* them has a ticket of another order.
LEMMA ConfirmKeepsInv ==
    ASSUME Inv, Typed', NEW o \in OrderIds, ConfirmPaid(o)
    PROVE  Inv'
<1> USE DEF Inv, Typed, TypeOK
<1>1. live[o] = {}
  BY DEF TicketsArePaidFor, ConfirmPaid, Pending
<1>2. \A p \in OrderIds : items[o] \cap live[p] = {}
  BY DEF ConfirmPaid, Bookable, PaidIsBooked
<1>3. live'[o] = items[o] /\ items' = items /\ order'[o] = "PAID"
  BY DEF ConfirmPaid
<1>4. \A p \in OrderIds : p # o => live'[p] = live[p] /\ order'[p] = order[p]
  BY DEF ConfirmPaid
<1>5. TicketsArePaidFor'
  BY <1>3, <1>4 DEF TicketsArePaidFor
<1>6. NoDoubleSale'
  BY <1>2, <1>3, <1>4 DEF NoDoubleSale
<1>7. \A s \in Seats : status'[s] = "BOOKED" <=> s \in items[o] \/ status[s] = "BOOKED"
  BY DEF ConfirmPaid
<1>8. \A s \in Seats : (\E p \in OrderIds : s \in live'[p])
                       <=> (s \in items[o] \/ \E p \in OrderIds : s \in live[p])
  BY <1>1, <1>3, <1>4
<1>9. PaidIsBooked'
  BY <1>3, <1>4, <1>7, <1>8 DEF PaidIsBooked
<1> QED BY <1>5, <1>6, <1>9

\* Voiding takes back tickets and puts their seats, which are nobody else's, back
\* on sale.
LEMMA VoidKeepsInv ==
    ASSUME Inv, Typed', NEW o \in OrderIds, NEW used \in SUBSET Seats,
           NEW new \in {"REFUNDED", "CANCELLED"}, VoidSale(o, used, new)
    PROVE  Inv'
<1> USE DEF Inv, Typed, TypeOK
<1>1. live'[o] = used /\ used \subseteq live[o] /\ items' = items /\ order'[o] = new
  BY DEF VoidSale
<1>2. \A p \in OrderIds : p # o => live'[p] = live[p] /\ order'[p] = order[p]
  BY DEF VoidSale
<1>3. TicketsArePaidFor'
  BY <1>1, <1>2 DEF TicketsArePaidFor
<1>4. NoDoubleSale'
  BY <1>1, <1>2 DEF NoDoubleSale
<1>5. \A s \in Seats : status'[s] = "BOOKED" <=> status[s] = "BOOKED" /\ s \notin live[o] \ used
  BY DEF VoidSale, BackOnSale, Voided
<1>6. \A s \in Seats : (\E p \in OrderIds : s \in live'[p])
                       <=> (\E p \in OrderIds : s \in live[p]) /\ s \notin live[o] \ used
  BY <1>1, <1>2 DEF NoDoubleSale
<1>7. PaidIsBooked'
  BY <1>1, <1>2, <1>5, <1>6 DEF PaidIsBooked
<1> QED BY <1>3, <1>4, <1>7

LEMMA StepKeepsInv == Inv /\ [Next]_vars => Inv'
<1> SUFFICES ASSUME Inv, [Next]_vars PROVE Inv'
  OBVIOUS
<1>1. Typed /\ Typed'
  BY StepTyped DEF Inv
<1>2. ASSUME NEW r \in Requests, RequestStep(r) PROVE Inv'
  BY <1>1, <1>2, RequestsSellNothing, UntouchedKeepsInv
<1>3. ASSUME NEW o \in OrderIds, Cancel(o) \/ Expire(o) PROVE Inv'
  <2>1. SalesUntouched
    BY <1>1, <1>3, CloseSellsNothing DEF Cancel, Expire
  <2> QED BY <1>1, <2>1, UntouchedKeepsInv
<1>4. ASSUME NEW o \in OrderIds, ConfirmPaid(o) PROVE Inv'
  BY <1>1, <1>4, ConfirmKeepsInv
<1>5. ASSUME NEW o \in OrderIds, NEW used \in SUBSET Seats,
             VoidSale(o, used, "REFUNDED") \/ VoidSale(o, used, "CANCELLED")
      PROVE  Inv'
  BY <1>1, <1>5, VoidKeepsInv
<1>6. ASSUME NEW s \in Seats, SeatStep(s) PROVE Inv'
  <2>1. SalesUntouched
    BY <1>1, <1>6 DEF SeatStep, HoldExpires, BackOnSale, BlockSeat, UnblockSeat, SalesUntouched, orderVars,
                      Typed, TypeOK
  <2> QED BY <1>1, <2>1, UntouchedKeepsInv
<1>7. ASSUME NEW u \in Users, NEW ids \in SUBSET Seats, Hold(u, ids) PROVE Inv'
  <2>1. SalesUntouched
    BY <1>1, <1>7 DEF Hold, HeldOf, SalesUntouched, orderVars, Typed, TypeOK
  <2> QED BY <1>1, <2>1, UntouchedKeepsInv
<1>8. CASE UNCHANGED vars
  <2>1. SalesUntouched
    BY <1>8 DEF vars, seatVars, orderVars, SalesUntouched
  <2> QED BY <1>1, <2>1, UntouchedKeepsInv
<1> QED BY <1>2, <1>3, <1>4, <1>5, <1>6, <1>7, <1>8 DEF Next, OrderStep

LEMMA Invariance == Spec => []Inv
<1>1. Init => Inv
  BY InitTyped DEF Init, Inv, TicketsArePaidFor, NoDoubleSale, PaidIsBooked
<1> QED BY <1>1, StepKeepsInv, PTL DEF Spec

\* Two orders never have standing tickets for one seat.
THEOREM NoSeatSoldTwice == Spec => []NoDoubleSale
<1>1. Inv => NoDoubleSale
  BY DEF Inv
<1> QED BY <1>1, Invariance, PTL

\* A seat is booked exactly on the strength of a standing ticket, and a paid
\* order has one for everything it was paid for.
THEOREM PaidOrdersHaveTheirSeats == Spec => []PaidIsBooked
<1>1. Inv => PaidIsBooked
  BY DEF Inv
<1> QED BY <1>1, Invariance, PTL

\* REFUNDED, EXPIRED and CANCELLED are final, and PENDING_PAYMENT is left once.
THEOREM OrdersMoveForward == Spec => OrderLifecycle
<1>1. Typed /\ [Next]_vars =>
          [\A o \in OrderIds : order'[o] # order[o] => <<order[o], order'[o]>> \in OrderMoves]_vars
  <2> SUFFICES ASSUME Typed, Next, NEW o \in OrderIds, order'[o] # order[o]
               PROVE  <<order[o], order'[o]>> \in OrderMoves
    OBVIOUS
  <2> USE DEF Typed, TypeOK, OrderMoves
  <2>1. ASSUME NEW r \in Requests, RequestStep(r) PROVE <<order[o], order'[o]>> \in OrderMoves
    <3>1. CASE InsertOrder(r)
      BY <3>1 DEF InsertOrder
    <3>2. CASE AdminRelease(r)
      BY <3>2 DEF AdminRelease, Close, Pending, orderVars
    <3> QED BY <2>1, <3>1, <3>2 DEF RequestStep, FindHeld, ReadMine, FindPendingOrders, CheckPending,
                                     CheckOwnPending, ReleaseMine, orderVars
  <2>2. ASSUME NEW p \in OrderIds, OrderStep(p) PROVE <<order[o], order'[o]>> \in OrderMoves
    <3>1. CASE Cancel(p) \/ Expire(p)
      BY <3>1 DEF Cancel, Expire, Close, Pending
    <3>2. CASE ConfirmPaid(p)
      BY <3>2 DEF ConfirmPaid, Pending
    <3>3. ASSUME NEW used \in SUBSET Seats, NEW new \in {"REFUNDED", "CANCELLED"}, VoidSale(p, used, new)
          PROVE  <<order[o], order'[o]>> \in OrderMoves
      BY <3>3 DEF VoidSale
    <3> QED BY <2>2, <3>1, <3>2, <3>3 DEF OrderStep
  <2> QED BY <2>1, <2>2 DEF Next, SeatStep, HoldExpires, BlockSeat, UnblockSeat, Hold, orderVars
<1> QED BY <1>1, InitTyped, StepTyped, PTL DEF Spec, OrderLifecycle

-----------------------------------------------------------------------------
(* Refinement                                                               *)

LEMMA SameCardinality == \A S : Sale!Cardinality(S) = Cardinality(S)
BY DEF Cardinality, Sale!Cardinality

\* Seats that go back on sale are all held, or all booked.
LEMMA BackOnSaleIsSaleStep ==
    ASSUME NEW S, BackOnSale(S),
           \/ \A s \in S : s \in Seats /\ status[s] = "HELD"
           \/ \A s \in S : s \in Seats /\ status[s] = "BOOKED"
    PROVE  Sale!Next
<1>1. S \in SUBSET Seats
  OBVIOUS
<1>2. Sale!LetGo(S) \/ Sale!Restock(S)
  BY DEF BackOnSale, Sale!LetGo, Sale!Restock
<1> QED BY <1>1, <1>2 DEF Sale!Next

LEMMA CloseIsSaleStep ==
    ASSUME NEW O, NEW S, NEW new, \A s \in S : s \in Seats /\ status[s] = "HELD", Close(O, S, new)
    PROVE  Sale!Next
<1> DEFINE freed == {s \in Seats : s \in S \/ \E o \in O : s \in items[o] \cap HeldOf(Owner[o])}
<1>1. BackOnSale(freed)
  BY DEF Close
<1>2. \A s \in freed : s \in Seats /\ status[s] = "HELD"
  BY DEF HeldOf
<1> HIDE DEF freed
<1> QED BY <1>1, <1>2, BackOnSaleIsSaleStep

\* The orders' side of the inventory is the inventory SeatSale promises: each step
\* takes, lets go, sells or restocks seats as it allows, or leaves them alone.
THEOREM ImplementsSeatSale == Spec => SeatSaleSpec
<1>1. Init => Sale!Init
  BY DEF Init, Sale!Init
<1>2. Typed /\ [Next]_vars => [Sale!Next]_(Sale!saleVars)
  <2> SUFFICES ASSUME Typed, [Next]_vars PROVE Sale!Next \/ UNCHANGED <<status, heldBy>>
    BY DEF Sale!saleVars
  <2>1. ASSUME NEW r \in Requests, RequestStep(r) PROVE Sale!Next \/ UNCHANGED <<status, heldBy>>
    <3>1. CASE ReleaseMine(r)
      <4>1. \A s \in req[r].ids \cap HeldOf(req[r].user) : s \in Seats /\ status[s] = "HELD"
        BY DEF HeldOf
      <4> QED BY <3>1, <4>1, BackOnSaleIsSaleStep DEF ReleaseMine
    <3>2. CASE AdminRelease(r)
      <4>1. req[r].seat \in Seats
        BY <3>2, ForceRequest DEF AdminRelease, Forces
      <4> QED BY <3>2, <4>1, CloseIsSaleStep DEF AdminRelease, seatVars
    <3> QED BY <2>1, <3>1, <3>2 DEF RequestStep, FindHeld, ReadMine, FindPendingOrders, CheckPending,
                                     CheckOwnPending, InsertOrder, seatVars
  <2>2. ASSUME NEW o \in OrderIds, OrderStep(o) PROVE Sale!Next \/ UNCHANGED <<status, heldBy>>
    <3>1. CASE Cancel(o) \/ Expire(o)
      BY <3>1, CloseIsSaleStep DEF Cancel, Expire
    <3>2. CASE ConfirmPaid(o)
      <4>1. items[o] \in SUBSET Seats /\ Owner[o] \in Users
        BY DEF Typed, TypeOK
      <4>2. Sale!Sell(Owner[o], items[o])
        BY <3>2, <4>1 DEF ConfirmPaid, Bookable, Sale!Sell, Sale!HeldOf
      <4> QED BY <4>1, <4>2 DEF Sale!Next
    <3>3. ASSUME NEW used \in SUBSET Seats, NEW new \in {"REFUNDED", "CANCELLED"}, VoidSale(o, used, new)
          PROVE  Sale!Next
      <4>1. \A s \in {s \in Voided(o, used) : status[s] = "BOOKED"} : s \in Seats /\ status[s] = "BOOKED"
        BY DEF Voided, Typed, TypeOK
      <4> QED BY <3>3, <4>1, BackOnSaleIsSaleStep DEF VoidSale
    <3> QED BY <2>2, <3>1, <3>2, <3>3 DEF OrderStep
  <2>3. ASSUME NEW s \in Seats, SeatStep(s) PROVE Sale!Next
    <3>1. CASE HoldExpires(s)
      BY <3>1, BackOnSaleIsSaleStep DEF HoldExpires
    <3>2. CASE BlockSeat(s) \/ UnblockSeat(s)
      <4>1. Sale!Withdraw(s) \/ Sale!PutBack(s)
        BY <3>2 DEF BlockSeat, UnblockSeat, Sale!Withdraw, Sale!PutBack
      <4> QED BY <4>1 DEF Sale!Next
    <3> QED BY <2>3, <3>1, <3>2 DEF SeatStep
  <2>4. ASSUME NEW u \in Users, NEW ids \in SUBSET Seats, Hold(u, ids) PROVE Sale!Next
    <3>1. HeldOf(u) = Sale!HeldOf(u)
      BY DEF HeldOf, Sale!HeldOf
    <3>2. Sale!Cardinality(Sale!HeldOf(u) \cup ids) <= MaxSeats
      BY <2>4, <3>1, SameCardinality DEF Hold
    <3>3. Sale!Take(u, ids)
      BY <2>4, <3>1, <3>2 DEF Hold, Sale!Take
    <3> QED BY <3>3 DEF Sale!Next
  <2>5. CASE UNCHANGED vars
    BY <2>5 DEF vars, seatVars
  <2> QED BY <2>1, <2>2, <2>3, <2>4, <2>5 DEF Next
<1> QED BY <1>1, <1>2, InitTyped, StepTyped, PTL DEF Spec, SeatSaleSpec, Sale!Spec
=============================================================================
