------------------------------ MODULE SeatMap ------------------------------
(***************************************************************************)
(* One buyer's live seat map: the cached seats that broadcasts and refetches*)
(* both write, what is picked on it, and the requests that hold the picks,  *)
(* order them, release them or cancel the order that locks them, with the   *)
(* booking service and the other buyers behind it.                          *)
(*                                                                         *)
(* A seat is as this buyer may see it: open, mine (HELD by this buyer), held*)
(* (by another) or sold (BOOKED, or BLOCKED by an administrator).  Orders   *)
(* are this buyer's, numbered as they are placed.                           *)
(***************************************************************************)
EXTENDS Integers, Sequences, FiniteSets, FiniteSetsExt, SequencesExt

CONSTANTS Seats,
          MaxPicks,     \* MAX_SEATS_PER_ORDER
          MaxOrders,    \* bound: orders placed
          MaxTopic,     \* bound: broadcasts under way
          MaxElsewhere, \* bound: changes made by anybody else, or by time
          MaxAsked,     \* bound: requests the buyer makes, reloads included
          Nothing       \* null: not picked, not blocked, not fetched

ASSUME SeatMapAssumption ==
    /\ IsFiniteSet(Seats) /\ {MaxPicks, MaxOrders, MaxTopic, MaxElsewhere, MaxAsked} \subseteq Nat
    /\ Cardinality(Seats) <= MaxOrders  \* an earlier visit may have ordered every seat

VARIABLES
    seat,       \* seats.status and seats.held_by, as this buyer may see them
    placed,     \* the orders placed: their seats, and whether they are unpaid
    theirs,     \* seats a stranger's unpaid order names, though his hold lapsed
    onSale,     \* SalesWindow's answer
    topic,      \* broadcasts sent and not yet received
    cache,      \* ["seats", slug]: the map on screen, or Nothing
    seatsFetch,
    salesOpen,  \* salesState of the cached event
    picked, holdExpiry, blocked,
    myOrders,   \* ["orders", "me"], or Nothing
    ordersFetch,
    reserving, releasing, cancelling,
    elsewhere, asked  \* how often anybody else acted, and the buyer asked

saleVars == <<seat, placed, theirs, onSale>>
fetchVars == <<seatsFetch, ordersFetch>>
pickVars == <<picked, holdExpiry, blocked>>
callVars == <<reserving, releasing, cancelling>>
counts == <<elsewhere, asked>>
mapVars == <<saleVars, topic, cache, myOrders, salesOpen, fetchVars, pickVars, callVars, counts>>

SeatState == {"open", "mine", "held", "sold"}
Order == [seats: SUBSET Seats, unpaid: BOOLEAN]
Broadcast == [seats: SUBSET Seats, status: {"open", "held", "sold"}]

NoCall == [at |-> "idle"]
Asked == [at |-> "asked"]
Failed == [at |-> "failed"]
SeatsRead == [at: {"read"}, seats: [Seats -> SeatState]]
OrdersRead == [at: {"read"}, orders: Seq(Order)]
Reserving == [at: {"hold", "held", "unavailable", "failed",
                   "order", "ordered", "covered", "refused"},
              seats: SUBSET Seats]
ReleaseBlocked == [at: {"blocked"}, seats: SUBSET Seats]
Cancelling == [at: {"asked", "done", "failed"}, order: 1 .. MaxOrders]

\* The seats, the map and the calls under way have their types: a cancellation is of
\* an order, never of the 0 that stands for none.
MapTypeOK ==
    /\ seat \in [Seats -> SeatState]
    /\ placed \in Seq(Order) /\ Len(placed) <= MaxOrders
    /\ theirs \subseteq Seats
    /\ onSale \in BOOLEAN /\ salesOpen \in BOOLEAN
    /\ topic \in Seq(Broadcast) /\ Len(topic) <= MaxTopic
    /\ cache \in {Nothing} \cup [Seats -> SeatState]
    /\ seatsFetch \in {NoCall, Asked, Failed} \cup SeatsRead
    /\ picked \in {Nothing} \cup SUBSET Seats
    /\ holdExpiry \in BOOLEAN
    /\ blocked \in {Nothing} \cup SUBSET Seats
    /\ myOrders \in {Nothing} \cup Seq(Order)
    /\ ordersFetch \in {NoCall, Asked, Failed} \cup OrdersRead
    /\ reserving \in {NoCall} \cup Reserving
    /\ releasing \in {NoCall, Asked, Failed, [at |-> "done"]} \cup ReleaseBlocked
    /\ cancelling \in {NoCall} \cup Cancelling
    /\ elsewhere \in 0 .. MaxElsewhere /\ asked \in 0 .. MaxAsked

-----------------------------------------------------------------------------
(* What the map shows                                                       *)

\* Seats the API already says are ours, and those that can be picked.
Mine == IF cache = Nothing THEN {} ELSE {s \in Seats : cache[s] = "mine"}
Available == IF cache = Nothing THEN {} ELSE {s \in Seats : cache[s] \in {"open", "mine"}}

Selected == (IF picked = Nothing THEN Mine ELSE picked) \cap Available
HeldUntil == holdExpiry \/ Mine # {}
MapShown == cache # Nothing

\* The unpaid orders that may be what locks the seats a refusal named.
PendingOrders(orders, seats) ==
    {i \in DOMAIN orders : orders[i].unpaid /\ (seats = {} \/ orders[i].seats \cap seats # {})}

\* Faulty variant: when none of them covers the seats, the newest unpaid one does.
FallingBack(orders, seats) ==
    IF PendingOrders(orders, seats) = {}
    THEN Max({0} \cup PendingOrders(orders, {}))
    ELSE Max(PendingOrders(orders, seats))

\* findPendingOrder: the newest of them; 0 is undefined.
FindPendingOrder(orders, seats) == Max({0} \cup PendingOrders(orders, seats))

BlockingOrder ==
    IF blocked = Nothing \/ myOrders = Nothing THEN 0 ELSE FindPendingOrder(myOrders, blocked)

-----------------------------------------------------------------------------
(* The booking service and the other buyers                                 *)

Taken == {"held", "sold"}
StillHeld(S) == {s \in S : seat[s] = "mine"}

\* findPendingSeatIds asks about this buyer's orders, existsPendingForSeats about
\* everybody's.
Locked == UNION {placed[i].seats : i \in {j \in DOMAIN placed : placed[j].unpaid}}
Pending == Locked \cup theirs

\* A change of these seats commits and is broadcast, to this buyer as to everybody.
Becomes(S, status, told) ==
    /\ S # {} => Len(topic) < MaxTopic
    /\ seat' = [s \in Seats |-> IF s \in S THEN status ELSE seat[s]]
    /\ topic' = IF S = {} THEN topic ELSE Append(topic, [seats |-> S, status |-> told])

\* A stranger's hold that lapses may leave his order behind, until it is swept.
Others(s) ==
    /\ seat[s] # "mine"
    /\ \E status \in {"open", "held", "sold"} \ {seat[s]} :
          /\ Becomes({s}, status, status)
          /\ \/ UNCHANGED theirs
             \/ seat[s] = "held" /\ status = "open" /\ theirs' = theirs \cup ({s} \ Locked)
    /\ UNCHANGED <<placed, onSale, cache, salesOpen, myOrders, fetchVars, pickVars, callVars>>

OrderSwept(s) ==
    /\ s \in theirs
    /\ theirs' = theirs \ {s}
    /\ UNCHANGED <<seat, placed, onSale, topic, cache, salesOpen, myOrders, fetchVars, pickVars, callVars>>

\* The buyer's hold runs out.
HoldLapses(s) ==
    /\ seat[s] = "mine" /\ Becomes({s}, "open", "open")
    /\ UNCHANGED <<placed, theirs, onSale, cache, salesOpen, myOrders, fetchVars, pickVars, callVars>>

\* The buyer orders what he holds, in another tab.
OrderElsewhere(S) ==
    /\ onSale /\ S # {} /\ S = StillHeld(S) /\ S \cap Pending = {} /\ Len(placed) < MaxOrders
    /\ placed' = Append(placed, [seats |-> S, unpaid |-> TRUE])
    /\ UNCHANGED <<seat, theirs, onSale, topic, cache, salesOpen, myOrders, fetchVars, pickVars, callVars>>

CloseOrder(i) ==
    /\ placed[i].unpaid
    /\ placed' = [placed EXCEPT ![i].unpaid = FALSE]

\* The order expires, or is cancelled or paid for in another tab.
OrderEnds(i) ==
    /\ CloseOrder(i)
    /\ \/ Becomes(StillHeld(placed[i].seats), "open", "open")
       \/ placed[i].seats = StillHeld(placed[i].seats) /\ Becomes(placed[i].seats, "sold", "sold")
    /\ UNCHANGED <<theirs, onSale, cache, salesOpen, myOrders, fetchVars, pickVars, callVars>>

StopSelling ==
    /\ onSale /\ onSale' = FALSE
    /\ UNCHANGED <<seat, placed, theirs, topic, cache, salesOpen, myOrders, fetchVars, pickVars, callVars>>

HoldDecided ==
    LET S == reserving.seats
        open == \A s \in S : seat[s] \in {"open", "mine"}
        answer(at) == reserving' = [at |-> at, seats |-> S]
    IN /\ reserving.at = "hold"
       /\ \/ onSale /\ open /\ Becomes(S, "mine", "held") /\ (answer("held") \/ answer("failed"))
          \/ onSale /\ ~open /\ answer("unavailable") /\ UNCHANGED <<seat, topic>>
          \/ answer("failed") /\ UNCHANGED <<seat, topic>>
       /\ UNCHANGED <<placed, theirs, onSale, cache, salesOpen, myOrders, fetchVars, pickVars, releasing,
                      cancelling>>

OrderDecided ==
    LET S == reserving.seats
        held == S = StillHeld(S)
        answer(at) == reserving' = [at |-> at, seats |-> S]
    IN /\ reserving.at = "order"
       /\ \/ /\ onSale /\ held /\ S \cap Pending = {} /\ Len(placed) < MaxOrders
             /\ placed' = Append(placed, [seats |-> S, unpaid |-> TRUE])
             /\ answer("ordered") \/ answer("refused")
          \/ onSale /\ held /\ S \cap Pending # {} /\ answer("covered") /\ UNCHANGED placed
          \/ answer("refused") /\ UNCHANGED placed
       /\ UNCHANGED <<seat, theirs, onSale, topic, cache, salesOpen, myOrders, fetchVars, pickVars, releasing,
                      cancelling>>

\* releaseMine: every seat the buyer holds, or none of them.
ReleaseDecided ==
    LET S == StillHeld(Seats)
    IN /\ releasing = Asked
       /\ \/ S \cap Locked = {} /\ Becomes(S, "open", "open") /\ releasing' \in {[at |-> "done"], Failed}
          \/ /\ S \cap Locked # {} /\ releasing' = [at |-> "blocked", seats |-> S \cap Locked]
             /\ UNCHANGED <<seat, topic>>
          \/ releasing' = Failed /\ UNCHANGED <<seat, topic>>
       /\ UNCHANGED <<placed, theirs, onSale, cache, salesOpen, myOrders, fetchVars, pickVars, reserving,
                      cancelling>>

BlockerCancelDecided ==
    LET answer(at) == cancelling' = [cancelling EXCEPT !.at = at]
    IN /\ cancelling.at = "asked"
       /\ \/ /\ CloseOrder(cancelling.order)
             /\ Becomes(StillHeld(placed[cancelling.order].seats), "open", "open")
             /\ answer("done") \/ answer("failed")
          \/ answer("failed") /\ UNCHANGED <<seat, placed, topic>>
       /\ UNCHANGED <<theirs, onSale, cache, salesOpen, myOrders, fetchVars, pickVars, reserving, releasing>>

ReadSeats ==
    /\ seatsFetch = Asked
    /\ seatsFetch' \in {[at |-> "read", seats |-> seat], Failed}
    /\ UNCHANGED <<saleVars, topic, cache, salesOpen, myOrders, ordersFetch, pickVars, callVars>>

ReadOrders ==
    /\ ordersFetch = Asked
    /\ ordersFetch' \in {[at |-> "read", orders |-> placed], Failed}
    /\ UNCHANGED <<saleVars, topic, cache, salesOpen, myOrders, seatsFetch, pickVars, callVars>>

-----------------------------------------------------------------------------
(* What reaches the cache                                                   *)

\* mergeSeatChanges: a HELD broadcast names no holder, so it never overrides ours.
Merged(change, s) ==
    IF s \in change.seats /\ ~(change.status = "held" /\ cache[s] = "mine")
    THEN change.status
    ELSE cache[s]

Deliver ==
    /\ topic # <<>>
    /\ topic' = Tail(topic)
    /\ cache' = IF cache = Nothing THEN Nothing ELSE [s \in Seats |-> Merged(Head(topic), s)]
    /\ UNCHANGED <<saleVars, salesOpen, myOrders, fetchVars, pickVars, callVars>>

\* The connection is down: what is sent meanwhile is not sent again.
Missed ==
    /\ topic # <<>>
    /\ topic' = Tail(topic)
    /\ UNCHANGED <<saleVars, cache, salesOpen, myOrders, fetchVars, pickVars, callVars>>

\* invalidateQueries(["seats", slug]): a refetch under way is begun again.
RefetchSeats == seatsFetch' = Asked

\* invalidateQueries(["orders"]), which is only fetched while a refusal stands.
RefetchOrders == ordersFetch' = IF blocked' = Nothing THEN NoCall ELSE Asked

Rests(fetch) == fetch \in {NoCall, Failed}

\* The window has the focus again: every query on the page is fetched, unless it is
\* being fetched already.
FocusMap ==
    /\ seatsFetch' = IF Rests(seatsFetch) THEN Asked ELSE seatsFetch
    /\ ordersFetch' = IF Rests(ordersFetch) /\ blocked # Nothing THEN Asked ELSE ordersFetch
    /\ UNCHANGED <<saleVars, topic, cache, salesOpen, myOrders, pickVars, callVars>>

TryAgain ==
    /\ cache = Nothing /\ seatsFetch = Failed
    /\ RefetchSeats
    /\ UNCHANGED <<saleVars, topic, cache, salesOpen, myOrders, ordersFetch, pickVars, callVars>>

SeatsFetched ==
    /\ seatsFetch.at = "read"
    /\ cache' = seatsFetch.seats
    /\ seatsFetch' = NoCall
    /\ UNCHANGED <<saleVars, topic, salesOpen, myOrders, ordersFetch, pickVars, callVars>>

OrdersFetched ==
    /\ ordersFetch.at = "read"
    /\ myOrders' = ordersFetch.orders
    /\ ordersFetch' = NoCall
    /\ UNCHANGED <<saleVars, topic, cache, salesOpen, seatsFetch, pickVars, callVars>>

\* The event is fetched again, or the clock passes an end of its sales window.
SalesChecked ==
    /\ salesOpen' = onSale
    /\ UNCHANGED <<saleVars, topic, cache, myOrders, fetchVars, pickVars, callVars>>

-----------------------------------------------------------------------------
(* What the buyer does                                                      *)

\* While nothing is on sale the stands read but do not respond.
StandsLocked == ~salesOpen
Pickable(s) == s \in Available /\ ~StandsLocked

\* toggle: what is picked is what is still selected, give or take a seat.
Toggle(s) ==
    /\ \/ s \in Selected /\ picked' = Selected \ {s}
       \/ s \notin Selected /\ Cardinality(Selected) < MaxPicks /\ picked' = Selected \cup {s}
    /\ UNCHANGED <<saleVars, topic, cache, salesOpen, myOrders, fetchVars, holdExpiry, blocked, callVars>>

\* A seat's button in its stand, and the one that removes it from the list beside.
PressSeat(s) == MapShown /\ Pickable(s) /\ Toggle(s)
RemoveSeat(s) == MapShown /\ s \in Selected /\ Toggle(s)

CanReserve == Selected # {} /\ salesOpen /\ reserving = NoCall

Reserve ==
    /\ CanReserve
    /\ reserving' = [at |-> "hold", seats |-> Selected]
    /\ UNCHANGED <<saleVars, topic, cache, salesOpen, myOrders, fetchVars, pickVars, releasing, cancelling>>

\* Faulty variant: the seats of a refused reservation are not fetched again.
ReservationFailedQuietly ==
    /\ reserving.at \in {"unavailable", "failed", "refused"}
    /\ reserving' = NoCall
    /\ UNCHANGED <<pickVars, seatsFetch, ordersFetch>>

ReservationFailed ==
    /\ UNCHANGED pickVars
    /\ RefetchSeats
    /\ \/ reserving.at \in {"unavailable", "failed"} /\ UNCHANGED ordersFetch
       \/ reserving.at = "refused" /\ RefetchOrders
    /\ reserving' = NoCall

\* The hold is granted: its seats are ordered at once, as they were picked.
Held ==
    /\ reserving.at = "held"
    /\ reserving' = [reserving EXCEPT !.at = "order"]
    /\ holdExpiry' = TRUE
    /\ RefetchSeats
    /\ UNCHANGED <<picked, blocked, ordersFetch>>

\* Faulty variant: the list that names the order is not asked for.
ShowBlockingOrderUnlisted(seats) == blocked' = seats /\ UNCHANGED ordersFetch

ShowBlockingOrder(seats) == blocked' = seats /\ RefetchOrders

\* ORDER_ALREADY_PENDING names no seats: the ones asked for stand in.
AlreadyPending ==
    /\ reserving.at = "covered"
    /\ reserving' = NoCall
    /\ ShowBlockingOrder(reserving.seats)
    /\ UNCHANGED <<picked, holdExpiry, seatsFetch>>

ReserveAnswered ==
    /\ ReservationFailed \/ Held \/ AlreadyPending
    /\ UNCHANGED <<saleVars, topic, cache, salesOpen, myOrders, releasing, cancelling>>

\* Bound: one release at a time, though its link is not disabled meanwhile.
CanRelease == Selected # {} /\ HeldUntil /\ releasing = NoCall

Release ==
    /\ CanRelease
    /\ releasing' = Asked
    /\ UNCHANGED <<saleVars, topic, cache, salesOpen, myOrders, fetchVars, pickVars, reserving, cancelling>>

ReleaseAnswered ==
    /\ \/ /\ releasing.at = "done"
          /\ blocked' = Nothing /\ picked' = {} /\ holdExpiry' = FALSE
          /\ UNCHANGED ordersFetch
       \/ /\ releasing.at = "blocked"
          /\ ShowBlockingOrder(releasing.seats)
          /\ UNCHANGED <<picked, holdExpiry>>
       \/ releasing = Failed /\ UNCHANGED <<pickVars, ordersFetch>>
    /\ releasing' = NoCall
    /\ RefetchSeats
    /\ UNCHANGED <<saleVars, topic, cache, salesOpen, myOrders, reserving, cancelling>>

CancelBlockingOrder ==
    /\ BlockingOrder # 0
    /\ cancelling = NoCall
    /\ cancelling' = [at |-> "asked", order |-> BlockingOrder]
    /\ UNCHANGED <<saleVars, topic, cache, salesOpen, myOrders, fetchVars, pickVars, reserving, releasing>>

BlockerCancelAnswered ==
    /\ \/ /\ cancelling.at = "done"
          /\ blocked' = Nothing /\ picked' = Nothing /\ holdExpiry' = FALSE
          /\ RefetchSeats
       \/ /\ cancelling.at = "failed"
          /\ UNCHANGED <<pickVars, seatsFetch>>
    /\ cancelling' = NoCall
    /\ RefetchOrders
    /\ UNCHANGED <<saleVars, topic, cache, salesOpen, myOrders, reserving, releasing>>

Enter ==
    /\ cache' = Nothing /\ seatsFetch' = Asked
    /\ picked' = Nothing /\ holdExpiry' = FALSE /\ blocked' = Nothing
    /\ myOrders' = Nothing /\ ordersFetch' = NoCall
    /\ topic' = <<>>
    /\ salesOpen' = onSale
    /\ UNCHANGED saleVars

\* The buyer is sent to pay for the order, and comes back.
Ordered == reserving.at = "ordered" /\ Enter /\ reserving' = NoCall /\ UNCHANGED <<releasing, cancelling>>

ReloadMap == reserving = NoCall /\ releasing = NoCall /\ cancelling = NoCall /\ Enter /\ UNCHANGED callVars

-----------------------------------------------------------------------------
\* An earlier visit may have left holds, and an unpaid order over each (bound: over
\* every seat, or over none); or a stranger who let go of seats, an order (bound:
\* over all but one).
MapInit ==
    /\ \/ /\ seat = [s \in Seats |-> "open"] /\ placed = <<>>
          /\ theirs = Seats \ {SetToSeq(Seats)[1]}
       \/ /\ seat = [s \in Seats |-> "mine"] /\ theirs = {}
          /\ placed = [i \in 1 .. Cardinality(Seats) |->
                         [seats |-> {SetToSeq(Seats)[i]}, unpaid |-> TRUE]]
    /\ onSale = TRUE
    /\ topic = <<>> /\ cache = Nothing /\ seatsFetch = Asked
    /\ salesOpen = TRUE
    /\ picked = Nothing /\ holdExpiry = FALSE /\ blocked = Nothing
    /\ myOrders = Nothing /\ ordersFetch = NoCall
    /\ reserving = NoCall /\ releasing = NoCall /\ cancelling = NoCall
    /\ elsewhere = 0 /\ asked = 0

Elsewhere ==
    /\ elsewhere < MaxElsewhere /\ elsewhere' = elsewhere + 1
    /\ \/ \E s \in Seats : Others(s) \/ HoldLapses(s) \/ OrderSwept(s)
       \/ \E S \in SUBSET Seats : OrderElsewhere(S)
       \/ \E i \in DOMAIN placed : OrderEnds(i)
       \/ StopSelling
    /\ UNCHANGED asked

Requests ==
    /\ asked < MaxAsked /\ asked' = asked + 1
    /\ Reserve \/ Release \/ CancelBlockingOrder \/ FocusMap \/ TryAgain \/ ReloadMap
    /\ UNCHANGED elsewhere

Answers ==
    /\ \/ HoldDecided \/ OrderDecided \/ ReleaseDecided \/ BlockerCancelDecided
       \/ ReserveAnswered \/ Ordered \/ ReleaseAnswered \/ BlockerCancelAnswered
       \/ ReadSeats \/ SeatsFetched \/ ReadOrders \/ OrdersFetched
       \/ Deliver \/ Missed \/ SalesChecked
       \/ \E s \in Seats : PressSeat(s) \/ RemoveSeat(s)
    /\ UNCHANGED counts

MapNext == Elsewhere \/ Requests \/ Answers

MapSpec == MapInit /\ [][MapNext]_mapVars

\* What has arrived, or can be read, does not lie there for ever: no one of these steps
\* is repeated without a new request, so fairness of them all together is enough.
MapFairSpec ==
    /\ MapSpec
    /\ WF_mapVars((\/ ReadSeats \/ SeatsFetched \/ ReadOrders \/ OrdersFetched
                   \/ ReserveAnswered \/ Ordered \/ ReleaseAnswered) /\ UNCHANGED counts)

-----------------------------------------------------------------------------
(* "Cancel that order" is only ever pressed for an order that locks a seat   *)
(* the refusal named, as far as the service itself can tell: a good order   *)
(* is not destroyed without freeing one (lib/orders.ts, findPendingOrder).   *)
CancelsTheBlocker ==
    [][cancelling = NoCall /\ cancelling' # NoCall /\ blocked # {}
       => placed[cancelling'.order].seats \cap blocked # {}]_mapVars

(* Picks refused because somebody took a seat are refreshed: the seat leaves *)
(* the selection, unless it is free again or the map could not be fetched.   *)
LostPicksGo ==
    \A s \in Seats :
        reserving.at = "unavailable" /\ s \in reserving.seats /\ seat[s] \in Taken
        ~> s \notin Selected \/ seat[s] \notin Taken \/ seatsFetch = Failed

(* A buyer refused over a seat that one of his own unpaid orders names, in    *)
(* whatever tab he placed it, comes to be offered an order to pay or cancel, *)
(* unless his orders cannot be listed, that order ends first, or he does     *)
(* something else.  A stranger's order refuses him too and is never offered: *)
(* he cannot cancel it, and it is swept.                                     *)
RefusedOver(s) ==
    /\ cancelling = NoCall
    /\ \/ reserving.at = "covered" /\ s \in reserving.seats /\ releasing = NoCall
       \/ releasing.at = "blocked" /\ s \in releasing.seats /\ reserving = NoCall
BlockedSeesOrder ==
    \A s \in Seats :
        RefusedOver(s) /\ s \in Locked /\ asked = MaxAsked
        ~> s \notin Locked \/ (~RefusedOver(s) /\ (BlockingOrder # 0 \/ ordersFetch = Failed))

(* "Nothing is held for you", the screen says when the seats cannot be       *)
(* loaded (live-seat-map.tsx:269).                                           *)
NothingHeldUnseen == seatsFetch = Failed /\ cache = Nothing => \A s \in Seats : seat[s] # "mine"

(* "The map stays honest" (realtime.ts:34): when nothing is under way to it, *)
(* it shows the seats as they are.                                           *)
MapStaysHonest == topic = <<>> /\ seatsFetch = NoCall /\ MapShown => cache = seat
=============================================================================
