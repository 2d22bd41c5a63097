-------------------------- MODULE EventCancellation --------------------------
(***************************************************************************)
(* Calling an event off while it is still being sold.  The cancellation is *)
(* one READ COMMITTED transaction of many statements: it locks the event,  *)
(* lists the paid orders and voids each, lists the unpaid ones and closes  *)
(* each, lets go of what is still held, and commits.  What it has changed  *)
(* is invisible to everybody else until then; the rows it has changed or   *)
(* locked make others wait.  After the commit it asks the provider for the *)
(* refunds, and the reconciler asks for the rest.                          *)
(*                                                                         *)
(* Every order is of one buyer and for one seat, makes one charge and gets *)
(* one ticket: Orders, Payments and Gate have the detail of each.          *)
(***************************************************************************)
EXTENDS Naturals, FiniteSets

CONSTANTS Orders,        \* orders, each with its own buyer and seat
          Admins,        \* administrators cancelling the event
          Editors,       \* administrators saving its details
          AskedAtOnce,   \* REFUNDS_ASKED_AT_ONCE
          MaxAttempts    \* app.payment.refund-retry.max-attempts

ASSUME CancellationAssumption == AskedAtOnce \in Nat /\ MaxAttempts \in Nat \ {0}

VARIABLES event,      \* events.status, as committed
          seat,       \* seats.status of each order's seat
          order,      \* orders.status, "NONE" before the row exists
          ticket,     \* tickets.status, "NONE" before the row exists
          gate,       \* tickets a turnstile has looked up and not yet admitted
          charge,     \* payments.status, "NONE" before the row exists
          asked,      \* payments.refund_attempts, up to MaxAttempts
          lastAsk,    \* payments.refund_last_attempt_at
          buyer,      \* a buyer's request that found the event on sale
          cancel,     \* how far each cancellation has got
          editor      \* the status each save of the details has loaded

saleVars == <<seat, order, buyer, ticket, gate>>
refundVars == <<charge, asked, lastAsk>>
vars == <<event, saleVars, refundVars, cancel, editor>>

EventStatus == {"ONSALE", "SOLD_OUT", "CANCELLED"}
Sold == {o \in Orders : order[o] = "PAID"}
Unpaid == {o \in Orders : order[o] = "PENDING_PAYMENT"}
Standing(o) == ticket[o] \in {"ISSUED", "USED"}

Idle == [at |-> "idle", todo |-> {}, locked |-> {}, voided |-> {}, closed |-> {}, freed |-> {}]
Stage == {"idle", "paid", "pending", "released", "asking"}

\* Rows and what each unwinding keeps have their types, and an order has a ticket
\* exactly from its payment on.
TypeOK ==
    /\ event \in EventStatus
    /\ seat \in [Orders -> {"AVAILABLE", "HELD", "BOOKED"}]
    /\ order \in [Orders -> {"NONE", "PENDING_PAYMENT", "PAID", "CANCELLED", "REFUNDED"}]
    /\ ticket \in [Orders -> {"NONE", "ISSUED", "USED", "CANCELLED"}]
    /\ \A o \in Orders : ticket[o] # "NONE" <=> order[o] \in {"PAID", "REFUNDED"}
    /\ gate \subseteq Orders
    /\ charge \in [Orders -> {"NONE", "INITIATED", "SUCCEEDED", "REFUND_REQUIRED", "REFUNDED"}]
    /\ asked \in [Orders -> 0 .. MaxAttempts]
    /\ lastAsk \in [Orders -> {"null", "recent", "past"}]
    /\ buyer \in [Orders -> {"idle", "holding", "ordering"}]
    /\ cancel \in [Admins -> [at: Stage, todo: SUBSET Orders, locked: SUBSET Orders,
                              voided: SUBSET Orders, closed: SUBSET Orders, freed: SUBSET Orders]]
    /\ editor \in [Editors -> EventStatus \cup {"idle"}]

Init ==
    /\ event = "ONSALE"
    /\ seat = [o \in Orders |-> "AVAILABLE"]
    /\ order = [o \in Orders |-> "NONE"]
    /\ ticket = [o \in Orders |-> "NONE"]
    /\ gate = {}
    /\ charge = [o \in Orders |-> "NONE"]
    /\ asked = [o \in Orders |-> 0]
    /\ lastAsk = [o \in Orders |-> "null"]
    /\ buyer = [o \in Orders |-> "idle"]
    /\ cancel = [a \in Admins |-> Idle]
    /\ editor = [e \in Editors |-> "idle"]

\* The event's row is locked by a cancellation that has not committed; so are
\* the rows of an order, or of a seat and its ticket, it has got to.
Unwinding(a) == cancel[a].at \in {"paid", "pending", "released"}
EventFree == \A a \in Admins : ~Unwinding(a)
OrderFree(o) == \A a \in Admins : Unwinding(a) => o \notin cancel[a].locked
SeatFree(o) == \A a \in Admins : Unwinding(a) => o \notin cancel[a].freed

-----------------------------------------------------------------------------
(* The sale.  SalesWindow.assertOpen reads the event without a lock.        *)

Open == event = "ONSALE"

BeginHold(o) ==
    /\ Open /\ buyer[o] = "idle" /\ order[o] = "NONE" /\ seat[o] = "AVAILABLE"
    /\ buyer' = [buyer EXCEPT ![o] = "holding"]
    /\ UNCHANGED <<event, seat, order, ticket, gate, refundVars, cancel, editor>>

Hold(o) ==
    /\ buyer[o] = "holding" /\ SeatFree(o)
    /\ seat' = [seat EXCEPT ![o] = "HELD"]
    /\ buyer' = [buyer EXCEPT ![o] = "idle"]
    /\ UNCHANGED <<event, order, ticket, gate, refundVars, cancel, editor>>

HoldEnds(o) ==
    /\ seat[o] = "HELD" /\ SeatFree(o)
    /\ seat' = [seat EXCEPT ![o] = "AVAILABLE"]
    /\ UNCHANGED <<event, order, buyer, ticket, gate, refundVars, cancel, editor>>

BeginOrder(o) ==
    /\ Open /\ buyer[o] = "idle" /\ order[o] = "NONE" /\ seat[o] = "HELD"
    /\ buyer' = [buyer EXCEPT ![o] = "ordering"]
    /\ UNCHANGED <<event, seat, order, ticket, gate, refundVars, cancel, editor>>

CreateOrder(o) ==
    /\ buyer[o] = "ordering"
    /\ order' = [order EXCEPT ![o] = "PENDING_PAYMENT"]
    /\ buyer' = [buyer EXCEPT ![o] = "idle"]
    /\ UNCHANGED <<event, seat, ticket, gate, refundVars, cancel, editor>>

\* initPayment, under the order's lock.
InitPayment(o) ==
    /\ Open /\ order[o] = "PENDING_PAYMENT" /\ charge[o] = "NONE" /\ OrderFree(o)
    /\ charge' = [charge EXCEPT ![o] = "INITIATED"]
    /\ UNCHANGED <<event, saleVars, asked, lastAsk, cancel, editor>>

\* One more answer of the provider is counted.  Whether MaxAttempts is reached is all
\* that anybody reads of the count, so it stops there.
CountAsk(o) ==
    /\ asked' = [asked EXCEPT ![o] = IF @ < MaxAttempts THEN @ + 1 ELSE @]
    /\ lastAsk' = [lastAsk EXCEPT ![o] = "recent"]

\* The charge went through: it books the seat and issues the ticket, or is owed back
\* at once and the order, if still open, closed (seats lost).  Nothing reads the
\* event here.
SettleCharge(o) ==
    /\ charge[o] = "INITIATED" /\ OrderFree(o) /\ SeatFree(o)
    /\ IF order[o] = "PENDING_PAYMENT" /\ seat[o] = "HELD"
       THEN /\ order' = [order EXCEPT ![o] = "PAID"]
            /\ seat' = [seat EXCEPT ![o] = "BOOKED"]
            /\ ticket' = [ticket EXCEPT ![o] = "ISSUED"]
            /\ charge' = [charge EXCEPT ![o] = "SUCCEEDED"]
            /\ UNCHANGED <<asked, lastAsk>>
       ELSE /\ order' = [order EXCEPT ![o] = IF @ = "PENDING_PAYMENT" THEN "CANCELLED" ELSE @]
            /\ \E answer \in {"REFUND_REQUIRED", "REFUNDED"} :
                  charge' = [charge EXCEPT ![o] = answer]
            /\ CountAsk(o)
            /\ UNCHANGED <<seat, ticket>>
    /\ UNCHANGED <<event, buyer, gate, cancel, editor>>

\* By its buyer, or by the expiry sweeper.
CloseOrder(o) ==
    /\ order[o] = "PENDING_PAYMENT" /\ OrderFree(o) /\ SeatFree(o)
    /\ order' = [order EXCEPT ![o] = "CANCELLED"]
    /\ seat' = [seat EXCEPT ![o] = IF @ = "HELD" THEN "AVAILABLE" ELSE @]
    /\ UNCHANGED <<event, buyer, ticket, gate, refundVars, cancel, editor>>

-----------------------------------------------------------------------------
(* The gate, one turnstile to a ticket                                      *)

\* GateService.decide finds the event admitting and the ticket not cancelled ...
LookUp(o) ==
    /\ event # "CANCELLED" /\ Standing(o) /\ o \notin gate
    /\ gate' = gate \cup {o}
    /\ UNCHANGED <<event, seat, order, buyer, ticket, refundVars, cancel, editor>>

\* ... and its update waits for whoever has changed the row, and admits if it still
\* is ISSUED.
Admit(o) ==
    /\ o \in gate /\ SeatFree(o)
    /\ ticket' = [ticket EXCEPT ![o] = IF @ = "ISSUED" THEN "USED" ELSE @]
    /\ gate' = gate \ {o}
    /\ UNCHANGED <<event, seat, order, buyer, refundVars, cancel, editor>>

\* The undone admission asks neither the event nor the order.
Unadmit(o) ==
    /\ ticket[o] = "USED"
    /\ ticket' = [ticket EXCEPT ![o] = "ISSUED"]
    /\ UNCHANGED <<event, seat, order, buyer, gate, refundVars, cancel, editor>>

-----------------------------------------------------------------------------
(* EventCancellationService.unwind                                          *)

Step(a, changes) == cancel' = [cancel EXCEPT ![a] = changes]
Unseen == UNCHANGED <<event, saleVars, refundVars, editor>>

\* Locks the event; a cancelled one has nothing left to unwind.
ListPaid(a) ==
    /\ cancel[a] = Idle /\ EventFree /\ event # "CANCELLED"
    /\ Step(a, [Idle EXCEPT !.at = "paid", !.todo = Sold])
    /\ Unseen

\* Faulty variant: every voided order gives its seat back.
VoidNextFreeing(a) ==
    /\ cancel[a].at = "paid"
    /\ \E o \in cancel[a].todo : Step(a, [cancel[a] EXCEPT
           !.todo = @ \ {o}, !.locked = @ \cup {o},
           !.voided = @ \cup ({o} \cap Sold), !.freed = @ \cup ({o} \cap Sold)])
    /\ Unseen

\* voidForCancelledEvent: the order is locked, and may have changed since.  The
\* ticket is voided and the seat freed unless somebody has come in on it.
VoidNext(a) ==
    /\ cancel[a].at = "paid"
    /\ \E o \in cancel[a].todo : Step(a, [cancel[a] EXCEPT
           !.todo = @ \ {o}, !.locked = @ \cup {o}, !.voided = @ \cup ({o} \cap Sold),
           !.freed = @ \cup {p \in {o} \cap Sold : ticket[p] = "ISSUED"}])
    /\ Unseen

ListPending(a) ==
    /\ cancel[a].at = "paid" /\ cancel[a].todo = {}
    /\ Step(a, [cancel[a] EXCEPT !.at = "pending", !.todo = Unpaid])
    /\ Unseen

\* Faulty variant: closes what was listed, whatever became of it since.
CloseListed(a) ==
    /\ cancel[a].at = "pending"
    /\ \E o \in cancel[a].todo : Step(a, [cancel[a] EXCEPT
           !.todo = @ \ {o}, !.locked = @ \cup {o}, !.closed = @ \cup {o},
           !.freed = @ \cup {p \in {o} : seat[p] = "HELD"}])
    /\ Unseen

\* cancelForCancelledEvent: likewise; the seat is freed if it is still held.
CloseNext(a) ==
    /\ cancel[a].at = "pending"
    /\ \E o \in cancel[a].todo : Step(a, [cancel[a] EXCEPT
           !.todo = @ \ {o}, !.locked = @ \cup {o}, !.closed = @ \cup ({o} \cap Unpaid),
           !.freed = @ \cup {p \in {o} \cap Unpaid : seat[p] = "HELD"}])
    /\ Unseen

ReleaseHeld(a) ==
    /\ cancel[a].at = "pending" /\ cancel[a].todo = {}
    /\ Step(a, [cancel[a] EXCEPT !.at = "released",
                                 !.freed = @ \cup {o \in Orders : seat[o] = "HELD"}])
    /\ Unseen

\* The charges of the voided orders, owed back and due at once.
Owed(a) == {o \in cancel[a].voided : charge[o] = "SUCCEEDED"}

Commit(a) ==
    LET c == cancel[a] IN
    /\ c.at = "released"
    /\ event' = "CANCELLED"
    /\ order' = [o \in Orders |-> IF o \in c.voided THEN "REFUNDED"
                                  ELSE IF o \in c.closed THEN "CANCELLED" ELSE order[o]]
    /\ seat' = [o \in Orders |-> IF o \in c.freed THEN "AVAILABLE" ELSE seat[o]]
    /\ ticket' = [o \in Orders |-> IF o \in c.freed /\ ticket[o] = "ISSUED"
                                   THEN "CANCELLED" ELSE ticket[o]]
    /\ charge' = [o \in Orders |-> IF o \in Owed(a) THEN "REFUND_REQUIRED" ELSE charge[o]]
    /\ lastAsk' = [o \in Orders |-> IF o \in Owed(a) THEN "null" ELSE lastAsk[o]]
    /\ \E first \in SUBSET Owed(a) :
          /\ Cardinality(first) = IF Cardinality(Owed(a)) < AskedAtOnce
                                  THEN Cardinality(Owed(a)) ELSE AskedAtOnce
          /\ Step(a, [Idle EXCEPT !.at = "asking", !.todo = first])
    /\ UNCHANGED <<buyer, gate, asked, editor>>

-----------------------------------------------------------------------------
(* The refunds                                                              *)

\* RefundService.decide: the order is refunded and its charge owed, counted as asked
\* for just now.  It refuses a used ticket, but a scan between that look and the count
\* of unused ones is in neither: then the ticket is used, and keeps its seat.
RefundOrder(o) ==
    /\ order[o] = "PAID" /\ charge[o] = "SUCCEEDED" /\ ticket[o] = "ISSUED"
    /\ OrderFree(o) /\ SeatFree(o)
    /\ order' = [order EXCEPT ![o] = "REFUNDED"]
    /\ \/ /\ ticket' = [ticket EXCEPT ![o] = "CANCELLED"]
          /\ seat' = [seat EXCEPT ![o] = "AVAILABLE"]
          /\ UNCHANGED gate
       \/ /\ o \in gate
          /\ ticket' = [ticket EXCEPT ![o] = "USED"]
          /\ gate' = gate \ {o}
          /\ UNCHANGED seat
    /\ charge' = [charge EXCEPT ![o] = "REFUND_REQUIRED"]
    /\ lastAsk' = [lastAsk EXCEPT ![o] = "recent"]
    /\ UNCHANGED <<event, buyer, asked, cancel, editor>>

\* RefundService.attempt on a charge still owed.
Ask(o) ==
    IF charge[o] = "REFUND_REQUIRED"
    THEN /\ \E answer \in {"REFUND_REQUIRED", "REFUNDED"} :
               charge' = [charge EXCEPT ![o] = answer]
         /\ CountAsk(o)
    ELSE UNCHANGED refundVars

AskNext(a) ==
    /\ cancel[a].at = "asking"
    /\ \E o \in cancel[a].todo :
          /\ Ask(o)
          /\ Step(a, [cancel[a] EXCEPT !.todo = @ \ {o}])
    /\ UNCHANGED <<event, saleVars, editor>>

\* The request answers, or dies at any point: before its commit that undoes it.
Ends(a) ==
    /\ cancel[a] # Idle
    /\ Step(a, Idle)
    /\ Unseen

\* Faulty variant: a refund never asked for compares as NULL, and is not due.
DueAfterBackoff(o) == lastAsk[o] = "past"

\* findRefundsDue
Due(o) == lastAsk[o] \in {"null", "past"}

\* The attempt refundOrder makes once its decision has committed, or an
\* administrator's retry of what is owed, however often it was asked for.  Either may
\* come late, or die before it asks.
RetryRefund(o) ==
    /\ charge[o] = "REFUND_REQUIRED"
    /\ Ask(o)
    /\ UNCHANGED <<event, saleVars, cancel, editor>>

Reconcile(o) ==
    /\ charge[o] = "REFUND_REQUIRED" /\ asked[o] < MaxAttempts /\ Due(o)
    /\ Ask(o)
    /\ UNCHANGED <<event, saleVars, cancel, editor>>

\* Matters, and is a step, while somebody may still look at the time.
BackoffPasses(o) ==
    /\ charge[o] = "REFUND_REQUIRED" /\ asked[o] < MaxAttempts
    /\ lastAsk[o] = "recent"
    /\ lastAsk' = [lastAsk EXCEPT ![o] = "past"]
    /\ UNCHANGED <<event, saleVars, charge, asked, cancel, editor>>

-----------------------------------------------------------------------------
(* AdminEventService                                                        *)

\* setStatus, under the event's lock: a cancelled event cannot be reopened.
SetStatus(next) ==
    /\ EventFree /\ event # "CANCELLED" /\ event # next
    /\ event' = next
    /\ UNCHANGED <<saleVars, refundVars, cancel, editor>>

\* update loads the event without a lock ...
LoadEvent(e) ==
    /\ editor[e] = "idle"
    /\ editor' = [editor EXCEPT ![e] = event]
    /\ UNCHANGED <<event, saleVars, refundVars, cancel>>

\* ... and its flush writes the whole row, the status it loaded included.
SaveEvent(e) ==
    /\ editor[e] # "idle" /\ EventFree
    /\ event' = editor[e]
    /\ editor' = [editor EXCEPT ![e] = "idle"]
    /\ UNCHANGED <<saleVars, refundVars, cancel>>

-----------------------------------------------------------------------------
BuyerStep(o) ==
    \/ BeginHold(o) \/ Hold(o) \/ HoldEnds(o) \/ BeginOrder(o) \/ CreateOrder(o)
    \/ InitPayment(o) \/ SettleCharge(o) \/ CloseOrder(o)

GateStep(o) == LookUp(o) \/ Admit(o) \/ Unadmit(o)

RefundStep(o) == RefundOrder(o) \/ RetryRefund(o) \/ Reconcile(o) \/ BackoffPasses(o)

CancelStep(a) ==
    \/ ListPaid(a) \/ VoidNext(a) \/ ListPending(a) \/ CloseNext(a)
    \/ ReleaseHeld(a) \/ Commit(a) \/ AskNext(a) \/ Ends(a)

Next ==
    \/ \E o \in Orders : BuyerStep(o) \/ GateStep(o) \/ RefundStep(o)
    \/ \E a \in Admins : CancelStep(a)
    \/ \E next \in {"ONSALE", "SOLD_OUT"} : SetStatus(next)
    \/ \E e \in Editors : LoadEvent(e) \/ SaveEvent(e)

Spec == Init /\ [][Next]_vars

\* The reconciler runs every five minutes, and time passes.
FairSpec == Spec /\ \A o \in Orders : WF_vars(Reconcile(o)) /\ WF_vars(BackoffPasses(o))

-----------------------------------------------------------------------------
(* Properties                                                               *)

\* However payments, scans and refunds land among the statements of a cancellation, a
\* seat is booked exactly while its ticket stands: one voided with it goes back on
\* sale, that of somebody inside does not, though the order is refunded.  A paid
\* order's ticket stands, and money is kept only for a paid order.
SaleHoldsTogether == \A o \in Orders :
    /\ seat[o] = "BOOKED" <=> Standing(o)
    /\ order[o] = "PAID" => Standing(o)
    /\ charge[o] = "SUCCEEDED" => order[o] = "PAID"

\* Whatever dies after the commit, a charge owed back does not stay unasked for:
\* it is returned, or the provider has refused it MaxAttempts times.
OwedIsAskedFor == \A o \in Orders :
    charge[o] = "REFUND_REQUIRED" ~> (charge[o] = "REFUNDED" \/ asked[o] >= MaxAttempts)

\* "It now unwinds every sale in one transaction": a cancelled event has no paid
\* order left.
CancelledEventKeepsNoSale == event = "CANCELLED" => Sold = {}

\* "A cancelled event stays cancelled".
StaysCancelled == [][event = "CANCELLED" => event' = "CANCELLED"]_vars
=============================================================================
