------------------------------ MODULE Payments ------------------------------
(***************************************************************************)
(* The payments of one order: pay requests in their three phases, the      *)
(* provider behind them, its webhooks in any order and more than once, and *)
(* the refunds of charges that bought nothing or were given back.          *)
(*                                                                         *)
(* A payment is named by the idempotency key it was asked for with, so a   *)
(* resend of a request is the same payment and changes nothing.  Every     *)
(* transaction locks the payment row and then the order row before it      *)
(* decides, so a transaction is one step; the calls to the provider made   *)
(* outside one are steps of their own.  The seats are reduced to whether   *)
(* the buyer still holds all of them, and CANCELLED stands for EXPIRED.    *)
(***************************************************************************)
EXTENDS Naturals, FiniteSets

CONSTANT Payments      \* idempotency keys of pay requests for the order

VARIABLES
    order,      \* orders.status
    held,       \* whether the buyer holds every seat of the order
    pay,        \* payments.status, "NONE" before the row exists
    ref,        \* whether payments.provider_ref is recorded
    thread,     \* where the pay request of each payment is
    money,      \* what the provider did: the truth about each charge
    sent,       \* webhook events the provider has to deliver, again and again
    seen,       \* payment_webhook_events
    lostHooks,  \* deliveries rolled back by SeatsLostException, to compensate
    answers,    \* refund answers not yet recorded by the request that asked
    told        \* how often payment.refunded was published for each payment

dbVars == <<order, held, pay, ref, seen, told>>
vars == <<dbVars, thread, money, sent, lostHooks, answers>>

OrderStatus == {"PENDING_PAYMENT", "PAID", "CANCELLED", "REFUNDED"}
\* REDIRECTED and CANCELLED are never reached: no gateway here answers REDIRECT.
PaymentStatus == {"NONE", "INITIATED", "REQUIRES_ACTION", "SUCCEEDED", "FAILED",
                  "REFUND_REQUIRED", "REFUNDED", "DISPUTED"}
Settled == {"SUCCEEDED", "REFUNDED", "REFUND_REQUIRED", "DISPUTED"}

\* Phase B, what the provider answered it, and what Phase C left to do.
Stage == {"none", "calling", "succeeded", "requires_action", "failed",
          "compensating", "done"}
\* No intent; an intent the customer can still pay; the three ends of a charge.
Money == {"none", "open", "taken", "refunded", "clawed"}

\* "wrong_sum" reports a charge that took another sum than the payment records.
Paying == {"succeeded", "wrong_sum"}
Event == [of: Payments, kind: Paying \cup {"failed", "refunded", "dispute"}]
E(p, k) == [of |-> p, kind |-> k]

\* Rows, money and events have their types; an event is acknowledged, or left to
\* compensate, only if the provider sent it.
TypeOK ==
    /\ order \in OrderStatus /\ held \in BOOLEAN
    /\ pay \in [Payments -> PaymentStatus]
    /\ ref \in [Payments -> BOOLEAN]
    /\ thread \in [Payments -> Stage]
    /\ money \in [Payments -> Money]
    /\ sent \subseteq Event /\ seen \subseteq sent /\ lostHooks \subseteq sent
    /\ answers \subseteq [of: Payments, accepted: BOOLEAN]
    /\ told \in [Payments -> Nat]

Init ==
    /\ order = "PENDING_PAYMENT" /\ held = TRUE
    /\ pay = [p \in Payments |-> "NONE"]
    /\ ref = [p \in Payments |-> FALSE]
    /\ thread = [p \in Payments |-> "none"]
    /\ money = [p \in Payments |-> "none"]
    /\ sent = {} /\ seen = {} /\ lostHooks = {} /\ answers = {}
    /\ told = [p \in Payments |-> 0]

-----------------------------------------------------------------------------
(* Refunds                                                                  *)

\* The provider's side of a refund: it may always refuse; a charge it already
\* refunded is refunded (charge_already_refunded); one clawed back is not.
MayAccept(p) == money[p] \in {"taken", "refunded"}
ProviderRefunds(p, accepted) ==
    /\ accepted => MayAccept(p)
    /\ money' = IF accepted THEN [money EXCEPT ![p] = "refunded"] ELSE money
    /\ sent' = IF accepted THEN sent \cup {E(p, "refunded")} ELSE sent

\* Faulty variant: any answer counts as the money given back.
RecordedAlways(accepted) == "REFUNDED"

\* RefundService.record: what an answer makes of a charge that is owed back.
Recorded(accepted) == IF accepted THEN "REFUNDED" ELSE "REFUND_REQUIRED"
Record(p, accepted) ==
    /\ pay' = [pay EXCEPT ![p] = Recorded(accepted)]
    /\ told' = IF accepted THEN [told EXCEPT ![p] = @ + 1] ELSE told

\* refundNow: asked and recorded inside the caller's transaction.
RefundNow(p, accepted) == ProviderRefunds(p, accepted) /\ Record(p, accepted)

-----------------------------------------------------------------------------
(* settle: what a successful charge does to the order                       *)

\* Faulty variant: asks for a charge still under way instead of a kept one.
AnotherInitiated(p) == \E q \in Payments \ {p} : pay[q] = "INITIATED"
AnotherSucceeded(p) == \E q \in Payments \ {p} : pay[q] = "SUCCEEDED"

Confirms(p) == order = "PENDING_PAYMENT" /\ held
SeatsLost(p) == order = "PENDING_PAYMENT" /\ ~held
\* A second charge for an order another payment paid, or one for an order that
\* is over: it buys nothing.
BuysNothing(p) == \/ order = "PAID" /\ AnotherSucceeded(p)
                  \/ order \notin {"PENDING_PAYMENT", "PAID"}

Settle(p) ==
    \/ /\ Confirms(p)
       /\ order' = "PAID"
       /\ pay' = [pay EXCEPT ![p] = "SUCCEEDED"]
       /\ UNCHANGED <<held, told, money, sent>>
    \/ /\ order = "PAID" /\ ~AnotherSucceeded(p)
       /\ pay' = [pay EXCEPT ![p] = "SUCCEEDED"]
       /\ UNCHANGED <<order, held, told, money, sent>>
    \/ /\ BuysNothing(p)
       /\ \E accepted \in BOOLEAN : RefundNow(p, accepted)
       /\ UNCHANGED <<order, held>>

\* After SeatsLostException: the charge goes back and the order is closed.
GiveBack(p, accepted) ==
    /\ RefundNow(p, accepted)
    /\ order' = IF order = "PENDING_PAYMENT" THEN "CANCELLED" ELSE order
    /\ held' = IF order = "PENDING_PAYMENT" THEN FALSE ELSE held

-----------------------------------------------------------------------------
(* PaymentService.pay                                                       *)

\* A payment INITIATED for longer than any provider call takes is abandoned.
InFlight(q) == pay[q] = "INITIATED" /\ thread[q] = "calling"

\* Phase A, under the order's lock.
InitPayment(p) ==
    /\ thread[p] = "none"
    /\ order = "PENDING_PAYMENT"
    /\ \A q \in Payments : ~InFlight(q)
    /\ pay' = [pay EXCEPT ![p] = "INITIATED"]
    /\ thread' = [thread EXCEPT ![p] = "calling"]
    /\ UNCHANGED <<order, held, ref, seen, told, money, sent, lostHooks, answers>>

\* Phase B.  Whatever the provider did, its answer may be lost to a timeout,
\* which initiate reports as a failure.
Initiate(p, becomes, answer, events) ==
    /\ thread[p] = "calling"
    /\ money' = [money EXCEPT ![p] = becomes]
    /\ sent' = sent \cup events
    /\ \/ thread' = [thread EXCEPT ![p] = answer]
       \/ thread' = [thread EXCEPT ![p] = "failed"]
    /\ UNCHANGED <<dbVars, lostHooks, answers>>
GatewayCharges(p) == Initiate(p, "taken", "succeeded", {E(p, "succeeded")})
\* Faulty variant: a charge still processing is reported as succeeded.
GatewayPresumesSuccess(p) == Initiate(p, "open", "succeeded", {})
GatewayAsksCustomer(p) == Initiate(p, "open", "requires_action", {})
GatewayDeclines(p) == Initiate(p, "none", "failed", {E(p, "failed")})

\* Phase C, under the payment's lock.
Answered(p) == thread[p] \in {"succeeded", "requires_action", "failed"}
ApplyResult(p) ==
    /\ Answered(p)
    /\ UNCHANGED <<seen, lostHooks, answers>>
    /\ \/ /\ pay[p] # "INITIATED"            \* a webhook was first
          /\ thread' = [thread EXCEPT ![p] = "done"]
          /\ UNCHANGED <<order, held, pay, ref, told, money, sent>>
       \/ /\ pay[p] = "INITIATED" /\ thread[p] # "succeeded"
          /\ pay' = [pay EXCEPT ![p] = IF thread[p] = "failed" THEN "FAILED" ELSE "REQUIRES_ACTION"]
          /\ ref' = [ref EXCEPT ![p] = thread[p] # "failed"]
          /\ thread' = [thread EXCEPT ![p] = "done"]
          /\ UNCHANGED <<order, held, told, money, sent>>
       \/ /\ pay[p] = "INITIATED" /\ thread[p] = "succeeded"
          /\ Settle(p)
          /\ ref' = [ref EXCEPT ![p] = TRUE]
          /\ thread' = [thread EXCEPT ![p] = "done"]
       \/ /\ pay[p] = "INITIATED" /\ thread[p] = "succeeded"
          /\ SeatsLost(p)                    \* rolled back
          /\ thread' = [thread EXCEPT ![p] = "compensating"]
          /\ UNCHANGED <<order, held, pay, ref, told, money, sent>>

\* The transaction after that rollback.
Compensate(p) ==
    /\ thread[p] = "compensating"
    /\ \E accepted \in BOOLEAN : GiveBack(p, accepted)
    /\ ref' = [ref EXCEPT ![p] = TRUE]
    /\ thread' = [thread EXCEPT ![p] = "done"]
    /\ UNCHANGED <<seen, lostHooks, answers>>

-----------------------------------------------------------------------------
(* Webhooks                                                                 *)

\* Faulty variant: only by the recorded reference.
MatchesRecorded(e) == ref[e.of]

\* By the recorded reference, or by the payment id stamped on an intent; the
\* charge and dispute objects carry no such id.
Matches(e) == ref[e.of] \/ e.kind \in Paying \cup {"failed"}

Unprocessed(e) == e \in sent \ seen

HookIgnored(e) ==
    LET p == e.of IN
    \/ ~Matches(e)
    \/ e.kind \in Paying /\ pay[p] \in Settled
    \/ e.kind = "failed" /\ pay[p] \notin {"INITIATED", "REQUIRES_ACTION"}
    \/ e.kind = "refunded" /\ pay[p] \notin {"REFUND_REQUIRED", "SUCCEEDED"}
    \/ e.kind = "dispute" /\ pay[p] \notin {"REFUND_REQUIRED", "SUCCEEDED"}

\* Faulty variant: the delivery is not checked before it is believed.
AcknowledgeAnything(e) ==
    /\ seen' = seen \cup {e}
    /\ ref' = IF Matches(e) THEN [ref EXCEPT ![e.of] = TRUE] ELSE ref
    /\ UNCHANGED <<thread, lostHooks, answers>>

\* Recorded, and matched to its payment, whose reference is now known.
Acknowledge(e) ==
    /\ Unprocessed(e)
    /\ seen' = seen \cup {e}
    /\ ref' = IF Matches(e) THEN [ref EXCEPT ![e.of] = TRUE] ELSE ref
    /\ UNCHANGED <<thread, lostHooks, answers>>

HookNoChange(e) ==
    /\ Acknowledge(e)
    /\ HookIgnored(e)
    /\ UNCHANGED <<order, held, pay, told, money, sent>>

HookSucceeded(e) ==
    /\ Acknowledge(e)
    /\ ~HookIgnored(e)
    /\ \/ e.kind = "succeeded" /\ Settle(e.of)
       \/ /\ e.kind = "wrong_sum"
          /\ \E accepted \in BOOLEAN : RefundNow(e.of, accepted)
          /\ UNCHANGED <<order, held>>

\* SeatsLostException rolls the delivery's record back with everything else.
HookSeatsLost(e) ==
    /\ Unprocessed(e)
    /\ ~HookIgnored(e) /\ e.kind = "succeeded"
    /\ SeatsLost(e.of)
    /\ lostHooks' = lostHooks \cup {e}
    /\ UNCHANGED <<dbVars, thread, money, sent, answers>>

CompensateWebhook(e) ==
    /\ e \in lostHooks
    /\ lostHooks' = lostHooks \ {e}
    /\ seen' = seen \cup {e}
    /\ IF e \notin seen /\ pay[e.of] \notin Settled
       THEN /\ \E accepted \in BOOLEAN : GiveBack(e.of, accepted)
            /\ ref' = [ref EXCEPT ![e.of] = TRUE]
       ELSE UNCHANGED <<order, held, pay, ref, told, money, sent>>
    /\ UNCHANGED <<thread, answers>>

HookFailed(e) ==
    /\ Acknowledge(e)
    /\ ~HookIgnored(e) /\ e.kind = "failed"
    /\ pay' = [pay EXCEPT ![e.of] = "FAILED"]
    /\ UNCHANGED <<order, held, told, money, sent>>

\* recordProviderRefund: ours reported back, or one made in the dashboard.
HookRefunded(e) ==
    /\ Acknowledge(e)
    /\ ~HookIgnored(e) /\ e.kind = "refunded"
    /\ Record(e.of, TRUE)
    /\ order' = IF pay[e.of] = "SUCCEEDED" /\ order = "PAID" THEN "REFUNDED" ELSE order
    /\ held' = IF order' = order THEN held ELSE FALSE
    /\ UNCHANGED <<money, sent>>

HookDispute(e) ==
    /\ Acknowledge(e)
    /\ ~HookIgnored(e) /\ e.kind = "dispute"
    /\ pay' = [pay EXCEPT ![e.of] = "DISPUTED"]
    /\ order' = IF order = "PAID" THEN "CANCELLED" ELSE order
    /\ held' = IF order = "PAID" THEN FALSE ELSE held
    /\ UNCHANGED <<told, money, sent>>

-----------------------------------------------------------------------------
(* A refund the provider made inside a transaction that then rolled back    *)

Undone(p, atThread, hooks) ==
    /\ ProviderRefunds(p, TRUE)
    /\ thread' = IF atThread THEN [thread EXCEPT ![p] = "done"] ELSE thread
    /\ lostHooks' = lostHooks \ hooks
    /\ UNCHANGED <<dbVars, answers>>

\* The pay request dies before it commits the refund it asked for ...
PayRefundUndone(p) ==
    /\ \/ thread[p] = "compensating"
       \/ thread[p] = "succeeded" /\ pay[p] = "INITIATED" /\ BuysNothing(p)
    /\ Undone(p, TRUE, {})

\* ... or a delivery does, which the provider then makes again.
HookRefundUndone(e) ==
    /\ Unprocessed(e) /\ e.kind \in Paying /\ ~HookIgnored(e)
    /\ e \in lostHooks \/ e.kind = "wrong_sum" \/ BuysNothing(e.of)
    /\ Undone(e.of, FALSE, {e})

-----------------------------------------------------------------------------
(* RefundService.refundOrder, voidForCancelledEvent, and the reconciler     *)

\* For the box office, or for an event being cancelled.
Decide(p) ==
    /\ order = "PAID" /\ pay[p] = "SUCCEEDED"
    /\ order' = "REFUNDED" /\ held' = FALSE
    /\ pay' = [pay EXCEPT ![p] = "REFUND_REQUIRED"]
    /\ UNCHANGED <<ref, seen, told, thread, money, sent, lostHooks, answers>>

\* A cancelled event voids a paid order even when no charge of it is kept.
VoidUncharged ==
    /\ order = "PAID" /\ \A p \in Payments : pay[p] # "SUCCEEDED"
    /\ order' = "REFUNDED" /\ held' = FALSE
    /\ UNCHANGED <<pay, ref, seen, told, thread, money, sent, lostHooks, answers>>

\* attempt: the provider is asked outside any transaction ...
AskRefund(p, accepted) ==
    /\ pay[p] = "REFUND_REQUIRED"
    /\ ProviderRefunds(p, accepted)
    /\ answers' = answers \cup {[of |-> p, accepted |-> accepted]}
    /\ UNCHANGED <<dbVars, thread, lostHooks>>

\* ... and its answer is recorded only if the charge is still owed.
StillOwed(p) == pay[p] = "REFUND_REQUIRED"
RecordAnswer(a) ==
    /\ a \in answers
    /\ answers' = answers \ {a}
    /\ IF StillOwed(a.of) THEN Record(a.of, a.accepted) ELSE UNCHANGED <<pay, told>>
    /\ UNCHANGED <<order, held, ref, seen, thread, money, sent, lostHooks>>

-----------------------------------------------------------------------------
(* The order's other side, the customer, the provider's dashboard           *)

CloseOrder ==
    /\ order = "PENDING_PAYMENT"
    /\ order' = "CANCELLED" /\ held' = FALSE
    /\ UNCHANGED <<pay, ref, seen, told, thread, money, sent, lostHooks, answers>>

\* A hold lapses, or the buyer takes the same seats again.
SeatsChange ==
    /\ order = "PENDING_PAYMENT"
    /\ held' = ~held
    /\ UNCHANGED <<order, pay, ref, seen, told, thread, money, sent, lostHooks, answers>>

CustomerPays(p) ==
    /\ money[p] = "open"
    /\ money' = [money EXCEPT ![p] = "taken"]
    /\ \E kind \in Paying : sent' = sent \cup {E(p, kind)}
    /\ UNCHANGED <<dbVars, thread, lostHooks, answers>>

\* A refused card leaves the intent open for another try.
CustomerFails(p) ==
    /\ money[p] = "open"
    /\ sent' = sent \cup {E(p, "failed")}
    /\ UNCHANGED <<dbVars, thread, money, lostHooks, answers>>

MoneyGoesBack(p, becomes, kind) ==
    /\ money[p] = "taken"
    /\ money' = [money EXCEPT ![p] = becomes]
    /\ sent' = sent \cup {E(p, kind)}
    /\ UNCHANGED <<dbVars, thread, lostHooks, answers>>
DashboardRefund(p) == MoneyGoesBack(p, "refunded", "refunded")
CardholderDisputes(p) == MoneyGoesBack(p, "clawed", "dispute")

\* Requests in flight are gone; what they had not committed is rolled back.
Crash ==
    /\ \/ lostHooks # {} \/ answers # {}
       \/ \E p \in Payments : thread[p] \notin {"none", "done"}
    /\ thread' = [p \in Payments |-> IF thread[p] = "none" THEN "none" ELSE "done"]
    /\ lostHooks' = {} /\ answers' = {}
    /\ UNCHANGED <<dbVars, money, sent>>

PaymentStep(p) ==
    \/ InitPayment(p) \/ ApplyResult(p) \/ Compensate(p) \/ PayRefundUndone(p) \/ Decide(p)
    \/ GatewayCharges(p) \/ GatewayAsksCustomer(p) \/ GatewayDeclines(p)
    \/ CustomerPays(p) \/ CustomerFails(p) \/ DashboardRefund(p) \/ CardholderDisputes(p)
    \/ \E accepted \in BOOLEAN : AskRefund(p, accepted)

HookStep(e) ==
    \/ HookNoChange(e) \/ HookSucceeded(e) \/ HookSeatsLost(e) \/ CompensateWebhook(e)
    \/ HookFailed(e) \/ HookRefunded(e) \/ HookDispute(e)

Next ==
    \/ \E p \in Payments : PaymentStep(p)
    \/ \E e \in Event : HookStep(e) \/ HookRefundUndone(e)
    \/ \E a \in answers : RecordAnswer(a)
    \/ VoidUncharged \/ CloseOrder \/ SeatsChange \/ Crash

Spec == Init /\ [][Next]_vars

\* The provider redelivers an event until it is acknowledged, and a delivery is
\* not cut short by a crash every time.
FairSpec == Spec /\ \A e \in Event : /\ WF_vars(HookStep(e))
                                     /\ SF_vars(CompensateWebhook(e))

-----------------------------------------------------------------------------
(* Properties                                                               *)

\* However tabs, retries and webhooks interleave, at most one charge is kept:
\* every other one is on its way back.
OneChargeKept == \A p, q \in Payments :
    (pay[p] = "SUCCEEDED" /\ pay[q] = "SUCCEEDED") => p = q

\* A refund is recorded, and the customer told of it, only once the provider
\* has given the money back.
RefundsAreReal == \A p \in Payments :
    (pay[p] = "REFUNDED" \/ told[p] > 0) => money[p] = "refunded"

\* Nothing is kept, owed or returned that the provider never took.
ChargesAreReal == \A p \in Payments :
    pay[p] \in Settled => money[p] \in {"taken", "refunded", "clawed"}

\* Every charge the provider takes is settled in the end: it has paid for the
\* order, or is recorded as owed back, returned or disputed.  A crash, a lost
\* answer or a webhook that outruns the pay request loses none.
ChargeSettles == \A p \in Payments :
    money[p] = "taken" ~> pay[p] \in Settled

\* "Whichever goes second finds the charge already settled": the charge that paid
\* for an order is not given back by its pay request's compensation, so a paid
\* order has a charge that is kept.
PaidOrderHasCharge ==
    order = "PAID" => \E p \in Payments : pay[p] = "SUCCEEDED"

\* "The tickets it bought stop admitting anyone": a dispute voids the order only
\* with the charge that paid for it, never while another charge for it is kept.
KeptChargeKeepsOrder == \A p \in Payments :
    pay[p] = "SUCCEEDED" => order = "PAID"

\* "A refund nobody here asked for was made in the provider's own dashboard, so
\* the order it paid for is refunded": once its event is acknowledged, a charge
\* given back pays for nothing.
ReturnedChargeBuysNothing == \A p \in Payments :
    E(p, "refunded") \in seen => pay[p] # "SUCCEEDED"
=============================================================================
