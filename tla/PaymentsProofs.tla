--------------------------- MODULE PaymentsProofs ---------------------------
(* Theorems about Payments for every set of payments of the order.           *)
EXTENDS Payments, TLAPS

-----------------------------------------------------------------------------
(* Type correctness                                                          *)

LEMMA EventTyped ==
    ASSUME NEW p \in Payments,
           NEW k \in {"succeeded", "wrong_sum", "failed", "refunded", "dispute"}
    PROVE  E(p, k) \in Event /\ E(p, k).of = p /\ E(p, k).kind = k
BY DEF E, Event, Paying

\* A refund asked for and recorded at once leaves the row and the provider typed.
LEMMA RefundNowTyped ==
    ASSUME TypeOK, NEW p \in Payments, NEW accepted \in BOOLEAN, RefundNow(p, accepted)
    PROVE  /\ pay' \in [Payments -> PaymentStatus]
           /\ told' \in [Payments -> Nat]
           /\ money' \in [Payments -> Money]
           /\ sent' \subseteq Event /\ sent \subseteq sent'
<1>1. E(p, "refunded") \in Event
  BY EventTyped
<1> QED
  BY <1>1 DEF TypeOK, RefundNow, Record, Recorded, ProviderRefunds, PaymentStatus, Money

LEMMA SettleTyped ==
    ASSUME TypeOK, NEW p \in Payments, Settle(p)
    PROVE  /\ order' \in OrderStatus /\ held' \in BOOLEAN
           /\ pay' \in [Payments -> PaymentStatus]
           /\ told' \in [Payments -> Nat]
           /\ money' \in [Payments -> Money]
           /\ sent' \subseteq Event /\ sent \subseteq sent'
<1>1. CASE BuysNothing(p) /\ (\E accepted \in BOOLEAN : RefundNow(p, accepted))
           /\ UNCHANGED <<order, held>>
  BY <1>1, RefundNowTyped DEF TypeOK
<1>2. CASE \/ Confirms(p) /\ order' = "PAID"
              /\ pay' = [pay EXCEPT ![p] = "SUCCEEDED"]
              /\ UNCHANGED <<held, told, money, sent>>
           \/ pay' = [pay EXCEPT ![p] = "SUCCEEDED"]
              /\ UNCHANGED <<order, held, told, money, sent>>
  BY <1>2 DEF TypeOK, OrderStatus, PaymentStatus
<1> QED
  BY <1>1, <1>2 DEF Settle

LEMMA GiveBackTyped ==
    ASSUME TypeOK, NEW p \in Payments, NEW accepted \in BOOLEAN, GiveBack(p, accepted)
    PROVE  /\ order' \in OrderStatus /\ held' \in BOOLEAN
           /\ pay' \in [Payments -> PaymentStatus]
           /\ told' \in [Payments -> Nat]
           /\ money' \in [Payments -> Money]
           /\ sent' \subseteq Event /\ sent \subseteq sent'
<1>1. RefundNow(p, accepted)
  BY DEF GiveBack
<1> QED
  BY <1>1, RefundNowTyped DEF TypeOK, GiveBack, OrderStatus

\* The provider's answer to a pay request, whatever it is.
LEMMA InitiateTyped ==
    ASSUME TypeOK, NEW p \in Payments, NEW becomes \in Money, NEW answer \in Stage,
           NEW events \in SUBSET Event, Initiate(p, becomes, answer, events)
    PROVE  TypeOK'
BY DEF TypeOK, Initiate, dbVars, Stage

LEMMA AcknowledgeTyped ==
    ASSUME TypeOK, NEW e \in Event, Acknowledge(e)
    PROVE  /\ ref' \in [Payments -> BOOLEAN]
           /\ seen' \subseteq sent
           /\ thread' \in [Payments -> Stage]
           /\ lostHooks' \subseteq sent
           /\ answers' \subseteq [of: Payments, accepted: BOOLEAN]
BY DEF TypeOK, Acknowledge, Unprocessed, Event

LEMMA PaymentStepTyped ==
    ASSUME TypeOK, NEW p \in Payments, PaymentStep(p)
    PROVE  TypeOK'
<1>1. CASE InitPayment(p)
  BY <1>1 DEF TypeOK, InitPayment, PaymentStatus, Stage
<1>2. CASE ApplyResult(p)
  <2> USE <1>2 DEF ApplyResult
  <2>1. /\ thread' \in [Payments -> Stage] /\ ref' \in [Payments -> BOOLEAN]
        /\ UNCHANGED <<seen, lostHooks, answers>>
    BY DEF TypeOK, Stage
  <2>2. CASE Settle(p)
    BY <2>1, <2>2, SettleTyped DEF TypeOK
  <2>3. CASE ~Settle(p)
    BY <2>1, <2>3 DEF TypeOK, PaymentStatus
  <2> QED
    BY <2>2, <2>3
<1>3. CASE Compensate(p)
  <2>1. PICK accepted \in BOOLEAN : GiveBack(p, accepted)
    BY <1>3 DEF Compensate
  <2> QED
    BY <1>3, <2>1, GiveBackTyped DEF TypeOK, Compensate, Stage
<1>4. CASE PayRefundUndone(p)
  <2>1. E(p, "refunded") \in Event
    BY EventTyped
  <2> QED
    BY <1>4, <2>1 DEF TypeOK, PayRefundUndone, Undone, ProviderRefunds, dbVars, Stage, Money
<1>5. CASE Decide(p)
  BY <1>5 DEF TypeOK, Decide, OrderStatus, PaymentStatus
<1>6. CASE GatewayCharges(p)
  BY <1>6, InitiateTyped, EventTyped DEF GatewayCharges, Money, Stage
<1>7. CASE GatewayAsksCustomer(p)
  BY <1>7, InitiateTyped DEF GatewayAsksCustomer, Money, Stage
<1>8. CASE GatewayDeclines(p)
  BY <1>8, InitiateTyped, EventTyped DEF GatewayDeclines, Money, Stage
<1>9. CASE CustomerPays(p)
  <2>1. \A kind \in Paying : E(p, kind) \in Event
    BY EventTyped DEF Paying
  <2> QED
    BY <1>9, <2>1 DEF TypeOK, CustomerPays, dbVars, Money
<1>10. CASE CustomerFails(p)
  BY <1>10, EventTyped DEF TypeOK, CustomerFails, dbVars
<1>11. CASE DashboardRefund(p)
  BY <1>11, EventTyped DEF TypeOK, DashboardRefund, MoneyGoesBack, dbVars, Money
<1>12. CASE CardholderDisputes(p)
  BY <1>12, EventTyped DEF TypeOK, CardholderDisputes, MoneyGoesBack, dbVars, Money
<1>13. ASSUME NEW accepted \in BOOLEAN, AskRefund(p, accepted) PROVE TypeOK'
  <2>1. E(p, "refunded") \in Event
    BY EventTyped
  <2> QED
    BY <1>13, <2>1 DEF TypeOK, AskRefund, ProviderRefunds, dbVars, Money
<1> QED
  BY <1>1, <1>2, <1>3, <1>4, <1>5, <1>6, <1>7, <1>8, <1>9, <1>10, <1>11, <1>12, <1>13
  DEF PaymentStep

LEMMA HookStepTyped ==
    ASSUME TypeOK, NEW e \in Event, HookStep(e)
    PROVE  TypeOK'
<1>0. e.of \in Payments
  BY DEF Event
<1>1. CASE HookNoChange(e)
  BY <1>1, AcknowledgeTyped DEF TypeOK, HookNoChange
<1>2. CASE HookSucceeded(e)
  <2>1. CASE Settle(e.of)
    BY <1>0, <1>2, <2>1, AcknowledgeTyped, SettleTyped DEF TypeOK, HookSucceeded
  <2>2. CASE ~Settle(e.of)
    BY <1>0, <1>2, <2>2, AcknowledgeTyped, RefundNowTyped DEF TypeOK, HookSucceeded
  <2> QED
    BY <2>1, <2>2
<1>3. CASE HookSeatsLost(e)
  BY <1>3 DEF TypeOK, HookSeatsLost, Unprocessed, dbVars
<1>4. CASE CompensateWebhook(e)
  <2>1. CASE \E accepted \in BOOLEAN : GiveBack(e.of, accepted)
    BY <1>0, <1>4, <2>1, GiveBackTyped DEF TypeOK, CompensateWebhook
  <2>2. CASE ~\E accepted \in BOOLEAN : GiveBack(e.of, accepted)
    BY <1>4, <2>2 DEF TypeOK, CompensateWebhook
  <2> QED
    BY <2>1, <2>2
<1>5. CASE HookFailed(e)
  BY <1>5, AcknowledgeTyped DEF TypeOK, HookFailed, PaymentStatus
<1>6. CASE HookRefunded(e)
  <2>1. pay' \in [Payments -> PaymentStatus] /\ told' \in [Payments -> Nat]
    BY <1>0, <1>6 DEF TypeOK, HookRefunded, Record, Recorded, PaymentStatus
  <2>2. order' \in OrderStatus
    BY <1>6 DEF TypeOK, HookRefunded, OrderStatus
  <2>3. held' \in BOOLEAN
    BY <1>6 DEF TypeOK, HookRefunded
  <2>4. UNCHANGED <<money, sent>> /\ Acknowledge(e)
    BY <1>6 DEF HookRefunded
  <2> QED
    BY <2>1, <2>2, <2>3, <2>4, AcknowledgeTyped DEF TypeOK
<1>7. CASE HookDispute(e)
  BY <1>7, AcknowledgeTyped DEF TypeOK, HookDispute, PaymentStatus, OrderStatus
<1> QED
  BY <1>1, <1>2, <1>3, <1>4, <1>5, <1>6, <1>7 DEF HookStep

\* Every value of every variable is of its type, for any number of payments.
\* An event is acknowledged, or left to compensate, only if the provider sent it.
THEOREM Typing == Spec => []TypeOK
<1>1. Init => TypeOK
  BY DEF Init, TypeOK, OrderStatus, PaymentStatus, Stage, Money
<1>2. TypeOK /\ [Next]_vars => TypeOK'
  <2> SUFFICES ASSUME TypeOK, [Next]_vars PROVE TypeOK'
    OBVIOUS
  <2>1. ASSUME NEW p \in Payments, PaymentStep(p) PROVE TypeOK'
    BY <2>1, PaymentStepTyped
  <2>2. ASSUME NEW e \in Event, HookStep(e) PROVE TypeOK'
    BY <2>2, HookStepTyped
  <2>3. ASSUME NEW e \in Event, HookRefundUndone(e) PROVE TypeOK'
    <3>1. e.of \in Payments /\ E(e.of, "refunded") \in Event
      BY EventTyped DEF Event
    <3> QED
      BY <2>3, <3>1 DEF TypeOK, HookRefundUndone, Undone, ProviderRefunds, dbVars, Money
  <2>4. ASSUME NEW a \in answers, RecordAnswer(a) PROVE TypeOK'
    BY <2>4 DEF TypeOK, RecordAnswer, Record, Recorded, PaymentStatus
  <2>5. CASE VoidUncharged
    BY <2>5 DEF TypeOK, VoidUncharged, OrderStatus
  <2>6. CASE CloseOrder
    BY <2>6 DEF TypeOK, CloseOrder, OrderStatus
  <2>7. CASE SeatsChange
    BY <2>7 DEF TypeOK, SeatsChange
  <2>8. CASE Crash
    BY <2>8 DEF TypeOK, Crash, dbVars, Stage
  <2>9. CASE UNCHANGED vars
    BY <2>9 DEF TypeOK, vars, dbVars
  <2> QED
    BY <2>1, <2>2, <2>3, <2>4, <2>5, <2>6, <2>7, <2>8, <2>9 DEF Next
<1> QED
  BY <1>1, <1>2, PTL DEF Spec

-----------------------------------------------------------------------------
(* At most one charge is kept                                                *)

\* A pending order has no kept charge: so the one that confirms it is the first.
NoneKeptYet == order = "PENDING_PAYMENT" => \A p \in Payments : pay[p] # "SUCCEEDED"
KeptInv == TypeOK /\ OneChargeKept /\ NoneKeptYet

\* What a step may do to the charges that are kept: drop some, or keep one more
\* on an order that leaves PENDING_PAYMENT, or that no kept charge pays for.
KeepsNoMore == \A q \in Payments : pay'[q] = "SUCCEEDED" => pay[q] = "SUCCEEDED"
KeepsFirst(p) == /\ Confirms(p) \/ ~AnotherSucceeded(p)
                 /\ order' # "PENDING_PAYMENT"
                 /\ pay' = [pay EXCEPT ![p] = "SUCCEEDED"]
KeepStep == /\ order' = "PENDING_PAYMENT" => order = "PENDING_PAYMENT"
            /\ KeepsNoMore \/ \E p \in Payments : KeepsFirst(p)

LEMMA RefundNowKeeps ==
    ASSUME TypeOK, NEW p \in Payments, NEW accepted \in BOOLEAN, RefundNow(p, accepted)
    PROVE  KeepsNoMore
BY DEF TypeOK, KeepsNoMore, RefundNow, Record, Recorded

LEMMA SettleKeeps ==
    ASSUME TypeOK, NEW p \in Payments, Settle(p)
    PROVE  KeepStep
<1>1. CASE BuysNothing(p) /\ (\E accepted \in BOOLEAN : RefundNow(p, accepted))
           /\ UNCHANGED <<order, held>>
  BY <1>1, RefundNowKeeps DEF KeepStep
<1>2. CASE /\ Confirms(p) \/ (order = "PAID" /\ ~AnotherSucceeded(p))
           /\ order' = "PAID" /\ pay' = [pay EXCEPT ![p] = "SUCCEEDED"]
  BY <1>2 DEF KeepStep, KeepsFirst
<1> QED
  BY <1>1, <1>2 DEF Settle

LEMMA GiveBackKeeps ==
    ASSUME TypeOK, NEW p \in Payments, NEW accepted \in BOOLEAN, GiveBack(p, accepted)
    PROVE  KeepStep
BY RefundNowKeeps DEF GiveBack, KeepStep

LEMMA PaymentStepKeeps ==
    ASSUME TypeOK, NEW p \in Payments, PaymentStep(p)
    PROVE  KeepStep
<1> USE DEF KeepStep, KeepsNoMore
<1>1. CASE InitPayment(p)
  BY <1>1 DEF TypeOK, InitPayment
<1>2. CASE ApplyResult(p)
  <2>1. CASE Settle(p)
    BY <2>1, SettleKeeps
  <2>2. CASE ~Settle(p)
    BY <1>2, <2>2 DEF TypeOK, ApplyResult
  <2> QED
    BY <2>1, <2>2
<1>3. CASE Compensate(p)
  BY <1>3, GiveBackKeeps DEF Compensate
<1>4. CASE Decide(p)
  BY <1>4 DEF TypeOK, Decide
<1>5. CASE ~InitPayment(p) /\ ~ApplyResult(p) /\ ~Compensate(p) /\ ~Decide(p)
  <2>1. UNCHANGED <<order, pay>>
    BY <1>5 DEF PaymentStep, PayRefundUndone, Undone, GatewayCharges, GatewayAsksCustomer,
                GatewayDeclines, Initiate, CustomerPays, CustomerFails, DashboardRefund,
                CardholderDisputes, MoneyGoesBack, AskRefund, dbVars
  <2> QED
    BY <2>1
<1> QED
  BY <1>1, <1>2, <1>3, <1>4, <1>5

LEMMA HookStepKeeps ==
    ASSUME TypeOK, NEW e \in Event, HookStep(e)
    PROVE  KeepStep
<1>0. e.of \in Payments
  BY DEF Event
<1>1. CASE HookNoChange(e) \/ HookSeatsLost(e)
  BY <1>1 DEF KeepStep, KeepsNoMore, HookNoChange, HookSeatsLost, dbVars
<1>2. CASE HookSucceeded(e)
  BY <1>0, <1>2, SettleKeeps, RefundNowKeeps DEF HookSucceeded, KeepStep
<1>3. CASE CompensateWebhook(e)
  BY <1>0, <1>3, GiveBackKeeps DEF CompensateWebhook, KeepStep, KeepsNoMore
<1>4. CASE HookFailed(e)
  BY <1>0, <1>4 DEF TypeOK, HookFailed, KeepStep, KeepsNoMore
<1>5. CASE HookRefunded(e)
  BY <1>0, <1>5 DEF TypeOK, HookRefunded, Record, Recorded, KeepStep, KeepsNoMore
<1>6. CASE HookDispute(e)
  BY <1>0, <1>6 DEF TypeOK, HookDispute, KeepStep, KeepsNoMore
<1> QED
  BY <1>1, <1>2, <1>3, <1>4, <1>5, <1>6 DEF HookStep

LEMMA NextKeeps ==
    ASSUME TypeOK, [Next]_vars
    PROVE  KeepStep
<1>1. ASSUME NEW p \in Payments, PaymentStep(p) PROVE KeepStep
  BY <1>1, PaymentStepKeeps
<1>2. ASSUME NEW e \in Event, HookStep(e) PROVE KeepStep
  BY <1>2, HookStepKeeps
<1>3. ASSUME NEW e \in Event, HookRefundUndone(e) PROVE KeepStep
  BY <1>3 DEF HookRefundUndone, Undone, dbVars, KeepStep, KeepsNoMore
<1>4. ASSUME NEW a \in answers, RecordAnswer(a) PROVE KeepStep
  BY <1>4 DEF TypeOK, RecordAnswer, Record, Recorded, KeepStep, KeepsNoMore
<1>5. CASE VoidUncharged \/ CloseOrder \/ SeatsChange \/ Crash \/ UNCHANGED vars
  BY <1>5 DEF VoidUncharged, CloseOrder, SeatsChange, Crash, vars, dbVars, KeepStep, KeepsNoMore
<1> QED
  BY <1>1, <1>2, <1>3, <1>4, <1>5 DEF Next

\* However many payments of one order are under way, and in whatever order their
\* answers, webhooks and compensations come, settle never keeps a second charge.
THEOREM OneCharge == Spec => []OneChargeKept
<1>1. Init => KeptInv
  BY DEF Init, KeptInv, TypeOK, OneChargeKept, NoneKeptYet, OrderStatus, PaymentStatus,
         Stage, Money
<1>2. KeptInv /\ TypeOK' /\ [Next]_vars => KeptInv'
  <2> SUFFICES ASSUME KeptInv, TypeOK', KeepStep PROVE OneChargeKept' /\ NoneKeptYet'
    BY NextKeeps DEF KeptInv
  <2>1. CASE KeepsNoMore
    BY <2>1 DEF KeptInv, OneChargeKept, NoneKeptYet, KeepStep, KeepsNoMore
  <2>2. ASSUME NEW p \in Payments, KeepsFirst(p) PROVE OneChargeKept' /\ NoneKeptYet'
    <3>1. \A q \in Payments \ {p} : pay[q] # "SUCCEEDED"
      BY <2>2 DEF KeptInv, NoneKeptYet, KeepsFirst, Confirms, AnotherSucceeded
    <3>2. \A q \in Payments \ {p} : pay'[q] # "SUCCEEDED"
      BY <2>2, <3>1 DEF KeptInv, TypeOK, KeepsFirst
    <3> QED
      BY <2>2, <3>2 DEF OneChargeKept, NoneKeptYet, KeepsFirst
  <2> QED
    BY <2>1, <2>2 DEF KeepStep
<1>3. KeptInv => OneChargeKept
  BY DEF KeptInv
<1> QED
  BY <1>1, <1>2, <1>3, Typing, PTL DEF Spec

-----------------------------------------------------------------------------
(* What the rows say of the money is true                                    *)

Charged == {"taken", "refunded", "clawed"}

\* No request that the provider has not answered has taken money.
UnaskedUncharged == \A p \in Payments :
    thread[p] \in {"none", "calling"} => money[p] = "none"

\* What the provider answered a request, told a webhook or answered a refund is so,
\* and stays so: a charge taken is never untaken, nor money given back taken again.
AnswersTrue == \A p \in Payments :
    thread[p] \in {"succeeded", "compensating"} => money[p] \in Charged
EventsTrue == \A e \in sent :
    /\ e.kind # "failed" => money[e.of] \in Charged
    /\ e.kind = "refunded" => money[e.of] = "refunded"
LostHooksPaid == \A e \in lostHooks : e.kind # "failed"
RefundsAnswered == \A a \in answers : a.accepted => money[a.of] = "refunded"

BooksInv == RefundsAreReal /\ ChargesAreReal /\ EventsTrue
TruthInv == /\ TypeOK /\ BooksInv
            /\ UnaskedUncharged /\ AnswersTrue /\ LostHooksPaid /\ RefundsAnswered

\* Money moves one way, and not at all where none was taken.
MoneyMoves == \A p \in Payments :
    /\ money[p] \in Charged => money'[p] \in Charged
    /\ money[p] = "refunded" => money'[p] = "refunded"
    /\ money[p] = "none" => money'[p] = "none"

\* A refund the provider made is in its events, and changes no other charge.
LEMMA ProviderRefundsTrue ==
    ASSUME TruthInv, NEW p \in Payments, NEW accepted \in BOOLEAN,
           ProviderRefunds(p, accepted)
    PROVE  /\ MoneyMoves /\ EventsTrue'
           /\ accepted => money'[p] = "refunded"
<1> USE DEF TruthInv, TypeOK
<1>1. MoneyMoves /\ (accepted => money'[p] = "refunded")
  BY DEF ProviderRefunds, MayAccept, MoneyMoves, Charged
<1>2. \A e \in sent' : e \in sent \/ (e = E(p, "refunded") /\ money'[p] = "refunded")
  BY <1>1 DEF ProviderRefunds
<1>3. E(p, "refunded").of = p
  BY DEF E
<1>4. \A e \in sent : e.of \in Payments
  BY DEF Event
<1> QED
  BY <1>1, <1>2, <1>3, <1>4 DEF MoneyMoves, EventsTrue, BooksInv, Charged

\* Recording the provider's answer to a refund of a charge it did take.
LEMMA RecordTrue ==
    ASSUME TruthInv, NEW p \in Payments, NEW accepted \in BOOLEAN, Record(p, accepted),
           MoneyMoves, EventsTrue', money[p] \in Charged,
           accepted => money'[p] = "refunded"
    PROVE  BooksInv'
BY DEF TruthInv, TypeOK, BooksInv, RefundsAreReal, ChargesAreReal, Record, Recorded,
       MoneyMoves, Charged

LEMMA RefundNowTrue ==
    ASSUME TruthInv, NEW p \in Payments, NEW accepted \in BOOLEAN, RefundNow(p, accepted),
           money[p] \in Charged
    PROVE  MoneyMoves /\ BooksInv'
BY ProviderRefundsTrue, RecordTrue DEF RefundNow

LEMMA SettleTrue ==
    ASSUME TruthInv, NEW p \in Payments, Settle(p), money[p] \in Charged
    PROVE  MoneyMoves /\ BooksInv'
<1>1. CASE BuysNothing(p) /\ (\E accepted \in BOOLEAN : RefundNow(p, accepted))
  BY <1>1, RefundNowTrue
<1>2. CASE pay' = [pay EXCEPT ![p] = "SUCCEEDED"] /\ UNCHANGED <<told, money, sent>>
  BY <1>2 DEF TruthInv, TypeOK, BooksInv, RefundsAreReal, ChargesAreReal, EventsTrue,
              MoneyMoves, Charged
<1> QED
  BY <1>1, <1>2 DEF Settle

\* Where neither the money nor the events change, only what is written counts.
LEMMA MarkTrue ==
    ASSUME TruthInv, NEW p \in Payments, NEW st \in PaymentStatus,
           st # "REFUNDED", st \in Settled => money[p] \in Charged,
           pay' = [pay EXCEPT ![p] = st], UNCHANGED <<told, money, sent>>
    PROVE  MoneyMoves /\ BooksInv'
BY DEF TruthInv, TypeOK, BooksInv, RefundsAreReal, ChargesAreReal, EventsTrue, MoneyMoves,
       Charged

LEMMA SameTrue ==
    ASSUME TruthInv, UNCHANGED <<pay, told, money, sent>>
    PROVE  MoneyMoves /\ BooksInv'
BY DEF TruthInv, BooksInv, RefundsAreReal, ChargesAreReal, EventsTrue, MoneyMoves

\* The parts about requests follow once each request in flight moves only onwards.
LEMMA ThreadsTrue ==
    ASSUME TruthInv, MoneyMoves,
           \A q \in Payments : /\ thread'[q] \in {"none", "calling"}
                                     => thread[q] \in {"none", "calling"}
                               /\ thread'[q] \in {"succeeded", "compensating"}
                                     => thread[q] \in {"succeeded", "compensating"},
           lostHooks' \subseteq lostHooks, answers' \subseteq answers
    PROVE  UnaskedUncharged' /\ AnswersTrue' /\ LostHooksPaid' /\ RefundsAnswered'
BY DEF TruthInv, TypeOK, MoneyMoves, UnaskedUncharged, AnswersTrue, LostHooksPaid,
       RefundsAnswered

\* What the provider answers a request it is called for, the money being moved so.
LEMMA InitiateTrue ==
    ASSUME TruthInv, TypeOK', NEW p \in Payments, NEW becomes \in Money, NEW answer \in Stage,
           NEW events \in SUBSET Event, Initiate(p, becomes, answer, events),
           answer \notin {"none", "calling"},
           answer \in {"succeeded", "compensating"} => becomes \in Charged,
           \A e \in events : /\ e.of = p
                             /\ e.kind # "failed" => becomes \in Charged
                             /\ e.kind = "refunded" => becomes = "refunded"
    PROVE  TruthInv'
<1> USE DEF TruthInv, TypeOK, Initiate, dbVars
<1>1. money[p] = "none" /\ money'[p] = becomes
      /\ \A q \in Payments \ {p} : money'[q] = money[q] /\ thread'[q] = thread[q]
  BY DEF UnaskedUncharged
<1>2. RefundsAreReal' /\ ChargesAreReal'
  BY <1>1 DEF BooksInv, RefundsAreReal, ChargesAreReal
<1>3. EventsTrue'
  <2>1. \A e \in sent : e.of \in Payments
    BY DEF Event
  <2> QED
    BY <1>1, <2>1 DEF BooksInv, EventsTrue, Charged
<1>4. UnaskedUncharged' /\ AnswersTrue'
  <2>1. thread'[p] \in {answer, "failed"}
    OBVIOUS
  <2> QED
    BY <1>1, <2>1 DEF UnaskedUncharged, AnswersTrue
<1>5. LostHooksPaid' /\ RefundsAnswered'
  BY <1>1 DEF LostHooksPaid, RefundsAnswered
<1> QED
  BY <1>2, <1>3, <1>4, <1>5 DEF BooksInv

LEMMA PaymentStepTrue ==
    ASSUME TruthInv, TypeOK', NEW p \in Payments, PaymentStep(p)
    PROVE  TruthInv'
<1> USE DEF Charged
<1>t. TypeOK
  BY DEF TruthInv
<1>1. CASE InitPayment(p)
  <2>1. MoneyMoves /\ BooksInv'
    BY <1>1, MarkTrue DEF InitPayment, PaymentStatus, Settled
  <2> QED
    BY <1>1, <1>t, <2>1, ThreadsTrue DEF InitPayment, TypeOK, TruthInv
<1>2. CASE ApplyResult(p)
  <2>1. MoneyMoves /\ BooksInv'
    <3>1. CASE thread[p] = "succeeded" /\ Settle(p)
      BY <3>1, SettleTrue DEF TruthInv, AnswersTrue
    <3>2. CASE UNCHANGED <<pay, told, money, sent>>
      BY <3>2, SameTrue
    <3>3. CASE /\ pay' = [pay EXCEPT ![p] = IF thread[p] = "failed" THEN "FAILED"
                                            ELSE "REQUIRES_ACTION"]
               /\ UNCHANGED <<told, money, sent>>
      BY <3>3, MarkTrue DEF PaymentStatus, Settled
    <3> QED
      BY <1>2, <3>1, <3>2, <3>3 DEF ApplyResult
  <2>2. thread' \in {[thread EXCEPT ![p] = "done"], [thread EXCEPT ![p] = "compensating"]}
        /\ (thread'[p] = "compensating" => thread[p] = "succeeded")
        /\ UNCHANGED <<lostHooks, answers>>
    BY <1>2, <1>t DEF ApplyResult, TypeOK, Answered
  <2> QED
    BY <1>t, <2>1, <2>2, ThreadsTrue DEF TypeOK, TruthInv
<1>3. CASE Compensate(p)
  <2>1. PICK accepted \in BOOLEAN : GiveBack(p, accepted)
    BY <1>3 DEF Compensate
  <2>2. MoneyMoves /\ BooksInv'
    BY <1>3, <2>1, RefundNowTrue DEF GiveBack, Compensate, TruthInv, AnswersTrue
  <2> QED
    BY <1>3, <1>t, <2>2, ThreadsTrue DEF Compensate, TypeOK, TruthInv
<1>4. CASE PayRefundUndone(p)
  <2>1. MoneyMoves /\ EventsTrue'
    BY <1>4, ProviderRefundsTrue DEF PayRefundUndone, Undone
  <2>2. BooksInv'
    BY <1>4, <2>1 DEF PayRefundUndone, Undone, dbVars, TruthInv, BooksInv, RefundsAreReal,
                      ChargesAreReal, MoneyMoves
  <2> QED
    BY <1>4, <1>t, <2>1, <2>2, ThreadsTrue DEF PayRefundUndone, Undone, TypeOK, TruthInv
<1>5. CASE Decide(p)
  <2>1. MoneyMoves /\ BooksInv'
    BY <1>5, MarkTrue DEF Decide, PaymentStatus, Settled, TruthInv, BooksInv, ChargesAreReal
  <2> QED
    BY <1>5, <2>1, ThreadsTrue DEF Decide, TruthInv
<1>6. CASE GatewayCharges(p)
  BY <1>6, InitiateTrue, EventTyped DEF GatewayCharges, Money, Stage
<1>7. CASE GatewayAsksCustomer(p)
  BY <1>7, InitiateTrue DEF GatewayAsksCustomer, Money, Stage
<1>8. CASE GatewayDeclines(p)
  BY <1>8, InitiateTrue, EventTyped DEF GatewayDeclines, Money, Stage
<1>9. ASSUME NEW becomes \in Charged, NEW kind,
             kind \in {"succeeded", "wrong_sum", "refunded", "dispute"},
             kind = "refunded" => becomes = "refunded",
             money[p] \in {"open", "taken"},
             money' = [money EXCEPT ![p] = becomes],
             sent' = sent \cup {E(p, kind)}, UNCHANGED <<dbVars, thread, lostHooks, answers>>
      PROVE  TruthInv'
  <2>1. MoneyMoves
    BY <1>9, <1>t DEF MoneyMoves, TypeOK
  <2>2. E(p, kind).of = p /\ E(p, kind).kind = kind /\ \A e \in sent : e.of \in Payments
    BY <1>9, <1>t, EventTyped DEF TypeOK, Event
  <2>3. EventsTrue'
    BY <1>9, <1>t, <2>1, <2>2 DEF TruthInv, BooksInv, EventsTrue, MoneyMoves, TypeOK
  <2>4. RefundsAreReal' /\ ChargesAreReal'
    BY <1>9, <2>1 DEF TruthInv, BooksInv, RefundsAreReal, ChargesAreReal, MoneyMoves, dbVars
  <2> QED
    BY <1>9, <2>1, <2>3, <2>4, ThreadsTrue DEF TruthInv, BooksInv
<1>10. CASE CustomerPays(p)
  BY <1>10, <1>9 DEF CustomerPays, Paying
<1>11. CASE DashboardRefund(p)
  BY <1>11, <1>9 DEF DashboardRefund, MoneyGoesBack
<1>12. CASE CardholderDisputes(p)
  BY <1>12, <1>9 DEF CardholderDisputes, MoneyGoesBack
<1>13. CASE CustomerFails(p)
  <2>1. E(p, "failed").kind = "failed"
    BY DEF E
  <2>2. MoneyMoves /\ BooksInv'
    BY <1>13, <2>1 DEF CustomerFails, dbVars, TruthInv, BooksInv, RefundsAreReal,
                       ChargesAreReal, EventsTrue, MoneyMoves
  <2> QED
    BY <1>13, <2>2, ThreadsTrue DEF CustomerFails, TruthInv
<1>14. ASSUME NEW accepted \in BOOLEAN, AskRefund(p, accepted) PROVE TruthInv'
  <2>1. MoneyMoves /\ EventsTrue' /\ (accepted => money'[p] = "refunded")
    BY <1>14, ProviderRefundsTrue DEF AskRefund
  <2>2. BooksInv'
    BY <1>14, <2>1 DEF AskRefund, dbVars, TruthInv, BooksInv, RefundsAreReal,
                       ChargesAreReal, MoneyMoves
  <2>3. RefundsAnswered'
    <3>1. answers' = answers \cup {[of |-> p, accepted |-> accepted]}
      BY <1>14 DEF AskRefund
    <3>2. \A a \in answers : a.of \in Payments
      BY <1>t DEF TypeOK
    <3> QED
      BY <2>1, <3>1, <3>2 DEF TruthInv, RefundsAnswered, MoneyMoves
  <2>4. UnaskedUncharged' /\ AnswersTrue' /\ LostHooksPaid'
    BY <1>14, <2>1 DEF AskRefund, TruthInv, UnaskedUncharged, AnswersTrue, LostHooksPaid,
                       MoneyMoves
  <2> QED
    BY <2>2, <2>3, <2>4 DEF TruthInv
<1> QED
  BY <1>1, <1>2, <1>3, <1>4, <1>5, <1>6, <1>7, <1>8, <1>10, <1>11, <1>12, <1>13, <1>14
  DEF PaymentStep

LEMMA HookStepTrue ==
    ASSUME TruthInv, TypeOK', NEW e \in Event, HookStep(e)
    PROVE  TruthInv'
<1>t. TypeOK /\ e.of \in Payments
  BY DEF TruthInv, Event
<1>k. e \in sent => /\ e.kind # "failed" => money[e.of] \in Charged
                    /\ e.kind = "refunded" => money[e.of] = "refunded"
  BY DEF TruthInv, BooksInv, EventsTrue
<1>1. CASE HookNoChange(e)
  BY <1>1, SameTrue, ThreadsTrue DEF HookNoChange, Acknowledge, TruthInv
<1>2. CASE HookSucceeded(e)
  <2>1. money[e.of] \in Charged
    BY <1>2, <1>k DEF HookSucceeded, Acknowledge, Unprocessed
  <2>2. MoneyMoves /\ BooksInv'
    BY <1>2, <1>t, <2>1, SettleTrue, RefundNowTrue DEF HookSucceeded
  <2> QED
    BY <1>2, <2>2, ThreadsTrue DEF HookSucceeded, Acknowledge, TruthInv
<1>3. CASE HookSeatsLost(e)
  <2>1. MoneyMoves /\ BooksInv'
    BY <1>3, SameTrue DEF HookSeatsLost, dbVars
  <2> QED
    BY <1>3, <2>1 DEF HookSeatsLost, dbVars, TruthInv, UnaskedUncharged, AnswersTrue,
                      LostHooksPaid, RefundsAnswered
<1>4. CASE CompensateWebhook(e)
  <2>1. money[e.of] \in Charged
    BY <1>4, <1>t, <1>k DEF CompensateWebhook, TruthInv, LostHooksPaid, TypeOK
  <2>2. MoneyMoves /\ BooksInv'
    BY <1>4, <1>t, <2>1, RefundNowTrue, SameTrue DEF CompensateWebhook, GiveBack
  <2> QED
    BY <1>4, <2>2, ThreadsTrue DEF CompensateWebhook, TruthInv
<1>5. CASE HookFailed(e)
  <2>1. MoneyMoves /\ BooksInv'
    BY <1>5, <1>t, MarkTrue DEF HookFailed, PaymentStatus, Settled
  <2> QED
    BY <1>5, <2>1, ThreadsTrue DEF HookFailed, Acknowledge, TruthInv
<1>6. CASE HookRefunded(e)
  <2>1. money[e.of] = "refunded" /\ money[e.of] \in Charged
    BY <1>6, <1>k DEF HookRefunded, Acknowledge, Unprocessed, Charged
  <2>2. MoneyMoves /\ EventsTrue'
    BY <1>6 DEF HookRefunded, MoneyMoves, TruthInv, BooksInv, EventsTrue
  <2>3. BooksInv'
    BY <1>6, <1>t, <2>1, <2>2, RecordTrue DEF HookRefunded
  <2> QED
    BY <1>6, <2>2, <2>3, ThreadsTrue DEF HookRefunded, Acknowledge, TruthInv
<1>7. CASE HookDispute(e)
  <2>1. money[e.of] \in Charged
    BY <1>7, <1>k DEF HookDispute, Acknowledge, Unprocessed
  <2>2. MoneyMoves /\ BooksInv'
    BY <1>7, <1>t, <2>1, MarkTrue DEF HookDispute, PaymentStatus
  <2> QED
    BY <1>7, <2>2, ThreadsTrue DEF HookDispute, Acknowledge, TruthInv
<1> QED
  BY <1>1, <1>2, <1>3, <1>4, <1>5, <1>6, <1>7 DEF HookStep

LEMMA NextTrue ==
    ASSUME TruthInv, TypeOK', [Next]_vars
    PROVE  TruthInv'
<1>1. ASSUME NEW p \in Payments, PaymentStep(p) PROVE TruthInv'
  BY <1>1, PaymentStepTrue
<1>2. ASSUME NEW e \in Event, HookStep(e) PROVE TruthInv'
  BY <1>2, HookStepTrue
<1>3. ASSUME NEW e \in Event, HookRefundUndone(e) PROVE TruthInv'
  <2>1. e.of \in Payments
    BY DEF Event
  <2>2. MoneyMoves /\ EventsTrue'
    BY <1>3, <2>1, ProviderRefundsTrue DEF HookRefundUndone, Undone
  <2>3. BooksInv'
    BY <1>3, <2>2 DEF HookRefundUndone, Undone, dbVars, TruthInv, BooksInv, RefundsAreReal,
                      ChargesAreReal, MoneyMoves, Charged
  <2> QED
    BY <1>3, <2>2, <2>3, ThreadsTrue DEF HookRefundUndone, Undone, TruthInv
<1>4. ASSUME NEW a \in answers, RecordAnswer(a) PROVE TruthInv'
  <2>1. a.of \in Payments /\ a.accepted \in BOOLEAN
    BY DEF TruthInv, TypeOK
  <2>2. MoneyMoves /\ EventsTrue'
    BY <1>4 DEF RecordAnswer, MoneyMoves, TruthInv, BooksInv, EventsTrue
  <2>3. BooksInv'
    <3>1. CASE StillOwed(a.of)
      <4>1. money[a.of] \in Charged /\ (a.accepted => money'[a.of] = "refunded")
        BY <1>4, <2>1, <3>1 DEF StillOwed, RecordAnswer, TruthInv, BooksInv, ChargesAreReal,
                                Settled, Charged, RefundsAnswered
      <4> QED
        BY <1>4, <2>1, <2>2, <3>1, <4>1, RecordTrue DEF RecordAnswer
    <3>2. CASE ~StillOwed(a.of)
      BY <1>4, <3>2, SameTrue DEF RecordAnswer
    <3> QED
      BY <3>1, <3>2
  <2> QED
    BY <1>4, <2>2, <2>3, ThreadsTrue DEF RecordAnswer, TruthInv
<1>5. CASE VoidUncharged \/ CloseOrder \/ SeatsChange \/ UNCHANGED vars
  BY <1>5, SameTrue, ThreadsTrue DEF VoidUncharged, CloseOrder, SeatsChange, vars, dbVars,
                                     TruthInv
<1>6. CASE Crash
  <2>1. MoneyMoves /\ BooksInv'
    BY <1>6, SameTrue DEF Crash, dbVars
  <2> QED
    BY <1>6, <2>1, ThreadsTrue DEF Crash, TruthInv
<1> QED
  BY <1>1, <1>2, <1>3, <1>4, <1>5, <1>6 DEF Next

\* The invariant under both theorems below.
LEMMA BooksTrue == Spec => []TruthInv
<1>1. Init => TruthInv
  BY DEF Init, TruthInv, TypeOK, BooksInv, RefundsAreReal, ChargesAreReal, EventsTrue,
         UnaskedUncharged, AnswersTrue, LostHooksPaid, RefundsAnswered, Settled,
         OrderStatus, PaymentStatus, Stage, Money
<1>2. TruthInv /\ TypeOK' /\ [Next]_vars => TruthInv'
  BY NextTrue
<1> QED
  BY <1>1, <1>2, Typing, PTL DEF Spec

\* A payment is recorded as refunded, and payment.refunded published, only once the
\* provider has given the charge back, whatever rolled back or was lost in between.
THEOREM RefundsReal == Spec => []RefundsAreReal
<1>1. TruthInv => RefundsAreReal
  BY DEF TruthInv, BooksInv
<1> QED
  BY <1>1, BooksTrue, PTL

\* Nothing is kept, owed back or returned for a charge the provider never took.
THEOREM ChargesReal == Spec => []ChargesAreReal
<1>1. TruthInv => ChargesAreReal
  BY DEF TruthInv, BooksInv
<1> QED
  BY <1>1, BooksTrue, PTL
=============================================================================
