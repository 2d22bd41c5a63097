------------------------------ MODULE Checkout ------------------------------
(***************************************************************************)
(* A buyer at the checkout of one order: the payment config and the cached  *)
(* order, the card form, the pay request and the key of its attempt, the    *)
(* challenge a bank may ask for, the cancel dialog, the session, and the    *)
(* order page the buyer is sent to, with the booking service and the payment*)
(* provider behind them.                                                    *)
(*                                                                         *)
(* Keys are numbered as the page mints them.  A charge is the payment row of *)
(* a key; the provider may have taken its money before the row says so.     *)
(***************************************************************************)
EXTENDS Naturals, FiniteSets

CONSTANTS Providers,  \* the gateways the config may name: "mock", "stripe" or "other"
          MaxKeys,    \* bound: payment attempts
          MaxReloads  \* bound: reloads and sign-ins

ASSUME CheckoutAssumption ==
    /\ Providers \subseteq {"mock", "stripe", "other"}
    /\ MaxKeys \in Nat /\ MaxReloads \in Nat

VARIABLES
    provider,   \* the gateway of this deployment
    order,      \* orders.status
    charge,     \* payments.status of every key, "none" before the row exists
    taken,      \* keys whose money the provider has taken
    passed,     \* keys whose challenge the bank has let through
    stray,      \* keys of requests still on their way after the page gave them up
    accepted,   \* the API accepts this session's token
    page,       \* the page the buyer is on, "checkout" or "order"
    session,    \* useSession: "live", or "lapsed" behind the sign-in prompt
    config,     \* ["payment-config"]: "asked", "failed" or the provider
    shown, orderError, orderFetch,   \* ["order", orderId]: its data, error and fetch
    polling,    \* the order page still refetches every 4 seconds
    step,       \* StripeCardForm's step
    challenge,  \* the key whose challenge is on screen; 0 is none
    attemptKey, \* usePayOrder's ref; 0 is null
    pay,        \* the pay request and its answer
    cancel,     \* the cancel dialog and its request: "closed", "confirming", or how far it is
    minted, reloads,       \* keys minted, reloads made
    attempt     \* the keys sent since the API last answered for one

serverVars == <<provider, order, charge, taken, passed, stray, accepted>>
queryVars == <<config, shown, orderError, orderFetch, polling>>
formVars == <<step, challenge>>
payVars == <<attemptKey, pay, minted, attempt>>
whereVars == <<page, session, reloads>>
vars == <<serverVars, queryVars, formVars, payVars, cancel, whereVars>>

Keys == 1 .. MaxKeys
\* CLOSED is CANCELLED or EXPIRED, which a checkout treats alike.
OrderStatus == {"PENDING_PAYMENT", "PAID", "CLOSED"}
ChargeStatus == {"none", "INITIATED", "REQUIRES_ACTION", "SUCCEEDED", "FAILED", "REFUNDED"}

\* What a pay request comes back with: the payment itself, or a refusal.  "paid" is
\* the answer for an order some other charge has paid.
Refusal == {"lost", "error", "PAYMENT_IN_PROGRESS", "ORDER_NOT_PAYABLE", "limited", "unauthorized"}
PayAnswer == (ChargeStatus \ {"none", "INITIATED"}) \cup {"paid"} \cup Refusal

Idle == [at |-> "idle"]
PaySent == [at: {"sent", "running"}, key: Keys, card: BOOLEAN]
PayAnswered == [at: {"answered"}, key: Keys, answer: PayAnswer]
Fetch == {"idle", "asked", "failed", "unauthorized"} \cup OrderStatus

\* Rows, queries and requests have their types: a challenge is on screen exactly
\* while the form waits for the bank, and the key in the ref was minted.
TypeOK ==
    /\ order \in OrderStatus /\ charge \in [Keys -> ChargeStatus]
    /\ taken \subseteq Keys /\ passed \subseteq Keys /\ stray \subseteq Keys
    /\ accepted \in BOOLEAN
    /\ page \in {"checkout", "order"} /\ session \in {"live", "lapsed"}
    /\ provider \in Providers /\ config \in {"asked", "failed", provider}
    /\ shown \in OrderStatus \cup {"none"} /\ orderError \in BOOLEAN /\ orderFetch \in Fetch
    /\ polling \in BOOLEAN
    /\ step \in {"idle", "tokenising", "authenticating"}
    /\ challenge \in 0 .. MaxKeys /\ (step = "authenticating" <=> challenge # 0)
    /\ attemptKey \in 0 .. minted /\ minted \in 0 .. MaxKeys /\ attempt \subseteq 1 .. minted
    /\ pay \in {Idle} \cup PaySent \cup PayAnswered
    /\ cancel \in {"closed", "confirming", "asked", "answered", "unauthorized"}
    /\ reloads \in 0 .. MaxReloads

-----------------------------------------------------------------------------
(* What the page shows                                                      *)

\* Faulty variant: no config yet is taken for the demo gateway.
CardFormUnlessStripe(c) ==
    CASE c = "stripe" -> "stripe"
      [] c \in {"mock", "asked"} -> "mock"
      [] OTHER -> "unavailable"

\* cardFormFor: no form until the config has said which gateway is live.
CardFormFor(c) ==
    CASE c \in {"mock", "stripe"} -> c
      [] c = "asked" -> "loading"
      [] OTHER -> "unavailable"

CheckoutMounted == page = "checkout" /\ session = "live"
OrderMounted == page = "order" /\ session = "live"
Expired == shown = "CLOSED"
PaymentShown == CheckoutMounted /\ ~orderError /\ shown \in OrderStatus /\ ~Expired
Form == IF PaymentShown THEN CardFormFor(config) ELSE "none"

-----------------------------------------------------------------------------
(* The payment service and its provider                                     *)

Answer(k, a) == pay' = [at |-> "answered", key |-> k, answer |-> a]

\* PaymentService.initPayment: the row it records, or why it records none.
StartCharge(k) ==
    /\ charge[k] = "none" /\ order = "PENDING_PAYMENT"
    /\ charge' = [charge EXCEPT ![k] = "INITIATED"]

PayRefusal(k) ==
    IF charge[k] # "none" THEN {IF charge[k] = "INITIATED" THEN "PAYMENT_IN_PROGRESS" ELSE charge[k]}
    ELSE IF order = "PAID" THEN {"paid"}
    ELSE IF order # "PENDING_PAYMENT" THEN {"ORDER_NOT_PAYABLE"}
    ELSE IF \E j \in Keys : charge[j] = "INITIATED" THEN {"PAYMENT_IN_PROGRESS"} ELSE {}

\* An INITIATED charge of another key no longer stops this one once it is abandoned.
PayDecided ==
    /\ pay.at = "sent"
    /\ \/ ~accepted /\ Answer(pay.key, "unauthorized") /\ UNCHANGED charge
       \/ Answer(pay.key, "limited") /\ UNCHANGED charge
       \/ accepted /\ (\E a \in PayRefusal(pay.key) : Answer(pay.key, a)) /\ UNCHANGED charge
       \/ accepted /\ StartCharge(pay.key) /\ pay' = [pay EXCEPT !.at = "running"]
    /\ UNCHANGED <<provider, order, taken, passed, stray, accepted, queryVars, formVars, attemptKey, minted, attempt,
                   cancel, whereVars>>

StrayArrives(k) ==
    /\ k \in stray /\ stray' = stray \ {k}
    /\ StartCharge(k) \/ UNCHANGED charge
    /\ UNCHANGED <<provider, order, taken, passed, accepted, queryVars, formVars, payVars, cancel, whereVars>>

\* The charge has gone through: it pays for the order, or goes back.
Settle(k) ==
    IF order = "PENDING_PAYMENT"
    THEN order' = "PAID" /\ charge' = [charge EXCEPT ![k] = "SUCCEEDED"]
    ELSE charge' = [charge EXCEPT ![k] = "REFUNDED"] /\ UNCHANGED order

\* gateway.initiate takes the money, whatever becomes of the request that asked.
ProviderTakes(k) ==
    /\ charge[k] = "INITIATED" /\ k \notin taken
    /\ taken' = taken \cup {k}
    /\ UNCHANGED <<provider, order, charge, passed, stray, accepted, queryVars, formVars, payVars, cancel, whereVars>>

\* Phase C, or the webhook of a charge whose phase C never ran.
ResultApplied(k) ==
    /\ charge[k] = "INITIATED"
    /\ \/ k \in taken /\ Settle(k)
       \/ k \notin taken /\ charge' = [charge EXCEPT ![k] = "FAILED"] /\ UNCHANGED order
       \/ /\ provider = "stripe" /\ k \notin taken
          /\ charge' = [charge EXCEPT ![k] = "REQUIRES_ACTION"] /\ UNCHANGED order
    /\ IF pay.at = "running" /\ pay.key = k THEN Answer(k, charge'[k]) ELSE UNCHANGED pay
    /\ UNCHANGED <<provider, taken, passed, stray, accepted, queryVars, formVars, attemptKey, minted, attempt, cancel,
                   whereVars>>

\* The service fails with the charge under way.
PayCrashes ==
    /\ pay.at = "running" /\ Answer(pay.key, "error")
    /\ UNCHANGED <<serverVars, queryVars, formVars, attemptKey, minted, attempt, cancel, whereVars>>

\* The connection drops, and the request may still be on its way.
PayLost ==
    /\ pay.at \in {"sent", "running"} /\ Answer(pay.key, "lost")
    /\ stray' \in IF pay.at = "sent" THEN {stray, stray \cup {pay.key}} ELSE {stray}
    /\ UNCHANGED <<provider, order, charge, taken, passed, accepted, queryVars, formVars, attemptKey, minted, attempt,
                   cancel, whereVars>>

\* Stripe's webhook, after a challenge: the money is taken and settled, or it is not.
Webhook(k) ==
    /\ charge[k] = "REQUIRES_ACTION"
    /\ \/ k \in passed /\ taken' = taken \cup {k} /\ Settle(k)
       \/ /\ k \notin passed /\ challenge # k
          /\ charge' = [charge EXCEPT ![k] = "FAILED"] /\ UNCHANGED <<provider, order, taken>>
    /\ UNCHANGED <<provider, passed, stray, accepted, queryVars, formVars, payVars, cancel, whereVars>>

Expire ==
    /\ order = "PENDING_PAYMENT" /\ order' = "CLOSED"
    /\ UNCHANGED <<provider, charge, taken, passed, stray, accepted, queryVars, formVars, payVars, cancel, whereVars>>

CancelDecided ==
    /\ cancel = "asked"
    /\ \/ ~accepted /\ cancel' = "unauthorized" /\ UNCHANGED order
       \/ accepted /\ order = "PENDING_PAYMENT" /\ order' = "CLOSED" /\ cancel' = "answered"
       \/ cancel' = "answered" /\ UNCHANGED order
    /\ UNCHANGED <<provider, charge, taken, passed, stray, accepted, queryVars, formVars, payVars, whereVars>>

\* The token expires, and silent renewal has not replaced it.
TokenExpires ==
    /\ accepted /\ reloads < MaxReloads /\ accepted' = FALSE
    /\ UNCHANGED <<provider, order, charge, taken, passed, stray, queryVars, formVars, payVars, cancel, whereVars>>

-----------------------------------------------------------------------------
(* The queries                                                              *)

\* invalidateQueries(["order", orderId]): begun again if it is under way.
Refetch == orderFetch' = "asked"

ConfigAnswered ==
    /\ config \in {"asked", "failed"}
    /\ \/ config = "asked" /\ config' \in {"failed", provider}
       \/ config = "failed" /\ PaymentShown /\ config' = "asked"   \* Try again
    /\ UNCHANGED <<serverVars, shown, orderError, orderFetch, polling, formVars, payVars, cancel, whereVars>>

ReadOrder ==
    /\ orderFetch = "asked"
    /\ orderFetch' \in IF accepted THEN {order, "failed"} ELSE {"unauthorized"}
    /\ UNCHANGED <<serverVars, config, shown, orderError, polling, formVars, payVars, cancel, whereVars>>

Dismissed == IF cancel = "confirming" THEN "closed" ELSE cancel

\* RequireAuth replaces the page below it, and what that page held is gone.
Unmount ==
    /\ attemptKey' = 0 /\ attempt' = {} /\ polling' = FALSE
    /\ cancel' = Dismissed

Lapse == session' = "lapsed" /\ Unmount

\* The order page watches a pending order for 40 seconds, from when it first shows it.
Watched(status) ==
    IF OrderMounted /\ status = "PENDING_PAYMENT" /\ shown # status THEN TRUE
    ELSE polling /\ status = "PENDING_PAYMENT"

\* A paid order sends the buyer to its tickets.
Arrived(status) ==
    /\ shown' = status /\ orderError' = FALSE
    /\ IF status = "PAID" /\ CheckoutMounted
       THEN page' = "order" /\ Unmount
       ELSE polling' = Watched(status) /\ UNCHANGED <<page, attemptKey, attempt, cancel>>
    /\ UNCHANGED session

OrderFetched ==
    /\ \/ orderFetch \in OrderStatus /\ Arrived(orderFetch)
       \/ /\ orderFetch = "failed" /\ orderError' = TRUE
          /\ UNCHANGED <<shown, session, page, attemptKey, attempt, cancel, polling>>
       \/ orderFetch = "unauthorized" /\ Lapse /\ orderError' = TRUE /\ UNCHANGED <<shown, page>>
    /\ orderFetch' = "idle"
    /\ UNCHANGED <<serverVars, config, step, challenge, pay, minted, reloads>>

\* Faulty variant: what is asked for is no longer watched by the page.
PollElsewhere ==
    /\ polling
    /\ UNCHANGED vars

\* The interval invalidates the query: a fetch under way is begun again.
Poll ==
    /\ polling /\ Refetch
    /\ UNCHANGED <<serverVars, config, shown, orderError, polling, formVars, payVars, cancel, whereVars>>

PollStops ==
    /\ polling /\ polling' = FALSE
    /\ UNCHANGED <<serverVars, config, shown, orderError, orderFetch, formVars, payVars, cancel, whereVars>>

\* The window has the focus again, or "Try again" is pressed.
Focus ==
    /\ session = "live" /\ orderFetch = "idle" /\ Refetch
    /\ UNCHANGED <<serverVars, config, shown, orderError, polling, formVars, payVars, cancel, whereVars>>

-----------------------------------------------------------------------------
(* Paying                                                                   *)

\* What says nothing of the attempt: no answer, a server error, one still running.
Unsettled == {"lost", "error", "PAYMENT_IN_PROGRESS"}

\* Faulty variant: every answer settles the attempt, a server error's too.
SettledByAnyStatus(a) == a # "lost"

\* settlesAttempt: any other answer is the attempt's.
SettlesAttempt(a) == a \notin Unsettled

\* usePayOrder: a resend of an attempt that is not settled carries its key.
SendPay(raw) ==
    LET k == IF attemptKey = 0 THEN minted + 1 ELSE attemptKey
    IN /\ k <= MaxKeys
       /\ attemptKey' = k
       /\ minted' = IF k > minted THEN k ELSE minted
       /\ pay' = [at |-> "sent", key |-> k, card |-> raw]
       /\ attempt' = attempt \cup {k}

\* MockCardForm: the card itself is sent.
SubmitCard ==
    /\ Form = "mock" /\ pay = Idle
    /\ SendPay(TRUE)
    /\ UNCHANGED <<serverVars, queryVars, step, challenge, cancel, whereVars>>

\* Bound: one card at a time, though a form shown again after a failed fetch takes another.
\* StripeCardForm: the card is exchanged for a payment method first.
Tokenise ==
    /\ Form = "stripe" /\ step = "idle" /\ pay = Idle
    /\ step' = "tokenising"
    /\ UNCHANGED <<serverVars, queryVars, challenge, payVars, cancel, whereVars>>

Tokenised ==
    /\ step = "tokenising" /\ step' = "idle"
    /\ SendPay(FALSE) \/ UNCHANGED payVars
    /\ UNCHANGED <<serverVars, queryVars, challenge, cancel, whereVars>>

\* paymentOutcome, and where it takes the buyer.
PayOutcome(a) ==
    CASE a \in {"SUCCEEDED", "paid"} -> "paid"
      [] a = "REQUIRES_ACTION" -> IF provider = "stripe" THEN "authenticate" ELSE "pending"
      [] OTHER -> "refused"

PayAnsweredToPage ==
    LET a == pay.answer
        leaves == PayOutcome(a) \in {"paid", "pending"}
        challenges == PayOutcome(a) = "authenticate"
    IN /\ pay.at = "answered" /\ pay' = Idle
       /\ orderFetch' = "asked"
       /\ IF a = "unauthorized"
          THEN Lapse /\ UNCHANGED <<page, step, challenge>>
          ELSE /\ page' = IF leaves THEN "order" ELSE page
               /\ attemptKey' = IF leaves \/ SettlesAttempt(a) THEN 0 ELSE attemptKey
               /\ attempt' = IF leaves \/ a \notin Unsettled THEN {} ELSE attempt
               /\ step' = IF challenges THEN "authenticating" ELSE step
               /\ challenge' = IF challenges THEN pay.key ELSE challenge
               /\ cancel' = IF leaves THEN Dismissed ELSE cancel
               /\ polling' = IF leaves THEN session = "live" /\ shown = "PENDING_PAYMENT" ELSE polling
               /\ UNCHANGED session
       /\ UNCHANGED <<serverVars, config, shown, orderError, minted, reloads>>

\* The form is as it was before a card was entered.
FormRests == step' = "idle" /\ challenge' = 0

\* handleNextAction: the bank lets the charge through, or the challenge fails.
ChallengeEnds ==
    /\ challenge # 0
    /\ \/ passed' = passed \cup {challenge}
          /\ page' = "order" /\ attemptKey' = 0 /\ attempt' = {}
          /\ cancel' = Dismissed
          /\ polling' = (session = "live" /\ shown = "PENDING_PAYMENT")
          /\ orderFetch' = "asked"
       \/ UNCHANGED <<passed, page, attemptKey, attempt, cancel, polling, orderFetch>>
    /\ FormRests
    /\ UNCHANGED <<provider, order, charge, taken, stray, accepted, config, shown, orderError, pay, minted, session,
                   reloads>>

-----------------------------------------------------------------------------
(* Giving the order up, and leaving                                         *)

AskToCancel ==
    /\ PaymentShown /\ cancel = "closed" /\ cancel' = "confirming"
    /\ UNCHANGED <<serverVars, queryVars, formVars, payVars, whereVars>>

KeepOrCancel ==
    /\ cancel = "confirming" /\ cancel' \in {"closed", "asked"}
    /\ UNCHANGED <<serverVars, queryVars, formVars, payVars, whereVars>>

CancelAnswered ==
    /\ cancel \in {"answered", "unauthorized"} /\ cancel' = "closed"
    /\ Refetch
    /\ IF cancel = "unauthorized"
       THEN session' = "lapsed" /\ attemptKey' = 0 /\ attempt' = {} /\ polling' = FALSE
       ELSE UNCHANGED <<session, attemptKey, attempt, polling>>
    /\ UNCHANGED <<serverVars, config, shown, orderError, step, challenge, pay, minted, page, reloads>>

\* A page is opened afresh.  What it had sent goes on without it.
Load ==
    /\ pay' = Idle /\ FormRests
    /\ attemptKey' = 0 /\ attempt' = {} /\ polling' = FALSE
    /\ stray' = IF pay.at = "sent" THEN stray \cup {pay.key} ELSE stray
    /\ cancel' = "closed"
    /\ page' = "checkout" /\ session' = "live" /\ accepted' = TRUE
    /\ config' = "asked" /\ shown' = "none" /\ orderError' = FALSE /\ orderFetch' = "asked"
    /\ UNCHANGED <<provider, order, charge, taken, passed, minted>>

\* Reloading, or signing in again, comes back to the checkout.
Reload == reloads < MaxReloads /\ reloads' = reloads + 1 /\ Load

\* "Finish payment" on the order page.
FinishPayment ==
    /\ OrderMounted /\ shown = "PENDING_PAYMENT"
    /\ pay = Idle /\ step = "idle" /\ page' = "checkout"
    /\ orderFetch' = "asked" /\ polling' = FALSE
    /\ UNCHANGED <<serverVars, config, shown, orderError, formVars, payVars, cancel, session, reloads>>

-----------------------------------------------------------------------------
Init ==
    /\ provider \in Providers
    /\ order = "PENDING_PAYMENT" /\ charge = [k \in Keys |-> "none"]
    /\ taken = {} /\ passed = {} /\ stray = {} /\ accepted = TRUE
    /\ page = "checkout" /\ session = "live"
    /\ config = "asked" /\ shown = "none" /\ orderError = FALSE /\ orderFetch = "asked" /\ polling = FALSE
    /\ step = "idle" /\ challenge = 0
    /\ attemptKey = 0 /\ pay = Idle /\ minted = 0 /\ attempt = {}
    /\ cancel = "closed" /\ reloads = 0

Charging ==
    \/ PayDecided \/ PayCrashes \/ PayLost
    \/ \E k \in Keys : StrayArrives(k) \/ ProviderTakes(k) \/ ResultApplied(k) \/ Webhook(k)

Queries ==
    \/ ConfigAnswered \/ ReadOrder \/ OrderFetched
    \/ Poll \/ PollStops \/ Focus

Buyer ==
    \/ SubmitCard \/ Tokenise \/ Tokenised \/ PayAnsweredToPage \/ ChallengeEnds
    \/ AskToCancel \/ KeepOrCancel \/ CancelAnswered \/ Reload \/ FinishPayment

Next == Charging \/ Queries \/ Buyer \/ CancelDecided \/ Expire \/ TokenExpires

Spec == Init /\ [][Next]_vars

\* While it polls the order page asks again; a fetch ends, and one that is begun
\* again and again lands in the end.
FairSpec == Spec /\ WF_vars(ReadOrder) /\ SF_vars(OrderFetched) /\ WF_vars(Poll)

-----------------------------------------------------------------------------
(* "One attempt is never charged twice" (checkout-panel.tsx:129): however    *)
(* often a request is lost, fails or is sent again, the provider takes money *)
(* for one key only, until the API has answered for the attempt.            *)
ChargedOnce == Cardinality(taken \cap attempt) <= 1

(* A raw card number is only ever sent where the demo gateway takes it       *)
(* (lib/checkout.ts, CardForm).                                             *)
RawCardOnlyToMock == pay.at = "sent" /\ pay.card => provider = "mock"

(* The order page settles itself: an order paid by a webhook comes to be      *)
(* shown as paid while the page still polls (order-detail.tsx:63).           *)
PageSettles ==
    OrderMounted /\ polling /\ order = "PAID"
    ~> shown = "PAID" \/ ~polling \/ orderError

(* "Nothing has been charged", the cancel dialog says                        *)
(* (checkout-panel.tsx:269-270).                                            *)
NothingCharged == cancel = "confirming" => taken = {}
=============================================================================
