--------------------------- MODULE BuyerPagesProofs ---------------------------
(***************************************************************************)
(* Theorems about the buyer's pages: about Checkout for any gateways, keys  *)
(* and reloads, and about SeatMap for any seats and bounds.                 *)
(*                                                                         *)
(* One charge for an attempt rests on the page sending one key for it:     *)
(* whatever clears usePayOrder's ref also ends the attempt, and nothing    *)
(* but an answer that settles it, or the page going away, does.            *)
(***************************************************************************)
EXTENDS Checkout, SeatMap, FiniteSetTheorems, SequenceTheorems, WellFoundedInduction, TLAPS

USE CheckoutAssumption

\* The keys sent since the API last answered for one: the key in the ref, if any.
OneKeyPerAttempt ==
    /\ attempt \subseteq {attemptKey} \ {0}
    /\ attemptKey \in Nat /\ minted \in Nat

\* A step that leaves the attempt alone, ends it, or sends its key.
AttemptStep ==
    \/ UNCHANGED <<attemptKey, minted, attempt>>
    \/ attemptKey' = 0 /\ attempt' = {} /\ UNCHANGED minted
    \/ \E raw \in BOOLEAN : SendPay(raw)

LEMMA AttemptStepKeepsKey ==
    ASSUME OneKeyPerAttempt, AttemptStep
    PROVE  OneKeyPerAttempt'
<1>1. ASSUME NEW raw \in BOOLEAN, SendPay(raw) PROVE OneKeyPerAttempt'
  <2> DEFINE k == IF attemptKey = 0 THEN minted + 1 ELSE attemptKey
  <2>1. k \in Nat \ {0} /\ attempt \subseteq {k}
    BY DEF OneKeyPerAttempt
  <2>2. attemptKey' = k /\ attempt' = attempt \cup {k} /\ minted' \in {k, minted}
    BY <1>1 DEF SendPay
  <2> HIDE DEF k
  <2>3. minted' \in Nat /\ attemptKey' \in Nat
    BY <2>1, <2>2 DEF OneKeyPerAttempt
  <2>4. attempt' \subseteq {attemptKey'} \ {0}
    BY <2>1, <2>2
  <2> QED BY <2>3, <2>4 DEF OneKeyPerAttempt
<1>2. CASE UNCHANGED <<attemptKey, minted, attempt>>
  BY <1>2 DEF OneKeyPerAttempt
<1>3. CASE attemptKey' = 0 /\ attempt' = {} /\ UNCHANGED minted
  BY <1>3 DEF OneKeyPerAttempt
<1> QED BY <1>1, <1>2, <1>3 DEF AttemptStep

-----------------------------------------------------------------------------
(* Every step is one of these                                               *)

LEMMA ChargingLeavesAttempt == ASSUME Charging PROVE AttemptStep
BY DEF Charging, PayDecided, PayCrashes, PayLost, StrayArrives, ProviderTakes, ResultApplied, Webhook, payVars,
       AttemptStep

LEMMA QueriesLeaveAttempt == ASSUME Queries PROVE AttemptStep
<1>1. CASE OrderFetched
  <2>1. UNCHANGED minted
    BY <1>1 DEF OrderFetched
  <2>2. UNCHANGED <<attemptKey, attempt>> \/ (attemptKey' = 0 /\ attempt' = {})
    BY <1>1 DEF OrderFetched, Arrived, Lapse, Unmount
  <2> QED BY <2>1, <2>2 DEF AttemptStep
<1> QED BY <1>1 DEF Queries, ConfigAnswered, ReadOrder, Poll, PollStops, Focus, payVars, AttemptStep

LEMMA BuyerMovesAttempt == ASSUME Buyer PROVE AttemptStep
<1>1. CASE SubmitCard \/ Tokenised
  BY <1>1 DEF SubmitCard, Tokenised, payVars, AttemptStep
<1>2. CASE PayAnsweredToPage
  <2>1. UNCHANGED minted
    BY <1>2 DEF PayAnsweredToPage
  <2>2. UNCHANGED <<attemptKey, attempt>> \/ (attemptKey' = 0 /\ attempt' = {})
    BY <1>2 DEF PayAnsweredToPage, Lapse, Unmount, SettlesAttempt
  <2> QED BY <2>1, <2>2 DEF AttemptStep
<1>3. CASE ChallengeEnds \/ CancelAnswered \/ Reload
  BY <1>3 DEF ChallengeEnds, CancelAnswered, Reload, Load, AttemptStep
<1> QED BY <1>1, <1>2, <1>3 DEF Buyer, Tokenise, AskToCancel, KeepOrCancel, FinishPayment, payVars, AttemptStep

LEMMA NextMovesAttempt == ASSUME [Next]_vars PROVE AttemptStep
<1>1. CASE CancelDecided \/ Expire \/ TokenExpires \/ UNCHANGED vars
  BY <1>1 DEF CancelDecided, Expire, TokenExpires, vars, payVars, AttemptStep
<1> QED BY <1>1, ChargingLeavesAttempt, QueriesLeaveAttempt, BuyerMovesAttempt DEF Next

LEMMA KeyInvariance == Spec => []OneKeyPerAttempt
<1>1. Init => OneKeyPerAttempt
  BY DEF Init, OneKeyPerAttempt
<1>2. OneKeyPerAttempt /\ [Next]_vars => OneKeyPerAttempt'
  BY NextMovesAttempt, AttemptStepKeepsKey
<1> QED BY <1>1, <1>2, PTL DEF Spec

\* "One attempt is never charged twice": the provider takes money for at most one
\* of the keys sent since the API last answered for the attempt.
THEOREM AttemptChargedOnce == Spec => []ChargedOnce
<1>1. OneKeyPerAttempt => ChargedOnce
  <2> SUFFICES ASSUME OneKeyPerAttempt PROVE Cardinality(taken \cap attempt) <= 1
    BY DEF ChargedOnce
  <2>1. taken \cap attempt \subseteq {attemptKey}
    BY DEF OneKeyPerAttempt
  <2>2. IsFiniteSet({attemptKey}) /\ Cardinality({attemptKey}) = 1
    BY FS_Singleton
  <2> QED BY <2>1, <2>2, FS_Subset
<1> QED BY <1>1, KeyInvariance, PTL

-----------------------------------------------------------------------------
(* Where a card number goes                                                 *)

\* The config is the deployment's own, and a card is under way only where it may be.
CardInv ==
    /\ config \in {"asked", "failed", provider} /\ provider # "asked"
    /\ pay.at = "sent" /\ pay.card => provider = "mock"

LEMMA StepCardInv == CardInv /\ [Next]_vars => CardInv'
<1> SUFFICES ASSUME CardInv, [Next]_vars PROVE CardInv'
  OBVIOUS
<1>1. provider' = provider
  BY DEF Next, Charging, PayDecided, PayCrashes, PayLost, StrayArrives, ProviderTakes, ResultApplied, Webhook,
         Queries, ConfigAnswered, ReadOrder, OrderFetched, Poll, PollStops, Focus, Buyer, SubmitCard, Tokenise,
         Tokenised, PayAnsweredToPage, ChallengeEnds, AskToCancel, KeepOrCancel, CancelAnswered, Reload, Load,
         FinishPayment, CancelDecided, Expire, TokenExpires, serverVars, vars
<1>2. config' \in {"asked", "failed", provider}
  BY DEF CardInv, Next, Charging, PayDecided, PayCrashes, PayLost, StrayArrives, ProviderTakes, ResultApplied,
         Webhook, Queries, ConfigAnswered, ReadOrder, OrderFetched, Poll, PollStops, Focus, Buyer, SubmitCard,
         Tokenise, Tokenised, PayAnsweredToPage, ChallengeEnds, AskToCancel, KeepOrCancel, CancelAnswered, Reload,
         Load, FinishPayment, CancelDecided, Expire, TokenExpires, queryVars, vars
<1>3. ASSUME NEW raw \in BOOLEAN, SendPay(raw) PROVE pay'.card = raw
  BY <1>3 DEF SendPay
<1>4. CASE SubmitCard
  <2>1. provider = "mock"
    BY <1>4 DEF SubmitCard, Form, CardFormFor, CardInv
  <2> QED BY <1>1, <1>2, <2>1 DEF CardInv
<1>5. CASE Tokenised
  <2>1. pay'.card = FALSE \/ pay' = pay
    BY <1>3, <1>5 DEF Tokenised, payVars
  <2> QED BY <1>1, <1>2, <2>1 DEF CardInv
<1>6. pay' = pay \/ pay'.at # "sent" \/ SubmitCard \/ Tokenised
  <2>1. ASSUME NEW k, NEW a, Answer(k, a) PROVE pay'.at # "sent"
    BY <2>1 DEF Answer
  <2>2. pay.at = "sent" /\ pay' = [pay EXCEPT !.at = "running"] => pay'.at # "sent"
    OBVIOUS
  <2>3. Idle.at # "sent"
    BY DEF Idle
  <2> HIDE DEF Answer, Idle
  <2> QED BY <2>1, <2>2, <2>3
     DEF Next, Charging, PayDecided, PayCrashes, PayLost, StrayArrives, ProviderTakes, ResultApplied, Webhook,
         Queries, ConfigAnswered, ReadOrder, OrderFetched, Poll, PollStops, Focus, Buyer, Tokenise,
         PayAnsweredToPage, ChallengeEnds, AskToCancel, KeepOrCancel, CancelAnswered, Reload, Load, FinishPayment,
         CancelDecided, Expire, TokenExpires, vars, payVars
<1> QED BY <1>1, <1>2, <1>4, <1>5, <1>6 DEF CardInv

\* A card number is sent only where the demo gateway takes it: a form is shown for
\* the gateway the config named, and no other.
THEOREM CardsGoToMockOnly == Spec => []RawCardOnlyToMock
<1>1. Init => CardInv
  <2>1. Idle.at # "sent"
    BY DEF Idle
  <2> QED BY <2>1 DEF Init, CardInv
<1>2. CardInv => RawCardOnlyToMock
  BY DEF CardInv, RawCardOnlyToMock
<1> QED BY <1>1, <1>2, StepCardInv, PTL DEF Spec

-----------------------------------------------------------------------------
(* The types of the checkout                                                *)

ServiceTyped ==
    /\ order \in OrderStatus /\ charge \in [Keys -> ChargeStatus]
    /\ taken \subseteq Keys /\ passed \subseteq Keys /\ stray \subseteq Keys
    /\ accepted \in BOOLEAN /\ provider \in Providers

ScreenTyped ==
    /\ page \in {"checkout", "order"} /\ session \in {"live", "lapsed"}
    /\ config \in {"asked", "failed", provider}
    /\ shown \in OrderStatus \cup {"none"} /\ orderError \in BOOLEAN /\ orderFetch \in Fetch
    /\ polling \in BOOLEAN
    /\ cancel \in {"closed", "confirming", "asked", "answered", "unauthorized"}
    /\ reloads \in 0 .. MaxReloads

FormTyped ==
    /\ step \in {"idle", "tokenising", "authenticating"}
    /\ challenge \in 0 .. MaxKeys /\ (step = "authenticating" <=> challenge # 0)

AttemptTyped ==
    /\ attemptKey \in 0 .. minted /\ minted \in 0 .. MaxKeys /\ attempt \subseteq 1 .. minted

PayTyped == pay \in {Idle} \cup PaySent \cup PayAnswered

CheckoutTyped == ServiceTyped /\ ScreenTyped /\ FormTyped /\ AttemptTyped /\ PayTyped

\* The attempt goes on or is over, in the ref, in the key sent or in both.
LEMMA AttemptKept ==
    ASSUME AttemptTyped, UNCHANGED minted, attemptKey' \in {attemptKey, 0}, attempt' \in {attempt, {}}
    PROVE  AttemptTyped'
<1>1. minted \in Nat /\ 0 \in 0 .. minted
  BY DEF AttemptTyped
<1>2. attemptKey' \in 0 .. minted /\ attempt' \subseteq 1 .. minted
  BY <1>1 DEF AttemptTyped
<1> QED BY <1>2 DEF AttemptTyped

\* The key of a request is one the page minted, on its way or answered.
LEMMA PayKeys ==
    ASSUME PayTyped
    PROVE  /\ pay.at \in {"sent", "running"} => pay \in PaySent /\ pay.key \in Keys
           /\ pay.at = "answered" => pay \in PayAnswered /\ pay.key \in Keys /\ pay.answer \in PayAnswer
<1>1. Idle.at = "idle"
  BY DEF Idle
<1> HIDE DEF Idle
<1> QED BY <1>1 DEF PayTyped, PaySent, PayAnswered

LEMMA AnswersTyped == ASSUME NEW k \in Keys, NEW a \in PayAnswer, Answer(k, a) PROVE PayTyped'
BY DEF Answer, PayTyped, PayAnswered

LEMMA SettlesTyped ==
    ASSUME ServiceTyped, NEW k \in Keys, Settle(k)
    PROVE  order' \in OrderStatus /\ charge' \in [Keys -> ChargeStatus] /\ charge'[k] \in {"SUCCEEDED", "REFUNDED"}
BY DEF ServiceTyped, Settle, OrderStatus, ChargeStatus

LEMMA DecisionTyped == ASSUME ServiceTyped, PayTyped, PayDecided PROVE ServiceTyped' /\ PayTyped'
<1>1. pay \in PaySent /\ pay.key \in Keys
  BY PayKeys DEF PayDecided
<1>2. "unauthorized" \in PayAnswer /\ "limited" \in PayAnswer
  BY DEF PayAnswer, Refusal
<1>3. ASSUME NEW a \in PayRefusal(pay.key) PROVE a \in PayAnswer
  <2>1. charge[pay.key] \in ChargeStatus
    BY <1>1 DEF ServiceTyped
  <2> QED BY <1>3, <2>1 DEF PayRefusal, PayAnswer, Refusal, ChargeStatus
<1>4. CASE UNCHANGED charge /\ \E a \in PayAnswer : Answer(pay.key, a)
  <2>1. PayTyped'
    BY <1>1, <1>4, AnswersTyped
  <2> QED BY <1>4, <2>1 DEF PayDecided, ServiceTyped
<1>5. CASE StartCharge(pay.key) /\ pay' = [pay EXCEPT !.at = "running"]
  <2>1. PayTyped'
    BY <1>1, <1>5 DEF PayTyped, PaySent
  <2>2. charge' \in [Keys -> ChargeStatus]
    BY <1>1, <1>5 DEF StartCharge, ServiceTyped, ChargeStatus
  <2> QED BY <2>1, <2>2 DEF PayDecided, ServiceTyped
<1> QED BY <1>2, <1>3, <1>4, <1>5 DEF PayDecided

LEMMA ResultTyped ==
    ASSUME ServiceTyped, PayTyped, NEW k \in Keys, ResultApplied(k)
    PROVE  ServiceTyped' /\ PayTyped'
<1>1. /\ order' \in OrderStatus /\ charge' \in [Keys -> ChargeStatus]
      /\ charge'[k] \in ChargeStatus \ {"none", "INITIATED"}
  BY SettlesTyped DEF ResultApplied, ServiceTyped, ChargeStatus, OrderStatus
<1>2. PayTyped'
  <2>1. CASE UNCHANGED pay
    BY <2>1 DEF PayTyped
  <2>2. CASE Answer(k, charge'[k])
    BY <1>1, <2>2, AnswersTyped DEF PayAnswer
  <2> QED BY <2>1, <2>2 DEF ResultApplied
<1> QED BY <1>1, <1>2 DEF ResultApplied, ServiceTyped

\* What the service does types its own state and the answer under way.
LEMMA ServiceStepTyped ==
    ASSUME ServiceTyped, PayTyped, Charging \/ CancelDecided \/ Expire \/ TokenExpires
    PROVE  ServiceTyped' /\ PayTyped'
<1>1. CASE PayDecided
  BY <1>1, DecisionTyped
<1>2. CASE PayCrashes \/ PayLost
  <2>1. pay.key \in Keys /\ \E a \in {"error", "lost"} : Answer(pay.key, a)
    BY <1>2, PayKeys DEF PayCrashes, PayLost
  <2>2. PayTyped'
    BY <2>1, AnswersTyped DEF PayAnswer, Refusal
  <2>3. ServiceTyped'
    BY <1>2, <2>1 DEF PayCrashes, PayLost, serverVars, ServiceTyped
  <2> QED BY <2>2, <2>3
<1>3. ASSUME NEW k \in Keys, StrayArrives(k) \/ ProviderTakes(k) PROVE ServiceTyped' /\ PayTyped'
  BY <1>3 DEF StrayArrives, ProviderTakes, StartCharge, ServiceTyped, ChargeStatus, PayTyped, payVars
<1>4. ASSUME NEW k \in Keys, ResultApplied(k) PROVE ServiceTyped' /\ PayTyped'
  BY <1>4, ResultTyped
<1>5. ASSUME NEW k \in Keys, Webhook(k) PROVE ServiceTyped' /\ PayTyped'
  <2>1. order' \in OrderStatus /\ charge' \in [Keys -> ChargeStatus] /\ taken' \subseteq Keys
    BY <1>5, SettlesTyped DEF Webhook, ServiceTyped, ChargeStatus
  <2> QED BY <1>5, <2>1 DEF Webhook, ServiceTyped, PayTyped, payVars
<1>6. CASE CancelDecided \/ Expire \/ TokenExpires
  BY <1>6 DEF CancelDecided, Expire, TokenExpires, ServiceTyped, OrderStatus, PayTyped, payVars
<1> QED BY <1>1, <1>2, <1>3, <1>4, <1>5, <1>6 DEF Charging

\* None of it reaches the screen but through the cancel dialog's request.
LEMMA ServiceLeavesScreen ==
    ASSUME ScreenTyped, FormTyped, AttemptTyped, Charging \/ CancelDecided \/ Expire \/ TokenExpires
    PROVE  ScreenTyped' /\ FormTyped' /\ AttemptTyped'
<1>1. UNCHANGED <<provider, queryVars, formVars, attemptKey, minted, attempt, whereVars>>
  BY DEF Charging, PayDecided, PayCrashes, PayLost, StrayArrives, ProviderTakes, ResultApplied, Webhook,
         CancelDecided, Expire, TokenExpires, serverVars, payVars
<1>2. cancel' \in {cancel, "unauthorized", "answered"}
  BY DEF Charging, PayDecided, PayCrashes, PayLost, StrayArrives, ProviderTakes, ResultApplied, Webhook,
         CancelDecided, Expire, TokenExpires
<1> QED BY <1>1, <1>2 DEF ScreenTyped, FormTyped, AttemptTyped, queryVars, formVars, whereVars

LEMMA QueriesTyped == ASSUME CheckoutTyped, Queries PROVE CheckoutTyped'
<1>1. ServiceTyped' /\ FormTyped' /\ PayTyped'
  BY DEF Queries, ConfigAnswered, ReadOrder, OrderFetched, Poll, PollStops, Focus, serverVars, formVars, payVars,
         CheckoutTyped, ServiceTyped, FormTyped, PayTyped
<1>2. UNCHANGED minted /\ attemptKey' \in {attemptKey, 0} /\ attempt' \in {attempt, {}}
  BY DEF Queries, ConfigAnswered, ReadOrder, OrderFetched, Poll, PollStops, Focus, Arrived, Lapse, Unmount, payVars
<1>3. AttemptTyped'
  BY <1>2, AttemptKept DEF CheckoutTyped
<1>4. UNCHANGED <<provider, reloads>> /\ order \in OrderStatus
  BY DEF Queries, ConfigAnswered, ReadOrder, OrderFetched, Poll, PollStops, Focus, serverVars, whereVars,
         CheckoutTyped, ServiceTyped
<1>5. ScreenTyped'
  <2>1. CASE OrderFetched
    <3>1. cancel' \in {"closed", "confirming", "asked", "answered", "unauthorized"} /\ polling' \in BOOLEAN
      BY <2>1 DEF OrderFetched, Arrived, Watched, Lapse, Unmount, Dismissed, CheckoutTyped, ScreenTyped
    <3>2. shown' \in OrderStatus \cup {"none"} /\ orderError' \in BOOLEAN /\ orderFetch' \in Fetch
      BY <2>1 DEF OrderFetched, Arrived, CheckoutTyped, ScreenTyped, Fetch
    <3>3. page' \in {"checkout", "order"} /\ session' \in {"live", "lapsed"} /\ UNCHANGED config
      BY <2>1 DEF OrderFetched, Arrived, Lapse, CheckoutTyped, ScreenTyped
    <3> QED BY <1>4, <3>1, <3>2, <3>3 DEF CheckoutTyped, ScreenTyped
  <2>2. CASE ConfigAnswered \/ ReadOrder \/ Poll \/ PollStops \/ Focus
    BY <1>4, <2>2 DEF ConfigAnswered, ReadOrder, Poll, PollStops, Focus, Refetch, whereVars, CheckoutTyped,
                      ScreenTyped, Fetch
  <2> QED BY <2>1, <2>2 DEF Queries
<1> QED BY <1>1, <1>3, <1>5 DEF CheckoutTyped

LEMMA SendsTyped ==
    ASSUME AttemptTyped, NEW raw \in BOOLEAN, SendPay(raw)
    PROVE  AttemptTyped' /\ PayTyped'
<1> DEFINE k == IF attemptKey = 0 THEN minted + 1 ELSE attemptKey
<1>1. k \in Keys /\ k \in 1 .. minted + 1
  BY DEF SendPay, AttemptTyped, Keys
<1>2. attemptKey' = k /\ minted' = (IF k > minted THEN k ELSE minted) /\ attempt' = attempt \cup {k}
      /\ pay' = [at |-> "sent", key |-> k, card |-> raw]
  BY DEF SendPay
<1> HIDE DEF k
<1>3. k \in 1 .. minted' /\ minted' \in 0 .. MaxKeys /\ minted <= minted'
  BY <1>1, <1>2 DEF AttemptTyped, Keys
<1>4. AttemptTyped'
  BY <1>2, <1>3 DEF AttemptTyped
<1> QED BY <1>1, <1>2, <1>4 DEF PayTyped, PaySent

LEMMA AnsweredTyped == ASSUME CheckoutTyped, PayAnsweredToPage PROVE CheckoutTyped'
<1> DEFINE a == pay.answer
           leaves == PayOutcome(a) \in {"paid", "pending"}
           challenges == PayOutcome(a) = "authenticate"
<1>1. pay.key \in Keys
  BY PayKeys DEF CheckoutTyped, PayAnsweredToPage
<1>2. ServiceTyped' /\ PayTyped'
  BY DEF PayAnsweredToPage, serverVars, CheckoutTyped, ServiceTyped, PayTyped
<1>3. UNCHANGED <<provider, config, shown, orderError, minted, reloads>> /\ orderFetch' = "asked"
  BY DEF PayAnsweredToPage, serverVars
<1>4. CASE a = "unauthorized"
  <2>1. Lapse /\ UNCHANGED <<page, step, challenge>>
    BY <1>4 DEF PayAnsweredToPage
  <2>2. ScreenTyped'
    BY <1>3, <2>1 DEF Lapse, Unmount, Dismissed, CheckoutTyped, ScreenTyped, Fetch
  <2>3. FormTyped' /\ AttemptTyped'
    BY <1>3, <2>1 DEF Lapse, Unmount, CheckoutTyped, FormTyped, AttemptTyped
  <2> QED BY <1>2, <2>2, <2>3 DEF CheckoutTyped
<1>5. CASE a # "unauthorized"
  <2>1. attemptKey' \in {attemptKey, 0} /\ attempt' \in {attempt, {}}
    BY <1>5 DEF PayAnsweredToPage
  <2>2. AttemptTyped'
    BY <1>3, <2>1, AttemptKept DEF CheckoutTyped
  <2>3. step' = (IF challenges THEN "authenticating" ELSE step)
        /\ challenge' = (IF challenges THEN pay.key ELSE challenge)
    BY <1>5 DEF PayAnsweredToPage
  <2>4. FormTyped'
    BY <1>1, <2>3 DEF CheckoutTyped, FormTyped, Keys
  <2>5. page' \in {page, "order"} /\ cancel' \in {cancel, Dismissed} /\ session' = session
    BY <1>5 DEF PayAnsweredToPage
  <2>6. polling' \in BOOLEAN
    BY <1>5 DEF PayAnsweredToPage, CheckoutTyped, ScreenTyped
  <2>7. ScreenTyped'
    BY <1>3, <2>5, <2>6 DEF Dismissed, CheckoutTyped, ScreenTyped, Fetch
  <2> QED BY <1>2, <2>2, <2>4, <2>7 DEF CheckoutTyped
<1> QED BY <1>4, <1>5

LEMMA ChallengeTyped == ASSUME CheckoutTyped, ChallengeEnds PROVE CheckoutTyped'
<1>1. challenge \in Keys
  BY DEF ChallengeEnds, CheckoutTyped, FormTyped, Keys
<1>2. ServiceTyped' /\ PayTyped'
  BY <1>1 DEF ChallengeEnds, CheckoutTyped, ServiceTyped, PayTyped
<1>3. FormTyped' /\ AttemptTyped'
  <2>1. UNCHANGED minted /\ attemptKey' \in {attemptKey, 0} /\ attempt' \in {attempt, {}}
    BY DEF ChallengeEnds
  <2> QED BY <2>1, AttemptKept DEF ChallengeEnds, FormRests, CheckoutTyped, FormTyped
<1>4. ScreenTyped'
  BY DEF ChallengeEnds, Dismissed, CheckoutTyped, ScreenTyped, Fetch
<1> QED BY <1>2, <1>3, <1>4 DEF CheckoutTyped

LEMMA ReloadTyped == ASSUME CheckoutTyped, Reload PROVE CheckoutTyped'
<1>1. pay.at = "sent" => pay.key \in Keys
  BY PayKeys DEF CheckoutTyped
<1>2. ServiceTyped' /\ PayTyped'
  BY <1>1 DEF Reload, Load, CheckoutTyped, ServiceTyped, PayTyped
<1>3. FormTyped' /\ AttemptTyped'
  BY DEF Reload, Load, FormRests, CheckoutTyped, FormTyped, AttemptTyped
<1>4. ScreenTyped'
  <2>1. reloads' \in 0 .. MaxReloads
    BY DEF Reload, CheckoutTyped, ScreenTyped
  <2> QED BY <2>1 DEF Reload, Load, CheckoutTyped, ScreenTyped, Fetch
<1> QED BY <1>2, <1>3, <1>4 DEF CheckoutTyped

LEMMA BuyerTyped == ASSUME CheckoutTyped, Buyer PROVE CheckoutTyped'
<1>1. CASE SubmitCard \/ Tokenised
  <2>1. AttemptTyped' /\ PayTyped'
    BY <1>1, SendsTyped DEF SubmitCard, Tokenised, payVars, CheckoutTyped, AttemptTyped, PayTyped
  <2>2. UNCHANGED <<serverVars, queryVars, challenge, cancel, whereVars>>
    BY <1>1 DEF SubmitCard, Tokenised
  <2>3. FormTyped'
    BY <1>1, <2>2 DEF SubmitCard, Tokenised, CheckoutTyped, FormTyped
  <2>4. ServiceTyped' /\ ScreenTyped'
    BY <2>2 DEF CheckoutTyped, ServiceTyped, ScreenTyped, serverVars, queryVars, whereVars
  <2> QED BY <2>1, <2>3, <2>4 DEF CheckoutTyped
<1>2. CASE Tokenise
  BY <1>2 DEF Tokenise, CheckoutTyped, ServiceTyped, ScreenTyped, FormTyped, AttemptTyped, PayTyped, serverVars,
              queryVars, payVars, whereVars
<1>3. CASE AskToCancel \/ KeepOrCancel \/ FinishPayment \/ CancelAnswered
  <2>1. UNCHANGED <<serverVars, config, shown, orderError, formVars, pay, minted, reloads>>
    BY <1>3 DEF AskToCancel, KeepOrCancel, FinishPayment, CancelAnswered, queryVars, payVars, formVars, whereVars
  <2>2. ServiceTyped' /\ FormTyped' /\ PayTyped'
    BY <2>1 DEF CheckoutTyped, ServiceTyped, FormTyped, PayTyped, serverVars, formVars
  <2>3. AttemptTyped'
    <3>1. attemptKey' \in {attemptKey, 0} /\ attempt' \in {attempt, {}}
      BY <1>3 DEF AskToCancel, KeepOrCancel, FinishPayment, CancelAnswered, payVars
    <3> QED BY <2>1, <3>1, AttemptKept DEF CheckoutTyped
  <2>4. ScreenTyped'
    BY <1>3, <2>1 DEF AskToCancel, KeepOrCancel, FinishPayment, CancelAnswered, Refetch, serverVars, queryVars,
                      whereVars, CheckoutTyped, ScreenTyped, Fetch
  <2> QED BY <2>2, <2>3, <2>4 DEF CheckoutTyped
<1> QED BY <1>1, <1>2, <1>3, AnsweredTyped, ChallengeTyped, ReloadTyped DEF Buyer

LEMMA CheckoutKeepsTypes == CheckoutTyped /\ [Next]_vars => CheckoutTyped'
<1> SUFFICES ASSUME CheckoutTyped, [Next]_vars PROVE CheckoutTyped'
  OBVIOUS
<1>1. CASE Charging \/ CancelDecided \/ Expire \/ TokenExpires
  BY <1>1, ServiceStepTyped, ServiceLeavesScreen DEF CheckoutTyped
<1>2. CASE UNCHANGED vars
  BY <1>2 DEF vars, CheckoutTyped, ServiceTyped, ScreenTyped, FormTyped, AttemptTyped, PayTyped, serverVars,
              queryVars, formVars, payVars, whereVars
<1> QED BY <1>1, <1>2, QueriesTyped, BuyerTyped DEF Next

\* A challenge is on screen exactly while the form waits for the bank, the key in
\* the ref is one the page minted, and the rest is what its type says.
THEOREM CheckoutTyping == Spec => []TypeOK
<1>1. Init => CheckoutTyped
  <2> SUFFICES ASSUME Init PROVE CheckoutTyped
    OBVIOUS
  <2>1. 0 \in 0 .. MaxKeys /\ 0 \in 0 .. MaxReloads /\ 0 \in 0 .. 0
    OBVIOUS
  <2>2. ServiceTyped /\ PayTyped
    BY DEF Init, ServiceTyped, PayTyped, OrderStatus, ChargeStatus
  <2>3. ScreenTyped
    BY <2>1 DEF Init, ScreenTyped, Fetch
  <2>4. FormTyped /\ AttemptTyped
    BY <2>1 DEF Init, FormTyped, AttemptTyped
  <2> QED BY <2>2, <2>3, <2>4 DEF CheckoutTyped
<1>2. CheckoutTyped => TypeOK
  BY DEF CheckoutTyped, ServiceTyped, ScreenTyped, FormTyped, AttemptTyped, PayTyped, TypeOK
<1> QED BY <1>1, <1>2, CheckoutKeepsTypes, PTL DEF Spec

-----------------------------------------------------------------------------
(***************************************************************************)
(* The seat map.  The order the refusal's screen offers to cancel is looked *)
(* up in a list that may be old.  It is the right one all the same: orders  *)
(* are only ever added to, and none changes its seats, so the list names    *)
(* the seats of the orders it has as the service does.                      *)
(***************************************************************************)
\* The orders placed, and what is under way to place another.
OrdersPlaced == placed \in Seq(Order) /\ reserving \in {NoCall} \cup Reserving

\* A list of orders that was right once: no longer than the orders placed, with
\* the same seats.
Older(orders) ==
    /\ orders \in Seq(Order)
    /\ Len(orders) <= Len(placed)
    /\ \A i \in 1 .. Len(orders) : orders[i].seats = placed[i].seats

\* So is every list the page has, or is about to have.
ListsAreOlder ==
    /\ myOrders # Nothing => Older(myOrders)
    /\ ordersFetch.at = "read" => Older(ordersFetch.orders)

MapInv == OrdersPlaced /\ ListsAreOlder

-----------------------------------------------------------------------------
(* The newest of some orders                                                *)

LEMMA Least ==
    ASSUME NEW S, S \subseteq Nat, S # {}
    PROVE  \E x \in S : \A y \in S : x <= y
<1>1. PICK x \in S : \A y \in S : ~(<<y, x>> \in OpToRel(<, Nat))
  BY NatLessThanWellFounded, WFMin
<1>2. \A y \in S : <<y, x>> \in Nat \X Nat
  OBVIOUS
<1>3. \A y \in S : ~(y < x)
  BY <1>1, <1>2, Zenon DEF OpToRel
<1> QED BY <1>3

\* Max is one of the numbers it is given, if they are bounded.
LEMMA MaxIsOne ==
    ASSUME NEW n \in Nat, NEW S, S \subseteq 0 .. n, S # {}
    PROVE  Max(S) \in S
<1> DEFINE Bounds == {m \in Nat : \A x \in S : x <= m}
<1>1. Bounds \subseteq Nat /\ Bounds # {}
  OBVIOUS
<1>2. PICK m \in Bounds : \A b \in Bounds : m <= b
  BY <1>1, Least
<1>3. \E x \in S : x >= m
  <2>1. CASE m = 0
    <3>1. PICK x \in S : x \in 0 .. n
      OBVIOUS
    <3> QED BY <2>1, <3>1
  <2>2. CASE m # 0
    <3>1. m - 1 \in Nat /\ ~(m <= m - 1)
      BY <2>2
    <3>2. m - 1 \notin Bounds
      BY <1>2, <3>1
    <3> QED BY <3>1, <3>2
  <2> QED BY <2>1, <2>2
<1>4. \E x \in S : \A y \in S : x >= y
  BY <1>2, <1>3
<1> QED BY <1>4 DEF Max

\* What findPendingOrder finds is an unpaid order over one of the seats.
LEMMA FoundIsPending ==
    ASSUME NEW orders \in Seq(Order), NEW seats, FindPendingOrder(orders, seats) # 0
    PROVE  FindPendingOrder(orders, seats) \in PendingOrders(orders, seats)
<1> DEFINE S == {0} \cup PendingOrders(orders, seats)
<1>1. S \subseteq 0 .. Len(orders) /\ S # {} /\ Len(orders) \in Nat
  BY DEF PendingOrders
<1> HIDE DEF S
<1>2. Max(S) \in S
  BY <1>1, MaxIsOne
<1> QED BY <1>2 DEF S, FindPendingOrder

-----------------------------------------------------------------------------
(* Orders keep their seats                                                  *)

\* No order goes, and none changes its seats.
Lasting ==
    /\ placed' \in Seq(Order)
    /\ Len(placed) <= Len(placed')
    /\ \A i \in 1 .. Len(placed) : placed'[i].seats = placed[i].seats

LEMMA ClosedIsLasting ==
    ASSUME placed \in Seq(Order), NEW i, CloseOrder(i)
    PROVE  Lasting /\ Len(placed') = Len(placed)
<1>1. placed' = [placed EXCEPT ![i] = [placed[i] EXCEPT !.unpaid = FALSE]]
  BY DEF CloseOrder
<1>2. \A r \in Order : LET closed == [r EXCEPT !.unpaid = FALSE]
                          IN closed \in Order /\ closed.seats = r.seats
  BY DEF Order
<1>3. DOMAIN placed = 1 .. Len(placed) /\ Len(placed) \in Nat
  OBVIOUS
<1>4. \A j \in 1 .. Len(placed) : placed[j] \in Order
  OBVIOUS
<1>5. DOMAIN placed' = 1 .. Len(placed)
  BY <1>1, <1>3
<1>6. \A j \in 1 .. Len(placed) : placed'[j] \in Order /\ placed'[j].seats = placed[j].seats
  BY <1>1, <1>2, <1>3, <1>4, Zenon
<1>7. placed' \in [1 .. Len(placed) -> Order]
  BY <1>1, <1>3, <1>6
<1>8. placed' \in Seq(Order) /\ Len(placed') = Len(placed)
  BY <1>3, <1>5, <1>7
<1> QED BY <1>3, <1>6, <1>8 DEF Lasting

LEMMA AnswersKeepPlaced ==
    ASSUME OrdersPlaced,
           HoldDecided \/ OrderDecided \/ ReserveAnswered \/ Ordered
    PROVE  Lasting /\ reserving' \in {NoCall} \cup Reserving
<1> USE DEF OrdersPlaced
<1>1. UNCHANGED placed => Lasting
  BY DEF Lasting
<1>2. CASE HoldDecided
  <2>1. reserving.at = "hold" /\ UNCHANGED placed
        /\ \E at \in {"held", "failed", "unavailable"} : reserving' = [at |-> at, seats |-> reserving.seats]
    BY <1>2 DEF HoldDecided
  <2>2. reserving.seats \subseteq Seats
    BY <2>1 DEF NoCall, Reserving
  <2> QED BY <1>1, <2>1, <2>2 DEF Reserving
<1>3. CASE OrderDecided
  <2>1. reserving.at = "order"
        /\ \E at \in {"ordered", "covered", "refused"} : reserving' = [at |-> at, seats |-> reserving.seats]
    BY <1>3 DEF OrderDecided
  <2>2. reserving.seats \subseteq Seats
    BY <2>1 DEF NoCall, Reserving
  <2>3. reserving' \in Reserving
    BY <2>1, <2>2 DEF Reserving
  <2>4. UNCHANGED placed \/ placed' = Append(placed, [seats |-> reserving.seats, unpaid |-> TRUE])
    BY <1>3 DEF OrderDecided
  <2>5. [seats |-> reserving.seats, unpaid |-> TRUE] \in Order
    BY <2>2 DEF Order
  <2>6. Lasting
    BY <1>1, <2>4, <2>5 DEF Lasting
  <2> QED BY <2>3, <2>6
<1>4. CASE ReserveAnswered
  <2>1. UNCHANGED placed
    BY <1>4 DEF ReserveAnswered, saleVars
  <2>2. reserving' = NoCall \/ (reserving.at = "held" /\ reserving' = [reserving EXCEPT !.at = "order"])
    BY <1>4 DEF ReserveAnswered, ReservationFailed, Held, AlreadyPending
  <2>3. reserving.at = "held" => [reserving EXCEPT !.at = "order"] \in Reserving
    BY DEF NoCall, Reserving
  <2> QED BY <1>1, <2>1, <2>2, <2>3
<1>5. CASE Ordered
  BY <1>1, <1>5 DEF Ordered, Enter, saleVars
<1> QED BY <1>2, <1>3, <1>4, <1>5

LEMMA OrdersLast == ASSUME OrdersPlaced, [MapNext]_mapVars PROVE Lasting /\ OrdersPlaced'
<1> USE DEF OrdersPlaced
<1>1. UNCHANGED placed => Lasting
  BY DEF Lasting
<1>2. CASE Elsewhere
  <2>1. \/ UNCHANGED placed \/ \E i \in DOMAIN placed : CloseOrder(i)
        \/ \E S \in SUBSET Seats : placed' = Append(placed, [seats |-> S, unpaid |-> TRUE])
    BY <1>2 DEF Elsewhere, Others, HoldLapses, OrderSwept, OrderElsewhere, OrderEnds, StopSelling
  <2>2. UNCHANGED reserving
    BY <1>2 DEF Elsewhere, Others, HoldLapses, OrderSwept, OrderElsewhere, OrderEnds, StopSelling, callVars
  <2>3. \A S \in SUBSET Seats :
           placed' = Append(placed, [seats |-> S, unpaid |-> TRUE]) => Lasting
    <3>1. \A S \in SUBSET Seats : [seats |-> S, unpaid |-> TRUE] \in Order
      BY DEF Order
    <3> QED BY <3>1 DEF Lasting
  <2>4. Lasting
    BY <1>1, <2>1, <2>3, ClosedIsLasting
  <2> QED BY <2>2, <2>4 DEF Lasting
<1>3. CASE Requests
  <2>1. UNCHANGED placed
    BY <1>3 DEF Requests, Reserve, Release, CancelBlockingOrder, FocusMap, TryAgain,
                ReloadMap, Enter, saleVars
  <2>2. UNCHANGED reserving \/ reserving' = [at |-> "hold", seats |-> Selected]
    BY <1>3 DEF Requests, Reserve, Release, CancelBlockingOrder, FocusMap, TryAgain,
                ReloadMap, callVars
  <2>3. Selected \subseteq Seats
    BY DEF Selected, Available
  <2> QED BY <2>1, <2>2, <2>3 DEF Reserving, Lasting
<1>4. CASE HoldDecided \/ OrderDecided \/ ReserveAnswered \/ Ordered
  <2>1. Lasting /\ reserving' \in {NoCall} \cup Reserving
    BY <1>4, AnswersKeepPlaced
  <2> QED BY <2>1 DEF Lasting
<1>5. CASE BlockerCancelDecided
  <2>1. UNCHANGED placed \/ CloseOrder(cancelling.order)
    BY <1>5 DEF BlockerCancelDecided
  <2>2. UNCHANGED reserving
    BY <1>5 DEF BlockerCancelDecided
  <2>3. Lasting
    BY <1>1, <2>1, ClosedIsLasting
  <2> QED BY <2>2, <2>3 DEF Lasting
<1>6. CASE \/ ReleaseDecided \/ ReleaseAnswered \/ BlockerCancelAnswered
           \/ ReadSeats \/ SeatsFetched \/ ReadOrders \/ OrdersFetched
           \/ Deliver \/ Missed \/ SalesChecked
           \/ (\E s \in Seats : PressSeat(s) \/ RemoveSeat(s))
           \/ UNCHANGED mapVars
  <2>1. UNCHANGED <<placed, reserving>>
    BY <1>6 DEF ReleaseDecided, ReleaseAnswered, BlockerCancelAnswered, ReadSeats, SeatsFetched,
                ReadOrders, OrdersFetched, Deliver, Missed, SalesChecked, PressSeat,
                RemoveSeat, Toggle, saleVars, callVars, mapVars
  <2> QED BY <1>1, <2>1
<1> QED BY <1>2, <1>3, <1>4, <1>5, <1>6 DEF MapNext, Answers

-----------------------------------------------------------------------------
(* Lists stay older                                                         *)

LEMMA OlderLasts ==
    ASSUME NEW orders, Older(orders), placed \in Seq(Order), Lasting
    PROVE  /\ orders \in Seq(Order)
           /\ Len(orders) <= Len(placed')
           /\ \A i \in 1 .. Len(orders) : orders[i].seats = placed'[i].seats
BY DEF Older, Lasting

\* What the page lists was listed before, or is about to be, or is read now.
LEMMA ListsComeFromOrders ==
    ASSUME [MapNext]_mapVars
    PROVE  /\ \/ myOrders' \in {myOrders, Nothing}
              \/ ordersFetch.at = "read" /\ myOrders' = ordersFetch.orders
           /\ \/ ordersFetch' = ordersFetch \/ ordersFetch'.at # "read"
              \/ ordersFetch' = [at |-> "read", orders |-> placed] /\ UNCHANGED placed
<1>0. NoCall.at # "read" /\ Asked.at # "read" /\ Failed.at # "read"
  BY DEF NoCall, Asked, Failed
<1> HIDE DEF NoCall, Asked, Failed
<1>1. CASE Elsewhere
  BY <1>1 DEF Elsewhere, Others, HoldLapses, OrderSwept, OrderElsewhere, OrderEnds, StopSelling, fetchVars
<1>2. CASE Requests
  BY <1>0, <1>2 DEF Requests, Reserve, Release, CancelBlockingOrder, FocusMap, TryAgain,
                    ReloadMap, Enter, fetchVars
<1>3. CASE HoldDecided \/ OrderDecided \/ ReleaseDecided \/ BlockerCancelDecided
  BY <1>3 DEF HoldDecided, OrderDecided, ReleaseDecided, BlockerCancelDecided, fetchVars
<1>4. CASE ReserveAnswered
  BY <1>0, <1>4 DEF ReserveAnswered, ReservationFailed, Held, AlreadyPending,
                    ShowBlockingOrder, RefetchOrders
<1>5. CASE Ordered \/ ReleaseAnswered \/ BlockerCancelAnswered
  BY <1>0, <1>5 DEF Ordered, Enter, ReleaseAnswered, BlockerCancelAnswered, ShowBlockingOrder,
                    RefetchOrders
<1>6. CASE ReadSeats \/ SeatsFetched \/ Deliver \/ Missed \/ SalesChecked
  BY <1>6 DEF ReadSeats, SeatsFetched, Deliver, Missed, SalesChecked, fetchVars
<1>7. CASE ReadOrders
  BY <1>0, <1>7 DEF ReadOrders, saleVars
<1>8. CASE OrdersFetched
  BY <1>0, <1>8 DEF OrdersFetched
<1>9. CASE (\E s \in Seats : PressSeat(s) \/ RemoveSeat(s)) \/ UNCHANGED mapVars
  BY <1>9 DEF PressSeat, RemoveSeat, Toggle, fetchVars, mapVars
<1> QED BY <1>1, <1>2, <1>3, <1>4, <1>5, <1>6, <1>7, <1>8, <1>9 DEF MapNext, Answers

LEMMA MapStepKeepsInv == MapInv /\ [MapNext]_mapVars => MapInv'
<1> SUFFICES ASSUME MapInv, [MapNext]_mapVars PROVE MapInv'
  OBVIOUS
<1> USE DEF MapInv
<1>1. Lasting /\ OrdersPlaced' /\ placed \in Seq(Order)
  BY OrdersLast DEF OrdersPlaced
<1>2. \A orders : Older(orders) => Older(orders)'
  BY <1>1, OlderLasts DEF Older
<1>3. Older(placed)
  BY <1>1 DEF Older
<1>4. myOrders' # Nothing => Older(myOrders)'
  BY <1>1, ListsComeFromOrders, OlderLasts DEF ListsAreOlder, Older
<1>5. ordersFetch'.at = "read" => Older(ordersFetch.orders)'
  BY <1>1, <1>3, ListsComeFromOrders, OlderLasts DEF ListsAreOlder, Older
<1> QED BY <1>1, <1>4, <1>5 DEF ListsAreOlder

-----------------------------------------------------------------------------
\* An earlier visit's orders are over one seat each.
LEMMA SeatsInOrder ==
    /\ SetToSeq(Seats) \in [1 .. Cardinality(Seats) -> Seats]
    /\ Cardinality(Seats) \in Nat
<1>1. IsFiniteSet(Seats)
  BY SeatMapAssumption DEF SeatMapAssumption
<1>2. Cardinality(Seats) \in Nat /\ ExistsBijection(1 .. Cardinality(Seats), Seats)
  BY <1>1, FS_CardinalityType
<1>3. \E f \in [1 .. Cardinality(Seats) -> Seats] : IsInjective(f)
  BY <1>2 DEF ExistsBijection, Bijection, Injection
<1> QED BY <1>2, <1>3 DEF SetToSeq

LEMMA MapStarts == MapInit => MapInv
<1> SUFFICES ASSUME MapInit PROVE MapInv
  OBVIOUS
<1>1. placed \in Seq(Order)
  <2>1. CASE placed = <<>>
    BY <2>1
  <2>2. CASE placed = [i \in 1 .. Cardinality(Seats) |-> [seats |-> {SetToSeq(Seats)[i]}, unpaid |-> TRUE]]
    <3>1. \A i \in 1 .. Cardinality(Seats) : [seats |-> {SetToSeq(Seats)[i]}, unpaid |-> TRUE] \in Order
      BY SeatsInOrder DEF Order
    <3>2. placed \in [1 .. Cardinality(Seats) -> Order]
      BY <2>2, <3>1
    <3> QED BY <3>2, SeatsInOrder
  <2> QED BY <2>1, <2>2 DEF MapInit
<1> QED BY <1>1 DEF MapInit, MapInv, OrdersPlaced, ListsAreOlder, NoCall

LEMMA MapInvariance == MapSpec => []MapInv
BY MapStarts, MapStepKeepsInv, PTL DEF MapSpec

-----------------------------------------------------------------------------
\* Only pressing the button begins a cancellation.
LEMMA PressedToCancel ==
    ASSUME MapNext, cancelling = NoCall, cancelling' # NoCall
    PROVE  CancelBlockingOrder
<1>1. NoCall.at # "asked"
  BY DEF NoCall
<1> HIDE DEF NoCall
<1>2. ~BlockerCancelDecided
  BY <1>1 DEF BlockerCancelDecided
<1>3. UNCHANGED cancelling \/ cancelling' = NoCall \/ CancelBlockingOrder
  BY <1>2 DEF MapNext, Elsewhere, Others, HoldLapses, OrderSwept, OrderElsewhere, OrderEnds, StopSelling, Requests,
              Reserve, Release, FocusMap, TryAgain, ReloadMap, Answers, HoldDecided,
              OrderDecided, ReleaseDecided, ReserveAnswered, Ordered, ReleaseAnswered,
              BlockerCancelAnswered, ReadSeats, SeatsFetched, ReadOrders, OrdersFetched,
              Deliver, Missed, SalesChecked, PressSeat, RemoveSeat, Toggle,
              callVars
<1> QED BY <1>3

\* However old the list of orders on the page is, the order it offers to cancel
\* locks a seat the refusal named, as far as the service itself can tell: a good
\* order is not destroyed without freeing one.
THEOREM RightOrderIsCancelled == MapSpec => CancelsTheBlocker
<1>1. MapInv /\ [MapNext]_mapVars =>
        [cancelling = NoCall /\ cancelling' # NoCall /\ blocked # {}
           => placed[cancelling'.order].seats \cap blocked # {}]_mapVars
  <2> SUFFICES ASSUME MapInv, MapNext, cancelling = NoCall, cancelling' # NoCall, blocked # {}
               PROVE  placed[cancelling'.order].seats \cap blocked # {}
    OBVIOUS
  <2>1. CancelBlockingOrder
    BY PressedToCancel
  <2> DEFINE i == BlockingOrder
  <2>2. i # 0 /\ cancelling'.order = i
    BY <2>1 DEF CancelBlockingOrder
  <2>3. myOrders # Nothing /\ i = FindPendingOrder(myOrders, blocked)
    BY <2>2 DEF BlockingOrder
  <2>4. Older(myOrders)
    BY <2>3 DEF MapInv, ListsAreOlder
  <2>5. i \in PendingOrders(myOrders, blocked)
    BY <2>2, <2>3, <2>4, FoundIsPending DEF Older
  <2>6. i \in 1 .. Len(myOrders) /\ myOrders[i].seats \cap blocked # {}
    BY <2>4, <2>5 DEF PendingOrders, Older
  <2> HIDE DEF i
  <2>7. placed[i].seats = myOrders[i].seats
    BY <2>4, <2>6 DEF Older
  <2> QED BY <2>2, <2>6, <2>7
<1> QED BY <1>1, MapInvariance, PTL DEF MapSpec, CancelsTheBlocker
-----------------------------------------------------------------------------
(***************************************************************************)
(* The types of the seat map.  The order being cancelled is one of those    *)
(* placed, because the list it was found in is an older one.                *)
(***************************************************************************)
SaleTyped ==
    /\ seat \in [Seats -> SeatState] /\ topic \in Seq(Broadcast) /\ Len(topic) <= MaxTopic
    /\ onSale \in BOOLEAN /\ salesOpen \in BOOLEAN
    /\ theirs \subseteq Seats

ViewTyped ==
    /\ cache \in {Nothing} \cup [Seats -> SeatState]
    /\ seatsFetch \in {NoCall, Asked, Failed} \cup SeatsRead
    /\ ordersFetch \in {NoCall, Asked, Failed} \cup OrdersRead
    /\ picked \in {Nothing} \cup SUBSET Seats
    /\ holdExpiry \in BOOLEAN
    /\ blocked \in {Nothing} \cup SUBSET Seats

CancelTyped ==
    cancelling \in {NoCall} \cup [at: {"asked", "done", "failed"}, order: 1 .. Len(placed)]

CallsTyped ==
    /\ releasing \in {NoCall, Asked, Failed, [at |-> "done"]} \cup ReleaseBlocked
    /\ elsewhere \in 0 .. MaxElsewhere /\ asked \in 0 .. MaxAsked

FewOrders == Len(placed) <= MaxOrders

MapTyped == MapInv /\ FewOrders /\ SaleTyped /\ ViewTyped /\ CallsTyped /\ CancelTyped

LEMMA BecomesTyped ==
    ASSUME SaleTyped, NEW S \in SUBSET Seats, NEW status \in SeatState, NEW told \in {"open", "held", "sold"},
           Becomes(S, status, told)
    PROVE  seat' \in [Seats -> SeatState] /\ topic' \in Seq(Broadcast) /\ Len(topic') <= MaxTopic
<1>1. seat' \in [Seats -> SeatState]
  BY DEF Becomes, SaleTyped
<1>2. [seats |-> S, status |-> told] \in Broadcast
  BY DEF Broadcast
<1>3. topic' = topic \/ (Len(topic) < MaxTopic /\ topic' = Append(topic, [seats |-> S, status |-> told]))
  BY DEF Becomes
<1>4. topic \in Seq(Broadcast) /\ Len(topic) \in Nat /\ Len(topic) <= MaxTopic /\ MaxTopic \in Nat
  BY SeatMapAssumption DEF SaleTyped, SeatMapAssumption
<1> QED BY <1>1, <1>2, <1>3, <1>4

LEMMA HeardTyped ==
    ASSUME SaleTyped, topic # <<>>
    PROVE  Tail(topic) \in Seq(Broadcast) /\ Len(Tail(topic)) <= MaxTopic /\ Head(topic) \in Broadcast
<1>1. topic \in Seq(Broadcast) /\ Len(topic) <= MaxTopic /\ MaxTopic \in Nat
  BY SeatMapAssumption DEF SaleTyped, SeatMapAssumption
<1> QED BY <1>1

\* Whose seats an order has, and which of them are still held.
LEMMA OrderSeats == ASSUME OrdersPlaced, NEW i \in DOMAIN placed PROVE placed[i].seats \subseteq Seats
<1>1. placed[i] \in Order
  BY DEF OrdersPlaced
<1> QED BY <1>1 DEF Order

LEMMA SeatsMove ==
    ASSUME MapTyped, [MapNext]_mapVars
    PROVE  \/ UNCHANGED seat /\ topic' \in {topic, <<>>}
           \/ UNCHANGED seat /\ topic # <<>> /\ topic' = Tail(topic)
           \/ \E S \in SUBSET Seats, status \in SeatState, told \in {"open", "held", "sold"} : Becomes(S, status, told)
<1>1. OrdersPlaced
  BY DEF MapTyped, MapInv
<1>2. CASE Elsewhere
  <2>1. ASSUME NEW s \in Seats, Others(s) \/ HoldLapses(s)
        PROVE  \E S \in SUBSET Seats, status \in SeatState, told \in {"open", "held", "sold"} : Becomes(S, status, told)
    <3>1. \E status \in {"open", "held", "sold"} : Becomes({s}, status, status)
      BY <2>1 DEF Others, HoldLapses
    <3>2. {s} \in SUBSET Seats /\ {"open", "held", "sold"} \subseteq SeatState
      BY DEF SeatState
    <3> HIDE DEF Becomes
    <3> QED BY <3>1, <3>2
  <2>2. ASSUME NEW i \in DOMAIN placed, OrderEnds(i)
        PROVE  \E S \in SUBSET Seats, status \in SeatState, told \in {"open", "held", "sold"} : Becomes(S, status, told)
    <3>1. placed[i].seats \in SUBSET Seats /\ StillHeld(placed[i].seats) \in SUBSET Seats
      BY <1>1, OrderSeats DEF StillHeld
    <3>2. Becomes(StillHeld(placed[i].seats), "open", "open") \/ Becomes(placed[i].seats, "sold", "sold")
      BY <2>2 DEF OrderEnds
    <3>3. "open" \in SeatState /\ "sold" \in SeatState
      BY DEF SeatState
    <3> HIDE DEF Becomes
    <3> QED BY <3>1, <3>2, <3>3
  <2>3. StopSelling \/ (\E s \in Seats : OrderSwept(s)) \/ (\E S \in SUBSET Seats : OrderElsewhere(S))
        => UNCHANGED <<seat, topic>>
    BY DEF StopSelling, OrderSwept, OrderElsewhere
  <2> QED BY <1>2, <2>1, <2>2, <2>3 DEF Elsewhere
<1>3. CASE HoldDecided
  <2>1. reserving.seats \in SUBSET Seats
    BY <1>1, <1>3 DEF OrdersPlaced, HoldDecided, NoCall, Reserving
  <2>2. UNCHANGED <<seat, topic>> \/ Becomes(reserving.seats, "mine", "held")
    BY <1>3 DEF HoldDecided
  <2>3. "mine" \in SeatState
    BY DEF SeatState
  <2> HIDE DEF Becomes
  <2> QED BY <2>1, <2>2, <2>3
<1>4. CASE ReleaseDecided
  <2>1. StillHeld(Seats) \in SUBSET Seats /\ "open" \in SeatState
    BY DEF StillHeld, SeatState
  <2>2. UNCHANGED <<seat, topic>> \/ Becomes(StillHeld(Seats), "open", "open")
    BY <1>4 DEF ReleaseDecided
  <2> HIDE DEF Becomes, StillHeld
  <2> QED BY <2>1, <2>2
<1>5. CASE BlockerCancelDecided
  <2>1. cancelling.order \in 1 .. Len(placed)
    BY <1>5 DEF BlockerCancelDecided, MapTyped, CancelTyped, NoCall
  <2>2. StillHeld(placed[cancelling.order].seats) \in SUBSET Seats /\ "open" \in SeatState
    BY <1>1, <2>1, OrderSeats DEF StillHeld, SeatState, OrdersPlaced
  <2>3. UNCHANGED <<seat, topic>> \/ Becomes(StillHeld(placed[cancelling.order].seats), "open", "open")
    BY <1>5 DEF BlockerCancelDecided
  <2> HIDE DEF Becomes, StillHeld
  <2> QED BY <2>2, <2>3
<1>6. CASE Requests \/ Ordered
  BY <1>6 DEF Requests, Reserve, Release, CancelBlockingOrder, FocusMap, TryAgain, ReloadMap, Ordered, Enter,
              saleVars
<1>7. CASE Deliver \/ Missed
  BY <1>7 DEF Deliver, Missed, saleVars
<1>8. CASE \/ OrderDecided \/ ReserveAnswered \/ ReleaseAnswered \/ BlockerCancelAnswered
           \/ ReadSeats \/ SeatsFetched \/ ReadOrders \/ OrdersFetched \/ SalesChecked
           \/ (\E s \in Seats : PressSeat(s) \/ RemoveSeat(s)) \/ UNCHANGED mapVars
  BY <1>8 DEF OrderDecided, ReserveAnswered, ReleaseAnswered, BlockerCancelAnswered, ReadSeats, SeatsFetched,
              ReadOrders, OrdersFetched, SalesChecked, PressSeat, RemoveSeat, Toggle, saleVars, mapVars
<1> QED BY <1>2, <1>3, <1>4, <1>5, <1>6, <1>7, <1>8 DEF MapNext, Answers

\* Nobody puts an event back on sale, and the page learns of it as it is.
LEMMA SalesMove ==
    ASSUME [MapNext]_mapVars
    PROVE  onSale' \in {onSale, FALSE} /\ salesOpen' \in {salesOpen, onSale}
<1>1. CASE Elsewhere
  BY <1>1 DEF Elsewhere, Others, HoldLapses, OrderSwept, OrderElsewhere, OrderEnds, StopSelling
<1>2. CASE Requests \/ Ordered
  BY <1>2 DEF Requests, Reserve, Release, CancelBlockingOrder, FocusMap, TryAgain, ReloadMap, Ordered, Enter,
              saleVars
<1>3. CASE \/ HoldDecided \/ OrderDecided \/ ReleaseDecided \/ BlockerCancelDecided
           \/ ReserveAnswered \/ ReleaseAnswered \/ BlockerCancelAnswered
  BY <1>3 DEF HoldDecided, OrderDecided, ReleaseDecided, BlockerCancelDecided, ReserveAnswered, ReleaseAnswered,
              BlockerCancelAnswered, saleVars
<1>4. CASE \/ ReadSeats \/ SeatsFetched \/ ReadOrders \/ OrdersFetched \/ Deliver \/ Missed \/ SalesChecked
           \/ (\E s \in Seats : PressSeat(s) \/ RemoveSeat(s)) \/ UNCHANGED mapVars
  BY <1>4 DEF ReadSeats, SeatsFetched, ReadOrders, OrdersFetched, Deliver, Missed, SalesChecked, PressSeat,
              RemoveSeat, Toggle, saleVars, mapVars
<1> QED BY <1>1, <1>2, <1>3, <1>4 DEF MapNext, Answers

\* A stranger's order is over the seat he let go of.
LEMMA TheirsMove ==
    ASSUME [MapNext]_mapVars
    PROVE  theirs' \subseteq theirs \/ \E s \in Seats : theirs' \subseteq theirs \cup {s}
<1>1. CASE Elsewhere
  BY <1>1 DEF Elsewhere, Others, HoldLapses, OrderSwept, OrderElsewhere, OrderEnds, StopSelling
<1>2. CASE Requests \/ Ordered
  BY <1>2 DEF Requests, Reserve, Release, CancelBlockingOrder, FocusMap, TryAgain, ReloadMap, Ordered, Enter,
              saleVars
<1>3. CASE \/ HoldDecided \/ OrderDecided \/ ReleaseDecided \/ BlockerCancelDecided
           \/ ReserveAnswered \/ ReleaseAnswered \/ BlockerCancelAnswered
  BY <1>3 DEF HoldDecided, OrderDecided, ReleaseDecided, BlockerCancelDecided, ReserveAnswered, ReleaseAnswered,
              BlockerCancelAnswered, saleVars
<1>4. CASE \/ ReadSeats \/ SeatsFetched \/ ReadOrders \/ OrdersFetched \/ Deliver \/ Missed \/ SalesChecked
           \/ (\E s \in Seats : PressSeat(s) \/ RemoveSeat(s)) \/ UNCHANGED mapVars
  BY <1>4 DEF ReadSeats, SeatsFetched, ReadOrders, OrdersFetched, Deliver, Missed, SalesChecked, PressSeat,
              RemoveSeat, Toggle, saleVars, mapVars
<1> QED BY <1>1, <1>2, <1>3, <1>4 DEF MapNext, Answers

LEMMA SaleKeepsTypes == ASSUME MapTyped, [MapNext]_mapVars PROVE SaleTyped'
<1>1. SaleTyped
  BY DEF MapTyped
<1>2. onSale' \in BOOLEAN /\ salesOpen' \in BOOLEAN
  BY <1>1, SalesMove DEF SaleTyped
<1>3. <<>> \in Seq(Broadcast) /\ Len(<<>>) <= MaxTopic
  BY SeatMapAssumption DEF SeatMapAssumption
<1>4. seat' \in [Seats -> SeatState] /\ topic' \in Seq(Broadcast) /\ Len(topic') <= MaxTopic
  BY <1>1, <1>3, SeatsMove, BecomesTyped, HeardTyped DEF SaleTyped
<1>5. theirs' \subseteq Seats
  BY <1>1, TheirsMove DEF SaleTyped
<1> QED BY <1>2, <1>4, <1>5 DEF SaleTyped

\* An order is placed only while there is room for one.
LEMMA OrdersStayFew == ASSUME MapTyped, [MapNext]_mapVars PROVE FewOrders'
<1>1. placed \in Seq(Order) /\ MaxOrders \in Nat
  BY SeatMapAssumption DEF MapTyped, MapInv, OrdersPlaced, SeatMapAssumption
<1>2. \/ UNCHANGED placed \/ \E i : CloseOrder(i)
      \/ Len(placed) < MaxOrders /\ \E o : placed' = Append(placed, o)
  <2>1. CASE Elsewhere
    BY <2>1 DEF Elsewhere, Others, HoldLapses, OrderSwept, OrderElsewhere, OrderEnds, StopSelling
  <2>2. CASE Requests \/ Ordered
    BY <2>2 DEF Requests, Reserve, Release, CancelBlockingOrder, FocusMap, TryAgain, ReloadMap, Ordered, Enter,
                saleVars
  <2>3. CASE \/ HoldDecided \/ OrderDecided \/ ReleaseDecided \/ BlockerCancelDecided
             \/ ReserveAnswered \/ ReleaseAnswered \/ BlockerCancelAnswered
    BY <2>3 DEF HoldDecided, OrderDecided, ReleaseDecided, BlockerCancelDecided, ReserveAnswered, ReleaseAnswered,
                BlockerCancelAnswered, saleVars
  <2>4. CASE \/ ReadSeats \/ SeatsFetched \/ ReadOrders \/ OrdersFetched \/ Deliver \/ Missed \/ SalesChecked
             \/ (\E s \in Seats : PressSeat(s) \/ RemoveSeat(s)) \/ UNCHANGED mapVars
    BY <2>4 DEF ReadSeats, SeatsFetched, ReadOrders, OrdersFetched, Deliver, Missed, SalesChecked, PressSeat,
                RemoveSeat, Toggle, saleVars, mapVars
  <2> QED BY <2>1, <2>2, <2>3, <2>4 DEF MapNext, Answers
<1>3. ASSUME NEW o, Len(placed) < MaxOrders, placed' = Append(placed, o) PROVE FewOrders'
  <2>1. Len(placed') = Len(placed) + 1
    BY <1>1, <1>3
  <2> QED BY <1>1, <1>3, <2>1 DEF FewOrders
<1>4. Len(placed') = Len(placed) => FewOrders'
  BY DEF MapTyped, FewOrders
<1> QED BY <1>1, <1>2, <1>3, <1>4, ClosedIsLasting

\* Who asks for a cancellation asks for an order that is there.
LEMMA CancelStaysTyped == ASSUME MapTyped, [MapNext]_mapVars PROVE CancelTyped'
<1>1. Lasting /\ placed \in Seq(Order)
  BY OrdersLast DEF MapTyped, MapInv, OrdersPlaced
<1>2. Len(placed) \in Nat /\ Len(placed') \in Nat /\ 1 .. Len(placed) \subseteq 1 .. Len(placed')
  BY <1>1 DEF Lasting
<1>3. CASE CancelBlockingOrder
  <2> DEFINE i == BlockingOrder
  <2>1. i # 0 /\ cancelling' = [at |-> "asked", order |-> i]
    BY <1>3 DEF CancelBlockingOrder
  <2>2. myOrders # Nothing /\ i = FindPendingOrder(myOrders, blocked)
    BY <2>1 DEF BlockingOrder
  <2>3. Older(myOrders)
    BY <2>2 DEF MapTyped, MapInv, ListsAreOlder
  <2>4. i \in PendingOrders(myOrders, blocked)
    BY <2>1, <2>2, <2>3, FoundIsPending DEF Older
  <2>5. i \in 1 .. Len(placed)
    BY <1>2, <2>3, <2>4 DEF PendingOrders, Older
  <2> HIDE DEF i
  <2> QED BY <1>2, <2>1, <2>5 DEF CancelTyped
<1>4. CASE BlockerCancelDecided
  <2>1. cancelling \in [at: {"asked", "done", "failed"}, order: 1 .. Len(placed)]
    BY <1>4 DEF BlockerCancelDecided, MapTyped, CancelTyped, NoCall
  <2>2. cancelling' \in {[cancelling EXCEPT !.at = at] : at \in {"done", "failed"}}
    BY <1>4 DEF BlockerCancelDecided
  <2> QED BY <1>2, <2>1, <2>2 DEF CancelTyped
<1>5. UNCHANGED cancelling \/ cancelling' = NoCall => CancelTyped'
  BY <1>2 DEF MapTyped, CancelTyped
<1>6. UNCHANGED cancelling \/ cancelling' = NoCall \/ CancelBlockingOrder \/ BlockerCancelDecided
  <2>1. CASE Elsewhere \/ Requests
    BY <2>1 DEF Elsewhere, Others, HoldLapses, OrderSwept, OrderElsewhere, OrderEnds, StopSelling, Requests, Reserve, Release, FocusMap,
                TryAgain, ReloadMap, callVars
  <2>2. CASE Answers \/ UNCHANGED mapVars
    BY <2>2 DEF Answers, HoldDecided, OrderDecided, ReleaseDecided, ReserveAnswered, Ordered, ReleaseAnswered,
                BlockerCancelAnswered, ReadSeats, SeatsFetched, ReadOrders, OrdersFetched, Deliver, Missed,
                SalesChecked, PressSeat, RemoveSeat, Toggle, callVars, mapVars
  <2> QED BY <2>1, <2>2 DEF MapNext
<1> QED BY <1>3, <1>4, <1>5, <1>6

LEMMA CallsKeepTypes == ASSUME MapTyped, [MapNext]_mapVars PROVE CallsTyped'
<1>1. counts' \in (0 .. MaxElsewhere) \X (0 .. MaxAsked)
  <2>1. CASE Elsewhere
    BY <2>1, SeatMapAssumption DEF Elsewhere, MapTyped, CallsTyped, counts, SeatMapAssumption
  <2>2. CASE Requests
    BY <2>2, SeatMapAssumption DEF Requests, MapTyped, CallsTyped, counts, SeatMapAssumption
  <2>3. CASE Answers \/ UNCHANGED mapVars
    BY <2>3 DEF Answers, mapVars, MapTyped, CallsTyped, counts
  <2> QED BY <2>1, <2>2, <2>3 DEF MapNext
<1>2. releasing' \in {NoCall, Asked, Failed, [at |-> "done"]} \cup ReleaseBlocked
  <2>1. CASE ReleaseDecided
    <3>1. StillHeld(Seats) \cap Locked \in SUBSET Seats
      BY DEF StillHeld
    <3>2. \/ releasing' \in {[at |-> "done"], Failed}
          \/ releasing' = [at |-> "blocked", seats |-> StillHeld(Seats) \cap Locked]
      BY <2>1 DEF ReleaseDecided
    <3> QED BY <3>1, <3>2 DEF ReleaseBlocked
  <2>2. UNCHANGED releasing \/ releasing' \in {NoCall, Asked} \/ ReleaseDecided
    <3>1. CASE Elsewhere \/ Requests
      BY <3>1 DEF Elsewhere, Others, HoldLapses, OrderSwept, OrderElsewhere, OrderEnds, StopSelling, Requests, Reserve, Release,
                  CancelBlockingOrder, FocusMap, TryAgain, ReloadMap, callVars
    <3>2. CASE Answers \/ UNCHANGED mapVars
      BY <3>2 DEF Answers, HoldDecided, OrderDecided, BlockerCancelDecided, ReserveAnswered, Ordered,
                  ReleaseAnswered, BlockerCancelAnswered, ReadSeats, SeatsFetched, ReadOrders, OrdersFetched, Deliver,
                  Missed, SalesChecked, PressSeat, RemoveSeat, Toggle, callVars, mapVars
    <3> QED BY <3>1, <3>2 DEF MapNext
  <2> QED BY <2>1, <2>2 DEF MapTyped, CallsTyped
<1> QED BY <1>1, <1>2 DEF CallsTyped, counts

\* What the page shows is an answer, or what a broadcast says.
LEMMA CacheStaysTyped ==
    ASSUME MapTyped, [MapNext]_mapVars
    PROVE  cache' \in {Nothing} \cup [Seats -> SeatState] /\ seatsFetch' \in {NoCall, Asked, Failed} \cup SeatsRead
<1> DEFINE Cached == cache \in {Nothing} \cup [Seats -> SeatState]
           Fetching == seatsFetch \in {NoCall, Asked, Failed} \cup SeatsRead
<1>1. Cached /\ Fetching
  BY DEF MapTyped, ViewTyped
<1>2. CASE Deliver
  <2>1. Head(topic) \in Broadcast
    BY <1>2, HeardTyped DEF MapTyped, Deliver
  <2>2. \A s \in Seats : cache \in [Seats -> SeatState] => Merged(Head(topic), s) \in SeatState
    BY <2>1 DEF Merged, Broadcast, SeatState
  <2>3. cache' = IF cache = Nothing THEN Nothing ELSE [s \in Seats |-> Merged(Head(topic), s)]
    BY <1>2 DEF Deliver
  <2>4. UNCHANGED seatsFetch
    BY <1>2 DEF Deliver, fetchVars
  <2> HIDE DEF Merged
  <2> QED BY <1>1, <2>2, <2>3, <2>4
<1>3. CASE ReadSeats
  <2>1. [at |-> "read", seats |-> seat] \in SeatsRead
    BY DEF MapTyped, SaleTyped, SeatsRead
  <2> QED BY <1>1, <1>3, <2>1 DEF ReadSeats
<1>4. CASE SeatsFetched
  <2>1. seatsFetch \in SeatsRead
    BY <1>1, <1>4 DEF SeatsFetched, NoCall, Asked, Failed
  <2> QED BY <1>4, <2>1 DEF SeatsFetched, SeatsRead
<1>5. \/ Deliver \/ ReadSeats \/ SeatsFetched
      \/ cache' \in {cache, Nothing} /\ seatsFetch' \in {seatsFetch, Asked}
  <2>1. CASE Elsewhere \/ Requests
    BY <2>1 DEF Elsewhere, Others, HoldLapses, OrderSwept, OrderElsewhere, OrderEnds, StopSelling, Requests, Reserve, Release,
                CancelBlockingOrder, FocusMap, TryAgain, ReloadMap, Enter, RefetchSeats, fetchVars
  <2>2. CASE \/ HoldDecided \/ OrderDecided \/ ReleaseDecided \/ BlockerCancelDecided
             \/ ReserveAnswered \/ Ordered \/ ReleaseAnswered \/ BlockerCancelAnswered
    BY <2>2 DEF HoldDecided, OrderDecided, ReleaseDecided, BlockerCancelDecided, ReserveAnswered,
                ReservationFailed, Held, AlreadyPending, Ordered, Enter, ReleaseAnswered,
                BlockerCancelAnswered, RefetchSeats, fetchVars
  <2>3. CASE \/ ReadOrders \/ OrdersFetched \/ Missed \/ SalesChecked
             \/ (\E s \in Seats : PressSeat(s) \/ RemoveSeat(s)) \/ UNCHANGED mapVars
    BY <2>3 DEF ReadOrders, OrdersFetched, Missed, SalesChecked, PressSeat, RemoveSeat, Toggle, fetchVars, mapVars
  <2> QED BY <2>1, <2>2, <2>3 DEF MapNext, Answers
<1> QED BY <1>1, <1>2, <1>3, <1>4, <1>5

LEMMA ListsStayTyped ==
    ASSUME MapTyped, [MapNext]_mapVars
    PROVE  ordersFetch' \in {NoCall, Asked, Failed} \cup OrdersRead
<1>1. ordersFetch \in {NoCall, Asked, Failed} \cup OrdersRead /\ placed \in Seq(Order)
  BY DEF MapTyped, ViewTyped, MapInv, OrdersPlaced
<1>2. CASE ReadOrders
  BY <1>1, <1>2 DEF ReadOrders, OrdersRead
<1>3. ReadOrders \/ ordersFetch' \in {ordersFetch, NoCall, Asked}
  <2>1. CASE Elsewhere \/ Requests
    BY <2>1 DEF Elsewhere, Others, HoldLapses, OrderSwept, OrderElsewhere, OrderEnds, StopSelling, Requests, Reserve, Release,
                CancelBlockingOrder, FocusMap, TryAgain, ReloadMap, Enter, fetchVars
  <2>2. CASE \/ HoldDecided \/ OrderDecided \/ ReleaseDecided \/ BlockerCancelDecided
             \/ ReserveAnswered \/ Ordered \/ ReleaseAnswered \/ BlockerCancelAnswered
    BY <2>2 DEF HoldDecided, OrderDecided, ReleaseDecided, BlockerCancelDecided, ReserveAnswered,
                ReservationFailed, Held, AlreadyPending, Ordered, Enter, ReleaseAnswered, BlockerCancelAnswered,
                ShowBlockingOrder, RefetchOrders, fetchVars
  <2>3. CASE \/ ReadSeats \/ SeatsFetched \/ OrdersFetched \/ Deliver \/ Missed \/ SalesChecked
             \/ (\E s \in Seats : PressSeat(s) \/ RemoveSeat(s)) \/ UNCHANGED mapVars
    BY <2>3 DEF ReadSeats, SeatsFetched, OrdersFetched, Deliver, Missed, SalesChecked, PressSeat, RemoveSeat,
                Toggle, fetchVars, mapVars
  <2> QED BY <2>1, <2>2, <2>3 DEF MapNext, Answers
<1> QED BY <1>1, <1>2, <1>3

\* A refusal names seats of the map, and only those are picked.
LEMMA PicksStayTyped ==
    ASSUME MapTyped, [MapNext]_mapVars
    PROVE  /\ picked' \in {Nothing} \cup SUBSET Seats /\ blocked' \in {Nothing} \cup SUBSET Seats
           /\ holdExpiry' \in BOOLEAN
<1>1. picked \in {Nothing} \cup SUBSET Seats /\ blocked \in {Nothing} \cup SUBSET Seats /\ holdExpiry \in BOOLEAN
  BY DEF MapTyped, ViewTyped
<1>2. CASE ReserveAnswered
  <2>1. reserving.at = "covered" => reserving.seats \in SUBSET Seats
    BY DEF MapTyped, MapInv, OrdersPlaced, NoCall, Reserving
  <2>2. UNCHANGED picked /\ holdExpiry' \in {holdExpiry, TRUE}
        /\ (UNCHANGED blocked \/ (reserving.at = "covered" /\ blocked' = reserving.seats))
    BY <1>2 DEF ReserveAnswered, ReservationFailed, Held, AlreadyPending, ShowBlockingOrder, pickVars
  <2> QED BY <1>1, <2>1, <2>2
<1>3. CASE ReleaseAnswered
  <2>1. releasing.at = "blocked" => releasing.seats \in SUBSET Seats
    BY DEF MapTyped, CallsTyped, NoCall, Asked, Failed, ReleaseBlocked
  <2>2. picked' \in {picked, {}} /\ holdExpiry' \in {holdExpiry, FALSE}
        /\ (blocked' \in {blocked, Nothing} \/ (releasing.at = "blocked" /\ blocked' = releasing.seats))
    BY <1>3 DEF ReleaseAnswered, ShowBlockingOrder, pickVars
  <2> QED BY <1>1, <2>1, <2>2
<1>4. CASE \E s \in Seats : PressSeat(s) \/ RemoveSeat(s)
  <2>1. PICK s \in Seats : Toggle(s)
    BY <1>4 DEF PressSeat, RemoveSeat
  <2>2. Selected \in SUBSET Seats
    BY DEF Selected, Available
  <2>3. picked' \in {Selected \ {s}, Selected \cup {s}} /\ UNCHANGED <<blocked, holdExpiry>>
    BY <2>1 DEF Toggle
  <2> HIDE DEF Selected
  <2> QED BY <1>1, <2>2, <2>3
<1>5. \/ ReserveAnswered \/ ReleaseAnswered \/ \E s \in Seats : PressSeat(s) \/ RemoveSeat(s)
      \/ picked' \in {picked, Nothing} /\ blocked' \in {blocked, Nothing} /\ holdExpiry' \in {holdExpiry, FALSE}
  <2>1. CASE Elsewhere \/ Requests
    BY <2>1 DEF Elsewhere, Others, HoldLapses, OrderSwept, OrderElsewhere, OrderEnds, StopSelling, Requests, Reserve, Release,
                CancelBlockingOrder, FocusMap, TryAgain, ReloadMap, Enter, pickVars
  <2>2. CASE \/ HoldDecided \/ OrderDecided \/ ReleaseDecided \/ BlockerCancelDecided \/ Ordered
             \/ BlockerCancelAnswered
    BY <2>2 DEF HoldDecided, OrderDecided, ReleaseDecided, BlockerCancelDecided, Ordered, Enter,
                BlockerCancelAnswered, pickVars
  <2>3. CASE \/ ReadSeats \/ SeatsFetched \/ ReadOrders \/ OrdersFetched \/ Deliver \/ Missed \/ SalesChecked
             \/ UNCHANGED mapVars
    BY <2>3 DEF ReadSeats, SeatsFetched, ReadOrders, OrdersFetched, Deliver, Missed, SalesChecked, pickVars, mapVars
  <2> QED BY <2>1, <2>2, <2>3 DEF MapNext, Answers
<1> QED BY <1>1, <1>2, <1>3, <1>4, <1>5

LEMMA MapKeepsTypes == MapTyped /\ [MapNext]_mapVars => MapTyped'
<1> SUFFICES ASSUME MapTyped, [MapNext]_mapVars PROVE MapTyped'
  OBVIOUS
<1>1. MapInv'
  BY MapStepKeepsInv DEF MapTyped
<1>2. ViewTyped'
  BY CacheStaysTyped, ListsStayTyped, PicksStayTyped DEF ViewTyped
<1> QED BY <1>1, <1>2, SaleKeepsTypes, OrdersStayFew, CallsKeepTypes, CancelStaysTyped DEF MapTyped

\* Whatever is said of the seats, the map, the lists and the calls under way stay
\* what their types say; an order that is being cancelled is one of those placed.
THEOREM MapTyping == MapSpec => []MapTypeOK
<1>1. MapInit => MapTyped
  <2> SUFFICES ASSUME MapInit PROVE MapTyped
    OBVIOUS
  <2>1. MapInv
    BY MapStarts
  <2>2. FewOrders
    <3>1. Cardinality(Seats) \in Nat /\ Cardinality(Seats) <= MaxOrders /\ MaxOrders \in Nat
      BY SeatsInOrder, SeatMapAssumption DEF SeatMapAssumption
    <3>2. placed \in Seq(Order) /\ (placed = <<>> \/ DOMAIN placed = 1 .. Cardinality(Seats))
      BY <2>1 DEF MapInit, MapInv, OrdersPlaced
    <3> QED BY <3>1, <3>2 DEF FewOrders
  <2>3. SaleTyped
    <3>1. MaxTopic \in Nat /\ <<>> \in Seq(Broadcast) /\ Len(<<>>) = 0
      BY SeatMapAssumption DEF SeatMapAssumption
    <3>2. seat \in [Seats -> SeatState]
      BY DEF MapInit, SeatState
    <3>3. theirs \subseteq Seats
      BY DEF MapInit
    <3> QED BY <3>1, <3>2, <3>3 DEF MapInit, SaleTyped
  <2>4. ViewTyped /\ CancelTyped
    BY DEF MapInit, ViewTyped, CancelTyped
  <2>5. CallsTyped
    BY SeatMapAssumption DEF MapInit, CallsTyped, SeatMapAssumption
  <2> QED BY <2>1, <2>2, <2>3, <2>4, <2>5 DEF MapTyped
<1>2. MapTyped => MapTypeOK
  <2> SUFFICES ASSUME MapTyped PROVE MapTypeOK
    OBVIOUS
  <2>1. myOrders \in {Nothing} \cup Seq(Order)
    BY DEF MapTyped, MapInv, ListsAreOlder, Older
  <2>2. cancelling \in {NoCall} \cup Cancelling
    <3>1. Len(placed) \in Nat /\ Len(placed) <= MaxOrders /\ MaxOrders \in Nat
      BY SeatMapAssumption DEF MapTyped, MapInv, OrdersPlaced, FewOrders, SeatMapAssumption
    <3>2. 1 .. Len(placed) \subseteq 1 .. MaxOrders
      BY <3>1
    <3> QED BY <3>2 DEF MapTyped, CancelTyped, Cancelling
  <2> QED BY <2>1, <2>2 DEF MapTyped, MapInv, OrdersPlaced, FewOrders, SaleTyped, ViewTyped, CallsTyped, MapTypeOK
<1> QED BY <1>1, <1>2, MapKeepsTypes, PTL DEF MapSpec
=============================================================================
