------------------------- MODULE EventDeliveryProofs -------------------------
(***************************************************************************)
(* Theorems about EventDelivery for any events, relays, listeners, batches, *)
(* attempts and crashes.                                                    *)
(*                                                                         *)
(* No row is in the hands of two relays, so a batch that commits decides    *)
(* about rows that are still pending.  What it decided while the broker     *)
(* already had the message stays true until it commits, because a message   *)
(* only ever moves: from a queue to a listener, and from there back, to the *)
(* dead-letter queue, or into processed_events.                             *)
(***************************************************************************)
EXTENDS EventDelivery, WellFoundedInduction, TLAPS

USE DeliveryAssumption

-----------------------------------------------------------------------------
(* Rows and batches                                                         *)

\* The rows whose locks the relay's transaction holds.
Claimed(r) == relay[r].todo \cup Marked(r)

BatchesApart ==
    /\ \A r \in Relays : \A e \in Claimed(r) : row[e] = "pending"
    /\ \A r, s \in Relays : r # s => Claimed(r) \cap Claimed(s) = {}

\* A row that may still be sent has an attempt left.
AttemptsLeft == \A e \in Events : row[e] \in {"none", "pending"} => attempts[e] < MaxAttempts

BatchInv == TypeOK /\ BatchesApart /\ AttemptsLeft

\* The message of an event is somewhere, or has been dealt with.
Accounted(e) == e \in processed \/ InHand(e) \/ queued[e] > 0 \/ deadLetters[e] > 0

\* What a batch will mark published is, before it commits, what PublishedIsNotLost
\* says of it afterwards.
MarkedIsNotLost == \A r \in Relays, e \in MustRoute :
    relay[r].marks[e] = "published" => Accounted(e)

\* A listener about to commit has sent its mail.
DoneWasMailed == \A c \in Consumers :
    consumer[c].at = "done" /\ consumer[c].event \in Mailing => mailed[consumer[c].event] > 0

-----------------------------------------------------------------------------
\* Counting one more copy, or one more mail.
OneMore(f, e) == [f EXCEPT ![e] = @ + 1]

LEMMA CountUp ==
    ASSUME NEW f \in [Events -> Nat], NEW e \in Events
    PROVE  /\ OneMore(f, e) \in [Events -> Nat] /\ OneMore(f, e)[e] > 0
           /\ \A x \in Events : OneMore(f, e)[x] >= f[x]
BY DEF OneMore

\* Numbers have a least.
LEMMA Least ==
    ASSUME NEW S, S \subseteq Nat, S # {}
    PROVE  \E x \in S : \A y \in S : x <= y
<1>1. PICK x \in S : \A y \in S : ~(<<y, x>> \in OpToRel(<, Nat))
  BY NatLessThanWellFounded, WFMin
<1>2. \A y \in S : <<y, x>> \in Nat \X Nat
  OBVIOUS
<1>3. \A y \in S : ~(y < x)
  BY <1>1, <1>2, Zenon DEF OpToRel
<1> QED BY <1>3

\* A relay that has claimed rows publishes one of them, the oldest.
LEMMA OldestIsClaimed ==
    ASSUME TypeOK, NEW r \in Relays, relay[r].todo # {}
    PROVE  (CHOOSE x \in relay[r].todo : \A f \in relay[r].todo : x <= f) \in relay[r].todo
<1>1. relay[r].todo \subseteq Nat
  BY DEF TypeOK
<1> QED BY <1>1, Least

\* A relay sends e, which the broker may take and may confirm.
PublishedAs(r, e, taken, acked) ==
    /\ acked => taken
    /\ queued' = IF taken /\ bound THEN [queued EXCEPT ![e] = @ + 1] ELSE queued
    /\ relay' = [relay EXCEPT ![r].todo = @ \ {e},
                              ![r].marks[e] = IF Sent(e, acked, bound) THEN "published" ELSE "failed"]
    /\ UNCHANGED <<outboxVars, bound, deadLetters, mailVars, crashes>>

\* What one relay publishes: an event of its batch, and what it marks it.
LEMMA PublishedOne ==
    ASSUME TypeOK, NEW r \in Relays, Publish(r)
    PROVE  \E e \in relay[r].todo , taken, acked \in BOOLEAN : PublishedAs(r, e, taken, acked)
<1> DEFINE e == CHOOSE x \in relay[r].todo : \A f \in relay[r].todo : x <= f
<1>1. e \in relay[r].todo
  BY OldestIsClaimed DEF Publish
<1>2. \E taken, acked \in BOOLEAN : PublishedAs(r, e, taken, acked)
  BY DEF Publish, PublishedAs
<1> HIDE DEF e
<1> QED BY <1>1, <1>2

-----------------------------------------------------------------------------
(* Batches keep apart                                                       *)

LEMMA ClaimKeepsBatches ==
    ASSUME BatchInv, NEW r \in Relays, ClaimBatch(r)
    PROVE  BatchInv'
<1> USE DEF BatchInv
<1> DEFINE batch == {e \in Claimable : Cardinality({f \in Claimable : f < e}) < BatchSize}
<1>1. /\ relay' = [relay EXCEPT ![r].todo = batch]
      /\ UNCHANGED <<outboxVars, brokerVars, mailVars, crashes>>
  BY DEF ClaimBatch
<1>2. batch \subseteq Events /\ \A e \in batch : row[e] = "pending" /\ e \notin Locked
  BY DEF Claimable
<1> HIDE DEF batch
<1>3. TypeOK'
  BY <1>1, <1>2 DEF TypeOK, outboxVars, brokerVars, mailVars
<1>4. \A s \in Relays : Claimed(s)' = IF s = r THEN batch ELSE Claimed(s)
  <2>1. \A s \in Relays \ {r} : relay'[s] = relay[s]
    BY <1>1 DEF TypeOK
  <2>2. relay'[r].todo = batch /\ \A e \in Events : relay'[r].marks[e] = "none"
    BY <1>1 DEF ClaimBatch, TypeOK, Resting
  <2> QED BY <2>1, <2>2 DEF Claimed, Marked
<1>5. \A s \in Relays : Claimed(s) \subseteq Locked
  BY DEF Claimed, Locked
<1>6. BatchesApart'
  BY <1>1, <1>2, <1>4, <1>5 DEF BatchesApart, outboxVars
<1> QED BY <1>1, <1>3, <1>6 DEF AttemptsLeft, outboxVars

LEMMA PublishKeepsBatches ==
    ASSUME BatchInv, NEW r \in Relays, Publish(r)
    PROVE  BatchInv'
<1> USE DEF BatchInv
<1>0. PICK e \in relay[r].todo, taken, acked \in BOOLEAN : PublishedAs(r, e, taken, acked)
  BY PublishedOne
<1>1. /\ queued' = IF taken /\ bound THEN [queued EXCEPT ![e] = @ + 1] ELSE queued
      /\ relay' = [relay EXCEPT ![r].todo = @ \ {e},
                                ![r].marks[e] = IF Sent(e, acked, bound) THEN "published" ELSE "failed"]
      /\ UNCHANGED <<outboxVars, bound, deadLetters, mailVars, crashes>>
  BY <1>0 DEF PublishedAs
<1>2. TypeOK'
  <2>1. e \in Events
    BY DEF TypeOK
  <2>2. queued' \in [Events -> Nat]
    BY <1>1, <2>1 DEF TypeOK
  <2>3. relay' \in [Relays -> [todo: SUBSET Events, marks: [Events -> Mark]]]
    <3> DEFINE batch == [todo: SUBSET Events, marks: [Events -> Mark]]
               mark == IF Sent(e, acked, bound) THEN "published" ELSE "failed"
    <3>1. relay \in [Relays -> batch] /\ mark \in Mark
      BY DEF TypeOK, Mark
    <3>2. relay' = [relay EXCEPT ![r].todo = @ \ {e}, ![r].marks[e] = mark]
      BY <1>1
    <3> HIDE DEF mark, BatchInv
    <3> QED BY <2>1, <3>1, <3>2
  <2> QED BY <1>1, <2>2, <2>3 DEF TypeOK, outboxVars, mailVars
<1>3. \A s \in Relays : Claimed(s)' = Claimed(s)
  BY <1>1 DEF Claimed, Marked, TypeOK
<1> QED BY <1>1, <1>2, <1>3 DEF BatchesApart, AttemptsLeft, outboxVars

\* A batch decides about pending rows only, and those of no other batch.
LEMMA CommitKeepsBatches ==
    ASSUME BatchInv, NEW r \in Relays, CommitBatch(r)
    PROVE  BatchInv'
<1> USE DEF BatchInv
<1> DEFINE m == relay[r].marks
<1>1. /\ row' = [e \in Events |-> CASE m[e] = "published" -> "published"
                                    [] m[e] = "failed" -> Failed(e)
                                    [] OTHER -> row[e]]
      /\ attempts' = [e \in Events |-> IF m[e] = "failed" THEN attempts[e] + 1 ELSE attempts[e]]
      /\ backedOff' = [e \in Events |-> backedOff[e] \/ m[e] = "failed"]
      /\ relay' = [relay EXCEPT ![r] = Resting]
      /\ UNCHANGED <<brokerVars, mailVars, crashes>>
  BY DEF CommitBatch
<1>2. m \in [Events -> Mark]
  BY DEF TypeOK
<1>3. \A e \in Events : m[e] # "none" => e \in Claimed(r) /\ row[e] = "pending" /\ attempts[e] < MaxAttempts
  BY DEF Claimed, Marked, BatchesApart, AttemptsLeft
<1> HIDE DEF m
<1>4. \A e \in Events :
         /\ row'[e] \in {"none", "pending", "published", "dead"}
         /\ attempts'[e] \in 0 .. MaxAttempts /\ backedOff'[e] \in BOOLEAN
         /\ row'[e] \in {"none", "pending"} => attempts'[e] < MaxAttempts
  <2> SUFFICES ASSUME NEW e \in Events
               PROVE  /\ row'[e] \in {"none", "pending", "published", "dead"}
                      /\ attempts'[e] \in 0 .. MaxAttempts /\ backedOff'[e] \in BOOLEAN
                      /\ row'[e] \in {"none", "pending"} => attempts'[e] < MaxAttempts
    OBVIOUS
  <2>0. attempts[e] \in 0 .. MaxAttempts /\ row[e] \in {"none", "pending", "published", "dead"}
        /\ backedOff[e] \in BOOLEAN /\ m[e] \in Mark
    BY <1>2 DEF TypeOK
  <2>1. backedOff'[e] \in BOOLEAN
    BY <1>1
  <2>2. CASE m[e] = "published"
    BY <1>1, <2>0, <2>1, <2>2
  <2>3. CASE m[e] = "failed"
    BY <1>1, <1>3, <2>0, <2>1, <2>3 DEF Failed
  <2>4. CASE m[e] = "none"
    BY <1>1, <2>0, <2>1, <2>4 DEF AttemptsLeft
  <2> QED BY <2>0, <2>2, <2>3, <2>4 DEF Mark
<1>5. TypeOK'
  <2>1. relay' \in [Relays -> [todo: SUBSET Events, marks: [Events -> Mark]]]
    BY <1>1 DEF TypeOK, Resting, Mark
  <2> QED BY <1>1, <1>4, <2>1 DEF TypeOK, brokerVars, mailVars
<1>6. AttemptsLeft'
  BY <1>4 DEF AttemptsLeft
<1>7. \A s \in Relays : Claimed(s)' = IF s = r THEN {} ELSE Claimed(s)
  BY <1>1 DEF Claimed, Marked, Resting, TypeOK
<1>8. ASSUME NEW s \in Relays, s # r, NEW e \in Claimed(s) PROVE row'[e] = "pending"
  <2>1. e \in Events /\ row[e] = "pending" /\ e \notin Claimed(r)
    BY <1>8 DEF BatchesApart, Claimed, Marked, TypeOK
  <2> QED BY <1>1, <1>3, <2>1
<1>9. BatchesApart'
  BY <1>7, <1>8 DEF BatchesApart
<1> QED BY <1>5, <1>6, <1>9

\* The other steps leave the rows of every batch alone.
LEMMA OthersKeepBatches ==
    ASSUME BatchInv,
           \/ \E e \in Events : Append(e) \/ BackoffPasses(e)
           \/ \E r \in Relays : RelayCrashes(r)
           \/ DeclareQueues
    PROVE  BatchInv'
<1> USE DEF BatchInv
<1>1. ASSUME NEW e \in Events, Append(e) PROVE BatchInv'
  <2>1. TypeOK' /\ AttemptsLeft'
    BY <1>1 DEF Append, TypeOK, AttemptsLeft, brokerVars, mailVars
  <2>2. \A s \in Relays : Claimed(s)' = Claimed(s) /\ e \notin Claimed(s)
    BY <1>1 DEF Append, Claimed, Marked, BatchesApart
  <2>3. \A f \in Events : row[f] = "pending" => row'[f] = "pending"
    BY <1>1 DEF Append, TypeOK
  <2>4. \A s \in Relays : Claimed(s) \subseteq Events
    BY DEF Claimed, Marked, TypeOK
  <2>5. BatchesApart'
    BY <2>2, <2>3, <2>4 DEF BatchesApart
  <2> QED BY <2>1, <2>5
<1>2. ASSUME NEW e \in Events, BackoffPasses(e) PROVE BatchInv'
  BY <1>2 DEF BackoffPasses, TypeOK, AttemptsLeft, BatchesApart, Claimed, Marked, brokerVars, mailVars
<1>3. ASSUME NEW r \in Relays, RelayCrashes(r) PROVE BatchInv'
  <2>1. TypeOK'
    BY <1>3 DEF RelayCrashes, Crash, Resting, Mark, TypeOK, outboxVars, brokerVars, mailVars
  <2>2. \A s \in Relays : Claimed(s)' \subseteq Claimed(s)
    BY <1>3 DEF RelayCrashes, Claimed, Marked, Resting, TypeOK
  <2>3. BatchesApart' /\ AttemptsLeft'
    BY <1>3, <2>2 DEF RelayCrashes, BatchesApart, AttemptsLeft, outboxVars
  <2> QED BY <2>1, <2>3
<1>4. CASE DeclareQueues
  BY <1>4 DEF DeclareQueues, TypeOK, AttemptsLeft, BatchesApart, Claimed, Marked, outboxVars, mailVars
<1> QED BY <1>1, <1>2, <1>3, <1>4

\* A listener touches no row of the outbox.
LEMMA ListenersKeepBatches ==
    ASSUME BatchInv, NEW c \in Consumers, ConsumerStep(c) \/ ConsumerCrashes(c)
    PROVE  BatchInv'
<1> USE DEF BatchInv
<1> DEFINE task == [at: {"received", "claimed", "done"}, event: Events, tries: 1 .. MaxTries]
<1>1. UNCHANGED <<outboxVars, relay, bound>>
  BY DEF ConsumerStep, Receive, ClaimEvent, RunAction, CommitClaim, Fail, ConsumerCrashes, outboxVars,
         brokerVars
<1>2. BatchesApart' /\ AttemptsLeft'
  <2>1. \A r \in Relays : Claimed(r)' = Claimed(r)
    BY <1>1 DEF Claimed, Marked
  <2>2. row' = row /\ attempts' = attempts
    BY <1>1 DEF outboxVars
  <2> QED BY <2>1, <2>2 DEF BatchesApart, AttemptsLeft
<1>3. consumer[c] = Waiting \/ consumer[c] \in task
  BY DEF TypeOK
<1>4. ASSUME NEW state \in {Waiting} \cup task, Becomes(c, state)
      PROVE  consumer' \in [Consumers -> {Waiting} \cup task]
  BY <1>4 DEF Becomes, TypeOK
<1>5. Waiting.at = "waiting"
  BY DEF Waiting
<1>6. ASSUME NEW e \in Events, Receive(c, e) PROVE TypeOK'
  <2>1. [at |-> "received", event |-> e, tries |-> 1] \in task /\ queued[e] - 1 \in Nat
    BY <1>6 DEF Receive, TypeOK
  <2>2. consumer' \in [Consumers -> {Waiting} \cup task] /\ queued' \in [Events -> Nat]
    BY <1>4, <1>6, <2>1 DEF Receive, TypeOK
  <2> QED BY <1>1, <1>6, <2>2 DEF Receive, TypeOK, outboxVars
<1>7. CASE ClaimEvent(c)
  <2>1. consumer[c] \in task /\ [consumer[c] EXCEPT !.at = "claimed"] \in task
    BY <1>3, <1>5, <1>7 DEF ClaimEvent
  <2>2. consumer' \in [Consumers -> {Waiting} \cup task]
    BY <1>4, <1>7, <2>1 DEF ClaimEvent
  <2>3. TypeOK'
    BY <1>1, <1>7, <2>2 DEF ClaimEvent, TypeOK, outboxVars, brokerVars
  <2> QED BY <1>2, <2>3
<1>8. CASE RunAction(c)
  <2>1. consumer[c] \in task /\ [consumer[c] EXCEPT !.at = "done"] \in task
    BY <1>3, <1>5, <1>8 DEF RunAction
  <2>2. consumer' \in [Consumers -> {Waiting} \cup task]
    BY <1>4, <1>8, <2>1 DEF RunAction
  <2>3. mailed' \in [Events -> Nat]
    BY <1>8, <2>1 DEF RunAction, TypeOK
  <2>4. TypeOK'
    BY <1>1, <1>8, <2>2, <2>3 DEF RunAction, TypeOK, outboxVars, brokerVars
  <2> QED BY <1>2, <2>4
<1>9. CASE CommitClaim(c)
  <2>1. consumer[c] \in task
    BY <1>3, <1>5, <1>9 DEF CommitClaim, ActionDone
  <2>2. consumer' \in [Consumers -> {Waiting} \cup task]
    BY <1>4, <1>9 DEF CommitClaim
  <2>3. TypeOK'
    BY <1>1, <1>9, <2>1, <2>2 DEF CommitClaim, TypeOK, outboxVars, brokerVars
  <2> QED BY <1>2, <2>3
<1>10. CASE Fail(c)
  <2>1. consumer[c] \in task
    BY <1>3, <1>10 DEF Fail
  <2>2. CASE consumer[c].tries < MaxTries
    <3>1. [at |-> "received", event |-> consumer[c].event, tries |-> consumer[c].tries + 1] \in task
      BY <2>1, <2>2
    <3>2. consumer' \in [Consumers -> {Waiting} \cup task] /\ UNCHANGED deadLetters
      BY <1>4, <1>10, <2>2, <3>1 DEF Fail
    <3> QED BY <1>1, <1>2, <1>10, <3>2 DEF Fail, TypeOK, outboxVars
  <2>3. CASE ~(consumer[c].tries < MaxTries)
    <3>1. consumer' \in [Consumers -> {Waiting} \cup task]
      BY <1>4, <1>10, <2>3 DEF Fail
    <3>2. deadLetters' \in [Events -> Nat]
      BY <1>10, <2>1, <2>3 DEF Fail, TypeOK
    <3> QED BY <1>1, <1>2, <1>10, <3>1, <3>2 DEF Fail, TypeOK, outboxVars
  <2> QED BY <2>2, <2>3
<1>11. CASE ConsumerCrashes(c)
  <2>1. consumer[c] \in task
    BY <1>3, <1>11 DEF ConsumerCrashes
  <2>2. consumer' \in [Consumers -> {Waiting} \cup task]
    BY <1>4, <1>11 DEF ConsumerCrashes
  <2>5. queued' \in [Events -> Nat]
    <3>1. consumer[c].event \in Events
      BY <2>1
    <3>2. queued' = OneMore(queued, consumer[c].event)
      BY <1>11 DEF ConsumerCrashes, OneMore
    <3>3. queued \in [Events -> Nat]
      BY DEF TypeOK
    <3> QED BY <3>1, <3>2, <3>3, CountUp
  <2>3. crashes' \in 0 .. MaxCrashes
    BY <1>11 DEF ConsumerCrashes, Crash, TypeOK
  <2>4. TypeOK'
    BY <1>1, <1>11, <2>2, <2>3, <2>5 DEF ConsumerCrashes, TypeOK, outboxVars
  <2> QED BY <1>2, <2>4
<1> QED BY <1>2, <1>6, <1>7, <1>8, <1>9, <1>10, <1>11 DEF ConsumerStep

LEMMA InitialBatches == ASSUME Init PROVE BatchInv
<1>1. TypeOK
  <2>1. Resting \in [todo: SUBSET Events, marks: [Events -> Mark]]
    BY DEF Resting, Mark
  <2>2. attempts \in [Events -> 0 .. MaxAttempts] /\ crashes \in 0 .. MaxCrashes
    BY DEF Init, DeliveryAssumption
  <2>3. relay \in [Relays -> [todo: SUBSET Events, marks: [Events -> Mark]]]
    BY <2>1 DEF Init
  <2>4. consumer \in [Consumers -> {Waiting} \cup
           [at: {"received", "claimed", "done"}, event: Events, tries: 1 .. MaxTries]]
    BY DEF Init
  <2> QED BY <2>2, <2>3, <2>4 DEF Init, TypeOK
<1>2. \A r \in Relays : Claimed(r) = {}
  BY DEF Init, Claimed, Marked, Resting
<1> QED BY <1>1, <1>2 DEF Init, BatchInv, BatchesApart, AttemptsLeft

LEMMA BatchInvariance == Spec => []BatchInv
<1>1. Init => BatchInv
  BY InitialBatches
<1>2. BatchInv /\ [Next]_vars => BatchInv'
  <2> SUFFICES ASSUME BatchInv, [Next]_vars PROVE BatchInv'
    OBVIOUS
  <2>1. CASE UNCHANGED vars
    BY <2>1 DEF BatchInv, TypeOK, BatchesApart, AttemptsLeft, Claimed, Marked, vars, outboxVars, brokerVars,
                mailVars
  <2> QED BY <2>1, ClaimKeepsBatches, PublishKeepsBatches, CommitKeepsBatches, OthersKeepBatches,
             ListenersKeepBatches DEF Next, RelayStep
<1> QED BY <1>1, <1>2, PTL DEF Spec

\* Rows, batches, queues and listeners stay well formed: no row is tried more often
\* than app.outbox.max-attempts, whichever relay claims it next.
THEOREM Typing == Spec => []TypeOK
BY BatchInvariance, PTL DEF BatchInv

-----------------------------------------------------------------------------
(* No message is lost                                                       *)

\* Whatever a step does with an event's message, it is still accounted for.
LEMMA StaysAccounted ==
    ASSUME TypeOK, TypeOK', [Next]_vars, NEW e \in Events, Accounted(e)
    PROVE  Accounted(e)'
<1> USE DEF Accounted
<1>1. CASE UNCHANGED mailVars /\ UNCHANGED <<queued, deadLetters>>
  BY <1>1 DEF InHand, mailVars
<1>2. ASSUME NEW r \in Relays, Publish(r) PROVE Accounted(e)'
  <2>1. queued' = queued \/ \E f \in Events : queued' = OneMore(queued, f)
    <3>1. relay[r].todo \subseteq Events
      BY DEF TypeOK
    <3> QED BY <1>2, <3>1, PublishedOne DEF PublishedAs, OneMore
  <2>2. queued'[e] >= queued[e] /\ queued[e] \in Nat /\ queued'[e] \in Nat
    BY <2>1, CountUp DEF TypeOK
  <2>3. UNCHANGED <<mailVars, deadLetters>>
    BY <1>2 DEF Publish
  <2>4. InHand(e)' <=> InHand(e)
    BY <2>3 DEF InHand, mailVars
  <2>5. processed' = processed /\ deadLetters' = deadLetters
    BY <2>3 DEF mailVars
  <2>6. CASE queued[e] > 0
    BY <2>2, <2>6
  <2>7. CASE e \in processed \/ InHand(e) \/ deadLetters[e] > 0
    BY <2>4, <2>5, <2>7
  <2> QED BY <2>6, <2>7
<1>3. ASSUME NEW c \in Consumers, NEW f \in Events, Receive(c, f) PROVE Accounted(e)'
  <2>1. \A d \in Consumers : d # c => consumer'[d] = consumer[d]
    BY <1>3 DEF Receive, Becomes, TypeOK
  <2>2. consumer[c] = Waiting /\ consumer'[c] # Waiting /\ consumer'[c].event = f
    BY <1>3 DEF Receive, Becomes, Waiting, TypeOK
  <2>3. InHand(e) => InHand(e)'
    BY <2>1, <2>2 DEF InHand
  <2>4. CASE e = f
    BY <2>2, <2>4 DEF InHand
  <2>5. CASE e # f
    BY <1>3, <2>3, <2>5 DEF Receive, TypeOK
  <2> QED BY <2>4, <2>5
<1>4. ASSUME NEW c \in Consumers, consumer[c] # Waiting,
             \A d \in Consumers : d # c => consumer'[d] = consumer[d],
             \A f \in Events : queued'[f] >= queued[f] /\ deadLetters'[f] >= deadLetters[f],
             processed \subseteq processed',
             \/ consumer'[c] # Waiting /\ consumer'[c].event = consumer[c].event
             \/ consumer[c].event \in processed'
             \/ queued'[consumer[c].event] > 0
             \/ deadLetters'[consumer[c].event] > 0
      PROVE  Accounted(e)'
  <2>1. queued'[e] >= queued[e] /\ deadLetters'[e] >= deadLetters[e]
    BY <1>4
  <2>2. e \in processed => e \in processed'
    BY <1>4
  <2>3. {queued[e], deadLetters[e], queued'[e], deadLetters'[e]} \subseteq Nat
    BY <1>4 DEF TypeOK
  <2>4. ASSUME NEW d \in Consumers, consumer[d] # Waiting, consumer[d].event = e PROVE Accounted(e)'
    <3>1. CASE d = c
      BY <1>4, <2>4, <3>1 DEF InHand
    <3>2. CASE d # c
      BY <1>4, <2>4, <3>2 DEF InHand
    <3> QED BY <3>1, <3>2
  <2>5. CASE InHand(e)
    BY <2>4, <2>5 DEF InHand
  <2>6. CASE queued[e] > 0 \/ deadLetters[e] > 0
    BY <2>1, <2>3, <2>6
  <2> QED BY <2>2, <2>5, <2>6
<1>5. ASSUME NEW c \in Consumers,
             ClaimEvent(c) \/ RunAction(c) \/ CommitClaim(c) \/ Fail(c) \/ ConsumerCrashes(c)
      PROVE  Accounted(e)'
  <2>1. Waiting.at = "waiting"
    BY DEF Waiting
  <2>2. consumer[c] # Waiting
    BY <1>5, <2>1 DEF ClaimEvent, RunAction, CommitClaim, ActionDone, Fail, ConsumerCrashes
  <2>3. \A d \in Consumers : d # c => consumer'[d] = consumer[d]
    BY <1>5 DEF ClaimEvent, RunAction, CommitClaim, Fail, ConsumerCrashes, Becomes, TypeOK
  <2>4. consumer[c].event \in Events /\ consumer[c].at \in {"received", "claimed", "done"}
    BY <2>2 DEF TypeOK
  <2>5. processed \subseteq processed'
    BY <1>5 DEF ClaimEvent, RunAction, CommitClaim, Fail, ConsumerCrashes
  <2>6. \A f \in Events : queued'[f] >= queued[f] /\ deadLetters'[f] >= deadLetters[f]
    <3> DEFINE g == consumer[c].event
    <3>1. queued \in [Events -> Nat] /\ deadLetters \in [Events -> Nat]
      BY DEF TypeOK
    <3>2. ClaimEvent(c) \/ RunAction(c) \/ CommitClaim(c) => UNCHANGED <<queued, deadLetters>>
      BY DEF ClaimEvent, RunAction, CommitClaim, brokerVars
    <3>3. Fail(c) => UNCHANGED queued /\ (deadLetters' = deadLetters \/ deadLetters' = OneMore(deadLetters, g))
      BY Zenon DEF Fail, OneMore
    <3>4. ConsumerCrashes(c) => queued' = OneMore(queued, g) /\ UNCHANGED deadLetters
      BY DEF ConsumerCrashes, OneMore
    <3>5. /\ queued' = queued \/ queued' = OneMore(queued, g)
          /\ deadLetters' = deadLetters \/ deadLetters' = OneMore(deadLetters, g)
      BY <1>5, <3>2, <3>3, <3>4
    <3>6. \A f \in Events : OneMore(queued, g)[f] >= queued[f]
      BY <2>4, <3>1, CountUp
    <3>7. \A f \in Events : OneMore(deadLetters, g)[f] >= deadLetters[f]
      BY <2>4, <3>1, CountUp
    <3>8. \A f \in Events : queued[f] >= queued[f] /\ deadLetters[f] >= deadLetters[f]
      BY <3>1
    <3> HIDE DEF g
    <3>9. \A f \in Events : queued'[f] >= queued[f]
      BY <3>5, <3>6, <3>8
    <3>10. \A f \in Events : deadLetters'[f] >= deadLetters[f]
      BY <3>5, <3>7, <3>8
    <3> QED BY <3>9, <3>10
  <2> DEFINE f == consumer[c].event
  <2>7. ASSUME NEW at, at # "waiting", consumer' = [consumer EXCEPT ![c] = [@ EXCEPT !.at = at]]
        PROVE  consumer'[c] # Waiting /\ consumer'[c].event = f
    BY <2>1, <2>2, <2>7 DEF TypeOK
  <2>8. \/ consumer'[c] # Waiting /\ consumer'[c].event = f
        \/ f \in processed' \/ queued'[f] > 0 \/ deadLetters'[f] > 0
    <3>1. CASE ClaimEvent(c)
      BY <2>7, <3>1 DEF ClaimEvent, Becomes
    <3>2. CASE RunAction(c)
      BY <2>7, <3>2 DEF RunAction, Becomes
    <3>3. CASE CommitClaim(c)
      BY <3>3 DEF CommitClaim
    <3>4. CASE Fail(c)
      <4>1. CASE consumer[c].tries < MaxTries
        <5>1. consumer'[c] = [at |-> "received", event |-> f, tries |-> consumer[c].tries + 1]
          BY <3>4, <4>1 DEF Fail, Becomes, TypeOK
        <5> QED BY <2>1, <5>1
      <4>2. CASE ~(consumer[c].tries < MaxTries)
        <5>1. deadLetters' = OneMore(deadLetters, f) /\ deadLetters \in [Events -> Nat]
          BY <3>4, <4>2 DEF Fail, TypeOK, OneMore
        <5> QED BY <2>4, <5>1, CountUp
      <4> QED BY <4>1, <4>2
    <3>5. CASE ConsumerCrashes(c)
      <4>1. queued' = OneMore(queued, f) /\ queued \in [Events -> Nat]
        BY <3>5 DEF ConsumerCrashes, TypeOK, OneMore
      <4> QED BY <2>4, <4>1, CountUp
    <3> QED BY <1>5, <3>1, <3>2, <3>3, <3>4, <3>5
  <2> HIDE DEF f
  <2> QED BY <1>4, <2>2, <2>3, <2>5, <2>6, <2>8 DEF f
<1>6. ASSUME \/ \E f \in Events : Append(f) \/ BackoffPasses(f)
             \/ \E r \in Relays : ClaimBatch(r) \/ CommitBatch(r) \/ RelayCrashes(r)
             \/ DeclareQueues
             \/ UNCHANGED vars
      PROVE  Accounted(e)'
  <2>1. UNCHANGED mailVars /\ UNCHANGED <<queued, deadLetters>>
    BY <1>6 DEF Append, BackoffPasses, ClaimBatch, CommitBatch, RelayCrashes, DeclareQueues, vars, brokerVars
  <2> QED BY <1>1, <2>1
<1> HIDE DEF Accounted
<1> QED BY <1>2, <1>3, <1>5, <1>6 DEF Next, RelayStep, ConsumerStep

DeliveryInv == BatchInv /\ MarkedIsNotLost /\ PublishedIsNotLost

\* Until they commit, marks say of a message what the rows will; a mark is only
\* "published" if the broker had a queue to put the message in.
LEMMA StepKeepsMessages ==
    ASSUME DeliveryInv, [Next]_vars, BatchInv'
    PROVE  MarkedIsNotLost' /\ PublishedIsNotLost'
<1>1. \A e \in Events : Accounted(e) => Accounted(e)'
  BY StaysAccounted DEF DeliveryInv, BatchInv
<1>2. MustRoute \subseteq Events
  BY DEF DeliveryAssumption
<1>3. ASSUME NEW r \in Relays, Publish(r) PROVE MarkedIsNotLost' /\ PublishedIsNotLost'
  <2>0. PICK e \in relay[r].todo, taken, acked \in BOOLEAN : PublishedAs(r, e, taken, acked)
    BY <1>3, PublishedOne DEF DeliveryInv, BatchInv
  <2>1. /\ acked => taken
        /\ queued' = IF taken /\ bound THEN [queued EXCEPT ![e] = @ + 1] ELSE queued
        /\ relay' = [relay EXCEPT ![r].todo = @ \ {e},
                                  ![r].marks[e] = IF Sent(e, acked, bound) THEN "published" ELSE "failed"]
        /\ UNCHANGED <<outboxVars, bound, deadLetters, mailVars, crashes>>
    BY <2>0 DEF PublishedAs
  <2>2. e \in Events
    BY DEF DeliveryInv, BatchInv, TypeOK
  <2>3. e \in MustRoute /\ Sent(e, acked, bound) => queued'[e] > 0
    BY <2>1, <2>2 DEF Sent, DeliveryInv, BatchInv, TypeOK
  <2>4. ASSUME NEW s \in Relays, NEW f \in MustRoute, relay'[s].marks[f] = "published" PROVE Accounted(f)'
    <3>1. relay \in [Relays -> [todo: SUBSET Events, marks: [Events -> Mark]]]
      BY DEF DeliveryInv, BatchInv, TypeOK
    <3>2. CASE s = r /\ f = e
      BY <2>1, <2>2, <2>3, <2>4, <3>1, <3>2 DEF Accounted
    <3>3. CASE ~(s = r /\ f = e)
      <4>1. relay[s].marks[f] = "published"
        BY <2>1, <2>2, <2>4, <3>1, <3>3
      <4> QED BY <1>1, <1>2, <4>1 DEF DeliveryInv, MarkedIsNotLost
    <3> QED BY <3>2, <3>3
  <2>5. PublishedIsNotLost'
    BY <1>1, <1>2, <2>1 DEF DeliveryInv, PublishedIsNotLost, Accounted, outboxVars
  <2> QED BY <2>4, <2>5 DEF MarkedIsNotLost
<1>4. ASSUME NEW r \in Relays, CommitBatch(r) PROVE MarkedIsNotLost' /\ PublishedIsNotLost'
  <2>1. \A s \in Relays, e \in Events : relay'[s].marks[e] = "published" => relay[s].marks[e] = "published"
    BY <1>4 DEF CommitBatch, Resting, DeliveryInv, BatchInv, TypeOK
  <2>2. \A e \in Events : row'[e] = "published" => row[e] = "published" \/ relay[r].marks[e] = "published"
    BY <1>4 DEF CommitBatch, Failed
  <2> QED BY <1>1, <1>2, <2>1, <2>2 DEF DeliveryInv, MarkedIsNotLost, PublishedIsNotLost, Accounted
<1>5. ASSUME \A s \in Relays, e \in Events : relay'[s].marks[e] = "published" => relay[s].marks[e] = "published",
             \A e \in Events : row'[e] = "published" => row[e] = "published"
      PROVE  MarkedIsNotLost' /\ PublishedIsNotLost'
  BY <1>1, <1>2, <1>5 DEF DeliveryInv, MarkedIsNotLost, PublishedIsNotLost, Accounted
<1>6. ASSUME \/ \E e \in Events : Append(e) \/ BackoffPasses(e)
             \/ \E r \in Relays : ClaimBatch(r) \/ RelayCrashes(r)
             \/ \E c \in Consumers : ConsumerStep(c) \/ ConsumerCrashes(c)
             \/ DeclareQueues \/ UNCHANGED vars
      PROVE  /\ \A s \in Relays, e \in Events : relay'[s].marks[e] = "published" => relay[s].marks[e] = "published"
             /\ \A e \in Events : row'[e] = "published" => row[e] = "published"
  <2>1. CASE \E e \in Events : Append(e)
    BY <2>1 DEF Append, DeliveryInv, BatchInv, TypeOK
  <2>2. CASE \E r \in Relays : ClaimBatch(r)
    BY <2>2 DEF ClaimBatch, outboxVars, DeliveryInv, BatchInv, TypeOK
  <2>3. CASE \E r \in Relays : RelayCrashes(r)
    BY <2>3 DEF RelayCrashes, Resting, outboxVars, DeliveryInv, BatchInv, TypeOK
  <2>4. CASE \/ \E e \in Events : BackoffPasses(e)
             \/ \E c \in Consumers : ConsumerStep(c) \/ ConsumerCrashes(c)
             \/ DeclareQueues \/ UNCHANGED vars
    <3>1. UNCHANGED <<row, relay>>
      BY <2>4 DEF BackoffPasses, ConsumerStep, Receive, ClaimEvent, RunAction, CommitClaim, Fail, ConsumerCrashes,
                  DeclareQueues, vars, outboxVars
    <3> QED BY <3>1
  <2> QED BY <1>6, <2>1, <2>2, <2>3, <2>4
<1> QED BY <1>3, <1>4, <1>5, <1>6 DEF Next, RelayStep

LEMMA DeliveryInvariance == Spec => []DeliveryInv
<1>1. Init => DeliveryInv
  <2> SUFFICES ASSUME Init PROVE DeliveryInv
    OBVIOUS
  <2>1. BatchInv
    BY InitialBatches
  <2>2. MustRoute \subseteq Events
    BY DEF DeliveryAssumption
  <2> QED BY <2>1, <2>2 DEF Init, DeliveryInv, MarkedIsNotLost, PublishedIsNotLost, Resting
<1>2. DeliveryInv /\ BatchInv' /\ [Next]_vars => DeliveryInv'
  BY StepKeepsMessages DEF DeliveryInv
<1> QED BY <1>1, <1>2, BatchInvariance, PTL DEF Spec

\* An event whose row says it was published is in a queue, with a listener, among
\* the dead letters or recorded as processed, however often relays and listeners
\* crash, and whatever the broker confirmed.
THEOREM PublishedNotLost == Spec => []PublishedIsNotLost
BY DeliveryInvariance, PTL DEF DeliveryInv

-----------------------------------------------------------------------------
(* What is recorded as processed was mailed                                 *)

MailInv == TypeOK /\ DoneWasMailed /\ ProcessedWasMailed

LEMMA StepKeepsMails ==
    ASSUME MailInv, [Next]_vars, TypeOK'
    PROVE  MailInv'
<1> USE DEF MailInv
<1>0. Mailing \subseteq Events
  BY DEF DeliveryAssumption
<1>1. \A e \in Events : mailed'[e] >= mailed[e] /\ mailed[e] \in Nat /\ mailed'[e] \in Nat
  <2>1. CASE UNCHANGED mailed
    BY <2>1 DEF TypeOK
  <2>2. ASSUME NEW c \in Consumers, RunAction(c)
        PROVE  \A e \in Events : mailed'[e] >= mailed[e] /\ mailed[e] \in Nat /\ mailed'[e] \in Nat
    <3>1. mailed' = mailed \/ \E f \in Events : mailed' = OneMore(mailed, f)
      BY <1>0, <2>2 DEF RunAction, OneMore
    <3>2. mailed \in [Events -> Nat] /\ mailed' \in [Events -> Nat]
      BY DEF TypeOK
    <3> QED BY <3>1, <3>2, CountUp
  <2>3. UNCHANGED mailed \/ \E c \in Consumers : RunAction(c)
    BY DEF Next, RelayStep, ConsumerStep, Append, BackoffPasses, ClaimBatch, Publish, CommitBatch, RelayCrashes,
           DeclareQueues, Receive, ClaimEvent, CommitClaim, Fail, ConsumerCrashes, vars, mailVars
  <2> QED BY <2>1, <2>2, <2>3
<1>2. ASSUME NEW c \in Consumers, consumer'[c].at = "done", consumer'[c].event \in Mailing
      PROVE  mailed'[consumer'[c].event] > 0
  <2>1. CASE consumer'[c] = consumer[c]
    <3>1. consumer[c].event \in Events /\ mailed[consumer[c].event] > 0
      BY <1>0, <1>2, <2>1 DEF DoneWasMailed
    <3>2. \A n, m \in Nat : m >= n /\ n > 0 => m > 0
      OBVIOUS
    <3> QED BY <1>1, <2>1, <3>1, <3>2
  <2>2. CASE RunAction(c)
    <3>1. consumer'[c].event = consumer[c].event
      BY <2>2 DEF RunAction, Becomes, TypeOK
    <3>2. mailed' = OneMore(mailed, consumer[c].event)
      BY <1>2, <2>2, <3>1 DEF RunAction, OneMore
    <3>3. mailed \in [Events -> Nat] /\ consumer[c].event \in Events
      BY <1>0, <1>2, <3>1 DEF TypeOK
    <3> QED BY <3>1, <3>2, <3>3, CountUp
  <2>3. consumer'[c] = consumer[c] \/ RunAction(c)
    <3>1. ASSUME NEW d \in Consumers, NEW state, state.at # "done", Becomes(d, state)
          PROVE  consumer'[c] = consumer[c]
      BY <1>2, <3>1 DEF Becomes, TypeOK
    <3>2. Waiting.at # "done"
      BY DEF Waiting
    <3>3. ASSUME NEW d \in Consumers, ConsumerStep(d) \/ ConsumerCrashes(d), ~RunAction(c)
          PROVE  consumer'[c] = consumer[c]
      <4>1. CASE \E e \in Events : Receive(d, e)
        BY <3>1, <4>1 DEF Receive
      <4>2. CASE ClaimEvent(d)
        <5>1. [consumer[d] EXCEPT !.at = "claimed"].at # "done"
          BY <3>2, <4>2 DEF ClaimEvent, TypeOK, Waiting
        <5> QED BY <3>1, <3>2, <4>2, <5>1 DEF ClaimEvent
      <4>3. CASE RunAction(d)
        BY <3>3, <4>3 DEF RunAction, Becomes, TypeOK
      <4>4. CASE CommitClaim(d) \/ ConsumerCrashes(d)
        BY <3>1, <3>2, <4>4 DEF CommitClaim, ConsumerCrashes
      <4>5. CASE Fail(d)
        BY <3>1, <3>2, <4>5 DEF Fail
      <4> QED BY <3>3, <4>1, <4>2, <4>3, <4>4, <4>5 DEF ConsumerStep
    <3>4. CASE UNCHANGED consumer
      BY <3>4
    <3> QED BY <3>3, <3>4 DEF Next, RelayStep, Append, BackoffPasses, ClaimBatch, Publish, CommitBatch, RelayCrashes,
                              DeclareQueues, vars, mailVars
  <2> QED BY <2>1, <2>2, <2>3
<1>3. DoneWasMailed'
  BY <1>2 DEF DoneWasMailed
<1>4. \/ processed' = processed
      \/ \E c \in Consumers : consumer[c].at = "done" /\ processed' = processed \cup {consumer[c].event}
  BY DEF Next, RelayStep, ConsumerStep, Append, BackoffPasses, ClaimBatch, Publish, CommitBatch, RelayCrashes,
         DeclareQueues, Receive, ClaimEvent, RunAction, CommitClaim, ActionDone, Fail, ConsumerCrashes, vars, mailVars
<1>5. ProcessedWasMailed'
  <2> SUFFICES ASSUME NEW e \in processed' \cap Mailing PROVE mailed'[e] > 0
    BY DEF ProcessedWasMailed
  <2>1. mailed[e] > 0
    BY <1>4 DEF DoneWasMailed, ProcessedWasMailed
  <2>2. mailed'[e] >= mailed[e] /\ mailed[e] \in Nat /\ mailed'[e] \in Nat
    BY <1>0, <1>1
  <2> QED BY <2>1, <2>2
<1> QED BY <1>3, <1>5

\* An event with somebody to write to is recorded as processed only once the mail
\* server has taken its mail.
THEOREM ProcessedMailed == Spec => []ProcessedWasMailed
<1>1. Init => MailInv
  <2> SUFFICES ASSUME Init PROVE MailInv
    OBVIOUS
  <2>1. TypeOK
    BY InitialBatches DEF BatchInv
  <2>2. \A c \in Consumers : consumer[c].at = "waiting"
    BY DEF Init, Waiting
  <2> QED BY <2>1, <2>2 DEF Init, MailInv, DoneWasMailed, ProcessedWasMailed
<1>2. MailInv /\ TypeOK' /\ [Next]_vars => MailInv'
  BY StepKeepsMails
<1>3. MailInv => ProcessedWasMailed
  BY DEF MailInv
<1> QED BY <1>1, <1>2, <1>3, Typing, PTL DEF Spec
=============================================================================
