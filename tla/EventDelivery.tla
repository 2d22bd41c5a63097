---------------------------- MODULE EventDelivery ----------------------------
(***************************************************************************)
(* From a committed domain event to the e-mail about it: the transactional *)
(* outbox and its relays in the booking service, the broker, and the       *)
(* idempotent consumers of the notification service.                       *)
(*                                                                         *)
(* A relay publishes a whole batch in one transaction, so a crash forgets  *)
(* the marks of messages the broker has already taken.  A consumer claims  *)
(* an event and sends the mail in one transaction, which a mail server is  *)
(* no part of.  Events are numbered by occurred_at.                        *)
(***************************************************************************)
EXTENDS Naturals, FiniteSets

CONSTANTS Events,        \* a set of numbers
          MustRoute,     \* those of app.outbox.require-route
          Mailing,       \* those that have somebody to write to
          Relays,        \* booking-service instances
          Consumers,     \* notification-service listeners
          BatchSize,     \* app.outbox.batch-size
          MaxAttempts,   \* app.outbox.max-attempts
          MaxTries,      \* listener retry max-attempts
          MaxCrashes     \* bound on the crashes of all of them

ASSUME DeliveryAssumption ==
    /\ Events \subseteq Nat /\ MustRoute \subseteq Events /\ Mailing \subseteq MustRoute
    /\ BatchSize \in Nat \ {0} /\ MaxAttempts \in Nat \ {0}
    /\ MaxTries \in Nat \ {0} /\ MaxCrashes \in Nat

VARIABLES row,         \* outbox_events: not appended, pending, published or dead
          attempts,    \* outbox_events.attempts
          backedOff,   \* outbox_events.next_attempt_at > now()
          relay,       \* the batch each relay has claimed, and its marks so far
          bound,       \* whether the notification service's queues exist
          queued,      \* copies of each event waiting in its queue
          deadLetters, \* copies of it in the dead-letter queue
          consumer,    \* what each listener is doing
          processed,   \* processed_events
          mailed,      \* mails sent about the event
          crashes

outboxVars == <<row, attempts, backedOff>>
brokerVars == <<bound, queued, deadLetters>>
mailVars == <<consumer, processed, mailed>>
vars == <<outboxVars, relay, brokerVars, mailVars, crashes>>

Mark == {"none", "published", "failed"}
Resting == [todo |-> {}, marks |-> [e \in Events |-> "none"]]
Waiting == [at |-> "waiting"]

\* Rows, batches, queues and listeners have their types; no row is tried oftener
\* than MaxAttempts, no copy oftener than MaxTries.
TypeOK ==
    /\ row \in [Events -> {"none", "pending", "published", "dead"}]
    /\ attempts \in [Events -> 0 .. MaxAttempts]
    /\ backedOff \in [Events -> BOOLEAN]
    /\ relay \in [Relays -> [todo: SUBSET Events, marks: [Events -> Mark]]]
    /\ bound \in BOOLEAN
    /\ queued \in [Events -> Nat] /\ deadLetters \in [Events -> Nat]
    /\ consumer \in [Consumers -> {Waiting} \cup
           [at: {"received", "claimed", "done"}, event: Events, tries: 1 .. MaxTries]]
    /\ processed \subseteq Events
    /\ mailed \in [Events -> Nat]
    /\ crashes \in 0 .. MaxCrashes

Init ==
    /\ row = [e \in Events |-> "none"]
    /\ attempts = [e \in Events |-> 0]
    /\ backedOff = [e \in Events |-> FALSE]
    /\ relay = [r \in Relays |-> Resting]
    /\ bound = FALSE
    /\ queued = [e \in Events |-> 0] /\ deadLetters = [e \in Events |-> 0]
    /\ consumer = [c \in Consumers |-> Waiting]
    /\ processed = {}
    /\ mailed = [e \in Events |-> 0]
    /\ crashes = 0

-----------------------------------------------------------------------------
(* The outbox                                                               *)

\* The row commits with the change it is about.
Append(e) ==
    /\ row[e] = "none"
    /\ row' = [row EXCEPT ![e] = "pending"]
    /\ UNCHANGED <<attempts, backedOff, relay, brokerVars, mailVars, crashes>>

\* Rows of an uncommitted batch are locked, and skipped by the other relays.
Marked(r) == {e \in Events : relay[r].marks[e] # "none"}
Locked == UNION {relay[r].todo \cup Marked(r) : r \in Relays}

\* Faulty variant: a row that failed before is never claimed again.
ClaimableOnce == {e \in Events : row[e] = "pending" /\ attempts[e] = 0} \ Locked

Claimable == {e \in Events : row[e] = "pending" /\ ~backedOff[e]} \ Locked

\* claimBatch: the oldest of them, up to the limit.
ClaimBatch(r) ==
    /\ relay[r] = Resting /\ Claimable # {}
    /\ relay' = [relay EXCEPT ![r].todo =
           {e \in Claimable : Cardinality({f \in Claimable : f < e}) < BatchSize}]
    /\ UNCHANGED <<outboxVars, brokerVars, mailVars, crashes>>

\* Faulty variant: a message the broker returned counts as sent.
AckIsEnough(e, acked, routed) == acked

\* What the confirm and the return make of a row.
Sent(e, acked, routed) == acked /\ (routed \/ e \notin MustRoute)

\* The broker may take a message and its confirm be lost all the same.
Publish(r) ==
    LET e == CHOOSE x \in relay[r].todo : \A f \in relay[r].todo : x <= f
    IN /\ relay[r].todo # {}
       /\ \E taken, acked \in BOOLEAN :
             /\ acked => taken
             /\ queued' = IF taken /\ bound THEN [queued EXCEPT ![e] = @ + 1] ELSE queued
             /\ relay' = [relay EXCEPT ![r].todo = @ \ {e},
                                       ![r].marks[e] = IF Sent(e, acked, bound)
                                                       THEN "published" ELSE "failed"]
       /\ UNCHANGED <<outboxVars, bound, deadLetters, mailVars, crashes>>

\* Faulty variant: forgets to give up.
FailedForever(e) == "pending"

\* markFailed, or markDead at the last attempt.
Failed(e) == IF attempts[e] + 1 >= MaxAttempts THEN "dead" ELSE "pending"

CommitBatch(r) ==
    LET m == relay[r].marks
    IN /\ relay[r].todo = {} /\ Marked(r) # {}
       /\ row' = [e \in Events |-> CASE m[e] = "published" -> "published"
                                     [] m[e] = "failed" -> Failed(e)
                                     [] OTHER -> row[e]]
       /\ attempts' = [e \in Events |-> IF m[e] = "failed" THEN attempts[e] + 1 ELSE attempts[e]]
       /\ backedOff' = [e \in Events |-> backedOff[e] \/ m[e] = "failed"]
       /\ relay' = [relay EXCEPT ![r] = Resting]
       /\ UNCHANGED <<brokerVars, mailVars, crashes>>

BackoffPasses(e) ==
    /\ backedOff[e]
    /\ backedOff' = [backedOff EXCEPT ![e] = FALSE]
    /\ UNCHANGED <<row, attempts, relay, brokerVars, mailVars, crashes>>

-----------------------------------------------------------------------------
(* The notification service                                                 *)

\* It starts, and declares its durable queues.
DeclareQueues ==
    /\ ~bound /\ bound' = TRUE
    /\ UNCHANGED <<outboxVars, relay, queued, deadLetters, mailVars, crashes>>

Becomes(c, state) == consumer' = [consumer EXCEPT ![c] = state]

Receive(c, e) ==
    /\ consumer[c] = Waiting /\ queued[e] > 0
    /\ queued' = [queued EXCEPT ![e] = @ - 1]
    /\ Becomes(c, [at |-> "received", event |-> e, tries |-> 1])
    /\ UNCHANGED <<outboxVars, relay, bound, deadLetters, processed, mailed, crashes>>

\* runOnce inserts the claim; another's uncommitted claim makes it wait.
ClaimEvent(c) ==
    LET e == consumer[c].event
    IN /\ consumer[c].at = "received"
       /\ \A d \in Consumers : consumer[d].at \in {"claimed", "done"} => consumer[d].event # e
       /\ IF e \in processed
          THEN Becomes(c, Waiting)
          ELSE Becomes(c, [consumer[c] EXCEPT !.at = "claimed"])
       /\ UNCHANGED <<outboxVars, relay, brokerVars, processed, mailed, crashes>>

\* The action: the mail is sent, unless the event is one only to be logged, or
\* has no recipient, or its order's buyer is told by event.cancelled.
RunAction(c) ==
    LET e == consumer[c].event
    IN /\ consumer[c].at = "claimed"
       /\ mailed' = IF e \in Mailing THEN [mailed EXCEPT ![e] = @ + 1] ELSE mailed
       /\ Becomes(c, [consumer[c] EXCEPT !.at = "done"])
       /\ UNCHANGED <<outboxVars, relay, brokerVars, processed, crashes>>

\* Faulty variant: the claim survives a failed action.
CommittedClaim(c) == consumer[c].at \in {"claimed", "done"}

\* Whether the transaction that holds the claim has run its action.
ActionDone(c) == consumer[c].at = "done"

CommitClaim(c) ==
    /\ ActionDone(c)
    /\ processed' = processed \cup {consumer[c].event}
    /\ Becomes(c, Waiting)
    /\ UNCHANGED <<outboxVars, relay, brokerVars, mailed, crashes>>

\* The parser, the claim, the template, the mail server or the commit fails: what
\* was claimed is rolled back, and the listener tries again, or dead-letters it.
Fail(c) ==
    LET e == consumer[c].event
    IN /\ consumer[c] # Waiting
       /\ IF consumer[c].tries < MaxTries
          THEN /\ Becomes(c, [at |-> "received", event |-> e, tries |-> consumer[c].tries + 1])
               /\ UNCHANGED deadLetters
          ELSE /\ Becomes(c, Waiting)
               /\ deadLetters' = [deadLetters EXCEPT ![e] = @ + 1]
       /\ UNCHANGED <<outboxVars, relay, bound, queued, processed, mailed, crashes>>

-----------------------------------------------------------------------------
(* Crashes                                                                  *)

Crash == crashes < MaxCrashes /\ crashes' = crashes + 1

RelayCrashes(r) ==
    /\ Crash /\ relay[r] # Resting
    /\ relay' = [relay EXCEPT ![r] = Resting]
    /\ UNCHANGED <<outboxVars, brokerVars, mailVars>>

\* The broker queues an unacknowledged message again.
ConsumerCrashes(c) ==
    /\ Crash /\ consumer[c] # Waiting
    /\ queued' = [queued EXCEPT ![consumer[c].event] = @ + 1]
    /\ Becomes(c, Waiting)
    /\ UNCHANGED <<outboxVars, relay, bound, deadLetters, processed, mailed>>

-----------------------------------------------------------------------------
RelayStep(r) == ClaimBatch(r) \/ Publish(r) \/ CommitBatch(r)
ConsumerStep(c) ==
    \/ \E e \in Events : Receive(c, e)
    \/ ClaimEvent(c) \/ RunAction(c) \/ CommitClaim(c) \/ Fail(c)

Next ==
    \/ \E e \in Events : Append(e) \/ BackoffPasses(e)
    \/ \E r \in Relays : RelayStep(r) \/ RelayCrashes(r)
    \/ \E c \in Consumers : ConsumerStep(c) \/ ConsumerCrashes(c)
    \/ DeclareQueues

Spec == Init /\ [][Next]_vars

\* The relay polls every second, its backoff is finite, a listener takes what
\* its queue holds.
FairSpec == /\ Spec
            /\ \A e \in Events : WF_vars(BackoffPasses(e))
            /\ \A r \in Relays : WF_vars(RelayStep(r))
            /\ \A c \in Consumers : WF_vars(ConsumerStep(c))

-----------------------------------------------------------------------------
(* Properties                                                               *)

InHand(e) == \E c \in Consumers : consumer[c] # Waiting /\ consumer[c].event = e

\* A row marked published is accounted for: its customer has been written to, or
\* a queue, a listener or the dead-letter queue still has the message.
PublishedIsNotLost == \A e \in MustRoute :
    row[e] = "published" => \/ e \in processed \/ InHand(e)
                            \/ queued[e] > 0 \/ deadLetters[e] > 0

\* An event is recorded as processed only after its mail went out.
ProcessedWasMailed == \A e \in processed \cap Mailing : mailed[e] > 0

\* An event that must reach its customer does, or ends where somebody can see it:
\* dead in the outbox or in the dead-letter queue.
EventArrives == \A e \in Mailing :
    row[e] = "pending" ~> (mailed[e] > 0 \/ row[e] = "dead" \/ deadLetters[e] > 0)

\* "Runs an action at most once per event id".
MailedAtMostOnce == \A e \in Events : mailed[e] <= 1
=============================================================================
