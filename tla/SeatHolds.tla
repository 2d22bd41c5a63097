------------------------------ MODULE SeatHolds ------------------------------
(***************************************************************************)
(* Holding and letting go of the seats of one event: the seat rows in      *)
(* Postgres, the Redis key that times each hold, the requests that change  *)
(* them, the keyspace-expiry listener and the sweeper behind it.           *)
(*                                                                         *)
(* A database transaction runs at READ COMMITTED, so each statement that   *)
(* reads is a step of its own and the UPDATE that changes rows is one step *)
(* together with its commit (its row locks keep every other writer out in  *)
(* between).  What runs after the commit, one Redis command at a time, is  *)
(* a step per command.  Orders reach the seats through Book, CloseOrder,   *)
(* VoidTickets and CancelEvent; the module Orders models that side.        *)
(***************************************************************************)
EXTENDS Integers, FiniteSets

CONSTANTS Seats,         \* seat ids: numbers, as the code sorts by them
          Users,         \* customer accounts
          NoUser,        \* held_by IS NULL, and an absent Redis key
          Requests,      \* request threads that may be running at once
          MaxSeats,      \* app.hold.max-seats
          HoldFor,       \* app.hold.duration
          Tolerance,     \* app.hold.expiry-tolerance
          SweeperBatch,  \* app.hold.sweeper-batch
          MaxTime        \* bound: the clock stops here

ASSUME SeatsAssumption == Seats \subseteq Nat /\ IsFiniteSet(Seats)
ASSUME NoUserAssumption == NoUser \notin Users
ASSUME TimingAssumption == /\ MaxSeats \in Nat /\ HoldFor \in Nat \ {0}
                           /\ Tolerance \in Nat /\ SweeperBatch \in Nat \ {0}
                           /\ MaxTime \in Nat

VARIABLES
    now,         \* the wall clock
    status,      \* seats.status
    heldBy,      \* seats.held_by
    heldUntil,   \* seats.held_until, 0 for NULL
    keyOf,       \* value of seat-hold:<id>, NoUser when there is no such key
    keyTtl,      \* when that key expires, 0 without a key
    notices,     \* expiry notifications of a seat on their way to the listener
    req,         \* what each request thread is in the middle of
    sweep        \* what the sweeper selected and has not released yet

rowVars == <<status, heldBy, heldUntil>>
keyVars == <<keyOf, keyTtl, notices>>
vars == <<now, rowVars, keyVars, req, sweep>>

SeatStatus == {"AVAILABLE", "HELD", "BOOKED", "BLOCKED"}
Stages == {"idle", "counted", "arming", "releasing", "forcing", "dropping", "deleting"}

\* The locals of a request: the account it acts for, the seats it still has to
\* deal with, and the deadline it computed.
Idle == [stage |-> "idle", user |-> NoUser, ids |-> {}, until |-> 0]
At(stage, user, ids, until) ==
    [stage |-> stage, user |-> user, ids |-> ids, until |-> until]
NoSweep == [ids |-> {}, cutoff |-> 0]

HeldOf(u) == {s \in Seats : status[s] = "HELD" /\ heldBy[s] = u}

\* A request takes its seats in id order: the one it is at, and what it becomes
\* once it is done with that one.
Lowest(ids) == CHOOSE s \in ids : \A t \in ids : s <= t
Onward(q) == LET left == q.ids \ {Lowest(q.ids)}
             IN IF left = {} THEN Idle ELSE At(q.stage, q.user, left, 0)

\* held_by is NULL exactly while the seat is nobody's.
HolderOK == \A s \in Seats : heldBy[s] = NoUser <=> status[s] \in {"AVAILABLE", "BLOCKED"}
CountedOK == \A r \in Requests : req[r].stage = "counted" => req[r].user \in Users

\* The rows, keys and requests hold values of their types; a seat has a holder exactly
\* while it is held or booked, and a request that has counted names an account.
TypeOK ==
    /\ now \in 0..MaxTime
    /\ status \in [Seats -> SeatStatus]
    /\ heldBy \in [Seats -> Users \cup {NoUser}]
    /\ heldUntil \in [Seats -> Nat]
    /\ keyOf \in [Seats -> Users \cup {NoUser}]
    /\ keyTtl \in [Seats -> Nat]
    /\ notices \in [Seats -> Nat]
    /\ req \in [Requests -> [stage: Stages, user: Users \cup {NoUser},
                             ids: SUBSET Seats, until: Nat]]
    /\ sweep \in [ids: SUBSET Seats, cutoff: Int]
    /\ HolderOK /\ CountedOK

Init ==
    /\ now = 0
    /\ status = [s \in Seats |-> "AVAILABLE"]
    /\ heldBy = [s \in Seats |-> NoUser]
    /\ heldUntil = [s \in Seats |-> 0]
    /\ keyOf = [s \in Seats |-> NoUser]
    /\ keyTtl = [s \in Seats |-> 0]
    /\ notices = [s \in Seats |-> 0]
    /\ req = [r \in Requests |-> Idle]
    /\ sweep = NoSweep

-----------------------------------------------------------------------------
(* Seat rows: every UPDATE that puts seats back on sale sets the same three *)
(* columns; they differ in their WHERE clauses, which their callers state.  *)

\* Faulty variant: forgets held_by = NULL.
BackOnSaleKeepingHolder(S) ==
    /\ status' = [s \in Seats |-> IF s \in S THEN "AVAILABLE" ELSE status[s]]
    /\ heldUntil' = [s \in Seats |-> IF s \in S THEN 0 ELSE heldUntil[s]]
    /\ UNCHANGED heldBy

BackOnSale(S) ==
    /\ status' = [s \in Seats |-> IF s \in S THEN "AVAILABLE" ELSE status[s]]
    /\ heldBy' = [s \in Seats |-> IF s \in S THEN NoUser ELSE heldBy[s]]
    /\ heldUntil' = [s \in Seats |-> IF s \in S THEN 0 ELSE heldUntil[s]]

\* After a commit: holdKeys.dropOwn(ids, holder).  Without a holder the keys
\* are deleted unread, which is also what holdKeys.drop(ids) does.
ThenDrop(r, holder, ids) ==
    req' = [req EXCEPT ![r] =
        IF ids = {} THEN Idle
        ELSE At(IF holder = NoUser THEN "deleting" ELSE "dropping", holder, ids, 0)]

-----------------------------------------------------------------------------
(* POST holds: HoldService.hold                                             *)

\* Faulty variant: requests of one account do not wait for each other.
CapLockIgnored(u) == TRUE

\* The advisory lock on (event, user) is held from the count to the commit.
CapLockFree(u) ==
    \A r \in Requests : ~(req[r].stage = "counted" /\ req[r].user = u)

WithinCap(u, ids) == Cardinality(HeldOf(u)) + Cardinality(ids \ HeldOf(u)) <= MaxSeats

\* Takes the lock, counts the account's seats, computes the new deadline.
CountMine(r, u, ids) ==
    /\ req[r].stage = "idle"
    /\ ids # {} /\ Cardinality(ids) <= MaxSeats
    /\ CapLockFree(u)
    /\ WithinCap(u, ids)
    /\ req' = [req EXCEPT ![r] = At("counted", u, ids, now + HoldFor)]
    /\ UNCHANGED <<now, rowVars, keyVars, sweep>>

\* Faulty variant: WHERE status IN (AVAILABLE, HELD).
TakeableFromAnyone(u, s) == status[s] \in {"AVAILABLE", "HELD"}

\* WHERE status = AVAILABLE OR (status = HELD AND held_by = sub)
Takeable(u, s) == status[s] = "AVAILABLE" \/ (status[s] = "HELD" /\ heldBy[s] = u)

\* Every seat matched: the transaction commits, and the keys are armed next.
HoldSeats(r) ==
    LET u == req[r].user
        ids == req[r].ids
    IN /\ req[r].stage = "counted"
       /\ \A s \in ids : Takeable(u, s)
       /\ status' = [s \in Seats |-> IF s \in ids THEN "HELD" ELSE status[s]]
       /\ heldBy' = [s \in Seats |-> IF s \in ids THEN u ELSE heldBy[s]]
       /\ heldUntil' = [s \in Seats |-> IF s \in ids THEN req[r].until ELSE heldUntil[s]]
       /\ req' = [req EXCEPT ![r] = At("arming", u, ids, 0)]
       /\ UNCHANGED <<now, keyVars, sweep>>

\* Fewer rows matched than were asked for: everything rolls back.
HoldConflicts(r) ==
    /\ req[r].stage = "counted"
    /\ \E s \in req[r].ids : ~Takeable(req[r].user, s)
    /\ req' = [req EXCEPT ![r] = Idle]
    /\ UNCHANGED <<now, rowVars, keyVars, sweep>>

\* SET seat-hold:<id> sub with the hold's whole duration as its TTL.
ArmKey(r) ==
    LET s == Lowest(req[r].ids)
    IN /\ req[r].stage = "arming"
       /\ keyOf' = [keyOf EXCEPT ![s] = req[r].user]
       /\ keyTtl' = [keyTtl EXCEPT ![s] = now + HoldFor]
       /\ req' = [req EXCEPT ![r] = Onward(req[r])]
       /\ UNCHANGED <<now, rowVars, notices, sweep>>

-----------------------------------------------------------------------------
(* DELETE holds: HoldService.releaseMine, and the admin's force-release     *)

ReadMine(r, u) ==
    /\ req[r].stage = "idle"
    /\ HeldOf(u) # {}
    /\ req' = [req EXCEPT ![r] = At("releasing", u, HeldOf(u), 0)]
    /\ UNCHANGED <<now, rowVars, keyVars, sweep>>

\* WHERE status = HELD AND held_by = sub, among the ids read before.
ReleaseMine(r) ==
    LET u == req[r].user
        released == req[r].ids \cap HeldOf(u)
    IN /\ req[r].stage = "releasing"
       /\ BackOnSale(released)
       /\ ThenDrop(r, u, released)
       /\ UNCHANGED <<now, keyVars, sweep>>

\* The caller's own unpaid order covers one of the seats: 409 ORDER_PENDING.
ReleaseRefused(r) ==
    /\ req[r].stage = "releasing"
    /\ req' = [req EXCEPT ![r] = Idle]
    /\ UNCHANGED <<now, rowVars, keyVars, sweep>>

\* The admin's request reads the seat, and with it the holder, without a lock.
ReadSeat(r, s) ==
    /\ req[r].stage = "idle"
    /\ req' = [req EXCEPT ![r] = At("forcing", heldBy[s], {s}, 0)]
    /\ UNCHANGED <<now, rowVars, keyVars, sweep>>

\* WHERE status = HELD; 409 SEAT_NOT_HELD if no row matched.
AdminRelease(r) ==
    LET released == {s \in req[r].ids : status[s] = "HELD"}
    IN /\ req[r].stage = "forcing"
       /\ BackOnSale(released)
       /\ ThenDrop(r, req[r].user, released)
       /\ UNCHANGED <<now, keyVars, sweep>>

-----------------------------------------------------------------------------
(* SeatHoldKeys.dropOwn and drop                                            *)

\* GET: a key that names somebody else is left alone.
GetKey(r) ==
    /\ req[r].stage = "dropping"
    /\ req' = [req EXCEPT ![r] =
           IF keyOf[Lowest(req[r].ids)] = req[r].user
           THEN At("deleting", req[r].user, req[r].ids, 0)
           ELSE Onward(req[r])]
    /\ UNCHANGED <<now, rowVars, keyVars, sweep>>

\* DEL: whatever the key holds by now.
DeleteKey(r) ==
    LET s == Lowest(req[r].ids)
        left == req[r].ids \ {s}
    IN /\ req[r].stage = "deleting"
       /\ keyOf' = [keyOf EXCEPT ![s] = NoUser]
       /\ keyTtl' = [keyTtl EXCEPT ![s] = 0]
       /\ ThenDrop(r, req[r].user, left)
       /\ UNCHANGED <<now, rowVars, notices, sweep>>

-----------------------------------------------------------------------------
(* Expiry: Redis, the listener, the sweeper                                 *)

KeyExpires(s) ==
    /\ keyOf[s] # NoUser /\ keyTtl[s] <= now
    /\ keyOf' = [keyOf EXCEPT ![s] = NoUser]
    /\ keyTtl' = [keyTtl EXCEPT ![s] = 0]
    /\ notices' = [notices EXCEPT ![s] = @ + 1]
    /\ UNCHANGED <<now, rowVars, req, sweep>>

\* Keyspace notifications are fire-and-forget.
LoseNotice(s) ==
    /\ notices[s] > 0
    /\ notices' = [notices EXCEPT ![s] = @ - 1]
    /\ UNCHANGED <<now, rowVars, keyOf, keyTtl, req, sweep>>

\* WHERE status = HELD AND held_until <= now
ReleasableOnNotice(s) == status[s] = "HELD" /\ heldUntil[s] <= now

ReleaseExpired(s) ==
    /\ notices[s] > 0
    /\ notices' = [notices EXCEPT ![s] = @ - 1]
    /\ BackOnSale({t \in {s} : ReleasableOnNotice(t)})
    /\ UNCHANGED <<now, keyOf, keyTtl, req, sweep>>

\* Faulty variant: WHERE status = HELD, deadline or not.
HeldAtAll(s, cutoff) == status[s] = "HELD"

\* WHERE status = HELD AND held_until < cutoff
ExpiredAt(s, cutoff) == status[s] = "HELD" /\ heldUntil[s] < cutoff

\* Faulty variant: takes the first page of held seats, then looks at deadlines.
FindExpiredInFirstPage(cutoff) ==
    LET held == {s \in Seats : status[s] = "HELD"}
        page == {s \in held : Cardinality({t \in held : t < s}) < SweeperBatch}
    IN {s \in page : ExpiredAt(s, cutoff)}

\* ORDER BY id LIMIT sweeper-batch
FindExpired(cutoff) ==
    LET expired == {s \in Seats : ExpiredAt(s, cutoff)}
    IN {s \in expired : Cardinality({t \in expired : t < s}) < SweeperBatch}

SweepSelect ==
    /\ sweep = NoSweep
    /\ FindExpired(now - Tolerance) # {}
    /\ sweep' = [ids |-> FindExpired(now - Tolerance), cutoff |-> now - Tolerance]
    /\ UNCHANGED <<now, rowVars, keyVars, req>>

SweepRelease ==
    /\ sweep # NoSweep
    /\ BackOnSale({s \in sweep.ids : ExpiredAt(s, sweep.cutoff)})
    /\ sweep' = NoSweep
    /\ UNCHANGED <<now, keyVars, req>>

-----------------------------------------------------------------------------
(* The order side of the same rows                                          *)

\* confirmPaid books an order's seats, then drops their keys unread.
Book(r, u, ids) ==
    /\ req[r].stage = "idle"
    /\ ids # {} /\ ids \subseteq HeldOf(u)
    /\ status' = [s \in Seats |-> IF s \in ids THEN "BOOKED" ELSE status[s]]
    /\ heldUntil' = [s \in Seats |-> IF s \in ids THEN 0 ELSE heldUntil[s]]
    /\ ThenDrop(r, NoUser, ids)
    /\ UNCHANGED <<now, heldBy, keyVars, sweep>>

\* A closed order lets go of the seats its buyer still holds.
CloseOrder(r, u, ids) ==
    /\ req[r].stage = "idle"
    /\ ids # {} /\ ids \subseteq HeldOf(u)
    /\ BackOnSale(ids)
    /\ ThenDrop(r, u, ids)
    /\ UNCHANGED <<now, keyVars, sweep>>

\* A refund or a dispute puts booked seats back on sale.
VoidTickets(ids) ==
    /\ ids # {} /\ \A s \in ids : status[s] = "BOOKED"
    /\ BackOnSale(ids)
    /\ UNCHANGED <<now, keyVars, req, sweep>>

\* Cancelling the event lets go of every hold, then drops the keys unread.
CancelEvent(r) ==
    LET held == {s \in Seats : status[s] = "HELD"}
    IN /\ req[r].stage = "idle"
       /\ held # {}
       /\ BackOnSale(held)
       /\ ThenDrop(r, NoUser, held)
       /\ UNCHANGED <<now, keyVars, sweep>>

BlockSeat(s) ==
    /\ status[s] = "AVAILABLE"
    /\ status' = [status EXCEPT ![s] = "BLOCKED"]
    /\ UNCHANGED <<now, heldBy, heldUntil, keyVars, req, sweep>>

UnblockSeat(s) ==
    /\ status[s] = "BLOCKED"
    /\ status' = [status EXCEPT ![s] = "AVAILABLE"]
    /\ UNCHANGED <<now, heldBy, heldUntil, keyVars, req, sweep>>

-----------------------------------------------------------------------------
Tick ==
    /\ now < MaxTime
    /\ now' = now + 1
    /\ UNCHANGED <<rowVars, keyVars, req, sweep>>

\* The process dies: uncommitted work rolls back, work queued for after the
\* commit and notifications on their way to it are gone.  Redis and Postgres stay.
Crash ==
    /\ \/ \E r \in Requests : req[r] # Idle
       \/ sweep # NoSweep
       \/ \E s \in Seats : notices[s] > 0
    /\ req' = [r \in Requests |-> Idle]
    /\ sweep' = NoSweep
    /\ notices' = [s \in Seats |-> 0]
    /\ UNCHANGED <<now, rowVars, keyOf, keyTtl>>

RequestStep(r) ==
    \/ \E u \in Users :
          \/ ReadMine(r, u)
          \/ \E ids \in SUBSET Seats :
                CountMine(r, u, ids) \/ Book(r, u, ids) \/ CloseOrder(r, u, ids)
    \/ \E s \in Seats : ReadSeat(r, s)
    \/ HoldSeats(r) \/ HoldConflicts(r) \/ ArmKey(r)
    \/ ReleaseMine(r) \/ ReleaseRefused(r) \/ AdminRelease(r)
    \/ GetKey(r) \/ DeleteKey(r) \/ CancelEvent(r)

SeatStep(s) ==
    \/ KeyExpires(s) \/ LoseNotice(s) \/ ReleaseExpired(s)
    \/ BlockSeat(s) \/ UnblockSeat(s)

Next ==
    \/ \E r \in Requests : RequestStep(r)
    \/ \E s \in Seats : SeatStep(s)
    \/ \E ids \in SUBSET Seats : VoidTickets(ids)
    \/ SweepSelect \/ SweepRelease
    \/ Tick \/ Crash

Spec == Init /\ [][Next]_vars

\* @Scheduled keeps calling sweep().  A crash may cut one run short, again and
\* again, but not every run there ever is.
FairSpec == Spec /\ WF_vars(SweepSelect) /\ SF_vars(SweepRelease)

-----------------------------------------------------------------------------
(* Properties                                                               *)

\* One account never holds more seats of the event than the cap, however many
\* requests it sends at once and whatever expires between count and update.
HoldCap == \A u \in Users : Cardinality(HeldOf(u)) <= MaxSeats

\* A hold that is still running ends only by its holder's request, an admin's
\* force-release, the closing of its buyer's order or the event's cancellation:
\* never by a notification or a sweep that a re-posted selection has overtaken.
CutsAHold(s) ==
    \E r \in Requests :
        \/ req[r].stage = "releasing" /\ req[r].user = heldBy[s] /\ ReleaseMine(r)
        \/ req[r].stage = "forcing" /\ s \in req[r].ids /\ AdminRelease(r)
        \/ \E ids \in SUBSET Seats : CloseOrder(r, heldBy[s], ids)
        \/ CancelEvent(r)
RunningHoldKept ==
    [][\A s \in Seats :
          (status[s] = "HELD" /\ heldUntil[s] > now /\ status'[s] = "AVAILABLE")
              => CutsAHold(s)]_vars

\* The inventory's promise: one owner at a time, taken whole, let go first.
Sale == INSTANCE SeatSale WITH Seats <- Seats, Users <- Users, NoUser <- NoUser,
    MaxSeats <- MaxSeats, status <- status, heldBy <- heldBy
SeatSaleSpec == Sale!Spec

\* A hold past its deadline and the tolerance does not stay: it is refreshed,
\* paid for or released, even when its Redis key or notification was lost.
ExpiredHoldEnds ==
    \A s \in Seats :
        (status[s] = "HELD" /\ heldUntil[s] + Tolerance < now)
            ~> ~(status[s] = "HELD" /\ heldUntil[s] + Tolerance < now)

\* "Drops each key, but only while it still names sub as the holder": the key a
\* dropOwn deletes is its own holder's, never one the next holder has armed.
DropsOwnKeyOnly ==
    [][\A r \in Requests :
          (req[r].stage = "deleting" /\ req[r].user # NoUser /\ DeleteKey(r))
              => keyOf[Lowest(req[r].ids)] \in {req[r].user, NoUser}]_vars
=============================================================================
