--------------------------- MODULE SeatHoldsProofs ---------------------------
(* Theorems about SeatHolds for every set of seats, accounts and requests.   *)
EXTENDS SeatHolds, FiniteSetTheorems, TLAPS

USE SeatsAssumption, NoUserAssumption, TimingAssumption

-----------------------------------------------------------------------------
(* Type correctness                                                          *)

\* Every request step keeps the request table well typed.
LEMMA ReqTyped ==
    ASSUME TypeOK, NEW r \in Requests, NEW x \in [stage: Stages,
               user: Users \cup {NoUser}, ids: SUBSET Seats, until: Nat]
    PROVE  [req EXCEPT ![r] = x] \in [Requests -> [stage: Stages,
               user: Users \cup {NoUser}, ids: SUBSET Seats, until: Nat]]
BY DEF TypeOK

\* What goes back on sale leaves the three columns well typed.
LEMMA BackOnSaleTyped ==
    ASSUME TypeOK, NEW S, BackOnSale(S)
    PROVE  /\ status' \in [Seats -> SeatStatus]
           /\ heldBy' \in [Seats -> Users \cup {NoUser}]
           /\ heldUntil' \in [Seats -> Nat]
           /\ HolderOK'
BY DEF TypeOK, BackOnSale, SeatStatus, HolderOK

LEMMA ThenDropTyped ==
    ASSUME TypeOK, NEW r \in Requests, NEW h \in Users \cup {NoUser},
           NEW ids \in SUBSET Seats, ThenDrop(r, h, ids)
    PROVE  /\ req' \in [Requests -> [stage: Stages, user: Users \cup {NoUser},
                                  ids: SUBSET Seats, until: Nat]]
           /\ CountedOK'
BY DEF TypeOK, ThenDrop, Idle, At, Stages, CountedOK

LEMMA OnwardTyped ==
    ASSUME TypeOK, NEW r \in Requests
    PROVE  Onward(req[r]) \in [stage: Stages, user: Users \cup {NoUser},
                               ids: SUBSET Seats, until: Nat]
BY DEF TypeOK, Onward, Idle, At, Stages

LEMMA KeyTyped ==
    ASSUME TypeOK, NEW s, NEW u \in Users \cup {NoUser}, NEW t \in Nat
    PROVE  /\ [keyOf EXCEPT ![s] = u] \in [Seats -> Users \cup {NoUser}]
           /\ [keyTtl EXCEPT ![s] = t] \in [Seats -> Nat]
BY DEF TypeOK

\* Every value of every variable is of its type, at every instance size.
THEOREM Typing == Spec => []TypeOK
<1>1. Init => TypeOK
  BY DEF Init, TypeOK, HolderOK, CountedOK, SeatStatus, Stages, Idle, NoSweep
<1>2. TypeOK /\ [Next]_vars => TypeOK'
  <2> SUFFICES ASSUME TypeOK, [Next]_vars PROVE TypeOK'
    OBVIOUS
  <2> USE DEF vars, rowVars, keyVars, HolderOK, CountedOK
  <2>1. ASSUME NEW r \in Requests, RequestStep(r) PROVE TypeOK'
    <3>1. ASSUME NEW u \in Users, NEW ids \in SUBSET Seats, CountMine(r, u, ids)
          PROVE TypeOK'
      BY <3>1 DEF TypeOK, CountMine, At, Stages
    <3>2. CASE HoldSeats(r)
      BY <3>2 DEF TypeOK, HoldSeats, At, Stages, SeatStatus
    <3>3. CASE HoldConflicts(r)
      BY <3>3 DEF TypeOK, HoldConflicts, Idle, Stages
    <3>4. CASE ArmKey(r)
      <4>1. req' = [req EXCEPT ![r] = Onward(req[r])]
        BY <3>4 DEF ArmKey
      <4>2. req' \in [Requests -> [stage: Stages, user: Users \cup {NoUser},
                                   ids: SUBSET Seats, until: Nat]]
        BY <4>1, OnwardTyped, ReqTyped
      <4>3. keyOf' \in [Seats -> Users \cup {NoUser}] /\ keyTtl' \in [Seats -> Nat]
        <5>1. req[r].user \in Users \cup {NoUser} /\ now + HoldFor \in Nat
          BY DEF TypeOK
        <5>2. \E s : /\ keyOf' = [keyOf EXCEPT ![s] = req[r].user]
                     /\ keyTtl' = [keyTtl EXCEPT ![s] = now + HoldFor]
          BY <3>4 DEF ArmKey
        <5> QED BY <5>1, <5>2, KeyTyped
      <4>4. CountedOK' /\ HolderOK' /\ UNCHANGED <<now, rowVars, notices, sweep>>
        BY <3>4, <4>1 DEF TypeOK, ArmKey, Onward, Idle, At
      <4> QED BY <4>2, <4>3, <4>4 DEF TypeOK
    <3>5. ASSUME NEW u \in Users, ReadMine(r, u) PROVE TypeOK'
      BY <3>5 DEF TypeOK, ReadMine, HeldOf, At, Stages
    <3>6. CASE ReleaseMine(r)
      <4>1. req[r].user \in Users \cup {NoUser}
            /\ req[r].ids \cap HeldOf(req[r].user) \in SUBSET Seats
        BY DEF TypeOK
      <4> QED BY <3>6, <4>1, BackOnSaleTyped, ThenDropTyped DEF TypeOK, ReleaseMine
    <3>7. CASE ReleaseRefused(r)
      BY <3>7 DEF TypeOK, ReleaseRefused, Idle, Stages
    <3>8. ASSUME NEW s \in Seats, ReadSeat(r, s) PROVE TypeOK'
      BY <3>8 DEF TypeOK, ReadSeat, At, Stages
    <3>9. CASE AdminRelease(r)
      <4>1. req[r].user \in Users \cup {NoUser}
            /\ {s \in req[r].ids : status[s] = "HELD"} \in SUBSET Seats
        BY DEF TypeOK
      <4> QED BY <3>9, <4>1, BackOnSaleTyped, ThenDropTyped DEF TypeOK, AdminRelease
    <3>10. CASE GetKey(r)
      <4>1. At("deleting", req[r].user, req[r].ids, 0) \in [stage: Stages,
               user: Users \cup {NoUser}, ids: SUBSET Seats, until: Nat]
        BY DEF TypeOK, At, Stages
      <4>2. \/ req' = [req EXCEPT ![r] = At("deleting", req[r].user, req[r].ids, 0)]
            \/ req' = [req EXCEPT ![r] = Onward(req[r])]
        BY <3>10 DEF GetKey
      <4>3. req' \in [Requests -> [stage: Stages, user: Users \cup {NoUser},
                                   ids: SUBSET Seats, until: Nat]]
        BY <4>1, <4>2, OnwardTyped, ReqTyped
      <4>4. CountedOK' /\ HolderOK' /\ UNCHANGED <<now, rowVars, keyVars, sweep>>
        BY <3>10, <4>2 DEF TypeOK, GetKey, Onward, Idle, At
      <4> QED BY <4>3, <4>4 DEF TypeOK
    <3>11. CASE DeleteKey(r)
      <4>1. req[r].user \in Users \cup {NoUser}
            /\ req[r].ids \ {Lowest(req[r].ids)} \in SUBSET Seats
        BY DEF TypeOK
      <4>2. \E s : /\ keyOf' = [keyOf EXCEPT ![s] = NoUser]
                   /\ keyTtl' = [keyTtl EXCEPT ![s] = 0]
        BY <3>11 DEF DeleteKey
      <4>3. keyOf' \in [Seats -> Users \cup {NoUser}] /\ keyTtl' \in [Seats -> Nat]
        BY <4>2, KeyTyped
      <4>4. ThenDrop(r, req[r].user, req[r].ids \ {Lowest(req[r].ids)})
            /\ UNCHANGED <<now, rowVars, notices, sweep>>
        BY <3>11 DEF DeleteKey
      <4> QED BY <4>1, <4>3, <4>4, ThenDropTyped DEF TypeOK
    <3>12. ASSUME NEW u \in Users, NEW ids \in SUBSET Seats, Book(r, u, ids)
           PROVE TypeOK'
      <4>1. HolderOK'
        BY <3>12 DEF TypeOK, Book, HeldOf
      <4>2. UNCHANGED <<now, heldBy, keyVars, sweep>> /\ ThenDrop(r, NoUser, ids)
            /\ status' \in [Seats -> SeatStatus] /\ heldUntil' \in [Seats -> Nat]
        BY <3>12 DEF TypeOK, Book, SeatStatus
      <4> QED BY <4>1, <4>2, ThenDropTyped DEF TypeOK
    <3>13. ASSUME NEW u \in Users, NEW ids \in SUBSET Seats, CloseOrder(r, u, ids)
           PROVE TypeOK'
      BY <3>13, BackOnSaleTyped, ThenDropTyped DEF TypeOK, CloseOrder
    <3>14. CASE CancelEvent(r)
      <4>1. {s \in Seats : status[s] = "HELD"} \in SUBSET Seats
        OBVIOUS
      <4> QED BY <3>14, <4>1, BackOnSaleTyped, ThenDropTyped DEF TypeOK, CancelEvent
    <3> QED BY <2>1, <3>1, <3>2, <3>3, <3>4, <3>5, <3>6, <3>7, <3>8, <3>9, <3>10,
               <3>11, <3>12, <3>13, <3>14 DEF RequestStep
  <2>2. ASSUME NEW s \in Seats, SeatStep(s) PROVE TypeOK'
    <3>1. CASE KeyExpires(s)
      BY <3>1 DEF TypeOK, KeyExpires
    <3>2. CASE LoseNotice(s)
      BY <3>2 DEF TypeOK, LoseNotice
    <3>3. CASE ReleaseExpired(s)
      BY <3>3, BackOnSaleTyped DEF TypeOK, ReleaseExpired
    <3>4. CASE BlockSeat(s)
      BY <3>4 DEF TypeOK, BlockSeat, SeatStatus
    <3>5. CASE UnblockSeat(s)
      BY <3>5 DEF TypeOK, UnblockSeat, SeatStatus
    <3> QED BY <2>2, <3>1, <3>2, <3>3, <3>4, <3>5 DEF SeatStep
  <2>3. ASSUME NEW ids \in SUBSET Seats, VoidTickets(ids) PROVE TypeOK'
    BY <2>3, BackOnSaleTyped DEF TypeOK, VoidTickets
  <2>4. CASE SweepSelect
    <3>1. FindExpired(now - Tolerance) \in SUBSET Seats
      BY DEF FindExpired
    <3> QED BY <2>4, <3>1 DEF TypeOK, SweepSelect
  <2>5. CASE SweepRelease
    BY <2>5, BackOnSaleTyped DEF TypeOK, SweepRelease, NoSweep
  <2>6. CASE Tick
    BY <2>6 DEF TypeOK, Tick
  <2>7. CASE Crash
    BY <2>7 DEF TypeOK, Crash, Idle, NoSweep, Stages
  <2>8. CASE UNCHANGED vars
    BY <2>8 DEF TypeOK
  <2> QED BY <2>1, <2>2, <2>3, <2>4, <2>5, <2>6, <2>7, <2>8 DEF Next
<1> QED BY <1>1, <1>2, PTL DEF Spec

-----------------------------------------------------------------------------
(* The per-account cap                                                       *)

\* HoldCap is not inductive: HoldSeats does not count again.  What carries the
\* count to the update is that only one request of an account is between the
\* two, and that the account's seats can only have become fewer since.
CapInv ==
    /\ \A r, q \in Requests :
          (req[r].stage = "counted" /\ req[q].stage = "counted"
             /\ req[r].user = req[q].user) => r = q
    /\ \A r \in Requests : req[r].stage = "counted" =>
          /\ req[r].user \in Users
          /\ Cardinality(HeldOf(req[r].user) \cup req[r].ids) <= MaxSeats
    /\ HoldCap

LEMMA SeatSets ==
    ASSUME NEW S \in SUBSET Seats, NEW T \in SUBSET S
    PROVE  /\ IsFiniteSet(S) /\ IsFiniteSet(T)
           /\ Cardinality(S) \in Nat /\ Cardinality(T) \in Nat
           /\ Cardinality(T) <= Cardinality(S)
<1>1. IsFiniteSet(S)
  BY FS_Subset
<1> QED BY <1>1, FS_Subset, FS_CardinalityType

\* The two counts the code adds up are the size of the account's next holding.
LEMMA CountIsUnion ==
    ASSUME NEW u, NEW ids \in SUBSET Seats
    PROVE  Cardinality(HeldOf(u) \cup ids)
             = Cardinality(HeldOf(u)) + Cardinality(ids \ HeldOf(u))
<1> DEFINE H == HeldOf(u)
           D == ids \ H
<1>1. H \in SUBSET Seats /\ D \in SUBSET Seats
  BY DEF HeldOf
<1>2. IsFiniteSet(H) /\ IsFiniteSet(D)
  BY <1>1, SeatSets
<1>3. Cardinality(H \cup D) = Cardinality(H) + Cardinality(D) - Cardinality(H \cap D)
  BY <1>2, FS_Union
<1>4. H \cap D = {} /\ H \cup D = H \cup ids
  OBVIOUS
<1>5. Cardinality(H) \in Nat /\ Cardinality(D) \in Nat /\ Cardinality({}) = 0
  BY <1>2, FS_CardinalityType, FS_EmptySet
<1> HIDE DEF H, D
<1>6. Cardinality(H \cup ids) = Cardinality(H) + Cardinality(D) - Cardinality({})
  BY <1>3, <1>4, Zenon
<1>7. Cardinality(H \cup ids) = Cardinality(H) + Cardinality(D)
  BY <1>5, <1>6
<1> QED BY <1>7 DEF H, D

\* A step that gives no account a new seat and starts no count keeps CapInv.
LEMMA NoNewHold ==
    ASSUME TypeOK, TypeOK', CapInv,
           \A v \in Users : HeldOf(v)' \subseteq HeldOf(v),
           \A q \in Requests : req'[q].stage = "counted" => req'[q] = req[q]
    PROVE  CapInv'
<1>1. ASSUME NEW v \in Users PROVE Cardinality(HeldOf(v)') <= MaxSeats
  <2>1. HeldOf(v) \in SUBSET Seats /\ HeldOf(v)' \in SUBSET HeldOf(v)
    BY DEF HeldOf
  <2>2. Cardinality(HeldOf(v)) <= MaxSeats
    BY DEF CapInv, HoldCap
  <2> QED BY <2>1, <2>2, SeatSets
<1>2. ASSUME NEW r \in Requests, req'[r].stage = "counted"
      PROVE  /\ req'[r].user \in Users
             /\ Cardinality((HeldOf(req[r].user) \cup req[r].ids)') <= MaxSeats
  <2>1. req'[r] = req[r] /\ req[r].stage = "counted"
    BY <1>2
  <2>2. PICK v \in Users : v = req[r].user
    BY <2>1 DEF CapInv
  <2>3. Cardinality(HeldOf(v) \cup req[r].ids) <= MaxSeats
    BY <2>1, <2>2 DEF CapInv
  <2>4. HeldOf(v) \cup req[r].ids \in SUBSET Seats
    BY DEF TypeOK, HeldOf
  <2>5. (HeldOf(req[r].user) \cup req[r].ids)' = HeldOf(v)' \cup req[r].ids
    BY <2>1, <2>2 DEF HeldOf
  <2>6. HeldOf(v)' \cup req[r].ids \in SUBSET (HeldOf(v) \cup req[r].ids)
    OBVIOUS
  <2>7. Cardinality(HeldOf(v)' \cup req[r].ids) <= Cardinality(HeldOf(v) \cup req[r].ids)
        /\ Cardinality(HeldOf(v)' \cup req[r].ids) \in Nat
        /\ Cardinality(HeldOf(v) \cup req[r].ids) \in Nat
    BY <2>4, <2>6, SeatSets
  <2> QED BY <2>1, <2>2, <2>3, <2>5, <2>7
<1>3. \A r, q \in Requests :
        (req'[r].stage = "counted" /\ req'[q].stage = "counted"
           /\ req'[r].user = req'[q].user) => r = q
  BY DEF CapInv
<1>4. HoldCap'
  BY <1>1 DEF HoldCap
<1>5. (\A r \in Requests : req[r].stage = "counted" =>
          /\ req[r].user \in Users
          /\ Cardinality(HeldOf(req[r].user) \cup req[r].ids) <= MaxSeats)'
  BY <1>2
<1> QED BY <1>3, <1>4, <1>5 DEF CapInv

LEMMA BackOnSaleShrinks ==
    ASSUME NEW S, BackOnSale(S), NEW v
    PROVE  HeldOf(v)' \subseteq HeldOf(v)
BY DEF BackOnSale, HeldOf

LEMMA ThenDropCountsNothing ==
    ASSUME TypeOK, NEW r \in Requests, NEW h, NEW ids, ThenDrop(r, h, ids)
    PROVE  \A q \in Requests : req'[q].stage = "counted" => req'[q] = req[q]
BY DEF TypeOK, ThenDrop, Idle, At

LEMMA CapInvariant == Spec => []CapInv
<1>1. Init => CapInv
  <2> SUFFICES ASSUME Init PROVE CapInv
    OBVIOUS
  <2>1. \A u \in Users : HeldOf(u) = {}
    BY DEF Init, HeldOf
  <2>2. Cardinality({}) = 0
    BY FS_EmptySet
  <2>3. HoldCap
    BY <2>1, <2>2 DEF HoldCap
  <2> QED BY <2>3 DEF Init, CapInv, Idle
<1>2. TypeOK /\ TypeOK' /\ CapInv /\ [Next]_vars => CapInv'
  <2> SUFFICES ASSUME TypeOK, TypeOK', CapInv, [Next]_vars PROVE CapInv'
    OBVIOUS
  <2> USE DEF vars, rowVars, keyVars
  <2> DEFINE NoCount == \A q \in Requests : req'[q].stage = "counted" => req'[q] = req[q]
             Shrinks == \A v \in Users : HeldOf(v)' \subseteq HeldOf(v)
  <2>1. ASSUME NEW r \in Requests, RequestStep(r) PROVE CapInv'
    <3>1. ASSUME NEW u \in Users, NEW ids \in SUBSET Seats, CountMine(r, u, ids)
          PROVE CapInv'
      <4>1. \A v : HeldOf(v)' = HeldOf(v)
        BY <3>1 DEF CountMine, HeldOf
      <4>2. Cardinality(HeldOf(u) \cup ids) <= MaxSeats
        BY <3>1, CountIsUnion DEF CountMine, WithinCap
      <4>3. req'[r] = At("counted", u, ids, now + HoldFor)
            /\ \A q \in Requests \ {r} : req'[q] = req[q]
        BY <3>1 DEF CountMine, TypeOK
      <4>4. \A q \in Requests : ~(req[q].stage = "counted" /\ req[q].user = u)
        BY <3>1 DEF CountMine, CapLockFree
      <4>5. (\A q, p \in Requests :
                (req[q].stage = "counted" /\ req[p].stage = "counted"
                   /\ req[q].user = req[p].user) => q = p)'
        BY <4>3, <4>4 DEF CapInv, At
      <4>6. ASSUME NEW q \in Requests, req'[q].stage = "counted"
            PROVE  /\ req'[q].user \in Users
                   /\ Cardinality((HeldOf(req[q].user) \cup req[q].ids)') <= MaxSeats
        <5>1. CASE q = r
          <6>1. (HeldOf(req[q].user) \cup req[q].ids)' = HeldOf(u) \cup ids
            BY <3>1, <4>3, <5>1 DEF CountMine, HeldOf, At
          <6> QED BY <4>2, <4>3, <5>1, <6>1 DEF At
        <5>2. CASE q # r
          <6>1. req'[q] = req[q]
            BY <4>3, <5>2
          <6>2. (HeldOf(req[q].user) \cup req[q].ids)' = HeldOf(req[q].user) \cup req[q].ids
            BY <3>1, <6>1 DEF CountMine, HeldOf
          <6> QED BY <4>6, <6>1, <6>2 DEF CapInv
        <5> QED BY <5>1, <5>2
      <4>7. (\A q \in Requests : req[q].stage = "counted" =>
                /\ req[q].user \in Users
                /\ Cardinality(HeldOf(req[q].user) \cup req[q].ids) <= MaxSeats)'
        BY <4>6
      <4>8. HoldCap'
        BY <4>1 DEF CapInv, HoldCap
      <4> QED BY <4>5, <4>7, <4>8 DEF CapInv
    <3>2. CASE HoldSeats(r)
      <4>1. PICK u \in Users : /\ u = req[r].user
                               /\ Cardinality(HeldOf(u) \cup req[r].ids) <= MaxSeats
        BY <3>2 DEF HoldSeats, CapInv
      <4>2. HeldOf(u)' \subseteq HeldOf(u) \cup req[r].ids
        BY <3>2, <4>1 DEF HoldSeats, HeldOf
      <4>3. \A v \in Users \ {u} : HeldOf(v)' \subseteq HeldOf(v)
        BY <3>2, <4>1 DEF HoldSeats, HeldOf
      <4>4. \A q \in Requests : req'[q].stage = "counted" =>
                req'[q] = req[q] /\ req[q].user # u
        BY <3>2, <4>1 DEF HoldSeats, TypeOK, At, CapInv
      <4>5. ASSUME NEW v \in Users PROVE Cardinality(HeldOf(v)') <= MaxSeats
        <5>1. PICK S \in SUBSET Seats : HeldOf(v)' \in SUBSET S /\ Cardinality(S) <= MaxSeats
          <6>1. HeldOf(v) \in SUBSET Seats /\ HeldOf(u) \cup req[r].ids \in SUBSET Seats
            BY DEF HeldOf, TypeOK
          <6>2. CASE v = u
            BY <4>1, <4>2, <6>1, <6>2
          <6>3. CASE v # u
            BY <4>3, <6>1, <6>3 DEF CapInv, HoldCap
          <6> QED BY <6>2, <6>3
        <5> QED BY <5>1, SeatSets
      <4>6. ASSUME NEW q \in Requests, req'[q].stage = "counted"
            PROVE  /\ req'[q].user \in Users
                   /\ Cardinality((HeldOf(req[q].user) \cup req[q].ids)') <= MaxSeats
        <5>1. req'[q] = req[q] /\ req[q].stage = "counted"
          BY <4>4, <4>6
        <5>2. PICK v \in Users \ {u} : v = req[q].user
          BY <4>4, <4>6, <5>1 DEF CapInv
        <5>3. Cardinality(HeldOf(v) \cup req[q].ids) <= MaxSeats
          BY <5>1, <5>2 DEF CapInv
        <5>4. HeldOf(v) \cup req[q].ids \in SUBSET Seats
          BY DEF HeldOf, TypeOK
        <5>5. (HeldOf(req[q].user) \cup req[q].ids)' = HeldOf(v)' \cup req[q].ids
          BY <5>1, <5>2 DEF HeldOf
        <5>6. HeldOf(v)' \cup req[q].ids \in SUBSET (HeldOf(v) \cup req[q].ids)
          BY <4>3
        <5>7. Cardinality(HeldOf(v)' \cup req[q].ids) <= Cardinality(HeldOf(v) \cup req[q].ids)
              /\ Cardinality(HeldOf(v)' \cup req[q].ids) \in Nat
              /\ Cardinality(HeldOf(v) \cup req[q].ids) \in Nat
          BY <5>4, <5>6, SeatSets
        <5> QED BY <5>1, <5>2, <5>3, <5>5, <5>7
      <4>7. (\A q \in Requests : req[q].stage = "counted" =>
                /\ req[q].user \in Users
                /\ Cardinality(HeldOf(req[q].user) \cup req[q].ids) <= MaxSeats)'
        BY <4>6
      <4>8. (\A q, p \in Requests :
                (req[q].stage = "counted" /\ req[p].stage = "counted"
                   /\ req[q].user = req[p].user) => q = p)'
        BY <4>4 DEF CapInv
      <4>9. HoldCap'
        BY <4>5 DEF HoldCap
      <4> QED BY <4>7, <4>8, <4>9 DEF CapInv
    <3>3. CASE HoldConflicts(r) \/ ReleaseRefused(r)
      <4>1. NoCount /\ Shrinks
        BY <3>3 DEF HoldConflicts, ReleaseRefused, Idle, HeldOf, TypeOK
      <4> QED BY <4>1, NoNewHold
    <3>4. CASE ArmKey(r) \/ GetKey(r)
      <4>1. req[r].stage # "counted" /\ req'[r].stage # "counted"
            /\ \A q \in Requests \ {r} : req'[q] = req[q]
        BY <3>4 DEF ArmKey, GetKey, Onward, Idle, At, TypeOK
      <4>2. NoCount
        BY <4>1
      <4>3. Shrinks
        BY <3>4 DEF ArmKey, GetKey, HeldOf
      <4> QED BY <4>2, <4>3, NoNewHold
    <3>5. ASSUME (\E u \in Users : ReadMine(r, u)) \/ (\E s \in Seats : ReadSeat(r, s))
          PROVE CapInv'
      <4>1. NoCount /\ Shrinks
        BY <3>5 DEF ReadMine, ReadSeat, At, HeldOf, TypeOK
      <4> QED BY <4>1, NoNewHold
    <3>6. CASE ReleaseMine(r) \/ AdminRelease(r) \/ CancelEvent(r)
      <4>1. \E S, h, ids : BackOnSale(S) /\ ThenDrop(r, h, ids)
        BY <3>6 DEF ReleaseMine, AdminRelease, CancelEvent
      <4>2. NoCount /\ Shrinks
        BY <4>1, BackOnSaleShrinks, ThenDropCountsNothing
      <4> QED BY <4>2, NoNewHold
    <3>7. CASE DeleteKey(r)
      <4>1. NoCount
        BY <3>7, ThenDropCountsNothing DEF DeleteKey
      <4>2. Shrinks
        BY <3>7 DEF DeleteKey, HeldOf
      <4> QED BY <4>1, <4>2, NoNewHold
    <3>8. ASSUME NEW u \in Users, NEW ids \in SUBSET Seats,
                 Book(r, u, ids) \/ CloseOrder(r, u, ids)
          PROVE CapInv'
      <4>1. NoCount
        BY <3>8, ThenDropCountsNothing DEF Book, CloseOrder
      <4>2. Shrinks
        BY <3>8, BackOnSaleShrinks DEF Book, CloseOrder, HeldOf
      <4> QED BY <4>1, <4>2, NoNewHold
    <3> QED BY <2>1, <3>1, <3>2, <3>3, <3>4, <3>5, <3>6, <3>7, <3>8 DEF RequestStep
  <2>2. ASSUME req' = req, \E S : BackOnSale(S) PROVE CapInv'
    BY <2>2, BackOnSaleShrinks, NoNewHold
  <2>3. ASSUME NEW s \in Seats, SeatStep(s) PROVE CapInv'
    <3>1. CASE ReleaseExpired(s)
      BY <2>2, <3>1 DEF ReleaseExpired
    <3>2. CASE KeyExpires(s) \/ LoseNotice(s)
      <4>1. NoCount /\ Shrinks
        BY <3>2 DEF KeyExpires, LoseNotice, HeldOf
      <4> QED BY <4>1, NoNewHold
    <3>3. CASE BlockSeat(s) \/ UnblockSeat(s)
      <4>1. NoCount /\ Shrinks
        BY <3>3 DEF BlockSeat, UnblockSeat, HeldOf, TypeOK
      <4> QED BY <4>1, NoNewHold
    <3> QED BY <2>3, <3>1, <3>2, <3>3 DEF SeatStep
  <2>4. CASE \E ids \in SUBSET Seats : VoidTickets(ids)
    BY <2>2, <2>4 DEF VoidTickets
  <2>5. CASE SweepRelease
    BY <2>2, <2>5 DEF SweepRelease
  <2>6. CASE SweepSelect \/ Tick \/ UNCHANGED vars
    <3>1. NoCount /\ Shrinks
      BY <2>6 DEF SweepSelect, Tick, HeldOf
    <3> QED BY <3>1, NoNewHold
  <2>7. CASE Crash
    <3>1. NoCount /\ Shrinks
      BY <2>7 DEF Crash, Idle, HeldOf
    <3> QED BY <3>1, NoNewHold
  <2> QED BY <2>1, <2>3, <2>4, <2>5, <2>6, <2>7 DEF Next
<1> QED BY <1>1, <1>2, Typing, PTL DEF Spec

\* However requests interleave, an account never holds more than the cap.
THEOREM CapHolds == Spec => []HoldCap
<1>1. CapInv => HoldCap
  BY DEF CapInv
<1> QED BY <1>1, CapInvariant, PTL

-----------------------------------------------------------------------------
(* No running hold is cut by expiry                                          *)

\* The sweeper's cutoff is read from the clock before it releases anything.
CutoffPast == sweep.cutoff <= now

LEMMA CutoffInvariant == Spec => []CutoffPast
<1>1. Init => CutoffPast
  BY DEF Init, CutoffPast, NoSweep
<1>2. TypeOK /\ CutoffPast /\ [Next]_vars => CutoffPast'
  <2> SUFFICES ASSUME TypeOK, CutoffPast, [Next]_vars PROVE CutoffPast'
    OBVIOUS
  <2> USE DEF vars, rowVars, keyVars, CutoffPast
  <2>1. ASSUME NEW r \in Requests, RequestStep(r) PROVE UNCHANGED <<now, sweep>>
    BY <2>1 DEF RequestStep, CountMine, HoldSeats, HoldConflicts, ArmKey, ReadMine,
       ReleaseMine, ReleaseRefused, ReadSeat, AdminRelease, GetKey, DeleteKey,
       Book, CloseOrder, CancelEvent
  <2>2. ASSUME NEW s \in Seats, SeatStep(s) PROVE UNCHANGED <<now, sweep>>
    BY <2>2 DEF SeatStep, KeyExpires, LoseNotice, ReleaseExpired, BlockSeat, UnblockSeat
  <2>3. CASE \E ids \in SUBSET Seats : VoidTickets(ids)
    BY <2>3 DEF VoidTickets
  <2>4. CASE SweepSelect
    BY <2>4 DEF SweepSelect, TypeOK
  <2>5. CASE SweepRelease \/ Crash
    BY <2>5 DEF SweepRelease, Crash, NoSweep, TypeOK
  <2>6. CASE Tick
    BY <2>6 DEF Tick, TypeOK
  <2> QED BY <2>1, <2>2, <2>3, <2>4, <2>5, <2>6 DEF Next
<1> QED BY <1>1, <1>2, Typing, PTL DEF Spec

\* A notification or a sweep overtaken by a re-posted selection releases nothing.
THEOREM RunningHoldsKept == Spec => RunningHoldKept
<1>1. TypeOK /\ CutoffPast /\ [Next]_vars =>
        [\A s \in Seats :
            (status[s] = "HELD" /\ heldUntil[s] > now /\ status'[s] = "AVAILABLE")
                => CutsAHold(s)]_vars
  <2> SUFFICES ASSUME TypeOK, CutoffPast, Next, NEW s \in Seats,
                      status[s] = "HELD", heldUntil[s] > now, status'[s] = "AVAILABLE"
               PROVE  CutsAHold(s)
    OBVIOUS
  <2> USE DEF vars, rowVars, keyVars
  <2>1. ASSUME NEW r \in Requests, RequestStep(r) PROVE CutsAHold(s)
    <3>1. CASE ReleaseMine(r)
      BY <3>1 DEF ReleaseMine, BackOnSale, HeldOf, TypeOK, CutsAHold
    <3>2. CASE AdminRelease(r)
      BY <3>2 DEF AdminRelease, BackOnSale, TypeOK, CutsAHold
    <3>3. ASSUME NEW u \in Users, NEW ids \in SUBSET Seats, CloseOrder(r, u, ids)
          PROVE CutsAHold(s)
      <4>1. s \in ids /\ u = heldBy[s]
        BY <3>3 DEF CloseOrder, BackOnSale, HeldOf
      <4> QED BY <3>3, <4>1 DEF CutsAHold
    <3>4. CASE CancelEvent(r)
      BY <3>4 DEF CutsAHold
    <3>5. CASE HoldSeats(r) \/ \E u \in Users, ids \in SUBSET Seats : Book(r, u, ids)
      BY <3>5 DEF HoldSeats, Book
    <3>6. CASE UNCHANGED status
      BY <3>6
    <3> QED BY <2>1, <3>1, <3>2, <3>3, <3>4, <3>5, <3>6 DEF RequestStep, CountMine,
               HoldConflicts, ArmKey, ReadMine, ReleaseRefused, ReadSeat, GetKey, DeleteKey
  <2>2. ASSUME NEW t \in Seats, SeatStep(t) PROVE FALSE
    <3>1. CASE ReleaseExpired(t)
      BY <3>1 DEF ReleaseExpired, BackOnSale, ReleasableOnNotice, TypeOK
    <3>2. CASE KeyExpires(t) \/ LoseNotice(t) \/ BlockSeat(t) \/ UnblockSeat(t)
      BY <3>2 DEF KeyExpires, LoseNotice, BlockSeat, UnblockSeat, TypeOK
    <3> QED BY <2>2, <3>1, <3>2 DEF SeatStep
  <2>3. ASSUME NEW ids \in SUBSET Seats, VoidTickets(ids) PROVE FALSE
    BY <2>3 DEF VoidTickets, BackOnSale
  <2>4. CASE SweepRelease
    BY <2>4 DEF SweepRelease, BackOnSale, ExpiredAt, CutoffPast, TypeOK
  <2>5. CASE SweepSelect \/ Tick \/ Crash
    BY <2>5 DEF SweepSelect, Tick, Crash
  <2> QED BY <2>1, <2>2, <2>3, <2>4, <2>5 DEF Next
<1> QED BY <1>1, Typing, CutoffInvariant, PTL DEF Spec, RunningHoldKept

-----------------------------------------------------------------------------
(* SeatHolds implements SeatSale                                             *)

LEMMA SameCardinality == \A S : Sale!Cardinality(S) = Cardinality(S)
BY DEF Cardinality, Sale!Cardinality

LEMMA BackOnSaleLetsGo ==
    ASSUME NEW S \in SUBSET Seats, BackOnSale(S), \A s \in S : status[s] = "HELD"
    PROVE  Sale!Next
<1>1. Sale!LetGo(S)
  BY DEF BackOnSale, Sale!LetGo
<1> QED BY <1>1 DEF Sale!Next

\* Row by row the rows keep the inventory's promise: Take needs the cap, which
\* the code checked one statement earlier.
THEOREM ImplementsSeatSale == Spec => SeatSaleSpec
<1>1. Init => Sale!Init
  BY DEF Init, Sale!Init
<1>2. TypeOK /\ CapInv /\ [Next]_vars => [Sale!Next]_(Sale!saleVars)
  <2> SUFFICES ASSUME TypeOK, CapInv, [Next]_vars
               PROVE  Sale!Next \/ UNCHANGED <<status, heldBy>>
    BY DEF Sale!saleVars
  <2> USE DEF vars, rowVars, keyVars
  <2>1. ASSUME NEW r \in Requests, RequestStep(r)
        PROVE  Sale!Next \/ UNCHANGED <<status, heldBy>>
    <3>1. CASE HoldSeats(r)
      <4> DEFINE u == req[r].user
                 ids == req[r].ids
      <4>1. u \in Users /\ ids \in SUBSET Seats /\ Cardinality(HeldOf(u) \cup ids) <= MaxSeats
        BY <3>1 DEF HoldSeats, CapInv, TypeOK
      <4>2. HeldOf(u) = Sale!HeldOf(u)
        BY DEF HeldOf, Sale!HeldOf
      <4>3. \A s \in ids : status[s] = "AVAILABLE" \/ s \in Sale!HeldOf(u)
        BY <3>1, <4>1 DEF HoldSeats, Takeable, Sale!HeldOf
      <4>4. /\ status' = [s \in Seats |-> IF s \in ids THEN "HELD" ELSE status[s]]
            /\ heldBy' = [s \in Seats |-> IF s \in ids THEN u ELSE heldBy[s]]
        BY <3>1 DEF HoldSeats
      <4>5. Sale!Cardinality(Sale!HeldOf(u) \cup ids) <= MaxSeats
        BY <4>1, <4>2, SameCardinality
      <4> HIDE DEF u, ids
      <4>6. Sale!Take(u, ids)
        BY <4>3, <4>4, <4>5 DEF Sale!Take
      <4> QED BY <4>1, <4>6 DEF Sale!Next
    <3>2. CASE ReleaseMine(r)
      BY <3>2, BackOnSaleLetsGo DEF ReleaseMine, HeldOf, TypeOK
    <3>3. CASE AdminRelease(r)
      <4>1. {s \in req[r].ids : status[s] = "HELD"} \in SUBSET Seats
        BY DEF TypeOK
      <4> QED BY <3>3, <4>1, BackOnSaleLetsGo DEF AdminRelease
    <3>4. ASSUME NEW u \in Users, NEW ids \in SUBSET Seats, CloseOrder(r, u, ids)
          PROVE  Sale!Next
      BY <3>4, BackOnSaleLetsGo DEF CloseOrder, HeldOf
    <3>5. CASE CancelEvent(r)
      BY <3>5, BackOnSaleLetsGo DEF CancelEvent
    <3>6. ASSUME NEW u \in Users, NEW ids \in SUBSET Seats, Book(r, u, ids)
          PROVE  Sale!Next
      <4>1. Sale!Sell(u, ids)
        BY <3>6 DEF Book, HeldOf, Sale!Sell, Sale!HeldOf
      <4> QED BY <4>1 DEF Sale!Next
    <3> QED BY <2>1, <3>1, <3>2, <3>3, <3>4, <3>5, <3>6 DEF RequestStep, CountMine,
               HoldConflicts, ArmKey, ReadMine, ReleaseRefused, ReadSeat, GetKey, DeleteKey
  <2>2. ASSUME NEW s \in Seats, SeatStep(s)
        PROVE  Sale!Next \/ UNCHANGED <<status, heldBy>>
    <3>1. CASE ReleaseExpired(s)
      BY <3>1, BackOnSaleLetsGo DEF ReleaseExpired, ReleasableOnNotice
    <3>2. CASE BlockSeat(s) \/ UnblockSeat(s)
      <4>1. Sale!Withdraw(s) \/ Sale!PutBack(s)
        BY <3>2 DEF BlockSeat, UnblockSeat, Sale!Withdraw, Sale!PutBack
      <4> QED BY <4>1 DEF Sale!Next
    <3>3. CASE KeyExpires(s) \/ LoseNotice(s)
      BY <3>3 DEF KeyExpires, LoseNotice
    <3> QED BY <2>2, <3>1, <3>2, <3>3 DEF SeatStep
  <2>3. ASSUME NEW ids \in SUBSET Seats, VoidTickets(ids) PROVE Sale!Next
    <3>1. Sale!Restock(ids)
      BY <2>3 DEF VoidTickets, BackOnSale, Sale!Restock
    <3> QED BY <3>1 DEF Sale!Next
  <2>4. CASE SweepRelease
    <3>1. {s \in sweep.ids : ExpiredAt(s, sweep.cutoff)} \in SUBSET Seats
      BY DEF TypeOK
    <3> QED BY <2>4, <3>1, BackOnSaleLetsGo DEF SweepRelease, ExpiredAt
  <2>5. CASE SweepSelect \/ Tick \/ Crash \/ UNCHANGED vars
    BY <2>5 DEF SweepSelect, Tick, Crash
  <2> QED BY <2>1, <2>2, <2>3, <2>4, <2>5 DEF Next
<1> QED BY <1>1, <1>2, Typing, CapInvariant, PTL DEF Spec, SeatSaleSpec, Sale!Spec
=============================================================================
