----------------------------- MODULE GateProofs -----------------------------
(***************************************************************************)
(* Theorems about Gate for any number of tickets, turnstiles and undos.    *)
(*                                                                         *)
(* The invariants are inductive together with one more: a renderer writes  *)
(* back the status the row has, for it holds the row's lock from its read  *)
(* to its write.  Without that, a PDF could make a void ticket live again. *)
(***************************************************************************)
EXTENDS Gate, FiniteSetTheorems, TLAPS

USE GateAssumption

\* What a renderer has read is still so while it holds the row.
ReadIsCurrent == \A t \in Tickets : rendering[t] # "none" => ticket[t] = rendering[t]

Inv ==
    /\ TypeOK /\ ReadIsCurrent
    /\ AdmissionsBalance /\ LiveTicketHasItsSeat /\ PaidTicketsStand

-----------------------------------------------------------------------------
\* The tickets counted by a refund are at most all of them.
LEMMA IssuedCount == Cardinality(Issued) \in 0 .. Cardinality(Tickets)
<1>1. Issued \subseteq Tickets
  BY DEF Issued
<1>2. IsFiniteSet(Issued) /\ Cardinality(Issued) <= Cardinality(Tickets)
  BY <1>1, FS_Subset
<1>3. Cardinality(Issued) \in Nat /\ Cardinality(Tickets) \in Nat
  BY <1>2, FS_CardinalityType
<1> QED BY <1>2, <1>3

\* Voiding is one statement over every ISSUED ticket and its seat; it ends the
\* order, so what must hold of a paid order's tickets is not at stake.
LEMMA VoidKeepsInv ==
    ASSUME Inv, NEW new \in {"REFUNDED", "CANCELLED"}, Void(new),
           UNCHANGED <<scanVars, rendering>>, refund' \in Refund, event' \in {"open", "cancelled"}
    PROVE  Inv'
<1> USE DEF Inv, scanVars, Issued, Freed
<1>1. TypeOK'
  BY DEF TypeOK, Void, TicketStatus
<1>2. ReadIsCurrent'
  BY DEF TypeOK, ReadIsCurrent, Void, Unlocked
<1>3. AdmissionsBalance'
  BY DEF TypeOK, AdmissionsBalance, Void
<1>4. LiveTicketHasItsSeat'
  BY DEF TypeOK, LiveTicketHasItsSeat, Void
<1>5. PaidTicketsStand'
  BY DEF PaidTicketsStand, Void
<1> QED BY <1>1, <1>2, <1>3, <1>4, <1>5

\* Scanning, undoing, rendering and reselling.
LEMMA TicketsKeepInv ==
    ASSUME Inv, NEW t \in Tickets, TicketStep(t)
    PROVE  Inv'
<1> USE DEF Inv, scanVars
<1>1. CASE Unadmit(t)
  <2>1. TypeOK'
    BY <1>1 DEF TypeOK, Unadmit, TicketStatus
  <2>2. ReadIsCurrent' /\ LiveTicketHasItsSeat' /\ PaidTicketsStand'
    BY <1>1 DEF TypeOK, Unadmit, Unlocked, ReadIsCurrent, LiveTicketHasItsSeat, PaidTicketsStand
  <2>3. AdmissionsBalance'
    BY <1>1 DEF TypeOK, Unadmit, AdmissionsBalance
  <2> QED BY <2>1, <2>2, <2>3
<1>2. CASE LockAndRead(t)
  BY <1>2 DEF TypeOK, TicketStatus, LockAndRead, Issued, ReadIsCurrent, AdmissionsBalance,
              LiveTicketHasItsSeat, PaidTicketsStand
<1>3. CASE StorePdf(t)
  <2>1. ticket' = ticket
    BY <1>3 DEF StorePdf, TypeOK, ReadIsCurrent
  <2>2. TypeOK'
    BY <1>3, <2>1 DEF TypeOK, StorePdf
  <2> QED BY <1>3, <2>1, <2>2 DEF TypeOK, StorePdf, ReadIsCurrent, AdmissionsBalance,
                                  LiveTicketHasItsSeat, PaidTicketsStand
<1>4. CASE Resell(t)
  BY <1>4 DEF TypeOK, Resell, ReadIsCurrent, AdmissionsBalance, LiveTicketHasItsSeat, PaidTicketsStand
<1>5. ASSUME NEW g \in Gates, LookUp(g, t) PROVE Inv'
  BY <1>5 DEF TypeOK, LookUp, ReadIsCurrent, AdmissionsBalance, LiveTicketHasItsSeat, PaidTicketsStand
<1> QED BY <1>1, <1>2, <1>3, <1>4, <1>5 DEF TicketStep

\* The conditional update admits an ISSUED ticket only, and records that it did.
LEMMA AdmitKeepsInv ==
    ASSUME Inv, NEW g \in Gates, Admit(g)
    PROVE  Inv'
<1> USE DEF Inv, scanVars
<1>1. gate[g] \in Tickets
  BY DEF TypeOK, Admit
<1>2. CASE ticket[gate[g]] = "ISSUED"
  <2>1. admitted[gate[g]] + 1 \in 0 .. MaxUndone + 1
    BY <1>1, <1>2 DEF TypeOK, AdmissionsBalance
  <2>2. TypeOK'
    BY <1>1, <1>2, <2>1 DEF TypeOK, Admit, TicketStatus
  <2>3. AdmissionsBalance'
    BY <1>1, <1>2 DEF TypeOK, Admit, AdmissionsBalance
  <2> QED BY <1>1, <1>2, <2>2, <2>3
             DEF TypeOK, Admit, Unlocked, ReadIsCurrent, LiveTicketHasItsSeat, PaidTicketsStand
<1>3. CASE ticket[gate[g]] # "ISSUED"
  BY <1>1, <1>3 DEF TypeOK, Admit, ReadIsCurrent, AdmissionsBalance, LiveTicketHasItsSeat, PaidTicketsStand
<1> QED BY <1>2, <1>3

\* The box office's refund voids what it has counted, or leaves no trace.
LEMMA RefundKeepsInv ==
    ASSUME Inv, CheckUsed \/ CountUnused \/ VoidCounted
    PROVE  Inv'
<1> USE DEF Inv, scanVars
<1>1. CASE CheckUsed
  BY <1>1 DEF TypeOK, CheckUsed, Refund, ReadIsCurrent, AdmissionsBalance, LiveTicketHasItsSeat, PaidTicketsStand
<1>2. CASE CountUnused
  <2>1. refund' \in Refund
    BY <1>2, IssuedCount DEF CountUnused, Refund
  <2> QED BY <1>2, <2>1 DEF TypeOK, CountUnused, ReadIsCurrent, AdmissionsBalance, LiveTicketHasItsSeat,
                            PaidTicketsStand
<1>3. CASE VoidCounted
  <2>1. refund' \in Refund /\ event' \in {"open", "cancelled"} /\ UNCHANGED <<scanVars, rendering>>
    BY <1>3 DEF TypeOK, VoidCounted, Refund
  <2>2. CASE Void("REFUNDED")
    BY <2>1, <2>2, VoidKeepsInv
  <2>3. CASE UNCHANGED <<order, ticket, seat>>
    BY <2>1, <2>3 DEF TypeOK, ReadIsCurrent, AdmissionsBalance, LiveTicketHasItsSeat, PaidTicketsStand
  <2> QED BY <1>3, <2>2, <2>3 DEF VoidCounted
<1> QED BY <1>1, <1>2, <1>3

-----------------------------------------------------------------------------
\* Every reachable state of the gate satisfies the inductive invariant.
LEMMA Invariance == Spec => []Inv
<1>1. Init => Inv
  BY DEF Init, Inv, TypeOK, TicketStatus, Refund, ReadIsCurrent, AdmissionsBalance, LiveTicketHasItsSeat,
         PaidTicketsStand
<1>2. Inv /\ [Next]_vars => Inv'
  <2> SUFFICES ASSUME Inv, [Next]_vars PROVE Inv'
    OBVIOUS
  <2>1. ASSUME NEW t \in Tickets, TicketStep(t) PROVE Inv'
    BY <2>1, TicketsKeepInv
  <2>2. ASSUME NEW g \in Gates, Admit(g) PROVE Inv'
    BY <2>2, AdmitKeepsInv
  <2>3. CASE CheckUsed \/ CountUnused \/ VoidCounted
    BY <2>3, RefundKeepsInv
  <2>4. ASSUME NEW new \in {"REFUNDED", "CANCELLED"}, ProviderVoids(new) PROVE Inv'
    <3>1. refund' \in Refund /\ event' \in {"open", "cancelled"} /\ UNCHANGED <<scanVars, rendering>>
      BY <2>4 DEF Inv, TypeOK, ProviderVoids, Refund
    <3> QED BY <2>4, <3>1, VoidKeepsInv DEF ProviderVoids
  <2>5. CASE CancelEvent
    <3>1. refund' \in Refund /\ event' \in {"open", "cancelled"} /\ UNCHANGED <<scanVars, rendering>>
      BY <2>5 DEF Inv, TypeOK, CancelEvent, Refund
    <3>2. CASE Void("REFUNDED")
      BY <3>1, <3>2, VoidKeepsInv
    <3>3. CASE UNCHANGED <<order, ticket, seat>>
      BY <3>1, <3>3 DEF Inv, scanVars, TypeOK, ReadIsCurrent, AdmissionsBalance, LiveTicketHasItsSeat,
                        PaidTicketsStand
    <3> QED BY <2>5, <3>2, <3>3 DEF CancelEvent
  <2>6. CASE UNCHANGED vars
    BY <2>6 DEF Inv, vars, scanVars, TypeOK, ReadIsCurrent, AdmissionsBalance, LiveTicketHasItsSeat,
                PaidTicketsStand, Issued, Used
  <2> QED BY <2>1, <2>2, <2>3, <2>4, <2>5, <2>6 DEF Next
<1> QED BY <1>1, <1>2, PTL DEF Spec

\* Every value of every variable is of its type; in particular no ticket is
\* admitted more than once more than it was undone.
THEOREM Typing == Spec => []TypeOK
<1>1. Inv => TypeOK
  BY DEF Inv
<1> QED BY <1>1, Invariance, PTL

\* However scans, undos, refunds and renderings interleave, a ticket's scan
\* records and its status agree.
THEOREM OneAdmission == Spec => []AdmissionsBalance
<1>1. Inv => AdmissionsBalance
  BY DEF Inv
<1> QED BY <1>1, Invariance, PTL

\* A ticket that is not void has its seat, which is never sold again under it.
THEOREM SeatsStandBehindTickets == Spec => []LiveTicketHasItsSeat
<1>1. Inv => LiveTicketHasItsSeat
  BY DEF Inv
<1> QED BY <1>1, Invariance, PTL

\* A paid order has all its tickets: a refund that a gate overtook left no trace.
THEOREM PaidOrdersKeepTickets == Spec => []PaidTicketsStand
<1>1. Inv => PaidTicketsStand
  BY DEF Inv
<1> QED BY <1>1, Invariance, PTL
=============================================================================
