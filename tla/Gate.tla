-------------------------------- MODULE Gate --------------------------------
(***************************************************************************)
(* The tickets of one paid order at the doors: turnstiles scanning them,   *)
(* supervisors undoing admissions, the PDF renderer writing ticket rows,   *)
(* and everything that voids the order, the box office's refund statement  *)
(* by statement.                                                           *)
(*                                                                         *)
(* The transactions run READ COMMITTED: a statement sees what had been     *)
(* committed when it began.  A refund holds the order's row lock from its  *)
(* first statement to its last, a renderer its ticket's; gates take        *)
(* neither before they update a ticket.  Refused scans are recorded and    *)
(* change nothing else, so they are not steps.                             *)
(***************************************************************************)
EXTENDS Naturals, FiniteSets

CONSTANTS Tickets,     \* tickets of the order, each with the seat it is for
          Gates,       \* turnstiles
          NoTicket,    \* a turnstile between scans
          MaxUndone    \* bound on the admissions undone for one ticket

ASSUME GateAssumption == /\ NoTicket \notin Tickets /\ IsFiniteSet(Tickets)
                         /\ MaxUndone \in Nat

VARIABLES event,       \* whether the event still admits: "open" or "cancelled"
          order,       \* orders.status
          ticket,      \* tickets.status
          seat,        \* the seat: booked by this ticket, free, or sold again
          admitted,    \* ticket_scans: ADMITTED records of the ticket
          undone,      \* ticket_scans: UNADMITTED records of the ticket
          gate,        \* the ticket each turnstile has looked up
          refund,      \* how far the box office's refund has got
          rendering    \* the status a renderer holding the row has read

scanVars == <<admitted, undone, gate>>
vars == <<event, order, ticket, seat, scanVars, refund, rendering>>

TicketStatus == {"ISSUED", "USED", "CANCELLED"}
Issued == {t \in Tickets : ticket[t] = "ISSUED"}
Used == {t \in Tickets : ticket[t] = "USED"}

NoRefund == [at |-> "idle"]
Refund == {NoRefund, [at |-> "unused"]} \cup [at: {"counted"}, unused: 0 .. Cardinality(Tickets)]

\* Rows have their types, the status a PDF writer took with it is one a ticket has,
\* and nobody is admitted oftener than his ticket was undone, and once more.
TypeOK ==
    /\ event \in {"open", "cancelled"}
    /\ order \in {"PAID", "REFUNDED", "CANCELLED"}
    /\ ticket \in [Tickets -> TicketStatus]
    /\ seat \in [Tickets -> {"BOOKED", "AVAILABLE", "resold"}]
    /\ admitted \in [Tickets -> 0 .. MaxUndone + 1]
    /\ undone \in [Tickets -> 0 .. MaxUndone]
    /\ gate \in [Gates -> Tickets \cup {NoTicket}]
    /\ refund \in Refund
    /\ rendering \in [Tickets -> TicketStatus \cup {"none"}]

Init ==
    /\ event = "open" /\ order = "PAID"
    /\ ticket = [t \in Tickets |-> "ISSUED"]
    /\ seat = [t \in Tickets |-> "BOOKED"]
    /\ admitted = [t \in Tickets |-> 0] /\ undone = [t \in Tickets |-> 0]
    /\ gate = [g \in Gates |-> NoTicket]
    /\ refund = NoRefund
    /\ rendering = [t \in Tickets |-> "none"]

-----------------------------------------------------------------------------
(* GateService                                                              *)

\* Nobody holds the ticket's row.
Unlocked(t) == rendering[t] = "none"

\* The ticket is looked up, and is not CANCELLED.
LookUp(g, t) ==
    /\ gate[g] = NoTicket
    /\ event = "open" /\ ticket[t] # "CANCELLED"
    /\ gate' = [gate EXCEPT ![g] = t]
    /\ UNCHANGED <<event, order, ticket, seat, admitted, undone, refund, rendering>>

\* Faulty variant: the update repeats the look-up's condition.
AdmitUnlessCancelled(g) ==
    LET t == gate[g]
    IN /\ t # NoTicket
       /\ Unlocked(t)
       /\ IF ticket[t] # "CANCELLED"
          THEN /\ ticket' = [ticket EXCEPT ![t] = "USED"]
               /\ admitted' = [admitted EXCEPT ![t] = @ + 1]
          ELSE UNCHANGED <<ticket, admitted>>
       /\ gate' = [gate EXCEPT ![g] = NoTicket]
       /\ UNCHANGED <<event, order, seat, undone, refund, rendering>>

\* The conditional update and its ADMITTED record commit together.
Admit(g) ==
    LET t == gate[g]
    IN /\ t # NoTicket
       /\ Unlocked(t)
       /\ IF ticket[t] = "ISSUED"
          THEN /\ ticket' = [ticket EXCEPT ![t] = "USED"]
               /\ admitted' = [admitted EXCEPT ![t] = @ + 1]
          ELSE UNCHANGED <<ticket, admitted>>
       /\ gate' = [gate EXCEPT ![g] = NoTicket]
       /\ UNCHANGED <<event, order, seat, undone, refund, rendering>>

Unadmit(t) ==
    /\ ticket[t] = "USED" /\ Unlocked(t)
    /\ undone[t] < MaxUndone
    /\ ticket' = [ticket EXCEPT ![t] = "ISSUED"]
    /\ undone' = [undone EXCEPT ![t] = @ + 1]
    /\ UNCHANGED <<event, order, seat, admitted, gate, refund, rendering>>

-----------------------------------------------------------------------------
(* TicketPdfService: the row is re-read under its lock, and written whole   *)

LockAndRead(t) ==
    /\ Unlocked(t)
    /\ rendering' = [rendering EXCEPT ![t] = ticket[t]]
    /\ UNCHANGED <<event, order, ticket, seat, scanVars, refund>>

\* Faulty variant: writes the row without having read it.
StorePdfUnread(t) ==
    /\ ticket' = [ticket EXCEPT ![t] = rendering[t]]
    /\ rendering' = [rendering EXCEPT ![t] = "none"]
    /\ UNCHANGED <<event, order, seat, scanVars, refund>>

StorePdf(t) ==
    /\ rendering[t] # "none"
    /\ ticket' = [ticket EXCEPT ![t] = rendering[t]]
    /\ rendering' = [rendering EXCEPT ![t] = "none"]
    /\ UNCHANGED <<event, order, seat, scanVars, refund>>

-----------------------------------------------------------------------------
(* What voids the order                                                     *)

\* Faulty variant: every seat of the order goes back on sale.
FreedAll == {t \in Tickets : seat[t] = "BOOKED"}

\* releaseBooked, of the tickets cancelIssued has moved.
Freed == {t \in Issued : seat[t] = "BOOKED"}

\* markRefunded, markDisputed: both go through voidTickets.
Void(newStatus) ==
    /\ \A t \in Issued : Unlocked(t)
    /\ order' = newStatus
    /\ ticket' = [t \in Tickets |-> IF ticket[t] = "ISSUED" THEN "CANCELLED" ELSE ticket[t]]
    /\ seat' = [t \in Tickets |-> IF t \in Freed THEN "AVAILABLE" ELSE seat[t]]

\* RefundService.decide: the order is locked, and no ticket is USED ...
CheckUsed ==
    /\ refund = NoRefund
    /\ order = "PAID" /\ Used = {}
    /\ refund' = [at |-> "unused"]
    /\ UNCHANGED <<event, order, ticket, seat, scanVars, rendering>>

\* ... the tickets still ISSUED are counted ...
CountUnused ==
    /\ refund.at = "unused"
    /\ refund' = [at |-> "counted", unused |-> Cardinality(Issued)]
    /\ UNCHANGED <<event, order, ticket, seat, scanVars, rendering>>

\* Faulty variant: what a refused refund has voided is kept.
VoidCountedNoRollback ==
    /\ refund.at = "counted"
    /\ IF Cardinality(Issued) = refund.unused THEN Void("REFUNDED") ELSE Void("PAID")
    /\ refund' = NoRefund
    /\ UNCHANGED <<event, scanVars, rendering>>

\* ... and voided; if that is not as many, all of it is undone.
VoidCounted ==
    /\ refund.at = "counted"
    /\ IF Cardinality(Issued) = refund.unused
       THEN Void("REFUNDED")
       ELSE UNCHANGED <<order, ticket, seat>>
    /\ refund' = NoRefund
    /\ UNCHANGED <<event, scanVars, rendering>>

\* The charge is disputed, or refunded in the provider's dashboard.
ProviderVoids(newStatus) ==
    /\ order = "PAID" /\ refund = NoRefund
    /\ Void(newStatus)
    /\ UNCHANGED <<event, scanVars, refund, rendering>>

\* The event is cancelled, and a paid order refunded with it.
CancelEvent ==
    /\ event = "open" /\ refund = NoRefund
    /\ event' = "cancelled"
    /\ IF order = "PAID" THEN Void("REFUNDED") ELSE UNCHANGED <<order, ticket, seat>>
    /\ UNCHANGED <<scanVars, refund, rendering>>

\* Another buyer takes and pays for a seat that is back on sale.
Resell(t) ==
    /\ event = "open" /\ seat[t] = "AVAILABLE"
    /\ seat' = [seat EXCEPT ![t] = "resold"]
    /\ UNCHANGED <<event, order, ticket, scanVars, refund, rendering>>

-----------------------------------------------------------------------------
TicketStep(t) ==
    \/ Unadmit(t) \/ LockAndRead(t) \/ StorePdf(t) \/ Resell(t)
    \/ \E g \in Gates : LookUp(g, t)

Next ==
    \/ \E t \in Tickets : TicketStep(t)
    \/ \E g \in Gates : Admit(g)
    \/ CheckUsed \/ CountUnused \/ VoidCounted
    \/ ProviderVoids("REFUNDED") \/ ProviderVoids("CANCELLED") \/ CancelEvent

Spec == Init /\ [][Next]_vars

-----------------------------------------------------------------------------
(* Properties                                                               *)

\* Of any number of scans racing on a ticket, undos, refunds and PDF renderings
\* among them, one lets somebody in: the scan record and the ticket agree.
AdmissionsBalance == \A t \in Tickets :
    admitted[t] = undone[t] + IF ticket[t] = "USED" THEN 1 ELSE 0

\* A ticket that admits, or has admitted, still has its seat: the seat is never
\* on sale or sold to somebody else.
LiveTicketHasItsSeat == \A t \in Tickets :
    ticket[t] # "CANCELLED" => seat[t] = "BOOKED"

\* A refund that a gate raced leaves no trace: a paid order keeps every ticket.
PaidTicketsStand == order = "PAID" => \A t \in Tickets : ticket[t] # "CANCELLED"

\* "Somebody has walked in on one of these tickets, so the money is not simply
\* owed back": the box office never refunds an order with a used ticket.
NoRefundWhileInside ==
    [][(refund.at = "counted" /\ order' = "REFUNDED") => Used' = {}]_vars

\* "Its tickets stop admitting anyone": nobody is let in on the ticket of an order
\* whose charge was disputed.
DisputedAdmitsNobody ==
    [][\A t \in Tickets : admitted'[t] > admitted[t] => order # "CANCELLED"]_vars
=============================================================================
