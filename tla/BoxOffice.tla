------------------------------ MODULE BoxOffice ------------------------------
(***************************************************************************)
(* One operator's box office: the page of an order, with its refund, and    *)
(* the page of an event's seats, with releases and blocks.  Both show the   *)
(* cached answer of a query and change what is behind it through requests   *)
(* that settle in any order, while gates, buyers, the refund reconciler,    *)
(* the provider and other operators change it too.  The seat page's cache   *)
(* is also patched by the broadcasts received while it is open.             *)
(*                                                                         *)
(* The order has one ticket, for one of the seats.  Disputes and event      *)
(* cancellations are left out: to the order's page they are refunds made    *)
(* elsewhere.  A button that is only dimmed while a request is under way    *)
(* can still be pressed from the keyboard.                                  *)
(***************************************************************************)
EXTENDS Integers, FiniteSets, SequencesExt

CONSTANTS SeatCount,    \* seats of the event; the order's is the first
          Charges,      \* payments of the order the provider took
          Buyers,
          PageSize,     \* PAGE_SIZE
          MaxTopic,     \* bound: broadcasts under way
          MaxElsewhere, \* bound: changes made by anybody else
          MaxAsked,     \* bound: how often this operator opens a page, comes back to it or asks
          Nothing       \* null: not fetched, no holder, no dialog, not refused

ASSUME BoxOfficeAssumption ==
    /\ {SeatCount, PageSize} \subseteq Nat \ {0}
    /\ {MaxTopic, MaxElsewhere, MaxAsked} \subseteq Nat
    /\ IsFiniteSet(Charges) /\ Charges # {} /\ Nothing \notin Buyers

VARIABLES sale,      \* the order, its ticket and its charges
          seat,      \* the rows of seats
          elsewhere, \* how many changes others have made
          asked,     \* and how often this operator asked
          topic,     \* broadcasts on their way to the open seat page
          screen,    \* which of the two pages is open
          query,     \* ["admin", "order", id] and ["admin", "seats", id]
          filter, page, confirming, \* SeatInspector's state
          request    \* the mutations' requests, in the order they were sent

serverVars == <<sale, seat>>
counts == <<elsewhere, asked>>
pageVars == <<screen, filter, page, confirming>>
vars == <<serverVars, counts, topic, query, pageVars, request>>

Seats == 1 .. SeatCount
Sold == 1

TicketState == {"ISSUED", "USED", "CANCELLED"}
ChargeState == {"SUCCEEDED", "REFUND_REQUIRED", "REFUNDED"}
Sale == [order: {"PAID", "REFUNDED"}, ticket: TicketState, charge: [Charges -> ChargeState]]

SeatState == {"AVAILABLE", "HELD", "BOOKED", "BLOCKED"}
SeatRow == [status: SeatState, heldBy: Buyers \cup {Nothing}]
SeatList == [Seats -> SeatRow]
Broadcast == [seat: Seats, status: SeatState]

Idle == [at |-> "idle"]
Asked == [at |-> "asked"]
Read(data) == [at |-> "read", data |-> data]
QueryOf(data) == [data: {Nothing} \cup data, failed: BOOLEAN,
                  fetch: {Idle, Asked} \cup {Read(d) : d \in data}]

MoneyOps == {"refund", "retry"}
SeatOps == {"release", "block", "unblock"}
Request == [op: MoneyOps \cup SeatOps, seat: Seats \cup {Nothing},
            at: {"sent", "asking", "answering", "settled"},
            owed: SUBSET Charges,          \* what the provider is being asked for
            answer: {"none", "ok", "refused", "lost"},
            detail: {Nothing} \cup Sale,   \* the order, as the answer has it
            heard: BOOLEAN]                \* mutate's own callbacks are still attached

\* Rows, caches and requests have their types: no broadcast is on its way to a page
\* that is not open.
TypeOK ==
    /\ sale \in Sale /\ seat \in SeatList /\ elsewhere \in 0 .. MaxElsewhere
    /\ asked \in 0 .. MaxAsked /\ topic \in Seq(Broadcast) /\ Len(topic) <= MaxTopic
    /\ screen \in {"order", "seats"} /\ (screen = "order" => topic = <<>>)
    /\ query.order \in QueryOf(Sale)
    /\ query.seats \in QueryOf(SeatList)
    /\ filter \in {""} \cup SeatState /\ page \in 0 .. SeatCount
    /\ confirming \in {Nothing} \cup [op: SeatOps, seat: Seats]
    /\ request \in Seq(Request) /\ Len(request) <= asked

-----------------------------------------------------------------------------
(* The order                                                                *)

Owed(s) == {c \in Charges : s.charge[c] = "REFUND_REQUIRED"}
Kept(s) == {c \in Charges : s.charge[c] = "SUCCEEDED"}

\* AdminOrderService.refundBlockedBy, and RefundService.decide's refusals
RefundBlockedBy(s) == CASE s.order # "PAID" -> "NOT_PAID"
                        [] s.order = "PAID" /\ Kept(s) = {} -> "NO_SETTLED_PAYMENT"
                        [] s.order = "PAID" /\ Kept(s) # {} /\ s.ticket = "USED" -> "TICKETS_USED"
                        [] OTHER -> Nothing

\* RefundPanel's three faces
Panel(s) == CASE RefundBlockedBy(s) = Nothing -> "refund"
              [] RefundBlockedBy(s) # Nothing /\ Owed(s) # {} -> "retry"
              [] OTHER -> "neither"

\* markRefunded: a ticket already used stays used, and its seat stays booked.
Voided(s) == [s EXCEPT !.order = "REFUNDED", !.ticket = IF @ = "ISSUED" THEN "CANCELLED" ELSE @]
Becomes(s, c, status) == [s EXCEPT !.charge = [x \in Charges |-> IF x = c THEN status ELSE @[x]]]
Repaid(s, C) == [s EXCEPT !.charge = [c \in Charges |-> IF c \in C THEN "REFUNDED" ELSE @[c]]]

-----------------------------------------------------------------------------
(* The seats                                                                *)

\* What an open seat page is told of a change; it is told nothing while its
\* connection is down.
Tells(s, status) ==
    topic' \in {topic} \cup IF screen = "seats" /\ Len(topic) < MaxTopic
                            THEN {Append(topic, [seat |-> s, status |-> status])} ELSE {}

Moves(s, status, holder) ==
    /\ seat' = [seat EXCEPT ![s] = [status |-> status, heldBy |-> holder]]
    /\ Tells(s, status)

\* releaseBooked, after a refund
FreesSeat == IF sale.ticket = "ISSUED" /\ seat[Sold].status = "BOOKED"
             THEN Moves(Sold, "AVAILABLE", Nothing)
             ELSE UNCHANGED <<seat, topic>>

\* The one status each action moves a seat from, and where to.
From == [release |-> "HELD", block |-> "AVAILABLE", unblock |-> "BLOCKED"]
To == [release |-> "AVAILABLE", block |-> "BLOCKED", unblock |-> "AVAILABLE"]

-----------------------------------------------------------------------------
(* The queries                                                              *)

\* Neither the spinner nor the error stands in for the page.
Shown(q) == query[q].data # Nothing /\ ~query[q].failed
OrderShown == screen = "order" /\ Shown("order")

\* invalidateQueries: where it is on screen, the query is fetched again, a fetch
\* under way starting over unless it is the first.
Refetched(q) == IF screen = q /\ (query[q].data # Nothing \/ query[q].fetch = Idle)
                THEN [query[q] EXCEPT !.fetch = Asked] ELSE query[q]

\* setQueryData: an error is forgotten, a fetch under way goes on.
WithData(q, data) == [query[q] EXCEPT !.data = data, !.failed = FALSE]

Fetching(q) == query[q].fetch # Idle
JoinFetch(q) == query' = [query EXCEPT ![q].fetch = IF Fetching(q) THEN @ ELSE Asked]

Focus ==
    /\ ~Fetching(screen) /\ JoinFetch(screen)
    /\ UNCHANGED <<serverVars, topic, pageVars, request>>

Answered(q) ==
    /\ query[q].fetch = Asked
    /\ query' = [query EXCEPT ![q].fetch = Read(IF q = "order" THEN sale ELSE seat)]
    /\ UNCHANGED <<serverVars, topic, pageVars, request>>

Fetched(q) ==
    /\ query[q].fetch.at = "read"
    /\ query' = [query EXCEPT ![q] = [data |-> @.fetch.data, failed |-> FALSE, fetch |-> Idle]]
    /\ UNCHANGED <<serverVars, topic, pageVars, request>>

\* A refetch that fails leaves the last answer cached.
FetchFails(q) ==
    /\ Fetching(q)
    /\ query' = [query EXCEPT ![q] = [data |-> @.data, failed |-> TRUE, fetch |-> Idle]]
    /\ UNCHANGED <<serverVars, topic, pageVars, request>>

\* A broadcast names no holder: onSeatChange keeps the one listed while the seat
\* is held, and nobody otherwise.
Patched(row, status) == [status |-> status, heldBy |-> IF status = "HELD" THEN row.heldBy ELSE Nothing]

Deliver ==
    /\ topic # <<>>
    /\ topic' = Tail(topic)
    /\ IF query.seats.data = Nothing THEN UNCHANGED query
       ELSE LET change == Head(topic)
                list == query.seats.data
            IN query' = [query EXCEPT !.seats =
                   WithData("seats", [list EXCEPT ![change.seat] = Patched(@, change.status)])]
    /\ UNCHANGED <<serverVars, pageVars, request>>

-----------------------------------------------------------------------------
(* The seat page                                                            *)

Rows == IF Shown("seats") THEN query.seats.data ELSE [s \in {} |-> Nothing]
Filtered == {s \in DOMAIN Rows : filter \in {"", Rows[s].status}}
TotalPages == Max({1, (Cardinality(Filtered) + PageSize - 1) \div PageSize})

\* Faulty variant: the page asked for, whether or not there still is one.
SafePageAsAsked == page

\* safePage: live updates shrink the filtered list under the operator.
SafePage == Min({page, TotalPages - 1})

\* The seats are listed in their order: where one stands among those filtered.
IndexOf(s) == Cardinality({t \in Filtered : t < s})
ShownRows == {s \in Filtered : IndexOf(s) \in SafePage * PageSize .. (SafePage + 1) * PageSize - 1}

PickFilter(status) ==
    /\ screen = "seats" /\ confirming = Nothing /\ status # filter
    /\ filter' = status /\ page' = 0
    /\ UNCHANGED <<serverVars, topic, query, screen, confirming, request>>

Turn(to) ==
    /\ screen = "seats" /\ confirming = Nothing
    /\ ShownRows # {} /\ to \in 0 .. TotalPages - 1
    /\ page' = to
    /\ UNCHANGED <<serverVars, topic, query, screen, filter, confirming, request>>

\* The one action a row offers
Offered(s) == {op \in SeatOps : From[op] = Rows[s].status}

Choose(s) ==
    /\ screen = "seats" /\ confirming = Nothing
    /\ s \in ShownRows
    /\ \E op \in Offered(s) : confirming' = [op |-> op, seat |-> s]
    /\ UNCHANGED <<serverVars, topic, query, screen, filter, page, request>>

-----------------------------------------------------------------------------
(* Asking                                                                   *)

\* isPending, of the last mutate of a hook
Pending(ops) == \E i \in DOMAIN request :
    request[i].op \in ops /\ request[i].heard /\ request[i].at # "settled"

\* A second mutate on one hook takes the first one's callbacks away.
Sends(op, s) ==
    /\ request' = Append([i \in DOMAIN request |->
                             [request[i] EXCEPT !.heard = @ /\ request[i].op # op]],
                         [op |-> op, seat |-> s, at |-> "sent", owed |-> {}, answer |-> "none",
                          detail |-> Nothing, heard |-> TRUE])
    /\ UNCHANGED <<serverVars, topic, query, pageVars>>

\* The form's reason has been given: without one nothing is sent.
Submit == OrderShown /\ Panel(query.order.data) = "refund" /\ Sends("refund", Nothing)

RetryNow == OrderShown /\ Panel(query.order.data) = "retry" /\ Sends("retry", Nothing)

Run == confirming # Nothing /\ Sends(confirming.op, confirming.seat)

Cancel ==
    /\ confirming # Nothing /\ ~Pending(SeatOps)
    /\ confirming' = Nothing
    /\ UNCHANGED <<serverVars, topic, query, screen, filter, page, request>>

\* The other page opens afresh, and its query is fetched, joining a fetch under
\* way; the page left behind loses what it kept, its subscription, and the
\* callbacks it passed to mutate.
Open(to) ==
    /\ screen # to /\ screen' = to
    /\ filter' = "" /\ page' = 0 /\ confirming' = Nothing /\ topic' = <<>>
    /\ request' = [i \in DOMAIN request |-> [request[i] EXCEPT !.heard = FALSE]]
    /\ JoinFetch(to)
    /\ UNCHANGED serverVars

-----------------------------------------------------------------------------
(* The booking service                                                      *)

Answers(i, answer, detail) ==
    request' = [request EXCEPT ![i] = [@ EXCEPT !.at = "answering", !.owed = {}, !.answer = answer, !.detail = detail]]
Asks(i, owed) == request' = [request EXCEPT ![i] = [@ EXCEPT !.at = "asking", !.owed = owed]]
Refuses(i) == Answers(i, "refused", Nothing) /\ UNCHANGED <<sale, seat, topic>>

\* refundOrder's decision, which commits before any money moves
DecideRefund(i) ==
    \/ RefundBlockedBy(sale) # Nothing /\ Refuses(i)
    \/ /\ RefundBlockedBy(sale) = Nothing
       /\ \E c \in Kept(sale) : sale' = Becomes(Voided(sale), c, "REFUND_REQUIRED") /\ Asks(i, {c})
       /\ FreesSeat

\* retryRefund
DecideRetry(i) ==
    \/ Owed(sale) = {} /\ Refuses(i)
    \/ Owed(sale) # {} /\ Asks(i, Owed(sale)) /\ UNCHANGED <<sale, seat, topic>>

\* attempt, of each charge that is still owed: the provider gives it back or
\* refuses; then the order is read again for the answer.
Attempt(i) ==
    /\ request[i].at = "asking"
    /\ \E given \in SUBSET (request[i].owed \cap Owed(sale)) :
          sale' = Repaid(sale, given) /\ Answers(i, "ok", sale')
    /\ UNCHANGED <<seat, topic>>

\* adminRelease, block and unblock
DecideSeat(i) ==
    LET op == request[i].op
        s == request[i].seat
    IN \/ seat[s].status # From[op] /\ Refuses(i)
       \/ /\ seat[s].status = From[op]
          /\ Moves(s, To[op], Nothing) /\ Answers(i, "ok", Nothing) /\ UNCHANGED sale

Decide(i) ==
    /\ \/ /\ request[i].at = "sent"
          /\ CASE request[i].op = "refund" -> DecideRefund(i)
               [] request[i].op = "retry" -> DecideRetry(i)
               [] OTHER -> DecideSeat(i)
       \/ Attempt(i)
    /\ UNCHANGED <<query, pageVars>>

\* The request never arrives, or the answer to what it did.
Lost(i) ==
    /\ \/ request[i].at = "sent"
       \/ request[i].at = "answering" /\ request[i].answer = "ok"
    /\ Answers(i, "lost", Nothing)
    /\ UNCHANGED <<serverVars, topic, query, pageVars>>

\* A gate admits the ticket or undoes it; somebody else asks for the refund, or
\* the provider makes it; the reconciler, or the provider's word, completes one.
SaleElsewhere ==
    \/ /\ sale.order = "PAID" /\ sale.ticket \in {"ISSUED", "USED"}
       /\ sale' = [sale EXCEPT !.ticket = IF @ = "USED" THEN "ISSUED" ELSE "USED"]
       /\ UNCHANGED <<seat, topic>>
    \/ /\ RefundBlockedBy(sale) = Nothing
       /\ \E c \in Kept(sale) : sale' = Becomes(Voided(sale), c, "REFUND_REQUIRED")
       /\ FreesSeat
    \/ /\ sale.order = "PAID"
       /\ \E c \in Kept(sale) : sale' = Becomes(Voided(sale), c, "REFUNDED")
       /\ FreesSeat
    \/ /\ \E c \in Owed(sale) : sale' = Becomes(sale, c, "REFUNDED")
       /\ UNCHANGED <<seat, topic>>

\* A buyer takes the seat, lets go of it or pays for it; another operator blocks
\* it or puts it back.
SeatElsewhere(s) ==
    /\ \/ seat[s].status = "AVAILABLE" /\ \E b \in Buyers : Moves(s, "HELD", b)
       \/ seat[s].status = "HELD" /\ Moves(s, "AVAILABLE", Nothing)
       \/ seat[s].status = "HELD" /\ Moves(s, "BOOKED", seat[s].heldBy)
       \/ seat[s].status = "AVAILABLE" /\ Moves(s, "BLOCKED", Nothing)
       \/ seat[s].status = "BLOCKED" /\ Moves(s, "AVAILABLE", Nothing)
    /\ UNCHANGED sale

Elsewhere ==
    /\ elsewhere < MaxElsewhere /\ elsewhere' = elsewhere + 1
    /\ SaleElsewhere \/ \E s \in Seats : SeatElsewhere(s)
    /\ UNCHANGED <<asked, query, pageVars, request>>

-----------------------------------------------------------------------------
(* Settling                                                                 *)

\* Faulty variant: only an answer is put on screen, a refusal is only told.
OrderAfterQuietly(r) ==
    IF r.op \in MoneyOps /\ r.answer = "ok" THEN WithData("order", r.detail) ELSE query.order

\* The order as the answer has it, or fetched again to show why it was refused.
OrderAfter(r) ==
    IF r.op \in SeatOps THEN query.order
    ELSE IF r.answer = "ok" THEN WithData("order", r.detail) ELSE Refetched("order")

\* Faulty variant: a refusal leaves the dialog to the operator.
ClosesDialogOnSuccess(r) == r.op \in SeatOps /\ r.heard /\ r.answer = "ok"

\* The dialog closes either way, if it is still there to hear.
ClosesDialog(r) == r.op \in SeatOps /\ r.heard

\* onSettled, mounted or not: a refund too may have freed a seat.
Settle(i) ==
    LET r == request[i]
    IN /\ r.at = "answering"
       /\ query' = [order |-> OrderAfter(r), seats |-> Refetched("seats")]
       /\ confirming' = IF ClosesDialog(r) THEN Nothing ELSE confirming
       /\ request' = [request EXCEPT ![i] = [@ EXCEPT !.at = "settled", !.detail = Nothing]]
       /\ UNCHANGED <<serverVars, topic, screen, filter, page>>

-----------------------------------------------------------------------------
\* A paid order, with any charge that should not have been made owed back already.
Init ==
    /\ \E paying \in Charges :
          sale = [order |-> "PAID", ticket |-> "ISSUED",
                  charge |-> [c \in Charges |-> IF c = paying THEN "SUCCEEDED" ELSE "REFUND_REQUIRED"]]
    /\ \E b \in Buyers : seat = [s \in Seats |-> IF s = Sold THEN [status |-> "BOOKED", heldBy |-> b]
                                                 ELSE [status |-> "AVAILABLE", heldBy |-> Nothing]]
    /\ elsewhere = 0 /\ asked = 0 /\ topic = <<>>
    /\ screen \in {"order", "seats"}
    /\ query = [q \in {"order", "seats"} |->
                   [data |-> Nothing, failed |-> FALSE, fetch |-> IF screen = q THEN Asked ELSE Idle]]
    /\ filter = "" /\ page = 0 /\ confirming = Nothing
    /\ request = <<>>

Asking ==
    /\ asked < MaxAsked /\ asked' = asked + 1
    /\ Focus \/ Submit \/ RetryNow \/ Run \/ \E to \in {"order", "seats"} : Open(to)
    /\ UNCHANGED elsewhere

Browsing ==
    /\ \/ \E status \in {""} \cup SeatState : PickFilter(status)
       \/ \E to \in {SafePage - 1, SafePage + 1} : Turn(to)
       \/ \E s \in Seats : Choose(s)
       \/ Cancel
    /\ UNCHANGED counts

Query(q) == (Answered(q) \/ Fetched(q)) /\ UNCHANGED counts
Serve(i) == (Decide(i) \/ Lost(i) \/ Settle(i)) /\ UNCHANGED counts

Next ==
    \/ Asking \/ Browsing \/ Elsewhere
    \/ Deliver /\ UNCHANGED counts
    \/ \E q \in {"order", "seats"} : Query(q) \/ (FetchFails(q) /\ UNCHANGED counts)
    \/ \E i \in DOMAIN request : Serve(i)

Spec == Init /\ [][Next]_vars

\* A request that is sent is decided or lost, and settles; a fetch is answered.
\* Nothing makes the operator act, and no broadcast need arrive.
FairSpec ==
    /\ Spec
    /\ \A q \in {"order", "seats"} : WF_vars(Query(q))
    /\ \A i \in 1 .. MaxAsked :
          WF_vars(i \in DOMAIN request /\ Serve(i))

-----------------------------------------------------------------------------
(* Properties                                                               *)

\* "Refused because the order moved on meanwhile ... show the operator what it
\* looks like now": what is being refused comes to be offered no more, unless the
\* service would grant it again or the page cannot be loaded.
Grants(r) == CASE r.op = "refund" -> RefundBlockedBy(sale) = Nothing
               [] r.op = "retry" -> Owed(sale) # {}
               [] OTHER -> seat[r.seat].status = From[r.op]
Offers(r) == CASE r.op \in MoneyOps -> Shown("order") /\ Panel(query.order.data) = r.op
               [] OTHER -> Shown("seats") /\ Rows[r.seat].status = From[r.op]
RefusalIsShown == \A i \in 1 .. MaxAsked :
    LET refused == i \in DOMAIN request /\ request[i].heard /\ request[i].answer = "refused"
    IN refused /\ request[i].at = "answering"
       ~> ~refused \/ ~Offers(request[i]) \/ Grants(request[i])

\* "A dialog that was told to close mid-flight would stay on screen": one whose
\* action was confirmed goes away, however often it was confirmed and whatever
\* came of it.
DialogCloses == confirming # Nothing /\ Pending(SeatOps) ~> confirming = Nothing

\* "Clamping keeps them on the last real page instead of an out-of-range one that
\* reads as 'no seats in that state'."
PageIsReal == Filtered # {} => ShownRows # {}

\* "Leaving the old one in place would show an available seat still named to
\* whoever last held it."
FreeSeatIsUnnamed == \A s \in DOMAIN Rows :
    Rows[s].status \in {"AVAILABLE", "BLOCKED"} => Rows[s].heldBy = Nothing

\* The table says of the seats what a reader would take it to say, whatever
\* changes under it.
TableIsTrue == PageIsReal /\ FreeSeatIsUnnamed

\* "The answer is the order as it now stands, shown at once": a page that showed
\* the order refunded does not go back to offering the refund.
RefundStaysShown == [][
    query.order.data # Nothing /\ query.order.data.order = "REFUNDED" /\ screen = "order"
    => query'.order.data.order = "REFUNDED"]_vars
=============================================================================
