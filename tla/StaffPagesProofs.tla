--------------------------- MODULE StaffPagesProofs ---------------------------
(***************************************************************************)
(* Theorems about the pages of the staff: about BoxOffice for any seats,    *)
(* charges, buyers and page size, and about the device in a steward's hand, *)
(* Scanner, for any tickets, events and requests under way.                 *)
(*                                                                         *)
(* The table of seats is cut from a list that changes under it.  The page   *)
(* on screen is clamped to what is left, so it shows a seat while any is;   *)
(* and whoever is named beside a seat was named by the service, since a     *)
(* broadcast that frees a seat takes the name away.                         *)
(***************************************************************************)
EXTENDS BoxOffice, Scanner, FiniteSetTheorems, WellFoundedInduction, TLAPS

\* A list of the event's seats that names nobody beside a seat nobody has.
Honest(list) ==
    /\ list = [s \in Seats |-> list[s]]
    /\ \A s \in Seats : list[s].status \in {"AVAILABLE", "BLOCKED"} => list[s].heldBy = Nothing

\* So is the list the seat page has, and the one it is about to have.
CacheIsHonest ==
    /\ query = [order |-> query.order, seats |-> query.seats]
    /\ query.seats = [data |-> query.seats.data, failed |-> query.seats.failed, fetch |-> query.seats.fetch]
    /\ query.seats.data # Nothing => Honest(query.seats.data)
    /\ query.seats.fetch.at = "read" => Honest(query.seats.fetch.data)

Inv == Honest(seat) /\ CacheIsHonest /\ page \in Nat

LEMMA Sizes == SeatCount \in Nat /\ PageSize \in Nat \ {0}
BY BoxOfficeAssumption DEF BoxOfficeAssumption

-----------------------------------------------------------------------------
(* Where a seat stands among some                                           *)

LEMMA Least ==
    ASSUME NEW S, S \subseteq Nat, S # {}
    PROVE  \E x \in S : \A y \in S : x <= y
<1>1. PICK x \in S : \A y \in S : ~(<<y, x>> \in OpToRel(<, Nat))
  BY NatLessThanWellFounded, WFMin
<1>2. \A y \in S : <<y, x>> \in Nat \X Nat
  OBVIOUS
<1>3. \A y \in S : ~(y < x)
  BY <1>1, <1>2, Zenon DEF OpToRel
<1> QED BY <1>3

LEMMA Finite ==
    ASSUME NEW n \in Nat, NEW S, S \subseteq 1 .. n
    PROVE  IsFiniteSet(S) /\ Cardinality(S) \in Nat
<1>1. IsFiniteSet(1 .. n)
  BY FS_Interval
<1>2. IsFiniteSet(S)
  BY <1>1, FS_Subset
<1> QED BY <1>2, FS_CardinalityType

\* The members of S that stand in front of s.
Before(S, s) == {t \in S : t < s}

\* Some numbers have a last one, and it stands behind all the others.
LEMMA LastOne ==
    ASSUME NEW n \in Nat, NEW S, S \subseteq 1 .. n, S # {}
    PROVE  \E x \in S : Cardinality(Before(S, x)) = Cardinality(S) - 1
<1> DEFINE Bounds == {m \in Nat : \A x \in S : x <= m}
<1>1. n \in Bounds
  OBVIOUS
<1>2. PICK m \in Bounds : \A b \in Bounds : m <= b
  BY <1>1, Least
<1>3. PICK z \in S : z \in 1 .. n /\ z <= m
  BY <1>2
<1>4. m - 1 \in Nat /\ ~(m <= m - 1)
  BY <1>3
<1>5. m - 1 \notin Bounds
  BY <1>2, <1>4
<1>6. PICK x \in S : ~(x <= m - 1)
  BY <1>4, <1>5
<1>7. x = m /\ x \in 1 .. n
  BY <1>2, <1>6
<1>8. Before(S, x) = S \ {x}
  <2>1. \A y \in S : y <= x /\ y \in 1 .. n
    BY <1>2, <1>7
  <2>2. \A y \in S : y < x <=> y # x
    BY <1>7, <2>1
  <2> QED BY <2>2 DEF Before
<1>9. Cardinality(S \ {x}) = Cardinality(S) - 1
  <2>1. IsFiniteSet(S)
    BY Finite
  <2> QED BY <1>6, <2>1, FS_RemoveElement
<1> QED BY <1>8, <1>9

\* Some number has any index below how many there are: the least of those whose
\* index is not too small.
LEMMA Indexed ==
    ASSUME NEW n \in Nat, NEW S, S \subseteq 1 .. n, NEW k \in Nat, k < Cardinality(S)
    PROVE  \E s \in S : Cardinality(Before(S, s)) = k
<1> DEFINE Far == {s \in S : Cardinality(Before(S, s)) >= k}
<1>1. Cardinality(S) \in Nat /\ S \subseteq Nat
  <2>1. Cardinality(S) \in Nat
    BY Finite
  <2> QED BY <2>1
<1>2. \A s \in S : Before(S, s) \subseteq 1 .. n /\ Before(S, s) \subseteq S
  BY DEF Before
<1>3. \A s \in S : Cardinality(Before(S, s)) \in Nat
  BY <1>2, Finite
<1>4. Far # {}
  <2>1. S # {}
    BY FS_EmptySet
  <2>2. PICK x \in S : Cardinality(Before(S, x)) = Cardinality(S) - 1
    BY <2>1, LastOne
  <2>3. Cardinality(Before(S, x)) >= k
    BY <1>1, <2>2
  <2> QED BY <2>3
<1>5. PICK s \in Far : \A f \in Far : s <= f
  BY <1>1, <1>4, Least
<1>6. s \in S /\ Cardinality(Before(S, s)) >= k /\ Cardinality(Before(S, s)) \in Nat
  BY <1>3, <1>5
<1>7. ASSUME Cardinality(Before(S, s)) > k PROVE FALSE
  <2>1. Before(S, s) # {}
    BY <1>7, FS_EmptySet
  <2>2. PICK p \in Before(S, s) :
           Cardinality(Before(Before(S, s), p)) = Cardinality(Before(S, s)) - 1
    BY <1>2, <1>6, <2>1, LastOne
  <2>3. p \in S /\ p < s
    BY <2>2 DEF Before
  <2>4. Before(Before(S, s), p) = Before(S, p)
    <3>1. \A y \in S : y < p => y < s
      BY <1>1, <1>6, <2>3
    <3> QED BY <3>1 DEF Before
  <2>5. Cardinality(Before(S, p)) >= k
    BY <1>6, <1>7, <2>2, <2>4
  <2>6. s <= p
    BY <1>5, <2>3, <2>5
  <2> QED BY <1>1, <1>6, <2>3, <2>6
<1> QED BY <1>6, <1>7

\* The pages that fill are as many as they have to be.
LEMMA PagesFill ==
    ASSUME NEW n \in Nat \ {0}, PageSize \in Nat \ {0}
    PROVE  /\ (n + PageSize - 1) \div PageSize \in Nat \ {0}
           /\ ((n + PageSize - 1) \div PageSize - 1) * PageSize < n
OBVIOUS

LEMMA PageStarts ==
    ASSUME NEW a \in Nat, NEW b \in Nat, a <= b, PageSize \in Nat \ {0}
    PROVE  /\ a * PageSize \in Nat /\ a * PageSize <= b * PageSize
           /\ a * PageSize \in a * PageSize .. (a + 1) * PageSize - 1
OBVIOUS

\* The page shown has a seat while one is left.
LEMMA ClampedPageIsReal == CacheIsHonest /\ page \in Nat => PageIsReal
<1> SUFFICES ASSUME CacheIsHonest, page \in Nat, Filtered # {} PROVE ShownRows # {}
  BY DEF PageIsReal
<1> DEFINE n == Cardinality(Filtered)
           q == (n + PageSize - 1) \div PageSize
<1>1. Filtered \subseteq 1 .. SeatCount /\ SeatCount \in Nat
  BY Sizes DEF Filtered, Rows, Shown, CacheIsHonest, Honest, Seats
<1>2. n \in Nat \ {0}
  <2>1. IsFiniteSet(Filtered)
    BY <1>1, Finite
  <2> QED BY <2>1, FS_CardinalityType, FS_EmptySet
<1>3. q \in Nat \ {0} /\ (q - 1) * PageSize < n
  BY <1>2, PagesFill, Sizes
<1> HIDE DEF q
<1>4. TotalPages = q
  <2>1. TotalPages = Max({1, q})
    BY DEF TotalPages, q
  <2> QED BY <1>3, <2>1 DEF Max
<1>5. SafePage \in Nat /\ SafePage <= q - 1
  BY <1>3, <1>4 DEF SafePage, Min
<1>6. SafePage * PageSize \in Nat /\ SafePage * PageSize < n
  <2>1. q - 1 \in Nat /\ (q - 1) * PageSize \in Nat
    BY <1>3, Sizes
  <2>2. SafePage * PageSize \in Nat /\ SafePage * PageSize <= (q - 1) * PageSize
    BY <1>5, <2>1, PageStarts, Sizes
  <2> QED BY <1>2, <1>3, <2>1, <2>2
<1>7. PICK s \in Filtered : IndexOf(s) = SafePage * PageSize
  <2>1. \E s \in Filtered : Cardinality(Before(Filtered, s)) = SafePage * PageSize
    BY <1>1, <1>6, Indexed
  <2>2. \A s \in Filtered : IndexOf(s) = Cardinality(Before(Filtered, s))
    BY DEF IndexOf, Before
  <2> QED BY <2>1, <2>2
<1>8. SafePage * PageSize \in SafePage * PageSize .. (SafePage + 1) * PageSize - 1
  BY <1>5, PageStarts, Sizes
<1> QED BY <1>7, <1>8 DEF ShownRows
-----------------------------------------------------------------------------
(* The rows, and the lists made of them                                     *)

\* A seat that becomes free loses its holder.
LEMMA MovesHonestly ==
    ASSUME Honest(seat), NEW s, NEW status, NEW holder, Moves(s, status, holder),
           status \in {"AVAILABLE", "BLOCKED"} => holder = Nothing
    PROVE  Honest(seat')
BY DEF Honest, Moves

LEMMA FreesHonestly == ASSUME Honest(seat), FreesSeat PROVE Honest(seat')
BY MovesHonestly DEF FreesSeat

LEMMA ServiceStaysHonest ==
    ASSUME Honest(seat), \/ Elsewhere
                         \/ \E i \in DOMAIN request : Decide(i)
    PROVE  Honest(seat')
<1>1. CASE SaleElsewhere
  BY <1>1, FreesHonestly DEF SaleElsewhere
<1>2. ASSUME NEW s \in Seats, SeatElsewhere(s) PROVE Honest(seat')
  BY <1>2, MovesHonestly DEF SeatElsewhere
<1>3. ASSUME NEW i \in DOMAIN request, Decide(i) PROVE Honest(seat')
  <2>1. CASE DecideRefund(i)
    BY <2>1, FreesHonestly DEF DecideRefund, Refuses
  <2>2. CASE DecideRetry(i)
    BY <2>2 DEF DecideRetry, Refuses
  <2>3. CASE DecideSeat(i)
    BY <2>3, MovesHonestly DEF DecideSeat, Refuses
  <2>4. CASE Attempt(i)
    BY <2>4 DEF Attempt
  <2> QED BY <1>3, <2>1, <2>2, <2>3, <2>4 DEF Decide
<1> QED BY <1>1, <1>2, <1>3 DEF Elsewhere

\* What becomes of the seat page's query: it is fetched again, read, landed,
\* failed, or patched.
LEMMA CacheStaysHonest ==
    ASSUME CacheIsHonest, Honest(seat),
           \/ query' = query
           \/ \E to : JoinFetch(to)
           \/ \E q \in {"order", "seats"} : Answered(q) \/ Fetched(q) \/ FetchFails(q)
           \/ \E i \in DOMAIN request : Settle(i)
           \/ Deliver
    PROVE  CacheIsHonest'
<1>1. Idle.at # "read" /\ Asked.at # "read" /\ \A d : Read(d).at = "read" /\ Read(d).data = d
  BY DEF Idle, Asked, Read
<1> HIDE DEF Idle, Asked, Read
<1>2. CASE query' = query
  BY <1>2 DEF CacheIsHonest
<1>3. ASSUME NEW to, JoinFetch(to) PROVE CacheIsHonest'
  <2>1. CASE to = "seats"
    <3>1. PICK f \in {query.seats.fetch, Asked} : query' = [query EXCEPT !.seats = [query.seats EXCEPT !.fetch = f]]
      BY <1>3, <2>1 DEF JoinFetch
    <3> QED BY <1>1, <3>1 DEF CacheIsHonest
  <2>2. CASE to # "seats"
    <3>1. query'.seats = query.seats /\ query' = [order |-> query'.order, seats |-> query'.seats]
      BY <1>3, <2>2 DEF JoinFetch, CacheIsHonest
    <3> QED BY <3>1 DEF CacheIsHonest
  <2> QED BY <2>1, <2>2
<1>4. ASSUME NEW q \in {"order", "seats"}, Answered(q) PROVE CacheIsHonest'
  <2>1. CASE q = "seats"
    <3>1. query' = [query EXCEPT !.seats = [query.seats EXCEPT !.fetch = Read(seat)]]
      BY <1>4, <2>1 DEF Answered
    <3> QED BY <1>1, <3>1 DEF CacheIsHonest
  <2>2. CASE q # "seats"
    <3>1. query'.seats = query.seats /\ query' = [order |-> query'.order, seats |-> query'.seats]
      BY <1>4, <2>2 DEF Answered, CacheIsHonest
    <3> QED BY <3>1 DEF CacheIsHonest
  <2> QED BY <2>1, <2>2
<1>5. ASSUME NEW q \in {"order", "seats"}, Fetched(q) PROVE CacheIsHonest'
  BY <1>1, <1>5 DEF CacheIsHonest, Fetched
<1>6. ASSUME NEW q \in {"order", "seats"}, FetchFails(q) PROVE CacheIsHonest'
  BY <1>1, <1>6 DEF CacheIsHonest, FetchFails
<1>7. ASSUME NEW i \in DOMAIN request, Settle(i) PROVE CacheIsHonest'
  <2>1. query' = [order |-> OrderAfter(request[i]), seats |-> Refetched("seats")]
    BY <1>7 DEF Settle
  <2>2. Refetched("seats") \in {query.seats, [query.seats EXCEPT !.fetch = Asked]}
    BY DEF Refetched
  <2> QED BY <1>1, <2>1, <2>2 DEF CacheIsHonest
<1>8. CASE Deliver
  <2>1. CASE query.seats.data = Nothing
    BY <1>8, <2>1, <1>2 DEF Deliver
  <2>2. CASE query.seats.data # Nothing
    <3> DEFINE change == Head(topic)
               list == query.seats.data
               patched == [list EXCEPT ![change.seat] = Patched(list[change.seat], change.status)]
    <3>1. query' = [query EXCEPT !.seats = [query.seats EXCEPT !.data = patched, !.failed = FALSE]]
      BY <1>8, <2>2 DEF Deliver, WithData
    <3>2. Honest(patched)
      BY <2>2 DEF CacheIsHonest, Honest, Patched
    <3> HIDE DEF patched
    <3> QED BY <3>1, <3>2 DEF CacheIsHonest
  <2> QED BY <2>1, <2>2
<1> QED BY <1>2, <1>3, <1>4, <1>5, <1>6, <1>7, <1>8

\* The operator may ask for any page, but for none before the first.
LEMMA PageStaysANumber ==
    ASSUME page \in Nat, [Next]_vars
    PROVE  page' \in Nat
<1>1. ASSUME NEW status, PickFilter(status) PROVE page' \in Nat
  BY <1>1 DEF PickFilter
<1>2. ASSUME NEW to, Turn(to) PROVE page' \in Nat
  BY <1>2 DEF Turn
<1>3. ASSUME NEW to, Open(to) PROVE page' \in Nat
  BY <1>3 DEF Open
<1>4. page' = page \/ (\E status : PickFilter(status)) \/ (\E to : Turn(to) \/ Open(to))
  BY DEF Next, vars, pageVars, Asking, Focus, Submit, RetryNow, Run, Sends, Browsing, Choose, Cancel, Elsewhere,
         Deliver, Query, Answered, Fetched, FetchFails, Serve, Decide, Lost, Settle
<1> QED BY <1>1, <1>2, <1>3, <1>4

-----------------------------------------------------------------------------
LEMMA BoxOfficeInit == Init => Inv
<1> SUFFICES ASSUME Init PROVE Inv
  OBVIOUS
<1>1. Honest(seat)
  <2>1. PICK b \in Buyers :
           seat = [s \in Seats |-> IF s = Sold THEN [status |-> "BOOKED", heldBy |-> b]
                                   ELSE [status |-> "AVAILABLE", heldBy |-> Nothing]]
    BY DEF Init
  <2> QED BY <2>1 DEF Honest
<1>2. CacheIsHonest
  BY DEF Init, CacheIsHonest, Idle, Asked
<1> QED BY <1>1, <1>2 DEF Init, Inv

LEMMA BoxOfficeStep == Inv /\ [Next]_vars => Inv'
<1> SUFFICES ASSUME Inv, [Next]_vars PROVE Inv'
  OBVIOUS
<1>1. seat' = seat \/ Elsewhere \/ \E i \in DOMAIN request : Decide(i)
  BY DEF Next, vars, serverVars, Asking, Focus, Submit, RetryNow, Run, Sends, Open, Browsing, PickFilter, Turn,
         Choose, Cancel, Deliver, Query, Answered, Fetched, FetchFails, Serve, Lost, Settle
<1>2. \/ query' = query
      \/ \E to : JoinFetch(to)
      \/ \E q \in {"order", "seats"} : Answered(q) \/ Fetched(q) \/ FetchFails(q)
      \/ \E i \in DOMAIN request : Settle(i)
      \/ Deliver
  <2>1. CASE Asking
    <3>1. CASE Focus
      <4>1. JoinFetch(screen)
        BY <3>1 DEF Focus
      <4> QED BY <4>1
    <3> QED BY <2>1, <3>1 DEF Asking, Submit, RetryNow, Run, Sends, Open
  <2>2. CASE Browsing
    BY <2>2 DEF Browsing, PickFilter, Turn, Choose, Cancel
  <2>3. CASE Elsewhere
    BY <2>3 DEF Elsewhere
  <2>4. ASSUME NEW i \in DOMAIN request, Serve(i) PROVE query' = query \/ Settle(i)
    BY <2>4 DEF Serve, Decide, Lost
  <2> QED BY <2>1, <2>2, <2>3, <2>4 DEF Next, vars, Query
<1>3. Honest(seat')
  BY <1>1, ServiceStaysHonest DEF Inv
<1>4. CacheIsHonest'
  BY <1>2, CacheStaysHonest DEF Inv
<1> QED BY <1>3, <1>4, PageStaysANumber DEF Inv

\* The table of seats shows a seat while any passes the filter, and names nobody
\* beside a free one, whatever refetches, answers and broadcasts came in between.
THEOREM SeatTableIsTrue == Spec => []TableIsTrue
<1>1. CacheIsHonest => FreeSeatIsUnnamed
  BY DEF CacheIsHonest, FreeSeatIsUnnamed, Rows, Shown, Honest
<1>2. Inv => TableIsTrue
  BY <1>1, ClampedPageIsReal DEF Inv, TableIsTrue
<1> QED BY <1>2, BoxOfficeInit, BoxOfficeStep, PTL DEF Spec
-----------------------------------------------------------------------------
(***************************************************************************)
(* The types of the box office.  A request about a seat names one, because  *)
(* only a dialog sends it and a dialog is about a row; so no broadcast is    *)
(* ever about nothing.  And the page asked for is one the seats can fill.    *)
(***************************************************************************)
BooksTyped ==
    /\ sale \in Sale /\ seat \in SeatList
    /\ topic \in Seq(Broadcast) /\ Len(topic) <= MaxTopic
    /\ screen \in {"order", "seats"} /\ (screen = "order" => topic = <<>>)

CachesTyped ==
    /\ query = [order |-> query.order, seats |-> query.seats]
    /\ query.order \in QueryOf(Sale) /\ query.seats \in QueryOf(SeatList)

PageTyped ==
    /\ filter \in {""} \cup SeatState /\ page \in 0 .. SeatCount
    /\ confirming \in {Nothing} \cup [op: SeatOps, seat: Seats]

AskedTyped ==
    /\ elsewhere \in 0 .. MaxElsewhere /\ asked \in 0 .. MaxAsked
    /\ request \in Seq(Request) /\ Len(request) <= asked
    /\ \A i \in DOMAIN request : request[i].op \in SeatOps => request[i].seat \in Seats

BoxTyped == BooksTyped /\ CachesTyped /\ PageTyped /\ AskedTyped

LEMMA Bounds == MaxTopic \in Nat /\ MaxElsewhere \in Nat /\ MaxAsked \in Nat
BY BoxOfficeAssumption DEF BoxOfficeAssumption

LEMMA SalesTyped ==
    ASSUME NEW s \in Sale
    PROVE  /\ Voided(s) \in Sale
           /\ \A c \in Charges, status \in ChargeState : Becomes(s, c, status) \in Sale
           /\ \A C : Repaid(s, C) \in Sale
BY DEF Voided, Becomes, Repaid, Sale, TicketState, ChargeState

LEMMA MovesTyped ==
    ASSUME BooksTyped, UNCHANGED screen, NEW s \in Seats, NEW status \in SeatState,
           NEW holder \in Buyers \cup {Nothing}, Moves(s, status, holder)
    PROVE  /\ seat' \in SeatList /\ topic' \in Seq(Broadcast) /\ Len(topic') <= MaxTopic
           /\ screen = "order" => topic' = <<>>
<1>1. seat' \in SeatList
  BY DEF BooksTyped, Moves, SeatList, SeatRow
<1>2. [seat |-> s, status |-> status] \in Broadcast
  BY DEF Broadcast
<1>3. \/ topic' = topic
      \/ screen = "seats" /\ Len(topic) < MaxTopic /\ topic' = Append(topic, [seat |-> s, status |-> status])
  BY DEF Moves, Tells
<1>4. topic \in Seq(Broadcast) /\ Len(topic) \in Nat /\ Len(topic) <= MaxTopic /\ MaxTopic \in Nat
  BY Bounds DEF BooksTyped
<1> QED BY <1>1, <1>2, <1>3, <1>4 DEF BooksTyped

LEMMA FreedTyped ==
    ASSUME BooksTyped, UNCHANGED screen, FreesSeat
    PROVE  /\ seat' \in SeatList /\ topic' \in Seq(Broadcast) /\ Len(topic') <= MaxTopic
           /\ screen = "order" => topic' = <<>>
<1>1. CASE Moves(Sold, "AVAILABLE", Nothing)
  <2>1. Sold \in Seats /\ "AVAILABLE" \in SeatState
    BY BoxOfficeAssumption DEF BoxOfficeAssumption, Sold, Seats, SeatState
  <2> QED BY <1>1, <2>1, MovesTyped
<1>2. CASE UNCHANGED <<seat, topic>>
  BY <1>2 DEF BooksTyped
<1> QED BY <1>1, <1>2 DEF FreesSeat

LEMMA OthersKeepBooks == ASSUME BooksTyped, Elsewhere PROVE BooksTyped'
<1>1. UNCHANGED screen /\ sale \in Sale
  BY DEF Elsewhere, pageVars, BooksTyped
<1>2. CASE SaleElsewhere
  <2>1. sale' \in Sale
    <3>1. [sale EXCEPT !.ticket = IF sale.ticket = "USED" THEN "ISSUED" ELSE "USED"] \in Sale
      BY <1>1 DEF Sale, TicketState
    <3>2. \A c \in Charges : /\ Becomes(Voided(sale), c, "REFUND_REQUIRED") \in Sale
                             /\ Becomes(Voided(sale), c, "REFUNDED") \in Sale
                             /\ Becomes(sale, c, "REFUNDED") \in Sale
      BY <1>1, SalesTyped DEF ChargeState
    <3> HIDE DEF Becomes, Voided
    <3> QED BY <1>2, <3>1, <3>2 DEF SaleElsewhere, Kept, Owed
  <2>2. FreesSeat \/ UNCHANGED <<seat, topic>>
    BY <1>2 DEF SaleElsewhere
  <2> QED BY <1>1, <2>1, <2>2, FreedTyped DEF BooksTyped
<1>3. ASSUME NEW s \in Seats, SeatElsewhere(s) PROVE BooksTyped'
  <2>1. \E status \in SeatState, holder \in Buyers \cup {Nothing} : Moves(s, status, holder)
    <3>1. seat[s].heldBy \in Buyers \cup {Nothing}
      BY DEF BooksTyped, SeatList, SeatRow
    <3>2. {"AVAILABLE", "HELD", "BOOKED", "BLOCKED"} \subseteq SeatState
      BY DEF SeatState
    <3> HIDE DEF Moves
    <3> QED BY <1>3, <3>1, <3>2 DEF SeatElsewhere
  <2>2. UNCHANGED sale
    BY <1>3 DEF SeatElsewhere
  <2> QED BY <1>1, <2>1, <2>2, MovesTyped DEF BooksTyped
<1> QED BY <1>2, <1>3 DEF Elsewhere

LEMMA DecisionsKeepBooks ==
    ASSUME BooksTyped, AskedTyped, NEW i \in DOMAIN request, Decide(i)
    PROVE  BooksTyped'
<1>1. UNCHANGED screen /\ sale \in Sale
  BY DEF Decide, pageVars, BooksTyped
<1>2. request[i] \in Request /\ (request[i].op \in SeatOps => request[i].seat \in Seats)
  BY DEF AskedTyped
<1>3. CASE DecideRefund(i)
  <2>1. \/ UNCHANGED <<sale, seat, topic>>
        \/ FreesSeat /\ \E c \in Charges : sale' = Becomes(Voided(sale), c, "REFUND_REQUIRED")
    BY <1>3 DEF DecideRefund, Refuses, Kept
  <2>2. \A c \in Charges : Becomes(Voided(sale), c, "REFUND_REQUIRED") \in Sale
    BY <1>1, SalesTyped DEF ChargeState
  <2> HIDE DEF Becomes, Voided, FreesSeat
  <2> QED BY <1>1, <2>1, <2>2, FreedTyped DEF BooksTyped
<1>4. CASE DecideRetry(i)
  BY <1>1, <1>4 DEF DecideRetry, Refuses, BooksTyped
<1>5. CASE DecideSeat(i) /\ request[i].op \in SeatOps
  <2>1. UNCHANGED <<sale, seat, topic>>
        \/ (UNCHANGED sale /\ Moves(request[i].seat, To[request[i].op], Nothing))
    BY <1>5 DEF DecideSeat, Refuses
  <2>2. To[request[i].op] \in SeatState
    BY <1>5 DEF To, SeatOps, SeatState
  <2> HIDE DEF Moves
  <2> QED BY <1>1, <1>2, <1>5, <2>1, <2>2, MovesTyped DEF BooksTyped
<1>6. CASE Attempt(i)
  <2>1. sale' \in Sale
    BY <1>1, <1>6, SalesTyped DEF Attempt
  <2> QED BY <1>1, <1>6, <2>1 DEF Attempt, BooksTyped
<1>7. request[i].op \in SeatOps \/ request[i].op \in MoneyOps
  BY <1>2 DEF Request
<1> QED BY <1>3, <1>4, <1>5, <1>6, <1>7 DEF Decide, MoneyOps

LEMMA BooksKeepTypes == ASSUME BoxTyped, [Next]_vars PROVE BooksTyped'
<1>1. BooksTyped /\ AskedTyped
  BY DEF BoxTyped
<1>2. CASE Deliver
  <2>1. topic \in Seq(Broadcast) /\ Len(topic) \in Nat /\ Len(topic) <= MaxTopic /\ MaxTopic \in Nat /\ topic # <<>>
    BY <1>1, <1>2, Bounds DEF BooksTyped, Deliver
  <2>2. Tail(topic) \in Seq(Broadcast) /\ Len(Tail(topic)) <= MaxTopic
    BY <2>1
  <2>3. UNCHANGED <<sale, seat, screen>> /\ topic' = Tail(topic)
    BY <1>2 DEF Deliver, serverVars, pageVars
  <2> QED BY <1>1, <2>1, <2>2, <2>3 DEF BooksTyped
<1>3. ASSUME NEW to \in {"order", "seats"}, Open(to) PROVE BooksTyped'
  <2>1. <<>> \in Seq(Broadcast) /\ Len(<<>>) <= MaxTopic
    BY Bounds
  <2> QED BY <1>1, <1>3, <2>1 DEF Open, serverVars, BooksTyped
<1>4. \/ UNCHANGED <<sale, seat, topic, screen>> \/ Elsewhere \/ Deliver
      \/ (\E i \in DOMAIN request : Decide(i)) \/ \E to \in {"order", "seats"} : Open(to)
  BY DEF Next, vars, serverVars, pageVars, Asking, Focus, Submit, RetryNow, Run, Sends, Browsing, PickFilter, Turn,
         Choose, Cancel, Query, Answered, Fetched, FetchFails, Serve, Lost, Settle
<1>5. CASE UNCHANGED <<sale, seat, topic, screen>>
  BY <1>1, <1>5 DEF BooksTyped
<1> QED BY <1>1, <1>2, <1>3, <1>4, <1>5, OthersKeepBooks, DecisionsKeepBooks

-----------------------------------------------------------------------------
(* What the page asks for                                                   *)

LEMMA FewPages == ASSUME CachesTyped PROVE TotalPages \in 1 .. SeatCount
<1> DEFINE n == Cardinality(Filtered)
           q == (n + PageSize - 1) \div PageSize
<1>1. SeatCount \in Nat \ {0} /\ PageSize \in Nat \ {0} /\ Filtered \subseteq 1 .. SeatCount
  BY BoxOfficeAssumption DEF BoxOfficeAssumption, Filtered, Rows, Shown, CachesTyped, QueryOf, SeatList, Seats
<1>2. n \in Nat /\ n <= SeatCount
  <2>1. IsFiniteSet(1 .. SeatCount) /\ Cardinality(1 .. SeatCount) = SeatCount
    BY <1>1, FS_Interval
  <2> QED BY <1>1, <2>1, FS_Subset, FS_CardinalityType
<1> HIDE DEF n
<1>3. q \in 0 .. SeatCount
  <2>1. CASE n = 0
    <3>1. (PageSize - 1) \div PageSize = 0
      BY <1>1
    <3> QED BY <1>1, <2>1, <3>1
  <2>2. CASE n # 0
    <3>1. q \in Nat \ {0} /\ (q - 1) * PageSize < n
      BY <1>1, <1>2, <2>2, PagesFill
    <3>2. ASSUME NEW a \in Nat, NEW b \in Nat \ {0} PROVE a * b \in Nat /\ a <= a * b
      OBVIOUS
    <3> HIDE DEF q
    <3>3. (q - 1) * PageSize \in Nat /\ q - 1 <= (q - 1) * PageSize
      BY <1>1, <3>1, <3>2
    <3> QED BY <1>1, <1>2, <3>1, <3>3
  <2> QED BY <2>1, <2>2
<1>4. TotalPages = Max({1, q})
  BY DEF TotalPages, n
<1> HIDE DEF q
<1>5. Max({1, q}) \in {1, q} /\ Max({1, q}) >= 1
  BY <1>1, <1>3 DEF Max
<1> QED BY <1>1, <1>3, <1>4, <1>5

LEMMA TablePageTyped == ASSUME BoxTyped, [Next]_vars PROVE PageTyped'
<1>1. PageTyped /\ CachesTyped /\ 0 \in 0 .. SeatCount
  BY Sizes DEF BoxTyped
<1>2. CASE \E status \in {""} \cup SeatState : PickFilter(status)
  BY <1>1, <1>2 DEF PickFilter, PageTyped
<1>3. CASE \E to : Turn(to)
  <2>1. page' \in 0 .. TotalPages - 1 /\ UNCHANGED <<filter, confirming>>
    BY <1>3 DEF Turn
  <2>2. page' \in 0 .. SeatCount
    BY <1>1, <2>1, FewPages, Sizes
  <2> QED BY <1>1, <2>1, <2>2 DEF PageTyped
<1>4. CASE \E s \in Seats : Choose(s)
  <2>1. PICK s \in Seats, op \in SeatOps : confirming' = [op |-> op, seat |-> s]
    BY <1>4 DEF Choose, Offered
  <2>2. UNCHANGED <<filter, page>>
    BY <1>4 DEF Choose
  <2> QED BY <1>1, <2>1, <2>2 DEF PageTyped
<1>5. CASE \E to : Open(to)
  BY <1>1, <1>5 DEF Open, PageTyped
<1>6. \/ (\E status \in {""} \cup SeatState : PickFilter(status)) \/ (\E to : Turn(to) \/ Open(to))
      \/ (\E s \in Seats : Choose(s)) \/ (UNCHANGED <<filter, page>> /\ confirming' \in {confirming, Nothing})
  BY DEF Next, vars, pageVars, Asking, Focus, Submit, RetryNow, Run, Sends, Browsing, Cancel, Elsewhere,
         Deliver, Query, Answered, Fetched, FetchFails, Serve, Decide, Lost, Settle
<1>7. CASE UNCHANGED <<filter, page>> /\ confirming' \in {confirming, Nothing}
  BY <1>1, <1>7 DEF PageTyped
<1> QED BY <1>2, <1>3, <1>4, <1>5, <1>6, <1>7

-----------------------------------------------------------------------------
(* The requests                                                             *)

\* A request that goes on stays about what it was about.
LEMMA EditedTyped ==
    ASSUME AskedTyped, UNCHANGED counts, NEW i \in DOMAIN request, NEW r \in Request,
           r.op = request[i].op, r.seat = request[i].seat, request' = [request EXCEPT ![i] = r]
    PROVE  AskedTyped'
<1>1. request \in Seq(Request) /\ DOMAIN request = 1 .. Len(request) /\ Len(request) \in Nat
  BY DEF AskedTyped
<1>2. request' \in Seq(Request) /\ Len(request') = Len(request)
  BY <1>1
<1>3. \A j \in DOMAIN request : request'[j].op = request[j].op /\ request'[j].seat = request[j].seat
  BY <1>1
<1>4. DOMAIN request' = DOMAIN request
  BY <1>1
<1> QED BY <1>2, <1>3, <1>4 DEF AskedTyped, counts

LEMMA ServedTyped ==
    ASSUME BoxTyped, NEW i \in DOMAIN request, Serve(i), sale' \in Sale
    PROVE  AskedTyped'
<1>1. AskedTyped /\ UNCHANGED counts /\ request[i] \in Request
  BY DEF BoxTyped, AskedTyped, Serve
<1>2. ASSUME NEW answer \in {"ok", "refused", "lost"}, NEW detail \in {Nothing} \cup Sale, Answers(i, answer, detail)
      PROVE  AskedTyped'
  <2> DEFINE r == [request[i] EXCEPT !.at = "answering", !.owed = {}, !.answer = answer, !.detail = detail]
  <2>1. r \in Request /\ r.op = request[i].op /\ r.seat = request[i].seat
    BY <1>1 DEF Request
  <2>2. request' = [request EXCEPT ![i] = r]
    BY <1>2 DEF Answers
  <2> HIDE DEF r
  <2> QED BY <1>1, <2>1, <2>2, EditedTyped
<1>3. ASSUME NEW owed \in SUBSET Charges, Asks(i, owed) PROVE AskedTyped'
  <2> DEFINE r == [request[i] EXCEPT !.at = "asking", !.owed = owed]
  <2>1. r \in Request /\ r.op = request[i].op /\ r.seat = request[i].seat
    BY <1>1 DEF Request
  <2>2. request' = [request EXCEPT ![i] = r]
    BY <1>3 DEF Asks
  <2> HIDE DEF r
  <2> QED BY <1>1, <2>1, <2>2, EditedTyped
<1>4. CASE Settle(i)
  <2> DEFINE r == [request[i] EXCEPT !.at = "settled", !.detail = Nothing]
  <2>1. r \in Request /\ r.op = request[i].op /\ r.seat = request[i].seat
    BY <1>1 DEF Request
  <2>2. request' = [request EXCEPT ![i] = r]
    BY <1>4 DEF Settle
  <2> HIDE DEF r
  <2> QED BY <1>1, <2>1, <2>2, EditedTyped
<1>5. \/ \E answer \in {"ok", "refused", "lost"}, detail \in {Nothing} \cup Sale : Answers(i, answer, detail)
      \/ \E owed \in SUBSET Charges : Asks(i, owed)
      \/ Settle(i)
  <2>1. CASE Lost(i)
    BY <2>1 DEF Lost
  <2>2. CASE DecideRefund(i) \/ DecideRetry(i) \/ DecideSeat(i)
    BY <2>2 DEF DecideRefund, DecideRetry, DecideSeat, Refuses, Kept, Owed
  <2>3. CASE Attempt(i)
    BY <2>3 DEF Attempt
  <2> QED BY <2>1, <2>2, <2>3 DEF Serve, Decide
<1> QED BY <1>2, <1>3, <1>4, <1>5

LEMMA SentTyped ==
    ASSUME AskedTyped, asked < MaxAsked, asked' = asked + 1, UNCHANGED elsewhere,
           NEW op \in MoneyOps \cup SeatOps, NEW s \in Seats \cup {Nothing}, op \in SeatOps => s \in Seats,
           Sends(op, s)
    PROVE  AskedTyped'
<1> DEFINE quiet == [i \in DOMAIN request |-> [request[i] EXCEPT !.heard = @ /\ request[i].op # op]]
           r == [op |-> op, seat |-> s, at |-> "sent", owed |-> {}, answer |-> "none", detail |-> Nothing,
                 heard |-> TRUE]
<1>1. request \in Seq(Request) /\ Len(request) \in Nat /\ Len(request) <= asked /\ DOMAIN request = 1 .. Len(request)
  BY DEF AskedTyped
<1>2. \A i \in DOMAIN request : /\ quiet[i] \in Request
                                /\ quiet[i].op = request[i].op /\ quiet[i].seat = request[i].seat
  <2>1. \A q \in Request, b \in BOOLEAN : LET e == [q EXCEPT !.heard = b]
                                          IN e \in Request /\ e.op = q.op /\ e.seat = q.seat
    BY DEF Request
  <2>2. \A i \in DOMAIN request : request[i] \in Request /\ request[i].heard \in BOOLEAN
    <3>1. \A i \in DOMAIN request : request[i] \in Request
      BY <1>1
    <3>2. \A q \in Request : q.heard \in BOOLEAN
      BY DEF Request
    <3> QED BY <3>1, <3>2
  <2> QED BY <2>1, <2>2
<1>3. quiet \in Seq(Request) /\ Len(quiet) = Len(request)
  <2>1. quiet \in [1 .. Len(request) -> Request]
    BY <1>1, <1>2
  <2> QED BY <1>1, <2>1
<1>4. r \in Request
  BY DEF Request
<1>5. request' = Append(quiet, r)
  BY DEF Sends
<1>6. \A i \in DOMAIN request : quiet[i].op \in SeatOps => quiet[i].seat \in Seats
  BY <1>2 DEF AskedTyped
<1>7. r.op \in SeatOps => r.seat \in Seats
  OBVIOUS
<1>8. DOMAIN quiet = DOMAIN request
  OBVIOUS
<1> HIDE DEF quiet, r
<1>9. request' \in Seq(Request) /\ Len(request') = Len(request) + 1
  BY <1>3, <1>4, <1>5
<1>10. \A i \in DOMAIN request' : request'[i].op \in SeatOps => request'[i].seat \in Seats
  <2>1. \A i \in DOMAIN request' : (i \in DOMAIN request /\ request'[i] = quiet[i]) \/ request'[i] = r
    BY <1>1, <1>3, <1>4, <1>5
  <2> QED BY <1>6, <1>7, <2>1
<1>11. asked' \in 0 .. MaxAsked /\ Len(request) + 1 <= asked'
  BY <1>1, Bounds DEF AskedTyped
<1> QED BY <1>9, <1>10, <1>11 DEF AskedTyped

\* An operator who leaves a page is not told any more.
LEMMA LeftTyped ==
    ASSUME AskedTyped, asked < MaxAsked, asked' = asked + 1, UNCHANGED elsewhere, NEW to, Open(to)
    PROVE  AskedTyped'
<1> DEFINE deaf == [i \in DOMAIN request |-> [request[i] EXCEPT !.heard = FALSE]]
<1>1. request \in Seq(Request) /\ Len(request) \in Nat /\ Len(request) <= asked /\ DOMAIN request = 1 .. Len(request)
  BY DEF AskedTyped
<1>2. \A i \in DOMAIN request : /\ deaf[i] \in Request
                                /\ deaf[i].op = request[i].op /\ deaf[i].seat = request[i].seat
  <2>1. \A q \in Request : LET e == [q EXCEPT !.heard = FALSE]
                           IN e \in Request /\ e.op = q.op /\ e.seat = q.seat
    BY DEF Request
  <2>2. \A i \in DOMAIN request : request[i] \in Request
    BY <1>1
  <2> QED BY <2>1, <2>2
<1>3. deaf \in Seq(Request) /\ Len(deaf) = Len(request) /\ DOMAIN deaf = DOMAIN request
  <2>1. deaf \in [1 .. Len(request) -> Request]
    BY <1>1, <1>2
  <2> QED BY <1>1, <2>1
<1>4. request' = deaf
  BY DEF Open
<1> HIDE DEF deaf
<1>5. asked' \in 0 .. MaxAsked /\ Len(request) <= asked'
  BY <1>1, Bounds DEF AskedTyped
<1>6. \A i \in DOMAIN deaf : deaf[i].op \in SeatOps => deaf[i].seat \in Seats
  BY <1>2, <1>3 DEF AskedTyped
<1> QED BY <1>3, <1>4, <1>5, <1>6 DEF AskedTyped

LEMMA AskedKeepsTypes == ASSUME BoxTyped, [Next]_vars PROVE AskedTyped'
<1>1. AskedTyped /\ PageTyped
  BY DEF BoxTyped
<1>2. CASE Asking
  <2>1. asked < MaxAsked /\ asked' = asked + 1 /\ UNCHANGED elsewhere
    BY <1>2 DEF Asking
  <2>2. CASE Focus
    <3>1. asked' \in 0 .. MaxAsked /\ Len(request) <= asked'
      BY <1>1, <2>1, Bounds DEF AskedTyped
    <3> QED BY <1>1, <2>1, <2>2, <3>1 DEF Focus, AskedTyped
  <2>3. CASE Submit \/ RetryNow
    <3>1. (Sends("refund", Nothing) \/ Sends("retry", Nothing))
          /\ {"refund", "retry"} \subseteq MoneyOps /\ {"refund", "retry"} \cap SeatOps = {}
      BY <2>3 DEF Submit, RetryNow, MoneyOps, SeatOps
    <3> HIDE DEF Sends
    <3> QED BY <1>1, <2>1, <3>1, SentTyped
  <2>4. CASE Run
    <3>1. confirming.op \in SeatOps /\ confirming.seat \in Seats /\ Sends(confirming.op, confirming.seat)
      BY <1>1, <2>4 DEF Run, PageTyped
    <3> QED BY <1>1, <2>1, <3>1, SentTyped
  <2>5. ASSUME NEW to, Open(to) PROVE AskedTyped'
    BY <1>1, <2>1, <2>5, LeftTyped
  <2> QED BY <1>2, <2>2, <2>3, <2>4, <2>5 DEF Asking
<1>3. CASE Elsewhere
  <2>1. elsewhere' \in 0 .. MaxElsewhere /\ UNCHANGED <<asked, request>>
    BY <1>1, <1>3, Bounds DEF Elsewhere, AskedTyped
  <2> QED BY <1>1, <2>1 DEF AskedTyped
<1>4. ASSUME NEW i \in DOMAIN request, Serve(i) PROVE AskedTyped'
  <2>1. sale' \in Sale
    BY BooksKeepTypes DEF BooksTyped
  <2> QED BY <1>4, <2>1, ServedTyped
<1>5. CASE UNCHANGED <<elsewhere, asked, request>>
  BY <1>1, <1>5 DEF AskedTyped
<1>6. UNCHANGED <<elsewhere, asked, request>> \/ Asking \/ Elsewhere \/ \E i \in DOMAIN request : Serve(i)
  BY DEF Next, vars, counts, Browsing, PickFilter, Turn, Choose, Cancel, Deliver, Query, Answered, Fetched, FetchFails
<1> QED BY <1>2, <1>3, <1>4, <1>5, <1>6

-----------------------------------------------------------------------------
(* The queries                                                              *)

LEMMA QueriesTyped ==
    ASSUME NEW D, NEW q \in QueryOf(D)
    PROVE  /\ [q EXCEPT !.fetch = Asked] \in QueryOf(D)
           /\ q.fetch.at = "read" => q.fetch.data \in D
           /\ \A d \in D : [q EXCEPT !.fetch = Read(d)] \in QueryOf(D)
           /\ \A d \in {Nothing} \cup D, failed \in BOOLEAN :
                 [data |-> d, failed |-> failed, fetch |-> Idle] \in QueryOf(D)
           /\ \A d \in {Nothing} \cup D : [q EXCEPT !.data = d, !.failed = FALSE] \in QueryOf(D)
<1>1. Idle.at # "read" /\ Asked.at # "read" /\ \A d : Read(d).data = d
  BY DEF Idle, Asked, Read
<1> DEFINE Fetches == {Idle, Asked} \cup {Read(d) : d \in D}
<1>2. QueryOf(D) = [data: {Nothing} \cup D, failed: BOOLEAN, fetch: Fetches]
  BY DEF QueryOf
<1>3. Idle \in Fetches /\ Asked \in Fetches /\ \A d \in D : Read(d) \in Fetches
  OBVIOUS
<1>4. \A f \in Fetches : f.at = "read" => f.data \in D
  BY <1>1
<1> HIDE DEF Idle, Asked, Read, Fetches
<1>5. [q EXCEPT !.fetch = Asked] \in QueryOf(D) /\ (q.fetch.at = "read" => q.fetch.data \in D)
  BY <1>2, <1>3, <1>4
<1>6. \A d \in D : [q EXCEPT !.fetch = Read(d)] \in QueryOf(D)
  BY <1>2, <1>3
<1>7. \A d \in {Nothing} \cup D, failed \in BOOLEAN : [data |-> d, failed |-> failed, fetch |-> Idle] \in QueryOf(D)
  BY <1>2, <1>3
<1>8. \A d \in {Nothing} \cup D : [q EXCEPT !.data = d, !.failed = FALSE] \in QueryOf(D)
  <2> TAKE d \in {Nothing} \cup D
  <2>1. q \in [data: {Nothing} \cup D, failed: BOOLEAN, fetch: Fetches]
    BY <1>2
  <2>2. [q EXCEPT !.data = d, !.failed = FALSE] \in [data: {Nothing} \cup D, failed: BOOLEAN, fetch: Fetches]
    BY <2>1
  <2> QED BY <1>2, <2>2
<1> QED BY <1>5, <1>6, <1>7, <1>8

LEMMA CachesKeepTypes == ASSUME BoxTyped, [Next]_vars PROVE CachesTyped'
<1>1. /\ query = [order |-> query.order, seats |-> query.seats]
      /\ query.order \in QueryOf(Sale) /\ query.seats \in QueryOf(SeatList)
      /\ sale \in Sale /\ seat \in SeatList
  BY DEF BoxTyped, BooksTyped, CachesTyped
<1>2. ASSUME NEW q \in {"order", "seats"}, JoinFetch(q) PROVE CachesTyped'
  <2>1. query' = query \/ query' = [query EXCEPT ![q] = [query[q] EXCEPT !.fetch = Asked]]
    BY <1>1, <1>2 DEF JoinFetch, QueryOf
  <2>2. [query.order EXCEPT !.fetch = Asked] \in QueryOf(Sale)
    BY <1>1, QueriesTyped
  <2>3. [query.seats EXCEPT !.fetch = Asked] \in QueryOf(SeatList)
    BY <1>1, QueriesTyped
  <2> HIDE DEF QueryOf, Asked
  <2> QED BY <1>1, <2>1, <2>2, <2>3 DEF CachesTyped
<1>3. ASSUME NEW q \in {"order", "seats"}, Answered(q) PROVE CachesTyped'
  <2>1. query' = [query EXCEPT ![q] = [query[q] EXCEPT !.fetch = Read(IF q = "order" THEN sale ELSE seat)]]
    BY <1>3 DEF Answered
  <2>2. [query.order EXCEPT !.fetch = Read(sale)] \in QueryOf(Sale)
    BY <1>1, QueriesTyped
  <2>3. [query.seats EXCEPT !.fetch = Read(seat)] \in QueryOf(SeatList)
    BY <1>1, QueriesTyped
  <2> QED BY <1>1, <2>1, <2>2, <2>3 DEF CachesTyped
<1>4. ASSUME NEW q \in {"order", "seats"}, Fetched(q) PROVE CachesTyped'
  <2>1. query' = [query EXCEPT ![q] = [data |-> query[q].fetch.data, failed |-> FALSE, fetch |-> Idle]]
        /\ query[q].fetch.at = "read"
    BY <1>4 DEF Fetched
  <2>2. q = "order" => [data |-> query.order.fetch.data, failed |-> FALSE, fetch |-> Idle] \in QueryOf(Sale)
    BY <1>1, <2>1, QueriesTyped
  <2>3. q = "seats" => [data |-> query.seats.fetch.data, failed |-> FALSE, fetch |-> Idle] \in QueryOf(SeatList)
    BY <1>1, <2>1, QueriesTyped
  <2> QED BY <1>1, <2>1, <2>2, <2>3 DEF CachesTyped
<1>5. ASSUME NEW q \in {"order", "seats"}, FetchFails(q) PROVE CachesTyped'
  <2>1. query' = [query EXCEPT ![q] = [data |-> query[q].data, failed |-> TRUE, fetch |-> Idle]]
    BY <1>5 DEF FetchFails
  <2>2. query.order.data \in {Nothing} \cup Sale /\ query.seats.data \in {Nothing} \cup SeatList
    BY <1>1 DEF QueryOf
  <2>3. [data |-> query.order.data, failed |-> TRUE, fetch |-> Idle] \in QueryOf(Sale)
    BY <1>1, <2>2, QueriesTyped
  <2>4. [data |-> query.seats.data, failed |-> TRUE, fetch |-> Idle] \in QueryOf(SeatList)
    BY <1>1, <2>2, QueriesTyped
  <2> QED BY <1>1, <2>1, <2>3, <2>4 DEF CachesTyped
<1>6. ASSUME NEW i \in DOMAIN request, Settle(i) PROVE CachesTyped'
  <2>1. query' = [order |-> OrderAfter(request[i]), seats |-> Refetched("seats")]
    BY <1>6 DEF Settle
  <2>2. request[i].detail \in {Nothing} \cup Sale
    <3>1. request[i] \in Request
      BY DEF BoxTyped, AskedTyped
    <3> QED BY <3>1 DEF Request
  <2>3. Refetched("seats") \in QueryOf(SeatList)
    BY <1>1, QueriesTyped DEF Refetched
  <2>4. OrderAfter(request[i]) \in QueryOf(Sale)
    BY <1>1, <2>2, QueriesTyped DEF OrderAfter, WithData, Refetched
  <2> HIDE DEF OrderAfter, Refetched, QueryOf
  <2> QED BY <2>1, <2>3, <2>4 DEF CachesTyped
<1>7. CASE Deliver
  <2>1. CASE query.seats.data = Nothing
    BY <1>1, <1>7, <2>1 DEF Deliver, CachesTyped
  <2>2. CASE query.seats.data # Nothing
    <3> DEFINE change == Head(topic)
               list == query.seats.data
               patched == [list EXCEPT ![change.seat] = Patched(list[change.seat], change.status)]
    <3>1. query' = [query EXCEPT !.seats = [query.seats EXCEPT !.data = patched, !.failed = FALSE]]
      BY <1>7, <2>2 DEF Deliver, WithData
    <3>2. list \in SeatList /\ change \in Broadcast
      BY <1>1, <1>7, <2>2 DEF QueryOf, Deliver, BoxTyped, BooksTyped
    <3>3. patched \in SeatList
      BY <3>2 DEF SeatList, SeatRow, Broadcast, Patched
    <3> HIDE DEF patched
    <3>4. [query.seats EXCEPT !.data = patched, !.failed = FALSE] \in QueryOf(SeatList)
      BY <1>1, <3>3, QueriesTyped
    <3> QED BY <1>1, <3>1, <3>4 DEF CachesTyped
  <2> QED BY <2>1, <2>2
<1>8. \/ query' = query \/ Deliver
      \/ \E q \in {"order", "seats"} : JoinFetch(q) \/ Answered(q) \/ Fetched(q) \/ FetchFails(q)
      \/ \E i \in DOMAIN request : Settle(i)
  <2>1. CASE Asking
    <3>1. CASE Focus
      <4>1. JoinFetch(screen) /\ screen \in {"order", "seats"}
        BY <3>1 DEF Focus, BoxTyped, BooksTyped
      <4> QED BY <4>1
    <3> QED BY <2>1, <3>1 DEF Asking, Submit, RetryNow, Run, Sends, Open
  <2>2. CASE Browsing \/ Elsewhere
    BY <2>2 DEF Browsing, PickFilter, Turn, Choose, Cancel, Elsewhere
  <2>3. ASSUME NEW i \in DOMAIN request, Serve(i) PROVE query' = query \/ Settle(i)
    BY <2>3 DEF Serve, Decide, Lost
  <2> QED BY <2>1, <2>2, <2>3 DEF Next, vars, Query
<1> QED BY <1>1, <1>2, <1>3, <1>4, <1>5, <1>6, <1>7, <1>8 DEF CachesTyped

\* The order, the seats, what either page has of them, and what it asked are what
\* their types say; a request about a seat names one.
THEOREM BoxOfficeTyping == Spec => []TypeOK
<1>1. Init => BoxTyped
  <2> SUFFICES ASSUME Init PROVE BoxTyped
    OBVIOUS
  <2>1. BooksTyped
    <3>1. sale \in Sale
      <4>1. PICK paying \in Charges :
               sale = [order |-> "PAID", ticket |-> "ISSUED",
                       charge |-> [c \in Charges |-> IF c = paying THEN "SUCCEEDED" ELSE "REFUND_REQUIRED"]]
        BY DEF Init
      <4> QED BY <4>1 DEF Sale, TicketState, ChargeState
    <3>2. seat \in SeatList
      <4>1. PICK b \in Buyers :
               seat = [s \in Seats |-> IF s = Sold THEN [status |-> "BOOKED", heldBy |-> b]
                                       ELSE [status |-> "AVAILABLE", heldBy |-> Nothing]]
        BY DEF Init
      <4> QED BY <4>1 DEF SeatList, SeatRow, SeatState
    <3>3. <<>> \in Seq(Broadcast) /\ Len(<<>>) <= MaxTopic
      BY Bounds
    <3> QED BY <3>1, <3>2, <3>3 DEF Init, BooksTyped
  <2>2. CachesTyped
    <3>1. \A D : \A fetch \in {Asked, Idle} : [data |-> Nothing, failed |-> FALSE, fetch |-> fetch] \in QueryOf(D)
      BY DEF QueryOf
    <3> HIDE DEF QueryOf, Asked, Idle
    <3> QED BY <3>1 DEF Init, CachesTyped
  <2>3. PageTyped
    <3>1. 0 \in 0 .. SeatCount
      BY Sizes
    <3> QED BY <3>1 DEF Init, PageTyped
  <2>4. AskedTyped
    <3>1. <<>> \in Seq(Request) /\ Len(<<>>) = 0 /\ DOMAIN <<>> = {}
      OBVIOUS
    <3>2. 0 \in 0 .. MaxElsewhere /\ 0 \in 0 .. MaxAsked /\ 0 <= 0
      BY Bounds
    <3>3. request = <<>> /\ elsewhere = 0 /\ asked = 0
      BY DEF Init
    <3> QED BY <3>1, <3>2, <3>3 DEF AskedTyped
  <2> QED BY <2>1, <2>2, <2>3, <2>4 DEF BoxTyped
<1>2. BoxTyped /\ [Next]_vars => BoxTyped'
  BY BooksKeepTypes, CachesKeepTypes, TablePageTyped, AskedKeepsTypes DEF BoxTyped
<1>3. BoxTyped => TypeOK
  BY DEF BoxTyped, BooksTyped, CachesTyped, PageTyped, AskedTyped, TypeOK
<1> QED BY <1>1, <1>2, <1>3, PTL DEF Spec

-----------------------------------------------------------------------------
(***************************************************************************)
(* The device.  detect() is asked by the loop of one start and answers     *)
(* later, so what it finds is good for the event of that start's closure.  *)
(* It is the event chosen now because every change of event ends the       *)
(* current start: a start that is still current was pressed for the event  *)
(* on screen.                                                              *)
(***************************************************************************)
\* The start that is still wanted was pressed for the event chosen.
CurrentIsForThisGate == current # NoStart => current.event = eventId

\* Only starts are prompted for, play, loop and ask for frames.
StartsOnly ==
    /\ prompting \cup playing \cup loops \subseteq Start
    /\ detecting # NoDetect => detecting.by \in Start

ScansTyped == scan = [i \in Scans |-> scan[i]]
EventTyped == eventId \in Events \cup {NoEvent}

DeviceInv ==
    /\ CurrentIsForThisGate /\ StartsOnly /\ ScansTyped /\ EventTyped
    /\ NoStart \notin Start

-----------------------------------------------------------------------------
LEMMA DeviceStarts == DeviceInit => DeviceInv
BY ScannerAssumption DEF ScannerAssumption, DeviceInit, DeviceInv, CurrentIsForThisGate, StartsOnly, ScansTyped,
       EventTyped, Start

\* What touches neither the camera nor the event.
LEMMA RestKeepsDevice ==
    ASSUME DeviceInv, UNCHANGED <<eventId, cameraVars, detecting>>, ScansTyped'
    PROVE  DeviceInv'
BY DEF DeviceInv, CurrentIsForThisGate, StartsOnly, EventTyped, cameraVars

LEMMA SubmitTyped ==
    ASSUME ScansTyped, NEW c, NEW e, SubmitCode(c, e)
    PROVE  /\ ScansTyped'
           /\ \A i \in Scans : scan[i] = NoRequest /\ scan'[i] # NoRequest => scan'[i].event = e
<1>1. PICK i \in Scans : scan' = [scan EXCEPT ![i] = [at |-> "sent", of |-> c, event |-> e]]
  BY DEF SubmitCode
<1> QED BY <1>1 DEF ScansTyped

LEMMA StopKeepsDevice ==
    ASSUME DeviceInv, StopCamera, UNCHANGED <<prompting, playing>>,
           detecting' \in {detecting, NoDetect}, ScansTyped', EventTyped'
    PROVE  DeviceInv'
BY DEF DeviceInv, StopCamera, CurrentIsForThisGate, StartsOnly

LEMMA CameraKeepsDevice ==
    ASSUME DeviceInv,
           \/ \E p \in Presses : StartCamera(p)
           \/ \E s \in Start : CameraStep(s)
    PROVE  DeviceInv'
<1> USE DEF DeviceInv, CurrentIsForThisGate, StartsOnly, ScansTyped, EventTyped, scanVars
<1>1. ASSUME NEW p \in Presses, StartCamera(p) PROVE DeviceInv'
  <2> DEFINE s == [press |-> p, event |-> eventId]
  <2>1. s.event = eventId
    OBVIOUS
  <2>2. s \in Start
    BY DEF Start
  <2> HIDE DEF s
  <2> QED BY <1>1, <2>1, <2>2 DEF StartCamera, s
<1>2. ASSUME NEW s \in Start, StreamGranted(s) \/ CameraFails(s) \/ Running(s)
      PROVE  DeviceInv'
  BY <1>2 DEF StreamGranted, CameraFails, Running
<1>3. ASSUME NEW s \in Start, Tick(s) PROVE DeviceInv'
  <2>1. detecting' = detecting \/ \E c \in Codes : detecting' = [by |-> s, code |-> c]
    BY <1>3 DEF Tick
  <2>2. detecting' # NoDetect => detecting'.by \in Start
    BY <2>1
  <2> QED BY <1>3, <2>2 DEF Tick
<1> QED BY <1>1, <1>2, <1>3 DEF CameraStep

\* A frame read for the start that is current stops the camera and submits its
\* code; one read for another is dropped.
LEMMA DetectedKeepsDevice ==
    ASSUME DeviceInv, Detected
    PROVE  /\ DeviceInv'
           /\ \A i \in Scans : scan[i] = NoRequest /\ scan'[i] # NoRequest => scan'[i].event = eventId'
<1> USE DEF DeviceInv
<1>1. CASE current = detecting.by
  <2>1. detecting.by.event = eventId
    BY <1>1 DEF Detected, StartsOnly, CurrentIsForThisGate, Start
  <2>2. StopCamera /\ UNCHANGED <<prompting, playing, eventId>> /\ detecting' = NoDetect
    BY <1>1 DEF Detected
  <2>3. EventTyped'
    BY <2>2 DEF EventTyped
  <2>4. CASE SubmitCode(detecting.code, detecting.by.event)
    <3>1. ScansTyped'
      BY <2>4, SubmitTyped
    <3>2. \A i \in Scans : scan[i] = NoRequest /\ scan'[i] # NoRequest => scan'[i].event = eventId
      BY <2>1, <2>4, SubmitTyped
    <3>3. DeviceInv'
      BY <2>2, <2>3, <3>1, StopKeepsDevice
    <3> QED BY <2>2, <3>2, <3>3
  <2>5. CASE UNCHANGED scanVars
    <3>1. ScansTyped' /\ scan' = scan
      BY <2>5 DEF scanVars, ScansTyped
    <3>2. DeviceInv'
      BY <2>2, <2>3, <3>1, StopKeepsDevice
    <3> QED BY <3>1, <3>2
  <2> QED BY <1>1, <2>4, <2>5 DEF Detected
<1>2. CASE current # detecting.by
  <2>1. UNCHANGED <<eventId, current, prompting, playing, loops, scan>> /\ detecting' = NoDetect
    BY <1>2 DEF Detected, scanVars
  <2>2. DeviceInv'
    BY <2>1 DEF CurrentIsForThisGate, StartsOnly, ScansTyped, EventTyped
  <2> QED BY <2>1, <2>2
<1> QED BY <1>1, <1>2

LEMMA DeviceStepKeepsInv == DeviceInv /\ [DeviceNext]_deviceVars => DeviceInv'
<1> SUFFICES ASSUME DeviceInv, [DeviceNext]_deviceVars PROVE DeviceInv'
  OBVIOUS
<1>1. ASSUME NEW i \in Scans, DecideScan(i) \/ ScanLost(i) \/ ScanAnswered(i) PROVE DeviceInv'
  <2>1. UNCHANGED <<eventId, cameraVars, detecting>> /\ ScansTyped'
    BY <1>1 DEF DeviceInv, DecideScan, ScanLost, ScanAnswered, AnswerTo, ScansTyped
  <2> QED BY <2>1, RestKeepsDevice
<1>2. ASSUME NEW c \in Codes, PasteAndVerify(c) PROVE DeviceInv'
  <2>1. UNCHANGED <<eventId, cameraVars, detecting>> /\ ScansTyped'
    BY <1>2, SubmitTyped DEF DeviceInv, PasteAndVerify
  <2> QED BY <2>1, RestKeepsDevice
<1>3. ASSUME \/ \E e \in Events : CountStep(e)
             \/ UndoAdmission \/ Unadmit \/ UndoAnswered \/ OtherGates
      PROVE  DeviceInv'
  <2>1. UNCHANGED <<eventId, cameraVars, detecting, scan>>
    BY <1>3 DEF CountStep, Refetch, ReadAdmissions, RefetchFails,
                AdmissionsFetched, UndoAdmission, Unadmit, UndoAnswered, OtherGates,
                scanVars
  <2>2. ScansTyped'
    BY <2>1 DEF DeviceInv, ScansTyped
  <2> QED BY <2>1, <2>2, RestKeepsDevice
<1>4. ASSUME NEW e \in Events \cup {NoEvent}, ChooseEvent(e) PROVE DeviceInv'
  <2>1. StopCamera /\ UNCHANGED <<prompting, playing, detecting, scan>> /\ EventTyped'
    BY <1>4 DEF ChooseEvent, EventTyped
  <2>2. ScansTyped'
    BY <2>1 DEF DeviceInv, ScansTyped
  <2> QED BY <2>1, <2>2, StopKeepsDevice
<1>5. CASE PressStop
  <2>1. StopCamera /\ UNCHANGED <<eventId, prompting, playing, detecting, scan>>
    BY <1>5 DEF PressStop, scanVars
  <2>2. ScansTyped' /\ EventTyped'
    BY <2>1 DEF DeviceInv, ScansTyped, EventTyped
  <2> QED BY <2>1, <2>2, StopKeepsDevice
<1>6. CASE Leave
  BY <1>6 DEF DeviceInv, Leave, CurrentIsForThisGate, StartsOnly, ScansTyped, EventTyped
<1>7. CASE UNCHANGED deviceVars
  <2>1. UNCHANGED <<eventId, cameraVars, detecting, scan>>
    BY <1>7 DEF deviceVars, scanVars
  <2>2. ScansTyped'
    BY <2>1 DEF DeviceInv, ScansTyped
  <2> QED BY <2>1, <2>2, RestKeepsDevice
<1> QED BY <1>1, <1>2, <1>3, <1>4, <1>5, <1>6, <1>7, CameraKeepsDevice, DetectedKeepsDevice DEF DeviceNext

\* A code the camera reads is checked against the event chosen now, however long
\* detect() took and whatever was pressed meanwhile.
THEOREM CameraIsOfThisGate == DeviceSpec => CameraScansThisGate
<1> DEFINE Scanned(i) ==
        /\ detecting # NoDetect /\ detecting' = NoDetect
        /\ scan[i] = NoRequest /\ scan'[i] # NoRequest
<1>1. DeviceInv /\ [DeviceNext]_deviceVars
      => [\A i \in Scans : Scanned(i) => scan'[i].event = eventId']_deviceVars
  <2> SUFFICES ASSUME DeviceInv, DeviceNext, NEW i \in Scans, Scanned(i) PROVE scan'[i].event = eventId'
    OBVIOUS
  <2>1. ASSUME NEW s \in Start, CameraStep(s) PROVE FALSE
    BY <2>1 DEF CameraStep, StreamGranted, CameraFails, Running, Tick,
                scanVars
  <2>2. CASE Detected
    BY <2>2, DetectedKeepsDevice
  <2>3. CASE Leave
    BY <2>3 DEF Leave
  <2>4. CASE UNCHANGED detecting
    BY <2>4
  <2> QED BY <2>1, <2>2, <2>3, <2>4
             DEF DeviceNext, StartCamera, PasteAndVerify, DecideScan, ScanLost,
                 ScanAnswered, CountStep, Refetch, ReadAdmissions,
                 RefetchFails, AdmissionsFetched, ChooseEvent, PressStop,
                 UndoAdmission, Unadmit, UndoAnswered, OtherGates
<1> QED BY <1>1, DeviceStarts, DeviceStepKeepsInv, PTL DEF DeviceSpec, CameraScansThisGate

-----------------------------------------------------------------------------
(***************************************************************************)
(* What the device shows has the right type.  A verdict other than a        *)
(* refusal is about a ticket of the event, so an undo is too; and a count   *)
(* on its way was taken of the tickets, one more for the ticket that was    *)
(* not yet used, or one less for one that was.                              *)
(***************************************************************************)
Decided == {"admitted", "already"}

VerdictsAreReal ==
    /\ outcome.kind \in Decided => outcome.of \in Tickets
    /\ \A i \in Scans : scan[i].at = "answered" /\ scan[i].result \in Decided => scan[i].of \in Tickets
    /\ undo # NoRequest => undo.of \in Tickets

UsedAt(e) == {t \in Tickets : EventOf[t] = e /\ ticket[t] = "USED"}

LEMMA AdmittedIsACount ==
    ASSUME NEW e
    PROVE  IsFiniteSet(UsedAt(e)) /\ Admitted(e) = Cardinality(UsedAt(e)) /\ Admitted(e) \in Counts
<1>1. UsedAt(e) \subseteq Tickets /\ IsFiniteSet(Tickets)
  BY ScannerAssumption DEF ScannerAssumption, UsedAt
<1>2. IsFiniteSet(UsedAt(e)) /\ Cardinality(UsedAt(e)) <= Cardinality(Tickets)
  BY <1>1, FS_Subset
<1>3. Cardinality(UsedAt(e)) \in Nat /\ Cardinality(Tickets) \in Nat
  BY <1>1, <1>2, FS_CardinalityType
<1>4. Admitted(e) = Cardinality(UsedAt(e))
  BY DEF Admitted, UsedAt
<1> QED BY <1>2, <1>3, <1>4 DEF Counts

\* There is room for a ticket that is not used yet.
LEMMA OneMore ==
    ASSUME NEW t \in Tickets, ticket[t] # "USED"
    PROVE  Admitted(EventOf[t]) + 1 \in Counts
<1> DEFINE S == UsedAt(EventOf[t])
<1>1. S \cup {t} \subseteq Tickets /\ t \notin S /\ IsFiniteSet(Tickets)
  BY ScannerAssumption DEF ScannerAssumption, UsedAt
<1>2. IsFiniteSet(S) /\ Admitted(EventOf[t]) = Cardinality(S) /\ Cardinality(S) \in Nat
  BY AdmittedIsACount DEF Counts
<1> HIDE DEF S
<1>3. Cardinality(S \cup {t}) = Cardinality(S) + 1
  BY <1>1, <1>2, FS_AddElement
<1>4. Cardinality(S \cup {t}) <= Cardinality(Tickets) /\ Cardinality(Tickets) \in Nat
  BY <1>1, FS_Subset, FS_CardinalityType
<1> QED BY <1>2, <1>3, <1>4 DEF Counts

\* A used ticket has been counted.
LEMMA OneLess ==
    ASSUME NEW t \in Tickets, ticket[t] = "USED"
    PROVE  Admitted(EventOf[t]) - 1 \in Counts
<1>1. IsFiniteSet(UsedAt(EventOf[t])) /\ t \in UsedAt(EventOf[t])
  BY AdmittedIsACount DEF UsedAt
<1>2. Cardinality(UsedAt(EventOf[t])) # 0
  BY <1>1, FS_EmptySet
<1>3. Admitted(EventOf[t]) # 0 /\ Admitted(EventOf[t]) \in Counts /\ Cardinality(Tickets) \in Nat
  BY <1>2, AdmittedIsACount, ScannerAssumption, FS_CardinalityType DEF ScannerAssumption
<1> QED BY <1>3 DEF Counts

LEMMA NoTicketsCounted == 0 \in Counts /\ Counts \subseteq Int
BY ScannerAssumption, FS_CardinalityType DEF ScannerAssumption, Counts

\* The camera's part of the types, and the rest.
CameraTyped ==
    /\ camera \in CameraKind
    /\ {current, streamRef, loopRef} \subseteq Start \cup {NoStart}
    /\ prompting \cup playing \cup live \cup loops \subseteq Start
    /\ detecting \in {NoDetect} \cup [by: Start, code: Codes]
    /\ streamRef # NoStart => streamRef \in live

RestTyped ==
    /\ ticket \in [Tickets -> TicketStatus]
    /\ eventId \in Events \cup {NoEvent}
    /\ outcome \in Card
    /\ scan \in [Scans -> {NoRequest} \cup ScanInput \cup ScanAnswer]
    /\ watched \in Scans \cup {NoScan}
    /\ undo \in {NoRequest} \cup Undoing \cup Undone /\ undoWatched \in BOOLEAN
    /\ shown \in [Events -> Counts]
    /\ poll \in [Events -> {NoRequest} \cup Poll]

DeviceTyped == CameraTyped /\ RestTyped /\ VerdictsAreReal

LEMMA StopTyped ==
    ASSUME CameraTyped, StopCamera, UNCHANGED <<prompting, playing>>, detecting' \in {detecting, NoDetect}
    PROVE  CameraTyped'
BY DEF CameraTyped, StopCamera, CameraKind

LEMMA CameraStepTyped ==
    ASSUME DeviceTyped, \/ \E p \in Presses : StartCamera(p)
                        \/ \E s \in Start : CameraStep(s)
    PROVE  DeviceTyped'
<1>1. CameraTyped /\ RestTyped /\ VerdictsAreReal
  BY DEF DeviceTyped
<1>2. RestTyped' /\ VerdictsAreReal'
  BY <1>1 DEF StartCamera, CameraStep, StreamGranted, CameraFails, Running, Tick, scanVars, countVars,
              RestTyped, VerdictsAreReal
<1>3. ASSUME NEW p \in Presses, StartCamera(p) PROVE CameraTyped'
  <2>1. [press |-> p, event |-> eventId] \in Start
    BY <1>1 DEF RestTyped, Start
  <2> QED BY <1>1, <1>3, <2>1 DEF StartCamera, CameraTyped
<1>4. ASSUME NEW s \in Start, CameraStep(s) PROVE CameraTyped'
  <2>1. CASE StreamGranted(s) \/ CameraFails(s) \/ Running(s)
    BY <1>1, <2>1 DEF StreamGranted, CameraFails, Running, CameraTyped, CameraKind
  <2>2. CASE Tick(s)
    <3>1. detecting' \in {NoDetect} \cup [by: Start, code: Codes]
      BY <1>1, <2>2 DEF Tick, CameraTyped
    <3> QED BY <1>1, <2>2, <3>1 DEF Tick, CameraTyped
  <2> QED BY <1>4, <2>1, <2>2 DEF CameraStep
<1> QED BY <1>2, <1>3, <1>4 DEF DeviceTyped

LEMMA SubmitKeepsTypes ==
    ASSUME RestTyped, VerdictsAreReal, NEW c \in Codes, NEW e \in Events, SubmitCode(c, e),
           UNCHANGED <<ticket, eventId, outcome, countVars>>
    PROVE  RestTyped' /\ VerdictsAreReal'
<1>1. PICK i \in Scans : scan[i] = NoRequest /\ scan' = [scan EXCEPT ![i] = [at |-> "sent", of |-> c, event |-> e]]
                         /\ watched' = i /\ undoWatched' = FALSE /\ undo' = undo
  BY DEF SubmitCode
<1>2. [at |-> "sent", of |-> c, event |-> e] \in ScanInput
  BY DEF ScanInput
<1>3. RestTyped'
  BY <1>1, <1>2 DEF RestTyped, countVars
<1>4. VerdictsAreReal'
  BY <1>1 DEF VerdictsAreReal, RestTyped
<1> QED BY <1>3, <1>4

\* An answer on its way to the page.
LEMMA AnswerKeepsTypes ==
    ASSUME RestTyped, VerdictsAreReal, NEW i \in Scans, scan[i].at = "sent",
           NEW result \in Verdicts, NEW count \in Counts, AnswerTo(i, result, count),
           result \in Decided => scan[i].of \in Tickets,
           ticket' \in [Tickets -> TicketStatus],
           UNCHANGED <<eventId, outcome, watched, undo, undoWatched, countVars>>
    PROVE  RestTyped' /\ VerdictsAreReal'
<1> DEFINE answer == [at |-> "answered", of |-> scan[i].of, event |-> scan[i].event, result |-> result, count |-> count]
<1>1. scan[i] \in ScanInput
  BY DEF RestTyped, ScanAnswer, NoRequest
<1>2. answer \in ScanAnswer
  BY <1>1 DEF ScanInput, ScanAnswer
<1>3. scan' = [scan EXCEPT ![i] = answer]
  BY DEF AnswerTo
<1>4. answer.result \in Decided => answer.of \in Tickets
  OBVIOUS
<1> HIDE DEF answer
<1>5. RestTyped'
  BY <1>2, <1>3 DEF RestTyped, countVars
<1>6. VerdictsAreReal'
  BY <1>3, <1>4 DEF VerdictsAreReal, RestTyped
<1> QED BY <1>5, <1>6

LEMMA DecideKeepsTypes ==
    ASSUME RestTyped, VerdictsAreReal, NEW i \in Scans, DecideScan(i) \/ ScanLost(i)
    PROVE  RestTyped' /\ VerdictsAreReal'
<1>1. scan[i].at = "sent" /\ UNCHANGED <<eventId, outcome, watched, undo, undoWatched, countVars>>
  BY DEF DecideScan, ScanLost
<1>2. scan[i] \in ScanInput
  BY <1>1 DEF RestTyped, ScanAnswer, NoRequest
<1> DEFINE c == scan[i].of
           e == scan[i].event
           verdict == Verdict(c, e)
           count == Admitted(e) + IF verdict = "admitted" THEN 1 ELSE 0
<1>3. verdict \in Verdicts /\ "refused" \in Verdicts /\ "refused" \notin Decided
  BY DEF Verdict, Verdicts, Decided
<1>4. verdict \in Decided => c \in Tickets /\ EventOf[c] = e
  BY DEF Verdict, Decided
<1>5. verdict = "admitted" => ticket[c] # "USED"
  BY DEF Verdict
<1>6. count \in Counts
  <2>1. CASE verdict = "admitted"
    <3>1. c \in Tickets /\ EventOf[c] = e
      BY <1>4, <2>1 DEF Decided
    <3> QED BY <1>5, <2>1, <3>1, OneMore
  <2>2. CASE verdict # "admitted"
    <3>1. Admitted(e) \in Counts /\ Admitted(e) + 0 = Admitted(e)
      BY AdmittedIsACount DEF Counts
    <3> QED BY <2>2, <3>1
  <2> QED BY <2>1, <2>2
<1>7. ticket' \in [Tickets -> TicketStatus]
  BY DEF DecideScan, ScanLost, RestTyped, TicketStatus
<1>8. AnswerTo(i, verdict, count) \/ AnswerTo(i, "refused", 0)
  BY DEF DecideScan, ScanLost
<1> HIDE DEF verdict, count
<1>9. CASE AnswerTo(i, verdict, count)
  BY <1>1, <1>3, <1>4, <1>6, <1>7, <1>9, AnswerKeepsTypes
<1>10. CASE AnswerTo(i, "refused", 0)
  BY <1>1, <1>3, <1>7, <1>10, NoTicketsCounted, AnswerKeepsTypes
<1> QED BY <1>8, <1>9, <1>10

LEMMA AnsweredKeepsTypes ==
    ASSUME RestTyped, VerdictsAreReal, NEW i \in Scans, ScanAnswered(i)
    PROVE  RestTyped' /\ VerdictsAreReal'
<1>1. scan[i] \in ScanAnswer
  BY DEF ScanAnswered, RestTyped, ScanInput, NoRequest
<1> DEFINE a == scan[i]
           card == [kind |-> a.result, of |-> a.of, checked |-> a.event]
<1>2. card \in Card /\ (card.kind \in Decided => card.of \in Tickets)
  BY <1>1 DEF Card, ScanAnswer, ScanAnswered, VerdictsAreReal
<1>3. outcome' \in {outcome, card}
  BY DEF ScanAnswered
<1>4. shown' \in [Events -> Counts]
  BY <1>1 DEF ScanAnswered, ScanAnswer, CountFrom, RestTyped
<1>5. scan' = [scan EXCEPT ![i] = NoRequest] /\ watched' \in {watched, NoScan}
      /\ UNCHANGED <<ticket, eventId, undo, undoWatched, poll>>
  BY DEF ScanAnswered
<1> HIDE DEF card
<1>6. RestTyped'
  BY <1>2, <1>3, <1>4, <1>5 DEF RestTyped
<1>7. VerdictsAreReal'
  BY <1>2, <1>3, <1>5 DEF VerdictsAreReal, RestTyped, NoRequest
<1> QED BY <1>6, <1>7

LEMMA UndoKeepsTypes ==
    ASSUME RestTyped, VerdictsAreReal, UndoAdmission \/ Unadmit \/ UndoAnswered
    PROVE  RestTyped' /\ VerdictsAreReal'
<1>1. CASE UndoAdmission
  <2>1. outcome.of \in Tickets
    BY <1>1 DEF UndoAdmission, Undoable, VerdictsAreReal, Decided
  <2>2. [at |-> "sent", of |-> outcome.of] \in Undoing
    BY <2>1 DEF Undoing, Codes
  <2>3. RestTyped'
    BY <1>1, <2>2 DEF UndoAdmission, RestTyped, countVars
  <2>4. VerdictsAreReal'
    BY <1>1, <2>1 DEF UndoAdmission, VerdictsAreReal
  <2> QED BY <2>3, <2>4
<1>2. CASE Unadmit
  <2> DEFINE t == undo.of
             found == ticket[t] = "USED"
  <2>1. undo \in Undoing /\ undo # NoRequest
    BY <1>2 DEF Unadmit, RestTyped, Undone, NoRequest
  <2>2. t \in Tickets
    BY <2>1 DEF VerdictsAreReal
  <2>3. PICK arrives \in BOOLEAN :
           undo' = [at |-> "answered", of |-> t, done |-> found /\ arrives,
                    count |-> IF found /\ arrives THEN Admitted(EventOf[t]) - 1 ELSE 0]
    BY <1>2 DEF Unadmit
  <2>4. (IF found /\ arrives THEN Admitted(EventOf[t]) - 1 ELSE 0) \in Counts
    BY <2>2, OneLess, NoTicketsCounted
  <2>5. undo' \in Undone /\ undo'.of \in Tickets
    BY <2>2, <2>3, <2>4 DEF Undone, Codes
  <2>6. ticket' \in [Tickets -> TicketStatus]
    BY <1>2 DEF Unadmit, RestTyped, TicketStatus
  <2>7. UNCHANGED <<eventId, outcome, scan, watched, undoWatched, countVars>>
    BY <1>2 DEF Unadmit
  <2>8. RestTyped'
    BY <2>5, <2>6, <2>7 DEF RestTyped, countVars
  <2>9. VerdictsAreReal'
    BY <2>5, <2>7 DEF VerdictsAreReal
  <2> QED BY <2>8, <2>9
<1>3. CASE UndoAnswered
  <2>1. undo \in Undone /\ undo # NoRequest
    BY <1>3 DEF UndoAnswered, RestTyped, Undoing, NoRequest
  <2>2. undo.of \in Tickets /\ EventOf[undo.of] \in Events
    BY <2>1, ScannerAssumption DEF VerdictsAreReal, ScannerAssumption
  <2> DEFINE card == [kind |-> "undone", of |-> undo.of, checked |-> EventOf[undo.of]]
  <2>3. card \in Card /\ card.kind \notin Decided
    BY <2>2 DEF Card, Decided, Codes
  <2>4. outcome' \in {outcome, card}
    BY <1>3 DEF UndoAnswered
  <2>5. shown' \in [Events -> Counts]
    BY <1>3, <2>1, <2>2 DEF UndoAnswered, Undone, CountFrom, RestTyped
  <2>6. undo' = NoRequest /\ undoWatched' = FALSE /\ UNCHANGED <<ticket, eventId, scan, watched, poll>>
    BY <1>3 DEF UndoAnswered
  <2> HIDE DEF card
  <2>7. RestTyped'
    BY <2>3, <2>4, <2>5, <2>6 DEF RestTyped
  <2>8. VerdictsAreReal'
    BY <2>3, <2>4, <2>6 DEF VerdictsAreReal
  <2> QED BY <2>7, <2>8
<1> QED BY <1>1, <1>2, <1>3

LEMMA CountsKeepTypes ==
    ASSUME RestTyped, VerdictsAreReal, NEW e \in Events, CountStep(e)
    PROVE  RestTyped' /\ VerdictsAreReal'
<1>1. UNCHANGED <<ticket, eventId, outcome, scan, watched, undo, undoWatched>>
  BY DEF CountStep, Refetch, ReadAdmissions, RefetchFails, AdmissionsFetched, scanVars
<1>2. Admitted(e) \in Counts
  BY AdmittedIsACount
<1>3. poll' \in [Events -> {NoRequest} \cup Poll]
  BY <1>2 DEF CountStep, Refetch, ReadAdmissions, RefetchFails, AdmissionsFetched, RestTyped, Poll
<1>4. shown' \in [Events -> Counts]
  BY DEF CountStep, Refetch, ReadAdmissions, RefetchFails, AdmissionsFetched, RestTyped, Poll, NoRequest
<1>5. RestTyped'
  BY <1>1, <1>3, <1>4 DEF RestTyped
<1>6. VerdictsAreReal'
  BY <1>1 DEF VerdictsAreReal
<1> QED BY <1>5, <1>6

LEMMA PageKeepsTypes ==
    ASSUME DeviceTyped,
           \/ \E e \in Events \cup {NoEvent} : ChooseEvent(e)
           \/ PressStop \/ OtherGates \/ Leave
           \/ UNCHANGED deviceVars
    PROVE  DeviceTyped'
<1> USE DEF DeviceTyped
<1>1. NoCard \in Card /\ NoCard.kind \notin Decided
  BY DEF NoCard, Card, Decided
<1>2. ASSUME NEW e \in Events \cup {NoEvent}, ChooseEvent(e) PROVE DeviceTyped'
  <2>1. CameraTyped'
    BY <1>2, StopTyped DEF ChooseEvent
  <2>2. RestTyped' /\ VerdictsAreReal'
    BY <1>1, <1>2 DEF ChooseEvent, RestTyped, VerdictsAreReal, countVars
  <2> QED BY <2>1, <2>2
<1>3. CASE PressStop
  <2>1. CameraTyped'
    BY <1>3, StopTyped DEF PressStop
  <2>2. RestTyped' /\ VerdictsAreReal'
    BY <1>3 DEF PressStop, RestTyped, VerdictsAreReal, scanVars, countVars
  <2> QED BY <2>1, <2>2
<1>4. CASE OtherGates
  <2>1. CameraTyped'
    BY <1>4 DEF OtherGates, CameraTyped, cameraVars
  <2>2. ticket' \in [Tickets -> TicketStatus]
    BY <1>4 DEF OtherGates, RestTyped, TicketStatus
  <2>3. RestTyped' /\ VerdictsAreReal'
    BY <1>4, <2>2 DEF OtherGates, RestTyped, VerdictsAreReal, scanVars, countVars
  <2> QED BY <2>1, <2>3
<1>5. CASE Leave
  <2>1. CameraTyped'
    BY <1>5 DEF Leave, CameraTyped, CameraKind
  <2>2. RestTyped' /\ VerdictsAreReal'
    BY <1>1, <1>5 DEF Leave, RestTyped, VerdictsAreReal, countVars
  <2> QED BY <2>1, <2>2
<1>6. CASE UNCHANGED deviceVars
  <2>1. CameraTyped'
    BY <1>6 DEF deviceVars, CameraTyped, cameraVars
  <2>2. RestTyped' /\ VerdictsAreReal'
    BY <1>6 DEF deviceVars, RestTyped, VerdictsAreReal, scanVars, countVars
  <2> QED BY <2>1, <2>2
<1> QED BY <1>2, <1>3, <1>4, <1>5, <1>6

LEMMA DetectedKeepsTypes == ASSUME DeviceTyped, Detected PROVE DeviceTyped'
<1> USE DEF DeviceTyped
<1>1. detecting \in [by: Start, code: Codes]
  BY DEF Detected, CameraTyped
<1>2. UNCHANGED <<ticket, eventId, outcome, prompting, playing, countVars>> /\ detecting' = NoDetect
  BY DEF Detected
<1>3. CameraTyped'
  <2>1. CASE StopCamera
    BY <1>2, <2>1, StopTyped
  <2>2. CASE UNCHANGED <<camera, current, live, streamRef, loops, loopRef>>
    BY <1>2, <2>2 DEF CameraTyped
  <2> QED BY <2>1, <2>2 DEF Detected
<1>4. RestTyped' /\ VerdictsAreReal'
  <2>1. CASE UNCHANGED scanVars
    BY <1>2, <2>1 DEF RestTyped, VerdictsAreReal, scanVars, countVars
  <2>2. CASE detecting.by.event # NoEvent /\ SubmitCode(detecting.code, detecting.by.event)
    <3>1. detecting.code \in Codes /\ detecting.by.event \in Events
      BY <1>1, <2>2 DEF Start
    <3> QED BY <1>2, <2>2, <3>1, SubmitKeepsTypes
  <2> QED BY <2>1, <2>2 DEF Detected
<1> QED BY <1>3, <1>4

LEMMA DeviceKeepsTypes == DeviceTyped /\ [DeviceNext]_deviceVars => DeviceTyped'
<1> SUFFICES ASSUME DeviceTyped, [DeviceNext]_deviceVars PROVE DeviceTyped'
  OBVIOUS
<1>1. CameraTyped /\ RestTyped /\ VerdictsAreReal
  BY DEF DeviceTyped
<1>2. ASSUME UNCHANGED <<cameraVars, detecting>>, RestTyped' /\ VerdictsAreReal' PROVE DeviceTyped'
  BY <1>1, <1>2 DEF DeviceTyped, CameraTyped, cameraVars
<1>3. ASSUME NEW i \in Scans, DecideScan(i) \/ ScanLost(i) \/ ScanAnswered(i) PROVE DeviceTyped'
  <2>1. UNCHANGED <<cameraVars, detecting>>
    BY <1>3 DEF DecideScan, ScanLost, ScanAnswered
  <2> QED BY <1>1, <1>2, <1>3, <2>1, DecideKeepsTypes, AnsweredKeepsTypes
<1>4. CASE UndoAdmission \/ Unadmit \/ UndoAnswered
  <2>1. UNCHANGED <<cameraVars, detecting>>
    BY <1>4 DEF UndoAdmission, Unadmit, UndoAnswered
  <2> QED BY <1>1, <1>2, <1>4, <2>1, UndoKeepsTypes
<1>5. ASSUME NEW e \in Events, CountStep(e) PROVE DeviceTyped'
  <2>1. UNCHANGED <<cameraVars, detecting>>
    BY <1>5 DEF CountStep, Refetch, ReadAdmissions, RefetchFails, AdmissionsFetched
  <2> QED BY <1>1, <1>2, <1>5, <2>1, CountsKeepTypes
<1>6. ASSUME NEW c \in Codes, PasteAndVerify(c) PROVE DeviceTyped'
  <2>1. UNCHANGED <<ticket, eventId, outcome, cameraVars, detecting, countVars>> /\ SubmitCode(c, eventId)
    BY <1>6 DEF PasteAndVerify
  <2>2. eventId \in Events
    BY <1>1, <1>6 DEF PasteAndVerify, RestTyped
  <2> QED BY <1>1, <1>2, <2>1, <2>2, SubmitKeepsTypes
<1> QED BY <1>3, <1>4, <1>5, <1>6, CameraStepTyped, DetectedKeepsTypes, PageKeepsTypes DEF DeviceNext

\* Whatever scans, undos and counts cross, what the device shows has its type: an
\* undo names a ticket, and no count exceeds the tickets there are.
THEOREM DeviceTyping == DeviceSpec => []DeviceTypeOK
<1>1. DeviceInit => DeviceTyped
  <2> SUFFICES ASSUME DeviceInit PROVE DeviceTyped
    OBVIOUS
  <2>1. CameraTyped
    BY DEF DeviceInit, CameraTyped, CameraKind
  <2>2. NoCard \in Card /\ NoCard.kind \notin Decided
    BY DEF NoCard, Card, Decided
  <2>3. RestTyped
    BY <2>2, NoTicketsCounted DEF DeviceInit, RestTyped, TicketStatus
  <2>4. VerdictsAreReal
    BY <2>2 DEF DeviceInit, VerdictsAreReal, NoRequest
  <2> QED BY <2>1, <2>3, <2>4 DEF DeviceTyped
<1>2. DeviceTyped => DeviceTypeOK
  BY DEF DeviceTyped, CameraTyped, RestTyped, DeviceTypeOK
<1> QED BY <1>1, <1>2, DeviceKeepsTypes, PTL DEF DeviceSpec
=============================================================================
