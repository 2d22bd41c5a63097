# A TLA+ model of ApexTick

ApexTick sells numbered seats for events: a buyer holds seats for five minutes,
places an order over them, pays for it, and walks in with a ticket.  Its README
promises "correctness under concurrency": exactly one buyer gets a seat,
whatever requests, timers, webhooks and crashes do.  This directory models the
parts that promise rests on and the pages people use them through, checks them
with TLC on small instances, and proves the central properties with TLAPS for
every instance.

## 1. The system

| Part | State | Operations | Talks to |
| --- | --- | --- | --- |
| Seats and holds (`hold/`, `seat/`) | `seats` rows; `seat-hold:<id>` keys in Redis with a TTL | hold, release mine, force release, block, expiry listener, sweeper | orders (book, release), Redis |
| Orders (`order/`) | `orders`, `order_items` | create, cancel, expire, confirm, refund, dispute, close for a cancelled event | seats, tickets, payments |
| Payments and refunds (`payment/`) | `payments`, `payment_webhook_events` | pay (three phases), webhooks, compensation, refunds, reconciler | orders, the provider |
| Tickets and gates (`ticket/`) | `tickets`, `ticket_scans` | scan, undo an admission, void, render the PDF | orders, storage |
| Events (`catalog/`) | `events`, `sections`, `price_tiers` | create, edit, change status, lay out seats, delete, cancel | everything the event has sold |
| Outbox (`outbox/`) | `outbox_events` | append, claim, publish, back off, give up | RabbitMQ |
| Notification service | `processed_events`, the mail server | consume once, mail, dead-letter | RabbitMQ |
| Gate device (`frontend/components/admin/ticket-scanner.tsx`) | event chosen, camera, card on screen, cached count | start and stop the camera, scan, undo, poll | gate API |
| Seat map (`frontend/components/seatmap/`) | picks, cached seats and orders, the refusal on screen | pick, reserve, order, release, cancel the blocking order | holds, orders, broadcasts |
| Checkout and order page (`frontend/components/checkout/`, `account/order-detail.tsx`) | config, cached order, key of the attempt, challenge | pay, resend, challenge, cancel, poll | orders, payments, Stripe.js |
| Event desk (`frontend/components/admin/event-*.tsx`, `layout-builder.tsx`) | cached event, draft layout, dialogs | create, save, status, delete, lay out | event API |
| Box office (`frontend/components/admin/order-inspector.tsx`, `seat-inspector.tsx`) | cached order and seats, filter, page, dialog | refund, retry a refund, release, block, unblock | orders, seats, broadcasts |
| Around them | none that changes | catalogue queries, rate limit, JWT, PDF storage, lists, gateways | |

There is no lock in any process of the services: several instances run the same
code against one PostgreSQL at READ COMMITTED.  What makes it hard:

- **Conditional updates.** Seats change by `UPDATE ... WHERE status = ...` and
  affected-row counts.  Each such statement is atomic; what was read before it
  may be stale.
- **Row locks.** Orders, payments, events and tickets are locked with
  `SELECT ... FOR UPDATE`, payment before order; some reads are taken without.
- **Two clocks of a hold.** The row's deadline, and the TTL of a Redis key whose
  expiry notice may be late or lost.  A sweeper stands behind both.
- **A provider outside the transaction.** Charges and refunds happen at Stripe
  whether or not our transaction commits; webhooks come again, and out of order.
- **Two more at-least-once links**: outbox to broker, and broker to mail.
- **Pages that show what was.** Every page renders the cached answer of a query;
  refetches, answers to the page's own requests and broadcasts all write that
  cache, in whatever order they land, and a button is pressed over what it shows.
- **Callbacks that come back to another page.** A permission prompt, a frame
  detection or a request is answered after the user has moved on.

What makes each part correct: nobody exceeds the cap, a running hold is not cut
short, an expired one ends (holds); no seat is sold twice, what was sold stays
sold (orders); one charge is kept and each is settled (payments); admissions add
up and no valid ticket loses its seat (gate); a cancelled event owes nothing it
does not ask for (cancellation); a committed event reaches its customer or is
parked where it can be seen (delivery); a device admits to the event it shows
(gate device); a refusal names what blocks, and only that is cancelled (seat
map); an attempt is charged once (checkout); what is confirmed is what is done,
and what is refused is explained (event desk, box office).

## 2. Modules

`MC<Module>` instantiates a module for TLC where its constants need definitions;
`<run>.cfg` fixes the constants.

| Module | Models | Theorems in |
| --- | --- | --- |
| `SeatSale` | the abstract inventory: one owner per seat, selections taken whole from nobody else and within the cap, let go before they are taken again | |
| `SeatHolds` | the seat rows, Redis keys, notices, sweeper, and every operation on them; implements `SeatSale` | `SeatHoldsProofs` |
| `Orders` | several orders over shared seats; implements `SeatSale` | `OrdersProofs` |
| `Payments` | the payments of one order and the provider behind them | `PaymentsProofs` |
| `Gate` | the tickets of one paid order at the doors | `GateProofs` |
| `EventCancellation` | the long cancellation transaction, statement by statement, among buyers | `EventAdminProofs` |
| `EventDelivery` | outbox, relays, broker, listeners, mail | `EventDeliveryProofs` |
| `Scanner` | one steward's device, the gate API and other gates behind it | `StaffPagesProofs` |
| `SeatMap` | one buyer's seat map, with the booking service and other buyers behind it | `BuyerPagesProofs` |
| `Checkout` | one buyer at the checkout and the order page, with the API and the provider behind them | `BuyerPagesProofs` |
| `EventDesk` | one operator's create, editor and layout pages for one event | `EventAdminProofs` |
| `BoxOffice` | one operator's order page and seat page | `StaffPagesProofs` |

They share no variables.  The parts meet through the rows they share, and each
module keeps the detail of its own part and reduces its neighbours to the
effect they have on those rows:

- `SeatHolds.Book`, `CloseOrder`, `VoidTickets`, `CancelEvent` stand for the order
  side, with any seats as their argument; `Orders` has their guards.
- `Orders.Hold` and `HoldExpires` are `SeatHolds` in one step each.
- `Payments.held` says whether the order's seats are still the buyer's.
- `EventCancellation` gives each order one seat, one charge and one ticket.
- The five modules of pages keep the service behind them as rows that a request
  reads and changes in one step (`Decide`, `Serve`, `PayDecided`, ...), and
  everybody else as bounded changes of the same rows (`Elsewhere`).

**Grain of steps.** A transaction whose decisions are made under the locks it
holds is one step.  A read without a lock is a step of its own, and so is each
statement after it that another transaction can slip in front of: the count and
the update of a hold, `existsPendingForSeats` and the insert of an order, the two
readings of an unwinding.  Calls to the provider outside a transaction, Redis
commands after a commit, and a broker's confirm are steps of their own.  A crash
forgets what was not committed; what the provider, Redis or the broker did stays.
On a page, a request is three steps (sent, decided by the service, answered to
the page) and may be lost before or after it was decided; a refetch is two (it
reads, it lands); a handler runs to its first `await` in one step, and what
follows the `await` is another.  A button that is only dimmed while its request
is under way can still be pressed from the keyboard, so its handler has no
guard the code does not have.

### SeatHolds

`status`, `heldBy`, `heldUntil` are the three columns; `keyOf`, `keyTtl` the Redis
key; `notices` counts expiry notices on their way; `req[r]` is what request thread
`r` still has to do, `sweep` what the sweeper has selected.  `CountMine` takes the
advisory lock, counts and computes the deadline; `HoldSeats` or `HoldConflicts` is
the update and its commit; `ArmKey`, `GetKey`, `DeleteKey` are single Redis
commands in id order.  `ReleaseExpired` is the listener (`held_until <= now`),
`SweepSelect` and `SweepRelease` the sweeper (`held_until < now - tolerance`).

### Orders

`order`, `items` and `live` are the order's status, its seats, and the seats it has
a valid ticket for.  An order is named by its buyer and idempotency key.
`FindHeld`, `CheckPending`, `InsertOrder` are the reads and the insert of a
creation; `FindPendingOrders` and `AdminRelease` those of a force-release.
`VoidSale` takes the used tickets as an input: `Gate` says how they come about.

### Payments

`pay`, `ref` are `payments.status` and whether `provider_ref` is recorded; `money` is
what really happened at the provider, `sent` the events it may deliver any
number of times, `seen` the processed ones.  A charge that took another sum than
was asked for is the event kind `wrong_sum`.  `lostHooks` and the thread stage
`compensating` are the gap between a seats-lost rollback and the transaction that
makes up for it.  `Undone` is a refund the provider made inside a transaction
that then rolled back.

### Gate

`refund` walks through `decide`: used tickets read, unused ones counted, then
voided and compared.  `rendering[t]` is the status the PDF writer read under the
row's lock, and writes back with the whole row.

### EventCancellation

`cancel[a]` is the unwinding of administrator `a`: the statement it has got to, the
orders it still has to visit, the rows it has locked, and its uncommitted
changes, which `Commit` publishes at once.  A read by it sees `order` as committed
at that moment, and its own changes.  `editor[e]` is the status an edit loaded and will
write back with the rest of the row.  `ticket` is the order's ticket: a used one keeps its
seat when its order is refunded, so `VoidNext` decides by the ticket which seats `Commit`
frees.  `gate` are the tickets a turnstile has looked up and will admit if they still are
ISSUED; a second turnstile at the same ticket, and the record of each scan, are in `Gate`.
`RetryRefund` is both the attempt `refundOrder` makes after its decision commits and an
administrator's retry, which looks at no count.

### EventDelivery

`relay[r]` is the batch a relay has claimed (`FOR UPDATE SKIP LOCKED`) with the marks
it will commit.  `queued` and `deadLetters` count copies; `consumer[c]` is a listener
between receipt, claim of the `processed_events` row, mail, and commit.

### Scanner

A session number (`sessionRef`) only tells whether a start of the camera is the
latest thing done to it, so `current` is the start still wanted; `prompting`,
`playing`, `loops` and `detecting` are the starts that await the permission
prompt, `play()`, the next frame and `detect()`.  `StopCamera` is what every way of
stopping shares.  `scan[i]` is a scan under way; only the latest mutation's callbacks
reach the card (`watched`), but each answer's count reaches the cache (`shown`),
against the polls (`poll`) on their way.  One undo, and
one poll, are under way at a time.

### SeatMap

`seat` is what the service holds, `cache` what the map shows; `topic` the broadcasts on
their way, merged by `Deliver` as `realtime-merge.ts` does.  `reserving` goes from the hold
request to the order request and its answer; `blocked` is the refusal's seats, and
`FindPendingOrder` (`lib/orders.ts`) picks the order the screen offers to cancel.
`placed` are this buyer's orders, of this tab or another (`OrderElsewhere`); `theirs` the
seats that a stranger's unpaid order still names, because his hold lapsed before the order
was swept.  A release asks about the buyer's own orders (`Locked`), the creation of an
order about everybody's (`Pending`).

### Checkout

Keys are numbered as they are minted: `charge[k]` is the payment row of key `k`, `taken` the
keys whose money the provider has, `stray` the requests the page gave up that may
still arrive.  `attemptKey` is the page's ref, `SettlesAttempt` decides whether an answer
clears it.  `shown`, `orderError`, `orderFetch` and `polling` are the order query.

### EventDesk

`db` is the event's row, its layout and whether it has orders; `copy`, `fetch`, `failed` the
query's data, refetch and error.  `draft` is what is typed in the layout builder, `Preview`
what it says will be generated and `GeneratedSeats` what the service inserts.  `request` lists
the mutations in the order they were sent; they settle in any order.

### BoxOffice

`sale` is the order with its ticket and charges, `seat` the rows of the event.  `query` holds
both caches with their refetch in flight; `Deliver` patches the seats' cache with a
broadcast, which names no holder.  `Panel` is what the order page offers,
`RefundBlockedBy` what the service answers, `SafePage` the clamped page of the table.  A
filtered list is the set of its seats, which the page lists in their order: `IndexOf` is
where one stands, and `ShownRows` is the slice.

## 3. Runs

| Run | Instance | What it shows |
| --- | --- | --- |
| `SeatHolds` | 2 buyers, 2 threads until the first tick and 1 after it, 2 seats, cap 1, batch 1, hold of 1 tick, clock to 2 | `HoldCap` (two requests of one account contend for its lock), `RunningHoldKept`, refinement of `SeatSale`, and `ExpiredHoldEnds` with lost keys and notices |
| `Orders` | 2 orders of one buyer, a rival, 2 seats, 2 threads | `NoDoubleSale`, `PaidIsBooked`, `OrderLifecycle`, refinement of `SeatSale` |
| `Payments` | 2 charges for one order | `OneChargeKept`, `RefundsAreReal`, `ChargesAreReal` |
| `PaymentsLive` | 1 charge | `ChargeSettles` |
| `Gate` | 2 tickets, 2 turnstiles, 2 undone admissions each | `AdmissionsBalance`, `LiveTicketHasItsSeat`, `PaidTicketsStand`, no deadlock |
| `Cancellation` | 2 orders, 1 administrator, 1 edit, 1 refund asked at once, 2 attempts | `SaleHoldsTogether`, with scans, undone admissions and refunds; `OwedIsAskedFor` |
| `Delivery` | 2 events (one that must route and is mailed, one not), 2 relays, 1 listener, 1 crash | `PublishedIsNotLost`, `ProcessedWasMailed`, `EventArrives` |
| `Scanner` | 2 events, 1 ticket, 1 start and 1 scan under way at once | `CameraScansThisGate`, `CountSettles`, no deadlock |
| `SeatMap` | 2 seats, 1 pick at a time, 2 orders, 1 broadcast under way, 1 change by others, 2 requests | `CancelsTheBlocker`, `LostPicksGo`, `BlockedSeesOrder` |
| `Checkout` | the demo gateway or Stripe, 2 attempts, 1 reload | `ChargedOnce`, `RawCardOnlyToMock`, `PageSettles` |
| `EventDesk` | 1 tier code, up to 2 tiers and 2 sections of 2 or 3 rows against a limit of 2, 1 change by others, 1 request | `PreviewIsGenerated`, `RefusalIsExplained` |
| `BoxOffice` | 2 seats on pages of 1, 2 charges, 1 change by others, 2 requests | `TableIsTrue`, `RefusalIsShown`, `DialogCloses` |

`SeatHolds`, `Orders`, `Payments`, `Gate`, `Cancellation`, `Delivery` and `EventDesk` also
check their module's type invariant (`TypeOK`, or `DeskTypeOK` where two modules are
extended together).  Those of
`Scanner`, `SeatMap`, `Checkout` and `BoxOffice` are proved (section 4) and no run lists
them; to have TLC check one, add it to the `.cfg` as an `INVARIANT`.

**Bounds.** Two of each actor is what every race in these parts needs: each is
between one transaction that read and one that wrote since.  A cap of one with
two seats puts the second hold over it, a batch of one with two expired seats
leaves a remainder for the next sweep, and one refund asked at once with two
orders leaves one to the reconciler.  `MaxTime` stops the clock: one tick for a hold
to reach its deadline and meet its late notice, two for the sweeper's strict
comparison.  `SeatHolds` lets two requests overlap only before the first tick (the
`CONSTRAINT` `OneAtATimeAfterTheStart`), since two all the way would put the liveness
check out of reach: the race for the account's lock needs no tick, a late notice or sweep
meets one request.  The constraint is on the clock and the requests, which the fair
actions leave alone, so none of their steps is cut off; the theorems of section 4 hold for
any number of requests at any time.  `Cancellation` has one administrator, who may start
again when a request has died: the event's lock keeps two requests apart until the first
has committed, and then there is nothing left to unwind; the theorems hold for any number.
`MaxUndone` bounds undone admissions,
`MaxCrashes` crashes; the other counters of `EventDelivery` are bounded by the code
(`MaxAttempts`, `MaxTries`).  Nothing in the code bounds how often a refund is asked for, since
an administrator may retry one for ever; all that is read of the count is whether it has
reached `MaxAttempts`, so `asked` stops there.  On the pages, `MaxElsewhere` bounds what others do and
`MaxAsked` what the user asks: a stale page needs one change by others, a second
request what the first one's answer left, and two sections are what a sum over them
needs.  `MaxTopic` is the broadcasts under way
(more are lost, as a client that is offline loses them).  `MaxKeys` of two is an
attempt and the one after it.  `PageSize` of one lets two seats fill two pages.
Runs where the model may rightly come to rest (clock at its end, nothing left to
sell or to ask) set `CHECK_DEADLOCK FALSE`.

**Symmetry** is used for threads, buyers, turnstiles, relays and the like in runs
without liveness; not for seats in `SeatHolds`, which the code sorts by id.

**Fairness.** `SeatHolds`: `@Scheduled` calls the sweeper for ever (weak), and a
crash between its selection and its update may happen but not every time
(strong); nothing is assumed of Redis or of buyers.  `PaymentsLive`: the provider
delivers an event until it is acknowledged (weak), and a delivery's compensation
is not cut short every time (strong); nothing is assumed of pay requests.
`Cancellation`: the reconciler keeps running and its backoff passes; a
cancellation may die at any time.  `Delivery`: relays poll, backoffs are finite,
listeners take what is queued; crashes are finitely many.  `Scanner`: the refetch
interval fires while an event is shown, and a poll that is sent again and again
gets through in the end (strong on the read alone).  `SeatMap`: a query that was asked for is read and lands or fails, and the answer to a request
is taken in (weak, for all of these together).  `EventDesk`, `BoxOffice`: the same of each
query, and a request sent is answered or lost (weak); users, broadcasts and other people owe nothing.
`Checkout`: the order page asks again while it polls (weak), even over a fetch that is in
flight, which it begins anew; that one of them lands in the end, of all those begun, is
strong.  The provider, the webhook and the buyer owe nothing.

## 4. Proofs

Eight modules hold theorems.  One of the services extends the module it is about;
the other three extend two modules each, whose names differ: `EventAdminProofs` is about
`EventCancellation` and `EventDesk`, `BuyerPagesProofs` about `Checkout` and `SeatMap`,
`StaffPagesProofs` about `BoxOffice` and `Scanner`.  The two parts of such a module share no
variable and no lemma but those about numbers and sets.  Nothing is assumed but the
modules' named assumptions on their constants.  Every safety invariant and action
property the runs check is a theorem.

`SeatHoldsProofs` proves four properties of `SeatHolds` for all sets of seats, users
and requests, and all values of the other constants.

- `Typing`: `TypeOK` is inductive.  It carries the joint facts that a row has a
  holder exactly when it is held or booked (an expired hold keeps its holder until
  it is swept or taken over), and that a request which has counted names a real account.
- `CapHolds`: `HoldCap` is not inductive: between count and update a request
  remembers a count.  `CapInv` adds that a request which has counted holds the
  account's lock alone, and that what the account holds together with what was
  asked for is still within the cap; other requests can only shrink the holding
  while the lock is taken.  The cardinality of the union is bounded through
  `FiniteSetTheorems`.
- `RunningHoldsKept`: needs `CutoffPast`, that the sweeper's cutoff is never ahead of
  the clock; each action that makes a seat available is then either in `CutsAHold`
  or finds the deadline passed.
- `ImplementsSeatSale`: initial states map to initial states, and each step to a
  step of `SeatSale` or a stutter, from `CapInv` (for the cap in `Take`) and `TypeOK`.

`OrdersProofs` proves everything run `Orders` checks, for all sets of buyers, orders,
seats and requests.  `NoSeatSoldTwice` and `PaidOrdersHaveTheirSeats` are two faces of one
inductive invariant: an order has live tickets only if it was paid, live seats are
among its items and disjoint, and a seat is booked exactly when it is live.
`OrdersMoveForward` follows action by action; `ImplementsSeatSale` maps every step of
`Orders` to the same abstract inventory as above, so that both halves of the booking
service promise one thing.

`PaymentsProofs` proves all four invariants of run `Payments` for any number of
payments of the order.  It assumes nothing of `Payments`, not even finiteness.

- `Typing`: `TypeOK` is inductive.
- `OneCharge`: `OneChargeKept` needs `NoneKeptYet`, that a pending order has no kept
  charge, since `Confirms` does not ask for another.  `NextKeeps` reduces every step
  to one of two kinds: it keeps no new charge (`KeepsNoMore`), or it keeps one that
  confirms a pending order or found no other kept (`KeepsFirst`).
- `RefundsReal`, `ChargesReal`: what the rows say follows from what the code was
  told, so `TruthInv` says that all of it is true: a synchronous answer
  (`AnswersTrue`), a delivered or pending event (`EventsTrue`, `LostHooksPaid`), a
  refund's answer not yet recorded (`RefundsAnswered`).  These are stable because the
  provider's money only moves one way (`MoneyMoves`), so an answer that arrives
  late is still right.

`GateProofs` proves the four invariants of run `Gate` for any tickets and gates.  They
are inductive together with `ReadIsCurrent`, that a PDF writer which has read a row
still holds its lock and so read what the row says.

`EventAdminProofs` proves `TypeOK` and `SaleHoldsTogether` for any orders,
administrators, edits and attempts.  A cancellation publishes at its commit what
it decided many statements earlier, so its steps are proved in two halves.

- `DecisionsStayCurrent` (`SeenIsCurrent`): while a cancellation is unwinding, what it
  voided is still paid and locked by it, what it closed is still unpaid and locked by it,
  a ticket it voids is still ISSUED, and any other seat it let go of is still held.  Every
  step of somebody else finds the rows it changes unlocked, an order that does not exist
  yet, or a ticket that is not ISSUED and so not among those (`OthersStayCurrent`): a
  scan waits for the ticket's row, an undone admission only changes a used one.
  `Commit` then turns the decisions into rows without undoing anybody's work.
- It needs `OneUnwinds`, that the event's row is locked by one unwinding, and
  `NoOrderYet`, that a buyer who found the event on sale has not ordered yet.
- `SaleHolds`: a seat the commit frees either had the ticket it voids, or was held, and
  then no ticket stands for it; the seats of used tickets are not among them.
- `Typing` rests on the same decisions: an order has a ticket exactly from its payment on,
  so what is closed must be unpaid still when the commit closes it.

It proves two properties of the event desk, for any codes, limits and choices of rows and
seats.

- `DeskTyping`: `DeskTypeOK` is inductive.
- `PreviewGenerated` (`PreviewIsGenerated`): `DeskInv` says that the draft behind the
  dialog is one that `validate` let through, since nothing can be typed while the dialog is
  open and a builder that unmounts takes both away; and that a layout request still
  carries such a draft and the number announced for it (`Told`), until the answer carries
  that number.
- What is left is arithmetic, `SeatsGenerated`: for a valid draft the page's sum is the size of
  the set of seats the service inserts.  The page folds over the sections
  (`SumFunction`).  The library's induction theorems cannot be instantiated here, so
  the induction is over sets: `AllSubsets` shows that a family of sets closed under adding one
  element holds every subset of a finite set, by well-foundedness of `<`.  With it
  `SumExists` shows that the fold's recursive equation has a solution, `SumUnfolds` that
  `SumFunction` adds one value for each index, and `UnionCounts` that the size of a disjoint
  union is that sum.

`EventDeliveryProofs` proves `TypeOK`, `PublishedIsNotLost` and `ProcessedWasMailed` for any
events, relays, listeners, batches and crashes.

- `Typing`: that `attempts` stays within `MaxAttempts` needs `AttemptsLeft` (a row that may
  still be sent has one left) and `BatchesApart` (the batches of two relays share no
  row, and hold only pending ones), so that a commit adds to a row's attempts once.
- `PublishedNotLost`: the row is marked long after the broker took the message, so
  `MarkedIsNotLost` says the same of the marks a relay has not committed.  It is kept
  because a message only moves: queue, listener, dead letters, `processed_events`.
- `ProcessedMailed`: `DoneWasMailed` says it of the listener that is about to commit.

`BuyerPagesProofs` proves the type invariants and three properties of the buyer's pages.

- `CheckoutTyping` (`TypeOK` of `Checkout`) is inductive as it stands.
- `MapTyping` (`MapTypeOK` of `SeatMap`) is not: an order that is being cancelled must be
  one that was placed (`CancelTyped`), or the seats it frees would be anything.  It is,
  because it was found in an older list (see `RightOrderIsCancelled`).

- `AttemptChargedOnce` (`Checkout`) needs `OneKeyPerAttempt`: every key sent since the API
  last answered is the key the page still has in its ref.
- `CardsGoToMockOnly` (`Checkout`) needs `CardInv`: the config, once loaded, names the
  gateway, and a card form is only shown after it has.
- `RightOrderIsCancelled` (`CancelsTheBlocker` of `SeatMap`): the page picks the order
  to cancel from a list that may be old.  The invariant says that every list the page
  has, or is about to get, is *older*: no longer than the orders placed, and with the
  same seats.  That
  `FindPendingOrder` returns one of the orders it looks among needs that a bounded
  set of numbers has a greatest, proved from the library's well-foundedness of `<`.

`StaffPagesProofs` proves the type invariants and two properties of the staff's pages.

- `BoxOfficeTyping` (`TypeOK` of `BoxOffice`) needs that a request about a seat names one
  (`AskedTyped`), since only a dialog sends it, or a broadcast could be about nothing; and
  that the pages are no more than the seats (`FewPages`).
- `DeviceTyping` (`DeviceTypeOK` of `Scanner`) bounds the counts of admissions, which the page
  raises and lowers by arithmetic on what it is told.  `VerdictsAreReal` says that a verdict
  under way is about a real ticket; `OneMore` and `OneLess` that admitting a ticket that is not used, or
  undoing one that is, leaves a count between none and all of the tickets.

- `SeatTableIsTrue` (`TableIsTrue` of `BoxOffice`): for any number of seats and any page
  size, the page on screen is not empty while a seat passes the filter
  (`ClampedPageIsReal`).  `Indexed`
  shows that every index below the size of the filtered list is somebody's, and the
  clamped page starts at such an index.  That no free seat is shown with a holder
  is `Honest` of the service's rows and of both lists of the query, the one on screen
  and the one that is read but has not landed.
- `CameraIsOfThisGate` (`CameraScansThisGate` of `Scanner`): the start still wanted was
  pressed for the event on screen, because changing the event ends the current start; so a detection that
  passes the session check carries the right event.

All of them allow any number of crashes, lost requests and resends.  Only
model-checked is liveness (`ExpiredHoldEnds`, `ChargeSettles`, `OwedIsAskedFor`, `EventArrives`,
`CountSettles`, `LostPicksGo`, `BlockedSeesOrder`, `PageSettles`, `RefusalIsExplained`,
`RefusalIsShown`, `DialogCloses`) and anything with ENABLED, which the prover cannot do.

## 5. Where code and comments part

Configurations beside the listed runs end in a counterexample, each against a
sentence in the source (`tlc -config <name>.cfg <module>`, with the `MC` module where
there is one; `tlc -continue` where a configuration has two):

| Configuration | Property | Shows |
| --- | --- | --- |
| `PaymentsRefunds` | `PaidOrderHasCharge` | between the seats-lost rollback and `compensate` (`PaymentService.java:407`), the buyer holds the seats again and a webhook confirms the order with the charge; `compensate` refunds it without looking, where `compensateWebhook` looks |
| `GateRefund` | `NoRefundWhileInside` | a scan between the reading of the used tickets and the count of the unused ones is in neither (`RefundService.java:183`; the comment at 185 says it is caught) |
| `CancellationMiss` | `CancelledEventKeepsNoSale` | an order paid between the reading of the paid orders and of the unpaid ones is in neither (`EventCancellationService.java:133`; the class comment says every sale is unwound) |
| `SeatHoldsDrop` | `DropsOwnKeyOnly` | `dropOwn` (`SeatHoldKeys.java:34`) deletes a key the next holder armed after its GET |
| `OrdersPending` | `OnePendingOrderPerSeat` | two creations under different keys both pass `existsPendingForSeats` (`OrderService.java:112`) |
| `OrdersRelease` | `ReleaseSparesPendingOrders` | an order created after `releaseMine` looked (`HoldService.java:149`) loses its seats; `adminRelease` (line 198) reads before it locks in the same way |
| `PaymentsDispute` | `KeptChargeKeepsOrder` | a dispute of a charge that is owed back voids an order another charge pays (`PaymentService.java:217`) |
| `PaymentsRefunds` | `ReturnedChargeBuysNothing` | a refund event that comes before the charge is settled is dropped (`RefundService.java:126`) |
| `GateUndo` | `DisputedAdmitsNobody` | an admission undone after a dispute issues the ticket again (`GateService.java:77`) |
| `CancellationMiss` | `StaysCancelled` | an edit loaded before the cancellation writes its old status back (`AdminEventService.java:82`; neither `@Version` nor `@DynamicUpdate` on `Event`) |
| `DeliveryTwice` | `MailedAtMostOnce` | the mail is sent in a transaction that may still roll back (`IdempotentConsumer.java:8`) |
| `ScannerCamera` | `CameraGoesOut` | a second start pressed before the first one runs leaves a stream nothing holds, whose light stays on (`ticket-scanner.tsx:108`) |
| `ScannerSlate` | `ShownForThisGate` | an answer to a scan lands after the event was changed and shows its verdict on the clean slate (`ticket-scanner.tsx:170`) |
| `SeatMapHonest` | `MapStaysHonest` | a broadcast missed while the connection is down leaves the map wrong until the next refetch, which a reconnect does not ask for (`lib/realtime.ts:33`) |
| `SeatMapNothing` | `NothingHeldUnseen` | "nothing is held for you" is shown when the seats failed to load while some are held (`live-seat-map.tsx:269`) |
| `CheckoutNothing` | `NothingCharged` | the cancel dialog says nothing has been charged while a charge is under way or its answer was lost (`checkout-panel.tsx:269`) |
| `EventDeskLayout` | `TierIsKnown` | a section keeps the code of a tier that was renamed or removed after it was picked (`layout-builder.tsx:453`) |
| `EventDeskLayout` | `LayoutOnce` | two layout requests both find no seats and both insert theirs (`hooks/useAdmin.ts:140`) |
| `EventDeskSave` | `SaveAgrees` | a save sent while a status change is still unanswered carries the old status, and is refused as a transition (`event-editor.tsx:67`) |
| `BoxOfficeStale` | `RefundStaysShown` | a refetch that read before the refund overwrites its answer (`hooks/useAdmin.ts:216`) |

## 6. What is left out

- **Deadlocks between row locks.** A statement over several rows is one step, so
  the order in which it takes their locks is not modelled (`adminRelease` locking
  several orders, `generateForOrder` several tickets).  PostgreSQL breaks such
  deadlocks by failing one side.
- **Idempotent resends** of order creations: a request is named by its key, so a
  resend is the same request.  `Checkout` models those of pay requests.
- **Draft, deletion and layout against the first order** of an event, on the
  service's side; `EventDesk` has their refusals.
- **The mock provider**, whose answers are a subset of those modelled; currencies,
  fees and sums beyond "right or wrong".
- **On the pages**: a second card typed while one is being paid, two releases or two
  undos at once, orders of more than one ticket at the box office, disputes seen
  there (to its pages they are refunds made elsewhere), the scanner's log,
  debounced search, zoom and keyboard focus.
- **Not modelled, and why**: rate limiter (it only refuses requests, which every
  client model allows for), the Redis relay and reconnects of broadcasts (a
  broadcast may be late or lost), catalogue queries, authentication, storage, PDF and
  mail contents, lists and marketing pages, deployment and the load generator: see
  `PROJECT.json`, components.
- Every pay request of `Payments` is made with its own key; `InFlight` takes a
  request to be abandoned as soon as its thread is gone, where the code waits two
  minutes.

## 7. What could come next

1. The first order of an event against draft, deletion and layout.
2. A composition of `Orders` and `Payments` for one order, each mapped to its own
   module, so that `held` is no longer an input.
3. The broadcast relay with reconnects, behind `SeatMap` and `BoxOffice`.
