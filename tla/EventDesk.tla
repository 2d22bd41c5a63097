------------------------------ MODULE EventDesk ------------------------------
(***************************************************************************)
(* One operator's pages for one event: creating it, its editor (details,    *)
(* status strip, danger zone) and its layout builder.  All of them show the *)
(* cached copy of the event that useAdminEvent keeps, and change the event  *)
(* through requests that settle in any order, while other operators and     *)
(* buyers change it too.                                                    *)
(*                                                                         *)
(* "onsale" stands for every status in which the event is public.  A        *)
(* button that is only dimmed while its request is under way can still be   *)
(* pressed from the keyboard, so a form can be submitted twice.             *)
(***************************************************************************)
EXTENDS Naturals, FiniteSets, SequencesExt

CONSTANTS Codes,        \* what a tier's code may be typed as
          MaxRows,      \* MAX_ROWS
          RowChoices,   \* what a section's rows may be typed as
          SeatChoices,  \* and its seats per row
          MaxTiers, MaxSections, \* bounds on the draft
          MaxElsewhere, \* bound: changes made by anybody else
          MaxAsked,     \* bound: requests this operator makes
          Nothing       \* undefined, or deleted

ASSUME EventDeskAssumption ==
    /\ "" \notin Codes /\ IsFiniteSet(Codes)
    /\ {MaxRows, MaxTiers, MaxSections} \subseteq Nat \ {0}
    /\ RowChoices \subseteq Nat /\ RowChoices \cap 1 .. MaxRows # {}
    /\ SeatChoices \subseteq Nat /\ SeatChoices \ {0} # {}
    /\ MaxElsewhere \in Nat /\ MaxAsked \in Nat

VARIABLES db,        \* the event's row, whether it has orders, and its layout
          other,     \* another operator's layout request, between its check and its inserts
          elsewhere, \* how many changes others have made
          copy,      \* ["admin", "event", id] in the query cache
          fetch,     \* the request that refreshes it
          failed,    \* the query's error
          screen,
          dialog,    \* the ConfirmDialog that is open
          draft,     \* Builder's tiers and sections, while it is mounted
          request    \* the mutations' requests, in the order they were sent

serverVars == <<db, other, elsewhere>>
cacheVars == <<copy, fetch, failed>>
pageVars == <<screen, dialog, draft>>
deskVars == <<serverVars, cacheVars, pageVars, request>>

Status == {"draft", "onsale", "cancelled"}
EventRow == [status: Status, ordered: BOOLEAN, layouts: Nat, codes: SUBSET Codes]
EventDetail == [status: Status, layout: BOOLEAN]
Tier == Codes \cup {""}
Section == [tier: Tier, rows: RowChoices, seats: SeatChoices]
Draft == [tiers: Seq(Tier), sections: Seq(Section)]

Answers == {"ok", "slug", "invalid", "gone", "transition", "cancelled", "orders", "exists",
            "tier", "lost"}
Request == [op: {"create", "save", "status", "remove", "layout"},
            status: Status \cup {Nothing}, layout: Draft \cup {Nothing}, \* the body
            announced: Nat, created: Nat, \* seats, of a layout
            heard: BOOLEAN,               \* mutate's own callbacks are still attached
            at: {"sent", "checked", "answering", "settled"},
            answer: Answers \cup {"none"}]

NoFetch == [at |-> "idle"]

\* Rows, query and requests have their types; the dialog that confirms a layout is
\* open only over a builder that still has its draft.
DeskTypeOK ==
    /\ db \in {Nothing} \cup EventRow
    /\ other \in {"idle", "checked"} /\ elsewhere \in 0 .. MaxElsewhere
    /\ copy \in {Nothing} \cup EventDetail
    /\ fetch \in {NoFetch, [at |-> "asked"]} \cup [at : {"read"}, event : {Nothing} \cup EventDetail]
    /\ failed \in BOOLEAN
    /\ screen \in {"new", "events", "edit", "layout"}
    /\ dialog \in {"none", "cancel", "delete", "generate"}
    /\ draft \in {Nothing} \cup Draft
    /\ dialog = "generate" => draft # Nothing
    /\ request \in Seq(Request) /\ Len(request) <= MaxAsked

Detail(row) == IF row = Nothing THEN Nothing
               ELSE [status |-> row.status, layout |-> row.layouts > 0]

-----------------------------------------------------------------------------
(* The page                                                                 *)

\* Neither the spinner nor the error stands in for the page.
Shown == copy # Nothing /\ ~failed

EmptySection(tier) ==
    [tier |-> tier, rows |-> CHOOSE r \in RowChoices : r \in 1 .. MaxRows,
     seats |-> CHOOSE c \in SeatChoices : c > 0]
EmptyDraft == [tiers |-> <<"">>, sections |-> <<EmptySection("")>>]

\* Faulty variant: the dialog outlives the builder it belongs to.
RenderKeepingDialog(on, open, list) ==
    LET builder == on = "layout" /\ copy' # Nothing /\ ~failed' /\ ~copy'.layout
    IN /\ screen' = on /\ dialog' = open /\ request' = list
       /\ draft' = IF ~builder THEN Nothing ELSE IF draft = Nothing THEN EmptyDraft ELSE draft

\* What goes with a component that unmounts: Builder's draft and dialog, the
\* editor's dialogs, and the callbacks each passed to mutate.
Render(on, open, list) ==
    LET builder == on = "layout" /\ copy' # Nothing /\ ~failed' /\ ~copy'.layout
        mounted(op) == CASE op = "create" -> on = "new"
                         [] op = "layout" -> builder
                         [] OTHER -> on = "edit"
    IN /\ screen' = on
       /\ draft' = IF ~builder THEN Nothing ELSE IF draft = Nothing THEN EmptyDraft ELSE draft
       /\ dialog' = IF \/ open = "generate" /\ ~builder
                       \/ open \in {"cancel", "delete"} /\ on # "edit"
                    THEN "none" ELSE open
       /\ request' = [i \in DOMAIN list |-> [list[i] EXCEPT !.heard = @ /\ mounted(list[i].op)]]

\* Two of the page's hooks observe the event; a refetch on mount joins one under way.
Observed == screen \in {"edit", "layout"}
Mount == fetch' = IF fetch = NoFetch THEN [at |-> "asked"] ELSE fetch

OpenPage(on) ==
    /\ screen \notin {"new", on} /\ dialog = "none"
    /\ Mount
    /\ UNCHANGED <<copy, failed>> /\ Render(on, "none", request)
    /\ UNCHANGED serverVars

Focus ==
    /\ Observed /\ fetch = NoFetch
    /\ fetch' = [at |-> "asked"]
    /\ UNCHANGED <<serverVars, copy, failed, pageVars, request>>

ReadEvent ==
    /\ fetch.at = "asked"
    /\ fetch' = [at |-> "read", event |-> Detail(db)]
    /\ UNCHANGED <<serverVars, copy, failed, pageVars, request>>

\* A deleted event is a 404; a refetch that fails leaves the last copy cached.
Fetched ==
    /\ fetch.at = "read"
    /\ fetch' = NoFetch
    /\ failed' = (fetch.event = Nothing)
    /\ copy' = IF fetch.event = Nothing THEN copy ELSE fetch.event
    /\ Render(screen, dialog, request)
    /\ UNCHANGED serverVars

FetchFails ==
    /\ fetch.at # "idle"
    /\ fetch' = NoFetch /\ failed' = TRUE /\ UNCHANGED copy
    /\ Render(screen, dialog, request)
    /\ UNCHANGED serverVars

-----------------------------------------------------------------------------
(* Asking                                                                   *)

\* A second mutate on one hook takes the first one's callbacks away.
Sends(op, status, layout, announced) ==
    /\ Len(request) < MaxAsked
    /\ request' = Append([i \in DOMAIN request |->
                             [request[i] EXCEPT !.heard = @ /\ request[i].op # op]],
                         [op |-> op, status |-> status, layout |-> layout,
                          announced |-> announced, created |-> 0,
                          heard |-> TRUE, at |-> "sent", answer |-> "none"])
    /\ UNCHANGED <<serverVars, cacheVars, pageVars>>
Asks(op, status) == Sends(op, status, Nothing, 0)

\* isPending
Pending(op) == \E i \in DOMAIN request :
    request[i].op = op /\ request[i].heard /\ request[i].at # "settled"

Create(status) ==
    /\ screen = "new" /\ Asks("create", status)

\* PUT replaces everything, the status included: the cached one.
Save ==
    /\ screen = "edit" /\ Shown /\ dialog = "none"
    /\ Asks("save", copy.status)

ChangeStatus(status) ==
    /\ screen = "edit" /\ Shown /\ dialog = "none"
    /\ ~Pending("status") /\ copy.status \notin {"cancelled", status}
    /\ IF status = "cancelled"
       THEN dialog' = "cancel" /\ UNCHANGED <<serverVars, cacheVars, screen, draft, request>>
       ELSE Asks("status", status)

CancelEvent == dialog = "cancel" /\ Shown /\ Asks("status", "cancelled")

AskToDelete ==
    /\ screen = "edit" /\ Shown /\ dialog = "none"
    /\ dialog' = "delete"
    /\ UNCHANGED <<serverVars, cacheVars, screen, draft, request>>

Destroy == dialog = "delete" /\ Shown /\ Asks("remove", Nothing)

Busy == Pending(CASE dialog = "cancel" -> "status"
                  [] dialog = "delete" -> "remove"
                  [] OTHER -> "layout")

Dismiss ==
    /\ dialog # "none" /\ Shown /\ ~Busy
    /\ dialog' = "none"
    /\ UNCHANGED <<serverVars, cacheVars, screen, draft, request>>

-----------------------------------------------------------------------------
(* The layout builder                                                       *)

TierCodes == {draft.tiers[i] : i \in DOMAIN draft.tiers} \ {""}

Edits(tiers, sections) ==
    /\ draft # Nothing /\ dialog = "none"
    /\ Len(tiers) \in 1 .. MaxTiers /\ Len(sections) \in 1 .. MaxSections
    /\ draft' = [tiers |-> tiers, sections |-> sections]
    /\ UNCHANGED <<serverVars, cacheVars, screen, dialog, request>>

AddTier == Edits(Append(draft.tiers, ""), draft.sections)
RemoveTier(i) == Edits(RemoveAt(draft.tiers, i), draft.sections)
TypeCode(i, code) == Edits([draft.tiers EXCEPT ![i] = code], draft.sections)

FirstCode == LET typed == {i \in DOMAIN draft.tiers : draft.tiers[i] # ""}
             IN IF typed = {} THEN "" ELSE draft.tiers[Min(typed)]
AddSection == Edits(draft.tiers, Append(draft.sections, EmptySection(FirstCode)))
RemoveSection(i) == Edits(draft.tiers, RemoveAt(draft.sections, i))
PickTier(i, code) == Edits(draft.tiers, [draft.sections EXCEPT ![i].tier = code])
TypeGrid(i, rows, seats) ==
    Edits(draft.tiers, [draft.sections EXCEPT ![i] = [@ EXCEPT !.rows = rows, !.seats = seats]])

\* validate: a section's tier need only have been picked.
Valid(d) ==
    /\ \A i \in DOMAIN d.tiers : d.tiers[i] # ""
    /\ IsInjective(d.tiers)
    /\ \A i \in DOMAIN d.sections :
          /\ d.sections[i].tier # ""
          /\ d.sections[i].rows \in 1 .. MaxRows /\ d.sections[i].seats > 0

\* Faulty variant: the row letters stop one short.
PreviewShort(d) == SumFunction([i \in DOMAIN d.sections |->
    d.sections[i].seats * Min({d.sections[i].rows, MaxRows - 1})])

\* buildPreview's seats
Preview(d) == SumFunction([i \in DOMAIN d.sections |->
    d.sections[i].seats * Min({d.sections[i].rows, MaxRows})])

Submit ==
    /\ draft # Nothing /\ dialog = "none" /\ Valid(draft)
    /\ dialog' = "generate"
    /\ UNCHANGED <<serverVars, cacheVars, screen, draft, request>>

CommitLayout == dialog = "generate" /\ Sends("layout", Nothing, draft, Preview(draft))

-----------------------------------------------------------------------------
(* The booking service                                                      *)

Answer(i, answer) == request' = [request EXCEPT ![i] = [@ EXCEPT !.at = "answering", !.answer = answer]]
Refuse(i, answer) == Answer(i, answer) /\ UNCHANGED db
GoesOn(i) == request' = [request EXCEPT ![i] = [@ EXCEPT !.at = "checked"]] /\ UNCHANGED db

\* assertMayBecome
MayBecome(status) == db.status # "cancelled" /\ ~(status = "draft" /\ db.ordered)

CreateEvent(i) ==
    \/ request[i].status = "cancelled" /\ Refuse(i, "invalid")
    \/ Refuse(i, "slug")
    \/ /\ request[i].status # "cancelled" /\ db = Nothing
       /\ db' = [status |-> request[i].status, ordered |-> FALSE, layouts |-> 0, codes |-> {}]
       /\ Answer(i, "ok")

\* update: the status it finds, which the request must agree with ...
FindEvent(i) ==
    \/ db = Nothing /\ Refuse(i, "gone")
    \/ /\ db # Nothing /\ request[i].status # db.status
       /\ Refuse(i, IF db.status = "cancelled" THEN "cancelled" ELSE "transition")
    \/ /\ db # Nothing /\ request[i].status = db.status
       /\ GoesOn(i)

\* ... is written back with the rest of the row.
WriteEvent(i) ==
    \/ Refuse(i, "slug")
    \/ db = Nothing /\ Refuse(i, "lost")
    \/ db # Nothing /\ db' = [db EXCEPT !.status = request[i].status] /\ Answer(i, "ok")

\* setStatus, under the event's lock
DecideStatus(i) ==
    LET next == request[i].status
    IN \/ db = Nothing /\ Refuse(i, "gone")
       \/ /\ db # Nothing /\ next \notin {db.status, "cancelled"} /\ ~MayBecome(next)
          /\ Refuse(i, IF db.status = "cancelled" THEN "cancelled" ELSE "transition")
       \/ /\ db # Nothing
          /\ next \in {db.status, "cancelled"} \/ MayBecome(next)
          /\ db' = [db EXCEPT !.status = next] /\ Answer(i, "ok")

DeleteEvent(i) ==
    \/ db = Nothing /\ Refuse(i, "gone")
    \/ db # Nothing /\ db.ordered /\ Refuse(i, "orders")
    \/ db # Nothing /\ ~db.ordered /\ db' = Nothing /\ Answer(i, "ok")

\* applyLayout: there is no layout yet ...
CheckLayout(i) ==
    \/ db = Nothing /\ Refuse(i, "gone")
    \/ db # Nothing /\ db.layouts > 0 /\ Refuse(i, "exists")
    \/ db # Nothing /\ db.layouts = 0 /\ GoesOn(i)

\* ... and its tiers, then its sections' seats, are inserted.  Codes are unique
\* within an event.
TiersOf(d) == ToSet(d.tiers)
SeatsOf(d, s) == {s} \X ((0 .. d.sections[s].rows - 1) \X (0 .. d.sections[s].seats - 1))
GeneratedSeats(d) == UNION {SeatsOf(d, s) : s \in DOMAIN d.sections}
Generates(codes) == db' = [db EXCEPT !.layouts = @ + 1, !.codes = @ \cup codes]

UnknownTier(d, s) == d.sections[s].tier \notin TiersOf(d)
InvalidSection(d, s) == d.sections[s].rows \notin 1 .. MaxRows \/ d.sections[s].seats < 1

\* The first section at fault decides the refusal.
ApplyLayout(i) ==
    LET d == request[i].layout
        faulty == {s \in DOMAIN d.sections : UnknownTier(d, s) \/ InvalidSection(d, s)}
    IN \/ db = Nothing /\ Refuse(i, "lost")
       \/ db # Nothing /\ TiersOf(d) \cap db.codes # {} /\ Refuse(i, "lost")
       \/ /\ db # Nothing /\ TiersOf(d) \cap db.codes = {}
          /\ IF faulty # {}
             THEN Refuse(i, IF UnknownTier(d, Min(faulty)) THEN "tier" ELSE "invalid")
             ELSE /\ Generates(TiersOf(d))
                  /\ request' = [request EXCEPT ![i] = [@ EXCEPT !.at = "answering", !.answer = "ok",
                                                       !.created = Cardinality(GeneratedSeats(d))]]

Decide(i) ==
    /\ LET op == request[i].op
       IN \/ request[i].at = "sent"
             /\ CASE op = "create" -> CreateEvent(i)
                  [] op = "save" -> FindEvent(i)
                  [] op = "status" -> DecideStatus(i)
                  [] op = "remove" -> DeleteEvent(i)
                  [] op = "layout" -> CheckLayout(i)
          \/ request[i].at = "checked"
             /\ IF op = "save" THEN WriteEvent(i) ELSE ApplyLayout(i)
    /\ UNCHANGED <<other, elsewhere, cacheVars, pageVars>>

\* The request never arrives, or the answer to what it did.
Lost(i) ==
    /\ \/ request[i].at = "sent"
       \/ request[i].at = "answering" /\ request[i].answer = "ok"
    /\ Answer(i, "lost")
    /\ UNCHANGED <<serverVars, cacheVars, pageVars>>

Elsewhere ==
    /\ db # Nothing
    /\ \/ /\ elsewhere < MaxElsewhere /\ elsewhere' = elsewhere + 1
          /\ \/ \E status \in Status \ {db.status} :
                   /\ MayBecome(status) \/ status = "cancelled"
                   /\ db' = [db EXCEPT !.status = status] /\ UNCHANGED other
             \/ /\ db.status = "onsale" /\ db.layouts > 0 /\ ~db.ordered
                /\ db' = [db EXCEPT !.ordered = TRUE] /\ UNCHANGED other
             \/ ~db.ordered /\ db' = Nothing /\ UNCHANGED other
             \/ db.layouts = 0 /\ other = "idle" /\ other' = "checked" /\ UNCHANGED db
       \/ /\ other = "checked" /\ other' = "idle" /\ UNCHANGED elsewhere
          /\ \/ \E code \in Codes \ db.codes : Generates({code})
             \/ UNCHANGED db
    /\ UNCHANGED <<cacheVars, pageVars, request>>

-----------------------------------------------------------------------------
(* Settling                                                                 *)

Refreshing == {"save", "status", "layout"}

\* Faulty variant: only what succeeded is refetched.
InvalidateOnSuccess(r) ==
    IF r.op \in Refreshing /\ r.answer = "ok" /\ Observed THEN fetch' = [at |-> "asked"] ELSE UNCHANGED fetch

\* onSettled, success or not, and mounted or not: the event is refetched where
\* it is shown, a refetch under way starting over.
Invalidate(r) ==
    IF r.op \in Refreshing /\ Observed THEN fetch' = [at |-> "asked"] ELSE UNCHANGED fetch

\* The dialog that asked closes either way.
ClosesDialog(r) ==
    /\ r.heard
    /\ dialog = CASE r.op = "status" /\ r.status = "cancelled" -> "cancel"
                  [] r.op = "remove" -> "delete"
                  [] r.op = "layout" -> "generate"
                  [] OTHER -> ""

\* router.push: a new event is edited next, a deleted one left for the list.
Goes(r) == IF ~r.heard \/ r.answer # "ok" THEN screen
           ELSE CASE r.op = "create" -> "edit"
                  [] r.op = "remove" -> "events"
                  [] OTHER -> screen

\* A settled request's body is forgotten, and with a new event's page whatever
\* it asked.
Settled(i) ==
    IF Goes(request[i]) # screen THEN <<>>
    ELSE [request EXCEPT ![i] = [@ EXCEPT !.at = "settled", !.status = Nothing, !.layout = Nothing]]

Settle(i) ==
    LET r == request[i]
    IN /\ r.at = "answering"
       /\ IF Goes(r) = "edit" /\ screen = "new" THEN Mount ELSE Invalidate(r)
       /\ UNCHANGED <<copy, failed, serverVars>>
       /\ Render(Goes(r), IF ClosesDialog(r) THEN "none" ELSE dialog,
                 Settled(i))

-----------------------------------------------------------------------------
DeskInit ==
    /\ \/ db = Nothing /\ screen = "new" /\ fetch = NoFetch
       \/ /\ screen = "edit" /\ fetch = [at |-> "asked"]
          /\ \E status \in {"draft", "onsale"} :
                db = [status |-> status, ordered |-> FALSE, layouts |-> 0, codes |-> {}]
    /\ other = "idle" /\ elsewhere = 0
    /\ copy = Nothing /\ failed = FALSE
    /\ dialog = "none" /\ draft = Nothing
    /\ request = <<>>

Edit ==
    \/ AddTier \/ AddSection
    \/ \E i \in DOMAIN draft.tiers : RemoveTier(i) \/ \E code \in Codes : TypeCode(i, code)
    \/ \E i \in DOMAIN draft.sections :
          \/ RemoveSection(i)
          \/ \E code \in TierCodes : PickTier(i, code)
          \/ \E rows \in RowChoices, seats \in SeatChoices : TypeGrid(i, rows, seats)

Operator ==
    \/ \E on \in {"events", "edit", "layout"} : OpenPage(on)
    \/ \E status \in Status : Create(status) \/ ChangeStatus(status)
    \/ Focus \/ Save \/ CancelEvent \/ AskToDelete \/ Destroy \/ Dismiss
    \/ draft # Nothing /\ Edit
    \/ Submit \/ CommitLayout

Query == ReadEvent \/ Fetched

\* The operator is followed until they go back to the list of events.
DeskNext ==
    /\ screen # "events"
    /\ \/ Operator \/ Query \/ FetchFails \/ Elsewhere
       \/ \E i \in DOMAIN request : Decide(i) \/ Lost(i) \/ Settle(i)

DeskSpec == DeskInit /\ [][DeskNext]_deskVars

\* A request that is sent is decided or lost, and settles; a fetch is answered.
\* Nothing makes the operator act.
DeskFairSpec ==
    /\ DeskSpec
    /\ WF_deskVars(screen # "events" /\ Query)
    /\ \A i \in 1 .. MaxAsked :
          WF_deskVars(/\ screen # "events" /\ i \in DOMAIN request
                      /\ Decide(i) \/ Lost(i) \/ Settle(i))

-----------------------------------------------------------------------------
(* Properties                                                               *)

\* The number of seats the dialog asked the operator to confirm is the number
\* the booking service then generated, whatever was typed first; nor does the
\* service refuse the rows and seats of a layout the page let through.
PreviewIsGenerated == \A i \in DOMAIN request : request[i].op = "layout" =>
    /\ request[i].answer = "ok" => request[i].created = request[i].announced
    /\ request[i].answer # "invalid"

\* A page refused because others got there first comes to show what they did: a
\* cancelled event's status, or a generated layout in place of the builder.
RefusalIsExplained == \A i \in 1 .. MaxAsked :
    LET refused(answer) == /\ i \in DOMAIN request
                           /\ request[i].at = "settled" /\ request[i].answer = answer
                           /\ request[i].heard
    IN /\ refused("exists") ~> ~refused("exists")
       /\ refused("cancelled") ~> \/ ~refused("cancelled") \/ ~Shown
                                  \/ db = Nothing \/ db.status # "cancelled"
                                  \/ copy.status = "cancelled"

\* "Picking from the tiers typed above makes the server's UNKNOWN_TIER error
\* unreachable rather than merely handled."
TierIsKnown == \A i \in DOMAIN request : request[i].answer # "tier"

\* "One-shot: the API answers 409 LAYOUT_EXISTS if the event already has seats."
LayoutOnce == db # Nothing => db.layouts <= 1

\* "Taking the server's current value keeps a save from undoing a status change
\* made since the page loaded": what a lone operator saves agrees with the server.
SaveAgrees == elsewhere = 0 =>
    \A i \in DOMAIN request : request[i].op = "save" => request[i].answer # "transition"
=============================================================================
