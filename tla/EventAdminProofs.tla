-------------------------- MODULE EventAdminProofs --------------------------
(***************************************************************************)
(* Theorems about what administrators do to an event: about the desk they  *)
(* work at, EventDesk, for any codes, limits, drafts and requests, and      *)
(* about the service that cancels the event, EventCancellation, for any     *)
(* orders, administrators, editors and attempts.  The two share nothing.    *)
(*                                                                         *)
(* The desk shows a sum over the sections of a draft, and the service       *)
(* inserts their seats one by one.  That the numbers agree is a fact about  *)
(* disjoint unions; that the draft is still the one that was summed up, and *)
(* within the limits, is the invariant.                                     *)
(*                                                                         *)
(* A cancellation publishes at its commit what it decided many statements   *)
(* earlier.  That is safe because it decided under locks it still holds:    *)
(* what it took for paid is paid, what it took for unpaid is unpaid, and    *)
(* what it lets go of is held or booked by an order it voids.               *)
(***************************************************************************)
EXTENDS EventCancellation, EventDesk, FiniteSetTheorems, SequenceTheorems, WellFoundedInduction, TLAPS

-----------------------------------------------------------------------------
(* Counting                                                                 *)

\* Numbers have a least.
LEMMA Least ==
    ASSUME NEW S, S \subseteq Nat, S # {}
    PROVE  \E x \in S : \A y \in S : x <= y
<1>1. PICK x \in S : \A y \in S : ~(<<y, x>> \in OpToRel(<, Nat))
  BY NatLessThanWellFounded, WFMin
<1>2. \A y \in S : <<y, x>> \in Nat \X Nat
  OBVIOUS
<1>3. \A y \in S : ~(y < x)
  BY <1>1, <1>2, Zenon DEF OpToRel
<1> QED BY <1>3

\* Induction over numbers, for a set of them.
LEMMA AllNumbers ==
    ASSUME NEW S, 0 \in S, \A n \in Nat : n \in S => n + 1 \in S
    PROVE  Nat \subseteq S
<1> SUFFICES ASSUME Nat \ S # {} PROVE FALSE
  OBVIOUS
<1>1. PICK m \in Nat \ S : \A y \in Nat \ S : m <= y
  BY Least
<1>2. m # 0 /\ m - 1 \in Nat
  BY <1>1
<1>3. m - 1 \in S
  BY <1>1, <1>2
<1>4. m - 1 + 1 \in S
  BY <1>2, <1>3
<1> QED BY <1>1, <1>4

\* The member of a set that a fold takes next.
Taken(s) == CHOOSE x \in s : TRUE

LEMMA TakesOne ==
    ASSUME NEW D, IsFiniteSet(D), NEW s \in SUBSET D, s # {}
    PROVE  /\ Taken(s) \in s /\ s \ {Taken(s)} \in SUBSET D
           /\ IsFiniteSet(s) /\ Cardinality(s) \in Nat
           /\ Cardinality(s \ {Taken(s)}) = Cardinality(s) - 1
<1>1. Taken(s) \in s
  BY DEF Taken
<1>2. IsFiniteSet(s) /\ Cardinality(s) \in Nat
  BY FS_Subset, FS_CardinalityType
<1> QED BY <1>1, <1>2, FS_RemoveElement

\* Induction over the subsets of a finite set, in the order a fold takes them apart.
LEMMA AllSubsets ==
    ASSUME NEW D, IsFiniteSet(D), NEW Good, {} \in Good,
           \A s \in SUBSET D : s # {} /\ s \ {Taken(s)} \in Good => s \in Good
    PROVE  SUBSET D \subseteq Good
<1> DEFINE S == {n \in Nat : \A s \in SUBSET D : Cardinality(s) = n => s \in Good}
<1>1. \A s \in SUBSET D : IsFiniteSet(s) /\ Cardinality(s) \in Nat
  BY FS_Subset, FS_CardinalityType
<1>2. 0 \in S
  BY <1>1, FS_EmptySet
<1>3. ASSUME NEW n \in Nat, n \in S PROVE n + 1 \in S
  <2> SUFFICES ASSUME NEW s \in SUBSET D, Cardinality(s) = n + 1 PROVE s \in Good
    OBVIOUS
  <2>1. s # {}
    BY FS_EmptySet
  <2>2. s \ {Taken(s)} \in SUBSET D /\ Cardinality(s \ {Taken(s)}) = n
    BY <2>1, TakesOne
  <2>3. s \ {Taken(s)} \in Good
    BY <1>3, <2>2
  <2> QED BY <2>1, <2>3
<1> HIDE DEF S
<1>4. Nat \subseteq S
  BY <1>2, <1>3, AllNumbers
<1> QED BY <1>1, <1>4 DEF S

\* g[s] is the sum of f over s, for every subset of D.
PartialSums(f, D, g) ==
    g = [s \in SUBSET D |-> IF s = {} THEN 0 ELSE f[Taken(s)] + g[s \ {Taken(s)}]]

\* A recursion that takes a set apart member by member is a function: there is
\* one for the sets of up to n members, for every n.
LEMMA SumExists ==
    ASSUME NEW D, IsFiniteSet(D), NEW f
    PROVE  \E g : PartialSums(f, D, g)
<1> DEFINE Small(n) == {s \in SUBSET D : Cardinality(s) <= n}
           Rule(h, s) == IF s = {} THEN 0 ELSE f[Taken(s)] + h[s \ {Taken(s)}]
           S == {n \in Nat : \E h : h = [s \in Small(n) |-> Rule(h, s)]}
<1>1. \A s \in SUBSET D : IsFiniteSet(s) /\ Cardinality(s) \in Nat
  BY FS_Subset, FS_CardinalityType
<1>2. ASSUME NEW n \in Nat, NEW s \in Small(n + 1), s # {} PROVE s \ {Taken(s)} \in Small(n)
  BY <1>2, TakesOne
<1>3. 0 \in S
  <2>1. \A s \in Small(0) : s = {}
    BY <1>1, FS_EmptySet
  <2> DEFINE h == [s \in Small(0) |-> 0]
  <2>2. h = [s \in Small(0) |-> Rule(h, s)]
    BY <2>1
  <2> QED BY <2>2
<1>4. ASSUME NEW n \in Nat, n \in S PROVE n + 1 \in S
  <2>1. PICK h : h = [s \in Small(n) |-> Rule(h, s)]
    BY <1>4
  <2> DEFINE k == [s \in Small(n + 1) |-> Rule(h, s)]
  <2>2. Small(n) \subseteq Small(n + 1)
    BY <1>1
  <2>3. \A s \in Small(n) : k[s] = h[s]
    BY <2>1, <2>2
  <2>4. ASSUME NEW s \in Small(n + 1) PROVE Rule(k, s) = Rule(h, s)
    <3>1. CASE s = {}
      BY <3>1
    <3>2. CASE s # {}
      <4>1. s \ {Taken(s)} \in Small(n)
        BY <1>2, <3>2
      <4>2. k[s \ {Taken(s)}] = h[s \ {Taken(s)}]
        BY <2>3, <4>1
      <4> QED BY <3>2, <4>2
    <3> QED BY <3>1, <3>2
  <2>5. k = [s \in Small(n + 1) |-> Rule(k, s)]
    BY <2>4
  <2> HIDE DEF k, Rule, Small
  <2>6. \E j : j = [s \in Small(n + 1) |-> Rule(j, s)]
    BY <2>5
  <2> QED BY <2>6
<1>5. Cardinality(D) \in S
  <2> HIDE DEF S
  <2> QED BY <1>1, <1>3, <1>4, AllNumbers
<1>6. Small(Cardinality(D)) = SUBSET D
  BY FS_Subset, FS_CardinalityType
<1>7. PICK g : g = [s \in Small(Cardinality(D)) |-> Rule(g, s)]
  BY <1>5
<1>8. PartialSums(f, D, g)
  BY <1>6, <1>7 DEF PartialSums
<1> QED BY <1>8

\* What a sum over a function is: the last of some partial sums, each of which is
\* the one before it and one more value.
AddsUp(f, g) ==
    /\ SumFunction(f) = g[DOMAIN f] /\ g[{}] = 0
    /\ \A s \in SUBSET DOMAIN f : s # {} => g[s] = f[Taken(s)] + g[s \ {Taken(s)}]

LEMMA SumUnfolds ==
    ASSUME NEW f, IsFiniteSet(DOMAIN f)
    PROVE  \E g : AddsUp(f, g)
<1> DEFINE D == DOMAIN f
           g == CHOOSE g : PartialSums(f, D, g)
<1>1. PartialSums(f, D, g)
  BY SumExists
<1>2. SumFunction(f) = g[D]
  BY DEF SumFunction, SumFunctionOnSet, FoldFunctionOnSet, MapThenFoldSet, PartialSums, Taken
<1> HIDE DEF g
<1>3. \A s \in SUBSET D : g[s] = IF s = {} THEN 0 ELSE f[Taken(s)] + g[s \ {Taken(s)}]
  BY <1>1 DEF PartialSums
<1>4. g[{}] = 0
  BY <1>3
<1>5. \A s \in SUBSET D : s # {} => g[s] = f[Taken(s)] + g[s \ {Taken(s)}]
  BY <1>3
<1> QED BY <1>2, <1>4, <1>5 DEF AddsUp

\* A union of disjoint finite sets has as many members as they have together.
LEMMA UnionCounts ==
    ASSUME NEW A, IsFiniteSet(DOMAIN A),
           \A x \in DOMAIN A : IsFiniteSet(A[x]),
           \A x, y \in DOMAIN A : x # y => A[x] \cap A[y] = {},
           NEW f, f = [x \in DOMAIN A |-> Cardinality(A[x])]
    PROVE  /\ SumFunction(f) \in Nat
           /\ Cardinality(UNION {A[x] : x \in DOMAIN A}) = SumFunction(f)
<1> DEFINE D == DOMAIN A
           U(s) == UNION {A[x] : x \in s}
<1>1. PICK g : /\ SumFunction(f) = g[D] /\ g[{}] = 0
               /\ \A s \in SUBSET D : s # {} => g[s] = f[Taken(s)] + g[s \ {Taken(s)}]
  <2>1. DOMAIN f = D /\ IsFiniteSet(DOMAIN f)
    OBVIOUS
  <2>2. PICK g : AddsUp(f, g)
    BY <2>1, SumUnfolds
  <2> QED BY <2>1, <2>2 DEF AddsUp
<1> DEFINE Good == {s \in SUBSET D : IsFiniteSet(U(s)) /\ g[s] \in Nat /\ Cardinality(U(s)) = g[s]}
<1>2. {} \in Good
  <2>1. U({}) = {} /\ {} \in SUBSET D
    OBVIOUS
  <2>2. IsFiniteSet({}) /\ Cardinality({}) = 0
    BY FS_EmptySet
  <2>3. g[{}] \in Nat /\ Cardinality({}) = g[{}]
    BY <1>1, <2>2
  <2> HIDE DEF U
  <2> QED BY <2>1, <2>2, <2>3
<1>3. ASSUME NEW s \in SUBSET D, s # {}, s \ {Taken(s)} \in Good PROVE s \in Good
  <2> DEFINE x == Taken(s)
             r == s \ {x}
  <2>1. x \in s /\ x \in D
    BY <1>3 DEF Taken
  <2> HIDE DEF x
  <2>2. U(s) = U(r) \cup A[x]
    BY <2>1
  <2>3. U(r) \cap A[x] = {}
    BY <2>1
  <2>4. IsFiniteSet(U(r)) /\ g[r] \in Nat /\ Cardinality(U(r)) = g[r]
    BY <1>3 DEF x
  <2>5. IsFiniteSet(A[x]) /\ Cardinality(A[x]) \in Nat
    BY <2>1, FS_CardinalityType
  <2>6. g[s] = Cardinality(A[x]) + g[r]
    BY <1>1, <1>3, <2>1 DEF x
  <2> HIDE DEF U, r
  <2>7. Cardinality(U(r) \cap A[x]) = 0
    BY <2>3, FS_EmptySet
  <2>8. /\ IsFiniteSet(U(s))
        /\ Cardinality(U(s)) = Cardinality(U(r)) + Cardinality(A[x]) - Cardinality(U(r) \cap A[x])
    BY <2>2, <2>4, <2>5, FS_Union
  <2>9. Cardinality(U(s)) = g[s] /\ g[s] \in Nat
    BY <2>4, <2>5, <2>6, <2>7, <2>8
  <2> QED BY <2>8, <2>9
<1> HIDE DEF Good
<1>4. SUBSET D \subseteq Good
  BY <1>2, <1>3, AllSubsets
<1>5. D \in Good
  BY <1>4
<1> QED BY <1>1, <1>5 DEF Good

\* A sequence is a function on its indices.
LEMMA SeqOfFunction ==
    ASSUME NEW S, NEW n \in Nat, NEW f \in [1 .. n -> S]
    PROVE  f \in Seq(S) /\ Len(f) = n /\ DOMAIN f = 1 .. n
OBVIOUS

LEMMA OneLong == ASSUME NEW S, NEW x \in S PROVE <<x>> \in Seq(S)
OBVIOUS

-----------------------------------------------------------------------------
(* Layouts                                                                  *)

LEMMA Sizes ==
    /\ MaxRows \in Nat \ {0} /\ MaxAsked \in Nat /\ MaxElsewhere \in Nat
    /\ RowChoices \subseteq Nat /\ SeatChoices \subseteq Nat
BY EventDeskAssumption DEF EventDeskAssumption

LEMMA SmallerOfTwo ==
    ASSUME NEW a \in Nat, NEW b \in Nat, a <= b
    PROVE  Min({a, b}) = a
BY DEF Min

\* The seats of a section are its rows times its seats per row.
LEMMA SectionCounts ==
    ASSUME NEW d \in Draft, NEW s \in DOMAIN d.sections
    PROVE  /\ d.sections[s].rows \in Nat /\ d.sections[s].seats \in Nat
           /\ IsFiniteSet(SeatsOf(d, s))
           /\ Cardinality(SeatsOf(d, s)) = d.sections[s].rows * d.sections[s].seats
<1> DEFINE m == d.sections[s].rows
           n == d.sections[s].seats
<1>1. d.sections[s] \in Section
  BY DEF Draft
<1>2. m \in Nat /\ n \in Nat
  BY <1>1, Sizes DEF Section
<1> HIDE DEF m, n
<1>3. IsFiniteSet(0 .. m - 1) /\ Cardinality(0 .. m - 1) = m
  <2>1. 0 \in Int /\ m - 1 \in Int
    BY <1>2
  <2> QED BY <1>2, <2>1, FS_Interval
<1>4. IsFiniteSet(0 .. n - 1) /\ Cardinality(0 .. n - 1) = n
  <2>1. 0 \in Int /\ n - 1 \in Int
    BY <1>2
  <2> QED BY <1>2, <2>1, FS_Interval
<1> DEFINE grid == (0 .. m - 1) \X (0 .. n - 1)
<1>5. IsFiniteSet(grid) /\ Cardinality(grid) = m * n
  <2> DEFINE R == 0 .. m - 1
             P == 0 .. n - 1
  <2>1. IsFiniteSet(R) /\ Cardinality(R) = m /\ IsFiniteSet(P) /\ Cardinality(P) = n
    BY <1>3, <1>4
  <2>2. grid = R \X P
    OBVIOUS
  <2> HIDE DEF R, P, grid
  <2> QED BY <2>1, <2>2, FS_Product
<1>6. IsFiniteSet({s}) /\ Cardinality({s}) = 1
  BY FS_Singleton
<1> HIDE DEF grid
<1>7. IsFiniteSet({s} \X grid) /\ Cardinality({s} \X grid) = 1 * (m * n)
  BY <1>5, <1>6, FS_Product
<1>8. m * n \in Nat
  BY <1>2
<1>9. 1 * (m * n) = m * n
  BY <1>8
<1> QED BY <1>2, <1>7, <1>9 DEF SeatsOf, grid, m, n

\* Of a layout the page lets through, the preview counts the seats that are generated.
LEMMA SeatsGenerated ==
    ASSUME NEW d \in Draft, Valid(d)
    PROVE  Preview(d) \in Nat /\ Cardinality(GeneratedSeats(d)) = Preview(d)
<1> DEFINE D == DOMAIN d.sections
           A == [s \in D |-> SeatsOf(d, s)]
           f == [s \in D |-> d.sections[s].seats * Min({d.sections[s].rows, MaxRows})]
<1>1. IsFiniteSet(D)
  <2>1. d.sections \in Seq(Section)
    BY DEF Draft
  <2>2. D = 1 .. Len(d.sections) /\ Len(d.sections) \in Int
    BY <2>1
  <2> QED BY <2>2, FS_Interval
<1>2. \A s \in D : IsFiniteSet(A[s])
  BY SectionCounts
<1>3. \A x, y \in D : x # y => A[x] \cap A[y] = {}
  BY DEF SeatsOf
<1>4. ASSUME NEW s \in D PROVE f[s] = Cardinality(A[s])
  <2>1. d.sections[s].rows \in Nat /\ d.sections[s].seats \in Nat
    BY SectionCounts
  <2>2. d.sections[s].rows <= MaxRows
    <3>1. d.sections[s].rows \in 1 .. MaxRows
      BY DEF Valid
    <3> QED BY <3>1, Sizes
  <2>3. f[s] = d.sections[s].seats * d.sections[s].rows
    BY <2>1, <2>2, Sizes, SmallerOfTwo
  <2>4. Cardinality(A[s]) = d.sections[s].rows * d.sections[s].seats
    BY SectionCounts
  <2> QED BY <2>1, <2>3, <2>4
<1>5. DOMAIN A = D /\ f = [s \in DOMAIN A |-> Cardinality(A[s])]
  BY <1>4
<1>6. SumFunction(f) = Preview(d)
  BY DEF Preview
<1>7. UNION {A[s] : s \in DOMAIN A} = GeneratedSeats(d)
  BY DEF GeneratedSeats
<1> HIDE DEF A, f, D
<1> QED BY <1>1, <1>2, <1>3, <1>5, <1>6, <1>7, UnionCounts

-----------------------------------------------------------------------------
(* What is true of every request                                            *)

\* A request under way carries what the page checked when it sent it.
Told(r) ==
    /\ r.op = "layout" /\ r.at \in {"sent", "checked"} =>
          r.layout \in Draft /\ Valid(r.layout) /\ r.announced = Preview(r.layout)
    /\ r.op \in {"create", "save", "status"} /\ r.at \in {"sent", "checked"} => r.status \in Status
    /\ r.at = "checked" => r.op \in {"save", "layout"}
    /\ r.op = "layout" => (r.answer = "ok" => r.created = r.announced) /\ r.answer # "invalid"
ToldRequest == {r \in Request : Told(r)}

DeskInv ==
    /\ DeskTypeOK
    /\ request \in Seq(ToldRequest)
    /\ dialog = "generate" => Valid(draft)

LEMMA DeskInvImplies == DeskInv => DeskTypeOK /\ PreviewIsGenerated
<1> SUFFICES ASSUME DeskInv, NEW i \in DOMAIN request, request[i].op = "layout"
             PROVE  /\ request[i].answer = "ok" => request[i].created = request[i].announced
                    /\ request[i].answer # "invalid"
  BY DEF DeskInv, PreviewIsGenerated
<1>1. request[i] \in ToldRequest
  BY DEF DeskInv
<1> QED BY <1>1 DEF ToldRequest, Told

\* Told requests are requests.
LEMMA ToldAreTyped ==
    ASSUME NEW list \in Seq(ToldRequest)
    PROVE  /\ list \in Seq(Request) /\ Len(list) \in Nat /\ DOMAIN list = 1 .. Len(list)
           /\ \A i \in DOMAIN list : list[i] \in ToldRequest /\ list[i] \in Request
<1>1. ToldRequest \subseteq Request
  BY DEF ToldRequest
<1>2. list \in Seq(Request)
  BY <1>1, SeqMonotonic
<1> QED BY <1>1, <1>2

\* A request may lose its callbacks.
LEMMA Unheard ==
    ASSUME NEW r \in ToldRequest, NEW b \in BOOLEAN
    PROVE  [r EXCEPT !.heard = b] \in ToldRequest
BY DEF ToldRequest, Told, Request

\* What is left of a list of requests when a page's callbacks are gone.
Silenced(list, heard) == [i \in DOMAIN list |-> [list[i] EXCEPT !.heard = heard[i]]]

LEMMA AllUnheard ==
    ASSUME NEW list \in Seq(ToldRequest), NEW heard \in [DOMAIN list -> BOOLEAN]
    PROVE  Silenced(list, heard) \in Seq(ToldRequest) /\ Len(Silenced(list, heard)) = Len(list)
<1>1. DOMAIN list = 1 .. Len(list) /\ Len(list) \in Nat
  BY ToldAreTyped
<1>2. \A i \in DOMAIN list : [list[i] EXCEPT !.heard = heard[i]] \in ToldRequest
  BY ToldAreTyped, Unheard
<1>3. Silenced(list, heard) \in [1 .. Len(list) -> ToldRequest]
  BY <1>1, <1>2 DEF Silenced
<1> QED BY <1>1, <1>3, SeqOfFunction

\* One that is settled carries nothing.
LEMMA Forgotten ==
    ASSUME NEW r \in ToldRequest
    PROVE  [r EXCEPT !.at = "settled", !.status = Nothing, !.layout = Nothing] \in ToldRequest
BY DEF ToldRequest, Told, Request

\* One that is answered, other than with a layout, carries nothing the answer depends on.
LEMMA Answered ==
    ASSUME NEW r \in ToldRequest, NEW answer \in Answers, answer \notin {"ok", "invalid"} \/ r.op # "layout"
    PROVE  [r EXCEPT !.at = "answering", !.answer = answer] \in ToldRequest
BY DEF ToldRequest, Told, Request

LEMMA Checked ==
    ASSUME NEW r \in ToldRequest, r.at = "sent", r.op \in {"save", "layout"}
    PROVE  [r EXCEPT !.at = "checked"] \in ToldRequest
BY DEF ToldRequest, Told, Request

LEMMA LaidOut ==
    ASSUME NEW r \in ToldRequest, r.at = "checked", r.op = "layout"
    PROVE  [r EXCEPT !.at = "answering", !.answer = "ok",
                     !.created = Cardinality(GeneratedSeats(r.layout))] \in ToldRequest
<1>1. r.layout \in Draft /\ Valid(r.layout) /\ r.announced = Preview(r.layout)
  BY DEF ToldRequest, Told
<1>2. Cardinality(GeneratedSeats(r.layout)) = r.announced /\ r.announced \in Nat
  BY <1>1, SeatsGenerated
<1> QED BY <1>2 DEF ToldRequest, Told, Request, Answers

-----------------------------------------------------------------------------
(* What the steps are made of                                               *)

Screens == {"new", "events", "edit", "layout"}
Fetches == {NoFetch, [at |-> "asked"]} \cup [at : {"read"}, event : {Nothing} \cup EventDetail]

LEMMA EmptyIsDraft ==
    /\ \A tier \in Tier : EmptySection(tier) \in Section
    /\ EmptyDraft \in Draft
<1>1. ASSUME NEW tier \in Tier PROVE EmptySection(tier) \in Section
  <2>1. \E r \in RowChoices : r \in 1 .. MaxRows
    BY EventDeskAssumption DEF EventDeskAssumption
  <2>2. \E c \in SeatChoices : c > 0
    <3>1. PICK c \in SeatChoices : c # 0
      BY EventDeskAssumption DEF EventDeskAssumption
    <3>2. c > 0
      BY <3>1, Sizes
    <3> QED BY <3>2
  <2>3. (CHOOSE r \in RowChoices : r \in 1 .. MaxRows) \in RowChoices
    BY <2>1
  <2>4. (CHOOSE c \in SeatChoices : c > 0) \in SeatChoices
    BY <2>2
  <2> QED BY <2>3, <2>4 DEF EmptySection, Section
<1>2. "" \in Tier
  BY DEF Tier
<1>3. EmptySection("") \in Section
  BY <1>1, <1>2, Zenon
<1>4. <<"">> \in Seq(Tier) /\ <<EmptySection("")>> \in Seq(Section)
  BY <1>2, <1>3, OneLong
<1> QED BY <1>1, <1>4 DEF EmptyDraft, Draft

\* A page that is rendered anew forgets callbacks, drafts and dialogs; nothing else.
LEMMA RenderKeeps ==
    ASSUME DeskInv, NEW on \in Screens, NEW open \in {dialog, "none"},
           NEW list \in Seq(ToldRequest), Len(list) <= MaxAsked,
           UNCHANGED serverVars, Render(on, open, list),
           copy' \in {Nothing} \cup EventDetail, fetch' \in Fetches, failed' \in BOOLEAN
    PROVE  DeskInv'
<1> DEFINE builder == on = "layout" /\ copy' # Nothing /\ ~failed' /\ ~copy'.layout
           mounted(op) == CASE op = "create" -> on = "new"
                            [] op = "layout" -> builder
                            [] OTHER -> on = "edit"
           heard == [i \in DOMAIN list |-> list[i].heard /\ mounted(list[i].op)]
<1>1. request' \in Seq(ToldRequest) /\ Len(request') <= MaxAsked
  <2>1. builder \in BOOLEAN
    OBVIOUS
  <2> HIDE DEF builder
  <2>2. \A i \in DOMAIN list : list[i].heard \in BOOLEAN
    BY ToldAreTyped DEF Request
  <2>3. heard \in [DOMAIN list -> BOOLEAN]
    BY <2>1, <2>2
  <2>4. request' = Silenced(list, heard)
    BY DEF Render, builder, Silenced
  <2> HIDE DEF heard
  <2> QED BY <2>3, <2>4, AllUnheard
<1>2. screen' = on
  BY DEF Render
<1>3. draft' = IF ~builder THEN Nothing ELSE IF draft = Nothing THEN EmptyDraft ELSE draft
  BY DEF Render
<1>4. dialog' = IF \/ open = "generate" /\ ~builder
                   \/ open \in {"cancel", "delete"} /\ on # "edit"
                THEN "none" ELSE open
  BY DEF Render
<1> HIDE DEF builder
<1>5. draft' \in {Nothing} \cup Draft
  BY <1>3, EmptyIsDraft DEF DeskInv, DeskTypeOK
<1>6. dialog' = "generate" => draft' # Nothing /\ Valid(draft')
  <2> SUFFICES ASSUME dialog' = "generate" PROVE draft' # Nothing /\ Valid(draft')
    OBVIOUS
  <2>1. open = "generate" /\ builder
    BY <1>4
  <2>2. dialog = "generate"
    BY <2>1
  <2>3. draft # Nothing /\ Valid(draft)
    BY <2>2 DEF DeskInv, DeskTypeOK
  <2> QED BY <1>3, <2>1, <2>3
<1>7. dialog' \in {"none", "cancel", "delete", "generate"}
  BY <1>4 DEF DeskInv, DeskTypeOK
<1>8. request' \in Seq(Request)
  BY <1>1, ToldAreTyped
<1> QED BY <1>1, <1>2, <1>5, <1>6, <1>7, <1>8 DEF DeskInv, DeskTypeOK, serverVars, Fetches, Screens

\* A request as it is sent.
Sent(op, status, layout, announced) ==
    [op |-> op, status |-> status, layout |-> layout, announced |-> announced, created |-> 0,
     heard |-> TRUE, at |-> "sent", answer |-> "none"]

\* A request of the same kind silences the ones before it.
LEMMA OthersUnheard ==
    ASSUME NEW list \in Seq(ToldRequest), NEW op
    PROVE  LET heard == [i \in DOMAIN list |-> list[i].heard /\ list[i].op # op]
               quiet == [i \in DOMAIN list |-> [list[i] EXCEPT !.heard = heard[i]]]
           IN  quiet \in Seq(ToldRequest) /\ Len(quiet) = Len(list)
<1> DEFINE heard == [i \in DOMAIN list |-> list[i].heard /\ list[i].op # op]
           quiet == [i \in DOMAIN list |-> [list[i] EXCEPT !.heard = heard[i]]]
<1>1. \A i \in DOMAIN list : list[i].heard \in BOOLEAN
  BY ToldAreTyped DEF Request
<1>2. heard \in [DOMAIN list -> BOOLEAN]
  BY <1>1
<1>3. quiet = Silenced(list, heard)
  BY DEF Silenced
<1>4. quiet \in Seq(ToldRequest) /\ Len(quiet) = Len(list)
  <2> HIDE DEF heard, quiet
  <2> QED BY <1>2, <1>3, AllUnheard
<1> QED BY <1>4

LEMMA SendsKeeps ==
    ASSUME DeskInv, NEW op, NEW status, NEW layout, NEW announced, Sends(op, status, layout, announced),
           Sent(op, status, layout, announced) \in ToldRequest
    PROVE  DeskInv'
<1> DEFINE new == Sent(op, status, layout, announced)
           heard == [i \in DOMAIN request |-> request[i].heard /\ request[i].op # op]
           quiet == [i \in DOMAIN request |-> [request[i] EXCEPT !.heard = heard[i]]]
<1>1. quiet \in Seq(ToldRequest) /\ Len(quiet) = Len(request) /\ Len(quiet) \in Nat
  BY OthersUnheard, ToldAreTyped DEF DeskInv
<1>2. request' = Append(quiet, new) /\ Len(request) < MaxAsked
  BY DEF Sends, Sent
<1>3. new \in ToldRequest
  OBVIOUS
<1>4. UNCHANGED <<serverVars, cacheVars, pageVars>>
  BY DEF Sends
<1> HIDE DEF new, quiet
<1>5. request' \in Seq(ToldRequest) /\ Len(request') = Len(request) + 1
  BY <1>1, <1>2, <1>3, AppendProperties
<1>6. request' \in Seq(Request)
  BY <1>5, ToldAreTyped
<1>7. Len(request') <= MaxAsked
  BY <1>1, <1>2, <1>5, Sizes
<1> QED BY <1>4, <1>5, <1>6, <1>7 DEF DeskInv, DeskTypeOK, serverVars, cacheVars, pageVars

\* The service, or the network, changes one request and perhaps the event's row.
LEMMA AnswerKeeps ==
    ASSUME DeskInv, NEW i \in DOMAIN request, NEW r \in ToldRequest, request' = [request EXCEPT ![i] = r],
           db' \in {Nothing} \cup EventRow, UNCHANGED <<other, elsewhere, cacheVars, pageVars>>
    PROVE  DeskInv'
<1>1. request \in Seq(ToldRequest) /\ i \in 1 .. Len(request)
  BY ToldAreTyped DEF DeskInv
<1>2. request' \in Seq(ToldRequest) /\ Len(request') = Len(request)
  BY <1>1, ExceptSeq
<1>3. request' \in Seq(Request)
  BY <1>2, ToldAreTyped
<1> QED BY <1>2, <1>3 DEF DeskInv, DeskTypeOK, cacheVars, pageVars

\* Only the draft, or the dialog over it, changes.
LEMMA PageKeeps ==
    ASSUME DeskInv, UNCHANGED <<serverVars, cacheVars, screen, request>>,
           draft' \in {Nothing} \cup Draft, dialog' \in {"none", "cancel", "delete", "generate"},
           dialog' = "generate" => draft' # Nothing /\ Valid(draft')
    PROVE  DeskInv'
BY DEF DeskInv, DeskTypeOK, serverVars, cacheVars

-----------------------------------------------------------------------------
(* The steps                                                                *)

LEMMA RequestsAreTold ==
    ASSUME DeskInv
    PROVE  /\ request \in Seq(ToldRequest) /\ Len(request) <= MaxAsked
           /\ \A i \in DOMAIN request : request[i] \in ToldRequest /\ request[i] \in Request
BY ToldAreTyped DEF DeskInv, DeskTypeOK

LEMMA MountKeeps ==
    ASSUME DeskInv
    PROVE  fetch \in Fetches /\ (Mount => fetch' \in Fetches)
BY DEF DeskInv, DeskTypeOK, Mount, Fetches

LEMMA ShownIsDetail == ASSUME DeskInv, Shown PROVE copy.status \in Status
BY DEF DeskInv, DeskTypeOK, Shown, EventDetail

LEMMA AsksKeep ==
    ASSUME DeskInv, NEW op \in {"create", "save", "status", "remove"}, NEW status \in Status \cup {Nothing},
           op # "remove" => status \in Status, Asks(op, status)
    PROVE  DeskInv'
<1>1. Sent(op, status, Nothing, 0) \in ToldRequest
  BY DEF Sent, ToldRequest, Told, Request
<1> QED BY <1>1, SendsKeeps DEF Asks

LEMMA QueriesKeep ==
    ASSUME DeskInv
    PROVE  /\ \A on \in {"events", "edit", "layout"} : OpenPage(on) => DeskInv'
           /\ Focus \/ ReadEvent \/ Fetched \/ FetchFails => DeskInv'
<1>1. ASSUME NEW on \in {"events", "edit", "layout"}, OpenPage(on) PROVE DeskInv'
  <2>1. on \in Screens /\ UNCHANGED serverVars /\ Render(on, "none", request)
    BY <1>1 DEF OpenPage, Screens
  <2>2. copy' \in {Nothing} \cup EventDetail /\ failed' \in BOOLEAN
    BY <1>1 DEF OpenPage, DeskInv, DeskTypeOK
  <2>3. fetch' \in Fetches
    BY <1>1, MountKeeps DEF OpenPage
  <2> QED BY <2>1, <2>2, <2>3, RenderKeeps, RequestsAreTold
<1>2. ASSUME Focus PROVE DeskInv'
  BY <1>2 DEF Focus, DeskInv, DeskTypeOK, serverVars, pageVars, Fetches
<1>3. ASSUME ReadEvent PROVE DeskInv'
  <2>1. Detail(db) \in {Nothing} \cup EventDetail
    BY DEF Detail, EventDetail, EventRow, DeskInv, DeskTypeOK
  <2>2. fetch' \in Fetches
    BY <1>3, <2>1 DEF ReadEvent, Fetches
  <2> QED BY <1>3, <2>2 DEF ReadEvent, DeskInv, DeskTypeOK, serverVars, pageVars, Fetches
<1>4. ASSUME Fetched \/ FetchFails PROVE DeskInv'
  <2>1. screen \in Screens /\ UNCHANGED serverVars /\ Render(screen, dialog, request)
    BY <1>4 DEF Fetched, FetchFails, DeskInv, DeskTypeOK, Screens
  <2>2. fetch' \in Fetches /\ failed' \in BOOLEAN
    BY <1>4 DEF Fetched, FetchFails, Fetches
  <2>3. copy' \in {Nothing} \cup EventDetail
    <3>1. CASE Fetched
      <4>1. fetch.event \in {Nothing} \cup EventDetail
        BY <3>1, MountKeeps DEF Fetched, Fetches, NoFetch
      <4> QED BY <3>1, <4>1 DEF Fetched, DeskInv, DeskTypeOK
    <3>2. CASE FetchFails
      BY <3>2 DEF FetchFails, DeskInv, DeskTypeOK
    <3> QED BY <1>4, <3>1, <3>2
  <2> QED BY <2>1, <2>2, <2>3, RenderKeeps, RequestsAreTold
<1> QED BY <1>1, <1>2, <1>3, <1>4

LEMMA AskingKeeps ==
    ASSUME DeskInv
    PROVE  /\ \A status \in Status : Create(status) \/ ChangeStatus(status) => DeskInv'
           /\ Save \/ CancelEvent \/ AskToDelete \/ Destroy \/ Dismiss => DeskInv'
<1>1. draft \in {Nothing} \cup Draft /\ (dialog = "generate" => draft # Nothing /\ Valid(draft))
  BY DEF DeskInv, DeskTypeOK
<1>2. ASSUME NEW status \in Status, Create(status) PROVE DeskInv'
  BY <1>2, AsksKeep DEF Create
<1>3. ASSUME NEW status \in Status, ChangeStatus(status) PROVE DeskInv'
  <2>1. CASE status = "cancelled"
    BY <1>1, <1>3, <2>1, PageKeeps DEF ChangeStatus
  <2>2. CASE status # "cancelled"
    BY <1>3, <2>2, AsksKeep DEF ChangeStatus
  <2> QED BY <2>1, <2>2
<1>4. ASSUME Save PROVE DeskInv'
  BY <1>4, AsksKeep, ShownIsDetail DEF Save
<1>5. ASSUME CancelEvent PROVE DeskInv'
  BY <1>5, AsksKeep DEF CancelEvent, Status
<1>6. ASSUME AskToDelete \/ Dismiss PROVE DeskInv'
  BY <1>1, <1>6, PageKeeps DEF AskToDelete, Dismiss
<1>7. ASSUME Destroy PROVE DeskInv'
  BY <1>7, AsksKeep DEF Destroy
<1> QED BY <1>2, <1>3, <1>4, <1>5, <1>6, <1>7

LEMMA EditsKeep ==
    ASSUME DeskInv, NEW tiers \in Seq(Tier), NEW sections \in Seq(Section), Edits(tiers, sections)
    PROVE  DeskInv'
<1>1. [tiers |-> tiers, sections |-> sections] \in Draft
  BY DEF Draft
<1> QED BY <1>1, PageKeeps DEF Edits

LEMMA Shorter ==
    ASSUME NEW S, NEW s \in Seq(S), NEW i \in DOMAIN s
    PROVE  RemoveAt(s, i) \in Seq(S)
<1>1. Len(s) \in Nat /\ i \in 1 .. Len(s) /\ \A j \in 1 .. Len(s) : s[j] \in S
  OBVIOUS
<1>2. SubSeq(s, 1, i - 1) \in Seq(S)
  BY <1>1, SubSeqProperties
<1>3. SubSeq(s, i + 1, Len(s)) \in Seq(S)
  BY <1>1, SubSeqProperties
<1> QED BY <1>2, <1>3, ConcatProperties DEF RemoveAt

LEMMA FirstCodeIsTier == ASSUME draft \in Draft PROVE FirstCode \in Tier
<1> DEFINE typed == {i \in DOMAIN draft.tiers : draft.tiers[i] # ""}
<1>1. draft.tiers \in Seq(Tier)
  BY DEF Draft
<1>2. typed \subseteq Nat /\ \A i \in typed : draft.tiers[i] \in Tier
  <2>1. DOMAIN draft.tiers = 1 .. Len(draft.tiers) /\ Len(draft.tiers) \in Nat
    BY <1>1, LenProperties
  <2>2. typed \subseteq 1 .. Len(draft.tiers)
    BY <2>1
  <2> HIDE DEF typed
  <2>3. \A i \in typed : draft.tiers[i] \in Tier
    BY <1>1, <2>2, ElementOfSeq
  <2>4. typed \subseteq Nat
    BY <2>1, <2>2
  <2> QED BY <2>3, <2>4
<1>3. CASE typed = {}
  BY <1>3 DEF FirstCode, Tier
<1>4. CASE typed # {}
  <2>1. \E x \in typed : \A y \in typed : x =< y
    BY <1>2, <1>4, Least
  <2> HIDE DEF typed
  <2>2. Min(typed) \in typed
    BY <2>1 DEF Min
  <2>3. draft.tiers[Min(typed)] \in Tier
    BY <1>2, <2>2
  <2> QED BY <1>4, <2>3 DEF FirstCode, typed
<1> QED BY <1>3, <1>4

LEMMA BuildingKeeps ==
    ASSUME DeskInv, draft # Nothing, Edit \/ Submit \/ CommitLayout
    PROVE  DeskInv'
<1>1. /\ draft \in Draft /\ draft.tiers \in Seq(Tier) /\ draft.sections \in Seq(Section)
      /\ dialog = "generate" => Valid(draft)
  BY DEF DeskInv, DeskTypeOK, Draft
<1>2. CASE AddTier
  <2>1. "" \in Tier
    BY DEF Tier
  <2>2. Append(draft.tiers, "") \in Seq(Tier)
    BY <1>1, <2>1, AppendProperties
  <2> QED BY <1>1, <1>2, <2>2, EditsKeep DEF AddTier
<1>3. CASE AddSection
  <2>1. Append(draft.sections, EmptySection(FirstCode)) \in Seq(Section)
    BY <1>1, FirstCodeIsTier, EmptyIsDraft, AppendProperties
  <2> QED BY <1>1, <1>3, <2>1, EditsKeep DEF AddSection
<1>4. ASSUME NEW i \in DOMAIN draft.tiers, RemoveTier(i) PROVE DeskInv'
  <2>1. RemoveAt(draft.tiers, i) \in Seq(Tier)
    BY <1>1, Shorter
  <2> QED BY <1>1, <1>4, <2>1, EditsKeep DEF RemoveTier
<1>5. ASSUME NEW i \in DOMAIN draft.tiers, NEW code \in Codes, TypeCode(i, code) PROVE DeskInv'
  <2>1. i \in 1 .. Len(draft.tiers)
    BY <1>1, LenProperties
  <2>2. code \in Tier
    BY DEF Tier
  <2>3. [draft.tiers EXCEPT ![i] = code] \in Seq(Tier)
    BY <1>1, <2>1, <2>2, ExceptSeq
  <2> QED BY <1>1, <1>5, <2>3, EditsKeep DEF TypeCode
<1>6. ASSUME NEW i \in DOMAIN draft.sections, RemoveSection(i) PROVE DeskInv'
  <2>1. RemoveAt(draft.sections, i) \in Seq(Section)
    BY <1>1, Shorter
  <2> QED BY <1>1, <1>6, <2>1, EditsKeep DEF RemoveSection
<1>7. ASSUME NEW i \in DOMAIN draft.sections PROVE i \in 1 .. Len(draft.sections) /\ draft.sections[i] \in Section
  BY <1>1
<1>8. ASSUME NEW i \in DOMAIN draft.sections, NEW code \in TierCodes, PickTier(i, code) PROVE DeskInv'
  <2>1. code \in Tier
    <3>1. PICK j \in DOMAIN draft.tiers : code = draft.tiers[j]
      BY DEF TierCodes
    <3>2. j \in 1 .. Len(draft.tiers)
      BY <1>1, LenProperties
    <3> QED BY <1>1, <3>1, <3>2, ElementOfSeq
  <2>2. [draft.sections[i] EXCEPT !.tier = code] \in Section
    BY <1>7, <2>1 DEF Section
  <2>3. [draft.sections EXCEPT ![i].tier = code] = [draft.sections EXCEPT ![i] = [draft.sections[i] EXCEPT !.tier = code]]
    OBVIOUS
  <2>4. [draft.sections EXCEPT ![i].tier = code] \in Seq(Section)
    BY <1>1, <1>7, <2>2, <2>3, ExceptSeq
  <2> QED BY <1>1, <1>8, <2>4, EditsKeep DEF PickTier
<1>9. ASSUME NEW i \in DOMAIN draft.sections, NEW rows \in RowChoices, NEW seats \in SeatChoices,
             TypeGrid(i, rows, seats)
      PROVE  DeskInv'
  <2> DEFINE section == [draft.sections[i] EXCEPT !.rows = rows, !.seats = seats]
  <2>1. section \in Section
    BY <1>7 DEF Section
  <2>2. Edits(draft.tiers, [draft.sections EXCEPT ![i] = section])
    BY <1>9 DEF TypeGrid
  <2> HIDE DEF section
  <2>3. [draft.sections EXCEPT ![i] = section] \in Seq(Section)
    BY <1>1, <1>7, <2>1, ExceptSeq
  <2> QED BY <1>1, <2>2, <2>3, EditsKeep
<1>10. CASE Submit
  BY <1>1, <1>10, PageKeeps DEF Submit
<1>11. CASE CommitLayout
  <2>1. dialog = "generate" /\ Sends("layout", Nothing, draft, Preview(draft))
    BY <1>11 DEF CommitLayout
  <2>2. Valid(draft) /\ Preview(draft) \in Nat
    BY <1>1, <2>1, SeatsGenerated
  <2>3. Sent("layout", Nothing, draft, Preview(draft)) \in ToldRequest
    BY <1>1, <2>2 DEF Sent, ToldRequest, Told, Request
  <2> QED BY <2>1, <2>3, SendsKeeps
<1> QED BY <1>2, <1>3, <1>4, <1>5, <1>6, <1>8, <1>9, <1>10, <1>11 DEF Edit

LEMMA OperatorKeeps == ASSUME DeskInv, Operator PROVE DeskInv'
<1>1. CASE draft # Nothing /\ Edit
  BY <1>1, BuildingKeeps
<1>2. CASE Submit
  BY <1>2, BuildingKeeps DEF Submit
<1>3. CASE CommitLayout
  <2>1. draft # Nothing
    BY <1>3 DEF CommitLayout, DeskInv, DeskTypeOK
  <2> QED BY <1>3, <2>1, BuildingKeeps
<1> QED BY <1>1, <1>2, <1>3, QueriesKeep, AskingKeeps DEF Operator

-----------------------------------------------------------------------------
(* The service and the answers                                              *)

\* The event's row is there, and well formed.
LEMMA RowIsTyped ==
    ASSUME DeskInv
    PROVE  /\ db \in {Nothing} \cup EventRow
           /\ \A status \in Status : db # Nothing => [db EXCEPT !.status = status] \in EventRow
           /\ db # Nothing => [db EXCEPT !.ordered = TRUE] \in EventRow
           /\ \A codes \in SUBSET Codes : db # Nothing /\ Generates(codes) => db' \in EventRow
<1>1. db \in {Nothing} \cup EventRow
  BY DEF DeskInv, DeskTypeOK
<1>2. ASSUME NEW status \in Status, db # Nothing PROVE [db EXCEPT !.status = status] \in EventRow
  BY <1>1, <1>2 DEF EventRow
<1>3. ASSUME db # Nothing PROVE [db EXCEPT !.ordered = TRUE] \in EventRow
  BY <1>1, <1>3 DEF EventRow
<1>4. ASSUME NEW codes \in SUBSET Codes, db # Nothing, Generates(codes) PROVE db' \in EventRow
  <2>1. db.layouts + 1 \in Nat /\ db.codes \cup codes \in SUBSET Codes
    BY <1>1, <1>4 DEF EventRow
  <2>2. db' = [db EXCEPT !.layouts = db.layouts + 1, !.codes = db.codes \cup codes]
    BY <1>4 DEF Generates
  <2> QED BY <1>1, <1>4, <2>1, <2>2 DEF EventRow
<1> QED BY <1>1, <1>2, <1>3, <1>4

\* A request that is answered, but not with a layout, and a row that keeps its form.
LEMMA AnsweringKeeps ==
    ASSUME DeskInv, NEW i \in DOMAIN request, NEW answer \in Answers, Answer(i, answer),
           answer \notin {"ok", "invalid"} \/ request[i].op # "layout",
           db' \in {Nothing} \cup EventRow, UNCHANGED <<other, elsewhere, cacheVars, pageVars>>
    PROVE  DeskInv'
<1> DEFINE r == [request[i] EXCEPT !.at = "answering", !.answer = answer]
<1>1. r \in ToldRequest
  BY Answered, RequestsAreTold
<1>2. request' = [request EXCEPT ![i] = r]
  BY DEF Answer
<1> HIDE DEF r
<1> QED BY <1>1, <1>2, AnswerKeeps

LEMMA RefusalKeeps ==
    ASSUME DeskInv, NEW i \in DOMAIN request, NEW answer \in Answers, Refuse(i, answer),
           answer \notin {"ok", "invalid"} \/ request[i].op # "layout",
           UNCHANGED <<other, elsewhere, cacheVars, pageVars>>
    PROVE  DeskInv'
BY AnsweringKeeps, RowIsTyped DEF Refuse

LEMMA GoingOnKeeps ==
    ASSUME DeskInv, NEW i \in DOMAIN request, GoesOn(i), request[i].at = "sent",
           request[i].op \in {"save", "layout"}, UNCHANGED <<other, elsewhere, cacheVars, pageVars>>
    PROVE  DeskInv'
<1> DEFINE r == [request[i] EXCEPT !.at = "checked"]
<1>1. r \in ToldRequest
  BY Checked, RequestsAreTold
<1>2. request' = [request EXCEPT ![i] = r] /\ db' = db
  BY DEF GoesOn
<1> HIDE DEF r
<1> QED BY <1>1, <1>2, AnswerKeeps, RowIsTyped

LEMMA DecisionsKeep == ASSUME DeskInv, NEW i \in DOMAIN request, Decide(i) PROVE DeskInv'
<1> DEFINE r == request[i]
<1>1. r \in ToldRequest /\ r \in Request
  BY RequestsAreTold
<1>2. UNCHANGED <<other, elsewhere, cacheVars, pageVars>>
  BY DEF Decide
<1>3. {"ok", "slug", "invalid", "gone", "transition", "cancelled", "orders", "exists", "tier", "lost"} \subseteq Answers
  BY DEF Answers
<1>4. CASE r.at = "sent" /\ r.op = "create" /\ CreateEvent(i)
  <2>1. r.status \in Status
    BY <1>1, <1>4 DEF ToldRequest, Told
  <2>2. [status |-> r.status, ordered |-> FALSE, layouts |-> 0, codes |-> {}] \in EventRow
    BY <2>1 DEF EventRow
  <2>3. CASE Refuse(i, "invalid") \/ Refuse(i, "slug")
    BY <1>2, <1>3, <1>4, <2>3, RefusalKeeps
  <2>4. CASE /\ db' = [status |-> r.status, ordered |-> FALSE, layouts |-> 0, codes |-> {}]
             /\ Answer(i, "ok")
    BY <1>2, <1>3, <1>4, <2>2, <2>4, AnsweringKeeps
  <2> QED BY <1>4, <2>3, <2>4 DEF CreateEvent
<1>5. CASE r.at = "sent" /\ r.op = "save" /\ FindEvent(i)
  <2>1. CASE \E answer \in {"gone", "cancelled", "transition"} : Refuse(i, answer)
    BY <1>2, <1>3, <1>5, <2>1, RefusalKeeps
  <2>2. CASE GoesOn(i)
    BY <1>2, <1>5, <2>2, GoingOnKeeps
  <2> QED BY <1>5, <2>1, <2>2 DEF FindEvent
<1>6. CASE r.at = "sent" /\ r.op = "status" /\ DecideStatus(i)
  <2>1. r.status \in Status
    BY <1>1, <1>6 DEF ToldRequest, Told
  <2>2. CASE \E answer \in {"gone", "cancelled", "transition"} : Refuse(i, answer)
    BY <1>2, <1>3, <1>6, <2>2, RefusalKeeps
  <2>3. CASE db # Nothing /\ db' = [db EXCEPT !.status = r.status] /\ Answer(i, "ok")
    BY <1>2, <1>3, <1>6, <2>1, <2>3, AnsweringKeeps, RowIsTyped
  <2> QED BY <1>6, <2>2, <2>3 DEF DecideStatus
<1>7. CASE r.at = "sent" /\ r.op = "remove" /\ DeleteEvent(i)
  <2>1. CASE Refuse(i, "gone") \/ Refuse(i, "orders")
    BY <1>2, <1>3, <1>7, <2>1, RefusalKeeps
  <2>2. CASE db' = Nothing /\ Answer(i, "ok")
    BY <1>2, <1>3, <1>7, <2>2, AnsweringKeeps
  <2> QED BY <1>7, <2>1, <2>2 DEF DeleteEvent
<1>8. CASE r.at = "sent" /\ r.op = "layout" /\ CheckLayout(i)
  <2>1. CASE Refuse(i, "gone") \/ Refuse(i, "exists")
    BY <1>2, <1>3, <2>1, RefusalKeeps
  <2>2. CASE GoesOn(i)
    BY <1>2, <1>8, <2>2, GoingOnKeeps
  <2> QED BY <1>8, <2>1, <2>2 DEF CheckLayout
<1>9. CASE r.at = "checked" /\ r.op = "save" /\ WriteEvent(i)
  <2>1. r.status \in Status
    BY <1>1, <1>9 DEF ToldRequest, Told
  <2>2. CASE Refuse(i, "slug") \/ Refuse(i, "lost")
    BY <1>2, <1>3, <2>2, RefusalKeeps
  <2>3. CASE db # Nothing /\ db' = [db EXCEPT !.status = r.status] /\ Answer(i, "ok")
    BY <1>2, <1>3, <1>9, <2>1, <2>3, AnsweringKeeps, RowIsTyped
  <2> QED BY <1>9, <2>2, <2>3 DEF WriteEvent
<1>10. CASE r.at = "checked" /\ r.op = "layout" /\ ApplyLayout(i)
  <2> DEFINE d == r.layout
             laidOut == [r EXCEPT !.at = "answering", !.answer = "ok",
                                  !.created = Cardinality(GeneratedSeats(d))]
             faulty == {s \in DOMAIN d.sections : UnknownTier(d, s) \/ InvalidSection(d, s)}
  <2>1. d \in Draft /\ Valid(d)
    BY <1>1, <1>10 DEF ToldRequest, Told
  <2>2. ASSUME NEW s \in DOMAIN d.sections PROVE ~InvalidSection(d, s)
    <3>1. d.sections[s].seats \in Nat
      BY <2>1, SectionCounts
    <3>2. d.sections[s].rows \in 1 .. MaxRows /\ d.sections[s].seats > 0
      BY <2>1 DEF Valid
    <3> QED BY <3>1, <3>2 DEF InvalidSection
  <2>3. CASE Refuse(i, "lost") \/ Refuse(i, "tier")
    BY <1>2, <1>3, <2>3, RefusalKeeps
  <2>4. CASE /\ db # Nothing /\ Generates(TiersOf(d))
             /\ request' = [request EXCEPT ![i] = laidOut]
    <3>1. TiersOf(d) \in SUBSET Codes
      <4>1. d.tiers \in Seq(Tier)
        BY <2>1 DEF Draft
      <4>2. ASSUME NEW j \in DOMAIN d.tiers PROVE d.tiers[j] \in Codes
        <5>1. d.tiers[j] \in Tier
          BY <4>1, LenProperties, ElementOfSeq
        <5>2. d.tiers[j] # ""
          BY <2>1 DEF Valid
        <5> QED BY <5>1, <5>2 DEF Tier
      <4> QED BY <4>2 DEF TiersOf, ToSet
    <3>2. db' \in EventRow
      BY <2>4, <3>1, RowIsTyped
    <3>3. laidOut \in ToldRequest
      BY <1>1, <1>10, LaidOut
    <3> HIDE DEF laidOut
    <3> QED BY <1>2, <2>4, <3>2, <3>3, AnswerKeeps
  <2>5. CASE faulty # {} /\ Refuse(i, IF UnknownTier(d, Min(faulty)) THEN "tier" ELSE "invalid")
    <3>1. DOMAIN d.sections \subseteq Nat
      BY <2>1 DEF Draft
    <3>2. Min(faulty) \in faulty
      BY <2>5, <3>1, Least DEF Min
    <3>3. UnknownTier(d, Min(faulty))
      BY <2>2, <3>2
    <3> QED BY <2>3, <2>5, <3>3
  <2> HIDE DEF d, laidOut
  <2> QED BY <1>10, <2>3, <2>4, <2>5 DEF ApplyLayout, d, laidOut
<1>11. r.at = "checked" => r.op \in {"save", "layout"}
  BY <1>1 DEF ToldRequest, Told
<1>12. r.op \in {"create", "save", "status", "remove", "layout"}
  BY <1>1 DEF Request
<1> QED BY <1>4, <1>5, <1>6, <1>7, <1>8, <1>9, <1>10, <1>11, <1>12 DEF Decide

LEMMA OthersKeep == ASSUME DeskInv, Elsewhere PROVE DeskInv'
<1>1. db # Nothing /\ UNCHANGED <<cacheVars, pageVars, request>>
  BY DEF Elsewhere
<1>2. elsewhere' \in 0 .. MaxElsewhere /\ other' \in {"idle", "checked"}
  BY Sizes DEF Elsewhere, DeskInv, DeskTypeOK
<1>3. \A code \in Codes : {code} \in SUBSET Codes
  OBVIOUS
<1>4. db' \in {Nothing} \cup EventRow
  <2>1. \/ db' = db \/ db' = Nothing
        \/ \E status \in Status : db' = [db EXCEPT !.status = status]
        \/ db' = [db EXCEPT !.ordered = TRUE]
        \/ \E code \in Codes : Generates({code})
    BY DEF Elsewhere
  <2> QED BY <1>1, <1>3, <2>1, RowIsTyped
<1> QED BY <1>1, <1>2, <1>4 DEF DeskInv, DeskTypeOK, cacheVars, pageVars

LEMMA SettlingKeeps == ASSUME DeskInv, NEW i \in DOMAIN request, Settle(i) PROVE DeskInv'
<1> DEFINE r == request[i]
           forgotten == [r EXCEPT !.at = "settled", !.status = Nothing, !.layout = Nothing]
           open == IF ClosesDialog(r) THEN "none" ELSE dialog
<1>1. UNCHANGED <<copy, failed, serverVars>> /\ Render(Goes(r), open, Settled(i))
  BY DEF Settle
<1>2. Goes(r) \in Screens /\ open \in {dialog, "none"}
  BY DEF Goes, Screens, DeskInv, DeskTypeOK
<1>3. Settled(i) \in Seq(ToldRequest) /\ Len(Settled(i)) <= MaxAsked
  <2>1. CASE Goes(r) # screen
    <3>1. Settled(i) = <<>>
      BY <2>1 DEF Settled
    <3>2. <<>> \in Seq(ToldRequest) /\ Len(<<>>) = 0
      BY EmptySeq
    <3> QED BY <3>1, <3>2, Sizes
  <2>2. CASE Goes(r) = screen
    <3>1. forgotten \in ToldRequest
      BY RequestsAreTold, Forgotten
    <3>2. Settled(i) = [request EXCEPT ![i] = forgotten]
      BY <2>2 DEF Settled
    <3>3. request \in Seq(ToldRequest) /\ i \in 1 .. Len(request) /\ Len(request) <= MaxAsked
      BY RequestsAreTold, ToldAreTyped
    <3> HIDE DEF forgotten
    <3> QED BY <3>1, <3>2, <3>3, ExceptSeq
  <2> QED BY <2>1, <2>2
<1>4. fetch' \in Fetches
  BY MountKeeps DEF Settle, Invalidate, Fetches
<1>5. copy' \in {Nothing} \cup EventDetail /\ failed' \in BOOLEAN
  BY <1>1 DEF DeskInv, DeskTypeOK
<1> HIDE DEF open, r
<1> QED BY <1>1, <1>2, <1>3, <1>4, <1>5, RenderKeeps

LEMMA DeskKeeps == ASSUME DeskInv, [DeskNext]_deskVars PROVE DeskInv'
<1>1. CASE UNCHANGED deskVars
  BY <1>1 DEF deskVars, serverVars, cacheVars, pageVars, DeskInv, DeskTypeOK
<1>2. ASSUME NEW i \in DOMAIN request, Lost(i) PROVE DeskInv'
  BY <1>2, AnsweringKeeps, RowIsTyped DEF Lost, serverVars, Answers
<1> QED BY <1>1, <1>2, OperatorKeeps, QueriesKeep, OthersKeep, DecisionsKeep, SettlingKeeps DEF DeskNext, Query

LEMMA DeskStarts == ASSUME DeskInit PROVE DeskInv
<1>1. <<>> \in Seq(ToldRequest) /\ <<>> \in Seq(Request) /\ Len(<<>>) = 0
  BY EmptySeq
<1>2. db \in {Nothing} \cup EventRow
  <2>1. \A status \in {"draft", "onsale"} :
           [status |-> status, ordered |-> FALSE, layouts |-> 0, codes |-> {}] \in EventRow
    BY DEF EventRow, Status
  <2> QED BY <2>1 DEF DeskInit
<1>3. fetch \in Fetches /\ screen \in Screens
  BY DEF DeskInit, Fetches, Screens
<1>4. request = <<>> /\ draft = Nothing /\ copy = Nothing /\ dialog = "none"
  BY DEF DeskInit
<1>5. elsewhere \in 0 .. MaxElsewhere /\ other = "idle" /\ failed = FALSE
  BY Sizes DEF DeskInit
<1>6. 0 <= MaxAsked
  BY Sizes
<1> QED BY <1>1, <1>2, <1>3, <1>4, <1>5, <1>6 DEF DeskInv, DeskTypeOK, Fetches, Screens

\* For any codes, limits, drafts and number of requests, the event's row, the page's
\* copy of it, the draft and the requests keep their types; no dialog outlives the
\* layout it is about.
THEOREM DeskTyping == DeskSpec => []DeskTypeOK
<1>1. DeskInit => DeskInv
  BY DeskStarts
<1>2. DeskInv /\ [DeskNext]_deskVars => DeskInv'
  BY DeskKeeps
<1>3. DeskInv => DeskTypeOK
  BY DeskInvImplies
<1> QED BY <1>1, <1>2, <1>3, PTL DEF DeskSpec

\* However many sections, rows and seats are typed, the service generates exactly the
\* number of seats the dialog showed, and never refuses the rows and seats of a
\* layout the page let through.
THEOREM PreviewGenerated == DeskSpec => []PreviewIsGenerated
<1>1. DeskInit => DeskInv
  BY DeskStarts
<1>2. DeskInv /\ [DeskNext]_deskVars => DeskInv'
  BY DeskKeeps
<1>3. DeskInv => PreviewIsGenerated
  BY DeskInvImplies
<1> QED BY <1>1, <1>2, <1>3, PTL DEF DeskSpec

-----------------------------------------------------------------------------
(* Cancelling an event                                                      *)

USE CancellationAssumption DEF CancellationAssumption

\* The event's row is locked by one cancellation at most.
OneUnwinds == \A a, b \in Admins : Unwinding(a) /\ Unwinding(b) => a = b

\* What a cancellation has decided fits the rows it decided on: what it voids is
\* paid, what it closes is not, and a seat it frees is still held, or booked with a
\* ticket nobody has come in on.
Current(c) ==
    /\ c.voided \subseteq Sold \cap c.locked
    /\ c.closed \subseteq Unpaid \cap c.locked
    /\ \A o \in c.freed : IF o \in c.voided THEN ticket[o] = "ISSUED" ELSE seat[o] = "HELD"

\* An uncommitted one's decisions still do.
SeenIsCurrent == \A a \in Admins : Unwinding(a) => Current(cancel[a])

\* A buyer whose request found the event on sale has no order yet.
NoOrderYet == \A o \in Orders : buyer[o] # "idle" => order[o] = "NONE"

CancelInv == TypeOK /\ OneUnwinds /\ SeenIsCurrent /\ NoOrderYet /\ SaleHoldsTogether

-----------------------------------------------------------------------------
(* The sale, the gate and the refunds                                       *)

\* A step about one order leaves an unwinding's decisions current if it finds the
\* rows it changes unlocked, no order there to decide about, or a ticket there is
\* nothing to do about.
LEMMA OthersStayCurrent ==
    ASSUME CancelInv, UNCHANGED cancel, NEW o \in Orders,
           \A p \in Orders \ {o} : order'[p] = order[p] /\ seat'[p] = seat[p] /\ ticket'[p] = ticket[p],
           order'[o] = order[o] \/ OrderFree(o) \/ order[o] = "NONE",
           seat'[o] = seat[o] \/ SeatFree(o),
           ticket'[o] = ticket[o] \/ SeatFree(o) \/ ticket[o] # "ISSUED"
    PROVE  OneUnwinds' /\ SeenIsCurrent'
<1> USE DEF CancelInv
<1>1. OneUnwinds'
  BY DEF OneUnwinds, Unwinding
<1>2. ASSUME NEW a \in Admins, Unwinding(a) PROVE Current(cancel[a])'
  <2>1. /\ cancel[a].voided \subseteq Sold \cap cancel[a].locked
        /\ cancel[a].closed \subseteq Unpaid \cap cancel[a].locked
        /\ \A p \in cancel[a].freed :
              IF p \in cancel[a].voided THEN ticket[p] = "ISSUED" ELSE seat[p] = "HELD"
    BY <1>2 DEF SeenIsCurrent, Current
  <2>2. cancel[a].freed \subseteq Orders
    BY DEF TypeOK
  <2>3. o \in cancel[a].voided \cup cancel[a].closed => order'[o] = order[o]
    BY <1>2, <2>1 DEF OrderFree, Sold, Unpaid
  <2>4. o \in cancel[a].freed => seat'[o] = seat[o]
    BY <1>2 DEF SeatFree
  <2>5. o \in cancel[a].freed \cap cancel[a].voided => ticket'[o] = ticket[o]
    BY <1>2, <2>1 DEF SeatFree
  <2>6. cancel'[a].voided \subseteq Sold' \cap cancel'[a].locked
        /\ cancel'[a].closed \subseteq Unpaid' \cap cancel'[a].locked
    BY <2>1, <2>3 DEF Sold, Unpaid
  <2>7. \A p \in cancel'[a].freed :
           IF p \in cancel'[a].voided THEN ticket'[p] = "ISSUED" ELSE seat'[p] = "HELD"
    BY <2>1, <2>2, <2>4, <2>5
  <2> QED BY <2>6, <2>7 DEF Current
<1>3. SeenIsCurrent'
  BY <1>2 DEF SeenIsCurrent, Unwinding
<1> QED BY <1>1, <1>3

LEMMA BuyerKeepsInv ==
    ASSUME CancelInv, NEW o \in Orders, BuyerStep(o)
    PROVE  CancelInv'
<1> USE DEF CancelInv, saleVars, refundVars
<1>1. CASE BeginHold(o)
  <2>1. OneUnwinds' /\ SeenIsCurrent'
    BY <1>1, OthersStayCurrent DEF BeginHold
  <2> QED BY <1>1, <2>1 DEF BeginHold, TypeOK, NoOrderYet, SaleHoldsTogether, Standing
<1>2. CASE Hold(o)
  <2>1. OneUnwinds' /\ SeenIsCurrent'
    BY <1>2, OthersStayCurrent DEF Hold, TypeOK
  <2>2. ticket[o] = "NONE"
    BY <1>2 DEF Hold, NoOrderYet, TypeOK
  <2> QED BY <1>2, <2>1, <2>2 DEF Hold, TypeOK, NoOrderYet, SaleHoldsTogether, Standing
<1>3. CASE HoldEnds(o)
  <2>1. OneUnwinds' /\ SeenIsCurrent'
    BY <1>3, OthersStayCurrent DEF HoldEnds, TypeOK
  <2> QED BY <1>3, <2>1 DEF HoldEnds, TypeOK, NoOrderYet, SaleHoldsTogether, Standing
<1>4. CASE BeginOrder(o)
  <2>1. OneUnwinds' /\ SeenIsCurrent'
    BY <1>4, OthersStayCurrent DEF BeginOrder
  <2> QED BY <1>4, <2>1 DEF BeginOrder, TypeOK, NoOrderYet, SaleHoldsTogether, Standing
<1>5. CASE CreateOrder(o)
  <2>1. order[o] = "NONE"
    BY <1>5 DEF CreateOrder, NoOrderYet
  <2>2. OneUnwinds' /\ SeenIsCurrent'
    BY <1>5, <2>1, OthersStayCurrent DEF CreateOrder, TypeOK
  <2> QED BY <1>5, <2>1, <2>2 DEF CreateOrder, TypeOK, NoOrderYet, SaleHoldsTogether, Standing
<1>6. CASE InitPayment(o)
  <2>1. OneUnwinds' /\ SeenIsCurrent'
    BY <1>6, OthersStayCurrent DEF InitPayment
  <2> QED BY <1>6, <2>1 DEF InitPayment, TypeOK, NoOrderYet, SaleHoldsTogether, Standing
<1>7. CASE SettleCharge(o)
  <2>1. OneUnwinds' /\ SeenIsCurrent'
    BY <1>7, OthersStayCurrent DEF SettleCharge, TypeOK
  <2>2. CASE order[o] = "PENDING_PAYMENT" /\ seat[o] = "HELD"
    BY <1>7, <2>1, <2>2 DEF SettleCharge, TypeOK, NoOrderYet, SaleHoldsTogether, Standing
  <2>3. CASE ~(order[o] = "PENDING_PAYMENT" /\ seat[o] = "HELD")
    <3>1. asked' \in [Orders -> 0 .. MaxAttempts] /\ lastAsk' \in [Orders -> {"null", "recent", "past"}]
      BY <1>7, <2>3 DEF SettleCharge, CountAsk, TypeOK
    <3>2. PICK answer \in {"REFUND_REQUIRED", "REFUNDED"} : charge' = [charge EXCEPT ![o] = answer]
      BY <1>7, <2>3 DEF SettleCharge
    <3>3. order' = [order EXCEPT ![o] = IF order[o] = "PENDING_PAYMENT" THEN "CANCELLED" ELSE order[o]]
          /\ UNCHANGED <<event, seat, ticket, buyer, gate, cancel, editor>>
      BY <1>7, <2>3 DEF SettleCharge
    <3>4. TypeOK'
      BY <3>1, <3>2, <3>3 DEF TypeOK
    <3>5. NoOrderYet' /\ SaleHoldsTogether'
      BY <1>7, <3>2, <3>3 DEF SettleCharge, TypeOK, NoOrderYet, SaleHoldsTogether, Standing
    <3> QED BY <2>1, <3>4, <3>5
  <2> QED BY <2>2, <2>3
<1>8. CASE CloseOrder(o)
  <2>1. OneUnwinds' /\ SeenIsCurrent'
    BY <1>8, OthersStayCurrent DEF CloseOrder, TypeOK
  <2> QED BY <1>8, <2>1 DEF CloseOrder, TypeOK, NoOrderYet, SaleHoldsTogether, Standing
<1> QED BY <1>1, <1>2, <1>3, <1>4, <1>5, <1>6, <1>7, <1>8 DEF BuyerStep

\* Who admits waits for a cancellation that has the ticket; who undoes an admission
\* finds one that no cancellation has.
LEMMA GateKeepsInv ==
    ASSUME CancelInv, NEW o \in Orders, GateStep(o)
    PROVE  CancelInv'
<1> USE DEF CancelInv, saleVars, refundVars
<1>1. UNCHANGED <<event, seat, order, buyer, charge, asked, lastAsk, cancel, editor>>
  BY DEF GateStep, LookUp, Admit, Unadmit
<1>2. /\ ticket'[o] \in {ticket[o], "ISSUED", "USED"} /\ (ticket'[o] # ticket[o] => Standing(o))
      /\ ticket'[o] = ticket[o] \/ SeatFree(o) \/ ticket[o] # "ISSUED"
      /\ \A p \in Orders \ {o} : ticket'[p] = ticket[p]
      /\ ticket' \in [Orders -> {"NONE", "ISSUED", "USED", "CANCELLED"}] /\ gate' \subseteq Orders
  BY DEF GateStep, LookUp, Admit, Unadmit, TypeOK, Standing
<1>3. OneUnwinds' /\ SeenIsCurrent'
  BY <1>1, <1>2, OthersStayCurrent
<1>4. TypeOK' /\ NoOrderYet' /\ SaleHoldsTogether'
  BY <1>1, <1>2 DEF TypeOK, NoOrderYet, SaleHoldsTogether, Standing
<1> QED BY <1>3, <1>4

\* Asking for what is owed keeps no money that was not kept.
LEMMA AskKeeps ==
    ASSUME CancelInv, NEW o \in Orders, Ask(o)
    PROVE  /\ charge' \in [Orders -> {"NONE", "INITIATED", "SUCCEEDED", "REFUND_REQUIRED", "REFUNDED"}]
           /\ asked' \in [Orders -> 0 .. MaxAttempts]
           /\ lastAsk' \in [Orders -> {"null", "recent", "past"}]
           /\ \A p \in Orders : charge'[p] = "SUCCEEDED" => charge[p] = "SUCCEEDED"
<1> USE DEF CancelInv, TypeOK
<1>1. CASE charge[o] = "REFUND_REQUIRED"
  BY <1>1 DEF Ask, CountAsk
<1>2. CASE charge[o] # "REFUND_REQUIRED"
  BY <1>2 DEF Ask, refundVars
<1> QED BY <1>1, <1>2

LEMMA RefundKeepsInv ==
    ASSUME CancelInv, NEW o \in Orders, RefundStep(o)
    PROVE  CancelInv'
<1> USE DEF CancelInv
<1>1. CASE RefundOrder(o)
  <2>1. OneUnwinds' /\ SeenIsCurrent'
    BY <1>1, OthersStayCurrent DEF RefundOrder, TypeOK
  <2>2. TypeOK'
    BY <1>1 DEF RefundOrder, TypeOK
  <2>3. NoOrderYet' /\ SaleHoldsTogether'
    BY <1>1 DEF RefundOrder, TypeOK, NoOrderYet, SaleHoldsTogether, Standing
  <2> QED BY <2>1, <2>2, <2>3
<1>2. CASE RetryRefund(o) \/ Reconcile(o) \/ BackoffPasses(o)
  <2>1. UNCHANGED <<event, saleVars, cancel, editor>>
    BY <1>2 DEF RetryRefund, Reconcile, BackoffPasses
  <2>2. /\ charge' \in [Orders -> {"NONE", "INITIATED", "SUCCEEDED", "REFUND_REQUIRED", "REFUNDED"}]
        /\ asked' \in [Orders -> 0 .. MaxAttempts]
        /\ lastAsk' \in [Orders -> {"null", "recent", "past"}]
        /\ \A p \in Orders : charge'[p] = "SUCCEEDED" => charge[p] = "SUCCEEDED"
    BY <1>2, AskKeeps DEF RetryRefund, Reconcile, BackoffPasses, TypeOK
  <2>3. TypeOK'
    BY <2>1, <2>2 DEF TypeOK, saleVars
  <2>4. OneUnwinds' /\ SeenIsCurrent'
    BY <2>1 DEF OneUnwinds, SeenIsCurrent, Current, Unwinding, Sold, Unpaid, saleVars
  <2>5. NoOrderYet' /\ SaleHoldsTogether'
    BY <2>1, <2>2 DEF NoOrderYet, SaleHoldsTogether, Standing, saleVars
  <2> QED BY <2>3, <2>4, <2>5
<1> QED BY <1>1, <1>2 DEF RefundStep

-----------------------------------------------------------------------------
(* The cancellation                                                         *)

CancelRecord == [at: Stage, todo: SUBSET Orders, locked: SUBSET Orders,
                 voided: SUBSET Orders, closed: SUBSET Orders, freed: SUBSET Orders]

\* Before it commits a cancellation changes nothing but its own record: what it
\* has to show is that the record is current.
LEMMA UnseenKeepsInv ==
    ASSUME CancelInv, Unseen, NEW a \in Admins, NEW c \in CancelRecord, Step(a, c),
           c.at \in {"paid", "pending", "released"} => (Unwinding(a) \/ EventFree) /\ Current(c)
    PROVE  CancelInv'
<1> USE DEF CancelInv, Unseen, saleVars, refundVars
<1>1. cancel' = [cancel EXCEPT ![a] = c] /\ cancel \in [Admins -> CancelRecord]
  BY DEF Step, TypeOK, CancelRecord
<1>2. cancel'[a] = c /\ \A b \in Admins \ {a} : cancel'[b] = cancel[b]
  BY <1>1
<1>3. TypeOK'
  BY <1>1 DEF TypeOK, CancelRecord
<1>4. OneUnwinds'
  BY <1>2 DEF OneUnwinds, Unwinding, EventFree
<1>5. SeenIsCurrent'
  BY <1>2 DEF SeenIsCurrent, Current, Unwinding, Sold, Unpaid
<1>6. NoOrderYet' /\ SaleHoldsTogether'
  BY DEF NoOrderYet, SaleHoldsTogether, Standing
<1> QED BY <1>3, <1>4, <1>5, <1>6

LEMMA UnwindingKeepsInv ==
    ASSUME CancelInv, NEW a \in Admins,
           \/ ListPaid(a) \/ VoidNext(a) \/ ListPending(a) \/ CloseNext(a) \/ ReleaseHeld(a) \/ Ends(a)
    PROVE  CancelInv'
<1> DEFINE c == cancel[a]
<1>0. c \in CancelRecord /\ Idle \in CancelRecord
  BY DEF CancelInv, TypeOK, CancelRecord, Idle, Stage
<1>1. Sold \subseteq Orders /\ Unpaid \subseteq Orders
  BY DEF Sold, Unpaid
<1>2. Unwinding(a) => Current(c)
  BY DEF CancelInv, SeenIsCurrent
<1>3. CASE ListPaid(a)
  <2> DEFINE d == [Idle EXCEPT !.at = "paid", !.todo = Sold]
  <2>1. d \in CancelRecord /\ d.at = "paid" /\ d.voided = {} /\ d.closed = {} /\ d.freed = {}
    BY <1>1 DEF CancelRecord, Idle, Stage
  <2>2. Step(a, d) /\ Unseen /\ EventFree
    BY <1>3 DEF ListPaid
  <2> HIDE DEF d
  <2>3. Current(d)
    BY <2>1 DEF Current
  <2> QED BY <2>1, <2>2, <2>3, UnseenKeepsInv
<1>4. CASE VoidNext(a)
  <2>1. PICK o \in c.todo : Step(a, [c EXCEPT !.todo = c.todo \ {o}, !.locked = c.locked \cup {o},
           !.voided = c.voided \cup ({o} \cap Sold),
           !.freed = c.freed \cup {p \in {o} \cap Sold : ticket[p] = "ISSUED"}])
    BY <1>4 DEF VoidNext
  <2> DEFINE d == [c EXCEPT !.todo = c.todo \ {o}, !.locked = c.locked \cup {o},
                            !.voided = c.voided \cup ({o} \cap Sold),
                            !.freed = c.freed \cup {p \in {o} \cap Sold : ticket[p] = "ISSUED"}]
  <2>2. Unwinding(a) /\ Unseen /\ c.at = "paid"
    BY <1>4 DEF VoidNext, Unwinding
  <2>3. d \in CancelRecord
    BY <1>0, <2>1 DEF CancelRecord
  <2>4. /\ d.at = "paid" /\ d.voided = c.voided \cup ({o} \cap Sold) /\ d.closed = c.closed
        /\ d.freed = c.freed \cup {p \in {o} \cap Sold : ticket[p] = "ISSUED"}
        /\ d.locked = c.locked \cup {o}
    BY <1>0, <2>2 DEF CancelRecord
  <2>5. Step(a, d)
    BY <2>1
  <2> HIDE DEF d
  <2>6. \A p \in {o} \cap Sold : p \in c.freed => ticket[p] = "ISSUED"
    BY <1>2, <2>2 DEF Current, CancelInv, SaleHoldsTogether, Sold
  <2>7. Current(d)
    BY <1>2, <2>2, <2>4, <2>6 DEF Current
  <2> QED BY <2>2, <2>3, <2>4, <2>5, <2>7, UnseenKeepsInv
<1>5. CASE ListPending(a)
  <2> DEFINE d == [c EXCEPT !.at = "pending", !.todo = Unpaid]
  <2>1. d \in CancelRecord /\ d.at = "pending" /\ d.voided = c.voided /\ d.closed = c.closed
        /\ d.freed = c.freed /\ d.locked = c.locked
    BY <1>0, <1>1 DEF CancelRecord, Stage
  <2>2. Step(a, d) /\ Unseen /\ Unwinding(a)
    BY <1>5 DEF ListPending, Unwinding
  <2> HIDE DEF d
  <2>3. Current(d)
    BY <1>2, <2>1, <2>2 DEF Current
  <2> QED BY <2>1, <2>2, <2>3, UnseenKeepsInv
<1>6. CASE CloseNext(a)
  <2>1. PICK o \in c.todo : Step(a, [c EXCEPT !.todo = c.todo \ {o}, !.locked = c.locked \cup {o},
           !.closed = c.closed \cup ({o} \cap Unpaid),
           !.freed = c.freed \cup {p \in {o} \cap Unpaid : seat[p] = "HELD"}])
    BY <1>6 DEF CloseNext
  <2> DEFINE d == [c EXCEPT !.todo = c.todo \ {o}, !.locked = c.locked \cup {o},
                            !.closed = c.closed \cup ({o} \cap Unpaid),
                            !.freed = c.freed \cup {p \in {o} \cap Unpaid : seat[p] = "HELD"}]
  <2>2. Unwinding(a) /\ Unseen /\ c.at = "pending"
    BY <1>6 DEF CloseNext, Unwinding
  <2>3. d \in CancelRecord
    BY <1>0, <2>1 DEF CancelRecord
  <2>4. /\ d.at = "pending" /\ d.voided = c.voided /\ d.closed = c.closed \cup ({o} \cap Unpaid)
        /\ d.freed = c.freed \cup {p \in {o} \cap Unpaid : seat[p] = "HELD"} /\ d.locked = c.locked \cup {o}
    BY <1>0, <2>2 DEF CancelRecord
  <2>5. Step(a, d)
    BY <2>1
  <2> HIDE DEF d
  <2>6. Sold \cap Unpaid = {}
    BY DEF Sold, Unpaid
  <2>7. Current(d)
    BY <1>2, <2>2, <2>4, <2>6 DEF Current
  <2> QED BY <2>2, <2>3, <2>4, <2>5, <2>7, UnseenKeepsInv
<1>7. CASE ReleaseHeld(a)
  <2> DEFINE d == [c EXCEPT !.at = "released", !.freed = c.freed \cup {o \in Orders : seat[o] = "HELD"}]
  <2>1. d \in CancelRecord /\ d.at = "released" /\ d.voided = c.voided /\ d.closed = c.closed
        /\ d.freed = c.freed \cup {o \in Orders : seat[o] = "HELD"} /\ d.locked = c.locked
    BY <1>0 DEF CancelRecord, Stage
  <2>2. Step(a, d) /\ Unseen /\ Unwinding(a)
    BY <1>7 DEF ReleaseHeld, Unwinding
  <2> HIDE DEF d
  <2>3. \A o \in Sold : seat[o] # "HELD"
    BY DEF CancelInv, SaleHoldsTogether, Sold
  <2>4. Current(d)
    BY <1>2, <2>1, <2>2, <2>3 DEF Current
  <2> QED BY <2>1, <2>2, <2>4, UnseenKeepsInv
<1>8. CASE Ends(a)
  <2>1. Idle.at = "idle"
    BY DEF Idle
  <2> QED BY <1>0, <1>8, <2>1, UnseenKeepsInv DEF Ends
<1> QED BY <1>3, <1>4, <1>5, <1>6, <1>7, <1>8

\* The commit changes what was decided and nothing else: a ticket it voids gives its
\* seat back, one it leaves keeps it.
LEMMA CommitKeepsInv ==
    ASSUME CancelInv, NEW a \in Admins, Commit(a)
    PROVE  CancelInv'
<1> DEFINE c == cancel[a]
<1> USE DEF CancelInv
<1>1. /\ c.voided \subseteq Sold /\ c.closed \subseteq Unpaid
      /\ \A o \in c.freed : IF o \in c.voided THEN ticket[o] = "ISSUED" ELSE seat[o] = "HELD"
      /\ \A b \in Admins \ {a} : ~Unwinding(b)
  BY DEF Commit, Unwinding, SeenIsCurrent, Current, OneUnwinds
<1>2. Owed(a) \subseteq Orders /\ \A o \in Orders \ Owed(a) : charge[o] = "SUCCEEDED" => o \notin c.voided
  BY DEF Owed, TypeOK
<1>3. PICK first \in SUBSET Owed(a) : Step(a, [Idle EXCEPT !.at = "asking", !.todo = first])
  BY DEF Commit
<1> DEFINE d == [Idle EXCEPT !.at = "asking", !.todo = first]
<1>4. d \in CancelRecord /\ d.at = "asking"
  BY <1>2 DEF CancelRecord, Idle, Stage
<1>5. cancel' = [cancel EXCEPT ![a] = d] /\ cancel \in [Admins -> CancelRecord]
  BY <1>3 DEF Step, TypeOK, CancelRecord
<1> HIDE DEF d
<1>6. cancel'[a] = d /\ \A b \in Admins \ {a} : cancel'[b] = cancel[b]
  BY <1>5
<1>7. /\ \A o \in Orders : order'[o] = IF o \in c.voided THEN "REFUNDED"
                                       ELSE IF o \in c.closed THEN "CANCELLED" ELSE order[o]
      /\ \A o \in Orders : seat'[o] = IF o \in c.freed THEN "AVAILABLE" ELSE seat[o]
      /\ \A o \in Orders : ticket'[o] = IF o \in c.freed /\ ticket[o] = "ISSUED" THEN "CANCELLED" ELSE ticket[o]
      /\ \A o \in Orders : charge'[o] = IF o \in Owed(a) THEN "REFUND_REQUIRED" ELSE charge[o]
      /\ UNCHANGED <<buyer, gate, asked, editor>>
  BY DEF Commit
<1>8. TypeOK'
  <2>1. cancel' \in [Admins -> CancelRecord]
    BY <1>4, <1>5
  <2>2. \A o \in Orders : ticket'[o] # "NONE" <=> order'[o] \in {"PAID", "REFUNDED"}
    BY <1>1, <1>7 DEF TypeOK, Sold, Unpaid
  <2> QED BY <1>7, <2>1, <2>2 DEF Commit, TypeOK, CancelRecord, EventStatus
<1>9. OneUnwinds' /\ SeenIsCurrent'
  BY <1>1, <1>4, <1>6 DEF OneUnwinds, SeenIsCurrent, Unwinding
<1>10. NoOrderYet'
  BY <1>1, <1>7 DEF NoOrderYet, Sold, Unpaid
<1>11. SaleHoldsTogether'
  <2>1. \A o \in Orders : /\ seat[o] = "BOOKED" <=> Standing(o)
                          /\ order[o] = "PAID" => Standing(o)
                          /\ charge[o] = "SUCCEEDED" => order[o] = "PAID"
    BY DEF SaleHoldsTogether
  <2>2. \A o \in Orders : o \in c.freed => ~Standing(o)'
    BY <1>1, <1>7, <2>1 DEF Standing
  <2>3. \A o \in Orders : o \notin c.freed => seat'[o] = seat[o] /\ Standing(o)' = Standing(o)
    BY <1>7 DEF Standing
  <2>4. \A o \in Orders : order'[o] = "PAID" => order[o] = "PAID" /\ o \notin c.freed
    BY <1>1, <1>7, <2>1
  <2>5. \A o \in Orders : charge'[o] = "SUCCEEDED" => order'[o] = "PAID"
    BY <1>1, <1>2, <1>7, <2>1 DEF Unpaid
  <2>6. \A o \in Orders : seat'[o] = "BOOKED" <=> Standing(o)'
    BY <1>7, <2>1, <2>2, <2>3
  <2> QED BY <2>1, <2>3, <2>4, <2>5, <2>6 DEF SaleHoldsTogether
<1> QED BY <1>8, <1>9, <1>10, <1>11

LEMMA AskNextKeepsInv ==
    ASSUME CancelInv, NEW a \in Admins, AskNext(a)
    PROVE  CancelInv'
<1> DEFINE c == cancel[a]
<1> USE DEF CancelInv
<1>1. PICK o \in c.todo : Ask(o) /\ Step(a, [c EXCEPT !.todo = c.todo \ {o}])
  BY DEF AskNext
<1>2. c.at = "asking" /\ UNCHANGED <<event, saleVars, editor>>
  BY DEF AskNext
<1>3. c \in CancelRecord /\ o \in Orders
  BY DEF TypeOK, CancelRecord
<1> DEFINE d == [c EXCEPT !.todo = c.todo \ {o}]
<1>4. d \in CancelRecord /\ d.at = "asking"
  BY <1>2, <1>3 DEF CancelRecord
<1>5. cancel' = [cancel EXCEPT ![a] = d] /\ cancel \in [Admins -> CancelRecord]
  BY <1>1 DEF Step, TypeOK, CancelRecord
<1> HIDE DEF d
<1>6. cancel'[a] = d /\ \A b \in Admins \ {a} : cancel'[b] = cancel[b]
  BY <1>5
<1>7. /\ charge' \in [Orders -> {"NONE", "INITIATED", "SUCCEEDED", "REFUND_REQUIRED", "REFUNDED"}]
      /\ asked' \in [Orders -> 0 .. MaxAttempts]
      /\ lastAsk' \in [Orders -> {"null", "recent", "past"}]
      /\ \A p \in Orders : charge'[p] = "SUCCEEDED" => charge[p] = "SUCCEEDED"
  BY <1>1, <1>3, AskKeeps
<1>8. TypeOK'
  <2>1. cancel' \in [Admins -> CancelRecord]
    BY <1>4, <1>5
  <2> QED BY <1>2, <1>7, <2>1 DEF TypeOK, CancelRecord, saleVars
<1>9. OneUnwinds' /\ SeenIsCurrent'
  BY <1>2, <1>4, <1>6 DEF OneUnwinds, SeenIsCurrent, Current, Unwinding, Sold, Unpaid, saleVars
<1>10. NoOrderYet' /\ SaleHoldsTogether'
  BY <1>2, <1>7 DEF NoOrderYet, SaleHoldsTogether, Standing, saleVars
<1> QED BY <1>8, <1>9, <1>10

-----------------------------------------------------------------------------
(* The rest                                                                 *)

\* The details of the event and stuttering touch nothing that was decided.
LEMMA OthersKeepInv ==
    ASSUME CancelInv,
           \/ \E next \in {"ONSALE", "SOLD_OUT"} : SetStatus(next)
           \/ \E e \in Editors : LoadEvent(e) \/ SaveEvent(e)
           \/ UNCHANGED vars
    PROVE  CancelInv'
<1> USE DEF CancelInv
<1>1. UNCHANGED <<saleVars, refundVars, cancel>>
  BY DEF SetStatus, LoadEvent, SaveEvent, vars
<1>2. event' \in EventStatus /\ editor' \in [Editors -> EventStatus \cup {"idle"}]
  BY DEF SetStatus, LoadEvent, SaveEvent, vars, TypeOK, EventStatus
<1>3. TypeOK'
  BY <1>1, <1>2 DEF TypeOK, saleVars, refundVars
<1>4. OneUnwinds' /\ SeenIsCurrent'
  BY <1>1 DEF OneUnwinds, SeenIsCurrent, Current, Unwinding, Sold, Unpaid, saleVars
<1>5. NoOrderYet' /\ SaleHoldsTogether'
  BY <1>1 DEF NoOrderYet, SaleHoldsTogether, Standing, saleVars, refundVars
<1> QED BY <1>3, <1>4, <1>5

LEMMA InitialSale == Init => CancelInv
<1> SUFFICES ASSUME Init PROVE CancelInv
  OBVIOUS
<1>1. \A a \in Admins : cancel[a].at = "idle"
  BY DEF Init, Idle
<1>2. TypeOK
  BY DEF Init, TypeOK, Idle, Stage, EventStatus
<1>3. OneUnwinds /\ SeenIsCurrent
  BY <1>1 DEF OneUnwinds, SeenIsCurrent, Unwinding
<1>4. NoOrderYet /\ SaleHoldsTogether
  BY DEF Init, NoOrderYet, SaleHoldsTogether, Standing
<1> QED BY <1>2, <1>3, <1>4 DEF CancelInv

LEMMA CancelInvariance == Spec => []CancelInv
<1>1. CancelInv /\ [Next]_vars => CancelInv'
  <2> SUFFICES ASSUME CancelInv, [Next]_vars PROVE CancelInv'
    OBVIOUS
  <2>1. ASSUME NEW o \in Orders, BuyerStep(o) \/ GateStep(o) \/ RefundStep(o) PROVE CancelInv'
    BY <2>1, BuyerKeepsInv, GateKeepsInv, RefundKeepsInv
  <2>2. ASSUME NEW a \in Admins, CancelStep(a) PROVE CancelInv'
    BY <2>2, UnwindingKeepsInv, CommitKeepsInv, AskNextKeepsInv DEF CancelStep
  <2>3. CASE \/ \E next \in {"ONSALE", "SOLD_OUT"} : SetStatus(next)
             \/ \E e \in Editors : LoadEvent(e) \/ SaveEvent(e)
             \/ UNCHANGED vars
    BY <2>3, OthersKeepInv
  <2> QED BY <2>1, <2>2, <2>3 DEF Next
<1> QED BY <1>1, InitialSale, PTL DEF Spec

-----------------------------------------------------------------------------
(* Theorems                                                                 *)

\* The variables have their types, and an order has a ticket exactly from its payment
\* on, however many cancellations void and close orders while they are being paid.
THEOREM Typing == Spec => []TypeOK
<1>1. CancelInv => TypeOK
  BY DEF CancelInv
<1> QED BY <1>1, CancelInvariance, PTL

\* However payments, scans, closings and refunds land among the statements of any
\* number of cancellations, a seat is booked exactly while its ticket stands, a paid
\* order's ticket stands, and money is kept only for a paid order.
THEOREM SaleHolds == Spec => []SaleHoldsTogether
<1>1. CancelInv => SaleHoldsTogether
  BY DEF CancelInv
<1> QED BY <1>1, CancelInvariance, PTL

\* What a cancellation has decided and not yet committed stays true of the rows it
\* decided on, whatever the others do meanwhile.
THEOREM DecisionsStayCurrent == Spec => []SeenIsCurrent
<1>1. CancelInv => SeenIsCurrent
  BY DEF CancelInv
<1> QED BY <1>1, CancelInvariance, PTL
=============================================================================
