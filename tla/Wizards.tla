------------------------------ MODULE Wizards ------------------------------
(***************************************************************************)
(* The two wizards of the web application.  In the one that orders a name  *)
(* research the customer picks registers and classes, every pick asks for  *)
(* a price, and what is picked last is ordered.  In the one that adds a    *)
(* watch a registration is looked up by its number, shown, and watched.    *)
(***************************************************************************)
EXTENDS Naturals, Sequences, FiniteSets

Picks == INSTANCE SequencesExt

CONSTANTS
    Searchable,  \* the registers a research can search
    Preselected, \* the one that is selected when the wizard opens
    Classes,     \* the classes each of them has
    Preferred,   \* those a register starts with
    MaxAsked,    \* bound: prices asked and not answered yet
    Numbers      \* bound: numbers that are looked up, each of one registration

ASSUME WizardAssumption ==
    /\ IsFiniteSet(Searchable) /\ Preselected \in Searchable
    /\ IsFiniteSet(Classes) /\ Preferred \subseteq Classes
    /\ MaxAsked \in Nat \ {0}

VARIABLES
    step,      \* the step the customer is at
    selected,  \* the registers selected, and the classes ticked for each
    ticked,
    asked,     \* the selections whose price is being asked, in the order they were
    quote,     \* the selection whose price is shown
    overtaken, \* whether an answer came before one that was asked earlier
    ordering,  \* what is sent, or was ordered: its selection, and the price shown with it

    page,      \* the step of the other wizard
    number,    \* what is typed there,
    found,     \* the registration that was found
    label,     \* and the label of the watch: of which registration, or the customer's own
    creating,  \* what is sent to be watched,
    watched    \* and what was

researchVars == <<step, selected, ticked, asked, quote, overtaken, ordering>>
watchVars == <<page, number, found, label, creating, watched>>
wizardVars == <<researchVars, watchVars>>

Nothing == "nothing"
Unwatched == [number |-> Nothing, label |-> Nothing]

-----------------------------------------------------------------------------
\* A register with no class ticked is searched in those it starts with.
Scopes ==
    {[register |-> r, classes |-> IF ticked[r] = {} THEN Preferred ELSE ticked[r]] : r \in selected}
ScopesValid == selected # {} /\ \A s \in Scopes : s.classes # {}

\* A price is the sum of those of the registers, whatever their classes.
PriceOf(scopes) == {s.register : s \in scopes}

Unsent == [scopes |-> {}, shown |-> {}, awaited |-> FALSE, state |-> "none"]

ResearchInit ==
    /\ step = 1
    /\ selected = {Preselected}
    /\ ticked = [r \in Searchable |-> IF r = Preselected THEN Preferred ELSE {}]
    /\ asked = <<Scopes>> /\ quote = {} /\ overtaken = FALSE
    /\ ordering = Unsent

\* Every change asks for the price of what is selected now; there is none if nothing is.
Ask ==
    /\ asked' = IF ScopesValid' THEN Append(asked, Scopes') ELSE asked
    /\ quote' = IF ScopesValid' THEN quote ELSE {}
    /\ Len(asked') <= MaxAsked
    /\ UNCHANGED <<step, overtaken, ordering, watchVars>>

Picking == step = 2 /\ ordering.state # "placed"

ToggleRegister(r) ==
    /\ Picking
    /\ selected' = Picks!SymDiff(selected, {r})
    /\ ticked' = IF r \notin selected /\ ticked[r] = {}
                 THEN [ticked EXCEPT ![r] = Preferred] ELSE ticked
    /\ Ask

ToggleClass(r, c) ==
    /\ Picking /\ r \in selected
    /\ ticked' = [ticked EXCEPT ![r] = Picks!SymDiff(@, {c})]
    /\ UNCHANGED selected
    /\ Ask

SelectAllClasses(r) ==
    /\ Picking /\ r \in selected
    /\ ticked' = [ticked EXCEPT ![r] = Classes]
    /\ UNCHANGED selected
    /\ Ask

ClearClasses(r) ==
    /\ Picking /\ r \in selected
    /\ ticked' = [ticked EXCEPT ![r] = {}]
    /\ UNCHANGED selected
    /\ Ask

\* The answers come in any order, and the last one to come is shown.
QuoteAnswers(x) ==
    /\ quote' = PriceOf(asked[x])
    /\ asked' = Picks!RemoveAt(asked, x)
    /\ overtaken' = (overtaken \/ x > 1)
    /\ UNCHANGED <<step, selected, ticked, ordering, watchVars>>

\* Mutant: the price shown before stays.
QuoteFailsSilently(x) ==
    /\ asked' = Picks!RemoveAt(asked, x)
    /\ overtaken' = (overtaken \/ x > 1)
    /\ UNCHANGED <<step, selected, ticked, quote, ordering, watchVars>>

\* A failed answer takes away the price that was shown.
QuoteFails(x) ==
    /\ quote' = {}
    /\ asked' = Picks!RemoveAt(asked, x)
    /\ overtaken' = (overtaken \/ x > 1)
    /\ UNCHANGED <<step, selected, ticked, ordering, watchVars>>

Walk(from, to) ==
    /\ step = from /\ ordering.state # "placed"
    /\ from = 2 /\ to = 3 => ScopesValid
    /\ step' = to
    /\ UNCHANGED <<selected, ticked, asked, quote, overtaken, ordering, watchVars>>

PlaceOrder ==
    /\ step = 4 /\ ordering.state = "none" /\ ScopesValid
    /\ ordering' = [scopes |-> Scopes, shown |-> quote, awaited |-> asked # <<>>, state |-> "sent"]
    /\ UNCHANGED <<step, selected, ticked, asked, quote, overtaken, watchVars>>

\* An order that is accepted leads to its own page; after one that is refused, another may
\* be sent.
OrderAnswered(state) ==
    /\ ordering.state = "sent"
    /\ ordering' = IF state = "placed" THEN [ordering EXCEPT !.state = "placed"] ELSE Unsent
    /\ UNCHANGED <<step, selected, ticked, asked, quote, overtaken, watchVars>>

ResearchNext ==
    \/ \E r \in Searchable : ToggleRegister(r) \/ SelectAllClasses(r) \/ ClearClasses(r)
    \/ \E r \in Searchable, c \in Classes : ToggleClass(r, c)
    \/ \E x \in DOMAIN asked : QuoteAnswers(x) \/ QuoteFails(x)
    \/ \E from \in 1..4 : \E to \in {from - 1, from + 1} \cap (1..4) : Walk(from, to)
    \/ PlaceOrder
    \/ \E state \in {"placed", "refused"} : OrderAnswered(state)

-----------------------------------------------------------------------------
\* The pages: 1 register, 2 number, 3 fetching, 4 preview, 5 eligibility, 6 settings,
\* 7 confirmation, 8 the page of the watch.
WatchInit ==
    /\ page = 1 /\ number = Nothing /\ found = Nothing
    /\ label = Nothing /\ creating = Unwatched /\ watched = Unwatched

Turn ==
    /\ \/ page = 1 /\ page' = 2
       \/ page = 2 /\ page' = 1
       \/ page \in {4, 5} /\ page' = page + 1
       \/ page = 6 /\ label # Nothing /\ page' = 7
       \/ page = 4 /\ page' = 2
       \/ page \in 5..7 /\ page' = page - 1
    /\ UNCHANGED <<number, found, label, creating, watched, researchVars>>

TypeNumber(n) ==
    /\ page = 2
    /\ number' = n
    /\ UNCHANGED <<page, found, label, creating, watched, researchVars>>

RunLookup ==
    /\ page = 2 /\ number # Nothing
    /\ page' = 3
    /\ UNCHANGED <<number, found, label, creating, watched, researchVars>>

\* The registration is found under its number; the label is taken over from it if empty.
LookedUp ==
    /\ page = 3
    /\ found' = number
    /\ label' = IF label = Nothing THEN number ELSE label
    /\ page' = 4
    /\ UNCHANGED <<number, creating, watched, researchVars>>

NotFound ==
    /\ page = 3
    /\ page' = 2
    /\ UNCHANGED <<number, found, label, creating, watched, researchVars>>

TypeLabel(l) ==
    /\ page = 6
    /\ label' = l
    /\ UNCHANGED <<page, number, found, creating, watched, researchVars>>

\* The watch is of the registration that was found.  The customer may turn the pages until
\* the answer comes: then the page of the watch is opened, or the refusal is shown.
ConfirmCreate ==
    /\ page = 7 /\ creating = Unwatched
    /\ creating' = [number |-> found, label |-> label]
    /\ UNCHANGED <<page, number, found, label, watched, researchVars>>

Created(accepted) ==
    /\ creating # Unwatched
    /\ watched' = IF accepted THEN creating ELSE watched
    /\ page' = IF accepted THEN 8 ELSE page
    /\ creating' = Unwatched
    /\ UNCHANGED <<number, found, label, researchVars>>

WatchNext ==
    /\ page # 8
    /\ \/ Turn \/ RunLookup \/ LookedUp \/ NotFound \/ ConfirmCreate
       \/ \E n \in Numbers : TypeNumber(n)
       \/ \E l \in {"own", Nothing} : TypeLabel(l)
       \/ \E accepted \in BOOLEAN : Created(accepted)

-----------------------------------------------------------------------------
WizardsInit == ResearchInit /\ WatchInit
WizardsNext == ResearchNext \/ WatchNext

WizardsTypeOK ==
    /\ step \in 1..4 /\ selected \subseteq Searchable
    /\ ticked \in [Searchable -> SUBSET Classes]
    /\ Len(asked) <= MaxAsked /\ quote \subseteq Searchable
    /\ ordering.state \in {"none", "sent", "placed"}
    /\ page \in 1..8 /\ {number, found} \subseteq Numbers \cup {Nothing}

\* A customer who waits for the price, and whose prices came in the order they were asked,
\* orders at the price that is shown, unless none is shown.
OrderedAsQuoted ==
    (/\ ordering.state # "none" /\ ~ordering.awaited /\ ~overtaken
     /\ ordering.shown # {}) => ordering.shown = PriceOf(ordering.scopes)

\* From the preview on, the registration shown is the one the number typed is of, also while
\* a watch is being made; the watch that is made was shown under the label it got.
WatchedAsShown ==
    /\ page \in 4..7 => found = number
    /\ \A w \in {creating, watched} \ {Unwatched} : w.number \in Numbers /\ w.label # Nothing
=============================================================================
