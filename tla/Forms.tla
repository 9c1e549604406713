------------------------------- MODULE Forms -------------------------------
(***************************************************************************)
(* The forms of the web application, beside the data they edit.  A form    *)
(* that follows a section of a query takes it over whenever it changes; a  *)
(* form that does not keeps what it was filled with when it was opened.  A *)
(* save sends every field, or the one of a row.  The form of a recipient   *)
(* turns the watches ticked into those that notify it.                     *)
(***************************************************************************)
EXTENDS Naturals, FiniteSets

Ticks == INSTANCE FiniteSetsExt

CONSTANTS
    Field,   \* bound: the fields, or rows, of a form
    Content, \* bound: what a field may hold
    Blank,   \* what the fields hold at first
    Tickable \* bound: the watches an organization may have

ASSUME FormsAssumption == IsFiniteSet(Field) /\ Blank \in Content /\ IsFiniteSet(Tickable)

VARIABLES
    form,    \* which form is open
    record,  \* what the server holds,
    known,   \* what the query has of it,
    coming,  \* and what is on its way to it
    draft,   \* what the form holds, and the fields typed in since it was filled
    typed,
    saving,  \* the save that is on its way: what is sent of which fields, and whether it was
             \* written

    active,  \* the watches that are active, as the page knows them
    chosen,  \* the watches the open recipient form has ticked
    editing, \* whether that form is open
    notifies \* the recipient as it was saved last: the ticks it was saved from, the watches that
             \* were active then to the page and to the server, and the ones the server lists

draftVars == <<form, record, known, coming, draft, typed, saving>>
tickVars == <<active, chosen, editing, notifies>>
formVars == <<draftVars, tickVars>>

\* The forms: whether one follows its section, whether it is saved as a whole or by row,
\* whether it must differ to be saved, and whether a save that fails puts back what the
\* query has.
Form(follows, rows, differs, restores) ==
    [follows |-> follows, rows |-> rows, differs |-> differs, restores |-> restores]
ProfileForm == Form(TRUE, FALSE, TRUE, FALSE)
LocaleForm == Form(TRUE, FALSE, TRUE, FALSE)
OrgProfileForm == Form(TRUE, FALSE, TRUE, FALSE)
ForceForm == Form(TRUE, FALSE, FALSE, FALSE)
WeightsForm == Form(TRUE, FALSE, FALSE, FALSE)
ThresholdDrafts == Form(TRUE, TRUE, FALSE, FALSE)
WatchSettingsForm == Form(FALSE, FALSE, FALSE, TRUE)
NotesForm == Form(FALSE, FALSE, TRUE, FALSE)
PlanForm == Form(FALSE, FALSE, FALSE, FALSE)
PriceForm == Form(FALSE, FALSE, FALSE, FALSE)
FormsThereAre ==
    {ProfileForm, LocaleForm, OrgProfileForm, ForceForm, WeightsForm, ThresholdDrafts,
     WatchSettingsForm, NotesForm, PlanForm, PriceForm}

Unsaved == [fields |-> {}, sent |-> [f \in Field |-> Blank], written |-> FALSE]
Unfetched == [state |-> "none", with |-> [f \in Field |-> Blank]]

DraftsInit ==
    /\ form \in FormsThereAre
    /\ record = [f \in Field |-> Blank]
    /\ known = record /\ coming = Unfetched
    /\ draft = record /\ typed = {}
    /\ saving = Unsaved

\* The form is opened anew, and filled with what the query has.
OpenForm ==
    /\ draft' = known /\ typed' = {}
    /\ UNCHANGED <<form, record, known, coming, saving, tickVars>>

TypeIn(f, c) ==
    /\ draft' = [draft EXCEPT ![f] = c]
    /\ typed' = typed \cup {f}
    /\ UNCHANGED <<form, record, known, coming, saving, tickVars>>

SaveFields(fields) ==
    /\ saving = Unsaved /\ form.differs => draft # known
    /\ saving' = [fields |-> fields, sent |-> draft, written |-> FALSE]
    /\ UNCHANGED <<form, record, known, coming, draft, typed, tickVars>>

Save == ~form.rows /\ SaveFields(Field)
SaveRow(f) == form.rows /\ SaveFields({f})

SaveWritten ==
    /\ saving.fields # {} /\ ~saving.written
    /\ record' = [f \in Field |-> IF f \in saving.fields THEN saving.sent[f] ELSE record[f]]
    /\ saving' = [saving EXCEPT !.written = TRUE]
    /\ UNCHANGED <<form, known, coming, draft, typed, tickVars>>

\* The answer fetches the query again; it leaves the form as it is.
SaveSettles ==
    /\ saving.written
    /\ saving' = Unsaved
    /\ coming' = [Unfetched EXCEPT !.state = "asked"]
    /\ UNCHANGED <<form, record, known, draft, typed, tickVars>>

SaveFails ==
    /\ saving.fields # {}
    /\ saving' = Unsaved
    /\ draft' = IF form.restores THEN known ELSE draft
    /\ typed' = IF form.restores THEN {} ELSE typed
    /\ UNCHANGED <<form, record, known, coming, tickVars>>

OthersWrite(f, c) ==
    /\ record[f] # c
    /\ record' = [record EXCEPT ![f] = c]
    /\ UNCHANGED <<form, known, coming, draft, typed, saving, tickVars>>

FetchSection ==
    /\ coming.state = "none"
    /\ coming' = [Unfetched EXCEPT !.state = "asked"]
    /\ UNCHANGED <<form, record, known, draft, typed, saving, tickVars>>

ReadSection ==
    /\ coming.state = "asked"
    /\ coming' = [state |-> "read", with |-> record]
    /\ UNCHANGED <<form, record, known, draft, typed, saving, tickVars>>

\* Mutant: a form that was typed in is left as it is.
RefilledIfUntouched == form.follows /\ known' # known /\ typed = {}

\* A section that comes in as it was is the same to the form; one that changed replaces all
\* of a form that follows it, the fields typed in included.
Refilled == form.follows /\ known' # known

SectionArrives ==
    /\ coming.state = "read"
    /\ known' = coming.with /\ coming' = Unfetched
    /\ IF Refilled
       THEN draft' = known' /\ typed' = {}
       ELSE UNCHANGED <<draft, typed>>
    /\ UNCHANGED <<form, record, saving, tickVars>>

DraftsNext ==
    \/ OpenForm \/ Save \/ SaveWritten \/ SaveSettles \/ SaveFails
    \/ FetchSection \/ ReadSection \/ SectionArrives
    \/ \E f \in Field : SaveRow(f)
    \/ \E f \in Field, c \in Content : TypeIn(f, c) \/ OthersWrite(f, c)

-----------------------------------------------------------------------------
\* No watches listed means all of them.
Notified(r) == IF r.ids = {} THEN r.there ELSE r.ids \cap r.there

TicksInit ==
    /\ active \in SUBSET Tickable
    /\ chosen = {} /\ editing = FALSE
    /\ notifies = [ticked |-> {}, active |-> active, there |-> active, ids |-> {}]

OpenAddRecipient ==
    /\ ~editing
    /\ editing' = TRUE /\ chosen' = active
    /\ UNCHANGED <<active, notifies, draftVars>>

OpenEditRecipient ==
    /\ ~editing
    /\ editing' = TRUE
    /\ chosen' = IF notifies.ids # {} THEN notifies.ids ELSE active
    /\ UNCHANGED <<active, notifies, draftVars>>

ToggleWatchSelection(w) ==
    /\ editing /\ w \in active
    /\ chosen' = Ticks!SymDiff(chosen, {w})
    /\ UNCHANGED <<active, editing, notifies, draftVars>>

\* Watches come and go; a form with nothing ticked then gets all of them.
WatchesArrive(now) ==
    /\ now # active
    /\ active' = now
    /\ chosen' = IF editing /\ chosen = {} THEN now ELSE chosen
    /\ UNCHANGED <<editing, notifies, draftVars>>

\* All are meant when as many are ticked as there are.
AllTicked == active = {} \/ Cardinality(chosen) = Cardinality(active)

\* For all of them the server lists those that are active by then.
SubmitRecipient(there) ==
    /\ editing
    /\ notifies' = [ticked |-> chosen, active |-> active, there |-> there,
                    ids |-> IF AllTicked THEN there ELSE chosen]
    /\ editing' = FALSE
    /\ UNCHANGED <<active, chosen, draftVars>>

TicksNext ==
    \/ OpenAddRecipient \/ OpenEditRecipient
    \/ \E w \in Tickable : ToggleWatchSelection(w)
    \/ \E now \in SUBSET Tickable : WatchesArrive(now) \/ SubmitRecipient(now)

-----------------------------------------------------------------------------
FormsTypeOK ==
    /\ form \in FormsThereAre /\ {record, known, draft} \subseteq [Field -> Content]
    /\ typed \subseteq Field /\ saving.fields \subseteq Field
    /\ UNION {active, chosen, notifies.ids} \subseteq Tickable

\* A recipient that is saved is notified of the watches that were ticked, when some were, all
\* of them are still active, and the page knows which are: one that was archived counts as a
\* tick for another.
TickedIsMeant ==
    (/\ notifies.ticked # {} /\ notifies.ticked \subseteq notifies.active
     /\ notifies.there = notifies.active) => Notified(notifies) = notifies.ticked

\* A fetch that brings no change leaves what is typed, and one that brings a change replaces
\* it only in a form that follows.  Such a form holds what its query has wherever nobody
\* typed, through saves, failures and fetches that cross, so that saving all of it undoes
\* nobody's change the page has shown.
DraftsKept ==
    [][/\ coming' # coming /\ saving' = saving /\ draft' # draft => form.follows /\ known' # known
       /\ form.follows => \A f \in Field \ typed' : draft'[f] = known'[f]]_formVars
=============================================================================
