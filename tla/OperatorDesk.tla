---------------------------- MODULE OperatorDesk ----------------------------
(***************************************************************************)
(* What the operators of the platform change, and the audit log of it.     *)
(* Every route under /api/platform asks who calls, most ask whether the    *)
(* organization exists, then change something and record an entry.  What   *)
(* they change is in the other modules: here a change is who made it where *)
(* and by which route.  Most routes run from request to response without   *)
(* an await; some list the watches first, some await the store.            *)
(***************************************************************************)
EXTENDS Naturals, Sequences

CONSTANTS
    Customers,  \* the organizations there are
    Staff,      \* the operators,
    Others,     \* and who else calls
    Desk,       \* bound: requests that await something at the same time
    MaxChanges, \* bound: changes
    AuditShown  \* how many entries the page of an organization looks at, 20 in the code

Nowhere == "unknown"    \* an organization there is not
Platform == "platform"  \* what is no organization's

ASSUME DeskAssumption ==
    /\ Staff \cap Others = {} /\ {Nowhere, Platform} \cap Customers = {}
    /\ MaxChanges \in Nat /\ AuditShown \in Nat

VARIABLES
    desk,    \* per request, what it is about and what it awaits
    changes, \* what was changed, in order
    entries, \* the audit log, newest first
    unheard  \* the changes whose request never heard of them

deskVars == <<desk, changes, entries, unheard>>

\* A route: what it is about, what it awaits before the change is known, and how its entry
\* names the organization.  Routes that agree in that are one.
Route(about, awaits, names) == [about |-> about, awaits |-> awaits, names |-> names]
OfOrganization == Route("organization", "nothing", "target")
OfPlatform == Route("platform", "nothing", "nobody")
AfterWatches == Route("organization", "watches", "target")
OfWatch == Route("organization", "store", "metadata")

PatchPlan == OfPlatform
PostForce == OfOrganization
PatchProfile == OfOrganization
PostMember == OfOrganization
PatchMember == OfOrganization
DeleteMember == OfOrganization
PostRecipient == AfterWatches
PatchRecipient == AfterWatches
DeleteOrgRecipient == OfOrganization
PatchWatchSettings == OfWatch
PostWatchStatus == OfWatch
PostReply == Route("thread", "nothing", "nobody")
PostMarkPaid == Route("organization", "nothing", "metadata")
PostNotification == OfOrganization

PatchCustomer == Route("customer", "nothing", "target")
PostRetry == OfPlatform
PutActiveProvider == OfPlatform
PostProviderKey == OfPlatform
PostProviderTest == OfPlatform
PatchFeatureFlag == OfPlatform
PutWeights == OfPlatform

DeskRoutes ==
    {PatchPlan, PostForce, PatchProfile, PostMember, PatchMember, DeleteMember,
     PostRecipient, PatchRecipient, DeleteOrgRecipient, PatchWatchSettings, PostWatchStatus,
     PostReply, PostMarkPaid, PostNotification, PatchCustomer,
     PostRetry, PutActiveProvider, PostProviderKey, PostProviderTest, PatchFeatureFlag,
     PutWeights}

\* A reply is about the organization of its thread; a customer may be no organization.
TargetsOf(route) == IF route.about = "platform" THEN {Platform} ELSE Customers \cup {Nowhere}

-----------------------------------------------------------------------------
AtRest == [at |-> "idle"]

DeskInit ==
    desk = [q \in Desk |-> AtRest] /\ changes = <<>> /\ entries = <<>> /\ unheard = {}

Changed(route, target, by) ==
    /\ Len(changes) < MaxChanges
    /\ changes' = Append(changes, [route |-> route, target |-> target, by |-> by])

\* Mutant: the organization is named only where it is what was changed.
EntryWithoutMetadata(route, target, by, n) ==
    [route |-> route, actor |-> by, of |-> n, organizationId |-> Platform,
     targetId |-> IF route.names = "target" THEN target ELSE Platform]

\* recordAuditLogEntry, of the n-th change.
Entry(route, target, by, n) ==
    [route |-> route, actor |-> by, of |-> n,
     targetId |-> IF route.names = "target" THEN target ELSE Platform,
     organizationId |-> IF route.names = "metadata" THEN target ELSE Platform]
RecordedEntry(route, target, by, n) == entries' = <<Entry(route, target, by, n)>> \o entries

\* assertPlatformUser lets operators through, and an organization that is asked for exists:
\* otherwise nothing happens.  The same holds for what is not found or is refused.
Admitted(route, target, by) ==
    by \in Staff /\ (route.about \in {"organization", "thread"} => target \in Customers)

Handle(route, target, by) ==
    /\ Admitted(route, target, by) /\ route.awaits = "nothing"
    /\ Changed(route, target, by)
    /\ RecordedEntry(route, target, by, Len(changes'))
    /\ UNCHANGED <<desk, unheard>>

\* A provider without a key fails its test, which is kept, but not recorded.
TestWithoutKey(by) ==
    /\ Admitted(PostProviderTest, Platform, by)
    /\ Changed(PostProviderTest, Platform, by)
    /\ unheard' = unheard \cup {Len(changes')}
    /\ UNCHANGED <<desk, entries>>

Await(q, route, target, by) ==
    /\ desk[q] = AtRest
    /\ Admitted(route, target, by) /\ route.awaits # "nothing"
    /\ desk' = [desk EXCEPT ![q] =
           [at |-> route.awaits, route |-> route, target |-> target, by |-> by, n |-> 0]]
    /\ UNCHANGED <<changes, entries, unheard>>

Done(q) == desk' = [desk EXCEPT ![q] = AtRest]

\* The watches are there: the rest is one step.
WatchesListed(q) ==
    /\ desk[q].at = "watches"
    /\ Changed(desk[q].route, desk[q].target, desk[q].by)
    /\ RecordedEntry(desk[q].route, desk[q].target, desk[q].by, Len(changes'))
    /\ Done(q)
    /\ UNCHANGED unheard

StoreWrites(q) ==
    /\ desk[q].at = "store"
    /\ Changed(desk[q].route, desk[q].target, desk[q].by)
    /\ desk' = [desk EXCEPT ![q].at = "written", ![q].n = Len(changes')]
    /\ UNCHANGED <<entries, unheard>>

StoreAnswers(q) ==
    /\ desk[q].at = "written"
    /\ RecordedEntry(desk[q].route, desk[q].target, desk[q].by, desk[q].n)
    /\ Done(q)
    /\ UNCHANGED <<changes, unheard>>

\* Nothing is found, it is refused, or what was awaited fails before anything is written.
NothingChanged(q) ==
    /\ desk[q].at \in {"watches", "store"}
    /\ Done(q)
    /\ UNCHANGED <<changes, entries, unheard>>

\* The write succeeded, and its answer is lost.
AnswerLost(q) ==
    /\ desk[q].at = "written"
    /\ unheard' = unheard \cup {desk[q].n}
    /\ Done(q)
    /\ UNCHANGED <<changes, entries>>

DeskNext ==
    \/ \E route \in DeskRoutes : \E target \in TargetsOf(route), by \in Staff \cup Others :
           Handle(route, target, by) \/ \E q \in Desk : Await(q, route, target, by)
    \/ \E by \in Staff \cup Others : TestWithoutKey(by)
    \/ \E q \in Desk :
           \/ WatchesListed(q) \/ StoreWrites(q) \/ StoreAnswers(q)
           \/ NothingChanged(q) \/ AnswerLost(q)

DeskSpec == DeskInit /\ [][DeskNext]_deskVars

-----------------------------------------------------------------------------
\* GET /organizations/:id shows, of the newest entries of all, those that name it.
AuditSnippet(o) ==
    {x \in DOMAIN entries :
        x <= AuditShown /\ o \in {entries[x].targetId, entries[x].organizationId}}

DeskTypeOK ==
    /\ \A q \in Desk : desk[q].at \in {"idle", "watches", "store", "written"}
    /\ Len(changes) <= MaxChanges
    /\ unheard \subseteq DOMAIN changes
    /\ \A x \in DOMAIN entries : entries[x].of \in 0..Len(changes)

Pending == {desk[q].n : q \in {p \in Desk : desk[p].at = "written"}}

\* However the requests of operators overlap, an entry is of a change that was made, by whom
\* and through what it says, and one change has one entry, unless its request still awaits
\* the store, or never heard of it.  The log is in the order of the changes but for those
\* that await the store.  The page of an organization shows the entries of its own changes
\* while they are new enough, and no others; a reply in a conversation it does not show.
AuditTells ==
    /\ \A x \in DOMAIN entries :
           /\ entries[x].of \in DOMAIN changes \ (unheard \cup Pending)
           /\ LET c == changes[entries[x].of] IN
              /\ entries[x].route = c.route /\ entries[x].actor = c.by /\ c.by \in Staff
              /\ \A o \in Customers :
                     x \in AuditSnippet(o) <=>
                         x <= AuditShown /\ c.target = o /\ c.route # PostReply
    /\ \A n \in DOMAIN changes \ (unheard \cup Pending) :
           \E x \in DOMAIN entries : {y \in DOMAIN entries : entries[y].of = n} = {x}
    /\ \A x, y \in DOMAIN entries :
           x < y /\ "store" \notin {changes[entries[z].of].route.awaits : z \in {x, y}}
           => entries[x].of > entries[y].of
=============================================================================
