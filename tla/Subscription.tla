----------------------------- MODULE Subscription ------------------------------
(***************************************************************************)
(* One organization's plan and what the plan limits: its watched           *)
(* trademarks and its notification recipients.                             *)
(*                                                                         *)
(* The OrgBillingChatStore changes the subscription synchronously, but two *)
(* routes decide from a list of watches they awaited before: creating a    *)
(* watch (which then also awaits the register) and changing the plan.      *)
(* Request is the set of such calls that may be in flight together.        *)
(* Operators of the platform may force a subscription and edit the catalog *)
(* of plans; steered tells whether they have.                              *)
(***************************************************************************)
EXTENDS Integers, FiniteSets

CONSTANTS
    Plan,           \* subscription plans
    DefaultCatalog, \* DefaultCatalog[p]: DEFAULT_PLAN_CATALOG, a member of Limits
    FirstPlan,      \* the plan the organization starts with
    FirstStatus,    \* and the status of its subscription
    HardCap,        \* most recipients under any plan, 100 in the code
    Watch,          \* ids for watched trademarks
    Request,        \* concurrent calls that await between their check and their change
    ForcedPlans,    \* bound: the plans operators force subscriptions to
    CatalogEdits,   \* bound: the limits a plan is given by an operator
    WatchMoves,     \* bound: the statuses watches are given by pause, resume and archive
    MaxPeriod,      \* bound: billing periods
    None            \* null / undefined

Status      == {"trialing", "active", "past_due", "canceled", "pending_downgrade"}
WatchStatus == {"active", "paused", "archived"}
Limits      == [watches : Nat, emails : Nat, price : Nat, isActive : BOOLEAN]
AtMost(n, cap) == IF n <= cap THEN n ELSE cap

ASSUME SubscriptionAssumption ==
    /\ DefaultCatalog \in [Plan -> Limits]
    /\ FirstPlan \in Plan /\ FirstStatus \in {"trialing", "active"}
    /\ HardCap \in Nat \ {0} /\ DefaultCatalog[FirstPlan].emails > 0
    /\ IsFiniteSet(Watch) /\ IsFiniteSet(Request) /\ Request # {}
    /\ ForcedPlans \subseteq Plan /\ CatalogEdits \subseteq Limits
    /\ WatchMoves \subseteq WatchStatus
    /\ MaxPeriod \in Nat
    /\ None \notin Plan \cup Nat \cup WatchStatus

\* A plan that is no smaller in watches and price is no smaller in recipients.
ASSUME CatalogGrows ==
    \A p, q \in Plan :
        /\ DefaultCatalog[p].watches <= DefaultCatalog[q].watches
        /\ DefaultCatalog[p].price <= DefaultCatalog[q].price
        => DefaultCatalog[p].emails <= DefaultCatalog[q].emails

VARIABLES
    sub,         \* the subscription
    catalog,     \* catalog[p]: planCatalog
    watch,       \* watch[w]: status of the watched trademark, None = no record
    recipients,  \* how many notification recipients there are
    steered,     \* whether an operator has forced the subscription or edited the catalog
    pc,          \* pc[q]: where the call stands
    want,        \* want[q]: the plan a plan change asks for
    seen,        \* seen[q]: active watches when the call listed them
    resumed,     \* history: the watches that a resume, not a creation, made active
    late         \* history: late[q], what was made active since the call listed them

byOperators == <<catalog, steered>>   \* what only operators change
watches == <<watch, resumed>>
store == <<sub, watches, recipients, byOperators>>
calls == <<pc, want, seen, late>>
vars  == <<store, calls>>

Active == {w \in Watch : watch[w] = "active"}

Init ==
    /\ sub = [plan |-> FirstPlan, status |-> FirstStatus, pending |-> None,
              cancelling |-> FALSE, period |-> 0, next |-> 0]
    /\ catalog = DefaultCatalog
    /\ watch = [w \in Watch |-> None]
    /\ recipients = 1
    /\ steered = FALSE
    /\ pc = [q \in Request |-> "idle"]
    /\ want = [q \in Request |-> None]
    /\ seen = [q \in Request |-> 0]
    /\ resumed = {}
    /\ late = [q \in Request |-> {}]

(***************************************************************************)
(* Entitlements and plan changes (packages/domain/src/subscriptions.ts).   *)
(***************************************************************************)
IsSubscriptionUsable(s) == s \in {"trialing", "active", "pending_downgrade"}

\* Mutant: a count that has reached the limit still lets one more in.
CanAddOneTooMany(count) ==
    IsSubscriptionUsable(sub.status) /\ count <= catalog[sub.plan].watches

CanAddWatchedTrademark(count) ==
    IsSubscriptionUsable(sub.status) /\ count < catalog[sub.plan].watches

CanAddNotificationRecipient ==
    /\ IsSubscriptionUsable(sub.status)
    /\ recipients < AtMost(catalog[sub.plan].emails, HardCap)

\* The default price of the current plan, not its price in the edited catalog.
IsDowngrade(target) ==
    \/ catalog[target].watches < catalog[sub.plan].watches
    \/ catalog[target].price < DefaultCatalog[sub.plan].price

\* evaluatePlanChange refuses nothing of it, before a downgrade is weighed.
MayChangeTo(target) ==
    /\ catalog[target].isActive
    /\ IsSubscriptionUsable(sub.status) \/ sub.status = "past_due"
    /\ target # sub.plan \/ sub.status = "pending_downgrade"

\* Mutant: the active watches are not counted.
RecipientsFitIn(target, count) ==
    recipients <= AtMost(catalog[target].emails, HardCap)

FitsIn(target, count) ==
    /\ count <= catalog[target].watches
    /\ recipients <= AtMost(catalog[target].emails, HardCap)

(***************************************************************************)
(* Calls that await.                                                       *)
(***************************************************************************)
\* The call answers, and its locals are gone.
Answers(q) ==
    /\ pc' = [pc EXCEPT ![q] = "idle"]
    /\ want' = [want EXCEPT ![q] = None]
    /\ seen' = [seen EXCEPT ![q] = 0]

Rests(q) == Answers(q) /\ late' = [late EXCEPT ![q] = {}]

\* Watch w becomes active, too late for the calls that have listed the watches.
LateFor(w) == [r \in Request |-> IF pc[r] = "idle" THEN {} ELSE late[r] \cup {w}]

\* POST /watched-trademarks: the awaited list arrives and is counted.
ListForCreate(q) ==
    /\ pc[q] = "idle"
    /\ pc' = [pc EXCEPT ![q] = "counted"]
    /\ seen' = [seen EXCEPT ![q] = Cardinality(Active)]
    /\ UNCHANGED <<store, want, late>>

\* assertCanAddWatchedTrademark throws, or the register is asked.
AssertCanAdd(q) ==
    /\ pc[q] = "counted"
    /\ \/ /\ CanAddWatchedTrademark(seen[q])
          /\ pc' = [pc EXCEPT ![q] = "fetching"]
          /\ seen' = [seen EXCEPT ![q] = 0]
          /\ UNCHANGED <<want, late>>
       \/ ~CanAddWatchedTrademark(seen[q]) /\ Rests(q)
    /\ UNCHANGED store

\* The registration arrives and is watched.
WatchCreated(q) ==
    /\ pc[q] = "fetching"
    /\ \E w \in Watch :
           /\ watch[w] = None
           /\ watch' = [watch EXCEPT ![w] = "active"]
           /\ late' = [LateFor(w) EXCEPT ![q] = {}]
    /\ Answers(q)
    /\ UNCHANGED <<sub, byOperators, resumed, recipients>>

\* There is no such registration, or the register fails.
WatchRefused(q) ==
    /\ pc[q] = "fetching"
    /\ Rests(q)
    /\ UNCHANGED store

\* POST /subscription/change-plan: the awaited list arrives and is counted.
ListForChange(q, target) ==
    /\ pc[q] = "idle"
    /\ pc' = [pc EXCEPT ![q] = "changing"]
    /\ want' = [want EXCEPT ![q] = target]
    /\ seen' = [seen EXCEPT ![q] = Cardinality(Active)]
    /\ UNCHANGED <<store, late>>

\* Mutant: an upgrade leaves the scheduled downgrade in place.
HalfChanged(target) ==
    IF IsDowngrade(target)
    THEN [sub EXCEPT !.status = "pending_downgrade", !.pending = target]
    ELSE [sub EXCEPT !.plan = target, !.status = "active"]

\* An upgrade takes effect, a downgrade is noted for later.
Changed(target) ==
    IF IsDowngrade(target)
    THEN [sub EXCEPT !.status = "pending_downgrade", !.pending = target]
    ELSE [sub EXCEPT !.plan = target, !.status = "active", !.pending = None]

ChangePlan(q) ==
    /\ pc[q] = "changing"
    /\ LET target == want[q]
           granted == MayChangeTo(target) /\ (IsDowngrade(target) => FitsIn(target, seen[q]))
       IN  \/ granted /\ sub' = Changed(target)
           \/ ~granted /\ sub' = sub
    /\ Rests(q)
    /\ UNCHANGED <<byOperators, watches, recipients>>

(***************************************************************************)
(* Calls that run through.                                                 *)
(***************************************************************************)
\* Pause, resume and archive; no plan is asked.
SetWatchStatus(w, s) ==
    /\ watch[w] # None
    /\ watch' = [watch EXCEPT ![w] = s]
    /\ \/ s = "active" /\ watch[w] # "active" /\ resumed' = resumed \cup {w} /\ late' = LateFor(w)
       \/ s = "active" /\ watch[w] = "active" /\ UNCHANGED <<resumed, late>>
       \/ s # "active" /\ resumed' = resumed \ {w} /\ UNCHANGED late
    /\ UNCHANGED <<sub, byOperators, recipients, pc, want, seen>>

\* createRecipient; the watches its route awaits before do not count for the limit.
CreateRecipient ==
    /\ CanAddNotificationRecipient
    /\ recipients' = recipients + 1
    /\ UNCHANGED <<sub, byOperators, watches, calls>>

DeleteRecipient ==
    /\ recipients > 0
    /\ recipients' = recipients - 1
    /\ UNCHANGED <<sub, byOperators, watches, calls>>

RequestCancelAtPeriodEnd ==
    /\ sub' = [sub EXCEPT !.cancelling = TRUE, !.next = None]
    /\ UNCHANGED <<byOperators, watches, recipients, calls>>

Undone == [sub EXCEPT !.cancelling = FALSE, !.next = sub.period]

UndoCancelAtPeriodEnd ==
    /\ sub' = Undone
    /\ UNCHANGED <<byOperators, watches, recipients, calls>>

\* The subscription after the invoice of its period has been issued.
Rolled ==
    IF sub.cancelling
    THEN [sub EXCEPT !.status = "canceled", !.cancelling = FALSE, !.next = None]
    ELSE [sub EXCEPT !.period = @ + 1, !.next = sub.period + 1]

IssueUpcomingInvoice ==
    /\ sub.period < MaxPeriod
    /\ sub' = Rolled
    /\ UNCHANGED <<byOperators, watches, recipients, calls>>

\* forceSubscription: any of plan, status and pending plan may be patched.
ForceSubscription ==
    /\ \E p \in ForcedPlans, s \in Status, n \in ForcedPlans \cup {None} :
           sub' = [sub EXCEPT !.plan = p, !.status = s, !.pending = n]
    /\ steered' = TRUE
    /\ UNCHANGED <<catalog, watches, recipients, calls>>

UpdatePlanCatalog(p) ==
    /\ \E l \in CatalogEdits : catalog' = [catalog EXCEPT ![p] = l]
    /\ steered' = TRUE
    /\ UNCHANGED <<sub, watches, recipients, calls>>

Next ==
    \/ \E q \in Request :
           \/ ListForCreate(q)
           \/ AssertCanAdd(q)
           \/ WatchCreated(q)
           \/ WatchRefused(q)
           \/ \E target \in Plan : ListForChange(q, target)
           \/ ChangePlan(q)
    \/ \E w \in Watch, s \in WatchMoves : SetWatchStatus(w, s)
    \/ CreateRecipient
    \/ DeleteRecipient
    \/ RequestCancelAtPeriodEnd
    \/ UndoCancelAtPeriodEnd
    \/ IssueUpcomingInvoice
    \/ ForceSubscription
    \/ \E p \in Plan : UpdatePlanCatalog(p)

Spec == Init /\ [][Next]_vars

-------------------------------------------------------------------------------
TypeOK ==
    /\ sub \in [plan : Plan, status : Status, pending : Plan \cup {None},
                cancelling : BOOLEAN, period : Nat, next : Nat \cup {None}]
    /\ catalog \in [Plan -> Limits]
    /\ watch \in [Watch -> WatchStatus \cup {None}]
    /\ recipients \in Nat /\ steered \in BOOLEAN
    /\ pc \in [Request -> {"idle", "counted", "fetching", "changing"}]
    /\ want \in [Request -> Plan \cup {None}]
    /\ seen \in [Request -> Nat]
    /\ \A q \in Request : pc[q] = "changing" => want[q] \in Plan
    /\ resumed \subseteq Watch /\ late \in [Request -> SUBSET Watch]

\* No address is added beyond the hard cap, whatever the plan or the edited catalog
\* allow (docs/product/subscription-plans.md:13).
HardCapHolds == recipients <= HardCap

\* The next invoice is due at the end of the running period or not at all, and not at
\* all while a cancellation stands, through every order of requests, undos and invoices.
NextInvoiceInStep ==
    /\ sub.next \in {None, sub.period}
    /\ sub.cancelling => sub.next = None

\* A subscription that is not canceled or being cancelled has its next invoice planned,
\* so that no period goes unpaid.
EveryPeriodInvoiced ==
    ~steered /\ sub.status # "canceled" /\ ~sub.cancelling => sub.next = sub.period

\* A pending plan is there exactly while a downgrade is scheduled (and after a
\* cancellation overtook it), and it is a cheaper or smaller plan than the current one.
PendingMatchesStatus ==
    ~steered =>
        /\ sub.pending = None => sub.status # "pending_downgrade"
        /\ sub.pending # None =>
               /\ sub.status \in {"pending_downgrade", "canceled"}
               /\ sub.pending # sub.plan
               /\ IsDowngrade(sub.pending)

\* Through every series of upgrades and downgrades there are never more recipients than
\* the plan in force allows: an upgrade of watches and price is never one that allows
\* fewer recipients.
RecipientsWithinPlan ==
    ~steered => recipients <= AtMost(catalog[sub.plan].emails, HardCap)

\* What docs/product/subscription-plans.md:17 and :5 say: there are never more active
\* watches than the plan in force allows.  It does not hold: creations overlap, and a
\* resume asks nothing.
WatchesWithinPlan ==
    ~steered => Cardinality(Active) <= catalog[sub.plan].watches

\* How far from it the store can get, through every overlap of creations, plan changes and
\* resumes (watched-trademarks.ts:113, :180): the watches that were not resumed go beyond
\* the plan by less than the number of calls that may overlap, however long that goes on.
OverrunWithinCalls ==
    ~steered =>
        Cardinality(Active \ resumed) < catalog[sub.plan].watches + Cardinality(Request)

\* A call answers for what it counted: the watch it creates fits the plan together with
\* all that was active when it counted and still is; only what was made active since, by
\* another creation or a resume, may be too much (watched-trademarks.ts:113-131).
CreationFits ==
    [][\A q \in Request :
           pc[q] = "fetching" /\ pc'[q] = "idle" /\ watch' # watch /\ ~steered =>
               Cardinality(Active' \ late[q]) <= catalog[sub.plan].watches]_vars

\* docs/product/subscription-plans.md:20, "Downgrade geblokkeerd als usage > nieuw limiet",
\* as far as the route keeps it: what was active when a downgrade was asked for and still
\* is fits the smaller plan, also while operators edit the catalog.
DowngradeFits ==
    [][\A q \in Request :
           pc[q] = "changing" /\ pc'[q] = "idle" /\ sub'.pending \notin {sub.pending, None} =>
               Cardinality(Active \ late[q]) <= catalog[sub'.pending].watches]_vars

\* A count that an await made old misleads by what overtook it, and by nothing else.
CountsAnswerFor == CreationFits /\ DowngradeFits

\* A plan change, a cancellation, an undo and an invoice each rely on what the others left,
\* and none checks it: in every order and overlap, what is pending is scheduled, the next
\* invoice is the running period's, no running subscription is without one, and the
\* recipients fit the plan and the cap.
SubscriptionConsistent ==
    /\ PendingMatchesStatus
    /\ NextInvoiceInStep
    /\ EveryPeriodInvoiced
    /\ HardCapHolds /\ RecipientsWithinPlan
===============================================================================
