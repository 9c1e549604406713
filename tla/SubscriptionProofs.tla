--------------------------- MODULE SubscriptionProofs --------------------------
(***************************************************************************)
(* What holds of a subscription through every order of plan changes,       *)
(* cancellations, undos and invoices.  The plan's properties need that the *)
(* catalog is the default one, which it is as long as no operator edits it; *)
(* the bound on recipients needs that a larger plan is larger in all its   *)
(* limits (CatalogGrows), since an upgrade compares only two of them.      *)
(***************************************************************************)
EXTENDS Subscription, FiniteSetTheorems, TLAPS

\* As long as nobody steers, the catalog is the one of the code.
DefaultHolds == ~steered => catalog = DefaultCatalog

IInv ==
    /\ TypeOK
    /\ DefaultHolds
    /\ HardCapHolds
    /\ NextInvoiceInStep
    /\ EveryPeriodInvoiced
    /\ PendingMatchesStatus
    /\ RecipientsWithinPlan

SubType == [plan : Plan, status : Status, pending : Plan \cup {None},
            cancelling : BOOLEAN, period : Nat, next : Nat \cup {None}]

\* What the bound of a plan is.
LEMMA CapBounds ==
    ASSUME NEW n \in Nat
    PROVE  AtMost(n, HardCap) \in Nat /\ AtMost(n, HardCap) <= HardCap /\ AtMost(n, HardCap) <= n
  BY SubscriptionAssumption DEF AtMost

LEMMA CapGrows ==
    ASSUME NEW m \in Nat, NEW n \in Nat, m <= n
    PROVE  AtMost(m, HardCap) <= AtMost(n, HardCap)
  BY SubscriptionAssumption DEF AtMost

\* An upgrade never allows fewer recipients.
LEMMA UpgradeKeepsRecipients ==
    ASSUME IInv, ~steered, NEW target \in Plan, ~IsDowngrade(target)
    PROVE  AtMost(catalog[sub.plan].emails, HardCap) <= AtMost(catalog[target].emails, HardCap)
<1>1. sub.plan \in Plan /\ catalog = DefaultCatalog
  BY DEF IInv, TypeOK, DefaultHolds
<1>2. /\ DefaultCatalog[sub.plan] \in Limits
      /\ DefaultCatalog[target] \in Limits
  BY <1>1, SubscriptionAssumption
<1>3. /\ DefaultCatalog[sub.plan].watches <= DefaultCatalog[target].watches
      /\ DefaultCatalog[sub.plan].price <= DefaultCatalog[target].price
  BY <1>1, <1>2 DEF IsDowngrade, Limits
<1>4. DefaultCatalog[sub.plan].emails <= DefaultCatalog[target].emails
  BY <1>1, <1>3, CatalogGrows
<1>. QED
  BY <1>1, <1>2, <1>4, CapGrows DEF Limits

\* No plan is a downgrade of itself.
LEMMA NotItsOwnDowngrade ==
    ASSUME IInv, ~steered PROVE ~IsDowngrade(sub.plan)
<1>1. sub.plan \in Plan /\ catalog = DefaultCatalog
  BY DEF IInv, TypeOK, DefaultHolds
<1>2. DefaultCatalog[sub.plan] \in Limits
  BY <1>1, SubscriptionAssumption
<1>. QED
  BY <1>1, <1>2 DEF IsDowngrade, Limits

LEMMA InitIInv == Init => IInv
<1>. SUFFICES ASSUME Init PROVE IInv
  OBVIOUS
<1>1. TypeOK
  BY SubscriptionAssumption DEF Init, TypeOK, Status, WatchStatus
<1>2. DefaultHolds /\ HardCapHolds /\ NextInvoiceInStep /\ EveryPeriodInvoiced
  BY SubscriptionAssumption DEF Init, DefaultHolds, HardCapHolds, NextInvoiceInStep, EveryPeriodInvoiced
<1>3. PendingMatchesStatus
  BY SubscriptionAssumption DEF Init, PendingMatchesStatus
<1>4. RecipientsWithinPlan
  <2>1. DefaultCatalog[FirstPlan] \in Limits
    BY SubscriptionAssumption
  <2>. QED
    BY <2>1, SubscriptionAssumption DEF Init, RecipientsWithinPlan, AtMost, Limits
<1>. QED
  BY <1>1, <1>2, <1>3, <1>4 DEF IInv

(***************************************************************************)
(* The steps that leave subscription, catalog and recipients alone.        *)
(***************************************************************************)
LEMMA OthersKept ==
    ASSUME IInv, TypeOK', UNCHANGED <<sub, catalog, recipients, steered>> PROVE IInv'
  BY DEF IInv, DefaultHolds, HardCapHolds, NextInvoiceInStep, EveryPeriodInvoiced,
         PendingMatchesStatus, RecipientsWithinPlan, IsDowngrade

\* The calls' locals keep their types.
LEMMA RestsTyped ==
    ASSUME TypeOK, NEW q \in Request, Rests(q)
    PROVE  /\ pc' \in [Request -> {"idle", "counted", "fetching", "changing"}]
           /\ want' \in [Request -> Plan \cup {None}]
           /\ seen' \in [Request -> Nat]
           /\ \A r \in Request : pc'[r] = "changing" => want'[r] \in Plan
           /\ late' \in [Request -> SUBSET Watch]
  BY DEF TypeOK, Rests, Answers

LEMMA LateTyped ==
    ASSUME TypeOK, NEW w \in Watch
    PROVE  LateFor(w) \in [Request -> SUBSET Watch]
  BY DEF TypeOK, LateFor

LEMMA ListsKeep ==
    ASSUME IInv, NEW q \in Request, NEW target \in Plan,
           ListForCreate(q) \/ ListForChange(q, target)
    PROVE  IInv'
<1>1. Cardinality(Active) \in Nat
  <2>1. IsFiniteSet(Active)
    BY SubscriptionAssumption, FS_Subset DEF Active
  <2>. QED
    BY <2>1, FS_CardinalityType
<1>2. TypeOK'
  BY <1>1 DEF IInv, TypeOK, ListForCreate, ListForChange, store, watches, byOperators
<1>. QED
  BY <1>2, OthersKept DEF ListForCreate, ListForChange, store, watches, byOperators

LEMMA CallsKeep ==
    ASSUME IInv, NEW q \in Request, AssertCanAdd(q) \/ WatchCreated(q) \/ WatchRefused(q)
    PROVE  IInv'
<1>1. CASE AssertCanAdd(q) /\ ~Rests(q)
  <2>1. TypeOK'
    BY <1>1 DEF IInv, TypeOK, AssertCanAdd, store, watches, byOperators
  <2>. QED
    BY <1>1, <2>1, OthersKept DEF AssertCanAdd, store, watches, byOperators
<1>2. CASE AssertCanAdd(q) /\ Rests(q)
  <2>1. TypeOK'
    BY <1>2, RestsTyped DEF IInv, TypeOK, AssertCanAdd, store, watches, byOperators
  <2>. QED
    BY <1>2, <2>1, OthersKept DEF AssertCanAdd, store, watches, byOperators
<1>3. CASE WatchCreated(q)
  <2>1. watch' \in [Watch -> WatchStatus \cup {None}]
    BY <1>3 DEF IInv, TypeOK, WatchCreated, WatchStatus
  <2>2. TypeOK'
    <3>1. /\ pc' \in [Request -> {"idle", "counted", "fetching", "changing"}]
          /\ want' \in [Request -> Plan \cup {None}]
          /\ seen' \in [Request -> Nat]
          /\ \A r \in Request : pc'[r] = "changing" => want'[r] \in Plan
      BY <1>3 DEF IInv, TypeOK, WatchCreated, Answers
    <3>2. PICK w \in Watch : late' = [LateFor(w) EXCEPT ![q] = {}]
      BY <1>3 DEF WatchCreated
    <3>3. LateFor(w) \in [Request -> SUBSET Watch]
      BY LateTyped DEF IInv
    <3>4. late' \in [Request -> SUBSET Watch]
      BY <3>2, <3>3
    <3>. QED
      BY <1>3, <2>1, <3>1, <3>4 DEF IInv, TypeOK, WatchCreated, byOperators
  <2>. QED
    BY <1>3, <2>2, OthersKept DEF WatchCreated, byOperators
<1>4. CASE WatchRefused(q)
  <2>1. TypeOK'
    BY <1>4, RestsTyped DEF IInv, TypeOK, WatchRefused, store, watches, byOperators
  <2>. QED
    BY <1>4, <2>1, OthersKept DEF WatchRefused, store, watches, byOperators
<1>. QED
  BY <1>1, <1>2, <1>3, <1>4

LEMMA SetWatchStatusKeeps ==
    ASSUME IInv, NEW w \in Watch, NEW s \in WatchMoves, SetWatchStatus(w, s) PROVE IInv'
<1>1. s \in WatchStatus
  BY SubscriptionAssumption
<1>2. LateFor(w) \in [Request -> SUBSET Watch]
  BY LateTyped DEF IInv
<1>3. TypeOK'
  BY <1>1, <1>2 DEF IInv, TypeOK, SetWatchStatus, byOperators
<1>. QED
  BY <1>3, OthersKept DEF SetWatchStatus, byOperators

(***************************************************************************)
(* The steps that change the subscription.                                 *)
(***************************************************************************)
LEMMA ChangePlanKeeps ==
    ASSUME IInv, NEW q \in Request, ChangePlan(q) PROVE IInv'
<1>. DEFINE target == want[q]
<1>0. target \in Plan /\ sub \in SubType
  BY DEF IInv, TypeOK, ChangePlan, SubType, byOperators
<1>1. CASE sub' = sub
  <2>1. TypeOK'
    BY <1>1, RestsTyped DEF IInv, TypeOK, ChangePlan, watches, byOperators
  <2>. QED
    BY <1>1, <2>1, OthersKept DEF ChangePlan, byOperators
<1>2. CASE MayChangeTo(target) /\ sub' = Changed(target)
  <2>1. sub' \in SubType
    BY <1>0, <1>2 DEF Changed, SubType, Status
  <2>2. TypeOK'
    BY <2>1, RestsTyped DEF IInv, TypeOK, ChangePlan, SubType, watches, byOperators
  <2>3. /\ sub'.period = sub.period /\ sub'.next = sub.next
        /\ sub'.cancelling = sub.cancelling
    BY <1>0, <1>2 DEF Changed, SubType
  <2>4. sub.status # "canceled"
    BY <1>2 DEF MayChangeTo, IsSubscriptionUsable
  <2>5. DefaultHolds' /\ HardCapHolds' /\ NextInvoiceInStep' /\ EveryPeriodInvoiced'
    BY <2>3, <2>4 DEF IInv, ChangePlan, byOperators, DefaultHolds, HardCapHolds, NextInvoiceInStep, EveryPeriodInvoiced
  <2>6. CASE IsDowngrade(target)
    <3>1. /\ sub'.plan = sub.plan /\ sub'.status = "pending_downgrade"
          /\ sub'.pending = target
      BY <1>0, <1>2, <2>6 DEF Changed, SubType
    <3>2. ~steered => target # sub.plan
      BY <2>6, NotItsOwnDowngrade
    <3>3. catalog' = catalog /\ recipients' = recipients /\ steered' = steered
      BY DEF ChangePlan, byOperators
    <3>4. PendingMatchesStatus'
      BY <1>0, <2>6, <3>1, <3>2, <3>3, SubscriptionAssumption DEF PendingMatchesStatus, IsDowngrade
    <3>5. RecipientsWithinPlan'
      BY <3>1, <3>3 DEF IInv, RecipientsWithinPlan
    <3>. QED
      BY <2>2, <2>5, <3>4, <3>5 DEF IInv
  <2>7. CASE ~IsDowngrade(target)
    <3>1. /\ sub'.plan = target /\ sub'.status = "active" /\ sub'.pending = None
      BY <1>0, <1>2, <2>7 DEF Changed, SubType
    <3>2. PendingMatchesStatus'
      BY <3>1 DEF PendingMatchesStatus
    <3>3. catalog' = catalog /\ recipients' = recipients /\ steered' = steered
      BY DEF ChangePlan, byOperators
    <3>4. RecipientsWithinPlan'
      <4>. SUFFICES ASSUME ~steered
                    PROVE  recipients <= AtMost(catalog[target].emails, HardCap)
        BY <3>1, <3>3 DEF RecipientsWithinPlan
      <4>1. recipients <= AtMost(catalog[sub.plan].emails, HardCap)
        BY DEF IInv, RecipientsWithinPlan
      <4>2. AtMost(catalog[sub.plan].emails, HardCap) <= AtMost(catalog[target].emails, HardCap)
        BY <1>0, <2>7, UpgradeKeepsRecipients
      <4>3. /\ recipients \in Nat
            /\ catalog[sub.plan].emails \in Nat /\ catalog[target].emails \in Nat
        BY <1>0 DEF IInv, TypeOK, SubType, Limits
      <4>. QED
        BY <4>1, <4>2, <4>3, CapBounds
    <3>. QED
      BY <2>2, <2>5, <3>2, <3>4 DEF IInv
  <2>. QED
    BY <2>6, <2>7
<1>. QED
  BY <1>1, <1>2 DEF ChangePlan

LEMMA CancellationKeeps ==
    ASSUME IInv, RequestCancelAtPeriodEnd \/ UndoCancelAtPeriodEnd \/ IssueUpcomingInvoice
    PROVE  IInv'
<1>0. sub \in SubType
  BY DEF IInv, TypeOK, SubType
<1>1. sub' \in SubType
  <2>1. CASE RequestCancelAtPeriodEnd
    BY <1>0, <2>1 DEF RequestCancelAtPeriodEnd, SubType
  <2>2. CASE UndoCancelAtPeriodEnd
    BY <1>0, <2>2 DEF UndoCancelAtPeriodEnd, Undone, SubType
  <2>3. CASE IssueUpcomingInvoice
    <3>1. sub.period + 1 \in Nat
      BY <1>0 DEF SubType
    <3>. QED
      BY <1>0, <2>3, <3>1 DEF IssueUpcomingInvoice, Rolled, SubType, Status
  <2>. QED
    BY <2>1, <2>2, <2>3
<1>2. UNCHANGED <<catalog, steered, watch, resumed, recipients, pc, want, seen, late>>
  BY DEF RequestCancelAtPeriodEnd, UndoCancelAtPeriodEnd, IssueUpcomingInvoice, calls, watches, byOperators
<1>3. TypeOK'
  BY <1>1, <1>2 DEF IInv, TypeOK, SubType
<1>4. /\ sub'.plan = sub.plan /\ sub'.pending = sub.pending
      /\ sub'.status \in {sub.status, "canceled"}
  BY <1>0 DEF RequestCancelAtPeriodEnd, UndoCancelAtPeriodEnd, Undone, IssueUpcomingInvoice, Rolled, SubType
<1>5. NextInvoiceInStep' /\ EveryPeriodInvoiced'
  BY <1>0 DEF IInv, RequestCancelAtPeriodEnd, UndoCancelAtPeriodEnd, Undone, IssueUpcomingInvoice, Rolled,
              SubType, NextInvoiceInStep, EveryPeriodInvoiced
<1>6. DefaultHolds' /\ HardCapHolds' /\ RecipientsWithinPlan'
  BY <1>2, <1>4 DEF IInv, DefaultHolds, HardCapHolds, RecipientsWithinPlan
<1>7. PendingMatchesStatus'
  BY <1>2, <1>4 DEF IInv, PendingMatchesStatus, IsDowngrade
<1>. QED
  BY <1>3, <1>5, <1>6, <1>7 DEF IInv

(***************************************************************************)
(* The steps that change the recipients, and those of the operators.       *)
(***************************************************************************)
LEMMA RecipientsKeep ==
    ASSUME IInv, CreateRecipient \/ DeleteRecipient PROVE IInv'
<1>. DEFINE cap == AtMost(catalog[sub.plan].emails, HardCap)
<1>1. /\ recipients \in Nat /\ catalog[sub.plan].emails \in Nat /\ HardCap \in Nat
  BY SubscriptionAssumption DEF IInv, TypeOK, Limits
<1>2. cap \in Nat /\ cap <= HardCap
  BY <1>1, CapBounds
<1>3. UNCHANGED <<sub, catalog, steered, watch, resumed, pc, want, seen, late>>
  BY DEF CreateRecipient, DeleteRecipient, calls, watches, byOperators
<1>4. /\ recipients' \in Nat
      /\ recipients' <= HardCap
      /\ ~steered => recipients' <= cap
  <2>1. CASE CreateRecipient
    BY <1>1, <1>2, <2>1 DEF CreateRecipient, CanAddNotificationRecipient
  <2>2. CASE DeleteRecipient
    BY <1>1, <1>2, <2>2 DEF DeleteRecipient, IInv, HardCapHolds, RecipientsWithinPlan
  <2>. QED
    BY <2>1, <2>2
<1>5. TypeOK'
  BY <1>3, <1>4 DEF IInv, TypeOK
<1>6. HardCapHolds' /\ RecipientsWithinPlan'
  BY <1>3, <1>4 DEF HardCapHolds, RecipientsWithinPlan
<1>7. DefaultHolds' /\ NextInvoiceInStep' /\ EveryPeriodInvoiced' /\ PendingMatchesStatus'
  BY <1>3 DEF IInv, DefaultHolds, NextInvoiceInStep, EveryPeriodInvoiced, PendingMatchesStatus, IsDowngrade
<1>. QED
  BY <1>5, <1>6, <1>7 DEF IInv

LEMMA OperatorsKeep ==
    ASSUME IInv, NEW p \in Plan, ForceSubscription \/ UpdatePlanCatalog(p) PROVE IInv'
<1>1. steered' = TRUE /\ UNCHANGED <<watch, resumed, recipients, pc, want, seen, late>>
  BY DEF ForceSubscription, UpdatePlanCatalog, calls, watches
<1>2. CASE ForceSubscription
  <2>0. sub \in SubType
    BY DEF IInv, TypeOK, SubType
  <2>1. /\ sub' \in SubType /\ catalog' = catalog
        /\ sub'.period = sub.period /\ sub'.next = sub.next /\ sub'.cancelling = sub.cancelling
    BY <1>2, <2>0, SubscriptionAssumption DEF ForceSubscription, SubType
  <2>2. TypeOK'
    BY <1>1, <2>1 DEF IInv, TypeOK, SubType
  <2>. QED
    BY <1>1, <2>1, <2>2 DEF IInv, DefaultHolds, HardCapHolds, NextInvoiceInStep, EveryPeriodInvoiced,
                            PendingMatchesStatus, RecipientsWithinPlan
<1>3. CASE UpdatePlanCatalog(p)
  <2>1. TypeOK'
    BY <1>1, <1>3, SubscriptionAssumption DEF IInv, TypeOK, UpdatePlanCatalog
  <2>. QED
    BY <1>1, <1>3, <2>1 DEF IInv, DefaultHolds, HardCapHolds, NextInvoiceInStep, EveryPeriodInvoiced,
                            PendingMatchesStatus, RecipientsWithinPlan, UpdatePlanCatalog
<1>. QED
  BY <1>2, <1>3

LEMMA NextIInv == IInv /\ [Next]_vars => IInv'
<1>. SUFFICES ASSUME IInv, [Next]_vars PROVE IInv'
  OBVIOUS
<1>1. CASE UNCHANGED vars
  BY <1>1 DEF vars, store, watches, byOperators, calls, IInv, TypeOK, DefaultHolds, HardCapHolds, NextInvoiceInStep,
              EveryPeriodInvoiced, PendingMatchesStatus, RecipientsWithinPlan, IsDowngrade
<1>2. ASSUME NEW q \in Request,
             \/ ListForCreate(q) \/ AssertCanAdd(q) \/ WatchCreated(q) \/ WatchRefused(q)
             \/ (\E target \in Plan : ListForChange(q, target)) \/ ChangePlan(q)
      PROVE  IInv'
  <2>1. Plan # {}
    BY SubscriptionAssumption
  <2>. QED
    BY <1>2, <2>1, ListsKeep, CallsKeep, ChangePlanKeeps
<1>3. ASSUME NEW w \in Watch, NEW s \in WatchMoves, SetWatchStatus(w, s) PROVE IInv'
  BY <1>3, SetWatchStatusKeeps
<1>4. CASE CreateRecipient \/ DeleteRecipient
  BY <1>4, RecipientsKeep
<1>5. CASE RequestCancelAtPeriodEnd \/ UndoCancelAtPeriodEnd \/ IssueUpcomingInvoice
  BY <1>5, CancellationKeeps
<1>6. CASE ForceSubscription \/ (\E p \in Plan : UpdatePlanCatalog(p))
  <2>1. Plan # {}
    BY SubscriptionAssumption
  <2>. QED
    BY <1>6, <2>1, OperatorsKeep
<1>. QED
  BY <1>1, <1>2, <1>3, <1>4, <1>5, <1>6 DEF Next

LEMMA Inductive == Spec => []IInv
  BY InitIInv, NextIInv, PTL DEF Spec

\* However requests, undos and invoices are ordered, the next invoice is the running
\* period's or off, and off while a cancellation stands.
THEOREM NextInvoiceKeepsStep == Spec => []NextInvoiceInStep
<1>1. IInv => NextInvoiceInStep
  BY DEF IInv
<1>. QED
  BY <1>1, Inductive, PTL

\* No running subscription drops out of invoicing.
THEOREM PeriodsInvoiced == Spec => []EveryPeriodInvoiced
<1>1. IInv => EveryPeriodInvoiced
  BY DEF IInv
<1>. QED
  BY <1>1, Inductive, PTL

\* A pending plan is a downgrade that is scheduled, or one a cancellation overtook.
THEOREM PendingIsScheduled == Spec => []PendingMatchesStatus
<1>1. IInv => PendingMatchesStatus
  BY DEF IInv
<1>. QED
  BY <1>1, Inductive, PTL

\* The recipients fit the plan in force, for every catalog that grows in its limits.
THEOREM RecipientsFit == Spec => [](HardCapHolds /\ RecipientsWithinPlan)
<1>1. IInv => HardCapHolds /\ RecipientsWithinPlan
  BY DEF IInv
<1>. QED
  BY <1>1, Inductive, PTL

\* All of the above: the subscription is consistent through every order of calls.
THEOREM ConsistentThroughout == Spec => []SubscriptionConsistent
<1>1. IInv => SubscriptionConsistent
  BY DEF IInv, SubscriptionConsistent
<1> QED
  BY <1>1, Inductive, PTL

(***************************************************************************)
(* The watches, and the calls that count them before they change anything, *)
(* with any number of calls that overlap and watches resumed meanwhile.    *)
(***************************************************************************)
\* What a call counted still bounds what was active then, and what it was let through
\* with is still room for it in the plan.
CountHolds(q) ==
    /\ pc[q] \in {"counted", "changing"} => Cardinality(Active \ late[q]) <= seen[q]
    /\ pc[q] = "fetching" => seen[q] = 0
    /\ pc[q] = "fetching" /\ ~steered => Cardinality(Active \ late[q]) < catalog[sub.plan].watches

CountsHold == \A q \in Request : CountHolds(q)

\* Only watches there are can have been made active.
HistoryExists == \A w \in Watch : watch[w] = None => w \notin resumed /\ \A q \in Request : w \notin late[q]

\* The watches that count against the plan, and the calls that may still add to n of them.
Own == Active \ resumed
Admitted(n) == {q \in Request : pc[q] \in {"counted", "fetching"} /\ seen[q] < n}

\* Once the plan is full, every watch beyond it has used up a call that counted before.
OverrunPaid ==
    ~steered =>
        \A n \in Nat :
            catalog[sub.plan].watches <= n /\ n <= Cardinality(Own) =>
                Cardinality(Own) + Cardinality(Admitted(n)) < n + Cardinality(Request)

CInv == IInv /\ HistoryExists /\ CountsHold
WInv == CInv /\ OverrunPaid

LEMMA WatchesCounted ==
    ASSUME NEW S \in SUBSET Watch PROVE IsFiniteSet(S) /\ Cardinality(S) \in Nat
  BY SubscriptionAssumption, FS_Subset, FS_CardinalityType

LEMMA WatchesOrdered ==
    ASSUME NEW S \in SUBSET Watch, NEW T \in SUBSET S PROVE Cardinality(T) <= Cardinality(S)
  BY WatchesCounted, FS_Subset

LEMMA RequestsCounted ==
    ASSUME NEW S \in SUBSET Request PROVE IsFiniteSet(S) /\ Cardinality(S) \in Nat
  BY SubscriptionAssumption, FS_Subset, FS_CardinalityType

LEMMA RequestsOrdered ==
    ASSUME NEW S \in SUBSET Request, NEW T \in SUBSET S PROVE Cardinality(T) <= Cardinality(S)
  BY RequestsCounted, FS_Subset

\* One request fewer than a set with it, which is one fewer than all at most.
LEMMA OneRequestLess ==
    ASSUME NEW S \in SUBSET Request, NEW q \in Request
    PROVE  /\ Cardinality(S \ {q}) < Cardinality(Request)
           /\ q \in S => Cardinality(S \ {q}) = Cardinality(S) - 1
<1>1. /\ IsFiniteSet(Request) /\ Cardinality(Request) \in Nat
      /\ Cardinality(Request \ {q}) = Cardinality(Request) - 1
  BY SubscriptionAssumption, FS_RemoveElement, FS_CardinalityType
<1>2. Cardinality(S \ {q}) <= Cardinality(Request \ {q}) /\ Cardinality(S \ {q}) \in Nat
  BY RequestsCounted, RequestsOrdered, S \ {q} \subseteq Request \ {q}
<1>3. q \in S => Cardinality(S \ {q}) = Cardinality(S) - 1
  BY RequestsCounted, FS_RemoveElement
<1>. QED
  BY <1>1, <1>2, <1>3

LEMMA PlanTyped ==
    ASSUME TypeOK PROVE sub.plan \in Plan /\ catalog[sub.plan].watches \in Nat
  BY DEF TypeOK, Limits

\* While nobody steers, the plan never allows fewer watches than it did.
LEMMA LimitGrows ==
    ASSUME TypeOK, TypeOK', [Next]_vars, ~steered'
    PROVE  ~steered /\ catalog[sub.plan].watches <= catalog'[sub'.plan].watches
<1>1. UNCHANGED byOperators
  <2>1. ~ForceSubscription /\ \A p \in Plan : ~UpdatePlanCatalog(p)
    BY DEF ForceSubscription, UpdatePlanCatalog
  <2>2. ASSUME NEW q \in Request,
               \/ ListForCreate(q) \/ AssertCanAdd(q) \/ WatchRefused(q)
               \/ (\E target \in Plan : ListForChange(q, target))
        PROVE  UNCHANGED byOperators
    BY <2>2 DEF ListForCreate, AssertCanAdd, WatchRefused, ListForChange, store
  <2>3. ASSUME NEW q \in Request, WatchCreated(q) \/ ChangePlan(q) PROVE UNCHANGED byOperators
    BY <2>3 DEF WatchCreated, ChangePlan
  <2>4. ASSUME NEW w \in Watch, NEW s \in WatchMoves, SetWatchStatus(w, s) PROVE UNCHANGED byOperators
    BY <2>4 DEF SetWatchStatus
  <2>5. CASE CreateRecipient \/ DeleteRecipient
    BY <2>5 DEF CreateRecipient, DeleteRecipient
  <2>6. CASE RequestCancelAtPeriodEnd \/ UndoCancelAtPeriodEnd \/ IssueUpcomingInvoice
    BY <2>6 DEF RequestCancelAtPeriodEnd, UndoCancelAtPeriodEnd, IssueUpcomingInvoice
  <2>7. CASE UNCHANGED vars
    BY <2>7 DEF vars, store
  <2>. QED
    BY <2>1, <2>2, <2>3, <2>4, <2>5, <2>6, <2>7 DEF Next
<1>2. \/ sub'.plan = sub.plan
      \/ \E q \in Request : pc[q] = "changing" /\ sub'.plan = want[q] /\ ~IsDowngrade(want[q])
  <2>1. ASSUME NEW q \in Request, ChangePlan(q), sub'.plan # sub.plan
        PROVE  pc[q] = "changing" /\ sub'.plan = want[q] /\ ~IsDowngrade(want[q])
    BY <2>1 DEF ChangePlan, Changed, TypeOK
  <2>2. ASSUME RequestCancelAtPeriodEnd \/ UndoCancelAtPeriodEnd \/ IssueUpcomingInvoice
        PROVE  sub'.plan = sub.plan
    BY <2>2 DEF TypeOK, RequestCancelAtPeriodEnd, UndoCancelAtPeriodEnd, Undone, IssueUpcomingInvoice, Rolled
  <2>3. ASSUME ~\E q \in Request : ChangePlan(q),
               ~(RequestCancelAtPeriodEnd \/ UndoCancelAtPeriodEnd \/ IssueUpcomingInvoice)
        PROVE  sub' = sub \/ ForceSubscription
    BY <2>3 DEF Next, vars, store, byOperators, ListForCreate, AssertCanAdd, WatchCreated, WatchRefused,
             ListForChange, SetWatchStatus, CreateRecipient, DeleteRecipient, UpdatePlanCatalog
  <2>4. ~ForceSubscription
    BY DEF ForceSubscription
  <2>. QED
    BY <2>1, <2>2, <2>3, <2>4
<1>3. ASSUME NEW q \in Request, pc[q] = "changing", ~IsDowngrade(want[q])
      PROVE  catalog[sub.plan].watches <= catalog[want[q]].watches
  <2>1. want[q] \in Plan
    BY <1>3 DEF TypeOK
  <2>2. catalog[want[q]].watches \in Nat /\ catalog[sub.plan].watches \in Nat
    BY <2>1 DEF TypeOK, Limits
  <2>. QED
    BY <1>3, <2>2 DEF IsDowngrade
<1>4. catalog[sub.plan].watches \in Nat
  BY PlanTyped
<1>. QED
  BY <1>1, <1>2, <1>3, <1>4 DEF byOperators

LEMMA InitWInv == Init => WInv
<1>. SUFFICES ASSUME Init PROVE WInv
  OBVIOUS
<1>1. Active = {} /\ Own = {}
  BY SubscriptionAssumption DEF Init, Active, Own, WatchStatus
<1>2. Cardinality(Own) = 0
  BY <1>1, FS_EmptySet
<1>3. HistoryExists /\ CountsHold
  BY DEF Init, HistoryExists, CountsHold, CountHolds
<1>4. OverrunPaid
  <2>1. ASSUME NEW n \in Nat PROVE Admitted(n) = {}
    BY DEF Init, Admitted
  <2>2. Cardinality(Request) \in Nat /\ Cardinality(Request) # 0
    BY SubscriptionAssumption, FS_CardinalityType, FS_EmptySet
  <2>3. \A n \in Nat : Cardinality(Own) + Cardinality(Admitted(n)) < n + Cardinality(Request)
    BY <1>2, <2>1, <2>2, FS_EmptySet
  <2>. QED
    BY <2>3 DEF OverrunPaid
<1>. QED
  BY InitIInv, <1>3, <1>4 DEF WInv, CInv

(***************************************************************************)
(* What a step does to the watches and to the counts.                      *)
(***************************************************************************)
\* A new watch, and what it is to the calls under way.
LEMMA Created ==
    ASSUME CInv, NEW q \in Request, WatchCreated(q)
    PROVE  \E w \in Watch :
               /\ watch[w] = None /\ watch' = [watch EXCEPT ![w] = "active"]
               /\ Active' = Active \cup {w} /\ w \notin Active
               /\ Own' = Own \cup {w} /\ w \notin Own /\ w \notin late[q]
               /\ \A r \in Request : r # q => late'[r] = LateFor(w)[r]
<1>1. PICK w \in Watch : /\ watch[w] = None /\ watch' = [watch EXCEPT ![w] = "active"]
                         /\ late' = [LateFor(w) EXCEPT ![q] = {}]
  BY DEF WatchCreated
<1>2. watch[w] # "active"
  BY <1>1, SubscriptionAssumption DEF WatchStatus
<1>3. Active' = Active \cup {w} /\ w \notin Active
  BY <1>1, <1>2 DEF CInv, IInv, TypeOK, Active
<1>4. w \notin resumed /\ w \notin late[q]
  BY <1>1 DEF CInv, HistoryExists
<1>5. Own' = Own \cup {w} /\ w \notin Own
  BY <1>3, <1>4 DEF Own, WatchCreated
<1>6. LateFor(w) \in [Request -> SUBSET Watch]
  BY LateTyped DEF CInv, IInv
<1>. QED
  BY <1>1, <1>3, <1>4, <1>5, <1>6

\* A pause, a resume or an archiving never adds to what counts against the plan.
LEMMA Moved ==
    ASSUME CInv, NEW w \in Watch, NEW s \in WatchMoves, SetWatchStatus(w, s)
    PROVE  /\ Own' \subseteq Own /\ watch[w] # None /\ \A v \in Watch : watch'[v] = None => watch[v] = None
           /\ \/ Active' \subseteq Active /\ late' = late
              \/ Active' \subseteq Active \cup {w} /\ late' = LateFor(w)
<1>0. watch \in [Watch -> WatchStatus \cup {None}] /\ s \in WatchStatus
  BY SubscriptionAssumption DEF CInv, IInv, TypeOK
<1>1. watch' = [watch EXCEPT ![w] = s] /\ watch[w] # None
  BY DEF SetWatchStatus
<1>2. \A v \in Watch : watch'[v] = None => watch[v] = None
  BY <1>0, <1>1, SubscriptionAssumption
<1>3. CASE s = "active" /\ watch[w] # "active" /\ resumed' = resumed \cup {w} /\ late' = LateFor(w)
  <2>1. Active' \subseteq Active \cup {w}
    BY <1>0, <1>1 DEF Active
  <2>2. Own' \subseteq Own
    BY <2>1, <1>3 DEF Own
  <2>. QED
    BY <1>1, <1>2, <1>3, <2>1, <2>2
<1>4. CASE s = "active" /\ watch[w] = "active" /\ UNCHANGED <<resumed, late>>
  <2>1. Active' = Active
    BY <1>0, <1>1, <1>4 DEF Active
  <2>. QED
    BY <1>1, <1>2, <1>4, <2>1 DEF Own
<1>5. CASE s # "active" /\ resumed' = resumed \ {w} /\ UNCHANGED late
  <2>1. Active' \subseteq Active \ {w}
    BY <1>0, <1>1, <1>5 DEF Active
  <2>2. Own' \subseteq Own
    BY <2>1, <1>5 DEF Own
  <2>. QED
    BY <1>1, <1>2, <1>5, <2>1, <2>2
<1>. QED
  BY <1>3, <1>4, <1>5 DEF SetWatchStatus

\* A watch made active too late for a call does not touch what it counted.
LEMMA LateIsLeftOut ==
    ASSUME TypeOK, NEW w \in Watch, NEW q \in Request, pc[q] # "idle",
           late'[q] = LateFor(w)[q], Active' \subseteq Active \cup {w}
    PROVE  Active' \ late'[q] \subseteq Active \ late[q]
  BY DEF LateFor

\* So a step leaves a count standing that leaves its call where it is.
LEMMA CountStands ==
    ASSUME CInv, TypeOK', [Next]_vars, NEW q \in Request, pc'[q] = pc[q], seen'[q] = seen[q],
           pc[q] # "idle" => Active' \ late'[q] \subseteq Active \ late[q]
    PROVE  CountHolds(q)'
<1>0. TypeOK /\ CountHolds(q)
  BY DEF CInv, IInv, CountsHold
<1>. SUFFICES ASSUME pc[q] # "idle" PROVE CountHolds(q)'
  BY DEF CountHolds
<1>1. /\ Cardinality(Active' \ late'[q]) <= Cardinality(Active \ late[q])
      /\ Cardinality(Active' \ late'[q]) \in Nat /\ Cardinality(Active \ late[q]) \in Nat
  <2>1. Active \ late[q] \in SUBSET Watch /\ Active' \ late'[q] \in SUBSET (Active \ late[q])
    BY DEF Active
  <2>2. Active' \ late'[q] \in SUBSET Watch
    BY <2>1
  <2>. QED
    BY <2>1, <2>2, WatchesCounted, WatchesOrdered
<1>2. seen[q] \in Nat /\ catalog[sub.plan].watches \in Nat /\ catalog'[sub'.plan].watches \in Nat
  <2>1. sub' \in SubType /\ catalog' \in [Plan -> Limits]
    BY <1>0 DEF TypeOK, SubType
  <2>. QED
    BY <1>0, <2>1, PlanTyped DEF TypeOK, SubType, Limits
<1>3. pc[q] = "fetching" /\ ~steered' => Cardinality(Active' \ late'[q]) < catalog'[sub'.plan].watches
  <2>. SUFFICES ASSUME pc[q] = "fetching", ~steered'
                PROVE  Cardinality(Active' \ late'[q]) < catalog'[sub'.plan].watches
    OBVIOUS
  <2>1. ~steered /\ catalog[sub.plan].watches <= catalog'[sub'.plan].watches
    BY <1>0, LimitGrows
  <2>2. Cardinality(Active \ late[q]) < catalog[sub.plan].watches
    BY <1>0, <2>1 DEF CountHolds
  <2>. QED
    BY <1>1, <1>2, <2>1, <2>2
<1>4. pc[q] \in {"counted", "changing"} => Cardinality(Active' \ late'[q]) <= seen[q]
  BY <1>0, <1>1, <1>2 DEF CountHolds
<1>5. pc[q] = "fetching" => seen[q] = 0
  BY <1>0 DEF CountHolds
<1>. QED
  BY <1>3, <1>4, <1>5 DEF CountHolds

\* The steps that are neither a creation nor a move of a watch.
Other(q) ==
    \/ ListForCreate(q) \/ AssertCanAdd(q) \/ WatchRefused(q)
    \/ (\E target \in Plan : ListForChange(q, target)) \/ ChangePlan(q)

Apart == UNCHANGED <<watch, resumed, pc, seen, late>>

LEMMA NextCases ==
    ASSUME [Next]_vars
    PROVE  \/ Apart
           \/ \E q \in Request : Other(q) \/ WatchCreated(q)
           \/ \E w \in Watch, s \in WatchMoves : SetWatchStatus(w, s)
<1>1. ASSUME \/ UNCHANGED vars \/ CreateRecipient \/ DeleteRecipient
             \/ RequestCancelAtPeriodEnd \/ UndoCancelAtPeriodEnd \/ IssueUpcomingInvoice
      PROVE  Apart
  BY <1>1 DEF Apart, vars, store, watches, calls, CreateRecipient, DeleteRecipient,
              RequestCancelAtPeriodEnd, UndoCancelAtPeriodEnd, IssueUpcomingInvoice
<1>2. ASSUME ForceSubscription \/ (\E p \in Plan : UpdatePlanCatalog(p)) PROVE Apart
  <2>1. UNCHANGED watches /\ UNCHANGED calls
    BY <1>2 DEF ForceSubscription, UpdatePlanCatalog
  <2>. QED
    BY <2>1 DEF Apart, watches, calls
<1>. QED
  BY <1>1, <1>2 DEF Next, Other

\* What such a step of a call leaves alone.
LEMMA OthersStand ==
    ASSUME TypeOK, NEW q \in Request, Other(q)
    PROVE  /\ UNCHANGED <<watch, resumed>> /\ late'[q] \subseteq late[q]
           /\ \A r \in Request \ {q} : pc'[r] = pc[r] /\ seen'[r] = seen[r] /\ late'[r] = late[r]
<1>0. TypeOK
  OBVIOUS
<1>1. CASE ListForCreate(q) \/ WatchRefused(q)
  BY <1>1 DEF TypeOK, ListForCreate, WatchRefused, Rests, Answers, store, watches
<1>2. CASE AssertCanAdd(q)
  BY <1>2 DEF TypeOK, AssertCanAdd, Rests, Answers, store, watches
<1>3. CASE \E target \in Plan : ListForChange(q, target)
  BY <1>3 DEF TypeOK, ListForChange, store, watches
<1>4. CASE ChangePlan(q)
  BY <1>4 DEF TypeOK, ChangePlan, Rests, Answers, watches
<1>. QED
  BY <1>1, <1>2, <1>3, <1>4 DEF Other

LEMMA HistoryKept ==
    ASSUME CInv, [Next]_vars PROVE HistoryExists'
<1>0. HistoryExists /\ TypeOK
  BY DEF CInv, IInv
<1>1. CASE Apart
  BY <1>0, <1>1 DEF Apart, HistoryExists
<1>2. ASSUME NEW q \in Request, Other(q) PROVE HistoryExists'
  BY <1>0, <1>2, OthersStand DEF HistoryExists
<1>3. ASSUME NEW q \in Request, WatchCreated(q) PROVE HistoryExists'
  <2>1. PICK w \in Watch : /\ watch[w] = None /\ watch' = [watch EXCEPT ![w] = "active"]
                           /\ late' = [LateFor(w) EXCEPT ![q] = {}]
    BY <1>3 DEF WatchCreated
  <2>2. resumed' = resumed /\ watch'[w] # None
    BY <1>0, <1>3, <2>1, SubscriptionAssumption DEF WatchCreated, WatchStatus, TypeOK
  <2>3. \A r \in Request : late'[r] \subseteq late[r] \cup {w}
    BY <2>1 DEF LateFor
  <2>4. \A v \in Watch : watch'[v] = None => watch[v] = None
    BY <1>0, <2>1, <2>2 DEF TypeOK
  <2>. QED
    BY <1>0, <2>2, <2>3, <2>4 DEF HistoryExists
<1>4. ASSUME NEW w \in Watch, NEW s \in WatchMoves, SetWatchStatus(w, s) PROVE HistoryExists'
  <2>1. resumed' \subseteq resumed \cup {w} /\ \A r \in Request : late'[r] \subseteq late[r] \cup {w}
    BY <1>4 DEF SetWatchStatus, LateFor
  <2>2. watch'[w] # None /\ \A v \in Watch : watch'[v] = None => watch[v] = None
    <3>1. s # None
      BY SubscriptionAssumption
    <3>. QED
      BY <1>0, <1>4, <3>1 DEF SetWatchStatus, TypeOK
  <2>. QED
    BY <1>0, <2>1, <2>2 DEF HistoryExists
<1>. QED
  BY <1>1, <1>2, <1>3, <1>4, NextCases

LEMMA CountsKept ==
    ASSUME CInv, TypeOK', [Next]_vars PROVE CountsHold'
<1>0. TypeOK /\ HistoryExists /\ CountsHold
  BY DEF CInv, IInv
<1>1. CASE Apart
  BY <1>1, CountStands DEF Apart, CountsHold, Active
<1>2. ASSUME NEW q \in Request, Other(q) PROVE CountsHold'
  <2>1. /\ UNCHANGED <<watch, resumed>>
        /\ \A r \in Request \ {q} : pc'[r] = pc[r] /\ seen'[r] = seen[r] /\ late'[r] = late[r]
    BY <1>0, <1>2, OthersStand
  <2>2. Active' = Active
    BY <2>1 DEF Active
  <2>3. ASSUME NEW r \in Request \ {q} PROVE CountHolds(r)'
    BY <2>1, <2>2, <2>3, CountStands
  <2>4. CountHolds(q)'
    <3>1. CASE ListForCreate(q) \/ \E target \in Plan : ListForChange(q, target)
      <4>1. late'[q] = late[q] /\ seen'[q] = Cardinality(Active) /\ pc'[q] \in {"counted", "changing"}
        BY <1>0, <3>1 DEF ListForCreate, ListForChange, TypeOK
      <4>2. Active \in SUBSET Watch /\ Active \ late[q] \in SUBSET Active
        BY DEF Active
      <4>3. Cardinality(Active \ late[q]) <= Cardinality(Active)
        BY <4>2, WatchesOrdered
      <4>. QED
        BY <2>2, <4>1, <4>3 DEF CountHolds
    <3>2. CASE AssertCanAdd(q) /\ CanAddWatchedTrademark(seen[q]) /\ pc'[q] = "fetching"
      <4>1. late'[q] = late[q] /\ seen'[q] = 0 /\ pc[q] = "counted" /\ UNCHANGED <<sub, catalog>>
        BY <1>0, <3>2 DEF AssertCanAdd, Rests, Answers, TypeOK, store, byOperators
      <4>2. Cardinality(Active \ late[q]) <= seen[q] /\ seen[q] < catalog[sub.plan].watches
        BY <1>0, <3>2, <4>1 DEF CountsHold, CountHolds, CanAddWatchedTrademark
      <4>3. /\ Cardinality(Active \ late[q]) \in Nat /\ seen[q] \in Nat
            /\ catalog[sub.plan].watches \in Nat
        <5>1. Active \ late[q] \in SUBSET Watch
          BY DEF Active
        <5>. QED
          BY <1>0, <5>1, WatchesCounted, PlanTyped DEF TypeOK
      <4>. QED
        BY <2>2, <3>2, <4>1, <4>2, <4>3 DEF CountHolds
    <3>3. CASE pc'[q] = "idle"
      BY <3>3 DEF CountHolds
    <3>. QED
      BY <1>0, <1>2, <3>1, <3>2, <3>3 DEF Other, AssertCanAdd, WatchRefused, ChangePlan, Rests, Answers, TypeOK
  <2>. QED
    BY <2>3, <2>4 DEF CountsHold
<1>3. ASSUME NEW q \in Request, WatchCreated(q) PROVE CountsHold'
  <2>1. pc'[q] = "idle" /\ \A r \in Request \ {q} : pc'[r] = pc[r] /\ seen'[r] = seen[r]
    BY <1>0, <1>3 DEF WatchCreated, Answers, TypeOK
  <2>2. PICK w \in Watch : /\ Active' = Active \cup {w}
                           /\ \A r \in Request : r # q => late'[r] = LateFor(w)[r]
    BY <1>3, Created
  <2>3. ASSUME NEW r \in Request \ {q} PROVE CountHolds(r)'
    <3>1. pc[r] # "idle" => Active' \ late'[r] \subseteq Active \ late[r]
      BY <1>0, <2>2, LateIsLeftOut
    <3>. QED
      BY <2>1, <3>1, CountStands
  <2>4. CountHolds(q)'
    BY <2>1 DEF CountHolds
  <2>. QED
    BY <2>3, <2>4 DEF CountsHold
<1>4. ASSUME NEW w \in Watch, NEW s \in WatchMoves, SetWatchStatus(w, s) PROVE CountsHold'
  <2>1. UNCHANGED <<pc, seen>>
    BY <1>4 DEF SetWatchStatus
  <2>2. ASSUME NEW r \in Request, pc[r] # "idle" PROVE Active' \ late'[r] \subseteq Active \ late[r]
    <3>1. CASE Active' \subseteq Active /\ late' = late
      BY <3>1
    <3>2. CASE Active' \subseteq Active \cup {w} /\ late' = LateFor(w)
      BY <1>0, <2>2, <3>2, LateIsLeftOut
    <3>. QED
      BY <1>4, <3>1, <3>2, Moved
  <2>. QED
    BY <2>1, <2>2, CountStands DEF CountsHold
<1>. QED
  BY <1>1, <1>2, <1>3, <1>4, NextCases

LEMMA OwnCounted == Own \in SUBSET Watch /\ Cardinality(Own) \in Nat /\ Cardinality(Own) <= Cardinality(Active)
<1>1. Active \in SUBSET Watch /\ Own \in SUBSET Active /\ Own \in SUBSET Watch
  BY DEF Own, Active
<1>. QED
  BY <1>1, WatchesCounted, WatchesOrdered

\* A step that adds nothing to what counts, and lets no further call in once the plan is full.
LEMMA PaidStands ==
    ASSUME WInv, TypeOK', [Next]_vars, Own' \subseteq Own,
           ~steered => \A n \in Nat :
               catalog[sub.plan].watches <= n /\ n <= Cardinality(Own) => Admitted(n)' \subseteq Admitted(n)
    PROVE  OverrunPaid'
<1>. SUFFICES ASSUME ~steered', NEW n \in Nat, catalog'[sub'.plan].watches <= n, n <= Cardinality(Own')
              PROVE  Cardinality(Own') + Cardinality(Admitted(n)') < n + Cardinality(Request)
  BY DEF OverrunPaid
<1>1. ~steered /\ catalog[sub.plan].watches <= catalog'[sub'.plan].watches
  BY LimitGrows DEF WInv, CInv, IInv
<1>2. catalog[sub.plan].watches \in Nat /\ catalog'[sub'.plan].watches \in Nat
  <2>1. sub' \in SubType /\ catalog' \in [Plan -> Limits]
    BY DEF TypeOK, SubType
  <2>. QED
    BY <2>1, PlanTyped DEF WInv, CInv, IInv, SubType, Limits
<1>3. Cardinality(Own') <= Cardinality(Own) /\ Cardinality(Own) \in Nat /\ Cardinality(Own') \in Nat
  <2>1. Own \in SUBSET Watch /\ Own' \in SUBSET Own /\ Own' \in SUBSET Watch
    BY OwnCounted
  <2>. QED
    BY <2>1, WatchesCounted, WatchesOrdered
<1>4. catalog[sub.plan].watches <= n /\ n <= Cardinality(Own)
  BY <1>1, <1>2, <1>3
<1>5. /\ Cardinality(Admitted(n)') <= Cardinality(Admitted(n))
      /\ Cardinality(Admitted(n)') \in Nat /\ Cardinality(Admitted(n)) \in Nat
  <2>1. Admitted(n)' \in SUBSET Admitted(n) /\ Admitted(n) \in SUBSET Request
    BY <1>1, <1>4 DEF Admitted
  <2>2. Admitted(n)' \in SUBSET Request
    BY <2>1
  <2>. QED
    BY <2>1, <2>2, RequestsCounted, RequestsOrdered
<1>6. Cardinality(Own) + Cardinality(Admitted(n)) < n + Cardinality(Request)
  BY <1>1, <1>4 DEF WInv, OverrunPaid
<1>7. Cardinality(Request) \in Nat
  BY SubscriptionAssumption, FS_CardinalityType
<1>. QED
  BY <1>3, <1>5, <1>6, <1>7

\* A creation adds one to what counts, and uses up one call that had been let through.
LEMMA CreationPays ==
    ASSUME WInv, TypeOK', [Next]_vars, NEW q \in Request, WatchCreated(q) PROVE OverrunPaid'
<1>. SUFFICES ASSUME ~steered', NEW n \in Nat, catalog'[sub'.plan].watches <= n, n <= Cardinality(Own')
              PROVE  Cardinality(Own') + Cardinality(Admitted(n)') < n + Cardinality(Request)
  BY DEF OverrunPaid
<1>0. TypeOK /\ CInv /\ CountHolds(q)
  BY DEF WInv, CInv, IInv, CountsHold
<1>1. ~steered /\ catalog[sub.plan].watches <= n
  BY <1>0 DEF WatchCreated, byOperators
<1>2. Cardinality(Own') = Cardinality(Own) + 1 /\ Cardinality(Own) \in Nat
  <2>1. PICK w \in Watch : Own' = Own \cup {w} /\ w \notin Own
    BY <1>0, Created
  <2>2. IsFiniteSet(Own)
    BY OwnCounted, WatchesCounted
  <2>. QED
    BY <2>1, <2>2, FS_AddElement, OwnCounted
<1>3. Admitted(n)' = Admitted(n) \ {q}
  BY <1>0 DEF Admitted, WatchCreated, Answers, TypeOK
<1>4. q \in Admitted(n)
  <2>1. pc[q] = "fetching" /\ seen[q] = 0
    BY <1>0 DEF WatchCreated, CountHolds
  <2>2. 0 < n
    <3>1. Cardinality(Active \ late[q]) < catalog[sub.plan].watches
      BY <1>1, <2>1, <1>0 DEF CountHolds
    <3>2. Cardinality(Active \ late[q]) \in Nat /\ catalog[sub.plan].watches \in Nat
      <4>1. Active \ late[q] \in SUBSET Watch
        BY DEF Active
      <4>. QED
        BY <1>0, <4>1, WatchesCounted, PlanTyped
    <3>. QED
      BY <1>1, <3>1, <3>2
  <2>. QED
    BY <2>1, <2>2 DEF Admitted
<1>5. Admitted(n) \in SUBSET Request
  BY DEF Admitted
<1>6. /\ Cardinality(Admitted(n)') < Cardinality(Request)
      /\ Cardinality(Admitted(n)') = Cardinality(Admitted(n)) - 1
  BY <1>3, <1>4, <1>5, OneRequestLess
<1>7. Cardinality(Request) \in Nat /\ Cardinality(Admitted(n)) \in Nat /\ Cardinality(Admitted(n)') \in Nat
  <2>1. Cardinality(Request) \in Nat /\ Cardinality(Admitted(n)) \in Nat
    BY <1>5, RequestsCounted
  <2>2. Admitted(n) \ {q} \in SUBSET Request
    BY <1>5
  <2>. QED
    BY <1>3, <2>1, <2>2, RequestsCounted
<1>8. CASE n <= Cardinality(Own)
  <2>1. Cardinality(Own) + Cardinality(Admitted(n)) < n + Cardinality(Request)
    BY <1>1, <1>8 DEF WInv, OverrunPaid
  <2>. QED
    BY <1>2, <1>6, <1>7, <2>1
<1>9. CASE n = Cardinality(Own) + 1
  BY <1>2, <1>6, <1>7, <1>9
<1>. QED
  BY <1>2, <1>8, <1>9

LEMMA OverrunKept ==
    ASSUME WInv, TypeOK', [Next]_vars PROVE OverrunPaid'
<1>0. TypeOK /\ CInv
  BY DEF WInv, CInv, IInv
<1>1. CASE Apart
  <2>1. Own' = Own /\ \A n \in Nat : Admitted(n)' = Admitted(n)
    BY <1>1 DEF Apart, Own, Active, Admitted
  <2>. QED
    BY <2>1, PaidStands
<1>2. ASSUME NEW q \in Request, Other(q) PROVE OverrunPaid'
  <2>1. /\ UNCHANGED <<watch, resumed>>
        /\ \A r \in Request \ {q} : pc'[r] = pc[r] /\ seen'[r] = seen[r] /\ late'[r] = late[r]
    BY <1>0, <1>2, OthersStand
  <2>2. Own' = Own
    BY <2>1 DEF Own, Active
  <2>3. ASSUME ~steered, NEW n \in Nat, catalog[sub.plan].watches <= n, n <= Cardinality(Own),
               q \in Admitted(n)'
        PROVE  q \in Admitted(n)
    <3>1. CASE ListForCreate(q)
      <4>1. seen'[q] = Cardinality(Active) /\ Cardinality(Active) \in Nat
        BY <1>0, <3>1, WatchesCounted DEF ListForCreate, TypeOK, Active
      <4>2. Cardinality(Active) < n
        BY <2>3, <4>1 DEF Admitted
      <4>. QED
        BY <2>3, <4>1, <4>2, OwnCounted
    <3>2. CASE AssertCanAdd(q)
      <4>1. pc[q] = "counted" /\ pc'[q] # "idle"
        BY <2>3, <3>2 DEF Admitted, AssertCanAdd
      <4>2. CanAddWatchedTrademark(seen[q])
        BY <1>0, <3>2, <4>1 DEF AssertCanAdd, Rests, Answers, TypeOK
      <4>3. seen[q] < catalog[sub.plan].watches /\ seen[q] \in Nat /\ catalog[sub.plan].watches \in Nat
        BY <1>0, <4>2, PlanTyped DEF CanAddWatchedTrademark, TypeOK
      <4>4. seen[q] < n
        BY <2>3, <4>3
      <4>. QED
        BY <4>1, <4>4 DEF Admitted
    <3>3. CASE pc'[q] \in {"idle", "changing"}
      BY <2>3, <3>3 DEF Admitted
    <3>. QED
      BY <1>0, <1>2, <3>1, <3>2, <3>3
         DEF Other, WatchRefused, ListForChange, ChangePlan, Rests, Answers, TypeOK
  <2>4. ASSUME ~steered, NEW n \in Nat, catalog[sub.plan].watches <= n, n <= Cardinality(Own)
        PROVE  Admitted(n)' \subseteq Admitted(n)
    <3>. SUFFICES ASSUME NEW r \in Request, r \in Admitted(n)' PROVE r \in Admitted(n)
      BY DEF Admitted
    <3>1. CASE r = q
      BY <2>3, <2>4, <3>1
    <3>2. CASE r # q
      BY <2>1, <3>2 DEF Admitted
    <3>. QED
      BY <3>1, <3>2
  <2>. QED
    BY <2>2, <2>4, PaidStands
<1>3. ASSUME NEW q \in Request, WatchCreated(q) PROVE OverrunPaid'
  BY <1>3, CreationPays
<1>4. ASSUME NEW w \in Watch, NEW s \in WatchMoves, SetWatchStatus(w, s) PROVE OverrunPaid'
  <2>1. Own' \subseteq Own
    BY <1>0, <1>4, Moved
  <2>2. \A n \in Nat : Admitted(n)' = Admitted(n)
    BY <1>4 DEF SetWatchStatus, Admitted
  <2>. QED
    BY <2>1, <2>2, PaidStands
<1>. QED
  BY <1>1, <1>2, <1>3, <1>4, NextCases

LEMMA NextWInv == WInv /\ [Next]_vars => WInv'
<1>. SUFFICES ASSUME WInv, [Next]_vars PROVE WInv'
  OBVIOUS
<1>1. CInv /\ IInv'
  BY NextIInv DEF WInv, CInv
<1>2. TypeOK'
  BY <1>1 DEF IInv
<1>. QED
  BY <1>1, <1>2, HistoryKept, CountsKept, OverrunKept DEF WInv, CInv

LEMMA CountsInductive == Spec => []WInv
  BY InitWInv, NextWInv, PTL DEF Spec

\* However many calls overlap, and whatever is resumed meanwhile: the watches that were
\* not resumed go beyond the plan by less than the number of calls.
THEOREM OverrunIsBounded == Spec => []OverrunWithinCalls
<1>1. WInv => OverrunWithinCalls
  <2>. SUFFICES ASSUME WInv, ~steered
                PROVE  Cardinality(Own) < catalog[sub.plan].watches + Cardinality(Request)
    BY DEF OverrunWithinCalls, Own
  <2>. DEFINE n == catalog[sub.plan].watches
  <2>1. n \in Nat /\ Cardinality(Own) \in Nat
    BY PlanTyped, OwnCounted DEF WInv, CInv, IInv
  <2>2. Cardinality(Request) \in Nat /\ Cardinality(Request) > 0
    BY SubscriptionAssumption, FS_CardinalityType, FS_EmptySet
  <2>3. Cardinality(Admitted(n)) \in Nat
    BY RequestsCounted DEF Admitted
  <2>4. n <= Cardinality(Own) => Cardinality(Own) + Cardinality(Admitted(n)) < n + Cardinality(Request)
    BY <2>1 DEF WInv, OverrunPaid
  <2>. HIDE DEF n
  <2>5. Cardinality(Own) < n + Cardinality(Request)
    BY <2>1, <2>2, <2>3, <2>4
  <2>. QED
    BY <2>5 DEF n
<1>. QED
  BY <1>1, CountsInductive, PTL

\* And each call answers for what it counted, a creation and a downgrade alike: only what
\* was made active since may be too much.
THEOREM CountsAnswer == Spec => CountsAnswerFor
<1>1. ASSUME WInv, TypeOK', [Next]_vars, NEW q \in Request, pc[q] = "fetching", pc'[q] = "idle",
             watch' # watch, ~steered
      PROVE  Cardinality(Active' \ late[q]) <= catalog[sub.plan].watches
  <2>0. TypeOK /\ CInv /\ CountHolds(q)
    BY <1>1 DEF WInv, CInv, IInv, CountsHold
  <2>1. WatchCreated(q)
    <3>1. ~Apart
      BY <1>1 DEF Apart
    <3>2. \A r \in Request : ~Other(r)
      BY <1>1, <2>0, OthersStand
    <3>3. \A w \in Watch, s \in WatchMoves : ~SetWatchStatus(w, s)
      BY <1>1 DEF SetWatchStatus
    <3>4. \A r \in Request : WatchCreated(r) => r = q
      BY <1>1, <2>0 DEF WatchCreated, Answers, TypeOK
    <3>. QED
      BY <1>1, <3>1, <3>2, <3>3, <3>4, NextCases
  <2>2. PICK w \in Watch : Active' = Active \cup {w} /\ w \notin Active /\ w \notin late[q]
    BY <2>0, <2>1, Created
  <2>3. Active' \ late[q] = (Active \ late[q]) \cup {w} /\ w \notin Active \ late[q]
    BY <2>2
  <2>4. IsFiniteSet(Active \ late[q]) /\ Cardinality(Active \ late[q]) \in Nat
    <3>1. Active \ late[q] \in SUBSET Watch
      BY DEF Active
    <3>. QED
      BY <3>1, WatchesCounted
  <2>5. Cardinality(Active' \ late[q]) = Cardinality(Active \ late[q]) + 1
    BY <2>3, <2>4, FS_AddElement
  <2>6. Cardinality(Active \ late[q]) < catalog[sub.plan].watches /\ catalog[sub.plan].watches \in Nat
    BY <1>1, <2>0, PlanTyped DEF CountHolds
  <2>. QED
    BY <2>4, <2>5, <2>6
<1>2. ASSUME WInv, TypeOK', [Next]_vars, NEW q \in Request, pc[q] = "changing", pc'[q] = "idle",
             sub'.pending \notin {sub.pending, None}
      PROVE  Cardinality(Active \ late[q]) <= catalog[sub'.pending].watches
  <2>0. TypeOK /\ CInv /\ CountHolds(q)
    BY <1>2 DEF WInv, CInv, IInv, CountsHold
  <2>1. ChangePlan(q)
    <3>1. ~Apart
      BY <1>2 DEF Apart
    <3>2. \A r \in Request : Other(r) => r = q
      BY <1>2, <2>0, OthersStand
    <3>3. \A w \in Watch, s \in WatchMoves : ~SetWatchStatus(w, s)
      BY <1>2 DEF SetWatchStatus
    <3>4. \A r \in Request : ~WatchCreated(r)
      BY <1>2, <2>0 DEF WatchCreated, Answers, TypeOK
    <3>5. Other(q)
      BY <1>2, <3>1, <3>2, <3>3, <3>4, NextCases
    <3>. QED
      BY <1>2, <3>5 DEF Other, ListForCreate, AssertCanAdd, WatchRefused, ListForChange
  <2>2. sub \in SubType /\ want[q] \in Plan /\ seen[q] \in Nat /\ catalog[want[q]].watches \in Nat
    BY <1>2, <2>0 DEF TypeOK, SubType, Limits
  <2>3. sub'.pending = want[q] /\ seen[q] <= catalog[want[q]].watches
    BY <1>2, <2>1, <2>2 DEF ChangePlan, Changed, FitsIn, SubType
  <2>4. Cardinality(Active \ late[q]) <= seen[q] /\ Cardinality(Active \ late[q]) \in Nat
    <3>1. Active \ late[q] \in SUBSET Watch
      BY DEF Active
    <3>. QED
      BY <1>2, <2>0, <3>1, WatchesCounted DEF CountHolds
  <2>. QED
    BY <2>2, <2>3, <2>4
<1>3. WInv /\ TypeOK' /\ [Next]_vars =>
          /\ [\A q \in Request : pc[q] = "fetching" /\ pc'[q] = "idle" /\ watch' # watch /\ ~steered =>
                  Cardinality(Active' \ late[q]) <= catalog[sub.plan].watches]_vars
          /\ [\A q \in Request :
                  pc[q] = "changing" /\ pc'[q] = "idle" /\ sub'.pending \notin {sub.pending, None} =>
                  Cardinality(Active \ late[q]) <= catalog[sub'.pending].watches]_vars
  BY <1>1, <1>2
<1>4. WInv => TypeOK
  BY DEF WInv, CInv, IInv
<1>. QED
  BY <1>3, <1>4, CountsInductive, PTL DEF Spec, CountsAnswerFor, CreationFits, DowngradeFits
===============================================================================
