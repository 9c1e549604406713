-------------------------------- MODULE Billing --------------------------------
(***************************************************************************)
(* Invoices, Stripe Checkout and name research orders of the API: the      *)
(* handlers of routes/billing.ts, routes/invoices.ts and                   *)
(* routes/name-research.ts over the invoices of the OrgBillingChatStore    *)
(* and the orders, credits and catalog of the NameResearchStore.  A        *)
(* handler is one step up to its only await, the creation of a checkout    *)
(* session; the provider's webhook may come late, twice and out of order.  *)
(***************************************************************************)
EXTENDS Naturals, Sequences, FiniteSets, SequencesExt

CONSTANTS
    Payers,             \* organizations
    Orderable,          \* codes of the register catalog
    Searched,           \* the register a name research really searches (BOIP)
    ScopeLists,         \* the scopes of requests, sequences of registers
    CatalogEntries,     \* prices and connector states the catalog may hold
    FirstPrice,         \* the catalog's price at start
    FreeCredits,        \* credits an organization starts with
    HitsFound,          \* hits of one search above the order's threshold
    MaxInvoices, MaxOrders, MaxSessions,    \* bounds on what is created
    MaxCheckouts        \* bound on the requests in flight

ConnectorStates == {"live", "coming_soon", "disabled"}

ASSUME BillingAssumption ==
    /\ IsFiniteSet(Payers)
    /\ IsFiniteSet(Orderable) /\ Searched \in Orderable
    /\ ScopeLists \subseteq Seq(Orderable)
    /\ CatalogEntries \subseteq [price : Nat, state : ConnectorStates]
    /\ FirstPrice \in Nat
    /\ FreeCredits \in Nat /\ HitsFound \in Nat
    /\ MaxInvoices \in Nat /\ MaxOrders \in Nat /\ MaxSessions \in Nat
    /\ MaxCheckouts \in Nat

VARIABLES
    provider,   \* whether the deployment has a payment provider configured
    listed,     \* per register its price and the state of its connector
    credits,    \* per organization its balance, and how many it used
    orders,     \* name research orders, in order of creation
    invoices,   \* invoices, in order of creation
    sessions,   \* the provider's checkout sessions
    checkouts,  \* requests waiting for a session, in order of their await
    billingLog  \* recordBillingEvent: the sessions whose event was received

billingVars == <<provider, listed, credits, orders, invoices, sessions, checkouts, billingLog>>

InvoiceStates   == {"draft", "open", "paid"}
OrderStates     == {"awaiting_payment", "queued", "running", "completed"}
StepStates      == {"pending", "pending_connector", "completed"}
Purposes        == {"pay_invoice", "name_research_order", "add_payment_method"}

\* An absent invoice or order of a session or event.
NoRef == 0

Catalog  == [Orderable -> [price : Nat, state : ConnectorStates]]
Invoice  == [payer : Payers, status : InvoiceStates, amount : Nat,
             order : Nat, note : {"none", "checkout", "operator"}]
Order    == [payer : Payers, scopes : Seq(Orderable), status : OrderStates,
             price : Nat, credit : BOOLEAN, paid : BOOLEAN,
             steps : [Orderable -> StepStates \cup {"absent"}], hits : Nat]
Session  == [payer : Payers, purpose : Purposes, invoice : Nat, order : Nat,
             amount : Nat, paid : BOOLEAN]
Checkout == [payer : Payers, purpose : Purposes, invoice : Nat, order : Nat,
             amount : Nat]

BillingTypeOK ==
    /\ provider \in BOOLEAN
    /\ listed \in Catalog
    /\ credits \in [Payers -> [balance : Nat, used : Nat]]
    /\ orders \in Seq(Order) /\ invoices \in Seq(Invoice)
    /\ sessions \in Seq(Session) /\ checkouts \in Seq(Checkout)
    /\ billingLog \subseteq Nat

\* Every organization is seeded with one open invoice; getCredits gives an
\* organization its balance when it is first asked for.
BillingInit ==
    /\ provider \in BOOLEAN
    /\ listed = [r \in Orderable |->
                   [price |-> FirstPrice,
                    state |-> IF r = Searched THEN "live" ELSE "coming_soon"]]
    /\ credits = [p \in Payers |-> [balance |-> FreeCredits, used |-> 0]]
    /\ orders = <<>>
    /\ invoices = SetToSeq({[payer |-> p, status |-> "open", amount |-> FirstPrice,
                             order |-> NoRef, note |-> "none"] : p \in Payers})
    /\ sessions = <<>> /\ checkouts = <<>>
    /\ billingLog = {}

-----------------------------------------------------------------------------
\* Mutant: the note is overwritten by an event that has none.
OverwrittenNote(i, note) == [i EXCEPT !.status = "paid", !.note = note]

\* markInvoicePaid asks nothing of the invoice's status, and keeps its note
\* when it is given none.
PaidInvoice(i, note) ==
    [i EXCEPT !.status = "paid", !.note = IF note = "none" THEN @ ELSE note]

MarkInvoicePaid(n, note) ==
    invoices' = [invoices EXCEPT ![n] = PaidInvoice(@, note)]

\* What the catalog offers for research: quoteNameResearch refuses any other
\* register, and validateNameResearchScopes a register that is named twice.
Quotable(scopes) ==
    /\ Len(scopes) > 0 /\ IsInjective(scopes)
    /\ \A r \in ToSet(scopes) : listed[r].state \in {"live", "coming_soon"}

\* What a catalog asks for a list of registers, and what the one of now asks.
QuoteAt(catalog, scopes) == SumFunction([i \in DOMAIN scopes |-> catalog[scopes[i]].price])
Quote(scopes) == QuoteAt(listed, scopes)

\* The progress steps of a new order.
NewSteps(scopes) ==
    [r \in Orderable |->
        IF r \notin ToSet(scopes) THEN "absent"
        ELSE IF listed[r].state = "live" THEN "pending" ELSE "pending_connector"]

\* runOrder: searches the one register it can, and completes the order
\* whatever was searched.
RunSteps(steps) ==
    [r \in Orderable |->
        IF steps[r] \in {"absent", "pending_connector"} THEN steps[r]
        ELSE IF r = Searched THEN "completed" ELSE "pending_connector"]

RunOrder(o) ==
    IF o.status \notin {"queued", "running"} THEN o
    ELSE [o EXCEPT !.status = "completed", !.steps = RunSteps(@),
                   !.hits = IF o.steps[Searched] \in {"absent", "pending_connector"}
                            THEN 0 ELSE HitsFound]

\* NameResearchStore.markPaid: queued whatever it was, and run again.
PaidOrder(o) == RunOrder([o EXCEPT !.status = "queued", !.paid = TRUE])

NewOrder(p, scopes, credit) ==
    [payer |-> p, scopes |-> scopes, credit |-> credit, paid |-> FALSE,
     status |-> IF credit THEN "queued" ELSE "awaiting_payment",
     price |-> IF credit THEN 0 ELSE Quote(scopes),
     steps |-> NewSteps(scopes), hits |-> 0]

UsesCredit(p, wanted) == wanted /\ credits[p].balance > 0

\* Mutant: the credit is consumed before the order is validated.
ChargedFirst(p, scopes) ==
    /\ Len(orders) < MaxOrders /\ UsesCredit(p, TRUE)
    /\ credits' = [credits EXCEPT ![p].balance = @ - 1, ![p].used = @ + 1]
    /\ orders' = IF Quotable(scopes) THEN Append(orders, RunOrder(NewOrder(p, scopes, TRUE)))
                 ELSE orders
    /\ UNCHANGED <<provider, listed, invoices, sessions, checkouts, billingLog>>

\* POST /name-research/orders with a credit: run at once, no invoice.
OrderOnCredit(p, scopes) ==
    /\ Len(orders) < MaxOrders
    /\ Quotable(scopes) /\ UsesCredit(p, TRUE)
    /\ credits' = [credits EXCEPT ![p].balance = @ - 1, ![p].used = @ + 1]
    /\ orders' = Append(orders, RunOrder(NewOrder(p, scopes, TRUE)))
    /\ UNCHANGED <<provider, listed, invoices, sessions, checkouts, billingLog>>

\* The order's invoice: createInvoice with the quoted total.
ResearchInvoice(p, scopes) ==
    [payer |-> p, status |-> "open", amount |-> Quote(scopes),
     order |-> Len(orders) + 1, note |-> "none"]

\* The same without credit: an open invoice, and a checkout session for its
\* amount.
OrderForMoney(p, scopes, wanted) ==
    /\ provider
    /\ Len(orders) < MaxOrders /\ Len(invoices) < MaxInvoices /\ Len(checkouts) < MaxCheckouts
    /\ Quotable(scopes) /\ ~UsesCredit(p, wanted)
    /\ orders' = Append(orders, NewOrder(p, scopes, FALSE))
    /\ invoices' = Append(invoices, ResearchInvoice(p, scopes))
    /\ checkouts' = Append(checkouts,
            [payer |-> p, purpose |-> "name_research_order", invoice |-> Len(invoices) + 1,
             order |-> Len(orders) + 1, amount |-> Quote(scopes)])
    /\ UNCHANGED <<provider, listed, credits, sessions, billingLog>>

\* Without provider the order is run and its invoice marked paid at once.
OrderUnbilled(p, scopes, wanted) ==
    /\ ~provider
    /\ Len(orders) < MaxOrders /\ Len(invoices) < MaxInvoices
    /\ Quotable(scopes) /\ ~UsesCredit(p, wanted)
    /\ orders' = Append(orders, PaidOrder(NewOrder(p, scopes, FALSE)))
    /\ invoices' = Append(invoices, PaidInvoice(ResearchInvoice(p, scopes), "checkout"))
    /\ UNCHANGED <<provider, listed, credits, sessions, checkouts, billingLog>>

\* POST /billing/checkout for an invoice of the organization's own that is open.
PayInvoice(p, n) ==
    /\ provider /\ Len(checkouts) < MaxCheckouts
    /\ invoices[n].payer = p /\ invoices[n].status = "open"
    /\ checkouts' = Append(checkouts,
            [payer |-> p, purpose |-> "pay_invoice", invoice |-> n, order |-> NoRef,
             amount |-> invoices[n].amount])
    /\ UNCHANGED <<provider, listed, credits, orders, invoices, sessions, billingLog>>

\* The same to save a payment method: a session of its own kind, no invoice.
AddPaymentMethod(p) ==
    /\ provider /\ Len(checkouts) < MaxCheckouts
    /\ checkouts' = Append(checkouts,
            [payer |-> p, purpose |-> "add_payment_method", invoice |-> NoRef,
             order |-> NoRef, amount |-> 0])
    /\ UNCHANGED <<provider, listed, credits, orders, invoices, sessions, billingLog>>

\* createCheckoutSession: the session carries the request's metadata.  A
\* research session names its order only, an invoice session its invoice only.
SessionOf(c) ==
    [payer |-> c.payer, purpose |-> c.purpose, order |-> c.order, amount |-> c.amount,
     invoice |-> IF c.purpose = "pay_invoice" THEN c.invoice ELSE NoRef, paid |-> FALSE]

\* A session is there.  The order of a research request is now run and its
\* invoice marked paid; the customer has yet to see the checkout.
SessionCreated(k) ==
    LET c == checkouts[k] IN
    /\ Len(sessions) < MaxSessions
    /\ sessions' = Append(sessions, SessionOf(c))
    /\ checkouts' = RemoveAt(checkouts, k)
    /\ IF c.purpose = "name_research_order"
       THEN /\ orders' = [orders EXCEPT ![c.order] = PaidOrder(@)]
            /\ MarkInvoicePaid(c.invoice, "checkout")
       ELSE UNCHANGED <<orders, invoices>>
    /\ UNCHANGED <<provider, listed, credits, billingLog>>

\* The provider throws: the request fails, and what it created stays.
SessionFails(k) ==
    /\ checkouts' = RemoveAt(checkouts, k)
    /\ UNCHANGED <<provider, listed, credits, orders, invoices, sessions, billingLog>>

\* POST /invoices/:id/checkout, the demo's endpoint: paid without a session.
DemoCheckout(p, n) ==
    /\ invoices[n].payer = p
    /\ MarkInvoicePaid(n, "none")
    /\ UNCHANGED <<provider, listed, credits, orders, sessions, checkouts, billingLog>>

\* POST /platform/org/billing/.../mark-paid, with the note an operator must give.
OperatorMarksPaid(n) ==
    /\ MarkInvoicePaid(n, "operator")
    /\ UNCHANGED <<provider, listed, credits, orders, sessions, checkouts, billingLog>>

\* PATCH /platform/register-catalog: a price or the connector's state.
EditCatalog(r, entry) ==
    /\ listed' = [listed EXCEPT ![r] = entry]
    /\ UNCHANGED <<provider, credits, orders, invoices, sessions, checkouts, billingLog>>

\* The customer completes the provider's checkout.
CustomerPays(s) ==
    /\ ~sessions[s].paid
    /\ sessions' = [sessions EXCEPT ![s].paid = TRUE]
    /\ UNCHANGED <<provider, listed, credits, orders, invoices, checkouts, billingLog>>

\* Mutant: the event pays orders only.
WebhookForOrders(s) ==
    LET event == sessions[s] IN
    /\ s \in DOMAIN sessions /\ event.paid
    /\ billingLog' = billingLog \cup {s}
    /\ orders' = IF event.purpose = "name_research_order"
                 THEN [orders EXCEPT ![event.order] = PaidOrder(@)] ELSE orders
    /\ UNCHANGED <<provider, listed, credits, invoices, sessions, checkouts>>

\* applyWebhookEvent for the event of a completed session: recorded, then an
\* invoice or an order is marked paid.  The event may come any time later, and
\* again.
ApplyWebhook(s) ==
    LET event == sessions[s] IN
    /\ s \in DOMAIN sessions /\ event.paid
    /\ billingLog' = billingLog \cup {s}
    /\ IF event.purpose = "pay_invoice"
       THEN MarkInvoicePaid(event.invoice, "none") ELSE UNCHANGED invoices
    /\ IF event.purpose = "name_research_order"
       THEN orders' = [orders EXCEPT ![event.order] = PaidOrder(@)] ELSE UNCHANGED orders
    /\ UNCHANGED <<provider, listed, credits, sessions, checkouts>>

BillingNext ==
    \/ \E p \in Payers, scopes \in ScopeLists :
          \/ OrderOnCredit(p, scopes)
          \/ \E wanted \in BOOLEAN : OrderForMoney(p, scopes, wanted) \/ OrderUnbilled(p, scopes, wanted)
    \/ \E p \in Payers, n \in DOMAIN invoices : PayInvoice(p, n) \/ DemoCheckout(p, n)
    \/ \E p \in Payers : AddPaymentMethod(p)
    \/ \E k \in DOMAIN checkouts : SessionCreated(k) \/ SessionFails(k)
    \/ \E n \in DOMAIN invoices : OperatorMarksPaid(n)
    \/ \E r \in Orderable, entry \in CatalogEntries : EditCatalog(r, entry)
    \/ \E s \in DOMAIN sessions : CustomerPays(s) \/ ApplyWebhook(s)

BillingSpec == BillingInit /\ [][BillingNext]_billingVars

-----------------------------------------------------------------------------
\* The credits an organization used and those it has left are the ones it was
\* given, and each was used for one order: a refused order costs none
\* (createOrder quotes before it consumes).
CreditsConserved ==
    \A p \in Payers :
        /\ credits[p].balance + credits[p].used = FreeCredits
        /\ credits[p].used = Cardinality({n \in DOMAIN orders : orders[n].payer = p /\ orders[n].credit})

\* A research that was not on credit has one invoice, of the same organization
\* and the quoted amount, and every session or request for it asks that amount,
\* however the catalog changed meanwhile (routes/name-research.ts:71).
BilledAsQuoted ==
    /\ \A n \in DOMAIN orders : ~orders[n].credit =>
          LET own == {i \in DOMAIN invoices : invoices[i].order = n} IN
          /\ Cardinality(own) = 1
          /\ \A i \in own : /\ invoices[i].payer = orders[n].payer
                            /\ invoices[i].amount = orders[n].price
    /\ \A s \in ToSet(sessions) \cup ToSet(checkouts) :
          /\ s.purpose = "name_research_order" => s.amount = orders[s.order].price
          /\ s.purpose = "pay_invoice" =>
                s.amount = invoices[s.invoice].amount /\ s.payer = invoices[s.invoice].payer

\* A report of a research that was not on credit is there only with its invoice
\* paid: the two stores are changed in one step, on every path.
DeliveredIsPaid ==
    \A n \in DOMAIN orders :
        orders[n].status = "completed" /\ ~orders[n].credit =>
            \A i \in DOMAIN invoices : invoices[i].order = n => invoices[i].status = "paid"

\* Repeated, late and reordered payment events, and a second payment of the
\* same invoice, undo nothing: an invoice never goes back from paid, nor loses
\* an operator's note to an event, and a report that was delivered stays as it
\* is though its order is run again (org-store.ts:883).
RepeatsAreHarmless ==
    [][/\ \A i \in DOMAIN invoices :
            /\ invoices[i].status = "paid" => invoices'[i].status = "paid"
            /\ invoices[i].note # "none" => invoices'[i].note # "none"
       /\ \A n \in DOMAIN orders : orders[n].status = "completed" =>
            /\ orders'[n].status = "completed"
            /\ orders'[n].steps = orders[n].steps /\ orders'[n].hits = orders[n].hits]_billingVars

\* Session s is there, and for an invoice.
ForInvoice(s) == s \in DOMAIN sessions /\ sessions[s].invoice # NoRef

\* What a customer paid for is settled: the webhook's events are delivered
\* until they are answered, and the handler never refuses one it can read.
PaymentSettles ==
    \A s \in 1..MaxSessions :
        (ForInvoice(s) /\ sessions[s].paid)
        ~> (ForInvoice(s) /\ invoices[sessions[s].invoice].status = "paid")

\* The books of name research close, whatever order credits, checkouts, edits of the catalog,
\* payments and runs come in: credits are conserved, a research is billed once and as quoted,
\* and one that is delivered is paid.
BooksClose == CreditsConserved /\ BilledAsQuoted /\ DeliveredIsPaid
=============================================================================
