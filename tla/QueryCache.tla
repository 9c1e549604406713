----------------------------- MODULE QueryCache -----------------------------
(***************************************************************************)
(* What the web application shows of the server: every screen observes     *)
(* queries, kept in one cache by key, and offers mutations, which write    *)
(* facts on the server and, once answered, invalidate the queries whose    *)
(* key starts with one of theirs.  A query neither reads nor moves another *)
(* one, so that one query and one fact it shows are followed at a time.    *)
(***************************************************************************)
EXTENDS Naturals, Sequences, FiniteSets

Keys == INSTANCE SequencesExt

CONSTANT MaxVersion   \* bound: how often the fact is written

ASSUME CacheAssumption == MaxVersion \in Nat

VARIABLES
    followed, \* the query followed, and the fact: one of those the query shows
    screen,   \* the screen that is open, as the followed query and fact see it
    fact,     \* what the server holds: its version, and who wrote it
    entry,    \* the query's cache entry
    sent      \* the mutation that is not answered yet, one at a time

cacheVars == <<followed, screen, fact, entry, sent>>

Unknown == MaxVersion + 1   \* no data yet
NotSent == [effect |-> [by |-> "nothing", writes |-> FALSE, tells |-> FALSE], applied |-> FALSE]

Query(k, facts) == [key |-> k, shows |-> facts]
Mutation(name, facts, tells) == [name |-> name, writes |-> facts, tells |-> tells]

\* An opened match, watch, order, thread or organization: one stands for each kind.
Id == "id"

-----------------------------------------------------------------------------
\* The composables, one record of queries and mutations for each file of api/.

AllMatches == <<"matches", "ALL">>
PossibleMatches == <<"matches", "possible">>
ActiveMatches == <<"matches", "active">>
OneMatch == <<"matches", "detail", Id>>
Dashboard == <<"dashboard">>
DeadlineList == <<"deadlines">>
ArchiveList == <<"archive">>

InvalidateMatch == {OneMatch, <<"matches">>, Dashboard, DeadlineList, ArchiveList}

MatchesApi == [
    queries |-> {Query(k, {"matches"}) :
        k \in {AllMatches, PossibleMatches, ActiveMatches, OneMatch}},
    mutations |-> {Mutation(name, {"matches"}, InvalidateMatch) :
        name \in {"updateMatchStatus", "acceptMatch", "rejectMatch", "archiveMatch", "addMatchNote",
                  "requestAdvisorReview"}}]

AllWatches == <<"watched-trademarks">>
OneWatch == <<"watched-trademarks", Id>>
WatchOfMatch == <<"watched-trademarks", "">>   \* its id is not known when the dossier is set up

WatchesApi == [
    queries |-> {Query(k, {"watches"}) : k \in {AllWatches, OneWatch, WatchOfMatch}},
    mutations |->
        {Mutation("createWatch", {"watches"}, {AllWatches, Dashboard}),
         Mutation("updateWatchSettings", {"watches"}, {OneWatch, AllWatches}),
         Mutation("setWatchStatus", {"watches", "archived"},
                  {AllWatches, OneWatch, Dashboard, ArchiveList}),
         Mutation("lookupWatch", {}, {})}]

ArchiveApi == Query(ArchiveList, {"matches", "archived"})
DeadlinesApi == Query(DeadlineList, {"matches"})

Profile == <<"organization", "profile">>
MembersList == <<"organization", "members">>

OrganizationApi == [
    queries |-> {Query(Profile, {"profile"}), Query(MembersList, {"members"})},
    mutations |->
        {Mutation("updateProfile", {"profile"}, {Profile}), Mutation("parseAddress", {}, {})}
        \cup {Mutation(name, {"members"}, {MembersList}) :
                  name \in {"createMember", "updateMember", "removeMember"}}]

RecipientsList == <<"notification-recipients">>

RecipientsApi == [
    queries |-> {Query(RecipientsList, {"recipients"})},
    mutations |-> {Mutation(name, {"recipients"}, {RecipientsList}) :
        name \in {"createRecipient", "updateRecipient", "deleteRecipient"}}]

Settings == <<"settings">>

SettingsApi == [
    queries |-> {Query(Settings, {"settings"})},
    mutations |-> {Mutation("updateSettings", {"settings"}, {Settings})}]

CurrentSubscription == <<"subscription">>
Plans == <<"subscription", "plans">>

SubscriptionApi == [
    queries |-> {Query(CurrentSubscription, {"subscription", "plans"}), Query(Plans, {"plans"})},
    mutations |-> {Mutation(name, {"subscription"}, {CurrentSubscription}) :
        name \in {"changePlan", "cancelAtPeriodEnd", "undoCancelAtPeriodEnd"}}]

Invoices == <<"invoices">>

\* Paying redirects to the provider: the invoice changes when its webhook comes in.
InvoicesApi == Query(Invoices, {"invoices"})
BillingApi == Mutation("billingCheckout", {}, {})

Threads == <<"chat", "threads">>
OneThread == <<"chat", "threads", "">>   \* no thread is selected when the page is set up

ChatApi == [
    queries |-> {Query(Threads, {"threads"}), Query(OneThread, {"threads"})},
    mutations |->
        {Mutation("createThread", {"threads"}, {Threads}),
         Mutation("sendMessage", {"threads"}, {<<"chat", "threads", Id>>, Threads})}]

Orders == <<"name-research", "orders">>
OneOrder == <<"name-research", "order", Id>>
RegisterList == <<"name-research", "registers">>
RegisterCatalog == <<"platform", "register-catalog">>

NameResearchApi == [
    queries |->
        {Query(Orders, {"orders"}), Query(OneOrder, {"orders"}), Query(RegisterList, {"catalog"}),
         Query(<<"name-research", "credits">>, {"credits"}), Query(RegisterCatalog, {"catalog"})},
    mutations |->
        {Mutation("quote", {}, {}),
         Mutation("createOrder", {"orders", "credits", "invoices"},
                  {<<"name-research">>, <<"platform", "name-research">>})}]

InApp == <<"notifications", "in-app">>

\* The bell and the inbox share a query and both mark a notification as read.
Notifications == [
    queries |-> {Query(InApp, {"inapp"})},
    mutations |-> {Mutation("markRead", {"inapp"}, {InApp})}]

Organizations == <<"platform", "organizations">>
OneOrganization == <<"platform", "organizations", Id>>
OrgThread == <<"platform", "org", "thread", Id, "none">>   \* none is selected at setup
PlatformPlans == <<"platform", "plans">>
PlatformNotifications == <<"platform", "notifications">>
PlatformBilling == <<"platform", "billing">>
PlatformThreads == <<"platform", "chat", "threads">>

PlatformOrgQueries ==
    {Query(Organizations, {"profile", "subscription", "watches", "members"}),
     Query(OneOrganization,
           {"profile", "subscription", "members", "recipients", "invoices", "threads", "watches",
            "matches", "orders", "inapp"}),
     Query(PlatformPlans, {"plans"}),
     Query(PlatformNotifications, {"inapp"}),
     Query(OrgThread, {"threads"})}

InvalidateOrg == {OneOrganization, Organizations}

PlatformOrgMutations ==
    {Mutation("updatePlan", {"plans"}, {PlatformPlans}),
     Mutation("sendOrgMessage", {"threads"}, {PlatformThreads}),
     Mutation("markInvoicePaid", {"invoices"}, InvalidateOrg \cup {PlatformBilling}),
     Mutation("forceSubscription", {"subscription"}, InvalidateOrg),
     Mutation("sendNotification", {"inapp"}, {PlatformNotifications})}

PlatformOrgEdits ==
    {Mutation("updateOrgProfile", {"profile"}, InvalidateOrg)}
    \cup {Mutation(name, {"members"}, InvalidateOrg) :
              name \in {"createOrgMember", "updateOrgMember", "removeOrgMember"}}

PlatformOrgSettings ==
    {Mutation(name, {"recipients"}, InvalidateOrg) :
         name \in {"createOrgRecipient", "updateOrgRecipient", "deleteOrgRecipient"}}
    \cup {Mutation(name, {"watches"}, InvalidateOrg) :
              name \in {"updateOrgWatchSettings", "setOrgWatchStatus"}}

\* The operators' pages that call the server themselves.
Cockpit == <<"platform", "register-catalog", "cockpit">>
AiProviders == <<"platform", "ai", "providers">>
Weights == <<"platform", "scoring", "weights">>

CockpitQuery == Query(Cockpit, {"catalog", "cockpit"})
CockpitMutations ==
    {Mutation(name, {"cockpit"}, {Cockpit}) : name \in {"saveApiKey", "testConnection"}}
    \cup {Mutation(name, {"catalog", "cockpit"}, {Cockpit}) :
              name \in {"disableRegister", "setLive", "toggleForCustomers"}}

OverviewKpis == Cockpit \o <<"overview-kpis">>
OverviewKpisQuery == Query(OverviewKpis, {"catalog", "cockpit"})

\* What the server alone changes.
Health == <<"platform", "health">>
ImportSyncs == <<"platform", "import-syncs">>
PipelineRuns == <<"platform", "pipeline-runs">>
RegisterSources == <<"register-sources">>
AiCosts == <<"platform", "ai", "costs">>
Delivered == <<"notifications">>   \* those of the worker, that are not marked as read
MonitorQueries ==
    {Query(Health, {"health"}), Query(ImportSyncs, {"syncs"}), Query(PipelineRuns, {"runs"}),
     Query(RegisterSources, {"sources"}), Query(AiCosts, {"costs"}),
     Query(Delivered, {"delivered"})}

PriceMutation == Mutation("savePrice", {"catalog"}, {RegisterCatalog})

AiMutations ==
    {Mutation(name, {"ai"}, {AiProviders}) : name \in {"setActive", "saveKey", "testProvider"}}

WeightsMutation == Mutation("publishWeights", {"weights"}, {Weights})

Apis ==
    {MatchesApi, WatchesApi, OrganizationApi, RecipientsApi, SettingsApi, SubscriptionApi,
     ChatApi, NameResearchApi, Notifications}

Queries ==
    UNION {api.queries : api \in Apis}
    \cup PlatformOrgQueries \cup MonitorQueries
    \cup {ArchiveApi, DeadlinesApi, InvoicesApi, CockpitQuery, OverviewKpisQuery,
          Query(AiProviders, {"ai"}), Query(Weights, {"weights"})}

Mutations ==
    UNION {api.mutations : api \in Apis}
    \cup PlatformOrgMutations \cup PlatformOrgEdits \cup PlatformOrgSettings
    \cup CockpitMutations \cup AiMutations
    \cup {BillingApi, PriceMutation, WeightsMutation}

-----------------------------------------------------------------------------
\* The screens: what each observes, and the mutations it offers.

Screen(observes, offers) == [observes |-> observes, offers |-> offers]
Beside(s, observes, offers) ==
    Screen(s.observes \cup observes, s.offers \cup offers)

Reviewing == {"acceptMatch", "rejectMatch", "archiveMatch"}
Filing == {"updateMatchStatus", "addMatchNote", "requestAdvisorReview"}

OverviewPage ==
    Screen({AllWatches, PossibleMatches, ActiveMatches, DeadlineList, Orders, Delivered}, {})
PossiblePage == Screen({PossibleMatches}, Reviewing)
ActivePage == Screen({ActiveMatches}, Reviewing)
DossierPage == Screen({OneMatch, WatchOfMatch}, Reviewing \cup Filing)
DeadlinesPage == Screen({DeadlineList, ActiveMatches, PossibleMatches}, {})
ArchivePage == Screen({ArchiveList}, {})
MarksArchivePage == Screen({ArchiveList}, {})
SourcesPage == Screen({RegisterSources}, {})
WatchesPage == Screen({AllWatches}, {})
AddWatchPage == Screen({}, {"lookupWatch", "createWatch"})
WatchPage == Screen({OneWatch, AllMatches}, {})
NotesTab == Screen(WatchPage.observes, {"updateWatchSettings"})
WatchSettingsTab ==
    Screen(WatchPage.observes \cup {RecipientsList, RegisterList},
           {"updateWatchSettings", "setWatchStatus"})

CompanyTab == {"updateProfile", "parseAddress"}
UsersTab == {"createMember", "updateMember", "removeMember"}
RecipientsTab == {"createRecipient", "updateRecipient", "deleteRecipient"}
LanguageTab == {"updateSettings"}
OrganizationPage ==
    Screen({Profile, MembersList, RecipientsList, AllWatches, Settings},
           CompanyTab \cup UsersTab \cup RecipientsTab \cup LanguageTab)

SubscriptionPage ==
    Screen({CurrentSubscription, Plans, AllWatches, RecipientsList},
           {"changePlan", "cancelAtPeriodEnd", "undoCancelAtPeriodEnd"})
PaymentsPage == Screen({Invoices}, {"billingCheckout"})
ChatPage == Screen({CurrentSubscription, Threads, OneThread}, {"createThread", "sendMessage"})
ResearchPage == Screen({Orders}, {})
OrderPage == Screen({OneOrder}, {})
ResearchWizard == Screen({RegisterList}, {"quote", "createOrder"})
InboxPage == Screen({InApp}, {})

CustomerScreens ==
    {OverviewPage, PossiblePage, ActivePage, DossierPage, DeadlinesPage, ArchivePage,
     MarksArchivePage, SourcesPage, WatchesPage, AddWatchPage, WatchPage, NotesTab, WatchSettingsTab, OrganizationPage,
     SubscriptionPage, PaymentsPage, ChatPage, ResearchPage, OrderPage, ResearchWizard, InboxPage}

CustomersPage == Screen({Organizations}, {})
OrgProfileTab == {"updateOrgProfile"}
OrgAccountsTab == {"createOrgMember", "updateOrgMember", "removeOrgMember"}
OrgSubscriptionTab == {"forceSubscription"}
OrgRecipientsTab == {"createOrgRecipient", "updateOrgRecipient", "deleteOrgRecipient"}
OrgWatchesTab == {"updateOrgWatchSettings", "setOrgWatchStatus"}
OrgInvoicesTab == {"markInvoicePaid"}
OrgChatTab == {"sendOrgMessage"}
CustomerPage ==
    Screen({OneOrganization, OrgThread},
           OrgProfileTab \cup OrgAccountsTab \cup OrgSubscriptionTab \cup OrgRecipientsTab
           \cup OrgWatchesTab \cup OrgInvoicesTab \cup OrgChatTab)
PlansPage == Screen({PlatformPlans}, {"updatePlan"})
PricesPage == Screen({RegisterCatalog}, {"savePrice"})
RegistersPage ==
    Screen({Cockpit}, {"saveApiKey", "testConnection", "disableRegister", "setLive",
                       "toggleForCustomers"})
ScoringPage == Screen({Weights}, {"publishWeights"})
AiPage == Screen({AiProviders, AiCosts}, {"setActive", "saveKey", "testProvider"})
NotificationsPage == Screen({Organizations, PlatformNotifications}, {"sendNotification"})
PlatformHome == Screen({OverviewKpis, Health}, {})
ImportsPage == Screen({ImportSyncs}, {})
JobsPage == Screen({PipelineRuns}, {})
SystemPage == Screen({Health}, {})

PlatformScreens ==
    {CustomersPage, CustomerPage, PlansPage, PricesPage, RegistersPage, ScoringPage, AiPage,
     NotificationsPage, PlatformHome, ImportsPage, JobsPage, SystemPage}

\* The sidebar is on every screen, the bell on those of customers.
Sidebar == {PossibleMatches, Profile}
Bell == Screen({InApp}, {"markRead"})

CustomerLayout == {Beside(s, Sidebar \cup Bell.observes, Bell.offers) : s \in CustomerScreens}
PlatformLayout == {Beside(s, Sidebar, {}) : s \in PlatformScreens}

-----------------------------------------------------------------------------
\* What is followed, in the browser of a customer or of an operator, and the mutations that
\* have to do with it: each as what it does to the fact, whether it tells the query, and its
\* name if it does not.
Layout == [customer |-> CustomerLayout, operator |-> PlatformLayout]
Offered(side) == {m \in Mutations : \E s \in Layout[side] : m.name \in s.offers}
Followed ==
    {p \in [key : {q.key : q \in Queries}, topic : UNION {q.shows : q \in Queries},
            side : DOMAIN Layout] :
        /\ \E q \in Queries : q.key = p.key /\ p.topic \in q.shows
        /\ \E s \in Layout[p.side] : p.key \in s.observes
        /\ \E m \in Offered(p.side) : p.topic \in m.writes}

\* A mutation tells every query whose key starts with one it invalidates.
Tells(m, k) == \E prefix \in m.tells : Keys!IsPrefix(prefix, k)

Effect(m, pair) ==
    [by |-> IF Tells(m, pair.key) THEN "told" ELSE m.name,
     writes |-> pair.topic \in m.writes,
     tells |-> Tells(m, pair.key)]
Effects(s, pair) ==
    {e \in {Effect(m, pair) : m \in {n \in Mutations : n.name \in s.offers}} : e.writes \/ e.tells}

\* A screen as the followed query and fact see it.
Seen(s, pair) ==
    [observes |-> pair.key \in s.observes, effects |-> Effects(s, pair),
     expires |-> DeadlineList \in s.observes /\ pair.topic = "matches"]
Browsers ==
    {[key |-> p.key, topic |-> p.topic, screens |-> {Seen(s, p) : s \in Layout[p.side]}] :
        p \in Followed}

\* One entry: the data it has, the request for it and what that was answered with, and
\* whether it failed; owed is set when an invalidation did not lead to a request of its own.
Uncached ==
    [data |-> Unknown, flight |-> "none", answer |-> Unknown, failed |-> FALSE, owed |-> FALSE]
Asking(e) == [e EXCEPT !.flight = "asked", !.answer = Unknown, !.owed = FALSE, !.failed = FALSE]
Fetched(e) == IF e.flight = "none" THEN Asking(e) ELSE e

CacheInit ==
    /\ followed \in Browsers
    /\ screen \in {s \in followed.screens : s.observes}
    /\ fact = [version |-> 0, by |-> "nobody"]
    /\ entry = Asking(Uncached)
    /\ sent = NotSent

\* Another screen is opened: a query it starts to observe is fetched, unless it is being.
Open(s) ==
    /\ s # screen
    /\ screen' = s
    /\ entry' = IF s.observes /\ ~screen.observes THEN Fetched(entry) ELSE entry
    /\ UNCHANGED <<followed, fact, sent>>

\* The window gets the focus back, or an interval passes: what is observed is fetched again.
Refetch ==
    /\ screen.observes /\ entry.flight = "none"
    /\ entry' = Asking(entry)
    /\ UNCHANGED <<followed, screen, fact, sent>>

\* The server answers with what it holds now.
Serve ==
    /\ entry.flight = "asked"
    /\ entry' = [entry EXCEPT !.flight = "answered", !.answer = fact.version]
    /\ UNCHANGED <<followed, screen, fact, sent>>

Arrive ==
    /\ entry.flight = "answered"
    /\ entry' = [entry EXCEPT !.flight = "none", !.data = entry.answer, !.answer = Unknown]
    /\ UNCHANGED <<followed, screen, fact, sent>>

FetchFails ==
    /\ entry.flight # "none"
    /\ entry' = [entry EXCEPT !.flight = "none", !.answer = Unknown, !.failed = TRUE]
    /\ UNCHANGED <<followed, screen, fact, sent>>

Written(by) == [version |-> fact.version + 1, by |-> by]

Send(e) ==
    /\ sent = NotSent
    /\ sent' = [effect |-> e, applied |-> FALSE]
    /\ UNCHANGED <<followed, screen, fact, entry>>

Apply ==
    /\ sent # NotSent /\ ~sent.applied
    /\ sent.effect.writes => fact.version < MaxVersion
    /\ fact' = IF sent.effect.writes THEN Written(sent.effect.by) ELSE fact
    /\ sent' = [sent EXCEPT !.applied = TRUE]
    /\ UNCHANGED <<followed, screen, entry>>

\* The request is refused, or the answer to it gets lost: nothing is invalidated then.
Fail ==
    /\ sent # NotSent
    /\ sent' = NotSent
    /\ fact' = IF sent.applied /\ sent.effect.writes
               THEN [fact EXCEPT !.by = "elsewhere"] ELSE fact
    /\ UNCHANGED <<followed, screen, entry>>

\* Mutant: a request that runs is left to answer.
InvalidatedAtRest(e) == IF screen.observes /\ e.flight = "none" THEN Asking(e) ELSE e

\* An observed query is fetched again, and a request for it that runs is abandoned, but not
\* the one for its first data; a query nobody observes waits for a screen to be opened.
Invalidated(e) ==
    IF screen.observes /\ (e.flight = "none" \/ e.data # Unknown)
    THEN Asking(e)
    ELSE [e EXCEPT !.owed = e.owed \/ e.flight # "none"]

\* The page of an organization refetches its open thread when a reply was sent.
Refetches == sent.effect.by = "sendOrgMessage" /\ followed.key = OrgThread /\ screen.observes

Settle ==
    /\ sent # NotSent /\ sent.applied
    /\ sent' = NotSent
    /\ entry' = IF sent.effect.tells \/ Refetches THEN Invalidated(entry) ELSE entry
    /\ UNCHANGED <<followed, screen, fact>>

\* Another browser, the worker or a webhook writes the fact.
WriteElsewhere ==
    /\ fact.version < MaxVersion
    /\ fact' = Written("elsewhere")
    /\ UNCHANGED <<followed, screen, entry, sent>>

\* Listing the deadlines files the matches whose deadline has passed.
ReadDeadlines ==
    /\ screen.expires /\ fact.version < MaxVersion
    /\ fact' = Written("readDeadlines")
    /\ UNCHANGED <<followed, screen, entry, sent>>

\* Data nobody observes is dropped after a while.
Collect ==
    /\ ~screen.observes /\ entry.flight = "none" /\ entry # Uncached
    /\ entry' = Uncached
    /\ UNCHANGED <<followed, screen, fact, sent>>

CacheNext ==
    \/ \E s \in followed.screens : Open(s)
    \/ \E e \in screen.effects : Send(e)
    \/ Refetch \/ Serve \/ Arrive \/ FetchFails \/ Apply \/ Fail \/ Settle
    \/ WriteElsewhere \/ ReadDeadlines \/ Collect

CacheSpec == CacheInit /\ [][CacheNext]_cacheVars

-----------------------------------------------------------------------------
CacheTypeOK ==
    /\ followed \in Browsers /\ screen \in followed.screens
    /\ fact.version \in 0..MaxVersion
    /\ entry.data \in 0..Unknown /\ entry.answer \in 0..Unknown
    /\ entry.flight \in {"none", "asked", "answered"}

\* What no invalidation covers: a reply to a customer, or a notification, leaves the page of
\* the customer as it is, and the thread if another screen was opened meanwhile; an operator
\* who renames the organization in the sidebar leaves the sidebar as it is; the invoice of
\* an order and a register's new state reach the pages of payments and of prices only when
\* these are opened after the answer; deadlines that are read leave the lists of matches.
Gaps ==
    {<<"sendOrgMessage", OneOrganization>>, <<"sendOrgMessage", OrgThread>>,
     <<"sendNotification", OneOrganization>>, <<"updateOrgProfile", Profile>>,
     <<"createOrder", Invoices>>}
    \cup {<<name, RegisterCatalog>> : name \in {"disableRegister", "setLive", "toggleForCustomers"}}
    \cup {<<"readDeadlines", q.key>> : q \in {r \in Queries : "matches" \in r.shows}}

\* The keys that mutations invalidate were written down by hand, next to each: a write that
\* tells the followed query nothing is one of the gaps.
ASSUME GapsAssumption ==
    \A b \in Browsers : \A s \in b.screens :
        /\ s.expires => <<"readDeadlines", b.key>> \in Gaps
        /\ \A e \in s.effects : e.writes /\ ~e.tells => <<e.by, b.key>> \in Gaps

\* Once everything that was asked and sent is answered, an observed query shows what the
\* server holds if this browser wrote it last: the keys each mutation invalidates cover, by
\* their prefixes, every query a screen shows next to it.  What is left are the gaps above,
\* writes from elsewhere, fetches that failed, and a first fetch, or one a screen left
\* behind, that a mutation overtook.
ScreenIsCurrent ==
    (/\ screen.observes /\ entry.flight = "none" /\ sent = NotSent
     /\ entry.data # Unknown /\ ~entry.failed /\ ~entry.owed
     /\ fact.by # "elsewhere" /\ <<fact.by, followed.key>> \notin Gaps)
    => entry.data = fact.version
=============================================================================
