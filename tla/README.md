# Verification of Merkwacht

Merkwacht watches trademark registers: a worker pulls new applications from the
registers, matches them against the trademarks its customers watch, scores each
pair, and keeps the opposition deadline of every match; an API lets customers
review matches, order name research, manage their organization and pay for it,
and lets operators run the platform; a web application shows all of that. This
directory holds TLA+ modules translated from the source, the TLC configurations
that check them on small instances, and TLAPS proofs that hold for every
instance. `PROJECT.json` maps each definition to the source lines it models and
lists the runs, the theorems, the hazards and the places where the code and its
documentation disagree.

Run a check with `tlc -config MCpipeline_conc.cfg MCWorkerPipeline.tla` (the
configuration's module is in the table of runs below) and a proof with
`tlapm WorkerPipelineProofs.tla`.

## 1. Inventory

Paths are relative to `src/`.

### Worker (`apps/worker`)
- *State*: none of its own. Every job handler is an async function over one
  shared `JobStore`, and lives on one event loop; its locals (the page loop's
  checkpoint, the drained jobs, the pair being scored) survive its awaits.
- *Operations* (`handlers/index.ts`): `REGISTER_SYNC` (the daily sync pipeline
  for one register after the other), `INITIAL_OPPOSITION_SCAN` (one watched
  trademark against a register's history), `MATCH_CANDIDATE_BATCH` (every active
  watch against every open candidate), `SCORE_MATCH` and `AI_ASSESS_MATCH`
  (one pair again), `REFRESH_DEADLINES`, `ARCHIVE_EXPIRED_MATCHES`,
  `GENERATE_EXPORT` (throws `NOT_IMPLEMENTED`).
- *Interactions*: awaits a register connector's `fetchPublications` and the
  scoring of one pair (which awaits the AI layer); everything else between two
  awaits is atomic.
- *Hard*: `runJob` imposes no mutual exclusion, so handlers interleave at every
  await; a fetch or a whole register may fail half way; what is read before an
  await is written after it.
- *Correct when*: no publication is skipped; no match job is lost or scored by
  two handlers; each scan run is finished exactly once; a re-score, a sync or
  the archiving never undoes a customer's decision.

### JobStore (`packages/database/src/job-store.ts`)
- *State*: source checkpoints, candidate applications, watched trademarks,
  trademark matches, the match-job queue and the idempotency keys ever used,
  scan runs, the AI usage ledger, append-only raw records and status history.
- *Operations*: upserts that compare a source hash, `setOppositionDeadline`,
  `enqueueMatchJob`, `drainMatchJobQueue`, `upsertTrademarkMatch`,
  `setTrademarkMatchStatus`, `archiveExpiredMatches`, `startScanRun`,
  `finishScanRun`, checkpoint load and save.
- *Hard*: shared by all handlers; keys are never forgotten.
- *Correct when*: the deadline of a candidate is the one of the content it
  holds; a match keeps its reviewed status; a finished run keeps its result.

### Register connectors (`packages/register-connectors`)
- *State*: per connector the EUIPO access token and its expiry; otherwise a
  cursor that travels in the checkpoint.
- *Operations*: `fetchPublications(since, pageSize)`, `getByApplicationNumber`,
  `getOppositionRuleSet`, health checks. BOIP, EUIPO, USPTO and the generic
  connector page with an opaque cursor of the office, WIPO reads one daily file
  at a time, and each has a fixture mode that pages differently.
- *Hard*: concurrent token refresh; a token that expires between test and use; a
  cursor that moves while records are published and requests fail.
- *Correct when*: a request never carries a dead token; a cursor never passes a
  record that was not delivered; `hasMore` never ends a loop early.

### AI layer (`packages/ai`)
- *State*: result cache, monthly usage ledger.
- *Operations*: `assessTrademarkMatch` (budget check, cache, provider call,
  retry, validation, usage record).
- *Hard*: the budget is read before and charged after the provider's answer.
- *Correct when*: concurrent assessments overrun the budget by no more than what
  was under way, every paid answer is charged, every call comes back.

### Scoring and rules (`packages/scoring`, `normalization`, `phonetics`, `classification`, `opposition-rules`, `domain`)
- *State*: the weight profiles, in the memory of each process; otherwise none.
- *Operations*: features and string measures of a pair, the total with the AI's
  adjustment, the risk band of a name research hit, the opposition deadline,
  roles, plan limits, notification thresholds, match queues, VAT.
- *Hard*: numeric edges: borders of dynamic programming, cascades of thresholds,
  ends of months and leap years, rounding to cents.
- *Correct when*: a stored total can be recomputed; more alike is never safer; a
  deadline is the last day to oppose; amounts add up.

### API (`apps/api`)
- *State*: `OrgBillingChatStore` (organizations, members, recipients, plans and
  subscriptions, invoices, threads, notices), the demo or Postgres store
  (watches, matches, decisions, deadlines), the name-research store (credits,
  orders, runs), the platform stores (register catalog, cockpit rows, processing
  jobs, audit log, weights, AI provider).
- *Operations*: one route handler per request; most read, await, then write. A
  hook resolves the tenant of each request before its handler.
- *Interactions*: the payment provider (a checkout session is created; its
  webhook comes back later), the registers' health probes, Supabase Auth.
- *Hard*: two requests over one organization between a read and its write; role
  and ownership rules over long sequences of calls; plan change, cancellation
  and invoicing in any order; webhook events repeated, late or out of order; a
  loop of awaited writes that breaks off; memberships that change while a tenant
  is resolved.
- *Correct when*: an organization never loses its last administrator; nobody
  takes over its owner; the plan's limit on recipients holds, and that on active
  watches is passed by no more than calls overlapped and watches were resumed;
  every period of a running subscription is invoiced and none after the last; a
  match expires only after its last day to oppose; a note, and with it the reason
  for a rejection, is lost to nothing but a note written at the same time; credits and payments are spent once, and a report is
  delivered when paid; a request works on an organization its user holds; the
  audit log tells what operators changed.

### Web application (`apps/web`, `packages/ui`)
- *State*: one cache of queries by key (TanStack Query), the drafts of forms,
  the selections of two wizards, the open menu group in the browser's storage.
- *Operations*: every screen observes queries and offers mutations; a mutation
  that was answered invalidates the keys it names, by prefix.
- *Hard*: answers that cross; a key that is fixed when the page is set up while
  its requests are not; a form filled from a query that is fetched again.
- *Correct when*: a screen does not go on showing what its own browser changed; a
  message sent turns up in its thread; what is typed survives a fetch; what was
  shown when ordering is what is ordered.

### The rest
Exports, notifications, logging, config, validation, shared: formatting, schemas
and I/O. `supabase`: the SQL schema and its policies; the worker runs on the
in-memory `JobStore`.

## 2. Modules

| module | what it is |
|---|---|
| `WorkerPipeline` | the worker's handlers over the JobStore, one action per stretch of code between two awaits |
| `MatchDispatch` | abstract specification: what the match-job queue promises |
| `MCWorkerPipeline` | instances of `WorkerPipeline` for TLC |
| `WorkerPipelineProofs` | inductive type invariant of `WorkerPipeline`, its scan runs, and its store: checkpoints, deadlines, reviews |
| `DispatchProofs` | the queue's safety, `WorkerPipeline` implements `MatchDispatch`, where matches come from, and what an initial scan finds |
| `Subscription`, `MCSubscription`, `SubscriptionProofs` | plan, cancellation and invoicing of periods, and the plan's limits on watches and recipients |
| `MatchReview`, `MCMatchReview`, `MatchReviewProofs` | the review of matches through the API and the view of deadlines that expires them |
| `Members` | the members of an organization and their roles |
| `Conversations` | support threads, their participants, and in-app notices |
| `Recipients` | who is mailed about which watch, beside the settings of watches |
| `OperatorDesk` | what operators change of organizations and the platform, and the audit log of it |
| `QueryCache` | every screen's queries, what each mutation invalidates, and the cache between them |
| `Wizards`, `Shell`, `ThreadPane`, `Forms` | the two wizards, the routes and menu, the conversation pane, the forms |
| `MCOrganization` | one organization, in the API and in the web application, for TLC |
| `OrganizationProofs` | what the parts of `MCOrganization` promise, and the whole |
| `Billing` | name research orders, credits, invoices, checkout sessions and payment events |
| `AiAssessment` | budget, cache, retries and ledger of the AI layer |
| `AccessToken` | the cached token of the EUIPO client |
| `RegisterConnectors` | the ways connectors page, under the pipelines' page loop |
| `RegisterCockpit` | the operators' catalog of registers, probes, syncs started by hand, and the notices to customers |
| `Tenancy` | how the API starts, and whose organization a request works on |
| `WeightProfiles` | the total of a match and the versions of the weights behind it |
| `TextDistance` | the string measures, against the edits they count |
| `RiskRules` | the rules that band the risk of a pair of marks |
| `OppositionWindow` | the last day to oppose, against the calendar |
| `Vat` | amounts of an invoice |
| `ServicesProofs` | the token, the budget, connectors and page loops, the cockpit, tenancy, weights and scores, the rules of risk, the last day to oppose |
| `MCServices` | the services and rules, for TLC |
| `TextProofs` | what the tables and loops of `TextDistance` compute, for names of any length |
| `PlatformProofs` | credits, orders, invoices and payment events; amounts; and what is shown of each service, of `MCServices` as a whole |

The worker and the API share the matches of an organization in the product's
design, but not in this code: the worker runs on the in-memory `JobStore`, the
API on its demo or Postgres store, and nothing connects the two. They are
therefore separate modules; what the API's decisions look like to the worker is
the action `Review` of `WorkerPipeline`.

The parts of `MCOrganization` share no state, and neither do those of
`MCServices`: the code keeps members, conversations, recipients, reviews and so
on in maps that none of the others' handlers touches (where two are touched
together, they are one module: `Recipients` has the watches, `Billing` the
orders, credits and invoices, `Subscription` watches and recipients, and
`OperatorDesk` every change with its audit entry). Interleaving parts that do
not share state would multiply the states and add no behaviour a property could
tell. So the variable `part` picks one of them at the start and the others stay
as they are.

### WorkerPipeline: state
| variable | code |
|---|---|
| `now` | `new Date()`, in ticks; `TicksPerDay` of them make a day and a date is its midnight |
| `feed[r]` | the register itself: an append-only log of publications |
| `watch`, `store`, `checkpoint`, `matches`, `runs` | the JobStore's maps and its list of scan runs |
| `keys`, `queue` | `enqueuedMatchJobKeys`, `matchJobQueue` |
| `pc`, `task`, `rest`, `paging`, `todo`, `cur`, `runOf` | the locals of each handler call in flight: where it awaits, what it was called for, the registers REGISTER_SYNC has left, the page loop, the jobs drained, the pair being scored, its scan run |

A publication is one *content* (`Version`) of one application (`Cand`). The
content stands for the `sourceHash`: two publications of equal content are equal
for the code. `Content[c][v]` gives what matters of it: the reported procedural
status and the opposition window.

### WorkerPipeline: actions
| action | code |
|---|---|
| `RegisterSync`, `BeginDailySync`, `DailySyncRejects`, `RegisterSyncDone` | `handleRegisterSync` and the start of `runDailySyncPipeline` for each register |
| `ScanSkipped`, `ScanUnconnected`, `BeginScan` | the start of `runInitialOppositionScanPipeline` and its early returns |
| `FetchAnswered` | `fetchPublications` resolves: ingest the page, save the checkpoint, then ask for the next page or, after the last, enqueue, drain and read the first job |
| `FetchFailed` | `fetchPublications` rejects: the catch block of either pipeline |
| `ScoreAnswered` | the score of a pair arrives: upsert the match (if the pair was in its window when read and reached the threshold), read the next job |
| `DailySyncFinishes`, `ScanFinishes`, `HandlerReturns` | no job is left: refresh missing deadlines, archive, finish the run |
| `MatchCandidateBatch`, `ScoreMatch`, `RefreshDeadlines`, `ArchiveExpiredMatches` | the other handlers |
| `Publish`, `Tick`, `UpsertWatch`, `Review` | the register, the clock, the customers |

### Abstractions, and why they keep the behaviour
- The queue and the drained jobs are sets: the order in which jobs are scored is
  left open, which includes the code's.
- A page holds at most one publication. A page of several is the same ingestion
  repeated without an await, a subset of the interleavings modelled.
- A register answers from its log as it stood at any moment since the request
  was made (`seen`), so a slow answer may be older than another handler's.
- A connector's `nextCheckpoint` and `hasMore` are its contract, seen from the
  pipelines: while there is more there is a checkpoint; with the last page there
  may be none.
- `REGISTER_SYNC` takes its registers in any order.
- Candidates and watches are never deleted by any code, so the "not found"
  branches behind a drained job cannot be taken and are left out.
- Scoring never throws (an AI failure becomes a missing adjustment), so a score
  always arrives. What it says is three-valued: certainly above the threshold
  (`MustMatch`), certainly below, or left to the AI (`MayMatch`).
- `SCORE_MATCH` for a pair without match, or of an unknown watch, throws before
  it changes anything; such calls are not made.
- Raw records and status history are written and never read; log counts are
  left out.

### Members
| definition | code |
|---|---|
| `role` | the `members` map of an organization: a member is an id with a role |
| `RemovalAllowed`, `ChangeAllowed` | `assertRoleMutationAllowed` (`packages/domain/src/roles.ts`) |
| `CreateMember`, `UpdateMember`, `RemoveMember` | the methods of `OrgBillingChatStore`, each one synchronous step |

The actor's role comes with a request and is not looked up among the members:
the organization's routes take it from the tenant, the platform's routes always
pass `owner`. So it is any of the three, at any time. A founding organization
has an owner and a jurist, as `seedOrg` makes it. An id may be given out again
after its member left; the code's ids are always new, which is fewer histories.
Names, addresses and preferences of a member play no part.

### Subscription
| definition | code |
|---|---|
| `sub` | `SubscriptionStateRecord`: plan, status, pending plan, `cancelAtPeriodEnd`, `currentPeriodEnd` (the number of the period) and `nextInvoiceAt` |
| `catalog`, `watch`, `recipients` | `planCatalog`; the statuses of the watched trademarks; how many recipients there are |
| `pc`, `want`, `seen` | the locals of a route that awaits: where it is, the plan asked for, the active watches it counted |
| `resumed`, `late` | history, for the properties: which watches a resume made active, and what was made active since a call listed them |
| `CanAddWatchedTrademark`, `CanAddNotificationRecipient`, `IsDowngrade`, `MayChangeTo`, `FitsIn` | `packages/domain/src/subscriptions.ts` |
| `ListForCreate`, `AssertCanAdd`, `WatchCreated`, `WatchRefused` | `POST /watched-trademarks`, cut at its awaits |
| `ListForChange`, `ChangePlan` | `POST /subscription/change-plan`, cut at its await |
| `SetWatchStatus`, `CreateRecipient`, `DeleteRecipient`, `RequestCancelAtPeriodEnd`, `UndoCancelAtPeriodEnd`, `IssueUpcomingInvoice` | handlers that change the store in one stretch |
| `ForceSubscription`, `UpdatePlanCatalog`, `steered` | the platform operators' changes; `steered` is history, and tells that there was one |

A price downgrade is judged with the default price of the current plan and the
edited price of the target (`IsDowngrade`), as in the code. No route calls
`issueUpcomingInvoice` yet, only tests do; the module lets it happen at any
moment. The invoice itself, its number and VAT are left out.

### MatchReview
| definition | code |
|---|---|
| `match[m]` | the row of a match: status, `reviewedBy`, whether an advisor was asked, the column of notes |
| `call[q]` | the locals of a request in flight: what it awaits, the match as it read it, the status and note it will write, the overdue matches left |
| `PatchStatus`, `Accept`, `Reject`, `Archive`, `AddNote`, `RequestAdvisor` | `routes/matches.ts`: read the match, refuse or go on |
| `RereadForNote`, `WriteNote`, `WriteStatus` | `addMatchNote` and `updateMatchStatus` of `PostgresStore` |
| `ListDeadlines`, `PickOverdue`, `Expire`, `DeadlinesListed` | `GET /deadlines`, which expires what it finds overdue |
| `QueryFails` | `throwOnError`: the request ends, what it wrote stays |

The store is the `PostgresStore`: each of its queries is a step, and an update
writes the columns it names and no other. The `DemoStore` answers without
leaving the event loop, which is the instance with one request. The column of
notes is written whole, from the row as it was read, by any number of requests at
once. The read of a request that ends in refusal changes nothing and is no step.
History, for the properties: `since` (how many notes there were when a writer read
the row), `filed` (the note a request wrote), and `late` (the matches whose status
others wrote after the request judged them). Matches are not
created or deleted by requests, so the set of them is fixed.

### Conversations and Recipients
| definition | code |
|---|---|
| `threads`, `participants`, `messages`, `notices` | the arrays of the same content in `OrgBillingChatStore`; a message keeps its writer beside the participant it is stored under |
| `CreateThread`, `AddMessage`, `AddPlatformMessage`, `SendNotice`, `ReadNotice` | the store's methods, each one synchronous step, with the participants they look up or add |
| `watches`, `recipients`, `deleted` | statuses and thresholds of watches, the recipients, ids given out |
| `CreateLists`, `CreateWrites`, `UpdateLists`, `UpdateWrites` | `POST` and `PATCH /notification-recipients`, cut at the await of the active watches |
| `SettingsConsult`, `SettingsWritten` | `PATCH /watched-trademarks/:id/settings`: the floors of the recipients are read, then the store is awaited |
| `OperatorSettings` | `PATCH /platform/organizations/:organizationId/watches/:watchId/settings`: the same write without a gate |
| `Normalized`, `Floors`, `Compatible` | `packages/domain/src/notification-thresholds.ts` |

`stale` of `Recipients` is history: which recipients were written since a request
consulted them. A score is its rank among `Scores`, -1 where there is none.

### OperatorDesk
| definition | code |
|---|---|
| `DeskRoutes` | the routes of `routes/platform-org.ts` and `routes/platform.ts` that change something: what each awaits, whether its organization must exist, what its entry names |
| `Handle` | a route without an await: admission, change and entry in one step |
| `Await`, `WatchesListed`, `StoreWrites`, `StoreAnswers`, `NothingChanged`, `AnswerLost` | a route with one: the watches are listed first, or the store writes and answers, finds nothing, or writes and is not heard |
| `RecordedEntry` | `recordAuditLogEntry`; a `chat.platform_reply` carries no organization |
| `AuditSnippet` | the newest entries on an organization's page |

What a change is to its own data is the business of the other modules; here it
is who made it, where and by which route.

### The web application
| definition | code |
|---|---|
| `MatchesApi`, `WatchesApi`, ... | one record per file of `src/api/`: the keys of its queries, what each mutation writes and which keys it invalidates |
| `CustomerScreens`, `PlatformScreens` | the router's screens: the queries a page, its tabs and the frame around it observe, and the mutations it offers |
| `Open`, `Refetch`, `Serve`, `Arrive`, `FetchFails`, `Collect` | a query's life in the cache (TanStack Query, external) |
| `Send`, `Apply`, `Fail`, `Settle` | a mutation's; `Settle` invalidates what its `onSuccess` names, by prefix |
| `selected`, `asked`, `quote`, `ordering` | the research wizard: selections, prices asked and not yet answered, the price shown, what is ordered |
| `RunLookup`, `LookedUp`, `NotFound`, `ConfirmCreate`, `Created` | `AddWatchWizard.vue` |
| `Load`, `Navigate`, `Toggle`, `StoredElsewhere` | `useNavOpenState.ts`: the open group of the menu, in the tab and in the browser's storage |
| `picked`, `pane`, `request`, `saying` | `ChatPage.vue` and the chat tab of `KlantDetailPage.vue`: the thread picked, what the pane's query has and asks for, the message on its way |
| `record`, `known`, `coming`, `draft`, `typed`, `saving` | a form beside the query it is filled from, for each kind of form (`ProfileForm`, ...): whether it follows the query, and what it saves |

`QueryCache` follows one query and one fact at a time: no query moves another,
so a screen that shows several is as current as each of them. The facts are the
kinds of data of the server (matches, watches, members, ...); a mutation that
writes a fact makes every query that shows it stale.

### Billing and Vat
| definition | code |
|---|---|
| `orders`, `credits`, `listed` | `NameResearchStore`: orders with their steps, credits and the catalog with its prices |
| `invoices`, `billingLog` | invoices and billing events of `OrgBillingChatStore` |
| `sessions`, `checkouts` | the provider's checkout sessions, and the requests that await one |
| `OrderOnCredit`, `OrderForMoney`, `OrderUnbilled` | `POST /name-research/orders` on credit, with a provider (up to its await), and without one |
| `SessionCreated`, `SessionFails` | the await of `createCheckoutSession` and what follows it |
| `PayInvoice`, `DemoCheckout`, `AddPaymentMethod`, `OperatorMarksPaid` | the other ways to a payment |
| `CustomerPays`, `ApplyWebhook` | the provider: a session is paid; its event is delivered, any number of times and in any order |
| `ComputeNlBtw`, `DeriveNlBtwFromIncVat`, `Invoiced`, `AddLine` | `packages/domain/src/billing.ts` and the three ways of `createInvoice`, in cents |

An order that is paid runs at once (`RunOrder`), through its steps to a report;
connectors that are not live leave theirs pending, as in the code.

### AiAssessment, AccessToken, RegisterConnectors
| definition | code |
|---|---|
| `Assess`, `BudgetRead`, `ValidAnswer`, `InvalidAnswer`, `NoAnswer` | `OpenAiAssessmentProvider.assessTrademarkMatch` cut at its awaits: the month's spending, then the answers of `assessWithRetry` |
| `Charge`, `HourPasses` | the usage ledger of the JobStore, by month |
| `UseCached`, `AskToken`, `TokenArrives`, `TokenRefused`, `Answered` | `EuipoOAuthClient`: the token cache, the token request on its way for any length of time, the request that carries it; a token keeps its life and how long its own request took, as history |
| `StartLoop`, `WholeAnswered`, `IndexedAnswered`, `CountedAnswered`, `LiveAnswered`, `DeltaListed`, `DeltaRead`, `RequestFails` | `fetchPublications` of each connector under the pipelines' page loop |

`RegisterConnectors` checks what `WorkerPipeline` takes for granted of a
connector (while there is more there is a checkpoint, and a checkpoint covers
what was delivered). Publications are numbered by day; a page holds up to
`PageSize` of them, of which some may not validate.

### RegisterCockpit
| definition | code |
|---|---|
| `catalog`, `cockpit`, `jobs`, `importRow`, `trail` | the platform stores: the entries of registers, their runtime rows, processing jobs, import sync, audit log |
| `PatchCatalog`, `TellNext`, `TellFails` | `PATCH /register-catalog/:code`: the change, then a loop of awaits that tells every organization affected |
| `ProbeStarts`, `ProbeReturns`, `ProbeUnconnected`, `SetCredentials` | connection tests and keys |
| `SyncStarts`, `SyncReturns`, `RetryJob` | a sync started by hand, cut at its await, and the retry of a job |

### Tenancy
| definition | code |
|---|---|
| `Boot`, `StoreChoice` | the start of the process: `createAppStore` and its probe, which is answered or not |
| `WithBearer`, `WithHeaders` | a request comes in with a token or without one; either may carry demo headers, which name an acting user and a role |
| `JwtAnswered`, `MemberAnswered`, `OperatorAnswered` | the three awaits of `resolveTenant`, each of which may fail |
| `RowChanges`, `OperatorChanges` | memberships change in the database meanwhile |

`held` is history: what a request's user was a member of since it came in. What
`runStartupSelfCheck` finds is logged and stops nothing (`app.ts:62`), so it is no
step. `actor` and `role` are what the handlers of members and of the chat use
(`resolveDemoRequestContext`), whoever the tenant was resolved for.

### WeightProfiles, TextDistance, RiskRules, OppositionWindow
Algorithms. Their state is the input, and a step changes the input a little: a
letter of a name, a feature of a pair, a leaf of the calendar. So an invariant
checks an algorithm over all inputs in the bounds, and an action property says
what a small change may do to its result.

- `WeightProfiles` also has the two processes (API and worker) that hold their
  own versions of the weights, and a scoring call that awaits the AI between
  reading the profile and storing the total.
- `TextDistance` has the code's tables as recursive functions over pairs of places,
  one `Matrix` for the three distances (the code writes it out three times, with
  other costs and with or without turned letters); its reference makes the edits
  (`Balls`: what can be reached in n of them). Shares are fractions and
  costs hundredths, so that nothing is rounded.
- `RiskRules` compares ranks of bands and similarities in percent.
- `OppositionWindow` computes with JavaScript dates (numbers of days, whose
  conversion is external code) and walks the calendar beside it, one leaf after
  the other. A date that cannot be read makes `calculateOppositionDeadline`
  throw; in the worker that is a page that fails (`FetchFailed`).

## 3. Properties and runs

Every property of a run has a mutant: a definition changed the way a plausible
bug would change it, with which TLC finds the property violated.

| run | configuration, module | question |
|---|---|---|
| `pipeline_seq` | `MCpipeline_seq`, `MCWorkerPipeline` | one handler at a time; a register that corrects an application up to three times, a window that moves by a day, a page limit of 2 and a watch that is paused and resumed |
| `pipeline_conc` | `MCpipeline_conc`, `MCWorkerPipeline` | two handlers interleaved at every await, over an application that is corrected while its score is awaited to a content below the threshold, and watches of two registers; the refinement to `MatchDispatch` |
| `pipeline_registers` | `MCpipeline_registers`, `MCWorkerPipeline` | two connected registers and a third without connector, failing fetches, an invalid content |
| `pipeline_live` | `MCpipeline_live`, `MCWorkerPipeline` | two watches sharing the queue under two handlers, with fairness |
| `sub_changes` | `MCsub_changes`, `MCSubscription` | plan changes, cancellations, undos, invoices, creations, archivings and resumes in any order, two awaiting calls, and operators who force the subscription and edit the catalog |
| `organization` | `MCorganization`, `MCOrganization` | one organization: members, conversations, recipients, reviews by two requests over one match, two operators; and in the browser the cache, the wizards, the menu, the thread pane, the forms |
| `services` | `MCservices`, `MCServices` | orders and payments, the AI's budget, the token, paging, the cockpit, tenancy, weights, and the algorithms over bounded inputs |
| `pipeline_last_day`, `pipeline_failed_fetch`, `sub_limit_race`, `review_filed`, `tenant_headers` | same names, the module of their part | statements of the documentation that the code does not keep (section 6) |

Some properties of a run are conjunctions of named parts, one per hazard. What
they show:

- `DispatchesOnce`, `ScanStaysOnItsWatch`: the shared queue is safe *because*
  enqueueing and draining happen in one synchronous stretch. A drained job
  belongs to one handler, an initial scan never takes over another watch's jobs.
- `StoreFollowsLog` = `CheckpointCovered` (a checkpoint never passes a
  publication that was not ingested, also with overlapping syncs) and
  `DeadlineFollowsContent` (late answers may bring an older content back, but the
  deadline and status stored are always those of the content stored).
- `HandlersSettle` = `RunsSettle` and `DrainedJobsAreScored`: no run stays
  "running", and every drained job is scored or dropped.
- `ReviewKept`, `RunsAccounted`: reviews survive every interleaving, and every
  run is finished by the call that started it.
- `MatchesGrounded`: a match is of a queued pair of one register, and records a
  content that was published and may reach the threshold, although the candidate is
  read before the score is awaited and the match written after. Its mutant files
  the score under the content stored by then.
- `ScanFindsOpenFilings`, `SyncReachesEveryRegister`: what an initial scan owes its
  customer is found, and one register's failure does not cost the others their sync.
- `SubscriptionConsistent` (pending plan, next invoice, periods, recipients, hard
  cap): what a plan change, a cancellation and an invoice each rely on of the
  others holds without any of them checking it.
- `OverrunWithinCalls`, `CountsAnswerFor`: the limit on active watches does not hold
  (`sub_limit_race`, and a resume asks nothing: section 6); these bound by how much.
  The watches that were not resumed pass the plan by less than the calls that may
  overlap, however long that goes on: an overrun does not add up, because the next
  count sees it. And each creation (`CreationFits`) and downgrade (`DowngradeFits`)
  fits with all that was active when its call counted and still is, so that what it
  misjudged was made active during its await.
- `AdminRemains`, `OwnerLeavesOnly`: the guards count administrators before
  each change, and no order of promotions and demotions gets around them; an
  owner can only leave, and only behind another administrator.
- `ActsAttributed` = `TalkAttributed` (a message stands under the side and, for
  customers, the user that wrote it, and nobody takes part twice) and `AuditTells`
  (an entry tells of a change that was made, by whom and where, one change has
  one entry unless its request is under way or was never answered, and an
  organization's page shows its own entries and no others).
- `SettingsKept` = `SettingsRespectRecipients` (a threshold of a watch passes that of
  a recipient covering it only through a change of the recipient, a new watch, an
  operator's write, which has no gate, or a customer's whose gate had not seen the
  recipient) and `PatchesCompose` (overlapping patches of a
  recipient change only what they name, and bring back nothing deleted).
- `DecisionsGrounded` = `ExpiredOnlyWhenOver`, `RejectionReasoned` and `ClosedStands`
  (a match that was rejected, archived or expired is written by nothing but a
  status its reviewer names, or a request that read it before that: an expiry or a
  decision is written over another only where they overlapped), and
  `AnnotationsKept`. Every request may write notes, and the column is
  rewritten from what was read, so notes and with them the reasons of rejections
  are lost (section 6). The properties say to what: to a note that is still on file
  and whose writer read the row before the lost one was written and wrote it after,
  and never to a decision, an expiry or a failure; an advisor's request is never lost.
- `ScreenIsCurrent`: once everything is answered, an open screen shows what this
  browser wrote last, for every screen of the router and every mutation on it.
  The gaps it names are in section 6.
- `SentIsShown`, `DraftsKept`: a message sent turns up in its thread although the
  pane's key is another thread's; a fetch never loses what is typed, and a form
  that follows its query never undoes a change it has shown.
- `MadeAsShown`: an order is made at the price shown (when its prices came in the
  order they were asked), a watch is the registration shown, a recipient gets
  the watches that were ticked (unless one of them was archived meanwhile), and
  one menu group is open besides the path's.
- `BooksClose` = `CreditsConserved`, `BilledAsQuoted`, `DeliveredIsPaid`; with
  `RepeatsAreHarmless` and `PaymentSettles`: a credit is used once, an order has
  one invoice of the price quoted, a report is delivered with its invoice paid,
  a repeated or late event undoes nothing, and what was paid is settled.
- `OverrunBounded`, `ServicesSettle`: concurrent assessments overrun the budget by
  no more than what was under way; every assessment comes back, and a loop that
  tells organizations of a disabled register gets to all of them unless it
  breaks off.
- `BearerAlive`: a token request has no timeout, so a token may be void when it
  comes. A request carries a void one only if that token's own request took its whole
  life, or longer than the safety margin, and then for less than it took longer;
  no overlap of refreshes adds to that.
- `CursorSkipsNothing`, `LoopReadsAll`: what the connectors owe the pipelines. A WIPO
  day whose records were read in part counts as delivered (section 6).
- `CockpitAccounted` (`NothingChangesUnseen`, `SyncsAccounted`,
  `DisabledHasReason`), `RequestsConfined` (`TenantHeld`, `TenantFromBearer`):
  operators' overlapping jobs are accounted for once; a request works on an
  organization its user held since it came in, and outside a demo that user is a
  valid bearer's. Whom it acts *as* is another matter (`tenant_headers`).
- `ScoresHold`, `MeasuresHold`, `RulesHold`, `MoreAlikeNeverSafer`, `AmountsAgree`:
  the algorithms, each against a definition of what it should compute:
  `ScoresReproducible` and `AiOnlyNudges`; `FewestEdits`, `SwapsOnlyHelp`,
  `SharesAndSymmetric`, `SharedRun`; `RiskSymmetric`, `TakenNameIsHigh`,
  `DeadlineLands`, `LaterIsNeverEarlier`, `CountsDownToLastDay`; `PartsAddUp`,
  `LinesWithinACent`, `VatNearRate`, `BackfillExact`.

### Bounds
One or two of everything is enough to meet the cases: two handlers for every
race (a third only repeats one of the two roles: writer before, writer after);
up to three publications with `MaxPages = 2`, so that a loop ends by the limit
and by `hasMore`; two contents, so that an application is corrected and
corrected back; `MaxTime` past the last deadline, so that windows open, close
and expire. `MaxRuns` bounds only when a handler may be *called*: calls under
way always finish. `MaxFeed` bounds the log, `Decisions` and `WatchMoves` the
world's choices. In `pipeline_conc` the second register is there so that matches
could cross; its watch is the first to be stored (`FarFirst`), and it is neither
synced nor scanned by name (`NearSynced`), which `pipeline_registers` and
`pipeline_live` have. The corrected content never reaches the threshold, the first
may. Symmetry (`Slots`, over handler calls) is used in
`pipeline_conc`, and over watches and calls in the `sub_` runs, where no
liveness is checked. Deadlock checking stays on in the pipeline and `sub_` runs;
in `organization` and `services` a part may be done with its bounded inputs, so
that it is off there.

`Members` has no bound but its set of ids: five members give every mix of two
administrators too many and one too few. In `Subscription`, `MaxPeriod` bounds
the invoices issued (one, before or after a cancellation and its undo; a second finds
what the first left),
`WatchMoves` names the statuses watches are moved to, `CatalogEdits` the limits
an operator sets and `ForcedPlans` the plans one forces; of two plans the larger
outgrows the hard cap, three watches are one more than it allows, and an upgrade may
come on top of a scheduled downgrade. Once operators have stepped in, which most
properties then leave aside, one call and one watch are followed (`SteeredLightly`). In `MatchReview`, `MaxTime` is
past the deadline's last day, `TicksPerDay = 2` tells the deadline's midnight
from the rest of that day, `MaxNotes` bounds the notes there are when one more is
asked for, so that two requests write them at once, and `Decisions` the statuses set
directly.

`organization` (about 930 000 states): two threads and four messages let an
operator and two customers write first and second in either; `Seats` and two
addresses let a recipient be created, patched by two calls and deleted meanwhile;
two changes (`MaxChanges`) of two operators overlap in every way a third would,
and `AuditShown = 1` instead of 20 makes an entry fall off the page with the
second; `MaxVersion = 2` lets a fact be written here and elsewhere around a
fetch; two prices in flight (`MaxAsked`) can cross; three ticks tell "all", "some"
and "as many".

`services` (about 250 000 states): two assessors overrun a budget of 2, with
`MaxCost = 1` and up to two attempts each, over a change of month; tokens live
shorter and longer than the margin; four published days with `PageSize = 2` need
two pages, and one failure (`Faults`) hits each request of a loop; one job and
two overlapping requests (`MaxJobs`, `MaxTrail`) in the cockpit; two users, two
organizations and one request, whose three awaits everything can change under;
three profiles; names of up to three of three letters, of which two sound alike
(every pair, so that every border and a swap occur); classes, goods and words
that are absent, shared and related; eight openings at the ends of months, of a
leap year, an ordinary one and a century; amounts on both sides of a half cent;
two invoices, one order and two sessions, each of whose events may come twice.

### Fairness
`FairSpec` of `WorkerPipeline` assumes weak fairness of `Continue(j)` for each
handler call: the event loop runs every settled continuation, and every fetch and
every score settles, resolved or rejected (the HTTP clients have timeouts).
Nothing is assumed of calls, of the register, of the clock or of customers.

`services` assumes, each within its part: weak fairness of `AssessProgress(c)`
(the client sets no timeout of its own, but Node's `fetch` gives up on a silent
server; the event loop runs what settled), of
`CockpitProgress(q)` (a query or a probe comes back; a failing one is
`TellFails`), and of `ApplyWebhook(n)` (the provider delivers an event until it
is answered). Nobody is assumed to pay, to order or to ask.

The other modules state safety only and assume no fairness: in them nothing
happens unless somebody asks, not even an expiry.

## 4. Proofs

Every safety property of a passing run is stated by a theorem, for every value of
the constants; what stays with TLC is listed at the end of this section. The modules of
theorems assume what the modules they are about assume: types of the constants,
and that `None` and its like are apart from the values they are mixed with. Three
say a little more, and TLC evaluates them with the others: shares of signs are
percentages (`RiskAssumption`), windows open on dates of the calendar and are
followed for less than a year (`WindowAssumption`, as far as the years that the
model looks through), shares and opinions of a score are integers
(`WeightsAssumption`). Else the proofs make no use of the bounds.

### The worker
- `WorkerPipelineProofs`: `TypeCorrect`. `TypeOK` is not inductive: a page loop
  must be known to have a register, an initial scan a watch, and a candidate
  with a deadline a content (else an enqueued key would hold no source hash).
  `IInv == TypeOK /\ TaskShape /\ DeadlineHasContent` is. On top of it,
  `RunsAgree` and `FinishedStay`: every action starts a run, ends the run of the
  call that takes it, or leaves the runs alone, and the calls' runs are distinct.
- `DispatchProofs`: `JobsHandedOutOnce` and `PipelinesDispatchOnce`. On top of
  `IInv`, `QInv` adds that only a call that is scoring holds jobs, and that a
  call awaiting nothing has none left. `QueueStep` reduces every action to one
  of three effects on the queue (`Rests`, `Claims`, `Scores`), from which both
  the invariant and the refinement follow. `ScanStays`: what a scan claims is of
  its watch. `MatchesHaveGround`: the invariant `GInv` adds that what the store
  holds was published, that a key is of one register, and above all what a score
  that is awaited is about (`AwaitedGrounded`): a match is written from what was
  read before the await. `ScansFind`, under `OneAtATime`: the invariant `SInv` says
  that a key that was used up was scored into a match, is in a call's hands, or is of
  a content whose window is over (`KeysSettle`), for which it must know that a drained
  job's content stays the stored one until it is read (`HeldOpen`) and that a scan queued
  all that was open when it listed (`ScanListed`). With two calls neither is true: one
  replaces the content the other has queued.
- `WorkerPipelineProofs`, the store: `NothingSkipped`, `DeadlinesFollow`,
  `ReviewsKept`, and `StoreFollows` for the first two together. `StoreStep` reduces every action to
  one of three effects on the candidates; `StoreGrows` and `LogGrows` say that
  neither the store nor the log forgets, so that what a cursor has covered stays
  covered, and `FetchCovers` that a cursor moves past what was ingested in the
  same step only.

### What the worker and the API ask of others
- `ServicesProofs`, tenancy: `TenancyTyped`, `TenantIsHeld`, `TenantIsBearers`,
  `RequestsAreConfined`. Inductive: what each await of the hook
  already knows (the user of a valid token, a membership that was held when it was
  read) is among what the request's user held since it came in.
- The token: `BearersAlive`, for every latency. What is cached says how long its own
  request took, so the client stops using it before it is void, or that was longer
  than the margin or the token's life.
- The budget: `OverrunsBounded`. A call that passed the check, or still will by what
  it read, holds permits for its attempts (`Permits`), two at most; what is spent and
  what the permits may cost stay within the allowance, and a charge uses one up.
- Connectors: `CursorsSkipNothing` and `LoopsReadAll`. For the loop over daily files
  the invariant adds that it reads the days in order, and, when no file is left, that
  all that was there when it began is behind it.
- The cockpit: `CockpitIsAccounted`. No two requests run the same job, a job that is
  fetching is pending, and nothing is in the trail of a job that is not there yet
  (`FetchesApart`). `CockpitTyped` adds who is told (`Told`).
- Weights: `ScoresAlwaysHold`. In the worker nothing is ever published, so every
  score is made with the profile of its code, the first of every process
  (`WeightsInv`); the AI's opinion is clamped before it nudges. A total is a sum over
  the signals (`SumFunction`, a fold). The library's theorems of
  induction take an operator and cannot be used, but the well-foundedness of the
  numbers can (`WFMin`): a smallest counterexample shows that the partial sums exist,
  are integers, and differ by what one term does (`SumsExist`, `SumOfChanged`,
  `SumOfNaturals`).
- Risk: `MoreAlikeIsNeverSafer` and `AdviceIsSound`. The state is any pair of marks;
  each rule's rank is bounded and monotone in the strength of signs and of goods
  (`SignStrengthGrows`, `GoodsGrow`, `BandGrows`), a taken name reaches the top rule
  (`TakenIsHigh`), and turning a pair over leaves every input of the rules as it is
  (`TurnedAgrees`).
- The last day to oppose: `DeadlinesAreSound`. Numbers of days and dates are taken
  into each other, in the same order, and the next date is the next number
  (`WrittenAgain`, `DatesInOrder`, `TomorrowIs`), leap years and ends of months
  included. `WindowInv` counts the calendar's leaves: today is that many days, and
  ends of months, after the day the window opened. So the deadline that was computed
  is the leaf that is last (`LastDayIs`), a later publication ends no earlier
  (`LaterEndsLater`), and the count of days rounds as it should (`CountedDown`).
- `PlatformProofs`, bills: `BooksAlwaysClose` and `RepeatsUndoNothing`. A webhook may come for
  a session of long ago, so the invariant says of every session, and of every request
  for one, what it knows of the books, and of every order that it has its one invoice
  (`OrdersBilled`, `BilledOnce`). An amount is a number or what some catalog asks
  (`QuoteAt`); that the latter is a number too is `BillingTyped`, with the sums of
  `ServicesProofs`. `InvoicesAddUp`,
  `LinesAgree`, `RoundingIsBounded`, `BackfillIsExact` and `AmountsAlwaysAgree`: for
  every amount, lemmas about the quotient that `Math.round` takes, and the sums over
  the lines as the inductive invariant. Amounts are natural numbers of cents.

- `PlatformProofs`, the whole: `ServicesTyped`, `RulesAlwaysHold`,
  `MeasuresAlwaysHold`, `ServicesAreSafe`. A step of
  `MCServices` is one of the component whose part it is, and a stuttering step of
  every other, so a behaviour of the composition is one of each component's own
  specification (`AiPart`, `TokenPart`, ...), and what is proved of those is true of
  it.

### The string measures
`TextProofs`: `NamesMeasured`, from `FewestEditsAre`, `SwapsHelp`, `SimilaritiesFair`
and `SharedRunIs`, for every alphabet and every length of names. The state is any
pair of names (`NamesCompared`); what has to be shown is what recursive functions
compute. A rank of their places does for induction: among the places where something
fails there is one of least rank (`RankInduction`), and likewise there is a function
that solves the recursive equations on all places (`Solution`, `Loop`).
- The matrix. `Filled` says of every cell that it is bounded by its neighbours and
  meets one of the bounds; all else is shown of any filled table. Cells stay within
  the length of the longer name and at least the difference in length (`MatrixBounded`,
  `MatrixFar`), a table of swapped arguments is its mirror image (`Transposed`), equal
  letters cost nothing (`Diagonal`).
- Fewest edits. The table is a metric: `Triangle` is shown for three names by
  induction over their places, so that n single edits, each at a distance of
  one at most (`StepIsNear`), lead no further than n (`BallNear`). The other way,
  a cell is the length of a path of edits that can be read off it (`PathExists`),
  over words no longer than the longer name, so that it stays within `Names`
  (`BallReached`).
- Turned letters. A cell of the table that knows them is at most the plain one, and
  at least half of it (`SwapsHalve`): a swap saves one of two edits. Two neighbours
  that changed places are at one edit (`TurnedIsOne`), equal names at none.
- The shared run. A cell is the length of the longest run that ends at its two
  letters (`RunsEnd`), so that the largest cell is the longest run.
- Jaro. That its greedy matching is the same from either name is not evident: the
  letters of one name choose in order. `Greedy` describes the pairs without an
  order (whatever could be matched and is not is kept out by a pair with an earlier
  letter of either name), at most one set of pairs is such (`OneGreedy`), what the
  loop finds is (`MatchesAreGreedy`), and the description is the same for both
  names (`GreedyFlips`). The transposed letters are then the same places
  (`JaroFair`), and the sum of three shares is a share (`JaroShare`).
- Rewriting before the weighted distance yields words (`ReplacedIs`), prefixes and
  suffixes fit into the shorter name, sets of trigrams are finite, so that each of
  the eleven measures is `Fair`: a share, symmetric, and one for equal names.

### Plans and reviews
- `SubscriptionProofs`: `PendingIsScheduled`, `PeriodsInvoiced`,
  `NextInvoiceKeepsStep`, `RecipientsFit`, and `ConsistentThroughout` for all of
  `SubscriptionConsistent`. The inductive invariant adds to the properties that
  the catalog is the default one until operators steer (`DefaultHolds`).
  `RecipientsFit` needs the assumption `CatalogGrows`: an upgrade is granted on
  watches and price alone, so a catalog with a dearer plan of fewer recipients
  would break it. The code's own catalog grows. `OverrunIsBounded` and
  `CountsAnswer` assume nothing of how calls overlap or what is resumed. `CountsHold`:
  what a call counted is no less than what is active of what it saw (all but `late`).
  For the overrun, an invariant in which every watch beyond the plan has used up a call
  (`OverrunPaid`): for every n from the plan's limit up that the watches have reached
  which were not resumed, those watches and the calls that counted fewer than n
  (`Admitted`) are together fewer than n and all the calls there are. A call that
  counts from then on counts n or more, and the plan in force only grows while nobody
  steers. Why for every n and not the limit alone: an upgrade moves the limit up to a
  number of which nothing would be known.
- `MatchReviewProofs`: `ExpiriesAreDue`, `RejectionsAreReasoned`,
  `NothingAnnotatedIsLost`, `ClosedMatchesStand`, `DecisionsHaveGround`, for any
  number of requests, all of which may write notes. Inductive: who is listed as
  overdue was so when listed and stays so (`ExpiryInv`); every note that is known
  anywhere, on a row or in the locals of a request, is on file or was overlapped by
  one that is (`NotesInv`), for which ids of notes are fresh and grow; and a match
  that a request judged is not closed unless somebody wrote it since (`JudgedInv`).

### The organization
`OrganizationProofs` has a section for each part, with its invariant, and one that
puts them together: a step of the whole is one of a part or leaves it alone
(`PartsStep`), so that the conjunction `OrganizationInv` is inductive.
- Members: `AnAdminRemains` and `OwnersLeaveOnly`. The number of
  administrators is a cardinality; `AnotherAdmin` turns "not the last" into "there
  is another", from which each action follows.
- `ActsAreAttributed`. Conversations: at most one participant stands for an author
  in a thread, so that the one found or made is the author's (`SaysKeeps`). The
  desk: `LogOK` relates the log to the changes that were heard of, in the log's
  order and entry by entry; `LogWaits` and `LogHears` are its two kinds of step.
- `SettingsAreKept`. A settings call knows which recipients bound the score it is
  about to write, except those written since (`GatesHold`); a step that changes a
  recipient is one of `PutKeeps`, by the call that asked for it.
- `ThingsAreMadeAsShown`. Wizards: while no answer overtook another, the price on
  its way or shown is that of the selection (`PriceIsCurrent`). Forms: ticks that
  are as many as the active watches are all of them (`AllAreAll`). Frame: the two
  menus are finite and given, and `OneLeaf` goes through them.
- `DraftsAreKept`. A form that follows holds its query's data wherever nobody typed.
- `OrganizationTyped`: the types of all parts.
- `WritersSeeTheirs`, of the pane by itself: whoever may expect to see a message has
  it under way or on the screen, in an answer no older than the message.
- `ScreensAreCurrent`, of the cache by itself: what this browser wrote last is what
  the entry has or is about to ask for, but for the pairs in `Gaps`. That a mutation
  that tells nobody is in `Gaps` for every query it should tell is a fact about the
  tables of screens, queries and mutations; the module states it as
  `GapsAssumption`, in which no constant occurs, and TLC evaluates it.

### What stays with TLC
- Liveness (`HandlersSettle`, `SyncReachesEveryRegister`, `ServicesSettle`,
  `PaymentSettles`): fairness and `ENABLED` are out of the prover's reach.
- The findings of section 6: a violation is a behaviour, which TLC shows.

## 5. Plan

1. `WorkerPipeline` with its abstract queue, and their proofs (done).
2. `Members`, `Subscription`, `MatchReview`, and their proofs (done).
3. `AiAssessment`, `AccessToken`, `RegisterConnectors`: what the worker awaits (done).
4. `Billing`, `Vat` with its proofs: orders, invoices, payment events (done).
5. `Conversations`, `Recipients`, `OperatorDesk`, `RegisterCockpit` (done).
6. `Tenancy` with its proofs (done).
7. `WeightProfiles`, `TextDistance`, `RiskRules`, `OppositionWindow` (done).
8. The web application: `QueryCache`, `Wizards`, `Shell`, `ThreadPane`, `Forms` (done).
9. The proofs of section 4: every safety property of the passing runs (done).
10. Open: the eligibility of a watch and the protection a customer is shown; the
    settings of the AI provider.

## 6. Where the code and its documentation disagree

Five of them are runs that TLC finds violated; `PROJECT.json` quotes the lines.

- *The last day* (`pipeline_last_day`): a match is archived from the first moment
  after 00:00 of its deadline date, which the docs call the inclusive last day to
  oppose.
- *Failed fetch* (`pipeline_failed_fetch`): when a later page fails, what the
  earlier pages changed is not matched, and the saved checkpoint keeps the next
  sync from coming back to it.
- *Plan limit* (`sub_limit_race`): two requests that overlap both pass the limit
  on active watches.
- *Filed* (`review_filed`): the view of deadlines expires matches whose opposition
  was filed.
- *Demo headers* (`tenant_headers`): with demo authentication off, the handlers of
  members and of the chat still take the acting user and role from the demo headers,
  which the docs call an identity in demos only.

The others were met while modelling; the modules contain the behaviour, and no
run is spent on it. A definition is named where one has it.

### Worker and connectors
- `ArchiveExpiredMatches`: archiving for one organization archives everybody's
  expired matches (`archive-expired-matches.ts:19`).
- `DailySyncRejects`: the daily sync rejects for a register without connector,
  although its comment says that it never throws.
- `Fresh`: a content that returns to an earlier one is not re-queued, although
  `idempotency.ts:41` says that a candidate that changes again is.
- `FetchAnswered`: an initial scan stops at the page limit and succeeds, although
  `initial-opposition-scan-pipeline.ts:32` promises the full history.
- `FetchFailed`: a date that is not written as `YYYY-MM-DD` passes validation
  (`candidate-application.ts:43` asks for any text) and makes
  `calculateOppositionDeadline` throw, so that its page fails with every sync.
- `DeriveEffectiveProceduralStatus`: an application counts as open until midnight
  at the start of its last day only; the page of deadlines (`DaysBetween`) counts
  to its end.
- `DeltaRead`: the WIPO parser leaves out a record it cannot read and goes on, where
  `register-errors.ts:61` wants what cannot be mapped logged loudly and never
  papered over.
- `TokenArrives`: fetching a token has no timeout, and a request refused with 401
  leaves the token cached.
- `InvalidAnswer`: a retry is charged on top of a budget read once
  (`docs/scoring/ai-layer.md:31`, `:64`).
- Only BOIP's two months apply to every generic register: none is given a number
  of months (`ConfiguredOppositionRuleSet`).

### Matches and watches
- `SetWatchStatus`: resuming a paused or archived watch does not ask the plan's
  limit.
- `WriteNote`: of two notes written at the same time one is lost, and it may be the
  reason of a rejection that then takes effect (`postgres-store.ts:256`).
- `WriteStatus`, `Expire`: with overlapping requests a decision or an expiry is
  written over one taken since the match was read, so that a dismissed match comes
  back under review (`match-queue.test.ts:33`, "accepts only from new") or is
  expired (`routes/deadlines.ts:19`).
- `PatchStatus`: a status update takes a match out of
  `opposition_deadline_passed`, which `opposition-workflow.md:96` calls terminal.
- `Acceptable`, `Normalized`: a recipient's threshold is not tested against the
  watches it covers (`assertRecipientThresholdCompatibleWithWatch` has no caller),
  and the operators' route to a watch's settings (`OperatorSettings`,
  `platform-org.ts:413`) skips the test the customers' has, which is there for
  thresholds that contradict each other (`notification-thresholds.ts:55`).
- `Covers`: an empty list of watches means all of them; "all watches" of a new
  recipient is stored as the list of those active then.
- `StoreWrites`: the second of two writes of `updateWatchedTrademarkSettings` may
  fail while the call succeeds.

### Subscription, orders, payments
- `ListForChange`, `ChangePlan`: a downgrade is decided with a count of active
  watches taken before an await (`routes/subscription.ts:23`).
- `Undone`: undoing a cancellation that has taken effect plans an invoice for a
  canceled subscription, after `AbonnementPage.vue:232` said there would be none.
- `Rolled`: the period of a scheduled downgrade rolls over and the plan stays what
  it was; nothing applies a pending plan, which `AbonnementPage.vue:129` announces.
- `IssueUpcomingInvoice`: no route calls it, nor `finalizeInvoice`.
- `OrderForMoney`: an order is marked paid when its session is asked for.
- `SessionFails`: the order stays `awaiting_payment` with an open invoice, and
  paying that invoice never runs the order.
- `OrderUnbilled`: without a provider the route completes order and invoice, where
  `docs/integrations/stripe.md` rules out a silent mock success.
- `RunSteps`: an order for registers that are coming soon only completes without a
  search, and its advice is "low".
- `LinesWithinACent`: the line of an invoice made from a price with VAT may be a
  cent off its total.
- `docs/product/merkonderzoek.md` restricts chat to entitled orders; the route does
  not ask.

### Operators
- `Gate`: a patch `{disabled, enabledForWatch: true}` of a register passes the gate
  for live ones (`platform.ts:469`, `world-catalog.md`); `{live,
  enabledForWatch: false}` keeps a stale reason; `coming_soon` leaves the watch flag.
- `RetryJob`: a job that is retried is marked and never run.
- `SetCredentials`: new credentials leave the last probe at "ok"; `ProbeReturns`:
  of two overlapping probes the last to answer stays.
- `TellFails`: a loop that breaks off has told half the organizations and records
  no entry; `NothingChangesUnseen` has the exception.
- `Recorded`: entries of changes that await the store may stand in another order
  than the changes.
- `PostReply`: a reply of an operator is logged without organization, so that the
  organization's page never shows it.
- `TestWithoutKey`: testing an AI provider without key leaves no entry.
- `PatchCustomer` counts subscriptions of the platform store, which are not those of
  `OrgBillingChatStore` (`platform.ts:146`).
- `connector-cockpit-store.ts:38` says that keys are never stored; `upsertApiKey`
  stores one. `world-catalog.md` asks for working monitoring before a daily sync;
  the worker never looks at the cockpit.
- `Publish`: weights that are published never reach the worker's process; after a
  restart of the API an id of a profile is used again.
- `OperatorParticipant`: messages of all operators stand under the name of the
  first (`org-store.ts:1114`).

### Tenancy
- `Boot`: what the self-check at the start finds is logged and the API starts all the
  same (`app.ts:62`).
- `DemoRow`: without a membership a user of the demo directory gets its
  organization.

### Scoring
- `Coverage` is at least 0.85 where there is text, so that goods count as similar
  even when disjoint, and the branch for missing goods is never taken; the number of
  shared weak words is always 0; two names without significant words have all of
  none in common (`TokenSet`).
- Swaps make the distance violate the triangle inequality, and the weighted one may
  be below the plain one (`DamerauDistance`, `WeightedDistance`).
- Matches are made from a total of 15 on, while `docs/scoring/weights.md` does not
  surface totals below 25; the web application shows the AI's weight as 3%
  whatever the profile says.

### Web application
- Keys that do not follow the route or the choice (`OneMatch`, `OneWatch`,
  `OneThread`, `OneOrganization`, `OneOrder`): going from one dossier to another by
  history keeps the old match on screen while its buttons act on the new one; every
  dossier's watch shares one key (`WatchOfMatch`); starting a conversation while
  another is open leaves the pane on that one.
- `QuoteAnswers`: prices that come out of order leave an older one on screen.
- `Scopes`: a register whose classes were cleared says "Selecteer minstens één
  klasse" and is ordered with the default ones; the check at submit never triggers.
  The wizard never uses a credit (`useCredit: false`).
- `RunLookup` ignores the register chosen; the label of an earlier lookup stays.
- `AllTicked` compares numbers: a tick of an archived watch counts toward "all";
  unticking all means all.
- `ThresholdDrafts`: saving the threshold of one watch resets the drafts of all.
  `WatchSettingsForm`, `NotesForm` do not follow their query: a save reverts a change
  the page has shown.
- `ReadDeadlines`: reading the deadlines expires matches, and no list is told.
  `PlatformOrgMutations`: a reply or a notice does not invalidate the organization's
  page; a renamed operator stays in the sidebar.
- `FetchFails`: requests carry neither a token nor a tenant (`client.ts`).
- `IsOpen`: the path's group and the one opened by hand may both be open; a group
  open by default whose id an older stored map lacks stays open as well.
- The dashboard counts unread notifications of a list that reading them in the inbox
  does not change.

### Outside the modules
- `/Length` in the PDFs of `exports/invoice.ts` and `dossier-pdf.ts` counts UTF-16
  units; "yesterday" of the import sync is now minus 24 hours, which is today on
  the day the clock goes back; reason codes of a funnel stage that is recorded twice
  are overwritten (`pipeline-funnel.ts`); `candidate-retrieval` has no caller outside
  tests.

## 7. Not modelled

- *Application shell, exports, notifications' delivery, logging, config, schemas*:
  wiring, formatting and I/O, no state a property could be about. The handlers of
  read-only routes are left out, but for those that write (`GET /deadlines`).
- *SQL schema and policies*: declarative, and no code of the worker runs on it; the
  API's isolation rests on the tenant of the request, which `Tenancy` has.
- *Data*: register catalogs, class tables and phonetic codes are tables; prompts,
  the mapping of a record's fields, messages and layout are wording. The score of a
  pair is three-valued in `WorkerPipeline`; the measures behind it are in
  `TextDistance` one by one, their tokenization and phonetic codes are not.
- *External systems*, modelled from how the code uses them: the payment provider
  (sessions, events in any order and number), the registers (logs of publications),
  the query library's cache, JavaScript's dates, the tables of memberships.
- *Crashes*: the worker's JobStore and the API's stores live in memory, so that a
  restart forgets everything, and nothing is recovered; only `WeightProfiles` has a
  restart, because scores outlive the profiles they name. With the Postgres store a
  request may fail at every query (`QueryFails`, `AnswerLost`).
