---------------------------- MODULE WorkerPipeline ----------------------------
(***************************************************************************)
(* The worker's job handlers over the shared JobStore: REGISTER_SYNC (the  *)
(* daily sync pipeline), INITIAL_OPPOSITION_SCAN, MATCH_CANDIDATE_BATCH,   *)
(* SCORE_MATCH / AI_ASSESS_MATCH, REFRESH_DEADLINES and                    *)
(* ARCHIVE_EXPIRED_MATCHES.                                                *)
(*                                                                         *)
(* Every handler is an async function on one event loop, so a step of the  *)
(* model is the code that runs between two awaits.  runJob imposes no      *)
(* mutual exclusion: Job is the set of handler calls that may be in flight *)
(* together, and with a single element the handlers run one at a time.     *)
(*                                                                         *)
(* A register is an append-only log of publications.  A publication is one *)
(* content (Version) of one application (Cand); the content stands for the *)
(* sourceHash.  One fetch returns at most one publication: pages of more   *)
(* are these same steps with fewer interleavings.                          *)
(***************************************************************************)
EXTENDS Integers, Sequences, FiniteSets

CONSTANTS
    Register,       \* register codes
    Connected,      \* the registers context.connectors has a connector for
    Watch,          \* watched trademarks
    Cand,           \* candidate applications, by (registryCode, applicationNumber)
    Version,        \* contents an application may be published with
    Org,            \* organizations
    Job,            \* concurrent handler calls
    WatchRegister,  \* WatchRegister[w]: register of the watched trademark
    WatchOrg,       \* WatchOrg[w]: the organization that owns the watch
    CandRegister,   \* CandRegister[c]: register of the application
    Content,        \* Content[c][v]: what that content says, a member of Facts
    Invalid,        \* <<c, v>> that candidateApplicationInputSchema rejects
    MustMatch,      \* <<w, c, v>> scoring at least the threshold whatever the AI says
    MayMatch,       \* <<w, c, v>> the AI adjustment may lift above or drop below it
    Eligible,       \* watches whose eligibility decision is positive
    TicksPerDay,    \* clock ticks in a day; a date is its midnight
    MaxPages,       \* DEFAULT_MAX_PAGES
    MaxFeed,        \* bound: publications per register
    MaxRuns,        \* bound: scan runs when a handler may still be called
    MaxTime,        \* bound: clock
    Decisions,      \* bound: the decisions reviewers take, among Reviewed
    WatchMoves,     \* bound: the statuses watches are given, among WatchStatus
    None            \* null / undefined

\* The statuses the rules below tell apart; the others of the code behave like one of these.
ProceduralStatus == {"published", "opposition_period", "withdrawn", "refused"}
Reviewed         == {"under_review", "confirmed_conflict", "dismissed", "opposition_filed"}
MatchStatus      == Reviewed \cup {"new", "opposition_deadline_passed"}
Terminal         == {"dismissed", "opposition_filed", "opposition_deadline_passed"}
WatchStatus      == {"active", "paused"}
Period           == [start: Nat, deadline: Nat]
Facts            == [status: ProceduralStatus, start: Nat, deadline: Nat]
Pair             == Watch \X Cand
Key              == Watch \X Cand \X Version

ASSUME ConstantsAssumption ==
    /\ Connected \subseteq Register
    /\ WatchRegister \in [Watch -> Register]
    /\ WatchOrg \in [Watch -> Org]
    /\ CandRegister \in [Cand -> Register]
    /\ Content \in [Cand -> [Version -> Facts]]
    /\ Invalid \subseteq Cand \X Version
    /\ MustMatch \subseteq Key
    /\ MayMatch \subseteq Key
    /\ Eligible \subseteq Watch
    /\ Decisions \subseteq Reviewed /\ WatchMoves \subseteq WatchStatus
    /\ TicksPerDay \in Nat \ {0}
    /\ MaxPages \in Nat \ {0}
    /\ {MaxFeed, MaxRuns, MaxTime} \subseteq Nat
    /\ None \notin Version \cup Watch \cup Register \cup Key \cup Pair \cup Period
    /\ None \notin ProceduralStatus \cup MatchStatus \cup WatchStatus

VARIABLES
    now,         \* the clock
    feed,        \* feed[r]: the register's log of publications
    watch,       \* watch[w]: status of the stored watch, None = not stored
    store,       \* store[c]: the stored candidate application
    checkpoint,  \* checkpoint[r]: saved SourceCheckpoint cursor, 0 = none saved
    keys,        \* enqueuedMatchJobKeys
    queue,       \* matchJobQueue
    matches,     \* matches[<<w, c>>]: the trademark match of the pair
    runs,        \* scan runs in the order they started
    pc,          \* pc[j]: where the handler call stands
    task,        \* task[j]: what it was called for
    rest,        \* rest[j]: registers REGISTER_SYNC has still to sync
    paging,      \* paging[j]: locals of the page loop
    todo,        \* todo[j]: jobs drained from the queue, not yet read
    cur,         \* cur[j]: the pair whose score is awaited
    runOf        \* runOf[j]: index of its scan run, 0 = none

env     == <<now, feed, watch>>
db      == <<store, checkpoint, keys, queue, matches, runs>>
locals  == <<pc, task, rest, paging, todo, cur, runOf>>
vars    == <<env, db, locals>>

NoRecord  == [ver |-> None, status |-> None, period |-> None]
NoMatch   == [status |-> None, scored |-> None]
NoItem    == [pair |-> None, key |-> None, ver |-> None]
NoTask    == [kind |-> "none", register |-> None, watch |-> None, listed |-> 0]
FirstPage == [cursor |-> 0, pages |-> 0, seen |-> 0, changed |-> {}]

Kind == {"none", "REGISTER_SYNC", "INITIAL_OPPOSITION_SCAN", "MATCH_CANDIDATE_BATCH", "SCORE_MATCH"}

(***************************************************************************)
(* The domain rules.                                                       *)
(***************************************************************************)
Midnight(d) == d * TicksPerDay

\* The stored oppositionDeadline of a content: its start and deadline dates.
PeriodOf(c, v) == [start |-> Content[c][v].start, deadline |-> Content[c][v].deadline]

InPeriod(p, t) == Midnight(p.start) <= t /\ t <= Midnight(p.deadline)

\* deriveEffectiveProceduralStatus
EffectiveStatus(c, v, t) ==
    IF Content[c][v].status = "published" /\ InPeriod(PeriodOf(c, v), t)
    THEN "opposition_period" ELSE Content[c][v].status

\* isWithinOppositionWindow of a stored candidate
WithinWindow(rec, t) ==
    /\ rec.period # None
    /\ rec.status \notin {"withdrawn", "refused"}
    /\ InPeriod(rec.period, t)

ActiveEligible(w) == watch[w] = "active" /\ w \in Eligible

(***************************************************************************)
(* Operations of the JobStore, as the values they leave behind.            *)
(***************************************************************************)
\* upsertCandidateApplication: nothing is written when the content is the stored one.
Upserted(st, c, v) ==
    IF st[c].ver = v THEN st
    ELSE [st EXCEPT ![c] = [@ EXCEPT !.ver = v, !.status = EffectiveStatus(c, v, now)]]

\* setOppositionDeadline
WithDeadline(st, c, p) == [st EXCEPT ![c] = [@ EXCEPT !.period = p]]

\* One publication through ingestConnectorBatch: validate, upsert, set the deadline.
Ingested(e) ==
    IF <<e.cand, e.ver>> \in Invalid THEN store
    ELSE WithDeadline(Upserted(store, e.cand, e.ver), e.cand, PeriodOf(e.cand, e.ver))

ChangedBy(e) ==
    IF <<e.cand, e.ver>> \in Invalid \/ store[e.cand].ver = e.ver THEN {} ELSE {e.cand}

\* refreshMissingOppositionDeadlines for one register
MissingRefreshed(r) ==
    [c \in Cand |->
        IF CandRegister[c] = r /\ store[c].ver # None /\ store[c].period = None
        THEN [store[c] EXCEPT !.period = PeriodOf(c, store[c].ver)] ELSE store[c]]

\* archiveExpiredMatches over every match of the store
Expired(p) ==
    /\ matches[p].status \notin Terminal \cup {None}
    /\ store[p[2]].period # None
    /\ Midnight(store[p[2]].period.deadline) < now

Archived ==
    [p \in Pair |-> IF Expired(p) THEN [matches[p] EXCEPT !.status = "opposition_deadline_passed"]
                    ELSE matches[p]]

\* Mutant: a re-score starts the review over.
MatchReset(p, v) == [matches EXCEPT ![p] = [status |-> "new", scored |-> v]]

\* Mutant: the score is filed under the content stored by the time it arrives.
MatchOfNow(p, v) ==
    [matches EXCEPT ![p] = [status |-> IF @.status = None THEN "new" ELSE @.status, scored |-> store[p[2]].ver]]

\* upsertTrademarkMatch: a re-score keeps the status of an existing match.
MatchUpserted(p, v) ==
    [matches EXCEPT ![p] = [status |-> IF @.status = None THEN "new" ELSE @.status, scored |-> v]]

\* Whether the total score reached MATCH_CREATION_MIN_TOTAL_SCORE.
AboveThreshold(k) ==
    IF k \in MustMatch THEN {TRUE} ELSE IF k \in MayMatch THEN BOOLEAN ELSE {FALSE}

\* listActiveEligibleWatchedTrademarks of a register
WatchesOf(r) == {w \in Watch : ActiveEligible(w) /\ WatchRegister[w] = r}

\* Mutant: trusts the status derived when the candidate was stored.
OpenWhenStored(r, st) ==
    {c \in Cand : CandRegister[c] = r /\ st[c].status = "opposition_period" /\ WithinWindow(st[c], now)}

\* listOpenOppositionCandidates of a register
OpenCandidates(r, st) == {c \in Cand : CandRegister[c] = r /\ WithinWindow(st[c], now)}

\* Mutants: the idempotency key is not looked up; it leaves out the source hash.
FreshRepeats(W, C, st)   == {<<w, c, st[c].ver>> : w \in W, c \in C}
FreshUnhashed(W, C, st)  == {k \in W \X C : k \notin keys}

\* enqueueMatchJob: the keys of W x C for the contents st holds that were never enqueued.
Fresh(W, C, st) == {k \in {<<w, c, st[c].ver>> : w \in W, c \in C} : k \notin keys}

(***************************************************************************)
(* Handing out and taking match jobs.                                      *)
(***************************************************************************)
\* runQueuedMatchJobs reads the next job's candidate and tests the window before it awaits
\* the score; ver = None is a job dropped by that test.
Item(k, st) ==
    [pair |-> <<k[1], k[2]>>, key |-> k, ver |-> IF WithinWindow(st[k[2]], now) THEN st[k[2]].ver ELSE None]

TakeNext(j, S, st) ==
    \/ S = {} /\ cur' = [cur EXCEPT ![j] = NoItem] /\ todo' = [todo EXCEPT ![j] = {}]
    \/ \E k \in S : /\ cur' = [cur EXCEPT ![j] = Item(k, st)]
                    /\ todo' = [todo EXCEPT ![j] = S \ {k}]

\* Mutant: the queue is drained before the new jobs are put on it.
DrainThenEnqueue(j, W, C, st) ==
    LET new == Fresh(W, C, st) IN
    /\ keys' = keys \cup new
    /\ queue' = new
    /\ TakeNext(j, queue, st)

\* Enqueue, drain the whole queue and read the first job, with no await between.
EnqueueAndDrain(j, W, C, st) ==
    LET new == Fresh(W, C, st) IN
    /\ keys' = keys \cup new
    /\ queue' = {}
    /\ TakeNext(j, queue \cup new, st)

\* Mutants: the latest run is the one finished; the run's row is not written.
FinishLatestRun(j, status) ==
    /\ runs' = [runs EXCEPT ![Len(runs)] = [@ EXCEPT !.status = status]]
    /\ runOf' = [runOf EXCEPT ![j] = 0]
FinishSilently(j, status) == UNCHANGED runs /\ runOf' = [runOf EXCEPT ![j] = 0]

FinishRun(j, status) ==
    /\ runs' = [runs EXCEPT ![runOf[j]] = [@ EXCEPT !.status = status]]
    /\ runOf' = [runOf EXCEPT ![j] = 0]

AppendRun(type, status, r) ==
    runs' = Append(runs, [type |-> type, status |-> status, register |-> r])

Free(j) == pc[j] \in {"idle", "rejected"}

(***************************************************************************)
(* REGISTER_SYNC: the daily sync pipeline for one register after another.  *)
(***************************************************************************)
RegisterSync(j, R) ==
    /\ Free(j)
    /\ Len(runs) < MaxRuns
    /\ pc' = [pc EXCEPT ![j] = "next"]
    /\ task' = [task EXCEPT ![j] = [NoTask EXCEPT !.kind = "REGISTER_SYNC"]]
    /\ rest' = [rest EXCEPT ![j] = R]
    /\ UNCHANGED <<env, db, paging, todo, cur, runOf>>

\* The pipeline's first segment, up to the first fetch.
BeginDailySync(j) ==
    /\ pc[j] = "next"
    /\ \E r \in rest[j] :
        /\ r \in Connected
        /\ AppendRun("DAILY_SYNC", "running", r)
        /\ runOf' = [runOf EXCEPT ![j] = Len(runs) + 1]
        /\ rest' = [rest EXCEPT ![j] = @ \ {r}]
        /\ task' = [task EXCEPT ![j] = [@ EXCEPT !.register = r]]
        /\ paging' = [paging EXCEPT ![j] =
                        [FirstPage EXCEPT !.cursor = checkpoint[r], !.seen = Len(feed[r])]]
    /\ pc' = [pc EXCEPT ![j] = "fetch"]
    /\ UNCHANGED <<env, store, checkpoint, keys, queue, matches, todo, cur>>

\* getConnector throws before the pipeline's try block is entered.
DailySyncRejects(j) ==
    /\ pc[j] = "next"
    /\ \E r \in rest[j] : r \notin Connected
    /\ pc' = [pc EXCEPT ![j] = "rejected"]
    /\ rest' = [rest EXCEPT ![j] = {}]
    /\ UNCHANGED <<env, db, task, paging, todo, cur, runOf>>

RegisterSyncDone(j) ==
    /\ pc[j] = "next" /\ rest[j] = {}
    /\ pc' = [pc EXCEPT ![j] = "idle"]
    /\ task' = [task EXCEPT ![j] = NoTask]
    /\ UNCHANGED <<env, db, rest, paging, todo, cur, runOf>>

(***************************************************************************)
(* INITIAL_OPPOSITION_SCAN of one watch: skipped, failed for want of a     *)
(* connector, or started at the beginning of the register's log.           *)
(***************************************************************************)
ScanSkipped(j, w) ==
    /\ Free(j)
    /\ Len(runs) < MaxRuns
    /\ ~ActiveEligible(w)
    /\ AppendRun("INITIAL_OPPOSITION_SCAN", "skipped",
                 IF watch[w] = None THEN None ELSE WatchRegister[w])
    /\ UNCHANGED <<env, store, checkpoint, keys, queue, matches, locals>>

ScanUnconnected(j, w) ==
    /\ Free(j)
    /\ Len(runs) < MaxRuns
    /\ ActiveEligible(w) /\ WatchRegister[w] \notin Connected
    /\ AppendRun("INITIAL_OPPOSITION_SCAN", "failed", WatchRegister[w])
    /\ UNCHANGED <<env, store, checkpoint, keys, queue, matches, locals>>

BeginScan(j, w) ==
    /\ Free(j)
    /\ Len(runs) < MaxRuns
    /\ ActiveEligible(w) /\ WatchRegister[w] \in Connected
    /\ AppendRun("INITIAL_OPPOSITION_SCAN", "running", WatchRegister[w])
    /\ runOf' = [runOf EXCEPT ![j] = Len(runs) + 1]
    /\ task' = [task EXCEPT ![j] = [kind |-> "INITIAL_OPPOSITION_SCAN",
                    register |-> WatchRegister[w], watch |-> w, listed |-> 0]]
    /\ paging' = [paging EXCEPT ![j] = [FirstPage EXCEPT !.seen = Len(feed[WatchRegister[w]])]]
    /\ pc' = [pc EXCEPT ![j] = "fetch"]
    /\ UNCHANGED <<env, store, checkpoint, keys, queue, matches, rest, todo, cur>>

(***************************************************************************)
(* The page loop both pipelines share.  The register answers from its log  *)
(* as it stood at some moment since the request: n is the length it saw.   *)
(* A connector may give no nextCheckpoint with its last page.              *)
(***************************************************************************)
HasMore(j, n) == paging[j].cursor + 1 < n

\* Mutant: the last page moves the cursor on, also when it is empty.
EagerCursors(j, n) == IF HasMore(j, n) THEN {paging[j].cursor + 1} ELSE {paging[j].cursor + 1, 0}

NextCursors(j, n) ==
    IF HasMore(j, n) THEN {paging[j].cursor + 1}
    ELSE IF paging[j].cursor < n THEN {paging[j].cursor + 1, 0} ELSE {0}

Daily(j) == task[j].kind = "REGISTER_SYNC"
LoopsOn(j, n) == HasMore(j, n) /\ paging[j].pages + 1 < MaxPages

\* The publications on the page, and the applications changed since the run began.
Page(j, n)    == IF paging[j].cursor < n THEN {feed[task[j].register][paging[j].cursor + 1]} ELSE {}
Changed(j, n) == paging[j].changed \cup UNION {ChangedBy(e) : e \in Page(j, n)}

\* ingestConnectorBatch of the page
IngestPage(j, n) ==
    \/ Page(j, n) = {} /\ UNCHANGED store
    \/ \E e \in Page(j, n) : store' = Ingested(e)

\* A daily sync saves each page's checkpoint, an initial scan none.
SaveCheckpoint(j, next) ==
    checkpoint' = IF Daily(j) /\ next # 0 THEN [checkpoint EXCEPT ![task[j].register] = next] ELSE checkpoint

NextPage(j, n, next) ==
    /\ LoopsOn(j, n)
    /\ paging' = [paging EXCEPT ![j] = [cursor  |-> next,
                                        pages   |-> @.pages + 1,
                                        seen    |-> Len(feed[task[j].register]),
                                        changed |-> IF Daily(j) THEN Changed(j, n) ELSE {}]]
    /\ UNCHANGED <<keys, queue, todo, cur, pc, task>>

\* After the last page: a daily sync queues the applications it changed, an initial scan all
\* of the register, as far as they are open; then the queue is drained.
StartMatching(j, n) ==
    LET r    == task[j].register
        open == OpenCandidates(r, store')
    IN /\ ~LoopsOn(j, n)
       /\ paging' = [paging EXCEPT ![j] = FirstPage]
       /\ IF Daily(j) THEN EnqueueAndDrain(j, WatchesOf(r), Changed(j, n) \cap open, store')
                      ELSE EnqueueAndDrain(j, {task[j].watch}, open, store')
       /\ pc' = [pc EXCEPT ![j] = "score"]
       /\ task' = [task EXCEPT ![j] = [@ EXCEPT !.listed = IF Daily(j) THEN 0 ELSE now]]

FetchAnswered(j) ==
    /\ pc[j] = "fetch"
    /\ \E n \in paging[j].seen .. Len(feed[task[j].register]) : \E next \in NextCursors(j, n) :
        /\ IngestPage(j, n)
        /\ SaveCheckpoint(j, next)
        /\ NextPage(j, n, next) \/ StartMatching(j, n)
    /\ UNCHANGED <<env, matches, runs, rest, runOf>>

\* Mutant: the first failure ends the whole REGISTER_SYNC.
FetchAborts(j) ==
    /\ pc[j] = "fetch"
    /\ FinishRun(j, "failed")
    /\ pc' = [pc EXCEPT ![j] = "idle"]
    /\ task' = [task EXCEPT ![j] = NoTask]
    /\ rest' = [rest EXCEPT ![j] = {}]
    /\ paging' = [paging EXCEPT ![j] = FirstPage]
    /\ UNCHANGED <<env, store, checkpoint, keys, queue, matches, todo, cur>>

\* fetchPublications rejects: both pipelines record the run as failed.
FetchFailed(j) ==
    /\ pc[j] = "fetch"
    /\ FinishRun(j, "failed")
    /\ pc' = [pc EXCEPT ![j] = IF task[j].kind = "REGISTER_SYNC" THEN "next" ELSE "idle"]
    /\ task' = [task EXCEPT ![j] = IF @.kind = "REGISTER_SYNC" THEN [@ EXCEPT !.register = None] ELSE NoTask]
    /\ paging' = [paging EXCEPT ![j] = FirstPage]
    /\ UNCHANGED <<env, store, checkpoint, keys, queue, matches, rest, todo, cur>>

(***************************************************************************)
(* Scoring: each scoreMatch is awaited, then its result is stored against  *)
(* the content that was read before the await.                             *)
(***************************************************************************)
ScoreAnswered(j) ==
    /\ pc[j] = "score" /\ cur[j] # NoItem
    /\ LET p == cur[j].pair
           v == cur[j].ver
       IN IF v = None THEN UNCHANGED matches
          ELSE \E above \in AboveThreshold(<<p[1], p[2], v>>) :
                 matches' = IF above THEN MatchUpserted(p, v) ELSE matches
    /\ TakeNext(j, todo[j], store)
    /\ UNCHANGED <<env, store, checkpoint, keys, queue, runs, pc, task, rest, paging, runOf>>

DailySyncFinishes(j) ==
    /\ pc[j] = "score" /\ cur[j] = NoItem /\ task[j].kind = "REGISTER_SYNC"
    /\ store' = MissingRefreshed(task[j].register)
    /\ matches' = Archived
    /\ FinishRun(j, "succeeded")
    /\ pc' = [pc EXCEPT ![j] = "next"]
    /\ task' = [task EXCEPT ![j] = [NoTask EXCEPT !.kind = "REGISTER_SYNC"]]
    /\ UNCHANGED <<env, checkpoint, keys, queue, rest, paging, todo, cur>>

ScanFinishes(j) ==
    /\ pc[j] = "score" /\ cur[j] = NoItem /\ task[j].kind = "INITIAL_OPPOSITION_SCAN"
    /\ store' = MissingRefreshed(task[j].register)
    /\ FinishRun(j, "succeeded")
    /\ pc' = [pc EXCEPT ![j] = "idle"]
    /\ task' = [task EXCEPT ![j] = NoTask]
    /\ UNCHANGED <<env, checkpoint, keys, queue, matches, rest, paging, todo, cur>>

\* MATCH_CANDIDATE_BATCH and SCORE_MATCH have no scan run to finish.
HandlerReturns(j) ==
    /\ pc[j] = "score" /\ cur[j] = NoItem /\ task[j].kind \in {"MATCH_CANDIDATE_BATCH", "SCORE_MATCH"}
    /\ pc' = [pc EXCEPT ![j] = "idle"]
    /\ task' = [task EXCEPT ![j] = NoTask]
    /\ UNCHANGED <<env, db, rest, paging, todo, cur, runOf>>

(***************************************************************************)
(* The on-demand handlers.                                                 *)
(***************************************************************************)
MatchCandidateBatch(j, r) ==
    /\ Free(j)
    /\ EnqueueAndDrain(j, WatchesOf(r), OpenCandidates(r, store), store)
    /\ pc' = [pc EXCEPT ![j] = "score"]
    /\ task' = [task EXCEPT ![j] = [NoTask EXCEPT !.kind = "MATCH_CANDIDATE_BATCH", !.register = r]]
    /\ UNCHANGED <<env, store, checkpoint, matches, runs, rest, paging, runOf>>

\* SCORE_MATCH, and AI_ASSESS_MATCH when an AI provider is configured.
ScoreMatch(j, p) ==
    /\ Free(j)
    /\ matches[p] # NoMatch
    /\ cur' = [cur EXCEPT ![j] = [pair |-> p, key |-> None,
                 ver |-> IF WithinWindow(store[p[2]], now) THEN store[p[2]].ver ELSE None]]
    /\ pc' = [pc EXCEPT ![j] = "score"]
    /\ task' = [task EXCEPT ![j] = [NoTask EXCEPT !.kind = "SCORE_MATCH"]]
    /\ UNCHANGED <<env, db, rest, paging, todo, runOf>>

\* REFRESH_DEADLINES of the candidates in C: always recomputed, skipped without a connector.
RefreshDeadlines(C) ==
    /\ store' = [c \in Cand |->
            IF c \in C /\ store[c].ver # None /\ CandRegister[c] \in Connected
            THEN [store[c] EXCEPT !.period = PeriodOf(c, store[c].ver)] ELSE store[c]]
    /\ UNCHANGED <<env, checkpoint, keys, queue, matches, runs, locals>>

\* ARCHIVE_EXPIRED_MATCHES for organization o: the payload only narrows the logged count.
ArchiveExpiredMatches(o) ==
    /\ matches' = Archived
    /\ UNCHANGED <<env, store, checkpoint, keys, queue, runs, locals>>

(***************************************************************************)
(* The rest of the world: the register publishes, time passes, watches are *)
(* created and change status, customers review matches.                    *)
(***************************************************************************)
Publish(c, v) ==
    LET r == CandRegister[c] IN
    /\ Len(feed[r]) < MaxFeed
    /\ feed' = [feed EXCEPT ![r] = Append(@, [cand |-> c, ver |-> v])]
    /\ UNCHANGED <<now, watch, db, locals>>

Tick ==
    /\ now < MaxTime
    /\ now' = now + 1
    /\ UNCHANGED <<feed, watch, db, locals>>

\* upsertWatchedTrademark
UpsertWatch(w, s) ==
    /\ watch' = [watch EXCEPT ![w] = s]
    /\ UNCHANGED <<now, feed, db, locals>>

\* setTrademarkMatchStatus with a reviewer's decision
Review(p, s) ==
    /\ matches[p] # NoMatch
    /\ matches' = [matches EXCEPT ![p] = [@ EXCEPT !.status = s]]
    /\ UNCHANGED <<env, store, checkpoint, keys, queue, runs, locals>>

-----------------------------------------------------------------------------
Init ==
    /\ now = 0
    /\ feed = [r \in Register |-> <<>>]
    /\ watch = [w \in Watch |-> None]
    /\ store = [c \in Cand |-> NoRecord]
    /\ checkpoint = [r \in Register |-> 0]
    /\ keys = {}
    /\ queue = {}
    /\ matches = [p \in Pair |-> NoMatch]
    /\ runs = <<>>
    /\ pc = [j \in Job |-> "idle"]
    /\ task = [j \in Job |-> NoTask]
    /\ rest = [j \in Job |-> {}]
    /\ paging = [j \in Job |-> FirstPage]
    /\ todo = [j \in Job |-> {}]
    /\ cur = [j \in Job |-> NoItem]
    /\ runOf = [j \in Job |-> 0]

\* The steps of a handler call already under way.
Continue(j) ==
    \/ BeginDailySync(j) \/ DailySyncRejects(j) \/ RegisterSyncDone(j)
    \/ FetchAnswered(j) \/ FetchFailed(j)
    \/ ScoreAnswered(j) \/ DailySyncFinishes(j) \/ ScanFinishes(j) \/ HandlerReturns(j)

Call(j) ==
    \/ RegisterSync(j, Connected) \/ \E r \in Register : RegisterSync(j, {r})
    \/ \E w \in Watch : ScanSkipped(j, w) \/ ScanUnconnected(j, w) \/ BeginScan(j, w)
    \/ \E r \in Register : MatchCandidateBatch(j, r)
    \/ \E p \in Pair : ScoreMatch(j, p)

Worker ==
    \/ \E j \in Job : Call(j) \/ Continue(j)
    \/ RefreshDeadlines(Cand) \/ \E c \in Cand : RefreshDeadlines({c})
    \/ \E o \in Org : ArchiveExpiredMatches(o)

World ==
    \/ \E c \in Cand, v \in Version : Publish(c, v)
    \/ Tick
    \/ \E w \in Watch, s \in WatchMoves : UpsertWatch(w, s)
    \/ \E p \in Pair, s \in Decisions : Review(p, s)

Next == Worker \/ World

Spec == Init /\ [][Next]_vars

\* The event loop runs every continuation, and every fetch and score settles.
FairSpec == Spec /\ \A j \in Job : WF_vars(Continue(j))

-----------------------------------------------------------------------------
(***************************************************************************)
(* Properties.                                                             *)
(***************************************************************************)
ScanRun   == [type: {"DAILY_SYNC", "INITIAL_OPPOSITION_SCAN"},
              status: {"running", "succeeded", "failed", "skipped"},
              register: Register \cup {None}]
Publication == [cand: Cand, ver: Version]
Match     == [status: MatchStatus \cup {None}, scored: Version \cup {None}]
Task      == [kind: Kind, register: Register \cup {None}, watch: Watch \cup {None}, listed: Nat]
Paging    == [cursor: Nat, pages: Nat, seen: Nat, changed: SUBSET Cand]
JobItem   == [pair: Pair \cup {None}, key: Key \cup {None}, ver: Version \cup {None}]
Record    == [ver: Version \cup {None}, status: ProceduralStatus \cup {None}, period: Period \cup {None}]

\* The type of every variable.
TypeOK ==
    /\ now \in Nat
    /\ feed \in [Register -> Seq(Publication)]
    /\ watch \in [Watch -> WatchStatus \cup {None}]
    /\ store \in [Cand -> Record]
    /\ checkpoint \in [Register -> Nat]
    /\ keys \subseteq Key /\ queue \subseteq Key
    /\ matches \in [Pair -> Match]
    /\ runs \in Seq(ScanRun)
    /\ pc \in [Job -> {"idle", "rejected", "next", "fetch", "score"}]
    /\ task \in [Job -> Task]
    /\ rest \in [Job -> SUBSET Register]
    /\ paging \in [Job -> Paging]
    /\ todo \in [Job -> SUBSET Key]
    /\ cur \in [Job -> JobItem]
    /\ runOf \in [Job -> Nat]

\* The match-job keys a handler call has drained and not yet scored.
Held(j) == todo[j] \cup ({cur[j].key} \ {None})

\* A drained match job belongs to exactly one handler call, and none is left behind in the
\* queue when a handler awaits: enqueueing and draining share one synchronous segment.
KeysHandedOutOnce ==
    /\ queue = {}
    /\ \A j \in Job : Held(j) \subseteq keys /\ cur[j].key \notin todo[j]
    /\ \A i, j \in Job : i # j => Held(i) \cap Held(j) = {}

\* An initial opposition scan scores pairs of the watch it was started for and of no other,
\* although it drains a queue all handlers share.
ScanStaysOnItsWatch ==
    \A j \in Job : task[j].kind = "INITIAL_OPPOSITION_SCAN" =>
        \A k \in Held(j) : k[1] = task[j].watch

\* The applications of the first n publications of r, the invalid ones apart, are stored.
Covered(r, n) ==
    /\ n <= Len(feed[r])
    /\ \A i \in 1..n : \E e \in {feed[r][i]} : <<e.cand, e.ver>> \in Invalid \/ store[e.cand].ver # None

\* A daily sync never resumes past a publication that was not ingested: the application of
\* every valid publication up to the saved checkpoint, and up to the cursor of a page loop
\* under way, is in the store.
CheckpointCovered ==
    /\ \A r \in Register : Covered(r, checkpoint[r])
    /\ \A j \in Job : pc[j] = "fetch" => Covered(task[j].register, paging[j].cursor)

\* A match exists only for a pair of one register that was queued as a match job, and its
\* score is that of a content the register did publish and that may reach the threshold.
MatchesGrounded ==
    \A p \in Pair : matches[p] # NoMatch =>
        /\ WatchRegister[p[1]] = CandRegister[p[2]]
        /\ \E v \in Version : <<p[1], p[2], v>> \in keys
        /\ <<p[1], p[2], matches[p].scored>> \in MustMatch \cup MayMatch
        /\ \E i \in 1..Len(feed[CandRegister[p[2]]]) :
              feed[CandRegister[p[2]]][i] = [cand |-> p[2], ver |-> matches[p].scored]

\* Scan runs and handler calls agree: a run is "running" exactly while one handler call of
\* its kind is working on it, so no run is left running for ever or finished twice.
RunsAccounted ==
    /\ \A i \in 1..Len(runs) : runs[i].status = "running" <=> \E j \in Job : runOf[j] = i
    /\ \A j \in Job :
        /\ runOf[j] <= Len(runs)
        /\ runOf[j] # 0 <=> /\ pc[j] \in {"fetch", "score"}
                            /\ task[j].kind \in {"REGISTER_SYNC", "INITIAL_OPPOSITION_SCAN"}
        /\ runOf[j] # 0 => /\ runs[runOf[j]].register = task[j].register
                           /\ (runs[runOf[j]].type = "DAILY_SYNC") = (task[j].kind = "REGISTER_SYNC")
                           /\ \A i \in Job : i # j => runOf[i] # runOf[j]

\* A stored candidate is never without a deadline, and deadline and effective status are
\* those of the content it holds, whichever pipelines wrote it and in whatever order.
DeadlineFollowsContent ==
    \A c \in Cand :
        IF store[c].ver = None THEN store[c] = NoRecord
        ELSE /\ store[c].period = PeriodOf(c, store[c].ver)
             /\ \/ store[c].status = Content[c][store[c].ver].status
                \/ /\ store[c].status = "opposition_period"
                   /\ Content[c][store[c].ver].status = "published"

\* No handler undoes a review: apart from a reviewer's own decision, a match changes status
\* only from an open status to opposition_deadline_passed, once the stored deadline is over.
ReviewKept ==
    [][\A p \in Pair :
        matches[p].status # None /\ matches'[p].status # matches[p].status =>
            \/ \E s \in Reviewed : Review(p, s)
            \/ /\ matches[p].status \notin Terminal
               /\ matches'[p].status = "opposition_deadline_passed"
               /\ Midnight(store[p[2]].period.deadline) < now]_vars

\* A finished scan run keeps its result.
FinishedRunsStay ==
    [][\A i \in 1..Len(runs) : runs[i].status # "running" => runs'[i] = runs[i]]_vars

\* With one handler call at a time, a register's saved checkpoint only moves forward.
CheckpointNeverRetreats == [][\A r \in Register : checkpoint'[r] >= checkpoint[r]]_vars

\* With one handler call at a time, an initial scan that succeeds leaves a match for every
\* stored application that was open for opposition when it listed them and still is, if the
\* pair scores above the threshold: also when the pair's key had been used up before.
ScanFindsOpenFilings ==
    [][\A j \in Job :
        (task[j].kind = "INITIAL_OPPOSITION_SCAN" /\ pc[j] = "score" /\ pc'[j] = "idle") =>
            \A c \in Cand :
                /\ CandRegister[c] = task[j].register
                /\ WithinWindow(store[c], now) /\ WithinWindow(store[c], task[j].listed)
                /\ <<task[j].watch, c, store[c].ver>> \in MustMatch
                => matches[<<task[j].watch, c>>] # NoMatch]_vars

\* Every scan run that is started finishes.
RunsSettle ==
    \A i \in 1 .. MaxRuns + Cardinality(Register) :
        (i <= Len(runs) /\ runs[i].status = "running") ~> (i <= Len(runs) /\ runs[i].status # "running")

\* Every match job that is drained from the queue is eventually scored or dropped.
DrainedJobsAreScored == \A j \in Job, k \in Key : k \in Held(j) ~> k \notin Held(j)

\* Under failure-prone fetches a nightly sync still gets to every register it was called
\* for: the failure of one register's sync does not stop the sync of the others.
SyncReachesEveryRegister ==
    \A j \in Job, r \in Connected : r \in rest[j] ~> task[j].register = r

\* Checkpoint and candidates agree, with any overlap of syncs and late answers: what a sync
\* will not ask for again is stored, with the deadline of the content that is stored.
StoreFollowsLog == CheckpointCovered /\ DeadlineFollowsContent

\* No handler leaves work half done: a run it opened is closed, and a job it drained is scored
\* or dropped, also when fetches and registers fail.
HandlersSettle == RunsSettle /\ DrainedJobsAreScored

\* The queue, the idempotency keys and the handlers' drained jobs keep the promise of
\* MatchDispatch: no key is handed out twice and none is given up unscored.
Dispatch == INSTANCE MatchDispatch WITH claimed <- keys, held <- [j \in Job |-> Held(j)]
DispatchesOnce == Dispatch!Spec

-----------------------------------------------------------------------------
(***************************************************************************)
(* What the documentation and the comments say and the code does not do.   *)
(***************************************************************************)
\* docs/domain/opposition-workflow.md: deadlineDate is the "inclusive last day to oppose".
\* A match is not archived before that day has ended.
LastDayStillOpen ==
    [][\A p \in Pair :
        matches'[p].status = "opposition_deadline_passed" /\ matches[p].status # matches'[p].status =>
            now >= Midnight(store[p[2]].period.deadline + 1)]_vars

\* docs/operations/daily-jobs.md: a failed fetch_publications does not block match_candidates
\* and score_matches "from running against whatever data is already available".  A sync that
\* fails has queued the open candidates it had already stored as changed.
FailedSyncStillMatches ==
    [][\A j \in Job : FetchFailed(j) /\ task[j].kind = "REGISTER_SYNC" =>
        \A c \in paging[j].changed, w \in WatchesOf(task[j].register) :
            WithinWindow(store[c], now) => <<w, c, store[c].ver>> \in keys']_vars

=============================================================================
