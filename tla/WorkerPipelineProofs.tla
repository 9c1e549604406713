------------------------- MODULE WorkerPipelineProofs -------------------------
(***************************************************************************)
(* Theorems about WorkerPipeline for every value of its constants: its     *)
(* types, its scan runs, and its store.                                    *)
(***************************************************************************)
EXTENDS WorkerPipeline, SequenceTheorems, TLAPS

\* What the type of task leaves open: a handler call in its page loop syncs or scans a
\* register, and a scan is for a watch and its register.
TaskShape ==
    \A j \in Job :
        /\ pc[j] = "fetch" => /\ task[j].register \in Register
                              /\ task[j].kind \in {"REGISTER_SYNC", "INITIAL_OPPOSITION_SCAN"}
        /\ pc[j] = "next" => task[j].kind = "REGISTER_SYNC"
        /\ task[j].kind = "INITIAL_OPPOSITION_SCAN" => /\ task[j].watch \in Watch
                                                       /\ task[j].register = WatchRegister[task[j].watch]

\* A candidate with a deadline has a content.
DeadlineHasContent == \A c \in Cand : store[c].period # None => store[c].ver # None

IInv == TypeOK /\ TaskShape /\ DeadlineHasContent

-----------------------------------------------------------------------------
(***************************************************************************)
(* The operators the actions are built from.                               *)
(***************************************************************************)
LEMMA PeriodType == ASSUME NEW c \in Cand, NEW v \in Version
                    PROVE  PeriodOf(c, v) \in Period
BY ConstantsAssumption DEF PeriodOf, Period, Facts

LEMMA StatusType == ASSUME NEW c \in Cand, NEW v \in Version, NEW t
                    PROVE  EffectiveStatus(c, v, t) \in ProceduralStatus
BY ConstantsAssumption DEF EffectiveStatus, ProceduralStatus, Facts

LEMMA NoneApart == /\ None \notin Version /\ None \notin Watch /\ None \notin Register
                   /\ None \notin Key /\ None \notin Pair /\ None \notin Period
BY ConstantsAssumption

\* Ingesting a publication keeps the store well-formed, changes one application only and
\* leaves it with a content.
LEMMA IngestedStore ==
    ASSUME store \in [Cand -> Record], DeadlineHasContent,
           NEW e \in Publication
    PROVE  /\ Ingested(e) \in [Cand -> Record]
           /\ \A c \in Cand : Ingested(e)[c].period # None => Ingested(e)[c].ver # None
           /\ \A c \in Cand : store[c].ver # None => Ingested(e)[c].ver # None
           /\ <<e.cand, e.ver>> \in Invalid \/ Ingested(e)[e.cand].ver # None
<1>1. CASE <<e.cand, e.ver>> \in Invalid
  BY <1>1 DEF Ingested, DeadlineHasContent
<1>2. CASE <<e.cand, e.ver>> \notin Invalid
  <2> DEFINE c0 == e.cand  v0 == e.ver  up == Upserted(store, c0, v0)
  <2>1. c0 \in Cand /\ v0 \in Version /\ v0 # None
    BY NoneApart DEF Publication
  <2>2. PeriodOf(c0, v0) \in Period /\ EffectiveStatus(c0, v0, now) \in ProceduralStatus
    BY <2>1, PeriodType, StatusType
  <2>3. /\ up \in [Cand -> Record]
        /\ up[c0].ver = v0
        /\ \A c \in Cand : c # c0 => up[c] = store[c]
    BY <2>1, <2>2 DEF Upserted, Record
  <2>4. Ingested(e) = [up EXCEPT ![c0] = [@ EXCEPT !.period = PeriodOf(c0, v0)]]
    BY <1>2 DEF Ingested, WithDeadline
  <2> HIDE DEF up, c0, v0
  <2>5. /\ Ingested(e) \in [Cand -> Record]
        /\ Ingested(e)[c0].ver = v0
        /\ \A c \in Cand : c # c0 => Ingested(e)[c] = store[c]
    BY <2>1, <2>2, <2>3, <2>4 DEF Record
  <2> QED BY <2>1, <2>5 DEF DeadlineHasContent, c0
<1> QED BY <1>1, <1>2

\* The keys of stored open applications are keys.
LEMMA FreshKeys ==
    ASSUME NEW st \in [Cand -> Record], NEW W \in SUBSET Watch, NEW C \in SUBSET Cand,
           \A c \in C : st[c].ver # None
    PROVE  Fresh(W, C, st) \in SUBSET (Key \ keys)
BY DEF Fresh, Key, Record

\* Taking the next job of a set of jobs leaves well-formed locals.
LEMMA TakeNextType ==
    ASSUME TypeOK, NEW j \in Job, NEW S \in SUBSET Key, NEW st \in [Cand -> Record],
           TakeNext(j, S, st)
    PROVE  /\ todo' \in [Job -> SUBSET Key]
           /\ cur' \in [Job -> JobItem]
<1>1. CASE S = {} /\ cur' = [cur EXCEPT ![j] = NoItem] /\ todo' = [todo EXCEPT ![j] = {}]
  BY <1>1 DEF TypeOK, NoItem, JobItem
<1>2. ASSUME NEW k \in S, cur' = [cur EXCEPT ![j] = Item(k, st)], todo' = [todo EXCEPT ![j] = S \ {k}]
      PROVE  /\ todo' \in [Job -> SUBSET Key]
             /\ cur' \in [Job -> JobItem]
  <2>1. k \in Key /\ <<k[1], k[2]>> \in Pair /\ k[2] \in Cand
    BY DEF Key, Pair
  <2>2. st[k[2]].ver \in Version \cup {None}
    BY <2>1 DEF Record
  <2>3. Item(k, st) \in JobItem
    BY <2>1, <2>2 DEF Item, JobItem
  <2> QED BY <1>2, <2>3 DEF TypeOK
<1> QED BY <1>1, <1>2 DEF TakeNext

\* What enqueueing and draining leaves in the keys, the queue and the locals.
LEMMA EnqueueAndDrainType ==
    ASSUME TypeOK, NEW j \in Job, NEW W \in SUBSET Watch, NEW C \in SUBSET Cand,
           NEW st \in [Cand -> Record], \A c \in C : st[c].ver # None,
           EnqueueAndDrain(j, W, C, st)
    PROVE  /\ keys' \in SUBSET Key /\ queue' \in SUBSET Key
           /\ todo' \in [Job -> SUBSET Key]
           /\ cur' \in [Job -> JobItem]
<1> DEFINE new == Fresh(W, C, st)
<1>1. new \in SUBSET Key
  BY FreshKeys
<1>2. keys \in SUBSET Key /\ queue \in SUBSET Key
  BY DEF TypeOK
<1>3. keys' = keys \cup new /\ queue' = {} /\ TakeNext(j, queue \cup new, st)
  BY DEF EnqueueAndDrain
<1> HIDE DEF new
<1> QED BY <1>1, <1>2, <1>3, TakeNextType

\* An application open for opposition has a content.
LEMMA OpenHasContent ==
    ASSUME NEW st \in [Cand -> Record], \A c \in Cand : st[c].period # None => st[c].ver # None,
           NEW r
    PROVE  OpenCandidates(r, st) \in SUBSET Cand /\ \A c \in OpenCandidates(r, st) : st[c].ver # None
BY DEF OpenCandidates, WithinWindow

LEMMA WatchesOfType == ASSUME NEW r PROVE WatchesOf(r) \in SUBSET Watch
BY DEF WatchesOf

\* refreshMissingOppositionDeadlines keeps the store well-formed.
LEMMA MissingRefreshedStore ==
    ASSUME store \in [Cand -> Record], DeadlineHasContent, NEW r
    PROVE  /\ MissingRefreshed(r) \in [Cand -> Record]
           /\ \A c \in Cand : MissingRefreshed(r)[c].period # None => MissingRefreshed(r)[c].ver # None
           /\ \A c \in Cand : MissingRefreshed(r)[c].ver = store[c].ver
<1>1. ASSUME NEW c \in Cand
      PROVE  /\ MissingRefreshed(r)[c] \in Record
             /\ MissingRefreshed(r)[c].period # None => MissingRefreshed(r)[c].ver # None
             /\ MissingRefreshed(r)[c].ver = store[c].ver
  <2>1. CASE CandRegister[c] = r /\ store[c].ver # None /\ store[c].period = None
    <3>1. store[c].ver \in Version
      BY <2>1 DEF Record
    <3>2. PeriodOf(c, store[c].ver) \in Period
      BY <3>1, PeriodType
    <3>3. MissingRefreshed(r)[c] = [store[c] EXCEPT !.period = PeriodOf(c, store[c].ver)]
      BY <2>1 DEF MissingRefreshed
    <3> QED BY <2>1, <3>2, <3>3 DEF Record
  <2>2. CASE ~(CandRegister[c] = r /\ store[c].ver # None /\ store[c].period = None)
    BY <2>2 DEF MissingRefreshed, DeadlineHasContent
  <2> QED BY <2>1, <2>2
<1> QED BY <1>1 DEF MissingRefreshed

\* archiveExpiredMatches keeps the matches well-formed.
LEMMA ArchivedType ==
    ASSUME TypeOK
    PROVE  Archived \in [Pair -> Match]
<1>1. ASSUME NEW p \in Pair
      PROVE  [matches[p] EXCEPT !.status = "opposition_deadline_passed"]
                \in Match
  <2>1. matches[p] \in Match
    BY DEF TypeOK
  <2>2. "opposition_deadline_passed" \in MatchStatus
    BY DEF MatchStatus
  <2> QED BY <2>1, <2>2 DEF Match
<1>2. matches \in [Pair -> Match]
  BY DEF TypeOK
<1> QED BY <1>1, <1>2 DEF Archived

\* Finishing a scan run keeps the runs well-formed.
LEMMA FinishRunType ==
    ASSUME TypeOK, NEW j \in Job, NEW s \in {"succeeded", "failed"}, FinishRun(j, s)
    PROVE  runs' \in Seq(ScanRun) /\ runOf' \in [Job -> Nat]
<1>1. runs \in Seq(ScanRun) /\ runOf \in [Job -> Nat]
  BY DEF TypeOK
<1>2. runs' = [runs EXCEPT ![runOf[j]] = [@ EXCEPT !.status = s]]
  BY DEF FinishRun
<1> DEFINE e == [runs[runOf[j]] EXCEPT !.status = s]
<1>3. runs' = [runs EXCEPT ![runOf[j]] = e]
  BY <1>2
<1>4. ASSUME runOf[j] \in 1..Len(runs) PROVE e \in ScanRun
  <2>1. runs[runOf[j]] \in ScanRun
    BY <1>1, <1>4
  <2> QED BY <2>1 DEF ScanRun
<1> HIDE DEF e
<1>5. ASSUME runOf[j] \in 1..Len(runs) PROVE [runs EXCEPT ![runOf[j]] = e] \in Seq(ScanRun)
  BY <1>1, <1>4, <1>5, ExceptSeq
<1>6. ASSUME runOf[j] \notin 1..Len(runs) PROVE runs' = runs
  <2>1. runs \in [1..Len(runs) -> ScanRun]
    BY <1>1
  <2> QED BY <1>3, <1>6, <2>1
<1>7. runs' \in Seq(ScanRun)
  BY <1>1, <1>3, <1>5, <1>6
<1> QED BY <1>1, <1>7 DEF FinishRun

-----------------------------------------------------------------------------
(***************************************************************************)
(* The type invariant, strengthened to an inductive one.                   *)
(***************************************************************************)
LEMMA InitIInv == Init => IInv
<1> SUFFICES ASSUME Init PROVE IInv
  OBVIOUS
<1>1. TypeOK
  BY DEF Init, TypeOK, NoRecord, NoMatch, NoTask, FirstPage, NoItem, Record, Kind, Match, Task, Paging, JobItem
<1>2. TaskShape /\ DeadlineHasContent
  BY DEF Init, TaskShape, DeadlineHasContent, NoRecord, NoTask
<1> QED BY <1>1, <1>2 DEF IInv

\* A page holds publications.
LEMMA PageType ==
    ASSUME feed \in [Register -> Seq(Publication)], NEW j \in Job,
           task[j].register \in Register, paging[j].cursor \in Nat,
           NEW n \in Nat, n <= Len(feed[task[j].register])
    PROVE  Page(j, n) \in SUBSET Publication
<1> DEFINE log == feed[task[j].register]
<1>1. log \in Seq(Publication) /\ Len(log) \in Nat
  BY LenProperties
<1>2. ASSUME paging[j].cursor < n
      PROVE  log[paging[j].cursor + 1] \in Publication
  <2>1. paging[j].cursor + 1 \in 1..Len(log)
    BY <1>1, <1>2
  <2> HIDE DEF log
  <2> QED BY <1>1, <2>1, ElementOfSeq
<1> QED BY <1>2 DEF Page

\* The page loop's step: a page is ingested, and either the loop goes on or the changed
\* (respectively the open) applications are queued and the first job is taken.
LEMMA FetchIInv == ASSUME IInv, NEW j \in Job, FetchAnswered(j) PROVE IInv'
<1> USE DEF IInv
<1> DEFINE r == task[j].register
<1>1. pc[j] = "fetch" /\ r \in Register /\ UNCHANGED <<env, matches, runs, rest, runOf>>
  BY DEF FetchAnswered, TaskShape
<1>2. PICK n \in paging[j].seen .. Len(feed[r]) : \E next \in NextCursors(j, n) :
        IngestPage(j, n) /\ SaveCheckpoint(j, next) /\ (NextPage(j, n, next) \/ StartMatching(j, n))
  BY DEF FetchAnswered
<1>3. PICK next \in NextCursors(j, n) :
        IngestPage(j, n) /\ SaveCheckpoint(j, next) /\ (NextPage(j, n, next) \/ StartMatching(j, n))
  BY <1>2
<1>4. /\ feed[r] \in Seq(Publication)
      /\ paging[j] \in Paging
      /\ n \in Nat /\ n <= Len(feed[r])
      /\ Len(feed[r]) \in Nat
  <2>1. feed[r] \in Seq(Publication)
    BY <1>1 DEF TypeOK
  <2>2. paging[j] \in Paging
    BY DEF TypeOK
  <2>3. Len(feed[r]) \in Nat
    BY <2>1, LenProperties
  <2> QED BY <2>1, <2>2, <2>3 DEF Paging
<1>5. Page(j, n) \in SUBSET Publication
  BY <1>1, <1>4, PageType DEF TypeOK, Paging
<1>6. next \in Nat
  BY <1>4 DEF NextCursors, Paging
<1>7. Changed(j, n) \in SUBSET Cand
  <2>1. \A e \in Page(j, n) : ChangedBy(e) \in SUBSET Cand
    BY <1>5 DEF ChangedBy, Publication
  <2> QED BY <1>4, <2>1 DEF Changed, Paging
<1>8. /\ store' \in [Cand -> Record]
      /\ \A c \in Cand : store'[c].period # None => store'[c].ver # None
  <2>1. CASE UNCHANGED store
    BY <2>1 DEF TypeOK, DeadlineHasContent
  <2>2. ASSUME NEW e \in Page(j, n), store' = Ingested(e)
        PROVE  /\ store' \in [Cand -> Record]
               /\ \A c \in Cand : store'[c].period # None => store'[c].ver # None
    BY <1>5, <2>2, IngestedStore DEF TypeOK
  <2> QED BY <1>3, <2>1, <2>2 DEF IngestPage
<1>9. checkpoint' \in [Register -> Nat]
  BY <1>1, <1>3, <1>6 DEF TypeOK, SaveCheckpoint
<1>10. CASE NextPage(j, n, next)
  <2>1. paging' \in [Job -> Paging]
    BY <1>4, <1>6, <1>7, <1>10 DEF NextPage, TypeOK, Paging
  <2>2. TypeOK'
    BY <1>1, <1>8, <1>9, <1>10, <2>1 DEF NextPage, TypeOK, env
  <2>3. TaskShape'
    BY <1>10 DEF NextPage, TaskShape
  <2>4. DeadlineHasContent'
    BY <1>8 DEF DeadlineHasContent
  <2> QED BY <2>2, <2>3, <2>4
<1>11. CASE StartMatching(j, n)
  <2> DEFINE open == OpenCandidates(r, store')
  <2>1. open \in SUBSET Cand /\ \A c \in open : store'[c].ver # None
    BY <1>8, OpenHasContent
  <2>2. PICK W \in SUBSET Watch, C \in SUBSET Cand :
            C \subseteq open /\ EnqueueAndDrain(j, W, C, store')
    <3>1. CASE Daily(j)
      BY <1>7, <1>11, <2>1, <3>1, WatchesOfType DEF StartMatching
    <3>2. CASE ~Daily(j)
      <4>1. task[j].watch \in Watch
        BY <1>1, <3>2 DEF TaskShape, Daily
      <4> QED BY <1>11, <2>1, <3>2, <4>1 DEF StartMatching
    <3> QED BY <3>1, <3>2
  <2>3. /\ keys' \in SUBSET Key /\ queue' \in SUBSET Key
        /\ todo' \in [Job -> SUBSET Key]
        /\ cur' \in [Job -> JobItem]
    BY <1>8, <2>1, <2>2, EnqueueAndDrainType
  <2>4. /\ paging' = [paging EXCEPT ![j] = FirstPage]
        /\ pc' = [pc EXCEPT ![j] = "score"]
        /\ task' = [task EXCEPT ![j] = [@ EXCEPT !.listed = IF Daily(j) THEN 0 ELSE now]]
    BY <1>11 DEF StartMatching
  <2>5. task' \in [Job -> Task]
    <3>1. task[j] \in Task
          /\ now \in Nat
      BY DEF TypeOK
    <3>2. [task[j] EXCEPT !.listed = IF Daily(j) THEN 0 ELSE now] \in Task
      BY <3>1 DEF Task
    <3> QED BY <2>4, <3>2 DEF TypeOK
  <2>6. TypeOK'
    BY <1>1, <1>8, <1>9, <2>3, <2>4, <2>5 DEF TypeOK, env, FirstPage, Paging
  <2>7. TaskShape'
    BY <2>4 DEF TaskShape, TypeOK
  <2>8. DeadlineHasContent'
    BY <1>8 DEF DeadlineHasContent
  <2> QED BY <2>6, <2>7, <2>8
<1> QED BY <1>3, <1>10, <1>11

\* Starting a scan run and leaving a finished one keep the runs well-formed.
LEMMA AppendRunType ==
    ASSUME TypeOK, NEW type \in {"DAILY_SYNC", "INITIAL_OPPOSITION_SCAN"},
           NEW s \in {"running", "succeeded", "failed", "skipped"}, NEW r \in Register \cup {None},
           AppendRun(type, s, r)
    PROVE  runs' \in Seq(ScanRun) /\ Len(runs) \in Nat /\ Len(runs') = Len(runs) + 1
<1> DEFINE x == [type |-> type, status |-> s, register |-> r]
<1>1. x \in ScanRun /\ runs \in Seq(ScanRun)
  BY DEF TypeOK, ScanRun
<1>2. runs' = Append(runs, x)
  BY DEF AppendRun
<1> HIDE DEF x
<1> QED BY <1>1, <1>2, AppendProperties, LenProperties

\* The steps that leave the store alone keep the deadline part of the invariant.
LEMMA DeadlineKept == ASSUME DeadlineHasContent, UNCHANGED store PROVE DeadlineHasContent'
BY DEF DeadlineHasContent

\* The continuations of a handler call other than an answered fetch.
LEMMA ContinueIInv == ASSUME IInv, NEW j \in Job, Continue(j) PROVE IInv'
<1> USE DEF IInv
<1>1. CASE BeginDailySync(j)
  <2>1. PICK r \in rest[j] :
          /\ r \in Connected
          /\ AppendRun("DAILY_SYNC", "running", r)
          /\ runOf' = [runOf EXCEPT ![j] = Len(runs) + 1]
          /\ rest' = [rest EXCEPT ![j] = @ \ {r}]
          /\ task' = [task EXCEPT ![j] = [@ EXCEPT !.register = r]]
          /\ paging' = [paging EXCEPT ![j] =
                          [FirstPage EXCEPT !.cursor = checkpoint[r], !.seen = Len(feed[r])]]
    BY <1>1 DEF BeginDailySync
  <2>2. r \in Register /\ checkpoint[r] \in Nat /\ feed[r] \in Seq(Publication)
    BY DEF TypeOK
  <2>3. Len(feed[r]) \in Nat
    BY <2>2, LenProperties
  <2>4. runs' \in Seq(ScanRun) /\ Len(runs) \in Nat
    BY <2>1, <2>2, AppendRunType
  <2>5. paging' \in [Job -> Paging]
    BY <2>1, <2>2, <2>3 DEF TypeOK, FirstPage, Paging
  <2>6. [task[j] EXCEPT !.register = r] \in Task
    <3>1. task[j] \in Task
      BY DEF TypeOK
    <3> QED BY <2>2, <3>1 DEF Task
  <2>7. task' \in [Job -> Task]
    BY <2>1, <2>6 DEF TypeOK
  <2>8. TypeOK'
    BY <1>1, <2>1, <2>4, <2>5, <2>7 DEF BeginDailySync, TypeOK, env
  <2>9. pc[j] = "next" => task[j].kind = "REGISTER_SYNC"
    BY DEF TaskShape
  <2>10. TaskShape'
    BY <1>1, <2>1, <2>2, <2>9 DEF BeginDailySync, TaskShape, TypeOK
  <2> QED BY <1>1, <2>8, <2>10, DeadlineKept DEF BeginDailySync
<1>2. CASE DailySyncRejects(j)
  BY <1>2, DeadlineKept DEF DailySyncRejects, TypeOK, TaskShape, env, db
<1>3. CASE RegisterSyncDone(j)
  <2>1. NoTask \in Task
    BY DEF NoTask, Kind, Task
  <2> QED BY <1>3, <2>1, DeadlineKept DEF RegisterSyncDone, TypeOK, TaskShape, env, db, NoTask
<1>4. CASE FetchAnswered(j)
  BY <1>4, FetchIInv
<1>5. CASE FetchFailed(j)
  <2>1. runs' \in Seq(ScanRun) /\ runOf' \in [Job -> Nat]
    BY <1>5, FinishRunType DEF FetchFailed
  <2>2. paging' \in [Job -> Paging]
    BY <1>5 DEF FetchFailed, FirstPage, TypeOK, Paging
  <2>3. [task[j] EXCEPT !.register = None] \in Task
    <3>1. task[j] \in Task
      BY DEF TypeOK
    <3> QED BY <3>1 DEF Task
  <2>4. NoTask \in Task
    BY DEF NoTask, Kind, Task
  <2>5. task' \in [Job -> Task]
    BY <1>5, <2>3, <2>4 DEF FetchFailed, TypeOK
  <2>6. TypeOK'
    BY <1>5, <2>1, <2>2, <2>5 DEF FetchFailed, TypeOK, env
  <2>7. TaskShape'
    BY <1>5 DEF FetchFailed, TaskShape, TypeOK, NoTask
  <2> QED BY <1>5, <2>6, <2>7, DeadlineKept DEF FetchFailed
<1>6. CASE ScoreAnswered(j)
  <2>1. /\ todo' \in [Job -> SUBSET Key]
        /\ cur' \in [Job -> JobItem]
    <3>1. TakeNext(j, todo[j], store) /\ todo[j] \in SUBSET Key /\ store \in [Cand -> Record]
      BY <1>6 DEF ScoreAnswered, TypeOK
    <3> QED BY <3>1, TakeNextType
  <2>2. matches' \in [Pair -> Match]
    <3>1. CASE UNCHANGED matches
      BY <3>1 DEF TypeOK
    <3>2. CASE matches' = MatchUpserted(cur[j].pair, cur[j].ver)
      <4>1. cur[j].ver \in Version \cup {None} /\ "new" \in MatchStatus
        BY DEF TypeOK, MatchStatus, JobItem
      <4>2. matches \in [Pair -> Match]
        BY DEF TypeOK
      <4> QED BY <3>2, <4>1, <4>2 DEF MatchUpserted, Match
    <3> QED BY <1>6, <3>1, <3>2 DEF ScoreAnswered
  <2>3. TypeOK'
    BY <1>6, <2>1, <2>2 DEF ScoreAnswered, TypeOK, env
  <2> QED BY <1>6, <2>3, DeadlineKept DEF ScoreAnswered, TaskShape
<1>7. CASE DailySyncFinishes(j) \/ ScanFinishes(j)
  <2>1. runs' \in Seq(ScanRun) /\ runOf' \in [Job -> Nat]
    BY <1>7, FinishRunType DEF DailySyncFinishes, ScanFinishes
  <2>2. /\ store' \in [Cand -> Record]
        /\ \A c \in Cand : store'[c].period # None => store'[c].ver # None
    <3>1. store \in [Cand -> Record] /\ store' = MissingRefreshed(task[j].register)
      BY <1>7 DEF DailySyncFinishes, ScanFinishes, TypeOK
    <3> QED BY <3>1, MissingRefreshedStore
  <2>3. matches' \in [Pair -> Match]
    BY <1>7, ArchivedType DEF DailySyncFinishes, ScanFinishes, TypeOK
  <2>4. task' \in [Job -> Task]
    <3>1. NoTask \in Task /\ [NoTask EXCEPT !.kind = "REGISTER_SYNC"] \in Task
      BY DEF NoTask, Kind, Task
    <3> QED BY <1>7, <3>1 DEF DailySyncFinishes, ScanFinishes, TypeOK
  <2>5. TypeOK'
    BY <1>7, <2>1, <2>2, <2>3, <2>4 DEF DailySyncFinishes, ScanFinishes, TypeOK, env
  <2>6. TaskShape'
    <3>1. PICK t \in Task, at \in {"next", "idle"} :
            /\ task' = [task EXCEPT ![j] = t]
            /\ pc' = [pc EXCEPT ![j] = at]
            /\ t.kind # "INITIAL_OPPOSITION_SCAN" /\ (at = "next" => t.kind = "REGISTER_SYNC")
      <4>1. /\ NoTask \in Task /\ NoTask.kind = "none"
            /\ [NoTask EXCEPT !.kind = "REGISTER_SYNC"] \in Task
            /\ [NoTask EXCEPT !.kind = "REGISTER_SYNC"].kind = "REGISTER_SYNC"
        BY DEF NoTask, Kind, Task
      <4> QED BY <1>7, <4>1 DEF DailySyncFinishes, ScanFinishes
    <3> QED BY <3>1 DEF TaskShape, TypeOK
  <2> QED BY <2>2, <2>5, <2>6 DEF DeadlineHasContent
<1>8. CASE HandlerReturns(j)
  <2>1. NoTask \in Task
    BY DEF NoTask, Kind, Task
  <2> QED BY <1>8, <2>1, DeadlineKept DEF HandlerReturns, TypeOK, TaskShape, env, db, NoTask
<1> QED BY <1>1, <1>2, <1>3, <1>4, <1>5, <1>6, <1>7, <1>8 DEF Continue

\* A handler is called.
LEMMA CallIInv == ASSUME IInv, NEW j \in Job, Call(j) PROVE IInv'
<1> USE DEF IInv
<1>1. ASSUME NEW R \in SUBSET Register, RegisterSync(j, R) PROVE IInv'
  <2>1. [NoTask EXCEPT !.kind = "REGISTER_SYNC"] \in Task
    BY DEF NoTask, Kind, Task
  <2>2. [NoTask EXCEPT !.kind = "REGISTER_SYNC"].kind = "REGISTER_SYNC"
    BY DEF NoTask
  <2>3. TypeOK'
    BY <1>1, <2>1 DEF RegisterSync, TypeOK, env, db
  <2>4. TaskShape'
    BY <1>1, <2>2 DEF RegisterSync, TypeOK, TaskShape
  <2> QED BY <1>1, <2>3, <2>4, DeadlineKept DEF RegisterSync, db
<1>2. ASSUME NEW w \in Watch, ScanSkipped(j, w) \/ ScanUnconnected(j, w) PROVE IInv'
  <2>1. WatchRegister[w] \in Register
    BY ConstantsAssumption
  <2>2. runs' \in Seq(ScanRun)
    BY <1>2, <2>1, AppendRunType DEF ScanSkipped, ScanUnconnected
  <2>3. UNCHANGED <<env, store, checkpoint, keys, queue, matches, locals>>
    BY <1>2 DEF ScanSkipped, ScanUnconnected
  <2> QED BY <2>2, <2>3, DeadlineKept DEF TypeOK, TaskShape, env, locals
<1>3. ASSUME NEW w \in Watch, BeginScan(j, w) PROVE IInv'
  <2> DEFINE r == WatchRegister[w]
             t == [kind |-> "INITIAL_OPPOSITION_SCAN", register |-> r, watch |-> w, listed |-> 0]
  <2>1. r \in Register
    BY ConstantsAssumption
  <2>2. runs' \in Seq(ScanRun) /\ Len(runs) \in Nat
    BY <1>3, <2>1, AppendRunType DEF BeginScan
  <2>3. feed[r] \in Seq(Publication)
    BY <2>1 DEF TypeOK
  <2>4. Len(feed[r]) \in Nat
    BY <2>3, LenProperties
  <2>5. [FirstPage EXCEPT !.seen = Len(feed[r])] \in Paging
    BY <2>4 DEF FirstPage, Paging
  <2>6. /\ t \in Task /\ t.kind = "INITIAL_OPPOSITION_SCAN" /\ t.register \in Register
        /\ t.watch \in Watch /\ t.register = WatchRegister[t.watch]
    BY <2>1 DEF Task, Kind
  <2>7. task' = [task EXCEPT ![j] = t] /\ pc' = [pc EXCEPT ![j] = "fetch"]
    BY <1>3 DEF BeginScan
  <2> HIDE DEF t
  <2>8. TypeOK'
    BY <1>3, <2>2, <2>5, <2>6, <2>7 DEF BeginScan, TypeOK, env
  <2>9. TaskShape'
    BY <2>6, <2>7 DEF TypeOK, TaskShape
  <2> QED BY <1>3, <2>8, <2>9, DeadlineKept DEF BeginScan
<1>4. ASSUME NEW r \in Register, MatchCandidateBatch(j, r) PROVE IInv'
  <2> DEFINE t == [NoTask EXCEPT !.kind = "MATCH_CANDIDATE_BATCH", !.register = r]
  <2>1. store \in [Cand -> Record] /\ \A c \in Cand : store[c].period # None => store[c].ver # None
    BY DEF TypeOK, DeadlineHasContent
  <2>2. /\ OpenCandidates(r, store) \in SUBSET Cand
        /\ \A c \in OpenCandidates(r, store) : store[c].ver # None
    BY <2>1, OpenHasContent
  <2>3. /\ keys' \in SUBSET Key /\ queue' \in SUBSET Key
        /\ todo' \in [Job -> SUBSET Key] /\ cur' \in [Job -> JobItem]
    <3>1. EnqueueAndDrain(j, WatchesOf(r), OpenCandidates(r, store), store)
      BY <1>4 DEF MatchCandidateBatch
    <3> QED BY <2>1, <2>2, <3>1, WatchesOfType, EnqueueAndDrainType
  <2>4. t \in Task /\ t.kind = "MATCH_CANDIDATE_BATCH"
    BY DEF NoTask, Task, Kind
  <2>5. task' = [task EXCEPT ![j] = t] /\ pc' = [pc EXCEPT ![j] = "score"]
        /\ UNCHANGED <<env, store, checkpoint, matches, runs, rest, paging, runOf>>
    BY <1>4 DEF MatchCandidateBatch
  <2> HIDE DEF t
  <2>6. TypeOK'
    BY <2>3, <2>4, <2>5 DEF TypeOK, env
  <2>7. TaskShape'
    BY <2>4, <2>5 DEF TypeOK, TaskShape
  <2> QED BY <1>4, <2>6, <2>7, DeadlineKept DEF MatchCandidateBatch
<1>5. ASSUME NEW p \in Pair, ScoreMatch(j, p) PROVE IInv'
  <2> DEFINE t == [NoTask EXCEPT !.kind = "SCORE_MATCH"]
             i == [pair |-> p, key |-> None,
                   ver |-> IF WithinWindow(store[p[2]], now) THEN store[p[2]].ver ELSE None]
  <2>1. i \in JobItem
    <3>1. p[2] \in Cand
      BY DEF Pair
    <3>2. store[p[2]].ver \in Version \cup {None}
      BY <3>1 DEF TypeOK, Record
    <3> QED BY <3>2 DEF JobItem
  <2>2. t \in Task /\ t.kind = "SCORE_MATCH"
    BY DEF NoTask, Task, Kind
  <2>3. /\ task' = [task EXCEPT ![j] = t] /\ pc' = [pc EXCEPT ![j] = "score"]
        /\ cur' = [cur EXCEPT ![j] = i]
        /\ UNCHANGED <<env, db, rest, paging, todo, runOf>>
    BY <1>5 DEF ScoreMatch
  <2> HIDE DEF t, i
  <2>4. TypeOK'
    BY <2>1, <2>2, <2>3 DEF TypeOK, env, db
  <2>5. TaskShape'
    BY <2>2, <2>3 DEF TypeOK, TaskShape
  <2> QED BY <1>5, <2>4, <2>5, DeadlineKept DEF ScoreMatch, db
<1> QED BY <1>1, <1>2, <1>3, <1>4, <1>5, ConstantsAssumption DEF Call

\* The handlers without awaits, and the world around the worker.
LEMMA OtherIInv ==
    ASSUME IInv,
           \/ RefreshDeadlines(Cand) \/ \E c \in Cand : RefreshDeadlines({c})
           \/ \E o \in Org : ArchiveExpiredMatches(o)
           \/ World
    PROVE  IInv'
<1> USE DEF IInv
<1>1. ASSUME NEW C, RefreshDeadlines(C) PROVE IInv'
  <2>1. ASSUME NEW c \in Cand
        PROVE  store'[c] \in Record /\ (store'[c].period # None => store'[c].ver # None)
    <3>1. store[c] \in Record /\ store \in [Cand -> Record]
      BY DEF TypeOK
    <3>2. CASE c \in C /\ store[c].ver # None /\ CandRegister[c] \in Connected
      <4>1. PeriodOf(c, store[c].ver) \in Period
        BY <3>1, <3>2, PeriodType DEF Record
      <4>2. store'[c] = [store[c] EXCEPT !.period = PeriodOf(c, store[c].ver)]
        BY <1>1, <3>2 DEF RefreshDeadlines
      <4> QED BY <3>1, <3>2, <4>1, <4>2 DEF Record
    <3>3. CASE ~(c \in C /\ store[c].ver # None /\ CandRegister[c] \in Connected)
      BY <1>1, <3>1, <3>3 DEF RefreshDeadlines, DeadlineHasContent
    <3> QED BY <3>2, <3>3
  <2>2. store' \in [Cand -> Record]
    BY <1>1, <2>1 DEF RefreshDeadlines
  <2> QED BY <1>1, <2>1, <2>2 DEF RefreshDeadlines, TypeOK, TaskShape, DeadlineHasContent, env, locals
<1>2. ASSUME NEW o \in Org, ArchiveExpiredMatches(o) PROVE IInv'
  BY <1>2, ArchivedType, DeadlineKept DEF ArchiveExpiredMatches, TypeOK, TaskShape, env, locals
<1>3. ASSUME NEW c \in Cand, NEW v \in Version, Publish(c, v) PROVE IInv'
  <2> DEFINE r == CandRegister[c]  e == [cand |-> c, ver |-> v]
  <2>1. r \in Register /\ e \in Publication
    BY ConstantsAssumption DEF Publication
  <2>2. feed[r] \in Seq(Publication)
    BY <2>1 DEF TypeOK
  <2> HIDE DEF e
  <2>3. Append(feed[r], e) \in Seq(Publication)
    BY <2>1, <2>2, AppendProperties
  <2>4. feed' = [feed EXCEPT ![r] = Append(feed[r], e)]
    BY <1>3 DEF Publish, e
  <2> HIDE DEF r
  <2>5. feed' \in [Register -> Seq(Publication)]
    BY <2>1, <2>3, <2>4 DEF TypeOK
  <2> QED BY <1>3, <2>5, DeadlineKept DEF Publish, TypeOK, TaskShape, db, locals
<1>4. CASE Tick
  BY <1>4, DeadlineKept DEF Tick, TypeOK, TaskShape, db, locals
<1>5. ASSUME NEW w \in Watch, NEW s \in WatchMoves, UpsertWatch(w, s) PROVE IInv'
  BY <1>5, DeadlineKept, ConstantsAssumption DEF UpsertWatch, TypeOK, TaskShape, db, locals
<1>6. ASSUME NEW p \in Pair, NEW s \in Decisions, Review(p, s) PROVE IInv'
  <2>1. matches[p] \in Match /\ s \in MatchStatus
    BY ConstantsAssumption DEF TypeOK, MatchStatus
  <2>2. [matches[p] EXCEPT !.status = s] \in Match
    BY <2>1 DEF Match
  <2>3. matches' \in [Pair -> Match]
    BY <1>6, <2>2 DEF Review, TypeOK
  <2> QED BY <1>6, <2>3, DeadlineKept DEF Review, TypeOK, TaskShape, env, locals
<1> QED BY <1>1, <1>2, <1>3, <1>4, <1>5, <1>6 DEF World

\* The strengthened type invariant is inductive.
LEMMA StepIInv == IInv /\ [Next]_vars => IInv'
<1> SUFFICES ASSUME IInv, [Next]_vars PROVE IInv'
  OBVIOUS
<1>1. CASE UNCHANGED vars
  BY <1>1 DEF vars, env, db, locals, IInv, TypeOK, TaskShape, DeadlineHasContent
<1>2. CASE Next
  BY <1>2, CallIInv, ContinueIInv, OtherIInv DEF Next, Worker
<1> QED BY <1>1, <1>2

LEMMA IInvAlways == Spec => []IInv
BY InitIInv, StepIInv, PTL DEF Spec

\* Every variable has its type in every reachable state, whatever the register answers, the
\* AI judges and reviewers decide, and however many handler calls are in flight.
THEOREM TypeCorrect == Spec => []TypeOK
<1>1. IInv => TypeOK
  BY DEF IInv
<1> QED BY <1>1, IInvAlways, PTL
-----------------------------------------------------------------------------
(***************************************************************************)
(* Scan runs and the handler calls that work on them.                      *)
(***************************************************************************)
\* A handler call between the start and the end of a pipeline.
Working(j) == /\ pc[j] \in {"fetch", "score"}
              /\ task[j].kind \in {"REGISTER_SYNC", "INITIAL_OPPOSITION_SCAN"}

OthersGoOn(j) == \A i \in Job \ {j} : pc'[i] = pc[i] /\ task'[i] = task[i] /\ runOf'[i] = runOf[i]

\* What a step may do to the runs: nothing, open one for a call that has none, note one that
\* was over at once, or finish the run of a call that stops working on it.
RunsRest ==
    /\ UNCHANGED <<runs, runOf>>
    /\ \A j \in Job :
          /\ Working(j)' <=> Working(j)
          /\ Working(j) => task'[j].register = task[j].register /\ task'[j].kind = task[j].kind

Opens(j, x) ==
    /\ ~Working(j) /\ Working(j)'
    /\ x.status = "running" /\ x.register = task'[j].register
    /\ (x.type = "DAILY_SYNC") = (task'[j].kind = "REGISTER_SYNC")
    /\ runs' = Append(runs, x)
    /\ runOf'[j] = Len(runs) + 1
    /\ OthersGoOn(j)

Notes(x) == x.status # "running" /\ runs' = Append(runs, x) /\ UNCHANGED <<pc, task, runOf>>

Closes(j, s) ==
    /\ Working(j) /\ ~Working(j)'
    /\ s # "running"
    /\ runs' = [runs EXCEPT ![runOf[j]] = [@ EXCEPT !.status = s]]
    /\ runOf'[j] = 0
    /\ OthersGoOn(j)

RunStep == \/ RunsRest
           \/ \E x \in ScanRun : Notes(x) \/ \E j \in Job : Opens(j, x)
           \/ \E j \in Job, s \in {"succeeded", "failed"} : Closes(j, s)

LEMMA ContinueRun == ASSUME IInv, NEW j \in Job, Continue(j) PROVE RunStep
<1> TypeOK /\ TaskShape
  BY DEF IInv
<1>1. CASE BeginDailySync(j)
  <2>1. PICK r \in rest[j] :
          /\ AppendRun("DAILY_SYNC", "running", r)
          /\ runOf' = [runOf EXCEPT ![j] = Len(runs) + 1]
          /\ task' = [task EXCEPT ![j] = [@ EXCEPT !.register = r]]
    BY <1>1 DEF BeginDailySync
  <2> DEFINE x == [type |-> "DAILY_SYNC", status |-> "running", register |-> r]
  <2>2. x \in ScanRun /\ r \in Register
    BY DEF TypeOK, ScanRun
  <2>3. pc[j] = "next" /\ pc' = [pc EXCEPT ![j] = "fetch"] /\ task[j].kind = "REGISTER_SYNC"
    BY <1>1 DEF BeginDailySync, TaskShape
  <2>4. task'[j].register = r /\ task'[j].kind = "REGISTER_SYNC"
    BY <2>1, <2>3 DEF TypeOK, Task
  <2>5. Opens(j, x)
    BY <2>1, <2>3, <2>4 DEF Opens, Working, OthersGoOn, AppendRun, TypeOK
  <2> QED BY <2>2, <2>5 DEF RunStep
<1>2. CASE DailySyncRejects(j) \/ RegisterSyncDone(j)
  <2>1. pc[j] = "next" /\ pc'[j] \notin {"fetch", "score"} /\ UNCHANGED <<runs, runOf>>
    BY <1>2 DEF DailySyncRejects, RegisterSyncDone, TypeOK, db
  <2>2. \A i \in Job \ {j} : pc'[i] = pc[i] /\ task'[i] = task[i]
    BY <1>2 DEF DailySyncRejects, RegisterSyncDone, TypeOK
  <2> QED BY <2>1, <2>2 DEF RunStep, RunsRest, Working
<1>3. CASE FetchAnswered(j)
  <2>1. pc[j] = "fetch" /\ UNCHANGED <<runs, runOf>>
    BY <1>3 DEF FetchAnswered
  <2>2. \/ UNCHANGED <<pc, task>>
        \/ /\ pc' = [pc EXCEPT ![j] = "score"]
           /\ \E n : task' = [task EXCEPT ![j] = [@ EXCEPT !.listed = n]]
    BY <1>3 DEF FetchAnswered, NextPage, StartMatching
  <2>3. task'[j].kind = task[j].kind /\ task'[j].register = task[j].register
    BY <2>2 DEF TypeOK, Task
  <2>4. \A i \in Job \ {j} : pc'[i] = pc[i] /\ task'[i] = task[i]
    BY <2>2 DEF TypeOK
  <2>5. pc'[j] \in {"fetch", "score"}
    BY <2>1, <2>2 DEF TypeOK
  <2> QED BY <2>1, <2>3, <2>4, <2>5 DEF RunStep, RunsRest, Working
<1>4. CASE FetchFailed(j)
  <2>1. pc[j] = "fetch" /\ pc'[j] \in {"next", "idle"} /\ FinishRun(j, "failed")
    BY <1>4 DEF FetchFailed, TypeOK
  <2>2. OthersGoOn(j) /\ runOf'[j] = 0
    BY <1>4 DEF FetchFailed, FinishRun, OthersGoOn, TypeOK
  <2>3. Working(j)
    BY <2>1 DEF Working, TaskShape
  <2>4. Closes(j, "failed")
    BY <2>1, <2>2, <2>3 DEF Closes, Working, FinishRun
  <2> QED BY <2>4 DEF RunStep
<1>5. CASE ScoreAnswered(j)
  BY <1>5 DEF ScoreAnswered, RunStep, RunsRest, Working
<1>6. CASE DailySyncFinishes(j) \/ ScanFinishes(j)
  <2>1. Working(j) /\ pc'[j] \in {"next", "idle"} /\ FinishRun(j, "succeeded")
    BY <1>6 DEF DailySyncFinishes, ScanFinishes, TypeOK, Working
  <2>2. OthersGoOn(j) /\ runOf'[j] = 0
    BY <1>6 DEF DailySyncFinishes, ScanFinishes, FinishRun, OthersGoOn, TypeOK
  <2>3. Closes(j, "succeeded")
    BY <2>1, <2>2 DEF Closes, Working, FinishRun
  <2> QED BY <2>3 DEF RunStep
<1>7. CASE HandlerReturns(j)
  <2>1. /\ task[j].kind \in {"MATCH_CANDIDATE_BATCH", "SCORE_MATCH"}
        /\ pc' = [pc EXCEPT ![j] = "idle"] /\ task' = [task EXCEPT ![j] = NoTask]
        /\ UNCHANGED <<runs, runOf>>
    BY <1>7 DEF HandlerReturns, db
  <2> QED BY <2>1 DEF RunStep, RunsRest, Working, TypeOK
<1> QED BY <1>1, <1>2, <1>3, <1>4, <1>5, <1>6, <1>7 DEF Continue

LEMMA CallRun == ASSUME IInv, NEW j \in Job, Call(j) PROVE RunStep
<1> TypeOK
  BY DEF IInv
<1>1. ASSUME NEW R \in SUBSET Register, RegisterSync(j, R) PROVE RunStep
  <2>1. ~Working(j) /\ pc'[j] = "next" /\ UNCHANGED <<runs, runOf>>
    BY <1>1 DEF RegisterSync, Free, Working, TypeOK, db
  <2>2. \A i \in Job \ {j} : pc'[i] = pc[i] /\ task'[i] = task[i]
    BY <1>1 DEF RegisterSync, TypeOK
  <2> QED BY <2>1, <2>2 DEF RunStep, RunsRest, Working
<1>2. ASSUME NEW w \in Watch, ScanSkipped(j, w) \/ ScanUnconnected(j, w) PROVE RunStep
  <2>1. PICK s \in {"skipped", "failed"}, r \in Register \cup {None} :
            AppendRun("INITIAL_OPPOSITION_SCAN", s, r)
    BY <1>2, ConstantsAssumption DEF ScanSkipped, ScanUnconnected
  <2> DEFINE x == [type |-> "INITIAL_OPPOSITION_SCAN", status |-> s, register |-> r]
  <2>2. x \in ScanRun
    BY DEF ScanRun
  <2>3. Notes(x)
    BY <1>2, <2>1 DEF Notes, AppendRun, ScanSkipped, ScanUnconnected, locals
  <2> QED BY <2>2, <2>3 DEF RunStep
<1>3. ASSUME NEW w \in Watch, BeginScan(j, w) PROVE RunStep
  <2> DEFINE r == WatchRegister[w]
             x == [type |-> "INITIAL_OPPOSITION_SCAN", status |-> "running", register |-> r]
  <2>1. x \in ScanRun
    BY ConstantsAssumption DEF ScanRun
  <2>2. ~Working(j) /\ pc'[j] = "fetch" /\ OthersGoOn(j) /\ runOf'[j] = Len(runs) + 1
    BY <1>3 DEF BeginScan, Free, Working, OthersGoOn, TypeOK
  <2>3. task'[j].kind = "INITIAL_OPPOSITION_SCAN" /\ task'[j].register = r
    BY <1>3 DEF BeginScan, TypeOK
  <2>4. Opens(j, x)
    BY <1>3, <2>2, <2>3 DEF BeginScan, Opens, Working, AppendRun
  <2> QED BY <2>1, <2>4 DEF RunStep
<1>4. ASSUME ~Working(j), UNCHANGED <<runs, runOf>>,
             task'[j].kind \in {"MATCH_CANDIDATE_BATCH", "SCORE_MATCH"},
             \A i \in Job \ {j} : pc'[i] = pc[i] /\ task'[i] = task[i]
      PROVE  RunStep
  BY <1>4 DEF RunStep, RunsRest, Working
<1>5. ASSUME NEW r \in Register, MatchCandidateBatch(j, r) PROVE RunStep
  <2> DEFINE t == [NoTask EXCEPT !.kind = "MATCH_CANDIDATE_BATCH", !.register = r]
  <2>1. ~Working(j) /\ t.kind = "MATCH_CANDIDATE_BATCH"
    BY <1>5 DEF MatchCandidateBatch, Free, Working, NoTask
  <2>2. pc' = [pc EXCEPT ![j] = "score"] /\ task' = [task EXCEPT ![j] = t] /\ UNCHANGED <<runs, runOf>>
    BY <1>5 DEF MatchCandidateBatch
  <2> HIDE DEF t
  <2> QED BY <1>4, <2>1, <2>2 DEF TypeOK
<1>6. ASSUME NEW p \in Pair, ScoreMatch(j, p) PROVE RunStep
  <2> DEFINE t == [NoTask EXCEPT !.kind = "SCORE_MATCH"]
  <2>1. ~Working(j) /\ t.kind = "SCORE_MATCH"
    BY <1>6 DEF ScoreMatch, Free, Working, NoTask
  <2>2. pc' = [pc EXCEPT ![j] = "score"] /\ task' = [task EXCEPT ![j] = t] /\ UNCHANGED <<runs, runOf>>
    BY <1>6 DEF ScoreMatch, db
  <2> HIDE DEF t
  <2> QED BY <1>4, <2>1, <2>2 DEF TypeOK
<1> QED BY <1>1, <1>2, <1>3, <1>5, <1>6, ConstantsAssumption DEF Call

LEMMA RunsStep == ASSUME IInv, [Next]_vars PROVE RunStep
<1>1. CASE UNCHANGED vars
  BY <1>1 DEF vars, db, locals, RunStep, RunsRest, Working
<1>2. CASE \/ RefreshDeadlines(Cand) \/ \E c \in Cand : RefreshDeadlines({c})
           \/ \E o \in Org : ArchiveExpiredMatches(o)
           \/ World
  BY <1>2 DEF RefreshDeadlines, ArchiveExpiredMatches, World, Publish, Tick, UpsertWatch, Review,
              db, locals, RunStep, RunsRest, Working
<1> QED BY <1>1, <1>2, ContinueRun, CallRun DEF Next, Worker

\* The runs and the calls after each kind of step.
LEMMA RunsAppended ==
    ASSUME TypeOK, NEW x, runs' = Append(runs, x)
    PROVE  /\ Len(runs) \in Nat /\ Len(runs') = Len(runs) + 1
           /\ \A i \in 1..Len(runs) : runs'[i] = runs[i]
           /\ runs'[Len(runs) + 1] = x
BY DEF TypeOK

LEMMA RunClosed ==
    ASSUME TypeOK, NEW j \in Job, runOf[j] \in 1..Len(runs), NEW s,
           runs' = [runs EXCEPT ![runOf[j]] = [@ EXCEPT !.status = s]]
    PROVE  /\ Len(runs') = Len(runs)
           /\ runs'[runOf[j]] = [runs[runOf[j]] EXCEPT !.status = s]
           /\ \A i \in 1..Len(runs) : i # runOf[j] => runs'[i] = runs[i]
<1> DEFINE e == [runs[runOf[j]] EXCEPT !.status = s]
<1>1. runs \in Seq(ScanRun) /\ runs' = [runs EXCEPT ![runOf[j]] = e]
  BY DEF TypeOK
<1> HIDE DEF e
<1>2. Len(runs') = Len(runs) /\ runs'[runOf[j]] = e /\ \A i \in 1..Len(runs) : i # runOf[j] => runs'[i] = runs[i]
  BY <1>1
<1> QED BY <1>2 DEF e

LEMMA RunsAccountedStep == ASSUME IInv, RunsAccounted, [Next]_vars PROVE RunsAccounted'
<1> TypeOK /\ TypeOK'
  BY StepIInv DEF IInv
<1>0. /\ Len(runs) \in Nat /\ \A i \in Job : runOf[i] \in Nat /\ (runOf[i] # 0 <=> Working(i))
      /\ \A i \in Job : runOf[i] # 0 => runOf[i] \in 1..Len(runs)
  BY DEF TypeOK, RunsAccounted, Working
<1>1. CASE RunsRest
  BY <1>1, <1>0 DEF RunsRest, RunsAccounted, Working
<1>2. ASSUME NEW x, Notes(x) PROVE RunsAccounted'
  <2>1. /\ Len(runs') = Len(runs) + 1
        /\ \A i \in 1..Len(runs) : runs'[i] = runs[i]
        /\ runs'[Len(runs) + 1].status # "running"
        /\ UNCHANGED <<pc, task, runOf>>
    BY <1>2, RunsAppended DEF Notes
  <2> QED BY <1>0, <2>1 DEF RunsAccounted
<1>3. ASSUME NEW j \in Job, NEW x \in ScanRun, Opens(j, x) PROVE RunsAccounted'
  <2>1. /\ Len(runs') = Len(runs) + 1
        /\ \A i \in 1..Len(runs) : runs'[i] = runs[i]
        /\ runs'[Len(runs) + 1] = x
    BY <1>3, RunsAppended DEF Opens
  <2>2. runOf[j] = 0 /\ runOf'[j] = Len(runs) + 1
    BY <1>0, <1>3 DEF Opens
  <2>3. \A i \in 1..Len(runs)' : runs'[i].status = "running" <=> \E k \in Job : runOf'[k] = i
    BY <1>0, <1>3, <2>1, <2>2 DEF RunsAccounted, Opens, OthersGoOn
  <2>4. \A i \in Job : runOf'[i] <= Len(runs')
    BY <1>0, <1>3, <2>1, <2>2 DEF Opens, OthersGoOn
  <2>5. \A i \in Job : runOf'[i] # 0 <=> Working(i)'
    BY <1>0, <1>3, <2>2 DEF Opens, OthersGoOn, Working
  <2>6. \A i \in Job : runOf'[i] # 0 =>
            /\ runs'[runOf'[i]].register = task'[i].register
            /\ (runs'[runOf'[i]].type = "DAILY_SYNC") = (task'[i].kind = "REGISTER_SYNC")
            /\ \A k \in Job : k # i => runOf'[k] # runOf'[i]
    BY <1>0, <1>3, <2>1, <2>2 DEF RunsAccounted, Opens, OthersGoOn
  <2> QED BY <2>3, <2>4, <2>5, <2>6 DEF RunsAccounted, Working
<1>4. ASSUME NEW j \in Job, NEW s, Closes(j, s) PROVE RunsAccounted'
  <2>1. runOf[j] \in 1..Len(runs) /\ runOf'[j] = 0
    BY <1>0, <1>4 DEF Closes
  <2>2. /\ Len(runs') = Len(runs)
        /\ runs'[runOf[j]].status # "running"
        /\ \A i \in 1..Len(runs) : i # runOf[j] => runs'[i] = runs[i]
    <3>1. runs[runOf[j]] \in ScanRun
      BY <2>1 DEF TypeOK
    <3> QED BY <1>4, <2>1, <3>1, RunClosed DEF Closes, ScanRun
  <2>3. \A i \in Job : i # j => runOf[i] # runOf[j]
    BY <1>0, <2>1 DEF RunsAccounted
  <2>4. \A i \in 1..Len(runs)' : runs'[i].status = "running" <=> \E k \in Job : runOf'[k] = i
    BY <1>0, <1>4, <2>1, <2>2, <2>3 DEF RunsAccounted, Closes, OthersGoOn
  <2>5. \A i \in Job : runOf'[i] # 0 <=> Working(i)'
    BY <1>0, <1>4, <2>1 DEF Closes, OthersGoOn, Working
  <2>6. \A i \in Job : runOf'[i] <= Len(runs')
    BY <1>0, <1>4, <2>1, <2>2 DEF Closes, OthersGoOn
  <2>7. \A i \in Job : runOf'[i] # 0 =>
            /\ runs'[runOf'[i]].register = task'[i].register
            /\ (runs'[runOf'[i]].type = "DAILY_SYNC") = (task'[i].kind = "REGISTER_SYNC")
            /\ \A k \in Job : k # i => runOf'[k] # runOf'[i]
    BY <1>0, <1>4, <2>1, <2>2, <2>3 DEF RunsAccounted, Closes, OthersGoOn
  <2> QED BY <2>4, <2>5, <2>6, <2>7 DEF RunsAccounted, Working
<1> QED BY <1>1, <1>2, <1>3, <1>4, RunsStep DEF RunStep

\* Every scan run that is running has exactly one handler call working on it, of its kind and
\* for its register, and every call between start and end of a pipeline has its run: none is
\* left running or finished twice, however many calls overlap and wherever they fail.
THEOREM RunsAgree == Spec => []RunsAccounted
<1>1. Init => RunsAccounted
  BY DEF Init, RunsAccounted
<1>2. IInv /\ RunsAccounted /\ [Next]_vars => RunsAccounted'
  BY RunsAccountedStep
<1> QED BY <1>1, <1>2, IInvAlways, PTL DEF Spec

\* The result of a finished scan run is never changed, by no overlap of handler calls.
THEOREM FinishedStay == Spec => FinishedRunsStay
<1>1. ASSUME IInv, RunsAccounted, [Next]_vars, NEW i \in 1..Len(runs), runs[i].status # "running"
      PROVE  runs'[i] = runs[i]
  <2> TypeOK
    BY <1>1 DEF IInv
  <2>1. CASE RunsRest
    BY <2>1 DEF RunsRest
  <2>2. ASSUME NEW x, runs' = Append(runs, x) PROVE runs'[i] = runs[i]
    BY <2>2, RunsAppended
  <2>3. ASSUME NEW j \in Job, NEW s, Closes(j, s) PROVE runs'[i] = runs[i]
    <3>1. runOf[j] \in 1..Len(runs)
      BY <1>1, <2>3 DEF Closes, RunsAccounted, Working, TypeOK
    <3>2. i # runOf[j]
      BY <1>1, <3>1 DEF RunsAccounted
    <3> QED BY <2>3, <3>1, <3>2, RunClosed DEF Closes
  <2> QED BY <1>1, <2>1, <2>2, <2>3, RunsStep DEF RunStep, Notes, Opens
<1>2. IInv /\ RunsAccounted => (\A i \in 1..Len(runs) : runs[i].status # "running" => runs'[i] = runs[i])
                               \/ ~[Next]_vars
  BY <1>1
<1> QED BY <1>2, IInvAlways, RunsAgree, PTL DEF Spec, FinishedRunsStay

------------------------------------------------------------------------------
(***************************************************************************)
(* The stored candidates, the saved checkpoints and the reviewers'         *)
(* decisions: no publication is skipped, deadlines follow the stored       *)
(* content, and no handler undoes a review.                                *)
(***************************************************************************)

(***************************************************************************)
(* What a step may do to the candidates: nothing, ingest one publication   *)
(* of a log, or fill in deadlines computed from the contents they hold.    *)
(***************************************************************************)
Logged(e) == \E r \in Register : \E i \in 1..Len(feed[r]) : feed[r][i] = e

Ingests == \E e \in Publication : Logged(e) /\ store' = Ingested(e)

Recomputes ==
    /\ store' \in [Cand -> Record]
    /\ \A c \in Cand :
        \/ store'[c] = store[c]
        \/ store[c].ver # None /\ store'[c] = [store[c] EXCEPT !.period = PeriodOf(c, store[c].ver)]

\* An answered fetch ingests the publication on its page, if there is one.
LEMMA FetchIngests ==
    ASSUME IInv, NEW j \in Job, FetchAnswered(j)
    PROVE  UNCHANGED store \/ Ingests
<1> DEFINE r == task[j].register
<1>1. r \in Register
  BY DEF FetchAnswered, TaskShape, IInv
<1>2. PICK n \in paging[j].seen .. Len(feed[r]) : IngestPage(j, n)
  BY DEF FetchAnswered
<1>3. feed[r] \in Seq(Publication) /\ paging[j] \in Paging
  BY <1>1 DEF IInv, TypeOK
<1>4. Len(feed[r]) \in Nat /\ paging[j].seen \in Nat /\ paging[j].cursor \in Nat
  BY <1>3, LenProperties DEF Paging
<1>5. Page(j, n) \in SUBSET Publication
  BY <1>1, <1>4, PageType DEF IInv, TypeOK
<1>6. \A e \in Page(j, n) : Logged(e)
  BY <1>1, <1>4 DEF Page, Logged
<1> QED BY <1>2, <1>5, <1>6 DEF IngestPage, Ingests

LEMMA MissingRecomputes ==
    ASSUME IInv, NEW r, store' = MissingRefreshed(r) PROVE Recomputes
BY MissingRefreshedStore DEF IInv, TypeOK, Recomputes, MissingRefreshed

\* Candidates are stored by an answered fetch; apart from that only deadlines are recomputed.
LEMMA StoreWrites ==
    ASSUME IInv, [Next]_vars
    PROVE  UNCHANGED store \/ Recomputes \/ \E j \in Job : FetchAnswered(j)
<1>1. CASE UNCHANGED vars
  BY <1>1 DEF vars, db
<1>2. ASSUME NEW j \in Job, Continue(j) PROVE UNCHANGED store \/ Recomputes \/ FetchAnswered(j)
  <2>1. CASE DailySyncFinishes(j) \/ ScanFinishes(j)
    BY <2>1, MissingRecomputes DEF DailySyncFinishes, ScanFinishes
  <2>2. CASE \/ BeginDailySync(j) \/ DailySyncRejects(j) \/ RegisterSyncDone(j) \/ FetchFailed(j)
             \/ ScoreAnswered(j) \/ HandlerReturns(j)
    BY <2>2 DEF BeginDailySync, DailySyncRejects, RegisterSyncDone, FetchFailed, ScoreAnswered, HandlerReturns, db
  <2> QED BY <1>2, <2>1, <2>2 DEF Continue
<1>3. ASSUME NEW j \in Job, Call(j) PROVE UNCHANGED store
  BY <1>3 DEF Call, RegisterSync, ScanSkipped, ScanUnconnected, BeginScan, MatchCandidateBatch, ScoreMatch, db
<1>4. ASSUME NEW C, RefreshDeadlines(C) PROVE Recomputes
  <2>1. ASSUME NEW c \in Cand
        PROVE  /\ store'[c] \in Record
               /\ \/ store'[c] = store[c]
                  \/ store[c].ver # None /\ store'[c] = [store[c] EXCEPT !.period = PeriodOf(c, store[c].ver)]
    <3>1. store[c] \in Record
      BY DEF IInv, TypeOK
    <3>2. CASE c \in C /\ store[c].ver # None /\ CandRegister[c] \in Connected
      <4>1. PeriodOf(c, store[c].ver) \in Period
        BY <3>1, <3>2, PeriodType DEF Record
      <4>2. store'[c] = [store[c] EXCEPT !.period = PeriodOf(c, store[c].ver)]
        BY <1>4, <3>2 DEF RefreshDeadlines
      <4> QED BY <3>1, <3>2, <4>1, <4>2 DEF Record
    <3>3. CASE ~(c \in C /\ store[c].ver # None /\ CandRegister[c] \in Connected)
      BY <1>4, <3>1, <3>3 DEF RefreshDeadlines
    <3> QED BY <3>2, <3>3
  <2> QED BY <1>4, <2>1 DEF RefreshDeadlines, Recomputes
<1>5. CASE (\E o \in Org : ArchiveExpiredMatches(o)) \/ World
  BY <1>5 DEF ArchiveExpiredMatches, World, Publish, Tick, UpsertWatch, Review, db
<1> QED BY <1>1, <1>2, <1>3, <1>4, <1>5 DEF Next, Worker

LEMMA StoreStep == ASSUME IInv, [Next]_vars PROVE UNCHANGED store \/ Ingests \/ Recomputes
BY StoreWrites, FetchIngests

-----------------------------------------------------------------------------
(***************************************************************************)
(* Deadline and status follow the content.                                 *)
(***************************************************************************)
\* A record that carries the deadline and a status of the content it holds.
Follows(rec, c) ==
    IF rec.ver = None THEN rec = NoRecord
    ELSE /\ rec.period = PeriodOf(c, rec.ver)
         /\ \/ rec.status = Content[c][rec.ver].status
            \/ rec.status = "opposition_period" /\ Content[c][rec.ver].status = "published"

LEMMA IngestedFollows ==
    ASSUME store \in [Cand -> Record], NEW e \in Publication, NEW c \in Cand, Follows(store[c], c)
    PROVE  Follows(Ingested(e)[c], c)
<1> DEFINE c0 == e.cand  v0 == e.ver  up == Upserted(store, c0, v0)
<1>1. c0 \in Cand /\ v0 \in Version /\ v0 # None
  BY NoneApart DEF Publication
<1>2. CASE <<c0, v0>> \in Invalid \/ c # c0
  BY <1>1, <1>2 DEF Ingested, WithDeadline, Upserted
<1>3. CASE <<c0, v0>> \notin Invalid /\ c = c0
  <2>1. up \in [Cand -> Record] /\ up[c].ver = v0
        /\ up[c].status = IF store[c].ver = v0 THEN store[c].status ELSE EffectiveStatus(c, v0, now)
    <3>1. EffectiveStatus(c0, v0, now) \in ProceduralStatus
      BY <1>1, StatusType
    <3> QED BY <1>1, <1>3, <3>1 DEF Upserted, Record
  <2>2. Ingested(e) = [up EXCEPT ![c0] = [@ EXCEPT !.period = PeriodOf(c0, v0)]]
    BY <1>3 DEF Ingested, WithDeadline
  <2> HIDE DEF up, c0, v0
  <2>3. /\ Ingested(e)[c].ver = v0 /\ Ingested(e)[c].period = PeriodOf(c, v0)
        /\ Ingested(e)[c].status = up[c].status
    BY <1>1, <1>3, <2>1, <2>2 DEF Record
  <2>4. \/ EffectiveStatus(c, v0, now) = Content[c][v0].status
        \/ EffectiveStatus(c, v0, now) = "opposition_period" /\ Content[c][v0].status = "published"
    BY DEF EffectiveStatus
  <2>5. store[c].ver = v0 =>
            \/ store[c].status = Content[c][v0].status
            \/ store[c].status = "opposition_period" /\ Content[c][v0].status = "published"
    BY <1>1 DEF Follows
  <2> QED BY <1>1, <2>1, <2>3, <2>4, <2>5 DEF Follows
<1> QED BY <1>2, <1>3

LEMMA RecomputedFollows ==
    ASSUME store \in [Cand -> Record], Recomputes, NEW c \in Cand, Follows(store[c], c)
    PROVE  Follows(store'[c], c)
<1>1. CASE store'[c] = store[c]
  BY <1>1
<1>2. CASE store[c].ver # None /\ store'[c] = [store[c] EXCEPT !.period = PeriodOf(c, store[c].ver)]
  BY <1>2 DEF Follows, Record
<1> QED BY <1>1, <1>2 DEF Recomputes

\* Whichever pipelines wrote a candidate and in whatever order, its deadline is the one of the
\* content it holds and its status is the reported one or "opposition_period" for "published".
THEOREM DeadlinesFollow == Spec => []DeadlineFollowsContent
<1> DEFINE Inv == \A c \in Cand : Follows(store[c], c)
<1>1. Inv <=> DeadlineFollowsContent
  BY DEF Follows, DeadlineFollowsContent
<1>2. Init => Inv
  BY DEF Init, Follows, NoRecord
<1>3. IInv /\ Inv /\ [Next]_vars => Inv'
  <2> SUFFICES ASSUME IInv, Inv, [Next]_vars, NEW c \in Cand PROVE Follows(store'[c], c)
    BY DEF Follows
  <2> QED BY StoreStep, IngestedFollows, RecomputedFollows DEF Ingests, IInv, TypeOK
<1> HIDE DEF Inv
<1> QED BY <1>1, <1>2, <1>3, IInvAlways, PTL DEF Spec

-----------------------------------------------------------------------------
(***************************************************************************)
(* No publication is skipped.                                              *)
(***************************************************************************)
StoredStay == \A c \in Cand : store[c].ver # None => store'[c].ver # None

FeedGrows ==
    \A r \in Register : /\ Len(feed[r]) <= Len(feed'[r])
                        /\ \A i \in 1..Len(feed[r]) : feed'[r][i] = feed[r][i]

\* A candidate keeps its content, or takes that of the publication.
LEMMA IngestedVersion ==
    ASSUME store \in [Cand -> Record], NEW e \in Publication, NEW c \in Cand
    PROVE  \/ Ingested(e)[c].ver = store[c].ver
           \/ c = e.cand /\ Ingested(e)[c].ver = e.ver
<1> DEFINE up == Upserted(store, e.cand, e.ver)
<1>1. e.cand \in Cand /\ e.ver \in Version
  BY DEF Publication
<1>2. EffectiveStatus(e.cand, e.ver, now) \in ProceduralStatus
  BY <1>1, StatusType
<1>3. up \in [Cand -> Record] /\ (up[c].ver = store[c].ver \/ (c = e.cand /\ up[c].ver = e.ver))
  BY <1>1, <1>2 DEF Upserted, Record
<1>4. Ingested(e) \in {store, [up EXCEPT ![e.cand] = [@ EXCEPT !.period = PeriodOf(e.cand, e.ver)]]}
  BY DEF Ingested, WithDeadline
<1> HIDE DEF up
<1> QED BY <1>1, <1>3, <1>4 DEF Record

LEMMA StoreGrows == ASSUME IInv, [Next]_vars PROVE StoredStay
<1>1. CASE UNCHANGED store
  BY <1>1 DEF StoredStay
<1>2. CASE Ingests
  <2>1. PICK e \in Publication : store' = Ingested(e)
    BY <1>2 DEF Ingests
  <2> QED BY <2>1, IngestedStore DEF IInv, TypeOK, StoredStay
<1>3. CASE Recomputes
  BY <1>3 DEF IInv, TypeOK, Recomputes, StoredStay, Record
<1> QED BY <1>1, <1>2, <1>3, StoreStep

\* Only the register writes its log.
LEMMA FeedStep ==
    ASSUME [Next]_vars PROVE UNCHANGED feed \/ \E c \in Cand, v \in Version : Publish(c, v)
<1>1. CASE Worker \/ Tick \/ (\E w \in Watch, s \in WatchMoves : UpsertWatch(w, s))
           \/ (\E p \in Pair, s \in Decisions : Review(p, s)) \/ UNCHANGED vars
  BY <1>1 DEF Worker, Call, Continue, RegisterSync, BeginDailySync, DailySyncRejects, RegisterSyncDone,
      ScanSkipped, ScanUnconnected, BeginScan, FetchAnswered, FetchFailed, ScoreAnswered, DailySyncFinishes,
      ScanFinishes, HandlerReturns, MatchCandidateBatch, ScoreMatch, RefreshDeadlines, ArchiveExpiredMatches,
      Tick, UpsertWatch, Review, vars, env
<1> QED BY <1>1 DEF Next, World

LEMMA LogGrows == ASSUME IInv, [Next]_vars PROVE FeedGrows
<1> TypeOK
  BY DEF IInv
<1>1. \A r \in Register : feed[r] \in Seq(Publication) /\ Len(feed[r]) \in Nat
  BY LenProperties DEF TypeOK
<1>2. CASE UNCHANGED feed
  BY <1>1, <1>2 DEF FeedGrows
<1>3. ASSUME NEW c \in Cand, NEW v \in Version, Publish(c, v) PROVE FeedGrows
  <2> DEFINE r == CandRegister[c]  e == [cand |-> c, ver |-> v]
  <2>1. r \in Register /\ e \in Publication
    BY ConstantsAssumption DEF Publication
  <2>2. feed' = [feed EXCEPT ![r] = Append(feed[r], e)]
    BY <1>3 DEF Publish
  <2> HIDE DEF e, r
  <2>3. /\ Len(Append(feed[r], e)) = Len(feed[r]) + 1
        /\ \A i \in 1..Len(feed[r]) : Append(feed[r], e)[i] = feed[r][i]
    BY <1>1, <2>1, AppendProperties
  <2> QED BY <1>1, <2>1, <2>2, <2>3 DEF FeedGrows, TypeOK
<1> QED BY <1>2, <1>3, FeedStep

\* Covered, said of the state after a step.
CoveredAfter(r, n) ==
    /\ n <= Len(feed'[r])
    /\ \A i \in 1..n : \E e \in {feed'[r][i]} : <<e.cand, e.ver>> \in Invalid \/ store'[e.cand].ver # None

LEMMA AfterIsPrime ==
    (/\ \A r \in Register : CoveredAfter(r, checkpoint'[r])
     /\ \A j \in Job : pc'[j] = "fetch" => CoveredAfter(task'[j].register, paging'[j].cursor))
    => CheckpointCovered'
BY DEF CheckpointCovered, Covered, CoveredAfter

\* What is covered stays covered.
LEMMA CoveredStays ==
    ASSUME IInv, StoredStay, FeedGrows, NEW r \in Register, NEW n \in Nat, Covered(r, n)
    PROVE  CoveredAfter(r, n)
<1>1. feed[r] \in Seq(Publication) /\ Len(feed[r]) \in Nat /\ n <= Len(feed[r])
  BY LenProperties DEF IInv, TypeOK, Covered
<1>2. ASSUME NEW i \in 1..n
      PROVE  \E e \in {feed'[r][i]} : <<e.cand, e.ver>> \in Invalid \/ store'[e.cand].ver # None
  <2>1. i \in 1..Len(feed[r])
    BY <1>1
  <2>2. feed[r][i] \in Publication
    BY <1>1, <2>1, ElementOfSeq
  <2>3. feed'[r][i] = feed[r][i]
    BY <2>1 DEF FeedGrows
  <2> QED BY <2>2, <2>3 DEF Covered, StoredStay, Publication
<1>3. n <= Len(feed'[r])
  BY <1>1 DEF FeedGrows
<1> QED BY <1>2, <1>3 DEF CoveredAfter

\* Ingesting the publication at the cursor covers one publication more.
LEMMA IngestCovers ==
    ASSUME IInv, UNCHANGED feed, NEW j \in Job, NEW r \in Register, task[j].register = r,
           NEW k \in Nat, paging[j].cursor = k, NEW n \in Nat, k < n, n <= Len(feed[r]),
           IngestPage(j, n), CoveredAfter(r, k)
    PROVE  CoveredAfter(r, k + 1)
<1>1. feed[r] \in Seq(Publication) /\ Len(feed[r]) \in Nat
  BY LenProperties DEF IInv, TypeOK
<1> DEFINE e == feed[r][k + 1]
<1>2. e \in Publication
  <2>1. k + 1 \in 1..Len(feed[r])
    BY <1>1
  <2> QED BY <1>1, <2>1, ElementOfSeq
<1>3. store' = Ingested(e)
  BY DEF IngestPage, Page
<1>4. <<e.cand, e.ver>> \in Invalid \/ store'[e.cand].ver # None
  BY <1>2, <1>3, IngestedStore DEF IInv, TypeOK
<1>5. \A i \in 1..(k + 1) : i \in 1..k \/ i = k + 1
  OBVIOUS
<1> QED BY <1>1, <1>4, <1>5 DEF CoveredAfter

\* An answered fetch moves its cursor and the checkpoint past what it has ingested only.
LEMMA FetchCovers ==
    ASSUME IInv, StoredStay, FeedGrows, CheckpointCovered, NEW j \in Job, FetchAnswered(j)
    PROVE  CheckpointCovered'
<1> USE DEF IInv
<1> DEFINE r == task[j].register  k == paging[j].cursor
<1>1. pc[j] = "fetch" /\ r \in Register /\ UNCHANGED feed
  BY DEF FetchAnswered, TaskShape, env
<1>2. paging[j] \in Paging /\ Len(feed[r]) \in Nat /\ k \in Nat
  BY <1>1, LenProperties DEF TypeOK, Paging
<1>3. PICK n \in paging[j].seen .. Len(feed[r]) : \E next \in NextCursors(j, n) :
        IngestPage(j, n) /\ SaveCheckpoint(j, next) /\ (NextPage(j, n, next) \/ StartMatching(j, n))
  BY DEF FetchAnswered
<1>4. PICK next \in NextCursors(j, n) :
        IngestPage(j, n) /\ SaveCheckpoint(j, next) /\ (NextPage(j, n, next) \/ StartMatching(j, n))
  BY <1>3
<1>5. n \in Nat /\ n <= Len(feed[r])
  BY <1>2, <1>3 DEF Paging
<1>6. CoveredAfter(r, k)
  BY <1>1, <1>2, CoveredStays DEF CheckpointCovered
<1>7. next # 0 => CoveredAfter(r, next)
  <2> SUFFICES ASSUME next # 0 PROVE CoveredAfter(r, next)
    OBVIOUS
  <2>1. next = k + 1 /\ k < n
    BY <1>2, <1>4, <1>5 DEF NextCursors, HasMore
  <2>2. CoveredAfter(r, k + 1)
    BY <1>1, <1>2, <1>4, <1>5, <1>6, <2>1, IngestCovers
  <2> QED BY <2>1, <2>2
<1>8. ASSUME NEW s \in Register PROVE CoveredAfter(s, checkpoint'[s])
  <2>1. checkpoint[s] \in Nat /\ CoveredAfter(s, checkpoint[s])
    BY CoveredStays DEF CheckpointCovered, TypeOK
  <2>2. checkpoint'[s] = checkpoint[s] \/ (s = r /\ next # 0 /\ checkpoint'[s] = next)
    BY <1>4 DEF SaveCheckpoint, TypeOK
  <2> HIDE DEF r
  <2> QED BY <1>7, <2>1, <2>2
<1>9. ASSUME NEW i \in Job, pc'[i] = "fetch" PROVE CoveredAfter(task'[i].register, paging'[i].cursor)
  <2>1. CASE i = j
    <3>1. NextPage(j, n, next)
      BY <1>4, <1>9, <2>1 DEF StartMatching, TypeOK
    <3>2. next # 0 /\ paging'[j].cursor = next /\ task'[j].register = r
      BY <1>2, <1>4, <1>5, <3>1 DEF NextPage, LoopsOn, NextCursors, HasMore, TypeOK, Paging
    <3> QED BY <1>7, <2>1, <3>2
  <2>2. CASE i # j
    <3>1. pc'[i] = pc[i] /\ task'[i] = task[i] /\ paging'[i] = paging[i]
      BY <1>4, <2>2 DEF NextPage, StartMatching, TypeOK
    <3>2. task[i].register \in Register /\ paging[i].cursor \in Nat
      BY <1>9, <3>1 DEF TaskShape, TypeOK, Paging
    <3> QED BY <1>9, <3>1, <3>2, CoveredStays DEF CheckpointCovered
  <2> QED BY <2>1, <2>2
<1> QED BY <1>8, <1>9, AfterIsPrime

\* A step that moves no checkpoint and starts or leaves page loops keeps everything covered,
\* if a loop it starts begins at the saved checkpoint or at the beginning of the log.
LEMMA OthersCover ==
    ASSUME IInv, IInv', StoredStay, FeedGrows, CheckpointCovered, UNCHANGED checkpoint,
           \A i \in Job : pc'[i] = "fetch" =>
              \/ pc[i] = "fetch" /\ task'[i] = task[i] /\ paging'[i] = paging[i]
              \/ paging'[i].cursor \in {0, checkpoint[task'[i].register]}
    PROVE  CheckpointCovered'
<1> USE DEF IInv
<1>1. ASSUME NEW s \in Register PROVE CoveredAfter(s, checkpoint[s]) /\ CoveredAfter(s, 0)
  <2>1. CoveredAfter(s, checkpoint[s])
    BY CoveredStays DEF CheckpointCovered, TypeOK
  <2>2. feed'[s] \in Seq(Publication) /\ Len(feed'[s]) \in Nat
    BY LenProperties DEF TypeOK
  <2>3. CoveredAfter(s, 0)
    BY <2>2 DEF CoveredAfter
  <2> QED BY <2>1, <2>3
<1>2. ASSUME NEW i \in Job, pc'[i] = "fetch" PROVE CoveredAfter(task'[i].register, paging'[i].cursor)
  <2>1. task'[i].register \in Register
    BY <1>2 DEF TaskShape
  <2>2. CASE pc[i] = "fetch" /\ task'[i] = task[i] /\ paging'[i] = paging[i]
    <3>1. paging[i].cursor \in Nat
      BY DEF TypeOK, Paging
    <3> QED BY <2>1, <2>2, <3>1, CoveredStays DEF CheckpointCovered
  <2>3. CASE paging'[i].cursor \in {0, checkpoint[task'[i].register]}
    BY <1>1, <2>1, <2>3
  <2> QED BY <1>2, <2>2, <2>3
<1> QED BY <1>1, <1>2, AfterIsPrime

LEMMA CoveredStep == ASSUME IInv, CheckpointCovered, [Next]_vars PROVE CheckpointCovered'
<1>1. IInv' /\ StoredStay /\ FeedGrows
  BY StepIInv, StoreGrows, LogGrows
<1> DEFINE LoopsStartCovered ==
        \A i \in Job : pc'[i] = "fetch" =>
              \/ pc[i] = "fetch" /\ task'[i] = task[i] /\ paging'[i] = paging[i]
              \/ paging'[i].cursor \in {0, checkpoint[task'[i].register]}
<1> USE DEF IInv
<1>2. CASE UNCHANGED <<checkpoint, pc, task, paging>>
  BY <1>1, <1>2, OthersCover
<1>3. ASSUME NEW j \in Job, BeginDailySync(j) PROVE UNCHANGED checkpoint /\ LoopsStartCovered
  BY <1>3 DEF BeginDailySync, TypeOK, Task, FirstPage
<1>4. ASSUME NEW j \in Job, DailySyncRejects(j) \/ RegisterSyncDone(j) \/ HandlerReturns(j)
      PROVE  UNCHANGED checkpoint /\ LoopsStartCovered
  <2>1. /\ UNCHANGED <<checkpoint, paging>>
        /\ pc' = [pc EXCEPT ![j] = "rejected"] \/ pc' = [pc EXCEPT ![j] = "idle"]
        /\ UNCHANGED task \/ task' = [task EXCEPT ![j] = NoTask]
    BY <1>4 DEF DailySyncRejects, RegisterSyncDone, HandlerReturns, db
  <2> QED BY <2>1 DEF TypeOK
<1>5. ASSUME NEW j \in Job, FetchFailed(j) \/ DailySyncFinishes(j) \/ ScanFinishes(j)
      PROVE  UNCHANGED checkpoint /\ LoopsStartCovered
  <2>1. /\ UNCHANGED checkpoint
        /\ pc' = [pc EXCEPT ![j] = "next"] \/ pc' = [pc EXCEPT ![j] = "idle"]
        /\ \E t, g : task' = [task EXCEPT ![j] = t] /\ paging' = [paging EXCEPT ![j] = g]
    <3>1. paging = [paging EXCEPT ![j] = paging[j]]
      BY DEF TypeOK
    <3> QED BY <1>5, <3>1 DEF FetchFailed, DailySyncFinishes, ScanFinishes
  <2> QED BY <2>1 DEF TypeOK
<1>6. ASSUME NEW j \in Job, ScoreAnswered(j) PROVE UNCHANGED <<checkpoint, pc, task, paging>>
  BY <1>6 DEF ScoreAnswered
<1>7. ASSUME NEW j \in Job, NEW R, RegisterSync(j, R) PROVE UNCHANGED checkpoint /\ LoopsStartCovered
  <2>1. UNCHANGED <<checkpoint, paging>> /\ pc' = [pc EXCEPT ![j] = "next"]
        /\ \E t : task' = [task EXCEPT ![j] = t]
    BY <1>7 DEF RegisterSync, db
  <2> QED BY <2>1 DEF TypeOK
<1>8. ASSUME NEW j \in Job, NEW w, BeginScan(j, w) PROVE UNCHANGED checkpoint /\ LoopsStartCovered
  <2>1. UNCHANGED checkpoint /\ pc' = [pc EXCEPT ![j] = "fetch"]
        /\ \E t : task' = [task EXCEPT ![j] = t]
        /\ \E m : paging' = [paging EXCEPT ![j] = [FirstPage EXCEPT !.seen = m]]
    BY <1>8 DEF BeginScan
  <2> QED BY <2>1 DEF TypeOK, FirstPage
<1>9. ASSUME NEW j \in Job,
             (\E r \in Register : MatchCandidateBatch(j, r)) \/ (\E p \in Pair : ScoreMatch(j, p))
      PROVE  UNCHANGED checkpoint /\ LoopsStartCovered
  <2>1. UNCHANGED <<checkpoint, paging>> /\ pc' = [pc EXCEPT ![j] = "score"]
        /\ \E t : task' = [task EXCEPT ![j] = t]
    BY <1>9 DEF MatchCandidateBatch, ScoreMatch, db
  <2> QED BY <2>1 DEF TypeOK
<1>10. CASE \/ \E j \in Job, w \in Watch : ScanSkipped(j, w) \/ ScanUnconnected(j, w)
            \/ RefreshDeadlines(Cand) \/ \E c \in Cand : RefreshDeadlines({c})
            \/ \E o \in Org : ArchiveExpiredMatches(o)
            \/ World
            \/ UNCHANGED vars
  <2>1. UNCHANGED <<checkpoint, pc, task, paging>>
    BY <1>10 DEF ScanSkipped, ScanUnconnected, RefreshDeadlines, ArchiveExpiredMatches, World, Publish,
                 Tick, UpsertWatch, Review, vars, db, locals
  <2> QED BY <2>1, <1>2
<1>11. CASE \E j \in Job : Continue(j)
  <2>1. CASE \E j \in Job : FetchAnswered(j)
    BY <1>1, <2>1, FetchCovers
  <2>2. CASE \E j \in Job : ScoreAnswered(j)
    BY <1>2, <1>6, <2>2
  <2>3. CASE \E j \in Job : \/ BeginDailySync(j) \/ DailySyncRejects(j) \/ RegisterSyncDone(j) \/ FetchFailed(j)
                          \/ DailySyncFinishes(j) \/ ScanFinishes(j) \/ HandlerReturns(j)
    <3>1. UNCHANGED checkpoint /\ LoopsStartCovered
      BY <2>3, <1>3, <1>4, <1>5
    <3> QED BY <1>1, <3>1, OthersCover
  <2> QED BY <1>11, <2>1, <2>2, <2>3 DEF Continue
<1>12. CASE \E j \in Job : Call(j)
  <2>1. CASE \E j \in Job, w \in Watch : ScanSkipped(j, w) \/ ScanUnconnected(j, w)
    BY <1>10, <2>1
  <2>2. CASE ~ \E j \in Job, w \in Watch : ScanSkipped(j, w) \/ ScanUnconnected(j, w)
    <3>1. UNCHANGED checkpoint /\ LoopsStartCovered
      BY <1>12, <2>2, <1>7, <1>8, <1>9 DEF Call
    <3> QED BY <1>1, <3>1, OthersCover
  <2> QED BY <2>1, <2>2
<1> QED BY <1>10, <1>11, <1>12 DEF Next, Worker

\* No register's publication is ever skipped by its saved checkpoint or by a page loop, even
\* when syncs and scans of the register overlap, fail half way or lack a next checkpoint.
THEOREM NothingSkipped == Spec => []CheckpointCovered
<1>1. Init => CheckpointCovered
  <2>1. Init => \A r \in Register : feed[r] = <<>> /\ checkpoint[r] = 0
    BY DEF Init
  <2>2. Init => \A j \in Job : pc[j] = "idle"
    BY DEF Init
  <2> QED BY <2>1, <2>2 DEF CheckpointCovered, Covered
<1>2. IInv /\ CheckpointCovered /\ [Next]_vars => CheckpointCovered'
  BY CoveredStep
<1> QED BY <1>1, <1>2, IInvAlways, PTL DEF Spec

-----------------------------------------------------------------------------
(***************************************************************************)
(* No handler undoes a review.                                             *)
(***************************************************************************)
\* Matches change when they are archived, scored or reviewed.
LEMMA MatchesChange ==
    ASSUME [Next]_vars
    PROVE  \/ UNCHANGED matches
           \/ matches' = Archived
           \/ \E j \in Job : ScoreAnswered(j)
           \/ \E p \in Pair, s \in Decisions : Review(p, s)
<1>1. CASE UNCHANGED vars
  BY <1>1 DEF vars, db
<1>2. ASSUME NEW j \in Job, Continue(j), ~ScoreAnswered(j) PROVE UNCHANGED matches \/ matches' = Archived
  BY <1>2 DEF Continue, BeginDailySync, DailySyncRejects, RegisterSyncDone, FetchAnswered, FetchFailed,
              DailySyncFinishes, ScanFinishes, HandlerReturns, db
<1>3. ASSUME NEW j \in Job, Call(j) PROVE UNCHANGED matches
  BY <1>3 DEF Call, RegisterSync, ScanSkipped, ScanUnconnected, BeginScan, MatchCandidateBatch, ScoreMatch, db
<1>4. ASSUME NEW C, RefreshDeadlines(C) PROVE UNCHANGED matches
  BY <1>4 DEF RefreshDeadlines
<1>5. ASSUME NEW o \in Org, ArchiveExpiredMatches(o) PROVE matches' = Archived
  BY <1>5 DEF ArchiveExpiredMatches
<1>6. CASE Tick \/ (\E c \in Cand, v \in Version : Publish(c, v))
           \/ (\E w \in Watch, s \in WatchMoves : UpsertWatch(w, s))
  BY <1>6 DEF Tick, Publish, UpsertWatch, db
<1> QED BY <1>1, <1>2, <1>3, <1>4, <1>5, <1>6 DEF Next, Worker, World

\* No re-score, sync, scan or archiving run, however they overlap, moves a match out of a
\* status a reviewer or an earlier expiry gave it, nor expires it before its deadline.
THEOREM ReviewsKept == Spec => ReviewKept
<1> DEFINE Kept ==
        \A p \in Pair :
            matches[p].status # None /\ matches'[p].status # matches[p].status =>
                \/ \E s \in Reviewed : Review(p, s)
                \/ /\ matches[p].status \notin Terminal
                   /\ matches'[p].status = "opposition_deadline_passed"
                   /\ Midnight(store[p[2]].period.deadline) < now
<1>1. IInv /\ [Next]_vars => [Kept]_vars
  <2> SUFFICES ASSUME IInv, [Next]_vars PROVE Kept
    OBVIOUS
  <2> TypeOK
    BY DEF IInv
  <2>1. CASE UNCHANGED matches
    BY <2>1
  <2>2. CASE matches' = Archived
    BY <2>2 DEF Archived, Expired, TypeOK, Match
  <2>3. ASSUME NEW j \in Job, ScoreAnswered(j) PROVE Kept
    <3>1. UNCHANGED matches \/ \E q, v : matches' = MatchUpserted(q, v)
      BY <2>3 DEF ScoreAnswered
    <3>2. ASSUME NEW q, NEW v, matches' = MatchUpserted(q, v) PROVE Kept
      BY <3>2 DEF MatchUpserted, TypeOK, Match
    <3> QED BY <2>1, <3>1, <3>2
  <2>4. ASSUME NEW q \in Pair, NEW s \in Decisions, Review(q, s) PROVE Kept
    <3>1. s \in Reviewed
      BY ConstantsAssumption
    <3>2. \A p \in Pair : p # q => matches'[p] = matches[p]
      BY <2>4 DEF Review, TypeOK
    <3> QED BY <2>4, <3>1, <3>2
  <2> QED BY <2>1, <2>2, <2>3, <2>4, MatchesChange
<1> QED BY <1>1, IInvAlways, PTL DEF Spec, ReviewKept

\* Both of the above.
THEOREM StoreFollows == Spec => []StoreFollowsLog
<1> QED
  BY NothingSkipped, DeadlinesFollow, PTL DEF StoreFollowsLog
=============================================================================
