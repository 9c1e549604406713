---------------------------- MODULE DispatchProofs ----------------------------
(***************************************************************************)
(* The match-job queue of WorkerPipeline, for every number of handlers:    *)
(* each job is handed out once, an initial scan keeps to its own watch,    *)
(* the pipelines implement MatchDispatch and matches are grounded; and for *)
(* one handler call at a time an initial scan finds the open filings.      *)
(***************************************************************************)
EXTENDS WorkerPipelineProofs

\* Only a handler call that is scoring holds match jobs.
HeldWhenScoring == \A j \in Job : pc[j] # "score" => todo[j] = {} /\ cur[j] = NoItem

\* A call whose awaited score is done has no drained job left to read.
ItemFirst == \A j \in Job : cur[j] = NoItem => todo[j] = {}

QInv == KeysHandedOutOnce /\ HeldWhenScoring /\ ItemFirst

-----------------------------------------------------------------------------
(***************************************************************************)
(* What a step may do to the queue, the keys and the jobs held: nothing,   *)
(* claim new keys for a call that holds none, or score one held key.       *)
(***************************************************************************)
\* A score is awaited for the stored content of a pair that is a match or was queued.
Awaits(j) ==
    cur'[j].ver # None => \E p \in Pair :
        /\ cur'[j].pair = p /\ cur'[j].ver = store'[p[2]].ver
        /\ matches[p] # NoMatch \/ \E v \in Version : <<p[1], p[2], v>> \in keys'

Reads(j) ==
    /\ cur'[j].key \notin todo'[j]
    /\ cur'[j] = NoItem => todo'[j] = {}
    /\ Awaits(j)
    /\ cur'[j].key # None => cur'[j] = Item(cur'[j].key, store')

\* The pairs claimed are of one register, and for a scan of its own watch.
Fits(j, S) ==
    \A k \in S : /\ WatchRegister[k[1]] = CandRegister[k[2]]
                 /\ task'[j].kind = "INITIAL_OPPOSITION_SCAN" => k[1] = task'[j].watch

\* A job is claimed for the content its application is stored with, while that is open.
OpenWhenClaimed(S) == \A k \in S : store'[k[2]].ver = k[3] /\ WithinWindow(store'[k[2]], now)

OthersKeep(j) == \A i \in Job \ {j} : todo'[i] = todo[i] /\ cur'[i] = cur[i]

Rests == UNCHANGED <<keys, queue, todo, cur>>

Claims(j, S) ==
    /\ Held(j) = {} /\ S \in SUBSET (Key \ keys) /\ Fits(j, S) /\ OpenWhenClaimed(S)
    /\ keys' = keys \cup S /\ queue' = {}
    /\ Held(j)' = S /\ Reads(j)
    /\ OthersKeep(j)

Scores(j) ==
    /\ UNCHANGED <<keys, queue>>
    /\ Held(j)' = Held(j) \ {cur[j].key} /\ Reads(j)
    /\ OthersKeep(j)
    /\ cur[j] # NoItem => ScoreAnswered(j)

LEMMA Taken ==
    ASSUME TypeOK, NEW j \in Job, NEW S \in SUBSET Key, S \subseteq keys', NEW st, st = store',
           TakeNext(j, S, st)
    PROVE  Held(j)' = S /\ Reads(j) /\ OthersKeep(j)
<1>1. CASE S = {} /\ cur' = [cur EXCEPT ![j] = NoItem] /\ todo' = [todo EXCEPT ![j] = {}]
  <2>1. cur'[j] = NoItem /\ todo'[j] = {} /\ OthersKeep(j)
    BY <1>1 DEF TypeOK, OthersKeep
  <2> QED BY <1>1, <2>1 DEF Held, Reads, Awaits, NoItem
<1>2. ASSUME NEW k \in S, cur' = [cur EXCEPT ![j] = Item(k, st)], todo' = [todo EXCEPT ![j] = S \ {k}]
      PROVE  Held(j)' = S /\ Reads(j) /\ OthersKeep(j)
  <2>1. cur'[j] = Item(k, st) /\ todo'[j] = S \ {k} /\ OthersKeep(j)
    BY <1>2 DEF TypeOK, OthersKeep
  <2>2. k # None /\ <<k[1], k[2]>> \in Pair /\ k[3] \in Version /\ k = <<k[1], k[2], k[3]>>
    BY NoneApart DEF Key, Pair
  <2>3. cur'[j].key = k /\ cur'[j].pair = <<k[1], k[2]>> /\ (cur'[j].ver # None => cur'[j].ver = store'[k[2]].ver)
    BY <2>1 DEF Item
  <2>4. k \in keys'
    BY <1>2
  <2>5. Awaits(j)
    BY <2>2, <2>3, <2>4 DEF Awaits
  <2> QED BY <2>1, <2>2, <2>3, <2>5 DEF Held, Reads, NoItem
<1> QED BY <1>1, <1>2 DEF TakeNext

LEMMA Claimed ==
    ASSUME TypeOK, QInv, NEW j \in Job, Held(j) = {}, NEW W \in SUBSET Watch, NEW C \in SUBSET Cand,
           NEW st \in [Cand -> Record], st = store', \A c \in C : st[c].ver # None,
           \A w \in W, c \in C : WatchRegister[w] = CandRegister[c],
           \A c \in C : WithinWindow(st[c], now),
           task'[j].kind = "INITIAL_OPPOSITION_SCAN" => \A w \in W : w = task'[j].watch,
           EnqueueAndDrain(j, W, C, st)
    PROVE  Claims(j, Fresh(W, C, st))
<1> DEFINE new == Fresh(W, C, st)
<1>1. new \in SUBSET (Key \ keys) /\ new \in SUBSET Key
  BY FreshKeys
<1>2. keys' = keys \cup new /\ queue' = {} /\ TakeNext(j, queue \cup new, st) /\ queue \cup new = new
  BY DEF EnqueueAndDrain, QInv, KeysHandedOutOnce
<1>3. Fits(j, new)
  BY DEF Fresh, Fits
<1>5. OpenWhenClaimed(new)
  BY DEF Fresh, OpenWhenClaimed
<1> HIDE DEF new
<1>4. Held(j)' = new /\ Reads(j) /\ OthersKeep(j)
  BY <1>1, <1>2, Taken
<1> QED BY <1>1, <1>2, <1>3, <1>4, <1>5 DEF Claims, new

LEMMA NothingHeld ==
    ASSUME HeldWhenScoring, NEW j \in Job, pc[j] # "score"
    PROVE  todo[j] = {} /\ cur[j] = NoItem /\ Held(j) = {}
BY DEF HeldWhenScoring, Held, NoItem

\* Starting to match claims the keys that were never used.
LEMMA StartClaims ==
    ASSUME IInv, QInv, NEW j \in Job, FetchAnswered(j)
    PROVE  (Rests /\ UNCHANGED pc) \/ (pc'[j] = "score" /\ \E S : Claims(j, S))
<1> DEFINE r == task[j].register
<1>1. pc[j] = "fetch" /\ r \in Register /\ TypeOK
  BY DEF FetchAnswered, TaskShape, IInv
<1>2. PICK n \in paging[j].seen .. Len(feed[r]) : \E next \in NextCursors(j, n) :
        NextPage(j, n, next) \/ StartMatching(j, n)
  BY DEF FetchAnswered
<1>3. PICK next \in NextCursors(j, n) : NextPage(j, n, next) \/ StartMatching(j, n)
  BY <1>2
<1>4. CASE NextPage(j, n, next)
  BY <1>4 DEF NextPage, Rests
<1>5. CASE StartMatching(j, n)
  <2>1. IInv'
    BY FetchIInv
  <2>2. store' \in [Cand -> Record] /\ \A c \in Cand : store'[c].period # None => store'[c].ver # None
    BY <2>1 DEF IInv, TypeOK, DeadlineHasContent
  <2> DEFINE open == OpenCandidates(r, store')
  <2>3. open \in SUBSET Cand /\ \A c \in open : store'[c].ver # None
    BY <2>2, OpenHasContent
  <2>0. task'[j].kind = task[j].kind /\ task'[j].watch = task[j].watch
    BY <1>5 DEF StartMatching, TypeOK, Task
  <2>4. PICK W \in SUBSET Watch, C \in SUBSET Cand :
            /\ C \subseteq open /\ EnqueueAndDrain(j, W, C, store')
            /\ \A w \in W : WatchRegister[w] = r
            /\ task[j].kind = "INITIAL_OPPOSITION_SCAN" => \A w \in W : w = task[j].watch
    <3>1. CASE Daily(j)
      <4>1. Changed(j, n) \cap open \in SUBSET Cand
        BY <2>3
      <4>2. WatchesOf(r) \in SUBSET Watch /\ \A w \in WatchesOf(r) : WatchRegister[w] = r
        BY DEF WatchesOf
      <4>3. task[j].kind # "INITIAL_OPPOSITION_SCAN"
        BY <3>1 DEF Daily
      <4> QED BY <1>5, <3>1, <4>1, <4>2, <4>3 DEF StartMatching
    <3>2. CASE ~Daily(j)
      <4>1. task[j].watch \in Watch /\ WatchRegister[task[j].watch] = r
        BY <1>1, <3>2 DEF TaskShape, Daily, IInv
      <4> QED BY <1>5, <2>3, <3>2, <4>1 DEF StartMatching
    <3> QED BY <3>1, <3>2
  <2>5. Held(j) = {}
    BY <1>1, NothingHeld DEF QInv
  <2>6. /\ \A w \in W, c \in C : WatchRegister[w] = CandRegister[c]
        /\ \A c \in C : WithinWindow(store'[c], now)
    BY <2>4 DEF OpenCandidates
  <2>8. Claims(j, Fresh(W, C, store'))
    BY <1>1, <2>0, <2>2, <2>3, <2>4, <2>5, <2>6, Claimed
  <2>7. pc'[j] = "score"
    BY <1>1, <1>5 DEF StartMatching, TypeOK
  <2> QED BY <2>7, <2>8
<1> QED BY <1>3, <1>4, <1>5

\* So does a batch of a register's open applications.
LEMMA BatchClaims ==
    ASSUME IInv, QInv, NEW j \in Job, NEW r \in Register, MatchCandidateBatch(j, r)
    PROVE  \E S : Claims(j, S)
<1> USE DEF IInv
<1> DEFINE W == WatchesOf(r)  C == OpenCandidates(r, store)
<1>1. store \in [Cand -> Record] /\ \A c \in Cand : store[c].period # None => store[c].ver # None
  BY DEF TypeOK, DeadlineHasContent
<1>2. C \in SUBSET Cand /\ \A c \in C : store[c].ver # None
  BY <1>1, OpenHasContent
<1>3. /\ W \in SUBSET Watch /\ \A w \in W, c \in C : WatchRegister[w] = CandRegister[c]
      /\ \A c \in C : WithinWindow(store[c], now)
  BY DEF WatchesOf, OpenCandidates
<1>4. Held(j) = {}
  BY NothingHeld DEF MatchCandidateBatch, Free, QInv
<1>5. EnqueueAndDrain(j, W, C, store) /\ store = store'
  BY DEF MatchCandidateBatch
<1>6. task'[j].kind = "MATCH_CANDIDATE_BATCH"
  BY DEF MatchCandidateBatch, TypeOK, NoTask
<1> HIDE DEF W, C
<1>7. Claims(j, Fresh(W, C, store))
  BY <1>1, <1>2, <1>3, <1>4, <1>5, <1>6, Claimed
<1> QED BY <1>7

LEMMA QueueStep ==
    ASSUME IInv, QInv, [Next]_vars
    PROVE  \/ Rests
           \/ \E j \in Job : \E S : Claims(j, S)
           \/ \E j \in Job : Scores(j)
<1> USE DEF IInv
<1>1. CASE UNCHANGED vars
  BY <1>1 DEF vars, db, locals, Rests
<1>2. ASSUME NEW j \in Job, FetchAnswered(j)
      PROVE  Rests \/ \E S : Claims(j, S)
  BY <1>2, StartClaims
<1>3. ASSUME NEW j \in Job, ScoreAnswered(j) PROVE Scores(j)
  <2>1. TakeNext(j, todo[j], store) /\ todo[j] \in SUBSET Key /\ UNCHANGED <<keys, queue, store>>
        /\ todo[j] \subseteq keys
    BY <1>3 DEF ScoreAnswered, TypeOK, QInv, KeysHandedOutOnce, Held
  <2>2. Held(j)' = todo[j] /\ Reads(j) /\ OthersKeep(j)
    BY <2>1, Taken
  <2>3. cur[j].key \notin todo[j] /\ None \notin todo[j]
    BY <2>1, NoneApart DEF QInv, KeysHandedOutOnce
  <2>4. todo[j] = Held(j) \ {cur[j].key}
    BY <2>3 DEF Held
  <2> QED BY <1>3, <2>1, <2>2, <2>4 DEF Scores
<1>4. ASSUME NEW j \in Job,
             \/ BeginDailySync(j) \/ DailySyncRejects(j) \/ RegisterSyncDone(j) \/ FetchFailed(j)
             \/ DailySyncFinishes(j) \/ ScanFinishes(j) \/ HandlerReturns(j)
      PROVE  Rests
  BY <1>4 DEF Rests, BeginDailySync, DailySyncRejects, RegisterSyncDone, FetchFailed,
              DailySyncFinishes, ScanFinishes, HandlerReturns, db
<1>5. ASSUME NEW j \in Job, NEW R, RegisterSync(j, R) PROVE Rests
  BY <1>5 DEF RegisterSync, Rests, db
<1>6. ASSUME NEW j \in Job, NEW w, ScanSkipped(j, w) \/ ScanUnconnected(j, w) \/ BeginScan(j, w)
      PROVE  Rests
  BY <1>6 DEF ScanSkipped, ScanUnconnected, BeginScan, Rests, locals
<1>7. ASSUME NEW j \in Job, NEW r \in Register, MatchCandidateBatch(j, r)
      PROVE  \E S : Claims(j, S)
  BY <1>7, BatchClaims
<1>8. ASSUME NEW j \in Job, NEW p \in Pair, ScoreMatch(j, p) PROVE Scores(j)
  <2>1. todo[j] = {} /\ cur[j] = NoItem /\ Held(j) = {}
    BY <1>8, NothingHeld DEF ScoreMatch, Free, QInv
  <2>2. cur'[j].key = None /\ todo' = todo /\ UNCHANGED <<keys, queue>> /\ OthersKeep(j)
    BY <1>8 DEF ScoreMatch, TypeOK, OthersKeep, db
  <2>3. cur'[j].pair = p /\ (cur'[j].ver # None => cur'[j].ver = store'[p[2]].ver) /\ matches[p] # NoMatch
    BY <1>8 DEF ScoreMatch, TypeOK, db
  <2>4. Awaits(j)
    BY <2>3 DEF Awaits
  <2>5. Held(j)' = {} /\ Reads(j)
    BY <2>1, <2>2, <2>4 DEF Held, Reads
  <2> QED BY <2>1, <2>2, <2>5 DEF Scores
<1>9. CASE \/ RefreshDeadlines(Cand) \/ \E c \in Cand : RefreshDeadlines({c})
           \/ \E o \in Org : ArchiveExpiredMatches(o)
           \/ World
  BY <1>9 DEF RefreshDeadlines, ArchiveExpiredMatches, World, Publish, Tick, UpsertWatch, Review,
              Rests, db, locals
<1>10. CASE Next
  <2>1. CASE \E j \in Job : Continue(j)
    BY <2>1, <1>2, <1>3, <1>4 DEF Continue
  <2>2. CASE \E j \in Job : Call(j)
    BY <2>2, <1>5, <1>6, <1>7, <1>8 DEF Call
  <2> QED BY <1>9, <1>10, <2>1, <2>2 DEF Next, Worker
<1> QED BY <1>1, <1>10

\* The only calls with jobs drained or a score awaited are the ones in "score".
LEMMA HeldStep == ASSUME IInv, QInv, [Next]_vars PROVE HeldWhenScoring'
<1> USE DEF QInv, HeldWhenScoring
<1> TypeOK
  BY DEF IInv
<1>1. CASE UNCHANGED <<pc, todo, cur>>
  BY <1>1
<1>2. ASSUME NEW j \in Job, FetchAnswered(j) PROVE HeldWhenScoring'
  <2>1. CASE Rests /\ UNCHANGED pc
    BY <2>1 DEF Rests
  <2>2. ASSUME pc'[j] = "score", NEW S, Claims(j, S) PROVE HeldWhenScoring'
    <3>1. pc' = [pc EXCEPT ![j] = "score"] \/ UNCHANGED pc
      BY <1>2 DEF FetchAnswered, NextPage, StartMatching
    <3> QED BY <2>2, <3>1 DEF Claims, OthersKeep, TypeOK
  <2> QED BY <1>2, <2>1, <2>2, StartClaims
<1>3. ASSUME NEW j \in Job, ScoreAnswered(j) PROVE HeldWhenScoring'
  <2>1. /\ TakeNext(j, todo[j], store) /\ todo[j] \in SUBSET Key /\ UNCHANGED <<pc, keys, store>>
        /\ todo[j] \subseteq keys /\ pc[j] = "score"
    BY <1>3 DEF ScoreAnswered, TypeOK, KeysHandedOutOnce, Held
  <2>2. OthersKeep(j)
    BY <2>1, Taken
  <2> QED BY <2>1, <2>2 DEF OthersKeep
<1>4. ASSUME NEW j \in Job, BeginDailySync(j) \/ DailySyncRejects(j) \/ RegisterSyncDone(j) \/ FetchFailed(j)
      PROVE  HeldWhenScoring'
  <2>1. pc[j] # "score" /\ UNCHANGED <<todo, cur>> /\ \E a : pc' = [pc EXCEPT ![j] = a]
    BY <1>4 DEF BeginDailySync, DailySyncRejects, RegisterSyncDone, FetchFailed, db
  <2> QED BY <2>1 DEF TypeOK
<1>5. ASSUME NEW j \in Job, DailySyncFinishes(j) \/ ScanFinishes(j) \/ HandlerReturns(j)
      PROVE  HeldWhenScoring'
  <2>1. cur[j] = NoItem /\ UNCHANGED <<todo, cur>> /\ \E a : pc' = [pc EXCEPT ![j] = a]
    BY <1>5 DEF DailySyncFinishes, ScanFinishes, HandlerReturns, db
  <2>2. todo[j] = {}
    BY <2>1 DEF ItemFirst
  <2> QED BY <2>1, <2>2 DEF TypeOK
<1>6. ASSUME NEW j \in Job, NEW R, RegisterSync(j, R) PROVE HeldWhenScoring'
  <2>1. pc[j] # "score" /\ UNCHANGED <<todo, cur>> /\ pc' = [pc EXCEPT ![j] = "next"]
    BY <1>6 DEF RegisterSync, Free, db
  <2> QED BY <2>1 DEF TypeOK
<1>7. ASSUME NEW j \in Job, NEW w, BeginScan(j, w) PROVE HeldWhenScoring'
  <2>1. pc[j] # "score" /\ UNCHANGED <<todo, cur>> /\ pc' = [pc EXCEPT ![j] = "fetch"]
    BY <1>7 DEF BeginScan, Free
  <2> QED BY <2>1 DEF TypeOK
<1>8. ASSUME NEW j \in Job, NEW r \in Register, MatchCandidateBatch(j, r) PROVE HeldWhenScoring'
  <2>1. pc' = [pc EXCEPT ![j] = "score"]
    BY <1>8 DEF MatchCandidateBatch
  <2>2. PICK S : Claims(j, S)
    BY <1>8, BatchClaims
  <2> QED BY <2>1, <2>2 DEF Claims, OthersKeep, TypeOK
<1>9. ASSUME NEW j \in Job, NEW p \in Pair, ScoreMatch(j, p) PROVE HeldWhenScoring'
  <2>1. pc' = [pc EXCEPT ![j] = "score"] /\ UNCHANGED todo /\ \E x : cur' = [cur EXCEPT ![j] = x]
    BY <1>9 DEF ScoreMatch
  <2> QED BY <2>1 DEF TypeOK
<1>10. CASE \/ \E j \in Job, w \in Watch : ScanSkipped(j, w) \/ ScanUnconnected(j, w)
            \/ RefreshDeadlines(Cand) \/ \E c \in Cand : RefreshDeadlines({c})
            \/ \E o \in Org : ArchiveExpiredMatches(o)
            \/ World
            \/ UNCHANGED vars
  <2>1. UNCHANGED <<pc, todo, cur>>
    BY <1>10 DEF ScanSkipped, ScanUnconnected, RefreshDeadlines, ArchiveExpiredMatches, World, Publish,
                 Tick, UpsertWatch, Review, vars, locals
  <2> QED BY <2>1, <1>1
<1>11. CASE Next
  <2>1. CASE \E j \in Job : Continue(j)
    BY <2>1, <1>2, <1>3, <1>4, <1>5 DEF Continue
  <2>2. CASE \E j \in Job : Call(j)
    BY <2>2, <1>6, <1>7, <1>8, <1>9, <1>10 DEF Call
  <2> QED BY <1>10, <1>11, <2>1, <2>2 DEF Next, Worker
<1> QED BY <1>10, <1>11

LEMMA KeysStep == ASSUME IInv, QInv, [Next]_vars PROVE KeysHandedOutOnce'
<1> USE DEF QInv, KeysHandedOutOnce
<1>1. CASE Rests
  BY <1>1 DEF Rests, Held
<1>2. ASSUME NEW j \in Job, NEW S, Claims(j, S) PROVE KeysHandedOutOnce'
  <2>1. \A i \in Job \ {j} : Held(i)' = Held(i) /\ cur'[i].key \notin todo'[i]
    BY <1>2 DEF Claims, OthersKeep, Held
  <2> QED BY <1>2, <2>1 DEF Claims, Reads
<1>3. ASSUME NEW j \in Job, Scores(j) PROVE KeysHandedOutOnce'
  <2>1. \A i \in Job \ {j} : Held(i)' = Held(i) /\ cur'[i].key \notin todo'[i]
    BY <1>3 DEF Scores, OthersKeep, Held
  <2> QED BY <1>3, <2>1 DEF Scores, Reads
<1> QED BY <1>1, <1>2, <1>3, QueueStep

LEMMA ItemStep == ASSUME IInv, QInv, [Next]_vars PROVE ItemFirst'
<1> USE DEF QInv, ItemFirst
<1>1. CASE Rests
  BY <1>1 DEF Rests
<1>2. ASSUME NEW j \in Job, NEW S, Claims(j, S) PROVE ItemFirst'
  BY <1>2 DEF Claims, Reads, OthersKeep
<1>3. ASSUME NEW j \in Job, Scores(j) PROVE ItemFirst'
  BY <1>3 DEF Scores, Reads, OthersKeep
<1> QED BY <1>1, <1>2, <1>3, QueueStep

LEMMA InitQInv == ASSUME Init PROVE QInv
BY DEF Init, QInv, KeysHandedOutOnce, HeldWhenScoring, ItemFirst, Held, NoItem

LEMMA QInvAlways == Spec => []QInv
<1>1. IInv /\ QInv /\ [Next]_vars => QInv'
  BY KeysStep, HeldStep, ItemStep DEF QInv
<1>2. Init => QInv
  BY InitQInv
<1> QED BY <1>1, <1>2, IInvAlways, PTL DEF Spec

-----------------------------------------------------------------------------
\* No match job is ever handed to two handler calls, nor twice to one, and none waits in the
\* queue while every handler is awaiting: for any number of concurrent calls.
THEOREM JobsHandedOutOnce == Spec => []KeysHandedOutOnce
<1>1. QInv => KeysHandedOutOnce
  BY DEF QInv
<1> QED BY <1>1, QInvAlways, PTL

LEMMA DispatchInit == ASSUME Init PROVE Dispatch!Init
BY DEF Init, Dispatch!Init, Held, NoItem

\* Each step is a stutter of the abstract queue, a claim, or a score.
LEMMA DispatchStep == ASSUME IInv, QInv, [Next]_vars PROVE [Dispatch!Next]_(Dispatch!vars)
<1> USE DEF QInv
<1> DEFINE held == [j \in Job |-> Held(j)]
<1>1. CASE Rests
  BY <1>1 DEF Rests, Held, Dispatch!vars
<1>2. ASSUME NEW j \in Job, NEW S, Claims(j, S) PROVE Dispatch!Next
  <2>1. \A i \in Job \ {j} : Held(i)' = Held(i)
    BY <1>2 DEF Claims, OthersKeep, Held
  <2>2. held' = [held EXCEPT ![j] = S]
    BY <1>2, <2>1 DEF Claims
  <2>3. S \in SUBSET Key /\ S \cap keys = {} /\ keys' = keys \cup S /\ held[j] = {}
    BY <1>2 DEF Claims
  <2>4. Dispatch!Claim(j, S)
    BY <2>2, <2>3 DEF Dispatch!Claim
  <2> QED BY <2>3, <2>4 DEF Dispatch!Next
<1>3. ASSUME NEW j \in Job, Scores(j) PROVE [Dispatch!Next]_(Dispatch!vars)
  <2>1. \A i \in Job \ {j} : Held(i)' = Held(i)
    BY <1>3 DEF Scores, OthersKeep, Held
  <2>2. held' = [held EXCEPT ![j] = @ \ {cur[j].key}] /\ UNCHANGED keys
    BY <1>3, <2>1 DEF Scores
  <2>3. CASE cur[j].key \in Held(j)
    <3>1. cur[j].key \in Key
      BY <2>3 DEF IInv, TypeOK, KeysHandedOutOnce
    <3>2. Dispatch!Score(j, cur[j].key)
      BY <2>2, <2>3 DEF Dispatch!Score
    <3> QED BY <3>1, <3>2 DEF Dispatch!Next
  <2>4. CASE cur[j].key \notin Held(j)
    <3>1. held' = held
      BY <2>2, <2>4
    <3> QED BY <2>2, <3>1 DEF Dispatch!vars
  <2> QED BY <2>3, <2>4
<1> QED BY <1>1, <1>2, <1>3, QueueStep

\* The worker's queue, keys and handlers implement the abstract queue: a key is claimed at
\* most once ever, and given up only by the handler call that claimed it, one at a time.
THEOREM PipelinesDispatchOnce == Spec => DispatchesOnce
<1>1. Init => Dispatch!Init
  BY DispatchInit
<1>2. IInv /\ QInv /\ [Next]_vars => [Dispatch!Next]_(Dispatch!vars)
  BY DispatchStep
<1> QED BY <1>1, <1>2, IInvAlways, QInvAlways, PTL DEF Spec, DispatchesOnce, Dispatch!Spec
-----------------------------------------------------------------------------
(***************************************************************************)
(* A scan stays on its watch.                                              *)
(***************************************************************************)
\* What a call is for stays until it is called anew, to begin with a page loop.
LEMMA TaskStays ==
    ASSUME IInv, [Next]_vars, NEW i \in Job, task'[i].kind = "INITIAL_OPPOSITION_SCAN"
    PROVE  \/ task[i].kind = "INITIAL_OPPOSITION_SCAN" /\ task'[i].watch = task[i].watch
           \/ pc'[i] = "fetch"
<1> DEFINE Goal == \/ task[i].kind = "INITIAL_OPPOSITION_SCAN" /\ task'[i].watch = task[i].watch
                   \/ pc'[i] = "fetch"
<1> TypeOK
  BY DEF IInv
<1>1. CASE UNCHANGED task
  BY <1>1
<1>2. ASSUME NEW j \in Job, NEW t, task' = [task EXCEPT ![j] = t], t.kind # "INITIAL_OPPOSITION_SCAN"
      PROVE  Goal
  BY <1>2 DEF TypeOK
<1>3. ASSUME NEW j \in Job, FetchAnswered(j) PROVE Goal
  <2>1. UNCHANGED task \/ \E n : task' = [task EXCEPT ![j] = [@ EXCEPT !.listed = n]]
    BY <1>3 DEF FetchAnswered, NextPage, StartMatching
  <2>2. CASE UNCHANGED task
    BY <1>1, <2>2
  <2>3. ASSUME NEW n, task' = [task EXCEPT ![j] = [@ EXCEPT !.listed = n]] PROVE Goal
    <3>1. task[i] \in Task /\ task[j] \in Task
      BY DEF TypeOK
    <3>2. task'[i].kind = task[i].kind /\ task'[i].watch = task[i].watch
      BY <2>3, <3>1 DEF TypeOK, Task
    <3> QED BY <3>2
  <2> QED BY <2>1, <2>2, <2>3
<1>4. ASSUME NEW j \in Job, NEW w, BeginScan(j, w) PROVE Goal
  BY <1>4 DEF BeginScan, TypeOK
<1>5. ASSUME NEW j \in Job, BeginDailySync(j) PROVE Goal
  <2>1. PICK r : task' = [task EXCEPT ![j] = [@ EXCEPT !.register = r]]
    BY <1>5 DEF BeginDailySync
  <2>2. task[i] \in Task /\ task[j] \in Task
    BY DEF TypeOK
  <2>3. task'[i].kind = task[i].kind /\ task'[i].watch = task[i].watch
    BY <2>1, <2>2 DEF TypeOK, Task
  <2> QED BY <2>3
<1>6. ASSUME NEW j \in Job, FetchFailed(j) PROVE Goal
  <2>1. CASE task[j].kind = "REGISTER_SYNC"
    <3>1. task' = [task EXCEPT ![j] = [@ EXCEPT !.register = None]]
      BY <1>6, <2>1 DEF FetchFailed
    <3>2. task'[i].kind = task[i].kind /\ task'[i].watch = task[i].watch
      BY <3>1 DEF TypeOK, Task
    <3> QED BY <3>2
  <2>2. CASE task[j].kind # "REGISTER_SYNC"
    <3>1. task' = [task EXCEPT ![j] = NoTask] /\ NoTask.kind # "INITIAL_OPPOSITION_SCAN"
      BY <1>6, <2>2 DEF FetchFailed, NoTask
    <3> QED BY <1>2, <3>1
  <2> QED BY <2>1, <2>2
<1>7. ASSUME NEW j \in Job, NEW r, NEW p, NEW R,
             \/ RegisterSync(j, R) \/ MatchCandidateBatch(j, r) \/ ScoreMatch(j, p)
             \/ RegisterSyncDone(j) \/ DailySyncFinishes(j) \/ ScanFinishes(j) \/ HandlerReturns(j)
      PROVE  Goal
  <2>1. PICK t : task' = [task EXCEPT ![j] = t] /\ t.kind # "INITIAL_OPPOSITION_SCAN"
    <3>1. /\ NoTask.kind # "INITIAL_OPPOSITION_SCAN"
          /\ [NoTask EXCEPT !.kind = "REGISTER_SYNC"].kind # "INITIAL_OPPOSITION_SCAN"
          /\ [NoTask EXCEPT !.kind = "SCORE_MATCH"].kind # "INITIAL_OPPOSITION_SCAN"
          /\ [NoTask EXCEPT !.kind = "MATCH_CANDIDATE_BATCH", !.register = r].kind # "INITIAL_OPPOSITION_SCAN"
      BY DEF NoTask
    <3> QED
      BY <1>7, <3>1 DEF RegisterSync, MatchCandidateBatch, ScoreMatch, RegisterSyncDone,
                        DailySyncFinishes, ScanFinishes, HandlerReturns
  <2> QED BY <1>2, <2>1
<1>8. CASE \/ \E j \in Job : DailySyncRejects(j) \/ ScoreAnswered(j)
           \/ \E j \in Job, w \in Watch : ScanSkipped(j, w) \/ ScanUnconnected(j, w)
           \/ RefreshDeadlines(Cand) \/ \E c \in Cand : RefreshDeadlines({c})
           \/ \E o \in Org : ArchiveExpiredMatches(o)
           \/ World
           \/ UNCHANGED vars
  <2>1. UNCHANGED task
    BY <1>8 DEF DailySyncRejects, ScoreAnswered, ScanSkipped, ScanUnconnected, RefreshDeadlines,
                ArchiveExpiredMatches, World, Publish, Tick, UpsertWatch, Review, vars, locals
  <2> QED BY <1>1, <2>1
<1> QED BY <1>3, <1>4, <1>5, <1>6, <1>7, <1>8 DEF Next, Worker, Call, Continue

\* An initial scan scores pairs of the watch it was started for and of no other, although it
\* drains the queue all handlers share, for any number of overlapping calls.
THEOREM ScanStays == Spec => []ScanStaysOnItsWatch
<1>1. Init => ScanStaysOnItsWatch
  BY DEF Init, ScanStaysOnItsWatch, NoTask
<1>2. ASSUME IInv, QInv, QInv', ScanStaysOnItsWatch, [Next]_vars,
             NEW i \in Job, task'[i].kind = "INITIAL_OPPOSITION_SCAN", NEW k \in Held(i)'
      PROVE  k[1] = task'[i].watch
  <2>1. CASE pc'[i] = "fetch"
    BY <1>2, <2>1 DEF QInv, HeldWhenScoring, Held, NoItem
  <2>2. CASE task[i].kind = "INITIAL_OPPOSITION_SCAN" /\ task'[i].watch = task[i].watch
    <3>1. ASSUME k \in Held(i) PROVE k[1] = task'[i].watch
      BY <2>2, <3>1, <1>2 DEF ScanStaysOnItsWatch
    <3>2. CASE Rests
      BY <1>2, <3>1, <3>2 DEF Rests, Held
    <3>3. ASSUME NEW j \in Job, NEW S, Claims(j, S) PROVE k[1] = task'[i].watch
      <4>1. CASE i = j
        <5>1. k \in S /\ Fits(j, S)
          BY <1>2, <3>3, <4>1 DEF Claims, Held
        <5> QED BY <1>2, <4>1, <5>1 DEF Fits
      <4>2. CASE i # j
        BY <1>2, <3>1, <3>3, <4>2 DEF Claims, OthersKeep, Held
      <4> QED BY <4>1, <4>2
    <3>4. ASSUME NEW j \in Job, Scores(j) PROVE k[1] = task'[i].watch
      BY <1>2, <3>1, <3>4 DEF Scores, OthersKeep, Held
    <3> QED BY <1>2, <3>2, <3>3, <3>4, QueueStep
  <2> QED BY <1>2, <2>1, <2>2, TaskStays
<1>3. IInv /\ QInv /\ QInv' /\ ScanStaysOnItsWatch /\ [Next]_vars => ScanStaysOnItsWatch'
  BY <1>2 DEF ScanStaysOnItsWatch
<1> QED BY <1>1, <1>3, IInvAlways, QInvAlways, PTL DEF Spec

-----------------------------------------------------------------------------
(***************************************************************************)
(* Matches are grounded.                                                   *)
(***************************************************************************)
\* A register's log holds its own applications, and a stored content is one it published.
Published(c, v) ==
    \E i \in 1..Len(feed[CandRegister[c]]) : feed[CandRegister[c]][i] = [cand |-> c, ver |-> v]

LogsSorted == \A r \in Register : \A i \in 1..Len(feed[r]) : CandRegister[feed[r][i].cand] = r

StoredPublished == \A c \in Cand : store[c].ver # None => Published(c, store[c].ver)

\* A pair that was queued as a match job.
Queued(p) == \E v \in Version : <<p[1], p[2], v>> \in keys

KeysFit == \A k \in keys : WatchRegister[k[1]] = CandRegister[k[2]]

\* A score that is awaited will be that of a queued pair and a published content.
AwaitedGrounded ==
    \A j \in Job : cur[j].ver # None =>
        cur[j].pair \in Pair /\ Queued(cur[j].pair) /\ Published(cur[j].pair[2], cur[j].ver)

\* The same of a match, whose score reached the threshold.
MatchGrounded(p) ==
    /\ Queued(p)
    /\ <<p[1], p[2], matches[p].scored>> \in MustMatch \cup MayMatch
    /\ Published(p[2], matches[p].scored)

AllMatchesGrounded == \A p \in Pair : matches[p] # NoMatch => MatchGrounded(p)

GInv == LogsSorted /\ StoredPublished /\ KeysFit /\ AwaitedGrounded /\ AllMatchesGrounded

LEMMA GroundedIs == GInv => MatchesGrounded
<1> SUFFICES ASSUME GInv, NEW p \in Pair, matches[p] # NoMatch
             PROVE  /\ WatchRegister[p[1]] = CandRegister[p[2]]
                    /\ \E v \in Version : <<p[1], p[2], v>> \in keys
                    /\ <<p[1], p[2], matches[p].scored>> \in MustMatch \cup MayMatch
                    /\ Published(p[2], matches[p].scored)
  BY DEF MatchesGrounded, Published
<1>1. MatchGrounded(p)
  BY DEF GInv, AllMatchesGrounded
<1>2. PICK v \in Version : <<p[1], p[2], v>> \in keys
  BY <1>1 DEF MatchGrounded, Queued
<1>3. WatchRegister[p[1]] = CandRegister[p[2]]
  BY <1>2 DEF GInv, KeysFit
<1> QED BY <1>1, <1>2, <1>3 DEF MatchGrounded

\* The same, said of the state after a step.
PublishedAfter(c, v) ==
    \E i \in 1..Len(feed'[CandRegister[c]]) : feed'[CandRegister[c]][i] = [cand |-> c, ver |-> v]

QueuedAfter(p) == \E v \in Version : <<p[1], p[2], v>> \in keys'

LEMMA StoredAfter ==
    (\A c \in Cand : store'[c].ver # None => PublishedAfter(c, store'[c].ver)) <=> StoredPublished'
BY DEF StoredPublished, Published, PublishedAfter

LEMMA AwaitedAfter ==
    (\A j \in Job : cur'[j].ver # None =>
        cur'[j].pair \in Pair /\ QueuedAfter(cur'[j].pair) /\ PublishedAfter(cur'[j].pair[2], cur'[j].ver))
    => AwaitedGrounded'
BY DEF AwaitedGrounded, Queued, QueuedAfter, Published, PublishedAfter

LEMMA MatchAfter ==
    ASSUME NEW p, QueuedAfter(p), PublishedAfter(p[2], matches'[p].scored),
           <<p[1], p[2], matches'[p].scored>> \in MustMatch \cup MayMatch
    PROVE  MatchGrounded(p)'
BY DEF MatchGrounded, Queued, QueuedAfter, Published, PublishedAfter

\* What was published stays published, and what was queued stays queued.
LEMMA PublishedStays ==
    ASSUME IInv, [Next]_vars, NEW c \in Cand, NEW v, Published(c, v) PROVE PublishedAfter(c, v)
<1> DEFINE r == CandRegister[c]
<1>1. r \in Register
  BY ConstantsAssumption
<1>2. PICK i \in 1..Len(feed[r]) : feed[r][i] = [cand |-> c, ver |-> v]
  BY DEF Published
<1>3. feed[r] \in Seq(Publication) /\ feed'[r][i] = feed[r][i] /\ Len(feed[r]) <= Len(feed'[r])
  BY <1>1, LogGrows DEF IInv, TypeOK, FeedGrows
<1>4. feed'[r] \in Seq(Publication)
  BY <1>1, StepIInv DEF IInv, TypeOK
<1> QED BY <1>2, <1>3, <1>4 DEF PublishedAfter

LEMMA QueuedStays == ASSUME keys \subseteq keys', NEW p, Queued(p) PROVE QueuedAfter(p)
BY DEF Queued, QueuedAfter

LEMMA LogsStep == ASSUME IInv, IInv', LogsSorted, [Next]_vars PROVE LogsSorted'
<1> TypeOK /\ TypeOK'
  BY DEF IInv
<1>1. ASSUME NEW c \in Cand, NEW v \in Version, Publish(c, v) PROVE LogsSorted'
  <2> DEFINE r == CandRegister[c]  e == [cand |-> c, ver |-> v]
  <2>1. r \in Register /\ feed[r] \in Seq(Publication) /\ e.cand = c
    BY ConstantsAssumption DEF TypeOK
  <2>2. feed' = [feed EXCEPT ![r] = Append(feed[r], e)]
    BY <1>1 DEF Publish
  <2> HIDE DEF e
  <2>3. /\ Len(Append(feed[r], e)) = Len(feed[r]) + 1 /\ Len(feed[r]) \in Nat
        /\ \A i \in 1..Len(feed[r]) : Append(feed[r], e)[i] = feed[r][i]
        /\ Append(feed[r], e)[Len(feed[r]) + 1] = e
    BY <2>1
  <2>4. \A i \in 1..Len(feed'[r]) : CandRegister[feed'[r][i].cand] = r
    BY <2>1, <2>2, <2>3 DEF LogsSorted, TypeOK
  <2>5. \A s \in Register : s # r => feed'[s] = feed[s]
    BY <2>2 DEF TypeOK
  <2> QED BY <2>4, <2>5 DEF LogsSorted
<1>2. CASE \A c \in Cand, v \in Version : ~Publish(c, v)
  <2>1. UNCHANGED feed
    BY <1>2, FeedStep
  <2> QED BY <2>1 DEF LogsSorted
<1> QED BY <1>1, <1>2

\* A step stores only contents that the log holds.
LEMMA StoredStep ==
    ASSUME IInv, LogsSorted, StoredPublished, [Next]_vars PROVE StoredPublished'
<1> SUFFICES ASSUME NEW c \in Cand, store'[c].ver # None PROVE PublishedAfter(c, store'[c].ver)
  BY StoredAfter
<1> TypeOK
  BY DEF IInv
<1>1. CASE store'[c].ver = store[c].ver
  BY <1>1, PublishedStays DEF StoredPublished
<1>2. CASE store'[c].ver # store[c].ver
  <2>1. Ingests
    BY <1>2, StoreStep DEF Recomputes, TypeOK, Record
  <2>2. PICK e \in Publication : Logged(e) /\ store' = Ingested(e)
    BY <2>1 DEF Ingests
  <2>3. c = e.cand /\ store'[c].ver = e.ver
    BY <1>2, <2>2, IngestedVersion DEF TypeOK
  <2>4. e = [cand |-> c, ver |-> store'[c].ver]
    BY <2>3 DEF Publication
  <2>5. Published(c, store'[c].ver)
    BY <2>2, <2>3, <2>4 DEF Logged, LogsSorted, Published
  <2> QED BY <2>5, PublishedStays
<1> QED BY <1>1, <1>2

LEMMA KeysFitStep == ASSUME IInv, QInv, KeysFit, [Next]_vars PROVE KeysFit' /\ keys \subseteq keys'
<1>1. CASE keys' = keys
  BY <1>1 DEF KeysFit
<1>2. ASSUME NEW j \in Job, NEW S, Claims(j, S) PROVE KeysFit' /\ keys \subseteq keys'
  <2>1. keys' = keys \cup S /\ \A k \in S : WatchRegister[k[1]] = CandRegister[k[2]]
    BY <1>2 DEF Claims, Fits
  <2> QED BY <2>1 DEF KeysFit
<1> QED BY <1>1, <1>2, QueueStep DEF Rests, Scores

LEMMA AwaitedStep ==
    ASSUME IInv, QInv, keys \subseteq keys', StoredPublished', AllMatchesGrounded,
           AwaitedGrounded, [Next]_vars
    PROVE  AwaitedGrounded'
<1> DEFINE Goal(j) == /\ cur'[j].pair \in Pair /\ QueuedAfter(cur'[j].pair)
                      /\ PublishedAfter(cur'[j].pair[2], cur'[j].ver)
<1>1. ASSUME NEW j \in Job, Awaits(j), cur'[j].ver # None PROVE Goal(j)
  <2>1. PICK p \in Pair :
            /\ cur'[j].pair = p /\ cur'[j].ver = store'[p[2]].ver
            /\ matches[p] # NoMatch \/ \E v \in Version : <<p[1], p[2], v>> \in keys'
    BY <1>1 DEF Awaits
  <2>2. p[2] \in Cand
    BY DEF Pair
  <2>3. QueuedAfter(p)
    BY <2>1, QueuedStays DEF AllMatchesGrounded, MatchGrounded, QueuedAfter
  <2>4. PublishedAfter(p[2], cur'[j].ver)
    BY <1>1, <2>1, <2>2, StoredAfter
  <2> QED BY <2>1, <2>3, <2>4
<1>2. ASSUME NEW j \in Job, cur'[j] = cur[j], cur'[j].ver # None PROVE Goal(j)
  <2>1. cur[j].pair \in Pair /\ Queued(cur[j].pair) /\ Published(cur[j].pair[2], cur[j].ver)
    BY <1>2 DEF AwaitedGrounded
  <2>2. cur[j].pair[2] \in Cand
    BY <2>1 DEF Pair
  <2>3. QueuedAfter(cur[j].pair) /\ PublishedAfter(cur[j].pair[2], cur[j].ver)
    BY <2>1, <2>2, QueuedStays, PublishedStays
  <2> QED BY <1>2, <2>1, <2>3
<1>3. \A j \in Job : cur'[j] = cur[j] \/ Awaits(j)
  BY QueueStep DEF Rests, Claims, Scores, OthersKeep, Reads
<1> QED BY <1>1, <1>2, <1>3, AwaitedAfter

\* A match keeps its score, or gets the awaited one that reached the threshold.
LEMMA MatchStep ==
    ASSUME IInv, [Next]_vars, NEW p \in Pair
    PROVE  \/ matches'[p] = matches[p]
           \/ matches[p] # NoMatch /\ matches'[p].scored = matches[p].scored
           \/ \E j \in Job : /\ cur[j].ver # None /\ cur[j].pair = p
                             /\ matches'[p].scored = cur[j].ver
                             /\ <<p[1], p[2], cur[j].ver>> \in MustMatch \cup MayMatch
<1> DEFINE Goal == \/ matches'[p] = matches[p]
                   \/ matches[p] # NoMatch /\ matches'[p].scored = matches[p].scored
                   \/ \E j \in Job : /\ cur[j].ver # None /\ cur[j].pair = p
                                     /\ matches'[p].scored = cur[j].ver
                                     /\ <<p[1], p[2], cur[j].ver>> \in MustMatch \cup MayMatch
<1> TypeOK
  BY DEF IInv
<1>1. CASE UNCHANGED matches
  BY <1>1
<1>2. CASE matches' = Archived
  BY <1>2 DEF Archived, Expired, TypeOK, Match, NoMatch
<1>3. ASSUME NEW j \in Job, ScoreAnswered(j) PROVE Goal
  <2> DEFINE q == cur[j].pair  v == cur[j].ver
  <2>1. \/ UNCHANGED matches
        \/ v # None /\ TRUE \in AboveThreshold(<<q[1], q[2], v>>) /\ matches' = MatchUpserted(q, v)
    BY <1>3 DEF ScoreAnswered
  <2>2. ASSUME v # None, TRUE \in AboveThreshold(<<q[1], q[2], v>>), matches' = MatchUpserted(q, v)
        PROVE  Goal
    <3>1. <<q[1], q[2], v>> \in MustMatch \cup MayMatch
      BY <2>2 DEF AboveThreshold
    <3>2. p = q => matches'[p].scored = v
      BY <2>2 DEF MatchUpserted, TypeOK
    <3>3. p # q => matches'[p] = matches[p]
      BY <2>2 DEF MatchUpserted, TypeOK
    <3> QED BY <2>2, <3>1, <3>2, <3>3
  <2> QED BY <1>1, <2>1, <2>2
<1>4. ASSUME NEW q \in Pair, NEW s \in Decisions, Review(q, s) PROVE Goal
  BY <1>4 DEF Review, TypeOK, Match
<1> QED BY <1>1, <1>2, <1>3, <1>4, MatchesChange

LEMMA MatchesStep ==
    ASSUME IInv, keys \subseteq keys', AwaitedGrounded, AllMatchesGrounded, [Next]_vars
    PROVE  AllMatchesGrounded'
<1> SUFFICES ASSUME NEW p \in Pair, matches'[p] # NoMatch PROVE MatchGrounded(p)'
  BY DEF AllMatchesGrounded
<1>0. p[2] \in Cand
  BY DEF Pair
<1>1. CASE matches[p] # NoMatch /\ matches'[p].scored = matches[p].scored
  <2>1. MatchGrounded(p)
    BY <1>1 DEF AllMatchesGrounded
  <2>2. QueuedAfter(p) /\ PublishedAfter(p[2], matches[p].scored)
    BY <1>0, <2>1, QueuedStays, PublishedStays DEF MatchGrounded
  <2> QED BY <1>1, <2>1, <2>2, MatchAfter DEF MatchGrounded
<1>2. ASSUME NEW j \in Job, cur[j].ver # None, cur[j].pair = p, matches'[p].scored = cur[j].ver,
             <<p[1], p[2], cur[j].ver>> \in MustMatch \cup MayMatch
      PROVE  MatchGrounded(p)'
  <2>1. Queued(p) /\ Published(p[2], cur[j].ver)
    BY <1>2 DEF AwaitedGrounded
  <2>2. QueuedAfter(p) /\ PublishedAfter(p[2], cur[j].ver)
    BY <1>0, <2>1, QueuedStays, PublishedStays
  <2> QED BY <1>2, <2>2, MatchAfter
<1> QED BY <1>1, <1>2, MatchStep

\* A match exists only for a pair of one register that was queued, with the score of a content
\* the register published and that reaches the threshold, through every overlap of syncs,
\* scans, re-scores and reviews, although its content may have been replaced while the score
\* was awaited.
THEOREM MatchesHaveGround == Spec => []MatchesGrounded
<1>1. Init => GInv
  BY DEF Init, GInv, LogsSorted, StoredPublished, KeysFit, AwaitedGrounded, AllMatchesGrounded,
         NoRecord, NoItem, NoMatch
<1>2. IInv /\ IInv' /\ QInv /\ GInv /\ [Next]_vars => GInv'
  <2> SUFFICES ASSUME IInv, IInv', QInv, GInv, [Next]_vars PROVE GInv'
    OBVIOUS
  <2>1. LogsSorted'
    BY LogsStep DEF GInv
  <2>2. StoredPublished' /\ KeysFit' /\ keys \subseteq keys'
    BY <2>1, StoredStep, KeysFitStep DEF GInv
  <2> QED BY <2>1, <2>2, AwaitedStep, MatchesStep DEF GInv
<1> QED BY <1>1, <1>2, GroundedIs, IInvAlways, QInvAlways, PTL DEF Spec

-----------------------------------------------------------------------------
(***************************************************************************)
(* An initial scan finds the open filings, one handler call at a time.     *)
(***************************************************************************)
OneAtATime == \A i, j \in Job : i = j

\* The opposition window of a key's content is over: then and only then may its job be
\* dropped unscored.
Lapsed(k) == now > Midnight(PeriodOf(k[2], k[3]).deadline)

Settled(k) == matches[<<k[1], k[2]>>] # NoMatch \/ Lapsed(k)

\* The content of a key is the stored one and its window has begun.
StillOpen(k) ==
    /\ store[k[2]].ver = k[3]
    /\ store[k[2]].status \notin {"withdrawn", "refused"}
    /\ Midnight(PeriodOf(k[2], k[3]).start) <= now

\* A key that was used up was scored into a match, lapsed, or is still in a call's hands.
KeysSettle == \A k \in keys \cap MustMatch : Settled(k) \/ \E j \in Job : k \in Held(j)

HeldOpen == \A j \in Job : \A k \in todo[j] : StillOpen(k)

\* A score that is awaited is for the pair and the content of its key; a dropped job lapsed.
AwaitedFits ==
    \A j \in Job : cur[j].key # None =>
        /\ cur[j].pair = <<cur[j].key[1], cur[j].key[2]>>
        /\ cur[j].ver = cur[j].key[3] \/ (cur[j].ver = None /\ Lapsed(cur[j].key))

\* The pairs of its watch that were open when a scan listed them have all been queued.
ScanListed ==
    \A j \in Job : pc[j] = "score" /\ task[j].kind = "INITIAL_OPPOSITION_SCAN" =>
        \A c \in Cand :
            CandRegister[c] = task[j].register /\ WithinWindow(store[c], task[j].listed)
                => <<task[j].watch, c, store[c].ver>> \in keys

SInv == KeysSettle /\ HeldOpen /\ AwaitedFits /\ ScanListed

LEMMA TimeGrows == ASSUME IInv, [Next]_vars PROVE now \in Nat /\ now' \in Nat /\ now <= now'
<1>1. now \in Nat
  BY DEF IInv, TypeOK
<1>2. CASE Tick
  BY <1>1, <1>2 DEF Tick
<1>3. CASE Worker \/ (\E c \in Cand, v \in Version : Publish(c, v))
           \/ (\E w \in Watch, s \in WatchMoves : UpsertWatch(w, s))
           \/ (\E p \in Pair, s \in Decisions : Review(p, s)) \/ UNCHANGED vars
  <2>1. UNCHANGED now
    BY <1>3 DEF Worker, Call, Continue, RegisterSync, BeginDailySync, DailySyncRejects, RegisterSyncDone,
      ScanSkipped, ScanUnconnected, BeginScan, FetchAnswered, FetchFailed, ScoreAnswered, DailySyncFinishes,
      ScanFinishes, HandlerReturns, MatchCandidateBatch, ScoreMatch, RefreshDeadlines, ArchiveExpiredMatches,
      Publish, UpsertWatch, Review, vars, env
  <2> QED BY <1>1, <2>1
<1> QED BY <1>2, <1>3 DEF Next, World

LEMMA DayType ==
    ASSUME NEW c \in Cand, NEW v \in Version
    PROVE  Midnight(PeriodOf(c, v).start) \in Nat /\ Midnight(PeriodOf(c, v).deadline) \in Nat
<1>1. PeriodOf(c, v) \in Period /\ TicksPerDay \in Nat
  BY PeriodType, ConstantsAssumption
<1> QED BY <1>1 DEF Period, Midnight

\* What lapsed stays lapsed, and a match is never deleted.
LEMMA LapsedStays == ASSUME IInv, [Next]_vars, NEW k \in Key, Lapsed(k) PROVE Lapsed(k)'
<1>1. Midnight(PeriodOf(k[2], k[3]).deadline) \in Nat
  BY DayType DEF Key
<1> QED BY <1>1, TimeGrows DEF Lapsed, Midnight, PeriodOf

LEMMA MatchesKept ==
    ASSUME IInv, [Next]_vars, NEW p \in Pair, matches[p] # NoMatch PROVE matches'[p] # NoMatch
<1> TypeOK
  BY DEF IInv
<1>0. None \notin MatchStatus /\ matches[p] \in Match
  BY ConstantsAssumption DEF TypeOK
<1>1. CASE UNCHANGED matches
  BY <1>1
<1>2. CASE matches' = Archived
  <2>1. CASE Expired(p)
    <3>1. matches'[p].status = "opposition_deadline_passed"
      BY <1>0, <1>2, <2>1 DEF Archived, Match
    <3> QED BY <1>0, <3>1 DEF NoMatch, MatchStatus
  <2>2. CASE ~Expired(p)
    BY <1>2, <2>2 DEF Archived
  <2> QED BY <2>1, <2>2
<1>3. ASSUME NEW j \in Job, ScoreAnswered(j) PROVE matches'[p] # NoMatch
  <2>1. CASE UNCHANGED matches
    BY <2>1
  <2>2. ASSUME NEW q, NEW v, v # None, matches' = MatchUpserted(q, v) PROVE matches'[p] # NoMatch
    <3>1. matches'[p] = matches[p] \/ matches'[p].scored = v
      BY <2>2, <1>0 DEF MatchUpserted, TypeOK, Match
    <3> QED BY <2>2, <3>1 DEF NoMatch
  <2> QED BY <1>3, <2>1, <2>2 DEF ScoreAnswered
<1>4. ASSUME NEW q \in Pair, NEW s \in Decisions, Review(q, s) PROVE matches'[p] # NoMatch
  <2>1. s # None
    BY <1>0, ConstantsAssumption DEF MatchStatus
  <2>2. matches'[p] = matches[p] \/ matches'[p].status = s
    BY <1>0, <1>4 DEF Review, TypeOK, Match
  <2> QED BY <2>1, <2>2 DEF NoMatch
<1> QED BY <1>1, <1>2, <1>3, <1>4, MatchesChange

LEMMA SettledStays == ASSUME IInv, [Next]_vars, NEW k \in Key, Settled(k) PROVE Settled(k)'
<1>1. <<k[1], k[2]>> \in Pair
  BY DEF Key, Pair
<1>2. CASE Lapsed(k)
  BY <1>2, LapsedStays DEF Settled
<1>3. CASE matches[<<k[1], k[2]>>] # NoMatch
  BY <1>1, <1>3, MatchesKept DEF Settled
<1> QED BY <1>2, <1>3 DEF Settled

\* While a call is scoring, nothing it may have read of the store changes: with one call at a
\* time no publication is ingested, and a recomputed deadline is the one already stored.
LEMMA StoreStays ==
    ASSUME OneAtATime, IInv, DeadlineFollowsContent, [Next]_vars, NEW j \in Job, pc[j] = "score",
           NEW c \in Cand
    PROVE  store'[c] = store[c]
<1>1. CASE \E i \in Job : FetchAnswered(i)
  BY <1>1 DEF OneAtATime, FetchAnswered
<1>2. CASE Recomputes
  <2>1. store[c].ver # None => store[c].period = PeriodOf(c, store[c].ver) /\ store[c] \in Record
    BY DEF DeadlineFollowsContent, IInv, TypeOK
  <2>2. store[c].ver # None => [store[c] EXCEPT !.period = PeriodOf(c, store[c].ver)] = store[c]
    BY <2>1 DEF Record
  <2> QED BY <1>2, <2>2 DEF Recomputes
<1> QED BY <1>1, <1>2, StoreWrites

\* A job that is read is awaited with its key's content, unless that has lapsed.
LEMMA ItemFits ==
    ASSUME IInv, DeadlineFollowsContent, NEW k \in Key, StillOpen(k)
    PROVE  Item(k, store).ver = k[3] \/ (Item(k, store).ver = None /\ Lapsed(k))
<1> DEFINE c == k[2]  v == k[3]
<1>1. c \in Cand /\ v \in Version /\ v # None
  BY NoneApart DEF Key
<1>2. store[c].ver = v /\ store[c].period = PeriodOf(c, v) /\ PeriodOf(c, v) # None
  BY <1>1, PeriodType, NoneApart DEF StillOpen, DeadlineFollowsContent
<1>3. now \in Nat /\ Midnight(PeriodOf(c, v).deadline) \in Nat
  BY <1>1, DayType DEF IInv, TypeOK
<1>4. CASE WithinWindow(store[c], now)
  BY <1>2, <1>4 DEF Item
<1>5. CASE ~WithinWindow(store[c], now)
  <2>1. ~InPeriod(PeriodOf(c, v), now)
    BY <1>2, <1>5 DEF WithinWindow, StillOpen
  <2>2. Lapsed(k)
    BY <1>3, <2>1 DEF InPeriod, StillOpen, Lapsed
  <2> QED BY <1>5, <2>2 DEF Item
<1> QED BY <1>4, <1>5

\* Scoring a job settles its key, if the pair scores above the threshold whatever the AI says.
LEMMA ScoreSettles ==
    ASSUME IInv, AwaitedFits, [Next]_vars, NEW j \in Job, ScoreAnswered(j),
           NEW k \in Key, cur[j].key = k, k \in MustMatch
    PROVE  Settled(k)'
<1> DEFINE p == cur[j].pair  v == cur[j].ver
<1>1. k # None /\ k = <<k[1], k[2], k[3]>> /\ <<k[1], k[2]>> \in Pair /\ k[3] # None
  BY NoneApart DEF Key, Pair
<1>2. p = <<k[1], k[2]>> /\ (v = k[3] \/ (v = None /\ Lapsed(k)))
  BY <1>1 DEF AwaitedFits
<1>3. CASE v = None
  <2>1. Lapsed(k)
    BY <1>1, <1>2, <1>3
  <2> QED BY <2>1, LapsedStays DEF Settled
<1>4. CASE v = k[3]
  <2>1. <<p[1], p[2], v>> = k
    BY <1>1, <1>2, <1>4
  <2>2. matches' = MatchUpserted(p, v)
    BY <1>1, <1>4, <2>1 DEF ScoreAnswered, AboveThreshold
  <2>3. matches'[p].scored = v
    BY <1>1, <1>2, <2>2 DEF MatchUpserted, IInv, TypeOK
  <2>4. matches'[<<k[1], k[2]>>] # NoMatch
    BY <1>1, <1>2, <1>4, <2>3 DEF NoMatch
  <2> QED BY <2>4 DEF Settled
<1> QED BY <1>2, <1>3, <1>4

LEMMA SettleStep ==
    ASSUME OneAtATime, IInv, QInv, AwaitedFits, KeysSettle, [Next]_vars PROVE KeysSettle'
<1> SUFFICES ASSUME NEW k \in keys' \cap MustMatch
             PROVE  Settled(k)' \/ \E j \in Job : k \in Held(j)'
  BY DEF KeysSettle
<1>0. k \in Key /\ k # None
  BY ConstantsAssumption
<1>1. CASE k \in keys /\ Settled(k)
  BY <1>0, <1>1, SettledStays
<1>2. CASE Rests
  <2>1. k \in keys /\ \A j \in Job : Held(j)' = Held(j)
    BY <1>2 DEF Rests, Held
  <2> QED BY <1>1, <2>1 DEF KeysSettle
<1>3. ASSUME NEW j \in Job, NEW S, Claims(j, S) PROVE Settled(k)' \/ \E i \in Job : k \in Held(i)'
  <2>1. k \in S => k \in Held(j)'
    BY <1>3 DEF Claims
  <2>2. ~ \E i \in Job : k \in Held(i)
    BY <1>3 DEF Claims, OneAtATime
  <2>3. k \in keys \/ k \in S
    BY <1>3 DEF Claims
  <2> QED BY <1>1, <2>1, <2>2, <2>3 DEF KeysSettle
<1>4. ASSUME NEW j \in Job, Scores(j) PROVE Settled(k)' \/ \E i \in Job : k \in Held(i)'
  <2>1. k \in keys
    BY <1>4 DEF Scores
  <2>2. CASE cur[j].key = k
    <3>1. ScoreAnswered(j)
      BY <1>0, <1>4, <2>2 DEF Scores, NoItem
    <3> QED BY <1>0, <2>2, <3>1, ScoreSettles
  <2>3. CASE cur[j].key # k
    <3>1. \A i \in Job : i = j
      BY DEF OneAtATime
    <3>2. k \in Held(j) => k \in Held(j)'
      BY <1>4, <2>3 DEF Scores
    <3> QED BY <1>1, <2>1, <3>1, <3>2 DEF KeysSettle
  <2> QED BY <2>2, <2>3
<1> QED BY <1>2, <1>3, <1>4, QueueStep

\* What is left of a call's drained jobs is still open to be read.
LEMMA TodoStays ==
    ASSUME OneAtATime, IInv, QInv, DeadlineFollowsContent, HeldOpen, [Next]_vars,
           NEW j \in Job, NEW k \in todo[j]
    PROVE  StillOpen(k) /\ store'[k[2]] = store[k[2]] /\ StillOpen(k)'
<1>1. k \in Key /\ pc[j] = "score" /\ StillOpen(k)
  BY DEF QInv, HeldWhenScoring, HeldOpen, IInv, TypeOK
<1>2. k[2] \in Cand /\ k[3] \in Version
  BY <1>1 DEF Key
<1>3. store'[k[2]] = store[k[2]]
  BY <1>1, <1>2, StoreStays
<1>4. Midnight(PeriodOf(k[2], k[3]).start) \in Nat
  BY <1>2, DayType
<1> QED BY <1>1, <1>3, <1>4, TimeGrows DEF StillOpen, Midnight, PeriodOf

LEMMA ScoresShrinks ==
    ASSUME NEW j \in Job, Scores(j)
    PROVE  todo'[j] \subseteq todo[j] /\ (cur'[j].key # None => cur'[j].key \in todo[j])
BY DEF Scores, Held

\* A key claimed now is open now.
LEMMA ClaimedOpen ==
    ASSUME IInv, IInv', DeadlineFollowsContent', [Next]_vars, NEW k \in Key,
           store'[k[2]].ver = k[3], WithinWindow(store'[k[2]], now)
    PROVE  StillOpen(k)'
<1>1. k[2] \in Cand /\ k[3] \in Version /\ k[3] # None
  BY NoneApart DEF Key
<1>2. store'[k[2]].period = PeriodOf(k[2], k[3])
  BY <1>1 DEF DeadlineFollowsContent, PeriodOf
<1>3. Midnight(PeriodOf(k[2], k[3]).start) \in Nat
  BY <1>1, DayType
<1> QED BY <1>2, <1>3, TimeGrows DEF WithinWindow, InPeriod, StillOpen, Midnight, PeriodOf

LEMMA HeldOpenStep ==
    ASSUME OneAtATime, IInv, IInv', QInv, DeadlineFollowsContent, DeadlineFollowsContent', HeldOpen,
           [Next]_vars
    PROVE  HeldOpen'
<1> SUFFICES ASSUME NEW i \in Job, NEW k \in todo'[i] PROVE StillOpen(k)'
  BY DEF HeldOpen
<1>1. CASE k \in todo[i]
  BY <1>1, TodoStays
<1>2. ASSUME NEW j \in Job, NEW S, Claims(j, S) PROVE StillOpen(k)'
  <2>1. i = j
    BY DEF OneAtATime
  <2>2. k \in S
    BY <1>2, <2>1 DEF Claims, Held
  <2>3. k \in Key /\ store'[k[2]].ver = k[3] /\ WithinWindow(store'[k[2]], now)
    BY <1>2, <2>2 DEF Claims, OpenWhenClaimed
  <2> QED BY <2>3, ClaimedOpen
<1>3. ASSUME NEW j \in Job, Scores(j) PROVE k \in todo[i]
  BY <1>3, ScoresShrinks DEF OneAtATime
<1> QED BY <1>1, <1>2, <1>3, QueueStep DEF Rests

LEMMA AwaitedFitsStep ==
    ASSUME OneAtATime, IInv, QInv, DeadlineFollowsContent, HeldOpen, AwaitedFits, [Next]_vars
    PROVE  AwaitedFits'
<1> DEFINE Fit(i) == cur'[i].key # None =>
                        /\ cur'[i].pair = <<cur'[i].key[1], cur'[i].key[2]>>
                        /\ \/ cur'[i].ver = cur'[i].key[3]
                           \/ cur'[i].ver = None /\ now' > Midnight(PeriodOf(cur'[i].key[2], cur'[i].key[3]).deadline)
<1>0. (\A i \in Job : Fit(i)) => AwaitedFits'
  BY DEF AwaitedFits, Lapsed, Midnight, PeriodOf
<1>1. ASSUME NEW i \in Job, NEW k \in Key, cur'[i].key = k, Item(k, store) = cur'[i] \/ Item(k, store') = cur'[i],
             cur'[i].ver = k[3] \/ (cur'[i].ver = None /\ Lapsed(k))
      PROVE  Fit(i)
  <2>1. cur'[i].pair = <<k[1], k[2]>>
    BY <1>1 DEF Item
  <2>2. Lapsed(k) => now' > Midnight(PeriodOf(k[2], k[3]).deadline)
    <3>1. Midnight(PeriodOf(k[2], k[3]).deadline) \in Nat
      BY DayType DEF Key
    <3> QED BY <3>1, TimeGrows DEF Lapsed
  <2> QED BY <1>1, <2>1, <2>2
<1>2. ASSUME NEW i \in Job, cur'[i] = cur[i] PROVE Fit(i)
  <2>1. CASE cur[i].key = None
    BY <1>2, <2>1
  <2>2. CASE cur[i].key # None
    <3> DEFINE k == cur[i].key
    <3>1. k \in Key
      BY <2>2 DEF QInv, KeysHandedOutOnce, Held, IInv, TypeOK
    <3>2. cur[i].pair = <<k[1], k[2]>> /\ (cur[i].ver = k[3] \/ (cur[i].ver = None /\ Lapsed(k)))
      BY <2>2 DEF AwaitedFits
    <3>3. Midnight(PeriodOf(k[2], k[3]).deadline) \in Nat
      BY <3>1, DayType DEF Key
    <3>4. Lapsed(k) => now' > Midnight(PeriodOf(k[2], k[3]).deadline)
      BY <3>3, TimeGrows DEF Lapsed
    <3> QED BY <1>2, <3>2, <3>4
  <2> QED BY <2>1, <2>2
<1>3. ASSUME NEW j \in Job, NEW S, Claims(j, S), cur'[j].key # None PROVE Fit(j)
  <2> DEFINE k == cur'[j].key
  <2>1. k \in S /\ k \in Key /\ Item(k, store') = cur'[j]
    BY <1>3 DEF Claims, Held, Reads
  <2>2. Item(k, store').ver = k[3]
    BY <1>3, <2>1 DEF Claims, OpenWhenClaimed, Item
  <2> QED BY <1>1, <2>1, <2>2
<1>4. ASSUME NEW j \in Job, Scores(j), cur'[j].key # None PROVE Fit(j)
  <2> DEFINE k == cur'[j].key
  <2>1. k \in todo[j] /\ k \in Key
    BY <1>4, ScoresShrinks DEF IInv, TypeOK
  <2>2. StillOpen(k) /\ store'[k[2]] = store[k[2]]
    BY <2>1, TodoStays
  <2>3. Item(k, store') = cur'[j] /\ Item(k, store') = Item(k, store)
    BY <1>4, <2>2 DEF Scores, Reads, Item
  <2>4. Item(k, store).ver = k[3] \/ (Item(k, store).ver = None /\ Lapsed(k))
    BY <2>1, <2>2, ItemFits
  <2> QED BY <1>1, <2>1, <2>3, <2>4
<1> HIDE DEF Fit
<1>5. \A i \in Job : cur'[i].key = None => Fit(i)
  BY DEF Fit
<1>6. CASE Rests
  BY <1>0, <1>2, <1>6 DEF Rests
<1>7. ASSUME NEW j \in Job, NEW S, Claims(j, S) PROVE AwaitedFits'
  BY <1>0, <1>3, <1>5, <1>7 DEF OneAtATime
<1>8. ASSUME NEW j \in Job, Scores(j) PROVE AwaitedFits'
  BY <1>0, <1>4, <1>5, <1>8 DEF OneAtATime
<1> QED BY <1>6, <1>7, <1>8, QueueStep

\* A scan gets to its scoring by an answered fetch and leaves it by finishing.
Scoring(i) == pc[i] = "score" /\ task[i].kind = "INITIAL_OPPOSITION_SCAN"

MovesOn(i) ==
    \/ pc'[i] = pc[i] /\ task'[i] = task[i]
    \/ FetchAnswered(i)
    \/ ScanFinishes(i)
    \/ ~Scoring(i) /\ (pc'[i] # "score" \/ task'[i].kind # "INITIAL_OPPOSITION_SCAN")

LEMMA CallsMoveOn == ASSUME IInv, [Next]_vars, NEW i \in Job PROVE MovesOn(i)
<1> TypeOK
  BY DEF IInv
<1>1. ASSUME NEW j \in Job, NEW a, NEW t, pc' = [pc EXCEPT ![j] = a], task' = [task EXCEPT ![j] = t],
             ~Scoring(j), a # "score" \/ t.kind # "INITIAL_OPPOSITION_SCAN"
      PROVE  MovesOn(i)
  BY <1>1 DEF MovesOn, TypeOK
<1>2. CASE UNCHANGED <<pc, task>>
  BY <1>2 DEF MovesOn
<1>3. ASSUME NEW j \in Job, FetchAnswered(j) \/ ScanFinishes(j) PROVE MovesOn(i)
  <2>1. i # j => pc'[i] = pc[i] /\ task'[i] = task[i]
    BY <1>3 DEF FetchAnswered, NextPage, StartMatching, ScanFinishes, TypeOK
  <2> QED BY <1>3, <2>1 DEF MovesOn
<1>4. ASSUME NEW j \in Job, ScoreAnswered(j) PROVE UNCHANGED <<pc, task>>
  BY <1>4 DEF ScoreAnswered
<1>5. ASSUME NEW j \in Job, NEW a, pc' = [pc EXCEPT ![j] = a], a # "score", ~Scoring(j),
             \A k \in Job : k # j => task'[k] = task[k]
      PROVE  MovesOn(i)
  BY <1>5 DEF MovesOn, TypeOK
<1>6. ASSUME NEW j \in Job, BeginDailySync(j) \/ DailySyncRejects(j) \/ RegisterSyncDone(j) \/ FetchFailed(j)
      PROVE  MovesOn(i)
  <2>1. ~Scoring(j) /\ \A k \in Job : k # j => task'[k] = task[k]
    BY <1>6 DEF BeginDailySync, DailySyncRejects, RegisterSyncDone, FetchFailed, Scoring, TypeOK
  <2>2. \E a : a # "score" /\ pc' = [pc EXCEPT ![j] = a]
    BY <1>6 DEF BeginDailySync, DailySyncRejects, RegisterSyncDone, FetchFailed
  <2> QED BY <1>5, <2>1, <2>2
<1>7. ASSUME NEW j \in Job, DailySyncFinishes(j) \/ HandlerReturns(j) PROVE MovesOn(i)
  <2>1. ~Scoring(j) /\ \A k \in Job : k # j => task'[k] = task[k]
    BY <1>7 DEF DailySyncFinishes, HandlerReturns, Scoring, TypeOK
  <2>2. \E a : a # "score" /\ pc' = [pc EXCEPT ![j] = a]
    BY <1>7 DEF DailySyncFinishes, HandlerReturns
  <2> QED BY <1>5, <2>1, <2>2
<1>8. ASSUME NEW j \in Job, (\E R : RegisterSync(j, R)) \/ (\E w : BeginScan(j, w)) PROVE MovesOn(i)
  <2>1. ~Scoring(j) /\ \A k \in Job : k # j => task'[k] = task[k]
    BY <1>8 DEF RegisterSync, BeginScan, Free, Scoring, TypeOK
  <2>2. \E a : a # "score" /\ pc' = [pc EXCEPT ![j] = a]
    BY <1>8 DEF RegisterSync, BeginScan
  <2> QED BY <1>5, <2>1, <2>2
<1>9. ASSUME NEW j \in Job, NEW r, MatchCandidateBatch(j, r) PROVE MovesOn(i)
  <2> DEFINE t == [NoTask EXCEPT !.kind = "MATCH_CANDIDATE_BATCH", !.register = r]
  <2>1. ~Scoring(j) /\ pc' = [pc EXCEPT ![j] = "score"] /\ task' = [task EXCEPT ![j] = t]
    BY <1>9 DEF MatchCandidateBatch, Free, Scoring
  <2>2. t.kind # "INITIAL_OPPOSITION_SCAN"
    BY DEF NoTask
  <2> QED BY <1>1, <2>1, <2>2
<1>10. ASSUME NEW j \in Job, NEW p, ScoreMatch(j, p) PROVE MovesOn(i)
  <2> DEFINE t == [NoTask EXCEPT !.kind = "SCORE_MATCH"]
  <2>1. ~Scoring(j) /\ pc' = [pc EXCEPT ![j] = "score"] /\ task' = [task EXCEPT ![j] = t]
    BY <1>10 DEF ScoreMatch, Free, Scoring
  <2>2. t.kind # "INITIAL_OPPOSITION_SCAN"
    BY DEF NoTask
  <2> QED BY <1>1, <2>1, <2>2
<1>11. CASE \/ \E j \in Job, w \in Watch : ScanSkipped(j, w) \/ ScanUnconnected(j, w)
            \/ RefreshDeadlines(Cand) \/ \E c \in Cand : RefreshDeadlines({c})
            \/ \E o \in Org : ArchiveExpiredMatches(o)
            \/ World
            \/ UNCHANGED vars
  <2>1. UNCHANGED <<pc, task>>
    BY <1>11 DEF ScanSkipped, ScanUnconnected, RefreshDeadlines, ArchiveExpiredMatches, World, Publish,
                 Tick, UpsertWatch, Review, vars, locals
  <2> QED BY <2>1, <1>2
<1>12. ASSUME NEW j \in Job, Continue(j) PROVE MovesOn(i)
  BY <1>12, <1>2, <1>3, <1>4, <1>6, <1>7 DEF Continue
<1>13. ASSUME NEW j \in Job, Call(j) PROVE MovesOn(i)
  BY <1>13, <1>8, <1>9, <1>10, <1>11 DEF Call
<1> QED BY <1>11, <1>12, <1>13 DEF Next, Worker

LEMMA ScanListedStep ==
    ASSUME OneAtATime, IInv, QInv, DeadlineFollowsContent, ScanListed, [Next]_vars PROVE ScanListed'
<1> SUFFICES ASSUME NEW j \in Job, pc'[j] = "score", task'[j].kind = "INITIAL_OPPOSITION_SCAN",
                    NEW c \in Cand, CandRegister[c] = task'[j].register,
                    WithinWindow(store'[c], task'[j].listed)
             PROVE  <<task'[j].watch, c, store'[c].ver>> \in keys'
  BY DEF ScanListed, WithinWindow, InPeriod, Midnight
<1> TypeOK
  BY DEF IInv
<1>1. keys \subseteq keys'
  BY QueueStep DEF Rests, Claims, Scores
<1>2. CASE pc'[j] = pc[j] /\ task'[j] = task[j]
  <2>1. store'[c] = store[c]
    BY <1>2, StoreStays
  <2> QED BY <1>1, <1>2, <2>1 DEF ScanListed
<1>3. CASE FetchAnswered(j)
  <2>1. pc[j] = "fetch"
    BY <1>3 DEF FetchAnswered
  <2>2. PICK n : StartMatching(j, n)
    BY <1>3, <2>1 DEF FetchAnswered, NextPage
  <2>3. /\ task' = [task EXCEPT ![j] = [@ EXCEPT !.listed = IF Daily(j) THEN 0 ELSE now]]
        /\ task[j] \in Task
    BY <2>2 DEF StartMatching, TypeOK
  <2>4. task'[j].kind = task[j].kind /\ task'[j].watch = task[j].watch /\ task'[j].register = task[j].register
    BY <2>3 DEF TypeOK, Task
  <2>5. ~Daily(j)
    BY <2>4 DEF Daily
  <2>6. task'[j].listed = now
    BY <2>3, <2>5 DEF TypeOK, Task
  <2> DEFINE open == OpenCandidates(task[j].register, store')
  <2>7. keys' = keys \cup Fresh({task[j].watch}, open, store')
    BY <2>2, <2>5 DEF StartMatching, EnqueueAndDrain
  <2>8. c \in open
    BY <2>4, <2>6 DEF OpenCandidates
  <2> QED BY <2>4, <2>7, <2>8 DEF Fresh
<1>4. CASE ScanFinishes(j)
  BY <1>4 DEF ScanFinishes, TypeOK
<1> QED BY <1>2, <1>3, <1>4, CallsMoveOn DEF MovesOn

LEMMA InitSInv == ASSUME Init PROVE SInv
BY DEF Init, SInv, KeysSettle, HeldOpen, AwaitedFits, ScanListed, NoItem

\* A scan that finishes has scored or dropped all it queued.
LEMMA ScanFound ==
    ASSUME OneAtATime, IInv, QInv, DeadlineFollowsContent, SInv, [Next]_vars, NEW j \in Job,
           task[j].kind = "INITIAL_OPPOSITION_SCAN", pc[j] = "score", pc'[j] = "idle",
           NEW c \in Cand, CandRegister[c] = task[j].register,
           WithinWindow(store[c], now), WithinWindow(store[c], task[j].listed),
           <<task[j].watch, c, store[c].ver>> \in MustMatch
    PROVE  matches[<<task[j].watch, c>>] # NoMatch
<1> DEFINE k == <<task[j].watch, c, store[c].ver>>
<1>1. ScanFinishes(j)
  <2>1. ~FetchAnswered(j)
    BY DEF FetchAnswered
  <2> QED BY <2>1, CallsMoveOn DEF MovesOn, Scoring
<1>2. \A i \in Job : Held(i) = {}
  <2>1. cur[j] = NoItem /\ todo[j] = {}
    BY <1>1 DEF ScanFinishes, QInv, ItemFirst
  <2> QED BY <2>1 DEF OneAtATime, Held, NoItem
<1>3. k \in keys
  BY DEF SInv, ScanListed
<1>4. Settled(k)
  BY <1>2, <1>3 DEF SInv, KeysSettle
<1>5. ~Lapsed(k)
  <2>1. k \in Key /\ store[c].ver # None /\ store[c].ver \in Version
    BY NoneApart, ConstantsAssumption DEF Key
  <2>2. store[c].period = PeriodOf(c, store[c].ver)
    BY <2>1 DEF DeadlineFollowsContent
  <2>3. now \in Nat /\ Midnight(PeriodOf(c, store[c].ver).deadline) \in Nat
    BY <2>1, DayType DEF IInv, TypeOK
  <2> QED BY <2>2, <2>3 DEF WithinWindow, InPeriod, Lapsed
<1> QED BY <1>4, <1>5 DEF Settled

\* With one handler call at a time, an initial scan that succeeds leaves a match for every
\* application that was open for opposition when it listed them and still is, if the pair
\* scores above the threshold: no key was ever used up by a call that neither scored it nor
\* found its window over, in whatever order syncs, scans, refreshes and reviews came before.
THEOREM ScansFind == ASSUME OneAtATime PROVE Spec => ScanFindsOpenFilings
<1> DEFINE Found ==
        \A j \in Job :
        (task[j].kind = "INITIAL_OPPOSITION_SCAN" /\ pc[j] = "score" /\ pc'[j] = "idle") =>
            \A c \in Cand :
                /\ CandRegister[c] = task[j].register
                /\ WithinWindow(store[c], now) /\ WithinWindow(store[c], task[j].listed)
                /\ <<task[j].watch, c, store[c].ver>> \in MustMatch
                => matches[<<task[j].watch, c>>] # NoMatch
<1>1. IInv /\ QInv /\ DeadlineFollowsContent /\ SInv /\ [Next]_vars => [Found]_vars
  BY ScanFound
<1>2. Init => SInv
  BY InitSInv
<1>3. IInv /\ IInv' /\ QInv /\ DeadlineFollowsContent /\ DeadlineFollowsContent' /\ SInv /\ [Next]_vars => SInv'
  BY SettleStep, HeldOpenStep, AwaitedFitsStep, ScanListedStep DEF SInv
<1>4. Spec => [][Found]_vars
  BY <1>1, <1>2, <1>3, IInvAlways, QInvAlways, DeadlinesFollow, PTL DEF Spec
<1> QED BY <1>4 DEF ScanFindsOpenFilings
=============================================================================
