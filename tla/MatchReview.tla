------------------------------ MODULE MatchReview ------------------------------
(***************************************************************************)
(* The review of matches through the API, over the PostgresStore: every    *)
(* request reads a match, judges the status it read, and writes; each of   *)
(* these is a query of its own, and requests interleave at every query.    *)
(* Updates write columns, but the column of notes is written whole, from   *)
(* the row as it was read: of two notes written at once one is lost.       *)
(* Nothing runs by itself: matches expire when somebody views deadlines.   *)
(***************************************************************************)
EXTENDS Integers

CONSTANTS
    Request,     \* requests that may be in flight together
    Match,       \* the organization's matches
    Deadline,    \* Deadline[m]: the day of its opposition deadline, or None
    TicksPerDay, \* instants the clock tells apart in a day
    Decisions,   \* statuses given through PATCH /matches/:id/status
    MaxTime,     \* bound: instants
    MaxNotes,    \* bound: notes there are when one more is asked for
    None         \* null / undefined

Status   == {"new", "under_review", "confirmed_conflict", "dismissed",
             "opposition_filed", "opposition_deadline_passed"}
ActiveMatch == {"under_review", "confirmed_conflict", "opposition_filed"}
DeadlineEligible == {"new"} \cup ActiveMatch
Closed   == {"dismissed", "opposition_deadline_passed"}

ASSUME ReviewAssumption ==
    /\ Deadline \in [Match -> Nat \cup {None}]
    /\ TicksPerDay \in Nat \ {0} /\ MaxTime \in Nat /\ MaxNotes \in Nat
    /\ Decisions \subseteq Status
    /\ None \notin Nat \cup Match \cup Status \cup {"reviewer", "system"}

VARIABLES
    now,    \* the clock
    match,  \* match[m]: the row of a match, with its notes
    noted,  \* notes created so far, which makes their ids fresh
    call    \* call[q]: where the request stands, and its locals

reviewVars == <<now, match, noted, call>>

\* since: history, for the properties only: the notes there were when the writer of this one
\* read the row.
Note == [id : Nat, since : Nat]
Row  == [status : Status, by : {None, "reviewer", "system"}, advisor : BOOLEAN, notes : SUBSET Note]
Fresh == [status |-> "new", by |-> None, advisor |-> FALSE, notes |-> {}]

\* route: the handler; step: what it awaits; on, read: the match it is about, and as it read
\* it; to: the status it will write, if any; rest: the matches GET /deadlines has left.
\* History, for the properties only: since, the notes there were when it read; filed, the
\* note it wrote; late, the matches whose status others wrote after it judged them.
Local == [route : {"status", "accept", "reject", "archive", "notes", "deadlines"},
          step : {"idle", "rereading", "noting", "deciding", "listed", "expiring"},
          on : Match \cup {None}, read : Row, to : Status \cup {None}, rest : SUBSET Match,
          since : Nat, filed : Nat \cup {None}, late : SUBSET Match]
Lists(step, rest, late) ==
    [route |-> "deadlines", step |-> step, on |-> None, read |-> Fresh, to |-> None, rest |-> rest,
     since |-> 0, filed |-> None, late |-> late]
Idle  == Lists("idle", {}, {})

ReviewInit ==
    /\ now = 0
    /\ match = [m \in Match |-> Fresh]
    /\ noted = 0
    /\ call = [q \in Request |-> Idle]

At(q, step) == call[q].step = step
Becomes(q, l) == call' = [call EXCEPT ![q] = l]

\* daysBetween(now, deadline): whole days left, rounded up.
DaysLeft(m) == -((now - Deadline[m] * TicksPerDay) \div TicksPerDay)

Overdue(m) == Deadline[m] # None /\ DaysLeft(m) < 0

(***************************************************************************)
(* The request reads its match and judges what it read.  A refusal answers *)
(* the request and changes nothing.                                        *)
(***************************************************************************)
Reads(route, step, m, to, late) ==
    [route |-> route, step |-> step, on |-> m, read |-> match[m], to |-> to, rest |-> {},
     since |-> noted, filed |-> None, late |-> late]

\* PATCH /matches/:id/status: any status, but only a new match is marked relevant.
PatchStatus(q, m, to) ==
    /\ At(q, "idle")
    /\ to = "confirmed_conflict" => match[m].status = "new"
    /\ Becomes(q, Reads("status", "deciding", m, to, {}))
    /\ UNCHANGED <<now, match, noted>>

Accept(q, m) ==
    /\ At(q, "idle")
    /\ match[m].status = "new"
    /\ Becomes(q, Reads("accept", "deciding", m, "under_review", {}))
    /\ UNCHANGED <<now, match, noted>>

\* The reason is filed first: addMatchNote reads the match again.
Reject(q, m) ==
    /\ At(q, "idle") /\ noted < MaxNotes
    /\ match[m].status = "new"
    /\ Becomes(q, Reads("reject", "rereading", m, "dismissed", {}))
    /\ UNCHANGED <<now, match, noted>>

Archive(q, m) ==
    /\ At(q, "idle")
    /\ match[m].status \in ActiveMatch
    /\ Becomes(q, Reads("archive", "deciding", m, "dismissed", {}))
    /\ UNCHANGED <<now, match, noted>>

AddNote(q, m) ==
    /\ At(q, "idle") /\ noted < MaxNotes
    /\ Becomes(q, Reads("notes", "noting", m, None, {}))
    /\ UNCHANGED <<now, match, noted>>

\* What is read again is for the notes: the status was judged before.
RereadForNote(q) ==
    /\ At(q, "rereading")
    /\ Becomes(q, Reads(call[q].route, "noting", call[q].on, call[q].to, call[q].late))
    /\ UNCHANGED <<now, match, noted>>

(***************************************************************************)
(* The writes.                                                             *)
(***************************************************************************)
\* The note, and with it all notes as they were read.
WriteNote(q) ==
    /\ At(q, "noting")
    /\ match' = [match EXCEPT ![call[q].on].notes =
                     call[q].read.notes \cup {[id |-> noted, since |-> call[q].since]}]
    /\ noted' = noted + 1
    /\ \/ call[q].to # None /\ Becomes(q, [call[q] EXCEPT !.step = "deciding", !.filed = noted])
       \/ call[q].to = None /\ Becomes(q, Idle)
    /\ now' = now

\* A status of m is written: the requests in flight have read an older one.
Overtakes(q, l, m) ==
    call' = [p \in Request |->
                 IF p = q THEN l
                 ELSE IF At(p, "idle") THEN call[p] ELSE [call[p] EXCEPT !.late = @ \cup {m}]]

\* Mutant: the whole row is written back as it was read.
RowDecided(q) == [call[q].read EXCEPT !.status = call[q].to, !.by = "reviewer"]

\* updateMatchStatus writes the status and who set it.
Decided(q) == [match[call[q].on] EXCEPT !.status = call[q].to, !.by = "reviewer"]

WriteStatus(q) ==
    /\ At(q, "deciding")
    /\ match' = [match EXCEPT ![call[q].on] = Decided(q)]
    /\ Overtakes(q, Idle, call[q].on)
    /\ UNCHANGED <<now, noted>>

RequestAdvisor(q, m) ==
    /\ At(q, "idle")
    /\ match' = [match EXCEPT ![m].advisor = TRUE]
    /\ UNCHANGED <<now, noted, call>>

\* Mutant: only what is expired already is left alone.
ExpirableStatus(status) == status # "opposition_deadline_passed"

\* isDeadlineEligibleStatus.
IsDeadlineEligible(status) == status \in DeadlineEligible

\* GET /deadlines lists the matches.
ListDeadlines(q) ==
    /\ At(q, "idle")
    /\ Becomes(q, Lists("listed", {m \in Match : IsDeadlineEligible(match[m].status)}, {}))
    /\ UNCHANGED <<now, match, noted>>

\* The list arrives, the clock is read, and the overdue ones are gone through.
PickOverdue(q) ==
    /\ At(q, "listed")
    /\ Becomes(q, Lists("expiring", {m \in call[q].rest : Overdue(m)}, call[q].late))
    /\ UNCHANGED <<now, match, noted>>

Expired(row) == [row EXCEPT !.status = "opposition_deadline_passed", !.by = "system"]

Expire(q) ==
    /\ At(q, "expiring")
    /\ \E m \in call[q].rest :
           /\ match' = [match EXCEPT ![m] = Expired(@)]
           /\ Overtakes(q, Lists("expiring", call[q].rest \ {m}, call[q].late), m)
    /\ UNCHANGED <<now, noted>>

\* The second list only makes the answer.
DeadlinesListed(q) ==
    /\ At(q, "expiring") /\ call[q].rest = {}
    /\ Becomes(q, Idle)
    /\ UNCHANGED <<now, match, noted>>

\* throwOnError: a query fails and the request with it, whatever it has written.
QueryFails(q) ==
    /\ ~At(q, "idle")
    /\ Becomes(q, Idle)
    /\ UNCHANGED <<now, match, noted>>

Tick ==
    /\ now < MaxTime
    /\ now' = now + 1
    /\ UNCHANGED <<match, noted, call>>

ReviewNext ==
    \/ \E q \in Request :
           \/ \E m \in Match :
                  \/ \E to \in Decisions : PatchStatus(q, m, to)
                  \/ Accept(q, m)
                  \/ Reject(q, m)
                  \/ Archive(q, m)
                  \/ AddNote(q, m)
                  \/ RequestAdvisor(q, m)
           \/ RereadForNote(q)
           \/ WriteNote(q)
           \/ WriteStatus(q)
           \/ ListDeadlines(q)
           \/ PickOverdue(q)
           \/ Expire(q)
           \/ DeadlinesListed(q)
           \/ QueryFails(q)
    \/ Tick

ReviewSpec == ReviewInit /\ [][ReviewNext]_reviewVars

-------------------------------------------------------------------------------
ReviewTypeOK ==
    /\ now \in Nat
    /\ match \in [Match -> Row]
    /\ noted \in Nat
    /\ call \in [Request -> Local]
    /\ \A q \in Request :
           /\ call[q].step \in {"rereading", "noting", "deciding"} => call[q].on \in Match
           /\ call[q].step \in {"rereading", "deciding"} => call[q].to \in Status

Today == now \div TicksPerDay

\* Between any list and the expiries made from it, whatever else is decided: only the
\* view of deadlines expires matches, it signs what it expires, and it expires nothing
\* before the last day to oppose is over (deadlines.ts).
ExpiredOnlyWhenOver ==
    \A m \in Match : match[m].by = "system" =>
        /\ match[m].status = "opposition_deadline_passed"
        /\ Deadline[m] # None /\ Today > Deadline[m]

\* Note i of a match is on file, or a note is whose writer had read the row before i was
\* written and wrote it back afterwards.
OnFileOrOverlapped(notes, i) ==
    \E w \in notes : w.id = i \/ (w.since <= i /\ i < w.id)

\* Whichever decisions, expiries and notes of the same match overlap, a note is lost to
\* nothing but another one, still on file, whose writer read the match before it and wrote
\* after it, and a request for an advisor is never lost: the writes of columns take nothing
\* with them (postgres-store.ts).
AnnotationsKept ==
    [][\A m \in Match :
        /\ \A n \in match[m].notes : OnFileOrOverlapped(match'[m].notes, n.id)
        /\ match[m].advisor => match'[m].advisor]_reviewVars

\* When a rejection is about to take effect, its reason is on file, whatever failed and
\* whatever happened to the match since it was read, unless somebody's note overlapped
\* with it (matches.ts, reject).
RejectionReasoned ==
    \A q \in Request : At(q, "deciding") /\ call[q].route = "reject" =>
        /\ call[q].filed # None
        /\ OnFileOrOverlapped(match[call[q].on].notes, call[q].filed)

\* The request writes the status of m in this step.
Writes(q, m) ==
    \/ At(q, "deciding") /\ call[q].on = m /\ call'[q].step = "idle" /\ match' # match
    \/ At(q, "expiring") /\ m \in call[q].rest /\ m \notin call'[q].rest

\* A match that was rejected, archived or expired is written by nothing but a status its
\* reviewer names, or a request that read the match before that: neither a decision nor an
\* expiry that could have known is written over it (matches.ts, deadlines.ts).
ClosedStands ==
    [][\A m \in Match :
        match[m].status \in Closed /\ <<match'[m].status, match'[m].by>> # <<match[m].status, match[m].by>> =>
            \E q \in Request : Writes(q, m) /\ (call[q].route = "status" \/ m \in call[q].late)]_reviewVars

\* What takes a match out of review has its ground, whatever overlapped or failed: an expiry
\* a day that is over, a rejection its reason, and neither is undone unawares.
DecisionsGrounded == []ExpiredOnlyWhenOver /\ []RejectionReasoned /\ ClosedStands

\* opposition-workflow.md:95 says of opposition_deadline_passed that the deadline has
\* passed "with no `opposition_filed` status recorded".
FiledNotExpired ==
    [][\A m \in Match :
        match[m].status = "opposition_filed" => match'[m].by # "system"]_reviewVars

===============================================================================
