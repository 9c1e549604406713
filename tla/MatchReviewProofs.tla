--------------------------- MODULE MatchReviewProofs ---------------------------
(***************************************************************************)
(* What overlapping reviews may and may not do to a match, for any number  *)
(* of requests, all of which may write notes.  The invariant says of every *)
(* request in flight what its locals still know of the rows: a listed      *)
(* match stays overdue because the clock does not go back; the status that *)
(* was judged still stands unless somebody wrote it since; and every note  *)
(* that is known anywhere is on file or was overlapped by one that is.     *)
(***************************************************************************)
EXTENDS MatchReview, TLAPS

\* What the clock's day and the days left have to do with each other.
LEMMA OverdueIsOver ==
    ASSUME NEW t \in Nat, NEW d \in Nat, NEW k \in Nat \ {0}
    PROVE  -((t - d * k) \div k) < 0 <=> t \div k > d
<1>1. (t - d * k) \div k >= 1 <=> t - d * k >= k
  OBVIOUS
<1>2. t \div k > d <=> t - d * k >= k
  OBVIOUS
<1>3. (t - d * k) \div k \in Int
  OBVIOUS
<1>. QED
  BY <1>1, <1>2, <1>3

LEMMA DayGrows ==
    ASSUME NEW t \in Nat, NEW u \in Nat, NEW k \in Nat \ {0}, t <= u
    PROVE  t \div k <= u \div k
  OBVIOUS

\* A match is overdue exactly when its last day is over.
LEMMA OverdueToday ==
    ASSUME ReviewTypeOK, NEW m \in Match
    PROVE  Overdue(m) <=> Deadline[m] # None /\ Today > Deadline[m]
<1>1. CASE Deadline[m] = None
  BY <1>1 DEF Overdue
<1>2. CASE Deadline[m] # None
  <2>1. Deadline[m] \in Nat /\ now \in Nat /\ TicksPerDay \in Nat \ {0}
    BY <1>2, ReviewAssumption DEF ReviewTypeOK
  <2>. QED
    BY <1>2, <2>1, OverdueIsOver DEF Overdue, DaysLeft, Today
<1>. QED
  BY <1>1, <1>2

(***************************************************************************)
(* What steps do to the locals.                                            *)
(***************************************************************************)
ReviewRoutes  == {"status", "accept", "reject", "archive", "notes", "deadlines"}
OneStep == {"rereading", "noting", "deciding"}
Listing == {"idle", "listed", "expiring"}

\* A request stands where it stood; others may have written statuses meanwhile.
Stands(p) ==
    /\ call'[p].route = call[p].route /\ call'[p].step = call[p].step
    /\ call'[p].on = call[p].on /\ call'[p].read = call[p].read /\ call'[p].to = call[p].to
    /\ call'[p].rest = call[p].rest /\ call'[p].since = call[p].since
    /\ call'[p].filed = call[p].filed /\ call[p].late \subseteq call'[p].late

\* Request q goes on to l, and all the others stand.
GoesOn(q, l) == call'[q] = l /\ \A p \in Request \ {q} : Stands(p)

\* q reads m on its way to the status t, which it may write if m is not closed.
ReadShape(q, r, s, m, t, late) ==
    /\ s # "noting" => t \in Status
    /\ s = "deciding" => r # "reject"
    /\ \/ r = "status" \/ t = None \/ match[m].status \notin Closed
       \/ /\ At(q, "rereading") /\ call[q].on = m /\ call[q].route = r
          /\ call[q].to = t /\ call[q].late = late
    /\ Becomes(q, Reads(r, s, m, t, late))
    /\ UNCHANGED <<now, match, noted>>

\* q goes on with a list of open matches, which are overdue once it expires them.
ListShape(q, s, rest, late) ==
    /\ s = "idle" => rest = {}
    /\ s = "expiring" => \A m \in rest : Overdue(m)
    /\ \A m \in rest : \/ match[m].status \in DeadlineEligible
                       \/ At(q, "listed") /\ m \in call[q].rest /\ call[q].late = late
    /\ Becomes(q, Lists(s, rest, late))
    /\ UNCHANGED <<now, match, noted>>

Reading(q) ==
    \E r \in ReviewRoutes, s \in OneStep, m \in Match, t \in Status \cup {None}, late \in SUBSET Match :
        ReadShape(q, r, s, m, t, late)
Going(q) == \E s \in Listing, rest, late \in SUBSET Match : ListShape(q, s, rest, late)

LEMMA LocalParts ==
    ASSUME ReviewTypeOK, NEW q \in Request
    PROVE  /\ call[q].route \in ReviewRoutes /\ call[q].step \in OneStep \cup Listing
           /\ call[q].on \in Match \cup {None} /\ call[q].read \in Row
           /\ call[q].to \in Status \cup {None} /\ call[q].rest \in SUBSET Match
           /\ call[q].since \in Nat /\ call[q].filed \in Nat \cup {None}
           /\ call[q].late \in SUBSET Match
<1>1. call[q] \in Local
  BY DEF ReviewTypeOK
<1>. QED
  BY <1>1 DEF Local, ReviewRoutes, OneStep, Listing

LEMMA FreshTyped == Fresh \in Row
<1>1. {} \in SUBSET Note
  OBVIOUS
<1>. QED
  BY <1>1 DEF Fresh, Row, Status

LEMMA ListsTyped ==
    ASSUME NEW s \in Listing, NEW rest \in SUBSET Match, NEW late \in SUBSET Match
    PROVE  Lists(s, rest, late) \in Local
  BY FreshTyped DEF Lists, Local, Listing

LEMMA ReadsTyped ==
    ASSUME ReviewTypeOK, NEW r \in ReviewRoutes, NEW s \in OneStep, NEW m \in Match,
           NEW t \in Status \cup {None}, NEW late \in SUBSET Match
    PROVE  Reads(r, s, m, t, late) \in Local
<1>1. match[m] \in Row /\ noted \in Nat
  BY DEF ReviewTypeOK
<1>2. {} \in SUBSET Match
  OBVIOUS
<1>. QED
  BY <1>1, <1>2 DEF Reads, Local, ReviewRoutes, OneStep

LEMMA IdleTyped == Idle \in Local /\ Idle.step = "idle"
<1>1. {} \in SUBSET Match /\ "idle" \in Listing
  BY DEF Listing
<1>. QED
  BY <1>1, ListsTyped DEF Idle, Lists

LEMMA BecomesGoesOn ==
    ASSUME ReviewTypeOK, NEW q \in Request, NEW l, Becomes(q, l)
    PROVE  GoesOn(q, l)
  BY DEF ReviewTypeOK, Becomes, GoesOn, Stands

LEMMA OvertakesGoesOn ==
    ASSUME ReviewTypeOK, NEW q \in Request, NEW l, NEW m \in Match, Overtakes(q, l, m)
    PROVE  /\ GoesOn(q, l)
           /\ \A p \in Request \ {q} : ~At(p, "idle") => m \in call'[p].late
<1>1. call'[q] = l
  BY DEF Overtakes
<1>2. ASSUME NEW p \in Request \ {q}
      PROVE  Stands(p) /\ (~At(p, "idle") => m \in call'[p].late)
  <2>1. call[p] \in Local
    BY DEF ReviewTypeOK
  <2>2. call'[p] = IF At(p, "idle") THEN call[p] ELSE [call[p] EXCEPT !.late = @ \cup {m}]
    BY DEF Overtakes
  <2>3. CASE At(p, "idle")
    BY <2>2, <2>3 DEF Stands
  <2>4. CASE ~At(p, "idle")
    <3>1. call'[p] = [call[p] EXCEPT !.late = @ \cup {m}]
      BY <2>2, <2>4
    <3>. QED
      BY <2>1, <3>1 DEF Stands, Local
  <2>. QED
    BY <2>3, <2>4
<1>. QED
  BY <1>1, <1>2 DEF GoesOn

\* What reads a match, and what lists them, has one of two shapes.
LEMMA Readings ==
    ASSUME ReviewTypeOK, NEW q \in Request, NEW m \in Match,
           \/ \E to \in Decisions : PatchStatus(q, m, to)
           \/ Accept(q, m) \/ Reject(q, m) \/ Archive(q, m) \/ AddNote(q, m)
    PROVE  Reading(q)
<1>0. {} \in SUBSET Match
  OBVIOUS
<1>1. ASSUME NEW to \in Decisions, PatchStatus(q, m, to) PROVE Reading(q)
  <2>1. to \in Status
    BY ReviewAssumption
  <2>2. ReadShape(q, "status", "deciding", m, to, {})
    BY <1>1, <2>1 DEF PatchStatus, ReadShape
  <2>. QED
    BY <1>0, <2>1, <2>2 DEF Reading, ReviewRoutes, OneStep
<1>2. CASE Accept(q, m)
  <2>1. ReadShape(q, "accept", "deciding", m, "under_review", {})
    BY <1>2 DEF Accept, ReadShape, Status, Closed
  <2>. QED
    BY <1>0, <2>1 DEF Reading, ReviewRoutes, OneStep, Status
<1>3. CASE Reject(q, m)
  <2>1. ReadShape(q, "reject", "rereading", m, "dismissed", {})
    BY <1>3 DEF Reject, ReadShape, Status, Closed
  <2>. QED
    BY <1>0, <2>1 DEF Reading, ReviewRoutes, OneStep, Status
<1>4. CASE Archive(q, m)
  <2>1. ReadShape(q, "archive", "deciding", m, "dismissed", {})
    BY <1>4 DEF Archive, ReadShape, Status, Closed, ActiveMatch
  <2>. QED
    BY <1>0, <2>1 DEF Reading, ReviewRoutes, OneStep, Status
<1>5. CASE AddNote(q, m)
  <2>1. ReadShape(q, "notes", "noting", m, None, {})
    BY <1>5 DEF AddNote, ReadShape
  <2>. QED
    BY <1>0, <2>1 DEF Reading, ReviewRoutes, OneStep
<1>. QED
  BY <1>1, <1>2, <1>3, <1>4, <1>5

LEMMA Rereadings ==
    ASSUME ReviewTypeOK, NEW q \in Request, RereadForNote(q)
    PROVE  Reading(q)
<1>1. /\ call[q].on \in Match /\ call[q].to \in Status /\ call[q].route \in ReviewRoutes
      /\ call[q].late \in SUBSET Match
  BY LocalParts DEF RereadForNote, ReviewTypeOK, At
<1>2. ReadShape(q, call[q].route, "noting", call[q].on, call[q].to, call[q].late)
  BY <1>1 DEF RereadForNote, ReadShape
<1>. QED
  BY <1>1, <1>2 DEF Reading, OneStep

LEMMA Listings ==
    ASSUME ReviewTypeOK, NEW q \in Request,
           ListDeadlines(q) \/ PickOverdue(q) \/ DeadlinesListed(q) \/ QueryFails(q)
    PROVE  Going(q)
<1>0. {} \in SUBSET Match /\ call[q].rest \in SUBSET Match /\ call[q].late \in SUBSET Match
  BY LocalParts
<1>1. CASE ListDeadlines(q)
  <2>. DEFINE rest == {m \in Match : IsDeadlineEligible(match[m].status)}
  <2>1. rest \in SUBSET Match
    OBVIOUS
  <2>2. ListShape(q, "listed", rest, {})
    BY <1>1 DEF ListDeadlines, ListShape, IsDeadlineEligible
  <2>. HIDE DEF rest
  <2>. QED
    BY <1>0, <2>1, <2>2 DEF Going, Listing
<1>2. CASE PickOverdue(q)
  <2>. DEFINE rest == {m \in call[q].rest : Overdue(m)}
  <2>1. rest \in SUBSET Match
    BY <1>0
  <2>2. ListShape(q, "expiring", rest, call[q].late)
    BY <1>2 DEF PickOverdue, ListShape
  <2>. HIDE DEF rest
  <2>. QED
    BY <1>0, <2>1, <2>2 DEF Going, Listing
<1>3. CASE DeadlinesListed(q) \/ QueryFails(q)
  <2>1. ListShape(q, "idle", {}, {})
    BY <1>3 DEF DeadlinesListed, QueryFails, Idle, ListShape
  <2>. QED
    BY <1>0, <2>1 DEF Going, Listing
<1>. QED
  BY <1>1, <1>2, <1>3

\* The steps there are.
LEMMA ReviewSteps ==
    ASSUME ReviewTypeOK, ReviewNext
    PROVE  \/ Tick
           \/ \E q \in Request :
                  \/ Reading(q) \/ Going(q) \/ WriteNote(q) \/ WriteStatus(q) \/ Expire(q)
                  \/ \E m \in Match : RequestAdvisor(q, m)
<1>1. ASSUME NEW q \in Request, NEW m \in Match,
             \/ \E to \in Decisions : PatchStatus(q, m, to)
             \/ Accept(q, m) \/ Reject(q, m) \/ Archive(q, m) \/ AddNote(q, m)
      PROVE  Reading(q)
  BY <1>1, Readings
<1>2. ASSUME NEW q \in Request, RereadForNote(q) PROVE Reading(q)
  BY <1>2, Rereadings
<1>3. ASSUME NEW q \in Request,
             ListDeadlines(q) \/ PickOverdue(q) \/ DeadlinesListed(q) \/ QueryFails(q)
      PROVE  Going(q)
  BY <1>3, Listings
<1>. QED
  BY <1>1, <1>2, <1>3 DEF ReviewNext

(***************************************************************************)
(* Types.                                                                  *)
(***************************************************************************)
\* The rows and the locals that a step leaves have their types.
LEMMA StepTyped ==
    ASSUME ReviewTypeOK, NEW q \in Request, NEW l \in Local, GoesOn(q, l),
           DOMAIN call' = Request, call' = [p \in Request |-> call'[p]],
           \A p \in Request \ {q} : call'[p] \in Local,
           l.step \in OneStep => l.on \in Match,
           l.step \in {"rereading", "deciding"} => l.to \in Status,
           now' \in Nat, noted' \in Nat, match' \in [Match -> Row]
    PROVE  ReviewTypeOK'
<1>1. call' \in [Request -> Local]
  BY DEF GoesOn
<1>2. ASSUME NEW p \in Request
      PROVE  /\ call'[p].step \in OneStep => call'[p].on \in Match
             /\ call'[p].step \in {"rereading", "deciding"} => call'[p].to \in Status
  <2>1. CASE p = q
    BY <2>1 DEF GoesOn
  <2>2. CASE p # q
    BY <2>2 DEF GoesOn, Stands, ReviewTypeOK, OneStep
  <2>. QED
    BY <2>1, <2>2
<1>. QED
  BY <1>1, <1>2 DEF ReviewTypeOK, OneStep

LEMMA BecomesTyped ==
    ASSUME ReviewTypeOK, NEW q \in Request, NEW l \in Local, Becomes(q, l),
           l.step \in OneStep => l.on \in Match,
           l.step \in {"rereading", "deciding"} => l.to \in Status,
           now' \in Nat, noted' \in Nat, match' \in [Match -> Row]
    PROVE  ReviewTypeOK'
<1>1. /\ DOMAIN call' = Request /\ call' = [p \in Request |-> call'[p]]
      /\ \A p \in Request \ {q} : call'[p] \in Local
  BY DEF Becomes, ReviewTypeOK
<1>. QED
  BY <1>1, StepTyped, BecomesGoesOn

LEMMA OvertakesTyped ==
    ASSUME ReviewTypeOK, NEW q \in Request, NEW s \in Listing, NEW rest \in SUBSET Match,
           NEW late \in SUBSET Match, NEW m \in Match, Overtakes(q, Lists(s, rest, late), m),
           now' \in Nat, noted' \in Nat, match' \in [Match -> Row]
    PROVE  ReviewTypeOK'
<1>. DEFINE l == Lists(s, rest, late)
<1>1. l \in Local /\ l.step \notin OneStep /\ l.step \notin {"rereading", "deciding"}
  <2>1. l \in Local
    BY ListsTyped
  <2>2. l.step = s
    BY DEF Lists
  <2>. QED
    BY <2>1, <2>2 DEF Listing, OneStep
<1>2. ASSUME NEW p \in Request \ {q} PROVE call'[p] \in Local
  <2>1. call[p] \in Local
    BY DEF ReviewTypeOK
  <2>2. call'[p] = IF At(p, "idle") THEN call[p] ELSE [call[p] EXCEPT !.late = @ \cup {m}]
    BY DEF Overtakes
  <2>. QED
    BY <2>1, <2>2 DEF Local
<1>3. DOMAIN call' = Request /\ call' = [p \in Request |-> call'[p]]
  BY DEF Overtakes
<1>4. GoesOn(q, l)
  BY OvertakesGoesOn
<1>. HIDE DEF l
<1>. QED
  BY <1>1, <1>2, <1>3, <1>4, StepTyped

\* Every variable keeps its type.
LEMMA ReviewTypes == ReviewTypeOK /\ [ReviewNext]_reviewVars => ReviewTypeOK'
<1>. SUFFICES ASSUME ReviewTypeOK, [ReviewNext]_reviewVars PROVE ReviewTypeOK'
  OBVIOUS
<1>0. /\ now \in Nat /\ noted \in Nat /\ match \in [Match -> Row] /\ call \in [Request -> Local]
  BY DEF ReviewTypeOK
<1>1. CASE UNCHANGED reviewVars
  BY <1>1 DEF reviewVars, ReviewTypeOK
<1>2. CASE Tick
  BY <1>0, <1>2 DEF Tick, ReviewTypeOK
<1>3. ASSUME NEW q \in Request, Reading(q) PROVE ReviewTypeOK'
  <2>1. PICK r \in ReviewRoutes, s \in OneStep, m \in Match, t \in Status \cup {None},
             late \in SUBSET Match : ReadShape(q, r, s, m, t, late)
    BY <1>3 DEF Reading
  <2>. DEFINE l == Reads(r, s, m, t, late)
  <2>2. l \in Local
    BY ReadsTyped
  <2>3. l.step = s /\ l.on = m /\ l.to = t
    BY DEF Reads
  <2>4. Becomes(q, l) /\ UNCHANGED <<now, match, noted>> /\ (s # "noting" => t \in Status)
    BY <2>1 DEF ReadShape
  <2>. HIDE DEF l
  <2>. QED
    BY <1>0, <2>2, <2>3, <2>4, BecomesTyped
<1>4. ASSUME NEW q \in Request, Going(q) PROVE ReviewTypeOK'
  <2>1. PICK s \in Listing, rest, late \in SUBSET Match : ListShape(q, s, rest, late)
    BY <1>4 DEF Going
  <2>. DEFINE l == Lists(s, rest, late)
  <2>2. l \in Local
    BY ListsTyped
  <2>3. l.step \notin OneStep
    BY DEF Lists, Listing, OneStep
  <2>4. Becomes(q, l) /\ UNCHANGED <<now, match, noted>>
    BY <2>1 DEF ListShape
  <2>. HIDE DEF l
  <2>. QED
    BY <1>0, <2>2, <2>3, <2>4, BecomesTyped DEF OneStep
<1>5. ASSUME NEW q \in Request, WriteNote(q) PROVE ReviewTypeOK'
  <2>. DEFINE m == call[q].on
              notes == call[q].read.notes \cup {[id |-> noted, since |-> call[q].since]}
              l == [call[q] EXCEPT !.step = "deciding", !.filed = noted]
  <2>1. /\ m \in Match /\ call[q] \in Local /\ call[q].read \in Row /\ call[q].since \in Nat
        /\ call[q].to \in Status \cup {None}
    BY <1>0, <1>5, LocalParts DEF WriteNote, ReviewTypeOK, At
  <2>2. notes \in SUBSET Note
    BY <1>0, <2>1 DEF Note, Row
  <2>3. match' = [match EXCEPT ![m].notes = notes] /\ now' = now /\ noted' = noted + 1
    BY <1>5 DEF WriteNote
  <2>4. match' \in [Match -> Row] /\ noted' \in Nat
    BY <1>0, <2>1, <2>2, <2>3 DEF Row
  <2>5. CASE call[q].to # None /\ Becomes(q, l)
    <3>1. l \in Local /\ l.step = "deciding" /\ l.on = m /\ l.to = call[q].to
      BY <1>0, <2>1 DEF Local
    <3>. HIDE DEF l, m
    <3>. QED
      BY <1>0, <2>1, <2>3, <2>4, <2>5, <3>1, BecomesTyped
  <2>6. CASE Becomes(q, Idle)
    BY <1>0, <2>3, <2>4, <2>6, IdleTyped, BecomesTyped DEF OneStep
  <2>. QED
    BY <1>5, <2>5, <2>6 DEF WriteNote
<1>6. ASSUME NEW q \in Request, WriteStatus(q) PROVE ReviewTypeOK'
  <2>1. call[q].on \in Match /\ call[q].to \in Status
    BY <1>6 DEF WriteStatus, ReviewTypeOK, At
  <2>2. match' \in [Match -> Row] /\ UNCHANGED <<now, noted>>
    BY <1>0, <1>6, <2>1 DEF WriteStatus, Decided, Row
  <2>3. Overtakes(q, Lists("idle", {}, {}), call[q].on)
    BY <1>6 DEF WriteStatus, Idle
  <2>4. {} \in SUBSET Match /\ "idle" \in Listing
    BY DEF Listing
  <2>. QED
    BY <1>0, <2>1, <2>2, <2>3, <2>4, OvertakesTyped
<1>7. ASSUME NEW q \in Request, Expire(q) PROVE ReviewTypeOK'
  <2>1. PICK m \in call[q].rest :
            /\ match' = [match EXCEPT ![m] = Expired(@)]
            /\ Overtakes(q, Lists("expiring", call[q].rest \ {m}, call[q].late), m)
    BY <1>7 DEF Expire
  <2>2. call[q].rest \in SUBSET Match /\ m \in Match /\ call[q].late \in SUBSET Match
    BY <2>1, LocalParts
  <2>3. Expired(match[m]) \in Row
    BY <1>0, <2>2 DEF Expired, Row, Status
  <2>4. match' \in [Match -> Row] /\ UNCHANGED <<now, noted>>
    BY <1>0, <1>7, <2>1, <2>2, <2>3 DEF Expire
  <2>5. call[q].rest \ {m} \in SUBSET Match /\ "expiring" \in Listing
    BY <2>2 DEF Listing
  <2>. QED
    BY <1>0, <2>1, <2>2, <2>4, <2>5, OvertakesTyped
<1>8. ASSUME NEW q \in Request, NEW m \in Match, RequestAdvisor(q, m) PROVE ReviewTypeOK'
  <2>1. match' \in [Match -> Row]
    BY <1>0, <1>8 DEF RequestAdvisor, Row
  <2>. QED
    BY <1>0, <1>8, <2>1 DEF RequestAdvisor, ReviewTypeOK
<1>. QED
  BY <1>1, <1>2, <1>3, <1>4, <1>5, <1>6, <1>7, <1>8, ReviewSteps

(***************************************************************************)
(* Expiries: what the view of deadlines is about to expire is over.        *)
(***************************************************************************)
OverFor(m) == Deadline[m] # None /\ Today > Deadline[m]

ExpiryInv ==
    /\ ExpiredOnlyWhenOver
    /\ \A q \in Request : At(q, "expiring") => \A m \in call[q].rest : OverFor(m)

LEMMA OverStays ==
    ASSUME ReviewTypeOK, now' \in Nat, now <= now', NEW m \in Match, OverFor(m)
    PROVE  OverFor(m)'
<1>1. TicksPerDay \in Nat \ {0} /\ now \in Nat
  BY ReviewAssumption DEF ReviewTypeOK
<1>2. now \div TicksPerDay <= now' \div TicksPerDay
  BY <1>1, DayGrows
<1>3. now \div TicksPerDay \in Int /\ now' \div TicksPerDay \in Int
  BY <1>1
<1>4. Deadline[m] \in Nat
  BY ReviewAssumption DEF OverFor
<1>. QED
  BY <1>2, <1>3, <1>4 DEF OverFor, Today

LEMMA ExpiryStep ==
    ASSUME ReviewTypeOK, ExpiryInv, ReviewNext
    PROVE  ExpiryInv'
<1>0. /\ now \in Nat /\ noted \in Nat /\ match \in [Match -> Row] /\ call \in [Request -> Local]
  BY DEF ReviewTypeOK
<1>1. now' \in Nat /\ now <= now'
  <2>1. ASSUME NEW q \in Request,
               \/ Reading(q) \/ Going(q) \/ WriteNote(q) \/ WriteStatus(q) \/ Expire(q)
               \/ \E m \in Match : RequestAdvisor(q, m)
        PROVE  now' = now
    BY <2>1 DEF Reading, ReadShape, Going, ListShape, WriteNote, WriteStatus, Expire, RequestAdvisor
  <2>2. Tick \/ now' = now
    BY <2>1, ReviewSteps
  <2>. QED
    BY <1>0, <2>2 DEF Tick
<1>2. \A m \in Match : OverFor(m) => OverFor(m)'
  BY <1>1, OverStays
\* A row keeps what it says of an expiry, or is written by a reviewer, or expires.
<1>3. ASSUME \A m \in Match : \/ match'[m].by = match[m].by /\ match'[m].status = match[m].status
                              \/ match'[m].by = "reviewer"
                              \/ match'[m].status = "opposition_deadline_passed" /\ OverFor(m)
      PROVE  ExpiredOnlyWhenOver'
  <2>. SUFFICES ASSUME NEW m \in Match, match'[m].by = "system"
                PROVE  match'[m].status = "opposition_deadline_passed" /\ OverFor(m)'
    BY DEF ExpiredOnlyWhenOver, OverFor
  <2>. QED
    BY <1>2, <1>3 DEF ExpiryInv, ExpiredOnlyWhenOver, OverFor
\* A request is not about to expire matches, or was about to expire these, or found them over.
<1>4. ASSUME NEW q \in Request, NEW l, GoesOn(q, l),
             l.step = "expiring" => \A m \in l.rest : m \in Match /\ OverFor(m)
      PROVE  \A p \in Request : call'[p].step = "expiring" => \A m \in call'[p].rest : OverFor(m)'
  <2>. SUFFICES ASSUME NEW p \in Request, call'[p].step = "expiring", NEW m \in call'[p].rest
                PROVE  OverFor(m)'
    OBVIOUS
  <2>1. CASE p = q
    BY <1>2, <1>4, <2>1 DEF GoesOn
  <2>2. CASE p # q
    <3>1. call[p].step = "expiring" /\ m \in call[p].rest /\ call[p].rest \in SUBSET Match
      BY <1>4, <2>2, LocalParts DEF GoesOn, Stands
    <3>. QED
      BY <1>2, <3>1 DEF ExpiryInv, At
  <2>. QED
    BY <2>1, <2>2
<1>5. ASSUME UNCHANGED call
      PROVE  \A p \in Request : call'[p].step = "expiring" => \A m \in call'[p].rest : OverFor(m)'
  <2>. SUFFICES ASSUME NEW p \in Request, call[p].step = "expiring", NEW m \in call[p].rest
                PROVE  OverFor(m)'
    BY <1>5
  <2>1. m \in Match
    BY LocalParts
  <2>. QED
    BY <1>2, <2>1 DEF ExpiryInv, At
<1>6. CASE Tick
  BY <1>3, <1>5, <1>6 DEF Tick, ExpiryInv, At
<1>7. ASSUME NEW q \in Request, Reading(q) PROVE ExpiryInv'
  <2>1. PICK r \in ReviewRoutes, s \in OneStep, m \in Match, t \in Status \cup {None},
             late \in SUBSET Match : ReadShape(q, r, s, m, t, late)
    BY <1>7 DEF Reading
  <2>2. GoesOn(q, Reads(r, s, m, t, late)) /\ match' = match
    BY <2>1, BecomesGoesOn DEF ReadShape
  <2>3. Reads(r, s, m, t, late).step # "expiring"
    BY DEF Reads, OneStep
  <2>. QED
    BY <1>3, <1>4, <2>2, <2>3 DEF ExpiryInv, At
<1>8. ASSUME NEW q \in Request, Going(q) PROVE ExpiryInv'
  <2>1. PICK s \in Listing, rest, late \in SUBSET Match : ListShape(q, s, rest, late)
    BY <1>8 DEF Going
  <2>2. GoesOn(q, Lists(s, rest, late)) /\ match' = match
    BY <2>1, BecomesGoesOn DEF ListShape
  <2>3. Lists(s, rest, late).step = s /\ Lists(s, rest, late).rest = rest
    BY DEF Lists
  <2>4. s = "expiring" => \A m \in rest : m \in Match /\ OverFor(m)
    BY <2>1, OverdueToday DEF ListShape, OverFor
  <2>. QED
    BY <1>3, <1>4, <2>2, <2>3, <2>4 DEF ExpiryInv, At
<1>9. ASSUME NEW q \in Request, WriteNote(q) PROVE ExpiryInv'
  <2>1. call[q].on \in Match
    BY <1>9 DEF WriteNote, ReviewTypeOK, At
  <2>2. \A m \in Match : match'[m].by = match[m].by /\ match'[m].status = match[m].status
    BY <1>0, <1>9, <2>1 DEF WriteNote, Row
  <2>3. PICK l : Becomes(q, l) /\ l.step # "expiring"
    <3>1. [call[q] EXCEPT !.step = "deciding", !.filed = noted].step = "deciding"
      BY <1>0 DEF Local
    <3>. QED
      BY <1>9, <3>1, IdleTyped DEF WriteNote
  <2>4. GoesOn(q, l)
    BY <2>3, BecomesGoesOn
  <2>. QED
    BY <1>3, <1>4, <2>2, <2>3, <2>4 DEF ExpiryInv, At
<1>10. ASSUME NEW q \in Request, WriteStatus(q) PROVE ExpiryInv'
  <2>1. call[q].on \in Match
    BY <1>10 DEF WriteStatus, ReviewTypeOK, At
  <2>2. \A m \in Match : \/ match'[m].by = match[m].by /\ match'[m].status = match[m].status
                         \/ match'[m].by = "reviewer"
    BY <1>0, <1>10, <2>1 DEF WriteStatus, Decided, Row
  <2>3. GoesOn(q, Idle)
    BY <1>10, <2>1, OvertakesGoesOn DEF WriteStatus
  <2>. QED
    BY <1>3, <1>4, <2>2, <2>3, IdleTyped DEF ExpiryInv, At
<1>11. ASSUME NEW q \in Request, Expire(q) PROVE ExpiryInv'
  <2>1. PICK m \in call[q].rest :
            /\ match' = [match EXCEPT ![m] = Expired(@)]
            /\ Overtakes(q, Lists("expiring", call[q].rest \ {m}, call[q].late), m)
    BY <1>11 DEF Expire
  <2>2. call[q].rest \in SUBSET Match /\ m \in Match
    BY <2>1, LocalParts
  <2>3. \A k \in call[q].rest : k \in Match /\ OverFor(k)
    BY <1>11, <2>2 DEF ExpiryInv, Expire
  <2>4. \A k \in Match : \/ match'[k].by = match[k].by /\ match'[k].status = match[k].status
                         \/ match'[k].status = "opposition_deadline_passed" /\ OverFor(k)
    BY <1>0, <2>1, <2>2, <2>3 DEF Expired, Row
  <2>5. GoesOn(q, Lists("expiring", call[q].rest \ {m}, call[q].late))
    BY <2>1, <2>2, OvertakesGoesOn
  <2>6. Lists("expiring", call[q].rest \ {m}, call[q].late).rest = call[q].rest \ {m}
    BY DEF Lists
  <2>. QED
    BY <1>3, <1>4, <2>3, <2>4, <2>5, <2>6 DEF ExpiryInv, At
<1>12. ASSUME NEW q \in Request, NEW m \in Match, RequestAdvisor(q, m) PROVE ExpiryInv'
  <2>1. \A k \in Match : match'[k].by = match[k].by /\ match'[k].status = match[k].status
    BY <1>0, <1>12 DEF RequestAdvisor, Row
  <2>. QED
    BY <1>3, <1>5, <1>12, <2>1 DEF RequestAdvisor, ExpiryInv, At
<1>. QED
  BY <1>6, <1>7, <1>8, <1>9, <1>10, <1>11, <1>12, ReviewSteps

(***************************************************************************)
(* Notes: what is known of a match's notes, to its row, to a request about *)
(* to write them back or to one that files its reason, is on file or was   *)
(* overlapped by a note on file; and so it is in what a request that has   *)
(* read since will write back.                                             *)
(***************************************************************************)
HasNote(notes, i) == \E n \in notes : n.id = i

Knows(q, m, i) ==
    /\ call[q].on = m
    /\ \/ At(q, "noting") /\ HasNote(call[q].read.notes, i)
       \/ At(q, "deciding") /\ call[q].filed = i

Known(m, i) == HasNote(match[m].notes, i) \/ \E q \in Request : Knows(q, m, i)

NotesInv ==
    /\ \A m \in Match : \A i \in Nat : Known(m, i) =>
           i < noted /\ OnFileOrOverlapped(match[m].notes, i)
    /\ \A q \in Request : At(q, "noting") =>
           /\ call[q].since <= noted
           /\ \A i \in Nat : Known(call[q].on, i) /\ i < call[q].since =>
                  OnFileOrOverlapped(call[q].read.notes, i)
    /\ \A q \in Request : At(q, "deciding") /\ call[q].route = "reject" => call[q].filed \in Nat

\* A request that reads the notes, or none, learns no note that its match does not have.
ReadsNotes(l) ==
    /\ l.step = "noting" => l.on \in Match /\ l.read = match[l.on] /\ l.since = noted
    /\ l.step = "deciding" => l.filed = None /\ l.route # "reject"

LEMMA NotesLeft ==
    ASSUME ReviewTypeOK, NotesInv, noted' = noted,
           \A m \in Match : match'[m].notes = match[m].notes,
           \A p \in Request : Stands(p) \/ ReadsNotes(call'[p])
    PROVE  NotesInv'
<1>0. None \notin Nat /\ noted \in Nat
  BY ReviewAssumption DEF ReviewTypeOK
<1>1. ASSUME NEW m \in Match, NEW i \in Nat, Known(m, i)' PROVE Known(m, i)
  <2>1. CASE HasNote(match'[m].notes, i)
    BY <2>1 DEF Known
  <2>2. ASSUME NEW q \in Request, Knows(q, m, i)' PROVE Known(m, i)
    <3>1. CASE Stands(q)
      BY <2>2, <3>1 DEF Knows, Known, Stands, At
    <3>2. CASE ReadsNotes(call'[q])
      BY <1>0, <2>2, <3>2 DEF Knows, Known, ReadsNotes, At
    <3>. QED
      BY <3>1, <3>2
  <2>. QED
    BY <1>1, <2>1, <2>2 DEF Known
<1>2. \A m \in Match : \A i \in Nat : Known(m, i)' =>
          i < noted' /\ OnFileOrOverlapped(match'[m].notes, i)
  BY <1>1 DEF NotesInv
<1>3. ASSUME NEW q \in Request, call'[q].step = "noting"
      PROVE  /\ call'[q].since <= noted'
             /\ \A i \in Nat : Known(call[q].on, i)' /\ i < call'[q].since =>
                    OnFileOrOverlapped(call'[q].read.notes, i)
  <2>1. CASE Stands(q)
    <3>1. call[q].step = "noting" /\ call'[q].on = call[q].on /\ call[q].on \in Match
      BY <1>3, <2>1 DEF Stands, ReviewTypeOK
    <3>. QED
      BY <1>1, <2>1, <3>1 DEF NotesInv, Stands, At
  <2>2. CASE ReadsNotes(call'[q])
    <3>1. /\ call'[q].on \in Match /\ call'[q].read = match[call'[q].on] /\ call'[q].since = noted
      BY <1>3, <2>2 DEF ReadsNotes
    <3>. QED
      BY <1>0, <1>1, <3>1 DEF NotesInv
  <2>. QED
    BY <1>3, <2>1, <2>2
<1>4. ASSUME NEW q \in Request, call'[q].step = "deciding", call'[q].route = "reject"
      PROVE  call'[q].filed \in Nat
  BY <1>4 DEF NotesInv, ReadsNotes, Stands, At
<1>. QED
  BY <1>2, <1>3, <1>4 DEF NotesInv, At

\* The request writes all notes as it read them, and its own.
LEMMA NoteWritten ==
    ASSUME ReviewTypeOK, NotesInv, NEW q \in Request, WriteNote(q)
    PROVE  /\ NotesInv'
           /\ \A m \in Match : \A n \in match[m].notes : OnFileOrOverlapped(match'[m].notes, n.id)
<1>. DEFINE k == call[q].on
            n == [id |-> noted, since |-> call[q].since]
            notes == call[q].read.notes \cup {n}
<1>0. /\ None \notin Nat /\ noted \in Nat /\ match \in [Match -> Row] /\ call \in [Request -> Local]
      /\ k \in Match /\ At(q, "noting") /\ call[q].since \in Nat /\ call[q].since <= noted
  BY ReviewAssumption, LocalParts DEF ReviewTypeOK, WriteNote, NotesInv, At
<1>1. /\ match'[k].notes = notes /\ noted' = noted + 1
      /\ \A m \in Match \ {k} : match'[m] = match[m]
  BY <1>0 DEF WriteNote, Row
<1>2. /\ \A p \in Request \ {q} : call'[p] = call[p]
      /\ \/ call'[q].step = "deciding" /\ call'[q].on = k /\ call'[q].filed = noted
         \/ call'[q].step = "idle"
  <2>1. CASE Becomes(q, [call[q] EXCEPT !.step = "deciding", !.filed = noted])
    BY <1>0, <2>1 DEF Becomes, Local
  <2>2. CASE Becomes(q, Idle)
    BY <1>0, <2>2, IdleTyped DEF Becomes
  <2>. QED
    BY <2>1, <2>2 DEF WriteNote
<1>3. n \in notes /\ n.id = noted /\ n.since = call[q].since
  OBVIOUS
<1>. HIDE DEF n, notes
<1>4. ASSUME NEW i \in Nat, Known(k, i) PROVE OnFileOrOverlapped(notes, i)
  <2>1. CASE i < call[q].since
    <3>1. OnFileOrOverlapped(call[q].read.notes, i)
      BY <1>0, <1>4, <2>1 DEF NotesInv
    <3>. QED
      BY <3>1 DEF OnFileOrOverlapped, notes
  <2>2. CASE call[q].since <= i
    <3>1. i < noted
      BY <1>0, <1>4 DEF NotesInv
    <3>. QED
      BY <1>3, <2>2, <3>1 DEF OnFileOrOverlapped
  <2>. QED
    BY <1>0, <2>1, <2>2
<1>5. ASSUME NEW m \in Match, NEW i \in Nat, Known(m, i)'
      PROVE  Known(m, i) \/ (m = k /\ i = noted)
  <2>1. CASE HasNote(match'[m].notes, i)
    <3>1. CASE m = k
      <4>1. HasNote(call[q].read.notes, i) \/ i = noted
        BY <1>1, <1>3, <2>1, <3>1 DEF HasNote, notes
      <4>. QED
        BY <1>0, <3>1, <4>1 DEF Known, Knows
    <3>2. CASE m # k
      BY <1>1, <2>1, <3>2 DEF Known
    <3>. QED
      BY <3>1, <3>2
  <2>2. ASSUME NEW p \in Request, Knows(p, m, i)' PROVE Known(m, i) \/ (m = k /\ i = noted)
    <3>1. CASE p = q
      BY <1>2, <2>2, <3>1 DEF Knows, At
    <3>2. CASE p # q
      BY <1>2, <2>2, <3>2 DEF Knows, Known, At
    <3>. QED
      BY <3>1, <3>2
  <2>. QED
    BY <1>5, <2>1, <2>2 DEF Known
<1>6. ASSUME NEW m \in Match, NEW i \in Nat, Known(m, i)'
      PROVE  i < noted' /\ OnFileOrOverlapped(match'[m].notes, i)
  <2>1. CASE m = k /\ i = noted
    BY <1>0, <1>1, <1>3, <2>1 DEF OnFileOrOverlapped
  <2>2. CASE Known(m, i)
    <3>1. i < noted /\ OnFileOrOverlapped(match[m].notes, i)
      BY <2>2 DEF NotesInv
    <3>2. OnFileOrOverlapped(match'[m].notes, i)
      BY <1>1, <1>4, <2>2, <3>1
    <3>. QED
      BY <1>0, <1>1, <3>1, <3>2
  <2>. QED
    BY <1>5, <1>6, <2>1, <2>2
<1>7. ASSUME NEW p \in Request, call'[p].step = "noting"
      PROVE  /\ call'[p].since <= noted'
             /\ \A i \in Nat : Known(call[p].on, i)' /\ i < call'[p].since =>
                    OnFileOrOverlapped(call'[p].read.notes, i)
  <2>1. p # q /\ call'[p] = call[p]
    BY <1>2, <1>7
  <2>2. call[p].on \in Match /\ call[p].since \in Nat /\ call[p].since <= noted
    BY <1>7, <2>1, LocalParts DEF ReviewTypeOK, NotesInv, At
  <2>3. ASSUME NEW i \in Nat, Known(call[p].on, i)', i < call[p].since
        PROVE  OnFileOrOverlapped(call[p].read.notes, i)
    <3>1. i # noted
      BY <1>0, <2>2, <2>3
    <3>2. Known(call[p].on, i)
      BY <1>5, <2>1, <2>2, <2>3, <3>1
    <3>. QED
      BY <1>7, <2>1, <2>3, <3>2 DEF NotesInv, At
  <2>. QED
    BY <1>0, <1>1, <2>1, <2>2, <2>3
<1>8. ASSUME NEW p \in Request, call'[p].step = "deciding", call'[p].route = "reject"
      PROVE  call'[p].filed \in Nat
  BY <1>0, <1>2, <1>8 DEF NotesInv, At
<1>9. ASSUME NEW m \in Match, NEW x \in match[m].notes PROVE OnFileOrOverlapped(match'[m].notes, x.id)
  <2>1. x.id \in Nat
    BY <1>0, <1>9 DEF Row, Note
  <2>2. Known(m, x.id)
    BY DEF Known, HasNote
  <2>3. CASE m = k
    BY <1>1, <1>4, <2>1, <2>2, <2>3
  <2>4. CASE m # k
    BY <1>1, <2>1, <2>2, <2>4 DEF NotesInv
  <2>. QED
    BY <2>3, <2>4
<1>. QED
  BY <1>6, <1>7, <1>8, <1>9 DEF NotesInv, At

\* Every step keeps what is known of the notes, and the requests for an advisor.
LEMMA NotesStep ==
    ASSUME ReviewTypeOK, NotesInv, ReviewNext
    PROVE  /\ NotesInv'
           /\ \A m \in Match :
                  /\ \A n \in match[m].notes : OnFileOrOverlapped(match'[m].notes, n.id)
                  /\ match[m].advisor => match'[m].advisor
<1>. DEFINE Kept == \A m \in Match :
                        /\ \A n \in match[m].notes : OnFileOrOverlapped(match'[m].notes, n.id)
                        /\ match[m].advisor => match'[m].advisor
<1>0. /\ noted \in Nat /\ match \in [Match -> Row] /\ call \in [Request -> Local]
  BY DEF ReviewTypeOK
<1>1. ASSUME noted' = noted,
             \A m \in Match : /\ match'[m].notes = match[m].notes
                              /\ match[m].advisor => match'[m].advisor,
             \A p \in Request : Stands(p) \/ ReadsNotes(call'[p])
      PROVE  NotesInv' /\ Kept
  <2>1. NotesInv'
    BY <1>1, NotesLeft
  <2>2. Kept
    BY <1>1 DEF OnFileOrOverlapped
  <2>. QED
    BY <2>1, <2>2
<1>2. UNCHANGED call => \A p \in Request : Stands(p)
  BY DEF Stands
<1>3. CASE Tick
  BY <1>1, <1>2, <1>3 DEF Tick
<1>4. ASSUME NEW q \in Request, Reading(q) PROVE NotesInv' /\ Kept
  <2>1. PICK r \in ReviewRoutes, s \in OneStep, m \in Match, t \in Status \cup {None},
             late \in SUBSET Match : ReadShape(q, r, s, m, t, late)
    BY <1>4 DEF Reading
  <2>2. GoesOn(q, Reads(r, s, m, t, late)) /\ UNCHANGED <<match, noted>>
    BY <2>1, BecomesGoesOn DEF ReadShape
  <2>3. ReadsNotes(Reads(r, s, m, t, late))
    BY <2>1 DEF ReadsNotes, Reads, ReadShape
  <2>. QED
    BY <1>1, <2>2, <2>3 DEF GoesOn
<1>5. ASSUME NEW l, l.step \notin {"noting", "deciding"} PROVE ReadsNotes(l)
  BY <1>5 DEF ReadsNotes
<1>6. ASSUME NEW q \in Request, Going(q) PROVE NotesInv' /\ Kept
  <2>1. PICK s \in Listing, rest, late \in SUBSET Match : ListShape(q, s, rest, late)
    BY <1>6 DEF Going
  <2>2. GoesOn(q, Lists(s, rest, late)) /\ UNCHANGED <<match, noted>>
    BY <2>1, BecomesGoesOn DEF ListShape
  <2>3. Lists(s, rest, late).step \notin {"noting", "deciding"}
    BY DEF Lists, Listing
  <2>. QED
    BY <1>1, <1>5, <2>2, <2>3 DEF GoesOn
<1>7. ASSUME NEW q \in Request, WriteNote(q) PROVE NotesInv' /\ Kept
  <2>1. call[q].on \in Match
    BY <1>7 DEF WriteNote, ReviewTypeOK, At
  <2>2. \A m \in Match : match'[m].advisor = match[m].advisor
    BY <1>0, <1>7, <2>1 DEF WriteNote, Row
  <2>. QED
    BY <1>7, <2>2, NoteWritten
<1>8. ASSUME NEW q \in Request, WriteStatus(q) PROVE NotesInv' /\ Kept
  <2>1. call[q].on \in Match
    BY <1>8 DEF WriteStatus, ReviewTypeOK, At
  <2>2. /\ \A m \in Match : match'[m].notes = match[m].notes /\ match'[m].advisor = match[m].advisor
        /\ noted' = noted
    BY <1>0, <1>8, <2>1 DEF WriteStatus, Decided, Row
  <2>3. GoesOn(q, Idle)
    BY <1>8, <2>1, OvertakesGoesOn DEF WriteStatus
  <2>. QED
    BY <1>1, <1>5, <2>2, <2>3, IdleTyped DEF GoesOn
<1>9. ASSUME NEW q \in Request, Expire(q) PROVE NotesInv' /\ Kept
  <2>1. PICK m \in call[q].rest :
            /\ match' = [match EXCEPT ![m] = Expired(@)]
            /\ Overtakes(q, Lists("expiring", call[q].rest \ {m}, call[q].late), m)
    BY <1>9 DEF Expire
  <2>2. m \in Match /\ noted' = noted
    BY <1>9, <2>1, LocalParts DEF Expire
  <2>3. \A k \in Match : match'[k].notes = match[k].notes /\ match'[k].advisor = match[k].advisor
    BY <1>0, <2>1, <2>2 DEF Expired, Row
  <2>4. GoesOn(q, Lists("expiring", call[q].rest \ {m}, call[q].late))
    BY <2>1, <2>2, OvertakesGoesOn
  <2>5. Lists("expiring", call[q].rest \ {m}, call[q].late).step \notin {"noting", "deciding"}
    BY DEF Lists
  <2>. QED
    BY <1>1, <1>5, <2>2, <2>3, <2>4, <2>5 DEF GoesOn
<1>10. ASSUME NEW q \in Request, NEW m \in Match, RequestAdvisor(q, m) PROVE NotesInv' /\ Kept
  <2>1. \A k \in Match : /\ match'[k].notes = match[k].notes
                         /\ match[k].advisor => match'[k].advisor
    BY <1>0, <1>10 DEF RequestAdvisor, Row
  <2>. QED
    BY <1>1, <1>2, <1>10, <2>1 DEF RequestAdvisor
<1>. QED
  BY <1>3, <1>4, <1>6, <1>7, <1>8, <1>9, <1>10, ReviewSteps

(***************************************************************************)
(* Statuses: what a request judged still stands, unless the status was     *)
(* written since.                                                          *)
(***************************************************************************)
\* m is open as far as the request knows: on its way to a status nobody named, or listed.
Judges(q, m) ==
    \/ call[q].step \in OneStep /\ call[q].on = m /\ call[q].to # None /\ call[q].route # "status"
    \/ call[q].step \in Listing /\ m \in call[q].rest

JudgedInv ==
    /\ \A q \in Request, m \in Match :
           Judges(q, m) /\ m \notin call[q].late => match[m].status \notin Closed
    /\ \A q \in Request : At(q, "idle") => call[q].rest = {}

Overwritten(m) == <<match'[m].status, match'[m].by>> # <<match[m].status, match[m].by>>

\* What l judges is open, or was judged before by the same request.
JudgesOpen(q, l) ==
    \A m \in Match :
        /\ \/ l.step \in OneStep /\ l.on = m /\ l.to # None /\ l.route # "status"
           \/ l.step \in Listing /\ m \in l.rest
        /\ m \notin l.late
        => match'[m].status \notin Closed

LEMMA StatusStays ==
    ASSUME ReviewTypeOK, JudgedInv, NEW q \in Request, NEW l, GoesOn(q, l),
           JudgesOpen(q, l), l.step = "idle" => l.rest = {},
           \A m \in Match, p \in Request \ {q} :
               match'[m].status = match[m].status \/ At(p, "idle") \/ m \in call'[p].late
    PROVE  JudgedInv'
<1>1. ASSUME NEW p \in Request, NEW m \in Match, Judges(p, m)', m \notin call'[p].late
      PROVE  match'[m].status \notin Closed
  <2>1. CASE p = q
    BY <1>1, <2>1 DEF GoesOn, JudgesOpen, Judges
  <2>2. CASE p # q
    <3>1. Judges(p, m) /\ m \notin call[p].late
      BY <1>1, <2>2 DEF GoesOn, Stands, Judges
    <3>2. ~At(p, "idle")
      BY <3>1 DEF JudgedInv, Judges, At, OneStep
    <3>. QED
      BY <1>1, <2>2, <3>1, <3>2 DEF JudgedInv
  <2>. QED
    BY <2>1, <2>2
<1>2. ASSUME NEW p \in Request, call'[p].step = "idle" PROVE call'[p].rest = {}
  BY <1>2 DEF GoesOn, Stands, JudgedInv, At
<1>. QED
  BY <1>1, <1>2 DEF JudgedInv, At

\* What is written over a closed match was named, or judged before it was closed.
LEMMA JudgedStep ==
    ASSUME ReviewTypeOK, JudgedInv, ReviewNext
    PROVE  /\ JudgedInv'
           /\ \A m \in Match : match[m].status \in Closed /\ Overwritten(m) =>
                  \E q \in Request : Writes(q, m) /\ (call[q].route = "status" \/ m \in call[q].late)
<1>. DEFINE Stood == \A m \in Match : match[m].status \in Closed /\ Overwritten(m) =>
                  \E q \in Request : Writes(q, m) /\ (call[q].route = "status" \/ m \in call[q].late)
<1>0. /\ match \in [Match -> Row] /\ call \in [Request -> Local]
  BY DEF ReviewTypeOK
<1>1. (\A m \in Match : match'[m].status = match[m].status /\ match'[m].by = match[m].by) => Stood
  BY DEF Overwritten
<1>2. CASE UNCHANGED <<match, call>>
  BY <1>1, <1>2 DEF JudgedInv, Judges, At
<1>3. CASE Tick
  BY <1>2, <1>3 DEF Tick
<1>4. ASSUME NEW q \in Request, Reading(q) PROVE JudgedInv' /\ Stood
  <2>1. PICK r \in ReviewRoutes, s \in OneStep, m \in Match, t \in Status \cup {None},
             late \in SUBSET Match : ReadShape(q, r, s, m, t, late)
    BY <1>4 DEF Reading
  <2>. DEFINE l == Reads(r, s, m, t, late)
  <2>2. GoesOn(q, l) /\ match' = match
    BY <2>1, BecomesGoesOn DEF ReadShape
  <2>3. l.step = s /\ l.on = m /\ l.to = t /\ l.route = r /\ l.late = late
    BY DEF Reads
  <2>4. \/ r = "status" \/ t = None \/ match[m].status \notin Closed \/ m \in late
    BY <2>1 DEF ReadShape, JudgedInv, Judges, At, OneStep
  <2>. HIDE DEF l
  <2>5. JudgesOpen(q, l) /\ l.step # "idle"
    BY <2>2, <2>3, <2>4 DEF JudgesOpen, OneStep, Listing
  <2>6. JudgedInv'
    BY <2>2, <2>5, StatusStays
  <2>. QED
    BY <1>1, <2>2, <2>6
<1>5. ASSUME NEW q \in Request, Going(q) PROVE JudgedInv' /\ Stood
  <2>1. PICK s \in Listing, rest, late \in SUBSET Match : ListShape(q, s, rest, late)
    BY <1>5 DEF Going
  <2>. DEFINE l == Lists(s, rest, late)
  <2>2. GoesOn(q, l) /\ match' = match
    BY <2>1, BecomesGoesOn DEF ListShape
  <2>3. l.step = s /\ l.rest = rest /\ l.late = late
    BY DEF Lists
  <2>4. \A m \in rest : match[m].status \notin Closed \/ m \in late
    BY <2>1 DEF ListShape, JudgedInv, Judges, At, Listing, DeadlineEligible, ActiveMatch, Closed
  <2>5. s = "idle" => rest = {}
    BY <2>1 DEF ListShape
  <2>. HIDE DEF l
  <2>6. JudgesOpen(q, l)
    BY <2>2, <2>3, <2>4 DEF JudgesOpen, OneStep, Listing
  <2>7. JudgedInv'
    BY <2>2, <2>3, <2>5, <2>6, StatusStays
  <2>. QED
    BY <1>1, <2>2, <2>7
<1>6. ASSUME NEW q \in Request, WriteNote(q) PROVE JudgedInv' /\ Stood
  <2>1. call[q].on \in Match /\ call[q] \in Local /\ At(q, "noting")
    BY <1>0, <1>6 DEF WriteNote, ReviewTypeOK, At
  <2>2. \A m \in Match : match'[m].by = match[m].by /\ match'[m].status = match[m].status
    BY <1>0, <1>6, <2>1 DEF WriteNote, Row
  <2>3. CASE Becomes(q, Idle)
    <3>1. GoesOn(q, Idle)
      BY <2>3, BecomesGoesOn
    <3>2. JudgesOpen(q, Idle) /\ Idle.rest = {}
      BY DEF JudgesOpen, Idle, Lists, OneStep
    <3>. QED
      BY <1>1, <2>2, <3>1, <3>2, StatusStays
  <2>4. CASE Becomes(q, [call[q] EXCEPT !.step = "deciding", !.filed = noted])
    <3>. DEFINE l == [call[q] EXCEPT !.step = "deciding", !.filed = noted]
    <3>1. GoesOn(q, l)
      BY <2>4, BecomesGoesOn
    <3>2. /\ l.step = "deciding" /\ l.on = call[q].on /\ l.to = call[q].to
          /\ l.route = call[q].route /\ l.late = call[q].late
      BY <2>1 DEF Local
    <3>. HIDE DEF l
    <3>3. JudgesOpen(q, l)
      BY <2>1, <2>2, <3>2 DEF JudgesOpen, JudgedInv, Judges, OneStep, Listing, At
    <3>4. JudgedInv'
      BY <2>2, <3>1, <3>2, <3>3, StatusStays
    <3>. QED
      BY <1>1, <2>2, <3>4
  <2>. QED
    BY <1>6, <2>3, <2>4 DEF WriteNote
<1>7. ASSUME NEW q \in Request, WriteStatus(q) PROVE JudgedInv' /\ Stood
  <2>. DEFINE k == call[q].on
  <2>1. /\ k \in Match /\ call[q].to \in Status /\ At(q, "deciding")
        /\ match' = [match EXCEPT ![k] = Decided(q)]
    BY <1>7 DEF WriteStatus, ReviewTypeOK, At
  <2>2. \A m \in Match \ {k} : match'[m] = match[m]
    BY <1>0, <2>1
  <2>3. /\ GoesOn(q, Idle)
        /\ \A p \in Request \ {q} : ~At(p, "idle") => k \in call'[p].late
    BY <1>7, <2>1, OvertakesGoesOn DEF WriteStatus
  <2>4. JudgesOpen(q, Idle) /\ Idle.rest = {}
    BY DEF JudgesOpen, Idle, Lists, OneStep
  <2>5. JudgedInv'
    BY <2>2, <2>3, <2>4, StatusStays
  <2>6. ASSUME NEW m \in Match, match[m].status \in Closed, Overwritten(m)
        PROVE  Writes(q, m) /\ (call[q].route = "status" \/ m \in call[q].late)
    <3>1. m = k
      BY <2>2, <2>6 DEF Overwritten
    <3>2. call'[q].step = "idle" /\ match' # match
      BY <2>3, <2>6, IdleTyped DEF GoesOn, Overwritten
    <3>3. call[q].to # None
      BY <2>1, ReviewAssumption
    <3>. QED
      BY <2>1, <2>6, <3>1, <3>2, <3>3 DEF Writes, JudgedInv, Judges, At, OneStep
  <2>. QED
    BY <2>5, <2>6
<1>8. ASSUME NEW q \in Request, Expire(q) PROVE JudgedInv' /\ Stood
  <2>1. PICK k \in call[q].rest :
            /\ match' = [match EXCEPT ![k] = Expired(@)]
            /\ Overtakes(q, Lists("expiring", call[q].rest \ {k}, call[q].late), k)
    BY <1>8 DEF Expire
  <2>. DEFINE l == Lists("expiring", call[q].rest \ {k}, call[q].late)
  <2>2. k \in Match /\ At(q, "expiring")
    BY <1>8, <2>1, LocalParts DEF Expire
  <2>3. \A m \in Match \ {k} : match'[m] = match[m]
    BY <1>0, <2>1
  <2>4. /\ GoesOn(q, l)
        /\ \A p \in Request \ {q} : ~At(p, "idle") => k \in call'[p].late
    BY <2>1, <2>2, OvertakesGoesOn
  <2>5. l.step = "expiring" /\ l.rest = call[q].rest \ {k} /\ l.late = call[q].late
    BY DEF Lists
  <2>. HIDE DEF l
  <2>6. JudgesOpen(q, l)
    BY <2>2, <2>3, <2>5 DEF JudgesOpen, JudgedInv, Judges, At, OneStep, Listing
  <2>7. JudgedInv'
    BY <2>3, <2>4, <2>5, <2>6, StatusStays
  <2>8. ASSUME NEW m \in Match, match[m].status \in Closed, Overwritten(m)
        PROVE  Writes(q, m) /\ (call[q].route = "status" \/ m \in call[q].late)
    <3>1. m = k
      BY <2>3, <2>8 DEF Overwritten
    <3>2. call'[q].rest = call[q].rest \ {k}
      BY <2>4, <2>5 DEF GoesOn
    <3>. QED
      BY <2>1, <2>2, <2>8, <3>1, <3>2 DEF Writes, JudgedInv, Judges, At, Listing
  <2>. QED
    BY <2>7, <2>8
<1>9. ASSUME NEW q \in Request, NEW m \in Match, RequestAdvisor(q, m) PROVE JudgedInv' /\ Stood
  <2>1. /\ call' = call
        /\ \A k \in Match : match'[k].by = match[k].by /\ match'[k].status = match[k].status
    BY <1>0, <1>9 DEF RequestAdvisor, Row
  <2>. QED
    BY <1>1, <2>1 DEF JudgedInv, Judges, At
<1>. QED
  BY <1>3, <1>4, <1>5, <1>6, <1>7, <1>8, <1>9, ReviewSteps

(***************************************************************************)
(* The inductive invariant, and what it gives.                             *)
(***************************************************************************)
IInv == ReviewTypeOK /\ ExpiryInv /\ NotesInv /\ JudgedInv

LEMMA InitTyped == ReviewInit => ReviewTypeOK
  BY IdleTyped, FreshTyped DEF ReviewInit, ReviewTypeOK

LEMMA InitReview == ReviewInit => IInv
<1>. SUFFICES ASSUME ReviewInit PROVE IInv
  OBVIOUS
<1>1. \A q \in Request : call[q] = Idle
  BY DEF ReviewInit
<1>2. Idle.step = "idle" /\ Idle.rest = {}
  BY DEF Idle, Lists
<1>3. \A m \in Match : match[m].by = None /\ match[m].notes = {}
  BY DEF ReviewInit, Fresh
<1>4. ExpiryInv
  BY <1>1, <1>2, <1>3, ReviewAssumption DEF ExpiryInv, ExpiredOnlyWhenOver, At
<1>5. NotesInv
  BY <1>1, <1>2, <1>3 DEF NotesInv, Known, Knows, HasNote, At
<1>6. JudgedInv
  BY <1>1, <1>2 DEF JudgedInv, Judges, At, OneStep
<1>. QED
  BY <1>4, <1>5, <1>6, InitTyped DEF IInv

LEMMA StepKeepsIInv == IInv /\ [ReviewNext]_reviewVars => IInv'
<1>1. CASE IInv /\ ReviewNext
  BY <1>1, ReviewTypes, ExpiryStep, NotesStep, JudgedStep DEF IInv
<1>2. CASE IInv /\ UNCHANGED reviewVars
  BY <1>2 DEF reviewVars, IInv, ReviewTypeOK, ExpiryInv, ExpiredOnlyWhenOver, OverFor, Today,
              NotesInv, Known, Knows, JudgedInv, Judges, At
<1>. QED
  BY <1>1, <1>2

LEMMA Inductive == ReviewSpec => []IInv
  BY InitReview, StepKeepsIInv, PTL DEF ReviewSpec

\* Whatever overlaps with a view of deadlines, a match it expires was past its last day.
THEOREM ExpiriesAreDue == ReviewSpec => []ExpiredOnlyWhenOver
<1>1. IInv => ExpiredOnlyWhenOver
  BY DEF IInv, ExpiryInv
<1>. QED
  BY <1>1, Inductive, PTL

\* When a rejection takes effect its reason is on file, unless somebody's note overlapped
\* with it: however many write notes, and whatever fails.
THEOREM RejectionsAreReasoned == ReviewSpec => []RejectionReasoned
<1>1. IInv => RejectionReasoned
  <2>. SUFFICES ASSUME IInv, NEW q \in Request, At(q, "deciding"), call[q].route = "reject"
                PROVE  /\ call[q].filed # None
                       /\ OnFileOrOverlapped(match[call[q].on].notes, call[q].filed)
    BY DEF RejectionReasoned
  <2>1. call[q].on \in Match /\ call[q].filed \in Nat
    BY DEF IInv, ReviewTypeOK, NotesInv, At
  <2>2. Known(call[q].on, call[q].filed)
    BY DEF Known, Knows
  <2>. QED
    BY <2>1, <2>2, ReviewAssumption DEF IInv, NotesInv
<1>. QED
  BY <1>1, Inductive, PTL

\* However many requests write notes, decide and expire, a note is lost to nothing but one
\* that overlapped with it, and a request for an advisor never.
THEOREM NothingAnnotatedIsLost == ReviewSpec => AnnotationsKept
<1>1. IInv /\ [ReviewNext]_reviewVars => [\A m \in Match :
        /\ \A n \in match[m].notes : OnFileOrOverlapped(match'[m].notes, n.id)
        /\ match[m].advisor => match'[m].advisor]_reviewVars
  BY NotesStep DEF IInv
<1>. QED
  BY <1>1, Inductive, PTL DEF ReviewSpec, AnnotationsKept

\* A closed match is written over by what its reviewer names, or by a request that judged it
\* before it was closed, and by nothing else.
THEOREM ClosedMatchesStand == ReviewSpec => ClosedStands
<1>1. IInv /\ [ReviewNext]_reviewVars => [\A m \in Match :
        match[m].status \in Closed /\ <<match'[m].status, match'[m].by>> # <<match[m].status, match[m].by>> =>
            \E q \in Request : Writes(q, m) /\ (call[q].route = "status" \/ m \in call[q].late)]_reviewVars
  BY JudgedStep DEF IInv, Overwritten
<1>. QED
  BY <1>1, Inductive, PTL DEF ReviewSpec, ClosedStands

\* The three about decisions together.
THEOREM DecisionsHaveGround == ReviewSpec => DecisionsGrounded
<1> QED
  BY ExpiriesAreDue, RejectionsAreReasoned, ClosedMatchesStand, PTL DEF DecisionsGrounded
===============================================================================
