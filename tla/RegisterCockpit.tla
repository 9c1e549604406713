--------------------------- MODULE RegisterCockpit ---------------------------
(***************************************************************************)
(* The operators' cockpit of the registers (routes/platform.ts): which     *)
(* register is offered to customers, what its connection test last said,   *)
(* the syncs an operator starts by hand, and the audit trail of it all.    *)
(* A handler that awaits something, the connector or the watches of an     *)
(* organization, is a request other handlers overtake.                     *)
(*                                                                         *)
(* Data kept: which fields of an entry a patch names, the outcome of a     *)
(* test, whether a key is configured.  Left out: names, prices, log lines. *)
(***************************************************************************)
EXTENDS Naturals, Sequences, FiniteSets, Bags

CONSTANTS
    Registers,      \* codes of the catalogue
    Boip,           \* the one register with a connector in the API
    Organizations,  \* the organizations, in the order the store lists them
    Requests,       \* handlers that may be under way at once
    CatalogPatches, \* bound: the patches of the catalogue, with their register
    MaxJobs,        \* bound on the jobs
    MaxTrail        \* bound on the audit trail when a request starts

States == {"live", "coming_soon", "disabled"}
Unset == "unset"

ASSUME CockpitAssumption ==
    /\ Boip \in Registers
    /\ MaxJobs \in Nat /\ MaxTrail \in Nat
    /\ CatalogPatches \subseteq
           [register : Registers, status : States \cup {Unset}, watch : {"on", "off", Unset}]

VARIABLES
    catalog,        \* per register: connectorStatus and enabledForWatch
    cockpit,        \* per register: the runtime row of the cockpit store
    jobs,           \* the processing jobs operators started
    importRow,      \* the import sync row of BOIP
    requests,       \* the handlers under way
    watching,       \* pairs of an organization and a register it watches
    told,           \* pairs of an organization and a register it was told of
    trail,          \* the audit log, as a bag
    broken          \* the patches whose loop failed half way

cockpitVars == <<catalog, cockpit, jobs, importRow, requests, watching, told,
                 trail, broken>>

Answers == {"ok", "unavailable"}
Orgs == {Organizations[i] : i \in DOMAIN Organizations}
Idle == [at |-> "idle"]

CockpitTypeOK ==
    /\ catalog \in [Registers -> [status : States, watch : BOOLEAN]]
    /\ cockpit \in [Registers ->
           [probe : Answers \cup {"never", "configuration_required"},
            key : BOOLEAN, reason : BOOLEAN, fetched : BOOLEAN]]
    /\ \A j \in DOMAIN jobs :
           /\ jobs[j].status \in {"pending", "succeeded", "failed"}
           /\ jobs[j].attempt \in Nat \ {0}
    /\ importRow \in {"never", "succeeded", "failed"}
    /\ \A q \in Requests : requests[q].at \in {"idle", "probe", "fetch", "tell"}
    /\ watching \subseteq Orgs \X Registers /\ told \subseteq Orgs \X Registers
    /\ IsABag(trail)
    /\ broken \subseteq Registers

\* BOIP starts live, offered and tested (app.ts records a good test when the
\* process starts); the others are to come and untested.
CockpitInit ==
    /\ catalog = [r \in Registers |->
           IF r = Boip THEN [status |-> "live", watch |-> TRUE]
                       ELSE [status |-> "coming_soon", watch |-> FALSE]]
    /\ cockpit = [r \in Registers |->
           [probe |-> IF r = Boip THEN "ok" ELSE "never",
            key |-> FALSE, reason |-> FALSE, fetched |-> FALSE]]
    /\ jobs = <<>>
    /\ importRow = "never"
    /\ requests = [q \in Requests |-> Idle]
    /\ watching \in SUBSET (Orgs \X {Boip})
    /\ told = {}
    /\ trail = EmptyBag
    /\ broken = {}

-----------------------------------------------------------------------------
Recorded(action, detail, target) ==
    trail' = trail (+) SetToBag({<<action, detail, target>>})

\* How often a bag holds an entry.
Copies(entry, bag) == IF BagIn(entry, bag) THEN bag[entry] ELSE 0
Entries(action, detail, target) == Copies(<<action, detail, target>>, trail)

Sets(q, state) == requests' = [requests EXCEPT ![q] = state]
Starts(q) == requests[q] = Idle /\ BagCardinality(trail) < MaxTrail

\* canEnableRegisterForCustomers and isRegisterMonitoringOk.
CanEnable(status, r) == status = "live" /\ cockpit[r].probe = "ok"
MonitoringOk(r) == CanEnable(catalog[r].status, r) /\ catalog[r].watch

\* POST /probe for a register without connector in the API: no call is made, a
\* configured key is a good answer.
ProbeUnconnected(q, r) ==
    LET answer == IF cockpit[r].key THEN "ok" ELSE "configuration_required" IN
    /\ Starts(q) /\ r # Boip
    /\ cockpit' = [cockpit EXCEPT ![r].probe = answer]
    /\ Recorded("probed", answer, r)
    /\ UNCHANGED <<catalog, jobs, importRow, requests, watching, told, broken>>

\* POST /probe for BOIP, up to the await of healthCheck.
ProbeStarts(q) ==
    /\ Starts(q)
    /\ Sets(q, [at |-> "probe"])
    /\ UNCHANGED <<catalog, cockpit, jobs, importRow, watching, told, trail, broken>>

\* The office answers: recordProbe and the audit entry.
ProbeReturns(q, answer) ==
    /\ requests[q].at = "probe"
    /\ cockpit' = [cockpit EXCEPT ![Boip].probe = answer]
    /\ Recorded("probed", answer, Boip)
    /\ Sets(q, Idle)
    /\ UNCHANGED <<catalog, jobs, importRow, watching, told, broken>>

\* POST /credentials: a key is stored (upsertApiKey) or its flag and secret
\* taken away (setCredentialConfigured).  The last test stays.
SetCredentials(q, r, key) ==
    /\ Starts(q)
    /\ cockpit' = [cockpit EXCEPT ![r].key = key]
    /\ Recorded("credentials_updated", "done", r)
    /\ UNCHANGED <<catalog, jobs, importRow, requests, watching, told, broken>>

-----------------------------------------------------------------------------
\* A patch names a status and a switch, or leaves them as they are; disabled
\* also switches off, unless the patch names the switch itself.
Patched(entry, patch) ==
    [status |-> IF patch.status = Unset THEN entry.status ELSE patch.status,
     watch |-> CASE patch.watch # Unset -> patch.watch = "on"
                 [] patch.watch = Unset /\ patch.status = "disabled" -> FALSE
                 [] OTHER -> entry.watch]

\* The gate of a patch that switches the register on: the status it names
\* counts only when it is live.
Gate(r, patch) ==
    patch.watch = "on" =>
        CanEnable(IF patch.status = "live" THEN "live" ELSE catalog[r].status, r)

SwitchesOff(patch) == patch.status = "disabled" \/ patch.watch = "off"

\* disabled sets the reason; live and coming_soon clear it, unless the same
\* patch switches the register off.
ReasonAfter(r, patch) ==
    CASE patch.status = "disabled" -> TRUE
      [] patch.status \in {"live", "coming_soon"} /\ ~SwitchesOff(patch) -> FALSE
      [] OTHER -> cockpit[r].reason

\* What the store answers of the next organization in a loop.
Affected(left, r) == left # <<>> /\ <<Head(left), r>> \in watching

\* PATCH /register-catalog/:code: the entry and the reason at once; a patch
\* that switches off then reads the watches of one organization after another,
\* any other is audited at once.
PatchCatalog(q, r, patch) ==
    /\ Starts(q) /\ Gate(r, patch)
    /\ catalog' = [catalog EXCEPT ![r] = Patched(catalog[r], patch)]
    /\ cockpit' = [cockpit EXCEPT ![r].reason = ReasonAfter(r, patch)]
    /\ IF SwitchesOff(patch)
       THEN /\ Sets(q, [at |-> "tell", register |-> r, left |-> Organizations,
                        affected |-> Affected(Organizations, r)])
            /\ UNCHANGED trail
       ELSE Recorded("catalog_updated", "done", r) /\ UNCHANGED requests
    /\ UNCHANGED <<jobs, importRow, watching, told, broken>>

\* Mutant: the first organization that watches ends the loop.
TellFirst(q) ==
    LET r == requests[q].register
        left == requests[q].left
    IN
    /\ requests[q].at = "tell"
    /\ told' = IF requests[q].affected THEN told \cup {<<Head(left), r>>} ELSE told
    /\ IF Len(left) = 1 \/ requests[q].affected
       THEN Sets(q, Idle) /\ Recorded("catalog_updated", "done", r)
       ELSE /\ Sets(q, [requests[q] EXCEPT !.left = Tail(left),
                                           !.affected = Affected(Tail(left), r)])
            /\ UNCHANGED trail
    /\ UNCHANGED <<catalog, cockpit, jobs, importRow, watching, broken>>

\* One round of the loop: the organization whose watches were read is told,
\* and those of the next are read; after the last the patch is audited.
TellNext(q) ==
    LET r == requests[q].register
        left == requests[q].left
    IN
    /\ requests[q].at = "tell"
    /\ told' = IF requests[q].affected THEN told \cup {<<Head(left), r>>} ELSE told
    /\ IF Len(left) = 1
       THEN Sets(q, Idle) /\ Recorded("catalog_updated", "done", r)
       ELSE /\ Sets(q, [requests[q] EXCEPT !.left = Tail(left),
                                           !.affected = Affected(Tail(left), r)])
            /\ UNCHANGED trail
    /\ UNCHANGED <<catalog, cockpit, jobs, importRow, watching, broken>>

\* The store fails to list the watches: the handler ends there.
TellFails(q) ==
    /\ requests[q].at = "tell"
    /\ Sets(q, Idle)
    /\ broken' = broken \cup {requests[q].register}
    /\ UNCHANGED <<catalog, cockpit, jobs, importRow, watching, told, trail>>

-----------------------------------------------------------------------------
\* POST /register-connectors/BOIP/sync up to the await of fetchPublications.
SyncStarts(q) ==
    /\ Starts(q) /\ MonitoringOk(Boip) /\ Len(jobs) < MaxJobs
    /\ jobs' = Append(jobs, [status |-> "pending", attempt |-> 1])
    /\ Sets(q, [at |-> "fetch", job |-> Len(jobs) + 1])
    /\ UNCHANGED <<catalog, cockpit, importRow, watching, told, trail, broken>>

\* finishJob, recordImportSync and the audit entry, with the outcome of the
\* fetch; a good one is also noted in the cockpit (recordFetch).
SyncReturns(q, outcome) ==
    /\ requests[q].at = "fetch"
    /\ jobs' = [jobs EXCEPT ![requests[q].job].status = outcome]
    /\ cockpit' = [cockpit EXCEPT ![Boip].fetched = @ \/ outcome = "succeeded"]
    /\ importRow' = outcome
    /\ Recorded("sync", outcome, requests[q].job)
    /\ Sets(q, Idle)
    /\ UNCHANGED <<catalog, watching, told, broken>>

\* Mutant: any job may be retried.
RetryAny(q, j) ==
    /\ Starts(q)
    /\ jobs' = [jobs EXCEPT ![j].status = "pending", ![j].attempt = @ + 1]
    /\ Recorded("job_retried", "done", j)
    /\ UNCHANGED <<catalog, cockpit, importRow, requests, watching, told, broken>>

\* POST /jobs/:id/retry: a failed job is pending again.
RetryJob(q, j) ==
    /\ Starts(q) /\ jobs[j].status = "failed"
    /\ jobs' = [jobs EXCEPT ![j].status = "pending", ![j].attempt = @ + 1]
    /\ Recorded("job_retried", "done", j)
    /\ UNCHANGED <<catalog, cockpit, importRow, requests, watching, told, broken>>

\* Outside the cockpit: a customer starts or ends a watch.
WatchChanges(o, r) ==
    /\ watching' = IF <<o, r>> \in watching THEN watching \ {<<o, r>>}
                                            ELSE watching \cup {<<o, r>>}
    /\ UNCHANGED <<catalog, cockpit, jobs, importRow, requests, told, trail, broken>>

CockpitProgress(q) ==
    \/ \E answer \in Answers : ProbeReturns(q, answer)
    \/ TellNext(q)
    \/ \E outcome \in {"succeeded", "failed"} : SyncReturns(q, outcome)

CockpitNext ==
    \/ \E q \in Requests, r \in Registers :
           \/ ProbeUnconnected(q, r)
           \/ \E key \in BOOLEAN : SetCredentials(q, r, key)
    \/ \E q \in Requests, patch \in CatalogPatches : PatchCatalog(q, patch.register, patch)
    \/ \E q \in Requests : ProbeStarts(q) \/ SyncStarts(q) \/ TellFails(q)
    \/ \E q \in Requests : CockpitProgress(q)
    \/ \E q \in Requests, j \in DOMAIN jobs : RetryJob(q, j)
    \/ \E o \in Orgs : WatchChanges(o, Boip)

CockpitSpec == CockpitInit /\ [][CockpitNext]_cockpitVars

-----------------------------------------------------------------------------
UnderWay(r) == \E q \in Requests : requests[q].at = "tell" /\ requests[q].register = r

\* The audit trail explains the catalogue and the cockpit: a register that is
\* no longer as it began was patched by an entry of the trail, unless its patch
\* is still telling customers or broke off there (platform.ts:490-534), and the
\* test result and the key it shows were each recorded.
NothingChangesUnseen ==
    \A r \in Registers :
        /\ \/ Entries("catalog_updated", "done", r) > 0 \/ UnderWay(r) \/ r \in broken
           \/ catalog[r] = [status |-> IF r = Boip THEN "live" ELSE "coming_soon",
                            watch |-> r = Boip]
        /\ \/ cockpit[r].probe = IF r = Boip THEN "ok" ELSE "never"
           \/ Entries("probed", cockpit[r].probe, r) > 0
        /\ cockpit[r].key => Entries("credentials_updated", "done", r) > 0

\* Every sync is accounted for once, whatever overtook it: a job has one audit
\* entry of its outcome as soon as its fetch is back and none before, a retry
\* for each further attempt, and the import row and the fetch of the cockpit
\* show the outcome of some finished job.
SyncsAccounted ==
    /\ \A j \in DOMAIN jobs :
           LET good == Entries("sync", "succeeded", j)
               bad == Entries("sync", "failed", j)
               open == \E q \in Requests : requests[q] = [at |-> "fetch", job |-> j]
           IN
           /\ good + bad = IF open THEN 0 ELSE 1
           /\ jobs[j].status = "succeeded" => good = 1
           /\ jobs[j].status = "failed" => bad = 1 /\ jobs[j].attempt = 1
           /\ jobs[j].attempt = 1 + Entries("job_retried", "done", j)
    /\ importRow \in {"succeeded", "failed"} =>
           \E j \in DOMAIN jobs : Entries("sync", importRow, j) = 1
    /\ cockpit[Boip].fetched <=>
           \E j \in DOMAIN jobs : Entries("sync", "succeeded", j) = 1

\* A register that is disabled says why, through every order of patches of the
\* catalogue and of the cockpit's own row.
DisabledHasReason ==
    \A r \in Registers : catalog[r].status = "disabled" => cockpit[r].reason

\* An organization the loop still has to come to, and that watches the register
\* customers watch and goes on watching it, is told that it is off, unless the
\* loop breaks off (platform.ts:490-523).
DisabledIsTold ==
    \A i \in 2..Len(Organizations) :
        LET o == Organizations[i] IN
        (/\ <<o, Boip>> \in watching
         /\ \E q \in Requests :
                /\ requests[q].at = "tell" /\ requests[q].register = Boip
                /\ \E k \in 2..Len(requests[q].left) : requests[q].left[k] = o)
            ~> (<<o, Boip>> \in told \/ <<o, Boip>> \notin watching \/ Boip \in broken)

\* What the operators' cockpit shows can be accounted for, whatever overlapped or broke off.
CockpitAccounted == NothingChangesUnseen /\ SyncsAccounted /\ DisabledHasReason
=============================================================================
