------------------------------ MODULE Recipients ------------------------------
(***************************************************************************)
(* Who is mailed about which watched trademark from which score on, in one *)
(* organization.  A recipient is mailed at once from its own threshold or  *)
(* gets a digest, never both.  A watch has a threshold of its own, below   *)
(* which a match is not shown; changing it is refused when it would pass   *)
(* the threshold of a recipient that covers the watch, unless an operator  *)
(* of the platform changes it, whose route does not consult the recipients. *)
(*                                                                         *)
(* These routes await the store between what they read and what they       *)
(* write: creating and patching a recipient take the list of active        *)
(* watches first, and a watch's settings are written after the recipients  *)
(* were consulted, or not.  Writers is the set of such calls that may      *)
(* overlap.  To recipients, customers and operators have the same routes.  *)
(***************************************************************************)
EXTENDS Integers, FiniteSets

CONSTANTS
    Watched,           \* ids for watched trademarks
    Addresses,         \* ids for recipients
    Writers,           \* calls in flight together
    WatchScore,        \* the threshold a new watch has, 25 in the code
    Scores,            \* bound: the thresholds customers ask for
    NewRecipients,     \* bound: bodies of POST /notification-recipients, after the schema
    Moves,             \* bound: the statuses watches are given
    RecipientPatches,  \* bound: bodies of PATCH /notification-recipients/:id
    Seats              \* the plan's maximum of recipients

NoScore   == -1        \* minScoreThreshold: null
NoCadence == "never"   \* digestCadence: null
Modes     == {"threshold", "digest"}
Cadences  == {"DAILY", "WEEKLY", "MONTHLY"}

ASSUME RecipientsAssumption ==
    /\ Scores \subseteq 0..100 /\ WatchScore \in 0..100 /\ Seats \in Nat
    /\ Moves \subseteq {"active", "paused", "archived"}
    /\ NewRecipients \subseteq [mode : Modes, cadence : Cadences \cup {NoCadence},
                                score : Scores \cup {NoScore}, all : BOOLEAN, ids : SUBSET Watched]
    /\ \A p \in RecipientPatches :
           /\ "mode" \in DOMAIN p => p.mode \in Modes
           /\ "cadence" \in DOMAIN p => p.cadence \in Cadences \cup {NoCadence}
           /\ "score" \in DOMAIN p => p.score \in Scores \cup {NoScore}
           /\ "active" \in DOMAIN p => p.active \in BOOLEAN
           /\ "ids" \in DOMAIN p => p.ids \subseteq Watched

VARIABLES
    watches,     \* watches[w]: status and minScoreThreshold of the record, for the ids that have one
    recipients,  \* recipients[r]: mode, cadence, score, active and ids, for the ids that have one
    deleted,     \* ids of deleted recipients, which no new one gets
    calls,       \* calls[q]: what the call still has to write
    stale        \* pairs <<q, r>>: r was written since q consulted the recipients

recipientVars == <<watches, recipients, deleted, calls, stale>>

NotWriting == [kind |-> "idle"]
Rest(q) == calls' = [calls EXCEPT ![q] = NotWriting]

RecipientsInit ==
    /\ watches = [w \in {} |-> NotWriting]
    /\ recipients = [r \in {} |-> NotWriting]
    /\ deleted = {}
    /\ calls = [q \in Writers |-> NotWriting]
    /\ stale = {}

ActiveIds == {w \in DOMAIN watches : watches[w].status = "active"}

With(f, x, v) == [y \in DOMAIN f \cup {x} |-> IF y = x THEN v ELSE f[y]]

(***************************************************************************)
(* A recipient's configuration (packages/domain/src/notification-thresholds *)
(* .ts): mode decides which of the other two counts, and the other is      *)
(* dropped.                                                                *)
(***************************************************************************)
Acceptable(mode, cadence, score) ==
    IF mode = "threshold" THEN score # NoScore ELSE cadence # NoCadence

Normalized(mode, cadence, score) ==
    [mode |-> mode,
     cadence |-> IF mode = "digest" THEN cadence ELSE NoCadence,
     score |-> IF mode = "threshold" THEN score ELSE NoScore]

\* The record of a recipient that is configured so.
Notifying(config, active, ids) ==
    [mode |-> config.mode, cadence |-> config.cadence, score |-> config.score,
     active |-> active, ids |-> ids]

\* No ids at all reads as every watch.
Covers(r, w) == recipients[r].ids = {} \/ w \in recipients[r].ids

\* Mutant: only recipients that name the watch count.
NamedFloors(w) ==
    {r \in DOMAIN recipients :
        recipients[r].active /\ recipients[r].mode = "threshold" /\ w \in recipients[r].ids}

\* The recipients whose threshold holds for the watch.
Floors(w) ==
    {r \in DOMAIN recipients :
        recipients[r].active /\ recipients[r].mode = "threshold" /\ Covers(r, w)}

Compatible(w, score) == \A r \in Floors(w) : score <= recipients[r].score

(***************************************************************************)
(* Watches.                                                                *)
(***************************************************************************)
WatchAdded(w) ==
    /\ w \notin DOMAIN watches
    /\ watches' = With(watches, w, [status |-> "active", score |-> WatchScore])
    /\ UNCHANGED <<recipients, deleted, calls, stale>>

\* POST /:id/pause, resume and archive.
WatchMoved(w, status) ==
    /\ w \in DOMAIN watches
    /\ watches' = [watches EXCEPT ![w].status = status]
    /\ UNCHANGED <<recipients, deleted, calls, stale>>

\* PATCH /:id/settings: the gate, and then the awaited write.
SettingsConsult(q, w, score) ==
    /\ calls[q] = NotWriting
    /\ IF Compatible(w, score)
       THEN calls' = [calls EXCEPT ![q] = [kind |-> "settings", on |-> w, score |-> score]]
       ELSE calls' = calls
    /\ UNCHANGED <<watches, recipients, deleted, stale>>

\* PATCH /platform/organizations/:organizationId/watches/:watchId/settings: no gate.
OperatorSettings(q, w, score) ==
    /\ calls[q] = NotWriting
    /\ calls' = [calls EXCEPT ![q] = [kind |-> "override", on |-> w, score |-> score]]
    /\ UNCHANGED <<watches, recipients, deleted, stale>>

\* An id without record is not found, and a failing settings table is passed over in silence.
SettingsWritten(q) ==
    /\ calls[q].kind \in {"settings", "override"}
    /\ \/ /\ calls[q].on \in DOMAIN watches
          /\ watches' = [watches EXCEPT ![calls[q].on].score = calls[q].score]
       \/ watches' = watches
    /\ Rest(q)
    /\ stale' = {s \in stale : s[1] # q}
    /\ UNCHANGED <<recipients, deleted>>

(***************************************************************************)
(* Recipients.                                                             *)
(***************************************************************************)
\* The store holds r's record anew; whoever consulted it before has not seen that.
Put(r, record) ==
    /\ recipients' = With(recipients, r, record)
    /\ stale' = stale \cup {<<q, r>> : q \in {p \in Writers : calls[p].kind = "settings"}}

\* POST /notification-recipients: the configuration, and the awaited list of watches.
CreateLists(q, input) ==
    /\ calls[q] = NotWriting
    /\ IF Acceptable(input.mode, input.cadence, input.score)
       THEN calls' = [calls EXCEPT ![q] =
                        [kind |-> "create", input |-> input, active |-> ActiveIds]]
       ELSE calls' = calls
    /\ UNCHANGED <<watches, recipients, deleted, stale>>

CreateWrites(q) ==
    /\ calls[q].kind = "create"
    /\ LET input == calls[q].input
           useAll == input.all /\ input.ids = {}
       IN  IF Cardinality(DOMAIN recipients) < Seats
           THEN \E r \in Addresses \ (DOMAIN recipients \cup deleted) :
                    Put(r, Notifying(Normalized(input.mode, input.cadence, input.score), TRUE,
                                     IF useAll THEN calls[q].active ELSE input.ids))
           ELSE UNCHANGED <<recipients, stale>>
    /\ Rest(q)
    /\ UNCHANGED <<watches, deleted>>

\* PATCH /notification-recipients/:id: the awaited list of watches.
UpdateLists(q, r, patch) ==
    /\ calls[q] = NotWriting
    /\ calls' = [calls EXCEPT ![q] =
                    [kind |-> "update", on |-> r, patch |-> patch, active |-> ActiveIds]]
    /\ UNCHANGED <<watches, recipients, deleted, stale>>

Or(patch, field, old) == IF field \in DOMAIN patch THEN patch[field] ELSE old

NextIds(call, old) ==
    IF "ids" \in DOMAIN call.patch THEN call.patch.ids
    ELSE IF Or(call.patch, "all", FALSE) THEN call.active ELSE old.ids

Updated(call, old) ==
    Notifying(Normalized(Or(call.patch, "mode", old.mode), Or(call.patch, "cadence", old.cadence),
                         Or(call.patch, "score", old.score)),
              Or(call.patch, "active", old.active), NextIds(call, old))

\* The record is the one that is there now: it may be gone, or changed since the list was asked for.
UpdateWrites(q) ==
    /\ calls[q].kind = "update"
    /\ LET r == calls[q].on
           patch == calls[q].patch
           Fits(old) == Acceptable(Or(patch, "mode", old.mode), Or(patch, "cadence", old.cadence),
                                   Or(patch, "score", old.score))
       IN  IF r \in DOMAIN recipients /\ Fits(recipients[r])
           THEN Put(r, Updated(calls[q], recipients[r]))
           ELSE UNCHANGED <<recipients, stale>>
    /\ Rest(q)
    /\ UNCHANGED <<watches, deleted>>

DeleteRecipient(r) ==
    /\ r \in DOMAIN recipients
    /\ recipients' = [x \in DOMAIN recipients \ {r} |-> recipients[x]]
    /\ deleted' = deleted \cup {r}
    /\ UNCHANGED <<watches, calls, stale>>

RecipientsNext ==
    \/ \E w \in Watched :
        \/ WatchAdded(w)
        \/ \E status \in Moves : WatchMoved(w, status)
    \/ \E q \in Writers :
        \/ \E w \in Watched, score \in Scores : SettingsConsult(q, w, score) \/ OperatorSettings(q, w, score)
        \/ SettingsWritten(q)
        \/ \E input \in NewRecipients : CreateLists(q, input)
        \/ CreateWrites(q)
        \/ \E r \in Addresses, patch \in RecipientPatches : UpdateLists(q, r, patch)
        \/ UpdateWrites(q)
    \/ \E r \in Addresses : DeleteRecipient(r)

RecipientsSpec == RecipientsInit /\ [][RecipientsNext]_recipientVars

(***************************************************************************)
(* Properties.                                                             *)
(***************************************************************************)
\* Every recipient has one way of being told: a threshold or a cadence, whatever partial
\* patches made of it (normalizeRecipientNotifyConfig).
RecipientsTypeOK ==
    /\ \A w \in DOMAIN watches :
        /\ watches[w].status \in {"active", "paused", "archived"}
        /\ watches[w].score \in Scores \cup {WatchScore}
    /\ \A r \in DOMAIN recipients :
        /\ (recipients[r].mode = "threshold") = (recipients[r].score # NoScore)
        /\ (recipients[r].mode = "digest") = (recipients[r].cadence # NoCadence)
        /\ recipients[r].ids \subseteq Watched

\* A watch's threshold passes that of a recipient covering it only through a change of that
\* recipient, a new watch, an operator's write to that watch, or a customer's whose gate had
\* not seen the recipient (the gate of PATCH /watched-trademarks/:id/settings and what
\* overlaps it).
Above(w, r) ==
    /\ w \in DOMAIN watches /\ r \in DOMAIN recipients
    /\ recipients[r].active /\ recipients[r].mode = "threshold"
    /\ recipients[r].ids = {} \/ w \in recipients[r].ids
    /\ watches[w].score > recipients[r].score

SettingsRespectRecipients ==
    [][\A w \in Watched, r \in Addresses :
        Above(w, r)' /\ ~Above(w, r) =>
            \/ w \notin DOMAIN watches
            \/ recipients'[r] # IF r \in DOMAIN recipients THEN recipients[r] ELSE NotWriting
            \/ \E q \in Writers : <<q, r>> \in stale \ stale'
            \/ \E q \in Writers :
                   calls[q].kind = "override" /\ calls[q].on = w /\ calls'[q] = NotWriting]_recipientVars

\* Overlapping patches of one recipient compose: a field changes only by a call whose patch
\* says so, and a recipient that was deleted meanwhile is not brought back by a late patch
\* (PATCH reads the record again after its await).
PatchesCompose ==
    [][\A r \in Addresses :
        /\ r \in DOMAIN recipients' \ DOMAIN recipients =>
            \E q \in Writers : calls[q].kind = "create" /\ calls'[q] = NotWriting
        /\ r \in DOMAIN recipients /\ r \in DOMAIN recipients'
           /\ recipients'[r].active # recipients[r].active =>
            \E q \in Writers :
                /\ calls[q].kind = "update" /\ calls[q].on = r /\ calls'[q] = NotWriting
                /\ "active" \in DOMAIN calls[q].patch]_recipientVars

\* Settings written across awaits keep to what their gates saw, and to what was asked.
SettingsKept == SettingsRespectRecipients /\ PatchesCompose
===============================================================================
