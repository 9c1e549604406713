--------------------------- MODULE OrganizationProofs ---------------------------
(***************************************************************************)
(* What an organization's parts promise, for every number of members,      *)
(* threads, recipients, requests and registers: each section strengthens   *)
(* the properties of one module to an invariant of its steps.  The last    *)
(* one puts the parts together.                                            *)
(***************************************************************************)
EXTENDS MCOrganization, MatchReviewProofs, SequenceTheorems, FiniteSetTheorems, TLAPS

--------------------------------------------------------------------------------
(***************************************************************************)
(* Members.  An organization always keeps an administrator: the guards     *)
(* count the administrators of the state they run in, so a step that takes *)
(* one away leaves another.                                                *)
(***************************************************************************)

MembersInv == MembersTypeOK /\ AdminRemains

\* When an administrator is not the last, there is another one.
LEMMA AnotherAdmin ==
    ASSUME MembersTypeOK, NEW m \in Admins, ~LastAdmin
    PROVE  \E n \in Member \ {m} : IsAdminRole(role[n])
<1>1. IsFiniteSet(Admins)
  BY MembersAssumption, FS_Subset DEF Admins
<1>2. SUFFICES ASSUME Admins \subseteq {m} PROVE FALSE
  BY DEF Admins
<1>3. Admins = {m}
  BY <1>2
<1>4. Cardinality(Admins) = 1
  BY <1>3, FS_Singleton
<1>. QED
  BY <1>4 DEF LastAdmin

LEMMA MembersStart == MembersInit => MembersInv
  BY MembersAssumption DEF MembersInit, MembersInv, MembersTypeOK, AdminRemains, Roles, IsAdminRole

LEMMA MembersStep == MembersInv /\ [MembersNext]_role => MembersInv'
<1>. SUFFICES ASSUME MembersInv, [MembersNext]_role PROVE MembersInv'
  OBVIOUS
<1>1. CASE UNCHANGED role
  BY <1>1 DEF MembersInv, MembersTypeOK, AdminRemains
<1>2. ASSUME NEW m \in Member, NEW actorRole \in ActorRoles, NEW next \in NextRoles,
             CreateMember(m, next, actorRole)
      PROVE  MembersInv'
  <2>1. MembersTypeOK'
    BY <1>2 DEF MembersInv, MembersTypeOK, CreateMember, NextRoles, Roles
  <2>2. PICK k \in Member : IsAdminRole(role[k])
    BY DEF MembersInv, AdminRemains
  <2>3. k # m
    BY <1>2, <2>2, MembersAssumption DEF CreateMember, IsAdminRole, Roles
  <2>. QED
    BY <1>2, <2>1, <2>2, <2>3 DEF MembersInv, MembersTypeOK, AdminRemains, CreateMember
<1>3. ASSUME NEW m \in Member, NEW actorRole \in ActorRoles, NEW next \in NextRoles,
             UpdateMember(m, next, actorRole)
      PROVE  MembersInv'
  <2>1. MembersTypeOK'
    BY <1>3 DEF MembersInv, MembersTypeOK, UpdateMember, NextRoles, Roles
  <2>2. CASE IsAdminRole(next)
    BY <1>3, <2>1, <2>2 DEF MembersInv, MembersTypeOK, AdminRemains, UpdateMember
  <2>3. CASE ~IsAdminRole(next) /\ ~IsAdminRole(role[m])
    BY <1>3, <2>1, <2>3 DEF MembersInv, MembersTypeOK, AdminRemains, UpdateMember
  <2>4. CASE ~IsAdminRole(next) /\ IsAdminRole(role[m])
    <3>1. m \in Admins /\ ~LastAdmin
      BY <1>3, <2>4 DEF UpdateMember, ChangeAllowed, Admins
    <3>2. PICK n \in Member \ {m} : IsAdminRole(role[n])
      BY <3>1, AnotherAdmin DEF MembersInv
    <3>. QED
      BY <1>3, <2>1, <3>2 DEF MembersInv, MembersTypeOK, AdminRemains, UpdateMember
  <2>. QED
    BY <2>2, <2>3, <2>4
<1>4. ASSUME NEW m \in Member, NEW actorRole \in ActorRoles, NEW actor \in Member \cup {Outsider},
             RemoveMember(m, actorRole, actor)
      PROVE  MembersInv'
  <2>1. MembersTypeOK'
    BY <1>4 DEF MembersInv, MembersTypeOK, RemoveMember
  <2>2. CASE ~IsAdminRole(role[m])
    BY <1>4, <2>1, <2>2 DEF MembersInv, MembersTypeOK, AdminRemains, RemoveMember
  <2>3. CASE IsAdminRole(role[m])
    <3>1. m \in Admins /\ ~LastAdmin
      BY <1>4, <2>3 DEF RemoveMember, RemovalAllowed, Admins
    <3>2. PICK n \in Member \ {m} : IsAdminRole(role[n])
      BY <3>1, AnotherAdmin DEF MembersInv
    <3>. QED
      BY <1>4, <2>1, <3>2 DEF MembersInv, MembersTypeOK, AdminRemains, RemoveMember
  <2>. QED
    BY <2>2, <2>3
<1>. QED
  BY <1>1, <1>2, <1>3, <1>4 DEF MembersNext

LEMMA MembersInvariant == MembersSpec => []MembersInv
  BY MembersStart, MembersStep, PTL DEF MembersSpec

\* Whatever sequence of calls is made, by whomever, some member may still manage
\* the organization.
THEOREM AnAdminRemains == MembersSpec => []AdminRemains
<1>1. MembersInv => AdminRemains
  BY DEF MembersInv
<1>. QED
  BY <1>1, MembersInvariant, PTL

\* What a step may do to an owner.
OwnerStep == \A m \in Member :
    /\ role[m] = "owner" => role'[m] \in {"owner", NoRole}
    /\ role[m] = "owner" /\ role'[m] = NoRole => \E n \in Member \ {m} : IsAdminRole(role'[n])
    /\ role'[m] = "owner" => role[m] = "owner"

LEMMA NextOwnerStep == MembersInv /\ [MembersNext]_role => [OwnerStep]_role
<1>. SUFFICES ASSUME MembersInv, MembersNext PROVE OwnerStep
  OBVIOUS
<1>1. ASSUME NEW m \in Member, NEW actorRole \in ActorRoles, NEW next \in NextRoles,
             CreateMember(m, next, actorRole)
      PROVE  OwnerStep
  BY <1>1, MembersAssumption DEF MembersInv, MembersTypeOK, OwnerStep, CreateMember, NextRoles, Roles
<1>2. ASSUME NEW m \in Member, NEW actorRole \in ActorRoles, NEW next \in NextRoles,
             UpdateMember(m, next, actorRole)
      PROVE  OwnerStep
  BY <1>2, MembersAssumption DEF MembersInv, MembersTypeOK, OwnerStep, UpdateMember, ChangeAllowed, NextRoles, Roles
<1>3. ASSUME NEW m \in Member, NEW actorRole \in ActorRoles, NEW actor \in Member \cup {Outsider},
             RemoveMember(m, actorRole, actor)
      PROVE  OwnerStep
  <2>1. CASE role[m] # "owner"
    BY <1>3, <2>1, MembersAssumption DEF MembersInv, MembersTypeOK, OwnerStep, RemoveMember, Roles
  <2>2. CASE role[m] = "owner"
    <3>1. m \in Admins /\ ~LastAdmin
      BY <1>3, <2>2 DEF RemoveMember, RemovalAllowed, Admins, IsAdminRole
    <3>2. PICK n \in Member \ {m} : IsAdminRole(role[n])
      BY <3>1, AnotherAdmin DEF MembersInv
    <3>3. \A k \in Member \ {m} : role'[k] = role[k]
      BY <1>3 DEF MembersInv, MembersTypeOK, RemoveMember
    <3>4. role'[m] = NoRole
      BY <1>3 DEF MembersInv, MembersTypeOK, RemoveMember
    <3>. QED
      BY <3>2, <3>3, <3>4, MembersAssumption DEF OwnerStep, Roles
  <2>. QED
    BY <2>1, <2>2
<1>. QED
  BY <1>1, <1>2, <1>3 DEF MembersNext

\* An owner keeps its role until it leaves, and leaves another administrator behind.
THEOREM OwnersLeaveOnly == MembersSpec => OwnerLeavesOnly
<1>1. MembersInv /\ [MembersNext]_role => [\A m \in Member :
        /\ role[m] = "owner" => role'[m] \in {"owner", NoRole}
        /\ role[m] = "owner" /\ role'[m] = NoRole => \E n \in Member \ {m} : IsAdminRole(role'[n])
        /\ role'[m] = "owner" => role[m] = "owner"]_role
  BY NextOwnerStep DEF OwnerStep
<1>. QED
  BY <1>1, MembersInvariant, PTL DEF MembersSpec, OwnerLeavesOnly

--------------------------------------------------------------------------------
(***************************************************************************)
(* Conversations.  What is said is its writer's: a message is from the one *)
(* participant that stands for its writer in its thread.                   *)
(***************************************************************************)

Notice == [tenant : Tenants, read : BOOLEAN]
Author == [side : Sides, user : Users \cup Operators, tenant : Tenants]
Said == [thread : Nat, from : Nat, author : Author]

\* Every participant is in a thread that is there, and every message has both.
TalkInv ==
    /\ threads \in Seq(Tenants) /\ participants \in Seq(Participant)
    /\ messages \in Seq(Said) /\ notices \in Seq(Notice)
    /\ \A k \in DOMAIN participants : participants[k].thread \in DOMAIN threads
    /\ \A i \in DOMAIN messages :
           /\ messages[i].from \in DOMAIN participants
           /\ messages[i].thread \in DOMAIN threads
    /\ TalkAttributed

\* Who stands for the author in thread t.
Standing(t, author) ==
    {k \in DOMAIN participants :
        /\ participants[k].thread = t /\ participants[k].side = author.side
        /\ author.side = "customer_user" => participants[k].user = author.user}

\* A message in a thread that is there, or is made with it, is attributed.
LEMMA SaysKeeps ==
    ASSUME TalkInv, NEW t \in DOMAIN threads', NEW author \in Author,
           threads' \in Seq(Tenants), DOMAIN threads \subseteq DOMAIN threads',
           \A s \in DOMAIN threads : threads'[s] = threads[s],
           threads'[t] = author.tenant,
           Says(t, Standing(t, author), author), notices' = notices
    PROVE  TalkInv'
<1> DEFINE own == Standing(t, author)
           new == [thread |-> t, side |-> author.side, user |-> author.user]
           from == IF own = {} THEN Len(participants) + 1
                   ELSE CHOOSE k \in own : \A j \in own : k <= j
           text == [thread |-> t, author |-> author, from |-> from]
<1>1. /\ participants' = IF own = {} THEN Append(participants, new) ELSE participants
      /\ messages' = Append(messages, text)
  BY DEF Says
<1>2. /\ threads \in Seq(Tenants) /\ participants \in Seq(Participant) /\ messages \in Seq(Said)
      /\ t \in Nat /\ author.side \in Sides /\ author.user \in Users \cup Operators
      /\ author.tenant \in Tenants
  BY DEF TalkInv, Author
<1>3. own \subseteq DOMAIN participants
      /\ \A j, k \in own : j = k
  BY <1>2 DEF TalkInv, TalkAttributed, OneParticipantEach, Standing, Sides, Participant
<1>4. \A k \in own : /\ participants[k].thread = t /\ participants[k].side = author.side
                     /\ author.side = "customer_user" => participants[k].user = author.user
  BY DEF Standing
<1>5. /\ new \in Participant /\ new.thread = t /\ new.side = author.side /\ new.user = author.user
  BY <1>2 DEF Participant
<1> HIDE DEF new
<1>6. /\ participants' \in Seq(Participant) /\ DOMAIN participants \subseteq DOMAIN participants'
      /\ \A k \in DOMAIN participants : participants'[k] = participants[k]
  BY <1>1, <1>2, <1>5
<1>7. /\ from \in DOMAIN participants' /\ from \in Nat
      /\ participants'[from].thread = t /\ participants'[from].side = author.side
      /\ author.side = "customer_user" => participants'[from].user = author.user
  <2>1. CASE own = {}
    BY <1>1, <1>2, <1>5, <2>1
  <2>2. CASE own # {}
    <3>1. PICK k \in own : TRUE
      BY <2>2
    <3>2. k \in Nat /\ own = {k}
      BY <1>2, <1>3, <3>1
    <3>3. from \in own
      BY <2>2, <3>2
    <3> QED
      BY <1>1, <1>2, <1>3, <1>4, <2>2, <3>3
  <2> QED
    BY <2>1, <2>2
<1>8. \A k \in DOMAIN participants' : k \in DOMAIN participants \/ (own = {} /\ participants'[k] = new)
  BY <1>1, <1>2
<1>9. OneParticipantEach'
  <2> SUFFICES ASSUME NEW j \in DOMAIN participants', NEW k \in DOMAIN participants',
                      participants'[j].thread = participants'[k].thread,
                      participants'[j].side = participants'[k].side,
                      \/ participants'[j].side = "platform_operator"
                      \/ participants'[j].user = participants'[k].user
               PROVE  j = k
    BY DEF OneParticipantEach
  <2>1. CASE j \in DOMAIN participants /\ k \in DOMAIN participants
    BY <1>6, <2>1 DEF TalkInv, TalkAttributed, OneParticipantEach
  <2>2. CASE j \notin DOMAIN participants /\ k \notin DOMAIN participants
    BY <1>1, <1>2, <2>2
  <2>3. CASE j \in DOMAIN participants /\ k \notin DOMAIN participants
    <3>1. own = {} /\ participants'[k] = new /\ participants'[j] = participants[j]
      BY <1>6, <1>8, <2>3
    <3>2. /\ participants[j].thread = t /\ participants[j].side = author.side
          /\ author.side = "platform_operator" \/ participants[j].user = author.user
      BY <1>5, <3>1
    <3>3. j \in own
      BY <2>3, <3>2 DEF Standing
    <3> QED
      BY <3>1, <3>3
  <2>4. CASE k \in DOMAIN participants /\ j \notin DOMAIN participants
    <3>1. own = {} /\ participants'[j] = new /\ participants'[k] = participants[k]
      BY <1>6, <1>8, <2>4
    <3>2. /\ participants[k].thread = t /\ participants[k].side = author.side
          /\ author.side = "platform_operator" \/ participants[k].user = author.user
      BY <1>5, <3>1
    <3>3. k \in own
      BY <2>4, <3>2 DEF Standing
    <3> QED
      BY <3>1, <3>3
  <2> QED
    BY <2>1, <2>2, <2>3, <2>4
<1> HIDE DEF own, from
<1>10. /\ text \in Said /\ text.thread = t /\ text.author = author /\ text.from = from
  BY <1>2, <1>7 DEF Said
<1> HIDE DEF text
<1>11. /\ messages' \in Seq(Said)
       /\ \A i \in DOMAIN messages' :
             \/ i \in DOMAIN messages /\ messages'[i] = messages[i]
             \/ messages'[i] = text
  BY <1>1, <1>2, <1>10
<1>12. \A k \in DOMAIN participants' : participants'[k].thread \in DOMAIN threads'
  BY <1>5, <1>6, <1>8 DEF TalkInv
<1>13. \A i \in DOMAIN messages' :
          /\ messages'[i].from \in DOMAIN participants'
          /\ messages'[i].thread \in DOMAIN threads'
  BY <1>6, <1>7, <1>10, <1>11 DEF TalkInv
<1>14. MessagesAttributed'
  <2> SUFFICES ASSUME NEW i \in DOMAIN messages'
               PROVE  LET m == messages'[i]
                          f == participants'[m.from]
                      IN  /\ f.thread = m.thread /\ f.side = m.author.side
                          /\ threads'[m.thread] = m.author.tenant
                          /\ m.author.side = "customer_user" => f.user = m.author.user
    BY DEF MessagesAttributed
  <2>1. CASE messages'[i] = text
    BY <1>7, <1>10, <2>1
  <2>2. CASE i \in DOMAIN messages /\ messages'[i] = messages[i]
    <3>1. messages[i].from \in DOMAIN participants /\ messages[i].thread \in DOMAIN threads
      BY <2>2 DEF TalkInv
    <3>2. LET m == messages[i]
              f == participants[m.from]
          IN  /\ f.thread = m.thread /\ f.side = m.author.side
              /\ threads[m.thread] = m.author.tenant
              /\ m.author.side = "customer_user" => f.user = m.author.user
      BY <2>2 DEF TalkInv, TalkAttributed, MessagesAttributed
    <3>3. participants'[messages[i].from] = participants[messages[i].from]
          /\ threads'[messages[i].thread] = threads[messages[i].thread]
      BY <1>6, <3>1
    <3> QED
      BY <2>2, <3>2, <3>3
  <2> QED
    BY <1>11, <2>1, <2>2
<1> QED
  BY <1>6, <1>9, <1>11, <1>12, <1>13, <1>14 DEF TalkInv, TalkAttributed

LEMMA TalkStep == TalkInv /\ [TalkNext]_talkVars => TalkInv'
<1> SUFFICES ASSUME TalkInv, [TalkNext]_talkVars PROVE TalkInv'
  OBVIOUS
<1>1. CASE UNCHANGED talkVars
  BY <1>1 DEF talkVars, TalkInv, TalkAttributed, MessagesAttributed, OneParticipantEach
<1>2. ASSUME NEW o \in Tenants, NEW u \in Users, CreateThread(o, u) PROVE TalkInv'
  <2> DEFINE t == Len(threads) + 1
             author == Customer(o, u)
  <2>1. /\ threads' = Append(threads, o) /\ Says(t, {}, author) /\ notices' = notices
    BY <1>2 DEF CreateThread
  <2>2. author \in Author /\ author.tenant = o
    BY DEF Customer, Author, Sides
  <2>3. /\ threads' \in Seq(Tenants) /\ t \in DOMAIN threads' /\ threads'[t] = o
        /\ DOMAIN threads \subseteq DOMAIN threads' /\ t \notin DOMAIN threads
        /\ \A s \in DOMAIN threads : threads'[s] = threads[s]
    BY <2>1 DEF TalkInv
  <2> HIDE DEF t, author
  <2>4. Standing(t, author) = {}
    BY <2>3 DEF Standing, TalkInv
  <2> QED
    BY <2>1, <2>2, <2>3, <2>4, SaysKeeps
<1>3. ASSUME NEW o \in Tenants, NEW t \in DOMAIN threads, NEW u \in Users, AddMessage(o, t, u)
      PROVE  TalkInv'
  <2> DEFINE author == Customer(o, u)
  <2>1. author \in Author /\ author.tenant = o /\ author.side = "customer_user" /\ author.user = u
    BY DEF Customer, Author, Sides
  <2>2. /\ threads[t] = o /\ Says(t, CustomerParticipant(t, u), author)
        /\ UNCHANGED <<threads, notices>>
    BY <1>3 DEF AddMessage
  <2> HIDE DEF author
  <2>3. CustomerParticipant(t, u) = Standing(t, author)
    BY <2>1 DEF CustomerParticipant, Standing
  <2> QED
    BY <2>1, <2>2, <2>3, SaysKeeps DEF TalkInv
<1>4. ASSUME NEW t \in DOMAIN threads, NEW u \in Operators, AddPlatformMessage(t, u)
      PROVE  TalkInv'
  <2> DEFINE author == [side |-> "platform_operator", user |-> u, tenant |-> threads[t]]
  <2>1. /\ author \in Author /\ author.tenant = threads[t] /\ author.side = "platform_operator"
    BY DEF Author, Sides, TalkInv
  <2>2. /\ Says(t, OperatorParticipant(t, u), author) /\ UNCHANGED <<threads, notices>>
    BY <1>4 DEF AddPlatformMessage
  <2> HIDE DEF author
  <2>3. OperatorParticipant(t, u) = Standing(t, author)
    BY <2>1 DEF OperatorParticipant, Standing
  <2> QED
    BY <2>1, <2>2, <2>3, SaysKeeps DEF TalkInv
<1>5. ASSUME NEW o \in Tenants, SendNotice(o) PROVE TalkInv'
  <2>1. notices' \in Seq(Notice)
    BY <1>5 DEF SendNotice, TalkInv, Notice
  <2> QED
    BY <1>5, <2>1 DEF SendNotice, TalkInv, TalkAttributed, MessagesAttributed, OneParticipantEach
<1>6. ASSUME NEW o \in Tenants, NEW n \in DOMAIN notices, ReadNotice(o, n) PROVE TalkInv'
  <2>1. notices' \in Seq(Notice)
    <3> DEFINE next == [notices[n] EXCEPT !.read = TRUE]
    <3>1. /\ notices' = [notices EXCEPT ![n].read = TRUE]
          /\ notices \in Seq(Notice)
      BY <1>6 DEF ReadNotice, TalkInv
    <3>2. next \in Notice
      <4>1. notices[n] \in Notice
        BY <1>6, <3>1
      <4> QED
        BY <4>1 DEF Notice
    <3>3. notices' = [notices EXCEPT ![n] = next]
      BY <3>1, Zenon
    <3> HIDE DEF next
    <3>4. n \in DOMAIN notices /\ notices \in Seq(Notice)
      BY <1>6, <3>1
    <3> QED
      BY <3>2, <3>3, <3>4
  <2> QED
    BY <1>6, <2>1 DEF ReadNotice, TalkInv, TalkAttributed, MessagesAttributed, OneParticipantEach
<1> QED
  BY <1>1, <1>2, <1>3, <1>4, <1>5, <1>6 DEF TalkNext

LEMMA TalkStart == TalkInit => TalkInv
  BY DEF TalkInit, TalkInv, TalkAttributed, MessagesAttributed, OneParticipantEach

LEMMA TalkInvariant == TalkSpec => []TalkInv
  BY TalkStart, TalkStep, PTL DEF TalkSpec

\* Who wrote a message is among the participants that are there.
LEMMA TalkTyped == TalkInv => TalkTypeOK
<1> SUFFICES ASSUME TalkInv PROVE TalkTypeOK
  OBVIOUS
<1>1. /\ messages \in Seq(Said) /\ participants \in Seq(Participant)
      /\ \A i \in DOMAIN messages : messages[i].from \in 1..Len(participants)
  BY DEF TalkInv
<1>2. \A i \in 1..Len(messages) : messages[i] \in Message
  <2>1. ASSUME NEW i \in 1..Len(messages) PROVE messages[i] \in Message
    <3>1. messages[i] \in Said /\ messages[i].from \in 1..Len(participants)
      BY <1>1
    <3> QED
      BY <3>1 DEF Said, Author, Message
  <2> QED
    BY <2>1
<1>3. messages \in Seq(Message)
  BY <1>1, <1>2
<1> QED
  BY <1>3 DEF TalkInv, TalkTypeOK, Notice

--------------------------------------------------------------------------------
(***************************************************************************)
(* Recipients.  A gate that was passed holds until the score is written,   *)
(* but for the recipients written since, and a patch changes what it says  *)
(* of the record that is there.                                            *)
(***************************************************************************)

WatchRecord == [status : {"active", "paused", "archived"}, score : Scores \cup {WatchScore}]
RecipientRecord ==
    [mode : Modes, cadence : Cadences \cup {NoCadence}, score : Scores \cup {NoScore},
     active : BOOLEAN, ids : SUBSET Watched]

\* Every recipient has one way of being told.
OneWay(rec) == Acceptable(rec.mode, rec.cadence, rec.score)
                  /\ rec = Notifying(Normalized(rec.mode, rec.cadence, rec.score),
                                        rec.active, rec.ids)

\* What a call that awaits something knows.
CallOK(waiting) ==
    /\ waiting.kind \in {"idle", "settings", "override", "create", "update"}
    /\ waiting.kind \in {"settings", "override"} => waiting.score \in Scores
    /\ waiting.kind = "create" => waiting.input \in NewRecipients /\ waiting.active \subseteq Watched
                               /\ Acceptable(waiting.input.mode, waiting.input.cadence, waiting.input.score)
    /\ waiting.kind = "update" => waiting.patch \in RecipientPatches /\ waiting.active \subseteq Watched

\* Whose threshold holds for a watch, and is below a score asked for it.
Refuses(recs, r, w, score) ==
    /\ r \in DOMAIN recs /\ recs[r].active /\ recs[r].mode = "threshold"
    /\ recs[r].ids = {} \/ w \in recs[r].ids
    /\ recs[r].score < score

\* A gate that was passed still holds, but for recipients written since.
GatesHold ==
    \A q \in Writers : calls[q].kind = "settings" =>
        \A r \in Addresses :
            Refuses(recipients, r, calls[q].on, calls[q].score) => <<q, r>> \in stale

RecipientsInv ==
    /\ DOMAIN watches \subseteq Watched /\ \A w \in DOMAIN watches : watches[w] \in WatchRecord
    /\ DOMAIN recipients \subseteq Addresses
    /\ \A r \in DOMAIN recipients : recipients[r] \in RecipientRecord /\ OneWay(recipients[r])
    /\ DOMAIN calls = Writers /\ \A q \in Writers : CallOK(calls[q])
    /\ GatesHold

-------------------------------------------------------------------------------
LEMMA ScoresAreInt ==
    ASSUME RecipientsAssumption
    PROVE  Scores \subseteq Int /\ Scores \cup {NoScore} \subseteq Int
<1>1. Scores \subseteq 0..100
  BY RecipientsAssumption DEF RecipientsAssumption
<1>2. \A n \in 0..100 : n \in Int
  OBVIOUS
<1>3. NoScore \in Int
  BY DEF NoScore
<1> QED
  BY <1>1, <1>2, <1>3

LEMMA RestFacts ==
    ASSUME NEW q \in Writers, DOMAIN calls = Writers, Rest(q)
    PROVE  /\ DOMAIN calls' = Writers /\ calls'[q] = NotWriting /\ calls'[q].kind = "idle"
           /\ \A p \in Writers \ {q} : calls'[p] = calls[p]
  BY DEF Rest, NotWriting

\* A configuration that is acceptable is kept to what belongs to its mode.
LEMMA NotifyingIs ==
    ASSUME RecipientsAssumption, NEW mode \in Modes, NEW cadence \in Cadences \cup {NoCadence},
           NEW score \in Scores \cup {NoScore}, NEW on \in BOOLEAN, NEW ids \in SUBSET Watched,
           Acceptable(mode, cadence, score)
    PROVE  LET rec == Notifying(Normalized(mode, cadence, score), on, ids)
           IN  rec \in RecipientRecord /\ OneWay(rec) /\ rec.active = on
<1> DEFINE rec == Notifying(Normalized(mode, cadence, score), on, ids)
<1>1. /\ rec = [mode |-> mode, cadence |-> IF mode = "digest" THEN cadence ELSE NoCadence,
                   score |-> IF mode = "threshold" THEN score ELSE NoScore,
                   active |-> on, ids |-> ids]
  BY DEF Notifying, Normalized
<1>2. /\ rec.mode = mode /\ rec.active = on /\ rec.ids = ids
      /\ rec.cadence = IF mode = "digest" THEN cadence ELSE NoCadence
      /\ rec.score = IF mode = "threshold" THEN score ELSE NoScore
  BY <1>1
<1>3. rec \in RecipientRecord
  BY <1>1 DEF RecipientRecord
<1> HIDE DEF rec
<1>4. Acceptable(rec.mode, rec.cadence, rec.score)
  BY <1>2 DEF Acceptable, Modes
<1>5. Notifying(Normalized(rec.mode, rec.cadence, rec.score), rec.active, rec.ids)
          = [mode |-> mode, cadence |-> IF mode = "digest" THEN cadence ELSE NoCadence,
             score |-> IF mode = "threshold" THEN score ELSE NoScore,
             active |-> on, ids |-> ids]
  BY <1>2 DEF Notifying, Normalized
<1> QED
  BY <1>1, <1>2, <1>3, <1>4, <1>5 DEF OneWay, rec

LEMMA OneWayIs ==
    ASSUME RecipientsAssumption, NEW rec \in RecipientRecord, OneWay(rec)
    PROVE  /\ (rec.mode = "threshold") = (rec.score # NoScore)
           /\ (rec.mode = "digest") = (rec.cadence # NoCadence)
<1>1. /\ rec.cadence = IF rec.mode = "digest" THEN rec.cadence ELSE NoCadence
      /\ rec.score = IF rec.mode = "threshold" THEN rec.score ELSE NoScore
  BY DEF OneWay, Notifying, Normalized
<1>2. rec.mode \in {"threshold", "digest"}
  BY DEF RecipientRecord, Modes
<1> QED
  BY <1>1, <1>2 DEF OneWay, Acceptable

LEMMA InvTyped == RecipientsAssumption /\ RecipientsInv => RecipientsTypeOK
  BY OneWayIs DEF RecipientsInv, RecipientsTypeOK, WatchRecord, RecipientRecord

\* What a patch makes of a recipient, if it fits.
LEMMA UpdatedIs ==
    ASSUME RecipientsAssumption, NEW old \in RecipientRecord, NEW waiting, CallOK(waiting),
           waiting.kind = "update",
           Acceptable(Or(waiting.patch, "mode", old.mode), Or(waiting.patch, "cadence", old.cadence),
                      Or(waiting.patch, "score", old.score))
    PROVE  /\ Updated(waiting, old) \in RecipientRecord /\ OneWay(Updated(waiting, old))
           /\ Updated(waiting, old).active # old.active => "active" \in DOMAIN waiting.patch
<1> DEFINE mode == Or(waiting.patch, "mode", old.mode)
           cadence == Or(waiting.patch, "cadence", old.cadence)
           score == Or(waiting.patch, "score", old.score)
           on == Or(waiting.patch, "active", old.active)
           ids == NextIds(waiting, old)
<1>1. waiting.patch \in RecipientPatches /\ waiting.active \subseteq Watched
  BY DEF CallOK
<1>2. /\ old.mode \in Modes /\ old.cadence \in Cadences \cup {NoCadence}
      /\ old.score \in Scores \cup {NoScore} /\ old.active \in BOOLEAN /\ old.ids \subseteq Watched
  BY DEF RecipientRecord
<1>3. mode \in Modes /\ cadence \in Cadences \cup {NoCadence} /\ score \in Scores \cup {NoScore}
  BY <1>1, <1>2, RecipientsAssumption DEF RecipientsAssumption, Or
<1>4. on \in BOOLEAN
  BY <1>1, <1>2, RecipientsAssumption DEF RecipientsAssumption, Or
<1>5. ids \subseteq Watched
  BY <1>1, <1>2, RecipientsAssumption DEF RecipientsAssumption, NextIds
<1>6. Updated(waiting, old) = Notifying(Normalized(mode, cadence, score), on, ids)
  BY DEF Updated
<1>7. on # old.active => "active" \in DOMAIN waiting.patch
  BY DEF Or
<1> HIDE DEF mode, cadence, score, on, ids
<1>8. Acceptable(mode, cadence, score)
  BY DEF mode, cadence, score
<1> QED
  BY <1>3, <1>4, <1>5, <1>6, <1>7, <1>8, NotifyingIs

-------------------------------------------------------------------------------
\* A recipient is written: whoever consulted the recipients before has not seen that.
LEMMA PutKeeps ==
    ASSUME RecipientsAssumption, RecipientsInv, NEW q \in Writers, NEW r \in Addresses,
           NEW rec \in RecipientRecord, OneWay(rec), Put(r, rec), Rest(q),
           calls[q].kind # "settings", UNCHANGED <<watches>>
    PROVE  RecipientsInv'
<1>1. /\ DOMAIN recipients' = DOMAIN recipients \cup {r} /\ recipients'[r] = rec
      /\ \A x \in DOMAIN recipients \ {r} : recipients'[x] = recipients[x]
      /\ stale' = stale \cup {<<p, r>> : p \in {p \in Writers : calls[p].kind = "settings"}}
  BY DEF Put, With
<1>2. /\ DOMAIN calls' = Writers /\ calls'[q].kind = "idle"
      /\ \A p \in Writers \ {q} : calls'[p] = calls[p]
  BY RestFacts DEF RecipientsInv
<1>3. GatesHold'
  <2> SUFFICES ASSUME NEW p \in Writers, calls'[p].kind = "settings", NEW x \in Addresses,
                      Refuses(recipients', x, calls'[p].on, calls'[p].score)
               PROVE  <<p, x>> \in stale'
    BY DEF GatesHold
  <2>1. p # q /\ calls'[p] = calls[p] /\ calls[p].kind = "settings"
    BY <1>2
  <2>2. CASE x = r
    BY <1>1, <2>1, <2>2
  <2>3. CASE x # r
    <3>1. Refuses(recipients, x, calls[p].on, calls[p].score)
      BY <1>1, <2>1, <2>3 DEF Refuses
    <3> QED
      BY <1>1, <2>1, <3>1 DEF RecipientsInv, GatesHold
  <2> QED
    BY <2>2, <2>3
<1>4. \A p \in Writers : CallOK(calls'[p])
  BY <1>2 DEF RecipientsInv, CallOK
<1> QED
  BY <1>1, <1>2, <1>3, <1>4 DEF RecipientsInv

\* What a step may do to the recipients, and what of that SettingsKept allows.
RespectStep ==
    \A w \in Watched, r \in Addresses :
        Above(w, r)' /\ ~Above(w, r) =>
            \/ w \notin DOMAIN watches
            \/ recipients'[r] # IF r \in DOMAIN recipients THEN recipients[r] ELSE NotWriting
            \/ \E q \in Writers : <<q, r>> \in stale \ stale'
            \/ \E q \in Writers :
                   calls[q].kind = "override" /\ calls[q].on = w /\ calls'[q] = NotWriting

ComposeStep ==
    \A r \in Addresses :
        /\ r \in DOMAIN recipients' \ DOMAIN recipients =>
            \E q \in Writers : calls[q].kind = "create" /\ calls'[q] = NotWriting
        /\ r \in DOMAIN recipients /\ r \in DOMAIN recipients'
           /\ recipients'[r].active # recipients[r].active =>
            \E q \in Writers :
                /\ calls[q].kind = "update" /\ calls[q].on = r /\ calls'[q] = NotWriting
                /\ "active" \in DOMAIN calls[q].patch

\* A watch passes a recipient only by a score of its own, or by a change of the recipient.
LEMMA ScoresTell ==
    ASSUME \A w \in DOMAIN watches : w \in DOMAIN watches' => watches'[w].score = watches[w].score,
           \A r \in DOMAIN recipients' : recipients'[r] # NotWriting
    PROVE  RespectStep
<1> SUFFICES ASSUME NEW w \in Watched, NEW r \in Addresses, Above(w, r)', ~Above(w, r),
                    w \in DOMAIN watches
             PROVE  recipients'[r] # IF r \in DOMAIN recipients THEN recipients[r] ELSE NotWriting
  BY DEF RespectStep
<1>1. r \in DOMAIN recipients' /\ w \in DOMAIN watches'
  BY DEF Above
<1>2. CASE r \in DOMAIN recipients
  BY <1>1, <1>2 DEF Above
<1>3. CASE r \notin DOMAIN recipients
  BY <1>1, <1>3
<1> QED
  BY <1>2, <1>3

LEMMA RecordIsThere ==
    ASSUME NEW rec \in RecipientRecord
    PROVE  rec # NotWriting
<1>1. "mode" \in DOMAIN rec
  BY DEF RecipientRecord
<1>2. "mode" \notin DOMAIN NotWriting
  BY DEF NotWriting
<1> QED
  BY <1>1, <1>2

KeptStep == RecipientsInv' /\ RespectStep /\ ComposeStep

\* A step that leaves watches and recipients alone keeps what is promised.
LEMMA NothingWritten ==
    ASSUME RecipientsInv', UNCHANGED <<watches, recipients>>
    PROVE  KeptStep
<1>1. RespectStep
  <2> SUFFICES ASSUME NEW w \in Watched, NEW r \in Addresses, Above(w, r)', ~Above(w, r)
               PROVE  FALSE
    BY DEF RespectStep
  <2> QED
    BY DEF Above
<1>2. ComposeStep
  BY DEF ComposeStep
<1> QED
  BY <1>1, <1>2 DEF KeptStep

\* A call starts, knowing what it read.
LEMMA Begins ==
    ASSUME RecipientsInv, NEW q \in Writers, calls[q] = NotWriting, NEW c, CallOK(c),
           calls' = [calls EXCEPT ![q] = c] \/ calls' = calls,
           c.kind = "settings" =>
               \A r \in Addresses : ~Refuses(recipients, r, c.on, c.score),
           UNCHANGED <<watches, recipients, stale>>
    PROVE  RecipientsInv'
<1>1. DOMAIN calls = Writers /\ calls[q].kind = "idle"
  BY DEF RecipientsInv, NotWriting
<1>2. CASE calls' = calls
  BY <1>2 DEF RecipientsInv, GatesHold
<1>3. CASE calls' = [calls EXCEPT ![q] = c]
  <2>1. /\ DOMAIN calls' = Writers /\ calls'[q] = c
        /\ \A p \in Writers \ {q} : calls'[p] = calls[p]
    BY <1>1, <1>3
  <2>2. \A p \in Writers : CallOK(calls'[p])
    BY <2>1 DEF RecipientsInv
  <2>3. GatesHold'
    BY <2>1 DEF RecipientsInv, GatesHold
  <2> QED
    BY <2>1, <2>2, <2>3 DEF RecipientsInv
<1> QED
  BY <1>2, <1>3

LEMMA RecipientsStep ==
    RecipientsAssumption /\ RecipientsInv /\ [RecipientsNext]_recipientVars => KeptStep
<1> SUFFICES ASSUME RecipientsAssumption, RecipientsInv, [RecipientsNext]_recipientVars
             PROVE  KeptStep
  OBVIOUS
<1>0. /\ DOMAIN calls = Writers /\ DOMAIN recipients \subseteq Addresses
      /\ \A r \in DOMAIN recipients : recipients[r] \in RecipientRecord /\ recipients[r] # NotWriting
      /\ \A w \in DOMAIN watches : watches[w] \in WatchRecord
      /\ \A q \in Writers : CallOK(calls[q])
  BY RecordIsThere DEF RecipientsInv
<1>1. CASE UNCHANGED recipientVars
  <2>1. RecipientsInv'
    BY <1>1 DEF recipientVars, RecipientsInv, GatesHold
  <2> QED
    BY <1>1, <2>1, NothingWritten DEF recipientVars
<1>2. ASSUME NEW w \in Watched, WatchAdded(w) PROVE KeptStep
  <2>1. /\ DOMAIN watches' = DOMAIN watches \cup {w}
        /\ \A x \in DOMAIN watches : watches'[x] = watches[x]
        /\ watches'[w] = [status |-> "active", score |-> WatchScore]
        /\ UNCHANGED <<recipients, calls, stale>>
    BY <1>2 DEF WatchAdded, With
  <2>2. RecipientsInv'
    BY <1>2, <2>1 DEF RecipientsInv, GatesHold, WatchRecord
  <2>3. RespectStep
    BY <1>0, <2>1, ScoresTell
  <2>4. ComposeStep
    BY <2>1 DEF ComposeStep
  <2> QED
    BY <2>2, <2>3, <2>4 DEF KeptStep
<1>3. ASSUME NEW w \in Watched, NEW status \in Moves, WatchMoved(w, status) PROVE KeptStep
  <2>0. watches' = [watches EXCEPT ![w].status = status] /\ w \in DOMAIN watches
        /\ UNCHANGED <<recipients, calls, stale>>
    BY <1>3 DEF WatchMoved
  <2>1. /\ DOMAIN watches' = DOMAIN watches
        /\ \A x \in DOMAIN watches : watches'[x].score = watches[x].score
        /\ \A x \in DOMAIN watches : watches'[x] \in WatchRecord
    <3>1. watches'[w] = [watches[w] EXCEPT !.status = status]
      BY <2>0
    <3>2. watches'[w] \in WatchRecord /\ watches'[w].score = watches[w].score
      BY <1>0, <2>0, <3>1, RecipientsAssumption DEF RecipientsAssumption, WatchRecord
    <3>3. DOMAIN watches' = DOMAIN watches /\ \A x \in DOMAIN watches \ {w} : watches'[x] = watches[x]
      BY <2>0
    <3> QED
      BY <1>0, <3>2, <3>3
  <2>2. RecipientsInv'
    BY <2>0, <2>1 DEF RecipientsInv, GatesHold
  <2>3. RespectStep
    BY <1>0, <2>0, <2>1, ScoresTell
  <2>4. ComposeStep
    BY <2>0 DEF ComposeStep
  <2> QED
    BY <2>2, <2>3, <2>4 DEF KeptStep
<1>4. ASSUME NEW q \in Writers, NEW w \in Watched, NEW score \in Scores, SettingsConsult(q, w, score)
      PROVE  KeptStep
  <2> DEFINE c == [kind |-> "settings", on |-> w, score |-> score]
  <2>1. CASE Compatible(w, score)
    <3>1. CallOK(c)
      BY DEF CallOK
    <3>2. \A r \in Addresses : ~Refuses(recipients, r, c.on, c.score)
      <4>1. score \in Int /\ \A r \in DOMAIN recipients : recipients[r].score \in Int
        BY <1>0, ScoresAreInt DEF RecipientRecord
      <4> QED
        BY <2>1, <4>1 DEF Refuses, Compatible, Floors, Covers
    <3>3. calls[q] = NotWriting /\ calls' = [calls EXCEPT ![q] = c]
          /\ UNCHANGED <<watches, recipients, stale>>
      BY <1>4, <2>1 DEF SettingsConsult
    <3> HIDE DEF c
    <3>4. RecipientsInv'
      BY <3>1, <3>2, <3>3, Begins
    <3> QED
      BY <3>3, <3>4, NothingWritten
  <2>2. CASE ~Compatible(w, score)
    <3>1. UNCHANGED <<watches, recipients, calls, stale>>
      BY <1>4, <2>2 DEF SettingsConsult
    <3>2. RecipientsInv'
      BY <3>1 DEF RecipientsInv, GatesHold
    <3> QED
      BY <3>1, <3>2, NothingWritten
  <2> QED
    BY <2>1, <2>2
<1>12. ASSUME NEW q \in Writers, NEW w \in Watched, NEW score \in Scores, OperatorSettings(q, w, score)
       PROVE  KeptStep
  <2> DEFINE c == [kind |-> "override", on |-> w, score |-> score]
  <2>1. CallOK(c) /\ c.kind = "override"
    BY DEF CallOK
  <2>2. calls[q] = NotWriting /\ calls' = [calls EXCEPT ![q] = c] /\ UNCHANGED <<watches, recipients, stale>>
    BY <1>12 DEF OperatorSettings
  <2> HIDE DEF c
  <2>3. RecipientsInv'
    BY <2>1, <2>2, Begins
  <2> QED
    BY <2>2, <2>3, NothingWritten
<1>5. ASSUME NEW q \in Writers, SettingsWritten(q) PROVE KeptStep
  <2>1. /\ calls[q].kind \in {"settings", "override"} /\ calls[q].score \in Scores
        /\ stale' = {s \in stale : s[1] # q} /\ recipients' = recipients /\ Rest(q)
    BY <1>0, <1>5 DEF SettingsWritten, CallOK
  <2>2. \/ /\ calls[q].on \in DOMAIN watches
           /\ watches' = [watches EXCEPT ![calls[q].on].score = calls[q].score]
        \/ watches' = watches
    BY <1>5 DEF SettingsWritten
  <2>3. /\ DOMAIN watches' = DOMAIN watches
        /\ \A x \in DOMAIN watches : watches'[x] \in WatchRecord
        /\ \A x \in DOMAIN watches :
               \/ watches'[x].score = watches[x].score
               \/ x = calls[q].on /\ watches'[x].score = calls[q].score
    <3>1. CASE watches' = watches
      BY <1>0, <3>1
    <3>2. CASE /\ calls[q].on \in DOMAIN watches
               /\ watches' = [watches EXCEPT ![calls[q].on].score = calls[q].score]
      <4>1. watches'[calls[q].on] = [watches[calls[q].on] EXCEPT !.score = calls[q].score]
        BY <3>2
      <4>2. /\ watches'[calls[q].on] \in WatchRecord
            /\ watches'[calls[q].on].score = calls[q].score
        BY <1>0, <2>1, <3>2, <4>1 DEF WatchRecord
      <4>3. DOMAIN watches' = DOMAIN watches
            /\ \A x \in DOMAIN watches \ {calls[q].on} : watches'[x] = watches[x]
        BY <3>2
      <4> QED
        BY <1>0, <4>2, <4>3
    <3> QED
      BY <2>2, <3>1, <3>2
  <2>4. /\ DOMAIN calls' = Writers /\ calls'[q].kind = "idle"
        /\ \A p \in Writers \ {q} : calls'[p] = calls[p]
    BY <1>0, <2>1, RestFacts
  <2>5. GatesHold'
    <3> SUFFICES ASSUME NEW p \in Writers, calls'[p].kind = "settings", NEW x \in Addresses,
                        Refuses(recipients', x, calls'[p].on, calls'[p].score)
                 PROVE  <<p, x>> \in stale'
      BY DEF GatesHold
    <3>1. p # q /\ calls'[p] = calls[p]
      BY <2>4
    <3>2. <<p, x>> \in stale
      BY <2>1, <3>1 DEF RecipientsInv, GatesHold
    <3> QED
      BY <2>1, <3>1, <3>2
  <2>6. RecipientsInv'
    <3>1. \A p \in Writers : CallOK(calls'[p])
      BY <1>0, <2>4 DEF CallOK
    <3> QED
      BY <2>1, <2>3, <2>4, <2>5, <3>1 DEF RecipientsInv
  <2>7. RespectStep
    <3> SUFFICES ASSUME NEW w \in Watched, NEW r \in Addresses, Above(w, r)', ~Above(w, r),
                        w \in DOMAIN watches
                 PROVE  \/ <<q, r>> \in stale \ stale'
                        \/ calls[q].kind = "override" /\ calls[q].on = w /\ calls'[q] = NotWriting
      BY DEF RespectStep
    <3>1. /\ r \in DOMAIN recipients /\ recipients[r].active /\ recipients[r].mode = "threshold"
          /\ recipients[r].ids = {} \/ w \in recipients[r].ids
          /\ watches'[w].score > recipients[r].score /\ ~(watches[w].score > recipients[r].score)
      BY <2>1 DEF Above
    <3>2. w = calls[q].on /\ watches'[w].score = calls[q].score
      BY <2>3, <3>1
    <3>3. recipients[r].score \in Int /\ calls[q].score \in Int
      BY <1>0, <2>1, <3>1, ScoresAreInt DEF RecipientRecord
    <3>4. Refuses(recipients, r, calls[q].on, calls[q].score)
      BY <3>1, <3>2, <3>3 DEF Refuses
    <3>5. CASE calls[q].kind = "settings"
      BY <2>1, <3>4, <3>5 DEF RecipientsInv, GatesHold
    <3>6. CASE calls[q].kind = "override"
      BY <1>0, <2>1, <3>2, <3>6, RestFacts
    <3> QED
      BY <2>1, <3>5, <3>6
  <2>8. ComposeStep
    BY <2>1 DEF ComposeStep
  <2> QED
    BY <2>6, <2>7, <2>8 DEF KeptStep
<1>6. ASSUME NEW q \in Writers, NEW input \in NewRecipients, CreateLists(q, input) PROVE KeptStep
  <2> DEFINE c == [kind |-> "create", input |-> input, active |-> ActiveIds]
  <2>1. ActiveIds \subseteq Watched
    BY DEF ActiveIds, RecipientsInv
  <2>2. CASE Acceptable(input.mode, input.cadence, input.score)
    <3>1. CallOK(c)
      BY <2>1, <2>2 DEF CallOK
    <3>2. calls[q] = NotWriting /\ calls' = [calls EXCEPT ![q] = c] /\ c.kind = "create"
          /\ UNCHANGED <<watches, recipients, stale>>
      BY <1>6, <2>2 DEF CreateLists
    <3> HIDE DEF c
    <3>3. RecipientsInv'
      BY <3>1, <3>2, Begins
    <3> QED
      BY <3>2, <3>3, NothingWritten
  <2>3. CASE ~Acceptable(input.mode, input.cadence, input.score)
    <3>1. UNCHANGED <<watches, recipients, calls, stale>>
      BY <1>6, <2>3 DEF CreateLists
    <3>2. RecipientsInv'
      BY <3>1 DEF RecipientsInv, GatesHold
    <3> QED
      BY <3>1, <3>2, NothingWritten
  <2> QED
    BY <2>2, <2>3
<1>7. ASSUME NEW q \in Writers, NEW r \in Addresses, NEW patch \in RecipientPatches,
             UpdateLists(q, r, patch)
      PROVE  KeptStep
  <2> DEFINE c == [kind |-> "update", on |-> r, patch |-> patch, active |-> ActiveIds]
  <2>1. ActiveIds \subseteq Watched
    BY DEF ActiveIds, RecipientsInv
  <2>2. CallOK(c)
    BY <2>1 DEF CallOK
  <2>3. calls[q] = NotWriting /\ calls' = [calls EXCEPT ![q] = c] /\ c.kind = "update"
        /\ UNCHANGED <<watches, recipients, stale>>
    BY <1>7 DEF UpdateLists
  <2> HIDE DEF c
  <2>4. RecipientsInv'
    BY <2>2, <2>3, Begins
  <2> QED
    BY <2>3, <2>4, NothingWritten
\* A call that writes nothing in the end.
<1>8. ASSUME NEW q \in Writers, Rest(q), UNCHANGED <<watches, recipients, stale>> PROVE KeptStep
  <2>1. /\ DOMAIN calls' = Writers /\ calls'[q].kind = "idle"
        /\ \A p \in Writers \ {q} : calls'[p] = calls[p]
    BY <1>0, <1>8, RestFacts
  <2>2. GatesHold'
    BY <1>8, <2>1 DEF RecipientsInv, GatesHold
  <2>3. \A p \in Writers : CallOK(calls'[p])
    BY <1>0, <2>1 DEF CallOK
  <2>4. RecipientsInv'
    BY <1>8, <2>1, <2>2, <2>3 DEF RecipientsInv
  <2> QED
    BY <1>8, <2>4, NothingWritten
<1>9. ASSUME NEW q \in Writers, CreateWrites(q) PROVE KeptStep
  <2>1. /\ calls[q].kind = "create" /\ Rest(q) /\ watches' = watches
        /\ calls[q].input \in NewRecipients /\ calls[q].active \subseteq Watched
        /\ Acceptable(calls[q].input.mode, calls[q].input.cadence, calls[q].input.score)
    BY <1>0, <1>9 DEF CreateWrites, CallOK
  <2> DEFINE input == calls[q].input
             ids == IF input.all /\ input.ids = {} THEN calls[q].active ELSE input.ids
             rec == Notifying(Normalized(input.mode, input.cadence, input.score), TRUE, ids)
  <2>2. \/ \E r \in Addresses \ (DOMAIN recipients \cup deleted) : Put(r, rec)
        \/ UNCHANGED <<recipients, stale>>
    BY <1>9 DEF CreateWrites
  <2>3. /\ input.mode \in Modes /\ input.cadence \in Cadences \cup {NoCadence}
        /\ input.score \in Scores \cup {NoScore} /\ ids \in SUBSET Watched
    BY <2>1, RecipientsAssumption DEF RecipientsAssumption
  <2> HIDE DEF ids
  <2>4. rec \in RecipientRecord /\ OneWay(rec)
    BY <2>1, <2>3, NotifyingIs
  <2> HIDE DEF rec, input
  <2>5. ASSUME NEW r \in Addresses \ (DOMAIN recipients \cup deleted), Put(r, rec) PROVE KeptStep
    <3>1. RecipientsInv'
      BY <2>1, <2>4, <2>5, PutKeeps
    <3>2. /\ DOMAIN recipients' = DOMAIN recipients \cup {r} /\ recipients'[r] = rec
          /\ \A x \in DOMAIN recipients : recipients'[x] = recipients[x]
      BY <2>5 DEF Put, With
    <3>3. \A x \in DOMAIN recipients' : recipients'[x] # NotWriting
      BY <1>0, <2>4, <3>2, RecordIsThere
    <3>4. RespectStep
      BY <2>1, <3>3, ScoresTell
    <3>5. calls'[q] = NotWriting
      BY <1>0, <2>1, RestFacts
    <3>6. ComposeStep
      BY <2>1, <3>2, <3>5 DEF ComposeStep
    <3> QED
      BY <3>1, <3>4, <3>6 DEF KeptStep
  <2> QED
    BY <1>8, <2>1, <2>2, <2>5
<1>10. ASSUME NEW q \in Writers, UpdateWrites(q) PROVE KeptStep
  <2> DEFINE r == calls[q].on
             patch == calls[q].patch
             old == recipients[r]
             Fits == Acceptable(Or(patch, "mode", old.mode), Or(patch, "cadence", old.cadence),
                                Or(patch, "score", old.score))
             rec == Updated(calls[q], old)
  <2>1. /\ calls[q].kind = "update" /\ CallOK(calls[q]) /\ Rest(q) /\ watches' = watches
        /\ patch \in RecipientPatches
    BY <1>0, <1>10 DEF UpdateWrites, CallOK
  <2>2. \/ r \in DOMAIN recipients /\ Fits /\ Put(r, rec)
        \/ UNCHANGED <<recipients, stale>>
    BY <1>10 DEF UpdateWrites
  <2>3. CASE r \in DOMAIN recipients /\ Fits /\ Put(r, rec)
    <3>1. old \in RecipientRecord
      BY <1>0, <2>3
    <3>2. /\ rec \in RecipientRecord /\ OneWay(rec)
          /\ rec.active # old.active => "active" \in DOMAIN patch
      BY <2>1, <2>3, <3>1, UpdatedIs
    <3> HIDE DEF rec
    <3>3. /\ DOMAIN recipients' = DOMAIN recipients /\ recipients'[r] = rec
          /\ \A x \in DOMAIN recipients \ {r} : recipients'[x] = recipients[x]
      BY <2>3 DEF Put, With
    <3>4. r \in Addresses
      BY <1>0, <2>3
    <3>5. RecipientsInv'
      BY <2>1, <2>3, <3>2, <3>4, PutKeeps
    <3>6. \A x \in DOMAIN recipients' : recipients'[x] # NotWriting
      BY <1>0, <3>2, <3>3, RecordIsThere
    <3>7. RespectStep
      BY <2>1, <3>6, ScoresTell
    <3>8. calls'[q] = NotWriting
      BY <1>0, <2>1, RestFacts
    <3>9. ComposeStep
      BY <2>1, <3>2, <3>3, <3>8 DEF ComposeStep
    <3> QED
      BY <3>5, <3>7, <3>9 DEF KeptStep
  <2> QED
    BY <1>8, <2>1, <2>2, <2>3
<1>11. ASSUME NEW r \in Addresses, DeleteRecipient(r) PROVE KeptStep
  <2>1. /\ DOMAIN recipients' = DOMAIN recipients \ {r}
        /\ \A x \in DOMAIN recipients \ {r} : recipients'[x] = recipients[x]
        /\ UNCHANGED <<watches, calls, stale>>
    BY <1>11 DEF DeleteRecipient
  <2>2. GatesHold'
    BY <2>1 DEF RecipientsInv, GatesHold, Refuses
  <2>3. RecipientsInv'
    BY <2>1, <2>2 DEF RecipientsInv
  <2>4. RespectStep
    BY <1>0, <2>1, ScoresTell
  <2>5. ComposeStep
    BY <2>1 DEF ComposeStep
  <2> QED
    BY <2>3, <2>4, <2>5 DEF KeptStep
<1> QED
  BY <1>1, <1>2, <1>3, <1>4, <1>5, <1>6, <1>7, <1>9, <1>10, <1>11, <1>12 DEF RecipientsNext

LEMMA RecipientsStart == RecipientsInit => RecipientsInv
  BY DEF RecipientsInit, RecipientsInv, GatesHold, CallOK, NotWriting

--------------------------------------------------------------------------------
(***************************************************************************)
(* The desk of the operators.  The log has one entry of each change        *)
(* somebody heard of, in the order of the changes but for those that await *)
(* the store.                                                              *)
(***************************************************************************)

AnyTarget == Customers \cup {Nowhere, Platform}
Change == [route : DeskRoutes, target : AnyTarget, by : Staff]
Logged == [route : DeskRoutes, actor : Staff, of : Nat,
           targetId : AnyTarget, organizationId : AnyTarget]
Working == [at : {"watches", "store", "written"}, route : DeskRoutes, target : AnyTarget,
            by : Staff, n : Nat]

\* The n-th change of ch, as the log has it.
OfChange(ch, n) == Entry(ch[n].route, ch[n].target, ch[n].by, n)

\* A change was made for what its route is about.
Aimed(route, target) == target \in TargetsOf(route)

\* The changes that were heard of have one entry each, in order but for the store's.
LogOK(ch, en, heard) ==
    /\ heard \subseteq DOMAIN ch
    /\ \A x \in DOMAIN en : en[x].of \in heard /\ en[x] = OfChange(ch, en[x].of)
    /\ \A n \in heard : \E x \in DOMAIN en : en[x].of = n
    /\ \A x, y \in DOMAIN en : en[x].of = en[y].of => x = y
    /\ \A x, y \in DOMAIN en :
           /\ x < y
           /\ ch[en[x].of].route.awaits # "store" /\ ch[en[y].of].route.awaits # "store"
           => en[x].of > en[y].of

Heard == DOMAIN changes \ (unheard \cup Pending)

\* What a request that awaits something knows.
WorkOK(w, ch, lost) ==
    /\ w.at = "watches" => w.route.awaits = "watches"
    /\ w.at \in {"store", "written"} => w.route.awaits = "store"
    /\ Aimed(w.route, w.target)
    /\ w.at = "written" =>
           /\ w.n \in DOMAIN ch \ lost
           /\ ch[w.n] = [route |-> w.route, target |-> w.target, by |-> w.by]

DeskInv ==
    /\ changes \in Seq(Change) /\ entries \in Seq(Logged)
    /\ desk \in [Desk -> {AtRest} \cup Working]
    /\ unheard \subseteq DOMAIN changes
    /\ \A n \in DOMAIN changes : Aimed(changes[n].route, changes[n].target)
    /\ \A q \in Desk : desk[q] # AtRest => WorkOK(desk[q], changes, unheard)
    /\ \A p, q \in Desk : desk[p].at = "written" /\ desk[q].at = "written" /\ desk[p].n = desk[q].n
                          => p = q
    /\ LogOK(changes, entries, Heard)

-------------------------------------------------------------------------------
LEMMA RouteFacts ==
    ASSUME NEW r \in DeskRoutes
    PROVE  /\ r.names \in {"target", "metadata", "nobody"}
           /\ r.names = "nobody" <=> r = PostReply \/ r.about = "platform"
           /\ PostReply.names = "nobody" /\ PostReply.about = "thread"
  BY DEF DeskRoutes, Route, PatchPlan, PostForce, PatchProfile, PostMember, PatchMember,
     DeleteMember, PostRecipient, PatchRecipient, DeleteOrgRecipient, PatchWatchSettings,
     PostWatchStatus, PostReply, PostMarkPaid, PostNotification, PatchCustomer, PostRetry,
     PutActiveProvider, PostProviderKey, PostProviderTest, PatchFeatureFlag, PutWeights,
     OfOrganization, OfPlatform, AfterWatches, OfWatch

LEMMA EntryIs ==
    ASSUME NEW ch \in Seq(Change), NEW n \in DOMAIN ch
    PROVE  OfChange(ch, n) \in Logged /\ OfChange(ch, n).of = n
<1>1. ch[n] \in Change /\ n \in Nat
  OBVIOUS
<1> QED
  BY <1>1 DEF OfChange, Entry, Logged, Change, AnyTarget

\* A change more, of which nothing is heard yet.
LEMMA LogWaits ==
    ASSUME NEW ch \in Seq(Change), NEW en, NEW heard, LogOK(ch, en, heard), NEW c
    PROVE  LogOK(Append(ch, c), en, heard)
<1> DEFINE more == Append(ch, c)
<1>1. DOMAIN ch \subseteq DOMAIN more /\ \A n \in DOMAIN ch : more[n] = ch[n]
  OBVIOUS
<1> HIDE DEF more
<1>2. \A n \in DOMAIN ch : OfChange(more, n) = OfChange(ch, n)
  BY <1>1 DEF OfChange
<1> QED
  BY <1>1, <1>2 DEF LogOK, more

\* A change is heard of, and recorded before all others.
LEMMA LogHears ==
    ASSUME NEW ch \in Seq(Change), NEW en \in Seq(Logged), NEW heard, LogOK(ch, en, heard),
           NEW n \in DOMAIN ch \ heard,
           ch[n].route.awaits = "store" \/ \A m \in heard : m < n
    PROVE  LogOK(ch, <<OfChange(ch, n)>> \o en, heard \cup {n})
<1> DEFINE e == OfChange(ch, n)
           more == <<e>> \o en
<1>1. e \in Logged /\ e.of = n
  BY EntryIs
<1>2. e = OfChange(ch, n)
  OBVIOUS
<1> HIDE DEF e
<1>3. /\ more \in Seq(Logged) /\ DOMAIN more = 1..(Len(en) + 1) /\ DOMAIN en = 1..Len(en)
      /\ Len(en) \in Nat /\ more[1] = e /\ \A x \in 1..Len(en) : more[x + 1] = en[x]
  BY <1>1
<1> HIDE DEF more
<1>4. \A x \in DOMAIN more : (x = 1 /\ more[x] = e) \/ (x - 1 \in DOMAIN en /\ more[x] = en[x - 1])
  BY <1>3
<1>5. \A x \in DOMAIN more : more[x].of \in heard \cup {n} /\ more[x] = OfChange(ch, more[x].of)
  BY <1>1, <1>2, <1>4 DEF LogOK
<1>6. \A m \in heard \cup {n} : \E x \in DOMAIN more : more[x].of = m
  <2>1. 1 \in DOMAIN more /\ more[1].of = n
    BY <1>1, <1>3
  <2>2. ASSUME NEW m \in heard PROVE \E x \in DOMAIN more : more[x].of = m
    <3>1. PICK x \in DOMAIN en : en[x].of = m
      BY DEF LogOK
    <3>2. x + 1 \in DOMAIN more /\ more[x + 1] = en[x]
      BY <1>3
    <3> QED
      BY <3>1, <3>2
  <2> QED
    BY <2>1, <2>2
<1>7. \A x \in DOMAIN en : en[x].of # n
  BY DEF LogOK
<1>8. \A x, y \in DOMAIN more : more[x].of = more[y].of => x = y
  <2> SUFFICES ASSUME NEW x \in DOMAIN more, NEW y \in DOMAIN more, more[x].of = more[y].of
               PROVE  x = y
    OBVIOUS
  <2>1. CASE x - 1 \in DOMAIN en /\ y - 1 \in DOMAIN en /\ more[x] = en[x - 1] /\ more[y] = en[y - 1]
    <3>1. x - 1 = y - 1
      BY <2>1 DEF LogOK
    <3> QED
      BY <1>3, <3>1
  <2> QED
    BY <1>1, <1>4, <1>7, <2>1
<1>9. \A x, y \in DOMAIN more :
           /\ x < y
           /\ ch[more[x].of].route.awaits # "store" /\ ch[more[y].of].route.awaits # "store"
           => more[x].of > more[y].of
  <2> SUFFICES ASSUME NEW x \in DOMAIN more, NEW y \in DOMAIN more, x < y,
                      ch[more[x].of].route.awaits # "store", ch[more[y].of].route.awaits # "store"
               PROVE  more[x].of > more[y].of
    OBVIOUS
  <2>1. y - 1 \in DOMAIN en /\ more[y] = en[y - 1]
    BY <1>3, <1>4
  <2>2. CASE x = 1
    BY <1>1, <1>3, <2>1, <2>2 DEF LogOK
  <2>3. CASE x # 1
    <3>1. x - 1 \in DOMAIN en /\ more[x] = en[x - 1]
      BY <1>4, <2>3
    <3>2. x - 1 < y - 1
      BY <1>3
    <3> QED
      BY <2>1, <3>1, <3>2 DEF LogOK
  <2> QED
    BY <2>2, <2>3
<1> QED
  BY <1>2, <1>5, <1>6, <1>8, <1>9 DEF LogOK, more

\* What a change leaves of the invariant, before anything is heard of it.
LEMMA ChangeMade ==
    ASSUME DeskInv, NEW c \in Change, Aimed(c.route, c.target), changes' = Append(changes, c)
    PROVE  /\ changes' \in Seq(Change) /\ Len(changes') \in Nat
           /\ DOMAIN changes' = DOMAIN changes \cup {Len(changes')}
           /\ Len(changes') \notin DOMAIN changes /\ changes'[Len(changes')] = c
           /\ \A n \in DOMAIN changes : changes'[n] = changes[n] /\ n \in Nat /\ n < Len(changes')
           /\ \A n \in DOMAIN changes' : Aimed(changes'[n].route, changes'[n].target)
           /\ LogOK(changes', entries, Heard)
           /\ unheard \subseteq DOMAIN changes /\ Pending \subseteq DOMAIN changes
           /\ \A q \in Desk : desk[q] # AtRest => WorkOK(desk[q], changes', unheard)
<1>1. changes \in Seq(Change)
  BY DEF DeskInv
<1>2. /\ changes' \in Seq(Change) /\ Len(changes') \in Nat
      /\ DOMAIN changes' = DOMAIN changes \cup {Len(changes')}
      /\ Len(changes') \notin DOMAIN changes /\ changes'[Len(changes')] = c
      /\ \A n \in DOMAIN changes : changes'[n] = changes[n] /\ n \in Nat /\ n < Len(changes')
  BY <1>1
<1>3. \A n \in DOMAIN changes' : Aimed(changes'[n].route, changes'[n].target)
  BY <1>2 DEF DeskInv
<1>4. LogOK(changes', entries, Heard)
  BY <1>1, LogWaits DEF DeskInv
<1>5. unheard \subseteq DOMAIN changes
  BY DEF DeskInv
<1>6. Pending \subseteq DOMAIN changes
  <2>1. ASSUME NEW q \in Desk, desk[q].at = "written" PROVE desk[q].n \in DOMAIN changes
    <3>1. desk[q] # AtRest
      BY <2>1 DEF AtRest
    <3> QED
      BY <2>1, <3>1 DEF DeskInv, WorkOK
  <2> QED
    BY <2>1 DEF Pending
<1>7. ASSUME NEW q \in Desk, desk[q] # AtRest PROVE WorkOK(desk[q], changes', unheard)
  <2>1. WorkOK(desk[q], changes, unheard)
    BY <1>7 DEF DeskInv
  <2> QED
    BY <1>2, <2>1 DEF WorkOK
<1> QED
  BY <1>2, <1>3, <1>4, <1>5, <1>6, <1>7

\* A request that is done knows nothing any more, and no other has changed.
LEMMA DoneFacts ==
    ASSUME DeskInv, NEW q \in Desk, Done(q)
    PROVE  /\ desk' \in [Desk -> {AtRest} \cup Working]
           /\ desk'[q] = AtRest /\ \A p \in Desk \ {q} : desk'[p] = desk[p]
           /\ desk[q].at # "written" => Pending' = Pending
           /\ desk[q].at = "written" =>
                  Pending = Pending' \cup {desk[q].n} /\ desk[q].n \notin Pending'
<1>1. /\ desk' \in [Desk -> {AtRest} \cup Working]
      /\ desk'[q] = AtRest /\ \A p \in Desk \ {q} : desk'[p] = desk[p]
  BY DEF DeskInv, Done
<1>2. AtRest.at # "written"
  BY DEF AtRest
<1>3. \A p \in Desk : desk'[p].at = "written" <=> p # q /\ desk[p].at = "written"
  BY <1>1, <1>2
<1>4. desk[q].at # "written" => Pending' = Pending
  BY <1>1, <1>3 DEF Pending
<1>5. ASSUME desk[q].at = "written"
      PROVE  Pending = Pending' \cup {desk[q].n} /\ desk[q].n \notin Pending'
  <2>1. \A p \in Desk \ {q} : desk[p].at = "written" => desk[p].n # desk[q].n
    BY <1>5 DEF DeskInv
  <2> QED
    BY <1>1, <1>3, <1>5, <2>1 DEF Pending
<1> QED
  BY <1>1, <1>4, <1>5

\* What holds of the requests at the desk still holds when one of them is done.
DeskOK(d, ch, lost) ==
    /\ \A q \in Desk : d[q] # AtRest => WorkOK(d[q], ch, lost)
    /\ \A p, q \in Desk : d[p].at = "written" /\ d[q].at = "written" /\ d[p].n = d[q].n => p = q

LEMMA DoneKeeps ==
    ASSUME DeskInv, NEW q \in Desk, Done(q), NEW ch, NEW lost, DeskOK(desk, ch, lost)
    PROVE  DeskOK(desk', ch, lost)
<1>1. desk'[q] = AtRest /\ \A p \in Desk \ {q} : desk'[p] = desk[p]
  BY DoneFacts
<1>2. AtRest.at # "written"
  BY DEF AtRest
<1> QED
  BY <1>1, <1>2 DEF DeskOK

LEMMA HandleKeeps ==
    ASSUME DeskAssumption, DeskInv, NEW route \in DeskRoutes, NEW target \in TargetsOf(route),
           NEW by \in Staff \cup Others, Handle(route, target, by)
    PROVE  DeskInv'
<1> DEFINE c == [route |-> route, target |-> target, by |-> by]
           n == Len(changes')
<1>1. c \in Change /\ Aimed(c.route, c.target)
  BY DEF Handle, Admitted, Change, AnyTarget, Aimed, TargetsOf
<1>2. /\ changes' = Append(changes, c) /\ entries' = <<Entry(route, target, by, n)>> \o entries
      /\ UNCHANGED <<desk, unheard>>
  BY DEF Handle, Changed, RecordedEntry
<1>3. Entry(route, target, by, n) = OfChange(changes', n) /\ n \in DOMAIN changes' \ Heard
  BY <1>1, <1>2, ChangeMade DEF OfChange, Heard
<1> HIDE DEF c, n
<1>4. Pending' = Pending
  BY <1>2 DEF Pending
<1>5. Heard' = Heard \cup {n}
  BY <1>1, <1>2, <1>4, ChangeMade DEF Heard, n
<1>6. entries \in Seq(Logged)
  BY DEF DeskInv
<1>7. /\ changes' \in Seq(Change) /\ LogOK(changes', entries, Heard)
      /\ \A m \in Heard : m < n
  BY <1>1, <1>2, ChangeMade DEF Heard, n
<1>8. LogOK(changes', <<OfChange(changes', n)>> \o entries, Heard \cup {n})
  BY <1>3, <1>6, <1>7, LogHears
<1>9. LogOK(changes', entries', Heard')
  BY <1>2, <1>3, <1>5, <1>8
<1>10. entries' \in Seq(Logged)
  <2>1. Entry(route, target, by, n) \in Logged
    BY <1>3, <1>7, EntryIs
  <2> QED
    BY <1>2, <1>6, <2>1
<1>11. /\ unheard' \subseteq DOMAIN changes'
       /\ \A m \in DOMAIN changes' : Aimed(changes'[m].route, changes'[m].target)
       /\ \A q \in Desk : desk'[q] # AtRest => WorkOK(desk'[q], changes', unheard')
  BY <1>1, <1>2, ChangeMade
<1> QED
  BY <1>2, <1>7, <1>9, <1>10, <1>11 DEF DeskInv

LEMMA TestKeeps ==
    ASSUME DeskAssumption, DeskInv, NEW by \in Staff \cup Others, TestWithoutKey(by)
    PROVE  DeskInv'
<1> DEFINE c == [route |-> PostProviderTest, target |-> Platform, by |-> by]
           n == Len(changes')
<1>1. c \in Change /\ Aimed(c.route, c.target)
  BY DEF TestWithoutKey, Admitted, Change, AnyTarget, Aimed, TargetsOf, DeskRoutes,
     PostProviderTest, OfPlatform, Route
<1>2. /\ changes' = Append(changes, c) /\ unheard' = unheard \cup {n}
      /\ UNCHANGED <<desk, entries>>
  BY DEF TestWithoutKey, Changed
<1> HIDE DEF c
<1>3. Pending' = Pending
  BY <1>2 DEF Pending
<1>4. Heard' = Heard
  BY <1>1, <1>2, <1>3, ChangeMade DEF Heard
<1>5. ASSUME NEW q \in Desk, desk'[q] # AtRest PROVE WorkOK(desk'[q], changes', unheard')
  <2>1. WorkOK(desk[q], changes', unheard) /\ WorkOK(desk[q], changes, unheard)
    BY <1>1, <1>2, <1>5, ChangeMade DEF DeskInv
  <2> QED
    BY <1>1, <1>2, <2>1, ChangeMade DEF WorkOK
<1> QED
  BY <1>1, <1>2, <1>4, <1>5, ChangeMade DEF DeskInv

LEMMA AwaitKeeps ==
    ASSUME DeskAssumption, DeskInv, NEW q \in Desk, NEW route \in DeskRoutes,
           NEW target \in TargetsOf(route), NEW by \in Staff \cup Others,
           Await(q, route, target, by)
    PROVE  DeskInv'
<1> DEFINE w == [at |-> route.awaits, route |-> route, target |-> target, by |-> by, n |-> 0]
<1>1. route.awaits \in {"watches", "store"}
  BY DEF Await, DeskRoutes, Route, PatchPlan, PostForce, PatchProfile, PostMember, PatchMember,
     DeleteMember, PostRecipient, PatchRecipient, DeleteOrgRecipient, PatchWatchSettings,
     PostWatchStatus, PostReply, PostMarkPaid, PostNotification, PatchCustomer, PostRetry,
     PutActiveProvider, PostProviderKey, PostProviderTest, PatchFeatureFlag, PutWeights,
     OfOrganization, OfPlatform, AfterWatches, OfWatch
<1>2. w \in Working /\ WorkOK(w, changes, unheard) /\ w.at # "written"
  BY <1>1 DEF Await, Admitted, Working, AnyTarget, Aimed, TargetsOf, WorkOK
<1>3. desk[q] = AtRest /\ desk' = [desk EXCEPT ![q] = w] /\ UNCHANGED <<changes, entries, unheard>>
  BY DEF Await
<1> HIDE DEF w
<1>4. /\ desk' \in [Desk -> {AtRest} \cup Working]
      /\ desk'[q] = w /\ \A p \in Desk \ {q} : desk'[p] = desk[p]
  BY <1>2, <1>3 DEF DeskInv
<1>5. AtRest.at # "written"
  BY DEF AtRest
<1>6. \A p \in Desk : desk'[p].at = "written" <=> p # q /\ desk[p].at = "written"
  BY <1>2, <1>4
<1>7. \A p \in Desk : desk[p].at = "written" => p # q
  BY <1>3, <1>5
<1>8. Pending' = Pending
  BY <1>4, <1>6, <1>7 DEF Pending
<1>9. Heard' = Heard
  BY <1>3, <1>8 DEF Heard
<1>10. \A p \in Desk : desk'[p] # AtRest => WorkOK(desk'[p], changes', unheard')
  BY <1>2, <1>3, <1>4 DEF DeskInv
<1>11. \A p, r \in Desk :
           desk'[p].at = "written" /\ desk'[r].at = "written" /\ desk'[p].n = desk'[r].n => p = r
  BY <1>4, <1>6 DEF DeskInv
<1> QED
  BY <1>3, <1>4, <1>9, <1>10, <1>11 DEF DeskInv

LEMMA WatchesListedKeeps ==
    ASSUME DeskAssumption, DeskInv, NEW q \in Desk, WatchesListed(q)
    PROVE  DeskInv'
<1> DEFINE w == desk[q]
           c == [route |-> w.route, target |-> w.target, by |-> w.by]
           n == Len(changes')
<1>1. w # AtRest /\ w.at = "watches"
  BY DEF WatchesListed, AtRest
<1>2. w \in Working /\ WorkOK(w, changes, unheard)
  BY <1>1 DEF DeskInv
<1>3. c \in Change /\ Aimed(c.route, c.target)
  BY <1>2 DEF Working, WorkOK, Change
<1>4. /\ changes' = Append(changes, c) /\ unheard' = unheard /\ Done(q)
      /\ entries' = <<Entry(w.route, w.target, w.by, n)>> \o entries
  BY DEF WatchesListed, Changed, RecordedEntry
<1>5. Entry(w.route, w.target, w.by, n) = OfChange(changes', n) /\ n \in DOMAIN changes' \ Heard
  BY <1>3, <1>4, ChangeMade DEF OfChange, Heard
<1> HIDE DEF c, n
<1>6. Pending' = Pending
  BY <1>1, <1>4, DoneFacts
<1>7. Heard' = Heard \cup {n}
  BY <1>3, <1>4, <1>6, ChangeMade DEF Heard, n
<1>8. entries \in Seq(Logged)
  BY DEF DeskInv
<1>9. /\ changes' \in Seq(Change) /\ LogOK(changes', entries, Heard)
      /\ \A m \in Heard : m < n
  BY <1>3, <1>4, ChangeMade DEF Heard, n
<1>10. LogOK(changes', <<OfChange(changes', n)>> \o entries, Heard \cup {n})
  BY <1>5, <1>8, <1>9, LogHears
<1>11. LogOK(changes', entries', Heard')
  BY <1>4, <1>5, <1>7, <1>10
<1>12. entries' \in Seq(Logged)
  <2>1. Entry(w.route, w.target, w.by, n) \in Logged
    BY <1>5, <1>9, EntryIs
  <2> QED
    BY <1>4, <1>8, <2>1
<1>13. DeskOK(desk, changes', unheard')
  BY <1>3, <1>4, ChangeMade DEF DeskOK, DeskInv
<1>14. DeskOK(desk', changes', unheard')
  BY <1>4, <1>13, DoneKeeps
<1>15. /\ unheard' \subseteq DOMAIN changes'
       /\ \A m \in DOMAIN changes' : Aimed(changes'[m].route, changes'[m].target)
  BY <1>3, <1>4, ChangeMade
<1>16. desk' \in [Desk -> {AtRest} \cup Working]
  BY <1>4, DoneFacts
<1> QED
  BY <1>9, <1>11, <1>12, <1>14, <1>15, <1>16 DEF DeskInv, DeskOK

LEMMA StoreWritesKeeps ==
    ASSUME DeskAssumption, DeskInv, NEW q \in Desk, StoreWrites(q)
    PROVE  DeskInv'
<1> DEFINE w == desk[q]
           c == [route |-> w.route, target |-> w.target, by |-> w.by]
           n == Len(changes')
           next == [w EXCEPT !.at = "written", !.n = n]
<1>1. w # AtRest /\ w.at = "store"
  BY DEF StoreWrites, AtRest
<1>2. w \in Working /\ WorkOK(w, changes, unheard)
  BY <1>1 DEF DeskInv
<1>3. c \in Change /\ Aimed(c.route, c.target)
  BY <1>2 DEF Working, WorkOK, Change
<1>4. changes' = Append(changes, c) /\ UNCHANGED <<entries, unheard>>
  BY DEF StoreWrites, Changed
<1>5. desk' = [desk EXCEPT ![q].at = "written", ![q].n = n]
  BY DEF StoreWrites
<1>6. n \in Nat /\ n \in DOMAIN changes' /\ n \notin DOMAIN changes /\ changes'[n] = c
  BY <1>3, <1>4, ChangeMade
<1>7. /\ next \in Working /\ next.at = "written" /\ next.n = n
      /\ next.route = w.route /\ next.target = w.target /\ next.by = w.by
  BY <1>2, <1>6 DEF Working
<1>8. next # AtRest
  BY <1>7 DEF AtRest
<1>9. /\ desk' \in [Desk -> {AtRest} \cup Working]
      /\ desk'[q] = next /\ \A p \in Desk \ {q} : desk'[p] = desk[p]
  <2> DEFINE between == [desk EXCEPT ![q] = [desk[q] EXCEPT !.at = "written"]]
  <2>1. desk \in [Desk -> {AtRest} \cup Working]
    BY DEF DeskInv
  <2>2. desk' = [between EXCEPT ![q] = [between[q] EXCEPT !.n = n]]
    BY <1>5, Zenon
  <2>3. between[q] = [desk[q] EXCEPT !.at = "written"]
    BY <2>1
  <2>4. [between[q] EXCEPT !.n = n] = next
    BY <2>3
  <2>5. desk' = [between EXCEPT ![q] = next]
    BY <2>2, <2>4, Zenon
  <2> HIDE DEF next
  <2>6. DOMAIN between = Desk /\ \A p \in Desk \ {q} : between[p] = desk[p]
    BY <2>1
  <2> HIDE DEF between
  <2>7. /\ DOMAIN desk' = Desk /\ desk' = [p \in Desk |-> desk'[p]]
        /\ desk'[q] = next /\ \A p \in Desk \ {q} : desk'[p] = desk[p]
    BY <2>5, <2>6
  <2> QED
    BY <1>7, <2>1, <2>7
<1> HIDE DEF next, c
<1>10. WorkOK(next, changes', unheard')
  <2>1. n \notin unheard'
    BY <1>3, <1>4, <1>6, ChangeMade
  <2> QED
    BY <1>1, <1>2, <1>6, <1>7, <2>1 DEF WorkOK, c
<1>11. \A p \in Desk : desk'[p] # AtRest => WorkOK(desk'[p], changes', unheard')
  BY <1>3, <1>4, <1>9, <1>10, ChangeMade
<1>12. \A p \in Desk \ {q} : desk[p].at = "written" => desk[p].n \in DOMAIN changes
  BY <1>3, <1>4, ChangeMade DEF Pending
<1>13. \A p, r \in Desk :
           desk'[p].at = "written" /\ desk'[r].at = "written" /\ desk'[p].n = desk'[r].n => p = r
  BY <1>6, <1>7, <1>9, <1>12 DEF DeskInv
<1>14. Pending' = Pending \cup {n}
  BY <1>1, <1>7, <1>9 DEF Pending
<1>15. Heard' = Heard
  BY <1>3, <1>4, <1>6, <1>14, ChangeMade DEF Heard
<1>16. /\ changes' \in Seq(Change) /\ LogOK(changes', entries', Heard')
       /\ unheard' \subseteq DOMAIN changes' /\ entries' \in Seq(Logged)
       /\ \A m \in DOMAIN changes' : Aimed(changes'[m].route, changes'[m].target)
  BY <1>3, <1>4, <1>15, ChangeMade DEF DeskInv
<1> QED
  BY <1>9, <1>11, <1>13, <1>16 DEF DeskInv

LEMMA StoreAnswersKeeps ==
    ASSUME DeskAssumption, DeskInv, NEW q \in Desk, StoreAnswers(q)
    PROVE  DeskInv'
<1> DEFINE w == desk[q]
           n == w.n
<1>1. w # AtRest /\ w.at = "written"
  BY DEF StoreAnswers, AtRest
<1>2. w \in Working /\ WorkOK(w, changes, unheard)
  BY <1>1 DEF DeskInv
<1>3. /\ entries' = <<Entry(w.route, w.target, w.by, n)>> \o entries
      /\ Done(q) /\ UNCHANGED <<changes, unheard>>
  BY DEF StoreAnswers, RecordedEntry
<1>4. /\ n \in DOMAIN changes \ unheard /\ w.route.awaits = "store"
      /\ changes[n] = [route |-> w.route, target |-> w.target, by |-> w.by]
  BY <1>1, <1>2 DEF WorkOK
<1>5. Entry(w.route, w.target, w.by, n) = OfChange(changes, n) /\ changes[n].route.awaits = "store"
  BY <1>4 DEF OfChange
<1>6. Pending = Pending' \cup {n} /\ n \notin Pending'
  BY <1>1, <1>3, DoneFacts
<1>7. Heard' = Heard \cup {n} /\ n \notin Heard
  BY <1>3, <1>4, <1>6 DEF Heard
<1> HIDE DEF w, n
<1>8. changes \in Seq(Change) /\ entries \in Seq(Logged) /\ LogOK(changes, entries, Heard)
  BY DEF DeskInv
<1>9. LogOK(changes, <<OfChange(changes, n)>> \o entries, Heard \cup {n})
  BY <1>4, <1>5, <1>7, <1>8, LogHears
<1>10. OfChange(changes, n) \in Logged
  BY <1>4, <1>8, EntryIs
<1>11. LogOK(changes', entries', Heard') /\ entries' \in Seq(Logged) /\ changes' \in Seq(Change)
  BY <1>3, <1>5, <1>7, <1>8, <1>9, <1>10
<1>12. DeskOK(desk, changes, unheard)
  BY DEF DeskOK, DeskInv
<1>13. DeskOK(desk', changes', unheard')
  BY <1>3, <1>12, DoneKeeps
<1>14. desk' \in [Desk -> {AtRest} \cup Working]
  BY <1>3, DoneFacts
<1> QED
  BY <1>3, <1>11, <1>13, <1>14 DEF DeskInv, DeskOK

LEMMA NothingChangedKeeps ==
    ASSUME DeskAssumption, DeskInv, NEW q \in Desk, NothingChanged(q)
    PROVE  DeskInv'
<1>1. Done(q) /\ UNCHANGED <<changes, entries, unheard>> /\ desk[q].at # "written"
  BY DEF NothingChanged
<1>2. Heard' = Heard
  BY <1>1, DoneFacts DEF Heard
<1>3. DeskOK(desk, changes, unheard)
  BY DEF DeskOK, DeskInv
<1>4. DeskOK(desk', changes', unheard')
  BY <1>1, <1>3, DoneKeeps
<1>5. desk' \in [Desk -> {AtRest} \cup Working]
  BY <1>1, DoneFacts
<1> QED
  BY <1>1, <1>2, <1>4, <1>5 DEF DeskInv, DeskOK

LEMMA AnswerLostKeeps ==
    ASSUME DeskAssumption, DeskInv, NEW q \in Desk, AnswerLost(q)
    PROVE  DeskInv'
<1> DEFINE n == desk[q].n
<1>1. /\ Done(q) /\ unheard' = unheard \cup {n} /\ UNCHANGED <<changes, entries>>
      /\ desk[q].at = "written" /\ desk[q] # AtRest
  BY DEF AnswerLost, AtRest
<1>2. n \in DOMAIN changes
  BY <1>1 DEF DeskInv, WorkOK
<1>3. Pending = Pending' \cup {n} /\ n \notin Pending'
  BY <1>1, DoneFacts
<1>4. Heard' = Heard
  BY <1>1, <1>3 DEF Heard
<1>5. DeskOK(desk, changes, unheard)
  BY DEF DeskOK, DeskInv
<1>6. DeskOK(desk', changes, unheard)
  BY <1>1, <1>5, DoneKeeps
<1>7. desk'[q] = AtRest /\ \A p \in Desk \ {q} : desk'[p] = desk[p]
  BY <1>1, DoneFacts
<1>8. ASSUME NEW p \in Desk, desk'[p] # AtRest PROVE WorkOK(desk'[p], changes', unheard')
  <2>1. p # q /\ desk'[p] = desk[p] /\ WorkOK(desk[p], changes, unheard)
    BY <1>5, <1>7, <1>8 DEF DeskOK
  <2>2. desk[p].at = "written" => desk[p].n # n
    BY <1>1, <2>1 DEF DeskInv
  <2> QED
    BY <1>1, <2>1, <2>2 DEF WorkOK
<1>9. desk' \in [Desk -> {AtRest} \cup Working]
  BY <1>1, DoneFacts
<1> HIDE DEF n
<1> QED
  BY <1>1, <1>2, <1>4, <1>6, <1>8, <1>9 DEF DeskInv, DeskOK

LEMMA DeskStep == DeskAssumption /\ DeskInv /\ [DeskNext]_deskVars => DeskInv'
<1> SUFFICES ASSUME DeskAssumption, DeskInv, [DeskNext]_deskVars PROVE DeskInv'
  OBVIOUS
<1>1. CASE UNCHANGED deskVars
  BY <1>1 DEF deskVars, DeskInv, Heard, Pending
<1>2. CASE DeskNext
  BY <1>2, HandleKeeps, TestKeeps, AwaitKeeps, WatchesListedKeeps, StoreWritesKeeps,
     StoreAnswersKeeps, NothingChangedKeeps, AnswerLostKeeps DEF DeskNext
<1> QED
  BY <1>1, <1>2

LEMMA DeskStart == DeskInit => DeskInv
<1> SUFFICES ASSUME DeskInit PROVE DeskInv
  OBVIOUS
<1>1. /\ desk = [q \in Desk |-> AtRest] /\ changes = <<>> /\ entries = <<>> /\ unheard = {}
      /\ DOMAIN changes = {} /\ DOMAIN entries = {}
  BY DEF DeskInit
<1>2. AtRest.at # "written"
  BY DEF AtRest
<1>3. LogOK(changes, entries, Heard)
  BY <1>1 DEF LogOK, Heard
<1> QED
  BY <1>1, <1>2, <1>3 DEF DeskInv

LEMMA DeskInvariant == DeskSpec => []DeskInv
  BY DeskAssumption, DeskStart, DeskStep, PTL DEF DeskSpec

\* The log tells of what was changed.
LEMMA LogTells == DeskAssumption /\ DeskInv => AuditTells
<1> SUFFICES ASSUME DeskAssumption, DeskInv PROVE AuditTells
  OBVIOUS
<1>1. /\ changes \in Seq(Change) /\ entries \in Seq(Logged)
      /\ LogOK(changes, entries, Heard)
  BY DEF DeskInv
<1>2. ASSUME NEW x \in DOMAIN entries
      PROVE  /\ entries[x].of \in Heard
             /\ LET c == changes[entries[x].of] IN
                  /\ entries[x].route = c.route /\ entries[x].actor = c.by /\ c.by \in Staff
                  /\ \A o \in Customers :
                        x \in AuditSnippet(o) <=>
                            x <= AuditShown /\ c.target = o /\ c.route # PostReply
  <2> DEFINE n == entries[x].of
             c == changes[n]
  <2>1. n \in Heard /\ n \in DOMAIN changes /\ entries[x] = OfChange(changes, n)
    BY <1>1 DEF LogOK
  <2>2. c \in Change /\ Aimed(c.route, c.target)
    BY <1>1, <2>1 DEF DeskInv
  <2>3. /\ entries[x].route = c.route /\ entries[x].actor = c.by
        /\ entries[x].targetId = IF c.route.names = "target" THEN c.target ELSE Platform
        /\ entries[x].organizationId = IF c.route.names = "metadata" THEN c.target ELSE Platform
    BY <2>1 DEF OfChange, Entry
  <2> HIDE DEF n, c
  <2>4. c.route \in DeskRoutes /\ c.by \in Staff
    BY <2>2 DEF Change
  <2>5. ASSUME NEW o \in Customers
        PROVE  o \in {entries[x].targetId, entries[x].organizationId}
                   <=> c.target = o /\ c.route # PostReply
    <3>1. o # Platform
      BY DEF DeskAssumption
    <3>2. c.route.about = "platform" => c.target = Platform
      BY <2>2 DEF Aimed, TargetsOf
    <3>3. CASE c.route.names = "nobody"
      BY <2>3, <2>4, <3>1, <3>2, <3>3, RouteFacts
    <3>4. CASE c.route.names \in {"target", "metadata"}
      <4>1. c.route # PostReply
        BY <2>4, <3>4, RouteFacts
      <4> QED
        BY <2>3, <3>1, <3>4, <4>1
    <3> QED
      BY <2>4, <3>3, <3>4, RouteFacts
  <2> QED
    BY <2>1, <2>3, <2>4, <2>5 DEF AuditSnippet, n, c
<1>3. ASSUME NEW n \in Heard
      PROVE  \E x \in DOMAIN entries : {y \in DOMAIN entries : entries[y].of = n} = {x}
  <2>1. PICK x \in DOMAIN entries : entries[x].of = n
    BY <1>1 DEF LogOK
  <2>2. {y \in DOMAIN entries : entries[y].of = n} = {x}
    BY <1>1, <2>1 DEF LogOK
  <2> QED
    BY <2>2
<1>4. ASSUME NEW x \in DOMAIN entries, NEW y \in DOMAIN entries,
             x < y, "store" \notin {changes[entries[z].of].route.awaits : z \in {x, y}}
      PROVE  entries[x].of > entries[y].of
  BY <1>1, <1>4 DEF LogOK
<1>5. \A x \in DOMAIN entries :
           /\ entries[x].of \in DOMAIN changes \ (unheard \cup Pending)
           /\ LET c == changes[entries[x].of] IN
              /\ entries[x].route = c.route /\ entries[x].actor = c.by /\ c.by \in Staff
              /\ \A o \in Customers :
                     x \in AuditSnippet(o) <=>
                         x <= AuditShown /\ c.target = o /\ c.route # PostReply
  BY <1>2 DEF Heard
<1>6. \A n \in DOMAIN changes \ (unheard \cup Pending) :
           \E x \in DOMAIN entries : {y \in DOMAIN entries : entries[y].of = n} = {x}
  BY <1>3 DEF Heard
<1>7. \A x, y \in DOMAIN entries :
           x < y /\ "store" \notin {changes[entries[z].of].route.awaits : z \in {x, y}}
           => entries[x].of > entries[y].of
  BY <1>4, Zenon
<1> QED
  BY <1>5, <1>6, <1>7 DEF AuditTells

\* The bounds of what the desk keeps.
LEMMA DeskBounded ==
    DeskInv /\ Len(changes) <= MaxChanges /\ [DeskNext]_deskVars => Len(changes') <= MaxChanges
<1> SUFFICES ASSUME DeskInv, Len(changes) <= MaxChanges, DeskNext, changes' # changes
             PROVE  Len(changes') <= MaxChanges
  BY DEF deskVars
<1>1. \E route, target, by : Changed(route, target, by)
  BY DEF DeskNext, Handle, TestWithoutKey, Await, WatchesListed, StoreWrites, StoreAnswers,
         NothingChanged, AnswerLost
<1>2. changes \in Seq(Change)
  BY DEF DeskInv
<1>3. Len(changes) < MaxChanges /\ \E c : changes' = Append(changes, c)
  BY <1>1 DEF Changed
<1>4. Len(changes') = Len(changes) + 1
  BY <1>2, <1>3
<1> QED
  BY <1>2, <1>3, <1>4, DeskAssumption

LEMMA DeskTyped ==
    DeskInv /\ Len(changes) <= MaxChanges => DeskTypeOK
<1> SUFFICES ASSUME DeskInv, Len(changes) <= MaxChanges PROVE DeskTypeOK
  OBVIOUS
<1>1. \A q \in Desk : desk[q].at \in {"idle", "watches", "store", "written"}
  BY DEF DeskInv, AtRest, Working
<1>2. \A x \in DOMAIN entries : entries[x].of \in 0..Len(changes)
  BY DEF DeskInv, LogOK
<1> QED
  BY <1>1, <1>2 DEF DeskInv, DeskTypeOK

--------------------------------------------------------------------------------
(***************************************************************************)
(* The pane of a thread.  What runs, or arrived, for who may still expect  *)
(* to see a message is of its thread and no older than the message.        *)
(***************************************************************************)

\* Who may still expect to see a message is at its thread, and what runs, or arrived, is of
\* that thread and no older than the message.
PaneInv ==
    /\ PaneTypeOK
    /\ Running => request.of.thread \in Conversation /\ request.of.messages \in Nat
    /\ saying = Silent \/ saying.thread \in Conversation
    /\ saying # Silent /\ ~saying.starts => pane # Empty
    /\ mine # Empty =>
           /\ picked = mine.thread /\ mine.thread \in Conversation
           /\ mine.messages \in Nat /\ mine.messages <= said[mine.thread]
           /\ Running => request.of.thread = mine.thread
           /\ request.state = "answered" => request.of.messages >= mine.messages
    /\ SentIsShown

PaneShapes ==
    /\ saying \in [thread : Conversation \cup {NoThread}, starts : BOOLEAN,
                   applied : BOOLEAN, left : BOOLEAN]
    /\ request \in [state : {"none", "asked", "answered", "done", "failed"},
                    of : [thread : Conversation \cup {NoThread}, messages : Nat]]
    /\ pane \in [thread : Conversation \cup {NoThread}, messages : Nat]
    /\ mine \in [thread : Conversation \cup {NoThread}, messages : Nat]

LEMMA PaneStep == PaneShapes /\ PaneInv /\ [PaneNext]_paneVars => PaneShapes' /\ PaneInv'
<1> SUFFICES ASSUME PaneShapes, PaneInv, [PaneNext]_paneVars PROVE PaneShapes' /\ PaneInv'
  OBVIOUS
<1> USE PaneAssumption DEF PaneShapes, PaneInv, PaneTypeOK, SentIsShown, Running, Empty, Shown,
        Silent, Saying, Asked, Ended
<1>1. CASE UNCHANGED paneVars
  BY <1>1 DEF paneVars
<1>2. ASSUME NEW t \in Conversation, SelectThread(t) PROVE PaneShapes' /\ PaneInv'
  BY <1>2 DEF SelectThread, Selecting
<1>3. ASSUME NEW t \in Conversation, SubmitCreateThread(t) PROVE PaneShapes' /\ PaneInv'
  BY <1>3 DEF SubmitCreateThread
<1>4. ASSUME NEW t \in Conversation, OthersSay(t) PROVE PaneShapes' /\ PaneInv'
  BY <1>4 DEF OthersSay
<1>5. CASE LeavePage
  BY <1>5 DEF LeavePage
<1>6. CASE FocusAgain
  BY <1>6 DEF FocusAgain
<1>7. CASE ServeThread
  BY <1>7 DEF ServeThread
<1>8. CASE ThreadArrives
  BY <1>8 DEF ThreadArrives
<1>9. CASE ThreadFails
  BY <1>9 DEF ThreadFails
<1>10. CASE SubmitMessage
  BY <1>10 DEF SubmitMessage
<1>11. CASE MessageApplied
  <2>1. /\ said[saying.thread] < MaxSaid /\ saying.thread \in Conversation
        /\ said' = [said EXCEPT ![saying.thread] = said[saying.thread] + 1]
        /\ saying' = [saying EXCEPT !.applied = TRUE] /\ saying # Silent
        /\ UNCHANGED <<seat, picked, pane, request, mine>>
    BY <1>11 DEF MessageApplied
  <2>2. /\ said' \in [Conversation -> 0..MaxSaid]
        /\ \A t \in Conversation : said[t] <= said'[t]
    BY <2>1
  <2>3. /\ saying'.thread = saying.thread /\ saying'.starts = saying.starts
        /\ saying' \in [thread : Conversation \cup {NoThread}, starts : BOOLEAN,
                        applied : BOOLEAN, left : BOOLEAN]
    BY <2>1
  <2>4. PaneShapes' /\ PaneTypeOK'
    BY <2>1, <2>2, <2>3
  <2>5. mine # Empty => mine.messages <= said'[mine.thread]
    BY <2>2
  <2> QED
    BY <2>1, <2>3, <2>4, <2>5
<1>12. CASE MessageSettles
  BY <1>12 DEF MessageSettles, FetchedAgain
<1>13. CASE CreateSettles
  BY <1>13 DEF CreateSettles, Selecting, FetchedAgain
<1>14. CASE MessageFails
  BY <1>14 DEF MessageFails
<1> QED
  BY <1>1, <1>2, <1>3, <1>4, <1>5, <1>6, <1>7, <1>8, <1>9, <1>10, <1>11, <1>12, <1>13, <1>14
     DEF PaneNext

LEMMA PaneStart == PaneInit => PaneShapes /\ PaneInv
  BY PaneAssumption DEF PaneInit, PaneShapes, PaneInv, PaneTypeOK, SentIsShown, Running, Empty,
     Shown, Silent, Saying, Ended

LEMMA PaneInvariant == PaneSpec => [](PaneShapes /\ PaneInv)
  BY PaneStart, PaneStep, PTL DEF PaneSpec

\* Whoever writes to a thread and stays with it sees the message there.
THEOREM WritersSeeTheirs == PaneSpec => []SentIsShown
<1>1. PaneShapes /\ PaneInv => SentIsShown
  BY DEF PaneInv
<1> QED
  BY <1>1, PaneInvariant, PTL

--------------------------------------------------------------------------------
(***************************************************************************)
(* The cache of queries.  What this browser wrote last and has an answer   *)
(* for is what an entry has, or is about to ask for.                       *)
(***************************************************************************)

\* The entry of the followed query.
Entries ==
    [data : Nat, flight : {"none", "asked", "answered"}, answer : Nat,
     failed : BOOLEAN, owed : BOOLEAN]

\* A write of this browser's that is not settled: its answer will tell the query.
Unsettled == sent # NotSent /\ sent.applied /\ sent.effect.writes

\* The fact was last written by one whose answer reaches the query.
Told == fact.by # "elsewhere" /\ <<fact.by, followed.key>> \notin Gaps

\* What the entry has, or is about to have, is what the server holds.
UpToDate ==
    /\ entry.flight = "answered" => entry.answer = fact.version
    /\ entry.flight = "none" => entry.failed \/ entry.data \in {Unknown, fact.version}

CacheShapes ==
    /\ followed \in Browsers /\ screen \in followed.screens
    /\ fact = [version |-> fact.version, by |-> fact.by] /\ fact.version \in Nat
    /\ entry \in Entries
    /\ sent = [effect |-> sent.effect, applied |-> sent.applied] /\ sent.applied \in BOOLEAN

CacheInv ==
    /\ CacheShapes
    /\ sent # NotSent /\ sent.effect.writes /\ ~sent.effect.tells =>
           <<sent.effect.by, followed.key>> \in Gaps
    /\ Unsettled =>
           \/ fact.by \in {sent.effect.by, "elsewhere"}
           \/ <<fact.by, followed.key>> \in Gaps
    /\ (screen.observes \/ entry.flight # "none") /\ ~entry.owed /\ Told /\ ~Unsettled => UpToDate

LEMMA AskingIs ==
    ASSUME NEW e \in Entries
    PROVE  Asking(e) \in Entries /\ Asking(e).flight = "asked" /\ Asking(e).owed = FALSE
<1>1. Unknown \in Nat
  BY CacheAssumption DEF Unknown
<1> DEFINE first == [e EXCEPT !.flight = "asked"]
           second == [first EXCEPT !.answer = Unknown]
           third == [second EXCEPT !.owed = FALSE]
<1>2. first \in Entries /\ first.flight = "asked"
  BY DEF Entries
<1>3. Asking(e) = [third EXCEPT !.failed = FALSE]
  BY DEF Asking
<1> HIDE DEF first
<1>4. second \in Entries /\ second.flight = "asked"
  BY <1>1, <1>2 DEF Entries
<1> HIDE DEF second
<1>5. third \in Entries /\ third.flight = "asked" /\ third.owed = FALSE
  BY <1>4 DEF Entries
<1> HIDE DEF third
<1> QED
  BY <1>3, <1>5 DEF Entries

LEMMA CacheStep == CacheInv /\ [CacheNext]_cacheVars => CacheInv'
<1> SUFFICES ASSUME CacheInv, [CacheNext]_cacheVars PROVE CacheInv'
  OBVIOUS
<1> USE DEF CacheInv, CacheShapes, Unsettled, Told, UpToDate, Entries
<1>0. /\ screen.expires => <<"readDeadlines", followed.key>> \in Gaps
      /\ \A e \in screen.effects : e.writes /\ ~e.tells => <<e.by, followed.key>> \in Gaps
  BY GapsAssumption
<1>01. Unknown \in Nat /\ Asking(entry) \in Entries
       /\ Asking(entry).flight = "asked" /\ Asking(entry).owed = FALSE
  <2>1. Unknown \in Nat
    BY CacheAssumption DEF Unknown
  <2>2. entry \in Entries
    OBVIOUS
  <2>3. /\ Asking(entry) \in Entries
        /\ Asking(entry).flight = "asked" /\ Asking(entry).owed = FALSE
    BY <2>2, AskingIs, Zenon
  <2> QED
    BY <2>1, <2>3
<1>1. CASE UNCHANGED cacheVars
  BY <1>1 DEF cacheVars
<1>2. ASSUME NEW s \in followed.screens, Open(s) PROVE CacheInv'
  BY <1>01, <1>2 DEF Open, Fetched
<1>3. ASSUME NEW e \in screen.effects, Send(e) PROVE CacheInv'
  BY <1>0, <1>3 DEF Send
<1>4. CASE Refetch
  BY <1>01, <1>4 DEF Refetch
<1>5. CASE Serve
  BY <1>5 DEF Serve
<1>6. CASE Arrive
  BY <1>01, <1>6 DEF Arrive
<1>7. CASE FetchFails
  BY <1>01, <1>7 DEF FetchFails
<1>8. CASE Apply
  <2>1. /\ sent # NotSent /\ ~sent.applied /\ sent' = [sent EXCEPT !.applied = TRUE]
        /\ UNCHANGED <<followed, screen, entry>>
        /\ fact' = IF sent.effect.writes THEN Written(sent.effect.by) ELSE fact
    BY <1>8 DEF Apply
  <2>2. sent'.effect = sent.effect /\ sent'.applied = TRUE
        /\ sent' = [effect |-> sent'.effect, applied |-> sent'.applied]
    BY <2>1
  <2>3. CASE sent.effect.writes
    <3>1. sent' # NotSent
      BY <2>2 DEF NotSent
    <3> QED
      BY <2>1, <2>2, <2>3, <3>1 DEF Written
  <2>4. CASE ~sent.effect.writes
    BY <2>1, <2>2, <2>4
  <2> QED
    BY <2>3, <2>4
<1>9. CASE Fail
  BY <1>9 DEF Fail, NotSent
<1>10. CASE Settle
  <2>1. /\ sent # NotSent /\ sent.applied /\ sent' = NotSent
        /\ entry' = IF sent.effect.tells \/ Refetches THEN Invalidated(entry) ELSE entry
        /\ UNCHANGED <<followed, screen, fact>>
    BY <1>10 DEF Settle
  <2>2. sent' = [effect |-> sent'.effect, applied |-> sent'.applied]
        /\ sent'.applied = FALSE
    BY <2>1 DEF NotSent
  <2>3. CASE sent.effect.tells \/ Refetches
    <3>1. CASE screen.observes /\ (entry.flight = "none" \/ entry.data # Unknown)
      BY <1>01, <2>1, <2>2, <2>3, <3>1 DEF Invalidated
    <3>2. CASE ~(screen.observes /\ (entry.flight = "none" \/ entry.data # Unknown))
      BY <2>1, <2>2, <2>3, <3>2 DEF Invalidated
    <3> QED
      BY <3>1, <3>2
  <2>4. CASE ~(sent.effect.tells \/ Refetches)
    BY <2>1, <2>2, <2>4
  <2> QED
    BY <2>3, <2>4
<1>11. CASE WriteElsewhere
  BY <1>11 DEF WriteElsewhere, Written
<1>12. CASE ReadDeadlines
  BY <1>0, <1>12 DEF ReadDeadlines, Written
<1>13. CASE Collect
  BY <1>01, <1>13 DEF Collect, Uncached
<1> QED
  BY <1>1, <1>2, <1>3, <1>4, <1>5, <1>6, <1>7, <1>8, <1>9, <1>10, <1>11, <1>12, <1>13
     DEF CacheNext

\* Versions stay within their bound.
LEMMA CacheTyped == CacheInv /\ CacheTypeOK /\ [CacheNext]_cacheVars => CacheTypeOK'
<1> SUFFICES ASSUME CacheInv, CacheTypeOK, [CacheNext]_cacheVars PROVE CacheTypeOK'
  OBVIOUS
<1>1. /\ followed \in Browsers /\ screen \in followed.screens
      /\ fact = [version |-> fact.version, by |-> fact.by]
      /\ entry \in Entries
      /\ MaxVersion \in Nat /\ Unknown = MaxVersion + 1
      /\ fact.version \in 0..MaxVersion
      /\ entry.data \in 0..Unknown /\ entry.answer \in 0..Unknown
  BY CacheAssumption DEF CacheInv, CacheShapes, CacheTypeOK, Unknown
<1>2. UNCHANGED followed /\ (UNCHANGED screen \/ \E s \in followed.screens : screen' = s)
  BY DEF CacheNext, cacheVars, Open, Send, Refetch, Serve, Arrive, FetchFails, Apply, Fail,
         Settle, WriteElsewhere, ReadDeadlines, Collect
<1>3. fact'.version \in 0..MaxVersion
  BY <1>1 DEF CacheNext, cacheVars, Open, Send, Refetch, Serve, Arrive, FetchFails, Apply, Fail,
         Settle, WriteElsewhere, ReadDeadlines, Collect, Written
<1>4. /\ Asking(entry) \in Entries /\ Asking(entry).flight = "asked"
      /\ Asking(entry).data = entry.data /\ Asking(entry).answer = Unknown
  BY <1>1, AskingIs DEF Asking, Entries
<1>5. \/ UNCHANGED entry
      \/ entry' = Asking(entry)
      \/ entry' = [entry EXCEPT !.owed = entry.owed \/ entry.flight # "none"]
      \/ entry' = [entry EXCEPT !.flight = "answered", !.answer = fact.version]
      \/ entry' = [entry EXCEPT !.flight = "none", !.data = entry.answer, !.answer = Unknown]
      \/ entry' = [entry EXCEPT !.flight = "none", !.answer = Unknown, !.failed = TRUE]
      \/ entry' = Uncached
  BY DEF CacheNext, cacheVars, Open, Send, Refetch, Serve, Arrive, FetchFails, Apply, Fail,
         Settle, WriteElsewhere, ReadDeadlines, Collect, Fetched, Invalidated
<1>6. /\ entry'.data \in 0..Unknown /\ entry'.answer \in 0..Unknown
      /\ entry'.flight \in {"none", "asked", "answered"}
  <2>1. CASE UNCHANGED entry
    BY <1>1, <2>1 DEF Entries
  <2>2. CASE entry' = Asking(entry)
    BY <1>1, <1>4, <2>2 DEF Entries
  <2>3. CASE entry' = [entry EXCEPT !.owed = entry.owed \/ entry.flight # "none"]
    BY <1>1, <2>3 DEF Entries
  <2>4. CASE entry' = [entry EXCEPT !.flight = "answered", !.answer = fact.version]
    BY <1>1, <2>4 DEF Entries
  <2>5. CASE entry' = [entry EXCEPT !.flight = "none", !.data = entry.answer, !.answer = Unknown]
    BY <1>1, <2>5 DEF Entries
  <2>6. CASE entry' = [entry EXCEPT !.flight = "none", !.answer = Unknown, !.failed = TRUE]
    BY <1>1, <2>6 DEF Entries
  <2>7. CASE entry' = Uncached
    BY <1>1, <2>7 DEF Uncached
  <2> QED
    BY <1>5, <2>1, <2>2, <2>3, <2>4, <2>5, <2>6, <2>7
<1> QED
  BY <1>1, <1>2, <1>3, <1>6 DEF CacheTypeOK

LEMMA CacheStart == CacheInit => CacheInv /\ CacheTypeOK
<1> SUFFICES ASSUME CacheInit PROVE CacheInv /\ CacheTypeOK
  OBVIOUS
<1>1. Unknown \in Nat
  BY CacheAssumption DEF Unknown
<1>2. Uncached \in Entries
  BY <1>1 DEF Uncached, Entries
<1>3. entry \in Entries /\ entry.flight = "asked"
  BY <1>2, AskingIs DEF CacheInit
<1>4. sent = NotSent /\ NotSent = [effect |-> NotSent.effect, applied |-> NotSent.applied]
      /\ NotSent.applied = FALSE
  BY DEF CacheInit, NotSent
<1>5. CacheInv
  BY <1>3, <1>4 DEF CacheInit, CacheInv, CacheShapes, Unsettled, UpToDate
<1>6. entry.data = Unknown /\ entry.answer = Unknown
  BY DEF CacheInit, Asking, Uncached
<1> QED
  BY <1>1, <1>3, <1>5, <1>6, CacheAssumption DEF CacheInit, CacheTypeOK, Unknown

LEMMA CacheInvariant == CacheSpec => []CacheInv
  BY CacheStart, CacheStep, PTL DEF CacheSpec

\* What this browser wrote last, an observed query shows once everything is answered.
THEOREM ScreensAreCurrent == CacheSpec => []ScreenIsCurrent
<1>1. CacheInv => ScreenIsCurrent
  BY DEF CacheInv, Unsettled, Told, UpToDate, ScreenIsCurrent
<1> QED
  BY <1>1, CacheInvariant, PTL

--------------------------------------------------------------------------------
(***************************************************************************)
(* The wizards.  While no answer overtakes another, the price asked last,  *)
(* or shown, is that of what is selected now; and a watch is made of the   *)
(* registration the page shows.                                            *)
(***************************************************************************)

Selection == SUBSET [register : Searchable, classes : SUBSET Classes]
Order == [scopes : Selection, shown : SUBSET Searchable, awaited : BOOLEAN,
          state : {"none", "sent", "placed"}]

\* While no answer overtook another, the price asked last, or shown, is that of what is
\* selected now.
PriceIsCurrent ==
    ~overtaken /\ ScopesValid =>
        IF asked # <<>> THEN asked[Len(asked)] = Scopes
        ELSE quote # {} => quote = PriceOf(Scopes)

ResearchTyped ==
    /\ step \in 1..4 /\ selected \subseteq Searchable
    /\ ticked \in [Searchable -> SUBSET Classes]
    /\ asked \in Seq(Selection) /\ Len(asked) <= MaxAsked
    /\ quote \subseteq Searchable /\ overtaken \in BOOLEAN
    /\ ordering \in Order

ResearchInv == ResearchTyped /\ PriceIsCurrent /\ OrderedAsQuoted

-------------------------------------------------------------------------------
LEMMA ScopesTyped ==
    ASSUME NEW sel \in SUBSET Searchable, NEW ticks \in [Searchable -> SUBSET Classes]
    PROVE  {[register |-> r, classes |-> IF ticks[r] = {} THEN Preferred ELSE ticks[r]] : r \in sel}
               \in Selection
  BY WizardAssumption DEF Selection

LEMMA PricesTyped == \A scopes \in Selection : PriceOf(scopes) \in SUBSET Searchable
  BY DEF Selection, PriceOf

\* Whatever is picked, the price is asked of it, or there is none.
LEMMA AskKeeps ==
    ASSUME ResearchInv, Ask, selected' \subseteq Searchable,
           ticked' \in [Searchable -> SUBSET Classes]
    PROVE  ResearchInv'
<1>1. /\ asked' = IF ScopesValid' THEN Append(asked, Scopes') ELSE asked
      /\ quote' = IF ScopesValid' THEN quote ELSE {}
      /\ Len(asked') <= MaxAsked
      /\ UNCHANGED <<step, overtaken, ordering>>
  BY DEF Ask
<1>2. Scopes' \in Selection
  BY ScopesTyped DEF Scopes
<1>3. asked \in Seq(Selection)
  BY DEF ResearchInv, ResearchTyped
<1>4. ResearchTyped'
  BY <1>1, <1>2, <1>3 DEF ResearchInv, ResearchTyped
<1>5. PriceIsCurrent'
  <2>1. CASE ScopesValid'
    <3>1. asked' # <<>> /\ asked'[Len(asked')] = Scopes'
      BY <1>1, <1>2, <1>3, <2>1
    <3> QED
      BY <3>1 DEF PriceIsCurrent
  <2>2. CASE ~ScopesValid'
    BY <2>2 DEF PriceIsCurrent
  <2> QED
    BY <2>1, <2>2
<1>6. OrderedAsQuoted'
  BY <1>1 DEF ResearchInv, OrderedAsQuoted
<1> QED
  BY <1>4, <1>5, <1>6 DEF ResearchInv

LEMMA RemovesOne ==
    ASSUME NEW s \in Seq(Selection), NEW x \in DOMAIN s
    PROVE  /\ Picks!RemoveAt(s, x) \in Seq(Selection)
           /\ Len(Picks!RemoveAt(s, x)) = Len(s) - 1
           /\ x < Len(s) => Picks!RemoveAt(s, x)[Len(s) - 1] = s[Len(s)]
<1> DEFINE front == SubSeq(s, 1, x - 1)
           back == SubSeq(s, x + 1, Len(s))
<1>1. x \in 1..Len(s) /\ Len(s) \in Nat
  OBVIOUS
<1>2. front \in Seq(Selection) /\ Len(front) = x - 1
  BY <1>1
<1>3. /\ back \in Seq(Selection) /\ Len(back) = Len(s) - x
      /\ x < Len(s) => back[Len(s) - x] = s[Len(s)]
  <2>1. \A i \in (x + 1)..Len(s) : s[i] \in Selection
    BY <1>1
  <2>2. /\ back \in Seq(Selection)
        /\ Len(back) = IF x + 1 <= Len(s) THEN Len(s) - (x + 1) + 1 ELSE 0
        /\ \A i \in 1..Len(s) - (x + 1) + 1 : back[i] = s[(x + 1) + i - 1]
    BY <1>1, <2>1, SubSeqProperties
  <2> HIDE DEF back
  <2>3. Len(back) = Len(s) - x
    BY <1>1, <2>2
  <2>4. ASSUME x < Len(s) PROVE back[Len(s) - x] = s[Len(s)]
    <3>1. Len(s) - x \in 1..Len(s) - (x + 1) + 1 /\ (x + 1) + (Len(s) - x) - 1 = Len(s)
      <4>1. \A k, m \in Nat : 1 <= k /\ k < m =>
                m - k \in 1..m - (k + 1) + 1 /\ (k + 1) + (m - k) - 1 = m
        OBVIOUS
      <4>2. x \in Nat /\ 1 <= x
        BY <1>1
      <4> QED
        BY <1>1, <2>4, <4>1, <4>2
    <3> QED
      BY <2>2, <3>1
  <2> QED
    BY <2>2, <2>3, <2>4
<1>4. Picks!RemoveAt(s, x) = front \o back
  BY DEF Picks!RemoveAt
<1> HIDE DEF front, back
<1>5. front \o back \in Seq(Selection) /\ Len(front \o back) = Len(s) - 1
  BY <1>1, <1>2, <1>3
<1>6. ASSUME x < Len(s) PROVE (front \o back)[Len(s) - 1] = back[Len(s) - x]
  <2>1. Len(s) - 1 \in 1..(Len(front) + Len(back)) /\ Len(s) - 1 > Len(front)
        /\ Len(s) - 1 - Len(front) = Len(s) - x
    BY <1>1, <1>2, <1>3, <1>6
  <2>2. (front \o back)[Len(s) - 1] =
            IF Len(s) - 1 <= Len(front) THEN front[Len(s) - 1]
            ELSE back[Len(s) - 1 - Len(front)]
    BY <1>2, <1>3, <2>1, ConcatProperties
  <2>3. ~(Len(s) - 1 <= Len(front))
    BY <1>1, <1>2, <2>1
  <2> QED
    BY <2>1, <2>2, <2>3
<1> QED
  BY <1>3, <1>4, <1>5, <1>6

\* An answer takes the price it brings, or none, from the prices asked.
LEMMA AnswerKeeps ==
    ASSUME ResearchInv, NEW x \in DOMAIN asked,
           asked' = Picks!RemoveAt(asked, x), overtaken' = (overtaken \/ x > 1),
           quote' \in {{}, PriceOf(asked[x])},
           UNCHANGED <<step, selected, ticked, ordering>>
    PROVE  ResearchInv'
<1>1. /\ asked \in Seq(Selection) /\ overtaken \in BOOLEAN /\ Len(asked) <= MaxAsked
      /\ asked[x] \in Selection /\ x \in 1..Len(asked) /\ Len(asked) \in Nat /\ MaxAsked \in Nat
  BY WizardAssumption DEF ResearchInv, ResearchTyped
<1>2. /\ asked' \in Seq(Selection) /\ Len(asked') = Len(asked) - 1
      /\ x < Len(asked) => asked'[Len(asked')] = asked[Len(asked)]
  BY <1>1, RemovesOne
<1>3. quote' \subseteq Searchable
  BY <1>1, PricesTyped
<1>4. ResearchTyped'
  BY <1>1, <1>2, <1>3 DEF ResearchInv, ResearchTyped
<1>5. Scopes' = Scopes /\ (ScopesValid' <=> ScopesValid)
  BY DEF Scopes, ScopesValid
<1>6. ASSUME ~overtaken', ScopesValid'
      PROVE  IF asked' # <<>> THEN asked'[Len(asked')] = Scopes'
             ELSE quote' # {} => quote' = PriceOf(Scopes')
  <2>1. ~overtaken /\ ~(x > 1) /\ ScopesValid
    BY <1>5, <1>6, Zenon
  <2>10. x = 1
    BY <1>1, <2>1
  <2>2. asked # <<>> /\ asked[Len(asked)] = Scopes
    BY <1>1, <2>1 DEF ResearchInv, PriceIsCurrent
  <2>3. CASE Len(asked) = 1
    BY <1>1, <1>2, <1>5, <2>10, <2>2, <2>3
  <2>4. CASE Len(asked) > 1
    BY <1>1, <1>2, <1>5, <2>10, <2>2, <2>4
  <2>5. Len(asked) = 1 \/ Len(asked) > 1
    <3>1. \A m \in Nat : 1 \in 1..m => m = 1 \/ m > 1
      OBVIOUS
    <3> QED
      BY <1>1, <2>10, <3>1
  <2> QED
    BY <2>3, <2>4, <2>5
<1>7. PriceIsCurrent'
  BY <1>6 DEF PriceIsCurrent
<1>8. OrderedAsQuoted'
  BY <1>1 DEF ResearchInv, OrderedAsQuoted
<1> QED
  BY <1>4, <1>7, <1>8 DEF ResearchInv

LEMMA ResearchStep == ResearchInv /\ [ResearchNext \/ WatchNext]_wizardVars => ResearchInv'
<1> SUFFICES ASSUME ResearchInv, [ResearchNext \/ WatchNext]_wizardVars PROVE ResearchInv'
  OBVIOUS
<1> USE DEF Picking
<1>0. selected \subseteq Searchable /\ ticked \in [Searchable -> SUBSET Classes]
  BY DEF ResearchInv, ResearchTyped
<1>1. CASE UNCHANGED researchVars
  BY <1>1 DEF researchVars, ResearchInv, ResearchTyped, PriceIsCurrent, OrderedAsQuoted,
     Scopes, ScopesValid
<1>2. CASE WatchNext
  <2>1. UNCHANGED researchVars
    BY <1>2 DEF WatchNext, Turn, RunLookup, LookedUp, NotFound, ConfirmCreate, TypeNumber,
       TypeLabel, Created
  <2> QED
    BY <1>1, <2>1
<1>3. ASSUME NEW r \in Searchable, ToggleRegister(r) PROVE ResearchInv'
  <2>1. selected' \subseteq Searchable
    BY <1>0, <1>3 DEF ToggleRegister, Picks!SymDiff
  <2>2. ticked' \in [Searchable -> SUBSET Classes]
    BY <1>0, <1>3, WizardAssumption DEF ToggleRegister
  <2> QED
    BY <1>3, <2>1, <2>2, AskKeeps DEF ToggleRegister
<1>4. ASSUME NEW r \in Searchable, NEW c \in Classes, ToggleClass(r, c) PROVE ResearchInv'
  <2>1. ticked' \in [Searchable -> SUBSET Classes]
    BY <1>0, <1>4 DEF ToggleClass, Picks!SymDiff
  <2> QED
    BY <1>0, <1>4, <2>1, AskKeeps DEF ToggleClass
<1>5. ASSUME NEW r \in Searchable, SelectAllClasses(r) PROVE ResearchInv'
  BY <1>0, <1>5, AskKeeps DEF SelectAllClasses
<1>6. ASSUME NEW r \in Searchable, ClearClasses(r) PROVE ResearchInv'
  BY <1>0, <1>6, AskKeeps DEF ClearClasses
<1>7. ASSUME NEW x \in DOMAIN asked, QuoteAnswers(x) \/ QuoteFails(x) PROVE ResearchInv'
  BY <1>7, AnswerKeeps DEF QuoteAnswers, QuoteFails
<1>8. ASSUME NEW from \in 1..4, NEW to \in {from - 1, from + 1} \cap (1..4), Walk(from, to)
      PROVE  ResearchInv'
  BY <1>8 DEF Walk, ResearchInv, ResearchTyped, PriceIsCurrent, OrderedAsQuoted, Scopes,
     ScopesValid
<1>9. CASE PlaceOrder
  <2>1. /\ ScopesValid
        /\ ordering' = [scopes |-> Scopes, shown |-> quote, awaited |-> asked # <<>>,
                        state |-> "sent"]
        /\ UNCHANGED <<step, selected, ticked, asked, quote, overtaken>>
    BY <1>9 DEF PlaceOrder
  <2>2. Scopes \in Selection
    BY <1>0, ScopesTyped DEF Scopes
  <2>3. ordering' \in Order
    BY <2>1, <2>2 DEF Order, ResearchInv, ResearchTyped
  <2>4. Scopes' = Scopes /\ (ScopesValid' <=> ScopesValid)
    BY <2>1 DEF Scopes, ScopesValid
  <2>5. PriceIsCurrent'
    BY <2>1, <2>4 DEF ResearchInv, PriceIsCurrent
  <2>6. OrderedAsQuoted'
    BY <2>1 DEF ResearchInv, PriceIsCurrent, OrderedAsQuoted
  <2> QED
    BY <2>1, <2>3, <2>5, <2>6 DEF ResearchInv, ResearchTyped
<1>10. ASSUME NEW state \in {"placed", "refused"}, OrderAnswered(state) PROVE ResearchInv'
  <2>1. /\ ordering.state = "sent"
        /\ ordering' = IF state = "placed" THEN [ordering EXCEPT !.state = "placed"] ELSE Unsent
        /\ UNCHANGED <<step, selected, ticked, asked, quote, overtaken>>
    BY <1>10 DEF OrderAnswered
  <2>2. Unsent \in Order /\ Unsent.state = "none"
    BY DEF Unsent, Order, Selection
  <2>3. ordering \in Order
    BY DEF ResearchInv, ResearchTyped
  <2>4. ordering' \in Order
    BY <2>1, <2>2, <2>3 DEF Order
  <2>5. \/ ordering'.state = "none"
        \/ /\ ordering'.awaited = ordering.awaited /\ ordering'.shown = ordering.shown
           /\ ordering'.scopes = ordering.scopes
    BY <2>1, <2>2, <2>3 DEF Order
  <2>6. OrderedAsQuoted'
    BY <2>1, <2>5 DEF ResearchInv, OrderedAsQuoted
  <2>7. PriceIsCurrent'
    BY <2>1 DEF ResearchInv, PriceIsCurrent, Scopes, ScopesValid
  <2> QED
    BY <2>1, <2>4, <2>6, <2>7 DEF ResearchInv, ResearchTyped
<1> QED
  BY <1>1, <1>2, <1>3, <1>4, <1>5, <1>6, <1>7, <1>8, <1>9, <1>10 DEF ResearchNext, wizardVars

LEMMA ResearchStart == ResearchInit => ResearchInv
<1> SUFFICES ASSUME ResearchInit PROVE ResearchInv
  OBVIOUS
<1>1. /\ selected \subseteq Searchable /\ ticked \in [Searchable -> SUBSET Classes]
      /\ step = 1 /\ quote = {} /\ overtaken = FALSE /\ ordering = Unsent
  BY WizardAssumption DEF ResearchInit
<1>2. Unsent \in Order /\ Unsent.state = "none"
  BY DEF Unsent, Order, Selection
<1>3. Scopes \in Selection
  BY <1>1, ScopesTyped DEF Scopes
<1>4. /\ asked \in Seq(Selection) /\ Len(asked) = 1 /\ asked # <<>> /\ asked[Len(asked)] = Scopes
  BY <1>3 DEF ResearchInit
<1>5. Len(asked) <= MaxAsked
  BY <1>4, WizardAssumption
<1> QED
  <2>1. ResearchTyped
    <3>1. step \in 1..4 /\ quote \subseteq Searchable
      BY <1>1
    <3>3. overtaken \in BOOLEAN
      BY <1>1, Zenon
    <3>2. ordering \in Order
      BY <1>1, <1>2
    <3> QED
      BY <1>1, <1>4, <1>5, <3>1, <3>2, <3>3 DEF ResearchTyped
  <2>2. PriceIsCurrent
    BY <1>4 DEF PriceIsCurrent
  <2> QED
    BY <1>1, <1>2, <2>1, <2>2 DEF ResearchInv, OrderedAsQuoted

-------------------------------------------------------------------------------
\* A watch is being made of what was found, under the label it has.

WatchInv ==
    /\ page \in 1..8 /\ {number, found} \subseteq Numbers \cup {Nothing}
    /\ page \in 3..7 => number \in Numbers
    /\ page = 7 => label # Nothing
    /\ WatchedAsShown

LEMMA WatchStep == WatchInv /\ [ResearchNext \/ WatchNext]_wizardVars => WatchInv'
<1> SUFFICES ASSUME WatchInv, [ResearchNext \/ WatchNext]_wizardVars PROVE WatchInv'
  OBVIOUS
<1> USE DEF WatchInv, WatchedAsShown
<1>1. CASE UNCHANGED watchVars
  BY <1>1 DEF watchVars
<1>2. CASE ResearchNext
  <2>1. UNCHANGED watchVars
    BY <1>2 DEF ResearchNext, ToggleRegister, ToggleClass, SelectAllClasses, ClearClasses, Ask,
       QuoteAnswers, QuoteFails, Walk, PlaceOrder, OrderAnswered
  <2> QED
    BY <1>1, <2>1
<1>3. CASE Turn
  BY <1>3 DEF Turn
<1>4. CASE RunLookup
  BY <1>4 DEF RunLookup
<1>5. CASE LookedUp
  BY <1>5 DEF LookedUp
<1>6. CASE NotFound
  BY <1>6 DEF NotFound
<1>7. CASE ConfirmCreate
  BY <1>7 DEF ConfirmCreate
<1>8. ASSUME NEW n \in Numbers, TypeNumber(n) PROVE WatchInv'
  BY <1>8 DEF TypeNumber
<1>9. ASSUME NEW l \in {"own", Nothing}, TypeLabel(l) PROVE WatchInv'
  BY <1>9 DEF TypeLabel
<1>10. ASSUME NEW accepted \in BOOLEAN, Created(accepted) PROVE WatchInv'
  BY <1>10 DEF Created
<1> QED
  BY <1>1, <1>2, <1>3, <1>4, <1>5, <1>6, <1>7, <1>8, <1>9, <1>10 DEF WatchNext, wizardVars

LEMMA WatchStart == WatchInit => WatchInv
  BY DEF WatchInit, WatchInv, WatchedAsShown

--------------------------------------------------------------------------------
(***************************************************************************)
(* The forms.  A form that follows holds what its query has wherever       *)
(* nobody typed, and ticks among the active watches that are as many as    *)
(* those are all of them.                                                  *)
(***************************************************************************)

Filled == [Field -> Content]

DraftInv ==
    /\ form \in FormsThereAre /\ record \in Filled /\ known \in Filled /\ draft \in Filled
    /\ typed \subseteq Field
    /\ saving \in [fields : SUBSET Field, sent : Filled, written : BOOLEAN]
    /\ coming \in [state : {"none", "asked", "read"}, with : Filled]
    /\ form.follows => \A f \in Field \ typed : draft[f] = known[f]

\* A form that puts back what the query has does not follow it.
LEMMA RestoresOrFollows == \A f \in FormsThereAre : ~f.restores \/ ~f.follows
  BY DEF FormsThereAre, Form, ProfileForm, LocaleForm, OrgProfileForm, ForceForm, WeightsForm,
     ThresholdDrafts, WatchSettingsForm, NotesForm, PlanForm, PriceForm

LEMMA BlankForm ==
    /\ Unsaved \in [fields : SUBSET Field, sent : Filled, written : BOOLEAN]
    /\ Unfetched \in [state : {"none", "asked", "read"}, with : Filled]
    /\ [Unfetched EXCEPT !.state = "asked"] \in [state : {"none", "asked", "read"}, with : Filled]
  BY FormsAssumption DEF Unsaved, Unfetched, Filled

DraftStep ==
    /\ coming' # coming /\ saving' = saving /\ draft' # draft => form.follows /\ known' # known
    /\ form.follows => \A f \in Field \ typed' : draft'[f] = known'[f]

LEMMA DraftsStep ==
    DraftInv /\ [DraftsNext \/ TicksNext]_formVars => DraftInv' /\ DraftStep
<1> SUFFICES ASSUME DraftInv, [DraftsNext \/ TicksNext]_formVars PROVE DraftInv' /\ DraftStep
  OBVIOUS
<1> USE DEF DraftInv, DraftStep
<1>1. CASE UNCHANGED draftVars
  BY <1>1 DEF draftVars
<1>2. CASE TicksNext
  <2>1. UNCHANGED draftVars
    BY <1>2 DEF TicksNext, OpenAddRecipient, OpenEditRecipient, ToggleWatchSelection,
       WatchesArrive, SubmitRecipient
  <2> QED
    BY <1>1, <2>1
<1>3. CASE OpenForm
  BY <1>3 DEF OpenForm
<1>4. ASSUME NEW fields \in SUBSET Field, SaveFields(fields) PROVE DraftInv' /\ DraftStep
  BY <1>4 DEF SaveFields
<1>5. CASE SaveWritten
  <2>1. record' \in Filled
    BY <1>5 DEF SaveWritten, Filled
  <2>2. saving' \in [fields : SUBSET Field, sent : Filled, written : BOOLEAN]
    BY <1>5 DEF SaveWritten
  <2> QED
    BY <1>5, <2>1, <2>2 DEF SaveWritten
<1>6. CASE SaveSettles
  BY <1>6, BlankForm DEF SaveSettles
<1>7. CASE SaveFails
  BY <1>7, BlankForm, RestoresOrFollows DEF SaveFails
<1>8. CASE FetchSection
  BY <1>8, BlankForm DEF FetchSection
<1>9. CASE ReadSection
  BY <1>9 DEF ReadSection
<1>10. CASE SectionArrives
  BY <1>10, BlankForm DEF SectionArrives, Refilled
<1>11. ASSUME NEW f \in Field, NEW c \in Content, TypeIn(f, c) PROVE DraftInv' /\ DraftStep
  BY <1>11 DEF TypeIn, Filled
<1>12. ASSUME NEW f \in Field, NEW c \in Content, OthersWrite(f, c) PROVE DraftInv' /\ DraftStep
  <2>1. record' \in Filled
    BY <1>12 DEF OthersWrite, Filled
  <2> QED
    BY <1>12, <2>1 DEF OthersWrite
<1>13. ASSUME Save \/ \E f \in Field : SaveRow(f) PROVE DraftInv' /\ DraftStep
  BY <1>4, <1>13 DEF Save, SaveRow
<1> QED
  BY <1>1, <1>2, <1>3, <1>5, <1>6, <1>7, <1>8, <1>9, <1>10, <1>11, <1>12, <1>13
     DEF DraftsNext, formVars

LEMMA DraftsStart == DraftsInit => DraftInv
  BY FormsAssumption, BlankForm DEF DraftsInit, DraftInv, Filled

-------------------------------------------------------------------------------
TickInv ==
    /\ active \subseteq Tickable /\ chosen \subseteq Tickable
    /\ notifies \in [ticked : SUBSET Tickable, active : SUBSET Tickable,
                     there : SUBSET Tickable, ids : SUBSET Tickable]
    /\ TickedIsMeant

\* Ticks among those that are active are all of them when they are as many.
LEMMA AllAreAll ==
    ASSUME NEW there \in SUBSET Tickable, NEW ticks \in SUBSET there,
           Cardinality(ticks) = Cardinality(there)
    PROVE  ticks = there
  BY FormsAssumption, FS_Subset

LEMMA SubmitMeans ==
    ASSUME TickInv, NEW there \in SUBSET Tickable, SubmitRecipient(there)
    PROVE  TickInv'
<1>1. /\ notifies' = [ticked |-> chosen, active |-> active, there |-> there,
                      ids |-> IF AllTicked THEN there ELSE chosen]
      /\ UNCHANGED <<active, chosen>>
  BY DEF SubmitRecipient
<1>2. active \subseteq Tickable /\ chosen \subseteq Tickable
  BY DEF TickInv
<1>3. ASSUME chosen # {}, chosen \subseteq active, there = active
      PROVE  Notified(notifies') = chosen
  <2>1. CASE AllTicked
    <3>1. active # {} /\ Cardinality(chosen) = Cardinality(active)
      BY <1>3, <2>1 DEF AllTicked
    <3>2. chosen = active
      BY <1>2, <1>3, <3>1, AllAreAll
    <3> QED
      BY <1>1, <1>3, <2>1, <3>2 DEF Notified
  <2>2. CASE ~AllTicked
    BY <1>1, <1>3, <2>2 DEF Notified
  <2> QED
    BY <2>1, <2>2
<1> QED
  BY <1>1, <1>2, <1>3 DEF TickInv, TickedIsMeant

LEMMA TicksStep == TickInv /\ [DraftsNext \/ TicksNext]_formVars => TickInv'
<1> SUFFICES ASSUME TickInv, [DraftsNext \/ TicksNext]_formVars PROVE TickInv'
  OBVIOUS
<1>1. CASE UNCHANGED tickVars
  BY <1>1 DEF tickVars, TickInv, TickedIsMeant
<1>2. CASE DraftsNext
  <2>1. UNCHANGED tickVars
    BY <1>2 DEF DraftsNext, OpenForm, Save, SaveRow, SaveFields, SaveWritten, SaveSettles,
       SaveFails, FetchSection, ReadSection, SectionArrives, TypeIn, OthersWrite
  <2> QED
    BY <1>1, <2>1
<1>3. ASSUME UNCHANGED notifies, active' \subseteq Tickable, chosen' \subseteq Tickable
      PROVE  TickInv'
  BY <1>3 DEF TickInv, TickedIsMeant
<1>4. CASE OpenAddRecipient \/ OpenEditRecipient
  BY <1>3, <1>4 DEF OpenAddRecipient, OpenEditRecipient, TickInv
<1>5. ASSUME NEW w \in Tickable, ToggleWatchSelection(w) PROVE TickInv'
  BY <1>3, <1>5 DEF ToggleWatchSelection, Ticks!SymDiff, TickInv
<1>6. ASSUME NEW there \in SUBSET Tickable, WatchesArrive(there) PROVE TickInv'
  BY <1>3, <1>6 DEF WatchesArrive, TickInv
<1> QED
  BY <1>1, <1>2, <1>4, <1>5, <1>6, SubmitMeans DEF TicksNext, formVars

LEMMA TicksStart == TicksInit => TickInv
  BY DEF TicksInit, TickInv, TickedIsMeant, Notified

--------------------------------------------------------------------------------
(***************************************************************************)
(* The frame.  No path lights two leaves of a menu, and no leaf is in two  *)
(* groups, so that a path opens one group at most.                         *)
(***************************************************************************)

\* At most one of what there is.
AtMostOne(set) == \A x, y \in set : x = y

LEMMA OneCounted ==
    ASSUME NEW set, AtMostOne(set)
    PROVE  Cardinality(set) <= 1
<1>1. CASE set = {}
  BY <1>1, FS_EmptySet
<1>2. CASE set # {}
  <2>1. PICK x \in set : TRUE
    BY <1>2
  <2>2. set = {x}
    BY <2>1 DEF AtMostOne
  <2> QED
    BY <2>2, FS_Singleton
<1> QED
  BY <1>1, <1>2

\* What a path that begins with a leaf's begins with.
LEMMA FirstTwo ==
    ASSUME NEW list
    PROVE  SubSeq(list, 1, 2)[1] = list[1] /\ SubSeq(list, 1, 2)[2] = list[2]
<1> DEFINE parts == {list[1], list[2]}
<1>1. \A i \in 1..2 : list[i] \in parts
  OBVIOUS
<1> HIDE DEF parts
<1>2. \A i \in 1..2 - 1 + 1 : SubSeq(list, 1, 2)[i] = list[1 + i - 1]
  BY <1>1, SubSeqProperties
<1> QED
  BY <1>2

LEMMA FirstThree ==
    ASSUME NEW list
    PROVE  /\ SubSeq(list, 1, 3)[1] = list[1] /\ SubSeq(list, 1, 3)[2] = list[2]
           /\ SubSeq(list, 1, 3)[3] = list[3]
<1> DEFINE parts == {list[1], list[2], list[3]}
<1>1. \A i \in 1..3 : list[i] \in parts
  OBVIOUS
<1> HIDE DEF parts
<1>2. \A i \in 1..3 - 1 + 1 : SubSeq(list, 1, 3)[i] = list[1 + i - 1]
  BY <1>1, SubSeqProperties
<1> QED
  BY <1>2

LEMMA PrefixOfTwo ==
    ASSUME NEW path, NEW x, NEW y, Paths!IsPrefix(<<x, y>>, path)
    PROVE  path[2] = y
<1>1. SubSeq(<<x, y>>, 1, 2) = SubSeq(path, 1, 2)
  BY DEF Paths!IsPrefix
<1>2. SubSeq(<<x, y>>, 1, 2)[2] = y /\ SubSeq(path, 1, 2)[2] = path[2]
  BY FirstTwo
<1> QED
  BY <1>1, <1>2

LEMMA PrefixOfThree ==
    ASSUME NEW path, NEW x, NEW y, NEW z, Paths!IsPrefix(<<x, y, z>>, path)
    PROVE  path[2] = y
<1>1. SubSeq(<<x, y, z>>, 1, 3) = SubSeq(path, 1, 3)
  BY DEF Paths!IsPrefix
<1>2. SubSeq(<<x, y, z>>, 1, 3)[2] = y /\ SubSeq(path, 1, 3)[2] = path[2]
  BY FirstThree
<1> QED
  BY <1>1, <1>2

LEMMA NothingOfNothing ==
    ASSUME NEW x, NEW y
    PROVE  ~Paths!IsPrefix(<<x, y>>, <<>>)
  BY DEF Paths!IsPrefix

\* A leaf is known by the second segment of its path, or there is a more specific one.
LEMMA CustomerLeaf ==
    ASSUME NEW path, NEW leaf \in Leaves(CustomerMenu), IsLeafActive(leaf, path)
    PROVE  \/ leaf = Leaf("dashboard", <<"app", "dashboard">>) /\ path[2] = "dashboard"
           \/ leaf = Leaf("meldingen-inbox", <<"app", "meldingen">>) /\ path[2] = "meldingen"
           \/ leaf = Leaf("org-overview", <<"app", "organisatie">>) /\ path[2] = "organisatie"
           \/ leaf = Leaf("abonnement", <<"app", "abonnement">>) /\ path[2] = "abonnement"
           \/ leaf = Leaf("betalingen", <<"app", "betalingen">>) /\ path[2] = "betalingen"
           \/ leaf = Leaf("chat", <<"app", "chat">>) /\ path[2] = "chat"
           \/ leaf = Leaf("huidige-merken", <<"app", "bewaakte-merken">>)
              /\ path[2] = "bewaakte-merken"
           \/ leaf = Leaf("merken-archief", <<"app", "merken", "archief">>) /\ path[2] = "merken"
           \/ leaf = Leaf("matches-actief", <<"app", "matches">>) /\ path[2] = "matches"
              /\ ~Paths!IsPrefix(<<"app", "matches", "mogelijk">>, path)
           \/ leaf = Leaf("matches-mogelijk", <<"app", "matches", "mogelijk">>)
              /\ path[2] = "matches" /\ Paths!IsPrefix(<<"app", "matches", "mogelijk">>, path)
           \/ leaf = Leaf("deadlines", <<"app", "deadlines">>) /\ path[2] = "deadlines"
           \/ leaf = Leaf("match-archief", <<"app", "archief">>) /\ path[2] = "archief"
           \/ leaf = Leaf("merkonderzoek-nieuw", <<"app", "merkonderzoek", "nieuw">>)
              /\ path[2] = "merkonderzoek" /\ Paths!IsPrefix(<<"app", "merkonderzoek", "nieuw">>, path)
           \/ leaf = Leaf("merkonderzoek-rapporten", <<"app", "merkonderzoek">>)
              /\ path[2] = "merkonderzoek"
              /\ ~Paths!IsPrefix(<<"app", "merkonderzoek", "nieuw">>, path)
<1>1. Groups(CustomerMenu) = {CustomerMenu.groups[1], CustomerMenu.groups[2], CustomerMenu.groups[3]}
  <2>1. DOMAIN CustomerMenu.groups = {1, 2, 3}
    BY DEF CustomerMenu
  <2> QED
    BY <2>1 DEF Groups
<1>2. leaf \in CustomerMenu.leaves \/ leaf \in CustomerMenu.groups[1].children
      \/ leaf \in CustomerMenu.groups[2].children \/ leaf \in CustomerMenu.groups[3].children
  BY <1>1 DEF Leaves
<1>3. Paths!IsPrefix(leaf.to, path)
  BY DEF IsLeafActive
<1>4. CASE leaf \in CustomerMenu.leaves
  BY <1>3, <1>4, PrefixOfTwo DEF CustomerMenu, Leaf
<1>5. CASE leaf \in CustomerMenu.groups[1].children
  BY <1>3, <1>5, PrefixOfTwo, PrefixOfThree DEF CustomerMenu, MenuGroup, Leaf
<1>6. CASE leaf \in CustomerMenu.groups[2].children
  BY <1>3, <1>6, PrefixOfTwo, PrefixOfThree DEF CustomerMenu, MenuGroup, Leaf, IsLeafActive
<1>7. CASE leaf \in CustomerMenu.groups[3].children
  BY <1>3, <1>7, PrefixOfTwo, PrefixOfThree DEF CustomerMenu, MenuGroup, Leaf, IsLeafActive
<1> QED
  BY <1>2, <1>4, <1>5, <1>6, <1>7

LEMMA PlatformLeaf ==
    ASSUME NEW path, NEW leaf \in Leaves(PlatformMenu), IsLeafActive(leaf, path)
    PROVE  \/ \E id \in {"overzicht", "registers", "imports", "matches-scoring", "ai-kosten",
                         "jobs-fouten", "notificaties", "abonnementen", "prijzen",
                         "systeeminstellingen", "auditlog"} :
                  leaf = Leaf(id, <<"platform", id>>) /\ path[2] = id
           \/ leaf = Leaf("klanten-lijst", <<"platform", "klanten">>) /\ path[2] = "klanten"
<1>1. Groups(PlatformMenu) = {PlatformMenu.groups[1], PlatformMenu.groups[2], PlatformMenu.groups[3]}
  <2>1. DOMAIN PlatformMenu.groups = {1, 2, 3}
    BY DEF PlatformMenu
  <2> QED
    BY <2>1 DEF Groups
<1>2. leaf \in PlatformMenu.leaves \/ leaf \in PlatformMenu.groups[1].children
      \/ leaf \in PlatformMenu.groups[2].children \/ leaf \in PlatformMenu.groups[3].children
  BY <1>1 DEF Leaves
<1>3. Paths!IsPrefix(leaf.to, path)
  BY DEF IsLeafActive
<1>4. CASE leaf \in PlatformMenu.leaves
  BY <1>3, <1>4, PrefixOfTwo DEF PlatformMenu, Below, Leaf
<1>5. CASE leaf \in PlatformMenu.groups[1].children
  BY <1>3, <1>5, PrefixOfTwo DEF PlatformMenu, MenuGroup, Leaf
<1>6. CASE leaf \in PlatformMenu.groups[2].children
  BY <1>3, <1>6, PrefixOfTwo DEF PlatformMenu, MenuGroup, Below, Leaf
<1>7. CASE leaf \in PlatformMenu.groups[3].children
  BY <1>3, <1>7, PrefixOfTwo DEF PlatformMenu, MenuGroup, Below, Leaf
<1> QED
  BY <1>2, <1>4, <1>5, <1>6, <1>7

LEMMA MenuIs ==
    /\ DOMAIN Menu = {"customer", "platform"}
    /\ Menu["customer"] = CustomerMenu /\ Menu["platform"] = PlatformMenu
  BY DEF Menu

\* No path lights two leaves.
LEMMA OneLeaf ==
    ASSUME NEW sh \in DOMAIN Menu, NEW path
    PROVE  AtMostOne({leaf \in Leaves(Menu[sh]) : IsLeafActive(leaf, path)})
<1> SUFFICES ASSUME NEW x \in Leaves(Menu[sh]), NEW y \in Leaves(Menu[sh]),
                    IsLeafActive(x, path), IsLeafActive(y, path)
             PROVE  x = y
  BY DEF AtMostOne
<1>1. CASE sh = "customer"
  <2>1. x \in Leaves(CustomerMenu) /\ y \in Leaves(CustomerMenu)
    BY <1>1, MenuIs
  <2> QED
    BY <2>1, CustomerLeaf
<1>2. CASE sh = "platform"
  <2>1. x \in Leaves(PlatformMenu) /\ y \in Leaves(PlatformMenu)
    BY <1>2, MenuIs
  <2> QED
    BY <2>1, PlatformLeaf
<1> QED
  BY <1>1, <1>2, MenuIs

\* No leaf is in two groups.
LEMMA OneGroupEach ==
    ASSUME NEW sh \in DOMAIN Menu, NEW g \in Groups(Menu[sh]), NEW h \in Groups(Menu[sh]),
           NEW leaf \in g.children \cap h.children
    PROVE  g.id = h.id
<1>1. CASE sh = "customer"
  <2>1. DOMAIN CustomerMenu.groups = {1, 2, 3}
    BY DEF CustomerMenu
  <2>2. /\ g \in {CustomerMenu.groups[1], CustomerMenu.groups[2], CustomerMenu.groups[3]}
        /\ h \in {CustomerMenu.groups[1], CustomerMenu.groups[2], CustomerMenu.groups[3]}
    BY <1>1, <2>1, MenuIs DEF Groups
  <2> QED
    BY <2>2 DEF CustomerMenu, MenuGroup, Leaf
<1>2. CASE sh = "platform"
  <2>1. DOMAIN PlatformMenu.groups = {1, 2, 3}
    BY DEF PlatformMenu
  <2>2. /\ g \in {PlatformMenu.groups[1], PlatformMenu.groups[2], PlatformMenu.groups[3]}
        /\ h \in {PlatformMenu.groups[1], PlatformMenu.groups[2], PlatformMenu.groups[3]}
    BY <1>2, <2>1, MenuIs DEF Groups
  <2> QED
    BY <2>2 DEF PlatformMenu, MenuGroup, Below, Leaf
<1> QED
  BY <1>1, <1>2, MenuIs

\* So a path opens one group at most.
LEMMA OneGroupOfPath ==
    ASSUME NEW sh \in DOMAIN Menu, NEW path
    PROVE  AtMostOne(GroupsOfPath(Menu[sh], path)) /\ GroupsOfPath(Menu[sh], path) \subseteq GroupIds(Menu[sh])
<1>1. ASSUME NEW g \in Groups(Menu[sh]), NEW h \in Groups(Menu[sh]),
             GroupHasActiveChild(g, path), GroupHasActiveChild(h, path)
      PROVE  g.id = h.id
  <2>1. PICK x \in g.children : IsLeafActive(x, path)
    BY <1>1 DEF GroupHasActiveChild
  <2>2. PICK y \in h.children : IsLeafActive(y, path)
    BY <1>1 DEF GroupHasActiveChild
  <2>3. x \in Leaves(Menu[sh]) /\ y \in Leaves(Menu[sh])
    BY <2>1, <2>2 DEF Leaves
  <2>4. x = y
    BY <2>1, <2>2, <2>3, OneLeaf DEF AtMostOne
  <2> QED
    BY <2>1, <2>2, <2>4, OneGroupEach
<1> QED
  BY <1>1 DEF AtMostOne, GroupsOfPath, GroupIds

LEMMA OneInitiallyOpen ==
    ASSUME NEW sh \in DOMAIN Menu
    PROVE  AtMostOne(InitialOpen(Menu[sh]))
  BY DEF InitialOpen, NormalizeSingleOpen, FirstDefault, AtMostOne

ShellInv ==
    /\ ShellTypeOK
    /\ AtMostOne(tab.open) /\ tab.open \cap tab.collapsed = {}
    /\ tab = [path |-> tab.path, open |-> tab.open, collapsed |-> tab.collapsed]

\* What is loaded or navigated to opens its group, or leaves what was open.
LEMMA ArrivedOpensOne ==
    ASSUME NEW sh \in DOMAIN Menu, NEW path, NEW open, NEW collapsed,
           AtMostOne(open), open \cap collapsed = {}
    PROVE  LET t == Arrived(Menu[sh], path, open, collapsed)
           IN  /\ t = [path |-> path, open |-> t.open, collapsed |-> t.collapsed]
               /\ t.path = path /\ AtMostOne(t.open) /\ t.open \cap t.collapsed = {}
<1> DEFINE here == GroupsOfPath(Menu[sh], path)
<1>1. AtMostOne(here)
  BY OneGroupOfPath
<1>2. Arrived(Menu[sh], path, open, collapsed) =
          [path |-> path, open |-> IF here # {} THEN here ELSE open, collapsed |-> collapsed \ here]
  BY DEF Arrived
<1> HIDE DEF here
<1> QED
  BY <1>1, <1>2

LEMMA ShellStep == ShellInv /\ [ShellNext]_shellVars => ShellInv'
<1> SUFFICES ASSUME ShellInv, [ShellNext]_shellVars PROVE ShellInv'
  OBVIOUS
<1> USE DEF ShellInv, ShellTypeOK
<1>1. CASE UNCHANGED shellVars
  BY <1>1 DEF shellVars
<1>2. ASSUME NEW path \in Routes[shell], Load(path) \/ Navigate(path) PROVE ShellInv'
  <2>1. shell' = shell /\ stored' = StoredAt(Menu[shell], path)
    BY <1>2 DEF Load, Navigate
  <2>2. stored' \subseteq GroupIds(Menu[shell])
    BY <2>1, OneGroupOfPath DEF StoredAt
  <2>3. \/ tab' = Arrived(Menu[shell], path, InitialOpen(Menu[shell]), {})
        \/ tab' = Arrived(Menu[shell], path, tab.open, tab.collapsed)
    BY <1>2 DEF Load, Navigate
  <2>4. /\ tab' = [path |-> path, open |-> tab'.open, collapsed |-> tab'.collapsed]
        /\ tab'.path = path /\ AtMostOne(tab'.open) /\ tab'.open \cap tab'.collapsed = {}
    BY <2>3, ArrivedOpensOne, OneInitiallyOpen
  <2> QED
    BY <2>1, <2>2, <2>4
<1>3. ASSUME NEW id \in GroupIds(Menu[shell]), Toggle(id) PROVE ShellInv'
  <2>1. /\ tab' = IF IsOpen(id) THEN [tab EXCEPT !.collapsed = @ \cup {id}, !.open = {}]
                  ELSE [tab EXCEPT !.collapsed = @ \ {id}, !.open = {id}]
        /\ stored' = tab'.open /\ shell' = shell
    BY <1>3 DEF Toggle
  <2>2. \/ tab' = [path |-> tab.path, open |-> {}, collapsed |-> tab.collapsed \cup {id}]
        \/ tab' = [path |-> tab.path, open |-> {id}, collapsed |-> tab.collapsed \ {id}]
    <3>1. tab = [path |-> tab.path, open |-> tab.open, collapsed |-> tab.collapsed]
      OBVIOUS
    <3>2. CASE IsOpen(id)
      BY <2>1, <3>1, <3>2
    <3>3. CASE ~IsOpen(id)
      BY <2>1, <3>1, <3>3
    <3> QED
      BY <3>2, <3>3
  <2> QED
    BY <2>1, <2>2 DEF AtMostOne
<1>4. ASSUME NEW open \in SUBSET GroupIds(Menu[shell]), StoredElsewhere(open) PROVE ShellInv'
  BY <1>4 DEF StoredElsewhere
<1> QED
  BY <1>1, <1>2, <1>3, <1>4 DEF ShellNext

LEMMA ShellStart == ShellInit => ShellInv
  BY DEF ShellInit, ShellInv, ShellTypeOK, Unloaded, AtMostOne

LEMMA ShellShows == ShellInv => OneGroupOpen
<1> SUFFICES ASSUME ShellInv PROVE OneGroupOpen
  OBVIOUS
<1>1. shell \in DOMAIN Menu /\ AtMostOne(tab.open) /\ tab.open \cap tab.collapsed = {}
  BY DEF ShellInv, ShellTypeOK
<1>2. AtMostOne({leaf \in Leaves(Menu[shell]) : IsLeafActive(leaf, tab.path)})
  BY <1>1, OneLeaf
<1> QED
  BY <1>1, <1>2, OneCounted DEF OneGroupOpen

--------------------------------------------------------------------------------
(***************************************************************************)
(* The organization.  A step of the whole is one of a part or leaves it    *)
(* alone, so that what holds of every part holds of the whole.             *)
(***************************************************************************)

LEMMA PartsStart ==
    Init => /\ MembersInit /\ TalkInit /\ RecipientsInit /\ ReviewInit /\ DeskInit
            /\ CacheInit /\ WizardsInit /\ ShellInit /\ PaneInit /\ DraftsInit /\ TicksInit
  BY DEF Init

LEMMA PartsStep ==
    [Next]_orgVars =>
        /\ [MembersNext]_role /\ [TalkNext]_talkVars /\ [RecipientsNext]_recipientVars
        /\ [ReviewNext]_reviewVars /\ [DeskNext]_deskVars
        /\ [CacheNext]_cacheVars /\ [ResearchNext \/ WatchNext]_wizardVars
        /\ [ShellNext]_shellVars /\ [PaneNext]_paneVars
        /\ [DraftsNext \/ TicksNext]_formVars
<1> SUFFICES ASSUME [Next]_orgVars
             PROVE  /\ [MembersNext]_role /\ [TalkNext]_talkVars /\ [RecipientsNext]_recipientVars
                    /\ [ReviewNext]_reviewVars /\ [DeskNext]_deskVars
                    /\ [CacheNext]_cacheVars /\ [ResearchNext \/ WatchNext]_wizardVars
                    /\ [ShellNext]_shellVars /\ [PaneNext]_paneVars
                    /\ [DraftsNext \/ TicksNext]_formVars
  OBVIOUS
<1> USE DEF apiVars, webVars
<1>1. CASE UNCHANGED orgVars
  BY <1>1 DEF orgVars
<1>2. CASE InMembers /\ MembersNext
  BY <1>2 DEF InMembers, InApi
<1>3. CASE InTalk /\ TalkNext
  BY <1>3 DEF InTalk, InApi
<1>4. CASE InRecipients /\ RecipientsNext
  BY <1>4 DEF InRecipients, InApi
<1>5. CASE InReview /\ ReviewNext
  BY <1>5 DEF InReview, InApi
<1>6. CASE InDesk /\ DeskNext
  BY <1>6 DEF InDesk, InApi
<1>7. CASE InCache /\ CacheNext
  BY <1>7 DEF InCache, InWeb
<1>8. CASE InResearch /\ ResearchNext
  BY <1>8 DEF InResearch, InWeb
<1>9. CASE InWatch /\ WatchNext
  BY <1>9 DEF InWatch, InWeb
<1>10. CASE InShell /\ ShellNext
  BY <1>10 DEF InShell, InWeb
<1>11. CASE InPane /\ PaneNext
  BY <1>11 DEF InPane, InWeb
<1>12. CASE InDrafts /\ DraftsNext
  BY <1>12 DEF InDrafts, InWeb
<1>13. CASE InTicks /\ TicksNext
  BY <1>13 DEF InTicks, InWeb
<1> QED
  BY <1>1, <1>2, <1>3, <1>4, <1>5, <1>6, <1>7, <1>8, <1>9, <1>10, <1>11, <1>12, <1>13 DEF Next

(***************************************************************************)
(* The invariant of the whole: those of the parts.                         *)
(***************************************************************************)
OrganizationInv ==
    /\ MembersInv /\ TalkInv /\ RecipientsInv /\ ReviewTypeOK
    /\ DeskInv /\ Len(changes) <= MaxChanges
    /\ CacheInv /\ CacheTypeOK /\ ResearchInv /\ WatchInv /\ ShellInv
    /\ PaneShapes /\ PaneInv /\ DraftInv /\ TickInv

LEMMA OrganizationStart == Init => OrganizationInv
<1> SUFFICES ASSUME Init PROVE OrganizationInv
  OBVIOUS
<1>1. MembersInv /\ TalkInv /\ RecipientsInv
  BY PartsStart, MembersStart, TalkStart, RecipientsStart
<1>2. ReviewTypeOK
  BY PartsStart, InitTyped
<1>3. DeskInv /\ Len(changes) <= MaxChanges
  BY PartsStart, DeskStart, DeskAssumption DEF DeskInit
<1>4. CacheInv /\ CacheTypeOK
  BY PartsStart, CacheStart
<1>5. ResearchInv /\ WatchInv
  BY PartsStart, ResearchStart, WatchStart DEF WizardsInit
<1>6. ShellInv /\ PaneShapes /\ PaneInv /\ DraftInv /\ TickInv
  BY PartsStart, ShellStart, PaneStart, DraftsStart, TicksStart
<1> QED
  BY <1>1, <1>2, <1>3, <1>4, <1>5, <1>6 DEF OrganizationInv

LEMMA OrganizationStep == OrganizationInv /\ [Next]_orgVars => OrganizationInv'
<1> SUFFICES ASSUME OrganizationInv, [Next]_orgVars PROVE OrganizationInv'
  OBVIOUS
<1> USE DEF OrganizationInv
<1>1. MembersInv' /\ TalkInv'
  BY PartsStep, MembersStep, TalkStep
<1>2. RecipientsInv'
  BY PartsStep, RecipientsStep, RecipientsAssumption DEF KeptStep
<1>3. ReviewTypeOK'
  BY PartsStep, ReviewTypes
<1>4. DeskInv' /\ (Len(changes) <= MaxChanges)'
  BY PartsStep, DeskStep, DeskBounded, DeskAssumption
<1>5. CacheInv' /\ CacheTypeOK'
  BY PartsStep, CacheStep, CacheTyped
<1>6. ResearchInv' /\ WatchInv'
  BY PartsStep, ResearchStep, WatchStep
<1>7. ShellInv'
  BY PartsStep, ShellStep
<1>8. PaneShapes' /\ PaneInv'
  BY PartsStep, PaneStep
<1>9. DraftInv' /\ TickInv'
  BY PartsStep, DraftsStep, TicksStep
<1> QED
  BY <1>1, <1>2, <1>3, <1>4, <1>5, <1>6, <1>7, <1>8, <1>9

LEMMA OrganizationInvariant == Spec => []OrganizationInv
  BY OrganizationStart, OrganizationStep, PTL DEF Spec

\* Every part's state keeps its type, whatever the parts do.
THEOREM OrganizationTyped == Spec => []OrganizationTypeOK
<1>1. OrganizationInv => OrganizationTypeOK
  <2> SUFFICES ASSUME OrganizationInv PROVE OrganizationTypeOK
    OBVIOUS
  <2>1. MembersTypeOK /\ TalkTypeOK /\ RecipientsTypeOK /\ ReviewTypeOK /\ DeskTypeOK
    BY TalkTyped, InvTyped, DeskTyped, RecipientsAssumption DEF OrganizationInv, MembersInv
  <2>2. WizardsTypeOK
    BY DEF OrganizationInv, ResearchInv, ResearchTyped, Order, WatchInv, WizardsTypeOK
  <2>3. PaneTypeOK /\ ShellTypeOK /\ CacheTypeOK
    BY DEF OrganizationInv, ShellInv, PaneInv
  <2>4. FormsTypeOK
    <3>1. /\ {record, known, draft} \subseteq [Field -> Content]
          /\ form \in FormsThereAre /\ typed \subseteq Field /\ saving.fields \subseteq Field
      BY DEF OrganizationInv, DraftInv, Filled
    <3>2. UNION {active, chosen, notifies.ids} \subseteq Tickable
      BY DEF OrganizationInv, TickInv
    <3> QED
      BY <3>1, <3>2 DEF FormsTypeOK
  <2> QED
    BY <2>1, <2>2, <2>3, <2>4 DEF OrganizationTypeOK
<1> QED
  BY <1>1, OrganizationInvariant, PTL

\* What is said is its writer's, and what operators change is in the audit log under their
\* name, however requests overlap.
THEOREM ActsAreAttributed == Spec => []ActsAttributed
<1>1. OrganizationInv => ActsAttributed
  BY LogTells, DeskAssumption DEF OrganizationInv, TalkInv, ActsAttributed
<1> QED
  BY <1>1, OrganizationInvariant, PTL

\* What a customer sees when an order, a watch or a recipient is made is what is made, and
\* one group of the menu at most is open for it.
THEOREM ThingsAreMadeAsShown == Spec => []MadeAsShown
<1>1. OrganizationInv => MadeAsShown
  BY ShellShows DEF OrganizationInv, ResearchInv, WatchInv, TickInv, MadeAsShown
<1> QED
  BY <1>1, OrganizationInvariant, PTL

\* Settings written across awaits keep to what their gates saw, and patches of one
\* recipient compose.
THEOREM SettingsAreKept == Spec => SettingsKept
<1>1. OrganizationInv /\ [Next]_orgVars => [RespectStep]_recipientVars /\ [ComposeStep]_recipientVars
  BY PartsStep, RecipientsStep, RecipientsAssumption DEF KeptStep, OrganizationInv
<1>2. Spec => [][RespectStep]_recipientVars /\ [][ComposeStep]_recipientVars
  BY <1>1, OrganizationInvariant, PTL DEF Spec
<1> QED
  BY <1>2 DEF SettingsKept, SettingsRespectRecipients, PatchesCompose, RespectStep, ComposeStep

\* What somebody typed into a form stays until the form itself saves or resets it.
THEOREM DraftsAreKept == Spec => DraftsKept
<1>1. OrganizationInv /\ [Next]_orgVars => [DraftStep]_formVars
  BY PartsStep, DraftsStep DEF OrganizationInv
<1>2. Spec => [][DraftStep]_formVars
  BY <1>1, OrganizationInvariant, PTL DEF Spec
<1> QED
  BY <1>2 DEF DraftsKept, DraftStep
=================================================================================
