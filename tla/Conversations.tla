----------------------------- MODULE Conversations -----------------------------
(***************************************************************************)
(* Support threads and in-app notifications of the OrgBillingChatStore:    *)
(* the customers' routes (routes/chat.ts, routes/notifications.ts) and the *)
(* operators' (routes/platform-org.ts).  Customers act in the organization *)
(* of their request; an operator names a thread only, whose organization   *)
(* the store finds.  Bodies, subjects and times are left out.              *)
(***************************************************************************)
EXTENDS Naturals, Sequences, FiniteSets

CONSTANTS
    Tenants,        \* organizations
    Users,          \* customers' user ids
    Operators,      \* platform operators; may overlap Users
    ChatTenants,    \* organizations whose plan has merkrechten_chat
    MaxThreads, MaxMessages, MaxNotices     \* bounds

ASSUME ConversationsAssumption ==
    /\ ChatTenants \subseteq Tenants
    /\ MaxThreads \in Nat /\ MaxMessages \in Nat /\ MaxNotices \in Nat

VARIABLES
    threads,        \* the organization of each thread, in order of creation
    participants,   \* who takes part in which thread, and as what, in order of joining
    messages,       \* all messages: the participant of each, and who wrote it
    notices         \* in-app notifications: organization, and whether read

talkVars == <<threads, participants, messages, notices>>

Sides == {"customer_user", "platform_operator"}
Participant == [thread : Nat, side : Sides, user : Users \cup Operators]

\* author is not in the code: who sent the request, to compare with from.
Message == [thread : Nat, from : 1..Len(participants),
            author : [side : Sides, user : Users \cup Operators, tenant : Tenants]]

TalkTypeOK ==
    /\ threads \in Seq(Tenants)
    /\ participants \in Seq(Participant)
    /\ messages \in Seq(Message)
    /\ notices \in Seq([tenant : Tenants, read : BOOLEAN])

TalkInit == threads = <<>> /\ participants = <<>> /\ messages = <<>> /\ notices = <<>>

\* A message in thread t from the participant found for its author, or from a
\* new one where none was.
Says(t, own, author) ==
    /\ participants' =
            IF own = {}
            THEN Append(participants, [thread |-> t, side |-> author.side, user |-> author.user])
            ELSE participants
    /\ messages' = Append(messages,
            [thread |-> t, author |-> author,
             from |-> IF own = {} THEN Len(participants) + 1
                      ELSE CHOOSE k \in own : \A j \in own : k <= j])

Customer(o, u) == [side |-> "customer_user", user |-> u, tenant |-> o]

\* createThread, with its first message; the plan must have the chat.
CreateThread(o, u) ==
    /\ o \in ChatTenants
    /\ Len(threads) < MaxThreads /\ Len(messages) < MaxMessages
    /\ threads' = Append(threads, o)
    /\ Says(Len(threads) + 1, {}, Customer(o, u))
    /\ UNCHANGED notices

\* The customer's participant: found by thread, user and side.
CustomerParticipant(t, u) ==
    {k \in DOMAIN participants :
        /\ participants[k].thread = t /\ participants[k].user = u
        /\ participants[k].side = "customer_user"}

\* The operators' participant: found by thread and side only, so that the
\* first operator who answers stands for all of them.
OperatorParticipant(t, u) ==
    {k \in DOMAIN participants :
        participants[k].thread = t /\ participants[k].side = "platform_operator"}

\* addMessage, in a thread of the requesting organization.
AddMessage(o, t, u) ==
    /\ o \in ChatTenants /\ threads[t] = o
    /\ Len(messages) < MaxMessages
    /\ Says(t, CustomerParticipant(t, u), Customer(o, u))
    /\ UNCHANGED <<threads, notices>>

\* addPlatformMessage, in whatever organization has the thread.
AddPlatformMessage(t, u) ==
    /\ Len(messages) < MaxMessages
    /\ Says(t, OperatorParticipant(t, u),
            [side |-> "platform_operator", user |-> u, tenant |-> threads[t]])
    /\ UNCHANGED <<threads, notices>>

\* sendInAppNotification by an operator.
SendNotice(o) ==
    /\ Len(notices) < MaxNotices
    /\ notices' = Append(notices, [tenant |-> o, read |-> FALSE])
    /\ UNCHANGED <<threads, participants, messages>>

\* markInAppNotificationRead: only the organization's own, and only once.
ReadNotice(o, n) ==
    /\ notices[n].tenant = o /\ ~notices[n].read
    /\ notices' = [notices EXCEPT ![n].read = TRUE]
    /\ UNCHANGED <<threads, participants, messages>>

TalkNext ==
    \/ \E o \in Tenants, u \in Users : CreateThread(o, u)
    \/ \E o \in Tenants, t \in DOMAIN threads, u \in Users : AddMessage(o, t, u)
    \/ \E t \in DOMAIN threads, u \in Operators : AddPlatformMessage(t, u)
    \/ \E o \in Tenants : SendNotice(o) \/ \E n \in DOMAIN notices : ReadNotice(o, n)

TalkSpec == TalkInit /\ [][TalkNext]_talkVars

-----------------------------------------------------------------------------
\* A message stands under the side that wrote it, and a customer's under the
\* user who wrote it, in a thread of that user's organization - also when an
\* operator wrote first, or is a member of the organization as well.  (Of the
\* operators' messages only the side is sure: org-store.ts:1114.)
MessagesAttributed ==
    \A i \in DOMAIN messages :
        LET m == messages[i]
            from == participants[m.from]
        IN  /\ from.thread = m.thread /\ from.side = m.author.side
            /\ threads[m.thread] = m.author.tenant
            /\ m.author.side = "customer_user" => from.user = m.author.user

\* One participant a thread and customer, and one for all operators, however
\* their messages interleave: who took part is never counted twice.
OneParticipantEach ==
    \A j, k \in DOMAIN participants :
        LET p == participants[j]
            q == participants[k]
        IN  p.thread = q.thread /\ p.side = q.side
            /\ (p.side = "platform_operator" \/ p.user = q.user) => j = k

\* Who says what stays right however operators and customers take turns.
TalkAttributed == MessagesAttributed /\ OneParticipantEach
=============================================================================
