----------------------------- MODULE MCOrganization -----------------------------
(***************************************************************************)
(* An organization, for TLC.  What the API keeps of it: its members, its   *)
(* conversations, who is notified, the review of its matches, and what     *)
(* operators change of it.  And what the web application does with that:   *)
(* the cache of queries behind the screens, the two wizards, the frame and *)
(* its menu, the pane of a thread, and the forms.  They share no state, so *)
(* that a behaviour is one of theirs: part says whose, and the others stay *)
(* as they start.                                                          *)
(***************************************************************************)
EXTENDS Members, Conversations, Recipients, MatchReview,
        OperatorDesk, QueryCache, Wizards, Shell, ThreadPane, Forms

CONSTANTS founder, jurist, m1, m2, m3, operator,  \* members
          t1, t2, u1, u2,                         \* tenants and users that talk
          w1, w2, w3, r1, r2,                     \* watches, addresses notified
          a, q1, q2                               \* a match, requests

VARIABLE part

apiVars == <<role, talkVars, recipientVars, reviewVars, deskVars>>
webVars == <<cacheVars, wizardVars, shellVars, paneVars, formVars>>
orgVars == <<part, apiVars, webVars>>

Recipient(mode, cadence, score, all, ids) ==
    [mode |-> mode, cadence |-> cadence, score |-> score, all |-> all, ids |-> ids]
RecipientsAdded ==
    {Recipient("threshold", "never", 1, TRUE, {}), Recipient("digest", "DAILY", -1, FALSE, {w1})}
RecipientEdits ==
    {[score |-> 2], [mode |-> "digest", cadence |-> "WEEKLY"], [active |-> FALSE], [all |-> TRUE]}

Deadlines == [m \in Match |-> 0]

ApiParts == {"members", "talk", "recipients", "review", "desk"}
WebParts == {"cache", "research", "watch", "shell", "pane", "drafts", "ticks"}

Init ==
    /\ part \in ApiParts \cup WebParts
    /\ MembersInit /\ TalkInit /\ RecipientsInit /\ ReviewInit /\ DeskInit
    /\ CacheInit
    /\ part # "cache" =>
           /\ followed = CHOOSE b \in Browsers : TRUE
           /\ screen = CHOOSE s \in followed.screens : s.observes
    /\ WizardsInit
    /\ ShellInit /\ (part # "shell" => shell = "customer" /\ stored = {})
    /\ PaneInit /\ (part # "pane" => seat = "customer" /\ \A t \in Conversation : said[t] = 0)
    /\ DraftsInit /\ (part # "drafts" => form = PriceForm)
    /\ TicksInit /\ (part # "ticks" => active = {})

InApi(p) == part = p /\ UNCHANGED <<part, webVars>>
InMembers == InApi("members") /\ UNCHANGED <<talkVars, recipientVars, reviewVars, deskVars>>
InTalk == InApi("talk") /\ UNCHANGED <<role, recipientVars, reviewVars, deskVars>>
InRecipients == InApi("recipients") /\ UNCHANGED <<role, talkVars, reviewVars, deskVars>>
InReview == InApi("review") /\ UNCHANGED <<role, talkVars, recipientVars, deskVars>>
InDesk == InApi("desk") /\ UNCHANGED <<role, talkVars, recipientVars, reviewVars>>

InWeb == part \in WebParts /\ UNCHANGED <<part, apiVars>>
InCache == part = "cache" /\ InWeb /\ UNCHANGED <<wizardVars, shellVars, paneVars, formVars>>
InResearch == part = "research" /\ InWeb /\ UNCHANGED <<cacheVars, shellVars, paneVars, formVars>>
InWatch == part = "watch" /\ InWeb /\ UNCHANGED <<cacheVars, shellVars, paneVars, formVars>>
InShell == part = "shell" /\ InWeb /\ UNCHANGED <<cacheVars, wizardVars, paneVars, formVars>>
InPane == part = "pane" /\ InWeb /\ UNCHANGED <<cacheVars, wizardVars, shellVars, formVars>>
InDrafts == part = "drafts" /\ InWeb /\ UNCHANGED <<cacheVars, wizardVars, shellVars, paneVars>>
InTicks == part = "ticks" /\ InWeb /\ UNCHANGED <<cacheVars, wizardVars, shellVars, paneVars>>

Next ==
    \/ InMembers /\ MembersNext
    \/ InTalk /\ TalkNext
    \/ InRecipients /\ RecipientsNext
    \/ InReview /\ ReviewNext
    \/ InDesk /\ DeskNext
    \/ InCache /\ CacheNext
    \/ InResearch /\ ResearchNext
    \/ InWatch /\ WatchNext
    \/ InShell /\ ShellNext
    \/ InPane /\ PaneNext
    \/ InDrafts /\ DraftsNext
    \/ InTicks /\ TicksNext

Spec == Init /\ [][Next]_orgVars

\* Every part's state has its type.
OrganizationTypeOK ==
    /\ MembersTypeOK /\ TalkTypeOK /\ RecipientsTypeOK /\ ReviewTypeOK
    /\ DeskTypeOK
    /\ CacheTypeOK /\ WizardsTypeOK /\ ShellTypeOK /\ PaneTypeOK /\ FormsTypeOK

\* What is said is its writer's, and what operators change is in the audit log under their
\* name: see the two properties.
ActsAttributed == TalkAttributed /\ AuditTells

\* What a customer sees when an order, a watch or a recipient is made is what is made, and
\* the menu shows where that is: see the four properties.
MadeAsShown == OrderedAsQuoted /\ WatchedAsShown /\ TickedIsMeant /\ OneGroupOpen
=================================================================================
