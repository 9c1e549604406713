----------------------------- MODULE ThreadPane -----------------------------
(***************************************************************************)
(* The chat page of a customer and the chat tab an operator has of one: a  *)
(* list of threads and the pane of the one picked.  The query behind the   *)
(* pane got its key when the page was set up, before any thread was        *)
(* picked, while every request asks for the thread picked then: so the     *)
(* pane changes thread only when something makes it fetch.                 *)
(***************************************************************************)
EXTENDS Naturals, FiniteSets

CONSTANTS
    Conversation, \* bound: the threads there may be
    MaxSaid       \* bound: messages in a thread

NoThread == "no thread"

ASSUME PaneAssumption ==
    IsFiniteSet(Conversation) /\ NoThread \notin Conversation /\ MaxSaid \in Nat \ {0}

VARIABLES
    seat,     \* who is at the page: a customer, or an operator, who starts no threads
    said,     \* per thread the messages in it; 0 if it does not exist
    picked,   \* the thread picked
    pane,     \* what the query has: a thread, and how many of its messages
    request,  \* the request for it that runs, or how the last one ended
    saying,   \* the message that is on its way, the first of a new thread if it starts one
    mine      \* the last one that arrived, unless another thread was picked meanwhile

paneVars == <<seat, said, picked, pane, request, saying, mine>>

Shown(t, n) == [thread |-> t, messages |-> n]
Empty == Shown(NoThread, 0)
Asked(t) == [state |-> "asked", of |-> Shown(t, 0)]
Ended(how) == [state |-> how, of |-> Empty]
Saying(t, starts) == [thread |-> t, starts |-> starts, applied |-> FALSE, left |-> FALSE]
Silent == Saying(NoThread, FALSE)

Running == request.state \in {"asked", "answered"}

PaneInit ==
    /\ seat \in {"customer", "operator"}
    /\ said \in [Conversation -> 0..1]
    /\ picked = NoThread /\ pane = Empty /\ request = Ended("none")
    /\ saying = Silent /\ mine = Empty

\* With the first thread that is picked the query starts to be observed and is fetched,
\* unless a request still runs; with another one nothing is.
Selecting(t) ==
    /\ picked' = t
    /\ request' = IF picked = NoThread /\ ~Running THEN Asked(t) ELSE request

SelectThread(t) ==
    /\ said[t] > 0 /\ t # picked
    /\ Selecting(t)
    /\ mine' = Empty
    /\ UNCHANGED <<seat, said, pane, saying>>

\* The page is left and comes back with no thread picked; the cache keeps its entry, and
\* what is on its way goes on.
LeavePage ==
    /\ picked # NoThread
    /\ picked' = NoThread /\ mine' = Empty
    /\ saying' = IF saying = Silent THEN Silent ELSE [saying EXCEPT !.left = TRUE]
    /\ UNCHANGED <<seat, said, pane, request>>

FocusAgain ==
    /\ picked # NoThread /\ ~Running
    /\ request' = Asked(picked)
    /\ UNCHANGED <<seat, said, picked, pane, saying, mine>>

ServeThread ==
    /\ request.state = "asked"
    /\ request' = [state |-> "answered", of |-> Shown(request.of.thread, said[request.of.thread])]
    /\ UNCHANGED <<seat, said, picked, pane, saying, mine>>

ThreadArrives ==
    /\ request.state = "answered"
    /\ pane' = request.of /\ request' = Ended("done")
    /\ UNCHANGED <<seat, said, picked, saying, mine>>

ThreadFails ==
    /\ Running
    /\ request' = Ended("failed")
    /\ UNCHANGED <<seat, said, picked, pane, saying, mine>>

\* A message goes to the thread picked, whatever the pane shows.
SubmitMessage ==
    /\ picked # NoThread /\ pane # Empty /\ saying = Silent
    /\ saying' = Saying(picked, FALSE)
    /\ mine' = Empty
    /\ UNCHANGED <<seat, said, picked, pane, request>>

SubmitCreateThread(t) ==
    /\ seat = "customer" /\ said[t] = 0 /\ saying = Silent
    /\ saying' = Saying(t, TRUE)
    /\ mine' = Empty
    /\ UNCHANGED <<seat, said, picked, pane, request>>

MessageApplied ==
    /\ saying # Silent /\ ~saying.applied /\ said[saying.thread] < MaxSaid
    /\ said' = [said EXCEPT ![saying.thread] = @ + 1]
    /\ saying' = [saying EXCEPT !.applied = TRUE]
    /\ UNCHANGED <<seat, picked, pane, request, mine>>

\* Mutant: a request that runs is taken for the one that is wanted.
FetchedUnlessRunning ==
    IF picked # NoThread /\ ~Running THEN Asked(picked) ELSE request

\* What is observed is fetched again; a request that runs is abandoned for it, but not the
\* first one.
FetchedAgain ==
    IF picked # NoThread /\ (pane # Empty \/ ~Running) THEN Asked(picked) ELSE request

\* The customer's answer invalidates the query wherever the customer is by then; the
\* operator's refetches it if the page was not left.
MessageSettles ==
    /\ saying.applied /\ ~saying.starts
    /\ request' = IF seat = "operator" /\ saying.left THEN request ELSE FetchedAgain
    /\ mine' = IF picked = saying.thread /\ ~saying.left
               THEN Shown(picked, said[picked]) ELSE Empty
    /\ saying' = Silent
    /\ UNCHANGED <<seat, said, picked, pane>>

\* The thread that is picked is fetched again before the new one is picked.
CreateSettles ==
    /\ saying.applied /\ saying.starts
    /\ IF picked = NoThread /\ ~saying.left THEN Selecting(saying.thread)
       ELSE /\ request' = FetchedAgain
            /\ picked' = IF saying.left THEN picked ELSE saying.thread
    /\ mine' = IF picked = NoThread /\ ~saying.left /\ ~Running
               THEN Shown(saying.thread, said[saying.thread]) ELSE Empty
    /\ saying' = Silent
    /\ UNCHANGED <<seat, said, pane>>

MessageFails ==
    /\ saying # Silent
    /\ saying' = Silent
    /\ UNCHANGED <<seat, said, picked, pane, request, mine>>

\* The other side writes.
OthersSay(t) ==
    /\ said[t] \in 1..(MaxSaid - 1)
    /\ said' = [said EXCEPT ![t] = @ + 1]
    /\ UNCHANGED <<seat, picked, pane, request, saying, mine>>

PaneNext ==
    \/ \E t \in Conversation : SelectThread(t) \/ SubmitCreateThread(t) \/ OthersSay(t)
    \/ LeavePage \/ FocusAgain \/ ServeThread \/ ThreadArrives \/ ThreadFails
    \/ SubmitMessage \/ MessageApplied \/ MessageSettles \/ CreateSettles \/ MessageFails

PaneSpec == PaneInit /\ [][PaneNext]_paneVars

-----------------------------------------------------------------------------
PaneTypeOK ==
    /\ seat \in {"customer", "operator"} /\ said \in [Conversation -> 0..MaxSaid]
    /\ {picked, pane.thread, request.of.thread, saying.thread}
           \subseteq Conversation \cup {NoThread}
    /\ request.state \in {"none", "asked", "answered", "done", "failed"}

\* Who sends a message and stays with its thread sees it there once nothing is awaited and
\* the fetch did not fail: the pane that had the key of no thread, and may have shown
\* another one when the message was written, then shows the thread it went to, and the
\* first message of a thread that was started with none picked.
SentIsShown ==
    (mine # Empty /\ ~Running /\ request.state # "failed")
    => pane.thread = mine.thread /\ pane.messages >= mine.messages
=============================================================================
