------------------------- MODULE RegisterConnectors -------------------------
(***************************************************************************)
(* fetchPublications of the register connectors, driven by the page loop   *)
(* of the pipelines: ask for what comes after the cursor, keep the cursor  *)
(* of the answer, go on while there is more.  This is the contract that    *)
(* WorkerPipeline takes for granted.                                       *)
(*                                                                         *)
(* Connectors page in five ways:                                           *)
(*   live     BOIP, EUIPO, USPTO, generic: an opaque cursor of the office  *)
(*   delta    WIPO: one daily file at a time, the cursor is its date       *)
(*   indexed  EUIPO, USPTO, WIPO in fixture mode                           *)
(*   counted  generic connectors in fixture mode                           *)
(*   whole    BOIP in fixture mode                                         *)
(*                                                                         *)
(* What is published is numbered by day.  A publication is good, unreadable*)
(* or, for a delta file of several records, readable in part.              *)
(***************************************************************************)
EXTENDS Integers, FiniteSets, FiniteSetsExt

CONSTANTS
    Ways,           \* the ways of paging to explore
    Days,           \* 1..n, the days on which something may be published
    PageSize,
    Faults          \* how many requests may fail

ASSUME ConnectorAssumption ==
    /\ Ways \subseteq {"live", "delta", "indexed", "counted", "whole"}
    /\ Days \subseteq Nat \ {0} /\ IsFiniteSet(Days)
    /\ PageSize \in Nat \ {0} /\ Faults \in Nat

VARIABLES
    way,            \* how this connector pages
    published,      \* per published day what it holds
    cursor,         \* of the saved checkpoint; 0 without one
    delivered,      \* days whose readable records reached the pipeline
    loop,           \* the page loop in flight
    faults          \* requests failed so far

connectorVars == <<way, published, cursor, delivered, loop, faults>>

Fixed == {"indexed", "counted", "whole"}
NoLoop == [at |-> "idle", failed |-> FALSE]
Asking(since) == [at |-> "page", since |-> since]

LoopState ==
    [at : {"idle"}, failed : BOOLEAN]
    \cup [at : {"page"}, since : SUBSET Days]
    \cup [at : {"file"}, since : SUBSET Days, day : Days, more : BOOLEAN]

ConnectorTypeOK ==
    /\ way \in Ways
    /\ DOMAIN published \subseteq Days
    /\ \A d \in DOMAIN published : published[d] \in {"good", "partly", "bad"}
    /\ cursor \in Days \cup {0}
    /\ delivered \subseteq Days
    /\ loop \in LoopState
    /\ faults \in 0..Faults

\* A fixture set is there from the start, a register begins empty.
ConnectorInit ==
    /\ way \in Ways
    /\ published = IF way \in Fixed THEN [d \in Days |-> "good"] ELSE <<>>
    /\ cursor = 0 /\ delivered = {}
    /\ loop = NoLoop
    /\ faults = 0

-----------------------------------------------------------------------------
After(day) == {d \in DOMAIN published : d > day}

\* The first PageSize of a set of days.
FirstPage(days) == {d \in days : Cardinality({e \in days : e < d}) < PageSize}

\* A page arrives: its days are delivered, and the loop goes on if there is more.
Page(days, next, more) ==
    /\ delivered' = delivered \cup days
    /\ cursor' = next
    /\ loop' = IF more THEN loop ELSE NoLoop

LoopFails == loop' = [NoLoop EXCEPT !.failed = TRUE]

\* The register publishes, day after day.
PublishDay(d, content) ==
    /\ way \notin Fixed
    /\ \A e \in DOMAIN published : e < d
    /\ published' = [e \in DOMAIN published \cup {d} |->
                        IF e = d THEN content ELSE published[e]]
    /\ UNCHANGED <<way, cursor, delivered, loop, faults>>

\* A pipeline starts its page loop from the saved checkpoint.
StartLoop ==
    /\ loop.at = "idle"
    /\ loop' = Asking(DOMAIN published)
    /\ UNCHANGED <<way, published, cursor, delivered, faults>>

\* BOIP's fixtures come in one page, without checkpoint.
WholeAnswered ==
    /\ way = "whole" /\ loop.at = "page"
    /\ Page(DOMAIN published, cursor, FALSE)
    /\ UNCHANGED <<way, published, faults>>

\* Mutant: the next page is taken for the last one that is left.
IndexedShort ==
    LET page == FirstPage(After(cursor))
        more == Cardinality(After(cursor)) > 2 * PageSize
    IN  /\ way = "indexed" /\ loop.at = "page"
        /\ Page(page, IF more THEN Max(page) ELSE cursor, more)
        /\ UNCHANGED <<way, published, faults>>

\* Fixtures by index: no checkpoint comes with the last page, so that the
\* saved one stays at the page before.
IndexedAnswered ==
    LET page == FirstPage(After(cursor))
        more == After(cursor) # page
    IN  /\ way = "indexed" /\ loop.at = "page"
        /\ Page(page, IF more THEN Max(page) ELSE cursor, more)
        /\ UNCHANGED <<way, published, faults>>

\* The generic connectors' fixtures: a checkpoint with every page.
CountedAnswered ==
    LET page == FirstPage(After(cursor))
    IN  /\ way = "counted" /\ loop.at = "page"
        /\ Page(page, IF page = {} THEN cursor ELSE Max(page), After(cursor) # page)
        /\ UNCHANGED <<way, published, faults>>

\* A live page is validated as a whole: one unreadable record fails it.  While
\* there is more the office sends a cursor; with the last page it may.
LiveAnswered ==
    LET page == FirstPage(After(cursor))
        more == After(cursor) # page
    IN  /\ way = "live" /\ loop.at = "page"
        /\ IF \A d \in page : published[d] = "good"
           THEN \E next \in {cursor} \cup page :
                   /\ next = Max({cursor} \cup page) \/ (~more /\ next = cursor)
                   /\ Page(page, next, more)
           ELSE LoopFails /\ UNCHANGED <<cursor, delivered>>
        /\ UNCHANGED <<way, published, faults>>

\* WIPO lists the files and takes the first after the cursor; whether there is
\* more is decided by this list, not by what appears during the download.
DeltaListed ==
    /\ way = "delta" /\ loop.at = "page"
    /\ IF After(cursor) = {}
       THEN loop' = NoLoop
       ELSE loop' = [at |-> "file", since |-> loop.since, day |-> Min(After(cursor)),
                     more |-> Cardinality(After(cursor)) > 1]
    /\ UNCHANGED <<way, published, cursor, delivered, faults>>

\* Mutant: the cursor passes a file nothing could be read of.
DeltaPassed ==
    /\ loop.at = "file"
    /\ cursor' = loop.day
    /\ IF published[loop.day] = "bad"
       THEN LoopFails /\ UNCHANGED delivered
       ELSE /\ delivered' = delivered \cup {loop.day}
            /\ loop' = IF loop.more THEN Asking(loop.since) ELSE NoLoop
    /\ UNCHANGED <<way, published, faults>>

\* The file arrives.  Unreadable records are skipped, unless all of them are.
DeltaRead ==
    /\ loop.at = "file"
    /\ IF published[loop.day] = "bad"
       THEN LoopFails /\ UNCHANGED <<cursor, delivered>>
       ELSE /\ delivered' = delivered \cup {loop.day}
            /\ cursor' = loop.day
            /\ loop' = IF loop.more THEN Asking(loop.since) ELSE NoLoop
    /\ UNCHANGED <<way, published, faults>>

\* A missing configuration, a timeout, a rate limit, an error status or a body
\* that is no JSON: each client throws, and the loop ends where it was.
RequestFails ==
    /\ way \notin Fixed
    /\ loop.at # "idle" /\ faults < Faults
    /\ faults' = faults + 1
    /\ LoopFails
    /\ UNCHANGED <<way, published, cursor, delivered>>

ConnectorNext ==
    \/ \E d \in Days, content \in {"good", "partly", "bad"} : PublishDay(d, content)
    \/ StartLoop
    \/ WholeAnswered \/ IndexedAnswered \/ CountedAnswered \/ LiveAnswered
    \/ DeltaListed \/ DeltaRead
    \/ RequestFails

ConnectorSpec == ConnectorInit /\ [][ConnectorNext]_connectorVars

-----------------------------------------------------------------------------
\* A cursor never passes a day that was not delivered, through every paging
\* scheme, with files that appear between a list and a download, requests that
\* fail half way, and pages that do not validate (wipo.connector.ts:117).
CursorSkipsNothing == \A d \in DOMAIN published : d <= cursor => d \in delivered

\* A loop that ends without failing has delivered everything that was published
\* when it began: hasMore is never wrong in a way that ends it early.
LoopReadsAll ==
    [][(loop.at # "idle" /\ loop'.at = "idle" /\ ~loop'.failed)
          => loop.since \subseteq delivered']_connectorVars
=============================================================================
