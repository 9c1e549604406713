--------------------------- MODULE MCWorkerPipeline ---------------------------
(***************************************************************************)
(* Small instances of WorkerPipeline.  A fact sheet is a reported status   *)
(* and an opposition window in days.                                       *)
(***************************************************************************)
EXTENDS WorkerPipeline, TLC

CONSTANTS r1, r2, r3, w1, w2, c1, c2, v1, v2, v3, o1, o2, j1, j2

Open(s, d) == [status |-> "published", start |-> s, deadline |-> d]

\* v2 moves the window from day 0-1 to day 1-2; v3 withdraws the application.
Shifting == v1 :> Open(0, 1) @@ v2 :> Open(1, 2) @@ v3 :> [Open(0, 1) EXCEPT !.status = "withdrawn"]
\* v2 extends the window by a day.
Extending == v1 :> Open(0, 0) @@ v2 :> Open(0, 1) @@ v3 :> [Open(0, 1) EXCEPT !.status = "withdrawn"]

ShiftingContent  == [c \in Cand |-> [v \in Version |-> Shifting[v]]]
ExtendingContent == [c \in Cand |-> [v \in Version |-> Extending[v]]]

AllOnR1Watch == [w \in Watch |-> r1]
AllOnR1Cand  == [c \in Cand |-> r1]
FarWatch     == [w \in Watch |-> IF w = w1 THEN r1 ELSE r3]
SplitCand    == [c \in Cand |-> IF c = c1 THEN r1 ELSE r2]
OwnOrg       == [w \in Watch |-> IF w = w1 THEN o1 ELSE o2]

\* The pairs as far as they concern the second content, respectively the others.
OfSecond   == {k \in Key : k[3] = v2}
OfOthers   == {k \in Key : k[3] # v2}
\* Only the first watch ever scores above it.
FirstWatch == {k \in Key : k[1] = w1}
Nothing    == {}
BadSecond  == {<<c1, v2>>}

\* Bounds where a second register only serves to keep its matches apart: it is neither synced
\* nor scanned, and its watch is the first to be stored.
NearSynced ==
    /\ \A i \in 1..Len(runs) : runs[i].register # r3
    /\ \A j \in Job : r3 \notin rest[j]
FarFirst == watch[w1] # None => watch[w2] # None

Slots == Permutations(Job)
=============================================================================
