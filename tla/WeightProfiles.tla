---------------------------- MODULE WeightProfiles ----------------------------
(***************************************************************************)
(* The total of a match and the weights it is made with.  A profile of     *)
(* weights is published by an operator into the memory of the API's       *)
(* process; the worker scores with the profile that is active in its own   *)
(* memory, asking the optional AI layer for an adjustment on the way.  A   *)
(* restart of a process forgets what was published in it.                 *)
(*                                                                         *)
(* Shares are in percent and totals in hundredths of a point, so that a    *)
(* share times a weight needs no rounding.                                 *)
(***************************************************************************)
EXTENDS Integers, Sequences, FiniteSets, FiniteSetsExt, Functions

CONSTANTS
    Components,        \* the components that rules calculate
    DefaultWeights,    \* DEFAULT_WEIGHT_PROFILE
    Publishable,       \* bound: the weights operators try to publish
    Shares,            \* bound: the percentages calculators give
    Opinions,          \* bound: the percentages the AI layer gives
    Scorings,          \* pairs of marks being scored
    MaxProfiles        \* bound: profiles of a process

Ai == "aiPlausibilityAdjustment"
Weights == [Components \cup {Ai} -> Int]
Full == 10000          \* the largest total, 100 points

ASSUME WeightsAssumption ==
    /\ Ai \notin Components /\ IsFiniteSet(Components)
    /\ DefaultWeights \in Weights /\ SumFunction(DefaultWeights) = 100
    /\ \A c \in DOMAIN DefaultWeights : DefaultWeights[c] >= 0
    /\ Publishable \subseteq Weights
    /\ Shares \subseteq Int /\ Opinions \subseteq Int
    /\ MaxProfiles \in Nat \ {0}

VARIABLES
    versions,    \* versions[p]: WEIGHT_PROFILES of process p, the n-th being profile vn
    active,      \* active[p]: activeProfileId of process p
    scoring,     \* scoring[m]: the call of scoreMatch for m, from its start to its result
    scored       \* scored[m]: scores, total and profile of the stored match

weightVars == <<versions, active, scoring, scored>>

Processes == {"api", "worker"}
None == [profile |-> 0]

WeightsInit ==
    /\ versions = [p \in Processes |-> <<DefaultWeights>>]
    /\ active = [p \in Processes |-> 1]
    /\ scoring = [m \in Scorings |-> None]
    /\ scored = [m \in Scorings |-> None]

Clamp(v, low, high) == IF v < low THEN low ELSE IF v > high THEN high ELSE v

(***************************************************************************)
(* Profiles (weight-profile.ts).                                           *)
(***************************************************************************)
\* Mutant: the next version is the one that is active.
RepublishedVersion(p) == active[p]

\* One more than the versions there are.
NextVersion(p) == Len(versions[p]) + 1

\* PUT /platform/scoring/weights: weights that do not sum to 100 are refused.
Publish(w) ==
    /\ Len(versions["api"]) < MaxProfiles
    /\ SumFunction(w) = 100
    /\ LET v == NextVersion("api")
       IN  /\ versions' = [versions EXCEPT !["api"] =
                                [n \in DOMAIN @ \cup {v} |-> IF n = v THEN w ELSE @[n]]]
           /\ active' = [active EXCEPT !["api"] = v]
    /\ UNCHANGED <<scoring, scored>>

\* A process starts again with the profiles of its code.
Restart(p) ==
    /\ versions' = [versions EXCEPT ![p] = <<DefaultWeights>>]
    /\ active' = [active EXCEPT ![p] = 1]
    /\ scoring' = IF p = "worker" THEN [m \in Scorings |-> None] ELSE scoring
    /\ UNCHANGED scored

(***************************************************************************)
(* One call of scoreMatch in the worker (scoring-pipeline.ts).             *)
(***************************************************************************)
Total(scores, w) ==
    Clamp(SumFunction([k \in DOMAIN w |-> scores[k] * w[k]]), 0, Full)

\* The match with its scores, and the profile they were weighed with.
Stored(call, opinion) ==
    LET scores == [k \in Components \cup {Ai} |-> IF k = Ai THEN opinion ELSE call.shares[k]]
    IN  [profile |-> call.profile, scores |-> scores, total |-> Total(scores, call.weights)]

\* The active profile is taken before anything is awaited; calculators' results are clamped.
ScoreStarts(m, shares) ==
    /\ scoring[m] = None
    /\ scoring' = [scoring EXCEPT ![m] =
            [profile |-> active["worker"], weights |-> versions["worker"][active["worker"]],
             shares |-> [c \in Components |-> Clamp(shares[c], 0, 100)]]]
    /\ UNCHANGED <<versions, active, scored>>

Adjustment(opinion) == Clamp(opinion, -100, 100)

\* The AI layer has an opinion, or none (and then the adjustment is 0), or there is no such layer.
ScoreEnds(m, opinion) ==
    /\ scoring[m] # None
    /\ scored' = [scored EXCEPT ![m] = Stored(scoring[m], Adjustment(opinion))]
    /\ scoring' = [scoring EXCEPT ![m] = None]
    /\ UNCHANGED <<versions, active>>

WeightsNext ==
    \/ \E w \in Publishable : Publish(w)
    \/ \E p \in Processes : Restart(p)
    \/ \E m \in Scorings : \E shares \in [Components -> Shares] : ScoreStarts(m, shares)
    \/ \E m \in Scorings, opinion \in Opinions \cup {0} : ScoreEnds(m, opinion)

WeightsSpec == WeightsInit /\ [][WeightsNext]_weightVars

(***************************************************************************)
(* Properties.                                                             *)
(***************************************************************************)
WeightsTypeOK ==
    /\ \A p \in Processes :
        /\ active[p] \in DOMAIN versions[p]
        /\ \A n \in DOMAIN versions[p] : SumFunction(versions[p][n]) = 100
    /\ \A m \in Scorings : scored[m] # None => scored[m].total \in 0..Full

\* A stored total can be computed again from the stored scores and the profile it names, in every
\* process that knows the profile, whatever was published or restarted since (docs/scoring/
\* weights.md: historical scores remain reproducible).
ScoresReproducible ==
    \A m \in Scorings, p \in Processes :
        scored[m] # None /\ scored[m].profile \in DOMAIN versions[p] =>
            scored[m].total = Total(scored[m].scores, versions[p][scored[m].profile])

\* The AI layer moves a total by no more than its weight (docs/scoring/weights.md: it can nudge
\* but never dominate a score).
AiOnlyNudges ==
    \A m \in Scorings :
        scored[m] # None =>
            LET alone == Total([scored[m].scores EXCEPT ![Ai] = 0], DefaultWeights)
            IN  scored[m].total - alone \in -100 * DefaultWeights[Ai]..100 * DefaultWeights[Ai]

\* A score means the same wherever and whenever it is read: it can be computed again, and
\* the AI did no more than nudge it.
ScoresHold == ScoresReproducible /\ AiOnlyNudges
===============================================================================
