------------------------------- MODULE RiskRules -------------------------------
(***************************************************************************)
(* The rules that band the risk of a pair of marks (packages/scoring: the  *)
(* rules, the overlap of goods and services, and the adapter that scores   *)
(* name research with them).                                               *)
(*                                                                         *)
(* Similarities of signs are percentages; those of goods, hundredths of a  *)
(* percent.  A description of goods is the set of its terms, none standing *)
(* for no description.  The pair is the state, and a step changes one of   *)
(* its features.                                                           *)
(***************************************************************************)
EXTENDS Integers, FiniteSets, FiniteSetsExt

CONSTANTS
    SignShares,        \* bound: similarities of signs, in percent
    MarkClasses,       \* bound: the Nice classes of a mark
    GoodsTerms,        \* bound: terms of descriptions
    MarkTokens         \* bound: significant words of names

\* Similarities are percentages, and names, descriptions and classes are finite.
ASSUME RiskAssumption ==
    /\ SignShares \subseteq 0..100 /\ SignShares # {}
    /\ IsFiniteSet(MarkTokens) /\ IsFiniteSet(GoodsTerms)
    /\ \A C \in MarkClasses : IsFiniteSet(C)

VARIABLE
    pair     \* the features of the pair

riskVars == <<pair>>

Whole == 10000
OfTwo(m, n) == IF m >= n THEN m ELSE n
Share(n, d) == (Whole * n) \div d

(***************************************************************************)
(* Goods and services (goods-services-overlap.ts).                         *)
(***************************************************************************)
\* Classes whose goods are commercially near, with their strength.
CrossClassRelations ==
    {<<{32, 33}, 55>>, <<{33, 35}, 45>>, <<{33, 43}, 50>>, <<{9, 42}, 40>>, <<{25, 35}, 45>>}

CrossClassStrength(p) ==
    Max({0} \cup {r[2] : r \in {x \in CrossClassRelations :
                    \E c \in p.leftNice, d \in p.rightNice : {c, d} = x[1]}})

HasText(p) == p.leftGoods # {} /\ p.rightGoods # {}

TextSimilarity(p) ==
    Share(Cardinality(p.leftGoods \cap p.rightGoods), Cardinality(p.leftGoods \cup p.rightGoods))

NiceJaccard(p) ==
    IF p.leftNice \cup p.rightNice = {} THEN 0
    ELSE Share(Cardinality(p.leftNice \cap p.rightNice), Cardinality(p.leftNice \cup p.rightNice))

Overall(p) ==
    IF HasText(p)
    THEN Max({TextSimilarity(p), (NiceJaccard(p) * 50) \div 100, CrossClassStrength(p) * 55})
    ELSE OfTwo((NiceJaccard(p) * 60) \div 100, CrossClassStrength(p) * 70)

Coverage(p) == IF HasText(p) THEN 8500 ELSE IF Overall(p) > 0 THEN 4000 ELSE 2000

(***************************************************************************)
(* The rules (rules/assess-risk.ts).  Bands are ranks: irrelevant, weak,   *)
(* borderline, relevant, strong.                                           *)
(***************************************************************************)
Irrelevant == 0  Weak == 1  Borderline == 2  Relevant == 3  Strong == 4

\* Words in common; two names without any significant word have all of none in common.
TokenSet(p) ==
    IF p.leftTokens \cup p.rightTokens = {} THEN 100
    ELSE (100 * Cardinality(p.leftTokens \cap p.rightTokens))
            \div Cardinality(p.leftTokens \cup p.rightTokens)

SharesWord(p) == p.leftTokens \cap p.rightTokens # {}

SignStrength(p) == Max({IF p.exact THEN 100 ELSE 0, p.spelling, p.sound, TokenSet(p)})

\* Coverage is never 0 here, so that the branch for missing goods is not taken.
GoodsStrength(p) == OfTwo(Overall(p), Coverage(p))

\* Each rule with the band it raises the pair to, where it applies.
Rules(p) ==
    LET sign == SignStrength(p)
        goods == GoodsStrength(p)
    IN  {r \in {<<IF goods >= 5000 THEN Strong ELSE Relevant, p.exact>>,
                <<Relevant, sign >= 90 /\ SharesWord(p) /\ goods >= 5500>>,
                <<Relevant, p.sound >= 90 /\ sign >= 75 /\ goods >= 5000>>,
                <<Strong, sign >= 80 /\ goods >= 7000>>,
                <<Borderline, sign >= 70 /\ goods >= 4000>>,
                <<Weak, sign >= 55>>} : r[2]}

\* Weak words are never counted by the features, so that nothing lowers a band.
Band(p) == Max({Irrelevant} \cup {r[1] : r \in Rules(p)})

\* Mutant: dissimilar goods are held against the conflict.
LoweredRiskValue(p) ==
    (Band(p) * 14 * Whole + SignStrength(p) * 2000 + (Whole - GoodsStrength(p)) * 10 + Whole \div 2)
        \div Whole

\* Rounded half up, of 100.
RiskValue(p) ==
    (Band(p) * 14 * Whole + SignStrength(p) * 2000 + GoodsStrength(p) * 10 + Whole \div 2)
        \div Whole

(***************************************************************************)
(* Name research by the same rules (shared/clearance-adapter.ts): no       *)
(* descriptions, and the classes stand for whether those asked overlap.    *)
(***************************************************************************)
AsResearch(p, overlap) ==
    [p EXCEPT !.leftGoods = {}, !.rightGoods = {}, !.leftNice = {9},
              !.rightNice = IF overlap THEN {9} ELSE {25}]

ResearchRisk(p, overlap) ==
    (70 * RiskValue(AsResearch(p, overlap)) + 15 * p.spelling + 10 * p.sound
        + 5 * (IF overlap THEN 80 ELSE 15) + 50) \div 100

AdviceBand(risk) == IF risk >= 70 THEN "high" ELSE IF risk >= 40 THEN "medium" ELSE "low"

(***************************************************************************)
(* Pairs of marks.                                                         *)
(***************************************************************************)
\* Names that are the same are spelled, sound and split into words the same.
Fits(p) ==
    p.exact => p.spelling = 100 /\ p.sound = 100 /\ p.leftTokens = p.rightTokens

Unlike ==
    [exact |-> FALSE, spelling |-> Min(SignShares), sound |-> Min(SignShares),
     leftTokens |-> {}, rightTokens |-> {}, leftNice |-> {}, rightNice |-> {},
     leftGoods |-> {}, rightGoods |-> {}]

RiskInit == pair = Unlike

\* One feature of the pair is another.
RiskNext ==
    /\ \/ \E s \in SignShares : pair' = [pair EXCEPT !.exact = FALSE, !.spelling = s]
       \/ \E s \in SignShares \cup {100} : pair' = [pair EXCEPT !.exact = FALSE, !.sound = s]
       \/ pair' = [pair EXCEPT !.exact = TRUE, !.spelling = 100, !.sound = 100,
                               !.rightTokens = pair.leftTokens]
       \/ \E T \in SUBSET MarkTokens : pair' = [pair EXCEPT !.exact = FALSE, !.rightTokens = T]
       \/ \E T \in SUBSET MarkTokens : pair' = [pair EXCEPT !.exact = FALSE, !.leftTokens = T]
       \/ \E C \in MarkClasses : pair' = [pair EXCEPT !.leftNice = C]
       \/ \E C \in MarkClasses : pair' = [pair EXCEPT !.rightNice = C]
       \/ \E G \in SUBSET GoodsTerms : pair' = [pair EXCEPT !.leftGoods = G]
       \/ \E G \in SUBSET GoodsTerms : pair' = [pair EXCEPT !.rightGoods = G]
    /\ Fits(pair')

RiskSpec == RiskInit /\ [][RiskNext]_riskVars

(***************************************************************************)
(* Properties.                                                             *)
(***************************************************************************)
\* A pair that becomes more alike, in its signs or in goods it describes the same way, is never
\* thought less of a risk (assessRiskFromFeatures).
MoreAlike(p, q) ==
    /\ p # q
    /\ p.exact => q.exact
    /\ p.spelling <= q.spelling /\ p.sound <= q.sound
    /\ SharesWord(p) => SharesWord(q)
    /\ TokenSet(p) <= TokenSet(q)
    /\ HasText(p) = HasText(q) /\ Overall(p) <= Overall(q)

MoreAlikeNeverSafer ==
    [][MoreAlike(pair, pair') =>
        Band(pair) <= Band(pair') /\ RiskValue(pair) <= RiskValue(pair')]_riskVars

\* Which mark is the watched one makes no difference to the risk.
RiskSymmetric ==
    LET turned == [pair EXCEPT !.leftTokens = pair.rightTokens, !.rightTokens = pair.leftTokens,
                               !.leftNice = pair.rightNice, !.rightNice = pair.leftNice,
                               !.leftGoods = pair.rightGoods, !.rightGoods = pair.leftGoods]
    IN  Band(turned) = Band(pair) /\ RiskValue(turned) = RiskValue(pair)

\* A name that is taken is advised against whatever the classes, and overlapping classes never
\* make the advice milder (clearanceRiskScoreViaSharedEngine).
TakenNameIsHigh ==
    /\ pair.exact => RiskValue(pair) >= 60 /\ AdviceBand(ResearchRisk(pair, TRUE)) = "high"
    /\ ResearchRisk(pair, FALSE) <= ResearchRisk(pair, TRUE)
    /\ ResearchRisk(pair, TRUE) \in 0..100

\* The cascade of thresholds does not depend on whose mark is asked about, and advises against
\* a taken name.
AdviceSound == RiskSymmetric /\ TakenNameIsHigh
===============================================================================
