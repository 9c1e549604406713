----------------------------- MODULE TextDistance -----------------------------
(***************************************************************************)
(* The string measures scores are made of (packages/scoring/src/text-      *)
(* distance.ts and the affixes of extract-features.ts).  A name is a       *)
(* sequence of letters.  A similarity in [0, 1] is a fraction              *)
(* [of |-> n, out |-> d]; costs of edits count in hundredths, Unit being a *)
(* whole edit.                                                             *)
(*                                                                         *)
(* The program computes distances in a matrix of two names.  What it       *)
(* promises is about edits: how few single changes lead from one name to   *)
(* the other.  Balls holds those, found by making the edits.               *)
(***************************************************************************)
EXTENDS Integers, Sequences, FiniteSets, FiniteSetsExt, SequencesExt

CONSTANTS
    Letters,         \* bound: the letters of names
    MaxLetters       \* bound: the length of names

ASSUME TextAssumption == MaxLetters \in Nat \ {0} /\ IsFiniteSet(Letters)

Names == UNION {[1..n -> Letters] : n \in 0..MaxLetters}

VARIABLES
    left,     \* the watched name
    right     \* the candidate's name

textVars == <<left, right>>

Unit == 100
Larger(m, n) == IF m >= n THEN m ELSE n
Lesser(m, n) == IF m <= n THEN m ELSE n
Ratio(n, d) == [of |-> n, out |-> d]
One  == Ratio(1, 1)
Zero == Ratio(0, 1)
Same(f, g) == f.of * g.out = g.of * f.out

(***************************************************************************)
(* Distances.  Cell <<i, j>> of the matrix holds what the first i letters  *)
(* of a cost to turn into the first j of b.                                *)
(***************************************************************************)
\* Mutant: a letter is counted before there is one.
ShiftedFirstRow(j) == (j + 1) * Unit

FirstRow(j) == j * Unit

Plain(x, y) == IF x = y THEN 0 ELSE Unit

LetterPairs(a, b) == (1..Len(a)) \X (1..Len(b))
PlainCosts(a, b) == [p \in LetterPairs(a, b) |-> Plain(a[p[1]], b[p[2]])]

\* costs: what turning a letter into another costs; swaps: where two letters changed places.
Matrix(a, b, costs, swaps) ==
    LET cell[p \in (0..Len(a)) \X (0..Len(b))] ==
            LET i == p[1]
                j == p[2]
                edited == Min({cell[<<i - 1, j>>] + Unit, cell[<<i, j - 1>>] + Unit,
                               cell[<<i - 1, j - 1>>] + costs[p]})
            IN  IF i = 0 THEN FirstRow(j)
                ELSE IF j = 0 THEN i * Unit
                ELSE IF p \in swaps THEN Lesser(edited, cell[<<i - 2, j - 2>>] + costs[p])
                ELSE edited
    IN  cell

Distance(a, b, costs, swaps) == Matrix(a, b, costs, swaps)[<<Len(a), Len(b)>>]

LevenshteinDistance(a, b) == IF a = b THEN 0 ELSE Distance(a, b, PlainCosts(a, b), {})

\* Two neighbouring letters that changed places cost one edit.
Swapped(a, b) ==
    {p \in (2..Len(a)) \X (2..Len(b)) : a[p[1]] = b[p[2] - 1] /\ a[p[1] - 1] = b[p[2]]}

DamerauDistance(a, b) ==
    IF a = b THEN 0 ELSE Distance(a, b, PlainCosts(a, b), Swapped(a, b))

\* Letters that read or sound alike.
Groups == {{"s", "z"}, {"c", "k"}, {"c", "s"}, {"f", "v"}, {"i", "y"}, {"q", "k"},
           {"j", "y"}, {"u", "v"}, {"o", "0"}, {"i", "1"}, {"l", "1"}}

SubstitutionCost(x, y) ==
    IF x = y THEN 0 ELSE IF {x, y} \in Groups THEN 35 ELSE Unit

\* Groups of letters rewritten before comparison, in this order.
Rewrites == <<<<<<"p", "h">>, <<"f">>>>, <<<<"c", "k">>, <<"k">>>>, <<<<"q", "u">>, <<"k", "w">>>>,
              <<<<"k", "s">>, <<"x">>>>, <<<<"s", "c", "h">>, <<"s", "h">>>>, <<<<"i", "j">>, <<"y">>>>,
              <<<<"a", "a">>, <<"a">>>>, <<<<"e", "e">>, <<"i">>>>, <<<<"o", "o">>, <<"u">>>>>>

\* split(from).join(to): occurrences from the left that do not overlap.
Replaced(word, from, to) ==
    LET n == Len(from)
        rest[i \in 1..Len(word) + n] ==
            IF i > Len(word) THEN <<>>
            ELSE IF i + n - 1 <= Len(word) /\ SubSeq(word, i, i + n - 1) = from
            THEN to \o rest[i + n]
            ELSE <<word[i]>> \o rest[i + 1]
    IN  rest[1]

Rewritten(word) ==
    LET after[k \in 0..Len(Rewrites)] ==
            IF k = 0 THEN word ELSE Replaced(after[k - 1], Rewrites[k][1], Rewrites[k][2])
    IN  after[Len(Rewrites)]

WeightedDistance(a, b) ==
    Distance(a, b, [p \in LetterPairs(a, b) |-> SubstitutionCost(a[p[1]], b[p[2]])], {})

(***************************************************************************)
(* Similarities.                                                           *)
(***************************************************************************)
\* 1 less the distance in letters of the longer name.
Normalized(distance, a, b) ==
    LET longest == Larger(Len(a), Len(b)) * Unit
    IN  IF longest = 0 THEN One ELSE Ratio(longest - distance, longest)

Levenshtein(a, b) == Normalized(LevenshteinDistance(a, b), a, b)
Damerau(a, b) == Normalized(DamerauDistance(a, b), a, b)

WeightedEdit(a, b) ==
    LET l == Rewritten(a)
        r == Rewritten(b)
    IN  IF Len(l) = 0 /\ Len(r) = 0 THEN One
        ELSE IF Len(l) = 0 \/ Len(r) = 0 THEN Zero
        ELSE Normalized(WeightedDistance(l, r), l, r)

Jaccard(S, T) ==
    IF S \cup T = {} THEN One ELSE Ratio(Cardinality(S \cap T), Cardinality(S \cup T))

\* A name shorter than n is its own only gram.
Ngrams(word, n) ==
    IF Len(word) = 0 THEN {}
    ELSE IF Len(word) < n THEN {word}
    ELSE {SubSeq(word, i, i + n - 1) : i \in 1..Len(word) - n + 1}

Trigram(a, b) == Jaccard(Ngrams(a, 3), Ngrams(b, 3))

\* Every letter of a takes the first equal letter of b that is near enough and still free.
Near(a, b) == Larger(0, Larger(Len(a), Len(b)) \div 2 - 1)

FreeFor(a, b, pairs, i) ==
    {j \in Larger(1, i - Near(a, b))..Lesser(i + Near(a, b), Len(b)) :
        b[j] = a[i] /\ \A p \in pairs : p[2] # j}

Matches(a, b) ==
    LET pairs[i \in 0..Len(a)] ==
            IF i = 0 THEN {}
            ELSE LET free == FreeFor(a, b, pairs[i - 1], i)
                 IN  pairs[i - 1] \cup IF free = {} THEN {} ELSE {<<i, Min(free)>>}
    IN  pairs[Len(a)]

Ascending(S) == SetToSortSeq(S, <)

\* (m/|a| + m/|b| + (m - t/2)/m) / 3, t being the matched letters not in the same order.
Jaro(a, b) ==
    LET pairs == Matches(a, b)
        m == Cardinality(pairs)
        ofA == Ascending({p[1] : p \in pairs})
        ofB == Ascending({p[2] : p \in pairs})
        t == Cardinality({k \in 1..m : a[ofA[k]] # b[ofB[k]]})
    IN  IF a = b THEN One
        ELSE IF m = 0 THEN Zero
        ELSE Ratio(2 * m * m * (Len(a) + Len(b)) + Len(a) * Len(b) * (2 * m - t),
                   6 * m * Len(a) * Len(b))

CommonPrefix(a, b) ==
    Max({n \in 0..Lesser(Len(a), Len(b)) : SubSeq(a, 1, n) = SubSeq(b, 1, n)})
CommonSuffix(a, b) == CommonPrefix(Reverse(a), Reverse(b))

\* A tenth of what is missing for each of at most four letters they begin with.
JaroWinkler(a, b) ==
    LET j == Jaro(a, b)
        p == Lesser(4, CommonPrefix(a, b))
    IN  Ratio(10 * j.of + p * (j.out - j.of), 10 * j.out)

\* The longest run of equal letters that ends at each pair of letters.
Runs(a, b) ==
    LET run[p \in (0..Len(a)) \X (0..Len(b))] ==
            IF p \in LetterPairs(a, b) /\ a[p[1]] = b[p[2]] THEN 1 + run[<<p[1] - 1, p[2] - 1>>] ELSE 0
    IN  run

LongestCommonSubstring(a, b) ==
    Max({Runs(a, b)[p] : p \in (0..Len(a)) \X (0..Len(b))})

Affix(n, a, b) ==
    IF Len(a) = 0 \/ Len(b) = 0 THEN Zero ELSE Ratio(n, Larger(Len(a), Len(b)))
PrefixRatio(a, b) == Affix(CommonPrefix(a, b), a, b)
SuffixRatio(a, b) == Affix(CommonSuffix(a, b), a, b)
SubstringRatio(a, b) == Affix(LongestCommonSubstring(a, b), a, b)

LengthRatio(a, b) ==
    IF Larger(Len(a), Len(b)) = 0 THEN One
    ELSE Ratio(Lesser(Len(a), Len(b)), Larger(Len(a), Len(b)))

\* The visual component: seven tenths the shared ends, which may overlap, and three the length.
Visual(a, b) ==
    IF Len(a) = 0 \/ Len(b) = 0 THEN Zero
    ELSE LET longest == Larger(Len(a), Len(b))
             ends == Lesser(longest, CommonPrefix(a, b) + CommonSuffix(a, b))
         IN  Ratio(7 * ends + 3 * Lesser(Len(a), Len(b)), 10 * longest)

Similarities(a, b) ==
    <<Levenshtein(a, b), Damerau(a, b), Jaro(a, b), JaroWinkler(a, b), Trigram(a, b),
      WeightedEdit(a, b), SubstringRatio(a, b), PrefixRatio(a, b), SuffixRatio(a, b),
      LengthRatio(a, b), Visual(a, b)>>

(***************************************************************************)
(* What the distances are about: names reached by single edits.            *)
(***************************************************************************)
Deleted(w)  == {RemoveAt(w, i) : i \in DOMAIN w}
Inserted(w) == {InsertAt(w, i, x) : i \in 1..Len(w) + 1, x \in Letters}
Changed(w)  == {[w EXCEPT ![i] = x] : i \in DOMAIN w, x \in Letters}
Turned(w)   == {[w EXCEPT ![i] = w[i + 1], ![i + 1] = w[i]] : i \in 1..Len(w) - 1}

Edits(w) == (Deleted(w) \cup Inserted(w) \cup Changed(w)) \cap Names
Neighbours == [w \in Names |-> Edits(w)]

\* Balls[w][n]: the names at most n edits away from w.
Ball(w) ==
    LET ball[n \in 0..MaxLetters] ==
            IF n = 0 THEN {w}
            ELSE LET inner == ball[n - 1] IN inner \cup UNION {Neighbours[v] : v \in inner}
    IN  ball
Balls == [w \in Names |-> Ball(w)]

TextInit == left = <<>> /\ right \in Names
TextNext == left' \in Edits(left) /\ right' = right

(***************************************************************************)
(* Properties.                                                             *)
(***************************************************************************)
\* The distance at the end of the matrix is the fewest letters to delete, insert or change
\* (levenshteinDistance).
FewestEdits ==
    LevenshteinDistance(left, right) =
        Unit * Min({n \in 0..MaxLetters : right \in Balls[left][n]})

\* Swapping neighbours only helps, by at most one edit for each two letters, and not at all
\* where nothing can be swapped (damerauLevenshteinDistance).
SwapsOnlyHelp ==
    LET d == DamerauDistance(left, right)
        l == LevenshteinDistance(left, right)
    IN  /\ d <= l /\ l <= 2 * d
        /\ right \in Turned(left) \ {left} => d = Unit

\* Every measure is a share of one, one for a name and itself, and does not depend on which of
\* the two names is the watched one (the scores of a match, extractTrademarkFeatures).
SharesAndSymmetric ==
    LET there == Similarities(left, right)
        back == Similarities(right, left)
    IN  \A k \in DOMAIN there :
            /\ there[k].of \in 0..there[k].out
            /\ Same(there[k], back[k])
            /\ left = right /\ left # <<>> => Same(there[k], One)

\* The longest run of letters two names share, as a reader would look for it
\* (longestCommonSubstringRatio).
SharedRun ==
    LongestCommonSubstring(left, right) =
        Max({n \in 0..Lesser(Len(left), Len(right)) :
                \E i \in 0..Len(left) - n, j \in 0..Len(right) - n :
                    SubSeq(left, i + 1, i + n) = SubSeq(right, j + 1, j + n)})

\* The measures computed by tables are the ones a reader would define.
MeasuresAgree == FewestEdits /\ SwapsOnlyHelp /\ SharesAndSymmetric /\ SharedRun
===============================================================================
