------------------------------ MODULE TextProofs ------------------------------
(***************************************************************************)
(* The string measures, for every alphabet and every length of names: the  *)
(* tables of TextDistance compute what a reader would define.              *)
(***************************************************************************)
EXTENDS TextDistance, FiniteSetTheorems, SequenceTheorems, NaturalsInduction, WellFoundedInduction, TLAPS

--------------------------------------------------------------------------------
(***************************************************************************)
(* Recursion.  Tables and loops are recursive functions over a set with a  *)
(* rank: what is at d depends on what is at places of smaller rank.        *)
(***************************************************************************)
\* What holds of a place when it holds of every place of smaller rank holds everywhere.
LEMMA RankInduction ==
    ASSUME NEW D, NEW rank \in [D -> Nat], NEW Good,
           \A d \in D : (\A e \in D : rank[e] < rank[d] => e \in Good) => d \in Good
    PROVE  \A d \in D : d \in Good
<1> DEFINE Bad == {d \in D : d \notin Good}
           T == {rank[d] : d \in Bad}
<1> SUFFICES ASSUME Bad # {} PROVE FALSE  OBVIOUS
<1>1. PICK n \in T : \A k \in T : ~(k < n)
  <2>1. T \in SUBSET Nat /\ T # {}  OBVIOUS
  <2> HIDE DEF T
  <2>2. PICK n \in T : \A k \in T : <<k, n>> \notin OpToRel(<, Nat)
    BY <2>1, WFMin, NatLessThanWellFounded, Zenon
  <2>3. \A k \in T : ~(k < n)  BY <2>1, <2>2, Zenon DEF OpToRel
  <2> QED  BY <2>3
<1>2. PICK d \in Bad : rank[d] = n  OBVIOUS
<1>3. \A e \in D : rank[e] < rank[d] => e \in Good  BY <1>1, <1>2
<1> QED  BY <1>2, <1>3

\* What a definition gives at d depends only on places of smaller rank.
Causal(D, X, rank, F) ==
    /\ F \in [D -> [[D -> X] -> X]]
    /\ \A d \in D : \A f, g \in [D -> X] :
        (\A e \in D : rank[e] < rank[d] => f[e] = g[e]) => F[d][f] = F[d][g]

Solves(D, X, F, f) == f \in [D -> X] /\ \A d \in D : f[d] = F[d][f]

\* A definition that looks only at smaller ranks has a solution.
LEMMA Solution ==
    ASSUME NEW D, NEW X, NEW x \in X, NEW rank \in [D -> Nat],
           NEW N \in Nat, \A d \in D : rank[d] < N,
           NEW F, Causal(D, X, rank, F)
    PROVE  \E f : Solves(D, X, F, f)
<1> USE DEF Causal, Solves
<1> DEFINE SolvesTo(f, k) == \A d \in D : rank[d] < k => f[d] = F[d][f]
           Short == {k \in Nat : \E f \in [D -> X] : SolvesTo(f, k)}
           id == [k \in Nat |-> k]
<1>1. \A k \in Nat : (\A l \in Nat : id[l] < id[k] => l \in Short) => k \in Short
  <2> SUFFICES ASSUME NEW k \in Nat, \A l \in Nat : l < k => l \in Short
               PROVE  k \in Short
    OBVIOUS
  <2>1. CASE k = 0
    <3>1. [d \in D |-> x] \in [D -> X] /\ SolvesTo([d \in D |-> x], 0)  OBVIOUS
    <3> QED  BY <2>1, <3>1
  <2>2. CASE k # 0
    <3>1. k - 1 \in Nat /\ k - 1 < k  BY <2>2
    <3>2. PICK f \in [D -> X] : SolvesTo(f, k - 1)  BY <3>1
    <3> DEFINE g == [d \in D |-> F[d][f]]
    <3>3. g \in [D -> X]  OBVIOUS
    <3>4. ASSUME NEW d \in D, rank[d] < k PROVE g[d] = F[d][g]
      <4>1. \A e \in D : rank[e] < rank[d] => f[e] = g[e]  BY <3>1, <3>2, <3>4
      <4>2. F[d][f] = F[d][g]  BY <4>1, <3>3
      <4> QED  BY <4>2
    <3> QED  BY <3>3, <3>4
  <2> QED  BY <2>1, <2>2
<1>2. N \in Short
  <2> HIDE DEF Short
  <2>1. id \in [Nat -> Nat]  OBVIOUS
  <2> HIDE DEF id
  <2> QED  BY <1>1, <2>1, RankInduction
<1>3. PICK f \in [D -> X] : \A d \in D : rank[d] < N => f[d] = F[d][f]  BY <1>2
<1> QED  BY <1>3
--------------------------------------------------------------------------------
(***************************************************************************)
(* The matrix.                                                             *)
(***************************************************************************)
Cells(m, n) == (0..m) \X (0..n)

\* A cell off the edges is bounded by its neighbours and meets one of the bounds.
CellFits(T, i, j, costs, swaps) ==
    /\ T[<<i, j>>] \in Nat
    /\ T[<<i - 1, j>>] \in Nat
    /\ T[<<i, j - 1>>] \in Nat
    /\ T[<<i - 1, j - 1>>] \in Nat
    /\ T[<<i, j>>] <= T[<<i - 1, j>>] + Unit
    /\ T[<<i, j>>] <= T[<<i, j - 1>>] + Unit
    /\ T[<<i, j>>] <= T[<<i - 1, j - 1>>] + costs[<<i, j>>]
    /\ <<i, j>> \in swaps => T[<<i, j>>] <= T[<<i - 2, j - 2>>] + costs[<<i, j>>]
    /\ \/ T[<<i, j>>] = T[<<i - 1, j>>] + Unit
       \/ T[<<i, j>>] = T[<<i, j - 1>>] + Unit
       \/ T[<<i, j>>] = T[<<i - 1, j - 1>>] + costs[<<i, j>>]
       \/ <<i, j>> \in swaps /\ T[<<i, j>>] = T[<<i - 2, j - 2>>] + costs[<<i, j>>]

Filled(T, m, n, costs, swaps) ==
    /\ T \in [Cells(m, n) -> Nat]
    /\ \A i \in 0..m : T[<<i, 0>>] = i * Unit
    /\ \A j \in 0..n : T[<<0, j>>] = j * Unit
    /\ \A i \in 1..m, j \in 1..n : CellFits(T, i, j, costs, swaps)

LEMMA MinOfThree ==
    ASSUME NEW x \in Nat, NEW y \in Nat, NEW z \in Nat
    PROVE  /\ Min({x, y, z}) \in {x, y, z}
           /\ Min({x, y, z}) <= x /\ Min({x, y, z}) <= y /\ Min({x, y, z}) <= z
<1> DEFINE S == {x, y, z}
<1>1. \E u \in S : \A v \in S : u <= v
  <2>1. CASE x <= y /\ x <= z  BY <2>1
  <2>2. CASE y <= x /\ y <= z  BY <2>2
  <2>3. CASE z <= x /\ z <= y  BY <2>3
  <2> QED  BY <2>1, <2>2, <2>3
<1>2. Min(S) \in S /\ \A v \in S : Min(S) <= v
  <2> HIDE DEF S
  <2> QED  BY <1>1 DEF Min
<1> QED  BY <1>2

\* The matrix the program fills is one.
LEMMA MatrixIs ==
    ASSUME NEW S, NEW a \in Seq(S), NEW b \in Seq(S),
           NEW costs \in [LetterPairs(a, b) -> Nat],
           NEW swaps \in SUBSET ((2..Len(a)) \X (2..Len(b)))
    PROVE  Filled(Matrix(a, b, costs, swaps), Len(a), Len(b), costs, swaps)
<1> DEFINE m == Len(a)
           n == Len(b)
           D == (0..m) \X (0..n)
           Edited(p, f) == Min({f[<<p[1] - 1, p[2]>>] + Unit, f[<<p[1], p[2] - 1>>] + Unit,
                                f[<<p[1] - 1, p[2] - 1>>] + costs[p]})
           Body(p, f) ==
               IF p[1] = 0 THEN FirstRow(p[2])
               ELSE IF p[2] = 0 THEN p[1] * Unit
               ELSE IF p \in swaps THEN Lesser(Edited(p, f), f[<<p[1] - 2, p[2] - 2>>] + costs[p])
               ELSE Edited(p, f)
           T == Matrix(a, b, costs, swaps)
           rank == [p \in D |-> p[1] + p[2]]
           F == [p \in D |-> [f \in [D -> Nat] |-> Body(p, f)]]
<1>1. m \in Nat /\ n \in Nat  OBVIOUS
<1> HIDE DEF m, n
<1>2. ASSUME NEW p \in D, NEW f \in [D -> Nat], p[1] # 0, p[2] # 0
      PROVE  /\ f[<<p[1] - 1, p[2]>>] \in Nat
             /\ f[<<p[1], p[2] - 1>>] \in Nat
             /\ f[<<p[1] - 1, p[2] - 1>>] \in Nat
             /\ costs[p] \in Nat
             /\ Edited(p, f) \in Nat
             /\ Edited(p, f) <= f[<<p[1] - 1, p[2]>>] + Unit
             /\ Edited(p, f) <= f[<<p[1], p[2] - 1>>] + Unit
             /\ Edited(p, f) <= f[<<p[1] - 1, p[2] - 1>>] + costs[p]
             /\ \/ Edited(p, f) = f[<<p[1] - 1, p[2]>>] + Unit
                \/ Edited(p, f) = f[<<p[1], p[2] - 1>>] + Unit
                \/ Edited(p, f) = f[<<p[1] - 1, p[2] - 1>>] + costs[p]
             /\ p \in swaps => f[<<p[1] - 2, p[2] - 2>>] \in Nat
  <2>1. /\ f[<<p[1] - 1, p[2]>>] \in Nat
        /\ f[<<p[1], p[2] - 1>>] \in Nat
        /\ f[<<p[1] - 1, p[2] - 1>>] \in Nat
    <3>1. /\ <<p[1] - 1, p[2]>> \in D
          /\ <<p[1], p[2] - 1>> \in D
          /\ <<p[1] - 1, p[2] - 1>> \in D
      BY <1>1, <1>2
    <3> HIDE DEF D
    <3> QED  BY <3>1
  <2>2. costs[p] \in Nat  BY <1>1, <1>2 DEF LetterPairs, m, n
  <2>3. p \in swaps => f[<<p[1] - 2, p[2] - 2>>] \in Nat
    <3>1. p \in swaps => <<p[1] - 2, p[2] - 2>> \in D  BY <1>1, <1>2 DEF m, n
    <3> HIDE DEF D
    <3> QED  BY <3>1
  <2> DEFINE x == f[<<p[1] - 1, p[2]>>] + Unit
             y == f[<<p[1], p[2] - 1>>] + Unit
             z == f[<<p[1] - 1, p[2] - 1>>] + costs[p]
  <2>4. x \in Nat /\ y \in Nat /\ z \in Nat
    <3> HIDE DEF D, Edited
    <3> QED  BY <2>1, <2>2 DEF Unit
  <2>5. Edited(p, f) = Min({x, y, z})  OBVIOUS
  <2> HIDE DEF D, x, y, z, Edited
  <2>6. /\ Edited(p, f) \in Nat
        /\ Edited(p, f) <= x /\ Edited(p, f) <= y /\ Edited(p, f) <= z
        /\ (Edited(p, f) = x \/ Edited(p, f) = y \/ Edited(p, f) = z)
    BY <2>4, <2>5, MinOfThree
  <2> QED  BY <2>1, <2>2, <2>3, <2>6 DEF x, y, z
<1>3. ASSUME NEW p \in D, NEW f, NEW h, \A e \in D : rank[e] < rank[p] => f[e] = h[e]
      PROVE  Body(p, f) = Body(p, h)
  <2>1. CASE p[1] = 0 \/ p[2] = 0  BY <2>1
  <2>2. CASE p[1] # 0 /\ p[2] # 0
    <3>1. f[<<p[1] - 1, p[2]>>] = h[<<p[1] - 1, p[2]>>]
      <4>1. <<p[1] - 1, p[2]>> \in D  BY <2>2, <1>1
      <4>2. rank[<<p[1] - 1, p[2]>>] < rank[p]  BY <4>1, <1>1
      <4> QED  BY <4>1, <4>2, <1>3
    <3>2. f[<<p[1], p[2] - 1>>] = h[<<p[1], p[2] - 1>>]
      <4>1. <<p[1], p[2] - 1>> \in D  BY <2>2, <1>1
      <4>2. rank[<<p[1], p[2] - 1>>] < rank[p]  BY <4>1, <1>1
      <4> QED  BY <4>1, <4>2, <1>3
    <3>3. f[<<p[1] - 1, p[2] - 1>>] = h[<<p[1] - 1, p[2] - 1>>]
      <4>1. <<p[1] - 1, p[2] - 1>> \in D  BY <2>2, <1>1
      <4>2. rank[<<p[1] - 1, p[2] - 1>>] < rank[p]  BY <4>1, <1>1
      <4> QED  BY <4>1, <4>2, <1>3
    <3>4. ASSUME p \in swaps
          PROVE  f[<<p[1] - 2, p[2] - 2>>] = h[<<p[1] - 2, p[2] - 2>>]
      <4>1. <<p[1] - 2, p[2] - 2>> \in D  BY <2>2, <1>1, <3>4 DEF m, n
      <4>2. rank[<<p[1] - 2, p[2] - 2>>] < rank[p]  BY <4>1, <1>1
      <4> QED  BY <4>1, <4>2, <1>3
    <3>5. Edited(p, f) = Edited(p, h)  BY <3>1, <3>2, <3>3
    <3> HIDE DEF Edited, D, rank
    <3> QED  BY <3>4, <3>5
  <2> QED  BY <2>1, <2>2
<1>4. rank \in [D -> Nat] /\ \A p \in D : rank[p] < m + n + 1  BY <1>1
<1>5. \A p \in D, f \in [D -> Nat] : Body(p, f) \in Nat
  <2> SUFFICES ASSUME NEW p \in D, NEW f \in [D -> Nat] PROVE Body(p, f) \in Nat  OBVIOUS
  <2>1. p[1] \in Nat /\ p[2] \in Nat  BY <1>1
  <2> HIDE DEF D, Edited
  <2>2. CASE p[1] = 0  BY <2>1, <2>2 DEF FirstRow, Unit
  <2>3. CASE p[1] # 0 /\ p[2] = 0  BY <2>1, <2>3 DEF Unit
  <2>4. CASE p[1] # 0 /\ p[2] # 0
    <3>1. /\ costs[p] \in Nat /\ Edited(p, f) \in Nat
          /\ p \in swaps => f[<<p[1] - 2, p[2] - 2>>] \in Nat
      BY <1>2, <2>4
    <3>2. CASE p \in swaps
      <4>1. f[<<p[1] - 2, p[2] - 2>>] + costs[p] \in Nat  BY <3>1, <3>2
      <4> QED  BY <2>4, <3>1, <3>2, <4>1 DEF Lesser
    <3>3. CASE p \notin swaps  BY <2>4, <3>1, <3>3
    <3> QED  BY <3>2, <3>3
  <2> QED  BY <2>2, <2>3, <2>4
<1>6. PICK g \in [D -> Nat] : g = [p \in D |-> Body(p, g)]
  <2>1. F \in [D -> [[D -> Nat] -> Nat]]
    <3> HIDE DEF D, Body
    <3> QED  BY <1>5
  <2>2. ASSUME NEW p \in D, NEW f \in [D -> Nat], NEW h \in [D -> Nat],
               \A e \in D : rank[e] < rank[p] => f[e] = h[e]
        PROVE  F[p][f] = F[p][h]
    <3>1. Body(p, f) = Body(p, h)
      <4> HIDE DEF D, Body, rank
      <4> QED  BY <2>2, <1>3
    <3> HIDE DEF D, Body, rank
    <3> QED  BY <3>1
  <2>3. PICK g \in [D -> Nat] : \A p \in D : g[p] = F[p][g]
    <3> DEFINE N == m + n + 1
    <3>1. N \in Nat  BY <1>1
    <3> HIDE DEF D, F, rank, N
    <3>2. Causal(D, Nat, rank, F)  BY <2>1, <2>2 DEF Causal
    <3>3. \A p \in D : rank[p] < N  BY <1>4 DEF N
    <3>4. PICK g : Solves(D, Nat, F, g)
      BY <1>4, <3>1, <3>2, <3>3, 0 \in Nat, Solution, Zenon
    <3> QED  BY <3>4 DEF Solves
  <2>4. g = [p \in D |-> Body(p, g)]
    <3> HIDE DEF D, Body
    <3> QED  BY <2>3
  <2> QED  BY <2>4
<1>7. T = [p \in D |-> Body(p, T)]
  <2>1. T = CHOOSE f : f = [p \in D |-> Body(p, f)]
    BY DEF Matrix, m, n
  <2> HIDE DEF D, Body, T
  <2> QED  BY <1>6, <2>1
<1> HIDE DEF T
<1>8. T \in [D -> Nat]
  <2> DEFINE Agree == {p \in D : T[p] = g[p]}
  <2>1. ASSUME NEW p \in D, \A e \in D : rank[e] < rank[p] => e \in Agree
        PROVE  p \in Agree
    <3>1. Body(p, T) = Body(p, g)
      <4> HIDE DEF D, Body, rank
      <4> QED  BY <2>1, <1>3
    <3> HIDE DEF D, Body, rank
    <3> QED  BY <3>1, <1>6, <1>7
  <2>2. \A p \in D : p \in Agree
    <3> HIDE DEF D, Agree, rank
    <3> QED  BY <2>1, <1>4, RankInduction
  <2> HIDE DEF D, Body
  <2> QED  BY <2>2, <1>6, <1>7
<1>9. \A p \in D : T[p] = Body(p, T)
  <2> HIDE DEF D, Body
  <2> QED  BY <1>7
<1>10. \A i \in 0..m : T[<<i, 0>>] = i * Unit
  <2> SUFFICES ASSUME NEW i \in 0..m PROVE T[<<i, 0>>] = i * Unit  OBVIOUS
  <2>1. <<i, 0>> \in D  BY <1>1
  <2>2. T[<<i, 0>>] = Body(<<i, 0>>, T)  BY <2>1, <1>9
  <2>3. Body(<<i, 0>>, T) = i * Unit  BY DEF FirstRow, Unit
  <2> QED  BY <2>2, <2>3
<1>11. \A j \in 0..n : T[<<0, j>>] = j * Unit
  <2> SUFFICES ASSUME NEW j \in 0..n PROVE T[<<0, j>>] = j * Unit  OBVIOUS
  <2>1. <<0, j>> \in D  BY <1>1
  <2>2. T[<<0, j>>] = Body(<<0, j>>, T)  BY <2>1, <1>9
  <2>3. Body(<<0, j>>, T) = j * Unit  BY DEF FirstRow
  <2> QED  BY <2>2, <2>3
<1>12. ASSUME NEW i \in 1..m, NEW j \in 1..n PROVE CellFits(T, i, j, costs, swaps)
  <2> DEFINE p == <<i, j>>
  <2>1. p \in D /\ p[1] = i /\ p[2] = j /\ i # 0 /\ j # 0  BY <1>1
  <2>2. T[p] = IF p \in swaps THEN Lesser(Edited(p, T), T[<<i - 2, j - 2>>] + costs[p])
               ELSE Edited(p, T)
    <3>1. T[p] = Body(p, T)  BY <2>1, <1>9
    <3> HIDE DEF D, p, Edited
    <3> QED  BY <2>1, <3>1
  <2>3. /\ T[<<i - 1, j>>] \in Nat
        /\ T[<<i, j - 1>>] \in Nat
        /\ T[<<i - 1, j - 1>>] \in Nat
        /\ costs[p] \in Nat
        /\ Edited(p, T) \in Nat
        /\ Edited(p, T) <= T[<<i - 1, j>>] + Unit
        /\ Edited(p, T) <= T[<<i, j - 1>>] + Unit
        /\ Edited(p, T) <= T[<<i - 1, j - 1>>] + costs[p]
        /\ \/ Edited(p, T) = T[<<i - 1, j>>] + Unit
           \/ Edited(p, T) = T[<<i, j - 1>>] + Unit
           \/ Edited(p, T) = T[<<i - 1, j - 1>>] + costs[p]
        /\ p \in swaps => T[<<i - 2, j - 2>>] \in Nat
    <3> HIDE DEF D, p, Edited
    <3> QED  BY <1>2, <1>8, <2>1
  <2> HIDE DEF D, p, Edited
  <2>4. /\ T[p] <= T[<<i - 1, j>>] + Unit
        /\ T[p] <= T[<<i, j - 1>>] + Unit
        /\ T[p] <= T[<<i - 1, j - 1>>] + costs[p]
        /\ p \in swaps => T[p] <= T[<<i - 2, j - 2>>] + costs[p]
        /\ \/ T[p] = T[<<i - 1, j>>] + Unit
           \/ T[p] = T[<<i, j - 1>>] + Unit
           \/ T[p] = T[<<i - 1, j - 1>>] + costs[p]
           \/ p \in swaps /\ T[p] = T[<<i - 2, j - 2>>] + costs[p]
    <3>1. CASE p \in swaps
      <4> DEFINE q == T[<<i - 2, j - 2>>] + costs[p]
      <4>1. q \in Nat  BY <2>3, <3>1
      <4>2. T[p] = Lesser(Edited(p, T), q)  BY <2>2, <3>1
      <4> HIDE DEF q
      <4>3. T[p] <= Edited(p, T) /\ T[p] <= q /\ (T[p] = Edited(p, T) \/ T[p] = q) /\ T[p] \in Nat
        BY <2>3, <4>1, <4>2 DEF Lesser
      <4>4. p \in swaps => T[p] <= T[<<i - 2, j - 2>>] + costs[p]  BY <4>3 DEF q
      <4>5. T[p] = q => T[p] = T[<<i - 2, j - 2>>] + costs[p]  BY DEF q
      <4>6. /\ T[p] <= T[<<i - 1, j>>] + Unit
            /\ T[p] <= T[<<i, j - 1>>] + Unit
            /\ T[p] <= T[<<i - 1, j - 1>>] + costs[p]
        <5> DEFINE e == Edited(p, T)
                   t == T[p]
        <5>1. t \in Nat /\ e \in Nat /\ t <= e  BY <2>3, <4>3
        <5> HIDE DEF e, t
        <5>2. t <= T[<<i - 1, j>>] + Unit  BY <2>3, <5>1 DEF e, Unit
        <5>3. t <= T[<<i, j - 1>>] + Unit  BY <2>3, <5>1 DEF e, Unit
        <5>4. t <= T[<<i - 1, j - 1>>] + costs[p]  BY <2>3, <5>1 DEF e
        <5> QED  BY <5>2, <5>3, <5>4 DEF t
      <4> QED  BY <2>3, <3>1, <4>3, <4>4, <4>5, <4>6
    <3>2. CASE p \notin swaps  BY <2>2, <2>3, <3>2
    <3> QED  BY <3>1, <3>2
  <2>5. T[p] \in Nat  BY <1>8, <2>1
  <2> QED  BY <2>3, <2>4, <2>5 DEF p, CellFits
<1>13. T \in [Cells(m, n) -> Nat]  BY <1>8 DEF Cells
<1>14. Filled(T, m, n, costs, swaps)  BY <1>10, <1>11, <1>12, <1>13 DEF Filled
<1> QED  BY <1>14 DEF T, m, n

LEMMA CellInduction ==
    ASSUME NEW m \in Nat, NEW n \in Nat, NEW Good,
           \A i \in 0..m, j \in 0..n :
               (\A k \in 0..m, l \in 0..n : k + l < i + j => <<k, l>> \in Good) => <<i, j>> \in Good
    PROVE  \A i \in 0..m, j \in 0..n : <<i, j>> \in Good
<1> DEFINE D == (0..m) \X (0..n)
           rank == [p \in D |-> p[1] + p[2]]
<1>1. rank \in [D -> Nat]  OBVIOUS
<1>2. ASSUME NEW p \in D, \A e \in D : rank[e] < rank[p] => e \in Good
      PROVE  p \in Good
  <2>1. PICK i \in 0..m, j \in 0..n : p = <<i, j>>  OBVIOUS
  <2>2. ASSUME NEW k \in 0..m, NEW l \in 0..n, k + l < i + j PROVE <<k, l>> \in Good
    <3>1. <<k, l>> \in D /\ rank[<<k, l>>] = k + l /\ rank[p] = i + j  BY <2>1
    <3> QED  BY <1>2, <2>2, <3>1
  <2> QED  BY <2>1, <2>2
<1>3. \A p \in D : p \in Good
  <2> HIDE DEF D, rank
  <2> QED  BY <1>1, <1>2, RankInduction
<1> QED  BY <1>3

LEMMA CellTyped ==
    ASSUME NEW m \in Nat, NEW n \in Nat, NEW T, NEW costs, NEW swaps, Filled(T, m, n, costs, swaps),
           NEW i \in 0..m, NEW j \in 0..n
    PROVE  /\ T[<<i, j>>] \in Nat
           /\ i = 0 => T[<<i, j>>] = j * Unit
           /\ j = 0 => T[<<i, j>>] = i * Unit
BY DEF Filled, Cells

\* No pair of names is further apart than the longer is long.
LEMMA MatrixBounded ==
    ASSUME NEW m \in Nat, NEW n \in Nat, NEW T, NEW costs, NEW swaps, Filled(T, m, n, costs, swaps),
           \A i \in 1..m, j \in 1..n : costs[<<i, j>>] \in 0..Unit
    PROVE  \A i \in 0..m, j \in 0..n : T[<<i, j>>] <= Larger(i, j) * Unit
<1> DEFINE Good == {p \in (0..m) \X (0..n) : T[p] <= Larger(p[1], p[2]) * Unit}
<1>1. ASSUME NEW i \in 0..m, NEW j \in 0..n,
             \A k \in 0..m, l \in 0..n : k + l < i + j => <<k, l>> \in Good
      PROVE  <<i, j>> \in Good
  <2>1. CASE i = 0 \/ j = 0
    <3>1. T[<<i, j>>] <= Larger(i, j) * Unit  BY <2>1, CellTyped DEF Larger, Unit
    <3> QED  BY <3>1
  <2>2. CASE i # 0 /\ j # 0
    <3>1. <<i - 1, j - 1>> \in Good  BY <1>1, <2>2
    <3>2. T[<<i - 1, j - 1>>] <= Larger(i - 1, j - 1) * Unit  BY <3>1
    <3>3. /\ T[<<i, j>>] \in Nat /\ T[<<i - 1, j - 1>>] \in Nat
          /\ T[<<i, j>>] <= T[<<i - 1, j - 1>>] + costs[<<i, j>>]
      <4>1. i \in 1..m /\ j \in 1..n  BY <2>2
      <4> QED  BY <4>1, Zenon DEF Filled, CellFits
    <3>4. costs[<<i, j>>] \in 0..Unit  BY <2>2
    <3>5. T[<<i, j>>] <= Larger(i, j) * Unit  BY <2>2, <3>2, <3>3, <3>4 DEF Larger, Unit
    <3> QED  BY <3>5
  <2> QED  BY <2>1, <2>2
<1>2. \A i \in 0..m, j \in 0..n : <<i, j>> \in Good
  <2> HIDE DEF Good
  <2> QED  BY <1>1, CellInduction
<1> QED  BY <1>2

Mirrored(m, n, costs, swaps, stsoc, spaws) ==
    \A i \in 1..m, j \in 1..n : /\ costs[<<i, j>>] \in Nat
                                /\ costs[<<i, j>>] = stsoc[<<j, i>>]
                                /\ <<i, j>> \in swaps <=> <<j, i>> \in spaws

\* The matrix of the two names the other way around is the transpose.
LEMMA Transposed ==
    ASSUME NEW m \in Nat, NEW n \in Nat,
           NEW T, NEW costs, NEW swaps, Filled(T, m, n, costs, swaps),
           NEW R, NEW stsoc, NEW spaws, Filled(R, n, m, stsoc, spaws),
           Mirrored(m, n, costs, swaps, stsoc, spaws),
           swaps \in SUBSET ((2..m) \X (2..n))
    PROVE  \A i \in 0..m, j \in 0..n : T[<<i, j>>] = R[<<j, i>>]
<1> DEFINE Good == {p \in (0..m) \X (0..n) : T[p] = R[<<p[2], p[1]>>]}
<1>1. ASSUME NEW i \in 0..m, NEW j \in 0..n,
             \A k \in 0..m, l \in 0..n : k + l < i + j => <<k, l>> \in Good
      PROVE  <<i, j>> \in Good
  <2>0. \A k \in 0..m, l \in 0..n : k + l < i + j => T[<<k, l>>] = R[<<l, k>>]
    BY <1>1
  <2> SUFFICES T[<<i, j>>] = R[<<j, i>>]  OBVIOUS
  <2> HIDE DEF Good
  <2>1. CASE i = 0 \/ j = 0
    BY <2>1, CellTyped DEF Unit
  <2>2. CASE i # 0 /\ j # 0
    <3>1. /\ T[<<i - 1, j>>] = R[<<j, i - 1>>]
          /\ T[<<i, j - 1>>] = R[<<j - 1, i>>]
          /\ T[<<i - 1, j - 1>>] = R[<<j - 1, i - 1>>]
      BY <2>0, <2>2
    <3>2. <<i, j>> \in swaps => /\ T[<<i - 2, j - 2>>] = R[<<j - 2, i - 2>>]
                                /\ T[<<i - 2, j - 2>>] \in Nat
      <4>1. <<i, j>> \in swaps => i - 2 \in 0..m /\ j - 2 \in 0..n  OBVIOUS
      <4> QED  BY <2>0, <4>1, CellTyped
    <3>3. <<i, j>> \in swaps <=> <<j, i>> \in spaws  BY <2>2 DEF Mirrored
    <3>4. costs[<<i, j>>] = stsoc[<<j, i>>] /\ costs[<<i, j>>] \in Nat  BY <2>2 DEF Mirrored
    <3>5. CellFits(T, i, j, costs, swaps) /\ CellFits(R, j, i, stsoc, spaws)
      BY <2>2 DEF Filled
    <3>6. T[<<i, j>>] <= R[<<j, i>>]
      BY <3>1, <3>2, <3>3, <3>4, <3>5 DEF Unit, CellFits
    <3>7. R[<<j, i>>] <= T[<<i, j>>]
      BY <3>1, <3>2, <3>3, <3>4, <3>5 DEF Unit, CellFits
    <3> QED  BY <3>5, <3>6, <3>7 DEF CellFits
  <2> QED  BY <2>1, <2>2
<1>2. \A i \in 0..m, j \in 0..n : <<i, j>> \in Good
  <2> HIDE DEF Good
  <2> QED  BY <1>1, CellInduction
<1> QED  BY <1>2

\* Along d cells from <<i, j>> nothing costs anything.
FreeAlong(costs, i, j, d) == \A k \in 1..d : costs[<<i + k, j + k>>] = 0

\* Where letters agree, nothing is added along a diagonal.
LEMMA Diagonal ==
    ASSUME NEW m \in Nat, NEW n \in Nat, NEW T, NEW costs, NEW swaps, Filled(T, m, n, costs, swaps),
           NEW i \in 0..m, NEW j \in 0..n, NEW d \in Nat, i + d <= m, j + d <= n,
           FreeAlong(costs, i, j, d)
    PROVE  T[<<i + d, j + d>>] <= T[<<i, j>>]
<1> DEFINE Good == {e \in 0..d : T[<<i + e, j + e>>] <= T[<<i, j>>]}
           rank == [e \in 0..d |-> e]
<1>1. ASSUME NEW e \in 0..d, \A k \in 0..d : rank[k] < rank[e] => k \in Good
      PROVE  e \in Good
  <2>1. CASE e = 0
    <3>1. T[<<i, j>>] <= T[<<i, j>>]  BY CellTyped
    <3> QED  BY <2>1, <3>1
  <2>2. CASE e # 0
    <3>1. e - 1 \in Good  BY <1>1, <2>2
    <3> DEFINE k == i + e
               l == j + e
    <3>2. k \in 1..m /\ l \in 1..n /\ k - 1 = i + (e - 1) /\ l - 1 = j + (e - 1)  BY <2>2
    <3>3. costs[<<k, l>>] = 0  BY <2>2 DEF FreeAlong
    <3>4. T[<<k - 1, l - 1>>] <= T[<<i, j>>]  BY <3>1, <3>2
    <3> HIDE DEF k, l
    <3>5. /\ T[<<k, l>>] \in Nat /\ T[<<k - 1, l - 1>>] \in Nat
          /\ T[<<k, l>>] <= T[<<k - 1, l - 1>>] + costs[<<k, l>>]
      BY <3>2 DEF Filled, CellFits
    <3>6. T[<<i, j>>] \in Nat  BY CellTyped
    <3>7. T[<<k, l>>] <= T[<<i, j>>]  BY <3>3, <3>4, <3>5, <3>6
    <3> QED  BY <3>7 DEF k, l
  <2> QED  BY <2>1, <2>2
<1>2. rank \in [0..d -> Nat]  OBVIOUS
<1>3. \A e \in 0..d : e \in Good
  <2> DEFINE D == 0..d
  <2>1. rank \in [D -> Nat]  BY <1>2
  <2>2. \A e \in D : (\A k \in D : rank[k] < rank[e] => k \in Good) => e \in Good
    <3> HIDE DEF Good, rank
    <3> QED  BY <1>1
  <2> HIDE DEF D, Good, rank
  <2>3. \A e \in D : e \in Good  BY <2>1, <2>2, RankInduction
  <2> QED  BY <2>3 DEF D
<1>4. d \in Good  BY <1>3
<1> QED  BY <1>4

\* A pair of names is at least as far apart as their lengths are.
LEMMA MatrixFar ==
    ASSUME NEW m \in Nat, NEW n \in Nat, NEW T, NEW costs, Filled(T, m, n, costs, {}),
           \A i \in 1..m, j \in 1..n : costs[<<i, j>>] \in Nat
    PROVE  \A i \in 0..m, j \in 0..n : i * Unit <= j * Unit + T[<<i, j>>]
                                    /\ j * Unit <= i * Unit + T[<<i, j>>]
<1> DEFINE Good == {p \in (0..m) \X (0..n) : /\ p[1] * Unit <= p[2] * Unit + T[p]
                                            /\ p[2] * Unit <= p[1] * Unit + T[p]}
<1>1. ASSUME NEW i \in 0..m, NEW j \in 0..n,
             \A k \in 0..m, l \in 0..n : k + l < i + j => <<k, l>> \in Good
      PROVE  <<i, j>> \in Good
  <2>0. \A k \in 0..m, l \in 0..n :
            k + l < i + j => /\ k * Unit <= l * Unit + T[<<k, l>>]
                             /\ l * Unit <= k * Unit + T[<<k, l>>]
    BY <1>1
  <2> SUFFICES i * Unit <= j * Unit + T[<<i, j>>] /\ j * Unit <= i * Unit + T[<<i, j>>]
    OBVIOUS
  <2> HIDE DEF Good
  <2>1. CASE i = 0 \/ j = 0  BY <2>1, CellTyped DEF Unit
  <2>2. CASE i # 0 /\ j # 0
    <3>1. i - 1 \in 0..m /\ j - 1 \in 0..n /\ i \in 1..m /\ j \in 1..n  BY <2>2
    <3>2. /\ (i - 1) * Unit <= j * Unit + T[<<i - 1, j>>]
          /\ j * Unit <= (i - 1) * Unit + T[<<i - 1, j>>]
      BY <2>0, <3>1
    <3>3. /\ i * Unit <= (j - 1) * Unit + T[<<i, j - 1>>]
          /\ (j - 1) * Unit <= i * Unit + T[<<i, j - 1>>]
      BY <2>0, <3>1
    <3>4. /\ (i - 1) * Unit <= (j - 1) * Unit + T[<<i - 1, j - 1>>]
          /\ (j - 1) * Unit <= (i - 1) * Unit + T[<<i - 1, j - 1>>]
      BY <2>0, <3>1
    <3>5. CellFits(T, i, j, costs, {}) /\ costs[<<i, j>>] \in Nat  BY <3>1 DEF Filled
    <3> QED  BY <3>2, <3>3, <3>4, <3>5 DEF Unit, CellFits
  <2> QED  BY <2>1, <2>2
<1>2. \A i \in 0..m, j \in 0..n : <<i, j>> \in Good
  <2> HIDE DEF Good
  <2> QED  BY <1>1, CellInduction
<1> QED  BY <1>2

\* The matrix of a and b at whole edits.
Plainly(T, a, b, swaps) == Filled(T, Len(a), Len(b), PlainCosts(a, b), swaps)

LEMMA PlainCostsIs ==
    ASSUME NEW a, NEW b, NEW i \in 1..Len(a), NEW j \in 1..Len(b)
    PROVE  /\ PlainCosts(a, b)[<<i, j>>] = Plain(a[i], b[j])
           /\ PlainCosts(a, b)[<<i, j>>] \in {0, Unit}
           /\ PlainCosts(a, b)[<<i, j>>] \in 0..Unit
           /\ PlainCosts(a, b)[<<i, j>>] \in Nat
           /\ a[i] = b[j] <=> PlainCosts(a, b)[<<i, j>>] = 0
<1>1. <<i, j>> \in LetterPairs(a, b)  BY DEF LetterPairs
<1>2. PlainCosts(a, b)[<<i, j>>] = Plain(a[i], b[j])  BY <1>1 DEF PlainCosts
<1> QED  BY <1>2 DEF Plain, Unit

LEMMA PlainlyIs ==
    ASSUME NEW S, NEW a \in Seq(S), NEW b \in Seq(S),
           NEW swaps \in SUBSET ((2..Len(a)) \X (2..Len(b)))
    PROVE  Plainly(Matrix(a, b, PlainCosts(a, b), swaps), a, b, swaps)
<1>1. PlainCosts(a, b) \in [LetterPairs(a, b) -> Nat]
  BY DEF PlainCosts, Plain, Unit
<1> QED  BY <1>1, MatrixIs DEF Plainly

\* Less than one edit apart are only equal beginnings.
LEMMA SmallDistance ==
    ASSUME NEW S, NEW a \in Seq(S), NEW b \in Seq(S), NEW T, NEW swaps \in SUBSET Swapped(a, b),
           Plainly(T, a, b, swaps),
           NEW i \in 0..Len(a), NEW j \in 0..Len(b), T[<<i, j>>] < Unit
    PROVE  i = j /\ \A k \in 1..i : a[k] = b[k]
<1> DEFINE m == Len(a)
           n == Len(b)
           costs == PlainCosts(a, b)
           Good == {p \in (0..m) \X (0..n) :
                       T[p] < Unit => p[1] = p[2] /\ \A k \in 1..p[1] : a[k] = b[k]}
<1>1. m \in Nat /\ n \in Nat  OBVIOUS
<1>2. Filled(T, m, n, costs, swaps)  BY DEF Plainly
<1>3. \A k \in 1..m, l \in 1..n : costs[<<k, l>>] \in {0, Unit} /\ (a[k] = b[l] <=> costs[<<k, l>>] = 0)
  <2> SUFFICES ASSUME NEW k \in 1..m, NEW l \in 1..n
               PROVE  costs[<<k, l>>] \in {0, Unit} /\ (a[k] = b[l] <=> costs[<<k, l>>] = 0)
    OBVIOUS
  <2> QED  BY PlainCostsIs
<1>4. \A p \in swaps : /\ p[1] \in 2..m /\ p[2] \in 2..n
                       /\ a[p[1]] = b[p[2] - 1] /\ a[p[1] - 1] = b[p[2]]
  BY DEF Swapped
<1> HIDE DEF m, n, costs
<1>5. ASSUME NEW k \in 0..m, NEW l \in 0..n,
             \A e \in 0..m, f \in 0..n : e + f < k + l => <<e, f>> \in Good
      PROVE  <<k, l>> \in Good
  <2>0. \A e \in 0..m, f \in 0..n :
            e + f < k + l /\ T[<<e, f>>] < Unit => e = f /\ \A h \in 1..e : a[h] = b[h]
    BY <1>5
  <2> SUFFICES ASSUME T[<<k, l>>] < Unit PROVE k = l /\ \A h \in 1..k : a[h] = b[h]
    OBVIOUS
  <2> HIDE DEF Good
  <2>1. CASE k = 0 \/ l = 0
    <3>1. k = 0 /\ l = 0  BY <1>1, <1>2, <2>1, CellTyped DEF Unit
    <3> QED  BY <3>1
  <2>2. CASE k # 0 /\ l # 0
    <3>1. k \in 1..m /\ l \in 1..n /\ k - 1 \in 0..m /\ l - 1 \in 0..n  BY <1>1, <2>2
    <3>2. CellFits(T, k, l, costs, swaps)  BY <1>2, <3>1 DEF Filled
    <3>3. costs[<<k, l>>] \in {0, Unit} /\ (a[k] = b[l] <=> costs[<<k, l>>] = 0)  BY <1>3, <3>1
    <3>4. CASE T[<<k, l>>] = T[<<k - 1, l - 1>>] + costs[<<k, l>>]
      <4>1. T[<<k - 1, l - 1>>] < Unit /\ costs[<<k, l>>] = 0  BY <3>2, <3>3, <3>4 DEF Unit, CellFits
      <4>2. k - 1 = l - 1 /\ \A h \in 1..k - 1 : a[h] = b[h]  BY <2>0, <3>1, <4>1
      <4>3. k = l /\ a[k] = b[k]  BY <3>1, <3>3, <4>1, <4>2
      <4> QED  BY <3>1, <4>2, <4>3
    <3>5. CASE <<k, l>> \in swaps /\ T[<<k, l>>] = T[<<k - 2, l - 2>>] + costs[<<k, l>>]
      <4>1. /\ k \in 2..m /\ l \in 2..n /\ k - 2 \in 0..m /\ l - 2 \in 0..n
            /\ a[k] = b[l - 1] /\ a[k - 1] = b[l]
        BY <1>1, <1>4, <3>5
      <4>2. T[<<k - 2, l - 2>>] \in Nat  BY <1>1, <1>2, <4>1, CellTyped
      <4>3. T[<<k - 2, l - 2>>] < Unit /\ costs[<<k, l>>] = 0  BY <3>3, <3>5, <4>2 DEF Unit
      <4>4. k - 2 = l - 2 /\ \A h \in 1..k - 2 : a[h] = b[h]
        <5>1. (k - 2) + (l - 2) < k + l  BY <1>1
        <5> QED  BY <2>0, <4>1, <4>3, <5>1
      <4>5. k = l /\ a[k] = b[k] /\ a[k - 1] = b[k - 1]  BY <3>1, <3>3, <4>1, <4>3, <4>4
      <4> QED  BY <4>1, <4>4, <4>5
    <3>6. CASE T[<<k, l>>] = T[<<k - 1, l>>] + Unit  BY <3>2, <3>6 DEF Unit, CellFits
    <3>7. CASE T[<<k, l>>] = T[<<k, l - 1>>] + Unit  BY <3>2, <3>7 DEF Unit, CellFits
    <3> QED  BY <3>2, <3>4, <3>5, <3>6, <3>7, Zenon DEF CellFits
  <2> QED  BY <2>1, <2>2
<1>6. \A k \in 0..m, l \in 0..n : <<k, l>> \in Good
  <2> HIDE DEF Good
  <2> QED  BY <1>1, <1>5, CellInduction
<1>7. <<i, j>> \in Good  BY <1>6 DEF m, n
<1> QED  BY <1>7

\* Swaps make a distance smaller, by no more than half.
LEMMA SwapsHalve ==
    ASSUME NEW S, NEW a \in Seq(S), NEW b \in Seq(S), NEW T, NEW R, NEW swaps \in SUBSET Swapped(a, b),
           Plainly(T, a, b, {}), Plainly(R, a, b, swaps),
           NEW i \in 0..Len(a), NEW j \in 0..Len(b)
    PROVE  R[<<i, j>>] <= T[<<i, j>>] /\ T[<<i, j>>] <= 2 * R[<<i, j>>]
<1> DEFINE m == Len(a)
           n == Len(b)
           costs == PlainCosts(a, b)
           Good == {p \in (0..m) \X (0..n) : R[p] <= T[p] /\ T[p] <= 2 * R[p]}
<1>1. m \in Nat /\ n \in Nat  OBVIOUS
<1>2. Filled(T, m, n, costs, {}) /\ Filled(R, m, n, costs, swaps)  BY DEF Plainly
<1>3. \A k \in 1..m, l \in 1..n : costs[<<k, l>>] \in {0, Unit} /\ (a[k] = b[l] <=> costs[<<k, l>>] = 0)
  <2> SUFFICES ASSUME NEW k \in 1..m, NEW l \in 1..n
               PROVE  costs[<<k, l>>] \in {0, Unit} /\ (a[k] = b[l] <=> costs[<<k, l>>] = 0)
    OBVIOUS
  <2> QED  BY PlainCostsIs
<1>4. \A p \in swaps : /\ p[1] \in 2..m /\ p[2] \in 2..n
                       /\ a[p[1]] = b[p[2] - 1] /\ a[p[1] - 1] = b[p[2]]
  BY DEF Swapped
<1> HIDE DEF m, n, costs
<1>5. ASSUME NEW k \in 0..m, NEW l \in 0..n,
             \A e \in 0..m, f \in 0..n : e + f < k + l => <<e, f>> \in Good
      PROVE  <<k, l>> \in Good
  <2>0. \A e \in 0..m, f \in 0..n :
            e + f < k + l => R[<<e, f>>] <= T[<<e, f>>] /\ T[<<e, f>>] <= 2 * R[<<e, f>>]
    BY <1>5
  <2> SUFFICES R[<<k, l>>] <= T[<<k, l>>] /\ T[<<k, l>>] <= 2 * R[<<k, l>>]
    OBVIOUS
  <2> HIDE DEF Good
  <2>1. CASE k = 0 \/ l = 0
    <3>1. R[<<k, l>>] = T[<<k, l>>] /\ T[<<k, l>>] \in Nat
      <4>1. /\ T[<<k, l>>] \in Nat
            /\ k = 0 => T[<<k, l>>] = l * Unit
            /\ l = 0 => T[<<k, l>>] = k * Unit
        BY <1>1, <1>2, CellTyped
      <4>2. /\ R[<<k, l>>] \in Nat
            /\ k = 0 => R[<<k, l>>] = l * Unit
            /\ l = 0 => R[<<k, l>>] = k * Unit
        BY <1>1, <1>2, CellTyped
      <4> QED  BY <2>1, <4>1, <4>2
    <3> QED  BY <3>1
  <2>2. CASE k # 0 /\ l # 0
    <3>1. k \in 1..m /\ l \in 1..n /\ k - 1 \in 0..m /\ l - 1 \in 0..n  BY <1>1, <2>2
    <3>2. CellFits(T, k, l, costs, {})  BY <1>2, <3>1 DEF Filled
    <3>3. CellFits(R, k, l, costs, swaps)  BY <1>2, <3>1 DEF Filled
    <3>4. costs[<<k, l>>] \in {0, Unit}  BY <1>3, <3>1
    <3>5. R[<<k - 1, l>>] <= T[<<k - 1, l>>] /\ T[<<k - 1, l>>] <= 2 * R[<<k - 1, l>>]
      BY <2>0, <3>1
    <3>6. R[<<k, l - 1>>] <= T[<<k, l - 1>>] /\ T[<<k, l - 1>>] <= 2 * R[<<k, l - 1>>]
      BY <2>0, <3>1
    <3>7. R[<<k - 1, l - 1>>] <= T[<<k - 1, l - 1>>] /\ T[<<k - 1, l - 1>>] <= 2 * R[<<k - 1, l - 1>>]
      BY <2>0, <3>1
    <3> DEFINE t == T[<<k, l>>]     r == R[<<k, l>>]
               t1 == T[<<k - 1, l>>]   r1 == R[<<k - 1, l>>]
               t2 == T[<<k, l - 1>>]   r2 == R[<<k, l - 1>>]
               t3 == T[<<k - 1, l - 1>>]   r3 == R[<<k - 1, l - 1>>]
               c == costs[<<k, l>>]
               swap == <<k, l>> \in swaps /\ R[<<k, l>>] = R[<<k - 2, l - 2>>] + costs[<<k, l>>]
    <3>8. /\ t \in Nat /\ t1 \in Nat /\ t2 \in Nat /\ t3 \in Nat
          /\ t <= t1 + Unit /\ t <= t2 + Unit /\ t <= t3 + c
          /\ (t = t1 + Unit \/ t = t2 + Unit \/ t = t3 + c)
      <4>1. <<k, l>> \notin {}  OBVIOUS
      <4> QED  BY <3>2, <4>1, Zenon DEF CellFits
    <3>9. /\ r \in Nat /\ r1 \in Nat /\ r2 \in Nat /\ r3 \in Nat
          /\ r <= r1 + Unit /\ r <= r2 + Unit /\ r <= r3 + c
          /\ (r = r1 + Unit \/ r = r2 + Unit \/ r = r3 + c \/ swap)
      BY <3>3, Zenon DEF CellFits
    <3>10. c \in Nat  BY <3>4 DEF Unit
    <3>11. r1 <= t1 /\ t1 <= 2 * r1 /\ r2 <= t2 /\ t2 <= 2 * r2 /\ r3 <= t3 /\ t3 <= 2 * r3
      BY <3>5, <3>6, <3>7
    <3>12. r <= t
      <4> HIDE DEF t, t1, t2, t3, r, r1, r2, r3, c, swap
      <4> QED  BY <3>8, <3>9, <3>10, <3>11 DEF Unit
    <3>13. t <= 2 * r
      <4>1. CASE swap
        <5>1. /\ k \in 2..m /\ l \in 2..n /\ k - 2 \in 0..m /\ l - 2 \in 0..n
              /\ a[k] = b[l - 1] /\ a[k - 1] = b[l]
          BY <1>1, <1>4, <4>1
        <5>2. T[<<k - 2, l - 2>>] \in Nat /\ R[<<k - 2, l - 2>>] \in Nat
          BY <1>1, <1>2, <5>1, CellTyped
        <5>3. T[<<k - 2, l - 2>>] <= 2 * R[<<k - 2, l - 2>>]  BY <2>0, <5>1
        <5>4. T[<<k - 1, l - 1>>] <= T[<<k - 2, l - 2>>] + costs[<<k - 1, l - 1>>]
          <6> DEFINE e == k - 1
                     f == l - 1
          <6>1. e \in 1..m /\ f \in 1..n /\ e - 1 = k - 2 /\ f - 1 = l - 2  BY <1>1, <5>1
          <6> HIDE DEF e, f
          <6>2. T[<<e, f>>] <= T[<<e - 1, f - 1>>] + costs[<<e, f>>]
            BY <1>2, <6>1 DEF Filled, CellFits
          <6> QED  BY <6>1, <6>2 DEF e, f
        <5>5. costs[<<k - 1, l - 1>>] \in {0, costs[<<k, l>>]}
          <6>1. costs[<<k - 1, l - 1>>] \in {0, Unit}
            <7>1. k - 1 \in 1..m /\ l - 1 \in 1..n  BY <1>1, <5>1
            <7> QED  BY <1>3, <7>1
          <6>2. costs[<<k, l>>] = 0 => costs[<<k - 1, l - 1>>] = 0
            <7>1. k - 1 \in 1..m /\ l - 1 \in 1..n  BY <1>1, <5>1
            <7> QED  BY <1>3, <3>1, <5>1, <7>1
          <6> QED  BY <3>4, <6>1, <6>2
        <5> DEFINE t4 == T[<<k - 2, l - 2>>]
                   r4 == R[<<k - 2, l - 2>>]
                   d == costs[<<k - 1, l - 1>>]
        <5>6. t4 \in Nat /\ r4 \in Nat /\ t4 <= 2 * r4 /\ t3 <= t4 + d /\ r = r4 + c
          BY <4>1, <5>2, <5>3, <5>4
        <5>7. d = 0 \/ d = c  BY <5>5
        <5> HIDE DEF t, t1, t2, t3, r, r1, r2, r3, c, swap, t4, r4, d
        <5> QED  BY <3>8, <3>9, <3>10, <5>6, <5>7
      <4>2. CASE ~swap
        <5> HIDE DEF t, t1, t2, t3, r, r1, r2, r3, c, swap
        <5> QED  BY <3>8, <3>9, <3>10, <3>11, <4>2 DEF Unit
      <4> QED  BY <4>1, <4>2
    <3> QED  BY <3>12, <3>13
  <2> QED  BY <2>1, <2>2
<1>6. \A k \in 0..m, l \in 0..n : <<k, l>> \in Good
  <2> HIDE DEF Good
  <2> QED  BY <1>1, <1>5, CellInduction
<1>7. <<i, j>> \in Good  BY <1>6 DEF m, n
<1> QED  BY <1>7

\* By way of another name no name is nearer.
LEMMA Triangle ==
    ASSUME NEW S, NEW a \in Seq(S), NEW b \in Seq(S), NEW c \in Seq(S), NEW T, NEW R, NEW U,
           Plainly(T, a, b, {}), Plainly(R, b, c, {}), Plainly(U, a, c, {})
    PROVE  U[<<Len(a), Len(c)>>] <= T[<<Len(a), Len(b)>>] + R[<<Len(b), Len(c)>>]
<1> DEFINE x == Len(a)
           y == Len(b)
           z == Len(c)
           ab == PlainCosts(a, b)
           bc == PlainCosts(b, c)
           ac == PlainCosts(a, c)
           D == (0..x) \X (0..y) \X (0..z)
           rank == [p \in D |-> p[1] + p[2] + p[3]]
           Good == {p \in D : U[<<p[1], p[3]>>] <= T[<<p[1], p[2]>>] + R[<<p[2], p[3]>>]}
<1>1. x \in Nat /\ y \in Nat /\ z \in Nat  OBVIOUS
<1>2. Filled(T, x, y, ab, {}) /\ Filled(R, y, z, bc, {}) /\ Filled(U, x, z, ac, {})
  BY DEF Plainly
<1>3. /\ \A i \in 1..x, j \in 1..y : ab[<<i, j>>] \in {0, Unit} /\ (a[i] = b[j] <=> ab[<<i, j>>] = 0)
      /\ \A j \in 1..y, k \in 1..z : bc[<<j, k>>] \in {0, Unit} /\ (b[j] = c[k] <=> bc[<<j, k>>] = 0)
      /\ \A i \in 1..x, k \in 1..z : ac[<<i, k>>] \in {0, Unit} /\ (a[i] = c[k] <=> ac[<<i, k>>] = 0)
  <2>1. ASSUME NEW v, NEW w, NEW i \in 1..Len(v), NEW j \in 1..Len(w)
        PROVE  /\ PlainCosts(v, w)[<<i, j>>] \in {0, Unit}
               /\ v[i] = w[j] <=> PlainCosts(v, w)[<<i, j>>] = 0
    BY PlainCostsIs
  <2> QED  BY <2>1
<1> HIDE DEF x, y, z, ab, bc, ac
<1>4. /\ \A i \in 0..x, j \in 0..y : i * Unit <= j * Unit + T[<<i, j>>]
      /\ \A j \in 0..y, k \in 0..z : k * Unit <= j * Unit + R[<<j, k>>]
  <2>0. {0, Unit} \subseteq Nat  BY DEF Unit
  <2>1. \A i \in 1..x, j \in 1..y : ab[<<i, j>>] \in Nat  BY <1>3, <2>0, Zenon
  <2>2. \A j \in 1..y, k \in 1..z : bc[<<j, k>>] \in Nat  BY <1>3, <2>0, Zenon
  <2>3. \A i \in 0..x, j \in 0..y : i * Unit <= j * Unit + T[<<i, j>>]
    BY <1>1, <1>2, <2>1, MatrixFar
  <2>4. \A j \in 0..y, k \in 0..z : k * Unit <= j * Unit + R[<<j, k>>]
    BY <1>1, <1>2, <2>2, MatrixFar
  <2> QED  BY <2>3, <2>4
<1>5. \A i \in 0..x, k \in 0..z : U[<<i, k>>] <= i * Unit + k * Unit
  <2>0. {0, Unit} \subseteq 0..Unit  BY DEF Unit
  <2>1. \A i \in 1..x, k \in 1..z : ac[<<i, k>>] \in 0..Unit  BY <1>3, <2>0, Zenon
  <2>2. \A i \in 0..x, k \in 0..z : U[<<i, k>>] <= Larger(i, k) * Unit
    BY <1>1, <1>2, <2>1, MatrixBounded
  <2> SUFFICES ASSUME NEW i \in 0..x, NEW k \in 0..z
               PROVE  U[<<i, k>>] <= i * Unit + k * Unit
    OBVIOUS
  <2>3. U[<<i, k>>] \in Nat  BY <1>1, <1>2, CellTyped
  <2> QED  BY <2>2, <2>3 DEF Larger, Unit
<1>6. ASSUME NEW i \in 0..x, NEW j \in 0..y, NEW k \in 0..z,
             \A e \in 0..x, f \in 0..y, g \in 0..z :
                 e + f + g < i + j + k => U[<<e, g>>] <= T[<<e, f>>] + R[<<f, g>>]
      PROVE  U[<<i, k>>] <= T[<<i, j>>] + R[<<j, k>>]
  <2>0. T[<<i, j>>] \in Nat /\ R[<<j, k>>] \in Nat /\ U[<<i, k>>] \in Nat
    <3>1. T[<<i, j>>] \in Nat  BY <1>1, <1>2, CellTyped
    <3>2. R[<<j, k>>] \in Nat  BY <1>1, <1>2, CellTyped
    <3>3. U[<<i, k>>] \in Nat  BY <1>1, <1>2, CellTyped
    <3> QED  BY <3>1, <3>2, <3>3
  <2>1. CASE j = 0
    <3>1. T[<<i, j>>] = i * Unit  BY <1>1, <1>2, <2>1, CellTyped
    <3>2. R[<<j, k>>] = k * Unit  BY <1>1, <1>2, <2>1, CellTyped
    <3> QED  BY <1>5, <3>1, <3>2
  <2>2. CASE i = 0
    <3>1. T[<<i, j>>] = j * Unit  BY <1>1, <1>2, <2>2, CellTyped
    <3>2. U[<<i, k>>] = k * Unit  BY <1>1, <1>2, <2>2, CellTyped
    <3> QED  BY <1>4, <3>1, <3>2
  <2>3. CASE k = 0
    <3>1. R[<<j, k>>] = j * Unit  BY <1>1, <1>2, <2>3, CellTyped
    <3>2. U[<<i, k>>] = i * Unit  BY <1>1, <1>2, <2>3, CellTyped
    <3>3. i * Unit <= j * Unit + T[<<i, j>>]  BY <1>4
    <3> QED  BY <2>0, <3>1, <3>2, <3>3 DEF Unit
  <2>4. CASE i # 0 /\ j # 0 /\ k # 0
    <3>1. /\ i \in 1..x /\ j \in 1..y /\ k \in 1..z
          /\ i - 1 \in 0..x /\ j - 1 \in 0..y /\ k - 1 \in 0..z
      BY <1>1, <2>4
    <3>2. CellFits(T, i, j, ab, {}) /\ CellFits(R, j, k, bc, {}) /\ CellFits(U, i, k, ac, {})
      BY <1>2, <3>1 DEF Filled
    <3>3. /\ U[<<i - 1, k>>] <= T[<<i - 1, j>>] + R[<<j, k>>]
          /\ U[<<i, k - 1>>] <= T[<<i, j>>] + R[<<j, k - 1>>]
          /\ U[<<i, k>>] <= T[<<i, j - 1>>] + R[<<j - 1, k>>]
          /\ U[<<i - 1, k>>] <= T[<<i - 1, j - 1>>] + R[<<j - 1, k>>]
          /\ U[<<i, k - 1>>] <= T[<<i, j - 1>>] + R[<<j - 1, k - 1>>]
          /\ U[<<i - 1, k - 1>>] <= T[<<i - 1, j - 1>>] + R[<<j - 1, k - 1>>]
      <4>1. /\ (i - 1) + j + k < i + j + k
            /\ i + j + (k - 1) < i + j + k
            /\ i + (j - 1) + k < i + j + k
            /\ (i - 1) + (j - 1) + k < i + j + k
            /\ i + (j - 1) + (k - 1) < i + j + k
            /\ (i - 1) + (j - 1) + (k - 1) < i + j + k
        BY <1>1
      <4> QED  BY <1>6, <3>1, <4>1
    <3> DEFINE t == T[<<i, j>>]
               t1 == T[<<i - 1, j>>]
               t2 == T[<<i, j - 1>>]
               t3 == T[<<i - 1, j - 1>>]
               ct == ab[<<i, j>>]
               r == R[<<j, k>>]
               r1 == R[<<j - 1, k>>]
               r2 == R[<<j, k - 1>>]
               r3 == R[<<j - 1, k - 1>>]
               cr == bc[<<j, k>>]
               u == U[<<i, k>>]
               u1 == U[<<i - 1, k>>]
               u2 == U[<<i, k - 1>>]
               u3 == U[<<i - 1, k - 1>>]
               cu == ac[<<i, k>>]
    <3>4. <<i, j>> \notin {} /\ <<j, k>> \notin {}  OBVIOUS
    <3>5. /\ t \in Nat /\ t1 \in Nat /\ t2 \in Nat /\ t3 \in Nat
          /\ (t = t1 + Unit \/ t = t2 + Unit \/ t = t3 + ct)
      BY <3>2, <3>4, Zenon DEF CellFits
    <3>6. /\ r \in Nat /\ r1 \in Nat /\ r2 \in Nat /\ r3 \in Nat
          /\ (r = r1 + Unit \/ r = r2 + Unit \/ r = r3 + cr)
      BY <3>2, <3>4, Zenon DEF CellFits
    <3>7. /\ u \in Nat /\ u1 \in Nat /\ u2 \in Nat /\ u3 \in Nat
          /\ u <= u1 + Unit /\ u <= u2 + Unit /\ u <= u3 + cu
      BY <3>2, Zenon DEF CellFits
    <3>8. /\ ct \in {0, Unit} /\ cr \in {0, Unit} /\ cu \in {0, Unit}
          /\ ct = 0 /\ cr = 0 => cu = 0
      BY <1>3, <3>1
    <3>9. /\ u1 <= t1 + r /\ u2 <= t + r2 /\ u <= t2 + r1
          /\ u1 <= t3 + r1 /\ u2 <= t2 + r3 /\ u3 <= t3 + r3
      BY <3>3
    <3>10. u <= t + r
      <4> HIDE DEF t, t1, t2, t3, ct, r, r1, r2, r3, cr, u, u1, u2, u3, cu
      <4> QED  BY <3>5, <3>6, <3>7, <3>8, <3>9 DEF Unit
    <3> QED  BY <3>10
  <2> QED  BY <2>1, <2>2, <2>3, <2>4
<1>7. ASSUME NEW p \in D, \A e \in D : rank[e] < rank[p] => e \in Good
      PROVE  p \in Good
  <2>1. PICK i \in 0..x, j \in 0..y, k \in 0..z : p = <<i, j, k>>  OBVIOUS
  <2>2. ASSUME NEW e \in 0..x, NEW f \in 0..y, NEW g \in 0..z, e + f + g < i + j + k
        PROVE  U[<<e, g>>] <= T[<<e, f>>] + R[<<f, g>>]
    <3>1. <<e, f, g>> \in D /\ rank[<<e, f, g>>] = e + f + g /\ rank[p] = i + j + k  BY <2>1
    <3>2. <<e, f, g>> \in Good
      <4> HIDE DEF D, rank, Good
      <4> QED  BY <1>7, <2>2, <3>1
    <3> QED  BY <3>2
  <2>3. U[<<i, k>>] <= T[<<i, j>>] + R[<<j, k>>]
    <3> HIDE DEF D, rank, Good
    <3> QED  BY <1>6, <2>2
  <2> QED  BY <2>1, <2>3
<1>8. \A p \in D : p \in Good
  <2>1. rank \in [D -> Nat]  BY <1>1
  <2> HIDE DEF D, rank, Good
  <2> QED  BY <1>7, <2>1, RankInduction
<1>9. <<x, y, z>> \in Good
  <2>1. <<x, y, z>> \in D  BY <1>1
  <2> HIDE DEF D, Good
  <2> QED  BY <1>8, <2>1
<1> QED  BY <1>9 DEF x, y, z

--------------------------------------------------------------------------------
(***************************************************************************)
(* Edits.  A distance is the length of a shortest path of single edits.    *)
(***************************************************************************)
LEMMA SequencesEqual ==
    ASSUME NEW S, NEW s \in Seq(S), NEW t \in Seq(S), Len(s) = Len(t),
           \A k \in 1..Len(s) : s[k] = t[k]
    PROVE  s = t
OBVIOUS

LEMMA NamesAreWords ==
    ASSUME NEW w
    PROVE  w \in Names <=> w \in Seq(Letters) /\ Len(w) <= MaxLetters
<1>1. MaxLetters \in Nat  BY TextAssumption
<1>2. ASSUME w \in Names PROVE w \in Seq(Letters) /\ Len(w) <= MaxLetters
  <2>1. PICK n \in 0..MaxLetters : w \in [1..n -> Letters]  BY <1>2 DEF Names
  <2>2. w \in Seq(Letters) /\ Len(w) = n  BY <1>1, <2>1
  <2> QED  BY <1>1, <2>2
<1>3. ASSUME w \in Seq(Letters), Len(w) <= MaxLetters PROVE w \in Names
  <2>1. Len(w) \in 0..MaxLetters /\ w \in [1..Len(w) -> Letters]  BY <1>1, <1>3
  <2> QED  BY <2>1 DEF Names
<1> QED  BY <1>2, <1>3

LEMMA RemoveAtIs ==
    ASSUME NEW S, NEW w \in Seq(S), NEW p \in 1..Len(w)
    PROVE  /\ RemoveAt(w, p) \in Seq(S)
           /\ Len(RemoveAt(w, p)) = Len(w) - 1
           /\ \A k \in 1..Len(w) - 1 : RemoveAt(w, p)[k] = IF k < p THEN w[k] ELSE w[k + 1]
<1> DEFINE u == SubSeq(w, 1, p - 1)
           v == SubSeq(w, p + 1, Len(w))
<1>1. u \in Seq(S) /\ Len(u) = p - 1 /\ \A k \in 1..p - 1 : u[k] = w[k]  OBVIOUS
<1>2. v \in Seq(S) /\ Len(v) = Len(w) - p /\ \A k \in 1..Len(w) - p : v[k] = w[p + k]  OBVIOUS
<1>3. RemoveAt(w, p) = u \o v  BY DEF RemoveAt
<1> HIDE DEF u, v
<1>4. /\ u \o v \in Seq(S) /\ Len(u \o v) = Len(u) + Len(v)
      /\ \A k \in 1..Len(u) + Len(v) : (u \o v)[k] = IF k <= Len(u) THEN u[k] ELSE v[k - Len(u)]
  BY <1>1, <1>2, ConcatProperties
<1> QED  BY <1>1, <1>2, <1>3, <1>4

\* v is w with x at p, the letters from p on one place further.
Widened(S, w, p, x, v) ==
    /\ v \in Seq(S) /\ Len(v) = Len(w) + 1
    /\ \A k \in 1..Len(w) + 1 : v[k] = IF k < p THEN w[k] ELSE IF k = p THEN x ELSE w[k - 1]

LEMMA InsertAtIs ==
    ASSUME NEW S, NEW w \in Seq(S), NEW p \in 1..Len(w) + 1, NEW x \in S
    PROVE  Widened(S, w, p, x, InsertAt(w, p, x))
<1> DEFINE u == SubSeq(w, 1, p - 1)
           v == SubSeq(w, p, Len(w))
           y == u \o <<x>>
<1>1. u \in Seq(S) /\ Len(u) = p - 1 /\ \A k \in 1..p - 1 : u[k] = w[k]  OBVIOUS
<1>2. v \in Seq(S) /\ Len(v) = Len(w) - p + 1 /\ \A k \in 1..Len(w) - p + 1 : v[k] = w[p + k - 1]
  OBVIOUS
<1>3. InsertAt(w, p, x) = y \o v  BY DEF InsertAt
<1> HIDE DEF u, v
<1>4. y \in Seq(S) /\ Len(y) = p /\ \A k \in 1..p : y[k] = IF k < p THEN w[k] ELSE x
  BY <1>1
<1> HIDE DEF y
<1>5. /\ y \o v \in Seq(S) /\ Len(y \o v) = Len(y) + Len(v)
      /\ \A k \in 1..Len(y) + Len(v) : (y \o v)[k] = IF k <= Len(y) THEN y[k] ELSE v[k - Len(y)]
  BY <1>2, <1>4, ConcatProperties
<1>6. Widened(S, w, p, x, y \o v)  BY <1>2, <1>4, <1>5 DEF Widened
<1> QED  BY <1>3, <1>6

\* The names one edit away, however long.
Steps(w) == Deleted(w) \cup Inserted(w) \cup Changed(w)

LEMMA LevenshteinIs ==
    ASSUME NEW S, NEW a \in Seq(S), NEW b \in Seq(S)
    PROVE  \E T : /\ Plainly(T, a, b, {})
                  /\ LevenshteinDistance(a, b) = T[<<Len(a), Len(b)>>]
<1> DEFINE T == Matrix(a, b, PlainCosts(a, b), {})
<1>1. Plainly(T, a, b, {})
  <2>1. {} \in SUBSET ((2..Len(a)) \X (2..Len(b)))  OBVIOUS
  <2> QED  BY <2>1, PlainlyIs
<1>2. a # b => LevenshteinDistance(a, b) = T[<<Len(a), Len(b)>>]
  BY DEF LevenshteinDistance, Distance
<1> HIDE DEF T
<1>3. ASSUME a = b PROVE T[<<Len(a), Len(b)>>] = 0
  <2> DEFINE n == Len(a)
             costs == PlainCosts(a, a)
  <2>1. n \in Nat /\ Filled(T, n, n, costs, {})  BY <1>1, <1>3 DEF Plainly
  <2>2. ASSUME NEW k \in 1..n PROVE costs[<<0 + k, 0 + k>>] = 0
    <3>1. costs[<<k, k>>] = 0  BY PlainCostsIs
    <3> QED  BY <3>1
  <2> HIDE DEF n, costs
  <2>3. T[<<0 + n, 0 + n>>] <= T[<<0, 0>>]
    <3>1. 0 \in 0..n /\ 0 + n <= n  BY <2>1
    <3>2. FreeAlong(costs, 0, 0, n)  BY <2>2 DEF FreeAlong
    <3> QED  BY <2>1, <3>1, <3>2, Diagonal
  <2>4. T[<<0, 0>>] = 0
    <3>1. 0 \in 0..n  BY <2>1
    <3>2. T[<<0, 0>>] = 0 * Unit  BY <2>1, <3>1, CellTyped
    <3> QED  BY <3>2 DEF Unit
  <2>5. T[<<n, n>>] \in Nat
    <3>1. n \in 0..n  BY <2>1
    <3> QED  BY <2>1, <3>1, CellTyped
  <2>6. T[<<n, n>>] <= T[<<0, 0>>]  BY <2>1, <2>3
  <2> QED  BY <1>3, <2>4, <2>5, <2>6 DEF n
<1>4. a = b => LevenshteinDistance(a, b) = 0  BY DEF LevenshteinDistance
<1>5. LevenshteinDistance(a, b) = T[<<Len(a), Len(b)>>]  BY <1>2, <1>3, <1>4
<1> QED  BY <1>1, <1>5

\* Names that differ in a letter, or in a letter one of them has more, are one edit apart.
LEMMA OneApart ==
    ASSUME NEW S, NEW w \in Seq(S), NEW v \in Seq(S), NEW i \in Nat, NEW e, NEW f,
           (e = i + 1 /\ f = i) \/ (e = i /\ f = i + 1) \/ (e = i + 1 /\ f = i + 1),
           e <= Len(w), f <= Len(v), Len(w) - e = Len(v) - f,
           \A k \in 1..i : w[k] = v[k],
           \A k \in 1..Len(w) - e : w[e + k] = v[f + k]
    PROVE  LevenshteinDistance(w, v) <= Unit
<1> DEFINE m == Len(w)
           n == Len(v)
           d == m - e
           costs == PlainCosts(w, v)
<1>1. PICK T : Plainly(T, w, v, {}) /\ LevenshteinDistance(w, v) = T[<<m, n>>]
  BY LevenshteinIs
<1>2. /\ m \in Nat /\ n \in Nat /\ e \in Nat /\ f \in Nat /\ d \in Nat
      /\ i \in 0..m /\ i \in 0..n /\ e \in 0..m /\ f \in 0..n /\ e + d = m /\ f + d = n
  OBVIOUS
<1>3. Filled(T, m, n, costs, {})  BY <1>1 DEF Plainly
<1>4. ASSUME NEW k \in 1..i PROVE costs[<<0 + k, 0 + k>>] = 0
  <2>1. k \in 1..Len(w) /\ k \in 1..Len(v) /\ w[k] = v[k]  BY <1>2
  <2>2. costs[<<k, k>>] = 0  BY <2>1, PlainCostsIs
  <2> QED  BY <2>2
<1>5. ASSUME NEW k \in 1..d PROVE costs[<<e + k, f + k>>] = 0
  <2> DEFINE x == e + k
             y == f + k
  <2>0. k \in 1..Len(w) - e  OBVIOUS
  <2>1. x \in 1..Len(w) /\ y \in 1..Len(v)  BY <1>2, <2>0
  <2>3. w[x] = v[y]  BY <2>0
  <2> HIDE DEF x, y
  <2>2. costs[<<x, y>>] = 0  BY <2>3, <2>1, PlainCostsIs
  <2> QED  BY <2>2 DEF x, y
<1>6. i + 1 <= m /\ i + 1 <= n => costs[<<i + 1, i + 1>>] \in 0..Unit
  <2> SUFFICES ASSUME i + 1 <= m, i + 1 <= n PROVE costs[<<i + 1, i + 1>>] \in 0..Unit  OBVIOUS
  <2>1. i + 1 \in 1..Len(w) /\ i + 1 \in 1..Len(v)  BY <1>2
  <2> QED  BY <2>1, PlainCostsIs
<1> HIDE DEF m, n, d, costs
<1>7. T[<<0, 0>>] = 0
  <2>1. 0 \in 0..m /\ 0 \in 0..n  BY <1>2
  <2>2. T[<<0, 0>>] = 0 * Unit  BY <1>2, <1>3, <2>1, CellTyped
  <2> QED  BY <2>2 DEF Unit
<1>8. T[<<i, i>>] <= 0
  <2>1. T[<<0 + i, 0 + i>>] <= T[<<0, 0>>]
    <3>1. 0 \in 0..m /\ 0 \in 0..n /\ 0 + i <= m /\ 0 + i <= n  BY <1>2
    <3>2. FreeAlong(costs, 0, 0, i)  BY <1>4 DEF FreeAlong
    <3>3. m \in Nat /\ n \in Nat  BY <1>2
    <3> QED  BY <1>3, <3>1, <3>2, <3>3, Diagonal, Zenon
  <2> QED  BY <1>7, <2>1
<1>9. T[<<m, n>>] <= T[<<e, f>>]
  <2>1. T[<<e + d, f + d>>] <= T[<<e, f>>]
    <3>1. e + d <= m /\ f + d <= n  BY <1>2
    <3>2. FreeAlong(costs, e, f, d)  BY <1>5 DEF FreeAlong
    <3>3. m \in Nat /\ n \in Nat /\ e \in 0..m /\ f \in 0..n /\ d \in Nat  BY <1>2
    <3> QED  BY <1>3, <3>1, <3>2, <3>3, Diagonal, Zenon
  <2> QED  BY <1>2, <2>1
<1>10. T[<<e, f>>] \in Nat /\ T[<<i, i>>] \in Nat /\ T[<<m, n>>] \in Nat
  <2>1. m \in 0..m /\ n \in 0..n  BY <1>2
  <2>2. T[<<e, f>>] \in Nat  BY <1>2, <1>3, CellTyped
  <2>3. T[<<i, i>>] \in Nat  BY <1>2, <1>3, CellTyped
  <2>4. T[<<m, n>>] \in Nat  BY <1>2, <1>3, <2>1, CellTyped
  <2> QED  BY <2>2, <2>3, <2>4
<1>11. T[<<e, f>>] <= T[<<i, i>>] + Unit
  <2>1. CASE i = 0 /\ (e = 0 \/ f = 0)
    <3>1. e <= 1 /\ f <= 1  BY <2>1
    <3>2. /\ e = 0 => T[<<e, f>>] = f * Unit
          /\ f = 0 => T[<<e, f>>] = e * Unit
      BY <1>2, <1>3, CellTyped
    <3> QED  BY <1>2, <1>10, <2>1, <3>1, <3>2 DEF Unit
  <2>2. CASE ~(i = 0 /\ (e = 0 \/ f = 0))
    <3>1. e \in 1..m /\ f \in 1..n  BY <1>2, <2>2
    <3>2. CellFits(T, e, f, costs, {})  BY <1>3, <3>1 DEF Filled
    <3>3. /\ T[<<e, f>>] <= T[<<e - 1, f>>] + Unit
          /\ T[<<e, f>>] <= T[<<e, f - 1>>] + Unit
          /\ T[<<e, f>>] <= T[<<e - 1, f - 1>>] + costs[<<e, f>>]
      BY <3>2, Zenon DEF CellFits
    <3>4. CASE e = i + 1 /\ f = i
      <4>1. e - 1 = i  BY <3>4
      <4> QED  BY <3>3, <3>4, <4>1
    <3>5. CASE e = i /\ f = i + 1
      <4>1. f - 1 = i  BY <3>5
      <4> QED  BY <3>3, <3>5, <4>1
    <3>6. CASE e = i + 1 /\ f = i + 1
      <4>1. e - 1 = i /\ f - 1 = i  BY <3>6
      <4>2. costs[<<e, f>>] \in 0..Unit  BY <1>2, <1>6, <3>6
      <4>3. T[<<e, f>>] <= T[<<i, i>>] + costs[<<e, f>>]  BY <3>3, <4>1
      <4>4. costs[<<e, f>>] \in Int /\ costs[<<e, f>>] <= Unit
        <5>1. Unit \in Nat  BY DEF Unit
        <5> QED  BY <4>2, <5>1
      <4> QED  BY <1>10, <4>3, <4>4 DEF Unit
    <3> QED  BY <3>4, <3>5, <3>6
  <2> QED  BY <2>1, <2>2
<1> QED  BY <1>1, <1>8, <1>9, <1>10, <1>11 DEF Unit

\* A single edit is a distance of at most one.
LEMMA StepIsNear ==
    ASSUME NEW w \in Seq(Letters), NEW v \in Steps(w)
    PROVE  v \in Seq(Letters) /\ LevenshteinDistance(w, v) <= Unit
<1>1. CASE v \in Deleted(w)
  <2>1. PICK p \in 1..Len(w) : v = RemoveAt(w, p)  BY <1>1 DEF Deleted
  <2>2. /\ v \in Seq(Letters) /\ Len(v) = Len(w) - 1
        /\ \A k \in 1..Len(w) - 1 : v[k] = IF k < p THEN w[k] ELSE w[k + 1]
    BY <2>1, RemoveAtIs
  <2> DEFINE i == p - 1
  <2>3. i \in Nat /\ p = i + 1 /\ p <= Len(w) /\ i <= Len(v) /\ Len(w) - p = Len(v) - i  BY <2>2
  <2>4. \A k \in 1..i : w[k] = v[k]  BY <2>2
  <2>5. \A k \in 1..Len(w) - p : w[p + k] = v[i + k]  BY <2>2
  <2> HIDE DEF i
  <2> QED  BY <2>2, <2>3, <2>4, <2>5, OneApart
<1>2. CASE v \in Inserted(w)
  <2>1. PICK p \in 1..Len(w) + 1, x \in Letters : v = InsertAt(w, p, x)  BY <1>2 DEF Inserted
  <2>2. /\ v \in Seq(Letters) /\ Len(v) = Len(w) + 1
        /\ \A k \in 1..Len(w) + 1 : v[k] = IF k < p THEN w[k] ELSE IF k = p THEN x ELSE w[k - 1]
    <3>1. Widened(Letters, w, p, x, v)  BY <2>1, InsertAtIs
    <3> QED  BY <3>1 DEF Widened
  <2> DEFINE i == p - 1
  <2>3. i \in Nat /\ p = i + 1 /\ i <= Len(w) /\ p <= Len(v) /\ Len(w) - i = Len(v) - p  BY <2>2
  <2>4. \A k \in 1..i : w[k] = v[k]  BY <2>2
  <2>5. \A k \in 1..Len(w) - i : w[i + k] = v[p + k]
    <3> SUFFICES ASSUME NEW k \in 1..Len(w) - i PROVE w[i + k] = v[p + k]  OBVIOUS
    <3>1. p + k \in 1..Len(w) + 1 /\ p + k > p /\ (p + k) - 1 = i + k  OBVIOUS
    <3> QED  BY <2>2, <3>1
  <2> HIDE DEF i
  <2> QED  BY <2>2, <2>3, <2>4, <2>5, OneApart
<1>3. CASE v \in Changed(w)
  <2>1. PICK p \in 1..Len(w), x \in Letters : v = [w EXCEPT ![p] = x]  BY <1>3 DEF Changed
  <2>2. /\ v \in Seq(Letters) /\ Len(v) = Len(w)
        /\ \A k \in 1..Len(w) : v[k] = IF k = p THEN x ELSE w[k]
    BY <2>1
  <2> DEFINE i == p - 1
  <2>3. i \in Nat /\ p = i + 1 /\ p <= Len(w) /\ p <= Len(v) /\ Len(w) - p = Len(v) - p  BY <2>2
  <2>4. \A k \in 1..i : w[k] = v[k]  BY <2>2
  <2>5. \A k \in 1..Len(w) - p : w[p + k] = v[p + k]  BY <2>2
  <2> HIDE DEF i
  <2> QED  BY <2>2, <2>3, <2>4, <2>5, OneApart
<1> QED  BY <1>1, <1>2, <1>3 DEF Steps

\* s is n single edits from u to v, over words of at most K letters.
Path(s, n, u, v, K) ==
    /\ s \in [0..n -> Seq(Letters)]
    /\ s[0] = u /\ s[n] = v
    /\ \A k \in 0..n : Len(s[k]) <= K
    /\ \A k \in 1..n : s[k] \in Steps(s[k - 1])

LEMMA PathPrepended ==
    ASSUME NEW n \in Nat, NEW s, NEW u \in Seq(Letters), NEW v, NEW w, NEW K, NEW M,
           Path(s, n, w, v, K), K \in Nat, M \in Nat, K <= M, w \in Steps(u), Len(u) <= M
    PROVE  \E t : Path(t, n + 1, u, v, M)
<1> DEFINE t == [k \in 0..n + 1 |-> IF k = 0 THEN u ELSE s[k - 1]]
<1>1. t \in [0..n + 1 -> Seq(Letters)]  BY DEF Path
<1>2. t[0] = u /\ t[n + 1] = v  BY DEF Path
<1>3. \A k \in 0..n + 1 : Len(t[k]) <= M
  <2> SUFFICES ASSUME NEW k \in 0..n + 1 PROVE Len(t[k]) <= M  OBVIOUS
  <2>1. CASE k = 0  BY <2>1
  <2>2. CASE k # 0
    <3>1. k - 1 \in 0..n /\ t[k] = s[k - 1]  BY <2>2
    <3>2. s[k - 1] \in Seq(Letters) /\ Len(s[k - 1]) <= K  BY <3>1 DEF Path
    <3> QED  BY <3>1, <3>2
  <2> QED  BY <2>1, <2>2
<1>4. \A k \in 1..n + 1 : t[k] \in Steps(t[k - 1])
  <2> SUFFICES ASSUME NEW k \in 1..n + 1 PROVE t[k] \in Steps(t[k - 1])  OBVIOUS
  <2>1. CASE k = 1
    <3>1. t[k] = w /\ t[k - 1] = u  BY <2>1 DEF Path
    <3> QED  BY <3>1
  <2>2. CASE k # 1
    <3>1. k - 1 \in 1..n /\ t[k] = s[k - 1] /\ t[k - 1] = s[(k - 1) - 1]  BY <2>2
    <3> QED  BY <3>1 DEF Path
  <2> QED  BY <2>1, <2>2
<1>5. Path(t, n + 1, u, v, M)
  <2> HIDE DEF t
  <2> QED  BY <1>1, <1>2, <1>3, <1>4 DEF Path
<1> QED  BY <1>5

LEMMA PathAppended ==
    ASSUME NEW n \in Nat, NEW s, NEW u, NEW v \in Seq(Letters), NEW w, NEW K, NEW M,
           Path(s, n, u, w, K), K \in Nat, M \in Nat, K <= M, v \in Steps(w), Len(v) <= M
    PROVE  \E t : Path(t, n + 1, u, v, M)
<1> DEFINE t == [k \in 0..n + 1 |-> IF k <= n THEN s[k] ELSE v]
<1>1. t \in [0..n + 1 -> Seq(Letters)]  BY DEF Path
<1>2. t[0] = u /\ t[n + 1] = v  BY DEF Path
<1>3. \A k \in 0..n + 1 : Len(t[k]) <= M
  <2> SUFFICES ASSUME NEW k \in 0..n + 1 PROVE Len(t[k]) <= M  OBVIOUS
  <2>1. CASE k = n + 1  BY <2>1
  <2>2. CASE k # n + 1
    <3>1. k \in 0..n /\ t[k] = s[k]  BY <2>2
    <3>2. s[k] \in Seq(Letters) /\ Len(s[k]) <= K  BY <3>1 DEF Path
    <3> QED  BY <3>1, <3>2
  <2> QED  BY <2>1, <2>2
<1>4. \A k \in 1..n + 1 : t[k] \in Steps(t[k - 1])
  <2> SUFFICES ASSUME NEW k \in 1..n + 1 PROVE t[k] \in Steps(t[k - 1])  OBVIOUS
  <2>1. CASE k = n + 1
    <3>1. t[k] = v /\ t[k - 1] = w  BY <2>1 DEF Path
    <3> QED  BY <3>1
  <2>2. CASE k # n + 1
    <3>1. k \in 1..n /\ t[k] = s[k] /\ t[k - 1] = s[k - 1]  BY <2>2
    <3> QED  BY <3>1 DEF Path
  <2> QED  BY <2>1, <2>2
<1>5. Path(t, n + 1, u, v, M)
  <2> HIDE DEF t
  <2> QED  BY <1>1, <1>2, <1>3, <1>4 DEF Path
<1> QED  BY <1>5

\* An edit of a word is one of it with a letter more at its end.
LEMMA StepsExtend ==
    ASSUME NEW w \in Seq(Letters), NEW v \in Steps(w), NEW x \in Letters
    PROVE  Append(v, x) \in Steps(Append(w, x))
<1> DEFINE wx == Append(w, x)
           vx == Append(v, x)
<1>1. /\ wx \in Seq(Letters) /\ Len(wx) = Len(w) + 1
      /\ \A k \in 1..Len(w) + 1 : wx[k] = IF k <= Len(w) THEN w[k] ELSE x
  OBVIOUS
<1>2. v \in Seq(Letters)  BY StepIsNear
<1>3. /\ vx \in Seq(Letters) /\ Len(vx) = Len(v) + 1
      /\ \A k \in 1..Len(v) + 1 : vx[k] = IF k <= Len(v) THEN v[k] ELSE x
  BY <1>2
<1> HIDE DEF wx, vx
<1>4. CASE v \in Deleted(w)
  <2>1. PICK p \in 1..Len(w) : v = RemoveAt(w, p)  BY <1>4 DEF Deleted
  <2>2. /\ Len(v) = Len(w) - 1
        /\ \A k \in 1..Len(w) - 1 : v[k] = IF k < p THEN w[k] ELSE w[k + 1]
    BY <2>1, RemoveAtIs
  <2> DEFINE r == RemoveAt(wx, p)
  <2>3. /\ r \in Seq(Letters) /\ Len(r) = Len(wx) - 1
        /\ \A k \in 1..Len(wx) - 1 : r[k] = IF k < p THEN wx[k] ELSE wx[k + 1]
    <3>1. p \in 1..Len(wx)  BY <1>1
    <3> QED  BY <1>1, <3>1, RemoveAtIs
  <2>4. r = vx
    <3> HIDE DEF r
    <3>1. Len(r) = Len(vx)  BY <1>1, <1>3, <2>2, <2>3
    <3>2. ASSUME NEW k \in 1..Len(r) PROVE r[k] = vx[k]
      <4>1. CASE k < p  BY <1>1, <1>3, <2>2, <2>3, <4>1
      <4>2. CASE k >= p /\ k < Len(w)  BY <1>1, <1>3, <2>2, <2>3, <4>2
      <4>3. CASE k = Len(w)  BY <1>1, <1>3, <2>2, <2>3, <4>3
      <4> QED  BY <1>1, <2>3, <4>1, <4>2, <4>3
    <3> QED  BY <1>3, <2>3, <3>1, <3>2, SequencesEqual
  <2>5. p \in DOMAIN wx  BY <1>1
  <2>6. vx \in Deleted(wx)  BY <2>4, <2>5 DEF Deleted
  <2> QED  BY <2>6 DEF Steps, wx, vx
<1>5. CASE v \in Inserted(w)
  <2>1. PICK p \in 1..Len(w) + 1, y \in Letters : v = InsertAt(w, p, y)  BY <1>5 DEF Inserted
  <2>2. /\ Len(v) = Len(w) + 1
        /\ \A k \in 1..Len(w) + 1 : v[k] = IF k < p THEN w[k] ELSE IF k = p THEN y ELSE w[k - 1]
    <3>1. Widened(Letters, w, p, y, v)  BY <2>1, InsertAtIs
    <3> QED  BY <3>1 DEF Widened
  <2> DEFINE r == InsertAt(wx, p, y)
  <2>3. p \in 1..Len(wx) + 1  BY <1>1
  <2>4. /\ r \in Seq(Letters) /\ Len(r) = Len(wx) + 1
        /\ \A k \in 1..Len(wx) + 1 : r[k] = IF k < p THEN wx[k] ELSE IF k = p THEN y ELSE wx[k - 1]
    <3>1. wx \in Seq(Letters)  BY <1>1
    <3>2. Widened(Letters, wx, p, y, r)  BY <2>3, <3>1, InsertAtIs
    <3> QED  BY <3>2 DEF Widened
  <2>5. r = vx
    <3> HIDE DEF r
    <3>1. Len(r) = Len(vx)  BY <1>1, <1>3, <2>2, <2>4
    <3>2. ASSUME NEW k \in 1..Len(r) PROVE r[k] = vx[k]
      <4>1. CASE k < p  BY <1>1, <1>3, <2>2, <2>4, <4>1
      <4>2. CASE k = p  BY <1>1, <1>3, <2>2, <2>4, <4>2
      <4>3. CASE k > p /\ k <= Len(w) + 1
        <5>1. k - 1 \in 1..Len(w) /\ k \in 1..Len(w) + 1  BY <4>3
        <5>2. vx[k] = w[k - 1]  BY <1>3, <2>2, <4>3, <5>1
        <5>3. wx[k - 1] = w[k - 1]  BY <1>1, <5>1
        <5>4. r[k] = wx[k - 1]  BY <1>1, <2>4, <4>3, <5>1
        <5> QED  BY <5>2, <5>3, <5>4
      <4>4. CASE k > p /\ k = Len(w) + 2  BY <1>1, <1>3, <2>2, <2>4, <4>4
      <4> QED  BY <1>1, <2>4, <4>1, <4>2, <4>3, <4>4
    <3> QED  BY <1>3, <2>4, <3>1, <3>2, SequencesEqual
  <2>6. vx \in Inserted(wx)  BY <2>3, <2>5 DEF Inserted
  <2> QED  BY <2>6 DEF Steps, wx, vx
<1>6. CASE v \in Changed(w)
  <2>1. PICK p \in 1..Len(w), y \in Letters : v = [w EXCEPT ![p] = y]  BY <1>6 DEF Changed
  <2> DEFINE r == [wx EXCEPT ![p] = y]
  <2>2. Len(v) = Len(w) /\ \A k \in 1..Len(w) : v[k] = IF k = p THEN y ELSE w[k]  BY <2>1
  <2>3. /\ r \in Seq(Letters) /\ Len(r) = Len(w) + 1
        /\ \A k \in 1..Len(w) + 1 : r[k] = IF k = p THEN y ELSE wx[k]
    BY <1>1
  <2>4. r = vx
    <3> HIDE DEF r
    <3>1. Len(r) = Len(vx)  BY <1>3, <2>2, <2>3
    <3>2. ASSUME NEW k \in 1..Len(r) PROVE r[k] = vx[k]  BY <1>1, <1>3, <2>2, <2>3
    <3> QED  BY <1>3, <2>3, <3>1, <3>2, SequencesEqual
  <2>5. p \in DOMAIN wx  BY <1>1
  <2>6. vx \in Changed(wx)  BY <2>4, <2>5 DEF Changed
  <2> QED  BY <2>6 DEF Steps, wx, vx
<1> QED  BY <1>4, <1>5, <1>6 DEF Steps

LEMMA PathExtended ==
    ASSUME NEW n \in Nat, NEW s, NEW u, NEW v, NEW K \in Nat, Path(s, n, u, v, K), NEW x \in Letters
    PROVE  \E t : Path(t, n, Append(u, x), Append(v, x), K + 1)
<1> DEFINE t == [k \in 0..n |-> Append(s[k], x)]
<1>1. \A k \in 0..n : s[k] \in Seq(Letters) /\ Len(s[k]) <= K  BY DEF Path
<1>2. t \in [0..n -> Seq(Letters)]  BY <1>1
<1>3. t[0] = Append(u, x) /\ t[n] = Append(v, x)  BY DEF Path
<1>4. \A k \in 0..n : Len(t[k]) <= K + 1  BY <1>1
<1>5. \A k \in 1..n : t[k] \in Steps(t[k - 1])
  <2> SUFFICES ASSUME NEW k \in 1..n PROVE t[k] \in Steps(t[k - 1])  OBVIOUS
  <2>1. k \in 0..n /\ k - 1 \in 0..n  OBVIOUS
  <2>2. t[k] = Append(s[k], x) /\ t[k - 1] = Append(s[k - 1], x)  BY <2>1
  <2>3. s[k] \in Steps(s[k - 1])  BY DEF Path
  <2> HIDE DEF t
  <2> QED  BY <1>1, <2>1, <2>2, <2>3, StepsExtend
<1>6. Path(t, n, Append(u, x), Append(v, x), K + 1)
  <2> HIDE DEF t
  <2> QED  BY <1>2, <1>3, <1>4, <1>5 DEF Path
<1> QED  BY <1>6

LEMMA SubSeqGrows ==
    ASSUME NEW S, NEW a \in Seq(S), NEW i \in 1..Len(a)
    PROVE  /\ SubSeq(a, 1, i - 1) \in Seq(S) /\ Len(SubSeq(a, 1, i - 1)) = i - 1
           /\ SubSeq(a, 1, i) \in Seq(S) /\ Len(SubSeq(a, 1, i)) = i
           /\ a[i] \in S
           /\ SubSeq(a, 1, i) = Append(SubSeq(a, 1, i - 1), a[i])
<1> DEFINE u == SubSeq(a, 1, i - 1)
           v == SubSeq(a, 1, i)
           w == Append(u, a[i])
<1>1. u \in Seq(S) /\ Len(u) = i - 1 /\ \A k \in 1..i - 1 : u[k] = a[k]  OBVIOUS
<1>2. v \in Seq(S) /\ Len(v) = i /\ \A k \in 1..i : v[k] = a[k]  OBVIOUS
<1>3. a[i] \in S  OBVIOUS
<1> HIDE DEF u, v
<1>4. w \in Seq(S) /\ Len(w) = i /\ \A k \in 1..i : w[k] = a[k]  BY <1>1, <1>3
<1>5. v = w
  <2> HIDE DEF w
  <2> QED  BY <1>2, <1>4, SequencesEqual
<1> QED  BY <1>1, <1>2, <1>3, <1>5 DEF u, v, w

\* Deleting the last letter, adding one, changing it.
LEMMA LastLetterSteps ==
    ASSUME NEW u \in Seq(Letters), NEW x \in Letters, NEW y \in Letters
    PROVE  /\ u \in Steps(Append(u, x))
           /\ Append(u, x) \in Steps(u)
           /\ Append(u, y) \in Steps(Append(u, x))
<1> DEFINE n == Len(u) + 1
           ux == Append(u, x)
           uy == Append(u, y)
<1>1. n \in Nat \ {0} /\ n \in 1..Len(u) + 1  OBVIOUS
<1>2. ux \in Seq(Letters) /\ Len(ux) = n /\ \A k \in 1..n : ux[k] = IF k = n THEN x ELSE u[k]
  OBVIOUS
<1>3. uy \in Seq(Letters) /\ Len(uy) = n /\ \A k \in 1..n : uy[k] = IF k = n THEN y ELSE u[k]
  OBVIOUS
<1>4. n - 1 = Len(u)  OBVIOUS
<1> HIDE DEF n, ux, uy
<1>5. u \in Deleted(ux)
  <2> DEFINE r == RemoveAt(ux, n)
  <2>1. n \in 1..Len(ux)  BY <1>1, <1>2
  <2>2. /\ r \in Seq(Letters) /\ Len(r) = Len(ux) - 1
        /\ \A k \in 1..Len(ux) - 1 : r[k] = IF k < n THEN ux[k] ELSE ux[k + 1]
    BY <1>2, <2>1, RemoveAtIs
  <2>3. r = u
    <3> HIDE DEF r
    <3>1. Len(r) = Len(u)  BY <1>2, <1>4, <2>2
    <3>2. ASSUME NEW k \in 1..Len(r) PROVE r[k] = u[k]  BY <1>1, <1>2, <2>2
    <3> QED  BY <2>2, <3>1, <3>2, SequencesEqual
  <2>4. n \in DOMAIN ux  BY <1>2, <2>1
  <2> QED  BY <2>3, <2>4 DEF Deleted
<1>6. ux \in Inserted(u)
  <2> DEFINE r == InsertAt(u, n, x)
  <2>1. Widened(Letters, u, n, x, r)  BY <1>1, InsertAtIs
  <2>2. /\ r \in Seq(Letters) /\ Len(r) = Len(u) + 1
        /\ \A k \in 1..Len(u) + 1 : r[k] = IF k < n THEN u[k] ELSE IF k = n THEN x ELSE u[k - 1]
    BY <2>1 DEF Widened
  <2>3. r = ux
    <3> HIDE DEF r
    <3>1. Len(r) = Len(ux)  BY <1>1, <1>2, <1>4, <2>2
    <3>2. ASSUME NEW k \in 1..Len(r) PROVE r[k] = ux[k]  BY <1>1, <1>2, <1>4, <2>2
    <3> QED  BY <1>2, <2>2, <3>1, <3>2, SequencesEqual
  <2> QED  BY <1>1, <2>3 DEF Inserted
<1>7. uy \in Changed(ux)
  <2> DEFINE r == [ux EXCEPT ![n] = y]
  <2>1. n \in DOMAIN ux  BY <1>1, <1>2
  <2>2. r \in Seq(Letters) /\ Len(r) = n /\ \A k \in 1..n : r[k] = IF k = n THEN y ELSE u[k]
    BY <1>1, <1>2
  <2>3. r = uy
    <3> HIDE DEF r
    <3> QED  BY <1>3, <2>2, SequencesEqual
  <2> QED  BY <2>1, <2>3 DEF Changed
<1> QED  BY <1>5, <1>6, <1>7 DEF Steps, ux, uy

\* A cell of the matrix counts the edits of some path, over words no longer than needed.
LEMMA PathExists ==
    ASSUME NEW a \in Seq(Letters), NEW b \in Seq(Letters), NEW T, Plainly(T, a, b, {}),
           NEW i \in 0..Len(a), NEW j \in 0..Len(b)
    PROVE  \E n \in Nat : /\ T[<<i, j>>] = n * Unit
                          /\ \E s : Path(s, n, SubSeq(a, 1, i), SubSeq(b, 1, j), Larger(i, j))
<1> DEFINE x == Len(a)
           y == Len(b)
           A(k) == SubSeq(a, 1, k)
           B(l) == SubSeq(b, 1, l)
           costs == PlainCosts(a, b)
           Joined(k, l) == \E n \in Nat : /\ T[<<k, l>>] = n * Unit
                                          /\ \E s : Path(s, n, A(k), B(l), Larger(k, l))
           Good == {p \in (0..x) \X (0..y) : Joined(p[1], p[2])}
<1>1. x \in Nat /\ y \in Nat  OBVIOUS
<1>2. Filled(T, x, y, costs, {})  BY DEF Plainly
<1>3. \A k \in 1..x : /\ A(k - 1) \in Seq(Letters) /\ Len(A(k - 1)) = k - 1
                      /\ A(k) \in Seq(Letters) /\ Len(A(k)) = k
                      /\ a[k] \in Letters /\ A(k) = Append(A(k - 1), a[k])
  BY SubSeqGrows
<1>4. \A l \in 1..y : /\ B(l - 1) \in Seq(Letters) /\ Len(B(l - 1)) = l - 1
                      /\ B(l) \in Seq(Letters) /\ Len(B(l)) = l
                      /\ b[l] \in Letters /\ B(l) = Append(B(l - 1), b[l])
  BY SubSeqGrows
<1>5. \A k \in 1..x, l \in 1..y : costs[<<k, l>>] \in {0, Unit} /\ (a[k] = b[l] <=> costs[<<k, l>>] = 0)
  <2> SUFFICES ASSUME NEW k \in 1..x, NEW l \in 1..y
               PROVE  costs[<<k, l>>] \in {0, Unit} /\ (a[k] = b[l] <=> costs[<<k, l>>] = 0)
    OBVIOUS
  <2> QED  BY PlainCostsIs
<1>6. A(0) = <<>> /\ B(0) = <<>>  OBVIOUS
<1> HIDE DEF x, y, costs, A, B
<1>7. ASSUME NEW k \in 1..x, NEW l \in 0..y, Joined(k - 1, l), T[<<k, l>>] = T[<<k - 1, l>>] + Unit
      PROVE  Joined(k, l)
  <2>0. PICK n \in Nat : /\ T[<<k - 1, l>>] = n * Unit
                         /\ \E s : Path(s, n, A(k - 1), B(l), Larger(k - 1, l))
    BY <1>7
  <2>1. PICK s : Path(s, n, A(k - 1), B(l), Larger(k - 1, l))  BY <2>0
  <2>2. A(k - 1) \in Steps(A(k))  BY <1>3, LastLetterSteps
  <2>3. PICK t : Path(t, n + 1, A(k), B(l), Larger(k, l))
    <3>1. /\ Larger(k - 1, l) \in Nat /\ Larger(k, l) \in Nat
          /\ Larger(k - 1, l) <= Larger(k, l) /\ k <= Larger(k, l)
      BY <1>1 DEF Larger
    <3>2. A(k) \in Seq(Letters) /\ Len(A(k)) <= Larger(k, l)  BY <1>3, <3>1
    <3> QED  BY <2>1, <2>2, <3>1, <3>2, PathPrepended
  <2>4. n + 1 \in Nat /\ T[<<k, l>>] = (n + 1) * Unit  BY <1>7, <2>0 DEF Unit
  <2> QED  BY <2>3, <2>4
<1>8. ASSUME NEW k \in 0..x, NEW l \in 1..y, Joined(k, l - 1), T[<<k, l>>] = T[<<k, l - 1>>] + Unit
      PROVE  Joined(k, l)
  <2>0. PICK n \in Nat : /\ T[<<k, l - 1>>] = n * Unit
                         /\ \E s : Path(s, n, A(k), B(l - 1), Larger(k, l - 1))
    BY <1>8
  <2>1. PICK s : Path(s, n, A(k), B(l - 1), Larger(k, l - 1))  BY <2>0
  <2>2. B(l) \in Steps(B(l - 1))  BY <1>4, LastLetterSteps
  <2>3. PICK t : Path(t, n + 1, A(k), B(l), Larger(k, l))
    <3>1. /\ Larger(k, l - 1) \in Nat /\ Larger(k, l) \in Nat
          /\ Larger(k, l - 1) <= Larger(k, l) /\ l <= Larger(k, l)
      BY <1>1 DEF Larger
    <3>2. B(l) \in Seq(Letters) /\ Len(B(l)) <= Larger(k, l)  BY <1>4, <3>1
    <3> QED  BY <2>1, <2>2, <3>1, <3>2, PathAppended
  <2>4. n + 1 \in Nat /\ T[<<k, l>>] = (n + 1) * Unit  BY <1>8, <2>0 DEF Unit
  <2> QED  BY <2>3, <2>4
<1>9. ASSUME NEW k \in 1..x, NEW l \in 1..y, Joined(k - 1, l - 1),
             T[<<k, l>>] = T[<<k - 1, l - 1>>] + costs[<<k, l>>]
      PROVE  Joined(k, l)
  <2>0. PICK n \in Nat : /\ T[<<k - 1, l - 1>>] = n * Unit
                         /\ \E s : Path(s, n, A(k - 1), B(l - 1), Larger(k - 1, l - 1))
    BY <1>9
  <2>1. PICK s : Path(s, n, A(k - 1), B(l - 1), Larger(k - 1, l - 1))  BY <2>0
  <2> DEFINE K == Larger(k - 1, l - 1)
  <2>2. K \in Nat /\ K + 1 = Larger(k, l) /\ l <= K + 1  BY <1>1 DEF Larger
  <2>3. PICK t : Path(t, n, A(k), Append(B(l - 1), a[k]), K + 1)
    <3>1. \E t : Path(t, n, Append(A(k - 1), a[k]), Append(B(l - 1), a[k]), K + 1)
      <4> HIDE DEF K
      <4>1. Path(s, n, A(k - 1), B(l - 1), K)  BY <2>1 DEF K
      <4> QED  BY <1>3, <2>2, <4>1, PathExtended
    <3> QED  BY <1>3, <3>1
  <2>4. CASE a[k] = b[l]
    <3>1. T[<<k, l>>] = n * Unit  BY <1>5, <1>9, <2>0, <2>4 DEF Unit
    <3>2. Path(t, n, A(k), B(l), Larger(k, l))  BY <1>4, <2>2, <2>3, <2>4
    <3> QED  BY <3>1, <3>2
  <2>5. CASE a[k] # b[l]
    <3>1. n + 1 \in Nat /\ T[<<k, l>>] = (n + 1) * Unit  BY <1>5, <1>9, <2>0, <2>5 DEF Unit
    <3>2. B(l) \in Steps(Append(B(l - 1), a[k]))
      <4>1. /\ B(l - 1) \in Seq(Letters) /\ a[k] \in Letters /\ b[l] \in Letters
            /\ B(l) = Append(B(l - 1), b[l])
        BY <1>3, <1>4
      <4>2. \A u \in Seq(Letters), c, d \in Letters : Append(u, d) \in Steps(Append(u, c))
        BY LastLetterSteps, Zenon
      <4>3. Append(B(l - 1), b[l]) \in Steps(Append(B(l - 1), a[k]))  BY <4>1, <4>2, Zenon
      <4> QED  BY <4>1, <4>3, Zenon
    <3>3. PICK r : Path(r, n + 1, A(k), B(l), K + 1)
      <4>1. B(l) \in Seq(Letters) /\ Len(B(l)) <= K + 1  BY <1>4, <2>2
      <4>2. K + 1 \in Nat /\ K + 1 <= K + 1  BY <2>2
      <4> HIDE DEF K
      <4> QED  BY <2>3, <3>2, <4>1, <4>2, PathAppended
    <3> QED  BY <2>2, <3>1, <3>3
  <2> QED  BY <2>4, <2>5
<1>10. Joined(0, 0)
  <2>1. T[<<0, 0>>] = 0 * Unit
    <3>1. 0 \in 0..x /\ 0 \in 0..y  BY <1>1
    <3> QED  BY <1>1, <1>2, <3>1, CellTyped
  <2> DEFINE s == [k \in 0..0 |-> <<>>]
  <2>2. Path(s, 0, A(0), B(0), Larger(0, 0))  BY <1>6 DEF Path, Larger
  <2> QED  BY <2>1, <2>2
<1> HIDE DEF Joined
<1>11. ASSUME NEW k \in 0..x, NEW l \in 0..y,
              \A e \in 0..x, f \in 0..y : e + f < k + l => <<e, f>> \in Good
       PROVE  <<k, l>> \in Good
  <2>0. \A e \in 0..x, f \in 0..y : e + f < k + l => Joined(e, f)
    <3> SUFFICES ASSUME NEW e \in 0..x, NEW f \in 0..y, e + f < k + l PROVE Joined(e, f)
      OBVIOUS
    <3>1. <<e, f>> \in Good  BY <1>11
    <3> QED  BY <3>1
  <2> SUFFICES Joined(k, l)  OBVIOUS
  <2> HIDE DEF Good
  <2>1. CASE k = 0 /\ l = 0  BY <1>10, <2>1
  <2>2. CASE k = 0 /\ l # 0
    <3>1. l \in 1..y /\ l - 1 \in 0..y /\ k + (l - 1) < k + l  BY <1>1, <2>2
    <3>2. Joined(k, l - 1)  BY <2>0, <3>1
    <3>3. T[<<k, l>>] = l * Unit /\ T[<<k, l - 1>>] = (l - 1) * Unit
      BY <1>1, <1>2, <2>2, <3>1, CellTyped
    <3>4. T[<<k, l>>] = T[<<k, l - 1>>] + Unit  BY <3>3 DEF Unit
    <3> QED  BY <1>8, <3>1, <3>2, <3>4
  <2>3. CASE k # 0 /\ l = 0
    <3>1. k \in 1..x /\ k - 1 \in 0..x /\ (k - 1) + l < k + l  BY <1>1, <2>3
    <3>2. Joined(k - 1, l)  BY <2>0, <3>1
    <3>3. T[<<k, l>>] = k * Unit /\ T[<<k - 1, l>>] = (k - 1) * Unit
      BY <1>1, <1>2, <2>3, <3>1, CellTyped
    <3>4. T[<<k, l>>] = T[<<k - 1, l>>] + Unit  BY <3>3 DEF Unit
    <3> QED  BY <1>7, <3>1, <3>2, <3>4
  <2>4. CASE k # 0 /\ l # 0
    <3>1. /\ k \in 1..x /\ l \in 1..y /\ k - 1 \in 0..x /\ l - 1 \in 0..y
          /\ (k - 1) + l < k + l /\ k + (l - 1) < k + l /\ (k - 1) + (l - 1) < k + l
      BY <1>1, <2>4
    <3>2. Joined(k - 1, l) /\ Joined(k, l - 1) /\ Joined(k - 1, l - 1)  BY <2>0, <3>1
    <3>3. CellFits(T, k, l, costs, {})  BY <1>2, <3>1 DEF Filled
    <3>4. \/ T[<<k, l>>] = T[<<k - 1, l>>] + Unit
          \/ T[<<k, l>>] = T[<<k, l - 1>>] + Unit
          \/ T[<<k, l>>] = T[<<k - 1, l - 1>>] + costs[<<k, l>>]
      <4>1. <<k, l>> \notin {}  OBVIOUS
      <4> QED  BY <3>3, <4>1, Zenon DEF CellFits
    <3> QED  BY <1>7, <1>8, <1>9, <3>1, <3>2, <3>4
  <2> QED  BY <2>1, <2>2, <2>3, <2>4
<1>12. \A k \in 0..x, l \in 0..y : <<k, l>> \in Good
  <2> HIDE DEF Good
  <2> QED  BY <1>1, <1>11, CellInduction
<1>13. Joined(i, j)
  <2>1. i \in 0..x /\ j \in 0..y  BY DEF x, y
  <2>2. <<i, j>> \in Good  BY <1>12, <2>1
  <2> QED  BY <2>2
<1> QED  BY <1>13 DEF Joined, A, B
--------------------------------------------------------------------------------
(***************************************************************************)
(* Loops: functions of the number of turns taken.                          *)
(***************************************************************************)
LEMMA CountUp ==
    ASSUME NEW N \in Nat, NEW Good, 0 \in Good, \A n \in 1..N : n - 1 \in Good => n \in Good
    PROVE  \A n \in 0..N : n \in Good
<1> DEFINE D == 0..N
           rank == [n \in D |-> n]
<1>1. rank \in [D -> Nat]  OBVIOUS
<1>2. ASSUME NEW n \in D, \A e \in D : rank[e] < rank[n] => e \in Good
      PROVE  n \in Good
  <2>1. CASE n = 0  BY <2>1
  <2>2. CASE n # 0
    <3>1. n \in 1..N /\ n - 1 \in D /\ rank[n - 1] < rank[n]  BY <2>2
    <3> QED  BY <1>2, <3>1
  <2> QED  BY <2>1, <2>2
<1>3. \A n \in D : n \in Good
  <2> HIDE DEF D, rank
  <2> QED  BY <1>1, <1>2, RankInduction
<1> QED  BY <1>3

Loops(N, X, x, G, f) ==
    f \in [0..N -> X] /\ f[0] = x /\ \A n \in 1..N : f[n] = G[n][f[n - 1]]

\* A loop that starts at x and whose turns stay in X runs to its end.
LEMMA Loop ==
    ASSUME NEW N \in Nat, NEW X, NEW x \in X, NEW G \in [1..N -> [X -> X]]
    PROVE  \E f : Loops(N, X, x, G, f)
<1> DEFINE D == 0..N
           rank == [n \in D |-> n]
           F == [n \in D |-> [f \in [D -> X] |-> IF n = 0 THEN x ELSE G[n][f[n - 1]]]]
<1>1. rank \in [D -> Nat] /\ \A n \in D : rank[n] < N + 1  OBVIOUS
<1>2. Causal(D, X, rank, F)
  <2>1. F \in [D -> [[D -> X] -> X]]
    <3>1. ASSUME NEW n \in D, NEW f \in [D -> X]
          PROVE  (IF n = 0 THEN x ELSE G[n][f[n - 1]]) \in X
      <4>1. CASE n # 0
        <5>1. n \in 1..N /\ n - 1 \in D  BY <4>1
        <5>2. f[n - 1] \in X  BY <5>1
        <5> QED  BY <4>1, <5>1, <5>2
      <4> QED  BY <4>1
    <3> HIDE DEF D
    <3> QED  BY <3>1
  <2>2. ASSUME NEW n \in D, NEW f \in [D -> X], NEW g \in [D -> X],
               \A e \in D : rank[e] < rank[n] => f[e] = g[e]
        PROVE  F[n][f] = F[n][g]
    <3>1. CASE n # 0
      <4>1. n - 1 \in D /\ rank[n - 1] < rank[n]  BY <3>1
      <4>2. f[n - 1] = g[n - 1]  BY <2>2, <4>1
      <4> HIDE DEF D
      <4> QED  BY <3>1, <4>2
    <3>2. CASE n = 0  BY <3>2
    <3> QED  BY <3>1, <3>2
  <2> HIDE DEF D, rank, F
  <2> QED  BY <2>1, <2>2 DEF Causal
<1>3. PICK f : Solves(D, X, F, f)
  <2> DEFINE M == N + 1
  <2>1. M \in Nat  OBVIOUS
  <2> HIDE DEF D, rank, F, M
  <2>2. \A n \in D : rank[n] < M  BY <1>1 DEF M
  <2> QED  BY <1>1, <1>2, <2>1, <2>2, Solution, Zenon
<1>4. f \in [D -> X] /\ \A n \in D : f[n] = IF n = 0 THEN x ELSE G[n][f[n - 1]]
  <2>1. f \in [D -> X] /\ \A n \in D : f[n] = F[n][f]
    <3> HIDE DEF D, F
    <3> QED  BY <1>3 DEF Solves
  <2> HIDE DEF D
  <2> QED  BY <2>1
<1>5. f[0] = x  BY <1>4
<1>6. ASSUME NEW n \in 1..N PROVE f[n] = G[n][f[n - 1]]
  <2>1. n \in D /\ n # 0  OBVIOUS
  <2> HIDE DEF D
  <2> QED  BY <1>4, <2>1
<1> QED  BY <1>4, <1>5, <1>6 DEF Loops
--------------------------------------------------------------------------------
(***************************************************************************)
(* Words at most so many edits apart.                                      *)
(***************************************************************************)
LEMMA BallIs ==
    ASSUME NEW w \in Names
    PROVE  /\ Ball(w) \in [0..MaxLetters -> SUBSET Names]
           /\ Ball(w)[0] = {w}
           /\ \A n \in 1..MaxLetters :
                  Ball(w)[n] = Ball(w)[n - 1] \cup UNION {Neighbours[v] : v \in Ball(w)[n - 1]}
<1> DEFINE N == MaxLetters
           D == 0..N
           X == SUBSET Names
           Wider(V) == V \cup UNION {Neighbours[v] : v \in V}
           G == [n \in 1..N |-> [V \in X |-> Wider(V)]]
           B == Ball(w)
<1>1. N \in Nat  BY TextAssumption
<1>2. \A V \in X : Wider(V) \in X
  <2>1. \A v \in Names : Neighbours[v] \subseteq Names  BY DEF Neighbours, Edits
  <2> HIDE DEF N
  <2> QED  BY <2>1
<1>3. {w} \in X  OBVIOUS
<1> HIDE DEF N, X, Wider
<1>4. G \in [1..N -> [X -> X]]  BY <1>2
<1>5. PICK f \in [D -> X] : f[0] = {w} /\ \A n \in 1..N : f[n] = G[n][f[n - 1]]
  <2> DEFINE x == {w}
  <2>1. x \in X  BY <1>3
  <2> HIDE DEF G, x
  <2>2. PICK g : Loops(N, X, x, G, g)  BY <1>1, <1>4, <2>1, Loop
  <2> QED  BY <2>2 DEF x, Loops
<1>6. f = [n \in D |-> IF n = 0 THEN {w} ELSE Wider(f[n - 1])]
  <2>1. ASSUME NEW n \in D PROVE f[n] = IF n = 0 THEN {w} ELSE Wider(f[n - 1])
    <3>1. CASE n # 0
      <4>1. n \in 1..N /\ n - 1 \in D  BY <1>1, <3>1
      <4>2. f[n - 1] \in X  BY <4>1
      <4> HIDE DEF D
      <4> QED  BY <1>5, <3>1, <4>1, <4>2
    <3> QED  BY <1>5, <3>1
  <2> HIDE DEF D
  <2> QED  BY <2>1
<1>7. B = [n \in D |-> IF n = 0 THEN {w} ELSE Wider(B[n - 1])]
  <2>1. B = CHOOSE g : g = [n \in D |-> IF n = 0 THEN {w} ELSE Wider(g[n - 1])]
    BY DEF Ball, N, Wider
  <2> HIDE DEF B
  <2> QED  BY <1>6, <2>1
<1> HIDE DEF B
<1>8. B[0] = {w}  BY <1>1, <1>7
<1>9. ASSUME NEW n \in 1..N PROVE B[n] = Wider(B[n - 1])
  <2>1. n \in D /\ n # 0  BY <1>1
  <2> HIDE DEF D
  <2> QED  BY <1>7, <2>1
<1>10. B \in [D -> X]
  <2> DEFINE Good == {n \in D : B[n] \in X}
  <2>1. 0 \in Good
    <3>1. 0 \in D  BY <1>1
    <3> HIDE DEF D
    <3> QED  BY <1>3, <1>8, <3>1
  <2>2. ASSUME NEW n \in 1..N, n - 1 \in Good PROVE n \in Good  BY <1>2, <1>9, <2>2
  <2>3. \A n \in D : n \in Good
    <3> HIDE DEF Good
    <3> QED  BY <1>1, <2>1, <2>2, CountUp
  <2> HIDE DEF D
  <2> QED  BY <1>7, <2>3
<1> QED  BY <1>8, <1>9, <1>10 DEF B, N, X, Wider

LEMMA LevenshteinMetric ==
    ASSUME NEW S, NEW a \in Seq(S), NEW b \in Seq(S), NEW c \in Seq(S)
    PROVE  /\ LevenshteinDistance(a, b) \in Nat
           /\ LevenshteinDistance(a, c) <= LevenshteinDistance(a, b) + LevenshteinDistance(b, c)
<1>1. PICK T : Plainly(T, a, b, {}) /\ LevenshteinDistance(a, b) = T[<<Len(a), Len(b)>>]
  BY LevenshteinIs
<1>2. PICK R : Plainly(R, b, c, {}) /\ LevenshteinDistance(b, c) = R[<<Len(b), Len(c)>>]
  BY LevenshteinIs
<1>3. PICK U : Plainly(U, a, c, {}) /\ LevenshteinDistance(a, c) = U[<<Len(a), Len(c)>>]
  BY LevenshteinIs
<1>4. LevenshteinDistance(a, b) \in Nat
  <2>1. Filled(T, Len(a), Len(b), PlainCosts(a, b), {})  BY <1>1 DEF Plainly
  <2>2. Len(a) \in Nat /\ Len(b) \in Nat /\ Len(a) \in 0..Len(a) /\ Len(b) \in 0..Len(b)  OBVIOUS
  <2>3. T[<<Len(a), Len(b)>>] \in Nat  BY <2>1, <2>2, CellTyped
  <2> QED  BY <1>1, <2>3
<1>5. U[<<Len(a), Len(c)>>] <= T[<<Len(a), Len(b)>>] + R[<<Len(b), Len(c)>>]
  BY <1>1, <1>2, <1>3, Triangle
<1> QED  BY <1>1, <1>2, <1>3, <1>4, <1>5

\* Nothing in a ball is further away, as the matrix measures it.
LEMMA BallNear ==
    ASSUME NEW w \in Names
    PROVE  \A n \in 0..MaxLetters : \A v \in Ball(w)[n] : LevenshteinDistance(w, v) <= n * Unit
<1> DEFINE N == MaxLetters
           B == Ball(w)
           Good == {n \in 0..N : \A v \in B[n] : LevenshteinDistance(w, v) <= n * Unit}
<1>1. N \in Nat  BY TextAssumption
<1>2. /\ B \in [0..N -> SUBSET Names]
      /\ B[0] = {w}
      /\ \A n \in 1..N : B[n] = B[n - 1] \cup UNION {Neighbours[v] : v \in B[n - 1]}
  BY BallIs
<1> HIDE DEF N, B
<1>3. 0 \in Good
  <2>1. LevenshteinDistance(w, w) = 0  BY DEF LevenshteinDistance
  <2> QED  BY <1>1, <1>2, <2>1 DEF Unit
<1>4. ASSUME NEW n \in 1..N, n - 1 \in Good PROVE n \in Good
  <2>0. n \in 0..N /\ n - 1 \in 0..N /\ n \in Nat /\ n - 1 \in Nat  BY <1>1
  <2> SUFFICES ASSUME NEW v \in B[n] PROVE LevenshteinDistance(w, v) <= n * Unit  BY <2>0
  <2>1. \A u \in B[n - 1] : u \in Names /\ LevenshteinDistance(w, u) <= (n - 1) * Unit
    BY <1>2, <1>4, <2>0
  <2>2. CASE v \in B[n - 1]
    <3>1. LevenshteinDistance(w, v) <= (n - 1) * Unit  BY <2>1, <2>2
    <3>2. LevenshteinDistance(w, v) \in Nat
      <4>1. v \in Seq(Letters) /\ w \in Seq(Letters)  BY <2>1, <2>2, NamesAreWords
      <4> QED  BY <4>1, LevenshteinMetric
    <3> QED  BY <2>0, <3>1, <3>2 DEF Unit
  <2>3. CASE v \notin B[n - 1]
    <3>1. PICK u \in B[n - 1] : v \in Neighbours[u]  BY <1>2, <2>3
    <3>2. u \in Names  BY <2>1
    <3>3. v \in Steps(u)  BY <3>1, <3>2 DEF Neighbours, Edits, Steps
    <3>4. u \in Seq(Letters) /\ w \in Seq(Letters)  BY <3>2, NamesAreWords
    <3>5. v \in Seq(Letters) /\ LevenshteinDistance(u, v) <= Unit  BY <3>3, <3>4, StepIsNear
    <3>6. /\ LevenshteinDistance(w, v) \in Nat
          /\ LevenshteinDistance(w, u) \in Nat
          /\ LevenshteinDistance(u, v) \in Nat
          /\ LevenshteinDistance(w, v) <= LevenshteinDistance(w, u) + LevenshteinDistance(u, v)
      BY <3>4, <3>5, LevenshteinMetric
    <3>7. LevenshteinDistance(w, u) <= (n - 1) * Unit  BY <2>1
    <3> QED  BY <2>0, <3>5, <3>6, <3>7 DEF Unit
  <2> QED  BY <2>2, <2>3
<1>5. \A n \in 0..N : n \in Good
  <2> HIDE DEF Good
  <2> QED  BY <1>1, <1>3, <1>4, CountUp
<1> QED  BY <1>5 DEF N, B

\* Along a path over names, each edit stays in the next ball.
LEMMA BallReached ==
    ASSUME NEW w \in Names, NEW n \in 0..MaxLetters, NEW s, NEW v, NEW K \in Nat,
           K <= MaxLetters, Path(s, n, w, v, K)
    PROVE  v \in Ball(w)[n]
<1> DEFINE N == MaxLetters
           B == Ball(w)
           Good == {k \in 0..n : s[k] \in B[k]}
<1>1. N \in Nat /\ n \in Nat /\ n <= N  BY TextAssumption
<1>2. /\ B \in [0..N -> SUBSET Names]
      /\ B[0] = {w}
      /\ \A k \in 1..N : B[k] = B[k - 1] \cup UNION {Neighbours[u] : u \in B[k - 1]}
  BY BallIs
<1>3. \A k \in 0..n : s[k] \in Names
  <2> SUFFICES ASSUME NEW k \in 0..n PROVE s[k] \in Names  OBVIOUS
  <2>1. s[k] \in Seq(Letters) /\ Len(s[k]) <= K  BY DEF Path
  <2>2. Len(s[k]) <= N  BY <1>1, <2>1
  <2> QED  BY <2>1, <2>2, NamesAreWords
<1>4. s[0] = w /\ s[n] = v /\ \A k \in 1..n : s[k] \in Steps(s[k - 1])  BY DEF Path
<1> HIDE DEF N, B
<1>5. 0 \in Good  BY <1>1, <1>2, <1>4
<1>6. ASSUME NEW k \in 1..n, k - 1 \in Good PROVE k \in Good
  <2>1. k \in 0..n /\ k - 1 \in 0..n /\ k \in 1..N  BY <1>1
  <2>2. s[k - 1] \in B[k - 1] /\ s[k - 1] \in Names /\ s[k] \in Names  BY <1>3, <1>6, <2>1
  <2>3. s[k] \in Steps(s[k - 1])  BY <1>4
  <2>4. s[k] \in Neighbours[s[k - 1]]  BY <2>2, <2>3 DEF Neighbours, Edits, Steps
  <2>5. s[k] \in B[k]  BY <1>2, <2>1, <2>2, <2>4
  <2> QED  BY <2>1, <2>5
<1>7. \A k \in 0..n : k \in Good
  <2> HIDE DEF Good
  <2> QED  BY <1>1, <1>5, <1>6, CountUp
<1>8. n \in 0..n  BY <1>1
<1>9. s[n] \in B[n]  BY <1>7, <1>8
<1> QED  BY <1>4, <1>9 DEF B

LEMMA LeastIs ==
    ASSUME NEW S \in SUBSET Nat, NEW x \in S, \A y \in S : x <= y
    PROVE  Min(S) = x
<1>1. Min(S) = CHOOSE z \in S : \A y \in S : z <= y  BY DEF Min
<1>2. ASSUME NEW z \in S, \A y \in S : z <= y PROVE z = x  BY <1>2
<1> QED  BY <1>1, <1>2

LEMMA GreatestIs ==
    ASSUME NEW S \in SUBSET Nat, NEW x \in S, \A y \in S : y <= x
    PROVE  Max(S) = x
<1>1. Max(S) = CHOOSE z \in S : \A y \in S : z >= y  BY DEF Max
<1>2. ASSUME NEW z \in S, \A y \in S : z >= y PROVE z = x  BY <1>2
<1> QED  BY <1>1, <1>2

LEMMA WholeWord == ASSUME NEW S, NEW a \in Seq(S) PROVE SubSeq(a, 1, Len(a)) = a
<1> DEFINE u == SubSeq(a, 1, Len(a))
<1>1. u \in Seq(S) /\ Len(u) = Len(a) /\ \A k \in 1..Len(a) : u[k] = a[k]  OBVIOUS
<1> HIDE DEF u
<1>2. u = a  BY <1>1, SequencesEqual
<1> QED  BY <1>2 DEF u

\* The matrix of levenshteinDistance ends at the fewest letters to delete, insert or change, over
\* names no longer than allowed, for any two names over any alphabet.
THEOREM FewestEditsAre ==
    ASSUME NEW a \in Names, NEW b \in Names
    PROVE  LevenshteinDistance(a, b) = Unit * Min({n \in 0..MaxLetters : b \in Balls[a][n]})
<1> DEFINE N == MaxLetters
           S == {n \in 0..N : b \in Balls[a][n]}
           x == Len(a)
           y == Len(b)
           costs == PlainCosts(a, b)
<1>1. N \in Nat  BY TextAssumption
<1>2. a \in Seq(Letters) /\ b \in Seq(Letters) /\ x <= N /\ y <= N  BY NamesAreWords
<1>3. x \in Nat /\ y \in Nat  BY <1>2
<1>4. PICK T : Plainly(T, a, b, {}) /\ LevenshteinDistance(a, b) = T[<<x, y>>]
  BY <1>2, LevenshteinIs
<1>5. x \in 0..x /\ y \in 0..y  BY <1>3
<1>6. PICK n \in Nat : /\ T[<<x, y>>] = n * Unit
                       /\ \E s : Path(s, n, SubSeq(a, 1, x), SubSeq(b, 1, y), Larger(x, y))
  BY <1>2, <1>4, <1>5, PathExists
<1>7. SubSeq(a, 1, x) = a /\ SubSeq(b, 1, y) = b  BY <1>2, WholeWord
<1>8. PICK s : Path(s, n, a, b, Larger(x, y))  BY <1>6, <1>7
<1>9. Larger(x, y) \in Nat /\ Larger(x, y) <= N  BY <1>1, <1>2, <1>3 DEF Larger
<1>10. n <= Larger(x, y)
  <2>1. \A i \in 1..x, j \in 1..y : costs[<<i, j>>] \in 0..Unit  BY PlainCostsIs
  <2>2. Filled(T, x, y, costs, {})  BY <1>4 DEF Plainly
  <2> HIDE DEF x, y, costs
  <2>3. T[<<x, y>>] <= Larger(x, y) * Unit  BY <1>3, <1>5, <2>1, <2>2, MatrixBounded
  <2> QED  BY <1>6, <1>9, <2>3 DEF Unit
<1>11. Balls[a] = Ball(a)  BY DEF Balls
<1>12. n \in S
  <2>1. n \in 0..N  BY <1>1, <1>9, <1>10
  <2>2. b \in Ball(a)[n]  BY <1>8, <1>9, <2>1, BallReached
  <2> QED  BY <1>11, <2>1, <2>2
<1>13. ASSUME NEW k \in S PROVE n <= k
  <2>1. LevenshteinDistance(a, b) <= k * Unit  BY <1>11, BallNear
  <2>2. k \in Nat  BY <1>1
  <2> QED  BY <1>4, <1>6, <2>1, <2>2 DEF Unit
<1>14. S \in SUBSET Nat  BY <1>1
<1>15. Min(S) = n
  <2> HIDE DEF S
  <2> QED  BY <1>12, <1>13, <1>14, LeastIs
<1> HIDE DEF x, y, S
<1>16. LevenshteinDistance(a, b) = Unit * Min(S)  BY <1>4, <1>6, <1>15 DEF Unit
<1> QED  BY <1>16 DEF S
--------------------------------------------------------------------------------
(***************************************************************************)
(* Letters that change places.                                             *)
(***************************************************************************)
LEMMA NothingToEdit ==
    ASSUME NEW n \in Nat, NEW T, NEW costs, NEW swaps, Filled(T, n, n, costs, swaps),
           \A k \in 1..n : costs[<<k, k>>] = 0
    PROVE  T[<<n, n>>] = 0
<1>1. T[<<0 + n, 0 + n>>] <= T[<<0, 0>>]
  <2>1. 0 \in 0..n /\ 0 + n <= n  OBVIOUS
  <2>2. FreeAlong(costs, 0, 0, n)
    <3>1. ASSUME NEW k \in 1..n PROVE costs[<<0 + k, 0 + k>>] = 0
      <4>1. 0 + k = k  OBVIOUS
      <4> QED  BY <4>1
    <3> QED  BY <3>1 DEF FreeAlong
  <2> QED  BY <2>1, <2>2, Diagonal
<1>2. T[<<0, 0>>] = 0
  <2>1. 0 \in 0..n  OBVIOUS
  <2>2. T[<<0, 0>>] = 0 * Unit  BY <2>1, CellTyped
  <2> QED  BY <2>2 DEF Unit
<1>3. T[<<n, n>>] \in Nat
  <2>1. n \in 0..n  OBVIOUS
  <2> QED  BY <2>1, CellTyped
<1>4. 0 + n = n  OBVIOUS
<1> QED  BY <1>1, <1>2, <1>3, <1>4

LEMMA DamerauIs ==
    ASSUME NEW S, NEW a \in Seq(S), NEW b \in Seq(S)
    PROVE  \E T : /\ Plainly(T, a, b, Swapped(a, b))
                  /\ DamerauDistance(a, b) = T[<<Len(a), Len(b)>>]
<1> DEFINE T == Matrix(a, b, PlainCosts(a, b), Swapped(a, b))
<1>1. Plainly(T, a, b, Swapped(a, b))
  <2>1. Swapped(a, b) \in SUBSET ((2..Len(a)) \X (2..Len(b)))  BY DEF Swapped
  <2> QED  BY <2>1, PlainlyIs
<1>2. a # b => DamerauDistance(a, b) = T[<<Len(a), Len(b)>>]
  BY DEF DamerauDistance, Distance
<1> HIDE DEF T
<1>3. ASSUME a = b PROVE T[<<Len(a), Len(b)>>] = 0
  <2> DEFINE n == Len(a)
             costs == PlainCosts(a, a)
  <2>1. n \in Nat /\ Filled(T, n, n, costs, Swapped(a, b))  BY <1>1, <1>3 DEF Plainly
  <2>2. \A k \in 1..n : costs[<<k, k>>] = 0  BY PlainCostsIs
  <2> HIDE DEF n, costs
  <2>3. T[<<n, n>>] = 0  BY <2>1, <2>2, NothingToEdit
  <2> QED  BY <1>3, <2>3 DEF n
<1>4. a = b => DamerauDistance(a, b) = 0  BY DEF DamerauDistance
<1>5. DamerauDistance(a, b) = T[<<Len(a), Len(b)>>]  BY <1>2, <1>3, <1>4
<1> QED  BY <1>1, <1>5

\* A name with two of its letters turned around is one edit away.
LEMMA TurnedIsOne ==
    ASSUME NEW a \in Seq(Letters), NEW b \in Turned(a), b # a
    PROVE  DamerauDistance(a, b) = Unit
<1> DEFINE m == Len(a)
           costs == PlainCosts(a, b)
<1>1. PICK p \in 1..m - 1 : b = [a EXCEPT ![p] = a[p + 1], ![p + 1] = a[p]]
  BY DEF Turned
<1>2. m \in Nat /\ p \in 1..m /\ p + 1 \in 1..m /\ p - 1 \in 0..m /\ p \in Nat  BY <1>1
<1>3. /\ b \in Seq(Letters) /\ Len(b) = m
      /\ \A k \in 1..m : b[k] = IF k = p THEN a[p + 1] ELSE IF k = p + 1 THEN a[p] ELSE a[k]
  <2>1. a[p] \in Letters /\ a[p + 1] \in Letters  BY <1>2
  <2>2. b \in Seq(Letters) /\ Len(b) = m  BY <1>1, <1>2, <2>1
  <2>3. p + 1 # p  BY <1>2
  <2>4. ASSUME NEW k \in 1..m
        PROVE  b[k] = IF k = p THEN a[p + 1] ELSE IF k = p + 1 THEN a[p] ELSE a[k]
    BY <1>1, <1>2, <2>3
  <2> QED  BY <2>2, <2>4
<1>4. PICK T : Plainly(T, a, b, Swapped(a, b)) /\ DamerauDistance(a, b) = T[<<m, Len(b)>>]
  BY <1>3, DamerauIs
<1>5. Filled(T, m, m, costs, Swapped(a, b))  BY <1>3, <1>4 DEF Plainly
<1>6. \A k \in 1..m : a[k] = b[k] => costs[<<k, k>>] = 0  BY <1>3, PlainCostsIs
<1>7. <<p + 1, p + 1>> \in Swapped(a, b)
  <2> DEFINE q == p + 1
  <2>1. q \in 2..Len(a) /\ q \in 2..Len(b) /\ q - 1 = p  BY <1>2, <1>3
  <2>2. a[q] = b[p] /\ a[p] = b[q]  BY <1>2, <1>3
  <2> HIDE DEF q
  <2>3. <<q, q>> \in Swapped(a, b)  BY <2>1, <2>2 DEF Swapped
  <2> QED  BY <2>3 DEF q
<1>8. costs[<<p + 1, p + 1>>] \in 0..Unit  BY <1>2, <1>3, PlainCostsIs
<1> HIDE DEF m, costs
<1>9. T[<<m, m>>] \in Nat
  <2>1. m \in 0..m  BY <1>2
  <2> QED  BY <1>2, <1>5, <2>1, CellTyped
<1>10. T[<<m, m>>] <= Unit
  <2> DEFINE q == p + 1
             d == m - q
             o == p - 1
  <2>1. q \in 1..m /\ q \in 0..m /\ d \in Nat /\ q + d = m /\ q - 2 = o /\ o \in Nat /\ o \in 0..m
    BY <1>2
  <2>2. T[<<0 + o, 0 + o>>] <= T[<<0, 0>>]
    <3>1. ASSUME NEW k \in 1..o PROVE costs[<<0 + k, 0 + k>>] = 0
      <4>1. 0 + k = k /\ k \in 1..m /\ a[k] = b[k]  BY <1>2, <1>3
      <4> QED  BY <1>6, <4>1
    <3> HIDE DEF o
    <3>2. FreeAlong(costs, 0, 0, o)  BY <3>1 DEF FreeAlong
    <3>3. 0 \in 0..m /\ 0 + o <= m  BY <1>2, <2>1
    <3> QED  BY <1>2, <1>5, <2>1, <3>2, <3>3, Diagonal
  <2>3. T[<<q + d, q + d>>] <= T[<<q, q>>]
    <3>1. ASSUME NEW k \in 1..d PROVE costs[<<q + k, q + k>>] = 0
      <4>1. q + k \in 1..m /\ a[q + k] = b[q + k]  BY <1>2, <1>3
      <4> QED  BY <1>6, <4>1
    <3> HIDE DEF d, q
    <3>2. FreeAlong(costs, q, q, d)  BY <3>1 DEF FreeAlong
    <3>3. q + d <= m  BY <1>2, <2>1
    <3> QED  BY <1>2, <1>5, <2>1, <3>2, <3>3, Diagonal
  <2>4. T[<<q, q>>] \in Nat /\ T[<<q, q>>] <= T[<<q - 2, q - 2>>] + costs[<<q, q>>]
    <3>1. <<q, q>> \in Swapped(a, b)  BY <1>7
    <3> HIDE DEF q
    <3>2. CellFits(T, q, q, costs, Swapped(a, b))  BY <1>5, <2>1, Zenon DEF Filled
    <3> QED  BY <3>1, <3>2, Zenon DEF CellFits
  <2>5. T[<<0, 0>>] = 0
    <3>1. 0 \in 0..m  BY <1>2
    <3>2. T[<<0, 0>>] = 0 * Unit  BY <1>2, <1>5, <3>1, CellTyped
    <3> QED  BY <3>2 DEF Unit
  <2>6. T[<<o, o>>] \in Nat  BY <1>2, <1>5, <2>1, CellTyped
  <2>7. costs[<<q, q>>] \in 0..Unit  BY <1>8
  <2>8. 0 + o = o  BY <2>1
  <2> HIDE DEF q, d, o
  <2>9. T[<<o, o>>] <= 0  BY <2>2, <2>5, <2>6, <2>8
  <2>10. T[<<m, m>>] <= T[<<q, q>>]  BY <2>1, <2>3
  <2>11. T[<<q, q>>] <= T[<<o, o>>] + costs[<<q, q>>]  BY <2>1, <2>4
  <2> DEFINE t == T[<<m, m>>]
             u == T[<<q, q>>]
             v == T[<<o, o>>]
             c == costs[<<q, q>>]
  <2>12. /\ t \in Nat /\ u \in Nat /\ v \in Nat /\ c \in 0..Unit
         /\ v <= 0 /\ t <= u /\ u <= v + c
    BY <1>9, <2>4, <2>6, <2>7, <2>9, <2>10, <2>11
  <2> HIDE DEF t, u, v, c
  <2>13. t <= Unit  BY <2>12 DEF Unit
  <2> QED  BY <2>13 DEF t
<1>11. ~(T[<<m, m>>] < Unit)
  <2> SUFFICES ASSUME T[<<m, m>>] < Unit PROVE FALSE  OBVIOUS
  <2>1. m \in 0..Len(a) /\ m \in 0..Len(b)  BY <1>2, <1>3 DEF m
  <2>2. Swapped(a, b) \in SUBSET Swapped(a, b)  OBVIOUS
  <2>3. \A k \in 1..m : a[k] = b[k]  BY <1>3, <1>4, <2>1, <2>2, SmallDistance
  <2>4. Len(a) = m  BY DEF m
  <2>5. a = b  BY <1>3, <2>3, <2>4, SequencesEqual
  <2> QED  BY <2>5
<1> QED  BY <1>3, <1>4, <1>9, <1>10, <1>11 DEF Unit

\* The matrix of damerauLevenshteinDistance is never above that of levenshteinDistance, at least
\* half of it, and one edit for two neighbours that changed places.
THEOREM SwapsHelp ==
    ASSUME NEW a \in Seq(Letters), NEW b \in Seq(Letters)
    PROVE  /\ DamerauDistance(a, b) \in Nat
           /\ DamerauDistance(a, b) <= LevenshteinDistance(a, b)
           /\ LevenshteinDistance(a, b) <= 2 * DamerauDistance(a, b)
           /\ b \in Turned(a) \ {a} => DamerauDistance(a, b) = Unit
<1> DEFINE x == Len(a)
           y == Len(b)
<1>1. PICK T : Plainly(T, a, b, {}) /\ LevenshteinDistance(a, b) = T[<<x, y>>]
  BY LevenshteinIs
<1>2. PICK R : Plainly(R, a, b, Swapped(a, b)) /\ DamerauDistance(a, b) = R[<<x, y>>]
  BY DamerauIs
<1>3. x \in 0..Len(a) /\ y \in 0..Len(b)  OBVIOUS
<1>4. Swapped(a, b) \in SUBSET Swapped(a, b)  OBVIOUS
<1> HIDE DEF x, y
<1>5. R[<<x, y>>] <= T[<<x, y>>] /\ T[<<x, y>>] <= 2 * R[<<x, y>>]
  BY <1>1, <1>2, <1>3, <1>4, SwapsHalve
<1>6. R[<<x, y>>] \in Nat
  <2>1. Filled(R, Len(a), Len(b), PlainCosts(a, b), Swapped(a, b))  BY <1>2 DEF Plainly
  <2>2. Len(a) \in Nat /\ Len(b) \in Nat  OBVIOUS
  <2> QED  BY <1>3, <2>1, <2>2, CellTyped
<1> QED  BY <1>1, <1>2, <1>5, <1>6, TurnedIsOne
--------------------------------------------------------------------------------
(***************************************************************************)
(* Shared runs.                                                            *)
(***************************************************************************)
LEMMA HasLeast ==
    ASSUME NEW S \in SUBSET Nat, S # {}
    PROVE  \E x \in S : \A y \in S : x <= y
<1>1. PICK x \in S : \A y \in S : <<y, x>> \notin OpToRel(<, Nat)
  BY WFMin, NatLessThanWellFounded, Zenon
<1>2. \A y \in S : ~(y < x)  BY <1>1, Zenon DEF OpToRel
<1> QED  BY <1>2

LEMMA HasGreatest ==
    ASSUME NEW n \in Nat, NEW S \in SUBSET (0..n), S # {}
    PROVE  \E x \in S : \A y \in S : y <= x
<1> DEFINE Left == {n - x : x \in S}
<1>1. Left \in SUBSET Nat /\ Left # {}
  <2>1. \A x \in S : x \in 0..n  OBVIOUS
  <2>2. \A x \in S : n - x \in Nat  BY <2>1
  <2> QED  BY <2>2
<1>2. PICK l \in Left : \A k \in Left : l <= k
  <2> HIDE DEF Left
  <2> QED  BY <1>1, HasLeast
<1>3. PICK x \in S : l = n - x  OBVIOUS
<1>4. ASSUME NEW y \in S PROVE y <= x
  <2>1. n - x <= n - y  BY <1>2, <1>3
  <2>2. x \in Int /\ y \in Int  OBVIOUS
  <2> QED  BY <2>1, <2>2
<1> QED  BY <1>4

LEMMA RunsAre ==
    ASSUME NEW S, NEW a \in Seq(S), NEW b \in Seq(S)
    PROVE  /\ Runs(a, b) \in [Cells(Len(a), Len(b)) -> Nat]
           /\ \A i \in 0..Len(a), j \in 0..Len(b) :
                  Runs(a, b)[<<i, j>>] =
                      IF i # 0 /\ j # 0 /\ a[i] = b[j] THEN 1 + Runs(a, b)[<<i - 1, j - 1>>] ELSE 0
<1> DEFINE m == Len(a)
           n == Len(b)
           D == (0..m) \X (0..n)
           Longer(p) == p \in LetterPairs(a, b) /\ a[p[1]] = b[p[2]]
           Body(p, f) == IF Longer(p) THEN 1 + f[<<p[1] - 1, p[2] - 1>>] ELSE 0
           rank == [p \in D |-> p[1] + p[2]]
           F == [p \in D |-> [f \in [D -> Nat] |-> Body(p, f)]]
           T == Runs(a, b)
<1>1. m \in Nat /\ n \in Nat  OBVIOUS
<1>2. ASSUME NEW p \in D, Longer(p)
      PROVE  <<p[1] - 1, p[2] - 1>> \in D /\ rank[<<p[1] - 1, p[2] - 1>>] < rank[p]
  <2>1. p[1] \in 1..m /\ p[2] \in 1..n  BY <1>2 DEF LetterPairs
  <2>2. <<p[1] - 1, p[2] - 1>> \in D  BY <1>1, <2>1
  <2> QED  BY <1>1, <2>1, <2>2
<1>3. rank \in [D -> Nat] /\ \A p \in D : rank[p] < m + n + 1  BY <1>1
<1> HIDE DEF m, n
<1>4. ASSUME NEW p \in D, NEW f \in [D -> Nat] PROVE Body(p, f) \in Nat
  <2> HIDE DEF D, Longer, rank
  <2>1. CASE Longer(p)
    <3>1. f[<<p[1] - 1, p[2] - 1>>] \in Nat  BY <1>2, <2>1
    <3> QED  BY <2>1, <3>1
  <2> QED  BY <2>1
<1>5. Causal(D, Nat, rank, F)
  <2>1. F \in [D -> [[D -> Nat] -> Nat]]
    <3> HIDE DEF D, Body
    <3> QED  BY <1>4
  <2>2. ASSUME NEW p \in D, NEW f \in [D -> Nat], NEW h \in [D -> Nat],
               \A e \in D : rank[e] < rank[p] => f[e] = h[e]
        PROVE  F[p][f] = F[p][h]
    <3> HIDE DEF D, Longer, rank
    <3>1. CASE Longer(p)
      <4>1. f[<<p[1] - 1, p[2] - 1>>] = h[<<p[1] - 1, p[2] - 1>>]  BY <1>2, <2>2, <3>1
      <4> QED  BY <3>1, <4>1
    <3> QED  BY <3>1
  <2> HIDE DEF D, F, rank
  <2> QED  BY <2>1, <2>2 DEF Causal
<1>6. PICK g \in [D -> Nat] : g = [p \in D |-> Body(p, g)]
  <2> DEFINE N == m + n + 1
  <2>1. N \in Nat  BY <1>1
  <2>2. PICK g : Solves(D, Nat, F, g)
    <3> HIDE DEF D, F, rank, N
    <3>1. \A p \in D : rank[p] < N  BY <1>3 DEF N
    <3> QED  BY <1>3, <1>5, <2>1, <3>1, 0 \in Nat, Solution, Zenon
  <2>3. g \in [D -> Nat] /\ \A p \in D : g[p] = Body(p, g)
    <3>1. g \in [D -> Nat] /\ \A p \in D : g[p] = F[p][g]
      <4> HIDE DEF D, F
      <4> QED  BY <2>2 DEF Solves
    <3> HIDE DEF D, Body
    <3> QED  BY <3>1
  <2>4. g = [p \in D |-> Body(p, g)]
    <3> HIDE DEF D, Body
    <3> QED  BY <2>3
  <2> QED  BY <2>3, <2>4
<1>7. T = [p \in D |-> Body(p, T)]
  <2>1. T = CHOOSE f : f = [p \in D |-> Body(p, f)]  BY DEF Runs, m, n
  <2> HIDE DEF D, Body, T
  <2> QED  BY <1>6, <2>1
<1> HIDE DEF T
<1>8. \A p \in D : T[p] = Body(p, T)
  <2> HIDE DEF D, Body
  <2> QED  BY <1>7
<1>9. T \in [D -> Nat]
  <2> DEFINE Good == {p \in D : T[p] \in Nat}
  <2>1. ASSUME NEW p \in D, \A e \in D : rank[e] < rank[p] => e \in Good
        PROVE  p \in Good
    <3>1. T[p] = Body(p, T)  BY <1>8
    <3> HIDE DEF D, Longer, rank
    <3>2. CASE Longer(p)
      <4>1. T[<<p[1] - 1, p[2] - 1>>] \in Nat  BY <1>2, <2>1, <3>2
      <4> QED  BY <3>1, <3>2, <4>1
    <3> QED  BY <3>1, <3>2
  <2>2. \A p \in D : p \in Good
    <3> HIDE DEF D, Good, rank
    <3> QED  BY <1>3, <2>1, RankInduction
  <2> HIDE DEF D, Body
  <2> QED  BY <1>7, <2>2
<1>10. ASSUME NEW i \in 0..m, NEW j \in 0..n
       PROVE  T[<<i, j>>] = IF i # 0 /\ j # 0 /\ a[i] = b[j] THEN 1 + T[<<i - 1, j - 1>>] ELSE 0
  <2> DEFINE p == <<i, j>>
  <2>1. p \in D /\ p[1] = i /\ p[2] = j  OBVIOUS
  <2>2. p \in LetterPairs(a, b) <=> i # 0 /\ j # 0  BY <1>1 DEF LetterPairs, m, n
  <2>3. T[p] = Body(p, T)  BY <1>8, <2>1
  <2> HIDE DEF D, p
  <2>4. T[p] = IF i # 0 /\ j # 0 /\ a[i] = b[j] THEN 1 + T[<<i - 1, j - 1>>] ELSE 0
    BY <2>1, <2>2, <2>3
  <2> QED  BY <2>4 DEF p
<1> QED  BY <1>9, <1>10 DEF T, m, n, Cells

\* The letters before i in a and before j in b are the same for n letters back.
EndsWith(a, b, i, j, n) == n <= i /\ n <= j /\ \A k \in 0..n - 1 : a[i - k] = b[j - k]

\* A cell holds the longest run that ends there.
LEMMA RunsEnd ==
    ASSUME NEW S, NEW a \in Seq(S), NEW b \in Seq(S), NEW i \in 0..Len(a), NEW j \in 0..Len(b)
    PROVE  /\ Runs(a, b)[<<i, j>>] \in Nat
           /\ EndsWith(a, b, i, j, Runs(a, b)[<<i, j>>])
           /\ \A n \in Nat : EndsWith(a, b, i, j, n) => n <= Runs(a, b)[<<i, j>>]
<1> DEFINE x == Len(a)
           y == Len(b)
           T == Runs(a, b)
           Fine(k, l) == /\ EndsWith(a, b, k, l, T[<<k, l>>])
                         /\ \A n \in Nat : EndsWith(a, b, k, l, n) => n <= T[<<k, l>>]
           Good == {p \in (0..x) \X (0..y) : Fine(p[1], p[2])}
<1>1. x \in Nat /\ y \in Nat  OBVIOUS
<1>2. \A k \in 0..x, l \in 0..y :
          /\ T[<<k, l>>] \in Nat
          /\ T[<<k, l>>] = IF k # 0 /\ l # 0 /\ a[k] = b[l] THEN 1 + T[<<k - 1, l - 1>>] ELSE 0
  <2> SUFFICES ASSUME NEW k \in 0..x, NEW l \in 0..y
               PROVE  /\ T[<<k, l>>] \in Nat
                      /\ T[<<k, l>>] = IF k # 0 /\ l # 0 /\ a[k] = b[l]
                                       THEN 1 + T[<<k - 1, l - 1>>] ELSE 0
    OBVIOUS
  <2>1. T \in [Cells(x, y) -> Nat]  BY RunsAre
  <2>2. T[<<k, l>>] = IF k # 0 /\ l # 0 /\ a[k] = b[l] THEN 1 + T[<<k - 1, l - 1>>] ELSE 0
    BY RunsAre
  <2>3. <<k, l>> \in Cells(x, y)  BY DEF Cells
  <2> HIDE DEF T, x, y
  <2> QED  BY <2>1, <2>2, <2>3
<1> HIDE DEF x, y, T
<1>3. ASSUME NEW k \in 0..x, NEW l \in 0..y,
             \A e \in 0..x, f \in 0..y : e + f < k + l => <<e, f>> \in Good
      PROVE  <<k, l>> \in Good
  <2> SUFFICES Fine(k, l)  OBVIOUS
  <2>1. CASE k # 0 /\ l # 0 /\ a[k] = b[l]
    <3>1. k - 1 \in 0..x /\ l - 1 \in 0..y /\ (k - 1) + (l - 1) < k + l  BY <1>1, <2>1
    <3>2. Fine(k - 1, l - 1)
      <4>1. <<k - 1, l - 1>> \in Good  BY <1>3, <3>1
      <4> QED  BY <4>1
    <3> DEFINE t == T[<<k, l>>]
               u == T[<<k - 1, l - 1>>]
    <3>3. t \in Nat /\ u \in Nat /\ t = 1 + u  BY <1>2, <2>1, <3>1
    <3>4. /\ EndsWith(a, b, k - 1, l - 1, u)
          /\ \A n \in Nat : EndsWith(a, b, k - 1, l - 1, n) => n <= u
      BY <3>2
    <3> HIDE DEF t, u
    <3>5. EndsWith(a, b, k, l, t)
      <4>1. t <= k /\ t <= l  BY <1>1, <3>3, <3>4 DEF EndsWith
      <4>2. ASSUME NEW d \in 0..t - 1 PROVE a[k - d] = b[l - d]
        <5>1. CASE d = 0  BY <1>1, <2>1, <5>1
        <5>2. CASE d # 0
          <6>1. d - 1 \in 0..u - 1 /\ (k - 1) - (d - 1) = k - d /\ (l - 1) - (d - 1) = l - d
            BY <1>1, <3>3, <5>2
          <6>2. a[(k - 1) - (d - 1)] = b[(l - 1) - (d - 1)]  BY <3>4, <6>1 DEF EndsWith
          <6> QED  BY <6>1, <6>2
        <5> QED  BY <5>1, <5>2
      <4> QED  BY <4>1, <4>2 DEF EndsWith
    <3>6. ASSUME NEW n \in Nat, EndsWith(a, b, k, l, n) PROVE n <= t
      <4>1. CASE n = 0  BY <3>3, <4>1
      <4>2. CASE n # 0
        <5>1. n - 1 \in Nat  BY <4>2
        <5>2. EndsWith(a, b, k - 1, l - 1, n - 1)
          <6>1. n - 1 <= k - 1 /\ n - 1 <= l - 1  BY <1>1, <3>6 DEF EndsWith
          <6>2. ASSUME NEW d \in 0..(n - 1) - 1 PROVE a[(k - 1) - d] = b[(l - 1) - d]
            <7>1. d + 1 \in 0..n - 1 /\ k - (d + 1) = (k - 1) - d /\ l - (d + 1) = (l - 1) - d
              BY <1>1
            <7>2. a[k - (d + 1)] = b[l - (d + 1)]  BY <3>6, <7>1 DEF EndsWith
            <7> QED  BY <7>1, <7>2
          <6> QED  BY <6>1, <6>2 DEF EndsWith
        <5>3. n - 1 <= u  BY <3>4, <5>1, <5>2
        <5> QED  BY <3>3, <5>3
      <4> QED  BY <4>1, <4>2
    <3> QED  BY <3>5, <3>6 DEF t
  <2>2. CASE ~(k # 0 /\ l # 0 /\ a[k] = b[l])
    <3>1. T[<<k, l>>] = 0  BY <1>2, <2>2
    <3>2. EndsWith(a, b, k, l, 0)  BY <1>1 DEF EndsWith
    <3>3. ASSUME NEW n \in Nat, EndsWith(a, b, k, l, n) PROVE n <= 0
      <4> SUFFICES ASSUME n # 0 PROVE FALSE  OBVIOUS
      <4>1. 0 \in 0..n - 1 /\ n <= k /\ n <= l  BY <3>3 DEF EndsWith
      <4>2. a[k - 0] = b[l - 0]  BY <3>3, <4>1 DEF EndsWith
      <4> QED  BY <1>1, <2>2, <4>1, <4>2
    <3> QED  BY <3>1, <3>2, <3>3
  <2> QED  BY <2>1, <2>2
<1>4. \A k \in 0..x, l \in 0..y : <<k, l>> \in Good
  <2> HIDE DEF Good
  <2> QED  BY <1>1, <1>3, CellInduction
<1>5. i \in 0..x /\ j \in 0..y  BY DEF x, y
<1>6. <<i, j>> \in Good  BY <1>4, <1>5
<1>7. Fine(i, j)  BY <1>6
<1> QED  BY <1>2, <1>5, <1>7 DEF T

SharedRuns(a, b) ==
    {n \in 0..Lesser(Len(a), Len(b)) :
        \E i \in 0..Len(a) - n, j \in 0..Len(b) - n :
            SubSeq(a, i + 1, i + n) = SubSeq(b, j + 1, j + n)}

\* Equal runs are runs that end alike.
LEMMA EqualRuns ==
    ASSUME NEW S, NEW a \in Seq(S), NEW b \in Seq(S), NEW n \in Nat,
           NEW i \in Nat, NEW j \in Nat, i + n <= Len(a), j + n <= Len(b)
    PROVE  SubSeq(a, i + 1, i + n) = SubSeq(b, j + 1, j + n) <=> EndsWith(a, b, i + n, j + n, n)
<1> DEFINE u == SubSeq(a, i + 1, i + n)
           v == SubSeq(b, j + 1, j + n)
<1>1. u \in Seq(S) /\ Len(u) = n /\ \A k \in 1..n : u[k] = a[i + k]  OBVIOUS
<1>2. v \in Seq(S) /\ Len(v) = n /\ \A k \in 1..n : v[k] = b[j + k]  OBVIOUS
<1> HIDE DEF u, v
<1>3. ASSUME u = v PROVE EndsWith(a, b, i + n, j + n, n)
  <2>1. n <= i + n /\ n <= j + n  OBVIOUS
  <2>2. ASSUME NEW k \in 0..n - 1 PROVE a[(i + n) - k] = b[(j + n) - k]
    <3>1. n - k \in 1..n /\ i + (n - k) = (i + n) - k /\ j + (n - k) = (j + n) - k  OBVIOUS
    <3>2. u[n - k] = a[i + (n - k)] /\ v[n - k] = b[j + (n - k)]  BY <1>1, <1>2, <3>1
    <3> QED  BY <1>3, <3>1, <3>2
  <2> QED  BY <2>1, <2>2 DEF EndsWith
<1>4. ASSUME EndsWith(a, b, i + n, j + n, n) PROVE u = v
  <2>1. ASSUME NEW k \in 1..n PROVE u[k] = v[k]
    <3>1. n - k \in 0..n - 1 /\ (i + n) - (n - k) = i + k /\ (j + n) - (n - k) = j + k  OBVIOUS
    <3>2. a[(i + n) - (n - k)] = b[(j + n) - (n - k)]  BY <1>4, <3>1 DEF EndsWith
    <3> QED  BY <1>1, <1>2, <3>1, <3>2
  <2> QED  BY <1>1, <1>2, <2>1, SequencesEqual
<1> QED  BY <1>3, <1>4 DEF u, v

\* The longest run in the table of longestCommonSubstringRatio is the longest a reader would find
\* by looking at every pair of places.
THEOREM SharedRunIs ==
    ASSUME NEW S, NEW a \in Seq(S), NEW b \in Seq(S)
    PROVE  /\ LongestCommonSubstring(a, b) \in SharedRuns(a, b)
           /\ \A n \in SharedRuns(a, b) : n <= LongestCommonSubstring(a, b)
           /\ LongestCommonSubstring(a, b) = Max(SharedRuns(a, b))
           /\ SharedRuns(a, b) \in SUBSET Nat
<1> DEFINE x == Len(a)
           y == Len(b)
           T == Runs(a, b)
           M == {T[p] : p \in (0..x) \X (0..y)}
           N == SharedRuns(a, b)
<1>1. x \in Nat /\ y \in Nat  OBVIOUS
<1>2. ASSUME NEW i \in 0..x, NEW j \in 0..y
      PROVE  /\ T[<<i, j>>] \in Nat
             /\ T[<<i, j>>] <= i /\ T[<<i, j>>] <= j
             /\ EndsWith(a, b, i, j, T[<<i, j>>])
  <2>1. T[<<i, j>>] \in Nat /\ EndsWith(a, b, i, j, T[<<i, j>>])  BY RunsEnd
  <2> HIDE DEF T
  <2> QED  BY <2>1 DEF EndsWith
<1>3. \A i \in 0..x, j \in 0..y : \A n \in Nat : EndsWith(a, b, i, j, n) => n <= T[<<i, j>>]
  BY RunsEnd
<1> HIDE DEF T
<1>4. PICK r \in M : \A q \in M : q <= r
  <2>1. M \in SUBSET (0..x)
    <3> SUFFICES ASSUME NEW i \in 0..x, NEW j \in 0..y PROVE T[<<i, j>>] \in 0..x  OBVIOUS
    <3> HIDE DEF x, y
    <3> QED  BY <1>1, <1>2
  <2>2. M # {}
    <3>1. <<0, 0>> \in (0..x) \X (0..y)  BY <1>1
    <3> QED  BY <3>1
  <2> HIDE DEF M, x
  <2> QED  BY <1>1, <2>1, <2>2, HasGreatest
<1>5. PICK i \in 0..x, j \in 0..y : r = T[<<i, j>>]
  <2> HIDE DEF x, y
  <2>1. PICK p \in (0..x) \X (0..y) : r = T[p]  OBVIOUS
  <2>2. p[1] \in 0..x /\ p[2] \in 0..y /\ p = <<p[1], p[2]>>  OBVIOUS
  <2> QED  BY <2>1, <2>2
<1>6. r \in Nat /\ r <= i /\ r <= j /\ EndsWith(a, b, i, j, r)  BY <1>2, <1>5
<1>7. LongestCommonSubstring(a, b) = r
  <2>1. LongestCommonSubstring(a, b) = Max(M)  BY DEF LongestCommonSubstring, T
  <2>2. M \in SUBSET Nat
    <3> HIDE DEF x, y
    <3> QED  BY <1>2
  <2> HIDE DEF M
  <2> QED  BY <1>4, <2>1, <2>2, GreatestIs
<1>8. r \in N
  <2> DEFINE k == i - r
             l == j - r
  <2>1. k \in Nat /\ l \in Nat /\ k + r = i /\ l + r = j /\ k + r <= x /\ l + r <= y  BY <1>1, <1>6
  <2>2. k \in 0..x - r /\ l \in 0..y - r /\ r \in 0..Lesser(x, y)
    BY <1>1, <1>6, <2>1 DEF Lesser
  <2> HIDE DEF k, l
  <2>3. EndsWith(a, b, k + r, l + r, r)  BY <1>6, <2>1
  <2>4. SubSeq(a, k + 1, k + r) = SubSeq(b, l + 1, l + r)  
    <3>1. k + r <= Len(a) /\ l + r <= Len(b)  BY <2>1
    <3>2. r \in Nat  BY <1>6
    <3> HIDE DEF x, y, M
    <3>3. SubSeq(a, k + 1, k + r) = SubSeq(b, l + 1, l + r) <=> EndsWith(a, b, k + r, l + r, r)
      BY <2>1, <3>1, <3>2, EqualRuns
    <3> QED  BY <2>3, <3>3
  <2> QED  BY <2>2, <2>4 DEF SharedRuns
<1>9. N \in SUBSET Nat
  <2>1. Lesser(x, y) \in Nat  BY <1>1 DEF Lesser
  <2> QED  BY <2>1 DEF SharedRuns
<1>10. ASSUME NEW n \in N PROVE n <= r
  <2>1. n \in Nat  BY <1>9
  <2>2. PICK k \in 0..x - n, l \in 0..y - n : SubSeq(a, k + 1, k + n) = SubSeq(b, l + 1, l + n)
    BY DEF SharedRuns
  <2>3. k \in Nat /\ l \in Nat /\ k + n <= x /\ l + n <= y  BY <1>1, <2>1
  <2>4. EndsWith(a, b, k + n, l + n, n)  BY <2>1, <2>2, <2>3, EqualRuns
  <2> DEFINE e == k + n
             f == l + n
  <2>5. e \in 0..x /\ f \in 0..y  BY <1>1, <2>1, <2>3
  <2> HIDE DEF e, f, x, y
  <2>6. n <= T[<<e, f>>]  BY <1>3, <2>1, <2>4, <2>5 DEF e, f
  <2>7. T[<<e, f>>] \in M  BY <2>5
  <2>8. T[<<e, f>>] \in Nat  BY <1>2, <2>5
  <2>9. T[<<e, f>>] <= r  BY <1>4, <2>7
  <2> QED  BY <1>6, <2>1, <2>6, <2>8, <2>9
<1>11. r = Max(N)
  <2> HIDE DEF N
  <2> QED  BY <1>8, <1>9, <1>10, GreatestIs
<1> HIDE DEF N
<1>12. N = SharedRuns(a, b)  BY DEF N
<1> QED  BY <1>7, <1>8, <1>9, <1>10, <1>11, <1>12

\* Longest shared runs do not depend on the order, fit in both names, and are all of a name
\* compared to itself.
LEMMA SharedRunFits ==
    ASSUME NEW S, NEW a \in Seq(S), NEW b \in Seq(S)
    PROVE  /\ LongestCommonSubstring(a, b) \in Nat
           /\ LongestCommonSubstring(a, b) <= Len(a) /\ LongestCommonSubstring(a, b) <= Len(b)
           /\ LongestCommonSubstring(a, b) = LongestCommonSubstring(b, a)
           /\ a = b => LongestCommonSubstring(a, b) = Len(a)
<1> DEFINE r == LongestCommonSubstring(a, b)
           q == LongestCommonSubstring(b, a)
<1>1. /\ r \in SharedRuns(a, b) /\ \A n \in SharedRuns(a, b) : n <= r
      /\ SharedRuns(a, b) \in SUBSET Nat /\ r = Max(SharedRuns(a, b))
  BY SharedRunIs
<1>2. q = Max(SharedRuns(b, a))  BY SharedRunIs
<1> HIDE DEF r, q
<1>3. SharedRuns(a, b) = SharedRuns(b, a)
  <2>1. Lesser(Len(a), Len(b)) = Lesser(Len(b), Len(a))  BY DEF Lesser
  <2> DEFINE A(n) == \E i \in 0..Len(a) - n, j \in 0..Len(b) - n :
                         SubSeq(a, i + 1, i + n) = SubSeq(b, j + 1, j + n)
             B(n) == \E i \in 0..Len(b) - n, j \in 0..Len(a) - n :
                         SubSeq(b, i + 1, i + n) = SubSeq(a, j + 1, j + n)
  <2>2. \A n : A(n) <=> B(n)  BY Zenon
  <2>3. SharedRuns(a, b) = {n \in 0..Lesser(Len(a), Len(b)) : A(n)}  BY DEF SharedRuns
  <2>4. SharedRuns(b, a) = {n \in 0..Lesser(Len(b), Len(a)) : B(n)}  BY DEF SharedRuns
  <2> HIDE DEF A, B
  <2> QED  BY <2>1, <2>2, <2>3, <2>4
<1>4. r \in Nat /\ r <= Len(a) /\ r <= Len(b)
  <2>1. r \in 0..Lesser(Len(a), Len(b))  BY <1>1 DEF SharedRuns
  <2> QED  BY <2>1 DEF Lesser
<1>5. ASSUME a = b PROVE r = Len(a)
  <2> DEFINE n == Len(a)
  <2>1. n \in Nat /\ n - n = 0 /\ n \in 0..Lesser(n, n)  BY DEF Lesser
  <2>2. 0 \in 0..n - n /\ SubSeq(a, 0 + 1, 0 + n) = SubSeq(a, 0 + 1, 0 + n)  BY <2>1
  <2>3. n \in SharedRuns(a, a)  BY <2>1, <2>2 DEF SharedRuns
  <2>4. n <= r  BY <1>1, <1>5, <2>3
  <2> QED  BY <1>4, <2>1, <2>4
<1> QED  BY <1>1, <1>2, <1>3, <1>4, <1>5 DEF r, q
--------------------------------------------------------------------------------
(***************************************************************************)
(* Measures.  Each is a share of one, the same from either side, and one   *)
(* for a name and itself.                                                  *)
(***************************************************************************)
IsShare(f) == f.of \in Nat /\ f.out \in Nat /\ f.of <= f.out

LEMMA RatioIs ==
    ASSUME NEW n \in Nat, NEW d \in Nat, n <= d
    PROVE  IsShare(Ratio(n, d)) /\ (n = d => Same(Ratio(n, d), One))
BY DEF IsShare, Ratio, Same, One

LEMMA EndsAre ==
    /\ IsShare(One) /\ IsShare(Zero) /\ Same(One, One)
BY DEF IsShare, Ratio, Same, One, Zero

LEMMA UnitRange == 0..Unit \subseteq Nat
BY DEF Unit

Priced(a, b, costs, swaps) ==
    /\ costs \in [LetterPairs(a, b) -> 0..Unit]
    /\ swaps \in SUBSET ((2..Len(a)) \X (2..Len(b)))

\* What a table of edits measures between two names, both ways around.
LEMMA DistanceFair ==
    ASSUME NEW S, NEW a \in Seq(S), NEW b \in Seq(S),
           NEW costs, NEW swaps, Priced(a, b, costs, swaps),
           NEW stsoc, NEW spaws, Priced(b, a, stsoc, spaws),
           Mirrored(Len(a), Len(b), costs, swaps, stsoc, spaws)
    PROVE  /\ Distance(a, b, costs, swaps) \in Nat
           /\ Distance(a, b, costs, swaps) <= Larger(Len(a), Len(b)) * Unit
           /\ Distance(a, b, costs, swaps) = Distance(b, a, stsoc, spaws)
<1> DEFINE x == Len(a)
           y == Len(b)
           T == Matrix(a, b, costs, swaps)
           R == Matrix(b, a, stsoc, spaws)
<1>0. /\ costs \in [LetterPairs(a, b) -> 0..Unit] /\ stsoc \in [LetterPairs(b, a) -> 0..Unit]
      /\ swaps \in SUBSET ((2..Len(a)) \X (2..Len(b)))
      /\ spaws \in SUBSET ((2..Len(b)) \X (2..Len(a)))
  BY DEF Priced
<1>1. x \in Nat /\ y \in Nat /\ x \in 0..x /\ y \in 0..y  OBVIOUS
<1>2. \A i \in 1..x, j \in 1..y : costs[<<i, j>>] \in 0..Unit
  <2> SUFFICES ASSUME NEW i \in 1..x, NEW j \in 1..y PROVE costs[<<i, j>>] \in 0..Unit  OBVIOUS
  <2>1. <<i, j>> \in LetterPairs(a, b)  BY DEF LetterPairs
  <2> QED  BY <1>0, <2>1
<1>3. Filled(T, x, y, costs, swaps)
  <2>1. costs \in [LetterPairs(a, b) -> Nat]  BY <1>0, UnitRange
  <2> QED  BY <1>0, <2>1, MatrixIs
<1>4. Filled(R, y, x, stsoc, spaws)
  <2>1. stsoc \in [LetterPairs(b, a) -> Nat]  BY <1>0, UnitRange
  <2> QED  BY <1>0, <2>1, MatrixIs
<1>5. Distance(a, b, costs, swaps) = T[<<x, y>>] /\ Distance(b, a, stsoc, spaws) = R[<<y, x>>]
  BY DEF Distance
<1>6. Mirrored(x, y, costs, swaps, stsoc, spaws)  OBVIOUS
<1>7. swaps \in SUBSET ((2..x) \X (2..y))  BY <1>0
<1> HIDE DEF x, y, T, R
<1>8. T[<<x, y>>] <= Larger(x, y) * Unit  BY <1>1, <1>2, <1>3, MatrixBounded
<1>9. T[<<x, y>>] = R[<<y, x>>]  BY <1>1, <1>3, <1>4, <1>6, <1>7, Transposed
<1>10. T[<<x, y>>] \in Nat  BY <1>1, <1>3, CellTyped
<1> QED  BY <1>5, <1>8, <1>9, <1>10 DEF x, y

LEMMA LevenshteinFair ==
    ASSUME NEW S, NEW a \in Seq(S), NEW b \in Seq(S)
    PROVE  /\ LevenshteinDistance(a, b) \in Nat
           /\ LevenshteinDistance(a, b) <= Larger(Len(a), Len(b)) * Unit
           /\ LevenshteinDistance(a, b) = LevenshteinDistance(b, a)
           /\ a = b => LevenshteinDistance(a, b) = 0
<1>1. CASE a = b
  <2>1. Larger(Len(a), Len(b)) * Unit \in Nat  BY DEF Larger, Unit
  <2> QED  BY <1>1, <2>1 DEF LevenshteinDistance
<1>2. CASE a # b
  <2> DEFINE costs == PlainCosts(a, b)
             stsoc == PlainCosts(b, a)
  <2>1. costs \in [LetterPairs(a, b) -> 0..Unit] /\ stsoc \in [LetterPairs(b, a) -> 0..Unit]
    BY DEF PlainCosts, Plain, Unit
  <2>2. /\ {} \in SUBSET ((2..Len(a)) \X (2..Len(b)))
        /\ {} \in SUBSET ((2..Len(b)) \X (2..Len(a)))
    OBVIOUS
  <2>3. Mirrored(Len(a), Len(b), costs, {}, stsoc, {})
    <3>1. ASSUME NEW i \in 1..Len(a), NEW j \in 1..Len(b)
          PROVE  costs[<<i, j>>] \in Nat /\ costs[<<i, j>>] = stsoc[<<j, i>>]
      <4>1. costs[<<i, j>>] = Plain(a[i], b[j]) /\ stsoc[<<j, i>>] = Plain(b[j], a[i])
        BY PlainCostsIs
      <4> QED  BY <4>1 DEF Plain, Unit
    <3> HIDE DEF costs, stsoc
    <3> QED  BY <3>1 DEF Mirrored
  <2>4. Priced(a, b, costs, {}) /\ Priced(b, a, stsoc, {})  BY <2>1, <2>2 DEF Priced
  <2> HIDE DEF costs, stsoc
  <2>6. /\ Distance(a, b, costs, {}) \in Nat
        /\ Distance(a, b, costs, {}) <= Larger(Len(a), Len(b)) * Unit
        /\ Distance(a, b, costs, {}) = Distance(b, a, stsoc, {})
    BY <2>3, <2>4, DistanceFair
  <2>5. /\ LevenshteinDistance(a, b) = Distance(a, b, costs, {})
        /\ LevenshteinDistance(b, a) = Distance(b, a, stsoc, {})
    BY <1>2 DEF LevenshteinDistance, costs, stsoc
  <2> QED  BY <1>2, <2>5, <2>6
<1> QED  BY <1>1, <1>2

LEMMA DamerauFair ==
    ASSUME NEW S, NEW a \in Seq(S), NEW b \in Seq(S)
    PROVE  /\ DamerauDistance(a, b) \in Nat
           /\ DamerauDistance(a, b) <= Larger(Len(a), Len(b)) * Unit
           /\ DamerauDistance(a, b) = DamerauDistance(b, a)
           /\ a = b => DamerauDistance(a, b) = 0
<1>1. CASE a = b
  <2>1. Larger(Len(a), Len(b)) * Unit \in Nat  BY DEF Larger, Unit
  <2> QED  BY <1>1, <2>1 DEF DamerauDistance
<1>2. CASE a # b
  <2> DEFINE costs == PlainCosts(a, b)
             stsoc == PlainCosts(b, a)
             swaps == Swapped(a, b)
             spaws == Swapped(b, a)
  <2>1. costs \in [LetterPairs(a, b) -> 0..Unit] /\ stsoc \in [LetterPairs(b, a) -> 0..Unit]
    BY DEF PlainCosts, Plain, Unit
  <2>2. /\ swaps \in SUBSET ((2..Len(a)) \X (2..Len(b)))
        /\ spaws \in SUBSET ((2..Len(b)) \X (2..Len(a)))
    BY DEF Swapped
  <2>3. Mirrored(Len(a), Len(b), costs, swaps, stsoc, spaws)
    <3>1. ASSUME NEW i \in 1..Len(a), NEW j \in 1..Len(b)
          PROVE  /\ costs[<<i, j>>] \in Nat /\ costs[<<i, j>>] = stsoc[<<j, i>>]
                 /\ <<i, j>> \in swaps <=> <<j, i>> \in spaws
      <4>1. costs[<<i, j>>] = Plain(a[i], b[j]) /\ stsoc[<<j, i>>] = Plain(b[j], a[i])
        BY PlainCostsIs
      <4>2. costs[<<i, j>>] \in Nat /\ costs[<<i, j>>] = stsoc[<<j, i>>]  BY <4>1 DEF Plain, Unit
      <4>3. <<i, j>> \in swaps <=> <<j, i>> \in spaws  BY DEF Swapped
      <4> QED  BY <4>2, <4>3
    <3> HIDE DEF costs, stsoc, swaps, spaws
    <3> QED  BY <3>1 DEF Mirrored
  <2>4. Priced(a, b, costs, swaps) /\ Priced(b, a, stsoc, spaws)  BY <2>1, <2>2 DEF Priced
  <2> HIDE DEF costs, stsoc, swaps, spaws
  <2>6. /\ Distance(a, b, costs, swaps) \in Nat
        /\ Distance(a, b, costs, swaps) <= Larger(Len(a), Len(b)) * Unit
        /\ Distance(a, b, costs, swaps) = Distance(b, a, stsoc, spaws)
    BY <2>3, <2>4, DistanceFair
  <2>5. /\ DamerauDistance(a, b) = Distance(a, b, costs, swaps)
        /\ DamerauDistance(b, a) = Distance(b, a, stsoc, spaws)
    BY <1>2 DEF DamerauDistance, costs, stsoc, swaps, spaws
  <2> QED  BY <1>2, <2>5, <2>6
<1> QED  BY <1>1, <1>2

LEMMA WeightedFair ==
    ASSUME NEW S, NEW a \in Seq(S), NEW b \in Seq(S)
    PROVE  /\ WeightedDistance(a, b) \in Nat
           /\ WeightedDistance(a, b) <= Larger(Len(a), Len(b)) * Unit
           /\ WeightedDistance(a, b) = WeightedDistance(b, a)
           /\ a = b => WeightedDistance(a, b) = 0
<1> DEFINE costs == [p \in LetterPairs(a, b) |-> SubstitutionCost(a[p[1]], b[p[2]])]
           stsoc == [p \in LetterPairs(b, a) |-> SubstitutionCost(b[p[1]], a[p[2]])]
<1>0. \A x, y : /\ SubstitutionCost(x, y) \in 0..Unit
                /\ SubstitutionCost(x, y) = SubstitutionCost(y, x)
                /\ SubstitutionCost(x, x) = 0
  <2> TAKE x, y
  <2>1. SubstitutionCost(x, y) \in 0..Unit /\ SubstitutionCost(x, x) = 0
    <3> HIDE DEF Groups
    <3> QED  BY DEF SubstitutionCost, Unit
  <2>2. {x, y} = {y, x}  OBVIOUS
  <2>3. SubstitutionCost(x, y) = SubstitutionCost(y, x)  BY <2>2 DEF SubstitutionCost
  <2> QED  BY <2>1, <2>3
<1>1. costs \in [LetterPairs(a, b) -> 0..Unit] /\ stsoc \in [LetterPairs(b, a) -> 0..Unit]
  BY <1>0
<1>2. /\ {} \in SUBSET ((2..Len(a)) \X (2..Len(b)))
      /\ {} \in SUBSET ((2..Len(b)) \X (2..Len(a)))
  OBVIOUS
<1>3. Mirrored(Len(a), Len(b), costs, {}, stsoc, {})
  <2>1. ASSUME NEW i \in 1..Len(a), NEW j \in 1..Len(b)
        PROVE  costs[<<i, j>>] \in Nat /\ costs[<<i, j>>] = stsoc[<<j, i>>]
    <3>1. <<i, j>> \in LetterPairs(a, b) /\ <<j, i>> \in LetterPairs(b, a)  BY DEF LetterPairs
    <3>2. /\ costs[<<i, j>>] = SubstitutionCost(a[i], b[j])
          /\ stsoc[<<j, i>>] = SubstitutionCost(b[j], a[i])
      BY <3>1
    <3> QED  BY <1>0, <3>2, UnitRange
  <2> HIDE DEF costs, stsoc
  <2> QED  BY <2>1 DEF Mirrored
<1>4. ASSUME a = b, NEW k \in 1..Len(a) PROVE costs[<<k, k>>] = 0
  <2>1. <<k, k>> \in LetterPairs(a, b)  BY <1>4 DEF LetterPairs
  <2> QED  BY <1>0, <1>4, <2>1
<1>5. /\ WeightedDistance(a, b) = Distance(a, b, costs, {})
      /\ WeightedDistance(b, a) = Distance(b, a, stsoc, {})
  BY DEF WeightedDistance
<1>8. Priced(a, b, costs, {}) /\ Priced(b, a, stsoc, {})  BY <1>1, <1>2 DEF Priced
<1> HIDE DEF costs, stsoc
<1>6. /\ Distance(a, b, costs, {}) \in Nat
      /\ Distance(a, b, costs, {}) <= Larger(Len(a), Len(b)) * Unit
      /\ Distance(a, b, costs, {}) = Distance(b, a, stsoc, {})
  BY <1>3, <1>8, DistanceFair
<1>7. ASSUME a = b PROVE Distance(a, b, costs, {}) = 0
  <2> DEFINE T == Matrix(a, b, costs, {})
             n == Len(a)
  <2>1. Filled(T, n, n, costs, {})
    <3>1. costs \in [LetterPairs(a, b) -> Nat]  BY <1>1, UnitRange
    <3>2. Filled(T, Len(a), Len(b), costs, {})  BY <1>2, <3>1, MatrixIs
    <3> QED  BY <1>7, <3>2
  <2>2. n \in Nat /\ \A k \in 1..n : costs[<<k, k>>] = 0  BY <1>4, <1>7
  <2>3. Distance(a, b, costs, {}) = T[<<n, n>>]  BY <1>7 DEF Distance
  <2> HIDE DEF T, n
  <2>4. T[<<n, n>>] = 0  BY <2>1, <2>2, NothingToEdit
  <2> QED  BY <2>3, <2>4
<1> QED  BY <1>5, <1>6, <1>7

LEMMA NormalizedFair ==
    ASSUME NEW S, NEW a \in Seq(S), NEW b \in Seq(S), NEW d \in Nat,
           d <= Larger(Len(a), Len(b)) * Unit
    PROVE  /\ IsShare(Normalized(d, a, b))
           /\ Normalized(d, a, b) = Normalized(d, b, a)
           /\ d = 0 => Same(Normalized(d, a, b), One)
<1> DEFINE longest == Larger(Len(a), Len(b)) * Unit
<1>1. longest \in Nat /\ longest = Larger(Len(b), Len(a)) * Unit /\ d <= longest
  BY DEF Larger, Unit
<1>2. /\ Normalized(d, a, b) = IF longest = 0 THEN One ELSE Ratio(longest - d, longest)
      /\ Normalized(d, b, a) = IF longest = 0 THEN One ELSE Ratio(longest - d, longest)
  BY <1>1 DEF Normalized
<1> HIDE DEF longest
<1>3. CASE longest = 0  BY <1>2, <1>3, EndsAre
<1>4. CASE longest # 0
  <2> DEFINE n == longest - d
  <2>1. n \in Nat /\ n <= longest /\ (d = 0 => n = longest)  BY <1>1
  <2>2. Normalized(d, a, b) = Ratio(n, longest) /\ Normalized(d, b, a) = Ratio(n, longest)
    BY <1>2, <1>4
  <2> HIDE DEF n
  <2> QED  BY <1>1, <2>1, <2>2, RatioIs
<1> QED  BY <1>3, <1>4

\* Rewriting makes words of words.
LEMMA ReplacedIs ==
    ASSUME NEW S, NEW word \in Seq(S), NEW from, Len(from) \in Nat \ {0}, NEW to \in Seq(S)
    PROVE  Replaced(word, from, to) \in Seq(S)
<1> DEFINE n == Len(from)
           m == Len(word)
           X == Seq(S)
           D == 1..m + n
           Here(i) == i + n - 1 <= m /\ SubSeq(word, i, i + n - 1) = from
           Body(i, f) == IF i > m THEN <<>>
                         ELSE IF Here(i) THEN to \o f[i + n]
                         ELSE <<word[i]>> \o f[i + 1]
           rank == [i \in D |-> m + n - i]
           F == [i \in D |-> [f \in [D -> X] |-> Body(i, f)]]
<1>1. m \in Nat /\ n \in Nat \ {0}  OBVIOUS
<1>2. <<>> \in X /\ to \in X /\ \A i \in 1..m : <<word[i]>> \in X  OBVIOUS
<1>3. \A u, v \in X : u \o v \in X  OBVIOUS
<1>4. ASSUME NEW i \in D, ~(i > m)
      PROVE  /\ i \in 1..m
             /\ i + 1 \in D /\ rank[i + 1] < rank[i]
             /\ Here(i) => i + n \in D /\ rank[i + n] < rank[i]
  <2>1. i \in 1..m /\ i + 1 \in D  BY <1>1, <1>4
  <2>2. Here(i) => i + n \in D
    <3>1. (i + n) - 1 <= m => i + n \in D  BY <1>1, <2>1
    <3> QED  BY <3>1
  <2>3. \A k \in D : rank[k] = (m + n) - k
    <3> SUFFICES ASSUME NEW k \in D PROVE rank[k] = (m + n) - k  OBVIOUS
    <3>1. m + n - k = (m + n) - k  BY <1>1
    <3> QED  BY <3>1
  <2>4. rank[i + 1] < rank[i]
    <3>1. (m + n) - (i + 1) < (m + n) - i  BY <1>1, <2>1
    <3> HIDE DEF D, rank
    <3> QED  BY <2>1, <2>3, <3>1
  <2>5. Here(i) => rank[i + n] < rank[i]
    <3>1. (m + n) - (i + n) < (m + n) - i  BY <1>1, <2>1
    <3> HIDE DEF D, rank, Here
    <3> QED  BY <2>2, <2>3, <3>1
  <2> QED  BY <2>1, <2>2, <2>4, <2>5
<1>5. rank \in [D -> Nat] /\ \A i \in D : rank[i] < m + n
  <2> SUFFICES ASSUME NEW i \in D PROVE m + n - i \in Nat /\ m + n - i < m + n  OBVIOUS
  <2> QED  BY <1>1
<1>6. 1 \in D  BY <1>1
<1> HIDE DEF n, m, X, D, Here, rank
<1>7. ASSUME NEW i \in D, NEW f \in [D -> X] PROVE Body(i, f) \in X
  <2>1. CASE i > m  BY <1>2, <2>1
  <2>2. CASE ~(i > m) /\ Here(i)
    <3>1. f[i + n] \in X  BY <1>4, <2>2
    <3>2. to \o f[i + n] \in X  BY <1>2, <1>3, <3>1
    <3> QED  BY <2>2, <3>2
  <2>3. CASE ~(i > m) /\ ~Here(i)
    <3>1. f[i + 1] \in X /\ <<word[i]>> \in X  BY <1>2, <1>4, <2>3
    <3>2. <<word[i]>> \o f[i + 1] \in X  BY <1>3, <3>1
    <3> QED  BY <2>3, <3>2
  <2> QED  BY <2>1, <2>2, <2>3
<1>8. Causal(D, X, rank, F)
  <2>1. F \in [D -> [[D -> X] -> X]]
    <3> HIDE DEF Body
    <3> QED  BY <1>7
  <2>2. ASSUME NEW i \in D, NEW f \in [D -> X], NEW h \in [D -> X],
               \A e \in D : rank[e] < rank[i] => f[e] = h[e]
        PROVE  F[i][f] = F[i][h]
    <3>1. CASE i > m  BY <3>1
    <3>2. CASE ~(i > m) /\ Here(i)
      <4>1. f[i + n] = h[i + n]  BY <1>4, <2>2, <3>2
      <4> QED  BY <3>2, <4>1
    <3>3. CASE ~(i > m) /\ ~Here(i)
      <4>1. f[i + 1] = h[i + 1]  BY <1>4, <2>2, <3>3
      <4> QED  BY <3>3, <4>1
    <3> QED  BY <3>1, <3>2, <3>3
  <2> HIDE DEF F
  <2> QED  BY <2>1, <2>2 DEF Causal
<1>9. PICK g : Solves(D, X, F, g)
  <2> DEFINE N == m + n
             x == <<>>
  <2>1. N \in Nat /\ x \in X  BY <1>1, <1>2
  <2> HIDE DEF F, N, x
  <2>2. \A i \in D : rank[i] < N  BY <1>5 DEF N
  <2> QED  BY <1>5, <1>8, <2>1, <2>2, Solution, Zenon
<1>10. g \in [D -> X] /\ \A i \in D : g[i] = F[i][g]
  <2> HIDE DEF F
  <2> QED  BY <1>9 DEF Solves
<1>11. g = [i \in D |-> Body(i, g)]
  <2>1. \A i \in D : g[i] = Body(i, g)
    <3> HIDE DEF Body
    <3> QED  BY <1>10
  <2> HIDE DEF Body
  <2> QED  BY <1>10, <2>1
<1> DEFINE T == CHOOSE f : f = [i \in D |-> Body(i, f)]
<1>12. T = [i \in D |-> Body(i, T)]
  <2> HIDE DEF Body
  <2> QED  BY <1>11
<1>13. Replaced(word, from, to) = T[1]
  BY DEF Replaced, n, m, D, Here
<1> HIDE DEF T
<1>14. \A i \in D : T[i] = Body(i, T)
  <2> HIDE DEF Body
  <2> QED  BY <1>12
<1> DEFINE Good == {i \in D : T[i] \in X}
<1>15. ASSUME NEW i \in D, \A e \in D : rank[e] < rank[i] => e \in Good
       PROVE  i \in Good
  <2>0. T[i] = Body(i, T)  BY <1>14
  <2>1. CASE i > m  BY <1>2, <2>0, <2>1
  <2>2. CASE ~(i > m) /\ Here(i)
    <3>1. T[i + n] \in X  BY <1>4, <1>15, <2>2
    <3>2. to \o T[i + n] \in X  BY <1>2, <1>3, <3>1
    <3> QED  BY <2>0, <2>2, <3>2
  <2>3. CASE ~(i > m) /\ ~Here(i)
    <3>1. T[i + 1] \in X /\ <<word[i]>> \in X  BY <1>2, <1>4, <1>15, <2>3
    <3>2. <<word[i]>> \o T[i + 1] \in X  BY <1>3, <3>1
    <3> QED  BY <2>0, <2>3, <3>2
  <2> QED  BY <2>1, <2>2, <2>3
<1>16. \A i \in D : i \in Good
  <2> HIDE DEF Good
  <2> QED  BY <1>5, <1>15, RankInduction
<1> QED  BY <1>6, <1>13, <1>16 DEF X

\* The letters of names and those rewriting brings in.
Alphabet == Letters \cup {"f", "k", "w", "x", "s", "h", "y", "a", "i", "u"}

LEMMA ShortWords ==
    ASSUME NEW S, NEW x \in S, NEW y \in S
    PROVE  <<x>> \in Seq(S) /\ <<x, y>> \in Seq(S)
OBVIOUS

LEMMA RewritesAre ==
    ASSUME NEW k \in 1..Len(Rewrites)
    PROVE  Len(Rewrites[k][1]) \in Nat \ {0} /\ Rewrites[k][2] \in Seq(Alphabet)
<1>1. Len(Rewrites) = 9  BY DEF Rewrites
<1>2. k \in 1..9  BY <1>1
<1>11. CASE k = 1
  <2>1. Rewrites[k][1] = <<"p", "h">> /\ Rewrites[k][2] = <<"f">>  BY <1>11 DEF Rewrites
  <2>2. Len(<<"p", "h">>) \in Nat \ {0}  OBVIOUS
  <2>3. <<"f">> \in Seq(Alphabet)
    <3>1. "f" \in Alphabet  BY DEF Alphabet
    <3> QED  BY <3>1, ShortWords
  <2> QED  BY <2>1, <2>2, <2>3
<1>12. CASE k = 2
  <2>1. Rewrites[k][1] = <<"c", "k">> /\ Rewrites[k][2] = <<"k">>  BY <1>12 DEF Rewrites
  <2>2. Len(<<"c", "k">>) \in Nat \ {0}  OBVIOUS
  <2>3. <<"k">> \in Seq(Alphabet)
    <3>1. "k" \in Alphabet  BY DEF Alphabet
    <3> QED  BY <3>1, ShortWords
  <2> QED  BY <2>1, <2>2, <2>3
<1>13. CASE k = 3
  <2>1. Rewrites[k][1] = <<"q", "u">> /\ Rewrites[k][2] = <<"k", "w">>  BY <1>13 DEF Rewrites
  <2>2. Len(<<"q", "u">>) \in Nat \ {0}  OBVIOUS
  <2>3. <<"k", "w">> \in Seq(Alphabet)
    <3>1. "k" \in Alphabet /\ "w" \in Alphabet  BY DEF Alphabet
    <3> QED  BY <3>1, ShortWords
  <2> QED  BY <2>1, <2>2, <2>3
<1>14. CASE k = 4
  <2>1. Rewrites[k][1] = <<"k", "s">> /\ Rewrites[k][2] = <<"x">>  BY <1>14 DEF Rewrites
  <2>2. Len(<<"k", "s">>) \in Nat \ {0}  OBVIOUS
  <2>3. <<"x">> \in Seq(Alphabet)
    <3>1. "x" \in Alphabet  BY DEF Alphabet
    <3> QED  BY <3>1, ShortWords
  <2> QED  BY <2>1, <2>2, <2>3
<1>15. CASE k = 5
  <2>1. Rewrites[k][1] = <<"s", "c", "h">> /\ Rewrites[k][2] = <<"s", "h">>  BY <1>15 DEF Rewrites
  <2>2. Len(<<"s", "c", "h">>) \in Nat \ {0}  OBVIOUS
  <2>3. <<"s", "h">> \in Seq(Alphabet)
    <3>1. "s" \in Alphabet /\ "h" \in Alphabet  BY DEF Alphabet
    <3> QED  BY <3>1, ShortWords
  <2> QED  BY <2>1, <2>2, <2>3
<1>16. CASE k = 6
  <2>1. Rewrites[k][1] = <<"i", "j">> /\ Rewrites[k][2] = <<"y">>  BY <1>16 DEF Rewrites
  <2>2. Len(<<"i", "j">>) \in Nat \ {0}  OBVIOUS
  <2>3. <<"y">> \in Seq(Alphabet)
    <3>1. "y" \in Alphabet  BY DEF Alphabet
    <3> QED  BY <3>1, ShortWords
  <2> QED  BY <2>1, <2>2, <2>3
<1>17. CASE k = 7
  <2>1. Rewrites[k][1] = <<"a", "a">> /\ Rewrites[k][2] = <<"a">>  BY <1>17 DEF Rewrites
  <2>2. Len(<<"a", "a">>) \in Nat \ {0}  OBVIOUS
  <2>3. <<"a">> \in Seq(Alphabet)
    <3>1. "a" \in Alphabet  BY DEF Alphabet
    <3> QED  BY <3>1, ShortWords
  <2> QED  BY <2>1, <2>2, <2>3
<1>18. CASE k = 8
  <2>1. Rewrites[k][1] = <<"e", "e">> /\ Rewrites[k][2] = <<"i">>  BY <1>18 DEF Rewrites
  <2>2. Len(<<"e", "e">>) \in Nat \ {0}  OBVIOUS
  <2>3. <<"i">> \in Seq(Alphabet)
    <3>1. "i" \in Alphabet  BY DEF Alphabet
    <3> QED  BY <3>1, ShortWords
  <2> QED  BY <2>1, <2>2, <2>3
<1>19. CASE k = 9
  <2>1. Rewrites[k][1] = <<"o", "o">> /\ Rewrites[k][2] = <<"u">>  BY <1>19 DEF Rewrites
  <2>2. Len(<<"o", "o">>) \in Nat \ {0}  OBVIOUS
  <2>3. <<"u">> \in Seq(Alphabet)
    <3>1. "u" \in Alphabet  BY DEF Alphabet
    <3> QED  BY <3>1, ShortWords
  <2> QED  BY <2>1, <2>2, <2>3
<1> QED  BY <1>2, <1>11, <1>12, <1>13, <1>14, <1>15, <1>16, <1>17, <1>18, <1>19

LEMMA RewrittenIs ==
    ASSUME NEW word \in Seq(Letters)
    PROVE  Rewritten(word) \in Seq(Alphabet)
<1> DEFINE N == Len(Rewrites)
           D == 0..N
           X == Seq(Alphabet)
           Turn(k, w) == Replaced(w, Rewrites[k][1], Rewrites[k][2])
           G == [k \in 1..N |-> [w \in X |-> Turn(k, w)]]
           T == CHOOSE f : f = [k \in D |-> IF k = 0 THEN word ELSE Turn(k, f[k - 1])]
<1>1. N = 9 /\ N \in Nat  BY DEF Rewrites
<1>2. word \in X  BY DEF Alphabet
<1>3. ASSUME NEW k \in 1..N, NEW w \in X PROVE Turn(k, w) \in X
  BY RewritesAre, ReplacedIs
<1>4. Rewritten(word) = T[N]  BY DEF Rewritten
<1> HIDE DEF N, X, Turn
<1>5. G \in [1..N -> [X -> X]]  BY <1>3
<1>6. PICK f : Loops(N, X, word, G, f)
  <2> HIDE DEF G
  <2> QED  BY <1>1, <1>2, <1>5, Loop
<1>7. f \in [D -> X] /\ f[0] = word /\ \A k \in 1..N : f[k] = G[k][f[k - 1]]
  BY <1>6 DEF Loops
<1>8. f = [k \in D |-> IF k = 0 THEN word ELSE Turn(k, f[k - 1])]
  <2>1. ASSUME NEW k \in D PROVE f[k] = IF k = 0 THEN word ELSE Turn(k, f[k - 1])
    <3>1. CASE k # 0
      <4>1. k \in 1..N /\ k - 1 \in D  BY <1>1, <3>1
      <4>2. f[k - 1] \in X  BY <1>7, <4>1
      <4> HIDE DEF D
      <4> QED  BY <1>7, <3>1, <4>1, <4>2
    <3> QED  BY <1>7, <3>1
  <2> HIDE DEF D
  <2> QED  BY <1>7, <2>1
<1>9. T = [k \in D |-> IF k = 0 THEN word ELSE Turn(k, T[k - 1])]  BY <1>8
<1> HIDE DEF T
<1> DEFINE Good == {k \in D : T[k] \in X}
<1>10. 0 \in Good
  <2>1. 0 \in D  BY <1>1
  <2> HIDE DEF D
  <2> QED  BY <1>2, <1>9, <2>1
<1>11. ASSUME NEW k \in 1..N, k - 1 \in Good PROVE k \in Good
  <2>1. k \in D /\ k # 0  BY <1>1
  <2> HIDE DEF D
  <2> QED  BY <1>3, <1>9, <1>11, <2>1
<1>12. \A k \in D : k \in Good
  <2> HIDE DEF Good
  <2> QED  BY <1>1, <1>10, <1>11, CountUp
<1>13. N \in D  BY <1>1
<1> QED  BY <1>4, <1>12, <1>13 DEF X

\* A measure of a and b that is there one way around and back the other.
Fair(there, back, a, b) ==
    /\ IsShare(there)
    /\ there = back
    /\ a = b /\ a # <<>> => Same(there, One)

LEMMA EditMeasuresFair ==
    ASSUME NEW S, NEW a \in Seq(S), NEW b \in Seq(S)
    PROVE  /\ Fair(Levenshtein(a, b), Levenshtein(b, a), a, b)
           /\ Fair(Damerau(a, b), Damerau(b, a), a, b)
<1>1. Fair(Levenshtein(a, b), Levenshtein(b, a), a, b)
  <2> DEFINE d == LevenshteinDistance(a, b)
  <2>1. d \in Nat /\ d <= Larger(Len(a), Len(b)) * Unit /\ d = LevenshteinDistance(b, a)
    BY LevenshteinFair
  <2>2. a = b => d = 0  BY LevenshteinFair
  <2>3. Levenshtein(a, b) = Normalized(d, a, b) /\ Levenshtein(b, a) = Normalized(d, b, a)
    BY <2>1 DEF Levenshtein
  <2> HIDE DEF d
  <2> QED  BY <2>1, <2>2, <2>3, NormalizedFair DEF Fair
<1>2. Fair(Damerau(a, b), Damerau(b, a), a, b)
  <2> DEFINE d == DamerauDistance(a, b)
  <2>1. d \in Nat /\ d <= Larger(Len(a), Len(b)) * Unit /\ d = DamerauDistance(b, a)
    BY DamerauFair
  <2>2. a = b => d = 0  BY DamerauFair
  <2>3. Damerau(a, b) = Normalized(d, a, b) /\ Damerau(b, a) = Normalized(d, b, a)
    BY <2>1 DEF Damerau
  <2> HIDE DEF d
  <2> QED  BY <2>1, <2>2, <2>3, NormalizedFair DEF Fair
<1> QED  BY <1>1, <1>2

LEMMA WeightedEditFair ==
    ASSUME NEW a \in Seq(Letters), NEW b \in Seq(Letters)
    PROVE  Fair(WeightedEdit(a, b), WeightedEdit(b, a), a, b)
<1> DEFINE l == Rewritten(a)
           r == Rewritten(b)
           d == WeightedDistance(l, r)
<1>1. l \in Seq(Alphabet) /\ r \in Seq(Alphabet) /\ (a = b => l = r)  BY RewrittenIs
<1>2. /\ WeightedEdit(a, b) = IF Len(l) = 0 /\ Len(r) = 0 THEN One
                              ELSE IF Len(l) = 0 \/ Len(r) = 0 THEN Zero ELSE Normalized(d, l, r)
      /\ WeightedEdit(b, a) = IF Len(r) = 0 /\ Len(l) = 0 THEN One
                              ELSE IF Len(r) = 0 \/ Len(l) = 0 THEN Zero
                              ELSE Normalized(WeightedDistance(r, l), r, l)
  BY DEF WeightedEdit
<1> HIDE DEF l, r
<1>3. d \in Nat /\ d <= Larger(Len(l), Len(r)) * Unit /\ d = WeightedDistance(r, l)
  BY <1>1, WeightedFair
<1>4. a = b => d = 0  BY <1>1, WeightedFair
<1> HIDE DEF d
<1>5. /\ IsShare(Normalized(d, l, r))
      /\ Normalized(d, l, r) = Normalized(d, r, l)
      /\ d = 0 => Same(Normalized(d, l, r), One)
  BY <1>1, <1>3, NormalizedFair
<1>6. CASE Len(l) = 0 /\ Len(r) = 0  BY <1>2, <1>6, EndsAre DEF Fair
<1>7. CASE Len(l) # 0 /\ Len(r) # 0  BY <1>2, <1>3, <1>4, <1>5, <1>7 DEF Fair
<1>8. CASE ~(Len(l) = 0 <=> Len(r) = 0)  BY <1>1, <1>2, <1>8, EndsAre DEF Fair
<1> QED  BY <1>6, <1>7, <1>8

LEMMA NgramsFinite ==
    ASSUME NEW S, NEW word \in Seq(S), NEW n \in Nat \ {0}
    PROVE  IsFiniteSet(Ngrams(word, n))
<1>1. CASE Len(word) = 0  BY <1>1, FS_EmptySet DEF Ngrams
<1>2. CASE Len(word) # 0 /\ Len(word) < n  BY <1>2, FS_Singleton DEF Ngrams
<1>3. CASE Len(word) # 0 /\ ~(Len(word) < n)
  <2> DEFINE P == 1..Len(word) - n + 1
             Q == {SubSeq(word, i, i + n - 1) : i \in P}
             f == [i \in P |-> SubSeq(word, i, i + n - 1)]
  <2>1. Ngrams(word, n) = Q  BY <1>3 DEF Ngrams
  <2>2. IsFiniteSet(P)
    <3>1. 1 \in Int /\ Len(word) - n + 1 \in Int  OBVIOUS
    <3> QED  BY <3>1, FS_Interval
  <2>3. f \in Surjection(P, Q)
    <3> HIDE DEF P
    <3> QED  BY DEF Surjection
  <2> HIDE DEF P, Q, f
  <2>4. IsFiniteSet(Q)  BY <2>2, <2>3, FS_Surjection
  <2> QED  BY <2>1, <2>4
<1> QED  BY <1>1, <1>2, <1>3

LEMMA TrigramFair ==
    ASSUME NEW S, NEW a \in Seq(S), NEW b \in Seq(S)
    PROVE  Fair(Trigram(a, b), Trigram(b, a), a, b)
<1> DEFINE A == Ngrams(a, 3)
           B == Ngrams(b, 3)
           c == Cardinality(A \cap B)
           d == Cardinality(A \cup B)
<1>1. IsFiniteSet(A) /\ IsFiniteSet(B)  BY NgramsFinite
<1>2. a = b => A = B  OBVIOUS
<1>3. /\ Trigram(a, b) = IF A \cup B = {} THEN One ELSE Ratio(c, d)
      /\ Trigram(b, a) = IF B \cup A = {} THEN One
                         ELSE Ratio(Cardinality(B \cap A), Cardinality(B \cup A))
  BY DEF Trigram, Jaccard
<1> HIDE DEF A, B
<1>4. A \cap B = B \cap A /\ A \cup B = B \cup A /\ A \cap B \subseteq A \cup B  OBVIOUS
<1>5. IsFiniteSet(A \cup B)  BY <1>1, FS_Union
<1>6. IsFiniteSet(A \cap B) /\ c <= d  BY <1>4, <1>5, FS_Subset
<1>7. c \in Nat /\ d \in Nat  BY <1>5, <1>6, FS_CardinalityType
<1>8. A = B => c = d
  <2>1. A = B => A \cap B = A \cup B  OBVIOUS
  <2> QED  BY <2>1
<1>9. Trigram(a, b) = Trigram(b, a)
  <2> DEFINE I == A \cap B
             J == B \cap A
             U == A \cup B
             V == B \cup A
  <2>1. I = J /\ U = V  OBVIOUS
  <2>2. /\ Trigram(a, b) = IF U = {} THEN One ELSE Ratio(Cardinality(I), Cardinality(U))
        /\ Trigram(b, a) = IF V = {} THEN One ELSE Ratio(Cardinality(J), Cardinality(V))
    BY <1>3
  <2> HIDE DEF I, J, U, V
  <2> QED  BY <2>1, <2>2
<1> HIDE DEF c, d
<1>10. CASE A \cup B = {}  BY <1>3, <1>9, <1>10, EndsAre DEF Fair
<1>11. CASE A \cup B # {}  BY <1>2, <1>3, <1>6, <1>7, <1>8, <1>9, <1>11, RatioIs DEF Fair
<1> QED  BY <1>10, <1>11

LEMMA CommonPrefixIs ==
    ASSUME NEW S, NEW a \in Seq(S), NEW b \in Seq(S)
    PROVE  /\ CommonPrefix(a, b) \in Nat
           /\ CommonPrefix(a, b) <= Len(a) /\ CommonPrefix(a, b) <= Len(b)
           /\ CommonPrefix(a, b) = CommonPrefix(b, a)
           /\ a = b => CommonPrefix(a, b) = Len(a)
<1> DEFINE P(x, y) == {n \in 0..Lesser(Len(x), Len(y)) : SubSeq(x, 1, n) = SubSeq(y, 1, n)}
           A == P(a, b)
           B == P(b, a)
<1>1. CommonPrefix(a, b) = Max(A) /\ CommonPrefix(b, a) = Max(B)  BY DEF CommonPrefix
<1>2. /\ Lesser(Len(a), Len(b)) \in Nat
      /\ Lesser(Len(a), Len(b)) <= Len(a) /\ Lesser(Len(a), Len(b)) <= Len(b)
      /\ Lesser(Len(a), Len(b)) = Lesser(Len(b), Len(a))
  BY DEF Lesser
<1>3. A = B  BY <1>2
<1>4. A \in SUBSET (0..Lesser(Len(a), Len(b)))  OBVIOUS
<1>5. 0 \in A  BY <1>2
<1>6. a = b => Len(a) \in A  BY DEF Lesser
<1> HIDE DEF A, B
<1>7. PICK x \in A : \A y \in A : y <= x  BY <1>2, <1>4, <1>5, HasGreatest
<1>8. A \in SUBSET Nat  BY <1>2, <1>4
<1>9. Max(A) = x  BY <1>7, <1>8, GreatestIs
<1>10. x \in Nat /\ x <= Len(a) /\ x <= Len(b)  BY <1>2, <1>4
<1>11. a = b => x = Len(a)  BY <1>6, <1>7, <1>10
<1> QED  BY <1>1, <1>3, <1>9, <1>10, <1>11

LEMMA ReverseIs ==
    ASSUME NEW S, NEW a \in Seq(S)
    PROVE  Reverse(a) \in Seq(S) /\ Len(Reverse(a)) = Len(a)
BY DEF Reverse

LEMMA CommonSuffixIs ==
    ASSUME NEW S, NEW a \in Seq(S), NEW b \in Seq(S)
    PROVE  /\ CommonSuffix(a, b) \in Nat
           /\ CommonSuffix(a, b) <= Len(a) /\ CommonSuffix(a, b) <= Len(b)
           /\ CommonSuffix(a, b) = CommonSuffix(b, a)
           /\ a = b => CommonSuffix(a, b) = Len(a)
<1> DEFINE x == Reverse(a)
           y == Reverse(b)
<1>1. x \in Seq(S) /\ Len(x) = Len(a) /\ y \in Seq(S) /\ Len(y) = Len(b)  BY ReverseIs
<1>2. a = b => x = y  OBVIOUS
<1>3. CommonSuffix(a, b) = CommonPrefix(x, y) /\ CommonSuffix(b, a) = CommonPrefix(y, x)
  BY DEF CommonSuffix
<1> HIDE DEF x, y
<1> QED  BY <1>1, <1>2, <1>3, CommonPrefixIs

LEMMA AffixFair ==
    ASSUME NEW S, NEW a \in Seq(S), NEW b \in Seq(S), NEW n \in Nat, n <= Len(a),
           a = b => n = Len(a)
    PROVE  Fair(Affix(n, a, b), Affix(n, b, a), a, b)
<1> DEFINE longest == Larger(Len(a), Len(b))
<1>1. longest \in Nat /\ longest = Larger(Len(b), Len(a)) /\ n <= longest /\ (a = b => longest = n)
  BY DEF Larger
<1>2. /\ Affix(n, a, b) = IF Len(a) = 0 \/ Len(b) = 0 THEN Zero ELSE Ratio(n, longest)
      /\ Affix(n, b, a) = IF Len(b) = 0 \/ Len(a) = 0 THEN Zero ELSE Ratio(n, longest)
  BY <1>1 DEF Affix
<1>3. a # <<>> => Len(a) # 0  OBVIOUS
<1> HIDE DEF longest
<1>4. CASE Len(a) = 0 \/ Len(b) = 0
  <2>1. Affix(n, a, b) = Zero /\ Affix(n, b, a) = Zero  BY <1>2, <1>4
  <2> QED  BY <1>3, <1>4, <2>1, EndsAre DEF Fair
<1>5. CASE ~(Len(a) = 0 \/ Len(b) = 0)
  <2>1. Affix(n, a, b) = Ratio(n, longest) /\ Affix(n, b, a) = Ratio(n, longest)  BY <1>2, <1>5
  <2> QED  BY <1>1, <2>1, RatioIs DEF Fair
<1> QED  BY <1>4, <1>5

LEMMA EndMeasuresFair ==
    ASSUME NEW S, NEW a \in Seq(S), NEW b \in Seq(S)
    PROVE  /\ Fair(PrefixRatio(a, b), PrefixRatio(b, a), a, b)
           /\ Fair(SuffixRatio(a, b), SuffixRatio(b, a), a, b)
           /\ Fair(SubstringRatio(a, b), SubstringRatio(b, a), a, b)
<1>1. Fair(PrefixRatio(a, b), PrefixRatio(b, a), a, b)
  <2> DEFINE n == CommonPrefix(a, b)
  <2>1. n \in Nat /\ n <= Len(a) /\ n = CommonPrefix(b, a) /\ (a = b => n = Len(a))
    BY CommonPrefixIs
  <2>2. PrefixRatio(a, b) = Affix(n, a, b) /\ PrefixRatio(b, a) = Affix(n, b, a)
    BY <2>1 DEF PrefixRatio
  <2> HIDE DEF n
  <2> QED  BY <2>1, <2>2, AffixFair
<1>2. Fair(SuffixRatio(a, b), SuffixRatio(b, a), a, b)
  <2> DEFINE n == CommonSuffix(a, b)
  <2>1. n \in Nat /\ n <= Len(a) /\ n = CommonSuffix(b, a) /\ (a = b => n = Len(a))
    BY CommonSuffixIs
  <2>2. SuffixRatio(a, b) = Affix(n, a, b) /\ SuffixRatio(b, a) = Affix(n, b, a)
    BY <2>1 DEF SuffixRatio
  <2> HIDE DEF n
  <2> QED  BY <2>1, <2>2, AffixFair
<1>3. Fair(SubstringRatio(a, b), SubstringRatio(b, a), a, b)
  <2> DEFINE n == LongestCommonSubstring(a, b)
  <2>1. n \in Nat /\ n <= Len(a) /\ n = LongestCommonSubstring(b, a) /\ (a = b => n = Len(a))
    BY SharedRunFits
  <2>2. SubstringRatio(a, b) = Affix(n, a, b) /\ SubstringRatio(b, a) = Affix(n, b, a)
    BY <2>1 DEF SubstringRatio
  <2> HIDE DEF n
  <2> QED  BY <2>1, <2>2, AffixFair
<1> QED  BY <1>1, <1>2, <1>3

LEMMA LengthMeasuresFair ==
    ASSUME NEW S, NEW a \in Seq(S), NEW b \in Seq(S)
    PROVE  /\ Fair(LengthRatio(a, b), LengthRatio(b, a), a, b)
           /\ Fair(Visual(a, b), Visual(b, a), a, b)
<1> DEFINE x == Len(a)
           y == Len(b)
           longest == Larger(x, y)
           shortest == Lesser(x, y)
<1>0. x \in Nat /\ y \in Nat /\ (a = b => x = y) /\ (a # <<>> => x # 0)  OBVIOUS
<1>1. /\ longest \in Nat /\ shortest \in Nat /\ shortest <= longest
      /\ longest = Larger(y, x) /\ shortest = Lesser(y, x)
      /\ a = b => shortest = longest /\ longest = x
      /\ x <= longest /\ y <= longest
  BY DEF Larger, Lesser
<1>2. /\ LengthRatio(a, b) = IF longest = 0 THEN One ELSE Ratio(shortest, longest)
      /\ LengthRatio(b, a) = IF longest = 0 THEN One ELSE Ratio(shortest, longest)
  BY <1>1 DEF LengthRatio
<1> DEFINE ends == Lesser(longest, CommonPrefix(a, b) + CommonSuffix(a, b))
           n == 7 * ends + 3 * shortest
           d == 10 * longest
<1>3. /\ Visual(a, b) = IF x = 0 \/ y = 0 THEN Zero ELSE Ratio(n, d)
      /\ Visual(b, a) = IF y = 0 \/ x = 0 THEN Zero ELSE Ratio(n, d)
  <2>1. CommonPrefix(a, b) = CommonPrefix(b, a) /\ CommonSuffix(a, b) = CommonSuffix(b, a)
    BY CommonPrefixIs, CommonSuffixIs
  <2> QED  BY <1>1, <2>1 DEF Visual
<1>4. ends \in Nat /\ ends <= longest /\ (a = b => ends = longest)
  <2> DEFINE p == CommonPrefix(a, b)
             q == CommonSuffix(a, b)
  <2>1. p \in Nat /\ (a = b => p = x)  BY CommonPrefixIs
  <2>2. q \in Nat /\ (a = b => q = x)  BY CommonSuffixIs
  <2>3. ends = Lesser(longest, p + q)  OBVIOUS
  <2> HIDE DEF p, q, longest, shortest, ends, x, y
  <2> QED  BY <1>0, <1>1, <2>1, <2>2, <2>3 DEF Lesser
<1> HIDE DEF x, y, longest, shortest, ends
<1>5. n \in Nat /\ d \in Nat /\ n <= d /\ (a = b => n = d)  BY <1>1, <1>4
<1> HIDE DEF n, d
<1>6. Fair(LengthRatio(a, b), LengthRatio(b, a), a, b)
  <2>1. CASE longest = 0  BY <1>2, <2>1, EndsAre DEF Fair
  <2>2. CASE longest # 0  BY <1>1, <1>2, <2>2, RatioIs DEF Fair
  <2> QED  BY <2>1, <2>2
<1>7. Fair(Visual(a, b), Visual(b, a), a, b)
  <2>1. CASE x = 0 \/ y = 0
    <3>1. Visual(a, b) = Zero /\ Visual(b, a) = Zero  BY <1>3, <2>1
    <3> QED  BY <1>0, <2>1, <3>1, EndsAre DEF Fair
  <2>2. CASE ~(x = 0 \/ y = 0)
    <3>1. Visual(a, b) = Ratio(n, d) /\ Visual(b, a) = Ratio(n, d)  BY <1>3, <2>2
    <3> QED  BY <1>5, <3>1, RatioIs DEF Fair
  <2> QED  BY <2>1, <2>2
<1> QED  BY <1>6, <1>7
--------------------------------------------------------------------------------
(***************************************************************************)
(* Matching letters.  Letters are matched from the left of a, each to the  *)
(* first free letter of b.  The pairs are the only ones of their kind:     *)
(* a pair that could be matched and is not is kept out by an earlier       *)
(* letter of one name or the other; so b finds the same pairs in a.        *)
(***************************************************************************)
\* Pairs that could be matched.
Edges(a, b) ==
    {p \in LetterPairs(a, b) :
        a[p[1]] = b[p[2]] /\ p[1] <= p[2] + Near(a, b) /\ p[2] <= p[1] + Near(a, b)}

Greedy(E, P) ==
    /\ P \in SUBSET E
    /\ \A p, q \in P : p[1] = q[1] \/ p[2] = q[2] => p = q
    /\ \A p \in E : \/ p \in P
                    \/ \E q \in P : q[1] = p[1] /\ q[2] < p[2]
                    \/ \E q \in P : q[2] = p[2] /\ q[1] < p[1]

LEMMA OneGreedy ==
    ASSUME NEW E \in SUBSET (Nat \X Nat), NEW P, NEW Q, Greedy(E, P), Greedy(E, Q)
    PROVE  P = Q
<1> DEFINE rank == [p \in E |-> p[1] + p[2]]
           Good == {p \in E : p \in P <=> p \in Q}
<1>0. \A p \in E : p[1] \in Nat /\ p[2] \in Nat /\ p = <<p[1], p[2]>>  OBVIOUS
<1>1. rank \in [E -> Nat]  BY <1>0
<1>2. ASSUME NEW p \in E, NEW M, NEW N, Greedy(E, M), Greedy(E, N), p \in M,
             \A e \in E : rank[e] < rank[p] => (e \in M <=> e \in N)
      PROVE  p \in N
  <2> SUFFICES ASSUME p \notin N PROVE FALSE  OBVIOUS
  <2>1. CASE \E q \in N : q[1] = p[1] /\ q[2] < p[2]
    <3>1. PICK q \in N : q[1] = p[1] /\ q[2] < p[2]  BY <2>1
    <3>2. q \in E  BY <1>2 DEF Greedy
    <3>3. rank[q] < rank[p]  BY <1>0, <3>1, <3>2
    <3>4. q \in M  BY <1>2, <3>2, <3>3
    <3>5. q = p  BY <1>2, <3>1, <3>4 DEF Greedy
    <3> QED  BY <1>0, <3>1, <3>5
  <2>2. CASE \E q \in N : q[2] = p[2] /\ q[1] < p[1]
    <3>1. PICK q \in N : q[2] = p[2] /\ q[1] < p[1]  BY <2>2
    <3>2. q \in E  BY <1>2 DEF Greedy
    <3>3. rank[q] < rank[p]  BY <1>0, <3>1, <3>2
    <3>4. q \in M  BY <1>2, <3>2, <3>3
    <3>5. q = p  BY <1>2, <3>1, <3>4 DEF Greedy
    <3> QED  BY <1>0, <3>1, <3>5
  <2> QED  BY <1>2, <2>1, <2>2 DEF Greedy
<1>3. ASSUME NEW p \in E, \A e \in E : rank[e] < rank[p] => e \in Good
      PROVE  p \in Good
  <2>1. \A e \in E : rank[e] < rank[p] => (e \in P <=> e \in Q)  BY <1>3
  <2> HIDE DEF rank
  <2>2. p \in P => p \in Q  BY <1>2, <2>1
  <2>3. p \in Q => p \in P  BY <1>2, <2>1
  <2> QED  BY <2>2, <2>3
<1>4. \A p \in E : p \in Good
  <2> HIDE DEF rank, Good
  <2> QED  BY <1>1, <1>3, RankInduction
<1>5. P \in SUBSET E /\ Q \in SUBSET E  BY DEF Greedy
<1> QED  BY <1>4, <1>5

LEMMA NearIs ==
    ASSUME NEW S, NEW a \in Seq(S), NEW b \in Seq(S)
    PROVE  Near(a, b) \in Nat /\ Near(a, b) = Near(b, a)
<1> DEFINE x == Len(a)
           y == Len(b)
<1>1. x \in Nat /\ y \in Nat  OBVIOUS
<1>2. /\ Near(a, b) = Larger(0, Larger(x, y) \div 2 - 1)
      /\ Near(b, a) = Larger(0, Larger(y, x) \div 2 - 1)
  BY DEF Near
<1> HIDE DEF x, y
<1>3. Larger(x, y) \in Nat /\ Larger(x, y) = Larger(y, x)  BY <1>1 DEF Larger
<1> DEFINE l == Larger(x, y)
           h == l \div 2
<1>4. h \in Int
  <2> HIDE DEF l
  <2> QED  BY <1>3 DEF l
<1>5. Near(a, b) = Larger(0, h - 1) /\ Near(b, a) = Larger(0, h - 1)  BY <1>2, <1>3
<1> HIDE DEF h
<1> QED  BY <1>4, <1>5 DEF Larger

LEMMA FreeForIs ==
    ASSUME NEW S, NEW a \in Seq(S), NEW b \in Seq(S), NEW P, NEW i \in 1..Len(a), NEW j
    PROVE  j \in FreeFor(a, b, P, i) <=> <<i, j>> \in Edges(a, b) /\ \A p \in P : p[2] # j
<1> DEFINE x == Len(a)
           y == Len(b)
           n == Near(a, b)
<1>1. x \in Nat /\ y \in Nat /\ n \in Nat /\ i \in 1..x  BY NearIs
<1>2. j \in FreeFor(a, b, P, i) <=>
          j \in Larger(1, i - n)..Lesser(i + n, y) /\ b[j] = a[i] /\ \A p \in P : p[2] # j
  BY DEF FreeFor
<1>3. <<i, j>> \in Edges(a, b) <=>
          i \in 1..x /\ j \in 1..y /\ a[i] = b[j] /\ i <= j + n /\ j <= i + n
  BY DEF Edges, LetterPairs
<1> HIDE DEF x, y, n
<1>4. j \in Larger(1, i - n)..Lesser(i + n, y) <=> j \in 1..y /\ i <= j + n /\ j <= i + n
  <2>1. /\ Larger(1, i - n) \in Int /\ Lesser(i + n, y) \in Int
        /\ \A k \in Int : Larger(1, i - n) <= k <=> 1 <= k /\ i - n <= k
        /\ \A k \in Int : k <= Lesser(i + n, y) <=> k <= i + n /\ k <= y
    BY <1>1 DEF Larger, Lesser
  <2>2. \A k \in Int : i - n <= k <=> i <= k + n  BY <1>1
  <2> QED  BY <1>1, <2>1, <2>2
<1> QED  BY <1>1, <1>2, <1>3, <1>4

\* One more letter of a.
LEMMA GreedyGrows ==
    ASSUME NEW E \in SUBSET (Nat \X Nat), NEW i \in Nat \ {0}, NEW P, NEW free,
           Greedy({p \in E : p[1] <= i - 1}, P),
           \A j : j \in free <=> <<i, j>> \in E /\ \A p \in P : p[2] # j
    PROVE  Greedy({p \in E : p[1] <= i}, P \cup IF free = {} THEN {} ELSE {<<i, Min(free)>>})
<1> DEFINE D == {p \in E : p[1] <= i - 1}
           F == {p \in E : p[1] <= i}
           Q == P \cup IF free = {} THEN {} ELSE {<<i, Min(free)>>}
<1>0. \A p \in E : p[1] \in Nat /\ p[2] \in Nat /\ p = <<p[1], p[2]>>  OBVIOUS
<1>1. \A p \in F : p \in D \/ p[1] = i  BY <1>0
<1>2. D \in SUBSET F /\ F \in SUBSET E /\ \A p \in D : p[1] < i  BY <1>0
<1>3. /\ P \in SUBSET D
      /\ \A p, q \in P : p[1] = q[1] \/ p[2] = q[2] => p = q
      /\ \A p \in D : \/ p \in P
                      \/ \E q \in P : q[1] = p[1] /\ q[2] < p[2]
                      \/ \E q \in P : q[2] = p[2] /\ q[1] < p[1]
  BY DEF Greedy
<1>4. \A p \in E : p[1] = i => p \in F  BY <1>0
<1> HIDE DEF D, F
<1>5. CASE free = {}
  <2>1. Q = P  BY <1>5
  <2>2. ASSUME NEW p \in F, p \notin D PROVE \E q \in P : q[2] = p[2] /\ q[1] < p[1]
    <3>1. p \in E /\ p[1] = i /\ p = <<i, p[2]>>  BY <1>0, <1>1, <1>2, <2>2
    <3>2. p[2] \notin free  BY <1>5
    <3>3. PICK q \in P : q[2] = p[2]  BY <3>1, <3>2
    <3> QED  BY <1>2, <1>3, <3>1, <3>3
  <2> HIDE DEF Q
  <2>3. Greedy(F, Q)  BY <1>2, <1>3, <2>1, <2>2 DEF Greedy
  <2> QED  BY <2>3 DEF Q, F
<1>6. CASE free # {}
  <2> DEFINE l == Min(free)
             f == <<i, l>>
  <2>1. l \in free /\ \A j \in free : l <= j
    <3>1. free \in SUBSET Nat
      <4> SUFFICES ASSUME NEW j \in free PROVE j \in Nat  OBVIOUS
      <4>1. <<i, j>> \in E  OBVIOUS
      <4> QED  BY <4>1
    <3>2. PICK k \in free : \A j \in free : k <= j  BY <1>6, <3>1, HasLeast
    <3>3. Min(free) = k  BY <3>1, <3>2, LeastIs
    <3> QED  BY <3>2, <3>3
  <2>2. Q = P \cup {f}  BY <1>6
  <2>3. f \in E /\ \A p \in P : p[2] # l  BY <2>1
  <2>4. f[1] = i /\ f[2] = l  OBVIOUS
  <2> HIDE DEF l, f, Q
  <2>5. f \in F  BY <1>4, <2>3, <2>4
  <2>6. Q \in SUBSET F  BY <1>2, <1>3, <2>2, <2>5
  <2>7. ASSUME NEW p \in Q, NEW q \in Q, p[1] = q[1] \/ p[2] = q[2] PROVE p = q
    <3>1. \A r \in P : r[1] # f[1] /\ r[2] # f[2]  BY <1>0, <1>2, <1>3, <2>3, <2>4
    <3> QED  BY <1>3, <2>2, <2>7, <3>1
  <2>8. ASSUME NEW p \in F
        PROVE  \/ p \in Q
               \/ \E q \in Q : q[1] = p[1] /\ q[2] < p[2]
               \/ \E q \in Q : q[2] = p[2] /\ q[1] < p[1]
    <3>1. CASE p \in D  BY <1>3, <2>2, <3>1
    <3>2. CASE p \notin D
      <4>1. p \in E /\ p[1] = i /\ p = <<i, p[2]>> /\ p[2] \in Nat  BY <1>0, <1>1, <1>2, <3>2
      <4>2. CASE p[2] \in free
        <5>1. l <= p[2]  BY <2>1, <4>2
        <5>2. l \in Nat /\ p[2] \in Nat  BY <1>0, <2>3, <2>4, <4>1
        <5>3. CASE l = p[2]
          <6>1. p = f  BY <4>1, <5>3 DEF f
          <6> QED  BY <2>2, <6>1
        <5>4. CASE l < p[2]  BY <2>2, <2>4, <4>1, <5>4
        <5> QED  BY <5>1, <5>2, <5>3, <5>4
      <4>3. CASE p[2] \notin free
        <5>1. PICK q \in P : q[2] = p[2]  BY <4>1, <4>3
        <5> QED  BY <1>2, <1>3, <2>2, <4>1, <5>1
      <4> QED  BY <4>2, <4>3
    <3> QED  BY <3>1, <3>2
  <2>9. Greedy(F, Q)  BY <2>6, <2>7, <2>8 DEF Greedy
  <2> QED  BY <2>9 DEF Q, F
<1> QED  BY <1>5, <1>6

LEMMA MatchesAreGreedy ==
    ASSUME NEW S, NEW a \in Seq(S), NEW b \in Seq(S)
    PROVE  Greedy(Edges(a, b), Matches(a, b))
<1> DEFINE N == Len(a)
           D == 0..N
           E == Edges(a, b)
           X == SUBSET E
           Turn(i, P) == P \cup IF FreeFor(a, b, P, i) = {} THEN {}
                                ELSE {<<i, Min(FreeFor(a, b, P, i))>>}
           G == [i \in 1..N |-> [P \in X |-> Turn(i, P)]]
           T == CHOOSE f : f = [i \in D |-> IF i = 0 THEN {} ELSE Turn(i, f[i - 1])]
           Upto(i) == {p \in E : p[1] <= i}
<1>1. N \in Nat  OBVIOUS
<1>2. E \in SUBSET (Nat \X Nat) /\ \A p \in E : p[1] \in 1..N
  BY DEF Edges, LetterPairs
<1>3. {} \in X  OBVIOUS
<1>4. ASSUME NEW i \in 1..N, NEW P PROVE \A j : j \in FreeFor(a, b, P, i) <=> <<i, j>> \in E /\ \A p \in P : p[2] # j
  BY FreeForIs
<1>5. Matches(a, b) = T[N]
  BY DEF Matches
<1> HIDE DEF N, E
<1>6. ASSUME NEW i \in 1..N, NEW P \in X PROVE Turn(i, P) \in X
  <2> DEFINE free == FreeFor(a, b, P, i)
  <2>1. CASE free = {}  BY <2>1
  <2>2. CASE free # {}
    <3>1. \A j \in free : <<i, j>> \in E  BY <1>4
    <3>2. free \in SUBSET Nat
      <4> SUFFICES ASSUME NEW j \in free PROVE j \in Nat  OBVIOUS
      <4>1. <<i, j>> \in E  BY <3>1
      <4> QED  BY <1>2, <4>1
    <3> HIDE DEF free
    <3>3. PICK k \in free : \A j \in free : k <= j  BY <2>2, <3>2, HasLeast
    <3>4. Min(free) = k  BY <3>2, <3>3, LeastIs
    <3>5. <<i, Min(free)>> \in E  BY <3>1, <3>3, <3>4
    <3>6. Turn(i, P) = P \cup {<<i, Min(free)>>}  BY <2>2 DEF free
    <3> QED  BY <3>5, <3>6
  <2> QED  BY <2>1, <2>2
<1>7. ASSUME NEW i \in 1..N, NEW P \in X, Greedy(Upto(i - 1), P) PROVE Greedy(Upto(i), Turn(i, P))
  <2> DEFINE free == FreeFor(a, b, P, i)
  <2>1. \A j : j \in free <=> <<i, j>> \in E /\ \A p \in P : p[2] # j  BY <1>4
  <2>2. i \in Nat \ {0}  BY <1>1
  <2>3. Greedy({p \in E : p[1] <= i - 1}, P)  BY <1>7
  <2> HIDE DEF free
  <2>4. Greedy({p \in E : p[1] <= i}, P \cup IF free = {} THEN {} ELSE {<<i, Min(free)>>})
    BY <1>2, <2>1, <2>2, <2>3, GreedyGrows
  <2> QED  BY <2>4 DEF free
<1> HIDE DEF X, Turn
<1>8. G \in [1..N -> [X -> X]]  BY <1>6
<1>9. PICK f : Loops(N, X, {}, G, f)
  <2> DEFINE x == {}
  <2>1. x \in X  BY <1>3
  <2> HIDE DEF G, x
  <2>2. \E f : Loops(N, X, x, G, f)  BY <1>1, <1>8, <2>1, Loop
  <2> QED  BY <2>2 DEF x
<1>10. f \in [D -> X] /\ f[0] = {} /\ \A i \in 1..N : f[i] = G[i][f[i - 1]]
  BY <1>9 DEF Loops
<1>11. f = [i \in D |-> IF i = 0 THEN {} ELSE Turn(i, f[i - 1])]
  <2>1. ASSUME NEW i \in D PROVE f[i] = IF i = 0 THEN {} ELSE Turn(i, f[i - 1])
    <3>1. CASE i # 0
      <4>1. i \in 1..N /\ i - 1 \in D  BY <1>1, <3>1
      <4>2. f[i - 1] \in X  BY <1>10, <4>1
      <4> HIDE DEF D
      <4> QED  BY <1>10, <3>1, <4>1, <4>2
    <3> QED  BY <1>10, <3>1
  <2> HIDE DEF D
  <2> QED  BY <1>10, <2>1
<1>12. T = [i \in D |-> IF i = 0 THEN {} ELSE Turn(i, T[i - 1])]  BY <1>11
<1> HIDE DEF T
<1>13. T[0] = {}
  <2>1. 0 \in D  BY <1>1
  <2> HIDE DEF D
  <2> QED  BY <1>12, <2>1
<1>14. ASSUME NEW i \in 1..N PROVE T[i] = Turn(i, T[i - 1])
  <2>1. i \in D /\ i # 0  BY <1>1
  <2> HIDE DEF D
  <2> QED  BY <1>12, <2>1
<1> DEFINE Good == {i \in D : T[i] \in X /\ Greedy(Upto(i), T[i])}
<1>15. 0 \in Good
  <2>1. 0 \in D  BY <1>1
  <2>2. Upto(0) = {}
    <3> SUFFICES ASSUME NEW p \in E, p[1] <= 0 PROVE FALSE  OBVIOUS
    <3>1. p[1] \in 1..N  BY <1>2
    <3> QED  BY <1>1, <3>1
  <2>3. Greedy({}, {})  BY DEF Greedy
  <2> HIDE DEF Upto, D
  <2> QED  BY <1>3, <1>13, <2>1, <2>2, <2>3
<1>16. ASSUME NEW i \in 1..N, i - 1 \in Good PROVE i \in Good
  <2>1. i \in D  BY <1>1
  <2>2. T[i - 1] \in X /\ Greedy(Upto(i - 1), T[i - 1])  BY <1>16
  <2> HIDE DEF Upto, D
  <2>3. T[i] \in X  BY <1>6, <1>14, <2>2
  <2>4. Greedy(Upto(i), T[i])  BY <1>7, <1>14, <2>2
  <2> QED  BY <2>1, <2>3, <2>4
<1>17. \A i \in D : i \in Good
  <2> HIDE DEF Good
  <2> QED  BY <1>1, <1>15, <1>16, CountUp
<1>18. Greedy(Upto(N), T[N])
  <2>1. N \in D  BY <1>1
  <2>2. N \in Good  BY <1>17, <2>1
  <2> QED  BY <2>2
<1>19. Upto(N) = E
  <2>1. \A p \in E : p[1] <= N  BY <1>1, <1>2
  <2> QED  BY <2>1
<1>20. Greedy(E, T[N])
  <2> HIDE DEF Upto
  <2> QED  BY <1>18, <1>19
<1> QED  BY <1>5, <1>20 DEF E

Flipped(P) == {<<p[2], p[1]>> : p \in P}

LEMMA GreedyFlips ==
    ASSUME NEW E \in SUBSET (Nat \X Nat), NEW P, Greedy(E, P)
    PROVE  Greedy(Flipped(E), Flipped(P))
<1> DEFINE F == Flipped(E)
           Q == Flipped(P)
<1>0. \A p \in E : p[1] \in Nat /\ p[2] \in Nat /\ p = <<p[1], p[2]>>  OBVIOUS
<1>1. /\ P \in SUBSET E
      /\ \A p, q \in P : p[1] = q[1] \/ p[2] = q[2] => p = q
      /\ \A p \in E : \/ p \in P
                      \/ \E q \in P : q[1] = p[1] /\ q[2] < p[2]
                      \/ \E q \in P : q[2] = p[2] /\ q[1] < p[1]
  BY DEF Greedy
<1>2. \A p \in P : <<p[2], p[1]>> \in Q  BY DEF Flipped
<1>3. \A p \in Q : \E q \in P : p = <<q[2], q[1]>>  BY DEF Flipped
<1>4. \A p \in F : \E q \in E : p = <<q[2], q[1]>>  BY DEF Flipped
<1>5. \A p \in E : <<p[2], p[1]>> \in F  BY DEF Flipped
<1> HIDE DEF F, Q
<1>6. Q \in SUBSET F  BY <1>1, <1>3, <1>5
<1>7. ASSUME NEW p \in Q, NEW q \in Q, p[1] = q[1] \/ p[2] = q[2] PROVE p = q
  <2>1. PICK r \in P : p = <<r[2], r[1]>>  BY <1>3
  <2>2. PICK s \in P : q = <<s[2], s[1]>>  BY <1>3
  <2>3. r = s  BY <1>1, <1>7, <2>1, <2>2
  <2> QED  BY <2>1, <2>2, <2>3
<1>8. ASSUME NEW p \in F
      PROVE  \/ p \in Q
             \/ \E q \in Q : q[1] = p[1] /\ q[2] < p[2]
             \/ \E q \in Q : q[2] = p[2] /\ q[1] < p[1]
  <2>1. PICK r \in E : p = <<r[2], r[1]>>  BY <1>4
  <2>2. p[1] = r[2] /\ p[2] = r[1]  BY <2>1
  <2>3. CASE r \in P  BY <1>2, <2>1, <2>3
  <2>4. CASE \E s \in P : s[1] = r[1] /\ s[2] < r[2]
    <3>1. PICK s \in P : s[1] = r[1] /\ s[2] < r[2]  BY <2>4
    <3> DEFINE q == <<s[2], s[1]>>
    <3>2. q \in Q /\ q[2] = p[2] /\ q[1] < p[1]  BY <1>2, <2>2, <3>1
    <3> QED  BY <3>2
  <2>5. CASE \E s \in P : s[2] = r[2] /\ s[1] < r[1]
    <3>1. PICK s \in P : s[2] = r[2] /\ s[1] < r[1]  BY <2>5
    <3> DEFINE q == <<s[2], s[1]>>
    <3>2. q \in Q /\ q[1] = p[1] /\ q[2] < p[2]  BY <1>2, <2>2, <3>1
    <3> QED  BY <3>2
  <2> QED  BY <1>1, <2>3, <2>4, <2>5
<1>9. Greedy(F, Q)  BY <1>6, <1>7, <1>8 DEF Greedy
<1> QED  BY <1>9 DEF F, Q

\* b finds in a the pairs a finds in b.
LEMMA MatchesFlip ==
    ASSUME NEW S, NEW a \in Seq(S), NEW b \in Seq(S)
    PROVE  Matches(b, a) = Flipped(Matches(a, b))
<1>1. Edges(b, a) = Flipped(Edges(a, b))
  <2>1. Near(a, b) = Near(b, a)  BY NearIs
  <2>2. ASSUME NEW p \in Edges(b, a) PROVE p \in Flipped(Edges(a, b))
    <3> DEFINE q == <<p[2], p[1]>>
    <3>1. q \in Edges(a, b)  BY <2>1 DEF Edges, LetterPairs
    <3>2. p = <<q[2], q[1]>>  BY DEF Edges, LetterPairs
    <3> HIDE DEF q
    <3> QED  BY <3>1, <3>2 DEF Flipped
  <2>3. ASSUME NEW q \in Edges(a, b) PROVE <<q[2], q[1]>> \in Edges(b, a)
    BY <2>1 DEF Edges, LetterPairs
  <2>4. Flipped(Edges(a, b)) \subseteq Edges(b, a)  BY <2>3 DEF Flipped
  <2> QED  BY <2>2, <2>4
<1>2. Edges(a, b) \in SUBSET (Nat \X Nat) /\ Edges(b, a) \in SUBSET (Nat \X Nat)
  BY DEF Edges, LetterPairs
<1>3. Greedy(Edges(a, b), Matches(a, b)) /\ Greedy(Edges(b, a), Matches(b, a))
  BY MatchesAreGreedy
<1>4. Greedy(Edges(b, a), Flipped(Matches(a, b)))  BY <1>1, <1>2, <1>3, GreedyFlips
<1> QED  BY <1>2, <1>3, <1>4, OneGreedy

LEMMA Times == ASSUME NEW p \in Nat, NEW q \in Nat, NEW r \in Nat, q <= r PROVE p * q <= p * r
<1>1. PICK d \in Nat : r = q + d
  <2>1. r - q \in Nat /\ r = q + (r - q)  OBVIOUS
  <2> QED  BY <2>1
<1>2. p * r = p * q + p * d /\ p * q \in Nat /\ p * d \in Nat  BY <1>1
<1> QED  BY <1>2

\* Three thirds of the matched letters are no more than all.
LEMMA JaroShare ==
    ASSUME NEW x \in Nat, NEW y \in Nat, NEW m \in Nat, NEW t \in Nat, m <= x, m <= y, t <= m
    PROVE  /\ 2 * m * m * (x + y) + x * y * (2 * m - t) \in Nat
           /\ 6 * m * x * y \in Nat
           /\ 2 * m * m * (x + y) + x * y * (2 * m - t) <= 6 * m * x * y
<1> DEFINE u == m * x
           v == m * y
           w == x * y
           c == w * m
           s == 2 * m - t
<1>1. u \in Nat /\ v \in Nat /\ w \in Nat /\ c \in Nat /\ s \in Nat /\ 2 * m \in Nat /\ s <= 2 * m
  OBVIOUS
<1>2. u * m <= u * y /\ v * m <= v * x /\ w * s <= w * (2 * m)
  <2>1. u * m <= u * y
    <3> HIDE DEF u
    <3> QED  BY <1>1, Times
  <2>2. v * m <= v * x
    <3> HIDE DEF v
    <3> QED  BY <1>1, Times
  <2>3. w * s <= w * (2 * m)
    <3> HIDE DEF w, s
    <3> QED  BY <1>1, Times
  <2> QED  BY <2>1, <2>2, <2>3
<1>3. u * y = c /\ v * x = c /\ w * (2 * m) = 2 * c  OBVIOUS
<1>4. 2 * m * m * (x + y) = 2 * (u * m) + 2 * (v * m)  OBVIOUS
<1>5. x * y * (2 * m - t) = w * s /\ 6 * m * x * y = 6 * c  OBVIOUS
<1>6. u * m \in Nat /\ v * m \in Nat /\ w * s \in Nat
  <2> HIDE DEF u, v, w, s
  <2> QED  BY <1>1
<1> DEFINE i == u * m
           j == v * m
           k == w * s
<1>7. /\ i \in Nat /\ j \in Nat /\ k \in Nat /\ c \in Nat
      /\ i <= c /\ j <= c /\ k <= 2 * c
  <2> HIDE DEF c
  <2> QED  BY <1>1, <1>2, <1>3, <1>6
<1>8. 2 * m * m * (x + y) + x * y * (2 * m - t) = (2 * i + 2 * j) + k  BY <1>4, <1>5
<1> HIDE DEF i, j, k, c
<1> QED  BY <1>5, <1>7, <1>8

LEMMA FlippedIs ==
    ASSUME NEW P \in SUBSET (Nat \X Nat)
    PROVE  /\ {p[1] : p \in Flipped(P)} = {p[2] : p \in P}
           /\ {p[2] : p \in Flipped(P)} = {p[1] : p \in P}
           /\ IsFiniteSet(P) => IsFiniteSet(Flipped(P)) /\ Cardinality(Flipped(P)) = Cardinality(P)
<1>1. \A p \in P : /\ p = <<p[1], p[2]>> /\ <<p[2], p[1]>> \in Flipped(P)
                   /\ <<p[2], p[1]>>[1] = p[2] /\ <<p[2], p[1]>>[2] = p[1]
  BY DEF Flipped
<1>2. \A q \in Flipped(P) : \E p \in P : q = <<p[2], p[1]>> /\ q[1] = p[2] /\ q[2] = p[1]
  BY DEF Flipped
<1>3. \A p \in P : \E q \in Flipped(P) : q[1] = p[2] /\ q[2] = p[1]
  <2> SUFFICES ASSUME NEW p \in P PROVE \E q \in Flipped(P) : q[1] = p[2] /\ q[2] = p[1]  OBVIOUS
  <2> DEFINE q == <<p[2], p[1]>>
  <2>1. q \in Flipped(P) /\ q[1] = p[2] /\ q[2] = p[1]  BY <1>1
  <2> QED  BY <2>1
<1>4. \A q \in Flipped(P) : \E p \in P : q[1] = p[2] /\ q[2] = p[1]  BY <1>2
<1>5. {p[1] : p \in Flipped(P)} = {p[2] : p \in P}
  <2>1. ASSUME NEW q \in Flipped(P) PROVE q[1] \in {p[2] : p \in P}  BY <1>4
  <2>2. ASSUME NEW p \in P PROVE p[2] \in {q[1] : q \in Flipped(P)}
    <3>1. PICK q \in Flipped(P) : q[1] = p[2]  BY <1>3
    <3> QED  BY <3>1
  <2> QED  BY <2>1, <2>2
<1>6. {p[2] : p \in Flipped(P)} = {p[1] : p \in P}
  <2>1. ASSUME NEW q \in Flipped(P) PROVE q[2] \in {p[1] : p \in P}  BY <1>4
  <2>2. ASSUME NEW p \in P PROVE p[1] \in {q[2] : q \in Flipped(P)}
    <3>1. PICK q \in Flipped(P) : q[2] = p[1]  BY <1>3
    <3> QED  BY <3>1
  <2> QED  BY <2>1, <2>2
<1>7. ASSUME IsFiniteSet(P)
      PROVE  IsFiniteSet(Flipped(P)) /\ Cardinality(Flipped(P)) = Cardinality(P)
  <2> DEFINE Q == Flipped(P)
             f == [p \in P |-> <<p[2], p[1]>>]
  <2>1. f \in [P -> Q]  BY <1>1
  <2>2. ASSUME NEW p \in P, NEW q \in P, f[p] = f[q] PROVE p = q  BY <1>1, <2>2
  <2>3. \A q \in Q : \E p \in P : f[p] = q  BY <1>2
  <2> HIDE DEF f, Q
  <2>4. f \in Bijection(P, Q)
    BY <2>1, <2>2, <2>3 DEF Bijection, Injection, Surjection, IsInjective
  <2>5. ExistsBijection(P, Q)  BY <2>4 DEF ExistsBijection
  <2>6. IsFiniteSet(Q) /\ Cardinality(Q) = Cardinality(P)  BY <1>7, <2>5, FS_Bijection
  <2> QED  BY <2>6 DEF Q
<1> QED  BY <1>5, <1>6, <1>7

\* No more letters are matched than either name has.
LEMMA MatchesFit ==
    ASSUME NEW S, NEW a \in Seq(S), NEW b \in Seq(S)
    PROVE  /\ Matches(a, b) \in SUBSET (Nat \X Nat)
           /\ IsFiniteSet(Matches(a, b))
           /\ Cardinality(Matches(a, b)) \in Nat
           /\ Cardinality(Matches(a, b)) <= Len(a)
           /\ Cardinality(Matches(a, b)) <= Len(b)
<1> DEFINE P == Matches(a, b)
           x == Len(a)
           y == Len(b)
           f == [p \in P |-> p[1]]
           g == [p \in P |-> p[2]]
<1>1. Greedy(Edges(a, b), P)  BY MatchesAreGreedy
<1>2. /\ \A p \in P : p[1] \in 1..x /\ p[2] \in 1..y /\ p \in Nat \X Nat
      /\ \A p, q \in P : p[1] = q[1] \/ p[2] = q[2] => p = q
  <2>1. \A p \in Edges(a, b) : p[1] \in 1..x /\ p[2] \in 1..y /\ p \in Nat \X Nat
    BY DEF Edges, LetterPairs
  <2> HIDE DEF P, x, y
  <2> QED  BY <1>1, <2>1 DEF Greedy
<1>3. x \in Nat /\ y \in Nat  OBVIOUS
<1>4. /\ IsFiniteSet(1..x) /\ Cardinality(1..x) = x
      /\ IsFiniteSet(1..y) /\ Cardinality(1..y) = y
  <2> HIDE DEF x, y
  <2>1. \A n \in Nat : IsFiniteSet(1..n) /\ Cardinality(1..n) = n
    <3> SUFFICES ASSUME NEW n \in Nat PROVE IsFiniteSet(1..n) /\ Cardinality(1..n) = n  OBVIOUS
    <3>1. 1 \in Int /\ n \in Int  OBVIOUS
    <3>2. IsFiniteSet(1..n) /\ Cardinality(1..n) = IF 1 > n THEN 0 ELSE n - 1 + 1
      BY <3>1, FS_Interval
    <3> QED  BY <3>2
  <2> QED  BY <1>3, <2>1
<1> HIDE DEF P, x, y
<1>5. f \in Injection(P, 1..x) /\ g \in Injection(P, 1..y)
  <2>1. f \in [P -> 1..x] /\ g \in [P -> 1..y]  BY <1>2
  <2>2. ASSUME NEW p \in P, NEW q \in P PROVE (f[p] = f[q] => p = q) /\ (g[p] = g[q] => p = q)
    BY <1>2
  <2> HIDE DEF f, g
  <2> QED  BY <2>1, <2>2 DEF Injection, IsInjective
<1> HIDE DEF f, g
<1>6. IsFiniteSet(P) /\ Cardinality(P) <= Cardinality(1..x)  BY <1>4, <1>5, FS_Injection
<1>7. Cardinality(P) <= Cardinality(1..y)  BY <1>4, <1>5, FS_Injection
<1>8. Cardinality(P) \in Nat  BY <1>6, FS_CardinalityType
<1>9. P \in SUBSET (Nat \X Nat)  BY <1>2
<1> QED  BY <1>4, <1>6, <1>7, <1>8, <1>9 DEF P, x, y

\* The matched letters that are not in the same order.
OutOfOrder(a, b, P) ==
    {k \in 1..Cardinality(P) : a[Ascending({p[1] : p \in P})[k]] # b[Ascending({p[2] : p \in P})[k]]}

JaroOf(a, b, m, t) ==
    IF a = b THEN One
    ELSE IF m = 0 THEN Zero
    ELSE Ratio(2 * m * m * (Len(a) + Len(b)) + Len(a) * Len(b) * (2 * m - t),
               6 * m * Len(a) * Len(b))

LEMMA JaroIs ==
    ASSUME NEW a, NEW b
    PROVE  Jaro(a, b) = JaroOf(a, b, Cardinality(Matches(a, b)),
                               Cardinality(OutOfOrder(a, b, Matches(a, b))))
BY DEF Jaro, JaroOf, OutOfOrder

LEMMA JaroFair ==
    ASSUME NEW S, NEW a \in Seq(S), NEW b \in Seq(S)
    PROVE  Fair(Jaro(a, b), Jaro(b, a), a, b)
<1> DEFINE P == Matches(a, b)
           Q == Matches(b, a)
           m == Cardinality(P)
           t == Cardinality(OutOfOrder(a, b, P))
<1>1. /\ P \in SUBSET (Nat \X Nat) /\ IsFiniteSet(P)
      /\ m \in Nat /\ m <= Len(a) /\ m <= Len(b)
  BY MatchesFit
<1>2. Q = Flipped(P)  BY MatchesFlip
<1>3. Jaro(a, b) = JaroOf(a, b, m, t)  BY JaroIs
<1>4. Jaro(b, a) = JaroOf(b, a, Cardinality(Q), Cardinality(OutOfOrder(b, a, Q)))  BY JaroIs
<1> HIDE DEF P, Q
<1>5. Cardinality(Q) = m  BY <1>1, <1>2, FlippedIs
<1>6. OutOfOrder(b, a, Q) = OutOfOrder(a, b, P)
  <2> DEFINE A == {p[1] : p \in P}
             B == {p[2] : p \in P}
             C == {p[1] : p \in Q}
             D == {p[2] : p \in Q}
  <2>1. C = B /\ D = A  BY <1>1, <1>2, FlippedIs
  <2>2. OutOfOrder(a, b, P) = {k \in 1..Cardinality(P) : a[Ascending(A)[k]] # b[Ascending(B)[k]]}
    BY DEF OutOfOrder
  <2>3. OutOfOrder(b, a, Q) = {k \in 1..Cardinality(Q) : b[Ascending(C)[k]] # a[Ascending(D)[k]]}
    BY DEF OutOfOrder
  <2> HIDE DEF A, B, C, D
  <2>4. OutOfOrder(b, a, Q) = {k \in 1..Cardinality(P) : b[Ascending(B)[k]] # a[Ascending(A)[k]]}
    BY <1>5, <2>1, <2>3
  <2> QED  BY <2>2, <2>4
<1>7. t \in Nat /\ t <= m
  <2>1. OutOfOrder(a, b, P) \in SUBSET (1..m)  BY DEF OutOfOrder
  <2>2. IsFiniteSet(1..m) /\ Cardinality(1..m) = m
    <3> HIDE DEF m
    <3>1. 1 \in Int /\ m \in Int  BY <1>1
    <3>2. IsFiniteSet(1..m) /\ Cardinality(1..m) = IF 1 > m THEN 0 ELSE m - 1 + 1
      BY <3>1, FS_Interval
    <3> QED  BY <1>1, <3>2
  <2>3. IsFiniteSet(OutOfOrder(a, b, P)) /\ t <= Cardinality(1..m)  BY <2>1, <2>2, FS_Subset
  <2> QED  BY <2>2, <2>3, FS_CardinalityType
<1>8. Jaro(b, a) = JaroOf(b, a, m, t)  BY <1>4, <1>5, <1>6
<1> HIDE DEF m, t
<1> DEFINE x == Len(a)
           y == Len(b)
           n == 2 * m * m * (x + y) + x * y * (2 * m - t)
           d == 6 * m * x * y
<1>9. x \in Nat /\ y \in Nat  OBVIOUS
<1>10. JaroOf(a, b, m, t) = IF a = b THEN One ELSE IF m = 0 THEN Zero ELSE Ratio(n, d)
  BY DEF JaroOf
<1>11. JaroOf(b, a, m, t) = IF b = a THEN One ELSE IF m = 0 THEN Zero ELSE Ratio(n, d)
  <2>1. /\ 2 * m * m * (y + x) + y * x * (2 * m - t) = n
        /\ 6 * m * y * x = d
    <3> HIDE DEF x, y
    <3> QED  BY <1>1, <1>7, <1>9
  <2> QED  BY <2>1 DEF JaroOf
<1>12. n \in Nat /\ d \in Nat /\ n <= d
  <2>1. m <= x /\ m <= y  BY <1>1
  <2> HIDE DEF x, y
  <2> QED  BY <1>1, <1>7, <1>9, <2>1, JaroShare
<1> HIDE DEF n, d, x, y
<1>13. Jaro(a, b) = Jaro(b, a)  BY <1>3, <1>8, <1>10, <1>11
<1>14. IsShare(Jaro(a, b)) /\ (a = b => Same(Jaro(a, b), One))
  BY <1>3, <1>10, <1>12, RatioIs, EndsAre
<1> QED  BY <1>13, <1>14 DEF Fair

\* What JaroWinkler adds is at most what is missing.
LEMMA Boosted ==
    ASSUME NEW j, IsShare(j), NEW p \in 0..4
    PROVE  IsShare(Ratio(10 * j.of + p * (j.out - j.of), 10 * j.out))
<1> DEFINE u == j.of
           w == j.out
           d == w - u
           n == 10 * u + p * d
<1>1. u \in Nat /\ w \in Nat /\ u <= w  BY DEF IsShare
<1> HIDE DEF u, w
<1>2. d \in Nat /\ w = u + d  BY <1>1
<1> HIDE DEF d
<1>3. p * d \in Nat /\ p * d <= 10 * d
  <2>1. p = 0 \/ p = 1 \/ p = 2 \/ p = 3 \/ p = 4  OBVIOUS
  <2> QED  BY <1>2, <2>1
<1>4. n \in Nat /\ 10 * w \in Nat /\ n <= 10 * w
  <2> DEFINE e == p * d
  <2>1. e \in Nat /\ e <= 10 * d  BY <1>3
  <2> HIDE DEF e
  <2>2. 10 * u + e \in Nat /\ 10 * u + e <= 10 * w  BY <1>1, <1>2, <2>1
  <2> QED  BY <1>1, <2>2 DEF e
<1> HIDE DEF n
<1>5. IsShare(Ratio(n, 10 * w))  BY <1>4, RatioIs
<1> QED  BY <1>5 DEF n, d, u, w

LEMMA JaroWinklerFair ==
    ASSUME NEW S, NEW a \in Seq(S), NEW b \in Seq(S)
    PROVE  Fair(JaroWinkler(a, b), JaroWinkler(b, a), a, b)
<1> DEFINE j == Jaro(a, b)
           p == Lesser(4, CommonPrefix(a, b))
<1>1. IsShare(j) /\ j = Jaro(b, a)  BY JaroFair DEF Fair
<1>2. p \in 0..4 /\ p = Lesser(4, CommonPrefix(b, a))  BY CommonPrefixIs DEF Lesser
<1>3. a = b => j = One  BY DEF Jaro
<1>4. /\ JaroWinkler(a, b) = Ratio(10 * j.of + p * (j.out - j.of), 10 * j.out)
      /\ JaroWinkler(b, a) = Ratio(10 * j.of + p * (j.out - j.of), 10 * j.out)
  BY <1>1, <1>2 DEF JaroWinkler
<1> HIDE DEF j, p
<1>5. IsShare(JaroWinkler(a, b))  BY <1>1, <1>2, <1>4, Boosted
<1>6. ASSUME a = b PROVE Same(JaroWinkler(a, b), One)
  <2>1. j.of = 1 /\ j.out = 1  BY <1>3, <1>6 DEF One, Ratio
  <2>2. 10 * j.of + p * (j.out - j.of) = 10 /\ 10 * j.out = 10  BY <1>2, <2>1
  <2>3. JaroWinkler(a, b) = Ratio(10, 10)  BY <1>4, <2>2
  <2> QED  BY <2>3 DEF Same, One, Ratio
<1> QED  BY <1>4, <1>5, <1>6 DEF Fair
--------------------------------------------------------------------------------
(***************************************************************************)
(* Every measure of the two names.                                         *)
(***************************************************************************)
\* Each of the eleven measures of extractTrademarkFeatures is a share of one, the same whichever
\* name is watched, and one for a name and itself.
THEOREM SimilaritiesFair ==
    ASSUME NEW a \in Seq(Letters), NEW b \in Seq(Letters)
    PROVE  /\ DOMAIN Similarities(a, b) = 1..11
           /\ \A k \in 1..11 : Fair(Similarities(a, b)[k], Similarities(b, a)[k], a, b)
<1>1. DOMAIN Similarities(a, b) = 1..11  BY DEF Similarities
<1>2. /\ Similarities(a, b)[1] = Levenshtein(a, b)
      /\ Similarities(a, b)[2] = Damerau(a, b)
      /\ Similarities(a, b)[3] = Jaro(a, b)
      /\ Similarities(a, b)[4] = JaroWinkler(a, b)
      /\ Similarities(a, b)[5] = Trigram(a, b)
      /\ Similarities(a, b)[6] = WeightedEdit(a, b)
      /\ Similarities(a, b)[7] = SubstringRatio(a, b)
      /\ Similarities(a, b)[8] = PrefixRatio(a, b)
      /\ Similarities(a, b)[9] = SuffixRatio(a, b)
      /\ Similarities(a, b)[10] = LengthRatio(a, b)
      /\ Similarities(a, b)[11] = Visual(a, b)
  BY DEF Similarities
<1>3. /\ Similarities(b, a)[1] = Levenshtein(b, a)
      /\ Similarities(b, a)[2] = Damerau(b, a)
      /\ Similarities(b, a)[3] = Jaro(b, a)
      /\ Similarities(b, a)[4] = JaroWinkler(b, a)
      /\ Similarities(b, a)[5] = Trigram(b, a)
      /\ Similarities(b, a)[6] = WeightedEdit(b, a)
      /\ Similarities(b, a)[7] = SubstringRatio(b, a)
      /\ Similarities(b, a)[8] = PrefixRatio(b, a)
      /\ Similarities(b, a)[9] = SuffixRatio(b, a)
      /\ Similarities(b, a)[10] = LengthRatio(b, a)
      /\ Similarities(b, a)[11] = Visual(b, a)
  BY DEF Similarities
<1>4. /\ Fair(Levenshtein(a, b), Levenshtein(b, a), a, b)
      /\ Fair(Damerau(a, b), Damerau(b, a), a, b)
  BY EditMeasuresFair
<1>5. Fair(Jaro(a, b), Jaro(b, a), a, b)  BY JaroFair
<1>6. Fair(JaroWinkler(a, b), JaroWinkler(b, a), a, b)  BY JaroWinklerFair
<1>7. Fair(Trigram(a, b), Trigram(b, a), a, b)  BY TrigramFair
<1>8. Fair(WeightedEdit(a, b), WeightedEdit(b, a), a, b)  BY WeightedEditFair
<1>9. /\ Fair(PrefixRatio(a, b), PrefixRatio(b, a), a, b)
      /\ Fair(SuffixRatio(a, b), SuffixRatio(b, a), a, b)
      /\ Fair(SubstringRatio(a, b), SubstringRatio(b, a), a, b)
  BY EndMeasuresFair
<1>10. /\ Fair(LengthRatio(a, b), LengthRatio(b, a), a, b)
       /\ Fair(Visual(a, b), Visual(b, a), a, b)
  BY LengthMeasuresFair
<1>11. ASSUME NEW k \in 1..11 PROVE Fair(Similarities(a, b)[k], Similarities(b, a)[k], a, b)
  <2>1. CASE k = 1  BY <1>2, <1>3, <1>4, <2>1
  <2>2. CASE k = 2  BY <1>2, <1>3, <1>4, <2>2
  <2>3. CASE k = 3  BY <1>2, <1>3, <1>5, <2>3
  <2>4. CASE k = 4  BY <1>2, <1>3, <1>6, <2>4
  <2>5. CASE k = 5  BY <1>2, <1>3, <1>7, <2>5
  <2>6. CASE k = 6  BY <1>2, <1>3, <1>8, <2>6
  <2>7. CASE k = 7  BY <1>2, <1>3, <1>9, <2>7
  <2>8. CASE k = 8  BY <1>2, <1>3, <1>9, <2>8
  <2>9. CASE k = 9  BY <1>2, <1>3, <1>9, <2>9
  <2>10. CASE k = 10  BY <1>2, <1>3, <1>10, <2>10
  <2>11. CASE k = 11  BY <1>2, <1>3, <1>10, <2>11
  <2> QED  BY <2>1, <2>2, <2>3, <2>4, <2>5, <2>6, <2>7, <2>8, <2>9, <2>10, <2>11
<1> QED  BY <1>1, <1>11

LEMMA FairIs ==
    ASSUME NEW f, NEW g, NEW a, NEW b, Fair(f, g, a, b)
    PROVE  /\ f.of \in 0..f.out
           /\ Same(f, g)
           /\ a = b /\ a # <<>> => Same(f, One)
BY DEF Fair, IsShare, Same

\* Whatever names are compared, the tables hold what a reader would define: the fewest edits
\* (levenshteinDistance), turned letters as one edit (damerauLevenshteinDistance), measures that
\* are shares and the same both ways around (extractTrademarkFeatures), and the longest shared
\* run (longestCommonSubstringRatio).
THEOREM NamesMeasured ==
    ASSUME left \in Names, right \in Names
    PROVE  MeasuresAgree
<1>1. left \in Seq(Letters) /\ right \in Seq(Letters)  BY NamesAreWords
<1>2. FewestEdits  BY FewestEditsAre DEF FewestEdits
<1>3. SwapsOnlyHelp  BY <1>1, SwapsHelp DEF SwapsOnlyHelp
<1>4. SharesAndSymmetric
  <2>1. \A k \in 1..11 : Fair(Similarities(left, right)[k], Similarities(right, left)[k], left, right)
    BY <1>1, SimilaritiesFair
  <2>2. DOMAIN Similarities(left, right) = 1..11  BY <1>1, SimilaritiesFair
  <2>3. ASSUME NEW k \in 1..11
        PROVE  /\ Similarities(left, right)[k].of \in 0..Similarities(left, right)[k].out
               /\ Same(Similarities(left, right)[k], Similarities(right, left)[k])
               /\ left = right /\ left # <<>> => Same(Similarities(left, right)[k], One)
    BY <2>1, FairIs
  <2> QED  BY <2>2, <2>3 DEF SharesAndSymmetric
<1>5. SharedRun
  <2>1. LongestCommonSubstring(left, right) = Max(SharedRuns(left, right))  BY <1>1, SharedRunIs
  <2> QED  BY <2>1 DEF SharedRun, SharedRuns
<1> QED  BY <1>2, <1>3, <1>4, <1>5 DEF MeasuresAgree

\* The names compared are names: the watched one changes by single edits, and the empty name is
\* one of them.
LEMMA NamesCompared ==
    /\ TextInit => left \in Names /\ right \in Names
    /\ (left \in Names /\ right \in Names) /\ TextNext => (left' \in Names /\ right' \in Names)
<1>1. ASSUME TextInit PROVE left \in Names /\ right \in Names
  <2>1. <<>> \in Seq(Letters) /\ Len(<<>>) <= MaxLetters  BY TextAssumption
  <2> QED  BY <1>1, <2>1, NamesAreWords DEF TextInit
<1>2. ASSUME left \in Names, right \in Names, TextNext PROVE left' \in Names /\ right' \in Names
  BY <1>2 DEF TextNext, Edits
<1> QED  BY <1>1, <1>2
================================================================================
