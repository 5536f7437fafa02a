----------------------------- MODULE NatLemmas -----------------------------
(***************************************************************************)
(* Facts about natural numbers and finite sets that the proofs of several  *)
(* components rest on: least and greatest elements, induction on sets of   *)
(* numbers, the existence of the function that repeats a step, ranks in an *)
(* ordered set, and cardinalities of unions.                               *)
(***************************************************************************)
EXTENDS Integers, Sequences, WellFoundedInduction, FiniteSetTheorems, TLAPS

\* A non-empty set of natural numbers has a least element.
LEMMA LeastNat ==
  ASSUME NEW T, T \subseteq Nat, T # {}
  PROVE  \E x \in T : \A y \in T : x <= y
<1> DEFINE Less == {ss \in Nat \X Nat : ss[1] < ss[2]}
<1>1. IsWellFoundedOn(Less, Nat)
  BY NatLessThanWellFounded, Zenon DEF OpToRel
<1>2. PICK x \in T : \A y \in T : ~ (<<y, x>> \in Less)
  <2> HIDE DEF Less
  <2> QED BY <1>1, WFMin, Zenon
<1>3. ASSUME NEW y \in T PROVE x <= y
  <2>1. x \in Nat /\ y \in Nat OBVIOUS
  <2>2. y < x => <<y, x>> \in Less
    <3>1. <<y, x>> \in Nat \X Nat BY <2>1
    <3>2. <<y, x>>[1] = y /\ <<y, x>>[2] = x OBVIOUS
    <3> QED BY <3>1, <3>2, Zenon
  <2>3. ~(y < x) BY <1>2, <2>2
  <2> QED BY <2>1, <2>3
<1> QED BY <1>3

\* Induction for a set of numbers: it holds the numbers up to n when it holds
\* 0 and the successor of each of its elements below n.
LEMMA UpTo ==
  ASSUME NEW n \in Nat, NEW T,
         0 \in T, \A k \in 0 .. n - 1 : k \in T => k + 1 \in T
  PROVE  0 .. n \subseteq T
<1> DEFINE Bad == {k \in 0 .. n : k \notin T}
<1>1. SUFFICES ASSUME Bad # {} PROVE FALSE
  OBVIOUS
<1>2. Bad \subseteq Nat OBVIOUS
<1>3. PICK x \in Bad : \A y \in Bad : x <= y
  <2> HIDE DEF Bad
  <2> QED BY <1>1, <1>2, LeastNat
<1>4. x # 0 OBVIOUS
<1>5. x - 1 \in 0 .. n - 1 /\ x - 1 \notin Bad BY <1>3, <1>4
<1>6. x - 1 \in T BY <1>5
<1> QED BY <1>4, <1>5, <1>6

\* g lists what n repetitions of the step f make of base.
Iterates(g, n, base, f) == g[0] = base /\ \A k \in 1 .. n : g[k] = f[<<g[k - 1], k>>]

\* A step f repeated n times from base: the recursive definitions over the
\* positions of a sequence denote such a function.
LEMMA Iterate ==
  ASSUME NEW S, NEW n \in Nat, NEW base \in S, NEW f \in [S \X (1 .. n) -> S]
  PROVE  \E g \in [0 .. n -> S] : Iterates(g, n, base, f)
<1> DEFINE Upto(g, m) == g[0] = base /\ \A k \in 1 .. m : g[k] = f[<<g[k - 1], k>>]
           T == {m \in 0 .. n : \E g \in [0 .. n -> S] : Upto(g, m)}
<1>1. 0 \in T
  <2>1. Upto([k \in 0 .. n |-> base], 0) OBVIOUS
  <2>2. [k \in 0 .. n |-> base] \in [0 .. n -> S] /\ 0 \in 0 .. n OBVIOUS
  <2> HIDE DEF Upto
  <2> QED BY <2>1, <2>2
<1>2. ASSUME NEW m \in 0 .. n - 1, m \in T PROVE m + 1 \in T
  <2>1. PICK g \in [0 .. n -> S] : Upto(g, m) BY <1>2
  <2> DEFINE h == [k \in 0 .. n |-> IF k = m + 1 THEN f[<<g[m], m + 1>>] ELSE g[k]]
  <2>2. f[<<g[m], m + 1>>] \in S BY m + 1 \in 1 .. n
  <2>3. h \in [0 .. n -> S] BY <2>2
  <2>4. Upto(h, m + 1)
    <3>1. h[m + 1] = f[<<g[m], m + 1>>] /\ \A k \in 0 .. m : h[k] = g[k] OBVIOUS
    <3> HIDE DEF h
    <3>2. h[0] = base BY <2>1, <3>1
    <3>3. ASSUME NEW k \in 1 .. m + 1 PROVE h[k] = f[<<h[k - 1], k>>]
      <4>1. CASE k \in 1 .. m
        <5>1. k \in 0 .. m /\ k - 1 \in 0 .. m BY <4>1
        <5>2. h[k] = g[k] /\ h[k - 1] = g[k - 1] BY <3>1, <5>1
        <5> QED BY <2>1, <4>1, <5>2
      <4>2. CASE k = m + 1
        <5>1. k - 1 = m /\ m \in 0 .. m BY <4>2
        <5>2. h[k - 1] = g[m] BY <3>1, <5>1
        <5>3. h[k] = f[<<g[m], k>>] BY <3>1, <4>2
        <5> QED BY <5>2, <5>3
      <4> QED BY <4>1, <4>2
    <3> QED BY <3>2, <3>3
  <2>5. m + 1 \in 0 .. n OBVIOUS
  <2> HIDE DEF h, Upto
  <2> QED BY <2>3, <2>4, <2>5
<1>3. 0 .. n \subseteq T
  <2> HIDE DEF T
  <2> QED BY <1>1, <1>2, UpTo
<1>4. n \in T
  <2> HIDE DEF T
  <2> QED BY <1>3
<1> HIDE DEF Upto
<1>5. \E g \in [0 .. n -> S] : Upto(g, n) BY <1>4
<1>6. \A g : Upto(g, n) <=> Iterates(g, n, base, f) BY DEF Upto, Iterates
<1> QED BY <1>5, <1>6

\* g lists what the repetitions of the step f make of base.
Repeats(g, base, f) == g[0] = base /\ \A k \in Nat : g[k + 1] = f[g[k]]

\* A step f repeated from base without end: the recursive definitions over the
\* natural numbers denote such a function.
LEMMA IterateNat ==
  ASSUME NEW S, NEW base \in S, NEW f \in [S -> S]
  PROVE  \E g \in [Nat -> S] : Repeats(g, base, f)
<1> DEFINE Upto(g, m) == g \in [0 .. m -> S] /\ g[0] = base /\ \A k \in 1 .. m : g[k] = f[g[k - 1]]
           r == [m \in Nat |-> CHOOSE g : Upto(g, m)]
           G == [m \in Nat |-> r[m][m]]
<1>1. ASSUME NEW m \in Nat PROVE \E g : Upto(g, m)
  <2>1. PICK F : F = [x \in S \X (1 .. m) |-> f[x[1]]] OBVIOUS
  <2>2. F \in [S \X (1 .. m) -> S] BY <2>1
  <2>3. PICK g \in [0 .. m -> S] : Iterates(g, m, base, F) BY <2>2, Iterate
  <2>4. ASSUME NEW k \in 1 .. m PROVE g[k] = f[g[k - 1]]
    <3>1. k - 1 \in 0 .. m OBVIOUS
    <3>2. g[k - 1] \in S BY <3>1
    <3>3. g[k] = F[<<g[k - 1], k>>] BY <2>3 DEF Iterates
    <3> QED BY <2>1, <3>2, <3>3
  <2>5. g[0] = base BY <2>3 DEF Iterates
  <2> QED BY <2>4, <2>5
<1>2. ASSUME NEW m \in Nat PROVE Upto(r[m], m)
  <2>1. r[m] = CHOOSE g : Upto(g, m) OBVIOUS
  <2> HIDE DEF Upto, r
  <2> QED BY <1>1, <2>1
<1>3. ASSUME NEW m \in Nat PROVE r[m + 1][m] = r[m][m]
  <2>1. PICK g : g = r[m] OBVIOUS
  <2>2. PICK h : h = r[m + 1] OBVIOUS
  <2>3. Upto(g, m) /\ Upto(h, m + 1)
    <3> HIDE DEF Upto, r
    <3> QED BY <1>2, <2>1, <2>2
  <2> DEFINE T == {k \in 0 .. m : g[k] = h[k]}
  <2>4. 0 \in T BY <2>3
  <2>5. ASSUME NEW k \in 0 .. m - 1, k \in T PROVE k + 1 \in T
    <3>1. k + 1 \in 1 .. m /\ k + 1 \in 1 .. m + 1 /\ (k + 1) - 1 = k OBVIOUS
    <3>2. g[k + 1] = f[g[k]] /\ h[k + 1] = f[h[k]] BY <2>3, <3>1
    <3> QED BY <2>5, <3>1, <3>2
  <2>6. m \in T
    <3> HIDE DEF T
    <3>1. 0 .. m \subseteq T BY <2>4, <2>5, UpTo
    <3> QED BY <3>1
  <2> QED BY <2>1, <2>2, <2>6
<1>4. \A m \in Nat : r[m] \in [0 .. m -> S] /\ r[m][0] = base BY <1>2
<1>5. ASSUME NEW m \in Nat PROVE r[m + 1][m + 1] = f[r[m + 1][m]]
  <2>1. Upto(r[m + 1], m + 1)
    <3> HIDE DEF Upto, r
    <3> QED BY <1>2
  <2>2. m + 1 \in 1 .. m + 1 /\ (m + 1) - 1 = m OBVIOUS
  <2> HIDE DEF r
  <2> QED BY <2>1, <2>2
<1> HIDE DEF r
<1>6. G \in [Nat -> S] BY <1>4
<1>7. G[0] = base BY <1>4
<1>8. ASSUME NEW k \in Nat PROVE G[k + 1] = f[G[k]]
  <2>1. G[k + 1] = r[k + 1][k + 1] /\ G[k] = r[k][k] OBVIOUS
  <2> HIDE DEF G
  <2> QED BY <1>3, <1>5, <2>1
<1> HIDE DEF G
<1>9. Repeats(G, base, f) BY <1>7, <1>8 DEF Repeats
<1> QED BY <1>6, <1>9

\* A function with natural values on a finite set has a greatest value.
LEMMA Greatest ==
  ASSUME NEW X, IsFiniteSet(X), X # {}, NEW f \in [X -> Nat]
  PROVE  \E y \in X : \A x \in X : f[x] <= f[y]
<1> DEFINE D(y) == {x \in X : f[x] <= f[y]}
           N == Cardinality(X)
           T == {N - Cardinality(D(y)) : y \in X}
<1>1. \A y \in X : IsFiniteSet(D(y)) /\ Cardinality(D(y)) \in Nat /\ Cardinality(D(y)) <= N
  BY FS_Subset, FS_CardinalityType
<1>2. N \in Nat BY FS_CardinalityType
<1>3. T \subseteq Nat /\ T # {}
  <2> HIDE DEF D, N
  <2> QED BY <1>1, <1>2
<1>4. PICK t \in T : \A u \in T : t <= u
  <2> HIDE DEF T
  <2> QED BY <1>3, LeastNat
<1>5. PICK y \in X : \A z \in X : N - Cardinality(D(y)) <= N - Cardinality(D(z))
  <2> HIDE DEF D, N
  <2> QED BY <1>4
<1>6. SUFFICES ASSUME NEW x \in X, ~(f[x] <= f[y]) PROVE FALSE
  OBVIOUS
<1>7. D(y) \subseteq D(x) /\ x \in D(x) /\ x \notin D(y) BY <1>6
<1>8. Cardinality(D(y)) <= Cardinality(D(x)) /\ Cardinality(D(y)) # Cardinality(D(x))
  <2> HIDE DEF D
  <2> QED BY <1>1, <1>7, FS_Subset
<1> HIDE DEF D, N
<1> QED BY <1>1, <1>2, <1>5, <1>8

\* before[x] are the elements of S before x.
Orders(before, S) ==
  /\ before \in [S -> SUBSET S]
  /\ \A x \in S : x \notin before[x]
  /\ \A x, y \in S : x # y => x \in before[y] \/ y \in before[x]
  /\ \A x, y \in S : x \in before[y] => before[x] \subseteq before[y]

\* In a finite ordered set every number below the cardinality is the rank of one
\* element.
LEMMA Ranks ==
  ASSUME NEW S, IsFiniteSet(S), NEW before, Orders(before, S)
  PROVE  /\ \A x \in S : Cardinality(before[x]) \in 0 .. Cardinality(S) - 1
         /\ \A x, y \in S : x \in before[y] <=> Cardinality(before[x]) < Cardinality(before[y])
         /\ \A x, y \in S : Cardinality(before[x]) = Cardinality(before[y]) => x = y
         /\ \A k \in 0 .. Cardinality(S) - 1 : \E x \in S : Cardinality(before[x]) = k
<1> DEFINE N == Cardinality(S)
           rank == [x \in S |-> Cardinality(before[x])]
<1>1. N \in Nat BY FS_CardinalityType
<1>2. \A x \in S : /\ IsFiniteSet(before[x]) /\ before[x] \subseteq S
                   /\ Cardinality(before[x]) \in Nat
  BY FS_Subset, FS_CardinalityType DEF Orders
<1>3. ASSUME NEW x \in S PROVE Cardinality(before[x]) \in 0 .. N - 1
  <2>1. Cardinality(before[x]) <= N /\ Cardinality(before[x]) # N
    BY <1>2, FS_Subset DEF Orders
  <2> QED BY <1>1, <1>2, <2>1
<1>4. ASSUME NEW x \in S, NEW y \in S, x \in before[y]
      PROVE  Cardinality(before[x]) < Cardinality(before[y])
  <2>1. before[x] \subseteq before[y] /\ before[x] # before[y] BY <1>4 DEF Orders
  <2> QED BY <1>2, <2>1, FS_Subset
<1>5. ASSUME NEW x \in S, NEW y \in S, Cardinality(before[x]) < Cardinality(before[y])
      PROVE  x \in before[y]
  BY <1>2, <1>4, <1>5 DEF Orders
<1>6. ASSUME NEW x \in S, NEW y \in S, Cardinality(before[x]) = Cardinality(before[y])
      PROVE  x = y
  BY <1>2, <1>4, <1>6 DEF Orders
<1>7. rank \in Injection(S, 0 .. N - 1)
  <2>1. rank \in [S -> 0 .. N - 1] BY <1>3
  <2>2. \A x, y \in S : rank[x] = rank[y] => x = y BY <1>6
  <2> HIDE DEF rank, N
  <2> QED BY <2>1, <2>2 DEF Injection, IsInjective
<1>8. IsFiniteSet(0 .. N - 1) /\ Cardinality(0 .. N - 1) = N
  <2> HIDE DEF N
  <2> QED BY <1>1, FS_Interval
<1>9. rank \in Surjection(S, 0 .. N - 1) BY <1>7, <1>8, FS_Injection
<1>10. \A k \in 0 .. N - 1 : \E x \in S : rank[x] = k BY <1>9 DEF Surjection
<1> QED BY <1>3, <1>4, <1>5, <1>6, <1>10

\* S in order of rank.
ByRank(S, before) ==
  [i \in 1 .. Cardinality(S) |-> CHOOSE x \in S : Cardinality(before[x]) = i - 1]

\* It has each element once, at its rank.
LEMMA Ranked ==
  ASSUME NEW S, IsFiniteSet(S), NEW before, Orders(before, S)
  PROVE  /\ ByRank(S, before) \in [1 .. Cardinality(S) -> S]
         /\ \A i \in 1 .. Cardinality(S) : Cardinality(before[ByRank(S, before)[i]]) = i - 1
         /\ \A x \in S : \E i \in 1 .. Cardinality(S) :
              ByRank(S, before)[i] = x /\ i = Cardinality(before[x]) + 1
<1> DEFINE N == Cardinality(S)
           sorted == ByRank(S, before)
<1>1. N \in Nat BY FS_CardinalityType
<1>2. ASSUME NEW i \in 1 .. N
      PROVE  sorted[i] \in S /\ Cardinality(before[sorted[i]]) = i - 1
  <2>1. i - 1 \in 0 .. N - 1 BY <1>1
  <2>2. \E x \in S : Cardinality(before[x]) = i - 1 BY <2>1, Ranks
  <2>3. sorted[i] = CHOOSE x \in S : Cardinality(before[x]) = i - 1 BY DEF ByRank
  <2> QED BY <2>2, <2>3
<1>3. ASSUME NEW x \in S
      PROVE  \E i \in 1 .. N : sorted[i] = x /\ i = Cardinality(before[x]) + 1
  <2>1. Cardinality(before[x]) \in 0 .. N - 1 BY Ranks
  <2>2. PICK i : i = Cardinality(before[x]) + 1 OBVIOUS
  <2>3. i \in 1 .. N /\ i - 1 = Cardinality(before[x]) BY <1>1, <2>1, <2>2
  <2>4. sorted[i] = x BY <1>2, <2>3, Ranks
  <2> QED BY <2>2, <2>3, <2>4
<1>4. sorted \in [1 .. N -> S] BY <1>2 DEF ByRank
<1> QED BY <1>2, <1>3, <1>4
\* The union of finitely many finite sets.
LEMMA FiniteFamily ==
  ASSUME NEW S, IsFiniteSet(S), NEW A, \A s \in S : IsFiniteSet(A[s])
  PROVE  IsFiniteSet(UNION {A[s] : s \in S})
<1>1. PICK F : F = {A[s] : s \in S} OBVIOUS
<1>2. PICK g : g = [s \in S |-> A[s]] OBVIOUS
<1>3. g \in Surjection(S, F) BY <1>1, <1>2 DEF Surjection
<1>4. IsFiniteSet(F) BY <1>3, FS_Surjection
<1>5. \A x \in F : IsFiniteSet(x) BY <1>1
<1>6. IsFiniteSet(UNION F) BY <1>4, <1>5, FS_UNION
<1> QED BY <1>1, <1>6

\* The units of which the sum of f over S is made.
Units(f, S) == UNION {{<<s, i>> : i \in 1 .. f[s]} : s \in S}

\* The cardinality of a union of disjoint sets is the sum of theirs.
LEMMA SumOfParts ==
  ASSUME NEW S, IsFiniteSet(S), NEW A, \A s \in S : IsFiniteSet(A[s]),
         \A s, t \in S : s # t => A[s] \cap A[t] = {},
         NEW f, \A s \in S : f[s] = Cardinality(A[s])
  PROVE  Cardinality(Units(f, S)) = Cardinality(UNION {A[s] : s \in S})
<1>1. PICK b : b = [s \in S |-> CHOOSE g : g \in Bijection(1 .. f[s], A[s])] OBVIOUS
<1>2. ASSUME NEW s \in S PROVE b[s] \in Bijection(1 .. f[s], A[s])
  <2>1. ExistsBijection(1 .. f[s], A[s]) BY FS_CardinalityType
  <2>2. \E g : g \in Bijection(1 .. f[s], A[s]) BY <2>1 DEF ExistsBijection
  <2> QED BY <1>1, <2>2
<1>3. \A s \in S : /\ b[s] \in [1 .. f[s] -> A[s]]
                   /\ \A i, j \in 1 .. f[s] : b[s][i] = b[s][j] => i = j
                   /\ \A x \in A[s] : \E i \in 1 .. f[s] : b[s][i] = x
  <2> SUFFICES ASSUME NEW s \in S
               PROVE  /\ b[s] \in [1 .. f[s] -> A[s]]
                      /\ \A i, j \in 1 .. f[s] : b[s][i] = b[s][j] => i = j
                      /\ \A x \in A[s] : \E i \in 1 .. f[s] : b[s][i] = x
    OBVIOUS
  <2>1. PICK g : g = b[s] OBVIOUS
  <2>2. g \in Injection(1 .. f[s], A[s]) /\ g \in Surjection(1 .. f[s], A[s])
    BY <1>2, <2>1 DEF Bijection
  <2>3. g \in [1 .. f[s] -> A[s]] /\ \A x \in A[s] : \E i \in 1 .. f[s] : g[i] = x
    BY <2>2 DEF Surjection
  <2>4. \A i, j \in 1 .. f[s] : g[i] = g[j] => i = j BY <2>2, <2>3 DEF Injection, IsInjective
  <2> QED BY <2>1, <2>3, <2>4
<1>4. PICK P : P = Units(f, S) OBVIOUS
<1>5. PICK U : U = UNION {A[s] : s \in S} OBVIOUS
<1>6. \A p \in P : \E s \in S : \E i \in 1 .. f[s] : p = <<s, i>> BY <1>4 DEF Units
<1>7. \A s \in S : \A i \in 1 .. f[s] : <<s, i>> \in P BY <1>4 DEF Units
<1>8. PICK h : h = [p \in P |-> b[p[1]][p[2]]] OBVIOUS
<1>9. \A s \in S : \A i \in 1 .. f[s] : h[<<s, i>>] = b[s][i] BY <1>7, <1>8
<1>10. h \in [P -> U]
  <2>1. ASSUME NEW p \in P PROVE h[p] \in U
    <3>1. PICK s \in S : \E i \in 1 .. f[s] : p = <<s, i>> BY <1>6
    <3>2. PICK i \in 1 .. f[s] : p = <<s, i>> BY <3>1
    <3>3. b[s][i] \in A[s] BY <1>3
    <3> QED BY <1>5, <1>9, <3>2, <3>3
  <2> QED BY <1>8, <2>1
<1>11. ASSUME NEW p \in P, NEW q \in P, h[p] = h[q] PROVE p = q
  <2>1. PICK s \in S : \E i \in 1 .. f[s] : p = <<s, i>> BY <1>6
  <2>2. PICK i \in 1 .. f[s] : p = <<s, i>> BY <2>1
  <2>3. PICK t \in S : \E j \in 1 .. f[t] : q = <<t, j>> BY <1>6
  <2>4. PICK j \in 1 .. f[t] : q = <<t, j>> BY <2>3
  <2>5. b[s][i] = b[t][j] BY <1>9, <1>11, <2>2, <2>4
  <2>6. b[s][i] \in A[s] /\ b[t][j] \in A[t]
    <3>1. b[s] \in [1 .. f[s] -> A[s]] /\ b[t] \in [1 .. f[t] -> A[t]] BY <1>3
    <3> QED BY <3>1
  <2>7. s = t BY <2>5, <2>6
  <2> QED BY <1>3, <2>2, <2>4, <2>5, <2>7
<1>12. ASSUME NEW x \in U PROVE \E p \in P : h[p] = x
  <2>1. PICK s \in S : x \in A[s] BY <1>5
  <2>2. PICK i \in 1 .. f[s] : b[s][i] = x BY <1>3, <2>1
  <2> QED BY <1>7, <1>9, <2>2
<1>13. h \in Bijection(P, U)
  BY <1>10, <1>11, <1>12 DEF Bijection, Injection, IsInjective, Surjection
<1>14. IsFiniteSet(U) BY <1>5, FiniteFamily
<1>15. h \in Injection(P, U) /\ h \in Surjection(P, U) BY <1>13 DEF Bijection
<1>16. Cardinality(P) = Cardinality(U) BY <1>14, <1>15, FS_Injection
<1> QED BY <1>4, <1>5, <1>16
=============================================================================
