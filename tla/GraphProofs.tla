----------------------------- MODULE GraphProofs -----------------------------
(***************************************************************************)
(* What holds of the graph index and of the causal DAG for every set of    *)
(* nodes, edges and strengths.                                             *)
(*                                                                         *)
(* The graph index: the edges say everything, so the invariant is small    *)
(* (GInv) and the argument is about the loops.  At every turn of bfs   *)
(* the visited nodes and the queue split into two neighbouring levels, and *)
(* what is left to queue pays for the turns that remain.  path enumerates  *)
(* the simple paths by their number of nodes.                              *)
(*                                                                         *)
(* The causal DAG: that insert_edge refuses cycles is not inductive by     *)
(* itself.  The inductive form is a rank for every fact that rises along   *)
(* the edges (Ranking): what can_reach visits is raised above the new      *)
(* edge's source.  Ranks also say that a path visits no fact twice, so     *)
(* that the search with backtracking misses none.                          *)
(***************************************************************************)
EXTENDS GraphIndex, CausalDag, NatLemmas, SequenceTheorems

-----------------------------------------------------------------------------
(* The graph index. *)

\* g gives the positions of s that are picked, each once.
PicksFrom(s, I, g) ==
  /\ g \in [1 .. Cardinality(I) -> I]
  /\ \A k \in 1 .. Cardinality(I) : Picked(s, I)[k] = s[g[k]]
  /\ \A j, k \in 1 .. Cardinality(I) : g[j] = g[k] => j = k
  /\ \A i \in I : \E k \in 1 .. Cardinality(I) : g[k] = i

\* What is picked from a sequence, and where it comes from.
LEMMA Picking ==
  ASSUME NEW X, NEW s \in Seq(X), NEW I, I \subseteq DOMAIN s
  PROVE  /\ IsFiniteSet(I) /\ Cardinality(I) \in Nat /\ Cardinality(I) <= Len(s)
         /\ Picked(s, I) \in Seq(X) /\ Len(Picked(s, I)) = Cardinality(I)
         /\ \E g : PicksFrom(s, I, g)
<1>1. PICK m \in Nat : m = Len(s) /\ DOMAIN s = 1 .. m OBVIOUS
<1>2. IsFiniteSet(1 .. m) /\ Cardinality(1 .. m) = m BY FS_Interval
<1>3. IsFiniteSet(I) /\ Cardinality(I) <= m BY <1>1, <1>2, FS_Subset
<1>4. PICK n \in Nat : n = Cardinality(I) BY <1>3, FS_CardinalityType
<1>5. PICK before : before = [i \in I |-> {j \in I : j < i}] OBVIOUS
<1>6. Orders(before, I)
  <2>1. before \in [I -> SUBSET I] /\ \A i \in I : before[i] = {j \in I : j < i} BY <1>5
  <2>2. \A i \in I : i \in Nat BY <1>1
  <2>3. \A x \in I : x \notin before[x] BY <2>1, <2>2
  <2>4. \A x, y \in I : x # y => x \in before[y] \/ y \in before[x] BY <2>1, <2>2
  <2>5. \A x, y \in I : x \in before[y] => before[x] \subseteq before[y] BY <2>1, <2>2
  <2> QED BY <2>1, <2>3, <2>4, <2>5 DEF Orders
<1>7. PICK g : g = ByRank(I, before) OBVIOUS
<1>8. /\ g \in [1 .. n -> I]
      /\ \A k \in 1 .. n : Cardinality(before[g[k]]) = k - 1
      /\ \A i \in I : \E k \in 1 .. n : g[k] = i /\ k = Cardinality(before[i]) + 1
  BY <1>3, <1>4, <1>6, <1>7, Ranked
<1>9. ASSUME NEW j \in 1 .. n, NEW k \in 1 .. n, g[j] = g[k] PROVE j = k
  <2>1. j - 1 = k - 1 BY <1>8, <1>9
  <2> QED BY <2>1
<1>10. \A i \in I : \E k \in 1 .. n : g[k] = i BY <1>8
<1>11. ASSUME NEW k \in 1 .. n PROVE Picked(s, I)[k] = s[g[k]]
  <2>1. \A i \in I : before[i] = {j \in I : j < i} BY <1>5
  <2>2. (CHOOSE i \in I : Cardinality({j \in I : j < i}) = k - 1)
          = CHOOSE i \in I : Cardinality(before[i]) = k - 1
    BY <2>1
  <2>3. g[k] = CHOOSE i \in I : Cardinality(before[i]) = k - 1 BY <1>4, <1>7 DEF ByRank
  <2>4. Picked(s, I)[k] = s[CHOOSE i \in I : Cardinality({j \in I : j < i}) = k - 1] BY <1>4 DEF Picked
  <2> QED BY <2>2, <2>3, <2>4
<1>12. Picked(s, I) \in Seq(X) /\ Len(Picked(s, I)) = n
  <2>1. PICK q : q = Picked(s, I) OBVIOUS
  <2>2. DOMAIN q = 1 .. n BY <1>4, <2>1 DEF Picked
  <2>3. \A k \in 1 .. n : q[k] \in X BY <1>1, <1>8, <1>11, <2>1
  <2>4. q = [k \in 1 .. n |-> q[k]] BY <1>4, <2>1 DEF Picked
  <2>5. q \in [1 .. n -> X] BY <2>3, <2>4
  <2> QED BY <2>1, <2>2, <2>5
<1>13. PicksFrom(s, I, g) BY <1>4, <1>8, <1>9, <1>10, <1>11 DEF PicksFrom
<1> QED BY <1>1, <1>3, <1>4, <1>12, <1>13

\* Its elements are those at the positions.
LEMMA PickedElements ==
  ASSUME NEW X, NEW s \in Seq(X), NEW I, I \subseteq DOMAIN s
  PROVE  /\ \A k \in DOMAIN Picked(s, I) : \E i \in I : Picked(s, I)[k] = s[i]
         /\ \A i \in I : \E k \in DOMAIN Picked(s, I) : Picked(s, I)[k] = s[i]
<1>1. PICK n \in Nat : n = Cardinality(I) BY Picking
<1>2. PICK q : q = Picked(s, I) OBVIOUS
<1>3. q \in Seq(X) /\ Len(q) = n BY <1>1, <1>2, Picking
<1>4. DOMAIN q = 1 .. n BY <1>3
<1>5. PICK g : PicksFrom(s, I, g) BY Picking
<1>6. \A k \in 1 .. n : g[k] \in I /\ q[k] = s[g[k]] BY <1>1, <1>2, <1>5 DEF PicksFrom
<1>7. \A i \in I : \E k \in 1 .. n : g[k] = i BY <1>1, <1>5 DEF PicksFrom
<1>8. \A i \in I : \E k \in 1 .. n : q[k] = s[i] BY <1>6, <1>7
<1> QED BY <1>2, <1>4, <1>6, <1>8

LEMMA CopiesType ==
  ASSUME NEW X, NEW s \in Seq(X), NEW e
  PROVE  IsFiniteSet({i \in DOMAIN s : s[i] = e}) /\ Copies(s, e) \in Nat
<1>1. {i \in DOMAIN s : s[i] = e} \subseteq DOMAIN s OBVIOUS
<1>2. IsFiniteSet({i \in DOMAIN s : s[i] = e}) BY <1>1, Picking
<1> QED BY <1>2, FS_CardinalityType DEF Copies

\* One copy more with an insertion.
LEMMA CopiesAppend ==
  ASSUME NEW X, NEW s \in Seq(X), NEW e \in X, NEW f
  PROVE  Copies(Append(s, e), f) = Copies(s, f) + (IF e = f THEN 1 ELSE 0)
<1>1. PICK n \in Nat : n = Len(s) /\ DOMAIN s = 1 .. n OBVIOUS
<1>2. PICK q : q = Append(s, e) OBVIOUS
<1>3. DOMAIN q = 1 .. n + 1 /\ q[n + 1] = e /\ \A i \in 1 .. n : q[i] = s[i] BY <1>1, <1>2
<1>4. PICK A : A = {i \in DOMAIN s : s[i] = f} OBVIOUS
<1>5. IsFiniteSet(A) /\ Cardinality(A) \in Nat /\ Cardinality(A) = Copies(s, f)
  BY <1>4, CopiesType, FS_CardinalityType DEF Copies
<1>6. n + 1 \notin A BY <1>1, <1>4
<1>7. CASE e = f
  <2>1. {i \in DOMAIN q : q[i] = f} = A \cup {n + 1} BY <1>1, <1>3, <1>4, <1>7
  <2>2. Cardinality(A \cup {n + 1}) = Cardinality(A) + 1 BY <1>5, <1>6, FS_AddElement
  <2>3. Copies(q, f) = Cardinality(A \cup {n + 1}) BY <2>1 DEF Copies
  <2> QED BY <1>2, <1>5, <1>7, <2>2, <2>3
<1>8. CASE e # f
  <2>1. {i \in DOMAIN q : q[i] = f} = A BY <1>1, <1>3, <1>4, <1>8
  <2>2. Copies(q, f) = Cardinality(A) BY <2>1 DEF Copies
  <2> QED BY <1>2, <1>5, <1>8, <2>2
<1> QED BY <1>7, <1>8

\* No copies of an edge of the triple with a deletion, and as many of any other.
LEMMA CopiesWithout ==
  ASSUME NEW X, NEW s \in Seq(X), NEW e, NEW f
  PROVE  Copies(Without(s, e), f) = IF Triple(f) = e THEN 0 ELSE Copies(s, f)
<1>1. PICK I : I = {i \in DOMAIN s : Triple(s[i]) # e} OBVIOUS
<1>2. PICK q : q = Picked(s, I) OBVIOUS
<1>3. Without(s, e) = q BY <1>1, <1>2 DEF Without
<1>4. I \subseteq DOMAIN s BY <1>1
<1>5. PICK n \in Nat : n = Cardinality(I) BY <1>4, Picking
<1>6. q \in Seq(X) /\ Len(q) = n BY <1>2, <1>4, <1>5, Picking
<1>7. DOMAIN q = 1 .. n BY <1>6
<1>13. PICK g : PicksFrom(s, I, g) BY <1>4, Picking
<1>8. /\ \A k \in 1 .. n : g[k] \in I /\ q[k] = s[g[k]]
      /\ \A j, k \in 1 .. n : g[j] = g[k] => j = k
      /\ \A i \in I : \E k \in 1 .. n : g[k] = i
  BY <1>2, <1>5, <1>13 DEF PicksFrom
<1>9. PICK B : B = {k \in DOMAIN q : q[k] = f} OBVIOUS
<1>10. Copies(q, f) = Cardinality(B) BY <1>9 DEF Copies
<1>11. CASE Triple(f) = e
  <2>1. B = {} BY <1>1, <1>7, <1>8, <1>9, <1>11
  <2>2. Cardinality(B) = 0 BY <2>1, FS_EmptySet
  <2> QED BY <1>3, <1>10, <1>11, <2>2
<1>12. CASE Triple(f) # e
  <2>1. PICK A : A = {i \in DOMAIN s : s[i] = f} OBVIOUS
  <2>2. A \subseteq I BY <1>1, <1>12, <2>1
  <2>3. PICK h : h = [k \in B |-> g[k]] OBVIOUS
  <2>4. \A k \in B : k \in 1 .. n /\ q[k] = f BY <1>7, <1>9
  <2>5. h \in [B -> A]
    <3>1. \A k \in B : g[k] \in A BY <1>1, <1>8, <2>1, <2>4
    <3> QED BY <2>3, <3>1
  <2>6. \A j, k \in B : h[j] = h[k] => j = k BY <1>8, <2>3, <2>4
  <2>7. \A i \in A : \E k \in B : h[k] = i
    <3>1. ASSUME NEW i \in A PROVE \E k \in B : h[k] = i
      <4>1. PICK k \in 1 .. n : g[k] = i BY <1>8, <2>2
      <4>2. q[k] = f BY <1>8, <2>1, <4>1
      <4>3. k \in B BY <1>7, <1>9, <4>2
      <4> QED BY <2>3, <4>1, <4>3
    <3> QED BY <3>1
  <2>8. h \in Bijection(B, A)
    <3>1. h \in Injection(B, A) BY <2>5, <2>6 DEF Injection, IsInjective
    <3>2. h \in Surjection(B, A) BY <2>5, <2>7 DEF Surjection
    <3> QED BY <3>1, <3>2 DEF Bijection
  <2>9. ExistsBijection(B, A) BY <2>8 DEF ExistsBijection
  <2>10. IsFiniteSet(B)
    <3>1. IsFiniteSet({k \in DOMAIN q : q[k] = f}) BY <1>6, CopiesType
    <3> QED BY <1>9, <3>1
  <2>11. Cardinality(A) = Cardinality(B) BY <2>9, <2>10, FS_Bijection
  <2>12. Copies(s, f) = Cardinality(A) BY <2>1 DEF Copies
  <2> QED BY <1>3, <1>10, <1>12, <2>11, <2>12
<1> QED BY <1>11, <1>12

GraphSpec == GraphInit /\ [][GraphNext]_graphVars

EdgesOK == outgoing \in [Subjects -> Seq(GraphEdge)] /\ incoming \in [Subjects -> Seq(GraphEdge)]
GInv == EdgesOK /\ MapsAgree

LEMMA WithoutType ==
  ASSUME NEW X, NEW s \in Seq(X), NEW e PROVE Without(s, e) \in Seq(X)
<1>1. {i \in DOMAIN s : Triple(s[i]) # e} \subseteq DOMAIN s OBVIOUS
<1> QED BY <1>1, Picking DEF Without

LEMMA GInvInit == GraphInit => GInv
<1> SUFFICES ASSUME GraphInit PROVE GInv OBVIOUS
<1>1. \A n \in Subjects : outgoing[n] = <<>> /\ incoming[n] = <<>> BY DEF GraphInit
<1>2. EdgesOK BY DEF GraphInit, EdgesOK
<1>3. \A e \in NewEdges : e.subject \in Subjects /\ e.object \in Subjects BY GraphAssumption DEF GraphEdge
<1>4. MapsAgree BY <1>1, <1>3 DEF MapsAgree
<1> QED BY <1>2, <1>4 DEF GInv

LEMMA GInvStep == GInv /\ [GraphNext]_graphVars => GInv'
<1> SUFFICES ASSUME GInv, [GraphNext]_graphVars PROVE GInv' OBVIOUS
<1>1. PICK o : o = outgoing OBVIOUS
<1>2. PICK i : i = incoming OBVIOUS
<1>3. o \in [Subjects -> Seq(GraphEdge)] /\ i \in [Subjects -> Seq(GraphEdge)]
  BY <1>1, <1>2 DEF GInv, EdgesOK
<1>4. \A f \in NewEdges : f \in GraphEdge /\ f.subject \in Subjects /\ f.object \in Subjects
  BY GraphAssumption DEF GraphEdge
<1>5. \A f \in NewEdges : Copies(o[f.subject], f) = Copies(i[f.object], f)
  BY <1>1, <1>2 DEF GInv, MapsAgree
<1>6. ASSUME NEW e \in NewEdges, InsertGraphEdge(e) PROVE GInv'
  <2>1. outgoing' = [o EXCEPT ![e.subject] = Append(o[e.subject], e)] BY <1>1, <1>6 DEF InsertGraphEdge
  <2>2. incoming' = [i EXCEPT ![e.object] = Append(i[e.object], e)] BY <1>2, <1>6 DEF InsertGraphEdge
  <2>3. Append(o[e.subject], e) \in Seq(GraphEdge) /\ Append(i[e.object], e) \in Seq(GraphEdge)
    BY <1>3, <1>4
  <2>4. EdgesOK' BY <1>3, <2>1, <2>2, <2>3 DEF EdgesOK
  <2>5. ASSUME NEW f \in NewEdges PROVE Copies(outgoing'[f.subject], f) = Copies(incoming'[f.object], f)
    <3>1. o[f.subject] \in Seq(GraphEdge) /\ i[f.object] \in Seq(GraphEdge) BY <1>3, <1>4
    <3>2. Copies(Append(o[f.subject], e), f) = Copies(o[f.subject], f) + (IF e = f THEN 1 ELSE 0)
      BY <1>4, <3>1, CopiesAppend
    <3>3. Copies(Append(i[f.object], e), f) = Copies(i[f.object], f) + (IF e = f THEN 1 ELSE 0)
      BY <1>4, <3>1, CopiesAppend
    <3>4. Copies(o[f.subject], f) \in Nat BY <3>1, CopiesType
    <3>5. CASE e = f
      <4>1. outgoing'[f.subject] = Append(o[f.subject], e) BY <1>3, <1>4, <2>1, <3>5
      <4>2. incoming'[f.object] = Append(i[f.object], e) BY <1>3, <1>4, <2>2, <3>5
      <4> QED BY <1>5, <3>2, <3>3, <4>1, <4>2
    <3>6. CASE e # f
      <4>1. Copies(outgoing'[f.subject], f) = Copies(o[f.subject], f)
        <5>1. outgoing'[f.subject] = o[f.subject] \/ outgoing'[f.subject] = Append(o[f.subject], e) BY <1>3, <1>4, <2>1
        <5>2. PICK c \in Nat : c = Copies(o[f.subject], f) BY <3>4
        <5>3. Copies(Append(o[f.subject], e), f) = c BY <3>2, <3>6, <5>2
        <5> QED BY <5>1, <5>2, <5>3, Zenon
      <4>2. Copies(incoming'[f.object], f) = Copies(i[f.object], f)
        <5>1. incoming'[f.object] = i[f.object] \/ incoming'[f.object] = Append(i[f.object], e) BY <1>3, <1>4, <2>2
        <5>2. PICK c \in Nat : c = Copies(i[f.object], f) BY <1>5, <3>4
        <5>3. Copies(Append(i[f.object], e), f) = c BY <3>3, <3>6, <5>2
        <5> QED BY <5>1, <5>2, <5>3, Zenon
      <4> QED BY <1>5, <4>1, <4>2
    <3> QED BY <3>5, <3>6
  <2>6. MapsAgree' BY <2>5 DEF MapsAgree, Copies
  <2> QED BY <2>4, <2>6 DEF GInv
<1>7. ASSUME NEW e \in Subjects \X Predicates \X Subjects, DeleteGraphEdge(e) PROVE GInv'
  <2>1. outgoing' = [o EXCEPT ![e[1]] = Without(o[e[1]], e)] BY <1>1, <1>7 DEF DeleteGraphEdge
  <2>2. incoming' = [i EXCEPT ![e[3]] = Without(i[e[3]], e)] BY <1>2, <1>7 DEF DeleteGraphEdge
  <2>3. Without(o[e[1]], e) \in Seq(GraphEdge) /\ Without(i[e[3]], e) \in Seq(GraphEdge)
    BY <1>3, WithoutType
  <2>4. EdgesOK' BY <1>3, <2>1, <2>2, <2>3 DEF EdgesOK
  <2>5. ASSUME NEW f \in NewEdges PROVE Copies(outgoing'[f.subject], f) = Copies(incoming'[f.object], f)
    <3>1. o[f.subject] \in Seq(GraphEdge) /\ i[f.object] \in Seq(GraphEdge) BY <1>3, <1>4
    <3>2. Copies(Without(o[f.subject], e), f) = IF Triple(f) = e THEN 0 ELSE Copies(o[f.subject], f)
      BY <3>1, CopiesWithout
    <3>3. Copies(Without(i[f.object], e), f) = IF Triple(f) = e THEN 0 ELSE Copies(i[f.object], f)
      BY <3>1, CopiesWithout
    <3>4. CASE Triple(f) = e
      <4>1. outgoing'[f.subject] = Without(o[f.subject], e) BY <1>3, <1>4, <2>1, <3>4 DEF Triple
      <4>2. incoming'[f.object] = Without(i[f.object], e) BY <1>3, <1>4, <2>2, <3>4 DEF Triple
      <4> QED BY <3>2, <3>3, <3>4, <4>1, <4>2
    <3>5. CASE Triple(f) # e
      <4>1. Copies(outgoing'[f.subject], f) = Copies(o[f.subject], f)
        <5>1. outgoing'[f.subject] = o[f.subject] \/ outgoing'[f.subject] = Without(o[f.subject], e) BY <1>3, <1>4, <2>1
        <5>2. Copies(Without(o[f.subject], e), f) = Copies(o[f.subject], f) BY <3>2, <3>5
        <5> QED BY <5>1, <5>2, Zenon
      <4>2. Copies(incoming'[f.object], f) = Copies(i[f.object], f)
        <5>1. incoming'[f.object] = i[f.object] \/ incoming'[f.object] = Without(i[f.object], e) BY <1>3, <1>4, <2>2
        <5>2. Copies(Without(i[f.object], e), f) = Copies(i[f.object], f) BY <3>3, <3>5
        <5> QED BY <5>1, <5>2, Zenon
      <4> QED BY <1>5, <4>1, <4>2
    <3> QED BY <3>4, <3>5
  <2>6. MapsAgree' BY <2>5 DEF MapsAgree, Copies
  <2> QED BY <2>4, <2>6 DEF GInv
<1>8. ASSUME UNCHANGED graphVars PROVE GInv'
  BY <1>8 DEF graphVars, GInv, EdgesOK, MapsAgree
<1> QED BY <1>6, <1>7, <1>8 DEF GraphNext

LEMMA InvariantG == GraphSpec => []GInv
BY GInvInit, GInvStep, PTL DEF GraphSpec

\* An edge along p from m to n.
Joins(p, m, n) == \E i \in DOMAIN outgoing[m] : outgoing[m][i].predicate = p /\ outgoing[m][i].object = n

\* b[d] are the nodes at most d hops from a start along p.
Hops(b, start, p) ==
  /\ b \in [Nat -> SUBSET Subjects]
  /\ \A d \in Nat : Ball(start, p, d) = b[d]
  /\ b[0] = {start}
  /\ \A d \in Nat : \A n \in Subjects : n \in b[d + 1] <=> n \in b[d] \/ \E m \in b[d] : Joins(p, m, n)

\* An edge along p takes the strong node x = <<node, strength>> to y.
Follows(p, x, y) ==
  \E i \in DOMAIN outgoing[x[1]] : /\ outgoing[x[1]][i].predicate = p
                                  /\ y = <<outgoing[x[1]][i].object, Weaker(x[2], outgoing[x[1]][i])>>

\* c[d] is where the walks of d edges end.
Carried(c, start, p) ==
  /\ \A d \in Nat : Walks(start, p, d) = c[d]
  /\ <<start, 64>> \in c[0]
  /\ \A d \in Nat : \A x \in c[d] : \A y : Follows(p, x, y) => y \in c[d + 1]

LEMMA BallHops ==
  ASSUME EdgesOK, NEW start \in Subjects, NEW p PROVE \E b : Hops(b, start, p)
<1> DEFINE Ahead(B) == B \cup {e.object : e \in UNION {{f \in ToSet(outgoing[n]) : f.predicate = p} : n \in B}}
           Step(g) == [k \in Nat |-> IF k = 0 THEN {start} ELSE Ahead(g[k - 1])]
           w == CHOOSE g : g = Step(g)
           f == [B \in SUBSET Subjects |-> Ahead(B)]
<1>1. ASSUME NEW B \in SUBSET Subjects
      PROVE  \A n : n \in Ahead(B) <=> n \in B \/ \E m \in B : Joins(p, m, n)
  <2>1. \A m \in B : \A e : e \in ToSet(outgoing[m]) <=> \E i \in DOMAIN outgoing[m] : e = outgoing[m][i]
    BY DEF ToSet
  <2> QED BY <2>1 DEF Joins
<1>2. ASSUME NEW B \in SUBSET Subjects PROVE Ahead(B) \in SUBSET Subjects
  <2>1. ASSUME NEW m \in B, NEW n, Joins(p, m, n) PROVE n \in Subjects
    <3>1. PICK s : s = outgoing[m] OBVIOUS
    <3>2. s \in Seq(GraphEdge) BY <3>1 DEF EdgesOK
    <3>3. PICK i \in DOMAIN s : s[i].object = n BY <2>1, <3>1 DEF Joins
    <3>4. s[i] \in GraphEdge BY <3>2, <3>3
    <3> QED BY <3>3, <3>4 DEF GraphEdge
  <2>2. \A n \in Ahead(B) : n \in Subjects
    <3> HIDE DEF Ahead
    <3> QED BY <1>1, <2>1
  <2> HIDE DEF Ahead
  <2> QED BY <2>2
<1> HIDE DEF Ahead
<1>3. f \in [SUBSET Subjects -> SUBSET Subjects] BY <1>2
<1>4. \A B \in SUBSET Subjects : f[B] = Ahead(B) OBVIOUS
<1> HIDE DEF f
<1>5. PICK g \in [Nat -> SUBSET Subjects] : Repeats(g, {start}, f)
  <2>1. {start} \in SUBSET Subjects OBVIOUS
  <2> QED BY <1>3, <2>1, IterateNat
<1>6. g = Step(g)
  <2>1. ASSUME NEW k \in Nat PROVE g[k] = Step(g)[k]
    <3>1. CASE k = 0 BY <1>5, <3>1 DEF Repeats
    <3>2. CASE k # 0
      <4>1. k - 1 \in Nat /\ (k - 1) + 1 = k BY <3>2
      <4>2. g[k] = f[g[k - 1]] BY <1>5, <4>1 DEF Repeats
      <4>3. g[k - 1] \in SUBSET Subjects BY <4>1
      <4>4. g[k] = Ahead(g[k - 1]) BY <1>4, <4>2, <4>3
      <4> QED BY <3>2, <4>4
    <3> QED BY <3>1, <3>2
  <2>2. g = [k \in Nat |-> g[k]] /\ Step(g) = [k \in Nat |-> Step(g)[k]] OBVIOUS
  <2> HIDE DEF Step
  <2> QED BY <2>1, <2>2
<1>7. w = Step(w)
  <2> HIDE DEF Step
  <2> QED BY <1>6, Zenon
<1>8. \A d \in Nat : Ball(start, p, d) = w[d] BY DEF Ball, Ahead
<1> HIDE DEF w
<1>9. w[0] = {start} /\ \A d \in Nat : w[d + 1] = Ahead(w[d])
  <2>1. w[0] = {start} BY <1>7
  <2>2. ASSUME NEW d \in Nat PROVE w[d + 1] = Ahead(w[d])
    <3>1. w[d + 1] = Step(w)[d + 1] BY <1>7, Zenon
    <3>2. d + 1 \in Nat /\ d + 1 # 0 /\ (d + 1) - 1 = d OBVIOUS
    <3> QED BY <3>1, <3>2
  <2> QED BY <2>1, <2>2
<1>10. ASSUME NEW n \in Nat PROVE w[n] \in SUBSET Subjects
  <2> DEFINE T == {k \in 0 .. n : w[k] \in SUBSET Subjects}
  <2>1. 0 \in T BY <1>9
  <2>2. ASSUME NEW k \in 0 .. n - 1, k \in T PROVE k + 1 \in T
    <3>1. w[k + 1] = Ahead(w[k]) BY <1>9
    <3>2. w[k + 1] \in SUBSET Subjects BY <1>2, <2>2, <3>1
    <3> QED BY <3>2
  <2> HIDE DEF T
  <2>3. 0 .. n \subseteq T BY <2>1, <2>2, UpTo
  <2> QED BY <2>3 DEF T
<1>11. w \in [Nat -> SUBSET Subjects]
  <2>1. w = [k \in Nat |-> w[k]] BY <1>7
  <2> QED BY <1>10, <2>1
<1>12. \A d \in Nat : \A n \in Subjects : n \in w[d + 1] <=> n \in w[d] \/ \E m \in w[d] : Joins(p, m, n)
  BY <1>1, <1>9, <1>11
<1>13. Hops(w, start, p) BY <1>8, <1>9, <1>11, <1>12 DEF Hops
<1> QED BY <1>13

LEMMA WeakerType == ASSUME NEW x \in Nat, NEW e \in GraphEdge PROVE Weaker(x, e) \in Nat
<1>1. PICK c \in Nat : c = e.confidence BY DEF GraphEdge
<1>2. x * c \in Nat OBVIOUS
<1>3. \A y \in Nat : y \div 64 \in Nat OBVIOUS
<1> QED BY <1>1, <1>2, <1>3 DEF Weaker

LEMMA WalksCarry ==
  ASSUME EdgesOK, NEW start \in Subjects, NEW p PROVE \E c : Carried(c, start, p)
<1> DEFINE Strong == Subjects \X Nat
           Ahead(C) == UNION {{<<e.object, Weaker(w[2], e)>> : e \in {f \in ToSet(outgoing[w[1]]) : f.predicate = p}} : w \in C}
           Unfold(g) == [k \in Nat |-> IF k = 0 THEN {<<start, 64>>} ELSE Ahead(g[k - 1])]
           w0 == CHOOSE g : g = Unfold(g)
           f0 == [C \in SUBSET Strong |-> Ahead(C)]
<1>1. ASSUME NEW C PROVE \A y : y \in Ahead(C) <=> \E x \in C : Follows(p, x, y)
  <2>1. \A x \in C : \A e : e \in ToSet(outgoing[x[1]]) <=> \E i \in DOMAIN outgoing[x[1]] : e = outgoing[x[1]][i]
    BY DEF ToSet
  <2> QED BY <2>1 DEF Follows
<1>2. ASSUME NEW C \in SUBSET Strong PROVE Ahead(C) \in SUBSET Strong
  <2>1. ASSUME NEW x \in C, NEW y, Follows(p, x, y) PROVE y \in Strong
    <3>1. x[1] \in Subjects /\ x[2] \in Nat OBVIOUS
    <3>2. PICK s : s = outgoing[x[1]] OBVIOUS
    <3>3. s \in Seq(GraphEdge) BY <3>1, <3>2 DEF EdgesOK
    <3>4. PICK i \in DOMAIN s : y = <<s[i].object, Weaker(x[2], s[i])>> BY <2>1, <3>2 DEF Follows
    <3>5. s[i] \in GraphEdge BY <3>3, <3>4
    <3>6. s[i].object \in Subjects BY <3>5 DEF GraphEdge
    <3>7. Weaker(x[2], s[i]) \in Nat BY <3>1, <3>5, WeakerType
    <3> QED BY <3>4, <3>6, <3>7
  <2> HIDE DEF Ahead, Strong
  <2>2. \A y \in Ahead(C) : y \in Strong BY <1>1, <2>1
  <2> QED BY <2>2
<1> HIDE DEF Ahead
<1>3. f0 \in [SUBSET Strong -> SUBSET Strong]
  <2> HIDE DEF Strong
  <2> QED BY <1>2
<1>4. \A C \in SUBSET Strong : f0[C] = Ahead(C) OBVIOUS
<1> HIDE DEF f0
<1>5. PICK g \in [Nat -> SUBSET Strong] : Repeats(g, {<<start, 64>>}, f0)
  <2>1. {<<start, 64>>} \in SUBSET Strong OBVIOUS
  <2> HIDE DEF Strong
  <2> QED BY <1>3, <2>1, IterateNat
<1> HIDE DEF Strong
<1>6. g = Unfold(g)
  <2>1. ASSUME NEW k \in Nat PROVE g[k] = Unfold(g)[k]
    <3>1. CASE k = 0 BY <1>5, <3>1 DEF Repeats
    <3>2. CASE k # 0
      <4>1. k - 1 \in Nat /\ (k - 1) + 1 = k BY <3>2
      <4>2. g[k] = f0[g[k - 1]] BY <1>5, <4>1 DEF Repeats
      <4>3. g[k - 1] \in SUBSET Strong BY <4>1
      <4>4. g[k] = Ahead(g[k - 1]) BY <1>4, <4>2, <4>3
      <4> QED BY <3>2, <4>4
    <3> QED BY <3>1, <3>2
  <2>2. g = [k \in Nat |-> g[k]] /\ Unfold(g) = [k \in Nat |-> Unfold(g)[k]] OBVIOUS
  <2> HIDE DEF Unfold
  <2> QED BY <2>1, <2>2
<1>7. w0 = Unfold(w0)
  <2> HIDE DEF Unfold
  <2> QED BY <1>6, Zenon
<1>8. \A d \in Nat : Walks(start, p, d) = w0[d] BY DEF Walks, Ahead
<1> HIDE DEF w0
<1>9. w0[0] = {<<start, 64>>} BY <1>7
<1>10. ASSUME NEW d \in Nat, NEW x \in w0[d], NEW y, Follows(p, x, y) PROVE y \in w0[d + 1]
  <2>1. w0[d + 1] = Unfold(w0)[d + 1] BY <1>7, Zenon
  <2>2. d + 1 \in Nat /\ d + 1 # 0 /\ (d + 1) - 1 = d OBVIOUS
  <2>3. w0[d + 1] = Ahead(w0[d]) BY <2>1, <2>2
  <2> QED BY <1>1, <1>10, <2>3
<1>11. Carried(w0, start, p) BY <1>8, <1>9, <1>10 DEF Carried
<1> QED BY <1>11

\* A farther ball holds a nearer one.
LEMMA HopsGrow ==
  ASSUME NEW b, NEW start, NEW p, Hops(b, start, p), NEW d \in Nat, NEW e \in Nat, d <= e
  PROVE  b[d] \subseteq b[e]
<1> DEFINE T == {k \in 0 .. e - d : b[d] \subseteq b[d + k]}
<1>1. 0 \in T OBVIOUS
<1>2. ASSUME NEW k \in 0 .. (e - d) - 1, k \in T PROVE k + 1 \in T
  <2>1. d + k \in Nat /\ (d + k) + 1 = d + (k + 1) OBVIOUS
  <2>2. b[d + k] \subseteq Subjects BY <2>1 DEF Hops
  <2>3. b[d + k] \subseteq b[(d + k) + 1] BY <2>1, <2>2 DEF Hops
  <2>4. b[d] \subseteq b[d + (k + 1)] BY <1>2, <2>1, <2>3
  <2> QED BY <2>4
<1>3. e - d \in Nat /\ e - d \in 0 .. e - d /\ d + (e - d) = e OBVIOUS
<1> HIDE DEF T
<1>4. 0 .. e - d \subseteq T BY <1>1, <1>2, <1>3, UpTo
<1>5. e - d \in T BY <1>3, <1>4
<1> QED BY <1>3, <1>5 DEF T

Item == [node : Subjects, depth : Nat, strength : Nat]
BfsState == [queue : Seq(Item), visited : SUBSET Subjects, result : Seq(Item)]

\* What a visit of the item at puts into the queue when the nodes seen are marked.
Found(new, at, p, max, seen) ==
  /\ new \in Seq(Item)
  /\ at.depth >= max => new = <<>>
  /\ \A i \in DOMAIN new : /\ new[i].node \notin seen /\ Joins(p, at.node, new[i].node)
                           /\ new[i].depth = at.depth + 1 /\ at.depth < max
                           /\ Follows(p, <<at.node, at.strength>>, <<new[i].node, new[i].strength>>)
  /\ at.depth < max => \A n \in Subjects \ seen : Joins(p, at.node, n) => \E i \in DOMAIN new : new[i].node = n
  /\ Len(new) <= Len(outgoing[at.node])

\* A visit of at, the head of the queue, takes s to u.
Turned(s, at, new, p, max, u) ==
  /\ Found(new, at, p, max, s.visited \cup {at.node})
  /\ u.queue = Tail(s.queue) \o new
  /\ u.visited = s.visited \cup {at.node}
  /\ u.result = IF at.depth = 0 THEN s.result ELSE Append(s.result, at)

\* The edges of the nodes that are not marked.
EdgesOf(N) == UNION {{n} \X DOMAIN outgoing[n] : n \in N}

LEMMA VisitStale ==
  ASSUME NEW s \in BfsState, NEW p, NEW max, Head(s.queue).node \in s.visited
  PROVE  /\ Visit(p, max, s).queue = Tail(s.queue)
         /\ Visit(p, max, s).visited = s.visited
         /\ Visit(p, max, s).result = s.result
<1>1. Visit(p, max, s) = [s EXCEPT !.queue = Tail(s.queue)] BY DEF Visit
<1> QED BY <1>1 DEF BfsState

LEMMA VisitFresh ==
  ASSUME EdgesOK, NEW s \in BfsState, NEW p \in Predicates, NEW max \in Nat, s.queue # <<>>,
         NEW at \in Item, at = Head(s.queue), at.node \notin s.visited
  PROVE  \E new : Turned(s, at, new, p, max, Visit(p, max, s))
<1>1. PICK seen : seen = s.visited \cup {at.node} OBVIOUS
<1>2. PICK o : o = outgoing[at.node] OBVIOUS
<1>3. o \in Seq(GraphEdge) /\ at.node \in Subjects /\ at.depth \in Nat /\ at.strength \in Nat
  BY <1>2 DEF EdgesOK, Item
<1>4. PICK I : I = {i \in DOMAIN o : o[i].predicate = p} OBVIOUS
<1>5. PICK edges : edges = Picked(o, I) OBVIOUS
<1>6. I \subseteq DOMAIN o BY <1>4
<1>7. edges \in Seq(GraphEdge) /\ Len(edges) <= Len(o)
  BY <1>3, <1>5, <1>6, Picking
<1>8. /\ \A k \in DOMAIN edges : \E i \in I : edges[k] = o[i]
      /\ \A i \in I : \E k \in DOMAIN edges : edges[k] = o[i]
  BY <1>3, <1>5, <1>6, PickedElements
<1>9. PICK J : J = {i \in DOMAIN edges : edges[i].object \notin seen} OBVIOUS
<1>10. PICK ahead : ahead = Picked(edges, J) OBVIOUS
<1>11. J \subseteq DOMAIN edges BY <1>9
<1>12. ahead \in Seq(GraphEdge) /\ Len(ahead) <= Len(edges)
  BY <1>7, <1>10, <1>11, Picking
<1>13. /\ \A k \in DOMAIN ahead : \E i \in J : ahead[k] = edges[i]
       /\ \A i \in J : \E k \in DOMAIN ahead : ahead[k] = edges[i]
  BY <1>7, <1>10, <1>11, PickedElements
<1>14. PICK sons : sons = [i \in DOMAIN ahead |-> [node |-> ahead[i].object, depth |-> at.depth + 1,
                                                   strength |-> Weaker(at.strength, ahead[i])]]
  OBVIOUS
<1>15. PICK new : new = IF at.depth >= max THEN <<>> ELSE sons OBVIOUS
<1>16. Along(outgoing[at.node], p) = edges BY <1>2, <1>4, <1>5 DEF Along
<1>17. Visit(p, max, s) = [queue |-> Tail(s.queue) \o new, visited |-> seen,
                           result |-> IF at.depth = 0 THEN s.result ELSE Append(s.result, at)]
  BY <1>1, <1>9, <1>10, <1>14, <1>15, <1>16 DEF Visit
<1>18. \A k \in DOMAIN ahead : ahead[k].object \in Subjects \ seen /\ Joins(p, at.node, ahead[k].object)
  <2>1. ASSUME NEW k \in DOMAIN ahead
        PROVE  ahead[k].object \in Subjects \ seen /\ Joins(p, at.node, ahead[k].object)
    <3>1. PICK i \in J : ahead[k] = edges[i] BY <1>13
    <3>2. i \in DOMAIN edges /\ edges[i].object \notin seen BY <1>9, <3>1
    <3>3. PICK j \in I : edges[i] = o[j] BY <1>8, <3>2
    <3>4. j \in DOMAIN o /\ o[j].predicate = p BY <1>4, <3>3
    <3>5. o[j] \in GraphEdge BY <1>3, <3>4
    <3>6. o[j].object \in Subjects BY <3>5 DEF GraphEdge
    <3>7. Joins(p, at.node, o[j].object) BY <1>2, <3>4 DEF Joins
    <3> QED BY <3>1, <3>2, <3>3, <3>6, <3>7
  <2> QED BY <2>1
<1>19. ASSUME NEW n \in Subjects \ seen, Joins(p, at.node, n) PROVE \E k \in DOMAIN ahead : ahead[k].object = n
  <2>1. PICK j \in DOMAIN o : o[j].predicate = p /\ o[j].object = n BY <1>2, <1>19 DEF Joins
  <2>2. j \in I BY <1>4, <2>1
  <2>3. PICK i \in DOMAIN edges : edges[i] = o[j] BY <1>8, <2>2
  <2>4. i \in J BY <1>9, <1>19, <2>1, <2>3
  <2>5. PICK k \in DOMAIN ahead : ahead[k] = edges[i] BY <1>13, <2>4
  <2> QED BY <2>1, <2>3, <2>5
<1>20. \A k \in DOMAIN ahead : Weaker(at.strength, ahead[k]) \in Nat
  <2>1. \A k \in DOMAIN ahead : ahead[k] \in GraphEdge BY <1>12
  <2> QED BY <1>3, <2>1, WeakerType
<1>20a. \A k \in DOMAIN ahead :
         Follows(p, <<at.node, at.strength>>, <<ahead[k].object, Weaker(at.strength, ahead[k])>>)
  <2>1. ASSUME NEW k \in DOMAIN ahead
        PROVE  Follows(p, <<at.node, at.strength>>, <<ahead[k].object, Weaker(at.strength, ahead[k])>>)
    <3>1. PICK i \in J : ahead[k] = edges[i] BY <1>13
    <3>2. i \in DOMAIN edges BY <1>9, <3>1
    <3>3. PICK j \in I : edges[i] = o[j] BY <1>8, <3>2
    <3>4. j \in DOMAIN o /\ o[j].predicate = p /\ o[j] = ahead[k] BY <1>4, <3>1, <3>3
    <3>5. PICK x : x = <<at.node, at.strength>> OBVIOUS
    <3>6. x[1] = at.node /\ x[2] = at.strength BY <3>5
    <3>7. Follows(p, x, <<ahead[k].object, Weaker(at.strength, ahead[k])>>) BY <1>2, <3>4, <3>6 DEF Follows
    <3> QED BY <3>5, <3>7
  <2> QED BY <2>1
<1>21. DOMAIN sons = DOMAIN ahead BY <1>14
<1>22. \A k \in DOMAIN ahead : /\ sons[k].node = ahead[k].object /\ sons[k].depth = at.depth + 1
                              /\ sons[k].strength = Weaker(at.strength, ahead[k]) /\ sons[k] \in Item
  BY <1>3, <1>14, <1>18, <1>20 DEF Item
<1>23. sons \in Seq(Item) /\ Len(sons) = Len(ahead)
  <2>1. PICK m \in Nat : m = Len(ahead) /\ DOMAIN ahead = 1 .. m BY <1>12
  <2>2. sons = [k \in 1 .. m |-> sons[k]] BY <1>14, <2>1
  <2>3. sons \in [1 .. m -> Item] BY <1>22, <2>1, <2>2
  <2> QED BY <2>1, <2>3
<1>24. CASE at.depth >= max
  <2>1. new = <<>> BY <1>15, <1>24
  <2>2. Found(new, at, p, max, seen)
    <3>1. new \in Seq(Item) /\ DOMAIN new = {} /\ Len(new) = 0 BY <2>1
    <3>2. ~ at.depth < max BY <1>3, <1>24
    <3>3. Len(new) <= Len(o) BY <1>3, <3>1
    <3> QED BY <1>2, <2>1, <3>1, <3>2, <3>3 DEF Found
  <2>3. Turned(s, at, new, p, max, Visit(p, max, s)) BY <1>1, <1>17, <2>2 DEF Turned
  <2> QED BY <2>3
<1>25. CASE ~ at.depth >= max
  <2>1. new = sons BY <1>15, <1>25
  <2>2. at.depth < max BY <1>3, <1>25
  <2>3. Found(new, at, p, max, seen)
    <3>1. Len(new) <= Len(o) BY <1>3, <1>7, <1>12, <1>23, <2>1
    <3>2. \A i \in DOMAIN new : /\ new[i].node \notin seen /\ Joins(p, at.node, new[i].node)
                                /\ new[i].depth = at.depth + 1
                                /\ Follows(p, <<at.node, at.strength>>, <<new[i].node, new[i].strength>>)
      BY <1>18, <1>21, <1>22, <1>20a, <2>1
    <3>3. \A n \in Subjects \ seen : Joins(p, at.node, n) => \E i \in DOMAIN new : new[i].node = n
      BY <1>19, <1>21, <1>22, <2>1
    <3> QED BY <1>2, <1>23, <1>25, <2>1, <2>2, <3>1, <3>2, <3>3 DEF Found
  <2>4. Turned(s, at, new, p, max, Visit(p, max, s)) BY <1>1, <1>17, <2>3 DEF Turned
  <2> QED BY <2>4
<1> QED BY <1>24, <1>25

LEMMA ConcatLength ==
  ASSUME NEW X, NEW s \in Seq(X), NEW t \in Seq(X) PROVE Len(s \o t) = Len(s) + Len(t)
BY ConcatProperties

\* What waits in the queue when the search stands at the distance d.
Waiting(q, b, c, d, max) ==
  /\ \A i \in DOMAIN q : /\ q[i].depth \in {d, d + 1} /\ q[i].depth <= max
                         /\ q[i].node \in b[q[i].depth] /\ <<q[i].node, q[i].strength>> \in c[q[i].depth]
  /\ \A i, j \in DOMAIN q : i < j => q[i].depth <= q[j].depth

\* What has been found.
Reached(r, visited, start, b, c, d) ==
  /\ \A i \in DOMAIN r : /\ r[i].node \in visited /\ r[i].depth \in 1 .. d
                         /\ r[i].node \in b[r[i].depth] \ b[r[i].depth - 1]
                         /\ <<r[i].node, r[i].strength>> \in c[r[i].depth]
  /\ \A n \in visited : n = start \/ \E i \in DOMAIN r : r[i].node = n
  /\ \A i, j \in DOMAIN r : i < j => r[i].node # r[j].node /\ r[i].depth <= r[j].depth

\* The nodes nearer than d are marked, those at d marked or waiting, and so are
\* the nodes one edge from a marked one.
Marked(q, visited, p, b, d, max) ==
  /\ visited \subseteq b[d]
  /\ d # 0 => b[d - 1] \subseteq visited
  /\ \A n \in b[d] : n \in visited \/ \E i \in DOMAIN q : q[i].node = n /\ q[i].depth = d
  /\ d < max => \A m \in visited : \A n \in Subjects :
       Joins(p, m, n) => n \in visited \/ \E i \in DOMAIN q : q[i].node = n

Level(s, start, p, b, c, d, max) ==
  /\ s \in BfsState /\ d \in 0 .. max
  /\ Waiting(s.queue, b, c, d, max)
  /\ Reached(s.result, s.visited, start, b, c, d)
  /\ Marked(s.queue, s.visited, p, b, d, max)

\* When everything that waits is farther, the search stands one edge farther.
LEMMA Advance ==
  ASSUME NEW max \in Nat, NEW start, NEW p, NEW b, Hops(b, start, p), NEW c, NEW d, NEW s,
         Level(s, start, p, b, c, d, max), s.queue # <<>>, Head(s.queue).depth # d
  PROVE  Level(s, start, p, b, c, d + 1, max)
<1>1. PICK q : q = s.queue OBVIOUS
<1>2. PICK v : v = s.visited OBVIOUS
<1>3. PICK r : r = s.result OBVIOUS
<1>4. q \in Seq(Item) /\ v \subseteq Subjects /\ r \in Seq(Item) /\ s \in BfsState
  BY <1>1, <1>2, <1>3 DEF Level, BfsState
<1>5. d \in Nat /\ d <= max BY DEF Level
<1>6. Waiting(q, b, c, d, max) /\ Reached(r, v, start, b, c, d) /\ Marked(q, v, p, b, d, max)
  BY <1>1, <1>2, <1>3 DEF Level
<1>7. PICK m \in Nat : m = Len(q) /\ DOMAIN q = 1 .. m BY <1>4
<1>8. m >= 1 /\ Head(q) = q[1] /\ 1 \in DOMAIN q BY <1>1, <1>4, <1>7
<1>9. q[1].depth = d + 1 BY <1>1, <1>6, <1>8 DEF Waiting
<1>10. \A i \in DOMAIN q : q[i].depth = d + 1
  <2>1. ASSUME NEW i \in DOMAIN q PROVE q[i].depth = d + 1
    <3>1. q[i].depth \in {d, d + 1} BY <1>6 DEF Waiting
    <3>2. i = 1 \/ 1 < i BY <1>7
    <3>3. i = 1 \/ d + 1 <= q[i].depth BY <1>6, <1>8, <1>9, <3>2 DEF Waiting
    <3> QED BY <1>5, <1>9, <3>1, <3>3
  <2> QED BY <2>1
<1>11. d + 1 <= max BY <1>6, <1>8, <1>9 DEF Waiting
<1>12. d + 1 \in 0 .. max /\ d < max /\ d + 1 # 0 /\ (d + 1) - 1 = d /\ d # d + 1 BY <1>5, <1>11
<1>13. v = b[d]
  <2>1. \A n \in b[d] : n \in v BY <1>6, <1>10, <1>12 DEF Marked
  <2> QED BY <1>6, <2>1 DEF Marked
<1>14. Waiting(q, b, c, d + 1, max)
  <2>1. \A i \in DOMAIN q : q[i].depth \in {d + 1, (d + 1) + 1} BY <1>10
  <2> QED BY <1>6, <2>1 DEF Waiting
<1>15. Reached(r, v, start, b, c, d + 1)
  <2>1. \A i \in DOMAIN r : r[i].depth \in 1 .. d BY <1>6 DEF Reached
  <2>2. \A i \in DOMAIN r : r[i].depth \in 1 .. d + 1 BY <1>5, <2>1
  <2> QED BY <1>6, <2>2 DEF Reached
<1>16. Marked(q, v, p, b, d + 1, max)
  <2>1. b[d] \subseteq b[d + 1] /\ b[d + 1] \subseteq Subjects
    BY <1>5, <1>12 DEF Hops
  <2>2. ASSUME NEW n \in b[d + 1] PROVE n \in v \/ \E i \in DOMAIN q : q[i].node = n /\ q[i].depth = d + 1
    <3>1. n \in Subjects BY <2>1
    <3>2. n \in b[d] \/ \E k \in b[d] : Joins(p, k, n) BY <1>5, <3>1 DEF Hops
    <3>3. CASE n \in b[d] BY <1>13, <3>3
    <3>4. ASSUME NEW k \in b[d], Joins(p, k, n) PROVE n \in v \/ \E i \in DOMAIN q : q[i].node = n /\ q[i].depth = d + 1
      <4>1. n \in v \/ \E i \in DOMAIN q : q[i].node = n
        BY <1>6, <1>12, <1>13, <3>1, <3>4 DEF Marked
      <4> QED BY <1>10, <4>1
    <3> QED BY <3>2, <3>3, <3>4
  <2>3. \A k \in v : \A n \in Subjects : Joins(p, k, n) => n \in v \/ \E i \in DOMAIN q : q[i].node = n
    BY <1>6, <1>12 DEF Marked
  <2> QED BY <1>12, <1>13, <2>1, <2>2, <2>3 DEF Marked
<1> QED BY <1>1, <1>2, <1>3, <1>4, <1>12, <1>14, <1>15, <1>16 DEF Level

\* A marked node is dropped from the queue.
LEMMA TurnStale ==
  ASSUME NEW max \in Nat, NEW start, NEW p, NEW b, NEW c, NEW d, NEW s,
         Level(s, start, p, b, c, d, max), s.queue # <<>>, Head(s.queue).node \in s.visited
  PROVE  Level(Visit(p, max, s), start, p, b, c, d, max)
<1>1. PICK q : q = s.queue OBVIOUS
<1>2. PICK v : v = s.visited OBVIOUS
<1>3. PICK r : r = s.result OBVIOUS
<1>4. q \in Seq(Item) /\ v \subseteq Subjects /\ r \in Seq(Item) /\ s \in BfsState
  BY <1>1, <1>2, <1>3 DEF Level, BfsState
<1>5. Waiting(q, b, c, d, max) /\ Reached(r, v, start, b, c, d) /\ Marked(q, v, p, b, d, max)
  BY <1>1, <1>2, <1>3 DEF Level
<1>6. PICK m \in Nat : m = Len(q) /\ DOMAIN q = 1 .. m BY <1>4
<1>7. m >= 1 /\ Head(q) = q[1] BY <1>1, <1>4, <1>6
<1>8. PICK t : t = Tail(q) OBVIOUS
<1>9. t \in Seq(Item) /\ Len(t) = m - 1 /\ DOMAIN t = 1 .. m - 1 /\ \A i \in 1 .. m - 1 : t[i] = q[i + 1]
  BY <1>4, <1>6, <1>7, <1>8
<1>10. \A i \in DOMAIN t : i + 1 \in DOMAIN q BY <1>6, <1>9
<1>11. PICK u : u = Visit(p, max, s) OBVIOUS
<1>12. u.queue = t /\ u.visited = v /\ u.result = r
  BY <1>1, <1>2, <1>3, <1>4, <1>8, <1>11, VisitStale
<1>13. u \in BfsState
  <2>1. u = [s EXCEPT !.queue = Tail(s.queue)] BY <1>11 DEF Visit
  <2>2. DOMAIN s = {"queue", "visited", "result"} /\ s = [k \in DOMAIN s |-> s[k]] BY <1>4 DEF BfsState
  <2>3. u = [queue |-> t, visited |-> v, result |-> r] BY <1>1, <1>2, <1>3, <1>4, <1>8, <2>1 DEF BfsState
  <2> QED BY <1>4, <1>9, <2>3 DEF BfsState
<1>14. Waiting(t, b, c, d, max)
  <2>1. \A i, j \in DOMAIN t : i < j => t[i].depth <= t[j].depth
    <3>1. ASSUME NEW i \in DOMAIN t, NEW j \in DOMAIN t, i < j PROVE t[i].depth <= t[j].depth
      <4>1. i + 1 < j + 1 BY <1>9, <3>1
      <4>2. q[i + 1].depth <= q[j + 1].depth BY <1>5, <1>10, <4>1 DEF Waiting
      <4> QED BY <1>9, <4>2
    <3> QED BY <3>1
  <2> QED BY <1>5, <1>9, <1>10, <2>1 DEF Waiting
<1>15. Marked(t, v, p, b, d, max)
  <2>1. ASSUME NEW i \in DOMAIN q, q[i].node \notin v PROVE \E j \in DOMAIN t : t[j] = q[i]
    <3>1. i # 1 BY <1>1, <1>2, <1>7, <2>1
    <3>2. i - 1 \in 1 .. m - 1 /\ (i - 1) + 1 = i BY <1>6, <3>1
    <3> QED BY <1>9, <3>2
  <2>2. \A n \in b[d] : n \in v \/ \E i \in DOMAIN t : t[i].node = n /\ t[i].depth = d
    <3>1. ASSUME NEW n \in b[d], n \notin v PROVE \E i \in DOMAIN t : t[i].node = n /\ t[i].depth = d
      <4>1. PICK i \in DOMAIN q : q[i].node = n /\ q[i].depth = d BY <1>5, <3>1 DEF Marked
      <4>2. PICK j \in DOMAIN t : t[j] = q[i] BY <2>1, <3>1, <4>1
      <4> QED BY <4>1, <4>2
    <3> QED BY <3>1
  <2>3. ASSUME d < max, NEW k \in v, NEW n \in Subjects, Joins(p, k, n), n \notin v
        PROVE  \E i \in DOMAIN t : t[i].node = n
    <3>1. PICK i \in DOMAIN q : q[i].node = n BY <1>5, <2>3 DEF Marked
    <3>2. PICK j \in DOMAIN t : t[j] = q[i] BY <2>1, <2>3, <3>1
    <3> QED BY <3>1, <3>2
  <2> QED BY <1>5, <2>2, <2>3 DEF Marked
<1> QED BY <1>5, <1>11, <1>12, <1>13, <1>14, <1>15 DEF Level

\* A node that is not marked is found, and what it leads to waits.
LEMMA TurnFresh ==
  ASSUME EdgesOK, NEW p \in Predicates, NEW max \in Nat, NEW start \in Subjects,
         NEW b, Hops(b, start, p), NEW c, Carried(c, start, p), NEW d, NEW s,
         Level(s, start, p, b, c, d, max), s.queue # <<>>,
         Head(s.queue).depth = d, Head(s.queue).node \notin s.visited
  PROVE  Level(Visit(p, max, s), start, p, b, c, d, max)
<1>1. PICK q : q = s.queue OBVIOUS
<1>2. PICK v : v = s.visited OBVIOUS
<1>3. PICK r : r = s.result OBVIOUS
<1>4. q \in Seq(Item) /\ v \subseteq Subjects /\ r \in Seq(Item) /\ s \in BfsState
  BY <1>1, <1>2, <1>3 DEF Level, BfsState
<1>5. Waiting(q, b, c, d, max) /\ Reached(r, v, start, b, c, d) /\ Marked(q, v, p, b, d, max)
  BY <1>1, <1>2, <1>3 DEF Level
<1>6. PICK m \in Nat : m = Len(q) /\ DOMAIN q = 1 .. m BY <1>4
<1>7. m >= 1 /\ Head(q) = q[1] /\ 1 \in DOMAIN q BY <1>1, <1>4, <1>6
<1>8. PICK t : t = Tail(q) OBVIOUS
<1>9. t \in Seq(Item) /\ Len(t) = m - 1 /\ DOMAIN t = 1 .. m - 1 /\ \A i \in 1 .. m - 1 : t[i] = q[i + 1]
  BY <1>4, <1>6, <1>7, <1>8
<1>10. \A i \in DOMAIN t : i + 1 \in DOMAIN q BY <1>6, <1>9
<1>11. PICK at : at = Head(q) OBVIOUS
<1>11a. at \in Item /\ at = q[1] /\ at.depth = d /\ at.node \notin v
  BY <1>1, <1>2, <1>4, <1>7, <1>11
<1>11b. q[1].node \in b[q[1].depth] /\ <<q[1].node, q[1].strength>> \in c[q[1].depth]
  BY <1>5, <1>7 DEF Waiting
<1>12. at \in Item /\ at = q[1] /\ at.depth = d /\ at.node \notin v /\ at.node \in b[d] /\ <<at.node, at.strength>> \in c[d]
  BY <1>11a, <1>11b
<1>13. d \in Nat /\ d <= max /\ d \in 0 .. max /\ b[d] \subseteq Subjects BY DEF Level, Hops
<1>14. PICK u : u = Visit(p, max, s) OBVIOUS
<1>15. PICK seen : seen = v \cup {at.node} OBVIOUS
<1>16. PICK new : /\ Found(new, at, p, max, seen)
                  /\ u.queue = t \o new /\ u.visited = seen
                  /\ u.result = IF at.depth = 0 THEN r ELSE Append(r, at)
  <2>1. at = Head(s.queue) /\ at.node \notin s.visited BY <1>1, <1>2, <1>11, <1>12
  <2>2. PICK new : Turned(s, at, new, p, max, Visit(p, max, s)) BY <1>4, <1>12, <2>1, VisitFresh
  <2>3. /\ Found(new, at, p, max, seen)
        /\ u.queue = t \o new /\ u.visited = seen
        /\ u.result = IF at.depth = 0 THEN r ELSE Append(r, at)
    BY <1>1, <1>2, <1>3, <1>8, <1>14, <1>15, <2>2 DEF Turned
  <2> QED BY <2>3
<1>17. new \in Seq(Item) BY <1>16 DEF Found
<1>18. PICK w : w = t \o new OBVIOUS
<1>19. PICK k \in Nat : k = Len(new) /\ DOMAIN new = 1 .. k BY <1>17
<1>20. /\ w \in Seq(Item) /\ DOMAIN w = 1 .. (m - 1) + k
       /\ \A i \in 1 .. m - 1 : w[i] = q[i + 1]
       /\ \A i \in m .. (m - 1) + k : w[i] = new[i - (m - 1)]
  <2>1. w \in Seq(Item) /\ Len(w) = (m - 1) + k
    <3>1. t \o new \in Seq(Item) BY <1>9, <1>17
    <3>2. Len(t \o new) = Len(t) + Len(new) BY <1>9, <1>17, ConcatLength
    <3> QED BY <1>9, <1>18, <1>19, <3>1, <3>2
  <2>2. \A i \in 1 .. m - 1 : w[i] = t[i] BY <1>9, <1>17, <1>18, <1>19
  <2>3. \A i \in m .. (m - 1) + k : w[i] = new[i - (m - 1)] BY <1>7, <1>9, <1>17, <1>18, <1>19
  <2> QED BY <1>6, <1>7, <1>9, <1>19, <2>1, <2>2, <2>3
<1>21. \A i \in DOMAIN w : \/ i \in 1 .. m - 1 /\ i + 1 \in DOMAIN q /\ w[i] = q[i + 1]
                           \/ i \in m .. (m - 1) + k /\ i - (m - 1) \in DOMAIN new /\ w[i] = new[i - (m - 1)]
  <2>1. ASSUME NEW i \in 1 .. (m - 1) + k
        PROVE \/ i \in 1 .. m - 1 /\ i + 1 \in 1 .. m
              \/ i \in m .. (m - 1) + k /\ i - (m - 1) \in 1 .. k
    BY <1>7
  <2> QED BY <1>6, <1>19, <1>20, <2>1
<1>22. /\ \A i \in DOMAIN new : /\ new[i].node \notin seen /\ Joins(p, at.node, new[i].node)
                                /\ new[i].depth = d + 1 /\ d < max
                                /\ <<new[i].node, new[i].strength>> \in c[d + 1]
                                /\ new[i].node \in b[d + 1]
  <2>1. ASSUME NEW i \in DOMAIN new PROVE new[i].node \in b[d + 1] /\ <<new[i].node, new[i].strength>> \in c[d + 1]
    <3>1. new[i] \in Item BY <1>17
    <3>2. new[i].node \in Subjects BY <3>1 DEF Item
    <3>3. /\ Joins(p, at.node, new[i].node)
          /\ Follows(p, <<at.node, at.strength>>, <<new[i].node, new[i].strength>>)
      BY <1>16 DEF Found
    <3>4. new[i].node \in b[d + 1] BY <1>12, <1>13, <3>2, <3>3 DEF Hops
    <3>5. <<new[i].node, new[i].strength>> \in c[d + 1] BY <1>12, <1>13, <3>3 DEF Carried
    <3> QED BY <3>4, <3>5
  <2> QED BY <1>12, <1>16, <2>1 DEF Found
<1>23. Waiting(w, b, c, d, max)
  <2>1. ASSUME NEW i \in DOMAIN w
        PROVE  /\ w[i].depth \in {d, d + 1} /\ w[i].depth <= max
               /\ w[i].node \in b[w[i].depth] /\ <<w[i].node, w[i].strength>> \in c[w[i].depth]
    <3>1. CASE i \in 1 .. m - 1 /\ i + 1 \in DOMAIN q /\ w[i] = q[i + 1] BY <1>5, <3>1 DEF Waiting
    <3>2. CASE i \in m .. (m - 1) + k /\ i - (m - 1) \in DOMAIN new /\ w[i] = new[i - (m - 1)]
      <4>1. d < max BY <1>22, <3>2
      <4>2. d + 1 <= max BY <1>13, <4>1
      <4> QED BY <1>22, <3>2, <4>2
    <3> QED BY <1>21, <3>1, <3>2
  <2>2. ASSUME NEW i \in DOMAIN w, NEW j \in DOMAIN w, i < j PROVE w[i].depth <= w[j].depth
    <3>1. i \in Nat /\ j \in Nat BY <1>20
    <3>2. CASE i \in 1 .. m - 1 /\ i + 1 \in DOMAIN q /\ w[i] = q[i + 1]
      <4>1. CASE j \in 1 .. m - 1 /\ j + 1 \in DOMAIN q /\ w[j] = q[j + 1]
        <5>1. i + 1 < j + 1 BY <2>2, <3>1
        <5>2. q[i + 1].depth <= q[j + 1].depth BY <1>5, <3>2, <4>1, <5>1 DEF Waiting
        <5> QED BY <3>2, <4>1, <5>2
      <4>2. CASE j \in m .. (m - 1) + k /\ j - (m - 1) \in DOMAIN new /\ w[j] = new[j - (m - 1)]
        <5>1. w[j].depth = d + 1 BY <1>22, <4>2
        <5>2. w[i].depth \in {d, d + 1} BY <2>1
        <5> QED BY <1>13, <5>1, <5>2
      <4> QED BY <1>21, <4>1, <4>2
    <3>3. CASE i \in m .. (m - 1) + k /\ i - (m - 1) \in DOMAIN new /\ w[i] = new[i - (m - 1)]
      <4>1. j \in m .. (m - 1) + k BY <1>20, <2>2, <3>3
      <4>2. j - (m - 1) \in DOMAIN new /\ w[j] = new[j - (m - 1)] BY <1>19, <1>20, <4>1
      <4>3. w[i].depth = d + 1 /\ w[j].depth = d + 1 BY <1>22, <3>3, <4>2
      <4> QED BY <1>13, <4>3
    <3> QED BY <1>21, <3>2, <3>3
  <2> QED BY <2>1, <2>2 DEF Waiting
<1>24. Marked(w, seen, p, b, d, max)
  <2>1. ASSUME NEW i \in DOMAIN q, q[i].node \notin seen PROVE \E j \in DOMAIN w : w[j] = q[i]
    <3>1. i # 1 BY <1>12, <1>15, <2>1
    <3>2. i - 1 \in 1 .. m - 1 /\ (i - 1) + 1 = i BY <1>6, <3>1
    <3>3. w[i - 1] = q[i] /\ i - 1 \in DOMAIN w BY <1>19, <1>20, <3>2
    <3> QED BY <3>3
  <2>2. ASSUME NEW i \in DOMAIN new PROVE \E j \in DOMAIN w : w[j] = new[i]
    <3>1. i + (m - 1) \in m .. (m - 1) + k /\ (i + (m - 1)) - (m - 1) = i BY <1>7, <1>19
    <3>2. i + (m - 1) \in DOMAIN w BY <1>7, <1>20, <3>1
    <3> QED BY <1>20, <3>1, <3>2
  <2>3. seen \subseteq b[d] BY <1>5, <1>12, <1>15 DEF Marked
  <2>4. d # 0 => b[d - 1] \subseteq seen BY <1>5, <1>15 DEF Marked
  <2>5. ASSUME NEW n \in b[d], n \notin seen PROVE \E i \in DOMAIN w : w[i].node = n /\ w[i].depth = d
    <3>1. PICK i \in DOMAIN q : q[i].node = n /\ q[i].depth = d BY <1>5, <1>15, <2>5 DEF Marked
    <3>2. PICK j \in DOMAIN w : w[j] = q[i] BY <2>1, <2>5, <3>1
    <3> QED BY <3>1, <3>2
  <2>6. ASSUME d < max, NEW o \in seen, NEW n \in Subjects, Joins(p, o, n), n \notin seen
        PROVE  \E i \in DOMAIN w : w[i].node = n
    <3>1. CASE o \in v
      <4>1. PICK i \in DOMAIN q : q[i].node = n BY <1>5, <1>15, <2>6, <3>1 DEF Marked
      <4>2. PICK j \in DOMAIN w : w[j] = q[i] BY <2>1, <2>6, <4>1
      <4> QED BY <4>1, <4>2
    <3>2. CASE o = at.node
      <4>1. PICK i \in DOMAIN new : new[i].node = n BY <1>12, <1>16, <2>6, <3>2 DEF Found
      <4>2. PICK j \in DOMAIN w : w[j] = new[i] BY <2>2
      <4> QED BY <4>1, <4>2
    <3> QED BY <1>15, <2>6, <3>1, <3>2
  <2> QED BY <2>3, <2>4, <2>5, <2>6 DEF Marked
<1>25. CASE d = 0
  <2>1. u.result = r BY <1>12, <1>16, <1>25
  <2>2. at.node = start BY <1>12, <1>25 DEF Hops
  <2>3. Reached(r, seen, start, b, c, d) BY <1>5, <1>15, <2>2 DEF Reached
  <2>4. u \in BfsState
    <3>1. u = [queue |-> w, visited |-> seen, result |-> r]
      <4>1. u = [queue |-> u.queue, visited |-> u.visited, result |-> u.result]
        BY <1>1, <1>2, <1>11, <1>12, <1>14 DEF Visit
      <4> QED BY <1>16, <1>18, <2>1, <4>1
    <3>2. seen \subseteq Subjects BY <1>13, <1>15, <1>12, <1>4
    <3> QED BY <1>4, <1>20, <3>1, <3>2 DEF BfsState
  <2> QED BY <1>13, <1>14, <1>16, <1>18, <1>23, <1>24, <2>1, <2>3, <2>4 DEF Level
<1>26. CASE d # 0
  <2>1. PICK x : x = Append(r, at) OBVIOUS
  <2>2. u.result = x BY <1>12, <1>16, <1>26, <2>1
  <2>3. PICK l \in Nat : l = Len(r) /\ DOMAIN r = 1 .. l BY <1>4
  <2>4. x \in Seq(Item) /\ DOMAIN x = 1 .. l + 1 /\ x[l + 1] = at /\ \A i \in 1 .. l : x[i] = r[i]
    BY <1>4, <1>12, <2>1, <2>3
  <2>5. \A i \in DOMAIN x : (i \in DOMAIN r /\ x[i] = r[i]) \/ x[i] = at BY <2>3, <2>4
  <2>6. at.node \notin b[d - 1] BY <1>5, <1>12, <1>26 DEF Marked
  <2>7. d \in 1 .. d BY <1>13, <1>26
  <2>8. ASSUME NEW i \in DOMAIN x
        PROVE  /\ x[i].node \in seen /\ x[i].depth \in 1 .. d
               /\ x[i].node \in b[x[i].depth] \ b[x[i].depth - 1]
               /\ <<x[i].node, x[i].strength>> \in c[x[i].depth]
    <3>1. CASE i \in DOMAIN r /\ x[i] = r[i] BY <1>5, <1>15, <3>1 DEF Reached
    <3>2. CASE x[i] = at BY <1>12, <1>15, <2>6, <2>7, <3>2
    <3> QED BY <2>5, <3>1, <3>2
  <2>9. ASSUME NEW n \in seen, n # start PROVE \E i \in DOMAIN x : x[i].node = n
    <3>1. CASE n \in v
      <4>1. PICK i \in DOMAIN r : r[i].node = n BY <1>5, <2>9, <3>1 DEF Reached
      <4> QED BY <2>3, <2>4, <4>1
    <3>2. CASE n = at.node
      <4>1. l + 1 \in DOMAIN x BY <2>4
      <4> QED BY <2>4, <3>2, <4>1
    <3> QED BY <1>15, <3>1, <3>2
  <2>10. ASSUME NEW i \in DOMAIN x, NEW j \in DOMAIN x, i < j
         PROVE  x[i].node # x[j].node /\ x[i].depth <= x[j].depth
    <3>1. i \in DOMAIN r /\ x[i] = r[i] BY <2>3, <2>4, <2>10
    <3>2. CASE j \in DOMAIN r /\ x[j] = r[j] BY <1>5, <2>10, <3>1, <3>2 DEF Reached
    <3>3. CASE x[j] = at
      <4>1. r[i].node \in v /\ r[i].depth \in 1 .. d BY <1>5, <3>1 DEF Reached
      <4>2. r[i].depth <= d BY <4>1
      <4>3. r[i].node # at.node BY <1>12, <4>1
      <4> QED BY <1>12, <3>1, <3>3, <4>2, <4>3
    <3> QED BY <2>5, <3>2, <3>3
  <2>11. Reached(x, seen, start, b, c, d) BY <2>8, <2>9, <2>10 DEF Reached
  <2>12. u \in BfsState
    <3>1. u = [queue |-> w, visited |-> seen, result |-> x]
      <4>1. u = [queue |-> u.queue, visited |-> u.visited, result |-> u.result]
        BY <1>1, <1>2, <1>11, <1>12, <1>14 DEF Visit
      <4> QED BY <1>16, <1>18, <2>2, <4>1
    <3>2. seen \subseteq Subjects BY <1>13, <1>15, <1>12, <1>4
    <3> QED BY <1>4, <1>20, <2>4, <3>1, <3>2 DEF BfsState
  <2> QED BY <1>13, <1>14, <1>16, <1>18, <1>23, <1>24, <2>2, <2>11, <2>12 DEF Level
<1> QED BY <1>25, <1>26

\* A queue without an item: everything within max hops has been found.
LEMMA SearchEnds ==
  ASSUME NEW max \in Nat, NEW start, NEW p, NEW b, Hops(b, start, p), NEW c, NEW d, NEW s,
         Level(s, start, p, b, c, d, max), s.queue = <<>>
  PROVE  b[max] \subseteq s.visited
<1>1. PICK v : v = s.visited OBVIOUS
<1>2. Marked(<<>>, v, p, b, d, max) /\ v \subseteq Subjects BY <1>1 DEF Level, BfsState
<1>3. d \in Nat /\ d <= max BY DEF Level
<1>4. b[d] \subseteq v BY <1>2 DEF Marked
<1>5. CASE d = max BY <1>1, <1>4, <1>5
<1>6. CASE d < max
  <2>1. ASSUME NEW m \in v, NEW n \in Subjects, Joins(p, m, n) PROVE n \in v BY <1>2, <1>6, <2>1 DEF Marked
  <2> DEFINE T == {k \in 0 .. max - d : b[d + k] \subseteq v}
  <2>2. 0 \in T BY <1>3, <1>4
  <2>3. ASSUME NEW k \in 0 .. (max - d) - 1, k \in T PROVE k + 1 \in T
    <3>1. d + k \in Nat /\ (d + k) + 1 = d + (k + 1) BY <1>3
    <3>2. b[d + k] \subseteq v BY <2>3
    <3>3. b[(d + k) + 1] \subseteq v
      <4>1. b[(d + k) + 1] \subseteq Subjects BY <3>1 DEF Hops
      <4>2. ASSUME NEW n \in b[(d + k) + 1] PROVE n \in v
        <5>1. n \in Subjects BY <4>1
        <5>2. n \in b[d + k] \/ \E m \in b[d + k] : Joins(p, m, n) BY <3>1, <5>1 DEF Hops
        <5> QED BY <2>1, <3>2, <5>1, <5>2
      <4> QED BY <4>2
    <3> QED BY <1>3, <3>1, <3>3
  <2>4. max - d \in Nat /\ max - d \in 0 .. max - d /\ d + (max - d) = max BY <1>3
  <2> HIDE DEF T
  <2>5. 0 .. max - d \subseteq T BY <2>2, <2>3, <2>4, UpTo
  <2>6. max - d \in T BY <2>4, <2>5
  <2>7. b[d + (max - d)] \subseteq v BY <2>6 DEF T
  <2> QED BY <1>1, <2>4, <2>7
<1> QED BY <1>3, <1>5, <1>6

\* BfsRight of a result r.
RightResult(r, start, p, max) ==
  /\ \A i, j \in DOMAIN r : i < j => r[i].node # r[j].node /\ r[i].depth <= r[j].depth
  /\ {<<x.node, x.depth>> : x \in ToSet(r)} =
       UNION {{<<n, d>> : n \in Ball(start, p, d) \ Ball(start, p, d - 1)} : d \in 1..max}
  /\ \A x \in ToSet(r) : <<x.node, x.strength>> \in Walks(start, p, x.depth)

LEMMA ResultRight ==
  ASSUME NEW p \in Predicates, NEW max \in Nat, NEW start \in Subjects,
         NEW b, Hops(b, start, p), NEW c, Carried(c, start, p), NEW d, NEW s,
         Level(s, start, p, b, c, d, max), s.queue = <<>>
  PROVE  RightResult(s.result, start, p, max)
<1>1. PICK r : r = s.result OBVIOUS
<1>2. PICK v : v = s.visited OBVIOUS
<1>3. Reached(r, v, start, b, c, d) /\ r \in Seq(Item) BY <1>1, <1>2 DEF Level, BfsState
<1>4. d \in Nat /\ d <= max BY DEF Level
<1>5. \A x \in ToSet(r) : \E i \in DOMAIN r : x = r[i] BY DEF ToSet
<1>6. \A i \in DOMAIN r : r[i] \in ToSet(r) BY DEF ToSet
<1>7. \A i, j \in DOMAIN r : i < j => r[i].node # r[j].node /\ r[i].depth <= r[j].depth BY <1>3 DEF Reached
<1>8. ASSUME NEW x \in ToSet(r)
      PROVE  /\ x.depth \in 1 .. max /\ <<x.node, x.strength>> \in Walks(start, p, x.depth)
             /\ x.node \in Ball(start, p, x.depth) \ Ball(start, p, x.depth - 1)
  <2>1. PICK i \in DOMAIN r : x = r[i] BY <1>5
  <2>2. /\ x.depth \in 1 .. d /\ x.node \in b[x.depth] \ b[x.depth - 1] /\ <<x.node, x.strength>> \in c[x.depth]
    BY <1>3, <2>1 DEF Reached
  <2>3. x.depth \in 1 .. max /\ x.depth \in Nat /\ x.depth - 1 \in Nat BY <1>4, <2>2
  <2>4. Ball(start, p, x.depth) = b[x.depth] /\ Ball(start, p, x.depth - 1) = b[x.depth - 1]
    BY <2>3 DEF Hops
  <2>5. Walks(start, p, x.depth) = c[x.depth] BY <2>3 DEF Carried
  <2> QED BY <2>2, <2>3, <2>4, <2>5
<1>9. ASSUME NEW e \in 1 .. max, NEW n \in Ball(start, p, e) \ Ball(start, p, e - 1)
      PROVE  \E x \in ToSet(r) : x.node = n /\ x.depth = e
  <2>1. e \in Nat /\ e - 1 \in Nat /\ e <= max BY <1>9
  <2>2. n \in b[e] /\ n \notin b[e - 1] BY <1>9, <2>1 DEF Hops
  <2>3. n \in v
    <3>1. b[e] \subseteq b[max] BY <2>1, HopsGrow
    <3>2. b[max] \subseteq v BY <1>2, SearchEnds
    <3> QED BY <2>2, <3>1, <3>2
  <2>4. n # start
    <3>1. b[0] \subseteq b[e - 1] BY <2>1, HopsGrow
    <3>2. start \in b[0] BY DEF Hops
    <3> QED BY <2>2, <3>1, <3>2
  <2>5. PICK i \in DOMAIN r : r[i].node = n BY <1>3, <2>3, <2>4 DEF Reached
  <2>6. PICK f : f = r[i].depth OBVIOUS
  <2>7. f \in 1 .. d /\ n \in b[f] /\ n \notin b[f - 1] BY <1>3, <2>5, <2>6 DEF Reached
  <2>8. f \in Nat /\ f - 1 \in Nat BY <1>4, <2>7
  <2>9. ~ f < e
    <3>1. ASSUME f < e PROVE FALSE
      <4>1. f <= e - 1 BY <2>1, <2>8, <3>1
      <4>2. b[f] \subseteq b[e - 1] BY <2>1, <2>8, <4>1, HopsGrow
      <4> QED BY <2>2, <2>7, <4>2
    <3> QED BY <3>1
  <2>10. ~ e < f
    <3>1. ASSUME e < f PROVE FALSE
      <4>1. e <= f - 1 BY <2>1, <2>8, <3>1
      <4>2. b[e] \subseteq b[f - 1] BY <2>1, <2>8, <4>1, HopsGrow
      <4> QED BY <2>2, <2>7, <4>2
    <3> QED BY <3>1
  <2>11. f = e BY <2>1, <2>8, <2>9, <2>10
  <2> QED BY <1>6, <2>5, <2>6, <2>11
<1>10. PICK A : A = {<<x.node, x.depth>> : x \in ToSet(r)} OBVIOUS
<1>11. PICK B : B = UNION {{<<n, e>> : n \in Ball(start, p, e) \ Ball(start, p, e - 1)} : e \in 1..max} OBVIOUS
<1>12. ASSUME NEW z \in A PROVE z \in B
  <2>1. PICK x \in ToSet(r) : z = <<x.node, x.depth>> BY <1>10
  <2>2. \E e \in 1 .. max : \E n \in Ball(start, p, e) \ Ball(start, p, e - 1) : z = <<n, e>> BY <1>8, <2>1
  <2> QED BY <1>11, <2>2
<1>13. ASSUME NEW z \in B PROVE z \in A
  <2>1. PICK e \in 1 .. max : \E n \in Ball(start, p, e) \ Ball(start, p, e - 1) : z = <<n, e>> BY <1>11
  <2>3. PICK n \in Ball(start, p, e) \ Ball(start, p, e - 1) : z = <<n, e>> BY <2>1
  <2>2. PICK x \in ToSet(r) : x.node = n /\ x.depth = e BY <1>9
  <2> QED BY <1>10, <2>2, <2>3
<1>14. A = B BY <1>12, <1>13
<1> QED BY <1>1, <1>7, <1>8, <1>10, <1>11, <1>14 DEF RightResult

LEMMA EdgesFinite ==
  ASSUME EdgesOK, NEW N \in SUBSET Subjects
  PROVE  IsFiniteSet(EdgesOf(N)) /\ Cardinality(EdgesOf(N)) \in Nat
<1>1. PICK A : A = [n \in Subjects |-> {n} \X DOMAIN outgoing[n]] OBVIOUS
<1>2. IsFiniteSet(N) BY GraphAssumption, FS_Subset
<1>3. ASSUME NEW n \in N PROVE IsFiniteSet(A[n])
  <2>1. PICK o : o = outgoing[n] OBVIOUS
  <2>2. o \in Seq(GraphEdge) BY <2>1 DEF EdgesOK
  <2>3. PICK m \in Nat : DOMAIN o = 1 .. m BY <2>2
  <2>4. IsFiniteSet(1 .. m) BY FS_Interval
  <2>5. IsFiniteSet({n}) BY FS_Singleton
  <2>6. IsFiniteSet({n} \X (1 .. m)) BY <2>4, <2>5, FS_Product
  <2> QED BY <1>1, <2>1, <2>3, <2>6
<1>4. IsFiniteSet(UNION {A[n] : n \in N}) BY <1>2, <1>3, FiniteFamily
<1>5. EdgesOf(N) = UNION {A[n] : n \in N}
  <2>1. \A n \in N : A[n] = {n} \X DOMAIN outgoing[n] BY <1>1
  <2> QED BY <2>1 DEF EdgesOf
<1> QED BY <1>4, <1>5, FS_CardinalityType

\* The edges of one node more.
LEMMA EdgesMore ==
  ASSUME EdgesOK, NEW N \in SUBSET Subjects, NEW n \in N
  PROVE  Cardinality(EdgesOf(N)) = Cardinality(EdgesOf(N \ {n})) + Len(outgoing[n])
<1>1. PICK A : A = EdgesOf(N \ {n}) OBVIOUS
<1>2. PICK o : o = outgoing[n] OBVIOUS
<1>3. PICK m \in Nat : m = Len(o) /\ DOMAIN o = 1 .. m BY <1>2 DEF EdgesOK
<1>4. PICK B : B = {n} \X (1 .. m) OBVIOUS
<1>5. IsFiniteSet(1 .. m) /\ Cardinality(1 .. m) = m BY FS_Interval
<1>6. IsFiniteSet({n}) /\ Cardinality({n}) = 1 BY FS_Singleton
<1>7. IsFiniteSet(B) /\ Cardinality(B) = 1 * m BY <1>4, <1>5, <1>6, FS_Product
<1>8. N \ {n} \in SUBSET Subjects OBVIOUS
<1>9. IsFiniteSet(A) /\ Cardinality(A) \in Nat BY <1>1, <1>8, EdgesFinite
<1>10. EdgesOf(N) = A \cup B
  <2>1. \A x : x \in A <=> \E k \in N \ {n} : x \in {k} \X DOMAIN outgoing[k] BY <1>1 DEF EdgesOf
  <2>2. \A x : x \in EdgesOf(N) <=> \E k \in N : x \in {k} \X DOMAIN outgoing[k] BY DEF EdgesOf
  <2>3. \A x : x \in B <=> x \in {n} \X DOMAIN outgoing[n] BY <1>2, <1>3, <1>4
  <2>4. \A x : x \in EdgesOf(N) <=> x \in A \cup B BY <2>1, <2>2, <2>3
  <2> QED BY <2>4
<1>11. A \cap B = {}
  <2>1. \A x \in A : \E k \in N \ {n} : x \in {k} \X DOMAIN outgoing[k] BY <1>1 DEF EdgesOf
  <2>2. \A x \in A : x[1] # n BY <2>1
  <2>3. \A x \in B : x[1] = n BY <1>4
  <2> QED BY <2>2, <2>3
<1>12. Cardinality(A \cup B) = Cardinality(A) + Cardinality(B) - Cardinality(A \cap B)
  BY <1>7, <1>9, FS_Union
<1>13. Cardinality(A \cap B) = 0 BY <1>11, FS_EmptySet
<1> QED BY <1>1, <1>2, <1>3, <1>7, <1>9, <1>10, <1>12, <1>13

BfsStart(start) ==
  [queue |-> <<[node |-> start, depth |-> 0, strength |-> 64]>>, visited |-> {}, result |-> <<>>]
BfsTurn(p, max, s) == IF s.queue = <<>> THEN s ELSE Visit(p, max, s)

\* The search stands somewhere, and can take k turns at most.
Searching(s, start, p, b, c, max) == \E d : Level(s, start, p, b, c, d, max)
Within(s, k) == s.queue = <<>> \/ Len(s.queue) + Cardinality(EdgesOf(Subjects \ s.visited)) <= k

LEMMA SearchStarts ==
  ASSUME EdgesOK, NEW max \in Nat, NEW start \in Subjects, NEW p \in Predicates,
         NEW b, Hops(b, start, p), NEW c, Carried(c, start, p)
  PROVE  /\ Searching(BfsStart(start), start, p, b, c, max)
         /\ EdgeCount \in Nat /\ Within(BfsStart(start), EdgeCount + 1)
<1>1. PICK at : at = [node |-> start, depth |-> 0, strength |-> 64] OBVIOUS
<1>2. PICK q : q = <<at>> OBVIOUS
<1>3. at \in Item BY <1>1 DEF Item
<1>4. q \in Seq(Item) /\ DOMAIN q = {1} /\ q[1] = at /\ Len(q) = 1 BY <1>2, <1>3
<1>5. PICK s : s = BfsStart(start) OBVIOUS
<1>6. s.queue = q /\ s.visited = {} /\ s.result = <<>> BY <1>1, <1>2, <1>5 DEF BfsStart
<1>7. s \in BfsState
  <2>1. s = [queue |-> q, visited |-> {}, result |-> <<>>] BY <1>1, <1>2, <1>5 DEF BfsStart
  <2>2. <<>> \in Seq(Item) OBVIOUS
  <2> QED BY <1>4, <2>1, <2>2 DEF BfsState
<1>8. Waiting(q, b, c, 0, max)
  <2>1. at.depth = 0 /\ at.node = start /\ at.strength = 64 BY <1>1
  <2>2. start \in b[0] /\ <<start, 64>> \in c[0] BY DEF Hops, Carried
  <2>3. \A i \in DOMAIN q : q[i] = at BY <1>4
  <2>4. \A i \in DOMAIN q : /\ q[i].depth \in {0, 0 + 1} /\ q[i].depth <= max
                            /\ q[i].node \in b[q[i].depth] /\ <<q[i].node, q[i].strength>> \in c[q[i].depth]
    BY <2>1, <2>2, <2>3
  <2>5. \A i, j \in DOMAIN q : i < j => q[i].depth <= q[j].depth BY <1>4
  <2> QED BY <2>4, <2>5 DEF Waiting
<1>9. Reached(<<>>, {}, start, b, c, 0) BY DEF Reached
<1>10. Marked(q, {}, p, b, 0, max)
  <2>1. \A n \in b[0] : n = start BY DEF Hops
  <2>2. q[1].node = start /\ q[1].depth = 0 /\ 1 \in DOMAIN q BY <1>1, <1>4
  <2>3. \A n \in b[0] : \E i \in DOMAIN q : q[i].node = n /\ q[i].depth = 0 BY <2>1, <2>2
  <2> QED BY <2>3 DEF Marked
<1>11. Level(s, start, p, b, c, 0, max) BY <1>6, <1>7, <1>8, <1>9, <1>10 DEF Level
<1>12. EdgeCount = Cardinality(EdgesOf(Subjects)) BY DEF EdgeCount, EdgesOf
<1>13. EdgeCount \in Nat BY <1>12, EdgesFinite
<1>15. Len(s.queue) + Cardinality(EdgesOf(Subjects \ s.visited)) <= EdgeCount + 1
  <2>1. PICK left \in Nat : left = EdgeCount BY <1>13
  <2>2. Subjects \ s.visited = Subjects BY <1>6
  <2>3. Cardinality(EdgesOf(Subjects \ s.visited)) = left BY <1>12, <2>1, <2>2
  <2>4. Len(s.queue) = 1 BY <1>4, <1>6
  <2> QED BY <2>1, <2>3, <2>4
<1> QED BY <1>5, <1>11, <1>13, <1>15 DEF Searching, Within

\* A turn keeps it searching and uses up one of what is left.
LEMMA SearchTurns ==
  ASSUME EdgesOK, NEW max \in Nat, NEW start \in Subjects, NEW p \in Predicates,
         NEW b, Hops(b, start, p), NEW c, Carried(c, start, p), NEW s, Searching(s, start, p, b, c, max)
  PROVE  /\ s \in BfsState /\ Searching(BfsTurn(p, max, s), start, p, b, c, max)
         /\ \A k \in Nat : Within(s, k) => Within(BfsTurn(p, max, s), k - 1)
<1>1. PICK e : Level(s, start, p, b, c, e, max) BY DEF Searching
<1>2. s \in BfsState BY <1>1 DEF Level
<1>3. CASE s.queue = <<>>
  <2>1. BfsTurn(p, max, s) = s BY <1>3 DEF BfsTurn
  <2> QED BY <1>2, <1>3, <2>1 DEF Within
<1>4. CASE s.queue # <<>>
  <2>1. BfsTurn(p, max, s) = Visit(p, max, s) BY <1>4 DEF BfsTurn
  <2>2. PICK q : q = s.queue OBVIOUS
  <2>3. PICK v : v = s.visited OBVIOUS
  <2>4. q \in Seq(Item) /\ q # <<>> /\ v \subseteq Subjects BY <1>2, <1>4, <2>2, <2>3 DEF BfsState
  <2>5. PICK m \in Nat : m = Len(q) BY <2>4
  <2>6. m >= 1 /\ Head(q) = q[1] /\ q[1] \in Item /\ 1 \in DOMAIN q BY <2>4, <2>5
  <2>7. Tail(q) \in Seq(Item) /\ Len(Tail(q)) = m - 1 BY <2>4, <2>5
  <2>8. PICK u : u = Visit(p, max, s) OBVIOUS
  <2>9. PICK at : at = Head(q) OBVIOUS
  <2>10. at \in Item /\ at = Head(s.queue) BY <2>2, <2>6, <2>9
  <2>11. PICK d : Level(s, start, p, b, c, d, max) /\ at.depth = d
    <3>1. CASE at.depth = e BY <1>1, <3>1
    <3>2. CASE at.depth # e
      <4>1. Level(s, start, p, b, c, e + 1, max) BY <1>1, <1>4, <2>10, <3>2, Advance
      <4>2. Waiting(q, b, c, e, max) BY <1>1, <2>2 DEF Level
      <4>3. at.depth = e + 1 BY <2>6, <2>9, <3>2, <4>2 DEF Waiting
      <4> QED BY <4>1, <4>3
    <3> QED BY <3>1, <3>2
  <2>12. PICK left \in Nat : left = Cardinality(EdgesOf(Subjects \ v)) BY EdgesFinite
  <2>13. CASE at.node \in v
    <3>1. Level(u, start, p, b, c, d, max) BY <1>4, <2>3, <2>8, <2>10, <2>11, <2>13, TurnStale
    <3>2. u.queue = Tail(q) /\ u.visited = v BY <1>2, <2>2, <2>3, <2>8, <2>10, <2>13, VisitStale
    <3>3. \A k \in Nat : Within(s, k) => Within(u, k - 1)
      <4>1. ASSUME NEW k \in Nat, Within(s, k) PROVE Within(u, k - 1)
        <5>1. m + left <= k BY <2>2, <2>3, <2>4, <2>5, <2>12, <4>1 DEF Within
        <5>2. (m - 1) + left <= k - 1 BY <5>1
        <5> QED BY <2>7, <2>12, <3>2, <5>2 DEF Within
      <4> QED BY <4>1
    <3> QED BY <1>2, <2>1, <2>8, <3>1, <3>3 DEF Searching
  <2>14. CASE at.node \notin v
    <3>1. Level(u, start, p, b, c, d, max) BY <1>4, <2>3, <2>8, <2>10, <2>11, <2>14, TurnFresh
    <3>2. PICK new : Turned(s, at, new, p, max, u) BY <1>2, <1>4, <2>3, <2>8, <2>10, <2>14, VisitFresh
    <3>3. /\ new \in Seq(Item) /\ Len(new) <= Len(outgoing[at.node])
          /\ u.queue = Tail(q) \o new /\ u.visited = v \cup {at.node}
      BY <2>2, <2>3, <3>2 DEF Turned, Found
    <3>4. PICK l \in Nat : l = Len(new) BY <3>3
    <3>5. at.node \in Subjects BY <2>10 DEF Item
    <3>6. PICK o : o = outgoing[at.node] OBVIOUS
    <3>7. Len(o) \in Nat BY <3>5, <3>6 DEF EdgesOK
    <3>8. Len(u.queue) = (m - 1) + l
      <4>1. PICK t : t = Tail(q) OBVIOUS
      <4>2. t \in Seq(Item) /\ Len(t) = m - 1 BY <2>7, <4>1
      <4>3. new \in Seq(Item) BY <3>3
      <4>4. Len(t \o new) = Len(t) + Len(new) BY <4>2, <4>3, ConcatLength
      <4> QED BY <3>3, <3>4, <4>1, <4>2, <4>4
    <3>9. PICK rest \in Nat : rest = Cardinality(EdgesOf(Subjects \ u.visited)) BY EdgesFinite
    <3>10. left = rest + Len(o)
      <4>1. (Subjects \ v) \ {at.node} = Subjects \ u.visited BY <3>3
      <4>2. at.node \in Subjects \ v /\ Subjects \ v \in SUBSET Subjects BY <2>14, <3>5
      <4> QED BY <2>12, <3>6, <3>9, <4>1, <4>2, EdgesMore
    <3>11. ASSUME NEW k \in Nat, Within(s, k) PROVE Within(u, k - 1)
      <4>1. m + left <= k BY <2>2, <2>3, <2>4, <2>5, <2>12, <3>11 DEF Within
      <4>2. l <= Len(o) BY <3>3, <3>4, <3>6
      <4>3. ((m - 1) + l) + rest <= k - 1 BY <3>7, <3>10, <4>1, <4>2
      <4> QED BY <3>8, <3>9, <4>3 DEF Within
    <3> QED BY <1>2, <2>1, <2>8, <3>1, <3>11 DEF Searching
  <2> QED BY <2>13, <2>14
<1> QED BY <1>3, <1>4

LEMMA BfsIsRight ==
  ASSUME EdgesOK, NEW max \in Nat, NEW start \in Subjects, NEW p \in Predicates
  PROVE  BfsRight(start, p, max)
<1>1. PICK b : Hops(b, start, p) BY BallHops
<1>2. PICK c : Carried(c, start, p) BY WalksCarry
<1>3. PICK n \in Nat : n = EdgeCount + 1 /\ Within(BfsStart(start), n) BY <1>1, <1>2, SearchStarts
<1> DEFINE Step(g) == [k \in 0 .. n |->
                         IF k = 0 THEN BfsStart(start)
                         ELSE IF g[k - 1].queue = <<>> THEN g[k - 1] ELSE Visit(p, max, g[k - 1])]
           w == CHOOSE g : g = Step(g)
           S == {x \in BfsState : Searching(x, start, p, b, c, max)}
           f == [x \in S \X (1 .. n) |-> BfsTurn(p, max, x[1])]
<1>4. Bfs(start, p, max) = w[n].result BY <1>3 DEF Bfs, BfsStart
<1>5. ASSUME NEW x, Searching(x, start, p, b, c, max) PROVE x \in S
  BY <1>1, <1>2, <1>5, SearchTurns
<1>6. BfsStart(start) \in S
  <2> HIDE DEF S
  <2> QED BY <1>1, <1>2, <1>5, SearchStarts
<1>7. \A x \in S : Searching(x, start, p, b, c, max) OBVIOUS
<1>8. \A x \in S : BfsTurn(p, max, x) \in S
  <2> HIDE DEF S
  <2> QED BY <1>1, <1>2, <1>5, <1>7, SearchTurns
<1>9. \A x \in S, k \in 1 .. n : f[<<x, k>>] = BfsTurn(p, max, x) OBVIOUS
<1>10. f \in [S \X (1 .. n) -> S]
  <2> HIDE DEF S
  <2> QED BY <1>8
<1> HIDE DEF S, f
<1>11. PICK g \in [0 .. n -> S] : Iterates(g, n, BfsStart(start), f) BY <1>6, <1>10, Iterate
<1>12. g = Step(g)
  <2>1. ASSUME NEW k \in 0 .. n PROVE g[k] = Step(g)[k]
    <3>1. CASE k = 0
      <4>1. g[0] = BfsStart(start) BY <1>11 DEF Iterates
      <4> QED BY <3>1, <4>1
    <3>2. CASE k # 0
      <4>1. k \in 1 .. n /\ k - 1 \in 0 .. n BY <3>2
      <4>2. g[k] = f[<<g[k - 1], k>>] BY <1>11, <4>1 DEF Iterates
      <4>3. g[k] = BfsTurn(p, max, g[k - 1]) BY <1>9, <1>11, <4>1, <4>2
      <4> QED BY <3>2, <4>3 DEF BfsTurn
    <3> QED BY <3>1, <3>2
  <2>2. g = [k \in 0 .. n |-> g[k]] /\ Step(g) = [k \in 0 .. n |-> Step(g)[k]] OBVIOUS
  <2> HIDE DEF Step
  <2> QED BY <2>1, <2>2
<1>13. w = Step(w)
  <2> HIDE DEF Step
  <2> QED BY <1>12, Zenon
<1> HIDE DEF w
<1> DEFINE T == {k \in 0 .. n : Searching(w[k], start, p, b, c, max) /\ Within(w[k], n - k)}
<1>14. 0 \in T
  <2>1. w[0] = BfsStart(start) BY <1>13
  <2>2. n - 0 = n BY <1>3
  <2> QED BY <1>1, <1>2, <1>3, <2>1, <2>2, SearchStarts
<1>15. ASSUME NEW k \in 0 .. n - 1, k \in T PROVE k + 1 \in T
  <2>1. k + 1 \in 0 .. n /\ (k + 1) - 1 = k /\ k + 1 # 0 /\ n - k \in Nat /\ n - (k + 1) = (n - k) - 1 OBVIOUS
  <2>2. w[k + 1] = BfsTurn(p, max, w[k])
    <3>1. w[k + 1] = Step(w)[k + 1] BY <1>13, Zenon
    <3> QED BY <2>1, <3>1 DEF BfsTurn
  <2>3. PICK x : x = w[k] OBVIOUS
  <2>4. Searching(x, start, p, b, c, max) /\ Within(x, n - k) BY <1>15, <2>3
  <2>5. PICK y : y = BfsTurn(p, max, x) OBVIOUS
  <2>6. Searching(y, start, p, b, c, max) /\ Within(y, (n - k) - 1)
    BY <1>1, <1>2, <2>1, <2>4, <2>5, SearchTurns
  <2>7. Searching(w[k + 1], start, p, b, c, max) /\ Within(w[k + 1], n - (k + 1))
    BY <2>1, <2>2, <2>3, <2>5, <2>6
  <2> QED BY <2>1, <2>7
<1>16. n \in T
  <2> HIDE DEF T
  <2>1. 0 .. n \subseteq T BY <1>14, <1>15, UpTo
  <2> QED BY <2>1
<1>17. PICK x : x = w[n] OBVIOUS
<1>18. Searching(x, start, p, b, c, max) /\ Within(x, 0)
  <2>1. n - n = 0 OBVIOUS
  <2> QED BY <1>16, <1>17, <2>1
<1>19. PICK d : Level(x, start, p, b, c, d, max) BY <1>18 DEF Searching
<1>20. x.queue = <<>>
  <2>1. PICK q : q = x.queue OBVIOUS
  <2>2. q \in Seq(Item) BY <1>19, <2>1 DEF Level, BfsState
  <2>3. PICK l \in Nat : l = Cardinality(EdgesOf(Subjects \ x.visited)) BY EdgesFinite
  <2>4. q = <<>> \/ Len(q) + l <= 0 BY <1>18, <2>1, <2>3 DEF Within
  <2>5. Len(q) \in Nat /\ (Len(q) = 0 => q = <<>>) BY <2>2
  <2> QED BY <2>1, <2>3, <2>4, <2>5
<1>21. RightResult(x.result, start, p, max) BY <1>1, <1>2, <1>19, <1>20, ResultRight
<1>22. PICK r : r = x.result OBVIOUS
<1>23. Bfs(start, p, max) = r BY <1>4, <1>17, <1>22
<1> QED BY <1>21, <1>22, <1>23 DEF BfsRight, RightResult

\* The simple paths of k nodes from a node that have not come to another before
\* their end.
Trails(k, from, to) ==
  {t \in [nodes : Seq(Subjects), edges : Seq(Nat)] :
     /\ Len(t.nodes) = k /\ Len(t.edges) = k - 1 /\ t.nodes[1] = from
     /\ \A i, j \in 1 .. k : t.nodes[i] = t.nodes[j] => i = j
     /\ \A i \in 1 .. k - 1 : t.nodes[i] # to /\ t.edges[i] \in Joining(t.nodes[i], t.nodes[i + 1])}
Extended(paths, to) ==
  UNION {{Lengthened(path, i) : i \in Onward(path)} : path \in {q \in paths : Last(q.nodes) # to}}

\* Nodes s and edges w make a trail.
IsTrail(s, w, k, from, to) ==
  /\ s \in Seq(Subjects) /\ w \in Seq(Nat)
  /\ Len(s) = k /\ Len(w) = k - 1 /\ s[1] = from
  /\ \A i, j \in 1 .. k : s[i] = s[j] => i = j
  /\ \A i \in 1 .. k - 1 : s[i] # to /\ w[i] \in Joining(s[i], s[i + 1])

LEMMA TrailOf ==
  ASSUME NEW k, NEW from, NEW to
  PROVE  /\ \A t \in Trails(k, from, to) : /\ IsTrail(t.nodes, t.edges, k, from, to)
                                           /\ t = [nodes |-> t.nodes, edges |-> t.edges]
         /\ \A s, w : IsTrail(s, w, k, from, to) => [nodes |-> s, edges |-> w] \in Trails(k, from, to)
<1>1. ASSUME NEW t \in Trails(k, from, to)
      PROVE  IsTrail(t.nodes, t.edges, k, from, to) /\ t = [nodes |-> t.nodes, edges |-> t.edges]
  BY DEF Trails, IsTrail
<1>2. ASSUME NEW s, NEW w, IsTrail(s, w, k, from, to) PROVE [nodes |-> s, edges |-> w] \in Trails(k, from, to)
  <2>1. PICK t : t = [nodes |-> s, edges |-> w] OBVIOUS
  <2>2. t \in [nodes : Seq(Subjects), edges : Seq(Nat)] /\ t.nodes = s /\ t.edges = w
    BY <1>2, <2>1 DEF IsTrail
  <2> QED BY <1>2, <2>1, <2>2 DEF Trails, IsTrail
<1> QED BY <1>1, <1>2

LEMMA TrailsStart ==
  ASSUME NEW from \in Subjects, NEW to PROVE Trails(1, from, to) = {[nodes |-> <<from>>, edges |-> <<>>]}
<1>1. ASSUME NEW t \in Trails(1, from, to) PROVE t = [nodes |-> <<from>>, edges |-> <<>>]
  <2>1. PICK s : s = t.nodes OBVIOUS
  <2>2. PICK w : w = t.edges OBVIOUS
  <2>3. IsTrail(s, w, 1, from, to) /\ t = [nodes |-> s, edges |-> w] BY <2>1, <2>2, TrailOf
  <2>4. s \in Seq(Subjects) /\ Len(s) = 1 /\ s[1] = from /\ w \in Seq(Nat) /\ Len(w) = 0 BY <2>3 DEF IsTrail
  <2>5. s = <<from>> /\ w = <<>> BY <2>4
  <2> QED BY <2>3, <2>5
<1>2. [nodes |-> <<from>>, edges |-> <<>>] \in Trails(1, from, to)
  <2>1. PICK s : s = <<from>> OBVIOUS
  <2>2. PICK w : w = <<>> OBVIOUS
  <2>3. s \in Seq(Subjects) /\ Len(s) = 1 /\ s[1] = from /\ w \in Seq(Nat) /\ Len(w) = 0 BY <2>1, <2>2
  <2>4. 1 .. 1 - 1 = {} /\ \A i, j \in 1 .. 1 : i = j OBVIOUS
  <2>5. IsTrail(s, w, 1, from, to) BY <2>3, <2>4 DEF IsTrail
  <2> QED BY <2>1, <2>2, <2>5, TrailOf
<1> QED BY <1>1, <1>2

\* A sequence without its last element.
LEMMA Shorter ==
  ASSUME NEW X, NEW k \in Nat, NEW s \in Seq(X), Len(s) = k + 1
  PROVE  \E q \in Seq(X) : Len(q) = k /\ (\A i \in 1 .. k : q[i] = s[i]) /\ s = Append(q, s[k + 1])
<1>1. PICK q : q = [i \in 1 .. k |-> s[i]] OBVIOUS
<1>2. \A i \in 1 .. k : s[i] \in X OBVIOUS
<1>3. q \in Seq(X) /\ Len(q) = k /\ \A i \in 1 .. k : q[i] = s[i]
  <2>1. q \in [1 .. k -> X] BY <1>1, <1>2
  <2> QED BY <1>1, <2>1
<1>4. s = Append(q, s[k + 1])
  <2>1. PICK n \in X : n = s[k + 1] OBVIOUS
  <2>2. PICK t : t = Append(q, n) OBVIOUS
  <2>3. t \in Seq(X) /\ Len(t) = k + 1 /\ t[k + 1] = n /\ \A i \in 1 .. k : t[i] = q[i] BY <1>3, <2>2
  <2>4. \A i \in 1 .. k + 1 : t[i] = s[i]
    <3>1. \A i \in 1 .. k + 1 : i \in 1 .. k \/ i = k + 1 OBVIOUS
    <3> QED BY <1>3, <2>1, <2>3, <3>1
  <2>5. s = t BY <2>3, <2>4
  <2> QED BY <2>1, <2>2, <2>5
<1> QED BY <1>3, <1>4

\* dfs goes on from every trail that has not come to its target.
LEMMA TrailsGrow ==
  ASSUME EdgesOK, NEW k \in Nat, k >= 1, NEW from \in Subjects, NEW to
  PROVE  Trails(k + 1, from, to) = Extended(Trails(k, from, to), to)
<1>1. ASSUME NEW t \in Trails(k + 1, from, to) PROVE t \in Extended(Trails(k, from, to), to)
  <2>1. PICK s : s = t.nodes OBVIOUS
  <2>2. PICK w : w = t.edges OBVIOUS
  <2>3. IsTrail(s, w, k + 1, from, to) /\ t = [nodes |-> s, edges |-> w] BY <2>1, <2>2, TrailOf
  <2>4. /\ s \in Seq(Subjects) /\ Len(s) = k + 1 /\ s[1] = from /\ w \in Seq(Nat) /\ Len(w) = k
        /\ \A i, j \in 1 .. k + 1 : s[i] = s[j] => i = j
        /\ \A i \in 1 .. k : s[i] # to /\ w[i] \in Joining(s[i], s[i + 1])
    <3>1. (k + 1) - 1 = k OBVIOUS
    <3> QED BY <2>3, <3>1 DEF IsTrail
  <2>5. PICK q \in Seq(Subjects) : Len(q) = k /\ (\A i \in 1 .. k : q[i] = s[i]) /\ s = Append(q, s[k + 1])
    BY <2>4, Shorter
  <2>6. PICK v \in Seq(Nat) : Len(v) = k - 1 /\ (\A i \in 1 .. k - 1 : v[i] = w[i]) /\ w = Append(v, w[k])
    <3>1. k - 1 \in Nat /\ (k - 1) + 1 = k OBVIOUS
    <3>2. PICK l \in Nat : l = k - 1 BY <3>1
    <3>3. Len(w) = l + 1 BY <2>4, <3>1, <3>2
    <3>4. PICK N : N = Nat OBVIOUS
    <3>5. w \in Seq(N) BY <2>4, <3>4
    <3>6. \E v \in Seq(N) : Len(v) = l /\ (\A i \in 1 .. l : v[i] = w[i]) /\ w = Append(v, w[l + 1])
      BY <3>3, <3>5, Shorter
    <3> QED BY <3>1, <3>2, <3>4, <3>6
  <2>7. PICK path : path = [nodes |-> q, edges |-> v] OBVIOUS
  <2>8. path.nodes = q /\ path.edges = v BY <2>7
  <2>9. path \in Trails(k, from, to)
    <3>1. \A i, j \in 1 .. k : q[i] = q[j] => i = j BY <2>4, <2>5
    <3>2. ASSUME NEW i \in 1 .. k - 1 PROVE q[i] # to /\ v[i] \in Joining(q[i], q[i + 1])
      <4>1. i \in 1 .. k /\ i + 1 \in 1 .. k OBVIOUS
      <4>2. q[i] = s[i] /\ q[i + 1] = s[i + 1] /\ v[i] = w[i] BY <2>5, <2>6, <4>1
      <4> QED BY <2>4, <4>1, <4>2
    <3>3. q[1] = from BY <2>4, <2>5
    <3>4. IsTrail(q, v, k, from, to) BY <2>5, <2>6, <3>1, <3>2, <3>3 DEF IsTrail
    <3> QED BY <2>7, <3>4, TrailOf
  <2>10. PICK m : m = s[k] OBVIOUS
  <2>11. k \in 1 .. k /\ Last(path.nodes) = m BY <2>5, <2>8, <2>10 DEF Last
  <2>12. m # to /\ w[k] \in Joining(m, s[k + 1]) BY <2>4, <2>10, <2>11
  <2>13. w[k] \in DOMAIN outgoing[m] /\ outgoing[m][w[k]].object = s[k + 1] BY <2>12 DEF Joining
  <2>14. s[k + 1] \notin ToSet(q)
    <3>1. ASSUME NEW i \in DOMAIN q, q[i] = s[k + 1] PROVE FALSE
      <4>1. i \in 1 .. k /\ i \in 1 .. k + 1 /\ k + 1 \in 1 .. k + 1 BY <2>5
      <4>2. i = k + 1 BY <2>4, <2>5, <3>1, <4>1
      <4> QED BY <4>1, <4>2
    <3> QED BY <3>1 DEF ToSet
  <2>15. w[k] \in Onward(path) BY <2>8, <2>11, <2>13, <2>14 DEF Onward
  <2>16. Lengthened(path, w[k]) = [nodes |-> Append(q, s[k + 1]), edges |-> Append(v, w[k])]
    BY <2>8, <2>11, <2>13 DEF Lengthened
  <2>17. t = Lengthened(path, w[k]) BY <2>3, <2>5, <2>6, <2>16
  <2> QED BY <2>9, <2>11, <2>12, <2>15, <2>17 DEF Extended
<1>2. ASSUME NEW t \in Extended(Trails(k, from, to), to) PROVE t \in Trails(k + 1, from, to)
  <2>1. PICK path \in Trails(k, from, to) : Last(path.nodes) # to /\ \E i \in Onward(path) : t = Lengthened(path, i)
    BY DEF Extended
  <2>2. PICK e \in Onward(path) : t = Lengthened(path, e) BY <2>1
  <2>3. PICK q : q = path.nodes OBVIOUS
  <2>4. PICK v : v = path.edges OBVIOUS
  <2>5. IsTrail(q, v, k, from, to) BY <2>3, <2>4, TrailOf
  <2>6. /\ q \in Seq(Subjects) /\ Len(q) = k /\ q[1] = from /\ v \in Seq(Nat) /\ Len(v) = k - 1
        /\ \A i, j \in 1 .. k : q[i] = q[j] => i = j
        /\ \A i \in 1 .. k - 1 : q[i] # to /\ v[i] \in Joining(q[i], q[i + 1])
    BY <2>5 DEF IsTrail
  <2>7. DOMAIN q = 1 .. k /\ Last(q) = q[k] /\ k \in 1 .. k BY <2>6 DEF Last
  <2>8. PICK o : o = outgoing[q[k]] OBVIOUS
  <2>9. q[k] \in Subjects BY <2>6, <2>7
  <2>10. o \in Seq(GraphEdge) BY <2>8, <2>9 DEF EdgesOK
  <2>11. e \in DOMAIN o /\ o[e].object \notin ToSet(q) BY <2>2, <2>3, <2>7, <2>8 DEF Onward
  <2>12. PICK n : n = o[e].object OBVIOUS
  <2>13. n \in Subjects
    <3>1. o[e] \in GraphEdge BY <2>10, <2>11
    <3> QED BY <2>12, <3>1 DEF GraphEdge
  <2>14. e \in Nat BY <2>10, <2>11
  <2>15. \A i \in 1 .. k : q[i] # n BY <2>7, <2>11, <2>12 DEF ToSet
  <2>16. PICK s : s = Append(q, n) OBVIOUS
  <2>17. PICK w : w = Append(v, e) OBVIOUS
  <2>18. t = [nodes |-> s, edges |-> w]
    BY <2>2, <2>3, <2>4, <2>7, <2>8, <2>12, <2>16, <2>17 DEF Lengthened
  <2>19. s \in Seq(Subjects) /\ Len(s) = k + 1 /\ s[k + 1] = n /\ \A i \in 1 .. k : s[i] = q[i]
    BY <2>6, <2>13, <2>16
  <2>20. w \in Seq(Nat) /\ Len(w) = k /\ w[k] = e /\ \A i \in 1 .. k - 1 : w[i] = v[i]
    <3>1. k - 1 \in Nat /\ (k - 1) + 1 = k OBVIOUS
    <3>2. PICK l \in Nat : l = k - 1 BY <3>1
    <3>3. w \in Seq(Nat) /\ Len(w) = l + 1 /\ w[l + 1] = e /\ \A i \in 1 .. l : w[i] = v[i]
      BY <2>6, <2>14, <2>17, <3>2
    <3> QED BY <3>1, <3>2, <3>3
  <2>21. ASSUME NEW i \in 1 .. k + 1, NEW j \in 1 .. k + 1, s[i] = s[j] PROVE i = j
    <3>1. (i \in 1 .. k \/ i = k + 1) /\ (j \in 1 .. k \/ j = k + 1) OBVIOUS
    <3> QED BY <2>6, <2>15, <2>19, <2>21, <3>1
  <2>22. ASSUME NEW i \in 1 .. (k + 1) - 1 PROVE s[i] # to /\ w[i] \in Joining(s[i], s[i + 1])
    <3>1. i \in 1 .. k /\ (i = k \/ (i \in 1 .. k - 1 /\ i + 1 \in 1 .. k)) OBVIOUS
    <3>2. CASE i = k
      <4>1. s[i] = q[k] /\ s[i + 1] = n /\ w[i] = e BY <2>7, <2>19, <2>20, <3>2
      <4>2. e \in Joining(q[k], n) BY <2>8, <2>11, <2>12 DEF Joining
      <4>3. q[k] # to BY <2>1, <2>3, <2>7
      <4> QED BY <4>1, <4>2, <4>3
    <3>3. CASE i \in 1 .. k - 1 /\ i + 1 \in 1 .. k
      <4>1. s[i] = q[i] /\ s[i + 1] = q[i + 1] /\ w[i] = v[i] BY <2>19, <2>20, <3>1, <3>3
      <4> QED BY <2>6, <3>3, <4>1
    <3> QED BY <3>1, <3>2, <3>3
  <2>23. s[1] = from BY <2>6, <2>7, <2>19
  <2>24. (k + 1) - 1 = k OBVIOUS
  <2>25. IsTrail(s, w, k + 1, from, to) BY <2>19, <2>20, <2>21, <2>22, <2>23, <2>24 DEF IsTrail
  <2> QED BY <2>18, <2>25, TrailOf
<1> QED BY <1>1, <1>2

LEMMA PathsAreTrails ==
  ASSUME EdgesOK, NEW max \in Nat, NEW from \in Subjects, NEW to
  PROVE  PathsTo(from, to, max) = {path \in UNION {Trails(k, from, to) : k \in 1 .. max + 1} : Last(path.nodes) = to}
<1> DEFINE Step(g) == [k \in 1 .. max + 1 |->
                         IF k = 1 THEN {[nodes |-> <<from>>, edges |-> <<>>]}
                         ELSE UNION {{Lengthened(path, i) : i \in Onward(path)} : path \in {q \in g[k - 1] : Last(q.nodes) # to}}]
           w == CHOOSE g : g = Step(g)
           g0 == [k \in 1 .. max + 1 |-> Trails(k, from, to)]
<1>1. g0 = Step(g0)
  <2>1. ASSUME NEW k \in 1 .. max + 1 PROVE g0[k] = Step(g0)[k]
    <3>1. CASE k = 1 BY <3>1, TrailsStart
    <3>2. CASE k # 1
      <4>1. k - 1 \in 1 .. max + 1 /\ k - 1 \in Nat /\ k - 1 >= 1 /\ (k - 1) + 1 = k BY <3>2
      <4>2. g0[k] = Trails(k, from, to) /\ g0[k - 1] = Trails(k - 1, from, to) BY <4>1
      <4>3. Trails(k, from, to) = Extended(Trails(k - 1, from, to), to) BY <4>1, TrailsGrow
      <4>4. Step(g0)[k] = Extended(g0[k - 1], to)
        <5> HIDE DEF g0
        <5> QED BY <3>2 DEF Extended
      <4> HIDE DEF Step, g0
      <4> QED BY <4>2, <4>3, <4>4
    <3> QED BY <3>1, <3>2
  <2>2. g0 = [k \in 1 .. max + 1 |-> g0[k]] /\ Step(g0) = [k \in 1 .. max + 1 |-> Step(g0)[k]] OBVIOUS
  <2> HIDE DEF Step, g0
  <2> QED BY <2>1, <2>2
<1>2. w = Step(w)
  <2> HIDE DEF Step, g0
  <2> QED BY <1>1, Zenon
<1>3. PathsTo(from, to, max) = {path \in UNION {w[k] : k \in 1 .. max + 1} : Last(path.nodes) = to} BY DEF PathsTo
<1> HIDE DEF w, g0
<1> DEFINE T == {k \in 0 .. max : w[k + 1] = Trails(k + 1, from, to)}
<1>4. 0 \in T
  <2>1. 1 \in 1 .. max + 1 /\ 0 + 1 = 1 OBVIOUS
  <2>2. w[1] = Step(w)[1] BY <1>2, Zenon
  <2>3. w[1] = {[nodes |-> <<from>>, edges |-> <<>>]} BY <2>1, <2>2
  <2>4. w[0 + 1] = Trails(0 + 1, from, to) BY <2>1, <2>3, TrailsStart
  <2> QED BY <2>4
<1>5. ASSUME NEW k \in 0 .. max - 1, k \in T PROVE k + 1 \in T
  <2>1. /\ k + 1 \in 0 .. max /\ (k + 1) + 1 \in 1 .. max + 1 /\ (k + 1) + 1 # 1
        /\ ((k + 1) + 1) - 1 = k + 1 /\ k + 1 \in Nat /\ k + 1 >= 1
    OBVIOUS
  <2>2. w[(k + 1) + 1] = Step(w)[(k + 1) + 1] BY <1>2, Zenon
  <2>3. w[(k + 1) + 1] = Extended(w[k + 1], to) BY <2>1, <2>2 DEF Extended
  <2>4. w[k + 1] = Trails(k + 1, from, to) BY <1>5
  <2>5. w[(k + 1) + 1] = Trails((k + 1) + 1, from, to) BY <2>1, <2>3, <2>4, TrailsGrow
  <2> QED BY <2>1, <2>5
<1>6. ASSUME NEW k \in 1 .. max + 1 PROVE w[k] = Trails(k, from, to)
  <2>1. k - 1 \in 0 .. max /\ (k - 1) + 1 = k OBVIOUS
  <2> HIDE DEF T
  <2>2. 0 .. max \subseteq T BY <1>4, <1>5, UpTo
  <2>3. k - 1 \in T BY <2>1, <2>2
  <2> QED BY <2>1, <2>3 DEF T
<1>7. UNION {w[k] : k \in 1 .. max + 1} = UNION {Trails(k, from, to) : k \in 1 .. max + 1}
  <2> HIDE DEF T
  <2> QED BY <1>6
<1> QED BY <1>3, <1>7

\* The simple paths from a node to another, as their definition has them.
Simple(from, to, max) ==
  UNION {{[nodes |-> s, edges |-> w] : w \in Spans(s)} :
           s \in {n \in SimpleNodes : n[1] = from /\ Last(n) = to /\ Len(n) <= max + 1}}

LEMMA PathsAreSimple ==
  ASSUME EdgesOK, NEW max \in Nat, NEW from \in Subjects, NEW to \in Subjects
  PROVE  PathsTo(from, to, max) = Simple(from, to, max)
<1>1. ASSUME NEW t, NEW k \in 1 .. max + 1, t \in Trails(k, from, to), Last(t.nodes) = to
      PROVE  t \in Simple(from, to, max)
  <2>1. PICK s : s = t.nodes OBVIOUS
  <2>2. PICK w : w = t.edges OBVIOUS
  <2>3. IsTrail(s, w, k, from, to) /\ t = [nodes |-> s, edges |-> w] BY <1>1, <2>1, <2>2, TrailOf
  <2>4. /\ s \in Seq(Subjects) /\ Len(s) = k /\ s[1] = from /\ w \in Seq(Nat) /\ Len(w) = k - 1
        /\ \A i, j \in 1 .. k : s[i] = s[j] => i = j
        /\ \A i \in 1 .. k - 1 : w[i] \in Joining(s[i], s[i + 1])
    BY <2>3 DEF IsTrail
  <2>5. s \in SimpleNodes
    <3>1. s \in [1 .. k -> Subjects] BY <2>4
    <3>2. s \in Injection(1 .. k, Subjects) BY <2>4, <3>1 DEF Injection, IsInjective
    <3>3. IsFiniteSet(1 .. k) /\ Cardinality(1 .. k) = k BY FS_Interval
    <3>4. k <= Cardinality(Subjects) BY <3>2, <3>3, GraphAssumption, FS_Injection
    <3>5. Cardinality(Subjects) \in Nat BY GraphAssumption, FS_CardinalityType
    <3>6. k \in 1 .. Cardinality(Subjects) BY <3>4, <3>5
    <3> QED BY <3>2, <3>6 DEF SimpleNodes
  <2>6. w \in Spans(s)
    <3>1. k - 1 \in Nat /\ Len(s) - 1 = k - 1 BY <2>4
    <3>2. ASSUME NEW i \in 1 .. k - 1 PROVE w[i] \in UNION {DOMAIN outgoing[n] : n \in Subjects}
      <4>1. i \in 1 .. k /\ s[i] \in Subjects BY <2>4
      <4>2. w[i] \in DOMAIN outgoing[s[i]] BY <2>4 DEF Joining
      <4> QED BY <4>1, <4>2
    <3>3. PICK l \in Nat : l = k - 1 BY <3>1
    <3>4. DOMAIN w = 1 .. l /\ w = [i \in 1 .. l |-> w[i]] BY <2>4, <3>3
    <3>5. w \in [1 .. l -> UNION {DOMAIN outgoing[n] : n \in Subjects}] BY <3>2, <3>3, <3>4
    <3> QED BY <2>4, <3>1, <3>3, <3>5 DEF Spans
  <2>7. Last(s) = to /\ Len(s) <= max + 1 BY <1>1, <2>1, <2>4
  <2> QED BY <2>3, <2>4, <2>5, <2>6, <2>7 DEF Simple
<1>2. ASSUME NEW t \in Simple(from, to, max)
      PROVE  Last(t.nodes) = to /\ \E k \in 1 .. max + 1 : t \in Trails(k, from, to)
  <2>1. PICK s \in SimpleNodes : /\ s[1] = from /\ Last(s) = to /\ Len(s) <= max + 1
                                 /\ \E w \in Spans(s) : t = [nodes |-> s, edges |-> w]
    BY DEF Simple
  <2>2. PICK w \in Spans(s) : t = [nodes |-> s, edges |-> w] BY <2>1
  <2>3. PICK n \in 1 .. Cardinality(Subjects) : s \in Injection(1 .. n, Subjects) BY DEF SimpleNodes
  <2>4. n \in Nat /\ n >= 1
    <3>1. Cardinality(Subjects) \in Nat BY GraphAssumption, FS_CardinalityType
    <3> QED BY <3>1
  <2>5. s \in [1 .. n -> Subjects] /\ \A i, j \in 1 .. n : s[i] = s[j] => i = j
    BY <2>3 DEF Injection, IsInjective
  <2>6. s \in Seq(Subjects) /\ Len(s) = n BY <2>4, <2>5
  <2>7. s[n] = to BY <2>1, <2>6 DEF Last
  <2>8. PICK l \in Nat : l = n - 1 BY <2>4
  <2>9. /\ w \in [1 .. l -> UNION {DOMAIN outgoing[m] : m \in Subjects}]
        /\ \A i \in 1 .. l : w[i] \in Joining(s[i], s[i + 1])
    BY <2>2, <2>6, <2>8 DEF Spans
  <2>10. w \in Seq(Nat) /\ Len(w) = l
    <3>1. ASSUME NEW m \in Subjects PROVE DOMAIN outgoing[m] \subseteq Nat
      <4>1. PICK o : o = outgoing[m] OBVIOUS
      <4>2. o \in Seq(GraphEdge) BY <4>1 DEF EdgesOK
      <4> QED BY <4>1, <4>2
    <3>2. \A i \in 1 .. l : w[i] \in Nat BY <2>9, <3>1
    <3>3. w \in [1 .. l -> Nat] BY <2>9, <3>2
    <3> QED BY <3>3
  <2>11. \A i \in 1 .. l : s[i] # to
    <3>1. \A i \in 1 .. l : i \in 1 .. n /\ n \in 1 .. n /\ i # n BY <2>4, <2>8
    <3> QED BY <2>5, <2>7, <3>1
  <2>12. IsTrail(s, w, n, from, to) BY <2>1, <2>5, <2>6, <2>8, <2>9, <2>10, <2>11 DEF IsTrail
  <2>13. t \in Trails(n, from, to) BY <2>2, <2>12, TrailOf
  <2>14. n \in 1 .. max + 1 BY <2>1, <2>4, <2>6
  <2>15. t.nodes = s BY <2>2
  <2> QED BY <2>1, <2>13, <2>14, <2>15
<1>3. \A t : t \in PathsTo(from, to, max) <=> Last(t.nodes) = to /\ \E k \in 1 .. max + 1 : t \in Trails(k, from, to)
  BY PathsAreTrails
<1>4. \A t : t \in PathsTo(from, to, max) <=> t \in Simple(from, to, max)
  BY <1>1, <1>2, <1>3
<1> QED BY <1>4

\* After any insertions and deletions of edges bfs and path give what their
\* definitions promise, and the two maps agree (src/crates/fundb-indexes/src/graph.rs).
THEOREM BfsShortestHolds == GraphSpec => []BfsShortest
<1>1. ASSUME GInv PROVE BfsShortest
  <2>1. Cardinality(Subjects) \in Nat BY GraphAssumption, FS_CardinalityType
  <2>2. EdgesOK /\ MapsAgree BY <1>1 DEF GInv
  <2>3. \A start \in Subjects, p \in Predicates, max \in 0..Cardinality(Subjects) : BfsRight(start, p, max)
    BY <2>1, <2>2, BfsIsRight
  <2>4. \A from, to \in Subjects, max \in 1..Cardinality(Subjects) :
          PathsTo(from, to, max) = Simple(from, to, max)
    BY <2>1, <2>2, PathsAreSimple
  <2> QED BY <2>2, <2>3, <2>4 DEF BfsShortest, Simple
<1> QED BY <1>1, InvariantG, PTL

-----------------------------------------------------------------------------
(* The causal DAG. *)

DagSpec == DagInit /\ [][DagNext]_dagVars

CausalEdge == [source : Facts, target : Facts, strength : 0 .. Certain]
LinksOK ==
  /\ adjacency \in [Facts -> Seq(CausalEdge)]
  /\ \A n \in Facts : \A i \in DOMAIN adjacency[n] : adjacency[n][i].source = n

\* Every edge leads to a fact of higher rank: there is no cycle.
Ranking(r) == r \in [Facts -> Nat] /\ \A e \in CausalEdges : r[e.source] < r[e.target]

\* The edges of a fact are those that begin there.
LEMMA EdgesFrom ==
  ASSUME LinksOK
  PROVE  /\ CausalEdges \subseteq CausalEdge
         /\ \A n \in Facts : \A e : e \in ToSet(adjacency[n]) <=> e \in CausalEdges /\ e.source = n
<1>1. ASSUME NEW n \in Facts, NEW e \in ToSet(adjacency[n]) PROVE e \in CausalEdge /\ e.source = n
  <2>1. PICK s : s = adjacency[n] OBVIOUS
  <2>2. s \in Seq(CausalEdge) /\ \A i \in DOMAIN s : s[i].source = n BY <2>1 DEF LinksOK
  <2>3. PICK i \in DOMAIN s : e = s[i] BY <2>1 DEF ToSet
  <2> QED BY <2>2, <2>3
<1>2. \A e \in CausalEdges : \E n \in Facts : e \in ToSet(adjacency[n]) BY DEF CausalEdges
<1>3. \A n \in Facts : \A e \in ToSet(adjacency[n]) : e \in CausalEdges BY DEF CausalEdges
<1> QED BY <1>1, <1>2, <1>3

\* What can_reach does not find lies outside a set that no edge leaves.
LEMMA NotReached ==
  ASSUME LinksOK, NEW from \in Facts, NEW target \in Facts, ~ CanReach(from, target)
  PROVE  \E R \in SUBSET Facts : /\ from \in R /\ target \notin R
                                 /\ \A e \in CausalEdges : e.source \in R => e.target \in R
<1> DEFINE Ahead(B) == B \cup {e.target : e \in {f \in CausalEdges : f.source \in B}}
           Closed(B) == \A e \in CausalEdges : e.source \in B => e.target \in B
           Step(g) == [k \in Nat |-> IF k = 0 THEN {from} ELSE Ahead(g[k - 1])]
           w == CHOOSE g : g = Step(g)
           f == [B \in SUBSET Facts |-> Ahead(B)]
<1>1. PICK N \in Nat : N = Cardinality(Facts) BY DagAssumption, FS_CardinalityType
<1>2. ASSUME NEW B \in SUBSET Facts
      PROVE  Ahead(B) \in SUBSET Facts /\ B \subseteq Ahead(B) /\ (Closed(B) => Ahead(B) = B) /\ (Ahead(B) = B => Closed(B))
  <2>1. \A e \in CausalEdges : e.target \in Facts BY EdgesFrom DEF CausalEdge
  <2> QED BY <2>1
<1> HIDE DEF Ahead
<1>3. f \in [SUBSET Facts -> SUBSET Facts] BY <1>2
<1>4. \A B \in SUBSET Facts : f[B] = Ahead(B) OBVIOUS
<1> HIDE DEF f
<1>5. PICK g \in [Nat -> SUBSET Facts] : Repeats(g, {from}, f)
  <2>1. {from} \in SUBSET Facts OBVIOUS
  <2> QED BY <1>3, <2>1, IterateNat
<1>6. g = Step(g)
  <2>1. ASSUME NEW k \in Nat PROVE g[k] = Step(g)[k]
    <3>1. CASE k = 0 BY <1>5, <3>1 DEF Repeats
    <3>2. CASE k # 0
      <4>1. k - 1 \in Nat /\ (k - 1) + 1 = k BY <3>2
      <4>2. g[k] = f[g[k - 1]] BY <1>5, <4>1 DEF Repeats
      <4>3. g[k - 1] \in SUBSET Facts BY <4>1
      <4>4. g[k] = Ahead(g[k - 1]) BY <1>4, <4>2, <4>3
      <4> QED BY <3>2, <4>4
    <3> QED BY <3>1, <3>2
  <2>2. g = [k \in Nat |-> g[k]] /\ Step(g) = [k \in Nat |-> Step(g)[k]] OBVIOUS
  <2> HIDE DEF Step
  <2> QED BY <2>1, <2>2
<1>7. w = Step(w)
  <2> HIDE DEF Step
  <2> QED BY <1>6, Zenon
<1>8. target \notin w[N] BY <1>1 DEF CanReach, Ahead
<1> HIDE DEF w
<1>9. w[0] = {from} /\ \A d \in Nat : w[d + 1] = Ahead(w[d])
  <2>1. w[0] = {from} BY <1>7
  <2>2. ASSUME NEW d \in Nat PROVE w[d + 1] = Ahead(w[d])
    <3>1. w[d + 1] = Step(w)[d + 1] BY <1>7, Zenon
    <3>2. d + 1 \in Nat /\ d + 1 # 0 /\ (d + 1) - 1 = d OBVIOUS
    <3> QED BY <3>1, <3>2
  <2> QED BY <2>1, <2>2
<1> DEFINE Good(B, k) == B \in SUBSET Facts /\ from \in B /\ (Closed(B) \/ Cardinality(B) >= k + 1)
           T == {k \in 0 .. N : Good(w[k], k)}
<1>10. 0 \in T
  <2>1. Cardinality({from}) = 1 BY FS_Singleton
  <2>2. Cardinality({from}) >= 0 + 1 BY <2>1
  <2>3. {from} \in SUBSET Facts /\ from \in {from} OBVIOUS
  <2>4. Good(w[0], 0) BY <1>9, <2>2, <2>3
  <2> HIDE DEF Good
  <2> QED BY <2>4
<1>11. ASSUME NEW k \in 0 .. N - 1, k \in T PROVE k + 1 \in T
  <2>1. PICK B : B = w[k] OBVIOUS
  <2>2. Good(B, k) BY <1>11, <2>1
  <2>3. PICK C : C = Ahead(B) OBVIOUS
  <2>4. w[k + 1] = C
    <3>1. k \in Nat OBVIOUS
    <3>2. w[k + 1] = Ahead(w[k]) BY <1>9, <3>1
    <3> QED BY <2>1, <2>3, <3>2
  <2>5. C \in SUBSET Facts /\ B \subseteq C /\ from \in C BY <1>2, <2>2, <2>3
  <2>6. CASE Closed(B)
    <3>1. C = B BY <1>2, <2>2, <2>3, <2>6
    <3> QED BY <2>2, <2>4, <2>6, <3>1
  <2>7. CASE ~ Closed(B)
    <3>1. C # B BY <1>2, <2>2, <2>3, <2>7
    <3>2. Cardinality(B) >= k + 1 BY <2>2, <2>7
    <3>3. IsFiniteSet(C) BY <2>5, DagAssumption, FS_Subset
    <3>4. Cardinality(B) \in Nat /\ Cardinality(C) \in Nat
      BY <2>5, <3>3, FS_Subset, FS_CardinalityType
    <3>5. Cardinality(B) <= Cardinality(C) /\ Cardinality(B) # Cardinality(C)
      BY <2>5, <3>1, <3>3, FS_Subset
    <3>6. Cardinality(C) >= (k + 1) + 1 BY <3>2, <3>4, <3>5
    <3>7. Good(w[k + 1], k + 1) BY <2>4, <2>5, <3>6
    <3> HIDE DEF Good
    <3> QED BY <3>7
  <2> QED BY <2>6, <2>7
<1>12. N \in T
  <2> HIDE DEF T
  <2>1. 0 .. N \subseteq T BY <1>10, <1>11, UpTo
  <2> QED BY <2>1
<1>13. PICK R : R = w[N] OBVIOUS
<1>14. Good(R, N) BY <1>12, <1>13
<1>15. Closed(R)
  <2>1. Cardinality(R) <= N /\ Cardinality(R) \in Nat
    BY <1>1, <1>14, DagAssumption, FS_Subset, FS_CardinalityType
  <2> QED BY <1>14, <2>1
<1> QED BY <1>8, <1>13, <1>14, <1>15

LEMMA LinksInit == DagInit => LinksOK /\ CausalEdges = {}
<1> SUFFICES ASSUME DagInit PROVE LinksOK /\ CausalEdges = {} OBVIOUS
<1>1. \A n \in Facts : adjacency[n] = <<>> BY DEF DagInit
<1>2. LinksOK BY DEF DagInit, LinksOK
<1>3. \A n \in Facts : ToSet(adjacency[n]) = {} BY <1>1 DEF ToSet
<1> QED BY <1>2, <1>3 DEF CausalEdges

\* An insertion adds one edge.
LEMMA LinksGrow ==
  ASSUME LinksOK, NEW e \in CausalEdge, Link(e)
  PROVE  LinksOK' /\ CausalEdges' = CausalEdges \cup {e}
<1>1. PICK a : a = adjacency OBVIOUS
<1>2. a \in [Facts -> Seq(CausalEdge)] /\ \A n \in Facts : \A i \in DOMAIN a[n] : a[n][i].source = n
  BY <1>1 DEF LinksOK
<1>3. PICK b : b = adjacency' OBVIOUS
<1>4. b = [a EXCEPT ![e.source] = Append(a[e.source], e)] BY <1>1, <1>3 DEF Link
<1>5. e.source \in Facts BY DEF CausalEdge
<1>6. PICK s : s = a[e.source] OBVIOUS
<1>7. s \in Seq(CausalEdge) /\ \A i \in DOMAIN s : s[i].source = e.source BY <1>2, <1>5, <1>6
<1>8. PICK t : t = Append(s, e) OBVIOUS
<1>9. PICK m \in Nat : m = Len(s) /\ DOMAIN s = 1 .. m BY <1>7
<1>10. t \in Seq(CausalEdge) /\ DOMAIN t = 1 .. m + 1 /\ t[m + 1] = e /\ \A i \in 1 .. m : t[i] = s[i]
  BY <1>7, <1>8, <1>9
<1>11. \A i \in DOMAIN t : (i \in DOMAIN s /\ t[i] = s[i]) \/ t[i] = e BY <1>9, <1>10
<1>12. b \in [Facts -> Seq(CausalEdge)] /\ b[e.source] = t /\ \A n \in Facts \ {e.source} : b[n] = a[n]
  BY <1>2, <1>4, <1>5, <1>6, <1>8, <1>10
<1>13. \A n \in Facts : \A i \in DOMAIN b[n] : b[n][i].source = n
  <2>1. \A i \in DOMAIN t : t[i].source = e.source BY <1>7, <1>11
  <2> QED BY <1>2, <1>12, <2>1
<1>14. ToSet(t) = ToSet(s) \cup {e}
  <2>1. \A x : x \in ToSet(t) <=> \E i \in DOMAIN t : x = t[i] BY DEF ToSet
  <2>2. \A x : x \in ToSet(s) <=> \E i \in DOMAIN s : x = s[i] BY DEF ToSet
  <2>3. \A i \in DOMAIN s : i \in DOMAIN t /\ t[i] = s[i] BY <1>9, <1>10
  <2>4. m + 1 \in DOMAIN t BY <1>10
  <2> QED BY <1>10, <1>11, <2>1, <2>2, <2>3, <2>4
<1>15. UNION {ToSet(b[n]) : n \in Facts} = (UNION {ToSet(a[n]) : n \in Facts}) \cup {e}
  <2>1. \A n \in Facts : ToSet(b[n]) = IF n = e.source THEN ToSet(a[n]) \cup {e} ELSE ToSet(a[n])
    BY <1>6, <1>12, <1>14
  <2> QED BY <1>5, <2>1
<1>16. LinksOK' BY <1>3, <1>12, <1>13 DEF LinksOK
<1>17. CausalEdges = UNION {ToSet(a[n]) : n \in Facts} BY <1>1 DEF CausalEdges
<1>18. CausalEdges' = UNION {ToSet(b[n]) : n \in Facts} BY <1>3 DEF CausalEdges
<1> QED BY <1>15, <1>16, <1>17, <1>18

\* An edge from a fact its end cannot reach closes no cycle: what the end
\* reaches is ranked higher.
LEMMA StaysRanked ==
  ASSUME LinksOK, NEW r, Ranking(r), NEW e \in CausalEdge, InsertCausalEdge(e)
  PROVE  \E q : q \in [Facts -> Nat] /\ \A d \in CausalEdges \cup {e} : q[d.source] < q[d.target]
<1>1. e.source \in Facts /\ e.target \in Facts BY DEF CausalEdge
<1>2. ~ CanReach(e.target, e.source) BY DEF InsertCausalEdge
<1>3. PICK R \in SUBSET Facts : /\ e.target \in R /\ e.source \notin R
                                /\ \A d \in CausalEdges : d.source \in R => d.target \in R
  BY <1>1, <1>2, NotReached
<1>4. r \in [Facts -> Nat] /\ \A d \in CausalEdges : r[d.source] < r[d.target] BY DEF Ranking
<1>5. PICK h \in Nat : h = r[e.source] BY <1>1, <1>4
<1>6. PICK q : q = [n \in Facts |-> IF n \in R THEN r[n] + (h + 1) ELSE r[n]] OBVIOUS
<1>7. q \in [Facts -> Nat] BY <1>4, <1>6
<1>8. ASSUME NEW d \in CausalEdges PROVE q[d.source] < q[d.target]
  <2>1. d.source \in Facts /\ d.target \in Facts BY EdgesFrom DEF CausalEdge
  <2>2. PICK x \in Nat : x = r[d.source] BY <1>4, <2>1
  <2>3. PICK y \in Nat : y = r[d.target] BY <1>4, <2>1
  <2>4. x < y BY <1>4, <2>2, <2>3
  <2>5. q[d.source] = (IF d.source \in R THEN x + (h + 1) ELSE x) /\ q[d.target] = (IF d.target \in R THEN y + (h + 1) ELSE y)
    BY <1>6, <2>1, <2>2, <2>3
  <2>6. d.source \in R => d.target \in R BY <1>3
  <2> QED BY <2>4, <2>5, <2>6
<1>9. q[e.source] < q[e.target]
  <2>1. PICK y \in Nat : y = r[e.target] BY <1>1, <1>4
  <2>2. q[e.source] = h /\ q[e.target] = y + (h + 1) BY <1>1, <1>3, <1>5, <1>6, <2>1
  <2> QED BY <2>2
<1> QED BY <1>7, <1>8, <1>9

\* h[k] is the strength of the first k edges of a path.
Strengths(h, p) ==
  /\ h \in [0 .. Len(p) -> 0 .. Certain] /\ h[0] = Certain
  /\ \A k \in 1 .. Len(p) : h[k] = Times(h[k - 1], p[k].strength) /\ h[k] <= h[k - 1]

LEMMA TimesFalls ==
  ASSUME NEW x \in 0 .. Certain, NEW y \in 0 .. Certain
  PROVE  Times(x, y) \in 0 .. Certain /\ Times(x, y) <= x
<1>1. x \in Nat /\ y \in Nat /\ x <= 64 /\ y <= 64 BY DEF Certain
<1>2. x * y <= x * 64 /\ x * y \in Nat
  <2>1. \A a, b, c \in Nat : b <= c => a * b <= a * c
    <3>1. ASSUME NEW a \in Nat, NEW b \in Nat, NEW c \in Nat, b <= c PROVE a * b <= a * c
      <4>1. PICK d \in Nat : c = b + d BY <3>1, c - b \in Nat
      <4>2. a * c = a * b + a * d BY <4>1
      <4>3. a * d \in Nat /\ a * b \in Nat OBVIOUS
      <4> QED BY <4>2, <4>3
    <3> QED BY <3>1
  <2> QED BY <1>1, <2>1
<1>3. PICK z \in Nat : z = x * y BY <1>2
<1>4. z <= x * 64 BY <1>2, <1>3
<1>5. z \div 64 \in Nat /\ z \div 64 <= x BY <1>1, <1>4
<1> QED BY <1>1, <1>3, <1>5 DEF Times, Certain

LEMMA PathStrengths ==
  ASSUME NEW p \in Seq(CausalEdge)
  PROVE  \E h : Strengths(h, p) /\ StrengthOf(p) = h[Len(p)]
<1>1. PICK n \in Nat : n = Len(p) /\ DOMAIN p = 1 .. n OBVIOUS
<1>2. \A k \in 1 .. n : p[k].strength \in 0 .. Certain
  <2>1. \A k \in 1 .. n : p[k] \in CausalEdge BY <1>1
  <2> QED BY <2>1 DEF CausalEdge
<1>3. Certain \in 0 .. Certain BY DEF Certain
<1> DEFINE S == 0 .. Certain
           Step(g) == [k \in 0 .. n |-> IF k = 0 THEN Certain ELSE Times(g[k - 1], p[k].strength)]
           w == CHOOSE g : g = Step(g)
           f == [x \in S \X (1 .. n) |-> Times(x[1], p[x[2]].strength)]
<1>4. StrengthOf(p) = w[n] BY <1>1 DEF StrengthOf
<1>5. \A x \in S, k \in 1 .. n : f[<<x, k>>] = Times(x, p[k].strength) OBVIOUS
<1>6. f \in [S \X (1 .. n) -> S] BY <1>2, TimesFalls
<1> HIDE DEF f
<1>7. PICK g \in [0 .. n -> S] : Iterates(g, n, Certain, f) BY <1>3, <1>6, Iterate
<1>8. g = Step(g)
  <2>1. ASSUME NEW k \in 0 .. n PROVE g[k] = Step(g)[k]
    <3>1. CASE k = 0
      <4>1. g[0] = Certain BY <1>7 DEF Iterates
      <4> QED BY <3>1, <4>1
    <3>2. CASE k # 0
      <4>1. k \in 1 .. n /\ k - 1 \in 0 .. n BY <3>2
      <4>2. g[k] = f[<<g[k - 1], k>>] BY <1>7, <4>1 DEF Iterates
      <4>3. g[k] = Times(g[k - 1], p[k].strength) BY <1>5, <1>7, <4>1, <4>2
      <4> QED BY <3>2, <4>3
    <3> QED BY <3>1, <3>2
  <2>2. g = [k \in 0 .. n |-> g[k]] /\ Step(g) = [k \in 0 .. n |-> Step(g)[k]] OBVIOUS
  <2> HIDE DEF Step
  <2> QED BY <2>1, <2>2
<1>9. w = Step(w)
  <2> HIDE DEF Step
  <2> QED BY <1>8, Zenon
<1> HIDE DEF w
<1>10. w[0] = Certain BY <1>9
<1>11. ASSUME NEW k \in 1 .. n PROVE w[k] = Times(w[k - 1], p[k].strength)
  <2>1. w[k] = Step(w)[k] BY <1>9, Zenon
  <2>2. k \in 0 .. n /\ k # 0 OBVIOUS
  <2> QED BY <2>1, <2>2
<1> DEFINE T == {k \in 0 .. n : w[k] \in S}
<1>12. 0 \in T BY <1>3, <1>10
<1>13. ASSUME NEW k \in 0 .. n - 1, k \in T PROVE k + 1 \in T
  <2>1. k + 1 \in 1 .. n /\ k + 1 \in 0 .. n /\ (k + 1) - 1 = k OBVIOUS
  <2>2. w[k + 1] = Times(w[k], p[k + 1].strength) BY <1>11, <2>1
  <2>3. w[k] \in S BY <1>13
  <2>4. w[k + 1] \in S BY <1>2, <2>1, <2>2, <2>3, TimesFalls
  <2> QED BY <2>1, <2>4
<1>14. \A k \in 0 .. n : w[k] \in S
  <2> HIDE DEF T
  <2>1. 0 .. n \subseteq T BY <1>12, <1>13, UpTo
  <2> QED BY <2>1 DEF T
<1>15. w \in [0 .. n -> S]
  <2>1. w = [k \in 0 .. n |-> w[k]] BY <1>9
  <2> QED BY <1>14, <2>1
<1>16. ASSUME NEW k \in 1 .. n PROVE w[k] <= w[k - 1]
  <2>1. k - 1 \in 0 .. n OBVIOUS
  <2> QED BY <1>2, <1>11, <1>14, <2>1, TimesFalls
<1>17. Strengths(w, p) BY <1>1, <1>10, <1>11, <1>15, <1>16 DEF Strengths
<1> QED BY <1>1, <1>4, <1>17

\* The strengths of a path are determined, and a prefix has the same.
LEMMA StrengthsPrefix ==
  ASSUME NEW p \in Seq(CausalEdge), NEW q \in Seq(CausalEdge), Len(q) <= Len(p),
         \A k \in 1 .. Len(q) : q[k] = p[k], NEW h, Strengths(h, p)
  PROVE  StrengthOf(q) = h[Len(q)]
<1>1. PICK n \in Nat : n = Len(q) OBVIOUS
<1>2. PICK m \in Nat : m = Len(p) /\ n <= m BY <1>1
<1>3. PICK g : Strengths(g, q) /\ StrengthOf(q) = g[Len(q)] BY PathStrengths
<1> DEFINE T == {k \in 0 .. n : g[k] = h[k]}
<1>4. 0 \in T BY <1>3 DEF Strengths
<1>5. ASSUME NEW k \in 0 .. n - 1, k \in T PROVE k + 1 \in T
  <2>1. k + 1 \in 1 .. n /\ k + 1 \in 1 .. m /\ k + 1 \in 0 .. n /\ (k + 1) - 1 = k BY <1>2
  <2>2. g[k + 1] = Times(g[k], q[k + 1].strength) BY <1>1, <1>3, <2>1 DEF Strengths
  <2>3. h[k + 1] = Times(h[k], p[k + 1].strength) BY <1>2, <2>1 DEF Strengths
  <2>4. q[k + 1] = p[k + 1] BY <1>1, <2>1
  <2>5. g[k] = h[k] BY <1>5
  <2> QED BY <2>1, <2>2, <2>3, <2>4, <2>5
<1>6. n \in T
  <2> HIDE DEF T
  <2>1. 0 .. n \subseteq T BY <1>4, <1>5, UpTo
  <2> QED BY <2>1
<1> QED BY <1>1, <1>3, <1>6

\* The strength of no edge, and of one edge more.
LEMMA StrengthSteps ==
  /\ StrengthOf(<<>>) = Certain
  /\ \A p \in Seq(CausalEdge), e \in CausalEdge :
       /\ StrengthOf(Append(p, e)) = Times(StrengthOf(p), e.strength)
       /\ StrengthOf(p) \in 0 .. Certain
       /\ StrengthOf(Append(p, e)) <= StrengthOf(p)
<1>1. StrengthOf(<<>>) = Certain
  <2>1. PICK s : s = <<>> OBVIOUS
  <2>2. s \in Seq(CausalEdge) /\ Len(s) = 0 BY <2>1
  <2>3. PICK h : Strengths(h, s) /\ StrengthOf(s) = h[Len(s)] BY <2>2, PathStrengths
  <2> QED BY <2>1, <2>2, <2>3 DEF Strengths
<1>2. ASSUME NEW p \in Seq(CausalEdge), NEW e \in CausalEdge
      PROVE  /\ StrengthOf(Append(p, e)) = Times(StrengthOf(p), e.strength)
             /\ StrengthOf(p) \in 0 .. Certain
             /\ StrengthOf(Append(p, e)) <= StrengthOf(p)
  <2>1. PICK n \in Nat : n = Len(p) OBVIOUS
  <2>2. PICK q : q = Append(p, e) OBVIOUS
  <2>3. q \in Seq(CausalEdge) /\ Len(q) = n + 1 /\ q[n + 1] = e /\ \A k \in 1 .. n : q[k] = p[k]
    BY <2>1, <2>2
  <2>4. PICK h : Strengths(h, q) /\ StrengthOf(q) = h[Len(q)] BY <2>3, PathStrengths
  <2>5. StrengthOf(p) = h[n]
    <3>1. Len(p) <= Len(q) /\ \A k \in 1 .. Len(p) : p[k] = q[k] BY <2>1, <2>3
    <3> QED BY <2>1, <2>3, <2>4, <3>1, StrengthsPrefix
  <2>6. n + 1 \in 1 .. n + 1 /\ (n + 1) - 1 = n /\ n \in 0 .. n + 1 OBVIOUS
  <2>7. h[n + 1] = Times(h[n], e.strength) /\ h[n + 1] <= h[n] /\ h[n] \in 0 .. Certain
    BY <2>3, <2>4, <2>6 DEF Strengths
  <2> QED BY <2>2, <2>3, <2>4, <2>5, <2>7
<1> QED BY <1>1, <1>2

Joined(p) == \A i \in 1 .. Len(p) - 1 : p[i].target = p[i + 1].source

\* The facts along a path rise in rank.
LEMMA ChainRises ==
  ASSUME LinksOK, NEW r, Ranking(r), NEW p \in Seq(CausalEdges), Joined(p)
  PROVE  \A j \in 1 .. Len(p) : /\ r[p[1].source] < r[p[j].target]
                                /\ \A i \in 1 .. Len(p) : i < j => r[p[i].target] < r[p[j].target]
<1>1. PICK n \in Nat : n = Len(p) /\ DOMAIN p = 1 .. n OBVIOUS
<1>2. \A i \in 1 .. n : p[i] \in CausalEdges BY <1>1
<1>3. ASSUME NEW i \in 1 .. n
      PROVE  r[p[i].source] \in Nat /\ r[p[i].target] \in Nat /\ r[p[i].source] < r[p[i].target]
  <2>1. p[i] \in CausalEdge /\ p[i] \in CausalEdges BY <1>2, EdgesFrom
  <2>2. p[i].source \in Facts /\ p[i].target \in Facts BY <2>1 DEF CausalEdge
  <2> QED BY <2>1, <2>2 DEF Ranking
<1> DEFINE Rise(j) == j >= 1 => /\ r[p[1].source] < r[p[j].target]
                                /\ \A i \in 1 .. n : i < j => r[p[i].target] < r[p[j].target]
           T == {j \in 0 .. n : Rise(j)}
<1>4. 0 \in T OBVIOUS
<1>5. ASSUME NEW j \in 0 .. n - 1, j \in T PROVE j + 1 \in T
  <2>1. j + 1 \in 1 .. n /\ j + 1 \in 0 .. n BY <1>1
  <2>2. CASE j = 0
    <3>1. Rise(j + 1) BY <1>3, <2>1, <2>2
    <3> HIDE DEF Rise
    <3> QED BY <2>1, <3>1
  <2>3. CASE j >= 1
    <3>1. j \in 1 .. n /\ j \in 1 .. n - 1 BY <2>1, <2>3
    <3>2. p[j].target = p[j + 1].source BY <1>1, <3>1 DEF Joined
    <3>3. r[p[j].target] < r[p[j + 1].target] BY <1>3, <2>1, <3>2
    <3>4. r[p[1].source] < r[p[j].target] /\ \A i \in 1 .. n : i < j => r[p[i].target] < r[p[j].target]
      BY <1>5, <2>3
    <3>5. r[p[1].source] < r[p[j + 1].target] BY <1>3, <2>1, <3>1, <3>3, <3>4
    <3>6. ASSUME NEW i \in 1 .. n, i < j + 1 PROVE r[p[i].target] < r[p[j + 1].target]
      <4>1. i = j \/ i < j BY <3>6
      <4>2. CASE i = j BY <3>3, <4>2
      <4>3. CASE i < j
        <5>1. r[p[i].target] < r[p[j].target] BY <3>4, <4>3
        <5> QED BY <1>3, <2>1, <3>1, <3>3, <5>1
      <4> QED BY <4>1, <4>2, <4>3
    <3>7. Rise(j + 1) BY <3>5, <3>6
    <3> HIDE DEF Rise
    <3> QED BY <2>1, <3>7
  <2> QED BY <2>2, <2>3
<1>6. 0 .. n \subseteq T
  <2> HIDE DEF T
  <2> QED BY <1>4, <1>5, UpTo
<1>7. \A j \in 1 .. n : j \in T BY <1>6
<1> QED BY <1>1, <1>7

\* Chains are the paths of any length: none visits a fact twice.
LEMMA ChainsAre ==
  ASSUME LinksOK, NEW r, Ranking(r)
  PROVE  /\ \A p \in Seq(CausalEdges) : Len(p) >= 1 /\ Joined(p) => p \in Chains
         /\ \A p \in Chains : p \in Seq(CausalEdges) /\ Len(p) >= 1 /\ Joined(p)
<1>1. PICK N \in Nat : N = Cardinality(Facts) BY DagAssumption, FS_CardinalityType
<1>2. ASSUME NEW p \in Seq(CausalEdges), Len(p) >= 1, Joined(p) PROVE p \in Chains
  <2>1. PICK n \in Nat : n = Len(p) /\ DOMAIN p = 1 .. n OBVIOUS
  <2>2. PICK f : f = [i \in 1 .. n |-> p[i].target] OBVIOUS
  <2>3. ASSUME NEW i \in 1 .. n PROVE p[i].target \in Facts
    <3>1. p[i] \in CausalEdge BY <2>1, EdgesFrom
    <3> QED BY <3>1 DEF CausalEdge
  <2>4. ASSUME NEW i \in 1 .. n, NEW j \in 1 .. n, f[i] = f[j] PROVE i = j
    <3>1. p[i].target = p[j].target BY <2>2, <2>4
    <3>2. r[p[i].target] \in Nat /\ r[p[j].target] \in Nat BY <2>3 DEF Ranking
    <3>3. ~ i < j BY <1>2, <2>1, <3>1, <3>2, ChainRises
    <3>4. ~ j < i BY <1>2, <2>1, <3>1, <3>2, ChainRises
    <3> QED BY <3>3, <3>4
  <2>5. f \in Injection(1 .. n, Facts)
    <3>1. f \in [1 .. n -> Facts] BY <2>2, <2>3
    <3> QED BY <2>4, <3>1 DEF Injection, IsInjective
  <2>6. IsFiniteSet(1 .. n) /\ Cardinality(1 .. n) = n BY FS_Interval
  <2>7. n <= N BY <1>1, <2>5, <2>6, DagAssumption, FS_Injection
  <2>8. n \in 1 .. N /\ p \in [1 .. n -> CausalEdges] BY <1>2, <2>1, <2>7
  <2> QED BY <1>1, <1>2, <2>8 DEF Chains, Joined
<1>3. ASSUME NEW p \in Chains PROVE p \in Seq(CausalEdges) /\ Len(p) >= 1 /\ Joined(p)
  <2>1. PICK n \in 1 .. N : p \in [1 .. n -> CausalEdges] BY <1>1 DEF Chains
  <2>2. p \in Seq(CausalEdges) /\ Len(p) = n BY <2>1
  <2>3. Joined(p) BY DEF Chains, Joined
  <2> QED BY <2>1, <2>2, <2>3
<1> QED BY <1>2, <1>3

LEMMA RankedAcyclic ==
  ASSUME LinksOK, NEW r, Ranking(r) PROVE Acyclic
<1>1. ASSUME NEW p \in Chains, p[1].source = Last(p).target PROVE FALSE
  <2>1. p \in Seq(CausalEdges) /\ Len(p) >= 1 /\ Joined(p) BY ChainsAre
  <2>2. PICK n \in Nat : n = Len(p) /\ n >= 1 /\ DOMAIN p = 1 .. n BY <2>1
  <2>3. n \in 1 .. n BY <2>2
  <2>4. r[p[1].source] < r[p[n].target] BY <2>1, <2>2, <2>3, ChainRises
  <2>5. p[1].source = p[n].target BY <1>1, <2>2 DEF Last
  <2>6. p[n] \in CausalEdge BY <2>1, <2>2, <2>3, EdgesFrom
  <2>7. r[p[n].target] \in Nat BY <2>6 DEF CausalEdge, Ranking
  <2> QED BY <2>4, <2>5, <2>7
<1> QED BY <1>1 DEF Acyclic

\* The paths of k edges the search stands on, when there is no cycle.
Roads(k, from, to, min) ==
  {p \in Seq(CausalEdges) :
     /\ Len(p) = k /\ Joined(p)
     /\ k >= 1 => p[1].source = from /\ StrengthOf(p) >= min
     /\ \A i \in 1 .. k - 1 : p[i].target # to}
AsPath(p) == [edges |-> p, strength |-> StrengthOf(p)]
AsPaths(P) == {AsPath(p) : p \in P}
Followed(paths, from, to, min) ==
  UNION {{Stepped(path, e) : e \in Onwards(from, path, min)} :
           path \in {q \in paths : q.edges # <<>> => EndOf(from, q) # to}}

LEMMA RoadsStart ==
  ASSUME NEW from, NEW to, NEW min
  PROVE  AsPaths(Roads(0, from, to, min)) = {[edges |-> <<>>, strength |-> Certain]}
<1>1. ASSUME NEW p \in Roads(0, from, to, min) PROVE p = <<>>
  <2>1. p \in Seq(CausalEdges) /\ Len(p) = 0 BY DEF Roads
  <2> QED BY <2>1
<1>2. <<>> \in Roads(0, from, to, min)
  <2>1. PICK s : s = <<>> OBVIOUS
  <2>2. s \in Seq(CausalEdges) /\ Len(s) = 0 BY <2>1
  <2>3. 1 .. 0 - 1 = {} /\ ~ 0 >= 1 OBVIOUS
  <2>4. Joined(s) BY <2>2, <2>3 DEF Joined
  <2> QED BY <2>1, <2>2, <2>3, <2>4 DEF Roads
<1>3. Roads(0, from, to, min) = {<<>>} BY <1>1, <1>2
<1>4. AsPath(<<>>) = [edges |-> <<>>, strength |-> Certain] BY StrengthSteps DEF AsPath
<1> QED BY <1>3, <1>4 DEF AsPaths

\* Where a path ends, and the facts on it.
LEMMA PathEnds ==
  ASSUME LinksOK, NEW p \in Seq(CausalEdges), NEW from
  PROVE  /\ EndOf(from, AsPath(p)) = IF Len(p) = 0 THEN from ELSE p[Len(p)].target
         /\ AsPath(p).edges = p /\ AsPath(p).strength = StrengthOf(p)
         /\ \A n : n \in NodesOf(from, AsPath(p)) <=> n = from \/ \E i \in 1 .. Len(p) : n = p[i].target
<1>1. AsPath(p).edges = p /\ AsPath(p).strength = StrengthOf(p) BY DEF AsPath
<1>2. Len(p) = 0 <=> p = <<>> OBVIOUS
<1>3. EndOf(from, AsPath(p)) = IF Len(p) = 0 THEN from ELSE p[Len(p)].target
  BY <1>1, <1>2 DEF EndOf, Last
<1>4. DOMAIN p = 1 .. Len(p) OBVIOUS
<1>5. \A n : n \in NodesOf(from, AsPath(p)) <=> n = from \/ \E e \in ToSet(p) : n = e.target
  BY <1>1 DEF NodesOf
<1>6. \A e : e \in ToSet(p) <=> \E i \in 1 .. Len(p) : e = p[i] BY <1>4 DEF ToSet
<1> QED BY <1>1, <1>3, <1>5, <1>6

LEMMA RoadsGrow ==
  ASSUME LinksOK, NEW r, Ranking(r), NEW k \in Nat, NEW from \in Facts, NEW to, NEW min \in Int
  PROVE  AsPaths(Roads(k + 1, from, to, min)) = Followed(AsPaths(Roads(k, from, to, min)), from, to, min)
<1>1. ASSUME NEW s \in Roads(k + 1, from, to, min)
      PROVE  AsPath(s) \in Followed(AsPaths(Roads(k, from, to, min)), from, to, min)
  <2>1. /\ s \in Seq(CausalEdges) /\ Len(s) = k + 1 /\ Joined(s)
        /\ s[1].source = from /\ StrengthOf(s) >= min
        /\ \A i \in 1 .. k : s[i].target # to
    <3>1. (k + 1) - 1 = k /\ k + 1 >= 1 OBVIOUS
    <3> QED BY <3>1 DEF Roads
  <2>2. DOMAIN s = 1 .. k + 1 /\ \A i \in 1 .. k + 1 : s[i] \in CausalEdges BY <2>1
  <2>3. PICK q : q = [i \in 1 .. k |-> s[i]] OBVIOUS
  <2>4. q \in Seq(CausalEdges) /\ Len(q) = k /\ \A i \in 1 .. k : q[i] = s[i]
    <3>1. \A i \in 1 .. k : s[i] \in CausalEdges BY <2>2
    <3>2. q \in [1 .. k -> CausalEdges] BY <2>3, <3>1
    <3> QED BY <2>3, <3>2
  <2>5. PICK e : e = s[k + 1] OBVIOUS
  <2>6. e \in CausalEdges /\ e \in CausalEdge BY <2>2, <2>5, EdgesFrom
  <2>7. s = Append(q, e)
    <3>1. PICK t : t = Append(q, e) OBVIOUS
    <3>2. t \in Seq(CausalEdges) /\ Len(t) = k + 1 /\ t[k + 1] = e /\ \A i \in 1 .. k : t[i] = q[i]
      BY <2>4, <2>6, <3>1
    <3>3. \A i \in 1 .. k + 1 : t[i] = s[i]
      <4>1. \A i \in 1 .. k + 1 : i \in 1 .. k \/ i = k + 1 OBVIOUS
      <4> QED BY <2>4, <2>5, <3>2, <4>1
    <3>4. s = t BY <2>1, <3>2, <3>3
    <3> QED BY <3>1, <3>4
  <2>8. q \in Seq(CausalEdge)
    <3>1. CausalEdges \subseteq CausalEdge BY EdgesFrom
    <3> QED BY <2>4, <3>1
  <2>9. /\ StrengthOf(s) = Times(StrengthOf(q), e.strength)
        /\ StrengthOf(q) \in 0 .. Certain /\ StrengthOf(s) <= StrengthOf(q)
    BY <2>6, <2>7, <2>8, StrengthSteps
  <2>10. StrengthOf(s) \in Int
    <3>1. e.strength \in 0 .. Certain BY <2>6 DEF CausalEdge
    <3>2. Times(StrengthOf(q), e.strength) \in 0 .. Certain BY <2>9, <3>1, TimesFalls
    <3> QED BY <2>9, <3>2
  <2>11. q \in Roads(k, from, to, min)
    <3>1. Joined(q)
      <4>1. ASSUME NEW i \in 1 .. k - 1 PROVE q[i].target = q[i + 1].source
        <5>1. i \in 1 .. (k + 1) - 1 /\ i \in 1 .. k /\ i + 1 \in 1 .. k OBVIOUS
        <5> QED BY <2>1, <2>4, <5>1 DEF Joined
      <4> QED BY <2>4, <4>1 DEF Joined
    <3>2. k >= 1 => q[1].source = from /\ StrengthOf(q) >= min BY <2>1, <2>4, <2>9, <2>10
    <3>3. \A i \in 1 .. k - 1 : q[i].target # to BY <2>1, <2>4
    <3> QED BY <2>4, <3>1, <3>2, <3>3 DEF Roads
  <2>12. PICK path : path = AsPath(q) OBVIOUS
  <2>13. path \in AsPaths(Roads(k, from, to, min)) BY <2>11, <2>12 DEF AsPaths
  <2>14. /\ EndOf(from, path) = IF k = 0 THEN from ELSE q[k].target
         /\ path.edges = q /\ path.strength = StrengthOf(q)
         /\ \A n : n \in NodesOf(from, path) <=> n = from \/ \E i \in 1 .. k : n = q[i].target
    BY <2>4, <2>12, PathEnds
  <2>15. path.edges # <<>> => EndOf(from, path) # to
    <3>1. ASSUME path.edges # <<>> PROVE EndOf(from, path) # to
      <4>1. k # 0 /\ k \in 1 .. k BY <2>4, <2>14, <3>1
      <4> QED BY <2>1, <2>4, <2>14, <4>1
    <3> QED BY <3>1
  <2>16. e.source = EndOf(from, path)
    <3>1. CASE k = 0 BY <2>1, <2>5, <2>14, <3>1
    <3>2. CASE k # 0
      <4>1. k \in 1 .. (k + 1) - 1 /\ k \in 1 .. k BY <3>2
      <4>2. s[k].target = s[k + 1].source BY <2>1, <4>1 DEF Joined
      <4> QED BY <2>4, <2>5, <2>14, <3>2, <4>1, <4>2
    <3> QED BY <3>1, <3>2
  <2>17. e \in ToSet(adjacency[EndOf(from, path)])
    <3>1. e.source \in Facts BY <2>6 DEF CausalEdge
    <3> QED BY <2>6, <2>16, <3>1, EdgesFrom
  <2>18. e.target \notin NodesOf(from, path)
    <3>1. r[from] < r[e.target] /\ \A i \in 1 .. k : r[s[i].target] < r[e.target]
      <4>1. k + 1 \in 1 .. k + 1 /\ \A i \in 1 .. k : i \in 1 .. k + 1 /\ i < k + 1 OBVIOUS
      <4> QED BY <2>1, <2>5, <4>1, ChainRises
    <3>2. r[e.target] \in Nat BY <2>6 DEF CausalEdge, Ranking
    <3>3. e.target # from BY <3>1, <3>2
    <3>4. \A i \in 1 .. k : e.target # q[i].target BY <2>4, <3>1, <3>2
    <3> QED BY <2>14, <3>3, <3>4
  <2>19. e \in Onwards(from, path, min)
    <3>1. Times(path.strength, e.strength) >= min BY <2>1, <2>9, <2>14
    <3> QED BY <2>17, <2>18, <3>1 DEF Onwards
  <2>20. AsPath(s) = Stepped(path, e) BY <2>7, <2>9, <2>14 DEF AsPath, Stepped
  <2> QED BY <2>13, <2>15, <2>19, <2>20 DEF Followed
<1>2. ASSUME NEW x \in Followed(AsPaths(Roads(k, from, to, min)), from, to, min)
      PROVE  \E s \in Roads(k + 1, from, to, min) : x = AsPath(s)
  <2>1. PICK path \in AsPaths(Roads(k, from, to, min)) :
          /\ path.edges # <<>> => EndOf(from, path) # to
          /\ \E e \in Onwards(from, path, min) : x = Stepped(path, e)
    BY DEF Followed
  <2>2. PICK e \in Onwards(from, path, min) : x = Stepped(path, e) BY <2>1
  <2>3. PICK q \in Roads(k, from, to, min) : path = AsPath(q) BY DEF AsPaths
  <2>4. /\ q \in Seq(CausalEdges) /\ Len(q) = k /\ Joined(q)
        /\ k >= 1 => q[1].source = from /\ StrengthOf(q) >= min
        /\ \A i \in 1 .. k - 1 : q[i].target # to
    BY DEF Roads
  <2>5. /\ EndOf(from, path) = IF k = 0 THEN from ELSE q[k].target
        /\ path.edges = q /\ path.strength = StrengthOf(q)
    BY <2>3, <2>4, PathEnds
  <2>6. EndOf(from, path) \in Facts
    <3>1. CASE k = 0 BY <2>5, <3>1
    <3>2. CASE k # 0
      <4>1. k \in DOMAIN q BY <2>4, <3>2
      <4>2. q[k] \in CausalEdge BY <2>4, <4>1, EdgesFrom
      <4> QED BY <2>5, <3>2, <4>2 DEF CausalEdge
    <3> QED BY <3>1, <3>2
  <2>7. e \in ToSet(adjacency[EndOf(from, path)]) /\ Times(path.strength, e.strength) >= min BY DEF Onwards
  <2>8. e \in CausalEdges /\ e.source = EndOf(from, path) /\ e \in CausalEdge BY <2>6, <2>7, EdgesFrom
  <2>9. PICK s : s = Append(q, e) OBVIOUS
  <2>10. s \in Seq(CausalEdges) /\ Len(s) = k + 1 /\ s[k + 1] = e /\ \A i \in 1 .. k : s[i] = q[i]
    BY <2>4, <2>8, <2>9
  <2>11. Joined(s)
    <3>1. ASSUME NEW i \in 1 .. (k + 1) - 1 PROVE s[i].target = s[i + 1].source
      <4>1. i \in 1 .. k /\ (i = k \/ (i \in 1 .. k - 1 /\ i + 1 \in 1 .. k)) OBVIOUS
      <4>2. CASE i = k BY <2>5, <2>8, <2>10, <4>1, <4>2
      <4>3. CASE i \in 1 .. k - 1 /\ i + 1 \in 1 .. k BY <2>4, <2>10, <4>1, <4>3 DEF Joined
      <4> QED BY <4>1, <4>2, <4>3
    <3> QED BY <2>10, <3>1 DEF Joined
  <2>12. s[1].source = from
    <3>1. CASE k = 0 BY <2>5, <2>8, <2>10, <3>1
    <3>2. CASE k # 0
      <4>1. 1 \in 1 .. k /\ k >= 1 BY <3>2
      <4> QED BY <2>4, <2>10, <4>1
    <3> QED BY <3>1, <3>2
  <2>13. q \in Seq(CausalEdge)
    <3>1. CausalEdges \subseteq CausalEdge BY EdgesFrom
    <3> QED BY <2>4, <3>1
  <2>14. StrengthOf(s) = Times(StrengthOf(q), e.strength) BY <2>8, <2>9, <2>13, StrengthSteps
  <2>15. StrengthOf(s) >= min BY <2>5, <2>7, <2>14
  <2>16. ASSUME NEW i \in 1 .. (k + 1) - 1 PROVE s[i].target # to
    <3>1. i \in 1 .. k /\ (i = k \/ i \in 1 .. k - 1) OBVIOUS
    <3>2. CASE i = k
      <4>1. q # <<>> /\ k # 0 BY <2>4, <3>1
      <4>2. q[k].target # to BY <2>1, <2>5, <4>1
      <4> QED BY <2>10, <3>1, <3>2, <4>2
    <3>3. CASE i \in 1 .. k - 1 BY <2>4, <2>10, <3>1, <3>3
    <3> QED BY <3>1, <3>2, <3>3
  <2>17. s \in Roads(k + 1, from, to, min) BY <2>10, <2>11, <2>12, <2>15, <2>16 DEF Roads
  <2>18. x = AsPath(s) BY <2>2, <2>5, <2>9, <2>14 DEF AsPath, Stepped
  <2> QED BY <2>17, <2>18
<1> QED BY <1>1, <1>2 DEF AsPaths

LEMMA SearchRoads ==
  ASSUME LinksOK, NEW r, Ranking(r), NEW max \in Nat, NEW from \in Facts, NEW to, NEW min \in Int
  PROVE  SearchPaths(from, to, max, min) =
           {path \in UNION {AsPaths(Roads(k, from, to, min)) : k \in 1 .. max} : EndOf(from, path) = to}
<1> DEFINE Step(g) == [k \in 0 .. max |->
                         IF k = 0 THEN {[edges |-> <<>>, strength |-> Certain]}
                         ELSE UNION {{Stepped(path, e) : e \in Onwards(from, path, min)} :
                                       path \in {q \in g[k - 1] : q.edges # <<>> => EndOf(from, q) # to}}]
           w == CHOOSE g : g = Step(g)
           g0 == [k \in 0 .. max |-> AsPaths(Roads(k, from, to, min))]
<1>1. g0 = Step(g0)
  <2>1. ASSUME NEW k \in 0 .. max PROVE g0[k] = Step(g0)[k]
    <3>1. CASE k = 0 BY <3>1, RoadsStart
    <3>2. CASE k # 0
      <4>1. k - 1 \in 0 .. max /\ k - 1 \in Nat /\ (k - 1) + 1 = k BY <3>2
      <4>2. g0[k] = AsPaths(Roads(k, from, to, min)) /\ g0[k - 1] = AsPaths(Roads(k - 1, from, to, min)) BY <4>1
      <4>3. AsPaths(Roads(k, from, to, min)) = Followed(AsPaths(Roads(k - 1, from, to, min)), from, to, min)
        BY <4>1, RoadsGrow
      <4>4. Step(g0)[k] = Followed(g0[k - 1], from, to, min)
        <5> HIDE DEF g0
        <5> QED BY <3>2 DEF Followed
      <4> HIDE DEF Step, g0
      <4> QED BY <4>2, <4>3, <4>4
    <3> QED BY <3>1, <3>2
  <2>2. g0 = [k \in 0 .. max |-> g0[k]] /\ Step(g0) = [k \in 0 .. max |-> Step(g0)[k]] OBVIOUS
  <2> HIDE DEF Step, g0
  <2> QED BY <2>1, <2>2
<1>2. w = Step(w)
  <2> HIDE DEF Step, g0
  <2> QED BY <1>1, Zenon
<1>3. SearchPaths(from, to, max, min) = {path \in UNION {w[k] : k \in 1 .. max} : EndOf(from, path) = to}
  BY DEF SearchPaths
<1> HIDE DEF w, g0
<1> DEFINE T == {k \in 0 .. max : w[k] = AsPaths(Roads(k, from, to, min))}
<1>4. 0 \in T
  <2>1. w[0] = Step(w)[0] BY <1>2, Zenon
  <2>2. w[0] = {[edges |-> <<>>, strength |-> Certain]} BY <2>1
  <2>3. w[0] = AsPaths(Roads(0, from, to, min)) BY <2>2, RoadsStart, Zenon
  <2>4. 0 \in 0 .. max OBVIOUS
  <2> HIDE DEF Step
  <2> QED BY <2>3, <2>4, Zenon
<1>5. ASSUME NEW k \in 0 .. max - 1, k \in T PROVE k + 1 \in T
  <2>1. k + 1 \in 0 .. max /\ k + 1 # 0 /\ (k + 1) - 1 = k /\ k \in Nat OBVIOUS
  <2>2. w[k + 1] = Step(w)[k + 1] BY <1>2, Zenon
  <2>3. w[k + 1] = Followed(w[k], from, to, min) BY <2>1, <2>2 DEF Followed
  <2>4. w[k] = AsPaths(Roads(k, from, to, min)) BY <1>5
  <2>5. w[k + 1] = AsPaths(Roads(k + 1, from, to, min)) BY <2>1, <2>3, <2>4, RoadsGrow
  <2> QED BY <2>1, <2>5
<1>6. ASSUME NEW k \in 1 .. max PROVE w[k] = AsPaths(Roads(k, from, to, min))
  <2> HIDE DEF T
  <2>1. 0 .. max \subseteq T BY <1>4, <1>5, UpTo
  <2>2. k \in T BY <2>1
  <2> QED BY <2>2 DEF T
<1>7. UNION {w[k] : k \in 1 .. max} = UNION {AsPaths(Roads(k, from, to, min)) : k \in 1 .. max}
  <2> HIDE DEF T
  <2> QED BY <1>6
<1> QED BY <1>3, <1>7

\* What the search answers: the chains between the two facts that are short
\* and strong enough, each once, with their strengths.
LEMMA SearchExactly ==
  ASSUME LinksOK, NEW r, Ranking(r), NEW max \in Nat, NEW from \in Facts, NEW to \in Facts, NEW min \in Int
  PROVE  SearchPaths(from, to, max, min) =
           AsPaths({q \in Between(Chains, from, to) : Len(q) <= max /\ StrengthOf(q) >= min})
<1> DEFINE Asked == {q \in Between(Chains, from, to) : Len(q) <= max /\ StrengthOf(q) >= min}
           Answer == {path \in UNION {AsPaths(Roads(k, from, to, min)) : k \in 1 .. max} : EndOf(from, path) = to}
<1>1. SearchPaths(from, to, max, min) = Answer BY SearchRoads
<1>2. ASSUME NEW x \in Answer PROVE x \in AsPaths(Asked)
  <2>1. PICK k \in 1 .. max : x \in AsPaths(Roads(k, from, to, min)) OBVIOUS
  <2>2. PICK p \in Roads(k, from, to, min) : x = AsPath(p) BY <2>1 DEF AsPaths
  <2>3. k >= 1 /\ k \in Nat /\ k <= max OBVIOUS
  <2>4. p \in Seq(CausalEdges) /\ Len(p) = k /\ Joined(p) /\ p[1].source = from /\ StrengthOf(p) >= min
    BY <2>2, <2>3 DEF Roads
  <2>5. p \in Chains BY <2>3, <2>4, ChainsAre
  <2>6. EndOf(from, AsPath(p)) = p[k].target BY <2>3, <2>4, PathEnds
  <2>7. EndOf(from, x) = to OBVIOUS
  <2>8. Last(p).target = to BY <2>2, <2>4, <2>6, <2>7 DEF Last
  <2>9. p \in Asked BY <2>3, <2>4, <2>5, <2>8 DEF Between
  <2> HIDE DEF Asked
  <2> QED BY <2>2, <2>9 DEF AsPaths
<1>3. ASSUME NEW p \in Asked PROVE AsPath(p) \in Answer
  <2>1. p \in Chains /\ p[1].source = from /\ Last(p).target = to BY DEF Between
  <2>2. p \in Seq(CausalEdges) /\ Len(p) >= 1 /\ Joined(p) BY <2>1, ChainsAre
  <2>3. PICK n \in Nat : n = Len(p) /\ n >= 1 /\ n <= max /\ StrengthOf(p) >= min BY <2>2
  <2>4. p[n].target = to BY <2>1, <2>3 DEF Last
  <2>5. n \in 1 .. Len(p) /\ n \in 1 .. max BY <2>3
  <2>6. p[n] \in CausalEdge BY <2>2, <2>5, EdgesFrom
  <2>7. r[p[n].target] \in Nat BY <2>6 DEF CausalEdge, Ranking
  <2>8. ASSUME NEW i \in 1 .. n - 1, p[i].target = to PROVE FALSE
    <3>1. i \in 1 .. Len(p) /\ i < n BY <2>3
    <3>2. r[p[i].target] < r[p[n].target] BY <2>2, <2>5, <3>1, ChainRises
    <3> QED BY <2>4, <2>7, <2>8, <3>2
  <2>9. p \in Roads(n, from, to, min) BY <2>1, <2>2, <2>3, <2>8 DEF Roads
  <2>10. AsPath(p) \in AsPaths(Roads(n, from, to, min)) BY <2>9 DEF AsPaths
  <2>11. EndOf(from, AsPath(p)) = to BY <2>2, <2>3, <2>4, PathEnds
  <2> QED BY <2>5, <2>10, <2>11
<1>4. ASSUME NEW x \in AsPaths(Asked) PROVE x \in Answer
  <2>1. PICK p \in Asked : x = AsPath(p) BY DEF AsPaths
  <2> HIDE DEF Asked, Answer
  <2> QED BY <1>3, <2>1
<1> HIDE DEF Asked, Answer
<1>5. Answer = AsPaths(Asked) BY <1>2, <1>4
<1> QED BY <1>1, <1>5 DEF Asked

LEMMA StrengthOfChain ==
  ASSUME LinksOK, NEW r, Ranking(r), NEW p \in Chains
  PROVE  StrengthOf(p) \in 0 .. Certain /\ Len(p) \in Nat
<1>1. p \in Seq(CausalEdges) BY ChainsAre
<1>2. CausalEdges \subseteq CausalEdge BY EdgesFrom
<1>3. p \in Seq(CausalEdge) BY <1>1, <1>2
<1>4. PICK h : Strengths(h, p) /\ StrengthOf(p) = h[Len(p)] BY <1>3, PathStrengths
<1>5. Len(p) \in Nat /\ Len(p) \in 0 .. Len(p) BY <1>1
<1> QED BY <1>4, <1>5 DEF Strengths

\* A cached list holds chains of the pair with their strengths; one cached
\* since the last insertion holds them all, up to the depth it was searched to.
CacheOK ==
  \A pair \in DOMAIN closureCache :
    /\ pair \in Facts \X Facts
    /\ \A x \in closureCache[pair] :
         x.edges \in Between(Chains, pair[1], pair[2]) /\ x.strength = StrengthOf(x.edges)
FreshOK ==
  /\ fresh \subseteq DOMAIN closureCache
  /\ \A pair \in fresh :
       closureCache[pair] = AsPaths({p \in Between(Chains, pair[1], pair[2]) : Len(p) <= ClosureDepth})
DagInv == LinksOK /\ (\E r : Ranking(r)) /\ CacheOK /\ FreshOK

\* The list materialize_closure caches.
LEMMA SearchAll ==
  ASSUME LinksOK, NEW r, Ranking(r), NEW from \in Facts, NEW to \in Facts
  PROVE  SearchPaths(from, to, ClosureDepth, 0) =
           AsPaths({p \in Between(Chains, from, to) : Len(p) <= ClosureDepth})
<1>1. ClosureDepth \in Nat BY DagAssumption
<1>2. SearchPaths(from, to, ClosureDepth, 0) =
        AsPaths({q \in Between(Chains, from, to) : Len(q) <= ClosureDepth /\ StrengthOf(q) >= 0})
  BY <1>1, SearchExactly
<1>3. \A q \in Between(Chains, from, to) : StrengthOf(q) >= 0
  <2>1. \A q \in Chains : StrengthOf(q) \in 0 .. Certain BY StrengthOfChain
  <2>2. Certain \in Int BY DEF Certain
  <2> QED BY <2>1, <2>2 DEF Between
<1>4. {q \in Between(Chains, from, to) : Len(q) <= ClosureDepth /\ StrengthOf(q) >= 0}
        = {p \in Between(Chains, from, to) : Len(p) <= ClosureDepth}
  BY <1>3
<1> QED BY <1>2, <1>4

LEMMA DagInvInit == DagInit => DagInv
<1> SUFFICES ASSUME DagInit PROVE DagInv OBVIOUS
<1>1. LinksOK /\ CausalEdges = {} BY LinksInit
<1>2. Ranking([n \in Facts |-> 0]) BY <1>1 DEF Ranking
<1>3. DOMAIN closureCache = {} /\ fresh = {} BY DEF DagInit
<1> QED BY <1>1, <1>2, <1>3 DEF DagInv, CacheOK, FreshOK

LEMMA DagInvInsert ==
  ASSUME DagInv, NEW a \in Facts, NEW b \in Facts, NEW s \in EdgeStrengths,
         InsertCausalEdge([source |-> a, target |-> b, strength |-> s])
  PROVE  DagInv'
<1>1. PICK e : e = [source |-> a, target |-> b, strength |-> s] OBVIOUS
<1>2. InsertCausalEdge(e) BY <1>1
<1>3. e \in CausalEdge
  <2>1. e.strength \in 0 .. Certain BY <1>2 DEF InsertCausalEdge
  <2> QED BY <1>1, <2>1 DEF CausalEdge
<1>4. Link(e) BY <1>2 DEF InsertCausalEdge
<1>5. LinksOK /\ CacheOK BY DEF DagInv
<1>6. LinksOK' /\ CausalEdges' = CausalEdges \cup {e} BY <1>3, <1>4, <1>5, LinksGrow
<1>7. PICK r : Ranking(r) BY DEF DagInv
<1>8. PICK q : q \in [Facts -> Nat] /\ \A d \in CausalEdges \cup {e} : q[d.source] < q[d.target]
  BY <1>2, <1>3, <1>5, <1>7, StaysRanked
<1>9. Ranking(q)' BY <1>6, <1>8 DEF Ranking
<1>10. closureCache' = closureCache /\ fresh' = {} BY <1>4 DEF Link
<1>11. Chains \subseteq Chains'
  <2>1. PICK E : E = CausalEdges OBVIOUS
  <2>2. PICK F : F = CausalEdges' OBVIOUS
  <2>3. E \subseteq F BY <1>6, <2>1, <2>2
  <2>4. \A n \in 1 .. Cardinality(Facts) : [1 .. n -> E] \subseteq [1 .. n -> F] BY <2>3
  <2>5. Chains = {p \in UNION {[1..n -> E] : n \in 1..Cardinality(Facts)} :
                    \A i \in 1..Len(p) - 1 : p[i].target = p[i + 1].source}
    BY <2>1 DEF Chains
  <2>6. Chains' = {p \in UNION {[1..n -> F] : n \in 1..Cardinality(Facts)} :
                    \A i \in 1..Len(p) - 1 : p[i].target = p[i + 1].source}
    BY <2>2 DEF Chains
  <2> QED BY <2>4, <2>5, <2>6
<1>12. CacheOK'
  <2>1. PICK c : c = closureCache OBVIOUS
  <2>2. PICK C : C = Chains OBVIOUS
  <2>3. PICK D : D = Chains' OBVIOUS
  <2>4. \A from, to : Between(C, from, to) \subseteq Between(D, from, to)
    BY <1>11, <2>2, <2>3 DEF Between
  <2>5. \A pair \in DOMAIN c :
          /\ pair \in Facts \X Facts
          /\ \A x \in c[pair] : x.edges \in Between(C, pair[1], pair[2]) /\ x.strength = StrengthOf(x.edges)
    BY <1>5, <2>1, <2>2 DEF CacheOK
  <2>6. \A pair \in DOMAIN c :
          /\ pair \in Facts \X Facts
          /\ \A x \in c[pair] : x.edges \in Between(D, pair[1], pair[2]) /\ x.strength = StrengthOf(x.edges)
    BY <2>4, <2>5
  <2>7. closureCache' = c BY <1>10, <2>1
  <2> QED BY <2>3, <2>6, <2>7 DEF CacheOK
<1>13. FreshOK' BY <1>10 DEF FreshOK
<1> QED BY <1>6, <1>9, <1>12, <1>13 DEF DagInv

LEMMA DagInvMaterialize ==
  ASSUME DagInv, NEW from \in Facts, NEW to \in Facts, MaterializeClosure(from, to)
  PROVE  DagInv'
<1>1. PICK r : Ranking(r) BY DEF DagInv
<1>2. LinksOK /\ CacheOK /\ FreshOK BY DEF DagInv
<1>3. adjacency' = adjacency BY DEF MaterializeClosure
<1>4. CausalEdges' = CausalEdges BY <1>3 DEF CausalEdges
<1>5. LinksOK' /\ Ranking(r)' /\ Chains' = Chains BY <1>1, <1>2, <1>3, <1>4 DEF LinksOK, Ranking, Chains
<1>6. PICK L : L = AsPaths({p \in Between(Chains, from, to) : Len(p) <= ClosureDepth}) OBVIOUS
<1>7. SearchPaths(from, to, ClosureDepth, 0) = L BY <1>1, <1>2, <1>6, SearchAll
<1>8. PICK c : c = closureCache OBVIOUS
<1>9. PICK d : d = closureCache' OBVIOUS
<1>10. PICK pair : pair = <<from, to>> OBVIOUS
<1>11. d = [z \in DOMAIN c \cup {pair} |-> IF z = pair THEN L ELSE c[z]]
  BY <1>7, <1>8, <1>9, <1>10 DEF MaterializeClosure
<1>12. DOMAIN d = DOMAIN c \cup {pair} /\ d[pair] = L /\ \A z \in DOMAIN c \ {pair} : d[z] = c[z]
  BY <1>11
<1>13. pair \in Facts \X Facts /\ pair[1] = from /\ pair[2] = to BY <1>10
<1>14. PICK C : C = Chains OBVIOUS
<1>15. C = Chains' BY <1>5, <1>14
<1>16. CacheOK'
  <2>1. \A x \in L : x.edges \in Between(C, from, to) /\ x.strength = StrengthOf(x.edges)
    BY <1>6, <1>14 DEF AsPaths, AsPath
  <2>2. ASSUME NEW z \in DOMAIN d
        PROVE  /\ z \in Facts \X Facts
               /\ \A x \in d[z] : x.edges \in Between(C, z[1], z[2]) /\ x.strength = StrengthOf(x.edges)
    <3>1. CASE z = pair BY <1>12, <1>13, <2>1, <3>1
    <3>2. CASE z # pair
      <4>1. z \in DOMAIN c /\ d[z] = c[z] BY <1>12, <3>2
      <4>2. /\ z \in Facts \X Facts
            /\ \A x \in c[z] : x.edges \in Between(C, z[1], z[2]) /\ x.strength = StrengthOf(x.edges)
        BY <1>2, <1>8, <1>14, <4>1 DEF CacheOK
      <4> QED BY <4>1, <4>2
    <3> QED BY <3>1, <3>2
  <2> QED BY <1>9, <1>15, <2>2 DEF CacheOK
<1>17. FreshOK'
  <2>1. fresh' = fresh \cup {pair} BY <1>10 DEF MaterializeClosure
  <2>2. fresh \subseteq DOMAIN c BY <1>2, <1>8 DEF FreshOK
  <2>3. ASSUME NEW z \in fresh \cup {pair}
        PROVE  d[z] = AsPaths({p \in Between(C, z[1], z[2]) : Len(p) <= ClosureDepth})
    <3>1. CASE z = pair BY <1>6, <1>12, <1>13, <1>14, <3>1
    <3>2. CASE z # pair
      <4>1. z \in fresh /\ z \in DOMAIN c \ {pair} BY <2>2, <2>3, <3>2
      <4>2. c[z] = AsPaths({p \in Between(C, z[1], z[2]) : Len(p) <= ClosureDepth})
        BY <1>2, <1>8, <1>14, <4>1 DEF FreshOK
      <4> QED BY <1>12, <4>1, <4>2
    <3> QED BY <3>1, <3>2
  <2>4. fresh' \subseteq DOMAIN d BY <1>12, <2>1, <2>2
  <2>5. PICK F : F = fresh' OBVIOUS
  <2>6. F \subseteq DOMAIN d /\ \A z \in F : d[z] = AsPaths({p \in Between(C, z[1], z[2]) : Len(p) <= ClosureDepth})
    BY <2>1, <2>3, <2>4, <2>5
  <2> QED BY <1>9, <1>15, <2>5, <2>6 DEF FreshOK, AsPaths
<1> QED BY <1>5, <1>16, <1>17 DEF DagInv

LEMMA DagInvNext == DagInv /\ [DagNext]_dagVars => DagInv'
<1> SUFFICES ASSUME DagInv, [DagNext]_dagVars PROVE DagInv' OBVIOUS
<1>1. ASSUME NEW a \in Facts, NEW b \in Facts, NEW s \in EdgeStrengths,
             InsertCausalEdge([source |-> a, target |-> b, strength |-> s])
      PROVE  DagInv'
  BY <1>1, DagInvInsert
<1>2. ASSUME NEW pair \in HotPairs, MaterializeClosure(pair[1], pair[2]) PROVE DagInv'
  <2>1. pair[1] \in Facts /\ pair[2] \in Facts BY DagAssumption
  <2> QED BY <1>2, <2>1, DagInvMaterialize
<1>3. CASE UNCHANGED dagVars
  <2>1. adjacency' = adjacency /\ closureCache' = closureCache /\ fresh' = fresh BY <1>3 DEF dagVars
  <2>2. CausalEdges' = CausalEdges BY <2>1 DEF CausalEdges
  <2>3. Chains' = Chains BY <2>2 DEF Chains
  <2>4. PICK r : Ranking(r) BY DEF DagInv
  <2>5. Ranking(r)' BY <2>2, <2>4 DEF Ranking
  <2>6. LinksOK' BY <2>1 DEF DagInv, LinksOK
  <2>7. CacheOK' BY <2>1, <2>3 DEF DagInv, CacheOK
  <2>8. FreshOK' BY <2>1, <2>3 DEF DagInv, FreshOK
  <2> QED BY <2>5, <2>6, <2>7, <2>8 DEF DagInv
<1> QED BY <1>1, <1>2, <1>3 DEF DagNext

\* What paths() answers, cached or searched.
LEMMA DagInvPaths == DagInv => Paths
<1> SUFFICES ASSUME DagInv, NEW from \in Facts, NEW to \in Facts, NEW min \in EdgeStrengths,
                    NEW max \in 1 .. Cardinality(Facts)
             PROVE  /\ \A p \in CausalPaths(from, to, max, min) :
                         /\ p.edges \in {q \in Between(Chains, from, to) : StrengthOf(q) >= min}
                         /\ p.strength = StrengthOf(p.edges)
                    /\ <<from, to>> \notin DOMAIN closureCache =>
                         {p.edges : p \in CausalPaths(from, to, max, min)}
                           = {p \in {q \in Between(Chains, from, to) : StrengthOf(q) >= min} : Len(p) <= max}
                    /\ <<from, to>> \in fresh =>
                         {p \in {q \in Between(Chains, from, to) : StrengthOf(q) >= min} :
                            Len(p) <= max /\ Len(p) <= ClosureDepth}
                           \subseteq {p.edges : p \in CausalPaths(from, to, max, min)}
  BY DEF Paths
<1>1. PICK r : Ranking(r) BY DEF DagInv
<1>2. LinksOK /\ CacheOK /\ FreshOK BY DEF DagInv
<1>3. max \in Nat /\ min \in Int BY DagAssumption, FS_CardinalityType
<1>4. PICK B : B = Between(Chains, from, to) OBVIOUS
<1>5. PICK P : P = CausalPaths(from, to, max, min) OBVIOUS
<1>6. PICK pair : pair = <<from, to>> OBVIOUS
<1>7. pair[1] = from /\ pair[2] = to BY <1>6
<1>8. CASE pair \notin DOMAIN closureCache
  <2>1. P = SearchPaths(from, to, max, min) BY <1>5, <1>6, <1>8 DEF CausalPaths
  <2>2. P = AsPaths({q \in B : Len(q) <= max /\ StrengthOf(q) >= min}) BY <1>1, <1>2, <1>3, <1>4, <2>1, SearchExactly
  <2>3. \A p \in P : p.edges \in B /\ Len(p.edges) <= max /\ StrengthOf(p.edges) >= min /\ p.strength = StrengthOf(p.edges)
    BY <2>2 DEF AsPaths, AsPath
  <2>4. \A q \in B : Len(q) <= max /\ StrengthOf(q) >= min => AsPath(q) \in P /\ AsPath(q).edges = q
    BY <2>2 DEF AsPaths, AsPath
  <2>5. {p.edges : p \in P} = {p \in {q \in B : StrengthOf(q) >= min} : Len(p) <= max} BY <2>3, <2>4
  <2>6. pair \notin fresh BY <1>2, <1>8 DEF FreshOK
  <2> QED BY <1>4, <1>5, <1>6, <2>3, <2>5, <2>6
<1>9. CASE pair \in DOMAIN closureCache
  <2>1. PICK L : L = closureCache[pair] OBVIOUS
  <2>2. P = {p \in L : p.strength >= min} BY <1>5, <1>6, <1>9, <2>1 DEF CausalPaths
  <2>3. \A x \in L : x.edges \in B /\ x.strength = StrengthOf(x.edges)
    BY <1>2, <1>4, <1>7, <1>9, <2>1 DEF CacheOK
  <2>4. ASSUME pair \in fresh
        PROVE  {p \in {q \in B : StrengthOf(q) >= min} : Len(p) <= max /\ Len(p) <= ClosureDepth} \subseteq {p.edges : p \in P}
    <3>1. L = AsPaths({p \in B : Len(p) <= ClosureDepth}) BY <1>2, <1>4, <1>7, <2>1, <2>4 DEF FreshOK
    <3>2. \A q \in B : Len(q) <= ClosureDepth =>
            AsPath(q) \in L /\ AsPath(q).edges = q /\ AsPath(q).strength = StrengthOf(q)
      BY <3>1 DEF AsPaths, AsPath
    <3> QED BY <2>2, <3>2
  <2> QED BY <1>4, <1>5, <1>6, <1>9, <2>2, <2>3, <2>4
<1> QED BY <1>8, <1>9

LEMMA DagInvHolds == DagSpec => []DagInv
<1> QED BY DagInvInit, DagInvNext, PTL DEF DagSpec

\* insert_edge refuses whatever would close a cycle: however the edges come in,
\* no chain of them leads back to where it begins.
THEOREM AcyclicHolds == DagSpec => []Acyclic
<1>1. DagInv => Acyclic BY RankedAcyclic DEF DagInv
<1> QED BY <1>1, DagInvHolds, PTL

\* paths() answers with chains that are there and strong enough, at their
\* strengths: with exactly those of at most max_depth edges while the pair is
\* not cached, and just after materialize_closure with all of those that are
\* not longer than its own depth.  That a cached list holds none that is longer
\* than max_depth is not claimed: it does (HopsHeld).
THEOREM PathsHolds == DagSpec => []Paths
<1> QED BY DagInvPaths, DagInvHolds, PTL
=============================================================================
