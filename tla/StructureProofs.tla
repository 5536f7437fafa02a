-------------------------- MODULE StructureProofs ---------------------------
(***************************************************************************)
(* Proofs about four parts that stand alone.  The portals of an            *)
(* extended-query session run what they were bound to, for every set of    *)
(* names and queries and any number of messages.  The block cache counts   *)
(* its bytes and evicts its oldest blocks, for every set of keys and sizes *)
(* and every capacity.  Consolidating an agent's memories leaves none that *)
(* are alike and drops none without a better one, for every set of         *)
(* embeddings and any number of memories.  A context window keeps to its   *)
(* budget, shows a doubtful record to whoever asks for one and leaves out  *)
(* nothing that fits, for every set of records and options.                *)
(*                                                                         *)
(* A portal names a statement that exists, because statements are replaced *)
(* and never removed; and unless the statement was parsed again since, it  *)
(* still holds the query it held at the Bind.  In the cache the order      *)
(* lists every block once and the count is the bytes of the blocks         *)
(* (Coherent), before, during and after the evictions.  In the loops of    *)
(* consolidate what is dropped so far gave way, perhaps over others, to    *)
(* what is left (GaveWay), and pairs already compared stay settled.  Every *)
(* round of the selection of a window keeps what the window promises       *)
(* (Making), and takes a record or changes nothing; there are as many      *)
(* rounds as records, so nothing that fits is left (Stuck).                *)
(***************************************************************************)
EXTENDS ExtendedSession, BlockCache, AgentMemory, ContextWindow, NatLemmas, SequenceTheorems

-----------------------------------------------------------------------------
(* The session. *)

SessionSpec == SessionInit /\ [][SessionNext]_sessionVars

PInv ==
  /\ DOMAIN boundTo = DOMAIN portals
  /\ \A p \in DOMAIN portals :
       /\ portals[p] \in DOMAIN statements
       /\ p \notin stale => statements[portals[p]] = boundTo[p]

LEMMA InvariantP == SessionSpec => []PInv
<1>1. SessionInit => PInv BY DEF SessionInit, PInv
<1>2. PInv /\ [SessionNext]_sessionVars => PInv'
  <2> SUFFICES ASSUME PInv, [SessionNext]_sessionVars PROVE PInv' OBVIOUS
  <2>1. ASSUME NEW name \in StatementNames, NEW query \in SessionQueries, HandleParse(name, query)
        PROVE  PInv'
    <3>1. /\ DOMAIN statements' = DOMAIN statements \cup {name}
          /\ \A n \in DOMAIN statements : n # name => statements'[n] = statements[n]
      BY <2>1 DEF HandleParse, Stored
    <3>2. /\ stale' = stale \cup {p \in DOMAIN portals : portals[p] = name}
          /\ UNCHANGED <<portals, boundTo>>
      BY <2>1 DEF HandleParse
    <3> QED BY <3>1, <3>2 DEF PInv
  <2>2. ASSUME NEW portal \in PortalNames, NEW name \in StatementNames, HandleBind(portal, name)
        PROVE  PInv'
    <3>1. CASE name \in DOMAIN statements
      <4>1. /\ DOMAIN portals' = DOMAIN portals \cup {portal} /\ portals'[portal] = name
            /\ \A p \in DOMAIN portals : p # portal => portals'[p] = portals[p]
        BY <2>2, <3>1 DEF HandleBind, Stored
      <4>2. /\ DOMAIN boundTo' = DOMAIN boundTo \cup {portal}
            /\ boundTo'[portal] = statements[name]
            /\ \A p \in DOMAIN boundTo : p # portal => boundTo'[p] = boundTo[p]
        BY <2>2, <3>1 DEF HandleBind, Stored
      <4>3. stale' = stale \ {portal} /\ statements' = statements BY <2>2, <3>1 DEF HandleBind
      <4> QED BY <3>1, <4>1, <4>2, <4>3 DEF PInv
    <3>2. CASE name \notin DOMAIN statements BY <2>2, <3>2 DEF HandleBind, PInv
    <3> QED BY <3>1, <3>2
  <2>3. ASSUME UNCHANGED <<statements, portals, boundTo, stale>> PROVE PInv' BY <2>3 DEF PInv
  <2> QED BY <2>1, <2>2, <2>3 DEF SessionNext, HandleDescribe, HandleExecute, sessionVars
<1> QED BY <1>1, <1>2, PTL DEF SessionSpec

\* A portal that Bind acknowledged runs, whatever messages follow, and runs the
\* query it was bound to unless its statement's name was parsed again in
\* between (handle_parse, handle_bind, handle_execute).
THEOREM PortalsRunHolds == SessionSpec => PortalsRun
<1> DEFINE Runs == \A p \in DOMAIN boundTo :
                     HandleExecute(p) => /\ answer'[1] = "Run"
                                         /\ p \notin stale => answer'[2] = boundTo[p]
<1>1. PInv => Runs BY DEF PInv, HandleExecute
<1> QED BY <1>1, InvariantP, PTL DEF SessionSpec, PortalsRun

-----------------------------------------------------------------------------
(* The block cache. *)

CacheSpec == CacheInit /\ [][CacheNext]_cacheVars

\* A sequence that lists its elements once.
ListsOnce(o) == \A i, j \in 1 .. Len(o) : o[i] = o[j] => i = j

\* Such a sequence without the element at p.
LEMMA Removal ==
  ASSUME NEW K, NEW o \in Seq(K), ListsOnce(o), NEW p \in 1 .. Len(o)
  PROVE  /\ RemoveFirst(o, o[p]) \in Seq(K)
         /\ Len(RemoveFirst(o, o[p])) = Len(o) - 1
         /\ \A j \in 1 .. Len(o) - 1 :
              RemoveFirst(o, o[p])[j] = IF j < p THEN o[j] ELSE o[j + 1]
<1> DEFINE at == {i \in 1 .. Len(o) : o[i] = o[p]}
           l == SubSeq(o, 1, p - 1)
           r == SubSeq(o, p + 1, Len(o))
<1>1. at = {p} BY DEF ListsOnce
<1>2. Min(at) = p
  <2>1. Min(at) \in at /\ \A y \in at : Min(at) <= y
    <3>1. \E x \in at : \A y \in at : x <= y BY <1>1
    <3> HIDE DEF at
    <3> QED BY <3>1 DEF Min
  <2> QED BY <1>1, <2>1
<1>3. RemoveFirst(o, o[p]) = RemoveAt(o, p)
  BY <1>1, <1>2 DEF RemoveFirst, SelectInSeq
<1>4. l \in Seq(K) /\ Len(l) = p - 1 /\ \A i \in 1 .. p - 1 : l[i] = o[i]
  <2>1. \A i \in 1 .. p - 1 : o[i] \in K OBVIOUS
  <2>2. p - 1 \in Int /\ 1 \in Int OBVIOUS
  <2>3. /\ l \in Seq(K) /\ Len(l) = (IF 1 <= p - 1 THEN p - 1 - 1 + 1 ELSE 0)
        /\ \A i \in 1 .. p - 1 - 1 + 1 : l[i] = o[1 + i - 1]
    BY <2>1, <2>2, SubSeqProperties
  <2> QED BY <2>3
<1>5. r \in Seq(K) /\ Len(r) = Len(o) - p /\ \A i \in 1 .. Len(o) - p : r[i] = o[p + i]
  <2>1. \A i \in p + 1 .. Len(o) : o[i] \in K OBVIOUS
  <2>2. p + 1 \in Int /\ Len(o) \in Int OBVIOUS
  <2>3. /\ r \in Seq(K) /\ Len(r) = (IF p + 1 <= Len(o) THEN Len(o) - (p + 1) + 1 ELSE 0)
        /\ \A i \in 1 .. Len(o) - (p + 1) + 1 : r[i] = o[(p + 1) + i - 1]
    BY <2>1, <2>2, SubSeqProperties
  <2> QED BY <2>3
<1>6. /\ l \o r \in Seq(K) /\ Len(l \o r) = Len(l) + Len(r)
      /\ \A i \in 1 .. Len(l) + Len(r) : (l \o r)[i] = IF i <= Len(l) THEN l[i] ELSE r[i - Len(l)]
  <2> HIDE DEF l, r
  <2> QED BY <1>4, <1>5, ConcatProperties
<1>7. RemoveFirst(o, o[p]) = l \o r BY <1>3 DEF RemoveAt
<1>8. Len(l) + Len(r) = Len(o) - 1
  <2> HIDE DEF l, r
  <2>1. Len(o) \in Nat OBVIOUS
  <2> QED BY <1>4, <1>5, <2>1
<1>9. ASSUME NEW j \in 1 .. Len(o) - 1
      PROVE  (l \o r)[j] = IF j < p THEN o[j] ELSE o[j + 1]
  <2> HIDE DEF l, r
  <2>1. CASE j < p BY <1>4, <1>6, <1>8, <2>1
  <2>2. CASE ~(j < p)
    <3>1. j - (p - 1) \in 1 .. Len(o) - p /\ p + (j - (p - 1)) = j + 1 BY <2>2
    <3>2. (l \o r)[j] = r[j - (p - 1)] BY <1>4, <1>6, <1>8, <2>2
    <3> QED BY <1>5, <2>2, <3>1, <3>2
  <2> QED BY <2>1, <2>2
<1> HIDE DEF l, r
<1> QED BY <1>6, <1>7, <1>8, <1>9

\* The order lists every block once and the count is the bytes of the blocks.
Coherent(c) ==
  /\ c.blocks \in [DOMAIN c.blocks -> Nat]
  /\ c.order \in Seq(DOMAIN c.blocks) /\ ListsOnce(c.order)
  /\ \A key \in DOMAIN c.blocks : \E i \in 1 .. Len(c.order) : c.order[i] = key
  /\ c.bytes = Cardinality(BytesOf(c.blocks))

\* Then there are finitely many.
LEMMA FiniteBytes ==
  ASSUME NEW c, Coherent(c)
  PROVE  IsFiniteSet(DOMAIN c.blocks) /\ IsFiniteSet(BytesOf(c.blocks)) /\ c.bytes \in Nat
<1>1. PICK o : o = c.order OBVIOUS
<1>2. PICK b : b = c.blocks OBVIOUS
<1>3. PICK D : D = DOMAIN b OBVIOUS
<1>4. PICK I : I = 1 .. Len(o) OBVIOUS
<1>5. o \in Seq(D) /\ \A key \in D : \E i \in I : o[i] = key
  BY <1>1, <1>2, <1>3, <1>4 DEF Coherent
<1>6. Len(o) \in Nat /\ IsFiniteSet(I) BY <1>4, <1>5, FS_Interval
<1>7. o \in Surjection(I, D) BY <1>4, <1>5 DEF Surjection
<1>8. IsFiniteSet(D) BY <1>6, <1>7, FS_Surjection
<1>9. PICK A : A = [key \in D |-> {<<key, i>> : i \in 1 .. b[key]}] OBVIOUS
<1>10. ASSUME NEW key \in D PROVE IsFiniteSet(A[key])
  <2>1. PICK N : N = 1 .. b[key] OBVIOUS
  <2>2. b[key] \in Nat BY <1>2, <1>3 DEF Coherent
  <2>3. IsFiniteSet(N) BY <2>1, <2>2, FS_Interval
  <2>4. PICK g : g = [i \in N |-> <<key, i>>] OBVIOUS
  <2>5. g \in Surjection(N, A[key]) BY <1>9, <2>1, <2>4 DEF Surjection
  <2> QED BY <2>3, <2>5, FS_Surjection
<1>11. IsFiniteSet(UNION {A[key] : key \in D}) BY <1>8, <1>10, FiniteFamily
<1>12. UNION {A[key] : key \in D} = BytesOf(b) BY <1>3, <1>9 DEF BytesOf
<1>13. IsFiniteSet(BytesOf(b)) BY <1>11, <1>12
<1> QED BY <1>2, <1>3, <1>8, <1>13, FS_CardinalityType DEF Coherent

\* The bytes of a block more, or less.
LEMMA OneMore ==
  ASSUME NEW b, NEW d, NEW key, key \notin DOMAIN d, DOMAIN b = DOMAIN d \cup {key},
         \A x \in DOMAIN d : b[x] = d[x], b[key] \in Nat, IsFiniteSet(BytesOf(d))
  PROVE  /\ IsFiniteSet(BytesOf(b))
         /\ Cardinality(BytesOf(b)) = Cardinality(BytesOf(d)) + b[key]
<1>1. PICK N : N = 1 .. b[key] OBVIOUS
<1>2. PICK own : own = {<<key, i>> : i \in N} OBVIOUS
<1>3. PICK g : g = [i \in N |-> <<key, i>>] OBVIOUS
<1>4. g \in Surjection(N, own) BY <1>2, <1>3 DEF Surjection
<1>5. g \in Injection(N, own)
  <2>1. g \in [N -> own] BY <1>4 DEF Surjection
  <2>2. \A i, j \in N : g[i] = g[j] => i = j BY <1>3
  <2> QED BY <2>1, <2>2 DEF Injection, IsInjective
<1>6. IsFiniteSet(N) /\ Cardinality(N) = b[key] BY <1>1, FS_Interval
<1>7. IsFiniteSet(own) /\ Cardinality(own) = b[key] BY <1>4, <1>5, <1>6, FS_Surjection
<1>8. BytesOf(b) = BytesOf(d) \cup own
  <2>1. ASSUME NEW x PROVE x \in BytesOf(b) <=> x \in BytesOf(d) \/ x \in own
    <3>1. x \in BytesOf(b) <=> \E k \in DOMAIN b : x \in {<<k, i>> : i \in 1 .. b[k]}
      BY DEF BytesOf
    <3>2. x \in BytesOf(d) <=> \E k \in DOMAIN d : x \in {<<k, i>> : i \in 1 .. d[k]}
      BY DEF BytesOf
    <3>3. x \in own <=> x \in {<<key, i>> : i \in 1 .. b[key]} BY <1>1, <1>2
    <3>4. \A k \in DOMAIN d : {<<k, i>> : i \in 1 .. b[k]} = {<<k, i>> : i \in 1 .. d[k]}
      OBVIOUS
    <3> QED BY <3>1, <3>2, <3>3, <3>4, Zenon
  <2> QED BY <2>1
<1>9. BytesOf(d) \cap own = {} BY <1>2 DEF BytesOf
<1>10. Cardinality({}) = 0 BY FS_EmptySet
<1>11. /\ IsFiniteSet(BytesOf(d) \cup own)
       /\ Cardinality(BytesOf(d) \cup own) =
            Cardinality(BytesOf(d)) + Cardinality(own) - Cardinality(BytesOf(d) \cap own)
  BY <1>7, FS_Union
<1>12. Cardinality(BytesOf(d)) \in Nat BY FS_CardinalityType
<1>13. Cardinality(BytesOf(d) \cap own) = 0 BY <1>9, <1>10, Zenon
<1>14. Cardinality(BytesOf(d) \cup own) = Cardinality(BytesOf(d)) + b[key]
  BY <1>7, <1>11, <1>12, <1>13
<1>15. IsFiniteSet(BytesOf(b)) BY <1>8, <1>11, Zenon
<1>16. Cardinality(BytesOf(b)) = Cardinality(BytesOf(d)) + b[key] BY <1>8, <1>14, Zenon
<1> QED BY <1>15, <1>16

\* What dropping the block at position p of the order leaves.
LEMMA Drop ==
  ASSUME NEW c, Coherent(c), NEW p \in 1 .. Len(c.order), NEW key, key = c.order[p]
  PROVE  /\ Coherent(Dropped(c, key))
         /\ key \in DOMAIN c.blocks
         /\ DOMAIN Dropped(c, key).blocks = DOMAIN c.blocks \ {key}
         /\ \A x \in DOMAIN c.blocks \ {key} : Dropped(c, key).blocks[x] = c.blocks[x]
         /\ c.bytes = Dropped(c, key).bytes + c.blocks[key]
         /\ Len(Dropped(c, key).order) = Len(c.order) - 1
         /\ \A j \in 1 .. Len(c.order) - 1 :
              Dropped(c, key).order[j] = IF j < p THEN c.order[j] ELSE c.order[j + 1]
<1>1. PICK o : o = c.order OBVIOUS
<1>2. PICK b : b = c.blocks OBVIOUS
<1>3. PICK n : n = Len(o) OBVIOUS
<1>4. PICK q : q = RemoveFirst(o, key) OBVIOUS
<1>5. PICK d : d = Restrict(b, DOMAIN b \ {key}) OBVIOUS
<1>6. /\ o \in Seq(DOMAIN b) /\ ListsOnce(o) /\ b \in [DOMAIN b -> Nat]
      /\ \A x \in DOMAIN b : \E i \in 1 .. n : o[i] = x
      /\ c.bytes = Cardinality(BytesOf(b))
  BY <1>1, <1>2, <1>3 DEF Coherent
<1>7. n \in Nat /\ p \in 1 .. n /\ key = o[p] BY <1>1, <1>3, <1>6
<1>8. q \in Seq(DOMAIN b) /\ Len(q) = n - 1
      /\ \A j \in 1 .. n - 1 : q[j] = IF j < p THEN o[j] ELSE o[j + 1]
  <2>1. p \in 1 .. Len(o) BY <1>3, <1>7
  <2>2. /\ RemoveFirst(o, o[p]) \in Seq(DOMAIN b)
        /\ Len(RemoveFirst(o, o[p])) = Len(o) - 1
        /\ \A j \in 1 .. Len(o) - 1 :
             RemoveFirst(o, o[p])[j] = IF j < p THEN o[j] ELSE o[j + 1]
    BY <1>6, <2>1, Removal
  <2>3. RemoveFirst(o, o[p]) = q BY <1>4, <1>7
  <2> QED BY <1>3, <2>2, <2>3
<1>9. key \in DOMAIN b BY <1>3, <1>6, <1>7
<1>10. DOMAIN d = DOMAIN b \ {key} /\ \A x \in DOMAIN b \ {key} : d[x] = b[x]
  BY <1>5 DEF Restrict
<1>11. PICK dr : dr = Dropped(c, key) OBVIOUS
<1>12. dr.blocks = d /\ dr.order = q /\ dr.bytes = c.bytes - b[key]
  BY <1>1, <1>2, <1>4, <1>5, <1>11 DEF Dropped
<1>13. \A i, j \in 1 .. n : o[i] = o[j] => i = j BY <1>3, <1>6 DEF ListsOnce
<1>14. \A j \in 1 .. n - 1 : q[j] \in DOMAIN d
  <2> SUFFICES ASSUME NEW j \in 1 .. n - 1 PROVE q[j] \in DOMAIN d
    OBVIOUS
  <2>1. PICK i \in 1 .. n : q[j] = o[i] /\ i # p
    <3>1. CASE j < p BY <1>7, <1>8, <3>1
    <3>2. CASE ~(j < p) BY <1>7, <1>8, <3>2
    <3> QED BY <3>1, <3>2
  <2>2. o[i] \in DOMAIN b BY <1>3, <1>6
  <2> QED BY <1>7, <1>10, <1>13, <2>1, <2>2
<1>15. q \in Seq(DOMAIN d) BY <1>7, <1>8, <1>14
<1>16. ListsOnce(q)
  <2> SUFFICES ASSUME NEW i \in 1 .. n - 1, NEW j \in 1 .. n - 1, q[i] = q[j] PROVE i = j
    BY <1>8 DEF ListsOnce
  <2>1. PICK k \in 1 .. n : q[i] = o[k] /\ k = IF i < p THEN i ELSE i + 1
    BY <1>7, <1>8
  <2>2. PICK l \in 1 .. n : q[j] = o[l] /\ l = IF j < p THEN j ELSE j + 1
    BY <1>7, <1>8
  <2>3. k = l BY <1>13, <2>1, <2>2
  <2> QED BY <1>7, <2>1, <2>2, <2>3
<1>17. \A x \in DOMAIN d : \E i \in 1 .. n - 1 : q[i] = x
  <2> SUFFICES ASSUME NEW x \in DOMAIN d PROVE \E i \in 1 .. n - 1 : q[i] = x
    OBVIOUS
  <2>1. PICK i \in 1 .. n : o[i] = x BY <1>6, <1>10
  <2>2. i # p BY <1>7, <1>10, <2>1
  <2>3. CASE i < p BY <1>7, <1>8, <2>1, <2>3
  <2>4. CASE i > p
    <3>1. i - 1 \in 1 .. n - 1 /\ ~(i - 1 < p) /\ (i - 1) + 1 = i BY <1>7, <2>4
    <3> QED BY <1>8, <2>1, <3>1
  <2> QED BY <1>7, <2>2, <2>3, <2>4
<1>18. BytesOf(d) \subseteq BytesOf(b) BY <1>10 DEF BytesOf
<1>19. IsFiniteSet(BytesOf(d)) BY <1>2, <1>18, FiniteBytes, FS_Subset
<1>20. b[key] \in Nat BY <1>6, <1>9
<1>21. Cardinality(BytesOf(b)) = Cardinality(BytesOf(d)) + b[key]
  <2>1. DOMAIN b = DOMAIN d \cup {key} /\ key \notin DOMAIN d BY <1>9, <1>10
  <2>2. \A x \in DOMAIN d : b[x] = d[x] BY <1>10
  <2> QED BY <1>19, <1>20, <2>1, <2>2, OneMore
<1>22. Cardinality(BytesOf(d)) \in Nat BY <1>19, FS_CardinalityType
<1>23. dr.bytes = Cardinality(BytesOf(d)) /\ c.bytes = dr.bytes + b[key]
  BY <1>6, <1>12, <1>20, <1>21, <1>22
<1>24. d \in [DOMAIN d -> Nat]
  <2>1. \A x \in DOMAIN d : d[x] \in Nat BY <1>6, <1>10
  <2>2. d = [x \in DOMAIN d |-> d[x]] BY <1>5 DEF Restrict
  <2> QED BY <2>1, <2>2
<1>25. Coherent(dr)
  BY <1>8, <1>12, <1>15, <1>16, <1>17, <1>23, <1>24 DEF Coherent
<1> QED BY <1>1, <1>2, <1>3, <1>8, <1>9, <1>10, <1>11, <1>12, <1>23, <1>25

\* r is what k evictions leave of c.
AfterEvictions(c, k, r) ==
  /\ Coherent(r) /\ Len(r.order) = Len(c.order) - k
  /\ \A j \in 1 .. Len(c.order) - k : r.order[j] = c.order[k + j]
  /\ DOMAIN r.blocks \subseteq DOMAIN c.blocks
  /\ \A x \in DOMAIN r.blocks : r.blocks[x] = c.blocks[x]

LEMMA OneEviction ==
  ASSUME NEW c, Coherent(c), NEW k \in 1 .. Len(c.order), NEW r, AfterEvictions(c, k - 1, r)
  PROVE  /\ r.order # <<>>
         /\ AfterEvictions(c, k, Dropped(r, Head(r.order)))
         /\ r.bytes = Dropped(r, Head(r.order)).bytes + c.blocks[c.order[k]]
<1>1. PICK n : n = Len(c.order) OBVIOUS
<1>2. n \in Nat /\ k \in 1 .. n BY <1>1 DEF Coherent
<1>3. Coherent(r) /\ Len(r.order) = n - (k - 1) BY <1>1 DEF AfterEvictions
<1>4. \A j \in 1 .. n - (k - 1) : r.order[j] = c.order[(k - 1) + j]
  BY <1>1 DEF AfterEvictions
<1>5. r.order \in Seq(DOMAIN r.blocks) BY <1>3 DEF Coherent
<1>6. 1 \in 1 .. n - (k - 1) /\ (k - 1) + 1 = k BY <1>2
<1>7. r.order[1] = c.order[k] /\ 1 \in 1 .. Len(r.order) BY <1>3, <1>4, <1>6
<1>8. r.order # <<>> /\ Head(r.order) = c.order[k]
  <2>1. Len(r.order) # 0 BY <1>7
  <2>2. r.order # <<>> BY <2>1
  <2>3. Head(r.order) = r.order[1] BY <1>5, <2>2
  <2> QED BY <1>7, <2>2, <2>3
<1>9. PICK key : key = c.order[k] OBVIOUS
<1>10. PICK d : d = Dropped(r, key) OBVIOUS
<1>11. /\ Coherent(d) /\ key \in DOMAIN r.blocks
       /\ DOMAIN d.blocks = DOMAIN r.blocks \ {key}
       /\ \A x \in DOMAIN r.blocks \ {key} : d.blocks[x] = r.blocks[x]
       /\ r.bytes = d.bytes + r.blocks[key]
       /\ Len(d.order) = Len(r.order) - 1
       /\ \A j \in 1 .. Len(r.order) - 1 :
            d.order[j] = IF j < 1 THEN r.order[j] ELSE r.order[j + 1]
  <2>1. key = r.order[1] BY <1>7, <1>9
  <2>2. 1 \in 1 .. Len(r.order) BY <1>7
  <2>3. /\ Coherent(d) /\ key \in DOMAIN r.blocks
        /\ DOMAIN d.blocks = DOMAIN r.blocks \ {key}
        /\ r.bytes = d.bytes + r.blocks[key]
        /\ Len(d.order) = Len(r.order) - 1
    BY <1>3, <1>10, <2>1, <2>2, Drop
  <2>4. \A x \in DOMAIN r.blocks \ {key} : d.blocks[x] = r.blocks[x]
    BY <1>3, <1>10, <2>1, <2>2, Drop
  <2>5. \A j \in 1 .. Len(r.order) - 1 :
          d.order[j] = IF j < 1 THEN r.order[j] ELSE r.order[j + 1]
    <3>1. PICK p : p = 1 OBVIOUS
    <3>2. p \in 1 .. Len(r.order) /\ key = r.order[p] BY <2>1, <2>2, <3>1
    <3>3. \A j \in 1 .. Len(r.order) - 1 :
            Dropped(r, key).order[j] = IF j < p THEN r.order[j] ELSE r.order[j + 1]
      BY <1>3, <3>2, Drop
    <3> QED BY <1>10, <3>1, <3>3
  <2> QED BY <2>3, <2>4, <2>5
<1>12. Len(d.order) = n - k BY <1>2, <1>3, <1>11
<1>13. ASSUME NEW j \in 1 .. n - k PROVE d.order[j] = c.order[k + j]
  <2>1. j \in 1 .. Len(r.order) - 1 /\ ~(j < 1) BY <1>2, <1>3
  <2>2. d.order[j] = r.order[j + 1] BY <1>11, <2>1
  <2>3. j + 1 \in 1 .. n - (k - 1) /\ (k - 1) + (j + 1) = k + j BY <1>2
  <2> QED BY <1>4, <2>2, <2>3
<1>14. /\ DOMAIN r.blocks \subseteq DOMAIN c.blocks
       /\ \A x \in DOMAIN r.blocks : r.blocks[x] = c.blocks[x]
  BY DEF AfterEvictions
<1>15. /\ DOMAIN d.blocks \subseteq DOMAIN c.blocks
       /\ \A x \in DOMAIN d.blocks : d.blocks[x] = c.blocks[x]
  BY <1>11, <1>14
<1>16. AfterEvictions(c, k, d) BY <1>1, <1>11, <1>12, <1>13, <1>15 DEF AfterEvictions
<1>17. r.bytes = d.bytes + c.blocks[key] BY <1>11, <1>14
<1> QED BY <1>8, <1>9, <1>10, <1>16, <1>17

LEMMA Evictions ==
  ASSUME NEW c, Coherent(c), NEW h, h[0] = c,
         \A k \in 1 .. Len(c.order) :
           AfterEvictions(c, k - 1, h[k - 1]) => h[k] = Dropped(h[k - 1], Head(h[k - 1].order))
  PROVE  \A k \in 0 .. Len(c.order) : AfterEvictions(c, k, h[k])
<1>1. PICK n : n = Len(c.order) OBVIOUS
<1>2. n \in Nat BY <1>1 DEF Coherent
<1> DEFINE T == {k \in 0 .. n : AfterEvictions(c, k, h[k])}
<1>3. 0 \in T
  <2>1. \A j \in 1 .. n - 0 : c.order[j] = c.order[0 + j] BY <1>2
  <2>2. n = n - 0 BY <1>2
  <2>3. AfterEvictions(c, 0, c) BY <1>1, <2>1, <2>2 DEF AfterEvictions
  <2> QED BY <1>2, <2>3
<1>4. ASSUME NEW k \in 0 .. n - 1, k \in T PROVE k + 1 \in T
  <2>1. k + 1 \in 1 .. n /\ k + 1 \in 0 .. n /\ (k + 1) - 1 = k BY <1>2
  <2>2. AfterEvictions(c, (k + 1) - 1, h[(k + 1) - 1]) BY <1>4, <2>1
  <2>3. h[k + 1] = Dropped(h[(k + 1) - 1], Head(h[(k + 1) - 1].order)) BY <1>1, <2>1, <2>2
  <2>4. AfterEvictions(c, k + 1, h[k + 1]) BY <1>1, <2>1, <2>2, <2>3, OneEviction
  <2> QED BY <2>1, <2>4
<1>5. 0 .. n \subseteq T
  <2> HIDE DEF T
  <2> QED BY <1>2, <1>3, <1>4, UpTo
<1> QED BY <1>1, <1>5

\* A cache with its three fields.
IsCache(c) == \E b, o, n : c = [blocks |-> b, order |-> o, bytes |-> n]

\* The loop evicts only as many of the oldest blocks as it has to.
LEMMA Eviction ==
  ASSUME NEW c, Coherent(c), IsCache(c), NEW size \in Nat, size <= Capacity
  PROVE  \E k \in 0 .. Len(c.order) :
           /\ AfterEvictions(c, k, Evicted(c, size))
           /\ Evicted(c, size).bytes + size <= Capacity
           /\ k > 0 => Evicted(c, size).bytes + size + c.blocks[c.order[k]] > Capacity
<1> DEFINE n == Len(c.order)
           K == DOMAIN c.blocks
           S == {r \in [blocks : UNION {[D -> Nat] : D \in SUBSET K}, order : Seq(K), bytes : Nat] :
                   Coherent(r)}
           f == [x \in S \X (1 .. n) |->
                   IF x[1].order = <<>> THEN x[1] ELSE Dropped(x[1], Head(x[1].order))]
           Step(g) == [k \in 0 .. n |->
                         IF k = 0 THEN c ELSE Dropped(g[k - 1], Head(g[k - 1].order))]
           left == CHOOSE g : g = Step(g)
           fits == {k \in 0 .. n : left[k].bytes + size <= Capacity \/ k = n}
<1>1. n \in Nat BY DEF Coherent
<1>2. \A r \in S : Coherent(r) /\ DOMAIN r.blocks \subseteq K
  OBVIOUS
<1>3. ASSUME NEW r, Coherent(r), IsCache(r), DOMAIN r.blocks \subseteq K PROVE r \in S
  <2>1. PICK b, o, m : r = [blocks |-> b, order |-> o, bytes |-> m] BY <1>3 DEF IsCache
  <2>2. b \in [DOMAIN b -> Nat] /\ o \in Seq(DOMAIN b) BY <1>3, <2>1 DEF Coherent
  <2>3. m \in Nat BY <1>3, <2>1, FiniteBytes
  <2>4. o \in Seq(K)
    <3>1. PICK D : D = DOMAIN b OBVIOUS
    <3>2. PICK E : E = K OBVIOUS
    <3>3. D \subseteq E /\ o \in Seq(D) BY <1>3, <2>1, <2>2, <3>1, <3>2
    <3>4. o \in Seq(E) BY <3>3
    <3> QED BY <3>2, <3>4
  <2>5. b \in UNION {[D -> Nat] : D \in SUBSET K} BY <1>3, <2>1, <2>2
  <2> QED BY <1>3, <2>1, <2>3, <2>4, <2>5
<1>4. c \in S BY <1>3
<1>5. ASSUME NEW r \in S, r.order # <<>> PROVE Dropped(r, Head(r.order)) \in S
  <2>1. Coherent(r) /\ DOMAIN r.blocks \subseteq K BY <1>2
  <2>2. r.order \in Seq(DOMAIN r.blocks) BY <2>1 DEF Coherent
  <2>3. Head(r.order) = r.order[1] /\ 1 \in 1 .. Len(r.order) BY <1>5, <2>2
  <2>4. /\ Coherent(Dropped(r, Head(r.order)))
        /\ DOMAIN Dropped(r, Head(r.order)).blocks = DOMAIN r.blocks \ {Head(r.order)}
    <3> HIDE DEF S
    <3> QED BY <2>1, <2>3, Drop
  <2>5. IsCache(Dropped(r, Head(r.order))) BY DEF Dropped, IsCache
  <2> HIDE DEF S
  <2> QED BY <1>3, <2>1, <2>4, <2>5
<1> HIDE DEF S
<1>6. ASSUME NEW r \in S, NEW k \in 1 .. n
      PROVE  /\ f[<<r, k>>] \in S
             /\ f[<<r, k>>] = IF r.order = <<>> THEN r ELSE Dropped(r, Head(r.order))
  BY <1>5
<1>7. f \in [S \X (1 .. n) -> S]
  <2>1. ASSUME NEW x \in S \X (1 .. n) PROVE f[x] \in S
    <3>1. x[1] \in S /\ x[2] \in 1 .. n /\ x = <<x[1], x[2]>> OBVIOUS
    <3> HIDE DEF f
    <3> QED BY <1>6, <3>1
  <2> QED BY <2>1
<1> HIDE DEF f
<1>8. PICK g \in [0 .. n -> S] : Iterates(g, n, c, f)
  <2> HIDE DEF n
  <2> QED BY <1>1, <1>4, <1>7, Iterate
<1>9. ASSUME NEW k \in 1 .. n, AfterEvictions(c, k - 1, g[k - 1])
      PROVE  g[k] = Dropped(g[k - 1], Head(g[k - 1].order))
  <2>1. k - 1 \in 0 .. n BY <1>1
  <2>2. g[k - 1] \in S /\ g[k] = f[<<g[k - 1], k>>] BY <1>8, <2>1 DEF Iterates
  <2>3. g[k - 1].order # <<>> BY <1>9, OneEviction
  <2> QED BY <1>6, <2>2, <2>3
<1>10. g[0] = c BY <1>8 DEF Iterates
<1>11. \A k \in 0 .. n : AfterEvictions(c, k, g[k]) BY <1>9, <1>10, Evictions
<1>12. g = Step(g)
  <2>1. g[0] = Step(g)[0] BY <1>1, <1>10
  <2>2. ASSUME NEW k \in 1 .. n PROVE g[k] = Step(g)[k]
    <3>1. k \in 0 .. n /\ k - 1 \in 0 .. n /\ k # 0 BY <1>1
    <3>2. g[k] = Dropped(g[k - 1], Head(g[k - 1].order)) BY <1>9, <1>11, <3>1
    <3> QED BY <3>1, <3>2
  <2>3. \A k \in 0 .. n : k = 0 \/ k \in 1 .. n BY <1>1
  <2>4. \A k \in 0 .. n : g[k] = Step(g)[k] BY <2>1, <2>2, <2>3
  <2>5. DOMAIN g = 0 .. n /\ DOMAIN Step(g) = 0 .. n OBVIOUS
  <2> HIDE DEF Step
  <2> QED BY <2>4, <2>5
<1>13. left = Step(left)
  <2> HIDE DEF Step
  <2> QED BY <1>12, Zenon
<1>14. Evicted(c, size) = left[Min(fits)] BY DEF Evicted
<1> HIDE DEF left
<1>15. left[0] = c BY <1>1, <1>13
<1>16. ASSUME NEW k \in 1 .. n PROVE left[k] = Dropped(left[k - 1], Head(left[k - 1].order))
  <2>1. k \in 0 .. n /\ k # 0 BY <1>1
  <2>2. left[k] = Step(left)[k] BY <1>13, Zenon
  <2> QED BY <2>1, <2>2
<1>17. \A k \in 0 .. n : AfterEvictions(c, k, left[k]) BY <1>15, <1>16, Evictions
<1>18. \A k \in 0 .. n : left[k].bytes \in Nat BY <1>17, FiniteBytes DEF AfterEvictions
<1>19. PICK k : k = Min(fits) OBVIOUS
<1>20. k \in fits /\ \A j \in fits : k <= j
  <2>1. n \in fits BY <1>1
  <2>2. fits \subseteq Nat /\ fits # {} BY <1>1, <2>1
  <2> HIDE DEF fits
  <2>3. \E x \in fits : \A y \in fits : x <= y BY <2>2, LeastNat
  <2> QED BY <1>19, <2>3 DEF Min
<1>21. k \in 0 .. n BY <1>20
<1>22. left[k].bytes + size <= Capacity
  <2>1. CASE k # n BY <1>20, <2>1
  <2>2. CASE k = n
    <3>1. Coherent(left[n]) /\ Len(left[n].order) = 0 BY <1>1, <1>17 DEF AfterEvictions
    <3>2. DOMAIN left[n].blocks = {} BY <3>1 DEF Coherent
    <3>3. BytesOf(left[n].blocks) = {} BY <3>2 DEF BytesOf
    <3>4. left[n].bytes = 0 BY <3>1, <3>3, FS_EmptySet DEF Coherent
    <3> QED BY <2>2, <3>4
  <2> QED BY <2>1, <2>2
<1>23. ASSUME k > 0 PROVE left[k].bytes + size + c.blocks[c.order[k]] > Capacity
  <2>1. k \in 1 .. n /\ k - 1 \in 0 .. n /\ k - 1 # n BY <1>1, <1>21, <1>23
  <2>2. k - 1 \notin fits BY <1>20, <2>1
  <2>3. ~(left[k - 1].bytes + size <= Capacity) BY <2>1, <2>2
  <2>4. AfterEvictions(c, k - 1, left[k - 1]) BY <1>17, <2>1
  <2>5. left[k - 1].bytes = left[k].bytes + c.blocks[c.order[k]]
    BY <1>16, <2>1, <2>4, OneEviction
  <2>6. c.blocks[c.order[k]] \in Nat
    <3>1. c.order \in Seq(DOMAIN c.blocks) /\ c.blocks \in [DOMAIN c.blocks -> Nat] BY DEF Coherent
    <3>2. k \in 1 .. Len(c.order) BY <2>1
    <3>3. c.order[k] \in DOMAIN c.blocks BY <3>1, <3>2, ElementOfSeq
    <3> QED BY <3>1, <3>3
  <2> QED BY <1>18, <2>1, <2>3, <2>5, <2>6, BlockCacheAssumption
<1>24. Evicted(c, size) = left[k] BY <1>14, <1>19
<1> QED BY <1>17, <1>21, <1>22, <1>23, <1>24

\* A cached block more, at the back of the order.
LEMMA Added ==
  ASSUME NEW c, Coherent(c), NEW key, key \notin DOMAIN c.blocks,
         NEW b, DOMAIN b = DOMAIN c.blocks \cup {key}, b \in [DOMAIN b -> Nat],
         \A x \in DOMAIN c.blocks : b[x] = c.blocks[x]
  PROVE  Coherent([blocks |-> b, order |-> Append(c.order, key), bytes |-> c.bytes + b[key]])
<1>1. PICK o : o = c.order OBVIOUS
<1>2. PICK D : D = DOMAIN b OBVIOUS
<1>3. PICK q : q = Append(o, key) OBVIOUS
<1>4. /\ o \in Seq(DOMAIN c.blocks) /\ ListsOnce(o)
      /\ \A x \in DOMAIN c.blocks : \E i \in 1 .. Len(o) : o[i] = x
      /\ c.bytes = Cardinality(BytesOf(c.blocks))
  BY <1>1 DEF Coherent
<1>5. o \in Seq(D) /\ key \in D /\ Len(o) \in Nat
  <2>1. PICK C : C = DOMAIN c.blocks OBVIOUS
  <2>2. C \subseteq D /\ o \in Seq(C) BY <1>2, <1>4, <2>1
  <2>3. o \in Seq(D) BY <2>2
  <2> QED BY <1>2, <2>3
<1>6. q \in Seq(D) /\ Len(q) = Len(o) + 1 /\ q[Len(o) + 1] = key
      /\ \A i \in 1 .. Len(o) : q[i] = o[i]
  BY <1>3, <1>5
<1>7. \A i \in 1 .. Len(o) : o[i] # key BY <1>4
<1>8. ListsOnce(q)
  <2> SUFFICES ASSUME NEW i \in 1 .. Len(o) + 1, NEW j \in 1 .. Len(o) + 1, q[i] = q[j]
               PROVE  i = j
    BY <1>6 DEF ListsOnce
  <2>1. CASE i \in 1 .. Len(o) /\ j \in 1 .. Len(o) BY <1>4, <1>6, <2>1 DEF ListsOnce
  <2>2. CASE i = Len(o) + 1 /\ j \in 1 .. Len(o) BY <1>6, <1>7, <2>2
  <2>3. CASE j = Len(o) + 1 /\ i \in 1 .. Len(o) BY <1>6, <1>7, <2>3
  <2> QED BY <1>5, <2>1, <2>2, <2>3
<1>9. \A x \in D : \E i \in 1 .. Len(q) : q[i] = x
  <2> SUFFICES ASSUME NEW x \in D PROVE \E i \in 1 .. Len(o) + 1 : q[i] = x
    BY <1>6
  <2>1. CASE x = key BY <1>5, <1>6, <2>1
  <2>2. CASE x \in DOMAIN c.blocks
    <3>1. PICK i \in 1 .. Len(o) : o[i] = x BY <1>4, <2>2
    <3> QED BY <1>5, <1>6, <3>1
  <2> QED BY <1>2, <2>1, <2>2
<1>10. c.bytes + b[key] = Cardinality(BytesOf(b))
  <2>1. b[key] \in Nat BY <1>2, <1>5
  <2>2. IsFiniteSet(BytesOf(c.blocks)) BY FiniteBytes
  <2> QED BY <1>4, <2>1, <2>2, OneMore
<1> QED BY <1>1, <1>2, <1>3, <1>6, <1>8, <1>9, <1>10 DEF Coherent

\* The block of the same key makes way: at its place the order closes up.
Shift(p, j) == IF j < p THEN j ELSE j + 1
MadeWay(c, key) == IF key \in DOMAIN c.blocks THEN Dropped(c, key) ELSE c

LEMMA MakeWay ==
  ASSUME NEW c, Coherent(c), IsCache(c), NEW key
  PROVE  LET d == MadeWay(c, key)
         IN /\ Coherent(d) /\ IsCache(d)
            /\ DOMAIN d.blocks = DOMAIN c.blocks \ {key}
            /\ \A x \in DOMAIN d.blocks : d.blocks[x] = c.blocks[x]
            /\ \E p \in Nat :
                 /\ \A j \in 1 .. Len(d.order) :
                      Shift(p, j) \in 1 .. Len(c.order) /\ d.order[j] = c.order[Shift(p, j)]
                 /\ \A i \in 1 .. Len(c.order) : c.order[i] # key =>
                      \E j \in 1 .. Len(d.order) : i = Shift(p, j)
<1>1. PICK d : d = MadeWay(c, key) OBVIOUS
<1>2. PICK o : o = c.order OBVIOUS
<1>3. PICK n : n = Len(o) OBVIOUS
<1>4. n \in Nat /\ o \in Seq(DOMAIN c.blocks) BY <1>2, <1>3 DEF Coherent
<1>5. CASE key \in DOMAIN c.blocks
  <2>1. PICK p \in 1 .. n : o[p] = key BY <1>2, <1>3, <1>5 DEF Coherent
  <2>2. d = Dropped(c, key) /\ p \in 1 .. Len(c.order) /\ key = c.order[p]
    BY <1>1, <1>2, <1>3, <1>5, <2>1 DEF MadeWay
  <2>3. Coherent(d) BY <2>2, Drop
  <2>4. DOMAIN d.blocks = DOMAIN c.blocks \ {key} BY <2>2, Drop
  <2>5. \A x \in DOMAIN c.blocks \ {key} : d.blocks[x] = c.blocks[x] BY <2>2, Drop
  <2>6. Len(d.order) = n - 1 BY <1>2, <1>3, <2>2, Drop
  <2>7. \A j \in 1 .. n - 1 : d.order[j] = IF j < p THEN o[j] ELSE o[j + 1]
    BY <1>2, <1>3, <2>2, Drop
  <2>8. \A j \in 1 .. n - 1 : Shift(p, j) \in 1 .. n /\ d.order[j] = o[Shift(p, j)]
    BY <1>4, <2>1, <2>7 DEF Shift
  <2>9. ASSUME NEW i \in 1 .. n, o[i] # key PROVE \E j \in 1 .. n - 1 : i = Shift(p, j)
    <3>1. i # p BY <2>1, <2>9
    <3>2. CASE i < p
      <4>1. i \in 1 .. n - 1 /\ i = Shift(p, i) BY <1>4, <2>1, <3>2 DEF Shift
      <4> QED BY <4>1
    <3>3. CASE i > p
      <4>1. i - 1 \in 1 .. n - 1 /\ ~(i - 1 < p) /\ (i - 1) + 1 = i BY <1>4, <2>1, <3>3
      <4> QED BY <4>1 DEF Shift
    <3> QED BY <1>4, <2>1, <3>1, <3>2, <3>3
  <2>10. IsCache(d) BY <2>2 DEF Dropped, IsCache
  <2>11. p \in Nat BY <1>4, <2>1
  <2> QED BY <1>1, <1>2, <1>3, <2>3, <2>4, <2>5, <2>6, <2>8, <2>9, <2>10, <2>11
<1>6. CASE key \notin DOMAIN c.blocks
  <2>1. d = c BY <1>1, <1>6 DEF MadeWay
  <2>2. n + 1 \in Nat /\ \A j \in 1 .. n : Shift(n + 1, j) = j BY <1>4 DEF Shift
  <2>3. DOMAIN c.blocks \ {key} = DOMAIN c.blocks BY <1>6
  <2>4. \A j \in 1 .. n : Shift(n + 1, j) \in 1 .. n /\ o[j] = o[Shift(n + 1, j)] BY <2>2
  <2>5. \A i \in 1 .. n : \E j \in 1 .. n : i = Shift(n + 1, j) BY <2>2
  <2> QED BY <1>1, <1>2, <1>3, <2>1, <2>2, <2>3, <2>4, <2>5
<1> QED BY <1>5, <1>6

\* Blocks leave from the front of the order, and none that would have fitted.
OldestLeave(o, b, b2, q, m) ==
  LET gone == {i \in DOMAIN o : o[i] \notin DOMAIN b2}
      kept == {i \in DOMAIN o : o[i] \in DOMAIN b2 \ {Last(q)}}
  IN gone # {} =>
       /\ \A i \in gone, j \in kept : i < j
       /\ m + b[o[Max(gone)]] > Capacity

LEMMA Insertion ==
  ASSUME NEW c, Coherent(c), IsCache(c), NEW key, NEW size \in Nat, size <= Capacity,
         NEW r, r = Evicted(MadeWay(c, key), size)
  PROVE  /\ Coherent([blocks |-> WithBlock(r.blocks, key, size), order |-> Append(r.order, key),
                      bytes |-> r.bytes + size])
         /\ r.bytes + size <= Capacity
         /\ OldestLeave(c.order, c.blocks, WithBlock(r.blocks, key, size), Append(r.order, key),
                     r.bytes + size)
<1>1. PICK d : d = MadeWay(c, key) OBVIOUS
<1>2. /\ Coherent(d) /\ IsCache(d) /\ DOMAIN d.blocks = DOMAIN c.blocks \ {key}
      /\ \A x \in DOMAIN d.blocks : d.blocks[x] = c.blocks[x]
  BY <1>1, MakeWay
<1>3. PICK p \in Nat :
        /\ \A j \in 1 .. Len(d.order) :
             Shift(p, j) \in 1 .. Len(c.order) /\ d.order[j] = c.order[Shift(p, j)]
        /\ \A i \in 1 .. Len(c.order) : c.order[i] # key =>
             \E j \in 1 .. Len(d.order) : i = Shift(p, j)
  BY <1>1, MakeWay
<1>4. PICK o : o = c.order OBVIOUS
<1>5. PICK t : t = d.order OBVIOUS
<1>6. PICK n : n = Len(t) OBVIOUS
<1>7. n \in Nat /\ Len(o) \in Nat /\ DOMAIN o = 1 .. Len(o) /\ t \in Seq(DOMAIN d.blocks)
  BY <1>2, <1>4, <1>5, <1>6 DEF Coherent
<1>8. /\ \A j \in 1 .. n : Shift(p, j) \in DOMAIN o /\ t[j] = o[Shift(p, j)]
      /\ \A i \in DOMAIN o : o[i] # key => \E j \in 1 .. n : i = Shift(p, j)
  BY <1>3, <1>4, <1>5, <1>6, <1>7
<1>9. \A i, j \in 1 .. n : t[i] = t[j] => i = j BY <1>2, <1>5, <1>6 DEF Coherent, ListsOnce
<1>10. PICK k \in 0 .. n :
         /\ AfterEvictions(d, k, r)
         /\ r.bytes + size <= Capacity
         /\ k > 0 => r.bytes + size + d.blocks[t[k]] > Capacity
  BY <1>1, <1>2, <1>5, <1>6, Eviction
<1>11. PICK b2 : b2 = WithBlock(r.blocks, key, size) OBVIOUS
<1>12. PICK q : q = Append(r.order, key) OBVIOUS
<1>13. /\ Coherent(r) /\ Len(r.order) = n - k
       /\ \A j \in 1 .. n - k : r.order[j] = t[k + j]
       /\ DOMAIN r.blocks \subseteq DOMAIN d.blocks
  BY <1>5, <1>6, <1>10 DEF AfterEvictions
<1>14. key \notin DOMAIN r.blocks BY <1>2, <1>13
<1>15. /\ DOMAIN b2 = DOMAIN r.blocks \cup {key} /\ b2[key] = size
       /\ \A x \in DOMAIN r.blocks : b2[x] = r.blocks[x]
       /\ b2 \in [DOMAIN b2 -> Nat]
  <2>1. b2 = [x \in DOMAIN r.blocks \cup {key} |-> IF x = key THEN size ELSE r.blocks[x]]
    BY <1>11 DEF WithBlock
  <2>2. \A x \in DOMAIN r.blocks : r.blocks[x] \in Nat BY <1>13 DEF Coherent
  <2>3. DOMAIN b2 = DOMAIN r.blocks \cup {key} /\ b2[key] = size BY <2>1
  <2>4. \A x \in DOMAIN r.blocks : b2[x] = r.blocks[x] BY <1>14, <2>1
  <2>5. \A x \in DOMAIN b2 : b2[x] \in Nat BY <2>2, <2>3, <2>4
  <2>6. b2 = [x \in DOMAIN b2 |-> b2[x]] BY <2>1
  <2> QED BY <2>3, <2>4, <2>5, <2>6
<1>16. Coherent([blocks |-> b2, order |-> q, bytes |-> r.bytes + size])
  BY <1>12, <1>13, <1>14, <1>15, Added
<1>17. Last(q) = key
  <2>1. r.order \in Seq(DOMAIN r.blocks) BY <1>13 DEF Coherent
  <2> QED BY <1>12, <2>1 DEF Last
\* What stays cached is what the evictions have not reached.
<1>18. \A j \in 1 .. n : t[j] \in DOMAIN b2 <=> j > k
  <2>1. \A j \in 1 .. n : t[j] \in DOMAIN b2 <=> t[j] \in DOMAIN r.blocks
    <3>1. \A j \in 1 .. n : t[j] # key BY <1>2, <1>6, <1>7
    <3> QED BY <1>15, <3>1
  <2>2. ASSUME NEW j \in 1 .. n, j > k PROVE t[j] \in DOMAIN r.blocks
    <3>1. j - k \in 1 .. n - k /\ k + (j - k) = j BY <1>7, <1>10, <2>2
    <3>2. r.order[j - k] = t[j] BY <1>13, <3>1
    <3>3. r.order \in Seq(DOMAIN r.blocks) /\ j - k \in 1 .. Len(r.order)
      BY <1>13, <3>1 DEF Coherent
    <3> QED BY <3>2, <3>3
  <2>3. ASSUME NEW j \in 1 .. n, t[j] \in DOMAIN r.blocks PROVE j > k
    <3>1. PICK l \in 1 .. n - k : r.order[l] = t[j] BY <1>13, <2>3 DEF Coherent
    <3>2. k + l \in 1 .. n /\ t[k + l] = t[j] BY <1>7, <1>10, <1>13, <3>1
    <3>3. k + l = j BY <1>9, <3>2
    <3> QED BY <1>10, <3>1, <3>3
  <2> QED BY <2>1, <2>2, <2>3
<1> DEFINE gone == {i \in DOMAIN o : o[i] \notin DOMAIN b2}
           kept == {i \in DOMAIN o : o[i] \in DOMAIN b2 \ {key}}
<1>19. \A i, j \in 1 .. n : i < j <=> Shift(p, i) < Shift(p, j) BY DEF Shift
<1>20. ASSUME NEW i \in gone PROVE \E j \in 1 .. k : i = Shift(p, j)
  <2>1. o[i] # key BY <1>15
  <2>2. PICK j \in 1 .. n : i = Shift(p, j) BY <1>8, <2>1
  <2>3. ~(j > k) BY <1>8, <1>18, <2>2
  <2> QED BY <1>7, <1>10, <2>2, <2>3
<1>21. ASSUME NEW i \in kept PROVE \E j \in k + 1 .. n : i = Shift(p, j)
  <2>1. PICK j \in 1 .. n : i = Shift(p, j) BY <1>8
  <2>2. j > k BY <1>8, <1>18, <2>1
  <2> QED BY <1>7, <1>10, <2>1, <2>2
<1>22. ASSUME NEW i \in gone, NEW j \in kept PROVE i < j
  <2> HIDE DEF gone, kept
  <2>1. PICK x \in 1 .. k : i = Shift(p, x) BY <1>20
  <2>2. PICK y \in k + 1 .. n : j = Shift(p, y) BY <1>21
  <2>3. x \in 1 .. n /\ y \in 1 .. n /\ x < y BY <1>7, <1>10
  <2> QED BY <1>19, <2>1, <2>2, <2>3
<1>23. ASSUME gone # {} PROVE r.bytes + size + c.blocks[o[Max(gone)]] > Capacity
  <2>1. PICK i \in gone : TRUE BY <1>23
  <2>2. k \in 1 .. n
    <3> HIDE DEF gone
    <3>1. PICK j \in 1 .. k : i = Shift(p, j) BY <1>20, <2>1
    <3> QED BY <1>10, <3>1
  <2>3. t[k] \notin DOMAIN b2 BY <1>18, <2>2
  <2>4. Shift(p, k) \in gone BY <1>8, <2>2, <2>3
  <2>5. \A j \in gone : j <= Shift(p, k)
    <3> SUFFICES ASSUME NEW j \in gone PROVE j <= Shift(p, k)
      OBVIOUS
    <3>1. PICK l \in 1 .. k : j = Shift(p, l)
      <4> HIDE DEF gone
      <4> QED BY <1>20
    <3> QED BY <1>3, <2>2, <3>1 DEF Shift
  <2>6. Shift(p, k) \in Nat BY <1>3, <2>2 DEF Shift
  <2>7. Max(gone) = Shift(p, k)
    <3>1. gone \subseteq Nat BY <1>7
    <3> HIDE DEF gone
    <3>2. PICK s : s = Shift(p, k) OBVIOUS
    <3>3. s \in gone /\ \A y \in gone : s >= y /\ y \in Nat BY <2>4, <2>5, <3>1, <3>2
    <3>4. PICK m : m = Max(gone) OBVIOUS
    <3>5. m \in gone /\ \A y \in gone : m >= y BY <3>3, <3>4 DEF Max
    <3> QED BY <3>2, <3>3, <3>4, <3>5
  <2>8. o[Shift(p, k)] = t[k] /\ t[k] \in DOMAIN d.blocks BY <1>6, <1>7, <1>8, <2>2
  <2>9. d.blocks[t[k]] = c.blocks[t[k]] BY <1>2, <2>8
  <2> QED BY <1>10, <2>2, <2>7, <2>8, <2>9
<1>24. OldestLeave(o, c.blocks, b2, q, r.bytes + size)
  <2>1. gone # {} => /\ \A i \in gone, j \in kept : i < j
                     /\ r.bytes + size + c.blocks[o[Max(gone)]] > Capacity
    <3> HIDE DEF gone, kept
    <3> QED BY <1>22, <1>23
  <2> QED BY <1>17, <2>1 DEF OldestLeave
<1> QED BY <1>4, <1>10, <1>11, <1>12, <1>16, <1>24

Cache == [blocks |-> blocks, order |-> lruOrder, bytes |-> currentBytes]
BInv == Coherent(Cache) /\ currentBytes <= Capacity

\* get only moves the block to the back of the order.
LEMMA GetBlockStep ==
  ASSUME BInv, NEW key, GetBlock(key) PROVE BInv'
<1>1. PICK c : c = Cache OBVIOUS
<1>2. PICK b : b = blocks OBVIOUS
<1>3. c.blocks = b /\ c.order = lruOrder /\ c.bytes = currentBytes BY <1>1, <1>2 DEF Cache
<1>4. Coherent(c) /\ key \in DOMAIN b BY <1>1, <1>2 DEF BInv, GetBlock
<1>5. PICK p \in 1 .. Len(c.order) : c.order[p] = key BY <1>3, <1>4 DEF Coherent
<1>6. PICK d : d = Dropped(c, key) OBVIOUS
<1>7. /\ Coherent(d) /\ DOMAIN d.blocks = DOMAIN b \ {key} /\ c.bytes = d.bytes + b[key]
      /\ \A x \in DOMAIN b \ {key} : d.blocks[x] = b[x]
  BY <1>3, <1>4, <1>5, <1>6, Drop
<1>8. d.order = RemoveFirst(c.order, key) BY <1>6 DEF Dropped
<1>9. b \in [DOMAIN b -> Nat] BY <1>3, <1>4 DEF Coherent
<1>10. DOMAIN b = DOMAIN d.blocks \cup {key} /\ key \notin DOMAIN d.blocks BY <1>4, <1>7
<1>11. Coherent([blocks |-> b, order |-> Append(d.order, key), bytes |-> d.bytes + b[key]])
  BY <1>7, <1>9, <1>10, Added
<1>12. /\ lruOrder' = Append(RemoveFirst(lruOrder, key), key)
       /\ blocks' = blocks /\ currentBytes' = currentBytes
  BY DEF GetBlock
<1>13. Cache' = [blocks |-> b, order |-> Append(d.order, key), bytes |-> d.bytes + b[key]]
  BY <1>2, <1>3, <1>7, <1>8, <1>12 DEF Cache
<1> QED BY <1>11, <1>12, <1>13 DEF BInv

LEMMA InsertBlockStep ==
  ASSUME BInv, NEW key, NEW size \in Nat, InsertBlock(key, size)
  PROVE  BInv' /\ OldestLeave(lruOrder, blocks, blocks', lruOrder', currentBytes')
<1>1. PICK c : c = Cache OBVIOUS
<1>2. PICK r : r = Evicted(MadeWay(c, key), size) OBVIOUS
<1>3. c.blocks = blocks /\ c.order = lruOrder /\ Coherent(c) /\ IsCache(c)
  BY <1>1 DEF Cache, BInv, IsCache
<1>4. /\ size <= Capacity /\ blocks' = WithBlock(r.blocks, key, size)
      /\ currentBytes' = r.bytes + size /\ lruOrder' = Append(r.order, key)
  BY <1>1, <1>2 DEF InsertBlock, MadeWay, Cache
<1>5. /\ Coherent([blocks |-> WithBlock(r.blocks, key, size), order |-> Append(r.order, key),
                   bytes |-> r.bytes + size])
      /\ r.bytes + size <= Capacity
      /\ OldestLeave(c.order, c.blocks, WithBlock(r.blocks, key, size), Append(r.order, key),
                  r.bytes + size)
  BY <1>2, <1>3, <1>4, Insertion
<1>6. Cache' = [blocks |-> WithBlock(r.blocks, key, size), order |-> Append(r.order, key),
                bytes |-> r.bytes + size]
  BY <1>4 DEF Cache
<1> QED BY <1>3, <1>4, <1>5, <1>6 DEF BInv

LEMMA InvariantB == CacheSpec => []BInv
<1>1. CacheInit => BInv
  <2> SUFFICES ASSUME CacheInit PROVE BInv
    OBVIOUS
  <2>1. blocks = <<>> /\ lruOrder = <<>> /\ currentBytes = 0 BY DEF CacheInit
  <2>2. DOMAIN blocks = {} BY <2>1
  <2>3. BytesOf(blocks) = {} BY <2>2 DEF BytesOf
  <2>4. Len(lruOrder) = 0 /\ lruOrder \in Seq(DOMAIN blocks) BY <2>1
  <2>5. blocks \in [DOMAIN blocks -> Nat] BY <2>1, <2>2
  <2>6. ListsOnce(lruOrder) BY <2>4 DEF ListsOnce
  <2>7. Coherent(Cache)
    BY <2>1, <2>2, <2>3, <2>4, <2>5, <2>6, FS_EmptySet DEF Coherent, Cache
  <2> QED BY <2>1, <2>7, BlockCacheAssumption DEF BInv
<1>2. BInv /\ [CacheNext]_cacheVars => BInv'
  <2> SUFFICES ASSUME BInv, [CacheNext]_cacheVars PROVE BInv'
    OBVIOUS
  <2>1. ASSUME NEW key \in BlockKeys, GetBlock(key) PROVE BInv' BY <2>1, GetBlockStep
  <2>2. ASSUME NEW key \in BlockKeys, NEW size \in BlockSizes, InsertBlock(key, size)
        PROVE  BInv'
    BY <2>2, InsertBlockStep, BlockCacheAssumption
  <2>3. CASE UNCHANGED cacheVars BY <2>3 DEF BInv, Cache, cacheVars
  <2> QED BY <2>1, <2>2, <2>3 DEF CacheNext
<1> QED BY <1>1, <1>2, PTL DEF CacheSpec

\* So the count is exact.
LEMMA Listed == ASSUME BInv PROVE CountExact
<1>1. PICK c : c = Cache OBVIOUS
<1>2. c.blocks = blocks /\ c.order = lruOrder /\ c.bytes = currentBytes /\ Coherent(c)
  BY <1>1 DEF Cache, BInv
<1>3. lruOrder \in Seq(DOMAIN blocks) /\ ListsOnce(lruOrder) BY <1>2 DEF Coherent
<1>4. DOMAIN lruOrder = 1 .. Len(lruOrder) BY <1>3
<1>5. IsInjective(lruOrder) BY <1>3, <1>4 DEF IsInjective, ListsOnce
<1>6. ToSet(lruOrder) = DOMAIN blocks
  <2>1. \A i \in DOMAIN lruOrder : lruOrder[i] \in DOMAIN blocks BY <1>3, <1>4
  <2>2. \A key \in DOMAIN blocks : \E i \in DOMAIN lruOrder : lruOrder[i] = key
    BY <1>2, <1>4 DEF Coherent
  <2> QED BY <2>1, <2>2 DEF ToSet
<1> QED BY <1>2, <1>5, <1>6 DEF BInv, Coherent, CountExact

\* Whatever is hit, replaced by a block of another size or evicted, the count
\* stays the bytes in the cache and within capacity_bytes, and only the oldest
\* blocks make way, as many as it takes (BlockCache::get and insert).
THEOREM CacheExactHolds == CacheSpec => CacheExact
<1>1. BInv /\ [CacheNext]_cacheVars => [OldestGo]_cacheVars
  <2> SUFFICES ASSUME BInv, CacheNext PROVE OldestGo
    OBVIOUS
  <2>1. ASSUME NEW key \in BlockKeys, GetBlock(key) PROVE OldestGo
    <3>1. ToSet(lruOrder) = DOMAIN blocks BY Listed DEF CountExact
    <3>2. \A i \in DOMAIN lruOrder : lruOrder[i] \in DOMAIN blocks'
      BY <2>1, <3>1 DEF GetBlock, ToSet
    <3> QED BY <3>2 DEF OldestGo
  <2>2. ASSUME NEW key \in BlockKeys, NEW size \in BlockSizes, InsertBlock(key, size)
        PROVE  OldestGo
    <3>1. OldestLeave(lruOrder, blocks, blocks', lruOrder', currentBytes')
      BY <2>2, InsertBlockStep, BlockCacheAssumption
    <3> QED BY <3>1 DEF OldestGo, OldestLeave
  <2> QED BY <2>1, <2>2 DEF CacheNext
<1>2. BInv => CountExact BY Listed
<1> QED BY <1>1, <1>2, InvariantB, PTL DEF CacheSpec, CacheExact

-----------------------------------------------------------------------------
(* The memories of agents. *)

MemorySpec == MemoryInit /\ [][MemoryNext]_memoryVars

\* The sum is a number, the same for both orders of the vectors.
LEMMA DotFacts ==
  ASSUME NEW a \in Seq(Nat), NEW b \in Seq(Nat)
  PROVE  Dot(a, b) \in Nat /\ Dot(a, b) = Dot(b, a)
<1> DEFINE n == Min({Len(a), Len(b)})
           f == [x \in Nat \X (1 .. n) |-> x[1] + a[x[2]] * b[x[2]]]
           Step(g) == [i \in 0 .. n |-> IF i = 0 THEN 0 ELSE g[i - 1] + a[i] * b[i]]
           Pets(g) == [i \in 0 .. n |-> IF i = 0 THEN 0 ELSE g[i - 1] + b[i] * a[i]]
           sum == CHOOSE g : g = Step(g)
           mus == CHOOSE g : g = Pets(g)
<1>1. n \in Nat /\ n <= Len(a) /\ n <= Len(b)
  <2>1. PICK x : x = Len(a) OBVIOUS
  <2>2. PICK y : y = Len(b) OBVIOUS
  <2>3. x \in Nat /\ y \in Nat BY <2>1, <2>2
  <2>4. Min({x, y}) \in {x, y} /\ Min({x, y}) <= x /\ Min({x, y}) <= y
    <3>1. PICK S : S = {x, y} OBVIOUS
    <3>2. \E z \in S : \A w \in S : z <= w BY <2>3, <3>1
    <3>3. Min(S) \in S /\ \A w \in S : Min(S) <= w BY <3>2 DEF Min
    <3> QED BY <3>1, <3>3
  <2> QED BY <2>1, <2>2, <2>3, <2>4
<1>2. Min({Len(b), Len(a)}) = n
  <2>1. {Len(b), Len(a)} = {Len(a), Len(b)} OBVIOUS
  <2> QED BY <2>1, Zenon
<1>3. Dot(a, b) = sum[n] BY DEF Dot
<1>4. Dot(b, a) = mus[n] BY <1>2 DEF Dot
<1> HIDE DEF n
<1>5. \A i \in 1 .. n : a[i] \in Nat /\ b[i] \in Nat /\ a[i] * b[i] \in Nat /\ a[i] * b[i] = b[i] * a[i]
  <2> SUFFICES ASSUME NEW i \in 1 .. n
               PROVE  a[i] \in Nat /\ b[i] \in Nat /\ a[i] * b[i] \in Nat /\ a[i] * b[i] = b[i] * a[i]
    OBVIOUS
  <2>1. a[i] \in Nat /\ b[i] \in Nat BY <1>1
  <2>2. PICK x \in Nat : x = a[i] BY <2>1
  <2>3. PICK y \in Nat : y = b[i] BY <2>1
  <2>4. x * y \in Nat /\ x * y = y * x OBVIOUS
  <2> QED BY <2>1, <2>2, <2>3, <2>4
<1>6. \A g : Step(g) = Pets(g)
  <2> SUFFICES ASSUME NEW g PROVE Step(g) = Pets(g)
    OBVIOUS
  <2>1. \A i \in 0 .. n : i # 0 => a[i] * b[i] = b[i] * a[i] BY <1>1, <1>5
  <2> QED BY <2>1
<1>7. \A g : g = Step(g) <=> g = Pets(g)
  <2> HIDE DEF Step, Pets
  <2> QED BY <1>6
<1>8. sum = mus BY <1>7
<1>9. \A x \in Nat, i \in 1 .. n : f[<<x, i>>] = x + a[i] * b[i]
  OBVIOUS
<1>10. f \in [Nat \X (1 .. n) -> Nat]
  <2>1. ASSUME NEW x \in Nat \X (1 .. n) PROVE f[x] \in Nat
    <3>1. a[x[2]] * b[x[2]] \in Nat /\ x[1] \in Nat BY <1>5
    <3> QED BY <3>1
  <2> QED BY <2>1
<1> HIDE DEF f
<1>11. PICK g \in [0 .. n -> Nat] : Iterates(g, n, 0, f) BY <1>1, <1>10, Iterate
<1>12. g = Step(g)
  <2>1. ASSUME NEW i \in 0 .. n PROVE g[i] = Step(g)[i]
    <3>1. CASE i = 0
      <4>1. g[0] = 0 BY <1>11 DEF Iterates
      <4> QED BY <3>1, <4>1
    <3>2. CASE i # 0
      <4>1. i \in 1 .. n /\ i - 1 \in 0 .. n BY <1>1, <3>2
      <4>2. g[i] = f[<<g[i - 1], i>>] BY <1>11, <4>1 DEF Iterates
      <4>3. g[i] = g[i - 1] + a[i] * b[i] BY <1>9, <4>1, <4>2
      <4> QED BY <3>2, <4>3
    <3> QED BY <3>1, <3>2
  <2>2. g = [i \in 0 .. n |-> g[i]] /\ Step(g) = [i \in 0 .. n |-> Step(g)[i]] OBVIOUS
  <2> HIDE DEF Step
  <2> QED BY <2>1, <2>2
<1>13. sum = Step(sum)
  <2> HIDE DEF Step
  <2> QED BY <1>12, Zenon
<1> HIDE DEF sum, mus
<1> DEFINE T == {i \in 0 .. n : sum[i] \in Nat}
<1>14. 0 \in T BY <1>1, <1>13
<1>15. ASSUME NEW i \in 0 .. n - 1, i \in T PROVE i + 1 \in T
  <2>1. i + 1 \in 1 .. n /\ i + 1 \in 0 .. n /\ (i + 1) - 1 = i /\ i + 1 # 0 BY <1>1
  <2>2. sum[i + 1] = Step(sum)[i + 1] BY <1>13, Zenon
  <2>3. sum[i + 1] = sum[i] + a[i + 1] * b[i + 1] BY <2>1, <2>2
  <2>4. a[i + 1] * b[i + 1] \in Nat BY <1>5, <2>1
  <2> QED BY <1>15, <2>1, <2>3, <2>4
<1>16. 0 .. n \subseteq T
  <2> HIDE DEF T
  <2> QED BY <1>1, <1>14, <1>15, UpTo
<1> QED BY <1>1, <1>3, <1>4, <1>8, <1>16

\* The similarity is a percentage, the same for both orders of the vectors.
LEMMA CosineFacts ==
  ASSUME NEW a \in Embeddings, NEW b \in Embeddings
  PROVE  Cosine[a][b] \in 0 .. 100 /\ Cosine[a][b] = Cosine[b][a]
<1>1. a \in Seq(Nat) /\ b \in Seq(Nat) BY EmbeddingsAssumption
<1>2. PICK d \in Nat : d = Dot(a, b) /\ d = Dot(b, a) BY <1>1, DotFacts
<1>3. PICK x \in Nat : x = Dot(a, a) BY <1>1, DotFacts
<1>4. PICK y \in Nat : y = Dot(b, b) BY <1>1, DotFacts
<1> DEFINE P(n) == {p \in 0 .. 100 : p * p * n <= 10000 * d * d}
           C(n) == IF n = 0 THEN 0 ELSE Max(P(n))
<1> DEFINE V(n, e) == IF n = 0 THEN 0 ELSE Max({p \in 0 .. 100 : p * p * n <= 10000 * e * e})
<1>5. Cosine[a][b] = C(x * y)
  <2>1. Cosine[a][b] = V(Dot(a, a) * Dot(b, b), Dot(a, b)) BY DEF Cosine
  <2>2. V(x * y, d) = C(x * y) OBVIOUS
  <2> HIDE DEF V, C
  <2> QED BY <1>2, <1>3, <1>4, <2>1, <2>2
<1>6. Cosine[b][a] = C(y * x)
  <2>1. Cosine[b][a] = V(Dot(b, b) * Dot(a, a), Dot(b, a)) BY DEF Cosine
  <2>2. V(y * x, d) = C(y * x) OBVIOUS
  <2> HIDE DEF V, C
  <2> QED BY <1>2, <1>3, <1>4, <2>1, <2>2
<1>7. x * y = y * x /\ x * y \in Nat OBVIOUS
<1>8. C(x * y) \in 0 .. 100
  <2>1. PICK n \in Nat : n = x * y BY <1>7
  <2>2. 0 \in P(n)
    <3>1. d * d \in Nat OBVIOUS
    <3>2. 0 * 0 * n = 0 /\ 0 <= 10000 * d * d BY <3>1
    <3> QED BY <3>2
  <2>3. PICK S : S = P(n) OBVIOUS
  <2>4. S \subseteq 0 .. 100 /\ 0 \in S BY <2>2, <2>3
  <2>5. Max(S) \in 0 .. 100
    <3> DEFINE T == {100 - p : p \in S}
    <3>1. T \subseteq Nat /\ T # {} BY <2>4
    <3>2. PICK t \in T : \A u \in T : t <= u
      <4> HIDE DEF T
      <4> QED BY <3>1, LeastNat
    <3>3. 100 - t \in S /\ \A p \in S : 100 - t >= p BY <2>4, <3>2
    <3>4. Max(S) \in S BY <3>3 DEF Max
    <3> QED BY <2>4, <3>4
  <2> HIDE DEF P
  <2> QED BY <2>1, <2>3, <2>5
<1> HIDE DEF C
<1> QED BY <1>5, <1>6, <1>7, <1>8

Entries == [agent : Agents, embedding : Embeddings, importance : Int, decay : Int,
            created : Int, confidence : Int, tombstone : BOOLEAN]

\* No entry comes from the future.
EntriesOK ==
  /\ memories \in Seq(Entries)
  /\ memoryClock \in Nat
  /\ \A i \in DOMAIN memories : memories[i].created <= memoryClock

LEMMA EntryAt ==
  ASSUME EntriesOK, NEW i \in DOMAIN memories
  PROVE  /\ memories[i] \in Entries /\ memories[i].embedding \in Embeddings
         /\ memories[i].importance \in Int /\ memories[i].decay \in Int
         /\ memories[i].created \in Int /\ memories[i].confidence \in Int
<1>1. memories \in Seq(Entries) BY DEF EntriesOK
<1>2. memories[i] \in Entries BY <1>1
<1> QED BY <1>2 DEF Entries

LEMMA AlikeBothWays ==
  ASSUME EntriesOK, NEW i \in DOMAIN memories, NEW j \in DOMAIN memories
  PROVE  /\ Alike(memories[i], memories[j]) => Alike(memories[j], memories[i])
         /\ memories[i].importance \in Int /\ memories[i].embedding \in Embeddings
<1>1. /\ memories[i].importance \in Int /\ memories[i].embedding \in Embeddings
      /\ memories[j].embedding \in Embeddings
  BY EntryAt
<1>2. Cosine[memories[i].embedding][memories[j].embedding] =
        Cosine[memories[j].embedding][memories[i].embedding]
  BY <1>1, CosineFacts
<1> QED BY <1>1, <1>2 DEF Alike

\* A set that has those that gave way to one in it.
Closed(live, X) == \A i \in live, j \in X : GivesWay(i, j) => i \in X

\* gone are live and gave way, perhaps over others, to those that are left.
GaveWay(live, gone) ==
  /\ gone \subseteq live
  /\ \A X \in SUBSET live : live \ gone \subseteq X /\ Closed(live, X) => X = live

\* i and j need no comparison any more.
Settled(gone, i, j) == i \in gone \/ j \in gone \/ ~Alike(memories[i], memories[j])

LEMMA PairStep ==
  ASSUME EntriesOK, NEW live, live \subseteq DOMAIN memories, NEW gone, GaveWay(live, gone),
         NEW i \in live, NEW j \in live, i # j
  PROVE  /\ gone \subseteq MergePair(gone, i, j)
         /\ GaveWay(live, MergePair(gone, i, j))
         /\ Settled(MergePair(gone, i, j), i, j)
<1>1. PICK g : g = MergePair(gone, i, j) OBVIOUS
<1>2. CASE Settled(gone, i, j)
  <2>1. g = gone BY <1>1, <1>2 DEF Settled, MergePair
  <2> QED BY <1>1, <1>2, <2>1
<1>3. CASE ~Settled(gone, i, j)
  <2>1. PICK x : x = IF memories[i].importance >= memories[j].importance THEN j ELSE i
    OBVIOUS
  <2>2. PICK y : y = IF memories[i].importance >= memories[j].importance THEN i ELSE j
    OBVIOUS
  <2>3. g = gone \cup {x} /\ i \notin gone /\ j \notin gone /\ Alike(memories[i], memories[j])
    BY <1>1, <1>3, <2>1 DEF Settled, MergePair
  <2>4. x \in live /\ y \in live /\ x # y /\ y \notin gone /\ x \in {i, j} BY <2>1, <2>2, <2>3
  <2>5. GivesWay(x, y)
    <3>1. memories[i].importance \in Int /\ memories[j].importance \in Int BY AlikeBothWays
    <3>2. Alike(memories[j], memories[i]) BY <2>3, AlikeBothWays
    <3> QED BY <2>1, <2>2, <2>3, <3>1, <3>2 DEF GivesWay
  <2>6. ASSUME NEW X \in SUBSET live, live \ g \subseteq X, Closed(live, X) PROVE X = live
    <3>1. y \in X BY <2>3, <2>4, <2>6
    <3>2. x \in X BY <2>4, <2>5, <2>6, <3>1 DEF Closed
    <3>3. live \ gone \subseteq X BY <2>3, <2>6, <3>2
    <3> QED BY <2>6, <3>3 DEF GaveWay
  <2>7. g \subseteq live BY <2>3, <2>4 DEF GaveWay
  <2>8. Settled(g, i, j) BY <2>3, <2>4 DEF Settled
  <2> QED BY <1>1, <2>3, <2>6, <2>7, <2>8 DEF GaveWay
<1> QED BY <1>2, <1>3

\* What was settled stays settled.
LEMMA StaysSettled ==
  ASSUME NEW g, NEW h, g \subseteq h, NEW i, NEW j, Settled(g, i, j) PROVE Settled(h, i, j)
BY DEF Settled

\* After the inner loop i is settled with every later candidate.
LEMMA RowRun ==
  ASSUME EntriesOK, NEW live, live \subseteq DOMAIN memories, NEW gone, GaveWay(live, gone),
         NEW i \in 1 .. Len(memories)
  PROVE  /\ gone \subseteq MergeLater(live, gone, i)
         /\ GaveWay(live, MergeLater(live, gone, i))
         /\ \A j \in live : i < j /\ i \in live => Settled(MergeLater(live, gone, i), i, j)
<1> DEFINE S == {g \in SUBSET live : gone \subseteq g /\ GaveWay(live, g)}
           Body(g, j) == IF i < j /\ {i, j} \subseteq live THEN MergePair(g, i, j) ELSE g
           Step(g) == [j \in 0 .. Len(memories) |-> IF j = 0 THEN gone ELSE Body(g[j - 1], j)]
           after == CHOOSE g : g = Step(g)
<1>1. PICK n : n = Len(memories) OBVIOUS
<1>2. n \in Nat /\ DOMAIN memories = 1 .. n BY <1>1 DEF EntriesOK
<1>3. gone \in S BY DEF GaveWay
<1>4. ASSUME NEW g \in S, NEW j \in 1 .. n
      PROVE  /\ Body(g, j) \in S /\ g \subseteq Body(g, j)
             /\ i < j /\ {i, j} \subseteq live => Settled(Body(g, j), i, j)
  <2>1. CASE i < j /\ {i, j} \subseteq live
    <3>1. Body(g, j) = MergePair(g, i, j) BY <2>1
    <3>2. i \in live /\ j \in live /\ i # j BY <2>1, <1>2
    <3>3. /\ g \subseteq MergePair(g, i, j) /\ GaveWay(live, MergePair(g, i, j))
          /\ Settled(MergePair(g, i, j), i, j)
      BY <3>2, PairStep
    <3>4. MergePair(g, i, j) \in S BY <3>3 DEF GaveWay
    <3> QED BY <3>1, <3>3, <3>4
  <2>2. CASE ~(i < j /\ {i, j} \subseteq live) BY <2>2
  <2> QED BY <2>1, <2>2
<1> HIDE DEF Body
<1> DEFINE f == [x \in S \X (1 .. n) |-> Body(x[1], x[2])]
<1>5. \A g \in S, j \in 1 .. n : f[<<g, j>>] = Body(g, j) OBVIOUS
<1>6. f \in [S \X (1 .. n) -> S]
  <2>1. ASSUME NEW x \in S \X (1 .. n) PROVE f[x] \in S
    <3>1. x[1] \in S /\ x[2] \in 1 .. n BY Zenon
    <3>2. Body(x[1], x[2]) \in S
      <4> HIDE DEF S
      <4> QED BY <1>4, <3>1
    <3> QED BY <3>2
  <2> HIDE DEF S
  <2> QED BY <2>1
<1> HIDE DEF f, S
<1>7. PICK g \in [0 .. n -> S] : Iterates(g, n, gone, f) BY <1>2, <1>3, <1>6, Iterate
<1>8. g = Step(g)
  <2>1. ASSUME NEW j \in 0 .. n PROVE g[j] = Step(g)[j]
    <3>1. CASE j = 0
      <4>1. g[0] = gone BY <1>7 DEF Iterates
      <4> QED BY <1>1, <3>1, <4>1
    <3>2. CASE j # 0
      <4>1. j \in 1 .. n /\ j - 1 \in 0 .. n BY <1>2, <3>2
      <4>2. g[j] = f[<<g[j - 1], j>>] BY <1>7, <4>1 DEF Iterates
      <4>3. g[j] = Body(g[j - 1], j) BY <1>5, <4>1, <4>2
      <4> QED BY <1>1, <3>2, <4>3
    <3> QED BY <3>1, <3>2
  <2>2. g = [j \in 0 .. n |-> g[j]] /\ Step(g) = [j \in 0 .. n |-> Step(g)[j]] BY <1>1
  <2> HIDE DEF Step
  <2> QED BY <2>1, <2>2
<1>9. after = Step(after)
  <2> HIDE DEF Step
  <2> QED BY <1>8, Zenon
<1>10. MergeLater(live, gone, i) = after[n] BY <1>1 DEF MergeLater, Body
<1> HIDE DEF after
<1>11. after[0] = gone BY <1>1, <1>2, <1>9
<1>12. ASSUME NEW j \in 1 .. n PROVE after[j] = Body(after[j - 1], j)
  <2>1. j \in 0 .. n /\ j # 0 BY <1>2
  <2>2. after[j] = Step(after)[j] BY <1>9, Zenon
  <2> QED BY <1>1, <2>1, <2>2
<1> DEFINE Done(h, j) == /\ h \in S
                         /\ \A k \in 1 .. j : i < k /\ {i, k} \subseteq live => Settled(h, i, k)
           T == {j \in 0 .. n : Done(after[j], j)}
<1>13. 0 \in T BY <1>2, <1>3, <1>11
<1>14. ASSUME NEW j \in 0 .. n - 1, j \in T PROVE j + 1 \in T
  <2>1. j + 1 \in 1 .. n /\ j + 1 \in 0 .. n /\ (j + 1) - 1 = j BY <1>2
  <2>2. after[j] \in S /\ \A k \in 1 .. j : i < k /\ {i, k} \subseteq live => Settled(after[j], i, k)
    BY <1>14
  <2>3. PICK h : h = after[j] OBVIOUS
  <2>4. PICK m : m = after[j + 1] OBVIOUS
  <2>5. m = Body(h, j + 1) BY <1>12, <2>1, <2>3, <2>4
  <2>6. m \in S /\ h \subseteq m /\ (i < j + 1 /\ {i, j + 1} \subseteq live => Settled(m, i, j + 1))
    BY <1>4, <2>1, <2>2, <2>3, <2>5
  <2>7. ASSUME NEW k \in 1 .. j + 1, i < k, {i, k} \subseteq live PROVE Settled(m, i, k)
    <3>1. CASE k = j + 1 BY <2>6, <2>7, <3>1
    <3>2. CASE k # j + 1
      <4>1. k \in 1 .. j BY <3>2
      <4>2. Settled(h, i, k) BY <2>2, <2>3, <2>7, <4>1
      <4> QED BY <2>6, <4>2, StaysSettled
    <3> QED BY <3>1, <3>2
  <2> QED BY <2>1, <2>4, <2>6, <2>7
<1>15. 0 .. n \subseteq T
  <2> HIDE DEF T
  <2> QED BY <1>2, <1>13, <1>14, UpTo
<1>16. Done(after[n], n) BY <1>2, <1>15
<1>17. ASSUME NEW j \in live, i < j, i \in live PROVE Settled(after[n], i, j)
  <2>1. j \in 1 .. n /\ {i, j} \subseteq live BY <1>2, <1>17
  <2> QED BY <1>16, <1>17, <2>1
<1> QED BY <1>10, <1>16, <1>17 DEF S

\* After both loops all candidates are settled with one another.
LEMMA LoopsRun ==
  ASSUME EntriesOK, NEW live, live \subseteq DOMAIN memories
  PROVE  /\ GaveWay(live, Merged(live))
         /\ \A i, j \in live : i < j => Settled(Merged(live), i, j)
<1> DEFINE S == {g \in SUBSET live : GaveWay(live, g)}
           Step(g) == [i \in 0 .. Len(memories) |->
                         IF i = 0 THEN {} ELSE MergeLater(live, g[i - 1], i)]
           gone == CHOOSE g : g = Step(g)
<1>1. PICK n : n = Len(memories) OBVIOUS
<1>2. n \in Nat /\ DOMAIN memories = 1 .. n BY <1>1 DEF EntriesOK
<1>3. {} \in S BY DEF GaveWay
<1>4. ASSUME NEW g \in S, NEW i \in 1 .. n
      PROVE  /\ MergeLater(live, g, i) \in S /\ g \subseteq MergeLater(live, g, i)
             /\ \A j \in live : i < j /\ i \in live => Settled(MergeLater(live, g, i), i, j)
  <2>1. i \in 1 .. Len(memories) /\ GaveWay(live, g) BY <1>1
  <2>2. /\ g \subseteq MergeLater(live, g, i) /\ GaveWay(live, MergeLater(live, g, i))
        /\ \A j \in live : i < j /\ i \in live => Settled(MergeLater(live, g, i), i, j)
    BY <2>1, RowRun
  <2>3. MergeLater(live, g, i) \in S BY <2>2 DEF GaveWay
  <2> QED BY <2>2, <2>3
<1> DEFINE f == [x \in S \X (1 .. n) |-> MergeLater(live, x[1], x[2])]
<1>5. \A g \in S, i \in 1 .. n : f[<<g, i>>] = MergeLater(live, g, i) OBVIOUS
<1>6. f \in [S \X (1 .. n) -> S]
  <2>1. ASSUME NEW x \in S \X (1 .. n) PROVE f[x] \in S
    <3>1. x[1] \in S /\ x[2] \in 1 .. n BY Zenon
    <3>2. MergeLater(live, x[1], x[2]) \in S
      <4> HIDE DEF S
      <4> QED BY <1>4, <3>1
    <3> QED BY <3>2
  <2> HIDE DEF S
  <2> QED BY <2>1
<1> HIDE DEF f, S
<1>7. PICK g \in [0 .. n -> S] : Iterates(g, n, {}, f) BY <1>2, <1>3, <1>6, Iterate
<1>8. g = Step(g)
  <2>1. ASSUME NEW i \in 0 .. n PROVE g[i] = Step(g)[i]
    <3>1. CASE i = 0
      <4>1. g[0] = {} BY <1>7 DEF Iterates
      <4> QED BY <1>1, <3>1, <4>1
    <3>2. CASE i # 0
      <4>1. i \in 1 .. n /\ i - 1 \in 0 .. n BY <1>2, <3>2
      <4>2. g[i] = f[<<g[i - 1], i>>] BY <1>7, <4>1 DEF Iterates
      <4>3. g[i] = MergeLater(live, g[i - 1], i) BY <1>5, <4>1, <4>2
      <4> QED BY <1>1, <3>2, <4>3
    <3> QED BY <3>1, <3>2
  <2>2. g = [i \in 0 .. n |-> g[i]] /\ Step(g) = [i \in 0 .. n |-> Step(g)[i]] BY <1>1
  <2> HIDE DEF Step
  <2> QED BY <2>1, <2>2
<1>9. gone = Step(gone)
  <2> HIDE DEF Step
  <2> QED BY <1>8, Zenon
<1>10. Merged(live) = gone[n] BY <1>1 DEF Merged
<1> HIDE DEF gone
<1>11. gone[0] = {} BY <1>1, <1>2, <1>9
<1>12. ASSUME NEW i \in 1 .. n PROVE gone[i] = MergeLater(live, gone[i - 1], i)
  <2>1. i \in 0 .. n /\ i # 0 BY <1>2
  <2>2. gone[i] = Step(gone)[i] BY <1>9, Zenon
  <2> QED BY <1>1, <2>1, <2>2
<1> DEFINE Done(h, i) == /\ h \in S
                         /\ \A k, j \in live : k <= i /\ k < j => Settled(h, k, j)
           T == {i \in 0 .. n : Done(gone[i], i)}
<1>13. 0 \in T
  <2>1. \A k \in live : ~(k <= 0) BY <1>2
  <2>2. \A k, j \in live : k <= 0 /\ k < j => Settled({}, k, j) BY <2>1
  <2>3. Done({}, 0) BY <1>3, <2>2
  <2>4. 0 \in 0 .. n BY <1>2
  <2> HIDE DEF Done
  <2> QED BY <1>11, <2>3, <2>4
<1>14. ASSUME NEW i \in 0 .. n - 1, i \in T PROVE i + 1 \in T
  <2>1. i + 1 \in 1 .. n /\ i + 1 \in 0 .. n /\ (i + 1) - 1 = i BY <1>2
  <2>2. PICK h : h = gone[i] OBVIOUS
  <2>3. PICK m : m = gone[i + 1] OBVIOUS
  <2>4. h \in S /\ \A k, j \in live : k <= i /\ k < j => Settled(h, k, j) BY <1>14, <2>2
  <2>5. m = MergeLater(live, h, i + 1) BY <1>12, <2>1, <2>2, <2>3
  <2>6. /\ m \in S /\ h \subseteq m
        /\ \A j \in live : i + 1 < j /\ i + 1 \in live => Settled(m, i + 1, j)
    BY <1>4, <2>1, <2>4, <2>5
  <2>7. ASSUME NEW k \in live, NEW j \in live, k <= i + 1, k < j PROVE Settled(m, k, j)
    <3>1. CASE k = i + 1 BY <2>6, <2>7, <3>1
    <3>2. CASE k # i + 1
      <4>1. k <= i BY <1>2, <2>1, <2>7, <3>2
      <4>2. Settled(h, k, j) BY <2>4, <2>7, <4>1
      <4> QED BY <2>6, <4>2, StaysSettled
    <3> QED BY <3>1, <3>2
  <2> QED BY <2>1, <2>3, <2>6, <2>7
<1>15. 0 .. n \subseteq T
  <2> HIDE DEF T
  <2> QED BY <1>2, <1>13, <1>14, UpTo
<1>16. Done(gone[n], n) BY <1>2, <1>15
<1>17. \A k \in live : k <= n BY <1>2
<1> QED BY <1>10, <1>16, <1>17 DEF S

LEMMA ConsolidateStep ==
  ASSUME EntriesOK, NEW a, Consolidate(a)
  PROVE  AllDifferent(a)' /\ DropsGiveWay(a)
<1>1. PICK live : live = LiveOf(memories, a) OBVIOUS
<1>2. PICK gone : gone = Merged(live) OBVIOUS
<1>3. PICK m : m = memories OBVIOUS
<1>4. PICK m2 : m2 = memories' OBVIOUS
<1>5. live \subseteq DOMAIN m /\ live = {i \in DOMAIN m : ~m[i].tombstone /\ m[i].agent = a}
  BY <1>1, <1>3 DEF LiveOf
<1>6. /\ GaveWay(live, gone) /\ \A i, j \in live : i < j => Settled(gone, i, j)
  BY <1>2, <1>3, <1>5, LoopsRun
<1>7. gone \subseteq live BY <1>6 DEF GaveWay
<1>8. m2 = [i \in DOMAIN m |-> IF i \in gone THEN [m[i] EXCEPT !.tombstone = TRUE] ELSE m[i]]
  BY <1>1, <1>2, <1>3, <1>4 DEF Consolidate
<1>9. DOMAIN m2 = DOMAIN m /\ \A i \in DOMAIN m : i \notin gone => m2[i] = m[i] BY <1>8
<1>10. \A i \in gone : m2[i].tombstone
  <2> SUFFICES ASSUME NEW i \in gone PROVE m2[i].tombstone
    OBVIOUS
  <2>1. i \in DOMAIN m /\ m[i] \in Entries BY <1>3, <1>5, <1>7, EntryAt
  <2>2. m2[i] = [m[i] EXCEPT !.tombstone = TRUE] BY <1>8, <2>1
  <2> QED BY <2>1, <2>2 DEF Entries
<1>11. LiveOf(m2, a) = live \ gone
  <2>1. LiveOf(m2, a) = {i \in DOMAIN m : ~m2[i].tombstone /\ m2[i].agent = a}
    BY <1>9 DEF LiveOf
  <2>2. ASSUME NEW i \in DOMAIN m
        PROVE  ~m2[i].tombstone /\ m2[i].agent = a <=> i \in live \ gone
    <3>1. CASE i \in gone BY <1>10, <3>1
    <3>2. CASE i \notin gone BY <1>5, <1>9, <3>2
    <3> QED BY <3>1, <3>2
  <2> QED BY <1>5, <2>1, <2>2
<1>12. ASSUME NEW i \in live \ gone, NEW j \in live \ gone, i # j PROVE ~Alike(m2[i], m2[j])
  <2>1. m2[i] = m[i] /\ m2[j] = m[j] BY <1>5, <1>9
  <2>2. i \in DOMAIN m /\ j \in DOMAIN m /\ i \in Nat /\ j \in Nat
    BY <1>3, <1>5 DEF EntriesOK
  <2>3. CASE i < j
    <3>1. Settled(gone, i, j) BY <1>6, <2>3
    <3> QED BY <1>3, <2>1, <3>1 DEF Settled
  <2>4. CASE j < i
    <3>1. Settled(gone, j, i) BY <1>6, <2>4
    <3>2. ~Alike(m[j], m[i]) BY <1>3, <3>1 DEF Settled
    <3> QED BY <1>3, <2>1, <2>2, <3>2, AlikeBothWays
  <2> QED BY <1>12, <2>2, <2>3, <2>4
<1>13. AllDifferent(a)' BY <1>4, <1>11, <1>12 DEF AllDifferent
<1>14. ASSUME NEW X \in SUBSET live, live \ gone \subseteq X,
              \A i \in live, j \in X : GivesWay(i, j) => i \in X
       PROVE  X = live
  BY <1>6, <1>14 DEF GaveWay, Closed
<1>15. \A i \in DOMAIN m : i \notin live \/ i \in live \ gone => m2[i] = m[i] BY <1>7, <1>9
<1>16. DropsGiveWay(a) BY <1>1, <1>3, <1>4, <1>11, <1>14, <1>15 DEF DropsGiveWay
<1> QED BY <1>13, <1>16

\* What recall answers is live, so it repeats nothing when no two are alike.
LEMMA RecallStep ==
  ASSUME EntriesOK, NEW a PROVE AllDifferent(a) => RecallsDifferent(a)
<1> SUFFICES ASSUME AllDifferent(a), NEW q \in Embeddings
             PROVE  LET r == Recalled(a, q, [semantic |-> 2, recency |-> 1, importance |-> 1], 2)
                    IN \A i, j \in ToSet(r) : i # j => ~Alike(memories[i], memories[j])
  BY DEF RecallsDifferent
<1>1. PICK live : live = LiveOf(memories, a) OBVIOUS
<1>2. live \subseteq DOMAIN memories /\ live \subseteq Nat /\ IsFiniteSet(live)
  <2>1. Len(memories) \in Nat /\ DOMAIN memories = 1 .. Len(memories) BY DEF EntriesOK
  <2>2. live \subseteq 1 .. Len(memories) BY <1>1, <2>1 DEF LiveOf
  <2>3. IsFiniteSet(1 .. Len(memories)) BY <2>1, FS_Interval
  <2>4. live \subseteq Nat BY <2>1, <2>2
  <2>5. IsFiniteSet(live) BY <2>2, <2>3, FS_Subset
  <2> QED BY <2>1, <2>2, <2>4, <2>5
<1> DEFINE Score(i) == 2 * Cosine[q][memories[i].embedding]
                         + 1 * (100 \div (1 + memoryClock - memories[i].created))
                         + 1 * memories[i].importance
           Better(i) == {j \in live : Score(j) > Score(i) \/ (Score(j) = Score(i) /\ j < i)}
<1>3. ASSUME NEW i \in live PROVE Score(i) \in Int
  <2>1. i \in DOMAIN memories BY <1>2
  <2>2. /\ memories[i].embedding \in Embeddings /\ memories[i].importance \in Int
        /\ memories[i].created \in Int
    BY <2>1, EntryAt
  <2>3. memories[i].created <= memoryClock /\ memoryClock \in Nat BY <2>1 DEF EntriesOK
  <2>4. Cosine[q][memories[i].embedding] \in 0 .. 100 BY <2>2, CosineFacts
  <2>5. PICK d : d = 1 + memoryClock - memories[i].created OBVIOUS
  <2>6. d \in Nat \ {0} BY <2>2, <2>3, <2>5
  <2>7. 100 \div d \in Int BY <2>6
  <2> QED BY <2>2, <2>4, <2>5, <2>7
<1> HIDE DEF Score
<1>4. PICK before : before = [i \in live |-> Better(i)] OBVIOUS
<1>5. \A i \in live : before[i] = Better(i) BY <1>4
<1>6. Orders(before, live)
  <2>1. before \in [live -> SUBSET live] BY <1>4
  <2>2. \A i \in live : i \notin before[i] BY <1>2, <1>3, <1>5
  <2>3. \A i, j \in live : i # j => i \in before[j] \/ j \in before[i]
    <3> SUFFICES ASSUME NEW i \in live, NEW j \in live, i # j
                 PROVE  i \in before[j] \/ j \in before[i]
      OBVIOUS
    <3>1. Score(i) \in Int /\ Score(j) \in Int /\ i \in Nat /\ j \in Nat BY <1>2, <1>3
    <3>2. \/ Score(i) > Score(j) \/ Score(j) > Score(i)
          \/ (Score(i) = Score(j) /\ i < j) \/ (Score(i) = Score(j) /\ j < i)
      BY <3>1
    <3> QED BY <1>5, <3>2
  <2>4. \A i, j \in live : i \in before[j] => before[i] \subseteq before[j]
    <3> SUFFICES ASSUME NEW i \in live, NEW j \in live, i \in before[j],
                        NEW k \in before[i]
                 PROVE  k \in before[j]
      OBVIOUS
    <3>1. k \in live BY <1>5
    <3>2. /\ Score(i) \in Int /\ Score(j) \in Int /\ Score(k) \in Int
          /\ i \in Nat /\ j \in Nat /\ k \in Nat
      BY <1>2, <1>3, <3>1
    <3>3. Score(i) > Score(j) \/ (Score(i) = Score(j) /\ i < j) BY <1>5
    <3>4. Score(k) > Score(i) \/ (Score(k) = Score(i) /\ k < i) BY <1>5
    <3>5. Score(k) > Score(j) \/ (Score(k) = Score(j) /\ k < j) BY <3>2, <3>3, <3>4
    <3> QED BY <1>5, <3>1, <3>5
  <2> QED BY <2>1, <2>2, <2>3, <2>4 DEF Orders
<1>7. PICK r : r = Recalled(a, q, [semantic |-> 2, recency |-> 1, importance |-> 1], 2) OBVIOUS
<1>8. r = [k \in 1 .. Min({2, Cardinality(live)}) |->
             CHOOSE i \in live : Cardinality(Better(i)) = k - 1]
  BY <1>1, <1>7 DEF Recalled, Score
<1>9. PICK n : n = Cardinality(live) OBVIOUS
<1>10. n \in Nat BY <1>2, <1>9, FS_CardinalityType
<1>11. Min({2, n}) \in Nat /\ Min({2, n}) <= n
  <2>1. PICK S : S = {2, n} OBVIOUS
  <2>2. \E z \in S : \A w \in S : z <= w BY <1>10, <2>1
  <2>3. Min(S) \in S /\ \A w \in S : Min(S) <= w BY <2>2 DEF Min
  <2> QED BY <1>10, <2>1, <2>3
<1>12. ASSUME NEW k \in 1 .. Min({2, n}) PROVE r[k] \in live
  <2>1. k - 1 \in 0 .. n - 1 BY <1>10, <1>11
  <2>2. \E i \in live : Cardinality(before[i]) = k - 1 BY <1>2, <1>6, <1>9, <2>1, Ranks
  <2>3. \E i \in live : Cardinality(Better(i)) = k - 1 BY <1>5, <2>2
  <2>4. r[k] = CHOOSE i \in live : Cardinality(Better(i)) = k - 1 BY <1>8, <1>9
  <2> HIDE DEF Better
  <2> QED BY <2>3, <2>4
<1>13. ToSet(r) \subseteq live
  <2>1. DOMAIN r = 1 .. Min({2, n}) BY <1>8, <1>9
  <2> QED BY <1>12, <2>1 DEF ToSet
<1> QED BY <1>1, <1>7, <1>13 DEF AllDifferent

LEMMA InvariantE == MemorySpec => []EntriesOK
<1>1. MemoryInit => EntriesOK BY DEF MemoryInit, EntriesOK
<1>2. EntriesOK /\ [MemoryNext]_memoryVars => EntriesOK'
  <2> SUFFICES ASSUME EntriesOK, [MemoryNext]_memoryVars PROVE EntriesOK'
    OBVIOUS
  <2>1. /\ memories \in Seq(Entries) /\ memoryClock \in Nat
        /\ \A i \in DOMAIN memories : memories[i].created <= memoryClock
        /\ DOMAIN memories = 1 .. Len(memories) /\ Len(memories) \in Nat
    BY DEF EntriesOK
  <2>2. ASSUME NEW m \in NewMemories, RememberIt(m) PROVE EntriesOK'
    <3>1. PICK e : e = [agent |-> m.agent, embedding |-> m.embedding,
                        importance |-> m.importance, decay |-> m.decay,
                        created |-> memoryClock, confidence |-> Min({m.importance, 100}),
                        tombstone |-> FALSE]
      OBVIOUS
    <3>2. memories' = Append(memories, e) /\ memoryClock' = memoryClock + 1
      BY <2>2, <3>1 DEF RememberIt
    <3>3. m.embedding \in Embeddings /\ m.importance \in Int /\ m.decay \in Int
      BY AgentMemoryAssumption
    <3>4. Min({m.importance, 100}) \in Int
      <4>1. PICK S : S = {m.importance, 100} OBVIOUS
      <4>2. \E z \in S : \A w \in S : z <= w BY <3>3, <4>1
      <4>3. Min(S) \in S BY <4>2 DEF Min
      <4> QED BY <3>3, <4>1, <4>3
    <3>5. m.agent \in Agents BY DEF Agents
    <3>6. e \in Entries BY <2>1, <3>1, <3>3, <3>4, <3>5 DEF Entries
    <3>7. PICK s : s = Append(memories, e) OBVIOUS
    <3>8. s \in Seq(Entries) BY <2>1, <3>6, <3>7
    <3>9. ASSUME NEW i \in DOMAIN s PROVE s[i].created <= memoryClock + 1
      <4>1. CASE i \in DOMAIN memories
        <5>1. s[i] = memories[i] /\ memories[i].created <= memoryClock BY <2>1, <3>7, <4>1
        <5>2. memories[i].created \in Int BY <4>1, EntryAt
        <5> QED BY <2>1, <5>1, <5>2
      <4>2. CASE i = Len(memories) + 1
        <5>1. s[i] = e BY <2>1, <3>7, <4>2
        <5> QED BY <2>1, <3>1, <5>1
      <4>3. i \in DOMAIN memories \/ i = Len(memories) + 1 BY <2>1, <3>7
      <4> QED BY <4>1, <4>2, <4>3
    <3> QED BY <2>1, <3>2, <3>7, <3>8, <3>9 DEF EntriesOK
\* Otherwise the entries keep their number and when they were created.
  <2>3. ASSUME NEW t, memories' = t, DOMAIN t = DOMAIN memories, memoryClock' = memoryClock,
               t = [i \in DOMAIN memories |-> t[i]],
               \A i \in DOMAIN memories : t[i] \in Entries /\ t[i].created = memories[i].created
        PROVE  EntriesOK'
    <3>1. t \in Seq(Entries) BY <2>1, <2>3
    <3> QED BY <2>1, <2>3, <3>1 DEF EntriesOK
  <2>4. ASSUME NEW x \in DOMAIN memories, ForgetIt(x) PROVE EntriesOK'
    <3>1. PICK t : t = [memories EXCEPT ![x].tombstone = TRUE] OBVIOUS
    <3>2. memories' = t /\ memoryClock' = memoryClock BY <2>4, <3>1 DEF ForgetIt
    <3>3. ASSUME NEW i \in DOMAIN memories
          PROVE  t[i] \in Entries /\ t[i].created = memories[i].created
      <4>1. memories[i] \in Entries BY EntryAt
      <4>2. t[i] = IF i = x THEN [memories[x] EXCEPT !.tombstone = TRUE] ELSE memories[i]
        BY <2>1, <3>1
      <4> QED BY <4>1, <4>2 DEF Entries
    <3> QED BY <2>3, <3>1, <3>2, <3>3
  <2>5. ASSUME NEW a \in Agents, Consolidate(a) PROVE EntriesOK'
    <3>1. PICK gone : gone = Merged(LiveOf(memories, a)) OBVIOUS
    <3>2. PICK t : t = [i \in DOMAIN memories |->
                          IF i \in gone THEN [memories[i] EXCEPT !.tombstone = TRUE]
                          ELSE memories[i]]
      OBVIOUS
    <3>3. memories' = t /\ memoryClock' = memoryClock BY <2>5, <3>1, <3>2 DEF Consolidate
    <3>4. ASSUME NEW i \in DOMAIN memories
          PROVE  t[i] \in Entries /\ t[i].created = memories[i].created
      <4>1. memories[i] \in Entries BY EntryAt
      <4>2. t[i] = IF i \in gone THEN [memories[i] EXCEPT !.tombstone = TRUE] ELSE memories[i]
        BY <3>2
      <4> QED BY <4>1, <4>2 DEF Entries
    <3> QED BY <2>3, <3>2, <3>3, <3>4
  <2>6. ASSUME DecayAll PROVE EntriesOK'
    <3>1. PICK t : t = [i \in DOMAIN memories |->
                          IF memories[i].tombstone THEN memories[i]
                          ELSE [memories[i] EXCEPT !.confidence = Max({0, @ - memories[i].decay})]]
      OBVIOUS
    <3>2. memories' = t /\ memoryClock' = memoryClock BY <2>6, <3>1 DEF DecayAll
    <3>3. ASSUME NEW i \in DOMAIN memories
          PROVE  t[i] \in Entries /\ t[i].created = memories[i].created
      <4>1. memories[i] \in Entries BY EntryAt
      <4>2. PICK c : c = memories[i].confidence - memories[i].decay OBVIOUS
      <4>3. c \in Int BY <4>2, EntryAt
      <4>4. Max({0, c}) \in Int
        <5>1. PICK S : S = {0, c} OBVIOUS
        <5>2. \E z \in S : \A w \in S : z >= w BY <4>3, <5>1
        <5>3. Max(S) \in S BY <5>2 DEF Max
        <5> QED BY <4>3, <5>1, <5>3
      <4>5. t[i] = IF memories[i].tombstone THEN memories[i]
                   ELSE [memories[i] EXCEPT !.confidence = Max({0, c})]
        BY <3>1, <4>2
      <4> QED BY <4>1, <4>4, <4>5 DEF Entries
    <3> QED BY <2>3, <3>1, <3>2, <3>3
  <2>7. CASE UNCHANGED memoryVars BY <2>7 DEF EntriesOK, memoryVars
  <2> QED BY <2>2, <2>4, <2>5, <2>6, <2>7 DEF MemoryNext
<1> QED BY <1>1, <1>2, PTL DEF MemorySpec

\* After consolidate no two live memories of the agent are alike and recall
\* repeats nothing; what was dropped gave way, perhaps over others, to one that
\* stays and is at least as important; nothing else was dropped
\* (AgentMemory::consolidate, recall).
THEOREM ConsolidatedHolds == MemorySpec => Consolidated
<1> DEFINE Exact == \A a \in Agents : Consolidate(a) => AllDifferent(a)' /\ DropsGiveWay(a)
           Recall == \A a \in Agents : AllDifferent(a) => RecallsDifferent(a)
           Goal == \A a \in Agents : Consolidate(a) =>
                     AllDifferent(a)' /\ RecallsDifferent(a)' /\ DropsGiveWay(a)
<1>1. EntriesOK => Exact BY ConsolidateStep
<1>2. EntriesOK => Recall BY RecallStep
<1>3. Exact /\ Recall' => Goal OBVIOUS
<1> HIDE DEF Exact, Recall
<1> QED BY <1>1, <1>2, <1>3, InvariantE, PTL DEF MemorySpec, Consolidated

-----------------------------------------------------------------------------
(* Context windows. *)

\* j comes before i: by one score, then by another, then by position.
Precedes(s, t, j, i) == s[j] > s[i] \/ (s[j] = s[i] /\ (t[j] > t[i] \/ (t[j] = t[i] /\ j < i)))

LEMMA ByScores ==
  ASSUME NEW S, S \subseteq Nat, NEW s \in [S -> Int], NEW t \in [S -> Int]
  PROVE  Orders([i \in S |-> {j \in S : Precedes(s, t, j, i)}], S)
<1>1. PICK before : before = [i \in S |-> {j \in S : Precedes(s, t, j, i)}] OBVIOUS
<1>2. before \in [S -> SUBSET S] /\ \A i \in S : before[i] = {j \in S : Precedes(s, t, j, i)}
  BY <1>1
<1>3. \A i \in S : s[i] \in Int /\ t[i] \in Int /\ i \in Nat OBVIOUS
<1>4. \A i \in S : i \notin before[i] BY <1>2, <1>3 DEF Precedes
<1>5. ASSUME NEW i \in S, NEW j \in S, i # j PROVE i \in before[j] \/ j \in before[i]
  <2>1. Precedes(s, t, i, j) \/ Precedes(s, t, j, i) BY <1>3, <1>5 DEF Precedes
  <2> QED BY <1>2, <2>1
<1>6. ASSUME NEW i \in S, NEW j \in S, i \in before[j], NEW k \in before[i] PROVE k \in before[j]
  <2>1. k \in S /\ Precedes(s, t, k, i) /\ Precedes(s, t, i, j) BY <1>2, <1>6
  <2>2. Precedes(s, t, k, j) BY <1>3, <2>1 DEF Precedes
  <2> QED BY <1>2, <2>1, <2>2
<1>7. \A i, j \in S : i \in before[j] => before[i] \subseteq before[j] BY <1>6
<1> QED BY <1>1, <1>2, <1>4, <1>5, <1>7 DEF Orders

\* A finite set has one that precedes the others.
LEMMA FirstOf ==
  ASSUME NEW S, S \subseteq Nat, IsFiniteSet(S), S # {}, NEW s \in [S -> Int], NEW t \in [S -> Int]
  PROVE  \E i \in S : \A j \in S \ {i} : Precedes(s, t, i, j)
<1>1. PICK before : before = [i \in S |-> {j \in S : Precedes(s, t, j, i)}] OBVIOUS
<1>2. Orders(before, S) BY <1>1, ByScores
<1>3. Cardinality(S) \in Nat /\ Cardinality(S) # 0 BY FS_CardinalityType, FS_EmptySet
<1>4. 0 \in 0 .. Cardinality(S) - 1 BY <1>3
<1>5. PICK i \in S : Cardinality(before[i]) = 0
  <2>1. \A k \in 0 .. Cardinality(S) - 1 : \E x \in S : Cardinality(before[x]) = k BY <1>2, Ranks
  <2> QED BY <1>4, <2>1
<1>6. IsFiniteSet(before[i]) BY <1>2, FS_Subset DEF Orders
<1>7. before[i] = {} BY <1>5, <1>6, FS_EmptySet
<1>8. ASSUME NEW j \in S \ {i} PROVE Precedes(s, t, i, j)
  <2>1. i \in before[j] BY <1>2, <1>7 DEF Orders
  <2> QED BY <1>1, <2>1
<1> QED BY <1>8

\* The greatest element of a bounded set of numbers.
LEMMA BoundedMax ==
  ASSUME NEW n \in Nat, NEW S, S \subseteq 0 .. n, S # {}
  PROVE  Max(S) \in S /\ \A x \in S : x <= Max(S)
<1> DEFINE T == {n - x : x \in S}
<1>1. T \subseteq Nat /\ T # {} OBVIOUS
<1>2. PICK t \in T : \A u \in T : t <= u
  <2> HIDE DEF T
  <2> QED BY <1>1, LeastNat
<1>3. n - t \in S /\ \A x \in S : n - t >= x
  <2>1. PICK x \in S : t = n - x OBVIOUS
  <2>2. n - t = x BY <2>1
  <2>3. \A y \in S : t <= n - y BY <1>2
  <2> QED BY <2>1, <2>2, <2>3
<1>4. \E x \in S : \A y \in S : x >= y BY <1>3
<1>5. Max(S) \in S /\ \A y \in S : Max(S) >= y BY <1>4 DEF Max
<1> QED BY <1>5

ContextSpec == ContextInit /\ [][ContextNext]_contextVars

SourceType == [origin : STRING \cup {"contradicts"}, to : Nat, confidence : Int]
RecordType == [sources : Seq(SourceType), vector : Embeddings \cup {<<>>}, confidence : Int,
               relevance : Int, validFrom : Int]
ResultType == [existing : Nat, similarity : Int, polarity : {"Conflicting", "Corroborating"}]

RecordsOK == records \in Seq(RecordType) /\ checked \in Seq(ResultType)

LEMMA RecordAt ==
  ASSUME RecordsOK, NEW i \in DOMAIN records
  PROVE  /\ records[i] \in RecordType /\ records[i].vector \in Embeddings \cup {<<>>}
         /\ records[i].sources \in Seq(SourceType)
         /\ records[i].confidence \in Int /\ records[i].relevance \in Int
         /\ records[i].validFrom \in Int
<1>1. records \in Seq(RecordType) BY DEF RecordsOK
<1>2. records[i] \in RecordType BY <1>1
<1> QED BY <1>2 DEF RecordType

LEMMA VectorSimilarityBounds ==
  ASSUME NEW a \in RecordType, NEW b \in RecordType PROVE VectorSimilarity(a, b) \in 0 .. 100
<1>1. a.vector \in Embeddings \cup {<<>>} /\ b.vector \in Embeddings \cup {<<>>} BY DEF RecordType
<1>2. CASE <<>> \in {a.vector, b.vector}
  <2>1. VectorSimilarity(a, b) = 0 BY <1>2 DEF VectorSimilarity
  <2> QED BY <2>1
<1>3. CASE <<>> \notin {a.vector, b.vector}
  <2>1. a.vector \in Embeddings /\ b.vector \in Embeddings BY <1>1, <1>3
  <2>2. Cosine[a.vector][b.vector] \in 0 .. 100 BY <2>1, CosineFacts
  <2> QED BY <1>3, <2>2 DEF VectorSimilarity
<1> QED BY <1>2, <1>3

LEMMA TagCount ==
  ASSUME NEW a \in RecordType
  PROVE  /\ IsFiniteSet(TagsOf(a)) /\ Cardinality(TagsOf(a)) \in Nat
<1>1. a.sources \in Seq(SourceType) BY DEF RecordType
<1>2. Len(a.sources) \in Nat /\ DOMAIN a.sources = 1 .. Len(a.sources) BY <1>1
<1>3. IsFiniteSet(DOMAIN a.sources) BY <1>2, FS_Interval
<1>4. TagsOf(a) \subseteq DOMAIN a.sources BY DEF TagsOf
<1> QED BY <1>3, <1>4, FS_Subset, FS_CardinalityType

LEMMA SimilarityType ==
  ASSUME NEW a \in RecordType, NEW b \in RecordType PROVE Similarity(a, b) \in Nat
<1> DEFINE shared == {k \in TagsOf(a) : a.sources[k].origin \in OriginsOf(b)}
<1>1. IsFiniteSet(shared) /\ Cardinality(shared) \in Nat
  BY TagCount, FS_Subset, FS_CardinalityType
<1>2. PICK x \in Nat : x = Cardinality(TagsOf(a)) BY TagCount
<1>3. PICK y \in Nat : y = Cardinality(TagsOf(b)) BY TagCount
<1>4. PICK n \in Nat : n = Cardinality(shared) BY <1>1
<1>5. PICK m : m = Max({x, y, 1}) OBVIOUS
<1>6. m \in Nat /\ m >= 1
  <2>1. PICK S : S = {x, y, 1} OBVIOUS
  <2>2. S \subseteq 0 .. x + y + 1 /\ S # {} /\ x + y + 1 \in Nat BY <2>1
  <2>3. Max(S) \in S /\ \A z \in S : z <= Max(S) BY <2>2, BoundedMax
  <2> QED BY <1>5, <2>1, <2>2, <2>3
<1>7. TagSimilarity(a, b) = (100 * n) \div m BY <1>2, <1>3, <1>4, <1>5 DEF TagSimilarity
<1>8. (100 * n) \div m \in Nat
  <2>1. 100 * n \in Nat OBVIOUS
  <2>2. PICK z \in Nat : z = 100 * n BY <2>1
  <2>3. z \div m \in Nat BY <1>6
  <2> QED BY <2>2, <2>3
<1>9. PICK u \in Nat : u = TagSimilarity(a, b) BY <1>7, <1>8
<1>10. PICK v \in Nat : v = VectorSimilarity(a, b) BY VectorSimilarityBounds
<1>11. Max({u, v}) \in Nat
  <2>1. PICK S : S = {u, v} OBVIOUS
  <2>2. S \subseteq 0 .. u + v /\ S # {} /\ u + v \in Nat BY <2>1
  <2>3. Max(S) \in S BY <2>2, BoundedMax
  <2> QED BY <2>1, <2>3
<1> QED BY <1>9, <1>10, <1>11 DEF Similarity

LEMMA CheckInsertType ==
  ASSUME RecordsOK, NEW new \in RecordType PROVE CheckInsert(new) \in Seq(ResultType)
<1> DEFINE Of(i) == Similarity(new, records[i])
           similar == {i \in DOMAIN records : Of(i) > 30}
           Above(i) == {j \in similar : Of(j) > Of(i) \/ (Of(j) = Of(i) /\ j < i)}
           order == [k \in 1 .. Cardinality(similar) |-> CHOOSE i \in similar : Cardinality(Above(i)) = k - 1]
           Result(i) == [existing |-> i, similarity |-> Of(i), polarity |-> Polarity(new, records[i], Of(i))]
<1>1. CheckInsert(new) = [k \in DOMAIN order |-> Result(order[k])] BY DEF CheckInsert
<1>2. Len(records) \in Nat /\ DOMAIN records = 1 .. Len(records) BY DEF RecordsOK
<1>3. \A i \in DOMAIN records : Of(i) \in Nat BY RecordAt, SimilarityType
<1> HIDE DEF Of
<1>4. similar \subseteq Nat /\ IsFiniteSet(similar)
  <2>1. similar \subseteq 1 .. Len(records) BY <1>2
  <2>2. IsFiniteSet(1 .. Len(records)) BY <1>2, FS_Interval
  <2>3. IsFiniteSet(similar) BY <2>1, <2>2, FS_Subset
  <2> QED BY <1>2, <2>1, <2>3
<1>5. PICK s : s = [i \in similar |-> Of(i)] OBVIOUS
<1>6. PICK t : t = [i \in similar |-> 0] OBVIOUS
<1>7. s \in [similar -> Int] /\ t \in [similar -> Int] BY <1>3, <1>5, <1>6
<1>8. PICK before : before = [i \in similar |-> {j \in similar : Precedes(s, t, j, i)}] OBVIOUS
<1>9. Orders(before, similar)
  <2> HIDE DEF similar
  <2> QED BY <1>4, <1>7, <1>8, ByScores
<1>10. ASSUME NEW i \in similar PROVE before[i] = Above(i)
  <2>1. \A j \in similar : Precedes(s, t, j, i) <=> Of(j) > Of(i) \/ (Of(j) = Of(i) /\ j < i)
    BY <1>5, <1>6, <1>10 DEF Precedes
  <2>2. before[i] = {j \in similar : Precedes(s, t, j, i)} BY <1>8
  <2> HIDE DEF similar
  <2> QED BY <2>1, <2>2
<1>11. PICK n : n = Cardinality(similar) OBVIOUS
<1>12. n \in Nat BY <1>4, <1>11, FS_CardinalityType
<1>13. ASSUME NEW k \in 1 .. n PROVE order[k] \in similar
  <2> HIDE DEF similar, Above
  <2>1. \A m \in 0 .. n - 1 : \E i \in similar : Cardinality(before[i]) = m
    <3>1. PICK S : S = similar OBVIOUS
    <3>2. IsFiniteSet(S) /\ Orders(before, S) /\ n = Cardinality(S) BY <1>4, <1>9, <1>11, <3>1
    <3>3. \A m \in 0 .. Cardinality(S) - 1 : \E i \in S : Cardinality(before[i]) = m BY <3>2, Ranks
    <3> QED BY <3>1, <3>2, <3>3
  <2>2. k - 1 \in 0 .. n - 1 BY <1>12
  <2>3. \E i \in similar : Cardinality(before[i]) = k - 1 BY <2>1, <2>2
  <2>4. \E i \in similar : Cardinality(Above(i)) = k - 1 BY <1>10, <2>3
  <2>5. order[k] = CHOOSE i \in similar : Cardinality(Above(i)) = k - 1 BY <1>11
  <2> HIDE DEF order
  <2> QED BY <2>4, <2>5
<1>14. DOMAIN order = 1 .. n BY <1>11
<1> HIDE DEF order
<1>15. ASSUME NEW k \in 1 .. n PROVE Result(order[k]) \in ResultType
  <2>1. order[k] \in Nat /\ order[k] \in DOMAIN records BY <1>2, <1>13
  <2>2. Of(order[k]) \in Int BY <1>3, <2>1
  <2>3. Polarity(new, records[order[k]], Of(order[k])) \in {"Conflicting", "Corroborating"}
    BY Zenon DEF Polarity
  <2> QED BY <2>1, <2>2, <2>3 DEF ResultType
<1>16. CheckInsert(new) = [k \in 1 .. n |-> Result(order[k])] BY <1>1, <1>14
<1> HIDE DEF Result
<1> QED BY <1>12, <1>15, <1>16

\* The confidences after a contradiction and after a corroboration are numbers.
LEMMA ConfidenceType ==
  ASSUME NEW c \in Int, NEW strength \in Int
  PROVE  UpdateOnContradiction(c, strength) \in Int /\ UpdateOnCorroboration(c) \in Int
<1>1. PICK d \in Int : d = c - (20 * strength) \div 100 OBVIOUS
<1>2. Max({0, d}) \in Int
  <2>1. CASE d >= 0
    <3>1. d \in {0, d} /\ \A y \in {0, d} : d >= y BY <2>1
    <3>2. Max({0, d}) \in {0, d} BY <3>1 DEF Max
    <3> QED BY <3>2
  <2>2. CASE d < 0
    <3>1. 0 \in {0, d} /\ \A y \in {0, d} : 0 >= y BY <2>2
    <3>2. Max({0, d}) \in {0, d} BY <3>1 DEF Max
    <3> QED BY <3>2
  <2> QED BY <2>1, <2>2
<1>3. PICK e \in Int : e = c + 10 OBVIOUS
<1>4. Min({100, e}) \in Int
  <2>1. PICK S : S = {100, e} OBVIOUS
  <2>2. \E x \in S : \A y \in S : x <= y BY <2>1
  <2>3. Min(S) \in S BY <2>2 DEF Min
  <2> QED BY <2>1, <2>3
<1>5. UpdateOnContradiction(c, strength) = Max({0, d}) BY <1>1 DEF UpdateOnContradiction
<1>6. UpdateOnCorroboration(c) = Min({100, e}) BY <1>3 DEF UpdateOnCorroboration
<1> QED BY <1>2, <1>4, <1>5, <1>6

\* A record with another confidence, or with a source more.
LEMMA ConfidenceChanged ==
  ASSUME NEW f \in Seq(RecordType), NEW i, NEW c \in Int
  PROVE  [f EXCEPT ![i].confidence = c] \in Seq(RecordType)
<1>1. CASE i \notin DOMAIN f
  <2>1. [f EXCEPT ![i].confidence = c] = f BY <1>1
  <2> QED BY <2>1
<1>2. CASE i \in DOMAIN f
  <2>1. f[i] \in RecordType BY <1>2
  <2>2. PICK x : x = [f[i] EXCEPT !.confidence = c] OBVIOUS
  <2>3. x \in RecordType BY <2>1, <2>2 DEF RecordType
  <2>4. [f EXCEPT ![i].confidence = c] = [f EXCEPT ![i] = x] BY <2>2
  <2> QED BY <1>2, <2>3, <2>4
<1> QED BY <1>1, <1>2

LEMMA LinkedType ==
  ASSUME NEW r \in RecordType, NEW to \in Nat, NEW strength \in Int
  PROVE  Linked(r, to, strength) \in RecordType
<1>1. PICK s, v, c, rel, f : /\ s \in Seq(SourceType) /\ v \in Embeddings \cup {<<>>} /\ c \in Int
                             /\ rel \in Int /\ f \in Int
                             /\ r = [sources |-> s, vector |-> v, confidence |-> c, relevance |-> rel, validFrom |-> f]
  BY DEF RecordType
<1>2. PICK q : q = Append(s, [origin |-> "contradicts", to |-> to, confidence |-> strength]) OBVIOUS
<1>3. q \in Seq(SourceType)
  <2>1. PICK w \in STRING \cup {"contradicts"} : w = "contradicts" OBVIOUS
  <2>2. [origin |-> w, to |-> to, confidence |-> strength] \in SourceType BY DEF SourceType
  <2> QED BY <1>1, <1>2, <2>1, <2>2
<1>4. PICK d \in Int : d = UpdateOnContradiction(c, strength) BY <1>1, ConfidenceType
<1>5. Linked(r, to, strength) = [sources |-> q, vector |-> v, confidence |-> d, relevance |-> rel, validFrom |-> f]
  <2>1. r.confidence = c /\ r.sources = s BY <1>1
  <2>2. Linked(r, to, strength) = [r EXCEPT !.confidence = d, !.sources = q]
    BY <1>2, <1>4, <2>1, Zenon DEF Linked
  <2> QED BY <1>1, <2>2
<1> QED BY <1>1, <1>3, <1>4, <1>5 DEF RecordType

LEMMA RecordsStep == RecordsOK /\ [ContextNext]_contextVars => RecordsOK'
<1> SUFFICES ASSUME RecordsOK, [ContextNext]_contextVars PROVE RecordsOK' OBVIOUS
<1>1. ASSUME NEW r \in NewRecords, InsertRecord(r) PROVE RecordsOK'
  <2> DEFINE Source(k) == [origin |-> r.tags[k], to |-> 0, confidence |-> 100]
             sources == [k \in DOMAIN r.tags |-> Source(k)]
  <2>1. /\ r.tags \in Seq(STRING) /\ r.vector \in Embeddings \cup {<<>>}
        /\ r.confidence \in Int /\ r.relevance \in Int
    BY ContextAssumption
  <2>2. \A k \in DOMAIN r.tags : Source(k) \in SourceType BY <2>1 DEF SourceType
  <2>3. Len(r.tags) \in Nat /\ DOMAIN r.tags = 1 .. Len(r.tags) BY <2>1
  <2>4. PICK s : s = sources OBVIOUS
  <2>5. s \in Seq(SourceType)
    <3> HIDE DEF Source
    <3> QED BY <2>2, <2>3, <2>4
  <2>6. PICK new : new = [sources |-> s, vector |-> r.vector, confidence |-> r.confidence,
                          relevance |-> r.relevance, validFrom |-> Len(records)]
    OBVIOUS
  <2>7. Len(records) \in Nat BY DEF RecordsOK
  <2>8. new \in RecordType BY <2>1, <2>5, <2>6, <2>7 DEF RecordType
  <2>9. checked' = CheckInsert(new) /\ records' = Append(records, new)
    BY <1>1, <2>4, <2>6 DEF InsertRecord
  <2>10. CheckInsert(new) \in Seq(ResultType) BY <2>8, CheckInsertType
  <2> QED BY <2>8, <2>9, <2>10 DEF RecordsOK
<1>2. ASSUME SettleCandidate PROVE RecordsOK'
  <2>1. PICK c : c = Head(checked) OBVIOUS
  <2>2. PICK f : f = records OBVIOUS
  <2>3. PICK n : n = Len(records) OBVIOUS
  <2>4. f \in Seq(RecordType) /\ n \in Nat BY <2>2, <2>3 DEF RecordsOK
  <2>5. c \in ResultType /\ Tail(checked) \in Seq(ResultType) BY <1>2, <2>1 DEF SettleCandidate, RecordsOK
  <2>6. c.existing \in Nat /\ c.similarity \in Int BY <2>5 DEF ResultType
  <2>7. \A i \in DOMAIN f : f[i].confidence \in Int BY <2>2, RecordAt
  <2>8. CASE c.polarity = "Conflicting"
    <3>1. PICK i \in Nat : i = c.existing BY <2>6
    <3>2. PICK s \in Int : s = c.similarity BY <2>6
    <3>3. records' = [k \in DOMAIN f |-> CASE k = n -> Linked(f[k], i, s)
                                           [] k = i -> Linked(f[k], n, s)
                                           [] OTHER -> f[k]]
      BY <1>2, <2>1, <2>2, <2>3, <2>8, <3>1, <3>2 DEF SettleCandidate, AutoLink
    <3>4. DOMAIN f = 1 .. n BY <2>2, <2>3, <2>4
    <3>5. \A k \in 1 .. n : f[k] \in RecordType BY <2>4, <3>4
    <3>6. \A k \in 1 .. n : Linked(f[k], i, s) \in RecordType /\ Linked(f[k], n, s) \in RecordType
      BY <2>4, <3>5, LinkedType
    <3>7. records' \in [1 .. n -> RecordType] BY <3>3, <3>4, <3>5, <3>6
    <3>8. checked' = Tail(checked) BY <1>2 DEF SettleCandidate
    <3> QED BY <2>4, <2>5, <3>7, <3>8 DEF RecordsOK
  <2>9. CASE c.polarity # "Conflicting"
    <3>1. PICK i : i = c.existing OBVIOUS
    <3>2. records' = [f EXCEPT ![i].confidence = UpdateOnCorroboration(@)]
      BY <1>2, <2>1, <2>2, <2>9, <3>1 DEF SettleCandidate
    <3>3. records' \in Seq(RecordType)
      <4>1. CASE i \in DOMAIN f
        <5>1. PICK d \in Int : d = UpdateOnCorroboration(f[i].confidence)
          BY <2>7, <4>1, ConfidenceType
        <5>2. records' = [f EXCEPT ![i].confidence = d] BY <3>2, <5>1
        <5> QED BY <2>4, <5>1, <5>2, ConfidenceChanged
      <4>2. CASE i \notin DOMAIN f
        <5>1. records' = f BY <2>4, <3>2, <4>2
        <5> QED BY <2>4, <5>1
      <4> QED BY <4>1, <4>2
    <3>4. checked' = Tail(checked) BY <1>2 DEF SettleCandidate
    <3> QED BY <2>5, <3>3, <3>4 DEF RecordsOK
  <2> QED BY <2>8, <2>9
<1>3. ASSUME NEW o \in WindowOptions, FillWindow(o) PROVE RecordsOK'
  BY <1>3 DEF FillWindow, RecordsOK
<1>4. ASSUME UNCHANGED contextVars PROVE RecordsOK' BY <1>4 DEF contextVars, RecordsOK
<1> QED BY <1>1, <1>2, <1>3, <1>4 DEF ContextNext

-----------------------------------------------------------------------------
(* The window. *)

LEMMA KeyType == ASSUME RecordsOK, NEW o, NEW i \in DOMAIN records PROVE PriorityKey(o, i) \in Int
<1>1. CASE o.priority = "Confidence"
  <2>1. PriorityKey(o, i) = records[i].confidence BY <1>1, Zenon DEF PriorityKey
  <2> QED BY <2>1, RecordAt
<1>2. CASE o.priority = "Relevance"
  <2>1. PriorityKey(o, i) = records[i].relevance
    <3>1. o.priority # "Confidence" BY <1>2
    <3> QED BY <1>2, <3>1, Zenon DEF PriorityKey
  <2> QED BY <2>1, RecordAt
<1>3. CASE o.priority = "Recency"
  <2>1. PriorityKey(o, i) = records[i].validFrom
    <3>1. o.priority # "Confidence" /\ o.priority # "Relevance" BY <1>3
    <3> QED BY <1>3, <3>1, Zenon DEF PriorityKey
  <2> QED BY <2>1, RecordAt
<1>4. CASE o.priority \notin {"Confidence", "Relevance", "Recency"}
  <2>1. o.priority # "Confidence" /\ o.priority # "Relevance" /\ o.priority # "Recency" BY <1>4
  <2>2. PriorityKey(o, i) = 0 BY <2>1, Zenon DEF PriorityKey
  <2> QED BY <2>2
<1> QED BY <1>1, <1>2, <1>3, <1>4

LEMMA EstimateType ==
  ASSUME RecordsOK, NEW i \in DOMAIN records PROVE EstimateTokens(records[i]) \in Nat
<1>1. records[i].vector \in Embeddings \cup {<<>>} BY RecordAt
<1>2. Len(records[i].vector) \in Nat
  <2>1. PICK v : v = records[i].vector OBVIOUS
  <2>2. v \in Seq(Nat)
    <3>1. CASE v = <<>> BY <3>1
    <3>2. CASE v \in Embeddings BY <3>2, EmbeddingsAssumption
    <3> QED BY <1>1, <2>1, <3>1, <3>2
  <2> QED BY <2>1, <2>2
<1> QED BY <1>2 DEF EstimateTokens

LEMMA MaxSimType ==
  ASSUME RecordsOK, NEW i \in DOMAIN records, NEW s \in Seq(DOMAIN records)
  PROVE  MaxSimToSelected(i, s) \in 0 .. 100
<1> DEFINE S == {0} \cup {VectorSimilarity(records[i], records[j]) : j \in ToSet(s)}
<1>1. \A j \in ToSet(s) : VectorSimilarity(records[i], records[j]) \in 0 .. 100
  <2>1. ASSUME NEW j \in ToSet(s) PROVE VectorSimilarity(records[i], records[j]) \in 0 .. 100
    <3>1. j \in DOMAIN records BY DEF ToSet
    <3>2. records[i] \in RecordType /\ records[j] \in RecordType BY <3>1, RecordAt
    <3> QED BY <3>2, VectorSimilarityBounds
  <2> QED BY <2>1
<1>2. S \subseteq 0 .. 100 /\ S # {}
  <2>1. ASSUME NEW x, x \in S PROVE x \in 0 .. 100
    <3>1. x = 0 \/ \E j \in ToSet(s) : x = VectorSimilarity(records[i], records[j]) BY <2>1, Zenon
    <3>2. CASE x = 0
      <4>1. 0 \in 0 .. 100 OBVIOUS
      <4> HIDE DEF S
      <4> QED BY <3>2, <4>1, Zenon
    <3>3. ASSUME NEW j \in ToSet(s), x = VectorSimilarity(records[i], records[j]) PROVE x \in 0 .. 100
      <4> HIDE DEF S
      <4> QED BY <1>1, <3>3, Zenon
    <3> HIDE DEF S
    <3> QED BY <3>1, <3>2, <3>3, Zenon
  <2>2. 0 \in S OBVIOUS
  <2> HIDE DEF S
  <2> QED BY <2>1, <2>2
<1>3. MaxSimToSelected(i, s) = Max(S) BY DEF MaxSimToSelected
<1> HIDE DEF S
<1>4. PICK T : T = S OBVIOUS
<1>5. Max(T) \in T BY <1>2, <1>4, BoundedMax
<1> QED BY <1>2, <1>3, <1>4, <1>5

\* What a window in the making is, whatever the options: records taken once, and
\* a count that is their cost.
Chosen(w) ==
  /\ w \in [selected : Seq(DOMAIN records), used : Nat]
  /\ \A j, k \in DOMAIN w.selected : w.selected[j] = w.selected[k] => j = k
  /\ IsFiniteSet(TokensOf(w.selected))
  /\ w.used = Cardinality(TokensOf(w.selected))

LEMMA TakeChosen ==
  ASSUME RecordsOK, NEW w, Chosen(w), NEW i \in DOMAIN records, i \notin ToSet(w.selected)
  PROVE  Chosen(TakeRecord(w, i))
<1>1. PICK s : s = w.selected OBVIOUS
<1>2. PICK e : e = EstimateTokens(records[i]) OBVIOUS
<1>3. e \in Nat BY <1>2, EstimateType
<1>4. s \in Seq(DOMAIN records) /\ w.used \in Nat BY <1>1 DEF Chosen
<1>5. PICK n \in Nat : n = Len(s) BY <1>4
<1>6. PICK q : q = Append(s, i) OBVIOUS
<1>7. /\ q \in Seq(DOMAIN records) /\ DOMAIN q = 1 .. n + 1 /\ DOMAIN s = 1 .. n
      /\ q[n + 1] = i /\ \A k \in 1 .. n : q[k] = s[k]
  BY <1>4, <1>5, <1>6
<1>8. TakeRecord(w, i) = [selected |-> q, used |-> w.used + e] BY <1>1, <1>2, <1>6 DEF TakeRecord
<1>9. \A k \in 1 .. n : s[k] # i BY <1>1, <1>7 DEF ToSet
<1>10. \A j, k \in DOMAIN q : q[j] = q[k] => j = k
  <2>1. \A j, k \in 1 .. n : s[j] = s[k] => j = k BY <1>1, <1>7 DEF Chosen
  <2> QED BY <1>7, <1>9, <2>1
<1> DEFINE New == {n + 1} \X (1 .. e)
<1>11. TokensOf(q) = TokensOf(s) \cup New
  <2>1. TokensOf(q) = UNION {{k} \X (1 .. EstimateTokens(records[q[k]])) : k \in 1 .. n + 1}
    BY <1>7 DEF TokensOf
  <2>2. TokensOf(s) = UNION {{k} \X (1 .. EstimateTokens(records[s[k]])) : k \in 1 .. n}
    BY <1>7 DEF TokensOf
  <2>3. PICK A : A = [k \in 1 .. n + 1 |-> {k} \X (1 .. EstimateTokens(records[q[k]]))] OBVIOUS
  <2>4. TokensOf(q) = UNION {A[k] : k \in 1 .. n + 1} BY <2>1, <2>3
  <2>5. \A k \in 1 .. n : A[k] = {k} \X (1 .. EstimateTokens(records[s[k]])) BY <1>7, <2>3
  <2>6. TokensOf(s) = UNION {A[k] : k \in 1 .. n} BY <2>2, <2>5
  <2>7. n + 1 \in 1 .. n + 1 /\ A[n + 1] = New BY <1>2, <1>7, <2>3
  <2>8. 1 .. n + 1 = (1 .. n) \cup {n + 1} OBVIOUS
  <2> HIDE DEF New
  <2> QED BY <2>4, <2>6, <2>7, <2>8
<1>12. IsFiniteSet(New) /\ Cardinality(New) = e
  <2>1. IsFiniteSet(1 .. e) /\ Cardinality(1 .. e) = e BY <1>3, FS_Interval
  <2>2. IsFiniteSet({n + 1}) /\ Cardinality({n + 1}) = 1 BY FS_Singleton
  <2>3. IsFiniteSet(New) /\ Cardinality(New) = Cardinality({n + 1}) * Cardinality(1 .. e)
    BY <2>1, <2>2, FS_Product
  <2> HIDE DEF New
  <2> QED BY <1>3, <2>1, <2>2, <2>3
<1>13. TokensOf(s) \cap New = {}
  <2>1. \A x \in TokensOf(s) : x[1] \in 1 .. n BY <1>7 DEF TokensOf
  <2>2. \A x \in New : x[1] = n + 1 OBVIOUS
  <2>3. n + 1 \notin 1 .. n OBVIOUS
  <2> HIDE DEF New
  <2> QED BY <2>1, <2>2, <2>3
<1> HIDE DEF New
<1>14. IsFiniteSet(TokensOf(s)) /\ w.used = Cardinality(TokensOf(s)) BY <1>1 DEF Chosen
<1>15. IsFiniteSet(TokensOf(q)) /\ Cardinality(TokensOf(q)) = w.used + e
  <2>1. PICK A : A = TokensOf(s) OBVIOUS
  <2>2. PICK B : B = New OBVIOUS
  <2>3. IsFiniteSet(A) /\ IsFiniteSet(B) /\ A \cap B = {} BY <1>12, <1>13, <1>14, <2>1, <2>2
  <2>4. IsFiniteSet(A \cup B) /\ Cardinality(A \cup B)
          = Cardinality(A) + Cardinality(B) - Cardinality(A \cap B)
    BY <2>3, FS_Union
  <2>5. Cardinality(A \cap B) = 0 BY <2>3, FS_EmptySet
  <2>6. Cardinality(A) = w.used /\ Cardinality(B) = e BY <1>12, <1>14, <2>1, <2>2
  <2> QED BY <1>3, <1>4, <1>11, <2>1, <2>2, <2>4, <2>5, <2>6
<1>16. PICK u \in Nat : u = w.used + e BY <1>3, <1>4
<1> QED BY <1>7, <1>8, <1>10, <1>15, <1>16 DEF Chosen

\* A window in the making, for its options: within the budget but for a doubtful
\* record taken first, and with a doubtful record if there is one to show.
Making(o, w) ==
  /\ Chosen(w)
  /\ w.used > o.maxTokens => o.includeContradictions /\ Len(w.selected) = 1 /\ Doubtful(w.selected[1])
  /\ o.includeContradictions /\ (\E i \in DOMAIN records : Doubtful(i)) =>
       1 \in DOMAIN w.selected /\ Doubtful(w.selected[1])

\* Nothing left over fits.
Stuck(o, w) == \A i \in DOMAIN records \ ToSet(w.selected) : ~ Fits(o, w, i)

LEMMA NoneChosen == ASSUME RecordsOK PROVE Chosen([selected |-> <<>>, used |-> 0])
<1>1. PICK w : w = [selected |-> <<>>, used |-> 0] OBVIOUS
<1>2. w.selected = <<>> /\ w.used = 0 BY <1>1
<1>3. TokensOf(w.selected) = {} BY <1>2 DEF TokensOf
<1>4. IsFiniteSet(TokensOf(w.selected)) /\ Cardinality(TokensOf(w.selected)) = 0 BY <1>3, FS_EmptySet
<1>5. w \in [selected : Seq(DOMAIN records), used : Nat] BY <1>1
<1>6. DOMAIN w.selected = {} BY <1>2
<1> QED BY <1>1, <1>2, <1>4, <1>5, <1>6 DEF Chosen

LEMMA StartMaking ==
  ASSUME RecordsOK, NEW o \in WindowOptions PROVE Making(o, StartWindow(o))
<1> DEFINE none == [selected |-> <<>>, used |-> 0]
           doubtful == {i \in DOMAIN records : Doubtful(i)}
           first == CHOOSE i \in doubtful : \A j \in doubtful \ {i} : GoesFirst(o, i, j)
<1>1. o.maxTokens \in Nat /\ o.includeContradictions \in BOOLEAN BY ContextAssumption
<1>2. Len(records) \in Nat /\ DOMAIN records = 1 .. Len(records) BY DEF RecordsOK
<1>3. CASE o.includeContradictions /\ doubtful # {}
  <2>1. doubtful \subseteq Nat /\ IsFiniteSet(doubtful)
    <3>1. doubtful \subseteq 1 .. Len(records) BY <1>2
    <3>2. IsFiniteSet(1 .. Len(records)) BY <1>2, FS_Interval
    <3> HIDE DEF doubtful
    <3>3. IsFiniteSet(doubtful) BY <3>1, <3>2, FS_Subset
    <3>4. 1 .. Len(records) \subseteq Nat BY <1>2
    <3> QED BY <3>1, <3>3, <3>4
  <2>2. \A i \in doubtful : PriorityKey(o, i) \in Int BY KeyType
  <2>3. PICK D : D = doubtful OBVIOUS
  <2>4. \E i \in D : \A j \in D \ {i} : GoesFirst(o, i, j)
    <3> HIDE DEF doubtful
    <3>1. PICK s : s = [i \in D |-> PriorityKey(o, i)] OBVIOUS
    <3>2. PICK t : t = [i \in D |-> 0] OBVIOUS
    <3>3. s \in [D -> Int] /\ t \in [D -> Int] BY <2>2, <2>3, <3>1, <3>2
    <3>4. PICK i \in D : \A j \in D \ {i} : Precedes(s, t, i, j) BY <1>3, <2>1, <2>3, <3>3, FirstOf
    <3>5. ASSUME NEW j \in D \ {i} PROVE GoesFirst(o, i, j)
      <4>1. Precedes(s, t, i, j) BY <3>4
      <4> QED BY <3>1, <3>2, <4>1 DEF Precedes, GoesFirst
    <3> QED BY <3>5
  <2>5. first = CHOOSE i \in D : \A j \in D \ {i} : GoesFirst(o, i, j) BY <2>3
  <2>6. first \in D
    <3> HIDE DEF first
    <3> QED BY <2>4, <2>5
  <2>7. first \in DOMAIN records /\ Doubtful(first) BY <2>3, <2>6
  <2>8. StartWindow(o) = TakeRecord(none, first) BY <1>3 DEF StartWindow
  <2> HIDE DEF first, doubtful
  <2>9. first \notin ToSet(none.selected) BY DEF ToSet
  <2>10. PICK n : n = none OBVIOUS
  <2>11. Chosen(n) BY <2>10, NoneChosen
  <2>12. PICK w : w = TakeRecord(n, first) OBVIOUS
  <2>13. Chosen(w) BY <2>7, <2>9, <2>10, <2>11, <2>12, TakeChosen
  <2>14. w.selected = <<first>> BY <2>10, <2>12 DEF TakeRecord
  <2>15. Len(w.selected) = 1 /\ w.selected[1] = first /\ 1 \in DOMAIN w.selected BY <2>14
  <2>16. \A k \in 2 .. Len(w.selected) : FALSE BY <2>15
  <2>17. Making(o, w) BY <1>3, <2>7, <2>13, <2>15, <2>16 DEF Making
  <2> QED BY <2>8, <2>10, <2>12, <2>17
<1>4. CASE ~ (o.includeContradictions /\ doubtful # {})
  <2>1. StartWindow(o) = none BY <1>4 DEF StartWindow
  <2>2. PICK w : w = none OBVIOUS
  <2>3. Chosen(w) BY <2>2, NoneChosen
  <2>4. w.used = 0 /\ Len(w.selected) = 0 BY <2>2
  <2>5. ~ (w.used > o.maxTokens) BY <1>1, <2>4
  <2>6. ~ (o.includeContradictions /\ \E i \in DOMAIN records : Doubtful(i)) BY <1>4
  <2>7. \A k \in 2 .. Len(w.selected) : FALSE BY <2>4
  <2>8. Making(o, w) BY <2>3, <2>5, <2>6, <2>7 DEF Making
  <2> QED BY <2>1, <2>2, <2>8
<1> QED BY <1>3, <1>4

\* A round takes a record that fits, if there is one.
LEMMA RoundTakes ==
  ASSUME RecordsOK, NEW o \in WindowOptions, NEW w, Making(o, w)
  PROVE  \/ Stuck(o, w) /\ MmrRound(o, w) = w
         \/ \E i \in DOMAIN records \ ToSet(w.selected) : Fits(o, w, i) /\ MmrRound(o, w) = TakeRecord(w, i)
<1> DEFINE Mmr(i) == o.diversity * records[i].relevance - (100 - o.diversity) * MaxSimToSelected(i, w.selected)
           fit == {i \in DOMAIN records \ ToSet(w.selected) : Fits(o, w, i)}
           best == CHOOSE i \in fit : \A j \in fit \ {i} : Mmr(i) > Mmr(j) \/ (Mmr(i) = Mmr(j) /\ GoesFirst(o, i, j))
<1>1. MmrRound(o, w) = IF fit = {} THEN w ELSE TakeRecord(w, best) BY DEF MmrRound
<1>2. CASE fit = {}
  <2>1. Stuck(o, w) BY <1>2 DEF Stuck
  <2> HIDE DEF fit, best
  <2> QED BY <1>1, <1>2, <2>1
<1>3. CASE fit # {}
  <2>1. fit \subseteq DOMAIN records OBVIOUS
  <2>2. fit \subseteq Nat /\ IsFiniteSet(fit)
    <3> HIDE DEF fit
    <3>1. Len(records) \in Nat /\ DOMAIN records = 1 .. Len(records) BY DEF RecordsOK
    <3>2. IsFiniteSet(1 .. Len(records)) BY <3>1, FS_Interval
    <3> QED BY <2>1, <3>1, <3>2, FS_Subset
  <2>3. \A i \in fit : Mmr(i) \in Int
    <3> HIDE DEF fit
    <3>1. ASSUME NEW i \in fit PROVE Mmr(i) \in Int
      <4>1. PICK d \in Int : d = o.diversity BY ContextAssumption
      <4>2. PICK r \in Int : r = records[i].relevance BY <2>1, RecordAt
      <4>3. w.selected \in Seq(DOMAIN records) BY DEF Making, Chosen
      <4>4. PICK m \in 0 .. 100 : m = MaxSimToSelected(i, w.selected) BY <2>1, <4>3, MaxSimType
      <4>5. d * r \in Int /\ (100 - d) * m \in Int OBVIOUS
      <4>6. PICK x \in Int, y \in Int : x = d * r /\ y = (100 - d) * m BY <4>5
      <4>7. Mmr(i) = x - y BY <4>1, <4>2, <4>4, <4>6
      <4> QED BY <4>6, <4>7
    <3> QED BY <3>1
  <2>4. \A i \in fit : PriorityKey(o, i) \in Int BY KeyType
  <2> HIDE DEF Mmr
  <2>5. PICK F : F = fit OBVIOUS
  <2>6. \E i \in F : \A j \in F \ {i} : Mmr(i) > Mmr(j) \/ (Mmr(i) = Mmr(j) /\ GoesFirst(o, i, j))
    <3> HIDE DEF fit
    <3>1. PICK s : s = [i \in F |-> Mmr(i)] OBVIOUS
    <3>2. PICK t : t = [i \in F |-> PriorityKey(o, i)] OBVIOUS
    <3>3. s \in [F -> Int] /\ t \in [F -> Int] BY <2>3, <2>4, <2>5, <3>1, <3>2
    <3>4. PICK i \in F : \A j \in F \ {i} : Precedes(s, t, i, j) BY <1>3, <2>2, <2>5, <3>3, FirstOf
    <3>5. ASSUME NEW j \in F \ {i} PROVE Mmr(i) > Mmr(j) \/ (Mmr(i) = Mmr(j) /\ GoesFirst(o, i, j))
      <4>1. Precedes(s, t, i, j) BY <3>4
      <4> QED BY <3>1, <3>2, <4>1 DEF Precedes, GoesFirst
    <3> QED BY <3>5
  <2>7. best = CHOOSE i \in F : \A j \in F \ {i} : Mmr(i) > Mmr(j) \/ (Mmr(i) = Mmr(j) /\ GoesFirst(o, i, j))
    BY <2>5
  <2>8. best \in F
    <3> HIDE DEF best, fit
    <3> QED BY <2>6, <2>7
  <2>9. best \in DOMAIN records \ ToSet(w.selected) /\ Fits(o, w, best)
    <3> HIDE DEF best
    <3> QED BY <2>5, <2>8
  <2> HIDE DEF best, fit
  <2> QED BY <1>1, <1>3, <2>9
<1> QED BY <1>2, <1>3

LEMMA TakeMaking ==
  ASSUME RecordsOK, NEW o \in WindowOptions, NEW w, Making(o, w),
         NEW i \in DOMAIN records \ ToSet(w.selected), Fits(o, w, i)
  PROVE  Making(o, TakeRecord(w, i)) /\ Len(TakeRecord(w, i).selected) = Len(w.selected) + 1
<1>1. PICK v : v = TakeRecord(w, i) OBVIOUS
<1>2. Chosen(v) BY <1>1, TakeChosen DEF Making
<1>3. PICK s : s = w.selected OBVIOUS
<1>4. s \in Seq(DOMAIN records) BY <1>3 DEF Making, Chosen
<1>5. PICK n \in Nat : n = Len(s) BY <1>4
<1>6. PICK q : q = Append(s, i) OBVIOUS
<1>7. /\ q \in Seq(DOMAIN records) /\ Len(q) = n + 1 /\ DOMAIN q = 1 .. n + 1 /\ DOMAIN s = 1 .. n
      /\ q[n + 1] = i /\ \A k \in 1 .. n : q[k] = s[k]
  BY <1>4, <1>5, <1>6
<1>8. v.selected = q /\ v.used = w.used + EstimateTokens(records[i]) BY <1>1, <1>3, <1>6 DEF TakeRecord
<1>9. v.used <= o.maxTokens BY <1>8 DEF Fits
<1>10. v.used \in Nat /\ o.maxTokens \in Nat /\ o.coherence \in Nat
  BY <1>2, ContextAssumption DEF Chosen
<1>11. ~ (v.used > o.maxTokens) BY <1>9, <1>10
<1>12. ASSUME o.includeContradictions, \E j \in DOMAIN records : Doubtful(j)
       PROVE  1 \in DOMAIN v.selected /\ Doubtful(v.selected[1])
  <2>1. 1 \in DOMAIN s /\ Doubtful(s[1]) BY <1>3, <1>12 DEF Making
  <2>2. 1 \in 1 .. n /\ 1 \in 1 .. n + 1 BY <1>7, <2>1
  <2>3. q[1] = s[1] BY <1>7, <2>2
  <2> QED BY <1>7, <1>8, <2>1, <2>2, <2>3
<1>13. Making(o, v) BY <1>2, <1>11, <1>12 DEF Making
<1> QED BY <1>1, <1>3, <1>5, <1>7, <1>8, <1>13

\* As many records as there are, each once, are all of them.
LEMMA AllTaken ==
  ASSUME NEW n \in Nat, NEW s \in Seq(1 .. n), Len(s) >= n,
         \A j, k \in DOMAIN s : s[j] = s[k] => j = k
  PROVE  \A i \in 1 .. n : i \in ToSet(s)
<1>1. PICK m \in Nat : m = Len(s) /\ DOMAIN s = 1 .. m OBVIOUS
<1>2. PICK R : R = ToSet(s) OBVIOUS
<1>3. R \subseteq 1 .. n /\ \A x \in R : \E k \in 1 .. m : x = s[k] BY <1>1, <1>2 DEF ToSet
<1>4. s \in Bijection(1 .. m, R)
  <2>1. \A k \in 1 .. m : s[k] \in R BY <1>1, <1>2 DEF ToSet
  <2>2. s \in [1 .. m -> R] BY <1>1, <2>1
  <2>3. s \in Injection(1 .. m, R) BY <1>1, <2>2 DEF Injection, IsInjective
  <2>4. s \in Surjection(1 .. m, R) BY <1>3, <2>2 DEF Surjection
  <2> QED BY <2>3, <2>4 DEF Bijection
<1>5. IsFiniteSet(1 .. n) /\ Cardinality(1 .. n) = n BY FS_Interval
<1>6. IsFiniteSet(1 .. m) /\ Cardinality(1 .. m) = m BY FS_Interval
<1>7. ExistsBijection(1 .. m, R) BY <1>4 DEF ExistsBijection
<1>8. Cardinality(R) = m BY <1>6, <1>7, FS_Bijection
<1>9. Cardinality(R) \in Nat /\ Cardinality(R) <= n /\ (Cardinality(R) = n => R = 1 .. n)
  BY <1>3, <1>5, <1>6, <1>8, FS_Subset
<1>10. R = 1 .. n BY <1>1, <1>8, <1>9
<1> QED BY <1>2, <1>10

\* What SelectWindow returns.
LEMMA Selected ==
  ASSUME RecordsOK, NEW o \in WindowOptions
  PROVE  Making(o, SelectWindow(o)) /\ Stuck(o, SelectWindow(o))
<1>1. PICK n \in Nat : n = Len(records) /\ DOMAIN records = 1 .. n BY DEF RecordsOK
<1> DEFINE Step(g) == [k \in 0 .. n |-> IF k = 0 THEN StartWindow(o) ELSE MmrRound(o, g[k - 1])]
           w == CHOOSE g : g = Step(g)
           Typed == [selected : Seq(DOMAIN records), used : Nat]
           S == {x \in Typed : Making(o, x)}
           f == [x \in S \X (1 .. n) |-> MmrRound(o, x[1])]
           Done(x, k) == Making(o, x) /\ (Stuck(o, x) \/ Len(x.selected) >= k)
<1>2. SelectWindow(o) = w[n] BY <1>1 DEF SelectWindow
<1>3. ASSUME NEW x, Making(o, x) PROVE x \in S
  <2>1. x \in Typed BY <1>3 DEF Making, Chosen
  <2> QED BY <1>3, <2>1
<1>4. ASSUME NEW x, Making(o, x) PROVE Making(o, MmrRound(o, x)) BY <1>3, <1>4, RoundTakes, TakeMaking
<1>5. StartWindow(o) \in S BY <1>3, StartMaking
<1>6. \A x \in S : Making(o, x) OBVIOUS
<1>7. \A x \in S : MmrRound(o, x) \in S
  <2> HIDE DEF S
  <2> QED BY <1>3, <1>4, <1>6
<1>8. \A x \in S, k \in 1 .. n : f[<<x, k>>] = MmrRound(o, x) OBVIOUS
<1>9. f \in [S \X (1 .. n) -> S]
  <2> HIDE DEF S
  <2> QED BY <1>7
<1> HIDE DEF S, f
<1>10. PICK g \in [0 .. n -> S] : Iterates(g, n, StartWindow(o), f) BY <1>5, <1>9, Iterate
<1>11. g = Step(g)
  <2>1. ASSUME NEW k \in 0 .. n PROVE g[k] = Step(g)[k]
    <3>1. CASE k = 0
      <4>1. g[0] = StartWindow(o) BY <1>10 DEF Iterates
      <4> QED BY <3>1, <4>1
    <3>2. CASE k # 0
      <4>1. k \in 1 .. n /\ k - 1 \in 0 .. n BY <3>2
      <4>2. g[k] = f[<<g[k - 1], k>>] BY <1>10, <4>1 DEF Iterates
      <4>3. g[k] = MmrRound(o, g[k - 1]) BY <1>8, <1>10, <4>1, <4>2
      <4> QED BY <3>2, <4>3
    <3> QED BY <3>1, <3>2
  <2>2. g = [k \in 0 .. n |-> g[k]] /\ Step(g) = [k \in 0 .. n |-> Step(g)[k]] OBVIOUS
  <2> HIDE DEF Step
  <2> QED BY <2>1, <2>2
<1>12. w = Step(w)
  <2> HIDE DEF Step
  <2> QED BY <1>11, Zenon
<1> HIDE DEF w
<1> DEFINE T == {k \in 0 .. n : Done(w[k], k)}
<1>13. 0 \in T
  <2>1. w[0] = StartWindow(o) BY <1>12
  <2>2. Making(o, w[0]) BY <2>1, StartMaking
  <2>3. w[0].selected \in Seq(DOMAIN records) BY <2>2 DEF Making, Chosen
  <2>4. PICK s : s = w[0].selected OBVIOUS
  <2>5. Len(s) \in Nat BY <2>3, <2>4
  <2>6. Len(w[0].selected) >= 0 BY <2>4, <2>5
  <2> QED BY <2>2, <2>6
<1>14. ASSUME NEW k \in 0 .. n - 1, k \in T PROVE k + 1 \in T
  <2>1. k + 1 \in 0 .. n /\ (k + 1) - 1 = k /\ k + 1 # 0 OBVIOUS
  <2>2. w[k + 1] = MmrRound(o, w[k])
    <3>1. w[k + 1] = Step(w)[k + 1] BY <1>12, Zenon
    <3> QED BY <2>1, <3>1
  <2>3. PICK x : x = w[k] OBVIOUS
  <2>4. Making(o, x) /\ (Stuck(o, x) \/ Len(x.selected) >= k) BY <1>14, <2>3
  <2>5. CASE Stuck(o, x) /\ MmrRound(o, x) = x
    <3>1. Done(w[k + 1], k + 1) BY <2>2, <2>3, <2>4, <2>5
    <3> HIDE DEF Done
    <3> QED BY <2>1, <3>1
  <2>6. ASSUME NEW i \in DOMAIN records \ ToSet(x.selected), Fits(o, x, i), MmrRound(o, x) = TakeRecord(x, i)
        PROVE  k + 1 \in T
    <3>1. PICK y : y = TakeRecord(x, i) OBVIOUS
    <3>2. Making(o, y) /\ Len(y.selected) = Len(x.selected) + 1 BY <2>4, <2>6, <3>1, TakeMaking
    <3>3. ~ Stuck(o, x) BY <2>6 DEF Stuck
    <3>4. Len(x.selected) >= k BY <2>4, <3>3
    <3>5. Len(x.selected) \in Nat
      <4>1. PICK s : s = x.selected OBVIOUS
      <4>2. s \in Seq(DOMAIN records) BY <2>4, <4>1 DEF Making, Chosen
      <4> QED BY <4>1, <4>2
    <3>6. Len(y.selected) >= k + 1 BY <3>2, <3>4, <3>5
    <3>7. w[k + 1] = y BY <2>2, <2>3, <2>6, <3>1
    <3>8. Done(w[k + 1], k + 1) BY <3>2, <3>6, <3>7
    <3> HIDE DEF Done
    <3> QED BY <2>1, <3>8
  <2> QED BY <2>4, <2>5, <2>6, RoundTakes
<1>15. n \in T
  <2> HIDE DEF T
  <2>1. 0 .. n \subseteq T BY <1>13, <1>14, UpTo
  <2> QED BY <2>1
<1>16. PICK x : x = w[n] OBVIOUS
<1>17. Making(o, x) /\ (Stuck(o, x) \/ Len(x.selected) >= n) BY <1>15, <1>16
<1>18. CASE Len(x.selected) >= n
  <2>1. PICK s : s = x.selected OBVIOUS
  <2>2. s \in Seq(1 .. n) /\ \A j, k \in DOMAIN s : s[j] = s[k] => j = k
    BY <1>1, <1>17, <2>1 DEF Making, Chosen
  <2>3. \A i \in 1 .. n : i \in ToSet(s) BY <1>18, <2>1, <2>2, AllTaken
  <2>4. Stuck(o, x) BY <1>1, <2>1, <2>3 DEF Stuck
  <2> QED BY <1>2, <1>16, <1>17, <2>4
<1> QED BY <1>2, <1>16, <1>17, <1>18

\* ContextSound of a window w.
SoundWindow(w) ==
  /\ IsInjective(w.selected)
  /\ w.used = Cardinality(TokensOf(w.selected))
  /\ w.used > w.options.maxTokens =>
       w.options.includeContradictions /\ Len(w.selected) = 1 /\ Doubtful(w.selected[1])
  /\ w.options.includeContradictions /\ (\E i \in DOMAIN records : Doubtful(i)) => w.contradictions >= 1
  /\ \A i \in DOMAIN records \ ToSet(w.selected) :
       \/ w.used + EstimateTokens(records[i]) > w.options.maxTokens
       \/ MaxSimToSelected(i, w.selected) < w.options.coherence

LEMMA FilledSound ==
  ASSUME RecordsOK, NEW o \in WindowOptions, NEW w, FillWindow(o), w = window' PROVE SoundWindow(w)
<1>1. PICK x : x = SelectWindow(o) OBVIOUS
<1>2. Making(o, x) /\ Stuck(o, x) BY <1>1, Selected
<1>3. PICK s : s = x.selected OBVIOUS
<1>4. s \in Seq(DOMAIN records) /\ x.used \in Nat BY <1>2, <1>3 DEF Making, Chosen
<1>5. /\ w.options = o /\ w.selected = s /\ w.used = x.used
      /\ w.contradictions = ContradictionsFound(s)
  BY <1>1, <1>3 DEF FillWindow
<1>6. Len(s) \in Nat /\ DOMAIN s = 1 .. Len(s) BY <1>4
<1>7. IsInjective(s) BY <1>2, <1>3 DEF Making, Chosen, IsInjective
<1>8. x.used = Cardinality(TokensOf(s)) BY <1>2, <1>3 DEF Making, Chosen
<1>9. x.used > o.maxTokens => o.includeContradictions /\ Len(s) = 1 /\ Doubtful(s[1])
  BY <1>2, <1>3 DEF Making
<1>10. ASSUME o.includeContradictions, \E i \in DOMAIN records : Doubtful(i)
       PROVE  ContradictionsFound(s) >= 1
  <2>1. PICK D : D = {k \in DOMAIN s : Doubtful(s[k])} OBVIOUS
  <2>2. 1 \in DOMAIN s /\ Doubtful(s[1]) BY <1>2, <1>3, <1>10 DEF Making
  <2>3. D # {} BY <2>1, <2>2
  <2>4. IsFiniteSet(DOMAIN s) BY <1>6, FS_Interval
  <2>5. IsFiniteSet(D) BY <2>1, <2>4, FS_Subset
  <2>6. Cardinality(D) \in Nat /\ Cardinality(D) # 0 BY <2>3, <2>5, FS_CardinalityType, FS_EmptySet
  <2>7. ContradictionsFound(s) = Cardinality(D) BY <2>1 DEF ContradictionsFound
  <2> QED BY <2>6, <2>7
<1>11. ASSUME NEW i \in DOMAIN records \ ToSet(s)
       PROVE  \/ x.used + EstimateTokens(records[i]) > o.maxTokens
              \/ MaxSimToSelected(i, s) < o.coherence
  <2>1. ~ Fits(o, x, i) BY <1>2, <1>3 DEF Stuck
  <2>2. EstimateTokens(records[i]) \in Nat BY EstimateType
  <2>3. MaxSimToSelected(i, s) \in 0 .. 100 BY <1>4, MaxSimType
  <2>4. o.maxTokens \in Nat /\ o.coherence \in Nat BY ContextAssumption
  <2>5. \/ ~ (x.used + EstimateTokens(records[i]) <= o.maxTokens)
        \/ ~ (MaxSimToSelected(i, s) >= o.coherence)
    BY <1>3, <2>1 DEF Fits
  <2>6. PICK e \in Nat : e = EstimateTokens(records[i]) BY <2>2
  <2>7. PICK m \in 0 .. 100 : m = MaxSimToSelected(i, s) BY <2>3
  <2>8. ~ (x.used + e <= o.maxTokens) \/ ~ (m >= o.coherence) BY <2>5, <2>6, <2>7
  <2>9. x.used + e > o.maxTokens \/ m < o.coherence BY <1>4, <2>4, <2>8
  <2> QED BY <2>6, <2>7, <2>9
<1> QED BY <1>5, <1>7, <1>8, <1>9, <1>10, <1>11 DEF SoundWindow

\* While results wait for an answer there is no window; the window there is was
\* filled from the records as they are.
CInv ==
  /\ RecordsOK
  /\ checked # <<>> => window = <<>>
  /\ ContextSound

\* ContextSound is SoundWindow of the window, before a step and after it.
LEMMA SoundSame == ContextSound <=> (window = <<>> \/ SoundWindow(window))
  BY DEF ContextSound, BudgetKept, DoubtShown, Filling, SoundWindow

LEMMA CInvInit == ContextInit => CInv
  BY DEF ContextInit, CInv, RecordsOK, ContextSound

LEMMA CInvStep == CInv /\ [ContextNext]_contextVars => CInv'
<1> SUFFICES ASSUME CInv, [ContextNext]_contextVars PROVE CInv' OBVIOUS
<1>1. RecordsOK /\ RecordsOK' BY RecordsStep DEF CInv
<1>2. ASSUME NEW r \in NewRecords, InsertRecord(r) PROVE CInv'
  <2>1. window' = <<>> BY <1>2 DEF InsertRecord
  <2> QED BY <1>1, <2>1 DEF CInv, ContextSound
<1>3. ASSUME SettleCandidate PROVE CInv'
  <2>1. checked # <<>> /\ window' = window BY <1>3 DEF SettleCandidate
  <2>2. window' = <<>> BY <2>1 DEF CInv
  <2> QED BY <1>1, <2>2 DEF CInv, ContextSound
<1>4. ASSUME NEW o \in WindowOptions, checked = <<>>, FillWindow(o) PROVE CInv'
  <2>1. PICK w : w = window' OBVIOUS
  <2>2. SoundWindow(w) BY <1>1, <1>4, <2>1, FilledSound
  <2>3. records' = records /\ checked' = <<>> BY <1>4 DEF FillWindow
  <2>4. SoundWindow(window)'
    BY <2>1, <2>2, <2>3 DEF SoundWindow, TokensOf, Doubtful, MaxSimToSelected
  <2>5. ContextSound' BY <2>4 DEF ContextSound, BudgetKept, DoubtShown, Filling, SoundWindow
  <2> QED BY <1>1, <2>3, <2>5 DEF CInv
<1>5. ASSUME UNCHANGED contextVars PROVE CInv'
  <2>1. records' = records /\ checked' = checked /\ window' = window BY <1>5 DEF contextVars
  <2>2. ContextSound'
    BY <2>1 DEF CInv, ContextSound, BudgetKept, DoubtShown, Filling, TokensOf, Doubtful, MaxSimToSelected
  <2> QED BY <1>1, <2>1, <2>2 DEF CInv
<1> QED BY <1>2, <1>3, <1>4, <1>5 DEF ContextNext

\* A context window is within its budget unless the one doubtful record taken
\* first is already more, shows a doubtful record to whoever asks for one, and
\* leaves out nothing that fits: for every set of records and options, whatever
\* the contradictions did to the confidences.
THEOREM ContextSoundHolds == ContextSpec => []ContextSound
<1>1. CInv => ContextSound BY DEF CInv
<1> QED BY CInvInit, CInvStep, <1>1, PTL DEF ContextSpec
=============================================================================
