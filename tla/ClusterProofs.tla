--------------------------- MODULE ClusterProofs ---------------------------
(***************************************************************************)
(* Proofs about the shard map and the coordinator, for every set of nodes, *)
(* every number of virtual nodes and every hash without collisions on the  *)
(* ring.                                                                   *)
(*                                                                         *)
(* An entry of the ring is known by its hash and by its shard, and its     *)
(* shard belongs to its node (RingOK).  A shard that has an owner keeps    *)
(* one until the ring is empty, even after its entry has gone (OwnersOK).  *)
(* A record is stored in the shard that a lookup of it asks, because the   *)
(* coordinator does not see the map change any more (StoredOK, AskedOK).   *)
(* A replication group is complete because the walk round the ring, whose  *)
(* entries are counted by their ranks, meets every node, and because after *)
(* any part of the walk the nodes found are those met so far, up to the    *)
(* factor (Found).  A merged answer is exact because no record is in two   *)
(* shards (DataOK) and every shard sends enough of its records, or all     *)
(* (SentEnough).                                                           *)
(***************************************************************************)
EXTENDS DistQuery, NatLemmas, FiniteSetTheorems

Entry == [hash : Nat, node : NodeIds, shard : Nat]

RingOK ==
  /\ nodes \subseteq NodeIds /\ nextShardId \in Nat
  /\ ring \subseteq Entry
  /\ \A e \in ring : /\ e.node \in nodes /\ e.shard < nextShardId
                     /\ \E r \in 0 .. VirtualNodes - 1 : e.hash = RingHash[e.node][r]
  /\ \A e, f \in ring : e.hash = f.hash => e = f
  /\ \A e, f \in ring : e.shard = f.shard => e = f
  /\ \A n \in nodes : \E e \in ring : e.node = n

OwnersOK ==
  /\ \A s \in DOMAIN shardOwners : s \in Nat /\ s < nextShardId /\ shardOwners[s] \in nodes
  /\ \A e \in ring : e.shard \in DOMAIN shardOwners /\ shardOwners[e.shard] = e.node

RoutedOK ==
  /\ cleared \in Nat /\ cleared <= nextShardId
  /\ DOMAIN collectionShards = Collections
  /\ \A c \in Collections : \A s \in collectionShards[c] :
       /\ s \in Nat /\ s < nextShardId
       /\ s >= cleared => s \in DOMAIN shardOwners

SInv == RingOK /\ OwnersOK /\ RoutedOK

-----------------------------------------------------------------------------
(* Routing                                                                 *)

\* A non-empty set of entries has one with the least hash.
LEMMA LeastEntry ==
  ASSUME NEW S, S \subseteq Entry, S # {}
  PROVE  Least(S) \in S /\ \A f \in S : Least(S).hash <= f.hash
<1>1. PICK T : T = {e.hash : e \in S} OBVIOUS
<1>2. T \subseteq Nat /\ T # {} BY <1>1 DEF Entry
<1>3. PICK x \in T : \A y \in T : x <= y BY <1>2, LeastNat
<1>4. \E e \in S : \A f \in S : e.hash <= f.hash BY <1>1, <1>3
<1> QED BY <1>4 DEF Least

\* e is the entry that the hash h falls to.
Falls(S, h, e) ==
  /\ e \in S
  /\ IF \E f \in S : f.hash >= h
     THEN e.hash >= h /\ \A f \in S : f.hash >= h => e.hash <= f.hash
     ELSE \A f \in S : e.hash <= f.hash

LEMMA SuccessorFalls ==
  ASSUME NEW S, S \subseteq Entry, S # {}, NEW h
  PROVE  Falls(S, h, Successor(S, h))
<1>1. PICK after : after = {e \in S : e.hash >= h} OBVIOUS
<1>2. CASE after # {}
  <2>1. Successor(S, h) = Least(after) BY <1>1, <1>2 DEF Successor
  <2>2. after \subseteq Entry BY <1>1
  <2> QED BY <1>1, <1>2, <2>1, <2>2, LeastEntry DEF Falls
<1>3. CASE after = {}
  <2>1. Successor(S, h) = Least(S) BY <1>1, <1>3 DEF Successor
  <2> QED BY <1>1, <1>3, <2>1, LeastEntry DEF Falls
<1> QED BY <1>2, <1>3

\* Of two rings, one a part of the other, a hash falls to the same entry in
\* both when the entry of the larger one is in the smaller one.
LEMMA FallsSame ==
  ASSUME NEW S, NEW R, S \subseteq R, R \subseteq Entry,
         \A e, f \in R : e.hash = f.hash => e = f,
         NEW h \in Nat, NEW d, NEW e, Falls(S, h, d), Falls(R, h, e), e \in S
  PROVE  d = e
<1>1. \A f \in R : f.hash \in Nat BY DEF Entry
<1>2. d \in S /\ d \in R /\ e \in R BY DEF Falls
<1>3. CASE \E f \in S : f.hash >= h
  <2>1. d.hash >= h /\ d.hash <= e.hash /\ e.hash >= h /\ e.hash <= d.hash
    BY <1>1, <1>2, <1>3 DEF Falls
  <2> QED BY <1>1, <1>2, <2>1
<1>4. CASE ~\E f \in S : f.hash >= h
  <2>1. ~(e.hash >= h) BY <1>2, <1>4
  <2>2. ~\E f \in R : f.hash >= h BY <2>1 DEF Falls
  <2>3. d.hash <= e.hash /\ e.hash <= d.hash BY <1>2, <1>4, <2>2 DEF Falls
  <2> QED BY <1>1, <1>2, <2>3
<1> QED BY <1>3, <1>4
-----------------------------------------------------------------------------
(* Topology                                                                *)

\* A new node brings entries with new hashes and new shards.
NewEntries(n) ==
  {[hash |-> RingHash[n][r], node |-> n, shard |-> nextShardId + r] : r \in 0 .. VirtualNodes - 1}

LEMMA NewEntriesOK ==
  ASSUME RingOK, NEW n \in NodeIds, n \notin nodes
  PROVE  /\ NewEntries(n) \subseteq Entry /\ NewEntries(n) # {}
         /\ \A e \in NewEntries(n) :
              /\ e.node = n /\ e.shard >= nextShardId /\ e.shard < nextShardId + VirtualNodes
              /\ \E r \in 0 .. VirtualNodes - 1 : e.hash = RingHash[n][r]
              /\ \A f \in ring : e.hash # f.hash /\ e.shard # f.shard
         /\ \A e, f \in NewEntries(n) : e.hash = f.hash \/ e.shard = f.shard => e = f
<1>1. /\ VirtualNodes \in Nat \ {0} /\ nextShardId \in Nat
      /\ \A r \in 0 .. VirtualNodes - 1 : RingHash[n][r] \in Nat
      /\ \A m, p \in NodeIds : \A r, q \in 0 .. VirtualNodes - 1 :
           RingHash[m][r] = RingHash[p][q] => m = p /\ r = q
  BY ShardMapAssumption DEF RingOK, ShardMapAssumption
<1>2. NewEntries(n) \subseteq Entry BY <1>1 DEF NewEntries, Entry
<1>3. NewEntries(n) # {}
  <2>1. 0 \in 0 .. VirtualNodes - 1 BY <1>1
  <2> QED BY <2>1 DEF NewEntries
<1>4. ASSUME NEW e \in NewEntries(n)
      PROVE  /\ e.node = n /\ e.shard >= nextShardId /\ e.shard < nextShardId + VirtualNodes
             /\ \E r \in 0 .. VirtualNodes - 1 : e.hash = RingHash[n][r]
             /\ \A f \in ring : e.hash # f.hash /\ e.shard # f.shard
  <2>1. PICK r \in 0 .. VirtualNodes - 1 :
          e = [hash |-> RingHash[n][r], node |-> n, shard |-> nextShardId + r]
    BY DEF NewEntries
  <2>2. e.node = n /\ e.shard = nextShardId + r /\ e.hash = RingHash[n][r] BY <2>1
  <2>3. ASSUME NEW f \in ring PROVE e.hash # f.hash /\ e.shard # f.shard
    <3>1. f \in Entry /\ f.node \in nodes /\ f.shard < nextShardId BY DEF RingOK
    <3>2. PICK q \in 0 .. VirtualNodes - 1 : f.hash = RingHash[f.node][q] BY DEF RingOK
    <3>3. f.node \in NodeIds /\ f.node # n BY <3>1 DEF RingOK
    <3> QED BY <1>1, <2>2, <3>1, <3>2, <3>3 DEF Entry
  <2> QED BY <1>1, <2>2, <2>3
<1>5. ASSUME NEW e \in NewEntries(n), NEW f \in NewEntries(n), e.hash = f.hash \/ e.shard = f.shard
      PROVE  e = f
  <2>1. PICK r \in 0 .. VirtualNodes - 1 :
          e = [hash |-> RingHash[n][r], node |-> n, shard |-> nextShardId + r]
    BY DEF NewEntries
  <2>2. PICK q \in 0 .. VirtualNodes - 1 :
          f = [hash |-> RingHash[n][q], node |-> n, shard |-> nextShardId + q]
    BY DEF NewEntries
  <2>3. RingHash[n][r] = RingHash[n][q] \/ nextShardId + r = nextShardId + q BY <1>5, <2>1, <2>2
  <2>4. r = q BY <1>1, <2>3
  <2> QED BY <2>1, <2>2, <2>4
<1> QED BY <1>2, <1>3, <1>4, <1>5

LEMMA AddRing ==
  ASSUME SInv, NEW n \in NodeIds, AddNode(n)
  PROVE  RingOK'
<1>1. /\ n \notin nodes /\ nodes' = nodes \cup {n} /\ ring' = ring \cup NewEntries(n)
      /\ nextShardId' = nextShardId + VirtualNodes
  BY DEF AddNode, NewEntries
<1>2. VirtualNodes \in Nat \ {0} /\ nextShardId \in Nat /\ RingOK
  BY ShardMapAssumption DEF ShardMapAssumption, SInv, RingOK
<1>3. PICK new : new = NewEntries(n) OBVIOUS
<1>4. /\ new \subseteq Entry /\ new # {} /\ ring' = ring \cup new
      /\ \A e \in new :
           /\ e.node = n /\ e.shard >= nextShardId /\ e.shard < nextShardId + VirtualNodes
           /\ \E r \in 0 .. VirtualNodes - 1 : e.hash = RingHash[n][r]
           /\ \A f \in ring : e.hash # f.hash /\ e.shard # f.shard
      /\ \A e, f \in new : e.hash = f.hash \/ e.shard = f.shard => e = f
  BY <1>1, <1>2, <1>3, NewEntriesOK
<1>5. nodes' \subseteq NodeIds /\ nextShardId' \in Nat /\ ring' \subseteq Entry
  BY <1>1, <1>2, <1>4 DEF RingOK
<1>6. ASSUME NEW e \in ring'
      PROVE  /\ e.node \in nodes' /\ e.shard < nextShardId'
             /\ \E r \in 0 .. VirtualNodes - 1 : e.hash = RingHash[e.node][r]
  <2>1. CASE e \in ring
    <3>1. e.node \in nodes /\ e.shard < nextShardId /\ e.shard \in Nat
      BY <1>2, <2>1 DEF RingOK, Entry
    <3>2. \E r \in 0 .. VirtualNodes - 1 : e.hash = RingHash[e.node][r]
      BY <1>2, <2>1 DEF RingOK
    <3> QED BY <1>1, <1>2, <3>1, <3>2
  <2>2. CASE e \in new BY <1>1, <1>4, <2>2
  <2> QED BY <1>4, <2>1, <2>2
<1>7. ASSUME NEW e \in ring', NEW f \in ring', e.hash = f.hash \/ e.shard = f.shard PROVE e = f
  <2>1. CASE e \in ring /\ f \in ring BY <1>2, <1>7, <2>1 DEF RingOK
  <2>2. CASE e \in new /\ f \in new BY <1>4, <1>7, <2>2
  <2>3. CASE (e \in ring /\ f \in new) \/ (e \in new /\ f \in ring) BY <1>4, <1>7, <2>3
  <2> QED BY <1>4, <2>1, <2>2, <2>3
<1>8. ASSUME NEW m \in nodes' PROVE \E e \in ring' : e.node = m
  <2>1. CASE m \in nodes BY <1>2, <1>4, <2>1 DEF RingOK
  <2>2. CASE m = n BY <1>4, <2>2
  <2> QED BY <1>1, <2>1, <2>2
<1> QED BY <1>5, <1>6, <1>7, <1>8 DEF RingOK

\* add_node takes no shard from anybody: it reports no migration.
LEMMA AddOwners ==
  ASSUME SInv, NEW n \in NodeIds, AddNode(n)
  PROVE  /\ OwnersOK' /\ migrations' = {}
         /\ DOMAIN shardOwners \subseteq DOMAIN shardOwners'
         /\ \A s \in DOMAIN shardOwners : shardOwners'[s] = shardOwners[s]
<1>1. /\ n \notin nodes /\ nodes' = nodes \cup {n} /\ ring' = ring \cup NewEntries(n)
      /\ nextShardId' = nextShardId + VirtualNodes
      /\ shardOwners' = Recomputed(ring')
      /\ migrations' = {[shard |-> s, from |-> shardOwners[s], to |-> n] :
                          s \in {t \in DOMAIN shardOwners : /\ shardOwners[t] # shardOwners'[t]
                                                            /\ shardOwners'[t] = n}}
  BY DEF AddNode, NewEntries
<1>2. VirtualNodes \in Nat \ {0} /\ nextShardId \in Nat /\ RingOK /\ OwnersOK
  BY ShardMapAssumption DEF ShardMapAssumption, SInv, RingOK
<1>3. RingOK' BY AddRing
<1>4. \A e \in NewEntries(n) : e.node = n /\ e.shard >= nextShardId /\ e.shard \in Nat
  BY <1>1, <1>2, NewEntriesOK DEF Entry
<1>5. /\ DOMAIN shardOwners' = DOMAIN shardOwners \cup {e.shard : e \in ring'}
      /\ \A s \in DOMAIN shardOwners' :
           shardOwners'[s] = IF \E e \in ring' : e.shard = s
                             THEN (CHOOSE e \in ring' : e.shard = s).node
                             ELSE shardOwners[s]
  BY <1>1 DEF Recomputed
<1>6. ASSUME NEW e \in ring' PROVE e.shard \in DOMAIN shardOwners' /\ shardOwners'[e.shard] = e.node
  <2>1. \A f \in ring' : f.shard = e.shard => f = e BY <1>3 DEF RingOK
  <2>2. (CHOOSE f \in ring' : f.shard = e.shard) = e BY <2>1
  <2> QED BY <1>5, <2>2
<1>7. ASSUME NEW s \in DOMAIN shardOwners PROVE shardOwners'[s] = shardOwners[s]
  <2>1. CASE \E e \in ring' : e.shard = s
    <3>1. PICK e \in ring' : e.shard = s BY <2>1
    <3>2. s \in Nat /\ s < nextShardId BY <1>2 DEF OwnersOK
    <3>3. e \in ring BY <1>1, <1>2, <1>4, <3>1, <3>2
    <3> QED BY <1>2, <1>6, <3>1, <3>3 DEF OwnersOK
  <2>2. CASE ~\E e \in ring' : e.shard = s BY <1>5, <2>2
  <2> QED BY <2>1, <2>2
<1>8. ASSUME NEW s \in DOMAIN shardOwners'
      PROVE  s \in Nat /\ s < nextShardId' /\ shardOwners'[s] \in nodes'
  <2>1. CASE s \in DOMAIN shardOwners
    <3>1. s \in Nat /\ s < nextShardId /\ shardOwners[s] \in nodes BY <1>2, <2>1 DEF OwnersOK
    <3>2. s < nextShardId' BY <1>1, <1>2, <3>1
    <3> QED BY <1>1, <1>7, <2>1, <3>1, <3>2
  <2>2. CASE \E e \in ring' : e.shard = s
    <3>1. PICK e \in ring' : e.shard = s BY <2>2
    <3> QED BY <1>3, <1>6, <3>1 DEF RingOK, Entry
  <2> QED BY <1>5, <2>1, <2>2
<1>9. OwnersOK' BY <1>6, <1>8 DEF OwnersOK
<1>10. migrations' = {} BY <1>1, <1>7
<1> QED BY <1>5, <1>7, <1>9, <1>10

\* remove_node gives the shards of the node to nodes that stay.
LEMMA RemoveSteps ==
  ASSUME SInv, NEW n, RemoveNode(n)
  PROVE  /\ RingOK' /\ OwnersOK'
         /\ \A s \in DOMAIN shardOwners : s \notin DOMAIN shardOwners' => cleared' = nextShardId
         /\ \A s \in OwnedBy(n) : s \notin DOMAIN shardOwners' \/ shardOwners'[s] # n
         /\ \A s \in DOMAIN shardOwners \ OwnedBy(n) :
              s \in DOMAIN shardOwners' /\ shardOwners'[s] = shardOwners[s]
         /\ \A m \in migrations' :
              /\ m.shard \in OwnedBy(n) /\ m.from = n
              /\ m.to \in nodes' \/ (nodes' = {} /\ m.to = 0)
              /\ nodes' # {} => shardOwners'[m.shard] = m.to
         /\ \A s \in OwnedBy(n) : \E m \in migrations' : m.shard = s
<1>1. PICK left : left = {e \in ring : e.node # n} OBVIOUS
<1>2. PICK moved : moved = OwnedBy(n) OBVIOUS
<1>3. /\ n \in nodes /\ nodes' = nodes \ {n} /\ ring' = left /\ nextShardId' = nextShardId
      /\ shardOwners' = IF left = {} THEN [s \in {} |-> 0]
                        ELSE [s \in DOMAIN shardOwners |->
                                IF s \in moved THEN NewOwner(left, s) ELSE shardOwners[s]]
      /\ migrations' = {[shard |-> s, from |-> n, to |-> IF left = {} THEN 0 ELSE NewOwner(left, s)] :
                          s \in moved}
      /\ cleared' = IF left = {} THEN nextShardId ELSE cleared
  BY <1>1, <1>2 DEF RemoveNode, MigrationsFrom
<1>4. RingOK /\ OwnersOK BY DEF SInv
<1>5. RingOK' BY <1>1, <1>3, <1>4 DEF RingOK
<1>6. left \subseteq Entry /\ \A e \in left : e.node \in nodes' BY <1>3, <1>5 DEF RingOK
<1>7. left = {} <=> nodes' = {} BY <1>3, <1>5, <1>6 DEF RingOK
<1>8. ASSUME NEW s, left # {} PROVE NewOwner(left, s) \in nodes'
  <2>1. \E h : NewOwner(left, s) = Successor(left, h).node BY DEF NewOwner
  <2>2. PICK h : NewOwner(left, s) = Successor(left, h).node BY <2>1
  <2>3. Successor(left, h) \in left BY <1>6, <1>8, SuccessorFalls DEF Falls
  <2> QED BY <1>6, <2>2, <2>3
<1>9. moved = {s \in DOMAIN shardOwners : shardOwners[s] = n} BY <1>2 DEF OwnedBy
<1>10. ASSUME left # {}
       PROVE  /\ DOMAIN shardOwners' = DOMAIN shardOwners
              /\ \A s \in moved : shardOwners'[s] = NewOwner(left, s)
              /\ \A s \in DOMAIN shardOwners \ moved : shardOwners'[s] = shardOwners[s]
  BY <1>3, <1>9, <1>10
<1>11. left = {} => DOMAIN shardOwners' = {} /\ moved = DOMAIN shardOwners
  BY <1>3, <1>4, <1>7, <1>9 DEF OwnersOK
<1>12. OwnersOK'
  <2>1. CASE left = {} BY <1>3, <1>11, <2>1 DEF OwnersOK
  <2>2. CASE left # {}
    <3>1. \A s \in DOMAIN shardOwners' : s \in Nat /\ s < nextShardId' /\ shardOwners'[s] \in nodes'
      BY <1>3, <1>4, <1>8, <1>9, <1>10, <2>2 DEF OwnersOK
    <3>2. ASSUME NEW e \in ring' PROVE e.shard \in DOMAIN shardOwners' /\ shardOwners'[e.shard] = e.node
      <4>1. /\ e \in ring /\ e.node # n /\ e.shard \in DOMAIN shardOwners
            /\ shardOwners[e.shard] = e.node
        BY <1>1, <1>3, <1>4 DEF OwnersOK
      <4> QED BY <1>9, <1>10, <2>2, <4>1
    <3> QED BY <3>1, <3>2 DEF OwnersOK
  <2> QED BY <2>1, <2>2
<1>13. \A s \in moved : s \notin DOMAIN shardOwners' \/ shardOwners'[s] # n
  BY <1>3, <1>8, <1>10, <1>11
<1>14. \A s \in DOMAIN shardOwners \ moved : s \in DOMAIN shardOwners' /\ shardOwners'[s] = shardOwners[s]
  BY <1>10, <1>11
<1>15. \A s \in DOMAIN shardOwners : s \notin DOMAIN shardOwners' => cleared' = nextShardId
  BY <1>3, <1>10
<1>16. ASSUME NEW s \in moved PROVE \E m \in migrations' : m.shard = s
  <2>1. PICK m : m = [shard |-> s, from |-> n, to |-> IF left = {} THEN 0 ELSE NewOwner(left, s)]
    OBVIOUS
  <2> QED BY <1>3, <2>1
<1>17. ASSUME NEW m \in migrations'
       PROVE  /\ m.shard \in moved /\ m.from = n
              /\ m.to \in nodes' \/ (nodes' = {} /\ m.to = 0)
              /\ nodes' # {} => shardOwners'[m.shard] = m.to
  <2>1. PICK s \in moved :
          m = [shard |-> s, from |-> n, to |-> IF left = {} THEN 0 ELSE NewOwner(left, s)]
    BY <1>3
  <2> QED BY <1>7, <1>8, <1>10, <2>1
<1> QED BY <1>2, <1>5, <1>12, <1>13, <1>14, <1>15, <1>16, <1>17
\* Whatever is done to the map, the invariant stays.
LEMMA MapNextOK ==
  ASSUME SInv, MapNext PROVE SInv'
<1>1. ASSUME NEW n \in NodeIds, AddNode(n) PROVE SInv'
  <2>1. RingOK' BY <1>1, AddRing
  <2>2. /\ OwnersOK' /\ DOMAIN shardOwners \subseteq DOMAIN shardOwners'
    BY <1>1, AddOwners
  <2>3. /\ UNCHANGED <<cleared, collectionShards>> /\ nextShardId \in Nat
        /\ nextShardId' = nextShardId + VirtualNodes /\ VirtualNodes \in Nat
    BY <1>1, ShardMapAssumption DEF AddNode, SInv, RingOK, ShardMapAssumption
  <2>4. RoutedOK' BY <2>2, <2>3 DEF SInv, RoutedOK
  <2> QED BY <2>1, <2>2, <2>4 DEF SInv
<1>2. ASSUME NEW n \in NodeIds, RemoveNode(n) PROVE SInv'
  <2>1. RingOK' /\ OwnersOK' BY <1>2, RemoveSteps
  <2>2. /\ UNCHANGED <<collectionShards, nextShardId>> /\ nextShardId \in Nat
        /\ cleared' \in {cleared, nextShardId}
    BY <1>2 DEF RemoveNode, SInv, RingOK
  <2>3. \A s \in DOMAIN shardOwners : s \notin DOMAIN shardOwners' => cleared' = nextShardId
    BY <1>2, RemoveSteps
  <2>4. RoutedOK'
    <3>1. cleared' \in Nat /\ cleared' <= nextShardId' BY <2>2 DEF SInv, RoutedOK
    <3>2. ASSUME NEW c \in Collections, NEW s \in collectionShards[c], s >= cleared'
          PROVE  s \in DOMAIN shardOwners'
      <4>1. s \in Nat /\ s < nextShardId /\ (s >= cleared => s \in DOMAIN shardOwners)
        BY DEF SInv, RoutedOK
      <4>2. cleared' # nextShardId BY <2>2, <3>1, <3>2, <4>1
      <4> QED BY <2>2, <2>3, <3>2, <4>1, <4>2
    <3> QED BY <2>2, <3>1, <3>2 DEF SInv, RoutedOK
  <2> QED BY <2>1, <2>4 DEF SInv
<1>3. ASSUME NEW c \in Collections, NEW id \in RecordIds, Route(c, id) PROVE SInv'
  <2>1. PICK s : s = ShardFor(ring, c, id) OBVIOUS
  <2>2. /\ collectionShards' = [collectionShards EXCEPT ![c] = @ \cup {s}] /\ ring # {}
        /\ UNCHANGED <<nodes, ring, shardOwners, nextShardId, cleared>>
    BY <1>3, <2>1 DEF Route
  <2>3. PICK e \in ring : s = e.shard
    BY <2>1, <2>2, SuccessorFalls DEF ShardFor, Falls, SInv, RingOK
  <2>4. s \in Nat /\ s < nextShardId /\ s \in DOMAIN shardOwners
    BY <2>3 DEF SInv, RingOK, OwnersOK, Entry
  <2>5. RingOK' /\ OwnersOK' BY <2>2 DEF SInv, RingOK, OwnersOK
  <2>6. RoutedOK' BY <2>2, <2>4 DEF SInv, RoutedOK
  <2> QED BY <2>5, <2>6 DEF SInv
<1>4. ASSUME NEW f \in Factors, SetReplicationFactor(f) PROVE SInv'
  BY <1>4 DEF SetReplicationFactor, SInv, RingOK, OwnersOK, RoutedOK
<1> QED BY <1>1, <1>2, <1>3, <1>4 DEF MapNext

\* The coordinator only reads the map, or builds it on.
LEMMA StepMap ==
  [ClusterNext]_clusterVars => MapNext \/ UNCHANGED <<nodes, ring, shardOwners, collectionShards,
                                       replicationFactor, nextShardId, cleared>>
BY DEF ClusterNext, Build, NewCoordinator, Seed, Execute, QueryStep, ScatterChunk, ShardAnswers,
       ShardFails, ShardDone, Gather, clusterVars, mapVars

LEMMA InvariantS == ClusterSpec => []SInv
<1>1. ClusterInit => SInv BY DEF ClusterInit, MapInit, SInv, RingOK, OwnersOK, RoutedOK
<1>2. SInv /\ [ClusterNext]_clusterVars => SInv'
  <2>1. SInv /\ UNCHANGED <<nodes, ring, shardOwners, collectionShards, nextShardId, cleared>> => SInv'
    BY DEF SInv, RingOK, OwnersOK, RoutedOK
  <2> QED BY <2>1, MapNextOK, StepMap
<1> QED BY <1>1, <1>2, PTL DEF ClusterSpec

\* leader_addr finds a registered owner for every shard a collection was routed
\* to since the ring was last empty, and the owner of a shard on the ring is
\* the node of its entry.
THEOREM ShardsOwnedHolds == ClusterSpec => []ShardsOwned
<1>1. SInv => ShardsOwned BY DEF SInv, OwnersOK, RoutedOK, ShardsOwned
<1> QED BY <1>1, InvariantS, PTL

\* A record changes its shard only with the node that joined or left.
THEOREM RingStabilityHolds == ClusterSpec => RingStability
<1> DEFINE Stable == \A c \in Collections : \A id \in RecordIds :
                       LET old == Successor(ring, KeyHash[c][id])
                           new == Successor(ring', KeyHash[c][id])
                       IN ring # {} /\ ring' # {} =>
                            old = new \/ new \notin ring \/ old \notin ring'
<1>1. SInv /\ SInv' /\ [ClusterNext]_clusterVars => [Stable]_mapVars
  <2> SUFFICES ASSUME SInv, SInv', [ClusterNext]_clusterVars, NEW c \in Collections, NEW id \in RecordIds,
                      ring # {}, ring' # {},
                      Successor(ring', KeyHash[c][id]) \in ring,
                      Successor(ring, KeyHash[c][id]) \in ring'
               PROVE  Successor(ring, KeyHash[c][id]) = Successor(ring', KeyHash[c][id])
    OBVIOUS
  <2>1. PICK h : h = KeyHash[c][id] OBVIOUS
  <2>2. h \in Nat BY <2>1, ShardMapAssumption DEF ShardMapAssumption
  <2>3. PICK after : after = ring' OBVIOUS
  <2>4. /\ ring \subseteq Entry /\ after \subseteq Entry
        /\ \A e, f \in ring : e.hash = f.hash => e = f
        /\ \A e, f \in after : e.hash = f.hash => e = f
    BY <2>3 DEF SInv, RingOK
  <2>5. Falls(ring, h, Successor(ring, h)) /\ Falls(after, h, Successor(after, h))
    BY <2>3, <2>4, SuccessorFalls
  <2>6. ring \subseteq after \/ after \subseteq ring
    BY <2>3, StepMap DEF MapNext, AddNode, RemoveNode, Route, SetReplicationFactor
  <2>7. Successor(after, h) \in ring /\ Successor(ring, h) \in after BY <2>1, <2>3
  <2>8. Successor(ring, h) = Successor(after, h) BY <2>2, <2>4, <2>5, <2>6, <2>7, FallsSame
  <2> QED BY <2>1, <2>3, <2>8
<1> QED BY <1>1, InvariantS, PTL DEF ClusterSpec, RingStability
\* What add_node and remove_node return is what they did to the owners.
THEOREM MigrationsExactHolds == ClusterSpec => MigrationsExact
<1> DEFINE Changed == {s \in DOMAIN shardOwners :
                         s \notin DOMAIN shardOwners' \/ shardOwners'[s] # shardOwners[s]}
           Exact == nodes' # nodes =>
             LET changed == {s \in DOMAIN shardOwners :
                               s \notin DOMAIN shardOwners' \/ shardOwners'[s] # shardOwners[s]}
             IN /\ {m.shard : m \in migrations'} = changed
                /\ \A m \in migrations' : /\ m.from = shardOwners[m.shard]
                                          /\ m.to \in nodes' \/ (nodes' = {} /\ m.to = 0)
                                          /\ nodes' # {} => shardOwners'[m.shard] = m.to
<1>1. SInv /\ [ClusterNext]_clusterVars => [Exact]_mapVars
  <2> SUFFICES ASSUME SInv, [ClusterNext]_clusterVars, nodes' # nodes
               PROVE  /\ {m.shard : m \in migrations'} = Changed
                      /\ \A m \in migrations' : /\ m.from = shardOwners[m.shard]
                                                /\ m.to \in nodes' \/ (nodes' = {} /\ m.to = 0)
                                                /\ nodes' # {} => shardOwners'[m.shard] = m.to
    OBVIOUS
  <2>1. ASSUME NEW n \in NodeIds, AddNode(n) PROVE migrations' = {} /\ Changed = {}
    BY <2>1, AddOwners
  <2>2. ASSUME NEW n \in NodeIds, RemoveNode(n)
        PROVE  /\ {m.shard : m \in migrations'} = Changed
               /\ \A m \in migrations' : /\ m.from = shardOwners[m.shard]
                                         /\ m.to \in nodes' \/ (nodes' = {} /\ m.to = 0)
                                         /\ nodes' # {} => shardOwners'[m.shard] = m.to
    <3>1. /\ \A s \in OwnedBy(n) : s \notin DOMAIN shardOwners' \/ shardOwners'[s] # n
          /\ \A s \in DOMAIN shardOwners \ OwnedBy(n) :
               s \in DOMAIN shardOwners' /\ shardOwners'[s] = shardOwners[s]
          /\ \A s \in OwnedBy(n) : \E m \in migrations' : m.shard = s
          /\ \A m \in migrations' :
               /\ m.shard \in OwnedBy(n) /\ m.from = n
               /\ m.to \in nodes' \/ (nodes' = {} /\ m.to = 0)
               /\ nodes' # {} => shardOwners'[m.shard] = m.to
      BY <2>2, RemoveSteps
    <3>2. \A s : s \in OwnedBy(n) <=> s \in DOMAIN shardOwners /\ shardOwners[s] = n BY DEF OwnedBy
    <3>3. Changed = OwnedBy(n) BY <3>1, <3>2
    <3>4. {m.shard : m \in migrations'} = OwnedBy(n) BY <3>1
    <3>5. \A m \in migrations' : m.from = shardOwners[m.shard] BY <3>1, <3>2
    <3> QED BY <3>1, <3>3, <3>4, <3>5
  <2>3. \E n \in NodeIds : AddNode(n) \/ RemoveNode(n)
    BY StepMap DEF MapNext, Route, SetReplicationFactor
  <2> QED BY <2>1, <2>2, <2>3
<1> QED BY <1>1, InvariantS, PTL DEF ClusterSpec, MigrationsExact
-----------------------------------------------------------------------------
(* A lookup goes where the write went                                      *)

\* Records are stored, by route_write, once the map is fixed.
StoredOK ==
  /\ DOMAIN data = Shards
  /\ phase = "build" => \A s \in Shards : data[s] = <<>>
  /\ \A s \in Shards : /\ data[s] \in Seq(RecordIds)
                       /\ \A id \in IdSet(data[s]) : \A c \in Collections : RouteWrite(c, id) = s

\* Of a lookup, the one shard that route_write names is asked, once.
AskedOK ==
  phase \in {"scatter", "answered"} /\ query.kind = "lookup" =>
    LET home == RouteWrite(query.collection, query.id)
    IN /\ query.collection \in Collections /\ query.id \in RecordIds
       /\ \/ phase = "scatter" /\ waiting = <<home>> /\ inflight = {} /\ DOMAIN results = {}
          \/ phase = "scatter" /\ waiting = <<>> /\ inflight = {home} /\ DOMAIN results = {}
          \/ /\ waiting = <<>> /\ inflight = {} /\ DOMAIN results = {home} /\ home \in Shards
             /\ results[home] \in {Failed, ExecuteOnShard(home, query)}
       /\ phase = "answered" => answer = Merged(query, results)

LInv == StoredOK /\ AskedOK

\* What the shards hold and where records belong is read from two variables.
LEMMA SameRoute ==
  ASSUME collectionShards' = collectionShards
  PROVE  \A c, id : RouteWrite(c, id)' = RouteWrite(c, id)
BY DEF RouteWrite, ShardsForCollection

LEMMA SameOutcome ==
  ASSUME data' = data
  PROVE  \A s, q : ExecuteOnShard(s, q)' = ExecuteOnShard(s, q)
BY DEF ExecuteOnShard

\* What a shard answers to a lookup.
LEMMA LookupOutcome ==
  ASSUME NEW s, NEW q, q.kind = "lookup"
  PROVE  /\ ExecuteOnShard(s, q).ok
         /\ ExecuteOnShard(s, q).records = IF q.id \in IdSet(data[s]) THEN <<q.id>> ELSE <<>>
BY DEF ExecuteOnShard

\* The shards that answered, and the records they sent.
Answered(outcome) == {s \in DOMAIN outcome : outcome[s].ok}
Sent(outcome) == UNION {IdSet(outcome[s].records) : s \in Answered(outcome)}

LEMMA LookupMerged ==
  ASSUME NEW q, NEW outcome, q.kind = "lookup"
  PROVE  /\ Merged(q, outcome).records =
              IF Sent(outcome) = {} THEN <<>> ELSE <<CHOOSE r \in Sent(outcome) : TRUE>>
         /\ Merged(q, outcome).failed = Cardinality(DOMAIN outcome \ Answered(outcome))
BY DEF Merged, Sent, Answered
\* Storing a record: nobody can have asked yet.
LEMMA SeedStores ==
  ASSUME LInv, \A c, d \in Collections : c = d,
         NEW c \in Collections, NEW id \in RecordIds, Seed(c, id)
  PROVE  LInv'
<1>1. PICK home : home = RouteWrite(c, id) OBVIOUS
<1>2. /\ phase = "serve" /\ data' = [data EXCEPT ![home] = Append(@, id)]
      /\ UNCHANGED <<collectionShards, phase, query, waiting, inflight, results, answer>>
  BY <1>1 DEF Seed, mapVars
<1>3. \A d, e : RouteWrite(d, e)' = RouteWrite(d, e) BY <1>2, SameRoute
<1>4. AskedOK' BY <1>2 DEF AskedOK
<1>5. DOMAIN data = Shards /\ \A s \in Shards : data[s] \in Seq(RecordIds) BY DEF LInv, StoredOK
<1>6. \A d \in Collections : RouteWrite(d, id) = home BY <1>1
<1>7. ASSUME NEW s \in Shards
      PROVE  /\ data'[s] \in Seq(RecordIds)
             /\ \A e \in IdSet(data'[s]) : \A d \in Collections : RouteWrite(d, e) = s
  <2>1. PICK old : old = data[s] OBVIOUS
  <2>2. old \in Seq(RecordIds) BY <1>5, <2>1
  <2>3. \A e \in IdSet(old) : \A d \in Collections : RouteWrite(d, e) = s BY <2>1 DEF LInv, StoredOK
  <2>4. CASE s = home
    <3>1. data'[s] = Append(old, id) BY <1>2, <1>5, <2>1, <2>4
    <3>2. PICK new : new = data'[s] OBVIOUS
    <3>3. new = Append(old, id) /\ new \in Seq(RecordIds) BY <2>2, <3>1, <3>2
    <3>4. \A e \in IdSet(new) : e = id \/ e \in IdSet(old) BY <2>2, <3>3 DEF IdSet, Range
    <3> QED BY <1>6, <2>3, <2>4, <3>2, <3>3, <3>4
  <2>5. CASE s # home
    <3>1. data'[s] = old BY <1>2, <1>5, <2>1, <2>5
    <3> QED BY <2>2, <2>3, <3>1
  <2> QED BY <2>4, <2>5
<1>8. StoredOK' BY <1>2, <1>3, <1>5, <1>7 DEF StoredOK, Shards
<1> QED BY <1>4, <1>8 DEF LInv

\* The rest leaves the records where they are; while the map is built there are none.
LEMMA StoredStays ==
  ASSUME StoredOK, UNCHANGED data, phase' = "build" \/ UNCHANGED collectionShards,
         phase' = "build" => phase = "build"
  PROVE  StoredOK'
<1>1. CASE phase' = "build"
  <2>1. phase = "build" BY <1>1
  <2>2. \A s \in Shards : data[s] = <<>> BY <2>1 DEF StoredOK
  <2>3. \A s \in Shards : IdSet(data[s]) = {} BY <2>2 DEF IdSet, Range
  <2> QED BY <1>1, <2>2, <2>3 DEF StoredOK, Shards
<1>2. CASE phase' # "build"
  <2>1. \A c, id : RouteWrite(c, id)' = RouteWrite(c, id) BY <1>2, SameRoute
  <2> QED BY <1>2, <2>1 DEF StoredOK, Shards
<1> QED BY <1>1, <1>2

LEMMA ExecuteAsks ==
  ASSUME LInv, NEW q \in Queries, Execute(q)
  PROVE  LInv'
<1>1. /\ phase' = "scatter" /\ query' = q /\ waiting' = Targets(q) /\ inflight' = {}
      /\ results' = [s \in {} |-> Failed] /\ UNCHANGED <<data, collectionShards>>
  BY DEF Execute, mapVars
<1>2. StoredOK' BY <1>1, StoredStays DEF LInv
<1>3. \A c, id : RouteWrite(c, id)' = RouteWrite(c, id) BY <1>1, SameRoute
<1>4. ASSUME q.kind = "lookup"
      PROVE  /\ q.collection \in Collections /\ q.id \in RecordIds
             /\ waiting' = <<RouteWrite(q.collection, q.id)>>
  BY <1>1, <1>4 DEF Queries, Targets
<1>5. AskedOK' BY <1>1, <1>3, <1>4 DEF AskedOK
<1> QED BY <1>2, <1>5 DEF LInv

LEMMA ScatterAsks ==
  ASSUME LInv, ScatterChunk
  PROVE  LInv'
<1>1. /\ phase = "scatter" /\ inflight = {} /\ waiting # <<>>
      /\ inflight' = Range(Truncate(waiting, MaxConcurrentShards))
      /\ waiting' = SubSeq(waiting, MaxConcurrentShards + 1, Len(waiting))
      /\ UNCHANGED <<collectionShards, phase, data, query, results, answer>>
  BY DEF ScatterChunk, mapVars
<1>2. StoredOK' BY <1>1, StoredStays DEF LInv
<1>3. \A c, id : RouteWrite(c, id)' = RouteWrite(c, id) BY <1>1, SameRoute
<1>4. ASSUME query.kind = "lookup"
      PROVE  LET home == RouteWrite(query.collection, query.id)
             IN /\ query.collection \in Collections /\ query.id \in RecordIds
                /\ waiting' = <<>> /\ inflight' = {home} /\ DOMAIN results = {}
  <2>1. PICK home : home = RouteWrite(query.collection, query.id) OBVIOUS
  <2>2. /\ query.collection \in Collections /\ query.id \in RecordIds
        /\ waiting = <<home>> /\ DOMAIN results = {}
    BY <1>1, <1>4, <2>1 DEF LInv, AskedOK
  <2>3. MaxConcurrentShards \in Nat \ {0} BY DistQueryAssumption DEF DistQueryAssumption
  <2>4. Truncate(<<home>>, MaxConcurrentShards) = <<home>>
    <3>1. (IF MaxConcurrentShards < 1 THEN MaxConcurrentShards ELSE 1) = 1 BY <2>3
    <3>2. SubSeq(<<home>>, 1, 1) = <<home>>
      <4>1. PICK part : part = SubSeq(<<home>>, 1, 1) OBVIOUS
      <4>2. part \in Seq({home}) /\ Len(part) = 1 /\ part[1] = home BY <4>1
      <4>3. part = <<home>> BY <4>2
      <4> QED BY <4>1, <4>3
    <3> QED BY <3>1, <3>2 DEF Truncate
  <2>5. SubSeq(<<home>>, MaxConcurrentShards + 1, 1) = <<>> BY <2>3
  <2>6. Range(<<home>>) = {home} BY DEF Range
  <2> QED BY <1>1, <2>1, <2>2, <2>4, <2>5, <2>6
<1>5. AskedOK' BY <1>1, <1>3, <1>4 DEF AskedOK
<1> QED BY <1>2, <1>5 DEF LInv

LEMMA ShardDoneAsked ==
  ASSUME LInv, NEW s \in Shards, NEW outcome, outcome \in {Failed, ExecuteOnShard(s, query)},
         ShardDone(s, outcome)
  PROVE  LInv'
<1>1. /\ phase = "scatter" /\ s \in inflight /\ inflight' = inflight \ {s}
      /\ results' = [t \in DOMAIN results \cup {s} |-> IF t = s THEN outcome ELSE results[t]]
      /\ UNCHANGED <<collectionShards, phase, data, query, waiting, answer>>
  BY DEF ShardDone, mapVars
<1>2. StoredOK' BY <1>1, StoredStays DEF LInv
<1>3. \A c, id : RouteWrite(c, id)' = RouteWrite(c, id) BY <1>1, SameRoute
<1>4. \A t, q : ExecuteOnShard(t, q)' = ExecuteOnShard(t, q) BY <1>1, SameOutcome
<1>5. ASSUME query.kind = "lookup"
      PROVE  LET home == RouteWrite(query.collection, query.id)
             IN /\ query.collection \in Collections /\ query.id \in RecordIds
                /\ waiting = <<>> /\ inflight' = {} /\ DOMAIN results' = {home} /\ home \in Shards
                /\ results'[home] = outcome /\ home = s
  BY <1>1, <1>5 DEF LInv, AskedOK
<1>6. AskedOK' BY <1>1, <1>3, <1>4, <1>5 DEF AskedOK
<1> QED BY <1>2, <1>6 DEF LInv

LEMMA GatherAnswers ==
  ASSUME LInv, Gather
  PROVE  LInv'
<1>1. /\ phase = "scatter" /\ inflight = {} /\ waiting = <<>> /\ phase' = "answered"
      /\ answer' = Merged(query, results)
      /\ UNCHANGED <<collectionShards, data, query, waiting, inflight, results>>
  BY DEF Gather, mapVars
<1>2. StoredOK' BY <1>1, StoredStays DEF LInv
<1>3. \A c, id : RouteWrite(c, id)' = RouteWrite(c, id) BY <1>1, SameRoute
<1>4. \A t, q : ExecuteOnShard(t, q)' = ExecuteOnShard(t, q) BY <1>1, SameOutcome
<1>5. PICK merged : merged = Merged(query, results) OBVIOUS
<1>6. ASSUME query.kind = "lookup"
      PROVE  LET home == RouteWrite(query.collection, query.id)
             IN /\ query.collection \in Collections /\ query.id \in RecordIds
                /\ DOMAIN results = {home} /\ home \in Shards
                /\ results[home] \in {Failed, ExecuteOnShard(home, query)}
  BY <1>1, <1>6 DEF LInv, AskedOK
<1>7. Merged(query, results)' = merged BY <1>1, <1>5 DEF Merged
<1>8. AskedOK' BY <1>1, <1>3, <1>4, <1>5, <1>6, <1>7 DEF AskedOK
<1> QED BY <1>2, <1>8 DEF LInv
LEMMA InvariantL ==
  ASSUME \A c, d \in Collections : c = d
  PROVE  ClusterSpec => []LInv
<1>1. ClusterInit => LInv
  <2>1. ClusterInit => phase = "build" /\ DOMAIN data = Shards /\ \A s \in Shards : data[s] = <<>>
    BY DEF ClusterInit
  <2>2. IdSet(<<>>) = {} /\ <<>> \in Seq(RecordIds) BY DEF IdSet, Range
  <2>3. ClusterInit => StoredOK
    <3> SUFFICES ASSUME ClusterInit PROVE StoredOK OBVIOUS
    <3>1. ASSUME NEW s \in Shards PROVE data[s] \in Seq(RecordIds) /\ IdSet(data[s]) = {}
      BY <2>1, <2>2
    <3> QED BY <2>1, <3>1 DEF StoredOK
  <2> QED BY <2>1, <2>3 DEF LInv, AskedOK
<1>2. LInv /\ [ClusterNext]_clusterVars => LInv'
  <2> SUFFICES ASSUME LInv, [ClusterNext]_clusterVars PROVE LInv' OBVIOUS
  <2>1. CASE Build
    <3>1. phase = "build" /\ UNCHANGED <<phase, data>> BY <2>1 DEF Build, queryVars
    <3>2. StoredOK' BY <3>1, StoredStays DEF LInv
    <3> QED BY <3>1, <3>2 DEF LInv, AskedOK
  <2>2. CASE NewCoordinator
    <3>1. phase' = "serve" /\ UNCHANGED <<collectionShards, data>> BY <2>2 DEF NewCoordinator
    <3>2. StoredOK' BY <3>1, StoredStays DEF LInv
    <3> QED BY <3>1, <3>2 DEF LInv, AskedOK
  <2>3. ASSUME NEW c \in Collections, NEW id \in RecordIds, Seed(c, id) PROVE LInv'
    BY <2>3, SeedStores
  <2>4. ASSUME NEW q \in Queries, Execute(q) PROVE LInv' BY <2>4, ExecuteAsks
  <2>5. CASE ScatterChunk BY <2>5, ScatterAsks
  <2>6. ASSUME NEW s \in Shards, ShardAnswers(s) \/ ShardFails(s) PROVE LInv'
    BY <2>6, ShardDoneAsked DEF ShardAnswers, ShardFails
  <2>7. CASE Gather BY <2>7, GatherAnswers
  <2>8. CASE UNCHANGED clusterVars
    <3>1. UNCHANGED <<collectionShards, phase, data, query, waiting, inflight, results, answer>>
      BY <2>8 DEF clusterVars, mapVars, queryVars
    <3>2. StoredOK' BY <3>1, StoredStays DEF LInv
    <3>3. \A c, id : RouteWrite(c, id)' = RouteWrite(c, id) BY <3>1, SameRoute
    <3>4. \A t, q : ExecuteOnShard(t, q)' = ExecuteOnShard(t, q) BY <3>1, SameOutcome
    <3>5. PICK merged : merged = Merged(query, results) OBVIOUS
    <3>6. Merged(query, results)' = merged BY <3>1, <3>5 DEF Merged
    <3>7. AskedOK' BY <3>1, <3>3, <3>4, <3>5, <3>6 DEF LInv, AskedOK
    <3> QED BY <3>2, <3>7 DEF LInv
  <2> QED BY <2>1, <2>2, <2>3, <2>4, <2>5, <2>6, <2>7, <2>8 DEF ClusterNext, QueryStep
<1> QED BY <1>1, <1>2, PTL DEF ClusterSpec

\* A lookup asks the shard that the write went to: it finds a record that was
\* written if the shard answers, and nothing otherwise (execute, route_write,
\* merge).  The model's shards do not record the collection of a record, so an
\* id belongs to the only collection there is.
THEOREM LookupFindsWriteHolds ==
  ASSUME \A c, d \in Collections : c = d
  PROVE  ClusterSpec => []LookupFindsWrite
<1>1. LInv => LookupFindsWrite
  <2> SUFFICES ASSUME LInv, phase = "answered", query.kind = "lookup"
               PROVE  (answer.records = <<query.id>>) =
                        (answer.failed = 0 /\ \E s \in DOMAIN data : query.id \in IdSet(data[s]))
    BY DEF LookupFindsWrite
  <2>1. PICK home : home = RouteWrite(query.collection, query.id) OBVIOUS
  <2>2. /\ query.collection \in Collections /\ DOMAIN results = {home} /\ home \in Shards
        /\ results[home] \in {Failed, ExecuteOnShard(home, query)}
        /\ answer = Merged(query, results)
    BY <2>1 DEF LInv, AskedOK
  <2>3. PICK ok : ok = Answered(results) OBVIOUS
  <2>4. PICK records : records = Sent(results) OBVIOUS
  <2>5. /\ answer.records = IF records = {} THEN <<>> ELSE <<CHOOSE r \in records : TRUE>>
        /\ answer.failed = Cardinality(DOMAIN results \ ok)
    BY <2>2, <2>3, <2>4, LookupMerged
  <2>6. (\E s \in DOMAIN data : query.id \in IdSet(data[s])) <=> query.id \in IdSet(data[home])
    BY <2>1, <2>2 DEF LInv, StoredOK
  <2>7. CASE results[home] = Failed
    <3>1. ok = {} BY <2>2, <2>3, <2>7 DEF Failed, Answered
    <3>2. records = {} BY <2>3, <2>4, <3>1 DEF Sent
    <3>3. DOMAIN results \ ok = {home} BY <2>2, <3>1
    <3>4. answer.failed = 1 BY <2>5, <3>3, FS_Singleton
    <3>5. answer.records = <<>> BY <2>5, <3>2
    <3>6. <<>> # <<query.id>> OBVIOUS
    <3> QED BY <3>4, <3>5, <3>6
  <2>8. CASE results[home] = ExecuteOnShard(home, query)
    <3>1. /\ results[home].ok
          /\ results[home].records = IF query.id \in IdSet(data[home]) THEN <<query.id>> ELSE <<>>
      BY <2>8, LookupOutcome
    <3>2. ok = {home} BY <2>2, <2>3, <3>1 DEF Answered
    <3>3. DOMAIN results \ ok = {} BY <2>2, <3>2
    <3>4. answer.failed = 0 BY <2>5, <3>3, FS_EmptySet
    <3>5. records = IdSet(results[home].records) BY <2>3, <2>4, <3>2 DEF Sent
    <3>6. IdSet(<<query.id>>) = {query.id} /\ IdSet(<<>>) = {} BY DEF IdSet, Range
    <3>7. CASE query.id \in IdSet(data[home])
      <4>1. records = {query.id} BY <3>1, <3>5, <3>6, <3>7
      <4>2. (CHOOSE r \in {query.id} : TRUE) = query.id OBVIOUS
      <4>3. answer.records = <<query.id>> BY <2>5, <4>1, <4>2
      <4> QED BY <2>6, <3>4, <3>7, <4>3
    <3>8. CASE query.id \notin IdSet(data[home])
      <4>1. records = {} BY <3>1, <3>5, <3>6, <3>8
      <4>2. answer.records = <<>> BY <2>5, <4>1
      <4>3. <<>> # <<query.id>> OBVIOUS
      <4> QED BY <2>6, <3>8, <4>2, <4>3
    <3> QED BY <3>7, <3>8
  <2> QED BY <2>2, <2>7, <2>8
<1> QED BY <1>1, InvariantL, PTL
-----------------------------------------------------------------------------
(* Replication groups                                                      *)

\* The entries of the ring that come before e.
Earlier(S, e) == {f \in S : f.hash < e.hash}

\* The Vec of the ring: every entry at one place.
LEMMA SortedRing ==
  ASSUME NEW S, S \subseteq Entry, IsFiniteSet(S), \A e, f \in S : e.hash = f.hash => e = f,
         NEW before, before = [e \in S |-> Earlier(S, e)]
  PROVE  /\ ByRank(S, before) \in [1 .. Cardinality(S) -> S]
         /\ \A e \in S : \E i \in 1 .. Cardinality(S) : ByRank(S, before)[i] = e
<1>1. \A e \in S : e.hash \in Nat BY DEF Entry
<1>2. /\ before \in [S -> SUBSET S]
      /\ \A x, y \in S : x \in before[y] <=> x.hash < y.hash
  BY DEF Earlier
<1>3. Orders(before, S) BY <1>1, <1>2 DEF Orders
<1>4. ByRank(S, before) \in [1 .. Cardinality(S) -> S] BY <1>3, Ranked
<1>5. \A e \in S : \E i \in 1 .. Cardinality(S) : ByRank(S, before)[i] = e BY <1>3, Ranked
<1> QED BY <1>4, <1>5

\* A place after the start of a walk around a ring of N places.
LEMMA Around ==
  ASSUME NEW N \in Nat, NEW x \in 0 .. 2 * N - 1
  PROVE  x % N = IF x < N THEN x ELSE x - N
OBVIOUS

\* Walking around the ring from a node one meets all the others.
LEMMA WalkMeets ==
  ASSUME RingOK, IsFiniteSet(ring), NEW n \in nodes
  PROVE  /\ Walk(n) \in Seq(nodes)
         /\ Range(Walk(n)) \cup {n} = nodes
<1> DEFINE sorted == [i \in 1 .. Cardinality(ring) |->
                        CHOOSE x \in ring : Cardinality(Earlier(ring, x)) = i - 1]
           N == Len(sorted)
           First(i) == sorted[i].node = n /\ \A j \in 1 .. i - 1 : sorted[j].node # n
           start == CHOOSE i \in 1 .. N : First(i)
           w == [i \in 1 .. N - 1 |-> sorted[((start - 1 + i) % N) + 1].node]
<1>1. Walk(n) = w BY DEF Walk, InOrder, Earlier
<1>2. /\ sorted \in [1 .. Cardinality(ring) -> ring]
      /\ \A e \in ring : \E i \in 1 .. Cardinality(ring) : sorted[i] = e
  <2>1. ring \subseteq Entry /\ \A e, f \in ring : e.hash = f.hash => e = f BY DEF RingOK
  <2>2. PICK before : before = [e \in ring |-> Earlier(ring, e)] OBVIOUS
  <2>3. sorted = ByRank(ring, before) BY <2>2 DEF ByRank
  <2>4. /\ ByRank(ring, before) \in [1 .. Cardinality(ring) -> ring]
        /\ \A e \in ring : \E i \in 1 .. Cardinality(ring) : ByRank(ring, before)[i] = e
    BY <2>1, <2>2, SortedRing
  <2> HIDE DEF sorted
  <2> QED BY <2>3, <2>4
<1>3. Cardinality(ring) \in Nat BY FS_CardinalityType
<1> HIDE DEF sorted
<1>4. N = Cardinality(ring) BY <1>2, <1>3
<1>5. /\ sorted \in [1 .. N -> ring] /\ N \in Nat
      /\ \A e \in ring : \E i \in 1 .. N : sorted[i] = e
  BY <1>2, <1>3, <1>4
<1> HIDE DEF N
<1>6. start \in 1 .. N /\ First(start)
  <2>1. PICK T : T = {i \in 1 .. N : sorted[i].node = n} OBVIOUS
  <2>2. T \subseteq Nat /\ T # {}
    <3>1. PICK e \in ring : e.node = n BY DEF RingOK
    <3>2. PICK i \in 1 .. N : sorted[i] = e BY <1>5, <3>1
    <3> QED BY <1>5, <2>1, <3>1, <3>2
  <2>3. PICK i \in T : \A j \in T : i <= j BY <2>2, LeastNat
  <2>4. i \in 1 .. N /\ First(i) BY <1>5, <2>1, <2>3
  <2> HIDE DEF First
  <2> QED BY <2>4
<1>7. sorted[start].node = n BY <1>6
<1>8. start \in 1 .. N BY <1>6
<1> HIDE DEF start
<1>9. ASSUME NEW i \in 1 .. N - 1
      PROVE  ((start - 1 + i) % N) + 1 \in 1 .. N
  <2>1. PICK x : x = start - 1 + i OBVIOUS
  <2>2. x \in 0 .. 2 * N - 1 BY <1>5, <1>8, <2>1
  <2>3. x % N = IF x < N THEN x ELSE x - N BY <1>5, <2>2, Around
  <2>4. (x % N) + 1 \in 1 .. N BY <1>5, <2>2, <2>3
  <2> QED BY <2>1, <2>4
<1>10. \A i \in 1 .. N - 1 : w[i] \in nodes BY <1>5, <1>9 DEF RingOK
<1>11. N - 1 \in Nat BY <1>5, <1>8
<1>12. w \in Seq(nodes) /\ Range(w) \subseteq nodes
  <2>1. w = [i \in 1 .. N - 1 |-> w[i]] OBVIOUS
  <2> HIDE DEF w
  <2>2. w \in [1 .. N - 1 -> nodes] BY <1>10, <2>1
  <2> QED BY <1>11, <2>2 DEF Range
<1>13. ASSUME NEW m \in nodes, m # n PROVE m \in Range(w)
  <2>1. PICK p \in 1 .. N : sorted[p].node = m BY <1>5 DEF RingOK
  <2>2. p # start BY <1>7, <1>13, <2>1
  <2>3. PICK i : i = IF start < p THEN p - start ELSE N + p - start OBVIOUS
  <2>4. i \in 1 .. N - 1 BY <1>5, <1>8, <2>2, <2>3
  <2>5. PICK x : x = start - 1 + i OBVIOUS
  <2>6. x = (IF start < p THEN p - 1 ELSE N + p - 1) /\ x \in 0 .. 2 * N - 1
    BY <1>5, <1>8, <2>3, <2>5
  <2>7. x % N = p - 1
    <3>1. x % N = IF x < N THEN x ELSE x - N BY <1>5, <2>6, Around
    <3> QED BY <1>5, <1>8, <2>6, <3>1
  <2>8. ((start - 1 + i) % N) + 1 = p BY <2>5, <2>7
  <2>9. w[i] = m BY <2>1, <2>4, <2>8
  <2>10. DOMAIN w = 1 .. N - 1 OBVIOUS
  <2> HIDE DEF w
  <2> QED BY <2>4, <2>9, <2>10 DEF Range
<1> HIDE DEF w
<1> QED BY <1>1, <1>12, <1>13
\* The walk takes the nodes it has not met until there are enough: what it has
\* found after k places are different nodes, not the leader, and all it met
\* unless there are enough.
Found(walk, k, leader, s) ==
  LET met == {walk[i] : i \in 1 .. k} \ {leader}
  IN /\ s \in Seq(met)
     /\ IsFiniteSet(Range(s)) /\ Cardinality(Range(s)) = Len(s)
     /\ Len(s) <= replicationFactor - 1
     /\ Len(s) < replicationFactor - 1 => Range(s) = met

LEMMA FoundNext ==
  ASSUME NEW M, NEW s \in Seq(M), NEW m,
         IsFiniteSet(Range(s)), Cardinality(Range(s)) = Len(s), m \notin Range(s)
  PROVE  /\ Append(s, m) \in Seq(M \cup {m})
         /\ Range(Append(s, m)) = Range(s) \cup {m}
         /\ IsFiniteSet(Range(Append(s, m)))
         /\ Cardinality(Range(Append(s, m))) = Len(Append(s, m))
         /\ Len(Append(s, m)) = Len(s) + 1
<1>1. s \in Seq(M \cup {m}) /\ Len(s) \in Nat OBVIOUS
<1>2. PICK t : t = Append(s, m) OBVIOUS
<1>3. t \in Seq(M \cup {m}) /\ Len(t) = Len(s) + 1 BY <1>1, <1>2
<1>4. Range(t) = Range(s) \cup {m}
  <2>1. /\ DOMAIN t = 1 .. Len(s) + 1 /\ DOMAIN s = 1 .. Len(s)
        /\ \A i \in 1 .. Len(s) : t[i] = s[i]
        /\ t[Len(s) + 1] = m
    BY <1>1, <1>2
  <2>2. \A i \in 1 .. Len(s) + 1 : i \in 1 .. Len(s) \/ i = Len(s) + 1 BY <1>1
  <2>3. Len(s) + 1 \in 1 .. Len(s) + 1 /\ \A i \in 1 .. Len(s) : i \in 1 .. Len(s) + 1 BY <1>1
  <2> QED BY <2>1, <2>2, <2>3 DEF Range
<1>5. IsFiniteSet(Range(t)) /\ Cardinality(Range(t)) = Cardinality(Range(s)) + 1
  BY <1>4, FS_AddElement
<1> QED BY <1>2, <1>3, <1>4, <1>5

\* The followers of a leader: different nodes, as many as the factor asks for or
\* all.
LEMMA FollowersFound ==
  ASSUME RingOK, IsFiniteSet(ring), NEW n \in nodes, replicationFactor \in Nat,
         replicationFactor > 1, Cardinality(ring) > 1
  PROVE  Found(Walk(n), Len(Walk(n)), n, Followers(n))
<1>1. PICK w : w = Walk(n) OBVIOUS
<1>2. w \in Seq(nodes) BY <1>1, WalkMeets
<1> DEFINE N == Len(w)
           S == Seq(nodes)
           Take(s, m) == IF Len(s) < replicationFactor - 1 /\ m \notin Range(s) \cup {n}
                         THEN Append(s, m) ELSE s
           f == [x \in S \X (1 .. N) |-> Take(x[1], w[x[2]])]
           Step(g) == [k \in 0 .. N |-> IF k = 0 THEN <<>> ELSE Take(g[k - 1], w[k])]
           found == CHOOSE g : g = Step(g)
<1>3. N \in Nat /\ <<>> \in S /\ \A k \in 1 .. N : w[k] \in nodes BY <1>2
<1>4. ASSUME NEW s \in S, NEW k \in 1 .. N
      PROVE  f[<<s, k>>] = Take(s, w[k]) /\ f[<<s, k>>] \in S
  <2>1. Append(s, w[k]) \in S BY <1>3
  <2>2. Take(s, w[k]) \in S BY <2>1
  <2> HIDE DEF Take, S
  <2> QED BY <2>2
<1> HIDE DEF Take
<1>5. f \in [S \X (1 .. N) -> S]
  <2>1. \A x \in S \X (1 .. N) : Take(x[1], w[x[2]]) \in S
    <3> SUFFICES ASSUME NEW x \in S \X (1 .. N) PROVE Take(x[1], w[x[2]]) \in S
      OBVIOUS
    <3>1. x[1] \in S /\ x[2] \in 1 .. N /\ x = <<x[1], x[2]>> OBVIOUS
    <3>2. f[<<x[1], x[2]>>] = Take(x[1], w[x[2]]) /\ f[<<x[1], x[2]>>] \in S
      <4> HIDE DEF f, S
      <4> QED BY <1>4, <3>1
    <3> QED BY <3>2
  <2> HIDE DEF S
  <2> QED BY <2>1
<1>6. PICK g \in [0 .. N -> S] : Iterates(g, N, <<>>, f)
  <2> HIDE DEF f, S, N
  <2> QED BY <1>3, <1>5, Iterate
<1>7. g = Step(g)
  <2>1. g[0] = Step(g)[0] BY <1>3, <1>6 DEF Iterates
  <2>2. ASSUME NEW k \in 1 .. N PROVE g[k] = Step(g)[k]
    <3>1. k \in 0 .. N /\ k - 1 \in 0 .. N /\ k # 0 BY <1>3
    <3>2. g[k] = f[<<g[k - 1], k>>] BY <1>6 DEF Iterates
    <3>3. g[k - 1] \in S BY <3>1
    <3>4. f[<<g[k - 1], k>>] = Take(g[k - 1], w[k])
      <4> HIDE DEF f, S
      <4> QED BY <1>4, <3>3
    <3> QED BY <3>1, <3>2, <3>4
  <2>3. \A k \in 0 .. N : k = 0 \/ k \in 1 .. N BY <1>3
  <2>4. \A k \in 0 .. N : g[k] = Step(g)[k] BY <2>1, <2>2, <2>3
  <2>5. DOMAIN g = 0 .. N /\ DOMAIN Step(g) = 0 .. N OBVIOUS
  <2> HIDE DEF Step
  <2> QED BY <2>4, <2>5
<1>8. found = Step(found)
  <2> HIDE DEF Step
  <2> QED BY <1>7, Zenon
<1>9. Followers(n) = found[N]
  BY <1>1 DEF Followers, Take
<1> HIDE DEF found
<1>10. found[0] = <<>> BY <1>3, <1>8
<1>11. ASSUME NEW k \in 1 .. N PROVE found[k] = Take(found[k - 1], w[k])
  <2>1. k \in 0 .. N /\ k # 0 BY <1>3
  <2>2. found[k] = Step(found)[k] BY <1>8, Zenon
  <2> QED BY <2>1, <2>2
<1> DEFINE T == {k \in 0 .. N : Found(w, k, n, found[k])}
<1>12. 0 \in T
  <2>1. {w[i] : i \in 1 .. 0} \ {n} = {} OBVIOUS
  <2>2. PICK e : e = <<>> OBVIOUS
  <2>3. Range(e) = {} /\ Len(e) = 0 /\ e \in Seq({}) BY <2>2 DEF Range
  <2>4. Found(w, 0, n, e) BY <2>1, <2>3, FS_EmptySet DEF Found
  <2> QED BY <1>3, <1>10, <2>2, <2>4
<1>13. ASSUME NEW k \in 0 .. N - 1, k \in T PROVE k + 1 \in T
  <2>1. k + 1 \in 1 .. N /\ k + 1 \in 0 .. N /\ (k + 1) - 1 = k BY <1>3
  <2>2. PICK s : s = found[k] OBVIOUS
  <2>3. PICK m : m = w[k + 1] OBVIOUS
  <2>4. PICK M : M = {w[i] : i \in 1 .. k} \ {n} OBVIOUS
  <2>5. PICK K : K = {w[i] : i \in 1 .. k + 1} \ {n} OBVIOUS
  <2>6. found[k + 1] = Take(s, m)
    <3>1. found[k + 1] = Take(found[(k + 1) - 1], w[k + 1]) BY <1>11, <2>1, Zenon
    <3> QED BY <2>1, <2>2, <2>3, <3>1
  <2>7. /\ s \in Seq(M) /\ IsFiniteSet(Range(s)) /\ Cardinality(Range(s)) = Len(s)
        /\ Len(s) <= replicationFactor - 1
        /\ Len(s) < replicationFactor - 1 => Range(s) = M
    BY <1>13, <2>2, <2>4 DEF Found
  <2>8. K = (M \cup {m}) \ {n}
    <3>1. \A i \in 1 .. k + 1 : i \in 1 .. k \/ i = k + 1 BY <2>1
    <3>2. k + 1 \in 1 .. k + 1 /\ \A i \in 1 .. k : i \in 1 .. k + 1 BY <2>1
    <3> QED BY <2>3, <2>4, <2>5, <3>1, <3>2
  <2>9. M \subseteq K BY <2>4, <2>8
  <2>10. s \in Seq(K) BY <2>7, <2>9
  <2>11. Found(w, k + 1, n, Take(s, m))
    <3>1. CASE Len(s) < replicationFactor - 1 /\ m \notin Range(s) \cup {n}
      <4>1. Take(s, m) = Append(s, m) BY <3>1 DEF Take
      <4>2. PICK t : t = Append(s, m) OBVIOUS
      <4>3. n \notin M /\ m # n /\ K = M \cup {m} BY <2>4, <2>8, <3>1
      <4>4. m \notin Range(s) BY <3>1
      <4>5. /\ t \in Seq(M \cup {m}) /\ Range(t) = Range(s) \cup {m}
            /\ IsFiniteSet(Range(t)) /\ Cardinality(Range(t)) = Len(t) /\ Len(t) = Len(s) + 1
        BY <2>7, <4>2, <4>4, FoundNext
      <4>6. Len(s) \in Nat BY <2>7
      <4>7. Len(t) <= replicationFactor - 1 BY <3>1, <4>5, <4>6
      <4>8. Range(t) = K BY <2>7, <3>1, <4>3, <4>5
      <4>9. t \in Seq(K) BY <4>3, <4>5
      <4> QED BY <2>5, <4>1, <4>2, <4>5, <4>7, <4>8, <4>9 DEF Found
    <3>2. CASE ~(Len(s) < replicationFactor - 1)
      <4>1. Take(s, m) = s BY <3>2 DEF Take
      <4> QED BY <2>5, <2>7, <2>10, <3>2, <4>1 DEF Found
    <3>3. CASE Len(s) < replicationFactor - 1 /\ m \in Range(s) \cup {n}
      <4>1. Take(s, m) = s BY <3>3 DEF Take
      <4>2. Range(s) = M BY <2>7, <3>3
      <4>3. K = M BY <2>4, <2>8, <3>3, <4>2
      <4> QED BY <2>5, <2>7, <2>10, <4>1, <4>2, <4>3 DEF Found
    <3> QED BY <3>1, <3>2, <3>3
  <2> QED BY <2>1, <2>6, <2>11
<1>14. Found(w, N, n, found[N])
  <2>1. 0 .. N \subseteq T
    <3> HIDE DEF T, N
    <3> QED BY <1>3, <1>12, <1>13, UpTo
  <2>2. N \in 0 .. N BY <1>3
  <2> QED BY <2>1, <2>2
<1> QED BY <1>1, <1>9, <1>14
\* The ring is finite and the factor a number; every node has an entry.
LEMMA InvariantG == ClusterSpec => [](IsFiniteSet(ring) /\ replicationFactor \in Nat)
<1> DEFINE Fin == IsFiniteSet(ring) /\ replicationFactor \in Nat
<1>1. ClusterInit => Fin BY FS_EmptySet DEF ClusterInit, MapInit
<1>2. Fin /\ [ClusterNext]_clusterVars => Fin'
  <2> SUFFICES ASSUME Fin, [ClusterNext]_clusterVars PROVE Fin'
    OBVIOUS
  <2>1. ASSUME NEW n \in NodeIds, AddNode(n) PROVE Fin'
    <3>1. PICK R : R = 0 .. VirtualNodes - 1 OBVIOUS
    <3>2. PICK E : E = {[hash |-> RingHash[n][r], node |-> n, shard |-> nextShardId + r] : r \in R}
      OBVIOUS
    <3>3. IsFiniteSet(R) BY <3>1, FS_Interval, ShardMapAssumption
    <3>4. IsFiniteSet(E)
      <4>1. PICK g : g = [r \in R |-> [hash |-> RingHash[n][r], node |-> n, shard |-> nextShardId + r]]
        OBVIOUS
      <4>2. g \in [R -> E] BY <3>2, <4>1
      <4>3. \A e \in E : \E r \in R : g[r] = e BY <3>2, <4>1
      <4>4. g \in Surjection(R, E) BY <4>2, <4>3 DEF Surjection
      <4> QED BY <3>3, <4>4, FS_Surjection
    <3>5. ring' = ring \cup E /\ replicationFactor' = replicationFactor
      BY <2>1, <3>1, <3>2 DEF AddNode
    <3> QED BY <3>4, <3>5, FS_Union
  <2>2. ASSUME NEW n \in NodeIds, RemoveNode(n) PROVE Fin'
    <3>1. ring' \subseteq ring /\ replicationFactor' = replicationFactor BY <2>2 DEF RemoveNode
    <3> QED BY <3>1, FS_Subset
  <2>3. ASSUME NEW c \in Collections, NEW id \in RecordIds, Route(c, id) PROVE Fin'
    BY <2>3 DEF Route
  <2>4. ASSUME NEW f \in Factors, SetReplicationFactor(f) PROVE Fin'
    BY <2>4, ShardMapAssumption DEF SetReplicationFactor
  <2>5. CASE UNCHANGED <<ring, replicationFactor>> BY <2>5
  <2> HIDE DEF Fin
  <2> QED BY <2>1, <2>2, <2>3, <2>4, <2>5, StepMap DEF MapNext
<1> QED BY <1>1, <1>2, PTL DEF ClusterSpec

\* A replication group has as many registered members as the factor asks for, or
\* all nodes if there are fewer, wherever the walk starts and however the
\* entries of the nodes alternate on the ring.
THEOREM GroupsCompleteHolds == ClusterSpec => []GroupsComplete
<1>1. SInv /\ IsFiniteSet(ring) /\ replicationFactor \in Nat => GroupsComplete
  <2> SUFFICES ASSUME SInv, IsFiniteSet(ring), replicationFactor \in Nat, NEW n \in nodes
               PROVE  GroupsComplete!(n)
    BY DEF GroupsComplete
  <2>1. RingOK BY DEF SInv
  <2>2. IsFiniteSet(nodes) BY <2>1, ShardMapAssumption, FS_Subset DEF RingOK
  <2>3. Cardinality(nodes) \in Nat BY <2>2, FS_CardinalityType
  <2>4. PICK F : F = Followers(n) OBVIOUS
  <2>5. PICK group : group = Range(F) \cup {n} OBVIOUS
  <2>6. PICK want : want = IF replicationFactor < 1 THEN 1 ELSE replicationFactor OBVIOUS
  <2>7. /\ group \subseteq nodes
        /\ Len(F) + 1 = Cardinality(group)
        /\ Cardinality(group) = IF want < Cardinality(nodes) THEN want ELSE Cardinality(nodes)
    <3>1. CASE replicationFactor > 1 /\ Cardinality(ring) > 1
      <4>1. PICK w : w = Walk(n) OBVIOUS
      <4>2. w \in Seq(nodes) /\ Range(w) \cup {n} = nodes BY <2>1, <4>1, WalkMeets
      <4>3. Found(w, Len(w), n, F) BY <2>1, <2>4, <3>1, <4>1, FollowersFound
      <4>4. PICK met : met = {w[i] : i \in 1 .. Len(w)} \ {n} OBVIOUS
      <4>5. /\ F \in Seq(met) /\ IsFiniteSet(Range(F)) /\ Cardinality(Range(F)) = Len(F)
            /\ Len(F) <= replicationFactor - 1
            /\ Len(F) < replicationFactor - 1 => Range(F) = met
        BY <4>3, <4>4 DEF Found
      <4>6. met = nodes \ {n}
        <5>1. Range(w) = {w[i] : i \in 1 .. Len(w)} BY <4>2 DEF Range
        <5> QED BY <4>2, <4>4, <5>1
      <4>7. Range(F) \subseteq met BY <4>5 DEF Range
      <4>8. group \subseteq nodes /\ n \notin Range(F) BY <2>5, <4>6, <4>7
      <4>9. Cardinality(group) = Len(F) + 1 BY <2>5, <4>5, <4>8, FS_AddElement
      <4>10. Cardinality(group) <= Cardinality(nodes) BY <2>2, <4>8, FS_Subset
      <4>11. Len(F) \in Nat BY <4>5
      <4>12. Len(F) < replicationFactor - 1 => group = nodes BY <2>5, <4>5, <4>6
      <4> QED BY <2>3, <2>6, <3>1, <4>5, <4>8, <4>9, <4>10, <4>11, <4>12
    <3>2. CASE ~(replicationFactor > 1 /\ Cardinality(ring) > 1)
      <4>1. F = <<>> BY <2>4, <3>2 DEF Followers
      <4>2. Range(F) = {} /\ Len(F) = 0 BY <4>1 DEF Range
      <4>3. group = {n} /\ Cardinality(group) = 1 BY <2>5, <4>2, FS_Singleton
      <4>4. Cardinality(nodes) >= 1 BY <2>2, <2>3, FS_EmptySet
      <4>5. replicationFactor > 1 => Cardinality(nodes) = 1
        <5>1. SUFFICES ASSUME replicationFactor > 1 PROVE Cardinality(nodes) = 1
          OBVIOUS
        <5>2. Cardinality(ring) \in Nat /\ ~(Cardinality(ring) > 1)
          BY <3>2, <5>1, FS_CardinalityType
        <5>3. PICK e \in ring : e.node = n BY <2>1 DEF RingOK
        <5>4. Cardinality(ring) # 0 BY <5>3, FS_EmptySet
        <5>5. Cardinality(ring) = 1 BY <5>2, <5>4
        <5>6. PICK x : ring = {x} BY <5>5, FS_Singleton
        <5>7. \A m \in nodes : m = n BY <2>1, <5>3, <5>6 DEF RingOK
        <5>8. nodes = {n} BY <5>7
        <5> QED BY <5>8, FS_Singleton
      <4> QED BY <2>3, <2>6, <4>2, <4>3, <4>4, <4>5
    <3> QED BY <3>1, <3>2
  <2> QED BY <2>4, <2>5, <2>6, <2>7
<1> QED BY <1>1, InvariantS, InvariantG, PTL
-----------------------------------------------------------------------------
(* Merged answers                                                          *)

\* A record is in one place of one shard.
DataOK ==
  /\ DOMAIN data = Shards
  /\ \A s \in Shards : /\ data[s] \in Seq(RecordIds)
                       /\ \A i, j \in DOMAIN data[s] : data[s][i] = data[s][j] => i = j
  /\ \A s, t \in Shards : s # t => IdSet(data[s]) \cap IdSet(data[t]) = {}

\* What has been received are outcomes of the query that is executed.
ResultsOK ==
  /\ DOMAIN results \subseteq Shards
  /\ phase \in {"scatter", "answered"} =>
       /\ query \in Queries
       /\ \A s \in DOMAIN results : results[s] \in {Failed, ExecuteOnShard(s, query)}
  /\ phase = "answered" => answer = Merged(query, results)

AInv == DataOK /\ ResultsOK

\* A sequence without repetitions and its first n elements.
LEMMA Truncation ==
  ASSUME NEW R, NEW seq \in Seq(R), \A i, j \in DOMAIN seq : seq[i] = seq[j] => i = j,
         NEW n \in Nat
  PROVE  /\ IsFiniteSet(IdSet(seq)) /\ Cardinality(IdSet(seq)) = Len(seq)
         /\ IdSet(seq) \subseteq R
         /\ IdSet(Truncate(seq, n)) = {seq[i] : i \in {j \in DOMAIN seq : j <= n}}
         /\ Cardinality(IdSet(Truncate(seq, n))) = IF n < Len(seq) THEN n ELSE Len(seq)
         /\ n >= Len(seq) => Truncate(seq, n) = seq
<1>1. PICK N : N = Len(seq) OBVIOUS
<1>2. N \in Nat /\ seq \in [1 .. N -> R] BY <1>1
<1>3. ASSUME NEW m \in 0 .. N
      PROVE  /\ IsFiniteSet({seq[i] : i \in 1 .. m})
             /\ Cardinality({seq[i] : i \in 1 .. m}) = m
  <2>1. PICK T : T = {seq[i] : i \in 1 .. m} OBVIOUS
  <2>2. PICK g : g = [i \in 1 .. m |-> seq[i]] OBVIOUS
  <2>3. g \in [1 .. m -> T] /\ \A x \in T : \E i \in 1 .. m : g[i] = x BY <2>1, <2>2
  <2>4. \A i, j \in 1 .. m : g[i] = g[j] => i = j BY <1>2, <2>2
  <2>5. g \in Surjection(1 .. m, T) /\ g \in Injection(1 .. m, T)
    BY <2>3, <2>4 DEF Surjection, Injection, IsInjective
  <2>6. IsFiniteSet(1 .. m) /\ Cardinality(1 .. m) = m BY <1>2, FS_Interval
  <2> QED BY <2>1, <2>5, <2>6, FS_Surjection
<1>4. IdSet(seq) = {seq[i] : i \in 1 .. N} BY <1>2 DEF IdSet, Range
<1>5. PICK m : m = IF n < N THEN n ELSE N OBVIOUS
<1>6. m \in 0 .. N BY <1>2, <1>5
<1>7. PICK cut : cut = Truncate(seq, n) OBVIOUS
<1>8. cut = SubSeq(seq, 1, m) BY <1>1, <1>5, <1>7 DEF Truncate
<1>9. Len(cut) = m /\ DOMAIN cut = 1 .. m /\ \A i \in 1 .. m : cut[i] = seq[i]
  BY <1>1, <1>2, <1>6, <1>8
<1>10. IdSet(cut) = {seq[i] : i \in 1 .. m} BY <1>9 DEF IdSet, Range
<1>11. {j \in DOMAIN seq : j <= n} = 1 .. m BY <1>2, <1>5
<1>12. n >= N => cut = seq
  <2>1. ASSUME n >= N PROVE cut = seq
    <3>1. m = N BY <1>2, <1>5, <2>1
    <3>2. cut \in Seq(R) BY <1>1, <1>2, <1>6, <1>8
    <3> QED BY <1>1, <1>2, <1>9, <3>1, <3>2
  <2> QED BY <2>1
<1>13. N \in 0 .. N BY <1>2
<1>14. IdSet(seq) \subseteq R BY <1>2, <1>4
<1>15. Cardinality(IdSet(cut)) = m BY <1>3, <1>6, <1>10
<1>16. IsFiniteSet(IdSet(seq)) /\ Cardinality(IdSet(seq)) = N BY <1>3, <1>4, <1>13
<1> QED BY <1>1, <1>5, <1>7, <1>10, <1>11, <1>12, <1>14, <1>15, <1>16

\* The records of S that f puts before x.
Above(f, S, x) == {y \in S : f[y] > f[x]}

\* The first n of the sorted records are those with fewer than n before them.
LEMMA TopSorted ==
  ASSUME NEW S, S \subseteq RecordIds, IsFiniteSet(S), NEW f \in [RecordIds -> Nat],
         \A a, b \in RecordIds : a # b => f[a] # f[b], NEW n \in Nat
  PROVE  /\ IdSet(ByDesc(f, S)) = S
         /\ IdSet(Truncate(ByDesc(f, S), n)) = {x \in S : Cardinality(Above(f, S, x)) < n}
         /\ Cardinality(IdSet(Truncate(ByDesc(f, S), n))) =
              IF n < Cardinality(S) THEN n ELSE Cardinality(S)
<1>1. PICK before : before = [x \in S |-> Above(f, S, x)] OBVIOUS
<1>2. PICK sorted : sorted = ByDesc(f, S) OBVIOUS
<1>3. sorted = ByRank(S, before)
  <2>1. sorted = [i \in 1 .. Cardinality(S) |-> CHOOSE x \in S : Cardinality(Above(f, S, x)) = i - 1]
    BY <1>2 DEF ByDesc, InOrder, Above
  <2>2. \A x \in S : before[x] = Above(f, S, x) BY <1>1
  <2>3. \A i : (CHOOSE x \in S : Cardinality(Above(f, S, x)) = i - 1)
                 = (CHOOSE x \in S : Cardinality(before[x]) = i - 1)
    BY <2>2
  <2> QED BY <2>1, <2>3 DEF ByRank
<1>4. Orders(before, S)
  <2>1. \A x \in S : f[x] \in Nat OBVIOUS
  <2>2. before \in [S -> SUBSET S] BY <1>1 DEF Above
  <2>3. \A x, y \in S : x \in before[y] <=> f[x] > f[y] BY <1>1 DEF Above
  <2>4. \A x, y \in S : x # y => f[x] > f[y] \/ f[y] > f[x] BY <2>1
  <2> QED BY <2>1, <2>2, <2>3, <2>4 DEF Orders
<1>5. PICK N : N = Cardinality(S) OBVIOUS
<1>6. N \in Nat BY <1>5, FS_CardinalityType
<1>7. ByRank(S, before) \in [1 .. Cardinality(S) -> S] BY <1>4, Ranked
<1>8. \A i \in 1 .. Cardinality(S) : Cardinality(before[ByRank(S, before)[i]]) = i - 1
  BY <1>4, Ranked
<1>9. \A x \in S : \E i \in 1 .. Cardinality(S) :
        ByRank(S, before)[i] = x /\ i = Cardinality(before[x]) + 1
  BY <1>4, Ranked
<1>10. /\ sorted \in [1 .. N -> S]
       /\ \A i \in 1 .. N : Cardinality(before[sorted[i]]) = i - 1
       /\ \A x \in S : \E i \in 1 .. N : sorted[i] = x /\ i = Cardinality(before[x]) + 1
  BY <1>3, <1>5, <1>7, <1>8, <1>9
<1>11. sorted \in Seq(S) /\ Len(sorted) = N /\ DOMAIN sorted = 1 .. N BY <1>6, <1>10
<1>12. \A i, j \in DOMAIN sorted : sorted[i] = sorted[j] => i = j
  <2> SUFFICES ASSUME NEW i \in 1 .. N, NEW j \in 1 .. N, sorted[i] = sorted[j] PROVE i = j
    BY <1>11
  <2>1. i - 1 = j - 1 BY <1>10
  <2> QED BY <1>6, <2>1
<1>13. IdSet(sorted) = S BY <1>10, <1>11 DEF IdSet, Range
<1>14. PICK top : top = IdSet(Truncate(sorted, n)) OBVIOUS
<1>15. /\ top = {sorted[i] : i \in {j \in DOMAIN sorted : j <= n}}
       /\ Cardinality(top) = IF n < Len(sorted) THEN n ELSE Len(sorted)
  <2>1. sorted \in Seq(S) BY <1>11
  <2>2. IdSet(Truncate(sorted, n)) = {sorted[i] : i \in {j \in DOMAIN sorted : j <= n}}
    BY <1>12, <2>1, Truncation
  <2>3. Cardinality(IdSet(Truncate(sorted, n))) = IF n < Len(sorted) THEN n ELSE Len(sorted)
    BY <1>12, <2>1, Truncation
  <2> QED BY <1>14, <2>2, <2>3
<1>16. top = {x \in S : Cardinality(before[x]) < n}
  <2>1. ASSUME NEW i \in 1 .. N PROVE Cardinality(before[sorted[i]]) < n <=> i <= n
    BY <1>6, <1>10
  <2>2. \A x \in top : x \in S /\ Cardinality(before[x]) < n BY <1>10, <1>11, <1>15, <2>1
  <2>3. \A x \in S : Cardinality(before[x]) < n => x \in top BY <1>10, <1>11, <1>15, <2>1
  <2> QED BY <2>2, <2>3
<1>17. top = {x \in S : Cardinality(Above(f, S, x)) < n} BY <1>1, <1>16
<1> QED BY <1>2, <1>5, <1>11, <1>13, <1>14, <1>15, <1>17
\* outcome is what some shards answered to q; Stored are the records there.
Genuine(q, outcome) ==
  /\ q \in Queries
  /\ DOMAIN outcome \subseteq Shards
  /\ \A s \in Answered(outcome) : outcome[s] = ExecuteOnShard(s, q)
Stored(outcome) == UNION {IdSet(data[s]) : s \in Answered(outcome)}

LEMMA StoredFinite ==
  ASSUME DataOK, NEW q, NEW outcome, Genuine(q, outcome)
  PROVE  /\ IsFiniteSet(DOMAIN outcome) /\ IsFiniteSet(Answered(outcome))
         /\ Answered(outcome) \subseteq DOMAIN outcome /\ Answered(outcome) \subseteq Shards
         /\ \A s \in Shards : /\ data[s] \in Seq(RecordIds) /\ IdSet(data[s]) \subseteq RecordIds
                              /\ IsFiniteSet(IdSet(data[s]))
                              /\ Cardinality(IdSet(data[s])) = Len(data[s])
         /\ Stored(outcome) \subseteq RecordIds /\ IsFiniteSet(Stored(outcome))
<1>1. IsFiniteSet(Shards) BY ShardMapAssumption, FS_Interval DEF Shards
<1>2. Answered(outcome) \subseteq DOMAIN outcome /\ DOMAIN outcome \subseteq Shards
  BY DEF Genuine, Answered
<1>3. IsFiniteSet(DOMAIN outcome) BY <1>1, <1>2, FS_Subset
<1>4. IsFiniteSet(Answered(outcome)) BY <1>2, <1>3, FS_Subset
<1>5. ASSUME NEW s \in Shards
      PROVE  /\ data[s] \in Seq(RecordIds) /\ IdSet(data[s]) \subseteq RecordIds
             /\ IsFiniteSet(IdSet(data[s])) /\ Cardinality(IdSet(data[s])) = Len(data[s])
  <2>1. PICK ids : ids = data[s] OBVIOUS
  <2>2. ids \in Seq(RecordIds) /\ \A i, j \in DOMAIN ids : ids[i] = ids[j] => i = j
    BY <2>1 DEF DataOK
  <2>3. 0 \in Nat OBVIOUS
  <2>4. IsFiniteSet(IdSet(ids)) BY <2>2, <2>3, Truncation
  <2>5. Cardinality(IdSet(ids)) = Len(ids) BY <2>2, <2>3, Truncation
  <2>6. IdSet(ids) \subseteq RecordIds BY <2>2, <2>3, Truncation
  <2> QED BY <2>1, <2>2, <2>4, <2>5, <2>6
<1>6. PICK A : A = [s \in Answered(outcome) |-> IdSet(data[s])] OBVIOUS
<1>7. \A s \in Answered(outcome) : IsFiniteSet(A[s]) BY <1>2, <1>5, <1>6
<1>8. IsFiniteSet(UNION {A[s] : s \in Answered(outcome)}) BY <1>4, <1>7, FiniteFamily
<1>9. Stored(outcome) = UNION {A[s] : s \in Answered(outcome)} BY <1>6 DEF Stored
<1>10. Stored(outcome) \subseteq RecordIds BY <1>2, <1>5 DEF Stored
<1> QED BY <1>2, <1>3, <1>4, <1>5, <1>8, <1>9, <1>10

\* A number of records kept of each shard: enough of them, or all.
Keeps(n, s, seq) ==
  /\ IdSet(seq) \subseteq IdSet(data[s])
  /\ Cardinality(IdSet(seq)) >= n \/ IdSet(seq) = IdSet(data[s])

\* If every shard sends n records or all it has, so do all together.
LEMMA SentEnough ==
  ASSUME DataOK, NEW q, NEW outcome, Genuine(q, outcome), NEW n \in Nat,
         \A s \in Answered(outcome) : Keeps(n, s, outcome[s].records)
  PROVE  /\ Sent(outcome) \subseteq Stored(outcome) /\ IsFiniteSet(Sent(outcome))
         /\ (IF n < Cardinality(Sent(outcome)) THEN n ELSE Cardinality(Sent(outcome)))
              = IF Cardinality(Stored(outcome)) < n THEN Cardinality(Stored(outcome)) ELSE n
<1>1. Sent(outcome) \subseteq Stored(outcome) BY DEF Keeps, Sent, Stored
<1>2. IsFiniteSet(Stored(outcome)) BY StoredFinite
<1>3. PICK sent : sent = Cardinality(Sent(outcome)) OBVIOUS
<1>4. PICK stored : stored = Cardinality(Stored(outcome)) OBVIOUS
<1>5. /\ IsFiniteSet(Sent(outcome)) /\ sent \in Nat /\ stored \in Nat /\ sent <= stored
  BY <1>1, <1>2, <1>3, <1>4, FS_Subset, FS_CardinalityType
<1>6. CASE \E s \in Answered(outcome) : Cardinality(IdSet(outcome[s].records)) >= n
  <2>1. PICK s \in Answered(outcome) : Cardinality(IdSet(outcome[s].records)) >= n BY <1>6
  <2>2. PICK part : part = IdSet(outcome[s].records) OBVIOUS
  <2>3. part \subseteq Sent(outcome) BY <2>2 DEF Sent
  <2>4. Cardinality(part) \in Nat /\ Cardinality(part) <= sent
    BY <1>3, <1>5, <2>3, FS_Subset, FS_CardinalityType
  <2>5. n <= sent BY <1>5, <2>1, <2>2, <2>4
  <2> QED BY <1>1, <1>3, <1>4, <1>5, <2>5
<1>7. CASE \A s \in Answered(outcome) : ~(Cardinality(IdSet(outcome[s].records)) >= n)
  <2>1. Sent(outcome) = Stored(outcome) BY <1>7 DEF Keeps, Sent, Stored
  <2> QED BY <1>1, <1>3, <1>4, <1>5, <2>1
<1> QED BY <1>6, <1>7

\* A scan: only records of the shards, as many as the limit allows.
LEMMA MergedScan ==
  ASSUME DataOK, NEW q, NEW outcome, Genuine(q, outcome), q.kind = "scan", NEW got,
         got = IdSet(Merged(q, outcome).records), NEW all, all = Stored(outcome)
  PROVE  /\ got \subseteq all
         /\ Cardinality(got) = IF q.limit = 0 \/ Cardinality(all) < q.limit
                               THEN Cardinality(all) ELSE q.limit
<1>1. PICK limit : limit = q.limit OBVIOUS
<1>2. limit \in Nat BY <1>1, DistQueryAssumption DEF Genuine, Queries
<1>3. PICK records : records = Sent(outcome) OBVIOUS
<1>4. got = IdSet(IF limit = 0 THEN ByDesc(Confidence, records)
                  ELSE Truncate(ByDesc(Confidence, records), limit))
  BY <1>1, <1>3 DEF Merged, Sent, Answered
<1>5. \A s \in Answered(outcome) :
        outcome[s].records = IF limit = 0 THEN data[s] ELSE Truncate(data[s], limit)
  <2>1. \A s : ExecuteOnShard(s, q).records = IF limit = 0 THEN data[s] ELSE Truncate(data[s], limit)
    BY <1>1 DEF ExecuteOnShard
  <2> QED BY <2>1 DEF Genuine
<1>6. ASSUME NEW s \in Answered(outcome)
      PROVE  /\ Keeps(limit, s, outcome[s].records)
             /\ limit = 0 => IdSet(outcome[s].records) = IdSet(data[s])
  <2>1. PICK ids : ids = data[s] OBVIOUS
  <2>2. s \in Shards BY DEF Genuine, Answered
  <2>3. ids \in Seq(RecordIds) /\ \A i, j \in DOMAIN ids : ids[i] = ids[j] => i = j
    BY <2>1, <2>2 DEF DataOK
  <2>4. Cardinality(IdSet(Truncate(ids, limit))) = IF limit < Len(ids) THEN limit ELSE Len(ids)
    BY <1>2, <2>3, Truncation
  <2>5. IdSet(Truncate(ids, limit)) = {ids[i] : i \in {j \in DOMAIN ids : j <= limit}}
    BY <1>2, <2>3, Truncation
  <2>6. limit >= Len(ids) => Truncate(ids, limit) = ids BY <1>2, <2>3, Truncation
  <2>7. IdSet(Truncate(ids, limit)) \subseteq IdSet(ids) BY <2>5 DEF IdSet, Range
  <2>8. Cardinality(IdSet(Truncate(ids, limit))) >= limit \/ IdSet(Truncate(ids, limit)) = IdSet(ids)
    BY <1>2, <2>3, <2>4, <2>6
  <2>9. limit = 0 => outcome[s].records = ids BY <1>5, <2>1
  <2>10. limit # 0 => outcome[s].records = Truncate(ids, limit) BY <1>5, <2>1
  <2> QED BY <2>1, <2>7, <2>8, <2>9, <2>10 DEF Keeps
<1>7. PICK kept : kept = IF limit < Cardinality(records) THEN limit ELSE Cardinality(records)
  OBVIOUS
<1>8. records \subseteq all BY <1>2, <1>3, <1>6, SentEnough
<1>9. IsFiniteSet(records) BY <1>2, <1>3, <1>6, SentEnough
<1>10. kept = IF Cardinality(all) < limit THEN Cardinality(all) ELSE limit
  BY <1>2, <1>3, <1>6, <1>7, SentEnough
<1>11. all \subseteq RecordIds /\ IsFiniteSet(all) BY StoredFinite
<1>12. records \subseteq RecordIds BY <1>8, <1>11
<1>13. Confidence \in [RecordIds -> Nat] /\ \A a, b \in RecordIds : a # b => Confidence[a] # Confidence[b]
  BY DistQueryAssumption
<1>14. IdSet(ByDesc(Confidence, records)) = records BY <1>2, <1>9, <1>12, <1>13, TopSorted
<1>15. IdSet(Truncate(ByDesc(Confidence, records), limit)) \subseteq records
  BY <1>2, <1>9, <1>12, <1>13, TopSorted
<1>16. Cardinality(IdSet(Truncate(ByDesc(Confidence, records), limit))) = kept
  BY <1>2, <1>7, <1>9, <1>12, <1>13, TopSorted
<1>17. CASE limit = 0
  <2>1. records = all BY <1>3, <1>6, <1>17 DEF Sent, Stored
  <2> QED BY <1>1, <1>4, <1>14, <1>17, <2>1
<1>18. CASE limit # 0
  <2> QED BY <1>1, <1>4, <1>8, <1>10, <1>15, <1>16, <1>18
<1> QED BY <1>17, <1>18
\* What a shard sends of a vector scan.
LEMMA VectorPart ==
  ASSUME DataOK, NEW s \in Shards, NEW n \in Nat, NEW part,
         part = IdSet(Truncate(ByDesc(Score, IdSet(data[s])), n)),
         IsFiniteSet(IdSet(data[s])), IdSet(data[s]) \subseteq RecordIds
  PROVE  /\ part \subseteq IdSet(data[s]) /\ IsFiniteSet(part)
         /\ Cardinality(part) >= n \/ part = IdSet(data[s])
         /\ \A x \in part : \A u \in IdSet(data[s]) \ part : Score[x] > Score[u]
<1>1. PICK S : S = IdSet(data[s]) OBVIOUS
<1>2. S \subseteq RecordIds /\ IsFiniteSet(S) BY <1>1
<1>3. Score \in [RecordIds -> Nat] /\ \A a, b \in RecordIds : a # b => Score[a] # Score[b]
  BY DistQueryAssumption
<1>4. part = {x \in S : Cardinality(Above(Score, S, x)) < n} BY <1>1, <1>2, <1>3, TopSorted
<1>5. Cardinality(part) = IF n < Cardinality(S) THEN n ELSE Cardinality(S)
  BY <1>1, <1>2, <1>3, TopSorted
<1>6. part \subseteq S BY <1>4
<1>7. /\ IsFiniteSet(part) /\ Cardinality(part) \in Nat /\ Cardinality(S) \in Nat
      /\ Cardinality(part) = Cardinality(S) => part = S
  BY <1>2, <1>6, FS_Subset, FS_CardinalityType
<1>8. ASSUME NEW x \in part, NEW u \in S \ part, ~(Score[x] > Score[u]) PROVE FALSE
  <2>1. x # u /\ x \in RecordIds /\ u \in RecordIds BY <1>2, <1>6
  <2>2. Score[x] < Score[u] BY <1>3, <1>8, <2>1
  <2>3. Above(Score, S, u) \subseteq Above(Score, S, x)
    <3>1. \A y \in S : Score[y] \in Nat BY <1>2, <1>3
    <3>2. Score[x] \in Nat /\ Score[u] \in Nat BY <1>3, <2>1
    <3> QED BY <2>2, <3>1, <3>2 DEF Above
  <2>4. IsFiniteSet(Above(Score, S, x)) /\ IsFiniteSet(Above(Score, S, u))
    BY <1>2, FS_Subset DEF Above
  <2>5. /\ Cardinality(Above(Score, S, x)) \in Nat /\ Cardinality(Above(Score, S, u)) \in Nat
        /\ Cardinality(Above(Score, S, u)) <= Cardinality(Above(Score, S, x))
    BY <2>3, <2>4, FS_Subset, FS_CardinalityType
  <2>6. Cardinality(Above(Score, S, x)) < n /\ ~(Cardinality(Above(Score, S, u)) < n)
    BY <1>4, <1>8
  <2> QED BY <2>5, <2>6
<1> QED BY <1>1, <1>5, <1>6, <1>7, <1>8

\* A vector scan: the best topK of all the records, although every shard sends
\* only its own best.
LEMMA MergedVector ==
  ASSUME DataOK, NEW q, NEW outcome, Genuine(q, outcome), q.kind = "vector", NEW got,
         got = IdSet(Merged(q, outcome).records), NEW all, all = Stored(outcome)
  PROVE  /\ got \subseteq all
         /\ Cardinality(got) = IF Cardinality(all) < q.topK THEN Cardinality(all) ELSE q.topK
         /\ \A r \in got : \A u \in all \ got : Score[r] >= Score[u]
<1>1. PICK topK : topK = q.topK OBVIOUS
<1>2. PICK n : n = topK * OversampleFactor OBVIOUS
<1>3. topK \in Nat /\ n \in Nat /\ topK <= n
  <2>1. topK \in Nat BY <1>1, DistQueryAssumption DEF Genuine, Queries
  <2>2. OversampleFactor \in Nat /\ OversampleFactor >= 1 BY DistQueryAssumption
  <2> QED BY <1>2, <2>1, <2>2
<1>4. PICK records : records = Sent(outcome) OBVIOUS
<1>5. got = IdSet(Truncate(ByDesc(Score, records), topK))
  BY <1>1, <1>4 DEF Merged, Sent, Answered
<1>6. \A s \in Answered(outcome) :
        outcome[s].records = Truncate(ByDesc(Score, IdSet(data[s])), n)
  <2>1. \A s : ExecuteOnShard(s, q).records = Truncate(ByDesc(Score, IdSet(data[s])), n)
    BY <1>1, <1>2 DEF ExecuteOnShard, TopByScore
  <2> QED BY <2>1 DEF Genuine
<1>7. \A s \in Shards : IsFiniteSet(IdSet(data[s])) /\ IdSet(data[s]) \subseteq RecordIds
  BY StoredFinite
<1>8. ASSUME NEW s \in Answered(outcome), NEW part, part = IdSet(outcome[s].records)
      PROVE  /\ part \subseteq IdSet(data[s]) /\ IsFiniteSet(part)
             /\ Cardinality(part) >= n \/ part = IdSet(data[s])
             /\ \A x \in part : \A u \in IdSet(data[s]) \ part : Score[x] > Score[u]
  <2>1. s \in Shards BY DEF Genuine, Answered
  <2>2. part = IdSet(Truncate(ByDesc(Score, IdSet(data[s])), n)) BY <1>6, <1>8
  <2>3. IsFiniteSet(IdSet(data[s])) /\ IdSet(data[s]) \subseteq RecordIds BY <1>7, <2>1
  <2> QED BY <1>3, <2>1, <2>2, <2>3, VectorPart
<1>9. ASSUME NEW s \in Answered(outcome) PROVE Keeps(topK, s, outcome[s].records)
  <2>1. PICK part : part = IdSet(outcome[s].records) OBVIOUS
  <2>2. /\ part \subseteq IdSet(data[s]) /\ IsFiniteSet(part)
        /\ Cardinality(part) >= n \/ part = IdSet(data[s])
    BY <1>8, <2>1
  <2>3. Cardinality(part) \in Nat BY <2>2, FS_CardinalityType
  <2>4. Cardinality(part) >= topK \/ part = IdSet(data[s]) BY <1>3, <2>2, <2>3
  <2> QED BY <2>1, <2>2, <2>4 DEF Keeps
<1>10. records \subseteq all BY <1>3, <1>4, <1>9, SentEnough
<1>11. IsFiniteSet(records) BY <1>3, <1>4, <1>9, SentEnough
<1>12. PICK kept : kept = IF topK < Cardinality(records) THEN topK ELSE Cardinality(records)
  OBVIOUS
<1>13. kept = IF Cardinality(all) < topK THEN Cardinality(all) ELSE topK
  BY <1>3, <1>4, <1>9, <1>12, SentEnough
<1>14. all \subseteq RecordIds BY StoredFinite
<1>15. records \subseteq RecordIds BY <1>10, <1>14
<1>16. Score \in [RecordIds -> Nat] /\ \A a, b \in RecordIds : a # b => Score[a] # Score[b]
  BY DistQueryAssumption
<1>17. got = {x \in records : Cardinality(Above(Score, records, x)) < topK}
  BY <1>3, <1>5, <1>11, <1>15, <1>16, TopSorted
<1>18. Cardinality(got) = kept BY <1>3, <1>5, <1>11, <1>12, <1>15, <1>16, TopSorted
<1>19. ASSUME NEW r \in got, NEW u \in all \ got, ~(Score[r] >= Score[u]) PROVE FALSE
  <2>1. r \in records /\ r \in RecordIds /\ u \in RecordIds BY <1>10, <1>14, <1>17
  <2>2. Score[r] < Score[u] BY <1>16, <1>19, <2>1
  <2>3. PICK ahead : ahead = Above(Score, records, r) OBVIOUS
  <2>4. Cardinality(ahead) < topK BY <1>17, <2>3
  <2>5. IsFiniteSet(ahead) /\ Cardinality(ahead) \in Nat
    BY <1>11, <2>3, FS_Subset, FS_CardinalityType DEF Above
  <2>6. \A y \in RecordIds : Score[y] \in Nat BY <1>16
  <2>7. CASE u \in records
    <3>1. PICK more : more = Above(Score, records, u) OBVIOUS
    <3>2. more \subseteq ahead BY <1>15, <2>1, <2>2, <2>3, <2>6, <3>1 DEF Above
    <3>3. ~(Cardinality(more) < topK) BY <1>17, <1>19, <2>7, <3>1
    <3>4. Cardinality(more) \in Nat /\ Cardinality(more) <= Cardinality(ahead)
      BY <2>5, <3>2, FS_Subset, FS_CardinalityType
    <3> QED BY <1>3, <2>4, <2>5, <3>3, <3>4
  <2>8. CASE u \notin records
    <3>1. PICK s \in Answered(outcome) : u \in IdSet(data[s]) BY <1>19 DEF Stored
    <3>2. PICK part : part = IdSet(outcome[s].records) OBVIOUS
    <3>3. part \subseteq records BY <1>4, <3>2 DEF Sent
    <3>4. u \in IdSet(data[s]) \ part BY <2>8, <3>1, <3>3
    <3>5. IsFiniteSet(part) /\ Cardinality(part) >= n /\ \A x \in part : Score[x] > Score[u]
      BY <1>8, <3>2, <3>4
    <3>6. part \subseteq ahead BY <1>15, <2>1, <2>2, <2>3, <2>6, <3>3, <3>5 DEF Above
    <3>7. Cardinality(part) \in Nat /\ Cardinality(part) <= Cardinality(ahead)
      BY <2>5, <3>5, <3>6, FS_Subset, FS_CardinalityType
    <3> QED BY <1>3, <2>4, <2>5, <3>5, <3>7
  <2> QED BY <2>7, <2>8
<1>20. got \subseteq all BY <1>10, <1>17
<1> QED BY <1>1, <1>13, <1>18, <1>19, <1>20
\* The least and the greatest of a finite set of numbers.
LEMMA Extremes ==
  ASSUME NEW X, X \subseteq Nat, IsFiniteSet(X)
  PROVE  /\ X = {} => LeastOf(X) = 0 /\ GreatestOf(X) = 0
         /\ X # {} => /\ LeastOf(X) \in X /\ \A y \in X : LeastOf(X) <= y
                      /\ GreatestOf(X) \in X /\ \A y \in X : y <= GreatestOf(X)
<1>1. CASE X = {} BY <1>1 DEF LeastOf, GreatestOf
<1>2. CASE X # {}
  <2>1. \E x \in X : \A y \in X : x <= y BY <1>2, LeastNat
  <2>2. \E x \in X : \A y \in X : x >= y
    <3>1. PICK f : f = [x \in X |-> x] OBVIOUS
    <3>2. f \in [X -> Nat] BY <3>1
    <3>3. \E y \in X : \A x \in X : f[x] <= f[y] BY <1>2, <3>2, Greatest
    <3>4. PICK y \in X : \A x \in X : f[x] <= f[y] BY <3>3
    <3>5. \A x \in X : y >= x BY <3>1, <3>4
    <3> QED BY <3>5
  <2>3. LeastOf(X) \in X /\ \A y \in X : LeastOf(X) <= y BY <1>2, <2>1 DEF LeastOf
  <2>4. GreatestOf(X) \in X /\ \A y \in X : GreatestOf(X) >= y BY <1>2, <2>2 DEF GreatestOf
  <2> QED BY <1>2, <2>3, <2>4
<1> QED BY <1>1, <1>2

\* The sum of the confidences of finitely many records is the number of their
\* units, of which there are finitely many.
LEMMA FiniteUnits ==
  ASSUME NEW S, S \subseteq RecordIds, IsFiniteSet(S)
  PROVE  IsFiniteSet(Units(Confidence, S))
<1>1. \A x \in S : Confidence[x] \in Nat BY DistQueryAssumption
<1>2. PICK A : A = [x \in S |-> {<<x, i>> : i \in 1 .. Confidence[x]}] OBVIOUS
<1>3. ASSUME NEW x \in S PROVE IsFiniteSet(A[x])
  <2>1. PICK T : T = 1 .. Confidence[x] OBVIOUS
  <2>2. IsFiniteSet(T) BY <1>1, <2>1, FS_Interval
  <2>3. PICK g : g = [i \in T |-> <<x, i>>] OBVIOUS
  <2>4. g \in Surjection(T, A[x]) BY <1>2, <2>1, <2>3 DEF Surjection
  <2> QED BY <2>2, <2>4, FS_Surjection
<1>4. IsFiniteSet(UNION {A[x] : x \in S}) BY <1>3, FiniteFamily
<1>5. Units(Confidence, S) = UNION {A[x] : x \in S} BY <1>2 DEF Units
<1> QED BY <1>4, <1>5

\* The outcome of an aggregate in one shard.
LEMMA AggregatePart ==
  ASSUME NEW s, NEW q, q.kind = "aggregate", NEW conf,
         conf = {Confidence[id] : id \in IdSet(data[s])}
  PROVE  /\ q.op \in {"count", "avg"} => ExecuteOnShard(s, q).count = Len(data[s])
         /\ q.op \in {"sum", "avg"} =>
              ExecuteOnShard(s, q).value = Cardinality(Units(Confidence, IdSet(data[s])))
         /\ q.op = "max" => ExecuteOnShard(s, q).value = GreatestOf(conf)
         /\ q.op = "min" => ExecuteOnShard(s, q).value = LeastOf(conf)
<1>1. \A S : SumOf(Confidence, S) = Cardinality(Units(Confidence, S)) BY DEF SumOf, Units
<1>2. ExecuteOnShard(s, q) =
        [ok |-> TRUE, records |-> <<>>,
         count |-> IF q.op \in {"count", "avg"} THEN Len(data[s]) ELSE 0,
         value |-> CASE q.op = "min" -> LeastOf(conf)
                     [] q.op = "max" -> GreatestOf(conf)
                     [] q.op = "count" -> 0
                     [] OTHER -> SumOf(Confidence, IdSet(data[s]))]
  BY DEF ExecuteOnShard
<1> QED BY <1>1, <1>2

\* Counts and sums: those of the shards add up, as no record is in two.
LEMMA MergedSums ==
  ASSUME DataOK, NEW q, NEW outcome, Genuine(q, outcome), q.kind = "aggregate",
         NEW all, all = Stored(outcome)
  PROVE  /\ q.op \in {"count", "avg"} => Merged(q, outcome).count = Cardinality(all)
         /\ q.op \in {"sum", "avg"} => Merged(q, outcome).value = SumOf(Confidence, all)
<1>1. PICK ok : ok = Answered(outcome) OBVIOUS
<1>2. IsFiniteSet(ok) BY <1>1, StoredFinite
<1>3. ok \subseteq Shards BY <1>1, StoredFinite
<1>4. \A s \in Shards : /\ IsFiniteSet(IdSet(data[s])) /\ IdSet(data[s]) \subseteq RecordIds
                        /\ Cardinality(IdSet(data[s])) = Len(data[s])
  BY StoredFinite
<1>5. \A s, t \in ok : s # t => IdSet(data[s]) \cap IdSet(data[t]) = {} BY <1>3 DEF DataOK
<1>6. \A s \in ok : outcome[s] = ExecuteOnShard(s, q) BY <1>1 DEF Genuine
<1>7. PICK count : count = [s \in ok |-> outcome[s].count] OBVIOUS
<1>8. PICK value : value = [s \in ok |-> outcome[s].value] OBVIOUS
<1>9. Merged(q, outcome).count = Cardinality(Units(count, ok))
  BY <1>1, <1>7 DEF Merged, Answered, SumOf, Units
<1>10. q.op \in {"sum", "avg"} => Merged(q, outcome).value = Cardinality(Units(value, ok))
  BY <1>1, <1>8 DEF Merged, Answered, SumOf, Units
<1>11. ASSUME q.op \in {"count", "avg"} PROVE Merged(q, outcome).count = Cardinality(all)
  <2>1. PICK A : A = [s \in ok |-> IdSet(data[s])] OBVIOUS
  <2>2. \A s \in ok : count[s] = Cardinality(A[s])
    BY <1>3, <1>4, <1>6, <1>7, <1>11, <2>1, AggregatePart
  <2>3. \A s \in ok : IsFiniteSet(A[s]) BY <1>3, <1>4, <2>1
  <2>4. \A s, t \in ok : s # t => A[s] \cap A[t] = {} BY <1>5, <2>1
  <2>5. Cardinality(Units(count, ok)) = Cardinality(UNION {A[s] : s \in ok})
    BY <1>2, <2>2, <2>3, <2>4, SumOfParts
  <2>6. UNION {A[s] : s \in ok} = all BY <1>1, <2>1 DEF Stored
  <2> QED BY <1>9, <2>5, <2>6
<1>12. ASSUME q.op \in {"sum", "avg"} PROVE Merged(q, outcome).value = SumOf(Confidence, all)
  <2>1. PICK A : A = [s \in ok |-> Units(Confidence, IdSet(data[s]))] OBVIOUS
  <2>2. \A s \in ok : value[s] = Cardinality(A[s]) BY <1>6, <1>8, <1>12, <2>1, AggregatePart
  <2>3. \A s \in ok : IsFiniteSet(A[s]) BY <1>3, <1>4, <2>1, FiniteUnits
  <2>4. \A s, t \in ok : s # t => A[s] \cap A[t] = {}
    <3> SUFFICES ASSUME NEW s \in ok, NEW t \in ok, s # t, NEW u, u \in A[s], u \in A[t] PROVE FALSE
      OBVIOUS
    <3>1. u \in Units(Confidence, IdSet(data[s])) /\ u \in Units(Confidence, IdSet(data[t])) BY <2>1
    <3>2. u[1] \in IdSet(data[s]) /\ u[1] \in IdSet(data[t]) BY <3>1 DEF Units
    <3> QED BY <1>5, <3>2
  <2>5. Cardinality(Units(value, ok)) = Cardinality(UNION {A[s] : s \in ok})
    BY <1>2, <2>2, <2>3, <2>4, SumOfParts
  <2>6. UNION {A[s] : s \in ok} = Units(Confidence, all) BY <1>1, <2>1 DEF Stored, Units
  <2>7. SumOf(Confidence, all) = Cardinality(Units(Confidence, all)) BY DEF SumOf, Units
  <2> QED BY <1>10, <1>12, <2>5, <2>6, <2>7
<1> QED BY <1>11, <1>12
\* The extremes of the shards' extremes.  A shard without records answers 0, so
\* the least is exact if there is none.
LEMMA MergedExtremes ==
  ASSUME DataOK, NEW q, NEW outcome, Genuine(q, outcome), q.kind = "aggregate",
         NEW all, all = {Confidence[id] : id \in Stored(outcome)}
  PROVE  /\ q.op = "max" => Merged(q, outcome).value = GreatestOf(all)
         /\ q.op = "min" /\ (\A s \in Answered(outcome) : data[s] # <<>>) =>
              Merged(q, outcome).value = LeastOf(all)
<1>1. PICK ok : ok = Answered(outcome) OBVIOUS
<1>2. PICK conf : conf = [s \in ok |-> {Confidence[id] : id \in IdSet(data[s])}] OBVIOUS
<1>3. PICK values : values = {outcome[s].value : s \in ok} OBVIOUS
<1>4. ok \subseteq Shards BY <1>1, StoredFinite
<1>5. \A s \in ok : /\ IsFiniteSet(IdSet(data[s])) /\ IdSet(data[s]) \subseteq RecordIds
                    /\ data[s] \in Seq(RecordIds)
  BY <1>4, StoredFinite
<1>6. \A id \in RecordIds : Confidence[id] \in Nat BY DistQueryAssumption
<1>7. IsFiniteSet(ok) BY <1>1, StoredFinite
<1>8. ASSUME NEW X, X \subseteq RecordIds, IsFiniteSet(X)
      PROVE  /\ {Confidence[id] : id \in X} \subseteq Nat
             /\ IsFiniteSet({Confidence[id] : id \in X})
  <2>1. PICK T : T = {Confidence[id] : id \in X} OBVIOUS
  <2>2. PICK g : g = [id \in X |-> Confidence[id]] OBVIOUS
  <2>3. g \in Surjection(X, T) BY <2>1, <2>2 DEF Surjection
  <2>4. IsFiniteSet(T) BY <1>8, <2>3, FS_Surjection
  <2> QED BY <1>6, <1>8, <2>1, <2>4
<1>9. \A s \in ok : conf[s] \subseteq Nat /\ IsFiniteSet(conf[s]) BY <1>2, <1>5, <1>8
<1>10. Stored(outcome) \subseteq RecordIds BY StoredFinite
<1>11. IsFiniteSet(Stored(outcome)) BY StoredFinite
<1>12. all \subseteq Nat /\ IsFiniteSet(all) BY <1>8, <1>10, <1>11
<1>13. \A s \in ok : conf[s] \subseteq all BY <1>1, <1>2 DEF Stored
<1>14. \A x \in all : \E s \in ok : x \in conf[s] BY <1>1, <1>2 DEF Stored
<1>15. IsFiniteSet(values)
  <2>1. PICK g : g = [s \in ok |-> outcome[s].value] OBVIOUS
  <2>2. g \in Surjection(ok, values) BY <1>3, <2>1 DEF Surjection
  <2> QED BY <1>7, <2>2, FS_Surjection
<1>16. ASSUME NEW s \in ok
       PROVE  /\ conf[s] = {} => LeastOf(conf[s]) = 0 /\ GreatestOf(conf[s]) = 0
              /\ conf[s] # {} => /\ LeastOf(conf[s]) \in conf[s]
                                 /\ \A y \in conf[s] : LeastOf(conf[s]) <= y
                                 /\ GreatestOf(conf[s]) \in conf[s]
                                 /\ \A y \in conf[s] : y <= GreatestOf(conf[s])
  <2>1. PICK X : X = conf[s] OBVIOUS
  <2>2. X \subseteq Nat /\ IsFiniteSet(X) BY <1>9, <2>1
  <2>3. /\ X = {} => LeastOf(X) = 0 /\ GreatestOf(X) = 0
        /\ X # {} => /\ LeastOf(X) \in X /\ \A y \in X : LeastOf(X) <= y
                     /\ GreatestOf(X) \in X /\ \A y \in X : y <= GreatestOf(X)
    BY <2>2, Extremes
  <2> QED BY <2>1, <2>3
<1>17. \A s \in ok : outcome[s] = ExecuteOnShard(s, q) BY <1>1 DEF Genuine
<1>18. ASSUME q.op = "max" PROVE Merged(q, outcome).value = GreatestOf(all)
  <2>1. Merged(q, outcome).value = GreatestOf(values)
    BY <1>1, <1>3, <1>18 DEF Merged, Answered
  <2>2. \A s \in ok : outcome[s].value = GreatestOf(conf[s])
    BY <1>2, <1>17, <1>18, AggregatePart
  <2>3. values = {GreatestOf(conf[s]) : s \in ok} BY <1>3, <2>2
  <2>4. values \subseteq Nat BY <1>9, <1>16, <2>3
  <2>5. /\ values = {} => GreatestOf(values) = 0
        /\ values # {} => GreatestOf(values) \in values /\ \A y \in values : y <= GreatestOf(values)
    BY <1>15, <2>4, Extremes
  <2>6. /\ all = {} => GreatestOf(all) = 0
        /\ all # {} => GreatestOf(all) \in all /\ \A y \in all : y <= GreatestOf(all)
    BY <1>12, Extremes
  <2>7. CASE all = {}
    <3>1. \A s \in ok : GreatestOf(conf[s]) = 0 BY <1>13, <1>16, <2>7
    <3>2. values = {} \/ values = {0} BY <2>3, <3>1
    <3>3. GreatestOf(values) = 0 BY <2>5, <3>2
    <3> QED BY <2>1, <2>6, <2>7, <3>3
  <2>8. CASE all # {}
    <3>1. PICK top : top = GreatestOf(all) OBVIOUS
    <3>2. top \in all /\ \A y \in all : y <= top BY <2>6, <2>8, <3>1
    <3>3. PICK s \in ok : top \in conf[s] BY <1>14, <3>2
    <3>4. PICK v : v = GreatestOf(conf[s]) OBVIOUS
    <3>5. v \in conf[s] /\ top <= v BY <1>16, <3>3, <3>4
    <3>6. v \in values BY <2>3, <3>4
    <3>7. ASSUME NEW y \in values PROVE y <= top
      <4>1. PICK t \in ok : y = GreatestOf(conf[t]) BY <2>3
      <4>2. CASE conf[t] = {}
        <5>1. y = 0 BY <1>16, <4>1, <4>2
        <5>2. top \in Nat BY <1>12, <3>2
        <5> QED BY <5>1, <5>2
      <4>3. CASE conf[t] # {}
        <5>1. y \in conf[t] BY <1>16, <4>1, <4>3
        <5> QED BY <1>13, <3>2, <5>1
      <4> QED BY <4>2, <4>3
    <3>8. GreatestOf(values) \in values /\ v <= GreatestOf(values) BY <2>5, <3>6
    <3>9. GreatestOf(values) <= top BY <3>7, <3>8
    <3>10. top \in Nat /\ v \in Nat /\ GreatestOf(values) \in Nat
      BY <1>12, <2>4, <3>2, <3>6, <3>8
    <3>11. GreatestOf(values) = top BY <3>5, <3>8, <3>9, <3>10
    <3> QED BY <2>1, <3>1, <3>11
  <2> QED BY <2>7, <2>8
<1>19. ASSUME q.op = "min", \A s \in ok : data[s] # <<>> PROVE Merged(q, outcome).value = LeastOf(all)
  <2>1. Merged(q, outcome).value = LeastOf(values)
    BY <1>1, <1>3, <1>19 DEF Merged, Answered
  <2>2. \A s \in ok : outcome[s].value = LeastOf(conf[s])
    BY <1>2, <1>17, <1>19, AggregatePart
  <2>3. values = {LeastOf(conf[s]) : s \in ok} BY <1>3, <2>2
  <2>4. ASSUME NEW s \in ok PROVE conf[s] # {}
    <3>1. PICK ids : ids = data[s] OBVIOUS
    <3>2. ids \in Seq(RecordIds) /\ ids # <<>> BY <1>5, <1>19, <3>1
    <3>3. 1 \in DOMAIN ids BY <3>2
    <3>4. ids[1] \in IdSet(ids) BY <3>3 DEF IdSet, Range
    <3> QED BY <1>2, <3>1, <3>4
  <2>5. values \subseteq Nat BY <1>9, <1>16, <2>3, <2>4
  <2>6. /\ values = {} => LeastOf(values) = 0
        /\ values # {} => LeastOf(values) \in values /\ \A y \in values : LeastOf(values) <= y
    BY <1>15, <2>5, Extremes
  <2>7. /\ all = {} => LeastOf(all) = 0
        /\ all # {} => LeastOf(all) \in all /\ \A y \in all : LeastOf(all) <= y
    BY <1>12, Extremes
  <2>8. CASE all = {}
    <3>1. ok = {} BY <1>13, <2>4, <2>8
    <3>2. values = {} BY <2>3, <3>1
    <3> QED BY <2>1, <2>6, <2>7, <2>8, <3>2
  <2>9. CASE all # {}
    <3>1. PICK low : low = LeastOf(all) OBVIOUS
    <3>2. low \in all /\ \A y \in all : low <= y BY <2>7, <2>9, <3>1
    <3>3. PICK s \in ok : low \in conf[s] BY <1>14, <3>2
    <3>4. PICK v : v = LeastOf(conf[s]) OBVIOUS
    <3>5. v \in conf[s] /\ v <= low BY <1>16, <3>3, <3>4
    <3>6. v \in values BY <2>3, <3>4
    <3>7. ASSUME NEW y \in values PROVE low <= y
      <4>1. PICK t \in ok : y = LeastOf(conf[t]) BY <2>3
      <4>2. y \in conf[t] BY <1>16, <2>4, <4>1
      <4> QED BY <1>13, <3>2, <4>2
    <3>8. LeastOf(values) \in values /\ LeastOf(values) <= v BY <2>6, <3>6
    <3>9. low <= LeastOf(values) BY <3>7, <3>8
    <3>10. low \in Nat /\ v \in Nat /\ LeastOf(values) \in Nat
      BY <1>12, <2>5, <3>2, <3>6, <3>8
    <3>11. LeastOf(values) = low BY <3>5, <3>8, <3>9, <3>10
    <3> QED BY <2>1, <3>1, <3>11
  <2> QED BY <2>8, <2>9
<1> QED BY <1>1, <1>18, <1>19
\* Storing a record that no shard has.
LEMMA SeedData ==
  ASSUME DataOK, NEW c \in Collections, NEW id \in RecordIds, Seed(c, id)
  PROVE  DataOK'
<1>1. PICK home : home = RouteWrite(c, id) OBVIOUS
<1>2. /\ data' = [data EXCEPT ![home] = Append(@, id)]
      /\ \A s \in Shards : id \notin IdSet(data[s])
  BY <1>1 DEF Seed, DataOK
<1>3. DOMAIN data' = Shards BY <1>2 DEF DataOK
<1>4. ASSUME NEW s \in Shards
      PROVE  /\ data'[s] \in Seq(RecordIds)
             /\ \A i, j \in DOMAIN data'[s] : data'[s][i] = data'[s][j] => i = j
             /\ IdSet(data'[s]) \subseteq IdSet(data[s]) \cup (IF s = home THEN {id} ELSE {})
  <2>1. PICK old : old = data[s] OBVIOUS
  <2>2. /\ old \in Seq(RecordIds) /\ \A i, j \in DOMAIN old : old[i] = old[j] => i = j
        /\ id \notin IdSet(old)
    BY <1>2, <2>1 DEF DataOK
  <2>3. CASE s = home
    <3>1. PICK new : new = data'[s] OBVIOUS
    <3>2. new = Append(old, id) BY <1>2, <2>1, <2>3, <3>1 DEF DataOK
    <3>3. /\ new \in Seq(RecordIds) /\ DOMAIN new = 1 .. Len(old) + 1 /\ DOMAIN old = 1 .. Len(old)
          /\ \A i \in 1 .. Len(old) : new[i] = old[i]
          /\ new[Len(old) + 1] = id /\ Len(old) \in Nat
      BY <2>2, <3>2
    <3>4. \A i \in 1 .. Len(old) : old[i] # id BY <2>2, <3>3 DEF IdSet, Range
    <3>5. \A i \in DOMAIN new : i \in 1 .. Len(old) \/ i = Len(old) + 1 BY <3>3
    <3>6. \A i, j \in DOMAIN new : new[i] = new[j] => i = j BY <2>2, <3>3, <3>4, <3>5
    <3>7. IdSet(new) \subseteq IdSet(old) \cup {id} BY <3>3, <3>5 DEF IdSet, Range
    <3> QED BY <2>1, <2>3, <3>1, <3>3, <3>6, <3>7
  <2>4. CASE s # home
    <3>1. data'[s] = old BY <1>2, <2>1, <2>4 DEF DataOK
    <3> QED BY <2>1, <2>2, <3>1
  <2> QED BY <2>3, <2>4
<1>5. ASSUME NEW s \in Shards, NEW t \in Shards, s # t, NEW x, x \in IdSet(data'[s]), x \in IdSet(data'[t])
      PROVE  FALSE
  <2>1. \A r \in Shards : IdSet(data'[r]) \subseteq IdSet(data[r]) \cup (IF r = home THEN {id} ELSE {})
    BY <1>4
  <2>2. x \in IdSet(data[s]) \/ (s = home /\ x = id) BY <1>5, <2>1
  <2>3. x \in IdSet(data[t]) \/ (t = home /\ x = id) BY <1>5, <2>1
  <2> QED BY <1>2, <1>5, <2>2, <2>3 DEF DataOK
<1>6. \A s, t \in Shards : s # t => IdSet(data'[s]) \cap IdSet(data'[t]) = {} BY <1>5
<1>7. \A s \in Shards : /\ data'[s] \in Seq(RecordIds)
                        /\ \A i, j \in DOMAIN data'[s] : data'[s][i] = data'[s][j] => i = j
  BY <1>4
<1> QED BY <1>3, <1>6, <1>7 DEF DataOK, Shards, IdSet, Range

LEMMA InvariantA == ClusterSpec => []AInv
<1>1. ClusterInit => AInv
  <2> SUFFICES ASSUME ClusterInit PROVE AInv OBVIOUS
  <2>1. DOMAIN data = Shards /\ \A s \in Shards : data[s] = <<>> BY DEF ClusterInit
  <2>2. <<>> \in Seq(RecordIds) /\ IdSet(<<>>) = {} /\ DOMAIN <<>> = {} BY DEF IdSet, Range
  <2>3. DataOK
    <3>1. \A s \in Shards : data[s] \in Seq(RecordIds) BY <2>1, <2>2
    <3>2. \A s \in Shards : DOMAIN data[s] = {} BY <2>1, <2>2
    <3>3. \A s \in Shards : IdSet(data[s]) = {} BY <2>1, <2>2
    <3> QED BY <2>1, <3>1, <3>2, <3>3 DEF DataOK
  <2>4. ResultsOK BY DEF ClusterInit, ResultsOK
  <2> QED BY <2>3, <2>4 DEF AInv
<1>2. AInv /\ [ClusterNext]_clusterVars => AInv'
  <2> SUFFICES ASSUME AInv, [ClusterNext]_clusterVars PROVE AInv' OBVIOUS
  <2>1. ASSUME UNCHANGED data PROVE DataOK' BY <2>1 DEF AInv, DataOK, Shards, IdSet, Range
  <2>2. ASSUME UNCHANGED data PROVE \A s, q : ExecuteOnShard(s, q)' = ExecuteOnShard(s, q)
    BY <2>2, SameOutcome
  <2>3. ASSUME UNCHANGED <<data, results>>, phase' \notin {"scatter", "answered"} PROVE AInv'
    <3>1. DOMAIN results' \subseteq Shards' BY <2>3 DEF AInv, ResultsOK, Shards
    <3> QED BY <2>1, <2>3, <3>1 DEF AInv, ResultsOK
  <2>4. CASE Build
    <3>1. phase' = "build" /\ UNCHANGED <<data, results>> BY <2>4 DEF Build, queryVars
    <3> QED BY <2>3, <3>1
  <2>5. CASE NewCoordinator
    <3>1. phase' = "serve" /\ UNCHANGED <<data, results>> BY <2>5 DEF NewCoordinator
    <3> QED BY <2>3, <3>1
  <2>6. ASSUME NEW c \in Collections, NEW id \in RecordIds, Seed(c, id) PROVE AInv'
    <3>1. DataOK' BY <2>6, SeedData DEF AInv
    <3>2. phase' = "serve" /\ results' = results BY <2>6 DEF Seed
    <3>3. ResultsOK' BY <3>2 DEF AInv, ResultsOK, Shards
    <3> QED BY <3>1, <3>3 DEF AInv
  <2>7. ASSUME NEW q \in Queries, Execute(q) PROVE AInv'
    <3>1. phase' = "scatter" /\ query' = q /\ results' = [s \in {} |-> Failed] /\ data' = data
      BY <2>7 DEF Execute
    <3>2. DOMAIN results' = {} BY <3>1
    <3>3. ResultsOK' BY <3>1, <3>2 DEF ResultsOK, Queries
    <3> QED BY <2>1, <3>1, <3>3 DEF AInv
  <2>8. CASE ScatterChunk
    <3>1. phase' = "scatter" /\ phase = "scatter" /\ UNCHANGED <<data, query, results>>
      BY <2>8 DEF ScatterChunk
    <3>2. ResultsOK' BY <2>2, <3>1 DEF AInv, ResultsOK, Queries, Shards
    <3> QED BY <2>1, <3>1, <3>2 DEF AInv
  <2>9. ASSUME NEW s \in Shards, ShardAnswers(s) \/ ShardFails(s) PROVE AInv'
    <3>1. PICK outcome \in {Failed, ExecuteOnShard(s, query)} : ShardDone(s, outcome)
      BY <2>9 DEF ShardAnswers, ShardFails
    <3>2. /\ phase = "scatter" /\ phase' = "scatter" /\ UNCHANGED <<data, query>>
          /\ results' = [t \in DOMAIN results \cup {s} |-> IF t = s THEN outcome ELSE results[t]]
      BY <3>1 DEF ShardDone
    <3>3. query \in Queries /\ \A t \in DOMAIN results : results[t] \in {Failed, ExecuteOnShard(t, query)}
      BY <3>2 DEF AInv, ResultsOK
    <3>4. \A t \in DOMAIN results' : results'[t] \in {Failed, ExecuteOnShard(t, query)}
      BY <3>1, <3>2, <3>3
    <3>5. DOMAIN results' \subseteq Shards BY <3>2 DEF AInv, ResultsOK
    <3>6. ResultsOK' BY <2>2, <3>2, <3>3, <3>4, <3>5 DEF ResultsOK, Queries, Shards
    <3> QED BY <2>1, <3>2, <3>6 DEF AInv
  <2>10. CASE Gather
    <3>1. /\ phase = "scatter" /\ phase' = "answered" /\ UNCHANGED <<data, query, results>>
          /\ answer' = Merged(query, results)
      BY <2>10 DEF Gather
    <3>2. PICK merged : merged = Merged(query, results) OBVIOUS
    <3>3. Merged(query, results)' = merged BY <3>1, <3>2 DEF Merged
    <3>4. ResultsOK' BY <2>2, <3>1, <3>2, <3>3 DEF AInv, ResultsOK, Queries, Shards
    <3> QED BY <2>1, <3>1, <3>4 DEF AInv
  <2>11. CASE UNCHANGED clusterVars
    <3>1. UNCHANGED <<phase, data, query, results, answer>> BY <2>11 DEF clusterVars, queryVars
    <3>2. PICK merged : merged = Merged(query, results) OBVIOUS
    <3>3. Merged(query, results)' = merged BY <3>1, <3>2 DEF Merged
    <3>4. ResultsOK' BY <2>2, <3>1, <3>2, <3>3 DEF AInv, ResultsOK, Queries, Shards
    <3> QED BY <2>1, <3>1, <3>4 DEF AInv
  <2> QED BY <2>4, <2>5, <2>6, <2>7, <2>8, <2>9, <2>10, <2>11 DEF ClusterNext, QueryStep
<1> QED BY <1>1, <1>2, PTL DEF ClusterSpec

\* A merged answer is that of one query over the records of the shards that
\* answered, whatever the shards cut off and in whatever order they answered,
\* and shards_failed tells how many are missing (execute_on_shard, merge).
THEOREM AnswersExactHolds == ClusterSpec => []AnswersExact
<1>1. AInv => AnswersExact
  <2> SUFFICES ASSUME AInv, phase = "answered" PROVE AnswersExact
    BY DEF AnswersExact
  <2>1. PICK ok : ok = Answered(results) OBVIOUS
  <2>2. PICK all : all = Stored(results) OBVIOUS
  <2>3. PICK got : got = IdSet(answer.records) OBVIOUS
  <2>4. DataOK /\ answer = Merged(query, results) BY DEF AInv, ResultsOK
  <2>5. Genuine(query, results)
    <3>1. \A s \in Answered(results) : results[s] # Failed BY DEF Failed, Answered
    <3>2. Answered(results) \subseteq DOMAIN results BY DEF Answered
    <3> QED BY <3>1, <3>2 DEF AInv, ResultsOK, Genuine
  <2>6. answer.queried = answer.failed + Cardinality(ok)
    <3>1. IsFiniteSet(DOMAIN results) BY <2>4, <2>5, StoredFinite
    <3>2. ok \subseteq DOMAIN results BY <2>1 DEF Answered
    <3>3. PICK rest : rest = DOMAIN results \ ok OBVIOUS
    <3>4. answer.queried = Cardinality(DOMAIN results) /\ answer.failed = Cardinality(rest)
      BY <2>1, <2>4, <3>3 DEF Merged, Answered
    <3>5. IsFiniteSet(rest) /\ IsFiniteSet(ok) BY <3>1, <3>2, <3>3, FS_Subset
    <3>6. rest \cup ok = DOMAIN results /\ rest \cap ok = {} BY <3>2, <3>3
    <3>7. Cardinality(DOMAIN results) = Cardinality(rest) + Cardinality(ok) - 0
      BY <3>5, <3>6, FS_Union, FS_EmptySet
    <3>8. Cardinality(rest) \in Nat /\ Cardinality(ok) \in Nat BY <3>5, FS_CardinalityType
    <3> QED BY <3>4, <3>7, <3>8
  <2>7. ASSUME query.kind = "scan"
        PROVE  /\ got \subseteq all
               /\ Cardinality(got) = IF query.limit = 0 \/ Cardinality(all) < query.limit
                                     THEN Cardinality(all) ELSE query.limit
    BY <2>2, <2>3, <2>4, <2>5, <2>7, MergedScan
  <2>8. ASSUME query.kind = "vector"
        PROVE  /\ got \subseteq all
               /\ Cardinality(got) = IF Cardinality(all) < query.topK
                                     THEN Cardinality(all) ELSE query.topK
               /\ \A r \in got : \A u \in all \ got : Score[r] >= Score[u]
    BY <2>2, <2>3, <2>4, <2>5, <2>8, MergedVector
  <2>9. ASSUME query.kind = "aggregate"
        PROVE  /\ query.op \in {"count", "avg"} => answer.count = Cardinality(all)
               /\ query.op \in {"sum", "avg"} => answer.value = SumOf(Confidence, all)
               /\ query.op = "max" => answer.value = GreatestOf({Confidence[r] : r \in all})
               /\ query.op = "min" /\ (\A s \in ok : data[s] # <<>>) =>
                    answer.value = LeastOf({Confidence[r] : r \in all})
    <3>1. /\ query.op \in {"count", "avg"} => answer.count = Cardinality(all)
          /\ query.op \in {"sum", "avg"} => answer.value = SumOf(Confidence, all)
      BY <2>2, <2>4, <2>5, <2>9, MergedSums
    <3>2. /\ query.op = "max" => answer.value = GreatestOf({Confidence[r] : r \in all})
          /\ query.op = "min" /\ (\A s \in ok : data[s] # <<>>) =>
               answer.value = LeastOf({Confidence[r] : r \in all})
      BY <2>1, <2>2, <2>4, <2>5, <2>9, MergedExtremes
    <3> QED BY <3>1, <3>2
  <2>10. ok = {s \in DOMAIN results : results[s].ok} BY <2>1 DEF Answered
  <2>11. all = UNION {IdSet(data[s]) : s \in ok} BY <2>1, <2>2 DEF Stored
  <2> QED BY <2>3, <2>6, <2>7, <2>8, <2>9, <2>10, <2>11 DEF AnswersExact
<1> QED BY <1>1, InvariantA, PTL
=============================================================================
