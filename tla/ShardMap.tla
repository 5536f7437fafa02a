------------------------------ MODULE ShardMap ------------------------------
(***************************************************************************)
(* The consistent-hash shard map (fundb-cluster: sharding.rs).             *)
(*                                                                         *)
(* Every node has VirtualNodes entries on the ring; each entry carries a   *)
(* shard number of its own and the node that put it there.  A record       *)
(* belongs to the shard of the first entry at or after the hash of its     *)
(* key.  FNV-1a is given by the constant functions: what matters is where  *)
(* the hashes lie, and that no two ring entries share one.                 *)
(***************************************************************************)
EXTENDS Integers, Sequences, FiniteSets, SequencesExt

CONSTANTS
  NodeIds,        \* node ids that may join; 0 stands for "no node"
  VirtualNodes,   \* entries of a node
  Collections, RecordIds,
  RingHash,       \* RingHash[n][r]: hash of "n#r"
  KeyHash,        \* KeyHash[c][id]: hash of the routing key of a record
  ShardHash(_),   \* hash of a shard number
  Factors,        \* replication factors an operator may set
  MaxShards       \* bound: shard numbers handed out

ASSUME ShardMapAssumption ==
  /\ NodeIds \subseteq Nat \ {0} /\ IsFiniteSet(NodeIds)
  /\ VirtualNodes \in Nat \ {0} /\ MaxShards \in Nat
  /\ Factors \subseteq Nat
  /\ RingHash \in [NodeIds -> [0 .. VirtualNodes - 1 -> Nat]]
  /\ \A n, p \in NodeIds : \A r, q \in 0 .. VirtualNodes - 1 :
       RingHash[n][r] = RingHash[p][q] => n = p /\ r = q
  /\ KeyHash \in [Collections -> [RecordIds -> Nat]]

VARIABLES
  nodes,         \* node_addrs: the registered nodes
  ring,          \* the entries [hash, node, shard]; the Vec is sorted by hash
  shardOwners,   \* shard_owners, a partial function
  collectionShards,
  replicationFactor,
  nextShardId,
  migrations,    \* what the last topology change returned
  cleared        \* history: shard numbers below it lost their owner with the last node

mapVars == <<nodes, ring, shardOwners, collectionShards, replicationFactor, nextShardId,
             migrations, cleared>>

-----------------------------------------------------------------------------
(* Routing                                                                 *)

\* S as a sequence, by counting what comes before (SetToSortSeq tries all
\* permutations).
InOrder(S, Before(_, _)) ==
  [i \in 1 .. Cardinality(S) |->
     CHOOSE x \in S : Cardinality({y \in S : Before(y, x)}) = i - 1]

Least(S) == CHOOSE e \in S : \A f \in S : e.hash <= f.hash

\* Mutant: the entry is picked by the hash modulo the length of the ring.
SuccessorMutant(r, h) == InOrder(r, LAMBDA e, f : e.hash < f.hash)[(h % Cardinality(r)) + 1]

\* successor_shard: the first entry at or after h, else the first of all.
Successor(r, h) ==
  LET after == {e \in r : e.hash >= h}
  IN IF after # {} THEN Least(after) ELSE Least(r)

\* shard_for; 0 if the ring is empty.
ShardFor(r, c, id) == IF r = {} THEN 0 ELSE Successor(r, KeyHash[c][id]).shard

\* The call also records that the collection uses the shard.
Route(c, id) ==
  /\ ring # {}
  /\ collectionShards' = [collectionShards EXCEPT ![c] = @ \cup {ShardFor(ring, c, id)}]
  /\ UNCHANGED <<nodes, ring, shardOwners, replicationFactor, nextShardId, migrations, cleared>>

-----------------------------------------------------------------------------
(* Topology                                                                *)

\* recompute_ownership: every entry's shard belongs to the entry's node.
\* Only shards that had another owner are reported.
Recomputed(r) == [s \in DOMAIN shardOwners \cup {e.shard : e \in r} |->
                    IF \E e \in r : e.shard = s
                    THEN (CHOOSE e \in r : e.shard = s).node
                    ELSE shardOwners[s]]

\* add_node for a node that is not registered; otherwise nothing happens.
AddNode(n) ==
  /\ n \notin nodes
  /\ nextShardId + VirtualNodes <= MaxShards
  /\ nodes' = nodes \cup {n}
  /\ ring' = ring \cup {[hash |-> RingHash[n][r], node |-> n, shard |-> nextShardId + r] :
                          r \in 0 .. VirtualNodes - 1}
  /\ nextShardId' = nextShardId + VirtualNodes
  /\ shardOwners' = Recomputed(ring')
  /\ migrations' = {[shard |-> s, from |-> shardOwners[s], to |-> n] :
                      s \in {t \in DOMAIN shardOwners : /\ shardOwners[t] # shardOwners'[t]
                                                        /\ shardOwners'[t] = n}}
  /\ UNCHANGED <<collectionShards, replicationFactor, cleared>>

\* The owner remove_node gives a shard: from the hash of its entry while it
\* has one, else from the hash of its number.
NewOwner(r, s) ==
  IF \E e \in r : e.shard = s
  THEN Successor(r, (CHOOSE e \in r : e.shard = s).hash).node
  ELSE Successor(r, ShardHash(s)).node

\* Mutant: shards inherited from nodes that left earlier are forgotten.
OwnedByMutant(n) == {e.shard : e \in {f \in ring : f.node = n}}

\* The shards remove_node has to give away.
OwnedBy(n) == {s \in DOMAIN shardOwners : shardOwners[s] = n}

\* Mutant: a shard whose entry is gone is moved without being reported.
MigrationsFromMutant(n, left) ==
  {[shard |-> s, from |-> n, to |-> IF left = {} THEN 0 ELSE NewOwner(left, s)] :
     s \in OwnedBy(n) \cap {e.shard : e \in left}}

\* What remove_node reports; left is the rest of the ring.
MigrationsFrom(n, left) ==
  {[shard |-> s, from |-> n, to |-> IF left = {} THEN 0 ELSE NewOwner(left, s)] : s \in OwnedBy(n)}

\* remove_node for a registered node: with the last one all owners go.
RemoveNode(n) ==
  /\ n \in nodes
  /\ LET left == {e \in ring : e.node # n}
     IN /\ nodes' = nodes \ {n}
        /\ ring' = left
        /\ shardOwners' = IF left = {} THEN [s \in {} |-> 0]
                          ELSE [s \in DOMAIN shardOwners |->
                                  IF s \in OwnedBy(n) THEN NewOwner(left, s) ELSE shardOwners[s]]
        /\ migrations' = MigrationsFrom(n, left)
        /\ cleared' = IF left = {} THEN nextShardId ELSE cleared
  /\ UNCHANGED <<collectionShards, replicationFactor, nextShardId>>

SetReplicationFactor(f) ==
  /\ replicationFactor' = f
  /\ UNCHANGED <<nodes, ring, shardOwners, collectionShards, nextShardId, migrations, cleared>>

-----------------------------------------------------------------------------
(* Replication groups                                                      *)

\* The entries of the ring in the order replication_group visits them, after the
\* leader's first entry.
Walk(leader) ==
  LET sorted == InOrder(ring, LAMBDA e, f : e.hash < f.hash)
      total == Len(sorted)
      start == CHOOSE i \in 1 .. total :
                 sorted[i].node = leader /\ \A j \in 1 .. i - 1 : sorted[j].node # leader
  IN [i \in 1 .. total - 1 |-> sorted[((start - 1 + i) % total) + 1].node]

\* Mutant: the next rf - 1 entries are taken, not the next rf - 1 nodes.
FollowersMutant(leader) ==
  LET walk == Walk(leader)
      n == IF replicationFactor - 1 < Len(walk) THEN replicationFactor - 1 ELSE Len(walk)
  IN SetToSeq(Range(SubSeq(walk, 1, n)) \ {leader})

\* The followers replication_group gives a leader: the first rf - 1 other nodes
\* met walking once around the ring from the leader's first entry.
Followers(leader) ==
  LET walk == Walk(leader)
      found[k \in 0 .. Len(walk)] ==
        IF k = 0 THEN <<>>
        ELSE LET old == found[k - 1]
             IN IF Len(old) < replicationFactor - 1 /\ walk[k] \notin Range(old) \cup {leader}
                THEN Append(old, walk[k]) ELSE old
  IN IF replicationFactor > 1 /\ Cardinality(ring) > 1 THEN found[Len(walk)] ELSE <<>>

-----------------------------------------------------------------------------
MapInit ==
  /\ nodes = {}
  /\ ring = {}
  /\ shardOwners = [s \in {} |-> 0]
  /\ collectionShards = [c \in Collections |-> {}]
  /\ replicationFactor = 1
  /\ nextShardId = 0
  /\ migrations = {}
  /\ cleared = 0

MapNext ==
  \/ \E n \in NodeIds : AddNode(n) \/ RemoveNode(n)
  \/ \E c \in Collections : \E id \in RecordIds : Route(c, id)
  \/ \E f \in Factors : SetReplicationFactor(f)

-----------------------------------------------------------------------------
(* Properties                                                              *)

\* Wherever a collection has ever been routed since the ring was last empty,
\* leader_addr finds a registered owner, although the list of a collection is
\* never revised and the shard's own ring entry may be gone; a shard on the
\* ring belongs to the node of its entry.
ShardsOwned ==
  /\ \A c \in Collections : \A s \in collectionShards[c] :
       s >= cleared => s \in DOMAIN shardOwners /\ shardOwners[s] \in nodes
  /\ \A e \in ring : shardOwners[e.shard] = e.node

\* Consistent hashing: a record changes its shard only if the new shard came
\* with the node that joined, or the old one went with the node that left
\* (add_node, remove_node, successor_shard).
RingStability ==
  [][\A c \in Collections : \A id \in RecordIds :
       LET old == Successor(ring, KeyHash[c][id])
           new == Successor(ring', KeyHash[c][id])
       IN ring # {} /\ ring' # {} =>
            old = new \/ new \notin ring \/ old \notin ring']_mapVars

\* The migrations a topology change returns are exactly the changes of
\* owners it made, and lead to registered nodes unless none is left.
MigrationsExact ==
  [][nodes' # nodes =>
       LET changed == {s \in DOMAIN shardOwners :
                         s \notin DOMAIN shardOwners' \/ shardOwners'[s] # shardOwners[s]}
       IN /\ {m.shard : m \in migrations'} = changed
          /\ \A m \in migrations' : /\ m.from = shardOwners[m.shard]
                                    /\ m.to \in nodes' \/ (nodes' = {} /\ m.to = 0)
                                    /\ nodes' # {} => shardOwners'[m.shard] = m.to]_mapVars

\* A replication group has as many distinct live members as the factor asks
\* for, or all nodes if there are fewer, wherever the walk starts.
GroupsComplete ==
  \A n \in nodes :
    LET group == Range(Followers(n)) \cup {n}
        want == IF replicationFactor < 1 THEN 1 ELSE replicationFactor
    IN /\ group \subseteq nodes
       /\ Len(Followers(n)) + 1 = Cardinality(group)
       /\ Cardinality(group) = IF want < Cardinality(nodes) THEN want ELSE Cardinality(nodes)
=============================================================================
