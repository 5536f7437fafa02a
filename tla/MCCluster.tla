----------------------------- MODULE MCCluster ------------------------------
(***************************************************************************)
(* The shard map and the coordinator for model checking: hashes that       *)
(* interleave the entries of the nodes and put keys on both sides of the   *)
(* ring's seam.                                                            *)
(***************************************************************************)
EXTENDS DistQuery, TLC

MCRingHash == [n \in NodeIds |-> [r \in 0 .. VirtualNodes - 1 |-> IF r = 0 THEN 10 * n ELSE 80 - 10 * n]]
MCKeyHash == [c \in Collections |-> 1 :> 5 @@ 2 :> 25 @@ 3 :> 90]
MCWriteHash == [c \in Collections |-> 1 :> 4 @@ 2 :> 7 @@ 3 :> 6]
MCShardHash(s) == (s * 13) % 40
MCConfidence == 1 :> 2 @@ 2 :> 5 @@ 3 :> 3
MCScore == 1 :> 9 @@ 2 :> 4 @@ 3 :> 7

\* The coordinator reads nothing of the map but the shards of the collections:
\* other states of the map are not taken into service.
ServedMaps == phase # "build" => nodes = NodeIds /\ replicationFactor = 1 /\ cleared = 0
=============================================================================
