------------------------------ MODULE MCStorage ------------------------------
(***************************************************************************)
(* Small instances of what is checked with one caller: the LSM tree with   *)
(* its flush tasks, the version store, and the shard map with its          *)
(* coordinator.  They share nothing: a behaviour is about one.             *)
(***************************************************************************)
EXTENDS MCLsmTree, MCMvcc, MCCluster

VARIABLE part       \* what a behaviour is about
storageVars == <<vars, mvccVars, clusterVars, part>>

StorageInit == part \in {"lsm", "mvcc", "cluster"} /\ Init /\ MvccInit /\ ClusterInit
StorageNext ==
  /\ UNCHANGED part
  /\ \/ part = "lsm" /\ Next /\ UNCHANGED <<mvccVars, clusterVars>>
     \/ part = "mvcc" /\ MvccNext /\ UNCHANGED <<vars, clusterVars>>
     \/ part = "cluster" /\ ClusterNext /\ UNCHANGED <<vars, mvccVars>>

StorageSpec == StorageInit /\ [][StorageNext]_storageVars /\ Fairness /\ ClusterFairness
=============================================================================
