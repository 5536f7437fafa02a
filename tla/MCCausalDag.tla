----------------------------- MODULE MCCausalDag -----------------------------
(***************************************************************************)
(* A small instance of the causal DAG index by itself: three facts of      *)
(* which one pair is materialized.                                         *)
(***************************************************************************)
EXTENDS CausalDag

MCHotPairs == {<<1, 3>>}

MCDagSpec == DagInit /\ [][DagNext]_dagVars
=============================================================================
