------------------------------- MODULE MCRaft -------------------------------
(***************************************************************************)
(* The Raft nodes for model checking.  Nodes are interchangeable.          *)
(***************************************************************************)
EXTENDS Raft, TLC

Symmetry == Permutations(Nodes)

\* While calls of one node are past their lock the other nodes wait.  Its own
\* calls overlap as they like, and so do its crashes, with everything others
\* have sent before; what this bound leaves out is a call during which the
\* node sends, is answered and hears the answer.  The theorems of RaftProofs
\* are about Spec, without this bound.
MCNext == \E n \in Nodes : (\A p \in Peers(n) : jobs[p] = {}) /\ Step(n)
MCSpec == Init /\ [][MCNext]_vars
=============================================================================
