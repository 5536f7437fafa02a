------------------------------- MODULE MCMvcc -------------------------------
(***************************************************************************)
(* The version store for model checking.                                   *)
(***************************************************************************)
EXTENDS Mvcc

\* Two overlapping windows, one of which ends before the clock does.
MCValidTimes == {[from |-> 0, to |-> 2], [from |-> 1, to |-> 9]}
=============================================================================
