----------------------------- MODULE MCLsmTree -----------------------------
(***************************************************************************)
(* The LSM tree for model checking, and the abstract store it implements   *)
(* when one caller at a time uses it.                                      *)
(***************************************************************************)
EXTENDS LsmTree

MCLeveled == [kind |-> "Leveled", limit |-> 7]

MCSymmetry == Permutations(Key) \cup Permutations(Client)

AbsStore == [k \in Key |-> Visible(Current(k))]
AbsPhase == [c \in Client |-> IF loc[c].lsn # 0 /\ pc[c] # "insert" THEN "applied" ELSE "idle"]

Kv == INSTANCE KvStore WITH
  Record <- 1..MaxWal, store <- AbsStore, phase <- AbsPhase, reply <- reply

\* With one caller, and flush tasks running behind its back, LsmTree is a
\* plain key-value store: write() and delete() take effect at the memtable
\* insert, get() answers with the current record of its key whichever layer
\* or cache it found it in, and moving records between layers is invisible.
ImplementsKvStore == Kv!KvSpec
=============================================================================
