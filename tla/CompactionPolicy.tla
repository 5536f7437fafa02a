-------------------------- MODULE CompactionPolicy --------------------------
(***************************************************************************)
(* When SSTables are merged and which ones.  A file is named by the        *)
(* timestamp of its creation, so a directory is a set of numbers and the   *)
(* ascending file-name order is <.                                         *)
(***************************************************************************)
EXTENDS Naturals, FiniteSets

\* The n smallest names of the set.
Oldest(n, names) ==
  {t \in names : Cardinality({u \in names : u < t}) < n}

\* A policy is [kind |-> "Leveled", limit |-> max_levels] or
\* [kind |-> "SizeTiered", limit |-> min_sstable_count].
ShouldCompact(policy, names) ==
  IF policy.kind = "Leveled"
  THEN Cardinality(names) > policy.limit * 4
  ELSE Cardinality(names) >= policy.limit

\* Leveled: the older half, rounded up.  SizeTiered: the oldest `limit`
\* files, none when there are fewer.
SelectFiles(policy, names) ==
  IF policy.kind = "Leveled"
  THEN Oldest((Cardinality(names) + 1) \div 2, names)
  ELSE IF Cardinality(names) < policy.limit THEN {}
       ELSE Oldest(policy.limit, names)
=============================================================================
