------------------------------ MODULE CausalDag ------------------------------
(***************************************************************************)
(* The causal DAG index (causal_dag.rs): edges in a forward and a reverse  *)
(* map, a cycle check on insertion, path search, and a cache of path lists *)
(* for hot pairs that nothing refreshes.  A strength is a number of 64ths, *)
(* a path the sequence of its edges: edges that agree in both ends and the *)
(* strength are one to it.                                                 *)
(***************************************************************************)
EXTENDS Integers, Sequences, FiniteSets, SequencesExt

CONSTANTS
  Facts,            \* the record ids the edges connect
  EdgeStrengths,    \* strengths callers give, in 64ths; more than 64 is no strength
  ClosureDepth,     \* the depth materialize_closure searches to
  HotPairs,         \* pairs callers materialize; facts are interchangeable otherwise
  MaxCausalEdges    \* bound: edges inserted

ASSUME DagAssumption ==
  /\ IsFiniteSet(Facts) /\ ClosureDepth \in Nat
  /\ EdgeStrengths \subseteq Int /\ HotPairs \subseteq Facts \X Facts

VARIABLES
  adjacency,        \* fact -> its outgoing edges, oldest first
  reverse,          \* fact -> its incoming edges, oldest first
  closureCache,     \* <<from, to>> -> cached paths
  fresh             \* history: pairs cached since the last insertion
dagVars == <<adjacency, reverse, closureCache, fresh>>

Certain == 64
Times(x, y) == (x * y) \div Certain

CausalEdges == UNION {ToSet(adjacency[n]) : n \in Facts}
CausalEdgeCount == FoldFunction(LAMBDA s, n : n + Len(s), 0, adjacency)

\* can_reach: everything the depth-first search visits.
CanReach(from, target) ==
  LET visited[k \in Nat] ==
        IF k = 0 THEN {from}
        ELSE visited[k - 1] \cup {e.target : e \in {f \in CausalEdges : f.source \in visited[k - 1]}}
  IN target \in visited[Cardinality(Facts)]

DagInit ==
  /\ adjacency = [n \in Facts |-> <<>>]
  /\ reverse = [n \in Facts |-> <<>>]
  /\ closureCache = <<>>
  /\ fresh = {}

Link(e) ==
  /\ adjacency' = [adjacency EXCEPT ![e.source] = Append(@, e)]
  /\ reverse' = [reverse EXCEPT ![e.target] = Append(@, e)]
  /\ fresh' = {}
  /\ UNCHANGED closureCache

\* Mutant: the cycle check starts at the wrong end.
InsertCausalEdgeMutant(e) ==
  /\ e.strength \in 0..Certain
  /\ ~CanReach(e.source, e.target)
  /\ Link(e)

\* insert_edge; the cache is left alone.
InsertCausalEdge(e) ==
  /\ e.strength \in 0..Certain
  /\ ~CanReach(e.target, e.source)
  /\ Link(e)

-----------------------------------------------------------------------------
(* Paths *)

\* A path from a node: its edges, and the product of their strengths.
EndOf(from, path) == IF path.edges = <<>> THEN from ELSE Last(path.edges).target
NodesOf(from, path) == {from} \cup {e.target : e \in ToSet(path.edges)}
Stepped(path, e) == [edges |-> Append(path.edges, e), strength |-> Times(path.strength, e.strength)]
Onwards(from, path, minStrength) ==
  {e \in ToSet(adjacency[EndOf(from, path)]) :
     Times(path.strength, e.strength) >= minStrength /\ e.target \notin NodesOf(from, path)}

\* dfs_paths: the paths of k edges the search with backtracking stands on; one
\* that has come to its target is a result and is not followed.
SearchPaths(from, to, maxDepth, minStrength) ==
  LET dfs[k \in 0 .. maxDepth] ==
        IF k = 0 THEN {[edges |-> <<>>, strength |-> Certain]}
        ELSE UNION {{Stepped(path, e) : e \in Onwards(from, path, minStrength)} :
                      path \in {q \in dfs[k - 1] : q.edges # <<>> => EndOf(from, q) # to}}
  IN {path \in UNION {dfs[k] : k \in 1 .. maxDepth} : EndOf(from, path) = to}

\* Mutant: a cached list is returned as it is.
CausalPathsMutant(from, to, maxDepth, minStrength) ==
  IF <<from, to>> \in DOMAIN closureCache THEN closureCache[<<from, to>>]
  ELSE SearchPaths(from, to, maxDepth, minStrength)

\* paths: a cached list is filtered by strength, not by depth.
CausalPaths(from, to, maxDepth, minStrength) ==
  IF <<from, to>> \in DOMAIN closureCache
  THEN {p \in closureCache[<<from, to>>] : p.strength >= minStrength}
  ELSE SearchPaths(from, to, maxDepth, minStrength)

MaterializeClosure(from, to) ==
  /\ closureCache' = [pair \in DOMAIN closureCache \cup {<<from, to>>} |->
                        IF pair = <<from, to>> THEN SearchPaths(from, to, ClosureDepth, 0) ELSE closureCache[pair]]
  /\ fresh' = fresh \cup {<<from, to>>}
  /\ UNCHANGED <<adjacency, reverse>>

DagNext ==
  \/ /\ CausalEdgeCount < MaxCausalEdges
     /\ \E a, b \in Facts, s \in EdgeStrengths : InsertCausalEdge([source |-> a, target |-> b, strength |-> s])
  \/ \E pair \in HotPairs : MaterializeClosure(pair[1], pair[2])

-----------------------------------------------------------------------------
(* Properties *)

\* The reference: sequences of edges of which each begins where the one
\* before it ends, and the products of their strengths.
Chains ==
  {p \in UNION {[1..n -> CausalEdges] : n \in 1..Cardinality(Facts)} :
     \A i \in 1..Len(p) - 1 : p[i].target = p[i + 1].source}
Between(chains, a, b) == {p \in chains : p[1].source = a /\ Last(p).target = b}
StrengthOf(p) ==
  LET product[k \in 0 .. Len(p)] == IF k = 0 THEN Certain ELSE Times(product[k - 1], p[k].strength)
  IN product[Len(p)]

\* The edges never close a cycle, whatever the order they come in (insert_edge).
Acyclic == \A p \in Chains : p[1].source # Last(p).target

\* paths() answers with chains that are there and are strong enough, with
\* their strengths; with all of them up to max_depth and no others while the pair
\* is not cached; and with all of them up to max_depth and the depth
\* materialize_closure searches to, too, until the next insert_edge leaves the
\* cache stale.
Paths ==
  CausalEdges # {} => LET chains == Chains
  IN \A from, to \in Facts, min \in EdgeStrengths : LET
       asked == {p \in Between(chains, from, to) : StrengthOf(p) >= min}
     IN \A max \in 1..Cardinality(Facts) : LET
          paths == CausalPaths(from, to, max, min)
          found == {p.edges : p \in paths}
        IN /\ \A p \in paths : p.edges \in asked /\ p.strength = StrengthOf(p.edges)
           /\ <<from, to>> \notin DOMAIN closureCache => found = {p \in asked : Len(p) <= max}
           /\ <<from, to>> \in fresh => {p \in asked : Len(p) <= max /\ Len(p) <= ClosureDepth} \subseteq found

\* "Find all simple paths from `from` to `to` with at most `max_depth` hops"
\* (the comment on paths, causal_dag.rs:100), cached pairs included.
HopsHeld ==
  \A from, to \in Facts, max \in 1..Cardinality(Facts), min \in EdgeStrengths :
    \A p \in CausalPaths(from, to, max, min) : Len(p.edges) <= max
=============================================================================
