----------------------------- MODULE CausalWalks -----------------------------
(***************************************************************************)
(* What the causal DAG answers about effects and causes: the traversals of *)
(* the index (causal_dag.rs) and of CausalEngine (tier1.rs), which keeps   *)
(* the same two maps.  The products of strengths are exact in the          *)
(* instances.                                                              *)
(***************************************************************************)
EXTENDS CausalDag

CONSTANT
  StabilityOf       \* fact -> the stability score of the edges to it, 64 for none

VARIABLE
  engine            \* the maps are those of a CausalEngine, not of the index
walksVars == <<dagVars, engine>>

WalksInit == DagInit /\ engine \in BOOLEAN

\* CausalEngine.insert_edge: a cycle is refused, a strength never.
InsertEngineEdge(e) ==
  /\ ~CanReach(e.target, e.source)
  /\ Link(e)

WalksNext ==
  /\ IF engine
     THEN /\ CausalEdgeCount < MaxCausalEdges
          /\ \E a, b \in Facts, s \in EdgeStrengths : InsertEngineEdge([source |-> a, target |-> b, strength |-> s])
     ELSE DagNext
  /\ UNCHANGED engine

-----------------------------------------------------------------------------
(* Effects and causes *)

\* traverse_reachable: `end` names the end of an edge that is the neighbour,
\* the stack holds [at, depth, strength]; a neighbour is pushed when it is
\* reached with more strength than before.
RECURSIVE Traverse(_, _, _, _, _)
Traverse(adj, end, maxDepth, stack, best) ==
  IF stack = <<>> THEN best
  ELSE LET top == Last(stack)
           Visit(s, e) ==
             LET n == e[end]
                 strength == Times(top.strength, e.strength)
             IN IF n \in DOMAIN s.best /\ s.best[n] >= strength THEN s
                ELSE [best |-> (n :> strength) @@ s.best,
                      stack |-> Append(s.stack, [at |-> n, depth |-> top.depth + 1, strength |-> strength])]
           next == FoldLeft(Visit, [best |-> best, stack |-> Front(stack)],
                            IF top.depth < maxDepth THEN adj[top.at] ELSE <<>>)
       IN Traverse(adj, end, maxDepth, next.stack, next.best)
StackOf(n) == <<[at |-> n, depth |-> 0, strength |-> Certain]>>
Effects(from, maxDepth) == Traverse(adjacency, "target", maxDepth, StackOf(from), <<>>)
Causes(of, maxDepth) == Traverse(reverse, "source", maxDepth, StackOf(of), <<>>)

-----------------------------------------------------------------------------
(* CausalEngine (tier1.rs): the same two maps and cycle check, with a search *)
(* that filters single edges and a traversal in order of distance.           *)

\* dfs_trace: the weakest edge counts, not the product.
RECURSIVE DfsTrace(_, _, _, _, _)
DfsTrace(nodes, path, to, maxDepth, admitted) ==
  IF Last(nodes) = to /\ path.edges # <<>> THEN {path}
  ELSE IF Len(path.edges) >= maxDepth THEN {}
  ELSE UNION {DfsTrace(Append(nodes, e.target),
                       [edges |-> Append(path.edges, e), strength |-> Times(path.strength, e.strength),
                        stability |-> Min({path.stability, StabilityOf[e.target]})], to, maxDepth, admitted) :
                e \in {f \in ToSet(adjacency[Last(nodes)]) \cap admitted : f.target \notin ToSet(nodes)}}
Trace(from, to, maxDepth, minStrength, minStability) ==
  DfsTrace(<<from>>, [edges |-> <<>>, strength |-> Certain, stability |-> Certain], to, maxDepth,
           {e \in CausalEdges : e.strength >= minStrength /\ StabilityOf[e.target] >= minStability})

\* bfs_reachable: a queue where traverse_reachable has a stack.
RECURSIVE BfsReachable(_, _, _, _, _)
BfsReachable(adj, end, maxDepth, queue, best) ==
  IF queue = <<>> THEN best
  ELSE LET first == Head(queue)
           Reached(s, e) ==
             LET n == e[end]
                 strength == Times(first.strength, e.strength)
             IN IF n \in DOMAIN s.best /\ s.best[n] >= strength THEN s
                ELSE [best |-> (n :> strength) @@ s.best,
                      queue |-> Append(s.queue, [at |-> n, depth |-> first.depth + 1, strength |-> strength])]
           next == FoldLeft(Reached, [best |-> best, queue |-> Tail(queue)],
                            IF first.depth < maxDepth THEN adj[first.at] ELSE <<>>)
       IN BfsReachable(adj, end, maxDepth, next.queue, next.best)
EffectsOf(event, maxDepth) == BfsReachable(adjacency, "target", maxDepth, StackOf(event), <<>>)
CausesOf(event, maxDepth) == BfsReachable(reverse, "source", maxDepth, StackOf(event), <<>>)

-----------------------------------------------------------------------------
(* Properties *)

\* Effects and causes: effects() without a depth limit gives exactly the facts a
\* chain leads to, each with its strongest chain, causes() says the same
\* backwards, and with a limit every entry stands for a chain that short.
Reach ==
  CausalEdges # {} =>
  LET chains == Chains
      all == Cardinality(Facts)
      effects == [d \in 1..all |-> [a \in Facts |-> Effects(a, d)]]
      causes == [b \in Facts |-> Causes(b, all)]
  IN \A a, b \in Facts :
       LET from == Between(chains, a, b)
       IN /\ b \in DOMAIN effects[all][a] <=> from # {}
          /\ b \in DOMAIN effects[all][a] <=> a \in DOMAIN causes[b]
          /\ b \in DOMAIN effects[all][a] =>
               /\ effects[all][a][b] = Max({StrengthOf(p) : p \in from})
               /\ causes[b][a] = effects[all][a][b]
          /\ \A d \in 1..all : b \in DOMAIN effects[d][a] =>
               \E p \in from : Len(p) <= d /\ StrengthOf(p) = effects[d][a][b]

\* CausalEngine: trace() lists every chain of admitted edges up to max_depth,
\* and effects_of and causes_of find, under any depth limit, exactly what a
\* chain that short reaches, with the strongest such chain.
Engine ==
  CausalEdges # {} => LET chains == Chains
  IN \A a, b \in Facts, d \in 1..Cardinality(Facts) : LET
       short == {p \in Between(chains, a, b) : Len(p) <= d}
       strongest == IF short = {} THEN <<>> ELSE <<Max({StrengthOf(p) : p \in short})>>
       Found(best, n) == IF n \in DOMAIN best THEN <<best[n]>> ELSE <<>>
     IN /\ Found(EffectsOf(a, d), b) = strongest
        /\ Found(CausesOf(b, d), a) = strongest
        /\ \A min \in EdgeStrengths, stable \in Range(StabilityOf) :
             Trace(a, b, d, min, stable) =
               {[edges |-> p, strength |-> StrengthOf(p), stability |-> Min({StabilityOf[p[i].target] : i \in DOMAIN p})] :
                  p \in {q \in short : \A i \in DOMAIN q : q[i].strength >= min /\ StabilityOf[q[i].target] >= stable}}

\* After every sequence of insert_edge and materialize_closure the edges close no
\* cycle, and paths, effects and causes of the index, and trace, effects_of and
\* causes_of of the engine, answer with the chains that are there.
DagExact == Acyclic /\ IF engine THEN Engine ELSE Paths /\ Reach
=============================================================================
