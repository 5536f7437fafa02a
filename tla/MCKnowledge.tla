----------------------------- MODULE MCKnowledge -----------------------------
(***************************************************************************)
(* Small instances of the indexes, the block cache, the memories of agents,*)
(* the context windows and the causal models.  They share nothing: a       *)
(* behaviour is about one.                                                 *)
(***************************************************************************)
EXTENDS CausalWalks, GraphIndex, Hnsw, BlockCache, AgentMemory, ContextWindow, Scm

VARIABLE part       \* what a behaviour is about

\* Vectors of two words: near ones, less near ones, strangers and no words.
MCEmbeddings == {<<1, 0>>, <<3, 1>>, <<3, 2>>, <<0, 1>>, <<0, 0>>}
MCStabilityOf == <<64, 32, 48>>
MCHotPairs == {<<1, 3>>}
\* Every strong and every weak edge of one predicate, a parallel one that differs,
\* and a cycle and a shortcut of the other.
NewEdge(s, p, o, c) == [subject |-> s, predicate |-> p, object |-> o, confidence |-> c]
MCNewEdges ==
  {NewEdge(s, "p", o, 32) : s, o \in 1..3}
  \cup {NewEdge(1, "p", 2, 64), NewEdge(2, "p", 3, 48), NewEdge(1, "r", 2, 64), NewEdge(2, "r", 1, 64),
         NewEdge(2, "r", 3, 64), NewEdge(1, "r", 3, 32)}
\* A vector that may come back elsewhere, and an upper layer that outgrows its
\* limit: four nodes of which each may keep two links.
MCPositionsOf == <<{0}, {1}, {2, 3}, {4}>>
MCLayerOf == <<1, 1, 2, 1>>

Memory(a, v, i) == [agent |-> a, embedding |-> v, importance |-> i, decay |-> 30]
MCNewMemories ==
  {Memory("a1", <<1, 0>>, 120), Memory("a1", <<1, 0>>, 50), Memory("a1", <<3, 1>>, 120), Memory("a1", <<3, 1>>, 50),
   Memory("a1", <<3, 2>>, 120), Memory("a1", <<0, 0>>, 120), Memory("a2", <<3, 1>>, 120)}

Record(t, v, c, r) == [tags |-> t, vector |-> v, confidence |-> c, relevance |-> r]
MCNewRecords ==
  {Record(<<"x">>, <<1, 0>>, 90, 80), Record(<<"x", "y">>, <<3, 1>>, 45, 60), Record(<<"not_x">>, <<0, 1>>, 35, 80),
   Record(<<"x">>, <<>>, 20, 40), Record(<<"z">>, <<0, 1>>, 60, 100)}
MCWindowOptions ==
  [maxTokens : {50, 140, 210}, coherence : {0, 40}, diversity : {30}, includeContradictions : BOOLEAN,
   priority : {"", "Confidence", "Relevance", "Recency"}]

\* Every variable has no equation or one of a few, with a coefficient for
\* each parent, and a diamond, a mismatch and an equation given twice.
Equation(v, parents) ==
  [variable |-> v, parents |-> parents, coefficients |-> [i \in DOMAIN parents |-> parents[i] + i], intercept |-> v]
EquationsOf(v) ==
  LET a == 1 + (v % 3)
      b == 1 + (a % 3)
  IN {<<>>} \cup {<<Equation(v, ps)>> : ps \in {<<a>>, <<b>>, <<a, b>>} \cup (IF v = 3 THEN {<<a, a>>, <<v>>, <<>>} ELSE {})}
MCEquationLists ==
  {x[1] \o x[2] \o x[3] : x \in EquationsOf(1) \X EquationsOf(2) \X EquationsOf(3)}
  \cup {<<Equation(3, <<4>>), Equation(2, <<4, 3>>), Equation(1, <<2, 3>>)>>,
        <<[Equation(1, <<2>>) EXCEPT !.coefficients = <<>>]>>,
        <<Equation(1, <<2>>), Equation(2, <<3>>), Equation(1, <<3, 2>>)>>}
MCObservedOf == <<7, 2, 5, 4>>
MCTestResults ==
  {S \cup T : S \in SUBSET {t \in (1..3) \X (2..4) \X {0} : t[1] < t[2]}, T \in {{}, {<<1, 3, 2>>}, {<<2, 4, 1>>, <<1, 2, 3>>}}}
MCArrowSets == {{}, {<<1, 2>>}, {<<2, 1>>, <<2, 3>>}}

knowledgeVars == <<walksVars, graphVars, hnswVars, cacheVars, memoryVars, contextVars, scmVars>>
KnowledgeInit ==
  /\ WalksInit /\ (part # "dag" => ~engine)
  /\ GraphInit /\ HnswInit /\ CacheInit /\ MemoryInit /\ ContextInit /\ ScmInit
KnowledgeNext ==
  \/ part = "dag" /\ WalksNext /\ UNCHANGED <<graphVars, hnswVars, cacheVars, memoryVars, contextVars, scmVars>>
  \/ part = "graph" /\ GraphNext /\ UNCHANGED <<walksVars, hnswVars, cacheVars, memoryVars, contextVars, scmVars>>
  \/ part = "hnsw" /\ HnswNext /\ UNCHANGED <<walksVars, graphVars, cacheVars, memoryVars, contextVars, scmVars>>
  \/ part = "cache" /\ CacheNext /\ UNCHANGED <<walksVars, graphVars, hnswVars, memoryVars, contextVars, scmVars>>
  \/ part = "memory" /\ MemoryNext /\ UNCHANGED <<walksVars, graphVars, hnswVars, cacheVars, contextVars, scmVars>>
  \/ part = "context" /\ ContextNext /\ UNCHANGED <<walksVars, graphVars, hnswVars, cacheVars, memoryVars, scmVars>>
  \/ part = "scm" /\ ScmNext /\ UNCHANGED <<walksVars, graphVars, hnswVars, cacheVars, memoryVars, contextVars>>
=============================================================================
