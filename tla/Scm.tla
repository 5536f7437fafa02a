-------------------------------- MODULE Scm --------------------------------
(***************************************************************************)
(* Structural causal models (scm.rs): linear equations sorted so that      *)
(* causes come first, interventions and counterfactuals on them, and the   *)
(* discovery of edges by the PC algorithm and by a vote of methods.        *)
(* Numbers are integers.  Variables are integers too, in the order of the  *)
(* names.  The statistics of the PC algorithm are the set of the tests     *)
(* that found independence: <<i, j, k>> given k, <<i, j, 0>> given none.   *)
(***************************************************************************)
EXTENDS Integers, Sequences, FiniteSets, SequencesExt

CONSTANTS
  EquationLists,    \* the lists of equations models are built from
  ScmVars,          \* the variables callers name and observe, 1..n
  ObservedOf,       \* variable -> the value it is observed with
  DoValue,          \* the value interventions and antecedents take
  PcVars,           \* how many variables discovery is about
  TestResults,      \* sets of tests that found independence
  ArrowSets,        \* sets of <<cause, effect>> other methods report
  MinSupports       \* numbers of methods a consensus asks for

VARIABLES
  scm,              \* the model built last: what new returned
  asked,            \* the last question and its answer
  pcEdges,          \* the edges the PC algorithm found
  consensus         \* the last merge: its inputs and its edges
scmVars == <<scm, asked, pcEdges, consensus>>

NoScm == [result |-> "none", equations |-> <<>>, order |-> <<>>]
NoneAsked == [k |-> "none"]
NoConsensus == [edges |-> {}, granger |-> {}, explicit |-> {}, support |-> 0]
ScmInit == scm = NoScm /\ asked = NoneAsked /\ pcEdges = {} /\ consensus = NoConsensus

-----------------------------------------------------------------------------
(* Models. *)

\* The equation a variable keeps is the last of the list.
EquationMap(list) ==
  [v \in {list[i].variable : i \in DOMAIN list} |-> SelectSeq(list, LAMBDA e : e.variable = v)[
     Len(SelectSeq(list, LAMBDA e : e.variable = v))]]
AllVars(eqs) == DOMAIN eqs \cup UNION {ToSet(eqs[v].parents) : v \in DOMAIN eqs}
\* How often p is a parent of v.
Arcs(eqs, p, v) ==
  IF v \in DOMAIN eqs THEN Cardinality({i \in DOMAIN eqs[v].parents : eqs[v].parents[i] = p}) ELSE 0
InDegree(eqs) == [v \in AllVars(eqs) |-> IF v \in DOMAIN eqs THEN Len(eqs[v].parents) ELSE 0]
Sorted(S) == SetToSortSeq(S, LAMBDA x, y : x < y)

\* Kahn's loop; a variable on a cycle never leaves.
RECURSIVE Kahn(_, _, _, _)
Kahn(eqs, degree, queue, order) ==
  IF queue = <<>> THEN order
  ELSE LET var == Head(queue)
           left == [v \in DOMAIN degree |-> degree[v] - Arcs(eqs, var, v)]
           newZero == {v \in DOMAIN degree : Arcs(eqs, var, v) > 0 /\ left[v] = 0}
       IN Kahn(eqs, left, Tail(queue) \o Sorted(newZero), Append(order, var))

TopoOrder(eqs) ==
  Kahn(eqs, InDegree(eqs), Sorted({v \in AllVars(eqs) : InDegree(eqs)[v] = 0}), <<>>)

\* A refused model keeps its equations only for the properties.
BuiltFrom(eqs, order) ==
  IF Len(order) # Cardinality(AllVars(eqs)) THEN [NoScm EXCEPT !.result = "CycleDetected", !.equations = eqs]
  ELSE [result |-> "ok", equations |-> eqs, order |-> order]

\* ScmModel::new.
NewScm(list) ==
  /\ scm' = IF \E i \in DOMAIN list : Len(list[i].coefficients) # Len(list[i].parents)
            THEN [NoScm EXCEPT !.result = "DimensionMismatch"]
            ELSE BuiltFrom(EquationMap(list), TopoOrder(EquationMap(list)))
  /\ asked' = NoneAsked
  /\ UNCHANGED <<pcEdges, consensus>>

-----------------------------------------------------------------------------
(* Questions.  Values are functions over the variables that have one. *)

Parents(v) == IF v \in DOMAIN scm.equations THEN scm.equations[v].parents ELSE <<>>
ComputeEquation(eq, values) ==
  FoldLeft(LAMBDA sum, i : sum + eq.coefficients[i] * (IF eq.parents[i] \in DOMAIN values THEN values[eq.parents[i]] ELSE 0),
           eq.intercept, [i \in DOMAIN eq.parents |-> i])

\* The loop over topo_order that evaluate, evaluate_mutilated and
\* evaluate_counterfactual_with_noise share: what has a value keeps it.
EvaluateWith(noise, observations) ==
  FoldLeft(LAMBDA values, v :
             IF v \in DOMAIN values \/ v \notin DOMAIN scm.equations THEN values
             ELSE [u \in DOMAIN values \cup {v} |->
                     IF u = v THEN ComputeEquation(scm.equations[v], values) + noise[v] ELSE values[u]],
           observations, scm.order)
NoNoise == [v \in DOMAIN scm.equations |-> 0]
Fixed(values, x, value) == [v \in DOMAIN values \cup {x} |-> IF v = x THEN value ELSE values[v]]

InterveneOn(x, value, observations) == EvaluateWith(NoNoise, Fixed(observations, x, value))

\* Abduction.
NoiseTerms(factual) == [v \in DOMAIN scm.equations |-> factual[v] - ComputeEquation(scm.equations[v], factual)]
Exogenous(observations) == [v \in DOMAIN observations \ DOMAIN scm.equations |-> observations[v]]

\* Mutant: observed effects keep their values.
CounterfactualOnMutant(x, value, observations) ==
  EvaluateWith(NoiseTerms(EvaluateWith(NoNoise, observations)), Fixed(observations, x, value))

\* Action and prediction.
CounterfactualOn(x, value, observations) ==
  EvaluateWith(NoiseTerms(EvaluateWith(NoNoise, observations)), Fixed(Exogenous(observations), x, value))

KnownIn(observations) == DOMAIN scm.equations \cup DOMAIN observations
Question(k, observations, x, target, answer) ==
  [k |-> k, observations |-> observations, x |-> x, target |-> target, answer |-> answer]
\* UnknownVariable, or the target's value.
ValueAsked(x, target, observations, values) ==
  IF {x, target} \subseteq KnownIn(observations) THEN <<values[target]>> ELSE <<>>

AskEvaluate(observations) ==
  asked' = Question("evaluate", observations, 0, 0, EvaluateWith(NoNoise, observations))
AskIntervene(x, target, observations) ==
  asked' = Question("intervene", observations, x, target,
                    ValueAsked(x, target, observations, InterveneOn(x, DoValue, observations)))
AskCounterfactual(x, target, observations) ==
  asked' = Question("counterfactual", observations, x, target,
                    ValueAsked(x, target, observations, CounterfactualOn(x, DoValue, observations)))

AskScm ==
  /\ scm.result = "ok"
  /\ asked = NoneAsked
  /\ \E S \in SUBSET ScmVars : LET observations == [v \in S |-> ObservedOf[v]] IN
       \/ AskEvaluate(observations)
       \/ \E x, target \in ScmVars : AskIntervene(x, target, observations)
       \/ \E x, target \in ScmVars : AskCounterfactual(x, target, observations)
  /\ UNCHANGED <<scm, pcEdges, consensus>>

-----------------------------------------------------------------------------
(* Discovery. *)

Canonical(a, b) == IF a <= b THEN <<a, b>> ELSE <<b, a>>

\* Steps 1 to 3: the pairs no test separates.
Skeleton(independent) ==
  {p \in (1..PcVars) \X (1..PcVars) :
     p[1] < p[2] /\ \A k \in 0..PcVars : <<p[1], p[2], k>> \notin independent}
Adjacent(skeleton, i, j) == <<i, j>> \in skeleton \/ <<j, i>> \in skeleton
Neighbours(skeleton, z) == {i \in 1..PcVars : Adjacent(skeleton, i, z)}
\* The variables step 4 points at z: two that are not adjacent meet there.
IntoCollider(skeleton, z) ==
  {i \in Neighbours(skeleton, z) : \E j \in Neighbours(skeleton, z) \ {i} : ~Adjacent(skeleton, i, j)}

\* Step 4: pair -> the end it points at, or 0.  Colliders are visited in
\* order and a later one turns the edges of an earlier one.
Directed(skeleton) ==
  FoldLeft(LAMBDA head, z :
             [p \in skeleton |-> IF \E i \in IntoCollider(skeleton, z) : Canonical(i, z) = p THEN z ELSE head[p]],
           [p \in skeleton |-> 0], [z \in 1..PcVars |-> z])

Edge(from, to, orientation) == [from |-> from, to |-> to, orientation |-> orientation]
\* Step 5.
PcEdges(skeleton, head) ==
  {IF head[p] = 0 THEN Edge(p[1], p[2], "Undirected")
   ELSE Edge(IF head[p] = p[2] THEN p[1] ELSE p[2], head[p], "Directed") : p \in skeleton}

DiscoverPc(independent) ==
  /\ pcEdges' = IF PcVars < 2 THEN {} ELSE PcEdges(Skeleton(independent), Directed(Skeleton(independent)))
  /\ consensus' = NoConsensus
  /\ UNCHANGED <<scm, asked>>

Accumulated(pc, granger, explicit, key) ==
  LET ofPc == {e \in pc : Canonical(e.from, e.to) = key}
      ofGranger == {p \in granger : Canonical(p[1], p[2]) = key}
      ofExplicit == {p \in explicit : Canonical(p[1], p[2]) = key}
  IN [sources |-> {s \in {"PC", "Granger", "Explicit"} :
                     CASE s = "PC" -> ofPc # {} [] s = "Granger" -> ofGranger # {} [] OTHER -> ofExplicit # {}},
      directedFrom |-> {e.from : e \in {f \in ofPc : f.orientation = "Directed"}} \cup {p[1] : p \in ofGranger \cup ofExplicit}]
EnsembleEdge(key, acc) ==
  LET edge == CASE Cardinality(acc.directedFrom) = 1 ->
                     LET from == CHOOSE v \in acc.directedFrom : TRUE
                     IN Edge(from, IF from = key[1] THEN key[2] ELSE key[1], "Directed")
                [] acc.directedFrom = {} -> Edge(key[1], key[2], "Undirected")
                [] OTHER -> Edge(key[1], key[2], "DirectionUncertain")
  IN [from |-> edge.from, to |-> edge.to, orientation |-> edge.orientation, sources |-> acc.sources]
MergeEdges(pc, granger, explicit, minSupport) ==
  {EnsembleEdge(key, Accumulated(pc, granger, explicit, key)) :
     key \in {k \in {Canonical(e.from, e.to) : e \in pc} \cup {Canonical(p[1], p[2]) : p \in granger \cup explicit} :
                Cardinality(Accumulated(pc, granger, explicit, k).sources) >= minSupport}}

MergeWith(granger, explicit, minSupport) ==
  /\ consensus' = [edges |-> MergeEdges(pcEdges, granger, explicit, minSupport), granger |-> granger,
                   explicit |-> explicit, support |-> minSupport]
  /\ UNCHANGED <<scm, asked, pcEdges>>
NotearsFallback(granger) == MergeWith(granger, {}, 1)

ScmNext ==
  \/ scm = NoScm /\ pcEdges = {} /\ \E list \in EquationLists : NewScm(list)
  \/ AskScm
  \/ scm = NoScm /\ pcEdges = {} /\ \E independent \in TestResults : DiscoverPc(independent)
  \/ /\ pcEdges # {} /\ consensus = NoConsensus
     /\ \E granger, explicit \in ArrowSets, n \in MinSupports : MergeWith(granger, explicit, n)
  \/ /\ pcEdges # {} /\ consensus = NoConsensus
     /\ \E granger \in ArrowSets : NotearsFallback(granger)

-----------------------------------------------------------------------------
(* Properties *)

\* The reference: values by recursion on causes, and by path tracing how much
\* a unit of x changes y when the held variables do not move.
RECURSIVE Solved(_, _)
Solved(observations, v) ==
  IF v \in DOMAIN observations THEN observations[v]
  ELSE IF v \notin DOMAIN scm.equations THEN 0
  ELSE FoldLeft(LAMBDA sum, i : sum + scm.equations[v].coefficients[i] * Solved(observations, scm.equations[v].parents[i]),
                scm.equations[v].intercept, [i \in DOMAIN Parents(v) |-> i])
RECURSIVE EffectOf(_, _, _)
EffectOf(x, y, held) ==
  IF x = y THEN 1
  ELSE IF y \in held THEN 0
  ELSE FoldLeft(LAMBDA sum, i : sum + scm.equations[y].coefficients[i] * EffectOf(x, Parents(y)[i], held),
                0, [i \in DOMAIN Parents(y) |-> i])

Position(v) == CHOOSE i \in DOMAIN scm.order : scm.order[i] = v
ParentsFirst ==
  /\ IsInjective(scm.order)
  /\ ToSet(scm.order) = AllVars(scm.equations)
  /\ \A v \in DOMAIN scm.equations : \A p \in ToSet(Parents(v)) : Position(p) < Position(v)
PathRule ==
  LET obs == asked.observations
      held == IF asked.k = "intervene" THEN DOMAIN obs \ {asked.x} ELSE {}
      moved == Solved(obs, asked.target) + (DoValue - Solved(obs, asked.x)) * EffectOf(asked.x, asked.target, held)
  IN CASE asked.k = "none" -> TRUE
       [] asked.k = "evaluate" -> asked.answer = [v \in KnownIn(obs) |-> Solved(obs, v)]
       [] OTHER -> asked.answer = IF {asked.x, asked.target} \subseteq KnownIn(obs) THEN <<moved>> ELSE <<>>

Joined(edges, i, j) == \E e \in edges : {e.from, e.to} = {i, j}
OncePerPair(edges) == \A e, f \in edges : {e.from, e.to} = {f.from, f.to} => e = f
\* i - z - j with no edge between i and j.
Meet(i, z) == \E j \in 1..PcVars \ {i, z} : Joined(pcEdges, j, z) /\ ~Joined(pcEdges, i, j)
Arrow(a, b) ==
  \/ <<a, b>> \in consensus.granger \cup consensus.explicit
  \/ Edge(a, b, "Directed") \in pcEdges
Methods(a, b) ==
  {s \in 1..3 : CASE s = 1 -> Joined(pcEdges, a, b)
                  [] s = 2 -> {<<a, b>>, <<b, a>>} \cap consensus.granger # {}
                  [] OTHER -> {<<a, b>>, <<b, a>>} \cap consensus.explicit # {}}
EdgesRight ==
  /\ OncePerPair(pcEdges)
  /\ \A e \in pcEdges : /\ e.orientation = "Directed" => Meet(e.from, e.to)
                        /\ e.orientation # "Directed" => ~Meet(e.from, e.to) /\ ~Meet(e.to, e.from)
  /\ OncePerPair(consensus.edges)
  /\ \A e \in consensus.edges : e.orientation = CASE Arrow(e.from, e.to) /\ ~Arrow(e.to, e.from) -> "Directed"
                                                  [] Arrow(e.from, e.to) /\ Arrow(e.to, e.from) -> "DirectionUncertain"
                                                  [] OTHER -> "Undirected"
  /\ consensus # NoConsensus =>
       \A a, b \in 1..PcVars : a # b =>
         (Joined(consensus.edges, a, b) <=> Cardinality(Methods(a, b)) >= consensus.support)

\* new refuses exactly the equations that have a cycle and orders the others
\* so that causes come first; evaluate, intervene and counterfactual, which
\* loop over that order, agree with the recursive reading of the equations:
\* an intervention moves a variable by the path rule, observed variables
\* blocking it, a counterfactual moves it by every path and keeps the rest of
\* the observed world (its noise).  PC reports a pair once and an arrow only
\* where two strangers meet, and merge keeps exactly the pairs enough methods
\* name, with an arrow exactly when none of them says the opposite.
ScmExact ==
  /\ scm.result = "CycleDetected" <=>
       \E S \in SUBSET DOMAIN scm.equations \ {{}} : \A v \in S : ToSet(Parents(v)) \cap S # {}
  /\ scm.result = "ok" => ParentsFirst /\ PathRule
  /\ EdgesRight
=============================================================================
