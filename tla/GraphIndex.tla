------------------------------ MODULE GraphIndex ------------------------------
(***************************************************************************)
(* The subject-predicate-object index (graph.rs): edges in a map of        *)
(* outgoing and a map of incoming ones, breadth-first traversal along one  *)
(* predicate and enumeration of simple paths along any.  A confidence is a *)
(* number of 64ths, and so is what products are rounded to.                *)
(***************************************************************************)
EXTENDS Integers, Sequences, FiniteSets, SequencesExt

CONSTANTS
  Subjects,         \* node ids
  Predicates,
  NewEdges,         \* the edges callers insert: [subject, predicate, object, confidence]
  MaxGraphEdges     \* bound: edges in the index

GraphEdge == [subject : Subjects, predicate : Predicates, object : Subjects, confidence : Nat]
ASSUME GraphAssumption == IsFiniteSet(Subjects) /\ NewEdges \subseteq GraphEdge

VARIABLES
  outgoing,         \* node -> its edges, oldest first
  incoming
graphVars == <<outgoing, incoming>>

GraphInit ==
  /\ outgoing = [n \in Subjects |-> <<>>]
  /\ incoming = [n \in Subjects |-> <<>>]

\* edge_count.
EdgeCount == Cardinality(UNION {{n} \X DOMAIN outgoing[n] : n \in Subjects})

\* Of a sequence, what is at the positions I, in order: filter and retain.
Picked(s, I) ==
  [k \in 1 .. Cardinality(I) |-> s[CHOOSE i \in I : Cardinality({j \in I : j < i}) = k - 1]]
Triple(e) == <<e.subject, e.predicate, e.object>>
Without(edges, t) == Picked(edges, {i \in DOMAIN edges : Triple(edges[i]) # t})

\* insert_edge: duplicates are kept, of one confidence or of several.
InsertGraphEdge(e) ==
  /\ outgoing' = [outgoing EXCEPT ![e.subject] = Append(@, e)]
  /\ incoming' = [incoming EXCEPT ![e.object] = Append(@, e)]

\* Mutant: the reverse map keeps the edge.
DeleteGraphEdgeMutant(t) ==
  /\ outgoing' = [outgoing EXCEPT ![t[1]] = Without(@, t)]
  /\ UNCHANGED incoming

\* delete_edge: every edge of the triple goes, from both maps.
DeleteGraphEdge(t) ==
  /\ outgoing' = [outgoing EXCEPT ![t[1]] = Without(@, t)]
  /\ incoming' = [incoming EXCEPT ![t[3]] = Without(@, t)]

\* outgoing and incoming, with Some(predicate).
Along(edges, p) == Picked(edges, {i \in DOMAIN edges : edges[i].predicate = p})

\* The strength of a path with one edge more; a strength is a number of 64ths.
Weaker(strength, e) == (strength * e.confidence) \div 64

\* One turn of the loop in bfs: nodes are marked when they leave the queue; the
\* start is the only one that does so at depth 0, and no result.
Visit(p, maxDepth, s) ==
  LET at == Head(s.queue)
      seen == s.visited \cup {at.node}
      edges == Along(outgoing[at.node], p)
      ahead == Picked(edges, {i \in DOMAIN edges : edges[i].object \notin seen})
  IN IF at.node \in s.visited THEN [s EXCEPT !.queue = Tail(@)]
     ELSE [queue |-> Tail(s.queue) \o
             IF at.depth >= maxDepth THEN <<>>
             ELSE [i \in DOMAIN ahead |-> [node |-> ahead[i].object, depth |-> at.depth + 1,
                                           strength |-> Weaker(at.strength, ahead[i])]],
           visited |-> seen,
           result |-> IF at.depth = 0 THEN s.result ELSE Append(s.result, at)]

\* An edge is queued at most once, when its subject is visited, so that the loop
\* has at most one turn for every edge and one for the start.
Bfs(start, p, maxDepth) ==
  LET loop[k \in 0 .. EdgeCount + 1] ==
        IF k = 0 THEN [queue |-> <<[node |-> start, depth |-> 0, strength |-> 64]>>, visited |-> {}, result |-> <<>>]
        ELSE IF loop[k - 1].queue = <<>> THEN loop[k - 1]
        ELSE Visit(p, maxDepth, loop[k - 1])
  IN loop[EdgeCount + 1].result

\* path: the paths of k nodes the dfs with backtracking stands on, along any
\* predicate; it goes on from none that ends at its target.  A path is known by
\* its nodes and the positions of its edges in their lists: the result repeats
\* the nodes for parallel edges.
Onward(path) ==
  LET edges == outgoing[Last(path.nodes)]
  IN {i \in DOMAIN edges : edges[i].object \notin ToSet(path.nodes)}
Lengthened(path, i) ==
  [nodes |-> Append(path.nodes, outgoing[Last(path.nodes)][i].object), edges |-> Append(path.edges, i)]
PathsTo(from, to, maxDepth) ==
  LET dfs[k \in 1 .. maxDepth + 1] ==
        IF k = 1 THEN {[nodes |-> <<from>>, edges |-> <<>>]}
        ELSE UNION {{Lengthened(path, i) : i \in Onward(path)} : path \in {q \in dfs[k - 1] : Last(q.nodes) # to}}
  IN {path \in UNION {dfs[k] : k \in 1 .. maxDepth + 1} : Last(path.nodes) = to}

GraphNext ==
  \/ EdgeCount < MaxGraphEdges /\ \E e \in NewEdges : InsertGraphEdge(e)
  \/ \E t \in Subjects \X Predicates \X Subjects : DeleteGraphEdge(t)

-----------------------------------------------------------------------------

\* The nodes at most d hops from a node along p.
Ball(start, p, d) ==
  LET ball[k \in Nat] ==
        IF k = 0 THEN {start}
        ELSE ball[k - 1] \cup {e.object : e \in UNION {{f \in ToSet(outgoing[n]) : f.predicate = p} : n \in ball[k - 1]}}
  IN ball[d]

\* Where the walks of d edges from a node along p end, each with its strength.
Walks(start, p, d) ==
  LET walks[k \in Nat] ==
        IF k = 0 THEN {<<start, 64>>}
        ELSE UNION {{<<e.object, Weaker(w[2], e)>> : e \in {f \in ToSet(outgoing[w[1]]) : f.predicate = p}} :
                      w \in walks[k - 1]}
  IN walks[d]

Copies(edges, e) == Cardinality({i \in DOMAIN edges : edges[i] = e})

\* The sequences of nodes without repetition and the edges that join them.
SimpleNodes == UNION {Injection(1..n, Subjects) : n \in 1..Cardinality(Subjects)}
Joining(m, n) == {i \in DOMAIN outgoing[m] : outgoing[m][i].object = n}
Spans(s) ==
  {w \in [1..Len(s) - 1 -> UNION {DOMAIN outgoing[n] : n \in Subjects}] :
     \A i \in 1..Len(s) - 1 : w[i] \in Joining(s[i], s[i + 1])}

MapsAgree == \A e \in NewEdges : Copies(outgoing[e.subject], e) = Copies(incoming[e.object], e)
BfsRight(start, p, max) ==
  LET r == Bfs(start, p, max)
  IN /\ \A i, j \in DOMAIN r : i < j => r[i].node # r[j].node /\ r[i].depth <= r[j].depth
     /\ {<<x.node, x.depth>> : x \in ToSet(r)} =
          UNION {{<<n, d>> : n \in Ball(start, p, d) \ Ball(start, p, d - 1)} : d \in 1..max}
     /\ \A x \in ToSet(r) : <<x.node, x.strength>> \in Walks(start, p, x.depth)

\* After any insertions and deletions the two maps hold the same edges, as
\* often; bfs gives every node within max_depth hops once, at its distance,
\* nearest first and with the strength of a path that long, whatever the
\* confidences of parallel edges, and nothing else, loops included; path gives
\* exactly the simple paths of at most max_depth edges, once for every choice
\* among parallel edges.
BfsShortest ==
  /\ MapsAgree
  /\ \A start \in Subjects, p \in Predicates, max \in 0..Cardinality(Subjects) : BfsRight(start, p, max)
  /\ \A from, to \in Subjects, max \in 1..Cardinality(Subjects) :
       PathsTo(from, to, max) =
         UNION {{[nodes |-> s, edges |-> w] : w \in Spans(s)} :
                  s \in {n \in SimpleNodes : n[1] = from /\ Last(n) = to /\ Len(n) <= max + 1}}
=============================================================================
