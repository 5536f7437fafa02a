-------------------------------- MODULE Hnsw --------------------------------
(***************************************************************************)
(* The vector index (hnsw.rs): layers of neighbour lists, greedy descent   *)
(* through the upper ones, beam search, lazy deletion and compaction.  A   *)
(* vector is a position on a line, its distance |x - y|; random_layer, a   *)
(* hash of the id, is the constant LayerOf.                                *)
(***************************************************************************)
EXTENDS Integers, Sequences, FiniteSets, SequencesExt

CONSTANTS
  Vectors,          \* ids, in the order Ord gives them
  PositionsOf,      \* id -> the vectors callers insert it with
  LayerOf,          \* id -> its highest layer
  MaxLinks,         \* m: links of a node above layer 0; twice that in layer 0
  EfConstruction,   \* candidates kept while inserting
  MaxIndexCalls     \* bound: insertions and deletions

ASSUME HnswAssumption == Vectors \subseteq Nat /\ {MaxLinks, EfConstruction, MaxIndexCalls} \subseteq Nat

VARIABLES
  layers,           \* layers[l]: node -> its neighbours in layer l - 1
  vectors,          \* id -> its stored vector
  tombstones,
  entryPoint,       \* <<id, layer>>, or <<>> for None
  liveCount,
  cut,              \* history: pruning or compact has taken a link from a node
  repeated,         \* history: a stored id has been inserted
  calls             \* insertions and deletions so far
hnswVars == <<layers, vectors, tombstones, entryPoint, liveCount, cut, repeated, calls>>

\* The distance of the node x, at pos[x], from a query.
Dist(pos, q, x) == IF q < pos[x] THEN pos[x] - q ELSE q - pos[x]
\* The order of Item: by distance, then by id.
Nearer(pos, q, x, y) ==
  Dist(pos, q, x) < Dist(pos, q, y) \/ (Dist(pos, q, x) = Dist(pos, q, y) /\ x < y)
Nearest(pos, q, S) == CHOOSE x \in S : \A y \in S \ {x} : Nearer(pos, q, x, y)
Farthest(pos, q, S) == CHOOSE x \in S : \A y \in S \ {x} : Nearer(pos, q, y, x)
\* A finite set in the order of Before.
InOrder(S, Before(_, _)) ==
  [i \in 1..Cardinality(S) |-> CHOOSE x \in S : Cardinality({y \in S : Before(y, x)}) = i - 1]
NeighboursIn(layer, x) == IF x \in DOMAIN layer THEN layer[x] ELSE <<>>

\* greedy_search_layer: move while some neighbour that is not deleted is nearer.
RECURSIVE GreedySearchLayer(_, _, _, _)
GreedySearchLayer(pos, q, at, layer) ==
  LET Better(c, nb) == IF nb \notin tombstones /\ Dist(pos, q, nb) < Dist(pos, q, c) THEN nb ELSE c
      next == FoldLeft(Better, at, NeighboursIn(layer, at))
  IN IF next = at THEN at ELSE GreedySearchLayer(pos, q, next, layer)

\* The body of the neighbour loop of search_layer.
Consider(pos, q, ef, s, nb) ==
  IF nb \in s.visited THEN s
  ELSE IF Dist(pos, q, nb) >= Dist(pos, q, Farthest(pos, q, s.result)) /\ Cardinality(s.result) >= ef
  THEN [s EXCEPT !.visited = @ \cup {nb}]
  ELSE LET kept == s.result \cup {nb}
       IN [visited |-> s.visited \cup {nb}, candidates |-> s.candidates \cup {nb},
           result |-> IF Cardinality(kept) > ef THEN kept \ {Farthest(pos, q, kept)} ELSE kept]

\* search_layer: the heaps are sets, read through Nearest and Farthest.
RECURSIVE Beam(_, _, _, _, _)
Beam(pos, q, ef, layer, s) ==
  IF s.candidates = {} THEN s.result
  ELSE LET current == Nearest(pos, q, s.candidates)
           rest == [s EXCEPT !.candidates = @ \ {current}]
           worst == Dist(pos, q, Farthest(pos, q, s.result))
       IN IF Dist(pos, q, current) > worst /\ Cardinality(s.result) >= ef
          THEN s.result
          ELSE Beam(pos, q, ef, layer, FoldLeft(LAMBDA r, nb : Consider(pos, q, ef, r, nb), rest, NeighboursIn(layer, current)))
SearchLayer(pos, q, entries, ef, layer) ==
  InOrder(Beam(pos, q, ef, layer, [visited |-> entries, candidates |-> entries, result |-> entries]),
          LAMBDA x, y : Nearer(pos, q, x, y))

-----------------------------------------------------------------------------

HnswInit ==
  /\ layers = <<>>
  /\ vectors = <<>>
  /\ tombstones = {}
  /\ entryPoint = <<>>
  /\ liveCount = 0
  /\ cut = FALSE
  /\ repeated = FALSE
  /\ calls = 0

\* select_neighbours: the nearest `max` of a list; the sort is stable.
SelectNeighbours(pos, x, list, max) ==
  LET order == InOrder(DOMAIN list, LAMBDA i, j :
                 LET di == Dist(pos, pos[x], list[i])
                     dj == Dist(pos, pos[x], list[j])
                 IN di < dj \/ (di = dj /\ i < j))
  IN [i \in 1..max |-> list[order[i]]]

\* Mutant: a list is pruned one link too late.
ConnectNodesMutant(pos, layer, l, id, nb) ==
  LET max == IF l = 0 THEN 2 * MaxLinks ELSE MaxLinks
      linked == (id :> Append(NeighboursIn(layer, id), nb)) @@ layer
      back == Append(NeighboursIn(linked, nb), id)
  IN (nb :> IF Len(back) > max + 1 THEN SelectNeighbours(pos, nb, back, max) ELSE back) @@ linked

\* Link the inserted node and a neighbour both ways, and prune the neighbour.  An
\* id inserted again is a neighbour of itself.
ConnectNodes(pos, layer, l, id, nb) ==
  LET max == IF l = 0 THEN 2 * MaxLinks ELSE MaxLinks
      linked == (id :> Append(NeighboursIn(layer, id), nb)) @@ layer
      back == Append(NeighboursIn(linked, nb), id)
  IN (nb :> IF Len(back) > max THEN SelectNeighbours(pos, nb, back, max) ELSE back) @@ linked

\* The layers with room for the node and a list in each of its own: the one it
\* has, or an empty one.
WithNode(id) ==
  LET count == Max({Len(layers), LayerOf[id] + 1})
  IN [l \in 1..count |-> LET layer == IF l <= Len(layers) THEN layers[l] ELSE <<>>
                         IN IF l <= LayerOf[id] + 1 THEN layer @@ (id :> <<>>) ELSE layer]

\* Greedy descent from the layer of the entry point to the layer `bottom`.
Descend(pos, q, bottom, grown) ==
  FoldLeft(LAMBDA at, l : GreedySearchLayer(pos, q, at, grown[l + 1]), entryPoint[1],
           Reverse([i \in 1..Max({0, entryPoint[2] - bottom + 1}) |-> bottom + i - 1]))

\* Phase 2 of insert: search and connect from the node's layer down to 0.
ConnectLayers(pos, id, grown) ==
  LET q == pos[id]
      Step(s, l) ==
        LET found == SearchLayer(pos, q, s.entries, EfConstruction, s.layers[l + 1])
            chosen == SubSeq(found, 1, Min({MaxLinks, Len(found)}))
        IN [layers |-> [s.layers EXCEPT ![l + 1] = FoldLeft(LAMBDA layer, nb : ConnectNodes(pos, layer, l, id, nb), @, chosen)],
            entries |-> ToSet(found)]
  IN FoldLeft(Step, [layers |-> grown, entries |-> {Descend(pos, q, LayerOf[id] + 1, grown)}],
              Reverse([i \in 1..LayerOf[id] + 1 |-> i - 1])).layers

\* A node loses a link, or does not get the one that answers a new one.
LinksGo ==
  \/ \E l \in DOMAIN layers : \E x \in DOMAIN layers[l] \cap DOMAIN layers'[l] :
       ~(ToSet(layers[l][x]) \subseteq ToSet(layers'[l][x]))
  \/ \E l \in DOMAIN layers' : \E x \in DOMAIN layers'[l] : \E nb \in ToSet(layers'[l][x]) :
       x \notin ToSet(layers'[l][nb])

\* insert: a stored id gets the new vector, keeps its lists and its tombstone,
\* and is counted again.
InsertVector(id, x) ==
  /\ vectors' = (id :> x) @@ vectors
  /\ liveCount' = liveCount + 1
  /\ IF entryPoint = <<>>
     THEN /\ layers' = WithNode(id)
          /\ entryPoint' = <<id, LayerOf[id]>>
     ELSE /\ layers' = ConnectLayers(vectors', id, WithNode(id))
          /\ entryPoint' = IF LayerOf[id] > entryPoint[2] THEN <<id, LayerOf[id]>> ELSE entryPoint
  /\ cut' = (cut \/ LinksGo)
  /\ repeated' = (repeated \/ id \in DOMAIN vectors)
  /\ UNCHANGED tombstones

\* delete: only the first deletion of an id counts.
DeleteVector(id) ==
  /\ id \in DOMAIN vectors
  /\ tombstones' = tombstones \cup {id}
  /\ liveCount' = IF id \in tombstones \/ liveCount = 0 THEN liveCount ELSE liveCount - 1
  /\ UNCHANGED <<layers, vectors, entryPoint, cut, repeated>>

\* compact: links to dead nodes go and nothing replaces them.  A dead entry
\* point gives way to any key of the highest layer that has one.
CompactIndex ==
  LET kept == [l \in DOMAIN layers |->
                 [x \in DOMAIN layers[l] \ tombstones |-> SelectSeq(layers[l][x], LAMBDA nb : nb \notin tombstones)]]
      used == {l \in DOMAIN kept : DOMAIN kept[l] # {}}
  IN /\ tombstones # {}
     /\ vectors' = [x \in DOMAIN vectors \ tombstones |-> vectors[x]]
     /\ tombstones' = {}
     /\ layers' = kept
     /\ cut' = (cut \/ LinksGo)
     /\ IF entryPoint = <<>> \/ entryPoint[1] \notin tombstones THEN UNCHANGED entryPoint
        ELSE IF used = {} THEN entryPoint' = <<>>
        ELSE \E x \in DOMAIN kept[Max(used)] : entryPoint' = <<x, Max(used) - 1>>
     /\ UNCHANGED <<liveCount, repeated>>

\* The candidates search keeps, for a recall target in percent.
EfSearch(k, recall) ==
  IF recall > 90 THEN Max({(100 * k + 99 - recall) \div (100 - recall), 4 * k, 64}) ELSE Max({2 * k, 16})

SearchVectors(q, k, recall) ==
  IF entryPoint = <<>> \/ liveCount = 0 THEN <<>>
  ELSE LET found == SearchLayer(vectors, q, {Descend(vectors, q, 1, layers)}, EfSearch(k, recall), layers[1])
           live == SelectSeq(found, LAMBDA x : x \notin tombstones)
       IN SubSeq(live, 1, Min({k, Len(live)}))

HnswNext ==
  \/ /\ calls < MaxIndexCalls
     /\ calls' = calls + 1
     /\ \/ \E id \in Vectors : \E x \in PositionsOf[id] : InsertVector(id, x)
        \/ \E id \in Vectors : DeleteVector(id)
  \/ CompactIndex /\ UNCHANGED calls

-----------------------------------------------------------------------------
(* Properties *)

Queries == UNION {PositionsOf[x] : x \in Vectors}
Live == DOMAIN vectors \ tombstones

\* The entry point and every link lead to stored nodes: search and insert index
\* self.vectors with them.
LinksLead ==
  /\ IF DOMAIN vectors = {} THEN entryPoint = <<>>
     ELSE entryPoint[1] \in DOMAIN vectors /\ entryPoint[1] \in DOMAIN layers[entryPoint[2] + 1]
  /\ \A l \in DOMAIN layers : \A x \in DOMAIN layers[l] :
       {x} \cup ToSet(layers[l][x]) \subseteq DOMAIN vectors

\* What the links of layer 0 lead to.
LinkedFrom(x) ==
  LET reached[k \in Nat] ==
        IF k = 0 THEN {x}
        ELSE LET before == reached[k - 1] IN before \cup UNION {ToSet(layers[1][y]) : y \in before}
  IN reached[Cardinality(Vectors)]

\* A beam stops only where it can gain nothing: a neighbour of a node it returns
\* is returned, too, or the beam is full of nodes that are not farther.
BeamStops(q, ef) ==
  LET found == ToSet(SearchLayer(vectors, q, {entryPoint[1]}, ef, layers[1]))
  IN \A x \in found : \A nb \in ToSet(layers[1][x]) \ found :
       Cardinality(found) = ef /\ \A y \in found : Dist(vectors, q, y) <= Dist(vectors, q, nb)

\* However insertions, of new ids and of stored ones, deletions and compactions
\* alternate: links lead to stored nodes; live_count, by which search tells an
\* empty index, is never below the live nodes and is their number until an id is
\* inserted again; until then the lists keep to their limit, too.  A beam of any
\* width stops where it should, and search, whose beam is wider than these
\* indexes, returns the k nearest of the live nodes that links lead to; these are
\* all of them until pruning or compact takes a link from a node.
SearchSound ==
  /\ LinksLead
  /\ liveCount >= Cardinality(Live)
  /\ repeated \/
       /\ liveCount = Cardinality(Live)
       /\ \A l \in DOMAIN layers : \A x \in DOMAIN layers[l] :
            Len(layers[l][x]) <= IF l = 1 THEN 2 * MaxLinks ELSE MaxLinks
  /\ entryPoint # <<>> => \A q \in Queries :
       LET linked == LinkedFrom(Descend(vectors, q, 1, layers)) \ tombstones
           nearest == InOrder(linked, LAMBDA x, y : Nearer(vectors, q, x, y))
       IN /\ \A ef \in 1..Cardinality(Vectors) : BeamStops(q, ef)
          /\ \A k \in 1..Cardinality(Vectors) :
               SearchVectors(q, k, 50) = SubSeq(nearest, 1, Min({k, Len(nearest)}))
          /\ cut \/ linked = Live
=============================================================================
