----------------------------- MODULE DistQuery ------------------------------
(***************************************************************************)
(* The scatter/gather coordinator (fundb-cluster: dist_query.rs) on top of *)
(* the shard map.                                                          *)
(*                                                                         *)
(* The coordinator takes the map over behind an Arc, so the topology and   *)
(* the collections' shards are fixed from then on.  Shards hold records    *)
(* [id, confidence, score] in the order they were seeded; confidences and  *)
(* scores are integers, distinct where the code sorts by them, so that its *)
(* stable sort has one result.  A payload is only the source of the score. *)
(* Every shard call ends with a result or, after an error or timeout_ms,   *)
(* without one.                                                            *)
(***************************************************************************)
EXTENDS ShardMap

CONSTANTS
  Confidence, Score,      \* Confidence[id], Score[id]
  WriteHash,              \* WriteHash[c][id]: the hash route_write reduces
  Limits, TopKs,          \* limits of scans (0 for none) and of vector scans
  OversampleFactor, MaxConcurrentShards

ASSUME DistQueryAssumption ==
  /\ Confidence \in [RecordIds -> Nat] /\ Score \in [RecordIds -> Nat]
  /\ \A a, b \in RecordIds : a # b => Confidence[a] # Confidence[b] /\ Score[a] # Score[b]
  /\ WriteHash \in [Collections -> [RecordIds -> Nat]]
  /\ Limits \subseteq Nat /\ TopKs \subseteq Nat
  /\ {OversampleFactor, MaxConcurrentShards} \subseteq Nat \ {0}

VARIABLES
  phase,      \* "build" the map, then "serve", "scatter", "answered"
  data,       \* data[s]: the records of shard s
  query,      \* the query being executed, with its collection
  waiting,    \* target shards not yet asked, in order
  inflight,   \* shards asked and not yet awaited
  results,    \* outcomes so far: a partial function from shards
  answer      \* the last MergedResult

queryVars == <<phase, data, query, waiting, inflight, results, answer>>
clusterVars == <<mapVars, queryVars>>

-----------------------------------------------------------------------------
(* Queries                                                                 *)

AggOps == {"count", "sum", "avg", "min", "max"}

Queries ==
  [kind : {"scan"}, collection : Collections, limit : Limits]
    \cup [kind : {"vector"}, collection : Collections, topK : TopKs]
    \cup [kind : {"lookup"}, collection : Collections, id : RecordIds]
    \cup [kind : {"aggregate"}, collection : Collections, op : AggOps]

Ascending(S) == InOrder(S, <)

\* shards_for_collection: sorted by number.
ShardsForCollection(c) == Ascending(collectionShards[c])

\* route_write: by the hash modulo the number of shards the collection uses.
RouteWrite(c, id) ==
  LET shards == ShardsForCollection(c)
  IN IF shards = <<>> THEN 0 ELSE shards[(WriteHash[c][id] % Len(shards)) + 1]

Truncate(seq, n) == SubSeq(seq, 1, IF n < Len(seq) THEN n ELSE Len(seq))
SumOf(f, S) == Cardinality(UNION {{<<x, i>> : i \in 1 .. f[x]} : x \in S})  \* values in Nat
IdSet(seq) == Range(seq)
LeastOf(S) == IF S = {} THEN 0 ELSE CHOOSE x \in S : \A y \in S : x <= y
GreatestOf(S) == IF S = {} THEN 0 ELSE CHOOSE x \in S : \A y \in S : x >= y
ByDesc(f, S) == InOrder(S, LAMBDA a, b : f[a] > f[b])

\* Mutant: a shard cuts a vector scan before it sorts.
TopByScoreMutant(ids, n) == ByDesc(Score, IdSet(Truncate(ids, n)))

TopByScore(ids, n) == Truncate(ByDesc(Score, IdSet(ids)), n)

\* A shard's outcome that is an error.
Failed == [ok |-> FALSE, records |-> <<>>, count |-> 0, value |-> 0]

\* MockShardExecutor::execute_on_shard, on the query as scattered: a scan is
\* cut in storage order, a vector scan after sorting by score, an empty shard
\* answers 0 for Min and Max.
ExecuteOnShard(s, q) ==
  LET ids == data[s]
      conf == {Confidence[id] : id \in IdSet(ids)}
      sum == SumOf(Confidence, IdSet(ids))
      Result(records, count, value) ==
        [ok |-> TRUE, records |-> records, count |-> count, value |-> value]
  IN CASE q.kind = "scan" ->
            Result(IF q.limit = 0 THEN ids ELSE Truncate(ids, q.limit), 0, 0)
       [] q.kind = "vector" ->
            Result(TopByScore(ids, q.topK * OversampleFactor), 0, 0)
       [] q.kind = "lookup" ->
            Result(IF q.id \in IdSet(ids) THEN <<q.id>> ELSE <<>>, 0, 0)
       [] q.kind = "aggregate" ->
            Result(<<>>,
                   IF q.op \in {"count", "avg"} THEN Len(ids) ELSE 0,
                   CASE q.op = "min" -> LeastOf(conf)
                     [] q.op = "max" -> GreatestOf(conf)
                     [] q.op = "count" -> 0
                     [] OTHER -> sum)

\* merge: of the shards that answered.  An average stays the pair of sum and
\* count.  The confidence floor of OQ-9 is 1.0 and changes nothing.
Merged(q, outcome) ==
  LET ok == {s \in DOMAIN outcome : outcome[s].ok}
      records == UNION {IdSet(outcome[s].records) : s \in ok}
      count == SumOf([s \in ok |-> outcome[s].count], ok)
      sum == SumOf([s \in ok |-> outcome[s].value], ok)
      values == {outcome[s].value : s \in ok}
  IN [records |->
        CASE q.kind = "scan" ->
               LET sorted == ByDesc(Confidence, records)
               IN IF q.limit = 0 THEN sorted ELSE Truncate(sorted, q.limit)
          [] q.kind = "vector" -> Truncate(ByDesc(Score, records), q.topK)
          [] q.kind = "lookup" -> IF records = {} THEN <<>> ELSE <<CHOOSE r \in records : TRUE>>
          [] OTHER -> <<>>,
      count |-> count,
      value |->
        CASE q.kind # "aggregate" -> 0
          [] q.op = "min" -> LeastOf(values)
          [] q.op = "max" -> GreatestOf(values)
          [] OTHER -> sum,
      queried |-> Cardinality(DOMAIN outcome),
      failed |-> Cardinality(DOMAIN outcome \ ok)]

-----------------------------------------------------------------------------
(* The coordinator                                                         *)

Build == phase = "build" /\ MapNext /\ UNCHANGED queryVars

\* DistQueryCoordinator::new: the map is fixed from here on.
NewCoordinator ==
  /\ phase = "build"
  /\ phase' = "serve"
  /\ migrations' = {}
  /\ UNCHANGED <<nodes, ring, shardOwners, collectionShards, replicationFactor, nextShardId, cleared>>
  /\ UNCHANGED <<data, query, waiting, inflight, results, answer>>

\* seed_shard through route_write, before the first query.
Seed(c, id) ==
  /\ phase = "serve"
  /\ \A s \in DOMAIN data : id \notin IdSet(data[s])
  /\ data' = [data EXCEPT ![RouteWrite(c, id)] = Append(@, id)]
  /\ UNCHANGED <<mapVars, phase, query, waiting, inflight, results, answer>>

\* Mutant: a lookup asks the shard that the ring names for the key.
TargetsMutant(q) ==
  IF q.kind = "lookup" THEN <<ShardFor(ring, q.collection, q.id)>>
  ELSE ShardsForCollection(q.collection)

\* The shards execute asks.
Targets(q) ==
  IF q.kind = "lookup" THEN <<RouteWrite(q.collection, q.id)>>
  ELSE ShardsForCollection(q.collection)

\* execute, up to the scatter: NoShards, or one shard for a lookup, or all.
Execute(q) ==
  /\ phase \in {"serve", "answered"}
  /\ collectionShards[q.collection] # {}
  /\ phase' = "scatter"
  /\ query' = q
  /\ waiting' = Targets(q)
  /\ inflight' = {}
  /\ results' = [s \in {} |-> Failed]
  /\ answer' = [records |-> <<>>, count |-> 0, value |-> 0, queried |-> 0, failed |-> 0]
  /\ UNCHANGED <<mapVars, data>>

\* scatter: the next window of shards, when the last one is complete.
ScatterChunk ==
  /\ phase = "scatter" /\ inflight = {} /\ waiting # <<>>
  /\ inflight' = Range(Truncate(waiting, MaxConcurrentShards))
  /\ waiting' = SubSeq(waiting, MaxConcurrentShards + 1, Len(waiting))
  /\ UNCHANGED <<mapVars, phase, data, query, results, answer>>

\* The handle of a shard's task is awaited and its outcome recorded.
ShardDone(s, outcome) ==
  /\ phase = "scatter" /\ s \in inflight
  /\ inflight' = inflight \ {s}
  /\ results' = [t \in DOMAIN results \cup {s} |-> IF t = s THEN outcome ELSE results[t]]
  /\ UNCHANGED <<mapVars, phase, data, query, waiting, answer>>

ShardAnswers(s) == ShardDone(s, ExecuteOnShard(s, query))

\* The deadline passes, the shard reports an error or its task is lost.
ShardFails(s) == ShardDone(s, Failed)

\* Mutant: the gather waits for a result of every shard.
GatherMutant ==
  /\ phase = "scatter" /\ inflight = {} /\ waiting = <<>>
  /\ \A s \in DOMAIN results : results[s].ok
  /\ phase' = "answered"
  /\ answer' = Merged(query, results)
  /\ UNCHANGED <<mapVars, data, query, waiting, inflight, results>>

\* execute, after the scatter.
Gather ==
  /\ phase = "scatter" /\ inflight = {} /\ waiting = <<>>
  /\ phase' = "answered"
  /\ answer' = Merged(query, results)
  /\ UNCHANGED <<mapVars, data, query, waiting, inflight, results>>

Shards == 0 .. MaxShards - 1

ClusterInit ==
  /\ MapInit
  /\ phase = "build"
  /\ data = [s \in Shards |-> <<>>]
  /\ query = [kind |-> "none"]
  /\ waiting = <<>>
  /\ inflight = {}
  /\ results = [s \in {} |-> Failed]
  /\ answer = [records |-> <<>>, count |-> 0, value |-> 0, queried |-> 0, failed |-> 0]

QueryStep ==
  \/ ScatterChunk
  \/ \E s \in Shards : ShardAnswers(s) \/ ShardFails(s)
  \/ Gather

ClusterNext ==
  \/ Build
  \/ NewCoordinator
  \/ \E c \in Collections : \E id \in RecordIds : Seed(c, id)
  \/ \E q \in Queries : Execute(q)
  \/ QueryStep

ClusterSpec == ClusterInit /\ [][ClusterNext]_clusterVars

\* Tokio runs every spawned shard call and the timeout ends it, so a started
\* query keeps going.  Nothing says that another query starts.
ClusterFairness == WF_clusterVars(QueryStep)

-----------------------------------------------------------------------------
(* Properties                                                              *)

\* A merged result is what one query over the records of the shards that
\* answered would give, whatever the windows, the order of the answers and
\* the per-shard limits: the exact count, sum and extremes, the best topK by
\* score, as many records as the limit allows; and shards_failed tells how
\* many shards are missing from it.  A shard without records counts as a 0
\* for Min, so Min is exact only if there is none.
AnswersExact ==
  phase = "answered" =>
    LET ok == {s \in DOMAIN results : results[s].ok}
        union == UNION {IdSet(data[s]) : s \in ok}
        got == IdSet(answer.records)
    IN /\ answer.queried = answer.failed + Cardinality(ok)
       /\ query.kind = "scan" =>
            /\ got \subseteq union
            /\ Cardinality(got) = IF query.limit = 0 \/ Cardinality(union) < query.limit
                                  THEN Cardinality(union) ELSE query.limit
       /\ query.kind = "vector" =>
            /\ got \subseteq union
            /\ Cardinality(got) = IF Cardinality(union) < query.topK
                                  THEN Cardinality(union) ELSE query.topK
            /\ \A r \in got : \A u \in union \ got : Score[r] >= Score[u]
       /\ query.kind = "aggregate" =>
            /\ query.op \in {"count", "avg"} => answer.count = Cardinality(union)
            /\ query.op \in {"sum", "avg"} => answer.value = SumOf(Confidence, union)
            /\ query.op = "max" => answer.value = GreatestOf({Confidence[r] : r \in union})
            /\ query.op = "min" /\ (\A s \in ok : data[s] # <<>>) =>
                 answer.value = LeastOf({Confidence[r] : r \in union})

\* A lookup goes where the write went: the record is found if it was written
\* and its shard answered, and is not found otherwise.
LookupFindsWrite ==
  phase = "answered" /\ query.kind = "lookup" =>
    (answer.records = <<query.id>>) =
      (answer.failed = 0 /\ \E s \in DOMAIN data : query.id \in IdSet(data[s]))

\* Every query that was scattered is answered, even if no shard answers.
QueryAnswered == phase = "scatter" ~> phase = "answered"
=============================================================================
