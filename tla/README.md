# FunDB: a TLA+ verification project

FunDB is a Rust database: an LSM-tree storage engine with a bitemporal version
store, Raft and sharding crates, a PostgreSQL wire front end, a SQL pipeline and
a set of "cognitive" features (agent memory, contradictions, causal indexes).
This directory holds TLA+ models of its core, the TLC runs that check them and
TLAPS proofs. `PROJECT.json` maps every definition to the lines it models and
lists components, hazards, runs, mutants, findings and theorems.

## Inventory

| component (crate) | state | operations | hard part |
|---|---|---|---|
| LSM tree (`fundb-storage/lsm.rs`) | active memtable, frozen memtables, WAL, `.sst` files, block cache | `open`, `write`, `delete`, `get`, `scan`, `flush_memtable`, `trigger_compaction` | concurrent callers and spawned flush tasks between locks, crashes, failing writes |
| WAL (`wal.rs`) | append-only file of checksummed frames | `open`, `append`, `recover` | torn frames, what is durable when |
| memtable, SSTable, compaction policy, block cache | sorted runs; files; LRU by bytes | insert/freeze; write/open/merge; select; get/insert | half-written files, order of merge inputs, byte accounting |
| MVCC (`mvcc.rs`) | version chains with system and valid time | `begin_txn`, `write`, `commit`, `gc`, two reads | overlapping transactions stamped in another order than they write |
| Raft (`fundb-raft`) | term, vote, log, commit index, hard state | elections, AppendEntries, RequestVote, InstallSnapshot, `propose` | votes, persistence after the lock, lost, repeated and late messages |
| shard map (`fundb-cluster/sharding.rs`) | hash ring, owners, shards per collection | add/remove node, route, replication groups | routing remembered across membership changes |
| distributed query (`dist_query.rs`) | shards' records, a query in flight | write, lookup, scatter in windows, merge | failing shards, per-shard limits, aggregates of partial answers |
| SQL front end (`fundb-sql`) | none | parse, bind | precedence, optional clauses, lookahead |
| optimizer, executor | none; operators over rows | rewrite to a fixpoint; scan, filter, project, sort, limit, insert | rewrites must preserve answers |
| wire protocol (`fundb-protocol`) | connection phase, statements, portals | startup, simple query, Parse/Bind/Describe/Execute/Close/Sync | legal message sequences that reach odd states |
| server and client (`fundb-server`, `fundb-cli`) | catalog, stored rows, connections | query handler, restart; query loop | interleaved handlers, failing writes, catalog lost by a restart |
| indexes (`fundb-indexes`) | causal DAG with closure cache, graph, HNSW | insert, delete, compact, paths, traversals, search | acyclicity, stale cache, links to removed nodes |
| cognitive (`fundb-cognitive`) | memories, contradictions, confidence | remember, recall, consolidate, decay, check_insert, select | invariants across long call sequences |
| causal models (`fundb-causal`) | equations in causal order, discovered edges | evaluate, intervene, counterfactual, discover, merge | what an observation blocks, conflicting arrows |
| access control, audit, observability | grants, audit log, metrics | | not modelled, see the end |
| core, learning, semantic search, terminal, SDKs, editor extension | | | layout, numeric or I/O; not modelled |

Interactions: the query handler parses, binds against the catalog and calls the
executor, which scans and writes through `LsmTree`. `LsmTree` calls the WAL, the
memtable, the SSTable reader and writer, the compaction policy and the block
cache; flushes run as Tokio tasks that share its `immutables` lock. `MvccStore`,
`RaftNode`, `ShardMap`, the distributed query coordinator, the indexes, agent
memory, contradiction detection, context windows and causal models are libraries
with their own locks or none; the server does not call them yet.

What makes each part correct:

- storage: a key shows the record written last; nothing acknowledged is lost by
  flushes, compactions or restarts; every frozen memtable is flushed;
- MVCC: one live version per key; reads of the past do not change; garbage
  collection is invisible to reads inside the retention window;
- Raft: one vote per term and node and one leader per term as far as what is
  stored survives, equal entries at equal positions, an acknowledged append is
  held, commits have a majority;
- cluster: every shard has a live owner, migrations are what really moved, reads
  go where writes went, merged answers equal those over the union of the shards;
- query: a text means its tree, the optimizer changes no answer, an answer is
  what the statement says, every query is answered, a portal runs what was bound;
- indexes, memory, context, causal models: the DAG stays acyclic, answers equal
  those of a reference definition, merging memories loses none, budgets hold.

## Modules

| module | what it is |
|---|---|
| `KvStore` | the abstract store: mutations take effect at one instant, reads answer from one instant, calls may fail |
| `CompactionPolicy` | `should_compact` and `select_files` as operators on sets of file names |
| `LsmTree` | the engine; properties; mutants |
| `MCLsmTree` | constants for TLC and the refinement mapping to `KvStore` |
| `MCLsmConcurrent` | the engine with two callers, in two scenarios |
| `MCStorage` | the engine with one caller, the version store and the cluster in one instance; a behaviour is about one of them |
| `LsmTreeProofs` | theorems about the engine: types and the log, files, cache, compactions and a crash; the refinement of `KvStore` |
| `Mvcc`, `MCMvcc`, `MvccProofs` | the version store, its TLC instance, its theorems |
| `Raft`, `MCRaft`, `RaftProofs` | the Raft node with its transport as environment; its instance; its theorems |
| `ShardMap`, `DistQuery`, `MCCluster`, `ClusterProofs` | the hash ring; the coordinator on top of it; the instance of both; their theorems |
| `FunQL` | the parser as rules and one interpreter of rules |
| `FunQLText` | how a tree is written: the reference for the parser |
| `QueryPlan` | binder, optimizer and executor as operators |
| `FastPaths` | the texts the handler answers without parsing them |
| `Server` | clients, connections, the handler's steps, the catalog and the rows; parser, binder, optimizer and executor are operator parameters |
| `ServerProofs` | the theorem about the handler |
| `ExtendedSession` | prepared statements and portals |
| `Query` | texts, plans and the server together, with their properties; its configurations give the server's parameters the operators of `FunQL`, `QueryPlan` and `FastPaths` |
| `CausalDag`, `CausalWalks`, `GraphIndex`, `Hnsw`, `BlockCache`, `Embeddings`, `AgentMemory`, `ContextWindow`, `Scm` | one data structure each, with its reference definitions; `CausalWalks` adds the traversals of the DAG and of `CausalEngine` |
| `StructureProofs` | theorems about `ExtendedSession`, `BlockCache`, `AgentMemory` and `ContextWindow` |
| `GraphProofs` | theorems about `GraphIndex` and `CausalDag` |
| `NatLemmas` | least numbers, iteration, ranks, finite unions and sums, for the proofs |
| `MCKnowledge`, `MCQuery` | instances of those structures and of the query side; a behaviour is about one part |
| `MCCausalDag`, `MCContextWindow` | the causal DAG and the context windows by themselves, for the runs that show a disagreement |

### LsmTree

A record is named by the position of the WAL frame that carried it, so a
memtable or an SSTable is a function from keys to positions (0: no entry) and
"later" is `>`. `pc[c]` and `loc[c]` are the program counter and the locals of
caller `c`; `tasks` are the spawned flush tasks. One action is the work under
one lock or one file-system call:

- `WalAppend`, `Insert`, `CheckSize`: `write`/`delete`; `WalAppendFails`: an
  error in one of the three writes of a frame;
- `FlushSwap`, `FlushPush`, `FlushSpawn`, `FlushPolicy`: `flush_memtable`;
  `TaskRead`, `TaskCreate`, `TaskFinish`, `TaskReopen`, `TaskRemove`,
  `TaskFails`: the spawned task, with the index it captured;
- `CompactList`, `CompactOpen`, `CompactCreate`, `CompactFinish`,
  `CompactReopen`, `CompactRemove`, `CompactFails`: `trigger_compaction`;
- `GetActive`, `GetImm`, `GetList`, `GetFile`, `GetNone` and `ScanList`,
  `ScanFile`, `ScanImm`, `ScanActive`: the layers in the order the code visits
  them;
- `Crash`, `Open`: the process dies (possibly inside an append) and replays.

`latest`, `acked` and `seen` are history variables used only by properties.

Abstractions: all records have one size (the flush threshold counts inserts);
the clock used for file names is strictly increasing; a file is unreadable from
its creation until it is complete; the block cache may evict anything as long as
it respects its capacity (the code evicts least recently used); a crash is a
process crash, so what was written to a file stays (the engine never calls
fsync: `Wal::append` only does so for `TxnCommit`, which `LsmTree` never
writes); lock poisoning and directory-read errors are left out; user records
with confidence 0.0, which the code cannot tell from tombstones, are not written.

### Mvcc

The names that other modules have too carry the store's (`MvccInit`, `MvccNext`,
`MvccTypeOK`, `VersionKey`), as those of `DistQuery` carry the cluster's, so that
`MCStorage` can extend both.
The `Vec` of versions of a key is the set of its versions ordered by number.
`Write` stamps with the transaction's snapshot, whenever it runs. `Tick` is the
wall clock, taken to be monotonic; it may stand still. `writes`, `last`,
`horizon` and `overlapped` are history variables.

### Raft

A handler changes the state under the write lock, drops it, saves the hard state
it copied and answers, whether the save failed or not; `propose` checks the role
under one lock and appends under another. `jobs[n]` are the calls of a node that
hold something they read under a lock and have let go. They go on in any order:
saves land out of order, a save or `append_entries` may fail (`Save`,
`ProposeStoreFails`), and a crash forgets all of them. `MaxStale` bounds their
number. `msgs` only grows: a message may be lost, repeated or delivered late. The
crate has no network; its comments give the transport the tally of votes
(`force_become_leader`) and of acknowledgements (`update_match_index`), which
`Handle` does as those comments say. `Restart` returns to what
`MemoryRaftStorage` holds.

`elected`, `forgotten` and `stray` are history variables. `forgotten` has the
votes that a restart has lost: the node had given them, and the hard state it
returned to does not know them, because a save failed or an older one landed
after it. `stray` has the entries that `propose` appended on a node that had
stepped down since the role check. They say exactly where the code does not keep
what Raft promises, and the properties say what holds besides: a vote that is not
forgotten is given once (`VotesOnce`), a term for which no vote was forgotten has
one leader (`OneLeaderPerTerm`), and entries of such a term that are not stray are
the same wherever they are (`LogMatching`, `AckMeansHeld`). That votes are given
twice without these exceptions is the run `raft_votes`.

Behaviours met while modelling: followers' entries are never stored, so a
restarted follower has forgotten what it acknowledged; `replicate_and_commit`
commits what it has sent to nobody (its comment calls it simulated); the commit
index can go back after a snapshot has emptied the log; `force_become_leader`
raises the term without saving it; a failed `append_entries` leaves the entry in
the log although `propose` returns an error; a node that has stepped down appends
a proposal with the term of another leader, whose own entry there is then another
one; after a snapshot a late request pushes its old entries behind newer ones, a
leader numbers on from the last entry of its log, and so an index can be in a log,
and in a request, twice: the second entry is acknowledged without being pushed,
which is why `AckMeansHeld` is about requests that are `OncePerIndex`; with two
nodes the median is no majority and `CommitQuorum` fails.

### ShardMap and DistQuery

Hashes are constants that interleave the entries of the nodes and put keys on
both sides of the seam of the ring. The map is built and changed first, then a
coordinator serves it and no longer sees changes, as it holds the map behind an
`Arc`. Records have distinct confidences and scores (`DistQueryAssumption`): the
sorts of a merge are stable, so ties would be broken by the order of arrival. A scatter asks shards in windows of `max_concurrent_shards`; a shard may
answer, in any order, or not.

Behaviours met: the migration list of `add_node` is always empty although routing
changes; once the ring has been empty, shards a collection used before have no
owner (`leader_addr` panics); an empty shard counts as 0 in `Min`; a per-shard
limit cuts in storage order, before the merge sorts by confidence; a collection
without shards is an error for queries while `route_write` uses shard 0.

### The query side

`FunQL` states every function of the parser as data (`Expect`, `Set`, `Case`,
`Loop`, ...) and `Run` interprets it; a text is a sequence of tokens. `QueryPlan`
binds, rewrites by the rules in the code's order until nothing changes, and
executes over rows. `Server` splits a query at the handler's locks and writes:
fast paths, parse, catalog, bind, execution, one step per inserted row; a write
may fail and the server may restart, which keeps the rows and loses the catalog.

Behaviours met: `NOT IN` loses its negation; tokens after a statement are
ignored; `RETURN x AS of` takes `of` for an alias; `DEPTH 2 IN COLLECTION t` is a
syntax error; an `INSERT` without columns keeps only the last value; an `INSERT`
of several rows is not atomic; a parenthesis in a string miscounts its tag; a
text that mentions `VERSION()` or `FROM _collections` anywhere takes the fast
path; the columns of an answer are those of its first record; a filter on an
array column passes everything; constant folding makes a column of
`TRUE AND a`; a scan ends at the collection's name followed by DEL, so it also
returns collections whose names begin with that name, although the comment of
`ScanOperator` speaks of a single collection (`LongerNames` is empty in the runs;
otherwise `AnswerMatches` fails); after a restart a collection is
unknown until somebody inserts into it; parsing a statement name again changes
what a bound portal runs. The extended session is not wired into the connection.

### Indexes, memory, context and causal models

`CausalDag`, `GraphIndex`, `Hnsw` and `BlockCache` are state machines over their
public operations; queries are operators that the invariants compare with a
reference (chains of edges, simple paths, sorting by distance).

Edges of the graph index carry each a confidence, so parallel edges may differ:
`bfs` must give a node the confidence of some shortest walk to it, and `path`
gives a path once for every choice among parallel edges, as the code does; a path
is therefore known by its nodes and the positions of its edges.

`CausalWalks` adds what the DAG answers about effects and causes, and
`CausalEngine` (`tier1.rs`), which keeps maps of the same shape: in a behaviour
with `engine` the edges come through its `insert_edge`, which refuses a cycle but
no strength, where the index refuses strengths it calls weak; `DagExact` then
asks of the engine's searches what it otherwise asks of the index. `DagExact`
says of a cached pair only that the listed chains are there and, until the next
insertion, that none of the required length is missing; that no path is longer
than the caller allows is `HopsHeld`, and the run `dag_depth` shows it violated.

HNSW's vectors lie on a line and its layers are a constant. Insertions may repeat
a stored id, which then becomes a neighbour of itself, keeps its tombstone and is
counted a second time. `SearchSound` says that no link and no
entry point leads to a vector that is gone, that lists keep to their limit and
`live_count` is exact until an id is repeated (`repeated`), that a beam of any
width stops only where it can gain nothing, and that an answer is exactly the k
nearest of the live nodes that links lead to, which are all live nodes until
pruning or a compaction cuts a link (`cut`): then the graph may fall apart, and
the code promises an approximation.

`AgentMemory` and `ContextWindow` use integer vectors and percentages, compared
without rounding. The option `coherence` is documented as the least mean pairwise
similarity of the selection and tested as closeness to one selected record:
`ContextSound` says what the loop does besides, and `CoherenceHeld`, which is the
doc's sentence, is violated in `context_coherence`. `Scm` has integer equations;
what its statistical tests find is input.

Behaviours met: a cached list of causal paths ignores `max_depth` and later
insertions; in `effects` a longer
stronger path can hide nodes inside the limit, which `CausalEngine`'s
breadth-first version avoids; `compact` rebuilds no edges although its doc says
so, and live nodes may become unreachable; empty texts are never consolidated;
a forced contradiction is accepted whatever it costs; `intervene` keeps observed values
downstream, which block the intervention, while `counterfactual` recomputes
them; PC orients every unshielded triple as a collider without looking at the
separating set, and a later collider turns the edges of an earlier one.

## Runs

| run | bounds | checks |
|---|---|---|
| `storage`: engine | 1 caller, 2 keys, 3 WAL frames, threshold 1, 1 flush in flight | `TypeOK`, `CacheCoherent`, `ImplementsKvStore` (refinement), `FlushDrains` (liveness) |
| `storage`: versions | 1 key, 3 transactions, 3 writes, clock to 3, two valid-time windows | `MvccTypeOK`, `OneCurrent`, `LatestWins`, `SerialHistory`, `PastUnchanged`, `ValidHistory` |
| `storage`: cluster | 3 nodes of 2 entries, 6 shards, 3 records, windows of 2 | `ShardsOwned`, `GroupsComplete`, `RingStability`, `MigrationsExact`, `AnswersExact`, `LookupFindsWrite`, `QueryAnswered` (liveness) |
| `lsm_concurrent`: compactions | 2 callers writing, flushing, compacting; 2 WAL frames, clock to 5, 1 failing write | `WriteAhead`, `KeysStay`, `CompactionKeepsKeys` |
| `lsm_concurrent`: crash | 2 callers writing and scanning; 3 WAL frames, clock to 3, 1 crash, torn frames | the same and `AckedSurvive` |
| `raft` | 3 nodes, 2 elections, 3 further events (proposals, messages of leaders, failing writes, crashes), 2 calls of a node past their lock | `VotesOnce`, `OneLeaderPerTerm`, `LogMatching`, `AckMeansHeld`, `CommitQuorum` |
| `query` | expressions of two nested operators, SELECTs with any three clauses, every other statement; stacks of three plan operators; 2 clients with 2 queries, 1 failing write, 1 restart; 4 session messages; 3 edges, 4 vectors with 5 insertions and deletions, 3 memories, 3 records, models of 3 variables | `ParsesBack`, `PlansAgree`, `AnswerMatches`, `InsertVisible`, `QueriesAnswered`, `PortalsRun`, `DagExact`, `BfsShortest`, `SearchSound`, `CacheExact`, `Consolidated`, `ContextSound`, `ScmExact` |
| `lsm_compaction_order` | 1 caller | `NewestWins` is violated |
| `lsm_delete_restart` | 1 caller, 1 crash | `AckedSurvive` is violated |
| `lsm_flush_index` | 2 flushes in flight | `KeysStay` is violated |
| `lsm_scan_flush` | 1 caller and its flush task | `ReadsCurrent` is violated |
| `raft_votes` | 3 nodes, 3 elections, 1 failing write or crash, 2 calls past their lock | `VotesOnceEver` is violated |
| `query_confidence` | 1 client, 2 queries | `ConfidenceTurns` is violated |
| `dag_depth` | 3 facts, 1 cached pair | `HopsHeld` is violated |
| `context_coherence` | 3 records | `CoherenceHeld` is violated |

`storage` and `query` hold several systems that share nothing, and
`lsm_concurrent` two scenarios; a variable that never changes says which a
behaviour is about, so each keeps its own states.

Why the bounds are enough: with a flush threshold of one insert every write
starts a flush, so three frames already give two files, a compaction and a
record in memory; two callers give every race of two calls. In `raft` two
elections and three events suffice for a vote, a lost or forgotten vote, a deposed
leader that appends and an append that replaces another's entry; a heartbeat
counts as two events. `MCNext` lets the calls of one node overlap, with their
saves, failures and crashes in any order, while the other nodes wait; what they
have sent before arrives at any time. It leaves out calls of two nodes in flight
at once, which touch no common state but the messages; the theorems are about
`Spec`, without that bound. In the cluster only maps with all nodes and factor 1
are taken into service, since the coordinator reads nothing else of the map. In
`query` one client asks everything and the other only creates, inserts and
selects; one pair of facts is cached, since facts are interchangeable. Four
vectors with up to three layers and two links a node above layer 0 are enough for
lists that outgrow their limit and are pruned, in layer 1, and with five calls an id
is inserted again and an entry point goes. Deadlock checking is off because
callers need not call anything and all counters are bounded.

The eight violated runs are findings: the code disagrees with its own comments
or tests. The passing runs leave out what those runs show, or state what holds
besides:

- `MaxFlushes = 1` in the passing runs (one flush between swap and removal at a
  time), because with two the stale index drops a memtable (`lsm_flush_index`);
- the crash scenario of `lsm_concurrent` has no deletes (`lsm_delete_restart`);
- the engine of `storage` has no compactions (`lsm_compaction_order`) and no scans
  (`lsm_scan_flush`);
- `VotesOnce` and the other properties of `raft` exempt votes a restart has lost
  (`raft_votes`);
- the statements of `query` keep `_confidence` on the left (`query_confidence`);
- `DagExact` does not bound the length of cached paths (`dag_depth`), and
  `ContextSound` does not ask for the mean similarity (`context_coherence`).

Some exclusions have no run of their own: there are no failing writes together
with a crash of the engine (a frame that failed half-way hides every later frame
from recovery); `raft` has an odd number of nodes; entries that `propose` appends
after stepping down are exempt from `LogMatching`; no collection's name begins
with another's (`LongerNames` is empty); portals whose statement was parsed again
are exempt from `PortalsRun`; and reads in MVCC's past may change while an older
transaction is open. Each is described above as a behaviour of the code.

Further behaviours met while modelling and not turned into runs: a failed flush
leaves its memtable in front of all newer files; with two callers a `get` between
a flush's swap and push misses an acknowledged record; `get` and `scan` return
an error while, or after a crash because, an `.sst` file is half-written;
`Wal::open` does not cut off a torn tail, so frames appended after a restart are
lost by the next one; in MVCC a reader's snapshot can change when an older
transaction writes later (`PastUnchanged` states what is really guaranteed),
although `begin_txn` says it will not.

Fairness: `FairSpec` assumes weak fairness of each caller's current call and of
the flush tasks: Tokio polls every runnable future and the locks are released by
the next step. Nothing assumes that a caller starts a call. `FlushDrains` in
`storage` needs it; that every call returns is no property here, since without
lock poisoning each is a chain of steps without a loop. `QueryAnswered` needs weak
fairness of the coordinator's steps (`ClusterFairness`): every shard call ends within
`timeout_ms`. `query` assumes that a server or a client that has something
to do does it, once more because Tokio polls every runnable task; it is written
out as "infinitely often idle or infinitely often moving", which is weak fairness
without the ENABLED that TLC would evaluate by parsing again.

Every property of a passing run has a mutant: a changed definition (a dropped
guard, an off-by-one, a lost step) under which TLC reports that property.

## Proofs

The theorems hold for all constants satisfying the `ASSUME`s of the modules:
there is no bound on keys, callers, frames, nodes, elections, overlapping calls,
messages, records or transactions. Sets of callers, nodes and the like are assumed finite. Where a
theorem has a hypothesis of its own it is named below, with the run or the
behaviour that shows why it is needed; each is satisfied by the run that checks
the property.

| module | theorems | hypothesis |
|---|---|---|
| `LsmTreeProofs` | `TypeCorrect`, `WriteAheadHolds`, `CacheCoherentHolds`, `CompactionKeepsKeysHolds` | |
| | `KeysStayHolds` | `MaxFlushes = 1` |
| | `AckedSurviveHolds` | `OneCrash` |
| | `ImplementsKvStoreHolds` | `OneCaller` |
| `MvccProofs` | `TypeCorrect`, `OneCurrentHolds`, `LatestWinsHolds`, `SerialHistoryHolds`, `PastUnchangedHolds`, `ValidHistoryHolds` | |
| `RaftProofs` | `VotesOnceHolds`, `OneLeaderPerTermHolds`, `LogMatchingHolds`, `AckMeansHeldHolds` | |
| | `CommitQuorumHolds` | an odd number of nodes |
| `ClusterProofs` | `ShardsOwnedHolds`, `RingStabilityHolds`, `MigrationsExactHolds`, `GroupsCompleteHolds`, `AnswersExactHolds` | |
| | `LookupFindsWriteHolds` | one collection |
| `StructureProofs` | `PortalsRunHolds`, `CacheExactHolds`, `ConsolidatedHolds`, `ContextSoundHolds` | |
| `GraphProofs` | `BfsShortestHolds`, `AcyclicHolds`, `PathsHolds` | |
| `ServerProofs` | `InsertVisibleHolds` | `LanguageOK` |

`LsmTreeProofs`. `WriteAhead` is not inductive: a record reaches the memtable
through the caller's local position, and what the layers hold must stay valid
while the log grows. `IInv` adds the types and, for a caller about to insert,
that its position is a complete frame for its key (`Carries`). `LogGrows` shows
that appending keeps what was logged; one lemma per action shows that it only
moves logged records around; `OpenStep` uses that recovery stops before the
first bad frame.

Its second part is about the files. `FInv` adds to `IInv` what compactions and tasks rely on
between their steps: file names are unique and in the past, and no announced name
is in the directory or the cache (`Named`); a table being merged, or already
written, has every key of the inputs that are gone or will go (`Merged`). So the
cache agrees with the files and a compaction keeps every key, with any number of
callers and tasks. `KInv` adds that only one memtable is on its way and that its
task writes, and then removes, exactly that one (`Flushed`), from which no key
ever leaves the layers that reads search (`KeysPresent`). That needs
`MaxFlushes = 1`: with two, the index a task captured may be another's
(`lsm_flush_index`). `OneCrash` says that there are no deletes, no failing writes
and at most one crash: then the log has no hole before the crash and everything
acknowledged is in front of the hole a torn frame may leave (`LogOK`). With
deletes a tombstone has no effect after a restart (`lsm_delete_restart`), and a
failed or torn frame hides later ones from the next replay.

Its third part is the refinement. The engine implements `KvStore` step by step: a mutation takes
effect when it enters the memtable, a read when it reaches the layer that
answers; every other step stutters. `NInv` adds to `KInv` where the caller can be
(`CallersOK`), that the frozen memtable, its task and its file are about the same
records (`PendingOK`), that what a read has already searched does not have its key
(`GettingOK`), and the bounds that keep compactions away (`BoundsOK`). `OneCaller` is one client that writes, deletes,
reads and flushes, one flush at a time, without crashes and failing writes and
with too few files for a compaction. Without it the refinement is false:
compactions take old files for new (`lsm_compaction_order`), scans visit layers in
the wrong order while a flush runs (`lsm_scan_flush`), and a second caller's `get`
between the swap and the push of a flush misses a record.

`MvccProofs`. `MInv` adds that a superseded version ended at a clock reading
(`Closed`), that numbers identify versions (`Numbered`), that the live version is
the last one written (`LiveIsLast`) and that, without overlap, the open
transaction is the latest (`Serial`). `LatestWins` follows because only the live
version can contain the present; `PastUnchanged` because a write changes no
window before its snapshot and `gc` removes no window that reaches the horizon;
`ValidHistory` because a version `gc` removes ended before every read that
still may come, and no other version has its number. `LeastNat` gives the first matching version `find()` needs.

`RaftProofs`. Nothing is assumed about how many calls of a node overlap, which
saves fail or in which order they land, or what is on disk. `VInv` is about votes.
A node is bound to a candidate by a vote it has given, its own included where it
was elected, and by one it will give when its save is over (`Promised`); as long as
the vote is not forgotten its state remembers it and binds it to nobody else
(`VotesOK`). The lock makes that true whatever happens to the saves: the vote is
decided on the state in memory. A restart is the only step that may forget, and
what it forgets goes to `forgotten`. Who was elected had a majority of such votes
(`ElectedOK`); two majorities meet in a node that was bound to both, unless it
forgot. `CandidateOK` and `LeaderOK` say what roles are worth. `RInv` adds
`EntriesOK`, about all entries wherever they are (`Held`: logs, storage, calls and
messages): a `Sound` one, neither stray nor of a doubtful term, was made by the leader of
its term, which numbers upwards, so that there is one for an index and a term.
`AckMeansHeld` follows the merge of a request entry by entry: the first entry of an
index after the merge has the term the request has there. `CommitQuorum` needs
none of it: the value `advance_commit_index` takes is the median of the match
indexes, and with an odd number of nodes a majority has it (`MedianMajority`),
whatever overlaps; its invariant `QInv` is about types only.

`ClusterProofs`. `RingOK`: entries of the ring have distinct hashes and shards and
belong to members; `OwnersOK` and `RoutedOK`: owners are members, and a shard a
collection was routed to since the ring was last empty has one. From these follow the owners, which
records change shards, and the migrations. A replication group is complete
because the walk, whose entries are counted by their ranks, meets every node
(`WalkMeets`), and after any part of it the nodes found are those met, up to the
factor (`Found`). `AInv` relates an answer to the query it answers: no record is in
two shards (`DataOK`), a result is an outcome of the scan, similarity or
aggregate that was asked for (`ResultsOK`). Then each shard has sent enough of what
a merge keeps, or all it has (`SentEnough`), the first records of the merged order
are the best ones anywhere, and sums over the shards are sums over their records
(`SumOfParts`: a sum is a number of units, and those of disjoint parts are
disjoint). `LInv` says that a record lies in the shard a lookup asks
(`StoredOK`, `AskedOK`); with several collections a record of another one
may be found, since stored records do not carry their collection.

`StructureProofs`. For the session `PInv`: a bound portal names a statement that was
parsed. For the block cache `BInv`: the order lists every block once and the count is
the bytes of the blocks (`Coherent`). It holds between the evictions of a loop as
well (`AfterEvictions`), which leave a suffix of the order and stop at the first
that fits. For agent memory the state needs little, `EntriesOK` (no entry is from
the future, so that scores order the entries); the argument is about the two loops
of `consolidate`. At every point of them what was dropped gave way, perhaps over
others, to what is left (`GaveWay`), and a pair that was compared stays without
two live alike memories (`StaysSettled`), so the last row has settled all pairs:
similarity does not depend on the order of two vectors (`CosineFacts`). `recall`
then answers with live entries only, as each rank below their number is taken by
exactly one of them.

For context windows the state needs only types (`RecordsOK`); what holds of a window
in the making (`Making`) is passed from round to round of the MMR loop (`TakeMaking`),
and a round takes a record unless none fits (`RoundTakes`, `Stuck`), so that as many
rounds as there are records leave out nothing that fits.

`GraphProofs`. The graph index: the edges say everything (`GInv`: types and the two
maps), and the argument is about the loops. At every turn of `bfs` the queue holds
what is left of one level and, behind it, the beginning of the next (`Level`), and a
node is visited at its distance from the start (`TurnFresh`), with the strength of
some walk of that many edges (`WalksCarry`), parallel edges of other confidences
notwithstanding. That the loop has come
to its end after as many turns as there are edges, and one, is counted: the
queue and the edges of nodes not yet visited pay for every turn (`Within`). `path`
stands after k nodes on exactly the simple trails of k nodes that have not come to
their target (`Trails`), a trail being its nodes and the positions of its edges in
their lists. The causal DAG: that no chain of edges closes a cycle is not
inductive by itself. `Ranking` is: there is a rank for every fact that rises along
every edge. When `insert_edge` finds that the new edge's end does not reach its
source, what `can_reach` has visited is closed under edges (`NotReached`, by
counting: a set that grows in every round outgrows the facts), and raising all of it
above the source ranks the new edge too (`StaysRanked`). Along a chain ranks rise
(`ChainRises`), so none returns, none is longer than there are facts, and the search
with backtracking, which refuses facts it stands on, refuses no chain
(`RoadsGrow`, `SearchExactly`); strengths only fall along a chain, so pruning loses
nothing. `CacheOK` and `FreshOK` add what a cached list keeps: it lists chains that
are still there, and until the next insertion all of them up to its depth.

`ServerProofs`. For any clients, statements, restarts and failing writes, and
however the tasks of the connections interleave. The theorem is about the handler
and not about what texts mean, so it takes that as its hypothesis: `LanguageOK` says
of the statements clients send that SELECT, INSERT and CREATE are read as what was
written and not caught by a fast path, that a SELECT of everything finds at least
the rows of its collection or is refused as unknown, that an INSERT binds to one or
more rows of its collection, that a CREATE answers no rows, and that nothing else writes. `MCQuery`
evaluates it (`MCLanguage`) for the operators of `FunQL`, `QueryPlan` and `FastPaths`,
on stores of up to two records. `InsertVisible` is about answers already read and is
far from inductive. `Connections` says which of eight states each connection is in
(`Off` to `Told`), what the task of a busy one holds (`Busy`) and what an answer in
flight will be read as (`Replied`). What a client was promised when it asked
(`Promised`) only gets easier to keep, since rows are never removed and the catalog
grows until a restart ends all connections (`ConnKept`). That the tags never count
more rows than there are is the part about interleavings: an INSERT writes its rows
one by one among those of others and is counted only when its client reads the tag,
which may never come. `Ledger` gives each connection rows of its own, as many as it
wrote without its client knowing, none of them anyone else's; what nobody owns is
enough for every tag read so far. Writing a row adds it to its writer's; a failed
write and a restart abandon them; reading the tag gives them up and counts them
(`InsertReadKeeps`). All other steps are `Quiet`. `RowsRead` shows by induction
over the messages that a client reads exactly the rows it was sent.

Only model-checked: what recursive operators compute is out of the prover's
reach, so the parser, the binder, optimizer and executor, the answers made of
them, HNSW, the traversals of the DAG and causal models stay with TLC
(`ParsesBack`, `PlansAgree`, `AnswerMatches`, `SearchSound`,
`ScmExact`, and of `DagExact` the conjuncts `Reach` and `Engine`; its other two are
proved for the index). The theorems that are about recursive functions all the same (`Dot`, the
loops of `consolidate` and `bfs`, evictions, searches) show with `UpTo` of `NatLemmas`,
induction stated for a set, what each value inherits from the one before, and with
`IterateNat` that such a function exists.
Liveness under fairness is out of its reach too: `FlushDrains`, `QueryAnswered`, `QueriesAnswered`.

## Plan

Done: storage with its abstract store, MVCC, Raft, cluster, the path of a query,
indexes, agent memory, context windows and causal models; the proofs above.

Next, in this order:

1. A second crash in `lsm_concurrent` with an acknowledged write between the two
   (`Wal::open` after a torn tail).
2. COPY and authentication as phases of the connection.

## Not modelled

- The lexer and byte encodings (WAL frames, SSTable blocks, wire messages,
  column pages): texts are token sequences and an encoding is read back exactly.
- Floating-point numerics: the cost model, product quantization, confidence
  propagation, Granger tests, regression, Fisher's test, learning to rank, text
  similarity. What they compute is not within TLC's reach; where control depends
  on an outcome, the outcome is an input.
- Access control and audit: set membership and a bounded list behind one lock
  that nothing in the server calls yet. Observability: independent counters.
- HTTP, terminal, SDKs and the editor extension: I/O.
- Lock poisoning everywhere.
