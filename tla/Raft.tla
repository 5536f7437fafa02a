-------------------------------- MODULE Raft --------------------------------
(***************************************************************************)
(* The Raft node (fundb-raft: raft.rs) and the transport that calls it.    *)
(*                                                                         *)
(* The crate has no network: its comments leave to "the transport layer"   *)
(* the delivery of requests to the handlers of the peers, the call of      *)
(* force_become_leader for a candidate with enough votes and of            *)
(* update_match_index for an acknowledged append.  That transport is       *)
(* external; here it may lose, repeat and reorder messages (msgs only      *)
(* grows) and it promotes only a node that is still a candidate in the     *)
(* term of the votes.                                                      *)
(*                                                                         *)
(* A handler changes the state under the write lock, drops the lock, then  *)
(* saves the hard state it copied, then answers, whether the save failed   *)
(* or not.  jobs[n] are the calls that have left the lock; they go on in   *)
(* any order.  A crash forgets them, the volatile state and every entry    *)
(* that was never stored.                                                  *)
(***************************************************************************)
EXTENDS Integers, Sequences, FiniteSets, SequencesExt

CONSTANTS
  Nodes,
  None,           \* Option::None for node ids
  MaxStale,       \* bound: calls of one node that hold what they read under a lock
  MaxElections,   \* bound: calls of start_election
  MaxEvents       \* bound: proposals, messages of leaders, failing writes and
                  \* crashes, together; a heartbeat, without entries, counts twice

ASSUME RaftAssumption ==
  /\ IsFiniteSet(Nodes)
  /\ None \notin Nodes
  /\ {MaxStale, MaxElections, MaxEvents} \subseteq Nat

VARIABLES
  role, currentTerm, votedFor, log, commitIndex, lastApplied, matchIndex, leaderId,
  disk,       \* disk[n]: the stored hard state, [term, vote, commit]
  diskLog,    \* diskLog[n]: the stored entries
  diskSnap,   \* diskSnap[n]: the stored snapshot, [index, term]; 0s for none
  jobs,       \* jobs[n]: calls of n that are past their lock
  msgs,       \* every message sent so far
  elected,    \* history: <<term, node>> for every time a node became leader
  forgotten,  \* history: <<node, term>> for the votes a restart has lost
  stray,      \* history: entries a node appended without being the leader
  elections,  \* calls of start_election so far
  events      \* what has happened of the things MaxEvents bounds

state == <<role, currentTerm, votedFor, log, commitIndex, lastApplied, matchIndex, leaderId>>
storage == <<disk, diskLog, diskSnap>>
history == <<forgotten, stray>>
vars == <<state, storage, jobs, msgs, elected, history, elections, events>>

bounds == <<elections, events>>
Events(k) == UNCHANGED elections /\ events + k <= MaxEvents /\ events' = events + k
Event == Events(1)

Peers(n) == Nodes \ {n}
Majority == Cardinality(Nodes) \div 2 + 1

-----------------------------------------------------------------------------
(* The log: entries [index, term, data] in the order of the Vec            *)

LastLogIndex(l) == IF l = <<>> THEN 0 ELSE l[Len(l)].index
LastLogTerm(l) == IF l = <<>> THEN 0 ELSE l[Len(l)].term

\* log_term_at: the term of the first entry with that index, or 0.
LogTermAt(l, i) ==
  LET at == {k \in DOMAIN l : l[k].index = i}
  IN IF i = 0 \/ at = {} THEN 0 ELSE l[CHOOSE k \in at : \A j \in at : k <= j].term

\* Vec::retain: what of l is in keep, in the order of l.
Retain(l, keep) ==
  LET kept[k \in 0 .. Len(l)] ==
        IF k = 0 THEN <<>>
        ELSE IF l[k] \in keep THEN Append(kept[k - 1], l[k]) ELSE kept[k - 1]
  IN kept[Len(l)]

Below(l, i) == Retain(l, {e \in Range(l) : e.index < i})
Above(l, i) == Retain(l, {e \in Range(l) : e.index > i})

\* is_log_up_to_date: is a log that ends in (index, term) at least as good as l?
IsLogUpToDate(l, index, term) ==
  IF term # LastLogTerm(l) THEN term >= LastLogTerm(l) ELSE index >= LastLogIndex(l)

\* Mutant: conflicting entries stay.
CutConflictMutant(l, e) == l

\* Steps 4 and 5 of handle_append_entries: cut at every conflict, then push
\* what is missing.
CutConflict(l, e) ==
  IF LogTermAt(l, e.index) \notin {0, e.term} THEN Below(l, e.index) ELSE l
PushMissing(l, e) == IF LogTermAt(l, e.index) = 0 THEN Append(l, e) ELSE l
CutConflicts(l, es) ==
  LET cut[k \in 0 .. Len(es)] == IF k = 0 THEN l ELSE CutConflict(cut[k - 1], es[k])
  IN cut[Len(es)]
PushAll(l, es) ==
  LET pushed[k \in 0 .. Len(es)] == IF k = 0 THEN l ELSE PushMissing(pushed[k - 1], es[k])
  IN pushed[Len(es)]
Merge(l, es) == PushAll(CutConflicts(l, es), es)

\* MemoryRaftStorage::append_entries for one entry.
StoreEntry(l, e) == Append(Below(l, e.index), e)

-----------------------------------------------------------------------------
(* Pieces of the handlers                                                  *)

HardState(n) == [term |-> currentTerm'[n], vote |-> votedFor'[n], commit |-> commitIndex'[n]]

\* A call may read the state for later use: the bound on the calls that have
\* checked the role or copied the hard state and not yet acted on it.
Free(n) == Cardinality({j \in jobs[n] : j.step \in {"append", "save"}}) < MaxStale
Spawn(n, j) == jobs' = [jobs EXCEPT ![n] = @ \cup {j}]

\* Copy the hard state, save it (after a snapshot, index 0 for none) later and
\* then send the answers.
SaveJob(n, snap, answers) ==
  [step |-> "save", hs |-> HardState(n), snap |-> snap, send |-> answers]
NoSnapshot == [index |-> 0, term |-> 0]
SaveThen(n, answers) == Spawn(n, SaveJob(n, NoSnapshot, answers))

\* become_follower: the vote is forgotten even if the term is unchanged.
BecomeFollower(n, term, leader) ==
  /\ role' = [role EXCEPT ![n] = "follower"]
  /\ currentTerm' = [currentTerm EXCEPT ![n] = term]
  /\ votedFor' = [votedFor EXCEPT ![n] = None]
  /\ leaderId' = [leaderId EXCEPT ![n] = leader]

\* become_leader; next_index is left out, since its values are never read
\* and its keys are the peers.
BecomeLeader(n, term) ==
  /\ role' = [role EXCEPT ![n] = "leader"]
  /\ currentTerm' = [currentTerm EXCEPT ![n] = term]
  /\ leaderId' = [leaderId EXCEPT ![n] = n]
  /\ matchIndex' = [matchIndex EXCEPT ![n] = [p \in Peers(n) |-> 0]]
  /\ elected' = elected \cup {<<term, n>>}

-----------------------------------------------------------------------------
(* Elections                                                               *)

\* start_election: the request is complete when the hard state is saved; see
\* Save for a node without peers.
StartElection(n) ==
  /\ elections < MaxElections /\ elections' = elections + 1
  /\ Free(n)
  /\ role' = [role EXCEPT ![n] = "candidate"]
  /\ currentTerm' = [currentTerm EXCEPT ![n] = @ + 1]
  /\ votedFor' = [votedFor EXCEPT ![n] = n]
  /\ leaderId' = [leaderId EXCEPT ![n] = None]
  /\ UNCHANGED <<log, commitIndex, lastApplied, matchIndex, storage, msgs, elected, history, events>>
  /\ SaveThen(n, {[type |-> "vote", from |-> n, term |-> currentTerm'[n],
                   index |-> LastLogIndex(log[n]), logTerm |-> LastLogTerm(log[n])]})

\* Mutant: a request of the node's own term makes it a follower, too, which
\* clears its vote.
HandleRequestVoteMutant(n, m) ==
  /\ m.type = "vote" /\ m.from # n
  /\ m.term >= currentTerm[n]
  /\ Free(n)
  /\ LET grant == IsLogUpToDate(log[n], m.index, m.logTerm)
     IN /\ role' = [role EXCEPT ![n] = "follower"]
        /\ currentTerm' = [currentTerm EXCEPT ![n] = m.term]
        /\ leaderId' = [leaderId EXCEPT ![n] = None]
        /\ votedFor' = [votedFor EXCEPT ![n] = IF grant THEN m.from ELSE None]
        /\ UNCHANGED <<log, commitIndex, lastApplied, matchIndex, storage, msgs, elected, history, bounds>>
        /\ IF grant
           THEN SaveThen(n, {[type |-> "voted", from |-> n, to |-> m.from, term |-> m.term]})
           ELSE UNCHANGED jobs

\* handle_request_vote.  A refusal changes no stored state, and since nobody
\* reads a refusal it is not kept as a message.
HandleRequestVote(n, m) ==
  /\ m.type = "vote" /\ m.from # n
  /\ m.term >= currentTerm[n]
  /\ Free(n)
  /\ LET newer == m.term > currentTerm[n]
         grant == /\ newer \/ votedFor[n] \in {None, m.from}
                  /\ IsLogUpToDate(log[n], m.index, m.logTerm)
     IN /\ role' = [role EXCEPT ![n] = IF newer THEN "follower" ELSE @]
        /\ currentTerm' = [currentTerm EXCEPT ![n] = m.term]
        /\ leaderId' = [leaderId EXCEPT ![n] = IF newer THEN None ELSE @]
        /\ votedFor' = [votedFor EXCEPT ![n] =
                          IF grant THEN m.from ELSE IF newer THEN None ELSE @]
        /\ UNCHANGED <<log, commitIndex, lastApplied, matchIndex, storage, msgs, elected, history, bounds>>
        /\ IF grant
           THEN SaveThen(n, {[type |-> "voted", from |-> n, to |-> m.from, term |-> m.term]})
           ELSE UNCHANGED jobs

\* The peers that have granted n their vote for its current term.
Votes(n) ==
  {m.from : m \in {r \in msgs : r.type = "voted" /\ r.to = n /\ r.term = currentTerm[n]}}

\* Mutant: the candidate's own vote is counted twice.
ForceBecomeLeaderMutant(n) ==
  /\ role[n] = "candidate" /\ Free(n)
  /\ Cardinality(Votes(n)) + 2 >= Majority
  /\ BecomeLeader(n, currentTerm[n] + 1)
  /\ UNCHANGED <<votedFor, log, commitIndex, lastApplied, storage, jobs, msgs, history, bounds>>

\* force_become_leader, called by the transport for a candidate with the
\* votes of a majority.  It raises the term once more and persists nothing.
ForceBecomeLeader(n) ==
  /\ role[n] = "candidate" /\ Free(n)
  /\ Cardinality(Votes(n)) + 1 >= Majority
  /\ BecomeLeader(n, currentTerm[n] + 1)
  /\ UNCHANGED <<votedFor, log, commitIndex, lastApplied, storage, jobs, msgs, history, bounds>>

-----------------------------------------------------------------------------
(* Replication                                                             *)

\* Only a leader sends; the transport repeats what it likes.
Send(n, m, cost) ==
  /\ role[n] = "leader"
  /\ Events(cost)
  /\ msgs' = msgs \cup {m}
  /\ UNCHANGED <<state, storage, jobs, elected, history>>

\* The request whose entries start at position k of the log: send_heartbeat
\* for k past the end, the transport's appends otherwise.
AppendRequest(n, k) ==
  [type |-> "append", from |-> n, term |-> currentTerm[n],
   prev |-> IF k = 1 THEN 0 ELSE log[n][k - 1].index,
   prevTerm |-> IF k = 1 THEN 0 ELSE log[n][k - 1].term,
   entries |-> SubSeq(log[n], k, Len(log[n])),
   commit |-> commitIndex[n]]

SendHeartbeat(n) == Send(n, AppendRequest(n, Len(log[n]) + 1), 2)

SendEntries(n) == \E k \in DOMAIN log[n] : Send(n, AppendRequest(n, k), 1)

\* The transport sends what is committed as a snapshot.
SendSnapshot(n) ==
  /\ LogTermAt(log[n], commitIndex[n]) # 0
  /\ Send(n, [type |-> "snapshot", from |-> n, term |-> currentTerm[n],
              index |-> commitIndex[n], logTerm |-> LogTermAt(log[n], commitIndex[n])], 1)

\* What handle_append_entries and handle_install_snapshot do about the
\* sender; `reset` says when they call become_follower.
HearLeader(n, m, reset) ==
  IF reset THEN BecomeFollower(n, m.term, m.from)
  ELSE /\ leaderId' = [leaderId EXCEPT ![n] = m.from]
       /\ UNCHANGED <<role, currentTerm, votedFor>>

\* handle_append_entries: a candidate gives way to a leader of its own term.
HandleAppendEntries(n, m) ==
  /\ m.type = "append" /\ m.from # n
  /\ m.term >= currentTerm[n]
  /\ Free(n)
  /\ HearLeader(n, m, m.term > currentTerm[n] \/ role[n] = "candidate")
  /\ LET ok == m.prev > 0 => LogTermAt(log[n], m.prev) = m.prevTerm
         merged == IF ok THEN Merge(log[n], m.entries) ELSE log[n]
         least == IF m.commit < LastLogIndex(merged) THEN m.commit ELSE LastLogIndex(merged)
     IN /\ log' = [log EXCEPT ![n] = merged]
        /\ commitIndex' = [commitIndex EXCEPT ![n] = IF ok /\ m.commit > @ THEN least ELSE @]
        /\ UNCHANGED <<lastApplied, matchIndex, storage, msgs, elected, history, bounds>>
        /\ SaveThen(n, IF ok THEN {[type |-> "appended", from |-> n, to |-> m.from,
                                    term |-> m.term, match |-> m.prev + Len(m.entries)]}
                       ELSE {})

\* handle_install_snapshot: no change of role in the same term, and the log
\* keeps only what is above the snapshot.
HandleInstallSnapshot(n, m) ==
  /\ m.type = "snapshot" /\ m.from # n
  /\ m.term >= currentTerm[n]
  /\ Free(n)
  /\ HearLeader(n, m, m.term > currentTerm[n])
  /\ log' = [log EXCEPT ![n] = Above(@, m.index)]
  /\ commitIndex' = [commitIndex EXCEPT ![n] = IF m.index > @ THEN m.index ELSE @]
  /\ lastApplied' = [lastApplied EXCEPT ![n] = IF m.index > @ THEN m.index ELSE @]
  /\ UNCHANGED <<matchIndex, storage, msgs, elected, history, bounds>>
  /\ Spawn(n, SaveJob(n, [index |-> m.index, term |-> m.logTerm], {}))

\* Mutant: the largest match index.
MedianMutant(f) ==
  CHOOSE v \in {f[x] : x \in DOMAIN f} : \A x \in DOMAIN f : f[x] <= v

\* The value all_match[total / 2] after sorting: half of the values, rounded
\* down, come before it.
Median(f) ==
  LET half == Cardinality(DOMAIN f) \div 2
  IN CHOOSE v \in {f[x] : x \in DOMAIN f} :
       /\ Cardinality({x \in DOMAIN f : f[x] < v}) <= half
       /\ Cardinality({x \in DOMAIN f : f[x] <= v}) > half

\* advance_commit_index, given the match index of every node.
AdvanceCommitIndex(n, match) ==
  LET new == Median(match)
  IN IF new > commitIndex[n] /\ LogTermAt(log[n], new) = currentTerm[n]
     THEN new ELSE commitIndex[n]

\* update_match_index, called by the transport for an acknowledgement of the
\* leader's current term.
UpdateMatchIndex(n, m) ==
  /\ m.type = "appended" /\ m.to = n /\ m.term = currentTerm[n]
  /\ role[n] = "leader"
  /\ Free(n)
  /\ matchIndex' = [matchIndex EXCEPT ![n][m.from] = m.match]
  /\ commitIndex' = [commitIndex EXCEPT ![n] = AdvanceCommitIndex(n,
       [x \in Nodes |-> IF x = n THEN LastLogIndex(log[n]) ELSE matchIndex'[n][x]])]
  /\ UNCHANGED <<role, currentTerm, votedFor, log, lastApplied, leaderId, storage, msgs,
                 elected, history, bounds>>
  /\ IF commitIndex'[n] # commitIndex[n] THEN SaveThen(n, {}) ELSE UNCHANGED jobs

-----------------------------------------------------------------------------
(* propose: role check, append, storage and commit take the lock apart     *)

Replace(n, j, new) == jobs' = [jobs EXCEPT ![n] = (@ \ {j}) \cup new]

\* The pre-check under the read lock; others get NotLeader.
Propose(n) ==
  /\ role[n] = "leader" /\ Free(n)
  /\ Event
  /\ Spawn(n, [step |-> "append", data |-> events'])
  /\ UNCHANGED <<state, storage, msgs, elected, history>>

\* Mutant: the entry is numbered after the last committed one.
ProposeAppendMutant(n, j) ==
  /\ j.step = "append"
  /\ LET e == [index |-> commitIndex[n] + 1, term |-> currentTerm[n], data |-> j.data]
     IN /\ log' = [log EXCEPT ![n] = Append(@, e)]
        /\ stray' = IF role[n] = "leader" THEN stray ELSE stray \cup {e}
        /\ Replace(n, j, {[step |-> "store", entry |-> e]})
  /\ UNCHANGED <<role, currentTerm, votedFor, commitIndex, lastApplied, matchIndex, leaderId,
                 storage, msgs, elected, forgotten, bounds>>

\* Under the write lock: the entry takes the term the node has now, and nobody
\* asks again whether it still leads.
ProposeAppend(n, j) ==
  /\ j.step = "append"
  /\ LET e == [index |-> LastLogIndex(log[n]) + 1, term |-> currentTerm[n], data |-> j.data]
     IN /\ log' = [log EXCEPT ![n] = Append(@, e)]
        /\ stray' = IF role[n] = "leader" THEN stray ELSE stray \cup {e}
        /\ Replace(n, j, {[step |-> "store", entry |-> e]})
  /\ UNCHANGED <<role, currentTerm, votedFor, commitIndex, lastApplied, matchIndex, leaderId,
                 storage, msgs, elected, forgotten, bounds>>

ProposeStore(n, j) ==
  /\ j.step = "store"
  /\ diskLog' = [diskLog EXCEPT ![n] = StoreEntry(@, j.entry)]
  /\ Replace(n, j, {[step |-> "commit", index |-> j.entry.index]})
  /\ UNCHANGED <<state, disk, diskSnap, msgs, elected, history, bounds>>

\* append_entries fails: propose returns the error and leaves the entry in the
\* log.
ProposeStoreFails(n, j) ==
  /\ j.step = "store"
  /\ Event
  /\ Replace(n, j, {})
  /\ UNCHANGED <<state, storage, msgs, elected, history>>

\* The commit: at once without peers; otherwise replicate_and_commit, which
\* counts an acknowledgement of every peer without asking it.
ProposeCommit(n, j) ==
  /\ j.step = "commit"
  /\ Free(n)
  /\ LET commits == \/ Peers(n) = {}
                    \/ /\ j.index > commitIndex[n]
                       /\ LogTermAt(log[n], j.index) = currentTerm[n]
     IN /\ commitIndex' = [commitIndex EXCEPT ![n] = IF commits THEN j.index ELSE @]
        /\ UNCHANGED <<role, currentTerm, votedFor, log, lastApplied, matchIndex, leaderId,
                       storage, msgs, elected, history, bounds>>
        /\ Replace(n, j, IF commits THEN {SaveJob(n, NoSnapshot, {})} ELSE {})

-----------------------------------------------------------------------------
(* Storage and restarts                                                    *)

\* save_hard_state (after save_snapshot, for a snapshot), then the answer.  Each
\* write may fail: the handlers drop the error and answer as if it had not.
\* The election of a node without peers ends here: it leads its term at once.
Save(n, j) ==
  /\ j.step = "save"
  /\ \E lost \in SUBSET {"state", "snapshot"} :
       /\ "snapshot" \in lost => j.snap.index > 0
       /\ Events(IF lost = {} THEN 0 ELSE 1)
       /\ disk' = [disk EXCEPT ![n] = IF "state" \in lost THEN @ ELSE j.hs]
       /\ diskSnap' = [diskSnap EXCEPT ![n] = IF j.snap.index = 0 \/ "snapshot" \in lost THEN @ ELSE j.snap]
  /\ msgs' = msgs \cup j.send
  /\ Replace(n, j, {})
  /\ UNCHANGED <<votedFor, log, commitIndex, lastApplied, diskLog, history>>
  /\ IF Peers(n) = {} /\ \E m \in j.send : m.type = "vote"
     THEN BecomeLeader(n, currentTerm[n])
     ELSE UNCHANGED <<role, currentTerm, leaderId, matchIndex, elected>>

\* The term n leads when it has won the election of term t.
LedAfter(n, t) == IF Peers(n) = {} THEN t ELSE t + 1

\* What n is bound to: the votes it has given, its own included where it won.
VoteGiven(n, t, x) ==
  \/ \E m \in msgs : m.type = "voted" /\ m.from = n /\ m.term = t /\ m.to = x
  \/ x = n /\ <<LedAfter(n, t), n>> \in elected
Remembers(hs, t, x) == hs.term > t \/ (hs.term = t /\ hs.vote = x)

\* The terms of the votes that n gave and that the hard state hs does not know.
Lost(n, hs) ==
  {t \in 0 .. currentTerm[n] : \E x \in Nodes : VoteGiven(n, t, x) /\ ~Remembers(hs, t, x)}

\* The process of n dies and RaftNode::new runs on what is stored: the hard
\* state and the entries n proposed itself.
Restart(n) ==
  /\ Event
  /\ role' = [role EXCEPT ![n] = "follower"]
  /\ currentTerm' = [currentTerm EXCEPT ![n] = disk[n].term]
  /\ votedFor' = [votedFor EXCEPT ![n] = disk[n].vote]
  /\ commitIndex' = [commitIndex EXCEPT ![n] = disk[n].commit]
  /\ log' = [log EXCEPT ![n] = diskLog[n]]
  /\ lastApplied' = [lastApplied EXCEPT ![n] = 0]
  /\ leaderId' = [leaderId EXCEPT ![n] = None]
  /\ matchIndex' = [matchIndex EXCEPT ![n] = [p \in Peers(n) |-> 0]]
  /\ jobs' = [jobs EXCEPT ![n] = {}]
  /\ forgotten' = forgotten \cup {<<n, t>> : t \in Lost(n, disk[n])}
  /\ UNCHANGED <<storage, msgs, elected, stray>>

-----------------------------------------------------------------------------
Init ==
  /\ role = [n \in Nodes |-> "follower"]
  /\ currentTerm = [n \in Nodes |-> 0]
  /\ votedFor = [n \in Nodes |-> None]
  /\ log = [n \in Nodes |-> <<>>]
  /\ commitIndex = [n \in Nodes |-> 0]
  /\ lastApplied = [n \in Nodes |-> 0]
  /\ matchIndex = [n \in Nodes |-> [p \in Peers(n) |-> 0]]
  /\ leaderId = [n \in Nodes |-> None]
  /\ disk = [n \in Nodes |-> [term |-> 0, vote |-> None, commit |-> 0]]
  /\ diskLog = [n \in Nodes |-> <<>>]
  /\ diskSnap = [n \in Nodes |-> NoSnapshot]
  /\ jobs = [n \in Nodes |-> {}]
  /\ msgs = {}
  /\ elected = {}
  /\ forgotten = {}
  /\ stray = {}
  /\ elections = 0
  /\ events = 0

Handle(n, m) ==
  \/ HandleRequestVote(n, m)
  \/ HandleAppendEntries(n, m)
  \/ HandleInstallSnapshot(n, m)
  \/ UpdateMatchIndex(n, m)

Continue(n, j) ==
  \/ ProposeAppend(n, j)
  \/ ProposeStore(n, j)
  \/ ProposeStoreFails(n, j)
  \/ ProposeCommit(n, j)
  \/ Save(n, j)

Step(n) ==
  \/ StartElection(n)
  \/ ForceBecomeLeader(n)
  \/ SendHeartbeat(n)
  \/ SendEntries(n)
  \/ SendSnapshot(n)
  \/ Propose(n)
  \/ Restart(n)
  \/ \E m \in msgs : Handle(n, m)
  \/ \E j \in jobs[n] : Continue(n, j)

Next == \E n \in Nodes : Step(n)

Spec == Init /\ [][Next]_vars

-----------------------------------------------------------------------------
(* Properties                                                              *)

\* A node never answers yes to two candidates of one term: become_follower
\* clears a vote inside a term, handlers overlap and answer before their saves,
\* and a restart returns to the last hard state that was saved.  Only the votes
\* such a restart has lost may be given again (handle_request_vote,
\* become_follower, RaftNode::new).
VotesOnce ==
  \A a, b \in {m \in msgs : m.type = "voted"} :
    a.from = b.from /\ a.term = b.term => a.to = b.to \/ <<a.from, a.term>> \in forgotten

\* The test of handle_request_vote: a node "should not grant vote twice in same
\* term".  That save_hard_state has returned before the answer, with or without
\* an error, does not mean the vote will be there after a restart.
VotesOnceEver ==
  \A a, b \in {m \in msgs : m.type = "voted"} :
    a.from = b.from /\ a.term = b.term => a.to = b.to

\* A vote that decides who leads T was forgotten.
Doubtful(T) == \E v \in forgotten : T = LedAfter(v[1], v[2])

\* Although force_become_leader leads a term nobody voted in and stores
\* nothing, no two nodes ever lead one term unless a restart lost a vote for it,
\* and the leader a node would redirect to in NotLeader has led the node's term.
OneLeaderPerTerm ==
  /\ \A a, b \in elected : a[1] = b[1] => a[2] = b[2] \/ Doubtful(a[1])
  /\ \A n \in Nodes : leaderId[n] # None => <<currentTerm[n], leaderId[n]>> \in elected

\* Entries that may differ although they have one index and term: propose has
\* appended one of them on a node that had stepped down since the role check, or
\* a restart lost a vote for the term.
MayDiffer(e, f) == e \in stray \/ f \in stray \/ Doubtful(e.term)

\* Two logs, in memory or in storage, never hold different entries of one
\* index and term but for those (propose, handle_append_entries, RaftNode::new).
LogMatching ==
  LET entries == UNION {Range(log[n]) \cup Range(diskLog[n]) : n \in Nodes}
  IN \A e, f \in entries : e.index = f.index /\ e.term = f.term => e = f \/ MayDiffer(e, f)

\* No two entries have one index.
OncePerIndex(es) == \A i, j \in DOMAIN es : es[i].index = es[j].index => i = j

\* A node that acknowledges an append holds every entry of the request, also
\* where it held others before (handle_append_entries, steps 3 to 5), or one of
\* its index and term that it could not tell from it.  A request may hold an
\* index twice: entries that arrive after a snapshot are pushed behind later
\* ones, and a leader numbers on from the last of its log.  The second of the
\* two is acknowledged without being pushed.
AckMeansHeld ==
  [][\A n \in Nodes :
       (\E j \in jobs'[n] \ jobs[n] : j.step = "save" /\ \E a \in j.send : a.type = "appended")
         => \A m \in msgs : HandleAppendEntries(n, m) /\ OncePerIndex(m.entries) =>
              \A e \in Range(m.entries) : \E f \in Range(log'[n]) :
                /\ f.index = e.index /\ f.term = e.term
                /\ f = e \/ MayDiffer(e, f)]_vars

\* The comment in advance_commit_index: the majority threshold is
\* floor(N / 2) + 1 of N nodes.  What update_match_index commits has been
\* matched by that many nodes, the leader included.
CommitQuorum ==
  [][\A n \in Nodes : commitIndex'[n] # commitIndex[n] =>
       \A m \in msgs : UpdateMatchIndex(n, m) =>
         Cardinality({p \in Peers(n) : matchIndex'[n][p] >= commitIndex'[n]}) + 1 >= Majority]_vars
=============================================================================
