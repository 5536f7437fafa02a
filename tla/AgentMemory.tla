----------------------------- MODULE AgentMemory -----------------------------
(***************************************************************************)
(* The memories of agents (memory.rs): remember, recall, forget,           *)
(* consolidate and decay_all over one list of entries that are never       *)
(* removed, only marked.  Scores and confidences are in percent, so that   *)
(* a decay rate of 1.0 takes one point.                                    *)
(***************************************************************************)
EXTENDS Embeddings

CONSTANTS
  NewMemories,      \* what callers remember: [agent, embedding, importance, decay];
                    \* an importance may be over 100
  MaxMemories,      \* bound: memories stored
  MaxDecays         \* bound: calls of decay_all

ASSUME AgentMemoryAssumption ==
  \A m \in NewMemories : m.embedding \in Embeddings /\ m.importance \in Int /\ m.decay \in Int

VARIABLES
  memories,         \* the entries, oldest first
  memoryClock,
  decays            \* calls of decay_all so far
memoryVars == <<memories, memoryClock, decays>>

MemoryInit == memories = <<>> /\ memoryClock = 0 /\ decays = 0

Agents == {m.agent : m \in NewMemories}

RememberIt(m) ==
  /\ memories' = Append(memories,
       [agent |-> m.agent, embedding |-> m.embedding, importance |-> m.importance, decay |-> m.decay,
        created |-> memoryClock, confidence |-> Min({m.importance, 100}), tombstone |-> FALSE])
  /\ memoryClock' = memoryClock + 1
  /\ UNCHANGED decays

LiveOf(entries, agent) == {i \in DOMAIN entries : ~entries[i].tombstone /\ entries[i].agent = agent}

\* recall: the positions of the top_k entries, best first, each after those
\* that are better; the sort is stable.
Recalled(agent, query, weights, topK) ==
  LET live == LiveOf(memories, agent)
      Score(i) == weights.semantic * Cosine[query][memories[i].embedding]
                    + weights.recency * (100 \div (1 + memoryClock - memories[i].created))
                    + weights.importance * memories[i].importance
      Better(i) == {j \in live : Score(j) > Score(i) \/ (Score(j) = Score(i) /\ j < i)}
  IN [k \in 1 .. Min({topK, Cardinality(live)}) |->
        CHOOSE i \in live : Cardinality(Better(i)) = k - 1]

\* forget: an entry may be forgotten again.
ForgetIt(i) ==
  /\ memories' = [memories EXCEPT ![i].tombstone = TRUE]
  /\ UNCHANGED <<memoryClock, decays>>

Alike(a, b) == Cosine[a.embedding][b.embedding] > 90

\* Mutant: the later of two is dropped, whatever its importance.
MergePairMutant(gone, i, j) ==
  IF i \in gone \/ j \in gone \/ ~Alike(memories[i], memories[j]) THEN gone ELSE gone \cup {j}

\* The body of the loops of consolidate: gone are the candidates marked so far.
MergePair(gone, i, j) ==
  IF i \in gone \/ j \in gone \/ ~Alike(memories[i], memories[j]) THEN gone
  ELSE gone \cup {IF memories[i].importance >= memories[j].importance THEN j ELSE i}

\* The inner loop: a candidate and the later ones.
MergeLater(live, gone, i) ==
  LET after[j \in 0 .. Len(memories)] ==
        IF j = 0 THEN gone
        ELSE IF i < j /\ {i, j} \subseteq live THEN MergePair(after[j - 1], i, j)
        ELSE after[j - 1]
  IN after[Len(memories)]

\* The outer loop.
Merged(live) ==
  LET gone[i \in 0 .. Len(memories)] ==
        IF i = 0 THEN {} ELSE MergeLater(live, gone[i - 1], i)
  IN gone[Len(memories)]

\* The candidates are collected before the loops.
Consolidate(agent) ==
  LET gone == Merged(LiveOf(memories, agent))
  IN /\ memories' = [i \in DOMAIN memories |->
                       IF i \in gone THEN [memories[i] EXCEPT !.tombstone = TRUE] ELSE memories[i]]
     /\ UNCHANGED <<memoryClock, decays>>

DecayAll ==
  /\ decays < MaxDecays /\ decays' = decays + 1
  /\ memories' = [i \in DOMAIN memories |->
       IF memories[i].tombstone THEN memories[i]
       ELSE [memories[i] EXCEPT !.confidence = Max({0, @ - memories[i].decay})]]
  /\ UNCHANGED memoryClock

MemoryNext ==
  \/ Len(memories) < MaxMemories /\ \E m \in NewMemories : RememberIt(m)
  \/ \E i \in DOMAIN memories : ForgetIt(i)
  \/ \E a \in Agents : Consolidate(a)
  \/ DecayAll

-----------------------------------------------------------------------------

\* No two live memories of an agent are alike.
AllDifferent(agent) ==
  \A i, j \in LiveOf(memories, agent) : i # j => ~Alike(memories[i], memories[j])

\* recall does not repeat itself.
RecallsDifferent(agent) ==
  \A q \in Embeddings :
    LET r == Recalled(agent, q, [semantic |-> 2, recency |-> 1, importance |-> 1], 2)
    IN \A i, j \in ToSet(r) : i # j => ~Alike(memories[i], memories[j])

GivesWay(i, j) ==
  Alike(memories[i], memories[j]) /\ memories[i].importance <= memories[j].importance

\* Only live memories of the agent are dropped, and each gives way to one that
\* stays, perhaps over others that gave way: whatever set has those that stay
\* and those that give way to one in it has all.
DropsGiveWay(agent) ==
  LET before == LiveOf(memories, agent)
      after == LiveOf(memories', agent)
  IN /\ \A X \in SUBSET before :
          after \subseteq X /\ (\A i \in before, j \in X : GivesWay(i, j) => i \in X) => X = before
     /\ \A i \in DOMAIN memories : i \notin before \/ i \in after => memories'[i] = memories[i]

\* After consolidate no two live memories of the agent are alike, so recall
\* no longer repeats itself; what it dropped gave way, perhaps over several
\* memories of which each is like the next, to a live one that is at least as
\* important; and only live memories of this agent were dropped.
Consolidated ==
  [][\A a \in Agents : Consolidate(a) =>
       AllDifferent(a)' /\ RecallsDifferent(a)' /\ DropsGiveWay(a)]_memoryVars
=============================================================================
