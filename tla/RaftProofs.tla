----------------------------- MODULE RaftProofs -----------------------------
(***************************************************************************)
(* Proofs about elections and logs of the Raft nodes, for every set of     *)
(* nodes and every bound: calls overlap as they like, saves fail or land   *)
(* late, nodes crash.                                                      *)
(*                                                                         *)
(* Nothing is assumed of what is on disk.  The invariant says what a node  *)
(* remembers of the votes it has given or is about to give, except for     *)
(* those a restart has lost; terms that were won with such votes are       *)
(* Doubtful.  That a commit has a majority (CommitQuorum) needs an odd     *)
(* number of nodes instead: with an even one the median of the match       *)
(* indexes is held by half of them.                                        *)
(***************************************************************************)
EXTENDS Raft, NatLemmas, FiniteSetTheorems

Entry == [index : Nat, term : Nat, data : Nat]
Voter == Nodes \cup {None}

TypeOK ==
  /\ role \in [Nodes -> {"follower", "candidate", "leader"}]
  /\ currentTerm \in [Nodes -> Nat]
  /\ votedFor \in [Nodes -> Voter]
  /\ leaderId \in [Nodes -> Voter]
  /\ log \in [Nodes -> Seq(Entry)]
  /\ diskLog \in [Nodes -> Seq(Entry)]
  /\ disk = [n \in Nodes |-> disk[n]]
  /\ \A n \in Nodes : disk[n].term \in Nat /\ disk[n].vote \in Voter
  /\ jobs = [n \in Nodes |-> jobs[n]]
  /\ elected \subseteq Nat \X Nodes
  /\ events \in Nat

\* A message names its sender and a term; who sends entries or a snapshot has
\* led the term.
MsgsOK ==
  \A m \in msgs :
    /\ m.from \in Nodes /\ m.term \in Nat
    /\ m.type = "voted" => m.to \in Peers(m.from)
    /\ m.type = "append" => m.entries \in Seq(Entry)
    /\ m.type \in {"append", "snapshot"} => <<m.term, m.from>> \in elected

\* What a call will send once the hard state is saved.
SendOK(n, m) ==
  /\ m.from = n /\ m.term \in Nat
  /\ m.type \in {"vote", "voted", "appended"}
  /\ m.type = "voted" => m.to \in Peers(n)

\* Calls past their lock.
JobOK(n, j) ==
  /\ j.step = "append" => j.data \in Nat
  /\ j.step = "store" => j.entry \in Entry
  /\ j.step = "save" => /\ j.hs.term \in Nat /\ j.hs.vote \in Voter
                        /\ \A m \in j.send : SendOK(n, m)

JobsOK == \A n \in Nodes : \A j \in jobs[n] : JobOK(n, j)

\* n has a request for votes to send.
Asking(n) == \E j \in jobs[n] : j.step = "save" /\ \E m \in j.send : m.type = "vote"

\* A candidate has voted for itself.  A node without peers hears of nobody
\* else, so it stays what its election has made it.
CandidateOK ==
  \A n \in Nodes :
    /\ role[n] = "candidate" => votedFor[n] = n
    /\ Peers(n) = {} /\ role[n] # "follower" => votedFor[n] = n
    /\ Peers(n) = {} /\ Asking(n) => role[n] # "follower"

\* n will answer yes to x for term t when its save is over, whatever happens
\* to the save.
Promised(n, t, x) ==
  \E j \in jobs[n] : j.step = "save" /\ \E m \in j.send : m.type = "voted" /\ m.term = t /\ m.to = x

\* A vote n may not take back.
Bound(n, t, x) == VoteGiven(n, t, x) \/ Promised(n, t, x)

\* What the state of n says about a vote for x in t: the term is over, or the
\* vote is remembered.
Kept(n, t, x) ==
  \/ t < currentTerm[n]
  \/ t = currentTerm[n] /\ votedFor[n] = x /\ role[n] # "candidate"

\* Unless a restart has lost it, a vote is kept and is the only one of its term.
BoundOK(n) ==
  \A t \in Nat, x \in Nodes :
    Bound(n, t, x) /\ <<n, t>> \notin forgotten =>
      Kept(n, t, x) /\ \A y \in Nodes : Bound(n, t, y) => x = y

VotesOK == \A n \in Nodes : BoundOK(n)

\* Q voted for n in t.
Elects(Q, t, n) == Cardinality(Q) >= Majority /\ \A q \in Q : VoteGiven(q, t, n)

\* A leader with peers has the votes of a majority for the term before its own.
ElectedOK ==
  \A t \in Nat, n \in Nodes :
    <<t, n>> \in elected /\ Peers(n) # {} =>
      t > 0 /\ \E Q \in SUBSET Nodes : Elects(Q, t - 1, n)

LeaderOK ==
  \A n \in Nodes :
    /\ role[n] = "leader" => <<currentTerm[n], n>> \in elected
    /\ leaderId[n] # None => <<currentTerm[n], leaderId[n]>> \in elected

VInv == TypeOK /\ MsgsOK /\ JobsOK /\ CandidateOK /\ VotesOK /\ ElectedOK /\ LeaderOK

\* Every entry there is: in memory, in storage, about to be stored, on its way.
Held ==
  (UNION {Range(log[n]) \cup Range(diskLog[n]) : n \in Nodes})
  \cup (UNION {{j.entry : j \in {k \in jobs[n] : k.step = "store"}} : n \in Nodes})
  \cup (UNION {Range(m.entries) : m \in {k \in msgs : k.type = "append"}})

\* Entries of which something can be said: the leader of their term has made
\* them, and nobody has lost a vote for it.
Sound(e) == e \notin stray /\ ~Doubtful(e.term)

\* Sound entries are created by the leader of their term, which numbers them
\* upwards.
EntriesOK ==
  /\ \A e \in Held : Sound(e) => \E n \in Nodes : <<e.term, n>> \in elected
  /\ \A e, f \in Held : e.index = f.index /\ e.term = f.term => e = f \/ MayDiffer(e, f)
  /\ \A n \in Nodes, e \in Held :
       Sound(e) /\ role[n] = "leader" /\ e.term = currentTerm[n] => e.index <= LastLogIndex(log[n])

RInv == VInv /\ EntriesOK


-----------------------------------------------------------------------------
(* Lemmas about the log operators                                          *)

\* Logs made of the entries of R only.
Logs(R) == {l \in Seq(Entry) : Range(l) \subseteq R}

LEMMA AppendIn ==
  ASSUME NEW R, NEW l \in Logs(R), NEW e \in R, e \in Entry
  PROVE  Append(l, e) \in Logs(R)
<1>1. Append(l, e) \in Seq(Entry) /\ Len(Append(l, e)) = Len(l) + 1 BY DEF Logs
<1>2. \A k \in 1 .. Len(l) + 1 : Append(l, e)[k] = IF k = Len(l) + 1 THEN e ELSE l[k]
  BY DEF Logs
<1>3. \A k \in 1 .. Len(l) : l[k] \in R BY DEF Logs, Range
<1>4. \A k \in 1 .. Len(l) + 1 : Append(l, e)[k] \in R BY <1>2, <1>3 DEF Logs
<1>5. DOMAIN Append(l, e) = 1 .. Len(l) + 1 BY <1>1
<1> HIDE DEF Logs
<1> QED BY <1>1, <1>4, <1>5 DEF Logs, Range

\* Retain goes through the log and keeps what was there.
RetainSteps(l, keep, kept) ==
  /\ Retain(l, keep) = kept[Len(l)]
  /\ kept[0] = <<>>
  /\ \A k \in 1 .. Len(l) :
       kept[k] = IF l[k] \in keep THEN Append(kept[k - 1], l[k]) ELSE kept[k - 1]

LEMMA RetainRun ==
  ASSUME NEW R, NEW l \in Logs(R), NEW keep
  PROVE  \E kept \in [0 .. Len(l) -> Logs(R \cap keep)] : RetainSteps(l, keep, kept)
<1> DEFINE n == Len(l)
           S == Logs(R \cap keep)
           f == [x \in S \X (1 .. n) |->
                   IF l[x[2]] \in keep THEN Append(x[1], l[x[2]]) ELSE x[1]]
           Unfold(g) == [k \in 0 .. n |->
                         IF k = 0 THEN <<>>
                         ELSE IF l[k] \in keep THEN Append(g[k - 1], l[k]) ELSE g[k - 1]]
           kept == CHOOSE g : g = Unfold(g)
<1>1. n \in Nat /\ <<>> \in S BY DEF Logs, Range
<1>2. \A k \in 1 .. n : l[k] \in Entry /\ l[k] \in R BY DEF Logs, Range
<1>3. ASSUME NEW s \in S, NEW k \in 1 .. n
      PROVE  f[<<s, k>>] = (IF l[k] \in keep THEN Append(s, l[k]) ELSE s) /\ f[<<s, k>>] \in S
  BY <1>2, AppendIn
<1>4. f \in [S \X (1 .. n) -> S] BY <1>3
<1>5. PICK g \in [0 .. n -> S] : Iterates(g, n, <<>>, f)
  <2> HIDE DEF f, S, n
  <2> QED BY <1>1, <1>4, Iterate
<1>6. g = Unfold(g)
  <2>1. g[0] = Unfold(g)[0] BY <1>1, <1>5 DEF Iterates
  <2>2. ASSUME NEW k \in 1 .. n PROVE g[k] = Unfold(g)[k]
    <3>1. k \in 0 .. n /\ k - 1 \in 0 .. n /\ k # 0 BY <1>1
    <3>2. g[k] = f[<<g[k - 1], k>>] BY <1>5 DEF Iterates
    <3>3. g[k - 1] \in S BY <3>1
    <3>4. CASE l[k] \in keep BY <1>3, <3>1, <3>2, <3>3, <3>4
    <3>5. CASE l[k] \notin keep BY <1>3, <3>1, <3>2, <3>3, <3>5
    <3> QED BY <3>4, <3>5
  <2>3. \A k \in 0 .. n : k = 0 \/ k \in 1 .. n BY <1>1
  <2>4. \A k \in 0 .. n : g[k] = Unfold(g)[k] BY <2>1, <2>2, <2>3
  <2>5. g = [k \in 0 .. n |-> g[k]] OBVIOUS
  <2>6. Unfold(g) = [k \in 0 .. n |-> Unfold(g)[k]] OBVIOUS
  <2> HIDE DEF Unfold, n
  <2> QED BY <2>4, <2>5, <2>6, Zenon
<1>7. kept = Unfold(kept)
  <2> HIDE DEF Unfold
  <2> QED BY <1>6, Zenon
<1> DEFINE T == {k \in 0 .. n : kept[k] \in S}
<1>8. ASSUME NEW k \in 1 .. n
      PROVE  kept[k] = IF l[k] \in keep THEN Append(kept[k - 1], l[k]) ELSE kept[k - 1]
  <2> HIDE DEF kept
  <2>1. k \in 0 .. n /\ k # 0 BY <1>1
  <2>2. kept[k] = Unfold(kept)[k] BY <1>7, Zenon
  <2> QED BY <2>1, <2>2
<1>9. 0 .. n \subseteq T
  <2> HIDE DEF kept, S
  <2>1. 0 \in T BY <1>1, <1>7
  <2>2. ASSUME NEW k \in 0 .. n - 1, k \in T PROVE k + 1 \in T
    <3>1. k + 1 \in 1 .. n /\ k + 1 \in 0 .. n /\ (k + 1) - 1 = k BY <1>1
    <3>2. CASE l[k + 1] \in keep
      <4>1. kept[k + 1] = Append(kept[(k + 1) - 1], l[k + 1]) BY <1>8, <3>1, <3>2, Zenon
      <4>2. f[<<kept[k], k + 1>>] = Append(kept[k], l[k + 1]) /\ f[<<kept[k], k + 1>>] \in S
        <5> HIDE DEF f
        <5> QED BY <2>2, <1>3, <3>1, <3>2
      <4> QED BY <3>1, <4>1, <4>2
    <3>3. CASE l[k + 1] \notin keep
      <4>1. kept[k + 1] = kept[(k + 1) - 1] BY <1>8, <3>1, <3>3, Zenon
      <4> QED BY <2>2, <3>1, <4>1
    <3> QED BY <3>2, <3>3
  <2> HIDE DEF T, n
  <2> QED BY <1>1, <2>1, <2>2, UpTo
<1>10. kept \in [0 .. n -> S]
  <2> HIDE DEF kept, S
  <2>1. kept = [k \in 0 .. n |-> kept[k]] BY <1>7
  <2>2. \A k \in 0 .. n : kept[k] \in S BY <1>9
  <2> QED BY <2>1, <2>2
<1>11. kept[0] = <<>>
  <2> HIDE DEF kept
  <2> QED BY <1>1, <1>7
<1>12. Retain(l, keep) = kept[n] BY DEF Retain
<1> HIDE DEF kept
<1> QED BY <1>8, <1>10, <1>11, <1>12 DEF RetainSteps

LEMMA RetainIn ==
  ASSUME NEW R, NEW l \in Logs(R), NEW keep
  PROVE  Retain(l, keep) \in Logs(R \cap keep) /\ Retain(l, keep) \in Logs(R)
<1>1. PICK kept \in [0 .. Len(l) -> Logs(R \cap keep)] : RetainSteps(l, keep, kept)
  BY RetainRun
<1>2. Len(l) \in 0 .. Len(l) BY DEF Logs
<1>3. Retain(l, keep) \in Logs(R \cap keep) BY <1>1, <1>2 DEF RetainSteps
<1> QED BY <1>3 DEF Logs

\* Cutting a conflict leaves entries of the log, pushing adds entries of the
\* request.
LEMMA CutIn ==
  ASSUME NEW R, NEW l \in Logs(R), NEW e PROVE CutConflict(l, e) \in Logs(R)
BY RetainIn DEF CutConflict, Below

LEMMA PushIn ==
  ASSUME NEW R, NEW l \in Logs(R), NEW e \in R, e \in Entry PROVE PushMissing(l, e) \in Logs(R)
BY AppendIn DEF PushMissing

\* Step 4 of handle_append_entries, for all entries of a request.
CutsSteps(l, es, cut) ==
  /\ CutConflicts(l, es) = cut[Len(es)]
  /\ cut[0] = l
  /\ \A k \in 1 .. Len(es) : cut[k] = CutConflict(cut[k - 1], es[k])

LEMMA CutsRun ==
  ASSUME NEW R, NEW l \in Logs(R), NEW es \in Seq(Entry), Range(es) \subseteq R
  PROVE  \E cut \in [0 .. Len(es) -> Logs(R)] : CutsSteps(l, es, cut)
<1> DEFINE n == Len(es)
           S == Logs(R)
           f == [x \in S \X (1 .. n) |-> CutConflict(x[1], es[x[2]])]
           Unfold(g) == [k \in 0 .. n |-> IF k = 0 THEN l ELSE CutConflict(g[k - 1], es[k])]
           cut == CHOOSE g : g = Unfold(g)
<1>1. n \in Nat /\ l \in S OBVIOUS
<1>2. \A k \in 1 .. n : es[k] \in Entry /\ es[k] \in R BY DEF Range
<1>3. ASSUME NEW s \in S, NEW k \in 1 .. n
      PROVE  f[<<s, k>>] = CutConflict(s, es[k]) /\ f[<<s, k>>] \in S
  BY <1>2, CutIn
<1>4. f \in [S \X (1 .. n) -> S] BY <1>3
<1>5. PICK g \in [0 .. n -> S] : Iterates(g, n, l, f)
  <2> HIDE DEF f, S, n
  <2> QED BY <1>1, <1>4, Iterate
<1>6. g = Unfold(g)
  <2>1. g[0] = Unfold(g)[0] BY <1>1, <1>5 DEF Iterates
  <2>2. ASSUME NEW k \in 1 .. n PROVE g[k] = Unfold(g)[k]
    <3>1. k \in 0 .. n /\ k - 1 \in 0 .. n /\ k # 0 BY <1>1
    <3>2. g[k] = f[<<g[k - 1], k>>] BY <1>5 DEF Iterates
    <3>3. g[k - 1] \in S BY <3>1
    <3> QED BY <1>3, <3>1, <3>2, <3>3
  <2>3. \A k \in 0 .. n : k = 0 \/ k \in 1 .. n BY <1>1
  <2>4. \A k \in 0 .. n : g[k] = Unfold(g)[k] BY <2>1, <2>2, <2>3
  <2>5. g = [k \in 0 .. n |-> g[k]] OBVIOUS
  <2>6. Unfold(g) = [k \in 0 .. n |-> Unfold(g)[k]] OBVIOUS
  <2> HIDE DEF Unfold, n
  <2> QED BY <2>4, <2>5, <2>6, Zenon
<1>7. cut = Unfold(cut)
  <2> HIDE DEF Unfold
  <2> QED BY <1>6, Zenon
<1> DEFINE T == {k \in 0 .. n : cut[k] \in S}
<1>8. ASSUME NEW k \in 1 .. n PROVE cut[k] = CutConflict(cut[k - 1], es[k])
  <2> HIDE DEF cut
  <2>1. k \in 0 .. n /\ k # 0 BY <1>1
  <2>2. cut[k] = Unfold(cut)[k] BY <1>7, Zenon
  <2> QED BY <2>1, <2>2
<1>9. 0 .. n \subseteq T
  <2> HIDE DEF cut, S
  <2>1. 0 \in T BY <1>1, <1>7
  <2>2. ASSUME NEW k \in 0 .. n - 1, k \in T PROVE k + 1 \in T
    <3>1. k + 1 \in 1 .. n /\ k + 1 \in 0 .. n /\ (k + 1) - 1 = k BY <1>1
    <3> QED BY <2>2, <1>3, <1>8, <3>1
  <2> HIDE DEF T, n
  <2> QED BY <1>1, <2>1, <2>2, UpTo
<1>10. cut \in [0 .. n -> S]
  <2> HIDE DEF cut, S
  <2>1. cut = [k \in 0 .. n |-> cut[k]] BY <1>7
  <2>2. \A k \in 0 .. n : cut[k] \in S BY <1>9
  <2> QED BY <2>1, <2>2
<1>11. cut[0] = l
  <2> HIDE DEF cut
  <2> QED BY <1>1, <1>7
<1>12. CutConflicts(l, es) = cut[n] BY DEF CutConflicts
<1> HIDE DEF cut
<1> QED BY <1>8, <1>10, <1>11, <1>12 DEF CutsSteps

LEMMA CutsIn ==
  ASSUME NEW R, NEW l \in Logs(R), NEW es \in Seq(Entry), Range(es) \subseteq R
  PROVE  CutConflicts(l, es) \in Logs(R)
<1>1. PICK cut \in [0 .. Len(es) -> Logs(R)] : CutsSteps(l, es, cut) BY CutsRun
<1>2. Len(es) \in 0 .. Len(es) OBVIOUS
<1> QED BY <1>1, <1>2 DEF CutsSteps

\* Step 5 of handle_append_entries, for all entries of a request.
PushesSteps(l, es, pushed) ==
  /\ PushAll(l, es) = pushed[Len(es)]
  /\ pushed[0] = l
  /\ \A k \in 1 .. Len(es) : pushed[k] = PushMissing(pushed[k - 1], es[k])

LEMMA PushesRun ==
  ASSUME NEW R, NEW l \in Logs(R), NEW es \in Seq(Entry), Range(es) \subseteq R
  PROVE  \E pushed \in [0 .. Len(es) -> Logs(R)] : PushesSteps(l, es, pushed)
<1> DEFINE n == Len(es)
           S == Logs(R)
           f == [x \in S \X (1 .. n) |-> PushMissing(x[1], es[x[2]])]
           Unfold(g) == [k \in 0 .. n |-> IF k = 0 THEN l ELSE PushMissing(g[k - 1], es[k])]
           pushed == CHOOSE g : g = Unfold(g)
<1>1. n \in Nat /\ l \in S OBVIOUS
<1>2. \A k \in 1 .. n : es[k] \in Entry /\ es[k] \in R BY DEF Range
<1>3. ASSUME NEW s \in S, NEW k \in 1 .. n
      PROVE  f[<<s, k>>] = PushMissing(s, es[k]) /\ f[<<s, k>>] \in S
  BY <1>2, PushIn
<1>4. f \in [S \X (1 .. n) -> S] BY <1>3
<1>5. PICK g \in [0 .. n -> S] : Iterates(g, n, l, f)
  <2> HIDE DEF f, S, n
  <2> QED BY <1>1, <1>4, Iterate
<1>6. g = Unfold(g)
  <2>1. g[0] = Unfold(g)[0] BY <1>1, <1>5 DEF Iterates
  <2>2. ASSUME NEW k \in 1 .. n PROVE g[k] = Unfold(g)[k]
    <3>1. k \in 0 .. n /\ k - 1 \in 0 .. n /\ k # 0 BY <1>1
    <3>2. g[k] = f[<<g[k - 1], k>>] BY <1>5 DEF Iterates
    <3>3. g[k - 1] \in S BY <3>1
    <3> QED BY <1>3, <3>1, <3>2, <3>3
  <2>3. \A k \in 0 .. n : k = 0 \/ k \in 1 .. n BY <1>1
  <2>4. \A k \in 0 .. n : g[k] = Unfold(g)[k] BY <2>1, <2>2, <2>3
  <2>5. g = [k \in 0 .. n |-> g[k]] OBVIOUS
  <2>6. Unfold(g) = [k \in 0 .. n |-> Unfold(g)[k]] OBVIOUS
  <2> HIDE DEF Unfold, n
  <2> QED BY <2>4, <2>5, <2>6, Zenon
<1>7. pushed = Unfold(pushed)
  <2> HIDE DEF Unfold
  <2> QED BY <1>6, Zenon
<1> DEFINE T == {k \in 0 .. n : pushed[k] \in S}
<1>8. ASSUME NEW k \in 1 .. n PROVE pushed[k] = PushMissing(pushed[k - 1], es[k])
  <2> HIDE DEF pushed
  <2>1. k \in 0 .. n /\ k # 0 BY <1>1
  <2>2. pushed[k] = Unfold(pushed)[k] BY <1>7, Zenon
  <2> QED BY <2>1, <2>2
<1>9. 0 .. n \subseteq T
  <2> HIDE DEF pushed, S
  <2>1. 0 \in T BY <1>1, <1>7
  <2>2. ASSUME NEW k \in 0 .. n - 1, k \in T PROVE k + 1 \in T
    <3>1. k + 1 \in 1 .. n /\ k + 1 \in 0 .. n /\ (k + 1) - 1 = k BY <1>1
    <3> QED BY <2>2, <1>3, <1>8, <3>1
  <2> HIDE DEF T, n
  <2> QED BY <1>1, <2>1, <2>2, UpTo
<1>10. pushed \in [0 .. n -> S]
  <2> HIDE DEF pushed, S
  <2>1. pushed = [k \in 0 .. n |-> pushed[k]] BY <1>7
  <2>2. \A k \in 0 .. n : pushed[k] \in S BY <1>9
  <2> QED BY <2>1, <2>2
<1>11. pushed[0] = l
  <2> HIDE DEF pushed
  <2> QED BY <1>1, <1>7
<1>12. PushAll(l, es) = pushed[n] BY DEF PushAll
<1> HIDE DEF pushed
<1> QED BY <1>8, <1>10, <1>11, <1>12 DEF PushesSteps

LEMMA PushesIn ==
  ASSUME NEW R, NEW l \in Logs(R), NEW es \in Seq(Entry), Range(es) \subseteq R
  PROVE  PushAll(l, es) \in Logs(R)
<1>1. PICK pushed \in [0 .. Len(es) -> Logs(R)] : PushesSteps(l, es, pushed) BY PushesRun
<1>2. Len(es) \in 0 .. Len(es) OBVIOUS
<1> QED BY <1>1, <1>2 DEF PushesSteps

\* A log after handle_append_entries holds what it held and what was sent.
LEMMA MergeIn ==
  ASSUME NEW R, NEW l \in Logs(R), NEW es \in Seq(Entry), Range(es) \subseteq R
  PROVE  Merge(l, es) \in Logs(R)
BY CutsIn, PushesIn DEF Merge

\* The storage holds what it held and what was stored.
LEMMA StoreIn ==
  ASSUME NEW R, NEW l \in Logs(R), NEW e \in R, e \in Entry PROVE StoreEntry(l, e) \in Logs(R)
BY RetainIn, AppendIn DEF StoreEntry, Below
-----------------------------------------------------------------------------
(* Lemmas about votes                                                      *)

\* Votes that were answered are never taken back.
LEMMA GivenStable ==
  ASSUME msgs \subseteq msgs', elected \subseteq elected', NEW n, NEW t, NEW x, VoteGiven(n, t, x)
  PROVE  VoteGiven(n, t, x)'
BY DEF VoteGiven, LedAfter, Peers

LEMMA ElectsStable ==
  ASSUME msgs \subseteq msgs', elected \subseteq elected', NEW Q, NEW t, NEW n, Elects(Q, t, n)
  PROVE  Elects(Q, t, n)'
BY GivenStable DEF Elects, Majority

\* What an election rested on stays.
LEMMA ElectedStable ==
  ASSUME ElectedOK, msgs \subseteq msgs', elected' = elected
  PROVE  ElectedOK'
<1> SUFFICES ASSUME NEW t \in Nat, NEW n \in Nodes, <<t, n>> \in elected, Peers(n) # {}
             PROVE  t > 0 /\ \E Q \in SUBSET Nodes : Elects(Q, t - 1, n)'
  BY DEF ElectedOK, Peers
<1>1. t > 0 BY DEF ElectedOK
<1>2. PICK Q \in SUBSET Nodes : Elects(Q, t - 1, n) BY DEF ElectedOK
<1> QED BY <1>1, <1>2, ElectsStable

\* Two majorities share a node: a term has one leader unless that node's vote
\* was lost by a restart.
LEMMA OneElected ==
  ASSUME TypeOK, VotesOK, ElectedOK,
         NEW t, NEW a, NEW b, <<t, a>> \in elected, <<t, b>> \in elected
  PROVE  a = b \/ Doubtful(t)
<1>1. t \in Nat /\ a \in Nodes /\ b \in Nodes BY DEF TypeOK
<1>2. CASE Peers(a) = {} BY <1>1, <1>2 DEF Peers
<1>3. CASE Peers(b) = {} BY <1>1, <1>3 DEF Peers
<1>4. CASE Peers(a) # {} /\ Peers(b) # {}
  <2>1. PICK P \in SUBSET Nodes : Elects(P, t - 1, a) BY <1>1, <1>4 DEF ElectedOK
  <2>2. PICK Q \in SUBSET Nodes : Elects(Q, t - 1, b) BY <1>1, <1>4 DEF ElectedOK
  <2>3. t - 1 \in Nat /\ (t - 1) + 1 = t BY <1>1, <1>4 DEF ElectedOK
  <2>4. IsFiniteSet(Nodes) /\ IsFiniteSet(P) /\ IsFiniteSet(Q) BY RaftAssumption, FS_Subset
  <2>5. /\ Cardinality(Nodes) \in Nat /\ Cardinality(P) \in Nat /\ Cardinality(Q) \in Nat
    BY <2>4, FS_CardinalityType
  <2>6. Cardinality(P) + Cardinality(Q) > Cardinality(Nodes)
    BY <2>1, <2>2, <2>5 DEF Elects, Majority
  <2>7. P \cap Q # {} BY <2>4, <2>6, FS_MajoritiesIntersect
  <2>8. PICK q \in Nodes : VoteGiven(q, t - 1, a) /\ VoteGiven(q, t - 1, b)
    BY <2>1, <2>2, <2>7 DEF Elects
  <2>9. CASE <<q, t - 1>> \notin forgotten
    BY <1>1, <2>3, <2>8, <2>9 DEF VotesOK, BoundOK, Bound
  <2>10. CASE <<q, t - 1>> \in forgotten
    <3>1. PICK s : s = t - 1 OBVIOUS
    <3>2. Peers(q) # {}
      <4>1. CASE q = a BY <1>4, <4>1
      <4>2. CASE q # a BY <1>1, <4>2 DEF Peers
      <4> QED BY <4>1, <4>2
    <3>3. LedAfter(q, s) = t BY <2>3, <3>1, <3>2 DEF LedAfter
    <3>4. <<q, s>> \in forgotten /\ <<q, s>>[1] = q /\ <<q, s>>[2] = s BY <2>10, <3>1
    <3> QED BY <3>3, <3>4 DEF Doubtful
  <2> QED BY <2>9, <2>10
<1> QED BY <1>2, <1>3, <1>4

-----------------------------------------------------------------------------
(* Kinds of steps                                                          *)

\* Steps that leave elections alone: they may send, and move calls along that
\* have nothing to answer.
LEMMA QuietOK ==
  ASSUME VInv, UNCHANGED <<role, currentTerm, votedFor, leaderId, elected, forgotten>>,
         TypeOK', MsgsOK', JobsOK',
         msgs \subseteq msgs', \A m \in msgs' : m \in msgs \/ m.type # "voted",
         \A n \in Nodes : \A j \in jobs'[n] : j \in jobs[n] \/ j.step # "save" \/ j.send = {}
  PROVE  VInv'
<1>1. \A n \in Nodes : \A t, x : Bound(n, t, x)' => Bound(n, t, x)
  BY DEF Bound, VoteGiven, Promised, LedAfter, Peers
<1>2. CandidateOK'
  <2>1. \A n \in Nodes : Asking(n)' => Asking(n) BY DEF Asking
  <2> QED BY <2>1 DEF VInv, CandidateOK, Peers
<1>3. VotesOK' BY <1>1 DEF VInv, VotesOK, BoundOK, Kept
<1>4. ElectedOK' BY ElectedStable DEF VInv
<1>5. LeaderOK' BY DEF VInv, LeaderOK
<1> QED BY <1>2, <1>3, <1>4, <1>5 DEF VInv

\* A step of node n that takes up a role, a term, a vote and a leader, and
\* leaves the lock with the calls J.
Turns(n, r, t, v, l, J) ==
  /\ role' = [role EXCEPT ![n] = r]
  /\ currentTerm' = [currentTerm EXCEPT ![n] = t]
  /\ votedFor' = [votedFor EXCEPT ![n] = v]
  /\ leaderId' = [leaderId EXCEPT ![n] = l]
  /\ jobs' = [jobs EXCEPT ![n] = @ \cup J]
  /\ log' \in [Nodes -> Seq(Entry)]
  /\ UNCHANGED <<disk, diskLog, msgs, elected, forgotten, events>>

\* When it may: the term does not fall, a vote stays while the term does unless
\* it was the candidate's own, a new candidate votes for itself, nobody becomes
\* a leader, a leader one hears of has been elected, and a node without peers
\* starts an election.
MayTurn(n, r, t, v, l) ==
  /\ r \in {"follower", "candidate", "leader"} /\ t \in Nat /\ v \in Voter /\ l \in Voter
  /\ t >= currentTerm[n]
  /\ t = currentTerm[n] =>
       /\ r = "candidate" => role[n] = "candidate" /\ v = votedFor[n]
       /\ votedFor[n] \notin {None, v} => role[n] = "candidate"
  /\ t > currentTerm[n] /\ r = "candidate" => v = n
  /\ r = "leader" => role[n] = "leader" /\ t = currentTerm[n]
  /\ l # None => <<t, l>> \in elected
  /\ Peers(n) = {} => r = "candidate" /\ v = n

\* What the new calls will answer is the vote taken up.
Answers(J, r, t, v) ==
  \A j \in J : j.step = "save" =>
    \A m \in j.send : m.type = "voted" => m.term = t /\ m.to = v /\ r # "candidate"

LEMMA TurnType ==
  ASSUME TypeOK, NEW n \in Nodes, NEW r, NEW t, NEW v, NEW l, NEW J,
         Turns(n, r, t, v, l, J), MayTurn(n, r, t, v, l)
  PROVE  TypeOK'
<1> USE DEF Turns, MayTurn
<1>1. role' \in [Nodes -> {"follower", "candidate", "leader"}] /\ currentTerm' \in [Nodes -> Nat]
  BY DEF TypeOK
<1>2. votedFor' \in [Nodes -> Voter] /\ leaderId' \in [Nodes -> Voter] BY DEF TypeOK
<1>3. jobs' = [q \in Nodes |-> jobs'[q]] BY DEF TypeOK
<1> QED BY <1>1, <1>2, <1>3 DEF TypeOK

LEMMA TurnVotes ==
  ASSUME VInv, NEW n \in Nodes, NEW r, NEW t, NEW v, NEW l, NEW J,
         Turns(n, r, t, v, l, J), MayTurn(n, r, t, v, l), Answers(J, r, t, v)
  PROVE  BoundOK(n)'
<1> SUFFICES ASSUME NEW u \in Nat, NEW x \in Nodes, Bound(n, u, x)', <<n, u>> \notin forgotten'
             PROVE  Kept(n, u, x)' /\ \A y \in Nodes : Bound(n, u, y)' => x = y
  BY DEF BoundOK
<1>1. /\ role'[n] = r /\ currentTerm'[n] = t /\ votedFor'[n] = v /\ jobs'[n] = jobs[n] \cup J
      /\ UNCHANGED <<msgs, elected, forgotten>>
  BY DEF Turns, VInv, TypeOK
<1>2. \A y \in Nodes : Bound(n, u, y)' => Bound(n, u, y) \/ (u = t /\ y = v /\ r # "candidate")
  BY <1>1 DEF Bound, VoteGiven, Promised, LedAfter, Peers, Answers
<1>3. t \in Nat /\ currentTerm[n] \in Nat /\ t >= currentTerm[n] BY DEF MayTurn, VInv, TypeOK
<1>4. \A y \in Nodes : Bound(n, u, y) =>
        /\ u < t \/ (u = t /\ v = y /\ r # "candidate")
        /\ \A z \in Nodes : Bound(n, u, z) => y = z
  <2> SUFFICES ASSUME NEW y \in Nodes, Bound(n, u, y)
               PROVE  /\ u < t \/ (u = t /\ v = y /\ r # "candidate")
                      /\ \A z \in Nodes : Bound(n, u, z) => y = z
    OBVIOUS
  <2>1. Kept(n, u, y) /\ \A z \in Nodes : Bound(n, u, z) => y = z
    BY <1>1 DEF VInv, VotesOK, BoundOK
  <2>2. y # None BY RaftAssumption
  <2> QED BY <1>3, <2>1, <2>2 DEF Kept, MayTurn
<1>5. u < t \/ (u = t /\ v = x /\ r # "candidate") BY <1>2, <1>4
<1>6. ASSUME NEW y \in Nodes, Bound(n, u, y)' PROVE x = y
  BY <1>2, <1>3, <1>4, <1>6
<1> QED BY <1>1, <1>5, <1>6 DEF Kept

LEMMA TurnOK ==
  ASSUME VInv, NEW n \in Nodes, NEW r, NEW t, NEW v, NEW l, NEW J, \A j \in J : JobOK(n, j)',
         Turns(n, r, t, v, l, J), MayTurn(n, r, t, v, l), Answers(J, r, t, v)
  PROVE  VInv'
<1>1. TypeOK' BY TurnType DEF VInv
<1>2. MsgsOK' BY DEF VInv, MsgsOK, Peers, Turns
<1>3. \A q \in Nodes \ {n} : /\ role'[q] = role[q] /\ currentTerm'[q] = currentTerm[q]
                             /\ votedFor'[q] = votedFor[q] /\ leaderId'[q] = leaderId[q]
                             /\ jobs'[q] = jobs[q]
  BY DEF Turns, VInv, TypeOK
<1>4. /\ role'[n] = r /\ currentTerm'[n] = t /\ votedFor'[n] = v /\ leaderId'[n] = l
      /\ jobs'[n] = jobs[n] \cup J
      /\ UNCHANGED <<msgs, elected, forgotten>>
  BY DEF Turns, VInv, TypeOK
<1>5. JobsOK'
  <2>1. \A q \in Nodes : \A j \in jobs[q] : JobOK(q, j)'
    BY DEF VInv, JobsOK, JobOK, SendOK, Peers
  <2> QED BY <1>3, <1>4, <2>1 DEF JobsOK
<1>6. CandidateOK'
  <2>1. /\ r = "candidate" => v = n
        /\ Peers(n) = {} => r = "candidate" /\ v = n
    <3>1. t = currentTerm[n] \/ t > currentTerm[n] BY DEF MayTurn, VInv, TypeOK
    <3> QED BY <3>1 DEF MayTurn, VInv, CandidateOK
  <2>2. \A q \in Nodes \ {n} : Asking(q)' => Asking(q) BY <1>3 DEF Asking
  <2> QED BY <1>3, <1>4, <2>1, <2>2 DEF VInv, CandidateOK, Peers
<1>7. VotesOK'
  <2>1. ASSUME NEW q \in Nodes \ {n} PROVE BoundOK(q)'
    <3>1. \A u, x : Bound(q, u, x)' => Bound(q, u, x)
      BY <1>3, <1>4 DEF Bound, VoteGiven, Promised, LedAfter, Peers
    <3> QED BY <1>3, <1>4, <3>1 DEF VInv, VotesOK, BoundOK, Kept
  <2> QED BY <2>1, TurnVotes DEF VotesOK
<1>8. ElectedOK' BY <1>4, ElectedStable DEF VInv
<1>9. LeaderOK' BY <1>3, <1>4 DEF VInv, LeaderOK, MayTurn
<1> QED BY <1>1, <1>2, <1>5, <1>6, <1>7, <1>8, <1>9 DEF VInv

-----------------------------------------------------------------------------
(* Types of the log operators                                              *)

LEMMA LogsEntry ==
  /\ \A l \in Seq(Entry) : l \in Logs(Entry)
  /\ \A R, l : l \in Logs(R) => l \in Seq(Entry)
BY DEF Logs, Range

LEMMA LogTypes ==
  ASSUME NEW l \in Seq(Entry)
  PROVE  /\ LastLogIndex(l) \in Nat
         /\ \A i : Below(l, i) \in Seq(Entry) /\ Above(l, i) \in Seq(Entry)
         /\ \A e \in Entry : Append(l, e) \in Seq(Entry) /\ StoreEntry(l, e) \in Seq(Entry)
         /\ \A es \in Seq(Entry) : Merge(l, es) \in Seq(Entry)
<1>1. l \in Logs(Entry) BY LogsEntry
<1>2. LastLogIndex(l) \in Nat
  <2>1. l # <<>> => l[Len(l)] \in Entry OBVIOUS
  <2> QED BY <2>1 DEF LastLogIndex, Entry
<1>3. \A i : Below(l, i) \in Seq(Entry) /\ Above(l, i) \in Seq(Entry)
  BY <1>1, RetainIn, LogsEntry DEF Below, Above
<1>4. \A e \in Entry : Append(l, e) \in Seq(Entry) /\ StoreEntry(l, e) \in Seq(Entry)
  BY <1>1, StoreIn, AppendIn, LogsEntry
<1>5. \A es \in Seq(Entry) : Merge(l, es) \in Seq(Entry)
  <2> SUFFICES ASSUME NEW es \in Seq(Entry) PROVE Merge(l, es) \in Logs(Entry)
    BY LogsEntry
  <2>1. Range(es) \subseteq Entry BY DEF Range
  <2> QED BY <1>1, <2>1, MergeIn
<1> QED BY <1>2, <1>3, <1>4, <1>5

-----------------------------------------------------------------------------
(* Steps that leave elections alone                                        *)

\* A leader sends with the term it has won.
LEMMA SendVInv ==
  ASSUME VInv, NEW n \in Nodes, NEW m, NEW cost \in Nat, Send(n, m, cost),
         m.from = n, m.term = currentTerm[n], m.type \in {"append", "snapshot"},
         m.type = "append" => m.entries \in Seq(Entry)
  PROVE  VInv'
<1>0. /\ role[n] = "leader" /\ msgs' = msgs \cup {m} /\ events' = events + cost
      /\ UNCHANGED <<role, currentTerm, votedFor, leaderId, log, diskLog, disk, jobs, elected,
                     forgotten>>
  BY DEF Send, Events, state, storage, history
<1>1. TypeOK'
  <2>1. events' \in Nat BY <1>0 DEF VInv, TypeOK
  <2> QED BY <1>0, <2>1 DEF VInv, TypeOK
<1>2. MsgsOK'
  <2>1. <<m.term, m.from>> \in elected /\ m.term \in Nat BY <1>0 DEF VInv, LeaderOK, TypeOK
  <2> QED BY <1>0, <2>1 DEF VInv, MsgsOK, Peers
<1>3. JobsOK' BY <1>0 DEF VInv, JobsOK, JobOK, SendOK, Peers
<1> QED BY <1>0, <1>1, <1>2, <1>3, QuietOK

LEMMA RequestType ==
  ASSUME TypeOK, NEW n \in Nodes, NEW k \in 1 .. Len(log[n]) + 1
  PROVE  /\ AppendRequest(n, k).entries \in Seq(Entry)
         /\ AppendRequest(n, k).entries = SubSeq(log[n], k, Len(log[n]))
         /\ AppendRequest(n, k).type = "append"
         /\ AppendRequest(n, k).from = n
         /\ AppendRequest(n, k).term = currentTerm[n]
<1>1. log[n] \in Seq(Entry) BY DEF TypeOK
<1>2. SubSeq(log[n], k, Len(log[n])) \in Seq(Entry) BY <1>1
<1> QED BY <1>2 DEF AppendRequest

LEMMA HeartbeatVInv == ASSUME VInv, NEW n \in Nodes, SendHeartbeat(n) PROVE VInv'
<1>1. log[n] \in Seq(Entry) BY DEF VInv, TypeOK
<1>2. Len(log[n]) + 1 \in 1 .. Len(log[n]) + 1 BY <1>1
<1> QED BY <1>2, RequestType, SendVInv DEF SendHeartbeat, VInv

LEMMA EntriesVInv == ASSUME VInv, NEW n \in Nodes, SendEntries(n) PROVE VInv'
<1>1. log[n] \in Seq(Entry) BY DEF VInv, TypeOK
<1>2. PICK k \in DOMAIN log[n] : Send(n, AppendRequest(n, k), 1) BY DEF SendEntries
<1>3. k \in 1 .. Len(log[n]) + 1 BY <1>1
<1> QED BY <1>2, <1>3, RequestType, SendVInv DEF VInv

LEMMA SnapshotVInv == ASSUME VInv, NEW n \in Nodes, SendSnapshot(n) PROVE VInv'
<1> DEFINE m == [type |-> "snapshot", from |-> n, term |-> currentTerm[n],
                 index |-> commitIndex[n], logTerm |-> LogTermAt(log[n], commitIndex[n])]
<1>1. Send(n, m, 1) BY DEF SendSnapshot
<1>2. m.from = n /\ m.term = currentTerm[n] /\ m.type = "snapshot" OBVIOUS
<1> HIDE DEF m
<1> QED BY <1>1, <1>2, SendVInv

\* Calls of n move along, and become J: what is new has nothing to answer.
Moves(n, J) ==
  /\ jobs' = [jobs EXCEPT ![n] = J]
  /\ \A j \in J : j \in jobs[n] \/ (JobOK(n, j)' /\ (j.step # "save" \/ j.send = {}))
  /\ log' \in [Nodes -> Seq(Entry)] /\ diskLog' \in [Nodes -> Seq(Entry)] /\ events' \in Nat
  /\ UNCHANGED <<role, currentTerm, votedFor, leaderId, disk, msgs, elected, forgotten>>

LEMMA CallsOK ==
  ASSUME VInv, NEW n \in Nodes, NEW J, Moves(n, J)
  PROVE  VInv'
<1> USE DEF Moves
<1>1. TypeOK'
  <2>1. jobs' = [q \in Nodes |-> jobs'[q]] BY DEF VInv, TypeOK
  <2> QED BY <2>1 DEF VInv, TypeOK
<1>2. MsgsOK' BY DEF VInv, MsgsOK, Peers
<1>3. \A q \in Nodes : \A j \in jobs'[q] :
        j \in jobs[q] \/ (JobOK(q, j)' /\ (j.step # "save" \/ j.send = {}))
  BY DEF VInv, TypeOK
<1>4. JobsOK'
  <2>1. \A q \in Nodes : \A j \in jobs[q] : JobOK(q, j)'
    BY DEF VInv, JobsOK, JobOK, SendOK, Peers
  <2> QED BY <1>3, <2>1 DEF JobsOK
<1> QED BY <1>1, <1>2, <1>3, <1>4, QuietOK

LEMMA ProposeVInv == ASSUME VInv, NEW n \in Nodes, Propose(n) PROVE VInv'
<1>1. PICK k : k = [step |-> "append", data |-> events'] OBVIOUS
<1>2. /\ jobs' = [jobs EXCEPT ![n] = jobs[n] \cup {k}] /\ events' = events + 1
      /\ UNCHANGED <<role, currentTerm, votedFor, leaderId, log, diskLog, disk, msgs, elected,
                     forgotten>>
  BY <1>1 DEF Propose, Event, Events, Spawn, state, storage, history
<1>3. events' \in Nat BY <1>2 DEF VInv, TypeOK
<1>4. JobOK(n, k)' /\ k.step # "save" BY <1>1, <1>3 DEF JobOK
<1>5. log' \in [Nodes -> Seq(Entry)] /\ diskLog' \in [Nodes -> Seq(Entry)]
  BY <1>2 DEF VInv, TypeOK
<1>6. Moves(n, jobs[n] \cup {k}) BY <1>2, <1>3, <1>4, <1>5 DEF Moves
<1> QED BY <1>6, CallsOK

\* The entry of a proposal is appended with the term of now.
LEMMA AppendVInv ==
  ASSUME VInv, NEW n \in Nodes, NEW j \in jobs[n], ProposeAppend(n, j) PROVE VInv'
<1>0. PICK e : e = [index |-> LastLogIndex(log[n]) + 1, term |-> currentTerm[n], data |-> j.data]
  OBVIOUS
<1>1. PICK k : k = [step |-> "store", entry |-> e] OBVIOUS
<1>2. /\ j.step = "append" /\ log' = [log EXCEPT ![n] = Append(@, e)]
      /\ jobs' = [jobs EXCEPT ![n] = (jobs[n] \ {j}) \cup {k}]
      /\ UNCHANGED <<role, currentTerm, votedFor, leaderId, disk, diskLog, msgs, elected,
                     forgotten, events>>
  BY <1>0, <1>1 DEF ProposeAppend, Replace, storage, bounds
<1>3. log[n] \in Seq(Entry) BY DEF VInv, TypeOK
<1>4. e \in Entry
  <2>1. j.data \in Nat BY <1>2 DEF VInv, JobsOK, JobOK
  <2>2. LastLogIndex(log[n]) \in Nat BY <1>3, LogTypes
  <2> QED BY <1>0, <2>1, <2>2 DEF VInv, TypeOK, Entry
<1>5. log' \in [Nodes -> Seq(Entry)] BY <1>2, <1>3, <1>4 DEF VInv, TypeOK
<1>6. JobOK(n, k)' /\ k.step # "save" BY <1>1, <1>4 DEF JobOK
<1>7. diskLog' \in [Nodes -> Seq(Entry)] /\ events' \in Nat BY <1>2 DEF VInv, TypeOK
<1>8. Moves(n, (jobs[n] \ {j}) \cup {k}) BY <1>2, <1>5, <1>6, <1>7 DEF Moves
<1> QED BY <1>8, CallsOK

LEMMA StoreVInv ==
  ASSUME VInv, NEW n \in Nodes, NEW j \in jobs[n], ProposeStore(n, j) PROVE VInv'
<1>1. PICK k : k = [step |-> "commit", index |-> j.entry.index] OBVIOUS
<1>2. /\ j.step = "store" /\ diskLog' = [diskLog EXCEPT ![n] = StoreEntry(@, j.entry)]
      /\ jobs' = [jobs EXCEPT ![n] = (jobs[n] \ {j}) \cup {k}]
      /\ UNCHANGED <<role, currentTerm, votedFor, leaderId, log, disk, msgs, elected, forgotten,
                     events>>
  BY <1>1 DEF ProposeStore, Replace, state, bounds, history
<1>3. StoreEntry(diskLog[n], j.entry) \in Seq(Entry)
  BY <1>2, LogTypes DEF VInv, TypeOK, JobsOK, JobOK
<1>4. diskLog' \in [Nodes -> Seq(Entry)] BY <1>2, <1>3 DEF VInv, TypeOK
<1>5. JobOK(n, k)' /\ k.step # "save" BY <1>1 DEF JobOK
<1>6. log' \in [Nodes -> Seq(Entry)] /\ events' \in Nat BY <1>2 DEF VInv, TypeOK
<1>7. Moves(n, (jobs[n] \ {j}) \cup {k}) BY <1>2, <1>4, <1>5, <1>6 DEF Moves
<1> QED BY <1>7, CallsOK

LEMMA StoreFailsVInv ==
  ASSUME VInv, NEW n \in Nodes, NEW j \in jobs[n], ProposeStoreFails(n, j) PROVE VInv'
<1>1. /\ jobs' = [jobs EXCEPT ![n] = (jobs[n] \ {j}) \cup {}] /\ events' = events + 1
      /\ UNCHANGED <<role, currentTerm, votedFor, leaderId, log, diskLog, disk, msgs, elected,
                     forgotten>>
  BY DEF ProposeStoreFails, Replace, Event, Events, state, storage, history
<1>2. log' \in [Nodes -> Seq(Entry)] /\ diskLog' \in [Nodes -> Seq(Entry)] /\ events' \in Nat
  BY <1>1 DEF VInv, TypeOK
<1>3. Moves(n, (jobs[n] \ {j}) \cup {}) BY <1>1, <1>2 DEF Moves
<1> QED BY <1>3, CallsOK

\* A call that has a hard state to save.
LEMMA SaveAnswers ==
  ASSUME NEW n \in Nodes, NEW snap, NEW answers, NEW k, k = SaveJob(n, snap, answers),
         TypeOK', \A m \in answers : SendOK(n, m)'
  PROVE  /\ JobOK(n, k)'
         /\ k.step = "save" /\ k.send = answers
<1>1. k.hs.term = currentTerm'[n] /\ k.hs.vote = votedFor'[n] BY DEF SaveJob, HardState
<1>2. currentTerm'[n] \in Nat /\ votedFor'[n] \in Voter BY DEF TypeOK
<1>3. k.step = "save" /\ k.send = answers BY DEF SaveJob
<1> QED BY <1>1, <1>2, <1>3 DEF JobOK

\* The same with nothing to answer, by a step that changes neither term nor vote.
LEMMA SaveNothing ==
  ASSUME TypeOK, NEW n \in Nodes, NEW snap, NEW k, k = SaveJob(n, snap, {}),
         UNCHANGED <<currentTerm, votedFor>>
  PROVE  JobOK(n, k)' /\ k.step = "save" /\ k.send = {}
<1>1. k.hs.term = currentTerm[n] /\ k.hs.vote = votedFor[n] BY DEF SaveJob, HardState
<1>2. currentTerm[n] \in Nat /\ votedFor[n] \in Voter BY DEF TypeOK
<1>3. k.step = "save" /\ k.send = {} BY DEF SaveJob
<1> QED BY <1>1, <1>2, <1>3 DEF JobOK

LEMMA CommitVInv ==
  ASSUME VInv, NEW n \in Nodes, NEW j \in jobs[n], ProposeCommit(n, j) PROVE VInv'
<1>0. PICK k : k = SaveJob(n, NoSnapshot, {}) OBVIOUS
<1>1. /\ \/ jobs' = [jobs EXCEPT ![n] = (jobs[n] \ {j}) \cup {k}]
         \/ jobs' = [jobs EXCEPT ![n] = (jobs[n] \ {j}) \cup {}]
      /\ UNCHANGED <<role, currentTerm, votedFor, leaderId, log, disk, diskLog, msgs, elected,
                     forgotten, events>>
  BY <1>0 DEF ProposeCommit, Replace, storage, bounds, history
<1>2. JobOK(n, k)' /\ k.send = {} BY <1>0, <1>1, SaveNothing DEF VInv
<1>3. log' \in [Nodes -> Seq(Entry)] /\ diskLog' \in [Nodes -> Seq(Entry)] /\ events' \in Nat
  BY <1>1 DEF VInv, TypeOK
<1>4. Moves(n, (jobs[n] \ {j}) \cup {k}) \/ Moves(n, (jobs[n] \ {j}) \cup {})
  BY <1>1, <1>2, <1>3 DEF Moves
<1> QED BY <1>4, CallsOK

LEMMA MatchVInv ==
  ASSUME VInv, NEW n \in Nodes, NEW m \in msgs, UpdateMatchIndex(n, m) PROVE VInv'
<1>0. PICK k : k = SaveJob(n, NoSnapshot, {}) OBVIOUS
<1>1. /\ \/ jobs' = [jobs EXCEPT ![n] = jobs[n] \cup {k}]
         \/ jobs' = jobs
      /\ UNCHANGED <<role, currentTerm, votedFor, leaderId, log, disk, diskLog, msgs, elected,
                     forgotten, events>>
  BY <1>0 DEF UpdateMatchIndex, SaveThen, Spawn, storage, bounds, history
<1>2. JobOK(n, k)' /\ k.send = {} BY <1>0, <1>1, SaveNothing DEF VInv
<1>3. log' \in [Nodes -> Seq(Entry)] /\ diskLog' \in [Nodes -> Seq(Entry)] /\ events' \in Nat
  BY <1>1 DEF VInv, TypeOK
<1>4. jobs = [jobs EXCEPT ![n] = jobs[n]] BY DEF VInv, TypeOK
<1>5. Moves(n, jobs[n] \cup {k}) \/ Moves(n, jobs[n]) BY <1>1, <1>2, <1>3, <1>4 DEF Moves
<1> QED BY <1>5, CallsOK

-----------------------------------------------------------------------------
(* Steps that take up a term, a vote or a leader                           *)

LEMMA ElectionVInv ==
  ASSUME VInv, NEW n \in Nodes, StartElection(n) PROVE VInv'
<1>1. PICK m : m = [type |-> "vote", from |-> n, term |-> currentTerm'[n],
                    index |-> LastLogIndex(log[n]), logTerm |-> LastLogTerm(log[n])]
  OBVIOUS
<1>2. PICK k : k = SaveJob(n, NoSnapshot, {m}) OBVIOUS
<1>3. PICK t : t = currentTerm[n] + 1 OBVIOUS
<1>4. Turns(n, "candidate", t, n, None, {k})
  BY <1>1, <1>2, <1>3 DEF StartElection, SaveThen, Spawn, storage, history, Turns, VInv, TypeOK
<1>5. currentTerm[n] \in Nat /\ t \in Nat /\ t > currentTerm[n] BY <1>3 DEF VInv, TypeOK
<1>6. MayTurn(n, "candidate", t, n, None) BY <1>5 DEF MayTurn, Voter
<1>7. TypeOK' BY <1>4, <1>6, TurnType DEF VInv
<1>8. JobOK(n, k)' /\ k.step = "save" /\ k.send = {m}
  <2>1. currentTerm'[n] \in Nat BY <1>7 DEF TypeOK
  <2>2. SendOK(n, m)' BY <1>1, <2>1 DEF SendOK
  <2> QED BY <1>2, <1>7, <2>2, SaveAnswers
<1>9. Answers({k}, "candidate", t, n) BY <1>1, <1>8 DEF Answers
<1> QED BY <1>4, <1>6, <1>8, <1>9, TurnOK

\* Leaving a value as it is, in the form of an assignment.
LEMMA Keeps ==
  ASSUME TypeOK, NEW n \in Nodes
  PROVE  /\ role = [role EXCEPT ![n] = role[n]]
         /\ currentTerm = [currentTerm EXCEPT ![n] = currentTerm[n]]
         /\ votedFor = [votedFor EXCEPT ![n] = votedFor[n]]
         /\ leaderId = [leaderId EXCEPT ![n] = leaderId[n]]
         /\ jobs = [jobs EXCEPT ![n] = @ \cup {}]
<1>1. jobs[n] \cup {} = jobs[n] OBVIOUS
<1> QED BY <1>1 DEF TypeOK

\* A vote goes to the candidate it is remembered for, never from a candidate.
LEMMA VoteVInv ==
  ASSUME VInv, NEW n \in Nodes, NEW m \in msgs, HandleRequestVote(n, m)
  PROVE  VInv'
<1> DEFINE newer == m.term > currentTerm[n]
           grant == /\ newer \/ votedFor[n] \in {None, m.from}
                    /\ IsLogUpToDate(log[n], m.index, m.logTerm)
           r == IF newer THEN "follower" ELSE role[n]
           v == IF grant THEN m.from ELSE IF newer THEN None ELSE votedFor[n]
           l == IF newer THEN None ELSE leaderId[n]
<1>1. PICK a : a = [type |-> "voted", from |-> n, to |-> m.from, term |-> m.term] OBVIOUS
<1>2. PICK k : k = SaveJob(n, NoSnapshot, {a}) OBVIOUS
<1>3. /\ m.type = "vote" /\ m.from # n /\ m.term >= currentTerm[n]
      /\ Turns(n, r, m.term, v, l, {}) \/ (grant /\ Turns(n, r, m.term, v, l, {k}))
  <2>1. /\ role' = [role EXCEPT ![n] = r] /\ currentTerm' = [currentTerm EXCEPT ![n] = m.term]
        /\ leaderId' = [leaderId EXCEPT ![n] = l] /\ votedFor' = [votedFor EXCEPT ![n] = v]
        /\ UNCHANGED <<log, diskLog, disk, msgs, elected, forgotten, events>>
        /\ IF grant THEN jobs' = [jobs EXCEPT ![n] = @ \cup {k}] ELSE jobs' = jobs
        /\ m.type = "vote" /\ m.from # n /\ m.term >= currentTerm[n]
    BY <1>1, <1>2 DEF HandleRequestVote, SaveThen, Spawn, storage, bounds, history
  <2>2. log' \in [Nodes -> Seq(Entry)] BY <2>1 DEF VInv, TypeOK
  <2> HIDE DEF r, v, l, newer, grant
  <2> QED BY <2>1, <2>2, Keeps DEF Turns, VInv
<1>4. /\ m.from \in Nodes \ {n} /\ m.term \in Nat /\ currentTerm[n] \in Nat
      /\ m.term = currentTerm[n] \/ m.term > currentTerm[n]
  <2>1. m.from \in Nodes /\ m.term \in Nat BY DEF VInv, MsgsOK
  <2>2. currentTerm[n] \in Nat BY DEF VInv, TypeOK
  <2> HIDE DEF r, v, l, grant
  <2> QED BY <1>3, <2>1, <2>2
<1>5. /\ role[n] \in {"follower", "candidate", "leader"}
      /\ votedFor[n] \in Voter /\ leaderId[n] \in Voter
      /\ n # None /\ m.from # None
      /\ role[n] = "candidate" => votedFor[n] = n
      /\ leaderId[n] # None => <<currentTerm[n], leaderId[n]>> \in elected
  <2>1. /\ role[n] \in {"follower", "candidate", "leader"}
        /\ votedFor[n] \in Voter /\ leaderId[n] \in Voter
    BY DEF VInv, TypeOK
  <2>2. n # None /\ m.from # None BY <1>4, RaftAssumption
  <2>3. role[n] = "candidate" => votedFor[n] = n BY DEF VInv, CandidateOK
  <2>4. leaderId[n] # None => <<currentTerm[n], leaderId[n]>> \in elected BY DEF VInv, LeaderOK
  <2> QED BY <2>1, <2>2, <2>3, <2>4
<1>6. r = "candidate" => ~grant /\ m.term = currentTerm[n] /\ role[n] = "candidate"
  BY <1>4, <1>5
<1>7. MayTurn(n, r, m.term, v, l)
  <2>1. r \in {"follower", "candidate", "leader"} /\ v \in Voter /\ l \in Voter
    BY <1>4, <1>5 DEF Voter
  <2>2. m.term = currentTerm[n] =>
         /\ r = "candidate" => role[n] = "candidate" /\ v = votedFor[n]
         /\ votedFor[n] \notin {None, v} => role[n] = "candidate"
    BY <1>4, <1>6
  <2>3. r = "leader" => role[n] = "leader" /\ m.term = currentTerm[n] BY <1>4
  <2>4. l # None => <<m.term, l>> \in elected BY <1>4, <1>5
  <2>5. m.term > currentTerm[n] => r # "candidate" BY <1>4, <1>6
  <2>6. Peers(n) # {} BY <1>4 DEF Peers
  <2> HIDE DEF r, v, l
  <2> QED BY <1>3, <1>4, <2>1, <2>2, <2>3, <2>4, <2>5, <2>6 DEF MayTurn
<1>8. CASE Turns(n, r, m.term, v, l, {})
  <2> HIDE DEF r, v, l, grant
  <2>1. Answers({}, r, m.term, v) BY DEF Answers
  <2>2. \A j \in {} : JobOK(n, j)' OBVIOUS
  <2> QED BY <1>7, <1>8, <2>1, <2>2, TurnOK
<1>9. CASE grant /\ Turns(n, r, m.term, v, l, {k})
  <2>1. v = m.from /\ r # "candidate" BY <1>6, <1>9
  <2> HIDE DEF r, v, l, grant
  <2>2. TypeOK' BY <1>7, <1>9, TurnType DEF VInv
  <2>3. SendOK(n, a)' BY <1>1, <1>4 DEF SendOK, Peers
  <2>4. JobOK(n, k)' /\ k.step = "save" /\ k.send = {a} BY <1>2, <2>2, <2>3, SaveAnswers
  <2>5. Answers({k}, r, m.term, v) BY <1>1, <2>1, <2>4 DEF Answers
  <2> QED BY <1>7, <1>9, <2>4, <2>5, TurnOK
<1> HIDE DEF r, v, l, grant
<1> QED BY <1>3, <1>8, <1>9

\* Hearing of a leader, and saving before the answers.
Hears(n, m, reset, snap, answers) ==
  /\ m.type \in {"append", "snapshot"} /\ m.from # n /\ m.term >= currentTerm[n]
  /\ reset \in BOOLEAN /\ HearLeader(n, m, reset)
  /\ m.term > currentTerm[n] => reset
  /\ m.term = currentTerm[n] /\ reset => role[n] = "candidate"
  /\ \A a \in answers : a.type = "appended" /\ SendOK(n, a)'
  /\ jobs' = [jobs EXCEPT ![n] = @ \cup {SaveJob(n, snap, answers)}]
  /\ log' \in [Nodes -> Seq(Entry)]
  /\ UNCHANGED <<disk, diskLog, msgs, elected, forgotten, events>>

\* The sender of entries or of a snapshot has been elected for its term.
LEMMA HearVInv ==
  ASSUME VInv, NEW n \in Nodes, NEW m \in msgs, NEW reset, NEW snap, NEW answers,
         Hears(n, m, reset, snap, answers)
  PROVE  VInv'
<1> USE DEF Hears
<1>0. PICK k : k = SaveJob(n, snap, answers) OBVIOUS
<1>1. /\ <<m.term, m.from>> \in elected /\ m.from \in Nodes /\ m.term \in Nat
      /\ currentTerm[n] \in Nat /\ role[n] \in {"follower", "candidate", "leader"}
      /\ votedFor[n] \in Voter /\ m.from \in Voter /\ None \in Voter
  BY DEF VInv, MsgsOK, TypeOK, Voter
<1>2. m.term = currentTerm[n] \/ m.term > currentTerm[n] BY <1>1
<1>3. Peers(n) # {} BY <1>1 DEF Peers
<1>4. k.send = answers BY <1>0 DEF SaveJob
<1>5. \A r, t, v : Answers({k}, r, t, v) BY <1>4 DEF Answers
<1>6. TypeOK' => \A j \in {k} : JobOK(n, j)' BY <1>0, SaveAnswers
<1>7. CASE reset
  <2>1. Turns(n, "follower", m.term, None, m.from, {k})
    BY <1>0, <1>7 DEF Turns, HearLeader, BecomeFollower
  <2>2. MayTurn(n, "follower", m.term, None, m.from) BY <1>1, <1>3, <1>7 DEF MayTurn
  <2>3. TypeOK' BY <2>1, <2>2, TurnType DEF VInv
  <2> QED BY <1>5, <1>6, <2>1, <2>2, <2>3, TurnOK
<1>8. CASE ~reset
  <2>1. m.term = currentTerm[n] BY <1>2, <1>8
  <2>2. Turns(n, role[n], currentTerm[n], votedFor[n], m.from, {k})
    BY <1>0, <1>8, Keeps DEF Turns, HearLeader, VInv
  <2>3. MayTurn(n, role[n], currentTerm[n], votedFor[n], m.from)
    BY <1>1, <1>3, <2>1 DEF MayTurn
  <2>4. TypeOK' BY <2>2, <2>3, TurnType DEF VInv
  <2> QED BY <1>5, <1>6, <2>2, <2>3, <2>4, TurnOK
<1> QED BY <1>7, <1>8

LEMMA AppendEntriesVInv ==
  ASSUME VInv, NEW n \in Nodes, NEW m \in msgs, HandleAppendEntries(n, m)
  PROVE  VInv'
<1> DEFINE reset == m.term > currentTerm[n] \/ role[n] = "candidate"
           ok == m.prev > 0 => LogTermAt(log[n], m.prev) = m.prevTerm
           merged == IF ok THEN Merge(log[n], m.entries) ELSE log[n]
<1>1. PICK a : a = [type |-> "appended", from |-> n, to |-> m.from, term |-> m.term,
                    match |-> m.prev + Len(m.entries)]
  OBVIOUS
<1>2. PICK answers : answers = IF ok THEN {a} ELSE {} OBVIOUS
<1>3. PICK k : k = SaveJob(n, NoSnapshot, answers) OBVIOUS
<1>4. /\ m.type = "append" /\ m.from # n /\ m.term >= currentTerm[n]
      /\ HearLeader(n, m, reset)
      /\ log' = [log EXCEPT ![n] = merged]
      /\ jobs' = [jobs EXCEPT ![n] = @ \cup {k}]
      /\ UNCHANGED <<disk, diskLog, msgs, elected, forgotten, events>>
  BY <1>1, <1>2, <1>3 DEF HandleAppendEntries, SaveThen, Spawn, storage, bounds, history
<1>5. m.term \in Nat /\ currentTerm[n] \in Nat /\ m.entries \in Seq(Entry) /\ log[n] \in Seq(Entry)
  BY <1>4 DEF VInv, MsgsOK, TypeOK
<1>6. log' \in [Nodes -> Seq(Entry)]
  <2>1. merged \in Seq(Entry) BY <1>5, LogTypes
  <2> HIDE DEF merged
  <2> QED BY <1>4, <2>1 DEF VInv, TypeOK
<1>7. \A x \in answers : x.type = "appended" /\ SendOK(n, x)' BY <1>1, <1>2, <1>5 DEF SendOK
<1>8. /\ reset \in BOOLEAN
      /\ m.term > currentTerm[n] => reset
      /\ m.term = currentTerm[n] /\ reset => role[n] = "candidate"
  BY <1>5
<1> HIDE DEF reset, ok, merged
<1>9. Hears(n, m, reset, NoSnapshot, answers) BY <1>3, <1>4, <1>6, <1>7, <1>8 DEF Hears
<1> QED BY <1>9, HearVInv

LEMMA InstallVInv ==
  ASSUME VInv, NEW n \in Nodes, NEW m \in msgs, HandleInstallSnapshot(n, m)
  PROVE  VInv'
<1> DEFINE reset == m.term > currentTerm[n]
           above == Above(log[n], m.index)
<1>0. PICK snap : snap = [index |-> m.index, term |-> m.logTerm] OBVIOUS
<1>1. PICK k : k = SaveJob(n, snap, {}) OBVIOUS
<1>2. /\ m.type = "snapshot" /\ m.from # n /\ m.term >= currentTerm[n]
      /\ HearLeader(n, m, reset)
      /\ log' = [log EXCEPT ![n] = above]
      /\ jobs' = [jobs EXCEPT ![n] = @ \cup {k}]
      /\ UNCHANGED <<disk, diskLog, msgs, elected, forgotten, events>>
  BY <1>0, <1>1 DEF HandleInstallSnapshot, Spawn, storage, bounds, history
<1>3. m.term \in Nat /\ currentTerm[n] \in Nat /\ log[n] \in Seq(Entry)
  BY DEF VInv, MsgsOK, TypeOK
<1>4. log' \in [Nodes -> Seq(Entry)]
  <2>1. above \in Seq(Entry) BY <1>3, LogTypes
  <2> HIDE DEF above
  <2> QED BY <1>2, <2>1 DEF VInv, TypeOK
<1>5. \A a \in {} : a.type = "appended" /\ SendOK(n, a)' OBVIOUS
<1>6. /\ reset \in BOOLEAN
      /\ m.term > currentTerm[n] => reset
      /\ m.term = currentTerm[n] /\ reset => role[n] = "candidate"
  BY <1>3
<1> HIDE DEF reset, above
<1>7. Hears(n, m, reset, snap, {}) BY <1>1, <1>2, <1>4, <1>5, <1>6 DEF Hears
<1> QED BY <1>7, HearVInv

-----------------------------------------------------------------------------
(* Winning an election, saving, restarting                                 *)

\* The promotion adds the candidate's own vote to those it has been sent.  The
\* candidate has given no other that it may not take back.
LEMMA ForceVInv ==
  ASSUME VInv, NEW n \in Nodes, ForceBecomeLeader(n) PROVE VInv'
<1>0. PICK T : T = currentTerm[n] OBVIOUS
<1>1. /\ role[n] = "candidate" /\ Cardinality(Votes(n)) + 1 >= Majority
      /\ role' = [role EXCEPT ![n] = "leader"]
      /\ currentTerm' = [currentTerm EXCEPT ![n] = T + 1]
      /\ leaderId' = [leaderId EXCEPT ![n] = n]
      /\ elected' = elected \cup {<<T + 1, n>>}
      /\ UNCHANGED <<votedFor, log, disk, diskLog, jobs, msgs, forgotten, events>>
  BY <1>0 DEF ForceBecomeLeader, BecomeLeader, storage, bounds, history
<1>2. T \in Nat /\ T + 1 \in Nat /\ n # None BY <1>0, RaftAssumption DEF VInv, TypeOK
<1>3. votedFor[n] = n BY <1>1 DEF VInv, CandidateOK
<1>4. \A q \in Nodes \ {n} : /\ role'[q] = role[q] /\ currentTerm'[q] = currentTerm[q]
                             /\ leaderId'[q] = leaderId[q]
  BY <1>1 DEF VInv, TypeOK
<1>5. role'[n] = "leader" /\ currentTerm'[n] = T + 1 /\ leaderId'[n] = n
  BY <1>1 DEF VInv, TypeOK
<1>6. TypeOK'
  <2>1. role' \in [Nodes -> {"follower", "candidate", "leader"}] /\ currentTerm' \in [Nodes -> Nat]
    BY <1>1, <1>2 DEF VInv, TypeOK
  <2>2. leaderId' \in [Nodes -> Voter] BY <1>1 DEF VInv, TypeOK, Voter
  <2>3. elected' \subseteq Nat \X Nodes BY <1>1, <1>2 DEF VInv, TypeOK
  <2> QED BY <1>1, <2>1, <2>2, <2>3 DEF VInv, TypeOK
<1>7. MsgsOK' BY <1>1 DEF VInv, MsgsOK, Peers
<1>8. JobsOK' BY <1>1 DEF VInv, JobsOK, JobOK, SendOK, Peers
<1>9. CandidateOK' BY <1>1, <1>3, <1>4, <1>5 DEF VInv, CandidateOK, Asking, Peers
<1>10. VotesOK'
  <2>1. ASSUME NEW q \in Nodes \ {n} PROVE BoundOK(q)'
    <3>1. \A u, x : Bound(q, u, x)' => Bound(q, u, x)
      BY <1>1 DEF Bound, VoteGiven, Promised, LedAfter, Peers
    <3> QED BY <1>1, <1>4, <3>1 DEF VInv, VotesOK, BoundOK, Kept
  <2>2. BoundOK(n)'
    <3> SUFFICES ASSUME NEW u \in Nat, NEW x \in Nodes, Bound(n, u, x)', <<n, u>> \notin forgotten'
                 PROVE  Kept(n, u, x)' /\ \A y \in Nodes : Bound(n, u, y)' => x = y
      BY DEF BoundOK
    <3>1. \A y \in Nodes : Bound(n, u, y)' => Bound(n, u, y) \/ (y = n /\ u \in {T, T + 1})
      <4>1. <<LedAfter(n, u), n>> \in elected' =>
              <<LedAfter(n, u), n>> \in elected \/ LedAfter(n, u) = T + 1
        BY <1>1
      <4>2. LedAfter(n, u) = T + 1 => u \in {T, T + 1} BY <1>2 DEF LedAfter
      <4> QED BY <1>1, <4>1, <4>2 DEF Bound, VoteGiven, Promised, LedAfter, Peers
    <3>2. \A y \in Nodes : Bound(n, u, y) => u < T /\ \A z \in Nodes : Bound(n, u, z) => y = z
      BY <1>0, <1>1 DEF VInv, VotesOK, BoundOK, Kept
    <3>3. Kept(n, u, x)'
      BY <1>1, <1>2, <1>3, <1>5, <3>1, <3>2 DEF Kept
    <3>4. ASSUME NEW y \in Nodes, Bound(n, u, y)' PROVE x = y
      BY <1>2, <3>1, <3>2, <3>4
    <3> QED BY <3>3, <3>4
  <2> QED BY <2>1, <2>2 DEF VotesOK
<1>11. ElectedOK'
  <2>0. PICK Q : Q = Votes(n) \cup {n} OBVIOUS
  <2>1. Votes(n) \subseteq Nodes /\ n \notin Votes(n) BY DEF VInv, MsgsOK, Votes, Peers
  <2>2. Q \in SUBSET Nodes /\ IsFiniteSet(Votes(n)) BY <2>0, <2>1, RaftAssumption, FS_Subset
  <2>3. Cardinality(Q) = Cardinality(Votes(n)) + 1 BY <2>0, <2>1, <2>2, FS_AddElement
  <2> SUFFICES ASSUME NEW t \in Nat, NEW q \in Nodes, <<t, q>> \in elected', Peers(q) # {}
               PROVE  t > 0 /\ \E P \in SUBSET Nodes : Elects(P, t - 1, q)'
    BY DEF ElectedOK, Peers
  <2>4. CASE <<t, q>> \in elected
    <3>1. PICK P \in SUBSET Nodes : Elects(P, t - 1, q) BY <2>4 DEF VInv, ElectedOK
    <3>2. t > 0 BY <2>4 DEF VInv, ElectedOK
    <3> QED BY <1>1, <3>1, <3>2, ElectsStable
  <2>5. CASE t = T + 1 /\ q = n
    <3>1. t > 0 /\ t - 1 = T BY <1>2, <2>5
    <3>2. VoteGiven(n, T, n)' BY <1>1, <2>5 DEF VoteGiven, LedAfter, Peers
    <3>3. \A p \in Votes(n) : VoteGiven(p, T, n)'
      BY <1>0, <1>1 DEF Votes, VoteGiven
    <3>4. Elects(Q, T, n)' BY <1>1, <2>0, <2>3, <3>2, <3>3 DEF Elects, Majority
    <3> QED BY <2>2, <2>5, <3>1, <3>4
  <2> QED BY <1>1, <2>4, <2>5
<1>12. LeaderOK' BY <1>1, <1>4, <1>5 DEF VInv, LeaderOK
<1> QED BY <1>6, <1>7, <1>8, <1>9, <1>10, <1>11, <1>12 DEF VInv

\* Saving, or failing to, sends the answers; a node without peers then leads.
LEMMA SaveVInv ==
  ASSUME VInv, NEW n \in Nodes, NEW j \in jobs[n], Save(n, j) PROVE VInv'
<1> DEFINE alone == Peers(n) = {} /\ \E m \in j.send : m.type = "vote"
<1>1. /\ j.step = "save" /\ msgs' = msgs \cup j.send
      /\ jobs' = [jobs EXCEPT ![n] = (@ \ {j}) \cup {}]
      /\ UNCHANGED <<votedFor, log, diskLog, forgotten>>
  BY DEF Save, Replace, history
<1>2. \/ ~alone /\ UNCHANGED <<role, currentTerm, leaderId, elected>>
      \/ /\ alone /\ role' = [role EXCEPT ![n] = "leader"]
         /\ currentTerm' = [currentTerm EXCEPT ![n] = currentTerm[n]]
         /\ leaderId' = [leaderId EXCEPT ![n] = n]
         /\ elected' = elected \cup {<<currentTerm[n], n>>}
  BY DEF Save, BecomeLeader
<1>3. j.hs.term \in Nat /\ j.hs.vote \in Voter /\ \A m \in j.send : SendOK(n, m)
  BY <1>1 DEF VInv, JobsOK, JobOK
<1>4. disk' = [q \in Nodes |-> disk'[q]] /\ \A q \in Nodes : disk'[q] = disk[q] \/ disk'[q] = j.hs
  <2>1. PICK lost \in SUBSET {"state", "snapshot"} :
          disk' = [disk EXCEPT ![n] = IF "state" \in lost THEN @ ELSE j.hs]
    BY DEF Save
  <2>2. disk = [q \in Nodes |-> disk[q]] BY DEF VInv, TypeOK
  <2> QED BY <2>1, <2>2
<1>5. events' \in Nat
  <2>1. events' = events + 0 \/ events' = events + 1 BY DEF Save, Events
  <2>2. events \in Nat BY DEF VInv, TypeOK
  <2> QED BY <2>1, <2>2
<1>6. /\ currentTerm' = currentTerm /\ jobs' = [q \in Nodes |-> jobs'[q]]
      /\ \A q \in Nodes : jobs'[q] \subseteq jobs[q]
      /\ elected \subseteq elected' /\ msgs \subseteq msgs'
      /\ \A q \in Nodes \ {n} : role'[q] = role[q] /\ leaderId'[q] = leaderId[q]
      /\ alone => role'[n] = "leader" /\ leaderId'[n] = n
      /\ ~alone => role' = role /\ leaderId' = leaderId /\ elected' = elected
  BY <1>1, <1>2 DEF VInv, TypeOK
<1>7. alone => votedFor[n] = n /\ role[n] # "follower"
  BY <1>1 DEF VInv, CandidateOK, Asking
<1>8. TypeOK'
  <2>1. role' \in [Nodes -> {"follower", "candidate", "leader"}] BY <1>2 DEF VInv, TypeOK
  <2>2. leaderId' \in [Nodes -> Voter] BY <1>2 DEF VInv, TypeOK, Voter
  <2>3. elected' \subseteq Nat \X Nodes BY <1>2 DEF VInv, TypeOK
  <2>4. \A q \in Nodes : disk'[q].term \in Nat /\ disk'[q].vote \in Voter
    BY <1>3, <1>4 DEF VInv, TypeOK
  <2> QED BY <1>1, <1>4, <1>5, <1>6, <2>1, <2>2, <2>3, <2>4 DEF VInv, TypeOK
<1>9. MsgsOK' BY <1>1, <1>3, <1>6 DEF VInv, MsgsOK, SendOK, Peers
<1>10. JobsOK' BY <1>6 DEF VInv, JobsOK, JobOK, SendOK, Peers
<1>11. CandidateOK'
  <2>1. \A q \in Nodes : Asking(q)' => Asking(q) BY <1>6 DEF Asking
  <2>2. ASSUME NEW q \in Nodes PROVE role'[q] = role[q] \/ (q = n /\ alone /\ role'[q] = "leader")
    BY <1>6
  <2> HIDE DEF alone
  <2> QED BY <1>1, <1>7, <2>1, <2>2 DEF VInv, CandidateOK, Peers
<1>12. VotesOK'
  <2>1. \A q \in Nodes : \A u, x : Bound(q, u, x)' =>
          Bound(q, u, x) \/ (q = n /\ alone /\ x = n /\ u = currentTerm[n])
    <3>1. \A q \in Nodes : \A u, x : Promised(q, u, x)' => Promised(q, u, x) BY <1>6 DEF Promised
    <3>2. \A q \in Nodes : \A u, x : (\E m \in msgs' : m.type = "voted" /\ m.from = q /\ m.term = u /\ m.to = x)
            => VoteGiven(q, u, x) \/ Promised(q, u, x)
      BY <1>1, <1>3 DEF VoteGiven, Promised, SendOK
    <3>3. \A q \in Nodes : \A u : <<LedAfter(q, u), q>> \in elected' =>
            <<LedAfter(q, u), q>> \in elected \/ (q = n /\ alone /\ u = currentTerm[n])
      BY <1>2 DEF LedAfter, Peers
    <3> HIDE DEF alone
    <3> QED BY <3>1, <3>2, <3>3 DEF Bound, VoteGiven, LedAfter, Peers
  <2>2. \A q \in Nodes : role'[q] = "candidate" => role[q] = "candidate" /\ ~(q = n /\ alone)
    BY <1>6
  <2> HIDE DEF alone
  <2> SUFFICES ASSUME NEW q \in Nodes, NEW u \in Nat, NEW x \in Nodes, Bound(q, u, x)',
                      <<q, u>> \notin forgotten
               PROVE  Kept(q, u, x)' /\ \A y \in Nodes : Bound(q, u, y)' => x = y
    BY <1>1 DEF VotesOK, BoundOK
  <2>3. \A y \in Nodes : Bound(q, u, y) => Kept(q, u, y) /\ \A z \in Nodes : Bound(q, u, z) => y = z
    BY DEF VInv, VotesOK, BoundOK
  <2>4. currentTerm[q] \in Nat BY DEF VInv, TypeOK
  <2>5. Kept(q, u, x)' BY <1>1, <1>6, <1>7, <2>1, <2>2, <2>3 DEF Kept
  <2>6. ASSUME NEW y \in Nodes, Bound(q, u, y)' PROVE x = y
    BY <1>7, <2>1, <2>3, <2>4, <2>6 DEF Kept
  <2> QED BY <2>5, <2>6
<1>13. ElectedOK'
  <2> SUFFICES ASSUME NEW t \in Nat, NEW q \in Nodes, <<t, q>> \in elected', Peers(q) # {}
               PROVE  t > 0 /\ \E Q \in SUBSET Nodes : Elects(Q, t - 1, q)'
    BY DEF ElectedOK, Peers
  <2>1. <<t, q>> \in elected BY <1>2
  <2>2. PICK Q \in SUBSET Nodes : Elects(Q, t - 1, q) BY <2>1 DEF VInv, ElectedOK
  <2>3. t > 0 BY <2>1 DEF VInv, ElectedOK
  <2> QED BY <1>6, <2>2, <2>3, ElectsStable
<1>14. LeaderOK' BY <1>2, <1>6 DEF VInv, LeaderOK
<1> QED BY <1>8, <1>9, <1>10, <1>11, <1>12, <1>13, <1>14 DEF VInv

\* After a restart the state knows every vote that was not lost by it.
LEMMA RestartVInv ==
  ASSUME VInv, NEW n \in Nodes, Restart(n) PROVE VInv'
<1>1. /\ role' = [role EXCEPT ![n] = "follower"]
      /\ currentTerm' = [currentTerm EXCEPT ![n] = disk[n].term]
      /\ votedFor' = [votedFor EXCEPT ![n] = disk[n].vote]
      /\ log' = [log EXCEPT ![n] = diskLog[n]]
      /\ leaderId' = [leaderId EXCEPT ![n] = None]
      /\ jobs' = [jobs EXCEPT ![n] = {}]
      /\ forgotten' = forgotten \cup {<<n, t>> : t \in Lost(n, disk[n])}
      /\ UNCHANGED <<disk, diskLog, msgs, elected>>
      /\ events' = events + 1
  BY DEF Restart, storage, Event, Events
<1>2. TypeOK'
  <2>1. currentTerm' \in [Nodes -> Nat] /\ votedFor' \in [Nodes -> Voter] BY <1>1 DEF VInv, TypeOK
  <2>2. log' \in [Nodes -> Seq(Entry)] /\ leaderId' \in [Nodes -> Voter]
    BY <1>1 DEF VInv, TypeOK, Voter
  <2>3. role' \in [Nodes -> {"follower", "candidate", "leader"}] /\ events' \in Nat
    BY <1>1 DEF VInv, TypeOK
  <2>4. jobs' = [q \in Nodes |-> jobs'[q]] BY <1>1 DEF VInv, TypeOK
  <2>5. /\ diskLog' \in [Nodes -> Seq(Entry)] /\ elected' \subseteq Nat \X Nodes
        /\ disk' = [q \in Nodes |-> disk'[q]]
        /\ \A q \in Nodes : disk'[q].term \in Nat /\ disk'[q].vote \in Voter
    BY <1>1 DEF VInv, TypeOK
  <2> QED BY <2>1, <2>2, <2>3, <2>4, <2>5, Zenon DEF TypeOK
<1>3. MsgsOK' BY <1>1 DEF VInv, MsgsOK, Peers
<1>4. \A q \in Nodes \ {n} : /\ role'[q] = role[q] /\ currentTerm'[q] = currentTerm[q]
                             /\ votedFor'[q] = votedFor[q] /\ leaderId'[q] = leaderId[q]
                             /\ jobs'[q] = jobs[q]
  BY <1>1 DEF VInv, TypeOK
<1>5. /\ role'[n] = "follower" /\ currentTerm'[n] = disk[n].term /\ votedFor'[n] = disk[n].vote
      /\ leaderId'[n] = None /\ jobs'[n] = {}
  BY <1>1 DEF VInv, TypeOK
<1>6. JobsOK' BY <1>4, <1>5 DEF VInv, JobsOK, JobOK, SendOK, Peers
<1>7. CandidateOK' BY <1>4, <1>5 DEF VInv, CandidateOK, Asking, Peers
<1>8. VotesOK'
  <2>1. \A q \in Nodes : \A u, x : Bound(q, u, x)' => Bound(q, u, x) /\ (q = n => VoteGiven(q, u, x))
    BY <1>1, <1>4, <1>5 DEF Bound, VoteGiven, Promised, LedAfter, Peers
  <2>2. ASSUME NEW q \in Nodes \ {n} PROVE BoundOK(q)'
    BY <1>1, <1>4, <2>1 DEF VInv, VotesOK, BoundOK, Kept
  <2>3. BoundOK(n)'
    <3> SUFFICES ASSUME NEW u \in Nat, NEW x \in Nodes, Bound(n, u, x)', <<n, u>> \notin forgotten'
                 PROVE  Kept(n, u, x)' /\ \A y \in Nodes : Bound(n, u, y)' => x = y
      BY DEF BoundOK
    <3>1. <<n, u>> \notin forgotten /\ u \notin Lost(n, disk[n]) BY <1>1
    <3>2. Kept(n, u, x) /\ \A y \in Nodes : Bound(n, u, y) => x = y
      BY <2>1, <3>1 DEF VInv, VotesOK, BoundOK
    <3>3. currentTerm[n] \in Nat /\ disk[n].term \in Nat BY DEF VInv, TypeOK
    <3>4. u \in 0 .. currentTerm[n] BY <3>2, <3>3 DEF Kept
    <3>5. Remembers(disk[n], u, x) BY <2>1, <3>1, <3>4 DEF Lost
    <3>6. Kept(n, u, x)' BY <1>5, <3>3, <3>5 DEF Kept, Remembers
    <3> QED BY <2>1, <3>2, <3>6
  <2> QED BY <2>2, <2>3 DEF VotesOK
<1>9. ElectedOK' BY <1>1, ElectedStable DEF VInv
<1>10. LeaderOK' BY <1>1, <1>4, <1>5 DEF VInv, LeaderOK
<1> QED BY <1>2, <1>3, <1>6, <1>7, <1>8, <1>9, <1>10 DEF VInv

-----------------------------------------------------------------------------
(* Elections                                                               *)

LEMMA InitVInv == Init => VInv
<1> SUFFICES ASSUME Init PROVE VInv
  OBVIOUS
<1> USE DEF Init
<1>1. TypeOK
  <2>1. <<>> \in Seq(Entry) OBVIOUS
  <2>2. log \in [Nodes -> Seq(Entry)] /\ diskLog \in [Nodes -> Seq(Entry)] BY <2>1
  <2>3. \A n \in Nodes : disk[n].term \in Nat /\ disk[n].vote \in Voter BY DEF Voter
  <2>4. role \in [Nodes -> {"follower", "candidate", "leader"}] OBVIOUS
  <2>5. currentTerm \in [Nodes -> Nat] OBVIOUS
  <2>6. elected \subseteq Nat \X Nodes /\ events \in Nat OBVIOUS
  <2>7. votedFor \in [Nodes -> Voter] /\ leaderId \in [Nodes -> Voter] BY DEF Voter
  <2>8. disk = [n \in Nodes |-> disk[n]] OBVIOUS
  <2>9. jobs = [n \in Nodes |-> jobs[n]] OBVIOUS
  <2> QED BY <2>2, <2>3, <2>4, <2>5, <2>6, <2>7, <2>8, <2>9, Zenon DEF TypeOK
<1>2. MsgsOK /\ JobsOK BY DEF MsgsOK, JobsOK
<1>3. CandidateOK BY DEF CandidateOK, Asking
<1>4. VotesOK BY DEF VotesOK, BoundOK, Bound, VoteGiven, Promised
<1>5. ElectedOK /\ LeaderOK BY DEF ElectedOK, LeaderOK
<1> QED BY <1>1, <1>2, <1>3, <1>4, <1>5 DEF VInv

LEMMA StepVInv == VInv /\ [Next]_vars => VInv'
<1> SUFFICES ASSUME VInv, [Next]_vars PROVE VInv'
  OBVIOUS
<1>1. CASE UNCHANGED vars
  <2>1. UNCHANGED <<role, currentTerm, votedFor, leaderId, disk, elected, log, diskLog, jobs, msgs,
                    forgotten, events>>
    BY <1>1 DEF vars, state, storage, history
  <2>2. TypeOK' BY <2>1 DEF VInv, TypeOK
  <2>3. MsgsOK' /\ JobsOK' BY <2>1 DEF VInv, MsgsOK, JobsOK, JobOK, SendOK, Peers
  <2> QED BY <2>1, <2>2, <2>3, QuietOK
<1>2. CASE Next
  <2>1. PICK n \in Nodes : Step(n) BY <1>2 DEF Next
  <2>2. CASE \E m \in msgs : Handle(n, m)
    BY <2>2, VoteVInv, AppendEntriesVInv, InstallVInv, MatchVInv DEF Handle
  <2>3. CASE \E j \in jobs[n] : Continue(n, j)
    BY <2>3, AppendVInv, StoreVInv, StoreFailsVInv, CommitVInv, SaveVInv DEF Continue
  <2> QED BY <2>1, <2>2, <2>3, ElectionVInv, ForceVInv, HeartbeatVInv, EntriesVInv,
             SnapshotVInv, ProposeVInv, RestartVInv DEF Step
<1> QED BY <1>1, <1>2

\* What the properties say about votes and leaders follows from the invariant.
LEMMA VInvVotes == VInv => VotesOnce
<1> SUFFICES ASSUME VInv, NEW a \in msgs, NEW b \in msgs, a.type = "voted", b.type = "voted",
                    a.from = b.from, a.term = b.term, <<a.from, a.term>> \notin forgotten
             PROVE  a.to = b.to
  BY DEF VotesOnce
<1>1. a.from \in Nodes /\ a.term \in Nat /\ a.to \in Nodes /\ b.to \in Nodes
  BY DEF VInv, MsgsOK, Peers
<1>2. Bound(a.from, a.term, a.to) /\ Bound(a.from, a.term, b.to) BY DEF Bound, VoteGiven
<1> QED BY <1>1, <1>2 DEF VInv, VotesOK, BoundOK

LEMMA VInvLeaders == VInv => OneLeaderPerTerm
<1> SUFFICES ASSUME VInv PROVE OneLeaderPerTerm
  OBVIOUS
<1>1. ASSUME NEW a \in elected, NEW b \in elected, a[1] = b[1]
      PROVE  a[2] = b[2] \/ Doubtful(a[1])
  <2>1. a = <<a[1], a[2]>> /\ b = <<a[1], b[2]>> BY <1>1 DEF VInv, TypeOK
  <2> QED BY <2>1, OneElected DEF VInv
<1> QED BY <1>1 DEF OneLeaderPerTerm, VInv, LeaderOK

\* However its calls overlap, and whichever saves fail or land late, a node
\* answers yes to one candidate per term, unless a restart loses the vote.
THEOREM VotesOnceHolds == Spec => []VotesOnce
<1>1. Init => VInv BY InitVInv
<1>2. VInv /\ [Next]_vars => VInv' BY StepVInv
<1>3. VInv => VotesOnce BY VInvVotes
<1> QED BY <1>1, <1>2, <1>3, PTL DEF Spec

\* No two nodes lead one term unless a restart has lost a vote for it, and a
\* node redirects to one that has led it.
THEOREM OneLeaderPerTermHolds == Spec => []OneLeaderPerTerm
<1>1. Init => VInv BY InitVInv
<1>2. VInv /\ [Next]_vars => VInv' BY StepVInv
<1>3. VInv => OneLeaderPerTerm BY VInvLeaders
<1> QED BY <1>1, <1>2, <1>3, PTL DEF Spec

-----------------------------------------------------------------------------
(* Entries                                                                 *)

LEMMA HeldParts ==
  /\ \A n \in Nodes : Range(log[n]) \subseteq Held /\ Range(diskLog[n]) \subseteq Held
  /\ \A n \in Nodes : \A j \in jobs[n] : j.step = "store" => j.entry \in Held
  /\ \A m \in msgs : m.type = "append" => Range(m.entries) \subseteq Held
<1>1. \A n \in Nodes : Range(log[n]) \subseteq Held /\ Range(diskLog[n]) \subseteq Held BY DEF Held
<1>2. \A n \in Nodes : \A j \in jobs[n] : j.step = "store" => j.entry \in Held BY DEF Held
<1>3. \A m \in msgs : m.type = "append" => Range(m.entries) \subseteq Held BY DEF Held
<1> QED BY <1>1, <1>2, <1>3

\* To bound what is held after a step, bound its parts.
LEMMA HeldWithin ==
  ASSUME NEW R,
         \A n \in Nodes : Range(log'[n]) \subseteq R /\ Range(diskLog'[n]) \subseteq R,
         \A n \in Nodes : \A j \in jobs'[n] : j.step = "store" => j.entry \in R,
         \A m \in msgs' : m.type = "append" => Range(m.entries) \subseteq R
  PROVE  Held' \subseteq R
BY DEF Held

LEMMA HeldTypes == ASSUME VInv PROVE Held \subseteq Entry
<1>1. \A l \in Seq(Entry) : Range(l) \subseteq Entry BY DEF Range
<1>2. \A n \in Nodes : Range(log[n]) \subseteq Entry /\ Range(diskLog[n]) \subseteq Entry
  BY <1>1 DEF VInv, TypeOK
<1>3. \A n \in Nodes : \A j \in jobs[n] : j.step = "store" => j.entry \in Entry
  BY DEF VInv, JobsOK, JobOK
<1>4. \A m \in msgs : m.type = "append" => Range(m.entries) \subseteq Entry
  BY <1>1 DEF VInv, MsgsOK
<1> QED BY <1>2, <1>3, <1>4 DEF Held

\* A term in doubt stays in doubt, and so do two entries that may differ.
LEMMA DoubtStays ==
  ASSUME forgotten \subseteq forgotten', stray \subseteq stray'
  PROVE  /\ \A t : Doubtful(t) => Doubtful(t)'
         /\ \A e, f : MayDiffer(e, f) => MayDiffer(e, f)'
         /\ \A e : Sound(e)' => Sound(e)
<1>1. \A t : Doubtful(t) => Doubtful(t)' BY DEF Doubtful, LedAfter, Peers
<1> QED BY <1>1 DEF MayDiffer, Sound

\* n leads after the step and led the term before it, with the same last entry.
LeadsOn(n) ==
  /\ role[n] = "leader" /\ currentTerm'[n] = currentTerm[n]
  /\ LastLogIndex(log'[n]) = LastLogIndex(log[n])

\* Nothing can be said after the step of any entry of the term of n.
NoneSound(n) == \A e \in Held : e.term = currentTerm'[n] => ~Sound(e)'

\* A step that makes no entry; who leads after it did so before it, or takes up
\* a term of which no entry is sound.
LEMMA NoNewEntries ==
  ASSUME EntriesOK, Held' \subseteq Held, elected \subseteq elected',
         forgotten \subseteq forgotten', stray \subseteq stray',
         \A n \in Nodes : role'[n] = "leader" => LeadsOn(n) \/ NoneSound(n)
  PROVE  EntriesOK'
<1>1. \A e \in Held' : Sound(e)' => \E n \in Nodes : <<e.term, n>> \in elected'
  BY DoubtStays DEF EntriesOK
<1>2. \A e, f \in Held' : e.index = f.index /\ e.term = f.term => e = f \/ MayDiffer(e, f)'
  BY DoubtStays DEF EntriesOK
<1>3. ASSUME NEW n \in Nodes, NEW e \in Held', Sound(e)', role'[n] = "leader", e.term = currentTerm'[n]
      PROVE  e.index <= LastLogIndex(log'[n])
  <2>1. Sound(e) /\ e \in Held BY <1>3, DoubtStays
  <2>2. LeadsOn(n) BY <1>3, <2>1 DEF NoneSound
  <2> QED BY <1>3, <2>1, <2>2 DEF EntriesOK, LeadsOn
<1> QED BY <1>1, <1>2, <1>3 DEF EntriesOK

\* A step that touches no entry.
LEMMA LogsStay ==
  ASSUME EntriesOK, UNCHANGED <<log, diskLog, stray>>, elected \subseteq elected',
         forgotten \subseteq forgotten',
         \A m \in msgs' : m \in msgs \/ m.type # "append",
         \A n \in Nodes : \A j \in jobs'[n] : j \in jobs[n] \/ j.step # "store",
         \A n \in Nodes : role'[n] = "leader" =>
           (role[n] = "leader" /\ currentTerm'[n] = currentTerm[n]) \/ NoneSound(n)
  PROVE  EntriesOK'
<1>0. PICK R : R = Held OBVIOUS
<1>1. Held' \subseteq R BY <1>0, HeldParts, HeldWithin
<1>2. \A n \in Nodes : role'[n] = "leader" => LeadsOn(n) \/ NoneSound(n) BY DEF LeadsOn
<1> QED BY <1>0, <1>1, <1>2, NoNewEntries

LEMMA SendRInv ==
  ASSUME RInv, NEW n \in Nodes, NEW m, NEW cost, Send(n, m, cost),
         m.type = "append" => Range(m.entries) \subseteq Range(log[n])
  PROVE  EntriesOK'
<1>0. PICK R : R = Held OBVIOUS
<1>1. /\ msgs' = msgs \cup {m}
      /\ UNCHANGED <<role, currentTerm, log, diskLog, jobs, elected, forgotten, stray>>
  BY DEF Send, state, storage, history
<1>2. \A q \in Nodes : /\ Range(log'[q]) \subseteq R /\ Range(diskLog'[q]) \subseteq R
                       /\ \A j \in jobs'[q] : j.step = "store" => j.entry \in R
  BY <1>0, <1>1, HeldParts
<1>3. \A k \in msgs' : k.type = "append" => Range(k.entries) \subseteq R
  BY <1>0, <1>1, HeldParts
<1>4. Held' \subseteq R BY <1>2, <1>3, HeldWithin
<1>5. \A q \in Nodes : role'[q] = "leader" => LeadsOn(q) BY <1>1 DEF LeadsOn
<1> QED BY <1>0, <1>1, <1>4, <1>5, NoNewEntries DEF RInv

\* A request holds a part of the log of its sender.
LEMMA RequestPart ==
  ASSUME TypeOK, NEW n \in Nodes, NEW k \in 1 .. Len(log[n]) + 1
  PROVE  Range(AppendRequest(n, k).entries) \subseteq Range(log[n])
<1>1. log[n] \in Seq(Entry) BY DEF TypeOK
<1>2. \A i \in 1 .. Len(SubSeq(log[n], k, Len(log[n]))) :
        SubSeq(log[n], k, Len(log[n]))[i] = log[n][k + i - 1] /\ k + i - 1 \in 1 .. Len(log[n])
  BY <1>1
<1>3. SubSeq(log[n], k, Len(log[n])) \in Seq(Entry) BY <1>1
<1>4. Range(SubSeq(log[n], k, Len(log[n]))) \subseteq Range(log[n]) BY <1>1, <1>2, <1>3 DEF Range
<1> QED BY <1>4, RequestType

LEMMA SendsRInv ==
  ASSUME RInv, NEW n \in Nodes, SendHeartbeat(n) \/ SendEntries(n) \/ SendSnapshot(n)
  PROVE  EntriesOK'
<1>1. log[n] \in Seq(Entry) /\ TypeOK BY DEF RInv, VInv, TypeOK
<1>2. CASE SendHeartbeat(n)
  <2>1. Len(log[n]) + 1 \in 1 .. Len(log[n]) + 1 BY <1>1
  <2> QED BY <1>1, <1>2, <2>1, RequestPart, SendRInv DEF SendHeartbeat
<1>3. CASE SendEntries(n)
  <2>1. PICK k \in DOMAIN log[n] : Send(n, AppendRequest(n, k), 1) BY <1>3 DEF SendEntries
  <2>2. k \in 1 .. Len(log[n]) + 1 BY <1>1
  <2> QED BY <1>1, <2>1, <2>2, RequestPart, SendRInv
<1>4. CASE SendSnapshot(n)
  <2> DEFINE m == [type |-> "snapshot", from |-> n, term |-> currentTerm[n],
                   index |-> commitIndex[n], logTerm |-> LogTermAt(log[n], commitIndex[n])]
  <2>1. Send(n, m, 1) BY <1>4 DEF SendSnapshot
  <2>2. m.type # "append" OBVIOUS
  <2> HIDE DEF m
  <2> QED BY <2>1, <2>2, SendRInv
<1> QED BY <1>2, <1>3, <1>4

-----------------------------------------------------------------------------
(* Steps of the log                                                        *)

\* The entry of a proposal takes the next number of its term, or is a stray.
LEMMA AppendRInv ==
  ASSUME RInv, NEW n \in Nodes, NEW j \in jobs[n], ProposeAppend(n, j) PROVE EntriesOK'
<1>0. PICK e : e = [index |-> LastLogIndex(log[n]) + 1, term |-> currentTerm[n], data |-> j.data]
  OBVIOUS
<1>1. PICK k : k = [step |-> "store", entry |-> e] OBVIOUS
<1>2. /\ j.step = "append" /\ log' = [log EXCEPT ![n] = Append(@, e)]
      /\ stray' = (IF role[n] = "leader" THEN stray ELSE stray \cup {e})
      /\ jobs' = [jobs EXCEPT ![n] = (@ \ {j}) \cup {k}]
      /\ UNCHANGED <<role, currentTerm, diskLog, msgs, elected, forgotten>>
  BY <1>0, <1>1 DEF ProposeAppend, Replace, storage, bounds
<1>3. /\ log[n] \in Seq(Entry) /\ LastLogIndex(log[n]) \in Nat
      /\ j.data \in Nat /\ currentTerm[n] \in Nat
  BY <1>2, LogTypes DEF RInv, VInv, JobsOK, JobOK, TypeOK
<1>4. e \in Entry /\ e.index = LastLogIndex(log[n]) + 1 /\ e.term = currentTerm[n]
  BY <1>0, <1>3 DEF Entry
<1>5. PICK R : R = Held OBVIOUS
<1>6. Held' \subseteq R \cup {e}
  <2>1. ASSUME NEW q \in Nodes
        PROVE  Range(log'[q]) \subseteq R \cup {e} /\ Range(diskLog'[q]) \subseteq R \cup {e}
    <3>1. Range(log[q]) \subseteq R \cup {e} /\ Range(diskLog[q]) \subseteq R \cup {e}
      BY <1>5, HeldParts
    <3>2. log[n] \in Seq(Entry) BY <1>3
    <3>3. q = n => Append(log[n], e) \in Logs(R \cup {e})
      BY <1>4, <3>1, <3>2, AppendIn DEF Logs
    <3>4. log'[q] = IF q = n THEN Append(log[n], e) ELSE log[q]
      BY <1>2 DEF RInv, VInv, TypeOK
    <3> QED BY <1>2, <3>1, <3>3, <3>4 DEF Logs
  <2>2. \A q \in Nodes : \A i \in jobs'[q] : i.step = "store" => i.entry \in R \cup {e}
    BY <1>1, <1>2, <1>5, HeldParts DEF RInv, VInv, TypeOK
  <2>3. \A m \in msgs' : m.type = "append" => Range(m.entries) \subseteq R \cup {e}
    BY <1>2, <1>5, HeldParts
  <2> QED BY <2>1, <2>2, <2>3, HeldWithin
<1>7. LastLogIndex(log'[n]) = e.index
  <2>1. log'[n] = Append(log[n], e) BY <1>2 DEF RInv, VInv, TypeOK
  <2>2. Len(Append(log[n], e)) = Len(log[n]) + 1 /\ Append(log[n], e)[Len(log[n]) + 1] = e
    BY <1>3, <1>4
  <2>3. Len(log[n]) + 1 # 0 /\ Len(<<>>) = 0 BY <1>3
  <2>4. Append(log[n], e) # <<>> BY <2>2, <2>3
  <2> QED BY <2>1, <2>2, <2>4 DEF LastLogIndex
<1>8. \A f \in Held :
        /\ f.index \in Nat
        /\ role[n] = "leader" /\ Sound(f) /\ f.term = e.term => f.index < e.index
  <2>1. Held \subseteq Entry BY HeldTypes DEF RInv
  <2>2. \A f \in Held : role[n] = "leader" /\ Sound(f) /\ f.term = e.term =>
          f.index <= LastLogIndex(log[n])
    BY <1>4 DEF RInv, EntriesOK
  <2> QED BY <1>3, <1>4, <2>1, <2>2 DEF Entry
<1>9. /\ \A f : Sound(f)' => Sound(f)
      /\ \A f, g : MayDiffer(f, g) => MayDiffer(f, g)'
      /\ Sound(e)' => role[n] = "leader"
      /\ \A f : role[n] # "leader" => MayDiffer(e, f)' /\ MayDiffer(f, e)'
  <2>1. stray \subseteq stray' /\ (role[n] # "leader" => e \in stray') BY <1>2
  <2> QED BY <1>2, <2>1, DoubtStays DEF Sound, MayDiffer
<1>10. \A f \in Held' : Sound(f)' => \E p \in Nodes : <<f.term, p>> \in elected'
  <2>1. role[n] = "leader" => <<e.term, n>> \in elected' BY <1>2, <1>4 DEF RInv, VInv, LeaderOK
  <2> QED BY <1>2, <1>5, <1>6, <1>9, <2>1 DEF RInv, EntriesOK
<1>11. ASSUME NEW f \in Held', NEW g \in Held', f.index = g.index, f.term = g.term
       PROVE  f = g \/ MayDiffer(f, g)'
  <2>1. e.index \in Nat BY <1>4 DEF Entry
  <2>2. CASE f \in Held /\ g \in Held BY <1>9, <1>11, <2>2 DEF RInv, EntriesOK
  <2>3. CASE f = e /\ g \in Held
    <3>1. role[n] = "leader" => ~Sound(g) BY <1>8, <1>11, <2>1, <2>3
    <3>2. ~Sound(g) => MayDiffer(f, g) BY <1>11 DEF Sound, MayDiffer
    <3> QED BY <1>9, <2>3, <3>1, <3>2
  <2>4. CASE g = e /\ f \in Held
    <3>1. role[n] = "leader" => ~Sound(f) BY <1>8, <1>11, <2>1, <2>4
    <3>2. ~Sound(f) => MayDiffer(f, g) BY DEF Sound, MayDiffer
    <3> QED BY <1>9, <2>4, <3>1, <3>2
  <2> QED BY <1>5, <1>6, <2>2, <2>3, <2>4
<1>12. ASSUME NEW p \in Nodes, NEW f \in Held', Sound(f)', role'[p] = "leader", f.term = currentTerm'[p]
       PROVE  f.index <= LastLogIndex(log'[p])
  <2>1. role[p] = "leader" /\ f.term = currentTerm[p] /\ Sound(f) BY <1>2, <1>9, <1>12
  <2>2. CASE p = n BY <1>4, <1>5, <1>6, <1>7, <1>8, <2>1, <2>2 DEF Entry
  <2>3. CASE p # n
    <3>1. log'[p] = log[p] BY <1>2, <2>3 DEF RInv, VInv, TypeOK
    <3>2. CASE f \in Held BY <2>1, <3>1, <3>2 DEF RInv, EntriesOK
    <3>3. CASE f = e
      <4>1. role[n] = "leader" BY <1>9, <1>12, <3>3
      <4>2. <<f.term, n>> \in elected /\ <<f.term, p>> \in elected
        BY <1>4, <2>1, <3>3, <4>1 DEF RInv, VInv, LeaderOK
      <4> QED BY <2>1, <2>3, <4>2, OneElected DEF RInv, VInv, Sound
    <3> QED BY <1>5, <1>6, <3>2, <3>3
  <2> QED BY <2>2, <2>3
<1> QED BY <1>10, <1>11, <1>12 DEF EntriesOK

LEMMA StoreRInv ==
  ASSUME RInv, NEW n \in Nodes, NEW j \in jobs[n], ProposeStore(n, j) PROVE EntriesOK'
<1>0. PICK R : R = Held OBVIOUS
<1>1. PICK k : k = [step |-> "commit", index |-> j.entry.index] OBVIOUS
<1>2. /\ j.step = "store" /\ diskLog' = [diskLog EXCEPT ![n] = StoreEntry(@, j.entry)]
      /\ jobs' = [jobs EXCEPT ![n] = (@ \ {j}) \cup {k}]
      /\ UNCHANGED <<role, currentTerm, log, msgs, elected, forgotten, stray>>
  BY <1>1 DEF ProposeStore, Replace, state, bounds, history
<1>3. ASSUME NEW q \in Nodes
      PROVE  Range(log'[q]) \subseteq R /\ Range(diskLog'[q]) \subseteq R
  <2>1. Range(log[q]) \subseteq R /\ Range(diskLog[q]) \subseteq R /\ j.entry \in R
    BY <1>0, <1>2, HeldParts
  <2>2. diskLog[q] \in Logs(R) /\ j.entry \in Entry
    BY <1>2, <2>1 DEF Logs, RInv, VInv, TypeOK, JobsOK, JobOK
  <2>3. StoreEntry(diskLog[q], j.entry) \in Logs(R) BY <2>1, <2>2, StoreIn
  <2>4. diskLog'[q] = IF q = n THEN StoreEntry(diskLog[q], j.entry) ELSE diskLog[q]
    BY <1>2 DEF RInv, VInv, TypeOK
  <2> QED BY <1>2, <2>1, <2>3, <2>4 DEF Logs
<1>4. \A q \in Nodes : \A i \in jobs'[q] : i.step = "store" => i.entry \in R
  BY <1>0, <1>1, <1>2, HeldParts DEF RInv, VInv, TypeOK
<1>5. \A m \in msgs' : m.type = "append" => Range(m.entries) \subseteq R
  BY <1>0, <1>2, HeldParts
<1>6. Held' \subseteq R BY <1>3, <1>4, <1>5, HeldWithin
<1>7. \A q \in Nodes : role'[q] = "leader" => LeadsOn(q) BY <1>2 DEF LeadsOn
<1> QED BY <1>0, <1>2, <1>6, <1>7, NoNewEntries DEF RInv

\* Whoever takes over the entries of a leader, or drops those of a snapshot,
\* does not lead, or leads a term in doubt: a leader hears of no other in its
\* term.
Takes(n, m, reset, k, l) ==
  /\ m.type \in {"append", "snapshot"} /\ m.from # n /\ m.term >= currentTerm[n]
  /\ reset \in BOOLEAN /\ HearLeader(n, m, reset) /\ (m.term > currentTerm[n] => reset)
  /\ k.step = "save" /\ jobs' = [jobs EXCEPT ![n] = @ \cup {k}]
  /\ log' = [log EXCEPT ![n] = l] /\ Range(l) \subseteq Held
  /\ UNCHANGED <<diskLog, msgs, elected, forgotten, stray>>

LEMMA HearRInv ==
  ASSUME RInv, NEW n \in Nodes, NEW m \in msgs, NEW reset, NEW k, NEW l, Takes(n, m, reset, k, l)
  PROVE  EntriesOK'
<1> USE DEF Takes
<1>0. PICK R : R = Held OBVIOUS
<1>1. /\ <<m.term, m.from>> \in elected /\ m.from \in Nodes /\ m.term \in Nat
      /\ currentTerm[n] \in Nat
  BY DEF RInv, VInv, MsgsOK, TypeOK
<1>2. \A q \in Nodes \ {n} : /\ role'[q] = role[q] /\ currentTerm'[q] = currentTerm[q]
                             /\ log'[q] = log[q] /\ jobs'[q] = jobs[q]
  BY DEF HearLeader, BecomeFollower, RInv, VInv, TypeOK
<1>3. log'[n] = l /\ jobs'[n] = jobs[n] \cup {k} BY DEF RInv, VInv, TypeOK
<1>4. role'[n] = "leader" => NoneSound(n)
  <2>1. CASE reset
    <3>1. role'[n] = "follower" BY <2>1 DEF HearLeader, BecomeFollower, RInv, VInv, TypeOK
    <3> QED BY <3>1
  <2>2. CASE ~reset
    <3>1. m.term = currentTerm[n] /\ role' = role /\ currentTerm' = currentTerm
      BY <1>1, <2>2 DEF HearLeader
    <3>2. role[n] = "leader" => <<m.term, n>> \in elected BY <3>1 DEF RInv, VInv, LeaderOK
    <3>3. role[n] = "leader" => Doubtful(m.term) BY <1>1, <3>2, OneElected DEF RInv, VInv
    <3>4. Doubtful(m.term) => Doubtful(m.term)' BY DoubtStays
    <3> QED BY <3>1, <3>3, <3>4 DEF NoneSound, Sound
  <2> QED BY <2>1, <2>2
<1>5. \A q \in Nodes : /\ Range(log'[q]) \subseteq R /\ Range(diskLog'[q]) \subseteq R
                       /\ \A i \in jobs'[q] : i.step = "store" => i.entry \in R
  BY <1>0, <1>2, <1>3, HeldParts
<1>6. \A i \in msgs' : i.type = "append" => Range(i.entries) \subseteq R BY <1>0, HeldParts
<1>7. Held' \subseteq R BY <1>5, <1>6, HeldWithin
<1>8. \A q \in Nodes : role'[q] = "leader" => LeadsOn(q) \/ NoneSound(q)
  BY <1>2, <1>4 DEF LeadsOn
<1> QED BY <1>0, <1>7, <1>8, NoNewEntries DEF RInv

LEMMA AppendEntriesRInv ==
  ASSUME RInv, NEW n \in Nodes, NEW m \in msgs, HandleAppendEntries(n, m) PROVE EntriesOK'
<1> DEFINE reset == m.term > currentTerm[n] \/ role[n] = "candidate"
           ok == m.prev > 0 => LogTermAt(log[n], m.prev) = m.prevTerm
           merged == IF ok THEN Merge(log[n], m.entries) ELSE log[n]
           answers == IF ok THEN {[type |-> "appended", from |-> n, to |-> m.from,
                                   term |-> m.term, match |-> m.prev + Len(m.entries)]}
                            ELSE {}
<1>1. PICK k : k = SaveJob(n, NoSnapshot, answers) OBVIOUS
<1>2. /\ m.type = "append" /\ m.from # n /\ m.term >= currentTerm[n]
      /\ HearLeader(n, m, reset)
      /\ log' = [log EXCEPT ![n] = merged]
      /\ jobs' = [jobs EXCEPT ![n] = @ \cup {k}]
      /\ UNCHANGED <<diskLog, msgs, elected, forgotten, stray>>
  BY <1>1 DEF HandleAppendEntries, SaveThen, Spawn, storage, bounds, history
<1>3. k.step = "save" BY <1>1 DEF SaveJob
<1>4. Range(merged) \subseteq Held
  <2>0. PICK R : R = Held OBVIOUS
  <2>1. log[n] \in Logs(R) BY <2>0, HeldParts DEF Logs, RInv, VInv, TypeOK
  <2>2. m.entries \in Seq(Entry) /\ Range(m.entries) \subseteq R
    BY <1>2, <2>0, HeldParts DEF RInv, VInv, MsgsOK
  <2>3. merged \in Logs(R) BY <2>1, <2>2, MergeIn
  <2> HIDE DEF merged
  <2> QED BY <2>0, <2>3 DEF Logs
<1>5. reset \in BOOLEAN /\ (m.term > currentTerm[n] => reset) OBVIOUS
<1> HIDE DEF reset, ok, merged, answers
<1>6. Takes(n, m, reset, k, merged) BY <1>2, <1>3, <1>4, <1>5 DEF Takes
<1> QED BY <1>6, HearRInv

LEMMA InstallRInv ==
  ASSUME RInv, NEW n \in Nodes, NEW m \in msgs, HandleInstallSnapshot(n, m) PROVE EntriesOK'
<1> DEFINE reset == m.term > currentTerm[n]
           above == Above(log[n], m.index)
<1>1. PICK k : k = SaveJob(n, [index |-> m.index, term |-> m.logTerm], {}) OBVIOUS
<1>2. /\ m.type = "snapshot" /\ m.from # n /\ m.term >= currentTerm[n]
      /\ HearLeader(n, m, reset)
      /\ log' = [log EXCEPT ![n] = above]
      /\ jobs' = [jobs EXCEPT ![n] = @ \cup {k}]
      /\ UNCHANGED <<diskLog, msgs, elected, forgotten, stray>>
  BY <1>1 DEF HandleInstallSnapshot, Spawn, storage, bounds, history
<1>3. k.step = "save" BY <1>1 DEF SaveJob
<1>4. Range(above) \subseteq Held
  <2>0. PICK R : R = Held OBVIOUS
  <2>1. log[n] \in Logs(R) BY <2>0, HeldParts DEF Logs, RInv, VInv, TypeOK
  <2>2. above \in Logs(R) BY <2>1, RetainIn DEF Above
  <2> HIDE DEF above
  <2> QED BY <2>0, <2>2 DEF Logs
<1>5. reset \in BOOLEAN /\ (m.term > currentTerm[n] => reset) OBVIOUS
<1> HIDE DEF reset, above
<1>6. Takes(n, m, reset, k, above) BY <1>2, <1>3, <1>4, <1>5 DEF Takes
<1> QED BY <1>6, HearRInv

-----------------------------------------------------------------------------
(* Steps that make no entry                                                *)

LEMMA VoteRInv ==
  ASSUME RInv, NEW n \in Nodes, NEW m \in msgs, HandleRequestVote(n, m) PROVE EntriesOK'
<1>1. PICK a : a = [type |-> "voted", from |-> n, to |-> m.from, term |-> m.term] OBVIOUS
<1>2. PICK k : k = SaveJob(n, NoSnapshot, {a}) OBVIOUS
<1>3. PICK r : r = IF m.term > currentTerm[n] THEN "follower" ELSE role[n] OBVIOUS
<1>4. /\ role' = [role EXCEPT ![n] = r] /\ currentTerm' = [currentTerm EXCEPT ![n] = m.term]
      /\ UNCHANGED <<log, diskLog, msgs, elected, forgotten, stray>>
      /\ m.term >= currentTerm[n]
      /\ jobs' = [jobs EXCEPT ![n] = @ \cup {k}] \/ jobs' = jobs
  BY <1>1, <1>2, <1>3 DEF HandleRequestVote, SaveThen, Spawn, storage, history
<1>5. k.step = "save" BY <1>2 DEF SaveJob
<1>6. m.term \in Nat /\ currentTerm[n] \in Nat BY DEF RInv, VInv, MsgsOK, TypeOK
<1>7. \A q \in Nodes : \A j \in jobs'[q] : j \in jobs[q] \/ j.step # "store"
  BY <1>4, <1>5 DEF RInv, VInv, TypeOK
<1>8. \A q \in Nodes : role'[q] = "leader" => role[q] = "leader" /\ currentTerm'[q] = currentTerm[q]
  BY <1>3, <1>4, <1>6 DEF RInv, VInv, TypeOK
<1> QED BY <1>4, <1>7, <1>8, LogsStay DEF RInv

LEMMA QuietRInv ==
  ASSUME RInv, NEW n \in Nodes,
         \/ Propose(n)
         \/ \E m \in msgs : UpdateMatchIndex(n, m)
         \/ \E j \in jobs[n] : ProposeCommit(n, j) \/ ProposeStoreFails(n, j)
  PROVE  EntriesOK'
<1>1. PICK k : k = SaveJob(n, NoSnapshot, {}) OBVIOUS
<1>2. k.step = "save" BY <1>1 DEF SaveJob
<1>3. UNCHANGED <<role, currentTerm, log, diskLog, msgs, elected, forgotten, stray>>
  BY DEF Propose, UpdateMatchIndex, ProposeCommit, ProposeStoreFails, state, storage, history
<1>4. \A q \in Nodes : \A j \in jobs'[q] : j \in jobs[q] \/ j.step # "store"
  <2>1. CASE Propose(n)
    <3>1. jobs' = [jobs EXCEPT ![n] = @ \cup {[step |-> "append", data |-> events']}]
      BY <2>1 DEF Propose, Spawn
    <3> QED BY <3>1 DEF RInv, VInv, TypeOK
  <2>2. CASE \E m \in msgs : UpdateMatchIndex(n, m)
    <3>1. jobs' = [jobs EXCEPT ![n] = @ \cup {k}] \/ jobs' = jobs
      BY <1>1, <2>2 DEF UpdateMatchIndex, SaveThen, Spawn
    <3> QED BY <1>2, <3>1 DEF RInv, VInv, TypeOK
  <2>3. CASE \E j \in jobs[n] : ProposeCommit(n, j) \/ ProposeStoreFails(n, j)
    <3>1. PICK j \in jobs[n] : ProposeCommit(n, j) \/ ProposeStoreFails(n, j) BY <2>3
    <3>2. \/ jobs' = [jobs EXCEPT ![n] = (@ \ {j}) \cup {k}]
          \/ jobs' = [jobs EXCEPT ![n] = (@ \ {j}) \cup {}]
      BY <1>1, <3>1 DEF ProposeCommit, ProposeStoreFails, Replace
    <3>3. jobs'[n] \subseteq jobs[n] \cup {k} /\ \A q \in Nodes \ {n} : jobs'[q] = jobs[q]
      BY <3>2 DEF RInv, VInv, TypeOK
    <3> QED BY <1>2, <3>3
  <2> QED BY <2>1, <2>2, <2>3
<1> QED BY <1>3, <1>4, LogsStay DEF RInv

LEMMA ElectionRInv ==
  ASSUME RInv, NEW n \in Nodes, StartElection(n) PROVE EntriesOK'
<1>1. PICK m : m = [type |-> "vote", from |-> n, term |-> currentTerm'[n],
                    index |-> LastLogIndex(log[n]), logTerm |-> LastLogTerm(log[n])]
  OBVIOUS
<1>2. PICK k : k = SaveJob(n, NoSnapshot, {m}) OBVIOUS
<1>3. /\ role' = [role EXCEPT ![n] = "candidate"]
      /\ currentTerm' = [currentTerm EXCEPT ![n] = currentTerm[n] + 1]
      /\ jobs' = [jobs EXCEPT ![n] = @ \cup {k}]
      /\ UNCHANGED <<log, diskLog, msgs, elected, forgotten, stray>>
  BY <1>1, <1>2 DEF StartElection, SaveThen, Spawn, storage, history
<1>4. k.step = "save" BY <1>2 DEF SaveJob
<1>5. \A q \in Nodes : \A j \in jobs'[q] : j \in jobs[q] \/ j.step # "store"
  BY <1>3, <1>4 DEF RInv, VInv, TypeOK
<1>6. \A q \in Nodes : role'[q] = "leader" => role[q] = "leader" /\ currentTerm'[q] = currentTerm[q]
  BY <1>3 DEF RInv, VInv, TypeOK
<1> QED BY <1>3, <1>5, <1>6, LogsStay DEF RInv

\* A term a node would lead after a vote it has not given is in doubt.
LEMMA WonBefore ==
  ASSUME VInv, NEW n \in Nodes, NEW u \in Nat, <<LedAfter(n, u), n>> \in elected, ~Kept(n, u, n)
  PROVE  Doubtful(LedAfter(n, u))
<1>1. Bound(n, u, n) BY DEF Bound, VoteGiven
<1>2. <<n, u>> \in forgotten BY <1>1 DEF VInv, VotesOK, BoundOK
<1>3. <<n, u>>[1] = n /\ <<n, u>>[2] = u OBVIOUS
<1> QED BY <1>2, <1>3 DEF Doubtful

\* The term that force_become_leader leads is one more than that of the votes:
\* had a sound entry of it been made, another node would have won the same votes.
LEMMA ForceRInv ==
  ASSUME RInv, NEW n \in Nodes, ForceBecomeLeader(n) PROVE EntriesOK'
<1>0. PICK T : T = currentTerm[n] OBVIOUS
<1>1. /\ role[n] = "candidate"
      /\ role' = [role EXCEPT ![n] = "leader"]
      /\ currentTerm' = [currentTerm EXCEPT ![n] = T + 1]
      /\ elected' = elected \cup {<<T + 1, n>>}
      /\ UNCHANGED <<log, diskLog, jobs, msgs, forgotten, stray>>
  BY <1>0 DEF ForceBecomeLeader, BecomeLeader, storage, history
<1>2. T \in Nat BY <1>0 DEF RInv, VInv, TypeOK
<1>3. currentTerm'[n] = T + 1 BY <1>1 DEF RInv, VInv, TypeOK
<1>4. NoneSound(n)
  <2> SUFFICES ASSUME NEW e \in Held, e.term = T + 1, Sound(e)' PROVE FALSE
    BY <1>3 DEF NoneSound
  <2>1. Sound(e) /\ ~Doubtful(T + 1) BY <1>1, DoubtStays DEF Sound
  <2>2. ~Doubtful(T + 1)' BY DEF Sound
  <2>3. PICK p \in Nodes : <<T + 1, p>> \in elected BY <2>1 DEF RInv, EntriesOK
  <2>4. OneLeaderPerTerm'
    <3>1. VInv' BY ForceVInv DEF RInv
    <3>2. VInv' => OneLeaderPerTerm' BY VInvLeaders, PTL
    <3> QED BY <3>1, <3>2
  <2>5. p = n
    <3>1. <<T + 1, p>> \in elected' /\ <<T + 1, n>> \in elected' BY <1>1, <2>3
    <3>2. \A a, b \in elected' : a[1] = b[1] => a[2] = b[2] \/ Doubtful(a[1])'
      BY <2>4 DEF OneLeaderPerTerm
    <3>3. <<T + 1, p>>[1] = <<T + 1, n>>[1] =>
            <<T + 1, p>>[2] = <<T + 1, n>>[2] \/ Doubtful(<<T + 1, p>>[1])'
      BY <3>1, <3>2
    <3>4. <<T + 1, p>>[1] = T + 1 OBVIOUS
    <3> QED BY <2>2, <3>3, <3>4
  <2>6. PICK u \in Nat : LedAfter(n, u) = T + 1 /\ u \in {T, T + 1}
    <3>1. T + 1 \in Nat BY <1>2
    <3> QED BY <1>2, <3>1 DEF LedAfter
  <2>7. ~Kept(n, u, n) BY <1>0, <1>1, <1>2, <2>6 DEF Kept
  <2> QED BY <2>1, <2>3, <2>5, <2>6, <2>7, WonBefore DEF RInv
<1>5. \A q \in Nodes : role'[q] = "leader" =>
        (role[q] = "leader" /\ currentTerm'[q] = currentTerm[q]) \/ NoneSound(q)
  BY <1>1, <1>4 DEF RInv, VInv, TypeOK
<1> QED BY <1>1, <1>5, LogsStay DEF RInv

\* A node without peers that saves its vote leads the term it has taken up.
LEMMA SaveRInv ==
  ASSUME RInv, NEW n \in Nodes, NEW j \in jobs[n], Save(n, j) PROVE EntriesOK'
<1>1. /\ j.step = "save" /\ msgs' = msgs \cup j.send
      /\ jobs' = [jobs EXCEPT ![n] = (@ \ {j}) \cup {}]
      /\ UNCHANGED <<log, diskLog, forgotten, stray>>
  BY DEF Save, Replace, history
<1>2. \/ UNCHANGED <<role, currentTerm, elected>>
      \/ /\ Peers(n) = {} /\ \E m \in j.send : m.type = "vote"
         /\ role' = [role EXCEPT ![n] = "leader"]
         /\ currentTerm' = [currentTerm EXCEPT ![n] = currentTerm[n]]
         /\ elected' = elected \cup {<<currentTerm[n], n>>}
  BY DEF Save, BecomeLeader
<1>3. \A m \in j.send : SendOK(n, m) BY <1>1 DEF RInv, VInv, JobsOK, JobOK
<1>4. \A m \in msgs' : m \in msgs \/ m.type # "append" BY <1>1, <1>3 DEF SendOK
<1>5. \A q \in Nodes : \A i \in jobs'[q] : i \in jobs[q] BY <1>1 DEF RInv, VInv, TypeOK
<1>6. currentTerm' = currentTerm BY <1>2 DEF RInv, VInv, TypeOK
<1>7. ASSUME NEW q \in Nodes, role'[q] = "leader", role[q] # "leader" PROVE NoneSound(q)
  <2>1. q = n /\ Peers(n) = {} /\ Asking(n)
    BY <1>1, <1>2, <1>7 DEF RInv, VInv, TypeOK, Asking
  <2>2. role[n] = "candidate" BY <1>7, <2>1 DEF RInv, VInv, CandidateOK, TypeOK
  <2> SUFFICES ASSUME NEW e \in Held, e.term = currentTerm[n], Sound(e)' PROVE FALSE
    BY <1>6, <2>1 DEF NoneSound
  <2>3. Sound(e) BY <1>1, DoubtStays
  <2>4. PICK p \in Nodes : <<e.term, p>> \in elected BY <2>3 DEF RInv, EntriesOK
  <2>5. p = n BY <2>1 DEF Peers
  <2>6. LedAfter(n, e.term) = e.term BY <2>1 DEF LedAfter
  <2>7. e.term \in Nat /\ ~Kept(n, e.term, n) BY <2>2 DEF Kept, RInv, VInv, TypeOK
  <2>8. Doubtful(LedAfter(n, e.term)) BY <2>4, <2>5, <2>6, <2>7, WonBefore DEF RInv
  <2> QED BY <2>3, <2>6, <2>8 DEF Sound
<1>8. \A q \in Nodes : role'[q] = "leader" =>
        (role[q] = "leader" /\ currentTerm'[q] = currentTerm[q]) \/ NoneSound(q)
  BY <1>6, <1>7
<1>9. elected \subseteq elected' BY <1>2
<1> QED BY <1>1, <1>4, <1>5, <1>8, <1>9, LogsStay DEF RInv

LEMMA RestartRInv ==
  ASSUME RInv, NEW n \in Nodes, Restart(n) PROVE EntriesOK'
<1>0. PICK R : R = Held OBVIOUS
<1>1. /\ role' = [role EXCEPT ![n] = "follower"]
      /\ currentTerm' = [currentTerm EXCEPT ![n] = disk[n].term]
      /\ log' = [log EXCEPT ![n] = diskLog[n]]
      /\ jobs' = [jobs EXCEPT ![n] = {}]
      /\ forgotten \subseteq forgotten'
      /\ UNCHANGED <<diskLog, msgs, elected, stray>>
  BY DEF Restart, storage
<1>2. \A q \in Nodes : /\ Range(log'[q]) \subseteq R /\ Range(diskLog'[q]) \subseteq R
                       /\ \A j \in jobs'[q] : j.step = "store" => j.entry \in R
  BY <1>0, <1>1, HeldParts DEF RInv, VInv, TypeOK
<1>3. \A m \in msgs' : m.type = "append" => Range(m.entries) \subseteq R
  BY <1>0, <1>1, HeldParts
<1>4. Held' \subseteq R BY <1>2, <1>3, HeldWithin
<1>5. \A q \in Nodes : role'[q] = "leader" => LeadsOn(q)
  BY <1>1 DEF RInv, VInv, TypeOK, LeadsOn
<1> QED BY <1>0, <1>1, <1>4, <1>5, NoNewEntries DEF RInv

-----------------------------------------------------------------------------
(* Log matching                                                            *)

LEMMA InitRInv == Init => RInv
<1> SUFFICES ASSUME Init PROVE RInv
  OBVIOUS
<1>1. \A n \in Nodes : /\ Range(log[n]) \subseteq {} /\ Range(diskLog[n]) \subseteq {}
                       /\ jobs[n] = {}
  BY DEF Init, Range
<1>2. msgs = {} BY DEF Init
<1>3. Held = {} BY <1>1, <1>2 DEF Held
<1> QED BY <1>3, InitVInv DEF RInv, EntriesOK

LEMMA StepRInv == RInv /\ [Next]_vars => RInv'
<1> SUFFICES ASSUME RInv, [Next]_vars PROVE RInv'
  OBVIOUS
<1>1. VInv' BY StepVInv DEF RInv
<1>2. EntriesOK'
  <2>1. CASE UNCHANGED vars
    <3>1. UNCHANGED <<role, currentTerm, elected, log, diskLog, jobs, msgs, forgotten, stray>>
      BY <2>1 DEF vars, state, storage, history
    <3> QED BY <3>1, LogsStay DEF RInv
  <2>2. CASE Next
    <3>1. PICK n \in Nodes : Step(n) BY <2>2 DEF Next
    <3>2. CASE \E m \in msgs : Handle(n, m)
      BY <3>2, VoteRInv, AppendEntriesRInv, InstallRInv, QuietRInv DEF Handle
    <3>3. CASE \E j \in jobs[n] : Continue(n, j)
      BY <3>3, AppendRInv, StoreRInv, QuietRInv, SaveRInv DEF Continue
    <3> QED BY <3>1, <3>2, <3>3, ElectionRInv, ForceRInv, SendsRInv, QuietRInv, RestartRInv DEF Step
  <2> QED BY <2>1, <2>2
<1> QED BY <1>1, <1>2 DEF RInv

\* No two logs, in memory or in storage, differ about an entry of one index and
\* term, whatever is lost in a crash or cut out by a conflict: but for entries
\* appended by a node that had stepped down, and terms won with lost votes.
THEOREM LogMatchingHolds == Spec => []LogMatching
<1>1. Init => RInv BY InitRInv
<1>2. RInv /\ [Next]_vars => RInv' BY StepRInv
<1>3. RInv => LogMatching
  <2>1. UNION {Range(log[n]) \cup Range(diskLog[n]) : n \in Nodes} \subseteq Held BY DEF Held
  <2> QED BY <2>1 DEF RInv, EntriesOK, LogMatching
<1> QED BY <1>1, <1>2, <1>3, PTL DEF Spec
-----------------------------------------------------------------------------
(* An acknowledged append is held                                          *)

\* f is the first entry of l with index i; l has none.
First(l, i, f) ==
  \E p \in DOMAIN l : l[p] = f /\ f.index = i /\ \A q \in 1 .. p - 1 : l[q].index # i
Absent(l, i) == \A p \in DOMAIN l : l[p].index # i

\* l has an entry with the index and the term of e.
Has(l, e) == \E f \in Range(l) : f.index = e.index /\ f.term = e.term

\* log_term_at is about the first entry of an index.
LEMMA FirstTerm ==
  ASSUME NEW l \in Seq(Entry), NEW i
  PROVE  /\ Absent(l, i) => LogTermAt(l, i) = 0
         /\ \A f : First(l, i, f) => LogTermAt(l, i) = IF i = 0 THEN 0 ELSE f.term
         /\ Absent(l, i) \/ \E f : First(l, i, f)
<1> DEFINE at == {k \in DOMAIN l : l[k].index = i}
           k0 == CHOOSE k \in at : \A j \in at : k <= j
<1>1. LogTermAt(l, i) = IF i = 0 \/ at = {} THEN 0 ELSE l[k0].term BY DEF LogTermAt
<1>2. Absent(l, i) => at = {} BY DEF Absent
<1>3. at \subseteq Nat /\ at \subseteq DOMAIN l OBVIOUS
<1>4. at # {} => \E k \in at : \A j \in at : k <= j
  <2> HIDE DEF at
  <2> QED BY <1>3, LeastNat
<1>5. at # {} => k0 \in at /\ \A j \in at : k0 <= j
  <2> HIDE DEF at
  <2> QED BY <1>4
<1>6. ASSUME NEW f, First(l, i, f) PROVE at # {} /\ l[k0] = f
  <2>1. PICK p \in DOMAIN l : l[p] = f /\ f.index = i /\ \A q \in 1 .. p - 1 : l[q].index # i
    BY <1>6 DEF First
  <2>2. p \in at BY <2>1
  <2>3. k0 \in at /\ k0 <= p BY <1>5, <2>2
  <2> HIDE DEF k0
  <2>4. ~(k0 < p) BY <2>1, <2>3
  <2>5. k0 = p BY <2>3, <2>4
  <2> QED BY <2>1, <2>2, <2>5
<1>7. ASSUME at # {} PROVE First(l, i, l[k0])
  <2>1. k0 \in at /\ \A j \in at : k0 <= j BY <1>5, <1>7
  <2> HIDE DEF k0
  <2>2. \A q \in 1 .. k0 - 1 : q \in DOMAIN l /\ ~(k0 <= q) BY <2>1
  <2> QED BY <2>1, <2>2 DEF First
<1>8. at = {} => Absent(l, i) BY DEF Absent
<1> HIDE DEF at, k0
<1> QED BY <1>1, <1>2, <1>6, <1>7, <1>8

\* An entry at the end changes what is first only for its own, absent index.
LEMMA FirstAppend ==
  ASSUME NEW l \in Seq(Entry), NEW e \in Entry, NEW i
  PROVE  /\ \A f : First(l, i, f) => First(Append(l, e), i, f)
         /\ Absent(l, i) /\ e.index = i => First(Append(l, e), i, e)
         /\ Absent(l, i) /\ e.index # i => Absent(Append(l, e), i)
<1>1. /\ DOMAIN Append(l, e) = 1 .. Len(l) + 1 /\ DOMAIN l = 1 .. Len(l) /\ Len(l) \in Nat
      /\ \A k \in 1 .. Len(l) : Append(l, e)[k] = l[k]
      /\ Append(l, e)[Len(l) + 1] = e
  OBVIOUS
<1>2. PICK s : s = Append(l, e) OBVIOUS
<1>3. ASSUME NEW f, First(l, i, f) PROVE First(s, i, f)
  <2>1. PICK p \in DOMAIN l : l[p] = f /\ f.index = i /\ \A q \in 1 .. p - 1 : l[q].index # i
    BY <1>3 DEF First
  <2>2. \A q \in 1 .. p - 1 : q \in 1 .. Len(l) BY <1>1, <2>1
  <2>3. p \in DOMAIN s /\ s[p] = f /\ \A q \in 1 .. p - 1 : s[q].index # i
    BY <1>1, <1>2, <2>1, <2>2
  <2> QED BY <2>1, <2>3 DEF First
<1>4. Absent(l, i) /\ e.index = i => First(s, i, e)
  <2>1. Len(l) + 1 \in DOMAIN s /\ s[Len(l) + 1] = e BY <1>1, <1>2
  <2>2. \A q \in 1 .. (Len(l) + 1) - 1 : q \in 1 .. Len(l) BY <1>1
  <2> QED BY <1>1, <1>2, <2>1, <2>2 DEF First, Absent
<1>5. Absent(l, i) /\ e.index # i => Absent(s, i)
  <2>1. \A k \in 1 .. Len(l) + 1 : k \in 1 .. Len(l) \/ k = Len(l) + 1 BY <1>1
  <2> QED BY <1>1, <1>2, <2>1 DEF Absent
<1> QED BY <1>2, <1>3, <1>4, <1>5

\* What retain keeps of an index, if it keeps all of it, starts with the same
\* entry.
LEMMA RetainFirst ==
  ASSUME NEW l \in Seq(Entry), NEW keep, NEW i,
         \A e \in Range(l) : e.index = i => e \in keep
  PROVE  /\ Absent(l, i) => Absent(Retain(l, keep), i)
         /\ \A f : First(l, i, f) => First(Retain(l, keep), i, f)
<1> DEFINE n == Len(l)
<1>1. l \in Logs(Entry) BY LogsEntry
<1>2. PICK kept \in [0 .. n -> Logs(Entry \cap keep)] : RetainSteps(l, keep, kept)
  BY <1>1, RetainRun
<1>3. \A k \in 0 .. n : kept[k] \in Seq(Entry) BY <1>2 DEF Logs
<1>4. n \in Nat /\ \A k \in 1 .. n : l[k] \in Entry /\ l[k] \in Range(l) BY DEF Range
<1>5. /\ kept[0] = <<>> /\ Retain(l, keep) = kept[n]
      /\ \A k \in 1 .. n :
           kept[k] = IF l[k] \in keep THEN Append(kept[k - 1], l[k]) ELSE kept[k - 1]
  BY <1>2 DEF RetainSteps
<1> DEFINE Sofar(k) == \/ (\A q \in 1 .. k : l[q].index # i) /\ Absent(kept[k], i)
                       \/ \E p \in 1 .. k : /\ l[p].index = i /\ First(kept[k], i, l[p])
                                            /\ \A q \in 1 .. p - 1 : l[q].index # i
           T == {k \in 0 .. n : Sofar(k)}
<1>6. 0 \in T BY <1>4, <1>5 DEF Absent
<1>7. ASSUME NEW k \in 0 .. n - 1, k \in T PROVE k + 1 \in T
  <2>1. k + 1 \in 1 .. n /\ k + 1 \in 0 .. n /\ k \in 0 .. n /\ (k + 1) - 1 = k BY <1>4
  <2>2. kept[k] \in Seq(Entry) /\ l[k + 1] \in Entry BY <1>3, <1>4, <2>1
  <2>3. kept[k + 1] = IF l[k + 1] \in keep THEN Append(kept[k], l[k + 1]) ELSE kept[k]
    <3>1. kept[k + 1] = IF l[k + 1] \in keep THEN Append(kept[(k + 1) - 1], l[k + 1])
                        ELSE kept[(k + 1) - 1]
      BY <1>5, <2>1, Zenon
    <3> QED BY <2>1, <3>1
  <2>4. l[k + 1].index = i => l[k + 1] \in keep BY <1>4, <2>1
  <2>5. \A q \in 1 .. k + 1 : q \in 1 .. k \/ q = k + 1 BY <2>1
  <2>6. CASE (\A q \in 1 .. k : l[q].index # i) /\ Absent(kept[k], i)
    <3>1. CASE l[k + 1].index = i
      <4>1. First(kept[k + 1], i, l[k + 1]) BY <2>2, <2>3, <2>4, <2>6, <3>1, FirstAppend
      <4>2. \A q \in 1 .. (k + 1) - 1 : l[q].index # i BY <2>1, <2>6
      <4>3. k + 1 \in 1 .. k + 1 BY <2>1
      <4>4. Sofar(k + 1) BY <3>1, <4>1, <4>2, <4>3
      <4> QED BY <2>1, <4>4
    <3>2. CASE l[k + 1].index # i
      <4>1. Absent(kept[k + 1], i) BY <2>2, <2>3, <2>6, <3>2, FirstAppend
      <4>2. \A q \in 1 .. k + 1 : l[q].index # i BY <2>5, <2>6, <3>2
      <4> QED BY <2>1, <4>1, <4>2
    <3> QED BY <3>1, <3>2
  <2>7. CASE \E p \in 1 .. k : /\ l[p].index = i /\ First(kept[k], i, l[p])
                               /\ \A q \in 1 .. p - 1 : l[q].index # i
    <3>1. PICK p \in 1 .. k : /\ l[p].index = i /\ First(kept[k], i, l[p])
                              /\ \A q \in 1 .. p - 1 : l[q].index # i
      BY <2>7
    <3>2. First(kept[k + 1], i, l[p]) BY <2>2, <2>3, <3>1, FirstAppend
    <3>3. p \in 1 .. k + 1 BY <2>1
    <3>4. Sofar(k + 1) BY <3>1, <3>2, <3>3
    <3> QED BY <2>1, <3>4
  <2>8. Sofar(k) BY <1>7
  <2> QED BY <2>6, <2>7, <2>8
<1>8. Sofar(n)
  <2>1. 0 .. n \subseteq T
    <3> HIDE DEF T, n
    <3> QED BY <1>4, <1>6, <1>7, UpTo
  <2>2. n \in 0 .. n BY <1>4
  <2> QED BY <2>1, <2>2
<1> HIDE DEF n
<1>9. DOMAIN l = 1 .. n BY DEF n
<1>10. ASSUME Absent(l, i) PROVE Absent(kept[n], i)
  BY <1>8, <1>9, <1>10 DEF Absent
<1>11. ASSUME NEW f, First(l, i, f) PROVE First(kept[n], i, f)
  <2>1. PICK p \in 1 .. n : l[p] = f /\ f.index = i /\ \A q \in 1 .. p - 1 : l[q].index # i
    BY <1>9, <1>11 DEF First
  <2>2. PICK r \in 1 .. n : /\ l[r].index = i /\ First(kept[n], i, l[r])
                            /\ \A q \in 1 .. r - 1 : l[q].index # i
    BY <1>8, <2>1
  <2>3. ~(r < p) /\ ~(p < r) BY <1>4, <2>1, <2>2
  <2>4. r = p BY <2>3
  <2> QED BY <2>1, <2>2, <2>4
<1> QED BY <1>5, <1>10, <1>11
\* Cutting at a conflict leaves an index its first entry or removes it, and
\* removes the conflicting one.
LEMMA CutTerm ==
  ASSUME NEW l \in Seq(Entry), NEW e \in Entry
  PROVE  /\ \A i : LogTermAt(CutConflict(l, e), i) \in {0, LogTermAt(l, i)}
         /\ LogTermAt(CutConflict(l, e), e.index) \in {0, e.term}
<1> DEFINE keep == {d \in Range(l) : d.index < e.index}
<1>0. PICK b : b = Retain(l, keep) OBVIOUS
<1>1. l \in Logs(Entry) BY LogsEntry
<1>2. b \in Logs(Entry \cap keep) /\ b \in Seq(Entry)
  <2> HIDE DEF keep
  <2>1. b \in Logs(Entry \cap keep) /\ b \in Logs(Entry) BY <1>0, <1>1, RetainIn
  <2> QED BY <2>1, LogsEntry
<1>3. ASSUME NEW i, ~(i < e.index) PROVE LogTermAt(b, i) = 0
  <2>1. \A p \in DOMAIN b : b[p] \in keep BY <1>2 DEF Logs, Range
  <2>2. \A p \in DOMAIN b : b[p].index < e.index BY <2>1
  <2>3. Absent(b, i) BY <1>3, <2>2 DEF Absent
  <2> QED BY <1>2, <2>3, FirstTerm
<1>4. ASSUME NEW i, i < e.index PROVE LogTermAt(b, i) = LogTermAt(l, i)
  <2>1. \A d \in Range(l) : d.index = i => d \in keep BY <1>4
  <2>2. /\ Absent(l, i) => Absent(b, i)
        /\ \A f : First(l, i, f) => First(b, i, f)
    <3> HIDE DEF keep
    <3> QED BY <1>0, <2>1, RetainFirst
  <2>3. CASE Absent(l, i) BY <1>2, <2>2, <2>3, FirstTerm
  <2>4. CASE \E f : First(l, i, f)
    <3>1. PICK f : First(l, i, f) BY <2>4
    <3>2. LogTermAt(l, i) = (IF i = 0 THEN 0 ELSE f.term) BY <3>1, FirstTerm
    <3>3. LogTermAt(b, i) = (IF i = 0 THEN 0 ELSE f.term) BY <1>2, <2>2, <3>1, FirstTerm
    <3> QED BY <3>2, <3>3
  <2> QED BY <2>3, <2>4, FirstTerm
<1>5. CutConflict(l, e) = IF LogTermAt(l, e.index) \notin {0, e.term} THEN b ELSE l
  BY <1>0 DEF CutConflict, Below
<1>6. ~(e.index < e.index) BY DEF Entry
<1> HIDE DEF keep
<1> QED BY <1>3, <1>4, <1>5, <1>6

\* Pushing touches no other index, keeps what was there and leaves the log with
\* the entry, or one like it, unless it has another one of the index.
LEMMA PushTerm ==
  ASSUME NEW l \in Seq(Entry), NEW e \in Entry
  PROVE  /\ \A i : i # e.index => LogTermAt(PushMissing(l, e), i) = LogTermAt(l, i)
         /\ Range(l) \subseteq Range(PushMissing(l, e))
         /\ LogTermAt(l, e.index) \in {0, e.term} => Has(PushMissing(l, e), e)
<1>1. l \in Seq(Entry) OBVIOUS
<1>2. PICK s : s = Append(l, e) OBVIOUS
<1>3. s \in Seq(Entry) BY <1>1, <1>2
<1>4. DOMAIN l \subseteq DOMAIN s /\ (\A p \in DOMAIN l : s[p] = l[p]) /\ e \in Range(s)
  <2>1. Len(l) + 1 \in DOMAIN s /\ s[Len(l) + 1] = e BY <1>1, <1>2
  <2>2. DOMAIN l \subseteq DOMAIN s /\ \A p \in DOMAIN l : s[p] = l[p] BY <1>1, <1>2
  <2> QED BY <2>1, <2>2 DEF Range
<1>5. Range(l) \subseteq Range(s) BY <1>4 DEF Range
<1>6. ASSUME NEW i, i # e.index PROVE LogTermAt(s, i) = LogTermAt(l, i)
  <2>1. CASE Absent(l, i)
    <3>1. Absent(s, i) BY <1>1, <1>2, <1>6, <2>1, FirstAppend
    <3> QED BY <1>1, <1>3, <2>1, <3>1, FirstTerm
  <2>2. CASE \E f : First(l, i, f)
    <3>1. PICK f : First(l, i, f) BY <2>2
    <3>2. First(s, i, f) BY <1>1, <1>2, <3>1, FirstAppend
    <3>3. LogTermAt(l, i) = (IF i = 0 THEN 0 ELSE f.term) BY <1>1, <3>1, FirstTerm
    <3>4. LogTermAt(s, i) = (IF i = 0 THEN 0 ELSE f.term) BY <1>3, <3>2, FirstTerm
    <3> QED BY <3>3, <3>4
  <2> QED BY <1>1, <2>1, <2>2, FirstTerm
<1>7. ASSUME LogTermAt(l, e.index) = e.term, LogTermAt(l, e.index) # 0 PROVE Has(l, e)
  <2>1. ~Absent(l, e.index) BY <1>1, <1>7, FirstTerm
  <2>2. PICK f : First(l, e.index, f) BY <1>1, <2>1, FirstTerm
  <2>3. LogTermAt(l, e.index) = (IF e.index = 0 THEN 0 ELSE f.term) BY <1>1, <2>2, FirstTerm
  <2>4. f.term = e.term BY <1>7, <2>3
  <2>5. f \in Range(l) /\ f.index = e.index BY <2>2 DEF First, Range
  <2> QED BY <2>4, <2>5 DEF Has
<1>8. PushMissing(l, e) = IF LogTermAt(l, e.index) = 0 THEN s ELSE l BY <1>2 DEF PushMissing
<1>9. Has(s, e) BY <1>4 DEF Has
<1> QED BY <1>5, <1>6, <1>7, <1>8, <1>9

\* After step 4 no entry of the log conflicts with one of the request.
LEMMA CutsHold ==
  ASSUME NEW l \in Seq(Entry), NEW es \in Seq(Entry)
  PROVE  \A i \in DOMAIN es : LogTermAt(CutConflicts(l, es), es[i].index) \in {0, es[i].term}
<1> DEFINE n == Len(es)
<1>1. l \in Logs(Entry) /\ Range(es) \subseteq Entry BY LogsEntry DEF Range
<1>2. PICK cut \in [0 .. n -> Logs(Entry)] : CutsSteps(l, es, cut) BY <1>1, CutsRun
<1>3. \A k \in 0 .. n : cut[k] \in Seq(Entry) BY <1>2, LogsEntry
<1>4. /\ CutConflicts(l, es) = cut[n]
      /\ \A k \in 1 .. n : cut[k] = CutConflict(cut[k - 1], es[k])
  BY <1>2 DEF CutsSteps
<1>5. n \in Nat /\ DOMAIN es = 1 .. n /\ \A k \in 1 .. n : es[k] \in Entry OBVIOUS
<1> DEFINE T == {k \in 0 .. n : \A i \in 1 .. k : LogTermAt(cut[k], es[i].index) \in {0, es[i].term}}
<1>6. 0 \in T BY <1>5
<1>7. ASSUME NEW k \in 0 .. n - 1, k \in T PROVE k + 1 \in T
  <2>1. k + 1 \in 1 .. n /\ k + 1 \in 0 .. n /\ k \in 0 .. n /\ (k + 1) - 1 = k BY <1>5
  <2>2. cut[k] \in Seq(Entry) /\ es[k + 1] \in Entry BY <1>3, <1>5, <2>1
  <2>3. cut[k + 1] = CutConflict(cut[k], es[k + 1])
    <3>1. cut[k + 1] = CutConflict(cut[(k + 1) - 1], es[k + 1]) BY <1>4, <2>1, Zenon
    <3> QED BY <2>1, <3>1
  <2>4. /\ \A i : LogTermAt(cut[k + 1], i) \in {0, LogTermAt(cut[k], i)}
        /\ LogTermAt(cut[k + 1], es[k + 1].index) \in {0, es[k + 1].term}
    BY <2>2, <2>3, CutTerm
  <2>5. ASSUME NEW i \in 1 .. k + 1
        PROVE  LogTermAt(cut[k + 1], es[i].index) \in {0, es[i].term}
    <3>1. CASE i = k + 1 BY <2>4, <3>1
    <3>2. CASE i \in 1 .. k
      <4>1. LogTermAt(cut[k], es[i].index) \in {0, es[i].term} BY <1>7, <3>2
      <4> QED BY <2>4, <4>1
    <3>3. i \in 1 .. k \/ i = k + 1 BY <2>1
    <3> QED BY <3>1, <3>2, <3>3
  <2> QED BY <2>1, <2>5
<1>8. n \in T
  <2>1. 0 .. n \subseteq T
    <3> HIDE DEF T, n
    <3> QED BY <1>5, <1>6, <1>7, UpTo
  <2>2. n \in 0 .. n BY <1>5
  <2> HIDE DEF T
  <2> QED BY <2>1, <2>2
<1> QED BY <1>4, <1>5, <1>8

\* After step 5 the log has every entry of the request, or one like it.
LEMMA PushesHold ==
  ASSUME NEW l \in Seq(Entry), NEW es \in Seq(Entry), OncePerIndex(es),
         \A i \in DOMAIN es : LogTermAt(l, es[i].index) \in {0, es[i].term}
  PROVE  \A i \in DOMAIN es : Has(PushAll(l, es), es[i])
<1> DEFINE n == Len(es)
<1>0. l \in Logs(Entry) /\ Range(es) \subseteq Entry BY LogsEntry DEF Range
<1>1. PICK pushed \in [0 .. n -> Logs(Entry)] : PushesSteps(l, es, pushed) BY <1>0, PushesRun
<1>2. /\ PushAll(l, es) = pushed[n] /\ pushed[0] = l
      /\ \A k \in 1 .. n : pushed[k] = PushMissing(pushed[k - 1], es[k])
  BY <1>1 DEF PushesSteps
<1>3. n \in Nat /\ DOMAIN es = 1 .. n /\ \A k \in 1 .. n : es[k] \in Entry
  OBVIOUS
<1> DEFINE T == {k \in 0 .. n : \A i \in 1 .. n :
                   IF i <= k THEN Has(pushed[k], es[i])
                   ELSE LogTermAt(pushed[k], es[i].index) \in {0, es[i].term}}
<1>4. 0 \in T BY <1>2, <1>3
<1>5. ASSUME NEW k \in 0 .. n - 1, k \in T PROVE k + 1 \in T
  <2>1. k + 1 \in 1 .. n /\ k + 1 \in 0 .. n /\ k \in 0 .. n /\ (k + 1) - 1 = k BY <1>3
  <2>2. pushed[k] \in Seq(Entry) /\ es[k + 1] \in Entry BY <1>3, <2>1, LogsEntry
  <2>3. pushed[k + 1] = PushMissing(pushed[k], es[k + 1])
    <3>1. pushed[k + 1] = PushMissing(pushed[(k + 1) - 1], es[k + 1]) BY <1>2, <2>1, Zenon
    <3> QED BY <2>1, <3>1
  <2>4. /\ \A i : i # es[k + 1].index => LogTermAt(pushed[k + 1], i) = LogTermAt(pushed[k], i)
        /\ Range(pushed[k]) \subseteq Range(pushed[k + 1])
        /\ LogTermAt(pushed[k], es[k + 1].index) \in {0, es[k + 1].term}
             => Has(pushed[k + 1], es[k + 1])
    BY <2>2, <2>3, PushTerm
  <2>5. \A i \in 1 .. n : IF i <= k THEN Has(pushed[k], es[i])
                          ELSE LogTermAt(pushed[k], es[i].index) \in {0, es[i].term}
    BY <1>5
  <2>6. ASSUME NEW i \in 1 .. n
        PROVE  IF i <= k + 1 THEN Has(pushed[k + 1], es[i])
               ELSE LogTermAt(pushed[k + 1], es[i].index) \in {0, es[i].term}
    <3>1. CASE i <= k
      <4>1. Has(pushed[k + 1], es[i]) BY <2>4, <2>5, <3>1 DEF Has
      <4> QED BY <2>1, <3>1, <4>1
    <3>2. CASE i = k + 1
      <4>1. ~(k + 1 <= k) BY <2>1
      <4>2. LogTermAt(pushed[k], es[k + 1].index) \in {0, es[k + 1].term}
        BY <2>1, <2>5, <4>1
      <4> QED BY <2>4, <3>2, <4>2
    <3>3. CASE ~(i <= k + 1)
      <4>1. ~(i <= k) /\ i # k + 1 BY <2>1, <3>3
      <4>2. es[i].index # es[k + 1].index BY <1>3, <2>1, <4>1 DEF OncePerIndex
      <4>3. LogTermAt(pushed[k], es[i].index) \in {0, es[i].term} BY <2>5, <4>1
      <4> QED BY <2>4, <3>3, <4>2, <4>3
    <3>4. i <= k \/ i = k + 1 \/ ~(i <= k + 1) BY <2>1
    <3> QED BY <3>1, <3>2, <3>3, <3>4
  <2> QED BY <2>1, <2>6
<1>6. n \in T
  <2>1. 0 .. n \subseteq T
    <3> HIDE DEF T, n
    <3> QED BY <1>3, <1>4, <1>5, UpTo
  <2>2. n \in 0 .. n BY <1>3
  <2> HIDE DEF T
  <2> QED BY <2>1, <2>2
<1>7. \A i \in 1 .. n : Has(pushed[n], es[i]) BY <1>3, <1>6
<1> QED BY <1>2, <1>3, <1>7

\* A node that acknowledges a request whose entries have an index each holds all
\* of them: what conflicts is cut, what is missing pushed, and an entry of the
\* same index and term is the same entry, unless it may differ.
THEOREM AckMeansHeldHolds == Spec => AckMeansHeld
<1> DEFINE Acks(n) == \E j \in jobs'[n] \ jobs[n] :
                        j.step = "save" /\ \E a \in j.send : a.type = "appended"
           Like(n, e) == \E f \in Range(log'[n]) : /\ f.index = e.index /\ f.term = e.term
                                                   /\ f = e \/ MayDiffer(e, f)
           Held1 == \A n \in Nodes : Acks(n) =>
                      \A m \in msgs : HandleAppendEntries(n, m) /\ OncePerIndex(m.entries) =>
                        \A e \in Range(m.entries) : Like(n, e)
<1>1. Init => RInv BY InitRInv
<1>2. RInv /\ [Next]_vars => RInv' BY StepRInv
<1>3. RInv => Held1
  <2> SUFFICES ASSUME RInv, NEW n \in Nodes, Acks(n), NEW m \in msgs,
                      HandleAppendEntries(n, m), OncePerIndex(m.entries), NEW e \in Range(m.entries)
               PROVE  Like(n, e)
    OBVIOUS
  <2> DEFINE ok == m.prev > 0 => LogTermAt(log[n], m.prev) = m.prevTerm
             merged == IF ok THEN Merge(log[n], m.entries) ELSE log[n]
  <2>1. PICK a : a = [type |-> "appended", from |-> n, to |-> m.from, term |-> m.term,
                      match |-> m.prev + Len(m.entries)]
    OBVIOUS
  <2>2. PICK k : k = SaveJob(n, NoSnapshot, IF ok THEN {a} ELSE {}) OBVIOUS
  <2>3. /\ m.type = "append"
        /\ log' = [log EXCEPT ![n] = merged]
        /\ jobs' = [jobs EXCEPT ![n] = @ \cup {k}]
    BY <2>1, <2>2 DEF HandleAppendEntries, SaveThen, Spawn
  <2>4. ok
    <3> HIDE DEF ok, merged
    <3>1. jobs'[n] = jobs[n] \cup {k} BY <2>3 DEF RInv, VInv, TypeOK
    <3>2. k.send # {} BY <3>1
    <3> QED BY <2>2, <3>2 DEF SaveJob
  <2>5. log[n] \in Seq(Entry) /\ m.entries \in Seq(Entry)
    BY <2>3 DEF RInv, VInv, TypeOK, MsgsOK
  <2>6. Range(log[n]) \subseteq Held /\ Range(m.entries) \subseteq Held BY <2>3, HeldParts
  <2>7. \A c, d \in Held : c.index = d.index /\ c.term = d.term => c = d \/ MayDiffer(c, d)
    BY DEF RInv, EntriesOK
  <2>8. log'[n] = Merge(log[n], m.entries)
    <3>1. merged = Merge(log[n], m.entries) BY <2>4
    <3> HIDE DEF merged
    <3> QED BY <2>3, <3>1 DEF RInv, VInv, TypeOK
  <2>9. PICK l : l = CutConflicts(log[n], m.entries) OBVIOUS
  <2>10. l \in Seq(Entry)
    <3>1. log[n] \in Logs(Entry) /\ Range(m.entries) \subseteq Entry BY <2>5, LogsEntry DEF Range
    <3> QED BY <2>5, <2>9, <3>1, CutsIn, LogsEntry
  <2>11. \A i \in DOMAIN m.entries : LogTermAt(l, m.entries[i].index) \in {0, m.entries[i].term}
    BY <2>5, <2>9, CutsHold
  <2>12. \A i \in DOMAIN m.entries : Has(PushAll(l, m.entries), m.entries[i])
    BY <2>5, <2>10, <2>11, PushesHold
  <2>13. Has(log'[n], e) BY <2>8, <2>9, <2>12 DEF Merge, Range
  <2>14. Range(log'[n]) \subseteq Held
    <3>1. log[n] \in Logs(Held) BY <2>5, <2>6 DEF Logs
    <3>2. Merge(log[n], m.entries) \in Logs(Held) BY <2>5, <2>6, <3>1, MergeIn
    <3> QED BY <2>8, <3>2 DEF Logs
  <2>15. PICK f \in Range(log'[n]) : f.index = e.index /\ f.term = e.term BY <2>13 DEF Has
  <2>16. f = e \/ MayDiffer(e, f) BY <2>6, <2>7, <2>14, <2>15
  <2> QED BY <2>15, <2>16
<1> QED BY <1>1, <1>2, <1>3, PTL DEF Spec, AckMeansHeld

-----------------------------------------------------------------------------
(* What update_match_index commits has a majority                          *)

\* The value in the middle of the sorted values exists.
LEMMA MedianIs ==
  ASSUME NEW X, IsFiniteSet(X), X # {}, NEW f \in [X -> Nat]
  PROVE  /\ Median(f) \in {f[x] : x \in X}
         /\ Cardinality({x \in X : f[x] < Median(f)}) <= Cardinality(X) \div 2
<1> DEFINE half == Cardinality(X) \div 2
           V == {f[x] : x \in X}
           Upto(v) == {x \in X : f[x] <= v}
           Before(v) == {x \in X : f[x] < v}
           S == {v \in V : Cardinality(Upto(v)) > half}
<1>1. Cardinality(X) \in Nat /\ Cardinality(X) > 0 /\ half \in Nat /\ half < Cardinality(X)
  BY FS_CardinalityType, FS_EmptySet
<1>2. PICK top \in X : \A x \in X : f[x] <= f[top] BY Greatest
<1>3. f[top] \in S
  <2>1. Upto(f[top]) = X BY <1>2
  <2> HIDE DEF half, Upto
  <2> QED BY <1>1, <2>1
<1>4. V \subseteq Nat /\ S \subseteq V /\ S \subseteq Nat OBVIOUS
<1>5. PICK v \in S : \A u \in S : v <= u
  <2> HIDE DEF S
  <2> QED BY <1>3, <1>4, LeastNat
<1>6. Cardinality(Before(v)) <= half
  <2>1. CASE Before(v) = {} BY <1>1, <2>1, FS_EmptySet
  <2>2. CASE Before(v) # {}
    <3> DEFINE B == Before(v)
               h == [x \in B |-> f[x]]
    <3>1. IsFiniteSet(B) /\ B # {} /\ h \in [B -> Nat] BY <2>2, FS_Subset
    <3>2. PICK y \in B : \A x \in B : h[x] <= h[y]
      <4> HIDE DEF B, h
      <4> QED BY <3>1, Greatest
    <3>3. y \in X /\ f[y] < v /\ v \in Nat /\ f[y] \in Nat /\ f[y] \in V BY <1>4, <3>2
    <3>4. f[y] \notin S BY <1>5, <3>3
    <3>5. Upto(f[y]) = B BY <3>2, <3>3
    <3>6. Cardinality(Upto(f[y])) \in Nat BY FS_Subset, FS_CardinalityType
    <3>7. Cardinality(Upto(f[y])) <= half
      <4> HIDE DEF half, Upto
      <4> QED BY <1>1, <3>3, <3>4, <3>6
    <3> HIDE DEF half, Upto, Before
    <3> QED BY <3>5, <3>7
  <2> QED BY <2>1, <2>2
<1>7. DOMAIN f = X OBVIOUS
<1>8. Median(f) = CHOOSE w \in V : Cardinality(Before(w)) <= half /\ Cardinality(Upto(w)) > half
  BY <1>7 DEF Median
<1>9. v \in V /\ Cardinality(Upto(v)) > half OBVIOUS
<1>10. Median(f) \in V /\ Cardinality(Before(Median(f))) <= half
  <2> HIDE DEF V, Before, Upto, half
  <2> QED BY <1>6, <1>8, <1>9
<1> QED BY <1>10

\* Of an odd number of values more than half are at or above that value.
LEMMA MedianMajority ==
  ASSUME NEW X, IsFiniteSet(X), Cardinality(X) % 2 = 1, NEW f \in [X -> Nat]
  PROVE  Cardinality({x \in X : f[x] >= Median(f)}) >= Cardinality(X) \div 2 + 1
<1> DEFINE v == Median(f)
           B == {x \in X : f[x] < v}
           A == {x \in X : f[x] >= v}
<1>1. X # {} BY FS_EmptySet
<1>2. v \in Nat /\ Cardinality(B) <= Cardinality(X) \div 2
  <2>1. /\ Median(f) \in {f[x] : x \in X}
        /\ Cardinality({x \in X : f[x] < Median(f)}) <= Cardinality(X) \div 2
    BY <1>1, MedianIs
  <2> QED BY <2>1
<1> HIDE DEF v
<1>3. A = X \ B /\ X \cap B = B BY <1>2
<1> HIDE DEF A, B
<1>4. Cardinality(A) = Cardinality(X) - Cardinality(B) BY <1>3, FS_Difference
<1>5. Cardinality(X) \in Nat BY FS_CardinalityType
<1>6. Cardinality(B) \in Nat BY <1>3, FS_Intersection, FS_CardinalityType
<1>7. Cardinality(A) >= Cardinality(X) \div 2 + 1 BY <1>2, <1>4, <1>5, <1>6
<1> QED BY <1>7 DEF A, v
\* Messages and calls carry numbers and entries, also when handlers overlap.
MessageTyped(m) ==
  /\ m.term \in Nat
  /\ m.type = "append" => m.prev \in Nat /\ m.entries \in Seq(Entry)
  /\ m.type = "appended" => m.match \in Nat

CallTyped(j) ==
  /\ j.step = "append" => j.data \in Nat
  /\ j.step = "store" => j.entry \in Entry
  /\ j.step = "save" => j.hs.term \in Nat /\ \A m \in j.send : MessageTyped(m)

LogsTyped == log \in [Nodes -> Seq(Entry)] /\ diskLog \in [Nodes -> Seq(Entry)]

MatchTyped ==
  /\ matchIndex = [n \in Nodes |-> matchIndex[n]]
  /\ \A n \in Nodes : matchIndex[n] \in [Peers(n) -> Nat]

TermsTyped ==
  /\ currentTerm \in [Nodes -> Nat]
  /\ disk = [n \in Nodes |-> disk[n]] /\ \A n \in Nodes : disk[n].term \in Nat

CallsTyped ==
  jobs = [n \in Nodes |-> jobs[n]] /\ \A n \in Nodes : \A j \in jobs[n] : CallTyped(j)

QInv ==
  /\ LogsTyped /\ MatchTyped /\ TermsTyped /\ CallsTyped
  /\ \A m \in msgs : MessageTyped(m)
  /\ commitIndex = [n \in Nodes |-> commitIndex[n]]
  /\ events \in Nat

LEMMA SaveTyped ==
  ASSUME NEW n \in Nodes, currentTerm'[n] \in Nat, NEW snap, NEW answers,
         \A m \in answers : MessageTyped(m)
  PROVE  CallTyped(SaveJob(n, snap, answers))
BY DEF CallTyped, SaveJob, HardState

\* A call of n ends, moves on or is added.
LEMMA CallsMove ==
  ASSUME CallsTyped, NEW n \in Nodes, NEW J, \A j \in J : j \in jobs[n] \/ CallTyped(j),
         jobs' = [jobs EXCEPT ![n] = J]
  PROVE  CallsTyped'
BY DEF CallsTyped

\* Only a leader that hears an acknowledgement, wins or restarts touches the
\* match indexes.
LEMMA MatchSet ==
  ASSUME MatchTyped, NEW n \in Nodes, NEW f \in [Peers(n) -> Nat],
         matchIndex' = [matchIndex EXCEPT ![n] = f]
  PROVE  MatchTyped'
BY DEF MatchTyped, Peers

LEMMA NoMatches == \A n : [p \in Peers(n) |-> 0] \in [Peers(n) -> Nat]
OBVIOUS

LEMMA ElectionTyped == ASSUME QInv, NEW n \in Nodes, StartElection(n) PROVE QInv'
<1>1. PICK m : m = [type |-> "vote", from |-> n, term |-> currentTerm'[n],
                    index |-> LastLogIndex(log[n]), logTerm |-> LastLogTerm(log[n])]
  OBVIOUS
<1>2. PICK k : k = SaveJob(n, NoSnapshot, {m}) OBVIOUS
<1>3. /\ currentTerm' = [currentTerm EXCEPT ![n] = @ + 1]
      /\ jobs' = [jobs EXCEPT ![n] = @ \cup {k}]
      /\ UNCHANGED <<log, diskLog, matchIndex, disk, msgs, commitIndex, events>>
  BY <1>1, <1>2 DEF StartElection, SaveThen, Spawn, storage
<1>4. TermsTyped' /\ currentTerm'[n] \in Nat BY <1>3 DEF QInv, TermsTyped
<1>5. MessageTyped(m) BY <1>1, <1>4 DEF MessageTyped
<1>6. CallTyped(k) BY <1>2, <1>4, <1>5, SaveTyped
<1>7. CallsTyped' BY <1>3, <1>6, CallsMove DEF QInv, CallsTyped
<1>8. LogsTyped' /\ MatchTyped' BY <1>3 DEF QInv, LogsTyped, MatchTyped
<1> QED BY <1>3, <1>4, <1>7, <1>8 DEF QInv

LEMMA VoteTyped ==
  ASSUME QInv, NEW n \in Nodes, NEW m \in msgs, HandleRequestVote(n, m) PROVE QInv'
<1>1. PICK a : a = [type |-> "voted", from |-> n, to |-> m.from, term |-> m.term] OBVIOUS
<1>2. PICK k : k = SaveJob(n, NoSnapshot, {a}) OBVIOUS
<1>3. /\ currentTerm' = [currentTerm EXCEPT ![n] = m.term]
      /\ jobs' = [jobs EXCEPT ![n] = @ \cup {k}] \/ jobs' = jobs
      /\ UNCHANGED <<log, diskLog, matchIndex, disk, msgs, commitIndex, events>>
  BY <1>1, <1>2 DEF HandleRequestVote, SaveThen, Spawn, storage, bounds
<1>4. m.term \in Nat BY DEF QInv, MessageTyped
<1>5. TermsTyped' /\ currentTerm'[n] \in Nat BY <1>3, <1>4 DEF QInv, TermsTyped
<1>6. MessageTyped(a) BY <1>1, <1>4 DEF MessageTyped
<1>7. CallTyped(k) BY <1>2, <1>5, <1>6, SaveTyped
<1>8. CallsTyped'
  <2>1. CASE jobs' = jobs BY <2>1 DEF QInv, CallsTyped
  <2>2. CASE jobs' = [jobs EXCEPT ![n] = @ \cup {k}]
    BY <1>7, <2>2, CallsMove DEF QInv, CallsTyped
  <2> QED BY <1>3, <2>1, <2>2
<1>9. LogsTyped' /\ MatchTyped' BY <1>3 DEF QInv, LogsTyped, MatchTyped
<1> QED BY <1>3, <1>5, <1>8, <1>9 DEF QInv

LEMMA ForceTyped == ASSUME QInv, NEW n \in Nodes, ForceBecomeLeader(n) PROVE QInv'
<1>1. /\ currentTerm' = [currentTerm EXCEPT ![n] = currentTerm[n] + 1]
      /\ matchIndex' = [matchIndex EXCEPT ![n] = [p \in Peers(n) |-> 0]]
      /\ UNCHANGED <<log, diskLog, disk, jobs, msgs, commitIndex, events>>
  BY DEF ForceBecomeLeader, BecomeLeader, storage, bounds
<1>2. MatchTyped' BY <1>1, NoMatches, MatchSet DEF QInv
<1>3. TermsTyped' BY <1>1 DEF QInv, TermsTyped
<1>4. LogsTyped' /\ CallsTyped' BY <1>1 DEF QInv, LogsTyped, CallsTyped
<1> QED BY <1>1, <1>2, <1>3, <1>4 DEF QInv

\* Any message of a leader.
LEMMA SendTyped ==
  ASSUME QInv, NEW n \in Nodes, NEW m, NEW cost \in Nat, Send(n, m, cost), MessageTyped(m)
  PROVE  QInv'
<1>1. /\ msgs' = msgs \cup {m} /\ events' = events + cost
      /\ UNCHANGED <<currentTerm, log, diskLog, matchIndex, disk, jobs, commitIndex>>
  BY DEF Send, Events, state, storage
<1>2. LogsTyped' /\ MatchTyped' /\ TermsTyped' /\ CallsTyped'
  BY <1>1 DEF QInv, LogsTyped, MatchTyped, TermsTyped, CallsTyped
<1> QED BY <1>1, <1>2 DEF QInv

LEMMA RequestTyped ==
  ASSUME QInv, NEW n \in Nodes, NEW k \in 1 .. Len(log[n]) + 1
  PROVE  MessageTyped(AppendRequest(n, k))
<1>1. log[n] \in Seq(Entry) /\ currentTerm[n] \in Nat BY DEF QInv, LogsTyped, TermsTyped
<1>2. k # 1 => k - 1 \in 1 .. Len(log[n]) BY <1>1
<1>3. k # 1 => log[n][k - 1] \in Entry BY <1>1, <1>2
<1>4. k # 1 => log[n][k - 1].index \in Nat BY <1>3 DEF Entry
<1>5. SubSeq(log[n], k, Len(log[n])) \in Seq(Entry) BY <1>1
<1> QED BY <1>1, <1>4, <1>5 DEF MessageTyped, AppendRequest

LEMMA SendsTyped ==
  ASSUME QInv, NEW n \in Nodes, SendHeartbeat(n) \/ SendEntries(n) \/ SendSnapshot(n) PROVE QInv'
<1>1. log[n] \in Seq(Entry) /\ currentTerm[n] \in Nat BY DEF QInv, LogsTyped, TermsTyped
<1>2. CASE SendHeartbeat(n)
  <2>1. Len(log[n]) + 1 \in 1 .. Len(log[n]) + 1 BY <1>1
  <2>2. MessageTyped(AppendRequest(n, Len(log[n]) + 1)) BY <2>1, RequestTyped
  <2> QED BY <1>2, <2>2, SendTyped DEF SendHeartbeat
<1>3. CASE SendEntries(n)
  <2>1. PICK k \in DOMAIN log[n] : Send(n, AppendRequest(n, k), 1) BY <1>3 DEF SendEntries
  <2>2. k \in 1 .. Len(log[n]) + 1 BY <1>1
  <2>3. MessageTyped(AppendRequest(n, k)) BY <2>2, RequestTyped
  <2> QED BY <2>1, <2>3, SendTyped
<1>4. CASE SendSnapshot(n)
  <2>1. PICK m : m = [type |-> "snapshot", from |-> n, term |-> currentTerm[n],
                      index |-> commitIndex[n], logTerm |-> LogTermAt(log[n], commitIndex[n])]
    OBVIOUS
  <2>2. Send(n, m, 1) BY <1>4, <2>1 DEF SendSnapshot
  <2>3. MessageTyped(m) BY <1>1, <2>1 DEF MessageTyped
  <2> QED BY <2>2, <2>3, SendTyped
<1> QED BY <1>2, <1>3, <1>4

\* The sender of a request or a snapshot changes the term and nothing else
\* that is counted here.
LEMMA HearTyped ==
  ASSUME QInv, NEW n \in Nodes, NEW m, m.term \in Nat, NEW reset \in BOOLEAN,
         HearLeader(n, m, reset), disk' = disk
  PROVE  TermsTyped'
<1>1. currentTerm' = [currentTerm EXCEPT ![n] = m.term] \/ currentTerm' = currentTerm
  BY DEF HearLeader, BecomeFollower
<1> QED BY <1>1 DEF QInv, TermsTyped

LEMMA AppendEntriesTyped ==
  ASSUME QInv, NEW n \in Nodes, NEW m \in msgs, HandleAppendEntries(n, m) PROVE QInv'
<1> DEFINE reset == m.term > currentTerm[n] \/ role[n] = "candidate"
           ok == m.prev > 0 => LogTermAt(log[n], m.prev) = m.prevTerm
           merged == IF ok THEN Merge(log[n], m.entries) ELSE log[n]
           least == IF m.commit < LastLogIndex(merged) THEN m.commit ELSE LastLogIndex(merged)
           commit == IF ok /\ m.commit > commitIndex[n] THEN least ELSE commitIndex[n]
<1>1. PICK a : a = [type |-> "appended", from |-> n, to |-> m.from, term |-> m.term,
                    match |-> m.prev + Len(m.entries)]
  OBVIOUS
<1>2. PICK k : k = SaveJob(n, NoSnapshot, IF ok THEN {a} ELSE {}) OBVIOUS
<1>3. /\ m.type = "append" /\ HearLeader(n, m, reset)
      /\ log' = [log EXCEPT ![n] = merged]
      /\ commitIndex' = [commitIndex EXCEPT ![n] = commit]
      /\ jobs' = [jobs EXCEPT ![n] = @ \cup {k}]
      /\ UNCHANGED <<matchIndex, diskLog, disk, msgs, events>>
  BY <1>1, <1>2 DEF HandleAppendEntries, SaveThen, Spawn, storage, bounds
<1>4. /\ m.term \in Nat /\ m.prev \in Nat /\ m.entries \in Seq(Entry)
      /\ log[n] \in Seq(Entry) /\ currentTerm[n] \in Nat
  BY <1>3 DEF QInv, MessageTyped, LogsTyped, TermsTyped
<1>5. merged \in Seq(Entry) BY <1>4, LogTypes
<1>6. reset \in BOOLEAN BY <1>4
<1>7. \A x \in (IF ok THEN {a} ELSE {}) : MessageTyped(x) BY <1>1, <1>4 DEF MessageTyped
<1> HIDE DEF reset, ok, merged, commit
<1>8. TermsTyped' /\ currentTerm'[n] \in Nat
  <2>1. TermsTyped' BY <1>3, <1>4, <1>6, HearTyped
  <2> QED BY <2>1 DEF TermsTyped
<1>9. CallTyped(k) BY <1>2, <1>7, <1>8, SaveTyped
<1>10. CallsTyped' BY <1>3, <1>9, CallsMove DEF QInv, CallsTyped
<1>11. LogsTyped' /\ MatchTyped' BY <1>3, <1>5 DEF QInv, LogsTyped, MatchTyped
<1>12. commitIndex' = [x \in Nodes |-> commitIndex'[x]] BY <1>3 DEF QInv
<1> QED BY <1>3, <1>8, <1>10, <1>11, <1>12 DEF QInv

LEMMA InstallTyped ==
  ASSUME QInv, NEW n \in Nodes, NEW m \in msgs, HandleInstallSnapshot(n, m) PROVE QInv'
<1> DEFINE reset == m.term > currentTerm[n]
           above == Above(log[n], m.index)
           commit == IF m.index > commitIndex[n] THEN m.index ELSE commitIndex[n]
<1>1. PICK k : k = SaveJob(n, [index |-> m.index, term |-> m.logTerm], {}) OBVIOUS
<1>2. /\ HearLeader(n, m, reset)
      /\ log' = [log EXCEPT ![n] = above]
      /\ commitIndex' = [commitIndex EXCEPT ![n] = commit]
      /\ jobs' = [jobs EXCEPT ![n] = @ \cup {k}]
      /\ UNCHANGED <<matchIndex, diskLog, disk, msgs, events>>
  BY <1>1 DEF HandleInstallSnapshot, Spawn, storage, bounds
<1>3. m.term \in Nat /\ log[n] \in Seq(Entry) /\ currentTerm[n] \in Nat
  BY DEF QInv, MessageTyped, LogsTyped, TermsTyped
<1>4. above \in Seq(Entry) BY <1>3, LogTypes
<1>5. reset \in BOOLEAN BY <1>3
<1> HIDE DEF reset, above, commit
<1>6. TermsTyped' /\ currentTerm'[n] \in Nat
  <2>1. TermsTyped' BY <1>2, <1>3, <1>5, HearTyped
  <2> QED BY <2>1 DEF TermsTyped
<1>7. CallTyped(k) BY <1>1, <1>6, SaveTyped
<1>8. CallsTyped' BY <1>2, <1>7, CallsMove DEF QInv, CallsTyped
<1>9. LogsTyped' /\ MatchTyped' BY <1>2, <1>4 DEF QInv, LogsTyped, MatchTyped
<1>10. commitIndex' = [x \in Nodes |-> commitIndex'[x]] BY <1>2 DEF QInv
<1> QED BY <1>2, <1>6, <1>8, <1>9, <1>10 DEF QInv

\* The match index of one peer changes to what the peer acknowledged; the
\* commit index follows advance_commit_index.
LEMMA MatchMoves ==
  ASSUME QInv, NEW n \in Nodes, NEW m \in msgs, UpdateMatchIndex(n, m)
  PROVE  /\ MatchTyped'
         /\ commitIndex' = [x \in Nodes |-> commitIndex'[x]]
         /\ commitIndex'[n] = AdvanceCommitIndex(n,
              [x \in Nodes |-> IF x = n THEN LastLogIndex(log[n]) ELSE matchIndex'[n][x]])
<1>1. PICK f : f = [matchIndex[n] EXCEPT ![m.from] = m.match] OBVIOUS
<1>2. PICK c : c = AdvanceCommitIndex(n,
                 [x \in Nodes |-> IF x = n THEN LastLogIndex(log[n]) ELSE matchIndex'[n][x]])
  OBVIOUS
<1>3. /\ m.type = "appended"
      /\ matchIndex' = [matchIndex EXCEPT ![n] = f]
      /\ commitIndex' = [commitIndex EXCEPT ![n] = c]
  BY <1>1, <1>2 DEF UpdateMatchIndex
<1>4. f \in [Peers(n) -> Nat] BY <1>1, <1>3 DEF QInv, MessageTyped, MatchTyped
<1>5. MatchTyped' BY <1>3, <1>4, MatchSet DEF QInv
<1>6. commitIndex'[n] = c /\ commitIndex' = [x \in Nodes |-> commitIndex'[x]]
  BY <1>3 DEF QInv
<1> QED BY <1>2, <1>5, <1>6

LEMMA UpdateTyped ==
  ASSUME QInv, NEW n \in Nodes, NEW m \in msgs, UpdateMatchIndex(n, m) PROVE QInv'
<1>1. PICK k : k = SaveJob(n, NoSnapshot, {}) OBVIOUS
<1>2. /\ jobs' = [jobs EXCEPT ![n] = @ \cup {k}] \/ jobs' = jobs
      /\ UNCHANGED <<currentTerm, log, diskLog, disk, msgs, events>>
  BY <1>1 DEF UpdateMatchIndex, SaveThen, Spawn, storage, bounds
<1>3. currentTerm'[n] \in Nat /\ TermsTyped' BY <1>2 DEF QInv, TermsTyped
<1>4. CallTyped(k) BY <1>1, <1>3, SaveTyped
<1>5. CallsTyped'
  <2>1. CASE jobs' = jobs BY <2>1 DEF QInv, CallsTyped
  <2>2. CASE jobs' = [jobs EXCEPT ![n] = @ \cup {k}]
    BY <1>4, <2>2, CallsMove DEF QInv, CallsTyped
  <2> QED BY <1>2, <2>1, <2>2
<1>6. LogsTyped' BY <1>2 DEF QInv, LogsTyped
<1> QED BY <1>2, <1>3, <1>5, <1>6, MatchMoves DEF QInv

LEMMA ProposeTyped == ASSUME QInv, NEW n \in Nodes, Propose(n) PROVE QInv'
<1>1. PICK k : k = [step |-> "append", data |-> events'] OBVIOUS
<1>2. /\ events' = events + 1 /\ jobs' = [jobs EXCEPT ![n] = @ \cup {k}]
      /\ UNCHANGED <<currentTerm, log, diskLog, matchIndex, disk, msgs, commitIndex>>
  BY <1>1 DEF Propose, Event, Events, Spawn, state, storage
<1>3. events' \in Nat BY <1>2 DEF QInv
<1>4. CallTyped(k) BY <1>1, <1>3 DEF CallTyped
<1>5. CallsTyped' BY <1>2, <1>4, CallsMove DEF QInv, CallsTyped
<1>6. LogsTyped' /\ MatchTyped' /\ TermsTyped'
  BY <1>2 DEF QInv, LogsTyped, MatchTyped, TermsTyped
<1> QED BY <1>2, <1>3, <1>5, <1>6 DEF QInv

\* propose past its role check, and the save that ends every handler.
LEMMA ContinueTyped ==
  ASSUME QInv, NEW n \in Nodes, NEW j \in jobs[n], Continue(n, j) PROVE QInv'
<1>1. CallTyped(j) /\ log[n] \in Seq(Entry) /\ diskLog[n] \in Seq(Entry) /\ currentTerm[n] \in Nat
  BY DEF QInv, CallsTyped, LogsTyped, TermsTyped
<1>2. CASE ProposeAppend(n, j)
  <2>1. PICK e : e = [index |-> LastLogIndex(log[n]) + 1, term |-> currentTerm[n], data |-> j.data]
    OBVIOUS
  <2>2. PICK k : k = [step |-> "store", entry |-> e] OBVIOUS
  <2>3. /\ j.step = "append" /\ log' = [log EXCEPT ![n] = Append(@, e)]
        /\ jobs' = [jobs EXCEPT ![n] = (@ \ {j}) \cup {k}]
        /\ UNCHANGED <<currentTerm, diskLog, matchIndex, disk, msgs, commitIndex, events>>
    BY <1>2, <2>1, <2>2 DEF ProposeAppend, Replace, storage, bounds
  <2>4. e \in Entry BY <1>1, <2>1, <2>3, LogTypes DEF Entry, CallTyped
  <2>5. CallTyped(k) BY <2>2, <2>4 DEF CallTyped
  <2>6. CallsTyped' BY <2>3, <2>5, CallsMove DEF QInv, CallsTyped
  <2>7. Append(log[n], e) \in Seq(Entry) BY <1>1, <2>4
  <2>8. LogsTyped' /\ MatchTyped' /\ TermsTyped'
    BY <2>3, <2>7 DEF QInv, LogsTyped, MatchTyped, TermsTyped
  <2> QED BY <2>3, <2>6, <2>8 DEF QInv
<1>3. CASE ProposeStore(n, j)
  <2>1. PICK k : k = [step |-> "commit", index |-> j.entry.index] OBVIOUS
  <2>2. PICK s : s = StoreEntry(diskLog[n], j.entry) OBVIOUS
  <2>3. /\ j.step = "store" /\ diskLog' = [diskLog EXCEPT ![n] = s]
        /\ jobs' = [jobs EXCEPT ![n] = (@ \ {j}) \cup {k}]
        /\ UNCHANGED <<currentTerm, log, matchIndex, disk, msgs, commitIndex, events>>
    BY <1>3, <2>1, <2>2 DEF ProposeStore, Replace, state, bounds
  <2>4. CallTyped(k) BY <2>1 DEF CallTyped
  <2>5. CallsTyped' BY <2>3, <2>4, CallsMove DEF QInv, CallsTyped
  <2>6. s \in Seq(Entry) BY <1>1, <2>2, <2>3, LogTypes DEF CallTyped
  <2>7. LogsTyped' /\ MatchTyped' /\ TermsTyped'
    BY <2>3, <2>6 DEF QInv, LogsTyped, MatchTyped, TermsTyped
  <2> QED BY <2>3, <2>5, <2>7 DEF QInv
<1>4. CASE ProposeCommit(n, j)
  <2>1. PICK k : k = SaveJob(n, NoSnapshot, {}) OBVIOUS
  <2>2. \/ jobs' = [jobs EXCEPT ![n] = (@ \ {j}) \cup {k}]
        \/ jobs' = [jobs EXCEPT ![n] = (@ \ {j}) \cup {}]
    BY <1>4, <2>1 DEF ProposeCommit, Replace
  <2>3. PICK c : commitIndex' = [commitIndex EXCEPT ![n] = c] BY <1>4 DEF ProposeCommit
  <2>4. UNCHANGED <<currentTerm, log, diskLog, matchIndex, disk, msgs, events>>
    BY <1>4 DEF ProposeCommit, storage, bounds
  <2>5. currentTerm'[n] \in Nat BY <1>1, <2>4
  <2>6. CallTyped(k) BY <2>1, <2>5, SaveTyped
  <2>7. CallsTyped' BY <2>2, <2>6, CallsMove DEF QInv, CallsTyped
  <2>8. LogsTyped' /\ MatchTyped' /\ TermsTyped'
    BY <2>4 DEF QInv, LogsTyped, MatchTyped, TermsTyped
  <2>9. commitIndex' = [x \in Nodes |-> commitIndex'[x]] BY <2>3 DEF QInv
  <2> QED BY <2>4, <2>7, <2>8, <2>9 DEF QInv
<1>5. CASE Save(n, j)
  <2>0. PICK h \in {j.hs, disk[n]} :
          disk' = [disk EXCEPT ![n] = h] /\ events' \in {events + 0, events + 1}
    BY <1>5 DEF Save, Events
  <2>1. /\ j.step = "save" /\ msgs' = msgs \cup j.send
        /\ jobs' = [jobs EXCEPT ![n] = (@ \ {j}) \cup {}]
        /\ UNCHANGED <<log, diskLog, commitIndex>>
        /\ \/ UNCHANGED <<currentTerm, matchIndex>>
           \/ /\ currentTerm' = [currentTerm EXCEPT ![n] = currentTerm[n]]
              /\ matchIndex' = [matchIndex EXCEPT ![n] = [p \in Peers(n) |-> 0]]
    BY <1>5 DEF Save, Replace, BecomeLeader
  <2>2. j.hs.term \in Nat /\ \A m \in j.send : MessageTyped(m) BY <1>1, <2>1 DEF CallTyped
  <2>3. TermsTyped' /\ events' \in Nat BY <2>0, <2>1, <2>2 DEF QInv, TermsTyped
  <2>4. MatchTyped'
    <3>1. CASE UNCHANGED matchIndex BY <3>1 DEF QInv, MatchTyped
    <3>2. CASE matchIndex' = [matchIndex EXCEPT ![n] = [p \in Peers(n) |-> 0]]
      BY <3>2, NoMatches, MatchSet DEF QInv
    <3> QED BY <2>1, <3>1, <3>2
  <2>5. CallsTyped' BY <2>1, CallsMove DEF QInv, CallsTyped
  <2>6. LogsTyped' BY <2>1 DEF QInv, LogsTyped
  <2> QED BY <2>1, <2>2, <2>3, <2>4, <2>5, <2>6 DEF QInv
<1>6. CASE ProposeStoreFails(n, j)
  <2>1. /\ jobs' = [jobs EXCEPT ![n] = (@ \ {j}) \cup {}] /\ events' = events + 1
        /\ UNCHANGED <<currentTerm, log, diskLog, matchIndex, disk, msgs, commitIndex>>
    BY <1>6 DEF ProposeStoreFails, Replace, Event, Events, state, storage
  <2>2. CallsTyped' BY <2>1, CallsMove DEF QInv, CallsTyped
  <2>3. LogsTyped' /\ MatchTyped' /\ TermsTyped'
    BY <2>1 DEF QInv, LogsTyped, MatchTyped, TermsTyped
  <2> QED BY <2>1, <2>2, <2>3 DEF QInv
<1> QED BY <1>2, <1>3, <1>4, <1>5, <1>6 DEF Continue

LEMMA RestartTyped == ASSUME QInv, NEW n \in Nodes, Restart(n) PROVE QInv'
<1>1. /\ currentTerm' = [currentTerm EXCEPT ![n] = disk[n].term]
      /\ commitIndex' = [commitIndex EXCEPT ![n] = disk[n].commit]
      /\ log' = [log EXCEPT ![n] = diskLog[n]]
      /\ matchIndex' = [matchIndex EXCEPT ![n] = [p \in Peers(n) |-> 0]]
      /\ jobs' = [jobs EXCEPT ![n] = {}] /\ events' = events + 1
      /\ UNCHANGED <<disk, diskLog, msgs>>
  BY DEF Restart, Event, Events, storage
<1>2. MatchTyped' BY <1>1, NoMatches, MatchSet DEF QInv
<1>3. TermsTyped' BY <1>1 DEF QInv, TermsTyped
<1>4. LogsTyped' BY <1>1 DEF QInv, LogsTyped
<1>5. CallsTyped' BY <1>1 DEF QInv, CallsTyped
<1>6. commitIndex' = [x \in Nodes |-> commitIndex'[x]] /\ events' \in Nat BY <1>1 DEF QInv
<1> QED BY <1>1, <1>2, <1>3, <1>4, <1>5, <1>6 DEF QInv

LEMMA InitQInv == Init => QInv
<1> SUFFICES ASSUME Init PROVE QInv
  OBVIOUS
<1>1. LogsTyped /\ MatchTyped BY NoMatches DEF Init, LogsTyped, MatchTyped
<1>2. TermsTyped /\ CallsTyped BY DEF Init, TermsTyped, CallsTyped
<1> QED BY <1>1, <1>2 DEF Init, QInv

LEMMA StepQInv == QInv /\ [Next]_vars => QInv'
<1> SUFFICES ASSUME QInv, [Next]_vars PROVE QInv'
  OBVIOUS
<1>1. CASE UNCHANGED vars
  BY <1>1 DEF vars, state, storage, QInv, LogsTyped, MatchTyped, TermsTyped, CallsTyped
<1>2. CASE Next
  <2>1. PICK n \in Nodes : Step(n) BY <1>2 DEF Next
  <2>2. CASE \E m \in msgs : Handle(n, m)
    BY <2>2, VoteTyped, AppendEntriesTyped, InstallTyped, UpdateTyped DEF Handle
  <2> QED BY <2>1, <2>2, ElectionTyped, ForceTyped, SendsTyped, ProposeTyped, RestartTyped,
             ContinueTyped DEF Step
<1> QED BY <1>1, <1>2

\* In a cluster of an odd number of nodes what update_match_index commits has
\* been matched by a majority, the leader included, as the comment in
\* advance_commit_index says, whatever overlaps, is lost or is repeated.
THEOREM CommitQuorumHolds == ASSUME Cardinality(Nodes) % 2 = 1 PROVE Spec => CommitQuorum
<1> DEFINE Quorums == \A n \in Nodes : commitIndex'[n] # commitIndex[n] =>
                        \A m \in msgs : UpdateMatchIndex(n, m) =>
                          Cardinality({p \in Peers(n) : matchIndex'[n][p] >= commitIndex'[n]}) + 1
                            >= Majority
<1>1. QInv => Quorums
  <2> SUFFICES ASSUME QInv, NEW n \in Nodes, commitIndex'[n] # commitIndex[n],
                      NEW m \in msgs, UpdateMatchIndex(n, m)
               PROVE  Cardinality({p \in Peers(n) : matchIndex'[n][p] >= commitIndex'[n]}) + 1
                        >= Majority
    OBVIOUS
  <2>1. PICK f : f = [x \in Nodes |-> IF x = n THEN LastLogIndex(log[n]) ELSE matchIndex'[n][x]]
    OBVIOUS
  <2>2. MatchTyped' /\ commitIndex'[n] = AdvanceCommitIndex(n, f) BY <2>1, MatchMoves
  <2>3. f \in [Nodes -> Nat]
    <3>1. LastLogIndex(log[n]) \in Nat BY LogTypes DEF QInv, LogsTyped
    <3>2. \A x \in Nodes \ {n} : matchIndex'[n][x] \in Nat BY <2>2 DEF MatchTyped, Peers
    <3> QED BY <2>1, <3>1, <3>2
  <2>4. commitIndex'[n] = Median(f) BY <2>2 DEF AdvanceCommitIndex
  <2>5. PICK v : v = Median(f) OBVIOUS
  <2> DEFINE P == {p \in Peers(n) : matchIndex'[n][p] >= v}
             A == {x \in Nodes : f[x] >= v}
  <2>6. IsFiniteSet(Nodes) BY RaftAssumption
  <2>7. Cardinality(A) >= Cardinality(Nodes) \div 2 + 1 BY <2>3, <2>5, <2>6, MedianMajority
  <2>8. IsFiniteSet(P) /\ P \subseteq Nodes BY <2>6, FS_Subset DEF Peers
  <2>9. A \subseteq P \cup {n} BY <2>1 DEF Peers
  <2>10. IsFiniteSet(P \cup {n}) /\ Cardinality(P \cup {n}) <= Cardinality(P) + 1
    <3> HIDE DEF P
    <3>1. Cardinality(P) \in Nat BY <2>8, FS_CardinalityType
    <3> QED BY <2>8, <3>1, FS_AddElement
  <2>11. Cardinality(A) <= Cardinality(P) + 1
    <3> HIDE DEF A, P
    <3>1. Cardinality(A) <= Cardinality(P \cup {n}) BY <2>9, <2>10, FS_Subset
    <3>2. /\ Cardinality(P) \in Nat /\ Cardinality(P \cup {n}) \in Nat
      BY <2>8, <2>10, FS_CardinalityType
    <3>3. IsFiniteSet(A) /\ Cardinality(A) \in Nat BY <2>9, <2>10, FS_Subset, FS_CardinalityType
    <3> QED BY <2>10, <3>1, <3>2, <3>3
  <2>12. Cardinality(P) + 1 >= Majority
    <3> HIDE DEF A, P
    <3>1. Cardinality(Nodes) \in Nat /\ Cardinality(P) \in Nat
      BY <2>6, <2>8, FS_CardinalityType
    <3>2. Cardinality(A) \in Nat BY <2>9, <2>10, FS_Subset, FS_CardinalityType
    <3> QED BY <2>7, <2>11, <3>1, <3>2 DEF Majority
  <2> QED BY <2>4, <2>5, <2>12
<1>2. QInv => [Quorums]_vars BY <1>1
<1> QED BY <1>2, InitQInv, StepQInv, PTL DEF Spec, CommitQuorum
=============================================================================
