----------------------------- MODULE MvccProofs -----------------------------
(***************************************************************************)
(* Proofs about the version store, for every set of keys and every bound.  *)
(*                                                                         *)
(* The inductive invariant says what find() relies on: a version that has  *)
(* been superseded ended at a snapshot of the past (Closed), a key has     *)
(* exactly the live version it was given last (LiveIsLast), and, while     *)
(* transactions have not overlapped, the only open one began after all     *)
(* there is (Serial).                                                      *)
(***************************************************************************)
EXTENDS Mvcc, FiniteSetTheorems, NatLemmas

\* A superseded version ended at a clock reading.
Closed == \A v \in versions : v.to # Inf => v.to <= clock

\* Numbers identify versions.
Numbered == \A v, w \in versions : v.rec = w.rec => v = w

\* The live version of a key is the one written last.
LiveIsLast ==
  /\ \A v \in versions : v.to = Inf => v.rec = last[v.key]
  /\ \A k \in VersionKey : last[k] # 0 => \E v \in versions : v.key = k /\ v.to = Inf
  /\ \A v \in versions : last[v.key] # 0

\* Without overlap there is one open transaction, the latest of all stamps.
Serial ==
  ~overlapped =>
    /\ \A t, u \in open : t = u
    /\ \A t \in open, v \in versions : v.from <= t.ts /\ (v.to # Inf => v.to <= t.ts)

MInv == MvccTypeOK /\ Closed /\ Numbered /\ LiveIsLast /\ Serial /\ SerialHistory

-----------------------------------------------------------------------------
(* Lemmas                                                                  *)

\* find() returns the version with the least number among those that match.
FirstOf(k, ts) ==
  \/ At(k, ts) = {} /\ ReadAsOfSystem(k, ts) = 0
  \/ \E v \in At(k, ts) : /\ \A w \in At(k, ts) : v.rec <= w.rec
                          /\ ReadAsOfSystem(k, ts) = v.rec

LEMMA ReadIsFirst == MvccTypeOK => \A k \in VersionKey : \A ts \in 0..MaxTime : FirstOf(k, ts)
<1> SUFFICES ASSUME MvccTypeOK, NEW k \in VersionKey, NEW ts \in 0..MaxTime, At(k, ts) # {}
             PROVE  \E v \in At(k, ts) : /\ \A w \in At(k, ts) : v.rec <= w.rec
                                         /\ ReadAsOfSystem(k, ts) = v.rec
  BY DEF FirstOf, ReadAsOfSystem
<1> DEFINE T == {v.rec : v \in At(k, ts)}
<1>1. \A v \in At(k, ts) : v.rec \in Nat BY DEF At, Chain, MvccTypeOK, Version
<1>2. T \subseteq Nat /\ T # {} BY <1>1
<1>3. PICK x \in T : \A y \in T : x <= y BY <1>2, LeastNat
<1>4. \E v \in At(k, ts) : \A w \in At(k, ts) : v.rec <= w.rec BY <1>3
<1> QED BY <1>4 DEF ReadAsOfSystem

\* The same after a step.
LEMMA ReadIsFirstAfter ==
  MvccTypeOK' => (\A k \in VersionKey : \A ts \in 0..MaxTime : FirstOf(k, ts))'
BY ReadIsFirst, PTL

-----------------------------------------------------------------------------
(* The invariant is inductive                                              *)

\* An empty store satisfies it.
LEMMA InitOK == MvccInit => MInv
<1> SUFFICES ASSUME MvccInit PROVE MInv
  OBVIOUS
<1>1. MvccTypeOK
  <2>1. overlapped \in BOOLEAN BY DEF MvccInit
  <2>2. /\ clock \in 0..MaxTime /\ nextTxn \in Nat \ {0} /\ writes \in Nat
        /\ last \in [VersionKey -> 0..writes] /\ horizon \in 0..Inf
    BY MvccAssumption DEF MvccInit, Inf
  <2> QED BY <2>1, <2>2 DEF MvccInit, MvccTypeOK
<1>2. Closed /\ Numbered BY DEF MvccInit, Closed, Numbered
<1>3. LiveIsLast BY DEF MvccInit, LiveIsLast
<1>4. Serial /\ SerialHistory BY DEF MvccInit, Serial, SerialHistory
<1> QED BY <1>1, <1>2, <1>3, <1>4 DEF MInv

\* Time passing moves no stamp.
LEMMA TickOK == ASSUME MInv, Tick PROVE MInv'
<1>1. MvccTypeOK' BY MvccAssumption DEF MInv, Tick, MvccTypeOK, Version, Inf
<1>2. Closed' BY MvccAssumption DEF MInv, Tick, MvccTypeOK, Version, Closed, Inf
<1>3. Numbered' /\ LiveIsLast' BY DEF MInv, Tick, Numbered, LiveIsLast, Inf
<1>4. Serial' /\ SerialHistory' BY DEF MInv, Tick, Serial, SerialHistory, Inf
<1> QED BY <1>1, <1>2, <1>3, <1>4 DEF MInv

\* A transaction that begins alone has the latest stamp.
LEMMA BeginOK == ASSUME MInv, BeginTxn PROVE MInv'
<1>1. MvccTypeOK'
  <2>1. overlapped' \in BOOLEAN BY DEF BeginTxn
  <2>2. open' \subseteq [id : 1..(nextTxn' - 1), ts : 0..clock]
    BY MvccAssumption DEF MInv, BeginTxn, MvccTypeOK
  <2> QED BY <2>1, <2>2 DEF MInv, BeginTxn, MvccTypeOK, Version, Inf
<1>2. Closed' /\ Numbered' /\ LiveIsLast'
  BY DEF MInv, BeginTxn, Closed, Numbered, LiveIsLast, Inf
<1>3. Serial'
  <2> SUFFICES ASSUME ~overlapped'
               PROVE  /\ \A t, u \in open' : t = u
                      /\ \A t \in open', v \in versions :
                           v.from <= t.ts /\ (v.to # Inf => v.to <= t.ts)
    BY DEF Serial, BeginTxn, Inf
  <2>1. open = {} /\ open' = {[id |-> nextTxn, ts |-> clock]} BY DEF BeginTxn
  <2>2. \A v \in versions : v.from <= clock /\ (v.to # Inf => v.to <= clock)
    BY MvccAssumption DEF MInv, MvccTypeOK, Version, Closed
  <2> QED BY <2>1, <2>2
<1>4. SerialHistory' BY DEF MInv, BeginTxn, SerialHistory
<1> QED BY <1>1, <1>2, <1>3, <1>4 DEF MInv

\* Committing only closes the transaction.
LEMMA CommitOK == ASSUME MInv, NEW t \in open, Commit(t) PROVE MInv'
BY DEF MInv, Commit, MvccTypeOK, Version, Closed, Numbered, LiveIsLast, Serial, SerialHistory, Inf

\* Garbage collection removes no live version.
LEMMA GcOK == ASSUME MInv, NEW before \in 0..Inf, Gc(before) PROVE MInv'
<1>1. versions' \subseteq versions /\ UNCHANGED <<clock, nextTxn, open, writes, last, overlapped>>
  BY DEF Gc
<1>2. MvccTypeOK' BY <1>1, MvccAssumption DEF MInv, Gc, MvccTypeOK, Version, Inf
<1>3. Closed' /\ Numbered' BY <1>1 DEF MInv, Closed, Numbered, Inf
<1>4. \A v \in versions : v.to = Inf => v \in versions'
  BY MvccAssumption DEF Gc, Inf
<1>5. LiveIsLast' BY <1>1, <1>4 DEF MInv, LiveIsLast, Inf
<1>6. Serial' /\ SerialHistory' BY <1>1 DEF MInv, Serial, SerialHistory, Inf
<1> QED BY <1>2, <1>3, <1>5, <1>6 DEF MInv

\* What write() leaves: the new version, the other keys' and the closed ones
\* as they were, and the live one of the key closed at the snapshot.
LEMMA WriteVersions ==
  ASSUME MInv, NEW t \in open, NEW k \in VersionKey, NEW valid \in ValidTimes, Write(t, k, valid),
         NEW v \in versions'
  PROVE  \/ v = [key |-> k, rec |-> writes + 1, from |-> t.ts, to |-> Inf, valid |-> valid]
         \/ v \in versions /\ ~(v.key = k /\ v.to = Inf)
         \/ \E w \in versions : /\ w.key = k /\ w.to = Inf
                                /\ v = [w EXCEPT !.to = t.ts]
BY DEF Write, Live, Chain

\* A write preserves the invariant.
LEMMA WriteOK ==
  ASSUME MInv, NEW t \in open, NEW k \in VersionKey, NEW valid \in ValidTimes, Write(t, k, valid)
  PROVE  MInv'
<1> DEFINE new == [key |-> k, rec |-> writes + 1, from |-> t.ts, to |-> Inf, valid |-> valid]
<1>0. /\ writes' = writes + 1 /\ last' = [last EXCEPT ![k] = writes + 1]
      /\ UNCHANGED <<clock, nextTxn, open, horizon, overlapped>>
  BY DEF Write
<1>1. /\ MaxTime \in Nat /\ Inf \in Nat /\ t.ts \in 0..clock /\ clock \in 0..MaxTime
      /\ writes \in Nat /\ Inf > clock /\ last \in [VersionKey -> 0..writes]
  BY MvccAssumption DEF MInv, MvccTypeOK, Inf
<1>2. \A v \in versions : /\ v \in [key : VersionKey, rec : 1..writes, from : 0..clock,
                                    to : 0..Inf, valid : ValidTimes]
                          /\ v.rec < writes + 1
  BY <1>1 DEF MInv, MvccTypeOK, Version
<1>3. \A v \in versions' :
        \/ v = new
        \/ v \in versions /\ ~(v.key = k /\ v.to = Inf)
        \/ \E w \in versions : w.key = k /\ w.to = Inf /\ v = [w EXCEPT !.to = t.ts]
  BY WriteVersions
<1>4. MvccTypeOK'
  <2>1. new \in Version' BY <1>0, <1>1 DEF Version
  <2>2. \A v \in versions : v \in Version' BY <1>0, <1>1, <1>2 DEF Version
  <2>3. \A w \in versions : [w EXCEPT !.to = t.ts] \in Version'
    BY <1>0, <1>1, <1>2 DEF Version
  <2>4. versions' \subseteq Version' BY <1>3, <2>1, <2>2, <2>3
  <2>5. last' \in [VersionKey -> 0..writes'] BY <1>0, <1>1
  <2> QED BY <1>0, <1>1, <2>4, <2>5 DEF MInv, MvccTypeOK
<1>5. Closed'
  <2> SUFFICES ASSUME NEW v \in versions', v.to # Inf PROVE v.to <= clock
    BY <1>0 DEF Closed, Inf
  <2> QED BY <1>1, <1>2, <1>3 DEF MInv, Closed
<1>6. Numbered'
  <2>1. \A v \in versions' : v = new \/ \E w \in versions :
          w.rec = v.rec /\ v = IF w.key = k /\ w.to = Inf THEN [w EXCEPT !.to = t.ts] ELSE w
    BY <1>2, <1>3
  <2> SUFFICES ASSUME NEW v \in versions', NEW w \in versions', v.rec = w.rec PROVE v = w
    BY DEF Numbered
  <2>2. CASE v = new /\ w = new BY <2>2
  <2>3. CASE v # new /\ w # new BY <2>1, <2>3 DEF MInv, Numbered
  <2>4. CASE v = new /\ w # new BY <1>1, <1>2, <2>1, <2>4
  <2>5. CASE v # new /\ w = new BY <1>1, <1>2, <2>1, <2>5
  <2> QED BY <2>2, <2>3, <2>4, <2>5
<1>7. LiveIsLast'
  <2>1. new \in versions' BY DEF Write
  <2>2. \A j \in VersionKey : j # k => \A v \in versions : v.key = j => v \in versions'
    BY DEF Write, Live, Chain
  <2>3. \A v \in versions' : v.to = Inf => v.rec = last'[v.key]
    <3> SUFFICES ASSUME NEW v \in versions', v.to = Inf PROVE v.rec = last'[v.key]
      OBVIOUS
    <3>1. CASE v = new BY <1>0, <1>1, <3>1
    <3>2. CASE v \in versions /\ v.key # k
      BY <1>0, <1>1, <1>2, <3>2 DEF MInv, LiveIsLast
    <3> QED BY <1>1, <1>2, <1>3, <3>1, <3>2
  <2>4. \A j \in VersionKey : last'[j] # 0 => \E v \in versions' : v.key = j /\ v.to = Inf
    <3> SUFFICES ASSUME NEW j \in VersionKey, last'[j] # 0
                 PROVE  \E v \in versions' : v.key = j /\ v.to = Inf
      OBVIOUS
    <3>1. CASE j = k BY <2>1, <3>1
    <3>2. CASE j # k BY <1>0, <1>1, <2>2, <3>2 DEF MInv, LiveIsLast
    <3> QED BY <3>1, <3>2
  <2>5. \A v \in versions' : last'[v.key] # 0
    BY <1>0, <1>1, <1>2, <1>3 DEF MInv, LiveIsLast
  <2> QED BY <2>3, <2>4, <2>5 DEF LiveIsLast, Inf
<1>8. Serial'
  <2> SUFFICES ASSUME ~overlapped, NEW u \in open, NEW v \in versions'
               PROVE  v.from <= u.ts /\ (v.to # Inf => v.to <= u.ts)
    BY <1>0 DEF MInv, Serial, Inf
  <2>1. u = t BY DEF MInv, Serial
  <2> QED BY <1>1, <1>2, <1>3, <2>1 DEF MInv, Serial
<1>9. SerialHistory'
  <2> SUFFICES ASSUME ~overlapped, NEW v \in versions', NEW w \in versions',
                      v.key = w.key, v.rec < w.rec
               PROVE  v.from <= w.from /\ v.to <= w.from
    BY <1>0 DEF SerialHistory
  <2>0. w.rec \in 1..(writes + 1) BY <1>0, <1>4 DEF MvccTypeOK, Version
  <2>1. v # new BY <1>1, <2>0
  <2>2. PICK x \in versions : /\ x.rec = v.rec /\ x.from = v.from /\ x.key = v.key
                              /\ \/ v = x /\ ~(x.key = k /\ x.to = Inf)
                                 \/ v.to = t.ts /\ x.key = k /\ x.to = Inf
    BY <1>2, <1>3, <2>1
  <2>3. CASE w = new
    <3>1. x.key = k BY <2>2, <2>3
    <3> QED BY <1>1, <1>2, <2>2, <2>3, <3>1 DEF MInv, Serial
  <2>4. CASE w # new
    <3>1. PICK y \in versions : y.rec = w.rec /\ y.from = w.from /\ y.key = w.key
      BY <1>2, <1>3, <2>4
    <3>2. x.from <= y.from /\ x.to <= y.from BY <2>2, <3>1 DEF MInv, SerialHistory
    <3>3. x.to # Inf BY <1>1, <1>2, <3>2
    <3> QED BY <2>2, <3>1, <3>2, <3>3
  <2> QED BY <2>3, <2>4
<1> QED BY <1>4, <1>5, <1>6, <1>7, <1>8, <1>9 DEF MInv

\* Every step preserves the invariant.
LEMMA NextOK == MInv /\ [MvccNext]_mvccVars => MInv'
<1> SUFFICES ASSUME MInv, [MvccNext]_mvccVars PROVE MInv'
  OBVIOUS
<1>1. CASE UNCHANGED mvccVars
  BY <1>1 DEF mvccVars, MInv, MvccTypeOK, Version, Closed, Numbered, LiveIsLast, Serial,
              SerialHistory, Inf
<1>2. CASE MvccNext BY <1>2, TickOK, BeginOK, CommitOK, WriteOK, GcOK DEF MvccNext
<1> QED BY <1>1, <1>2

\* It is an invariant of the store.
LEMMA Invariance == MvccSpec => []MInv
BY InitOK, NextOK, PTL DEF MvccSpec

-----------------------------------------------------------------------------
(* What follows from it                                                    *)

\* The store's state keeps its types; stamps lie in the past.
THEOREM TypeCorrect == MvccSpec => []MvccTypeOK
BY Invariance, PTL DEF MInv

\* write() and gc() keep exactly one live version of every key written, the
\* one pushed last.
THEOREM OneCurrentHolds == MvccSpec => []OneCurrent
<1>1. MInv => OneCurrent
  <2> SUFFICES ASSUME MInv, NEW k \in VersionKey
               PROVE  /\ last[k] = 0 => Chain(k) = {}
                      /\ last[k] # 0 => /\ Cardinality(Live(k)) = 1
                                        /\ \A v \in Live(k) : v.rec = last[k]
    BY DEF OneCurrent
  <2>1. last[k] = 0 => Chain(k) = {} BY DEF MInv, LiveIsLast, Chain
  <2>2. \A v \in Live(k) : v.rec = last[k] BY DEF MInv, LiveIsLast, Live, Chain
  <2>3. ASSUME last[k] # 0 PROVE Cardinality(Live(k)) = 1
    <3>1. PICK v \in versions : v.key = k /\ v.to = Inf BY <2>3 DEF MInv, LiveIsLast
    <3>2. v \in Live(k) BY <3>1 DEF Live, Chain
    <3>3. \A w \in Live(k) : w = v
      BY <2>2, <3>2 DEF MInv, Numbered, Live, Chain
    <3>4. Live(k) = {v} BY <3>2, <3>3
    <3> QED BY <3>4, FS_Singleton
  <2> QED BY <2>1, <2>2, <2>3
<1> QED BY <1>1, Invariance, PTL

\* read_as_of_system at the present time returns the record written last,
\* in whatever order overlapping transactions wrote.
THEOREM LatestWinsHolds == MvccSpec => []LatestWins
<1>1. MInv => LatestWins
  <2> SUFFICES ASSUME MInv, NEW k \in VersionKey PROVE ReadAsOfSystem(k, clock) = last[k]
    BY DEF LatestWins
  <2>1. \A v \in At(k, clock) : v.rec = last[k]
    BY MvccAssumption DEF At, Chain, MInv, Closed, LiveIsLast, MvccTypeOK, Version, Inf
  <2>2. CASE At(k, clock) = {}
    <3>1. \A v \in versions : v.key = k => v.to # Inf
      BY <2>2, MvccAssumption DEF At, Chain, MInv, MvccTypeOK, Version, Inf
    <3>2. last[k] = 0 BY <3>1 DEF MInv, LiveIsLast
    <3> QED BY <2>2, <3>2 DEF ReadAsOfSystem
  <2>3. CASE At(k, clock) # {} BY <2>1, <2>3, ReadIsFirst DEF MInv, MvccTypeOK, FirstOf
  <2> QED BY <2>2, <2>3
<1> QED BY <1>1, Invariance, PTL

\* Transactions that run one at a time leave every chain sorted by sys_from,
\* with windows that do not overlap.
THEOREM SerialHistoryHolds == MvccSpec => []SerialHistory
BY Invariance, PTL DEF MInv

\* If the versions that match at ts have the same numbers before and after a
\* step, find() returns the same record.
LEMMA SameRead ==
  ASSUME MvccTypeOK, MvccTypeOK', NEW k \in VersionKey, NEW ts \in 0..MaxTime,
         \A v \in At(k, ts) : \E w \in At(k, ts)' : w.rec = v.rec,
         \A w \in At(k, ts)' : \E v \in At(k, ts) : w.rec = v.rec
  PROVE  ReadAsOfSystem(k, ts)' = ReadAsOfSystem(k, ts)
<1>1. FirstOf(k, ts) BY ReadIsFirst
<1>2. FirstOf(k, ts)'
  BY ReadIsFirstAfter
<1>3. /\ \A v \in At(k, ts) : v.rec \in Nat
      /\ \A v \in At(k, ts)' : v.rec \in Nat
  BY DEF At, Chain, MvccTypeOK, Version
<1> QED BY <1>1, <1>2, <1>3 DEF FirstOf

\* A write changes no read at a time before the writer's snapshot.
LEMMA WriteKeepsPast ==
  ASSUME MInv, MInv', NEW t \in open, NEW j \in VersionKey, NEW valid \in ValidTimes,
         Write(t, j, valid), NEW k \in VersionKey, NEW ts \in 0..MaxTime, ts < t.ts
  PROVE  ReadAsOfSystem(k, ts)' = ReadAsOfSystem(k, ts)
<1> DEFINE new == [key |-> j, rec |-> writes + 1, from |-> t.ts, to |-> Inf, valid |-> valid]
<1>1. MaxTime \in Nat /\ Inf = MaxTime + 1 /\ t.ts \in Nat
  BY MvccAssumption DEF MInv, MvccTypeOK, Inf
<1>2. \A v \in versions : v \in [key : VersionKey, rec : 1..writes, from : 0..clock,
                                 to : 0..Inf, valid : ValidTimes]
  BY DEF MInv, MvccTypeOK, Version
<1>3. ASSUME NEW v \in At(k, ts) PROVE \E w \in At(k, ts)' : w.rec = v.rec
  <2>1. v \in versions /\ v.key = k /\ v.from <= ts /\ ts < v.to BY <1>3 DEF At, Chain
  <2>2. CASE v \in Live(j)
    <3>1. [v EXCEPT !.to = t.ts] \in versions' BY <2>2 DEF Write
    <3>2. [v EXCEPT !.to = t.ts] \in At(k, ts)' BY <1>1, <1>2, <2>1, <3>1 DEF At, Chain
    <3> QED BY <1>2, <2>1, <3>2
  <2>3. CASE v \notin Live(j)
    <3>1. v \in versions' BY <2>1, <2>3 DEF Write
    <3> QED BY <2>1, <3>1 DEF At, Chain
  <2> QED BY <2>2, <2>3
<1>4. ASSUME NEW w \in At(k, ts)' PROVE \E v \in At(k, ts) : w.rec = v.rec
  <2>1. w \in versions' /\ w.key = k /\ w.from <= ts /\ ts < w.to BY <1>4 DEF At, Chain
  <2>2. w # new BY <1>1, <2>1
  <2>3. CASE w \in versions BY <2>1, <2>3 DEF At, Chain
  <2>4. CASE \E v \in versions : v.key = j /\ v.to = Inf /\ w = [v EXCEPT !.to = t.ts]
    <3> PICK v \in versions : v.key = j /\ v.to = Inf /\ w = [v EXCEPT !.to = t.ts]
      BY <2>4
    <3>1. v.key = k /\ v.from <= ts /\ v.rec = w.rec BY <1>2, <2>1
    <3>2. ts < v.to BY <1>1
    <3> QED BY <3>1, <3>2 DEF At, Chain
  <2> QED BY <2>1, <2>2, <2>3, <2>4, WriteVersions
<1> QED BY <1>3, <1>4, SameRead DEF MInv

\* Garbage collection changes no read at or after its horizon.
LEMMA GcKeepsRecent ==
  ASSUME MInv, MInv', NEW before \in 0..Inf, Gc(before),
         NEW k \in VersionKey, NEW ts \in 0..MaxTime, ts + 1 >= before
  PROVE  ReadAsOfSystem(k, ts)' = ReadAsOfSystem(k, ts)
<1>1. At(k, ts)' = At(k, ts)
  <2>1. MaxTime \in Nat /\ Inf \in Nat BY MvccAssumption DEF Inf
  <2>2. \A v \in versions : v.to \in Nat BY <2>1 DEF MInv, MvccTypeOK, Version
  <2>3. versions' = {v \in versions : v.to >= before} BY DEF Gc
  <2>4. \A v \in versions : ts < v.to => v \in versions' BY <2>1, <2>2, <2>3
  <2> QED BY <2>3, <2>4 DEF At, Chain
<1> QED BY <1>1 DEF ReadAsOfSystem

\* A read at system time ts changes only while a transaction that began at
\* ts or before is open, or when gc() is asked to go past ts.
THEOREM PastUnchangedHolds == MvccSpec => PastUnchanged
<1> DEFINE Kept == \A k \in VersionKey : \A ts \in 0..MaxTime :
                     ReadAsOfSystem(k, ts)' # ReadAsOfSystem(k, ts) =>
                       \/ \E t \in open : t.ts <= ts
                       \/ ts + 1 < horizon'
<1>1. MInv /\ MInv' /\ [MvccNext]_mvccVars => [Kept]_mvccVars
  <2> SUFFICES ASSUME MInv, MInv', MvccNext, NEW k \in VersionKey, NEW ts \in 0..MaxTime,
                      \A t \in open : ~(t.ts <= ts), ~(ts + 1 < horizon')
               PROVE  ReadAsOfSystem(k, ts)' = ReadAsOfSystem(k, ts)
    OBVIOUS
  <2>1. CASE UNCHANGED versions BY <2>1 DEF ReadAsOfSystem, At, Chain
  <2>2. ASSUME NEW t \in open, NEW j \in VersionKey, NEW valid \in ValidTimes, Write(t, j, valid)
        PROVE  ReadAsOfSystem(k, ts)' = ReadAsOfSystem(k, ts)
    <3>1. ts < t.ts BY MvccAssumption DEF MInv, MvccTypeOK
    <3> QED BY <2>2, <3>1, WriteKeepsPast
  <2>3. ASSUME NEW before \in 0..Inf, Gc(before)
        PROVE  ReadAsOfSystem(k, ts)' = ReadAsOfSystem(k, ts)
    <3>1. before <= horizon' BY <2>3, MvccAssumption DEF Gc, MInv, MvccTypeOK, Inf
    <3>2. ts + 1 >= before BY <2>3, <3>1, MvccAssumption DEF MInv, MvccTypeOK, Inf
    <3> QED BY <2>3, <3>2, GcKeepsRecent
  <2> QED BY <2>1, <2>2, <2>3 DEF MvccNext, Tick, BeginTxn, Commit
<1> QED BY <1>1, Invariance, PTL DEF MvccSpec, PastUnchanged
\* A valid-time query loses a record only to gc(), and then the record's
\* system time is over: no read at or after the horizon returns it.
THEOREM ValidHistoryHolds == MvccSpec => ValidHistory
<1> DEFINE Hist == \A k \in VersionKey : \A w \in ValidTimes :
                     \A r \in ReadAsOfValid(k, w.from, w.to) \ ReadAsOfValid(k, w.from, w.to)' :
                       \A ts \in horizon'..MaxTime : ReadAsOfSystem(k, ts) # r
<1>1. MInv /\ [MvccNext]_mvccVars => [Hist]_mvccVars
  <2> SUFFICES ASSUME MInv, MvccNext, NEW k \in VersionKey, NEW w \in ValidTimes,
                      NEW r \in ReadAsOfValid(k, w.from, w.to), r \notin ReadAsOfValid(k, w.from, w.to)',
                      NEW ts \in horizon'..MaxTime
               PROVE  ReadAsOfSystem(k, ts) # r
    OBVIOUS
  <2>0. /\ \A v \in versions : /\ v.rec \in 1..writes /\ v.to \in Nat /\ v.from \in Nat
                               /\ v.key \in VersionKey /\ v.valid \in ValidTimes
        /\ MaxTime \in Nat /\ horizon \in Nat /\ Inf \in Nat
    BY MvccAssumption DEF MInv, MvccTypeOK, Version, Inf
  <2>1. PICK v \in versions : /\ v.key = k /\ v.rec = r
                              /\ v.valid.from < w.to /\ v.valid.to > w.from
    BY DEF ReadAsOfValid, Chain
  <2>2. ASSUME NEW u \in versions', u.key = k, u.rec = r, u.valid = v.valid PROVE FALSE
    BY <2>1, <2>2 DEF ReadAsOfValid, Chain
  <2>3. v \notin versions' BY <2>1, <2>2
  <2>4. ASSUME NEW t \in open, NEW j \in VersionKey, NEW valid \in ValidTimes, Write(t, j, valid)
        PROVE  FALSE
    <3>1. v \in Live(j) BY <2>3, <2>4 DEF Write
    <3>2. [v EXCEPT !.to = t.ts] \in versions' BY <2>4, <3>1 DEF Write
    <3>3. /\ [v EXCEPT !.to = t.ts].key = k /\ [v EXCEPT !.to = t.ts].rec = r
          /\ [v EXCEPT !.to = t.ts].valid = v.valid
      BY <2>1 DEF MInv, MvccTypeOK, Version
    <3> QED BY <2>2, <3>2, <3>3
  <2>5. PICK before \in 0..Inf : Gc(before)
    BY <2>3, <2>4 DEF MvccNext, Tick, BeginTxn, Commit
  <2>6. v.to < before /\ before <= ts
    BY <2>0, <2>3, <2>5 DEF Gc
  <2>7. \A u \in At(k, ts) : u.rec # r
    BY <2>0, <2>1, <2>6 DEF At, Chain, MInv, Numbered
  <2>8. r # 0 BY <2>0, <2>1
  <2>9. ts \in 0..MaxTime BY <2>0, <2>5 DEF Gc
  <2> QED BY <2>7, <2>8, <2>9, ReadIsFirst DEF FirstOf, MInv
<1> QED BY <1>1, Invariance, PTL DEF MvccSpec, ValidHistory
=============================================================================
