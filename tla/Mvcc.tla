-------------------------------- MODULE Mvcc --------------------------------
(***************************************************************************)
(* The bitemporal version store (fundb-storage: mvcc.rs).                  *)
(*                                                                         *)
(* A transaction takes its snapshot timestamp when it begins and stamps    *)
(* every version it writes with it, whenever the write happens; commit is  *)
(* a no-op and a write is visible at once.  Transactions overlap, so       *)
(* versions of one key may be written in another order than their stamps.  *)
(*                                                                         *)
(* The Vec of versions of a key is the set of its versions ordered by      *)
(* their number `rec`, which also names the record: versions are pushed at *)
(* the end and removed anywhere.                                           *)
(***************************************************************************)
EXTENDS Integers, FiniteSets

CONSTANTS
  VersionKey,
  ValidTimes,   \* the valid-time windows records carry: [from, to]
  MaxTime,      \* bound: the clock
  MaxTxns,      \* bound: transactions begun
  MaxWrites     \* bound: versions written

ASSUME MvccAssumption ==
  /\ {MaxTime, MaxTxns, MaxWrites} \subseteq Nat
  /\ ValidTimes \subseteq [from : Int, to : Int]

\* i64::MAX, which no clock reading reaches.
Inf == MaxTime + 1

VARIABLES
  clock,      \* the wall clock
  nextTxn,    \* next_txn
  open,       \* transactions begun and not committed: [id, ts]
  versions,   \* all version chains: [key, rec, from, to, valid]
  writes,     \* history: versions written so far
  last,       \* history: last[k], the record written last under k
  horizon,    \* history: the largest argument of gc
  overlapped  \* history: has a transaction begun while another was open?

mvccVars == <<clock, nextTxn, open, versions, writes, last, horizon, overlapped>>

Chain(k) == {v \in versions : v.key = k}

-----------------------------------------------------------------------------
(* Reads                                                                   *)

\* Versions of k for which sys_from <= ts < sys_to.
At(k, ts) == {v \in Chain(k) : v.from <= ts /\ ts < v.to}

\* read_as_of_system: the first such version in the Vec; 0 for None.
ReadAsOfSystem(k, ts) ==
  IF At(k, ts) = {} THEN 0
  ELSE (CHOOSE v \in At(k, ts) : \A w \in At(k, ts) : v.rec <= w.rec).rec

\* read_as_of_valid: the versions whose window meets [from, to).
ReadAsOfValid(k, from, to) ==
  {v.rec : v \in {w \in Chain(k) : w.valid.from < to /\ w.valid.to > from}}

-----------------------------------------------------------------------------
(* Operations                                                              *)

\* Time passes between calls.  The wall clock is taken to be monotonic and
\* may stand still between two readings.
Tick ==
  /\ clock < MaxTime
  /\ clock' = clock + 1
  /\ UNCHANGED <<nextTxn, open, versions, writes, last, horizon, overlapped>>

\* Mutant: the snapshot is one tick ahead of the clock.
BeginTxnMutant ==
  /\ nextTxn <= MaxTxns
  /\ open' = open \cup {[id |-> nextTxn, ts |-> clock + 1]}
  /\ nextTxn' = nextTxn + 1
  /\ overlapped' = (overlapped \/ open # {})
  /\ UNCHANGED <<clock, versions, writes, last, horizon>>

BeginTxn ==
  /\ nextTxn <= MaxTxns
  /\ open' = open \cup {[id |-> nextTxn, ts |-> clock]}
  /\ nextTxn' = nextTxn + 1
  /\ overlapped' = (overlapped \/ open # {})
  /\ UNCHANGED <<clock, versions, writes, last, horizon>>

\* The version to close: at most one has sys_to = i64::MAX.
Live(k) == {v \in Chain(k) : v.to = Inf}

\* Mutant: the live version is not superseded.
WriteMutant(t, k, valid) ==
  /\ writes < MaxWrites
  /\ writes' = writes + 1
  /\ versions' = versions \cup {[key |-> k, rec |-> writes + 1, from |-> t.ts,
                                 to |-> Inf, valid |-> valid]}
  /\ last' = [last EXCEPT ![k] = writes + 1]
  /\ UNCHANGED <<clock, nextTxn, open, horizon, overlapped>>

\* Mutant: a version is stamped when it is written, and closes the live one
\* then, but keeps the snapshot as its own start.
WriteLateMutant(t, k, valid) ==
  /\ writes < MaxWrites
  /\ writes' = writes + 1
  /\ versions' = (versions \ Live(k))
                   \cup {[v EXCEPT !.to = clock] : v \in Live(k)}
                   \cup {[key |-> k, rec |-> writes + 1, from |-> t.ts,
                          to |-> Inf, valid |-> valid]}
  /\ last' = [last EXCEPT ![k] = writes + 1]
  /\ UNCHANGED <<clock, nextTxn, open, horizon, overlapped>>

Write(t, k, valid) ==
  /\ writes < MaxWrites
  /\ writes' = writes + 1
  /\ versions' = (versions \ Live(k))
                   \cup {[v EXCEPT !.to = t.ts] : v \in Live(k)}
                   \cup {[key |-> k, rec |-> writes + 1, from |-> t.ts,
                          to |-> Inf, valid |-> valid]}
  /\ last' = [last EXCEPT ![k] = writes + 1]
  /\ UNCHANGED <<clock, nextTxn, open, horizon, overlapped>>

\* commit() takes the transaction by value and does nothing else.
Commit(t) ==
  /\ open' = open \ {t}
  /\ UNCHANGED <<clock, nextTxn, versions, writes, last, horizon, overlapped>>

\* Mutant: versions are collected by the end of their valid time.
GcValidMutant(before) ==
  /\ versions' = {v \in versions : v.valid.to >= before}
  /\ horizon' = IF before > horizon THEN before ELSE horizon
  /\ UNCHANGED <<clock, nextTxn, open, writes, last, overlapped>>

\* Mutant: off by one, a version that ends at the horizon goes too.
GcMutant(before) ==
  /\ versions' = {v \in versions : v.to > before}
  /\ horizon' = IF before > horizon THEN before ELSE horizon
  /\ UNCHANGED <<clock, nextTxn, open, writes, last, overlapped>>

Gc(before) ==
  /\ versions' = {v \in versions : v.to >= before}
  /\ horizon' = IF before > horizon THEN before ELSE horizon
  /\ UNCHANGED <<clock, nextTxn, open, writes, last, overlapped>>

-----------------------------------------------------------------------------

MvccInit ==
  /\ clock = 0 /\ nextTxn = 1 /\ open = {} /\ versions = {}
  /\ writes = 0 /\ last = [k \in VersionKey |-> 0]
  /\ horizon = 0 /\ overlapped = FALSE

MvccNext ==
  \/ Tick \/ BeginTxn
  \/ \E t \in open : Commit(t) \/ \E k \in VersionKey, valid \in ValidTimes : Write(t, k, valid)
  \/ \E before \in 0..Inf : Gc(before)

MvccSpec == MvccInit /\ [][MvccNext]_mvccVars

-----------------------------------------------------------------------------
(* Properties                                                              *)

Version == [key : VersionKey, rec : 1..writes, from : 0..clock, to : 0..Inf, valid : ValidTimes]

\* Stamps never lie in the future and record numbers are the ones handed out.
MvccTypeOK ==
  /\ clock \in 0..MaxTime /\ nextTxn \in Nat \ {0} /\ writes \in Nat
  /\ open \subseteq [id : 1..(nextTxn - 1), ts : 0..clock]
  /\ versions \subseteq Version
  /\ last \in [VersionKey -> 0..writes]
  /\ horizon \in 0..Inf /\ overlapped \in BOOLEAN

\* "The current (live) version always has sys_to == i64::MAX" (mvcc.rs:50):
\* a key that was ever written keeps exactly one live version, the one
\* pushed last, through out-of-order writers and garbage collection.
OneCurrent ==
  \A k \in VersionKey : /\ last[k] = 0 => Chain(k) = {}
                 /\ last[k] # 0 => /\ Cardinality(Live(k)) = 1
                                   /\ \A v \in Live(k) : v.rec = last[k]

\* A read at the present time returns the record written last, although
\* find() takes the first version that matches and writers stamp versions
\* with snapshots of the past.
LatestWins == \A k \in VersionKey : ReadAsOfSystem(k, clock) = last[k]

\* The isolation write() and gc() really give: what a read at system time ts
\* returns changes only while some transaction that began at ts or before is
\* still open, or when gc() is asked to go past ts.
PastUnchanged ==
  [][\A k \in VersionKey : \A ts \in 0..MaxTime :
       ReadAsOfSystem(k, ts)' # ReadAsOfSystem(k, ts) =>
         \/ \E t \in open : t.ts <= ts
         \/ ts + 1 < horizon']_mvccVars

\* "sorted ascending by sys_from" (mvcc.rs:49), with system-time windows
\* that do not overlap: so long as transactions run one at a time.
SerialHistory ==
  ~overlapped =>
    \A v, w \in versions :
      v.key = w.key /\ v.rec < w.rec => v.from <= w.from /\ v.to <= w.from

\* Valid-time queries keep their history as long as system-time ones: gc()
\* takes a record out of read_as_of_valid only if no read_as_of_system at or
\* after the horizon returns it any more.
ValidHistory ==
  [][\A k \in VersionKey : \A w \in ValidTimes :
       \A r \in ReadAsOfValid(k, w.from, w.to) \ ReadAsOfValid(k, w.from, w.to)' :
         \A ts \in horizon'..MaxTime : ReadAsOfSystem(k, ts) # r]_mvccVars
=============================================================================
