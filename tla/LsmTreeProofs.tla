--------------------------- MODULE LsmTreeProofs ---------------------------
(***************************************************************************)
(* What holds of the LSM tree for every set of keys and callers, every     *)
(* compaction policy and every value of the bounds: its types and the log  *)
(* (TypeOK, WriteAhead), then what its files keep.                         *)
(*                                                                         *)
(* WriteAhead is not inductive: MemTable::insert takes the record a caller *)
(* carries since its WAL append, so the invariant must also say that this  *)
(* record's frame is complete. The inductive invariant is split into what  *)
(* it says of the shared state and what it says of the callers, because    *)
(* most actions touch only one of them.                                    *)
(*                                                                         *)
(* A file name is used once (Named). A compaction that may delete its      *)
(* inputs has put their keys into a file with a later name; if another     *)
(* compaction deletes that file too, its keys are in one with a name later *)
(* still (Merged): concurrent compactions never wait for each other and    *)
(* never delete a key in a circle. That a frozen memtable is dropped only  *)
(* for an SSTable that has its keys (Flushed) needs MaxFlushes = 1,        *)
(* because the task finds its memtable by an index that other flushes may  *)
(* move. What is acknowledged is in the log, before the frame a crash may  *)
(* have cut short (LogOK), so replay finds it.                             *)
(*                                                                         *)
(* With one caller and a disk that works, all this is a key-value store    *)
(* (ImplementsKvStoreHolds, the last part).                                *)
(***************************************************************************)
EXTENDS MCLsmTree, NatLemmas, SequenceTheorems, FiniteSetTheorems, TLAPS

-----------------------------------------------------------------------------
(* Types and the log. *)

StoreOK ==
  /\ up \in BOOLEAN
  /\ wal \in Seq(Frame)
  /\ active \in Layer /\ Logged(active)
  /\ size \in Nat /\ now \in Nat /\ crashes \in Nat /\ ioErrors \in Nat
  /\ immutables \in Seq(Layer)
  /\ \A i \in 1..Len(immutables) : Logged(immutables[i])
  /\ files \subseteq [ts : Nat, whole : BOOLEAN, data : Layer]
  /\ \A f \in files : Logged(f.data)
  /\ cache \subseteq [ts : Nat, key : Key, lsn : Nat]
  /\ \A e \in cache : LoggedEntry(e.key, e.lsn)
  /\ tasks \subseteq [ts : Nat, idx : Nat, data : Layer,
                      pc : {"read", "create", "finish", "reopen", "remove"}]
  /\ \A t \in tasks : Logged(t.data)

\* The record a caller is about to insert is completely in the log.
Carries(c) == loc[c].lsn \in 1..Len(wal) /\ wal[loc[c].lsn].whole

CallerOK ==
  /\ pc \in [Client -> Label]
  /\ loc \in [Client -> Locals]
  /\ reply \in [Client -> [status : {"none", "ok", "err"}, val : Layer]]
  /\ latest \in Layer /\ acked \subseteq Nat
  /\ seen \in [Client -> [Key -> SUBSET Nat]]
  /\ \A c \in Client : Logged(loc[c].hand) /\ Logged(reply[c].val)
  /\ \A c \in Client : pc[c] = "insert" => Carries(c)

IInv == StoreOK /\ CallerOK

\* The inductive invariant implies both properties.
LEMMA IInvImplies == IInv => TypeOK /\ WriteAhead
BY DEF IInv, StoreOK, CallerOK, TypeOK, WriteAhead

-----------------------------------------------------------------------------
(* Runs and records                                                        *)

\* Merging two runs makes a run, logged if both are.
LEMMA OverLayer ==
  ASSUME NEW a \in Layer, NEW b \in Layer
  PROVE  /\ Over(a, b) \in Layer
         /\ Logged(a) /\ Logged(b) => Logged(Over(a, b))
BY DEF Over, Layer, Logged

\* The empty run is a logged run.
LEMMA EmptyLayer == EmptyRun \in Layer /\ Logged(EmptyRun)
BY DEF EmptyRun, Layer, Logged, LoggedEntry

\* Hiding tombstones keeps a record a record.
LEMMA VisibleRecord ==
  ASSUME NEW k \in Key, NEW l \in Nat
  PROVE  /\ Visible(l) \in Nat
         /\ LoggedEntry(k, l) => LoggedEntry(k, Visible(l))
BY DEF Visible, LoggedEntry

\* Frames are only ever appended, so what was logged stays logged.
LEMMA LogGrows ==
  ASSUME wal \in Seq(Frame), NEW f \in Frame, wal' = Append(wal, f)
  PROVE  /\ wal' \in Seq(Frame)
         /\ \A k, l : LoggedEntry(k, l) => LoggedEntry(k, l)'
         /\ \A run : Logged(run) => Logged(run)'
BY DEF LoggedEntry, Logged

\* Nor is anything lost from a log that does not change.
LEMMA LogSame ==
  ASSUME UNCHANGED wal
  PROVE  /\ \A k, l : LoggedEntry(k, l) => LoggedEntry(k, l)'
         /\ \A run : Logged(run) => Logged(run)'
BY DEF LoggedEntry, Logged

\* What an openable SSTable holds is the data of a file in the directory.
LEMMA ContentsOfFile ==
  ASSUME StoreOK, NEW t, Openable(t)
  PROVE  Contents(t) \in Layer /\ Logged(Contents(t))
<1> DEFINE f == CHOOSE f \in files : f.ts = t /\ f.whole
<1>1. f \in files BY DEF Openable
<1> QED BY <1>1 DEF StoreOK, Contents

\* A single found record makes a logged answer.
LEMMA SingleRecord ==
  ASSUME NEW k \in Key, NEW l \in Nat, LoggedEntry(k, l)
  PROVE  /\ [EmptyRun EXCEPT ![k] = Visible(l)] \in Layer
         /\ Logged([EmptyRun EXCEPT ![k] = Visible(l)])
BY VisibleRecord, EmptyLayer DEF Layer, Logged, EmptyRun

-----------------------------------------------------------------------------
(* Steps of a caller that leave the shared state alone                     *)

\* Nothing shared changes: the shared part of the invariant stays.
LEMMA SharedUnchanged ==
  ASSUME StoreOK, UNCHANGED <<disk, memory, faults>>
  PROVE  StoreOK'
BY DEF StoreOK, disk, memory, faults, Logged, LoggedEntry

\* The local variables of an idle caller are well typed and hold nothing
\* unlogged.
LEMMA NoLocalsOK == NoLocals \in Locals /\ Logged(NoLocals.hand)
BY EmptyLayer DEF NoLocals, Locals

\* A caller moves to a label other than "insert" with new local variables.
LEMMA CallerMoves ==
  ASSUME CallerOK, NEW c \in Client, NEW l \in Label \ {"insert"},
         NEW r \in Locals, Logged(r.hand),
         pc' = [pc EXCEPT ![c] = l], loc' = [loc EXCEPT ![c] = r],
         UNCHANGED <<wal, reply, history>>
  PROVE  CallerOK'
BY DEF CallerOK, history, Logged, LoggedEntry, Carries

\* A call returns a logged answer.
LEMMA CallerReturns ==
  ASSUME CallerOK, NEW c \in Client, NEW status \in {"ok", "err"},
         NEW val \in Layer, Logged(val),
         Return(c, status, val), UNCHANGED wal
  PROVE  CallerOK'
<1>1. pc' \in [Client -> Label] /\ pc'[c] = "idle"
  BY DEF CallerOK, Return, Goto, Label
<1>2. loc' \in [Client -> Locals] /\ loc'[c] = NoLocals
  BY NoLocalsOK DEF CallerOK, Return
<1>3. /\ reply' \in [Client -> [status : {"none", "ok", "err"}, val : Layer]]
      /\ reply'[c].val = val
  BY DEF CallerOK, Return
<1>4. latest' \in Layer /\ acked' \subseteq Nat
  BY DEF CallerOK, Return, Locals
<1>5. seen' \in [Client -> [Key -> SUBSET Nat]]
  BY DEF CallerOK, Return, NothingSeen
<1>6. \A d \in Client \ {c} :
        pc'[d] = pc[d] /\ loc'[d] = loc[d] /\ reply'[d] = reply[d]
  BY DEF CallerOK, Return, Goto
<1>7. \A d \in Client : Logged(loc[d].hand)' /\ Logged(reply[d].val)'
  <2>1. \A d \in Client : Logged(loc'[d].hand) /\ Logged(reply'[d].val)
    BY <1>2, <1>3, <1>6, NoLocalsOK DEF CallerOK
  <2> QED BY <2>1, LogSame
<1>8. \A d \in Client : pc'[d] = "insert" => Carries(d)'
  BY <1>1, <1>6 DEF CallerOK, Carries
<1> QED BY <1>1, <1>2, <1>3, <1>4, <1>5, <1>7, <1>8 DEF CallerOK

\* A flush or a compaction ends, on its own account or inside a write.
LEMMA CallerReturnsMutation ==
  ASSUME CallerOK, NEW c \in Client, NEW status \in {"ok", "err"},
         ReturnMutation(c, status), UNCHANGED wal
  PROVE  CallerOK'
<1>1. CASE loc[c].lsn # 0
  BY <1>1, EmptyLayer, CallerReturns DEF ReturnMutation
<1>2. CASE loc[c].lsn = 0
  BY <1>2, NoLocalsOK, CallerMoves DEF ReturnMutation, Goto, Label
<1> QED BY <1>1, <1>2

-----------------------------------------------------------------------------
(* One lemma per group of actions                                          *)

\* Wal::append grows the log by a complete frame for the caller's key, which
\* is what the caller needs before it may insert.
LEMMA WalAppendStep ==
  ASSUME IInv, NEW c \in Client, NEW k \in Key, NEW kind \in {"write", "delete"},
         WalAppend(c, k, kind)
  PROVE  IInv'
<1> DEFINE f == [kind |-> kind, key |-> k, whole |-> TRUE]
<1>1. /\ wal \in Seq(Frame) /\ f \in Frame /\ wal' = Append(wal, f)
      /\ UNCHANGED <<memory, files, now, reply, faults, history>>
  BY DEF IInv, StoreOK, Frame, WalAppend
<1>2. StoreOK'
  BY <1>1, LogGrows DEF IInv, StoreOK, memory, faults
<1>3. CallerOK'
  <2>1. /\ Len(wal) + 1 \in Nat
        /\ pc' = [pc EXCEPT ![c] = "insert"]
        /\ loc' = [loc EXCEPT ![c].lsn = Len(wal) + 1]
    BY <1>1 DEF WalAppend, Step, Goto
  <2>2. pc' \in [Client -> Label] /\ loc' \in [Client -> Locals]
    <3>1. pc' \in [Client -> Label] BY <2>1 DEF IInv, CallerOK, Label
    <3>2. PICK n \in Nat : n = Len(wal) + 1 BY <2>1
    <3>3. loc \in [Client -> Locals] /\ loc' = [loc EXCEPT ![c].lsn = n]
      BY <2>1, <3>2 DEF IInv, CallerOK
    <3>4. [loc[c] EXCEPT !.lsn = n] \in Locals BY <3>2, <3>3 DEF Locals
    <3>5. loc' \in [Client -> Locals] BY <3>3, <3>4
    <3> QED BY <3>1, <3>5
  <2>3. \A d \in Client : loc'[d].hand = loc[d].hand
    BY <2>1 DEF IInv, CallerOK, Locals
  <2>4. \A d \in Client : pc'[d] = "insert" => Carries(d)'
    <3> SUFFICES ASSUME NEW d \in Client, pc'[d] = "insert" PROVE Carries(d)'
      OBVIOUS
    <3>1. CASE d = c
      BY <1>1, <2>1, <3>1 DEF IInv, CallerOK, Locals, Carries
    <3>2. CASE d # c
      BY <1>1, <2>1, <3>2 DEF IInv, CallerOK, Locals, Carries
    <3> QED BY <3>1, <3>2
  <2> QED BY <1>1, <2>2, <2>3, <2>4, LogGrows DEF IInv, CallerOK, history
<1> QED BY <1>2, <1>3 DEF IInv

\* A failed append leaves a bad frame at the end: nothing refers to it.
LEMMA WalAppendFailsStep ==
  ASSUME IInv, NEW c \in Client, NEW k \in Key, NEW kind \in {"write", "delete"},
         WalAppendFails(c, k, kind)
  PROVE  IInv'
<1> DEFINE f == [kind |-> kind, key |-> k, whole |-> FALSE]
<1>1. /\ wal \in Seq(Frame) /\ f \in Frame
      /\ UNCHANGED <<memory, files, now, crashes>> /\ ioErrors' \in Nat
      /\ Return(c, "err", EmptyRun)
  BY DEF IInv, StoreOK, Frame, WalAppendFails
<1>2. CASE wal' = wal
  <2>1. StoreOK' BY <1>1, <1>2, LogSame DEF IInv, StoreOK, memory
  <2>2. CallerOK' BY <1>1, <1>2, EmptyLayer, CallerReturns DEF IInv
  <2> QED BY <2>1, <2>2 DEF IInv
<1>3. CASE wal' = Append(wal, f)
  <2>1. StoreOK' BY <1>1, <1>3, LogGrows DEF IInv, StoreOK, memory
  <2>2. CallerOK'
    <3>1. /\ pc' = [pc EXCEPT ![c] = "idle"] /\ loc' = [loc EXCEPT ![c] = NoLocals]
          /\ reply' = [reply EXCEPT ![c] = [status |-> "err", val |-> EmptyRun]]
          /\ acked' = acked /\ latest' = latest
          /\ seen' = [seen EXCEPT ![c] = NothingSeen]
      BY <1>1 DEF Return, Goto
    <3>2. /\ pc' \in [Client -> Label] /\ loc' \in [Client -> Locals]
          /\ reply' \in [Client -> [status : {"none", "ok", "err"}, val : Layer]]
          /\ seen' \in [Client -> [Key -> SUBSET Nat]]
      BY <3>1, NoLocalsOK, EmptyLayer DEF IInv, CallerOK, Label, NothingSeen
    <3>3. \A d \in Client : Logged(loc'[d].hand) /\ Logged(reply'[d].val)
      BY <3>1, NoLocalsOK, EmptyLayer DEF IInv, CallerOK
    <3>4. \A d \in Client : pc'[d] = "insert" => Carries(d)'
      BY <1>1, <1>3, <3>1 DEF IInv, CallerOK, Carries, Locals
    <3> QED BY <1>1, <1>3, <3>1, <3>2, <3>3, <3>4, LogGrows DEF IInv, CallerOK
  <2> QED BY <2>1, <2>2 DEF IInv
<1> QED BY <1>2, <1>3 DEF WalAppendFails

\* MemTable::insert stores the frame its caller appended.
LEMMA InsertStep ==
  ASSUME IInv, NEW c \in Client, Insert(c)
  PROVE  IInv'
<1> DEFINE l == loc[c].lsn
<1> DEFINE k == wal[l].key
<1>1. /\ l \in 1..Len(wal) /\ l \in Nat /\ wal[l].whole /\ k \in Key
  <2>1. Carries(c) BY DEF IInv, CallerOK, Insert, Step
  <2>2. l \in 1..Len(wal) /\ wal[l].whole BY <2>1 DEF Carries
  <2>3. wal[l] \in Frame BY <2>2 DEF IInv, StoreOK
  <2> QED BY <2>2, <2>3 DEF Frame
<1>2. LoggedEntry(k, l) /\ Visible(l) \in Nat
  BY <1>1, VisibleRecord DEF LoggedEntry
<1> HIDE DEF l, k
<1>3. /\ active' = [active EXCEPT ![k] = l] /\ size' = size + 1
      /\ latest' = [latest EXCEPT ![k] = l]
      /\ pc' = [pc EXCEPT ![c] = "check"]
      /\ seen' = [d \in Client |-> IF pc[d] \in Reading
                                   THEN [seen[d] EXCEPT ![k] = @ \cup {Visible(l)}]
                                   ELSE seen[d]]
      /\ UNCHANGED <<disk, up, immutables, cache, tasks, loc, reply, faults, acked>>
  BY DEF Insert, Step, Goto, l, k
<1>4. StoreOK'
  <2>1. active' \in Layer /\ Logged(active')
    BY <1>1, <1>2, <1>3 DEF IInv, StoreOK, Layer, Logged
  <2>2. wal' = wal BY <1>3 DEF disk
  <2>3. Logged(active)' BY <2>1, <2>2, LogSame
  <2> QED BY <1>3, <2>1, <2>2, <2>3, LogSame DEF IInv, StoreOK, disk, faults
<1>5. CallerOK'
  <2>1. pc' \in [Client -> Label] BY <1>3 DEF IInv, CallerOK, Label
  <2>2. latest' \in Layer BY <1>1, <1>3 DEF IInv, CallerOK, Layer
  <2>3. seen' \in [Client -> [Key -> SUBSET Nat]]
    BY <1>1, <1>2, <1>3 DEF IInv, CallerOK
  <2>4. \A d \in Client : pc'[d] = "insert" => Carries(d)'
    BY <1>3 DEF IInv, CallerOK, Carries, disk
  <2>5. wal' = wal /\ UNCHANGED <<loc, reply, acked>> BY <1>3 DEF disk
  <2> QED BY <2>1, <2>2, <2>3, <2>4, <2>5, LogSame DEF IInv, CallerOK
<1> QED BY <1>4, <1>5 DEF IInv

\* Steps that touch nothing shared: the call ends ...
LEMMA EndsCall ==
  ASSUME IInv, NEW c \in Client, UNCHANGED <<disk, memory, faults>>,
         NEW status \in {"ok", "err"}, NEW val \in Layer, Logged(val),
         ReturnMutation(c, status) \/ Return(c, status, val)
  PROVE  IInv'
<1>1. wal' = wal BY DEF disk
<1>2. CallerOK'
  <2>1. CASE ReturnMutation(c, status)
    BY <1>1, <2>1, CallerReturnsMutation DEF IInv
  <2>2. CASE Return(c, status, val)
    BY <1>1, <2>2, CallerReturns DEF IInv
  <2> QED BY <2>1, <2>2
<1> QED BY <1>2, SharedUnchanged DEF IInv

\* ... or goes on with other local variables ...
LEMMA GoesOn ==
  ASSUME IInv, NEW c \in Client, NEW l \in Label \ {"insert"},
         NEW r \in Locals, Logged(r.hand),
         pc' = [pc EXCEPT ![c] = l], loc' = [loc EXCEPT ![c] = r],
         UNCHANGED <<disk, memory, faults, reply, history>>
  PROVE  IInv'
<1>1. wal' = wal BY DEF disk
<1>2. CallerOK' BY <1>1, CallerMoves DEF IInv
<1> QED BY <1>2, SharedUnchanged DEF IInv

\* ... or with the same ones.
LEMMA JustMoves ==
  ASSUME IInv, NEW c \in Client, NEW l \in Label \ {"insert"}, Goto(c, l),
         UNCHANGED <<disk, memory, faults, loc, reply, history>>
  PROVE  IInv'
<1>1. /\ loc[c] \in Locals /\ Logged(loc[c].hand)
      /\ loc' = [loc EXCEPT ![c] = loc[c]]
  BY DEF IInv, CallerOK
<1> QED BY <1>1, GoesOn DEF Goto

\* The size check of write() returns or starts a flush.
LEMMA CheckSizeStep ==
  ASSUME IInv, NEW c \in Client, CheckSize(c)
  PROVE  IInv'
<1>1. CASE ReturnMutation(c, "ok")
  BY <1>1, EmptyLayer, EndsCall DEF CheckSize
<1>2. CASE Goto(c, "swap") /\ UNCHANGED <<loc, reply, history>>
  BY <1>2, JustMoves DEF CheckSize, Label
<1> QED BY <1>1, <1>2 DEF CheckSize

\* Starting a flush or a compaction only moves the caller.
LEMMA CallSteps ==
  ASSUME IInv, NEW c \in Client, FlushCall(c) \/ CompactCall(c)
  PROVE  IInv'
BY JustMoves DEF FlushCall, CompactCall, Step, Label

\* Swapping the memtable moves logged records into the caller's hand.
LEMMA FlushSwapStep ==
  ASSUME IInv, NEW c \in Client, FlushSwap(c)
  PROVE  IInv'
<1>1. /\ pc' = [pc EXCEPT ![c] = "push"] /\ loc' = [loc EXCEPT ![c].hand = active]
      /\ active' = EmptyRun /\ size' = 0
      /\ UNCHANGED <<disk, up, immutables, cache, tasks, reply, faults, history>>
  BY DEF FlushSwap, Step, Goto
<1>2. wal' = wal BY <1>1 DEF disk
<1>3. StoreOK'
  BY <1>1, <1>2, EmptyLayer, LogSame DEF IInv, StoreOK, disk, faults
<1>4. CallerOK'
  <2> DEFINE r == [loc[c] EXCEPT !.hand = active]
  <2>1. r \in Locals /\ r.hand = active
    BY DEF IInv, StoreOK, CallerOK, Locals
  <2>2. loc' = [loc EXCEPT ![c] = r] BY <1>1
  <2> QED BY <1>1, <1>2, <2>1, <2>2, CallerMoves DEF IInv, StoreOK, Label
<1> QED BY <1>3, <1>4 DEF IInv

\* Freezing moves them on to the immutables.
LEMMA FlushPushStep ==
  ASSUME IInv, NEW c \in Client, FlushPush(c)
  PROVE  IInv'
<1>1. /\ pc' = [pc EXCEPT ![c] = "spawn"]
      /\ immutables' = Append(immutables, loc[c].hand)
      /\ loc' = [loc EXCEPT ![c].hand = EmptyRun, ![c].out = Len(immutables) + 1]
      /\ UNCHANGED <<disk, up, active, size, cache, tasks, reply, faults, history>>
  BY DEF FlushPush, Step, Goto
<1>2. wal' = wal BY <1>1 DEF disk
<1>3. loc[c].hand \in Layer /\ Logged(loc[c].hand) /\ Len(immutables) + 1 \in Nat
  BY DEF IInv, StoreOK, CallerOK, Locals
<1>4. StoreOK'
  <2>1. /\ immutables' \in Seq(Layer)
        /\ \A i \in 1..Len(immutables') : Logged(immutables'[i])
    BY <1>1, <1>3 DEF IInv, StoreOK
  <2> QED BY <1>1, <1>2, <2>1, LogSame DEF IInv, StoreOK, disk, faults
<1>5. CallerOK'
  <2> DEFINE r == [loc[c] EXCEPT !.hand = EmptyRun, !.out = Len(immutables) + 1]
  <2>1. r \in Locals /\ Logged(r.hand)
    BY <1>3, EmptyLayer DEF IInv, CallerOK, Locals
  <2>2. loc' = [loc EXCEPT ![c] = r] BY <1>1
  <2>3. "spawn" \in Label \ {"insert"} BY DEF Label
  <2> HIDE DEF r
  <2> QED BY <1>1, <1>2, <2>1, <2>2, <2>3, CallerMoves DEF IInv
<1> QED BY <1>4, <1>5 DEF IInv

\* A spawned task starts with an empty run and a fresh name.
LEMMA FlushSpawnStep ==
  ASSUME IInv, NEW c \in Client, FlushSpawn(c)
  PROVE  IInv'
<1> DEFINE t == [ts |-> now + 1, idx |-> loc[c].out, pc |-> "read", data |-> EmptyRun]
<1>1. /\ pc' = [pc EXCEPT ![c] = "policy"] /\ now' = now + 1
      /\ tasks' = tasks \cup {t} /\ loc' = [loc EXCEPT ![c].out = 0]
      /\ UNCHANGED <<wal, files, up, active, size, immutables, cache, reply, faults, history>>
  BY DEF FlushSpawn, Step, Goto
<1>2. now + 1 \in Nat /\ loc[c].out \in Nat
  BY DEF IInv, StoreOK, CallerOK, Locals
<1>3. StoreOK'
  <2>1. t \in [ts : Nat, idx : Nat, data : Layer,
               pc : {"read", "create", "finish", "reopen", "remove"}]
    BY <1>2, EmptyLayer
  <2>2. Logged(t.data) BY EmptyLayer
  <2> HIDE DEF t
  <2>3. /\ tasks' \subseteq [ts : Nat, idx : Nat, data : Layer,
                   pc : {"read", "create", "finish", "reopen", "remove"}]
        /\ \A u \in tasks' : Logged(u.data)
    BY <1>1, <2>1, <2>2 DEF IInv, StoreOK
  <2> QED BY <1>1, <1>2, <2>3, LogSame DEF IInv, StoreOK, faults
<1>4. CallerOK'
  <2> DEFINE r == [loc[c] EXCEPT !.out = 0]
  <2>1. r \in Locals /\ r.hand = loc[c].hand /\ Logged(r.hand)
    BY DEF IInv, CallerOK, Locals
  <2>2. loc' = [loc EXCEPT ![c] = r] BY <1>1
  <2> QED BY <1>1, <2>1, <2>2, CallerMoves DEF IInv, Label
<1> QED BY <1>3, <1>4 DEF IInv

\* The compaction check of a flush returns or starts a compaction.
LEMMA FlushPolicyStep ==
  ASSUME IInv, NEW c \in Client, FlushPolicy(c)
  PROVE  IInv'
<1>1. CASE ReturnMutation(c, "ok")
  BY <1>1, EmptyLayer, EndsCall DEF FlushPolicy
<1>2. CASE Goto(c, "list") /\ UNCHANGED <<loc, reply, history>>
  BY <1>2, JustMoves DEF FlushPolicy, Label
<1> QED BY <1>1, <1>2 DEF FlushPolicy

-----------------------------------------------------------------------------
(* The flush tasks                                                         *)

Task == [ts : Nat, idx : Nat, data : Layer,
         pc : {"read", "create", "finish", "reopen", "remove"}]
File == [ts : Nat, whole : BOOLEAN, data : Layer]

\* No caller moves and the log is the same.
LEMMA CallersUnchanged ==
  ASSUME CallerOK, UNCHANGED <<wal, pc, loc, reply, history>>
  PROVE  CallerOK'
<1>1. \A d \in Client : pc'[d] = "insert" => Carries(d)'
  BY DEF CallerOK, Carries
<1> QED BY <1>1, LogSame DEF CallerOK, history

\* A task is replaced by a later state of itself, or ends.
LEMMA TaskReplaced ==
  ASSUME StoreOK, NEW t \in tasks, NEW new \in SUBSET Task,
         \A u \in new : Logged(u.data), tasks' = (tasks \ {t}) \cup new
  PROVE  tasks' \subseteq Task /\ \A u \in tasks' : Logged(u.data)
BY DEF StoreOK, Task

\* A task that is gone leaves a well-typed set of tasks.
LEMMA TaskEnds ==
  ASSUME StoreOK, NEW t \in tasks, tasks' = tasks \ {t}
  PROVE  tasks' \subseteq Task /\ \A u \in tasks' : Logged(u.data)
BY DEF StoreOK, Task

\* Completing a file changes only its `whole` mark.
LEMMA CompletedFiles ==
  ASSUME StoreOK, NEW n
  PROVE  Completed(n) \subseteq File /\ \A f \in Completed(n) : Logged(f.data)
<1> SUFFICES ASSUME NEW f \in Completed(n) PROVE f \in File /\ Logged(f.data)
  OBVIOUS
<1>1. CASE f \in files BY <1>1 DEF StoreOK, File
<1>2. CASE \E g \in files : f = [g EXCEPT !.whole = TRUE]
  BY <1>2 DEF StoreOK, File
<1> QED BY <1>1, <1>2 DEF Completed

\* Removing an element of a sequence leaves its other elements.
LEMMA RemoveAtElements ==
  ASSUME NEW S, NEW s \in Seq(S), NEW i \in 1..Len(s)
  PROVE  /\ RemoveAt(s, i) \in Seq(S)
         /\ \A j \in 1..Len(RemoveAt(s, i)) :
              \E n \in 1..Len(s) : RemoveAt(s, i)[j] = s[n]
         /\ \A n \in 1..Len(s) \ {i} :
              \E j \in 1..Len(RemoveAt(s, i)) : RemoveAt(s, i)[j] = s[n]
<1> DEFINE a == SubSeq(s, 1, i - 1)
<1> DEFINE b == SubSeq(s, i + 1, Len(s))
<1>1. a \in Seq(S) /\ Len(a) = i - 1 /\ \A j \in 1..(i - 1) : a[j] = s[j]
  OBVIOUS
<1>2. b \in Seq(S) /\ Len(b) = Len(s) - i /\ \A j \in 1..(Len(s) - i) : b[j] = s[i + j]
  OBVIOUS
<1> HIDE DEF a, b
<1>3. RemoveAt(s, i) = a \o b BY DEF RemoveAt, a, b
<1>4. /\ a \o b \in Seq(S) /\ Len(a \o b) = Len(s) - 1
      /\ \A j \in 1..(Len(s) - 1) :
           (a \o b)[j] = IF j <= i - 1 THEN a[j] ELSE b[j - (i - 1)]
  <2>1. /\ a \o b \in Seq(S) /\ Len(a \o b) = Len(a) + Len(b)
        /\ \A j \in 1..(Len(a) + Len(b)) :
             (a \o b)[j] = IF j <= Len(a) THEN a[j] ELSE b[j - Len(a)]
    BY <1>1, <1>2, ConcatProperties, Zenon
  <2>2. Len(a) + Len(b) = Len(s) - 1 BY <1>1, <1>2
  <2> QED BY <1>1, <2>1, <2>2
<1>5. ASSUME NEW j \in 1..(Len(s) - 1)
      PROVE  \E n \in 1..Len(s) : (a \o b)[j] = s[n]
  <2>1. CASE j <= i - 1 BY <1>1, <1>4, <2>1
  <2>2. CASE ~(j <= i - 1)
    <3>1. j - (i - 1) \in 1..(Len(s) - i) /\ j + 1 \in 1..Len(s) BY <2>2
    <3>2. (a \o b)[j] = s[j + 1] BY <1>2, <1>4, <2>2, <3>1
    <3> QED BY <3>1, <3>2
  <2> QED BY <2>1, <2>2
<1>6. ASSUME NEW n \in 1..Len(s) \ {i}
      PROVE  \E j \in 1..(Len(s) - 1) : (a \o b)[j] = s[n]
  <2>1. CASE n < i
    <3>1. n \in 1..(i - 1) /\ n \in 1..(Len(s) - 1) BY <2>1
    <3>2. (a \o b)[n] = s[n] BY <1>1, <1>4, <3>1
    <3> QED BY <3>1, <3>2
  <2>2. CASE n > i
    <3>1. n - i \in 1..(Len(s) - i) /\ n - 1 \in 1..(Len(s) - 1) BY <2>2
    <3>2. (a \o b)[n - 1] = b[n - i] BY <1>4, <2>2, <3>1
    <3>3. b[n - i] = s[n] BY <1>2, <3>1
    <3> QED BY <3>1, <3>2, <3>3
  <2>3. n < i \/ n > i OBVIOUS
  <2> QED BY <2>1, <2>2, <2>3
<1> QED BY <1>3, <1>4, <1>5, <1>6

\* Every step of a flush task copies, writes or drops logged records.
LEMMA TaskSteps ==
  ASSUME IInv, NEW t \in tasks, TaskStep(t)
  PROVE  IInv'
<1>0. /\ t \in Task /\ Logged(t.data)
      /\ UNCHANGED <<pc, loc, reply, faults, history>>
  BY DEF IInv, StoreOK, Task, TaskStep
<1>1. CASE TaskRead(t)
  <2>1. tasks' \subseteq Task /\ \A u \in tasks' : Logged(u.data)
    <3>1. CASE t.idx \in DOMAIN immutables
      <4> DEFINE u == [t EXCEPT !.pc = "create", !.data = immutables[t.idx]]
      <4>1. immutables[t.idx] \in Layer /\ Logged(immutables[t.idx])
        BY <1>0, <3>1 DEF IInv, StoreOK, Task
      <4>2. u \in Task /\ Logged(u.data) BY <1>0, <4>1 DEF Task
      <4>3. tasks' = (tasks \ {t}) \cup {u} BY <1>1, <3>1 DEF TaskRead
      <4> HIDE DEF u
      <4> QED BY <4>2, <4>3, TaskReplaced DEF IInv
    <3>2. CASE t.idx \notin DOMAIN immutables
      BY <1>1, <3>2, TaskEnds DEF TaskRead, IInv
    <3> QED BY <3>1, <3>2
  <2> QED BY <1>0, <1>1, <2>1, CallersUnchanged, LogSame
          DEF IInv, StoreOK, TaskRead, Task, disk, faults
<1>2. CASE TaskCreate(t)
  <2> DEFINE u == [t EXCEPT !.pc = "finish"]
  <2> DEFINE f == [ts |-> t.ts, whole |-> FALSE, data |-> t.data]
  <2>1. /\ u \in Task /\ u.data = t.data /\ f \in File /\ f.data = t.data
    BY <1>0 DEF Task, File
  <2>2. tasks' = (tasks \ {t}) \cup {u} /\ files' = files \cup {f}
    BY <1>2 DEF TaskCreate
  <2> HIDE DEF u, f
  <2>3. tasks' \subseteq Task /\ \A v \in tasks' : Logged(v.data)
    BY <1>0, <2>1, <2>2, TaskReplaced DEF IInv
  <2>4. files' \subseteq File /\ \A g \in files' : Logged(g.data)
    BY <1>0, <2>1, <2>2 DEF IInv, StoreOK, File
  <2> QED BY <1>0, <1>2, <2>3, <2>4, CallersUnchanged, LogSame
          DEF IInv, StoreOK, TaskCreate, Task, File, faults
<1>3. CASE TaskFinish(t)
  <2> DEFINE u == [t EXCEPT !.pc = "reopen"]
  <2>1. u \in Task /\ u.data = t.data BY <1>0 DEF Task
  <2>2. tasks' = (tasks \ {t}) \cup {u} /\ files' = Completed(t.ts)
    BY <1>3 DEF TaskFinish
  <2> HIDE DEF u
  <2>3. tasks' \subseteq Task /\ \A v \in tasks' : Logged(v.data)
    BY <1>0, <2>1, <2>2, TaskReplaced DEF IInv
  <2>4. files' \subseteq File /\ \A g \in files' : Logged(g.data)
    BY <2>2, CompletedFiles DEF IInv
  <2> QED BY <1>0, <1>3, <2>3, <2>4, CallersUnchanged, LogSame
          DEF IInv, StoreOK, TaskFinish, Task, File, faults
<1>4. CASE TaskReopen(t)
  <2>1. tasks' \subseteq Task /\ \A u \in tasks' : Logged(u.data)
    <3>1. CASE Openable(t.ts)
      <4> DEFINE u == [t EXCEPT !.pc = "remove"]
      <4>1. u \in Task /\ u.data = t.data BY <1>0 DEF Task
      <4>2. tasks' = (tasks \ {t}) \cup {u} BY <1>4, <3>1 DEF TaskReopen
      <4> HIDE DEF u
      <4> QED BY <1>0, <4>1, <4>2, TaskReplaced DEF IInv
    <3>2. CASE ~Openable(t.ts)
      BY <1>4, <3>2, TaskEnds DEF TaskReopen, IInv
    <3> QED BY <3>1, <3>2
  <2> QED BY <1>0, <1>4, <2>1, CallersUnchanged, LogSame
          DEF IInv, StoreOK, TaskReopen, Task, disk, faults
<1>5. CASE TaskRemove(t)
  <2>1. tasks' \subseteq Task /\ \A u \in tasks' : Logged(u.data)
    BY <1>5, TaskEnds DEF TaskRemove, IInv
  <2>2. immutables' \in Seq(Layer) /\ \A i \in 1..Len(immutables') : Logged(immutables'[i])
    <3>1. CASE t.idx \in DOMAIN immutables
      <4>1. t.idx \in 1..Len(immutables) /\ immutables \in Seq(Layer)
        BY <3>1 DEF IInv, StoreOK
      <4>2. immutables' = RemoveAt(immutables, t.idx)
        BY <1>5, <3>1 DEF TaskRemove
      <4>3. \A n \in 1..Len(immutables) : Logged(immutables[n])
        BY DEF IInv, StoreOK
      <4> QED BY <4>1, <4>2, <4>3, RemoveAtElements
    <3>2. CASE t.idx \notin DOMAIN immutables
      BY <1>5, <3>2 DEF TaskRemove, IInv, StoreOK
    <3> QED BY <3>1, <3>2
  <2> QED BY <1>0, <1>5, <2>1, <2>2, CallersUnchanged, LogSame
          DEF IInv, StoreOK, TaskRemove, Task, disk, faults
<1> QED BY <1>1, <1>2, <1>3, <1>4, <1>5 DEF TaskStep

\* A flush task that fails only disappears.
LEMMA TaskFailsStep ==
  ASSUME IInv, NEW t \in tasks, TaskFails(t)
  PROVE  IInv'
<1>1. tasks' \subseteq Task /\ \A u \in tasks' : Logged(u.data)
  BY TaskEnds DEF TaskFails, IInv
<1> QED BY <1>1, CallersUnchanged, LogSame DEF IInv, StoreOK, TaskFails, Task, disk

-----------------------------------------------------------------------------
(* Compaction                                                              *)

\* Names come from the directory listing.
LEMMA ListingNames == StoreOK => Listing \subseteq Nat
BY DEF StoreOK, Listing

\* Selecting the inputs only changes the caller's list of names.
LEMMA CompactListStep ==
  ASSUME IInv, NEW c \in Client, CompactList(c)
  PROVE  IInv'
<1> DEFINE chosen == SelectFiles(Policy, Listing)
<1>1. CASE ReturnMutation(c, "ok")
  BY <1>1, EmptyLayer, EndsCall DEF CompactList
<1>2. CASE /\ Goto(c, "open") /\ UNCHANGED <<reply, history>>
           /\ loc' = [loc EXCEPT ![c].names = chosen, ![c].left = chosen]
  <2> DEFINE r == [loc[c] EXCEPT !.names = chosen, !.left = chosen]
  <2>1. chosen \subseteq Nat
    BY ListingNames DEF IInv, SelectFiles, Oldest
  <2> HIDE DEF chosen
  <2>2. r \in Locals /\ r.hand = loc[c].hand /\ Logged(r.hand)
    BY <2>1 DEF IInv, CallerOK, Locals
  <2>3. loc' = [loc EXCEPT ![c] = r] BY <1>2
  <2>4. "open" \in Label \ {"insert"} BY DEF Label
  <2> HIDE DEF r
  <2> QED BY <1>2, <2>2, <2>3, <2>4, GoesOn DEF CompactList, Goto
<1> QED BY <1>1, <1>2 DEF CompactList

\* A file is merged into the run in hand (compaction inputs and scan).
LEMMA MergesFile ==
  ASSUME IInv, NEW c \in Client, NEW t, Openable(t), pc[c] # "insert",
         loc' = [loc EXCEPT ![c].left = @ \ {t}, ![c].hand = Over(Contents(t), @)],
         UNCHANGED <<pc, disk, memory, faults, reply, history>>
  PROVE  IInv'
<1> DEFINE r == [loc[c] EXCEPT !.left = @ \ {t}, !.hand = Over(Contents(t), @)]
<1>1. loc[c] \in Locals /\ loc[c].hand \in Layer /\ Logged(loc[c].hand)
  BY DEF IInv, CallerOK, Locals
<1>2. Over(Contents(t), loc[c].hand) \in Layer /\ Logged(Over(Contents(t), loc[c].hand))
  BY <1>1, ContentsOfFile, OverLayer DEF IInv
<1>3. r \in Locals /\ Logged(r.hand)
  BY <1>1, <1>2 DEF Locals
<1>4. loc' = [loc EXCEPT ![c] = r] OBVIOUS
<1>5. pc[c] \in Label \ {"insert"} /\ pc' = [pc EXCEPT ![c] = pc[c]]
  BY DEF IInv, CallerOK
<1> HIDE DEF r
<1> QED BY <1>2, <1>3, <1>4, <1>5, GoesOn

\* Opening an input merges the contents of a file into the run in hand.
LEMMA CompactOpenStep ==
  ASSUME IInv, NEW c \in Client, NEW t, CompactOpen(c, t)
  PROVE  IInv'
<1>1. CASE Openable(t)
  BY <1>1, MergesFile DEF CompactOpen
<1>2. CASE ~Openable(t)
  BY <1>2, EmptyLayer, EndsCall DEF CompactOpen
<1> QED BY <1>1, <1>2

\* The output file is created with the merged, logged records.
LEMMA CompactCreateStep ==
  ASSUME IInv, NEW c \in Client, CompactCreate(c)
  PROVE  IInv'
<1> DEFINE f == [ts |-> now + 1, whole |-> FALSE, data |-> loc[c].hand]
<1> DEFINE r == [loc[c] EXCEPT !.out = now + 1, !.hand = EmptyRun]
<1>1. /\ now + 1 \in Nat /\ loc[c] \in Locals
      /\ loc[c].hand \in Layer /\ Logged(loc[c].hand)
  BY DEF IInv, StoreOK, CallerOK, Locals
<1>2. f \in File /\ Logged(f.data) BY <1>1 DEF File
<1>3. r \in Locals /\ Logged(r.hand) BY <1>1, EmptyLayer DEF Locals
<1>4. /\ pc' = [pc EXCEPT ![c] = "finish"] /\ now' = now + 1
      /\ files' = files \cup {f} /\ loc' = [loc EXCEPT ![c] = r]
      /\ UNCHANGED <<wal, memory, reply, faults, history>>
  BY DEF CompactCreate, Step, Goto
<1> HIDE DEF f, r
<1>5. files' \subseteq File /\ \A g \in files' : Logged(g.data)
  BY <1>2, <1>4 DEF IInv, StoreOK, File
<1>6. StoreOK'
  BY <1>1, <1>4, <1>5, LogSame DEF IInv, StoreOK, File, memory, faults
<1>7. CallerOK'
  BY <1>3, <1>4, CallerMoves DEF IInv, Label
<1> QED BY <1>6, <1>7 DEF IInv

\* Completing the output changes no record.
LEMMA CompactFinishStep ==
  ASSUME IInv, NEW c \in Client, CompactFinish(c)
  PROVE  IInv'
<1>1. /\ pc' = [pc EXCEPT ![c] = "reopen"] /\ files' = Completed(loc[c].out)
      /\ UNCHANGED <<wal, now, memory, loc, reply, faults, history>>
  BY DEF CompactFinish, Step, Goto
<1>2. files' \subseteq File /\ \A g \in files' : Logged(g.data)
  BY <1>1, CompletedFiles DEF IInv
<1>3. StoreOK' BY <1>1, <1>2, LogSame DEF IInv, StoreOK, File, memory, faults
<1>4. loc[c] \in Locals /\ Logged(loc[c].hand) /\ loc' = [loc EXCEPT ![c] = loc[c]]
  BY <1>1 DEF IInv, CallerOK
<1>5. CallerOK' BY <1>1, <1>4, CallerMoves DEF IInv, Label
<1> QED BY <1>3, <1>5 DEF IInv

\* A failed merge ends the call and leaves the files alone.
LEMMA CompactFailsStep ==
  ASSUME IInv, NEW c \in Client, CompactFails(c)
  PROVE  IInv'
<1>1. wal' = wal /\ ReturnMutation(c, "err") BY DEF CompactFails, disk
<1>2. StoreOK' BY LogSame DEF IInv, StoreOK, CompactFails, disk, memory
<1>3. CallerOK' BY <1>1, CallerReturnsMutation DEF IInv
<1> QED BY <1>2, <1>3 DEF IInv

\* Re-opening the output ends the call or starts removing the inputs.
LEMMA CompactReopenStep ==
  ASSUME IInv, NEW c \in Client, CompactReopen(c)
  PROVE  IInv'
<1>1. CASE Openable(loc[c].out)
  <2> DEFINE r == [loc[c] EXCEPT !.left = loc[c].names]
  <2>1. r \in Locals /\ r.hand = loc[c].hand /\ Logged(r.hand)
    BY DEF IInv, CallerOK, Locals
  <2>2. loc' = [loc EXCEPT ![c] = r] BY <1>1 DEF CompactReopen
  <2> HIDE DEF r
  <2> QED BY <1>1, <2>1, <2>2, GoesOn DEF CompactReopen, Goto, Label
<1>2. CASE ~Openable(loc[c].out)
  BY <1>2, EmptyLayer, EndsCall DEF CompactReopen
<1> QED BY <1>1, <1>2

\* Removing an input leaves a subset of the files.
LEMMA CompactRemoveStep ==
  ASSUME IInv, NEW c \in Client, NEW t, CompactRemove(c, t)
  PROVE  IInv'
<1>1. StoreOK'
  BY LogSame DEF IInv, StoreOK, CompactRemove, memory, faults
<1>2. CASE loc[c].left = {t}
  BY <1>1, <1>2, CallerReturnsMutation DEF IInv, CompactRemove
<1>3. CASE loc[c].left # {t}
  <2> DEFINE r == [loc[c] EXCEPT !.left = @ \ {t}]
  <2>1. r \in Locals /\ r.hand = loc[c].hand /\ Logged(r.hand)
    BY DEF IInv, CallerOK, Locals
  <2>2. loc' = [loc EXCEPT ![c] = r] /\ UNCHANGED <<wal, pc, reply, history>>
    BY <1>3 DEF CompactRemove
  <2>3. pc[c] \in Label \ {"insert"} /\ pc' = [pc EXCEPT ![c] = pc[c]]
    BY <2>2 DEF IInv, CallerOK, CompactRemove
  <2> HIDE DEF r
  <2> QED BY <1>1, <2>1, <2>2, <2>3, CallerMoves DEF IInv
<1> QED BY <1>2, <1>3

-----------------------------------------------------------------------------
(* get and scan                                                            *)

\* A read starts by noting the records that are current.
LEMMA ReadCallStep ==
  ASSUME IInv, NEW c \in Client, NEW op, NEW ks \in SUBSET Key,
         NEW first \in Label \ {"insert"}, ReadCall(c, op, ks, first)
  PROVE  IInv'
<1> DEFINE r == [loc[c] EXCEPT !.want = ks]
<1>1. r \in Locals /\ r.hand = loc[c].hand /\ Logged(r.hand)
  BY DEF IInv, CallerOK, Locals
<1>2. loc' = [loc EXCEPT ![c] = r] /\ pc' = [pc EXCEPT ![c] = first]
  BY DEF ReadCall, Step, Goto
<1>3. UNCHANGED <<disk, memory, faults, reply, latest, acked>> /\ wal' = wal
  BY DEF ReadCall, disk
<1> HIDE DEF r
<1>4. seen' \in [Client -> [Key -> SUBSET Nat]]
  <2>1. \A k \in Key : Visible(latest[k]) \in Nat
    BY VisibleRecord DEF IInv, CallerOK, Layer
  <2> QED BY <2>1 DEF IInv, CallerOK, ReadCall
<1>5. /\ pc' \in [Client -> Label] /\ loc' \in [Client -> Locals]
      /\ \A d \in Client : Logged(loc'[d].hand)
  BY <1>1, <1>2 DEF IInv, CallerOK
<1>6. \A d \in Client : pc'[d] = "insert" => Carries(d)'
  BY <1>2, <1>3 DEF IInv, CallerOK, Carries
<1>7. CallerOK' BY <1>3, <1>4, <1>5, <1>6, LogSame DEF IInv, CallerOK
<1> QED BY <1>3, <1>7, SharedUnchanged DEF IInv

\* get() answers from the active memtable or goes on.
LEMMA GetActiveStep ==
  ASSUME IInv, NEW c \in Client, NEW k \in Key, GetActive(c, k)
  PROVE  IInv'
<1>1. active[k] \in Nat /\ LoggedEntry(k, active[k])
  BY DEF IInv, StoreOK, Layer, Logged
<1>2. CASE active[k] # 0
  BY <1>1, <1>2, SingleRecord, EndsCall DEF GetActive, Found
<1>3. CASE active[k] = 0
  BY <1>3, JustMoves DEF GetActive, Label, Reading
<1> QED BY <1>2, <1>3

\* get() answers from the newest frozen memtable that has the key, or goes on.
LEMMA GetImmStep ==
  ASSUME IInv, NEW c \in Client, NEW k \in Key, GetImm(c, k)
  PROVE  IInv'
<1>1. CASE \E i \in 1..Len(immutables) : Found(c, k, immutables[i][k])
  <2> PICK i \in 1..Len(immutables) : Found(c, k, immutables[i][k]) BY <1>1
  <2>1. immutables[i] \in Layer /\ Logged(immutables[i])
    BY DEF IInv, StoreOK
  <2>2. immutables[i][k] \in Nat /\ LoggedEntry(k, immutables[i][k])
    BY <2>1 DEF Layer, Logged
  <2> QED BY <2>2, SingleRecord, EndsCall DEF GetImm, Found
<1>2. CASE Goto(c, "glist") /\ UNCHANGED <<loc, reply, history>>
  BY <1>2, JustMoves DEF GetImm, Label, Reading
<1> QED BY <1>1, <1>2 DEF GetImm

\* Listing the directory gives names only.
LEMMA ListSteps ==
  ASSUME IInv, NEW c \in Client, GetList(c) \/ ScanList(c)
  PROVE  IInv'
<1> DEFINE r == [loc[c] EXCEPT !.left = Listing]
<1>1. r \in Locals /\ r.hand = loc[c].hand /\ Logged(r.hand)
  BY ListingNames DEF IInv, CallerOK, Locals
<1>2. loc' = [loc EXCEPT ![c] = r] BY DEF GetList, ScanList
<1> HIDE DEF r
<1>3. CASE GetList(c)
  BY <1>1, <1>2, <1>3, GoesOn DEF GetList, Step, Goto, Label, Reading
<1>4. CASE ScanList(c)
  BY <1>1, <1>2, <1>4, GoesOn DEF ScanList, Step, Goto, Label, Reading
<1> QED BY <1>3, <1>4

\* Ok(None) is a logged answer.
LEMMA GetNoneStep ==
  ASSUME IInv, NEW c \in Client, GetNone(c)
  PROVE  IInv'
BY EmptyLayer, EndsCall DEF GetNone

\* get() answers from the block cache or a file, and caches what the file
\* holds.
LEMMA GetFileStep ==
  ASSUME IInv, NEW c \in Client, NEW k \in Key, NEW t \in Nat, GetFile(c, k, t)
  PROVE  IInv'
<1>1. /\ UNCHANGED <<disk, up, active, size, immutables, tasks, faults>>
      /\ wal' = wal
  BY DEF GetFile, disk
<1>2. CASE UNCHANGED cache /\ \E e \in Cached(t, k) : Found(c, k, e.lsn)
  <2> PICK e \in Cached(t, k) : Found(c, k, e.lsn) BY <1>2
  <2>1. e.lsn \in Nat /\ LoggedEntry(k, e.lsn) BY DEF Cached, IInv, StoreOK
  <2>2. UNCHANGED <<disk, memory, faults>> BY <1>1, <1>2 DEF memory
  <2> QED BY <2>1, <2>2, SingleRecord, EndsCall DEF Found
<1>3. CASE UNCHANGED cache /\ Return(c, "err", EmptyRun)
  <2>1. UNCHANGED <<disk, memory, faults>> BY <1>1, <1>3 DEF memory
  <2> QED BY <1>3, <2>1, EmptyLayer, EndsCall
<1>4. CASE /\ Openable(t)
           /\ CacheInsert([ts |-> t, key |-> k, lsn |-> Contents(t)[k]])
           /\ Found(c, k, Contents(t)[k])
  <2> DEFINE l == Contents(t)[k]
  <2>1. l \in Nat /\ LoggedEntry(k, l)
    BY <1>4, ContentsOfFile DEF IInv, Layer, Logged
  <2> DEFINE e == [ts |-> t, key |-> k, lsn |-> l]
  <2>2. e \in [ts : Nat, key : Key, lsn : Nat] /\ LoggedEntry(e.key, e.lsn)
    BY <2>1
  <2>3. cache' \subseteq cache \cup {e} BY <1>4 DEF CacheInsert
  <2>4. CallerOK'
    BY <1>1, <1>4, <2>1, SingleRecord, CallerReturns DEF IInv, Found
  <2> HIDE DEF e
  <2>5. /\ cache' \subseteq [ts : Nat, key : Key, lsn : Nat]
        /\ \A x \in cache' : LoggedEntry(x.key, x.lsn)
    BY <2>2, <2>3 DEF IInv, StoreOK
  <2>6. StoreOK' BY <1>1, <2>5, LogSame DEF IInv, StoreOK, disk, faults
  <2> QED BY <2>4, <2>6 DEF IInv
<1>5. CASE /\ loc' = [loc EXCEPT ![c].left = @ \ {t}]
           /\ UNCHANGED <<cache, pc, reply, history>>
  <2> DEFINE r == [loc[c] EXCEPT !.left = @ \ {t}]
  <2>1. r \in Locals /\ r.hand = loc[c].hand /\ Logged(r.hand)
    BY DEF IInv, CallerOK, Locals
  <2>2. loc' = [loc EXCEPT ![c] = r] BY <1>5
  <2>3. pc[c] \in Label \ {"insert"} /\ pc' = [pc EXCEPT ![c] = pc[c]]
    BY <1>5 DEF IInv, CallerOK, GetFile
  <2>4. UNCHANGED <<disk, memory, faults>> BY <1>1, <1>5 DEF memory
  <2> HIDE DEF r
  <2> QED BY <1>5, <2>1, <2>2, <2>3, <2>4, GoesOn
<1> QED BY <1>2, <1>3, <1>4, <1>5 DEF GetFile

\* scan() merges a file into the run in hand, or fails.
LEMMA ScanFileStep ==
  ASSUME IInv, NEW c \in Client, NEW t, ScanFile(c, t)
  PROVE  IInv'
<1>1. CASE Openable(t)
  BY <1>1, MergesFile DEF ScanFile
<1>2. CASE ~Openable(t)
  BY <1>2, EmptyLayer, EndsCall DEF ScanFile
<1> QED BY <1>1, <1>2

\* scan() puts the newest frozen records over the run in hand.
LEMMA ScanImmStep ==
  ASSUME IInv, NEW c \in Client, ScanImm(c)
  PROVE  IInv'
<1>1. PICK run \in [Key -> 0..Len(wal)] :
        /\ \A k \in Key : \/ \E i \in 1..Len(immutables) : run[k] = immutables[i][k]
                          \/ run[k] = loc[c].hand[k]
        /\ loc' = [loc EXCEPT ![c].hand = run]
  BY DEF ScanImm
<1> DEFINE r == [loc[c] EXCEPT !.hand = run]
<1>2. run \in Layer BY DEF IInv, StoreOK, Layer
<1>3. Logged(run)
  <2> SUFFICES ASSUME NEW k \in Key PROVE LoggedEntry(k, run[k]) BY DEF Logged
  <2>1. CASE run[k] = loc[c].hand[k]
    BY <2>1 DEF IInv, CallerOK, Logged
  <2>2. CASE \E i \in 1..Len(immutables) : run[k] = immutables[i][k]
    BY <2>2 DEF IInv, StoreOK, Logged
  <2> QED BY <1>1, <2>1, <2>2
<1>4. r \in Locals /\ Logged(r.hand)
  BY <1>2, <1>3 DEF IInv, CallerOK, Locals
<1>5. loc' = [loc EXCEPT ![c] = r] BY <1>1
<1> HIDE DEF r
<1> QED BY <1>4, <1>5, GoesOn DEF ScanImm, Step, Goto, Label, Reading

\* scan() puts the active memtable on top and hides tombstones.
LEMMA ScanActiveStep ==
  ASSUME IInv, NEW c \in Client, ScanActive(c)
  PROVE  IInv'
<1> DEFINE merged == Over(active, loc[c].hand)
<1> DEFINE val == [k \in Key |-> Visible(merged[k])]
<1>1. merged \in Layer /\ Logged(merged)
  BY OverLayer DEF IInv, StoreOK, CallerOK, Locals
<1>2. val \in Layer /\ Logged(val)
  <2> SUFFICES ASSUME NEW k \in Key
               PROVE  Visible(merged[k]) \in Nat /\ LoggedEntry(k, Visible(merged[k]))
    BY DEF Layer, Logged
  <2>1. merged[k] \in Nat /\ LoggedEntry(k, merged[k]) BY <1>1 DEF Layer, Logged
  <2> HIDE DEF merged
  <2> QED BY <2>1, VisibleRecord
<1>3. Return(c, "ok", val) /\ UNCHANGED <<disk, memory, faults>> BY DEF ScanActive
<1> HIDE DEF val
<1> QED BY <1>2, <1>3, EndsCall

-----------------------------------------------------------------------------
(* Crash and restart                                                       *)

\* A crash forgets memory and keeps the disk, with at most a bad frame more.
LEMMA CrashStep ==
  ASSUME IInv, Crash
  PROVE  IInv'
<1>1. /\ wal' \in Seq(Frame)
      /\ \A run : Logged(run) => Logged(run)'
  <2>1. CASE wal' = wal BY <2>1, LogSame DEF IInv, StoreOK
  <2>2. CASE \E k \in Key, kind \in Ops \cap {"write", "delete"} :
               wal' = Append(wal, [kind |-> kind, key |-> k, whole |-> FALSE])
    <3> PICK k \in Key, kind \in Ops \cap {"write", "delete"} :
               wal' = Append(wal, [kind |-> kind, key |-> k, whole |-> FALSE])
      BY <2>2
    <3>1. [kind |-> kind, key |-> k, whole |-> FALSE] \in Frame BY DEF Frame
    <3> QED BY <3>1, LogGrows DEF IInv, StoreOK
  <2> QED BY <2>1, <2>2 DEF Crash
<1>2. StoreOK'
  <2>1. /\ up' = FALSE /\ active' = EmptyRun /\ size' = 0 /\ immutables' = <<>>
        /\ cache' = {} /\ tasks' = {} /\ crashes' = crashes + 1
        /\ UNCHANGED <<files, now, ioErrors>>
    BY DEF Crash
  <2>2. active' \in Layer /\ Logged(active)' BY <1>1, <2>1, EmptyLayer
  <2>3. immutables' \in Seq(Layer) /\ Len(immutables') = 0 BY <2>1
  <2>4. files' \subseteq File /\ \A f \in files' : Logged(f.data)'
    BY <1>1, <2>1 DEF IInv, StoreOK, File
  <2>5. up' \in BOOLEAN BY <2>1, Zenon
  <2>6. crashes \in Nat /\ now \in Nat /\ ioErrors \in Nat BY DEF IInv, StoreOK
  <2>7. size' \in Nat /\ now' \in Nat /\ crashes' \in Nat /\ ioErrors' \in Nat
    BY <2>1, <2>6
  <2> QED BY <1>1, <2>1, <2>2, <2>3, <2>4, <2>5, <2>7 DEF StoreOK, File
<1>3. CallerOK'
  <2>1. /\ pc' = [c \in Client |-> "idle"] /\ loc' = [c \in Client |-> NoLocals]
        /\ reply' = [c \in Client |-> NoReply]
        /\ seen' = [c \in Client |-> NothingSeen] /\ UNCHANGED <<latest, acked>>
    BY DEF Crash
  <2>2. NoReply \in [status : {"none", "ok", "err"}, val : Layer] /\ Logged(NoReply.val)
    BY EmptyLayer DEF NoReply
  <2>3. NothingSeen \in [Key -> SUBSET Nat] BY DEF NothingSeen
  <2>4. \A d \in Client : Logged(loc'[d].hand) /\ Logged(reply'[d].val)
    BY <2>1, <2>2, NoLocalsOK
  <2>5. \A d \in Client : pc'[d] # "insert" BY <2>1
  <2>6. pc' \in [Client -> Label] BY <2>1 DEF Label
  <2>7. loc' \in [Client -> Locals] BY <2>1, NoLocalsOK
  <2>8. /\ reply' \in [Client -> [status : {"none", "ok", "err"}, val : Layer]]
        /\ seen' \in [Client -> [Key -> SUBSET Nat]]
    BY <2>1, <2>2, <2>3
  <2> QED BY <1>1, <2>1, <2>4, <2>5, <2>6, <2>7, <2>8 DEF IInv, CallerOK
<1> QED BY <1>2, <1>3 DEF IInv

\* Replay takes only complete frames of the key: Readable stops before the
\* first bad one.
LEMMA OpenStep ==
  ASSUME IInv, Open
  PROVE  IInv'
<1>1. PICK run \in [Key -> 0..Len(wal)] : Replayed(run) /\ active' = run
  BY DEF Open
<1>2. run \in Layer BY DEF IInv, StoreOK, Layer
<1>3. Logged(run)
  <2> SUFFICES ASSUME NEW k \in Key, run[k] # 0 PROVE LoggedEntry(k, run[k])
    BY DEF Logged, LoggedEntry
  <2>1. run[k] \in Readable /\ wal[run[k]].key = k BY <1>1 DEF Replayed, Writes
  <2>2. run[k] \in 1..Len(wal) /\ wal[run[k]].whole
    BY <2>1 DEF Readable, IInv, StoreOK
  <2> QED BY <2>1, <2>2 DEF LoggedEntry
<1>4. wal' = wal /\ UNCHANGED <<files, now, immutables, cache, tasks, faults>> /\ up' = TRUE
  BY DEF Open, disk
<1>5. size' \in Nat
  <2> DEFINE ws == {i \in Readable : wal[i].kind = "write"}
  <2>1. IsFiniteSet(1..Len(wal)) BY FS_Interval DEF IInv, StoreOK
  <2>2. ws \subseteq 1..Len(wal) BY DEF Readable
  <2>3. IsFiniteSet(ws) BY <2>1, <2>2, FS_Subset
  <2>4. size' = Cardinality(ws) BY DEF Open
  <2> QED BY <2>3, <2>4, FS_CardinalityType
<1>6. StoreOK'
  BY <1>1, <1>2, <1>3, <1>4, <1>5, LogSame DEF IInv, StoreOK, faults
<1>7. CallerOK'
  <2>1. latest' \in Layer BY <1>1, <1>2 DEF Open, Layer
  <2>2. UNCHANGED <<pc, loc, reply, acked, seen>> BY DEF Open
  <2>3. \A d \in Client : pc'[d] = "insert" => Carries(d)'
    BY <1>4, <2>2 DEF IInv, CallerOK, Carries
  <2> QED BY <1>4, <2>1, <2>2, <2>3, LogSame DEF IInv, CallerOK
<1> QED BY <1>6, <1>7 DEF IInv

-----------------------------------------------------------------------------
(* The theorem                                                             *)

\* A new, empty store satisfies the inductive invariant.
LEMMA InitOK == Init => IInv
<1> SUFFICES ASSUME Init PROVE IInv OBVIOUS
<1>1. StoreOK BY EmptyLayer DEF Init, StoreOK
<1>2. CallerOK
  BY EmptyLayer, NoLocalsOK DEF Init, CallerOK, Label, NoReply, NothingSeen
<1> QED BY <1>1, <1>2 DEF IInv

\* Every step of the engine preserves the inductive invariant.
LEMMA NextOK == IInv /\ [Next]_vars => IInv'
<1> SUFFICES ASSUME IInv, [Next]_vars PROVE IInv' OBVIOUS
<1>1. ASSUME NEW c \in Client, Call(c) PROVE IInv'
  <2>1. "gactive" \in Label \ {"insert"} /\ "slist" \in Label \ {"insert"}
    BY DEF Label, Reading
  <2>2. ASSUME NEW k \in Key, NEW kind \in {"write", "delete"},
               WalAppend(c, k, kind) \/ WalAppendFails(c, k, kind)
        PROVE  IInv'
    BY <2>2, WalAppendStep, WalAppendFailsStep
  <2>3. ASSUME NEW k \in Key, GetCall(c, k) PROVE IInv'
    BY <2>1, <2>3, ReadCallStep DEF GetCall
  <2>4. CASE ScanCall(c) BY <2>1, <2>4, ReadCallStep DEF ScanCall
  <2>5. CASE FlushCall(c) \/ CompactCall(c) BY <2>5, CallSteps
  <2> QED BY <1>1, <2>2, <2>3, <2>4, <2>5 DEF Call
<1>2. ASSUME NEW c \in Client, Continue(c) PROVE IInv'
  <2>1. loc[c].want \subseteq Key /\ loc[c].left \subseteq Nat
    BY DEF IInv, CallerOK, Locals
  <2>2. CASE Mutating(c) BY <2>2, InsertStep, CheckSizeStep DEF Mutating
  <2>3. CASE Flushing(c)
    BY <2>3, FlushSwapStep, FlushPushStep, FlushSpawnStep, FlushPolicyStep DEF Flushing
  <2>4. CASE Compacting(c)
    BY <2>4, CompactListStep, CompactCreateStep, CompactFinishStep, CompactReopenStep,
       CompactOpenStep, CompactRemoveStep DEF Compacting
  <2>5. CASE Getting(c)
    BY <2>1, <2>5, ListSteps, GetNoneStep, GetActiveStep, GetImmStep, GetFileStep DEF Getting
  <2>6. CASE Scanning(c)
    BY <2>6, ListSteps, ScanImmStep, ScanActiveStep, ScanFileStep DEF Scanning
  <2> QED BY <1>2, <2>2, <2>3, <2>4, <2>5, <2>6 DEF Continue
<1>3. ASSUME NEW c \in Client, CompactFails(c) PROVE IInv'
  BY <1>3, CompactFailsStep
<1>4. ASSUME NEW t \in tasks, TaskStep(t) \/ TaskFails(t) PROVE IInv'
  BY <1>4, TaskSteps, TaskFailsStep
<1>5. CASE Crash \/ Open BY <1>5, CrashStep, OpenStep
<1>6. CASE UNCHANGED vars
  <2>1. /\ UNCHANGED <<disk, memory, faults>> /\ wal' = wal
        /\ UNCHANGED <<pc, loc, reply, history>>
    BY <1>6 DEF vars, disk
  <2> QED BY <2>1, SharedUnchanged, CallersUnchanged DEF IInv
<1> QED BY <1>1, <1>2, <1>3, <1>4, <1>5, <1>6 DEF Next

\* Whatever callers, tasks, failures and crashes interleave, the engine's
\* state keeps its types.
THEOREM TypeCorrect == Spec => []TypeOK
<1>1. Spec => []IInv BY InitOK, NextOK, PTL DEF Spec
<1> QED BY <1>1, IInvImplies, PTL

\* No record is anywhere in the engine, nor in an answer to a caller, whose
\* frame append() did not write completely: the write-ahead rule of
\* LsmTree::write, delete and open.
THEOREM WriteAheadHolds == Spec => []WriteAhead
<1>1. Spec => []IInv BY InitOK, NextOK, PTL DEF Spec
<1> QED BY <1>1, IInvImplies, PTL

-----------------------------------------------------------------------------
(* The files. *)

\* Tasks whose name is taken and whose file is not there yet.
Announced == {t \in tasks : t.pc \in {"read", "create"}}

\* Names are handed out once: a file, and what is cached of one, is not
\* replaced by another of its name.
Named ==
  /\ \A f, g \in files : f.ts = g.ts => f = g
  /\ \A f \in files : f.ts <= now
  /\ \A e \in cache : e.ts <= now
  /\ \A t \in tasks : t.ts <= now
  /\ \A t, u \in Announced : t.ts = u.ts => t = u
  /\ \A t \in Announced : /\ \A f \in files : f.ts # t.ts
                          /\ \A e \in cache : e.ts # t.ts

\* g has the keys of f.
HasKeys(g, f) == \A k \in Key : f.data[k] # 0 => g.data[k] # 0

\* Every key of f is in a complete file with a later name.
Kept(f) == \A k \in Key : f.data[k] # 0 =>
             \E g \in files : g.whole /\ g.ts > f.ts /\ g.data[k] # 0

\* A name that is in use or has been: no file will be created under it.
Old(x) == x <= now /\ \A t \in Announced : t.ts # x

Merging == {"open", "finish", "reopen", "remove"}

\* What a compaction has done so far.
MergeOK(c) ==
  pc[c] \in Merging =>
    /\ \A x \in loc[c].names : Old(x)
    /\ loc[c].left \subseteq loc[c].names
    /\ pc[c] = "open" =>
         \A f \in files : f.ts \in loc[c].names \ loc[c].left =>
           \A k \in Key : f.data[k] # 0 => loc[c].hand[k] # 0
    /\ pc[c] \in {"finish", "reopen"} =>
         /\ Old(loc[c].out)
         /\ \A x \in loc[c].names : x < loc[c].out
         /\ \A g, f \in files : g.ts = loc[c].out /\ f.ts \in loc[c].names => HasKeys(g, f)
    /\ pc[c] = "remove" => \A f \in files : f.ts \in loc[c].left => Kept(f)

Merged == \A c \in Client : MergeOK(c)

FilesOK == Named /\ CacheCoherent /\ Merged

FInv == IInv /\ FilesOK

-----------------------------------------------------------------------------
(* One flush at a time                                                     *)

Swapped(c) == pc[c] \in {"push", "spawn"}
InFile(k) == \E f \in files : f.whole /\ f.data[k] # 0

\* Only one memtable is on its way, and what has been written of it is what is
\* frozen.
Flushed ==
  /\ \A c, d \in Client : Swapped(c) /\ Swapped(d) => c = d
  /\ \A t \in tasks : (\A u \in tasks : u = t) /\ \A c \in Client : ~Swapped(c)
  /\ \A t \in tasks : t.pc # "read" =>
       t.idx \in 1 .. Len(immutables) /\ immutables[t.idx] = t.data
  /\ \A t \in tasks : t.pc \in {"finish", "reopen"} =>
       \A f \in files : f.ts = t.ts => f.data = t.data
  /\ \A t \in tasks : t.pc = "remove" => \A k \in Key : t.data[k] # 0 => InFile(k)

\* k is in one of the places that reads search, or about to be pushed there.
Present(k) ==
  \/ active[k] # 0
  \/ \E c \in Client : pc[c] = "push" /\ loc[c].hand[k] # 0
  \/ \E i \in 1 .. Len(immutables) : immutables[i][k] # 0
  \/ InFile(k)

Stopped == ~up => tasks = {} /\ pc = [c \in Client |-> "idle"]

KeysPresent == up => \A k \in Key : latest[k] # 0 => Present(k)

KInv == FInv /\ Flushed /\ Stopped /\ KeysPresent

-----------------------------------------------------------------------------
(* How files and names move                                                *)

\* A key of a complete file stays in one with the same name or a later one.
KeysMove ==
  \A g \in files : \A k \in Key :
    g.whole /\ g.data[k] # 0 => \E h \in files' : h.whole /\ h.ts >= g.ts /\ h.data[k] # 0

\* A file is an earlier one or has a name of its own.
FilesFrom ==
  \A f \in files' : (\E g \in files : g.ts = f.ts /\ g.data = f.data) \/ ~Old(f.ts)

NamesStay == \A x \in Nat : Old(x) => Old(x)'

\* A compaction that is not at work is not disturbed by what is.
LEMMA MergeStays ==
  ASSUME StoreOK, StoreOK', NEW d \in Client, loc[d] \in Locals, MergeOK(d),
         pc'[d] = pc[d], loc'[d] = loc[d], KeysMove, FilesFrom, NamesStay
  PROVE  MergeOK(d)'
<1> SUFFICES ASSUME pc[d] \in Merging PROVE MergeOK(d)'
  BY DEF MergeOK
<1>0. /\ loc[d].names \subseteq Nat /\ loc[d].left \subseteq loc[d].names /\ loc[d].out \in Nat
      /\ \A x \in loc[d].names : Old(x)
  BY DEF MergeOK, Locals
<1>1. \A x \in loc[d].names : Old(x)' BY <1>0 DEF NamesStay
<1>2. ASSUME NEW f \in files', Old(f.ts) PROVE \E g \in files : g.ts = f.ts /\ g.data = f.data
  BY <1>2 DEF FilesFrom
<1>3. pc[d] = "open" =>
         \A f \in files' : f.ts \in loc[d].names \ loc[d].left =>
           \A k \in Key : f.data[k] # 0 => loc[d].hand[k] # 0
  BY <1>0, <1>2 DEF MergeOK
<1>4. pc[d] \in {"finish", "reopen"} =>
         /\ Old(loc[d].out)'
         /\ \A x \in loc[d].names : x < loc[d].out
         /\ \A g, f \in files' : g.ts = loc[d].out /\ f.ts \in loc[d].names => HasKeys(g, f)
  <2> SUFFICES ASSUME pc[d] \in {"finish", "reopen"}
               PROVE  /\ Old(loc[d].out)'
                      /\ \A x \in loc[d].names : x < loc[d].out
                      /\ \A g, f \in files' : g.ts = loc[d].out /\ f.ts \in loc[d].names => HasKeys(g, f)
    OBVIOUS
  <2>1. /\ Old(loc[d].out) /\ \A x \in loc[d].names : x < loc[d].out
        /\ \A g, f \in files : g.ts = loc[d].out /\ f.ts \in loc[d].names => HasKeys(g, f)
    BY DEF MergeOK
  <2>2. Old(loc[d].out)' BY <1>0, <2>1 DEF NamesStay
  <2>3. ASSUME NEW g \in files', NEW f \in files', g.ts = loc[d].out, f.ts \in loc[d].names
        PROVE  HasKeys(g, f)
    <3>1. PICK a \in files : a.ts = g.ts /\ a.data = g.data BY <1>2, <2>1, <2>3
    <3>2. PICK b \in files : b.ts = f.ts /\ b.data = f.data BY <1>0, <1>2, <2>3
    <3> QED BY <2>1, <2>3, <3>1, <3>2 DEF HasKeys
  <2> QED BY <2>1, <2>2, <2>3
<1>5. pc[d] = "remove" => \A f \in files' : f.ts \in loc[d].left => Kept(f)'
  <2> SUFFICES ASSUME pc[d] = "remove", NEW f \in files', f.ts \in loc[d].left,
                      NEW k \in Key, f.data[k] # 0
               PROVE  \E g \in files' : g.whole /\ g.ts > f.ts /\ g.data[k] # 0
    BY DEF Kept
  <2>1. PICK a \in files : a.ts = f.ts /\ a.data = f.data BY <1>0, <1>2
  <2>2. Kept(a) BY <2>1 DEF MergeOK
  <2>3. PICK g \in files : g.whole /\ g.ts > f.ts /\ g.data[k] # 0 BY <2>1, <2>2 DEF Kept
  <2>4. PICK h \in files' : h.whole /\ h.ts >= g.ts /\ h.data[k] # 0 BY <2>3 DEF KeysMove
  <2>5. f.ts \in Nat /\ g.ts \in Nat /\ h.ts \in Nat
    BY <1>0 DEF StoreOK
  <2> QED BY <2>3, <2>4, <2>5
<1> QED BY <1>0, <1>1, <1>3, <1>4, <1>5 DEF MergeOK

\* Nothing is created, completed or deleted.
LEMMA FilesStay ==
  ASSUME StoreOK, UNCHANGED files PROVE KeysMove /\ FilesFrom
BY DEF KeysMove, FilesFrom, StoreOK

LEMMA CompletedMoves ==
  ASSUME StoreOK, NEW n, files' = Completed(n) PROVE KeysMove /\ FilesFrom
<1>1. KeysMove
  <2> SUFFICES ASSUME NEW g \in files, NEW k \in Key, g.whole, g.data[k] # 0
               PROVE  \E h \in files' : h.whole /\ h.ts >= g.ts /\ h.data[k] # 0
    BY DEF KeysMove
  <2>1. g.ts \in Nat /\ g.ts >= g.ts BY DEF StoreOK
  <2>2. CASE g.ts # n
    <3>1. g \in files' BY <2>2 DEF Completed
    <3> QED BY <2>1, <3>1
  <2>3. CASE g.ts = n
    <3>1. [g EXCEPT !.whole = TRUE] \in files' BY <2>3 DEF Completed
    <3>2. /\ [g EXCEPT !.whole = TRUE].ts = g.ts /\ [g EXCEPT !.whole = TRUE].data = g.data
          /\ [g EXCEPT !.whole = TRUE].whole
      BY DEF StoreOK
    <3> QED BY <2>1, <3>1, <3>2
  <2> QED BY <2>2, <2>3
<1>2. FilesFrom
  <2> SUFFICES ASSUME NEW f \in files' PROVE \E g \in files : g.ts = f.ts /\ g.data = f.data
    BY DEF FilesFrom
  <2>1. CASE f \in files BY <2>1
  <2>2. CASE \E g \in files : f = [g EXCEPT !.whole = TRUE]
    <3>1. PICK g \in files : f = [g EXCEPT !.whole = TRUE] BY <2>2
    <3>2. f.ts = g.ts /\ f.data = g.data BY <3>1 DEF StoreOK
    <3> QED BY <3>2
  <2> QED BY <2>1, <2>2 DEF Completed
<1> QED BY <1>1, <1>2

LEMMA AddedMoves ==
  ASSUME StoreOK, NEW n, NEW data, ~Old(n),
         files' = files \cup {[ts |-> n, whole |-> FALSE, data |-> data]}
  PROVE  KeysMove /\ FilesFrom
BY DEF KeysMove, FilesFrom, StoreOK

\* Completing a file changes no name and makes nothing of the cache wrong.
LEMMA CompletedNames ==
  ASSUME StoreOK, Named, CacheCoherent, NEW n, files' = Completed(n), UNCHANGED <<cache, now>>,
         \A t \in tasks' : \E u \in tasks : u.ts = t.ts,
         Announced' = Announced
  PROVE  Named' /\ CacheCoherent'
<1>1. ASSUME NEW f \in files'
      PROVE  \E g \in files : /\ f.ts = g.ts /\ f.data = g.data /\ (g.whole => f.whole)
                              /\ f = IF g.ts = n THEN [g EXCEPT !.whole = TRUE] ELSE g
  <2>1. CASE f \in files /\ f.ts # n BY <2>1
  <2>2. CASE \E g \in files : g.ts = n /\ f = [g EXCEPT !.whole = TRUE]
    <3>1. PICK g \in files : g.ts = n /\ f = [g EXCEPT !.whole = TRUE] BY <2>2
    <3>2. f.ts = g.ts /\ f.data = g.data /\ f.whole BY <3>1 DEF StoreOK
    <3> QED BY <3>1, <3>2
  <2> QED BY <2>1, <2>2 DEF Completed
<1>2. ASSUME NEW f \in files', NEW g \in files', f.ts = g.ts PROVE f = g
  <2>1. PICK a \in files : f.ts = a.ts /\ f = IF a.ts = n THEN [a EXCEPT !.whole = TRUE] ELSE a
    BY <1>1
  <2>2. PICK b \in files : g.ts = b.ts /\ g = IF b.ts = n THEN [b EXCEPT !.whole = TRUE] ELSE b
    BY <1>1
  <2>3. a = b BY <1>2, <2>1, <2>2 DEF Named
  <2> QED BY <2>1, <2>2, <2>3
<1>3. \A f \in files' : f.ts <= now BY <1>1 DEF Named
<1>4. \A t \in Announced' : \A f \in files' : f.ts # t.ts BY <1>1 DEF Named
<1>5. CacheCoherent' BY <1>1 DEF CacheCoherent
<1> QED BY <1>2, <1>3, <1>4, <1>5 DEF Named
-----------------------------------------------------------------------------
(* Steps of a caller                                                       *)

\* c goes to l and nobody else moves.
Moves(c, l) ==
  pc'[c] = l /\ \A d \in Client \ {c} : pc'[d] = pc[d] /\ loc'[d] = loc[d]

LEMMA MovesOf ==
  ASSUME IInv, NEW c \in Client
  PROVE  /\ \A l : Goto(c, l) /\ UNCHANGED loc => Moves(c, l)
         /\ \A l, r : Goto(c, l) /\ loc' = [loc EXCEPT ![c] = r] => Moves(c, l) /\ loc'[c] = r
         /\ \A s, v : Return(c, s, v) => Moves(c, "idle")
         /\ \A s : ReturnMutation(c, s) => Moves(c, "idle")
BY DEF IInv, CallerOK, Goto, Moves, Return, ReturnMutation

\* The files, the cache and the tasks stay; all depends on the caller.
LEMMA CallerOnly ==
  ASSUME FInv, IInv', NEW c \in Client, UNCHANGED <<files, cache, tasks, now>>,
         NEW l, Moves(c, l), MergeOK(c)'
  PROVE  FilesOK'
<1>1. NamesStay BY DEF NamesStay, Old, Announced
<1>2. KeysMove /\ FilesFrom BY FilesStay DEF FInv, IInv
<1>3. \A d \in Client \ {c} : MergeOK(d)'
  BY <1>1, <1>2, MergeStays DEF FInv, IInv, FilesOK, Merged, CallerOK, Moves
<1>4. Named' /\ CacheCoherent' BY DEF FInv, FilesOK, Named, CacheCoherent, Announced
<1> QED BY <1>3, <1>4 DEF FilesOK, Merged

\* A caller that is not merging afterwards has nothing to keep.
LEMMA NotMerging ==
  ASSUME FInv, IInv', NEW c \in Client, UNCHANGED <<files, cache, tasks, now>>,
         NEW l, Moves(c, l), l \notin Merging
  PROVE  FilesOK'
<1>1. MergeOK(c)' BY DEF MergeOK, Moves
<1> QED BY <1>1, CallerOnly

\* Where a caller is after the steps that only concern itself.
LEMMA WriteMoves ==
  ASSUME IInv, NEW c \in Client,
         \/ \E k \in Key, kind \in {"write", "delete"} :
              WalAppend(c, k, kind) \/ WalAppendFails(c, k, kind)
         \/ Insert(c) \/ CheckSize(c) \/ FlushCall(c) \/ CompactCall(c)
         \/ FlushPolicy(c) \/ CompactFails(c)
  PROVE  /\ pc[c] # "push"
         /\ \E l \in {"idle", "insert", "check", "swap", "list"} : Moves(c, l)
<1>1. CASE \E k \in Key, kind \in {"write", "delete"} :
             WalAppend(c, k, kind) \/ WalAppendFails(c, k, kind)
  <2>1. ASSUME NEW k \in Key, NEW kind, WalAppend(c, k, kind)
        PROVE  pc[c] # "push" /\ Moves(c, "insert")
    BY <2>1 DEF WalAppend, Step, Goto, Moves, IInv, CallerOK
  <2>2. ASSUME NEW k \in Key, NEW kind, WalAppendFails(c, k, kind)
        PROVE  pc[c] # "push" /\ Moves(c, "idle")
    BY <2>2, MovesOf DEF WalAppendFails
  <2> QED BY <1>1, <2>1, <2>2
<1>2. CASE Insert(c) BY <1>2 DEF Insert, Step, Goto, Moves, IInv, CallerOK
<1>3. CASE CheckSize(c) BY <1>3, MovesOf DEF CheckSize
<1>4. CASE FlushCall(c) \/ CompactCall(c) BY <1>4, MovesOf DEF FlushCall, CompactCall, Step
<1>5. CASE FlushPolicy(c) BY <1>5, MovesOf DEF FlushPolicy
<1>6. CASE CompactFails(c) BY <1>6, MovesOf DEF CompactFails
<1> QED BY <1>1, <1>2, <1>3, <1>4, <1>5, <1>6

LEMMA WriteSteps ==
  ASSUME FInv, IInv', NEW c \in Client,
         \/ \E k \in Key, kind \in {"write", "delete"} :
              WalAppend(c, k, kind) \/ WalAppendFails(c, k, kind)
         \/ Insert(c) \/ CheckSize(c) \/ FlushCall(c) \/ CompactCall(c)
         \/ FlushSwap(c) \/ FlushPush(c) \/ FlushPolicy(c) \/ CompactFails(c)
  PROVE  FilesOK'
<1>1. UNCHANGED <<files, cache, tasks, now>>
  BY DEF WalAppend, WalAppendFails, Insert, CheckSize, FlushCall, CompactCall, FlushSwap,
         FlushPush, FlushPolicy, CompactFails, disk, memory
<1>2. CASE FlushSwap(c)
  <2>1. Moves(c, "push") BY <1>2 DEF FlushSwap, Step, Goto, Moves, FInv, IInv, CallerOK
  <2> QED BY <1>1, <2>1, NotMerging DEF Merging
<1>3. CASE FlushPush(c)
  <2>1. Moves(c, "spawn") BY <1>3 DEF FlushPush, Step, Goto, Moves, FInv, IInv, CallerOK
  <2> QED BY <1>1, <2>1, NotMerging DEF Merging
<1>4. CASE ~FlushSwap(c) /\ ~FlushPush(c)
  <2>1. \E l \in {"idle", "insert", "check", "swap", "list"} : Moves(c, l)
    BY <1>4, WriteMoves DEF FInv
  <2> QED BY <1>1, <2>1, NotMerging DEF Merging
<1> QED BY <1>2, <1>3, <1>4

LEMMA ReadMoves ==
  ASSUME IInv, NEW c \in Client,
         \/ \E k \in Key : GetCall(c, k) \/ GetActive(c, k) \/ GetImm(c, k)
         \/ ScanCall(c) \/ GetList(c) \/ GetNone(c) \/ ScanList(c) \/ ScanImm(c) \/ ScanActive(c)
         \/ \E t : ScanFile(c, t)
         \/ \E k, t : GetFile(c, k, t)
  PROVE  /\ pc[c] # "push"
         /\ \E l \in {"idle", "gactive", "slist", "gimm", "glist", "gfile", "sfile", "sactive"} :
              Moves(c, l)
<1>1. CASE \E k \in Key : GetCall(c, k)
  BY <1>1 DEF GetCall, ReadCall, Step, Goto, Moves, IInv, CallerOK
<1>2. CASE \E k \in Key : GetActive(c, k) BY <1>2, MovesOf DEF GetActive, Found
<1>3. CASE \E k \in Key : GetImm(c, k) BY <1>3, MovesOf DEF GetImm, Found
<1>4. CASE ScanCall(c)
  BY <1>4 DEF ScanCall, ReadCall, Step, Goto, Moves, IInv, CallerOK
<1>5. CASE GetList(c) \/ ScanList(c)
  BY <1>5 DEF GetList, ScanList, Step, Goto, Moves, IInv, CallerOK
<1>6. CASE GetNone(c) \/ ScanActive(c) BY <1>6, MovesOf DEF GetNone, ScanActive
<1>7. CASE ScanImm(c) BY <1>7 DEF ScanImm, Step, Goto, Moves, IInv, CallerOK
<1>8. CASE \E t : ScanFile(c, t)
  <2>1. PICK t : ScanFile(c, t) BY <1>8
  <2>2. CASE Openable(t) BY <2>1, <2>2 DEF ScanFile, Moves, IInv, CallerOK
  <2>3. CASE ~Openable(t) BY <2>1, <2>3, MovesOf DEF ScanFile
  <2> QED BY <2>2, <2>3
<1>9. CASE \E k, t : GetFile(c, k, t)
  <2>1. PICK k, t : GetFile(c, k, t) BY <1>9
  <2>2. CASE \E s, v : Return(c, s, v) BY <2>1, <2>2, MovesOf DEF GetFile
  <2>3. CASE loc' = [loc EXCEPT ![c].left = @ \ {t}] /\ UNCHANGED pc
    BY <2>1, <2>3 DEF GetFile, Moves, IInv, CallerOK
  <2> QED BY <2>1, <2>2, <2>3 DEF GetFile, Found
<1> QED BY <1>1, <1>2, <1>3, <1>4, <1>5, <1>6, <1>7, <1>8, <1>9

LEMMA ReadSteps ==
  ASSUME FInv, IInv', NEW c \in Client,
         \/ \E k \in Key : GetCall(c, k) \/ GetActive(c, k) \/ GetImm(c, k)
         \/ ScanCall(c) \/ GetList(c) \/ GetNone(c) \/ ScanList(c) \/ ScanImm(c) \/ ScanActive(c)
         \/ \E t : ScanFile(c, t)
  PROVE  FilesOK'
<1>1. UNCHANGED <<files, cache, tasks, now>>
  BY DEF GetCall, ReadCall, GetActive, GetImm, ScanCall, GetList, GetNone, ScanList, ScanImm,
         ScanActive, ScanFile, disk, memory
<1>2. \E l \in {"idle", "gactive", "slist", "gimm", "glist", "gfile", "sfile", "sactive"} : Moves(c, l)
  BY ReadMoves DEF FInv
<1> QED BY <1>1, <1>2, NotMerging DEF Merging
-----------------------------------------------------------------------------
(* Steps of a compaction                                                   *)

\* What is listed is in use.
LEMMA ListingOld == ASSUME Named PROVE \A x \in Listing : Old(x)
BY DEF Named, Listing, Old

LEMMA SelectedListed == SelectFiles(Policy, Listing) \subseteq Listing
BY DEF SelectFiles, Oldest

\* Of the files with one name there is one.
LEMMA OneContents ==
  ASSUME Named, NEW f \in files, NEW t, f.ts = t, Openable(t)
  PROVE  f.whole /\ Contents(t) = f.data
<1>1. PICK g \in files : g.ts = t /\ g.whole BY DEF Openable
<1>2. \A h \in files : h.ts = t => h = f BY DEF Named
<1>3. (CHOOSE h \in files : h.ts = t /\ h.whole) = f BY <1>1, <1>2
<1> QED BY <1>1, <1>2, <1>3 DEF Contents

LEMMA MergeSteps ==
  ASSUME FInv, IInv', NEW c \in Client, CompactList(c) \/ CompactReopen(c)
  PROVE  FilesOK'
<1>1. UNCHANGED <<files, cache, tasks, now>>
  BY DEF CompactList, CompactReopen, disk, memory
<1>2. loc[c] \in Locals /\ pc \in [Client -> Label] /\ loc \in [Client -> Locals]
  BY DEF FInv, IInv, CallerOK
<1>3. ASSUME \E s : ReturnMutation(c, s) PROVE FilesOK'
  <2>1. Moves(c, "idle") BY <1>3, MovesOf DEF FInv
  <2> QED BY <1>1, <2>1, NotMerging DEF Merging
<1>4. ASSUME CompactList(c), ~ \E s : ReturnMutation(c, s) PROVE FilesOK'
  <2>0. PICK names : names = SelectFiles(Policy, Listing) OBVIOUS
  <2>1. Goto(c, "open") /\ loc' = [loc EXCEPT ![c].names = names, ![c].left = names]
    BY <1>4, <2>0 DEF CompactList
  <2>2. Moves(c, "open") /\ loc'[c].names = names /\ loc'[c].left = names
    BY <1>2, <2>1 DEF Moves, Goto, Locals
  <2>3. \A x \in names : Old(x)
    BY <2>0, ListingOld, SelectedListed DEF FInv, FilesOK
  <2>4. \A x : Old(x) => Old(x)' BY <1>1 DEF Old, Announced
  <2>5. MergeOK(c)' BY <2>2, <2>3, <2>4 DEF MergeOK, Moves
  <2> QED BY <1>1, <2>2, <2>5, CallerOnly
<1>5. ASSUME CompactReopen(c), ~ \E s : ReturnMutation(c, s) PROVE FilesOK'
  <2>1. /\ pc[c] = "reopen" /\ Openable(loc[c].out) /\ Goto(c, "remove")
        /\ loc' = [loc EXCEPT ![c].left = loc[c].names]
    BY <1>5 DEF CompactReopen
  <2>2. Moves(c, "remove") /\ loc'[c].names = loc[c].names /\ loc'[c].left = loc[c].names
    BY <1>2, <2>1 DEF Moves, Goto, Locals
  <2>3. PICK g \in files : g.ts = loc[c].out /\ g.whole BY <2>1 DEF Openable
  <2>4. /\ \A x \in loc[c].names : Old(x) /\ x < loc[c].out
        /\ \A f \in files : f.ts \in loc[c].names => HasKeys(g, f)
    BY <2>1, <2>3 DEF FInv, FilesOK, Merged, MergeOK, Merging
  <2>5. \A f \in files : f.ts \in loc[c].names => Kept(f)'
    <3> SUFFICES ASSUME NEW f \in files, f.ts \in loc[c].names, NEW k \in Key, f.data[k] # 0
                 PROVE  \E h \in files' : h.whole /\ h.ts > f.ts /\ h.data[k] # 0
      BY DEF Kept
    <3>1. g \in files' /\ g.data[k] # 0 BY <1>1, <2>4 DEF HasKeys
    <3>2. g.ts > f.ts BY <2>3, <2>4 DEF FInv, IInv, StoreOK
    <3> QED BY <2>3, <3>1, <3>2
  <2>6. \A x : Old(x) => Old(x)' BY <1>1 DEF Old, Announced
  <2>7. MergeOK(c)' BY <1>1, <2>2, <2>4, <2>5, <2>6 DEF MergeOK, Moves
  <2> QED BY <1>1, <2>2, <2>7, CallerOnly
<1> QED BY <1>3, <1>4, <1>5

LEMMA OpenFile ==
  ASSUME FInv, IInv', NEW c \in Client, NEW t, CompactOpen(c, t)
  PROVE  FilesOK'
<1>1. UNCHANGED <<files, cache, tasks, now>> BY DEF CompactOpen, disk, memory
<1>2. loc[c] \in Locals /\ pc \in [Client -> Label] /\ loc \in [Client -> Locals]
  BY DEF FInv, IInv, CallerOK
<1>3. CASE ~Openable(t)
  <2>1. Moves(c, "idle") BY <1>3, MovesOf DEF CompactOpen, FInv
  <2> QED BY <1>1, <2>1, NotMerging DEF Merging
<1>4. CASE Openable(t)
  <2>1. /\ pc[c] = "open" /\ t \in loc[c].left
        /\ loc' = [loc EXCEPT ![c].left = @ \ {t}, ![c].hand = Over(Contents(t), @)]
        /\ UNCHANGED pc
    BY <1>4 DEF CompactOpen, IsOldest
  <2>2. /\ Moves(c, "open") /\ loc'[c].names = loc[c].names /\ loc'[c].left = loc[c].left \ {t}
        /\ loc'[c].hand = Over(Contents(t), loc[c].hand)
    BY <1>2, <2>1 DEF Moves, Locals
  <2>3. /\ \A x \in loc[c].names : Old(x)
        /\ loc[c].left \subseteq loc[c].names
        /\ \A f \in files : f.ts \in loc[c].names \ loc[c].left =>
             \A k \in Key : f.data[k] # 0 => loc[c].hand[k] # 0
    BY <2>1 DEF FInv, FilesOK, Merged, MergeOK, Merging
  <2>4. ASSUME NEW f \in files, f.ts \in loc[c].names \ (loc[c].left \ {t}),
               NEW k \in Key, f.data[k] # 0
        PROVE  Over(Contents(t), loc[c].hand)[k] # 0
    <3>1. CASE f.ts = t
      BY <1>4, <2>4, <3>1, OneContents DEF FInv, FilesOK, Over
    <3>2. CASE f.ts # t BY <2>3, <2>4, <3>2 DEF Over
    <3> QED BY <3>1, <3>2
  <2>5. \A x : Old(x) => Old(x)' BY <1>1 DEF Old, Announced
  <2>6. MergeOK(c)' BY <1>1, <2>2, <2>3, <2>4, <2>5 DEF MergeOK, Moves
  <2> QED BY <1>1, <2>2, <2>6, CallerOnly
<1> QED BY <1>3, <1>4

\* The output gets the keys of all inputs and a name later than theirs.
LEMMA CreateFile ==
  ASSUME FInv, IInv', NEW c \in Client, CompactCreate(c) PROVE FilesOK'
<1>0. PICK hand : hand = loc[c].hand OBVIOUS
<1>00. PICK new : new = now + 1 OBVIOUS
<1>1. /\ pc[c] = "open" /\ pc' = [pc EXCEPT ![c] = "finish"] /\ loc[c].left = {}
      /\ now' = new
      /\ files' = files \cup {[ts |-> new, whole |-> FALSE, data |-> hand]}
      /\ loc' = [loc EXCEPT ![c].out = new, ![c].hand = EmptyRun]
      /\ UNCHANGED <<cache, tasks>>
  BY <1>0, <1>00 DEF CompactCreate, Step, Goto, memory
<1>2. /\ loc[c] \in Locals /\ pc \in [Client -> Label] /\ loc \in [Client -> Locals]
      /\ now \in Nat /\ new = now + 1 /\ StoreOK /\ StoreOK'
  BY <1>00 DEF FInv, IInv, CallerOK, StoreOK
<1>3. /\ \A d \in Client \ {c} : pc'[d] = pc[d] /\ loc'[d] = loc[d]
      /\ pc'[c] = "finish" /\ loc'[c].names = loc[c].names /\ loc'[c].out = new
      /\ loc'[c].left = loc[c].left
  BY <1>1, <1>2 DEF Locals
<1>4. ~Old(new) BY <1>2 DEF Old
<1>5. KeysMove /\ FilesFrom BY <1>1, <1>2, <1>4, AddedMoves
<1>6. NamesStay BY <1>1, <1>2 DEF NamesStay, Old, Announced
<1>7. \A d \in Client \ {c} : MergeOK(d)'
  BY <1>2, <1>3, <1>5, <1>6, MergeStays DEF FInv, FilesOK, Merged
<1>8. /\ loc[c].names \subseteq Nat /\ \A x \in loc[c].names : x <= now /\ Old(x)
      /\ loc[c].left \subseteq loc[c].names
      /\ \A f \in files : f.ts \in loc[c].names => \A k \in Key : f.data[k] # 0 => hand[k] # 0
  BY <1>0, <1>1, <1>2 DEF FInv, FilesOK, Merged, MergeOK, Merging, Locals, Old
<1>9. \A f \in files : f.ts \in Nat /\ f.ts <= now BY <1>2 DEF FInv, FilesOK, Named, StoreOK
<1>10. /\ \A t \in tasks : t.ts \in Nat /\ t.ts <= now
       /\ \A e \in cache : e.ts \in Nat /\ e.ts <= now
  BY <1>2 DEF FInv, FilesOK, Named, StoreOK
<1>11. \A f \in files' : f \in files \/ (f.ts = new /\ f.data = hand) BY <1>1
<1>12. MergeOK(c)'
  <2>1. Old(new)' BY <1>1, <1>2, <1>10 DEF Old, Announced
  <2>2. \A x \in loc[c].names : Old(x)' BY <1>6, <1>8 DEF NamesStay
  <2>3. \A x \in loc[c].names : x < new BY <1>2, <1>8
  <2>4. ASSUME NEW g \in files', NEW f \in files', g.ts = new, f.ts \in loc[c].names
        PROVE  HasKeys(g, f)
    <3>1. f \in files BY <1>11, <2>3, <2>4, <1>2
    <3>2. g.data = hand BY <1>2, <1>9, <1>11, <2>4
    <3> QED BY <1>8, <2>4, <3>1, <3>2 DEF HasKeys
  <2> QED BY <1>3, <1>8, <2>1, <2>2, <2>3, <2>4 DEF MergeOK
<1>13. Named'
  <2>1. ASSUME NEW f \in files', NEW g \in files', f.ts = g.ts PROVE f = g
    <3>1. CASE f \in files /\ g \in files BY <2>1, <3>1 DEF FInv, FilesOK, Named
    <3>2. CASE f \in files /\ g \notin files BY <1>2, <1>9, <1>11, <2>1, <3>2
    <3>3. CASE f \notin files /\ g \in files BY <1>2, <1>9, <1>11, <2>1, <3>3
    <3>4. CASE f \notin files /\ g \notin files BY <1>1, <3>4
    <3> QED BY <3>1, <3>2, <3>3, <3>4
  <2>2. \A f \in files' : f.ts <= now' BY <1>1, <1>2, <1>9
  <2>3. \A e \in cache' : e.ts <= now' BY <1>1, <1>2, <1>10
  <2>4. \A t \in tasks' : t.ts <= now' BY <1>1, <1>2, <1>10
  <2>5. Announced' = Announced BY <1>1 DEF Announced
  <2>6. \A t \in Announced : t.ts # new BY <1>2, <1>10 DEF Announced
  <2>7. \A t \in Announced' : /\ \A f \in files' : f.ts # t.ts
                              /\ \A e \in cache' : e.ts # t.ts
    BY <1>1, <1>11, <2>5, <2>6 DEF FInv, FilesOK, Named
  <2>8. \A t, u \in Announced' : t.ts = u.ts => t = u BY <2>5 DEF FInv, FilesOK, Named
  <2> QED BY <2>1, <2>2, <2>3, <2>4, <2>7, <2>8 DEF Named
<1>14. CacheCoherent'
  <2> SUFFICES ASSUME NEW e \in cache, NEW f \in files', e.ts = f.ts
               PROVE  f.whole /\ f.data[e.key] = e.lsn
    BY <1>1 DEF CacheCoherent
  <2>1. f \in files BY <1>2, <1>10, <1>11
  <2> QED BY <2>1 DEF FInv, FilesOK, CacheCoherent
<1> QED BY <1>7, <1>12, <1>13, <1>14 DEF FilesOK, Merged

LEMMA FinishFile ==
  ASSUME FInv, IInv', NEW c \in Client, CompactFinish(c) PROVE FilesOK'
<1>0. PICK out : out = loc[c].out OBVIOUS
<1>1. /\ pc[c] = "finish" /\ pc' = [pc EXCEPT ![c] = "reopen"]
      /\ files' = Completed(loc[c].out) /\ UNCHANGED <<now, loc, cache, tasks>>
  BY DEF CompactFinish, Step, Goto, memory
<1>2. StoreOK /\ StoreOK' /\ pc \in [Client -> Label] /\ \A d \in Client : loc[d] \in Locals
  BY DEF FInv, IInv, CallerOK
<1>3. KeysMove /\ FilesFrom BY <1>1, <1>2, CompletedMoves
<1>4. Announced' = Announced BY <1>1 DEF Announced
<1>5. NamesStay BY <1>1, <1>4 DEF NamesStay, Old
<1>6. Named' /\ CacheCoherent'
  BY <1>1, <1>2, <1>4, CompletedNames DEF FInv, FilesOK
<1>7. \A d \in Client \ {c} : MergeOK(d)'
  BY <1>1, <1>2, <1>3, <1>5, MergeStays DEF FInv, FilesOK, Merged
<1>8. MergeOK(c)'
  <2>1. /\ \A x \in loc[c].names : Old(x) /\ x < out
        /\ loc[c].left \subseteq loc[c].names /\ Old(out)
        /\ \A g, f \in files : g.ts = out /\ f.ts \in loc[c].names => HasKeys(g, f)
    BY <1>0, <1>1 DEF FInv, FilesOK, Merged, MergeOK, Merging
  <2>2. \A f \in files' : Old(f.ts) => \E g \in files : g.ts = f.ts /\ g.data = f.data
    BY <1>3 DEF FilesFrom
  <2>3. ASSUME NEW g \in files', NEW f \in files', g.ts = out, f.ts \in loc[c].names
        PROVE  HasKeys(g, f)
    <3>1. PICK a \in files : a.ts = g.ts /\ a.data = g.data BY <2>1, <2>2, <2>3
    <3>2. PICK b \in files : b.ts = f.ts /\ b.data = f.data BY <2>1, <2>2, <2>3
    <3> QED BY <2>1, <2>3, <3>1, <3>2 DEF HasKeys
  <2>4. \A x \in loc[c].names : Old(x)' BY <1>2, <1>5, <2>1 DEF NamesStay, Locals
  <2>5. Old(out)' BY <1>0, <1>2, <1>5, <2>1 DEF NamesStay, Locals
  <2>6. pc'[c] = "reopen" BY <1>1, <1>2
  <2> QED BY <1>0, <1>1, <2>1, <2>3, <2>4, <2>5, <2>6 DEF MergeOK
<1> QED BY <1>6, <1>7, <1>8 DEF FilesOK, Merged

\* The keys of a file that is deleted are in a later one, which stays.
LEMMA RemovedMoves ==
  ASSUME FInv, NEW c \in Client, NEW t, CompactRemove(c, t)
  PROVE  KeysMove /\ FilesFrom
<1>1. files' = {f \in files : f.ts # t} /\ pc[c] = "remove" /\ t \in loc[c].left
  BY DEF CompactRemove, IsOldest
<1>2. StoreOK BY DEF FInv, IInv
<1>3. KeysMove
  <2> SUFFICES ASSUME NEW g \in files, NEW k \in Key, g.whole, g.data[k] # 0
               PROVE  \E h \in files' : h.whole /\ h.ts >= g.ts /\ h.data[k] # 0
    BY DEF KeysMove
  <2>1. g.ts \in Nat /\ g.ts >= g.ts BY <1>2 DEF StoreOK
  <2>2. CASE g.ts # t
    <3>1. g \in files' BY <1>1, <2>2
    <3> QED BY <2>1, <3>1
  <2>3. CASE g.ts = t
    <3>1. Kept(g) BY <1>1, <2>3 DEF FInv, FilesOK, Merged, MergeOK, Merging
    <3>2. PICK h \in files : h.whole /\ h.ts > g.ts /\ h.data[k] # 0 BY <3>1 DEF Kept
    <3>3. h.ts \in Nat BY <1>2 DEF StoreOK
    <3>4. h \in files' /\ h.ts >= g.ts BY <1>1, <2>1, <2>3, <3>2, <3>3
    <3> QED BY <3>2, <3>4
  <2> QED BY <2>2, <2>3
<1>4. FilesFrom BY <1>1 DEF FilesFrom
<1> QED BY <1>3, <1>4

LEMMA RemoveFile ==
  ASSUME FInv, IInv', NEW c \in Client, NEW t, CompactRemove(c, t) PROVE FilesOK'
<1>1. /\ files' = {f \in files : f.ts # t} /\ pc[c] = "remove" /\ t \in loc[c].left
      /\ UNCHANGED <<now, cache, tasks>>
  BY DEF CompactRemove, IsOldest, memory
<1>2. StoreOK /\ StoreOK' /\ pc \in [Client -> Label] /\ loc \in [Client -> Locals]
  BY DEF FInv, IInv, CallerOK
<1>3. KeysMove /\ FilesFrom BY RemovedMoves
<1>4. Announced' = Announced BY <1>1 DEF Announced
<1>5. NamesStay BY <1>1, <1>4 DEF NamesStay, Old
<1>6. Named' /\ CacheCoherent' BY <1>1, <1>4 DEF FInv, FilesOK, Named, CacheCoherent
<1>7. CASE loc[c].left = {t}
  <2>1. Moves(c, "idle") BY <1>7, MovesOf DEF CompactRemove, FInv
  <2>2. \A d \in Client \ {c} : MergeOK(d)'
    BY <1>2, <1>3, <1>5, <2>1, MergeStays DEF FInv, FilesOK, Merged, Moves
  <2>3. MergeOK(c)' BY <2>1 DEF MergeOK, Merging, Moves
  <2> QED BY <1>6, <2>2, <2>3 DEF FilesOK, Merged
<1>8. CASE loc[c].left # {t}
  <2>1. loc' = [loc EXCEPT ![c].left = @ \ {t}] /\ pc' = pc BY <1>8 DEF CompactRemove
  <2>2. /\ \A d \in Client \ {c} : loc'[d] = loc[d]
        /\ loc'[c].names = loc[c].names /\ loc'[c].left = loc[c].left \ {t}
    BY <1>2, <2>1 DEF Locals
  <2>3. \A d \in Client \ {c} : MergeOK(d)'
    BY <1>2, <1>3, <1>5, <2>1, <2>2, MergeStays DEF FInv, FilesOK, Merged
  <2>4. /\ \A x \in loc[c].names : Old(x) /\ x \in Nat
        /\ loc[c].left \subseteq loc[c].names
        /\ \A f \in files : f.ts \in loc[c].left => Kept(f)
    BY <1>1, <1>2 DEF FInv, FilesOK, Merged, MergeOK, Merging, Locals
  <2>5. ASSUME NEW f \in files', f.ts \in loc[c].left PROVE Kept(f)'
    <3> SUFFICES ASSUME NEW k \in Key, f.data[k] # 0
                 PROVE  \E h \in files' : h.whole /\ h.ts > f.ts /\ h.data[k] # 0
      BY DEF Kept
    <3>1. f \in files /\ f.ts \in Nat BY <1>1, <1>2 DEF StoreOK
    <3>2. PICK g \in files : g.whole /\ g.ts > f.ts /\ g.data[k] # 0 BY <2>4, <2>5, <3>1 DEF Kept
    <3>3. PICK h \in files' : h.whole /\ h.ts >= g.ts /\ h.data[k] # 0 BY <1>3, <3>2 DEF KeysMove
    <3>4. g.ts \in Nat /\ h.ts \in Nat BY <1>1, <1>2 DEF StoreOK
    <3> QED BY <3>1, <3>2, <3>3, <3>4
  <2>6. MergeOK(c)'
    <3>1. \A x \in loc[c].names : Old(x)' BY <1>5, <2>4 DEF NamesStay
    <3> QED BY <1>1, <2>1, <2>2, <2>4, <2>5, <3>1 DEF MergeOK
  <2> QED BY <1>6, <2>3, <2>6 DEF FilesOK, Merged
<1> QED BY <1>7, <1>8
-----------------------------------------------------------------------------
(* Flush tasks, the cache, crashes                                         *)

\* Nobody calls; who merged goes on merging.
LEMMA TaskOnly ==
  ASSUME FInv, IInv', UNCHANGED <<pc, loc>>, KeysMove, FilesFrom, NamesStay,
         Named', CacheCoherent'
  PROVE  FilesOK'
<1>1. \A d \in Client : MergeOK(d)'
  BY MergeStays DEF FInv, IInv, CallerOK, FilesOK, Merged
<1> QED BY <1>1 DEF FilesOK, Merged

\* A task ends or goes on under its name, and the files stay.
LEMMA TaskMoves ==
  ASSUME FInv, IInv', UNCHANGED <<pc, loc, files, cache, now>>, NEW t \in tasks,
         NEW new, \A u \in new : u.ts = t.ts /\ (u \in Announced' => t \in Announced),
         \A u, v \in new : u = v, tasks' = (tasks \ {t}) \cup new
  PROVE  FilesOK'
<1>1. KeysMove /\ FilesFrom BY FilesStay DEF FInv, IInv
<1>2. \A u \in Announced' : u \in Announced \/ (u \in new /\ t \in Announced) BY DEF Announced
<1>3. NamesStay BY <1>2 DEF NamesStay, Old
<1>4. CacheCoherent' BY DEF FInv, FilesOK, CacheCoherent
<1>5. Named'
  <2>1. \A u \in tasks' : u.ts <= now' BY DEF FInv, FilesOK, Named
  <2>2. ASSUME NEW u \in Announced', NEW v \in Announced', u.ts = v.ts PROVE u = v
    <3>1. CASE u \in new /\ v \in new BY <3>1
    <3>2. CASE u \notin new /\ v \notin new BY <1>2, <2>2, <3>2 DEF FInv, FilesOK, Named
    <3>3. CASE u \in new /\ v \notin new
      <4>1. t \in Announced /\ v \in Announced /\ v.ts = t.ts BY <1>2, <2>2, <3>3
      <4>2. v = t BY <4>1 DEF FInv, FilesOK, Named
      <4> QED BY <3>3, <4>2 DEF Announced
    <3>4. CASE u \notin new /\ v \in new
      <4>1. t \in Announced /\ u \in Announced /\ u.ts = t.ts BY <1>2, <2>2, <3>4
      <4>2. u = t BY <4>1 DEF FInv, FilesOK, Named
      <4> QED BY <3>4, <4>2 DEF Announced
    <3> QED BY <3>1, <3>2, <3>3, <3>4
  <2>3. \A u \in Announced' : /\ \A f \in files : f.ts # u.ts
                              /\ \A e \in cache : e.ts # u.ts
    BY <1>2 DEF FInv, FilesOK, Named
  <2> QED BY <2>1, <2>2, <2>3 DEF FInv, FilesOK, Named
<1> QED BY <1>1, <1>3, <1>4, <1>5, TaskOnly

LEMMA TaskCreates ==
  ASSUME FInv, IInv', NEW t \in tasks, TaskCreate(t), UNCHANGED <<pc, loc>>
  PROVE  FilesOK'
<1>1. /\ t \in Announced
      /\ files' = files \cup {[ts |-> t.ts, whole |-> FALSE, data |-> t.data]}
      /\ tasks' = (tasks \ {t}) \cup {[t EXCEPT !.pc = "finish"]}
      /\ UNCHANGED <<now, cache>>
  BY DEF TaskCreate, Announced
<1>2. StoreOK /\ t \in Task BY DEF FInv, IInv, StoreOK, Task
<1>3. [t EXCEPT !.pc = "finish"].ts = t.ts /\ [t EXCEPT !.pc = "finish"].pc = "finish"
  BY <1>2 DEF Task
<1>4. Announced' = Announced \ {t} BY <1>1, <1>3 DEF Announced
<1>5. ~Old(t.ts) BY <1>1 DEF Old
<1>6. KeysMove /\ FilesFrom BY <1>1, <1>2, <1>5, AddedMoves
<1>7. NamesStay BY <1>1, <1>4 DEF NamesStay, Old
<1>8. CacheCoherent' BY <1>1 DEF FInv, FilesOK, Named, CacheCoherent
<1>9. Named'
  <2>1. \A f \in files' : f \in files \/ f = [ts |-> t.ts, whole |-> FALSE, data |-> t.data]
    BY <1>1
  <2>2. \A f \in files : f.ts # t.ts BY <1>1 DEF FInv, FilesOK, Named
  <2>3. ASSUME NEW f \in files', NEW g \in files', f.ts = g.ts PROVE f = g
    <3>1. CASE f \in files /\ g \in files BY <2>3, <3>1 DEF FInv, FilesOK, Named
    <3>2. CASE f \in files /\ g \notin files BY <2>1, <2>2, <2>3, <3>2
    <3>3. CASE f \notin files /\ g \in files BY <2>1, <2>2, <2>3, <3>3
    <3>4. CASE f \notin files /\ g \notin files BY <2>1, <3>4
    <3> QED BY <3>1, <3>2, <3>3, <3>4
  <2>4. \A f \in files' : f.ts <= now BY <1>1, <2>1 DEF FInv, FilesOK, Named
  <2>5. \A u \in tasks' : u.ts <= now BY <1>1, <1>3 DEF FInv, FilesOK, Named
  <2>6. \A u \in Announced' : u \in Announced /\ u.ts # t.ts
    BY <1>1, <1>4 DEF FInv, FilesOK, Named
  <2>7. \A u \in Announced' : \A f \in files' : f.ts # u.ts
    BY <2>1, <2>6 DEF FInv, FilesOK, Named
  <2> QED BY <1>1, <2>3, <2>4, <2>5, <2>6, <2>7 DEF FInv, FilesOK, Named
<1> QED BY <1>6, <1>7, <1>8, <1>9, TaskOnly

LEMMA TaskFinishes ==
  ASSUME FInv, IInv', NEW t \in tasks, TaskFinish(t), UNCHANGED <<pc, loc>>
  PROVE  FilesOK'
<1>1. /\ t.pc = "finish" /\ files' = Completed(t.ts)
      /\ tasks' = (tasks \ {t}) \cup {[t EXCEPT !.pc = "reopen"]}
      /\ UNCHANGED <<now, cache>>
  BY DEF TaskFinish
<1>2. StoreOK /\ t \in Task BY DEF FInv, IInv, StoreOK, Task
<1>3. [t EXCEPT !.pc = "reopen"].ts = t.ts /\ [t EXCEPT !.pc = "reopen"].pc = "reopen"
  BY <1>2 DEF Task
<1>4. Announced' = Announced BY <1>1, <1>3 DEF Announced
<1>5. NamesStay BY <1>1, <1>4 DEF NamesStay, Old
<1>6. \A u \in tasks' : \E v \in tasks : v.ts = u.ts BY <1>1, <1>3
<1>7. Named' /\ CacheCoherent' BY <1>1, <1>2, <1>4, <1>6, CompletedNames DEF FInv, FilesOK
<1>8. KeysMove /\ FilesFrom BY <1>1, <1>2, CompletedMoves
<1> QED BY <1>5, <1>7, <1>8, TaskOnly

LEMMA TaskAnySteps ==
  ASSUME FInv, IInv', NEW t \in tasks, TaskStep(t) \/ TaskFails(t) PROVE FilesOK'
<1>1. UNCHANGED <<pc, loc>> BY DEF TaskStep, TaskFails
<1>2. t \in Task BY DEF FInv, IInv, StoreOK, Task
<1>3. CASE TaskRead(t)
  <2>1. PICK new : new = IF t.idx \in DOMAIN immutables
                         THEN {[t EXCEPT !.pc = "create", !.data = immutables[t.idx]]} ELSE {}
    OBVIOUS
  <2>2. /\ t \in Announced /\ tasks' = (tasks \ {t}) \cup new
        /\ UNCHANGED <<files, cache, now>>
    BY <1>3, <2>1 DEF TaskRead, Announced, disk
  <2>3. \A u \in new : u.ts = t.ts BY <1>2, <2>1 DEF Task
  <2>4. \A u, v \in new : u = v BY <2>1
  <2> QED BY <1>1, <2>2, <2>3, <2>4, TaskMoves
<1>4. CASE TaskCreate(t) BY <1>1, <1>4, TaskCreates
<1>5. CASE TaskFinish(t) BY <1>1, <1>5, TaskFinishes
<1>6. CASE TaskReopen(t)
  <2>1. PICK new : new = IF Openable(t.ts) THEN {[t EXCEPT !.pc = "remove"]} ELSE {}
    OBVIOUS
  <2>2. tasks' = (tasks \ {t}) \cup new /\ UNCHANGED <<files, cache, now>>
    BY <1>6, <2>1 DEF TaskReopen, disk
  <2>3. \A u \in new : u.ts = t.ts /\ u.pc = "remove" BY <1>2, <2>1 DEF Task
  <2>4. \A u \in new : u \notin Announced' BY <2>3 DEF Announced
  <2>5. \A u, v \in new : u = v BY <2>1
  <2> QED BY <1>1, <2>2, <2>3, <2>4, <2>5, TaskMoves
<1>7. CASE TaskRemove(t) \/ TaskFails(t)
  <2>1. PICK new : new = {} OBVIOUS
  <2>2. tasks' = (tasks \ {t}) \cup new /\ UNCHANGED <<files, cache, now>>
    BY <1>7, <2>1 DEF TaskRemove, TaskFails, disk
  <2>3. \A u \in new : u.ts = t.ts /\ (u \in Announced' => t \in Announced) BY <2>1
  <2>4. \A u, v \in new : u = v BY <2>1
  <2> QED BY <1>1, <2>2, <2>3, <2>4, TaskMoves
<1> QED BY <1>3, <1>4, <1>5, <1>6, <1>7 DEF TaskStep

\* The new task gets the next name.
LEMMA SpawnTask ==
  ASSUME FInv, IInv', NEW c \in Client, FlushSpawn(c) PROVE FilesOK'
<1>1. PICK t : t = [ts |-> now + 1, idx |-> loc[c].out, pc |-> "read", data |-> EmptyRun]
  OBVIOUS
<1>2. /\ now' = now + 1 /\ tasks' = tasks \cup {t} /\ UNCHANGED <<files, cache>>
      /\ pc' = [pc EXCEPT ![c] = "policy"] /\ loc' = [loc EXCEPT ![c].out = 0]
  BY <1>1 DEF FlushSpawn, Step, Goto
<1>3. now \in Nat /\ StoreOK /\ StoreOK' BY DEF FInv, IInv, StoreOK
<1>4. pc'[c] = "policy" /\ \A d \in Client \ {c} : pc'[d] = pc[d] /\ loc'[d] = loc[d]
  BY <1>2 DEF FInv, IInv, CallerOK
<1>5. KeysMove /\ FilesFrom BY <1>2, <1>3, FilesStay
<1>6. Announced' = Announced \cup {t} BY <1>1, <1>2 DEF Announced
<1>7. NamesStay BY <1>1, <1>2, <1>3, <1>6 DEF NamesStay, Old
<1>8. \A d \in Client \ {c} : MergeOK(d)'
  BY <1>3, <1>4, <1>5, <1>7, MergeStays DEF FInv, IInv, CallerOK, FilesOK, Merged
<1>9. MergeOK(c)' BY <1>4 DEF MergeOK, Merging
<1>10. CacheCoherent' BY <1>2 DEF FInv, FilesOK, CacheCoherent
<1>11. Named'
  <2>1. /\ \A f \in files : f.ts \in Nat /\ f.ts <= now
        /\ \A e \in cache : e.ts \in Nat /\ e.ts <= now
        /\ \A u \in tasks : u.ts \in Nat /\ u.ts <= now
    BY <1>3 DEF FInv, FilesOK, Named, StoreOK
  <2>2. t.ts = now + 1 BY <1>1
  <2>3. \A u \in Announced : u.ts # t.ts BY <1>3, <2>1, <2>2 DEF Announced
  <2>4. \A u, v \in Announced' : u.ts = v.ts => u = v
    BY <1>6, <2>3 DEF FInv, FilesOK, Named
  <2>5. \A u \in Announced' : /\ \A f \in files : f.ts # u.ts
                              /\ \A e \in cache : e.ts # u.ts
    BY <1>3, <1>6, <2>1, <2>2 DEF FInv, FilesOK, Named
  <2>6. /\ \A f \in files : f.ts <= now'
        /\ \A e \in cache : e.ts <= now'
        /\ \A u \in tasks' : u.ts <= now'
    BY <1>2, <1>3, <2>1, <2>2
  <2>7. \A f, g \in files' : f.ts = g.ts => f = g BY <1>2 DEF FInv, FilesOK, Named
  <2>8. \A u \in Announced' : /\ \A f \in files' : f.ts # u.ts
                              /\ \A e \in cache' : e.ts # u.ts
    BY <1>2, <2>5
  <2>9. /\ \A f \in files' : f.ts <= now'
        /\ \A e \in cache' : e.ts <= now'
    BY <1>2, <2>6
  <2>10. \A u \in tasks' : u.ts <= now' BY <2>6
  <2> QED BY <2>4, <2>7, <2>8, <2>9, <2>10 DEF Named
<1> QED BY <1>8, <1>9, <1>10, <1>11 DEF FilesOK, Merged

\* What is cached is what the file holds under its name.
LEMMA GetFileFiles ==
  ASSUME FInv, IInv', NEW c \in Client, NEW k \in Key, NEW t, GetFile(c, k, t)
  PROVE  FilesOK'
<1>1. UNCHANGED <<files, tasks, now>> BY DEF GetFile, disk
<1>2. \E l \in {"idle", "gactive", "slist", "gimm", "glist", "gfile", "sfile", "sactive"} : Moves(c, l)
  BY ReadMoves DEF FInv
<1>3. CASE UNCHANGED cache BY <1>1, <1>2, <1>3, NotMerging DEF Merging
<1>4. CASE Openable(t) /\ CacheInsert([ts |-> t, key |-> k, lsn |-> Contents(t)[k]])
  <2>1. PICK e : e = [ts |-> t, key |-> k, lsn |-> Contents(t)[k]] OBVIOUS
  <2>2. \A x \in cache' : x \in cache \/ x = e BY <1>4, <2>1 DEF CacheInsert
  <2>3. PICK f \in files : f.ts = t BY <1>4 DEF Openable
  <2>4. \A g \in files : g.ts = t => g = f BY <2>3 DEF FInv, FilesOK, Named
  <2>5. f.whole /\ f.data[k] = e.lsn /\ e.ts = t /\ e.key = k
    BY <1>4, <2>1, <2>3, OneContents DEF FInv, FilesOK
  <2>6. CacheCoherent' BY <1>1, <2>2, <2>4, <2>5 DEF FInv, FilesOK, CacheCoherent
  <2>7. Announced' = Announced BY <1>1 DEF Announced
  <2>8. Named' BY <1>1, <2>2, <2>3, <2>5, <2>7 DEF FInv, FilesOK, Named
  <2>9. NamesStay BY <1>1, <2>7 DEF NamesStay, Old
  <2>10. KeysMove /\ FilesFrom BY <1>1, FilesStay DEF FInv, IInv
  <2>11. \A d \in Client \ {c} : MergeOK(d)'
    BY <1>2, <2>9, <2>10, MergeStays DEF FInv, IInv, CallerOK, FilesOK, Merged, Moves
  <2>12. MergeOK(c)' BY <1>2 DEF MergeOK, Merging, Moves
  <2> QED BY <2>6, <2>8, <2>11, <2>12 DEF FilesOK, Merged
<1> QED BY <1>3, <1>4 DEF GetFile

\* A crash leaves files only; opening the store leaves them alone.
LEMMA RestartSteps == ASSUME FInv, IInv', Crash \/ Open PROVE FilesOK'
<1>1. CASE Crash
  <2>1. /\ cache' = {} /\ tasks' = {} /\ UNCHANGED <<files, now>>
        /\ pc' = [c \in Client |-> "idle"]
    BY <1>1 DEF Crash
  <2>2. Named' /\ CacheCoherent'
    BY <2>1 DEF FInv, FilesOK, Named, CacheCoherent, Announced
  <2>3. Merged' BY <2>1 DEF Merged, MergeOK, Merging
  <2> QED BY <2>2, <2>3 DEF FilesOK
<1>2. CASE Open
  <2>1. UNCHANGED <<files, cache, tasks, now, pc, loc>> BY <1>2 DEF Open, disk
  <2>2. Named' /\ CacheCoherent'
    BY <2>1 DEF FInv, FilesOK, Named, CacheCoherent, Announced
  <2>3. NamesStay BY <2>1 DEF NamesStay, Old, Announced
  <2>4. KeysMove /\ FilesFrom BY <2>1, FilesStay DEF FInv, IInv
  <2> QED BY <2>1, <2>2, <2>3, <2>4, TaskOnly
<1> QED BY <1>1, <1>2

-----------------------------------------------------------------------------
(* Compactions keep keys, the cache agrees with the files                  *)

LEMMA InitFInv == Init => FInv
<1> SUFFICES ASSUME Init PROVE FInv
  OBVIOUS
<1>1. IInv BY InitOK
<1>2. Named /\ CacheCoherent BY DEF Init, Named, CacheCoherent, Announced
<1>3. Merged BY DEF Init, Merged, MergeOK, Merging
<1> QED BY <1>1, <1>2, <1>3 DEF FInv, FilesOK

LEMMA StepFInv == FInv /\ [Next]_vars => FInv'
<1> SUFFICES ASSUME FInv, [Next]_vars PROVE FInv'
  OBVIOUS
<1>0. IInv' BY NextOK DEF FInv
<1>1. ASSUME NEW c \in Client, Call(c) PROVE FilesOK'
  BY <1>0, <1>1, WriteSteps, ReadSteps DEF Call
<1>2. ASSUME NEW c \in Client, Continue(c) PROVE FilesOK'
  <2>1. loc[c].want \subseteq Key BY DEF FInv, IInv, CallerOK, Locals
  <2>2. CASE Mutating(c) BY <1>0, <2>2, WriteSteps DEF Mutating
  <2>3. CASE Flushing(c) BY <1>0, <2>3, WriteSteps, SpawnTask DEF Flushing
  <2>4. CASE Compacting(c)
    BY <1>0, <2>4, MergeSteps, OpenFile, CreateFile, FinishFile, RemoveFile DEF Compacting
  <2>5. CASE Getting(c) BY <1>0, <2>1, <2>5, ReadSteps, GetFileFiles DEF Getting
  <2>6. CASE Scanning(c) BY <1>0, <2>6, ReadSteps DEF Scanning
  <2> QED BY <1>2, <2>2, <2>3, <2>4, <2>5, <2>6 DEF Continue
<1>3. ASSUME NEW c \in Client, CompactFails(c) PROVE FilesOK'
  BY <1>0, <1>3, WriteSteps
<1>4. ASSUME NEW t \in tasks, TaskStep(t) \/ TaskFails(t) PROVE FilesOK'
  BY <1>0, <1>4, TaskAnySteps
<1>5. CASE Crash \/ Open BY <1>0, <1>5, RestartSteps DEF FInv
<1>6. CASE UNCHANGED vars
  <2>1. UNCHANGED <<files, cache, tasks, now, pc, loc>>
    BY <1>6 DEF vars, disk, memory
  <2>2. Named' /\ CacheCoherent'
    BY <2>1 DEF FInv, FilesOK, Named, CacheCoherent, Announced
  <2>3. NamesStay BY <2>1 DEF NamesStay, Old, Announced
  <2>4. KeysMove /\ FilesFrom BY <2>1, FilesStay DEF FInv, IInv
  <2> QED BY <1>0, <2>1, <2>2, <2>3, <2>4, TaskOnly DEF FInv
<1> QED BY <1>0, <1>1, <1>2, <1>3, <1>4, <1>5, <1>6 DEF Next, FInv

LEMMA InvariantF == Spec => []FInv
BY InitFInv, StepFInv, PTL DEF Spec

\* What get() finds in the block cache is what the SSTable of that name holds,
\* whatever is flushed, merged and deleted meanwhile.
THEOREM CacheCoherentHolds == Spec => []CacheCoherent
<1>1. FInv => CacheCoherent BY DEF FInv, FilesOK
<1> QED BY <1>1, InvariantF, PTL
-----------------------------------------------------------------------------
(* What a step does to the files                                           *)

\* Only a compaction in its last loop deletes a file, and a new file has a
\* name that was not used before.
LEMMA FilesChange ==
  ASSUME FInv, [Next]_vars
  PROVE  \/ files' = files
         \/ \E n, data : ~Old(n) /\ files' = files \cup {[ts |-> n, whole |-> FALSE, data |-> data]}
         \/ \E n : files' = Completed(n)
         \/ \E c \in Client : \E t : CompactRemove(c, t)
<1>1. ASSUME NEW c \in Client, Call(c) PROVE files' = files
  BY <1>1 DEF Call, WalAppend, WalAppendFails, GetCall, ScanCall, ReadCall, FlushCall, CompactCall,
              disk
<1>2. ASSUME NEW c \in Client, Mutating(c) \/ Flushing(c) \/ CompactFails(c) PROVE files' = files
  BY <1>2 DEF Mutating, Insert, CheckSize, Flushing, FlushSwap, FlushPush, FlushSpawn, FlushPolicy,
              CompactFails, disk
<1>3. ASSUME NEW c \in Client, Getting(c) \/ Scanning(c) PROVE files' = files
  BY <1>3 DEF Getting, GetList, GetNone, GetActive, GetImm, GetFile, Scanning, ScanList, ScanImm,
              ScanActive, ScanFile, disk
<1>4. ASSUME NEW c \in Client, CompactCreate(c)
      PROVE  /\ ~Old(now + 1)
             /\ files' = files \cup {[ts |-> now + 1, whole |-> FALSE, data |-> loc[c].hand]}
  BY <1>4 DEF CompactCreate, Old, FInv, IInv, StoreOK
<1>5. ASSUME NEW c \in Client, Compacting(c), ~CompactCreate(c)
      PROVE  files' = files \/ (\E n : files' = Completed(n)) \/ \E t : CompactRemove(c, t)
  BY <1>5 DEF Compacting, CompactList, CompactFinish, CompactReopen, CompactOpen, disk
<1>6. ASSUME NEW t \in tasks, TaskCreate(t)
      PROVE  /\ ~Old(t.ts)
             /\ files' = files \cup {[ts |-> t.ts, whole |-> FALSE, data |-> t.data]}
  BY <1>6 DEF TaskCreate, Old, Announced
<1>7. ASSUME NEW t \in tasks, TaskStep(t) \/ TaskFails(t), ~TaskCreate(t)
      PROVE  files' = files \/ \E n : files' = Completed(n)
  BY <1>7 DEF TaskStep, TaskRead, TaskFinish, TaskReopen, TaskRemove, TaskFails, disk
<1>8. CASE Crash \/ Open \/ UNCHANGED vars BY <1>8 DEF Crash, Open, vars, disk
<1> QED BY <1>1, <1>2, <1>3, <1>4, <1>5, <1>6, <1>7, <1>8 DEF Next, Continue

\* So a key of a complete file is never lost and no file becomes another.
LEMMA StepFilesMove == ASSUME FInv, [Next]_vars PROVE KeysMove /\ FilesFrom
<1>1. CASE files' = files BY <1>1, FilesStay DEF FInv, IInv
<1>2. CASE \E n, data : /\ ~Old(n)
                        /\ files' = files \cup {[ts |-> n, whole |-> FALSE, data |-> data]}
  BY <1>2, AddedMoves DEF FInv, IInv
<1>3. CASE \E n : files' = Completed(n) BY <1>3, CompletedMoves DEF FInv, IInv
<1>4. CASE \E c \in Client : \E t : CompactRemove(c, t) BY <1>4, RemovedMoves
<1> QED BY <1>1, <1>2, <1>3, <1>4, FilesChange

\* A file that disappears leaves its keys behind.
LEMMA StepKeeps ==
  ASSUME FInv, [Next]_vars, NEW f \in files, f.ts \notin Listing', NEW k \in Key, f.data[k] # 0
  PROVE  \E g \in files' : g.whole /\ g.data[k] # 0
<1>1. ASSUME files \subseteq files' PROVE FALSE BY <1>1 DEF Listing
<1>2. ASSUME NEW n, files' = Completed(n) PROVE FALSE
  <2>1. CASE f.ts # n BY <1>2, <2>1 DEF Completed, Listing
  <2>2. CASE f.ts = n
    <3>1. [f EXCEPT !.whole = TRUE] \in files' BY <1>2, <2>2 DEF Completed
    <3>2. [f EXCEPT !.whole = TRUE].ts = f.ts BY DEF FInv, IInv, StoreOK
    <3> QED BY <3>1, <3>2 DEF Listing
  <2> QED BY <2>1, <2>2
<1>3. PICK c \in Client : \E t : CompactRemove(c, t) BY <1>1, <1>2, FilesChange
<1>4. PICK t : CompactRemove(c, t) BY <1>3
<1>5. files' = {g \in files : g.ts # t} /\ pc[c] = "remove" /\ t \in loc[c].left
  BY <1>4 DEF CompactRemove, IsOldest
<1>6. f.ts = t BY <1>5 DEF Listing
<1>7. Kept(f) BY <1>5, <1>6 DEF FInv, FilesOK, Merged, MergeOK, Merging
<1>8. PICK g \in files : g.whole /\ g.ts > f.ts /\ g.data[k] # 0 BY <1>7 DEF Kept
<1>9. g.ts # t BY <1>6, <1>8 DEF FInv, IInv, StoreOK
<1> QED BY <1>5, <1>8, <1>9

\* A key of an SSTable that trigger_compaction deletes is in another complete
\* one, even when the output of one compaction is the input of the next.
THEOREM CompactionKeepsKeysHolds == Spec => CompactionKeepsKeys
<1>1. FInv /\ [Next]_vars =>
        [\A f \in files : f.ts \notin Listing' =>
           \A k \in Key : f.data[k] # 0 =>
             \E g \in files' : g.whole /\ g.data[k] # 0]_vars
  BY StepKeeps
<1> QED BY <1>1, InvariantF, PTL DEF Spec, CompactionKeepsKeys
-----------------------------------------------------------------------------
(* One flush at a time: every key stays                                    *)

\* There is a newest memtable and a newest file for what memtables and files have.
LEMMA NewestExist ==
  ASSUME FInv, NEW k \in Key
  PROVE  /\ ~NoImm(k) => \E i \in 1..Len(immutables) : NewestImm(i, k)
         /\ FilesWith(k) # {} => \E f \in FilesWith(k) : \A g \in FilesWith(k) : g.ts <= f.ts
<1>0. StoreOK BY DEF FInv, IInv
<1>1. ASSUME ~NoImm(k) PROVE \E i \in 1..Len(immutables) : NewestImm(i, k)
  <2>1. PICK n \in Nat : n = Len(immutables) BY <1>0 DEF StoreOK
  <2>2. PICK T : T = {n - i : i \in {j \in 1..n : immutables[j][k] # 0}} OBVIOUS
  <2>3. T \subseteq Nat /\ T # {} BY <1>1, <2>1, <2>2 DEF NoImm
  <2>4. PICK x \in T : \A y \in T : x <= y BY <2>3, LeastNat
  <2>5. PICK i \in 1..n : immutables[i][k] # 0 /\ x = n - i BY <2>2
  <2>6. ASSUME NEW j \in (i + 1)..n PROVE immutables[j][k] = 0
    <3>1. j \in 1..n /\ ~(n - i <= n - j) BY <2>1
    <3>2. n - j \notin T BY <2>4, <2>5, <3>1
    <3> QED BY <2>2, <3>1, <3>2
  <2> QED BY <2>1, <2>5, <2>6 DEF NewestImm
<1>2. ASSUME FilesWith(k) # {}
      PROVE  \E f \in FilesWith(k) : \A g \in FilesWith(k) : g.ts <= f.ts
  <2>1. now \in Nat /\ \A f \in FilesWith(k) : f.ts \in Nat /\ f.ts <= now
    BY <1>0 DEF FInv, FilesOK, Named, FilesWith, StoreOK
  <2>2. PICK T : T = {now - f.ts : f \in FilesWith(k)} OBVIOUS
  <2>3. T \subseteq Nat /\ T # {} BY <1>2, <2>1, <2>2
  <2>4. PICK x \in T : \A y \in T : x <= y BY <2>3, LeastNat
  <2>5. PICK f \in FilesWith(k) : x = now - f.ts BY <2>2
  <2>6. \A g \in FilesWith(k) : now - f.ts <= now - g.ts BY <2>2, <2>4, <2>5
  <2> QED BY <2>1, <2>6
<1> QED BY <1>1, <1>2

\* The places of a key, as the reads search them.
LEMMA PresentCurrent ==
  ASSUME FInv, NEW k \in Key, Present(k) PROVE Current(k) # 0
<1>1. InHand(k) # {} => (CHOOSE l \in InHand(k) : TRUE) # 0 BY DEF InHand
<1>2. ~NoImm(k) => immutables[CHOOSE i \in 1..Len(immutables) : NewestImm(i, k)][k] # 0
  BY NewestExist DEF NewestImm
<1>3. FilesWith(k) # {} =>
        (CHOOSE f \in FilesWith(k) : \A g \in FilesWith(k) : g.ts <= f.ts).data[k] # 0
  BY NewestExist DEF FilesWith
<1>4. active[k] # 0 \/ InHand(k) # {} \/ ~NoImm(k) \/ FilesWith(k) # {}
  BY DEF Present, InHand, NoImm, FilesWith, InFile
<1> QED BY <1>1, <1>2, <1>3, <1>4 DEF Current

\* Nobody's flush moves on.
LEMMA FlushedStays ==
  ASSUME FInv, StoreOK', Flushed, KeysMove, FilesFrom, UNCHANGED <<tasks, immutables>>,
         \A d \in Client : Swapped(d)' => Swapped(d)
  PROVE  Flushed'
<1>1. \A t \in tasks : t.pc \in {"finish", "reopen"} =>
        \A f \in files' : f.ts = t.ts => f.data = t.data
  <2> SUFFICES ASSUME NEW t \in tasks, t.pc \in {"finish", "reopen"}, NEW f \in files', f.ts = t.ts
               PROVE  f.data = t.data
    OBVIOUS
  <2>1. \A u \in tasks : u = t BY DEF Flushed
  <2>2. Old(t.ts) BY <2>1 DEF Old, Announced, FInv, FilesOK, Named
  <2>3. PICK g \in files : g.ts = f.ts /\ g.data = f.data BY <2>2 DEF FilesFrom
  <2> QED BY <2>3 DEF Flushed
<1>2. \A k \in Key : InFile(k) => InFile(k)' BY DEF InFile, KeysMove
<1>3. \A t \in tasks : t.pc = "remove" => \A k \in Key : t.data[k] # 0 => InFile(k)'
  BY <1>2 DEF Flushed
<1> QED BY <1>1, <1>3 DEF Flushed

\* A key stays where it is, but for the files, where it may move on.
LEMMA PresentStays ==
  ASSUME KeysMove, NEW k \in Key, Present(k), active[k] # 0 => active'[k] # 0,
         UNCHANGED immutables,
         \A d \in Client : pc[d] = "push" => pc'[d] = "push" /\ loc'[d].hand = loc[d].hand
  PROVE  Present(k)'
<1>1. InFile(k) => InFile(k)' BY DEF InFile, KeysMove
<1> QED BY <1>1 DEF Present

\* The callers and tasks of a store that is not running are gone.
LEMMA StoppedStays ==
  ASSUME FInv, Stopped, [Next]_vars PROVE Stopped'
<1>1. ASSUME NEW c \in Client, Call(c) PROVE up /\ up' = up
  <2>1. ASSUME NEW k \in Key, NEW kind, WalAppend(c, k, kind) \/ WalAppendFails(c, k, kind)
        PROVE  up /\ up' = up
    BY <2>1 DEF WalAppend, WalAppendFails, Step, memory
  <2>2. ASSUME NEW k \in Key, GetCall(c, k) PROVE up /\ up' = up
    BY <2>2 DEF GetCall, ReadCall, Step, memory
  <2>3. ASSUME ScanCall(c) \/ FlushCall(c) \/ CompactCall(c) PROVE up /\ up' = up
    BY <2>3 DEF ScanCall, ReadCall, FlushCall, CompactCall, Step, memory
  <2> QED BY <1>1, <2>1, <2>2, <2>3 DEF Call
<1>2. ASSUME NEW c \in Client, Mutating(c) \/ Flushing(c) \/ CompactFails(c) PROVE up /\ up' = up
  BY <1>2 DEF Mutating, Insert, CheckSize, Flushing, FlushSwap, FlushPush, FlushSpawn, FlushPolicy,
              CompactFails, Step, memory
<1>3. ASSUME NEW c \in Client, Getting(c) \/ Scanning(c) PROVE up /\ up' = up
  <2>1. ASSUME GetList(c) \/ GetNone(c) \/ ScanList(c) \/ ScanImm(c) \/ ScanActive(c)
        PROVE  up /\ up' = up
    BY <2>1 DEF GetList, GetNone, ScanList, ScanImm, ScanActive, Step, memory
  <2>2. ASSUME NEW k, GetActive(c, k) \/ GetImm(c, k) PROVE up /\ up' = up
    BY <2>2 DEF GetActive, GetImm, memory
  <2>3. ASSUME NEW k, NEW t, GetFile(c, k, t) \/ ScanFile(c, t) PROVE up /\ up' = up
    BY <2>3 DEF GetFile, ScanFile, memory
  <2> QED BY <1>3, <2>1, <2>2, <2>3 DEF Getting, Scanning
<1>4. ASSUME NEW c \in Client, Compacting(c) PROVE up /\ up' = up
  <2>1. ASSUME CompactList(c) \/ CompactCreate(c) \/ CompactFinish(c) \/ CompactReopen(c)
        PROVE  up /\ up' = up
    BY <2>1 DEF CompactList, CompactCreate, CompactFinish, CompactReopen, Step, memory
  <2>2. ASSUME NEW t, CompactOpen(c, t) \/ CompactRemove(c, t) PROVE up /\ up' = up
    BY <2>2 DEF CompactOpen, CompactRemove, memory
  <2> QED BY <1>4, <2>1, <2>2 DEF Compacting
<1>5. ASSUME NEW t \in tasks, TaskStep(t) \/ TaskFails(t) PROVE up /\ up' = up
  BY <1>5 DEF TaskStep, TaskRead, TaskCreate, TaskFinish, TaskReopen, TaskRemove, TaskFails
<1>6. CASE Crash \/ Open \/ UNCHANGED vars
  BY <1>6 DEF Crash, Open, Stopped, vars, memory
<1> QED BY <1>1, <1>2, <1>3, <1>4, <1>5, <1>6 DEF Next, Continue, Stopped

\* A compaction pushes no memtable.
LEMMA MergeMoves ==
  ASSUME IInv, NEW c \in Client, Compacting(c)
  PROVE  pc[c] # "push" /\ \E l \in Merging \cup {"idle"} : Moves(c, l)
<1>1. CASE CompactList(c)
  BY <1>1, MovesOf DEF CompactList, Merging, Goto, Moves, IInv, CallerOK
<1>2. CASE CompactCreate(c)
  BY <1>2 DEF CompactCreate, Step, Goto, Moves, Merging, IInv, CallerOK
<1>3. CASE CompactFinish(c)
  BY <1>3 DEF CompactFinish, Step, Goto, Moves, Merging, IInv, CallerOK
<1>4. CASE CompactReopen(c)
  BY <1>4, MovesOf DEF CompactReopen, Merging, Goto, Moves, IInv, CallerOK
<1>5. CASE \E t : CompactOpen(c, t)
  BY <1>5, MovesOf DEF CompactOpen, Merging, Moves, IInv, CallerOK
<1>6. CASE \E t : CompactRemove(c, t)
  BY <1>6, MovesOf DEF CompactRemove, Merging, Moves, IInv, CallerOK
<1> QED BY <1>1, <1>2, <1>3, <1>4, <1>5, <1>6 DEF Compacting

\* A caller that flushes nothing, and changes no memtable.
LEMMA CallerQuiet ==
  ASSUME KInv, StoreOK', KeysMove, FilesFrom, NEW c \in Client, pc[c] # "push",
         NEW l, l \notin {"push", "spawn"}, Moves(c, l),
         UNCHANGED <<up, active, immutables, tasks, latest>>
  PROVE  Flushed' /\ KeysPresent'
<1>1. \A d \in Client : Swapped(d)' => Swapped(d) BY DEF Moves, Swapped
<1>2. \A d \in Client : pc[d] = "push" => pc'[d] = "push" /\ loc'[d].hand = loc[d].hand
  BY DEF Moves
<1>3. Flushed' BY <1>1, FlushedStays DEF KInv
<1>4. KeysPresent' BY <1>2, PresentStays DEF KInv, KeysPresent
<1> QED BY <1>3, <1>4

LEMMA QuietSteps ==
  ASSUME KInv, StoreOK', KeysMove, FilesFrom, NEW c \in Client,
         Call(c) \/ CheckSize(c) \/ FlushPolicy(c) \/ CompactFails(c) \/ Compacting(c)
           \/ Getting(c) \/ Scanning(c)
  PROVE  Flushed' /\ KeysPresent'
<1>0. IInv BY DEF KInv, FInv
<1>1. CASE \/ \E k \in Key, kind \in {"write", "delete"} :
                WalAppend(c, k, kind) \/ WalAppendFails(c, k, kind)
           \/ FlushCall(c) \/ CompactCall(c) \/ CheckSize(c) \/ FlushPolicy(c) \/ CompactFails(c)
  <2>1. UNCHANGED <<up, active, immutables, tasks, latest>>
    BY <1>1 DEF WalAppend, WalAppendFails, FlushCall, CompactCall, CheckSize, FlushPolicy,
                CompactFails, Return, ReturnMutation, memory, history
  <2>2. /\ pc[c] # "push"
        /\ \E l \in {"idle", "insert", "check", "swap", "list"} : Moves(c, l)
    BY <1>0, <1>1, WriteMoves
  <2> QED BY <2>1, <2>2, CallerQuiet
<1>2. CASE Compacting(c)
  <2>1. UNCHANGED <<up, active, immutables, tasks, latest>>
    <3>1. CASE CompactList(c) \/ CompactCreate(c) \/ CompactFinish(c) \/ CompactReopen(c)
      BY <3>1 DEF CompactList, CompactCreate, CompactFinish, CompactReopen, Return,
                  ReturnMutation, memory, history
    <3>2. CASE \E t : CompactOpen(c, t) \/ CompactRemove(c, t)
      BY <3>2 DEF CompactOpen, CompactRemove, Return, ReturnMutation, memory, history
    <3> QED BY <1>2, <3>1, <3>2 DEF Compacting
  <2>2. pc[c] # "push" /\ \E l \in Merging \cup {"idle"} : Moves(c, l)
    BY <1>0, <1>2, MergeMoves
  <2> QED BY <2>1, <2>2, CallerQuiet DEF Merging
<1>3. CASE Getting(c) \/ Scanning(c) \/ ScanCall(c) \/ \E k \in Key : GetCall(c, k)
  <2>0. loc[c].want \subseteq Key BY <1>0 DEF IInv, CallerOK, Locals
  <2>1. UNCHANGED <<up, active, immutables, tasks, latest>>
    <3>1. CASE ScanCall(c) \/ \E k \in Key : GetCall(c, k)
      BY <3>1 DEF ScanCall, GetCall, ReadCall, memory, history
    <3>2. CASE GetList(c) \/ GetNone(c) \/ ScanList(c) \/ ScanImm(c) \/ ScanActive(c)
      BY <3>2 DEF GetList, GetNone, ScanList, ScanImm, ScanActive, Return, memory, history
    <3>3. CASE \E k : GetActive(c, k) \/ GetImm(c, k)
      BY <3>3 DEF GetActive, GetImm, Found, Return, memory, history
    <3>4. CASE \E k, t : GetFile(c, k, t) \/ ScanFile(c, t)
      BY <3>4 DEF GetFile, ScanFile, Found, Return, memory, history
    <3> QED BY <1>3, <3>1, <3>2, <3>3, <3>4 DEF Getting, Scanning
  <2>2. /\ pc[c] # "push"
        /\ \E l \in {"idle", "gactive", "slist", "gimm", "glist", "gfile", "sfile", "sactive"} :
             Moves(c, l)
    BY <1>0, <1>3, <2>0, ReadMoves DEF Getting, Scanning
  <2> QED BY <2>1, <2>2, CallerQuiet
<1> QED BY <1>1, <1>2, <1>3 DEF Call

\* The inserted record is in the active memtable.
LEMMA InsertStays ==
  ASSUME KInv, StoreOK', KeysMove, FilesFrom, NEW c \in Client, Insert(c)
  PROVE  Flushed' /\ KeysPresent'
<1>0. IInv BY DEF KInv, FInv
<1>1. PICK l : l = loc[c].lsn OBVIOUS
<1>2. PICK k : k = wal[l].key OBVIOUS
<1>3. /\ pc[c] = "insert" /\ active' = [active EXCEPT ![k] = l]
      /\ latest' = [latest EXCEPT ![k] = l]
      /\ UNCHANGED <<immutables, tasks>>
      /\ up /\ up' = up
  BY <1>1, <1>2 DEF Insert, Step
<1>4. l # 0 BY <1>0, <1>1, <1>3 DEF IInv, CallerOK, Carries
<1>5. active \in [Key -> Nat] /\ latest \in [Key -> Nat]
  BY <1>0 DEF IInv, StoreOK, CallerOK, Layer
<1>6. Moves(c, "check") BY <1>0 DEF Insert, Step, Goto, Moves, IInv, CallerOK
<1>7. \A d \in Client : Swapped(d)' => Swapped(d) BY <1>6 DEF Moves, Swapped
<1>8. \A d \in Client : pc[d] = "push" => pc'[d] = "push" /\ loc'[d].hand = loc[d].hand
  BY <1>3, <1>6 DEF Moves
<1>9. Flushed' BY <1>3, <1>7, FlushedStays DEF KInv
<1>10. ASSUME NEW j \in Key, latest'[j] # 0 PROVE Present(j)'
  <2>1. CASE j = k
    <3>1. active'[j] # 0 BY <1>3, <1>4, <1>5, <2>1
    <3> QED BY <3>1 DEF Present
  <2>2. CASE j # k
    <3>1. latest[j] # 0 /\ active'[j] = active[j] BY <1>3, <1>5, <1>10, <2>2
    <3>2. Present(j) BY <1>3, <3>1 DEF KInv, KeysPresent
    <3> QED BY <1>3, <1>8, <3>1, <3>2, PresentStays
  <2> QED BY <2>1, <2>2
<1> QED BY <1>9, <1>10 DEF KeysPresent
\* With at most one flush in flight, the swap is the only one.
LEMMA NothingInFlight ==
  ASSUME Flushed, MaxFlushes = 1, InFlight < MaxFlushes
  PROVE  tasks = {} /\ \A d \in Client : ~Swapped(d)
<1> DEFINE S == {d \in Client : pc[d] \in {"push", "spawn"}}
<1>1. IsFiniteSet(tasks)
  <2>1. CASE tasks = {} BY <2>1, FS_EmptySet
  <2>2. CASE tasks # {}
    <3>1. PICK t \in tasks : tasks = {t} BY <2>2 DEF Flushed
    <3> QED BY <3>1, FS_Singleton
  <2> QED BY <2>1, <2>2
<1>2. IsFiniteSet(S) BY LsmAssumption, FS_Subset DEF LsmAssumption
<1>3. InFlight = Cardinality(tasks) + Cardinality(S) BY DEF InFlight
<1> HIDE DEF S
<1>4. Cardinality(tasks) \in Nat /\ Cardinality(S) \in Nat BY <1>1, <1>2, FS_CardinalityType
<1>5. Cardinality(tasks) = 0 /\ Cardinality(S) = 0 BY <1>3, <1>4
<1>6. tasks = {} /\ S = {} BY <1>1, <1>2, <1>5, FS_EmptySet
<1> QED BY <1>6 DEF Swapped, S

\* What was active is in the hand of the caller.
LEMMA SwapStays ==
  ASSUME KInv, StoreOK', KeysMove, FilesFrom, MaxFlushes = 1, NEW c \in Client, FlushSwap(c)
  PROVE  Flushed' /\ KeysPresent'
<1>0. IInv BY DEF KInv, FInv
<1>1. PICK hand : hand = active OBVIOUS
<1>2. /\ pc' = [pc EXCEPT ![c] = "push"] /\ loc' = [loc EXCEPT ![c].hand = hand]
      /\ UNCHANGED <<immutables, tasks, latest>> /\ up /\ up' = up
  BY <1>1 DEF FlushSwap, Step, Goto, history
<1>3. tasks = {} /\ \A d \in Client : ~Swapped(d)
  BY NothingInFlight DEF KInv, FlushSwap
<1>4. /\ pc'[c] = "push" /\ loc'[c].hand = hand
      /\ \A d \in Client \ {c} : pc'[d] = pc[d] /\ loc'[d] = loc[d]
  BY <1>0, <1>2 DEF IInv, CallerOK, Locals
<1>5. Flushed' BY <1>2, <1>3, <1>4 DEF Flushed, Swapped
<1>6. ASSUME NEW k \in Key, latest'[k] # 0 PROVE Present(k)'
  <2>1. Present(k) BY <1>2, <1>6 DEF KInv, KeysPresent
  <2>2. CASE active[k] # 0 BY <1>1, <1>4, <2>2 DEF Present
  <2>3. CASE \E d \in Client : pc[d] = "push" /\ loc[d].hand[k] # 0
    BY <1>3, <2>3 DEF Swapped
  <2>4. CASE \E i \in 1..Len(immutables) : immutables[i][k] # 0
    BY <1>2, <2>4 DEF Present
  <2>5. CASE InFile(k)
    <3>1. InFile(k)' BY <2>5 DEF InFile, KeysMove
    <3> QED BY <3>1 DEF Present
  <2> QED BY <2>1, <2>2, <2>3, <2>4, <2>5 DEF Present
<1> QED BY <1>5, <1>6 DEF KeysPresent

\* What was in the hand of the caller is frozen.
LEMMA PushStays ==
  ASSUME KInv, StoreOK', KeysMove, FilesFrom, NEW c \in Client, FlushPush(c)
  PROVE  Flushed' /\ KeysPresent'
<1>0. IInv BY DEF KInv, FInv
<1>1. PICK hand : hand = loc[c].hand OBVIOUS
<1>2. /\ pc[c] = "push" /\ pc' = [pc EXCEPT ![c] = "spawn"]
      /\ immutables' = Append(immutables, hand)
      /\ UNCHANGED <<active, tasks, latest>> /\ up /\ up' = up
  BY <1>1 DEF FlushPush, Step, Goto, history
<1>3. /\ pc'[c] = "spawn"
      /\ \A d \in Client \ {c} : pc'[d] = pc[d] /\ loc'[d] = loc[d]
  BY <1>0, <1>2 DEF IInv, CallerOK, FlushPush
<1>4. tasks = {} /\ \A d \in Client : Swapped(d) => d = c
  BY <1>2 DEF KInv, Flushed, Swapped
<1>5. Flushed' BY <1>2, <1>3, <1>4 DEF Flushed, Swapped
<1>6. /\ Len(immutables') = Len(immutables) + 1 /\ Len(immutables) \in Nat
      /\ immutables'[Len(immutables) + 1] = hand
      /\ \A i \in 1..Len(immutables) : immutables'[i] = immutables[i]
  BY <1>0, <1>2 DEF IInv, StoreOK
<1>7. ASSUME NEW k \in Key, latest'[k] # 0 PROVE Present(k)'
  <2>1. Present(k) BY <1>2, <1>7 DEF KInv, KeysPresent
  <2>2. CASE active[k] # 0 BY <1>2, <2>2 DEF Present
  <2>3. CASE \E d \in Client : pc[d] = "push" /\ loc[d].hand[k] # 0
    <3>1. hand[k] # 0 BY <1>1, <1>4, <2>3 DEF Swapped
    <3>2. immutables'[Len(immutables) + 1][k] # 0 BY <1>6, <3>1
    <3>3. Len(immutables) + 1 \in 1..Len(immutables') BY <1>6
    <3> QED BY <3>2, <3>3 DEF Present
  <2>4. CASE \E i \in 1..Len(immutables) : immutables[i][k] # 0
    <3>1. PICK i \in 1..Len(immutables) : immutables[i][k] # 0 BY <2>4
    <3>2. i \in 1..Len(immutables') /\ immutables'[i][k] # 0 BY <1>6, <3>1
    <3> QED BY <3>2 DEF Present
  <2>5. CASE InFile(k)
    <3>1. InFile(k)' BY <2>5 DEF InFile, KeysMove
    <3> QED BY <3>1 DEF Present
  <2> QED BY <2>1, <2>2, <2>3, <2>4, <2>5 DEF Present
<1> QED BY <1>5, <1>7 DEF KeysPresent

\* The only caller between swap and spawn hands over to the only task.
LEMMA SpawnStays ==
  ASSUME KInv, StoreOK', KeysMove, FilesFrom, NEW c \in Client, FlushSpawn(c)
  PROVE  Flushed' /\ KeysPresent'
<1>0. IInv BY DEF KInv, FInv
<1>1. PICK t : t = [ts |-> now + 1, idx |-> loc[c].out, pc |-> "read", data |-> EmptyRun]
  OBVIOUS
<1>2. /\ pc[c] = "spawn" /\ pc' = [pc EXCEPT ![c] = "policy"] /\ tasks' = tasks \cup {t}
      /\ UNCHANGED <<active, immutables, latest>> /\ up /\ up' = up
  BY <1>1 DEF FlushSpawn, Step, Goto, history
<1>3. /\ pc'[c] = "policy"
      /\ \A d \in Client \ {c} : pc'[d] = pc[d] /\ loc'[d] = loc[d]
  BY <1>0, <1>2 DEF IInv, CallerOK, FlushSpawn
<1>4. tasks = {} /\ \A d \in Client : Swapped(d) => d = c
  BY <1>2 DEF KInv, Flushed, Swapped
<1>5. tasks' = {t} /\ t.pc = "read" BY <1>1, <1>2, <1>4
<1>6. \A d \in Client : ~Swapped(d)' BY <1>3, <1>4 DEF Swapped
<1>7. Flushed' BY <1>5, <1>6 DEF Flushed
<1>8. \A d \in Client : pc[d] = "push" => pc'[d] = "push" /\ loc'[d].hand = loc[d].hand
  BY <1>2, <1>3
<1>9. KeysPresent' BY <1>2, <1>8, PresentStays DEF KInv, KeysPresent
<1> QED BY <1>7, <1>9
\* The task is the only one and nobody else flushes: what it carries is what
\* is frozen, and it goes on with what its file has.
LEMMA TaskFlushed ==
  ASSUME KInv, StoreOK', KeysMove, FilesFrom, UNCHANGED <<pc, immutables>>,
         NEW t \in tasks, NEW u, tasks' \subseteq {u},
         u.pc # "read" => u.idx \in 1..Len(immutables) /\ immutables[u.idx] = u.data,
         u.pc \in {"finish", "reopen"} => \A f \in files' : f.ts = u.ts => f.data = u.data,
         u.pc = "remove" => \A k \in Key : u.data[k] # 0 => InFile(k)
  PROVE  Flushed'
<1>1. \A c \in Client : ~Swapped(c)' BY DEF KInv, Flushed, Swapped
<1>2. \A k \in Key : InFile(k) => InFile(k)' BY DEF InFile, KeysMove
<1>3. \A v, w \in tasks' : v = u /\ v = w OBVIOUS
<1> QED BY <1>1, <1>2, <1>3 DEF Flushed

LEMMA TaskStays ==
  ASSUME KInv, StoreOK', KeysMove, FilesFrom, NEW t \in tasks, TaskStep(t) \/ TaskFails(t)
  PROVE  Flushed' /\ KeysPresent'
<1>0. UNCHANGED <<up, pc, loc, active, latest>> /\ up
  BY DEF TaskStep, TaskFails, TaskRead, TaskCreate, TaskFinish, TaskReopen, TaskRemove, history
<1>1. StoreOK /\ t \in Task /\ tasks = {t}
  BY DEF KInv, FInv, IInv, StoreOK, Task, Flushed
<1>2. ASSUME UNCHANGED immutables PROVE KeysPresent'
  BY <1>0, <1>2, PresentStays DEF KInv, KeysPresent
<1>3. t.pc # "read" => t.idx \in 1..Len(immutables) /\ immutables[t.idx] = t.data
  BY DEF KInv, Flushed
<1>4. CASE TaskRead(t)
  <2>1. PICK u : u = [t EXCEPT !.pc = "create", !.data = immutables[t.idx]] OBVIOUS
  <2>2. u.pc = "create" /\ u.idx = t.idx /\ u.data = immutables[t.idx] BY <1>1, <2>1 DEF Task
  <2>3. /\ immutables' = immutables
        /\ tasks' = {} \/ (tasks' = {u} /\ t.idx \in 1..Len(immutables))
    <3>1. PICK new : new = IF t.idx \in DOMAIN immutables THEN {u} ELSE {} OBVIOUS
    <3>2. tasks' = (tasks \ {t}) \cup new /\ immutables' = immutables
      BY <1>4, <2>1, <3>1 DEF TaskRead
    <3>3. t.idx \in DOMAIN immutables => t.idx \in 1..Len(immutables) BY <1>1 DEF StoreOK
    <3> QED BY <1>1, <3>1, <3>2, <3>3
  <2>4. CASE tasks' = {} BY <1>0, <1>2, <2>3, <2>4 DEF Flushed, KInv, Swapped
  <2>5. CASE tasks' = {u} /\ t.idx \in 1..Len(immutables)
    BY <1>0, <1>2, <2>2, <2>3, <2>5, TaskFlushed
  <2> QED BY <2>3, <2>4, <2>5
<1>5. CASE TaskCreate(t)
  <2>1. PICK u : u = [t EXCEPT !.pc = "finish"] OBVIOUS
  <2>2. u.pc = "finish" /\ u.idx = t.idx /\ u.data = t.data /\ u.ts = t.ts BY <1>1, <2>1 DEF Task
  <2>3. /\ immutables' = immutables /\ tasks' = {u} /\ t.pc = "create"
        /\ files' = files \cup {[ts |-> t.ts, whole |-> FALSE, data |-> t.data]}
    BY <1>1, <1>5, <2>1 DEF TaskCreate
  <2>4. \A f \in files : f.ts # t.ts BY <2>3 DEF KInv, FInv, FilesOK, Named, Announced
  <2>5. \A f \in files' : f.ts = u.ts => f.data = u.data BY <2>2, <2>3, <2>4
  <2>6. Flushed' BY <1>0, <1>3, <2>2, <2>3, <2>5, TaskFlushed
  <2> QED BY <1>2, <2>3, <2>6
<1>6. CASE TaskFinish(t)
  <2>1. PICK u : u = [t EXCEPT !.pc = "reopen"] OBVIOUS
  <2>2. u.pc = "reopen" /\ u.idx = t.idx /\ u.data = t.data /\ u.ts = t.ts BY <1>1, <2>1 DEF Task
  <2>3. immutables' = immutables /\ tasks' = {u} /\ t.pc = "finish"
    BY <1>1, <1>6, <2>1 DEF TaskFinish
  <2>4. Old(t.ts) BY <1>1, <2>3 DEF Old, Announced, KInv, FInv, FilesOK, Named
  <2>5. \A f \in files' : f.ts = u.ts => f.data = u.data
    BY <2>2, <2>3, <2>4 DEF FilesFrom, KInv, Flushed
  <2>6. Flushed' BY <1>0, <1>3, <2>2, <2>3, <2>5, TaskFlushed
  <2> QED BY <1>2, <2>3, <2>6
<1>7. CASE TaskReopen(t)
  <2>1. PICK u : u = [t EXCEPT !.pc = "remove"] OBVIOUS
  <2>2. u.pc = "remove" /\ u.idx = t.idx /\ u.data = t.data BY <1>1, <2>1 DEF Task
  <2>3. /\ immutables' = immutables /\ t.pc = "reopen"
        /\ tasks' = {} \/ (tasks' = {u} /\ Openable(t.ts))
    BY <1>1, <1>7, <2>1 DEF TaskReopen
  <2>4. CASE tasks' = {} BY <1>0, <1>2, <2>3, <2>4 DEF Flushed, KInv, Swapped
  <2>5. CASE tasks' = {u} /\ Openable(t.ts)
    <3>1. PICK f \in files : f.ts = t.ts /\ f.whole BY <2>5 DEF Openable
    <3>2. f.data = t.data BY <2>3, <3>1 DEF KInv, Flushed
    <3>3. \A k \in Key : u.data[k] # 0 => InFile(k) BY <2>2, <3>1, <3>2 DEF InFile
    <3>4. Flushed' BY <1>0, <1>3, <2>2, <2>3, <2>5, <3>3, TaskFlushed
    <3> QED BY <1>2, <2>3, <3>4
  <2> QED BY <2>3, <2>4, <2>5
<1>8. CASE TaskRemove(t)
  <2>1. /\ t.pc = "remove" /\ tasks' = {}
        /\ t.idx \in 1..Len(immutables) /\ immutables' = RemoveAt(immutables, t.idx)
    BY <1>1, <1>3, <1>8 DEF TaskRemove, StoreOK
  <2>2. Flushed' BY <1>0, <2>1 DEF Flushed, KInv, Swapped
  <2>3. ASSUME NEW k \in Key, latest'[k] # 0 PROVE Present(k)'
    <3>0. InFile(k) => InFile(k)' BY DEF InFile, KeysMove
    <3>1. Present(k) BY <1>0, <2>3 DEF KInv, KeysPresent
    <3>2. CASE active[k] # 0 \/ InFile(k) \/ \E c \in Client : pc[c] = "push" /\ loc[c].hand[k] # 0
      BY <1>0, <3>0, <3>2 DEF Present
    <3>3. CASE \E i \in 1..Len(immutables) : immutables[i][k] # 0
      <4>1. PICK i \in 1..Len(immutables) : immutables[i][k] # 0 BY <3>3
      <4>2. CASE i = t.idx
        <5>1. InFile(k) BY <1>3, <2>1, <4>1, <4>2 DEF KInv, Flushed
        <5> QED BY <3>0, <5>1 DEF Present
      <4>3. CASE i # t.idx
        <5>1. PICK j \in 1..Len(immutables') : immutables'[j] = immutables[i]
          BY <1>1, <2>1, <4>3, RemoveAtElements DEF StoreOK
        <5> QED BY <4>1, <5>1 DEF Present
      <4> QED BY <4>2, <4>3
    <3> QED BY <3>1, <3>2, <3>3 DEF Present
  <2> QED BY <2>2, <2>3 DEF KeysPresent
<1>9. CASE TaskFails(t)
  <2>1. tasks' = {} /\ immutables' = immutables BY <1>1, <1>9 DEF TaskFails
  <2> QED BY <1>0, <1>2, <2>1 DEF Flushed, KInv, Swapped
<1> QED BY <1>4, <1>5, <1>6, <1>7, <1>8, <1>9 DEF TaskStep

\* After a crash nothing moves, and open() takes as inserted what it replayed.
LEMMA RestartStays ==
  ASSUME KInv, StoreOK', KeysMove, FilesFrom, Crash \/ Open
  PROVE  Flushed' /\ KeysPresent'
<1>1. CASE Crash
  <2>1. up' = FALSE /\ tasks' = {} /\ pc' = [c \in Client |-> "idle"] BY <1>1 DEF Crash
  <2> QED BY <2>1 DEF Flushed, KeysPresent, Swapped
<1>2. CASE Open
  <2>1. /\ UNCHANGED <<tasks, pc, immutables>> /\ latest' = [k \in Key |-> active'[k]]
    BY <1>2 DEF Open
  <2>2. \A d \in Client : Swapped(d)' => Swapped(d) BY <2>1 DEF Swapped
  <2>3. Flushed' BY <2>1, <2>2, FlushedStays DEF KInv
  <2>4. KeysPresent' BY <2>1 DEF KeysPresent, Present
  <2> QED BY <2>3, <2>4
<1> QED BY <1>1, <1>2

LEMMA StepKInv == MaxFlushes = 1 /\ KInv /\ [Next]_vars => KInv'
<1> SUFFICES ASSUME MaxFlushes = 1, KInv, [Next]_vars PROVE KInv'
  OBVIOUS
<1>1. FInv' /\ Stopped' BY StepFInv, StoppedStays DEF KInv
<1>2. KeysMove /\ FilesFrom BY StepFilesMove DEF KInv
<1>3. StoreOK' BY <1>1 DEF FInv, IInv
<1>4. ASSUME NEW c \in Client, Call(c) \/ Continue(c) \/ CompactFails(c)
      PROVE  Flushed' /\ KeysPresent'
  BY <1>2, <1>3, <1>4, QuietSteps, InsertStays, SwapStays, PushStays, SpawnStays
     DEF Continue, Mutating, Flushing
<1>5. ASSUME NEW t \in tasks, TaskStep(t) \/ TaskFails(t) PROVE Flushed' /\ KeysPresent'
  BY <1>2, <1>3, <1>5, TaskStays
<1>6. ASSUME Crash \/ Open PROVE Flushed' /\ KeysPresent' BY <1>2, <1>3, <1>6, RestartStays
<1>7. ASSUME UNCHANGED vars PROVE Flushed' /\ KeysPresent'
  <2>1. UNCHANGED <<up, active, immutables, files, tasks, pc, loc, latest>>
    BY <1>7 DEF vars, disk, memory, history
  <2>2. Flushed' BY <2>1 DEF KInv, Flushed, Swapped, InFile
  <2>3. KeysPresent' BY <2>1 DEF KInv, KeysPresent, Present, InFile
  <2> QED BY <2>2, <2>3
<1>8. Flushed' /\ KeysPresent' BY <1>4, <1>5, <1>6, <1>7 DEF Next
<1> QED BY <1>1, <1>8 DEF KInv

LEMMA InitKInv == Init => KInv
<1> SUFFICES ASSUME Init PROVE KInv
  OBVIOUS
<1>1. FInv BY InitFInv
<1>2. Flushed BY DEF Init, Flushed, Swapped
<1>3. KeysPresent BY DEF Init, KeysPresent, EmptyRun
<1> QED BY <1>1, <1>2, <1>3 DEF KInv, Stopped, Init

\* With at most one flush between swap and removal, a key that was inserted
\* stays in some layer that get() and scan() search.  (With two, the tasks
\* remove each other's memtables: the run lsm_flush_index shows it.)
THEOREM KeysStayHolds == ASSUME MaxFlushes = 1 PROVE Spec => []KeysStay
<1>1. KInv /\ [Next]_vars => KInv' BY StepKInv
<1>2. KInv => KeysStay BY PresentCurrent DEF KInv, KeysPresent, KeysStay
<1> QED BY <1>1, <1>2, InitKInv, PTL DEF Spec
-----------------------------------------------------------------------------
(* Recovery                                                                *)

\* What the engine needs for a restart to lose nothing: replay forgets deletes,
\* and what a failing write or an earlier crash has left of a frame hides every
\* frame behind it.
OneCrash == "delete" \notin Ops /\ MaxCrashes <= 1 /\ MaxIoErrors = 0

\* Until the crash the log has no hole; what is acknowledged is in it, and in
\* front of the hole the crash may leave.
LogOK ==
  /\ \A i \in 1 .. Len(wal) : wal[i].kind = "write"
  /\ \A c \in Client : loc[c].lsn <= Len(wal)
  /\ \A l \in acked : l \in 1 .. Len(wal)
  /\ crashes = 0 => up /\ \A i \in 1 .. Len(wal) : wal[i].whole
  /\ ~up => \A l \in acked : \A i \in 1 .. l : wal[i].whole

CInv == FInv /\ Stopped /\ LogOK

\* A step of a running engine that does not touch the log.
LogQuiet ==
  /\ up /\ UNCHANGED <<wal, up, crashes>>
  /\ \A d \in Client : loc'[d].lsn = loc[d].lsn \/ loc'[d].lsn = 0
  /\ \A l \in acked' : l \in acked \/ \E d \in Client : l # 0 /\ l = loc[d].lsn

LEMMA QuietLogOK ==
  ASSUME IInv, LogOK, LogQuiet PROVE LogOK'
<1>1. Len(wal) \in Nat /\ \A d \in Client : loc[d].lsn \in Nat
  BY DEF IInv, StoreOK, CallerOK, Locals
<1> QED BY <1>1 DEF LogOK, LogQuiet

\* A caller changes its local variables, or returns.
LEMMA LocQuiet ==
  ASSUME IInv, up, UNCHANGED <<wal, up, crashes>>, NEW c \in Client,
         \/ \E s, v : Return(c, s, v)
         \/ \E s : ReturnMutation(c, s)
         \/ UNCHANGED acked /\ \E r : loc' = [loc EXCEPT ![c] = r] /\ r.lsn = loc[c].lsn
         \/ UNCHANGED <<loc, acked>>
  PROVE  LogQuiet
<1>1. NoLocals.lsn = 0 BY DEF NoLocals
<1>2. loc \in [Client -> Locals] BY DEF IInv, CallerOK
<1>3. ASSUME NEW s, NEW v, Return(c, s, v) PROVE LogQuiet
  BY <1>1, <1>2, <1>3 DEF Return, LogQuiet
<1>4. ASSUME NEW s, ReturnMutation(c, s) PROVE LogQuiet
  BY <1>1, <1>2, <1>3, <1>4 DEF ReturnMutation, LogQuiet, history
<1>5. ASSUME UNCHANGED acked, NEW r, loc' = [loc EXCEPT ![c] = r], r.lsn = loc[c].lsn PROVE LogQuiet
  BY <1>2, <1>5 DEF LogQuiet
<1>6. ASSUME UNCHANGED <<loc, acked>> PROVE LogQuiet BY <1>6 DEF LogQuiet
<1> QED BY <1>3, <1>4, <1>5, <1>6

\* All a caller does but appending to the log.
LEMMA WritingQuiet ==
  ASSUME IInv, NEW c \in Client,
         \/ Insert(c) \/ CheckSize(c) \/ FlushCall(c) \/ CompactCall(c) \/ FlushSwap(c)
         \/ FlushPush(c) \/ FlushSpawn(c) \/ FlushPolicy(c) \/ CompactFails(c)
  PROVE  LogQuiet
<1>1. up /\ UNCHANGED <<wal, up, crashes>>
  BY DEF Insert, CheckSize, FlushCall, CompactCall, FlushSwap, FlushPush, FlushSpawn,
         FlushPolicy, CompactFails, Step, disk, memory, faults
<1>2. loc[c] \in Locals BY DEF IInv, CallerOK
<1>3. CASE Insert(c) \/ FlushCall(c) \/ CompactCall(c)
  <2>1. UNCHANGED <<loc, acked>> BY <1>3 DEF Insert, FlushCall, CompactCall, history
  <2> QED BY <1>1, <2>1, LocQuiet
<1>4. CASE CheckSize(c) \/ FlushPolicy(c) \/ CompactFails(c)
  <2>1. UNCHANGED <<loc, acked>> \/ \E s : ReturnMutation(c, s)
    BY <1>4 DEF CheckSize, FlushPolicy, CompactFails, history
  <2> QED BY <1>1, <2>1, LocQuiet
<1>5. CASE FlushSwap(c)
  <2>1. PICK r : r = [loc[c] EXCEPT !.hand = active] OBVIOUS
  <2>2. r.lsn = loc[c].lsn BY <1>2, <2>1 DEF Locals
  <2>3. loc' = [loc EXCEPT ![c] = r] /\ UNCHANGED acked BY <1>5, <2>1 DEF FlushSwap, history
  <2> QED BY <1>1, <2>2, <2>3, LocQuiet
<1>6. CASE FlushPush(c)
  <2>1. PICK r : r = [loc[c] EXCEPT !.hand = EmptyRun, !.out = Len(immutables) + 1] OBVIOUS
  <2>2. r.lsn = loc[c].lsn BY <1>2, <2>1 DEF Locals
  <2>3. loc' = [loc EXCEPT ![c] = r] /\ UNCHANGED acked BY <1>6, <2>1, Zenon DEF FlushPush, history
  <2> QED BY <1>1, <2>2, <2>3, LocQuiet
<1>7. CASE FlushSpawn(c)
  <2>1. PICK r : r = [loc[c] EXCEPT !.out = 0] OBVIOUS
  <2>2. r.lsn = loc[c].lsn BY <1>2, <2>1 DEF Locals
  <2>3. loc' = [loc EXCEPT ![c] = r] /\ UNCHANGED acked BY <1>7, <2>1 DEF FlushSpawn, history
  <2> QED BY <1>1, <2>2, <2>3, LocQuiet
<1> QED BY <1>3, <1>4, <1>5, <1>6, <1>7

LEMMA ReadingQuiet ==
  ASSUME IInv, NEW c \in Client,
         (\E k : GetCall(c, k)) \/ ScanCall(c) \/ Getting(c) \/ Scanning(c)
  PROVE  LogQuiet
<1>1. loc[c] \in Locals BY DEF IInv, CallerOK
<1>2. ASSUME up, UNCHANGED <<wal, up, crashes>>, UNCHANGED acked, NEW r, r.lsn = loc[c].lsn,
             loc' = [loc EXCEPT ![c] = r]
      PROVE  LogQuiet
  BY <1>2, LocQuiet
<1>3. ASSUME NEW op, NEW ks, NEW l, ReadCall(c, op, ks, l) PROVE LogQuiet
  <2>1. PICK r : r = [loc[c] EXCEPT !.want = ks] OBVIOUS
  <2>2. r.lsn = loc[c].lsn BY <1>1, <2>1 DEF Locals
  <2> QED BY <1>2, <1>3, <2>1, <2>2 DEF ReadCall, Step, disk, memory, faults
<1>4. ASSUME GetList(c) \/ ScanList(c) PROVE LogQuiet
  <2>1. PICK r : r = [loc[c] EXCEPT !.left = Listing] OBVIOUS
  <2>2. r.lsn = loc[c].lsn BY <1>1, <2>1 DEF Locals
  <2> QED BY <1>2, <1>4, <2>1, <2>2 DEF GetList, ScanList, Step, disk, memory, faults, history
<1>5. ASSUME GetNone(c) \/ ScanActive(c) PROVE LogQuiet
  <2>1. up /\ UNCHANGED <<wal, up, crashes>> /\ \E s, v : Return(c, s, v)
    BY <1>5 DEF GetNone, ScanActive, disk, memory, faults
  <2> QED BY <2>1, LocQuiet
<1>6. ASSUME NEW k, GetActive(c, k) \/ GetImm(c, k) PROVE LogQuiet
  <2>1. /\ up /\ UNCHANGED <<wal, up, crashes>>
        /\ UNCHANGED <<loc, acked>> \/ \E s, v : Return(c, s, v)
    BY <1>6 DEF GetActive, GetImm, Found, disk, memory, faults, history
  <2> QED BY <2>1, LocQuiet
<1>7. ASSUME NEW k, NEW t, GetFile(c, k, t) PROVE LogQuiet
  <2>1. up /\ UNCHANGED <<wal, up, crashes>> BY <1>7 DEF GetFile, disk, faults
  <2>2. PICK r : r = [loc[c] EXCEPT !.left = @ \ {t}] OBVIOUS
  <2>3. r.lsn = loc[c].lsn BY <1>1, <2>2 DEF Locals
  <2>4. (\E s, v : Return(c, s, v)) \/ (loc' = [loc EXCEPT ![c] = r] /\ UNCHANGED acked)
    BY <1>7, <2>2 DEF GetFile, Found, history
  <2> QED BY <2>1, <2>3, <2>4, LocQuiet
<1>8. ASSUME NEW t, ScanFile(c, t) PROVE LogQuiet
  <2>1. up /\ UNCHANGED <<wal, up, crashes>> BY <1>8 DEF ScanFile, disk, memory, faults
  <2>2. PICK r : r = [loc[c] EXCEPT !.left = @ \ {t}, !.hand = Over(Contents(t), @)] OBVIOUS
  <2>3. r.lsn = loc[c].lsn BY <1>1, <2>2 DEF Locals
  <2>4. (\E s, v : Return(c, s, v)) \/ (loc' = [loc EXCEPT ![c] = r] /\ UNCHANGED acked)
    BY <1>8, <2>2, Zenon DEF ScanFile, history
  <2> QED BY <2>1, <2>3, <2>4, LocQuiet
<1>9. ASSUME ScanImm(c) PROVE LogQuiet
  <2>1. PICK run : loc' = [loc EXCEPT ![c].hand = run] BY <1>9 DEF ScanImm
  <2>2. PICK r : r = [loc[c] EXCEPT !.hand = run] OBVIOUS
  <2>3. r.lsn = loc[c].lsn BY <1>1, <2>2 DEF Locals
  <2>4. loc' = [loc EXCEPT ![c] = r] BY <2>1, <2>2
  <2> QED BY <1>2, <1>9, <2>3, <2>4 DEF ScanImm, Step, disk, memory, faults, history
<1> QED BY <1>3, <1>4, <1>5, <1>6, <1>7, <1>8, <1>9 DEF GetCall, ScanCall, Getting, Scanning
LEMMA MergingQuiet ==
  ASSUME IInv, NEW c \in Client, Compacting(c)
  PROVE  LogQuiet
<1>1. loc[c] \in Locals BY DEF IInv, CallerOK
<1>2. up /\ UNCHANGED <<wal, up, crashes>>
  BY DEF Compacting, CompactList, CompactCreate, CompactFinish, CompactReopen, CompactOpen,
         CompactRemove, Step, disk, memory, faults
<1>3. CASE CompactList(c)
  <2>1. PICK chosen : chosen = SelectFiles(Policy, Listing) OBVIOUS
  <2>2. PICK r : r = [loc[c] EXCEPT !.names = chosen, !.left = chosen] OBVIOUS
  <2>3. r.lsn = loc[c].lsn BY <1>1, <2>2 DEF Locals
  <2>4. (\E s : ReturnMutation(c, s)) \/ (loc' = [loc EXCEPT ![c] = r] /\ UNCHANGED acked)
    BY <1>3, <2>1, <2>2, Zenon DEF CompactList, history
  <2> QED BY <1>2, <2>3, <2>4, LocQuiet
<1>4. CASE CompactCreate(c)
  <2>1. PICK r : r = [loc[c] EXCEPT !.out = now + 1, !.hand = EmptyRun] OBVIOUS
  <2>2. r.lsn = loc[c].lsn BY <1>1, <2>1 DEF Locals
  <2>3. loc' = [loc EXCEPT ![c] = r] /\ UNCHANGED acked
    BY <1>4, <2>1, Zenon DEF CompactCreate, history
  <2> QED BY <1>2, <2>2, <2>3, LocQuiet
<1>5. CASE CompactFinish(c)
  <2>1. UNCHANGED <<loc, acked>> BY <1>5 DEF CompactFinish, history
  <2> QED BY <1>2, <2>1, LocQuiet
<1>6. CASE CompactReopen(c)
  <2>1. PICK r : r = [loc[c] EXCEPT !.left = loc[c].names] OBVIOUS
  <2>2. r.lsn = loc[c].lsn BY <1>1, <2>1 DEF Locals
  <2>3. (\E s : ReturnMutation(c, s)) \/ (loc' = [loc EXCEPT ![c] = r] /\ UNCHANGED acked)
    BY <1>6, <2>1 DEF CompactReopen, history
  <2> QED BY <1>2, <2>2, <2>3, LocQuiet
<1>7. ASSUME NEW t, CompactOpen(c, t) PROVE LogQuiet
  <2>1. PICK r : r = [loc[c] EXCEPT !.left = @ \ {t}, !.hand = Over(Contents(t), @)] OBVIOUS
  <2>2. r.lsn = loc[c].lsn BY <1>1, <2>1 DEF Locals
  <2>3. (\E s : ReturnMutation(c, s)) \/ (loc' = [loc EXCEPT ![c] = r] /\ UNCHANGED acked)
    BY <1>7, <2>1, Zenon DEF CompactOpen, history
  <2> QED BY <1>2, <2>2, <2>3, LocQuiet
<1>8. ASSUME NEW t, CompactRemove(c, t) PROVE LogQuiet
  <2>1. PICK r : r = [loc[c] EXCEPT !.left = @ \ {t}] OBVIOUS
  <2>2. r.lsn = loc[c].lsn BY <1>1, <2>1 DEF Locals
  <2>3. (\E s : ReturnMutation(c, s)) \/ (loc' = [loc EXCEPT ![c] = r] /\ UNCHANGED acked)
    BY <1>8, <2>1 DEF CompactRemove, history
  <2> QED BY <1>2, <2>2, <2>3, LocQuiet
<1> QED BY <1>3, <1>4, <1>5, <1>6, <1>7, <1>8 DEF Compacting

LEMMA TasksQuiet ==
  ASSUME NEW t \in tasks, TaskStep(t) \/ TaskFails(t)
  PROVE  LogQuiet
BY DEF TaskStep, TaskRead, TaskCreate, TaskFinish, TaskReopen, TaskRemove, TaskFails, LogQuiet,
       disk, faults, history

LEMMA AppendLogOK ==
  ASSUME OneCrash, IInv, LogOK, NEW c \in Client, NEW k \in Key,
         NEW kind \in {"write", "delete"}, WalAppend(c, k, kind)
  PROVE  LogOK'
<1>1. PICK f : f = [kind |-> kind, key |-> k, whole |-> TRUE] OBVIOUS
<1>2. f \in Frame /\ f.kind = "write" /\ f.whole
  BY <1>1 DEF OneCrash, WalAppend, Frame
<1>3. PICK r : r = [loc[c] EXCEPT !.lsn = Len(wal) + 1] OBVIOUS
<1>4. /\ up /\ wal' = Append(wal, f) /\ loc' = [loc EXCEPT ![c] = r]
      /\ UNCHANGED <<up, crashes, acked>>
  BY <1>1, <1>3 DEF WalAppend, Step, memory, faults, history
<1>5. wal \in Seq(Frame) /\ loc \in [Client -> Locals] BY DEF IInv, StoreOK, CallerOK
<1>6. Len(wal') = Len(wal) + 1 /\ \A i \in 1 .. Len(wal') : wal'[i] = wal[i] \/ (i = Len(wal) + 1 /\ wal'[i] = f)
  BY <1>2, <1>4, <1>5
<1>7. \A i \in 1 .. Len(wal') : i \in 1 .. Len(wal) \/ wal'[i] = f BY <1>2, <1>4, <1>5
<1>8. \A i \in 1 .. Len(wal) : wal'[i] = wal[i] BY <1>2, <1>4, <1>5
<1>9. \A i \in 1 .. Len(wal') : wal'[i].kind = "write" BY <1>2, <1>7, <1>8 DEF LogOK
<1>10. crashes = 0 => \A i \in 1 .. Len(wal') : wal'[i].whole BY <1>2, <1>7, <1>8 DEF LogOK
<1>11. \A d \in Client : loc'[d].lsn <= Len(wal')
  <2>1. Len(wal) \in Nat /\ \A d \in Client : loc[d].lsn \in Nat /\ loc[d].lsn <= Len(wal)
    BY <1>5 DEF LogOK, Locals
  <2>2. r.lsn = Len(wal) + 1 BY <1>3, <1>5 DEF Locals
  <2> QED BY <1>4, <1>5, <1>6, <2>1, <2>2
<1>12. \A l \in acked' : l \in 1 .. Len(wal') BY <1>4, <1>5, <1>6 DEF LogOK
<1> QED BY <1>4, <1>9, <1>10, <1>11, <1>12 DEF LogOK

LEMMA CrashLogOK ==
  ASSUME OneCrash, IInv, LogOK, Crash
  PROVE  LogOK'
<1>1. MaxCrashes \in Nat /\ crashes \in Nat BY LsmAssumption DEF LsmAssumption, IInv, StoreOK
<1>2. crashes = 0 /\ crashes' = 1 BY <1>1 DEF Crash, OneCrash
<1>3. wal \in Seq(Frame) BY DEF IInv, StoreOK
<1>4. /\ UNCHANGED acked /\ loc' = [c \in Client |-> NoLocals]
      /\ wal' = wal \/ \E f \in Frame : f.kind = "write" /\ wal' = Append(wal, f)
  <2>1. ASSUME NEW k \in Key, NEW kind \in Ops \cap {"write", "delete"}
        PROVE  /\ [kind |-> kind, key |-> k, whole |-> FALSE] \in Frame
               /\ kind = "write"
    BY DEF OneCrash, Frame
  <2> QED BY <2>1 DEF Crash
<1>5. /\ Len(wal') \in Nat /\ Len(wal) \in Nat /\ Len(wal) <= Len(wal')
      /\ \A i \in 1 .. Len(wal) : wal'[i] = wal[i]
      /\ \A i \in 1 .. Len(wal') : wal'[i].kind = "write"
  <2>1. CASE wal' = wal BY <1>3, <2>1 DEF LogOK
  <2>2. ASSUME NEW f \in Frame, f.kind = "write", wal' = Append(wal, f)
        PROVE  /\ Len(wal') \in Nat /\ Len(wal) \in Nat /\ Len(wal) <= Len(wal')
               /\ \A i \in 1 .. Len(wal) : wal'[i] = wal[i]
               /\ \A i \in 1 .. Len(wal') : wal'[i].kind = "write"
    BY <1>3, <2>2 DEF LogOK
  <2> QED BY <1>4, <2>1, <2>2
<1>6. NoLocals.lsn = 0 BY DEF NoLocals
<1>7. \A l \in acked' : l \in 1 .. Len(wal') /\ \A i \in 1 .. l : wal'[i].whole
  BY <1>2, <1>4, <1>5 DEF LogOK
<1> QED BY <1>2, <1>4, <1>5, <1>6, <1>7 DEF LogOK

LEMMA StepCInv == OneCrash /\ CInv /\ [Next]_vars => CInv'
<1> SUFFICES ASSUME OneCrash, CInv, [Next]_vars PROVE CInv'
  OBVIOUS
<1>0. IInv /\ LogOK BY DEF CInv, FInv
<1>1. FInv' /\ Stopped' BY StepFInv, StoppedStays DEF CInv
<1>2. ASSUME LogQuiet PROVE LogOK' BY <1>0, <1>2, QuietLogOK
<1>3. ioErrors \in Nat /\ ~(ioErrors < MaxIoErrors) BY <1>0 DEF OneCrash, IInv, StoreOK
<1>4. ASSUME NEW c \in Client, Call(c) PROVE LogOK'
  <2>1. ASSUME NEW k \in Key, NEW kind \in {"write", "delete"},
               WalAppend(c, k, kind) \/ WalAppendFails(c, k, kind)
        PROVE  LogOK'
    <3>1. WalAppend(c, k, kind) BY <1>3, <2>1 DEF WalAppendFails
    <3> QED BY <1>0, <3>1, AppendLogOK
  <2> QED BY <1>0, <1>2, <1>4, <2>1, ReadingQuiet, WritingQuiet DEF Call
<1>5. ASSUME NEW c \in Client, Continue(c) \/ CompactFails(c) PROVE LogOK'
  BY <1>0, <1>2, <1>5, ReadingQuiet, WritingQuiet, MergingQuiet DEF Continue, Mutating, Flushing
<1>6. ASSUME NEW t \in tasks, TaskStep(t) \/ TaskFails(t) PROVE LogOK'
  BY <1>2, <1>6, TasksQuiet
<1>7. ASSUME Crash PROVE LogOK' BY <1>0, <1>7, CrashLogOK
<1>8. ASSUME Open PROVE LogOK'
  <2>1. up' /\ ~up /\ UNCHANGED <<wal, loc, acked, crashes>>
    BY <1>8 DEF Open, disk, faults
  <2> QED BY <1>0, <2>1 DEF LogOK
<1>9. ASSUME UNCHANGED vars PROVE LogOK'
  BY <1>0, <1>9 DEF vars, disk, memory, faults, history, LogOK
<1>10. LogOK' BY <1>4, <1>5, <1>6, <1>7, <1>8, <1>9 DEF Next
<1> QED BY <1>1, <1>10 DEF CInv
\* The current record is a frame, or none.
CurrentTyped == \A k \in Key : Current(k) \in Nat

LEMMA CurrentNat == FInv => CurrentTyped
<1> SUFFICES ASSUME FInv, NEW k \in Key PROVE Current(k) \in Nat
  BY DEF CurrentTyped
<1>0. StoreOK /\ CallerOK BY DEF FInv, IInv
<1>1. active[k] \in Nat BY <1>0 DEF StoreOK, Layer
<1>2. InHand(k) # {} => (CHOOSE l \in InHand(k) : TRUE) \in Nat
  <2>1. InHand(k) \subseteq Nat BY <1>0 DEF InHand, CallerOK, Locals, Layer
  <2> QED BY <2>1
<1>3. ~NoImm(k) => immutables[CHOOSE i \in 1..Len(immutables) : NewestImm(i, k)][k] \in Nat
  <2>1. \A i \in 1..Len(immutables) : immutables[i][k] \in Nat BY <1>0 DEF StoreOK, Layer
  <2> QED BY <2>1, NewestExist
<1>4. FilesWith(k) # {} =>
        (CHOOSE f \in FilesWith(k) : \A g \in FilesWith(k) : g.ts <= f.ts).data[k] \in Nat
  <2>1. \A f \in FilesWith(k) : f.data[k] \in Nat BY <1>0 DEF StoreOK, Layer, FilesWith
  <2> QED BY <2>1, NewestExist
<1> QED BY <1>1, <1>2, <1>3, <1>4 DEF Current

\* A set of numbers with a bound has a greatest one.
LEMMA GreatestUpTo ==
  ASSUME NEW n \in Nat, NEW S, S \subseteq 0 .. n, S # {}
  PROVE  Max(S) \in S /\ \A y \in S : y <= Max(S)
<1>1. PICK T : T = {n - x : x \in S} OBVIOUS
<1>2. T \subseteq Nat /\ T # {}
  <2>1. \A x \in S : n - x \in Nat OBVIOUS
  <2> QED BY <1>1, <2>1
<1>3. PICK z \in T : \A y \in T : z <= y BY <1>2, LeastNat
<1>4. PICK m \in S : z = n - m BY <1>1
<1>5. ASSUME NEW y \in S PROVE m >= y
  <2>1. n - m <= n - y BY <1>1, <1>3, <1>4
  <2> QED BY <2>1
<1>6. \A y \in S : Max(S) >= y /\ Max(S) \in S BY <1>5 DEF Max
<1> QED BY <1>4, <1>6

\* Replay finds what was acknowledged.
LEMMA OpenRecovers ==
  ASSUME CInv, FInv', Open, NEW k \in Key
  PROVE  Current(k)' >= LastAcked(k)
<1>1. StoreOK /\ LogOK /\ ~up BY DEF CInv, FInv, IInv, Open
<1>2. PICK n \in Nat : n = Len(wal) BY <1>1 DEF StoreOK
<1>3. PICK S : S = {l \in acked : wal[l].key = k} \cup {0} OBVIOUS
<1>4. S \subseteq 0 .. n /\ S # {} BY <1>1, <1>2, <1>3 DEF LogOK
<1>5. PICK m : m = LastAcked(k) OBVIOUS
<1>6. m \in S BY <1>2, <1>3, <1>4, <1>5, GreatestUpTo DEF LastAcked
<1>7. Current(k)' \in Nat
  <2>1. CurrentTyped' BY CurrentNat, PTL
  <2> QED BY <2>1 DEF CurrentTyped
<1>8. CASE m = 0 BY <1>5, <1>7, <1>8
<1>9. CASE m # 0
  <2>1. m \in acked /\ wal[m].key = k BY <1>3, <1>6, <1>9
  <2>2. m \in 1 .. Len(wal) /\ wal[m].kind = "write" /\ \A i \in 1 .. m : wal[i].whole
    BY <1>1, <2>1 DEF LogOK
  <2>3. m \in Writes(k) BY <2>1, <2>2 DEF Writes, Readable
  <2>4. PICK run \in [Key -> 0..Len(wal)] : Replayed(run) /\ active' = run BY DEF Open
  <2>5. run[k] \in Writes(k) /\ m <= run[k] BY <2>3, <2>4 DEF Replayed
  <2>6. run[k] # 0 BY <1>2, <2>2, <2>4, <2>5
  <2>7. Current(k)' = run[k] BY <2>4, <2>6 DEF Current
  <2> QED BY <1>2, <1>5, <2>2, <2>4, <2>5, <2>7
<1> QED BY <1>8, <1>9

\* Steps of a running engine keep it running, but for a crash.
LEMMA OnlyOpens ==
  ASSUME CInv, [Next]_vars, ~up, up' PROVE Open
<1>1. IInv BY DEF CInv, FInv
<1>2. ASSUME NEW c \in Client, Call(c) \/ Continue(c) \/ CompactFails(c) PROVE up
  <2>1. ASSUME NEW k, NEW kind, WalAppend(c, k, kind) \/ WalAppendFails(c, k, kind) PROVE up
    BY <2>1 DEF WalAppend, WalAppendFails, Step
  <2>2. LogQuiet => up BY DEF LogQuiet
  <2> QED BY <1>1, <1>2, <2>1, <2>2, ReadingQuiet, WritingQuiet, MergingQuiet
          DEF Call, Continue, Mutating, Flushing
<1>3. \A t \in tasks : TaskStep(t) \/ TaskFails(t) => up BY DEF TaskStep, TaskFails
<1>4. ~Crash BY DEF Crash
<1>5. ~UNCHANGED vars BY DEF vars, memory
<1> QED BY <1>2, <1>3, <1>4, <1>5 DEF Next

\* open() replays the log "so that no committed data is lost on restart"
\* (lsm.rs:81): whatever the callers, flushes and compactions were doing when the
\* process died, and wherever in a frame it died, every key shows its last
\* acknowledged record or a later one.
THEOREM AckedSurviveHolds == ASSUME OneCrash PROVE Spec => AckedSurvive
<1>1. CInv /\ [Next]_vars => CInv' BY StepCInv
<1>2. Init => CInv
  <2> SUFFICES ASSUME Init PROVE CInv
    OBVIOUS
  <2>1. FInv /\ Stopped BY InitKInv DEF KInv
  <2>2. NoLocals.lsn = 0 /\ Len(wal) = 0 BY DEF NoLocals, Init
  <2>3. LogOK BY <2>2 DEF LogOK, Init
  <2> QED BY <2>1, <2>3 DEF CInv
<1>3. CInv /\ CInv' /\ [Next]_vars =>
        [~up /\ up' =>
           \A k \in Key : \/ Current(k)' >= LastAcked(k)
                          \/ IsTombstone(LastAcked(k)) /\ Visible(Current(k))' = 0]_vars
  <2> SUFFICES ASSUME CInv, CInv', [Next]_vars, ~up, up', NEW k \in Key
               PROVE  Current(k)' >= LastAcked(k)
    OBVIOUS
  <2>1. Open BY OnlyOpens
  <2>2. FInv' BY DEF CInv
  <2> QED BY <2>1, <2>2, OpenRecovers
<1> QED BY <1>1, <1>2, <1>3, PTL DEF Spec, AckedSurvive

-----------------------------------------------------------------------------
(* With one caller the tree is the key-value store.  Flush tasks run behind  *)
(* the caller's back: what they move is the same record wherever it is       *)
(* (PendingOK), and a get() that has passed a layer has seen that its key is *)
(* not in it, nor in what a task brings to a layer it has yet to search      *)
(* (GettingOK).                                                              *)

\* What the code needs to keep the promise of a store: calls that do not
\* overlap, flushes that do not overlap, and a disk that works.  A compaction
\* names its output by the clock and breaks the order of the files, a scan
\* reads the layers in the other direction and may miss a memtable: neither
\* takes part.
OneCaller ==
  /\ \A c, d \in Client : c = d
  /\ Ops \subseteq {"write", "delete", "get", "flush"}
  /\ MaxFlushes = 1 /\ MaxCrashes = 0 /\ MaxIoErrors = 0
  /\ Policy.kind = "Leveled" /\ MaxNow <= Policy.limit * 4

GetLabels == {"gactive", "gimm", "glist", "gfile"}

BoundsOK ==
  /\ up /\ Len(wal) <= MaxWal /\ now <= MaxNow
  /\ \A f \in files : f.ts >= 1
  /\ \A e \in cache : e.lsn # 0

CallersOK ==
  \A c \in Client :
    /\ pc[c] \in {"idle", "insert", "check", "swap", "push", "spawn", "policy"} \cup GetLabels
    /\ pc[c] \in {"idle"} \cup GetLabels => loc[c].lsn = 0
    /\ pc[c] = "check" => loc[c].lsn # 0
    /\ pc[c] \in GetLabels => \E k \in Key : loc[c].want = {k}

\* The frozen memtable, its task and its file are about the same records.
PendingOK ==
  /\ \A t \in tasks : t.ts = now /\ now >= 1 /\ Len(immutables) = 1 /\ t.idx = 1
  /\ \A t \in tasks : t.pc \in {"finish", "reopen", "remove"} =>
       \E f \in files : f.ts = t.ts /\ f.data = t.data /\ (t.pc # "finish" => f.whole)
  /\ \A c \in Client : pc[c] = "spawn" => Len(immutables) = 1 /\ loc[c].out = 1
  /\ immutables # <<>> => tasks # {} \/ \E c \in Client : pc[c] = "spawn"

\* What a get() has already searched does not have its key.
GettingOK ==
  \A c \in Client : \A k \in loc[c].want :
    /\ pc[c] \in {"gimm", "glist", "gfile"} => active[k] = 0
    /\ pc[c] \in {"glist", "gfile"} => NoImm(k)
    /\ pc[c] = "gfile" =>
         /\ loc[c].left \subseteq Listing
         /\ \A f \in files : f.ts \notin loc[c].left => f.data[k] = 0

AloneOK == BoundsOK /\ CallersOK /\ PendingOK /\ GettingOK
NInv == KInv /\ AloneOK

\* l is the record of k: Current(k) without its choices.
CurrentIs(k, l) ==
  \/ active[k] # 0 /\ l = active[k]
  \/ /\ active[k] = 0
     /\ \E c \in Client : pc[c] = "push" /\ loc[c].hand[k] # 0 /\ l = loc[c].hand[k]
  \/ /\ active[k] = 0 /\ \A c \in Client : pc[c] = "push" => loc[c].hand[k] = 0
     /\ \/ \E i \in 1 .. Len(immutables) : NewestImm(i, k) /\ l = immutables[i][k]
        \/ /\ NoImm(k)
           /\ \/ \E f \in files :
                   /\ f.whole /\ f.data[k] # 0 /\ l = f.data[k]
                   /\ \A g \in files : g.whole /\ g.data[k] # 0 => g.ts <= f.ts
              \/ l = 0 /\ \A f \in files : f.whole => f.data[k] = 0
-----------------------------------------------------------------------------
(* The current record                                                      *)

\* At most one memtable is frozen.
LEMMA OneFrozen ==
  ASSUME NInv
  PROVE  immutables = <<>> \/ Len(immutables) = 1
BY DEF NInv, AloneOK, PendingOK

\* Current chooses what CurrentIs describes.
LEMMA CurrentValue ==
  ASSUME OneCaller, NInv, NEW k \in Key, NEW l, CurrentIs(k, l)
  PROVE  Current(k) = l
<1>0. StoreOK /\ Named BY DEF NInv, KInv, FInv, IInv, FilesOK
<1>1. CASE active[k] # 0 BY <1>1 DEF CurrentIs, Current
<1>2. CASE active[k] = 0 /\ \E c \in Client : pc[c] = "push" /\ loc[c].hand[k] # 0
  <2>1. PICK c \in Client : pc[c] = "push" /\ loc[c].hand[k] # 0 /\ l = loc[c].hand[k]
    BY <1>2 DEF CurrentIs, OneCaller
  <2>2. InHand(k) = {l} BY <2>1 DEF InHand, OneCaller
  <2>3. (CHOOSE x \in {l} : TRUE) = l OBVIOUS
  <2> QED BY <1>2, <2>2, <2>3 DEF Current
<1>3. CASE active[k] = 0 /\ \A c \in Client : pc[c] = "push" => loc[c].hand[k] = 0
  <2>1. InHand(k) = {} BY <1>3 DEF InHand
  <2>2. ASSUME NEW i \in 1 .. Len(immutables), NewestImm(i, k), l = immutables[i][k]
        PROVE  Current(k) = l
    <3>1. ~NoImm(k) BY <2>2 DEF NewestImm, NoImm
    <3>2. \A j \in 1 .. Len(immutables) : NewestImm(j, k) => j = i
      <4>1. Len(immutables) \in Nat BY <1>0 DEF StoreOK
      <4>2. ASSUME NEW j \in 1 .. Len(immutables), NewestImm(j, k) PROVE j = i
        <5>1. ~(j < i) BY <2>2, <4>1, <4>2 DEF NewestImm
        <5>2. ~(i < j) BY <2>2, <4>1, <4>2 DEF NewestImm
        <5> QED BY <4>1, <5>1, <5>2
      <4> QED BY <4>2
    <3>3. (CHOOSE j \in 1 .. Len(immutables) : NewestImm(j, k)) = i BY <2>2, <3>2
    <3> QED BY <1>3, <2>1, <2>2, <3>1, <3>3 DEF Current
  <2>3. ASSUME NoImm(k), NEW f \in files, f.whole, f.data[k] # 0, l = f.data[k],
               \A g \in files : g.whole /\ g.data[k] # 0 => g.ts <= f.ts
        PROVE  Current(k) = l
    <3>1. PICK F : F = FilesWith(k) OBVIOUS
    <3>2. f \in F /\ \A g \in F : g.ts <= f.ts BY <2>3, <3>1 DEF FilesWith
    <3>3. ASSUME NEW g \in F, \A h \in F : h.ts <= g.ts PROVE g = f
      <4>1. g \in files /\ g.ts \in Nat /\ f.ts \in Nat BY <1>0, <3>1 DEF FilesWith, StoreOK
      <4>2. g.ts = f.ts BY <3>2, <3>3, <4>1
      <4> QED BY <1>0, <4>1, <4>2 DEF Named
    <3>4. (CHOOSE g \in F : \A h \in F : h.ts <= g.ts) = f BY <3>2, <3>3
    <3> QED BY <1>3, <2>1, <2>3, <3>1, <3>2, <3>4 DEF Current
  <2>4. ASSUME NoImm(k), l = 0, \A f \in files : f.whole => f.data[k] = 0
        PROVE  Current(k) = l
    <3>1. FilesWith(k) = {} BY <2>4 DEF FilesWith
    <3> QED BY <1>3, <2>1, <2>4, <3>1 DEF Current
  <2> QED BY <1>3, <2>2, <2>3, <2>4 DEF CurrentIs
<1> QED BY <1>1, <1>2, <1>3 DEF CurrentIs

LEMMA CurrentExists ==
  ASSUME NInv, NEW k \in Key
  PROVE  \E l \in Nat : CurrentIs(k, l) /\ LoggedEntry(k, l)
<1>0. StoreOK /\ Named /\ CallerOK BY DEF NInv, KInv, FInv, IInv, FilesOK
<1>1. CASE active[k] # 0
  <2>1. active[k] \in Nat /\ LoggedEntry(k, active[k]) BY <1>0 DEF StoreOK, Logged, Layer
  <2> QED BY <1>1, <2>1 DEF CurrentIs
<1>2. CASE active[k] = 0 /\ \E c \in Client : pc[c] = "push" /\ loc[c].hand[k] # 0
  <2>1. PICK c \in Client : pc[c] = "push" /\ loc[c].hand[k] # 0 BY <1>2
  <2>2. loc[c].hand[k] \in Nat /\ LoggedEntry(k, loc[c].hand[k])
    BY <1>0 DEF CallerOK, Locals, Layer, Logged
  <2> QED BY <1>2, <2>1, <2>2 DEF CurrentIs
<1>3. CASE active[k] = 0 /\ \A c \in Client : pc[c] = "push" => loc[c].hand[k] = 0
  <2>1. CASE ~NoImm(k)
    <3>1. Len(immutables) = 1 /\ immutables[1][k] # 0 BY <2>1, OneFrozen DEF NoImm
    <3>2. NewestImm(1, k) BY <3>1 DEF NewestImm
    <3>3. immutables[1] \in Layer /\ Logged(immutables[1]) BY <1>0, <3>1 DEF StoreOK
    <3>4. immutables[1][k] \in Nat /\ LoggedEntry(k, immutables[1][k])
      BY <3>3 DEF Layer, Logged
    <3> QED BY <1>3, <3>1, <3>2, <3>4 DEF CurrentIs
  <2>2. CASE NoImm(k) /\ \A f \in files : f.whole => f.data[k] = 0
    BY <1>3, <2>2 DEF CurrentIs, LoggedEntry
  <2>3. CASE NoImm(k) /\ \E f \in files : f.whole /\ f.data[k] # 0
    <3>1. PICK F : F = {f \in files : f.whole /\ f.data[k] # 0} OBVIOUS
    <3>2. now \in Nat /\ F # {} /\ \A f \in F : f.ts \in Nat /\ f.ts <= now
      BY <1>0, <2>3, <3>1 DEF Named, StoreOK
    <3>3. PICK T : T = {now - f.ts : f \in F} OBVIOUS
    <3>4. T \subseteq Nat /\ T # {} BY <3>2, <3>3
    <3>5. PICK x \in T : \A y \in T : x <= y BY <3>4, LeastNat
    <3>6. PICK f \in F : x = now - f.ts BY <3>3
    <3>7. \A g \in F : now - f.ts <= now - g.ts BY <3>3, <3>5, <3>6
    <3>8. \A g \in F : g.ts <= f.ts BY <3>2, <3>7
    <3>9. f.data[k] \in Nat /\ LoggedEntry(k, f.data[k]) BY <1>0, <3>1 DEF StoreOK, Layer, Logged
    <3> QED BY <1>3, <2>3, <3>1, <3>8, <3>9 DEF CurrentIs
  <2> QED BY <2>1, <2>2, <2>3
<1> QED BY <1>1, <1>2, <1>3

\* The records of the log stay what they are.
LEMMA VisibleStays ==
  ASSUME wal \in Seq(Frame), wal' = wal \/ \E f \in Frame : wal' = Append(wal, f),
         NEW k, NEW l \in Nat, LoggedEntry(k, l)
  PROVE  Visible(l)' = Visible(l)
BY DEF LoggedEntry, Visible, IsTombstone

\* A step that moves records between layers is not seen.
Keeps == \A k \in Key : \A l \in Nat : CurrentIs(k, l) => CurrentIs(k, l)'

CurrentExact == \A k \in Key : \A l : CurrentIs(k, l) => Current(k) = l

LEMMA CurrentOf == OneCaller /\ NInv => CurrentExact
BY CurrentValue DEF CurrentExact

LEMMA CurrentNext == OneCaller /\ NInv' => CurrentExact'
<1>1. OneCaller' <=> OneCaller BY DEF OneCaller
<1> QED BY <1>1, CurrentOf, PTL

LEMMA RecordKept ==
  ASSUME OneCaller, NInv, NInv', wal' = wal \/ \E f \in Frame : wal' = Append(wal, f),
         NEW k \in Key, \A l \in Nat : CurrentIs(k, l) => CurrentIs(k, l)'
  PROVE  AbsStore'[k] = AbsStore[k]
<1>1. PICK l \in Nat : CurrentIs(k, l) /\ LoggedEntry(k, l) BY CurrentExists
<1>2. Current(k) = l BY <1>1, CurrentValue
<1>3. Current(k)' = l BY <1>1, CurrentNext DEF CurrentExact
<1>4. wal \in Seq(Frame) BY DEF NInv, KInv, FInv, IInv, StoreOK
<1>5. Visible(l)' = Visible(l) BY <1>1, <1>4, VisibleStays
<1>6. AbsStore[k] = Visible(l) BY <1>2 DEF AbsStore
<1>7. AbsStore'[k] = Visible(l)' BY <1>3 DEF AbsStore, Visible, IsTombstone
<1> QED BY <1>5, <1>6, <1>7

LEMMA StoreKept ==
  ASSUME OneCaller, NInv, NInv', Keeps, wal' = wal \/ \E f \in Frame : wal' = Append(wal, f)
  PROVE  AbsStore' = AbsStore
<1>1. \A k \in Key : AbsStore'[k] = AbsStore[k] BY RecordKept DEF Keeps
<1> QED BY <1>1 DEF AbsStore
-----------------------------------------------------------------------------
(* Steps of the caller that leave the layers alone                         *)

LEMMA Parts ==
  ASSUME NInv
  PROVE  /\ StoreOK /\ CallerOK /\ Named /\ CacheCoherent /\ Flushed
         /\ BoundsOK /\ CallersOK /\ PendingOK /\ GettingOK /\ IInv
BY DEF NInv, AloneOK, KInv, FInv, FilesOK, IInv

LEMMA QuietKeeps ==
  ASSUME OneCaller, NEW c \in Client, UNCHANGED <<active, immutables, files>>,
         pc[c] # "push", pc'[c] # "push"
  PROVE  Keeps
<1>1. \A d \in Client : d = c BY DEF OneCaller
<1>2. \A k : \A i : NewestImm(i, k) => NewestImm(i, k)' BY DEF NewestImm
<1>3. \A k : NoImm(k) => NoImm(k)' BY DEF NoImm
<1> QED BY <1>1, <1>2, <1>3 DEF Keeps, CurrentIs

LEMMA QuietPending ==
  ASSUME OneCaller, NInv, NEW c \in Client, UNCHANGED <<immutables, files, tasks, now>>,
         pc[c] # "spawn", pc'[c] # "spawn"
  PROVE  PendingOK'
<1>1. \A d \in Client : d = c BY DEF OneCaller
<1> QED BY <1>1, Parts DEF PendingOK

\* The caller is the only one.
LEMMA MovesAlone ==
  ASSUME OneCaller, NInv, NEW c \in Client, NEW l, NEW r, pc' = [pc EXCEPT ![c] = l],
         loc' = [loc EXCEPT ![c] = r]
  PROVE  /\ pc'[c] = l /\ loc'[c] = r /\ \A d \in Client : d = c
         /\ AbsPhase' = [AbsPhase EXCEPT ![c] = IF r.lsn # 0 /\ l # "insert" THEN "applied" ELSE "idle"]
<1>1. \A d \in Client : d = c BY DEF OneCaller
<1>2. pc'[c] = l /\ loc'[c] = r BY Parts DEF CallerOK
<1> QED BY <1>1, <1>2 DEF AbsPhase

LEMMA MovesOn ==
  ASSUME OneCaller, NInv, NEW c \in Client, NEW l, l # "insert", NEW r,
         pc' = [pc EXCEPT ![c] = l], loc' = [loc EXCEPT ![c] = r]
  PROVE  /\ pc'[c] = l /\ loc'[c] = r /\ \A d \in Client : d = c
         /\ AbsPhase' = [AbsPhase EXCEPT ![c] = IF r.lsn # 0 THEN "applied" ELSE "idle"]
<1>1. (IF r.lsn # 0 /\ l # "insert" THEN "applied" ELSE "idle")
        = IF r.lsn # 0 THEN "applied" ELSE "idle"
  OBVIOUS
<1> QED BY <1>1, MovesAlone

LEMMA SamePhase ==
  ASSUME NEW c \in Client, NEW v, AbsPhase' = [AbsPhase EXCEPT ![c] = v], AbsPhase[c] = v
  PROVE  AbsPhase' = AbsPhase
BY DEF AbsPhase

\* A step that the abstract store does not see.
Unseen == AbsStore' = AbsStore /\ AbsPhase' = AbsPhase /\ reply' = reply

\* Of a log that is being appended to.
LEMMA WalAppendAlone ==
  ASSUME OneCaller, NInv, KInv', NEW c \in Client, NEW k \in Key,
         NEW kind \in {"write", "delete"}, WalAppend(c, k, kind)
  PROVE  NInv' /\ Unseen
<1>1. PICK r : r = [loc[c] EXCEPT !.lsn = Len(wal) + 1] OBVIOUS
<1>2. /\ up /\ pc[c] = "idle" /\ pc' = [pc EXCEPT ![c] = "insert"]
      /\ loc' = [loc EXCEPT ![c] = r] /\ Len(wal) < MaxWal
      /\ UNCHANGED <<up, active, immutables, files, cache, tasks, now, reply>>
      /\ \E f \in Frame : wal' = Append(wal, f)
  BY <1>1 DEF WalAppend, Step, Goto, memory, Frame
<1>3. /\ pc'[c] = "insert" /\ loc'[c] = r /\ \A d \in Client : d = c
      /\ AbsPhase' = [AbsPhase EXCEPT ![c] = "idle"]
  BY <1>2, MovesAlone
<1>4. BoundsOK'
  <2>1. Len(wal') = Len(wal) + 1 /\ Len(wal) \in Nat /\ MaxWal \in Nat
    BY <1>2, Parts, LsmAssumption DEF StoreOK, LsmAssumption
  <2> QED BY <1>2, <2>1, Parts DEF BoundsOK
<1>5. CallersOK' /\ GettingOK' BY <1>3 DEF CallersOK, GettingOK, GetLabels
<1>6. PendingOK' BY <1>2, <1>3, QuietPending
<1>7. NInv' BY <1>4, <1>5, <1>6 DEF NInv, AloneOK
<1>8. Keeps BY <1>2, <1>3, QuietKeeps
<1>9. AbsStore' = AbsStore BY <1>2, <1>7, <1>8, StoreKept
<1>10. AbsPhase[c] = "idle" BY <1>2, Parts DEF AbsPhase, CallersOK
<1> QED BY <1>2, <1>3, <1>7, <1>9, <1>10, SamePhase DEF Unseen

\* A step of a flush, or of a write before it, that only moves the caller on.
LEMMA GoesOnAlone ==
  ASSUME OneCaller, NInv, KInv', NEW c \in Client, NEW l \in {"swap", "policy"},
         pc[c] \in {"idle", "check", "swap"}, pc' = [pc EXCEPT ![c] = l],
         UNCHANGED <<disk, memory, loc, reply>>
  PROVE  NInv' /\ Unseen
<1>1. PICK r : r = loc[c] OBVIOUS
<1>2. loc' = [loc EXCEPT ![c] = r] BY <1>1, Parts DEF CallerOK
<1>3. /\ pc'[c] = l /\ loc'[c] = r /\ \A d \in Client : d = c
      /\ AbsPhase' = [AbsPhase EXCEPT ![c] = IF r.lsn # 0 THEN "applied" ELSE "idle"]
  BY <1>2, MovesAlone
<1>4. BoundsOK' BY Parts DEF BoundsOK, disk, memory
<1>5. CallersOK' /\ GettingOK' BY <1>3 DEF CallersOK, GettingOK, GetLabels
<1>6. PendingOK' BY <1>3, QuietPending DEF disk, memory
<1>7. NInv' BY <1>4, <1>5, <1>6 DEF NInv, AloneOK
<1>8. Keeps BY <1>3, QuietKeeps DEF disk, memory
<1>9. AbsStore' = AbsStore BY <1>7, <1>8, StoreKept DEF disk
<1>10. AbsPhase[c] = IF r.lsn # 0 THEN "applied" ELSE "idle" BY <1>1 DEF AbsPhase
<1> QED BY <1>3, <1>7, <1>9, <1>10, SamePhase DEF Unseen

\* A call returns.
LEMMA ReturnAlone ==
  ASSUME OneCaller, NInv, KInv', NEW c \in Client, pc[c] \notin {"push", "spawn"},
         UNCHANGED <<wal, files, now, up, active, immutables, tasks>>,
         \A e \in cache' : e.lsn # 0, NEW s, NEW v, Return(c, s, v)
  PROVE  /\ NInv' /\ AbsStore' = AbsStore /\ AbsPhase' = [AbsPhase EXCEPT ![c] = "idle"]
         /\ reply' = [reply EXCEPT ![c] = [status |-> s, val |-> v]]
<1>1. /\ pc' = [pc EXCEPT ![c] = "idle"] /\ loc' = [loc EXCEPT ![c] = NoLocals]
      /\ reply' = [reply EXCEPT ![c] = [status |-> s, val |-> v]]
  BY DEF Return, Goto
<1>2. NoLocals.lsn = 0 BY DEF NoLocals
<1>3. /\ pc'[c] = "idle" /\ loc'[c] = NoLocals /\ \A d \in Client : d = c
      /\ AbsPhase' = [AbsPhase EXCEPT ![c] = "idle"]
  BY <1>1, <1>2, MovesAlone
<1>4. BoundsOK' BY Parts DEF BoundsOK
<1>5. CallersOK' /\ GettingOK' BY <1>2, <1>3 DEF CallersOK, GettingOK, GetLabels
<1>6. PendingOK' BY <1>3, QuietPending
<1>7. NInv' BY <1>4, <1>5, <1>6 DEF NInv, AloneOK
<1>8. Keeps BY <1>3, QuietKeeps
<1>9. AbsStore' = AbsStore BY <1>7, <1>8, StoreKept
<1> QED BY <1>1, <1>3, <1>7, <1>9
-----------------------------------------------------------------------------
(* Mutations                                                               *)

LEMMA EmptyAnswer == EmptyRun = Kv!NoRecords
BY DEF EmptyRun, Kv!NoRecords

\* The insert into the memtable is the instant at which a mutation takes effect.
LEMMA InsertApplies ==
  ASSUME OneCaller, NInv, KInv', NEW c \in Client, Insert(c)
  PROVE  NInv' /\ \E k \in Key : \E v \in (1..MaxWal) \cup {0} : Kv!Apply(c, k, v)
<1>1. PICK l : l = loc[c].lsn OBVIOUS
<1>2. PICK k : k = wal[l].key OBVIOUS
<1>3. PICK r : r = loc[c] OBVIOUS
<1>4. /\ up /\ pc[c] = "insert" /\ pc' = [pc EXCEPT ![c] = "check"]
      /\ active' = [active EXCEPT ![k] = l]
      /\ UNCHANGED <<wal, files, now, up, immutables, cache, tasks, loc, reply>>
  BY <1>1, <1>2 DEF Insert, Step, Goto, disk
<1>5. loc' = [loc EXCEPT ![c] = r] BY <1>3, <1>4, Parts DEF CallerOK
<1>6. l \in 1 .. Len(wal) /\ k \in Key /\ l \in 1 .. MaxWal
  <2>1. l \in 1 .. Len(wal) BY <1>1, <1>4, Parts DEF CallerOK, Carries
  <2>2. Len(wal) \in Nat /\ Len(wal) <= MaxWal /\ MaxWal \in Nat
    BY Parts, LsmAssumption DEF StoreOK, BoundsOK, LsmAssumption
  <2>3. wal[l] \in Frame BY <2>1, Parts DEF StoreOK
  <2> QED BY <1>2, <2>1, <2>2, <2>3 DEF Frame
<1>7. /\ pc'[c] = "check" /\ loc'[c] = r /\ \A d \in Client : d = c
      /\ AbsPhase' = [AbsPhase EXCEPT ![c] = "applied"]
  <2>1. r.lsn # 0 BY <1>1, <1>3, <1>6
  <2> QED BY <1>4, <1>5, <2>1, MovesOn
<1>8. BoundsOK' BY <1>4, Parts DEF BoundsOK
<1>9. CallersOK' /\ GettingOK' BY <1>1, <1>3, <1>6, <1>7 DEF CallersOK, GettingOK, GetLabels
<1>10. PendingOK' BY <1>4, <1>7, QuietPending
<1>11. NInv' BY <1>8, <1>9, <1>10 DEF NInv, AloneOK
<1>12. active \in Layer BY Parts DEF StoreOK
<1>13. AbsStore'[k] = Visible(l)
  <2>1. active'[k] = l /\ l # 0 BY <1>4, <1>6, <1>12 DEF Layer
  <2>2. CurrentIs(k, l)' BY <2>1 DEF CurrentIs
  <2>3. Current(k)' = l BY <1>6, <1>11, <2>2, CurrentNext DEF CurrentExact
  <2> QED BY <1>4, <1>6, <2>3 DEF AbsStore, Visible, IsTombstone
<1>14. ASSUME NEW m \in Key \ {k} PROVE AbsStore'[m] = AbsStore[m]
  <2>1. active'[m] = active[m] BY <1>4, <1>12 DEF Layer
  <2>2. \A i : NewestImm(i, m) => NewestImm(i, m)' BY <1>4 DEF NewestImm
  <2>3. NoImm(m) => NoImm(m)' BY <1>4 DEF NoImm
  <2>4. ASSUME NEW x \in Nat, CurrentIs(m, x) PROVE CurrentIs(m, x)'
    BY <1>4, <1>7, <2>1, <2>2, <2>3, <2>4 DEF CurrentIs
  <2> QED BY <1>4, <1>11, <2>4, RecordKept
<1>15. PICK v : v = Visible(l) OBVIOUS
<1>16. v \in (1 .. MaxWal) \cup {0} BY <1>6, <1>15 DEF Visible
<1>17. AbsStore' = [AbsStore EXCEPT ![k] = v] BY <1>6, <1>13, <1>14, <1>15 DEF AbsStore
<1>18. AbsPhase[c] = "idle" BY <1>4 DEF AbsPhase
<1>19. Kv!Apply(c, k, v) BY <1>4, <1>7, <1>17, <1>18 DEF Kv!Apply
<1> QED BY <1>6, <1>11, <1>16, <1>19

\* The end of a write, a delete, or a flush that was called directly.
LEMMA MutationEnds ==
  ASSUME OneCaller, NInv, KInv', NEW c \in Client, pc[c] \in {"check", "policy"},
         UNCHANGED <<disk, memory, faults>>, ReturnMutation(c, "ok")
  PROVE  NInv' /\ (Kv!Ack(c) \/ Unseen)
<1>1. UNCHANGED <<wal, files, now, up, active, immutables, cache, tasks>> BY DEF disk, memory
<1>2. \A e \in cache' : e.lsn # 0 BY <1>1, Parts DEF BoundsOK
<1>3. CASE loc[c].lsn # 0
  <2>1. Return(c, "ok", EmptyRun) BY <1>3 DEF ReturnMutation
  <2>2. /\ NInv' /\ AbsStore' = AbsStore /\ AbsPhase' = [AbsPhase EXCEPT ![c] = "idle"]
        /\ reply' = [reply EXCEPT ![c] = [status |-> "ok", val |-> EmptyRun]]
    BY <1>1, <1>2, <2>1, ReturnAlone
  <2>3. AbsPhase[c] = "applied" BY <1>3 DEF AbsPhase
  <2>4. Kv!Ack(c) BY <2>2, <2>3, EmptyAnswer DEF Kv!Ack, Kv!Answer
  <2> QED BY <2>2, <2>4
<1>4. CASE loc[c].lsn = 0
  <2>1. /\ pc' = [pc EXCEPT ![c] = "idle"] /\ loc' = [loc EXCEPT ![c] = NoLocals] /\ reply' = reply
    BY <1>4 DEF ReturnMutation, Goto
  <2>2. NoLocals.lsn = 0 BY DEF NoLocals
  <2>3. /\ pc'[c] = "idle" /\ loc'[c] = NoLocals /\ \A d \in Client : d = c
        /\ AbsPhase' = [AbsPhase EXCEPT ![c] = "idle"]
    BY <2>1, <2>2, MovesAlone
  <2>4. BoundsOK' BY <1>1, Parts DEF BoundsOK
  <2>5. CallersOK' /\ GettingOK' BY <2>2, <2>3 DEF CallersOK, GettingOK, GetLabels
  <2>6. PendingOK' BY <1>1, <2>3, QuietPending
  <2>7. NInv' BY <2>4, <2>5, <2>6 DEF NInv, AloneOK
  <2>8. Keeps BY <1>1, <2>3, QuietKeeps
  <2>9. AbsStore' = AbsStore BY <1>1, <2>7, <2>8, StoreKept
  <2>10. AbsPhase[c] = "idle" BY <1>4 DEF AbsPhase
  <2> QED BY <2>1, <2>3, <2>7, <2>9, <2>10, SamePhase DEF Unseen
<1> QED BY <1>3, <1>4

\* There are never enough files for a compaction.
LEMMA NoCompaction ==
  ASSUME OneCaller, NInv
  PROVE  ~ShouldCompact(Policy, Listing)
<1>1. now \in Nat /\ now <= MaxNow /\ MaxNow \in Nat /\ Policy.limit \in Nat
      /\ Policy.kind = "Leveled" /\ MaxNow <= Policy.limit * 4
  BY Parts, LsmAssumption DEF StoreOK, BoundsOK, LsmAssumption, OneCaller
<1>2. Listing \subseteq 1 .. MaxNow
  <2>1. \A f \in files : f.ts \in Nat /\ f.ts >= 1 /\ f.ts <= now
    BY Parts DEF StoreOK, BoundsOK, Named
  <2> QED BY <1>1, <2>1 DEF Listing
<1>3. IsFiniteSet(1 .. MaxNow) /\ Cardinality(1 .. MaxNow) = MaxNow
  <2>1. 1 \in Int /\ MaxNow \in Int BY <1>1
  <2>2. IsFiniteSet(1 .. MaxNow) /\ Cardinality(1 .. MaxNow) = IF 1 > MaxNow THEN 0 ELSE MaxNow - 1 + 1
    BY <2>1, FS_Interval
  <2> QED BY <1>1, <2>2
<1>4. PICK S : S = Listing OBVIOUS
<1>5. IsFiniteSet(S) /\ Cardinality(S) <= MaxNow BY <1>2, <1>3, <1>4, FS_Subset
<1>6. Cardinality(S) \in Nat BY <1>5, FS_CardinalityType
<1>7. ~(Cardinality(S) > Policy.limit * 4) BY <1>1, <1>5, <1>6
<1> QED BY <1>1, <1>4, <1>7 DEF ShouldCompact

LEMMA CheckAlone ==
  ASSUME OneCaller, NInv, KInv', NEW c \in Client, CheckSize(c) \/ FlushCall(c) \/ FlushPolicy(c)
  PROVE  NInv' /\ (Kv!Ack(c) \/ Unseen)
<1>1. CASE CheckSize(c)
  <2>1. pc[c] = "check" /\ UNCHANGED <<disk, memory, faults>> BY <1>1 DEF CheckSize
  <2>2. CASE Goto(c, "swap") /\ UNCHANGED <<loc, reply, history>>
    BY <2>1, <2>2, GoesOnAlone DEF Goto
  <2>3. CASE ReturnMutation(c, "ok") BY <2>1, <2>3, MutationEnds
  <2> QED BY <1>1, <2>2, <2>3 DEF CheckSize
<1>2. CASE FlushCall(c)
  <2>1. /\ pc[c] = "idle" /\ pc' = [pc EXCEPT ![c] = "swap"]
        /\ UNCHANGED <<disk, memory, loc, reply>>
    BY <1>2 DEF FlushCall, Step, Goto
  <2> QED BY <2>1, GoesOnAlone
<1>3. CASE FlushPolicy(c)
  <2>1. pc[c] = "policy" /\ UNCHANGED <<disk, memory, faults>> BY <1>3 DEF FlushPolicy
  <2>2. ReturnMutation(c, "ok") BY <1>3, NoCompaction DEF FlushPolicy
  <2> QED BY <2>1, <2>2, MutationEnds
<1> QED BY <1>1, <1>2, <1>3
-----------------------------------------------------------------------------
(* A memtable on its way to a file                                         *)

LEMMA SwapAlone ==
  ASSUME OneCaller, NInv, KInv', NEW c \in Client, FlushSwap(c)
  PROVE  NInv' /\ Unseen
<1>1. PICK r : r = [loc[c] EXCEPT !.hand = active] OBVIOUS
<1>2. /\ pc[c] = "swap" /\ pc' = [pc EXCEPT ![c] = "push"] /\ loc' = [loc EXCEPT ![c] = r]
      /\ active' = EmptyRun /\ InFlight < MaxFlushes
      /\ UNCHANGED <<wal, files, now, up, immutables, cache, tasks, reply>>
  BY <1>1 DEF FlushSwap, Step, Goto, disk
<1>3. r.hand = active /\ r.lsn = loc[c].lsn BY <1>1, Parts DEF CallerOK, Locals
<1>4. /\ pc'[c] = "push" /\ loc'[c] = r /\ \A d \in Client : d = c
      /\ AbsPhase' = [AbsPhase EXCEPT ![c] = IF r.lsn # 0 THEN "applied" ELSE "idle"]
  BY <1>2, MovesOn
<1>5. tasks = {} /\ \A d \in Client : ~Swapped(d)
  BY <1>2, Parts, NothingInFlight DEF OneCaller
<1>6. immutables = <<>> BY <1>5, Parts DEF PendingOK, Swapped
<1>7. BoundsOK' BY <1>2, Parts DEF BoundsOK
<1>8. CallersOK' /\ GettingOK' BY <1>4 DEF CallersOK, GettingOK, GetLabels
<1>9. PendingOK' BY <1>2, <1>4, <1>5, <1>6 DEF PendingOK
<1>10. NInv' BY <1>7, <1>8, <1>9 DEF NInv, AloneOK
<1>11. ASSUME NEW k \in Key, NEW l \in Nat, CurrentIs(k, l) PROVE CurrentIs(k, l)'
  <2>1. active'[k] = 0 BY <1>2 DEF EmptyRun
  <2>2. CASE active[k] # 0
    <3>1. l = active[k] BY <1>11, <2>2 DEF CurrentIs
    <3>2. loc'[c].hand[k] = l BY <1>3, <1>4, <3>1
    <3> QED BY <1>4, <2>1, <2>2, <3>1, <3>2 DEF CurrentIs
  <2>3. CASE active[k] = 0
    <3>1. \A d \in Client : loc'[d].hand[k] = 0 BY <1>3, <1>4, <2>3
    <3>2. \A d \in Client : pc[d] # "push" BY <1>5 DEF Swapped
    <3>3. \A i : NewestImm(i, k) => NewestImm(i, k)' BY <1>2 DEF NewestImm
    <3>4. NoImm(k) => NoImm(k)' BY <1>2 DEF NoImm
    <3> QED BY <1>2, <1>11, <2>1, <2>3, <3>1, <3>2, <3>3, <3>4 DEF CurrentIs
  <2> QED BY <2>2, <2>3
<1>12. AbsStore' = AbsStore BY <1>2, <1>10, <1>11, StoreKept DEF Keeps
<1>13. AbsPhase[c] = IF r.lsn # 0 THEN "applied" ELSE "idle" BY <1>2, <1>3 DEF AbsPhase
<1> QED BY <1>2, <1>4, <1>10, <1>12, <1>13, SamePhase DEF Unseen

LEMMA PushAlone ==
  ASSUME OneCaller, NInv, KInv', NEW c \in Client, FlushPush(c)
  PROVE  NInv' /\ Unseen
<1>1. PICK hand : hand = loc[c].hand OBVIOUS
<1>2. PICK r : r = [loc[c] EXCEPT !.hand = EmptyRun, !.out = Len(immutables) + 1] OBVIOUS
<1>3. /\ pc[c] = "push" /\ pc' = [pc EXCEPT ![c] = "spawn"] /\ loc' = [loc EXCEPT ![c] = r]
      /\ immutables' = Append(immutables, hand)
      /\ UNCHANGED <<wal, files, now, up, active, cache, tasks, reply>>
  BY <1>1, <1>2, Zenon DEF FlushPush, Step, Goto, disk
<1>4. r.out = Len(immutables) + 1 /\ r.lsn = loc[c].lsn BY <1>2, Parts DEF CallerOK, Locals
<1>5. /\ pc'[c] = "spawn" /\ loc'[c] = r /\ \A d \in Client : d = c
      /\ AbsPhase' = [AbsPhase EXCEPT ![c] = IF r.lsn # 0 THEN "applied" ELSE "idle"]
  BY <1>3, MovesOn
<1>6. tasks = {} BY <1>3, Parts DEF Flushed, Swapped
<1>7. immutables = <<>> BY <1>3, <1>5, <1>6, Parts DEF PendingOK
<1>8. Len(immutables') = 1 /\ immutables'[1] = hand /\ r.out = 1 BY <1>3, <1>4, <1>7
<1>9. BoundsOK' BY <1>3, Parts DEF BoundsOK
<1>10. CallersOK' /\ GettingOK' BY <1>5 DEF CallersOK, GettingOK, GetLabels
<1>11. PendingOK' BY <1>3, <1>5, <1>6, <1>8 DEF PendingOK
<1>12. NInv' BY <1>9, <1>10, <1>11 DEF NInv, AloneOK
<1>13. ASSUME NEW k \in Key, NEW l \in Nat, CurrentIs(k, l) PROVE CurrentIs(k, l)'
  <2>1. CASE active[k] # 0 BY <1>3, <1>13, <2>1 DEF CurrentIs
  <2>2. CASE active[k] = 0 /\ hand[k] # 0
    <3>1. l = hand[k] BY <1>1, <1>3, <1>5, <1>13, <2>2 DEF CurrentIs
    <3>2. NewestImm(1, k)' /\ immutables'[1][k] = l BY <1>8, <2>2, <3>1 DEF NewestImm
    <3>3. 1 \in 1 .. Len(immutables') BY <1>8
    <3> QED BY <1>3, <1>5, <2>2, <3>2, <3>3 DEF CurrentIs
  <2>3. CASE active[k] = 0 /\ hand[k] = 0
    <3>1. NoImm(k)' BY <1>8, <2>3 DEF NoImm
    <3>2. ~\E i \in 1 .. Len(immutables) : NewestImm(i, k) BY <1>7 DEF NewestImm
    <3> QED BY <1>1, <1>3, <1>5, <1>13, <2>3, <3>1, <3>2 DEF CurrentIs
  <2> QED BY <2>1, <2>2, <2>3
<1>14. AbsStore' = AbsStore BY <1>3, <1>12, <1>13, StoreKept DEF Keeps
<1>15. AbsPhase[c] = IF r.lsn # 0 THEN "applied" ELSE "idle" BY <1>3, <1>4 DEF AbsPhase
<1> QED BY <1>3, <1>5, <1>12, <1>14, <1>15, SamePhase DEF Unseen

LEMMA SpawnAlone ==
  ASSUME OneCaller, NInv, KInv', NEW c \in Client, FlushSpawn(c)
  PROVE  NInv' /\ Unseen
<1>1. PICK t : t = [ts |-> now + 1, idx |-> loc[c].out, pc |-> "read", data |-> EmptyRun] OBVIOUS
<1>2. PICK r : r = [loc[c] EXCEPT !.out = 0] OBVIOUS
<1>3. /\ pc[c] = "spawn" /\ pc' = [pc EXCEPT ![c] = "policy"] /\ loc' = [loc EXCEPT ![c] = r]
      /\ tasks' = tasks \cup {t} /\ now' = now + 1 /\ now < MaxNow
      /\ UNCHANGED <<wal, files, up, active, immutables, cache, reply>>
  BY <1>1, <1>2 DEF FlushSpawn, Step, Goto
<1>4. r.lsn = loc[c].lsn BY <1>2, Parts DEF CallerOK, Locals
<1>5. /\ pc'[c] = "policy" /\ loc'[c] = r /\ \A d \in Client : d = c
      /\ AbsPhase' = [AbsPhase EXCEPT ![c] = IF r.lsn # 0 THEN "applied" ELSE "idle"]
  BY <1>3, MovesOn
<1>6. tasks = {} BY <1>3, Parts DEF Flushed, Swapped
<1>7. Len(immutables) = 1 /\ t.idx = 1 /\ t.ts = now + 1 /\ t.pc = "read"
  BY <1>1, <1>3, Parts DEF PendingOK
<1>8. BoundsOK'
  <2>1. now \in Nat /\ MaxNow \in Nat BY Parts, LsmAssumption DEF StoreOK, LsmAssumption
  <2> QED BY <1>3, <2>1, Parts DEF BoundsOK
<1>9. CallersOK' /\ GettingOK' BY <1>5 DEF CallersOK, GettingOK, GetLabels
<1>10. PendingOK'
  <2>1. now \in Nat BY Parts DEF StoreOK
  <2> QED BY <1>3, <1>5, <1>6, <1>7, <2>1 DEF PendingOK
<1>11. NInv' BY <1>8, <1>9, <1>10 DEF NInv, AloneOK
<1>12. Keeps BY <1>3, <1>5, QuietKeeps
<1>13. AbsStore' = AbsStore BY <1>3, <1>11, <1>12, StoreKept
<1>14. AbsPhase[c] = IF r.lsn # 0 THEN "applied" ELSE "idle" BY <1>3, <1>4 DEF AbsPhase
<1> QED BY <1>3, <1>5, <1>11, <1>13, <1>14, SamePhase DEF Unseen

\* The only task, its memtable and, once it is there, its file.
LEMMA TaskAlone ==
  ASSUME OneCaller, NInv, NEW t \in tasks
  PROVE  /\ tasks = {t} /\ t \in Task /\ t.ts = now /\ t.idx = 1 /\ t.ts >= 1 /\ t.ts \in Nat
         /\ Len(immutables) = 1 /\ \A c \in Client : ~Swapped(c)
         /\ t.pc # "read" => immutables[1] = t.data
         /\ t.pc \in {"finish", "reopen", "remove"} =>
              \E f \in files : f.ts = t.ts /\ f.data = t.data /\ (t.pc # "finish" => f.whole)
BY Parts DEF Flushed, PendingOK, StoreOK, Task

\* A task that touches no layer.
LEMMA TaskMovesAlone ==
  ASSUME OneCaller, NInv, KInv', NEW t \in tasks, NEW u \in Task,
         UNCHANGED <<wal, files, now, up, active, immutables, cache, pc, loc, reply>>,
         tasks' = {u}, u.ts = t.ts, u.idx = t.idx,
         u.pc \in {"finish", "reopen", "remove"} =>
           \E f \in files : f.ts = u.ts /\ f.data = u.data /\ (u.pc # "finish" => f.whole)
  PROVE  NInv' /\ Unseen
<1>1. BoundsOK' BY Parts DEF BoundsOK
<1>2. CallersOK' BY Parts DEF CallersOK
<1>3. GettingOK' BY Parts DEF GettingOK, NoImm, Listing
<1>4. PendingOK' BY TaskAlone, Parts DEF PendingOK
<1>5. NInv' BY <1>1, <1>2, <1>3, <1>4 DEF NInv, AloneOK
<1>6. Keeps BY DEF Keeps, CurrentIs, NewestImm, NoImm
<1>7. AbsStore' = AbsStore BY <1>5, <1>6, StoreKept
<1> QED BY <1>5, <1>7 DEF Unseen, AbsPhase

LEMMA TaskCreateAlone ==
  ASSUME OneCaller, NInv, KInv', NEW t \in tasks, TaskStep(t), TaskCreate(t)
  PROVE  NInv' /\ Unseen
<1>1. PICK f : f = [ts |-> t.ts, whole |-> FALSE, data |-> t.data] OBVIOUS
<1>2. PICK u : u = [t EXCEPT !.pc = "finish"] OBVIOUS
<1>3. /\ t.pc = "create" /\ files' = files \cup {f} /\ tasks' = (tasks \ {t}) \cup {u}
      /\ UNCHANGED <<wal, now, up, active, immutables, cache, pc, loc, reply>>
  BY <1>1, <1>2 DEF TaskCreate, TaskStep
<1>4. /\ tasks = {t} /\ t.ts = now /\ t.idx = 1 /\ t.ts >= 1 /\ Len(immutables) = 1
      /\ immutables[1] = t.data /\ t \in Task
  BY <1>3, TaskAlone
<1>5. /\ u.ts = t.ts /\ u.idx = 1 /\ u.data = t.data /\ u.pc = "finish" /\ tasks' = {u}
      /\ f.ts = t.ts /\ f.data = t.data /\ ~f.whole
  BY <1>1, <1>2, <1>3, <1>4 DEF Task
<1>6. BoundsOK' BY <1>3, <1>4, <1>5, Parts DEF BoundsOK
<1>7. CallersOK' BY <1>3, Parts DEF CallersOK
<1>8. GettingOK'
  <2>1. \A k : NoImm(k) => f.data[k] = 0 /\ NoImm(k)' BY <1>3, <1>4, <1>5 DEF NoImm
  <2>2. Listing \subseteq Listing' BY <1>3 DEF Listing
  <2> QED BY <1>3, <2>1, <2>2, Parts DEF GettingOK
<1>9. PendingOK' BY <1>3, <1>4, <1>5, Parts DEF PendingOK
<1>10. NInv' BY <1>6, <1>7, <1>8, <1>9 DEF NInv, AloneOK
<1>11. Keeps BY <1>3, <1>5 DEF Keeps, CurrentIs, NewestImm, NoImm
<1>12. AbsStore' = AbsStore BY <1>3, <1>10, <1>11, StoreKept
<1> QED BY <1>3, <1>10, <1>12 DEF Unseen, AbsPhase

LEMMA TaskFinishAlone ==
  ASSUME OneCaller, NInv, KInv', NEW t \in tasks, TaskStep(t), TaskFinish(t)
  PROVE  NInv' /\ Unseen
<1>1. PICK u : u = [t EXCEPT !.pc = "reopen"] OBVIOUS
<1>2. /\ t.pc = "finish" /\ files' = Completed(t.ts) /\ tasks' = (tasks \ {t}) \cup {u}
      /\ UNCHANGED <<wal, now, up, active, immutables, cache, pc, loc, reply>>
  BY <1>1 DEF TaskFinish, TaskStep
<1>3. /\ tasks = {t} /\ t.ts = now /\ t.idx = 1 /\ t.ts >= 1 /\ Len(immutables) = 1
      /\ immutables[1] = t.data /\ t \in Task
  BY <1>2, TaskAlone
<1>4. u.ts = t.ts /\ u.idx = 1 /\ u.data = t.data /\ u.pc = "reopen" /\ tasks' = {u}
  BY <1>1, <1>2, <1>3 DEF Task
<1>5. PICK f \in files : f.ts = t.ts /\ f.data = t.data BY <1>2, TaskAlone
<1>6. PICK h : h = [f EXCEPT !.whole = TRUE] OBVIOUS
<1>7. h.ts = t.ts /\ h.data = t.data /\ h.whole BY <1>5, <1>6, Parts DEF StoreOK
<1>8. files' = (files \ {f}) \cup {h}
  <2>1. {g \in files : g.ts = t.ts} = {f} BY <1>5, Parts DEF Named
  <2>2. {g \in files : g.ts # t.ts} = files \ {f} BY <2>1
  <2>3. Completed(t.ts) = {g \in files : g.ts # t.ts} \cup
                            {[g EXCEPT !.whole = TRUE] : g \in {g \in files : g.ts = t.ts}}
    BY DEF Completed
  <2>4. {[g EXCEPT !.whole = TRUE] : g \in {f}} = {h} BY <1>6
  <2> QED BY <1>2, <2>1, <2>2, <2>3, <2>4
<1>9. BoundsOK' BY <1>2, <1>3, <1>7, <1>8, Parts DEF BoundsOK
<1>10. CallersOK' BY <1>2, Parts DEF CallersOK
<1>11. \A k : NoImm(k) => t.data[k] = 0 /\ NoImm(k)' BY <1>2, <1>3 DEF NoImm
<1>12. GettingOK'
  <2>1. Listing \subseteq Listing' BY <1>5, <1>7, <1>8 DEF Listing
  <2> QED BY <1>2, <1>7, <1>8, <1>11, <2>1, Parts DEF GettingOK
<1>13. PendingOK' BY <1>2, <1>3, <1>4, <1>7, <1>8, Parts DEF PendingOK
<1>14. NInv' BY <1>9, <1>10, <1>12, <1>13 DEF NInv, AloneOK
<1>15. ASSUME NEW k \in Key, NEW l \in Nat, CurrentIs(k, l) PROVE CurrentIs(k, l)'
  <2>1. \A i : NewestImm(i, k) => NewestImm(i, k)' BY <1>2 DEF NewestImm
  <2>2. CASE ~NoImm(k) BY <1>2, <1>15, <2>1, <2>2 DEF CurrentIs
  <2>3. CASE NoImm(k)
    <3>1. f.data[k] = 0 /\ h.data[k] = 0 /\ NoImm(k)' BY <1>5, <1>7, <1>11, <2>3
    <3>2. \A g : g \in files /\ g.whole /\ g.data[k] # 0 <=> g \in files' /\ g.whole /\ g.data[k] # 0
      BY <1>8, <3>1
    <3> QED BY <1>2, <1>15, <2>1, <3>1, <3>2 DEF CurrentIs
  <2> QED BY <2>2, <2>3
<1>16. AbsStore' = AbsStore BY <1>2, <1>14, <1>15, StoreKept DEF Keeps
<1> QED BY <1>2, <1>14, <1>16 DEF Unseen, AbsPhase

LEMMA OnlyRemoved ==
  ASSUME NEW S, NEW s \in Seq(S), Len(s) = 1
  PROVE  RemoveAt(s, 1) = <<>>
<1>1. PICK a : a = SubSeq(s, 1, 1 - 1) OBVIOUS
<1>2. PICK b : b = SubSeq(s, 1 + 1, Len(s)) OBVIOUS
<1>3. a = <<>> /\ b = <<>> BY <1>1, <1>2
<1>4. RemoveAt(s, 1) = a \o b BY <1>1, <1>2 DEF RemoveAt
<1> QED BY <1>3, <1>4

LEMMA TaskRemoveAlone ==
  ASSUME OneCaller, NInv, KInv', NEW t \in tasks, TaskStep(t), TaskRemove(t)
  PROVE  NInv' /\ Unseen
<1>1. /\ t.pc = "remove" /\ tasks' = tasks \ {t}
      /\ immutables' = IF t.idx \in DOMAIN immutables THEN RemoveAt(immutables, t.idx) ELSE immutables
      /\ UNCHANGED <<wal, files, now, up, active, cache, pc, loc, reply>>
  BY DEF TaskRemove, TaskStep, disk
<1>2. /\ tasks = {t} /\ t.ts = now /\ t.idx = 1 /\ Len(immutables) = 1
      /\ immutables[1] = t.data /\ \A c \in Client : ~Swapped(c)
  BY <1>1, TaskAlone
<1>3. immutables \in Seq(Layer) BY Parts DEF StoreOK
<1>4. DOMAIN immutables = 1 .. 1 BY <1>2, <1>3
<1>5. immutables' = <<>> /\ tasks' = {} BY <1>1, <1>2, <1>3, <1>4, OnlyRemoved
<1>6. PICK f \in files : f.ts = t.ts /\ f.data = t.data /\ f.whole BY <1>1, TaskAlone
<1>7. BoundsOK' BY <1>1, Parts DEF BoundsOK
<1>8. CallersOK' BY <1>1, Parts DEF CallersOK
<1>9. \A k : NoImm(k)' BY <1>5 DEF NoImm
<1>10. GettingOK' BY <1>1, <1>9, Parts DEF GettingOK, Listing
<1>11. PendingOK' BY <1>1, <1>2, <1>5 DEF PendingOK, Swapped
<1>12. NInv' BY <1>7, <1>8, <1>10, <1>11 DEF NInv, AloneOK
<1>13. ASSUME NEW k \in Key, NEW l \in Nat, CurrentIs(k, l) PROVE CurrentIs(k, l)'
  <2>1. \A d \in Client : pc[d] # "push" BY <1>2 DEF Swapped
  <2>2. CASE active[k] # 0 BY <1>1, <1>13, <2>2 DEF CurrentIs
  <2>3. CASE active[k] = 0 /\ \E i \in 1 .. Len(immutables) : NewestImm(i, k) /\ l = immutables[i][k]
    <3>1. l = f.data[k] /\ l # 0 BY <1>2, <1>6, <2>3 DEF NewestImm
    <3>2. \A g \in files : g.ts <= f.ts BY <1>2, <1>6, Parts DEF Named
    <3> QED BY <1>1, <1>6, <1>9, <2>1, <2>3, <3>1, <3>2 DEF CurrentIs
  <2>4. CASE active[k] = 0 /\ ~\E i \in 1 .. Len(immutables) : NewestImm(i, k) /\ l = immutables[i][k]
    BY <1>1, <1>9, <1>13, <2>1, <2>4 DEF CurrentIs
  <2> QED BY <2>2, <2>3, <2>4
<1>14. AbsStore' = AbsStore BY <1>1, <1>12, <1>13, StoreKept DEF Keeps
<1> QED BY <1>1, <1>12, <1>14 DEF Unseen, AbsPhase

LEMMA TasksUnseen ==
  ASSUME OneCaller, NInv, KInv', NEW t \in tasks, TaskStep(t)
  PROVE  NInv' /\ Unseen
<1>1. CASE TaskRead(t)
  <2>1. PICK u : u = [t EXCEPT !.pc = "create", !.data = immutables[t.idx]] OBVIOUS
  <2>2. /\ tasks' = (tasks \ {t}) \cup IF t.idx \in DOMAIN immutables THEN {u} ELSE {}
        /\ UNCHANGED <<wal, files, now, up, active, immutables, cache, pc, loc, reply>>
    BY <1>1, <2>1, Zenon DEF TaskRead, TaskStep, disk
  <2>3. tasks = {t} /\ t \in Task /\ t.idx = 1 /\ Len(immutables) = 1 BY TaskAlone
  <2>4. immutables \in Seq(Layer) BY Parts DEF StoreOK
  <2>5. 1 \in DOMAIN immutables /\ immutables[1] \in Layer BY <2>3, <2>4
  <2>6. tasks' = {u} BY <2>2, <2>3, <2>5
  <2>7. u \in Task /\ u.ts = t.ts /\ u.idx = t.idx /\ u.pc = "create"
    BY <2>1, <2>3, <2>5 DEF Task
  <2> QED BY <2>2, <2>6, <2>7, TaskMovesAlone
<1>2. CASE TaskReopen(t)
  <2>1. PICK u : u = [t EXCEPT !.pc = "remove"] OBVIOUS
  <2>2. /\ tasks' = (tasks \ {t}) \cup IF Openable(t.ts) THEN {u} ELSE {}
        /\ t.pc = "reopen"
        /\ UNCHANGED <<wal, files, now, up, active, immutables, cache, pc, loc, reply>>
    BY <1>2, <2>1 DEF TaskReopen, TaskStep, disk
  <2>3. tasks = {t} /\ t \in Task BY TaskAlone
  <2>4. PICK f \in files : f.ts = t.ts /\ f.data = t.data /\ f.whole BY <2>2, TaskAlone
  <2>5. Openable(t.ts) BY <2>4 DEF Openable
  <2>6. tasks' = {u} BY <2>2, <2>3, <2>5
  <2>7. u \in Task /\ u.ts = t.ts /\ u.idx = t.idx /\ u.data = t.data BY <2>1, <2>3 DEF Task
  <2>8. f.ts = u.ts /\ f.data = u.data BY <2>4, <2>7
  <2> QED BY <2>2, <2>4, <2>6, <2>7, <2>8, TaskMovesAlone
<1> QED BY <1>1, <1>2, TaskCreateAlone, TaskFinishAlone, TaskRemoveAlone DEF TaskStep
-----------------------------------------------------------------------------
(* Reads                                                                   *)

\* The caller searches on.
LEMMA SearchesOn ==
  ASSUME OneCaller, NInv, KInv', NEW c \in Client, NEW l \in GetLabels, NEW r,
         pc[c] \in {"idle"} \cup GetLabels, pc' = [pc EXCEPT ![c] = l],
         loc' = [loc EXCEPT ![c] = r], r.lsn = 0, NEW k \in Key, r.want = {k},
         UNCHANGED <<wal, files, now, up, active, immutables, cache, tasks, reply>>,
         l \in {"gimm", "glist", "gfile"} => active[k] = 0,
         l \in {"glist", "gfile"} => NoImm(k),
         l = "gfile" =>
           r.left \subseteq Listing /\ \A f \in files : f.ts \notin r.left => f.data[k] = 0
  PROVE  NInv' /\ Unseen
<1>1. /\ pc'[c] = l /\ loc'[c] = r /\ \A d \in Client : d = c
      /\ AbsPhase' = [AbsPhase EXCEPT ![c] = "idle"]
  BY MovesOn DEF GetLabels
<1>2. BoundsOK' BY Parts DEF BoundsOK
<1>3. CallersOK' BY <1>1 DEF CallersOK, GetLabels
<1>4. GettingOK' BY <1>1 DEF GettingOK, NoImm, Listing
<1>5. pc[c] \notin {"push", "spawn"} /\ pc'[c] \notin {"push", "spawn"} BY <1>1 DEF GetLabels
<1>6. PendingOK' BY <1>5, QuietPending
<1>7. NInv' BY <1>2, <1>3, <1>4, <1>6 DEF NInv, AloneOK
<1>8. Keeps BY <1>5, QuietKeeps
<1>9. AbsStore' = AbsStore BY <1>7, <1>8, StoreKept
<1>10. AbsPhase[c] = "idle" BY Parts DEF AbsPhase, CallersOK
<1> QED BY <1>1, <1>7, <1>9, <1>10, SamePhase DEF Unseen

\* The caller has found the current record.
LEMMA FoundReads ==
  ASSUME OneCaller, NInv, KInv', NEW c \in Client, pc[c] \in GetLabels,
         UNCHANGED <<wal, files, now, up, active, immutables, tasks>>, \A e \in cache' : e.lsn # 0,
         NEW k \in Key, NEW l \in Nat, CurrentIs(k, l),
         Return(c, "ok", [EmptyRun EXCEPT ![k] = Visible(l)])
  PROVE  NInv' /\ Kv!Read(c, {k})
<1>1. PICK v : v = [EmptyRun EXCEPT ![k] = Visible(l)] OBVIOUS
<1>2. pc[c] \notin {"push", "spawn"} BY DEF GetLabels
<1>3. /\ NInv' /\ AbsStore' = AbsStore /\ AbsPhase' = [AbsPhase EXCEPT ![c] = "idle"]
      /\ reply' = [reply EXCEPT ![c] = [status |-> "ok", val |-> v]]
  <2>1. Return(c, "ok", v) BY <1>1
  <2> QED BY <1>2, <2>1, ReturnAlone
<1>4. AbsStore[k] = Visible(l) BY CurrentValue DEF AbsStore
<1>5. v = [m \in Key |-> IF m \in {k} THEN AbsStore[m] ELSE 0] BY <1>1, <1>4 DEF EmptyRun
<1>6. AbsPhase[c] = "idle" BY Parts DEF AbsPhase, CallersOK
<1> QED BY <1>3, <1>5, <1>6 DEF Kv!Read, Kv!Answer

LEMMA GetStarts ==
  ASSUME OneCaller, NInv, KInv', NEW c \in Client, NEW k \in Key, GetCall(c, k)
  PROVE  NInv' /\ Unseen
<1>1. PICK r : r = [loc[c] EXCEPT !.want = {k}] OBVIOUS
<1>2. /\ pc[c] = "idle" /\ pc' = [pc EXCEPT ![c] = "gactive"] /\ loc' = [loc EXCEPT ![c] = r]
      /\ UNCHANGED <<wal, files, now, up, active, immutables, cache, tasks, reply>>
  BY <1>1 DEF GetCall, ReadCall, Step, Goto, disk, memory
<1>3. r.lsn = 0 /\ r.want = {k} BY <1>1, <1>2, Parts DEF CallerOK, Locals, CallersOK
<1>4. "gactive" \in GetLabels /\ "gactive" \notin {"gimm", "glist", "gfile"} BY DEF GetLabels
<1> QED BY <1>2, <1>3, <1>4, SearchesOn

LEMMA GetActiveReads ==
  ASSUME OneCaller, NInv, KInv', NEW c \in Client, NEW k \in loc[c].want, GetActive(c, k)
  PROVE  NInv' /\ (Kv!Read(c, {k}) \/ Unseen)
<1>1. /\ pc[c] = "gactive" /\ loc[c].want = {k} /\ k \in Key /\ loc[c].lsn = 0
      /\ UNCHANGED <<wal, files, now, up, active, immutables, cache, tasks>>
      /\ pc[c] \in GetLabels
  BY Parts DEF GetActive, CallersOK, GetLabels, disk, memory
<1>2. CASE active[k] # 0
  <2>1. PICK l : l = active[k] OBVIOUS
  <2>2. Return(c, "ok", [EmptyRun EXCEPT ![k] = Visible(l)])
    BY <1>2, <2>1 DEF GetActive, Found
  <2>3. CurrentIs(k, l) /\ l \in Nat BY <1>1, <1>2, <2>1, Parts DEF CurrentIs, StoreOK, Layer
  <2>4. \A e \in cache' : e.lsn # 0 BY <1>1, Parts DEF BoundsOK
  <2> QED BY <1>1, <2>2, <2>3, <2>4, FoundReads
<1>3. CASE active[k] = 0
  <2>1. pc' = [pc EXCEPT ![c] = "gimm"] /\ UNCHANGED <<loc, reply>>
    BY <1>3 DEF GetActive, Goto
  <2>2. PICK r : r = loc[c] OBVIOUS
  <2>3. loc' = [loc EXCEPT ![c] = r] BY <2>1, <2>2, Parts DEF CallerOK
  <2>4. r.lsn = 0 /\ r.want = {k} /\ pc[c] \in {"idle"} \cup GetLabels BY <1>1, <2>2
  <2>5. PICK l \in GetLabels : l = "gimm" BY DEF GetLabels
  <2>6. /\ pc' = [pc EXCEPT ![c] = l]
        /\ UNCHANGED <<wal, files, now, up, active, immutables, cache, tasks, reply>>
        /\ l \in {"gimm", "glist", "gfile"} => active[k] = 0
        /\ l \in {"glist", "gfile"} => NoImm(k)
        /\ l = "gfile" =>
             r.left \subseteq Listing /\ \A f \in files : f.ts \notin r.left => f.data[k] = 0
    BY <1>1, <1>3, <2>1, <2>5
  <2>7. NInv' /\ Unseen BY <1>1, <2>3, <2>4, <2>6, SearchesOn
  <2> QED BY <2>7
<1> QED BY <1>2, <1>3

LEMMA GetImmReads ==
  ASSUME OneCaller, NInv, KInv', NEW c \in Client, NEW k \in loc[c].want, GetImm(c, k)
  PROVE  NInv' /\ (Kv!Read(c, {k}) \/ Unseen)
<1>1. /\ pc[c] = "gimm" /\ loc[c].want = {k} /\ k \in Key /\ loc[c].lsn = 0 /\ active[k] = 0
      /\ UNCHANGED <<wal, files, now, up, active, immutables, cache, tasks>>
      /\ pc[c] \in GetLabels
  BY Parts DEF GetImm, CallersOK, GettingOK, GetLabels, disk, memory
<1>2. ASSUME NEW i \in 1..Len(immutables), NewestImm(i, k), Found(c, k, immutables[i][k])
      PROVE  NInv' /\ Kv!Read(c, {k})
  <2>1. PICK l : l = immutables[i][k] OBVIOUS
  <2>2. Return(c, "ok", [EmptyRun EXCEPT ![k] = Visible(l)]) BY <1>2, <2>1 DEF Found
  <2>3. \A d \in Client : pc[d] # "push" BY <1>1 DEF OneCaller
  <2>4. immutables[i] \in Layer BY Parts DEF StoreOK
  <2>5. CurrentIs(k, l) /\ l \in Nat BY <1>1, <1>2, <2>1, <2>3, <2>4 DEF CurrentIs, Layer
  <2>6. \A e \in cache' : e.lsn # 0 BY <1>1, Parts DEF BoundsOK
  <2> QED BY <1>1, <2>2, <2>5, <2>6, FoundReads
<1>3. CASE NoImm(k) /\ Goto(c, "glist") /\ UNCHANGED <<loc, reply, history>>
  <2>1. pc' = [pc EXCEPT ![c] = "glist"] /\ UNCHANGED <<loc, reply>> BY <1>3 DEF Goto
  <2>2. PICK r : r = loc[c] OBVIOUS
  <2>3. loc' = [loc EXCEPT ![c] = r] BY <2>1, <2>2, Parts DEF CallerOK
  <2>4. r.lsn = 0 /\ r.want = {k} /\ pc[c] \in {"idle"} \cup GetLabels BY <1>1, <2>2
  <2>5. PICK l \in GetLabels : l = "glist" BY DEF GetLabels
  <2>6. /\ pc' = [pc EXCEPT ![c] = l]
        /\ UNCHANGED <<wal, files, now, up, active, immutables, cache, tasks, reply>>
        /\ l \in {"gimm", "glist", "gfile"} => active[k] = 0
        /\ l \in {"glist", "gfile"} => NoImm(k)
        /\ l = "gfile" =>
             r.left \subseteq Listing /\ \A f \in files : f.ts \notin r.left => f.data[k] = 0
    BY <1>1, <1>3, <2>1, <2>5
  <2>7. NInv' /\ Unseen BY <1>1, <2>3, <2>4, <2>6, SearchesOn
  <2> QED BY <2>7
<1> QED BY <1>2, <1>3 DEF GetImm

LEMMA GetListReads ==
  ASSUME OneCaller, NInv, KInv', NEW c \in Client, GetList(c)
  PROVE  NInv' /\ Unseen
<1>1. PICK r : r = [loc[c] EXCEPT !.left = Listing] OBVIOUS
<1>2. /\ pc[c] = "glist" /\ pc' = [pc EXCEPT ![c] = "gfile"] /\ loc' = [loc EXCEPT ![c] = r]
      /\ UNCHANGED <<wal, files, now, up, active, immutables, cache, tasks, reply>>
  BY <1>1 DEF GetList, Step, Goto, disk, memory
<1>3. PICK k \in Key : loc[c].want = {k} /\ loc[c].lsn = 0 /\ active[k] = 0 /\ NoImm(k)
  BY <1>2, Parts DEF CallersOK, GettingOK, GetLabels
<1>4. r.lsn = 0 /\ r.want = {k} /\ r.left = Listing
  BY <1>1, <1>3, Parts DEF CallerOK, Locals
<1>5. \A f \in files : f.ts \in r.left BY <1>4 DEF Listing
<1>6. "gfile" \in GetLabels /\ pc[c] \in GetLabels BY <1>2 DEF GetLabels
<1> QED BY <1>2, <1>3, <1>4, <1>5, <1>6, SearchesOn

LEMMA GetNoneReads ==
  ASSUME OneCaller, NInv, KInv', NEW c \in Client, GetNone(c)
  PROVE  NInv' /\ \E k \in Key : Kv!Read(c, {k})
<1>1. /\ pc[c] = "gfile" /\ loc[c].left = {} /\ pc[c] \in GetLabels /\ Return(c, "ok", EmptyRun)
      /\ UNCHANGED <<wal, files, now, up, active, immutables, cache, tasks>>
  BY DEF GetNone, GetLabels, disk, memory
<1>2. PICK k \in Key : /\ loc[c].want = {k} /\ active[k] = 0 /\ NoImm(k)
                       /\ \A f \in files : f.data[k] = 0
  BY <1>1, Parts DEF CallersOK, GettingOK
<1>3. \A d \in Client : pc[d] # "push" BY <1>1 DEF OneCaller
<1>4. CurrentIs(k, 0) BY <1>2, <1>3 DEF CurrentIs
<1>5. [EmptyRun EXCEPT ![k] = Visible(0)] = EmptyRun BY DEF EmptyRun, Visible
<1>6. \A e \in cache' : e.lsn # 0 BY <1>1, Parts DEF BoundsOK
<1> QED BY <1>1, <1>4, <1>5, <1>6, FoundReads

\* Every file searched in vain is out of the way; the newest one left decides.
LEMMA GetFileReads ==
  ASSUME OneCaller, NInv, KInv', NEW c \in Client, NEW k \in loc[c].want, NEW t \in loc[c].left,
         GetFile(c, k, t)
  PROVE  NInv' /\ (Kv!Read(c, {k}) \/ Kv!Fail(c) \/ Unseen)
<1>1. /\ pc[c] = "gfile" /\ pc[c] \in GetLabels /\ IsNewest(t, loc[c].left)
      /\ UNCHANGED <<wal, files, now, up, active, immutables, tasks>>
  BY DEF GetFile, GetLabels, disk
<1>2. /\ loc[c].want = {k} /\ k \in Key /\ loc[c].lsn = 0 /\ active[k] = 0 /\ NoImm(k)
      /\ loc[c].left \subseteq Listing /\ \A f \in files : f.ts \notin loc[c].left => f.data[k] = 0
  BY <1>1, Parts DEF CallersOK, GettingOK
<1>3. PICK f \in files : f.ts = t BY <1>2 DEF Listing
<1>4. PICK l : l = f.data[k] OBVIOUS
<1>5. l \in Nat BY <1>2, <1>4, Parts DEF StoreOK, Layer
<1>6. f.whole /\ l # 0 => CurrentIs(k, l)
  <2>1. \A g \in files : g.data[k] # 0 => g.ts <= f.ts BY <1>1, <1>2, <1>3 DEF IsNewest
  <2>2. \A d \in Client : pc[d] # "push" BY <1>1 DEF OneCaller
  <2> QED BY <1>2, <1>4, <2>1, <2>2 DEF CurrentIs
<1>7. Openable(t) => f.whole /\ Contents(t)[k] = l BY <1>3, <1>4, OneContents, Parts
<1>8. ASSUME NEW e \in Cached(t, k), Found(c, k, e.lsn), UNCHANGED cache
      PROVE  NInv' /\ Kv!Read(c, {k})
  <2>1. e \in cache /\ e.ts = t /\ e.key = k BY <1>8 DEF Cached
  <2>2. f.whole /\ e.lsn = l /\ e.lsn # 0
    BY <1>3, <1>4, <2>1, Parts DEF CacheCoherent, BoundsOK
  <2>3. Return(c, "ok", [EmptyRun EXCEPT ![k] = Visible(l)]) BY <1>8, <2>2 DEF Found
  <2>4. \A d \in cache' : d.lsn # 0 BY <1>8, Parts DEF BoundsOK
  <2> QED BY <1>1, <1>2, <1>5, <1>6, <2>2, <2>3, <2>4, FoundReads
<1>9. ASSUME Return(c, "err", EmptyRun), UNCHANGED cache
      PROVE  NInv' /\ Kv!Fail(c)
  <2>1. \A d \in cache' : d.lsn # 0 BY <1>9, Parts DEF BoundsOK
  <2>2. pc[c] \notin {"push", "spawn"} BY <1>1
  <2>3. /\ NInv' /\ AbsStore' = AbsStore /\ AbsPhase' = [AbsPhase EXCEPT ![c] = "idle"]
        /\ reply' = [reply EXCEPT ![c] = [status |-> "err", val |-> EmptyRun]]
    BY <1>1, <1>9, <2>1, <2>2, ReturnAlone
  <2> QED BY <2>3, EmptyAnswer DEF Kv!Fail, Kv!Answer
<1>10. ASSUME Openable(t), Contents(t)[k] # 0, Found(c, k, Contents(t)[k]),
              CacheInsert([ts |-> t, key |-> k, lsn |-> Contents(t)[k]])
       PROVE  NInv' /\ Kv!Read(c, {k})
  <2>1. f.whole /\ l # 0 BY <1>7, <1>10
  <2>2. Return(c, "ok", [EmptyRun EXCEPT ![k] = Visible(l)]) BY <1>7, <1>10 DEF Found
  <2>3. PICK e : e = [ts |-> t, key |-> k, lsn |-> l] OBVIOUS
  <2>4. e.lsn # 0 BY <2>1, <2>3
  <2>5. CacheInsert(e) BY <1>7, <1>10, <2>3
  <2>6. \A d \in cache' : d \in cache \/ d = e BY <2>5 DEF CacheInsert
  <2>7. \A d \in cache' : d.lsn # 0 BY <2>4, <2>6, Parts DEF BoundsOK
  <2> QED BY <1>1, <1>2, <1>5, <1>6, <2>1, <2>2, <2>7, FoundReads
<1>11. ASSUME Openable(t), Contents(t)[k] = 0, loc' = [loc EXCEPT ![c].left = @ \ {t}],
              UNCHANGED <<cache, pc, reply>>
       PROVE  NInv' /\ Unseen
  <2>1. PICK r : r = [loc[c] EXCEPT !.left = @ \ {t}] OBVIOUS
  <2>2. loc' = [loc EXCEPT ![c] = r] BY <1>11, <2>1
  <2>3. r.lsn = 0 /\ r.want = {k} /\ r.left = loc[c].left \ {t}
    BY <1>2, <2>1, Parts DEF CallerOK, Locals
  <2>4. PICK n \in GetLabels : n = "gfile" BY DEF GetLabels
  <2>5. pc' = [pc EXCEPT ![c] = n] BY <1>1, <1>11, <2>4, Parts DEF CallerOK
  <2>6. r.left \subseteq Listing BY <1>2, <2>3
  <2>7. ASSUME NEW g \in files, g.ts \notin r.left PROVE g.data[k] = 0
    <3>1. CASE g.ts = t BY <1>3, <1>4, <1>7, <1>11, <3>1, Parts DEF Named
    <3>2. CASE g.ts # t BY <1>2, <2>3, <2>7, <3>2
    <3> QED BY <3>1, <3>2
  <2>8. /\ UNCHANGED <<wal, files, now, up, active, immutables, cache, tasks, reply>>
        /\ n \in {"gimm", "glist", "gfile"} => active[k] = 0
        /\ n \in {"glist", "gfile"} => NoImm(k)
        /\ n = "gfile" =>
             r.left \subseteq Listing /\ \A g \in files : g.ts \notin r.left => g.data[k] = 0
        /\ pc[c] \in {"idle"} \cup GetLabels
    BY <1>1, <1>2, <1>11, <2>6, <2>7
  <2> QED BY <1>2, <2>2, <2>3, <2>5, <2>8, SearchesOn
<1>12. \/ /\ \E e \in Cached(t, k) : Found(c, k, e.lsn)
          /\ UNCHANGED cache
       \/ /\ Return(c, "err", EmptyRun)
          /\ UNCHANGED cache
       \/ /\ Openable(t) /\ Contents(t)[k] # 0
          /\ CacheInsert([ts |-> t, key |-> k, lsn |-> Contents(t)[k]])
          /\ Found(c, k, Contents(t)[k])
       \/ /\ Openable(t) /\ Contents(t)[k] = 0
          /\ loc' = [loc EXCEPT ![c].left = @ \ {t}]
          /\ UNCHANGED <<cache, pc, reply>>
  BY DEF GetFile
<1> QED BY <1>8, <1>9, <1>10, <1>11, <1>12
-----------------------------------------------------------------------------
(* The refinement                                                          *)

LEMMA InitAlone == Init => NInv /\ Kv!KvInit
<1> SUFFICES ASSUME Init PROVE NInv /\ Kv!KvInit
  OBVIOUS
<1>1. KInv BY InitKInv
<1>2. NoLocals.lsn = 0 /\ NoLocals.want = {} BY DEF NoLocals
<1>3. now = 0 /\ MaxNow \in Nat /\ Len(wal) = 0 /\ MaxWal \in Nat
  BY LsmAssumption DEF LsmAssumption, Init
<1>4. BoundsOK BY <1>3 DEF Init, BoundsOK
<1>5. CallersOK /\ GettingOK BY <1>2 DEF Init, CallersOK, GettingOK, GetLabels
<1>6. PendingOK BY DEF Init, PendingOK
<1>7. ASSUME NEW k \in Key PROVE Visible(Current(k)) = 0
  <2>1. active[k] = 0 BY DEF Init, EmptyRun
  <2>2. InHand(k) = {} BY DEF Init, InHand
  <2>3. NoImm(k) BY DEF Init, NoImm
  <2>4. FilesWith(k) = {} BY DEF Init, FilesWith
  <2>5. Current(k) = 0 BY <2>1, <2>2, <2>3, <2>4 DEF Current
  <2> QED BY <2>5 DEF Visible
<1>8. AbsStore = Kv!NoRecords BY <1>7 DEF AbsStore, Kv!NoRecords
<1>9. AbsPhase = [c \in Client |-> "idle"] BY <1>2 DEF Init, AbsPhase
<1>10. reply = [c \in Client |-> [status |-> "none", val |-> Kv!NoRecords]]
  BY EmptyAnswer DEF Init, NoReply
<1>11. NInv BY <1>1, <1>4, <1>5, <1>6 DEF NInv, AloneOK
<1>12. Kv!KvInit BY <1>8, <1>9, <1>10 DEF Kv!KvInit
<1> QED BY <1>11, <1>12

\* A step of the abstract store, or none.
KvStep == Kv!KvNext \/ Unseen

LEMMA UnseenStutters == KvStep => [Kv!KvNext]_(Kv!kvVars)
BY DEF KvStep, Unseen, Kv!kvVars

\* What the hypotheses rule out.
LEMMA NeverAlone ==
  ASSUME OneCaller, NInv
  PROVE  /\ ~Crash /\ ~Open
         /\ \A t \in tasks : ~TaskFails(t)
         /\ \A c \in Client : /\ ~CompactFails(c) /\ ~ScanCall(c) /\ ~CompactCall(c)
                              /\ ~Compacting(c) /\ ~Scanning(c)
                              /\ \A k, kind : ~WalAppendFails(c, k, kind)
<1>1. up /\ crashes \in Nat /\ ioErrors \in Nat /\ MaxCrashes = 0 /\ MaxIoErrors = 0
  BY Parts DEF BoundsOK, StoreOK, OneCaller
<1>2. ~(crashes < MaxCrashes) /\ ~(ioErrors < MaxIoErrors) BY <1>1
<1>3. ~Crash /\ ~Open BY <1>1, <1>2 DEF Crash, Open
<1>4. \A t \in tasks : ~TaskFails(t) BY <1>2 DEF TaskFails
<1>5. ASSUME NEW c \in Client
      PROVE  /\ ~CompactFails(c) /\ ~ScanCall(c) /\ ~CompactCall(c)
             /\ \A k, kind : ~WalAppendFails(c, k, kind)
  <2>1. "scan" \notin Ops /\ "compact" \notin Ops BY DEF OneCaller
  <2> QED BY <1>2, <2>1 DEF CompactFails, ScanCall, ReadCall, CompactCall, WalAppendFails
<1>6. ASSUME NEW c \in Client PROVE ~Compacting(c) /\ ~Scanning(c)
  <2>1. pc[c] \notin {"list", "open", "finish", "reopen", "remove", "slist", "sfile", "sactive"}
    BY Parts DEF CallersOK, GetLabels
  <2>2. ~Compacting(c)
    BY <2>1 DEF Compacting, CompactList, CompactCreate, CompactFinish, CompactReopen,
                CompactOpen, CompactRemove, Step
  <2>3. ~Scanning(c) BY <2>1 DEF Scanning, ScanList, ScanImm, ScanActive, ScanFile, Step
  <2> QED BY <2>2, <2>3
<1> QED BY <1>3, <1>4, <1>5, <1>6

LEMMA CallAlone ==
  ASSUME OneCaller, NInv, KInv', NEW c \in Client, Call(c)
  PROVE  NInv' /\ KvStep
<1>1. ASSUME NEW k \in Key, NEW kind \in {"write", "delete"}, WalAppend(c, k, kind)
      PROVE  NInv' /\ KvStep
  BY <1>1, WalAppendAlone DEF KvStep
<1>2. ASSUME NEW k \in Key, GetCall(c, k) PROVE NInv' /\ KvStep
  BY <1>2, GetStarts DEF KvStep
<1>3. ASSUME FlushCall(c) PROVE NInv' /\ KvStep
  BY <1>3, CheckAlone DEF KvStep, Kv!KvNext
<1> QED BY <1>1, <1>2, <1>3, NeverAlone DEF Call

LEMMA ContinueAlone ==
  ASSUME OneCaller, NInv, KInv', NEW c \in Client, Continue(c)
  PROVE  NInv' /\ KvStep
<1>1. ASSUME Kv!Ack(c) \/ Kv!Fail(c) \/ \E ks \in SUBSET Key : Kv!Read(c, ks) PROVE KvStep
  BY <1>1 DEF KvStep, Kv!KvNext
<1>2. ASSUME Insert(c) PROVE NInv' /\ KvStep
  BY <1>2, InsertApplies DEF KvStep, Kv!KvNext
<1>3. ASSUME CheckSize(c) \/ FlushPolicy(c) PROVE NInv' /\ KvStep
  <2>1. NInv' /\ (Kv!Ack(c) \/ Unseen) BY <1>3, CheckAlone
  <2> QED BY <1>1, <2>1 DEF KvStep
<1>4. ASSUME FlushSwap(c) \/ FlushPush(c) \/ FlushSpawn(c) PROVE NInv' /\ KvStep
  BY <1>4, SwapAlone, PushAlone, SpawnAlone DEF KvStep
<1>5. ASSUME Getting(c) PROVE NInv' /\ KvStep
  <2>1. \A k \in Key : {k} \in SUBSET Key OBVIOUS
  <2>2. loc[c].want \subseteq Key BY Parts DEF CallerOK, Locals
  <2>3. ASSUME GetList(c) PROVE NInv' /\ KvStep BY <2>3, GetListReads DEF KvStep
  <2>4. ASSUME GetNone(c) PROVE NInv' /\ KvStep
    <3>1. NInv' /\ \E k \in Key : Kv!Read(c, {k}) BY <2>4, GetNoneReads
    <3> QED BY <1>1, <2>1, <3>1
  <2>5. ASSUME NEW k \in loc[c].want, GetActive(c, k) \/ GetImm(c, k) PROVE NInv' /\ KvStep
    <3>1. NInv' /\ (Kv!Read(c, {k}) \/ Unseen) BY <2>5, GetActiveReads, GetImmReads
    <3> QED BY <1>1, <2>1, <2>2, <3>1 DEF KvStep
  <2>6. ASSUME NEW k \in loc[c].want, NEW t \in loc[c].left, GetFile(c, k, t)
        PROVE  NInv' /\ KvStep
    <3>1. NInv' /\ (Kv!Read(c, {k}) \/ Kv!Fail(c) \/ Unseen) BY <2>6, GetFileReads
    <3> QED BY <1>1, <2>1, <2>2, <3>1 DEF KvStep
  <2> QED BY <1>5, <2>3, <2>4, <2>5, <2>6 DEF Getting
<1> QED BY <1>2, <1>3, <1>4, <1>5, NeverAlone DEF Continue, Mutating, Flushing

LEMMA StepAlone == OneCaller /\ NInv /\ [Next]_vars => NInv' /\ [Kv!KvNext]_(Kv!kvVars)
<1> SUFFICES ASSUME OneCaller, NInv, [Next]_vars PROVE NInv' /\ KvStep
  BY UnseenStutters
<1>1. KInv' BY StepKInv DEF NInv, OneCaller
<1>2. CASE UNCHANGED vars
  <2>1. UNCHANGED <<wal, files, now, up, active, immutables, cache, tasks, pc, loc, reply>>
    BY <1>2 DEF vars, disk, memory
  <2>2. AloneOK'
    BY <2>1, Parts DEF AloneOK, BoundsOK, CallersOK, PendingOK, GettingOK, NoImm, Listing
  <2>3. NInv' BY <1>1, <2>2 DEF NInv
  <2>4. Keeps BY <2>1 DEF Keeps, CurrentIs, NewestImm, NoImm
  <2>5. AbsStore' = AbsStore BY <2>1, <2>3, <2>4, StoreKept
  <2> QED BY <2>1, <2>3, <2>5 DEF KvStep, Unseen, AbsPhase
<1>3. ASSUME NEW c \in Client, Call(c) \/ Continue(c) \/ CompactFails(c)
      PROVE  NInv' /\ KvStep
  BY <1>1, <1>3, CallAlone, ContinueAlone, NeverAlone
<1>4. ASSUME NEW t \in tasks, TaskStep(t) \/ TaskFails(t) PROVE NInv' /\ KvStep
  BY <1>1, <1>4, TasksUnseen, NeverAlone DEF KvStep
<1> QED BY <1>2, <1>3, <1>4, NeverAlone DEF Next

\* With one caller and a disk that works, LsmTree is a plain key-value store:
\* write() and delete() take effect at the insert into the memtable, get()
\* answers with the current record of its key whichever layer or cache it
\* found it in, and what the flush tasks move meanwhile is invisible.
THEOREM ImplementsKvStoreHolds == ASSUME OneCaller PROVE Spec => ImplementsKvStore
<1>1. NInv /\ [Next]_vars => NInv' /\ [Kv!KvNext]_(Kv!kvVars) BY StepAlone
<1>2. Init => NInv /\ Kv!KvInit BY InitAlone
<1> QED BY <1>1, <1>2, PTL DEF Spec, ImplementsKvStore, Kv!KvSpec
=============================================================================
