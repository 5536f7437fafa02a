------------------------------ MODULE LsmTree ------------------------------
(***************************************************************************)
(* The LSM-tree storage engine (fundb-storage: lsm.rs with memtable.rs,    *)
(* sstable.rs, compaction.rs, and the part of wal.rs and block_cache.rs    *)
(* it uses).                                                               *)
(*                                                                         *)
(* Callers run write, delete, get, scan, flush_memtable and                *)
(* trigger_compaction concurrently; every flush spawns a background task.  *)
(* One action is the work done under one lock, or one file-system call:    *)
(* that is where another thread can get in between.                        *)
(*                                                                         *)
(* A record is named by the position of the WAL frame that carried it, so  *)
(* a sorted run of records (a memtable, an SSTable) is a function from     *)
(* keys to frame positions, 0 where the run has no entry.  A larger        *)
(* position for the same key is a record appended to the WAL later.        *)
(***************************************************************************)
EXTENDS Naturals, Sequences, FiniteSets, SequencesExt, CompactionPolicy

CONSTANTS
  Key,             \* record keys
  Client,          \* concurrent callers of the public methods
  Ops,             \* which public methods they call
  FlushThreshold,  \* flush_threshold_bytes, in inserts
  Policy,          \* compaction_policy
  CacheCap,        \* block cache capacity, in records
  MaxWal,          \* bound: WAL frames
  MaxNow,          \* bound: SSTable names handed out
  MaxFlushes,      \* bound: flushes between swap and removal at one time
  MaxCrashes,      \* bound: process crashes
  MaxIoErrors,     \* bound: failing writes to disk
  Torn             \* may a crash cut a WAL frame short?

AllOps == {"write", "delete", "get", "scan", "flush", "compact"}

ASSUME LsmAssumption ==
  /\ IsFiniteSet(Client)
  /\ Ops \subseteq AllOps
  /\ FlushThreshold \in Nat \ {0}
  /\ Policy \in [kind : {"Leveled", "SizeTiered"}, limit : Nat]
  /\ {CacheCap, MaxWal, MaxNow, MaxFlushes, MaxCrashes, MaxIoErrors} \subseteq Nat
  /\ Torn \in BOOLEAN

VARIABLES
  up,          \* is the process running?
  wal,         \* the log file: frames [kind, key, whole]
  active,      \* the active memtable
  size,        \* its size_bytes, in inserts
  immutables,  \* frozen memtables, oldest first
  files,       \* the .sst files: [ts, whole, data]
  cache,       \* block cache: [ts, key, lsn]
  now,         \* the last timestamp used as a file name
  tasks,       \* spawned flush tasks: [ts, idx, pc, data]
  pc,          \* pc[c]: where caller c is
  loc,         \* loc[c]: its local variables
  reply,       \* reply[c]: what its last call returned
  crashes, ioErrors,
  latest,      \* history: latest[k], the record inserted last under k
  acked,       \* history: records whose write or delete returned Ok
  seen         \* history: seen[c][k], current records of k during c's read

disk   == <<wal, files, now>>
memory == <<up, active, size, immutables, cache, tasks>>
faults == <<crashes, ioErrors>>
history == <<latest, acked, seen>>
vars == <<disk, memory, pc, loc, reply, faults, history>>

-----------------------------------------------------------------------------
(* Sorted runs and records                                                 *)

Layer == [Key -> Nat]
EmptyRun == [k \in Key |-> 0]

\* BTreeMap inserts of `new` after `old`, and merge_sstables: the later
\* source wins for each key.
Over(new, old) == [k \in Key |-> IF new[k] # 0 THEN new[k] ELSE old[k]]

\* tombstone_record / is_tombstone / filter_tombstone.
IsTombstone(l) == l # 0 /\ wal[l].kind = "delete"
Visible(l) == IF l = 0 \/ IsTombstone(l) THEN 0 ELSE l

\* i is the newest frozen memtable that has k.
NewestImm(i, k) ==
  /\ i \in 1..Len(immutables)
  /\ immutables[i][k] # 0
  /\ \A j \in (i + 1)..Len(immutables) : immutables[j][k] = 0
NoImm(k) == \A i \in 1..Len(immutables) : immutables[i][k] = 0

\* sorted_sst_files lists every .sst file, half-written ones too.
Listing == {f.ts : f \in files}
IsOldest(t, names) == t \in names /\ \A u \in names : t <= u
IsNewest(t, names) == t \in names /\ \A u \in names : u <= t

\* SstableReader::open succeeds only on a file that was written to its end.
Openable(t) == \E f \in files : f.ts = t /\ f.whole
Contents(t) == (CHOOSE f \in files : f.ts = t /\ f.whole).data

\* Mutant: frames are taken without their CRC check.
ReadableMutant == 1..Len(wal)

\* Frames that Wal::recover yields: it stops at the first bad one.
Readable == {i \in 1..Len(wal) : \A j \in 1..i : wal[j].whole}
Writes(k) == {i \in Readable : wal[i].kind = "write" /\ wal[i].key = k}

\* Mutant: replay keeps the first record of a key instead of the last.
ReplayedMutant(run) ==
  \A k \in Key : \/ run[k] = 0 /\ Writes(k) = {}
                 \/ run[k] \in Writes(k) /\ \A i \in Writes(k) : run[k] <= i

\* `run` is the memtable that open() rebuilds: Delete frames are skipped.
Replayed(run) ==
  \A k \in Key : \/ run[k] = 0 /\ Writes(k) = {}
                 \/ run[k] \in Writes(k) /\ \A i \in Writes(k) : i <= run[k]

-----------------------------------------------------------------------------
(* Callers                                                                 *)

NoLocals == [want |-> {}, lsn |-> 0, hand |-> EmptyRun,
             names |-> {}, left |-> {}, out |-> 0]
NoReply  == [status |-> "none", val |-> EmptyRun]
NothingSeen == [k \in Key |-> {}]

Reading == {"gactive", "gimm", "glist", "gfile", "slist", "sfile", "sactive"}

Goto(c, l) == pc' = [pc EXCEPT ![c] = l]
Step(c, from, to) == up /\ pc[c] = from /\ Goto(c, to)

\* The call returns.  Only write, delete, get and scan have an outcome that
\* callers use; a direct flush or compaction (lsn = 0) reports nothing here.
Return(c, status, val) ==
  /\ Goto(c, "idle")
  /\ loc' = [loc EXCEPT ![c] = NoLocals]
  /\ reply' = [reply EXCEPT ![c] = [status |-> status, val |-> val]]
  /\ acked' = IF status = "ok" THEN acked \cup ({loc[c].lsn} \ {0}) ELSE acked
  /\ seen' = [seen EXCEPT ![c] = NothingSeen]
  /\ UNCHANGED latest

ReturnMutation(c, status) ==
  IF loc[c].lsn # 0 THEN Return(c, status, EmptyRun)
  ELSE /\ Goto(c, "idle")
       /\ loc' = [loc EXCEPT ![c] = NoLocals]
       /\ UNCHANGED <<reply, history>>

\* write() and delete(): the WAL append under the WAL mutex.
WalAppend(c, k, kind) ==
  /\ kind \in Ops \cap {"write", "delete"}
  /\ Step(c, "idle", "insert")
  /\ Len(wal) < MaxWal
  /\ wal' = Append(wal, [kind |-> kind, key |-> k, whole |-> TRUE])
  /\ loc' = [loc EXCEPT ![c].lsn = Len(wal) + 1]
  /\ UNCHANGED <<memory, files, now, reply, faults, history>>

\* Mutant: the failed append is ignored and the record inserted all the same.
WalAppendFailsMutant(c, k, kind) ==
  /\ kind \in Ops \cap {"write", "delete"}
  /\ Step(c, "idle", "insert")
  /\ Len(wal) < MaxWal
  /\ ioErrors < MaxIoErrors
  /\ wal' = Append(wal, [kind |-> kind, key |-> k, whole |-> FALSE])
  /\ ioErrors' = ioErrors + 1
  /\ loc' = [loc EXCEPT ![c].lsn = Len(wal) + 1]
  /\ UNCHANGED <<memory, files, now, crashes, reply, history>>

\* One of append's three write_all calls fails: part of the frame may stay
\* in the file and the caller gets the error.
WalAppendFails(c, k, kind) ==
  /\ kind \in Ops \cap {"write", "delete"}
  /\ up /\ pc[c] = "idle"
  /\ Len(wal) < MaxWal
  /\ ioErrors < MaxIoErrors
  /\ \/ wal' = wal
     \/ wal' = Append(wal, [kind |-> kind, key |-> k, whole |-> FALSE])
  /\ ioErrors' = ioErrors + 1
  /\ Return(c, "err", EmptyRun)
  /\ UNCHANGED <<memory, files, now, crashes>>

\* Mutant: size_bytes goes down instead of up.
InsertMutant(c) ==
  LET l == loc[c].lsn
      k == wal[l].key
  IN /\ Step(c, "insert", "check")
     /\ active' = [active EXCEPT ![k] = l]
     /\ size' = size - 1
     /\ latest' = [latest EXCEPT ![k] = l]
     /\ UNCHANGED <<disk, up, immutables, cache, tasks, loc, reply, faults, acked, seen>>

\* MemTable::insert of the record or the tombstone, under the active read
\* guard.
Insert(c) ==
  LET l == loc[c].lsn
      k == wal[l].key
  IN /\ Step(c, "insert", "check")
     /\ active' = [active EXCEPT ![k] = l]
     /\ size' = size + 1
     /\ latest' = [latest EXCEPT ![k] = l]
     /\ seen' = [d \in Client |-> IF pc[d] \in Reading
                                  THEN [seen[d] EXCEPT ![k] = @ \cup {Visible(l)}]
                                  ELSE seen[d]]
     /\ UNCHANGED <<disk, up, immutables, cache, tasks, loc, reply, faults, acked>>

\* write() checks the size under a second read guard; delete() just returns.
CheckSize(c) ==
  /\ up /\ pc[c] = "check"
  /\ IF wal[loc[c].lsn].kind = "write" /\ size >= FlushThreshold
     THEN Goto(c, "swap") /\ UNCHANGED <<loc, reply, history>>
     ELSE ReturnMutation(c, "ok")
  /\ UNCHANGED <<disk, memory, faults>>

-----------------------------------------------------------------------------
(* flush_memtable                                                          *)

FlushCall(c) ==
  /\ "flush" \in Ops
  /\ Step(c, "idle", "swap")
  /\ UNCHANGED <<disk, memory, loc, reply, faults, history>>

InFlight == Cardinality(tasks)
            + Cardinality({c \in Client : pc[c] \in {"push", "spawn"}})

\* std::mem::take under the active write guard.
FlushSwap(c) ==
  /\ Step(c, "swap", "push")
  /\ InFlight < MaxFlushes
  /\ loc' = [loc EXCEPT ![c].hand = active]
  /\ active' = EmptyRun
  /\ size' = 0
  /\ UNCHANGED <<disk, up, immutables, cache, tasks, reply, faults, history>>

\* freeze, then push under the immutables write guard; imm_idx is taken here.
FlushPush(c) ==
  /\ Step(c, "push", "spawn")
  /\ immutables' = Append(immutables, loc[c].hand)
  /\ loc' = [loc EXCEPT ![c].hand = EmptyRun, ![c].out = Len(immutables) + 1]
  /\ UNCHANGED <<disk, up, active, size, cache, tasks, reply, faults, history>>

\* Mutant: every SSTable gets the same name.
FlushSpawnMutant(c) ==
  /\ Step(c, "spawn", "policy")
  /\ now < MaxNow
  /\ now' = now + 1
  /\ tasks' = tasks \cup {[ts |-> 1, idx |-> loc[c].out, pc |-> "read",
                           data |-> EmptyRun]}
  /\ loc' = [loc EXCEPT ![c].out = 0]
  /\ UNCHANGED <<wal, files, up, active, size, immutables, cache, reply, faults, history>>

\* Name the file by the clock and spawn the task.
FlushSpawn(c) ==
  /\ Step(c, "spawn", "policy")
  /\ now < MaxNow
  /\ now' = now + 1
  /\ tasks' = tasks \cup {[ts |-> now + 1, idx |-> loc[c].out, pc |-> "read",
                           data |-> EmptyRun]}
  /\ loc' = [loc EXCEPT ![c].out = 0]
  /\ UNCHANGED <<wal, files, up, active, size, immutables, cache, reply, faults, history>>

\* The caller does not wait for the task: it looks at the directory now.
FlushPolicy(c) ==
  /\ up /\ pc[c] = "policy"
  /\ IF ShouldCompact(Policy, Listing)
     THEN Goto(c, "list") /\ UNCHANGED <<loc, reply, history>>
     ELSE ReturnMutation(c, "ok")
  /\ UNCHANGED <<disk, memory, faults>>

\* The task finds its memtable again by index; it may have moved or gone.
TaskRead(t) ==
  /\ t.pc = "read"
  /\ tasks' = (tasks \ {t}) \cup
       IF t.idx \in DOMAIN immutables
       THEN {[t EXCEPT !.pc = "create", !.data = immutables[t.idx]]}
       ELSE {}
  /\ UNCHANGED <<disk, up, active, size, immutables, cache>>

\* SstableWriter::finish creates the file, then fills it.
TaskCreate(t) ==
  /\ t.pc = "create"
  /\ files' = files \cup {[ts |-> t.ts, whole |-> FALSE, data |-> t.data]}
  /\ tasks' = (tasks \ {t}) \cup {[t EXCEPT !.pc = "finish"]}
  /\ UNCHANGED <<wal, now, up, active, size, immutables, cache>>

\* The named file, if it is still there, now holds everything.
Completed(ts) ==
  {f \in files : f.ts # ts}
    \cup {[f EXCEPT !.whole = TRUE] : f \in {g \in files : g.ts = ts}}

TaskFinish(t) ==
  /\ t.pc = "finish"
  /\ files' = Completed(t.ts)
  /\ tasks' = (tasks \ {t}) \cup {[t EXCEPT !.pc = "reopen"]}
  /\ UNCHANGED <<wal, now, up, active, size, immutables, cache>>

\* finish() re-opens what it wrote; if that fails the task gives up.
TaskReopen(t) ==
  /\ t.pc = "reopen"
  /\ tasks' = (tasks \ {t}) \cup
       IF Openable(t.ts) THEN {[t EXCEPT !.pc = "remove"]} ELSE {}
  /\ UNCHANGED <<disk, up, active, size, immutables, cache>>

\* Mutant: off by one in the bounds check.
TaskRemoveMutant(t) ==
  /\ t.pc = "remove"
  /\ tasks' = tasks \ {t}
  /\ immutables' = IF t.idx < Len(immutables) THEN RemoveAt(immutables, t.idx)
                   ELSE immutables
  /\ UNCHANGED <<disk, up, active, size, cache>>

\* Vec::remove at the index taken when the memtable was pushed.
TaskRemove(t) ==
  /\ t.pc = "remove"
  /\ tasks' = tasks \ {t}
  /\ immutables' = IF t.idx \in DOMAIN immutables
                   THEN RemoveAt(immutables, t.idx) ELSE immutables
  /\ UNCHANGED <<disk, up, active, size, cache>>

TaskStep(t) ==
  /\ up
  /\ TaskRead(t) \/ TaskCreate(t) \/ TaskFinish(t) \/ TaskReopen(t) \/ TaskRemove(t)
  /\ UNCHANGED <<pc, loc, reply, faults, history>>

\* Mutant: the frozen memtable is dropped although its SSTable failed.
TaskFailsMutant(t) ==
  /\ up /\ t.pc = "finish"
  /\ ioErrors < MaxIoErrors
  /\ ioErrors' = ioErrors + 1
  /\ tasks' = tasks \ {t}
  /\ immutables' = IF t.idx \in DOMAIN immutables
                   THEN RemoveAt(immutables, t.idx) ELSE immutables
  /\ UNCHANGED <<disk, up, active, size, cache, pc, loc, reply, crashes, history>>

\* The SSTable cannot be created, or a write to it fails: logged, the task
\* ends, the half-written file and the frozen memtable stay.
TaskFails(t) ==
  /\ up /\ t.pc \in {"create", "finish"}
  /\ ioErrors < MaxIoErrors
  /\ ioErrors' = ioErrors + 1
  /\ tasks' = tasks \ {t}
  /\ UNCHANGED <<disk, up, active, size, immutables, cache, pc, loc, reply, crashes, history>>

-----------------------------------------------------------------------------
(* trigger_compaction                                                      *)

CompactCall(c) ==
  /\ "compact" \in Ops
  /\ Step(c, "idle", "list")
  /\ UNCHANGED <<disk, memory, loc, reply, faults, history>>

CompactList(c) ==
  /\ up /\ pc[c] = "list"
  /\ LET chosen == SelectFiles(Policy, Listing)
     IN IF Cardinality(chosen) < 2
        THEN ReturnMutation(c, "ok")
        ELSE /\ Goto(c, "open")
             /\ loc' = [loc EXCEPT ![c].names = chosen, ![c].left = chosen]
             /\ UNCHANGED <<reply, history>>
  /\ UNCHANGED <<disk, memory, faults>>

\* Readers are opened oldest first and hold the file in memory.
CompactOpen(c, t) ==
  /\ up /\ pc[c] = "open"
  /\ IsOldest(t, loc[c].left)
  /\ IF Openable(t)
     THEN /\ loc' = [loc EXCEPT ![c].left = @ \ {t}, ![c].hand = Over(Contents(t), @)]
          /\ UNCHANGED <<pc, reply, history>>
     ELSE ReturnMutation(c, "err")
  /\ UNCHANGED <<disk, memory, faults>>

\* The merged file is named by the clock too, then created.
CompactCreate(c) ==
  /\ Step(c, "open", "finish")
  /\ loc[c].left = {}
  /\ now < MaxNow
  /\ now' = now + 1
  /\ files' = files \cup {[ts |-> now + 1, whole |-> FALSE, data |-> loc[c].hand]}
  /\ loc' = [loc EXCEPT ![c].out = now + 1, ![c].hand = EmptyRun]
  /\ UNCHANGED <<wal, memory, reply, faults, history>>

CompactFinish(c) ==
  /\ Step(c, "finish", "reopen")
  /\ files' = Completed(loc[c].out)
  /\ UNCHANGED <<wal, now, memory, loc, reply, faults, history>>

\* Mutant: the inputs are deleted although the merge failed.
CompactFailsMutant(c) ==
  /\ Step(c, "finish", "remove")
  /\ ioErrors < MaxIoErrors
  /\ ioErrors' = ioErrors + 1
  /\ loc' = [loc EXCEPT ![c].left = loc[c].names]
  /\ UNCHANGED <<disk, memory, reply, crashes, history>>

\* The merged file cannot be created or written: it stays half-written.
CompactFails(c) ==
  /\ up
  /\ pc[c] = "finish" \/ (pc[c] = "open" /\ loc[c].left = {})
  /\ ioErrors < MaxIoErrors
  /\ ioErrors' = ioErrors + 1
  /\ ReturnMutation(c, "err")
  /\ UNCHANGED <<disk, memory, crashes>>

CompactReopen(c) ==
  /\ up /\ pc[c] = "reopen"
  /\ IF Openable(loc[c].out)
     THEN /\ Goto(c, "remove")
          /\ loc' = [loc EXCEPT ![c].left = loc[c].names]
          /\ UNCHANGED <<reply, history>>
     ELSE ReturnMutation(c, "err")
  /\ UNCHANGED <<disk, memory, faults>>

\* remove_file on each input in turn; a file already gone is only logged.
CompactRemove(c, t) ==
  /\ up /\ pc[c] = "remove"
  /\ IsOldest(t, loc[c].left)
  /\ files' = {f \in files : f.ts # t}
  /\ IF loc[c].left = {t}
     THEN ReturnMutation(c, "ok")
     ELSE /\ loc' = [loc EXCEPT ![c].left = @ \ {t}]
          /\ UNCHANGED <<pc, reply, history>>
  /\ UNCHANGED <<wal, now, memory, faults>>

-----------------------------------------------------------------------------
(* get and scan                                                            *)

ReadCall(c, op, ks, first) ==
  /\ op \in Ops
  /\ Step(c, "idle", first)
  /\ loc' = [loc EXCEPT ![c].want = ks]
  /\ seen' = [seen EXCEPT ![c] = [k \in Key |-> {Visible(latest[k])}]]
  /\ UNCHANGED <<disk, memory, reply, faults, latest, acked>>

GetCall(c, k) == ReadCall(c, "get", {k}, "gactive")
ScanCall(c) == ReadCall(c, "scan", Key, "slist")

Found(c, k, l) == Return(c, "ok", [EmptyRun EXCEPT ![k] = Visible(l)])

\* Mutant: a tombstone does not end the search.
GetActiveMutant(c, k) ==
  /\ up /\ pc[c] = "gactive" /\ k \in loc[c].want
  /\ IF Visible(active[k]) # 0 THEN Found(c, k, active[k])
     ELSE Goto(c, "gimm") /\ UNCHANGED <<loc, reply, history>>
  /\ UNCHANGED <<disk, memory, faults>>

GetActive(c, k) ==
  /\ up /\ pc[c] = "gactive" /\ k \in loc[c].want
  /\ IF active[k] # 0 THEN Found(c, k, active[k])
     ELSE Goto(c, "gimm") /\ UNCHANGED <<loc, reply, history>>
  /\ UNCHANGED <<disk, memory, faults>>

GetImm(c, k) ==
  /\ up /\ pc[c] = "gimm" /\ k \in loc[c].want
  /\ \/ \E i \in 1..Len(immutables) : NewestImm(i, k) /\ Found(c, k, immutables[i][k])
     \/ NoImm(k) /\ Goto(c, "glist") /\ UNCHANGED <<loc, reply, history>>
  /\ UNCHANGED <<disk, memory, faults>>

GetList(c) ==
  /\ Step(c, "glist", "gfile")
  /\ loc' = [loc EXCEPT ![c].left = Listing]
  /\ UNCHANGED <<disk, memory, reply, faults, history>>

\* Every file was searched in vain: Ok(None).
GetNone(c) ==
  /\ up /\ pc[c] = "gfile" /\ loc[c].left = {}
  /\ Return(c, "ok", EmptyRun)
  /\ UNCHANGED <<disk, memory, faults>>

\* The record cached for (file, key), as a set of at most one entry.
Cached(t, k) == {e \in cache : e.ts = t /\ e.key = k}

\* BlockCache::insert: whatever it evicts, it stays within its capacity.
CacheInsert(e) ==
  IF CacheCap = 0 THEN cache' = cache
  ELSE \E kept \in SUBSET cache :
         /\ Cardinality(kept) < CacheCap
         /\ cache' = kept \cup {e}

GetFile(c, k, t) ==
  /\ up /\ pc[c] = "gfile" /\ k \in loc[c].want
  /\ IsNewest(t, loc[c].left)
  /\ \/ /\ \E e \in Cached(t, k) : Found(c, k, e.lsn)
        /\ UNCHANGED cache
     \/ /\ Cached(t, k) = {} /\ ~Openable(t)
        /\ Return(c, "err", EmptyRun)
        /\ UNCHANGED cache
     \/ /\ Cached(t, k) = {} /\ Openable(t) /\ Contents(t)[k] # 0
        /\ CacheInsert([ts |-> t, key |-> k, lsn |-> Contents(t)[k]])
        /\ Found(c, k, Contents(t)[k])
     \/ /\ Cached(t, k) = {} /\ Openable(t) /\ Contents(t)[k] = 0
        /\ loc' = [loc EXCEPT ![c].left = @ \ {t}]
        /\ UNCHANGED <<cache, pc, reply, history>>
  /\ UNCHANGED <<disk, up, active, size, immutables, tasks, faults>>

ScanList(c) ==
  /\ Step(c, "slist", "sfile")
  /\ loc' = [loc EXCEPT ![c].left = Listing]
  /\ UNCHANGED <<disk, memory, reply, faults, history>>

ScanFile(c, t) ==
  /\ up /\ pc[c] = "sfile"
  /\ IsOldest(t, loc[c].left)
  /\ IF Openable(t)
     THEN /\ loc' = [loc EXCEPT ![c].left = @ \ {t}, ![c].hand = Over(Contents(t), @)]
          /\ UNCHANGED <<pc, reply, history>>
     ELSE Return(c, "err", EmptyRun)
  /\ UNCHANGED <<disk, memory, faults>>

\* All frozen memtables, oldest first, under one read guard.
ScanImm(c) ==
  /\ Step(c, "sfile", "sactive")
  /\ loc[c].left = {}
  /\ \E run \in [Key -> 0..Len(wal)] :
       /\ \A k \in Key : \/ \E i \in 1..Len(immutables) :
                               NewestImm(i, k) /\ run[k] = immutables[i][k]
                         \/ NoImm(k) /\ run[k] = loc[c].hand[k]
       /\ loc' = [loc EXCEPT ![c].hand = run]
  /\ UNCHANGED <<disk, memory, reply, faults, history>>

ScanActive(c) ==
  /\ up /\ pc[c] = "sactive"
  /\ Return(c, "ok", [k \in Key |-> Visible(Over(active, loc[c].hand)[k])])
  /\ UNCHANGED <<disk, memory, faults>>

-----------------------------------------------------------------------------
(* Process crash and LsmTree::open                                         *)

Crash ==
  /\ up
  /\ crashes < MaxCrashes
  /\ crashes' = crashes + 1
  /\ up' = FALSE
  /\ \/ wal' = wal
     \/ /\ Torn /\ Len(wal) < MaxWal        \* killed inside Wal::append
        /\ \E k \in Key, kind \in Ops \cap {"write", "delete"} :
             wal' = Append(wal, [kind |-> kind, key |-> k, whole |-> FALSE])
  /\ active' = EmptyRun /\ size' = 0
  /\ immutables' = <<>> /\ cache' = {} /\ tasks' = {}
  /\ pc' = [c \in Client |-> "idle"]
  /\ loc' = [c \in Client |-> NoLocals]
  /\ reply' = [c \in Client |-> NoReply]
  /\ seen' = [c \in Client |-> NothingSeen]
  /\ UNCHANGED <<files, now, ioErrors, latest, acked>>

\* open() replays the whole log, which nothing ever truncates.
Open ==
  /\ ~up
  /\ up' = TRUE
  /\ \E run \in [Key -> 0..Len(wal)] : Replayed(run) /\ active' = run
  /\ size' = Cardinality({i \in Readable : wal[i].kind = "write"})
  /\ latest' = [k \in Key |-> active'[k]]
  /\ UNCHANGED <<disk, immutables, cache, tasks, pc, loc, reply, faults, acked, seen>>

-----------------------------------------------------------------------------

Init ==
  /\ up = TRUE
  /\ wal = <<>> /\ files = {} /\ now = 0
  /\ active = EmptyRun /\ size = 0 /\ immutables = <<>>
  /\ cache = {} /\ tasks = {}
  /\ pc = [c \in Client |-> "idle"]
  /\ loc = [c \in Client |-> NoLocals]
  /\ reply = [c \in Client |-> NoReply]
  /\ crashes = 0 /\ ioErrors = 0
  /\ latest = EmptyRun /\ acked = {}
  /\ seen = [c \in Client |-> NothingSeen]

\* A caller goes on with the call it is in.
Mutating(c) == Insert(c) \/ CheckSize(c)
Flushing(c) == FlushSwap(c) \/ FlushPush(c) \/ FlushSpawn(c) \/ FlushPolicy(c)
Compacting(c) ==
  \/ CompactList(c) \/ CompactCreate(c) \/ CompactFinish(c) \/ CompactReopen(c)
  \/ \E t \in loc[c].left : CompactOpen(c, t) \/ CompactRemove(c, t)
Getting(c) ==
  \/ GetList(c) \/ GetNone(c)
  \/ \E k \in loc[c].want : GetActive(c, k) \/ GetImm(c, k)
  \/ \E k \in loc[c].want, t \in loc[c].left : GetFile(c, k, t)
Scanning(c) ==
  \/ ScanList(c) \/ ScanImm(c) \/ ScanActive(c)
  \/ \E t \in loc[c].left : ScanFile(c, t)
Continue(c) ==
  Mutating(c) \/ Flushing(c) \/ Compacting(c) \/ Getting(c) \/ Scanning(c)

\* A caller starts a call.
Call(c) ==
  \/ \E k \in Key, kind \in {"write", "delete"} :
       WalAppend(c, k, kind) \/ WalAppendFails(c, k, kind)
  \/ \E k \in Key : GetCall(c, k)
  \/ ScanCall(c) \/ FlushCall(c) \/ CompactCall(c)

Next ==
  \/ \E c \in Client : Call(c) \/ Continue(c) \/ CompactFails(c)
  \/ \E t \in tasks : TaskStep(t) \/ TaskFails(t)
  \/ Crash \/ Open

Spec == Init /\ [][Next]_vars

\* Tokio polls every runnable future and a caller awaits what it started;
\* nobody has to start another call.
Fairness ==
  /\ \A c \in Client : WF_vars(Continue(c))
  /\ WF_vars(\E t \in tasks : TaskStep(t))

FairSpec == Spec /\ Fairness

-----------------------------------------------------------------------------
(* Properties                                                              *)

Frame == [kind : {"write", "delete"}, key : Key, whole : BOOLEAN]
Locals == [want : SUBSET Key, lsn : Nat, hand : Layer,
           names : SUBSET Nat, left : SUBSET Nat, out : Nat]
Label == Reading \cup {"idle", "insert", "check", "swap", "push", "spawn", "policy",
                       "list", "open", "finish", "reopen", "remove"}

\* Every variable of the engine has the shape the code's types give it.
TypeOK ==
  /\ up \in BOOLEAN
  /\ wal \in Seq(Frame)
  /\ active \in Layer /\ size \in Nat /\ immutables \in Seq(Layer)
  /\ files \subseteq [ts : Nat, whole : BOOLEAN, data : Layer]
  /\ cache \subseteq [ts : Nat, key : Key, lsn : Nat]
  /\ now \in Nat
  /\ tasks \subseteq [ts : Nat, idx : Nat, data : Layer,
                      pc : {"read", "create", "finish", "reopen", "remove"}]
  /\ pc \in [Client -> Label]
  /\ loc \in [Client -> Locals]
  /\ reply \in [Client -> [status : {"none", "ok", "err"}, val : Layer]]
  /\ crashes \in Nat /\ ioErrors \in Nat
  /\ latest \in Layer /\ acked \subseteq Nat
  /\ seen \in [Client -> [Key -> SUBSET Nat]]

\* A run of records is logged: each entry is a frame that append() wrote
\* completely, for that very key.
LoggedEntry(k, l) ==
  l # 0 => l \in 1..Len(wal) /\ wal[l].whole /\ wal[l].key = k
Logged(run) == \A k \in Key : LoggedEntry(k, run[k])

\* "Every mutation is written to the Wal before it touches the memtable"
\* (lsm.rs:7), wherever the record has travelled since: memtables, frozen
\* memtables, flush tasks, SSTables, compaction and scan buffers, the block
\* cache and what callers were told.
WriteAhead ==
  /\ Logged(active)
  /\ \A i \in 1..Len(immutables) : Logged(immutables[i])
  /\ \A t \in tasks : Logged(t.data)
  /\ \A f \in files : Logged(f.data)
  /\ \A e \in cache : LoggedEntry(e.key, e.lsn)
  /\ \A c \in Client : Logged(loc[c].hand) /\ Logged(reply[c].val)

\* The record a reader of k is entitled to, from where records are: the
\* active memtable, one being frozen, the frozen ones, the SSTables.
InHand(k) == {loc[c].hand[k] : c \in {d \in Client : pc[d] = "push"}} \ {0}
FilesWith(k) == {f \in files : f.whole /\ f.data[k] # 0}
Current(k) ==
  IF active[k] # 0 THEN active[k]
  ELSE IF InHand(k) # {} THEN CHOOSE l \in InHand(k) : TRUE
  ELSE IF ~NoImm(k)
       THEN immutables[CHOOSE i \in 1..Len(immutables) : NewestImm(i, k)][k]
  ELSE IF FilesWith(k) # {}
       THEN (CHOOSE f \in FilesWith(k) : \A g \in FilesWith(k) : g.ts <= f.ts).data[k]
  ELSE 0

\* "The latest write wins for each key" (lsm.rs:299): the first layer that
\* has k, in the order get() searches them, holds the record inserted last.
NewestWins == up => \A k \in Key : Current(k) = latest[k]

\* A key that was written stays in some layer, whatever flushes and
\* compactions move: flush_memtable removes a frozen memtable only "now that
\* the SSTable is on disk" (lsm.rs:422).
KeysStay == up => \A k \in Key : latest[k] # 0 => Current(k) # 0

\* trigger_compaction deletes an input only when all its keys are in another
\* complete SSTable, even if another compaction consumes its own output
\* meanwhile.
CompactionKeepsKeys ==
  [][\A f \in files : f.ts \notin Listing' =>
        \A k \in Key : f.data[k] # 0 =>
          \E g \in files' : g.whole /\ g.data[k] # 0]_vars

\* What the block cache answers for a file is what the file holds, so a
\* cached get() and an uncached one agree.
CacheCoherent ==
  \A e \in cache, f \in files : e.ts = f.ts => f.whole /\ f.data[e.key] = e.lsn

\* open() replays the log "so that no committed data is lost on restart"
\* (lsm.rs:81): a key shows its last acknowledged record or a later one, and
\* nothing if that record was a delete.
LastAcked(k) == Max({l \in acked : wal[l].key = k} \cup {0})
AckedSurvive ==
  [][~up /\ up' =>
       \A k \in Key : \/ Current(k)' >= LastAcked(k)
                      \/ IsTombstone(LastAcked(k)) /\ Visible(Current(k))' = 0]_vars

\* get() and scan() answer with a record that was current at some moment of
\* the call.
ReadsCurrent ==
  [][\A c \in Client :
       pc[c] \in Reading /\ pc'[c] = "idle" /\ reply'[c].status = "ok" =>
         \A k \in loc[c].want : reply'[c].val[k] \in seen[c][k]]_vars

\* flush_memtable's spawned tasks do their work: frozen memtables do not
\* pile up, every one is written to an SSTable and removed in the end.
FlushDrains == immutables # <<>> ~> immutables = <<>>
=============================================================================
