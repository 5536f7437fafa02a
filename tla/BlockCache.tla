----------------------------- MODULE BlockCache -----------------------------
(***************************************************************************)
(* The LRU block cache (block_cache.rs), with the sizes of the blocks and  *)
(* the running byte count.  LsmTree models what the tree does with the     *)
(* cache; this module is the cache itself.  A call holds the mutex.        *)
(***************************************************************************)
EXTENDS Integers, Sequences, FiniteSets, SequencesExt

CONSTANTS
  BlockKeys,      \* CacheKeys
  BlockSizes,     \* lengths of blocks
  Capacity        \* capacity_bytes

ASSUME BlockCacheAssumption == Capacity \in Nat /\ BlockSizes \subseteq Nat

VARIABLES
  blocks,         \* key -> length of the cached block
  lruOrder,       \* keys, the next to evict first
  currentBytes
cacheVars == <<blocks, lruOrder, currentBytes>>

CacheInit == blocks = <<>> /\ lruOrder = <<>> /\ currentBytes = 0

\* get: a hit moves the key to the back.
GetBlock(key) ==
  /\ key \in DOMAIN blocks
  /\ lruOrder' = Append(RemoveFirst(lruOrder, key), key)
  /\ UNCHANGED <<blocks, currentBytes>>

Dropped(c, key) ==
  [blocks |-> Restrict(c.blocks, DOMAIN c.blocks \ {key}), order |-> RemoveFirst(c.order, key),
   bytes |-> c.bytes - c.blocks[key]]

\* The eviction loop: left[k] is what k evictions leave.
Evicted(c, size) ==
  LET left[k \in 0 .. Len(c.order)] ==
        IF k = 0 THEN c ELSE Dropped(left[k - 1], Head(left[k - 1].order))
  IN left[Min({k \in 0 .. Len(c.order) :
                 left[k].bytes + size <= Capacity \/ k = Len(c.order)})]

\* HashMap::insert.
WithBlock(b, key, size) ==
  [k \in DOMAIN b \cup {key} |-> IF k = key THEN size ELSE b[k]]

\* Mutant: the block that is replaced keeps its bytes in the count.
InsertBlockMutant(key, size) ==
  LET old == [blocks |-> blocks, order |-> lruOrder, bytes |-> currentBytes]
      room == Evicted(IF key \in DOMAIN blocks THEN [Dropped(old, key) EXCEPT !.bytes = currentBytes]
                      ELSE old, size)
  IN /\ size <= Capacity
     /\ blocks' = WithBlock(room.blocks, key, size)
     /\ currentBytes' = room.bytes + size
     /\ lruOrder' = Append(room.order, key)

\* insert: a block larger than the cache is dropped; a block of the same key
\* makes way first, then the oldest ones.
InsertBlock(key, size) ==
  LET old == [blocks |-> blocks, order |-> lruOrder, bytes |-> currentBytes]
      room == Evicted(IF key \in DOMAIN blocks THEN Dropped(old, key) ELSE old, size)
  IN /\ size <= Capacity
     /\ blocks' = WithBlock(room.blocks, key, size)
     /\ currentBytes' = room.bytes + size
     /\ lruOrder' = Append(room.order, key)

CacheNext ==
  \E key \in BlockKeys : GetBlock(key) \/ \E size \in BlockSizes : InsertBlock(key, size)

-----------------------------------------------------------------------------

\* The bytes of the cached blocks.
BytesOf(b) == UNION {{<<key, i>> : i \in 1 .. b[key]} : key \in DOMAIN b}

\* The count is the bytes in the cache, and the order lists every cached key once.
CountExact ==
  /\ currentBytes = Cardinality(BytesOf(blocks)) /\ currentBytes <= Capacity
  /\ IsInjective(lruOrder) /\ ToSet(lruOrder) = DOMAIN blocks

\* A step evicts only keys older than all it keeps, and none that would still
\* have fitted.
OldestGo ==
  LET gone == {i \in DOMAIN lruOrder : lruOrder[i] \notin DOMAIN blocks'}
      kept == {i \in DOMAIN lruOrder : lruOrder[i] \in DOMAIN blocks' \ {Last(lruOrder')}}
  IN gone # {} => /\ \A i \in gone, j \in kept : i < j
                  /\ currentBytes' + blocks[lruOrder[Max(gone)]] > Capacity

\* Whatever is hit, replaced by a block of another size or evicted, the count
\* stays the bytes in the cache and within capacity_bytes, and only the oldest
\* blocks make way, as many as it takes (BlockCache::get and insert).
CacheExact == [][CountExact' /\ OldestGo]_cacheVars
=============================================================================
