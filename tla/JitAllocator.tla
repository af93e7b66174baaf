----------------------------- MODULE JitAllocator -----------------------------
(***************************************************************************)
(* The JIT memory allocator (core/jitallocator.cpp).  It maps blocks of    *)
(* virtual memory, keeps them in pools of increasing granularity, indexes  *)
(* all of them in one tree, and hands out spans of granules.               *)
(*                                                                         *)
(* Every operation below runs under the allocator's lock, from the first   *)
(* read of shared state to the last write, so each is one atomic step and  *)
(* the interleavings of threads are the interleavings of these actions.    *)
(* reset() takes no lock; the header demands that nobody else uses the     *)
(* allocator meanwhile, which an atomic step grants.                       *)
(*                                                                         *)
(* Sizes count base granules (Impl::granularity bytes): pool p cuts its    *)
(* blocks into granules of 2^p of them.                                    *)
(*                                                                         *)
(* As in JitBlock, an operator named Wrong... is the definition after it   *)
(* with a mistake in it, for PROJECT.json's mutants.                       *)
(***************************************************************************)
EXTENDS JitBlock, Sequences

CONSTANTS
  BlockIds,        \* identities a block may have: bounds the blocks alive at once
  NoBlock,         \* the null block pointer
  Options,         \* the JitAllocatorOptions that are set
  PoolCount,       \* pool_count: 1, or 3 with kUseMultiplePools
  BlockSize,       \* Impl::block_size
  MaxBlockSize,    \* kJitAllocatorMaxBlockSize
  LargePageSize,   \* VirtMem::large_page_size(), 0 when there are none
  Requests,        \* sizes the clients ask alloc() and shrink() for
  TruncateSizes,   \* sizes a write callback truncates its span to
  ResetPolicies,   \* the reset policies the clients use
  MaxAllocations   \* bound on allocation_count, which reset() does not reset

AllOptions == {"FillUnusedMemory", "ImmediateRelease", "DisableInitialPadding",
               "UseLargePages", "AlignBlockSizeToLargePage"}

Pools          == 0 .. PoolCount - 1
Granularity(p) == 2 ^ p

\* Block and page sizes are powers of two of at least 64kB, granularities are
\* at most 1kB: a block always fills whole bit-words.
ASSUME ConstantsAssumption ==
  /\ NoBlock \notin BlockIds
  /\ Options \subseteq AllOptions
  /\ PoolCount \in 1 .. 3
  /\ BlockSize \in Nat \ {0} /\ MaxBlockSize \in Nat /\ LargePageSize \in Nat
  /\ \A p \in Pools : BlockSize % (BitWordSize * Granularity(p)) = 0
  /\ LargePageSize % BlockSize = 0
  /\ Requests \subseteq Nat \ {0} /\ TruncateSizes \subseteq Nat
  /\ ResetPolicies \subseteq {"soft", "hard"}
  /\ MaxAllocations \in Nat

VARIABLES
  blk,               \* the mapped blocks: id -> block record
  pools,             \* the pools
  tree,              \* the blocks the RB tree reaches
  allocation_count,  \* Impl::allocation_count
  spans,             \* the spans clients hold (what they were told, not allocator state)
  fault              \* the failed assertion or wild access that stopped the process, or "none"

vars == <<blk, pools, tree, allocation_count, spans, fault>>

HasOption(o) == o \in Options

-------------------------------------------------------------------------------
(* Sizes *)

AreaSizeOf(p, size) == (size + Granularity(p) - 1) \div Granularity(p)

\* The last pool whose granularity divides the size.
SizeToPoolId(size) == Max({p \in Pools : p = 0 \/ size % Granularity(p) = 0})

Padding(p) == IF HasOption("DisableInitialPadding") THEN 0 ELSE Granularity(p)

RoundUp(n, unit) == ((n + unit - 1) \div unit) * unit

IdealBlockSize(p, size) ==
  LET list    == pools[p].blocks
      base    == IF list = << >> THEN BlockSize ELSE blk[list[Len(list)]].block_size
      doubled == IF base < MaxBlockSize THEN 2 * base ELSE base
      needed  == size + Padding(p)
  IN  IF needed > doubled THEN RoundUp(needed, BlockSize) ELSE doubled

TriesLargePages(size) ==
  /\ HasOption("UseLargePages") /\ LargePageSize # 0
  /\ size >= LargePageSize \/ HasOption("AlignBlockSizeToLargePage")

-------------------------------------------------------------------------------
(* Blocks and pools *)

\* A block record before its constructor runs clear_block().
RawBlock(p, size, large) ==
  LET area == AreaSizeOf(p, size) IN
  [pool |-> p, block_size |-> size, area_size |-> area,
   flags |-> (IF HasOption("DisableInitialPadding") THEN {} ELSE {"InitialPadding"})
             \cup (IF large THEN {"LargePages"} ELSE {}),
   filled |-> IF HasOption("FillUnusedMemory") THEN 0 .. area - 1 ELSE {},
   used |-> {}, stop |-> {}, area_used |-> 0, largest_unused_area |-> 0,
   search_start |-> 0, search_end |-> 0]

NewBlock(p, size, large) == ClearBlock(RawBlock(p, size, large))

StatIndex(b) == IF "LargePages" \in b.flags THEN 1 ELSE 0

EmptyPool == [blocks |-> << >>, cursor |-> NoBlock, block_count |-> 0,
              empty_block_count |-> 0,
              total_area_size |-> [i \in 0 .. 1 |-> 0],
              total_area_used |-> [i \in 0 .. 1 |-> 0]]

InsertBlock(pool, id, b) ==
  [pool EXCEPT !.blocks = Append(@, id),
               !.cursor = IF @ = NoBlock THEN id ELSE @,
               !.block_count = @ + 1,
               !.total_area_size[StatIndex(b)] = @ + b.area_size,
               !.total_area_used[StatIndex(b)] = @ + b.area_used]

IndexIn(list, id) == CHOOSE i \in 1 .. Len(list) : list[i] = id

RemoveBlock(pool, id, b) ==
  LET list == pool.blocks
      i    == IndexIn(list, id)
      near == IF i > 1 THEN list[i - 1] ELSE IF i < Len(list) THEN list[i + 1] ELSE NoBlock
  IN [pool EXCEPT !.blocks = SubSeq(list, 1, i - 1) \o SubSeq(list, i + 1, Len(list)),
                  !.cursor = IF @ = id THEN near ELSE @,
                  !.block_count = @ - 1,
                  !.total_area_size[StatIndex(b)] = @ - b.area_size,
                  !.total_area_used[StatIndex(b)] = @ - b.area_used]

\* Every block is charged to the regular pages.
WrongAddUsed(pool, b, n) == [pool EXCEPT !.total_area_used[0] = @ + n]

\* The pool of block b when n more (or -n fewer) of its granules are in use.
AddUsed(pool, b, n) == [pool EXCEPT !.total_area_used[StatIndex(b)] = @ + n]

\* The last granule of the area is not filled.
WrongFill(b, area) ==
  IF HasOption("FillUnusedMemory") THEN [b EXCEPT !.filled = @ \cup (area \ {Max(area)})] ELSE b

\* Granules of a block that hold the fill pattern after a fill of `area`.
Fill(b, area) == IF HasOption("FillUnusedMemory") THEN [b EXCEPT !.filled = @ \cup area] ELSE b

\* The blocks of a pool in the order alloc() visits them: from the cursor
\* around the list.
Visit(pool) ==
  LET n == Len(pool.blocks)
      c == IndexIn(pool.blocks, pool.cursor)
  IN  [k \in 1 .. n |-> pool.blocks[((c + k - 2) % n) + 1]]

-------------------------------------------------------------------------------
(* alloc() *)

Running == fault = "none"

Fail(assertion) ==
  /\ fault' = assertion
  /\ UNCHANGED <<blk, pools, tree, allocation_count, spans>>

\* The first k - 1 visited blocks, scanned in vain for n granules.
PassedOver(order, k, n) ==
  [id \in DOMAIN blk |->
     IF \E j \in 1 .. k - 1 : order[j] = id THEN PassOver(blk[id], n) ELSE blk[id]]

FirstWithRoom(order, k, n) ==
  /\ k \in 1 .. Len(order) /\ HasRoom(blk[order[k]], n)
  /\ \A j \in 1 .. k - 1 : ~HasRoom(blk[order[j]], n)

\* The empty block alloc() takes from stays counted.
WrongPlacedKeepsCount(pool, b, n) == AddUsed(pool, b, n)

\* Every alloc() from a block counts as one from an empty block.
WrongPlacedAlwaysCounts(pool, b, n) == [AddUsed(pool, b, n) EXCEPT !.empty_block_count = @ - 1]

PoolPlaced(pool, b, n) ==
  [AddUsed(pool, b, n) EXCEPT !.empty_block_count = IF IsEmptyBlock(b) THEN @ - 1 ELSE @]

NoneHasRoom(order, n) == \A k \in 1 .. Len(order) : ~HasRoom(blk[order[k]], n)

AllocFromBlock(size) ==
  LET p     == SizeToPoolId(size)
      n     == AreaSizeOf(p, size)
      order == Visit(pools[p])
  IN
  /\ Running
  /\ allocation_count < MaxAllocations
  /\ \E k \in 1 .. Len(order) :
       /\ FirstWithRoom(order, k, n)
       /\ LET id    == order[k]
              b     == blk[id]
              start == AreaIndex(b, n)
          IN IF start + n > b.area_size
             THEN Fail("alloc: offset <= block_size - size")
             ELSE /\ blk' = [PassedOver(order, k, n) EXCEPT ![id] = Place(b, n)]
                  /\ pools' = [pools EXCEPT ![p] = PoolPlaced(@, b, n)]
                  /\ allocation_count' = allocation_count + 1
                  /\ spans' = spans \cup {[block |-> id, start |-> start, end |-> start + n]}
                  /\ UNCHANGED <<tree, fault>>

\* No block has room: a new one is mapped.  Large pages may be refused by the
\* system, in which case regular pages are used.
AllocNewBlock(size) ==
  LET p     == SizeToPoolId(size)
      n     == AreaSizeOf(p, size)
      order == Visit(pools[p])
      ideal == IdealBlockSize(p, size)
  IN
  /\ Running
  /\ allocation_count < MaxAllocations
  /\ NoneHasRoom(order, n)
  /\ \E id \in BlockIds \ DOMAIN blk, large \in BOOLEAN :
       /\ large => TriesLargePages(ideal)
       /\ LET b == NewBlock(p, IF large THEN RoundUp(ideal, LargePageSize) ELSE ideal, large)
              s == InitialAreaStart(b)
          IN /\ blk' = [i \in DOMAIN blk \cup {id} |->
                          IF i = id THEN Place(b, n)
                          ELSE PassedOver(order, Len(order) + 1, n)[i]]
             /\ pools' = [pools EXCEPT ![p] = AddUsed(InsertBlock(@, id, b), b, n)]
             /\ tree' = tree \cup {id}
             /\ spans' = spans \cup {[block |-> id, start |-> s, end |-> s + n]}
  /\ allocation_count' = allocation_count + 1
  /\ UNCHANGED fault

\* The allocation is counted before it is known to succeed.
WrongOutOfMemoryCounted(size) ==
  /\ Running
  /\ allocation_count < MaxAllocations
  /\ NoneHasRoom(Visit(pools[SizeToPoolId(size)]), AreaSizeOf(SizeToPoolId(size), size))
  /\ allocation_count' = allocation_count + 1
  /\ UNCHANGED <<blk, pools, tree, spans, fault>>

\* No block has room and VirtMem or malloc fails: only the caches of the
\* scanned blocks change.
AllocOutOfMemory(size) ==
  LET p == SizeToPoolId(size)
      n == AreaSizeOf(p, size)
      order == Visit(pools[p])
  IN
  /\ Running
  /\ NoneHasRoom(order, n)
  /\ blk' = PassedOver(order, Len(order) + 1, n)
  /\ UNCHANGED <<pools, tree, allocation_count, spans, fault>>

-------------------------------------------------------------------------------
(* release() *)

\* A span whose block is not in the tree is refused (kInvalidState).
Release(s) ==
  /\ Running
  /\ s.block \in tree
  /\ LET id    == s.block
         p     == blk[id].pool
         end   == AreaEnd(blk[id], s.start)
         b     == Fill(MarkReleasedArea(blk[id], s.start, end), s.start .. end - 1)
         pool  == AddUsed(pools[p], b, s.start - end)
     IN IF StopsFrom(blk[id], s.start) = {}
        THEN Fail("release: no stop bit")
        ELSE /\ \/ /\ ~IsEmptyBlock(b)
                   /\ blk' = [blk EXCEPT ![id] = b]
                   /\ pools' = [pools EXCEPT ![p] = pool]
                   /\ UNCHANGED tree
                \/ /\ IsEmptyBlock(b)
                   /\ pool.empty_block_count # 0 \/ HasOption("ImmediateRelease")
                   /\ blk' = [i \in DOMAIN blk \ {id} |-> blk[i]]
                   /\ pools' = [pools EXCEPT ![p] = RemoveBlock(pool, id, b)]
                   /\ tree' = tree \ {id}
                \/ /\ IsEmptyBlock(b)
                   /\ pool.empty_block_count = 0 /\ ~HasOption("ImmediateRelease")
                   /\ blk' = [blk EXCEPT ![id] = b]
                   /\ pools' = [pools EXCEPT ![p] = [pool EXCEPT !.empty_block_count = 1]]
                   /\ UNCHANGED tree
             /\ allocation_count' = allocation_count - 1
             /\ spans' = spans \ {s}
             /\ UNCHANGED fault

-------------------------------------------------------------------------------
(* shrink() and write() with a callback that truncates its span *)

\* JitAllocatorImpl_shrink.  The end of the area is read from the stop
\* bit-vector, the size in the client's span is not trusted.
ShrinkTo(s, size) ==
  LET id  == s.block
      b   == blk[id]
      p   == b.pool
      end == AreaEnd(b, s.start)
      cut == s.start + AreaSizeOf(p, size)
  IN
  /\ Running
  /\ s.start \in b.used
  /\ cut < end
  /\ IF cut = 0
     THEN Fail("mark_shrunk_area: shrunk_area_start != 0")
     ELSE /\ blk' = [blk EXCEPT ![id] = Fill(MarkShrunkArea(b, cut, end), cut .. end - 1)]
          /\ pools' = [pools EXCEPT ![p] = AddUsed(@, b, cut - end)]
          /\ spans' = (spans \ {s}) \cup {[s EXCEPT !.end = cut]}
          /\ UNCHANGED <<tree, allocation_count, fault>>

Shrink(s, size) == size \in Requests /\ ShrinkTo(s, size)

WriteTruncated(s, size) == size \in TruncateSizes /\ ShrinkTo(s, size)

-------------------------------------------------------------------------------
(* reset() *)

\* The bits of the kept block are not cleared.
WrongWipeOutBlock(b) == Fill(b, (0 .. b.area_size - 1) \ b.used)

\* JitAllocatorImpl_wipeOutBlock: the fill runs over the ranges of unused
\* granules.
WipeOutBlock(b) ==
  IF IsEmptyBlock(b) THEN b
  ELSE ClearBlock(Fill(b, (0 .. b.area_size - 1) \ b.used))

\* A soft reset keeps the first block of each pool.
KeptBlocks(p, policy) ==
  LET list == pools[p].blocks IN
  IF policy = "soft" /\ ~HasOption("ImmediateRelease") /\ list # << >> THEN {list[1]} ELSE {}

\* The kept block is not put back into its pool.
WrongPoolAfterReset(p, policy) ==
  [EmptyPool EXCEPT !.empty_block_count = pools[p].empty_block_count]

PoolAfterReset(p, policy) ==
  LET cleared == [EmptyPool EXCEPT !.empty_block_count = pools[p].empty_block_count]
      id      == pools[p].blocks[1]
  IN  IF KeptBlocks(p, policy) = {} THEN cleared
      ELSE [InsertBlock(cleared, id, WipeOutBlock(blk[id])) EXCEPT !.empty_block_count = 1]

\* tree.reset() only forgets the root: a kept block still has the links and the
\* color it had in the old tree, and insert() asserts that it has none.  In a
\* tree of one node there are none; of two, one has a child and the other is
\* red; of more, some may be clean.
StaleNode(kept) ==
  CASE kept = {} \/ Cardinality(tree) = 1 -> {FALSE}
    [] kept # {} /\ Cardinality(tree) = 2 -> {TRUE}
    [] OTHER -> BOOLEAN

Reset(policy) ==
  LET kept == UNION {KeptBlocks(p, policy) : p \in Pools} IN
  /\ Running
  /\ \E stale \in StaleNode(kept) :
       IF stale
       THEN Fail("insert: node must not contain garbage")
       ELSE /\ blk' = [id \in kept |-> WipeOutBlock(blk[id])]
            /\ pools' = [p \in Pools |-> PoolAfterReset(p, policy)]
            /\ tree' = kept
            /\ spans' = {}
            /\ UNCHANGED <<allocation_count, fault>>

-------------------------------------------------------------------------------

Init ==
  /\ blk = << >>
  /\ pools = [p \in Pools |-> EmptyPool]
  /\ tree = {}
  /\ allocation_count = 0
  /\ spans = {}
  /\ fault = "none"

Next ==
  \/ \E size \in Requests : AllocFromBlock(size)
  \/ \E size \in Requests : AllocNewBlock(size)
  \/ \E size \in Requests : AllocOutOfMemory(size)
  \/ \E s \in spans : Release(s)
  \/ \E s \in spans, size \in Requests : Shrink(s, size)
  \/ \E s \in spans, size \in TruncateSizes : WriteTruncated(s, size)
  \/ \E policy \in ResetPolicies : Reset(policy)

Spec == Init /\ [][Next]_vars

-------------------------------------------------------------------------------
(* Properties.  Once an assertion has failed the process is gone: `fault`   *)
(* is set, the rest of the state is what it was before the failing call.    *)

Ids == DOMAIN blk

SpansOf(id) == {s \in spans : s.block = id}

\* Type invariant.
TypeOK ==
  /\ Ids \subseteq BlockIds
  /\ \A id \in Ids :
       LET b == blk[id] IN
       /\ b.pool \in Pools /\ b.block_size \in Nat /\ b.area_size \in Nat
       /\ b.flags \subseteq BlockFlags
       /\ b.used \cup b.stop \cup b.filled \subseteq 0 .. b.area_size - 1
       /\ {b.area_used, b.largest_unused_area, b.search_start, b.search_end}
             \subseteq 0 .. b.area_size
  /\ \A p \in Pools :
       /\ pools[p].blocks \in Seq(Ids)
       /\ pools[p].cursor \in Ids \cup {NoBlock}
       /\ pools[p].empty_block_count \in 0 .. 1
  /\ tree \subseteq Ids
  /\ allocation_count \in Int
  /\ \A s \in spans : s.block \in Ids /\ s.start \in Nat /\ s.end \in Nat

\* No two clients are ever given the same granule, and no client is given a
\* granule outside its block or the initial padding: alloc() took every
\* decision from caches that release() and shrink() keep up to date.
SpansDisjoint ==
  /\ \A s \in spans :
       /\ s.block \in Ids
       /\ InitialAreaStart(blk[s.block]) <= s.start
       /\ s.start < s.end /\ s.end <= blk[s.block].area_size
  /\ \A s, t \in spans :
       s # t /\ s.block = t.block => s.end <= t.start \/ t.end <= s.start

\* The two bit-vectors say exactly what the clients were told: a granule is
\* used iff it is padding or in a span, and the stop bits are the last granules
\* of the spans, so release(), shrink() and query() recover every span.
BitsMatchSpans ==
  \A id \in Ids :
    LET b == blk[id] IN
    /\ b.used = InitialArea(b) \cup UNION {s.start .. s.end - 1 : s \in SpansOf(id)}
    /\ b.stop = InitialArea(b) \cup {s.end - 1 : s \in SpansOf(id)}

\* The blocks a pool counts in slot i of its statistics, and what their granules
\* and their used granules add up to.
CountedIn(p, i) == {id \in Ids : blk[id].pool = p /\ StatIndex(blk[id]) = i}
SizesOf(ids)    == MapThenSumSet(LAMBDA id : blk[id].area_size, ids)
UsesOf(ids)     == MapThenSumSet(LAMBDA id : blk[id].area_used, ids)

\* The counters of blocks and of reserved and used granules that statistics() is
\* computed from agree with the bit-vectors and the block lists after any mix of
\* calls.  (The overhead it reports is not modelled.)
CountersExact ==
  /\ \A id \in Ids : blk[id].area_used = Cardinality(blk[id].used)
  /\ \A p \in Pools :
       /\ pools[p].block_count = Len(pools[p].blocks)
       /\ \A i \in 0 .. 1 : /\ pools[p].total_area_size[i] = SizesOf(CountedIn(p, i))
                            /\ pools[p].total_area_used[i] = UsesOf(CountedIn(p, i))

\* An incremental block is full before search_start and empty after it, and
\* caches the size of what is left: alloc() takes granules there unseen.
IncrementalFront == \A id \in Ids : FrontExact(blk[id])

\* In a block that is not incremental no granule is free before search_start,
\* and a granule that is free at or after search_end (where alloc() does not
\* look, except at the end of the last bit-word) starts a free tail.
SearchWindow == \A id \in Ids : WindowCovers(blk[id])

\* A clean block that is skipped because largest_unused_area is too small
\* really has no run of that many free granules in its search window; of the free
\* tail that may lie behind the window see LargestUnusedIsLargest.
SkipIsSound == \A id \in Ids : SkipCovers(blk[id])

\* The tree that release() and query() look blocks up in, the block lists that
\* alloc() walks and the mapped blocks are the same blocks; a pool's cursor is
\* one of its blocks, unless it has none.
IndexAgrees ==
  /\ tree = Ids
  /\ \A p \in Pools :
       LET list == pools[p].blocks IN
       /\ {list[i] : i \in 1 .. Len(list)} = {id \in Ids : blk[id].pool = p}
       /\ Len(list) = Cardinality({id \in Ids : blk[id].pool = p})
       /\ IF list = << >> THEN pools[p].cursor = NoBlock
          ELSE \E i \in 1 .. Len(list) : pools[p].cursor = list[i]

EmptyIn(p) == {id \in Ids : blk[id].pool = p /\ IsEmptyBlock(blk[id])}

\* Count of empty blocks (either 0 or 1 as we won't keep more blocks empty).
EmptyCountExact ==
  \A p \in Pools : pools[p].empty_block_count = Cardinality(EmptyIn(p))

\* A block flagged empty, which release() unmaps, holds no span.
EmptyHoldsNoSpan ==
  \A id \in Ids : IsEmptyBlock(blk[id]) => SpansOf(id) = {}

\* statistics().allocation_count() is the number of active allocations.
AllocationCountExact == allocation_count = Cardinality(spans)

\* With kFillUnusedMemory, memory nobody holds carries the fill pattern.
UnusedFilled ==
  HasOption("FillUnusedMemory") =>
    \A id \in Ids : (0 .. blk[id].area_size - 1) \ blk[id].used \subseteq blk[id].filled

-------------------------------------------------------------------------------
(* What comments of the code say and the code does not do; see README.      *)

\* "The largest unused continuous area in the bit-vector", which alloc() skips a
\* block by unless it is dirty: no free area of the block is larger, wherever it
\* lies.
LargestUnusedIsLargest ==
  \A id \in Ids :
    LET b == blk[id]
    IN  ~IsDirty(b) =>
          \A i \in 0 .. b.area_size - 1 : \A j \in i + 1 .. b.area_size :
            b.used \cap (i .. j - 1) = {} => j - i <= b.largest_unused_area

\* ASMJIT_ASSERT(offset <= block->block_size() - size): what alloc() hands out
\* ends inside the block.
AllocStaysInBlock == fault # "alloc: offset <= block_size - size"

\* Node to insert must not contain garbage.
InsertedNodesAreClean == fault # "insert: node must not contain garbage"

-------------------------------------------------------------------------------
(* Refinement: the spans the bit-vectors describe behave as SpanAllocator's *)
(* spans do.                                                                *)

SpanStarts(b) == {i \in b.used \ InitialArea(b) :
                    i = InitialAreaStart(b) \/ i - 1 \notin b.used \/ i - 1 \in b.stop}

DecodedSpans ==
  UNION {{[block |-> id, start |-> i, end |-> AreaEnd(blk[id], i)] : i \in SpanStarts(blk[id])}
         : id \in Ids}

Promise == INSTANCE SpanAllocator WITH
  RegionIds <- BlockIds,
  region    <- [id \in Ids |-> blk[id].area_size],
  held      <- DecodedSpans

\* Every step of the allocator is a step its clients were promised, read from
\* the bit-vectors alone: release() frees one whole span, shrink() cuts one,
\* alloc() adds one clear of all others, no block goes away under a span.
ImplementsSpanAllocator == Promise!Spec

-------------------------------------------------------------------------------
(* The inductive invariant behind the properties above; JitAllocator_proofs *)
(* proves it for every value of the constants.                              *)

PoolType ==
  [blocks : Seq(BlockIds), cursor : BlockIds \cup {NoBlock}, block_count : Int,
   empty_block_count : 0 .. 1, total_area_size : [0 .. 1 -> Int],
   total_area_used : [0 .. 1 -> Int]]

StateTypes ==
  /\ Ids \subseteq BlockIds
  /\ blk \in [Ids -> BlockType]
  /\ pools \in [Pools -> PoolType]
  /\ tree = Ids
  /\ allocation_count \in Int
  /\ spans \subseteq [block : BlockIds, start : Nat, end : Nat]

\* A pool lists each of its blocks once and no other, and its cursor is one.
IsListOf(pool, ids) ==
  /\ \A i \in 1 .. Len(pool.blocks) : pool.blocks[i] \in ids
  /\ \A id \in ids : \E i \in 1 .. Len(pool.blocks) : pool.blocks[i] = id
  /\ \A i, j \in 1 .. Len(pool.blocks) : pool.blocks[i] = pool.blocks[j] => i = j
  /\ IF Len(pool.blocks) = 0 THEN pool.cursor = NoBlock ELSE pool.cursor \in ids

IdsOf(p) == {id \in Ids : blk[id].pool = p}

PoolLists == \A p \in Pools : IsListOf(pools[p], IdsOf(p))

\* A pool has at most one empty block, and counts it.
OneEmptyBlock ==
  \A p \in Pools : \A id \in EmptyIn(p) :
    pools[p].empty_block_count = 1 /\ \A other \in EmptyIn(p) : other = id

\* `held` is the set of spans that the bits of block b describe.
HoldsSpans(b, held) ==
  /\ b.used = InitialArea(b) \cup UNION {s.start .. s.end - 1 : s \in held}
  /\ b.stop = InitialArea(b) \cup {s.end - 1 : s \in held}
  /\ \A s \in held : IsArea(b, s.start, s.end)
  /\ \A s, t \in held : s # t => s.end <= t.start \/ t.end <= s.start

Blocks ==
  \A id \in Ids : /\ blk[id].pool \in Pools
                  /\ BlockInv(blk[id])
                  /\ HoldsSpans(blk[id], SpansOf(id))

\* What alloc(), release(), shrink() and reset() keep true together: the blocks
\* are listed, and in each of them the bits describe the spans and the caches
\* describe the bits.
IInv ==
  /\ StateTypes /\ PoolLists /\ OneEmptyBlock /\ Blocks
  /\ \A s \in spans : s.block \in Ids

===============================================================================
