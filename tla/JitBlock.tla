------------------------------- MODULE JitBlock -------------------------------
(***************************************************************************)
(* One block of the JIT allocator (class JitAllocatorBlock of              *)
(* core/jitallocator.cpp): a range of virtual memory cut into granules,    *)
(* with two bit-vectors and a cache of where free granules may be found.   *)
(*                                                                         *)
(* A block is a record.  `used` and `stop` are the sets of bits set in the *)
(* two bit-vectors, `flags` the set of flags set, and `filled` the set of  *)
(* granules whose memory holds the fill pattern (tracked only when the     *)
(* allocator fills unused memory).  Offsets count granules.  Every         *)
(* operator returns the block the C++ method leaves behind.                *)
(*                                                                         *)
(* An operator whose name starts with Wrong is the definition after it     *)
(* with a mistake in it; PROJECT.json pairs it with the property that      *)
(* finds the mistake.                                                      *)
(***************************************************************************)
EXTENDS Integers, FiniteSetsExt

CONSTANT BitWordSize    \* bits in a Support::BitWord

ASSUME BitWordSizeAssumption == BitWordSize \in Nat \ {0}

BlockFlags == {"InitialPadding", "Empty", "Dirty", "Incremental", "LargePages"}

IsEmptyBlock(b)     == "Empty" \in b.flags
IsDirty(b)          == "Dirty" \in b.flags
IsIncremental(b)    == "Incremental" \in b.flags
InitialAreaStart(b) == IF "InitialPadding" \in b.flags THEN 1 ELSE 0
InitialArea(b)      == 0 .. InitialAreaStart(b) - 1
AreaAvailable(b)    == b.area_size - b.area_used

-------------------------------------------------------------------------------
(* Marking granules *)

ClearBlock(b) ==
  LET start == InitialAreaStart(b) IN
  [b EXCEPT !.used                = 0 .. start - 1,
            !.stop                = 0 .. start - 1,
            !.area_used           = start,
            !.largest_unused_area = b.area_size - start,
            !.search_start        = start,
            !.search_end          = b.area_size,
            !.flags               = (@ \cup {"Empty", "Incremental"}) \ {"Dirty"}]

\* The client owns the granules from here on and may write them: none of them
\* is known to hold the fill pattern any more.
MarkAllocatedArea(b, start, end) ==
  LET full == AreaAvailable(b) = end - start IN
  [b EXCEPT !.used                = @ \cup (start .. end - 1),
            !.stop                = @ \cup {end - 1},
            !.filled              = @ \ (start .. end - 1),
            !.area_used           = @ + (end - start),
            !.search_start        = IF full THEN b.area_size
                                    ELSE IF @ = start THEN end ELSE @,
            !.search_end          = IF full THEN 0
                                    ELSE IF @ = end THEN start ELSE @,
            !.largest_unused_area = IF full THEN 0 ELSE @,
            !.flags               = IF full THEN @ \ {"Dirty", "Empty"}
                                    ELSE (@ \cup {"Dirty"}) \ {"Empty"}]

\* The released area ends where the fully used front of an incremental block
\* ends: such a block stays incremental.
AtIncrementalFront(b, end) == IsIncremental(b) /\ b.search_start = end

\* The bits of start .. end - 1 cleared, and the stop bits replaced.
Unmark(b, start, end, stop) ==
  [b EXCEPT !.used = @ \ (start .. end - 1), !.stop = stop, !.area_used = @ - (end - start)]

\* The front of an incremental block moves back by n granules.
MoveFrontBack(b, n) ==
  [b EXCEPT !.search_start = @ - n, !.largest_unused_area = @ + n]

\* The window is not moved down to an area released before it.
WrongWidenWindowStart(b, start, end) ==
  [b EXCEPT !.search_end = IF @ > end THEN @ ELSE end,
            !.flags      = (@ \ {"Incremental"}) \cup {"Dirty"}]

\* The cached largest_unused_area is trusted although the window has grown.
WrongWidenWindowClean(b, start, end) ==
  [b EXCEPT !.search_start = IF @ < start THEN @ ELSE start,
            !.search_end   = IF @ > end THEN @ ELSE end,
            !.flags        = @ \ {"Incremental"}]

\* The search window grows to cover start .. end - 1, whatever is free there.
WidenWindow(b, start, end) ==
  [b EXCEPT !.search_start = IF @ < start THEN @ ELSE start,
            !.search_end   = IF @ > end THEN @ ELSE end,
            !.flags        = (@ \ {"Incremental"}) \cup {"Dirty"}]

\* Nothing but the padding is in use any more.
MakeEmpty(b) ==
  [b EXCEPT !.search_start        = InitialAreaStart(b),
            !.search_end          = b.area_size,
            !.largest_unused_area = b.area_size - InitialAreaStart(b),
            !.flags               = (@ \ {"Dirty", "Incremental"}) \cup {"Empty"}]

\* The area's stop bit is left behind.
WrongReleaseKeepsStop(b, start, end) ==
  LET unmarked == Unmark(b, start, end, b.stop) IN
  IF AtIncrementalFront(b, end) THEN MoveFrontBack(unmarked, end - start)
  ELSE IF unmarked.area_used = InitialAreaStart(b) THEN MakeEmpty(unmarked)
  ELSE WidenWindow(unmarked, start, end)

\* A block counts as empty when one granule beside the padding is still used.
WrongReleaseEmptiesEarly(b, start, end) ==
  LET unmarked == Unmark(b, start, end, b.stop \ {end - 1}) IN
  IF AtIncrementalFront(b, end) THEN MoveFrontBack(unmarked, end - start)
  ELSE IF unmarked.area_used <= InitialAreaStart(b) + 1 THEN MakeEmpty(unmarked)
  ELSE WidenWindow(unmarked, start, end)

MarkReleasedArea(b, start, end) ==
  LET unmarked == Unmark(b, start, end, b.stop \ {end - 1}) IN
  IF AtIncrementalFront(b, end) THEN MoveFrontBack(unmarked, end - start)
  ELSE IF unmarked.area_used = InitialAreaStart(b) THEN MakeEmpty(unmarked)
  ELSE WidenWindow(unmarked, start, end)

\* The sentinel is moved to the first granule given back, not the one before.
WrongShrunkSentinel(b, start, end) ==
  LET unmarked == Unmark(b, start, end, (b.stop \ {end - 1}) \cup {start}) IN
  IF AtIncrementalFront(b, end) THEN MoveFrontBack(unmarked, end - start)
  ELSE WidenWindow(unmarked, start, end)

\* Gives the tail start .. end - 1 of an area back and moves its sentinel to
\* the granule before the tail.
MarkShrunkArea(b, start, end) ==
  LET unmarked == Unmark(b, start, end, (b.stop \ {end - 1}) \cup {start - 1}) IN
  IF AtIncrementalFront(b, end) THEN MoveFrontBack(unmarked, end - start)
  ELSE WidenWindow(unmarked, start, end)

-------------------------------------------------------------------------------
(* Searching for free granules: what alloc() learns from iterating the used *)
(* bit-vector between search_start and search_end with a                    *)
(* BitVectorRangeIterator.  The iterator reads whole bit-words, so it also  *)
(* reports ranges that start at or after search_end in the last word; for   *)
(* those range_end < range_start and the unsigned size wraps to a huge one. *)

WordEnd(n) == ((n + BitWordSize - 1) \div BitWordSize) * BitWordSize

RangeStarts(b) ==
  {i \in b.search_start .. WordEnd(b.search_end) - 1 :
     i \notin b.used /\ (i = b.search_start \/ i - 1 \in b.used)}

\* Where the range that starts at i is reported to end.
RangeEnd(b, i) ==
  LET run == Min({j \in b.used : j > i} \cup {WordEnd(b.search_end)})
  IN  IF run < b.search_end THEN run ELSE b.search_end

\* One granule too few is enough.
WrongRangeFits(b, i, n) == RangeEnd(b, i) < i \/ RangeEnd(b, i) - i + 1 >= n

RangeFits(b, i, n) == RangeEnd(b, i) < i \/ RangeEnd(b, i) - i >= n

FittingStarts(b, n) == {i \in RangeStarts(b) : RangeFits(b, i, n)}

\* The two ways alloc() takes n granules from a block.
FastPath(b, n)  == IsIncremental(b) /\ b.largest_unused_area >= n
Scanned(b, n)   == /\ ~FastPath(b, n)
                   /\ AreaAvailable(b) >= n
                   /\ IsDirty(b) \/ b.largest_unused_area >= n
HasRoom(b, n)   == FastPath(b, n) \/ (Scanned(b, n) /\ FittingStarts(b, n) # {})
AreaIndex(b, n) == IF FastPath(b, n) THEN b.search_start ELSE Min(FittingStarts(b, n))

\* A block that was scanned in vain remembers what the scan found.
PassOver(b, n) ==
  IF Scanned(b, n) /\ RangeStarts(b) # {}
  THEN [b EXCEPT !.search_start        = Min(RangeStarts(b)),
                 !.search_end          = RangeEnd(b, Max(RangeStarts(b))),
                 !.largest_unused_area = Max({RangeEnd(b, i) - i : i \in RangeStarts(b)}),
                 !.flags               = @ \ {"Dirty"}]
  ELSE b

\* largest_unused_area is left alone on the fast path.
WrongPlace(b, n) ==
  LET i == AreaIndex(b, n) IN MarkAllocatedArea(b, i, i + n)

\* The block with the n granules from AreaIndex(b, n) taken.
Place(b, n) ==
  LET i == AreaIndex(b, n)
      c == IF FastPath(b, n) THEN [b EXCEPT !.largest_unused_area = @ - n] ELSE b
  IN  MarkAllocatedArea(c, i, i + n)

\* The bit after the first stop bit at or after `start`: where the area that
\* starts there ends.
StopsFrom(b, start) == {j \in b.stop : j >= start}
AreaEnd(b, start)   == Min(StopsFrom(b, start)) + 1

\* start .. end - 1 is an area of b a client may hold.
IsArea(b, start, end) ==
  InitialAreaStart(b) <= start /\ start < end /\ end <= b.area_size

-------------------------------------------------------------------------------
(* What every block in use satisfies                                        *)

BlockType ==
  [pool : Nat, block_size : Nat, area_size : Nat, flags : SUBSET BlockFlags,
   used : SUBSET Nat, stop : SUBSET Nat, filled : SUBSET Nat, area_used : Nat,
   largest_unused_area : Nat, search_start : Nat, search_end : Nat]

\* Bits and offsets stay inside the bit-vectors; the padding is in use.
InBounds(b) ==
  /\ b \in BlockType
  /\ b.used \cup b.stop \cup b.filled \subseteq 0 .. b.area_size - 1
  /\ InitialArea(b) \subseteq b.used
  /\ b.largest_unused_area <= b.area_size
  /\ b.search_start <= b.area_size /\ b.search_end <= b.area_size

\* area_used counts the used bits, and an empty block has none but its padding.
UsedCounted(b) ==
  /\ b.area_used = Cardinality(b.used)
  /\ IsEmptyBlock(b) => b.used = InitialArea(b)

\* An incremental block is full before search_start and empty after it, and
\* largest_unused_area is the size of what is left.
FrontExact(b) ==
  IsIncremental(b) => /\ b.used = 0 .. b.search_start - 1
                      /\ b.largest_unused_area = b.area_size - b.search_start

\* In a block that is not incremental no granule is free before search_start,
\* and one that is free at or after search_end starts a free tail.
WindowCovers(b) ==
  ~IsIncremental(b) =>
    \A i \in (0 .. b.area_size - 1) \ b.used :
      /\ b.search_start <= i
      /\ b.search_end <= i => b.used \cap (i .. b.area_size - 1) = {}

\* A clean block that is skipped because largest_unused_area is too small has no
\* run of more free granules than that in its search window.
SkipCovers(b) ==
  ~IsIncremental(b) /\ ~IsDirty(b) =>
    \A i \in b.search_start .. b.search_end - 1 :
      \A j \in i + 1 .. b.search_end :
        b.used \cap (i .. j - 1) = {} => j - i <= b.largest_unused_area

BlockInv(b) ==
  InBounds(b) /\ UsedCounted(b) /\ FrontExact(b) /\ WindowCovers(b) /\ SkipCovers(b)
===============================================================================
