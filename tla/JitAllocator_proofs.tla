-------------------------- MODULE JitAllocator_proofs --------------------------
(***************************************************************************)
(* Theorems about the JIT allocator, for every set of block identities,    *)
(* every block size, pool count and option, and every mix of calls.        *)
(*                                                                         *)
(* The first half says what each operator of JitBlock does to one block    *)
(* that satisfies BlockInv, whatever the size of the block, of the         *)
(* granules and of the bit-words; the second half is about the allocator   *)
(* as a whole.                                                             *)
(*                                                                         *)
(* The theorems assume that no write callback truncates its span to zero:  *)
(* the code then leaves a span of no granules and a stray stop bit behind  *)
(* (see the README, "Other disagreements").                                *)
(***************************************************************************)
EXTENDS JitAllocator, NatSetTheorems, SequenceTheorems

-------------------------------------------------------------------------------
(* Counting used bits *)

\* An area has as many granules as its bounds are apart.
LEMMA AreaCount ==
  ASSUME NEW start \in Nat, NEW end \in Nat, start <= end
  PROVE  IsFiniteSet(start .. end - 1) /\ Cardinality(start .. end - 1) = end - start
<1>1. start \in Int /\ end - 1 \in Int
  OBVIOUS
<1>2. IsFiniteSet(start .. end - 1)
  BY <1>1, FS_Interval
<1>3. Cardinality(start .. end - 1) = IF start > end - 1 THEN 0 ELSE (end - 1) - start + 1
  BY <1>1, FS_Interval
<1> QED
  BY <1>2, <1>3

\* The used bits of a block are finitely many; all of them are set when they
\* are as many as the block has granules, and none but the padding is when
\* they are as many as the padding has.
LEMMA UsedIsFinite ==
  ASSUME NEW b, InBounds(b)
  PROVE  /\ IsFiniteSet(b.used)
         /\ Cardinality(b.used) = b.area_size => b.used = 0 .. b.area_size - 1
         /\ Cardinality(b.used) = InitialAreaStart(b) => b.used = InitialArea(b)
<1>1. b.area_size \in Nat /\ b.used \in SUBSET (0 .. b.area_size - 1)
  BY DEF InBounds, BlockType
<1>2. IsFiniteSet(0 .. b.area_size - 1) /\ Cardinality(0 .. b.area_size - 1) = b.area_size
  BY <1>1, AreaCount
<1>3. IsFiniteSet(b.used)
  BY <1>1, <1>2, FS_Subset
<1>4. Cardinality(b.used) = b.area_size => b.used = 0 .. b.area_size - 1
  BY <1>1, <1>2, FS_Subset
<1>5. InitialAreaStart(b) \in Nat
  BY DEF InitialAreaStart
<1>6. Cardinality(InitialArea(b)) = InitialAreaStart(b)
  BY <1>5, AreaCount DEF InitialArea
<1>7. InitialArea(b) \in SUBSET b.used
  BY DEF InBounds
<1>8. Cardinality(b.used) = InitialAreaStart(b) => b.used = InitialArea(b)
  BY <1>3, <1>6, <1>7, FS_Subset
<1> QED
  BY <1>3, <1>4, <1>8

\* Setting the bits of an area none of whose bits is set adds its size to
\* their number.
LEMMA CountSet ==
  ASSUME NEW S, IsFiniteSet(S), NEW start \in Nat, NEW end \in Nat, start <= end,
         S \cap (start .. end - 1) = {}
  PROVE  Cardinality(S \cup (start .. end - 1)) = Cardinality(S) + (end - start)
<1> DEFINE A == start .. end - 1
<1>1. IsFiniteSet(A) /\ Cardinality(A) = end - start
  BY AreaCount
<1>2. Cardinality(S \cap A) = 0
  BY FS_EmptySet
<1>3. Cardinality(S) \in Nat
  BY FS_CardinalityType
<1> HIDE DEF A
<1>4. Cardinality(S \cup A) = Cardinality(S) + Cardinality(A) - Cardinality(S \cap A)
  BY <1>1, FS_Union
<1>5. Cardinality(S \cup A) = Cardinality(S) + (end - start)
  BY <1>1, <1>2, <1>3, <1>4
<1> QED
  BY <1>5 DEF A

\* Clearing the bits of an area all of whose bits are set takes its size off.
LEMMA CountClear ==
  ASSUME NEW S, IsFiniteSet(S), NEW start \in Nat, NEW end \in Nat, start <= end,
         start .. end - 1 \subseteq S
  PROVE  Cardinality(S \ (start .. end - 1)) = Cardinality(S) - (end - start)
<1> DEFINE A == start .. end - 1
<1>1. Cardinality(A) = end - start
  BY AreaCount
<1>2. S \cap A = A
  OBVIOUS
<1> HIDE DEF A
<1>3. Cardinality(S \ A) = Cardinality(S) - Cardinality(S \cap A)
  BY FS_Difference
<1>4. Cardinality(S \ A) = Cardinality(S) - (end - start)
  BY <1>1, <1>2, <1>3
<1> QED
  BY <1>4 DEF A

\* In an incremental block area_used is search_start.
LEMMA IncrementalCount ==
  ASSUME NEW b, BlockInv(b), IsIncremental(b)
  PROVE  b.area_used = b.search_start
<1>1. b.used = 0 .. b.search_start - 1 /\ b.search_start \in Nat
  BY DEF BlockInv, FrontExact, InBounds, BlockType
<1>2. Cardinality(0 .. b.search_start - 1) = b.search_start
  BY <1>1, AreaCount
<1> QED
  BY <1>1, <1>2 DEF BlockInv, UsedCounted

-------------------------------------------------------------------------------
(* Marking granules *)

\* The parts of a block an operation on its areas leaves alone.
SameShape(b, c) ==
  /\ c.pool = b.pool /\ c.block_size = b.block_size /\ c.area_size = b.area_size
  /\ "InitialPadding" \in c.flags <=> "InitialPadding" \in b.flags
  /\ "LargePages" \in c.flags <=> "LargePages" \in b.flags

\* b with every field an operation on areas may change.
Updated(b, used, stop, filled, area_used, largest, search_start, search_end, flags) ==
  [b EXCEPT !.used = used, !.stop = stop, !.filled = filled, !.area_used = area_used,
            !.largest_unused_area = largest, !.search_start = search_start,
            !.search_end = search_end, !.flags = flags]

LEMMA UpdatedFields ==
  ASSUME NEW b \in BlockType,
         NEW used \in SUBSET Nat, NEW stop \in SUBSET Nat, NEW filled \in SUBSET Nat,
         NEW area_used \in Nat, NEW largest \in Nat,
         NEW search_start \in Nat, NEW search_end \in Nat, NEW flags \in SUBSET BlockFlags
  PROVE  LET c == Updated(b, used, stop, filled, area_used, largest,
                          search_start, search_end, flags) IN
         /\ c \in BlockType
         /\ c.pool = b.pool /\ c.block_size = b.block_size /\ c.area_size = b.area_size
         /\ c.used = used /\ c.stop = stop /\ c.filled = filled
         /\ c.area_used = area_used /\ c.largest_unused_area = largest
         /\ c.search_start = search_start /\ c.search_end = search_end
         /\ c.flags = flags
  BY DEF Updated, BlockType

\* The three blocks a cleared area can leave behind.
FrontBack(b, start, end, stop) ==
  Updated(b, b.used \ (start .. end - 1), stop, b.filled, b.area_used - (end - start),
          b.largest_unused_area + (end - start),
          b.search_start - (end - start), b.search_end, b.flags)

Widened(b, start, end, stop) ==
  Updated(b, b.used \ (start .. end - 1), stop, b.filled, b.area_used - (end - start),
          b.largest_unused_area,
          IF b.search_start < start THEN b.search_start ELSE start,
          IF b.search_end > end THEN b.search_end ELSE end,
          (b.flags \ {"Incremental"}) \cup {"Dirty"})

Emptied(b, start, end) ==
  Updated(b, b.used \ (start .. end - 1), b.stop \ {end - 1}, b.filled,
          b.area_used - (end - start),
          b.area_size - InitialAreaStart(b), InitialAreaStart(b), b.area_size,
          (b.flags \ {"Dirty", "Incremental"}) \cup {"Empty"})

\* mark_released_area() and mark_shrunk_area() leave one of them.
LEMMA ReleasedCases ==
  ASSUME NEW b \in BlockType, NEW start \in Nat, NEW end \in Nat
  PROVE  LET c       == MarkReleasedArea(b, start, end)
             emptied == b.area_used - (end - start) = InitialAreaStart(b)
         IN /\ AtIncrementalFront(b, end) => c = FrontBack(b, start, end, b.stop \ {end - 1})
            /\ ~AtIncrementalFront(b, end) /\ emptied => c = Emptied(b, start, end)
            /\ ~AtIncrementalFront(b, end) /\ ~emptied =>
                 c = Widened(b, start, end, b.stop \ {end - 1})
<1> DEFINE u == Unmark(b, start, end, b.stop \ {end - 1})
<1>1. u.area_used = b.area_used - (end - start) /\ InitialAreaStart(u) = InitialAreaStart(b)
  BY DEF Unmark, InitialAreaStart, BlockType
<1>2. /\ MoveFrontBack(u, end - start) = FrontBack(b, start, end, b.stop \ {end - 1})
      /\ WidenWindow(u, start, end) = Widened(b, start, end, b.stop \ {end - 1})
  <2>1. MoveFrontBack(u, end - start) = FrontBack(b, start, end, b.stop \ {end - 1})
    BY DEF Unmark, MoveFrontBack, FrontBack, Updated, BlockType
  <2>2. WidenWindow(u, start, end) = Widened(b, start, end, b.stop \ {end - 1})
    BY ZenonT(60) DEF Unmark, WidenWindow, Widened, Updated, BlockType
  <2> QED
    BY <2>1, <2>2
<1>3. MakeEmpty(u) = Emptied(b, start, end)
  BY <1>1 DEF Unmark, MakeEmpty, Emptied, Updated, BlockType
<1> QED
  BY <1>1, <1>2, <1>3 DEF MarkReleasedArea

LEMMA ShrunkCases ==
  ASSUME NEW b \in BlockType, NEW start \in Nat, NEW end \in Nat
  PROVE  LET c    == MarkShrunkArea(b, start, end)
             stop == (b.stop \ {end - 1}) \cup {start - 1}
         IN /\ AtIncrementalFront(b, end) => c = FrontBack(b, start, end, stop)
            /\ ~AtIncrementalFront(b, end) => c = Widened(b, start, end, stop)
<1> DEFINE stop == (b.stop \ {end - 1}) \cup {start - 1}
           u == Unmark(b, start, end, stop)
<1>1. MoveFrontBack(u, end - start) = FrontBack(b, start, end, stop)
  BY DEF Unmark, MoveFrontBack, FrontBack, Updated, BlockType
<1>2. WidenWindow(u, start, end) = Widened(b, start, end, stop)
  BY ZenonT(60) DEF Unmark, WidenWindow, Widened, Updated, BlockType
<1> QED
  BY <1>1, <1>2 DEF MarkShrunkArea

\* c is b with the bits of start .. end - 1 cleared and the stop bits replaced.
IsCleared(b, c, start, end, stop) ==
  /\ BlockInv(c) /\ SameShape(b, c)
  /\ c.used = b.used \ (start .. end - 1) /\ c.stop = stop /\ c.filled = b.filled
  /\ c.area_used = b.area_used - (end - start)

\* What is known when the bits of an area are cleared.
ClearedFacts(b, start, end) ==
  LET used == b.used \ (start .. end - 1)
      left == b.area_used - (end - start)
  IN /\ b \in BlockType /\ InitialAreaStart(b) \in 0 .. 1
     /\ left \in Nat /\ left = Cardinality(used)
     /\ InitialArea(b) \subseteq used /\ used \subseteq 0 .. b.area_size - 1
     /\ used \in SUBSET Nat /\ b.filled \in SUBSET Nat
     /\ b.stop \subseteq 0 .. b.area_size - 1 /\ b.filled \subseteq 0 .. b.area_size - 1
     /\ b.area_size \in Nat /\ b.search_start \in Nat /\ b.search_end \in Nat
     /\ b.largest_unused_area \in Nat /\ b.flags \in SUBSET BlockFlags
     /\ b.search_start <= b.area_size /\ b.search_end <= b.area_size
     /\ b.largest_unused_area <= b.area_size
     /\ InitialAreaStart(b) <= start /\ start < end /\ end <= b.area_size
     /\ ~IsEmptyBlock(b)

LEMMA AreaCleared ==
  ASSUME NEW b, BlockInv(b), NEW start \in Nat, NEW end \in Nat,
         IsArea(b, start, end), start .. end - 1 \subseteq b.used
  PROVE  ClearedFacts(b, start, end)
<1> DEFINE used    == b.used \ (start .. end - 1)
           left    == b.area_used - (end - start)
           initial == InitialAreaStart(b)
<1>1. b \in BlockType /\ InBounds(b) /\ initial \in 0 .. 1
  BY DEF BlockInv, InBounds, InitialAreaStart
<1>2. left \in Nat /\ left = Cardinality(used)
  <2>1. IsFiniteSet(b.used)
    BY <1>1, UsedIsFinite
  <2>2. Cardinality(used) = Cardinality(b.used) - (end - start)
    BY <2>1, CountClear DEF IsArea
  <2>3. IsFiniteSet(used)
    BY <2>1, FS_Difference
  <2> QED
    BY <2>2, <2>3, FS_CardinalityType DEF BlockInv, UsedCounted
<1>3. /\ InitialArea(b) \subseteq used /\ used \subseteq 0 .. b.area_size - 1
      /\ used \in SUBSET Nat /\ b.filled \in SUBSET Nat
      /\ b.stop \subseteq 0 .. b.area_size - 1 /\ b.filled \subseteq 0 .. b.area_size - 1
  BY <1>1 DEF InBounds, InitialArea, IsArea, BlockType
<1>4. /\ b.area_size \in Nat /\ b.search_start \in Nat /\ b.search_end \in Nat
      /\ b.largest_unused_area \in Nat /\ b.flags \in SUBSET BlockFlags
      /\ b.search_start <= b.area_size /\ b.search_end <= b.area_size
      /\ b.largest_unused_area <= b.area_size
      /\ initial <= start /\ start < end /\ end <= b.area_size
  BY <1>1 DEF InBounds, BlockType, IsArea
<1>5. ~IsEmptyBlock(b)
  <2>1. start \in b.used /\ start \notin InitialArea(b)
    BY <1>1, <1>4 DEF InitialArea
  <2> QED
    BY <2>1 DEF BlockInv, UsedCounted
<1> HIDE DEF used, left
<1> QED
  BY <1>1, <1>2, <1>3, <1>4, <1>5 DEF used, left, ClearedFacts

\* Clearing the end of the used front of an incremental block moves the front.
LEMMA FrontMovedBack ==
  ASSUME NEW b, BlockInv(b), NEW start \in Nat, NEW end \in Nat,
         IsArea(b, start, end), start .. end - 1 \subseteq b.used,
         NEW stop \in SUBSET (0 .. b.area_size - 1),
         AtIncrementalFront(b, end)
  PROVE  /\ IsCleared(b, FrontBack(b, start, end, stop), start, end, stop)
         /\ FrontBack(b, start, end, stop).flags = b.flags
<1> DEFINE used    == b.used \ (start .. end - 1)
           left    == b.area_used - (end - start)
           initial == InitialAreaStart(b)
<1> DEFINE c == Updated(b, used, stop, b.filled, left, b.largest_unused_area + (end - start),
                        b.search_start - (end - start), b.search_end, b.flags)
<1>0. /\ b \in BlockType /\ initial \in 0 .. 1
      /\ left \in Nat /\ left = Cardinality(used)
      /\ InitialArea(b) \subseteq used /\ used \subseteq 0 .. b.area_size - 1
      /\ used \in SUBSET Nat /\ b.filled \in SUBSET Nat
      /\ b.filled \subseteq 0 .. b.area_size - 1
      /\ b.area_size \in Nat /\ b.search_start \in Nat /\ b.search_end \in Nat
      /\ b.largest_unused_area \in Nat /\ b.flags \in SUBSET BlockFlags
      /\ b.search_start <= b.area_size /\ b.search_end <= b.area_size
      /\ b.largest_unused_area <= b.area_size
      /\ initial <= start /\ start < end /\ end <= b.area_size
      /\ ~IsEmptyBlock(b)
  BY AreaCleared DEF ClearedFacts
<1>s. stop \in SUBSET Nat
  BY <1>0
<1>1. /\ b.search_start = end /\ b.used = 0 .. end - 1 /\ IsIncremental(b)
      /\ b.largest_unused_area = b.area_size - end
  BY DEF AtIncrementalFront, BlockInv, FrontExact
<1>2. c = Updated(b, used, stop, b.filled, left, b.area_size - start, start,
                  b.search_end, b.flags)
  <2>1. /\ b.largest_unused_area + (end - start) = b.area_size - start
        /\ b.search_start - (end - start) = start
    BY SMTT(30), <1>0, <1>1
  <2> QED
    BY <2>1
<1>3. used = 0 .. start - 1
  BY <1>0, <1>1
<1> HIDE DEF used, left, c
<1>4. /\ c \in BlockType /\ c.area_size = b.area_size /\ c.flags = b.flags
      /\ c.used = used /\ c.stop = stop /\ c.filled = b.filled /\ c.area_used = left
      /\ c.largest_unused_area = b.area_size - start
      /\ c.search_start = start /\ c.search_end = b.search_end
      /\ c.pool = b.pool /\ c.block_size = b.block_size
  BY <1>0, <1>s, <1>2, UpdatedFields
<1>5. SameShape(b, c) /\ InitialArea(c) = InitialArea(b)
  BY <1>4 DEF SameShape, InitialArea, InitialAreaStart
<1>6. InBounds(c)
  <2>1. c.used \subseteq 0 .. c.area_size - 1 /\ c.filled \subseteq 0 .. c.area_size - 1
    BY <1>0, <1>4
  <2>2. c.stop \subseteq 0 .. c.area_size - 1
    BY <1>4
  <2>3. InitialArea(c) \subseteq c.used
    BY <1>0, <1>4, <1>5
  <2>4. c.largest_unused_area <= c.area_size /\ c.search_start <= c.area_size
    BY <1>0, <1>4
  <2>5. c.search_end <= c.area_size
    BY <1>0, <1>4
  <2> QED
    BY <1>4, <2>1, <2>2, <2>3, <2>4, <2>5 DEF InBounds
<1>7. UsedCounted(c) /\ FrontExact(c) /\ WindowCovers(c)
  BY <1>0, <1>1, <1>3, <1>4
     DEF UsedCounted, FrontExact, WindowCovers, IsIncremental, IsEmptyBlock
<1>8. SkipCovers(c)
  BY <1>1, <1>4 DEF SkipCovers, IsIncremental
<1> QED
  BY <1>4, <1>5, <1>6, <1>7, <1>8 DEF BlockInv, IsCleared, FrontBack, used, left, c

\* Clearing an area and widening the search window to hold it leaves no free
\* granule out of the window.
LEMMA WindowWidened ==
  ASSUME NEW b, BlockInv(b), NEW start \in Nat, NEW end \in Nat,
         IsArea(b, start, end), start .. end - 1 \subseteq b.used,
         NEW stop \in SUBSET (0 .. b.area_size - 1)
  PROVE  /\ IsCleared(b, Widened(b, start, end, stop), start, end, stop)
         /\ ~IsEmptyBlock(Widened(b, start, end, stop))
<1> DEFINE used    == b.used \ (start .. end - 1)
           left    == b.area_used - (end - start)
           initial == InitialAreaStart(b)
<1> DEFINE ss    == IF b.search_start < start THEN b.search_start ELSE start
           se    == IF b.search_end > end THEN b.search_end ELSE end
           flags == (b.flags \ {"Incremental"}) \cup {"Dirty"}
           c     == Updated(b, used, stop, b.filled, left, b.largest_unused_area, ss, se, flags)
<1>0. /\ b \in BlockType /\ initial \in 0 .. 1
      /\ left \in Nat /\ left = Cardinality(used)
      /\ InitialArea(b) \subseteq used /\ used \subseteq 0 .. b.area_size - 1
      /\ used \in SUBSET Nat /\ b.filled \in SUBSET Nat
      /\ b.filled \subseteq 0 .. b.area_size - 1
      /\ b.area_size \in Nat /\ b.search_start \in Nat /\ b.search_end \in Nat
      /\ b.largest_unused_area \in Nat /\ b.flags \in SUBSET BlockFlags
      /\ b.search_start <= b.area_size /\ b.search_end <= b.area_size
      /\ b.largest_unused_area <= b.area_size
      /\ initial <= start /\ start < end /\ end <= b.area_size
      /\ ~IsEmptyBlock(b)
  BY AreaCleared DEF ClearedFacts
<1>s. stop \in SUBSET Nat
  BY <1>0
<1>1. /\ flags \in SUBSET BlockFlags /\ ss \in Nat /\ se \in Nat
      /\ ss <= start /\ ss <= b.search_start /\ end <= se /\ b.search_end <= se
      /\ ss <= b.area_size /\ se <= b.area_size
  BY <1>0 DEF BlockFlags
<1>2. \A i \in (0 .. b.area_size - 1) \ used :
        /\ ss <= i
        /\ se <= i => b.used \cap (i .. b.area_size - 1) = {}
  <2> SUFFICES ASSUME NEW i \in (0 .. b.area_size - 1) \ used
               PROVE  /\ ss <= i
                      /\ se <= i => b.used \cap (i .. b.area_size - 1) = {}
    OBVIOUS
  <2>1. CASE i \in start .. end - 1
    BY <1>0, <1>1, <2>1
  <2>2. CASE i \notin start .. end - 1
    <3>1. i \in (0 .. b.area_size - 1) \ b.used
      BY <2>2
    <3>2. CASE IsIncremental(b)
      BY SMTT(30), <1>0, <1>1, <3>1, <3>2 DEF BlockInv, FrontExact
    <3>3. CASE ~IsIncremental(b)
      BY <1>0, <1>1, <3>1, <3>3 DEF BlockInv, WindowCovers
    <3> QED
      BY <3>2, <3>3
  <2> QED
    BY <2>1, <2>2
<1>3. used \subseteq b.used
  OBVIOUS
<1> HIDE DEF used, left, c, ss, se
<1>4. /\ c \in BlockType /\ c.area_size = b.area_size /\ c.flags = flags
      /\ c.used = used /\ c.stop = stop /\ c.filled = b.filled /\ c.area_used = left
      /\ c.largest_unused_area = b.largest_unused_area
      /\ c.search_start = ss /\ c.search_end = se
      /\ c.pool = b.pool /\ c.block_size = b.block_size
  BY <1>0, <1>s, <1>1, UpdatedFields DEF c
<1>5. SameShape(b, c) /\ InitialArea(c) = InitialArea(b)
  BY <1>4 DEF SameShape, InitialArea, InitialAreaStart
<1>6. InBounds(c)
  BY <1>0, <1>1, <1>4, <1>5 DEF InBounds
<1>7. UsedCounted(c) /\ FrontExact(c)
  BY <1>0, <1>4 DEF UsedCounted, FrontExact, IsIncremental, IsEmptyBlock
<1>8. WindowCovers(c)
  BY <1>2, <1>3, <1>4 DEF WindowCovers
<1>9. ~IsEmptyBlock(c)
  BY <1>0, <1>4 DEF IsEmptyBlock
<1>10. SkipCovers(c)
  BY <1>4 DEF SkipCovers, IsDirty
<1> QED
  BY <1>4, <1>5, <1>6, <1>7, <1>8, <1>9, <1>10
     DEF BlockInv, IsCleared, Widened, used, left, c, ss, se

\* Clearing the last area in use leaves an empty block.
LEMMA EmptiedInv ==
  ASSUME NEW b, BlockInv(b), NEW start \in Nat, NEW end \in Nat,
         IsArea(b, start, end), start .. end - 1 \subseteq b.used,
         b.area_used - (end - start) = InitialAreaStart(b)
  PROVE  IsCleared(b, Emptied(b, start, end), start, end, b.stop \ {end - 1})
<1> DEFINE used    == b.used \ (start .. end - 1)
           stop    == b.stop \ {end - 1}
           left    == b.area_used - (end - start)
           initial == InitialAreaStart(b)
           c       == Emptied(b, start, end)
<1>0. /\ b \in BlockType /\ initial \in 0 .. 1
      /\ left \in Nat /\ left = Cardinality(used)
      /\ InitialArea(b) \subseteq used /\ used \subseteq 0 .. b.area_size - 1
      /\ used \in SUBSET Nat /\ b.filled \in SUBSET Nat
      /\ b.filled \subseteq 0 .. b.area_size - 1
      /\ b.area_size \in Nat /\ b.search_start \in Nat /\ b.search_end \in Nat
      /\ b.largest_unused_area \in Nat /\ b.flags \in SUBSET BlockFlags
      /\ b.search_start <= b.area_size /\ b.search_end <= b.area_size
      /\ b.largest_unused_area <= b.area_size
      /\ initial <= start /\ start < end /\ end <= b.area_size
      /\ ~IsEmptyBlock(b) /\ b.stop \subseteq 0 .. b.area_size - 1
  BY AreaCleared DEF ClearedFacts
<1>s. stop \in SUBSET Nat /\ stop \in SUBSET (0 .. b.area_size - 1)
  BY <1>0
<1>1. left = initial /\ c = Updated(b, used, stop, b.filled, left, b.area_size - initial, initial,
          b.area_size, (b.flags \ {"Dirty", "Incremental"}) \cup {"Empty"})
  BY DEF Emptied
<1> HIDE DEF used, stop, left, c
<1>2. /\ c \in BlockType /\ c.area_size = b.area_size
      /\ c.flags = (b.flags \ {"Dirty", "Incremental"}) \cup {"Empty"}
      /\ c.used = used /\ c.stop = stop /\ c.filled = b.filled /\ c.area_used = left
      /\ c.largest_unused_area = b.area_size - initial
      /\ c.search_start = initial /\ c.search_end = b.area_size
      /\ c.pool = b.pool /\ c.block_size = b.block_size
  <2>1. /\ (b.flags \ {"Dirty", "Incremental"}) \cup {"Empty"} \in SUBSET BlockFlags
        /\ b.area_size - initial \in Nat /\ initial \in Nat
    BY <1>0 DEF BlockFlags
  <2> QED
    BY <1>0, <1>s, <1>1, <2>1, UpdatedFields
<1>3. SameShape(b, c) /\ InitialArea(c) = InitialArea(b) /\ InitialAreaStart(c) = initial
  BY <1>2 DEF SameShape, InitialArea, InitialAreaStart
<1>4. InBounds(c)
  <2>1. c.used \cup c.stop \cup c.filled \subseteq 0 .. c.area_size - 1
    BY <1>0, <1>s, <1>2
  <2>2. b.area_size - initial <= b.area_size /\ initial <= b.area_size
    BY <1>0
  <2> QED
    BY <1>0, <1>2, <1>3, <2>1, <2>2 DEF InBounds
<1>5. c.used = InitialArea(c)
  BY <1>0, <1>1, <1>2, <1>3, <1>4, UsedIsFinite
<1>6. UsedCounted(c) /\ FrontExact(c)
  BY <1>0, <1>2, <1>5 DEF UsedCounted, FrontExact, IsIncremental
<1>7. WindowCovers(c)
  BY <1>0, <1>2, <1>3, <1>5 DEF WindowCovers, InitialArea
<1>8. SkipCovers(c)
  BY <1>0, <1>2 DEF SkipCovers
<1> QED
  BY <1>2, <1>3, <1>4, <1>6, <1>7, <1>8 DEF BlockInv, IsCleared, used, stop, left, c

\* Releasing an area that is in use keeps the block's invariant.
LEMMA ReleasedAreaInv ==
  ASSUME NEW b, BlockInv(b), NEW start \in Nat, NEW end \in Nat,
         IsArea(b, start, end), start .. end - 1 \subseteq b.used
  PROVE  IsCleared(b, MarkReleasedArea(b, start, end), start, end, b.stop \ {end - 1})
<1> DEFINE stop == b.stop \ {end - 1}
<1>1. b \in BlockType
  BY DEF BlockInv, InBounds
<1>2. stop \in SUBSET (0 .. b.area_size - 1)
  BY DEF BlockInv, InBounds
<1>3. CASE AtIncrementalFront(b, end)
  <2>1. MarkReleasedArea(b, start, end) = FrontBack(b, start, end, stop)
    BY <1>1, <1>3, ReleasedCases
  <2> QED
    BY <1>2, <1>3, <2>1, FrontMovedBack
<1>4. CASE ~AtIncrementalFront(b, end) /\ b.area_used - (end - start) = InitialAreaStart(b)
  <2>1. MarkReleasedArea(b, start, end) = Emptied(b, start, end)
    BY <1>1, <1>4, ReleasedCases
  <2> QED
    BY <1>4, <2>1, EmptiedInv
<1>5. CASE ~AtIncrementalFront(b, end) /\ b.area_used - (end - start) # InitialAreaStart(b)
  <2>1. MarkReleasedArea(b, start, end) = Widened(b, start, end, stop)
    BY <1>1, <1>5, ReleasedCases
  <2> QED
    BY <1>2, <2>1, WindowWidened
<1> QED
  BY <1>3, <1>4, <1>5

\* So does giving back the tail of an area, which never empties the block.
LEMMA ShrunkAreaInv ==
  ASSUME NEW b, BlockInv(b), NEW start \in Nat \ {0}, NEW end \in Nat,
         IsArea(b, start, end), start .. end - 1 \subseteq b.used
  PROVE  /\ IsCleared(b, MarkShrunkArea(b, start, end), start, end,
                      (b.stop \ {end - 1}) \cup {start - 1})
         /\ ~IsEmptyBlock(MarkShrunkArea(b, start, end))
<1> DEFINE stop == (b.stop \ {end - 1}) \cup {start - 1}
<1>1. b \in BlockType /\ ~IsEmptyBlock(b)
  BY AreaCleared DEF ClearedFacts
<1>2. stop \in SUBSET (0 .. b.area_size - 1)
  BY <1>1 DEF BlockInv, InBounds, IsArea, BlockType, InitialAreaStart
<1>3. FrontBack(b, start, end, stop).flags = b.flags =>
        ~IsEmptyBlock(FrontBack(b, start, end, stop))
  BY <1>1 DEF IsEmptyBlock
<1> QED
  BY <1>1, <1>2, <1>3, ShrunkCases, FrontMovedBack, WindowWidened

-------------------------------------------------------------------------------
(* Searching for free granules *)

\* Every free granule at or after search_start lies in a run of free granules
\* that starts at search_start or after a used granule.
LEMMA RunStart ==
  ASSUME NEW b, b.used \in SUBSET Nat, b.search_start \in Nat,
         NEW i \in Nat, b.search_start <= i, i \notin b.used
  PROVE  \E r \in b.search_start .. i :
           /\ r = b.search_start \/ r - 1 \in b.used
           /\ b.used \cap (r .. i) = {}
<1> DEFINE before == b.used \cap (b.search_start .. i)
<1>1. CASE before = {}
  BY <1>1
<1>2. CASE before # {}
  <2>1. before \in SUBSET Nat /\ \A y \in before : y <= i
    OBVIOUS
  <2>2. Max(before) \in before /\ \A y \in before : y <= Max(before)
    BY <1>2, <2>1, MaxOfNats
  <2> DEFINE r == Max(before) + 1
  <2>3. Max(before) \in b.used /\ Max(before) \in b.search_start .. i /\ Max(before) # i
    BY <2>2
  <2>4. r \in b.search_start .. i /\ r - 1 \in b.used
    BY <2>3
  <2>5. b.used \cap (r .. i) = {}
    <3> SUFFICES ASSUME NEW y \in b.used, y \in r .. i PROVE FALSE
      OBVIOUS
    <3>1. y \in before
      BY <2>4
    <3> QED
      BY <2>2, <2>3, <3>1
  <2> QED
    BY <2>4, <2>5
<1> QED
  BY <1>1, <1>2

\* The end of the last bit-word the iterator reads is not before search_end.
LEMMA WordEndBound ==
  ASSUME NEW n \in Nat
  PROVE  WordEnd(n) \in Nat /\ n <= WordEnd(n)
  BY BitWordSizeAssumption DEF WordEnd

\* The iterator reports a range that starts at i to end at the next used
\* granule or at search_end, whichever comes first.
LEMMA RangeEndFacts ==
  ASSUME NEW b, InBounds(b), NEW i \in RangeStarts(b)
  PROVE  /\ i \in Nat /\ b.search_start <= i /\ i < WordEnd(b.search_end) /\ i \notin b.used
         /\ RangeEnd(b, i) \in Nat /\ RangeEnd(b, i) <= b.search_end
         /\ \A j \in b.used : j > i => RangeEnd(b, i) <= j
         /\ RangeEnd(b, i) # b.search_end => RangeEnd(b, i) \in b.used /\ i < RangeEnd(b, i)
<1>1. b.used \in SUBSET Nat /\ b.search_start \in Nat /\ b.search_end \in Nat
  BY DEF InBounds, BlockType
<1>2. WordEnd(b.search_end) \in Nat /\ b.search_end <= WordEnd(b.search_end)
  BY <1>1, WordEndBound
<1>3. i \in Nat /\ b.search_start <= i /\ i < WordEnd(b.search_end) /\ i \notin b.used
  BY <1>1, <1>2 DEF RangeStarts
<1> DEFINE stops == {j \in b.used : j > i} \cup {WordEnd(b.search_end)}
           run   == Min(stops)
<1>4. stops \in SUBSET Nat /\ stops # {}
  BY <1>1, <1>2
<1>5. run \in stops /\ \A j \in stops : run <= j
  BY <1>4, MinOfNats
<1>6. RangeEnd(b, i) = IF run < b.search_end THEN run ELSE b.search_end
  BY DEF RangeEnd
<1> HIDE DEF run
<1> QED
  BY <1>1, <1>2, <1>3, <1>5, <1>6

\* When alloc() finds room in a block, the granules it takes are free, unless
\* they run past the end of the block.
LEMMA RoomIsFree ==
  ASSUME NEW b, BlockInv(b), NEW n \in Nat \ {0}, HasRoom(b, n),
         AreaIndex(b, n) + n <= b.area_size
  PROVE  LET i == AreaIndex(b, n) IN
         /\ i \in Nat /\ IsArea(b, i, i + n)
         /\ b.used \cap (i .. i + n - 1) = {}
         /\ ~FastPath(b, n) => /\ ~IsIncremental(b) /\ b.search_start <= i
                               /\ i = b.search_start \/ i - 1 \in b.used
<1> DEFINE i == AreaIndex(b, n)
<1>1. /\ InBounds(b) /\ b \in BlockType /\ b.used \subseteq 0 .. b.area_size - 1
      /\ b.used \in SUBSET Nat /\ b.area_size \in Nat /\ b.search_start \in Nat
      /\ b.search_end \in Nat /\ b.search_start <= b.area_size /\ b.search_end <= b.area_size
      /\ b.area_used \in Nat /\ b.largest_unused_area \in Nat
  BY DEF BlockInv, InBounds, BlockType
<1>2. CASE FastPath(b, n)
  <2>1. /\ i = b.search_start /\ b.used = 0 .. b.search_start - 1
        /\ b.largest_unused_area = b.area_size - b.search_start /\ b.largest_unused_area >= n
    BY <1>2 DEF AreaIndex, FastPath, BlockInv, FrontExact
  <2>2. InitialAreaStart(b) <= b.search_start
    BY <1>1, <2>1 DEF InBounds, InitialArea, InitialAreaStart
  <2> QED
    BY <1>1, <1>2, <2>1, <2>2 DEF IsArea
<1>3. CASE ~FastPath(b, n)
  <2>1. Scanned(b, n) /\ FittingStarts(b, n) # {} /\ i = Min(FittingStarts(b, n))
    BY <1>3 DEF HasRoom, AreaIndex
  <2>2. FittingStarts(b, n) \in SUBSET Nat
    BY <1>1, WordEndBound DEF FittingStarts, RangeStarts
  <2>3. i \in FittingStarts(b, n)
    BY <2>1, <2>2, MinOfNats
  <2>4. i \in RangeStarts(b) /\ RangeFits(b, i, n)
    BY <2>3 DEF FittingStarts
  <2>5. ~IsIncremental(b)
    <3>1. ASSUME IsIncremental(b) PROVE FALSE
      <4>1. b.area_used = b.search_start /\ b.largest_unused_area = b.area_size - b.search_start
        BY <3>1, IncrementalCount DEF BlockInv, FrontExact
      <4> QED
        BY <1>1, <1>3, <2>1, <3>1, <4>1 DEF Scanned, FastPath, AreaAvailable
    <3> QED
      BY <3>1
  <2>6. i = b.search_start \/ i - 1 \in b.used
    BY <2>4 DEF RangeStarts
  <2> HIDE DEF i
  <2>7. /\ i \in Nat /\ b.search_start <= i /\ i \notin b.used
        /\ RangeEnd(b, i) \in Nat /\ RangeEnd(b, i) <= b.search_end
        /\ \A j \in b.used : j > i => RangeEnd(b, i) <= j
        /\ RangeEnd(b, i) # b.search_end => RangeEnd(b, i) \in b.used /\ i < RangeEnd(b, i)
    BY <1>1, <2>4, RangeEndFacts
  <2>8. i + n <= b.area_size
    BY DEF i
  <2>9. b.used \cap (i .. i + n - 1) = {}
    <3>1. CASE RangeEnd(b, i) < i
      <4>1. RangeEnd(b, i) = b.search_end
        BY <1>1, <2>7, <3>1
      <4>2. i \in (0 .. b.area_size - 1) \ b.used /\ b.search_end <= i
        BY <1>1, <2>7, <2>8, <3>1, <4>1
      <4>3. b.used \cap (i .. b.area_size - 1) = {}
        BY <2>5, <4>2 DEF BlockInv, WindowCovers
      <4> QED
        BY <1>1, <2>7, <2>8, <4>3
    <3>2. CASE RangeEnd(b, i) - i >= n
      BY <1>1, <2>7, <3>2
    <3> QED
      BY <2>4, <3>1, <3>2 DEF RangeFits
  <2>10. InitialAreaStart(b) <= i
    <3>1. InitialArea(b) \subseteq b.used
      BY <1>1 DEF InBounds
    <3> QED
      BY <2>7, <3>1 DEF InitialArea, InitialAreaStart
  <2> QED
    BY <1>3, <2>5, <2>6, <2>7, <2>8, <2>9, <2>10 DEF IsArea, i
<1> QED
  BY <1>2, <1>3

-------------------------------------------------------------------------------
(* Taking granules *)

\* What placing an area leaves behind, when the block becomes full and when it
\* does not.
Filled(b, start, end) ==
  Updated(b, b.used \cup (start .. end - 1), b.stop \cup {end - 1},
          b.filled \ (start .. end - 1), b.area_used + (end - start),
          0, b.area_size, 0, b.flags \ {"Dirty", "Empty"})

Taken(b, start, end, largest) ==
  Updated(b, b.used \cup (start .. end - 1), b.stop \cup {end - 1},
          b.filled \ (start .. end - 1), b.area_used + (end - start),
          largest,
          IF b.search_start = start THEN end ELSE b.search_start,
          IF b.search_end = end THEN start ELSE b.search_end,
          (b.flags \cup {"Dirty"}) \ {"Empty"})

LEMMA PlaceCases ==
  ASSUME NEW b \in BlockType, NEW n \in Nat, AreaIndex(b, n) \in Nat
  PROVE  LET i == AreaIndex(b, n) IN
         /\ AreaAvailable(b) = n => Place(b, n) = Filled(b, i, i + n)
         /\ AreaAvailable(b) # n /\ FastPath(b, n) =>
              Place(b, n) = Taken(b, i, i + n, b.largest_unused_area - n)
         /\ AreaAvailable(b) # n /\ ~FastPath(b, n) =>
              Place(b, n) = Taken(b, i, i + n, b.largest_unused_area)
<1> DEFINE i == AreaIndex(b, n)
           c == [b EXCEPT !.largest_unused_area = b.largest_unused_area - n]
<1>1. Place(b, n) = IF FastPath(b, n) THEN MarkAllocatedArea(c, i, i + n)
                    ELSE MarkAllocatedArea(b, i, i + n)
  BY DEF Place, BlockType
<1> DEFINE end == i + n
<1>2. i \in Nat /\ end \in Nat /\ end - i = n
  OBVIOUS
<1> HIDE DEF i, end
<1>3. ASSUME AreaAvailable(b) = n
      PROVE  /\ MarkAllocatedArea(b, i, end) = Filled(b, i, end)
             /\ MarkAllocatedArea(c, i, end) = Filled(b, i, end)
  <2>1. AreaAvailable(b) = end - i /\ AreaAvailable(c) = end - i
    BY <1>2, <1>3 DEF AreaAvailable, BlockType
  <2>2. MarkAllocatedArea(b, i, end) = Filled(b, i, end)
    BY <2>1 DEF MarkAllocatedArea, Filled, Updated
  <2>3. MarkAllocatedArea(c, i, end) = Filled(c, i, end) /\ c.area_size = b.area_size
    BY ZenonT(60), <2>1 DEF MarkAllocatedArea, Filled, Updated, BlockType
  <2>4. Filled(c, i, end) = Filled(b, i, end)
    BY DEF Filled, Updated, BlockType
  <2> QED
    BY <2>2, <2>3, <2>4
<1>4. ASSUME AreaAvailable(b) # n
      PROVE  /\ MarkAllocatedArea(b, i, end) = Taken(b, i, end, b.largest_unused_area)
             /\ MarkAllocatedArea(c, i, end) = Taken(b, i, end, b.largest_unused_area - n)
  <2>1. AreaAvailable(b) # end - i /\ AreaAvailable(c) # end - i
    BY <1>2, <1>4 DEF AreaAvailable, BlockType
  <2>2. MarkAllocatedArea(b, i, end) = Taken(b, i, end, b.largest_unused_area)
    BY <2>1 DEF MarkAllocatedArea, Taken, Updated
  <2> HIDE DEF c
  <2>3. MarkAllocatedArea(c, i, end) = Taken(c, i, end, c.largest_unused_area)
    BY <2>1 DEF MarkAllocatedArea, Taken, Updated
  <2> USE DEF c
  <2>4. Taken(c, i, end, c.largest_unused_area) = Taken(b, i, end, b.largest_unused_area - n)
    BY ZenonT(60) DEF Taken, Updated, BlockType
  <2> QED
    BY <2>2, <2>3, <2>4
<1> QED
  BY <1>1, <1>3, <1>4 DEF i, end

\* c is b with the free granules start .. end - 1 taken.
IsTaken(b, c, start, end) ==
  /\ BlockInv(c) /\ SameShape(b, c) /\ ~IsEmptyBlock(c)
  /\ c.used = b.used \cup (start .. end - 1) /\ c.stop = b.stop \cup {end - 1}
  /\ c.filled = b.filled \ (start .. end - 1)
  /\ c.area_used = b.area_used + (end - start)

\* Taking the granules alloc() found keeps the block's invariant.
LEMMA PlaceInv ==
  ASSUME NEW b, BlockInv(b), NEW n \in Nat \ {0}, HasRoom(b, n),
         AreaIndex(b, n) + n <= b.area_size
  PROVE  IsTaken(b, Place(b, n), AreaIndex(b, n), AreaIndex(b, n) + n)
<1> DEFINE i      == AreaIndex(b, n)
           end    == i + n
           used   == b.used \cup (i .. end - 1)
           stop   == b.stop \cup {end - 1}
           filled == b.filled \ (i .. end - 1)
           total  == b.area_used + (end - i)
           c      == Place(b, n)
<1>1. /\ InBounds(b) /\ b \in BlockType /\ b.used \subseteq 0 .. b.area_size - 1
      /\ b.used \in SUBSET Nat /\ b.stop \in SUBSET Nat /\ b.filled \in SUBSET Nat
      /\ b.stop \subseteq 0 .. b.area_size - 1 /\ b.filled \subseteq 0 .. b.area_size - 1
      /\ b.area_size \in Nat /\ b.search_start \in Nat
      /\ b.search_end \in Nat /\ b.search_start <= b.area_size /\ b.search_end <= b.area_size
      /\ b.area_used \in Nat /\ b.largest_unused_area \in Nat
      /\ b.largest_unused_area <= b.area_size /\ b.flags \in SUBSET BlockFlags
      /\ InitialArea(b) \subseteq b.used
  BY DEF BlockInv, InBounds, BlockType
<1>2. /\ i \in Nat /\ end \in Nat /\ end - i = n /\ i < end /\ end <= b.area_size
      /\ b.used \cap (i .. end - 1) = {}
      /\ ~FastPath(b, n) => /\ ~IsIncremental(b) /\ b.search_start <= i
                            /\ i = b.search_start \/ i - 1 \in b.used
  BY RoomIsFree
<1> HIDE DEF i, end
<1>3. Cardinality(used) = total /\ total \in Nat /\ total = b.area_used + n
  <2>1. IsFiniteSet(b.used) /\ b.area_used = Cardinality(b.used)
    BY <1>1, UsedIsFinite DEF BlockInv, UsedCounted
  <2>2. Cardinality(used) = Cardinality(b.used) + (end - i)
    <3>1. i \in Nat /\ end \in Nat /\ i <= end /\ b.used \cap (i .. end - 1) = {}
      BY <1>2
    <3> HIDE DEF c, stop, filled, total
    <3> QED
      BY <2>1, <3>1, CountSet
  <2> QED
    BY <1>1, <1>2, <2>1, <2>2
<1>4. /\ used \in SUBSET Nat /\ stop \in SUBSET Nat /\ filled \in SUBSET Nat
      /\ used \cup stop \cup filled \subseteq 0 .. b.area_size - 1
      /\ InitialArea(b) \subseteq used
  BY <1>1, <1>2
<1>6. CASE AreaAvailable(b) = n
  <2>1. c = Updated(b, used, stop, filled, total, 0, b.area_size, 0,
                    b.flags \ {"Dirty", "Empty"})
    <3>1. c = Filled(b, i, end)
      BY <1>1, <1>2, <1>6, PlaceCases DEF i, end
    <3> QED
      BY <3>1 DEF Filled
  <2> HIDE DEF c, used, stop, filled, total
  <2>2. /\ c \in BlockType /\ c.area_size = b.area_size
        /\ c.flags = b.flags \ {"Dirty", "Empty"}
        /\ c.used = used /\ c.stop = stop /\ c.filled = filled
        /\ c.area_used = total /\ c.largest_unused_area = 0
        /\ c.search_start = b.area_size /\ c.search_end = 0
        /\ c.pool = b.pool /\ c.block_size = b.block_size
    BY <1>1, <1>3, <1>4, <2>1, UpdatedFields
  <2>3. SameShape(b, c) /\ InitialArea(c) = InitialArea(b) /\ ~IsEmptyBlock(c)
    BY <2>2 DEF SameShape, InitialArea, InitialAreaStart, IsEmptyBlock
  <2>4. InBounds(c)
    BY <1>1, <1>4, <2>2, <2>3 DEF InBounds
  <2>5. c.used = 0 .. b.area_size - 1
    BY <1>1, <1>3, <1>6, <2>2, <2>4, UsedIsFinite DEF AreaAvailable
  <2>6. UsedCounted(c) /\ FrontExact(c) /\ WindowCovers(c)
    BY <1>1, <1>3, <2>2, <2>3, <2>5 DEF UsedCounted, FrontExact, WindowCovers
  <2>7. SkipCovers(c)
    BY <1>1, <2>2 DEF SkipCovers
  <2> QED
    BY <2>2, <2>3, <2>4, <2>6, <2>7 DEF IsTaken, BlockInv, c, used, stop, filled, total, i, end
<1>7. CASE AreaAvailable(b) # n
  <2> DEFINE largest == IF FastPath(b, n) THEN b.largest_unused_area - n
                        ELSE b.largest_unused_area
             ss      == IF b.search_start = i THEN end ELSE b.search_start
             se      == IF b.search_end = end THEN i ELSE b.search_end
             flags   == (b.flags \cup {"Dirty"}) \ {"Empty"}
  <2>1. c = Updated(b, used, stop, filled, total, largest, ss, se, flags)
    <3>1. c = Taken(b, i, end, largest)
      BY <1>1, <1>2, <1>7, PlaceCases DEF i, end
    <3> QED
      BY <3>1 DEF Taken
  <2>2. /\ largest \in Nat /\ largest <= b.area_size
        /\ ss \in Nat /\ ss <= b.area_size /\ se \in Nat /\ se <= b.area_size
        /\ flags \in SUBSET BlockFlags
    <3>1. FastPath(b, n) => b.largest_unused_area >= n
      BY DEF FastPath
    <3> QED
      BY <1>1, <1>2, <3>1 DEF BlockFlags
  <2>3. CASE FastPath(b, n)
    <3>1. /\ IsIncremental(b) /\ i = b.search_start /\ b.used = 0 .. b.search_start - 1
          /\ b.largest_unused_area = b.area_size - b.search_start
      BY <2>3 DEF FastPath, AreaIndex, BlockInv, FrontExact, i
    <3>2. used = 0 .. ss - 1 /\ largest = b.area_size - ss
      BY SMTT(30), <1>1, <1>2, <2>3, <3>1
    <3> HIDE DEF c, used, stop, filled, total, largest, ss, se
    <3>3. /\ c \in BlockType /\ c.area_size = b.area_size /\ c.flags = flags
          /\ c.used = used /\ c.stop = stop /\ c.filled = filled
          /\ c.area_used = total /\ c.largest_unused_area = largest
          /\ c.search_start = ss /\ c.search_end = se
          /\ c.pool = b.pool /\ c.block_size = b.block_size
      BY <1>1, <1>3, <1>4, <2>1, <2>2, UpdatedFields
    <3>4. SameShape(b, c) /\ InitialArea(c) = InitialArea(b) /\ ~IsEmptyBlock(c)
      BY <3>3 DEF SameShape, InitialArea, InitialAreaStart, IsEmptyBlock
    <3>5. InBounds(c)
      BY <1>1, <1>4, <2>2, <3>3, <3>4 DEF InBounds
    <3>6. UsedCounted(c) /\ FrontExact(c) /\ WindowCovers(c)
      BY <1>3, <3>1, <3>2, <3>3, <3>4 DEF UsedCounted, FrontExact, WindowCovers, IsIncremental
    <3>7. SkipCovers(c)
      BY <3>3 DEF SkipCovers, IsDirty
    <3> QED
      BY <3>3, <3>4, <3>5, <3>6, <3>7 DEF IsTaken, BlockInv, c, used, stop, filled, total, i, end
  <2>4. CASE ~FastPath(b, n)
    <3>1. ~IsIncremental(b) /\ b.search_start <= i /\ (i = b.search_start \/ i - 1 \in b.used)
      BY <1>2, <2>4
    <3>2. \A j \in (0 .. b.area_size - 1) \ used :
            ss <= j /\ (se <= j => used \cap (j .. b.area_size - 1) = {})
      <4> SUFFICES ASSUME NEW j \in (0 .. b.area_size - 1) \ used
                   PROVE  ss <= j /\ (se <= j => used \cap (j .. b.area_size - 1) = {})
        OBVIOUS
      <4>1. /\ j \in (0 .. b.area_size - 1) \ b.used /\ j \notin i .. end - 1
            /\ b.search_start <= j
            /\ b.search_end <= j => b.used \cap (j .. b.area_size - 1) = {}
        BY <3>1 DEF BlockInv, WindowCovers
      <4>2. ss <= j
        BY <1>1, <1>2, <4>1
      <4>3. ASSUME se <= j PROVE used \cap (j .. b.area_size - 1) = {}
        <5>1. b.search_end <= j
          BY <1>1, <1>2, <4>1, <4>3
        <5>2. ~(j < i)
          BY <1>1, <1>2, <3>1, <4>1, <5>1
        <5> QED
          BY <1>1, <1>2, <4>1, <5>1, <5>2
      <4> QED
        BY <4>2, <4>3
    <3> HIDE DEF c, used, stop, filled, total, largest, ss, se
    <3>3. /\ c \in BlockType /\ c.area_size = b.area_size /\ c.flags = flags
          /\ c.used = used /\ c.stop = stop /\ c.filled = filled
          /\ c.area_used = total /\ c.largest_unused_area = largest
          /\ c.search_start = ss /\ c.search_end = se
          /\ c.pool = b.pool /\ c.block_size = b.block_size
      BY <1>1, <1>3, <1>4, <2>1, <2>2, UpdatedFields
    <3>4. SameShape(b, c) /\ InitialArea(c) = InitialArea(b) /\ ~IsEmptyBlock(c)
      BY <3>3 DEF SameShape, InitialArea, InitialAreaStart, IsEmptyBlock
    <3>5. InBounds(c)
      BY <1>1, <1>4, <2>2, <3>3, <3>4 DEF InBounds
    <3>6. UsedCounted(c) /\ FrontExact(c) /\ WindowCovers(c)
      BY <1>3, <3>1, <3>2, <3>3, <3>4 DEF UsedCounted, FrontExact, WindowCovers, IsIncremental
    <3>7. SkipCovers(c)
      BY <3>3 DEF SkipCovers, IsDirty
    <3> QED
      BY <3>3, <3>4, <3>5, <3>6, <3>7 DEF IsTaken, BlockInv, c, used, stop, filled, total, i, end
  <2> QED
    BY <2>3, <2>4
<1> QED
  BY <1>6, <1>7

\* c is b with nothing changed but the caches of a search.
IsSearched(b, c) ==
  /\ BlockInv(c) /\ SameShape(b, c)
  /\ c.used = b.used /\ c.stop = b.stop /\ c.filled = b.filled
  /\ c.area_used = b.area_used
  /\ IsEmptyBlock(c) <=> IsEmptyBlock(b)

\* A block scanned in vain keeps its invariant: the narrower window the scan
\* leaves still has every free granule in it, and only a free tail behind it.
LEMMA PassOverInv ==
  ASSUME NEW b, BlockInv(b), NEW n \in Nat \ {0}, ~HasRoom(b, n)
  PROVE  IsSearched(b, PassOver(b, n))
<1> DEFINE starts  == RangeStarts(b)
           lengths == {RangeEnd(b, i) - i : i \in starts}
           ss      == Min(starts)
           last    == Max(starts)
           se      == RangeEnd(b, last)
           largest == Max(lengths)
           flags   == b.flags \ {"Dirty"}
           c       == PassOver(b, n)
<1>1. /\ InBounds(b) /\ b \in BlockType /\ b.used \subseteq 0 .. b.area_size - 1
      /\ b.used \in SUBSET Nat /\ b.stop \in SUBSET Nat /\ b.filled \in SUBSET Nat
      /\ b.area_size \in Nat /\ b.search_start \in Nat
      /\ b.search_end \in Nat /\ b.search_start <= b.area_size /\ b.search_end <= b.area_size
      /\ b.area_used \in Nat /\ b.largest_unused_area \in Nat /\ b.flags \in SUBSET BlockFlags
  BY DEF BlockInv, InBounds, BlockType
<1>2. CASE ~(Scanned(b, n) /\ starts # {})
  <2>1. c = b
    BY <1>2 DEF PassOver
  <2> QED
    BY <2>1 DEF IsSearched, SameShape
<1>3. CASE Scanned(b, n) /\ starts # {}
  <2>1. c = Updated(b, b.used, b.stop, b.filled, b.area_used, largest, ss, se, flags)
    BY <1>1, <1>3 DEF PassOver, Updated, BlockType
  <2>2. ~IsIncremental(b)
    <3>1. ASSUME IsIncremental(b) PROVE FALSE
      <4>1. b.area_used = b.search_start /\ b.largest_unused_area = b.area_size - b.search_start
        BY <3>1, IncrementalCount DEF BlockInv, FrontExact
      <4> QED
        BY <1>1, <1>3, <3>1, <4>1 DEF Scanned, FastPath, AreaAvailable
    <3> QED
      BY <3>1
  <2>3. WordEnd(b.search_end) \in Nat /\ b.search_end <= WordEnd(b.search_end)
    BY <1>1, WordEndBound
  <2>4. starts \in SUBSET Nat /\ \A i \in starts : i <= WordEnd(b.search_end)
    BY <1>1, <2>3 DEF RangeStarts
  <2>5. \A i \in starts : RangeEnd(b, i) >= i /\ RangeEnd(b, i) <= b.search_end /\ RangeEnd(b, i) \in Nat
    <3>1. FittingStarts(b, n) = {}
      BY <1>3 DEF HasRoom
    <3> SUFFICES ASSUME NEW i \in starts
                 PROVE  RangeEnd(b, i) >= i /\ RangeEnd(b, i) <= b.search_end /\ RangeEnd(b, i) \in Nat
      OBVIOUS
    <3>2. RangeEnd(b, i) \in Nat /\ RangeEnd(b, i) <= b.search_end /\ i \in Nat
      BY <1>1, RangeEndFacts
    <3>3. ~RangeFits(b, i, n)
      BY <3>1 DEF FittingStarts
    <3> QED
      BY <3>2, <3>3 DEF RangeFits
  <2>6. /\ ss \in starts /\ \A i \in starts : ss <= i
        /\ last \in starts /\ \A i \in starts : i <= last
    <3>1. starts # {}
      BY <1>3
    <3>2. ss \in starts /\ \A i \in starts : ss <= i
      BY <2>4, <3>1, MinOfNats
    <3>3. last \in starts /\ \A i \in starts : i <= last
      BY <2>3, <2>4, <3>1, MaxOfNats
    <3> QED
      BY <3>2, <3>3
  <2>7. largest \in Nat /\ largest <= b.area_size
    <3>1. lengths \in SUBSET Nat /\ lengths # {} /\ \A y \in lengths : y <= b.area_size
      BY <1>1, <1>3, <2>4, <2>5
    <3>2. largest \in lengths
      BY <1>1, <3>1, MaxOfNats
    <3> QED
      BY <3>1, <3>2
  <2>8. /\ ss \in Nat /\ ss <= b.area_size /\ se \in Nat /\ se <= b.area_size
        /\ flags \in SUBSET BlockFlags
    BY <1>1, <2>4, <2>5, <2>6
  <2>9. /\ last \in Nat /\ last \notin b.used
        /\ \A j \in b.used : j > last => se <= j
        /\ se # b.search_end => se \in b.used /\ last < se
    BY <1>1, <2>6, RangeEndFacts
  <2>10. \A i \in (0 .. b.area_size - 1) \ b.used :
           ss <= i /\ (se <= i => b.used \cap (i .. b.area_size - 1) = {})
    <3> SUFFICES ASSUME NEW i \in (0 .. b.area_size - 1) \ b.used
                 PROVE  ss <= i /\ (se <= i => b.used \cap (i .. b.area_size - 1) = {})
      OBVIOUS
    <3>1. /\ i \in Nat /\ b.search_start <= i
          /\ b.search_end <= i => b.used \cap (i .. b.area_size - 1) = {}
      BY <1>1, <2>2 DEF BlockInv, WindowCovers
    <3>2. PICK r \in b.search_start .. i :
             /\ r = b.search_start \/ r - 1 \in b.used
             /\ b.used \cap (r .. i) = {}
      BY <1>1, <3>1, RunStart
    <3>3. i < WordEnd(b.search_end) => r \in starts
      BY <1>1, <2>3, <3>1, <3>2 DEF RangeStarts
    <3>4. ss <= i
      <4>1. CASE i < WordEnd(b.search_end)
        BY <1>1, <2>6, <2>8, <3>1, <3>2, <3>3, <4>1
      <4>2. CASE ~(i < WordEnd(b.search_end))
        BY <2>3, <2>4, <2>6, <2>8, <3>1, <4>2
      <4> QED
        BY <4>1, <4>2
    <3>5. ASSUME se <= i PROVE b.search_end <= i
      <4> SUFFICES ASSUME i < b.search_end PROVE FALSE
        BY <1>1, <3>1
      <4>1. se \in b.used /\ last < se /\ r \in starts
        BY <1>1, <2>3, <2>8, <2>9, <3>1, <3>3, <3>5
      <4>2. se < r
        BY <1>1, <2>8, <3>1, <3>2, <3>5, <4>1
      <4> QED
        BY <1>1, <2>6, <2>8, <2>9, <3>2, <4>1, <4>2
    <3> QED
      BY <3>1, <3>4, <3>5
  <2> HIDE DEF c, largest, ss, se
  <2>11. /\ c \in BlockType /\ c.area_size = b.area_size /\ c.flags = flags
         /\ c.used = b.used /\ c.stop = b.stop /\ c.filled = b.filled
         /\ c.area_used = b.area_used /\ c.largest_unused_area = largest
         /\ c.search_start = ss /\ c.search_end = se
         /\ c.pool = b.pool /\ c.block_size = b.block_size
    BY <1>1, <2>1, <2>7, <2>8, UpdatedFields
  <2>12. SameShape(b, c) /\ InitialArea(c) = InitialArea(b) /\ (IsEmptyBlock(c) <=> IsEmptyBlock(b))
    BY <2>11 DEF SameShape, InitialArea, InitialAreaStart, IsEmptyBlock
  <2>13. InBounds(c)
    BY <1>1, <2>7, <2>8, <2>11, <2>12 DEF InBounds
  <2>14. UsedCounted(c) /\ FrontExact(c) /\ WindowCovers(c)
    BY <2>2, <2>10, <2>11, <2>12
       DEF BlockInv, UsedCounted, FrontExact, WindowCovers, IsIncremental
  <2>15. ASSUME NEW i \in ss .. se - 1, NEW j \in i + 1 .. se, b.used \cap (i .. j - 1) = {}
         PROVE  j - i <= largest
    <3>1. /\ i \in Nat /\ j \in Nat /\ i < j /\ j <= b.search_end /\ b.search_start <= i
          /\ i \notin b.used
      <4>1. se <= b.search_end
        BY <2>5, <2>6 DEF se
      <4>2. ss \in starts /\ b.search_start <= ss
        BY <1>1, <2>6, RangeEndFacts
      <4> QED
        BY <1>1, <2>8, <2>15, <4>1, <4>2
    <3>2. PICK r \in b.search_start .. i :
             /\ r = b.search_start \/ r - 1 \in b.used
             /\ b.used \cap (r .. i) = {}
      BY <1>1, <3>1, RunStart
    <3>3. r \in starts /\ r \in Nat /\ r <= i
      BY <1>1, <2>3, <3>1, <3>2 DEF RangeStarts
    <3>4. RangeEnd(b, r) >= j
      <4>1. RangeEnd(b, r) \in Nat
            /\ (RangeEnd(b, r) # b.search_end => RangeEnd(b, r) \in b.used /\ r < RangeEnd(b, r))
        BY <1>1, <3>3, RangeEndFacts
      <4> SUFFICES ASSUME RangeEnd(b, r) < j PROVE FALSE
        BY <3>1, <4>1
      <4>2. RangeEnd(b, r) \in b.used /\ r < RangeEnd(b, r)
        BY <1>1, <3>1, <4>1
      <4>3. RangeEnd(b, r) \in r .. i \/ RangeEnd(b, r) \in i .. j - 1
        BY <3>1, <3>3, <4>1, <4>2
      <4> QED
        BY <2>15, <3>2, <4>2, <4>3
    <3>5. RangeEnd(b, r) - r <= largest
      <4>1. lengths \in SUBSET Nat /\ lengths # {} /\ \A y \in lengths : y <= b.area_size
        BY <1>1, <1>3, <2>4, <2>5
      <4>2. \A y \in lengths : y <= Max(lengths)
        BY <1>1, <4>1, MaxOfNats
      <4> QED
        BY <3>3, <4>2 DEF largest
    <3>6. RangeEnd(b, r) \in Nat
      BY <2>5, <3>3
    <3> QED
      BY <2>7, <3>1, <3>3, <3>4, <3>5, <3>6
  <2>16. SkipCovers(c)
    BY <2>11, <2>15 DEF SkipCovers
  <2> QED
    BY <2>11, <2>12, <2>13, <2>14, <2>16 DEF IsSearched, BlockInv, c
<1> QED
  BY <1>2, <1>3

\* A block that is mapped or wiped out starts with its padding in use and the
\* rest free.
LEMMA ClearedBlockInv ==
  ASSUME NEW b \in BlockType, InitialAreaStart(b) <= b.area_size,
         b.filled \subseteq 0 .. b.area_size - 1
  PROVE  LET c == ClearBlock(b) IN
         /\ BlockInv(c) /\ SameShape(b, c) /\ IsEmptyBlock(c) /\ IsIncremental(c)
         /\ c.used = InitialArea(c) /\ c.stop = InitialArea(c) /\ c.filled = b.filled
         /\ c.area_used = InitialAreaStart(c) /\ c.search_start = InitialAreaStart(c)
         /\ c.largest_unused_area = c.area_size - InitialAreaStart(c)
<1> DEFINE initial == InitialAreaStart(b)
           flags   == (b.flags \cup {"Empty", "Incremental"}) \ {"Dirty"}
           c       == ClearBlock(b)
<1>1. initial \in Nat /\ b.area_size \in Nat /\ initial <= b.area_size
      /\ b.filled \in SUBSET Nat /\ flags \in SUBSET BlockFlags
      /\ InitialArea(b) \in SUBSET Nat /\ b.area_size - initial \in Nat
  BY DEF InitialAreaStart, InitialArea, BlockType, BlockFlags
<1>2. c = Updated(b, InitialArea(b), InitialArea(b), b.filled, initial, b.area_size - initial,
                  initial, b.area_size, flags)
  BY DEF ClearBlock, Updated, InitialArea, BlockType
<1>3. /\ c \in BlockType /\ c.area_size = b.area_size /\ c.flags = flags
      /\ c.used = InitialArea(b) /\ c.stop = InitialArea(b) /\ c.filled = b.filled
      /\ c.area_used = initial /\ c.largest_unused_area = b.area_size - initial
      /\ c.search_start = initial /\ c.search_end = b.area_size
      /\ c.pool = b.pool /\ c.block_size = b.block_size
  BY <1>1, <1>2, UpdatedFields
<1>4. /\ SameShape(b, c) /\ InitialArea(c) = InitialArea(b) /\ InitialAreaStart(c) = initial
      /\ IsEmptyBlock(c) /\ IsIncremental(c)
  BY <1>3 DEF SameShape, InitialArea, InitialAreaStart, IsEmptyBlock, IsIncremental
<1>5. Cardinality(InitialArea(b)) = initial
  BY <1>1, AreaCount DEF InitialArea
<1> HIDE DEF c, initial, flags
<1>6. InBounds(c)
  <2>1. InitialArea(b) \subseteq 0 .. b.area_size - 1
    BY <1>1 DEF InitialArea, initial
  <2> QED
    BY <1>1, <1>3, <1>4, <2>1 DEF InBounds
<1>7. UsedCounted(c) /\ FrontExact(c) /\ WindowCovers(c)
  BY <1>1, <1>3, <1>4, <1>5 DEF UsedCounted, FrontExact, WindowCovers, InitialArea, initial
<1>8. SkipCovers(c)
  BY <1>4 DEF SkipCovers
<1> QED
  BY <1>3, <1>4, <1>6, <1>7, <1>8 DEF BlockInv, c

-------------------------------------------------------------------------------
(* Sizes and pools *)

LEMMA GranularityType ==
  ASSUME NEW p \in Pools
  PROVE  Granularity(p) \in {1, 2, 4}
<1>1. p \in {0, 1, 2}
  BY ConstantsAssumption DEF Pools
<1>2. 2 ^ 0 = 1 /\ 2 ^ 1 = 2 /\ 2 ^ 2 = 4
  OBVIOUS
<1> QED
  BY <1>1, <1>2 DEF Granularity

LEMMA PoolOfSize ==
  ASSUME NEW size \in Nat \ {0}
  PROVE  SizeToPoolId(size) \in Pools
<1> DEFINE S == {p \in Pools : p = 0 \/ size % Granularity(p) = 0}
<1>1. S \in SUBSET Nat /\ S # {} /\ PoolCount \in Nat /\ \A p \in S : p <= PoolCount
  <2>1. 0 \in S
    BY ConstantsAssumption DEF Pools
  <2> QED
    BY <2>1, ConstantsAssumption DEF Pools
<1>2. Max(S) \in S
  BY <1>1, MaxOfNats
<1> QED
  BY <1>2 DEF SizeToPoolId

\* A size is rounded up to granules: n granules hold it, n - 1 do not.
LEMMA AreaSizeBound ==
  ASSUME NEW p \in Pools, NEW size \in Nat
  PROVE  /\ AreaSizeOf(p, size) \in Nat
         /\ size > 0 => AreaSizeOf(p, size) > 0
         /\ \A more \in Nat : size + Granularity(p) <= more =>
              AreaSizeOf(p, size) + 1 <= AreaSizeOf(p, more)
         /\ \A more \in Nat : size <= more => AreaSizeOf(p, size) <= AreaSizeOf(p, more)
<1>1. CASE Granularity(p) = 1
  BY <1>1 DEF AreaSizeOf
<1>2. CASE Granularity(p) = 2
  BY <1>2 DEF AreaSizeOf
<1>3. CASE Granularity(p) = 4
  BY <1>3 DEF AreaSizeOf
<1> QED
  BY <1>1, <1>2, <1>3, GranularityType

-------------------------------------------------------------------------------
(* Spans and the bits that describe them *)

SpanType == [block : BlockIds, start : Nat, end : Nat]

\* The stop bits recover the end of every span.
LEMMA EndOfSpan ==
  ASSUME NEW b, BlockInv(b), NEW held \in SUBSET SpanType, HoldsSpans(b, held),
         NEW s \in held
  PROVE  /\ AreaEnd(b, s.start) = s.end /\ StopsFrom(b, s.start) # {}
         /\ s.start \in Nat /\ s.end \in Nat /\ IsArea(b, s.start, s.end)
         /\ s.start .. s.end - 1 \subseteq b.used /\ s.start \in b.used
<1>1. s.start \in Nat /\ s.end \in Nat /\ s.start < s.end
  BY DEF SpanType, HoldsSpans, IsArea
<1>2. IsArea(b, s.start, s.end) /\ s.start .. s.end - 1 \subseteq b.used /\ s.start \in b.used
  BY <1>1 DEF HoldsSpans
<1>3. s.end - 1 \in StopsFrom(b, s.start)
  BY <1>1 DEF HoldsSpans, StopsFrom
<1>4. ASSUME NEW j \in StopsFrom(b, s.start) PROVE j \in Nat /\ s.end - 1 <= j
  <2>1. j \in b.stop /\ j >= s.start
    BY DEF StopsFrom
  <2>2. j \notin InitialArea(b)
    BY <1>1, <1>2, <2>1 DEF IsArea, InitialArea, InitialAreaStart
  <2>3. PICK t \in held : j = t.end - 1
    BY <2>1, <2>2 DEF HoldsSpans
  <2>4. t.start \in Nat /\ t.end \in Nat /\ t.start < t.end
    BY DEF SpanType, HoldsSpans, IsArea
  <2>5. t # s => s.end <= t.start \/ t.end <= s.start
    BY DEF HoldsSpans
  <2> QED
    BY <1>1, <2>1, <2>3, <2>4, <2>5
<1>5. StopsFrom(b, s.start) \in SUBSET Nat
  BY <1>4
<1>6. Min(StopsFrom(b, s.start)) \in StopsFrom(b, s.start)
      /\ \A y \in StopsFrom(b, s.start) : Min(StopsFrom(b, s.start)) <= y
  BY <1>3, <1>5, MinOfNats
<1>7. Min(StopsFrom(b, s.start)) = s.end - 1
  BY <1>1, <1>3, <1>4, <1>6
<1> QED
  BY <1>1, <1>2, <1>3, <1>7 DEF AreaEnd

\* The padding of a block is not changed by what happens to its areas.
LEMMA SamePadding ==
  ASSUME NEW b, NEW c, SameShape(b, c)
  PROVE  InitialArea(c) = InitialArea(b) /\ InitialAreaStart(c) = InitialAreaStart(b)
  BY DEF SameShape, InitialArea, InitialAreaStart

\* Free granules that are taken are one more span.
LEMMA SpanTaken ==
  ASSUME NEW b, NEW c, NEW held \in SUBSET SpanType, HoldsSpans(b, held),
         NEW s \in SpanType, IsArea(b, s.start, s.end),
         b.used \cap (s.start .. s.end - 1) = {}, IsTaken(b, c, s.start, s.end)
  PROVE  HoldsSpans(c, held \cup {s})
<1>1. /\ InitialArea(c) = InitialArea(b) /\ InitialAreaStart(c) = InitialAreaStart(b)
      /\ c.area_size = b.area_size
      /\ c.used = b.used \cup (s.start .. s.end - 1) /\ c.stop = b.stop \cup {s.end - 1}
  BY SamePadding DEF IsTaken, SameShape
<1>2. ASSUME NEW t \in held PROVE s.end <= t.start \/ t.end <= s.start
  <2>1. t.start \in Nat /\ t.end \in Nat /\ t.start < t.end /\ s.start \in Nat /\ s.end \in Nat
        /\ s.start < s.end
    BY DEF HoldsSpans, IsArea, SpanType
  <2>2. t.start .. t.end - 1 \subseteq b.used
    BY DEF HoldsSpans
  <2>3. (t.start .. t.end - 1) \cap (s.start .. s.end - 1) = {}
    BY <2>2
  <2>4. t.start \notin s.start .. s.end - 1 /\ s.start \notin t.start .. t.end - 1
    BY <2>1, <2>3
  <2> QED
    BY <2>1, <2>4
<1>3. \A t \in held \cup {s} : IsArea(c, t.start, t.end)
  BY <1>1 DEF HoldsSpans, IsArea
<1>4. \A t, u \in held \cup {s} : t # u => t.end <= u.start \/ u.end <= t.start
  BY <1>2 DEF HoldsSpans
<1> QED
  BY <1>1, <1>3, <1>4 DEF HoldsSpans

\* A span whose bits are cleared is gone, and no other.
LEMMA SpanCleared ==
  ASSUME NEW b, NEW c, NEW held \in SUBSET SpanType, HoldsSpans(b, held), NEW s \in held,
         IsCleared(b, c, s.start, s.end, b.stop \ {s.end - 1})
  PROVE  HoldsSpans(c, held \ {s})
<1>1. /\ InitialArea(c) = InitialArea(b) /\ InitialAreaStart(c) = InitialAreaStart(b)
      /\ c.area_size = b.area_size
      /\ c.used = b.used \ (s.start .. s.end - 1) /\ c.stop = b.stop \ {s.end - 1}
  BY SamePadding DEF IsCleared, SameShape
<1>2. /\ s.start \in Nat /\ s.end \in Nat /\ s.start < s.end /\ InitialAreaStart(b) <= s.start
      /\ InitialAreaStart(b) \in Nat
  BY DEF HoldsSpans, IsArea, SpanType, InitialAreaStart
<1>3. InitialArea(b) \cap (s.start .. s.end - 1) = {} /\ s.end - 1 \notin InitialArea(b)
  BY <1>2 DEF InitialArea
<1>4. ASSUME NEW t \in held \ {s}
      PROVE  (t.start .. t.end - 1) \cap (s.start .. s.end - 1) = {} /\ t.end - 1 # s.end - 1
  <2>1. t.start \in Nat /\ t.end \in Nat /\ t.start < t.end
        /\ (s.end <= t.start \/ t.end <= s.start)
    BY DEF HoldsSpans, IsArea, SpanType
  <2> QED
    BY <1>2, <2>1
<1>5. c.used = InitialArea(c) \cup UNION {t.start .. t.end - 1 : t \in held \ {s}}
  BY <1>1, <1>3, <1>4 DEF HoldsSpans
<1>6. c.stop = InitialArea(c) \cup {t.end - 1 : t \in held \ {s}}
  BY <1>1, <1>3, <1>4 DEF HoldsSpans
<1>7. \A t \in held \ {s} : IsArea(c, t.start, t.end)
  BY <1>1 DEF HoldsSpans, IsArea
<1> QED
  BY <1>5, <1>6, <1>7 DEF HoldsSpans

\* A span whose tail is cleared ends before the tail.
LEMMA SpanShrunk ==
  ASSUME NEW b, BlockInv(b), NEW c, NEW held \in SUBSET SpanType, HoldsSpans(b, held), NEW s \in held,
         NEW cut \in Nat, s.start < cut, cut < s.end, NEW t \in SpanType,
         t.start = s.start, t.end = cut,
         IsCleared(b, c, cut, s.end, (b.stop \ {s.end - 1}) \cup {cut - 1})
  PROVE  HoldsSpans(c, (held \ {s}) \cup {t})
<1> DEFINE others == held \ {s}
<1>1. /\ InitialArea(c) = InitialArea(b) /\ InitialAreaStart(c) = InitialAreaStart(b)
      /\ c.area_size = b.area_size
      /\ c.used = b.used \ (cut .. s.end - 1)
      /\ c.stop = (b.stop \ {s.end - 1}) \cup {cut - 1}
  BY SamePadding DEF IsCleared, SameShape
<1>2. /\ s.start \in Nat /\ s.end \in Nat /\ s.start < s.end /\ InitialAreaStart(b) <= s.start
      /\ s.end <= b.area_size /\ InitialAreaStart(b) \in Nat
  BY DEF HoldsSpans, IsArea, SpanType, InitialAreaStart
<1>3. InitialArea(b) \cap (s.start .. s.end - 1) = {} /\ s.end - 1 \notin InitialArea(b)
  BY <1>2 DEF InitialArea
<1>4. ASSUME NEW u \in others
      PROVE  /\ (u.start .. u.end - 1) \cap (s.start .. s.end - 1) = {}
             /\ u.end - 1 # s.end - 1
             /\ u.end <= t.start \/ t.end <= u.start
  <2>1. u.start \in Nat /\ u.end \in Nat /\ u.start < u.end
        /\ (s.end <= u.start \/ u.end <= s.start)
    BY DEF HoldsSpans, IsArea, SpanType
  <2> QED
    BY <1>2, <2>1
<1>5. \A i : i \in b.used <=> \/ i \in InitialArea(b) \/ i \in s.start .. s.end - 1
                             \/ \E u \in others : i \in u.start .. u.end - 1
  BY DEF HoldsSpans
<1>6. \A i : i \in c.used <=> \/ i \in InitialArea(c)
                              \/ \E u \in others \cup {t} : i \in u.start .. u.end - 1
  <2>1. \A i : i \in s.start .. s.end - 1 /\ i \notin cut .. s.end - 1 <=> i \in t.start .. t.end - 1
    BY <1>2
  <2>2. \A i : i \in cut .. s.end - 1 => i \in s.start .. s.end - 1
    BY <1>2
  <2>3. \A i : i \in c.used <=> i \in b.used /\ i \notin cut .. s.end - 1
    BY <1>1
  <2>4. \A i : i \in InitialArea(b) => i \notin cut .. s.end - 1
    BY <2>2, <1>3
  <2>5. \A u \in others : \A i : i \in u.start .. u.end - 1 => i \notin cut .. s.end - 1
    BY <2>2, <1>4
  <2> HIDE DEF others
  <2> QED
    BY <1>1, <1>5, <2>1, <2>2, <2>3, <2>4, <2>5
<1>7. c.used = InitialArea(c) \cup UNION {u.start .. u.end - 1 : u \in others \cup {t}}
  <2> HIDE DEF others
  <2> QED
    BY <1>6
<1>8. c.stop = InitialArea(c) \cup {u.end - 1 : u \in others \cup {t}}
  <2>1. \A i : i \in b.stop <=> i \in InitialArea(b) \/ i = s.end - 1
                                \/ \E u \in others : i = u.end - 1
    BY DEF HoldsSpans
  <2>2. \A u \in others : u.end - 1 # s.end - 1
    BY <1>4
  <2> HIDE DEF others
  <2>3. \A i : i \in c.stop <=> i \in InitialArea(c) \/ \E u \in others \cup {t} : i = u.end - 1
    BY <1>1, <1>3, <2>1, <2>2
  <2> QED
    BY <2>3
<1>9. \A u \in others \cup {t} : IsArea(c, u.start, u.end)
  <2>1. IsArea(c, t.start, t.end)
    BY <1>1, <1>2 DEF IsArea, BlockInv, InBounds, BlockType
  <2>2. \A u \in held : IsArea(b, u.start, u.end)
    BY DEF HoldsSpans
  <2>3. \A u \in others : IsArea(c, u.start, u.end)
    BY <1>1, <2>2 DEF IsArea
  <2> HIDE DEF others
  <2> QED
    BY <2>1, <2>3
<1>10. \A u, v \in others : u # v => u.end <= v.start \/ v.end <= u.start
  BY DEF HoldsSpans
<1>11. \A u, v \in others \cup {t} : u # v => u.end <= v.start \/ v.end <= u.start
  <2>1. \A u \in others : u.end <= t.start \/ t.end <= u.start
    BY <1>4
  <2> HIDE DEF others
  <2> QED
    BY <1>10, <2>1
<1> QED
  <2> HIDE DEF others
  <2>1. HoldsSpans(c, others \cup {t})
    BY <1>7, <1>8, <1>9, <1>11 DEF HoldsSpans
  <2> QED
    BY <2>1 DEF others
\* A search leaves the bits alone.
LEMMA SpansKept ==
  ASSUME NEW b, NEW c, NEW held, HoldsSpans(b, held), SameShape(b, c),
         c.used = b.used, c.stop = b.stop
  PROVE  HoldsSpans(c, held)
<1>1. /\ InitialArea(c) = InitialArea(b) /\ InitialAreaStart(c) = InitialAreaStart(b)
      /\ c.area_size = b.area_size
  BY SamePadding DEF SameShape
<1>2. \A s \in held : IsArea(c, s.start, s.end)
  BY <1>1 DEF HoldsSpans, IsArea
<1> QED
  BY <1>1, <1>2 DEF HoldsSpans

\* Nothing can be held in a block without used granules.
LEMMA EmptyHoldsNone ==
  ASSUME NEW b, BlockInv(b), IsEmptyBlock(b),
         NEW held \in SUBSET SpanType, HoldsSpans(b, held)
  PROVE  held = {}
<1>1. b.used = InitialArea(b)
  BY DEF BlockInv, UsedCounted
<1>2. ASSUME NEW s \in held PROVE FALSE
  <2>1. s.start \in Nat /\ InitialAreaStart(b) <= s.start /\ s.start \in b.used
    BY EndOfSpan DEF IsArea
  <2> QED
    BY <1>1, <2>1 DEF InitialArea, InitialAreaStart
<1> QED
  BY <1>2

\* What nobody holds of block b is filled, when the allocator fills.
IsFilledUp(b) ==
  HasOption("FillUnusedMemory") => (0 .. b.area_size - 1) \ b.used \subseteq b.filled

\* Filling memory changes no bit and no cache.
LEMMA FillInv ==
  ASSUME NEW b, BlockInv(b), NEW area \in SUBSET (0 .. b.area_size - 1)
  PROVE  /\ BlockInv(Fill(b, area)) /\ SameShape(b, Fill(b, area))
         /\ Fill(b, area).used = b.used /\ Fill(b, area).stop = b.stop
         /\ Fill(b, area).flags = b.flags /\ Fill(b, area).area_used = b.area_used
         /\ HasOption("FillUnusedMemory") => Fill(b, area).filled = b.filled \cup area
<1>1. CASE ~HasOption("FillUnusedMemory")
  BY <1>1 DEF Fill, SameShape
<1>2. CASE HasOption("FillUnusedMemory")
  <2> DEFINE c == [b EXCEPT !.filled = b.filled \cup area]
  <2>1. b \in BlockType /\ b.area_size \in Nat /\ b.filled \subseteq 0 .. b.area_size - 1
    BY DEF BlockInv, InBounds, BlockType
  <2>2. b.filled \cup area \in SUBSET Nat /\ b.filled \cup area \subseteq 0 .. b.area_size - 1
    BY <2>1
  <2>3. /\ c \in BlockType /\ c.pool = b.pool /\ c.block_size = b.block_size
        /\ c.area_size = b.area_size /\ c.flags = b.flags /\ c.used = b.used /\ c.stop = b.stop
        /\ c.filled = b.filled \cup area /\ c.area_used = b.area_used
        /\ c.largest_unused_area = b.largest_unused_area
        /\ c.search_start = b.search_start /\ c.search_end = b.search_end
    BY <2>1, <2>2 DEF BlockType
  <2> HIDE DEF c
  <2>4. InBounds(c)
    BY <2>2, <2>3 DEF BlockInv, InBounds, InitialArea, InitialAreaStart
  <2>5. UsedCounted(c) /\ FrontExact(c) /\ WindowCovers(c) /\ SkipCovers(c)
    BY <2>3 DEF BlockInv, UsedCounted, FrontExact, WindowCovers, SkipCovers, IsEmptyBlock,
                IsIncremental, IsDirty, InitialArea, InitialAreaStart
  <2>6. Fill(b, area) = c
    BY <1>2 DEF Fill, c
  <2> QED
    BY <2>3, <2>4, <2>5, <2>6 DEF BlockInv, SameShape
<1> QED
  BY <1>1, <1>2

\* A block that is wiped out, or was empty, holds nothing.
LEMMA WipedOut ==
  ASSUME NEW b, BlockInv(b), NEW held \in SUBSET SpanType, HoldsSpans(b, held)
  PROVE  /\ BlockInv(WipeOutBlock(b)) /\ SameShape(b, WipeOutBlock(b))
         /\ IsEmptyBlock(WipeOutBlock(b)) /\ HoldsSpans(WipeOutBlock(b), {})
<1>1. CASE IsEmptyBlock(b)
  BY <1>1, EmptyHoldsNone DEF WipeOutBlock, SameShape
<1>2. CASE ~IsEmptyBlock(b)
  <2> DEFINE f == Fill(b, (0 .. b.area_size - 1) \ b.used)
             c == ClearBlock(f)
  <2>1. BlockInv(f) /\ SameShape(b, f) /\ f.used = b.used
    BY FillInv
  <2> HIDE DEF f
  <2>2. /\ f \in BlockType /\ f.filled \subseteq 0 .. f.area_size - 1 /\ f.area_used <= f.area_size
        /\ f.area_size \in Nat /\ InitialAreaStart(f) \in 0 .. 1 /\ InitialArea(f) \subseteq f.used
        /\ f.used \subseteq 0 .. f.area_size - 1
    <3>1. /\ f \in BlockType /\ f.filled \subseteq 0 .. f.area_size - 1 /\ f.area_size \in Nat
          /\ InitialArea(f) \subseteq f.used /\ f.used \subseteq 0 .. f.area_size - 1
          /\ f.area_used = Cardinality(f.used)
      BY <2>1 DEF BlockInv, InBounds, BlockType, UsedCounted
    <3>2. IsFiniteSet(0 .. f.area_size - 1) /\ Cardinality(0 .. f.area_size - 1) = f.area_size
      BY <3>1, AreaCount
    <3> QED
      BY <3>1, <3>2, FS_Subset DEF InitialAreaStart
  <2>3. InitialAreaStart(f) <= f.area_size
    BY <2>2 DEF InitialArea
  <2>4. /\ BlockInv(c) /\ SameShape(f, c) /\ IsEmptyBlock(c)
        /\ c.used = InitialArea(c) /\ c.stop = InitialArea(c)
    BY <2>2, <2>3, ClearedBlockInv
  <2> HIDE DEF c
  <2>5. HoldsSpans(c, {})
    BY <2>4 DEF HoldsSpans
  <2>6. WipeOutBlock(b) = c
    BY <1>2 DEF WipeOutBlock, c, f
  <2> QED
    BY <2>1, <2>4, <2>5, <2>6 DEF SameShape
<1> QED
  BY <1>1, <1>2

-------------------------------------------------------------------------------
(* Pools *)

LEMMA EmptyPoolList ==
  /\ EmptyPool \in PoolType /\ IsListOf(EmptyPool, {})
  /\ \A n \in 0 .. 1 : [EmptyPool EXCEPT !.empty_block_count = n] \in PoolType
                       /\ IsListOf([EmptyPool EXCEPT !.empty_block_count = n], {})
<1>1. << >> \in Seq(BlockIds) /\ Len(<< >>) = 0
  BY EmptySeq
<1> QED
  BY <1>1 DEF EmptyPool, PoolType, IsListOf

\* A pool with its list, its cursor and its counters replaced.
Relisted(pool, list, cursor, count, size, used) ==
  [pool EXCEPT !.blocks = list, !.cursor = cursor, !.block_count = count,
               !.total_area_size = size, !.total_area_used = used]

ListType  == Seq(BlockIds)
CountType == [0 .. 1 -> Int]

IsRelisted(pool, new, list, cursor) ==
  /\ new \in PoolType /\ new.blocks = list /\ new.cursor = cursor
  /\ new.empty_block_count = pool.empty_block_count

LEMMA RelistedType ==
  ASSUME NEW pool \in PoolType, NEW list \in ListType,
         NEW cursor \in BlockIds \cup {NoBlock}, NEW count \in Int,
         NEW size \in CountType, NEW used \in CountType
  PROVE  IsRelisted(pool, Relisted(pool, list, cursor, count, size, used), list, cursor)
  BY DEF IsRelisted, Relisted, PoolType, ListType, CountType

LEMMA InsertedList ==
  ASSUME NEW pool \in PoolType, NEW ids \in SUBSET BlockIds, IsListOf(pool, ids),
         NEW id \in BlockIds \ ids, NEW b \in BlockType
  PROVE  /\ InsertBlock(pool, id, b) \in PoolType
         /\ InsertBlock(pool, id, b).empty_block_count = pool.empty_block_count
         /\ IsListOf(InsertBlock(pool, id, b), ids \cup {id})
<1> DEFINE new    == InsertBlock(pool, id, b)
           list   == pool.blocks
           next   == Append(list, id)
           cursor == IF pool.cursor = NoBlock THEN id ELSE pool.cursor
           count  == pool.block_count + 1
           size   == [pool.total_area_size EXCEPT ![StatIndex(b)] = @ + b.area_size]
           used   == [pool.total_area_used EXCEPT ![StatIndex(b)] = @ + b.area_used]
<1>1. /\ list \in Seq(BlockIds) /\ StatIndex(b) \in 0 .. 1
      /\ b.area_size \in Int /\ b.area_used \in Int
  BY DEF PoolType, BlockType, StatIndex
<1>2. /\ next \in Seq(BlockIds) /\ Len(next) = Len(list) + 1 /\ Len(list) \in Nat
      /\ \A i \in 1 .. Len(list) : next[i] = list[i]
      /\ next[Len(list) + 1] = id
  BY <1>1, AppendProperties, LenProperties
<1>3. new = Relisted(pool, next, cursor, count, size, used)
  BY <1>1 DEF InsertBlock, Relisted, PoolType
<1>4. /\ new \in PoolType /\ new.blocks = next /\ new.cursor = cursor
      /\ new.empty_block_count = pool.empty_block_count
  <2>1. /\ cursor \in BlockIds \cup {NoBlock} /\ count \in Int
        /\ size \in CountType /\ used \in CountType
    BY SMTT(30), <1>1 DEF PoolType, CountType
  <2>2. next \in ListType
    BY <1>2 DEF ListType
  <2> HIDE DEF new, next, list, cursor, count, size, used
  <2>3. IsRelisted(pool, new, next, cursor)
    BY <1>3, <2>1, <2>2, RelistedType
  <2> QED
    BY <2>3 DEF IsRelisted
<1> HIDE DEF new, next, list
<1>5. \A i \in 1 .. Len(list) : list[i] \in ids
  BY DEF IsListOf, list
<1>6. \A i \in 1 .. Len(next) : i = Len(list) + 1 \/ i \in 1 .. Len(list)
  BY <1>2
<1>7. \A i \in 1 .. Len(next) : next[i] \in ids \cup {id}
  BY <1>2, <1>5, <1>6
<1>8. \A other \in ids \cup {id} : \E i \in 1 .. Len(next) : next[i] = other
  <2>1. \A other \in ids : \E i \in 1 .. Len(list) : list[i] = other
    BY DEF IsListOf, list
  <2> QED
    BY <1>2, <2>1
<1>9. \A i, j \in 1 .. Len(next) : next[i] = next[j] => i = j
  <2>1. \A i, j \in 1 .. Len(list) : list[i] = list[j] => i = j
    BY DEF IsListOf, list
  <2> QED
    BY <1>2, <1>5, <1>6, <2>1
<1>10. Len(next) # 0 /\ new.cursor \in ids \cup {id}
  BY <1>2, <1>4 DEF IsListOf
<1> QED
  BY <1>4, <1>7, <1>8, <1>9, <1>10 DEF IsListOf, new

LEMMA RemovedList ==
  ASSUME NEW pool \in PoolType, NEW ids \in SUBSET BlockIds, IsListOf(pool, ids),
         NEW id \in ids, NEW b \in BlockType
  PROVE  /\ RemoveBlock(pool, id, b) \in PoolType
         /\ RemoveBlock(pool, id, b).empty_block_count = pool.empty_block_count
         /\ IsListOf(RemoveBlock(pool, id, b), ids \ {id})
<1> DEFINE new   == RemoveBlock(pool, id, b)
           list  == pool.blocks
           n     == Len(list)
           k     == IndexIn(list, id)
           front == SubSeq(list, 1, k - 1)
           back  == SubSeq(list, k + 1, n)
           near  == IF k > 1 THEN list[k - 1] ELSE IF k < n THEN list[k + 1] ELSE NoBlock
           cursor == IF pool.cursor = id THEN near ELSE pool.cursor
           count  == pool.block_count - 1
           size   == [pool.total_area_size EXCEPT ![StatIndex(b)] = @ - b.area_size]
           used   == [pool.total_area_used EXCEPT ![StatIndex(b)] = @ - b.area_used]
<1>1. /\ list \in Seq(BlockIds) /\ StatIndex(b) \in 0 .. 1 /\ n \in Nat
      /\ b.area_size \in Int /\ b.area_used \in Int
      /\ \A i \in 1 .. n : list[i] \in BlockIds
  BY LenProperties, ElementOfSeq DEF PoolType, BlockType, StatIndex
<1>2. k \in 1 .. n /\ list[k] = id
  <2>1. \E i \in 1 .. n : list[i] = id
    BY DEF IsListOf
  <2> QED
    BY <2>1 DEF IndexIn
<1> HIDE DEF k
<1>3. /\ front \in Seq(BlockIds) /\ Len(front) = k - 1
      /\ \A i \in 1 .. k - 1 : front[i] = list[i]
  <2>1. \A i \in 1 .. k - 1 : list[i] \in BlockIds
    BY <1>1, <1>2
  <2>2. 1 \in Int /\ k - 1 \in Int
    BY <1>2
  <2>3. /\ front \in Seq(BlockIds) /\ Len(front) = IF 1 <= k - 1 THEN k - 1 - 1 + 1 ELSE 0
        /\ \A i \in 1 .. k - 1 - 1 + 1 : front[i] = list[1 + i - 1]
    BY <2>1, <2>2, SubSeqProperties
  <2> QED
    BY <1>2, <2>3
<1>4. /\ back \in Seq(BlockIds) /\ Len(back) = n - k
      /\ \A i \in 1 .. n - k : back[i] = list[k + i]
  <2>1. \A i \in k + 1 .. n : list[i] \in BlockIds
    BY <1>1, <1>2
  <2>2. k + 1 \in Int /\ n \in Int
    BY <1>1, <1>2
  <2>3. /\ back \in Seq(BlockIds) /\ Len(back) = IF k + 1 <= n THEN n - (k + 1) + 1 ELSE 0
        /\ \A i \in 1 .. n - (k + 1) + 1 : back[i] = list[(k + 1) + i - 1]
    BY <2>1, <2>2, SubSeqProperties
  <2> QED
    BY <1>1, <1>2, <2>3
<1> DEFINE next == front \o back
<1>5. /\ next \in Seq(BlockIds) /\ Len(next) = n - 1
      /\ \A i \in 1 .. n - 1 : next[i] = IF i < k THEN list[i] ELSE list[i + 1]
  <2> HIDE DEF front, back
  <2>1. /\ next \in Seq(BlockIds) /\ Len(next) = Len(front) + Len(back)
        /\ \A i \in 1 .. Len(front) + Len(back) :
             next[i] = IF i <= Len(front) THEN front[i] ELSE back[i - Len(front)]
    BY <1>3, <1>4, ConcatProperties
  <2> QED
    BY <1>1, <1>2, <1>3, <1>4, <2>1
<1>6. new = Relisted(pool, next, cursor, count, size, used)
  BY <1>1 DEF RemoveBlock, Relisted, PoolType, k
<1>7. near \in BlockIds \cup {NoBlock}
  BY <1>1, <1>2
<1>8. /\ new \in PoolType /\ new.blocks = next /\ new.cursor = cursor
      /\ new.empty_block_count = pool.empty_block_count
  <2>1. /\ cursor \in BlockIds \cup {NoBlock} /\ count \in Int
        /\ size \in CountType /\ used \in CountType
    BY SMTT(30), <1>1, <1>7 DEF PoolType, CountType
  <2>2. next \in ListType
    BY <1>5 DEF ListType
  <2> HIDE DEF new, next, cursor, count, size, used
  <2>3. IsRelisted(pool, new, next, cursor)
    BY <1>6, <2>1, <2>2, RelistedType
  <2> QED
    BY <2>3 DEF IsRelisted
<1>9. /\ \A i \in 1 .. n : list[i] \in ids
      /\ \A other \in ids : \E i \in 1 .. n : list[i] = other
      /\ \A i, j \in 1 .. n : list[i] = list[j] => i = j
      /\ n # 0 => pool.cursor \in ids
  BY DEF IsListOf
<1> HIDE DEF new, next, list, n
<1>10. \A i \in 1 .. n - 1 : next[i] \in ids \ {id}
  <2> SUFFICES ASSUME NEW i \in 1 .. n - 1 PROVE next[i] \in ids \ {id}
    OBVIOUS
  <2>1. CASE i < k
    <3>1. i \in 1 .. n /\ i # k /\ next[i] = list[i]
      BY <1>1, <1>2, <1>5, <2>1
    <3> QED
      BY <1>2, <1>9, <3>1
  <2>2. CASE ~(i < k)
    <3>1. i + 1 \in 1 .. n /\ i + 1 # k /\ next[i] = list[i + 1]
      BY <1>1, <1>2, <1>5, <2>2
    <3> QED
      BY <1>2, <1>9, <3>1
  <2> QED
    BY <2>1, <2>2
<1>11. \A other \in ids \ {id} : \E i \in 1 .. n - 1 : next[i] = other
  <2> SUFFICES ASSUME NEW other \in ids \ {id} PROVE \E i \in 1 .. n - 1 : next[i] = other
    OBVIOUS
  <2>1. PICK i \in 1 .. n : list[i] = other
    BY <1>9
  <2>2. i # k
    BY <1>2, <2>1
  <2>3. CASE i < k
    BY <1>1, <1>2, <1>5, <2>1, <2>3
  <2>4. CASE i > k
    <3>1. i - 1 \in 1 .. n - 1 /\ ~(i - 1 < k) /\ (i - 1) + 1 = i
      BY <1>1, <1>2, <2>1, <2>4
    <3>2. next[i - 1] = list[i]
      BY <1>5, <3>1
    <3> QED
      BY <2>1, <3>1, <3>2
  <2> QED
    BY <1>1, <1>2, <2>1, <2>2, <2>3, <2>4
<1>12. \A i, j \in 1 .. n - 1 : next[i] = next[j] => i = j
  BY <1>1, <1>2, <1>5, <1>9
<1>13. IF n - 1 = 0 THEN new.cursor = NoBlock ELSE new.cursor \in ids \ {id}
  <2>1. n - 1 = 0 => pool.cursor = id /\ near = NoBlock
    <3> SUFFICES ASSUME n - 1 = 0 PROVE pool.cursor = id /\ near = NoBlock
      OBVIOUS
    <3>1. n = 1 /\ k = 1
      BY <1>1, <1>2
    <3> QED
      BY <1>2, <1>9, <3>1
  <2>2. n - 1 # 0 => near \in ids \ {id}
    BY <1>1, <1>2, <1>9
  <2> HIDE DEF near
  <2> QED
    BY <1>8, <1>9, <1>1, <1>2, <2>1, <2>2
<1> QED
  BY <1>5, <1>8, <1>10, <1>11, <1>12, <1>13 DEF IsListOf, new

\* alloc() visits blocks of the pool and no other.
LEMMA VisitedIds ==
  ASSUME NEW pool \in PoolType, NEW ids, IsListOf(pool, ids)
  PROVE  /\ Len(Visit(pool)) \in Nat
         /\ \A k \in 1 .. Len(Visit(pool)) : Visit(pool)[k] \in ids
<1> DEFINE n == Len(pool.blocks)
           c == IndexIn(pool.blocks, pool.cursor)
           visit == [k \in 1 .. n |-> pool.blocks[((c + k - 2) % n) + 1]]
<1>1. n \in Nat
  BY LenProperties DEF PoolType
<1>2. Visit(pool) = visit
  BY DEF Visit
<1>3. n # 0 => c \in 1 .. n
  <2>1. n # 0 => \E i \in 1 .. n : pool.blocks[i] = pool.cursor
    BY DEF IsListOf
  <2> QED
    BY <2>1 DEF IndexIn
<1> HIDE DEF n, c
<1>4. \A k \in 1 .. n : ((c + k - 2) % n) + 1 \in 1 .. n
  BY <1>1, <1>3
<1>5. \A k \in 1 .. n : visit[k] \in ids
  BY <1>4 DEF IsListOf, n
<1>6. Len(visit) = n
  BY <1>1
<1> HIDE DEF visit
<1> QED
  BY <1>1, <1>2, <1>5, <1>6

-------------------------------------------------------------------------------
(* New blocks *)

LEMMA RoundUpBound ==
  ASSUME NEW n \in Nat, NEW unit \in Nat \ {0}
  PROVE  RoundUp(n, unit) \in Nat /\ n <= RoundUp(n, unit)
  BY DEF RoundUp

LEMMA PaddingType ==
  ASSUME NEW p \in Pools
  PROVE  /\ Padding(p) \in Nat
         /\ HasOption("DisableInitialPadding") => Padding(p) = 0
         /\ ~HasOption("DisableInitialPadding") => Padding(p) = Granularity(p)
  BY GranularityType DEF Padding

\* A new block is large enough for what it is mapped for, and its padding.
LEMMA IdealBlockSizeBound ==
  ASSUME StateTypes, PoolLists, NEW p \in Pools, NEW size \in Nat
  PROVE  /\ IdealBlockSize(p, size) \in Nat
         /\ size + Padding(p) <= IdealBlockSize(p, size)
<1> DEFINE list    == pools[p].blocks
           base    == IF list = << >> THEN BlockSize ELSE blk[list[Len(list)]].block_size
           doubled == IF base < MaxBlockSize THEN 2 * base ELSE base
           needed  == size + Padding(p)
<1>1. list \in Seq(BlockIds)
  BY DEF StateTypes, PoolType
<1>2. base \in Nat
  <2>1. CASE list = << >>
    BY <2>1, ConstantsAssumption
  <2>2. CASE list # << >>
    <3>1. Len(list) \in 1 .. Len(list)
      BY <1>1, <2>2, EmptySeq
    <3>2. list[Len(list)] \in Ids
      BY <3>1 DEF PoolLists, IsListOf, IdsOf
    <3>3. blk[list[Len(list)]].block_size \in Nat
      BY <3>2 DEF StateTypes, BlockType
    <3> QED
      BY <2>2, <3>3
  <2> QED
    BY <2>1, <2>2
<1> HIDE DEF base, list
<1>3. doubled \in Nat
  BY <1>2, ConstantsAssumption
<1>4. needed \in Nat
  BY PaddingType
<1>5. RoundUp(needed, BlockSize) \in Nat /\ needed <= RoundUp(needed, BlockSize)
  BY <1>4, RoundUpBound, ConstantsAssumption
<1>6. IdealBlockSize(p, size) = IF needed > doubled THEN RoundUp(needed, BlockSize) ELSE doubled
  BY DEF IdealBlockSize, base, list
<1> HIDE DEF doubled, needed
<1>7. /\ IdealBlockSize(p, size) \in Nat
      /\ needed <= IdealBlockSize(p, size)
  BY <1>3, <1>4, <1>5, <1>6
<1> QED
  BY <1>7 DEF needed

\* b is a block nobody holds a span of, and n granules can be taken from it.
IsFresh(b, p, n) ==
  /\ b.pool = p /\ BlockInv(b) /\ HoldsSpans(b, {})
  /\ HasRoom(b, n) /\ AreaIndex(b, n) = InitialAreaStart(b)
  /\ InitialAreaStart(b) \in Nat /\ InitialAreaStart(b) + n <= b.area_size
  /\ IsFilledUp(b)

LEMMA NewBlockIsFresh ==
  ASSUME NEW p \in Pools, NEW size \in Nat \ {0}, NEW large \in BOOLEAN,
         NEW total \in Nat, size + Padding(p) <= total
  PROVE  IsFresh(NewBlock(p, total, large), p, AreaSizeOf(p, size))
<1> DEFINE n   == AreaSizeOf(p, size)
           raw == RawBlock(p, total, large)
           b   == NewBlock(p, total, large)
<1>1. n \in Nat \ {0} /\ AreaSizeOf(p, total) \in Nat
  BY AreaSizeBound
<1>2. raw \in BlockType /\ raw.area_size = AreaSizeOf(p, total) /\ raw.pool = p
  <2>1. p \in Nat
    BY DEF Pools
  <2>2. /\ (IF HasOption("DisableInitialPadding") THEN {} ELSE {"InitialPadding"})
             \cup (IF large THEN {"LargePages"} ELSE {}) \in SUBSET BlockFlags
        /\ (IF HasOption("FillUnusedMemory") THEN 0 .. AreaSizeOf(p, total) - 1 ELSE {})
             \in SUBSET Nat
    BY <1>1 DEF BlockFlags
  <2> QED
    BY <1>1, <2>1, <2>2 DEF RawBlock, BlockType
<1>3. /\ raw.filled \subseteq 0 .. raw.area_size - 1
      /\ HasOption("FillUnusedMemory") => raw.filled = 0 .. raw.area_size - 1
  BY <1>2 DEF RawBlock
<1>4. InitialAreaStart(raw) \in Nat /\ InitialAreaStart(raw) + n <= raw.area_size
  <2>1. CASE HasOption("DisableInitialPadding")
    <3>1. Padding(p) = 0
      BY <2>1, PaddingType
    <3>2. AreaSizeOf(p, size) <= AreaSizeOf(p, total)
      BY <3>1, AreaSizeBound
    <3>3. InitialAreaStart(raw) = 0
      BY <2>1 DEF InitialAreaStart, RawBlock
    <3> QED
      BY <1>1, <1>2, <3>2, <3>3
  <2>2. CASE ~HasOption("DisableInitialPadding")
    <3>1. Padding(p) = Granularity(p)
      BY <2>2, PaddingType
    <3>2. AreaSizeOf(p, size) + 1 <= AreaSizeOf(p, total)
      BY <3>1, AreaSizeBound
    <3>3. InitialAreaStart(raw) = 1
      BY <2>2 DEF InitialAreaStart, RawBlock
    <3> QED
      BY <1>1, <1>2, <3>2, <3>3
  <2> QED
    BY <2>1, <2>2
<1> HIDE DEF raw, n
<1>5. /\ BlockInv(b) /\ SameShape(raw, b) /\ IsIncremental(b)
      /\ b.used = InitialArea(b) /\ b.stop = InitialArea(b)
      /\ b.search_start = InitialAreaStart(b)
      /\ b.largest_unused_area = b.area_size - InitialAreaStart(b)
      /\ b.filled = raw.filled
  <2>1. InitialAreaStart(raw) <= raw.area_size
    BY <1>1, <1>2, <1>4
  <2>2. b = ClearBlock(raw)
    BY DEF NewBlock, raw
  <2> HIDE DEF b
  <2> QED
    BY <1>2, <1>3, <2>1, <2>2, ClearedBlockInv
<1> HIDE DEF b
<1>6. /\ InitialAreaStart(b) \in Nat /\ InitialAreaStart(b) + n <= b.area_size
      /\ b.area_size \in Nat /\ b.pool = p
  BY <1>1, <1>2, <1>4, <1>5, SamePadding DEF SameShape
<1>7. FastPath(b, n)
  BY <1>1, <1>5, <1>6 DEF FastPath
<1>8. HasRoom(b, n) /\ AreaIndex(b, n) = InitialAreaStart(b)
  BY <1>5, <1>7 DEF HasRoom, AreaIndex
<1>9. HoldsSpans(b, {})
  BY <1>5 DEF HoldsSpans
<1>10. IsFilledUp(b)
  BY <1>3, <1>5 DEF IsFilledUp, SameShape
<1> QED
  BY <1>5, <1>6, <1>8, <1>9, <1>10 DEF IsFresh, b, n

-------------------------------------------------------------------------------
(* Steps *)

\* c is block id after a step that gave none of its granules away or back.
Kept(id, c) ==
  /\ c.pool = blk[id].pool /\ BlockInv(c) /\ HoldsSpans(c, SpansOf(id))
  /\ IsEmptyBlock(c) <=> IsEmptyBlock(blk[id])
  /\ IsSearched(blk[id], c)

LEMMA SpansOfType ==
  ASSUME StateTypes, NEW id
  PROVE  SpansOf(id) \in SUBSET SpanType
  BY DEF StateTypes, SpansOf, SpanType

\* Blocks alloc() scanned in vain, and the ones it did not scan, are kept.
LEMMA PassedOverKept ==
  ASSUME IInv, NEW order, NEW k \in Nat, NEW n \in Nat \ {0},
         \A j \in 1 .. k - 1 : ~HasRoom(blk[order[j]], n)
  PROVE  /\ PassedOver(order, k, n) = [id \in Ids |-> PassedOver(order, k, n)[id]]
         /\ \A id \in Ids : Kept(id, PassedOver(order, k, n)[id])
<1>1. PassedOver(order, k, n) = [id \in Ids |-> PassedOver(order, k, n)[id]]
  BY DEF PassedOver, Ids
<1>2. ASSUME NEW id \in Ids PROVE Kept(id, PassedOver(order, k, n)[id])
  <2>1. BlockInv(blk[id]) /\ HoldsSpans(blk[id], SpansOf(id))
    BY DEF IInv, Blocks
  <2>2. CASE \E j \in 1 .. k - 1 : order[j] = id
    <3>1. ~HasRoom(blk[id], n)
      BY <2>2
    <3>2. IsSearched(blk[id], PassOver(blk[id], n))
      BY <2>1, <3>1, PassOverInv
    <3>3. PassedOver(order, k, n)[id] = PassOver(blk[id], n)
      BY <2>2 DEF PassedOver, Ids
    <3>4. HoldsSpans(PassOver(blk[id], n), SpansOf(id))
      BY <2>1, <3>2, SpansKept DEF IsSearched
    <3> QED
      BY <3>2, <3>3, <3>4 DEF Kept, IsSearched, SameShape
  <2>3. CASE ~ \E j \in 1 .. k - 1 : order[j] = id
    BY <2>1, <2>3 DEF PassedOver, Ids, Kept, IsSearched, SameShape
  <2> QED
    BY <2>2, <2>3
<1> QED
  BY <1>1, <1>2

LEMMA UnchangedInv ==
  ASSUME IInv, UNCHANGED <<blk, pools, tree, allocation_count, spans>>
  PROVE  IInv'
  BY DEF IInv, StateTypes, PoolLists, OneEmptyBlock, Blocks, Ids, IdsOf, EmptyIn, SpansOf

\* What a step that changes the areas of block id, and of no other, leaves.
SameBlocks(id) ==
  /\ blk' = [i \in Ids |-> blk'[i]] /\ tree' = tree
  /\ \A i \in Ids \ {id} : Kept(i, blk'[i])
  /\ id \in Ids => /\ blk'[id].pool = blk[id].pool /\ BlockInv(blk'[id])
                   /\ HoldsSpans(blk'[id], SpansOf(id)')

SameSpansBut(id) ==
  /\ spans' \in SUBSET SpanType
  /\ \A s \in spans' : s \in spans \/ (s.block = id /\ id \in Ids)
  /\ \A s \in spans : s \in spans' \/ s.block = id

SameLists ==
  /\ pools' \in [Pools -> PoolType]
  /\ \A p \in Pools : pools'[p].blocks = pools[p].blocks /\ pools'[p].cursor = pools[p].cursor

\* The count of empty blocks follows what happens to block id.
CountFollows(id) ==
  /\ \A p \in Pools : pools'[p].empty_block_count # pools[p].empty_block_count =>
                        id \in Ids /\ p = blk[id].pool
  /\ id \in Ids =>
       IF IsEmptyBlock(blk'[id])
       THEN pools'[blk[id].pool].empty_block_count = 1 /\ EmptyIn(blk[id].pool) \subseteq {id}
       ELSE \/ IsEmptyBlock(blk[id])
            \/ pools'[blk[id].pool].empty_block_count = pools[blk[id].pool].empty_block_count

LEMMA OneBlockStep ==
  ASSUME IInv, NEW id, SameBlocks(id), SameSpansBut(id), SameLists, CountFollows(id),
         allocation_count' \in Int
  PROVE  IInv'
<1>1. Ids' = Ids
  BY DEF SameBlocks, Ids
<1>2. \A i \in Ids : blk'[i].pool = blk[i].pool /\ BlockInv(blk'[i])
  BY DEF SameBlocks, Kept
<1>3. StateTypes'
  <2>1. \A i \in Ids : blk'[i] \in BlockType
    BY <1>2 DEF BlockInv, InBounds
  <2>2. blk' \in [Ids -> BlockType]
    BY <2>1 DEF SameBlocks
  <2> QED
    BY <1>1, <2>2 DEF IInv, StateTypes, SameBlocks, SameSpansBut, SameLists, SpanType
<1>4. PoolLists'
  <2> SUFFICES ASSUME NEW p \in Pools PROVE IsListOf(pools'[p], IdsOf(p)')
    BY DEF PoolLists
  <2>1. IdsOf(p)' = IdsOf(p)
    BY <1>1, <1>2 DEF IdsOf
  <2>2. IsListOf(pools[p], IdsOf(p))
    BY DEF IInv, PoolLists
  <2> QED
    BY <2>1, <2>2 DEF SameLists, IsListOf
<1>5. OneEmptyBlock'
  <2> SUFFICES ASSUME NEW p \in Pools, NEW e \in EmptyIn(p)'
               PROVE  /\ pools'[p].empty_block_count = 1
                      /\ \A other \in EmptyIn(p)' : other = e
    BY DEF OneEmptyBlock
  <2>1. \A i \in Ids \ {id} : IsEmptyBlock(blk'[i]) <=> IsEmptyBlock(blk[i])
    BY DEF SameBlocks, Kept
  <2>2. \A i \in EmptyIn(p)' : i = id \/ i \in EmptyIn(p)
    BY <1>1, <1>2, <2>1 DEF EmptyIn
  <2>3. \A i \in EmptyIn(p)' : i \in Ids /\ blk[i].pool = p /\ IsEmptyBlock(blk'[i])
    BY <1>1, <1>2 DEF EmptyIn
  <2>4. \A i, j \in EmptyIn(p) : i = j /\ pools[p].empty_block_count = 1
    BY DEF IInv, OneEmptyBlock
  <2>5. CASE id \in EmptyIn(p)'
    <3>1. pools'[p].empty_block_count = 1 /\ EmptyIn(p) \subseteq {id}
      BY <2>3, <2>5 DEF CountFollows
    <3> QED
      BY <2>2, <3>1
  <2>6. CASE id \notin EmptyIn(p)'
    <3>1. \A i \in EmptyIn(p)' : i # id /\ i \in EmptyIn(p)
      BY <2>2, <2>6
    <3>2. pools'[p].empty_block_count = pools[p].empty_block_count
      <4>1. CASE id \in Ids /\ blk[id].pool = p
        <5>1. ~IsEmptyBlock(blk'[id])
          BY <1>1, <1>2, <2>6, <4>1 DEF EmptyIn
        <5>2. ~IsEmptyBlock(blk[id])
          BY <2>4, <3>1, <4>1 DEF EmptyIn
        <5> QED
          BY <4>1, <5>1, <5>2 DEF CountFollows
      <4>2. CASE ~(id \in Ids /\ blk[id].pool = p)
        BY <4>2 DEF CountFollows
      <4> QED
        BY <4>1, <4>2
    <3> QED
      BY <2>4, <3>1, <3>2
  <2> QED
    BY <2>5, <2>6
<1>6. Blocks'
  <2> SUFFICES ASSUME NEW i \in Ids
               PROVE  /\ blk'[i].pool \in Pools /\ BlockInv(blk'[i])
                      /\ HoldsSpans(blk'[i], SpansOf(i)')
    BY <1>1 DEF Blocks
  <2>1. blk[i].pool \in Pools
    BY DEF IInv, Blocks
  <2>2. CASE i = id
    BY <1>2, <2>1, <2>2 DEF SameBlocks
  <2>3. CASE i # id
    <3>1. SpansOf(i)' = SpansOf(i)
      BY <2>3 DEF SpansOf, SameSpansBut
    <3> QED
      BY <1>2, <2>1, <2>3, <3>1 DEF SameBlocks, Kept
  <2> QED
    BY <2>2, <2>3
<1>7. \A s \in spans' : s.block \in Ids'
  BY <1>1 DEF IInv, SameSpansBut
<1> QED
  BY <1>3, <1>4, <1>5, <1>6, <1>7 DEF IInv

LEMMA RequestFacts ==
  ASSUME IInv, NEW size \in Requests
  PROVE  LET p     == SizeToPoolId(size)
             order == Visit(pools[p])
         IN /\ p \in Pools /\ size \in Nat \ {0} /\ AreaSizeOf(p, size) \in Nat \ {0}
            /\ Len(order) \in Nat
            /\ \A k \in 1 .. Len(order) : order[k] \in Ids /\ blk[order[k]].pool = p
<1>1. size \in Nat \ {0}
  BY ConstantsAssumption
<1>2. SizeToPoolId(size) \in Pools
  BY <1>1, PoolOfSize
<1> DEFINE p == SizeToPoolId(size)
<1>3. AreaSizeOf(p, size) \in Nat \ {0}
  BY <1>1, <1>2, AreaSizeBound
<1>4. pools[p] \in PoolType /\ IsListOf(pools[p], IdsOf(p))
  BY <1>2 DEF IInv, StateTypes, PoolLists
<1>5. /\ Len(Visit(pools[p])) \in Nat
      /\ \A k \in 1 .. Len(Visit(pools[p])) : Visit(pools[p])[k] \in IdsOf(p)
  BY <1>4, VisitedIds
<1> QED
  BY <1>1, <1>2, <1>3, <1>5 DEF IdsOf

-------------------------------------------------------------------------------
(* What a step does to the counters *)

\* What block id counts for in slot i of the statistics of pool p.
SizeShare(id, p, i) == IF id \in CountedIn(p, i) THEN blk[id].area_size ELSE 0
UseShare(id, p, i)  == IF id \in CountedIn(p, i) THEN blk[id].area_used ELSE 0

\* The statistics of pool p change by what block id counts for.
SharesFollow(id, p) ==
  /\ pools'[p].block_count - Len(pools'[p].blocks) = pools[p].block_count - Len(pools[p].blocks)
  /\ \A i \in 0 .. 1 :
       /\ pools'[p].total_area_size[i] - SizeShare(id, p, i)'
            = pools[p].total_area_size[i] - SizeShare(id, p, i)
       /\ pools'[p].total_area_used[i] - UseShare(id, p, i)'
            = pools[p].total_area_used[i] - UseShare(id, p, i)

\* An empty block that pool p counts is there.
EmptyFollows(p) ==
  \/ pools'[p].empty_block_count = 0
  \/ pools'[p].empty_block_count = pools[p].empty_block_count /\ EmptyIn(p) \subseteq EmptyIn(p)'
  \/ ~HasOption("ImmediateRelease") /\ EmptyIn(p)' # {}

\* What a step that changes block id, and no other, does to counters and memory.
Effect(id) ==
  /\ Ids' \ {id} = Ids \ {id}
  /\ \A i \in Ids \ {id} : IsSearched(blk[i], blk'[i])
  /\ \A p \in Pools : SharesFollow(id, p) /\ EmptyFollows(p)
  /\ id \in Ids' => IsFilledUp(blk'[id]) \/ (id \in Ids /\ ~IsFilledUp(blk[id]))

\* Pool `new` lists k blocks more than `old`, and counts size and used granules
\* more in one slot.
Recounted(old, new, k, slot, size, used) ==
  /\ new.block_count - old.block_count = k /\ Len(new.blocks) - Len(old.blocks) = k
  /\ \A i \in 0 .. 1 :
       /\ new.total_area_size[i] = IF i = slot THEN old.total_area_size[i] + size
                                   ELSE old.total_area_size[i]
       /\ new.total_area_used[i] = IF i = slot THEN old.total_area_used[i] + used
                                   ELSE old.total_area_used[i]

LEMMA AddUsedType ==
  ASSUME NEW pool \in PoolType, NEW b, NEW n \in Int
  PROVE  /\ AddUsed(pool, b, n) \in PoolType
         /\ AddUsed(pool, b, n).blocks = pool.blocks
         /\ AddUsed(pool, b, n).cursor = pool.cursor
         /\ AddUsed(pool, b, n).empty_block_count = pool.empty_block_count
<1> DEFINE used == [pool.total_area_used EXCEPT ![StatIndex(b)] = @ + n]
<1>1. StatIndex(b) \in 0 .. 1
  BY DEF StatIndex
<1>2. used \in CountType
  BY <1>1 DEF PoolType, CountType
<1>3. AddUsed(pool, b, n) = [pool EXCEPT !.total_area_used = used]
  BY DEF AddUsed, PoolType
<1> HIDE DEF used
<1> QED
  BY <1>2, <1>3 DEF PoolType, CountType

LEMMA AddUsedRecounts ==
  ASSUME NEW pool \in PoolType, NEW b, NEW n \in Int
  PROVE  /\ Recounted(pool, AddUsed(pool, b, n), 0, StatIndex(b), 0, n)
         /\ Recounted(pool, PoolPlaced(pool, b, n), 0, StatIndex(b), 0, n)
         /\ PoolPlaced(pool, b, n).empty_block_count =
              IF IsEmptyBlock(b) THEN pool.empty_block_count - 1 ELSE pool.empty_block_count
<1> DEFINE used == [pool.total_area_used EXCEPT ![StatIndex(b)] = @ + n]
           more == AddUsed(pool, b, n)
           placed == PoolPlaced(pool, b, n)
<1>1. StatIndex(b) \in 0 .. 1 /\ Len(pool.blocks) \in Nat /\ pool.block_count \in Int
      /\ pool.total_area_used \in [0 .. 1 -> Int] /\ pool.total_area_size \in [0 .. 1 -> Int]
  BY LenProperties DEF StatIndex, PoolType
<1>2. /\ more.blocks = pool.blocks /\ more.block_count = pool.block_count
      /\ more.total_area_size = pool.total_area_size /\ more.total_area_used = used
      /\ more.empty_block_count = pool.empty_block_count /\ more \in PoolType
  BY <1>1, AddUsedType DEF AddUsed, PoolType
<1>3. /\ placed.blocks = more.blocks /\ placed.block_count = more.block_count
      /\ placed.total_area_size = more.total_area_size
      /\ placed.total_area_used = more.total_area_used
      /\ placed.empty_block_count =
           IF IsEmptyBlock(b) THEN pool.empty_block_count - 1 ELSE pool.empty_block_count
  <2> HIDE DEF more
  <2> QED
    BY <1>2 DEF PoolPlaced, PoolType, more
<1>4. \A i \in 0 .. 1 : /\ used[i] = IF i = StatIndex(b) THEN pool.total_area_used[i] + (n) ELSE pool.total_area_used[i]
                        /\ pool.total_area_size[i] \in Int
  BY <1>1
<1> HIDE DEF more, placed, used
<1>5. Recounted(pool, more, 0, StatIndex(b), 0, n)
  BY <1>1, <1>2, <1>4 DEF Recounted
<1>6. Recounted(pool, placed, 0, StatIndex(b), 0, n)
  BY <1>1, <1>2, <1>3, <1>4 DEF Recounted
<1> QED
  BY <1>3, <1>5, <1>6 DEF more, placed

LEMMA InsertRecounts ==
  ASSUME NEW pool \in PoolType, NEW id \in BlockIds, NEW b \in BlockType
  PROVE  Recounted(pool, InsertBlock(pool, id, b), 1, StatIndex(b), b.area_size, b.area_used)
<1> DEFINE new == InsertBlock(pool, id, b)
           size == [pool.total_area_size EXCEPT ![StatIndex(b)] = @ + b.area_size]
           used == [pool.total_area_used EXCEPT ![StatIndex(b)] = @ + b.area_used]
<1>1. /\ StatIndex(b) \in 0 .. 1 /\ pool.blocks \in Seq(BlockIds) /\ pool.block_count \in Int
      /\ pool.total_area_used \in [0 .. 1 -> Int] /\ pool.total_area_size \in [0 .. 1 -> Int]
      /\ b.area_size \in Int /\ b.area_used \in Int
  BY DEF StatIndex, PoolType, BlockType
<1>2. /\ new.blocks = Append(pool.blocks, id) /\ new.block_count = pool.block_count + 1
      /\ new.total_area_size = size /\ new.total_area_used = used
  BY DEF InsertBlock, PoolType
<1>3. Len(Append(pool.blocks, id)) = Len(pool.blocks) + 1 /\ Len(pool.blocks) \in Nat
  BY <1>1, AppendProperties, LenProperties
<1>4. \A i \in 0 .. 1 :
        /\ size[i] = IF i = StatIndex(b) THEN pool.total_area_size[i] + (b.area_size) ELSE pool.total_area_size[i]
        /\ used[i] = IF i = StatIndex(b) THEN pool.total_area_used[i] + (b.area_used) ELSE pool.total_area_used[i]
  BY <1>1
<1> HIDE DEF new, size, used
<1> QED
  BY <1>1, <1>2, <1>3, <1>4 DEF Recounted, new

LEMMA RemoveRecounts ==
  ASSUME NEW pool \in PoolType, NEW ids, IsListOf(pool, ids), NEW id \in ids,
         NEW b \in BlockType
  PROVE  Recounted(pool, RemoveBlock(pool, id, b), -1, StatIndex(b), 0 - b.area_size, 0 - b.area_used)
<1> DEFINE new  == RemoveBlock(pool, id, b)
           list == pool.blocks
           n    == Len(list)
           k    == IndexIn(list, id)
           front == SubSeq(list, 1, k - 1)
           back == SubSeq(list, k + 1, n)
           left == front \o back
           size == [pool.total_area_size EXCEPT ![StatIndex(b)] = @ - b.area_size]
           used == [pool.total_area_used EXCEPT ![StatIndex(b)] = @ - b.area_used]
<1>1. /\ StatIndex(b) \in 0 .. 1 /\ list \in Seq(BlockIds) /\ pool.block_count \in Int
      /\ pool.total_area_used \in [0 .. 1 -> Int] /\ pool.total_area_size \in [0 .. 1 -> Int]
      /\ b.area_size \in Int /\ b.area_used \in Int /\ n \in Nat
      /\ \A i \in 1 .. n : list[i] \in BlockIds
  BY LenProperties, ElementOfSeq DEF StatIndex, PoolType, BlockType
<1>2. k \in 1 .. n
  BY DEF IsListOf, IndexIn
<1>3. /\ new.blocks = left /\ new.block_count = pool.block_count - 1
      /\ new.total_area_size = size /\ new.total_area_used = used
  BY DEF RemoveBlock, PoolType
<1> HIDE DEF k
<1>4. Len(left) = n - 1
  <2>1. front \in Seq(BlockIds) /\ Len(front) = IF 1 <= k - 1 THEN k - 1 - 1 + 1 ELSE 0
    <3>1. \A i \in 1 .. k - 1 : list[i] \in BlockIds
      BY <1>1, <1>2
    <3>2. 1 \in Int /\ k - 1 \in Int
      BY <1>2
    <3> QED
      BY <3>1, <3>2, SubSeqProperties
  <2>2. back \in Seq(BlockIds) /\ Len(back) = IF k + 1 <= n THEN n - (k + 1) + 1 ELSE 0
    <3>1. \A i \in k + 1 .. n : list[i] \in BlockIds
      BY <1>1, <1>2
    <3>2. k + 1 \in Int /\ n \in Int
      BY <1>1, <1>2
    <3> QED
      BY <3>1, <3>2, SubSeqProperties
  <2> HIDE DEF front, back
  <2>3. Len(left) = Len(front) + Len(back)
    BY <2>1, <2>2, ConcatProperties
  <2> HIDE DEF left, list, n
  <2> QED
    BY <1>1, <1>2, <2>1, <2>2, <2>3
<1>5. \A i \in 0 .. 1 :
        /\ size[i] = IF i = StatIndex(b) THEN pool.total_area_size[i] + (0 - b.area_size) ELSE pool.total_area_size[i]
        /\ used[i] = IF i = StatIndex(b) THEN pool.total_area_used[i] + (0 - b.area_used) ELSE pool.total_area_used[i]
  BY <1>1
<1> HIDE DEF new, size, used, left
<1> QED
  BY <1>1, <1>3, <1>4, <1>5 DEF Recounted, new

LEMMA RecountedTwice ==
  ASSUME NEW a \in PoolType, NEW b \in PoolType, NEW c \in PoolType,
         NEW j \in Int, NEW k \in Int, NEW slot,
         NEW sa \in Int, NEW ua \in Int, NEW sb \in Int, NEW ub \in Int,
         Recounted(a, b, j, slot, sa, ua), Recounted(b, c, k, slot, sb, ub)
  PROVE  Recounted(a, c, j + k, slot, sa + sb, ua + ub)
<1>1. ASSUME NEW p \in PoolType
      PROVE  /\ Len(p.blocks) \in Int /\ p.block_count \in Int
             /\ \A i \in 0 .. 1 : p.total_area_size[i] \in Int /\ p.total_area_used[i] \in Int
  <2>1. /\ p.blocks \in Seq(BlockIds) /\ p.block_count \in Int
        /\ p.total_area_size \in [0 .. 1 -> Int] /\ p.total_area_used \in [0 .. 1 -> Int]
    BY DEF PoolType
  <2>2. Len(p.blocks) \in Nat
    BY <2>1, LenProperties
  <2> QED
    BY <2>1, <2>2
<1>2. /\ a.block_count \in Int /\ b.block_count \in Int /\ c.block_count \in Int
      /\ Len(a.blocks) \in Int /\ Len(b.blocks) \in Int /\ Len(c.blocks) \in Int
  BY <1>1
<1>3. c.block_count - a.block_count = j + k /\ Len(c.blocks) - Len(a.blocks) = j + k
  <2>1. /\ b.block_count - a.block_count = j /\ Len(b.blocks) - Len(a.blocks) = j
        /\ c.block_count - b.block_count = k /\ Len(c.blocks) - Len(b.blocks) = k
    BY DEF Recounted
  <2>2. c.block_count - a.block_count = j + k
    BY SMTT(30), <1>2, <2>1
  <2>3. \A x, y, z \in Int : y - x = j /\ z - y = k => z - x = j + k
    OBVIOUS
  <2>4. Len(c.blocks) - Len(a.blocks) = j + k
    BY <1>2, <2>1, <2>3
  <2> QED
    BY <2>2, <2>4
<1>4. ASSUME NEW i \in 0 .. 1
      PROVE  /\ c.total_area_size[i] = IF i = slot THEN a.total_area_size[i] + (sa + sb)
                                       ELSE a.total_area_size[i]
             /\ c.total_area_used[i] = IF i = slot THEN a.total_area_used[i] + (ua + ub)
                                       ELSE a.total_area_used[i]
  <2>1. a.total_area_size[i] \in Int /\ a.total_area_used[i] \in Int
    BY <1>1
  <2>2. /\ i = slot => /\ b.total_area_size[i] = a.total_area_size[i] + sa
                       /\ b.total_area_used[i] = a.total_area_used[i] + ua
                       /\ c.total_area_size[i] = b.total_area_size[i] + sb
                       /\ c.total_area_used[i] = b.total_area_used[i] + ub
        /\ i # slot => /\ b.total_area_size[i] = a.total_area_size[i]
                       /\ b.total_area_used[i] = a.total_area_used[i]
                       /\ c.total_area_size[i] = b.total_area_size[i]
                       /\ c.total_area_used[i] = b.total_area_used[i]
    BY DEF Recounted
  <2> QED
    BY <2>1, <2>2
<1> QED
  BY <1>3, <1>4 DEF Recounted

\* CountedIn reads the pool of a block and whether its pages are large.
LEMMA SlotOf ==
  ASSUME NEW id, NEW p, NEW i
  PROVE  id \in CountedIn(p, i) <=> id \in Ids /\ blk[id].pool = p /\ StatIndex(blk[id]) = i
  BY DEF CountedIn

LEMMA SlotOfNext ==
  ASSUME NEW id, NEW p, NEW i
  PROVE  id \in CountedIn(p, i)' <=> id \in Ids' /\ blk'[id].pool = p /\ StatIndex(blk'[id]) = i
  BY DEF CountedIn

\* Blocks that keep their shape stay in their slot.
LEMMA SameSlot ==
  ASSUME NEW b, NEW c, SameShape(b, c)
  PROVE  StatIndex(c) = StatIndex(b)
  BY DEF SameShape, StatIndex

\* The count of empty blocks in pool q, when only block id may stop being one.
LEMMA EmptyKept ==
  ASSUME NEW id, Ids \ {id} \subseteq Ids', \A i \in Ids \ {id} : IsSearched(blk[i], blk'[i]),
         NEW q, pools'[q].empty_block_count = pools[q].empty_block_count, id \notin EmptyIn(q)
  PROVE  EmptyFollows(q)
<1>1. ASSUME NEW i \in EmptyIn(q) PROVE i \in EmptyIn(q)'
  <2>1. i \in Ids \ {id} /\ blk[i].pool = q /\ IsEmptyBlock(blk[i])
    BY DEF EmptyIn
  <2>2. blk'[i].pool = q /\ IsEmptyBlock(blk'[i]) /\ i \in Ids'
    BY <2>1 DEF IsSearched, SameShape
  <2> QED
    BY <2>2 DEF EmptyIn
<1> QED
  BY <1>1 DEF EmptyFollows

\* What the pool of the changed block, with its new list and counts, looks like.
PoolChanged(p, pool) == pools' = [pools EXCEPT ![p] = pool] /\ pool \in PoolType

LEMMA OtherPools ==
  ASSUME IInv, NEW p \in Pools, NEW pool, PoolChanged(p, pool), NEW q \in Pools
  PROVE  /\ q = p => pools'[q] = pool
         /\ q # p => pools'[q] = pools[q]
         /\ pools[q] \in PoolType /\ pools'[q] \in PoolType
         /\ pools[q].block_count \in Int /\ Len(pools[q].blocks) \in Int
         /\ \A i \in 0 .. 1 : /\ pools[q].total_area_size[i] \in Int
                              /\ pools[q].total_area_used[i] \in Int
<1>1. pools \in [Pools -> PoolType]
  BY DEF IInv, StateTypes
<1>2. pools[q] \in PoolType
  BY <1>1
<1>3. /\ pools[q].blocks \in Seq(BlockIds) /\ pools[q].block_count \in Int
      /\ pools[q].total_area_size \in [0 .. 1 -> Int]
      /\ pools[q].total_area_used \in [0 .. 1 -> Int]
  BY <1>2 DEF PoolType
<1>4. Len(pools[q].blocks) \in Nat
  BY <1>3, LenProperties
<1> QED
  BY <1>1, <1>2, <1>3, <1>4 DEF PoolChanged

\* Block id counts for so many more granules, and so many more used ones, in one
\* slot of pool p.
ShareChanges(id, p, slot, size, used) ==
  \A q \in Pools, i \in 0 .. 1 :
    /\ SizeShare(id, q, i) \in Int /\ UseShare(id, q, i) \in Int
    /\ SizeShare(id, q, i)' = IF q = p /\ i = slot THEN SizeShare(id, q, i) + size
                              ELSE SizeShare(id, q, i)
    /\ UseShare(id, q, i)' = IF q = p /\ i = slot THEN UseShare(id, q, i) + used
                             ELSE UseShare(id, q, i)

\* When the pool is recounted by as much, its statistics follow.
LEMMA StatisticsFollow ==
  ASSUME IInv, NEW id, NEW p \in Pools, NEW pool, PoolChanged(p, pool),
         NEW k \in Int, NEW slot, NEW size \in Int, NEW used \in Int,
         Recounted(pools[p], pool, k, slot, size, used),
         ShareChanges(id, p, slot, size, used), NEW q \in Pools
  PROVE  SharesFollow(id, q)
<1>1. /\ q = p => pools'[q] = pool
      /\ q # p => pools'[q] = pools[q]
      /\ pools[q].block_count \in Int /\ Len(pools[q].blocks) \in Int
      /\ \A i \in 0 .. 1 : /\ pools[q].total_area_size[i] \in Int
                           /\ pools[q].total_area_used[i] \in Int
  BY OtherPools
<1>2. CASE q # p
  <2>1. pools'[q] = pools[q]
    BY <1>1, <1>2
  <2>2. \A i \in 0 .. 1 : /\ SizeShare(id, q, i)' = SizeShare(id, q, i)
                          /\ UseShare(id, q, i)' = UseShare(id, q, i)
    BY <1>2 DEF ShareChanges
  <2> QED
    BY <2>1, <2>2 DEF SharesFollow
<1>3. CASE q = p
  <2>1. pools'[q] = pool /\ PoolChanged(q, pool) /\ pool \in PoolType
    BY <1>1, <1>3 DEF PoolChanged
  <2>2. Len(pool.blocks) \in Int /\ pool.block_count \in Int
    <3>1. pool.blocks \in Seq(BlockIds) /\ pool.block_count \in Int
      BY <2>1 DEF PoolType
    <3> QED
      BY <3>1, LenProperties
  <2>3. /\ pool.block_count - pools[q].block_count = k
        /\ Len(pool.blocks) - Len(pools[q].blocks) = k
    BY <1>3 DEF Recounted
  <2>4. pool.block_count - Len(pool.blocks) = pools[q].block_count - Len(pools[q].blocks)
    <3>1. PICK w, x, y, z : /\ w = pools[q].block_count /\ x = pool.block_count
                            /\ y = Len(pools[q].blocks) /\ z = Len(pool.blocks)
      OBVIOUS
    <3>2. w \in Int /\ x \in Int /\ y \in Int /\ z \in Int /\ x - w = k /\ z - y = k
      BY <1>1, <2>2, <2>3, <3>1
    <3>3. x - z = w - y
      BY <3>2
    <3> QED
      BY <3>1, <3>3
  <2>5. ASSUME NEW i \in 0 .. 1
        PROVE  /\ pools'[q].total_area_size[i] - SizeShare(id, q, i)'
                    = pools[q].total_area_size[i] - SizeShare(id, q, i)
               /\ pools'[q].total_area_used[i] - UseShare(id, q, i)'
                    = pools[q].total_area_used[i] - UseShare(id, q, i)
    <3>1. /\ pools[q].total_area_size[i] \in Int /\ pools[q].total_area_used[i] \in Int
          /\ SizeShare(id, q, i) \in Int /\ UseShare(id, q, i) \in Int
      BY <1>1 DEF ShareChanges
    <3>2. CASE i = slot
      <4>1. /\ pool.total_area_size[i] = pools[q].total_area_size[i] + size
            /\ pool.total_area_used[i] = pools[q].total_area_used[i] + used
            /\ SizeShare(id, q, i)' = SizeShare(id, q, i) + size
            /\ UseShare(id, q, i)' = UseShare(id, q, i) + used
        BY <1>3, <3>2 DEF Recounted, ShareChanges
      <4> QED
        BY <2>1, <3>1, <4>1
    <3>3. CASE i # slot
      <4>1. /\ pool.total_area_size[i] = pools[q].total_area_size[i]
            /\ pool.total_area_used[i] = pools[q].total_area_used[i]
            /\ SizeShare(id, q, i)' = SizeShare(id, q, i)
            /\ UseShare(id, q, i)' = UseShare(id, q, i)
        BY <1>3, <3>3 DEF Recounted, ShareChanges
      <4> QED
        BY <2>1, <3>1, <4>1
    <3> QED
      BY <3>2, <3>3
  <2> QED
    BY <2>1, <2>4, <2>5 DEF SharesFollow
<1> QED
  BY <1>2, <1>3

\* Block id becomes c, with n used granules more.
LEMMA ChangeEffect ==
  ASSUME IInv, NEW id \in Ids, NEW c, NEW p, p = blk[id].pool, NEW pool, NEW n \in Int,
         blk' = [i \in Ids |-> blk'[i]], blk'[id] = c,
         \A i \in Ids \ {id} : IsSearched(blk[i], blk'[i]),
         SameShape(blk[id], c), c.area_used = blk[id].area_used + n,
         PoolChanged(p, pool), Recounted(pools[p], pool, 0, StatIndex(blk[id]), 0, n),
         \/ pool.empty_block_count = 0
         \/ pool.empty_block_count = pools[p].empty_block_count /\ ~IsEmptyBlock(blk[id])
         \/ ~HasOption("ImmediateRelease") /\ IsEmptyBlock(c),
         IsFilledUp(blk[id]) => IsFilledUp(c)
  PROVE  Effect(id)
<1>1. Ids' = Ids /\ p \in Pools
  BY DEF Ids, IInv, Blocks
<1>2. /\ c.pool = p /\ c.area_size = blk[id].area_size /\ StatIndex(c) = StatIndex(blk[id])
      /\ blk[id].area_size \in Int /\ blk[id].area_used \in Int
  BY SameSlot DEF SameShape, IInv, StateTypes, BlockType
<1>3. ASSUME NEW q \in Pools PROVE SharesFollow(id, q)
  <2>1. ASSUME NEW r \in Pools, NEW i \in 0 .. 1
        PROVE  /\ SizeShare(id, r, i) \in Int /\ UseShare(id, r, i) \in Int
               /\ SizeShare(id, r, i)' = SizeShare(id, r, i)
               /\ UseShare(id, r, i)' = IF r = p /\ i = StatIndex(blk[id])
                                        THEN UseShare(id, r, i) + n ELSE UseShare(id, r, i)
    <3>1. /\ id \in CountedIn(r, i) <=> r = p /\ i = StatIndex(blk[id])
          /\ id \in CountedIn(r, i)' <=> r = p /\ i = StatIndex(blk[id])
      BY <1>1, <1>2, SlotOf, SlotOfNext
    <3> QED
      BY <1>2, <3>1 DEF SizeShare, UseShare
  <2>2. ShareChanges(id, p, StatIndex(blk[id]), 0, n)
    BY <2>1 DEF ShareChanges
  <2>3. 0 \in Int /\ n \in Int /\ PoolChanged(p, pool)
        /\ Recounted(pools[p], pool, 0, StatIndex(blk[id]), 0, n)
    OBVIOUS
  <2> QED
    BY <1>1, <2>2, <2>3, StatisticsFollow
<1>4. ASSUME NEW q \in Pools PROVE EmptyFollows(q)
  <2>1. /\ q = p => pools'[q] = pool
        /\ q # p => pools'[q] = pools[q]
    BY <1>1, OtherPools
  <2>2. id \in EmptyIn(q) => q = p /\ IsEmptyBlock(blk[id])
    BY DEF EmptyIn
  <2>3. CASE pools'[q].empty_block_count = pools[q].empty_block_count /\ id \notin EmptyIn(q)
    BY <1>1, <2>3, EmptyKept
  <2>4. CASE q = p /\ pool.empty_block_count = 0
    BY <2>1, <2>4 DEF EmptyFollows
  <2>5. CASE q = p /\ ~HasOption("ImmediateRelease") /\ IsEmptyBlock(c)
    <3>1. id \in EmptyIn(q)'
      BY <1>1, <1>2, <2>5 DEF EmptyIn
    <3> QED
      BY <2>5, <3>1 DEF EmptyFollows
  <2> QED
    BY <2>1, <2>2, <2>3, <2>4, <2>5
<1> QED
  BY <1>1, <1>3, <1>4 DEF Effect

\* Block id is unmapped, and with it its last span.
Unmapped(id, p, pool) ==
  /\ blk' = [i \in Ids \ {id} |-> blk[i]] /\ pools' = [pools EXCEPT ![p] = pool]
  /\ tree' = tree \ {id} /\ allocation_count' \in Int
  /\ spans' \in SUBSET spans /\ \A s \in spans : s \in spans' \/ s.block = id

\* Block id, of which n granules were used besides the padding, is unmapped.
LEMMA UnmapEffect ==
  ASSUME IInv, NEW id \in Ids, NEW p, p = blk[id].pool, NEW pool, Unmapped(id, p, pool),
         pool \in PoolType, ~IsEmptyBlock(blk[id]),
         Recounted(pools[p], pool, -1, StatIndex(blk[id]), 0 - blk[id].area_size,
                   0 - blk[id].area_used),
         pool.empty_block_count = pools[p].empty_block_count
  PROVE  Effect(id)
<1>1. /\ Ids' = Ids \ {id} /\ \A i \in Ids \ {id} : blk'[i] = blk[i]
      /\ p \in Pools /\ PoolChanged(p, pool)
      /\ blk[id].area_size \in Int /\ blk[id].area_used \in Int
      /\ \A i \in Ids : BlockInv(blk[i])
  BY DEF Ids, IInv, Blocks, Unmapped, PoolChanged, StateTypes, BlockType
<1>2. \A i \in Ids \ {id} : IsSearched(blk[i], blk'[i])
  BY <1>1 DEF IsSearched, SameShape
<1>3. ASSUME NEW q \in Pools PROVE SharesFollow(id, q)
  <2>1. PICK size, used : size = 0 - blk[id].area_size /\ used = 0 - blk[id].area_used
    OBVIOUS
  <2>2. ASSUME NEW r \in Pools, NEW i \in 0 .. 1
        PROVE  /\ SizeShare(id, r, i) \in Int /\ UseShare(id, r, i) \in Int
               /\ SizeShare(id, r, i)' = IF r = p /\ i = StatIndex(blk[id])
                                         THEN SizeShare(id, r, i) + size ELSE SizeShare(id, r, i)
               /\ UseShare(id, r, i)' = IF r = p /\ i = StatIndex(blk[id])
                                        THEN UseShare(id, r, i) + used ELSE UseShare(id, r, i)
    <3>1. /\ id \in CountedIn(r, i) <=> r = p /\ i = StatIndex(blk[id])
          /\ id \notin CountedIn(r, i)'
      BY <1>1, SlotOf, SlotOfNext
    <3>2. /\ SizeShare(id, r, i)' = 0 /\ UseShare(id, r, i)' = 0
      BY <3>1 DEF SizeShare, UseShare
    <3> QED
      BY <1>1, <2>1, <3>1, <3>2 DEF SizeShare, UseShare
  <2>3. Recounted(pools[p], pool, -1, StatIndex(blk[id]), size, used) /\ size \in Int /\ used \in Int
        /\ -1 \in Int
    BY <1>1, <2>1
  <2>4. ShareChanges(id, p, StatIndex(blk[id]), size, used)
    BY <2>2 DEF ShareChanges
  <2> QED
    BY <1>1, <2>3, <2>4, StatisticsFollow
<1>4. ASSUME NEW q \in Pools PROVE EmptyFollows(q)
  <2>1. pools'[q].empty_block_count = pools[q].empty_block_count
    BY <1>1, OtherPools
  <2>2. id \notin EmptyIn(q)
    BY DEF EmptyIn
  <2> QED
    BY <1>1, <1>2, <2>1, <2>2, EmptyKept
<1> QED
  BY <1>1, <1>2, <1>3, <1>4 DEF Effect

\* Block id is new, and a span is placed in it.
Mapped(id, c, t, searched, p, pool) ==
  /\ blk' = [i \in Ids \cup {id} |-> IF i = id THEN c ELSE searched[i]]
  /\ pools' = [pools EXCEPT ![p] = pool]
  /\ tree' = tree \cup {id} /\ allocation_count' = allocation_count + 1
  /\ spans' = spans \cup {t}

\* Block id is new, is c, and the others were searched at most.
LEMMA MapEffect ==
  ASSUME IInv, NEW id \in BlockIds \ Ids, NEW c \in BlockType, NEW t, NEW searched,
         \A i \in Ids : Kept(i, searched[i]), NEW p \in Pools, NEW pool,
         Mapped(id, c, t, searched, p, pool), c.pool = p, pool \in PoolType,
         Recounted(pools[p], pool, 1, StatIndex(c), c.area_size, c.area_used),
         pool.empty_block_count = pools[p].empty_block_count, IsFilledUp(c)
  PROVE  Effect(id)
<1>1. /\ Ids' = Ids \cup {id} /\ blk'[id] = c
      /\ \A i \in Ids \ {id} : blk'[i] = searched[i] /\ IsSearched(blk[i], blk'[i])
      /\ PoolChanged(p, pool) /\ c.area_size \in Int /\ c.area_used \in Int
  BY DEF Ids, Mapped, PoolChanged, BlockType, Kept
<1>2. ASSUME NEW q \in Pools PROVE SharesFollow(id, q)
  <2>1. ASSUME NEW r \in Pools, NEW i \in 0 .. 1
        PROVE  /\ SizeShare(id, r, i) \in Int /\ UseShare(id, r, i) \in Int
               /\ SizeShare(id, r, i)' = IF r = p /\ i = StatIndex(c)
                                         THEN SizeShare(id, r, i) + c.area_size
                                         ELSE SizeShare(id, r, i)
               /\ UseShare(id, r, i)' = IF r = p /\ i = StatIndex(c)
                                        THEN UseShare(id, r, i) + c.area_used
                                        ELSE UseShare(id, r, i)
    <3>1. /\ id \in CountedIn(r, i)' <=> r = p /\ i = StatIndex(c)
          /\ id \notin CountedIn(r, i)
      BY <1>1, SlotOf, SlotOfNext
    <3>2. SizeShare(id, r, i) = 0 /\ UseShare(id, r, i) = 0
      BY <3>1 DEF SizeShare, UseShare
    <3> QED
      BY <1>1, <3>1, <3>2 DEF SizeShare, UseShare
  <2>2. ShareChanges(id, p, StatIndex(c), c.area_size, c.area_used)
    BY <2>1 DEF ShareChanges
  <2> QED
    BY <1>1, <2>2, StatisticsFollow
<1>3. ASSUME NEW q \in Pools PROVE EmptyFollows(q)
  <2>1. pools'[q].empty_block_count = pools[q].empty_block_count
    BY <1>1, OtherPools
  <2>2. id \notin EmptyIn(q)
    BY DEF EmptyIn
  <2> QED
    BY <1>1, <2>1, <2>2, EmptyKept
<1> QED
  BY <1>1, <1>2, <1>3 DEF Effect

\* No block changes but for the caches of searches.
LEMMA SearchEffect ==
  ASSUME IInv, blk' = [i \in Ids |-> blk'[i]], \A i \in Ids : IsSearched(blk[i], blk'[i]),
         pools' = pools
  PROVE  Effect(NoBlock)
<1>1. Ids' = Ids /\ NoBlock \notin Ids /\ pools \in [Pools -> PoolType]
  BY ConstantsAssumption DEF Ids, IInv, StateTypes
<1>2. ASSUME NEW p \in Pools PROVE SharesFollow(NoBlock, p) /\ EmptyFollows(p)
  <2>1. \A i \in 0 .. 1 : NoBlock \notin CountedIn(p, i) /\ NoBlock \notin CountedIn(p, i)'
    BY <1>1, SlotOf, SlotOfNext
  <2>2. \A i \in 0 .. 1 : /\ SizeShare(NoBlock, p, i) = 0 /\ UseShare(NoBlock, p, i) = 0
                          /\ SizeShare(NoBlock, p, i)' = 0 /\ UseShare(NoBlock, p, i)' = 0
    BY <2>1 DEF SizeShare, UseShare
  <2>3. SharesFollow(NoBlock, p)
    BY <2>2 DEF SharesFollow
  <2>4. NoBlock \notin EmptyIn(p)
    BY <1>1 DEF EmptyIn
  <2> QED
    BY <1>1, <2>3, <2>4, EmptyKept
<1> QED
  BY <1>1, <1>2 DEF Effect

-------------------------------------------------------------------------------
(* Each operation *)

\* An operation that changes nothing, as a failed assertion does.
LEMMA UnchangedStep ==
  ASSUME IInv, UNCHANGED <<blk, pools, tree, allocation_count, spans>>
  PROVE  IInv' /\ \E id : Effect(id)
<1>1. blk' = [i \in Ids |-> blk'[i]] /\ \A i \in Ids : BlockInv(blk[i])
  BY DEF IInv, StateTypes, Blocks
<1>2. \A i \in Ids : IsSearched(blk[i], blk'[i])
  BY <1>1 DEF IsSearched, SameShape
<1>3. Effect(NoBlock)
  BY <1>1, <1>2, SearchEffect
<1> QED
  BY <1>3, UnchangedInv

LEMMA AllocOutOfMemoryInv ==
  ASSUME IInv, NEW size \in Requests, AllocOutOfMemory(size)
  PROVE  IInv' /\ \E id : Effect(id)
<1> DEFINE p     == SizeToPoolId(size)
           n     == AreaSizeOf(p, size)
           order == Visit(pools[p])
           more  == Len(order) + 1
<1>1. n \in Nat \ {0} /\ Len(order) \in Nat
  BY RequestFacts
<1>2. /\ \A k \in 1 .. Len(order) : ~HasRoom(blk[order[k]], n)
      /\ blk' = PassedOver(order, more, n)
      /\ UNCHANGED <<pools, tree, allocation_count, spans>>
  BY DEF AllocOutOfMemory, NoneHasRoom
<1> HIDE DEF n, order
<1>3. \A k \in 1 .. more - 1 : ~HasRoom(blk[order[k]], n)
  BY <1>1, <1>2
<1>4. more \in Nat
  BY <1>1
<1> HIDE DEF more
<1>5. blk' = [i \in Ids |-> blk'[i]] /\ \A i \in Ids : Kept(i, blk'[i])
  BY <1>1, <1>2, <1>3, <1>4, PassedOverKept
<1>6. NoBlock \notin Ids
  BY ConstantsAssumption DEF IInv, StateTypes
<1>7. SameBlocks(NoBlock)
  BY <1>2, <1>5, <1>6 DEF SameBlocks
<1>8. SameSpansBut(NoBlock)
  BY <1>2 DEF SameSpansBut, IInv, StateTypes, SpanType
<1>9. SameLists /\ CountFollows(NoBlock) /\ allocation_count' \in Int
  BY <1>2, <1>6 DEF SameLists, CountFollows, IInv, StateTypes
<1>10. IInv'
  BY <1>7, <1>8, <1>9, OneBlockStep
<1>11. Effect(NoBlock)
  BY <1>2, <1>5, SearchEffect DEF Kept
<1> QED
  BY <1>10, <1>11

LEMMA AreaIndexType ==
  ASSUME NEW b, BlockInv(b), NEW n, HasRoom(b, n)
  PROVE  AreaIndex(b, n) \in Nat
<1>1. b.search_start \in Nat /\ b.search_end \in Nat /\ WordEnd(b.search_end) \in Nat
  BY WordEndBound DEF BlockInv, InBounds, BlockType
<1>2. CASE FastPath(b, n)
  BY <1>1, <1>2 DEF AreaIndex
<1>3. CASE ~FastPath(b, n)
  <2>1. FittingStarts(b, n) # {}
    BY <1>3 DEF HasRoom
  <2>2. \A i \in FittingStarts(b, n) : i \in b.search_start .. WordEnd(b.search_end) - 1
    BY DEF FittingStarts, RangeStarts
  <2>3. \A i \in FittingStarts(b, n) : i \in Nat
    BY <1>1, <2>2
  <2>4. Min(FittingStarts(b, n)) \in Nat
    BY <2>1, <2>3, MinOfNats
  <2> QED
    BY <1>3, <2>4 DEF AreaIndex
<1> QED
  BY <1>2, <1>3

LEMMA PoolPlacedType ==
  ASSUME NEW pool \in PoolType, NEW b, IsEmptyBlock(b) => pool.empty_block_count = 1,
         NEW n \in Int
  PROVE  /\ PoolPlaced(pool, b, n) \in PoolType
         /\ PoolPlaced(pool, b, n).blocks = pool.blocks
         /\ PoolPlaced(pool, b, n).cursor = pool.cursor
         /\ ~IsEmptyBlock(b) =>
              PoolPlaced(pool, b, n).empty_block_count = pool.empty_block_count
<1> DEFINE more  == AddUsed(pool, b, n)
           count == IF IsEmptyBlock(b) THEN pool.empty_block_count - 1
                    ELSE pool.empty_block_count
<1>1. /\ more \in PoolType /\ more.blocks = pool.blocks /\ more.cursor = pool.cursor
      /\ more.empty_block_count = pool.empty_block_count
  BY AddUsedType
<1> HIDE DEF more
<1>2. count \in 0 .. 1
  BY DEF PoolType
<1>3. PoolPlaced(pool, b, n) = [more EXCEPT !.empty_block_count = count]
  BY <1>1 DEF PoolPlaced, PoolType, more
<1>4. ~IsEmptyBlock(b) => count = pool.empty_block_count
  OBVIOUS
<1> HIDE DEF count
<1> QED
  BY <1>1, <1>2, <1>3, <1>4 DEF PoolType

LEMMA PlacedArea ==
  ASSUME NEW b, BlockInv(b), NEW n \in Nat \ {0}, HasRoom(b, n),
         NEW start, start = AreaIndex(b, n), NEW end, end = start + n,
         start + n <= b.area_size
  PROVE  /\ IsTaken(b, Place(b, n), start, end) /\ IsArea(b, start, end)
         /\ b.used \cap (start .. end - 1) = {}
  BY RoomIsFree, PlaceInv

\* Taking granules and filling those given back both keep a block filled up.
LEMMA TakenFilledUp ==
  ASSUME NEW b, NEW c, NEW start, NEW end, IsTaken(b, c, start, end), IsFilledUp(b)
  PROVE  IsFilledUp(c)
<1>1. c.area_size = b.area_size
  BY DEF IsTaken, SameShape
<1> QED
  BY <1>1 DEF IsTaken, IsFilledUp

LEMMA ClearedFilledUp ==
  ASSUME NEW b, NEW c, NEW d, NEW start, NEW end, NEW stop, IsCleared(b, c, start, end, stop),
         SameShape(b, d), d.used = c.used,
         HasOption("FillUnusedMemory") => d.filled = c.filled \cup (start .. end - 1),
         IsFilledUp(b)
  PROVE  IsFilledUp(d)
<1>1. d.area_size = b.area_size /\ c.filled = b.filled /\ d.used = b.used \ (start .. end - 1)
  BY DEF IsCleared, SameShape
<1> QED
  BY <1>1 DEF IsFilledUp

\* Granules start .. end - 1 are taken from block id, the other blocks were
\* searched at most.
Placed(id, n, start, end, searched, p) ==
  /\ blk' = [searched EXCEPT ![id] = Place(blk[id], n)]
  /\ pools' = [pools EXCEPT ![p] = PoolPlaced(@, blk[id], n)]
  /\ allocation_count' = allocation_count + 1
  /\ spans' = spans \cup {[block |-> id, start |-> start, end |-> end]}
  /\ tree' = tree

LEMMA PlaceStep ==
  ASSUME IInv, NEW id \in Ids, NEW n \in Nat \ {0}, HasRoom(blk[id], n),
         NEW start, start = AreaIndex(blk[id], n), NEW end, end = start + n,
         ~(end > blk[id].area_size),
         NEW searched, searched = [i \in Ids |-> searched[i]],
         \A i \in Ids : Kept(i, searched[i]),
         NEW p, p = blk[id].pool, Placed(id, n, start, end, searched, p)
  PROVE  IInv' /\ Effect(id)
<1> DEFINE s == [block |-> id, start |-> start, end |-> end]
<1>1. /\ p \in Pools /\ BlockInv(blk[id]) /\ HoldsSpans(blk[id], SpansOf(id))
      /\ blk[id] \in BlockType /\ blk[id].area_size \in Nat /\ id \in BlockIds
  BY DEF IInv, Blocks, StateTypes, BlockType
<1>2. start \in Nat
  BY <1>1, AreaIndexType
<1>3. start + n <= blk[id].area_size /\ end \in Nat
  BY <1>1, <1>2
<1>4. /\ IsArea(blk[id], start, end)
      /\ blk[id].used \cap (start .. end - 1) = {}
      /\ IsTaken(blk[id], Place(blk[id], n), start, end)
  BY <1>1, <1>3, PlacedArea
<1>5. s \in SpanType /\ s.start = start /\ s.end = end /\ s.block = id
  BY <1>1, <1>2, <1>3 DEF SpanType
<1>6. spans' = spans \cup {s}
  BY DEF Placed
<1> HIDE DEF s
<1>7. HoldsSpans(Place(blk[id], n), SpansOf(id) \cup {s})
  <2>1. SpansOf(id) \in SUBSET SpanType
    BY SpansOfType DEF IInv
  <2>2. /\ IsArea(blk[id], s.start, s.end)
        /\ blk[id].used \cap (s.start .. s.end - 1) = {}
        /\ IsTaken(blk[id], Place(blk[id], n), s.start, s.end)
    BY <1>4, <1>5
  <2> QED
    BY <1>1, <1>5, <2>1, <2>2, SpanTaken
<1>8. SpansOf(id)' = SpansOf(id) \cup {s}
  BY <1>5, <1>6 DEF SpansOf
<1>9. /\ blk' = [i \in Ids |-> blk'[i]] /\ blk'[id] = Place(blk[id], n)
      /\ \A i \in Ids \ {id} : blk'[i] = searched[i]
  BY DEF Placed
<1>10. SameBlocks(id)
  BY <1>4, <1>7, <1>8, <1>9 DEF SameBlocks, IsTaken, SameShape, Placed
<1>11. SameSpansBut(id)
  BY <1>5, <1>6 DEF SameSpansBut, IInv, StateTypes, SpanType
<1>12. IsEmptyBlock(blk[id]) => pools[p].empty_block_count = 1
  BY <1>1 DEF IInv, OneEmptyBlock, EmptyIn
<1>13. /\ pools \in [Pools -> PoolType] /\ pools[p] \in PoolType
  BY <1>1 DEF IInv, StateTypes
<1> DEFINE pool == PoolPlaced(pools[p], blk[id], n)
<1>14. pools' = [pools EXCEPT ![p] = pool]
  BY DEF Placed
<1>15. /\ pool \in PoolType /\ pool.blocks = pools[p].blocks /\ pool.cursor = pools[p].cursor
       /\ ~IsEmptyBlock(blk[id]) => pool.empty_block_count = pools[p].empty_block_count
  BY <1>12, <1>13, PoolPlacedType
<1> HIDE DEF pool
<1>16. SameLists
  BY <1>1, <1>13, <1>14, <1>15 DEF SameLists
<1>17. CountFollows(id)
  BY <1>1, <1>4, <1>9, <1>13, <1>14, <1>15 DEF CountFollows, IsTaken
<1>18. allocation_count' \in Int
  BY DEF IInv, StateTypes, Placed
<1>19. IInv'
  BY <1>10, <1>11, <1>16, <1>17, <1>18, OneBlockStep
<1>20. Effect(id)
  <2>1. PICK c : c = Place(blk[id], n)
    OBVIOUS
  <2>2. /\ SameShape(blk[id], c) /\ c.area_used = blk[id].area_used + n
        /\ IsFilledUp(blk[id]) => IsFilledUp(c)
    <3>1. end - start = n
      BY <1>2
    <3> QED
      BY <1>4, <2>1, <3>1, TakenFilledUp DEF IsTaken
  <2>3. PoolChanged(p, pool)
    BY <1>14, <1>15 DEF PoolChanged
  <2>4. /\ Recounted(pools[p], pool, 0, StatIndex(blk[id]), 0, n)
        /\ pool.empty_block_count = IF IsEmptyBlock(blk[id]) THEN pools[p].empty_block_count - 1
                                    ELSE pools[p].empty_block_count
    BY <1>13, AddUsedRecounts DEF pool
  <2>5. \A i \in Ids \ {id} : IsSearched(blk[i], blk'[i])
    BY <1>9 DEF Kept
  <2>6. \/ pool.empty_block_count = 0
        \/ pool.empty_block_count = pools[p].empty_block_count /\ ~IsEmptyBlock(blk[id])
    BY <1>12, <2>4
  <2>7. n \in Int /\ blk'[id] = c
    BY <1>9, <2>1
  <2> QED
    BY <1>9, <2>2, <2>3, <2>4, <2>5, <2>6, <2>7, ChangeEffect
<1> QED
  BY <1>19, <1>20

LEMMA AllocFromBlockInv ==
  ASSUME IInv, NEW size \in Requests, AllocFromBlock(size)
  PROVE  IInv' /\ \E id : Effect(id)
<1> DEFINE pl  == SizeToPoolId(size)
           num == AreaSizeOf(pl, size)
           ord == Visit(pools[pl])
<1>1. /\ pl \in Pools /\ num \in Nat \ {0} /\ Len(ord) \in Nat
      /\ \A k \in 1 .. Len(ord) : ord[k] \in Ids /\ blk[ord[k]].pool = pl
  BY RequestFacts
<1>2. PICK k \in 1 .. Len(ord) :
        /\ FirstWithRoom(ord, k, num)
        /\ LET b     == blk[ord[k]]
               start == AreaIndex(b, num)
           IN IF start + num > b.area_size
              THEN Fail("alloc: offset <= block_size - size")
              ELSE /\ blk' = [PassedOver(ord, k, num) EXCEPT ![ord[k]] = Place(b, num)]
                   /\ pools' = [pools EXCEPT ![pl] = PoolPlaced(@, b, num)]
                   /\ allocation_count' = allocation_count + 1
                   /\ spans' = spans \cup {[block |-> ord[k], start |-> start,
                                            end |-> start + num]}
                   /\ UNCHANGED <<tree, fault>>
  BY DEF AllocFromBlock
<1>3. PICK id, n, start, end, p, searched :
        /\ id = ord[k] /\ n = num /\ start = AreaIndex(blk[id], n) /\ end = start + n /\ p = pl
        /\ searched = PassedOver(ord, k, num)
  OBVIOUS
<1>4. CASE end > blk[id].area_size
  BY <1>2, <1>3, <1>4, UnchangedStep DEF Fail
<1>5. CASE ~(end > blk[id].area_size)
  <2>1. Placed(id, n, start, end, searched, p)
    <3> HIDE DEF ord, num, pl
    <3> QED
      BY <1>2, <1>3, <1>5 DEF Placed
  <2>2. id \in Ids /\ p = blk[id].pool /\ HasRoom(blk[id], n) /\ n \in Nat \ {0}
    BY <1>1, <1>2, <1>3 DEF FirstWithRoom
  <2>3. \A j \in 1 .. k - 1 : ~HasRoom(blk[ord[j]], num)
    BY <1>2 DEF FirstWithRoom
  <2>4. k \in Nat
    BY <1>1
  <2> HIDE DEF ord, num, pl
  <2>5. searched = [i \in Ids |-> searched[i]] /\ \A i \in Ids : Kept(i, searched[i])
    BY <1>1, <1>3, <2>3, <2>4, PassedOverKept
  <2>6. start = AreaIndex(blk[id], n) /\ end = start + n
    BY <1>3
  <2> QED
    BY <1>5, <2>1, <2>2, <2>5, <2>6, PlaceStep
<1> QED
  BY <1>4, <1>5

\* Block id becomes c and its pool, p, becomes pool.
Replaced(id, c, p, pool) ==
  /\ blk' = [blk EXCEPT ![id] = c] /\ pools' = [pools EXCEPT ![p] = pool]
  /\ tree' = tree /\ allocation_count' \in Int

\* c is b, a block that was not empty, with n used granules more.
IsReplaced(b, c, n) ==
  /\ ~IsEmptyBlock(b) /\ SameShape(b, c) /\ c.area_used = b.area_used + n
  /\ IsFilledUp(b) => IsFilledUp(c)

LEMMA ReplaceStep ==
  ASSUME IInv, NEW id \in Ids, NEW c, NEW p, p = blk[id].pool, NEW pool,
         Replaced(id, c, p, pool), SameSpansBut(id),
         c.pool = p, BlockInv(c), HoldsSpans(c, SpansOf(id)'),
         pool \in PoolType, pool.blocks = pools[p].blocks, pool.cursor = pools[p].cursor,
         NEW n \in Int, IsReplaced(blk[id], c, n),
         Recounted(pools[p], pool, 0, StatIndex(blk[id]), 0, n),
         IF IsEmptyBlock(c) THEN /\ pool.empty_block_count = 1 /\ EmptyIn(p) \subseteq {id}
                                 /\ ~HasOption("ImmediateRelease")
         ELSE pool.empty_block_count = pools[p].empty_block_count
  PROVE  IInv' /\ Effect(id)
<1>1. /\ p \in Pools /\ pools \in [Pools -> PoolType] /\ blk \in [Ids -> BlockType]
      /\ \A i \in Ids : BlockInv(blk[i]) /\ HoldsSpans(blk[i], SpansOf(i))
  BY DEF IInv, Blocks, StateTypes
<1>2. /\ blk' = [i \in Ids |-> blk'[i]] /\ blk'[id] = c
      /\ \A i \in Ids \ {id} : blk'[i] = blk[i]
  BY <1>1 DEF Replaced
<1>3. SameBlocks(id)
  BY <1>1, <1>2 DEF SameBlocks, Kept, Replaced, IsSearched, SameShape
<1>4. SameLists
  BY <1>1 DEF SameLists, Replaced
<1>5. pools'[p] = pool /\ \A q \in Pools \ {p} : pools'[q] = pools[q]
  BY <1>1 DEF Replaced
<1>6. CountFollows(id)
  BY <1>2, <1>5 DEF CountFollows
<1>7. IInv'
  BY <1>3, <1>4, <1>6, OneBlockStep DEF Replaced
<1>8. Effect(id)
  <2>1. \A i \in Ids \ {id} : IsSearched(blk[i], blk'[i])
    BY <1>1, <1>2 DEF IsSearched, SameShape
  <2>2. PoolChanged(p, pool)
    BY DEF Replaced, PoolChanged
  <2> QED
    BY <1>2, <2>1, <2>2, ChangeEffect DEF IsReplaced
<1> QED
  BY <1>7, <1>8

LEMMA HeldSpan ==
  ASSUME IInv, NEW s \in spans
  PROVE  /\ s \in SpanType /\ s.block \in Ids /\ s \in SpansOf(s.block)
         /\ SpansOf(s.block) \in SUBSET SpanType
         /\ HoldsSpans(blk[s.block], SpansOf(s.block)) /\ BlockInv(blk[s.block])
         /\ blk[s.block].pool \in Pools
         /\ AreaEnd(blk[s.block], s.start) = s.end /\ StopsFrom(blk[s.block], s.start) # {}
         /\ s.start \in Nat /\ s.end \in Nat /\ IsArea(blk[s.block], s.start, s.end)
         /\ s.start .. s.end - 1 \subseteq blk[s.block].used
<1>1. /\ s \in SpanType /\ s.block \in Ids /\ s \in SpansOf(s.block)
      /\ SpansOf(s.block) \in SUBSET SpanType
  BY SpansOfType DEF IInv, StateTypes, SpansOf, SpanType
<1>2. /\ HoldsSpans(blk[s.block], SpansOf(s.block)) /\ BlockInv(blk[s.block])
      /\ blk[s.block].pool \in Pools
  BY <1>1 DEF IInv, Blocks
<1> QED
  BY <1>1, <1>2, EndOfSpan

\* A block whose cleared area is filled differs from the cleared block only in
\* what is filled.
IsFilled(b, c, d, area, held) ==
  /\ BlockInv(d) /\ SameShape(b, d) /\ HoldsSpans(d, held) /\ d.flags = c.flags
  /\ d.used = c.used /\ d.area_used = c.area_used
  /\ HasOption("FillUnusedMemory") => d.filled = c.filled \cup area

LEMMA FilledTail ==
  ASSUME NEW b, NEW c, NEW start \in Nat, NEW end \in Nat, end <= b.area_size, BlockInv(c),
         SameShape(b, c), b.area_size \in Nat, NEW held, HoldsSpans(c, held)
  PROVE  IsFilled(b, c, Fill(c, start .. end - 1), start .. end - 1, held)
<1> DEFINE d == Fill(c, start .. end - 1)
<1>1. start .. end - 1 \in SUBSET (0 .. c.area_size - 1)
  BY DEF SameShape
<1>2. /\ BlockInv(d) /\ SameShape(c, d) /\ d.used = c.used /\ d.stop = c.stop
      /\ d.flags = c.flags /\ d.area_used = c.area_used
      /\ HasOption("FillUnusedMemory") => d.filled = c.filled \cup (start .. end - 1)
  BY <1>1, FillInv
<1> HIDE DEF d
<1>3. HoldsSpans(d, held)
  BY <1>2, SpansKept
<1>4. SameShape(b, d)
  BY <1>2 DEF SameShape
<1> QED
  BY <1>2, <1>3, <1>4 DEF d, IsFilled

LEMMA ShrinkToInv ==
  ASSUME IInv, NEW s \in spans, NEW size \in Nat \ {0}, ShrinkTo(s, size)
  PROVE  IInv' /\ \E id : Effect(id)
<1> DEFINE b0 == blk[s.block]
<1>1. PICK id, b, p, end, cut, t :
        /\ id = s.block /\ b = blk[id] /\ p = b.pool /\ end = AreaEnd(b, s.start)
        /\ cut = s.start + AreaSizeOf(p, size) /\ t = [s EXCEPT !.end = cut]
  OBVIOUS
<1>2. /\ s \in SpanType /\ id \in Ids /\ s \in SpansOf(id) /\ SpansOf(id) \in SUBSET SpanType
      /\ HoldsSpans(b, SpansOf(id)) /\ BlockInv(b) /\ p \in Pools /\ end = s.end
      /\ s.start \in Nat /\ end \in Nat /\ IsArea(b, s.start, end)
      /\ s.start .. end - 1 \subseteq b.used
  BY <1>1, HeldSpan
<1>3. AreaSizeOf(p, size) \in Nat \ {0}
  BY <1>2, AreaSizeBound
<1>4. cut \in Nat \ {0} /\ s.start < cut /\ cut < end
  <2>1. s.start + AreaSizeOf(blk[s.block].pool, size) < AreaEnd(blk[s.block], s.start)
    BY DEF ShrinkTo
  <2>2. cut = s.start + AreaSizeOf(p, size) /\ cut < end
    BY <1>1, <2>1
  <2> QED
    BY <1>2, <1>3, <2>2
<1>5. PICK c : c = MarkShrunkArea(b, cut, end)
  OBVIOUS
<1>6. PICK d : d = Fill(c, cut .. end - 1)
  OBVIOUS
<1>7. PICK pool : pool = AddUsed(pools[p], b, cut - end)
  OBVIOUS
<1>8. /\ blk' = [blk EXCEPT ![id] = d] /\ pools' = [pools EXCEPT ![p] = pool]
      /\ spans' = (spans \ {s}) \cup {t}
      /\ tree' = tree /\ allocation_count' = allocation_count
  BY <1>1, <1>4, <1>5, <1>6, <1>7 DEF ShrinkTo
<1>9. /\ IsCleared(b, c, cut, end, (b.stop \ {end - 1}) \cup {cut - 1})
      /\ ~IsEmptyBlock(c)
  <2>1. IsArea(b, cut, end) /\ cut .. end - 1 \subseteq b.used
    <3>1. InitialAreaStart(b) \in Nat
      BY DEF InitialAreaStart
    <3> QED
      BY <1>2, <1>4, <3>1 DEF IsArea
  <2> QED
    BY <1>2, <1>4, <1>5, <2>1, ShrunkAreaInv
<1>10. t \in SpanType /\ t.start = s.start /\ t.end = cut /\ t.block = id
  BY <1>1, <1>2, <1>4 DEF SpanType
<1>11. HoldsSpans(c, (SpansOf(id) \ {s}) \cup {t})
  <2>1. s.start < cut /\ cut < s.end
    BY <1>2, <1>4
  <2>2. IsCleared(b, c, cut, s.end, (b.stop \ {s.end - 1}) \cup {cut - 1})
    BY <1>2, <1>9
  <2> QED
    BY <1>2, <1>4, <1>10, <2>1, <2>2, SpanShrunk
<1>12. SpansOf(id)' = (SpansOf(id) \ {s}) \cup {t}
  BY <1>8, <1>10 DEF SpansOf
<1>13. /\ BlockInv(d) /\ SameShape(b, d) /\ HoldsSpans(d, SpansOf(id)')
       /\ d.flags = c.flags /\ d.used = c.used /\ d.area_used = c.area_used
       /\ HasOption("FillUnusedMemory") => d.filled = c.filled \cup (cut .. end - 1)
  <2>1. b.area_size \in Nat /\ end <= b.area_size
    BY <1>2 DEF BlockInv, InBounds, BlockType, IsArea
  <2>2. BlockInv(c) /\ SameShape(b, c)
    BY <1>9 DEF IsCleared
  <2>3. HoldsSpans(c, SpansOf(id)')
    BY <1>11, <1>12
  <2>4. IsFilled(b, c, d, cut .. end - 1, SpansOf(id)')
    BY <1>2, <1>4, <1>6, <2>1, <2>2, <2>3, FilledTail
  <2> QED
    BY <2>4 DEF IsFilled
<1>14. /\ pools[p] \in PoolType /\ allocation_count \in Int
       /\ cut - end \in Int
  BY <1>2, <1>4 DEF IInv, StateTypes
<1>15. /\ pool \in PoolType /\ pool.blocks = pools[p].blocks /\ pool.cursor = pools[p].cursor
       /\ pool.empty_block_count = pools[p].empty_block_count
  BY <1>7, <1>14, AddUsedType
<1>16. SameSpansBut(id)
  BY <1>2, <1>8, <1>10 DEF SameSpansBut, IInv, StateTypes, SpanType, SpansOf
<1>17. Replaced(id, d, p, pool)
  BY <1>8, <1>14 DEF Replaced
<1>18. ~IsEmptyBlock(d) /\ d.pool = p /\ p = blk[id].pool
  BY <1>1, <1>9, <1>13 DEF IsEmptyBlock, SameShape
<1>19. IsReplaced(blk[id], d, cut - end)
  <2>1. ~IsEmptyBlock(b) /\ b.area_used \in Int
    <3>1. ClearedFacts(b, s.start, end)
      BY <1>2, AreaCleared
    <3> QED
      BY <3>1 DEF ClearedFacts, BlockType
  <2>2. d.area_used = b.area_used + (cut - end)
    <3>1. d.area_used = b.area_used - (end - cut) /\ end \in Int /\ cut \in Int
      BY <1>2, <1>4, <1>9, <1>13 DEF IsCleared
    <3> QED
      BY <2>1, <3>1
  <2>3. IsFilledUp(b) => IsFilledUp(d)
    BY <1>9, <1>13, ClearedFilledUp
  <2> QED
    BY <1>1, <1>13, <2>1, <2>2, <2>3 DEF IsReplaced
<1>20. Recounted(pools[p], pool, 0, StatIndex(blk[id]), 0, cut - end)
  BY <1>1, <1>7, <1>14, AddUsedRecounts
<1> QED
  BY <1>2, <1>13, <1>14, <1>15, <1>16, <1>17, <1>18, <1>19, <1>20, ReplaceStep

LEMMA UnmapStep ==
  ASSUME IInv, NEW id \in Ids, NEW p, p = blk[id].pool, NEW pool, Unmapped(id, p, pool),
         SpansOf(id)' = {}, pool \in PoolType, IsListOf(pool, IdsOf(p) \ {id}),
         pool.empty_block_count = pools[p].empty_block_count
  PROVE  IInv'
<1>1. /\ p \in Pools /\ pools \in [Pools -> PoolType] /\ blk \in [Ids -> BlockType]
      /\ Ids \subseteq BlockIds /\ tree = Ids /\ spans \in SUBSET SpanType
  BY DEF IInv, Blocks, StateTypes, SpanType
<1>2. Ids' = Ids \ {id} /\ \A i \in Ids \ {id} : blk'[i] = blk[i]
  BY DEF Unmapped, Ids
<1>3. pools' \in [Pools -> PoolType] /\ pools'[p] = pool /\ \A q \in Pools \ {p} : pools'[q] = pools[q]
  BY <1>1 DEF Unmapped
<1>4. StateTypes'
  <2>1. blk' \in [Ids' -> BlockType]
    BY <1>1, <1>2 DEF Unmapped
  <2> QED
    BY <1>1, <1>2, <1>3, <2>1 DEF StateTypes, Unmapped, SpanType
<1>5. PoolLists'
  <2> SUFFICES ASSUME NEW q \in Pools PROVE IsListOf(pools'[q], IdsOf(q)')
    BY DEF PoolLists
  <2>1. CASE q = p
    <3>1. IdsOf(q)' = IdsOf(p) \ {id}
      BY <1>2, <2>1 DEF IdsOf
    <3> QED
      BY <1>3, <2>1, <3>1
  <2>2. CASE q # p
    <3>1. IdsOf(q)' = IdsOf(q)
      BY <1>2, <2>2 DEF IdsOf
    <3> QED
      BY <1>3, <2>2, <3>1 DEF IInv, PoolLists
  <2> QED
    BY <2>1, <2>2
<1>6. OneEmptyBlock'
  <2> SUFFICES ASSUME NEW q \in Pools, NEW e \in EmptyIn(q)'
               PROVE  /\ pools'[q].empty_block_count = 1
                      /\ \A other \in EmptyIn(q)' : other = e
    BY DEF OneEmptyBlock
  <2>1. EmptyIn(q)' \subseteq EmptyIn(q)
    BY <1>2 DEF EmptyIn
  <2>2. pools'[q].empty_block_count = pools[q].empty_block_count
    BY <1>3
  <2> QED
    BY <2>1, <2>2 DEF IInv, OneEmptyBlock
<1>7. Blocks'
  <2> SUFFICES ASSUME NEW i \in Ids \ {id}
               PROVE  /\ blk'[i].pool \in Pools /\ BlockInv(blk'[i])
                      /\ HoldsSpans(blk'[i], SpansOf(i)')
    BY <1>2 DEF Blocks
  <2>1. SpansOf(i)' = SpansOf(i)
    BY DEF SpansOf, Unmapped
  <2> QED
    BY <1>2, <2>1 DEF IInv, Blocks
<1>8. \A s \in spans' : s.block \in Ids'
  <2>1. \A s \in spans' : s.block # id
    BY DEF SpansOf
  <2> QED
    BY <1>2, <2>1 DEF IInv, Unmapped
<1> QED
  BY <1>4, <1>5, <1>6, <1>7, <1>8 DEF IInv

LEMMA ReleaseInv ==
  ASSUME IInv, NEW s \in spans, Release(s)
  PROVE  IInv' /\ \E id : Effect(id)
<1>1. PICK id, b, p, end, c, d, pool :
        /\ id = s.block /\ b = blk[id] /\ p = b.pool /\ end = AreaEnd(b, s.start)
        /\ c = MarkReleasedArea(b, s.start, end) /\ d = Fill(c, s.start .. end - 1)
        /\ pool = AddUsed(pools[p], d, s.start - end)
  OBVIOUS
<1>2. /\ s \in SpanType /\ id \in Ids /\ s \in SpansOf(id) /\ SpansOf(id) \in SUBSET SpanType
      /\ HoldsSpans(b, SpansOf(id)) /\ BlockInv(b) /\ p \in Pools /\ end = s.end
      /\ s.start \in Nat /\ end \in Nat /\ IsArea(b, s.start, end)
      /\ s.start .. end - 1 \subseteq b.used /\ StopsFrom(b, s.start) # {}
      /\ p = blk[id].pool
  BY <1>1, HeldSpan
<1>3. /\ \/ /\ ~IsEmptyBlock(d)
            /\ blk' = [blk EXCEPT ![id] = d]
            /\ pools' = [pools EXCEPT ![p] = pool]
            /\ UNCHANGED tree
         \/ /\ IsEmptyBlock(d)
            /\ blk' = [i \in Ids \ {id} |-> blk[i]]
            /\ pools' = [pools EXCEPT ![p] = RemoveBlock(pool, id, d)]
            /\ tree' = tree \ {id}
         \/ /\ IsEmptyBlock(d)
            /\ pool.empty_block_count = 0 /\ ~HasOption("ImmediateRelease")
            /\ blk' = [blk EXCEPT ![id] = d]
            /\ pools' = [pools EXCEPT ![p] = [pool EXCEPT !.empty_block_count = 1]]
            /\ UNCHANGED tree
      /\ allocation_count' = allocation_count - 1
      /\ spans' = spans \ {s}
  BY <1>1, <1>2 DEF Release, Ids
<1>4. IsCleared(b, c, s.start, end, b.stop \ {end - 1})
  BY <1>1, <1>2, ReleasedAreaInv
<1>5. HoldsSpans(c, SpansOf(id) \ {s})
  <2>1. IsCleared(b, c, s.start, s.end, b.stop \ {s.end - 1})
    BY <1>2, <1>4
  <2> QED
    BY <1>2, <2>1, SpanCleared
<1>6. SpansOf(id)' = SpansOf(id) \ {s}
  BY <1>3 DEF SpansOf
<1>7. /\ BlockInv(d) /\ SameShape(b, d) /\ HoldsSpans(d, SpansOf(id)')
      /\ d.used = c.used /\ d.area_used = c.area_used
      /\ HasOption("FillUnusedMemory") => d.filled = c.filled \cup (s.start .. end - 1)
  <2>1. b.area_size \in Nat /\ end <= b.area_size
    BY <1>2 DEF BlockInv, InBounds, BlockType, IsArea
  <2>2. BlockInv(c) /\ SameShape(b, c)
    BY <1>4 DEF IsCleared
  <2>3. HoldsSpans(c, SpansOf(id)')
    BY <1>5, <1>6
  <2>4. IsFilled(b, c, d, s.start .. end - 1, SpansOf(id)')
    BY <1>1, <1>2, <2>1, <2>2, <2>3, FilledTail
  <2> QED
    BY <2>4 DEF IsFilled
<1>8. /\ pools[p] \in PoolType /\ IsListOf(pools[p], IdsOf(p)) /\ allocation_count' \in Int
      /\ s.start - end \in Int /\ id \in IdsOf(p) /\ IdsOf(p) \in SUBSET BlockIds
  BY <1>2, <1>3 DEF IInv, StateTypes, PoolLists, IdsOf
<1>9. /\ pool \in PoolType /\ pool.blocks = pools[p].blocks /\ pool.cursor = pools[p].cursor
      /\ pool.empty_block_count = pools[p].empty_block_count
  BY <1>1, <1>8, AddUsedType
<1>10. SameSpansBut(id)
  BY <1>2, <1>3 DEF SameSpansBut, IInv, StateTypes, SpanType, SpansOf
<1>11. d.pool = p /\ b = blk[id]
  BY <1>1, <1>7 DEF SameShape
<1>15. PICK gone : gone = s.start - end
  OBVIOUS
<1>16. IsReplaced(b, d, gone) /\ gone \in Int
  <2>1. ~IsEmptyBlock(b) /\ b.area_used \in Int
    <3>1. ClearedFacts(b, s.start, end)
      BY <1>2, AreaCleared
    <3> QED
      BY <3>1 DEF ClearedFacts, BlockType
  <2>2. d.area_used = b.area_used + gone
    BY <1>2, <1>4, <1>7, <1>15, <2>1 DEF IsCleared
  <2>3. IsFilledUp(b) => IsFilledUp(d)
    BY <1>4, <1>7, ClearedFilledUp
  <2> QED
    BY <1>7, <1>8, <1>15, <2>1, <2>2, <2>3 DEF IsReplaced
<1>17. Recounted(pools[p], pool, 0, StatIndex(b), 0, gone) /\ StatIndex(d) = StatIndex(b)
  BY <1>1, <1>7, <1>8, <1>15, AddUsedRecounts, SameSlot
<1>12. CASE /\ ~IsEmptyBlock(d) /\ UNCHANGED tree
            /\ blk' = [blk EXCEPT ![id] = d] /\ pools' = [pools EXCEPT ![p] = pool]
  <2>1. Replaced(id, d, p, pool)
    BY <1>8, <1>12 DEF Replaced
  <2> QED
    BY <1>2, <1>7, <1>9, <1>10, <1>11, <1>12, <1>16, <1>17, <2>1, ReplaceStep
<1>13. CASE /\ IsEmptyBlock(d) /\ blk' = [i \in Ids \ {id} |-> blk[i]]
            /\ pools' = [pools EXCEPT ![p] = RemoveBlock(pool, id, d)]
            /\ tree' = tree \ {id}
  <2>1. PICK left : left = RemoveBlock(pool, id, d)
    OBVIOUS
  <2>2. IsListOf(pool, IdsOf(p)) /\ d \in BlockType
    BY <1>7, <1>8, <1>9 DEF IsListOf, BlockInv, InBounds
  <2>3. /\ left \in PoolType /\ left.empty_block_count = pool.empty_block_count
        /\ IsListOf(left, IdsOf(p) \ {id})
    BY <1>8, <1>9, <2>1, <2>2, RemovedList
  <2>4. Unmapped(id, p, left)
    BY <1>3, <1>8, <1>13, <1>2, <2>1 DEF Unmapped, SpansOf
  <2>5. SpansOf(id)' = {}
    <3>1. SpansOf(id)' \in SUBSET SpanType
      BY <1>2, <1>6
    <3> QED
      BY <1>7, <1>13, <3>1, EmptyHoldsNone
  <2>6. IInv'
    BY <1>2, <1>9, <2>3, <2>4, <2>5, UnmapStep
  <2>7. Recounted(pools[p], left, -1, StatIndex(b), 0 - b.area_size, 0 - b.area_used)
    <3>1. PICK size, used : size = 0 - d.area_size /\ used = 0 - d.area_used
      OBVIOUS
    <3>2. Recounted(pool, left, -1, StatIndex(b), size, used)
      BY <1>8, <1>9, <1>17, <2>1, <2>2, <3>1, RemoveRecounts
    <3>3. size \in Int /\ used \in Int /\ 0 \in Int /\ -1 \in Int
      BY <2>2, <3>1 DEF BlockType
    <3>4. Recounted(pools[p], left, 0 + (-1), StatIndex(b), 0 + size, gone + used)
      BY <1>8, <1>9, <1>16, <1>17, <2>3, <3>2, <3>3, RecountedTwice
    <3>5. b.area_size \in Int /\ b.area_used \in Int /\ d.area_size = b.area_size
          /\ d.area_used = b.area_used + gone
      BY <1>2, <1>7, <1>16 DEF IsReplaced, SameShape, BlockInv, InBounds, BlockType
    <3>6. 0 + size = 0 - b.area_size /\ gone + used = 0 - b.area_used /\ 0 + (-1) = -1
      BY <1>16, <3>1, <3>5
    <3> QED
      BY <3>4, <3>6
  <2>8. Effect(id)
    BY <1>2, <1>9, <1>11, <1>16, <2>3, <2>4, <2>7, UnmapEffect DEF IsReplaced
  <2> QED
    BY <2>6, <2>8
<1>14. CASE /\ IsEmptyBlock(d) /\ pool.empty_block_count = 0 /\ UNCHANGED tree
            /\ ~HasOption("ImmediateRelease")
            /\ blk' = [blk EXCEPT ![id] = d]
            /\ pools' = [pools EXCEPT ![p] = [pool EXCEPT !.empty_block_count = 1]]
  <2>1. PICK kept : kept = [pool EXCEPT !.empty_block_count = 1]
    OBVIOUS
  <2>2. /\ kept \in PoolType /\ kept.blocks = pools[p].blocks /\ kept.cursor = pools[p].cursor
        /\ kept.empty_block_count = 1
        /\ Recounted(pools[p], kept, 0, StatIndex(b), 0, gone)
    BY <1>9, <1>17, <2>1 DEF PoolType, Recounted
  <2>3. EmptyIn(p) \subseteq {id}
    <3>1. pools[p].empty_block_count = 0
      BY <1>9, <1>14
    <3>2. \A e \in EmptyIn(p) : pools[p].empty_block_count = 1
      BY <1>2 DEF IInv, OneEmptyBlock
    <3> QED
      BY <3>1, <3>2
  <2>4. Replaced(id, d, p, kept)
    BY <1>8, <1>14, <2>1 DEF Replaced
  <2> QED
    BY <1>2, <1>7, <1>10, <1>11, <1>14, <1>16, <2>2, <2>3, <2>4, ReplaceStep
<1> QED
  BY <1>3, <1>12, <1>13, <1>14

LEMMA MapStep ==
  ASSUME IInv, NEW id \in BlockIds \ Ids, NEW c, NEW t \in SpanType, NEW searched,
         \A i \in Ids : Kept(i, searched[i]), NEW p \in Pools, NEW pool,
         Mapped(id, c, t, searched, p, pool),
         t.block = id, c.pool = p, BlockInv(c), HoldsSpans(c, {t}), ~IsEmptyBlock(c),
         pool \in PoolType, IsListOf(pool, IdsOf(p) \cup {id}),
         pool.empty_block_count = pools[p].empty_block_count
  PROVE  IInv'
<1>1. /\ pools \in [Pools -> PoolType] /\ blk \in [Ids -> BlockType]
      /\ Ids \subseteq BlockIds /\ tree = Ids /\ spans \in SUBSET SpanType
      /\ \A s \in spans : s.block \in Ids
  BY DEF IInv, Blocks, StateTypes, SpanType
<1>2. /\ Ids' = Ids \cup {id} /\ blk'[id] = c
      /\ \A i \in Ids : blk'[i] = searched[i] /\ i # id
  BY DEF Mapped, Ids
<1>3. \A i \in Ids : /\ blk'[i].pool = blk[i].pool /\ BlockInv(blk'[i])
                     /\ HoldsSpans(blk'[i], SpansOf(i))
                     /\ IsEmptyBlock(blk'[i]) <=> IsEmptyBlock(blk[i])
  BY <1>2 DEF Kept
<1>4. pools' \in [Pools -> PoolType] /\ pools'[p] = pool /\ \A q \in Pools \ {p} : pools'[q] = pools[q]
  BY <1>1 DEF Mapped
<1>5. StateTypes'
  <2>1. \A i \in Ids' : blk'[i] \in BlockType
    BY <1>2, <1>3 DEF BlockInv, InBounds
  <2>2. blk' \in [Ids' -> BlockType]
    BY <1>2, <2>1 DEF Mapped
  <2>3. allocation_count' \in Int
    BY DEF IInv, StateTypes, Mapped
  <2> QED
    BY <1>1, <1>2, <1>4, <2>2, <2>3 DEF StateTypes, Mapped, SpanType
<1>6. PoolLists'
  <2> SUFFICES ASSUME NEW q \in Pools PROVE IsListOf(pools'[q], IdsOf(q)')
    BY DEF PoolLists
  <2>1. CASE q = p
    <3>1. IdsOf(q)' = IdsOf(p) \cup {id}
      BY <1>2, <1>3, <2>1 DEF IdsOf
    <3> QED
      BY <1>4, <2>1, <3>1
  <2>2. CASE q # p
    <3>1. IdsOf(q)' = IdsOf(q)
      BY <1>2, <1>3, <2>2 DEF IdsOf
    <3> QED
      BY <1>4, <2>2, <3>1 DEF IInv, PoolLists
  <2> QED
    BY <2>1, <2>2
<1>7. OneEmptyBlock'
  <2> SUFFICES ASSUME NEW q \in Pools, NEW e \in EmptyIn(q)'
               PROVE  /\ pools'[q].empty_block_count = 1
                      /\ \A other \in EmptyIn(q)' : other = e
    BY DEF OneEmptyBlock
  <2>1. EmptyIn(q)' \subseteq EmptyIn(q)
    BY <1>2, <1>3 DEF EmptyIn
  <2>2. pools'[q].empty_block_count = pools[q].empty_block_count
    BY <1>4
  <2> QED
    BY <2>1, <2>2 DEF IInv, OneEmptyBlock
<1>8. Blocks'
  <2> SUFFICES ASSUME NEW i \in Ids \cup {id}
               PROVE  /\ blk'[i].pool \in Pools /\ BlockInv(blk'[i])
                      /\ HoldsSpans(blk'[i], SpansOf(i)')
    BY <1>2 DEF Blocks
  <2>1. CASE i = id
    <3>1. SpansOf(i)' = {t}
      BY <1>1, <2>1 DEF SpansOf, Mapped
    <3> QED
      BY <1>2, <2>1, <3>1
  <2>2. CASE i # id
    <3>1. SpansOf(i)' = SpansOf(i)
      BY <2>2 DEF SpansOf, Mapped
    <3> QED
      BY <1>3, <2>2, <3>1 DEF IInv, Blocks
  <2> QED
    BY <2>1, <2>2
<1>9. \A s \in spans' : s.block \in Ids'
  BY <1>1, <1>2 DEF Mapped
<1> QED
  BY <1>5, <1>6, <1>7, <1>8, <1>9 DEF IInv

LEMMA AllocNewBlockInv ==
  ASSUME IInv, NEW size \in Requests, AllocNewBlock(size)
  PROVE  IInv' /\ \E id : Effect(id)
<1> DEFINE pl  == SizeToPoolId(size)
           num == AreaSizeOf(pl, size)
           ord == Visit(pools[pl])
           bytes(large) == IF large THEN RoundUp(IdealBlockSize(pl, size), LargePageSize)
                           ELSE IdealBlockSize(pl, size)
<1>1. /\ pl \in Pools /\ size \in Nat \ {0} /\ num \in Nat \ {0} /\ Len(ord) \in Nat
  BY RequestFacts
<1>2. PICK id \in BlockIds \ Ids, large \in BOOLEAN :
        /\ large => TriesLargePages(IdealBlockSize(pl, size))
        /\ LET b == NewBlock(pl, bytes(large), large)
               s == InitialAreaStart(b)
           IN /\ blk' = [i \in Ids \cup {id} |->
                           IF i = id THEN Place(b, num)
                           ELSE PassedOver(ord, Len(ord) + 1, num)[i]]
              /\ pools' = [pools EXCEPT ![pl] = AddUsed(InsertBlock(@, id, b), b, num)]
              /\ tree' = tree \cup {id}
              /\ spans' = spans \cup {[block |-> id, start |-> s, end |-> s + num]}
  BY DEF AllocNewBlock, Ids
<1>3. /\ NoneHasRoom(ord, num) /\ allocation_count' = allocation_count + 1
  BY DEF AllocNewBlock
<1>4. PICK p, n, b, c, start, end, t, searched, pool :
        /\ p = pl /\ n = num /\ b = NewBlock(pl, bytes(large), large) /\ c = Place(b, n)
        /\ start = InitialAreaStart(b) /\ end = start + n
        /\ t = [block |-> id, start |-> start, end |-> end]
        /\ searched = PassedOver(ord, Len(ord) + 1, num)
        /\ pool = AddUsed(InsertBlock(pools[p], id, b), b, n)
  OBVIOUS
<1>5. Mapped(id, c, t, searched, p, pool)
  <2> HIDE DEF pl, num, ord, bytes
  <2> QED
    BY <1>2, <1>3, <1>4 DEF Mapped
<1>6. bytes(large) \in Nat /\ size + Padding(pl) <= bytes(large)
  <2>1. /\ IdealBlockSize(pl, size) \in Nat
        /\ size + Padding(pl) <= IdealBlockSize(pl, size)
        /\ Padding(pl) \in Nat
    BY <1>1, IdealBlockSizeBound, PaddingType DEF IInv
  <2>2. large => LargePageSize \in Nat \ {0}
    BY <1>2, ConstantsAssumption DEF TriesLargePages
  <2>3. large => /\ RoundUp(IdealBlockSize(pl, size), LargePageSize) \in Nat
                 /\ IdealBlockSize(pl, size) <= RoundUp(IdealBlockSize(pl, size), LargePageSize)
    BY <2>1, <2>2, RoundUpBound
  <2> HIDE DEF pl
  <2> QED
    BY <1>1, <2>1, <2>3
<1>7. IsFresh(b, p, n)
  <2> HIDE DEF bytes
  <2> QED
    BY <1>1, <1>4, <1>6, NewBlockIsFresh
<1> HIDE DEF pl, num, bytes
<1>8. n \in Nat \ {0} /\ p \in Pools
  BY <1>1, <1>4
<1>9. /\ b.pool = p /\ BlockInv(b) /\ HoldsSpans(b, {}) /\ HasRoom(b, n)
      /\ start = AreaIndex(b, n) /\ start \in Nat /\ start + n <= b.area_size
      /\ start = InitialAreaStart(b) /\ b \in BlockType /\ IsFilledUp(b)
  BY <1>4, <1>7 DEF IsFresh, BlockInv, InBounds
<1>10. /\ IsTaken(b, c, start, end) /\ IsArea(b, start, end)
       /\ b.used \cap (start .. end - 1) = {}
  BY <1>4, <1>8, <1>9, PlacedArea
<1>11. t \in SpanType /\ t.block = id /\ t.start = start /\ t.end = end
  BY <1>4, <1>8, <1>9 DEF SpanType
<1>12. HoldsSpans(c, {t})
  <2>1. /\ IsTaken(b, c, t.start, t.end) /\ IsArea(b, t.start, t.end)
        /\ b.used \cap (t.start .. t.end - 1) = {}
    BY <1>10, <1>11
  <2>2. HoldsSpans(c, {} \cup {t})
    BY <1>9, <1>11, <2>1, SpanTaken
  <2> QED
    BY <2>2
<1>13. c.pool = p /\ BlockInv(c) /\ ~IsEmptyBlock(c)
  BY <1>9, <1>10 DEF IsTaken, SameShape
<1>14. \A i \in Ids : Kept(i, searched[i])
  <2>1. PICK more : more = Len(ord) + 1
    OBVIOUS
  <2>2. more \in Nat
    BY <1>1, <2>1
  <2>3. \A j \in 1 .. more - 1 : ~HasRoom(blk[ord[j]], n)
    BY <1>1, <1>3, <1>4, <2>1 DEF NoneHasRoom
  <2>4. searched = PassedOver(ord, more, n)
    BY <1>4, <2>1
  <2> HIDE DEF ord
  <2> QED
    BY <1>8, <2>2, <2>3, <2>4, PassedOverKept
<1>15. /\ pool \in PoolType /\ IsListOf(pool, IdsOf(p) \cup {id})
       /\ pool.empty_block_count = pools[p].empty_block_count
       /\ Recounted(pools[p], pool, 1, StatIndex(c), c.area_size, c.area_used)
  <2>1. PICK longer : longer = InsertBlock(pools[p], id, b)
    OBVIOUS
  <2>2. /\ pools[p] \in PoolType /\ IdsOf(p) \in SUBSET BlockIds /\ IsListOf(pools[p], IdsOf(p))
        /\ id \in BlockIds \ IdsOf(p)
    BY <1>8 DEF IInv, StateTypes, PoolLists, IdsOf
  <2>3. /\ longer \in PoolType /\ longer.empty_block_count = pools[p].empty_block_count
        /\ IsListOf(longer, IdsOf(p) \cup {id})
    <3>1. b \in BlockType
      BY <1>9
    <3> QED
      BY <2>1, <2>2, <3>1, InsertedList
  <2>4. pool = AddUsed(longer, b, n) /\ n \in Int
    BY <1>4, <1>8, <2>1
  <2>5. /\ pool \in PoolType /\ pool.blocks = longer.blocks /\ pool.cursor = longer.cursor
        /\ pool.empty_block_count = longer.empty_block_count
    BY <2>3, <2>4, AddUsedType
  <2>6. Recounted(pools[p], pool, 1, StatIndex(c), c.area_size, c.area_used)
    <3>1. Recounted(pools[p], longer, 1, StatIndex(b), b.area_size, b.area_used)
      BY <1>9, <2>1, <2>2, InsertRecounts
    <3>2. Recounted(longer, pool, 0, StatIndex(b), 0, n)
      BY <2>3, <2>4, AddUsedRecounts
    <3>3. b.area_size \in Int /\ b.area_used \in Int /\ 0 \in Int /\ 1 \in Int
      BY <1>9 DEF BlockType
    <3>4. Recounted(pools[p], pool, 1 + 0, StatIndex(b), b.area_size + 0, b.area_used + n)
      BY <2>2, <2>3, <2>4, <2>5, <3>1, <3>2, <3>3, RecountedTwice
    <3>5. SameShape(b, c) /\ c.area_used = b.area_used + n
      BY <1>4, <1>8, <1>9, <1>10, <3>3 DEF IsTaken
    <3>6. StatIndex(c) = StatIndex(b) /\ c.area_size = b.area_size
      BY <3>5, SameSlot DEF SameShape
    <3>7. b.area_size + 0 = c.area_size /\ b.area_used + n = c.area_used /\ 1 + 0 = 1
      BY <3>3, <3>5, <3>6
    <3> QED
      BY <3>4, <3>6, <3>7
  <2> QED
    BY ZenonT(60), <2>3, <2>5, <2>6 DEF IsListOf
<1>16. IInv'
  BY <1>5, <1>8, <1>11, <1>12, <1>13, <1>14, <1>15, MapStep
<1>17. Effect(id)
  <2>1. c \in BlockType /\ IsFilledUp(c)
    BY <1>9, <1>10, <1>13, TakenFilledUp DEF BlockInv, InBounds
  <2> QED
    BY <1>5, <1>8, <1>13, <1>14, <1>15, <2>1, MapEffect
<1> QED
  BY <1>16, <1>17

LEMMA KeptBlocksFacts ==
  ASSUME IInv, NEW p \in Pools, NEW policy
  PROVE  /\ KeptBlocks(p, policy) \subseteq IdsOf(p)
         /\ KeptBlocks(p, policy) # {} =>
              /\ KeptBlocks(p, policy) = {pools[p].blocks[1]}
              /\ pools[p].blocks[1] \in IdsOf(p)
<1>1. CASE KeptBlocks(p, policy) = {}
  BY <1>1
<1>2. CASE KeptBlocks(p, policy) # {}
  <2>1. pools[p].blocks # << >> /\ KeptBlocks(p, policy) = {pools[p].blocks[1]}
    BY <1>2 DEF KeptBlocks
  <2>2. pools[p].blocks \in Seq(BlockIds) /\ IsListOf(pools[p], IdsOf(p))
    BY DEF IInv, StateTypes, PoolType, PoolLists
  <2>3. 1 \in 1 .. Len(pools[p].blocks)
    BY <2>1, <2>2, EmptySeq
  <2>4. pools[p].blocks[1] \in IdsOf(p)
    BY <2>2, <2>3 DEF IsListOf
  <2> QED
    BY <2>1, <2>4
<1> QED
  BY <1>1, <1>2

LEMMA WipedBlock ==
  ASSUME IInv, NEW id \in Ids
  PROVE  /\ WipeOutBlock(blk[id]).pool = blk[id].pool
         /\ BlockInv(WipeOutBlock(blk[id])) /\ WipeOutBlock(blk[id]) \in BlockType
         /\ HoldsSpans(WipeOutBlock(blk[id]), {})
<1>1. /\ BlockInv(blk[id]) /\ HoldsSpans(blk[id], SpansOf(id)) /\ SpansOf(id) \in SUBSET SpanType
  BY SpansOfType DEF IInv, Blocks
<1>2. /\ BlockInv(WipeOutBlock(blk[id])) /\ SameShape(blk[id], WipeOutBlock(blk[id]))
      /\ HoldsSpans(WipeOutBlock(blk[id]), {})
  BY <1>1, WipedOut
<1> QED
  BY <1>2 DEF SameShape, BlockInv, InBounds

LEMMA PoolAfterResetFacts ==
  ASSUME IInv, NEW p \in Pools, NEW policy
  PROVE  /\ PoolAfterReset(p, policy) \in PoolType
         /\ IsListOf(PoolAfterReset(p, policy), KeptBlocks(p, policy))
         /\ KeptBlocks(p, policy) # {} => PoolAfterReset(p, policy).empty_block_count = 1
<1> DEFINE cleared == [EmptyPool EXCEPT !.empty_block_count = pools[p].empty_block_count]
           id      == pools[p].blocks[1]
           wiped   == WipeOutBlock(blk[id])
           longer  == InsertBlock(cleared, id, wiped)
<1>1. cleared \in PoolType /\ IsListOf(cleared, {})
  <2>1. pools[p].empty_block_count \in 0 .. 1
    BY DEF IInv, StateTypes, PoolType
  <2> QED
    BY <2>1, EmptyPoolList
<1>2. CASE KeptBlocks(p, policy) = {}
  BY <1>1, <1>2 DEF PoolAfterReset
<1>3. CASE KeptBlocks(p, policy) # {}
  <2>1. id \in IdsOf(p) /\ KeptBlocks(p, policy) = {id}
    BY <1>3, KeptBlocksFacts
  <2>2. id \in Ids /\ id \in BlockIds
    BY <2>1 DEF IdsOf, IInv, StateTypes
  <2>3. wiped \in BlockType
    BY <2>2, WipedBlock
  <2> HIDE DEF cleared, wiped, id
  <2>4. longer \in PoolType /\ IsListOf(longer, {} \cup {id})
    BY <1>1, <2>2, <2>3, InsertedList
  <2>5. PoolAfterReset(p, policy) = [longer EXCEPT !.empty_block_count = 1]
    BY <1>3 DEF PoolAfterReset, cleared, wiped, id
  <2> HIDE DEF longer
  <2>6. [longer EXCEPT !.empty_block_count = 1] \in PoolType
        /\ [longer EXCEPT !.empty_block_count = 1].empty_block_count = 1
        /\ [longer EXCEPT !.empty_block_count = 1].blocks = longer.blocks
        /\ [longer EXCEPT !.empty_block_count = 1].cursor = longer.cursor
    BY <2>4 DEF PoolType
  <2>7. IsListOf([longer EXCEPT !.empty_block_count = 1], {id})
    BY <2>4, <2>6 DEF IsListOf
  <2> QED
    BY <2>1, <2>5, <2>6, <2>7
<1> QED
  BY <1>2, <1>3

\* What a reset that succeeds leaves.
WasReset(policy, kept) ==
  /\ kept = UNION {KeptBlocks(p, policy) : p \in Pools}
  /\ blk' = [id \in kept |-> WipeOutBlock(blk[id])]
  /\ pools' = [p \in Pools |-> PoolAfterReset(p, policy)]
  /\ spans' = {}

LEMMA ResetInv ==
  ASSUME IInv, NEW policy, Reset(policy)
  PROVE  IInv' /\ ((\E id : Effect(id)) \/ \E kept : WasReset(policy, kept))
<1>1. PICK kept : kept = UNION {KeptBlocks(p, policy) : p \in Pools}
  OBVIOUS
<1>2. CASE Fail("insert: node must not contain garbage")
  BY <1>2, UnchangedStep DEF Fail
<1>3. CASE /\ blk' = [id \in kept |-> WipeOutBlock(blk[id])]
           /\ pools' = [p \in Pools |-> PoolAfterReset(p, policy)]
           /\ tree' = kept /\ spans' = {} /\ UNCHANGED <<allocation_count, fault>>
  <2>1. /\ kept \subseteq Ids /\ Ids \subseteq BlockIds
        /\ \A p \in Pools : KeptBlocks(p, policy) = {id \in kept : blk[id].pool = p}
    <3>1. \A p \in Pools : KeptBlocks(p, policy) \subseteq IdsOf(p)
      BY KeptBlocksFacts
    <3>2. Ids \subseteq BlockIds
      BY DEF IInv, StateTypes
    <3> QED
      BY <1>1, <3>1, <3>2 DEF IdsOf
  <2>2. \A id \in kept : /\ blk'[id] \in BlockType /\ blk'[id].pool = blk[id].pool
                         /\ BlockInv(blk'[id]) /\ HoldsSpans(blk'[id], {})
    BY <1>3, <2>1, WipedBlock
  <2>3. Ids' = kept
    BY <1>3 DEF Ids
  <2>4. \A p \in Pools : /\ pools'[p] \in PoolType /\ IsListOf(pools'[p], KeptBlocks(p, policy))
                         /\ KeptBlocks(p, policy) # {} => pools'[p].empty_block_count = 1
    BY <1>3, PoolAfterResetFacts
  <2>5. \A p \in Pools : IdsOf(p)' = KeptBlocks(p, policy)
    BY <2>1, <2>2, <2>3 DEF IdsOf
  <2>6. StateTypes'
    <3>1. blk' \in [kept -> BlockType]
      BY <1>3, <2>2
    <3>2. pools' \in [Pools -> PoolType]
      BY <1>3, <2>4
    <3> QED
      BY <1>3, <2>1, <2>3, <3>1, <3>2 DEF StateTypes, IInv
  <2>7. PoolLists'
    BY <2>4, <2>5 DEF PoolLists
  <2>8. OneEmptyBlock'
    <3> SUFFICES ASSUME NEW p \in Pools, NEW e \in EmptyIn(p)'
                 PROVE  /\ pools'[p].empty_block_count = 1
                        /\ \A other \in EmptyIn(p)' : other = e
      BY DEF OneEmptyBlock
    <3>1. EmptyIn(p)' \subseteq KeptBlocks(p, policy)
      BY <2>5 DEF EmptyIn, IdsOf
    <3>2. KeptBlocks(p, policy) # {} /\ KeptBlocks(p, policy) = {pools[p].blocks[1]}
      BY <3>1, KeptBlocksFacts
    <3> QED
      BY <2>4, <3>1, <3>2
  <2>9. Blocks'
    <3> SUFFICES ASSUME NEW id \in kept
                 PROVE  /\ blk'[id].pool \in Pools /\ BlockInv(blk'[id])
                        /\ HoldsSpans(blk'[id], SpansOf(id)')
      BY <2>3 DEF Blocks
    <3>1. SpansOf(id)' = {}
      BY <1>3 DEF SpansOf
    <3> QED
      BY <2>1, <2>2, <3>1 DEF IInv, Blocks
  <2>10. WasReset(policy, kept)
    BY <1>1, <1>3 DEF WasReset
  <2> QED
    BY <1>3, <2>6, <2>7, <2>8, <2>9, <2>10 DEF IInv
<1> QED
  BY <1>1, <1>2, <1>3 DEF Reset

-------------------------------------------------------------------------------
(* The counters *)

Sizes == [id \in Ids |-> blk[id].area_size]
Uses  == [id \in Ids |-> blk[id].area_used]

\* CountersExact, the counts taken without recursion.
TotalsExact ==
  \A p \in Pools :
    /\ pools[p].block_count = Len(pools[p].blocks)
    /\ \A i \in 0 .. 1 :
         /\ pools[p].total_area_size[i] = SumOver(Sizes, CountedIn(p, i))
         /\ pools[p].total_area_used[i] = SumOver(Uses, CountedIn(p, i))

\* A set of blocks with finitely many blocks, whose sizes and uses are counts.
Countable(S) ==
  /\ IsFiniteSet(S) /\ S \subseteq Ids
  /\ \A x \in S : Sizes[x] \in Nat /\ Uses[x] \in Nat

LEMMA CountedIsFinite ==
  ASSUME IInv
  PROVE  \A p \in Pools, i \in 0 .. 1 : Countable(CountedIn(p, i))
<1> SUFFICES ASSUME NEW p \in Pools, NEW i \in 0 .. 1 PROVE Countable(CountedIn(p, i))
  OBVIOUS
<1>1. IsListOf(pools[p], IdsOf(p)) /\ pools[p].blocks \in Seq(BlockIds)
  BY DEF IInv, PoolLists, StateTypes, PoolType
<1> DEFINE list == pools[p].blocks
           f    == [k \in 1 .. Len(list) |-> list[k]]
<1>2. Len(list) \in Nat
  BY <1>1, LenProperties
<1>3. IsFiniteSet(1 .. Len(list))
  <2>1. 1 \in Int /\ Len(list) \in Int
    BY <1>2
  <2> HIDE DEF list
  <2> QED
    BY <2>1, FS_Interval
<1>4. f \in Surjection(1 .. Len(list), IdsOf(p))
  BY <1>1 DEF IsListOf, Surjection
<1> HIDE DEF f
<1>5. IsFiniteSet(IdsOf(p))
  BY <1>3, <1>4, FS_Surjection
<1>6. CountedIn(p, i) \subseteq IdsOf(p)
  BY DEF CountedIn, IdsOf
<1>7. IsFiniteSet(CountedIn(p, i))
  BY <1>5, <1>6, FS_Subset
<1>8. CountedIn(p, i) \subseteq Ids
  BY DEF CountedIn
<1>9. \A x \in Ids : Sizes[x] \in Nat /\ Uses[x] \in Nat
  BY DEF Sizes, Uses, IInv, StateTypes, BlockType
<1> QED
  BY <1>7, <1>8, <1>9 DEF Countable

LEMMA CountedIsFiniteNext ==
  IInv' => (\A p \in Pools, i \in 0 .. 1 : Countable(CountedIn(p, i)))'
<1>1. IInv => \A p \in Pools, i \in 0 .. 1 : Countable(CountedIn(p, i))
  BY CountedIsFinite
<1> QED
  BY <1>1, PTL

LEMMA EffectOnTotals ==
  ASSUME IInv, IInv', TotalsExact, NEW id, Effect(id)
  PROVE  TotalsExact'
<1> SUFFICES ASSUME NEW p \in Pools
             PROVE  /\ pools'[p].block_count = Len(pools'[p].blocks)
                    /\ \A i \in 0 .. 1 :
                         /\ pools'[p].total_area_size[i] = SumOver(Sizes', CountedIn(p, i)')
                         /\ pools'[p].total_area_used[i] = SumOver(Uses', CountedIn(p, i)')
  BY DEF TotalsExact
<1>1. SharesFollow(id, p)
  BY DEF Effect
<1>2. pools[p] \in PoolType /\ pools'[p] \in PoolType
  BY DEF IInv, StateTypes
<1>3. ASSUME NEW pool \in PoolType
      PROVE  /\ pool.block_count \in Int /\ Len(pool.blocks) \in Int
             /\ \A i \in 0 .. 1 : pool.total_area_size[i] \in Int /\ pool.total_area_used[i] \in Int
  <2>1. /\ pool.blocks \in Seq(BlockIds) /\ pool.block_count \in Int
        /\ pool.total_area_size \in [0 .. 1 -> Int] /\ pool.total_area_used \in [0 .. 1 -> Int]
    BY DEF PoolType
  <2>2. Len(pool.blocks) \in Nat
    BY <2>1, LenProperties
  <2> QED
    BY <2>1, <2>2
<1>4. pools'[p].block_count = Len(pools'[p].blocks)
  <2>1. PICK w, x, y, z : /\ w = pools[p].block_count /\ x = pools'[p].block_count
                          /\ y = Len(pools[p].blocks) /\ z = Len(pools'[p].blocks)
    OBVIOUS
  <2>2. w \in Int /\ x \in Int /\ y \in Int /\ z \in Int
    BY <1>2, <1>3, <2>1
  <2>3. x - z = w - y /\ w = y
    BY <1>1, <2>1 DEF SharesFollow, TotalsExact
  <2>4. x = z
    BY <2>2, <2>3
  <2> QED
    BY <2>1, <2>4
<1>5. ASSUME NEW i \in 0 .. 1
      PROVE  /\ pools'[p].total_area_size[i] = SumOver(Sizes', CountedIn(p, i)')
             /\ pools'[p].total_area_used[i] = SumOver(Uses', CountedIn(p, i)')
  <2>1. PICK S, T, f, g, u, v : /\ S = CountedIn(p, i) /\ T = CountedIn(p, i)' /\ f = Sizes
                                /\ g = Sizes' /\ u = Uses /\ v = Uses'
    OBVIOUS
  <2>2. /\ IsFiniteSet(S) /\ S \subseteq Ids /\ \A x \in S : f[x] \in Nat /\ u[x] \in Nat
        /\ IsFiniteSet(T) /\ T \subseteq Ids' /\ \A x \in T : g[x] \in Nat /\ v[x] \in Nat
    <3>1. Countable(S)
      BY <2>1, CountedIsFinite
    <3>2. Countable(CountedIn(p, i))'
      BY CountedIsFiniteNext
    <3> QED
      BY <2>1, <3>1, <3>2 DEF Countable
  <2>3. S \ {id} = T \ {id} /\ \A x \in S \ {id} : f[x] = g[x] /\ u[x] = v[x]
    <3>1. Ids' \ {id} = Ids \ {id} /\ \A x \in Ids \ {id} : IsSearched(blk[x], blk'[x])
      BY DEF Effect
    <3>2. \A x \in Ids \ {id} :
            /\ blk'[x].pool = blk[x].pool /\ StatIndex(blk'[x]) = StatIndex(blk[x])
            /\ blk'[x].area_size = blk[x].area_size /\ blk'[x].area_used = blk[x].area_used
      BY <3>1, SameSlot DEF IsSearched, SameShape
    <3>3. \A x : x # id => (x \in S <=> x \in T)
      BY <2>1, <3>1, <3>2, SlotOf, SlotOfNext
    <3>4. \A x \in Ids \ {id} : f[x] = g[x] /\ u[x] = v[x]
      BY <2>1, <3>1, <3>2 DEF Sizes, Uses
    <3> QED
      BY <2>2, <3>3, <3>4
  <2>4. /\ SumOver(g, T) - ShareOf(g, T, id) = SumOver(f, S) - ShareOf(f, S, id)
        /\ SumOver(v, T) - ShareOf(v, T, id) = SumOver(u, S) - ShareOf(u, S, id)
    BY <2>2, <2>3, SumOverMoved
  <2>5. /\ ShareOf(f, S, id) = SizeShare(id, p, i) /\ ShareOf(u, S, id) = UseShare(id, p, i)
        /\ ShareOf(g, T, id) = SizeShare(id, p, i)' /\ ShareOf(v, T, id) = UseShare(id, p, i)'
    BY <2>1, <2>2 DEF ShareOf, SizeShare, UseShare, Sizes, Uses
  <2>6. /\ SumOver(f, S) \in Int /\ SumOver(u, S) \in Int /\ SumOver(g, T) \in Int
        /\ SumOver(v, T) \in Int
        /\ ShareOf(f, S, id) \in Int /\ ShareOf(u, S, id) \in Int
        /\ ShareOf(g, T, id) \in Int /\ ShareOf(v, T, id) \in Int
    BY <2>2, UnitsAreFinite, FS_CardinalityType DEF SumOver, ShareOf
  <2>7. /\ pools'[p].total_area_size[i] - ShareOf(g, T, id) = SumOver(f, S) - ShareOf(f, S, id)
        /\ pools'[p].total_area_used[i] - ShareOf(v, T, id) = SumOver(u, S) - ShareOf(u, S, id)
    BY <1>1, <2>1, <2>5 DEF SharesFollow, TotalsExact
  <2>8. pools'[p].total_area_size[i] \in Int /\ pools'[p].total_area_used[i] \in Int
    BY <1>2, <1>3
  <2>9. pools'[p].total_area_size[i] = SumOver(g, T) /\ pools'[p].total_area_used[i] = SumOver(v, T)
    BY <2>4, <2>6, <2>7, <2>8
  <2> QED
    BY <2>1, <2>9
<1> QED
  BY <1>4, <1>5

\* The blocks a pool counts after a reset: the one it keeps.
LEMMA CountedAfterReset ==
  ASSUME IInv, NEW policy, NEW kept, WasReset(policy, kept), NEW p \in Pools, NEW i
  PROVE  /\ Ids' = kept /\ IdsOf(p)' = KeptBlocks(p, policy)
         /\ CountedIn(p, i)' = {id \in KeptBlocks(p, policy) : StatIndex(WipeOutBlock(blk[id])) = i}
<1>1. Ids' = kept
  BY DEF WasReset, Ids
<1>2. \A q \in Pools : KeptBlocks(q, policy) \subseteq IdsOf(q)
  BY KeptBlocksFacts
<1>3. \A id \in kept : /\ blk'[id] = WipeOutBlock(blk[id]) /\ id \in Ids
                       /\ blk'[id].pool = blk[id].pool
  <2>1. \A id \in kept : id \in Ids
    BY <1>2 DEF WasReset, IdsOf
  <2> QED
    BY <2>1, WipedBlock DEF WasReset
<1>4. \A id : id \in kept /\ blk[id].pool = p <=> id \in KeptBlocks(p, policy)
  BY <1>2 DEF WasReset, IdsOf
<1>5. IdsOf(p)' = KeptBlocks(p, policy)
  BY <1>1, <1>3, <1>4 DEF IdsOf
<1>6. CountedIn(p, i)' = {id \in KeptBlocks(p, policy) : StatIndex(WipeOutBlock(blk[id])) = i}
  BY <1>1, <1>3, <1>4 DEF CountedIn
<1> QED
  BY <1>1, <1>5, <1>6

LEMMA EmptyPoolTotals ==
  ASSUME NEW n \in 0 .. 1
  PROVE  LET pool == [EmptyPool EXCEPT !.empty_block_count = n] IN
         /\ pool.block_count = 0 /\ Len(pool.blocks) = 0 /\ pool.empty_block_count = n
         /\ \A i \in 0 .. 1 : pool.total_area_size[i] = 0 /\ pool.total_area_used[i] = 0
<1>1. Len(<< >>) = 0
  BY EmptySeq
<1> QED
  BY <1>1 DEF EmptyPool

LEMMA ResetTotals ==
  ASSUME IInv, NEW policy, NEW kept, WasReset(policy, kept)
  PROVE  TotalsExact'
<1> SUFFICES ASSUME NEW p \in Pools
             PROVE  /\ pools'[p].block_count = Len(pools'[p].blocks)
                    /\ \A i \in 0 .. 1 :
                         /\ pools'[p].total_area_size[i] = SumOver(Sizes', CountedIn(p, i)')
                         /\ pools'[p].total_area_used[i] = SumOver(Uses', CountedIn(p, i)')
  BY DEF TotalsExact
<1>1. PICK cleared : cleared = [EmptyPool EXCEPT !.empty_block_count = pools[p].empty_block_count]
  OBVIOUS
<1>2. /\ cleared.block_count = 0 /\ Len(cleared.blocks) = 0 /\ cleared \in PoolType
      /\ \A i \in 0 .. 1 : cleared.total_area_size[i] = 0 /\ cleared.total_area_used[i] = 0
  <2>1. pools[p].empty_block_count \in 0 .. 1
    BY DEF IInv, StateTypes, PoolType
  <2> QED
    BY <1>1, <2>1, EmptyPoolTotals, EmptyPoolList
<1>3. pools'[p] = PoolAfterReset(p, policy)
  BY DEF WasReset
<1>4. CASE KeptBlocks(p, policy) = {}
  <2>1. pools'[p] = cleared
    BY <1>1, <1>3, <1>4 DEF PoolAfterReset
  <2>2. \A i \in 0 .. 1 : CountedIn(p, i)' = {}
    BY <1>4, CountedAfterReset
  <2> QED
    BY <1>2, <2>1, <2>2, SumOverNone
<1>5. CASE KeptBlocks(p, policy) # {}
  <2>1. PICK id, wiped, longer, last :
          /\ id = pools[p].blocks[1] /\ wiped = WipeOutBlock(blk[id])
          /\ longer = InsertBlock(cleared, id, wiped)
          /\ last = [longer EXCEPT !.empty_block_count = 1]
    OBVIOUS
  <2>2. /\ KeptBlocks(p, policy) = {id} /\ id \in Ids /\ id \in BlockIds /\ id \in kept
        /\ wiped \in BlockType
    <3>1. KeptBlocks(p, policy) = {id} /\ id \in IdsOf(p)
      BY <1>5, <2>1, KeptBlocksFacts
    <3>2. id \in Ids /\ id \in BlockIds
      BY <3>1 DEF IdsOf, IInv, StateTypes
    <3> QED
      BY <2>1, <3>1, <3>2, WipedBlock DEF WasReset
  <2>3. pools'[p] = last
    BY <1>1, <1>3, <1>5, <2>1 DEF PoolAfterReset
  <2>4. longer \in PoolType
    <3>1. IsListOf(cleared, {})
      <4>1. pools[p].empty_block_count \in 0 .. 1
        BY DEF IInv, StateTypes, PoolType
      <4> QED
        BY <1>1, <4>1, EmptyPoolList
    <3>2. id \in BlockIds \ {} /\ {} \in SUBSET BlockIds
      BY <2>2
    <3> QED
      BY <1>2, <2>1, <2>2, <3>1, <3>2, InsertedList
  <2>5. /\ last.block_count = longer.block_count /\ last.blocks = longer.blocks
        /\ last.total_area_size = longer.total_area_size
        /\ last.total_area_used = longer.total_area_used
    BY <2>1, <2>4 DEF PoolType
  <2>6. Recounted(cleared, longer, 1, StatIndex(wiped), wiped.area_size, wiped.area_used)
    BY <1>2, <2>1, <2>2, InsertRecounts
  <2>7. last.block_count = Len(last.blocks)
    <3>1. longer.blocks \in Seq(BlockIds) /\ longer.block_count \in Int
      BY <2>4 DEF PoolType
    <3>2. Len(longer.blocks) \in Nat
      BY <3>1, LenProperties
    <3>3. PICK x, y : x = longer.block_count /\ y = Len(longer.blocks)
      OBVIOUS
    <3>4. x \in Int /\ y \in Int /\ x - 0 = 1 /\ y - 0 = 1
      BY <1>2, <2>6, <3>1, <3>2, <3>3 DEF Recounted
    <3>5. x = y
      BY <3>4
    <3> QED
      BY <2>5, <3>3, <3>5
  <2>8. ASSUME NEW i \in 0 .. 1
        PROVE  /\ last.total_area_size[i] = SumOver(Sizes', CountedIn(p, i)')
               /\ last.total_area_used[i] = SumOver(Uses', CountedIn(p, i)')
    <3>1. wiped.area_size \in Nat /\ wiped.area_used \in Nat
      BY <2>2 DEF BlockType
    <3>2. Sizes'[id] = wiped.area_size /\ Uses'[id] = wiped.area_used
      <4>1. id \in Ids' /\ blk'[id] = wiped
        BY <2>1, <2>2, CountedAfterReset DEF WasReset
      <4> QED
        BY <4>1 DEF Sizes, Uses
    <3>3. CASE i = StatIndex(wiped)
      <4>1. CountedIn(p, i)' = {id}
        BY <2>1, <2>2, <3>3, CountedAfterReset
      <4>2. SumOver(Sizes', {id}) = wiped.area_size /\ SumOver(Uses', {id}) = wiped.area_used
        BY <3>1, <3>2, SumOverOne
      <4>3. longer.total_area_size[i] = 0 + wiped.area_size
            /\ longer.total_area_used[i] = 0 + wiped.area_used
        BY <1>2, <2>6, <3>3 DEF Recounted
      <4> QED
        BY <2>5, <3>1, <4>1, <4>2, <4>3
    <3>4. CASE i # StatIndex(wiped)
      <4>1. CountedIn(p, i)' = {}
        BY <2>1, <2>2, <3>4, CountedAfterReset
      <4>2. longer.total_area_size[i] = 0 /\ longer.total_area_used[i] = 0
        BY <1>2, <2>6, <3>4 DEF Recounted
      <4> QED
        BY <2>5, <4>1, <4>2, SumOverNone
    <3> QED
      BY <3>3, <3>4
  <2> QED
    BY <2>3, <2>7, <2>8
<1> QED
  BY <1>4, <1>5

\* The sums CountersExact compares the counters with.
LEMMA SumsOfBlocks ==
  ASSUME IInv, NEW S, Countable(S)
  PROVE  SizesOf(S) = SumOver(Sizes, S) /\ UsesOf(S) = SumOver(Uses, S)
<1>0. \A x \in S : Sizes[x] = blk[x].area_size /\ Uses[x] = blk[x].area_used
  BY DEF Countable, Sizes, Uses
<1>1. SizesOf(S) = SumOver(Sizes, S)
  <2> DEFINE IsFold(g) ==
               g = [s \in SUBSET S |->
                      IF s = {} THEN 0
                      ELSE LET x == CHOOSE y \in s : TRUE IN blk[x].area_size + g[s \ {x}]]
             it == CHOOSE g : IsFold(g)
  <2>1. \A g : IsFold(g) <=> IsSumFold(g, Sizes, S)
    BY <1>0 DEF IsSumFold
  <2>2. IsFold(it)
    <3> HIDE DEF IsFold
    <3>1. IsFiniteSet(S) /\ \A x \in S : Sizes[x] \in Nat
      BY DEF Countable
    <3>2. \E g : IsSumFold(g, Sizes, S)
      BY <3>1, SumFoldExists
    <3>3. \E g : IsFold(g)
      BY <2>1, <3>2
    <3> QED
      BY <3>3
  <2>3. SizesOf(S) = it[S]
    BY DEF SizesOf, MapThenSumSet, MapThenFoldSet
  <2> HIDE DEF it, IsFold
  <2>4. it[S] = SumOver(Sizes, S)
    BY <2>1, <2>2, SumFoldIsSum DEF Countable
  <2> QED
    BY <2>3, <2>4
<1>2. UsesOf(S) = SumOver(Uses, S)
  <2> DEFINE IsFold(g) ==
               g = [s \in SUBSET S |->
                      IF s = {} THEN 0
                      ELSE LET x == CHOOSE y \in s : TRUE IN blk[x].area_used + g[s \ {x}]]
             it == CHOOSE g : IsFold(g)
  <2>1. \A g : IsFold(g) <=> IsSumFold(g, Uses, S)
    BY <1>0 DEF IsSumFold
  <2>2. IsFold(it)
    <3> HIDE DEF IsFold
    <3>1. IsFiniteSet(S) /\ \A x \in S : Uses[x] \in Nat
      BY DEF Countable
    <3>2. \E g : IsSumFold(g, Uses, S)
      BY <3>1, SumFoldExists
    <3>3. \E g : IsFold(g)
      BY <2>1, <3>2
    <3> QED
      BY <3>3
  <2>3. UsesOf(S) = it[S]
    BY DEF UsesOf, MapThenSumSet, MapThenFoldSet
  <2> HIDE DEF it, IsFold
  <2>4. it[S] = SumOver(Uses, S)
    BY <2>1, <2>2, SumFoldIsSum DEF Countable
  <2> QED
    BY <2>3, <2>4
<1> QED
  BY <1>1, <1>2

LEMMA TotalsAreCounters == IInv /\ TotalsExact => CountersExact
<1> SUFFICES ASSUME IInv, TotalsExact PROVE CountersExact
  OBVIOUS
<1>1. \A id \in Ids : blk[id].area_used = Cardinality(blk[id].used)
  BY DEF IInv, Blocks, BlockInv, UsedCounted
<1>2. \A p \in Pools, i \in 0 .. 1 :
        /\ SizesOf(CountedIn(p, i)) = SumOver(Sizes, CountedIn(p, i))
        /\ UsesOf(CountedIn(p, i)) = SumOver(Uses, CountedIn(p, i))
  BY CountedIsFinite, SumsOfBlocks
<1> QED
  BY <1>1, <1>2 DEF CountersExact, TotalsExact

\* A pool that counts an empty block has one, and with kImmediateRelease none
\* counts any.
EmptyCounted ==
  \A p \in Pools : /\ pools[p].empty_block_count = 1 => EmptyIn(p) # {}
                   /\ HasOption("ImmediateRelease") => pools[p].empty_block_count = 0

LEMMA EffectOnEmpty ==
  ASSUME IInv, IInv', EmptyCounted, NEW id, Effect(id)
  PROVE  EmptyCounted'
<1> SUFFICES ASSUME NEW p \in Pools
             PROVE  /\ pools'[p].empty_block_count = 1 => EmptyIn(p)' # {}
                    /\ HasOption("ImmediateRelease") => pools'[p].empty_block_count = 0
  BY DEF EmptyCounted
<1>1. EmptyFollows(p)
  BY DEF Effect
<1>2. CASE pools'[p].empty_block_count = 0
  BY <1>2
<1>3. CASE pools'[p].empty_block_count = pools[p].empty_block_count /\ EmptyIn(p) \subseteq EmptyIn(p)'
  BY <1>3 DEF EmptyCounted
<1>4. CASE ~HasOption("ImmediateRelease") /\ EmptyIn(p)' # {}
  BY <1>4
<1> QED
  BY <1>1, <1>2, <1>3, <1>4 DEF EmptyFollows

\* A soft reset counts the block it keeps, and counts none where there was none.
LEMMA ResetEmpty ==
  ASSUME IInv, EmptyCounted, NEW kept, WasReset("soft", kept)
  PROVE  EmptyCounted'
<1> SUFFICES ASSUME NEW p \in Pools
             PROVE  /\ pools'[p].empty_block_count = 1 => EmptyIn(p)' # {}
                    /\ HasOption("ImmediateRelease") => pools'[p].empty_block_count = 0
  BY DEF EmptyCounted
<1>1. pools'[p] = PoolAfterReset(p, "soft")
  BY DEF WasReset
<1>2. CASE KeptBlocks(p, "soft") = {}
  <2>1. pools'[p].empty_block_count = pools[p].empty_block_count
    BY <1>1, <1>2 DEF PoolAfterReset, EmptyPool
  <2>2. pools[p].empty_block_count = 0
    <3>1. CASE HasOption("ImmediateRelease")
      BY <3>1 DEF EmptyCounted
    <3>2. CASE ~HasOption("ImmediateRelease")
      <4>1. pools[p].blocks = << >>
        BY <1>2, <3>2 DEF KeptBlocks
      <4>2. Len(pools[p].blocks) = 0
        BY <4>1, EmptySeq
      <4>3. IsListOf(pools[p], IdsOf(p))
        BY DEF IInv, PoolLists
      <4>4. IdsOf(p) = {}
        BY <4>2, <4>3 DEF IsListOf
      <4>5. EmptyIn(p) = {}
        BY <4>4 DEF EmptyIn, IdsOf
      <4>6. pools[p].empty_block_count \in 0 .. 1
        BY DEF IInv, StateTypes, PoolType
      <4> QED
        BY <4>5, <4>6 DEF EmptyCounted
    <3> QED
      BY <3>1, <3>2
  <2> QED
    BY <2>1, <2>2
<1>3. CASE KeptBlocks(p, "soft") # {}
  <2>1. PICK id : KeptBlocks(p, "soft") = {id} /\ id \in IdsOf(p)
    BY <1>3, KeptBlocksFacts
  <2>2. id \in kept /\ id \in Ids' /\ blk'[id] = WipeOutBlock(blk[id]) /\ id \in Ids
        /\ blk[id].pool = p
    <3>1. Ids' = kept
      BY CountedAfterReset
    <3>2. id \in kept /\ id \in Ids /\ blk[id].pool = p
      BY <2>1 DEF WasReset, IdsOf
    <3> QED
      BY <3>1, <3>2 DEF WasReset
  <2>3. /\ BlockInv(blk[id]) /\ HoldsSpans(blk[id], SpansOf(id)) /\ SpansOf(id) \in SUBSET SpanType
    BY <2>2, SpansOfType DEF IInv, Blocks
  <2>4. IsEmptyBlock(blk'[id]) /\ blk'[id].pool = p
    BY <2>2, <2>3, WipedOut DEF SameShape
  <2>5. EmptyIn(p)' # {}
    BY <2>2, <2>4 DEF EmptyIn
  <2>6. ~HasOption("ImmediateRelease")
    BY <1>3 DEF KeptBlocks
  <2> QED
    BY <2>5, <2>6
<1> QED
  BY <1>2, <1>3

\* With at most one empty block, one that is counted is all there are.
LEMMA EmptyCountIsExact == IInv /\ EmptyCounted => EmptyCountExact
<1> SUFFICES ASSUME IInv, EmptyCounted, NEW p \in Pools
             PROVE  pools[p].empty_block_count = Cardinality(EmptyIn(p))
  BY DEF EmptyCountExact
<1>1. pools[p].empty_block_count \in 0 .. 1
  BY DEF IInv, StateTypes, PoolType
<1>2. CASE EmptyIn(p) = {}
  <2>1. Cardinality(EmptyIn(p)) = 0
    BY <1>2, FS_EmptySet
  <2> QED
    BY <1>1, <1>2, <2>1 DEF EmptyCounted
<1>3. CASE EmptyIn(p) # {}
  <2>1. PICK id : id \in EmptyIn(p)
    BY <1>3
  <2>2. pools[p].empty_block_count = 1 /\ EmptyIn(p) = {id}
    BY <2>1 DEF IInv, OneEmptyBlock
  <2>3. Cardinality({id}) = 1
    BY FS_Singleton
  <2> QED
    BY <2>2, <2>3
<1> QED
  BY <1>2, <1>3

\* UnusedFilled, block by block.
LEMMA FilledBlocks == UnusedFilled <=> \A id \in Ids : IsFilledUp(blk[id])
  BY DEF UnusedFilled, IsFilledUp

LEMMA FilledBlocksNext == UnusedFilled' <=> (\A id \in Ids : IsFilledUp(blk[id]))'
  BY FilledBlocks, PTL

LEMMA EffectOnFilled ==
  ASSUME UnusedFilled, NEW id, Effect(id)
  PROVE  UnusedFilled'
<1>1. ASSUME NEW i \in Ids' PROVE IsFilledUp(blk'[i])
  <2>1. CASE i = id
    BY <1>1, <2>1, FilledBlocks DEF Effect
  <2>2. CASE i # id
    <3>1. i \in Ids /\ IsSearched(blk[i], blk'[i])
      BY <1>1, <2>2 DEF Effect
    <3>2. IsFilledUp(blk[i])
      BY <3>1, FilledBlocks
    <3> QED
      BY <3>1, <3>2 DEF IsFilledUp, IsSearched, SameShape
  <2> QED
    BY <2>1, <2>2
<1> QED
  BY <1>1, FilledBlocksNext

-------------------------------------------------------------------------------
(* Theorems *)

LEMMA InitInv == Init => IInv
<1> SUFFICES ASSUME Init PROVE IInv
  OBVIOUS
<1>1. Ids = {}
  BY DEF Init, Ids
<1>2. \A p \in Pools : IdsOf(p) = {} /\ EmptyIn(p) = {} /\ IsListOf(pools[p], {})
                       /\ pools[p] \in PoolType
  BY <1>1, EmptyPoolList DEF Init, IdsOf, EmptyIn
<1>3. StateTypes
  BY <1>1, <1>2 DEF Init, StateTypes
<1>4. PoolLists /\ OneEmptyBlock /\ Blocks /\ spans = {}
  BY <1>1, <1>2 DEF PoolLists, OneEmptyBlock, Blocks, Init
<1> QED
  BY <1>3, <1>4 DEF IInv

StepEffect ==
  (\E id : Effect(id)) \/ \E policy \in ResetPolicies : \E kept : WasReset(policy, kept)

\* Every step changes one block at most, or is a reset.
LEMMA NextInv ==
  ASSUME 0 \notin TruncateSizes
  PROVE  IInv /\ [Next]_vars => IInv' /\ StepEffect
<1> SUFFICES ASSUME IInv, [Next]_vars PROVE IInv' /\ StepEffect
  OBVIOUS
<1>1. CASE UNCHANGED vars
  BY <1>1, UnchangedStep DEF vars, StepEffect
<1>2. ASSUME NEW size \in Requests, AllocFromBlock(size) PROVE IInv' /\ StepEffect
  BY <1>2, AllocFromBlockInv DEF StepEffect
<1>3. ASSUME NEW size \in Requests, AllocNewBlock(size) PROVE IInv' /\ StepEffect
  BY <1>3, AllocNewBlockInv DEF StepEffect
<1>4. ASSUME NEW size \in Requests, AllocOutOfMemory(size) PROVE IInv' /\ StepEffect
  BY <1>4, AllocOutOfMemoryInv DEF StepEffect
<1>5. ASSUME NEW s \in spans, Release(s) PROVE IInv' /\ StepEffect
  BY <1>5, ReleaseInv DEF StepEffect
<1>6. ASSUME NEW s \in spans, NEW size \in Requests, Shrink(s, size) PROVE IInv' /\ StepEffect
  BY <1>6, ShrinkToInv, ConstantsAssumption DEF Shrink, StepEffect
<1>7. ASSUME NEW s \in spans, NEW size \in TruncateSizes, WriteTruncated(s, size) PROVE IInv' /\ StepEffect
  BY <1>7, ShrinkToInv, ConstantsAssumption DEF WriteTruncated, StepEffect
<1>8. ASSUME NEW policy \in ResetPolicies, Reset(policy) PROVE IInv' /\ StepEffect
  BY <1>8, ResetInv DEF StepEffect
<1> QED
  BY <1>1, <1>2, <1>3, <1>4, <1>5, <1>6, <1>7, <1>8 DEF Next

\* The inductive invariant holds in every reachable state.
THEOREM InductiveInvariant ==
  ASSUME 0 \notin TruncateSizes
  PROVE  Spec => []IInv
<1> QED
  BY InitInv, NextInv, PTL DEF Spec

\* TypeOK: what every field holds, the block lists and the tree included.
THEOREM TypeCorrect ==
  ASSUME 0 \notin TruncateSizes
  PROVE  Spec => []TypeOK
<1>1. IInv => TypeOK
  <2> SUFFICES ASSUME IInv PROVE TypeOK
    OBVIOUS
  <2>1. ASSUME NEW id \in Ids
        PROVE  LET b == blk[id] IN
               /\ b.pool \in Pools /\ b.block_size \in Nat /\ b.area_size \in Nat
               /\ b.flags \subseteq BlockFlags
               /\ b.used \cup b.stop \cup b.filled \subseteq 0 .. b.area_size - 1
               /\ {b.area_used, b.largest_unused_area, b.search_start, b.search_end}
                     \subseteq 0 .. b.area_size
    <3> DEFINE b == blk[id]
    <3>1. BlockInv(b) /\ b \in BlockType /\ b.pool \in Pools
      BY DEF IInv, Blocks, StateTypes
    <3> HIDE DEF b
    <3>2. /\ b.block_size \in Nat /\ b.area_size \in Nat /\ b.flags \subseteq BlockFlags
          /\ b.used \cup b.stop \cup b.filled \subseteq 0 .. b.area_size - 1
          /\ b.largest_unused_area \in 0 .. b.area_size
          /\ b.search_start \in 0 .. b.area_size /\ b.search_end \in 0 .. b.area_size
          /\ b.area_used \in Nat /\ b.area_used = Cardinality(b.used)
      BY <3>1 DEF BlockInv, InBounds, BlockType, UsedCounted
    <3>3. IsFiniteSet(0 .. b.area_size - 1) /\ Cardinality(0 .. b.area_size - 1) = b.area_size
      BY <3>2, AreaCount
    <3>4. b.area_used <= b.area_size
      BY <3>2, <3>3, FS_Subset
    <3>5. b.area_used \in 0 .. b.area_size
      BY <3>2, <3>4
    <3> QED
      BY <3>1, <3>2, <3>5 DEF b
  <2>2. ASSUME NEW p \in Pools
        PROVE  /\ pools[p].blocks \in Seq(Ids) /\ pools[p].cursor \in Ids \cup {NoBlock}
               /\ pools[p].empty_block_count \in 0 .. 1
    <3>1. /\ pools[p].blocks \in Seq(BlockIds) /\ pools[p].empty_block_count \in 0 .. 1
          /\ IsListOf(pools[p], IdsOf(p)) /\ IdsOf(p) \subseteq Ids
      BY DEF IInv, StateTypes, PoolType, PoolLists, IdsOf
    <3>2. pools[p].cursor \in Ids \cup {NoBlock}
          /\ \A i \in 1 .. Len(pools[p].blocks) : pools[p].blocks[i] \in Ids
      BY <3>1 DEF IsListOf
    <3>3. pools[p].blocks \in Seq(Ids)
      BY <3>1, <3>2, LenProperties
    <3> QED
      BY <3>1, <3>2, <3>3
  <2>3. /\ Ids \subseteq BlockIds /\ tree \subseteq Ids /\ allocation_count \in Int
        /\ \A s \in spans : s.block \in Ids /\ s.start \in Nat /\ s.end \in Nat
    BY DEF IInv, StateTypes
  <2> QED
    BY <2>1, <2>2, <2>3 DEF TypeOK
<1> QED
  BY <1>1, InductiveInvariant, PTL

\* SpansDisjoint: alloc() never gives two clients the same granule, or one
\* outside its block or in the padding, whatever the caches say.
THEOREM ClientsGetDisjointSpans ==
  ASSUME 0 \notin TruncateSizes
  PROVE  Spec => []SpansDisjoint
<1>1. IInv => SpansDisjoint
  <2> SUFFICES ASSUME IInv PROVE SpansDisjoint
    OBVIOUS
  <2>1. ASSUME NEW s \in spans
        PROVE  s.block \in Ids /\ IsArea(blk[s.block], s.start, s.end)
    BY HeldSpan
  <2>2. ASSUME NEW s \in spans, NEW t \in spans, s # t, s.block = t.block
        PROVE  s.end <= t.start \/ t.end <= s.start
    <3>1. s \in SpansOf(s.block) /\ t \in SpansOf(s.block)
      BY <2>2 DEF SpansOf
    <3>2. HoldsSpans(blk[s.block], SpansOf(s.block))
      BY HeldSpan
    <3> QED
      BY <2>2, <3>1, <3>2 DEF HoldsSpans
  <2> QED
    BY <2>1, <2>2 DEF SpansDisjoint, IsArea
<1> QED
  BY <1>1, InductiveInvariant, PTL

\* BitsMatchSpans: the two bit-vectors of every block describe the spans its
\* clients hold and nothing else.
THEOREM BitsDescribeSpans ==
  ASSUME 0 \notin TruncateSizes
  PROVE  Spec => []BitsMatchSpans
<1>1. IInv => BitsMatchSpans
  BY DEF IInv, Blocks, HoldsSpans, BitsMatchSpans
<1> QED
  BY <1>1, InductiveInvariant, PTL

\* IncrementalFront: what alloc() takes unseen from the front of an incremental
\* block is free.
THEOREM FrontIsFree ==
  ASSUME 0 \notin TruncateSizes
  PROVE  Spec => []IncrementalFront
<1>1. IInv => IncrementalFront
  BY DEF IInv, Blocks, BlockInv, IncrementalFront
<1> QED
  BY <1>1, InductiveInvariant, PTL

\* SkipIsSound: a block that alloc() passes over for its largest_unused_area
\* alone has no run of free granules in its search window that it could have used.
\* Memory that the window hides is not its subject (LargestUnusedIsLargest fails).
THEOREM SkippedWindowsHaveNoRoom ==
  ASSUME 0 \notin TruncateSizes
  PROVE  Spec => []SkipIsSound
<1>1. IInv => SkipIsSound
  BY DEF IInv, Blocks, BlockInv, SkipIsSound
<1> QED
  BY <1>1, InductiveInvariant, PTL

\* SearchWindow: outside the window that alloc() searches nothing is free but
\* the tail of the block.
THEOREM CachesAreSound ==
  ASSUME 0 \notin TruncateSizes
  PROVE  Spec => []SearchWindow
<1>1. IInv => SearchWindow
  BY DEF IInv, Blocks, BlockInv, SearchWindow
<1> QED
  BY <1>1, InductiveInvariant, PTL

\* EmptyHoldsNoSpan: no block that release() may unmap holds a span.
THEOREM EmptyBlocksAreUnused ==
  ASSUME 0 \notin TruncateSizes
  PROVE  Spec => []EmptyHoldsNoSpan
<1>1. IInv => EmptyHoldsNoSpan
  <2> SUFFICES ASSUME IInv, NEW id \in Ids, IsEmptyBlock(blk[id]) PROVE SpansOf(id) = {}
    BY DEF EmptyHoldsNoSpan
  <2>1. /\ BlockInv(blk[id]) /\ HoldsSpans(blk[id], SpansOf(id))
        /\ SpansOf(id) \in SUBSET SpanType
    BY SpansOfType DEF IInv, Blocks
  <2> QED
    BY <2>1, EmptyHoldsNone
<1> QED
  BY <1>1, InductiveInvariant, PTL

\* IndexAgrees: the tree, the block lists and the cursors always name exactly
\* the mapped blocks.
THEOREM IndexesAgree ==
  ASSUME 0 \notin TruncateSizes
  PROVE  Spec => []IndexAgrees
<1>1. IInv => IndexAgrees
  <2> SUFFICES ASSUME IInv PROVE IndexAgrees
    OBVIOUS
  <2>1. ASSUME NEW p \in Pools
        PROVE  LET list == pools[p].blocks IN
               /\ {list[i] : i \in 1 .. Len(list)} = {id \in Ids : blk[id].pool = p}
               /\ Len(list) = Cardinality({id \in Ids : blk[id].pool = p})
               /\ IF list = << >> THEN pools[p].cursor = NoBlock
                  ELSE \E i \in 1 .. Len(list) : pools[p].cursor = list[i]
    <3> DEFINE list == pools[p].blocks
    <3>1. /\ list \in Seq(BlockIds) /\ Len(list) \in Nat /\ IsListOf(pools[p], IdsOf(p))
          /\ (list = << >> <=> Len(list) = 0)
      BY LenProperties, EmptySeq DEF IInv, StateTypes, PoolType, PoolLists
    <3> HIDE DEF list
    <3>2. /\ \A i \in 1 .. Len(list) : list[i] \in IdsOf(p)
          /\ \A id \in IdsOf(p) : \E i \in 1 .. Len(list) : list[i] = id
          /\ \A i, j \in 1 .. Len(list) : list[i] = list[j] => i = j
          /\ IF Len(list) = 0 THEN pools[p].cursor = NoBlock ELSE pools[p].cursor \in IdsOf(p)
      BY <3>1 DEF IsListOf, list
    <3>3. {list[i] : i \in 1 .. Len(list)} = IdsOf(p)
      BY <3>2
    <3>4. Len(list) = Cardinality(IdsOf(p))
      <4> DEFINE f == [i \in 1 .. Len(list) |-> list[i]]
      <4>1. f \in Bijection(1 .. Len(list), IdsOf(p))
        BY <3>2 DEF Bijection, Injection, Surjection, IsInjective
      <4>2. ExistsBijection(1 .. Len(list), IdsOf(p))
        BY <4>1 DEF ExistsBijection
      <4> QED
        BY <3>1, <4>2, FS_CountingElements
    <3>5. IF list = << >> THEN pools[p].cursor = NoBlock
          ELSE \E i \in 1 .. Len(list) : pools[p].cursor = list[i]
      BY <3>1, <3>2
    <3> QED
      BY <3>3, <3>4, <3>5 DEF IdsOf, list
  <2>2. tree = Ids
    BY DEF IInv, StateTypes
  <2> QED
    BY <2>1, <2>2 DEF IndexAgrees
<1> QED
  BY <1>1, InductiveInvariant, PTL
\* CountersExact: the numbers of blocks, reserved granules and used granules that a
\* pool counts are what the bit-vectors and the block lists hold, after any mix of
\* calls.
THEOREM CountersAreExact ==
  ASSUME 0 \notin TruncateSizes
  PROVE  Spec => []CountersExact
<1>1. Init => TotalsExact
  <2> SUFFICES ASSUME Init, NEW p \in Pools
               PROVE  /\ pools[p].block_count = Len(pools[p].blocks)
                      /\ \A i \in 0 .. 1 :
                           /\ pools[p].total_area_size[i] = SumOver(Sizes, CountedIn(p, i))
                           /\ pools[p].total_area_used[i] = SumOver(Uses, CountedIn(p, i))
    BY DEF TotalsExact
  <2>1. \A i \in 0 .. 1 : CountedIn(p, i) = {}
    BY DEF Init, CountedIn, Ids
  <2>2. /\ pools[p].block_count = 0 /\ Len(pools[p].blocks) = 0
        /\ \A i \in 0 .. 1 : pools[p].total_area_size[i] = 0 /\ pools[p].total_area_used[i] = 0
    BY EmptySeq DEF Init, EmptyPool
  <2> QED
    BY <2>1, <2>2, SumOverNone
<1>2. IInv /\ IInv' /\ TotalsExact /\ [Next]_vars => TotalsExact'
  <2> SUFFICES ASSUME IInv, IInv', TotalsExact, [Next]_vars PROVE TotalsExact'
    OBVIOUS
  <2>1. StepEffect
    BY NextInv
  <2> QED
    BY <2>1, EffectOnTotals, ResetTotals DEF StepEffect
<1> QED
  BY <1>1, <1>2, InductiveInvariant, TotalsAreCounters, PTL DEF Spec

\* EmptyCountExact: a pool counts its empty block exactly when it has one, so
\* release() keeps one and unmaps the next.  A hard reset breaks this: it leaves
\* the count of a block it unmaps.
THEOREM EmptyBlocksAreCounted ==
  ASSUME 0 \notin TruncateSizes, "hard" \notin ResetPolicies
  PROVE  Spec => []EmptyCountExact
<1>1. Init => EmptyCounted
  BY DEF Init, EmptyCounted, EmptyPool
<1>2. IInv /\ IInv' /\ EmptyCounted /\ [Next]_vars => EmptyCounted'
  <2> SUFFICES ASSUME IInv, IInv', EmptyCounted, [Next]_vars PROVE EmptyCounted'
    OBVIOUS
  <2>1. StepEffect
    BY NextInv
  <2>2. \A policy \in ResetPolicies : policy = "soft"
    BY ConstantsAssumption
  <2> QED
    BY <2>1, <2>2, EffectOnEmpty, ResetEmpty DEF StepEffect
<1> QED
  BY <1>1, <1>2, InductiveInvariant, EmptyCountIsExact, PTL DEF Spec

\* UnusedFilled: with kFillUnusedMemory every granule nobody holds carries the
\* fill pattern.  A soft reset breaks this: it fills what was unused before it,
\* not what it frees.
THEOREM UnusedMemoryIsFilled ==
  ASSUME 0 \notin TruncateSizes, "soft" \notin ResetPolicies
  PROVE  Spec => []UnusedFilled
<1>1. Init => UnusedFilled
  BY DEF Init, UnusedFilled, Ids
<1>2. IInv /\ UnusedFilled /\ [Next]_vars => UnusedFilled'
  <2> SUFFICES ASSUME IInv, UnusedFilled, [Next]_vars PROVE UnusedFilled'
    OBVIOUS
  <2>1. StepEffect
    BY NextInv
  <2>2. ASSUME NEW policy \in ResetPolicies, NEW kept, WasReset(policy, kept) PROVE UnusedFilled'
    <3>1. policy # "soft"
      OBVIOUS
    <3>2. kept = {}
      BY <2>2, <3>1 DEF WasReset, KeptBlocks
    <3>3. Ids' = {}
      BY <2>2, <3>2 DEF WasReset, Ids
    <3> QED
      BY <3>3, FilledBlocksNext
  <2> QED
    BY <2>1, <2>2, EffectOnFilled DEF StepEffect
<1> QED
  BY <1>1, <1>2, InductiveInvariant, PTL DEF Spec

-------------------------------------------------------------------------------
(***************************************************************************)
(* The JIT allocator implements SpanAllocator: what the bit-vectors say    *)
(* changes, step by step, as clients were promised.                        *)
(*                                                                         *)
(* The inductive invariant makes the spans decoded from the bits the spans *)
(* clients hold (DecodedAreSpans); every action is then one step of        *)
(* SpanAllocator on them, or changes neither them nor the sizes of the     *)
(* blocks.                                                                 *)
(***************************************************************************)

-------------------------------------------------------------------------------
(* Decoding the bits *)

\* Areas begin where spans do: behind the padding, a free granule or a stop bit.
LEMMA StartOfSpan ==
  ASSUME NEW b, BlockInv(b), NEW held \in SUBSET SpanType, HoldsSpans(b, held)
  PROVE  SpanStarts(b) = {s.start : s \in held}
<1>1. /\ InitialAreaStart(b) \in Nat
      /\ \A s \in held : /\ s.start \in Nat /\ s.end \in Nat /\ s.start < s.end
                         /\ InitialAreaStart(b) <= s.start
                         /\ s.start .. s.end - 1 \subseteq b.used
  BY DEF InitialAreaStart, SpanType, HoldsSpans, IsArea
<1>2. ASSUME NEW i \in b.used \ InitialArea(b)
      PROVE  i \in Int /\ \E s \in held : i \in s.start .. s.end - 1
  <2>1. PICK s \in held : i \in s.start .. s.end - 1
    BY DEF HoldsSpans
  <2> QED
    BY <1>1, <2>1
<1>3. ASSUME NEW s \in held PROVE s.start \in SpanStarts(b)
  <2>1. s.start \in b.used \ InitialArea(b)
    BY <1>1 DEF InitialArea
  <2>2. CASE s.start # InitialAreaStart(b) /\ s.start - 1 \in b.used
    <3>1. s.start - 1 \notin InitialArea(b)
      BY <1>1, <2>2 DEF InitialArea
    <3>2. PICK t \in held : s.start - 1 \in t.start .. t.end - 1
      BY <1>2, <2>2, <3>1
    <3>3. t # s /\ (t.end <= s.start \/ s.end <= t.start)
      BY <1>1, <3>2 DEF HoldsSpans
    <3>4. s.start - 1 = t.end - 1
      BY <1>1, <3>2, <3>3
    <3>5. s.start - 1 \in b.stop
      BY <3>4 DEF HoldsSpans
    <3> QED
      BY <2>1, <3>5 DEF SpanStarts
  <2> QED
    BY <2>1, <2>2 DEF SpanStarts
<1>4. ASSUME NEW i \in SpanStarts(b) PROVE \E s \in held : i = s.start
  <2>1. /\ i \in b.used \ InitialArea(b)
        /\ i = InitialAreaStart(b) \/ i - 1 \notin b.used \/ i - 1 \in b.stop
    BY DEF SpanStarts
  <2>2. PICK s \in held : i \in s.start .. s.end - 1
    BY <1>2, <2>1
  <2>3. CASE i # s.start
    <3>1. i - 1 \in s.start .. s.end - 1 /\ i # InitialAreaStart(b)
      BY <1>1, <2>2, <2>3
    <3>2. i - 1 \in b.stop /\ i - 1 \notin InitialArea(b)
      BY <1>1, <2>1, <3>1 DEF InitialArea
    <3>3. PICK t \in held : i - 1 = t.end - 1
      BY <3>2 DEF HoldsSpans
    <3>4. t.end = i /\ t # s
      BY <1>1, <2>2, <3>1, <3>3
    <3>5. s.end <= t.start \/ t.end <= s.start
      BY <3>4 DEF HoldsSpans
    <3> QED
      BY <1>1, <2>2, <3>1, <3>4, <3>5
  <2> QED
    BY <2>2, <2>3
<1> QED
  BY <1>3, <1>4

\* What release(), shrink() and query() read from the bits are the spans that
\* clients hold.
LEMMA DecodedAreSpans ==
  ASSUME IInv
  PROVE  DecodedSpans = spans
<1>1. ASSUME NEW id \in Ids
      PROVE  /\ SpanStarts(blk[id]) = {s.start : s \in SpansOf(id)}
             /\ \A s \in SpansOf(id) :
                  /\ [block |-> id, start |-> s.start, end |-> AreaEnd(blk[id], s.start)] = s
                  /\ s \in spans
  <2>1. /\ BlockInv(blk[id]) /\ HoldsSpans(blk[id], SpansOf(id))
        /\ SpansOf(id) \in SUBSET SpanType
    BY SpansOfType DEF IInv, Blocks
  <2>2. \A s \in SpansOf(id) : AreaEnd(blk[id], s.start) = s.end
    BY <2>1, EndOfSpan
  <2>3. \A s \in SpansOf(id) : s \in SpanType /\ s.block = id /\ s \in spans
    BY <2>1 DEF SpansOf
  <2>4. \A s \in SpanType : s = [block |-> s.block, start |-> s.start, end |-> s.end]
    BY DEF SpanType
  <2> QED
    BY <2>1, <2>2, <2>3, <2>4, StartOfSpan
<1>2. ASSUME NEW s \in spans PROVE s \in DecodedSpans
  <2>1. s.block \in Ids /\ s \in SpansOf(s.block)
    BY HeldSpan
  <2>2. /\ s.start \in SpanStarts(blk[s.block])
        /\ s = [block |-> s.block, start |-> s.start, end |-> AreaEnd(blk[s.block], s.start)]
    BY <1>1, <2>1
  <2> QED
    BY <2>1, <2>2 DEF DecodedSpans
<1>3. ASSUME NEW s \in DecodedSpans PROVE s \in spans
  <2>0. PICK id \in Ids :
          \E i \in SpanStarts(blk[id]) :
            s = [block |-> id, start |-> i, end |-> AreaEnd(blk[id], i)]
    BY DEF DecodedSpans
  <2>1. PICK i \in SpanStarts(blk[id]) :
          s = [block |-> id, start |-> i, end |-> AreaEnd(blk[id], i)]
    BY <2>0
  <2>2. PICK t \in SpansOf(id) : i = t.start
    BY <1>1, <2>1
  <2>3. s = t
    BY <1>1, <2>1, <2>2
  <2> QED
    BY <1>1, <2>3
<1> QED
  BY <1>2, <1>3

\* The same in the next state.
LEMMA DecodedAreSpansNext == IInv' => (DecodedSpans = spans)'
<1>1. IInv => DecodedSpans = spans
  BY DecodedAreSpans
<1> QED
  BY <1>1, PTL

-------------------------------------------------------------------------------
(* The kinds of step *)

\* What the allocator and its clients see of a step that gives or takes nothing.
LEMMA Stutters ==
  ASSUME IInv, IInv', Sizes' = Sizes, spans' = spans
  PROVE  UNCHANGED Promise!vars
<1>1. DecodedSpans = spans /\ DecodedSpans' = spans'
  BY DecodedAreSpans, DecodedAreSpansNext
<1> QED
  BY <1>1 DEF Promise!vars, Sizes

\* Free granules become a span of their own.
LEMMA TakesSpan ==
  ASSUME IInv, IInv', NEW s \in SpanType, s.block \in Ids,
         IsArea(blk[s.block], s.start, s.end),
         blk[s.block].used \cap (s.start .. s.end - 1) = {},
         Sizes' = Sizes, spans' = spans \cup {s}
  PROVE  Promise!Next
<1>1. DecodedSpans = spans /\ DecodedSpans' = spans \cup {s}
  BY DecodedAreSpans, DecodedAreSpansNext
<1>2. s \in Promise!SpanOf(s.block, Sizes[s.block])
  <2>1. /\ s.start \in Nat /\ s.end \in Nat /\ s.start < s.end
        /\ s.end <= blk[s.block].area_size /\ blk[s.block].area_size \in Nat
        /\ s = [block |-> s.block, start |-> s.start, end |-> s.end]
    BY DEF SpanType, IsArea, IInv, StateTypes, BlockType
  <2>2. s.start \in 0 .. Sizes[s.block] /\ s.end \in 0 .. Sizes[s.block]
    BY <2>1 DEF Sizes
  <2> QED
    BY <2>1, <2>2 DEF Promise!SpanOf
<1>3. ASSUME NEW t \in spans PROVE Promise!Disjoint(s, t)
  <2>1. CASE s.block # t.block
    BY <2>1 DEF Promise!Disjoint
  <2>2. CASE s.block = t.block
    <3>1. t.start .. t.end - 1 \subseteq blk[t.block].used
      BY HeldSpan
    <3> QED
      BY <2>2, <3>1 DEF Promise!Disjoint, Promise!Granules
  <2> QED
    BY <2>1, <2>2
<1>4. Promise!Alloc
  BY <1>1, <1>2, <1>3 DEF Promise!Alloc, Sizes
<1> QED
  BY <1>4 DEF Promise!Next

\* A region is mapped and a span of it given away.
LEMMA MapsRegion ==
  ASSUME IInv, IInv', NEW s \in SpanType, s.block \notin Ids, NEW size \in Nat,
         s.start < s.end, s.end <= size,
         Sizes' = [id \in Ids \cup {s.block} |-> IF id = s.block THEN size ELSE Sizes[id]],
         spans' = spans \cup {s}
  PROVE  Promise!Next
<1>1. DecodedSpans = spans /\ DecodedSpans' = spans \cup {s}
  BY DecodedAreSpans, DecodedAreSpansNext
<1>2. s.block \in BlockIds \ DOMAIN Sizes
  BY DEF Sizes, SpanType
<1>3. /\ DOMAIN Sizes' = DOMAIN Sizes \cup {s.block} /\ Sizes'[s.block] = size
      /\ \A id \in DOMAIN Sizes : Sizes'[id] = Sizes[id]
  BY DEF Sizes
<1>4. s \in Promise!SpanOf(s.block, Sizes'[s.block])
  <2>1. s = [block |-> s.block, start |-> s.start, end |-> s.end]
        /\ s.start \in 0 .. size /\ s.end \in 0 .. size
    BY DEF SpanType
  <2> QED
    BY <1>3, <2>1 DEF Promise!SpanOf
<1>5. Promise!Alloc
  BY <1>1, <1>2, <1>3, <1>4 DEF Promise!Alloc, Sizes
<1> QED
  BY <1>5 DEF Promise!Next

\* A span is given back; its region may be unmapped if it was the last.
LEMMA GivesBack ==
  ASSUME IInv, IInv', NEW s \in spans, spans' = spans \ {s},
         \/ Sizes' = Sizes
         \/ /\ Sizes' = [id \in Ids \ {s.block} |-> Sizes[id]]
            /\ \A t \in spans' : t.block # s.block
  PROVE  Promise!Next
<1>1. DecodedSpans = spans /\ DecodedSpans' = spans \ {s}
  BY DecodedAreSpans, DecodedAreSpansNext
<1>2. DOMAIN Sizes = Ids
  BY DEF Sizes
<1>3. Promise!Release
  BY <1>1, <1>2 DEF Promise!Release, Sizes
<1> QED
  BY <1>3 DEF Promise!Next

\* A span ends earlier.
LEMMA CutsSpan ==
  ASSUME IInv, IInv', NEW s \in spans, NEW cut \in Nat, s.start < cut, cut < s.end,
         spans' = (spans \ {s}) \cup {[s EXCEPT !.end = cut]}, Sizes' = Sizes
  PROVE  Promise!Next
<1>1. DecodedSpans = spans /\ DecodedSpans' = (spans \ {s}) \cup {[s EXCEPT !.end = cut]}
  BY DecodedAreSpans, DecodedAreSpansNext
<1>2. cut \in s.start + 1 .. s.end - 1
  <2>1. s.start \in Nat /\ s.end \in Nat
    BY HeldSpan
  <2> QED
    BY <2>1
<1>3. Promise!Shrink
  BY <1>1, <1>2 DEF Promise!Shrink, Sizes
<1> QED
  BY <1>3 DEF Promise!Next

\* Every span is gone and some regions are unmapped.
LEMMA ForgetsAll ==
  ASSUME IInv, IInv', spans' = {}, NEW keep \in SUBSET Ids,
         Sizes' = [id \in keep |-> Sizes[id]]
  PROVE  Promise!Next
<1>1. DecodedSpans' = {} /\ DOMAIN Sizes = Ids
  BY DecodedAreSpansNext DEF Sizes
<1>2. Promise!Reset
  BY <1>1 DEF Promise!Reset, Sizes
<1> QED
  BY <1>2 DEF Promise!Next

-------------------------------------------------------------------------------
(* The actions *)

\* Searching a block does not change its size.
LEMMA SearchedSizes ==
  ASSUME IInv, NEW order, NEW k \in Nat, NEW n \in Nat \ {0},
         \A j \in 1 .. k - 1 : ~HasRoom(blk[order[j]], n), NEW id \in Ids
  PROVE  PassedOver(order, k, n)[id].area_size = blk[id].area_size
<1>1. BlockInv(blk[id])
  BY DEF IInv, Blocks
<1>2. CASE \E j \in 1 .. k - 1 : order[j] = id
  <2>1. IsSearched(blk[id], PassOver(blk[id], n))
    BY <1>1, <1>2, PassOverInv
  <2>2. PassedOver(order, k, n)[id] = PassOver(blk[id], n)
    BY <1>2 DEF PassedOver, Ids
  <2> QED
    BY <2>1, <2>2 DEF IsSearched, SameShape
<1>3. CASE ~ \E j \in 1 .. k - 1 : order[j] = id
  BY <1>3 DEF PassedOver, Ids
<1> QED
  BY <1>2, <1>3

\* Taking granules from a block adds a span of it.
LEMMA PlacedTakesSpan ==
  ASSUME IInv, IInv', NEW id \in Ids, NEW n \in Nat \ {0}, HasRoom(blk[id], n),
         NEW start, start = AreaIndex(blk[id], n), NEW end, end = start + n,
         ~(end > blk[id].area_size),
         NEW searched, searched = [i \in Ids |-> searched[i]],
         \A i \in Ids : searched[i].area_size = blk[i].area_size,
         NEW p, Placed(id, n, start, end, searched, p)
  PROVE  Promise!Next
<1> DEFINE s == [block |-> id, start |-> start, end |-> end]
<1>1. BlockInv(blk[id]) /\ blk[id].area_size \in Nat /\ id \in BlockIds
  BY DEF IInv, Blocks, StateTypes, BlockType
<1>2. start \in Nat /\ end \in Nat /\ start + n <= blk[id].area_size
  <2>1. start \in Nat
    BY <1>1, AreaIndexType
  <2> QED
    BY <1>1, <2>1
<1>3. /\ IsArea(blk[id], start, end)
      /\ blk[id].used \cap (start .. end - 1) = {}
      /\ IsTaken(blk[id], Place(blk[id], n), start, end)
  BY <1>1, <1>2, PlacedArea
<1>4. s \in SpanType /\ s.block = id /\ s.start = start /\ s.end = end
  BY <1>1, <1>2 DEF SpanType
<1>5. spans' = spans \cup {s}
  BY DEF Placed
<1> HIDE DEF s
<1>6. Sizes' = Sizes
  <2>1. /\ Ids' = Ids /\ blk'[id] = Place(blk[id], n)
        /\ \A i \in Ids \ {id} : blk'[i] = searched[i]
    BY DEF Placed, Ids
  <2>2. \A i \in Ids : blk'[i].area_size = blk[i].area_size
    BY <1>3, <2>1 DEF IsTaken, SameShape
  <2> QED
    BY <2>1, <2>2 DEF Sizes
<1> QED
  BY <1>3, <1>4, <1>5, <1>6, TakesSpan

\* A step of the promise, or none.
Promised == Promise!Next \/ UNCHANGED Promise!vars

\* A call that stops the process changes nothing before.
LEMMA FailStutters ==
  ASSUME IInv, IInv', NEW assertion, Fail(assertion)
  PROVE  Promised
<1>1. Sizes' = Sizes /\ spans' = spans
  BY DEF Fail, Sizes, Ids
<1> QED
  BY <1>1, Stutters DEF Promised

LEMMA AllocFromBlockPromised ==
  ASSUME IInv, IInv', NEW size \in Requests, AllocFromBlock(size)
  PROVE  Promised
<1> DEFINE pl  == SizeToPoolId(size)
           num == AreaSizeOf(pl, size)
           ord == Visit(pools[pl])
<1>1. /\ pl \in Pools /\ num \in Nat \ {0} /\ Len(ord) \in Nat
      /\ \A k \in 1 .. Len(ord) : ord[k] \in Ids /\ blk[ord[k]].pool = pl
  BY RequestFacts
<1>2. PICK k \in 1 .. Len(ord) :
        /\ FirstWithRoom(ord, k, num)
        /\ LET b     == blk[ord[k]]
               start == AreaIndex(b, num)
           IN IF start + num > b.area_size
              THEN Fail("alloc: offset <= block_size - size")
              ELSE /\ blk' = [PassedOver(ord, k, num) EXCEPT ![ord[k]] = Place(b, num)]
                   /\ pools' = [pools EXCEPT ![pl] = PoolPlaced(@, b, num)]
                   /\ allocation_count' = allocation_count + 1
                   /\ spans' = spans \cup {[block |-> ord[k], start |-> start,
                                            end |-> start + num]}
                   /\ UNCHANGED <<tree, fault>>
  BY DEF AllocFromBlock
<1>3. PICK id, n, start, end, p, searched :
        /\ id = ord[k] /\ n = num /\ start = AreaIndex(blk[id], n) /\ end = start + n /\ p = pl
        /\ searched = PassedOver(ord, k, num)
  OBVIOUS
<1>4. CASE end > blk[id].area_size
  BY <1>2, <1>3, <1>4, FailStutters
<1>5. CASE ~(end > blk[id].area_size)
  <2>1. Placed(id, n, start, end, searched, p)
    <3> HIDE DEF ord, num, pl
    <3> QED
      BY <1>2, <1>3, <1>5 DEF Placed
  <2>2. /\ id \in Ids /\ HasRoom(blk[id], n) /\ n \in Nat \ {0} /\ k \in Nat
    <3>1. id \in Ids /\ HasRoom(blk[id], n) /\ n \in Nat \ {0}
      BY <1>1, <1>2, <1>3 DEF FirstWithRoom
    <3>2. k \in Nat
      BY <1>1
    <3> QED
      BY <3>1, <3>2
  <2>3. \A j \in 1 .. k - 1 : ~HasRoom(blk[ord[j]], n)
    BY <1>2, <1>3 DEF FirstWithRoom
  <2>4. searched = [i \in Ids |-> searched[i]]
    BY <1>3 DEF PassedOver, Ids
  <2> HIDE DEF ord, num, pl
  <2>5. \A i \in Ids : searched[i].area_size = blk[i].area_size
    BY <1>3, <2>2, <2>3, SearchedSizes
  <2>6. start = AreaIndex(blk[id], n) /\ end = start + n
    BY <1>3
  <2>7. Promise!Next
    BY <1>5, <2>1, <2>2, <2>4, <2>5, <2>6, PlacedTakesSpan
  <2> QED
    BY <2>7 DEF Promised
<1> QED
  BY <1>4, <1>5

LEMMA AllocOutOfMemoryPromised ==
  ASSUME IInv, IInv', NEW size \in Requests, AllocOutOfMemory(size)
  PROVE  Promised
<1> DEFINE n     == AreaSizeOf(SizeToPoolId(size), size)
           order == Visit(pools[SizeToPoolId(size)])
           more  == Len(order) + 1
<1>1. /\ n \in Nat \ {0} /\ more \in Nat /\ more - 1 = Len(order)
  BY RequestFacts
<1>2. /\ \A k \in 1 .. Len(order) : ~HasRoom(blk[order[k]], n)
      /\ blk' = PassedOver(order, more, n) /\ spans' = spans
  BY DEF AllocOutOfMemory, NoneHasRoom
<1> HIDE DEF n, order, more
<1>3. \A id \in Ids : blk'[id].area_size = blk[id].area_size
  BY <1>1, <1>2, SearchedSizes
<1>4. Ids' = Ids
  BY <1>2 DEF PassedOver, Ids
<1>5. Sizes' = Sizes
  BY <1>3, <1>4 DEF Sizes
<1> QED
  BY <1>2, <1>5, Stutters DEF Promised

LEMMA AllocNewBlockPromised ==
  ASSUME IInv, IInv', NEW size \in Requests, AllocNewBlock(size)
  PROVE  Promised
<1> DEFINE pl  == SizeToPoolId(size)
           num == AreaSizeOf(pl, size)
           ord == Visit(pools[pl])
           bytes(large) == IF large THEN RoundUp(IdealBlockSize(pl, size), LargePageSize)
                           ELSE IdealBlockSize(pl, size)
<1>1. /\ pl \in Pools /\ size \in Nat \ {0} /\ num \in Nat \ {0} /\ Len(ord) \in Nat
  BY RequestFacts
<1>2. PICK id \in BlockIds \ Ids, large \in BOOLEAN :
        /\ large => TriesLargePages(IdealBlockSize(pl, size))
        /\ LET b == NewBlock(pl, bytes(large), large)
               s == InitialAreaStart(b)
           IN /\ blk' = [i \in Ids \cup {id} |->
                           IF i = id THEN Place(b, num)
                           ELSE PassedOver(ord, Len(ord) + 1, num)[i]]
              /\ pools' = [pools EXCEPT ![pl] = AddUsed(InsertBlock(@, id, b), b, num)]
              /\ tree' = tree \cup {id}
              /\ spans' = spans \cup {[block |-> id, start |-> s, end |-> s + num]}
  BY DEF AllocNewBlock, Ids
<1>3. NoneHasRoom(ord, num)
  BY DEF AllocNewBlock
<1>4. PICK n, b, c, start, end, t, more, searched :
        /\ n = num /\ b = NewBlock(pl, bytes(large), large) /\ c = Place(b, n)
        /\ start = InitialAreaStart(b) /\ end = start + n
        /\ t = [block |-> id, start |-> start, end |-> end]
        /\ more = Len(ord) + 1 /\ searched = PassedOver(ord, more, n)
  OBVIOUS
<1>5. /\ blk' = [i \in Ids \cup {id} |-> IF i = id THEN c ELSE searched[i]]
      /\ spans' = spans \cup {t}
  <2> HIDE DEF pl, num, ord, bytes
  <2> QED
    BY <1>2, <1>4
<1>6. bytes(large) \in Nat /\ size + Padding(pl) <= bytes(large)
  <2>1. /\ IdealBlockSize(pl, size) \in Nat
        /\ size + Padding(pl) <= IdealBlockSize(pl, size)
        /\ Padding(pl) \in Nat
    BY <1>1, IdealBlockSizeBound, PaddingType DEF IInv
  <2>2. large => LargePageSize \in Nat \ {0}
    BY <1>2, ConstantsAssumption DEF TriesLargePages
  <2>3. large => /\ RoundUp(IdealBlockSize(pl, size), LargePageSize) \in Nat
                 /\ IdealBlockSize(pl, size) <= RoundUp(IdealBlockSize(pl, size), LargePageSize)
    BY <2>1, <2>2, RoundUpBound
  <2> HIDE DEF pl
  <2> QED
    BY <1>1, <2>1, <2>3
<1>7. IsFresh(b, pl, n)
  <2> HIDE DEF bytes
  <2> QED
    BY <1>1, <1>4, <1>6, NewBlockIsFresh
<1>8. n \in Nat \ {0} /\ more \in Nat /\ more - 1 = Len(ord)
  <2> HIDE DEF pl, num, ord, bytes
  <2> QED
    BY <1>1, <1>4
<1>9. \A i \in Ids : searched[i].area_size = blk[i].area_size
  <2> HIDE DEF pl, num, ord, bytes
  <2>1. \A j \in 1 .. more - 1 : ~HasRoom(blk[ord[j]], n)
    BY <1>3, <1>4, <1>8 DEF NoneHasRoom
  <2>2. \A i \in Ids : PassedOver(ord, more, n)[i].area_size = blk[i].area_size
    BY <1>8, <2>1, SearchedSizes
  <2> QED
    BY <1>4, <2>2
<1> HIDE DEF pl, num, ord, bytes
<1>10. /\ BlockInv(b) /\ HasRoom(b, n) /\ start = AreaIndex(b, n) /\ start \in Nat
       /\ start + n <= b.area_size /\ b.area_size \in Nat
  BY <1>4, <1>7 DEF IsFresh, BlockInv, InBounds, BlockType
<1>11. c.area_size = b.area_size
  <2>1. IsTaken(b, c, start, end)
    BY <1>4, <1>8, <1>10, PlacedArea
  <2> QED
    BY <2>1 DEF IsTaken, SameShape
<1>12. /\ t \in SpanType /\ t.block = id /\ t.start < t.end /\ t.end <= b.area_size
  BY <1>4, <1>8, <1>10 DEF SpanType
<1>13. Sizes' = [i \in Ids \cup {id} |-> IF i = id THEN b.area_size ELSE Sizes[i]]
  <2>1. /\ Ids' = Ids \cup {id} /\ blk'[id].area_size = b.area_size
        /\ \A i \in Ids : blk'[i].area_size = blk[i].area_size
    BY <1>5, <1>9, <1>11 DEF Ids
  <2> QED
    BY <2>1 DEF Sizes
<1>14. Promise!Next
  BY <1>5, <1>10, <1>12, <1>13, MapsRegion
<1> QED
  BY <1>14 DEF Promised

\* Clearing bits and filling memory do not change the size of a block.
LEMMA ClearedSizes ==
  ASSUME NEW b, NEW c, NEW start, NEW end, NEW stop, IsCleared(b, c, start, end, stop),
         NEW area
  PROVE  Fill(c, area).area_size = b.area_size
<1>1. c \in BlockType /\ c.area_size = b.area_size
  BY DEF IsCleared, SameShape, BlockInv, InBounds
<1> QED
  BY <1>1 DEF Fill, BlockType

LEMMA ReplacedSizes ==
  ASSUME NEW id \in Ids, NEW c, c.area_size = blk[id].area_size, IInv,
         blk' = [blk EXCEPT ![id] = c]
  PROVE  Sizes' = Sizes
<1>1. blk \in [Ids -> BlockType]
  BY DEF IInv, StateTypes
<1>2. Ids' = Ids /\ \A i \in Ids : blk'[i].area_size = blk[i].area_size
  BY <1>1 DEF Ids
<1> QED
  BY <1>2 DEF Sizes

LEMMA ReleasePromised ==
  ASSUME IInv, IInv', NEW s \in spans, Release(s)
  PROVE  Promised
<1>1. PICK id, b, p, end, c, d :
        /\ id = s.block /\ b = blk[id] /\ p = b.pool /\ end = AreaEnd(b, s.start)
        /\ c = MarkReleasedArea(b, s.start, end) /\ d = Fill(c, s.start .. end - 1)
  OBVIOUS
<1>2. /\ s \in SpanType /\ id \in Ids /\ s \in SpansOf(id) /\ SpansOf(id) \in SUBSET SpanType
      /\ HoldsSpans(b, SpansOf(id)) /\ BlockInv(b) /\ end = s.end
      /\ s.start \in Nat /\ end \in Nat /\ IsArea(b, s.start, end)
      /\ s.start .. end - 1 \subseteq b.used /\ StopsFrom(b, s.start) # {}
  BY <1>1, HeldSpan
<1>3. /\ \/ blk' = [blk EXCEPT ![id] = d]
         \/ IsEmptyBlock(d) /\ blk' = [i \in Ids \ {id} |-> blk[i]]
      /\ spans' = spans \ {s}
  BY <1>1, <1>2 DEF Release, Ids
<1>4. IsCleared(b, c, s.start, end, b.stop \ {end - 1})
  BY <1>1, <1>2, ReleasedAreaInv
<1>5. CASE blk' = [blk EXCEPT ![id] = d]
  <2>1. d.area_size = blk[id].area_size
    BY <1>1, <1>4, ClearedSizes
  <2>2. Sizes' = Sizes
    BY <1>2, <1>5, <2>1, ReplacedSizes
  <2> QED
    BY <1>3, <2>2, GivesBack DEF Promised
<1>6. CASE blk' = [i \in Ids \ {id} |-> blk[i]]
  <2>1. Ids' = Ids \ {id} /\ \A i \in Ids \ {id} : blk'[i] = blk[i]
    BY <1>6 DEF Ids
  <2>2. Sizes' = [i \in Ids \ {s.block} |-> Sizes[i]]
    BY <1>1, <2>1 DEF Sizes
  <2>3. \A t \in spans' : t.block # s.block
    BY <1>1, <2>1 DEF IInv
  <2> QED
    BY <1>3, <2>2, <2>3, GivesBack DEF Promised
<1> QED
  BY <1>3, <1>5, <1>6

LEMMA ShrinkToPromised ==
  ASSUME IInv, IInv', NEW s \in spans, NEW size \in Nat \ {0}, ShrinkTo(s, size)
  PROVE  Promised
<1>1. PICK id, b, p, end, cut :
        /\ id = s.block /\ b = blk[id] /\ p = b.pool /\ end = AreaEnd(b, s.start)
        /\ cut = s.start + AreaSizeOf(p, size)
  OBVIOUS
<1>2. /\ s \in SpanType /\ id \in Ids /\ BlockInv(b) /\ p \in Pools /\ end = s.end
      /\ s.start \in Nat /\ end \in Nat /\ IsArea(b, s.start, end)
      /\ s.start .. end - 1 \subseteq b.used
  BY <1>1, HeldSpan
<1>3. AreaSizeOf(p, size) \in Nat \ {0}
  BY <1>2, AreaSizeBound
<1>4. cut \in Nat \ {0} /\ s.start < cut /\ cut < end
  <2>1. s.start + AreaSizeOf(blk[s.block].pool, size) < AreaEnd(blk[s.block], s.start)
    BY DEF ShrinkTo
  <2>2. cut = s.start + AreaSizeOf(p, size) /\ cut < end
    BY <1>1, <2>1
  <2> QED
    BY <1>2, <1>3, <2>2
<1>5. PICK c, d : c = MarkShrunkArea(b, cut, end) /\ d = Fill(c, cut .. end - 1)
  OBVIOUS
<1>6. /\ blk' = [blk EXCEPT ![id] = d]
      /\ spans' = (spans \ {s}) \cup {[s EXCEPT !.end = cut]}
  BY <1>1, <1>4, <1>5 DEF ShrinkTo
<1>7. IsCleared(b, c, cut, end, (b.stop \ {end - 1}) \cup {cut - 1})
  <2>1. IsArea(b, cut, end) /\ cut .. end - 1 \subseteq b.used
    <3>1. InitialAreaStart(b) \in Nat
      BY DEF InitialAreaStart
    <3> QED
      BY <1>2, <1>4, <3>1 DEF IsArea
  <2> QED
    BY <1>2, <1>4, <1>5, <2>1, ShrunkAreaInv
<1>8. Sizes' = Sizes
  <2>1. d.area_size = blk[id].area_size
    BY <1>1, <1>5, <1>7, ClearedSizes
  <2> QED
    BY <1>2, <1>6, <2>1, ReplacedSizes
<1>9. cut \in Nat /\ cut < s.end
  BY <1>2, <1>4
<1> QED
  BY <1>4, <1>6, <1>8, <1>9, CutsSpan DEF Promised

LEMMA ResetPromised ==
  ASSUME IInv, IInv', NEW policy, Reset(policy)
  PROVE  Promised
<1>1. PICK kept : kept = UNION {KeptBlocks(p, policy) : p \in Pools}
  OBVIOUS
<1>2. CASE Fail("insert: node must not contain garbage")
  BY <1>2, FailStutters
<1>3. CASE blk' = [id \in kept |-> WipeOutBlock(blk[id])] /\ spans' = {}
  <2>1. kept \in SUBSET Ids
    BY <1>1, KeptBlocksFacts DEF IdsOf
  <2>2. ASSUME NEW id \in kept PROVE WipeOutBlock(blk[id]).area_size = blk[id].area_size
    <3>1. /\ BlockInv(blk[id]) /\ HoldsSpans(blk[id], SpansOf(id)) /\ SpansOf(id) \in SUBSET SpanType
      BY <2>1, SpansOfType DEF IInv, Blocks
    <3> QED
      BY <3>1, WipedOut DEF SameShape
  <2>3. Ids' = kept /\ \A id \in kept : blk'[id].area_size = blk[id].area_size
    BY <1>3, <2>2 DEF Ids
  <2>4. Sizes' = [id \in kept |-> Sizes[id]]
    BY <2>1, <2>3 DEF Sizes
  <2> QED
    BY <1>3, <2>1, <2>4, ForgetsAll DEF Promised
<1> QED
  BY <1>1, <1>2, <1>3 DEF Reset

-------------------------------------------------------------------------------
(* Theorem *)

LEMMA InitPromised == Init => Promise!Init
<1> SUFFICES ASSUME Init PROVE Promise!Init
  OBVIOUS
<1>1. Ids = {}
  BY DEF Init, Ids
<1>2. DecodedSpans = {}
  BY <1>1 DEF DecodedSpans
<1>3. [id \in Ids |-> blk[id].area_size] = << >>
  BY <1>1
<1> QED
  BY <1>2, <1>3 DEF Promise!Init

LEMMA NextPromised ==
  ASSUME 0 \notin TruncateSizes
  PROVE  IInv /\ IInv' /\ [Next]_vars => [Promise!Next]_(Promise!vars)
<1> SUFFICES ASSUME IInv, IInv', [Next]_vars PROVE Promised
  BY DEF Promised
<1>1. CASE UNCHANGED vars
  <2>1. Sizes' = Sizes /\ spans' = spans
    BY <1>1 DEF vars, Sizes, Ids
  <2> QED
    BY <2>1, Stutters DEF Promised
<1>2. ASSUME NEW size \in Requests, AllocFromBlock(size) PROVE Promised
  BY <1>2, AllocFromBlockPromised
<1>3. ASSUME NEW size \in Requests, AllocNewBlock(size) PROVE Promised
  BY <1>3, AllocNewBlockPromised
<1>4. ASSUME NEW size \in Requests, AllocOutOfMemory(size) PROVE Promised
  BY <1>4, AllocOutOfMemoryPromised
<1>5. ASSUME NEW s \in spans, Release(s) PROVE Promised
  BY <1>5, ReleasePromised
<1>6. ASSUME NEW s \in spans, NEW size \in Requests, Shrink(s, size) PROVE Promised
  BY <1>6, ShrinkToPromised, ConstantsAssumption DEF Shrink
<1>7. ASSUME NEW s \in spans, NEW size \in TruncateSizes, WriteTruncated(s, size) PROVE Promised
  BY <1>7, ShrinkToPromised, ConstantsAssumption DEF WriteTruncated
<1>8. ASSUME NEW policy \in ResetPolicies, Reset(policy) PROVE Promised
  BY <1>8, ResetPromised
<1> QED
  BY <1>1, <1>2, <1>3, <1>4, <1>5, <1>6, <1>7, <1>8 DEF Next

\* ImplementsSpanAllocator: read from the bit-vectors alone, every call does to
\* the regions and the spans what its client was promised, and nothing to any
\* other client's span.
THEOREM ImplementsPromise ==
  ASSUME 0 \notin TruncateSizes
  PROVE  Spec => ImplementsSpanAllocator
<1> QED
  BY InductiveInvariant, InitPromised, NextPromised, PTL
     DEF Spec, ImplementsSpanAllocator, Promise!Spec
===============================================================================
