------------------------------- MODULE ConstPool -------------------------------
(***************************************************************************)
(* The constant pool (core/constpool.cpp, constpool.h): constants of 1 to  *)
(* 64 bytes, each stored once and aligned to its size, the alignment gaps  *)
(* kept for smaller constants.  A constant longer than 4 bytes also offers *)
(* its halves, quarters and so on as smaller constants ("shared" nodes).   *)
(*                                                                         *)
(* A constant is its size and its data.  The data is cut down to 4 bytes   *)
(* and no further, so it is a sequence of 4-byte words, or one short word  *)
(* when the constant is smaller than that; words are model values.         *)
(*                                                                         *)
(* An operator named Wrong... is the definition after it with a mistake in *)
(* it, for PROJECT.json's mutants.                                         *)
(***************************************************************************)
EXTENDS Integers, FiniteSetsExt, SequencesExt

CONSTANTS
  Constants,   \* the constants the users add, records [size, data]
  MaxSize      \* bound on the size of the pool

IndexCount == 7    \* kIndexCount
Indexes    == 0 .. IndexCount - 1

Sizes    == {1, 2, 4, 8, 16, 32, 64}
WordSize == 4
Words(size) == IF size < WordSize THEN 1 ELSE size \div WordSize

ASSUME ConstantsAssumption ==
  /\ MaxSize \in Nat
  /\ \A c \in Constants : /\ c.size \in Sizes
                          /\ c.data \in Seq(Range(c.data))
                          /\ Len(c.data) = Words(c.size)

VARIABLES
  nodes,           \* the nodes of all trees
  gaps,            \* ConstPool::_gaps: a list of gaps per index
  size, alignment, min_item_size,
  answers          \* what the users were told: [size, data, offset] (ghost)

vars == <<nodes, gaps, size, alignment, min_item_size, answers>>

IndexOf(n) == CHOOSE i \in Indexes : 2 ^ i = n

\* Nothing is aligned.
WrongAlignUp(n, unit) == n

AlignUp(n, unit) == ((n + unit - 1) \div unit) * unit

\* Only the first word is compared.
WrongNodesOf(n, data) == {node \in nodes : node.size = n /\ node.data[1] = data[1]}

\* Tree::get(): the node of a constant, none or one.
NodesOf(n, data) == {node \in nodes : node.size = n /\ node.data = data}

-------------------------------------------------------------------------------
(* Gaps *)

\* The piece may be unaligned.
WrongPieceSize(offset, n) == Max({g \in {1, 2, 4, 8, 16, 32} : g <= n})

\* The largest piece that n bytes at offset start with.
PieceSize(offset, n) == Max({g \in {1, 2, 4, 8, 16, 32} : g <= n /\ offset % g = 0})

\* ConstPool_addGap(): start .. end - 1 is cut into pieces, first to last; each
\* is put in front of the list of its size.  When no gap can be allocated, the
\* bytes from stop on are lost.
Pieces(start, end, stop) ==
  LET From[m \in 0 .. end - start] ==
        IF m = 0 \/ end - m >= stop THEN [i \in Indexes |-> << >>]
        ELSE LET g == PieceSize(end - m, m)
             IN  [From[m - g] EXCEPT ![IndexOf(g)] = Append(@, [offset |-> end - m, size |-> g])]
  IN  From[end - start]

AddGap(start, end, stop) ==
  LET pieces == Pieces(start, end, stop) IN [i \in Indexes |-> pieces[i] \o gaps[i]]

\* add() walks the indexes from that of the constant up, but pops a gap of the
\* constant's own index at every one of them and keeps the last it popped.  A
\* gap is as large as its index says, so nothing of it is left to add again.
Popped(i) == Min({IndexCount - 1 - i, Len(gaps[i])})

-------------------------------------------------------------------------------
(* Adding a constant *)

\* The bytes chosen for a new constant, and the gaps and the size then left.
PlaceOf(n, stop) ==
  LET i     == IndexOf(n)
      start == AlignUp(size, n)
  IN  IF Popped(i) > 0
      THEN [offset |-> gaps[i][Popped(i)].offset, size |-> size,
            gaps   |-> [gaps EXCEPT ![i] = SubSeq(@, Popped(i) + 1, Len(@))]]
      ELSE [offset |-> start, size |-> start + n, gaps |-> AddGap(size, start, stop)]

Node(n, data, offset, shared) ==
  [size |-> n, data |-> data, offset |-> offset, shared |-> shared]

\* The whole constant is copied into the node of its piece.
WrongPart(c, n, k) == c.data

\* The k-th piece of n bytes of a longer constant.
Part(c, n, k) == SubSeq(c.data, (k - 1) * Words(n) + 1, k * Words(n))

\* The sizes of the pieces a constant is cut into.
PartSizes(c) == {n \in {4, 8, 16, 32} : n < c.size}

\* The piece is not looked up first.
WrongIsNewPart(c, n, k) == \A j \in 1 .. k - 1 : Part(c, n, j) # Part(c, n, k)

IsNewPart(c, n, k) ==
  /\ NodesOf(n, Part(c, n, k)) = {}
  /\ \A j \in 1 .. k - 1 : Part(c, n, j) # Part(c, n, k)

\* A piece nobody has yet gets a node, at its place in the longer constant.
SharedNodes(c, offset) ==
  UNION {{Node(n, Part(c, n, k), offset + (k - 1) * n, TRUE) :
            k \in {k \in 1 .. c.size \div n : IsNewPart(c, n, k)}} : n \in PartSizes(c)}

Answer(c, offset) == answers' = answers \cup {[size |-> c.size, data |-> c.data, offset |-> offset]}

AddKnown(c) ==
  /\ \E node \in NodesOf(c.size, c.data) : Answer(c, node.offset)
  /\ UNCHANGED <<nodes, gaps, size, alignment, min_item_size>>

\* Where the allocation of gaps may fail.
Stops(c) == size .. AlignUp(size, c.size)

AddNew(c) == \E stop \in Stops(c) :
  LET place == PlaceOf(c.size, stop) IN
  /\ NodesOf(c.size, c.data) = {}
  /\ place.size <= MaxSize
  /\ nodes' = nodes \cup {Node(c.size, c.data, place.offset, FALSE)}
                    \cup SharedNodes(c, place.offset)
  /\ gaps' = place.gaps /\ size' = place.size
  /\ alignment' = Max({alignment, c.size})
  /\ min_item_size' = IF min_item_size = 0 THEN c.size ELSE Min({min_item_size, c.size})
  /\ Answer(c, place.offset)

\* The node cannot be allocated: the place is gone all the same.
AddOutOfMemory(c) == \E stop \in Stops(c) :
  LET place == PlaceOf(c.size, stop) IN
  /\ NodesOf(c.size, c.data) = {}
  /\ place.size <= MaxSize
  /\ gaps' = place.gaps /\ size' = place.size
  /\ UNCHANGED <<nodes, alignment, min_item_size, answers>>

Init ==
  /\ nodes = {} /\ gaps = [i \in Indexes |-> << >>]
  /\ size = 0 /\ alignment = 0 /\ min_item_size = 0
  /\ answers = {}

Reset ==
  /\ nodes' = {} /\ gaps' = [i \in Indexes |-> << >>]
  /\ size' = 0 /\ alignment' = 0 /\ min_item_size' = 0
  /\ answers' = {}

Next ==
  \/ \E c \in Constants : AddKnown(c) \/ AddNew(c) \/ AddOutOfMemory(c)
  \/ Reset

Spec == Init /\ [][Next]_vars

-------------------------------------------------------------------------------
(* Properties *)

\* Type invariant.
TypeOK ==
  /\ \A node \in nodes :
       /\ node.size \in Sizes
       /\ Len(node.data) = Words(node.size)
       /\ node.offset \in Nat /\ node.shared \in BOOLEAN
  /\ \A i \in Indexes : \A k \in DOMAIN gaps[i] :
       gaps[i][k].offset \in Nat /\ gaps[i][k].size \in Nat
  /\ size \in Nat /\ alignment \in Nat /\ min_item_size \in Nat

\* Byte j of a constant.
ByteOf(c, j) == IF c.size < WordSize THEN <<c.data[1], j>>
                ELSE <<c.data[j \div WordSize + 1], j % WordSize>>

Span(node) == node.offset .. node.offset + node.size - 1

Owners == {node \in nodes : ~node.shared}

\* What fill() copies to byte o: the owners that cover it.
Filled(o) == {ByteOf(node, o - node.offset) : node \in {n \in Owners : o \in Span(n)}}

\* A constant is found in the filled pool where its user was told, aligned to
\* its size when the pool is placed at its alignment; also one that is only a
\* piece of another and is never copied itself (constpool.cpp:195, 228).
AnswersHold ==
  \A a \in answers :
    /\ a.offset + a.size <= size
    /\ a.offset % a.size = 0 /\ alignment % a.size = 0
    /\ \A j \in 0 .. a.size - 1 : Filled(a.offset + j) = {ByteOf(a, j)}

\* Whoever adds a constant again, whole or after it came with a longer one, is
\* told the same place.
OneOffset ==
  \A a, b \in answers : a.size = b.size /\ a.data = b.data => a.offset = b.offset

AllGaps == UNION {{<<i, k>> : k \in DOMAIN gaps[i]} : i \in Indexes}
GapAt(g) == gaps[g[1]][g[2]]

\* The constants the pool stores and the gaps it still knows share no byte and
\* lie inside the pool, and every gap is as large and as aligned as its list
\* promises: a constant put into one of its size fits.
SpaceSound ==
  /\ \A m, n \in Owners : m # n => Span(m) \cap Span(n) = {}
  /\ \A g \in AllGaps :
       /\ GapAt(g).size = 2 ^ g[1] /\ GapAt(g).offset % GapAt(g).size = 0
       /\ GapAt(g).offset + GapAt(g).size <= size
       /\ \A n \in Owners : Span(n) \cap Span(GapAt(g)) = {}
       /\ \A h \in AllGaps : g # h => Span(GapAt(g)) \cap Span(GapAt(h)) = {}

-------------------------------------------------------------------------------
(* What a comment promises and the code breaks *)

\* constpool.cpp:130: "Before incrementing the current offset try if there is a
\* gap that can be used for the requested data."
GapsAreTried ==
  [][\A c \in Constants :
       AddNew(c) /\ size' > size => \A g \in AllGaps : GapAt(g).size < c.size]_vars
===============================================================================
