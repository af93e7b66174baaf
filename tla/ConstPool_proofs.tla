---------------------------- MODULE ConstPool_proofs ----------------------------
(***************************************************************************)
(* Theorems about the constant pool, for every set of constants and every  *)
(* order in which they are added, allocations that fail included.          *)
(*                                                                         *)
(* LookupInv says what the trees answer, PoolInv where things lie: the     *)
(* constants stored and the gaps share the pool between them (SpaceInv),   *)
(* and whatever has a node is stored where the node says (ContentInv).     *)
(* Lists of gaps are reasoned about as a cut of a space (Cut): pieces are  *)
(* put in front, popped or joined to others, and stay apart and aligned.   *)
(***************************************************************************)
EXTENDS ConstPool, NatSetTheorems, SequenceTheorems, TLAPS

\* A tree holds at most one node for a constant.
NodesUnique ==
  \A m, n \in nodes : m.size = n.size /\ m.data = n.data => m = n

\* What a user was told is what the trees say.
AnswersKnown ==
  \A a \in answers : \E n \in nodes :
    n.size = a.size /\ n.data = a.data /\ n.offset = a.offset

LookupInv == NodesUnique /\ AnswersKnown

-------------------------------------------------------------------------------
(* Lookups *)

\* The pieces of a constant get nodes for smaller constants that had none, and
\* one each: pieces of equal value share the node of the first of them.
LEMMA SharedNodesAreNew ==
  ASSUME NEW c \in Constants, NEW offset,
         NEW m \in SharedNodes(c, offset)
  PROVE  /\ m.size # c.size
         /\ NodesOf(m.size, m.data) = {}
         /\ \A n \in SharedNodes(c, offset) : m.size = n.size /\ m.data = n.data => m = n
<1>1. c.size \in Sizes
  BY ConstantsAssumption
<1>2. ASSUME NEW node \in SharedNodes(c, offset)
      PROVE  \E n \in PartSizes(c) : \E k \in 1 .. c.size \div n :
               IsNewPart(c, n, k) /\ node = Node(n, Part(c, n, k), offset + (k - 1) * n, TRUE)
  BY <1>2 DEF SharedNodes
<1>3. PICK n \in PartSizes(c) : \E k \in 1 .. c.size \div n :
        IsNewPart(c, n, k) /\ m = Node(n, Part(c, n, k), offset + (k - 1) * n, TRUE)
  BY <1>2
<1>4. PICK k \in 1 .. c.size \div n :
        IsNewPart(c, n, k) /\ m = Node(n, Part(c, n, k), offset + (k - 1) * n, TRUE)
  BY <1>3
<1>5. m.size = n /\ m.data = Part(c, n, k)
  BY <1>4 DEF Node
<1>6. m.size # c.size
  BY <1>1, <1>5 DEF PartSizes, Sizes
<1>7. NodesOf(m.size, m.data) = {}
  BY <1>4, <1>5 DEF IsNewPart
<1>8. ASSUME NEW o \in SharedNodes(c, offset), m.size = o.size, m.data = o.data
      PROVE  m = o
  <2>1. PICK n2 \in PartSizes(c) : \E k2 \in 1 .. c.size \div n2 :
          IsNewPart(c, n2, k2) /\ o = Node(n2, Part(c, n2, k2), offset + (k2 - 1) * n2, TRUE)
    BY <1>2
  <2>2. PICK k2 \in 1 .. c.size \div n2 :
          IsNewPart(c, n2, k2) /\ o = Node(n2, Part(c, n2, k2), offset + (k2 - 1) * n2, TRUE)
    BY <2>1
  <2>3. n2 = n /\ Part(c, n, k2) = Part(c, n, k)
    BY <2>2, <1>5, <1>8 DEF Node
  <2>4. k2 \in Int /\ k \in Int /\ k2 >= 1 /\ k >= 1
    BY <1>1, <1>4, <2>2 DEF PartSizes, Sizes
  <2>5. ~ k2 < k
    BY <1>4, <2>3, <2>4 DEF IsNewPart
  <2>6. ~ k < k2
    BY <2>2, <2>3, <2>4 DEF IsNewPart
  <2>7. k = k2
    BY <2>4, <2>5, <2>6
  <2> QED
    BY <1>4, <2>2, <2>3, <2>7
<1> QED
  BY <1>6, <1>7, <1>8

-------------------------------------------------------------------------------
LEMMA AddKnownLookup ==
  ASSUME LookupInv, NEW c \in Constants, AddKnown(c)
  PROVE  LookupInv'
<1>1. PICK node \in NodesOf(c.size, c.data) :
        answers' = answers \cup {[size |-> c.size, data |-> c.data, offset |-> node.offset]}
  BY DEF AddKnown, Answer
<1>2. nodes' = nodes
  BY DEF AddKnown
<1>3. node \in nodes /\ node.size = c.size /\ node.data = c.data
  BY <1>1 DEF NodesOf
<1>4. AnswersKnown'
  BY <1>1, <1>2, <1>3 DEF AnswersKnown, LookupInv
<1> QED
  BY <1>2, <1>4 DEF NodesUnique, LookupInv

LEMMA AddNewLookup ==
  ASSUME LookupInv, NEW c \in Constants, AddNew(c)
  PROVE  LookupInv'
<1>0. PICK stop \in Stops(c) :
        /\ nodes' = nodes \cup {Node(c.size, c.data, PlaceOf(c.size, stop).offset, FALSE)}
                          \cup SharedNodes(c, PlaceOf(c.size, stop).offset)
        /\ answers' = answers \cup
             {[size |-> c.size, data |-> c.data, offset |-> PlaceOf(c.size, stop).offset]}
  BY DEF AddNew, Answer
<1> DEFINE offset == PlaceOf(c.size, stop).offset
           added  == Node(c.size, c.data, offset, FALSE)
<1>1. nodes' = nodes \cup {added} \cup SharedNodes(c, offset)
  BY <1>0
<1>2. answers' = answers \cup {[size |-> c.size, data |-> c.data, offset |-> offset]}
  BY <1>0
<1>3. \A n \in nodes : ~(n.size = c.size /\ n.data = c.data)
  BY DEF AddNew, NodesOf
<1>4. added.size = c.size /\ added.data = c.data /\ added.offset = offset
  BY DEF Node
<1>5. ASSUME NEW m \in SharedNodes(c, offset)
      PROVE  /\ m.size # c.size
             /\ \A n \in nodes : ~(n.size = m.size /\ n.data = m.data)
             /\ \A n \in SharedNodes(c, offset) :
                  m.size = n.size /\ m.data = n.data => m = n
  BY <1>5, SharedNodesAreNew DEF NodesOf
<1> HIDE DEF added, offset
<1>6. NodesUnique'
  <2> SUFFICES ASSUME NEW m \in nodes', NEW n \in nodes', m.size = n.size, m.data = n.data
               PROVE  m = n
    BY DEF NodesUnique
  <2>1. CASE m \in nodes
    BY <2>1, <1>1, <1>3, <1>4, <1>5 DEF NodesUnique, LookupInv
  <2>2. CASE m = added
    BY <2>2, <1>1, <1>3, <1>4, <1>5
  <2>3. CASE m \in SharedNodes(c, offset)
    BY <2>3, <1>1, <1>4, <1>5
  <2> QED
    BY <1>1, <2>1, <2>2, <2>3
<1>7. AnswersKnown'
  BY <1>1, <1>2, <1>4 DEF AnswersKnown, LookupInv
<1> QED
  BY <1>6, <1>7 DEF LookupInv

\* One node per constant, and the trees agree with what the users were told.
THEOREM LookupInvariant == Spec => []LookupInv
<1>1. Init => LookupInv
  BY DEF Init, LookupInv, NodesUnique, AnswersKnown
<1>2. LookupInv /\ [Next]_vars => LookupInv'
  <2> SUFFICES ASSUME LookupInv, [Next]_vars
               PROVE  LookupInv'
    OBVIOUS
  <2>1. ASSUME NEW c \in Constants, AddKnown(c)
        PROVE  LookupInv'
    BY <2>1, AddKnownLookup
  <2>2. ASSUME NEW c \in Constants, AddNew(c)
        PROVE  LookupInv'
    BY <2>2, AddNewLookup
  <2>3. ASSUME NEW c \in Constants, AddOutOfMemory(c)
        PROVE  LookupInv'
    BY <2>3 DEF AddOutOfMemory, LookupInv, NodesUnique, AnswersKnown
  <2>4. CASE Reset
    BY <2>4 DEF Reset, LookupInv, NodesUnique, AnswersKnown
  <2>5. CASE UNCHANGED vars
    BY <2>5 DEF vars, LookupInv, NodesUnique, AnswersKnown
  <2> QED
    BY <2>1, <2>2, <2>3, <2>4, <2>5 DEF Next
<1> QED
  BY <1>1, <1>2, PTL DEF Spec

\* A constant, added whole or offered as a piece of a longer one, has one place
\* in the pool from its first answer on.
THEOREM ConstantsHaveOnePlace == Spec => []OneOffset
<1>1. LookupInv => OneOffset
  BY DEF LookupInv, NodesUnique, AnswersKnown, OneOffset
<1> QED
  BY <1>1, LookupInvariant, PTL

-------------------------------------------------------------------------------
(* Arithmetic of the sizes, which are powers of two *)

\* The indexes stand for the sizes, one for each.
LEMMA SizesAndIndexes ==
  /\ \A i \in Indexes : 2 ^ i \in Sizes
  /\ \A i, j \in Indexes : 2 ^ i = 2 ^ j => i = j
  /\ \A n \in Sizes : IndexOf(n) \in Indexes /\ 2 ^ IndexOf(n) = n
<1>1. 2 ^ 0 = 1 /\ 2 ^ 1 = 2 /\ 2 ^ 2 = 4 /\ 2 ^ 3 = 8 /\ 2 ^ 4 = 16 /\ 2 ^ 5 = 32 /\ 2 ^ 6 = 64
  OBVIOUS
<1>2. Indexes = {0, 1, 2, 3, 4, 5, 6}
  BY DEF Indexes, IndexCount
<1>3. \A i \in Indexes : 2 ^ i \in Sizes
  BY ZenonT(60), <1>1, <1>2 DEF Sizes
<1>4. \A n \in Sizes : \E i \in Indexes : 2 ^ i = n
  BY <1>1, <1>2, Zenon DEF Sizes
<1>5. \A n \in Sizes : IndexOf(n) \in Indexes /\ 2 ^ IndexOf(n) = n
  BY <1>4, Zenon DEF IndexOf
<1> DEFINE p == [i \in Indexes |-> 2 ^ i]
<1>6. p[0] = 1 /\ p[1] = 2 /\ p[2] = 4 /\ p[3] = 8 /\ p[4] = 16 /\ p[5] = 32 /\ p[6] = 64
  BY <1>1, <1>2
<1>7. \A i \in Indexes : p[i] = 2 ^ i
  OBVIOUS
<1> HIDE DEF p
<1>8. \A i, j \in Indexes : p[i] = p[j] => i = j
  BY <1>2, <1>6
<1> QED
  BY <1>3, <1>5, <1>7, <1>8

\* Rounding up aligns, and never down.
LEMMA AlignUpAligns ==
  ASSUME NEW s \in Nat, NEW n \in Sizes
  PROVE  AlignUp(s, n) \in Nat /\ AlignUp(s, n) >= s /\ AlignUp(s, n) % n = 0
<1>1. CASE n = 1
  BY <1>1 DEF AlignUp
<1>2. CASE n = 2
  BY <1>2 DEF AlignUp
<1>3. CASE n = 4
  BY <1>3 DEF AlignUp
<1>4. CASE n = 8
  BY <1>4 DEF AlignUp
<1>5. CASE n = 16
  BY <1>5 DEF AlignUp
<1>6. CASE n = 32
  BY <1>6 DEF AlignUp
<1>7. CASE n = 64
  BY <1>7 DEF AlignUp
<1> QED
  BY <1>1, <1>2, <1>3, <1>4, <1>5, <1>6, <1>7 DEF Sizes

\* A piece fits what is left to cut and is aligned to its size.
LEMMA PieceSizeFits ==
  ASSUME NEW o \in Nat, NEW n \in Nat, n # 0
  PROVE  PieceSize(o, n) \in Sizes /\ PieceSize(o, n) <= n /\ o % PieceSize(o, n) = 0
<1> DEFINE P == {g \in {1, 2, 4, 8, 16, 32} : g <= n /\ o % g = 0}
<1>1. 1 \in P
  OBVIOUS
<1>2. P \in SUBSET Nat /\ P # {} /\ \A y \in P : y <= 32
  BY <1>1
<1>4. PieceSize(o, n) = Max(P)
  BY DEF PieceSize
<1> HIDE DEF P
<1>3. Max(P) \in P
  BY <1>2, MaxOfNats
<1> USE DEF P
<1>5. Max(P) \in Sizes /\ Max(P) <= n /\ o % Max(P) = 0
  BY <1>3 DEF Sizes
<1> QED
  BY <1>4, <1>5

-------------------------------------------------------------------------------
(* Lists of gaps *)

Gaps     == [offset : Nat, size : Nat]
GapLists == [Indexes -> Seq(Gaps)]

\* a ends before b starts, or the other way round.
Apart(a, b) ==
  \/ a.offset + a.size <= b.offset
  \/ b.offset + b.size <= a.offset

\* Every gap is as large and as aligned as its list promises and lies in lo .. hi - 1.
GapsFit(lists, lo, hi) ==
  \A i \in Indexes : \A k \in 1 .. Len(lists[i]) :
    LET g == lists[i][k] IN
    g.size = 2 ^ i /\ g.offset % g.size = 0 /\ lo <= g.offset /\ g.offset + g.size <= hi

GapsApart(lists) ==
  \A i \in Indexes, j \in Indexes : \A k \in 1 .. Len(lists[i]), l \in 1 .. Len(lists[j]) :
    (i = j /\ k = l) \/ Apart(lists[i][k], lists[j][l])

ClearOf(lists, n) ==
  \A i \in Indexes : \A k \in 1 .. Len(lists[i]) : Apart(n, lists[i][k])

\* The space from lo on is cut into these gaps.
Cut(lists, lo, hi) == lists \in GapLists /\ GapsFit(lists, lo, hi) /\ GapsApart(lists)

NoGaps == [i \in Indexes |-> << >>]

\* Empty lists are a cut of any space.
LEMMA NoGapsCut ==
  ASSUME NEW lo, NEW hi
  PROVE  Cut(NoGaps, lo, hi) /\ \A n : ClearOf(NoGaps, n)
<1>1. NoGaps \in GapLists
  <2>1. << >> \in Seq(Gaps)
    BY EmptySeq
  <2> QED
    BY <2>1 DEF NoGaps, GapLists
<1>2. \A i \in Indexes : 1 .. Len(NoGaps[i]) = {}
  BY DEF NoGaps
<1> QED
  BY <1>1, <1>2, Zenon DEF Cut, GapsFit, GapsApart, ClearOf

\* A gap in front of the others is put at the end of a list.
LEMMA CutWithGap ==
  ASSUME NEW lo \in Nat, NEW mid \in Nat, NEW hi \in Nat, NEW lists, Cut(lists, mid, hi),
         NEW i \in Indexes, NEW g \in Gaps,
         g.size = 2 ^ i, g.offset % g.size = 0, lo <= g.offset, g.offset + g.size <= mid,
         mid <= hi, lo <= mid
  PROVE  Cut([lists EXCEPT ![i] = Append(@, g)], lo, hi)
<1> DEFINE s   == lists[i]
           t   == Append(s, g)
           new == [lists EXCEPT ![i] = t]
<1>1. lists \in GapLists /\ s \in Seq(Gaps)
  BY DEF Cut, GapLists
<1>2. PICK n \in Nat : n = Len(s)
  BY <1>1, LenProperties
<1>3. t \in Seq(Gaps) /\ Len(t) = n + 1 /\ t[n + 1] = g /\ \A k \in 1 .. n : t[k] = s[k]
  <2>1. t \in Seq(Gaps) /\ Len(t) = Len(s) + 1 /\ t[Len(s) + 1] = g /\ \A k \in 1 .. Len(s) : t[k] = s[k]
    BY <1>1, AppendProperties
  <2> QED
    BY <1>2, <2>1
<1> HIDE DEF t
<1>4. new \in GapLists /\ new[i] = t /\ \A j \in Indexes : j # i => new[j] = lists[j]
  BY <1>1, <1>3 DEF GapLists
<1> HIDE DEF new
\* An element of the new lists is the new gap or an old one.
<1>5. ASSUME NEW j \in Indexes, NEW k \in 1 .. Len(new[j])
      PROVE  \/ j = i /\ k = n + 1 /\ new[j][k] = g
             \/ k \in 1 .. Len(lists[j]) /\ new[j][k] = lists[j][k]
  BY SMTT(30), <1>2, <1>3, <1>4
<1>6. ASSUME NEW j \in Indexes, NEW k \in 1 .. Len(lists[j])
      PROVE  /\ lists[j][k].size = 2 ^ j /\ lists[j][k].offset % lists[j][k].size = 0
             /\ mid <= lists[j][k].offset /\ lists[j][k].offset + lists[j][k].size <= hi
             /\ lists[j][k] \in Gaps
  <2>1. lists[j][k] \in Gaps
    BY <1>1, ElementOfSeq DEF GapLists
  <2> QED
    BY <2>1 DEF Cut, GapsFit
<1>7. GapsFit(new, lo, hi)
  <2> SUFFICES ASSUME NEW j \in Indexes, NEW k \in 1 .. Len(new[j])
               PROVE  /\ new[j][k].size = 2 ^ j /\ new[j][k].offset % new[j][k].size = 0
                      /\ lo <= new[j][k].offset /\ new[j][k].offset + new[j][k].size <= hi
    BY DEF GapsFit
  <2>1. CASE j = i /\ k = n + 1 /\ new[j][k] = g
    <3>1. g.offset + g.size <= hi
      BY DEF Gaps
    <3> QED
      BY <2>1, <3>1
  <2>2. CASE k \in 1 .. Len(lists[j]) /\ new[j][k] = lists[j][k]
    <3>1. lo <= lists[j][k].offset
      BY <2>2, <1>6 DEF Gaps
    <3> QED
      BY <2>2, <1>6, <3>1
  <2> QED
    BY <1>5, <2>1, <2>2
<1>8. ASSUME NEW j \in Indexes, NEW k \in 1 .. Len(lists[j])
      PROVE  Apart(g, lists[j][k]) /\ Apart(lists[j][k], g)
  <2>1. g.offset + g.size <= lists[j][k].offset
    BY <1>6 DEF Gaps
  <2> QED
    BY <2>1 DEF Apart
<1>9. GapsApart(new)
  <2> SUFFICES ASSUME NEW a \in Indexes, NEW b \in Indexes,
                      NEW k \in 1 .. Len(new[a]), NEW l \in 1 .. Len(new[b])
               PROVE  (a = b /\ k = l) \/ Apart(new[a][k], new[b][l])
    BY DEF GapsApart
  <2>1. CASE a = i /\ k = n + 1 /\ new[a][k] = g
    BY <2>1, <1>5, <1>8
  <2>2. CASE k \in 1 .. Len(lists[a]) /\ new[a][k] = lists[a][k]
    <3>1. CASE b = i /\ l = n + 1 /\ new[b][l] = g
      BY <2>2, <3>1, <1>8
    <3>2. CASE l \in 1 .. Len(lists[b]) /\ new[b][l] = lists[b][l]
      BY <2>2, <3>2 DEF Cut, GapsApart
    <3> QED
      BY <3>1, <3>2, <1>5
  <2> QED
    BY <2>1, <2>2, <1>5
<1>10. Cut(new, lo, hi)
  BY <1>4, <1>7, <1>9 DEF Cut
<1> QED
  BY <1>10 DEF new, t

\* The bounds may be widened.
LEMMA CutWider ==
  ASSUME NEW lo \in Nat, NEW mid \in Nat, NEW hi \in Nat, NEW end \in Nat,
         lo <= mid, hi <= end, NEW lists, Cut(lists, mid, hi)
  PROVE  Cut(lists, lo, end)
<1> SUFFICES ASSUME NEW j \in Indexes, NEW k \in 1 .. Len(lists[j])
             PROVE  lo <= lists[j][k].offset /\ lists[j][k].offset + lists[j][k].size <= end
  BY DEF Cut, GapsFit
<1>1. lists[j][k] \in Gaps
  BY ElementOfSeq DEF Cut, GapLists
<1>2. mid <= lists[j][k].offset /\ lists[j][k].offset + lists[j][k].size <= hi
  BY DEF Cut, GapsFit
<1> QED
  BY <1>1, <1>2 DEF Gaps

\* Gaps of a space and gaps of the space before it, in one list each.
LEMMA CutJoined ==
  ASSUME NEW mid \in Nat, NEW hi \in Nat, mid <= hi,
         NEW new, Cut(new, mid, hi), NEW old, Cut(old, 0, mid)
  PROVE  /\ Cut([i \in Indexes |-> new[i] \o old[i]], 0, hi)
         /\ \A n : ClearOf(new, n) /\ ClearOf(old, n)
                     => ClearOf([i \in Indexes |-> new[i] \o old[i]], n)
<1> DEFINE all == [i \in Indexes |-> new[i] \o old[i]]
<1>1. new \in GapLists /\ old \in GapLists
  BY DEF Cut
<1>2. \A i \in Indexes : new[i] \in Seq(Gaps) /\ old[i] \in Seq(Gaps)
  BY <1>1 DEF GapLists
<1>3. ASSUME NEW i \in Indexes
      PROVE  \E n \in Nat, m \in Nat :
               /\ n = Len(new[i]) /\ m = Len(old[i])
               /\ all[i] \in Seq(Gaps) /\ Len(all[i]) = n + m
               /\ \A k \in 1 .. n + m : all[i][k] = IF k <= n THEN new[i][k] ELSE old[i][k - n]
  <2>1. all[i] = new[i] \o old[i]
    OBVIOUS
  <2>2. Len(new[i]) \in Nat /\ Len(old[i]) \in Nat
    BY <1>2, LenProperties
  <2>3. all[i] \in Seq(Gaps) /\ Len(all[i]) = Len(new[i]) + Len(old[i])
        /\ \A k \in 1 .. Len(new[i]) + Len(old[i]) :
             all[i][k] = IF k <= Len(new[i]) THEN new[i][k] ELSE old[i][k - Len(new[i])]
    BY <1>2, <2>1, ConcatProperties
  <2> QED
    BY <2>2, <2>3
<1> HIDE DEF all
<1>4. all \in GapLists
  <2>1. \A i \in Indexes : all[i] \in Seq(Gaps)
    BY <1>3
  <2> QED
    BY <2>1 DEF all, GapLists
\* An element of the joined lists is an element of one of the two.
<1>5. ASSUME NEW i \in Indexes, NEW k \in 1 .. Len(all[i])
      PROVE  \/ k \in 1 .. Len(new[i]) /\ all[i][k] = new[i][k]
             \/ \E l \in 1 .. Len(old[i]) : k = Len(new[i]) + l /\ all[i][k] = old[i][l]
  <2>1. PICK n \in Nat, m \in Nat :
               /\ n = Len(new[i]) /\ m = Len(old[i]) /\ Len(all[i]) = n + m
               /\ \A j \in 1 .. n + m : all[i][j] = IF j <= n THEN new[i][j] ELSE old[i][j - n]
    BY <1>3
  <2>2. k \in 1 .. n + m
    BY <2>1
  <2>5. all[i][k] = IF k <= n THEN new[i][k] ELSE old[i][k - n]
    BY <2>1, <2>2
  <2>3. CASE k <= n
    <3>1. k \in 1 .. n
      BY <2>2, <2>3
    <3> QED
      BY <2>1, <2>3, <2>5, <3>1
  <2>4. CASE ~(k <= n)
    <3>1. k - n \in 1 .. m /\ k = n + (k - n)
      BY <2>2, <2>4
    <3> QED
      BY <2>1, <2>4, <2>5, <3>1
  <2> QED
    BY <2>3, <2>4
<1>6. ASSUME NEW i \in Indexes, NEW k \in 1 .. Len(new[i])
      PROVE  /\ new[i][k] \in Gaps /\ new[i][k].size = 2 ^ i
             /\ new[i][k].offset % new[i][k].size = 0
             /\ mid <= new[i][k].offset /\ new[i][k].offset + new[i][k].size <= hi
  <2>1. new[i][k] \in Gaps
    BY <1>2, ElementOfSeq
  <2> QED
    BY <2>1 DEF Cut, GapsFit
<1>7. ASSUME NEW i \in Indexes, NEW k \in 1 .. Len(old[i])
      PROVE  /\ old[i][k] \in Gaps /\ old[i][k].size = 2 ^ i
             /\ old[i][k].offset % old[i][k].size = 0
             /\ 0 <= old[i][k].offset /\ old[i][k].offset + old[i][k].size <= mid
  <2>1. old[i][k] \in Gaps
    BY <1>2, ElementOfSeq
  <2> QED
    BY <2>1 DEF Cut, GapsFit
<1>8. GapsFit(all, 0, hi)
  <2> SUFFICES ASSUME NEW i \in Indexes, NEW k \in 1 .. Len(all[i])
               PROVE  /\ all[i][k].size = 2 ^ i /\ all[i][k].offset % all[i][k].size = 0
                      /\ 0 <= all[i][k].offset /\ all[i][k].offset + all[i][k].size <= hi
    BY DEF GapsFit
  <2>1. CASE k \in 1 .. Len(new[i]) /\ all[i][k] = new[i][k]
    <3>1. 0 <= new[i][k].offset
      BY <2>1, <1>6 DEF Gaps
    <3> QED
      BY <2>1, <3>1, <1>6
  <2>2. ASSUME NEW l \in 1 .. Len(old[i]), all[i][k] = old[i][l]
        PROVE  /\ all[i][k].size = 2 ^ i /\ all[i][k].offset % all[i][k].size = 0
               /\ 0 <= all[i][k].offset /\ all[i][k].offset + all[i][k].size <= hi
    <3>1. old[i][l].offset + old[i][l].size <= hi
      BY <1>7 DEF Gaps
    <3> QED
      BY <2>2, <3>1, <1>7
  <2> QED
    BY <1>5, <2>1, <2>2
<1>9. ASSUME NEW i \in Indexes, NEW k \in 1 .. Len(new[i]),
             NEW j \in Indexes, NEW l \in 1 .. Len(old[j])
      PROVE  Apart(new[i][k], old[j][l]) /\ Apart(old[j][l], new[i][k])
  <2>1. old[j][l].offset + old[j][l].size <= new[i][k].offset
    <3>1. old[j][l].offset + old[j][l].size <= mid /\ old[j][l] \in Gaps
      BY <1>7
    <3>2. mid <= new[i][k].offset /\ new[i][k] \in Gaps
      BY <1>6
    <3> QED
      BY SMTT(30), <3>1, <3>2 DEF Gaps
  <2> QED
    BY <2>1 DEF Apart
<1>10. GapsApart(all)
  <2> SUFFICES ASSUME NEW i \in Indexes, NEW j \in Indexes,
                      NEW k \in 1 .. Len(all[i]), NEW l \in 1 .. Len(all[j])
               PROVE  (i = j /\ k = l) \/ Apart(all[i][k], all[j][l])
    BY DEF GapsApart
  <2>1. CASE k \in 1 .. Len(new[i]) /\ all[i][k] = new[i][k]
    <3>1. CASE l \in 1 .. Len(new[j]) /\ all[j][l] = new[j][l]
      BY <2>1, <3>1 DEF Cut, GapsApart
    <3>2. ASSUME NEW m \in 1 .. Len(old[j]), all[j][l] = old[j][m]
          PROVE  Apart(all[i][k], all[j][l])
      BY <2>1, <3>2, <1>9
    <3> QED
      BY <1>5, <3>1, <3>2
  <2>2. ASSUME NEW p \in 1 .. Len(old[i]), k = Len(new[i]) + p, all[i][k] = old[i][p]
        PROVE  (i = j /\ k = l) \/ Apart(all[i][k], all[j][l])
    <3>1. CASE l \in 1 .. Len(new[j]) /\ all[j][l] = new[j][l]
      BY <2>2, <3>1, <1>9
    <3>2. ASSUME NEW m \in 1 .. Len(old[j]), l = Len(new[j]) + m, all[j][l] = old[j][m]
          PROVE  (i = j /\ k = l) \/ Apart(all[i][k], all[j][l])
      <4>1. (i = j /\ p = m) \/ Apart(old[i][p], old[j][m])
        BY DEF Cut, GapsApart
      <4> QED
        BY <2>2, <3>2, <4>1
    <3> QED
      BY <1>5, <3>1, <3>2
  <2> QED
    BY <1>5, <2>1, <2>2
<1>11. ASSUME NEW n, ClearOf(new, n), ClearOf(old, n)
       PROVE  ClearOf(all, n)
  <2> SUFFICES ASSUME NEW i \in Indexes, NEW k \in 1 .. Len(all[i])
               PROVE  Apart(n, all[i][k])
    BY DEF ClearOf
  <2> QED
    BY <1>5, <1>11 DEF ClearOf
<1>12. Cut(all, 0, hi)
  BY <1>4, <1>8, <1>10 DEF Cut
<1> QED
  BY <1>11, <1>12 DEF all

\* A gap is taken from a list, and the gaps in front of it with it.
LEMMA CutPopped ==
  ASSUME NEW hi \in Nat, NEW lists, Cut(lists, 0, hi), NEW i \in Indexes,
         NEW p \in 1 .. Len(lists[i])
  PROVE  LET new == [lists EXCEPT ![i] = SubSeq(@, p + 1, Len(@))] IN
         /\ Cut(new, 0, hi) /\ ClearOf(new, lists[i][p])
         /\ \A n : ClearOf(lists, n) => ClearOf(new, n)
<1> DEFINE s   == lists[i]
           t   == SubSeq(s, p + 1, Len(s))
           new == [lists EXCEPT ![i] = t]
<1>1. lists \in GapLists /\ s \in Seq(Gaps)
  BY DEF Cut, GapLists
<1>2. PICK n \in Nat : n = Len(s)
  BY <1>1, LenProperties
<1>3. p \in Int /\ p >= 1 /\ p <= n
  BY <1>2
<1>4. t \in Seq(Gaps) /\ Len(t) = n - p /\ \A k \in 1 .. n - p : t[k] = s[p + k]
  <2>1. \A k \in 1 .. n : s[k] \in Gaps
    BY <1>1, <1>2, ElementOfSeq
  <2>2. t = SubSeq(s, p + 1, n)
    BY <1>2
  <2> HIDE DEF t, s
  <2>3. p + 1 \in Int /\ n \in Int /\ \A k \in p + 1 .. n : s[k] \in Gaps
    BY <1>3, <2>1
  <2>4. /\ t \in Seq(Gaps)
        /\ Len(t) = IF p + 1 <= n THEN n - (p + 1) + 1 ELSE 0
        /\ \A k \in 1 .. n - (p + 1) + 1 : t[k] = s[(p + 1) + k - 1]
    BY <2>2, <2>3, SubSeqProperties
  <2>5. Len(t) = n - p
    BY <2>4, <1>3
  <2>6. ASSUME NEW k \in 1 .. n - p PROVE t[k] = s[p + k]
    <3>1. k \in 1 .. n - (p + 1) + 1 /\ (p + 1) + k - 1 = p + k
      BY <1>3
    <3> QED
      BY <3>1, <2>4
  <2> QED
    BY <2>4, <2>5, <2>6
<1> HIDE DEF t
<1>5. new \in GapLists /\ new[i] = t /\ \A j \in Indexes : j # i => new[j] = lists[j]
  BY <1>1, <1>4 DEF GapLists
<1> HIDE DEF new
\* What is left was there, in another place than what was taken.
<1>6. ASSUME NEW j \in Indexes, NEW k \in 1 .. Len(new[j])
      PROVE  /\ j = i => p + k \in 1 .. Len(lists[j]) /\ new[j][k] = lists[j][p + k] /\ k >= 1
             /\ j # i => k \in 1 .. Len(lists[j]) /\ new[j][k] = lists[j][k]
  <2>1. CASE j = i
    <3>1. k \in 1 .. n - p
      BY <1>4, <1>5, <2>1
    <3>2. p + k \in 1 .. n /\ k >= 1
      BY <1>3, <3>1
    <3> QED
      BY <1>2, <1>4, <1>5, <2>1, <3>1, <3>2
  <2>2. CASE j # i
    BY <1>5, <2>2
  <2> QED
    BY <2>1, <2>2
<1>7. GapsFit(new, 0, hi)
  <2> SUFFICES ASSUME NEW j \in Indexes, NEW k \in 1 .. Len(new[j])
               PROVE  /\ new[j][k].size = 2 ^ j /\ new[j][k].offset % new[j][k].size = 0
                      /\ 0 <= new[j][k].offset /\ new[j][k].offset + new[j][k].size <= hi
    BY DEF GapsFit
  <2>1. PICK l \in 1 .. Len(lists[j]) : new[j][k] = lists[j][l]
    BY <1>6
  <2> QED
    BY <2>1 DEF Cut, GapsFit
<1>8. GapsApart(new)
  <2> SUFFICES ASSUME NEW a \in Indexes, NEW b \in Indexes,
                      NEW k \in 1 .. Len(new[a]), NEW l \in 1 .. Len(new[b]),
                      ~(a = b /\ k = l)
               PROVE  Apart(new[a][k], new[b][l])
    BY DEF GapsApart
  <2>1. PICK u \in 1 .. Len(lists[a]) :
          new[a][k] = lists[a][u] /\ u = IF a = i THEN p + k ELSE k
    BY <1>6
  <2>2. PICK v \in 1 .. Len(lists[b]) :
          new[b][l] = lists[b][v] /\ v = IF b = i THEN p + l ELSE l
    BY <1>6
  <2>3. ~(a = b /\ u = v)
    <3>1. k \in Int /\ l \in Int /\ p \in Int
      BY <1>3
    <3> QED
      BY <2>1, <2>2, <3>1
  <2> QED
    BY <2>1, <2>2, <2>3 DEF Cut, GapsApart
<1>9. ClearOf(new, lists[i][p])
  <2> SUFFICES ASSUME NEW j \in Indexes, NEW k \in 1 .. Len(new[j])
               PROVE  Apart(lists[i][p], new[j][k])
    BY DEF ClearOf
  <2>1. PICK u \in 1 .. Len(lists[j]) :
          new[j][k] = lists[j][u] /\ (j = i => u = p + k)
    BY <1>6
  <2>2. ~(j = i /\ u = p)
    <3>1. k \in Int /\ k >= 1
      OBVIOUS
    <3> QED
      BY <1>3, <2>1, <3>1
  <2> QED
    BY <2>1, <2>2 DEF Cut, GapsApart
<1>10. ASSUME NEW m, ClearOf(lists, m) PROVE ClearOf(new, m)
  <2> SUFFICES ASSUME NEW j \in Indexes, NEW k \in 1 .. Len(new[j])
               PROVE  Apart(m, new[j][k])
    BY DEF ClearOf
  <2>1. PICK l \in 1 .. Len(lists[j]) : new[j][k] = lists[j][l]
    BY <1>6
  <2> QED
    BY <2>1, <1>10 DEF ClearOf
<1>11. Cut(new, 0, hi)
  BY <1>5, <1>7, <1>8 DEF Cut
<1> QED
  BY <1>9, <1>10, <1>11 DEF new, t

-------------------------------------------------------------------------------
(* Cutting a gap into pieces *)

\* The lists for the last m bytes, from those for fewer.
CutLast(f, m, end, stop) ==
  IF m = 0 \/ end - m >= stop THEN [i \in Indexes |-> << >>]
  ELSE LET g == PieceSize(end - m, m)
       IN  [f[m - g] EXCEPT ![IndexOf(g)] = Append(@, [offset |-> end - m, size |-> g])]

IsCutting(f, n, end, stop) == f = [m \in 0 .. n |-> CutLast(f, m, end, stop)]

\* The recursion of Pieces has a solution.
LEMMA CuttingExists ==
  ASSUME NEW n \in Nat, NEW end \in Nat, n <= end, NEW stop
  PROVE  \E f : IsCutting(f, n, end, stop)
<1> DEFINE Has == {k \in Nat : k <= end => \E f : IsCutting(f, k, end, stop)}
<1>1. ASSUME NEW m \in Nat, m <= end, NEW f, NEW h, \A k \in Nat : k < m => f[k] = h[k]
      PROVE  CutLast(f, m, end, stop) = CutLast(h, m, end, stop)
  <2>1. CASE m = 0 \/ end - m >= stop
    BY <2>1 DEF CutLast
  <2>2. CASE m # 0
    <3>1. end - m \in Nat
      BY <1>1
    <3>2. PICK g \in Sizes : g = PieceSize(end - m, m) /\ g <= m
      BY <2>2, <3>1, PieceSizeFits
    <3>3. m - g \in Nat /\ m - g < m
      BY <3>2 DEF Sizes
    <3>4. f[m - g] = h[m - g]
      BY <1>1, <3>3
    <3> QED
      BY <3>2, <3>4 DEF CutLast
  <2> QED
    BY <2>1, <2>2
<1>2. 0 \in Has
  <2> DEFINE none == [m \in 0 .. 0 |-> [i \in Indexes |-> << >>]]
  <2>1. \A m \in 0 .. 0 : CutLast(none, m, end, stop) = [i \in Indexes |-> << >>]
    BY DEF CutLast
  <2>2. IsCutting(none, 0, end, stop)
    BY <2>1 DEF IsCutting
  <2> QED
    BY <2>2
<1>3. ASSUME NEW k \in Nat, k \in Has PROVE k + 1 \in Has
  <2> SUFFICES ASSUME k + 1 <= end PROVE \E f : IsCutting(f, k + 1, end, stop)
    OBVIOUS
  <2>1. PICK f : IsCutting(f, k, end, stop)
    BY <1>3
  <2> DEFINE h == [m \in 0 .. k + 1 |-> IF m = k + 1 THEN CutLast(f, k + 1, end, stop) ELSE f[m]]
  <2>2. \A m \in Nat : m < k + 1 => h[m] = f[m]
    OBVIOUS
  <2>3. ASSUME NEW m \in 0 .. k + 1 PROVE h[m] = CutLast(h, m, end, stop)
    <3>1. \A j \in Nat : j < m => h[j] = f[j]
      BY <2>2
    <3>2. CutLast(h, m, end, stop) = CutLast(f, m, end, stop)
      <4>1. m \in Nat /\ m <= end
        OBVIOUS
      <4> HIDE DEF h
      <4> QED
        BY <1>1, <3>1, <4>1
    <3>3. CASE m = k + 1
      BY <3>2, <3>3
    <3>4. CASE m # k + 1
      <4>1. m \in 0 .. k /\ h[m] = f[m]
        BY <3>4
      <4>2. f[m] = CutLast(f, m, end, stop)
        BY <2>1, <4>1 DEF IsCutting
      <4> QED
        BY <3>2, <4>1, <4>2
    <3> QED
      BY <3>3, <3>4
  <2>4. h = [m \in 0 .. k + 1 |-> h[m]]
    OBVIOUS
  <2> HIDE DEF h
  <2>5. IsCutting(h, k + 1, end, stop)
    BY <2>3, <2>4 DEF IsCutting
  <2> QED
    BY <2>5
<1> HIDE DEF Has
<1>4. Inductive(Has)
  BY <1>2, <1>3 DEF Inductive
<1>5. n \in Has
  BY <1>4, InductiveHasNat
<1> QED
  BY <1>5 DEF Has

\* addGap() cuts the space it is given into aligned pieces that share no byte.
LEMMA PiecesAreCut ==
  ASSUME NEW start \in Nat, NEW end \in Nat, start <= end, NEW stop
  PROVE  Cut(Pieces(start, end, stop), start, end)
<1>1. PICK n \in Nat : n = end - start /\ n <= end /\ end - n = start
  OBVIOUS
<1>2. Pieces(start, end, stop) = (CHOOSE f : IsCutting(f, n, end, stop))[n]
  BY <1>1 DEF Pieces, IsCutting, CutLast
<1>3. PICK f : IsCutting(f, n, end, stop) /\ Pieces(start, end, stop) = f[n]
  BY <1>1, <1>2, CuttingExists
<1> DEFINE Good == {m \in Nat : \A k \in Nat : k <= m /\ k <= n => Cut(f[k], end - k, end)}
<1>4. ASSUME NEW k \in Nat, k <= n PROVE f[k] = CutLast(f, k, end, stop)
  BY <1>3, <1>4 DEF IsCutting
<1>5. ASSUME NEW k \in Nat, k <= n, \A j \in Nat : j < k => Cut(f[j], end - j, end)
      PROVE  Cut(f[k], end - k, end)
  <2>1. CASE k = 0 \/ end - k >= stop
    <3>1. f[k] = NoGaps
      BY <1>4, <1>5, <2>1 DEF CutLast, NoGaps
    <3> QED
      BY <3>1, NoGapsCut
  <2>2. CASE ~(k = 0 \/ end - k >= stop)
    <3>1. end - k \in Nat
      BY <1>1, <1>5
    <3>2. PICK g \in Sizes : g = PieceSize(end - k, k) /\ g <= k /\ (end - k) % g = 0
      BY <2>2, <3>1, PieceSizeFits
    <3>3. f[k] = [f[k - g] EXCEPT ![IndexOf(g)] = Append(@, [offset |-> end - k, size |-> g])]
      BY <1>4, <1>5, <2>2, <3>2 DEF CutLast
    <3>4. PICK i \in Indexes : i = IndexOf(g) /\ 2 ^ i = g
      BY <3>2, SizesAndIndexes
    <3>5. PICK j \in Nat : j = k - g /\ j < k
      BY <3>2 DEF Sizes
    <3>6. Cut(f[j], end - j, end)
      BY <1>5, <3>5
    <3> DEFINE new == [offset |-> end - k, size |-> g]
    <3>7. new \in Gaps /\ new.size = g /\ new.offset = end - k
      BY <3>1, <3>2 DEF Gaps, Sizes
    <3>8. f[k] = [f[j] EXCEPT ![i] = Append(@, new)]
      BY <3>3, <3>4, <3>5
    <3> HIDE DEF new
    <3>9. PICK lo \in Nat, mid \in Nat :
            lo = end - k /\ mid = end - j /\ lo + g <= mid /\ mid <= end /\ lo <= mid
      BY <1>1, <1>5, <3>1, <3>2, <3>5 DEF Sizes
    <3>10. Cut([f[j] EXCEPT ![i] = Append(@, new)], lo, end)
      <4>1. new.size = 2 ^ i /\ new.offset % new.size = 0 /\ lo <= new.offset
            /\ new.offset + new.size <= mid /\ mid <= end /\ lo <= mid
        BY <3>2, <3>4, <3>7, <3>9
      <4>2. Cut(f[j], mid, end)
        BY <3>6, <3>9
      <4> QED
        BY <3>7, <4>1, <4>2, CutWithGap
    <3> QED
      BY <3>8, <3>9, <3>10
  <2> QED
    BY <2>1, <2>2
<1>6. 0 \in Good
  <2> SUFFICES ASSUME NEW k \in Nat, k <= 0 PROVE Cut(f[k], end - k, end)
    OBVIOUS
  <2>1. k <= n /\ \A j \in Nat : ~(j < k)
    OBVIOUS
  <2> QED
    BY <1>5, <2>1
<1>7. ASSUME NEW m \in Nat, m \in Good PROVE m + 1 \in Good
  <2> SUFFICES ASSUME NEW k \in Nat, k <= m + 1, k <= n PROVE Cut(f[k], end - k, end)
    OBVIOUS
  <2>1. \A j \in Nat : j < k => j <= m /\ j <= n
    OBVIOUS
  <2>2. \A j \in Nat : j < k => Cut(f[j], end - j, end)
    BY <1>7, <2>1
  <2> QED
    BY <1>5, <2>2
<1> HIDE DEF Good
<1>8. Inductive(Good)
  BY <1>6, <1>7 DEF Inductive
<1>9. n \in Good
  BY <1>8, InductiveHasNat
<1>10. Cut(f[n], end - n, end)
  BY <1>9 DEF Good
<1> QED
  BY <1>1, <1>3, <1>10

-------------------------------------------------------------------------------
(* The place of a new constant *)

\* What lies outside of a space is clear of its gaps.
LEMMA ClearOutside ==
  ASSUME NEW lo \in Nat, NEW hi \in Nat, NEW lists, Cut(lists, lo, hi),
         NEW n, n.offset \in Nat, n.size \in Nat,
         n.offset + n.size <= lo \/ hi <= n.offset
  PROVE  ClearOf(lists, n)
<1> SUFFICES ASSUME NEW i \in Indexes, NEW k \in 1 .. Len(lists[i])
             PROVE  Apart(n, lists[i][k])
  BY DEF ClearOf
<1>1. PICK g \in Gaps : g = lists[i][k]
  BY ElementOfSeq DEF Cut, GapLists
<1>2. lo <= g.offset /\ g.offset + g.size <= hi
  BY <1>1 DEF Cut, GapsFit
<1>3. n.offset + n.size <= g.offset \/ g.offset + g.size <= n.offset
  BY <1>2 DEF Gaps
<1> QED
  BY <1>1, <1>3 DEF Apart

\* What add() finds out about a place before it makes the node.
GoodPlace(p, n) ==
  /\ p.offset \in Nat /\ p.offset % n = 0 /\ p.offset + n <= p.size
  /\ p.size \in Nat /\ size <= p.size
  /\ Cut(p.gaps, 0, p.size)
  /\ ClearOf(p.gaps, [offset |-> p.offset, size |-> n])
  /\ \A m : m.offset \in Nat /\ m.size \in Nat /\ m.offset + m.size <= size /\ ClearOf(gaps, m)
              => /\ ClearOf(p.gaps, m)
                 /\ Apart(m, [offset |-> p.offset, size |-> n])
                 /\ Apart([offset |-> p.offset, size |-> n], m)

\* A popped gap, or the end of the pool, is a good place.
LEMMA PlaceIsGood ==
  ASSUME size \in Nat, Cut(gaps, 0, size), NEW n \in Sizes, NEW stop
  PROVE  GoodPlace(PlaceOf(n, stop), n)
<1>1. PICK i \in Indexes : i = IndexOf(n) /\ 2 ^ i = n
  BY SizesAndIndexes
<1>2. n \in Nat /\ n > 0
  BY DEF Sizes
<1>3. CASE Popped(i) > 0
  <2>1. PICK l \in Nat : l = Len(gaps[i])
    BY LenProperties DEF Cut, GapLists
  <2>2. PICK p \in 1 .. Len(gaps[i]) : p = Popped(i)
    <3> DEFINE S == {IndexCount - 1 - i, l}
    <3>1. S \in SUBSET Nat /\ S # {}
      BY DEF Indexes, IndexCount
    <3>2. Popped(i) = Min(S)
      BY <2>1 DEF Popped
    <3> HIDE DEF S
    <3>3. Min(S) \in S /\ \A y \in S : Min(S) <= y
      BY <3>1, MinOfNats
    <3> USE DEF S
    <3>4. Popped(i) \in Nat /\ Popped(i) <= l
      BY <3>1, <3>2, <3>3
    <3> QED
      BY <1>3, <2>1, <3>4
  <2>3. PICK g \in Gaps : g = gaps[i][p]
    BY ElementOfSeq DEF Cut, GapLists
  <2>4. g.size = n /\ g.offset % n = 0 /\ g.offset + n <= size
    BY <1>1, <2>3 DEF Cut, GapsFit
  <2> DEFINE new == [gaps EXCEPT ![i] = SubSeq(@, p + 1, Len(@))]
  <2>5. PlaceOf(n, stop) = [offset |-> g.offset, size |-> size, gaps |-> new]
    BY <1>1, <1>3, <2>2, <2>3 DEF PlaceOf
  <2>6. Cut(new, 0, size) /\ ClearOf(new, g) /\ \A m : ClearOf(gaps, m) => ClearOf(new, m)
    BY <2>3, CutPopped
  <2> HIDE DEF new
  <2>7. g = [offset |-> g.offset, size |-> n]
    BY <2>4 DEF Gaps
  <2>8. ASSUME NEW m, ClearOf(gaps, m) PROVE Apart(m, g) /\ Apart(g, m)
    BY <2>3, <2>8 DEF ClearOf, Apart
  <2>9. g.offset \in Nat
    BY DEF Gaps
  <2>10. GoodPlace([offset |-> g.offset, size |-> size, gaps |-> new], n)
    BY <2>4, <2>6, <2>7, <2>8, <2>9 DEF GoodPlace
  <2> QED
    BY <2>5, <2>10
<1>4. CASE ~(Popped(i) > 0)
  <2>1. PICK start \in Nat : start = AlignUp(size, n) /\ start >= size /\ start % n = 0
    BY AlignUpAligns
  <2> DEFINE new == [j \in Indexes |-> Pieces(size, start, stop)[j] \o gaps[j]]
             p   == [offset |-> start, size |-> start + n, gaps |-> new]
  <2>2. PlaceOf(n, stop) = p
    BY <1>1, <1>4, <2>1 DEF PlaceOf, AddGap
  <2>3. Cut(Pieces(size, start, stop), size, start)
    BY <2>1, PiecesAreCut
  <2>4. /\ Cut(new, 0, start)
        /\ \A m : ClearOf(Pieces(size, start, stop), m) /\ ClearOf(gaps, m) => ClearOf(new, m)
    BY <2>1, <2>3, CutJoined
  <2> HIDE DEF new
  <2>5. start + n \in Nat /\ start <= start + n /\ size <= start + n /\ 0 \in Nat
    BY <1>2, <2>1
  <2>6. Cut(new, 0, start + n)
    BY <2>4, <2>5, CutWider
  <2> DEFINE placed == [offset |-> start, size |-> n]
  <2>7. placed.offset = start /\ placed.size = n
    OBVIOUS
  <2> HIDE DEF placed
  <2>8. ClearOf(new, placed)
    <3>1. placed.offset \in Nat /\ placed.size \in Nat /\ start <= placed.offset
      BY <1>2, <2>7
    <3> QED
      BY <3>1, <2>4, ClearOutside
  <2>9. ASSUME NEW m, m.offset \in Nat, m.size \in Nat, m.offset + m.size <= size, ClearOf(gaps, m)
        PROVE  ClearOf(new, m) /\ Apart(m, placed) /\ Apart(placed, m)
    <3>1. ClearOf(Pieces(size, start, stop), m)
      BY <2>1, <2>3, <2>9, ClearOutside
    <3>2. m.offset + m.size <= start
      BY <2>1, <2>9
    <3> QED
      BY <2>4, <2>7, <2>9, <3>1, <3>2 DEF Apart
  <2>10. p.offset = start /\ p.size = start + n /\ p.gaps = new
    OBVIOUS
  <2> HIDE DEF p
  <2>11. [offset |-> p.offset, size |-> n] = placed
    BY <2>10 DEF placed
  <2>12. GoodPlace(p, n)
    BY <2>1, <2>5, <2>6, <2>8, <2>9, <2>10, <2>11 DEF GoodPlace
  <2> QED
    BY <2>2, <2>12
<1> QED
  BY <1>3, <1>4

-------------------------------------------------------------------------------
(* The pieces of a longer constant *)

LongPartSizes == {4, 8, 16, 32}

\* Byte j of piece k of n bytes is byte (k - 1) * n + j of the whole, in word
\* (k - 1) * Words(n) + j \div WordSize of it.
PartFits(s, n, k) ==
  /\ (k - 1) * n \in Nat /\ (k - 1) * n + n <= s
  /\ Words(n) \in Nat /\ (k - 1) * Words(n) \in Nat
  /\ k * Words(n) = (k - 1) * Words(n) + Words(n)
  /\ (k - 1) * Words(n) + Words(n) <= Words(s)
  /\ \A o \in Nat : o % s = 0 => (o + (k - 1) * n) % n = 0
  /\ \A j \in 0 .. n - 1 :
       /\ j \div WordSize + 1 \in 1 .. Words(n)
       /\ ((k - 1) * n + j) \div WordSize = (k - 1) * Words(n) + j \div WordSize
       /\ ((k - 1) * n + j) % WordSize = j % WordSize

\* The pieces of a constant fill it and keep its words whole.
LEMMA PartArithmetic ==
  ASSUME NEW s \in Sizes, NEW n \in LongPartSizes, n < s, NEW k \in 1 .. s \div n
  PROVE  PartFits(s, n, k)
<1> USE DEF Words, WordSize, LongPartSizes, PartFits
<1>1. k \in Nat /\ k >= 1
  OBVIOUS
<1>2. CASE s = 8
  <2>1. n = 4
    BY <1>2
  <2> QED
    BY <1>1, <1>2, <2>1
<1>3. CASE s = 16
  <2>1. CASE n = 4
    BY <1>1, <1>3, <2>1
  <2>2. CASE n = 8
    BY <1>1, <1>3, <2>2
  <2> QED
    BY <1>3, <2>1, <2>2
<1>4. CASE s = 32
  <2>1. CASE n = 4
    BY <1>1, <1>4, <2>1
  <2>2. CASE n = 8
    BY <1>1, <1>4, <2>2
  <2>3. CASE n = 16
    BY <1>1, <1>4, <2>3
  <2> QED
    BY <1>4, <2>1, <2>2, <2>3
<1>5. CASE s = 64
  <2>1. CASE n = 4
    BY <1>1, <1>5, <2>1
  <2>2. CASE n = 8
    BY <1>1, <1>5, <2>2
  <2>3. CASE n = 16
    BY <1>1, <1>5, <2>3
  <2>4. CASE n = 32
    BY <1>1, <1>5, <2>4
  <2> QED
    BY <1>5, <2>1, <2>2, <2>3, <2>4
<1>6. s \in {8, 16, 32, 64}
  BY DEF Sizes
<1> QED
  BY <1>2, <1>3, <1>4, <1>5, <1>6

\* The bytes of constant m are bytes of constant n, where it lies.
Holds(n, m) ==
  /\ n.offset <= m.offset /\ m.offset + m.size <= n.offset + n.size
  /\ \A j \in 0 .. m.size - 1 : ByteOf(m, j) = ByteOf(n, m.offset + j - n.offset)

\* A node for a piece says rightly where the piece is.
LEMMA PartsAreHeld ==
  ASSUME NEW c \in Constants, NEW offset \in Nat, offset % c.size = 0,
         NEW o, o.size = c.size, o.data = c.data, o.offset = offset,
         NEW m \in SharedNodes(c, offset)
  PROVE  /\ m.size \in Sizes /\ m.size < c.size /\ m.shared = TRUE
         /\ m.offset \in Nat /\ m.offset % m.size = 0
         /\ Holds(o, m)
<1>1. PICK n \in PartSizes(c) : \E k \in 1 .. c.size \div n :
        m = Node(n, Part(c, n, k), offset + (k - 1) * n, TRUE)
  BY DEF SharedNodes
<1>2. PICK k \in 1 .. c.size \div n : m = Node(n, Part(c, n, k), offset + (k - 1) * n, TRUE)
  BY <1>1
<1>3. c.size \in Sizes /\ n \in LongPartSizes /\ n < c.size
  BY ConstantsAssumption DEF PartSizes, LongPartSizes
<1>14. PartFits(c.size, n, k)
  BY <1>3, PartArithmetic
<1>4. PICK b \in Nat : b = (k - 1) * n
  BY <1>14 DEF PartFits
<1>5. PICK w \in Nat : w = Words(n)
  BY <1>14 DEF PartFits
<1>6. PICK q \in Nat : q = (k - 1) * w
  BY <1>5, <1>14 DEF PartFits
<1>7. /\ b + n <= c.size /\ k * w = q + w /\ q + w <= Words(c.size)
      /\ (offset + b) % n = 0
  <2>1. /\ (k - 1) * n + n <= c.size /\ (k - 1) * Words(n) + Words(n) <= Words(c.size)
        /\ k * Words(n) = (k - 1) * Words(n) + Words(n)
        /\ \A o2 \in Nat : o2 % c.size = 0 => (o2 + (k - 1) * n) % n = 0
    BY <1>14, Zenon DEF PartFits
  <2>2. (offset + (k - 1) * n) % n = 0
    BY <2>1, Zenon
  <2> QED
    BY <1>4, <1>5, <1>6, <2>1, <2>2, Zenon
<1>8. ASSUME NEW j \in 0 .. n - 1
      PROVE  /\ j \div WordSize + 1 \in 1 .. w
             /\ (b + j) \div WordSize = q + j \div WordSize
             /\ (b + j) % WordSize = j % WordSize
  <2>1. /\ j \div WordSize + 1 \in 1 .. Words(n)
        /\ ((k - 1) * n + j) \div WordSize = (k - 1) * Words(n) + j \div WordSize
        /\ ((k - 1) * n + j) % WordSize = j % WordSize
    BY <1>14, Zenon DEF PartFits
  <2> QED
    BY <1>4, <1>5, <1>6, <2>1, Zenon
<1>9. /\ m.size = n /\ m.data = SubSeq(c.data, q + 1, q + w)
      /\ m.offset = offset + b /\ m.shared = TRUE
  BY <1>2, <1>4, <1>5, <1>6, <1>7 DEF Node, Part
<1>10. ASSUME NEW x \in 1 .. w PROVE m.data[x] = c.data[q + x]
  <2>1. c.data \in Seq(Range(c.data)) /\ Len(c.data) = Words(c.size)
    BY ConstantsAssumption
  <2>2. \A i \in 1 .. Len(c.data) : c.data[i] \in Range(c.data)
    BY <2>1, ElementOfSeq
  <2>3. \A i \in q + 1 .. q + w : i \in 1 .. Len(c.data)
    <3>1. PICK l \in Nat : l = Len(c.data)
      BY <2>1, LenProperties
    <3> QED
      BY <1>7, <2>1, <3>1
  <2>4. /\ q + 1 \in Int /\ q + w \in Int
        /\ \A i \in q + 1 .. q + w : c.data[i] \in Range(c.data)
    BY <2>2, <2>3
  <2>5. \A i \in 1 .. (q + w) - (q + 1) + 1 : SubSeq(c.data, q + 1, q + w)[i] = c.data[(q + 1) + i - 1]
    BY <2>4, SubSeqProperties
  <2>6. x \in 1 .. (q + w) - (q + 1) + 1 /\ (q + 1) + x - 1 = q + x
    OBVIOUS
  <2> QED
    BY <1>9, <2>5, <2>6
<1>11. n \in Nat /\ n >= WordSize /\ c.size \in Nat /\ c.size >= WordSize
  BY <1>3 DEF WordSize, Sizes, LongPartSizes
<1>12. Holds(o, m)
  <2>1. o.offset <= m.offset /\ m.offset + m.size <= o.offset + o.size
    BY <1>7, <1>9, <1>11
  <2>2. ASSUME NEW j \in 0 .. n - 1
        PROVE  ByteOf(m, j) = ByteOf(o, m.offset + j - o.offset)
    <3>1. m.offset + j - o.offset = b + j
      BY <1>9
    <3>2. ByteOf(m, j) = <<m.data[j \div WordSize + 1], j % WordSize>>
      <4>1. ~(m.size < WordSize)
        BY <1>9, <1>11 DEF WordSize
      <4> QED
        BY <4>1, Zenon DEF ByteOf
    <3>3. ByteOf(o, b + j) = <<c.data[(b + j) \div WordSize + 1], (b + j) % WordSize>>
      <4>1. ~(o.size < WordSize)
        BY <1>11 DEF WordSize
      <4> QED
        BY <4>1, Zenon DEF ByteOf
    <3>4. PICK d \in Nat : d = j \div WordSize /\ d + 1 \in 1 .. w
      BY <1>8 DEF WordSize
    <3>5. (b + j) \div WordSize = q + d /\ (b + j) % WordSize = j % WordSize
      BY <1>8, <3>4
    <3>6. m.data[d + 1] = c.data[q + (d + 1)] /\ q + (d + 1) = q + d + 1
      BY <1>10, <3>4
    <3> QED
      BY <3>1, <3>2, <3>3, <3>4, <3>5, <3>6
  <2> QED
    BY <2>1, <2>2, <1>9 DEF Holds
<1>13. m.size \in Sizes /\ m.size < c.size
  BY <1>3, <1>9 DEF Sizes, LongPartSizes
<1> QED
  BY <1>7, <1>9, <1>12, <1>13

-------------------------------------------------------------------------------
(* The inductive invariant *)

NodeFits(n) ==
  /\ n.size \in Sizes /\ n.offset \in Nat /\ n.shared \in BOOLEAN
  /\ n.offset % n.size = 0 /\ n.offset + n.size <= size
  /\ n.size <= alignment

\* The constants stored and the gaps share the pool between them.
SpaceInv ==
  /\ size \in Nat /\ alignment \in Sizes \cup {0}
  /\ Cut(gaps, 0, size)
  /\ \A n \in nodes : NodeFits(n)
  /\ \A n \in Owners : ClearOf(gaps, n)
  /\ \A m \in Owners, n \in Owners : m = n \/ Apart(m, n)

\* Whatever has a node is stored where the node says.
ContentInv == \A m \in nodes : \E n \in Owners : Holds(n, m)

PoolInv == SpaceInv /\ ContentInv

\* The first state.
LEMMA InitPool == Init => PoolInv
<1> SUFFICES ASSUME Init PROVE PoolInv
  OBVIOUS
<1>1. gaps = NoGaps
  BY DEF Init, NoGaps
<1>2. nodes = {} /\ Owners = {} /\ size = 0 /\ alignment = 0
  BY DEF Init, Owners
<1>3. Cut(gaps, 0, size)
  BY <1>1, NoGapsCut
<1> QED
  BY <1>2, <1>3 DEF PoolInv, SpaceInv, ContentInv

\* reset().
LEMMA ResetPool == Reset => PoolInv'
<1> SUFFICES ASSUME Reset PROVE PoolInv'
  OBVIOUS
<1>1. gaps' = NoGaps
  BY DEF Reset, NoGaps
<1>2. nodes' = {} /\ Owners' = {} /\ size' = 0 /\ alignment' = 0
  BY DEF Reset, Owners
<1>3. Cut(gaps', 0, size')
  BY <1>1, NoGapsCut
<1> QED
  BY <1>2, <1>3 DEF PoolInv, SpaceInv, ContentInv

\* A place that is lost leaves the rest as it was.
LEMMA AddOutOfMemoryPool ==
  ASSUME PoolInv, NEW c \in Constants, AddOutOfMemory(c)
  PROVE  PoolInv'
<1>1. PICK stop \in Stops(c) :
        /\ gaps' = PlaceOf(c.size, stop).gaps /\ size' = PlaceOf(c.size, stop).size
        /\ UNCHANGED <<nodes, alignment>>
  BY DEF AddOutOfMemory
<1> DEFINE p == PlaceOf(c.size, stop)
<1>2. GoodPlace(p, c.size)
  BY PlaceIsGood, ConstantsAssumption DEF PoolInv, SpaceInv
<1>3. gaps' = p.gaps /\ size' = p.size /\ nodes' = nodes /\ alignment' = alignment
  BY <1>1
<1> HIDE DEF p
<1>4. Owners' = Owners /\ \A n \in Owners : n \in nodes
  BY <1>3 DEF Owners
<1>5. size' \in Nat /\ size <= size' /\ Cut(gaps', 0, size') /\ size \in Nat
  BY <1>2, <1>3 DEF GoodPlace, PoolInv, SpaceInv
<1>6. ASSUME NEW n \in nodes PROVE NodeFits(n)'
  <2>1. NodeFits(n)
    BY DEF PoolInv, SpaceInv
  <2> QED
    BY <1>3, <1>5, <2>1 DEF NodeFits, Sizes
<1>7. ASSUME NEW n \in Owners PROVE ClearOf(gaps', n)
  <2>1. NodeFits(n) /\ ClearOf(gaps, n)
    BY <1>4 DEF PoolInv, SpaceInv
  <2>2. n.offset \in Nat /\ n.size \in Nat /\ n.offset + n.size <= size
    BY <2>1 DEF NodeFits, Sizes
  <2> QED
    BY <1>2, <1>3, <2>1, <2>2 DEF GoodPlace
<1>8. SpaceInv'
  BY <1>3, <1>4, <1>5, <1>6, <1>7 DEF PoolInv, SpaceInv
<1>9. ContentInv'
  BY <1>3, <1>4 DEF PoolInv, ContentInv
<1> QED
  BY <1>8, <1>9 DEF PoolInv

\* A new constant is clear of all others, its pieces lie in it.
LEMMA AddNewPool ==
  ASSUME PoolInv, NEW c \in Constants, AddNew(c)
  PROVE  PoolInv'
<1>1. PICK stop \in Stops(c) :
        /\ nodes' = nodes \cup {Node(c.size, c.data, PlaceOf(c.size, stop).offset, FALSE)}
                          \cup SharedNodes(c, PlaceOf(c.size, stop).offset)
        /\ gaps' = PlaceOf(c.size, stop).gaps /\ size' = PlaceOf(c.size, stop).size
        /\ alignment' = Max({alignment, c.size})
  BY DEF AddNew
<1> DEFINE p == PlaceOf(c.size, stop)
           o == Node(c.size, c.data, p.offset, FALSE)
<1>2. GoodPlace(p, c.size)
  BY PlaceIsGood, ConstantsAssumption DEF PoolInv, SpaceInv
<1>3. /\ nodes' = nodes \cup {o} \cup SharedNodes(c, p.offset)
      /\ gaps' = p.gaps /\ size' = p.size
  BY <1>1
<1>4. c.size \in Sizes /\ c.size \in Nat /\ c.size > 0
  BY ConstantsAssumption DEF Sizes
<1> HIDE DEF p
<1>5. o.size = c.size /\ o.data = c.data /\ o.offset = p.offset /\ o.shared = FALSE
  BY DEF Node
<1> HIDE DEF o
<1>6. ASSUME NEW m \in SharedNodes(c, p.offset)
      PROVE  /\ m.size \in Sizes /\ m.size < c.size /\ m.shared = TRUE
             /\ m.offset \in Nat /\ m.offset % m.size = 0 /\ Holds(o, m)
  <2>1. p.offset \in Nat /\ p.offset % c.size = 0
    BY <1>2 DEF GoodPlace
  <2> QED
    BY <1>5, <2>1, PartsAreHeld
<1>7. alignment' \in Sizes \cup {0} /\ alignment <= alignment' /\ c.size <= alignment'
      /\ alignment \in Nat /\ alignment' \in Nat
  <2>1. alignment \in Sizes \cup {0} /\ alignment \in Nat
    BY DEF PoolInv, SpaceInv, Sizes
  <2>2. PICK k \in Nat : alignment <= k /\ c.size <= k
    <3>1. alignment <= alignment + c.size /\ c.size <= alignment + c.size /\ alignment + c.size \in Nat
      BY <1>4, <2>1
    <3> QED
      BY <3>1
  <2> DEFINE S == {alignment, c.size}
  <2>3. S \in SUBSET Nat /\ S # {} /\ \A y \in S : y <= k
    BY <1>4, <2>1, <2>2
  <2>4. alignment' = Max(S)
    BY <1>1
  <2> HIDE DEF S
  <2>5. Max(S) \in S /\ \A y \in S : y <= Max(S)
    BY <2>3, MaxOfNats
  <2> USE DEF S
  <2> QED
    BY <1>4, <2>1, <2>4, <2>5
<1>8. size' \in Nat /\ size <= size' /\ Cut(gaps', 0, size') /\ size \in Nat
  BY <1>2, <1>3 DEF GoodPlace, PoolInv, SpaceInv
<1>9. Owners' = Owners \cup {o} /\ \A n \in Owners : n \in nodes
  BY <1>3, <1>5, <1>6 DEF Owners
<1>10. ASSUME NEW n \in nodes' PROVE NodeFits(n)'
  <2>1. CASE n \in nodes
    <3>1. NodeFits(n)
      BY <2>1 DEF PoolInv, SpaceInv
    <3> QED
      BY <1>7, <1>8, <3>1 DEF NodeFits, Sizes
  <2>2. CASE n = o
    BY <1>2, <1>3, <1>4, <1>5, <1>7, <2>2 DEF NodeFits, GoodPlace
  <2>3. CASE n \in SharedNodes(c, p.offset)
    <3>1. /\ n.size \in Sizes /\ n.size < c.size /\ n.shared = TRUE
          /\ n.offset \in Nat /\ n.offset % n.size = 0
          /\ n.offset + n.size <= o.offset + o.size
      BY <1>6, <2>3 DEF Holds
    <3>2. n.offset + n.size <= size'
      <4>1. o.offset \in Nat /\ o.offset + c.size <= size'
        BY <1>2, <1>3, <1>5 DEF GoodPlace
      <4> QED
        BY <1>4, <1>5, <1>8, <3>1, <4>1 DEF Sizes
    <3>3. n.size <= alignment'
      BY <1>4, <1>7, <3>1 DEF Sizes
    <3> QED
      BY <3>1, <3>2, <3>3 DEF NodeFits
  <2> QED
    BY <1>3, <2>1, <2>2, <2>3
<1>11. ASSUME NEW n \in Owners
       PROVE  ClearOf(gaps', n) /\ Apart(n, o) /\ Apart(o, n)
  <2>1. NodeFits(n) /\ ClearOf(gaps, n)
    BY <1>9 DEF PoolInv, SpaceInv
  <2>2. n.offset \in Nat /\ n.size \in Nat /\ n.offset + n.size <= size
    BY <2>1 DEF NodeFits, Sizes
  <2>3. /\ ClearOf(gaps', n) /\ Apart(n, [offset |-> p.offset, size |-> c.size])
        /\ Apart([offset |-> p.offset, size |-> c.size], n)
    BY <1>2, <1>3, <2>1, <2>2 DEF GoodPlace
  <2> QED
    BY <1>5, <2>3 DEF Apart
<1>12. ClearOf(gaps', o)
  <2>1. ClearOf(gaps', [offset |-> p.offset, size |-> c.size])
    BY <1>2, <1>3 DEF GoodPlace
  <2> QED
    BY <1>5, <2>1 DEF ClearOf, Apart
<1>13. \A m \in Owners', n \in Owners' : m = n \/ Apart(m, n)
  BY <1>9, <1>11 DEF PoolInv, SpaceInv
<1>14. SpaceInv'
  BY <1>7, <1>8, <1>9, <1>10, <1>11, <1>12, <1>13 DEF SpaceInv
<1>15. ContentInv'
  <2> SUFFICES ASSUME NEW m \in nodes' PROVE \E n \in Owners' : Holds(n, m)
    BY DEF ContentInv, Holds, ByteOf
  <2>1. CASE m \in nodes
    BY <1>9, <2>1 DEF PoolInv, ContentInv
  <2>2. CASE m = o
    <3>1. Holds(o, o)
      <4>1. o.offset \in Nat
        BY <1>2, <1>5 DEF GoodPlace
      <4>2. \A j \in 0 .. o.size - 1 : o.offset + j - o.offset = j
        BY <1>4, <1>5, <4>1
      <4>3. o.offset <= o.offset /\ o.offset + o.size <= o.offset + o.size
        BY <1>4, <1>5, <4>1
      <4> QED
        BY <4>2, <4>3 DEF Holds
    <3> QED
      BY <1>9, <2>2, <3>1
  <2>3. CASE m \in SharedNodes(c, p.offset)
    BY <1>6, <1>9, <2>3
  <2> QED
    BY <1>3, <2>1, <2>2, <2>3
<1> QED
  BY <1>14, <1>15 DEF PoolInv

\* The inductive invariant of the space of the pool: what is stored, what is free
\* and what the nodes say of it.
THEOREM PoolInvariant == Spec => []PoolInv
<1>1. PoolInv /\ [Next]_vars => PoolInv'
  <2> SUFFICES ASSUME PoolInv, [Next]_vars PROVE PoolInv'
    OBVIOUS
  <2>1. ASSUME NEW c \in Constants, AddKnown(c) PROVE PoolInv'
    BY <2>1 DEF AddKnown, PoolInv, SpaceInv, ContentInv, Owners, NodeFits
  <2>2. ASSUME NEW c \in Constants, AddNew(c) PROVE PoolInv'
    BY <2>2, AddNewPool
  <2>3. ASSUME NEW c \in Constants, AddOutOfMemory(c) PROVE PoolInv'
    BY <2>3, AddOutOfMemoryPool
  <2>4. CASE Reset
    BY <2>4, ResetPool
  <2>5. CASE UNCHANGED vars
    BY <2>5 DEF vars, PoolInv, SpaceInv, ContentInv, Owners, NodeFits
  <2> QED
    BY <2>1, <2>2, <2>3, <2>4, <2>5 DEF Next
<1> QED
  BY <1>1, InitPool, PTL DEF Spec

\* Spans that end one before the other have no byte in common.
LEMMA ApartSpans ==
  ASSUME NEW a, NEW b, a.offset \in Nat, a.size \in Nat, b.offset \in Nat, b.size \in Nat,
         Apart(a, b)
  PROVE  Span(a) \cap Span(b) = {}
BY DEF Apart, Span

\* Constants stored and gaps share no byte and lie inside the pool; a constant
\* fits the gap it is given.
THEOREM SpaceIsSound == Spec => []SpaceSound
<1>1. PoolInv => SpaceSound
  <2> SUFFICES ASSUME PoolInv PROVE SpaceSound
    OBVIOUS
  <2>1. \A n \in Owners : n.offset \in Nat /\ n.size \in Nat
    BY DEF PoolInv, SpaceInv, NodeFits, Owners, Sizes
  <2>2. \A i \in Indexes : \A k \in 1 .. Len(gaps[i]) :
          gaps[i][k] \in Gaps /\ gaps[i][k].offset \in Nat /\ gaps[i][k].size \in Nat
    <3> SUFFICES ASSUME NEW i \in Indexes, NEW k \in 1 .. Len(gaps[i])
                 PROVE  gaps[i][k] \in Gaps
      BY DEF Gaps
    <3> QED
      BY ElementOfSeq DEF PoolInv, SpaceInv, Cut, GapLists
  <2>3. ASSUME NEW g \in AllGaps
        PROVE  \E i \in Indexes : \E k \in 1 .. Len(gaps[i]) :
                 g = <<i, k>> /\ GapAt(g) = gaps[i][k]
    <3>1. PICK i \in Indexes : g \in {<<i, k>> : k \in DOMAIN gaps[i]}
      BY DEF AllGaps
    <3>2. PICK k \in DOMAIN gaps[i] : g = <<i, k>>
      BY <3>1
    <3>3. DOMAIN gaps[i] = 1 .. Len(gaps[i])
      BY LenProperties DEF PoolInv, SpaceInv, Cut, GapLists
    <3> QED
      BY <3>2, <3>3 DEF GapAt
  <2>4. ASSUME NEW m \in Owners, NEW n \in Owners, m # n
        PROVE  Span(m) \cap Span(n) = {}
    <3>1. Apart(m, n)
      BY <2>4 DEF PoolInv, SpaceInv
    <3> QED
      BY <2>1, <3>1, ApartSpans
  <2>5. ASSUME NEW g \in AllGaps
        PROVE  /\ GapAt(g).size = 2 ^ g[1] /\ GapAt(g).offset % GapAt(g).size = 0
               /\ GapAt(g).offset + GapAt(g).size <= size
               /\ \A n \in Owners : Span(n) \cap Span(GapAt(g)) = {}
               /\ \A h \in AllGaps : g # h => Span(GapAt(g)) \cap Span(GapAt(h)) = {}
    <3>1. PICK i \in Indexes : \E k \in 1 .. Len(gaps[i]) : g = <<i, k>> /\ GapAt(g) = gaps[i][k]
      BY <2>3
    <3>2. PICK k \in 1 .. Len(gaps[i]) : g = <<i, k>> /\ GapAt(g) = gaps[i][k]
      BY <3>1
    <3>3. /\ GapAt(g).size = 2 ^ i /\ GapAt(g).offset % GapAt(g).size = 0
          /\ GapAt(g).offset + GapAt(g).size <= size /\ g[1] = i
      BY <3>2 DEF PoolInv, SpaceInv, Cut, GapsFit
    <3>4. ASSUME NEW n \in Owners PROVE Span(n) \cap Span(GapAt(g)) = {}
      <4>1. Apart(n, gaps[i][k])
        BY DEF PoolInv, SpaceInv, ClearOf
      <4> QED
        BY <2>1, <2>2, <3>2, <4>1, ApartSpans
    <3>5. ASSUME NEW h \in AllGaps, g # h PROVE Span(GapAt(g)) \cap Span(GapAt(h)) = {}
      <4>1. PICK j \in Indexes : \E l \in 1 .. Len(gaps[j]) : h = <<j, l>> /\ GapAt(h) = gaps[j][l]
        BY <2>3
      <4>2. PICK l \in 1 .. Len(gaps[j]) : h = <<j, l>> /\ GapAt(h) = gaps[j][l]
        BY <4>1
      <4>3. Apart(gaps[i][k], gaps[j][l])
        BY <3>2, <3>5, <4>2 DEF PoolInv, SpaceInv, Cut, GapsApart
      <4> QED
        BY <2>2, <3>2, <4>2, <4>3, ApartSpans
    <3> QED
      BY <3>3, <3>4, <3>5
  <2> QED
    BY <2>4, <2>5 DEF SpaceSound
<1> QED
  BY <1>1, PoolInvariant, PTL

\* Whatever a user was told holds: the filled pool has the constant there, and
\* it is aligned where the pool is.
THEOREM AnswersAreTrue == Spec => []AnswersHold
<1>1. PoolInv /\ LookupInv => AnswersHold
  <2> SUFFICES ASSUME PoolInv, LookupInv, NEW a \in answers
               PROVE  /\ a.offset + a.size <= size
                      /\ a.offset % a.size = 0 /\ alignment % a.size = 0
                      /\ \A j \in 0 .. a.size - 1 : Filled(a.offset + j) = {ByteOf(a, j)}
    BY DEF AnswersHold
  <2>1. PICK m \in nodes : m.size = a.size /\ m.data = a.data /\ m.offset = a.offset
    BY DEF LookupInv, AnswersKnown
  <2>2. NodeFits(m)
    BY DEF PoolInv, SpaceInv
  <2>3. PICK n \in Owners : Holds(n, m)
    BY DEF PoolInv, ContentInv
  <2>4. NodeFits(n)
    BY DEF PoolInv, SpaceInv, Owners
  <2>5. alignment % a.size = 0
    <3>1. alignment \in Sizes /\ a.size \in Sizes /\ a.size <= alignment
      BY <2>1, <2>2 DEF PoolInv, SpaceInv, NodeFits, Sizes
    <3> QED
      BY <3>1 DEF Sizes
  <2>6. ASSUME NEW j \in 0 .. a.size - 1
        PROVE  Filled(a.offset + j) = {ByteOf(a, j)}
    <3>1. PICK o \in Nat : o = a.offset + j
      BY <2>1, <2>2 DEF NodeFits, Sizes
    <3>2. o \in Span(n)
      <4>1. n.offset <= a.offset /\ a.offset + a.size <= n.offset + n.size
        BY <2>1, <2>3 DEF Holds
      <4>2. n.offset \in Nat /\ n.size \in Nat /\ a.offset \in Nat /\ a.size \in Nat
        BY <2>1, <2>2, <2>4 DEF NodeFits, Sizes
      <4> QED
        BY <3>1, <4>1, <4>2 DEF Span
    <3>3. ASSUME NEW k \in Owners, o \in Span(k) PROVE k = n
      <4>1. NodeFits(k)
        BY DEF PoolInv, SpaceInv, Owners
      <4>2. CASE Apart(k, n)
        <5>1. Span(k) \cap Span(n) = {}
          BY <2>4, <4>1, <4>2, ApartSpans DEF NodeFits, Sizes
        <5> QED
          BY <3>2, <3>3, <5>1
      <4> QED
        BY <4>2 DEF PoolInv, SpaceInv
    <3>4. {k \in Owners : o \in Span(k)} = {n}
      BY <3>2, <3>3
    <3>5. Filled(o) = {ByteOf(n, o - n.offset)}
      BY <3>4, Zenon DEF Filled
    <3>6. ByteOf(m, j) = ByteOf(n, m.offset + j - n.offset)
      BY <2>1, <2>3 DEF Holds
    <3>7. ByteOf(m, j) = ByteOf(a, j)
      BY <2>1, Zenon DEF ByteOf
    <3>8. m.offset + j = o /\ a.offset + j = o
      BY <2>1, <3>1
    <3>9. ByteOf(n, o - n.offset) = ByteOf(a, j)
      <4>1. m.offset + j - n.offset = o - n.offset
        BY <2>2, <2>4, <3>8 DEF NodeFits
      <4> QED
        BY <3>6, <3>7, <4>1
    <3> QED
      BY <3>5, <3>8, <3>9, Zenon
  <2> QED
    BY <2>1, <2>2, <2>5, <2>6 DEF NodeFits
<1> QED
  BY <1>1, PoolInvariant, LookupInvariant, PTL
===============================================================================
