--------------------------- MODULE CodeHolder_proofs ---------------------------
(***************************************************************************)
(* Proofs about CodeHolder, for any number of sections, labels, fields and *)
(* relocation entries, any base addresses and any reach of a displacement. *)
(*                                                                         *)
(* The inductive invariant IInv has four parts.                            *)
(*                                                                         *)
(*   CoreInv    types, and that what refers to something refers to         *)
(*              something there is                                         *)
(*   LayoutInv  where sections are: only .text has a place before          *)
(*              flatten(), every section ends where the next one starts    *)
(*              after it, and .addrtab has room for all listed addresses   *)
(*   RefInv     what fixups and entries are for: each one fills a field    *)
(*              that means what it is about, a field is empty as long as   *)
(*              something is to fill it, and the counter counts the fields *)
(*              that fixups wait for                                       *)
(*   ValueInv   a field that is not empty holds the value its meaning asks *)
(*              for, as far as positions are known                         *)
(*                                                                         *)
(* Every action is first shown to be one of the steps of Steps, each of    *)
(* which says what happens to every section, label, field, fixup and       *)
(* entry; the parts of the invariant are then shown to survive the steps.  *)
(***************************************************************************)
EXTENDS CodeHolder, NatSetTheorems, SequenceTheorems, FiniteSetTheorems, TLAPS

-------------------------------------------------------------------------------
(* Types *)

SectionType ==
  [alignment : Nat \ {0}, order : TextOrder .. TableOrder, offset : Nat \cup {NoOffset},
   virtual_size : Nat, size : Nat]

Kinds == {"label", "address", "pointer", "distance"}

FieldType ==
  [section : Nat, at : Nat, size : {1, 4, AddressSize},
   meaning : [kind : Kinds, to : Nat, from : Nat], value : SUBSET Int,
   base : Nat \cup {NoBase}, indirect : BOOLEAN]

FixupType == [field : Nat, rel : Int, label_or_reloc_id : Nat]

LabelType == [section : Nat, offset : Nat, fixups : SUBSET FixupType]

RelocKinds == {"RelToAbs", "Expression", "AbsToRel", "X64AddressEntry"}

RelocType == [kind : RelocKinds, field : Nat, lead : Nat, payload : Nat, target : Nat]

\* Sequence t is s with x at its end.
Appended(s, t, x) ==
  /\ Len(s) + 1 \notin DOMAIN s
  /\ DOMAIN t = DOMAIN s \cup {Len(s) + 1}
  /\ \A i \in DOMAIN s : t[i] = s[i]
  /\ t[Len(s) + 1] = x

\* Append() puts x at the end.
LEMMA AppendIsAppended ==
  ASSUME NEW S, NEW s \in Seq(S), NEW x \in S
  PROVE  /\ Append(s, x) \in Seq(S) /\ Appended(s, Append(s, x), x)
         /\ Len(Append(s, x)) = Len(s) + 1
<1> DEFINE t == Append(s, x)
<1>1. PICK n \in Nat : n = Len(s)
  BY LenProperties
<1>2. t \in Seq(S) /\ Len(t) = n + 1 /\ t[n + 1] = x /\ \A k \in 1 .. n : t[k] = s[k]
  <2>1. t \in Seq(S) /\ Len(t) = Len(s) + 1 /\ t[Len(s) + 1] = x /\ \A k \in 1 .. Len(s) : t[k] = s[k]
    BY AppendProperties
  <2> QED
    BY <1>1, <2>1
<1> HIDE DEF t
<1>3. DOMAIN s = 1 .. n /\ DOMAIN t = 1 .. n + 1
  BY <1>1, <1>2, LenProperties
<1>4. 1 .. n + 1 = (1 .. n) \cup {n + 1} /\ n + 1 \notin 1 .. n
  OBVIOUS
<1> QED
  BY <1>1, <1>2, <1>3, <1>4 DEF Appended, t

-------------------------------------------------------------------------------
(* Layout *)

\* A section is as large as what it holds and what it reserves.
LEMMA RealSizeIs ==
  ASSUME NEW section \in SectionType
  PROVE  /\ RealSize(section) \in Nat
         /\ section.virtual_size <= RealSize(section) /\ section.size <= RealSize(section)
         /\ RealSize(section) \in {section.virtual_size, section.size}
<1> DEFINE S == {section.virtual_size, section.size}
           k == section.virtual_size + section.size
<1>1. section.virtual_size \in Nat /\ section.size \in Nat
  BY DEF SectionType
<1>2. S \in SUBSET Nat /\ S # {} /\ k \in Nat /\ \A y \in S : y <= k
  BY <1>1
<1>3. RealSize(section) = Max(S)
  BY DEF RealSize
<1> HIDE DEF S, k
<1>4. Max(S) \in S /\ \A y \in S : y <= Max(S)
  BY <1>2, MaxOfNats
<1> USE DEF S
<1> QED
  BY <1>1, <1>3, <1>4

\* A section starts behind the one before it, aligned.
LEMMA StartAfterIs ==
  ASSUME NEW end \in Nat, NEW section \in SectionType
  PROVE  /\ StartAfter(end, section) \in Nat /\ StartAfter(end, section) >= end
         /\ RealSize(section) # 0 => StartAfter(end, section) % section.alignment = 0
         /\ section.alignment = 1 => StartAfter(end, section) = end
<1>1. PICK a \in Nat \ {0} : a = section.alignment
  BY DEF SectionType
<1>2. AlignUp(end, a) \in Nat
  BY DEF AlignUp
<1>3. AlignUp(end, a) >= end
  BY DEF AlignUp
<1>4. AlignUp(end, a) % a = 0
  BY DEF AlignUp
<1>5. a = 1 => AlignUp(end, a) = end
  BY DEF AlignUp
<1> QED
  BY <1>1, <1>2, <1>3, <1>4, <1>5 DEF StartAfter

\* One step of the recursion of LayoutEnd.
EndStep(f, k, secs, by) ==
  IF k = 0 THEN 0
  ELSE LET section == secs[by[k]]
       IN  StartAfter(f[k - 1], section) + RealSize(section)

IsLayout(f, n, secs, by) == f = [k \in 0 .. n |-> EndStep(f, k, secs, by)]

\* The recursion of LayoutEnd has a solution,
LEMMA LayoutExists ==
  ASSUME NEW n \in Nat, NEW secs, NEW by
  PROVE  \E f : IsLayout(f, n, secs, by)
<1> DEFINE Has == {k \in Nat : \E f : IsLayout(f, k, secs, by)}
<1>1. 0 \in Has
  <2> DEFINE f == [k \in 0 .. 0 |-> 0]
  <2>1. \A k \in 0 .. 0 : EndStep(f, k, secs, by) = 0
    BY DEF EndStep
  <2>2. IsLayout(f, 0, secs, by)
    BY <2>1 DEF IsLayout
  <2> QED
    BY <2>2
<1>2. ASSUME NEW k \in Nat, k \in Has PROVE k + 1 \in Has
  <2>1. PICK f : IsLayout(f, k, secs, by)
    BY <1>2
  <2> DEFINE h == [m \in 0 .. k + 1 |-> IF m = k + 1 THEN EndStep(f, k + 1, secs, by) ELSE f[m]]
  <2>2. \A m \in 0 .. k : h[m] = f[m]
    OBVIOUS
  <2>3. h[k + 1] = EndStep(f, k + 1, secs, by)
    OBVIOUS
  <2>4. h = [m \in 0 .. k + 1 |-> h[m]]
    OBVIOUS
  <2> HIDE DEF h
  <2>5. ASSUME NEW m \in 0 .. k + 1 PROVE EndStep(h, m, secs, by) = EndStep(f, m, secs, by)
    <3>1. CASE m = 0
      BY <3>1 DEF EndStep
    <3>2. CASE m # 0
      <4>1. m - 1 \in 0 .. k
        BY <3>2
      <4>2. h[m - 1] = f[m - 1]
        BY <2>2, <4>1
      <4> QED
        BY <4>2 DEF EndStep
    <3> QED
      BY <3>1, <3>2
  <2>6. ASSUME NEW m \in 0 .. k + 1 PROVE h[m] = EndStep(h, m, secs, by)
    <3>1. CASE m = k + 1
      BY <2>3, <2>5, <3>1
    <3>2. CASE m # k + 1
      <4>1. m \in 0 .. k
        BY <3>2
      <4>2. f[m] = EndStep(f, m, secs, by)
        BY <2>1, <4>1 DEF IsLayout
      <4> QED
        BY <2>2, <2>5, <4>1, <4>2
    <3> QED
      BY <3>1, <3>2
  <2>7. IsLayout(h, k + 1, secs, by)
    BY <2>4, <2>6 DEF IsLayout
  <2> QED
    BY <2>7
<1> HIDE DEF Has
<1>3. Inductive(Has)
  BY <1>1, <1>2 DEF Inductive
<1>4. n \in Has
  BY <1>3, InductiveHasNat
<1> QED
  BY <1>4 DEF Has

\* and only one,
LEMMA LayoutIsUnique ==
  ASSUME NEW m \in Nat, NEW n \in Nat, m <= n, NEW secs, NEW by, NEW f, NEW g,
         IsLayout(f, m, secs, by), IsLayout(g, n, secs, by)
  PROVE  \A k \in 0 .. m : f[k] = g[k]
<1> DEFINE Same == {k \in Nat : k <= m => f[k] = g[k]}
<1>1. \A k \in 0 .. m : f[k] = EndStep(f, k, secs, by) /\ g[k] = EndStep(g, k, secs, by)
  <2>1. \A k \in 0 .. m : k \in 0 .. n
    OBVIOUS
  <2>2. \A k \in 0 .. m : f[k] = EndStep(f, k, secs, by)
    BY DEF IsLayout
  <2>3. \A k \in 0 .. n : g[k] = EndStep(g, k, secs, by)
    BY DEF IsLayout
  <2> QED
    BY <2>1, <2>2, <2>3
<1>2. 0 \in Same
  BY <1>1 DEF EndStep
<1>3. ASSUME NEW k \in Nat, k \in Same PROVE k + 1 \in Same
  <2> SUFFICES ASSUME k + 1 <= m PROVE f[k + 1] = g[k + 1]
    OBVIOUS
  <2>1. f[k] = g[k] /\ (k + 1) - 1 = k /\ k + 1 \in 0 .. m /\ k + 1 # 0
    BY <1>3
  <2>2. EndStep(f, k + 1, secs, by) = EndStep(g, k + 1, secs, by)
    BY <2>1 DEF EndStep
  <2> QED
    BY <1>1, <2>1, <2>2
<1> HIDE DEF Same
<1>4. Inductive(Same)
  BY <1>2, <1>3 DEF Inductive
<1>5. \A k \in 0 .. m : k \in Same
  BY <1>4, InductiveHasNat
<1> QED
  BY <1>5 DEF Same

\* which is what LayoutEnd takes its value from.
LEMMA LayoutEndIsChosen ==
  ASSUME NEW n \in Nat, NEW secs, NEW by
  PROVE  \E f : IsLayout(f, n, secs, by) /\ LayoutEnd(secs, by, n) = f[n]
<1>1. LayoutEnd(secs, by, n) = (CHOOSE f : IsLayout(f, n, secs, by))[n]
  BY DEF LayoutEnd, IsLayout, EndStep
<1> QED
  BY <1>1, LayoutExists

\* The recursion LayoutEnd stands for.
LEMMA LayoutEndIs ==
  ASSUME NEW secs, NEW by
  PROVE  /\ LayoutEnd(secs, by, 0) = 0
         /\ \A k \in Nat : LayoutEnd(secs, by, k + 1) =
                             StartAfter(LayoutEnd(secs, by, k), secs[by[k + 1]])
                             + RealSize(secs[by[k + 1]])
<1>1. LayoutEnd(secs, by, 0) = 0
  <2>1. PICK f : IsLayout(f, 0, secs, by) /\ LayoutEnd(secs, by, 0) = f[0]
    BY LayoutEndIsChosen
  <2> QED
    BY <2>1 DEF IsLayout, EndStep
<1>2. ASSUME NEW k \in Nat
      PROVE  LayoutEnd(secs, by, k + 1) =
               StartAfter(LayoutEnd(secs, by, k), secs[by[k + 1]]) + RealSize(secs[by[k + 1]])
  <2>1. PICK f : IsLayout(f, k, secs, by) /\ LayoutEnd(secs, by, k) = f[k]
    BY LayoutEndIsChosen
  <2>2. PICK g : IsLayout(g, k + 1, secs, by) /\ LayoutEnd(secs, by, k + 1) = g[k + 1]
    BY LayoutEndIsChosen
  <2>3. f[k] = g[k]
    BY <2>1, <2>2, LayoutIsUnique
  <2>4. g[k + 1] = EndStep(g, k + 1, secs, by)
    BY <2>2 DEF IsLayout
  <2>5. (k + 1) - 1 = k /\ k + 1 # 0
    OBVIOUS
  <2>6. EndStep(g, k + 1, secs, by) = StartAfter(g[k], secs[by[k + 1]]) + RealSize(secs[by[k + 1]])
    BY <2>5 DEF EndStep
  <2> QED
    BY <2>1, <2>2, <2>3, <2>4, <2>6
<1> QED
  BY <1>1, <1>2

\* Where sections end is a number.
LEMMA LayoutEndIsNat ==
  ASSUME NEW secs, NEW by, NEW n \in Nat, \A k \in 1 .. n : secs[by[k]] \in SectionType
  PROVE  \A k \in 0 .. n : LayoutEnd(secs, by, k) \in Nat
<1> DEFINE Good == {k \in Nat : k <= n => LayoutEnd(secs, by, k) \in Nat}
<1>1. 0 \in Good
  BY LayoutEndIs
<1>2. ASSUME NEW k \in Nat, k \in Good PROVE k + 1 \in Good
  <2> SUFFICES ASSUME k + 1 <= n PROVE LayoutEnd(secs, by, k + 1) \in Nat
    OBVIOUS
  <2>1. k + 1 \in 1 .. n /\ LayoutEnd(secs, by, k) \in Nat
    BY <1>2
  <2>2. PICK x \in SectionType : x = secs[by[k + 1]]
    BY <2>1
  <2>3. PICK e \in Nat : e = LayoutEnd(secs, by, k)
    BY <2>1
  <2>4. StartAfter(e, x) \in Nat /\ RealSize(x) \in Nat
    BY StartAfterIs, RealSizeIs
  <2>5. LayoutEnd(secs, by, k + 1) = StartAfter(LayoutEnd(secs, by, k), secs[by[k + 1]])
                                     + RealSize(secs[by[k + 1]])
    BY LayoutEndIs, Zenon
  <2> QED
    BY <2>2, <2>3, <2>4, <2>5
<1> HIDE DEF Good
<1>3. Inductive(Good)
  BY <1>1, <1>2 DEF Inductive
<1>4. \A k \in 0 .. n : k \in Good
  BY <1>3, InductiveHasNat
<1> QED
  BY <1>4 DEF Good

-------------------------------------------------------------------------------
(* The order of the sections *)

\* by lists every section once, in their order, .text first.
Arranged(secs, by) ==
  /\ \E n \in Nat : DOMAIN secs = 1 .. n /\ by \in [1 .. n -> 1 .. n] /\ n >= 1
  /\ \A i, j \in DOMAIN by : by[i] = by[j] => i = j
  /\ \A s \in DOMAIN secs : \E k \in DOMAIN by : by[k] = s
  /\ \A i, j \in DOMAIN by : i < j => secs[by[i]].order <= secs[by[j]].order
  /\ by[1] = TextSection

\* Only the orders count.
LEMMA ArrangedSame ==
  ASSUME NEW secs, NEW new, NEW by, Arranged(secs, by),
         DOMAIN new = DOMAIN secs, \A s \in DOMAIN secs : new[s].order = secs[s].order
  PROVE  Arranged(new, by)
<1>1. \A k \in DOMAIN by : by[k] \in DOMAIN secs
  BY DEF Arranged
<1> QED
  BY <1>1, Zenon DEF Arranged

\* Sequence t is the p elements of a and then the q elements of b.
Joined(S, t, a, p, b, q) ==
  /\ t \in Seq(S) /\ Len(t) = p + q
  /\ \A k \in 1 .. p + q : t[k] = IF k <= p THEN a[k] ELSE b[k - p]

\* The concatenation of two sequences, element by element.
LEMMA ConcatIs ==
  ASSUME NEW S, NEW a \in Seq(S), NEW b \in Seq(S), NEW p \in Nat, NEW q \in Nat,
         Len(a) = p, Len(b) = q
  PROVE  Joined(S, a \o b, a, p, b, q)
<1>1. /\ a \o b \in Seq(S) /\ Len(a \o b) = Len(a) + Len(b)
      /\ \A k \in 1 .. Len(a) + Len(b) :
           (a \o b)[k] = IF k <= Len(a) THEN a[k] ELSE b[k - Len(a)]
  BY ConcatProperties, Zenon
<1> QED
  BY <1>1 DEF Joined

\* The sequence s with x after its first p elements.
Inserted(n, S, t, s, p, x) ==
  /\ t \in [1 .. n + 1 -> S]
  /\ \A k \in 1 .. n + 1 : t[k] = IF k <= p THEN s[k] ELSE IF k = p + 1 THEN x ELSE s[k - 1]

\* InsertAt() moves what is behind the new element.
LEMMA InsertAtIs ==
  ASSUME NEW n \in Nat, NEW S, NEW s \in [1 .. n -> S], NEW p \in 0 .. n, NEW x \in S
  PROVE  Inserted(n, S, InsertAt(s, p + 1, x), s, p, x)
<1> DEFINE a == SubSeq(s, 1, p)
           b == SubSeq(s, p + 1, n)
           o == << x >>
           t == (a \o o) \o b
<1>1. s \in Seq(S) /\ Len(s) = n
  <2>1. s \in Seq(S)
    BY SeqDef
  <2>2. DOMAIN s = 1 .. n /\ DOMAIN s = 1 .. Len(s) /\ Len(s) \in Nat
    BY <2>1, LenProperties
  <2> QED
    BY <2>1, <2>2
<1>2. InsertAt(s, p + 1, x) = t
  <2>1. (p + 1) - 1 = p
    OBVIOUS
  <2> QED
    BY <1>1, <2>1 DEF InsertAt
<1>3. a \in Seq(S) /\ Len(a) = p /\ \A k \in 1 .. p : a[k] = s[k]
  <2>1. 1 \in Int /\ p \in Int /\ \A k \in 1 .. p : s[k] \in S
    OBVIOUS
  <2>2. /\ a \in Seq(S) /\ Len(a) = IF 1 <= p THEN p - 1 + 1 ELSE 0
        /\ \A k \in 1 .. p - 1 + 1 : a[k] = s[1 + k - 1]
    BY <2>1, SubSeqProperties
  <2>3. ASSUME NEW k \in 1 .. p PROVE a[k] = s[k]
    <3>1. k \in 1 .. p - 1 + 1 /\ 1 + k - 1 = k
      OBVIOUS
    <3> QED
      BY <2>2, <3>1
  <2>4. Len(a) = p
    BY <2>2
  <2> QED
    BY <2>2, <2>3, <2>4
<1>4. b \in Seq(S) /\ Len(b) = n - p /\ \A k \in 1 .. n - p : b[k] = s[p + k]
  <2>1. p + 1 \in Int /\ n \in Int /\ \A k \in p + 1 .. n : s[k] \in S
    OBVIOUS
  <2>2. /\ b \in Seq(S) /\ Len(b) = IF p + 1 <= n THEN n - (p + 1) + 1 ELSE 0
        /\ \A k \in 1 .. n - (p + 1) + 1 : b[k] = s[(p + 1) + k - 1]
    BY <2>1, SubSeqProperties
  <2>3. ASSUME NEW k \in 1 .. n - p PROVE b[k] = s[p + k]
    <3>1. k \in 1 .. n - (p + 1) + 1 /\ (p + 1) + k - 1 = p + k
      OBVIOUS
    <3> QED
      BY <2>2, <3>1
  <2>4. Len(b) = n - p
    BY <2>2
  <2> QED
    BY <2>2, <2>3, <2>4
<1>5. o \in Seq(S) /\ Len(o) = 1 /\ o[1] = x
  OBVIOUS
<1> HIDE DEF a, b, o
<1> DEFINE c == a \o o
<1>6. c \in Seq(S) /\ Len(c) = p + 1 /\ \A k \in 1 .. p + 1 : c[k] = IF k <= p THEN s[k] ELSE x
  <2>1. c \in Seq(S) /\ Len(c) = p + 1
        /\ \A k \in 1 .. p + 1 : c[k] = IF k <= p THEN a[k] ELSE o[k - p]
    <3>1. p \in Nat /\ 1 \in Nat /\ a \in Seq(S) /\ o \in Seq(S) /\ Len(a) = p /\ Len(o) = 1
      BY <1>3, <1>5
    <3>2. Joined(S, a \o o, a, p, o, 1)
      BY <3>1, ConcatIs
    <3> QED
      BY <3>2 DEF Joined
  <2>2. ASSUME NEW k \in 1 .. p + 1 PROVE c[k] = IF k <= p THEN s[k] ELSE x
    <3>1. CASE k <= p
      BY <1>3, <2>1, <3>1
    <3>2. CASE ~(k <= p)
      <4>1. k - p = 1
        BY <3>2
      <4> QED
        BY <1>5, <2>1, <3>2, <4>1
    <3> QED
      BY <3>1, <3>2
  <2> QED
    BY <2>1, <2>2
<1>7. t = c \o b
  OBVIOUS
<1> HIDE DEF c, t
<1>8. /\ t \in Seq(S) /\ Len(t) = (p + 1) + (n - p)
      /\ \A k \in 1 .. (p + 1) + (n - p) : t[k] = IF k <= p + 1 THEN c[k] ELSE b[k - (p + 1)]
  <2>1. /\ p + 1 \in Nat /\ n - p \in Nat /\ c \in Seq(S) /\ b \in Seq(S)
        /\ Len(c) = p + 1 /\ Len(b) = n - p
    BY <1>4, <1>6
  <2>2. Joined(S, c \o b, c, p + 1, b, n - p)
    BY <2>1, ConcatIs
  <2> QED
    BY <1>7, <2>2 DEF Joined
<1>9. (p + 1) + (n - p) = n + 1
  OBVIOUS
<1>10. t \in [1 .. n + 1 -> S]
  <2>1. Len(t) = n + 1
    BY <1>8, <1>9
  <2> QED
    BY <1>8, <2>1, LenProperties
<1>11. ASSUME NEW k \in 1 .. n + 1
       PROVE  t[k] = IF k <= p THEN s[k] ELSE IF k = p + 1 THEN x ELSE s[k - 1]
  <2>1. t[k] = IF k <= p + 1 THEN c[k] ELSE b[k - (p + 1)]
    BY <1>8, <1>9
  <2>2. CASE k <= p + 1
    <3>1. k \in 1 .. p + 1
      BY <2>2
    <3> QED
      BY <1>6, <2>1, <2>2, <3>1
  <2>3. CASE ~(k <= p + 1)
    <3>1. k - (p + 1) \in 1 .. n - p /\ p + (k - (p + 1)) = k - 1
      BY <2>3
    <3>2. b[k - (p + 1)] = s[k - 1]
      BY <1>4, <3>1
    <3> QED
      BY <2>1, <2>3, <3>2
  <2> QED
    BY <2>2, <2>3
<1> QED
  BY <1>2, <1>10, <1>11 DEF Inserted

\* The places of the sections that go before a new one of that order.
Before(secs, by, order) == {k \in DOMAIN by : secs[by[k]].order <= order}

\* A new section is inserted behind those of its order.
LEMMA InsertedInOrder ==
  ASSUME NEW n \in Nat, NEW secs \in Seq(SectionType), Len(secs) = n,
         NEW by, Arranged(secs, by), secs[TextSection].order = TextOrder,
         NEW order \in TextOrder + 1 .. TableOrder,
         NEW new, DOMAIN new = 1 .. n + 1,
         \A s \in 1 .. n : new[s].order = secs[s].order, new[n + 1].order = order
  PROVE  Arranged(new, InsertAt(by, Cardinality(Before(secs, by, order)) + 1, n + 1))
<1> DEFINE before == Before(secs, by, order)
<1>1. DOMAIN secs = 1 .. n /\ by \in [1 .. n -> 1 .. n] /\ n >= 1
  <2>1. PICK m \in Nat : DOMAIN secs = 1 .. m /\ by \in [1 .. m -> 1 .. m] /\ m >= 1
    BY DEF Arranged
  <2>2. DOMAIN secs = 1 .. n
    BY LenProperties
  <2>3. m = n
    BY <2>1, <2>2
  <2> QED
    BY <2>1, <2>2, <2>3
<1>a. DOMAIN by = 1 .. n /\ \A k \in 1 .. n : by[k] \in 1 .. n
  BY <1>1
<1>b. \A i, j \in 1 .. n : by[i] = by[j] => i = j
  BY <1>a DEF Arranged
<1>c. \A s \in 1 .. n : \E k \in 1 .. n : by[k] = s
  BY <1>1, <1>a DEF Arranged
<1>d. \A i, j \in 1 .. n : i < j => secs[by[i]].order <= secs[by[j]].order
  BY <1>a DEF Arranged
<1>e. by[1] = TextSection
  BY DEF Arranged
<1>2. \A s \in 1 .. n : secs[s].order \in Int
  <2>1. \A x \in SectionType : x.order \in Int
    BY DEF SectionType, TextOrder, TableOrder
  <2>2. \A s \in 1 .. n : secs[s] \in SectionType
    BY <1>1, ElementOfSeq
  <2> QED
    BY <2>1, <2>2
<1>3. order \in Int /\ order > TextOrder /\ TextOrder \in Int
  BY DEF TextOrder, TableOrder
<1>6. \A k \in 1 .. n : k \in before <=> secs[by[k]].order <= order
  BY <1>a DEF Before
<1>4. before \in SUBSET (1 .. n) /\ 1 \in before
  <2>1. before \in SUBSET (1 .. n)
    BY <1>a DEF Before
  <2>2. 1 \in 1 .. n
    BY <1>1
  <2>3. secs[by[1]].order <= order
    BY <1>3, <1>e
  <2> QED
    BY <1>6, <2>1, <2>2, <2>3
<1>5. ASSUME NEW i \in 1 .. n, NEW j \in 1 .. n, i < j, j \in before PROVE i \in before
  <2>1. secs[by[j]].order <= order /\ secs[by[i]].order <= secs[by[j]].order
    BY <1>d, <1>5, <1>6
  <2>2. secs[by[i]].order \in Int /\ secs[by[j]].order \in Int
    BY <1>2, <1>a
  <2> QED
    BY <1>3, <1>6, <2>1, <2>2
<1> HIDE DEF before
<1>7. PICK p \in 1 .. n : p \in before /\ \A k \in before : k <= p
  <2>1. before \in SUBSET Nat /\ before # {} /\ \A k \in before : k <= n
    BY <1>4
  <2>2. Max(before) \in before /\ \A k \in before : k <= Max(before)
    BY <2>1, MaxOfNats
  <2> QED
    BY <1>4, <2>2
<1>8. \A k \in 1 .. n : k \in before <=> k <= p
  <2> SUFFICES ASSUME NEW k \in 1 .. n PROVE k \in before <=> k <= p
    OBVIOUS
  <2>1. CASE k < p
    BY <1>5, <1>7, <2>1
  <2>2. CASE k = p
    BY <1>7, <2>2
  <2>3. CASE k > p
    BY <1>7, <2>3
  <2> QED
    BY <2>1, <2>2, <2>3
<1>9. Cardinality(before) = p
  <2>1. 1 \in Int /\ p \in Int /\ ~(1 > p)
    OBVIOUS
  <2>2. Cardinality(1 .. p) = p - 1 + 1
    BY <2>1, FS_Interval
  <2>3. before \subseteq 1 .. p
    BY <1>4, <1>8
  <2>4. 1 .. p \subseteq before
    BY <1>8
  <2>5. before = 1 .. p
    BY <2>3, <2>4
  <2> QED
    BY <2>2, <2>5
<1> DEFINE t == InsertAt(by, Cardinality(before) + 1, n + 1)
<1>10. t = InsertAt(by, p + 1, n + 1)
  BY <1>9
<1>11. /\ t \in [1 .. n + 1 -> 1 .. n + 1]
       /\ \A k \in 1 .. n + 1 : t[k] = IF k <= p THEN by[k] ELSE IF k = p + 1 THEN n + 1 ELSE by[k - 1]
  <2>1. \A k \in 1 .. n : by[k] \in 1 .. n + 1
    BY <1>a
  <2>2. by \in [1 .. n -> 1 .. n + 1]
    BY <1>1, <2>1
  <2>3. p \in 0 .. n /\ n + 1 \in 1 .. n + 1
    OBVIOUS
  <2> HIDE DEF t
  <2>4. Inserted(n, 1 .. n + 1, InsertAt(by, p + 1, n + 1), by, p, n + 1)
    BY <2>2, <2>3, InsertAtIs
  <2> QED
    BY <1>10, <2>4 DEF Inserted
<1> HIDE DEF t
\* Where in the old sequence an element of the new one was.
<1>12. t[p + 1] = n + 1
  <2>1. p + 1 \in 1 .. n + 1 /\ ~(p + 1 <= p)
    OBVIOUS
  <2> QED
    BY <1>11, <2>1
<1>13. ASSUME NEW k \in 1 .. n + 1, k # p + 1
       PROVE  \E m \in 1 .. n :
                /\ m = (IF k <= p THEN k ELSE k - 1) /\ t[k] = by[m] /\ t[k] \in 1 .. n
                /\ new[t[k]].order = secs[by[m]].order
  <2>1. CASE k <= p
    <3>1. k \in 1 .. n /\ t[k] = by[k]
      BY <1>11, <2>1
    <3> QED
      BY <1>a, <2>1, <3>1
  <2>2. CASE ~(k <= p)
    <3>1. k - 1 \in 1 .. n /\ t[k] = by[k - 1]
      BY SMTT(30), <1>11, <1>13, <2>2
    <3> QED
      BY <1>a, <2>2, <3>1
  <2> QED
    BY <2>1, <2>2
<1>14. ASSUME NEW i \in 1 .. n + 1, NEW j \in 1 .. n + 1, t[i] = t[j] PROVE i = j
  <2>1. CASE i = p + 1
    BY <1>12, <1>13, <1>14, <2>1
  <2>2. CASE j = p + 1
    BY <1>12, <1>13, <1>14, <2>2
  <2>3. CASE i # p + 1 /\ j # p + 1
    <3>1. PICK m \in 1 .. n : m = (IF i <= p THEN i ELSE i - 1) /\ t[i] = by[m]
      BY <1>13, <2>3
    <3>2. PICK q \in 1 .. n : q = (IF j <= p THEN j ELSE j - 1) /\ t[j] = by[q]
      BY <1>13, <2>3
    <3>3. m = q
      BY <1>14, <1>b, <3>1, <3>2
    <3> QED
      BY <2>3, <3>1, <3>2, <3>3
  <2> QED
    BY <2>1, <2>2, <2>3
<1>15. ASSUME NEW s \in 1 .. n + 1 PROVE \E k \in 1 .. n + 1 : t[k] = s
  <2>1. CASE s = n + 1
    BY <1>12, <2>1
  <2>2. CASE s # n + 1
    <3>1. PICK k \in 1 .. n : by[k] = s
      BY SMTT(30), <1>c, <2>2
    <3>2. CASE k <= p
      <4>1. k \in 1 .. n + 1 /\ t[k] = by[k]
        BY <1>11, <3>2
      <4> QED
        BY <3>1, <4>1
    <3>3. CASE ~(k <= p)
      <4>1. k + 1 \in 1 .. n + 1 /\ ~(k + 1 <= p) /\ k + 1 # p + 1 /\ (k + 1) - 1 = k
        BY <3>3
      <4>2. t[k + 1] = by[(k + 1) - 1]
        BY <1>11, <4>1
      <4> QED
        BY <3>1, <4>1, <4>2
    <3> QED
      BY <3>2, <3>3
  <2> QED
    BY <2>1, <2>2
<1>16. ASSUME NEW i \in 1 .. n + 1, NEW j \in 1 .. n + 1, i < j
       PROVE  new[t[i]].order <= new[t[j]].order
  <2>1. CASE i = p + 1
    <3>1. new[t[i]].order = order
      BY <1>12, <2>1
    <3>2. PICK q \in 1 .. n : q = j - 1 /\ new[t[j]].order = secs[by[q]].order
      BY <1>13, <1>16, <2>1
    <3>3. q > p
      BY <1>16, <2>1, <3>2
    <3>4. ~(secs[by[q]].order <= order)
      BY <1>6, <1>8, <3>3
    <3>5. secs[by[q]].order \in Int
      BY <1>2, <1>a
    <3> QED
      BY <1>3, <3>1, <3>2, <3>4, <3>5
  <2>2. CASE j = p + 1
    <3>1. new[t[j]].order = order
      BY <1>12, <2>2
    <3>2. PICK q \in 1 .. n : q = i /\ new[t[i]].order = secs[by[q]].order
      BY <1>13, <1>16, <2>2
    <3>3. q <= p
      BY <1>16, <2>2, <3>2
    <3> QED
      BY <1>6, <1>8, <3>1, <3>2, <3>3
  <2>3. CASE i # p + 1 /\ j # p + 1
    <3>1. PICK m \in 1 .. n : /\ m = (IF i <= p THEN i ELSE i - 1)
                              /\ new[t[i]].order = secs[by[m]].order
      BY <1>13, <2>3
    <3>2. PICK q \in 1 .. n : /\ q = (IF j <= p THEN j ELSE j - 1)
                              /\ new[t[j]].order = secs[by[q]].order
      BY <1>13, <2>3
    <3>3. m < q
      BY <1>16, <2>3, <3>1, <3>2
    <3> QED
      BY <1>d, <3>1, <3>2, <3>3
  <2> QED
    BY <2>1, <2>2, <2>3
<1>17. t[1] = TextSection
  <2>1. 1 \in 1 .. n + 1 /\ 1 <= p
    OBVIOUS
  <2> QED
    BY <1>11, <1>e, <2>1
<1>18. n + 1 \in Nat /\ n + 1 >= 1 /\ DOMAIN t = 1 .. n + 1
  BY <1>11
<1>19. Arranged(new, t)
  <2>1. \E m \in Nat : DOMAIN new = 1 .. m /\ t \in [1 .. m -> 1 .. m] /\ m >= 1
    BY <1>11, <1>18
  <2> QED
    BY <1>14, <1>15, <1>16, <1>17, <1>18, <2>1 DEF Arranged
<1> QED
  BY <1>19 DEF t, before

-------------------------------------------------------------------------------
(* Sequences as functions *)

\* A sequence is a function from its indices to its elements,
LEMMA SeqIs ==
  ASSUME NEW S, NEW s \in Seq(S)
  PROVE  /\ Len(s) \in Nat /\ DOMAIN s = 1 .. Len(s) /\ s \in [1 .. Len(s) -> S]
         /\ \A i \in DOMAIN s : s[i] \in S
BY LenProperties

\* and such a function is a sequence.
LEMMA FunctionIsSeq ==
  ASSUME NEW S, NEW n \in Nat, NEW f \in [1 .. n -> S]
  PROVE  f \in Seq(S) /\ Len(f) = n /\ DOMAIN f = 1 .. n
<1>1. f \in Seq(S)
  BY SeqDef
<1>2. Len(f) \in Nat /\ DOMAIN f = 1 .. Len(f) /\ DOMAIN f = 1 .. n
  BY <1>1, LenProperties
<1>3. Len(f) = n
  BY <1>2
<1> QED
  BY <1>1, <1>2, <1>3

\* Changing the elements of a sequence gives a sequence,
LEMMA MappedIsSeq ==
  ASSUME NEW S, NEW T, NEW s \in Seq(S), NEW f, f = [i \in DOMAIN s |-> f[i]],
         \A i \in DOMAIN s : f[i] \in T
  PROVE  f \in Seq(T) /\ DOMAIN f = DOMAIN s /\ Len(f) = Len(s)
<1>1. PICK n \in Nat : n = Len(s)
  BY SeqIs
<1>2. DOMAIN s = 1 .. n
  BY <1>1, SeqIs
<1>3. f \in [1 .. n -> T]
  BY <1>2
<1> QED
  BY <1>1, <1>2, <1>3, FunctionIsSeq

\* and so does changing one of them.
LEMMA ChangedIsSeq ==
  ASSUME NEW S, NEW s \in Seq(S), NEW i \in DOMAIN s, NEW x \in S
  PROVE  LET t == [s EXCEPT ![i] = x] IN
         /\ t \in Seq(S) /\ DOMAIN t = DOMAIN s /\ Len(t) = Len(s)
         /\ t[i] = x /\ \A j \in DOMAIN s : j # i => t[j] = s[j]
<1> DEFINE t == [s EXCEPT ![i] = x]
<1>1. t[i] = x /\ \A j \in DOMAIN s : j # i => t[j] = s[j]
  OBVIOUS
<1>2. t = [j \in DOMAIN s |-> t[j]]
  OBVIOUS
<1>3. \A j \in DOMAIN s : t[j] \in S
  BY <1>1, SeqIs
<1> HIDE DEF t
<1>4. t \in Seq(S) /\ DOMAIN t = DOMAIN s /\ Len(t) = Len(s)
  BY <1>2, <1>3, MappedIsSeq
<1> QED
  BY <1>1, <1>4 DEF t

-------------------------------------------------------------------------------
(* What the sections keep *)

\* The sections have their places in the layout.
SamePlaces(secs, new) ==
  \A s \in DOMAIN secs :
    /\ s \in DOMAIN new
    /\ new[s].alignment = secs[s].alignment /\ new[s].order = secs[s].order
    /\ new[s].offset = secs[s].offset

\* Section s is n bytes larger, and nothing else has changed.
Larger(secs, new, s, n) ==
  /\ new \in Seq(SectionType) /\ DOMAIN new = DOMAIN secs /\ Len(new) = Len(secs)
  /\ \A k \in DOMAIN secs :
       /\ new[k].alignment = secs[k].alignment /\ new[k].order = secs[k].order
       /\ new[k].offset = secs[k].offset /\ new[k].virtual_size = secs[k].virtual_size
       /\ new[k].size = IF k = s THEN secs[k].size + n ELSE secs[k].size

\* The bytes of an instruction make its section larger.
LEMMA ExtendIsLarger ==
  ASSUME sections \in Seq(SectionType), NEW s \in DOMAIN sections, NEW lead \in Nat, NEW size \in Nat
  PROVE  Larger(sections, Extend(s, lead, size), s, lead + size)
<1> DEFINE old == sections[s]
           x == [old EXCEPT !.size = old.size + lead + size]
           t == [sections EXCEPT ![s] = x]
<1>1. Extend(s, lead, size) = t
  BY DEF Extend
<1>2. old \in SectionType
  BY SeqIs
<1> HIDE DEF old
<1>3. /\ x \in SectionType /\ x.alignment = old.alignment /\ x.order = old.order
      /\ x.offset = old.offset /\ x.virtual_size = old.virtual_size
      /\ x.size = old.size + (lead + size)
  <2>1. old.size \in Nat /\ old.size + lead + size \in Nat
    <3>1. old.size \in Nat
      BY <1>2 DEF SectionType
    <3>2. \A m \in Nat : m + lead + size \in Nat
      OBVIOUS
    <3> QED
      BY <3>1, <3>2
  <2>2. x \in SectionType
    BY <1>2, <2>1 DEF SectionType
  <2> QED
    BY <1>2, <2>1, <2>2 DEF SectionType
<1> USE DEF old
<1> HIDE DEF x
<1>4. /\ t \in Seq(SectionType) /\ DOMAIN t = DOMAIN sections /\ Len(t) = Len(sections)
      /\ t[s] = x /\ \A k \in DOMAIN sections : k # s => t[k] = sections[k]
  BY <1>3, ChangedIsSeq
<1> HIDE DEF t
<1> QED
  BY <1>1, <1>3, <1>4 DEF Larger

-------------------------------------------------------------------------------
(* The address table *)

IsListed(a) == slots[a] # NotListed

\* What ListAddress() leaves, given the sections the branch has extended.
AlreadyListed(a, secs) ==
  /\ IsListed(a) /\ sections' = secs
  /\ UNCHANGED <<sections_by_order, address_table_section, slots>>

NewlyListed(a) ==
  ~IsListed(a) /\ slots' = [slots EXCEPT ![a] = NoSlot]

\* The table is n bytes larger, without a buffer.
TableLarger(secs, new, t, n) ==
  /\ new \in Seq(SectionType) /\ DOMAIN new = DOMAIN secs /\ Len(new) = Len(secs)
  /\ \A k \in DOMAIN secs :
       /\ new[k].alignment = secs[k].alignment /\ new[k].order = secs[k].order
       /\ new[k].offset = secs[k].offset /\ new[k].size = secs[k].size
       /\ new[k].virtual_size = IF k = t THEN secs[k].virtual_size + n ELSE secs[k].virtual_size

FirstTable ==
  [alignment |-> AddressSize, order |-> TableOrder, offset |-> NoOffset,
   virtual_size |-> AddressSize, size |-> 0]

HasNewTable(secs) ==
  /\ address_table_section = 0
  /\ sections' \in Seq(SectionType) /\ Len(sections') = Len(secs) + 1
  /\ Appended(secs, sections', FirstTable)
  /\ address_table_section' = Len(secs) + 1
  /\ sections_by_order' = InsertByOrder(TableOrder, Len(secs) + 1)

HasLargerTable(secs) ==
  /\ address_table_section # 0
  /\ TableLarger(secs, sections', address_table_section, AddressSize)
  /\ UNCHANGED <<sections_by_order, address_table_section>>

\* add_address_to_address_table() does one of three things.
LEMMA ListAddressIs ==
  ASSUME NEW secs \in Seq(SectionType), DOMAIN secs = DOMAIN sections,
         address_table_section \in {0} \cup DOMAIN sections,
         NEW a, ListAddress(a, secs)
  PROVE  \/ AlreadyListed(a, secs)
         \/ NewlyListed(a) /\ (HasNewTable(secs) \/ HasLargerTable(secs))
<1>1. CASE slots[a] # NotListed
  BY <1>1 DEF ListAddress, AlreadyListed, IsListed
<1>2. CASE slots[a] = NotListed /\ address_table_section = 0
  <2> DEFINE rec == NewSectionRecord(AddressSize, TableOrder, NoOffset)
             t == Append(secs, rec)
  <2>1. PICK n \in Nat : n = Len(secs)
    BY SeqIs
  <2>2. rec \in SectionType
    BY DEF NewSectionRecord, SectionType, AddressSize, TableOrder, TextOrder, NoOffset
  <2>3. t \in Seq(SectionType) /\ Appended(secs, t, rec) /\ Len(t) = n + 1
    BY <2>1, <2>2, AppendIsAppended
  <2> HIDE DEF t
  <2>4. n + 1 \in DOMAIN t /\ t[n + 1] = rec
    BY <2>1, <2>3 DEF Appended
  <2>5. ReserveSlot(t, n + 1) = [t EXCEPT ![n + 1] = FirstTable]
    <3>1. [rec EXCEPT !.virtual_size = rec.virtual_size + AddressSize] = FirstTable
      BY DEF FirstTable, NewSectionRecord, AddressSize
    <3> HIDE DEF rec
    <3>2. ReserveSlot(t, n + 1) =
            [t EXCEPT ![n + 1] = [rec EXCEPT !.virtual_size = rec.virtual_size + AddressSize]]
      BY <2>4 DEF ReserveSlot
    <3> QED
      BY <3>1, <3>2
  <2>6. FirstTable \in SectionType
    BY DEF FirstTable, SectionType, AddressSize, TableOrder, TextOrder, NoOffset
  <2> DEFINE new == [t EXCEPT ![n + 1] = FirstTable]
  <2>7. /\ new \in Seq(SectionType) /\ DOMAIN new = DOMAIN t /\ Len(new) = n + 1
        /\ new[n + 1] = FirstTable /\ \A j \in DOMAIN t : j # n + 1 => new[j] = t[j]
    BY <2>3, <2>4, <2>6, ChangedIsSeq
  <2> HIDE DEF new
  <2>8. Appended(secs, new, FirstTable)
    BY <2>1, <2>3, <2>7 DEF Appended
  <2>9. /\ sections' = ReserveSlot(t, n + 1) /\ address_table_section' = n + 1
        /\ sections_by_order' = InsertByOrder(TableOrder, n + 1)
        /\ slots' = [slots EXCEPT ![a] = NoSlot]
    BY <1>2, <2>1 DEF ListAddress, t
  <2>10. sections' = new
    BY <2>5, <2>9 DEF new
  <2> QED
    BY <1>2, <2>1, <2>7, <2>8, <2>9, <2>10 DEF NewlyListed, IsListed, HasNewTable
<1>3. CASE slots[a] = NotListed /\ address_table_section # 0
  <2> DEFINE k == address_table_section
             old == secs[k]
             x == [old EXCEPT !.virtual_size = old.virtual_size + AddressSize]
             t == [secs EXCEPT ![k] = x]
  <2>1. k \in DOMAIN secs
    BY <1>3
  <2>2. old \in SectionType
    BY <2>1, SeqIs
  <2>3. /\ x \in SectionType /\ x.alignment = old.alignment /\ x.order = old.order
        /\ x.offset = old.offset /\ x.size = old.size
        /\ x.virtual_size = old.virtual_size + AddressSize
    <3> HIDE DEF old
    <3>1. old.virtual_size + AddressSize \in Nat
      BY <2>2 DEF SectionType, AddressSize
    <3>2. x \in SectionType
      BY <2>2, <3>1 DEF SectionType
    <3> QED
      BY <2>2, <3>1, <3>2 DEF SectionType
  <2>4. ReserveSlot(secs, k) = t
    BY DEF ReserveSlot
  <2> HIDE DEF x
  <2>5. /\ t \in Seq(SectionType) /\ DOMAIN t = DOMAIN secs /\ Len(t) = Len(secs)
        /\ t[k] = x /\ \A j \in DOMAIN secs : j # k => t[j] = secs[j]
    BY <2>1, <2>3, ChangedIsSeq
  <2> HIDE DEF t
  <2>6. /\ sections' = t /\ UNCHANGED <<sections_by_order, address_table_section>>
        /\ slots' = [slots EXCEPT ![a] = NoSlot]
    BY <1>3, <2>4 DEF ListAddress
  <2>7. TableLarger(secs, t, k, AddressSize)
    BY <2>3, <2>5 DEF TableLarger
  <2> QED
    BY <1>3, <2>6, <2>7 DEF NewlyListed, IsListed, HasLargerTable
<1> QED
  BY <1>1, <1>2, <1>3

-------------------------------------------------------------------------------
(* Types of the state *)

Phases == {"emitting", "flattened", "relocated", "failed"}
Faults == {"none", "fixup of a bound label"}

SectionsTyped ==
  /\ sections \in Seq(SectionType)
  /\ Arranged(sections, sections_by_order) /\ sections[TextSection].order = TextOrder
  /\ address_table_section \in {0} \cup (DOMAIN sections \ {TextSection})
  /\ slots \in [Addresses -> Nat \cup {NoSlot, NotListed}]
  /\ \A a \in Addresses : IsListed(a) => address_table_section # 0

TypeInv ==
  /\ given_base \in GivenBases /\ base_address \in Bases \cup {NoBase}
  /\ SectionsTyped
  /\ labels \in Seq(LabelType) /\ fixups \in SUBSET FixupType
  /\ relocations \in Seq(RelocType) /\ fields \in Seq(FieldType)
  /\ phase \in Phases /\ fault \in Faults

\* What refers to something refers to something there is.
RangeInv ==
  /\ \A l \in DOMAIN labels :
       /\ labels[l].section \in {0} \cup CodeSections
       /\ \A f \in labels[l].fixups :
            /\ f.field \in DOMAIN fields /\ f.label_or_reloc_id \in {0} \cup DOMAIN relocations
            /\ f.label_or_reloc_id # 0 => relocations[f.label_or_reloc_id].kind = "RelToAbs"
  /\ \A f \in fixups :
       /\ f.field \in DOMAIN fields /\ f.label_or_reloc_id \in DOMAIN labels
       /\ IsBound(f.label_or_reloc_id)
  /\ \A r \in DOMAIN relocations :
       LET re == relocations[r]
           m  == fields[re.field].meaning
       IN  /\ re.field \in DOMAIN fields /\ re.target \in {0} \cup CodeSections
           /\ re.kind = "Expression" => m.to \in DOMAIN labels /\ m.from \in DOMAIN labels
           /\ re.kind = "X64AddressEntry" => re.payload \in Addresses /\ IsListed(re.payload)
  /\ \A n \in DOMAIN fields : fields[n].section \in CodeSections

CoreInv == TypeInv /\ RangeInv

-------------------------------------------------------------------------------
(* What an emitting action does to the sections *)

SizeGrows(s, n) ==
  /\ Larger(sections, sections', s, n)
  /\ UNCHANGED <<sections_by_order, address_table_section, slots>>

Lists(a, s, n) ==
  \E secs \in Seq(SectionType) :
    /\ Larger(sections, secs, s, n)
    /\ \/ AlreadyListed(a, secs)
       \/ NewlyListed(a) /\ (HasNewTable(secs) \/ HasLargerTable(secs))

LayoutStep ==
  \E s \in CodeSections, n \in Nat : SizeGrows(s, n) \/ \E a \in Addresses : Lists(a, s, n)

\* Nothing that was there has gone.
SectionsStay ==
  /\ SectionsTyped' /\ CodeSections \subseteq CodeSections'
  /\ \A a \in Addresses : IsListed(a) => slots'[a] # NotListed

\* Nothing that was there has gone or moved.
SectionsGrow == SectionsStay /\ SamePlaces(sections, sections')

\* A newly listed address has no slot, and the others keep what they have.
LEMMA SlotsTyped ==
  ASSUME slots \in [Addresses -> Nat \cup {NoSlot, NotListed}], NEW a \in Addresses, NewlyListed(a)
  PROVE  /\ slots' \in [Addresses -> Nat \cup {NoSlot, NotListed}]
         /\ slots'[a] # NotListed
         /\ \A b \in Addresses : IsListed(b) => slots'[b] # NotListed
BY DEF NewlyListed, IsListed, NoSlot, NotListed

\* The order of the sections survives what does not touch it.
LEMMA SamePlacesArranged ==
  ASSUME Arranged(sections, sections_by_order), NEW new, DOMAIN new = DOMAIN sections,
         SamePlaces(sections, new)
  PROVE  Arranged(new, sections_by_order) /\ new[TextSection].order = sections[TextSection].order
<1>1. \A s \in DOMAIN sections : new[s].order = sections[s].order
  BY DEF SamePlaces
<1>2. TextSection \in DOMAIN sections
  BY DEF Arranged, TextSection
<1> QED
  BY <1>1, <1>2, ArrangedSame

\* NewSection() and ListAddress() keep the order of the sections.
LEMMA InsertedArranged ==
  ASSUME sections \in Seq(SectionType), Arranged(sections, sections_by_order),
         sections[TextSection].order = TextOrder,
         NEW m \in Nat, m = Len(sections), NEW order \in TextOrder + 1 .. TableOrder,
         NEW new, DOMAIN new = 1 .. m + 1, SamePlaces(sections, new), new[m + 1].order = order
  PROVE  /\ Arranged(new, InsertByOrder(order, m + 1))
         /\ new[TextSection].order = TextOrder
<1>1. DOMAIN sections = 1 .. m /\ TextSection \in DOMAIN sections
  BY SeqIs DEF Arranged, TextSection
<1>2. \A s \in 1 .. m : new[s].order = sections[s].order
  BY <1>1 DEF SamePlaces
<1>3. InsertByOrder(order, m + 1) =
        InsertAt(sections_by_order,
                 Cardinality(Before(sections, sections_by_order, order)) + 1, m + 1)
  BY DEF InsertByOrder, Before
<1>4. Arranged(new, InsertAt(sections_by_order,
                 Cardinality(Before(sections, sections_by_order, order)) + 1, m + 1))
  BY <1>2, InsertedInOrder
<1> QED
  BY <1>1, <1>2, <1>3, <1>4

\* Emitting an instruction moves no section.
LEMMA LayoutStepGrows ==
  ASSUME SectionsTyped, LayoutStep
  PROVE  SectionsGrow
<1>0. /\ sections \in Seq(SectionType) /\ Arranged(sections, sections_by_order)
      /\ sections[TextSection].order = TextOrder
      /\ address_table_section \in {0} \cup (DOMAIN sections \ {TextSection})
      /\ slots \in [Addresses -> Nat \cup {NoSlot, NotListed}]
  BY DEF SectionsTyped
<1>1. PICK s \in CodeSections, n \in Nat : SizeGrows(s, n) \/ \E a \in Addresses : Lists(a, s, n)
  BY DEF LayoutStep
<1>2. CASE SizeGrows(s, n)
  <2>1. /\ SamePlaces(sections, sections') /\ DOMAIN sections' = DOMAIN sections
        /\ sections' \in Seq(SectionType)
    BY <1>2 DEF SizeGrows, Larger, SamePlaces
  <2>2. Arranged(sections', sections_by_order) /\ sections'[TextSection].order = TextOrder
    BY <1>0, <2>1, SamePlacesArranged
  <2> QED
    BY <1>0, <1>2, <2>1, <2>2 DEF SizeGrows, SectionsGrow, SectionsStay, SectionsTyped, CodeSections, IsListed
<1>3. ASSUME NEW a \in Addresses, Lists(a, s, n) PROVE SectionsGrow
  <2>1. PICK secs \in Seq(SectionType) :
          /\ Larger(sections, secs, s, n)
          /\ \/ AlreadyListed(a, secs)
             \/ NewlyListed(a) /\ (HasNewTable(secs) \/ HasLargerTable(secs))
    BY <1>3 DEF Lists
  <2>2. DOMAIN secs = DOMAIN sections /\ SamePlaces(sections, secs) /\ Len(secs) = Len(sections)
    BY <2>1 DEF Larger, SamePlaces
  <2>3. CASE AlreadyListed(a, secs)
    <3>1. Arranged(secs, sections_by_order) /\ secs[TextSection].order = TextOrder
      BY <1>0, <2>2, SamePlacesArranged
    <3> QED
      BY <1>0, <2>2, <2>3, <3>1 DEF AlreadyListed, SectionsGrow, SectionsStay, SectionsTyped, CodeSections, IsListed
  <2>4. CASE NewlyListed(a) /\ HasNewTable(secs)
    <3>1. PICK m \in Nat : m = Len(secs)
      BY SeqIs
    <3>2. /\ address_table_section = 0 /\ address_table_section' = m + 1
          /\ sections' \in Seq(SectionType) /\ sections_by_order' = InsertByOrder(TableOrder, m + 1)
          /\ m + 1 \notin DOMAIN secs /\ DOMAIN sections' = DOMAIN secs \cup {m + 1}
          /\ \A i \in DOMAIN secs : sections'[i] = secs[i]
          /\ sections'[m + 1] = FirstTable
      BY <2>4, <3>1 DEF HasNewTable, Appended
    <3>3. SamePlaces(sections, sections')
      BY <2>2, <3>2 DEF SamePlaces
    <3>4. /\ Arranged(sections', InsertByOrder(TableOrder, m + 1))
          /\ sections'[TextSection].order = TextOrder
      <4>1. DOMAIN sections' = 1 .. m + 1
        <5>1. DOMAIN secs = 1 .. m
          BY <3>1, SeqIs
        <5> QED
          BY <3>2, <5>1
      <4>2. sections'[m + 1].order = TableOrder /\ TableOrder \in TextOrder + 1 .. TableOrder
        BY <3>2 DEF FirstTable, TableOrder, TextOrder
      <4> QED
        BY <1>0, <2>2, <3>1, <3>3, <4>1, <4>2, InsertedArranged
    <3>5. m + 1 \in DOMAIN sections' \ {TextSection} /\ m + 1 # 0
      <4>1. TextSection \in DOMAIN secs
        BY <1>0, <2>2 DEF Arranged, TextSection
      <4> QED
        BY <3>2, <4>1
    <3>6. SectionsTyped'
      BY <1>0, <2>4, <3>2, <3>4, <3>5, SlotsTyped DEF SectionsTyped
    <3>7. CodeSections \subseteq CodeSections'
      BY <2>2, <3>2 DEF CodeSections
    <3> QED
      BY <1>0, <2>4, <3>3, <3>6, <3>7, SlotsTyped DEF SectionsGrow, SectionsStay
  <2>5. CASE NewlyListed(a) /\ HasLargerTable(secs)
    <3>1. /\ address_table_section' = address_table_section /\ address_table_section # 0
          /\ sections_by_order' = sections_by_order
          /\ sections' \in Seq(SectionType) /\ DOMAIN sections' = DOMAIN secs
          /\ SamePlaces(secs, sections')
      BY <2>5 DEF HasLargerTable, TableLarger, SamePlaces
    <3>2. SamePlaces(sections, sections')
      BY <2>2, <3>1 DEF SamePlaces
    <3>3. Arranged(sections', sections_by_order) /\ sections'[TextSection].order = TextOrder
      BY <1>0, <2>2, <3>1, <3>2, SamePlacesArranged
    <3>4. SectionsTyped'
      BY <1>0, <2>2, <2>5, <3>1, <3>3, SlotsTyped DEF SectionsTyped
    <3>5. CodeSections \subseteq CodeSections'
      BY <2>2, <3>1 DEF CodeSections
    <3> QED
      BY <1>0, <2>5, <3>2, <3>4, <3>5, SlotsTyped DEF SectionsGrow, SectionsStay
  <2> QED
    BY <2>1, <2>3, <2>4, <2>5
<1> QED
  BY <1>1, <1>2, <1>3

-------------------------------------------------------------------------------
(* What an emitting action does to the fields and the references *)

MeaningType == [kind : Kinds, to : Nat, from : Nat]

\* A new field at the end of the code.
Emits(field) ==
  /\ Emitting
  /\ field \in FieldType /\ field.section \in CodeSections /\ ~field.indirect
  /\ fields' = Append(fields, field)
  /\ LayoutStep /\ SectionsGrow
  /\ UNCHANGED <<fixups, fault, Bystanders>>

\* A value the code is right to know already.
KnownValue(field) ==
  LET m   == field.meaning
      end == field.at + field.size
  IN  \/ /\ m = ToLabel(m.to) /\ m.to \in DOMAIN labels
         /\ labels[m.to].section = field.section
         /\ field.value = {labels[m.to].offset - end}
         /\ field.base = NoBase
      \/ /\ m = ToAddress(m.to) /\ m.to \in Addresses
         /\ base_address # NoBase /\ sections[field.section].offset # NoOffset
         /\ field.value = {m.to - (base_address + sections[field.section].offset) - end}
         /\ field.base = base_address
      \/ /\ m = Distance(m.to, m.from) /\ m.to \in DOMAIN labels /\ m.from \in DOMAIN labels
         /\ IsBound(m.to) /\ labels[m.to].section = labels[m.from].section
         /\ field.value = {labels[m.to].offset - labels[m.from].offset}
         /\ field.base = NoBase

EmitsValue(field) ==
  Emits(field) /\ KnownValue(field) /\ UNCHANGED <<labels, unresolved_fixup_count, relocations>>

EmitsFixup(field, l) ==
  /\ Emits(field) /\ field.value = {} /\ field.meaning = ToLabel(l) /\ field.base = NoBase
  /\ l \in DOMAIN labels /\ ~IsBound(l)
  /\ NewFixup(l, -field.size, 0)
  /\ UNCHANGED relocations

\* The entry knows what its field means.
EntryOfPointer(entry, m) ==
  \E l \in DOMAIN labels :
    /\ entry.kind = "RelToAbs" /\ m = PointerTo(l)
    /\ entry.payload = (IF IsBound(l) THEN labels[l].offset ELSE 0)
    /\ entry.target = labels[l].section
    /\ IF IsBound(l) THEN UNCHANGED <<labels, unresolved_fixup_count>>
                     ELSE NewFixup(l, 0, NextReloc)

EntryOfDistance(entry, m) ==
  \E l, k \in DOMAIN labels :
    /\ entry.kind = "Expression" /\ m = Distance(l, k) /\ entry.payload = 0 /\ entry.target = 0
    /\ UNCHANGED <<labels, unresolved_fixup_count>>

EntryOfAddress(entry, m) ==
  /\ entry.kind \in {"AbsToRel", "X64AddressEntry"}
  /\ entry.payload \in Addresses /\ m = ToAddress(entry.payload) /\ entry.target = 0
  /\ entry.kind = "X64AddressEntry" => slots'[entry.payload] # NotListed
  /\ UNCHANGED <<labels, unresolved_fixup_count>>

EmitsEntry(field, entry) ==
  /\ Emits(field) /\ field.value = {} /\ field.base = NoBase
  /\ entry \in RelocType /\ entry.field = NextField
  /\ relocations' = Append(relocations, entry)
  /\ \/ EntryOfPointer(entry, field.meaning)
     \/ EntryOfDistance(entry, field.meaning)
     \/ EntryOfAddress(entry, field.meaning)

IsField(f, s, size, meaning, value, base) ==
  /\ f \in FieldType /\ f.section = s /\ f.size = size /\ f.meaning = meaning
  /\ f.value = value /\ f.base = base /\ ~f.indirect

\* A field is what it was made to be.
LEMMA FieldAtIs ==
  ASSUME sections \in Seq(SectionType), NEW s \in DOMAIN sections, NEW lead \in Nat,
         NEW size \in {1, 4, AddressSize}, NEW meaning \in MeaningType,
         NEW value \in SUBSET Int, NEW base \in Nat \cup {NoBase}
  PROVE  LET f == FieldAt(s, lead, size, meaning, value, base) IN
         IsField(f, s, size, meaning, value, base) /\ f.at = sections[s].size + lead
<1>1. sections[s].size \in Nat /\ s \in Nat
  <2>1. sections[s] \in SectionType
    BY SeqIs
  <2>2. s \in 1 .. Len(sections) /\ Len(sections) \in Nat
    BY SeqIs
  <2> QED
    BY <2>1, <2>2 DEF SectionType
<1> QED
  BY <1>1 DEF FieldAt, FieldType, MeaningType, IsField

\* The meanings are of their type.
LEMMA Meanings ==
  ASSUME NEW l \in Nat, NEW k \in Nat
  PROVE  /\ ToLabel(l) \in MeaningType /\ ToAddress(l) \in MeaningType
         /\ PointerTo(l) \in MeaningType /\ Distance(l, k) \in MeaningType
BY DEF ToLabel, ToAddress, PointerTo, Distance, MeaningType, Kinds

\* 0 is no index.
LEMMA Indexes ==
  ASSUME NEW S, NEW s \in Seq(S), NEW i \in DOMAIN s
  PROVE  i \in Nat /\ i # 0
<1>1. Len(s) \in Nat /\ DOMAIN s = 1 .. Len(s)
  BY SeqIs
<1> QED
  BY <1>1

\* An instruction adds one field.
LEMMA AppendFieldIs ==
  ASSUME TypeInv, NEW s \in CodeSections, NEW lead \in Nat, NEW field \in FieldType,
         field.section = s, ~field.indirect, Emitting, AppendField(field, s, lead),
         UNCHANGED <<sections_by_order, address_table_section, slots, fixups, fault, Bystanders>>
  PROVE  Emits(field)
<1>1. sections \in Seq(SectionType) /\ s \in DOMAIN sections /\ field.size \in Nat
  BY DEF TypeInv, SectionsTyped, CodeSections, FieldType, AddressSize
<1>2. Larger(sections, sections', s, lead + field.size)
  <2>1. sections' = Extend(s, lead, field.size)
    BY DEF AppendField
  <2> QED
    BY <1>1, <2>1, ExtendIsLarger
<1>3. lead + field.size \in Nat
  BY <1>1
<1>4. LayoutStep
  BY <1>2, <1>3 DEF LayoutStep, SizeGrows
<1>5. SectionsGrow
  BY <1>4, LayoutStepGrows DEF TypeInv
<1> QED
  BY <1>4, <1>5 DEF Emits, AppendField

\* A branch whose target is known puts its distance from there into the code.
IsBranch(f, s, target, meaning, base) ==
  /\ f \in FieldType /\ f.section = s /\ f.meaning = meaning /\ f.base = base
  /\ ~f.indirect /\ f.at \in Nat /\ f.size \in Nat
  /\ f.value = {target - (f.at + f.size)}
  /\ f.at - sections[s].size \in Nat

\* A short and a long branch hold the distance from their own end.
LEMMA BranchFieldIs ==
  ASSUME sections \in Seq(SectionType), NEW s \in DOMAIN sections, NEW i,
         NEW target \in Int, NEW meaning \in MeaningType, NEW base \in Nat \cup {NoBase}
  PROVE  IsBranch(BranchField(i, s, target, meaning, base), s, target, meaning, base)
<1> DEFINE f == BranchField(i, s, target, meaning, base)
<1>1. PICK z \in Nat : z = sections[s].size
  <2>1. sections[s] \in SectionType
    BY SeqIs
  <2> QED
    BY <2>1 DEF SectionType
<1>2. PICK lead \in Nat, size \in {1, 4} :
        f = FieldAt(s, lead, size, meaning, {target - (sections[s].size + lead + size)}, base)
  <2>1. LongSize(i) - 4 \in Nat /\ ShortSize - 1 \in Nat
    BY DEF LongSize, ShortSize
  <2>2. CASE TakesShort(i, s, target)
    BY <2>1, <2>2 DEF BranchField
  <2>3. CASE ~TakesShort(i, s, target)
    BY <2>1, <2>3 DEF BranchField
  <2> QED
    BY <2>2, <2>3
<1> HIDE DEF f
<1> DEFINE v == target - (z + lead + size)
<1>3. v \in Int /\ {v} \in SUBSET Int /\ size \in {1, 4, AddressSize}
  OBVIOUS
<1>4. f = FieldAt(s, lead, size, meaning, {v}, base)
  BY <1>1, <1>2
<1>5. /\ f \in FieldType /\ f.section = s /\ f.size = size /\ f.meaning = meaning
      /\ f.value = {v} /\ f.base = base /\ ~f.indirect
      /\ f.at = sections[s].size + lead
  <2> HIDE DEF v
  <2> DEFINE g == FieldAt(s, lead, size, meaning, {v}, base)
  <2>1. IsField(g, s, size, meaning, {v}, base) /\ g.at = sections[s].size + lead
    BY <1>3, FieldAtIs
  <2> HIDE DEF g
  <2> QED
    BY <1>4, <2>1 DEF IsField, g
<1>6. f.at = z + lead /\ f.at \in Nat /\ f.size \in Nat /\ f.at - sections[s].size \in Nat
  BY <1>1, <1>5
<1>7. v = target - (f.at + f.size)
  BY <1>5, <1>6
<1> QED
  BY <1>5, <1>6, <1>7 DEF f, IsBranch

\* What is used of the types all the time.
LEMMA Basics ==
  ASSUME TypeInv
  PROVE  /\ sections \in Seq(SectionType) /\ labels \in Seq(LabelType)
         /\ relocations \in Seq(RelocType) /\ fields \in Seq(FieldType)
         /\ NextField \in Nat /\ NextReloc \in Nat
         /\ \A s \in CodeSections : s \in DOMAIN sections /\ s \in Nat /\ s # 0
         /\ \A l \in DOMAIN labels :
              /\ l \in Nat /\ l # 0 /\ labels[l] \in LabelType
              /\ labels[l].offset \in Nat /\ labels[l].section \in Nat
<1>1. /\ sections \in Seq(SectionType) /\ labels \in Seq(LabelType)
      /\ relocations \in Seq(RelocType) /\ fields \in Seq(FieldType)
  BY DEF TypeInv, SectionsTyped
<1>2. NextField \in Nat /\ NextReloc \in Nat
  <2>1. Len(fields) \in Nat /\ Len(relocations) \in Nat
    BY <1>1, SeqIs
  <2> QED
    BY <2>1 DEF NextField, NextReloc
<1>3. \A s \in CodeSections : s \in DOMAIN sections /\ s \in Nat /\ s # 0
  BY <1>1, Indexes DEF CodeSections
<1>4. ASSUME NEW l \in DOMAIN labels
      PROVE  /\ l \in Nat /\ l # 0 /\ labels[l] \in LabelType
             /\ labels[l].offset \in Nat /\ labels[l].section \in Nat
  <2>1. labels[l] \in LabelType
    BY <1>1, SeqIs
  <2> QED
    BY <1>1, <2>1, Indexes DEF LabelType
<1> QED
  BY <1>1, <1>2, <1>3, <1>4

\* A branch back to a label of its section knows its value.
LEMMA BoundBranchEmits ==
  ASSUME CoreInv, NEW s \in CodeSections, NEW l \in DOMAIN labels, NEW i \in Instructions,
         BranchToBoundLabel(s, l, i)
  PROVE  \E field : EmitsValue(field)
<1> DEFINE f == BranchField(i, s, labels[l].offset, ToLabel(l), NoBase)
<1>0. TypeInv
  BY DEF CoreInv
<1>1. /\ sections \in Seq(SectionType) /\ s \in DOMAIN sections
      /\ labels[l].offset \in Int /\ ToLabel(l) \in MeaningType /\ NoBase \in Nat \cup {NoBase}
  <2>1. labels[l].offset \in Nat /\ l \in Nat
    BY <1>0, Basics
  <2> QED
    BY <1>0, <2>1, Basics, Meanings
<1>2. /\ f \in FieldType /\ f.section = s /\ f.meaning = ToLabel(l) /\ f.base = NoBase
      /\ ~f.indirect /\ f.value = {labels[l].offset - (f.at + f.size)}
      /\ f.at - sections[s].size \in Nat
  <2>1. IsBranch(f, s, labels[l].offset, ToLabel(l), NoBase)
    BY <1>1, BranchFieldIs
  <2> HIDE DEF f
  <2> QED
    BY <2>1 DEF IsBranch
<1>3. /\ Emitting /\ labels[l].section = s /\ AppendField(f, s, f.at - sections[s].size)
      /\ UNCHANGED <<sections_by_order, address_table_section, slots, fixups, fault, Bystanders>>
      /\ UNCHANGED <<labels, unresolved_fixup_count, relocations>>
  BY DEF BranchToBoundLabel, CanRefer, refs
<1> HIDE DEF f
<1>4. Emits(f)
  BY <1>0, <1>2, <1>3, AppendFieldIs
<1>5. KnownValue(f)
  <2>1. f.meaning.to = l /\ f.meaning = ToLabel(f.meaning.to)
    BY <1>2 DEF ToLabel
  <2> QED
    BY <1>2, <1>3, <2>1 DEF KnownValue
<1> QED
  BY <1>3, <1>4, <1>5 DEF EmitsValue

\* A branch to a label that is not bound leaves a fixup.
LEMMA UnboundBranchEmits ==
  ASSUME CoreInv, NEW s \in CodeSections, NEW l \in DOMAIN labels, NEW i \in Instructions,
         BranchToUnboundLabel(s, l, i)
  PROVE  \E field : EmitsFixup(field, l)
<1> DEFINE size == IF HasLong(i) THEN 4 ELSE 1
           lead == IF HasLong(i) THEN LongSize(i) - 4 ELSE ShortSize - 1
           f == FieldAt(s, lead, size, ToLabel(l), {}, NoBase)
<1>0. TypeInv
  BY DEF CoreInv
<1>1. size \in {1, 4, AddressSize} /\ lead \in Nat
  BY DEF LongSize, ShortSize
<1>2. /\ CanRefer /\ ~IsBound(l) /\ AppendField(f, s, lead) /\ NewFixup(l, -size, 0)
      /\ UNCHANGED <<sections_by_order, address_table_section, slots, fixups, relocations,
                     fault, Bystanders>>
  BY DEF BranchToUnboundLabel
<1> HIDE DEF size, lead
<1>3. /\ sections \in Seq(SectionType) /\ s \in DOMAIN sections
      /\ ToLabel(l) \in MeaningType /\ NoBase \in Nat \cup {NoBase} /\ {} \in SUBSET Int
  <2>1. l \in Nat
    BY <1>0, Basics
  <2> QED
    BY <1>0, <2>1, Basics, Meanings
<1>4. /\ f \in FieldType /\ f.section = s /\ f.size = size /\ f.meaning = ToLabel(l)
      /\ f.value = {} /\ f.base = NoBase /\ ~f.indirect
  <2>1. IsField(f, s, size, ToLabel(l), {}, NoBase)
    BY <1>1, <1>3, FieldAtIs
  <2> HIDE DEF f
  <2> QED
    BY <2>1 DEF IsField
<1> HIDE DEF f
<1>5. Emits(f)
  BY <1>0, <1>1, <1>2, <1>4, AppendFieldIs DEF CanRefer
<1> QED
  BY <1>2, <1>4, <1>5 DEF EmitsFixup

\* An embedded label leaves a relocation entry.
LEMMA EmbedLabelEmits ==
  ASSUME CoreInv, NEW s \in CodeSections, NEW l \in DOMAIN labels, EmbedLabel(s, l)
  PROVE  \E field, entry : EmitsEntry(field, entry)
<1> DEFINE f == FieldAt(s, 0, AddressSize, PointerTo(l), {}, NoBase)
           payload == IF IsBound(l) THEN labels[l].offset ELSE 0
           e == Reloc("RelToAbs", NextField, 0, payload, labels[l].section)
<1>0. TypeInv
  BY DEF CoreInv
<1>1. /\ Emitting /\ AppendField(f, s, 0)
      /\ relocations' = Append(relocations, e)
      /\ IF IsBound(l) THEN UNCHANGED <<labels, unresolved_fixup_count>>
                       ELSE NewFixup(l, 0, NextReloc)
      /\ UNCHANGED <<sections_by_order, address_table_section, slots, fixups, fault, Bystanders>>
  BY DEF EmbedLabel, CanRefer
<1>2. /\ sections \in Seq(SectionType) /\ s \in DOMAIN sections
      /\ PointerTo(l) \in MeaningType /\ NoBase \in Nat \cup {NoBase} /\ {} \in SUBSET Int
      /\ payload \in Nat /\ labels[l].section \in Nat /\ NextField \in Nat
      /\ 0 \in Nat /\ AddressSize \in {1, 4, AddressSize}
  <2>1. l \in Nat /\ labels[l].offset \in Nat
    BY <1>0, Basics
  <2> QED
    BY <1>0, <2>1, Basics, Meanings
<1>3. /\ f \in FieldType /\ f.section = s /\ f.meaning = PointerTo(l)
      /\ f.value = {} /\ f.base = NoBase /\ ~f.indirect
  <2>1. IsField(f, s, AddressSize, PointerTo(l), {}, NoBase)
    BY <1>2, FieldAtIs
  <2> HIDE DEF f
  <2> QED
    BY <2>1 DEF IsField
<1>4. /\ e \in RelocType /\ e.field = NextField /\ e.kind = "RelToAbs"
      /\ e.payload = payload /\ e.target = labels[l].section
  <2> HIDE DEF payload
  <2> QED
    BY <1>2 DEF Reloc, RelocType, RelocKinds
<1> HIDE DEF f, e
<1>5. Emits(f)
  BY <1>0, <1>1, <1>2, <1>3, AppendFieldIs
<1>6. EntryOfPointer(e, f.meaning)
  BY <1>1, <1>3, <1>4 DEF EntryOfPointer
<1> QED
  BY <1>1, <1>3, <1>4, <1>5, <1>6 DEF EmitsEntry

\* An embedded distance knows its value or leaves an entry.
LEMMA EmbedLabelDeltaEmits ==
  ASSUME CoreInv, NEW s \in CodeSections, NEW l \in DOMAIN labels, NEW m \in DOMAIN labels,
         EmbedLabelDelta(s, l, m)
  PROVE  \/ \E field : EmitsValue(field)
         \/ \E field, entry : EmitsEntry(field, entry)
<1> DEFINE known == IsBound(l) /\ labels[l].section = labels[m].section
           value == IF known THEN {labels[l].offset - labels[m].offset} ELSE {}
           f == FieldAt(s, 0, AddressSize, Distance(l, m), value, NoBase)
           e == Reloc("Expression", NextField, 0, 0, 0)
<1>0. TypeInv
  BY DEF CoreInv
<1>1. /\ Emitting /\ AppendField(f, s, 0)
      /\ relocations' = IF known THEN relocations ELSE Append(relocations, e)
      /\ UNCHANGED <<labels, unresolved_fixup_count>>
      /\ UNCHANGED <<sections_by_order, address_table_section, slots, fixups, fault, Bystanders>>
  BY DEF EmbedLabelDelta, CanRefer
<1>2. /\ sections \in Seq(SectionType) /\ s \in DOMAIN sections
      /\ Distance(l, m) \in MeaningType /\ NoBase \in Nat \cup {NoBase} /\ value \in SUBSET Int
      /\ NextField \in Nat /\ 0 \in Nat /\ AddressSize \in {1, 4, AddressSize}
  <2>1. l \in Nat /\ labels[l].offset \in Nat /\ m \in Nat /\ labels[m].offset \in Nat
    BY <1>0, Basics
  <2> QED
    BY <1>0, <2>1, Basics, Meanings
<1>3. /\ f \in FieldType /\ f.section = s /\ f.meaning = Distance(l, m)
      /\ f.value = value /\ f.base = NoBase /\ ~f.indirect
  <2>1. IsField(f, s, AddressSize, Distance(l, m), value, NoBase)
    <3> HIDE DEF value
    <3> QED
      BY <1>2, FieldAtIs
  <2> HIDE DEF f, value
  <2> QED
    BY <2>1 DEF IsField
<1>4. e \in RelocType /\ e.field = NextField /\ e.kind = "Expression" /\ e.payload = 0 /\ e.target = 0
  BY <1>2 DEF Reloc, RelocType, RelocKinds
<1> HIDE DEF f, e
<1>5. Emits(f)
  BY <1>0, <1>1, <1>2, <1>3, AppendFieldIs
<1>6. CASE known
  <2>1. f.meaning.to = l /\ f.meaning.from = m /\ f.meaning = Distance(f.meaning.to, f.meaning.from)
    BY <1>3 DEF Distance
  <2>2. KnownValue(f)
    BY <1>3, <1>6, <2>1 DEF KnownValue
  <2> QED
    BY <1>1, <1>5, <1>6, <2>2 DEF EmitsValue
<1>7. CASE ~known
  <2>1. f.value = {} /\ relocations' = Append(relocations, e)
    BY <1>1, <1>3, <1>7
  <2>2. EntryOfDistance(e, f.meaning)
    BY <1>1, <1>3, <1>4 DEF EntryOfDistance
  <2> QED
    BY <1>3, <1>4, <1>5, <2>1, <2>2 DEF EmitsEntry
<1> QED
  BY <1>6, <1>7

\* A branch to an address that is in reach knows its value.
LEMMA BranchNowEmits ==
  ASSUME CoreInv, ConstantsAssumption, NEW s \in CodeSections, NEW a \in Addresses,
         NEW i \in Instructions, BranchToAddressNow(s, a, i)
  PROVE  \E field : EmitsValue(field)
<1> DEFINE f == BranchField(i, s, TargetIn(s, a), ToAddress(a), base_address)
<1>0. TypeInv
  BY DEF CoreInv
<1>1. /\ Emitting /\ IsAbsoluteLocation(s) /\ AppendField(f, s, f.at - sections[s].size)
      /\ UNCHANGED <<sections_by_order, address_table_section, slots, fixups, fault, Bystanders>>
      /\ UNCHANGED <<labels, unresolved_fixup_count, relocations>>
  BY DEF BranchToAddressNow, CanRefer, refs
<1>2. a \in Nat /\ base_address \in Nat /\ sections[s].offset \in Int
  <2>1. a \in Nat /\ base_address \in Nat
    BY <1>0, <1>1 DEF ConstantsAssumption, TypeInv, IsAbsoluteLocation
  <2>2. s \in DOMAIN sections /\ sections \in Seq(SectionType)
    BY <1>0, Basics
  <2>3. sections[s] \in SectionType
    BY <2>2, SeqIs
  <2> QED
    BY <2>1, <2>3 DEF SectionType, NoOffset
<1>3. /\ sections \in Seq(SectionType) /\ s \in DOMAIN sections /\ TargetIn(s, a) \in Int
      /\ ToAddress(a) \in MeaningType /\ base_address \in Nat \cup {NoBase}
  <2>1. TargetIn(s, a) \in Int
    BY <1>2 DEF TargetIn
  <2> QED
    BY <1>0, <1>2, <2>1, Basics, Meanings
<1>4. /\ f \in FieldType /\ f.section = s /\ f.meaning = ToAddress(a) /\ f.base = base_address
      /\ ~f.indirect /\ f.value = {TargetIn(s, a) - (f.at + f.size)}
      /\ f.at - sections[s].size \in Nat
  <2>1. IsBranch(f, s, TargetIn(s, a), ToAddress(a), base_address)
    BY <1>3, BranchFieldIs
  <2> HIDE DEF f
  <2> QED
    BY <2>1 DEF IsBranch
<1> HIDE DEF f
<1>5. Emits(f)
  BY <1>0, <1>1, <1>4, AppendFieldIs
<1>6. KnownValue(f)
  <2>1. f.meaning.to = a /\ f.meaning = ToAddress(f.meaning.to)
    BY <1>4 DEF ToAddress
  <2>2. f.value = {a - (base_address + sections[s].offset) - (f.at + f.size)}
    BY <1>4 DEF TargetIn
  <2> QED
    BY <1>1, <1>4, <2>1, <2>2 DEF KnownValue, IsAbsoluteLocation
<1> QED
  BY <1>1, <1>5, <1>6 DEF EmitsValue

\* Any other branch to an address leaves an entry.
LEMMA BranchLaterEmits ==
  ASSUME CoreInv, ConstantsAssumption, NEW s \in CodeSections, NEW a \in Addresses,
         NEW i \in Instructions, BranchToAddressLater(s, a, i)
  PROVE  \E field, entry : EmitsEntry(field, entry)
<1> DEFINE size == IF HasLong(i) THEN 4 ELSE 1
           lead == IF HasLong(i) THEN 2 ELSE 1
           f == FieldAt(s, lead, size, ToAddress(a), {}, NoBase)
           kind == IF Patchable(i) THEN "X64AddressEntry" ELSE "AbsToRel"
           e == Reloc(kind, NextField, lead, a, 0)
<1>0. TypeInv
  BY DEF CoreInv
<1>1. /\ Emitting /\ fields' = Append(fields, f) /\ relocations' = Append(relocations, e)
      /\ IF Patchable(i) THEN ListAddress(a, Extend(s, lead, size))
         ELSE /\ sections' = Extend(s, lead, size)
              /\ UNCHANGED <<sections_by_order, address_table_section, slots>>
      /\ UNCHANGED <<labels, unresolved_fixup_count>> /\ UNCHANGED <<fixups, fault, Bystanders>>
  BY DEF BranchToAddressLater, CanRefer
<1>2. size \in {1, 4, AddressSize} /\ lead \in Nat /\ size \in Nat
  OBVIOUS
<1> HIDE DEF size, lead
<1>3. /\ sections \in Seq(SectionType) /\ s \in DOMAIN sections /\ a \in Nat
      /\ ToAddress(a) \in MeaningType /\ NoBase \in Nat \cup {NoBase} /\ {} \in SUBSET Int
      /\ NextField \in Nat
  <2>1. a \in Nat
    BY DEF ConstantsAssumption
  <2> QED
    BY <1>0, <2>1, Basics, Meanings
<1>4. /\ f \in FieldType /\ f.section = s /\ f.meaning = ToAddress(a)
      /\ f.value = {} /\ f.base = NoBase /\ ~f.indirect
  <2>1. IsField(f, s, size, ToAddress(a), {}, NoBase)
    BY <1>2, <1>3, FieldAtIs
  <2> HIDE DEF f
  <2> QED
    BY <2>1 DEF IsField
<1>5. /\ e \in RelocType /\ e.field = NextField /\ e.payload = a /\ e.target = 0
      /\ e.kind = kind
  <2>1. kind \in RelocKinds
    BY DEF RelocKinds
  <2> HIDE DEF kind
  <2> QED
    BY <1>2, <1>3, <2>1 DEF Reloc, RelocType
<1> HIDE DEF f, e
<1> DEFINE secs == Extend(s, lead, size)
<1>6. Larger(sections, secs, s, lead + size)
  BY <1>2, <1>3, ExtendIsLarger
<1> HIDE DEF secs
<1>7. lead + size \in Nat
  BY <1>2
<1>8. LayoutStep /\ (Patchable(i) => slots'[a] # NotListed)
  <2>1. CASE Patchable(i)
    <3>1. ListAddress(a, secs)
      BY <1>1, <2>1 DEF secs
    <3>2. /\ secs \in Seq(SectionType) /\ DOMAIN secs = DOMAIN sections
          /\ address_table_section \in {0} \cup DOMAIN sections
          /\ slots \in [Addresses -> Nat \cup {NoSlot, NotListed}]
      BY <1>0, <1>6 DEF Larger, TypeInv, SectionsTyped
    <3>3. \/ AlreadyListed(a, secs)
          \/ NewlyListed(a) /\ (HasNewTable(secs) \/ HasLargerTable(secs))
      BY <3>1, <3>2, ListAddressIs
    <3>4. Lists(a, s, lead + size)
      BY <1>6, <3>2, <3>3 DEF Lists
    <3>5. slots'[a] # NotListed
      BY <3>2, <3>3, SlotsTyped DEF AlreadyListed, IsListed
    <3> QED
      BY <1>7, <3>4, <3>5 DEF LayoutStep
  <2>2. CASE ~Patchable(i)
    BY <1>1, <1>6, <1>7, <2>2 DEF LayoutStep, SizeGrows, secs
  <2> QED
    BY <2>1, <2>2
<1>9. Emits(f)
  <2>1. SectionsGrow
    BY <1>0, <1>8, LayoutStepGrows DEF TypeInv
  <2> QED
    BY <1>1, <1>4, <1>8, <2>1 DEF Emits
<1>10. EntryOfAddress(e, f.meaning)
  <2>1. e.kind \in {"AbsToRel", "X64AddressEntry"} /\ (e.kind = "X64AddressEntry" => Patchable(i))
    BY <1>5
  <2> QED
    BY <1>1, <1>4, <1>5, <1>8, <2>1 DEF EntryOfAddress
<1> QED
  BY <1>1, <1>4, <1>5, <1>9, <1>10 DEF EmitsEntry

\* What a reference leaves in the code.
LEMMA ReferCases ==
  ASSUME CoreInv, ConstantsAssumption, Refer
  PROVE  \/ \E field : EmitsValue(field)
         \/ \E field, l : EmitsFixup(field, l)
         \/ \E field, entry : EmitsEntry(field, entry)
         \/ fault' \in Faults /\ UNCHANGED <<layout, refs, fields, Bystanders>>
<1>1. PICK s \in CodeSections :
        \/ \E l \in DOMAIN labels :
             \/ \E i \in Instructions : BranchToBoundLabel(s, l, i) \/ BranchToUnboundLabel(s, l, i)
             \/ BranchToLabelElsewhere(s, l)
             \/ EmbedLabel(s, l)
             \/ \E m \in DOMAIN labels : EmbedLabelDelta(s, l, m)
        \/ \E a \in Addresses, i \in Instructions :
             BranchToAddressNow(s, a, i) \/ BranchToAddressLater(s, a, i)
  BY DEF Refer
<1>2. ASSUME NEW l \in DOMAIN labels, BranchToLabelElsewhere(s, l)
      PROVE  fault' \in Faults /\ UNCHANGED <<layout, refs, fields, Bystanders>>
  BY <1>2 DEF BranchToLabelElsewhere, Faults
<1> QED
  BY <1>1, <1>2, BoundBranchEmits, UnboundBranchEmits, EmbedLabelEmits, EmbedLabelDeltaEmits,
     BranchNowEmits, BranchLaterEmits

-------------------------------------------------------------------------------
(* Emitting keeps the types *)

\* Label l has one more fixup, x.
GetsFixup(l, x) ==
  /\ x \in FixupType /\ x.field = NextField
  /\ labels' \in Seq(LabelType) /\ DOMAIN labels' = DOMAIN labels
  /\ \A k \in DOMAIN labels :
       /\ labels'[k].section = labels[k].section /\ labels'[k].offset = labels[k].offset
       /\ labels'[k].fixups = IF k = l THEN labels[k].fixups \cup {x} ELSE labels[k].fixups
  /\ unresolved_fixup_count' = unresolved_fixup_count + 1

\* new_fixup() gives one label one fixup more.
LEMMA NewFixupIs ==
  ASSUME TypeInv, NEW l \in DOMAIN labels, NEW rel \in Int, NEW reloc \in Nat,
         NewFixup(l, rel, reloc)
  PROVE  \E x : /\ GetsFixup(l, x) /\ x.rel = rel /\ x.label_or_reloc_id = reloc
<1> DEFINE x == [field |-> NextField, rel |-> rel, label_or_reloc_id |-> reloc]
           old == labels[l]
           y == [old EXCEPT !.fixups = old.fixups \cup {x}]
           t == [labels EXCEPT ![l] = y]
<1>1. labels \in Seq(LabelType) /\ old \in LabelType /\ NextField \in Nat
  BY Basics
<1>2. x \in FixupType /\ x.field = NextField /\ x.rel = rel /\ x.label_or_reloc_id = reloc
  BY <1>1 DEF FixupType
<1>3. labels' = t /\ unresolved_fixup_count' = unresolved_fixup_count + 1
  BY DEF NewFixup
<1> HIDE DEF x
<1>4. /\ y \in LabelType /\ y.section = old.section /\ y.offset = old.offset
      /\ y.fixups = old.fixups \cup {x}
  <2> HIDE DEF old
  <2>1. old.fixups \in SUBSET FixupType
    BY <1>1 DEF LabelType
  <2>2. old.fixups \cup {x} \in SUBSET FixupType
    BY <1>2, <2>1
  <2>3. y \in LabelType
    BY <1>1, <2>2 DEF LabelType
  <2> QED
    BY <1>1, <2>3 DEF LabelType
<1> HIDE DEF y
<1>5. /\ t \in Seq(LabelType) /\ DOMAIN t = DOMAIN labels
      /\ t[l] = y /\ \A j \in DOMAIN labels : j # l => t[j] = labels[j]
  BY <1>1, <1>4, ChangedIsSeq
<1> HIDE DEF t
<1>6. GetsFixup(l, x)
  BY <1>2, <1>3, <1>4, <1>5 DEF GetsFixup
<1> QED
  BY <1>2, <1>6

\* What every new field does to the rest.
LEMMA EmitsBasics ==
  ASSUME CoreInv, NEW field, Emits(field)
  PROVE  /\ fields' \in Seq(FieldType) /\ Appended(fields, fields', field)
         /\ NextField \in Nat /\ NextField \notin DOMAIN fields
         /\ DOMAIN fields' = DOMAIN fields \cup {NextField} /\ fields'[NextField] = field
         /\ \A n \in DOMAIN fields : fields'[n] = fields[n]
         /\ \A n \in DOMAIN fields' : fields'[n].section \in CodeSections'
         /\ SectionsTyped' /\ fixups' = fixups /\ fault' \in Faults /\ phase' \in Phases
         /\ given_base' \in GivenBases /\ base_address' \in Bases \cup {NoBase}
<1>1. fields \in Seq(FieldType) /\ field \in FieldType /\ fields' = Append(fields, field)
  BY Basics DEF CoreInv, Emits
<1>2. fields' \in Seq(FieldType) /\ Appended(fields, fields', field)
  BY <1>1, AppendIsAppended
<1>3. /\ NextField \notin DOMAIN fields /\ DOMAIN fields' = DOMAIN fields \cup {NextField}
      /\ fields'[NextField] = field /\ \A n \in DOMAIN fields : fields'[n] = fields[n]
  BY <1>2 DEF Appended, NextField
<1>4. /\ SectionsTyped' /\ CodeSections \subseteq CodeSections' /\ field.section \in CodeSections
  BY DEF Emits, SectionsGrow, SectionsStay
<1>5. \A n \in DOMAIN fields' : fields'[n].section \in CodeSections'
  BY <1>3, <1>4 DEF CoreInv, RangeInv
<1>6. /\ fixups' = fixups /\ fault' \in Faults /\ phase' \in Phases
      /\ given_base' \in GivenBases /\ base_address' \in Bases \cup {NoBase}
  BY DEF Emits, CoreInv, TypeInv, Bystanders
<1> QED
  BY <1>2, <1>3, <1>4, <1>5, <1>6, Basics DEF CoreInv

\* The parts of RangeInv.
LabelsInRange ==
  \A l \in DOMAIN labels :
    /\ labels[l].section \in {0} \cup CodeSections
    /\ \A f \in labels[l].fixups :
         /\ f.field \in DOMAIN fields /\ f.label_or_reloc_id \in {0} \cup DOMAIN relocations
         /\ f.label_or_reloc_id # 0 => relocations[f.label_or_reloc_id].kind = "RelToAbs"

FixupsInRange ==
  \A f \in fixups :
    /\ f.field \in DOMAIN fields /\ f.label_or_reloc_id \in DOMAIN labels
    /\ IsBound(f.label_or_reloc_id)

EntryInRange(re) ==
  LET m == fields[re.field].meaning
  IN  /\ re.field \in DOMAIN fields /\ re.target \in {0} \cup CodeSections
      /\ re.kind = "Expression" => m.to \in DOMAIN labels /\ m.from \in DOMAIN labels
      /\ re.kind = "X64AddressEntry" => re.payload \in Addresses /\ IsListed(re.payload)

EntriesInRange == \A r \in DOMAIN relocations : EntryInRange(relocations[r])

FieldsInRange == \A n \in DOMAIN fields : fields[n].section \in CodeSections

\* The range invariant is its four parts,
LEMMA RangeParts == RangeInv <=> LabelsInRange /\ FixupsInRange /\ EntriesInRange /\ FieldsInRange
BY DEF RangeInv, LabelsInRange, FixupsInRange, EntriesInRange, EntryInRange, FieldsInRange

\* in the next state as well.
LEMMA RangePartsNext ==
  RangeInv' <=> LabelsInRange' /\ FixupsInRange' /\ EntriesInRange' /\ FieldsInRange'
BY RangeParts, PTL

\* An entry stays in range when nothing it refers to goes.
LEMMA EntryKept ==
  ASSUME NEW re, EntryInRange(re), SectionsStay, DOMAIN labels \subseteq DOMAIN labels',
         re.field \in DOMAIN fields', fields'[re.field].meaning = fields[re.field].meaning
  PROVE  EntryInRange(re)'
BY DEF EntryInRange, SectionsStay, IsListed

\* Old entries stay in range when nothing they refer to goes.
LEMMA EntriesKept ==
  ASSUME EntriesInRange, SectionsStay, DOMAIN labels \subseteq DOMAIN labels',
         \A n \in DOMAIN fields : n \in DOMAIN fields' /\ fields'[n].meaning = fields[n].meaning,
         NEW r \in DOMAIN relocations, relocations'[r] = relocations[r]
  PROVE  EntryInRange(relocations[r])'
<1>1. PICK re : re = relocations[r]
  OBVIOUS
<1>2. EntryInRange(re) /\ re.field \in DOMAIN fields
  BY <1>1 DEF EntriesInRange, EntryInRange
<1>3. EntryInRange(re)'
  BY <1>2, EntryKept
<1> QED
  BY <1>1, <1>3 DEF EntryInRange

\* The three ways to emit a field keep the types and ranges.
LEMMA EmitsValueCore ==
  ASSUME CoreInv, NEW field, EmitsValue(field)
  PROVE  CoreInv'
<1>1. /\ Emits(field) /\ UNCHANGED <<labels, unresolved_fixup_count, relocations>>
      /\ SectionsGrow /\ SectionsStay
  BY DEF EmitsValue, Emits, SectionsGrow
<1>2. TypeInv'
  BY <1>1, EmitsBasics DEF CoreInv, TypeInv
<1>3. LabelsInRange'
  BY <1>1, EmitsBasics, RangeParts DEF CoreInv, LabelsInRange, SectionsGrow, SectionsStay
<1>4. FixupsInRange'
  BY <1>1, EmitsBasics, RangeParts DEF CoreInv, FixupsInRange, IsBound
<1>5. EntriesInRange'
  <2>1. EntriesInRange /\ DOMAIN labels \subseteq DOMAIN labels'
    BY <1>1, RangeParts DEF CoreInv
  <2>2. \A n \in DOMAIN fields : n \in DOMAIN fields' /\ fields'[n].meaning = fields[n].meaning
    BY <1>1, EmitsBasics
  <2>3. ASSUME NEW r \in DOMAIN relocations' PROVE EntryInRange(relocations[r])'
    BY <1>1, <2>1, <2>2, EntriesKept
  <2> QED
    BY <2>3 DEF EntriesInRange
<1>6. FieldsInRange'
  BY <1>1, EmitsBasics DEF FieldsInRange
<1> QED
  BY <1>2, <1>3, <1>4, <1>5, <1>6, RangePartsNext DEF CoreInv

\* (A field with a fixup.)
LEMMA EmitsFixupCore ==
  ASSUME CoreInv, NEW field, NEW l, EmitsFixup(field, l)
  PROVE  CoreInv'
<1>1. /\ Emits(field) /\ relocations' = relocations /\ l \in DOMAIN labels
      /\ NewFixup(l, -field.size, 0) /\ SectionsGrow /\ SectionsStay
  BY DEF EmitsFixup, Emits, SectionsGrow
<1>2. PICK x : GetsFixup(l, x) /\ x.label_or_reloc_id = 0
  <2>1. -field.size \in Int
    BY <1>1 DEF Emits, FieldType, AddressSize
  <2> QED
    BY <1>1, <2>1, NewFixupIs DEF CoreInv
<1>3. TypeInv'
  <2>1. labels' \in Seq(LabelType)
    BY <1>2 DEF GetsFixup, CoreInv, TypeInv
  <2> QED
    BY <1>1, <2>1, EmitsBasics DEF CoreInv, TypeInv
<1>4. LabelsInRange'
  <2>1. /\ DOMAIN labels' = DOMAIN labels
        /\ \A k \in DOMAIN labels : labels'[k].section = labels[k].section
        /\ \A k \in DOMAIN labels : \A f \in labels'[k].fixups :
             \/ f \in labels[k].fixups
             \/ f.field = NextField /\ f.label_or_reloc_id = 0
    BY <1>2 DEF GetsFixup
  <2> QED
    BY <1>1, <2>1, EmitsBasics, RangeParts DEF CoreInv, LabelsInRange, SectionsGrow, SectionsStay
<1>5. FixupsInRange'
  BY <1>1, <1>2, EmitsBasics, RangeParts DEF CoreInv, FixupsInRange, IsBound, GetsFixup
<1>6. EntriesInRange'
  <2>1. EntriesInRange /\ DOMAIN labels \subseteq DOMAIN labels'
    BY <1>2, RangeParts DEF CoreInv, GetsFixup
  <2>2. \A n \in DOMAIN fields : n \in DOMAIN fields' /\ fields'[n].meaning = fields[n].meaning
    BY <1>1, EmitsBasics
  <2>3. ASSUME NEW r \in DOMAIN relocations' PROVE EntryInRange(relocations[r])'
    BY <1>1, <2>1, <2>2, EntriesKept
  <2> QED
    BY <2>3 DEF EntriesInRange
<1>7. FieldsInRange'
  BY <1>1, EmitsBasics DEF FieldsInRange
<1> QED
  BY <1>3, <1>4, <1>5, <1>6, <1>7, RangePartsNext DEF CoreInv

\* The labels of an emission that adds a relocation entry: untouched, or one of
\* them has a fixup more that informs the entry.
LEMMA EntryLabels ==
  ASSUME CoreInv, NEW field, NEW entry, EmitsEntry(field, entry)
  PROVE  \/ UNCHANGED <<labels, unresolved_fixup_count>>
         \/ \E l \in DOMAIN labels : \E x :
              /\ ~IsBound(l) /\ field.meaning = PointerTo(l) /\ entry.kind = "RelToAbs"
              /\ GetsFixup(l, x) /\ x.rel = 0 /\ x.label_or_reloc_id = NextReloc
<1>0. TypeInv /\ 0 \in Int /\ NextReloc \in Nat
  BY Basics DEF CoreInv
<1>1. CASE EntryOfPointer(entry, field.meaning)
  <2>1. PICK l \in DOMAIN labels :
          /\ entry.kind = "RelToAbs" /\ field.meaning = PointerTo(l)
          /\ IF IsBound(l) THEN UNCHANGED <<labels, unresolved_fixup_count>>
                           ELSE NewFixup(l, 0, NextReloc)
    BY <1>1 DEF EntryOfPointer
  <2>2. CASE IsBound(l)
    BY <2>1, <2>2
  <2>3. CASE ~IsBound(l)
    <3>1. NewFixup(l, 0, NextReloc)
      BY <2>1, <2>3
    <3>2. \E x : GetsFixup(l, x) /\ x.rel = 0 /\ x.label_or_reloc_id = NextReloc
      BY <1>0, <3>1, NewFixupIs
    <3> QED
      BY <2>1, <2>3, <3>2
  <2> QED
    BY <2>2, <2>3
<1>2. CASE EntryOfDistance(entry, field.meaning)
  BY <1>2 DEF EntryOfDistance
<1>3. CASE EntryOfAddress(entry, field.meaning)
  BY <1>3 DEF EntryOfAddress
<1> QED
  BY <1>1, <1>2, <1>3 DEF EmitsEntry

\* What an emission that adds a relocation entry does to the entries.
LEMMA EntryAdded ==
  ASSUME CoreInv, NEW field, NEW entry, EmitsEntry(field, entry)
  PROVE  /\ relocations' \in Seq(RelocType)
         /\ NextReloc \in Nat /\ NextReloc \notin DOMAIN relocations
         /\ DOMAIN relocations' = DOMAIN relocations \cup {NextReloc}
         /\ relocations'[NextReloc] = entry
         /\ \A r \in DOMAIN relocations : relocations'[r] = relocations[r]
<1>1. relocations \in Seq(RelocType) /\ entry \in RelocType /\ relocations' = Append(relocations, entry)
  BY Basics DEF CoreInv, EmitsEntry
<1>2. relocations' \in Seq(RelocType) /\ Appended(relocations, relocations', entry)
  BY <1>1, AppendIsAppended
<1> QED
  BY <1>2, Basics DEF Appended, NextReloc, CoreInv

\* The labels have at most a fixup more, which informs the new entry.
LabelsGain ==
  /\ labels' \in Seq(LabelType) /\ DOMAIN labels' = DOMAIN labels
  /\ \A k \in DOMAIN labels : labels'[k].section = labels[k].section
  /\ \A k \in DOMAIN labels : \A f \in labels'[k].fixups :
       \/ f \in labels[k].fixups
       \/ /\ f.field = NextField /\ f.label_or_reloc_id = NextReloc
          /\ relocations'[NextReloc].kind = "RelToAbs"

\* (A field with a relocation entry.)
LEMMA EmitsEntryCore ==
  ASSUME CoreInv, NEW field, NEW entry, EmitsEntry(field, entry)
  PROVE  CoreInv'
<1>1. Emits(field) /\ entry.field = NextField /\ SectionsGrow /\ SectionsStay
  BY DEF EmitsEntry, Emits, SectionsGrow
<1>2. LabelsGain
  <2>1. labels \in Seq(LabelType)
    BY DEF CoreInv, TypeInv
  <2>2. CASE UNCHANGED <<labels, unresolved_fixup_count>>
    BY <2>1, <2>2 DEF LabelsGain
  <2>3. ASSUME NEW l \in DOMAIN labels, NEW x, GetsFixup(l, x), x.label_or_reloc_id = NextReloc,
               entry.kind = "RelToAbs"
        PROVE  LabelsGain
    <3>1. ASSUME NEW k \in DOMAIN labels, NEW f \in labels'[k].fixups
          PROVE  \/ f \in labels[k].fixups
                 \/ f.field = NextField /\ f.label_or_reloc_id = NextReloc
      <4>1. CASE k = l
        <5>1. labels'[k].fixups = labels[k].fixups \cup {x} /\ x.field = NextField
          BY <2>3, <4>1 DEF GetsFixup
        <5> QED
          BY <2>3, <5>1
      <4>2. CASE k # l
        BY <2>3, <4>2 DEF GetsFixup
      <4> QED
        BY <4>1, <4>2
    <3>2. /\ labels' \in Seq(LabelType) /\ DOMAIN labels' = DOMAIN labels
          /\ unresolved_fixup_count' = unresolved_fixup_count + 1
          /\ \A k \in DOMAIN labels : labels'[k].section = labels[k].section
      BY <2>3 DEF GetsFixup
    <3>3. relocations'[NextReloc].kind = "RelToAbs"
      BY <2>3, EntryAdded
    <3> QED
      BY <2>1, <3>1, <3>2, <3>3 DEF LabelsGain
  <2>4. \/ UNCHANGED <<labels, unresolved_fixup_count>>
        \/ \E l \in DOMAIN labels : \E x :
             GetsFixup(l, x) /\ x.label_or_reloc_id = NextReloc /\ entry.kind = "RelToAbs"
    BY EntryLabels, Zenon
  <2>5. ASSUME \E l \in DOMAIN labels : \E x :
                 GetsFixup(l, x) /\ x.label_or_reloc_id = NextReloc /\ entry.kind = "RelToAbs"
        PROVE  LabelsGain
    <3>1. PICK l \in DOMAIN labels : \E x :
            GetsFixup(l, x) /\ x.label_or_reloc_id = NextReloc /\ entry.kind = "RelToAbs"
      BY <2>5
    <3>2. PICK x : GetsFixup(l, x) /\ x.label_or_reloc_id = NextReloc /\ entry.kind = "RelToAbs"
      BY <3>1
    <3> QED
      BY <2>3, <3>2
  <2> QED
    BY <2>2, <2>4, <2>5
<1>3. TypeInv'
  BY <1>1, <1>2, EmitsBasics, EntryAdded DEF CoreInv, TypeInv, LabelsGain
<1>4. LabelsInRange'
  BY <1>1, <1>2, EmitsBasics, EntryAdded, RangeParts DEF CoreInv, LabelsInRange, SectionsGrow, SectionsStay, LabelsGain
<1>5. FixupsInRange'
  BY <1>1, <1>2, EmitsBasics, RangeParts DEF CoreInv, FixupsInRange, IsBound, LabelsGain
<1>6. EntriesInRange'
  <2>1. EntriesInRange /\ DOMAIN labels \subseteq DOMAIN labels'
    BY <1>2, RangeParts DEF CoreInv, LabelsGain
  <2>2. \A n \in DOMAIN fields : n \in DOMAIN fields' /\ fields'[n].meaning = fields[n].meaning
    BY <1>1, EmitsBasics
  <2>3. ASSUME NEW r \in DOMAIN relocations PROVE EntryInRange(relocations[r])'
    BY <1>1, <2>1, <2>2, EntriesKept, EntryAdded
  <2>q. PICK q : q = NextReloc
    OBVIOUS
  <2>4. EntryInRange(relocations[q])'
    <3>0. relocations'[q] = entry
      BY <2>q, EntryAdded
    <3>1. entry.field \in DOMAIN fields' /\ fields'[entry.field].meaning = field.meaning
      BY <1>1, EmitsBasics
    <3>2. CASE EntryOfPointer(entry, field.meaning)
      <4>1. PICK l \in DOMAIN labels : entry.kind = "RelToAbs" /\ entry.target = labels[l].section
        BY <3>2 DEF EntryOfPointer
      <4>2. labels[l].section \in {0} \cup CodeSections'
        BY <1>1, RangeParts DEF CoreInv, LabelsInRange, SectionsGrow, SectionsStay
      <4> QED
        BY <3>0, <3>1, <4>1, <4>2 DEF EntryInRange
    <3>3. CASE EntryOfDistance(entry, field.meaning)
      <4>1. PICK l \in DOMAIN labels, k \in DOMAIN labels :
              entry.kind = "Expression" /\ field.meaning = Distance(l, k) /\ entry.target = 0
        BY <3>3 DEF EntryOfDistance
      <4>2. field.meaning.to = l /\ field.meaning.from = k
        BY <4>1 DEF Distance
      <4> QED
        BY <1>2, <3>0, <3>1, <4>1, <4>2 DEF EntryInRange, LabelsGain
    <3>4. CASE EntryOfAddress(entry, field.meaning)
      BY <3>0, <3>1, <3>4 DEF EntryInRange, EntryOfAddress, IsListed
    <3> QED
      BY <3>2, <3>3, <3>4 DEF EmitsEntry
  <2>5. ASSUME NEW r \in DOMAIN relocations' PROVE EntryInRange(relocations[r])'
    BY <2>3, <2>4, <2>q, EntryAdded
  <2> QED
    BY <2>5 DEF EntriesInRange
<1>7. FieldsInRange'
  BY <1>1, EmitsBasics DEF FieldsInRange
<1> QED
  BY <1>3, <1>4, <1>5, <1>6, <1>7, RangePartsNext DEF CoreInv

-------------------------------------------------------------------------------
(* The other actions keep the types *)

\* Nothing but the values of the fields has changed in them.
FieldsKept ==
  /\ fields' \in Seq(FieldType) /\ DOMAIN fields' = DOMAIN fields
  /\ \A n \in DOMAIN fields :
       /\ fields'[n].section = fields[n].section /\ fields'[n].at = fields[n].at
       /\ fields'[n].size = fields[n].size /\ fields'[n].meaning = fields[n].meaning
       /\ fields'[n].base = fields[n].base

\* The entries are for what they were for; only where a label is becomes known.
EntriesStay ==
  /\ relocations' \in Seq(RelocType) /\ DOMAIN relocations' = DOMAIN relocations
  /\ \A r \in DOMAIN relocations :
       /\ relocations'[r].kind = relocations[r].kind
       /\ relocations'[r].field = relocations[r].field
       /\ \/ relocations'[r].target = relocations[r].target
          \/ relocations'[r].target \in CodeSections'
       /\ relocations[r].kind = "X64AddressEntry" =>
            relocations'[r].payload = relocations[r].payload

\* Steps that take nothing away keep the types and ranges.
LEMMA StayCore ==
  ASSUME CoreInv, SectionsStay, FieldsKept, EntriesStay,
         labels' \in Seq(LabelType), DOMAIN labels \subseteq DOMAIN labels',
         fixups' \in SUBSET FixupType, phase' \in Phases, fault' \in Faults,
         given_base' = given_base, base_address' \in Bases \cup {NoBase},
         LabelsInRange', FixupsInRange'
  PROVE  CoreInv'
<1>1. TypeInv'
  BY DEF CoreInv, TypeInv, SectionsStay, FieldsKept, EntriesStay
<1>2. FieldsInRange'
  BY RangeParts DEF CoreInv, FieldsInRange, SectionsStay, FieldsKept
<1>3. ASSUME NEW r \in DOMAIN relocations' PROVE EntryInRange(relocations[r])'
  <2>1. PICK old : old = relocations[r]
    OBVIOUS
  <2>2. PICK new : new = relocations'[r]
    OBVIOUS
  <2>3. /\ new.kind = old.kind /\ new.field = old.field
        /\ new.target = old.target \/ new.target \in CodeSections'
        /\ old.kind = "X64AddressEntry" => new.payload = old.payload
        /\ EntryInRange(old)
    BY <1>3, <2>1, <2>2, RangeParts DEF CoreInv, EntriesStay, EntriesInRange
  <2>4. fields'[old.field].meaning = fields[old.field].meaning /\ old.field \in DOMAIN fields'
    BY <2>3 DEF EntryInRange, FieldsKept
  <2>5. EntryInRange(old)'
    BY <2>3, <2>4, EntryKept
  <2>6. EntryInRange(new)'
    BY <2>3, <2>5 DEF EntryInRange
  <2> QED
    BY <2>2, <2>6 DEF EntryInRange
<1>4. EntriesInRange'
  BY <1>3 DEF EntriesInRange
<1> QED
  BY <1>1, <1>2, <1>4, RangePartsNext DEF CoreInv

\* Steps that touch no reference.
LEMMA QuietCore ==
  ASSUME CoreInv, SectionsStay, UNCHANGED <<labels, fixups, relocations, fields>>,
         phase' \in Phases, fault' \in Faults,
         given_base' = given_base, base_address' \in Bases \cup {NoBase}
  PROVE  CoreInv'
<1>1. FieldsKept
  BY DEF FieldsKept, CoreInv, TypeInv
<1>2. EntriesStay
  BY DEF EntriesStay, CoreInv, TypeInv
<1>3. labels' \in Seq(LabelType) /\ fixups' \in SUBSET FixupType
  BY DEF CoreInv, TypeInv
<1>4. LabelsInRange'
  BY RangeParts DEF CoreInv, LabelsInRange, SectionsStay
<1>5. FixupsInRange'
  BY RangeParts DEF CoreInv, FixupsInRange, IsBound
<1> QED
  BY <1>1, <1>2, <1>3, <1>4, <1>5, StayCore

\* new_section() adds a section without a place.
LEMMA NewSectionIs ==
  ASSUME CoreInv, ConstantsAssumption, NEW alignment \in Alignments, NEW order \in Orders,
         NewSection(alignment, order)
  PROVE  /\ SectionsGrow
         /\ \E n \in Nat :
              /\ DOMAIN sections = 1 .. n /\ DOMAIN sections' = 1 .. n + 1
              /\ sections'[n + 1] = NewSectionRecord(alignment, order, NoOffset)
              /\ \A s \in DOMAIN sections : sections'[s] = sections[s]
<1> DEFINE rec == NewSectionRecord(alignment, order, NoOffset)
<1>1. sections \in Seq(SectionType) /\ SectionsTyped
  BY Basics DEF CoreInv, TypeInv
<1>2. PICK n \in Nat : n = Len(sections)
  BY <1>1, SeqIs
<1>3. DOMAIN sections = 1 .. n
  BY <1>1, <1>2, SeqIs
<1>4. rec \in SectionType /\ rec.order = order /\ order \in TextOrder + 1 .. TableOrder
  BY DEF ConstantsAssumption, NewSectionRecord, SectionType, TextOrder, TableOrder, NoOffset
<1> HIDE DEF rec
<1>5. /\ sections' = Append(sections, rec) /\ sections_by_order' = InsertByOrder(order, n + 1)
      /\ UNCHANGED <<address_table_section, slots>>
  BY <1>2 DEF NewSection, rec
<1>6. sections' \in Seq(SectionType) /\ Appended(sections, sections', rec)
  BY <1>1, <1>4, <1>5, AppendIsAppended
<1>7. /\ DOMAIN sections' = DOMAIN sections \cup {n + 1} /\ sections'[n + 1] = rec
      /\ \A s \in DOMAIN sections : sections'[s] = sections[s]
  BY <1>2, <1>6 DEF Appended
<1>8. DOMAIN sections' = 1 .. n + 1
  BY <1>3, <1>7
<1>9. SamePlaces(sections, sections')
  BY <1>7 DEF SamePlaces
<1>10. /\ Arranged(sections', InsertByOrder(order, n + 1))
       /\ sections'[TextSection].order = TextOrder
  BY <1>1, <1>2, <1>4, <1>7, <1>8, <1>9, InsertedArranged DEF SectionsTyped
<1>11. SectionsTyped'
  BY <1>1, <1>5, <1>6, <1>7, <1>10 DEF SectionsTyped, IsListed
<1>12. SectionsGrow
  BY <1>5, <1>7, <1>9, <1>11 DEF SectionsGrow, SectionsStay, CodeSections, IsListed
<1> QED
  BY <1>3, <1>7, <1>8, <1>12 DEF rec

\* Embedded bytes make their section larger.
LEMMA EmbedDataIs ==
  ASSUME CoreInv, ConstantsAssumption, NEW s \in CodeSections, NEW n \in Paddings, EmbedData(s, n)
  PROVE  LayoutStep /\ SectionsGrow
<1>1. sections \in Seq(SectionType) /\ s \in DOMAIN sections /\ n \in Nat /\ 0 + n = n
  BY Basics DEF CoreInv, ConstantsAssumption
<1>2. sections' = Extend(s, 0, n) /\ UNCHANGED <<sections_by_order, address_table_section, slots>>
  BY DEF EmbedData
<1>3. Larger(sections, sections', s, n)
  BY <1>1, <1>2, ExtendIsLarger
<1>4. LayoutStep
  BY <1>1, <1>2, <1>3 DEF LayoutStep, SizeGrows
<1> QED
  BY <1>4, LayoutStepGrows DEF CoreInv, TypeInv

\* A new label is not bound and has no fixups.
LEMMA NewLabelCore ==
  ASSUME CoreInv, NewLabel
  PROVE  CoreInv'
<1> DEFINE new == [section |-> 0, offset |-> 0, fixups |-> {}]
<1>0. /\ UNCHANGED <<layout, fixups, unresolved_fixup_count, relocations, fields, fault, Bystanders>>
      /\ labels' = Append(labels, new)
  BY DEF NewLabel
<1>1. labels \in Seq(LabelType) /\ new \in LabelType
  BY Basics DEF CoreInv, LabelType
<1>2. labels' \in Seq(LabelType) /\ Appended(labels, labels', new)
  BY <1>0, <1>1, AppendIsAppended
<1>3. SectionsStay
  BY <1>0 DEF layout, SectionsStay, SectionsTyped, CoreInv, TypeInv, CodeSections, IsListed
<1>4. FieldsKept /\ EntriesStay
  BY <1>0 DEF FieldsKept, EntriesStay, CoreInv, TypeInv
<1>5. /\ DOMAIN labels \subseteq DOMAIN labels'
      /\ \A l \in DOMAIN labels' : (l \in DOMAIN labels /\ labels'[l] = labels[l]) \/ labels'[l] = new
  BY <1>2 DEF Appended
<1>6. LabelsInRange'
  BY <1>0, <1>5, RangeParts DEF CoreInv, LabelsInRange, layout, CodeSections
<1>7. FixupsInRange'
  <2>1. \A l \in DOMAIN labels : labels'[l] = labels[l]
    BY <1>2 DEF Appended
  <2> QED
    BY <1>0, <1>5, <2>1, RangeParts DEF CoreInv, FixupsInRange, IsBound
<1> QED
  BY <1>0, <1>2, <1>3, <1>4, <1>5, <1>6, <1>7, StayCore DEF CoreInv, TypeInv, Bystanders

-------------------------------------------------------------------------------
(* Patching *)

\* Field n holds the bits of v as well.
Gains(n, v) == fields'[n].value = fields[n].value \cup {v}

\* Patching adds one value to a field.
LEMMA PatchedIs ==
  ASSUME NEW old \in FieldType, NEW v \in Int
  PROVE  LET new == [old EXCEPT !.value = @ \cup {v}] IN
         /\ new \in FieldType /\ new.value = old.value \cup {v}
         /\ new.section = old.section /\ new.at = old.at /\ new.size = old.size
         /\ new.meaning = old.meaning /\ new.base = old.base /\ new.indirect = old.indirect
<1>1. old.value \cup {v} \in SUBSET Int
  BY DEF FieldType
<1> QED
  BY <1>1 DEF FieldType

\* PatchFields() patches the fields of the fixups it is given, once.
LEMMA PatchIs ==
  ASSUME fields \in Seq(FieldType), NEW d, \A f \in DOMAIN d : d[f] \in Int, PatchFields(d)
  PROVE  /\ FieldsKept
         /\ \A n \in DOMAIN fields : fields'[n].indirect = fields[n].indirect
         /\ \A n \in DOMAIN fields :
              \/ /\ \A f \in DOMAIN d : f.field # n
                 /\ fields'[n] = fields[n]
              \/ \E f \in DOMAIN d : f.field = n /\ Gains(n, d[f])
<1>0. \A n \in DOMAIN fields : fields[n] \in FieldType
  BY SeqIs
<1> DEFINE Kept(n) == /\ fields'[n] \in FieldType
                      /\ fields'[n].section = fields[n].section /\ fields'[n].at = fields[n].at
                      /\ fields'[n].size = fields[n].size /\ fields'[n].meaning = fields[n].meaning
                      /\ fields'[n].base = fields[n].base
                      /\ fields'[n].indirect = fields[n].indirect
<1>1. /\ DOMAIN fields' = DOMAIN fields /\ fields' = [n \in DOMAIN fields |-> fields'[n]]
      /\ \A n \in DOMAIN fields :
           fields'[n] = IF \E f \in DOMAIN d : f.field = n
                        THEN Patched(n, d[CHOOSE f \in DOMAIN d : f.field = n])
                        ELSE fields[n]
  BY DEF PatchFields
<1>2. ASSUME NEW n \in DOMAIN fields
      PROVE  /\ Kept(n)
             /\ \/ /\ \A f \in DOMAIN d : f.field # n
                   /\ fields'[n] = fields[n]
                \/ \E f \in DOMAIN d : f.field = n /\ Gains(n, d[f])
  <2>1. CASE \E f \in DOMAIN d : f.field = n
    <3>1. PICK f : f = CHOOSE x \in DOMAIN d : x.field = n
      OBVIOUS
    <3>2. f \in DOMAIN d /\ f.field = n
      BY <2>1, <3>1
    <3>3. PICK v \in Int : v = d[f]
      BY <3>2
    <3>4. PICK old \in FieldType : old = fields[n]
      BY <1>0
    <3>5. fields'[n] = [old EXCEPT !.value = @ \cup {v}]
      BY <1>1, <2>1, <3>1, <3>3, <3>4 DEF Patched
    <3>6. Kept(n) /\ fields'[n].value = old.value \cup {v}
      BY <3>4, <3>5, PatchedIs
    <3> QED
      BY <3>2, <3>3, <3>4, <3>6 DEF Gains
  <2>2. CASE ~\E f \in DOMAIN d : f.field = n
    <3>1. fields'[n] = fields[n] /\ \A f \in DOMAIN d : f.field # n
      BY <1>1, <2>2
    <3> QED
      BY <1>0, <3>1
  <2> QED
    BY <2>1, <2>2
<1>3. fields' \in Seq(FieldType)
  <2>1. \A n \in DOMAIN fields : fields'[n] \in FieldType
    BY <1>2
  <2> QED
    BY <1>1, <2>1, MappedIsSeq
<1> QED
  BY <1>1, <1>2, <1>3 DEF FieldsKept

\* A displacement is a number.
LEMMA DisplacementIs ==
  ASSUME fields \in Seq(FieldType), NEW f \in FixupType, f.field \in DOMAIN fields,
         NEW start \in Int, NEW position \in Int
  PROVE  /\ Displacement(f, start, position) \in Int
         /\ Displacement(f, start, position) = position - (start + fields[f.field].at) + f.rel
<1>1. fields[f.field] \in FieldType
  BY SeqIs
<1>2. fields[f.field].at \in Int /\ f.rel \in Int
  BY <1>1 DEF FieldType, FixupType
<1>3. position - (start + fields[f.field].at) + f.rel \in Int
  BY <1>2
<1> QED
  BY <1>3 DEF Displacement

-------------------------------------------------------------------------------
(* What binding a label does, part by part *)

DirectFixups(l) == {f \in labels[l].fixups : f.label_or_reloc_id = 0}

FixupsPatched(s, l) == {f \in DirectFixups(l) : IsPatchedHere(f, s, sections[s].size)}

FixupsLeft(s, l) == DirectFixups(l) \ FixupsPatched(s, l)

EntriesTold(l) == {f.label_or_reloc_id : f \in labels[l].fixups \ DirectFixups(l)}

BindsLabel(s, l) ==
  /\ labels' \in Seq(LabelType) /\ DOMAIN labels' = DOMAIN labels
  /\ labels'[l] = [section |-> s, offset |-> sections[s].size, fixups |-> {}]
  /\ \A k \in DOMAIN labels : k # l => labels'[k] = labels[k]

BindsEntries(s, l) ==
  /\ EntriesStay
  /\ \A r \in DOMAIN relocations :
       IF r \in EntriesTold(l)
       THEN /\ relocations'[r].payload = relocations[r].payload + sections[s].size
            /\ relocations'[r].target = s
       ELSE relocations'[r] = relocations[r]

BindsFields(s, l) ==
  /\ FieldsKept
  /\ \A n \in DOMAIN fields : fields'[n].indirect = fields[n].indirect
  /\ \A n \in DOMAIN fields :
       \/ /\ \A f \in FixupsPatched(s, l) : f.field # n
          /\ fields'[n] = fields[n]
       \/ \E f \in FixupsPatched(s, l) : f.field = n /\ Gains(n, Displacement(f, 0, sections[s].size))

BindsFixups(s, l) ==
  /\ fixups' \in SUBSET FixupType
  /\ \A f \in fixups' :
       \/ f \in fixups
       \/ \E x \in FixupsLeft(s, l) :
            f.field = x.field /\ f.rel = x.rel /\ f.label_or_reloc_id = l
  /\ \A f \in fixups : f \in fixups'
  /\ \A x \in FixupsLeft(s, l) : [x EXCEPT !.label_or_reloc_id = l] \in fixups'

Binds(s, l) ==
  /\ Emitting /\ ~IsBound(l) /\ s \in CodeSections /\ l \in DOMAIN labels
  /\ BindsLabel(s, l) /\ BindsEntries(s, l) /\ BindsFields(s, l) /\ BindsFixups(s, l)
  /\ unresolved_fixup_count' =
       unresolved_fixup_count - Cardinality(labels[l].fixups \ FixupsLeft(s, l))
  /\ UNCHANGED <<layout, fault, Bystanders>>

\* The fixups of a label are in range.
LEMMA FixupsOfLabels ==
  ASSUME CoreInv, NEW l \in DOMAIN labels, NEW f \in labels[l].fixups
  PROVE  /\ f \in FixupType /\ f.field \in DOMAIN fields
         /\ f.label_or_reloc_id \in {0} \cup DOMAIN relocations
         /\ f.label_or_reloc_id # 0 => relocations[f.label_or_reloc_id].kind = "RelToAbs"
<1>1. labels[l] \in LabelType
  BY Basics DEF CoreInv
<1>2. f \in FixupType
  BY <1>1 DEF LabelType
<1> QED
  BY <1>2, RangeParts DEF CoreInv, LabelsInRange

\* The size of a section is a number.
LEMMA SectionSize ==
  ASSUME TypeInv, NEW s \in DOMAIN sections
  PROVE  sections[s] \in SectionType /\ sections[s].size \in Nat /\ s \in Nat /\ s # 0
<1>1. sections[s] \in SectionType /\ s \in Nat /\ s # 0
  BY Basics, SeqIs, Indexes
<1> QED
  BY <1>1 DEF SectionType

\* The parts of Bind(): the relocation entries,
LEMMA BindEntriesAre ==
  ASSUME CoreInv, NEW s \in CodeSections, NEW l \in DOMAIN labels, Bind(s, l)
  PROVE  BindsEntries(s, l)
<1> DEFINE told == EntriesTold(l)
           size == sections[s].size
           new(r) == [relocations[r] EXCEPT !.payload = @ + size, !.target = s]
<1>0. size \in Nat /\ s \in Nat /\ CodeSections' = CodeSections
  BY SectionSize DEF CoreInv, CodeSections, Bind, layout
<1>1. relocations' = [r \in DOMAIN relocations |-> IF r \in told THEN new(r) ELSE relocations[r]]
  BY DEF Bind, EntriesTold, DirectFixups
<1>2. relocations \in Seq(RelocType)
  BY Basics DEF CoreInv
<1>3. ASSUME NEW r \in DOMAIN relocations
      PROVE  /\ relocations'[r] \in RelocType
             /\ relocations'[r].kind = relocations[r].kind
             /\ relocations'[r].field = relocations[r].field
             /\ IF r \in told
                THEN /\ relocations'[r].payload = relocations[r].payload + size
                     /\ relocations'[r].target = s
                ELSE relocations'[r] = relocations[r]
  <2>1. PICK old \in RelocType : old = relocations[r]
    BY <1>2, SeqIs
  <2>2. PICK k \in Nat : k = size
    BY <1>0
  <2> DEFINE x == [old EXCEPT !.payload = old.payload + k, !.target = s]
  <2>3. relocations'[r] = IF r \in told THEN x ELSE old
    BY <1>1, <2>1, <2>2
  <2>4. old.payload + k \in Nat
    BY DEF RelocType
  <2>5. /\ x \in RelocType /\ x.kind = old.kind /\ x.field = old.field
        /\ x.payload = old.payload + k /\ x.target = s
    BY <1>0, <2>4 DEF RelocType
  <2> HIDE DEF x
  <2> QED
    BY <2>1, <2>2, <2>3, <2>5
<1>4. relocations' \in Seq(RelocType) /\ DOMAIN relocations' = DOMAIN relocations
  <2>1. relocations' = [r \in DOMAIN relocations |-> relocations'[r]]
    BY <1>1
  <2> QED
    BY <1>2, <1>3, <2>1, MappedIsSeq
<1>5. \A r \in DOMAIN relocations : r \in told => relocations[r].kind = "RelToAbs"
  BY FixupsOfLabels DEF EntriesTold, DirectFixups
<1>6. EntriesStay
  BY <1>0, <1>3, <1>4, <1>5 DEF EntriesStay
<1> QED
  BY <1>3, <1>6 DEF BindsEntries

\* the fixups that are left,
LEMMA BindFixupsAre ==
  ASSUME CoreInv, NEW s \in CodeSections, NEW l \in DOMAIN labels, Bind(s, l)
  PROVE  BindsFixups(s, l)
<1> DEFINE new(x) == [x EXCEPT !.label_or_reloc_id = l]
<1>1. fixups' = fixups \cup {new(x) : x \in FixupsLeft(s, l)}
  BY DEF Bind, FixupsLeft, FixupsPatched, DirectFixups
<1>2. fixups \in SUBSET FixupType /\ l \in Nat
  BY Basics DEF CoreInv, TypeInv
<1>3. ASSUME NEW x \in FixupsLeft(s, l)
      PROVE  /\ new(x) \in FixupType /\ new(x).field = x.field /\ new(x).rel = x.rel
             /\ new(x).label_or_reloc_id = l
  <2>1. x \in FixupType
    BY FixupsOfLabels DEF FixupsLeft, DirectFixups
  <2> QED
    BY <1>2, <2>1 DEF FixupType
<1>4. \A x \in FixupsLeft(s, l) : new(x) \in fixups'
  BY <1>1
<1> HIDE DEF new
<1>5. /\ fixups' \in SUBSET FixupType /\ \A f \in fixups : f \in fixups'
      /\ \A f \in fixups' : f \in fixups \/ \E x \in FixupsLeft(s, l) : f = new(x)
  BY <1>1, <1>2, <1>3
<1>6. \A f \in fixups' :
       \/ f \in fixups
       \/ \E x \in FixupsLeft(s, l) :
            f.field = x.field /\ f.rel = x.rel /\ f.label_or_reloc_id = l
  BY <1>3, <1>5
<1> QED
  BY <1>4, <1>5, <1>6 DEF BindsFixups, new

\* the fields,
LEMMA BindFieldsAre ==
  ASSUME CoreInv, NEW s \in CodeSections, NEW l \in DOMAIN labels, Bind(s, l)
  PROVE  BindsFields(s, l)
<1> DEFINE size == sections[s].size
           d == [f \in FixupsPatched(s, l) |-> Displacement(f, 0, size)]
<1>1. PatchFields(d)
  BY DEF Bind, FixupsPatched, DirectFixups
<1>2. fields \in Seq(FieldType) /\ size \in Int
  BY Basics, SectionSize DEF CoreInv, CodeSections
<1>3. \A f \in DOMAIN d : d[f] \in Int
  BY <1>2, FixupsOfLabels, DisplacementIs DEF FixupsPatched, DirectFixups
<1>4. \A f \in FixupsPatched(s, l) : d[f] = Displacement(f, 0, size)
  OBVIOUS
<1>5. DOMAIN d = FixupsPatched(s, l)
  OBVIOUS
<1> HIDE DEF d
<1>6. /\ FieldsKept
      /\ \A n \in DOMAIN fields : fields'[n].indirect = fields[n].indirect
      /\ \A n \in DOMAIN fields :
           \/ /\ \A f \in DOMAIN d : f.field # n
              /\ fields'[n] = fields[n]
           \/ \E f \in DOMAIN d : f.field = n /\ Gains(n, d[f])
  BY <1>1, <1>2, <1>3, PatchIs
<1>7. ASSUME NEW n \in DOMAIN fields
      PROVE  \/ /\ \A f \in FixupsPatched(s, l) : f.field # n
                /\ fields'[n] = fields[n]
             \/ \E f \in FixupsPatched(s, l) : f.field = n /\ Gains(n, Displacement(f, 0, size))
  BY <1>4, <1>5, <1>6
<1> QED
  BY <1>6, <1>7 DEF BindsFields

\* and all of it.
LEMMA BindIs ==
  ASSUME CoreInv, NEW s \in CodeSections, NEW l \in DOMAIN labels, Bind(s, l)
  PROVE  Binds(s, l)
<1> DEFINE x == [section |-> s, offset |-> sections[s].size, fixups |-> {}]
<1>1. labels \in Seq(LabelType) /\ x \in LabelType
  BY Basics, SectionSize DEF CoreInv, LabelType, CodeSections
<1>2. labels' = [labels EXCEPT ![l] = x]
  BY DEF Bind
<1>3. BindsLabel(s, l)
  BY <1>1, <1>2, ChangedIsSeq DEF BindsLabel
<1>4. /\ Emitting /\ ~IsBound(l) /\ UNCHANGED <<layout, fault, Bystanders>>
      /\ unresolved_fixup_count' =
           unresolved_fixup_count - Cardinality(labels[l].fixups \ FixupsLeft(s, l))
  BY DEF Bind, CountOut, FixupsLeft, FixupsPatched, DirectFixups
<1> QED
  BY <1>3, <1>4, BindEntriesAre, BindFixupsAre, BindFieldsAre DEF Binds

\* What does not touch the sections keeps them.
LEMMA SameLayout ==
  ASSUME CoreInv, UNCHANGED layout
  PROVE  SectionsStay /\ CodeSections' = CodeSections
BY DEF layout, SectionsStay, SectionsTyped, CoreInv, TypeInv, CodeSections, IsListed

\* Binding keeps the types and ranges.
LEMMA BindsCore ==
  ASSUME CoreInv, NEW s, NEW l, Binds(s, l)
  PROVE  CoreInv'
<1>1. /\ BindsLabel(s, l) /\ BindsEntries(s, l) /\ BindsFields(s, l) /\ BindsFixups(s, l)
      /\ UNCHANGED <<layout, fault, Bystanders>> /\ s \in CodeSections /\ l \in DOMAIN labels
  BY DEF Binds
<1>2. SectionsStay /\ CodeSections' = CodeSections
  BY <1>1, SameLayout
<1>3. EntriesStay /\ FieldsKept
  BY <1>1 DEF BindsEntries, BindsFields
<1>4. LabelsInRange'
  <2>1. DOMAIN relocations' = DOMAIN relocations /\ DOMAIN fields' = DOMAIN fields
    BY <1>3 DEF EntriesStay, FieldsKept
  <2>2. \A r \in DOMAIN relocations : relocations'[r].kind = relocations[r].kind
    BY <1>3 DEF EntriesStay
  <2>3. ASSUME NEW k \in DOMAIN labels'
        PROVE  /\ labels'[k].section \in {0} \cup CodeSections'
               /\ \A f \in labels'[k].fixups : k \in DOMAIN labels /\ f \in labels[k].fixups
    <3>1. CASE k = l
      BY <1>1, <1>2, <3>1 DEF BindsLabel
    <3>2. CASE k # l
      BY <1>1, <1>2, <3>2, RangeParts DEF BindsLabel, CoreInv, LabelsInRange
    <3> QED
      BY <3>1, <3>2
  <2> QED
    BY <2>1, <2>2, <2>3, FixupsOfLabels DEF LabelsInRange
<1>5. FixupsInRange'
  <2>1. DOMAIN fields' = DOMAIN fields /\ DOMAIN labels' = DOMAIN labels
    BY <1>1, <1>3 DEF BindsLabel, FieldsKept
  <2>2. s # 0 /\ labels'[l].section = s
    BY <1>1, Basics DEF CoreInv, BindsLabel
  <2>3. \A k \in DOMAIN labels : labels[k].section # 0 => labels'[k].section # 0
    BY <1>1, <2>2 DEF BindsLabel
  <2>4. ASSUME NEW f \in fixups'
        PROVE  /\ f.field \in DOMAIN fields /\ f.label_or_reloc_id \in DOMAIN labels
               /\ labels'[f.label_or_reloc_id].section # 0
    <3>1. CASE f \in fixups
      BY <2>3, <3>1, RangeParts DEF CoreInv, FixupsInRange, IsBound
    <3>2. CASE f \notin fixups
      <4>1. PICK x \in FixupsLeft(s, l) : f.field = x.field /\ f.label_or_reloc_id = l
        BY <1>1, <3>2 DEF BindsFixups
      <4>2. x.field \in DOMAIN fields
        BY <1>1, FixupsOfLabels DEF FixupsLeft, DirectFixups
      <4> QED
        BY <1>1, <2>2, <4>1, <4>2
    <3> QED
      BY <3>1, <3>2
  <2> QED
    BY <2>1, <2>4 DEF FixupsInRange, IsBound
<1> QED
  BY <1>1, <1>2, <1>3, <1>4, <1>5, StayCore
     DEF BindsLabel, BindsFixups, CoreInv, TypeInv, Bystanders

-------------------------------------------------------------------------------
(* What resolving the cross-section fixups does *)

CrossDisplacement(f) ==
  Displacement(f, sections[fields[f.field].section].offset, LabelPosition(f.label_or_reloc_id))

FixupsResolved == {f \in fixups : Fits(fields[f.field].size, CrossDisplacement(f))}

Resolves ==
  /\ phase = "flattened" /\ fault = "none"
  /\ FieldsKept
  /\ \A n \in DOMAIN fields : fields'[n].indirect = fields[n].indirect
  /\ \A n \in DOMAIN fields :
       \/ /\ \A f \in FixupsResolved : f.field # n
          /\ fields'[n] = fields[n]
       \/ \E f \in FixupsResolved : f.field = n /\ Gains(n, CrossDisplacement(f))
  /\ fixups' = fixups \ FixupsResolved
  /\ unresolved_fixup_count' = unresolved_fixup_count - Cardinality(FixupsResolved)
  /\ UNCHANGED <<layout, labels, relocations, fault, Bystanders>>

\* A section has a place or NoOffset.
LEMMA SectionOffset ==
  ASSUME TypeInv, NEW s \in DOMAIN sections
  PROVE  sections[s].offset \in Nat \cup {NoOffset} /\ sections[s].offset \in Int
<1>1. sections[s].offset \in Nat \cup {NoOffset}
  BY SectionSize DEF SectionType
<1> QED
  BY <1>1 DEF NoOffset

\* The position of a bound label.
LEMMA LabelPositionIs ==
  ASSUME CoreInv, NEW l \in DOMAIN labels, IsBound(l)
  PROVE  /\ labels[l].section \in CodeSections
         /\ LabelPosition(l) \in Int
         /\ LabelPosition(l) = sections[labels[l].section].offset + labels[l].offset
<1>1. labels[l].section \in CodeSections
  BY RangeParts DEF CoreInv, LabelsInRange, IsBound
<1>2. sections[labels[l].section].offset \in Int /\ labels[l].offset \in Int
  BY <1>1, Basics, SectionOffset DEF CoreInv
<1> QED
  BY <1>1, <1>2 DEF LabelPosition

\* A field is in a section that holds code.
LEMMA FieldIs ==
  ASSUME CoreInv, NEW n \in DOMAIN fields
  PROVE  /\ fields[n] \in FieldType /\ fields[n].section \in CodeSections
         /\ fields[n].section \in DOMAIN sections
         /\ fields[n].at \in Nat /\ fields[n].size \in {1, 4, AddressSize} /\ fields[n].size \in Nat
         /\ sections[fields[n].section].offset \in Int
         /\ n \in Nat
<1>1. fields[n] \in FieldType /\ n \in Nat
  BY Basics, SeqIs, Indexes DEF CoreInv
<1>2. fields[n].section \in CodeSections /\ fields[n].section \in DOMAIN sections
  BY RangeParts DEF CoreInv, FieldsInRange, CodeSections
<1> QED
  BY <1>1, <1>2, SectionOffset DEF FieldType, AddressSize, CoreInv

\* The fixups that bind() left over are in range.
LEMMA FixupIs ==
  ASSUME CoreInv, NEW f \in fixups
  PROVE  /\ f \in FixupType /\ f.field \in DOMAIN fields
         /\ f.label_or_reloc_id \in DOMAIN labels /\ IsBound(f.label_or_reloc_id)
         /\ CrossDisplacement(f) \in Int
         /\ CrossDisplacement(f) =
              LabelPosition(f.label_or_reloc_id)
              - (sections[fields[f.field].section].offset + fields[f.field].at) + f.rel
<1>1. /\ f \in FixupType /\ f.field \in DOMAIN fields
      /\ f.label_or_reloc_id \in DOMAIN labels /\ IsBound(f.label_or_reloc_id)
  BY RangeParts DEF CoreInv, TypeInv, FixupsInRange
<1>2. LabelPosition(f.label_or_reloc_id) \in Int
  BY <1>1, LabelPositionIs
<1>3. sections[fields[f.field].section].offset \in Int /\ fields \in Seq(FieldType)
  BY <1>1, FieldIs, Basics DEF CoreInv
<1> QED
  BY <1>1, <1>2, <1>3, DisplacementIs DEF CrossDisplacement

\* resolve_cross_section_fixups(), field by field.
LEMMA ResolveIs ==
  ASSUME CoreInv, ResolveCrossSectionFixups
  PROVE  Resolves
<1> DEFINE d == [f \in FixupsResolved |-> CrossDisplacement(f)]
<1>1. PatchFields(d)
  BY DEF ResolveCrossSectionFixups, FixupsResolved, CrossDisplacement
<1>2. fields \in Seq(FieldType)
  BY Basics DEF CoreInv
<1>3. \A f \in DOMAIN d : d[f] \in Int
  BY FixupIs DEF FixupsResolved
<1>4. \A f \in FixupsResolved : d[f] = CrossDisplacement(f)
  OBVIOUS
<1>5. DOMAIN d = FixupsResolved
  OBVIOUS
<1> HIDE DEF d
<1>6. /\ FieldsKept
      /\ \A n \in DOMAIN fields : fields'[n].indirect = fields[n].indirect
      /\ \A n \in DOMAIN fields :
           \/ /\ \A f \in DOMAIN d : f.field # n
              /\ fields'[n] = fields[n]
           \/ \E f \in DOMAIN d : f.field = n /\ Gains(n, d[f])
  BY <1>1, <1>2, <1>3, PatchIs
<1>7. ASSUME NEW n \in DOMAIN fields
      PROVE  \/ /\ \A f \in FixupsResolved : f.field # n
                /\ fields'[n] = fields[n]
             \/ \E f \in FixupsResolved : f.field = n /\ Gains(n, CrossDisplacement(f))
  BY <1>4, <1>5, <1>6
<1>8. /\ phase = "flattened" /\ fault = "none" /\ fixups' = fixups \ FixupsResolved
      /\ unresolved_fixup_count' = unresolved_fixup_count - Cardinality(FixupsResolved)
      /\ UNCHANGED <<layout, labels, relocations, fault, Bystanders>>
  BY DEF ResolveCrossSectionFixups, FixupsResolved, CrossDisplacement, CountOut
<1> QED
  BY <1>6, <1>7, <1>8 DEF Resolves

\* Resolving keeps the types and ranges.
LEMMA ResolvesCore ==
  ASSUME CoreInv, Resolves
  PROVE  CoreInv'
<1>1. UNCHANGED <<layout, labels, relocations, fault, Bystanders>> /\ FieldsKept
  BY DEF Resolves
<1>2. SectionsStay /\ CodeSections' = CodeSections
  BY <1>1, SameLayout
<1>3. EntriesStay /\ DOMAIN fields' = DOMAIN fields
  BY <1>1 DEF EntriesStay, CoreInv, TypeInv, FieldsKept
<1>4. fixups' \subseteq fixups
  BY DEF Resolves
<1>5. LabelsInRange'
  BY <1>1, <1>2, <1>3, RangeParts DEF CoreInv, LabelsInRange
<1>6. FixupsInRange'
  BY <1>1, <1>3, <1>4, RangeParts DEF CoreInv, FixupsInRange, IsBound
<1> QED
  BY <1>1, <1>2, <1>3, <1>4, <1>5, <1>6, StayCore DEF CoreInv, TypeInv, Bystanders

-------------------------------------------------------------------------------
(* Laying the sections out *)

\* The kth section starts behind the ones before it, aligned.
LEMMA LayoutStarts ==
  ASSUME NEW secs \in Seq(SectionType), NEW by, Arranged(secs, by),
         NEW n \in Nat, DOMAIN secs = 1 .. n, NEW k \in 1 .. n
  PROVE  /\ secs[by[k]] \in SectionType
         /\ LayoutEnd(secs, by, k - 1) \in Nat /\ LayoutStart(secs, by, k) \in Nat
         /\ LayoutStart(secs, by, k) = StartAfter(LayoutEnd(secs, by, k - 1), secs[by[k]])
         /\ LayoutStart(secs, by, k) >= LayoutEnd(secs, by, k - 1)
         /\ LayoutEnd(secs, by, k) = LayoutStart(secs, by, k) + RealSize(secs[by[k]])
<1>1. \A j \in 1 .. n : secs[by[j]] \in SectionType
  <2>1. \A j \in 1 .. n : by[j] \in DOMAIN secs
    BY DEF Arranged
  <2> QED
    BY <2>1, SeqIs
<1>2. \A j \in 0 .. n : LayoutEnd(secs, by, j) \in Nat
  BY <1>1, LayoutEndIsNat
<1>3. PICK x \in SectionType : x = secs[by[k]]
  BY <1>1
<1>4. k - 1 \in Nat /\ k - 1 \in 0 .. n /\ k - 1 + 1 = k
  OBVIOUS
<1>5. PICK e \in Nat : e = LayoutEnd(secs, by, k - 1)
  BY <1>2, <1>4
<1>6. LayoutStart(secs, by, k) = StartAfter(e, x)
  BY <1>3, <1>5 DEF LayoutStart
<1>7. StartAfter(e, x) \in Nat /\ StartAfter(e, x) >= e
  BY StartAfterIs
<1>8. \A j \in Nat : LayoutEnd(secs, by, j + 1) = StartAfter(LayoutEnd(secs, by, j), secs[by[j + 1]])
                                                 + RealSize(secs[by[j + 1]])
  BY LayoutEndIs
<1>9. LayoutEnd(secs, by, k) = StartAfter(e, x) + RealSize(x)
  BY <1>3, <1>4, <1>5, <1>8
<1> QED
  BY <1>3, <1>5, <1>6, <1>7, <1>9

\* What flatten() does to the section laid out kth of n.
FlattensSection(k, n) ==
  LET s == sections_by_order[k] IN
  /\ sections'[s] \in SectionType
  /\ sections'[s].alignment = sections[s].alignment /\ sections'[s].order = sections[s].order
  /\ sections'[s].size = sections[s].size
  /\ sections'[s].offset = LayoutStart(sections, sections_by_order, k)
  /\ sections'[s].virtual_size =
       IF k = n THEN sections[s].virtual_size
       ELSE LayoutStart(sections, sections_by_order, k + 1)
            - LayoutStart(sections, sections_by_order, k)

Flattens(n) ==
  /\ Emitting /\ phase' = "flattened"
  /\ n \in Nat \ {0} /\ DOMAIN sections = 1 .. n /\ DOMAIN sections' = 1 .. n
  /\ sections' = [s \in 1 .. n |-> sections'[s]]
  /\ sections_by_order \in [1 .. n -> 1 .. n] /\ Len(sections_by_order) = n
  /\ \A k \in 1 .. n : FlattensSection(k, n)
  /\ UNCHANGED <<given_base, base_address, sections_by_order, address_table_section, slots,
                 refs, fields, table, summary, fault>>

\* The order lists as many sections as there are.
LEMMA OrderIs ==
  ASSUME SectionsTyped
  PROVE  \E n \in Nat \ {0} :
           /\ DOMAIN sections = 1 .. n /\ Len(sections) = n
           /\ sections_by_order \in [1 .. n -> 1 .. n] /\ Len(sections_by_order) = n
           /\ DOMAIN sections_by_order = 1 .. n
<1>1. PICK n \in Nat : /\ DOMAIN sections = 1 .. n /\ n >= 1
                       /\ sections_by_order \in [1 .. n -> 1 .. n]
  BY DEF SectionsTyped, Arranged
<1>2. Len(sections_by_order) = n /\ DOMAIN sections_by_order = 1 .. n
  BY <1>1, FunctionIsSeq
<1>3. Len(sections) \in Nat /\ DOMAIN sections = 1 .. Len(sections)
  BY SeqIs DEF SectionsTyped
<1>4. Len(sections) = n
  BY <1>1, <1>3
<1> QED
  BY <1>1, <1>2, <1>4

\* flatten(), section by section.
LEMMA FlattenIs ==
  ASSUME CoreInv, Flatten
  PROVE  \E n : Flattens(n)
<1>0. SectionsTyped /\ sections \in Seq(SectionType) /\ Arranged(sections, sections_by_order)
  BY DEF CoreInv, TypeInv, SectionsTyped
<1>1. PICK n \in Nat \ {0} :
        /\ DOMAIN sections = 1 .. n
        /\ sections_by_order \in [1 .. n -> 1 .. n] /\ Len(sections_by_order) = n
        /\ DOMAIN sections_by_order = 1 .. n
  BY <1>0, OrderIs
<1> DEFINE m == Len(sections_by_order)
           At(k) == LayoutStart(sections, sections_by_order, k)
           K(id) == CHOOSE k \in 1 .. m : sections_by_order[k] = id
           new(id) == [sections[id] EXCEPT
                         !.offset = At(K(id)),
                         !.virtual_size = IF K(id) = m THEN @ ELSE At(K(id) + 1) - At(K(id))]
<1>2. sections' = [id \in DOMAIN sections |-> new(id)]
  BY DEF Flatten
<1>3. ASSUME NEW k \in 1 .. n PROVE K(sections_by_order[k]) = k
  <2>1. \A j \in 1 .. n : sections_by_order[j] = sections_by_order[k] => j = k
    BY <1>0, <1>1 DEF Arranged
  <2> QED
    BY <1>1, <2>1
<1>4. ASSUME NEW k \in 1 .. n PROVE FlattensSection(k, n)
  <2>1. PICK s : s = sections_by_order[k]
    OBVIOUS
  <2>2. s \in DOMAIN sections /\ K(s) = k
    BY <1>1, <1>3, <2>1
  <2>3. PICK old \in SectionType : old = sections[s]
    BY <1>0, <2>2, SeqIs
  <2>4. PICK at \in Nat : at = At(k)
    BY <1>0, <1>1, LayoutStarts
  <2>5. PICK v \in Nat : v = IF k = n THEN old.virtual_size ELSE At(k + 1) - At(k)
    <3>1. old.virtual_size \in Nat
      BY DEF SectionType
    <3>2. ASSUME k # n PROVE At(k + 1) - At(k) \in Nat
      <4>1. PICK j \in 1 .. n : j = k + 1 /\ j - 1 = k
        BY <3>2
      <4>2. /\ LayoutEnd(sections, sections_by_order, j - 1) \in Nat
            /\ LayoutStart(sections, sections_by_order, j) \in Nat
            /\ LayoutStart(sections, sections_by_order, j)
                 >= LayoutEnd(sections, sections_by_order, j - 1)
        BY <1>0, <1>1, LayoutStarts
      <4>3. PICK end \in Nat, next \in Nat :
              /\ end = LayoutEnd(sections, sections_by_order, k)
              /\ next = At(k + 1) /\ next >= end
        BY <4>1, <4>2
      <4>4. RealSize(old) \in Nat
        BY RealSizeIs
      <4>5. end = at + RealSize(old)
        <5>1. LayoutEnd(sections, sections_by_order, k)
                = LayoutStart(sections, sections_by_order, k)
                  + RealSize(sections[sections_by_order[k]])
          BY <1>0, <1>1, LayoutStarts
        <5> QED
          BY <2>1, <2>3, <2>4, <4>3, <5>1
      <4> QED
        BY <2>4, <4>3, <4>4, <4>5
    <3> QED
      BY <3>1, <3>2
  <2> HIDE DEF K, At, m
  <2>6. sections'[s] = [old EXCEPT !.offset = at, !.virtual_size = v]
    <3>1. sections'[s] = new(s)
      BY <1>2, <2>2
    <3>2. m = n
      BY <1>1 DEF m
    <3> QED
      BY <2>2, <2>3, <2>4, <2>5, <3>1, <3>2
  <2>7. /\ sections'[s] \in SectionType
        /\ sections'[s].alignment = old.alignment /\ sections'[s].order = old.order
        /\ sections'[s].size = old.size /\ sections'[s].offset = at
        /\ sections'[s].virtual_size = v
    BY <2>6 DEF SectionType
  <2> QED
    BY <2>1, <2>3, <2>4, <2>5, <2>7 DEF FlattensSection, At
<1> HIDE DEF new
<1>5. DOMAIN sections' = 1 .. n /\ sections' = [s \in 1 .. n |-> sections'[s]]
  BY <1>1, <1>2
<1> QED
  BY <1>1, <1>4, <1>5 DEF Flattens, Flatten

\* Laying out keeps the types and ranges.
LEMMA FlattensTyped ==
  ASSUME CoreInv, NEW n, Flattens(n)
  PROVE  SectionsStay /\ CodeSections' = CodeSections
<1>1. /\ n \in Nat \ {0} /\ DOMAIN sections = 1 .. n /\ DOMAIN sections' = 1 .. n
      /\ sections_by_order \in [1 .. n -> 1 .. n] /\ \A k \in 1 .. n : FlattensSection(k, n)
      /\ UNCHANGED <<sections_by_order, address_table_section, slots>>
      /\ Arranged(sections, sections_by_order) /\ sections[TextSection].order = TextOrder
  BY DEF Flattens, CoreInv, TypeInv, SectionsTyped
<1>2. \A s \in 1 .. n : \E k \in 1 .. n : sections_by_order[k] = s
  BY <1>1 DEF Arranged
<1>3. ASSUME NEW s \in 1 .. n
      PROVE  sections'[s] \in SectionType /\ sections'[s].order = sections[s].order
  <2>1. PICK k \in 1 .. n : sections_by_order[k] = s
    BY <1>2
  <2> QED
    BY <1>1, <2>1 DEF FlattensSection
<1>4. sections' \in Seq(SectionType)
  <2>1. sections' \in [1 .. n -> SectionType]
    <3>1. sections' = [s \in 1 .. n |-> sections'[s]]
      BY DEF Flattens
    <3> QED
      BY <1>3, <3>1
  <2> QED
    BY <1>1, <2>1, FunctionIsSeq
<1>5. Arranged(sections', sections_by_order)
  BY <1>1, <1>3, ArrangedSame
<1>6. sections'[TextSection].order = TextOrder
  <2>1. TextSection \in 1 .. n
    BY <1>1 DEF TextSection
  <2> QED
    BY <1>1, <1>3, <2>1
<1>7. SectionsTyped'
  BY <1>1, <1>4, <1>5, <1>6 DEF SectionsTyped, CoreInv, TypeInv, IsListed
<1> QED
  BY <1>1, <1>7 DEF SectionsStay, CodeSections, IsListed

-------------------------------------------------------------------------------
(* Relocation *)

EntriesReached(base) == {r \in DOMAIN relocations : \A q \in 1 .. r - 1 : Relocatable(base, q)}
EntriesWritten(base) == {r \in EntriesReached(base) : Relocatable(base, r)}
EntriesIndirect(base) == {r \in EntriesReached(base) : NeedsTable(base, r)}
AddressesUsed(base) == {relocations[r].payload : r \in EntriesIndirect(base)}
AllWritten(base) == EntriesWritten(base) = DOMAIN relocations
TableIsLast(base) ==
  AllWritten(base) /\ sections_by_order[Len(sections_by_order)] = address_table_section

TableSizeIs(n) ==
  LET t == address_table_section IN
  /\ t \in DOMAIN sections /\ sections' \in Seq(SectionType) /\ DOMAIN sections' = DOMAIN sections
  /\ \A s \in DOMAIN sections :
       /\ s # t => sections'[s] = sections[s]
       /\ sections'[s].alignment = sections[s].alignment /\ sections'[s].order = sections[s].order
       /\ sections'[s].offset = sections[s].offset
  /\ sections'[t].size = n /\ sections'[t].virtual_size = n

RelocatesFields(base) ==
  /\ FieldsKept
  /\ \A n \in DOMAIN fields :
       \/ /\ \A r \in EntriesWritten(base) : relocations[r].field # n
          /\ fields'[n] = fields[n]
       \/ \E r \in EntriesWritten(base) :
            /\ relocations[r].field = n /\ Gains(n, RelocValue(base, r))
            /\ fields'[n].indirect <=> r \in EntriesIndirect(base)

Relocates(base) ==
  /\ phase = "flattened" /\ fault = "none"
  /\ given_base # NoBase => base = given_base
  /\ base_address' = base /\ base \in Bases
  /\ phase' = IF AllWritten(base) THEN "relocated" ELSE "failed"
  /\ slots' \in [Addresses -> Nat \cup {NoSlot, NotListed}]
  /\ \A a \in Addresses : slots'[a] = IF a \in AddressesUsed(base) THEN Slot(base, a) ELSE slots[a]
  /\ table' = {<<Slot(base, a), a>> : a \in AddressesUsed(base)}
  /\ RelocatesFields(base)
  /\ IF TableIsLast(base) THEN TableSizeIs(Cardinality(AddressesUsed(base)) * AddressSize)
                          ELSE sections' = sections
  /\ summary' = [estimate  |-> CodeSize,
                 reduction |-> IF TableIsLast(base)
                               THEN sections[address_table_section].virtual_size
                                    - Cardinality(AddressesUsed(base)) * AddressSize
                               ELSE 0]
  /\ UNCHANGED <<given_base, sections_by_order, address_table_section, refs, fault>>

\* Finitely many entries have finitely many payloads.
LEMMA PayloadsFinite ==
  ASSUME relocations \in Seq(RelocType), NEW S \in SUBSET DOMAIN relocations
  PROVE  LET P == {relocations[r].payload : r \in S} IN
         IsFiniteSet(P) /\ Cardinality(P) \in Nat
<1> DEFINE P == {relocations[r].payload : r \in S}
           f == [r \in S |-> relocations[r].payload]
<1>1. IsFiniteSet(S)
  <2>1. PICK n \in Nat : DOMAIN relocations = 1 .. n
    BY SeqIs
  <2>2. IsFiniteSet(1 .. n)
    BY FS_Interval
  <2> QED
    BY <2>1, <2>2, FS_Subset
<1>2. f \in Surjection(S, P)
  BY DEF Surjection
<1>3. IsFiniteSet(P)
  BY <1>1, <1>2, FS_Surjection
<1> QED
  BY <1>3, FS_CardinalityType

\* A slot is a number.
LEMMA SlotIsNat ==
  ASSUME relocations \in Seq(RelocType), NEW base, NEW a
  PROVE  Slot(base, a) \in Nat
<1> DEFINE S == {r \in DOMAIN relocations : NeedsTable(base, r) /\ r < FirstNeed(base, a)}
<1>1. Slot(base, a) = Cardinality({relocations[r].payload : r \in S})
  BY DEF Slot
<1>2. S \in SUBSET DOMAIN relocations
  OBVIOUS
<1> HIDE DEF S
<1> QED
  BY <1>1, <1>2, PayloadsFinite

\* A relocation entry is in range, and ends where its field does.
LEMMA EntryIs ==
  ASSUME CoreInv, NEW r \in DOMAIN relocations
  PROVE  /\ relocations[r] \in RelocType
         /\ relocations[r].payload \in Nat /\ relocations[r].field \in DOMAIN fields
         /\ EntryInRange(relocations[r])
         /\ RelocEnd(r) \in Int
         /\ RelocEnd(r) = FieldPosition(relocations[r].field)
<1>1. relocations[r] \in RelocType
  BY Basics, SeqIs DEF CoreInv
<1>2. EntryInRange(relocations[r])
  BY RangeParts DEF CoreInv, EntriesInRange
<1>3. relocations[r].payload \in Nat /\ relocations[r].field \in DOMAIN fields
  BY <1>1, <1>2 DEF RelocType, EntryInRange
<1>4. PICK f \in DOMAIN fields : f = relocations[r].field
  BY <1>3
<1>5. sections[fields[f].section].offset \in Int /\ fields[f].at \in Int /\ fields[f].size \in Int
  BY FieldIs
<1>6. sections[fields[f].section].offset + FieldEnd(f) \in Int
  BY <1>5 DEF FieldEnd
<1> QED
  BY <1>1, <1>2, <1>3, <1>4, <1>6 DEF RelocEnd, FieldPosition

\* Whatever relocate_to_base() writes is a number.
LEMMA RelocValueIs ==
  ASSUME CoreInv, NEW base \in Nat, NEW r \in DOMAIN relocations, Relocatable(base, r)
  PROVE  RelocValue(base, r) \in Int
<1>1. PICK re \in RelocType : re = relocations[r]
  BY EntryIs
<1>2. PICK m : m = fields[re.field].meaning
  OBVIOUS
<1>3. PICK p \in Nat : p = re.payload
  BY <1>1, EntryIs
<1>4. PICK e \in Int : e = RelocEnd(r)
  BY EntryIs
<1>5. RelativeTo(base, r) = p - (base + e) /\ RelativeTo(base, r) \in Int
  BY <1>1, <1>3, <1>4 DEF RelativeTo
<1>6. EntryInRange(re)
  BY <1>1, EntryIs
<1>7. re.kind \in RelocKinds
  BY DEF RelocType
<1>8. CASE re.kind = "RelToAbs"
  <2>1. re.target # 0 /\ re.target \in CodeSections
    BY <1>1, <1>6, <1>8 DEF Relocatable, EntryInRange
  <2>2. sections[re.target].offset \in Int
    BY <2>1, Basics, SectionOffset DEF CoreInv
  <2>3. RelocValue(base, r) = p + base + sections[re.target].offset
    BY <1>1, <1>3, <1>8 DEF RelocValue
  <2> QED
    BY <2>2, <2>3
<1>9. CASE re.kind = "Expression"
  <2>1. m.to \in DOMAIN labels /\ m.from \in DOMAIN labels
    BY <1>2, <1>6, <1>9 DEF EntryInRange
  <2>2. IsBound(m.to) /\ IsBound(m.from)
    BY <1>1, <1>2, <1>9 DEF Relocatable
  <2>3. LabelPosition(m.to) \in Int /\ LabelPosition(m.from) \in Int
    BY <2>1, <2>2, LabelPositionIs
  <2>4. RelocValue(base, r) = LabelPosition(m.to) - LabelPosition(m.from)
    BY <1>1, <1>2, <1>9 DEF RelocValue
  <2> QED
    BY <2>3, <2>4
<1>10. CASE re.kind = "AbsToRel"
  BY <1>1, <1>5, <1>10 DEF RelocValue
<1>11. CASE re.kind = "X64AddressEntry"
  <2>1. address_table_section \in DOMAIN sections
    <3>1. re.payload \in Addresses /\ IsListed(re.payload)
      BY <1>6, <1>11 DEF EntryInRange
    <3> QED
      BY <3>1 DEF CoreInv, TypeInv, SectionsTyped
  <2>2. sections[address_table_section].offset \in Int
    BY <2>1, SectionOffset DEF CoreInv
  <2>3. Slot(base, re.payload) \in Nat
    BY SlotIsNat, Basics DEF CoreInv
  <2>4. TablePosition(Slot(base, re.payload)) \in Int
    BY <2>2, <2>3 DEF TablePosition, AddressSize
  <2>5. CASE NeedsTable(base, r)
    <3>1. RelocValue(base, r) = TablePosition(Slot(base, re.payload)) - RelocEnd(r)
      BY <1>1, <1>11, <2>5 DEF RelocValue
    <3> QED
      BY <1>4, <2>4, <3>1
  <2>6. CASE ~NeedsTable(base, r)
    BY <1>1, <1>5, <1>11, <2>6 DEF RelocValue
  <2> QED
    BY <2>5, <2>6
<1> QED
  BY <1>7, <1>8, <1>9, <1>10, <1>11 DEF RelocKinds

\* What the sets of entries are.
LEMMA EntriesAre ==
  ASSUME NEW base
  PROVE  /\ EntriesWritten(base) \subseteq EntriesReached(base)
         /\ EntriesIndirect(base) \subseteq EntriesReached(base)
         /\ EntriesReached(base) \subseteq DOMAIN relocations
         /\ \A r \in EntriesWritten(base) : r \in DOMAIN relocations /\ Relocatable(base, r)
         /\ \A r \in EntriesIndirect(base) : r \in DOMAIN relocations /\ NeedsTable(base, r)
BY DEF EntriesWritten, EntriesIndirect, EntriesReached

\* The addresses that get a slot are finitely many, and listed.
LEMMA UsedIsFinite ==
  ASSUME CoreInv, NEW base
  PROVE  /\ IsFiniteSet(AddressesUsed(base)) /\ Cardinality(AddressesUsed(base)) \in Nat
         /\ \A a \in AddressesUsed(base) : a \in Addresses /\ IsListed(a)
<1>1. relocations \in Seq(RelocType) /\ EntriesIndirect(base) \in SUBSET DOMAIN relocations
  BY Basics, EntriesAre DEF CoreInv
<1>2. IsFiniteSet(AddressesUsed(base)) /\ Cardinality(AddressesUsed(base)) \in Nat
  BY <1>1, PayloadsFinite DEF AddressesUsed
<1>3. ASSUME NEW r \in EntriesIndirect(base)
      PROVE  relocations[r].payload \in Addresses /\ IsListed(relocations[r].payload)
  BY EntriesAre, EntryIs DEF NeedsTable, EntryInRange
<1> QED
  BY <1>2, <1>3 DEF AddressesUsed

\* Making a branch indirect changes nothing else of its field.
LEMMA RedirectedIs ==
  ASSUME NEW old \in FieldType, NEW b \in BOOLEAN
  PROVE  LET new == [old EXCEPT !.indirect = b] IN
         /\ new \in FieldType /\ new.value = old.value
         /\ new.section = old.section /\ new.at = old.at /\ new.size = old.size
         /\ new.meaning = old.meaning /\ new.base = old.base /\ new.indirect = b
BY DEF FieldType

\* relocate_to_base(), field by field,
LEMMA RelocateFieldsAre ==
  ASSUME CoreInv, ConstantsAssumption, NEW base \in Bases, RelocateToBase(base)
  PROVE  RelocatesFields(base)
<1> DEFINE W == EntriesWritten(base)
           Chosen(n) == CHOOSE r \in W : relocations[r].field = n
           new(n) == [Patched(n, RelocValue(base, Chosen(n))) EXCEPT
                        !.indirect = Chosen(n) \in EntriesIndirect(base)]
<1>1. fields' = [n \in DOMAIN fields |->
                   IF \E r \in W : relocations[r].field = n THEN new(n) ELSE fields[n]]
  BY DEF RelocateToBase, EntriesWritten, EntriesIndirect, EntriesReached
<1>2. fields \in Seq(FieldType) /\ base \in Nat
  BY Basics DEF CoreInv, ConstantsAssumption
<1> DEFINE Kept(n) == /\ fields'[n] \in FieldType
                      /\ fields'[n].section = fields[n].section /\ fields'[n].at = fields[n].at
                      /\ fields'[n].size = fields[n].size /\ fields'[n].meaning = fields[n].meaning
                      /\ fields'[n].base = fields[n].base
<1>3. ASSUME NEW n \in DOMAIN fields
      PROVE  /\ Kept(n)
             /\ \/ /\ \A r \in W : relocations[r].field # n
                   /\ fields'[n] = fields[n]
                \/ \E r \in W :
                     /\ relocations[r].field = n /\ Gains(n, RelocValue(base, r))
                     /\ fields'[n].indirect <=> r \in EntriesIndirect(base)
  <2>1. PICK old \in FieldType : old = fields[n]
    BY <1>2, SeqIs
  <2>2. CASE \E r \in W : relocations[r].field = n
    <3>1. PICK r : r = Chosen(n)
      OBVIOUS
    <3>2. r \in W /\ relocations[r].field = n
      BY <2>2, <3>1
    <3>3. PICK v \in Int : v = RelocValue(base, r)
      BY <1>2, <3>2, EntriesAre, RelocValueIs
    <3> DEFINE b == r \in EntriesIndirect(base)
    <3>4. b \in BOOLEAN
      OBVIOUS
    <3> DEFINE x == [old EXCEPT !.value = @ \cup {v}]
    <3>5. fields'[n] = [x EXCEPT !.indirect = b]
      BY <1>1, <2>1, <2>2, <3>1, <3>3, <3>4 DEF Patched
    <3> HIDE DEF b
    <3>6. /\ x \in FieldType /\ x.value = old.value \cup {v}
          /\ x.section = old.section /\ x.at = old.at /\ x.size = old.size
          /\ x.meaning = old.meaning /\ x.base = old.base
      BY PatchedIs
    <3> HIDE DEF x
    <3> DEFINE y == [x EXCEPT !.indirect = b]
    <3>7. /\ y \in FieldType /\ y.value = x.value
          /\ y.section = x.section /\ y.at = x.at /\ y.size = x.size
          /\ y.meaning = x.meaning /\ y.base = x.base /\ y.indirect = b
      BY <3>4, <3>6, RedirectedIs
    <3> HIDE DEF y
    <3>8. fields'[n] = y
      BY <3>5 DEF y
    <3>9. Kept(n) /\ Gains(n, RelocValue(base, r))
      BY <2>1, <3>3, <3>6, <3>7, <3>8 DEF Gains
    <3>10. fields'[n].indirect <=> r \in EntriesIndirect(base)
      BY <3>7, <3>8 DEF b
    <3> HIDE DEF Kept
    <3> QED
      BY <3>2, <3>9, <3>10
  <2>3. CASE ~\E r \in W : relocations[r].field = n
    <3>1. fields'[n] = fields[n] /\ \A r \in W : relocations[r].field # n
      BY <1>1, <2>3
    <3> QED
      BY <2>1, <3>1
  <2> QED
    BY <2>2, <2>3
<1>4. DOMAIN fields' = DOMAIN fields /\ fields' = [n \in DOMAIN fields |-> fields'[n]]
  BY <1>1
<1>5. fields' \in Seq(FieldType)
  BY <1>2, <1>3, <1>4, MappedIsSeq
<1> QED
  BY <1>3, <1>4, <1>5 DEF RelocatesFields, FieldsKept

\* the trimming of the address table,
LEMMA TrimmedIs ==
  ASSUME sections \in Seq(SectionType), NEW t \in DOMAIN sections, t = address_table_section,
         NEW n \in Nat,
         sections' = [sections EXCEPT ![t].size = n, ![t].virtual_size = n]
  PROVE  TableSizeIs(n)
<1> DEFINE old == sections[t]
           x == [[old EXCEPT !.size = n] EXCEPT !.virtual_size = n]
<1>1. old \in SectionType
  BY SeqIs
<1>2. sections' = [sections EXCEPT ![t] = x]
  OBVIOUS
<1> HIDE DEF old
<1>3. /\ x \in SectionType /\ x.alignment = old.alignment /\ x.order = old.order
      /\ x.offset = old.offset /\ x.size = n /\ x.virtual_size = n
  BY <1>1 DEF SectionType
<1> HIDE DEF x
<1> DEFINE new == [sections EXCEPT ![t] = x]
<1>4. /\ new \in Seq(SectionType) /\ DOMAIN new = DOMAIN sections
      /\ new[t] = x /\ \A j \in DOMAIN sections : j # t => new[j] = sections[j]
  BY <1>3, ChangedIsSeq
<1>5. sections' = new
  BY <1>2
<1> HIDE DEF new
<1> QED
  BY <1>3, <1>4, <1>5 DEF TableSizeIs, old

\* and all of it.
LEMMA RelocateIs ==
  ASSUME CoreInv, ConstantsAssumption, NEW base \in Bases, RelocateToBase(base)
  PROVE  Relocates(base)
<1> DEFINE used == AddressesUsed(base)
           c == Cardinality(used) * AddressSize
           t == address_table_section
           x == [[sections[t] EXCEPT !.size = c] EXCEPT !.virtual_size = c]
<1>0. /\ sections \in Seq(SectionType) /\ relocations \in Seq(RelocType) /\ SectionsTyped
      /\ slots \in [Addresses -> Nat \cup {NoSlot, NotListed}]
  BY Basics DEF CoreInv, TypeInv, SectionsTyped
<1>1. /\ phase = "flattened" /\ fault = "none"
      /\ given_base # NoBase => base = given_base
      /\ base_address' = base
      /\ phase' = IF AllWritten(base) THEN "relocated" ELSE "failed"
      /\ slots' = [a \in Addresses |-> IF a \in used THEN Slot(base, a) ELSE slots[a]]
      /\ table' = {<<Slot(base, a), a>> : a \in used}
      /\ UNCHANGED <<given_base, sections_by_order, address_table_section, refs, fault>>
  BY DEF RelocateToBase, AllWritten, AddressesUsed, EntriesWritten, EntriesIndirect, EntriesReached
<1>2. /\ sections' = IF TableIsLast(base)
                     THEN [sections EXCEPT ![t].size = c, ![t].virtual_size = c]
                     ELSE sections
      /\ summary' = [estimate  |-> CodeSize,
                     reduction |-> IF TableIsLast(base) THEN sections[t].virtual_size - c ELSE 0]
  BY DEF RelocateToBase, TableIsLast, AllWritten, AddressesUsed, EntriesWritten, EntriesIndirect,
         EntriesReached
<1>3. slots' \in [Addresses -> Nat \cup {NoSlot, NotListed}]
  <2>1. \A a \in Addresses : Slot(base, a) \in Nat
    BY <1>0, SlotIsNat
  <2> HIDE DEF used
  <2> QED
    BY <1>0, <1>1, <2>1
<1>4. c \in Nat
  BY UsedIsFinite DEF AddressSize
<1>5. ASSUME TableIsLast(base) PROVE TableSizeIs(c)
  <2>1. t \in DOMAIN sections
    <3>1. PICK n \in Nat \ {0} : /\ DOMAIN sections = 1 .. n /\ Len(sections_by_order) = n
                                 /\ sections_by_order \in [1 .. n -> 1 .. n]
      BY <1>0, OrderIs
    <3>2. sections_by_order[n] \in 1 .. n
      BY <3>1
    <3> QED
      BY <1>5, <3>1, <3>2 DEF TableIsLast
  <2> HIDE DEF c
  <2> QED
    BY <1>0, <1>2, <1>4, <1>5, <2>1, TrimmedIs
<1>6. \A a \in Addresses : slots'[a] = IF a \in used THEN Slot(base, a) ELSE slots[a]
  BY <1>1
<1>7. RelocatesFields(base)
  BY RelocateFieldsAre
<1> QED
  BY <1>1, <1>2, <1>3, <1>5, <1>6, <1>7 DEF Relocates

\* Relocating keeps the types and ranges.
LEMMA RelocatesCore ==
  ASSUME CoreInv, NEW base, Relocates(base)
  PROVE  CoreInv'
<1>0. /\ phase' \in Phases /\ base_address' \in Bases
      /\ slots' \in [Addresses -> Nat \cup {NoSlot, NotListed}]
      /\ \A a \in Addresses : slots'[a] = IF a \in AddressesUsed(base) THEN Slot(base, a) ELSE slots[a]
      /\ UNCHANGED <<given_base, sections_by_order, address_table_section, refs, fault>>
  BY DEF Relocates, Phases
<1>1. /\ sections \in Seq(SectionType) /\ Arranged(sections, sections_by_order)
      /\ sections[TextSection].order = TextOrder
      /\ address_table_section \in {0} \cup (DOMAIN sections \ {TextSection})
      /\ \A a \in Addresses : IsListed(a) => address_table_section # 0
  BY DEF CoreInv, TypeInv, SectionsTyped
<1>2. /\ sections' \in Seq(SectionType) /\ DOMAIN sections' = DOMAIN sections
      /\ \A s \in DOMAIN sections : sections'[s].order = sections[s].order
  <2>1. CASE TableIsLast(base)
    BY <2>1 DEF Relocates, TableSizeIs
  <2>2. CASE ~TableIsLast(base)
    BY <1>1, <2>2 DEF Relocates
  <2> QED
    BY <2>1, <2>2
<1>3. Arranged(sections', sections_by_order) /\ sections'[TextSection].order = TextOrder
  <2>1. TextSection \in DOMAIN sections
    BY <1>1 DEF Arranged, TextSection
  <2> QED
    BY <1>1, <1>2, <2>1, ArrangedSame
<1>4. \A a \in Addresses : slots'[a] # NotListed <=> slots[a] # NotListed
  <2>1. \A a : Slot(base, a) \in Nat
    BY SlotIsNat, Basics DEF CoreInv
  <2>2. \A a \in AddressesUsed(base) : slots[a] # NotListed
    BY UsedIsFinite DEF IsListed
  <2>3. \A a : Slot(base, a) # NotListed
    BY <2>1 DEF NotListed
  <2> QED
    BY <1>0, <2>2, <2>3
<1>5. SectionsTyped'
  BY <1>0, <1>1, <1>2, <1>3, <1>4 DEF SectionsTyped, IsListed
<1>6. SectionsStay /\ CodeSections' = CodeSections
  BY <1>0, <1>2, <1>4, <1>5 DEF SectionsStay, CodeSections, IsListed
<1>7. FieldsKept /\ EntriesStay
  BY <1>0 DEF Relocates, RelocatesFields, refs, EntriesStay, CoreInv, TypeInv
<1>8. LabelsInRange' /\ FixupsInRange'
  <2>1. DOMAIN fields' = DOMAIN fields
    BY <1>7 DEF FieldsKept
  <2>2. LabelsInRange /\ FixupsInRange
    BY RangeParts DEF CoreInv
  <2>3. LabelsInRange'
    BY <1>0, <1>6, <2>1, <2>2 DEF LabelsInRange, refs
  <2>4. FixupsInRange'
    BY <1>0, <2>1, <2>2 DEF FixupsInRange, refs, IsBound
  <2> QED
    BY <2>3, <2>4
<1>9. /\ labels' \in Seq(LabelType) /\ fixups' \in SUBSET FixupType /\ fault' \in Faults
      /\ DOMAIN labels \subseteq DOMAIN labels' /\ given_base' = given_base
  BY <1>0 DEF refs, CoreInv, TypeInv
<1> QED
  BY <1>0, <1>6, <1>7, <1>8, <1>9, StayCore

-------------------------------------------------------------------------------
(* The start *)

\* What init() and reinit() leave, the base addresses aside.
Empty ==
  /\ sections = Cleared.sections /\ sections_by_order = << TextSection >>
  /\ address_table_section = 0 /\ slots = Cleared.slots
  /\ labels = << >> /\ fixups = {} /\ unresolved_fixup_count = 0 /\ relocations = << >>
  /\ fields = << >> /\ table = {}
  /\ phase = "emitting" /\ summary = Cleared.summary
  /\ fault = "none"

\* An empty CodeHolder has one section, .text.
LEMMA EmptySections ==
  ASSUME Empty
  PROVE  /\ SectionsTyped /\ DOMAIN sections = 1 .. 1
         /\ sections[1] = [alignment |-> 1, order |-> TextOrder, offset |-> 0,
                           virtual_size |-> 0, size |-> 0]
         /\ sections_by_order = << 1 >> /\ \A a \in Addresses : slots[a] = NotListed
<1> DEFINE x == [alignment |-> 1, order |-> TextOrder, offset |-> 0, virtual_size |-> 0, size |-> 0]
<1>1. sections = << x >> /\ sections_by_order = << 1 >>
  BY DEF Empty, Cleared, NewSectionRecord, TextSection
<1>2. x \in SectionType
  BY DEF SectionType, TextOrder, TableOrder, NoOffset
<1>3. x.order = TextOrder
  OBVIOUS
<1> HIDE DEF x
<1>4. sections \in [1 .. 1 -> SectionType] /\ sections[1] = x
  BY <1>1, <1>2
<1>5. sections \in Seq(SectionType) /\ DOMAIN sections = 1 .. 1
  BY <1>4, FunctionIsSeq
<1>6. sections_by_order \in [1 .. 1 -> 1 .. 1] /\ sections_by_order[1] = 1
  BY <1>1
<1>7. Arranged(sections, sections_by_order)
  BY <1>3, <1>4, <1>5, <1>6 DEF Arranged, TextSection, TextOrder
<1>8. slots = [a \in Addresses |-> NotListed] /\ address_table_section = 0
  BY DEF Empty, Cleared
<1> QED
  BY <1>1, <1>3, <1>4, <1>5, <1>7, <1>8 DEF SectionsTyped, TextSection, IsListed, x

Start == Empty /\ given_base \in GivenBases /\ base_address \in Bases \cup {NoBase}

\* An empty CodeHolder is well-typed,
LEMMA EmptyCore ==
  ASSUME Start
  PROVE  CoreInv
<1>0. Empty /\ given_base \in GivenBases /\ base_address \in Bases \cup {NoBase}
  BY DEF Start
<1>1. /\ labels \in Seq(LabelType) /\ relocations \in Seq(RelocType) /\ fields \in Seq(FieldType)
      /\ DOMAIN labels = {} /\ DOMAIN relocations = {} /\ DOMAIN fields = {} /\ fixups = {}
  BY <1>0 DEF Empty
<1>2. phase \in Phases /\ fault \in Faults
  BY <1>0 DEF Empty, Phases, Faults
<1>3. TypeInv
  BY <1>0, <1>1, <1>2, EmptySections DEF TypeInv
<1>4. RangeInv
  BY <1>1 DEF RangeInv
<1> QED
  BY <1>3, <1>4 DEF CoreInv

\* after reinit() as well.
LEMMA EmptyCoreNext == Start' => CoreInv'
BY EmptyCore, PTL

\* The step of every action, as what it does to the state.
Steps ==
  \/ \E alignment \in Alignments, order \in Orders : NewSection(alignment, order)
  \/ NewLabel
  \/ \E s \in CodeSections, n \in Paddings : EmbedData(s, n)
  \/ \E field : EmitsValue(field)
  \/ \E field, l : EmitsFixup(field, l)
  \/ \E field, entry : EmitsEntry(field, entry)
  \/ fault' \in Faults /\ UNCHANGED <<layout, refs, fields, Bystanders>>
  \/ \E s, l : Binds(s, l)
  \/ \E n : Flattens(n)
  \/ Resolves
  \/ \E base : Relocates(base)
  \/ Reinit
  \/ UNCHANGED vars

\* Every action is one of these steps.
LEMMA NextSteps ==
  ASSUME CoreInv, ConstantsAssumption, [Next]_vars
  PROVE  Steps
<1>1. CASE Refer
  BY <1>1, ReferCases DEF Steps
<1>2. ASSUME NEW s \in CodeSections, NEW l \in DOMAIN labels, Bind(s, l) PROVE Steps
  BY <1>2, BindIs DEF Steps
<1>3. CASE Flatten
  BY <1>3, FlattenIs DEF Steps
<1>4. CASE ResolveCrossSectionFixups
  BY <1>4, ResolveIs DEF Steps
<1>5. ASSUME NEW base \in Bases, RelocateToBase(base) PROVE Steps
  BY <1>5, RelocateIs DEF Steps
<1> QED
  BY <1>1, <1>2, <1>3, <1>4, <1>5 DEF Next, Steps

\* Every step keeps the types and ranges.
LEMMA CoreNext ==
  ASSUME CoreInv, ConstantsAssumption, Steps
  PROVE  CoreInv'
<1>0. fault \in Faults /\ phase \in Phases /\ given_base \in GivenBases /\ base_address \in Bases \cup {NoBase}
  BY DEF CoreInv, TypeInv
<1>1. ASSUME NEW alignment \in Alignments, NEW order \in Orders, NewSection(alignment, order)
      PROVE  CoreInv'
  <2>1. UNCHANGED <<refs, fields, fault, Bystanders>>
    BY <1>1 DEF NewSection
  <2>2. SectionsStay
    BY <1>1, NewSectionIs DEF SectionsGrow
  <2> QED
    BY <1>0, <2>1, <2>2, QuietCore DEF refs, Bystanders
<1>2. CASE NewLabel
  BY <1>2, NewLabelCore
<1>3. ASSUME NEW s \in CodeSections, NEW n \in Paddings, EmbedData(s, n) PROVE CoreInv'
  <2>1. UNCHANGED <<refs, fields, fault, Bystanders>>
    BY <1>3 DEF EmbedData
  <2>2. SectionsStay
    BY <1>3, EmbedDataIs DEF SectionsGrow
  <2> QED
    BY <1>0, <2>1, <2>2, QuietCore DEF refs, Bystanders
<1>4. CASE fault' \in Faults /\ UNCHANGED <<layout, refs, fields, Bystanders>>
  BY <1>0, <1>4, SameLayout, QuietCore DEF refs, Bystanders
<1>5. ASSUME NEW n, Flattens(n) PROVE CoreInv'
  <2>1. phase' \in Phases /\ UNCHANGED <<given_base, base_address, refs, fields, fault>>
    BY <1>5 DEF Flattens, Phases
  <2> QED
    BY <1>0, <1>5, <2>1, FlattensTyped, QuietCore DEF refs
<1>6. CASE Reinit
  BY <1>0, <1>6, EmptyCoreNext DEF Reinit, Start, Empty
<1>7. CASE UNCHANGED vars
  BY <1>0, <1>7, SameLayout, QuietCore DEF vars, refs
<1> QED
  BY <1>1, <1>2, <1>3, <1>4, <1>5, <1>6, <1>7, EmitsValueCore, EmitsFixupCore, EmitsEntryCore,
     BindsCore, ResolvesCore, RelocatesCore DEF Steps

\* init() starts from an empty CodeHolder.
LEMMA InitEmpty ==
  ASSUME ConstantsAssumption, Init
  PROVE  Start
BY DEF Init, Start, Empty, ConstantsAssumption

-------------------------------------------------------------------------------
(* The layout *)

Listed == {a \in Addresses : IsListed(a)}

TextAtZero == sections[TextSection].alignment = 1 /\ sections[TextSection].offset = 0

OnlyTextPlaced == \A s \in DOMAIN sections : s # TextSection => sections[s].offset = NoOffset

\* The table has room for every address that may need it.
TableWaits ==
  LET t == address_table_section IN
  /\ IsFiniteSet(Listed) /\ \A a \in Addresses : slots[a] \in {NoSlot, NotListed}
  /\ t # 0 => /\ sections[t].alignment = AddressSize /\ sections[t].order = TableOrder
              /\ sections[t].size = 0
              /\ sections[t].virtual_size >= Cardinality(Listed) * AddressSize

OrdersKept == \A s \in CodeSections : s = TextSection \/ sections[s].order \in Orders

\* Section `a` ends where section `b` starts.
Meets(a, b) == sections[a].offset + RealSize(sections[a]) = sections[b].offset

Flat ==
  /\ \A s \in DOMAIN sections : /\ sections[s].offset \in Nat
                                /\ sections[s].size # 0 => sections[s].offset % sections[s].alignment = 0
  /\ \A n \in Nat : DOMAIN sections = 1 .. n =>
       /\ \A k \in 1 .. n : k < n => Meets(sections_by_order[k], sections_by_order[k + 1])
       /\ LET last == sections[sections_by_order[n]]
          IN  RealSize(last) # 0 => last.offset % last.alignment = 0

Done == LayoutSound /\ ReducedSizeHoldsCode /\ (TableOrder \notin Orders => TableIsCopied)

LayoutInv ==
  /\ TextAtZero /\ OrdersKept
  /\ phase = "emitting" => OnlyTextPlaced
  /\ phase \in {"emitting", "flattened"} => TableWaits
  /\ phase = "flattened" => Flat
  /\ phase = "relocated" => Done

\* What is used of a section all the time.
LEMMA SectionIs ==
  ASSUME SectionsTyped, NEW s \in DOMAIN sections
  PROVE  /\ sections[s] \in SectionType /\ RealSize(sections[s]) \in Nat
         /\ sections[s].virtual_size \in Nat /\ sections[s].size \in Nat
         /\ sections[s].virtual_size <= RealSize(sections[s])
         /\ sections[s].size <= RealSize(sections[s])
         /\ RealSize(sections[s]) \in {sections[s].virtual_size, sections[s].size}
         /\ sections[s].alignment \in Nat \ {0}
<1>1. PICK x \in SectionType : x = sections[s]
  BY SeqIs DEF SectionsTyped
<1>2. x.virtual_size \in Nat /\ x.size \in Nat /\ x.alignment \in Nat \ {0}
  BY DEF SectionType
<1> QED
  BY <1>1, <1>2, RealSizeIs

\* A section that is laid out earlier ends before.
LEMMA FlatIsApart ==
  ASSUME SectionsTyped, Flat, NEW n \in Nat, DOMAIN sections = 1 .. n,
         NEW j \in 1 .. n, NEW k \in 1 .. n, j < k
  PROVE  sections[sections_by_order[j]].offset + RealSize(sections[sections_by_order[j]])
           <= sections[sections_by_order[k]].offset
<1> DEFINE by(i) == sections_by_order[i]
           off(i) == sections[by(i)].offset
           real(i) == RealSize(sections[by(i)])
           Good == {d \in Nat : j + 1 + d <= n => off(j) + real(j) <= off(j + 1 + d)}
<1>1. \A i \in 1 .. n : by(i) \in DOMAIN sections
  BY DEF SectionsTyped, Arranged
<1>2. \A i \in 1 .. n : off(i) \in Nat /\ real(i) \in Nat
  BY <1>1, SectionIs DEF Flat
<1>3. \A i \in 1 .. n : i < n => off(i) + real(i) = off(i + 1)
  BY DEF Flat, Meets
<1> HIDE DEF off, real
<1>4. 0 \in Good
  <2> SUFFICES ASSUME j + 1 + 0 <= n PROVE off(j) + real(j) <= off(j + 1 + 0)
    OBVIOUS
  <2>1. PICK i \in 1 .. n : i = j + 1 /\ i = j + 1 + 0
    OBVIOUS
  <2>2. off(j) + real(j) = off(i) /\ off(j) \in Nat /\ real(j) \in Nat
    BY <1>2, <1>3, <2>1
  <2>3. off(j) + real(j) <= off(i)
    BY <2>2
  <2> QED
    BY <2>1, <2>3
<1>5. ASSUME NEW d \in Nat, d \in Good PROVE d + 1 \in Good
  <2> SUFFICES ASSUME j + 1 + (d + 1) <= n PROVE off(j) + real(j) <= off(j + 1 + (d + 1))
    OBVIOUS
  <2>1. PICK i \in 1 .. n : i = j + 1 + d /\ i < n /\ i + 1 = j + 1 + (d + 1)
    OBVIOUS
  <2>2. off(j) + real(j) <= off(i)
    BY <1>5, <2>1
  <2>3. off(i + 1) >= off(i)
    BY <1>2, <1>3, <2>1
  <2>4. off(i + 1) = off(j + 1 + (d + 1)) /\ i + 1 \in 1 .. n
    BY <2>1
  <2>5. off(j) + real(j) <= off(i + 1)
    <3>1. off(j) \in Nat /\ real(j) \in Nat /\ off(i) \in Nat /\ off(i + 1) \in Nat
      BY <1>2, <2>4
    <3> QED
      BY <2>2, <2>3, <3>1
  <2> QED
    BY <2>4, <2>5
<1> HIDE DEF Good
<1>6. Inductive(Good)
  BY <1>4, <1>5 DEF Inductive
<1>7. k - (j + 1) \in Good
  <2>1. k - (j + 1) \in Nat
    OBVIOUS
  <2> QED
    BY <1>6, <2>1, InductiveHasNat
<1>8. j + 1 + (k - (j + 1)) = k /\ k <= n
  OBVIOUS
<1>9. off(j) + real(j) <= off(k)
  BY <1>7, <1>8 DEF Good
<1> QED
  BY <1>9 DEF off, real

\* flatten()'s promise, from the meeting sections.
LEMMA FlatIsSound ==
  ASSUME SectionsTyped, Flat
  PROVE  LayoutSound
<1>1. PICK n \in Nat \ {0} :
        /\ DOMAIN sections = 1 .. n /\ sections_by_order \in [1 .. n -> 1 .. n]
        /\ DOMAIN sections_by_order = 1 .. n
  BY OrderIs
<1>2. Arranged(sections, sections_by_order)
  BY DEF SectionsTyped
<1>3. \A s \in DOMAIN sections : \E k \in DOMAIN sections_by_order : sections_by_order[k] = s
  BY <1>2 DEF Arranged
<1>4. \A s \in DOMAIN sections : sections[s].size # 0 => sections[s].offset % sections[s].alignment = 0
  BY DEF Flat
<1>5. ASSUME NEW j \in 1 .. n, NEW k \in 1 .. n, j < k
      PROVE  /\ sections_by_order[j] # sections_by_order[k]
             /\ sections[sections_by_order[j]].order <= sections[sections_by_order[k]].order
             /\ sections[sections_by_order[j]].offset + RealSize(sections[sections_by_order[j]])
                  <= sections[sections_by_order[k]].offset
  <2>1. sections_by_order[j] # sections_by_order[k]
    BY <1>1, <1>2, <1>5 DEF Arranged
  <2>2. sections[sections_by_order[j]].order <= sections[sections_by_order[k]].order
    BY <1>1, <1>2, <1>5 DEF Arranged
  <2> QED
    BY <1>1, <1>5, <2>1, <2>2, FlatIsApart
<1> QED
  BY <1>1, <1>3, <1>4, <1>5 DEF LayoutSound

\* What the sections take is no less than where the last one ends.
LEMMA FlatEnds ==
  ASSUME SectionsTyped, Flat, TextAtZero, NEW n \in Nat \ {0}, DOMAIN sections = 1 .. n
  PROVE  /\ LayoutEnd(sections, sections_by_order, n) \in Nat
         /\ LayoutEnd(sections, sections_by_order, n) >=
              sections[sections_by_order[n]].offset + RealSize(sections[sections_by_order[n]])
<1> DEFINE by(i) == sections_by_order[i]
           off(i) == sections[by(i)].offset
           real(i) == RealSize(sections[by(i)])
           end(i) == LayoutEnd(sections, sections_by_order, i)
           start(i) == LayoutStart(sections, sections_by_order, i)
           Good == {d \in Nat : 1 + d <= n => end(1 + d) >= off(1 + d) + real(1 + d)}
<1>0. sections \in Seq(SectionType) /\ Arranged(sections, sections_by_order)
  BY DEF SectionsTyped
<1>1. \A i \in 1 .. n : by(i) \in DOMAIN sections
  BY <1>0 DEF Arranged
<1>2. \A i \in 1 .. n : off(i) \in Nat /\ real(i) \in Nat
  BY <1>1, SectionIs DEF Flat
<1>3. \A i \in 1 .. n : i < n => off(i) + real(i) = off(i + 1)
  BY DEF Flat, Meets
<1>4. \A i \in 1 .. n : /\ start(i) \in Nat /\ end(i - 1) \in Nat /\ start(i) >= end(i - 1)
                        /\ end(i) = start(i) + real(i)
  BY <1>0, LayoutStarts
<1>5. off(1) = 0
  BY <1>0 DEF Arranged, TextAtZero
<1> HIDE DEF by, off, real, end, start
<1>6. 0 \in Good
  <2>1. 1 \in 1 .. n
    OBVIOUS
  <2>2. start(1) \in Nat /\ end(1) = start(1) + real(1) /\ real(1) \in Nat
    BY <1>2, <1>4, <2>1
  <2>3. 1 + 0 = 1
    OBVIOUS
  <2> QED
    BY <1>5, <2>2, <2>3
<1>7. ASSUME NEW d \in Nat, d \in Good PROVE d + 1 \in Good
  <2> SUFFICES ASSUME 1 + (d + 1) <= n PROVE end(1 + (d + 1)) >= off(1 + (d + 1)) + real(1 + (d + 1))
    OBVIOUS
  <2>1. PICK i \in 1 .. n : i = 1 + d /\ i < n
    OBVIOUS
  <2>2. PICK j \in 1 .. n : j = i + 1 /\ j - 1 = i /\ j = 1 + (d + 1)
    BY <2>1
  <2>3. end(i) >= off(i) + real(i) /\ off(i) + real(i) = off(j)
    BY <1>3, <1>7, <2>1, <2>2
  <2>4. start(j) \in Nat /\ end(i) \in Nat /\ start(j) >= end(i) /\ end(j) = start(j) + real(j)
    BY <1>4, <2>2
  <2>5. off(i) \in Nat /\ real(i) \in Nat /\ off(j) \in Nat /\ real(j) \in Nat
    BY <1>2
  <2>6. end(j) >= off(j) + real(j)
    BY <2>3, <2>4, <2>5
  <2> QED
    BY <2>2, <2>6
<1> HIDE DEF Good
<1>8. Inductive(Good)
  BY <1>6, <1>7 DEF Inductive
<1>9. n - 1 \in Good
  <2>1. n - 1 \in Nat
    OBVIOUS
  <2> QED
    BY <1>8, <2>1, InductiveHasNat
<1>10. 1 + (n - 1) = n /\ n \in 1 .. n
  OBVIOUS
<1>11. end(n) >= off(n) + real(n)
  BY <1>9, <1>10 DEF Good
<1>12. end(n) \in Nat
  BY <1>2, <1>4, <1>10
<1> QED
  BY <1>11, <1>12 DEF end, off, real, by

\* The table, when no address or one more is listed.
TableStays ==
  LET t == address_table_section IN
  /\ UNCHANGED <<slots, address_table_section>>
  /\ t # 0 => sections'[t].size = sections[t].size /\ sections'[t].virtual_size = sections[t].virtual_size

TableGains ==
  LET t == address_table_section IN
  \E a \in Addresses :
    /\ NewlyListed(a)
    /\ \/ /\ t = 0 /\ address_table_section' # 0
          /\ sections'[address_table_section'] = FirstTable
       \/ /\ t # 0 /\ address_table_section' = t
          /\ sections'[t].size = sections[t].size
          /\ sections'[t].virtual_size = sections[t].virtual_size + AddressSize

\* Emitting leaves the address table alone or gives it room for one address.
LEMMA LayoutStepIs ==
  ASSUME SectionsTyped, LayoutStep
  PROVE  /\ CodeSections' = CodeSections
         /\ \A s \in DOMAIN sections' : s \notin DOMAIN sections => sections'[s].offset = NoOffset
         /\ TableStays \/ TableGains
<1>0. /\ address_table_section \in {0} \cup DOMAIN sections /\ sections \in Seq(SectionType)
      /\ \A s \in DOMAIN sections : s # 0
  BY Indexes DEF SectionsTyped
<1>1. PICK s \in CodeSections, n \in Nat : SizeGrows(s, n) \/ \E a \in Addresses : Lists(a, s, n)
  BY DEF LayoutStep
<1>2. CASE SizeGrows(s, n)
  <2>1. DOMAIN sections' = DOMAIN sections /\ UNCHANGED <<slots, address_table_section>>
    BY <1>2 DEF SizeGrows, Larger
  <2>2. TableStays
    BY <1>0, <1>2 DEF TableStays, SizeGrows, Larger, CodeSections
  <2> QED
    BY <2>1, <2>2 DEF CodeSections
<1>3. ASSUME NEW a \in Addresses, Lists(a, s, n)
      PROVE  /\ CodeSections' = CodeSections
             /\ \A k \in DOMAIN sections' : k \notin DOMAIN sections => sections'[k].offset = NoOffset
             /\ TableStays \/ TableGains
  <2>1. PICK secs \in Seq(SectionType) :
          /\ Larger(sections, secs, s, n)
          /\ \/ AlreadyListed(a, secs)
             \/ NewlyListed(a) /\ (HasNewTable(secs) \/ HasLargerTable(secs))
    BY <1>3 DEF Lists
  <2>2. /\ DOMAIN secs = DOMAIN sections /\ Len(secs) = Len(sections)
        /\ \A k \in DOMAIN sections :
             /\ secs[k].virtual_size = sections[k].virtual_size
             /\ k # s => secs[k].size = sections[k].size
    BY <2>1 DEF Larger
  <2>3. CASE AlreadyListed(a, secs)
    <3>1. sections' = secs /\ UNCHANGED <<slots, address_table_section>>
      BY <2>3 DEF AlreadyListed
    <3>2. TableStays
      BY <1>0, <2>2, <3>1 DEF TableStays, CodeSections
    <3> QED
      BY <2>2, <3>1, <3>2 DEF CodeSections
  <2>4. CASE NewlyListed(a) /\ HasNewTable(secs)
    <3>1. PICK m \in Nat : m = Len(secs)
      BY SeqIs
    <3>2. /\ address_table_section = 0 /\ address_table_section' = m + 1
          /\ m + 1 \notin DOMAIN secs /\ DOMAIN sections' = DOMAIN secs \cup {m + 1}
          /\ sections'[m + 1] = FirstTable
      BY <2>4, <3>1 DEF HasNewTable, Appended
    <3>3. TableGains
      <4>1. m + 1 # 0
        OBVIOUS
      <4> QED
        BY <2>4, <3>2, <4>1 DEF TableGains
    <3>4. CodeSections' = CodeSections
      BY <1>0, <2>2, <3>2 DEF CodeSections
    <3>5. FirstTable.offset = NoOffset
      BY DEF FirstTable
    <3> QED
      BY <2>2, <3>2, <3>3, <3>4, <3>5
  <2>5. CASE NewlyListed(a) /\ HasLargerTable(secs)
    <3>1. /\ address_table_section # 0 /\ address_table_section' = address_table_section
          /\ TableLarger(secs, sections', address_table_section, AddressSize)
      BY <2>5 DEF HasLargerTable
    <3>2. DOMAIN sections' = DOMAIN sections
      BY <2>2, <3>1 DEF TableLarger
    <3>3. TableGains
      <4>1. PICK t : t = address_table_section
        OBVIOUS
      <4>2. t \in DOMAIN sections /\ t # s
        BY <1>0, <3>1, <4>1 DEF CodeSections
      <4>3. sections'[t].size = secs[t].size /\ sections'[t].virtual_size = secs[t].virtual_size + AddressSize
        BY <2>2, <3>1, <4>1, <4>2 DEF TableLarger
      <4>4. sections'[t].size = sections[t].size
            /\ sections'[t].virtual_size = sections[t].virtual_size + AddressSize
        BY <2>2, <4>2, <4>3
      <4> QED
        BY <2>5, <3>1, <4>1, <4>4 DEF TableGains
    <3> QED
      BY <3>1, <3>2, <3>3 DEF CodeSections
  <2> QED
    BY <2>1, <2>3, <2>4, <2>5
<1> QED
  BY <1>1, <1>2, <1>3

\* Either way it has room for all that are listed.
LEMMA StepKeepsTable ==
  ASSUME SectionsTyped, LayoutStep, SectionsGrow, TableWaits
  PROVE  TableWaits'
<1> DEFINE t == address_table_section
<1>0. /\ IsFiniteSet(Listed) /\ \A a \in Addresses : slots[a] \in {NoSlot, NotListed}
      /\ t # 0 => /\ sections[t].alignment = AddressSize /\ sections[t].order = TableOrder
                  /\ sections[t].size = 0
                  /\ sections[t].virtual_size >= Cardinality(Listed) * AddressSize
      /\ \A a \in Addresses : IsListed(a) => t # 0
      /\ t \in {0} \cup DOMAIN sections /\ slots \in [Addresses -> Nat \cup {NoSlot, NotListed}]
  BY DEF TableWaits, SectionsTyped
<1>1. \A s \in DOMAIN sections : /\ sections'[s].alignment = sections[s].alignment
                                 /\ sections'[s].order = sections[s].order
  BY DEF SectionsGrow, SamePlaces
<1>2. CASE TableStays
  <2>1. Listed' = Listed /\ slots' = slots /\ address_table_section' = t
    BY <1>2 DEF TableStays, Listed, IsListed
  <2> QED
    BY <1>0, <1>1, <1>2, <2>1 DEF TableWaits, TableStays
<1>3. CASE TableGains
  <2>1. PICK a \in Addresses :
          /\ NewlyListed(a)
          /\ \/ /\ t = 0 /\ address_table_section' # 0
                /\ sections'[address_table_section'] = FirstTable
             \/ /\ t # 0 /\ address_table_section' = t
                /\ sections'[t].size = sections[t].size
                /\ sections'[t].virtual_size = sections[t].virtual_size + AddressSize
    BY <1>3 DEF TableGains
  <2>2. /\ slots' = [slots EXCEPT ![a] = NoSlot] /\ a \notin Listed
    BY <2>1 DEF NewlyListed, Listed
  <2>3. Listed' = Listed \cup {a}
    BY <1>0, <2>2 DEF Listed, IsListed, NoSlot, NotListed
  <2>4. /\ IsFiniteSet(Listed') /\ Cardinality(Listed') = Cardinality(Listed) + 1
        /\ Cardinality(Listed) \in Nat
    BY <1>0, <2>2, <2>3, FS_AddElement, FS_CardinalityType
  <2>5. \A b \in Addresses : slots'[b] \in {NoSlot, NotListed}
    BY <1>0, <2>2
  <2>6. CASE t = 0
    <3>1. Listed = {} /\ Cardinality(Listed) = 0
      BY <1>0, <2>6, FS_EmptySet DEF Listed
    <3>2. Cardinality(Listed') * AddressSize = AddressSize
      BY <2>4, <3>1 DEF AddressSize
    <3>3. sections'[address_table_section'] = FirstTable
      BY <2>1, <2>6
    <3>4. FirstTable.virtual_size = AddressSize /\ AddressSize >= AddressSize /\ FirstTable.size = 0
          /\ FirstTable.alignment = AddressSize /\ FirstTable.order = TableOrder
      BY DEF FirstTable, AddressSize
    <3> QED
      BY <2>4, <2>5, <3>2, <3>3, <3>4 DEF TableWaits
  <2>7. CASE t # 0
    <3>1. /\ address_table_section' = t /\ sections'[t].size = 0
          /\ sections'[t].virtual_size = sections[t].virtual_size + AddressSize
          /\ sections[t].virtual_size >= Cardinality(Listed) * AddressSize
      BY <1>0, <2>1, <2>7
    <3>2. PICK v \in Nat : v = sections[t].virtual_size
      BY <1>0, <2>7, SectionIs
    <3>3. PICK c \in Nat : c = Cardinality(Listed)
      BY <2>4
    <3>4. v + AddressSize >= (c + 1) * AddressSize
      BY <3>1, <3>2, <3>3 DEF AddressSize
    <3>5. sections'[t].virtual_size >= Cardinality(Listed') * AddressSize
      BY <2>4, <3>1, <3>2, <3>3, <3>4
    <3> QED
      BY <1>0, <1>1, <2>4, <2>5, <2>7, <3>1, <3>5 DEF TableWaits
  <2> QED
    BY <2>6, <2>7
<1> QED
  BY <1>2, <1>3, LayoutStepIs

\* The steps keep the layout: those that do not touch it,
LEMMA LayoutUntouched ==
  ASSUME LayoutInv, UNCHANGED <<layout, Bystanders>>
  PROVE  LayoutInv'
<1>1. UNCHANGED <<sections, sections_by_order, address_table_section, slots>>
  BY DEF layout
<1>2. UNCHANGED <<phase, summary, table>>
  BY DEF Bystanders
<1>3. Done => Done'
  BY <1>1, <1>2 DEF Done, LayoutSound, ReducedSizeHoldsCode, TableIsCopied, Laid
<1>4. TextAtZero' /\ OrdersKept'
  BY <1>1 DEF LayoutInv, TextAtZero, OrdersKept, CodeSections
<1>5. /\ OnlyTextPlaced => OnlyTextPlaced'
      /\ TableWaits => TableWaits'
      /\ Flat => Flat'
  BY <1>1 DEF OnlyTextPlaced, TableWaits, Listed, IsListed, Flat, Meets
<1> QED
  BY <1>2, <1>3, <1>4, <1>5 DEF LayoutInv

\* those that emit something,
LEMMA LayoutEmitting ==
  ASSUME SectionsTyped, LayoutInv, Emitting, LayoutStep, SectionsGrow, phase' = phase
  PROVE  LayoutInv'
<1>1. phase = "emitting" /\ phase' = "emitting" /\ SamePlaces(sections, sections')
  BY DEF Emitting, SectionsGrow
<1>2. TextSection \in DOMAIN sections
  BY DEF SectionsTyped, Arranged, TextSection
<1>3. TextAtZero'
  BY <1>1, <1>2 DEF SamePlaces, TextAtZero, LayoutInv
<1>4. OrdersKept'
  BY <1>1, LayoutStepIs DEF SamePlaces, OrdersKept, LayoutInv, CodeSections
<1>5. OnlyTextPlaced'
  BY <1>1, LayoutStepIs DEF SamePlaces, OnlyTextPlaced, LayoutInv
<1>6. TableWaits'
  BY <1>1, StepKeepsTable DEF LayoutInv
<1> QED
  BY <1>1, <1>3, <1>4, <1>5, <1>6 DEF LayoutInv

\* new sections,
LEMMA LayoutNewSection ==
  ASSUME CoreInv, ConstantsAssumption, LayoutInv, NEW alignment \in Alignments, NEW order \in Orders,
         NewSection(alignment, order)
  PROVE  LayoutInv'
<1>1. PICK n \in Nat :
        /\ DOMAIN sections = 1 .. n /\ DOMAIN sections' = 1 .. n + 1
        /\ sections'[n + 1] = NewSectionRecord(alignment, order, NoOffset)
        /\ \A s \in DOMAIN sections : sections'[s] = sections[s]
  BY NewSectionIs
<1>2. /\ phase = "emitting" /\ phase' = "emitting" /\ UNCHANGED <<address_table_section, slots>>
      /\ SectionsTyped
  BY DEF NewSection, Emitting, Bystanders, CoreInv, TypeInv
<1>3. TextSection \in DOMAIN sections /\ address_table_section \in {0} \cup DOMAIN sections
  BY <1>2 DEF SectionsTyped, Arranged, TextSection
<1>4. \A s \in DOMAIN sections' : s \in DOMAIN sections \/ s = n + 1
  BY <1>1
<1>5. sections'[n + 1].order = order /\ sections'[n + 1].offset = NoOffset
  BY <1>1 DEF NewSectionRecord
<1>6. TextAtZero'
  BY <1>1, <1>3 DEF TextAtZero, LayoutInv
<1>7. OrdersKept'
  BY <1>1, <1>2, <1>4, <1>5 DEF OrdersKept, LayoutInv, CodeSections
<1>8. OnlyTextPlaced'
  BY <1>1, <1>2, <1>4, <1>5 DEF OnlyTextPlaced, LayoutInv
<1>9. TableWaits'
  <2>1. TableWaits
    BY <1>2 DEF LayoutInv
  <2>2. Listed' = Listed
    BY <1>2 DEF Listed, IsListed
  <2> QED
    BY <1>1, <1>2, <1>3, <2>1, <2>2 DEF TableWaits
<1> QED
  BY <1>2, <1>6, <1>7, <1>8, <1>9 DEF LayoutInv

\* and flatten().
LEMMA LayoutFlattens ==
  ASSUME CoreInv, LayoutInv, NEW n, Flattens(n)
  PROVE  LayoutInv'
<1> DEFINE by(k) == sections_by_order[k]
           start(k) == LayoutStart(sections, sections_by_order, k)
           end(k) == LayoutEnd(sections, sections_by_order, k)
<1>1. /\ phase = "emitting" /\ phase' = "flattened" /\ SectionsTyped
      /\ n \in Nat \ {0} /\ DOMAIN sections = 1 .. n /\ DOMAIN sections' = 1 .. n
      /\ sections_by_order \in [1 .. n -> 1 .. n] /\ \A k \in 1 .. n : FlattensSection(k, n)
      /\ UNCHANGED <<sections_by_order, address_table_section, slots>>
  BY DEF Flattens, CoreInv, TypeInv, Emitting
<1>2. Arranged(sections, sections_by_order) /\ sections \in Seq(SectionType)
  BY <1>1 DEF SectionsTyped
<1>3. \A k \in 1 .. n : by(k) \in DOMAIN sections
  BY <1>1
<1>4. \A s \in 1 .. n : \E k \in 1 .. n : by(k) = s
  BY <1>1, <1>2 DEF Arranged
<1>5. ASSUME NEW k \in 1 .. n
      PROVE  /\ start(k) \in Nat /\ end(k - 1) \in Nat /\ start(k) >= end(k - 1)
             /\ end(k) = start(k) + RealSize(sections[by(k)])
             /\ RealSize(sections[by(k)]) # 0 => start(k) % sections[by(k)].alignment = 0
             /\ sections[by(k)].alignment = 1 => start(k) = end(k - 1)
  <2>1. PICK x \in SectionType : x = sections[by(k)]
    BY <1>1, <1>2, LayoutStarts
  <2>2. PICK e \in Nat : e = end(k - 1)
    BY <1>1, <1>2, LayoutStarts
  <2>3. start(k) = StartAfter(e, x)
    BY <1>1, <1>2, <2>1, <2>2, LayoutStarts
  <2>4. start(k) \in Nat /\ start(k) >= e /\ end(k) = start(k) + RealSize(x)
    BY <1>1, <1>2, <2>1, <2>2, LayoutStarts
  <2>5. /\ RealSize(x) # 0 => StartAfter(e, x) % x.alignment = 0
        /\ x.alignment = 1 => StartAfter(e, x) = e
    BY StartAfterIs
  <2> QED
    BY <2>1, <2>2, <2>3, <2>4, <2>5
\* The section laid out kth, afterwards.
<1> DEFINE old(k) == sections[by(k)]
           new(k) == sections'[by(k)]
<1>6. ASSUME NEW k \in 1 .. n
      PROVE  /\ new(k) \in SectionType /\ old(k) \in SectionType
             /\ new(k).alignment = old(k).alignment /\ new(k).order = old(k).order
             /\ new(k).size = old(k).size /\ new(k).offset = start(k)
             /\ k = n => RealSize(new(k)) = RealSize(old(k)) /\ new(k).virtual_size = old(k).virtual_size
             /\ k # n => /\ start(k + 1) = start(k) + RealSize(new(k))
                         /\ new(k).virtual_size >= old(k).virtual_size
  <2>1. /\ new(k) \in SectionType
        /\ new(k).alignment = old(k).alignment /\ new(k).order = old(k).order
        /\ new(k).size = old(k).size /\ new(k).offset = start(k)
        /\ new(k).virtual_size = IF k = n THEN old(k).virtual_size ELSE start(k + 1) - start(k)
    BY <1>1 DEF FlattensSection
  <2>2. old(k) \in SectionType
    BY <1>1, <1>2, LayoutStarts
  <2>3. PICK x \in SectionType : x = old(k)
    BY <2>2
  <2>4. PICK y \in SectionType : y = new(k)
    BY <2>1
  <2>5. x.size \in Nat /\ x.virtual_size \in Nat /\ y.virtual_size \in Nat
    BY DEF SectionType
  <2>6. k = n => RealSize(y) = RealSize(x) /\ y.virtual_size = x.virtual_size
    <3>1. k = n => y.virtual_size = x.virtual_size /\ y.size = x.size
      BY <2>1, <2>3, <2>4
    <3> QED
      BY <3>1 DEF RealSize
  <2>7. k # n => /\ start(k + 1) = start(k) + RealSize(y)
                 /\ y.virtual_size >= x.virtual_size
    <3> SUFFICES ASSUME k # n
                 PROVE  /\ start(k + 1) = start(k) + RealSize(y)
                        /\ y.virtual_size >= x.virtual_size
      OBVIOUS
    <3>1. PICK j \in 1 .. n : j = k + 1 /\ j - 1 = k
      BY <1>1
    <3>2. PICK a \in Nat : a = start(k)
      BY <1>5
    <3>3. PICK b \in Nat : b = start(j)
      BY <1>5
    <3>4. PICK e \in Nat : e = end(k)
      BY <1>5, <3>1
    <3>5. b >= e
      BY <1>5, <3>1, <3>3, <3>4
    <3>6. e = a + RealSize(x)
      BY <1>5, <2>3, <3>2, <3>4
    <3>7. y.virtual_size = b - a /\ y.size = x.size
      BY <2>1, <2>3, <2>4, <3>1, <3>2, <3>3
    <3>8. /\ RealSize(x) \in Nat /\ x.virtual_size <= RealSize(x) /\ x.size <= RealSize(x)
          /\ RealSize(y) \in {y.virtual_size, y.size} /\ RealSize(y) \in Nat
          /\ y.virtual_size <= RealSize(y) /\ y.size <= RealSize(y)
      BY RealSizeIs
    <3> HIDE DEF start
    <3>9. b = a + RealSize(y) /\ y.virtual_size >= x.virtual_size
      BY <2>5, <3>5, <3>6, <3>7, <3>8
    <3> QED
      BY <3>1, <3>2, <3>3, <3>9
  <2> QED
    BY <2>1, <2>2, <2>3, <2>4, <2>6, <2>7
<1> HIDE DEF start, end, old, new
<1>7. Flat'
  <2>1. ASSUME NEW s \in DOMAIN sections'
        PROVE  /\ sections'[s].offset \in Nat
               /\ sections'[s].size # 0 => sections'[s].offset % sections'[s].alignment = 0
    <3>1. PICK k \in 1 .. n : by(k) = s
      BY <1>1, <1>4, <2>1
    <3>2. /\ sections'[s].offset = start(k) /\ start(k) \in Nat /\ sections'[s].size = sections[s].size
          /\ sections'[s].alignment = sections[s].alignment
          /\ RealSize(sections[s]) # 0 => start(k) % sections[s].alignment = 0
      BY <1>5, <1>6, <3>1 DEF new, old
    <3>3. sections[s].size # 0 => RealSize(sections[s]) # 0
      <4>1. /\ sections[s].size \in Nat /\ RealSize(sections[s]) \in Nat
            /\ sections[s].size <= RealSize(sections[s])
        BY <1>1, <1>3, <3>1, SectionIs
      <4> QED
        BY <4>1
    <3> QED
      BY <3>2, <3>3
  <2>2. ASSUME NEW k \in 1 .. n, k < n
        PROVE  sections'[by(k)].offset + RealSize(sections'[by(k)]) = sections'[by(k + 1)].offset
    <3>1. k + 1 \in 1 .. n /\ k # n
      BY <1>1, <2>2
    <3> QED
      BY <1>6, <2>2, <3>1 DEF new
  <2>3. RealSize(sections'[by(n)]) # 0 => sections'[by(n)].offset % sections'[by(n)].alignment = 0
    <3>1. n \in 1 .. n
      BY <1>1
    <3> QED
      BY <1>5, <1>6, <3>1 DEF new, old
  <2>4. ASSUME NEW m \in Nat, DOMAIN sections' = 1 .. m PROVE m = n
    BY <1>1, <2>4
  <2> QED
    BY <1>1, <2>1, <2>2, <2>3, <2>4 DEF Flat, Meets
<1>8. \A s \in DOMAIN sections : /\ sections'[s].alignment = sections[s].alignment
                                 /\ sections'[s].order = sections[s].order
                                 /\ sections'[s].size = sections[s].size
                                 /\ sections'[s].virtual_size >= sections[s].virtual_size
  <2>1. ASSUME NEW k \in 1 .. n PROVE new(k).virtual_size >= old(k).virtual_size
    <3>1. CASE k = n
      <4>1. new(k).virtual_size = old(k).virtual_size /\ old(k).virtual_size \in Nat
        BY <1>6, <3>1 DEF SectionType
      <4> QED
        BY <4>1
    <3>2. CASE k # n
      BY <1>6, <3>2
    <3> QED
      BY <3>1, <3>2
  <2>2. ASSUME NEW s \in DOMAIN sections
        PROVE  /\ sections'[s].alignment = sections[s].alignment
               /\ sections'[s].order = sections[s].order
               /\ sections'[s].size = sections[s].size
               /\ sections'[s].virtual_size >= sections[s].virtual_size
    <3>1. PICK k \in 1 .. n : by(k) = s
      BY <1>1, <1>4
    <3>2. new(k) = sections'[s] /\ old(k) = sections[s]
      BY <3>1 DEF new, old
    <3> QED
      BY <1>6, <2>1, <3>2
  <2> QED
    BY <2>2
<1>9. TextAtZero'
  <2>1. 1 \in 1 .. n /\ by(1) = TextSection /\ 1 - 1 = 0
    BY <1>1, <1>2 DEF Arranged
  <2>2. old(1).alignment = 1 /\ new(1).alignment = 1 /\ new(1).offset = start(1)
    BY <1>6, <2>1 DEF LayoutInv, TextAtZero, old
  <2>3. start(1) = end(0)
    BY <1>5, <2>1, <2>2 DEF old
  <2>4. end(0) = 0
    BY LayoutEndIs DEF end
  <2> QED
    BY <2>1, <2>2, <2>3, <2>4 DEF TextAtZero, new
<1>10. OrdersKept'
  BY <1>1, <1>8 DEF OrdersKept, LayoutInv, CodeSections
<1>11. TableWaits'
  <2>1. TableWaits /\ Listed' = Listed
    BY <1>1 DEF LayoutInv, Listed, IsListed
  <2>2. address_table_section \in {0} \cup DOMAIN sections
    BY <1>1 DEF SectionsTyped
  <2>3. ASSUME address_table_section # 0
        PROVE  sections'[address_table_section].virtual_size >= Cardinality(Listed) * AddressSize
    <3>1. PICK t \in DOMAIN sections : t = address_table_section
      BY <2>2, <2>3
    <3>2. /\ sections'[t].virtual_size >= sections[t].virtual_size
          /\ sections[t].virtual_size >= Cardinality(Listed) * AddressSize
      BY <1>8, <2>1, <2>3, <3>1 DEF TableWaits
    <3>3. PICK c \in Nat : c = Cardinality(Listed)
      BY <2>1, FS_CardinalityType DEF TableWaits
    <3>4. sections[t].virtual_size \in Nat /\ sections'[t].virtual_size \in Nat
      <4>1. PICK k \in 1 .. n : by(k) = t
        BY <1>1, <1>4
      <4>2. new(k) \in SectionType /\ old(k) \in SectionType
        BY <1>6
      <4> QED
        BY <4>1, <4>2 DEF new, old, SectionType
    <3> QED
      BY <3>1, <3>2, <3>3, <3>4 DEF AddressSize
  <2> QED
    BY <1>1, <1>8, <2>1, <2>2, <2>3 DEF TableWaits
<1> QED
  BY <1>1, <1>7, <1>9, <1>10, <1>11 DEF LayoutInv

-------------------------------------------------------------------------------
(* The slots of the address table *)

Earlier(base, r) ==
  {relocations[q].payload : q \in {q \in DOMAIN relocations : NeedsTable(base, q) /\ q < r}}

\* The first entry to need an address is there, and it needs it.
LEMMA FirstNeedIs ==
  ASSUME relocations \in Seq(RelocType), NEW base, NEW a \in AddressesUsed(base)
  PROVE  /\ FirstNeed(base, a) \in DOMAIN relocations /\ FirstNeed(base, a) \in Nat
         /\ NeedsTable(base, FirstNeed(base, a))
         /\ relocations[FirstNeed(base, a)].payload = a
         /\ a \notin Earlier(base, FirstNeed(base, a))
<1> DEFINE S == {r \in DOMAIN relocations : NeedsTable(base, r) /\ relocations[r].payload = a}
<1>1. PICK r \in EntriesIndirect(base) : relocations[r].payload = a
  BY DEF AddressesUsed
<1>2. r \in S
  BY <1>1, EntriesAre
<1>3. S \in SUBSET Nat
  BY Indexes
<1>4. FirstNeed(base, a) = Min(S)
  BY DEF FirstNeed
<1>5. \A x \in S : /\ x \in DOMAIN relocations /\ NeedsTable(base, x)
                   /\ relocations[x].payload = a
  OBVIOUS
<1>6. \A x \in DOMAIN relocations : NeedsTable(base, x) /\ relocations[x].payload = a => x \in S
  OBVIOUS
<1> HIDE DEF S
<1>7. Min(S) \in S /\ \A y \in S : Min(S) <= y
  BY <1>2, <1>3, MinOfNats
<1>8. PICK m \in Nat : m = Min(S)
  BY <1>3, <1>7
<1>9. ASSUME NEW q \in DOMAIN relocations, NeedsTable(base, q), q < m
      PROVE  relocations[q].payload # a
  <2>1. q \in Nat
    BY Indexes
  <2>2. q \in S => m <= q
    BY <1>7, <1>8
  <2> QED
    BY <1>6, <1>9, <2>1, <2>2
<1>10. a \notin Earlier(base, m)
  BY <1>9 DEF Earlier
<1> QED
  BY <1>4, <1>5, <1>7, <1>8, <1>10

\* The slot counts the addresses that were needed before.
LEMMA EarlierIs ==
  ASSUME relocations \in Seq(RelocType), NEW base, NEW a
  PROVE  /\ Slot(base, a) = Cardinality(Earlier(base, FirstNeed(base, a)))
         /\ IsFiniteSet(Earlier(base, FirstNeed(base, a)))
<1> DEFINE S == {r \in DOMAIN relocations : NeedsTable(base, r) /\ r < FirstNeed(base, a)}
<1>1. Slot(base, a) = Cardinality({relocations[r].payload : r \in S})
  BY DEF Slot
<1>2. Earlier(base, FirstNeed(base, a)) = {relocations[r].payload : r \in S}
  BY DEF Earlier
<1>3. S \in SUBSET DOMAIN relocations
  OBVIOUS
<1> HIDE DEF S
<1> QED
  BY <1>1, <1>2, <1>3, PayloadsFinite

\* When all entries are written, all that need the table get there.
LEMMA AllReached ==
  ASSUME NEW base, AllWritten(base)
  PROVE  \A r \in DOMAIN relocations : NeedsTable(base, r) => r \in EntriesIndirect(base)
BY EntriesAre DEF AllWritten, EntriesIndirect

\* Every address gets a slot inside the table.
LEMMA SlotInTable ==
  ASSUME CoreInv, NEW base, AllWritten(base), NEW a \in AddressesUsed(base)
  PROVE  Slot(base, a) \in Nat /\ Slot(base, a) < Cardinality(AddressesUsed(base))
<1> DEFINE used == AddressesUsed(base)
           E == Earlier(base, FirstNeed(base, a))
<1>0. relocations \in Seq(RelocType)
  BY Basics DEF CoreInv
<1>1. IsFiniteSet(used) /\ Cardinality(used) \in Nat
  BY UsedIsFinite
<1>2. Slot(base, a) = Cardinality(E) /\ IsFiniteSet(E) /\ a \notin E
  BY <1>0, EarlierIs, FirstNeedIs
<1>3. E \subseteq used
  BY AllReached DEF Earlier, AddressesUsed
<1> HIDE DEF used, E
<1>4. E \in SUBSET (used \ {a}) /\ a \in used
  BY <1>2, <1>3 DEF used
<1>5. IsFiniteSet(used \ {a}) /\ Cardinality(used \ {a}) = Cardinality(used) - 1
  BY <1>1, <1>4, FS_RemoveElement
<1>6. Cardinality(E) <= Cardinality(used) - 1
  BY <1>4, <1>5, FS_Subset
<1>7. Cardinality(E) \in Nat
  BY <1>2, FS_CardinalityType
<1> QED
  BY <1>1, <1>2, <1>6, <1>7 DEF used

\* An address needed later has a larger slot.
LEMMA SlotsInOrder ==
  ASSUME CoreInv, NEW base, NEW a \in AddressesUsed(base), NEW b \in AddressesUsed(base),
         FirstNeed(base, a) < FirstNeed(base, b)
  PROVE  Slot(base, a) < Slot(base, b)
<1> DEFINE E == Earlier(base, FirstNeed(base, a))
           F == Earlier(base, FirstNeed(base, b))
<1>0. relocations \in Seq(RelocType)
  BY Basics DEF CoreInv
<1>1. Slot(base, a) = Cardinality(E) /\ IsFiniteSet(E) /\ a \notin E
  BY <1>0, EarlierIs, FirstNeedIs
<1>2. Slot(base, b) = Cardinality(F) /\ IsFiniteSet(F)
  BY <1>0, EarlierIs
<1>3. PICK m \in Nat : /\ m = FirstNeed(base, a) /\ m \in DOMAIN relocations
                       /\ NeedsTable(base, m) /\ relocations[m].payload = a
  BY <1>0, FirstNeedIs
<1>4. PICK k \in Nat : k = FirstNeed(base, b)
  BY <1>0, FirstNeedIs
<1>5. m < k
  BY <1>3, <1>4
<1>6. a \in Earlier(base, k)
  BY <1>3, <1>5 DEF Earlier
<1>7. Earlier(base, m) \subseteq Earlier(base, k)
  <2>1. \A q \in DOMAIN relocations : q \in Nat
    BY <1>0, Indexes
  <2>2. \A q \in DOMAIN relocations : q < m => q < k
    BY <1>5, <2>1
  <2> QED
    BY <2>2 DEF Earlier
<1>8. E \cup {a} \in SUBSET F
  BY <1>3, <1>4, <1>6, <1>7
<1> HIDE DEF E, F
<1>9. Cardinality(E \cup {a}) = Cardinality(E) + 1
  BY <1>1, FS_AddElement
<1>10. Cardinality(E \cup {a}) <= Cardinality(F)
  BY <1>2, <1>8, FS_Subset
<1>11. Cardinality(E) \in Nat /\ Cardinality(F) \in Nat
  BY <1>1, <1>2, FS_CardinalityType
<1> QED
  BY <1>1, <1>2, <1>9, <1>10, <1>11

\* No two addresses share a slot.
LEMMA SlotsApart ==
  ASSUME CoreInv, NEW base, NEW a \in AddressesUsed(base), NEW b \in AddressesUsed(base), a # b
  PROVE  Slot(base, a) # Slot(base, b)
<1>0. relocations \in Seq(RelocType)
  BY Basics DEF CoreInv
<1>1. PICK m \in Nat : m = FirstNeed(base, a) /\ relocations[m].payload = a
  BY <1>0, FirstNeedIs
<1>2. PICK k \in Nat : k = FirstNeed(base, b) /\ relocations[k].payload = b
  BY <1>0, FirstNeedIs
<1>3. m < k \/ k < m
  BY <1>1, <1>2
<1>4. Slot(base, a) \in Nat /\ Slot(base, b) \in Nat
  BY <1>0, SlotIsNat
<1>5. CASE m < k
  <2>1. Slot(base, a) < Slot(base, b)
    BY <1>1, <1>2, <1>5, SlotsInOrder
  <2> QED
    BY <1>4, <2>1
<1>6. CASE k < m
  <2>1. Slot(base, b) < Slot(base, a)
    BY <1>1, <1>2, <1>6, SlotsInOrder
  <2> QED
    BY <1>4, <2>1
<1> QED
  BY <1>3, <1>5, <1>6

\* The table is the last section when no other section may have its order.
LEMMA TableComesLast ==
  ASSUME CoreInv, ConstantsAssumption, OrdersKept, TableOrder \notin Orders,
         address_table_section # 0,
         sections[address_table_section].order = TableOrder
  PROVE  sections_by_order[Len(sections_by_order)] = address_table_section
<1>1. /\ SectionsTyped /\ sections[TextSection].order = TextOrder
      /\ Arranged(sections, sections_by_order)
      /\ address_table_section \in DOMAIN sections
  BY DEF CoreInv, TypeInv, SectionsTyped
<1>2. PICK n \in Nat \ {0} :
        /\ DOMAIN sections = 1 .. n /\ Len(sections_by_order) = n
        /\ sections_by_order \in [1 .. n -> 1 .. n] /\ DOMAIN sections_by_order = 1 .. n
  BY <1>1, OrderIs
<1>3. PICK k \in 1 .. n : sections_by_order[k] = address_table_section
  BY <1>1, <1>2 DEF Arranged
<1>4. ASSUME k # n PROVE FALSE
  <2>1. k < n /\ n \in 1 .. n
    BY <1>2, <1>4
  <2>2. PICK s \in DOMAIN sections : s = sections_by_order[n]
    BY <1>2, <2>1
  <2>3. s # address_table_section
    BY <1>1, <1>2, <1>3, <1>4, <2>1, <2>2 DEF Arranged
  <2>4. TableOrder <= sections[s].order
    BY <1>1, <1>2, <1>3, <2>1, <2>2 DEF Arranged
  <2>5. s = TextSection \/ sections[s].order \in Orders
    BY <2>3 DEF OrdersKept, CodeSections
  <2>6. CASE s = TextSection
    BY <1>1, <2>4, <2>6 DEF TextOrder, TableOrder
  <2>7. CASE sections[s].order \in Orders
    <3>1. sections[s].order \in TextOrder + 1 .. TableOrder /\ sections[s].order # TableOrder
      BY <2>7 DEF ConstantsAssumption
    <3> QED
      BY <2>4, <3>1 DEF TextOrder, TableOrder
  <2> QED
    BY <2>5, <2>6, <2>7
<1> QED
  BY <1>2, <1>3, <1>4

\* The table, cut down to the slots it holds, is still a section of the layout.
LEMMA RelocatedLayout ==
  ASSUME CoreInv, LayoutInv, NEW base, Relocates(base), AllWritten(base)
  PROVE  LayoutSound' /\ ReducedSizeHoldsCode'
<1> DEFINE by(k) == sections_by_order[k]
           t == address_table_section
           used == AddressesUsed(base)
<1>1. /\ phase = "flattened" /\ phase' = "relocated" /\ SectionsTyped
      /\ UNCHANGED <<sections_by_order, address_table_section>>
      /\ IF TableIsLast(base) THEN TableSizeIs(Cardinality(used) * AddressSize)
                              ELSE sections' = sections
      /\ summary'.estimate = CodeSize
      /\ summary'.reduction = IF TableIsLast(base)
                              THEN sections[t].virtual_size - Cardinality(used) * AddressSize
                              ELSE 0
  BY DEF Relocates, CoreInv, TypeInv
<1>2. Flat /\ TableWaits /\ TextAtZero
  BY <1>1 DEF LayoutInv
<1>3. PICK n \in Nat \ {0} :
        /\ DOMAIN sections = 1 .. n /\ Len(sections_by_order) = n
        /\ sections_by_order \in [1 .. n -> 1 .. n] /\ DOMAIN sections_by_order = 1 .. n
  BY <1>1, OrderIs
<1>4. LayoutSound /\ Arranged(sections, sections_by_order) /\ n \in 1 .. n
  BY <1>1, <1>2, FlatIsSound DEF SectionsTyped
<1>5. PICK e \in Nat : e = CodeSize /\ e >= sections[by(n)].offset + RealSize(sections[by(n)])
  BY <1>1, <1>2, <1>3, FlatEnds DEF CodeSize
<1>6. \A s \in DOMAIN sections : \E k \in 1 .. n : by(k) = s
  BY <1>3, <1>4 DEF Arranged
<1>7. \A s \in DOMAIN sections : sections[s].offset \in Nat
  BY <1>2 DEF Flat
<1>8. ASSUME NEW k \in 1 .. n, k # n
      PROVE  /\ by(k) # by(n)
             /\ sections[by(k)].offset + RealSize(sections[by(k)]) <= sections[by(n)].offset
  <2>1. k < n
    BY <1>3, <1>8
  <2>2. by(k) # by(n)
    BY <1>3, <1>4, <1>8 DEF Arranged
  <2> QED
    BY <1>1, <1>2, <1>3, <1>4, <2>1, <2>2, FlatIsApart
<1>9. CASE ~TableIsLast(base)
  <2>1. sections' = sections /\ summary'.reduction = 0 /\ summary'.estimate = e
    BY <1>1, <1>5, <1>9
  <2>2. LayoutSound'
    <3>1. Laid
      BY <1>1 DEF Laid
    <3> QED
      BY <1>1, <1>4, <2>1, <3>1 DEF LayoutSound
  <2>3. ASSUME NEW s \in DOMAIN sections
        PROVE  sections[s].offset + RealSize(sections[s]) <= e
    <3>1. PICK k \in 1 .. n : by(k) = s
      BY <1>6
    <3>2. sections[s].offset \in Nat /\ RealSize(sections[s]) \in Nat
      BY <1>1, <1>7, SectionIs
    <3>3. PICK o \in Nat : o = sections[by(n)].offset
      BY <1>3, <1>4, <1>7
    <3>4. PICK z \in Nat : z = RealSize(sections[by(n)])
      BY <1>1, <1>3, <1>4, SectionIs
    <3>5. CASE k = n
      BY <1>5, <3>1, <3>2, <3>5
    <3>6. CASE k # n
      <4>1. sections[s].offset + RealSize(sections[s]) <= o
        BY <1>8, <3>1, <3>3, <3>6
      <4> QED
        BY <1>5, <3>2, <3>3, <3>4, <4>1
    <3> QED
      BY <3>5, <3>6
  <2>4. ReducedSizeHoldsCode'
    <3>1. 0 >= 0 /\ e - 0 = e
      OBVIOUS
    <3> QED
      BY <2>1, <2>3, <3>1 DEF ReducedSizeHoldsCode
  <2> QED
    BY <2>2, <2>4
<1>10. CASE TableIsLast(base)
  <2>1. PICK c \in Nat : c = Cardinality(used)
    BY UsedIsFinite DEF CoreInv
  <2>2. /\ t = by(n) /\ t \in DOMAIN sections /\ DOMAIN sections' = DOMAIN sections
        /\ sections'[t].size = c * AddressSize /\ sections'[t].virtual_size = c * AddressSize
        /\ \A s \in DOMAIN sections :
             /\ s # t => sections'[s] = sections[s]
             /\ sections'[s].alignment = sections[s].alignment
             /\ sections'[s].order = sections[s].order
             /\ sections'[s].offset = sections[s].offset
    BY <1>1, <1>3, <1>10, <2>1 DEF TableSizeIs, TableIsLast
  <2>3. /\ c * AddressSize \in Nat
        /\ RealSize(sections'[t]) = c * AddressSize
    <3>1. c * AddressSize \in Nat
      BY DEF AddressSize
    <3>2. PICK m \in Nat : m = c * AddressSize
      BY <3>1
    <3>3. sections'[t] \in SectionType
      BY <1>1, <1>10, <2>2, SeqIs DEF TableSizeIs
    <3>4. RealSize(sections'[t]) \in {m}
      BY <2>2, <3>2, <3>3, RealSizeIs
    <3> QED
      BY <3>2, <3>4
  <2>4. /\ sections[t].virtual_size \in Nat /\ sections[t].virtual_size >= c * AddressSize
        /\ RealSize(sections[t]) >= sections[t].virtual_size /\ RealSize(sections[t]) \in Nat
    <3>1. t # 0
      BY <1>1, <2>2, Indexes DEF SectionsTyped
    <3>2. IsFiniteSet(Listed) /\ sections[t].virtual_size >= Cardinality(Listed) * AddressSize
      BY <1>2, <3>1 DEF TableWaits
    <3>3. used \subseteq Listed
      BY UsedIsFinite DEF Listed
    <3>4. PICK m \in Nat : m = Cardinality(Listed)
      BY <3>2, FS_CardinalityType
    <3>5. c <= m
      BY <2>1, <3>2, <3>3, <3>4, FS_Subset
    <3>6. /\ sections[t].virtual_size \in Nat /\ RealSize(sections[t]) \in Nat
          /\ sections[t].virtual_size <= RealSize(sections[t])
      BY <1>1, <2>2, SectionIs
    <3>7. PICK v \in Nat : v = sections[t].virtual_size
      BY <3>6
    <3>8. v >= m * AddressSize
      BY <3>2, <3>4, <3>7
    <3>9. v >= c * AddressSize
      BY <3>5, <3>8 DEF AddressSize
    <3> QED
      BY <3>6, <3>7, <3>9
  <2>5. PICK v \in Nat : v = sections[t].virtual_size
    BY <2>4
  <2>6. PICK d \in Nat : d = c * AddressSize
    BY <2>3
  <2>7. PICK o \in Nat : o = sections[t].offset
    BY <1>7, <2>2
  <2>8. PICK z \in Nat : z = RealSize(sections[t])
    BY <2>4
  <2>9. e >= o + z /\ z >= v /\ v >= d
    BY <1>5, <2>2, <2>4, <2>5, <2>6, <2>7, <2>8
  <2>10. summary'.estimate = e /\ summary'.reduction = v - d
    BY <1>1, <1>5, <1>10, <2>1, <2>5, <2>6
  <2>11. ASSUME NEW s \in DOMAIN sections
         PROVE  sections'[s].offset + RealSize(sections'[s]) <= e - (v - d)
    <3>1. PICK k \in 1 .. n : by(k) = s
      BY <1>6
    <3>2. CASE k = n
      <4>1. sections'[s].offset = o /\ RealSize(sections'[s]) = d
        BY <2>2, <2>3, <2>6, <2>7, <3>1, <3>2
      <4> QED
        BY <2>9, <4>1
    <3>3. CASE k # n
      <4>1. s # t /\ sections[s].offset + RealSize(sections[s]) <= o
        BY <1>8, <2>2, <2>7, <3>1, <3>3
      <4>2. sections[s].offset \in Nat /\ RealSize(sections[s]) \in Nat
        BY <1>1, <1>7, SectionIs
      <4>3. sections[s].offset + RealSize(sections[s]) <= e - (v - d)
        BY <2>9, <4>1, <4>2
      <4> QED
        BY <2>2, <4>1, <4>3
    <3> QED
      BY <3>2, <3>3
  <2>12. ReducedSizeHoldsCode'
    <3>1. v - d >= 0
      BY <2>9
    <3> QED
      BY <2>2, <2>10, <2>11, <3>1 DEF ReducedSizeHoldsCode
  <2>13. ASSUME NEW s \in DOMAIN sections, sections'[s].size # 0
         PROVE  sections'[s].offset % sections'[s].alignment = 0
    <3>1. CASE s # t
      BY <1>2, <2>2, <2>13, <3>1 DEF Flat
    <3>2. CASE s = t
      <4>1. d # 0
        BY <2>2, <2>6, <2>13, <3>2
      <4>2. RealSize(sections[by(n)]) # 0
        BY <2>2, <2>8, <2>9, <4>1
      <4>3. sections[by(n)].offset % sections[by(n)].alignment = 0
        BY <1>2, <1>3, <4>2 DEF Flat
      <4> QED
        BY <2>2, <3>2, <4>3
    <3> QED
      BY <3>1, <3>2
  <2>14. ASSUME NEW j \in 1 .. n, NEW k \in 1 .. n, j < k
         PROVE  /\ by(j) # by(k)
                /\ sections'[by(j)].order <= sections'[by(k)].order
                /\ sections'[by(j)].offset + RealSize(sections'[by(j)]) <= sections'[by(k)].offset
    <3>1. Laid /\ j \in DOMAIN sections_by_order /\ k \in DOMAIN sections_by_order
      BY <1>1, <1>3 DEF Laid
    <3>2. /\ by(j) # by(k) /\ sections[by(j)].order <= sections[by(k)].order
          /\ sections[by(j)].offset + RealSize(sections[by(j)]) <= sections[by(k)].offset
      BY <1>4, <2>14, <3>1 DEF LayoutSound
    <3>3. by(j) # t /\ by(j) \in DOMAIN sections /\ by(k) \in DOMAIN sections
      <4>1. j # n
        BY <1>3, <2>14
      <4> QED
        BY <1>3, <1>8, <2>2, <4>1
    <3> QED
      BY <2>2, <3>2, <3>3
  <2>15. LayoutSound'
    BY <1>1, <1>3, <1>6, <2>2, <2>13, <2>14 DEF LayoutSound
  <2> QED
    BY <2>12, <2>15
<1> QED
  BY <1>9, <1>10

\* The slots are in the table, each with its address.
LEMMA RelocatedTable ==
  ASSUME CoreInv, ConstantsAssumption, LayoutInv, NEW base, Relocates(base), AllWritten(base),
         TableOrder \notin Orders
  PROVE  TableIsCopied'
<1> DEFINE t == address_table_section
           used == AddressesUsed(base)
<1>1. /\ phase = "flattened" /\ UNCHANGED <<sections_by_order, address_table_section>>
      /\ table' = {<<Slot(base, a), a>> : a \in used}
      /\ \A a \in Addresses : slots'[a] = IF a \in used THEN Slot(base, a) ELSE slots[a]
  BY DEF Relocates
<1>2. TableWaits /\ OrdersKept
  BY <1>1 DEF LayoutInv
<1>3. ASSUME NEW a \in Addresses, slots'[a] >= 0 PROVE a \in used /\ slots'[a] = Slot(base, a)
  <2>1. slots[a] \in {NoSlot, NotListed}
    BY <1>2 DEF TableWaits
  <2>2. ~(slots[a] >= 0)
    BY <2>1 DEF NoSlot, NotListed
  <2> QED
    BY <1>1, <1>3, <2>2
<1>4. ASSUME NEW a \in used
      PROVE  {entry \in table' : entry[1] = Slot(base, a)} = {<<Slot(base, a), a>>}
  <2>1. ASSUME NEW entry \in table', entry[1] = Slot(base, a) PROVE entry = <<Slot(base, a), a>>
    <3>1. PICK b \in used : entry = <<Slot(base, b), b>>
      BY <1>1, <2>1
    <3>2. Slot(base, b) = Slot(base, a)
      BY <2>1, <3>1
    <3>3. a = b
      BY <3>2, SlotsApart
    <3> QED
      BY <3>1, <3>3
  <2>2. <<Slot(base, a), a>> \in table'
    BY <1>1
  <2> QED
    BY <2>1, <2>2
<1>5. ASSUME NEW a \in used PROVE (Slot(base, a) + 1) * AddressSize <= sections'[t].size
  <2>1. a \in Addresses /\ IsListed(a)
    BY UsedIsFinite
  <2>2. t # 0
    BY <2>1 DEF CoreInv, TypeInv, SectionsTyped
  <2>3. TableIsLast(base)
    BY <1>2, <2>2, TableComesLast DEF TableWaits, TableIsLast
  <2>4. PICK c \in Nat : c = Cardinality(used)
    BY UsedIsFinite
  <2>5. sections'[t].size = c * AddressSize
    BY <2>3, <2>4 DEF Relocates, TableSizeIs
  <2>6. PICK s \in Nat : s = Slot(base, a) /\ s < c
    BY <2>4, SlotInTable
  <2>7. (s + 1) * AddressSize <= c * AddressSize
    BY <2>6 DEF AddressSize
  <2> QED
    BY <2>5, <2>6, <2>7
<1> HIDE DEF used
<1> QED
  BY <1>1, <1>3, <1>4, <1>5 DEF TableIsCopied

\* Relocation keeps its promises to JitRuntime.
LEMMA LayoutRelocates ==
  ASSUME CoreInv, ConstantsAssumption, LayoutInv, NEW base, Relocates(base)
  PROVE  LayoutInv'
<1>1. /\ UNCHANGED address_table_section
      /\ IF TableIsLast(base) THEN TableSizeIs(Cardinality(AddressesUsed(base)) * AddressSize)
                              ELSE sections' = sections
      /\ phase' = IF AllWritten(base) THEN "relocated" ELSE "failed"
      /\ SectionsTyped
  BY DEF Relocates, CoreInv, TypeInv
<1>2. /\ DOMAIN sections' = DOMAIN sections
      /\ \A s \in DOMAIN sections :
           /\ sections'[s].alignment = sections[s].alignment
           /\ sections'[s].order = sections[s].order
           /\ sections'[s].offset = sections[s].offset
  <2>1. CASE TableIsLast(base)
    BY <1>1, <2>1 DEF TableSizeIs
  <2>2. CASE ~TableIsLast(base)
    BY <1>1, <2>2
  <2> QED
    BY <2>1, <2>2
<1>3. TextSection \in DOMAIN sections
  BY <1>1 DEF SectionsTyped, Arranged, TextSection
<1>4. TextAtZero' /\ OrdersKept'
  BY <1>1, <1>2, <1>3 DEF TextAtZero, OrdersKept, LayoutInv, CodeSections
<1>5. CASE AllWritten(base)
  <2>1. Done'
    BY <1>5, RelocatedLayout, RelocatedTable DEF Done
  <2>2. phase' = "relocated"
    BY <1>1, <1>5
  <2> QED
    BY <1>4, <2>1, <2>2 DEF LayoutInv
<1>6. CASE ~AllWritten(base)
  <2>1. phase' = "failed"
    BY <1>1, <1>6
  <2> QED
    BY <1>4, <2>1 DEF LayoutInv
<1> QED
  BY <1>5, <1>6

\* An empty CodeHolder is laid out,
LEMMA LayoutEmpty ==
  ASSUME Empty
  PROVE  LayoutInv
<1>1. /\ phase = "emitting" /\ DOMAIN sections = {1} /\ address_table_section = 0
      /\ \A a \in Addresses : slots[a] = NotListed
  <2>1. 1 .. 1 = {1}
    OBVIOUS
  <2> QED
    BY <2>1, EmptySections DEF Empty
<1>2. TextAtZero
  BY EmptySections DEF TextAtZero, TextSection
<1>3. OrdersKept /\ OnlyTextPlaced
  BY <1>1 DEF OrdersKept, OnlyTextPlaced, CodeSections, TextSection
<1>4. TableWaits
  <2>1. Listed = {}
    BY <1>1 DEF Listed, IsListed
  <2> QED
    BY <1>1, <2>1, FS_EmptySet DEF TableWaits
<1> QED
  BY <1>1, <1>2, <1>3, <1>4 DEF LayoutInv

\* after reinit() as well.
LEMMA LayoutEmptyNext == Empty' => LayoutInv'
BY LayoutEmpty, PTL

\* Every step keeps the layout.
LEMMA LayoutNext ==
  ASSUME CoreInv, LayoutInv, ConstantsAssumption, Steps
  PROVE  LayoutInv'
<1>0. SectionsTyped
  BY DEF CoreInv, TypeInv
<1>1. ASSUME NEW alignment \in Alignments, NEW order \in Orders, NewSection(alignment, order)
      PROVE  LayoutInv'
  BY <1>1, LayoutNewSection
<1>2. CASE NewLabel
  BY <1>2, LayoutUntouched DEF NewLabel
<1>3. ASSUME NEW s \in CodeSections, NEW n \in Paddings, EmbedData(s, n) PROVE LayoutInv'
  <2>1. Emitting /\ phase' = phase
    BY <1>3 DEF EmbedData, Bystanders
  <2> QED
    BY <1>0, <1>3, <2>1, EmbedDataIs, LayoutEmitting
<1>4. ASSUME NEW field, Emits(field) PROVE LayoutInv'
  <2>1. Emitting /\ phase' = phase /\ LayoutStep /\ SectionsGrow
    BY <1>4 DEF Emits, Bystanders
  <2> QED
    BY <1>0, <2>1, LayoutEmitting
<1>5. ASSUME NEW field, EmitsValue(field) PROVE LayoutInv'
  BY <1>4, <1>5 DEF EmitsValue
<1>6. ASSUME NEW field, NEW l, EmitsFixup(field, l) PROVE LayoutInv'
  BY <1>4, <1>6 DEF EmitsFixup
<1>7. ASSUME NEW field, NEW entry, EmitsEntry(field, entry) PROVE LayoutInv'
  BY <1>4, <1>7 DEF EmitsEntry
<1>8. CASE fault' \in Faults /\ UNCHANGED <<layout, refs, fields, Bystanders>>
  BY <1>8, LayoutUntouched
<1>9. ASSUME NEW s, NEW l, Binds(s, l) PROVE LayoutInv'
  BY <1>9, LayoutUntouched DEF Binds
<1>10. ASSUME NEW n, Flattens(n) PROVE LayoutInv'
  BY <1>10, LayoutFlattens
<1>11. CASE Resolves
  BY <1>11, LayoutUntouched DEF Resolves
<1>12. ASSUME NEW base, Relocates(base) PROVE LayoutInv'
  BY <1>12, LayoutRelocates
<1>13. CASE Reinit
  BY <1>13, LayoutEmptyNext DEF Reinit, Empty
<1>14. CASE UNCHANGED vars
  BY <1>14, LayoutUntouched DEF vars, Bystanders
<1> QED
  BY <1>1, <1>2, <1>3, <1>5, <1>6, <1>7, <1>8, <1>9, <1>10, <1>11, <1>12, <1>13, <1>14 DEF Steps

-------------------------------------------------------------------------------
(* Fixups, entries and fields *)

\* A fixup of label l patches a field that means l, or it tells an entry of its
\* own field where l is.
LabelFixupMeans(l, f) ==
  LET field == fields[f.field] IN
  \/ f.label_or_reloc_id = 0 /\ field.meaning = ToLabel(l) /\ f.rel = -field.size
  \/ /\ f.label_or_reloc_id # 0 /\ field.meaning = PointerTo(l) /\ f.rel = 0
     /\ relocations[f.label_or_reloc_id].field = f.field

\* A fixup that bind() left over patches a field that means its label.
FixupMeans(f) ==
  fields[f.field].meaning = ToLabel(f.label_or_reloc_id) /\ f.rel = -fields[f.field].size

\* Entry r does what its field means, as far as the labels are known.
PointerMeans(re, l, r) ==
  /\ re.kind = "RelToAbs" /\ fields[re.field].meaning = PointerTo(l)
  /\ re.target = labels[l].section /\ re.payload = labels[l].offset
  /\ IsBound(l) \/ \E f \in labels[l].fixups : f.label_or_reloc_id = r

OtherMeans(re) ==
  LET m == fields[re.field].meaning IN
  \/ re.kind = "Expression" /\ m = Distance(m.to, m.from)
  \/ re.kind \in {"AbsToRel", "X64AddressEntry"} /\ m = ToAddress(re.payload)

EntryMeans(r) == OtherMeans(relocations[r]) \/ \E l \in DOMAIN labels : PointerMeans(relocations[r], l, r)

FixupsMean ==
  /\ \A l \in DOMAIN labels : \A f \in labels[l].fixups : LabelFixupMeans(l, f)
  /\ \A f \in fixups : FixupMeans(f)

EntriesMean ==
  /\ \A r \in DOMAIN relocations : EntryMeans(r)
  /\ \A r, q \in DOMAIN relocations : relocations[r].field = relocations[q].field => r = q

LabelsMean ==
  \A l \in DOMAIN labels : IF IsBound(l) THEN labels[l].fixups = {} ELSE labels[l].offset = 0

\* What will fill field n.
HasEntry(n) == \E r \in DOMAIN relocations : relocations[r].field = n
HasLabelFixup(n) ==
  \E l \in DOMAIN labels : \E f \in labels[l].fixups : f.field = n /\ f.label_or_reloc_id = 0
HasFixup(n) == \E f \in fixups : f.field = n

Awaiting(n) == HasEntry(n) \/ HasLabelFixup(n) \/ HasFixup(n)

Accounted == \A n \in DOMAIN fields : fields[n].value = {} <=> Awaiting(n)

\* The fields that fixups wait for.
Awaited == {n \in DOMAIN fields : Waiting(n)}

RefInv ==
  /\ FixupsMean /\ EntriesMean /\ LabelsMean
  /\ phase \in {"emitting", "flattened"} => Accounted
  /\ unresolved_fixup_count = Cardinality(Awaited)

\* Finitely many fields are awaited.
LEMMA AwaitedIsFinite ==
  ASSUME TypeInv
  PROVE  IsFiniteSet(Awaited) /\ Cardinality(Awaited) \in Nat
<1>1. PICK n \in Nat : DOMAIN fields = 1 .. n
  BY Basics, SeqIs
<1>2. IsFiniteSet(1 .. n)
  BY FS_Interval
<1>3. Awaited \in SUBSET (1 .. n)
  BY <1>1 DEF Awaited
<1>4. IsFiniteSet(Awaited)
  BY <1>2, <1>3, FS_Subset
<1> QED
  BY <1>4, FS_CardinalityType

\* Meanings of different kinds, or of different labels, differ.
LEMMA MeaningsApart ==
  ASSUME NEW l, NEW k, NEW m
  PROVE  /\ ToLabel(l) = ToLabel(k) => l = k
         /\ PointerTo(l) = PointerTo(k) => l = k
         /\ ToLabel(l) # PointerTo(k) /\ ToLabel(l) # ToAddress(k) /\ ToLabel(l) # Distance(k, m)
         /\ PointerTo(l) # ToAddress(k) /\ PointerTo(l) # Distance(k, m)
BY DEF ToLabel, PointerTo, ToAddress, Distance

\* A fixup is its three parts.
LEMMA FixupsEqual ==
  ASSUME NEW f \in FixupType, NEW g \in FixupType,
         f.field = g.field, f.rel = g.rel, f.label_or_reloc_id = g.label_or_reloc_id
  PROVE  f = g
BY DEF FixupType

\* No two fixups wait for the same field.
LEMMA FixupsApart ==
  ASSUME CoreInv, FixupsMean, EntriesMean, LabelsMean,
         NEW f \in AllFixups, NEW g \in AllFixups, f.field = g.field
  PROVE  f = g
<1>1. ASSUME NEW l \in DOMAIN labels, NEW k \in DOMAIN labels,
             NEW x \in labels[l].fixups, NEW y \in labels[k].fixups, x.field = y.field
      PROVE  x = y
  <2>1. x \in FixupType /\ y \in FixupType
    BY FixupsOfLabels
  <2>2. LabelFixupMeans(l, x) /\ LabelFixupMeans(k, y)
    BY DEF FixupsMean
  <2>3. x.rel = y.rel
    BY <1>1, <2>2, MeaningsApart DEF LabelFixupMeans
  <2>4. x.label_or_reloc_id = y.label_or_reloc_id
    <3>1. CASE x.label_or_reloc_id = 0
      BY <1>1, <2>2, <3>1, MeaningsApart DEF LabelFixupMeans
    <3>2. CASE x.label_or_reloc_id # 0
      <4>1. y.label_or_reloc_id # 0
        BY <1>1, <2>2, <3>2, MeaningsApart DEF LabelFixupMeans
      <4>2. /\ relocations[x.label_or_reloc_id].field = relocations[y.label_or_reloc_id].field
            /\ x.label_or_reloc_id \in DOMAIN relocations /\ y.label_or_reloc_id \in DOMAIN relocations
        BY <1>1, <2>2, <3>2, <4>1, FixupsOfLabels DEF LabelFixupMeans
      <4> QED
        BY <4>2 DEF EntriesMean
    <3> QED
      BY <3>1, <3>2
  <2> QED
    BY <1>1, <2>1, <2>3, <2>4, FixupsEqual
<1>2. ASSUME NEW x \in fixups, NEW y \in fixups, x.field = y.field
      PROVE  x = y
  <2>1. x \in FixupType /\ y \in FixupType
    BY FixupIs
  <2>2. FixupMeans(x) /\ FixupMeans(y)
    BY DEF FixupsMean
  <2>3. x.rel = y.rel /\ x.label_or_reloc_id = y.label_or_reloc_id
    BY <1>2, <2>2, MeaningsApart DEF FixupMeans
  <2> QED
    BY <1>2, <2>1, <2>3, FixupsEqual
<1>3. ASSUME NEW l \in DOMAIN labels, NEW x \in labels[l].fixups, NEW y \in fixups
      PROVE  x.field # y.field
  <2>1. SUFFICES ASSUME x.field = y.field PROVE FALSE
    OBVIOUS
  <2>2. LabelFixupMeans(l, x) /\ FixupMeans(y)
    BY DEF FixupsMean
  <2>3. l = y.label_or_reloc_id
    BY <2>1, <2>2, MeaningsApart DEF LabelFixupMeans, FixupMeans
  <2>4. IsBound(l)
    BY <2>3, FixupIs
  <2> QED
    BY <2>4 DEF LabelsMean
<1> QED
  BY <1>1, <1>2, <1>3 DEF AllFixups, LabelFixups

\* So there are as many fixups as fields that they wait for.
LEMMA FixupsCounted ==
  ASSUME CoreInv, FixupsMean, EntriesMean, LabelsMean, NEW F \in SUBSET AllFixups
  PROVE  LET N == {f.field : f \in F} IN
         /\ IsFiniteSet(F) /\ IsFiniteSet(N) /\ Cardinality(F) = Cardinality(N)
         /\ Cardinality(F) \in Nat /\ N \subseteq Awaited
<1> DEFINE N == {f.field : f \in F}
           g == [f \in F |-> f.field]
<1>1. N \subseteq Awaited
  <2>1. \A f \in AllFixups : f.field \in DOMAIN fields
    BY FixupsOfLabels, FixupIs DEF AllFixups, LabelFixups
  <2> QED
    BY <2>1 DEF Awaited, Waiting
<1>2. IsFiniteSet(N)
  BY <1>1, AwaitedIsFinite, FS_Subset DEF CoreInv
<1>3. \A x, y \in F : x.field = y.field => x = y
  BY FixupsApart
<1>4. g \in Injection(F, N)
  BY <1>3 DEF Injection, IsInjective
<1>5. IsFiniteSet(F)
  BY <1>2, <1>4, FS_Injection
<1>6. g \in Surjection(F, N)
  BY DEF Surjection
<1> HIDE DEF g, N
<1>7. Cardinality(F) = Cardinality(N)
  BY <1>4, <1>5, <1>6, FS_Surjection
<1> QED
  BY <1>1, <1>2, <1>5, <1>7, FS_CardinalityType DEF N

\* The counter counts the fixups.
LEMMA CountIsExact ==
  ASSUME CoreInv, RefInv
  PROVE  FixupCountExact
<1>1. FixupsMean /\ EntriesMean /\ LabelsMean /\ unresolved_fixup_count = Cardinality(Awaited)
  BY DEF RefInv
<1>2. {f.field : f \in AllFixups} = Awaited
  <2>1. \A f \in AllFixups : f.field \in DOMAIN fields
    BY FixupsOfLabels, FixupIs DEF AllFixups, LabelFixups
  <2> QED
    BY <2>1 DEF Awaited, Waiting
<1>3. Cardinality(AllFixups) = Cardinality(Awaited)
  <2>1. AllFixups \in SUBSET AllFixups
    OBVIOUS
  <2> QED
    BY <1>1, <1>2, <2>1, FixupsCounted
<1> QED
  BY <1>1, <1>3 DEF FixupCountExact, LabelsMean

-------------------------------------------------------------------------------
(* What every step does to the references *)

\* Who waits for a field,
LEMMA WaitingIs ==
  \A n : Waiting(n) <=> \/ \E l \in DOMAIN labels : \E f \in labels[l].fixups : f.field = n
                        \/ HasFixup(n)
BY DEF Waiting, AllFixups, LabelFixups, HasFixup

\* in the next state as well.
LEMMA WaitingIsNext ==
  (\A n : Waiting(n) <=> \/ \E l \in DOMAIN labels : \E f \in labels[l].fixups : f.field = n
                         \/ HasFixup(n))'
BY WaitingIs, PTL

\* Steps that leave the references alone.
LEMMA RefUntouched ==
  ASSUME CoreInv, RefInv, UNCHANGED refs, FieldsKept,
         phase' \in {"emitting", "flattened"} =>
           phase \in {"emitting", "flattened"} /\ UNCHANGED fields
  PROVE  RefInv'
<1>1. UNCHANGED <<labels, fixups, unresolved_fixup_count, relocations>>
  BY DEF refs
<1>2. /\ DOMAIN fields' = DOMAIN fields
      /\ \A n \in DOMAIN fields : fields'[n].meaning = fields[n].meaning /\ fields'[n].size = fields[n].size
  BY DEF FieldsKept
<1>3. FixupsMean'
  <2>1. ASSUME NEW l \in DOMAIN labels, NEW f \in labels[l].fixups PROVE LabelFixupMeans(l, f)'
    BY <1>1, <1>2, FixupsOfLabels DEF RefInv, FixupsMean, LabelFixupMeans
  <2>2. ASSUME NEW f \in fixups PROVE FixupMeans(f)'
    BY <1>1, <1>2, FixupIs DEF RefInv, FixupsMean, FixupMeans
  <2> QED
    BY <1>1, <2>1, <2>2 DEF FixupsMean
<1>4. EntriesMean'
  <2>1. ASSUME NEW r \in DOMAIN relocations PROVE EntryMeans(r)'
    <3>1. EntryMeans(r) /\ relocations'[r] = relocations[r] /\ relocations[r].field \in DOMAIN fields
      BY <1>1, EntryIs DEF RefInv, EntriesMean
    <3>2. fields'[relocations[r].field].meaning = fields[relocations[r].field].meaning
      BY <1>2, <3>1
    <3>3. ASSUME OtherMeans(relocations[r]) PROVE OtherMeans(relocations[r])'
      BY <1>1, <3>2, <3>3 DEF OtherMeans
    <3>4. ASSUME NEW l \in DOMAIN labels, PointerMeans(relocations[r], l, r)
          PROVE  PointerMeans(relocations[r], l, r)'
      BY <1>1, <3>2, <3>4 DEF PointerMeans, IsBound
    <3> QED
      BY <1>1, <3>1, <3>3, <3>4 DEF EntryMeans
  <2> QED
    BY <1>1, <2>1 DEF EntriesMean, RefInv
<1>5. LabelsMean'
  BY <1>1 DEF RefInv, LabelsMean, IsBound
<1>6. phase' \in {"emitting", "flattened"} => Accounted'
  BY <1>1 DEF RefInv, Accounted, Awaiting, HasEntry, HasLabelFixup, HasFixup
<1>7. Awaited' = Awaited
  BY <1>1, <1>2 DEF Awaited, Waiting, AllFixups, LabelFixups
<1> QED
  BY <1>1, <1>3, <1>4, <1>5, <1>6, <1>7 DEF RefInv

\* A new label refers to nothing.
LEMMA RefNewLabel ==
  ASSUME CoreInv, RefInv, NewLabel
  PROVE  RefInv'
<1>1. /\ UNCHANGED <<fixups, unresolved_fixup_count, relocations, fields, phase>>
      /\ labels \in Seq(LabelType)
  BY Basics DEF NewLabel, Bystanders, CoreInv
<1> DEFINE x == [section |-> 0, offset |-> 0, fixups |-> {}]
<1>2. Appended(labels, labels', x)
  <2>1. x \in LabelType
    BY DEF LabelType
  <2>2. labels' = Append(labels, x)
    BY DEF NewLabel
  <2> HIDE DEF x
  <2> QED
    BY <1>1, <2>1, <2>2, AppendIsAppended
<1>3. PICK k : /\ k \notin DOMAIN labels /\ DOMAIN labels' = DOMAIN labels \cup {k} /\ labels'[k] = x
               /\ \A l \in DOMAIN labels : labels'[l] = labels[l]
  BY <1>2 DEF Appended
<1>4. labels'[k].section = 0 /\ labels'[k].offset = 0 /\ labels'[k].fixups = {}
  BY <1>3
<1>5. FixupsMean'
  BY <1>1, <1>3, <1>4 DEF RefInv, FixupsMean, LabelFixupMeans, FixupMeans
<1>6. EntriesMean'
  <2>1. ASSUME NEW r \in DOMAIN relocations PROVE EntryMeans(r)'
    <3>1. EntryMeans(r)
      BY DEF RefInv, EntriesMean
    <3>2. ASSUME OtherMeans(relocations[r]) PROVE OtherMeans(relocations[r])'
      BY <1>1, <3>2 DEF OtherMeans
    <3>3. ASSUME NEW l \in DOMAIN labels, PointerMeans(relocations[r], l, r)
          PROVE  PointerMeans(relocations[r], l, r)'
      BY <1>1, <1>3, <3>3 DEF PointerMeans, IsBound
    <3> QED
      BY <1>1, <1>3, <3>1, <3>2, <3>3 DEF EntryMeans
  <2> QED
    BY <1>1, <2>1 DEF EntriesMean, RefInv
<1>7. LabelsMean'
  BY <1>3, <1>4 DEF RefInv, LabelsMean, IsBound
<1>8. \A n : Awaiting(n)' <=> Awaiting(n)
  BY <1>1, <1>3, <1>4 DEF Awaiting, HasEntry, HasLabelFixup, HasFixup
<1>9. Awaited' = Awaited
  BY <1>1, <1>3, <1>4, WaitingIs, WaitingIsNext DEF Awaited, HasFixup
<1> QED
  BY <1>1, <1>5, <1>6, <1>7, <1>8, <1>9 DEF RefInv, Accounted

-------------------------------------------------------------------------------
(* What emitting a field does to the references *)

\* The labels are where they were and keep their fixups.
LabelsKept ==
  /\ DOMAIN labels' = DOMAIN labels
  /\ \A l \in DOMAIN labels :
       /\ labels'[l].section = labels[l].section /\ labels'[l].offset = labels[l].offset
       /\ labels[l].fixups \subseteq labels'[l].fixups

\* Whatever is new is for the new field.
NewFixupsMean ==
  \A l \in DOMAIN labels : \A f \in labels'[l].fixups : f \notin labels[l].fixups =>
    f.field = NextField /\ ~IsBound(l) /\ LabelFixupMeans(l, f)'

NewEntriesMean ==
  /\ DOMAIN relocations \subseteq DOMAIN relocations'
  /\ \A r \in DOMAIN relocations : relocations'[r] = relocations[r]
  /\ \A r \in DOMAIN relocations' : r \notin DOMAIN relocations =>
       r = NextReloc /\ relocations'[r].field = NextField /\ EntryMeans(r)'

GainsFixup == \E l \in DOMAIN labels : \E f \in labels'[l].fixups : f.field = NextField

GainsWriter ==
  \/ NextReloc \in DOMAIN relocations' /\ NextReloc \notin DOMAIN relocations
  \/ \E l \in DOMAIN labels : \E f \in labels'[l].fixups : f.field = NextField /\ f.label_or_reloc_id = 0

RefsGrow(field) ==
  /\ LabelsKept /\ NewFixupsMean /\ NewEntriesMean
  /\ field.value = {} <=> GainsWriter
  /\ unresolved_fixup_count' = IF GainsFixup THEN unresolved_fixup_count + 1
                                             ELSE unresolved_fixup_count

\* The new fixup or entry means what the new field means, and the rest keeps its meaning.
LEMMA RefGrow ==
  ASSUME CoreInv, RefInv, NEW field, Emits(field), RefsGrow(field)
  PROVE  RefInv'
<1>1. /\ NextField \in Nat /\ NextField \notin DOMAIN fields
      /\ DOMAIN fields' = DOMAIN fields \cup {NextField} /\ fields'[NextField] = field
      /\ \A n \in DOMAIN fields : fields'[n] = fields[n]
      /\ fixups' = fixups /\ phase' = phase
  BY EmitsBasics DEF Emits, Bystanders
<1>2. /\ DOMAIN labels' = DOMAIN labels
      /\ \A l \in DOMAIN labels :
           /\ labels'[l].section = labels[l].section /\ labels'[l].offset = labels[l].offset
           /\ labels[l].fixups \subseteq labels'[l].fixups
           /\ IsBound(l)' <=> IsBound(l)
  BY DEF RefsGrow, LabelsKept, IsBound
<1>3. /\ DOMAIN relocations \subseteq DOMAIN relocations'
      /\ \A r \in DOMAIN relocations : relocations'[r] = relocations[r]
      /\ \A r \in DOMAIN relocations' : r \notin DOMAIN relocations =>
           r = NextReloc /\ relocations'[r].field = NextField /\ EntryMeans(r)'
  BY DEF RefsGrow, NewEntriesMean
<1>4. \A l \in DOMAIN labels : \A f \in labels'[l].fixups : f \notin labels[l].fixups =>
        f.field = NextField /\ ~IsBound(l) /\ LabelFixupMeans(l, f)'
  BY DEF RefsGrow, NewFixupsMean
<1>5. /\ \A r \in DOMAIN relocations : relocations[r].field \in DOMAIN fields
      /\ \A l \in DOMAIN labels : \A f \in labels[l].fixups :
           f.field \in DOMAIN fields /\ f.label_or_reloc_id \in {0} \cup DOMAIN relocations
      /\ \A f \in fixups : f.field \in DOMAIN fields
  BY EntryIs, FixupsOfLabels, FixupIs
<1>6. FixupsMean'
  <2>1. ASSUME NEW l \in DOMAIN labels, NEW f \in labels[l].fixups PROVE LabelFixupMeans(l, f)'
    <3>1. LabelFixupMeans(l, f) /\ fields'[f.field] = fields[f.field]
      BY <1>1, <1>5 DEF RefInv, FixupsMean
    <3>2. f.label_or_reloc_id # 0 => relocations'[f.label_or_reloc_id] = relocations[f.label_or_reloc_id]
      BY <1>3, <1>5
    <3> QED
      BY <3>1, <3>2 DEF LabelFixupMeans
  <2>2. ASSUME NEW f \in fixups PROVE FixupMeans(f)'
    BY <1>1, <1>5 DEF RefInv, FixupsMean, FixupMeans
  <2> QED
    BY <1>1, <1>2, <1>4, <2>1, <2>2 DEF FixupsMean
<1>7. EntriesMean'
  <2>1. ASSUME NEW r \in DOMAIN relocations PROVE EntryMeans(r)'
    <3>1. EntryMeans(r) /\ relocations'[r] = relocations[r]
      BY <1>3 DEF RefInv, EntriesMean
    <3>2. fields'[relocations[r].field] = fields[relocations[r].field]
      BY <1>1, <1>5
    <3>3. ASSUME OtherMeans(relocations[r]) PROVE EntryMeans(r)'
      BY <3>1, <3>2, <3>3 DEF OtherMeans, EntryMeans
    <3>4. ASSUME NEW l \in DOMAIN labels, PointerMeans(relocations[r], l, r)
          PROVE  EntryMeans(r)'
      <4>1. /\ relocations'[r].kind = "RelToAbs" /\ fields'[relocations'[r].field].meaning = PointerTo(l)
            /\ relocations'[r].target = labels'[l].section /\ relocations'[r].payload = labels'[l].offset
        BY <1>2, <3>1, <3>2, <3>4 DEF PointerMeans
      <4>2. IsBound(l)' \/ \E f \in labels'[l].fixups : f.label_or_reloc_id = r
        BY <1>2, <3>4 DEF PointerMeans
      <4>3. PointerMeans(relocations[r], l, r)'
        BY <4>1, <4>2 DEF PointerMeans
      <4> QED
        BY <1>2, <4>3 DEF EntryMeans
    <3> QED
      BY <3>1, <3>3, <3>4 DEF EntryMeans
  <2>2. ASSUME NEW r \in DOMAIN relocations', NEW q \in DOMAIN relocations',
               relocations'[r].field = relocations'[q].field
        PROVE  r = q
    <3>1. CASE r \in DOMAIN relocations /\ q \in DOMAIN relocations
      BY <1>3, <2>2, <3>1 DEF RefInv, EntriesMean
    <3>2. CASE r \notin DOMAIN relocations \/ q \notin DOMAIN relocations
      BY <1>1, <1>3, <1>5, <2>2, <3>2
    <3> QED
      BY <3>1, <3>2
  <2> QED
    BY <1>3, <2>1, <2>2 DEF EntriesMean
<1>8. LabelsMean'
  <2>1. ASSUME NEW l \in DOMAIN labels, IsBound(l) PROVE labels'[l].fixups = {}
    <3>1. labels[l].fixups = {}
      BY <2>1 DEF RefInv, LabelsMean
    <3> QED
      BY <1>4, <2>1, <3>1
  <2>2. ASSUME NEW l \in DOMAIN labels, ~IsBound(l) PROVE labels'[l].offset = 0
    BY <1>2, <2>2 DEF RefInv, LabelsMean
  <2> QED
    BY <1>2, <2>1, <2>2 DEF LabelsMean
<1>9. phase' \in {"emitting", "flattened"} => Accounted'
  <2> SUFFICES ASSUME phase' \in {"emitting", "flattened"} PROVE Accounted'
    OBVIOUS
  <2>1. Accounted
    BY <1>1 DEF RefInv
  <2>2. ASSUME NEW n \in DOMAIN fields PROVE Awaiting(n)' <=> Awaiting(n)
    <3>0. n # NextField
      BY <1>1
    <3>1. HasEntry(n)' <=> HasEntry(n)
      BY <1>3, <3>0 DEF HasEntry
    <3>2. HasLabelFixup(n)' <=> HasLabelFixup(n)
      BY <1>2, <1>4, <3>0 DEF HasLabelFixup
    <3>3. HasFixup(n)' <=> HasFixup(n)
      BY <1>1 DEF HasFixup
    <3> QED
      BY <3>1, <3>2, <3>3 DEF Awaiting
  <2>3. \A n : n = NextField => (Awaiting(n)' <=> GainsWriter)
    <3> TAKE n
    <3> HAVE n = NextField
    <3>1. HasEntry(n)' <=> NextReloc \in DOMAIN relocations' /\ NextReloc \notin DOMAIN relocations
      BY <1>1, <1>3, <1>5 DEF HasEntry
    <3>2. HasLabelFixup(n)' <=>
            \E l \in DOMAIN labels : \E f \in labels'[l].fixups : f.field = NextField /\ f.label_or_reloc_id = 0
      BY <1>2 DEF HasLabelFixup
    <3>3. ~HasFixup(n)'
      BY <1>1, <1>5 DEF HasFixup
    <3> QED
      BY <3>1, <3>2, <3>3 DEF Awaiting, GainsWriter
  <2>4. \A n \in DOMAIN fields' : fields'[n].value = {} <=> Awaiting(n)'
    BY <1>1, <2>1, <2>2, <2>3 DEF Accounted, RefsGrow
  <2> QED
    BY <2>4 DEF Accounted
<1>10. unresolved_fixup_count' = Cardinality(Awaited')
  <2>1. /\ unresolved_fixup_count = Cardinality(Awaited)
        /\ IsFiniteSet(Awaited) /\ NextField \notin Awaited
    BY <1>1, AwaitedIsFinite DEF RefInv, CoreInv, Awaited
  <2>2. ASSUME NEW n \in DOMAIN fields PROVE Waiting(n)' <=> Waiting(n)
    <3>0. n # NextField
      BY <1>1
    <3> QED
      BY <1>1, <1>2, <1>4, <3>0, WaitingIs, WaitingIsNext DEF HasFixup
  <2>3. \A n : n = NextField => (Waiting(n)' <=> GainsFixup)
    <3> TAKE n
    <3> HAVE n = NextField
    <3>1. ~HasFixup(n)'
      BY <1>1, <1>5 DEF HasFixup
    <3> QED
      BY <1>2, <3>1, WaitingIsNext DEF GainsFixup
  <2>4. Awaited' = IF GainsFixup THEN Awaited \cup {NextField} ELSE Awaited
    <3>1. \A n : n \in Awaited' <=> n \in DOMAIN fields' /\ Waiting(n)'
      BY DEF Awaited
    <3>2. \A n : n \in Awaited <=> n \in DOMAIN fields /\ Waiting(n)
      BY DEF Awaited
    <3> QED
      BY <1>1, <2>2, <2>3, <3>1, <3>2
  <2>5. Cardinality(Awaited \cup {NextField}) = Cardinality(Awaited) + 1
    BY <2>1, FS_AddElement
  <2> QED
    BY <2>1, <2>4, <2>5 DEF RefsGrow
<1> QED
  BY <1>6, <1>7, <1>8, <1>9, <1>10 DEF RefInv

\* The three ways to emit a field: with its value,
LEMMA RefEmitsValue ==
  ASSUME CoreInv, RefInv, NEW field, EmitsValue(field)
  PROVE  RefInv'
<1>1. Emits(field) /\ UNCHANGED <<labels, unresolved_fixup_count, relocations>> /\ field.value # {}
  BY DEF EmitsValue, KnownValue
<1>2. NextField \notin DOMAIN fields
  BY <1>1, EmitsBasics
<1>3. \A l \in DOMAIN labels : \A f \in labels'[l].fixups : f.field # NextField
  BY <1>1, <1>2, FixupsOfLabels
<1>4. RefsGrow(field)
  BY <1>1, <1>3 DEF RefsGrow, LabelsKept, NewFixupsMean, NewEntriesMean, GainsFixup, GainsWriter
<1> QED
  BY <1>1, <1>4, RefGrow

\* with a fixup,
LEMMA RefEmitsFixup ==
  ASSUME CoreInv, RefInv, NEW field, NEW l, EmitsFixup(field, l)
  PROVE  RefInv'
<1>1. /\ Emits(field) /\ UNCHANGED relocations /\ field.value = {} /\ field.meaning = ToLabel(l)
      /\ l \in DOMAIN labels /\ ~IsBound(l) /\ NewFixup(l, -field.size, 0)
  BY DEF EmitsFixup
<1>2. /\ NextField \notin DOMAIN fields /\ fields'[NextField] = field
      /\ field.size \in {1, 4, AddressSize}
  BY <1>1, EmitsBasics DEF Emits, FieldType
<1>3. PICK x : GetsFixup(l, x) /\ x.rel = -field.size /\ x.label_or_reloc_id = 0
  <2>1. PICK rel \in Int : rel = -field.size
    BY <1>2 DEF AddressSize
  <2>2. NewFixup(l, rel, 0)
    BY <1>1, <2>1
  <2> QED
    BY <1>1, <2>1, <2>2, NewFixupIs DEF CoreInv
<1>4. LabelFixupMeans(l, x)'
  <2>1. \A n : n = NextField => fields'[n] = field
    BY <1>2
  <2>2. x.field = NextField
    BY <1>3 DEF GetsFixup
  <2>3. fields'[x.field] = field
    BY <2>1, <2>2
  <2> QED
    BY <1>1, <1>3, <2>3 DEF LabelFixupMeans
<1>5. GainsFixup /\ GainsWriter /\ LabelsKept /\ unresolved_fixup_count' = unresolved_fixup_count + 1
  BY <1>1, <1>3 DEF GetsFixup, GainsFixup, GainsWriter, LabelsKept
<1>6. NewFixupsMean
  BY <1>1, <1>3, <1>4 DEF NewFixupsMean, GetsFixup
<1>7. NewEntriesMean
  BY <1>1 DEF NewEntriesMean
<1>8. RefsGrow(field)
  BY <1>1, <1>5, <1>6, <1>7 DEF RefsGrow
<1> QED
  BY <1>1, <1>8, RefGrow

\* and with a relocation entry.
LEMMA RefEmitsEntry ==
  ASSUME CoreInv, RefInv, NEW field, NEW entry, EmitsEntry(field, entry)
  PROVE  RefInv'
<1>1. /\ Emits(field) /\ field.value = {} /\ entry.field = NextField
      /\ \/ EntryOfPointer(entry, field.meaning)
         \/ EntryOfDistance(entry, field.meaning)
         \/ EntryOfAddress(entry, field.meaning)
  BY DEF EmitsEntry
<1>2. /\ NextField \notin DOMAIN fields
      /\ \A n : n = NextField => fields'[n] = field
  BY <1>1, EmitsBasics
<1>3. /\ NextReloc \notin DOMAIN relocations /\ NextReloc \in Nat
      /\ DOMAIN relocations' = DOMAIN relocations \cup {NextReloc}
      /\ \A r : r = NextReloc => relocations'[r] = entry
      /\ \A r \in DOMAIN relocations : relocations'[r] = relocations[r]
      /\ NextReloc # 0
  <2>1. NextReloc # 0
    BY Basics, SeqIs DEF CoreInv, NextReloc
  <2> QED
    BY <2>1, EntryAdded
<1>4. ASSUME UNCHANGED <<labels, unresolved_fixup_count>>, \A r : r = NextReloc => EntryMeans(r)'
      PROVE  RefInv'
  <2>1. \A l \in DOMAIN labels : \A f \in labels'[l].fixups : f.field # NextField
    BY <1>2, <1>4, FixupsOfLabels
  <2>2. LabelsKept /\ NewFixupsMean /\ ~GainsFixup /\ GainsWriter
    BY <1>3, <1>4, <2>1 DEF LabelsKept, NewFixupsMean, GainsFixup, GainsWriter
  <2>3. NewEntriesMean
    BY <1>1, <1>3, <1>4 DEF NewEntriesMean
  <2>4. RefsGrow(field)
    BY <1>1, <1>4, <2>2, <2>3 DEF RefsGrow
  <2> QED
    BY <1>1, <2>4, RefGrow
<1>5. ASSUME OtherMeans(entry)' PROVE \A r : r = NextReloc => EntryMeans(r)'
  <2> TAKE r
  <2> HAVE r = NextReloc
  <2>1. relocations'[r] = entry
    BY <1>3
  <2> QED
    BY <1>5, <2>1 DEF EntryMeans, OtherMeans
<1>6. fields'[entry.field] = field
  BY <1>1, <1>2
<1>7. CASE EntryOfDistance(entry, field.meaning)
  <2>1. OtherMeans(entry)'
    BY <1>6, <1>7 DEF EntryOfDistance, OtherMeans, Distance
  <2> QED
    BY <1>4, <1>5, <1>7, <2>1 DEF EntryOfDistance
<1>8. CASE EntryOfAddress(entry, field.meaning)
  <2>1. OtherMeans(entry)'
    BY <1>6, <1>8 DEF EntryOfAddress, OtherMeans
  <2> QED
    BY <1>4, <1>5, <1>8, <2>1 DEF EntryOfAddress
<1>9. CASE EntryOfPointer(entry, field.meaning)
  <2>1. PICK l \in DOMAIN labels :
          /\ entry.kind = "RelToAbs" /\ field.meaning = PointerTo(l)
          /\ entry.payload = (IF IsBound(l) THEN labels[l].offset ELSE 0)
          /\ entry.target = labels[l].section
          /\ IF IsBound(l) THEN UNCHANGED <<labels, unresolved_fixup_count>>
                           ELSE NewFixup(l, 0, NextReloc)
    BY <1>9 DEF EntryOfPointer
  <2>2. CASE IsBound(l)
    <3>1. UNCHANGED <<labels, unresolved_fixup_count>>
      BY <2>1, <2>2
    <3>2. ASSUME NEW r, r = NextReloc PROVE EntryMeans(r)'
      <4>1. relocations'[r] = entry
        BY <1>3, <3>2
      <4>2. PointerMeans(relocations[r], l, r)'
        BY <1>6, <2>1, <2>2, <3>1, <4>1 DEF PointerMeans, IsBound
      <4> QED
        BY <3>1, <4>2 DEF EntryMeans
    <3> QED
      BY <1>4, <3>1, <3>2
  <2>3. CASE ~IsBound(l)
    <3>1. NewFixup(l, 0, NextReloc)
      BY <2>1, <2>3
    <3>2. PICK x : GetsFixup(l, x) /\ x.rel = 0 /\ x.label_or_reloc_id = NextReloc
      BY <1>3, <3>1, NewFixupIs DEF CoreInv
    <3>3. x.field = NextField /\ DOMAIN labels' = DOMAIN labels /\ x \in labels'[l].fixups
      BY <3>2 DEF GetsFixup
    <3>4. LabelFixupMeans(l, x)'
      <4>1. fields'[x.field] = field
        BY <1>2, <3>3
      <4>2. relocations'[x.label_or_reloc_id] = entry
        BY <1>3, <3>2
      <4> QED
        BY <1>1, <1>3, <2>1, <3>2, <3>3, <4>1, <4>2 DEF LabelFixupMeans
    <3>5. ASSUME NEW r, r = NextReloc PROVE EntryMeans(r)'
      <4>1. relocations'[r] = entry
        BY <1>3, <3>5
      <4>2. labels'[l].section = labels[l].section /\ labels'[l].offset = labels[l].offset
        BY <3>2 DEF GetsFixup
      <4>3. labels[l].offset = 0
        BY <2>3 DEF RefInv, LabelsMean
      <4>4. PointerMeans(relocations[r], l, r)'
        BY <1>6, <2>1, <2>3, <3>2, <3>3, <3>5, <4>1, <4>2, <4>3 DEF PointerMeans
      <4> QED
        BY <3>3, <4>4 DEF EntryMeans
    <3>6. /\ GainsFixup /\ GainsWriter /\ LabelsKept
          /\ unresolved_fixup_count' = unresolved_fixup_count + 1
      BY <1>3, <3>2, <3>3 DEF GetsFixup, GainsFixup, GainsWriter, LabelsKept
    <3>7. NewFixupsMean
      BY <2>3, <3>2, <3>4 DEF NewFixupsMean, GetsFixup
    <3>8. NewEntriesMean
      BY <1>1, <1>3, <3>5 DEF NewEntriesMean
    <3>9. RefsGrow(field)
      BY <1>1, <3>6, <3>7, <3>8 DEF RefsGrow
    <3> QED
      BY <1>1, <3>9, RefGrow
  <2> QED
    BY <2>2, <2>3
<1> QED
  BY <1>1, <1>7, <1>8, <1>9

\* A field that an entry fills does not mean a label.
LEMMA EntryNotToLabel ==
  ASSUME EntriesMean, NEW r \in DOMAIN relocations, NEW l
  PROVE  fields[relocations[r].field].meaning # ToLabel(l)
<1>1. OtherMeans(relocations[r]) \/ \E k \in DOMAIN labels : PointerMeans(relocations[r], k, r)
  BY DEF EntriesMean, EntryMeans
<1>2. ASSUME OtherMeans(relocations[r]) PROVE fields[relocations[r].field].meaning # ToLabel(l)
  BY <1>2, MeaningsApart DEF OtherMeans
<1>3. ASSUME NEW k \in DOMAIN labels, PointerMeans(relocations[r], k, r)
      PROVE  fields[relocations[r].field].meaning # ToLabel(l)
  BY <1>3, MeaningsApart DEF PointerMeans
<1> QED
  BY <1>1, <1>2, <1>3

\* A fixup is on one list.
LEMMA OneList ==
  ASSUME CoreInv, FixupsMean, LabelsMean, NEW l \in DOMAIN labels, NEW f \in labels[l].fixups
  PROVE  /\ f \notin fixups
         /\ \A k \in DOMAIN labels : f \in labels[k].fixups => k = l
<1>1. LabelFixupMeans(l, f)
  BY DEF FixupsMean
<1>2. ASSUME f \in fixups PROVE FALSE
  <2>1. FixupMeans(f) /\ IsBound(f.label_or_reloc_id)
    BY <1>2, FixupIs DEF FixupsMean
  <2>2. l = f.label_or_reloc_id
    BY <1>1, <2>1, MeaningsApart DEF LabelFixupMeans, FixupMeans
  <2> QED
    BY <2>1, <2>2 DEF LabelsMean
<1>3. ASSUME NEW k \in DOMAIN labels, f \in labels[k].fixups PROVE k = l
  <2>1. LabelFixupMeans(k, f)
    BY <1>3 DEF FixupsMean
  <2> QED
    BY <1>1, <2>1, MeaningsApart DEF LabelFixupMeans
<1> QED
  BY <1>2, <1>3

\* What binding does, in the terms the references are put in.
LEMMA BindsParts ==
  ASSUME CoreInv, NEW s, NEW l, Binds(s, l)
  PROVE  /\ phase = "emitting" /\ phase' = phase
         /\ ~IsBound(l) /\ l \in DOMAIN labels /\ s # 0
         /\ sections[s].size \in Nat
         /\ labels'[l].section = s /\ labels'[l].offset = sections[s].size /\ labels'[l].fixups = {}
         /\ DOMAIN labels' = DOMAIN labels
         /\ \A k \in DOMAIN labels : k # l => labels'[k] = labels[k]
         /\ DOMAIN relocations' = DOMAIN relocations
         /\ \A r \in DOMAIN relocations :
              relocations'[r].kind = relocations[r].kind /\ relocations'[r].field = relocations[r].field
         /\ DOMAIN fields' = DOMAIN fields
         /\ \A n \in DOMAIN fields :
              fields'[n].meaning = fields[n].meaning /\ fields'[n].size = fields[n].size
<1>1. /\ Emitting /\ UNCHANGED Bystanders /\ s \in CodeSections /\ ~IsBound(l) /\ l \in DOMAIN labels
      /\ BindsLabel(s, l) /\ EntriesStay /\ FieldsKept
  BY DEF Binds, BindsEntries, BindsFields
<1>2. s # 0 /\ sections[s].size \in Nat
  BY <1>1, Basics, SectionSize DEF CoreInv
<1> QED
  BY <1>1, <1>2 DEF Emitting, Bystanders, BindsLabel, EntriesStay, FieldsKept

\* What is left or told after binding means the same label.
LEMMA BindsMeanings ==
  ASSUME CoreInv, RefInv, NEW s, NEW l, Binds(s, l)
  PROVE  FixupsMean' /\ EntriesMean' /\ LabelsMean'
<1>0. FixupsMean /\ EntriesMean /\ LabelsMean
  BY DEF RefInv
<1> DEFINE pos == sections[s].size
<1>1. /\ ~IsBound(l) /\ l \in DOMAIN labels /\ s # 0 /\ pos \in Nat
      /\ labels'[l].section = s /\ labels'[l].offset = pos /\ labels'[l].fixups = {}
      /\ DOMAIN labels' = DOMAIN labels
      /\ \A k \in DOMAIN labels : k # l => labels'[k] = labels[k]
      /\ DOMAIN relocations' = DOMAIN relocations
      /\ \A r \in DOMAIN relocations :
           relocations'[r].kind = relocations[r].kind /\ relocations'[r].field = relocations[r].field
  BY BindsParts
<1>2. \A n \in DOMAIN fields : fields'[n].meaning = fields[n].meaning /\ fields'[n].size = fields[n].size
  BY BindsParts
<1> HIDE DEF pos
<1>3. FixupsMean'
  <2>1. ASSUME NEW k \in DOMAIN labels, NEW f \in labels'[k].fixups PROVE LabelFixupMeans(k, f)'
    <3>1. k # l /\ f \in labels[k].fixups
      BY <1>1, <2>1
    <3>2. LabelFixupMeans(k, f)
      BY <1>0, <3>1 DEF FixupsMean
    <3>3. f.field \in DOMAIN fields /\ f.label_or_reloc_id \in {0} \cup DOMAIN relocations
      BY <3>1, FixupsOfLabels
    <3> QED
      BY <1>1, <1>2, <3>2, <3>3 DEF LabelFixupMeans
  <2>2. ASSUME NEW f \in fixups' PROVE FixupMeans(f)'
    <3>1. CASE f \in fixups
      BY <1>0, <1>2, <3>1, FixupIs DEF FixupsMean, FixupMeans
    <3>2. ASSUME NEW x \in FixupsLeft(s, l), f.field = x.field, f.rel = x.rel, f.label_or_reloc_id = l
          PROVE  FixupMeans(f)'
      <4>1. x \in labels[l].fixups /\ x.label_or_reloc_id = 0
        BY DEF FixupsLeft, DirectFixups
      <4>2. LabelFixupMeans(l, x) /\ x.field \in DOMAIN fields
        BY <1>0, <1>1, <4>1, FixupsOfLabels DEF FixupsMean
      <4> QED
        BY <1>2, <3>2, <4>1, <4>2 DEF LabelFixupMeans, FixupMeans
    <3> QED
      BY <3>1, <3>2 DEF Binds, BindsFixups
  <2> QED
    BY <1>1, <2>1, <2>2 DEF FixupsMean
<1>4. ASSUME NEW r \in DOMAIN relocations PROVE EntryMeans(r)'
  <2>1. EntryMeans(r) /\ relocations[r].field \in DOMAIN fields
    BY <1>0, EntryIs DEF EntriesMean
  <2>2. fields'[relocations[r].field].meaning = fields[relocations[r].field].meaning
    BY <1>2, <2>1
  <2>3. r \notin EntriesTold(l) => relocations'[r] = relocations[r]
    BY DEF Binds, BindsEntries
  <2>4. CASE OtherMeans(relocations[r])
    <3>1. r \notin EntriesTold(l)
      <4>1. \A f \in labels[l].fixups \ DirectFixups(l) : relocations[f.label_or_reloc_id].kind = "RelToAbs"
        BY <1>1, FixupsOfLabels DEF DirectFixups
      <4> QED
        BY <2>4, <4>1 DEF EntriesTold, OtherMeans
    <3> QED
      BY <2>2, <2>3, <2>4, <3>1 DEF OtherMeans, EntryMeans
  <2>5. ASSUME NEW k \in DOMAIN labels, PointerMeans(relocations[r], k, r) PROVE EntryMeans(r)'
    <3>1. /\ relocations'[r].kind = "RelToAbs" /\ relocations'[r].field = relocations[r].field
          /\ fields'[relocations'[r].field].meaning = PointerTo(k)
          /\ fields[relocations[r].field].meaning = PointerTo(k)
      BY <1>1, <2>2, <2>5 DEF PointerMeans
    <3>2. CASE k = l
      <4>1. PICK f \in labels[l].fixups : f.label_or_reloc_id = r
        BY <1>1, <2>5, <3>2 DEF PointerMeans
      <4>2. r # 0
        BY Basics, Indexes DEF CoreInv
      <4>3. r \in EntriesTold(l)
        BY <4>1, <4>2 DEF EntriesTold, DirectFixups
      <4>4. relocations'[r].payload = relocations[r].payload + pos /\ relocations'[r].target = s
        BY <4>3 DEF Binds, BindsEntries, pos
      <4>5. relocations[r].payload = 0
        BY <1>0, <1>1, <2>5, <3>2 DEF PointerMeans, LabelsMean
      <4>6. PointerMeans(relocations[r], k, r)'
        BY <1>1, <3>1, <3>2, <4>4, <4>5 DEF PointerMeans, IsBound
      <4> QED
        BY <1>1, <4>6 DEF EntryMeans
    <3>3. CASE k # l
      <4>1. r \notin EntriesTold(l)
        <5> SUFFICES ASSUME NEW f \in labels[l].fixups, f.label_or_reloc_id # 0, f.label_or_reloc_id = r
                     PROVE  FALSE
          BY DEF EntriesTold, DirectFixups
        <5>1. LabelFixupMeans(l, f)
          BY <1>0, <1>1 DEF FixupsMean
        <5> QED
          BY <3>1, <3>3, <5>1, MeaningsApart DEF LabelFixupMeans
      <4>2. relocations'[r] = relocations[r] /\ labels'[k] = labels[k]
        BY <1>1, <2>3, <3>3, <4>1
      <4>3. PointerMeans(relocations[r], k, r)'
        BY <2>5, <3>1, <4>2 DEF PointerMeans, IsBound
      <4> QED
        BY <1>1, <4>3 DEF EntryMeans
    <3> QED
      BY <3>2, <3>3
  <2> QED
    BY <2>1, <2>4, <2>5 DEF EntryMeans
<1>5. EntriesMean'
  BY <1>0, <1>1, <1>4 DEF EntriesMean
<1>6. LabelsMean'
  BY <1>0, <1>1 DEF LabelsMean, IsBound
<1> QED
  BY <1>3, <1>5, <1>6

\* The fixups of a label are among all fixups.
LEMMA OnLists ==
  ASSUME NEW l \in DOMAIN labels, NEW f \in labels[l].fixups
  PROVE  f \in AllFixups
BY DEF AllFixups, LabelFixups

\* A patched field waits for nothing any more.
LEMMA BindsPatchedField ==
  ASSUME CoreInv, RefInv, NEW s, NEW l, Binds(s, l), NEW f \in FixupsPatched(s, l)
  PROVE  ~Awaiting(f.field)'
<1>0. FixupsMean /\ EntriesMean /\ LabelsMean
  BY DEF RefInv
<1>1. /\ ~IsBound(l) /\ l \in DOMAIN labels /\ labels'[l].fixups = {}
      /\ DOMAIN labels' = DOMAIN labels
      /\ \A k \in DOMAIN labels : k # l => labels'[k] = labels[k]
      /\ DOMAIN relocations' = DOMAIN relocations
      /\ \A r \in DOMAIN relocations : relocations'[r].field = relocations[r].field
  BY BindsParts
<1>2. /\ f \in labels[l].fixups /\ f.label_or_reloc_id = 0 /\ f \notin FixupsLeft(s, l)
      /\ f \in AllFixups
  BY <1>1, OnLists DEF FixupsPatched, FixupsLeft, DirectFixups
<1>3. fields[f.field].meaning = ToLabel(l)
  BY <1>0, <1>1, <1>2 DEF FixupsMean, LabelFixupMeans
<1>4. ~HasEntry(f.field)'
  BY <1>0, <1>1, <1>3, EntryNotToLabel DEF HasEntry
<1>5. ~HasLabelFixup(f.field)'
  <2> SUFFICES ASSUME NEW k \in DOMAIN labels, NEW g \in labels'[k].fixups, g.field = f.field
               PROVE  FALSE
    BY <1>1 DEF HasLabelFixup
  <2>1. k # l /\ g \in labels[k].fixups
    BY <1>1
  <2>2. g = f
    BY <1>0, <1>2, <2>1, OnLists, FixupsApart
  <2> QED
    BY <1>0, <1>1, <1>2, <2>1, <2>2, OneList
<1>6. ~HasFixup(f.field)'
  <2> SUFFICES ASSUME NEW g \in fixups', g.field = f.field
               PROVE  FALSE
    BY DEF HasFixup
  <2>1. CASE g \in fixups
    <3>1. g = f
      BY <1>0, <1>2, <2>1, FixupsApart DEF AllFixups
    <3> QED
      BY <1>0, <1>1, <1>2, <2>1, <3>1, OneList
  <2>2. ASSUME NEW x \in FixupsLeft(s, l), x.field = g.field PROVE FALSE
    <3>1. x \in labels[l].fixups
      BY DEF FixupsLeft, DirectFixups
    <3>2. x = f
      BY <1>0, <1>1, <1>2, <2>2, <3>1, OnLists, FixupsApart
    <3> QED
      BY <1>2, <3>2
  <2> QED
    BY <2>1, <2>2 DEF Binds, BindsFixups
<1> QED
  BY <1>4, <1>5, <1>6 DEF Awaiting

\* What is left waits for the same fields.
LEMMA BindsFixupsLeft ==
  ASSUME CoreInv, NEW s, NEW l, Binds(s, l), NEW n
  PROVE  HasFixup(n)' <=> HasFixup(n) \/ \E x \in FixupsLeft(s, l) : x.field = n
<1>1. ASSUME NEW x \in FixupsLeft(s, l) PROVE [x EXCEPT !.label_or_reloc_id = l].field = x.field
  <2>1. x \in FixupType
    BY BindsParts, FixupsOfLabels DEF FixupsLeft, DirectFixups
  <2> QED
    BY <2>1 DEF FixupType
<1>2. \A x \in FixupsLeft(s, l) : \E f \in fixups' : f.field = x.field
  BY <1>1 DEF Binds, BindsFixups
<1>3. \A f \in fixups' : f \in fixups \/ \E x \in FixupsLeft(s, l) : f.field = x.field
  BY DEF Binds, BindsFixups
<1>4. \A f \in fixups : f \in fixups'
  BY DEF Binds, BindsFixups
<1> QED
  BY <1>2, <1>3, <1>4 DEF HasFixup

\* Binding fills the fields of the fixups it takes away.
LEMMA BindsAccounted ==
  ASSUME CoreInv, RefInv, NEW s, NEW l, Binds(s, l)
  PROVE  Accounted'
<1>0. Accounted
  BY BindsParts DEF RefInv
<1>1. /\ ~IsBound(l) /\ l \in DOMAIN labels /\ labels'[l].fixups = {}
      /\ DOMAIN labels' = DOMAIN labels
      /\ \A k \in DOMAIN labels : k # l => labels'[k] = labels[k]
      /\ DOMAIN relocations' = DOMAIN relocations /\ DOMAIN fields' = DOMAIN fields
      /\ \A r \in DOMAIN relocations : relocations'[r].field = relocations[r].field
  BY BindsParts
<1>2. ASSUME NEW n \in DOMAIN fields PROVE fields'[n].value = {} <=> Awaiting(n)'
  <2>1. ASSUME NEW f \in FixupsPatched(s, l), f.field = n, Gains(n, Displacement(f, 0, sections[s].size))
        PROVE  fields'[n].value = {} <=> Awaiting(n)'
    <3>1. fields'[n].value # {}
      BY <2>1 DEF Gains
    <3>2. \A m : m = f.field => ~Awaiting(m)'
      BY BindsPatchedField
    <3> QED
      BY <2>1, <3>1, <3>2
  <2>2. ASSUME \A f \in FixupsPatched(s, l) : f.field # n, fields'[n] = fields[n]
        PROVE  fields'[n].value = {} <=> Awaiting(n)'
    <3>1. HasEntry(n)' <=> HasEntry(n)
      BY <1>1 DEF HasEntry
    <3>2. HasLabelFixup(n)' => HasLabelFixup(n)
      BY <1>1 DEF HasLabelFixup
    <3>3. HasLabelFixup(n) => HasLabelFixup(n)' \/ \E x \in FixupsLeft(s, l) : x.field = n
      <4> SUFFICES ASSUME NEW k \in DOMAIN labels, NEW f \in labels[k].fixups,
                          f.field = n, f.label_or_reloc_id = 0
                   PROVE  HasLabelFixup(n)' \/ \E x \in FixupsLeft(s, l) : x.field = n
        BY DEF HasLabelFixup
      <4>1. CASE k = l
        BY <2>2, <4>1 DEF FixupsLeft, DirectFixups
      <4>2. CASE k # l
        BY <1>1, <4>2 DEF HasLabelFixup
      <4> QED
        BY <4>1, <4>2
    <3>4. (\E x \in FixupsLeft(s, l) : x.field = n) => HasLabelFixup(n)
      BY <1>1 DEF FixupsLeft, DirectFixups, HasLabelFixup
    <3>5. HasFixup(n)' <=> HasFixup(n) \/ \E x \in FixupsLeft(s, l) : x.field = n
      BY BindsFixupsLeft
    <3>6. Awaiting(n)' <=> Awaiting(n)
      BY <3>1, <3>2, <3>3, <3>4, <3>5 DEF Awaiting
    <3> QED
      BY <1>0, <2>2, <3>6 DEF Accounted
  <2> QED
    BY <2>1, <2>2 DEF Binds, BindsFields
<1> QED
  BY <1>1, <1>2 DEF Accounted

\* And it counts each of them out once.
LEMMA BindsCount ==
  ASSUME CoreInv, RefInv, NEW s, NEW l, Binds(s, l)
  PROVE  unresolved_fixup_count' = Cardinality(Awaited')
<1>0. FixupsMean /\ EntriesMean /\ LabelsMean /\ unresolved_fixup_count = Cardinality(Awaited)
  BY DEF RefInv
<1>1. /\ ~IsBound(l) /\ l \in DOMAIN labels /\ labels'[l].fixups = {}
      /\ DOMAIN labels' = DOMAIN labels /\ DOMAIN fields' = DOMAIN fields
      /\ \A k \in DOMAIN labels : k # l => labels'[k] = labels[k]
  BY BindsParts
<1> DEFINE F == labels[l].fixups \ FixupsLeft(s, l)
           N == {f.field : f \in F}
<1>2. F \in SUBSET AllFixups
  BY <1>1, OnLists
<1>3. IsFiniteSet(F) /\ IsFiniteSet(N) /\ Cardinality(F) = Cardinality(N) /\ N \subseteq Awaited
  <2> HIDE DEF F
  <2> QED
    BY <1>0, <1>2, FixupsCounted
<1>4. ASSUME NEW n PROVE Waiting(n)' <=> Waiting(n) /\ n \notin N
  <2>1. HasFixup(n)' <=> HasFixup(n) \/ \E x \in FixupsLeft(s, l) : x.field = n
    BY BindsFixupsLeft
  <2>2. ASSUME NEW k \in DOMAIN labels, k # l, NEW g \in labels[k].fixups, g.field = n
        PROVE  n \notin N
    <3> SUFFICES ASSUME NEW f \in F, f.field = n PROVE FALSE
      OBVIOUS
    <3>1. f = g
      BY <1>0, <1>2, <2>2, OnLists, FixupsApart
    <3> QED
      BY <1>0, <1>1, <2>2, <3>1, OneList
  <2>3. HasFixup(n) => n \notin N
    <3> SUFFICES ASSUME NEW g \in fixups, g.field = n, NEW f \in F, f.field = n PROVE FALSE
      BY DEF HasFixup
    <3>1. f = g
      BY <1>0, <1>2, FixupsApart DEF AllFixups
    <3> QED
      BY <1>0, <1>1, <3>1, OneList
  <2>4. (\E x \in FixupsLeft(s, l) : x.field = n) => n \notin N
    <3> SUFFICES ASSUME NEW g \in FixupsLeft(s, l), g.field = n, NEW f \in F, f.field = n PROVE FALSE
      OBVIOUS
    <3>0. g \in AllFixups
      BY <1>1, OnLists DEF FixupsLeft, DirectFixups
    <3>1. f = g
      BY <1>0, <1>2, <3>0, FixupsApart
    <3> QED
      BY <3>1
  <2>5. Waiting(n)' => Waiting(n) /\ n \notin N
    <3>1. Waiting(n)' <=> \/ \E k \in DOMAIN labels' : \E f \in labels'[k].fixups : f.field = n
                          \/ HasFixup(n)'
      BY WaitingIsNext
    <3>2. ASSUME NEW k \in DOMAIN labels, NEW f \in labels'[k].fixups, f.field = n
          PROVE  Waiting(n) /\ n \notin N
      <4>1. k # l /\ f \in labels[k].fixups
        BY <1>1
      <4> QED
        BY <2>2, <3>2, <4>1, WaitingIs
    <3>3. ASSUME NEW x \in FixupsLeft(s, l), x.field = n PROVE Waiting(n)
      BY <1>1, <3>3, WaitingIs DEF FixupsLeft, DirectFixups
    <3>4. HasFixup(n) => Waiting(n)
      BY WaitingIs
    <3> QED
      BY <1>1, <2>1, <2>3, <2>4, <3>1, <3>2, <3>3, <3>4
  <2>6. ASSUME Waiting(n), n \notin N PROVE Waiting(n)'
    <3>1. CASE HasFixup(n)
      BY <2>1, <3>1, WaitingIsNext
    <3>2. ASSUME NEW k \in DOMAIN labels, NEW f \in labels[k].fixups, f.field = n PROVE Waiting(n)'
      <4>1. CASE k = l
        <5>1. f \in FixupsLeft(s, l)
          BY <2>6, <3>2, <4>1
        <5> QED
          BY <2>1, <3>2, <5>1, WaitingIsNext
      <4>2. CASE k # l
        BY <1>1, <3>2, <4>2, WaitingIsNext
      <4> QED
        BY <4>1, <4>2
    <3> QED
      BY <2>6, <3>1, <3>2, WaitingIs
  <2> QED
    BY <2>5, <2>6
<1>5. Awaited' = Awaited \ N
  BY <1>1, <1>4 DEF Awaited
<1> HIDE DEF N, F
<1>6. /\ IsFiniteSet(Awaited) /\ Cardinality(Awaited) \in Nat
      /\ Cardinality(Awaited \ N) = Cardinality(Awaited) - Cardinality(Awaited \cap N)
      /\ Awaited \cap N = N
  BY <1>3, AwaitedIsFinite, FS_Difference DEF CoreInv
<1>7. unresolved_fixup_count' = unresolved_fixup_count - Cardinality(F)
  BY DEF Binds, F
<1> QED
  BY <1>0, <1>3, <1>5, <1>6, <1>7

\* Binding keeps the references.
LEMMA RefBinds ==
  ASSUME CoreInv, RefInv, NEW s, NEW l, Binds(s, l)
  PROVE  RefInv'
BY BindsMeanings, BindsAccounted, BindsCount DEF RefInv

\* A resolved fixup of a bound label is the only one to wait for its field.
LEMMA RefResolves ==
  ASSUME CoreInv, RefInv, Resolves
  PROVE  RefInv'
<1>0. /\ FixupsMean /\ EntriesMean /\ LabelsMean /\ unresolved_fixup_count = Cardinality(Awaited)
      /\ Accounted
  BY DEF RefInv, Resolves
<1>1. /\ UNCHANGED <<labels, relocations>> /\ phase' = phase
      /\ fixups' = fixups \ FixupsResolved /\ FixupsResolved \subseteq fixups
      /\ DOMAIN fields' = DOMAIN fields
      /\ \A n \in DOMAIN fields :
           fields'[n].meaning = fields[n].meaning /\ fields'[n].size = fields[n].size
  BY DEF Resolves, FieldsKept, Bystanders, FixupsResolved
<1>2. \A f \in fixups : f \in AllFixups
  BY DEF AllFixups
<1>3. FixupsMean'
  <2>1. ASSUME NEW l \in DOMAIN labels, NEW f \in labels[l].fixups PROVE LabelFixupMeans(l, f)'
    BY <1>0, <1>1, FixupsOfLabels DEF FixupsMean, LabelFixupMeans
  <2>2. ASSUME NEW f \in fixups PROVE FixupMeans(f)'
    BY <1>0, <1>1, FixupIs DEF FixupsMean, FixupMeans
  <2> QED
    BY <1>1, <2>1, <2>2 DEF FixupsMean
<1>4. EntriesMean'
  <2>1. ASSUME NEW r \in DOMAIN relocations PROVE EntryMeans(r)'
    <3>1. EntryMeans(r) /\ relocations'[r] = relocations[r] /\ relocations[r].field \in DOMAIN fields
      BY <1>0, <1>1, EntryIs DEF EntriesMean
    <3>2. fields'[relocations[r].field].meaning = fields[relocations[r].field].meaning
      BY <1>1, <3>1
    <3>3. ASSUME OtherMeans(relocations[r]) PROVE OtherMeans(relocations[r])'
      BY <1>1, <3>2, <3>3 DEF OtherMeans
    <3>4. ASSUME NEW l \in DOMAIN labels, PointerMeans(relocations[r], l, r)
          PROVE  PointerMeans(relocations[r], l, r)'
      BY <1>1, <3>2, <3>4 DEF PointerMeans, IsBound
    <3> QED
      BY <1>1, <3>1, <3>3, <3>4 DEF EntryMeans
  <2> QED
    BY <1>0, <1>1, <2>1 DEF EntriesMean
<1>5. LabelsMean'
  BY <1>0, <1>1 DEF LabelsMean, IsBound
<1>6. \A n : /\ HasEntry(n)' <=> HasEntry(n)
             /\ HasLabelFixup(n)' <=> HasLabelFixup(n)
  BY <1>1 DEF HasEntry, HasLabelFixup
<1>7. ASSUME NEW f \in FixupsResolved, NEW g \in AllFixups, f.field = g.field PROVE f = g
  BY <1>0, <1>1, <1>2, <1>7, FixupsApart
<1>8. ASSUME NEW f \in FixupsResolved PROVE ~HasEntry(f.field) /\ ~HasLabelFixup(f.field)
  <2>1. fields[f.field].meaning = ToLabel(f.label_or_reloc_id)
    BY <1>0, <1>1 DEF FixupsMean, FixupMeans
  <2>2. ~HasEntry(f.field)
    BY <1>0, <2>1, EntryNotToLabel DEF HasEntry
  <2>3. ~HasLabelFixup(f.field)
    <3> SUFFICES ASSUME NEW l \in DOMAIN labels, NEW g \in labels[l].fixups, g.field = f.field PROVE FALSE
      BY DEF HasLabelFixup
    <3>1. f = g
      BY <1>7, OnLists
    <3> QED
      BY <1>0, <1>1, <3>1, OneList
  <2> QED
    BY <2>2, <2>3
<1>9. ASSUME NEW n PROVE HasFixup(n)' <=> HasFixup(n) /\ \A f \in FixupsResolved : f.field # n
  <2>1. ASSUME NEW g \in fixups, g \notin FixupsResolved, NEW f \in FixupsResolved, f.field = n, g.field = n
        PROVE  FALSE
    <3>1. f = g
      BY <1>2, <1>7, <2>1
    <3> QED
      BY <2>1, <3>1
  <2> QED
    BY <1>1, <2>1 DEF HasFixup
<1>10. Accounted'
  <2>1. ASSUME NEW n \in DOMAIN fields PROVE fields'[n].value = {} <=> Awaiting(n)'
    <3>1. ASSUME NEW f \in FixupsResolved, f.field = n, Gains(n, CrossDisplacement(f))
          PROVE  fields'[n].value = {} <=> Awaiting(n)'
      <4>1. fields'[n].value # {}
        BY <3>1 DEF Gains
      <4>2. ~HasFixup(n)' /\ ~HasEntry(n)' /\ ~HasLabelFixup(n)'
        BY <1>6, <1>8, <1>9, <3>1
      <4> QED
        BY <4>1, <4>2 DEF Awaiting
    <3>2. ASSUME \A f \in FixupsResolved : f.field # n, fields'[n] = fields[n]
          PROVE  fields'[n].value = {} <=> Awaiting(n)'
      <4>1. Awaiting(n)' <=> Awaiting(n)
        BY <1>6, <1>9, <3>2 DEF Awaiting
      <4> QED
        BY <1>0, <3>2, <4>1 DEF Accounted
    <3> QED
      BY <3>1, <3>2 DEF Resolves
  <2> QED
    BY <1>1, <2>1 DEF Accounted
<1>11. unresolved_fixup_count' = Cardinality(Awaited')
  <2> DEFINE F == FixupsResolved
             N == {f.field : f \in F}
  <2>1. IsFiniteSet(N) /\ Cardinality(F) = Cardinality(N) /\ N \subseteq Awaited
    BY <1>0, <1>1, <1>2, FixupsCounted
  <2>2. ASSUME NEW n PROVE Waiting(n)' <=> Waiting(n) /\ n \notin N
    <3>1. HasFixup(n)' <=> HasFixup(n) /\ n \notin N
      BY <1>9
    <3>2. ASSUME NEW l \in DOMAIN labels, NEW g \in labels[l].fixups, g.field = n PROVE n \notin N
      <4> SUFFICES ASSUME NEW f \in FixupsResolved, f.field = n PROVE FALSE
        OBVIOUS
      <4>1. f = g
        BY <1>7, <3>2, OnLists
      <4> QED
        BY <1>0, <1>1, <4>1, OneList
    <3> QED
      BY <1>1, <3>1, <3>2, WaitingIs, WaitingIsNext
  <2>3. Awaited' = Awaited \ N
    BY <1>1, <2>2 DEF Awaited
  <2> HIDE DEF N
  <2>4. /\ IsFiniteSet(Awaited) /\ Cardinality(Awaited) \in Nat
        /\ Cardinality(Awaited \ N) = Cardinality(Awaited) - Cardinality(Awaited \cap N)
        /\ Awaited \cap N = N
    BY <2>1, AwaitedIsFinite, FS_Difference DEF CoreInv
  <2>5. unresolved_fixup_count' = unresolved_fixup_count - Cardinality(F)
    BY DEF Resolves
  <2> QED
    BY <1>0, <2>1, <2>3, <2>4, <2>5
<1> QED
  BY <1>3, <1>4, <1>5, <1>10, <1>11 DEF RefInv

\* An empty CodeHolder refers to nothing,
LEMMA RefEmpty ==
  ASSUME Start
  PROVE  RefInv
<1>1. /\ DOMAIN labels = {} /\ fixups = {} /\ unresolved_fixup_count = 0
      /\ DOMAIN relocations = {} /\ DOMAIN fields = {}
  BY DEF Start, Empty
<1>2. Awaited = {}
  BY <1>1 DEF Awaited
<1>3. Cardinality(Awaited) = 0
  BY <1>2, FS_EmptySet
<1> QED
  BY <1>1, <1>3 DEF RefInv, FixupsMean, EntriesMean, LabelsMean, Accounted

\* after reinit() as well.
LEMMA RefEmptyNext == Start' => RefInv'
BY RefEmpty, PTL

\* reinit() starts again.
LEMMA ReinitStarts ==
  ASSUME CoreInv, Reinit
  PROVE  Start'
BY DEF Reinit, Start, Empty, CoreInv, TypeInv

\* Every step keeps the references.
LEMMA RefNext ==
  ASSUME CoreInv, ConstantsAssumption, RefInv, Steps
  PROVE  RefInv'
<1>0. fields \in Seq(FieldType)
  BY Basics DEF CoreInv
<1>1. ASSUME UNCHANGED <<refs, fields>>, phase' \in {"emitting", "flattened"} => phase \in {"emitting", "flattened"}
      PROVE  RefInv'
  <2>1. FieldsKept
    BY <1>0, <1>1 DEF FieldsKept
  <2> QED
    BY <1>1, <2>1, RefUntouched
<1>2. ASSUME NEW alignment \in Alignments, NEW order \in Orders, NewSection(alignment, order)
      PROVE  RefInv'
  BY <1>1, <1>2 DEF NewSection, Bystanders
<1>3. ASSUME NEW s \in CodeSections, NEW n \in Paddings, EmbedData(s, n) PROVE RefInv'
  BY <1>1, <1>3 DEF EmbedData, Bystanders
<1>4. CASE fault' \in Faults /\ UNCHANGED <<layout, refs, fields, Bystanders>>
  BY <1>1, <1>4 DEF Bystanders
<1>5. ASSUME NEW n, Flattens(n) PROVE RefInv'
  BY <1>1, <1>5 DEF Flattens, Emitting
<1>6. ASSUME NEW base, Relocates(base) PROVE RefInv'
  BY <1>6, RefUntouched DEF Relocates, RelocatesFields
<1>7. CASE Reinit
  BY <1>7, ReinitStarts, RefEmptyNext
<1>8. CASE UNCHANGED vars
  BY <1>1, <1>8 DEF vars
<1> QED
  BY <1>2, <1>3, <1>4, <1>5, <1>6, <1>7, <1>8, RefNewLabel, RefEmitsValue, RefEmitsFixup,
     RefEmitsEntry, RefBinds, RefResolves DEF Steps

-------------------------------------------------------------------------------
(* What the references say of the fields *)

\* The cardinality of a set whose elements are all the same.
LEMMA AtMostOne ==
  ASSUME NEW S, \A x, y \in S : x = y
  PROVE  Cardinality(S) = IF S = {} THEN 0 ELSE 1
<1>1. CASE S = {}
  BY <1>1, FS_EmptySet
<1>2. CASE S # {}
  <2>1. PICK x \in S : TRUE
    BY <1>2
  <2>2. S = {x}
    BY <2>1
  <2> QED
    BY <1>2, <2>2, FS_Singleton
<1> QED
  BY <1>1, <1>2

\* Every field is accounted for by what fills it.
LEMMA AccountedFor ==
  ASSUME CoreInv, RefInv
  PROVE  FieldsAccounted
<1>0. FixupsMean /\ EntriesMean /\ LabelsMean
  BY DEF RefInv
<1> SUFFICES ASSUME phase \in {"emitting", "flattened"}, NEW n \in DOMAIN fields
             PROVE  LET patching  == {f \in LabelFixups : f.field = n /\ f.label_or_reloc_id = 0}
                                     \cup {f \in fixups : f.field = n}
                        informing == {f \in LabelFixups : f.field = n /\ f.label_or_reloc_id # 0}
                        entries   == {r \in DOMAIN relocations : relocations[r].field = n}
                    IN  /\ Cardinality(patching) + Cardinality(entries)
                             + (IF fields[n].value = {} THEN 0 ELSE 1) = 1
                        /\ \A f \in informing : entries = {f.label_or_reloc_id}
  BY DEF FieldsAccounted
<1> DEFINE patching  == {f \in LabelFixups : f.field = n /\ f.label_or_reloc_id = 0}
                        \cup {f \in fixups : f.field = n}
           informing == {f \in LabelFixups : f.field = n /\ f.label_or_reloc_id # 0}
           entries   == {r \in DOMAIN relocations : relocations[r].field = n}
<1>1. Accounted
  BY DEF RefInv
<1>2. \A r, q \in entries : r = q
  BY <1>0 DEF EntriesMean
<1>3. \A f, g \in patching : f = g
  <2>1. \A f \in patching : f \in AllFixups /\ f.field = n
    BY DEF AllFixups
  <2> HIDE DEF patching
  <2> QED
    BY <1>0, <2>1, FixupsApart
<1>4. entries # {} <=> HasEntry(n)
  BY DEF HasEntry
<1>5. patching # {} <=> HasLabelFixup(n) \/ HasFixup(n)
  BY DEF LabelFixups, HasLabelFixup, HasFixup
<1>6. ASSUME HasEntry(n) PROVE ~(HasLabelFixup(n) \/ HasFixup(n))
  <2>1. \A l : fields[n].meaning # ToLabel(l)
    BY <1>0, <1>6, EntryNotToLabel DEF HasEntry
  <2>2. ~HasLabelFixup(n)
    BY <1>0, <2>1 DEF HasLabelFixup, FixupsMean, LabelFixupMeans
  <2>3. ~HasFixup(n)
    BY <1>0, <2>1 DEF HasFixup, FixupsMean, FixupMeans
  <2> QED
    BY <2>2, <2>3
<1>7. ASSUME NEW f \in informing PROVE entries = {f.label_or_reloc_id}
  <2>1. PICK l \in DOMAIN labels : f \in labels[l].fixups
    BY DEF LabelFixups
  <2>2. f.label_or_reloc_id # 0 /\ f.label_or_reloc_id \in DOMAIN relocations
    BY <2>1, FixupsOfLabels
  <2>3. relocations[f.label_or_reloc_id].field = n
    BY <1>0, <2>1, <2>2 DEF FixupsMean, LabelFixupMeans
  <2> QED
    BY <1>2, <2>2, <2>3
<1>8. fields[n].value = {} <=> HasEntry(n) \/ HasLabelFixup(n) \/ HasFixup(n)
  BY <1>1 DEF Accounted, Awaiting
<1> HIDE DEF patching, entries
<1>9. /\ Cardinality(patching) = IF patching = {} THEN 0 ELSE 1
      /\ Cardinality(entries) = IF entries = {} THEN 0 ELSE 1
  BY <1>2, <1>3, AtMostOne
<1>10. Cardinality(patching) + Cardinality(entries) + (IF fields[n].value = {} THEN 0 ELSE 1) = 1
  BY <1>4, <1>5, <1>6, <1>8, <1>9
<1> QED
  BY <1>7, <1>10 DEF patching, entries

-------------------------------------------------------------------------------
(* The values of the fields *)

\* A branch within a section, or one resolved when the sections had their places.
LabelRight(n) ==
  LET m == fields[n].meaning IN
  /\ m = ToLabel(m.to) /\ m.to \in DOMAIN labels /\ IsBound(m.to)
  /\ fields[n].base = NoBase
  /\ phase = "emitting" => labels[m.to].section = fields[n].section
  /\ fields[n].value = {LabelPosition(m.to) - FieldPosition(n)}

\* A branch to an absolute address, encoded against the base address of then.
AddressRight(n) ==
  LET m == fields[n].meaning IN
  /\ m = ToAddress(m.to) /\ fields[n].base # NoBase /\ fields[n].section = TextSection
  /\ fields[n].value = {m.to - (fields[n].base + FieldPosition(n))}

\* The distance of two labels of one section.
DistanceRight(n) ==
  LET m == fields[n].meaning IN
  /\ m = Distance(m.to, m.from) /\ m.to \in DOMAIN labels /\ m.from \in DOMAIN labels
  /\ IsBound(m.to) /\ labels[m.from].section = labels[m.to].section
  /\ fields[n].base = NoBase
  /\ fields[n].value = {LabelPosition(m.to) - LabelPosition(m.from)}

\* The value of field n, if it has one, is the one its meaning asks for.
FieldRight(n) ==
  /\ ~fields[n].indirect
  /\ IF fields[n].value = {} THEN fields[n].base = NoBase
     ELSE LabelRight(n) \/ AddressRight(n) \/ DistanceRight(n)

ValuesRight ==
  phase \in {"emitting", "flattened"} => \A n \in DOMAIN fields : FieldRight(n)

ValueInv == ValuesRight /\ RelocatedCodeIsRight

\* What has a position keeps it.
PlacesKept ==
  /\ \A s \in CodeSections : sections'[s].offset = sections[s].offset
  /\ \A l \in DOMAIN labels : l \in DOMAIN labels'
  /\ \A l \in DOMAIN labels : IsBound(l) =>
       labels'[l].section = labels[l].section /\ labels'[l].offset = labels[l].offset

\* A bound label stays where it is,
LEMMA PositionsKept ==
  ASSUME CoreInv, PlacesKept, NEW l \in DOMAIN labels, IsBound(l)
  PROVE  /\ LabelPosition(l)' = LabelPosition(l) /\ IsBound(l)' /\ l \in DOMAIN labels'
         /\ labels'[l].section = labels[l].section
<1>1. labels[l].section \in CodeSections
  BY LabelPositionIs
<1>2. sections'[labels[l].section].offset = sections[labels[l].section].offset
  BY <1>1 DEF PlacesKept
<1> QED
  BY <1>2 DEF PlacesKept, LabelPosition, IsBound

\* Field n is what it was, where it was.
FieldSame(n) ==
  /\ fields'[n].section = fields[n].section /\ fields'[n].at = fields[n].at
  /\ fields'[n].size = fields[n].size /\ fields'[n].meaning = fields[n].meaning
  /\ fields'[n].base = fields[n].base

\* and so does a field,
LEMMA FieldPositionKept ==
  ASSUME CoreInv, NEW n \in DOMAIN fields, FieldSame(n),
         \A s \in CodeSections : sections'[s].offset = sections[s].offset
  PROVE  FieldPosition(n)' = FieldPosition(n)
<1>1. sections'[fields[n].section].offset = sections[fields[n].section].offset
  BY FieldIs
<1> QED
  BY <1>1 DEF FieldSame, FieldPosition, FieldEnd

\* so that what was right stays right.
LEMMA FieldStaysRight ==
  ASSUME CoreInv, PlacesKept, phase' = phase, NEW n \in DOMAIN fields, FieldRight(n),
         fields'[n] = fields[n]
  PROVE  FieldRight(n)'
<1>0. FieldPosition(n)' = FieldPosition(n)
  BY FieldPositionKept DEF PlacesKept, FieldSame
<1>1. ASSUME LabelRight(n) PROVE LabelRight(n)'
  <2> DEFINE l == fields[n].meaning.to
  <2>1. /\ fields[n].meaning = ToLabel(l) /\ l \in DOMAIN labels /\ IsBound(l) /\ fields[n].base = NoBase
        /\ phase = "emitting" => labels[l].section = fields[n].section
        /\ fields[n].value = {LabelPosition(l) - FieldPosition(n)}
    BY <1>1 DEF LabelRight
  <2>2. PICK k : k = l
    OBVIOUS
  <2>3. /\ LabelPosition(k)' = LabelPosition(k) /\ IsBound(k)' /\ k \in DOMAIN labels'
        /\ labels'[k].section = labels[k].section
    BY <2>1, <2>2, PositionsKept
  <2> QED
    BY <1>0, <2>1, <2>2, <2>3 DEF LabelRight
<1>2. ASSUME AddressRight(n) PROVE AddressRight(n)'
  BY <1>0, <1>2 DEF AddressRight
<1>3. ASSUME DistanceRight(n) PROVE DistanceRight(n)'
  <2>1. PICK l, m : l = fields[n].meaning.to /\ m = fields[n].meaning.from
    OBVIOUS
  <2>2. /\ fields[n].meaning = Distance(l, m) /\ l \in DOMAIN labels /\ m \in DOMAIN labels
        /\ IsBound(l) /\ IsBound(m)
        /\ labels[m].section = labels[l].section /\ fields[n].base = NoBase
        /\ fields[n].value = {LabelPosition(l) - LabelPosition(m)}
    BY <1>3, <2>1 DEF DistanceRight, IsBound
  <2>3. /\ LabelPosition(l)' = LabelPosition(l) /\ IsBound(l)' /\ l \in DOMAIN labels'
        /\ labels'[l].section = labels[l].section
        /\ LabelPosition(m)' = LabelPosition(m) /\ m \in DOMAIN labels'
        /\ labels'[m].section = labels[m].section
    BY <2>2, PositionsKept
  <2> QED
    BY <2>1, <2>2, <2>3 DEF DistanceRight
<1> QED
  BY <1>1, <1>2, <1>3 DEF FieldRight

\* Steps that leave the values alone.
LEMMA ValuesStay ==
  ASSUME CoreInv, ValueInv, PlacesKept, phase' = phase, phase # "relocated",
         \A n \in DOMAIN fields' : n \in DOMAIN fields => fields'[n] = fields[n],
         phase \in {"emitting", "flattened"} =>
           \A n \in DOMAIN fields' : n \notin DOMAIN fields => FieldRight(n)'
  PROVE  ValueInv'
<1>1. ASSUME phase \in {"emitting", "flattened"}, NEW n \in DOMAIN fields' PROVE FieldRight(n)'
  <2>1. CASE n \in DOMAIN fields
    BY <1>1, <2>1, FieldStaysRight DEF ValueInv, ValuesRight
  <2>2. CASE n \notin DOMAIN fields
    BY <1>1, <2>2
  <2> QED
    BY <2>1, <2>2
<1> QED
  BY <1>1 DEF ValueInv, ValuesRight, RelocatedCodeIsRight

\* Steps that leave everything alone keep the values.
LEMMA ValueUntouched ==
  ASSUME ValueInv, UNCHANGED <<layout, refs, fields, Bystanders>>
  PROVE  ValueInv'
<1>1. UNCHANGED <<sections, address_table_section, labels, fixups, fields, table, phase, base_address>>
  BY DEF layout, refs, Bystanders
<1>2. \A n : /\ FieldPosition(n)' = FieldPosition(n) /\ IsBound(n)' = IsBound(n)
             /\ LabelPosition(n)' = LabelPosition(n) /\ TablePosition(n)' = TablePosition(n)
  BY <1>1 DEF FieldPosition, FieldEnd, IsBound, LabelPosition, TablePosition
<1>3. \A n : Waiting(n)' = Waiting(n)
  BY <1>1 DEF Waiting, AllFixups, LabelFixups
<1>4. ASSUME NEW n PROVE FieldRight(n)' <=> FieldRight(n)
  <2>1. LabelRight(n)' <=> LabelRight(n)
    BY <1>1, <1>2 DEF LabelRight
  <2>2. AddressRight(n)' <=> AddressRight(n)
    BY <1>1, <1>2 DEF AddressRight
  <2>3. DistanceRight(n)' <=> DistanceRight(n)
    BY <1>1, <1>2 DEF DistanceRight
  <2> QED
    BY <1>1, <2>1, <2>2, <2>3 DEF FieldRight
<1>5. ASSUME NEW n PROVE ReadsItsSlot(n)' <=> ReadsItsSlot(n)
  BY <1>1, <1>2 DEF ReadsItsSlot, Holds
<1>6. ASSUME NEW n PROVE Holds(n, RightValue(n))' <=> Holds(n, RightValue(n))
  <2>1. RightValue(n)' = RightValue(n)
    BY <1>1, <1>2 DEF RightValue
  <2> QED
    BY <1>1, <2>1 DEF Holds
<1>7. ValuesRight'
  BY <1>1, <1>4 DEF ValueInv, ValuesRight
<1>8. RelocatedCodeIsRight'
  BY <1>1, <1>3, <1>5, <1>6 DEF ValueInv, RelocatedCodeIsRight
<1> QED
  BY <1>7, <1>8 DEF ValueInv

\* Emitting moves nothing.
LEMMA EmitsKeepsPlaces ==
  ASSUME CoreInv, NEW field, Emits(field), DOMAIN labels' = DOMAIN labels,
         \A l \in DOMAIN labels :
           labels'[l].section = labels[l].section /\ labels'[l].offset = labels[l].offset
  PROVE  PlacesKept
<1>1. \A s \in CodeSections : sections'[s].offset = sections[s].offset
  BY Basics DEF CoreInv, Emits, SectionsGrow, SamePlaces
<1> QED
  BY <1>1 DEF PlacesKept

\* A known value is right, and stays so.
LEMMA KnownIsRight ==
  ASSUME CoreInv, LayoutInv, NEW field, Emits(field), KnownValue(field),
         UNCHANGED <<labels, unresolved_fixup_count, relocations>>, NEW n, n = NextField
  PROVE  FieldRight(n)'
<1>0. /\ fields'[n] = field /\ field \in FieldType /\ field.section \in CodeSections /\ ~field.indirect
      /\ phase' = phase /\ phase = "emitting" /\ PlacesKept
  BY EmitsBasics, EmitsKeepsPlaces DEF Emits, Emitting, Bystanders
<1> DEFINE off == sections[field.section].offset
           end == field.at + field.size
<1>1. /\ field.section \in DOMAIN sections /\ field.section # 0 /\ off \in Int
      /\ end \in Int
  <2>1. field.section \in DOMAIN sections /\ field.section # 0
    BY <1>0, Basics DEF CoreInv
  <2>2. field.at \in Int /\ field.size \in Int
    BY <1>0 DEF FieldType, AddressSize
  <2> QED
    BY <2>1, <2>2, SectionOffset DEF CoreInv
<1>2. FieldPosition(n)' = off + end
  <2>1. sections'[field.section].offset = off
    BY <1>0 DEF PlacesKept
  <2>2. off + end = off + (field.at + field.size)
    OBVIOUS
  <2> QED
    BY <1>0, <2>1 DEF FieldPosition, FieldEnd
<1>3. PICK l, m : field.meaning.to = l /\ field.meaning.from = m
  OBVIOUS
<1> HIDE DEF off, end
<1>4. ASSUME field.meaning = ToLabel(l), l \in DOMAIN labels, labels[l].section = field.section,
             field.value = {labels[l].offset - end}, field.base = NoBase
      PROVE  FieldRight(n)'
  <2>1. IsBound(l) /\ labels[l].offset \in Int
    BY <1>1, <1>4, Basics DEF IsBound, CoreInv
  <2>2. /\ LabelPosition(l)' = LabelPosition(l) /\ IsBound(l)' /\ l \in DOMAIN labels'
        /\ labels'[l].section = labels[l].section
    BY <1>0, <1>4, <2>1, PositionsKept
  <2>3. LabelPosition(l) = off + labels[l].offset
    BY <1>4, <2>1, LabelPositionIs DEF off
  <2>4. labels[l].offset - end = LabelPosition(l) - (off + end)
    BY <1>1, <2>1, <2>3
  <2>5. LabelRight(n)'
    BY <1>0, <1>2, <1>3, <1>4, <2>2, <2>4 DEF LabelRight
  <2> QED
    BY <1>0, <1>4, <2>5 DEF FieldRight
<1>5. ASSUME field.meaning = ToAddress(l), l \in Addresses, base_address # NoBase,
             sections[field.section].offset # NoOffset,
             field.value = {l - (base_address + off) - end}, field.base = base_address
      PROVE  FieldRight(n)'
  <2>1. field.section = TextSection
    BY <1>0, <1>1, <1>5 DEF LayoutInv, OnlyTextPlaced
  <2>2. PICK b : b = base_address
    OBVIOUS
  <2>3. l \in Int /\ b \in Int
    BY <1>0, <1>3, <1>5, <2>2 DEF FieldType
  <2>4. l - (b + off) - end = l - (b + (off + end))
    BY <1>1, <2>3
  <2>5. AddressRight(n)'
    BY <1>0, <1>2, <1>3, <1>5, <2>1, <2>2, <2>4 DEF AddressRight
  <2> QED
    BY <1>0, <1>5, <2>5 DEF FieldRight
<1>6. ASSUME field.meaning = Distance(l, m), l \in DOMAIN labels, m \in DOMAIN labels,
             IsBound(l), labels[l].section = labels[m].section,
             field.value = {labels[l].offset - labels[m].offset}, field.base = NoBase
      PROVE  FieldRight(n)'
  <2>1. /\ IsBound(m) /\ labels[l].offset \in Int /\ labels[m].offset \in Int
        /\ labels[l].section \in DOMAIN sections
    BY <1>6, Basics, LabelPositionIs DEF IsBound, CoreInv
  <2>2. /\ LabelPosition(l)' = LabelPosition(l) /\ IsBound(l)' /\ l \in DOMAIN labels'
        /\ labels'[l].section = labels[l].section
        /\ LabelPosition(m)' = LabelPosition(m) /\ m \in DOMAIN labels'
        /\ labels'[m].section = labels[m].section
    BY <1>0, <1>6, <2>1, PositionsKept
  <2>3. PICK o \in Int : o = sections[labels[l].section].offset
    BY <2>1, SectionOffset DEF CoreInv
  <2>4. LabelPosition(l) = o + labels[l].offset /\ LabelPosition(m) = o + labels[m].offset
    BY <1>6, <2>1, <2>3, LabelPositionIs
  <2>5. labels[l].offset - labels[m].offset = LabelPosition(l) - LabelPosition(m)
    BY <2>1, <2>4
  <2>6. DistanceRight(n)'
    BY <1>0, <1>3, <1>6, <2>2, <2>5 DEF DistanceRight
  <2> QED
    BY <1>0, <1>6, <2>6 DEF FieldRight
<1> QED
  BY <1>3, <1>4, <1>5, <1>6 DEF KnownValue, off, end

\* The ways to emit a field keep the values when the new one is right:
LEMMA ValueEmits ==
  ASSUME CoreInv, LayoutInv, ValueInv, NEW field, Emits(field), DOMAIN labels' = DOMAIN labels,
         \A l \in DOMAIN labels :
           labels'[l].section = labels[l].section /\ labels'[l].offset = labels[l].offset,
         \A n : n = NextField => FieldRight(n)'
  PROVE  ValueInv'
<1>1. /\ DOMAIN fields' = DOMAIN fields \cup {NextField} /\ phase' = phase /\ phase = "emitting"
      /\ \A n \in DOMAIN fields : fields'[n] = fields[n]
  BY EmitsBasics DEF Emits, Emitting, Bystanders
<1>2. PlacesKept
  BY EmitsKeepsPlaces
<1> QED
  BY <1>1, <1>2, ValuesStay

\* known values are,
LEMMA ValueEmitsValue ==
  ASSUME CoreInv, LayoutInv, ValueInv, NEW field, EmitsValue(field)
  PROVE  ValueInv'
<1>1. Emits(field) /\ KnownValue(field) /\ UNCHANGED <<labels, unresolved_fixup_count, relocations>>
  BY DEF EmitsValue
<1>2. \A n : n = NextField => FieldRight(n)'
  BY <1>1, KnownIsRight
<1> QED
  BY <1>1, <1>2, ValueEmits

\* and so is a field without a value,
LEMMA ValueEmitsEmpty ==
  ASSUME CoreInv, LayoutInv, ValueInv, NEW field, Emits(field), field.value = {}, field.base = NoBase,
         DOMAIN labels' = DOMAIN labels,
         \A l \in DOMAIN labels :
           labels'[l].section = labels[l].section /\ labels'[l].offset = labels[l].offset
  PROVE  ValueInv'
<1>1. \A n : n = NextField => FieldRight(n)'
  BY EmitsBasics DEF FieldRight, Emits
<1> QED
  BY <1>1, ValueEmits

\* whether it has a fixup
LEMMA ValueEmitsFixup ==
  ASSUME CoreInv, LayoutInv, ValueInv, NEW field, NEW l, EmitsFixup(field, l)
  PROVE  ValueInv'
<1>1. /\ Emits(field) /\ field.value = {} /\ field.base = NoBase
      /\ l \in DOMAIN labels /\ NewFixup(l, -field.size, 0)
      /\ field.size \in {1, 4, AddressSize}
  BY DEF EmitsFixup, Emits, FieldType
<1>2. PICK rel \in Int : rel = -field.size
  BY <1>1 DEF AddressSize
<1>3. \E x : GetsFixup(l, x)
  <2>1. NewFixup(l, rel, 0)
    BY <1>1, <1>2
  <2> QED
    BY <1>1, <2>1, NewFixupIs DEF CoreInv
<1> QED
  BY <1>1, <1>3, ValueEmitsEmpty DEF GetsFixup

\* or an entry.
LEMMA ValueEmitsEntry ==
  ASSUME CoreInv, LayoutInv, ValueInv, NEW field, NEW entry, EmitsEntry(field, entry)
  PROVE  ValueInv'
<1>1. Emits(field) /\ field.value = {} /\ field.base = NoBase
  BY DEF EmitsEntry
<1>2. /\ DOMAIN labels' = DOMAIN labels
      /\ \A l \in DOMAIN labels :
           labels'[l].section = labels[l].section /\ labels'[l].offset = labels[l].offset
  BY EntryLabels DEF GetsFixup
<1> QED
  BY <1>1, <1>2, ValueEmitsEmpty

\* A new label has no position.
LEMMA ValueNewLabel ==
  ASSUME CoreInv, ValueInv, NewLabel
  PROVE  ValueInv'
<1>1. /\ UNCHANGED <<layout, fields, phase>> /\ phase = "emitting"
      /\ labels \in Seq(LabelType)
  BY Basics DEF NewLabel, Bystanders, CoreInv, Emitting
<1> DEFINE x == [section |-> 0, offset |-> 0, fixups |-> {}]
<1>2. Appended(labels, labels', x)
  <2>1. x \in LabelType
    BY DEF LabelType
  <2>2. labels' = Append(labels, x)
    BY DEF NewLabel
  <2> HIDE DEF x
  <2> QED
    BY <1>1, <2>1, <2>2, AppendIsAppended
<1>3. PlacesKept
  BY <1>1, <1>2 DEF PlacesKept, Appended, layout
<1> QED
  BY <1>1, <1>3, ValuesStay

\* New sections and bytes move nothing.
LEMMA ValueGrow ==
  ASSUME CoreInv, ValueInv, Emitting, SectionsGrow, UNCHANGED <<refs, fields, Bystanders>>
  PROVE  ValueInv'
<1>1. phase' = phase /\ phase = "emitting" /\ UNCHANGED <<labels, fields>>
  BY DEF Emitting, Bystanders, refs
<1>2. PlacesKept
  BY <1>1, Basics DEF PlacesKept, CoreInv, SectionsGrow, SamePlaces
<1> QED
  BY <1>1, <1>2, ValuesStay

\* A field a fixup is resolved for holds nothing before.
LEMMA PatchedRight ==
  ASSUME CoreInv, NEW n \in DOMAIN fields, FieldSame(n), FieldRight(n),
         fields'[n].indirect = fields[n].indirect, fields[n].value = {},
         NEW l, fields[n].meaning = ToLabel(l), l \in DOMAIN labels', IsBound(l)',
         phase' = "emitting" => labels'[l].section = fields[n].section,
         NEW v, Gains(n, v), v = LabelPosition(l)' - FieldPosition(n)'
  PROVE  FieldRight(n)'
<1>1. /\ fields'[n].value = {v} /\ fields'[n].base = NoBase /\ ~fields'[n].indirect
      /\ fields'[n].meaning = ToLabel(l) /\ fields'[n].section = fields[n].section
  BY DEF Gains, FieldSame, FieldRight
<1>2. fields'[n].meaning.to = l
  BY <1>1 DEF ToLabel
<1>3. LabelRight(n)'
  BY <1>1, <1>2 DEF LabelRight
<1> QED
  BY <1>1, <1>3 DEF FieldRight

\* A field that keeps all but its value stays where it is.
LEMMA KeptIsSame ==
  ASSUME FieldsKept, NEW n \in DOMAIN fields
  PROVE  FieldSame(n)
BY DEF FieldsKept, FieldSame

\* Binding fills fields with the distance to the label,
LEMMA ValueBinds ==
  ASSUME CoreInv, RefInv, ValueInv, NEW s, NEW l, Binds(s, l)
  PROVE  ValueInv'
<1>0. FixupsMean /\ Accounted /\ ValuesRight
  BY BindsParts DEF RefInv, ValueInv
<1>1. /\ phase = "emitting" /\ phase' = phase
      /\ ~IsBound(l) /\ l \in DOMAIN labels /\ s # 0
      /\ labels'[l].section = s /\ labels'[l].offset = sections[s].size
      /\ DOMAIN labels' = DOMAIN labels
      /\ \A k \in DOMAIN labels : k # l => labels'[k] = labels[k]
      /\ DOMAIN fields' = DOMAIN fields
      /\ sections[s].size \in Nat
  BY BindsParts
<1>2. UNCHANGED sections /\ s \in CodeSections /\ FieldsKept
  BY DEF Binds, BindsFields, layout
<1>3. PlacesKept
  BY <1>1, <1>2 DEF PlacesKept
<1>4. ASSUME NEW n \in DOMAIN fields PROVE FieldRight(n)'
  <2>1. FieldRight(n) /\ fields'[n].indirect = fields[n].indirect
    BY <1>0, <1>1 DEF ValuesRight, Binds, BindsFields
  <2>2. CASE fields'[n] = fields[n]
    BY <1>1, <1>3, <2>1, <2>2, FieldStaysRight
  <2>3. ASSUME NEW f \in FixupsPatched(s, l), f.field = n, Gains(n, Displacement(f, 0, sections[s].size))
        PROVE  FieldRight(n)'
    <3>1. f \in labels[l].fixups /\ f.label_or_reloc_id = 0 /\ fields[n].section = s
      BY <2>3 DEF FixupsPatched, DirectFixups, IsPatchedHere
    <3>2. fields[n].meaning = ToLabel(l) /\ f.rel = -fields[n].size
      BY <1>0, <1>1, <2>3, <3>1 DEF FixupsMean, LabelFixupMeans
    <3>3. fields[n].value = {}
      BY <1>0, <1>1, <2>3, <3>1 DEF Accounted, Awaiting, HasLabelFixup
    <3>4. f \in FixupType
      BY <1>1, <3>1, FixupsOfLabels
    <3>5. PICK pos \in Int : pos = sections[s].size
      BY <1>1
    <3>6. Displacement(f, 0, pos) = pos - (0 + fields[n].at) + f.rel
      <4>1. fields \in Seq(FieldType) /\ f.field \in DOMAIN fields
        BY <2>3, Basics DEF CoreInv
      <4> QED
        BY <2>3, <3>4, <4>1, DisplacementIs
    <3>60. fields[n].at \in Int /\ fields[n].size \in Int /\ sections[s].offset \in Int
      BY <3>1, FieldIs
    <3>7. FieldPosition(n) = sections[s].offset + (fields[n].at + fields[n].size)
      BY <3>1 DEF FieldPosition, FieldEnd
    <3>8. FieldPosition(n)' = FieldPosition(n)
      BY <1>2, <1>3, KeptIsSame, FieldPositionKept DEF PlacesKept
    <3>9. LabelPosition(l)' = sections[s].offset + pos
      BY <1>1, <1>2, <3>5 DEF LabelPosition
    <3>10. PICK v : v = Displacement(f, 0, sections[s].size)
      OBVIOUS
    <3>11. v = LabelPosition(l)' - FieldPosition(n)'
      BY <3>2, <3>5, <3>6, <3>60, <3>7, <3>8, <3>9, <3>10
    <3>12. IsBound(l)'
      BY <1>1 DEF IsBound
    <3> QED
      BY <1>1, <1>2, <2>1, <2>3, <3>1, <3>2, <3>3, <3>10, <3>11, <3>12, KeptIsSame, PatchedRight
  <2> QED
    BY <2>2, <2>3 DEF Binds, BindsFields
<1> QED
  BY <1>1, <1>4 DEF ValueInv, ValuesRight, RelocatedCodeIsRight

\* and so does resolving, once the sections have their places.
LEMMA ValueResolves ==
  ASSUME CoreInv, RefInv, ValueInv, Resolves
  PROVE  ValueInv'
<1>1. /\ phase = "flattened" /\ phase' = phase /\ UNCHANGED <<sections, labels>>
      /\ FieldsKept /\ DOMAIN fields' = DOMAIN fields
  BY DEF Resolves, Bystanders, layout, FieldsKept
<1>0. FixupsMean /\ Accounted /\ ValuesRight
  BY <1>1 DEF RefInv, ValueInv
<1>2. PlacesKept
  BY <1>1 DEF PlacesKept
<1>3. ASSUME NEW n \in DOMAIN fields PROVE FieldRight(n)'
  <2>1. FieldRight(n) /\ fields'[n].indirect = fields[n].indirect
    BY <1>0, <1>1 DEF ValuesRight, Resolves
  <2>2. CASE fields'[n] = fields[n]
    BY <1>1, <1>2, <2>1, <2>2, FieldStaysRight
  <2>3. ASSUME NEW f \in FixupsResolved, f.field = n, Gains(n, CrossDisplacement(f))
        PROVE  FieldRight(n)'
    <3>0. f \in fixups
      BY DEF FixupsResolved
    <3>1. PICK l : l = f.label_or_reloc_id
      OBVIOUS
    <3>2. fields[n].meaning = ToLabel(l) /\ f.rel = -fields[n].size
      BY <1>0, <2>3, <3>0, <3>1 DEF FixupsMean, FixupMeans
    <3>3. fields[n].value = {}
      BY <1>0, <2>3, <3>0 DEF Accounted, Awaiting, HasFixup
    <3>4. l \in DOMAIN labels /\ IsBound(l)
      BY <3>0, <3>1, FixupIs
    <3>5. PICK v : v = CrossDisplacement(f)
      OBVIOUS
    <3>6. v = LabelPosition(l) - (sections[fields[n].section].offset + fields[n].at) + f.rel
      BY <2>3, <3>0, <3>1, <3>5, FixupIs
    <3>7. /\ fields[n].at \in Int /\ fields[n].size \in Int /\ sections[fields[n].section].offset \in Int
          /\ LabelPosition(l) \in Int
      BY <3>4, FieldIs, LabelPositionIs
    <3>8. FieldPosition(n) = sections[fields[n].section].offset + (fields[n].at + fields[n].size)
      BY DEF FieldPosition, FieldEnd
    <3>9. FieldPosition(n)' = FieldPosition(n) /\ LabelPosition(l)' = LabelPosition(l)
      BY <1>1, <1>2, <3>4, KeptIsSame, FieldPositionKept, PositionsKept DEF PlacesKept
    <3>10. v = LabelPosition(l)' - FieldPosition(n)'
      BY <3>2, <3>6, <3>7, <3>8, <3>9
    <3>11. IsBound(l)' /\ l \in DOMAIN labels'
      BY <1>1, <3>4 DEF IsBound
    <3> QED
      BY <1>1, <2>1, <2>3, <3>2, <3>3, <3>5, <3>10, <3>11, KeptIsSame, PatchedRight
  <2> QED
    BY <2>2, <2>3 DEF Resolves
<1> QED
  BY <1>1, <1>3 DEF ValueInv, ValuesRight, RelocatedCodeIsRight

\* Distances within a section survive its getting a place, and .text has its own.
LEMMA ValueFlattens ==
  ASSUME CoreInv, LayoutInv, LayoutInv', ValueInv, NEW n, Flattens(n)
  PROVE  ValueInv'
<1>1. /\ phase = "emitting" /\ phase' = "flattened" /\ UNCHANGED <<labels, fields>>
      /\ ValuesRight
  BY DEF Flattens, Emitting, refs, ValueInv
<1>2. SectionsTyped' /\ CodeSections' = CodeSections
  BY FlattensTyped DEF SectionsStay
<1>3. ASSUME NEW s \in CodeSections PROVE sections[s].offset \in Int /\ sections'[s].offset \in Int
  <2>1. s \in DOMAIN sections' /\ sections' \in Seq(SectionType)
    BY <1>2 DEF SectionsTyped, CodeSections
  <2>2. sections'[s] \in SectionType
    BY <2>1, SeqIs
  <2>3. sections'[s].offset \in Int
    BY <2>2 DEF SectionType, NoOffset
  <2> QED
    BY <2>3, SectionOffset DEF CoreInv, CodeSections
<1>4. ASSUME NEW m \in DOMAIN fields PROVE FieldRight(m)'
  <2>0. FieldRight(m)
    BY <1>1 DEF ValuesRight
  <2>1. PICK s, x : s = fields[m].section /\ x = fields[m].at + fields[m].size
    OBVIOUS
  <2>2. /\ s \in CodeSections /\ x \in Int
        /\ FieldPosition(m) = sections[s].offset + x /\ FieldPosition(m)' = sections'[s].offset + x
    BY <1>1, <2>1, FieldIs DEF FieldPosition, FieldEnd
  <2>3. PICK o \in Int, q \in Int : o = sections[s].offset /\ q = sections'[s].offset
    BY <1>3, <2>2
  <2>4. FieldPosition(m) = o + x /\ FieldPosition(m)' = q + x
    BY <2>2, <2>3
  <2>5. PICK l, k : l = fields[m].meaning.to /\ k = fields[m].meaning.from
    OBVIOUS
  <2>6. ASSUME LabelRight(m) PROVE LabelRight(m)'
    <3>1. /\ fields[m].meaning = ToLabel(l) /\ l \in DOMAIN labels /\ IsBound(l)
          /\ fields[m].base = NoBase /\ labels[l].section = s
          /\ fields[m].value = {LabelPosition(l) - FieldPosition(m)}
      BY <1>1, <2>1, <2>5, <2>6 DEF LabelRight
    <3>2. labels[l].offset \in Int
      BY <3>1, Basics DEF CoreInv
    <3>3. LabelPosition(l) = o + labels[l].offset /\ LabelPosition(l)' = q + labels[l].offset
      BY <1>1, <2>3, <3>1 DEF LabelPosition
    <3>4. LabelPosition(l)' - FieldPosition(m)' = LabelPosition(l) - FieldPosition(m)
      BY <2>2, <2>3, <2>4, <3>2, <3>3
    <3> QED
      BY <1>1, <2>5, <3>1, <3>4 DEF LabelRight, IsBound
  <2>7. ASSUME AddressRight(m) PROVE AddressRight(m)'
    <3>1. s = TextSection
      BY <2>1, <2>7 DEF AddressRight
    <3>2. o = q
      BY <2>3, <3>1 DEF LayoutInv, TextAtZero
    <3> QED
      BY <1>1, <2>4, <2>7, <3>2 DEF AddressRight
  <2>8. ASSUME DistanceRight(m) PROVE DistanceRight(m)'
    <3>1. /\ fields[m].meaning = Distance(l, k) /\ l \in DOMAIN labels /\ k \in DOMAIN labels
          /\ IsBound(l) /\ labels[k].section = labels[l].section /\ fields[m].base = NoBase
          /\ fields[m].value = {LabelPosition(l) - LabelPosition(k)}
      BY <2>5, <2>8 DEF DistanceRight
    <3>2. /\ labels[l].offset \in Int /\ labels[k].offset \in Int
          /\ labels[l].section \in CodeSections
      BY <3>1, Basics, LabelPositionIs DEF CoreInv
    <3>3. PICK a \in Int, b \in Int :
            a = sections[labels[l].section].offset /\ b = sections'[labels[l].section].offset
      BY <1>3, <3>2
    <3>4. /\ LabelPosition(l) = a + labels[l].offset /\ LabelPosition(l)' = b + labels[l].offset
          /\ LabelPosition(k) = a + labels[k].offset /\ LabelPosition(k)' = b + labels[k].offset
      BY <1>1, <3>1, <3>3 DEF LabelPosition
    <3>5. LabelPosition(l)' - LabelPosition(k)' = LabelPosition(l) - LabelPosition(k)
      BY <3>2, <3>4
    <3> QED
      BY <1>1, <2>5, <3>1, <3>5 DEF DistanceRight, IsBound
  <2> QED
    BY <1>1, <2>0, <2>6, <2>7, <2>8 DEF FieldRight
<1> QED
  BY <1>1, <1>4 DEF ValueInv, ValuesRight, RelocatedCodeIsRight

\* relocate_to_base() moves nothing.
LEMMA RelocatesInPlace ==
  ASSUME CoreInv, NEW base, Relocates(base)
  PROVE  /\ \A s \in DOMAIN sections : sections'[s].offset = sections[s].offset
         /\ UNCHANGED <<labels, fixups, relocations, address_table_section>>
         /\ base_address' = base /\ base \in Bases /\ FieldsKept
         /\ PlacesKept /\ DOMAIN fields' = DOMAIN fields
<1>1. \A s \in DOMAIN sections : sections'[s].offset = sections[s].offset
  BY DEF Relocates, TableSizeIs
<1>2. UNCHANGED <<labels, fixups, relocations, address_table_section>> /\ FieldsKept
  BY DEF Relocates, refs, RelocatesFields
<1> QED
  BY <1>1, <1>2 DEF Relocates, PlacesKept, CodeSections, FieldsKept

\* A field with one value holds it.
LEMMA HoldsSingle ==
  ASSUME NEW n, NEW v, fields'[n].value = {v}, NEW w, w = v
  PROVE  fields'[n].value # {} /\ fields'[n].value \ {0} = {w} \ {0}
OBVIOUS

\* A field that relocation filled is right.
LEMMA WrittenRight ==
  ASSUME CoreInv, RefInv, ValueInv, NEW base, Relocates(base),
         NEW n \in DOMAIN fields, NEW r \in EntriesWritten(base), relocations[r].field = n,
         Gains(n, RelocValue(base, r)), fields'[n].indirect <=> r \in EntriesIndirect(base)
  PROVE  (IF fields[n].indirect THEN ReadsItsSlot(n) ELSE Holds(n, RightValue(n)))'
<1>0. EntriesMean /\ Accounted /\ phase = "flattened"
  BY DEF RefInv, Relocates
<1>1. /\ r \in DOMAIN relocations /\ Relocatable(base, r)
      /\ r \in EntriesIndirect(base) <=> NeedsTable(base, r)
  BY EntriesAre DEF EntriesIndirect
<1>2. /\ UNCHANGED <<labels, address_table_section>> /\ base_address' = base /\ FieldSame(n)
      /\ \A s \in DOMAIN sections : sections'[s].offset = sections[s].offset
      /\ PlacesKept
  BY RelocatesInPlace, KeptIsSame
<1>3. PICK v : v = RelocValue(base, r)
  OBVIOUS
<1>4. fields'[n].value = {v}
  <2>1. fields[n].value = {}
    BY <1>0, <1>1 DEF Accounted, Awaiting, HasEntry
  <2> QED
    BY <1>3, <2>1 DEF Gains
<1>5. FieldPosition(n)' = FieldPosition(n) /\ RelocEnd(r) = FieldPosition(n)
  BY <1>1, <1>2, FieldPositionKept, EntryIs DEF PlacesKept
<1>6. fields'[n].meaning = fields[n].meaning
  BY <1>2 DEF FieldSame
<1>7. ASSUME ~NeedsTable(base, r), v = RightValue(n)'
      PROVE  (IF fields[n].indirect THEN ReadsItsSlot(n) ELSE Holds(n, RightValue(n)))'
  <2>1. ~fields'[n].indirect
    BY <1>1, <1>7
  <2> QED
    BY <1>4, <1>7, <2>1, HoldsSingle DEF Holds
<1>8. PICK re : re = relocations[r]
  OBVIOUS
<1>9. CASE OtherMeans(relocations[r]) /\ re.kind = "Expression"
  <2>1. PICK l, k : l = fields[n].meaning.to /\ k = fields[n].meaning.from
    OBVIOUS
  <2>2. fields[n].meaning = Distance(l, k) /\ ~NeedsTable(base, r)
    BY <1>8, <1>9, <2>1 DEF OtherMeans, NeedsTable
  <2>3. v = LabelPosition(l) - LabelPosition(k)
    BY <1>3, <1>8, <1>9, <2>1 DEF RelocValue
  <2>4. l \in DOMAIN labels /\ k \in DOMAIN labels /\ IsBound(l) /\ IsBound(k)
    BY <1>1, <1>8, <1>9, <2>1, EntryIs DEF Relocatable, EntryInRange
  <2>5. LabelPosition(l)' = LabelPosition(l) /\ LabelPosition(k)' = LabelPosition(k)
    BY <1>2, <2>4, PositionsKept
  <2>6. RightValue(n)' = LabelPosition(l)' - LabelPosition(k)'
    BY <1>6, <2>1, <2>2 DEF RightValue, Distance
  <2> QED
    BY <1>7, <2>2, <2>3, <2>5, <2>6
<1>10. CASE OtherMeans(relocations[r]) /\ re.kind # "Expression"
  <2>1. /\ re.kind \in {"AbsToRel", "X64AddressEntry"} /\ fields[n].meaning = ToAddress(re.payload)
    BY <1>8, <1>10 DEF OtherMeans
  <2>2. fields[n].meaning.kind = "address" /\ fields[n].meaning.to = re.payload
    BY <2>1 DEF ToAddress
  <2>3. CASE ~NeedsTable(base, r)
    <3>1. v = re.payload - (base + FieldPosition(n))
      BY <1>3, <1>5, <1>8, <2>1, <2>3 DEF RelocValue, RelativeTo
    <3>2. RightValue(n)' = re.payload - (base + FieldPosition(n))
      BY <1>2, <1>5, <1>6, <2>2 DEF RightValue
    <3> QED
      BY <1>7, <2>3, <3>1, <3>2
  <2>4. CASE NeedsTable(base, r)
    <3>1. /\ r \in EntriesIndirect(base) /\ fields'[n].indirect
          /\ re.kind = "X64AddressEntry" /\ re.payload \in AddressesUsed(base)
      BY <1>1, <1>8, <2>4 DEF AddressesUsed, NeedsTable
    <3>2. PICK a, i : a = re.payload /\ i = Slot(base, a)
      OBVIOUS
    <3>3. <<i, a>> \in table'
      BY <3>1, <3>2 DEF Relocates
    <3>4. v = TablePosition(i) - FieldPosition(n)
      BY <1>3, <1>5, <1>8, <2>4, <3>1, <3>2 DEF RelocValue
    <3>5. address_table_section \in DOMAIN sections
      BY <3>1, UsedIsFinite DEF CoreInv, TypeInv, SectionsTyped
    <3>6. TablePosition(i)' = TablePosition(i)
      BY <1>2, <3>5 DEF TablePosition
    <3>7. v = (TablePosition(i) - FieldPosition(n))'
      BY <1>5, <3>4, <3>6
    <3>8. Holds(n, TablePosition(i) - FieldPosition(n))'
      BY <1>4, <3>7, HoldsSingle DEF Holds
    <3>9. ReadsItsSlot(n)'
      <4>1. PICK entry \in table' : entry = <<i, a>>
        BY <3>3
      <4>2. entry[1] = i /\ entry[2] = fields'[n].meaning.to
        BY <1>6, <2>2, <3>2, <4>1
      <4> QED
        BY <3>8, <4>1, <4>2 DEF ReadsItsSlot
    <3> QED
      BY <3>1, <3>9
  <2> QED
    BY <2>3, <2>4
<1>11. ASSUME NEW l \in DOMAIN labels, PointerMeans(relocations[r], l, r)
       PROVE  (IF fields[n].indirect THEN ReadsItsSlot(n) ELSE Holds(n, RightValue(n)))'
  <2>1. /\ re.kind = "RelToAbs" /\ fields[n].meaning = PointerTo(l)
        /\ re.target = labels[l].section /\ re.payload = labels[l].offset
    BY <1>8, <1>11 DEF PointerMeans
  <2>2. IsBound(l)
    BY <1>1, <1>8, <2>1 DEF Relocatable, IsBound
  <2>3. PICK o \in Int : o = sections[labels[l].section].offset
    BY <2>2, LabelPositionIs, SectionOffset DEF CoreInv, CodeSections
  <2>4. v = labels[l].offset + base + o
    BY <1>3, <1>8, <2>1, <2>3 DEF RelocValue
  <2>5. LabelPosition(l)' = o + labels[l].offset
    BY <1>2, <2>2, <2>3, PositionsKept, LabelPositionIs
  <2>6. RightValue(n)' = base + (o + labels[l].offset)
    BY <1>2, <1>6, <2>1, <2>5 DEF RightValue, PointerTo
  <2>7. labels[l].offset \in Int /\ base \in Int
    <3>1. labels[l].offset \in Nat
      BY Basics DEF CoreInv
    <3>2. base \in Nat
      BY ConstantsAssumption, RelocatesInPlace DEF ConstantsAssumption
    <3> QED
      BY <3>1, <3>2
  <2>8. v = RightValue(n)'
    BY <2>3, <2>4, <2>6, <2>7
  <2> QED
    BY <1>7, <2>1, <2>8, <1>8 DEF NeedsTable
<1> QED
  BY <1>0, <1>1, <1>9, <1>10, <1>11 DEF EntriesMean, EntryMeans

\* And one that was filled before is.
LEMMA KnownStaysRight ==
  ASSUME CoreInv, NEW base, Relocates(base), NEW n \in DOMAIN fields, FieldRight(n),
         fields'[n] = fields[n], fields[n].value # {}
  PROVE  \/ fields'[n].base \notin {NoBase, base_address'}
         \/ ~fields'[n].indirect /\ Holds(n, RightValue(n))'
<1>1. /\ UNCHANGED labels /\ base_address' = base /\ PlacesKept
      /\ FieldPosition(n)' = FieldPosition(n)
  BY RelocatesInPlace, KeptIsSame, FieldPositionKept DEF PlacesKept
<1>2. PICK l, k : l = fields[n].meaning.to /\ k = fields[n].meaning.from
  OBVIOUS
<1>3. CASE LabelRight(n)
  <2>1. /\ fields[n].meaning = ToLabel(l) /\ l \in DOMAIN labels /\ IsBound(l)
        /\ fields[n].value = {LabelPosition(l) - FieldPosition(n)}
    BY <1>2, <1>3 DEF LabelRight
  <2>2. LabelPosition(l)' = LabelPosition(l)
    BY <1>1, <2>1, PositionsKept
  <2>3. RightValue(n)' = LabelPosition(l)' - FieldPosition(n)'
    BY <1>2, <2>1 DEF RightValue, ToLabel
  <2> QED
    BY <1>1, <2>1, <2>2, <2>3, HoldsSingle DEF FieldRight, Holds
<1>4. CASE AddressRight(n)
  <2>1. /\ fields[n].meaning = ToAddress(l) /\ fields[n].base # NoBase
        /\ fields[n].value = {l - (fields[n].base + FieldPosition(n))}
    BY <1>2, <1>4 DEF AddressRight
  <2>2. RightValue(n)' = l - (base + FieldPosition(n))
    BY <1>1, <1>2, <2>1 DEF RightValue, ToAddress
  <2>3. CASE fields[n].base = base
    BY <1>1, <2>1, <2>2, <2>3, HoldsSingle DEF FieldRight, Holds
  <2>4. CASE fields[n].base # base
    BY <1>1, <2>1, <2>4
  <2> QED
    BY <2>3, <2>4
<1>5. CASE DistanceRight(n)
  <2>1. /\ fields[n].meaning = Distance(l, k) /\ l \in DOMAIN labels /\ k \in DOMAIN labels
        /\ IsBound(l) /\ IsBound(k)
        /\ fields[n].value = {LabelPosition(l) - LabelPosition(k)}
    BY <1>2, <1>5 DEF DistanceRight, IsBound
  <2>2. LabelPosition(l)' = LabelPosition(l) /\ LabelPosition(k)' = LabelPosition(k)
    BY <1>1, <2>1, PositionsKept
  <2>3. RightValue(n)' = LabelPosition(l)' - LabelPosition(k)'
    BY <1>2, <2>1 DEF RightValue, Distance
  <2> QED
    BY <1>1, <2>1, <2>2, <2>3, HoldsSingle DEF FieldRight, Holds
<1> QED
  BY <1>3, <1>4, <1>5 DEF FieldRight

\* So the code relocate_to_base() accepts is right.
LEMMA ValueRelocates ==
  ASSUME CoreInv, RefInv, ValueInv, NEW base, Relocates(base)
  PROVE  ValueInv'
<1>0. /\ phase = "flattened" /\ phase' = IF AllWritten(base) THEN "relocated" ELSE "failed"
      /\ DOMAIN fields' = DOMAIN fields /\ UNCHANGED <<labels, fixups, relocations>>
  BY RelocatesInPlace DEF Relocates
<1>1. Accounted /\ \A n \in DOMAIN fields : FieldRight(n)
  BY <1>0 DEF RefInv, ValueInv, ValuesRight
<1>2. ASSUME AllWritten(base), NEW n \in DOMAIN fields
      PROVE  \/ Waiting(n)'
             \/ fields'[n].base \notin {NoBase, base_address'}
             \/ (IF fields[n].indirect THEN ReadsItsSlot(n) ELSE Holds(n, RightValue(n)))'
  <2>1. ASSUME NEW r \in EntriesWritten(base), relocations[r].field = n,
               Gains(n, RelocValue(base, r)), fields'[n].indirect <=> r \in EntriesIndirect(base)
        PROVE  (IF fields[n].indirect THEN ReadsItsSlot(n) ELSE Holds(n, RightValue(n)))'
    BY <2>1, WrittenRight
  <2>2. ASSUME \A r \in EntriesWritten(base) : relocations[r].field # n, fields'[n] = fields[n]
        PROVE  \/ Waiting(n)'
               \/ fields'[n].base \notin {NoBase, base_address'}
               \/ (IF fields[n].indirect THEN ReadsItsSlot(n) ELSE Holds(n, RightValue(n)))'
    <3>1. ~HasEntry(n)
      BY <1>2, <2>2 DEF AllWritten, HasEntry
    <3>2. CASE fields[n].value = {}
      <4>1. HasLabelFixup(n) \/ HasFixup(n)
        BY <1>1, <3>1, <3>2 DEF Accounted, Awaiting
      <4>2. HasFixup(n) <=> HasFixup(n)'
        BY <1>0 DEF HasFixup
      <4>3. Waiting(n)'
        BY <1>0, <4>1, <4>2, WaitingIsNext DEF HasLabelFixup
      <4> QED
        BY <4>3
    <3>3. CASE fields[n].value # {}
      BY <1>1, <2>2, <3>3, KnownStaysRight
    <3> QED
      BY <3>2, <3>3
  <2> QED
    BY <2>1, <2>2 DEF Relocates, RelocatesFields
<1>3. RelocatedCodeIsRight'
  BY <1>0, <1>2 DEF RelocatedCodeIsRight
<1> QED
  BY <1>0, <1>3 DEF ValueInv, ValuesRight

\* An empty CodeHolder has no values,
LEMMA ValueEmpty ==
  ASSUME Start
  PROVE  ValueInv
BY DEF Start, Empty, ValueInv, ValuesRight, RelocatedCodeIsRight

\* after reinit() as well.
LEMMA ValueEmptyNext == Start' => ValueInv'
BY ValueEmpty, PTL

\* Every step keeps the values.
LEMMA ValueNext ==
  ASSUME CoreInv, ConstantsAssumption, LayoutInv, RefInv, ValueInv, Steps
  PROVE  ValueInv'
<1>1. ASSUME NEW alignment \in Alignments, NEW order \in Orders, NewSection(alignment, order)
      PROVE  ValueInv'
  <2>1. Emitting /\ UNCHANGED <<refs, fields, Bystanders>>
    BY <1>1 DEF NewSection
  <2> QED
    BY <1>1, <2>1, NewSectionIs, ValueGrow
<1>2. ASSUME NEW s \in CodeSections, NEW n \in Paddings, EmbedData(s, n) PROVE ValueInv'
  <2>1. Emitting /\ UNCHANGED <<refs, fields, Bystanders>>
    BY <1>2 DEF EmbedData
  <2> QED
    BY <1>2, <2>1, EmbedDataIs, ValueGrow
<1>3. CASE fault' \in Faults /\ UNCHANGED <<layout, refs, fields, Bystanders>>
  BY <1>3, ValueUntouched
<1>4. ASSUME NEW n, Flattens(n) PROVE ValueInv'
  <2>1. LayoutInv'
    BY LayoutNext
  <2> QED
    BY <1>4, <2>1, ValueFlattens
<1>5. CASE Reinit
  BY <1>5, ReinitStarts, ValueEmptyNext
<1>6. CASE UNCHANGED vars
  BY <1>6, ValueUntouched DEF vars, Bystanders
<1> QED
  BY <1>1, <1>2, <1>3, <1>4, <1>5, <1>6, ValueNewLabel, ValueEmitsValue, ValueEmitsFixup,
     ValueEmitsEntry, ValueBinds, ValueResolves, ValueRelocates DEF Steps

-------------------------------------------------------------------------------
(* Theorems *)

\* The inductive invariant.
IInv == CoreInv /\ LayoutInv /\ RefInv /\ ValueInv

\* Whatever a CodeHolder is asked to do, in whatever order, it keeps IInv.
THEOREM Invariant == Spec => []IInv
<1>1. Init => IInv
  BY ConstantsAssumption, InitEmpty, EmptyCore, LayoutEmpty, RefEmpty, ValueEmpty DEF IInv, Start
<1>2. IInv /\ [Next]_vars => IInv'
  <2> SUFFICES ASSUME IInv, [Next]_vars PROVE IInv'
    OBVIOUS
  <2>1. Steps
    BY ConstantsAssumption, NextSteps DEF IInv
  <2> QED
    BY <2>1, ConstantsAssumption, CoreNext, LayoutNext, RefNext, ValueNext DEF IInv
<1> QED
  BY <1>1, <1>2, PTL DEF Spec

\* The inductive invariant implies the type invariant.
LEMMA Typed ==
  ASSUME IInv
  PROVE  TypeOK
<1>0. CoreInv /\ TypeInv /\ RefInv
  BY DEF IInv, CoreInv
<1>1. \A s \in DOMAIN sections :
        /\ sections[s].alignment \in Nat \ {0} /\ sections[s].order \in TextOrder .. TableOrder
        /\ sections[s].offset \in Nat \cup {NoOffset}
        /\ sections[s].virtual_size \in Nat /\ sections[s].size \in Nat
  <2>1. \A s \in DOMAIN sections : sections[s] \in SectionType
    BY <1>0, SeqIs DEF TypeInv, SectionsTyped
  <2> QED
    BY <2>1 DEF SectionType
<1>2. sections_by_order \in Seq(DOMAIN sections)
  BY <1>0, OrderIs, FunctionIsSeq DEF TypeInv
<1>3. \A l \in DOMAIN labels :
        /\ labels[l].section \in {0} \cup CodeSections /\ labels[l].offset \in Nat
        /\ \A f \in labels[l].fixups : f.label_or_reloc_id \in {0} \cup DOMAIN relocations
  BY <1>0, Basics, FixupsOfLabels DEF CoreInv, RangeInv
<1>4. /\ \A f \in AllFixups : f.field \in DOMAIN fields /\ f.rel \in Int
      /\ \A f \in fixups : f.label_or_reloc_id \in DOMAIN labels
  BY <1>0, FixupIs, FixupsOfLabels DEF AllFixups, LabelFixups, FixupType
<1>5. unresolved_fixup_count \in Nat
  BY <1>0, AwaitedIsFinite DEF RefInv
<1>6. \A r \in DOMAIN relocations :
        /\ relocations[r].kind \in {"RelToAbs", "Expression", "AbsToRel", "X64AddressEntry"}
        /\ relocations[r].field \in DOMAIN fields /\ relocations[r].payload \in Nat
        /\ relocations[r].target \in {0} \cup CodeSections
  BY <1>0, EntryIs DEF RelocType, RelocKinds, EntryInRange
<1>7. \A f \in DOMAIN fields :
        /\ fields[f].section \in CodeSections
        /\ fields[f].size \in {1, 4, AddressSize} /\ fields[f].value \subseteq Int
  BY <1>0, FieldIs DEF FieldType
<1> QED
  BY <1>0, <1>1, <1>2, <1>3, <1>4, <1>5, <1>6, <1>7 DEF TypeOK, TypeInv, SectionsTyped, Phases, Faults

\* The type invariant: sections, labels, fixups, relocation entries and fields are
\* what they are said to be, and refer to each other without a dangling index.
THEOREM Types == Spec => []TypeOK
BY Invariant, Typed, PTL

\* has_unresolved_fixups() is exact: _unresolved_fixup_count, which new_fixup()
\* raises and bind_label() and resolve_cross_section_fixups() lower, is the number
\* of fixups there are, and a bound label has none.
THEOREM FixupsAreCounted == Spec => []FixupCountExact
<1>1. IInv => FixupCountExact
  BY CountIsExact DEF IInv
<1> QED
  BY <1>1, Invariant, PTL

\* No field of the code is forgotten and none is filled twice: until relocation it
\* holds its value or exactly one fixup or relocation entry is going to fill it.
THEOREM FieldsAreAccountedFor == Spec => []FieldsAccounted
<1>1. IInv => FieldsAccounted
  BY AccountedFor DEF IInv
<1> QED
  BY <1>1, Invariant, PTL

\* In code that relocate_to_base() accepts, every field without an unresolved
\* fixup whose value was computed for the final base address, or without a base,
\* leads to its label or address, over the address table or not.  Fields computed
\* for another base are exempt: reinit() leaves one that is wrong.
THEOREM CodeIsRight == Spec => []RelocatedCodeIsRight
<1>1. IInv => RelocatedCodeIsRight
  BY DEF IInv, ValueInv
<1> QED
  BY <1>1, Invariant, PTL

\* The inductive invariant implies that flatten() keeps its promise.
LEMMA Laying ==
  ASSUME IInv
  PROVE  LayoutSound
<1>1. CASE phase = "flattened"
  BY <1>1, FlatIsSound DEF IInv, CoreInv, TypeInv, LayoutInv
<1>2. CASE phase = "relocated"
  BY <1>2 DEF IInv, LayoutInv, Done
<1>3. CASE ~Laid
  BY <1>3 DEF LayoutSound
<1> QED
  BY <1>1, <1>2, <1>3 DEF Laid

\* flatten() lists every section once, in order, aligned, and none overlaps
\* the next.
THEOREM LayoutIsSound == Spec => []LayoutSound
BY Invariant, Laying, PTL

\* The size JitRuntime shrinks its span to after relocate_to_base() holds
\* every section.
THEOREM CopyLosesNothing == Spec => []ReducedSizeHoldsCode
<1>1. IInv => ReducedSizeHoldsCode
  BY DEF IInv, LayoutInv, Done, ReducedSizeHoldsCode
<1> QED
  BY <1>1, Invariant, PTL

\* When no section of the user has the order of .addrtab, every slot an indirect
\* branch reads lies in the buffer that is copied, and holds its own address.
THEOREM TableIsInBuffer ==
  ASSUME TableOrder \notin Orders
  PROVE  Spec => []TableIsCopied
<1>1. IInv => TableIsCopied
  BY DEF IInv, LayoutInv, Done, TableIsCopied
<1> QED
  BY <1>1, Invariant, PTL
===============================================================================
