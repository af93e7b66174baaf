-------------------------- MODULE CodeEmitters_proofs --------------------------
(***************************************************************************)
(* Proofs about CodeEmitters.                                              *)
(*                                                                         *)
(* The inductive invariant says of every holder that there is a list, n    *)
(* places and the emitter m[i] in each, which the `code` and the links of  *)
(* the emitters and the two ends of the holder describe (ListsIn).  Which  *)
(* list it is never matters to a step: linking turns (n, m) into one more  *)
(* place, unlinking into one less (Pushed, Dropped), and the walk of the   *)
(* model is m (WalkIsChain), so that who is refreshed or detached by a     *)
(* walk is who has the holder for `code` (ListedHaveCode).                 *)
(*                                                                         *)
(* Every action has a lemma that says field by field what it does (its     *)
(* name ends in Fields or Is...), and one that concludes the invariant and *)
(* which way the lists went (ListStep): kept, joined, left or dissolved.   *)
(* The refinement of the registry reads the second part, the settings are  *)
(* an induction of their own on the first.                                 *)
(*                                                                         *)
(* Memory is a matter of one holder: a step that changes one sequence of   *)
(* buffers and `live` keeps the accounts if the data it drops are freed    *)
(* and those it adds were not allocated before (Moves).                    *)
(*                                                                         *)
(* What is assumed of Failures is needed.  A builder whose node cannot be  *)
(* allocated keeps its `code` and is in no list; detaching it then empties *)
(* the list of a holder that has others.  A compiler whose on_reinit()     *)
(* fails is detached and still listed, which only the settings tell.       *)
(***************************************************************************)
EXTENDS CodeEmitters, NatSetTheorems, SequenceTheorems

-------------------------------------------------------------------------------
(* Walking a list *)

Links == Emitters \cup {None}

\* `m` names the members of h in order, in n places; the emitters say so by
\* their code and their links, the holder by the two ends.
At(n, m, i) == IF i \in 1 .. n THEN m[i] ELSE None

Chain(ems, first, n, m) ==
  /\ first = At(n, m, 1)
  /\ \A i \in 1 .. n : ems[m[i]].next = At(n, m, i + 1)

Distinct(n, m) ==
  /\ m \in [1 .. n -> Emitters]
  /\ \A i, j \in 1 .. n : m[i] = m[j] => i = j

HasLinks(ems) == \A e \in Emitters : ems[e].next \in Links

\* What the recursive function of Walk satisfies.
IsFrom(f, ems) ==
  f = [n \in Nat |-> [e \in Links |->
        IF e = None \/ n = 0 THEN <<>> ELSE <<e>> \o f[n - 1][ems[e].next]]]

LEMMA WalkIsFrom ==
  ASSUME NEW ems, NEW first
  PROVE  Walk(ems, first) = (CHOOSE f : IsFrom(f, ems))[Cardinality(Emitters) + 1][first]
BY DEF Walk, IsFrom, Links

LEMMA FromExists ==
  ASSUME NEW ems, HasLinks(ems)
  PROVE  \E f : IsFrom(f, ems)
<1> DEFINE T == [Links -> Seq(Emitters)]
           none == [e \in Links |-> <<>>]
           G(t) == [e \in Links |-> IF e = None THEN <<>> ELSE <<e>> \o t[ems[e].next]]
           g == [t \in T |-> G(t)]
<1>0. None \notin Emitters
  BY CodeEmittersAssumption
<1>1. none \in T
  OBVIOUS
<1>2. g \in [T -> T]
  <2>1. ASSUME NEW t \in T, NEW e \in Links, e # None PROVE <<e>> \o t[ems[e].next] \in Seq(Emitters)
    <3>1. e \in Emitters /\ ems[e].next \in Links
      BY <2>1 DEF HasLinks, Links
    <3>2. t[ems[e].next] \in Seq(Emitters) /\ <<e>> \in Seq(Emitters)
      BY <3>1
    <3> QED
      BY <3>2, ConcatProperties
  <2>2. ASSUME NEW t \in T PROVE G(t) \in T
    BY <2>1
  <2> HIDE DEF G, T
  <2> QED
    BY <2>2
<1>3. PICK f \in [Nat -> T] : f[0] = none /\ \A n \in Nat : f[n + 1] = g[f[n]]
  <2> HIDE DEF T, none, g
  <2> QED
    BY <1>1, <1>2, NatRecursion
<1> DEFINE step(n) == [e \in Links |-> IF e = None \/ n = 0 THEN <<>> ELSE <<e>> \o f[n - 1][ems[e].next]]
<1>4. ASSUME NEW n \in Nat PROVE f[n] = step(n)
  <2>1. CASE n = 0
    BY <2>1, <1>3
  <2>2. CASE n # 0
    <3>1. n - 1 \in Nat /\ (n - 1) + 1 = n
      BY <2>2
    <3>2. f[n] = G(f[n - 1])
      <4>1. f[n] = g[f[n - 1]] /\ f[n - 1] \in T
        BY <3>1, <1>3
      <4> HIDE DEF G, T
      <4> QED
        BY <4>1
    <3> QED
      BY <2>2, <3>2
  <2> QED
    BY <2>1, <2>2
<1>5. f = [n \in Nat |-> f[n]]
  BY <1>3
<1>6. IsFrom(f, ems)
  <2>1. f = [n \in Nat |-> step(n)]
    <3> HIDE DEF step
    <3> QED
      BY <1>4, <1>5
  <2> QED
    BY <2>1 DEF IsFrom
<1> QED
  BY <1>6

\* Walking a chain gives its members in order.
LEMMA WalkIsChain ==
  ASSUME NEW ems, HasLinks(ems), NEW first, NEW n \in Nat, NEW m,
         Distinct(n, m), Chain(ems, first, n, m)
  PROVE  Walk(ems, first) = m
<1> DEFINE f == CHOOSE g : IsFrom(g, ems)
<1>0. None \notin Emitters /\ IsFiniteSet(Emitters)
  BY CodeEmittersAssumption
<1>1. IsFrom(f, ems)
  BY FromExists
<1> HIDE DEF f
<1> DEFINE step(k) == [e \in Links |-> IF e = None \/ k = 0 THEN <<>> ELSE <<e>> \o f[k - 1][ems[e].next]]
<1>a. ASSUME NEW k \in Nat PROVE f[k] = step(k)
  <2>1. f = [n_1 \in Nat |-> step(n_1)]
    BY <1>1 DEF IsFrom
  <2> HIDE DEF step
  <2>2. [n_1 \in Nat |-> step(n_1)][k] = step(k)
    OBVIOUS
  <2> QED
    BY <2>1, <2>2
<1>2. ASSUME NEW k \in Nat, NEW e \in Links
      PROVE  f[k][e] = IF e = None \/ k = 0 THEN <<>> ELSE <<e>> \o f[k - 1][ems[e].next]
  BY ZenonT(60), <1>a
<1> HIDE DEF step
<1> DEFINE Good(k, i) == /\ f[k][At(n, m, i)] \in Seq(Emitters)
                         /\ Len(f[k][At(n, m, i)]) = n + 1 - i
                         /\ \A j \in 1 .. n + 1 - i : f[k][At(n, m, i)][j] = m[j + i - 1]
           S == {d \in Nat : d <= n => \A k \in Nat : k >= d => Good(k, n + 1 - d)}
<1>3. Inductive(S)
  <2>1. 0 \in S
    <3>1. At(n, m, n + 1 - 0) = None
      BY DEF At
    <3>2. ASSUME NEW k \in Nat PROVE Good(k, n + 1 - 0)
      <4>1. None \in Links
        BY DEF Links
      <4>2. f[k][None] = <<>>
        BY <4>1, <1>2
      <4>3. Len(<<>>) = 0 /\ <<>> \in Seq(Emitters)
        OBVIOUS
      <4>4. n + 1 - (n + 1 - 0) = 0
        OBVIOUS
      <4>5. f[k][At(n, m, n + 1 - 0)] = <<>>
        BY <3>1, <4>2
      <4> HIDE DEF f
      <4> QED
        BY <4>3, <4>4, <4>5
    <3> HIDE DEF Good
    <3> QED
      BY <3>2
  <2>2. ASSUME NEW d \in Nat, d \in S PROVE d + 1 \in S
    <3> HIDE DEF Good
    <3>0. d + 1 \in Nat
      OBVIOUS
    <3> SUFFICES ASSUME d + 1 <= n, NEW k \in Nat, k >= d + 1 PROVE Good(k, n + 1 - (d + 1))
      BY <3>0
    <3> DEFINE i == n + 1 - (d + 1)
    <3>1. i \in 1 .. n /\ i + 1 = n + 1 - d /\ k - 1 \in Nat /\ k - 1 >= d /\ k # 0 /\ i \in Int
      OBVIOUS
    <3>2. Good(k - 1, i + 1)
      <4> HIDE DEF Good, i
      <4> QED
        BY <2>2, <3>1
    <3>3. At(n, m, i) = m[i] /\ m[i] \in Emitters /\ ems[m[i]].next = At(n, m, i + 1)
      BY <3>1 DEF At, Distinct, Chain
    <3> HIDE DEF i
    <3> DEFINE rest == f[k - 1][At(n, m, i + 1)]
    <3>4. f[k][m[i]] = <<m[i]>> \o rest
      <4>1. m[i] \in Links /\ m[i] # None
        BY <1>0, <3>3 DEF Links
      <4> QED
        BY <1>2, <3>1, <3>3, <4>1
    <3>5. rest \in Seq(Emitters) /\ Len(rest) = n - i /\ \A j \in 1 .. n - i : rest[j] = m[j + i]
      <4>1. n + 1 - (i + 1) = n - i
        BY <3>1
      <4>2. \A j \in 1 .. n - i : j + (i + 1) - 1 = j + i
        BY <3>1
      <4> QED
        BY <3>2, <4>1, <4>2 DEF Good
    <3> HIDE DEF rest
    <3>6. <<m[i]>> \in Seq(Emitters) /\ Len(<<m[i]>>) = 1 /\ <<m[i]>>[1] = m[i]
      BY <3>3
    <3> DEFINE all == <<m[i]>> \o rest
    <3>7. /\ all \in Seq(Emitters) /\ Len(all) = 1 + (n - i)
          /\ \A j \in 1 .. 1 + (n - i) : all[j] = IF j <= 1 THEN <<m[i]>>[j] ELSE rest[j - 1]
      <4>1. Len(<<m[i]>>) + Len(rest) = 1 + (n - i)
        BY <3>5, <3>6
      <4> HIDE DEF all
      <4> QED
        BY <3>5, <3>6, <4>1, ConcatProperties DEF all
    <3>8. ASSUME NEW j \in 1 .. n + 1 - i PROVE all[j] = m[j + i - 1]
      <4>1. j \in 1 .. 1 + (n - i)
        BY <3>1
      <4>2. CASE j = 1
        <5>1. j + i - 1 = i
          BY <4>2, <3>1
        <5> QED
          BY <4>1, <4>2, <5>1, <3>6, <3>7
      <4>3. CASE j # 1
        <5>1. j - 1 \in 1 .. n - i /\ ~(j <= 1) /\ (j - 1) + i = j + i - 1
          BY <4>3, <3>1
        <5>2. all[j] = rest[j - 1]
          BY <4>1, <5>1, <3>7
        <5> QED
          BY <5>1, <5>2, <3>5
      <4> QED
        BY <4>2, <4>3
    <3>9. 1 + (n - i) = n + 1 - i
      BY <3>1
    <3> HIDE DEF all
    <3>10. f[k][At(n, m, i)] = all
      BY <3>3, <3>4 DEF all
    <3> QED
      BY <3>7, <3>8, <3>9, <3>10 DEF i, Good
  <2> HIDE DEF S
  <2> QED
    BY <2>1, <2>2 DEF Inductive
<1>4. Cardinality(Emitters) \in Nat /\ n <= Cardinality(Emitters)
  <2>1. Cardinality(Emitters) \in Nat
    BY <1>0, FS_CardinalityType
  <2>2. m \in Injection(1 .. n, Emitters)
    BY DEF Distinct, Injection, IsInjective
  <2>3. IsFiniteSet(1 .. n) /\ Cardinality(1 .. n) = n
    <3>1. 1 \in Int /\ n \in Int
      OBVIOUS
    <3> QED
      BY <3>1, FS_Interval
  <2>4. Cardinality(1 .. n) <= Cardinality(Emitters)
    BY <1>0, <2>2, <2>3, FS_Injection
  <2> QED
    BY <2>1, <2>3, <2>4
<1>5. Good(Cardinality(Emitters) + 1, 1)
  <2>1. n \in S
    <3> HIDE DEF S
    <3> QED
      BY <1>3, InductiveHasNat
  <2>2. n + 1 - n = 1 /\ Cardinality(Emitters) + 1 \in Nat /\ Cardinality(Emitters) + 1 >= n
    BY <1>4
  <2> HIDE DEF Good
  <2> QED
    BY <2>1, <2>2
<1>6. Walk(ems, first) = f[Cardinality(Emitters) + 1][At(n, m, 1)]
  BY WalkIsFrom DEF Chain, f
<1> DEFINE w == Walk(ems, first)
<1>7. w \in Seq(Emitters) /\ Len(w) = n /\ \A j \in 1 .. n : w[j] = m[j]
  <2>1. n + 1 - 1 = n /\ \A j \in 1 .. n : j + 1 - 1 = j
    OBVIOUS
  <2> HIDE DEF w
  <2>2. w = f[Cardinality(Emitters) + 1][At(n, m, 1)]
    BY <1>6 DEF w
  <2> QED
    BY <1>5, <2>1, <2>2
<1> HIDE DEF w
<1>8. w = [j \in 1 .. n |-> w[j]]
  BY <1>7
<1>9. m = [j \in 1 .. n |-> m[j]]
  BY DEF Distinct
<1> QED
  BY <1>7, <1>8, <1>9 DEF w

-------------------------------------------------------------------------------
(* The list of a holder, in its record and in its emitters *)

ListsIn(ems, hd, h, n, m) ==
  /\ Distinct(n, m)
  /\ Chain(ems, hd.first, n, m)
  /\ \A i \in 1 .. n : ems[m[i]].prev = At(n, m, i - 1)
  /\ hd.last = At(n, m, n)
  /\ \A e \in Emitters : ems[e].code = h <=> \E i \in 1 .. n : m[i] = e

\* The list is the same in two states that agree on its members and ends.
SameList(ems, hd, ems2, hd2, h) ==
  /\ hd2.first = hd.first /\ hd2.last = hd.last
  /\ \A e \in Emitters : ems2[e].code = h <=> ems[e].code = h
  /\ \A e \in Emitters : ems[e].code = h => ems2[e].prev = ems[e].prev /\ ems2[e].next = ems[e].next

LEMMA SameListKept ==
  ASSUME NEW ems, NEW hd, NEW ems2, NEW hd2, NEW h, NEW n \in Nat, NEW m,
         ListsIn(ems, hd, h, n, m), SameList(ems, hd, ems2, hd2, h)
  PROVE  ListsIn(ems2, hd2, h, n, m)
<1>1. \A i \in 1 .. n : m[i] \in Emitters /\ ems[m[i]].code = h
  BY DEF ListsIn, Distinct
<1> QED
  BY <1>1 DEF ListsIn, SameList, Chain

\* e is added behind the last of h.
Adds(ems, hd, ems2, hd2, h, e) ==
  /\ ems[e].code # h /\ ems2[e].code = h
  /\ \A x \in Emitters : x # e => ems2[x].code = ems[x].code
  /\ ems2[e].prev = hd.last /\ ems2[e].next = None
  /\ \A x \in Emitters : x # e =>
       /\ ems2[x].prev = ems[x].prev
       /\ ems2[x].next = IF x = hd.last THEN e ELSE ems[x].next
  /\ hd2.first = (IF hd.last = None THEN e ELSE hd.first)
  /\ hd2.last = e

Pushed(n, m, e) == [i \in 1 .. n + 1 |-> IF i = n + 1 THEN e ELSE m[i]]

LEMMA AddedToList ==
  ASSUME NEW ems, NEW hd, NEW ems2, NEW hd2, NEW h, NEW n \in Nat, NEW m, NEW e \in Emitters,
         ListsIn(ems, hd, h, n, m), Adds(ems, hd, ems2, hd2, h, e)
  PROVE  ListsIn(ems2, hd2, h, n + 1, Pushed(n, m, e))
<1> DEFINE w == Pushed(n, m, e)
<1>0. None \notin Emitters
  BY CodeEmittersAssumption
<1>1. w \in [1 .. n + 1 -> Emitters] /\ w[n + 1] = e /\ \A i \in 1 .. n : w[i] = m[i]
  BY DEF Pushed, ListsIn, Distinct
<1>2. \A i \in 1 .. n : m[i] \in Emitters /\ ems[m[i]].code = h /\ m[i] # e
  BY DEF ListsIn, Distinct, Adds
<1>3. Distinct(n + 1, w)
  <2>1. ASSUME NEW i \in 1 .. n + 1, NEW j \in 1 .. n + 1, w[i] = w[j] PROVE i = j
    <3>1. (i = n + 1 \/ i \in 1 .. n) /\ (j = n + 1 \/ j \in 1 .. n)
      OBVIOUS
    <3> HIDE DEF w
    <3> QED
      BY <2>1, <3>1, <1>1, <1>2 DEF ListsIn, Distinct
  <2> HIDE DEF w
  <2> QED
    BY <1>1, <2>1 DEF Distinct
<1> HIDE DEF w
<1>4. \A i \in 0 .. n : At(n + 1, w, i) = At(n, m, i)
  BY <1>1 DEF At
<1>5. At(n + 1, w, n + 1) = e /\ At(n + 1, w, n + 2) = None
  BY <1>1 DEF At
<1>6. hd.last = At(n, m, n) /\ hd.first = At(n, m, 1)
  BY DEF ListsIn, Chain
<1>7. hd2.first = At(n + 1, w, 1)
  <2>1. CASE n = 0
    <3>1. At(n, m, n) = None /\ n + 1 = 1
      BY <2>1 DEF At
    <3> QED
      BY <3>1, <1>5, <1>6 DEF Adds
  <2>2. CASE n # 0
    <3>1. n \in 1 .. n /\ 1 \in 0 .. n
      BY <2>2
    <3>2. At(n, m, n) # None
      BY <3>1, <1>0, <1>2 DEF At
    <3> QED
      BY <3>1, <3>2, <1>4, <1>6 DEF Adds
  <2> QED
    BY <2>1, <2>2
<1>8. hd2.last = At(n + 1, w, n + 1)
  BY <1>5 DEF Adds
<1>9. ASSUME NEW i \in 1 .. n + 1 PROVE ems2[w[i]].next = At(n + 1, w, i + 1)
  <2>1. CASE i = n + 1
    <3>1. i + 1 = n + 2
      BY <2>1
    <3> QED
      BY <2>1, <3>1, <1>1, <1>5 DEF Adds
  <2>2. CASE i = n /\ i # n + 1
    <3>1. i \in 1 .. n /\ n \in 1 .. n
      BY <2>2
    <3>2. w[i] = m[i] /\ m[i] = hd.last
      BY <3>1, <2>2, <1>1, <1>6 DEF At
    <3>3. ems2[m[i]].next = e
      BY <3>1, <3>2, <1>2 DEF Adds
    <3> QED
      BY <3>2, <3>3, <2>2, <1>5
  <2>3. CASE i \in 1 .. n - 1
    <3>1. i \in 1 .. n /\ n \in 1 .. n /\ i # n /\ i + 1 \in 0 .. n
      BY <2>3
    <3>2. w[i] = m[i] /\ hd.last = m[n] /\ m[i] # m[n]
      <4>1. m[i] # m[n]
        BY <3>1 DEF ListsIn, Distinct
      <4> QED
        BY <3>1, <4>1, <1>1, <1>6 DEF At
    <3>3. ems2[m[i]].next = ems[m[i]].next
      BY <3>1, <3>2, <1>2 DEF Adds
    <3>4. ems[m[i]].next = At(n, m, i + 1)
      BY <3>1 DEF ListsIn, Chain
    <3> QED
      BY <3>1, <3>2, <3>3, <3>4, <1>4
  <2> QED
    BY <2>1, <2>2, <2>3
<1>10. ASSUME NEW i \in 1 .. n + 1 PROVE ems2[w[i]].prev = At(n + 1, w, i - 1)
  <2>1. CASE i = n + 1
    <3>1. i - 1 = n /\ n \in 0 .. n
      BY <2>1
    <3> QED
      BY <2>1, <3>1, <1>1, <1>4, <1>6 DEF Adds
  <2>2. CASE i \in 1 .. n
    <3>1. i - 1 \in 0 .. n
      BY <2>2
    <3>2. ems2[m[i]].prev = ems[m[i]].prev
      BY <2>2, <1>2 DEF Adds
    <3>3. ems[m[i]].prev = At(n, m, i - 1)
      BY <2>2 DEF ListsIn
    <3> QED
      BY <2>2, <3>1, <3>2, <3>3, <1>1, <1>4
  <2> QED
    BY <2>1, <2>2
<1>11. ASSUME NEW x \in Emitters PROVE ems2[x].code = h <=> \E i \in 1 .. n + 1 : w[i] = x
  <2>1. CASE x = e
    <3>1. n + 1 \in 1 .. n + 1
      OBVIOUS
    <3> QED
      BY <2>1, <3>1, <1>1 DEF Adds
  <2>2. CASE x # e
    <3>1. ems2[x].code = h <=> \E i \in 1 .. n : m[i] = x
      BY <2>2 DEF Adds, ListsIn
    <3>2. ASSUME NEW i \in 1 .. n, m[i] = x PROVE \E j \in 1 .. n + 1 : w[j] = x
      <4>1. i \in 1 .. n + 1
        OBVIOUS
      <4> QED
        BY <3>2, <4>1, <1>1
    <3>3. ASSUME NEW j \in 1 .. n + 1, w[j] = x PROVE \E i \in 1 .. n : m[i] = x
      <4>1. j # n + 1
        BY <3>3, <2>2, <1>1
      <4>2. j \in 1 .. n
        BY <4>1
      <4> QED
        BY <3>3, <4>2, <1>1
    <3> QED
      BY <3>1, <3>2, <3>3
  <2> QED
    BY <2>1, <2>2
<1> QED
  BY <1>3, <1>7, <1>8, <1>9, <1>10, <1>11 DEF ListsIn, Chain, w

\* e is taken out of the list of h.
Removes(ems, hd, ems2, hd2, h, e) ==
  /\ ems2[e].code # h
  /\ \A x \in Emitters : x # e =>
       /\ ems2[x].code = ems[x].code
       /\ ems2[x].next = IF x = ems[e].prev THEN ems[e].next ELSE ems[x].next
       /\ ems2[x].prev = IF x = ems[e].next THEN ems[e].prev ELSE ems[x].prev
  /\ hd2.first = (IF ems[e].prev = None THEN ems[e].next ELSE hd.first)
  /\ hd2.last = (IF ems[e].next = None THEN ems[e].prev ELSE hd.last)

Dropped(n, m, k) == [i \in 1 .. n - 1 |-> IF i < k THEN m[i] ELSE m[i + 1]]

LEMMA RemovedFromList ==
  ASSUME NEW ems, NEW hd, NEW ems2, NEW hd2, NEW h, NEW n \in Nat, NEW m, NEW k \in 1 .. n,
         ListsIn(ems, hd, h, n, m), Removes(ems, hd, ems2, hd2, h, m[k])
  PROVE  n - 1 \in Nat /\ ListsIn(ems2, hd2, h, n - 1, Dropped(n, m, k))
<1> DEFINE w == Dropped(n, m, k)
           e == m[k]
           old(i) == IF i < k THEN i ELSE i + 1
<1>0. None \notin Emitters /\ n - 1 \in Nat
  BY CodeEmittersAssumption
<1>1. \A i \in 1 .. n : m[i] \in Emitters /\ ems[m[i]].code = h
  BY DEF ListsIn, Distinct
<1>2. \A i \in 1 .. n - 1 : old(i) \in 1 .. n /\ old(i) # k /\ w[i] = m[old(i)]
  BY DEF Dropped
<1>3. \A i \in 1 .. n : i # k => \E j \in 1 .. n - 1 : old(j) = i
  <2>1. ASSUME NEW i \in 1 .. n, i < k PROVE i \in 1 .. n - 1 /\ old(i) = i
    BY <2>1
  <2>2. ASSUME NEW i \in 1 .. n, i > k PROVE i - 1 \in 1 .. n - 1 /\ old(i - 1) = i
    BY <2>2
  <2>3. \A i \in 1 .. n : i # k => i < k \/ i > k
    OBVIOUS
  <2> HIDE DEF old
  <2> QED
    BY <2>1, <2>2, <2>3
<1>4. e \in Emitters /\ ems[e].prev = At(n, m, k - 1) /\ ems[e].next = At(n, m, k + 1)
  BY <1>1 DEF ListsIn, Chain
<1>5. \A i \in 1 .. n : m[i] = e => i = k
  BY DEF ListsIn, Distinct
<1>6. Distinct(n - 1, w)
  <2>1. w \in [1 .. n - 1 -> Emitters]
    <3>1. w = [i \in 1 .. n - 1 |-> w[i]]
      BY DEF Dropped
    <3>2. \A i \in 1 .. n - 1 : w[i] \in Emitters
      <4> HIDE DEF w, old
      <4> QED
        BY <1>1, <1>2
    <3> HIDE DEF w
    <3> QED
      BY <3>1, <3>2
  <2>2. ASSUME NEW i \in 1 .. n - 1, NEW j \in 1 .. n - 1, w[i] = w[j] PROVE i = j
    <3>1. old(i) = old(j)
      <4> HIDE DEF w, old
      <4> QED
        BY <2>2, <1>2 DEF ListsIn, Distinct
    <3> QED
      BY <3>1
  <2> HIDE DEF w
  <2> QED
    BY <2>1, <2>2 DEF Distinct
<1>7. ASSUME NEW i \in 0 .. n PROVE At(n - 1, w, i) = IF i < k THEN At(n, m, i) ELSE At(n, m, i + 1)
  <2>1. CASE i = 0
    BY <2>1 DEF At
  <2>2. CASE i = n
    <3>1. i \notin 1 .. n - 1 /\ i + 1 \notin 1 .. n /\ ~(i < k)
      BY <2>2
    <3> QED
      BY <3>1 DEF At
  <2>3. CASE i \in 1 .. n - 1
    <3>1. CASE i < k
      <4>1. i \in 1 .. n
        BY <2>3
      <4> QED
        BY <3>1, <4>1, <2>3, <1>2 DEF At
    <3>2. CASE ~(i < k)
      <4>1. i + 1 \in 1 .. n
        BY <2>3
      <4> QED
        BY <3>2, <4>1, <2>3, <1>2 DEF At
    <3> QED
      BY <3>1, <3>2
  <2> QED
    BY <2>1, <2>2, <2>3
<1> HIDE DEF w
\* The neighbours of m[k] by their place in the list.
<1>8. ASSUME NEW i \in 1 .. n PROVE (m[i] = At(n, m, k - 1) <=> i = k - 1) /\ (m[i] = At(n, m, k + 1) <=> i = k + 1)
  <2>1. ASSUME NEW j \in 0 .. n + 1 PROVE m[i] = At(n, m, j) <=> i = j
    <3>1. CASE j \in 1 .. n
      BY <3>1 DEF At, ListsIn, Distinct
    <3>2. CASE j \notin 1 .. n
      BY <3>2, <1>0, <1>1 DEF At
    <3> QED
      BY <3>1, <3>2
  <2>2. k - 1 \in 0 .. n + 1 /\ k + 1 \in 0 .. n + 1
    OBVIOUS
  <2> QED
    BY <2>1, <2>2
<1>9. ASSUME NEW i \in 1 .. n, i # k
      PROVE  /\ ems2[m[i]].next = IF i = k - 1 THEN At(n, m, k + 1) ELSE At(n, m, i + 1)
             /\ ems2[m[i]].prev = IF i = k + 1 THEN At(n, m, k - 1) ELSE At(n, m, i - 1)
  <2>1. m[i] # e
    BY <1>5, <1>9
  <2>2. ems[m[i]].next = At(n, m, i + 1) /\ ems[m[i]].prev = At(n, m, i - 1)
    BY DEF ListsIn, Chain
  <2> HIDE DEF e
  <2>3. Removes(ems, hd, ems2, hd2, h, e)
    BY DEF e
  <2> QED
    BY <2>1, <2>2, <2>3, <1>1, <1>4, <1>8 DEF Removes
<1>10. ASSUME NEW i \in 1 .. n - 1 PROVE ems2[w[i]].next = At(n - 1, w, i + 1)
  <2>1. i + 1 \in 0 .. n
    OBVIOUS
  <2>2. old(i) \in 1 .. n /\ old(i) # k /\ w[i] = m[old(i)]
    BY <1>2
  <2>3. At(n - 1, w, i + 1) = IF i + 1 < k THEN At(n, m, i + 1) ELSE At(n, m, i + 1 + 1)
    BY <1>7, <2>1
  <2>4. ems2[w[i]].next = IF old(i) = k - 1 THEN At(n, m, k + 1) ELSE At(n, m, old(i) + 1)
    <3> HIDE DEF old
    <3> QED
      BY <2>2, <1>9
  <2>5. CASE i + 1 < k
    <3>1. old(i) = i /\ i # k - 1
      BY <2>5
    <3> QED
      BY <2>3, <2>4, <2>5, <3>1
  <2>6. CASE i + 1 = k
    <3>1. old(i) = i /\ i = k - 1 /\ i + 1 + 1 = k + 1 /\ ~(i + 1 < k)
      BY <2>6
    <3> QED
      BY <2>3, <2>4, <3>1
  <2>7. CASE i + 1 > k
    <3>1. old(i) = i + 1 /\ i + 1 # k - 1 /\ ~(i + 1 < k)
      BY <2>7
    <3> QED
      BY <2>3, <2>4, <3>1
  <2> QED
    BY <2>5, <2>6, <2>7
<1>11. ASSUME NEW i \in 1 .. n - 1 PROVE ems2[w[i]].prev = At(n - 1, w, i - 1)
  <2>1. i - 1 \in 0 .. n
    OBVIOUS
  <2>2. old(i) \in 1 .. n /\ old(i) # k /\ w[i] = m[old(i)]
    BY <1>2
  <2>3. At(n - 1, w, i - 1) = IF i - 1 < k THEN At(n, m, i - 1) ELSE At(n, m, i - 1 + 1)
    BY <1>7, <2>1
  <2>4. ems2[w[i]].prev = IF old(i) = k + 1 THEN At(n, m, k - 1) ELSE At(n, m, old(i) - 1)
    <3> HIDE DEF old
    <3> QED
      BY <2>2, <1>9
  <2>5. CASE i < k
    <3>1. old(i) = i /\ i # k + 1 /\ i - 1 < k
      BY <2>5
    <3> QED
      BY <2>3, <2>4, <3>1
  <2>6. CASE i = k
    <3>1. old(i) = k + 1 /\ i - 1 = k - 1 /\ i - 1 < k
      BY <2>6
    <3> QED
      BY <2>3, <2>4, <3>1
  <2>7. CASE i > k
    <3>1. old(i) = i + 1 /\ i + 1 # k + 1 /\ ~(i - 1 < k) /\ i + 1 - 1 = i - 1 + 1
      BY <2>7
    <3> QED
      BY <2>3, <2>4, <3>1
  <2> QED
    BY <2>5, <2>6, <2>7
<1>12. Removes(ems, hd, ems2, hd2, h, e)
  OBVIOUS
<1>13. hd.first = At(n, m, 1) /\ hd.last = At(n, m, n)
  BY DEF ListsIn, Chain
<1>14. At(n, m, k - 1) = None <=> k = 1
  <2>1. CASE k = 1
    BY <2>1 DEF At
  <2>2. CASE k # 1
    <3>1. k - 1 \in 1 .. n
      BY <2>2
    <3> QED
      BY <2>2, <3>1, <1>0, <1>1 DEF At
  <2> QED
    BY <2>1, <2>2
<1>15. At(n, m, k + 1) = None <=> k = n
  <2>1. CASE k = n
    <3>1. k + 1 \notin 1 .. n
      BY <2>1
    <3> QED
      BY <2>1, <3>1 DEF At
  <2>2. CASE k # n
    <3>1. k + 1 \in 1 .. n
      BY <2>2
    <3> QED
      BY <2>2, <3>1, <1>0, <1>1 DEF At
  <2> QED
    BY <2>1, <2>2
<1>16. hd2.first = At(n - 1, w, 1)
  <2>1. 1 \in 0 .. n /\ (1 < k <=> k # 1)
    OBVIOUS
  <2>2. At(n - 1, w, 1) = IF 1 < k THEN At(n, m, 1) ELSE At(n, m, 1 + 1)
    BY <2>1, <1>7
  <2> HIDE DEF e
  <2>3. hd2.first = IF k = 1 THEN At(n, m, k + 1) ELSE At(n, m, 1)
    BY <1>4, <1>12, <1>13, <1>14 DEF Removes
  <2> QED
    BY <2>1, <2>2, <2>3
<1>17. hd2.last = At(n - 1, w, n - 1)
  <2>1. n - 1 \in 0 .. n /\ (n - 1 < k <=> k = n) /\ n - 1 + 1 = n
    OBVIOUS
  <2>2. At(n - 1, w, n - 1) = IF n - 1 < k THEN At(n, m, n - 1) ELSE At(n, m, n - 1 + 1)
    BY <2>1, <1>7
  <2> HIDE DEF e
  <2>3. hd2.last = IF k = n THEN At(n, m, k - 1) ELSE At(n, m, n)
    BY <1>4, <1>12, <1>13, <1>15 DEF Removes
  <2> QED
    BY <2>1, <2>2, <2>3
<1>18. ASSUME NEW x \in Emitters PROVE ems2[x].code = h <=> \E i \in 1 .. n - 1 : w[i] = x
  <2>1. CASE x = e
    <3>1. ems2[x].code # h
      BY <2>1, <1>12 DEF Removes
    <3>2. ASSUME NEW i \in 1 .. n - 1, w[i] = x PROVE FALSE
      <4> HIDE DEF old, e
      <4> QED
        BY <3>2, <2>1, <1>2, <1>5
    <3> QED
      BY <3>1, <3>2
  <2>2. CASE x # e
    <3> HIDE DEF old
    <3>1. ems2[x].code = h <=> \E i \in 1 .. n : m[i] = x
      <4> HIDE DEF e
      <4> QED
        BY <2>2, <1>12 DEF Removes, ListsIn
    <3>2. ASSUME NEW i \in 1 .. n, m[i] = x PROVE \E j \in 1 .. n - 1 : w[j] = x
      <4>1. i # k
        BY <3>2, <2>2
      <4>2. PICK j \in 1 .. n - 1 : old(j) = i
        BY <4>1, <1>3
      <4> QED
        BY <3>2, <4>2, <1>2
    <3>3. ASSUME NEW j \in 1 .. n - 1, w[j] = x PROVE \E i \in 1 .. n : m[i] = x
      BY <3>3, <1>2
    <3> QED
      BY <3>1, <3>2, <3>3
  <2> QED
    BY <2>1, <2>2
<1> QED
  BY <1>0, <1>6, <1>10, <1>11, <1>16, <1>17, <1>18 DEF ListsIn, Chain, w

\* Nobody has h as code any more.
LEMMA EmptyList ==
  ASSUME NEW ems, NEW hd, NEW h, hd.first = None, hd.last = None, \A e \in Emitters : ems[e].code # h
  PROVE  ListsIn(ems, hd, h, 0, <<>>)
<1>1. <<>> \in [1 .. 0 -> Emitters] /\ \A i : i \notin 1 .. 0
  OBVIOUS
<1>2. At(0, <<>>, 1) = None /\ At(0, <<>>, 0) = None
  BY DEF At
<1> QED
  BY <1>1, <1>2 DEF ListsIn, Chain, Distinct

-------------------------------------------------------------------------------
(* What the events do to the fields of an emitter *)

BufferType == [data : Nat, cap : Nat, size : Nat]

HolderType ==
  [init : BOOLEAN, first : Links, last : Links,
   set : [Settings -> Holders \cup {None}], bufs : Seq(BufferType)]

EmitterType ==
  [code : Holders \cup {None}, prev : Links, next : Links, attached : BOOLEAN,
   own : [Settings -> BOOLEAN], set : [Settings -> Holders \cup Emitters \cup {None}],
   diag : BOOLEAN, reserved : BOOLEAN, comments : BOOLEAN,
   section : Nat, data : Nat, off : Nat, end : Nat, ready : BOOLEAN]

KeepsLinks(r, q) == q.code = r.code /\ q.prev = r.prev /\ q.next = r.next

KeepsPlace(r, q) ==
  q.section = r.section /\ q.data = r.data /\ q.off = r.off /\ q.end = r.end

KeepsSettings(r, q) ==
  /\ q.attached = r.attached /\ q.own = r.own /\ q.set = r.set
  /\ q.diag = r.diag /\ q.reserved = r.reserved /\ q.comments = r.comments /\ q.ready = r.ready

LEMMA NewEmitterFields ==
  NewEmitter \in EmitterType
BY DEF NewEmitter, EmitterType, Links, Null

LEMMA NewHolderFields ==
  NewHolder \in HolderType /\ EmptyBuffer \in BufferType
BY DEF NewHolder, HolderType, Links, EmptyBuffer, BufferType, Null

\* q is r with the flags its fast path tests.
IsForced(e, r, q) ==
  /\ q \in EmitterType /\ KeepsLinks(r, q) /\ KeepsPlace(r, q)
  /\ q.attached = r.attached /\ q.own = r.own /\ q.set = r.set /\ q.diag = r.diag /\ q.ready = r.ready
  /\ q.reserved <=> (r.code = None \/ r.set["logger"] # None \/ r.diag)
  /\ q.comments <=> r.code # None /\ (e \in Assemblers => r.set["logger"] # None)

LEMMA ForcedFields ==
  ASSUME NEW e, NEW r \in EmitterType, NEW q, q = UpdateForcedOptions(e, r)
  PROVE  IsForced(e, r, q)
BY DEF IsForced, EmitterType, UpdateForcedOptions, KeepsLinks, KeepsPlace

\* q is r after an update of its settings.
IsUpdated(e, r, set, q) ==
  /\ q \in EmitterType /\ KeepsLinks(r, q) /\ KeepsPlace(r, q)
  /\ q.attached = r.attached /\ q.own = r.own /\ q.diag = r.diag /\ q.ready = r.ready
  /\ \A s \in Settings : q.set[s] = IF r.own[s] THEN r.set[s] ELSE set[s]
  /\ q.reserved <=> (r.code = None \/ q.set["logger"] # None \/ r.diag)
  /\ q.comments <=> r.code # None /\ (e \in Assemblers => q.set["logger"] # None)

LEMMA UpdatedFields ==
  ASSUME NEW e, NEW r \in EmitterType, NEW set \in [Settings -> Holders \cup {None}],
         NEW q, q = OnSettingsUpdated(e, r, set)
  PROVE  IsUpdated(e, r, set, q)
<1> DEFINE new == [s \in Settings |-> IF r.own[s] THEN r.set[s] ELSE set[s]]
           u == [r EXCEPT !.set = new]
<1>1. new \in [Settings -> Holders \cup Emitters \cup {None}]
  BY DEF EmitterType
<1>2. q = UpdateForcedOptions(e, u)
  BY DEF OnSettingsUpdated
<1>3. \A s \in Settings : new[s] = IF r.own[s] THEN r.set[s] ELSE set[s]
  OBVIOUS
<1> HIDE DEF new
<1>4. /\ u \in EmitterType /\ KeepsLinks(r, u) /\ KeepsPlace(r, u) /\ u.set = new
      /\ u.attached = r.attached /\ u.own = r.own /\ u.diag = r.diag /\ u.ready = r.ready
  BY <1>1 DEF EmitterType, KeepsLinks, KeepsPlace
<1> HIDE DEF u
<1>5. IsForced(e, u, q)
  BY <1>2, <1>4, ForcedFields
<1> QED
  BY <1>3, <1>4, <1>5 DEF IsForced, IsUpdated, KeepsLinks, KeepsPlace

LEMMA SectionFields ==
  ASSUME NEW r \in EmitterType, NEW i \in Nat, NEW b \in BufferType, NEW q, q = InitSection(r, i, b)
  PROVE  /\ q \in EmitterType /\ KeepsLinks(r, q) /\ KeepsSettings(r, q)
         /\ q.section = i /\ q.data = b.data /\ q.off = b.size /\ q.end = b.cap
BY DEF EmitterType, BufferType, InitSection, KeepsLinks, KeepsSettings

\* q is r after the event of being detached.
IsDetached(r, q) ==
  /\ q \in EmitterType /\ KeepsLinks(r, q)
  /\ ~q.attached /\ q.own = r.own /\ q.diag = r.diag /\ q.reserved /\ ~q.comments /\ ~q.ready
  /\ \A s \in Settings : q.set[s] = IF r.own[s] THEN r.set[s] ELSE None

LEMMA DetachedFields ==
  ASSUME NEW r \in EmitterType
  PROVE  IsDetached(r, OnDetach(r))
BY DEF IsDetached, EmitterType, OnDetach, KeepsLinks, Null

\* q is r after the event of being attached to h.
IsAttached(e, r, h, q) ==
  /\ q \in EmitterType /\ q.code = h /\ q.prev = r.prev /\ q.next = r.next
  /\ q.attached /\ q.own = r.own /\ q.diag = r.diag
  /\ \A s \in Settings : q.set[s] = IF r.own[s] THEN r.set[s] ELSE holder[h].set[s]
  /\ q.reserved <=> (q.set["logger"] # None \/ r.diag)
  /\ q.comments <=> (e \in Assemblers => q.set["logger"] # None)
  /\ e \in Assemblers =>
       /\ q.section = 1 /\ q.ready = r.ready
       /\ q.data = holder[h].bufs[1].data /\ q.off = holder[h].bufs[1].size
       /\ q.end = holder[h].bufs[1].cap
  /\ e \notin Assemblers => q.ready

LEMMA AttachedFields ==
  ASSUME NEW e, NEW r \in EmitterType, NEW h \in Holders,
         holder[h] \in HolderType, Len(holder[h].bufs) >= 1,
         NEW q, q = OnAttach(e, r, h)
  PROVE  IsAttached(e, r, h, q)
<1>0. h # None
  BY CodeEmittersAssumption
<1> DEFINE o == [r EXCEPT !.code = h, !.attached = TRUE]
           a == OnSettingsUpdated(e, o, holder[h].set)
<1>1. /\ o \in EmitterType /\ o.code = h /\ o.attached /\ o.prev = r.prev /\ o.next = r.next /\ KeepsPlace(r, o)
      /\ o.own = r.own /\ o.set = r.set /\ o.diag = r.diag /\ o.ready = r.ready
  BY DEF EmitterType, KeepsPlace
<1>2. holder[h].set \in [Settings -> Holders \cup {None}]
  BY DEF HolderType
<1>3. holder[h].bufs[1] \in BufferType
  <2>1. holder[h].bufs \in Seq(BufferType)
    BY DEF HolderType
  <2>2. 1 \in 1 .. Len(holder[h].bufs)
    BY <2>1, LenProperties
  <2> QED
    BY <2>1, <2>2, ElementOfSeq
<1>4. q = IF e \in Assemblers THEN InitSection(a, 1, holder[h].bufs[1]) ELSE [a EXCEPT !.ready = TRUE]
  BY DEF OnAttach
<1> DEFINE set == holder[h].set
<1>8. a = OnSettingsUpdated(e, o, set) /\ o \in EmitterType /\ set \in [Settings -> Holders \cup {None}]
  BY <1>1, <1>2
<1> HIDE DEF o, a, set
<1>9. IsUpdated(e, o, set, a)
  BY <1>8, UpdatedFields
<1>5. /\ a \in EmitterType /\ KeepsLinks(o, a) /\ KeepsPlace(o, a)
      /\ a.attached = o.attached /\ a.own = o.own /\ a.diag = o.diag /\ a.ready = o.ready
      /\ \A s \in Settings : a.set[s] = IF o.own[s] THEN o.set[s] ELSE holder[h].set[s]
      /\ a.reserved <=> (o.code = None \/ a.set["logger"] # None \/ o.diag)
      /\ a.comments <=> o.code # None /\ (e \in Assemblers => a.set["logger"] # None)
  BY <1>9 DEF set, IsUpdated
<1>6. CASE e \in Assemblers
  <2>1. q = InitSection(a, 1, holder[h].bufs[1]) /\ 1 \in Nat
    BY <1>4, <1>6
  <2>2. /\ q \in EmitterType /\ KeepsLinks(a, q) /\ KeepsSettings(a, q)
        /\ q.section = 1 /\ q.data = holder[h].bufs[1].data /\ q.off = holder[h].bufs[1].size
        /\ q.end = holder[h].bufs[1].cap
    BY <1>3, <1>5, <2>1, SectionFields
  <2> QED
    BY <1>0, <1>1, <1>5, <1>6, <2>2 DEF KeepsLinks, KeepsSettings, IsAttached
<1>7. CASE e \notin Assemblers
  <2>1. q = [a EXCEPT !.ready = TRUE]
    BY <1>4, <1>7
  <2>2. /\ q \in EmitterType /\ KeepsLinks(a, q) /\ q.ready /\ q.attached = a.attached /\ q.own = a.own
        /\ q.set = a.set /\ q.diag = a.diag /\ q.reserved = a.reserved /\ q.comments = a.comments
    BY <2>1, <1>5 DEF EmitterType, KeepsLinks
  <2> QED
    BY ZenonT(60), <1>0, <1>1, <1>5, <1>7, <2>2 DEF KeepsLinks, IsAttached
<1> QED
  BY <1>6, <1>7

\* Taking e out of the links; what it does to the links of the others.
LEMMA UnlinkFields ==
  ASSUME NEW ems \in [Emitters -> EmitterType], NEW e \in Emitters
  PROVE  /\ Unlink(ems, e) \in [Emitters -> EmitterType]
         /\ Unlink(ems, e)[e].code = None /\ Unlink(ems, e)[e].prev = None /\ Unlink(ems, e)[e].next = None
         /\ \A x \in Emitters : KeepsPlace(ems[x], Unlink(ems, e)[x]) /\ KeepsSettings(ems[x], Unlink(ems, e)[x])
         /\ \A x \in Emitters : x # e =>
              /\ Unlink(ems, e)[x].code = ems[x].code
              /\ Unlink(ems, e)[x].next = IF x = ems[e].prev THEN ems[e].next ELSE ems[x].next
              /\ Unlink(ems, e)[x].prev = IF x = ems[e].next THEN ems[e].prev ELSE ems[x].prev
<1> DEFINE p == ems[e].prev
           n == ems[e].next
           back == IF p = None THEN ems ELSE [ems EXCEPT ![p].next = n]
           both == IF n = None THEN back ELSE [back EXCEPT ![n].prev = p]
           new == [both EXCEPT ![e].code = None, ![e].prev = None, ![e].next = None]
           Same(f, g) == \A x \in Emitters : /\ g[x].code = f[x].code
                                             /\ KeepsPlace(f[x], g[x]) /\ KeepsSettings(f[x], g[x])
<1>0. None \notin Emitters /\ p \in Links /\ n \in Links
  BY CodeEmittersAssumption DEF EmitterType
<1>1. /\ back \in [Emitters -> EmitterType] /\ Same(ems, back)
      /\ \A x \in Emitters : back[x].prev = ems[x].prev /\ back[x].next = IF x = p THEN n ELSE ems[x].next
  <2> HIDE DEF p, n
  <2>1. CASE p = None
    BY <2>1, <1>0 DEF KeepsPlace, KeepsSettings
  <2>2. CASE p # None
    <3>1. p \in Emitters
      BY <1>0, <2>2 DEF Links
    <3>2. back = [ems EXCEPT ![p].next = n]
      BY <2>2
    <3> QED
      BY <1>0, <3>1, <3>2 DEF EmitterType, KeepsPlace, KeepsSettings
  <2> QED
    BY <2>1, <2>2
<1>2. /\ both \in [Emitters -> EmitterType] /\ Same(back, both)
      /\ \A x \in Emitters : both[x].next = back[x].next /\ both[x].prev = IF x = n THEN p ELSE back[x].prev
  <2> HIDE DEF p, n, back
  <2>1. CASE n = None
    BY <2>1, <1>0, <1>1 DEF KeepsPlace, KeepsSettings
  <2>2. CASE n # None
    <3>1. n \in Emitters
      BY <1>0, <2>2 DEF Links
    <3> DEFINE r == back[n]
               q == [r EXCEPT !.prev = p]
    <3>2. r \in EmitterType
      BY <1>1, <3>1
    <3>3. q \in EmitterType /\ q.code = r.code /\ q.next = r.next /\ q.prev = p /\ KeepsPlace(r, q) /\ KeepsSettings(r, q)
      <4> HIDE DEF r
      <4> QED
        BY <1>0, <3>2 DEF EmitterType, KeepsPlace, KeepsSettings
    <3>4. both = [back EXCEPT ![n] = q]
      BY <2>2
    <3> HIDE DEF q
    <3>5. \A x \in Emitters : both[x] = IF x = n THEN q ELSE back[x]
      BY <1>1, <3>4
    <3>6. both \in [Emitters -> EmitterType]
      BY <1>1, <3>3, <3>4
    <3> QED
      BY <3>1, <3>3, <3>5, <3>6 DEF KeepsPlace, KeepsSettings
  <2> QED
    BY <2>1, <2>2
<1>3. /\ new \in [Emitters -> EmitterType]
      /\ new[e].code = None /\ new[e].prev = None /\ new[e].next = None
      /\ \A x \in Emitters : KeepsPlace(both[x], new[x]) /\ KeepsSettings(both[x], new[x])
      /\ \A x \in Emitters : x # e => new[x] = both[x]
  <2> HIDE DEF both
  <2> DEFINE r == both[e]
             q == [r EXCEPT !.code = None, !.prev = None, !.next = None]
  <2>1. r \in EmitterType
    BY <1>2
  <2>2. q \in EmitterType /\ q.code = None /\ q.next = None /\ q.prev = None /\ KeepsPlace(r, q) /\ KeepsSettings(r, q)
    <3> HIDE DEF r
    <3> QED
      BY <2>1 DEF EmitterType, KeepsPlace, KeepsSettings, Links
  <2>3. new = [both EXCEPT ![e] = q]
    BY <1>2
  <2> HIDE DEF q
  <2> HIDE DEF new
  <2>4. \A x \in Emitters : new[x] = IF x = e THEN q ELSE both[x]
    BY <1>2, <2>3
  <2>5. new \in [Emitters -> EmitterType]
    BY <1>2, <2>2, <2>3
  <2> QED
    BY <2>2, <2>4, <2>5 DEF KeepsPlace, KeepsSettings
<1>4. Unlink(ems, e) = new
  BY DEF Unlink
<1> HIDE DEF back, both, new
<1> QED
  BY <1>1, <1>2, <1>3, <1>4 DEF KeepsPlace, KeepsSettings

-------------------------------------------------------------------------------
(* The inductive invariant *)

TypeOK ==
  /\ holder \in [Holders -> HolderType]
  /\ emitter \in [Emitters -> EmitterType]
  /\ \A h \in Holders : Len(holder[h].bufs) \in 1 .. MaxSections
  /\ live \subseteq Nat \ {Null} /\ IsFiniteSet(live)

Lists(h, n, m) == ListsIn(emitter, holder[h], h, n, m)

\* Every holder has a list, linked both ways, of those whose code it is.
Linked == \A h \in Holders : \E n \in Nat : \E m : Lists(h, n, m)

FreeUnlinked ==
  \A e \in Emitters : emitter[e].code = None => emitter[e].prev = None /\ emitter[e].next = None

OnlyInitialized == \A e \in Emitters : emitter[e].code # None => holder[emitter[e].code].init

\* Nothing is written behind the end of a buffer.
BuffersFit ==
  \A h \in Holders : \A i \in DOMAIN holder[h].bufs : holder[h].bufs[i].size <= holder[h].bufs[i].cap

\* MemoryAccounted, place by place.
DataAreLive ==
  \A h \in Holders : \A i \in DOMAIN holder[h].bufs :
    holder[h].bufs[i].data # Null => holder[h].bufs[i].data \in live

LiveHasPlace ==
  \A d \in live : \E h \in Holders : \E i \in DOMAIN holder[h].bufs : holder[h].bufs[i].data = d

OnePlaceEach ==
  \A h, k \in Holders : \A i \in DOMAIN holder[h].bufs, j \in DOMAIN holder[k].bufs :
    holder[h].bufs[i].data # Null /\ holder[h].bufs[i].data = holder[k].bufs[j].data => h = k /\ i = j

MemoryInv == DataAreLive /\ LiveHasPlace /\ OnePlaceEach

LinksInv == Linked /\ FreeUnlinked /\ OnlyInitialized

PointersInv == PointersAgree /\ BuffersFit

IInv == TypeOK /\ LinksInv /\ PointersInv /\ MemoryInv

\* The walk down the list of h is the list.
LEMMA MembersAreList ==
  ASSUME TypeOK, NEW h \in Holders, NEW n \in Nat, NEW m, Lists(h, n, m)
  PROVE  Members(h) = m
<1>1. HasLinks(emitter)
  BY DEF TypeOK, EmitterType, HasLinks
<1>2. Distinct(n, m) /\ Chain(emitter, holder[h].first, n, m)
  BY DEF Lists, ListsIn
<1> QED
  BY <1>1, <1>2, WalkIsChain DEF Members

LEMMA ListedHaveCode ==
  ASSUME TypeOK, Linked, NEW h \in Holders
  PROVE  Listed(h) = {e \in Emitters : emitter[e].code = h}
<1>1. PICK n \in Nat : \E m : Lists(h, n, m)
  BY DEF Linked
<1>2. PICK m : Lists(h, n, m)
  BY <1>1
<1>3. Members(h) = m
  BY <1>2, MembersAreList
<1>4. m \in [1 .. n -> Emitters] /\ \A e \in Emitters : emitter[e].code = h <=> \E i \in 1 .. n : m[i] = e
  BY <1>2 DEF Lists, ListsIn, Distinct
<1>5. Range(m) = {e \in Emitters : emitter[e].code = h}
  BY <1>4 DEF Range
<1> QED
  BY <1>3, <1>5 DEF Listed

-------------------------------------------------------------------------------
(* What a step does to the lists *)

Keeps(h) == \A n \in Nat : \A m : Lists(h, n, m) => Lists(h, n, m)'

Joins(h, e) ==
  /\ emitter[e].code = None
  /\ \A k \in Holders : k # h => Keeps(k)
  /\ \A n \in Nat : \A m : Lists(h, n, m) => Lists(h, n + 1, Pushed(n, m, e))'

Leaves(h, e) ==
  /\ emitter[e].code = h
  /\ \A k \in Holders : k # h => Keeps(k)
  /\ \A n \in Nat : \A m : \A i \in 1 .. n :
       Lists(h, n, m) /\ m[i] = e => Lists(h, n - 1, Dropped(n, m, i))'

Dissolves(h) ==
  /\ \A k \in Holders : k # h => Keeps(k)
  /\ Lists(h, 0, <<>>)'

ListStep ==
  \/ \A h \in Holders : Keeps(h)
  \/ \E h \in Holders, e \in Emitters : Joins(h, e)
  \/ \E h \in Holders, e \in Emitters : Leaves(h, e)
  \/ \E h \in Holders : Dissolves(h)

LEMMA KeepsLinked ==
  ASSUME Linked, NEW k \in Holders, Keeps(k)
  PROVE  \E n \in Nat : \E m : Lists(k, n, m)'
BY DEF Linked, Keeps

LEMMA ListStepLinked ==
  ASSUME Linked, ListStep
  PROVE  Linked'
<1>1. SUFFICES ASSUME NEW k \in Holders PROVE \E n \in Nat : \E m : Lists(k, n, m)'
  BY DEF Linked
<1>2. PICK n \in Nat : \E m : Lists(k, n, m)
  BY DEF Linked
<1>3. PICK m : Lists(k, n, m)
  BY <1>2
<1>4. CASE Keeps(k)
  BY <1>4, KeepsLinked
<1>5. ASSUME NEW e \in Emitters, Joins(k, e) PROVE \E i \in Nat : \E w : Lists(k, i, w)'
  <2>1. Lists(k, n + 1, Pushed(n, m, e))' /\ n + 1 \in Nat
    BY <1>3, <1>5 DEF Joins
  <2> QED
    BY <2>1
<1>6. ASSUME NEW e \in Emitters, Leaves(k, e) PROVE \E i \in Nat : \E w : Lists(k, i, w)'
  <2>1. PICK i \in 1 .. n : m[i] = e
    BY <1>3, <1>6 DEF Leaves, Lists, ListsIn
  <2>2. Lists(k, n - 1, Dropped(n, m, i))' /\ n - 1 \in Nat
    BY <1>3, <1>6, <2>1 DEF Leaves
  <2> QED
    BY <2>2
<1>7. CASE Dissolves(k)
  BY <1>7 DEF Dissolves
<1> QED
  BY <1>4, <1>5, <1>6, <1>7 DEF ListStep, Joins, Leaves, Dissolves

LEMMA SameListKeeps ==
  ASSUME NEW k \in Holders, SameList(emitter, holder[k], emitter', holder'[k], k)
  PROVE  Keeps(k)
BY SameListKept DEF Keeps, Lists

\* Steps that leave all links alone.
LinksUntouched ==
  /\ \A h \in Holders :
       /\ holder'[h].first = holder[h].first /\ holder'[h].last = holder[h].last
       /\ holder[h].init => holder'[h].init
  /\ \A e \in Emitters : KeepsLinks(emitter[e], emitter'[e])

LEMMA LinksUntouchedStep ==
  ASSUME TypeOK, LinksInv, LinksUntouched
  PROVE  ListStep /\ LinksInv'
<1>1. ASSUME NEW k \in Holders PROVE Keeps(k)
  <2>1. SameList(emitter, holder[k], emitter', holder'[k], k)
    BY DEF LinksUntouched, SameList, KeepsLinks
  <2> QED
    BY <2>1, SameListKeeps
<1>2. ListStep
  BY <1>1 DEF ListStep
<1>3. Linked'
  BY <1>2, ListStepLinked DEF LinksInv
<1>4. FreeUnlinked'
  BY DEF LinksInv, FreeUnlinked, LinksUntouched, KeepsLinks
<1>5. OnlyInitialized'
  <2>1. ASSUME NEW e \in Emitters, emitter'[e].code # None PROVE holder'[emitter'[e].code].init
    <3>1. emitter[e].code = emitter'[e].code
      BY DEF LinksUntouched, KeepsLinks
    <3>2. emitter[e].code \in Holders
      BY <2>1, <3>1 DEF TypeOK, EmitterType
    <3>3. holder[emitter[e].code].init
      BY <2>1, <3>1 DEF LinksInv, OnlyInitialized
    <3> QED
      BY <3>1, <3>2, <3>3 DEF LinksUntouched
  <2> QED
    BY <2>1 DEF OnlyInitialized
<1> QED
  BY <1>2, <1>3, <1>4, <1>5 DEF LinksInv

\* Where the links of a member lead: to members of the same holder.
LEMMA NeighboursHaveCode ==
  ASSUME TypeOK, Linked, NEW h \in Holders
  PROVE  /\ holder[h].last # None => holder[h].last \in Emitters /\ emitter[holder[h].last].code = h
         /\ holder[h].first # None => holder[h].first \in Emitters /\ emitter[holder[h].first].code = h
         /\ \A e \in Emitters : emitter[e].code = h =>
              /\ emitter[e].prev # None => emitter[e].prev \in Emitters /\ emitter[emitter[e].prev].code = h
              /\ emitter[e].next # None => emitter[e].next \in Emitters /\ emitter[emitter[e].next].code = h
<1>1. PICK n \in Nat : \E m : Lists(h, n, m)
  BY DEF Linked
<1>2. PICK m : Lists(h, n, m)
  BY <1>1
<1>3. \A i : At(n, m, i) # None => At(n, m, i) \in Emitters /\ emitter[At(n, m, i)].code = h
  <2>1. \A i \in 1 .. n : m[i] \in Emitters /\ emitter[m[i]].code = h
    BY <1>2 DEF Lists, ListsIn, Distinct
  <2> QED
    BY <2>1 DEF At
<1>4. holder[h].last = At(n, m, n) /\ holder[h].first = At(n, m, 1)
  BY <1>2 DEF Lists, ListsIn, Chain
<1>5. ASSUME NEW e \in Emitters, emitter[e].code = h
      PROVE  \E i \in 1 .. n : emitter[e].prev = At(n, m, i - 1) /\ emitter[e].next = At(n, m, i + 1)
  <2>1. PICK i \in 1 .. n : m[i] = e
    BY <1>2, <1>5 DEF Lists, ListsIn
  <2>2. emitter[m[i]].prev = At(n, m, i - 1) /\ emitter[m[i]].next = At(n, m, i + 1)
    BY <1>2 DEF Lists, ListsIn, Chain
  <2> QED
    BY <2>1, <2>2
<1> QED
  BY <1>3, <1>4, <1>5

LEMMA JoinStep ==
  ASSUME TypeOK, LinksInv, NEW h \in Holders, NEW e \in Emitters,
         emitter[e].code = None, holder[h].init, holder'[h].init,
         Adds(emitter, holder[h], emitter', holder'[h], h, e),
         \A k \in Holders : k # h => holder'[k] = holder[k]
  PROVE  ListStep /\ LinksInv'
<1>0. None \notin Emitters /\ None \notin Holders /\ Linked
  BY CodeEmittersAssumption DEF LinksInv
<1>1. ASSUME NEW k \in Holders, k # h PROVE Keeps(k)
  <2>1. ASSUME NEW x \in Emitters, emitter[x].code = k
        PROVE  emitter'[x].code = k /\ emitter'[x].prev = emitter[x].prev /\ emitter'[x].next = emitter[x].next
    <3>1. x # e /\ x # holder[h].last
      BY <1>0, <1>1, <2>1, NeighboursHaveCode
    <3> QED
      BY <2>1, <3>1 DEF Adds
  <2>2. ASSUME NEW x \in Emitters, emitter'[x].code = k PROVE emitter[x].code = k
    BY <1>1, <2>2 DEF Adds
  <2>3. SameList(emitter, holder[k], emitter', holder'[k], k)
    BY <1>1, <2>1, <2>2 DEF SameList
  <2> QED
    BY <2>3, SameListKeeps
<1>2. ASSUME NEW n \in Nat, NEW m, Lists(h, n, m) PROVE Lists(h, n + 1, Pushed(n, m, e))'
  BY <1>2, AddedToList DEF Lists
<1>3. Joins(h, e)
  BY <1>1, <1>2 DEF Joins
<1>4. ListStep
  BY <1>3 DEF ListStep
<1>5. Linked'
  BY <1>0, <1>4, ListStepLinked
<1>6. FreeUnlinked'
  <2>1. ASSUME NEW x \in Emitters, emitter'[x].code = None
        PROVE  emitter'[x].prev = None /\ emitter'[x].next = None
    <3>1. x # e
      BY <1>0, <2>1 DEF Adds
    <3>2. emitter[x].code = None
      BY <2>1, <3>1 DEF Adds
    <3>3. x # holder[h].last
      BY <1>0, <3>2, NeighboursHaveCode
    <3> QED
      BY <3>1, <3>2, <3>3 DEF Adds, LinksInv, FreeUnlinked
  <2> QED
    BY <2>1 DEF FreeUnlinked
<1>7. OnlyInitialized'
  <2>1. ASSUME NEW x \in Emitters, emitter'[x].code # None PROVE holder'[emitter'[x].code].init
    <3>1. CASE x = e
      BY <3>1 DEF Adds
    <3>2. CASE x # e
      <4>1. emitter'[x].code = emitter[x].code
        BY <3>2 DEF Adds
      <4>2. emitter[x].code \in Holders /\ holder[emitter[x].code].init
        BY <2>1, <4>1 DEF TypeOK, EmitterType, LinksInv, OnlyInitialized
      <4> QED
        BY <4>1, <4>2
    <3> QED
      BY <3>1, <3>2
  <2> QED
    BY <2>1 DEF OnlyInitialized
<1> QED
  BY <1>4, <1>5, <1>6, <1>7 DEF LinksInv

LEMMA LeaveStep ==
  ASSUME TypeOK, LinksInv, NEW h \in Holders, NEW e \in Emitters,
         emitter[e].code = h, holder'[h].init = holder[h].init,
         emitter'[e].code = None, emitter'[e].prev = None, emitter'[e].next = None,
         Removes(emitter, holder[h], emitter', holder'[h], h, e),
         \A k \in Holders : k # h => holder'[k] = holder[k]
  PROVE  ListStep /\ LinksInv'
<1>0. None \notin Emitters /\ None \notin Holders /\ Linked
  BY CodeEmittersAssumption DEF LinksInv
<1>1. ASSUME NEW x \in Emitters, emitter[x].code # h
      PROVE  KeepsLinks(emitter[x], emitter'[x])
  <2>1. x # e /\ x # emitter[e].prev /\ x # emitter[e].next
    BY <1>0, <1>1, NeighboursHaveCode
  <2> QED
    BY <2>1 DEF Removes, KeepsLinks
<1>2. ASSUME NEW x \in Emitters, x # e PROVE emitter'[x].code = emitter[x].code
  BY <1>2 DEF Removes
<1>3. ASSUME NEW k \in Holders, k # h PROVE Keeps(k)
  <2>1. SameList(emitter, holder[k], emitter', holder'[k], k)
    BY <1>0, <1>1, <1>2, <1>3 DEF SameList, KeepsLinks
  <2> QED
    BY <2>1, SameListKeeps
<1>4. ASSUME NEW n \in Nat, NEW m, NEW i \in 1 .. n, Lists(h, n, m), m[i] = e
      PROVE  Lists(h, n - 1, Dropped(n, m, i))'
  <2>1. ListsIn(emitter, holder[h], h, n, m) /\ Removes(emitter, holder[h], emitter', holder'[h], h, m[i])
    BY <1>4 DEF Lists
  <2> QED
    BY <2>1, RemovedFromList DEF Lists
<1>5. Leaves(h, e)
  BY <1>3, <1>4 DEF Leaves
<1>6. ListStep
  BY <1>5 DEF ListStep
<1>7. Linked'
  BY <1>0, <1>6, ListStepLinked
<1>8. FreeUnlinked'
  <2>1. ASSUME NEW x \in Emitters, emitter'[x].code = None
        PROVE  emitter'[x].prev = None /\ emitter'[x].next = None
    <3>1. CASE x = e
      BY <3>1
    <3>2. CASE x # e
      BY <1>0, <1>1, <1>2, <2>1, <3>2 DEF LinksInv, FreeUnlinked, KeepsLinks
    <3> QED
      BY <3>1, <3>2
  <2> QED
    BY <2>1 DEF FreeUnlinked
<1>9. OnlyInitialized'
  <2>1. ASSUME NEW x \in Emitters, emitter'[x].code # None PROVE holder'[emitter'[x].code].init
    <3>1. emitter'[x].code = emitter[x].code
      BY <2>1, <1>2
    <3>2. emitter[x].code \in Holders /\ holder[emitter[x].code].init
      BY <2>1, <3>1 DEF TypeOK, EmitterType, LinksInv, OnlyInitialized
    <3> QED
      BY <3>1, <3>2
  <2> QED
    BY <2>1 DEF OnlyInitialized
<1> QED
  BY <1>6, <1>7, <1>8, <1>9 DEF LinksInv

\* All members of h are released, the others left alone.
Frees(h) ==
  \A e \in Emitters :
    IF emitter[e].code = h
    THEN emitter'[e].code = None /\ emitter'[e].prev = None /\ emitter'[e].next = None
    ELSE emitter'[e] = emitter[e]

LEMMA DissolveStep ==
  ASSUME TypeOK, LinksInv, NEW h \in Holders,
         Frees(h), holder'[h].first = None, holder'[h].last = None,
         \A k \in Holders : k # h => holder'[k] = holder[k]
  PROVE  ListStep /\ LinksInv'
<1>0. None \notin Emitters /\ None \notin Holders /\ Linked
  BY CodeEmittersAssumption DEF LinksInv
<1>1. \A x \in Emitters : emitter'[x].code # h
  BY <1>0 DEF Frees
<1>2. ASSUME NEW k \in Holders, k # h PROVE Keeps(k)
  <2>1. SameList(emitter, holder[k], emitter', holder'[k], k)
    BY <1>0, <1>2 DEF SameList, Frees
  <2> QED
    BY <2>1, SameListKeeps
<1>3. Lists(h, 0, <<>>)'
  BY <1>1, EmptyList DEF Lists
<1>4. ListStep
  BY <1>2, <1>3 DEF ListStep, Dissolves
<1>5. Linked'
  BY <1>0, <1>4, ListStepLinked
<1>6. FreeUnlinked'
  BY DEF FreeUnlinked, LinksInv, Frees
<1>7. OnlyInitialized'
  <2>1. ASSUME NEW x \in Emitters, emitter'[x].code # None PROVE holder'[emitter'[x].code].init
    <3>1. emitter'[x] = emitter[x] /\ emitter[x].code # h
      BY <2>1 DEF Frees
    <3>2. emitter[x].code \in Holders /\ holder[emitter[x].code].init
      BY <2>1, <3>1 DEF TypeOK, EmitterType, LinksInv, OnlyInitialized
    <3> QED
      BY <3>1, <3>2
  <2> QED
    BY <2>1 DEF OnlyInitialized
<1> QED
  BY <1>4, <1>5, <1>6, <1>7 DEF LinksInv

-------------------------------------------------------------------------------
(* What a step does to the allocations *)

\* One holder's buffers become others; before and after are what is allocated.
Moves(old, new, before, after) ==
  /\ \A i \in DOMAIN new : new[i].data # Null =>
       new[i].data \in after /\ (new[i].data \notin before \/ \E j \in DOMAIN old : old[j].data = new[i].data)
  /\ \A i, j \in DOMAIN new : new[i].data # Null /\ new[i].data = new[j].data => i = j
  /\ \A d \in after :
       \/ d \in before /\ \A j \in DOMAIN old : old[j].data # d
       \/ \E i \in DOMAIN new : new[i].data = d
  /\ \A d \in before : d \in after \/ \E j \in DOMAIN old : old[j].data = d

LEMMA MovesKeepMemory ==
  ASSUME MemoryInv, NEW h \in Holders,
         Moves(holder[h].bufs, holder'[h].bufs, live, live'),
         \A k \in Holders : k # h => holder'[k].bufs = holder[k].bufs
  PROVE  MemoryInv'
<1> DEFINE old == holder[h].bufs
           new == holder'[h].bufs
<1>1. DataAreLive'
  <2>1. ASSUME NEW k \in Holders, NEW i \in DOMAIN holder'[k].bufs, holder'[k].bufs[i].data # Null
        PROVE  holder'[k].bufs[i].data \in live'
    <3>1. CASE k = h
      BY <2>1, <3>1 DEF Moves
    <3>2. CASE k # h
      <4>1. holder'[k].bufs = holder[k].bufs
        BY <3>2
      <4>2. holder[k].bufs[i].data \in live
        BY <2>1, <4>1 DEF MemoryInv, DataAreLive
      <4>3. \A j \in DOMAIN old : old[j].data # holder[k].bufs[i].data
        BY <2>1, <3>2, <4>1 DEF MemoryInv, OnePlaceEach
      <4> QED
        BY <4>1, <4>2, <4>3 DEF Moves
    <3> QED
      BY <3>1, <3>2
  <2> QED
    BY <2>1 DEF DataAreLive
<1>2. LiveHasPlace'
  <2>1. ASSUME NEW d \in live' PROVE \E k \in Holders : \E i \in DOMAIN holder'[k].bufs : holder'[k].bufs[i].data = d
    <3>1. CASE \E i \in DOMAIN new : new[i].data = d
      BY <3>1
    <3>2. CASE d \in live /\ \A j \in DOMAIN old : old[j].data # d
      <4>1. PICK k \in Holders : \E i \in DOMAIN holder[k].bufs : holder[k].bufs[i].data = d
        BY <3>2 DEF MemoryInv, LiveHasPlace
      <4>2. k # h
        BY <3>2, <4>1
      <4> QED
        BY <4>1, <4>2
    <3> QED
      BY <3>1, <3>2 DEF Moves
  <2> QED
    BY <2>1 DEF LiveHasPlace
<1>3. OnePlaceEach'
  <2>1. ASSUME NEW k \in Holders, k # h, NEW i \in DOMAIN new, NEW j \in DOMAIN holder[k].bufs,
               new[i].data # Null, new[i].data = holder[k].bufs[j].data
        PROVE  FALSE
    <3>1. holder[k].bufs[j].data \in live
      BY <2>1 DEF MemoryInv, DataAreLive
    <3>2. PICK x \in DOMAIN old : old[x].data = new[i].data
      BY <2>1, <3>1 DEF Moves
    <3> QED
      BY <2>1, <3>2 DEF MemoryInv, OnePlaceEach
  <2>2. ASSUME NEW k \in Holders, NEW l \in Holders,
               NEW i \in DOMAIN holder'[k].bufs, NEW j \in DOMAIN holder'[l].bufs,
               holder'[k].bufs[i].data # Null, holder'[k].bufs[i].data = holder'[l].bufs[j].data
        PROVE  k = l /\ i = j
    <3>1. CASE k = h /\ l = h
      BY <2>2, <3>1 DEF Moves
    <3>2. CASE k = h /\ l # h
      BY <2>1, <2>2, <3>2
    <3>3. CASE k # h /\ l = h
      BY <2>1, <2>2, <3>3
    <3>4. CASE k # h /\ l # h
      <4>1. holder'[k].bufs = holder[k].bufs /\ holder'[l].bufs = holder[l].bufs
        BY <3>4
      <4> QED
        BY <2>2, <4>1 DEF MemoryInv, OnePlaceEach
    <3> QED
      BY <3>1, <3>2, <3>3, <3>4
  <2> QED
    BY <2>2 DEF OnePlaceEach
<1> QED
  BY <1>1, <1>2, <1>3 DEF MemoryInv

\* The buffers of one holder, apart from the others.
OwnMemory(bufs, used) ==
  /\ \A i \in DOMAIN bufs : bufs[i].data # Null => bufs[i].data \in used
  /\ \A i, j \in DOMAIN bufs : bufs[i].data # Null /\ bufs[i].data = bufs[j].data => i = j
  /\ Null \notin used

LEMMA HolderMemory ==
  ASSUME TypeOK, MemoryInv, NEW h \in Holders
  PROVE  OwnMemory(holder[h].bufs, live)
<1>1. \A i \in DOMAIN holder[h].bufs : holder[h].bufs[i].data # Null => holder[h].bufs[i].data \in live
  BY DEF MemoryInv, DataAreLive
<1>2. ASSUME NEW i \in DOMAIN holder[h].bufs, NEW j \in DOMAIN holder[h].bufs,
             holder[h].bufs[i].data # Null, holder[h].bufs[i].data = holder[h].bufs[j].data
      PROVE  i = j
  BY <1>2 DEF MemoryInv, OnePlaceEach
<1>3. Null \notin live
  BY DEF TypeOK
<1> QED
  BY <1>1, <1>2, <1>3 DEF OwnMemory

\* A reset leaves .text alone, or nothing, and frees the rest.
LEMMA ResetMoves ==
  ASSUME NEW old, NEW used, OwnMemory(old, used), 1 \in DOMAIN old, NEW hard \in BOOLEAN,
         NEW text, text.data = IF hard THEN Null ELSE old[1].data
  PROVE  Moves(old, <<text>>, used, used \ Released(old, hard))
<1> DEFINE new == <<text>>
           after == used \ Released(old, hard)
<1>1. DOMAIN new = {1} /\ new[1] = text
  OBVIOUS
<1> HIDE DEF new
<1>2. ASSUME text.data # Null PROVE text.data \in after /\ text.data = old[1].data
  <2>1. ~hard /\ text.data = old[1].data
    BY <1>2
  <2>2. \A i \in DOMAIN old \ {1} : old[i].data # old[1].data
    BY <1>2, <2>1 DEF OwnMemory
  <2>3. text.data \in used
    BY <1>2, <2>1 DEF OwnMemory
  <2> QED
    BY <2>1, <2>2, <2>3 DEF Released
<1>3. ASSUME NEW d \in after PROVE d \in used /\ ((\A j \in DOMAIN old : old[j].data # d) \/ text.data = d)
  <2>1. CASE hard
    BY <2>1 DEF Released
  <2>2. CASE ~hard
    <3>1. \A j \in DOMAIN old : j # 1 => old[j].data # d
      BY <2>2 DEF Released
    <3> QED
      BY <2>2, <3>1
  <2> QED
    BY <2>1, <2>2
<1>4. ASSUME NEW d \in used, d \notin after PROVE \E j \in DOMAIN old : old[j].data = d
  BY <1>4 DEF Released
<1> HIDE DEF after
<1>5. Moves(old, new, used, after)
  BY <1>1, <1>2, <1>3, <1>4 DEF Moves
<1> QED
  BY <1>5 DEF new, after

\* A section more, with nothing allocated.
LEMMA AppendMoves ==
  ASSUME NEW old, NEW new, NEW used, OwnMemory(old, used),
         DOMAIN old \subseteq DOMAIN new, \A i \in DOMAIN old : new[i] = old[i],
         \A i \in DOMAIN new \ DOMAIN old : new[i].data = Null
  PROVE  Moves(old, new, used, used)
BY DEF Moves, OwnMemory

\* Only one buffer changes, and keeps its memory or gets memory nobody holds.
LEMMA ReallocMoves ==
  ASSUME NEW old, NEW used, OwnMemory(old, used), NEW i \in DOMAIN old, NEW b,
         b.data # Null, b.data = old[i].data \/ b.data \notin used
  PROVE  Moves(old, [old EXCEPT ![i] = b], used, (used \ {old[i].data}) \cup {b.data})
<1> DEFINE new == [old EXCEPT ![i] = b]
           after == (used \ {old[i].data}) \cup {b.data}
<1>1. DOMAIN new = DOMAIN old /\ new[i] = b /\ \A j \in DOMAIN old : j # i => new[j] = old[j]
  OBVIOUS
<1> HIDE DEF new
<1>2. \A j \in DOMAIN old : j # i /\ old[j].data # Null => old[j].data # old[i].data /\ old[j].data \in used
  BY DEF OwnMemory
<1>3. \A j \in DOMAIN old : j # i /\ old[j].data # Null => old[j].data # b.data
  BY <1>2
<1>4. \A j \in DOMAIN new : new[j].data # Null =>
        new[j].data \in after /\ (new[j].data \notin used \/ \E x \in DOMAIN old : old[x].data = new[j].data)
  BY <1>1, <1>2
<1>5. \A j, k \in DOMAIN new : new[j].data # Null /\ new[j].data = new[k].data => j = k
  BY <1>1, <1>3 DEF OwnMemory
<1>6. ASSUME NEW d \in after
      PROVE  \/ d \in used /\ \A j \in DOMAIN old : old[j].data # d
             \/ \E x \in DOMAIN new : new[x].data = d
  <2>1. CASE d = b.data
    BY <2>1, <1>1
  <2>2. CASE d # b.data
    <3>1. d \in used /\ d # old[i].data
      BY <2>2
    <3> QED
      BY <3>1, <1>1
  <2> QED
    BY <2>1, <2>2
<1>7. \A d \in used : d \in after \/ \E j \in DOMAIN old : old[j].data = d
  OBVIOUS
<1> HIDE DEF after
<1>8. Moves(old, new, used, after)
  BY <1>4, <1>5, <1>6, <1>7 DEF Moves
<1> QED
  BY <1>8 DEF new, after

\* The size of one buffer changes.
LEMMA SizeMoves ==
  ASSUME NEW old, NEW used, OwnMemory(old, used), NEW i \in DOMAIN old, NEW b, b.data = old[i].data
  PROVE  Moves(old, [old EXCEPT ![i] = b], used, used)
<1> DEFINE new == [old EXCEPT ![i] = b]
<1>1. DOMAIN new = DOMAIN old /\ \A j \in DOMAIN old : new[j].data = old[j].data
  OBVIOUS
<1> HIDE DEF new
<1>2. Moves(old, new, used, used)
  BY <1>1 DEF Moves, OwnMemory
<1> QED
  BY <1>2 DEF new

LEMMA MemoryAccountedFollows ==
  ASSUME TypeOK, MemoryInv
  PROVE  MemoryAccounted
<1> DEFINE data(p) == holder[p[1]].bufs[p[2]].data
           places == {p \in Holders \X (1 .. MaxSections) :
                        p[2] \in DOMAIN holder[p[1]].bufs /\ data(p) # Null}
<1>1. ASSUME NEW d \in live PROVE \E p \in places : data(p) = d
  <2>1. PICK h \in Holders : \E i \in DOMAIN holder[h].bufs : holder[h].bufs[i].data = d
    BY DEF MemoryInv, LiveHasPlace
  <2>2. PICK i \in DOMAIN holder[h].bufs : holder[h].bufs[i].data = d
    BY <2>1
  <2>3. i \in 1 .. MaxSections
    <3>1. holder[h].bufs \in Seq(BufferType)
      BY DEF TypeOK, HolderType
    <3>2. PICK w : w = Len(holder[h].bufs)
      OBVIOUS
    <3>3. w \in 1 .. MaxSections /\ DOMAIN holder[h].bufs = 1 .. w
      BY <3>1, <3>2, LenProperties DEF TypeOK
    <3>4. MaxSections \in Nat
      BY CodeEmittersAssumption
    <3> QED
      BY <3>3, <3>4
  <2>4. <<h, i>> \in places /\ data(<<h, i>>) = d
    BY <2>2, <2>3 DEF TypeOK
  <2> QED
    BY <2>4
<1>2. ASSUME NEW p \in places PROVE data(p) \in live
  BY DEF MemoryInv, DataAreLive
<1>3. ASSUME NEW p \in places, NEW q \in places, data(p) = data(q) PROVE p = q
  <2>1. p = <<p[1], p[2]>> /\ q = <<q[1], q[2]>>
    OBVIOUS
  <2>2. p[1] = q[1] /\ p[2] = q[2]
    BY <1>3 DEF MemoryInv, OnePlaceEach
  <2> QED
    BY <2>1, <2>2
<1>4. live = {data(p) : p \in places}
  <2> HIDE DEF data, places
  <2> QED
    BY <1>1, <1>2
<1> QED
  BY <1>3, <1>4 DEF MemoryAccounted

-------------------------------------------------------------------------------
(* Addresses and capacities *)

\* malloc() finds memory nobody holds.
LEMMA FreeAddressIsFree ==
  ASSUME NEW used, IsFiniteSet(used), used \subseteq Nat
  PROVE  FreeAddress(used) \in Nat \ {0} /\ FreeAddress(used) \notin used
<1>1. PICK c : c = Cardinality(used)
  OBVIOUS
<1>2. c \in Nat
  BY <1>1, FS_CardinalityType
<1>3. IsFiniteSet(1 .. c + 1) /\ Cardinality(1 .. c + 1) = c + 1
  <2>1. PICK n \in Nat : n = c + 1
    BY <1>2
  <2>2. 1 \in Int /\ n \in Int
    OBVIOUS
  <2>3. IsFiniteSet(1 .. n) /\ Cardinality(1 .. n) = n
    BY <2>2, FS_Interval
  <2> QED
    BY <2>1, <2>3
<1>4. ~(1 .. c + 1 \subseteq used)
  <2> SUFFICES ASSUME 1 .. c + 1 \subseteq used PROVE FALSE
    OBVIOUS
  <2>1. Cardinality(1 .. c + 1) <= Cardinality(used)
    BY FS_Subset
  <2>2. c + 1 <= c
    BY <1>1, <1>3, <2>1
  <2> QED
    BY <1>2, <2>2
<1>5. \E d \in 1 .. c + 1 : d \notin used
  BY <1>4
<1>6. FreeAddress(used) \in 1 .. c + 1 /\ FreeAddress(used) \notin used
  BY <1>1, <1>5 DEF FreeAddress
<1> QED
  BY <1>2, <1>6

\* The doubling of grow_buffer().
IsDoubling(f, start) ==
  f = [n \in Nat |-> IF n = 0 THEN start
                     ELSE f[n - 1] + IF f[n - 1] < GrowThreshold THEN f[n - 1] ELSE GrowThreshold]

Doubled(x) == IF x < GrowThreshold THEN x + x ELSE x + GrowThreshold

LEMMA DoublingExists ==
  ASSUME NEW start \in Nat
  PROVE  \E f : IsDoubling(f, start)
<1> DEFINE g == [x \in Nat |-> Doubled(x)]
<1>1. g \in [Nat -> Nat]
  BY CodeEmittersAssumption DEF Doubled
<1>2. PICK f \in [Nat -> Nat] : f[0] = start /\ \A n \in Nat : f[n + 1] = g[f[n]]
  <2> DEFINE T == Nat
             a == start
  <2>1. g \in [T -> T] /\ a \in T
    BY <1>1
  <2> HIDE DEF g, T, a
  <2>2. \E f \in [Nat -> T] : f[0] = a /\ \A n \in Nat : f[n + 1] = g[f[n]]
    BY <2>1, NatRecursion
  <2> QED
    BY <2>2 DEF T, a
<1> DEFINE step(n) == IF n = 0 THEN start
                      ELSE f[n - 1] + IF f[n - 1] < GrowThreshold THEN f[n - 1] ELSE GrowThreshold
<1>3. ASSUME NEW n \in Nat PROVE f[n] = step(n)
  <2>1. CASE n = 0
    BY <2>1, <1>2
  <2>2. CASE n # 0
    <3>1. n - 1 \in Nat /\ (n - 1) + 1 = n
      BY <2>2
    <3>2. f[n] = Doubled(f[n - 1])
      BY <3>1, <1>2
    <3>3. PICK x \in Nat : x = f[n - 1]
      BY <3>1, <1>2
    <3>4. Doubled(x) = x + IF x < GrowThreshold THEN x ELSE GrowThreshold
      <4>1. CASE x < GrowThreshold
        BY <4>1 DEF Doubled
      <4>2. CASE ~(x < GrowThreshold)
        BY <4>2 DEF Doubled
      <4> QED
        BY <4>1, <4>2
    <3> QED
      BY <2>2, <3>2, <3>3, <3>4
  <2> QED
    BY <2>1, <2>2
<1>4. f = [n \in Nat |-> f[n]]
  BY <1>2
<1>5. f = [n \in Nat |-> step(n)]
  <2> HIDE DEF step
  <2> QED
    BY <1>3, <1>4
<1> QED
  BY <1>5 DEF IsDoubling

\* The capacity grow_buffer() asks for is enough, whatever the buffer had.
LEMMA GrownCapacitySuffices ==
  ASSUME NEW cap \in Nat, NEW required \in Nat
  PROVE  GrownCapacity(cap, required) \in Nat /\ GrownCapacity(cap, required) >= required
<1> DEFINE start == IF cap < InitialCapacity THEN InitialCapacity ELSE cap + AllocOverhead
           f == CHOOSE g : IsDoubling(g, start)
           Enough(n) == /\ f[n] - AllocOverhead >= required
                        /\ \A k \in 1 .. n - 1 : f[k] - AllocOverhead < required
           turns == CHOOSE n \in 1 .. required + 1 : Enough(n)
<1>1. /\ {InitialCapacity, AllocOverhead, GrowThreshold} \subseteq Nat \ {0}
      /\ AllocOverhead < InitialCapacity
  BY CodeEmittersAssumption
<1>2. start \in Nat /\ start >= AllocOverhead /\ start >= 1
  BY <1>1
<1>3. GrownCapacity(cap, required) = f[turns] - AllocOverhead
  BY DEF GrownCapacity, IsDoubling
<1> HIDE DEF start
<1>4. IsDoubling(f, start)
  BY <1>2, DoublingExists
<1> HIDE DEF f
<1> DEFINE step(n) == IF n = 0 THEN start
                      ELSE f[n - 1] + IF f[n - 1] < GrowThreshold THEN f[n - 1] ELSE GrowThreshold
<1>5. ASSUME NEW n \in Nat PROVE f[n] = step(n)
  <2>1. f = [k \in Nat |-> step(k)]
    BY <1>4 DEF IsDoubling
  <2> HIDE DEF step
  <2>2. [k \in Nat |-> step(k)][n] = step(n)
    OBVIOUS
  <2> QED
    BY <2>1, <2>2
<1> DEFINE S == {n \in Nat : f[n] \in Nat /\ f[n] >= start + n}
<1>6. Inductive(S)
  <2>1. 0 \in S
    BY <1>2, <1>5
  <2>2. ASSUME NEW n \in Nat, n \in S PROVE n + 1 \in S
    <3>1. PICK x \in Nat : x = f[n]
      BY <2>2
    <3>2. n + 1 \in Nat /\ n + 1 # 0 /\ (n + 1) - 1 = n
      OBVIOUS
    <3>3. f[n + 1] = x + IF x < GrowThreshold THEN x ELSE GrowThreshold
      BY <1>5, <3>1, <3>2
    <3>4. x >= start + n
      BY <2>2, <3>1
    <3>5. x >= 1
      BY <1>2, <3>4
    <3>6. f[n + 1] \in Nat /\ f[n + 1] >= x + 1
      <4>1. CASE x < GrowThreshold
        BY <3>3, <3>5, <4>1
      <4>2. CASE ~(x < GrowThreshold)
        BY <3>3, <1>1, <4>2
      <4> QED
        BY <4>1, <4>2
    <3>7. f[n + 1] >= start + (n + 1)
      BY <3>4, <3>6, <1>2
    <3> QED
      BY <3>2, <3>6, <3>7
  <2> HIDE DEF S
  <2> QED
    BY <2>1, <2>2 DEF Inductive
<1>7. \A n \in Nat : f[n] \in Nat /\ f[n] >= start + n
  <2> HIDE DEF S
  <2>1. Nat \subseteq S
    BY <1>6, InductiveHasNat
  <2> QED
    BY <2>1 DEF S
<1> DEFINE T == {n \in Nat : n >= 1 /\ f[n] - AllocOverhead >= required}
<1>8. required + 1 \in T
  <2>1. PICK y \in Nat : y = f[required + 1]
    BY <1>7
  <2>2. y >= start + (required + 1)
    BY <1>7, <2>1
  <2>3. y - AllocOverhead >= required
    BY <1>1, <1>2, <2>2
  <2> QED
    BY <2>1, <2>3
<1>9. PICK n \in T : \A y \in T : n <= y
  <2>1. T \in SUBSET Nat /\ T # {}
    BY <1>8
  <2> HIDE DEF T
  <2> QED
    BY <2>1, MinOfNats
<1>10. n \in 1 .. required + 1
  <2>1. n <= required + 1
    BY <1>8, <1>9
  <2>2. n \in Nat /\ n >= 1
    BY <1>9
  <2> QED
    BY <2>1, <2>2
<1>11. Enough(n)
  <2>1. ASSUME NEW k \in 1 .. n - 1 PROVE f[k] - AllocOverhead < required
    <3>1. k \notin T
      BY <1>9, <1>10
    <3>2. k \in Nat /\ k >= 1
      BY <1>10
    <3>3. PICK x \in Nat : x = f[k]
      BY <1>7, <3>2
    <3>4. ~(x - AllocOverhead >= required)
      BY <3>1, <3>2, <3>3
    <3>5. x - AllocOverhead < required
      BY <3>4, <1>1
    <3> QED
      BY <3>3, <3>5
  <2> QED
    BY <1>9, <2>1
<1>12. turns \in 1 .. required + 1 /\ Enough(turns)
  <2> HIDE DEF Enough
  <2> QED
    BY <1>10, <1>11
<1> HIDE DEF turns
<1>13. PICK x \in Nat : x = f[turns]
  BY <1>7, <1>12
<1>14. x - AllocOverhead >= required
  BY <1>12, <1>13
<1>15. x - AllocOverhead \in Nat
  BY <1>1, <1>14
<1> QED
  BY <1>3, <1>13, <1>14, <1>15

-------------------------------------------------------------------------------
(* What a step does to the pointers *)

PlaceOK(r, bufs) ==
  /\ r.section \in DOMAIN bufs
  /\ r.data = bufs[r.section].data
  /\ r.end = bufs[r.section].cap
  /\ r.off <= bufs[r.section].size
  /\ bufs[r.section].size <= bufs[r.section].cap

LEMMA PointersByPlace ==
  PointersAgree <=> \A e \in Assemblers : emitter[e].code # None =>
                      PlaceOK(emitter[e], holder[emitter[e].code].bufs)
BY DEF PointersAgree, PlaceOK

LEMMA PointersByPlaceNext ==
  PointersAgree' <=> \A e \in Assemblers : emitter'[e].code # None =>
                       PlaceOK(emitter'[e], holder'[emitter'[e].code].bufs)
BY DEF PointersAgree, PlaceOK

\* Steps that leave the places of the attached emitters and the buffers alone.
PlacesUntouched ==
  /\ \A h \in Holders : holder'[h].bufs = holder[h].bufs
  /\ \A e \in Emitters : emitter'[e].code # None =>
       emitter'[e].code = emitter[e].code /\ KeepsPlace(emitter[e], emitter'[e])

LEMMA PlacesUntouchedStep ==
  ASSUME TypeOK, PointersInv, PlacesUntouched
  PROVE  PointersInv'
<1>1. ASSUME NEW e \in Assemblers, emitter'[e].code # None
      PROVE  PlaceOK(emitter'[e], holder'[emitter'[e].code].bufs)
  <2>0. e \in Emitters
    BY DEF Emitters
  <2>1. emitter'[e].code = emitter[e].code /\ KeepsPlace(emitter[e], emitter'[e])
    BY <1>1, <2>0 DEF PlacesUntouched
  <2>2. emitter[e].code \in Holders
    BY <1>1, <2>0, <2>1 DEF TypeOK, EmitterType
  <2>3. PlaceOK(emitter[e], holder[emitter[e].code].bufs)
    BY <1>1, <2>1, PointersByPlace DEF PointersInv
  <2>4. holder'[emitter[e].code].bufs = holder[emitter[e].code].bufs
    BY <2>2 DEF PlacesUntouched
  <2> QED
    BY <2>1, <2>3, <2>4 DEF KeepsPlace, PlaceOK
<1>2. BuffersFit'
  BY DEF PointersInv, BuffersFit, PlacesUntouched
<1> QED
  BY <1>1, <1>2, PointersByPlaceNext DEF PointersInv

LEMMA MemoryUntouchedStep ==
  ASSUME MemoryInv, \A h \in Holders : holder'[h].bufs = holder[h].bufs, live' = live
  PROVE  MemoryInv'
<1>1. DataAreLive'
  BY DEF MemoryInv, DataAreLive
<1>2. LiveHasPlace'
  BY DEF MemoryInv, LiveHasPlace
<1>3. ASSUME NEW h \in Holders, NEW k \in Holders,
             NEW i \in DOMAIN holder'[h].bufs, NEW j \in DOMAIN holder'[k].bufs,
             holder'[h].bufs[i].data # Null, holder'[h].bufs[i].data = holder'[k].bufs[j].data
      PROVE  h = k /\ i = j
  <2>1. holder'[h].bufs = holder[h].bufs /\ holder'[k].bufs = holder[k].bufs
    OBVIOUS
  <2> QED
    BY <1>3, <2>1 DEF MemoryInv, OnePlaceEach
<1> QED
  BY <1>1, <1>2, <1>3 DEF MemoryInv, OnePlaceEach

\* Steps that only have to do with settings.
LEMMA QuietStep ==
  ASSUME IInv, TypeOK', LinksUntouched, PlacesUntouched, live' = live
  PROVE  IInv' /\ ListStep
<1>1. LinksInv' /\ ListStep
  BY LinksUntouchedStep DEF IInv
<1>2. PointersInv'
  BY PlacesUntouchedStep DEF IInv
<1>3. MemoryInv'
  BY MemoryUntouchedStep DEF IInv, PlacesUntouched
<1> QED
  BY <1>1, <1>2, <1>3 DEF IInv

-------------------------------------------------------------------------------
(* Settings *)

OthersKept(h) == \A k \in Holders : k # h => holder'[k] = holder[k]

EndsKept(h) ==
  /\ holder'[h].init = holder[h].init
  /\ holder'[h].first = holder[h].first /\ holder'[h].last = holder[h].last

LEMMA InitHolderFields ==
  ASSUME IInv, NEW h \in Holders, InitHolder(h)
  PROVE  /\ holder' \in [Holders -> HolderType] /\ OthersKept(h)
         /\ holder'[h].init /\ holder'[h].first = holder[h].first /\ holder'[h].last = holder[h].last
         /\ holder'[h].set = holder[h].set /\ holder'[h].bufs = holder[h].bufs
         /\ emitter' = emitter /\ live' = live
<1>1. holder \in [Holders -> HolderType] /\ holder' = [holder EXCEPT ![h].init = TRUE]
  BY DEF IInv, TypeOK, InitHolder
<1> QED
  BY <1>1 DEF HolderType, OthersKept, InitHolder

LEMMA InitHolderStep ==
  ASSUME IInv, NEW h \in Holders, InitHolder(h)
  PROVE  IInv' /\ ListStep
<1>1. TypeOK'
  BY InitHolderFields DEF IInv, TypeOK, OthersKept
<1>2. LinksUntouched
  BY InitHolderFields DEF LinksUntouched, KeepsLinks, OthersKept
<1>3. PlacesUntouched
  BY InitHolderFields DEF PlacesUntouched, KeepsPlace, OthersKept
<1> QED
  BY <1>1, <1>2, <1>3, QuietStep, InitHolderFields

LEMMA HolderSetFields ==
  ASSUME IInv, NEW h \in Holders, NEW s \in Settings, NEW v \in {None, h}, HolderSet(h, s, v)
  PROVE  /\ holder' \in [Holders -> HolderType] /\ OthersKept(h) /\ EndsKept(h)
         /\ holder'[h].bufs = holder[h].bufs
         /\ emitter' \in [Emitters -> EmitterType]
         /\ \A e \in Emitters : IF emitter[e].code = h
                                THEN IsUpdated(e, emitter[e], holder'[h].set, emitter'[e])
                                ELSE emitter'[e] = emitter[e]
         /\ live' = live
<1> DEFINE set == [holder[h].set EXCEPT ![s] = v]
           hd == [holder[h] EXCEPT !.set = set]
<1>0. TypeOK /\ Linked
  BY DEF IInv, LinksInv
<1>1. holder[h] \in HolderType /\ holder \in [Holders -> HolderType] /\ emitter \in [Emitters -> EmitterType]
  BY <1>0 DEF TypeOK
<1>2. set \in [Settings -> Holders \cup {None}]
  BY <1>1 DEF HolderType
<1>3. holder' = [holder EXCEPT ![h] = hd] /\ live' = live
  BY <1>1 DEF HolderSet
<1>4. emitter' = [e \in Emitters |-> IF e \in Listed(h) THEN OnSettingsUpdated(e, emitter[e], set) ELSE emitter[e]]
  BY DEF HolderSet
<1> HIDE DEF set
<1>5. /\ hd \in HolderType /\ hd.set = set /\ hd.bufs = holder[h].bufs
      /\ hd.init = holder[h].init /\ hd.first = holder[h].first /\ hd.last = holder[h].last
  BY <1>1, <1>2 DEF HolderType
<1> HIDE DEF hd
<1>6. holder'[h] = hd /\ holder' \in [Holders -> HolderType] /\ OthersKept(h)
  BY <1>1, <1>3, <1>5 DEF OthersKept
<1>7. ASSUME NEW e \in Emitters
      PROVE  /\ emitter'[e] \in EmitterType
             /\ IF emitter[e].code = h THEN IsUpdated(e, emitter[e], set, emitter'[e])
                ELSE emitter'[e] = emitter[e]
  <2>1. e \in Listed(h) <=> emitter[e].code = h
    BY <1>0, ListedHaveCode
  <2>2. emitter[e] \in EmitterType
    BY <1>1
  <2>3. CASE emitter[e].code = h
    <3>1. emitter'[e] = OnSettingsUpdated(e, emitter[e], set)
      BY <1>4, <2>1, <2>3
    <3>2. IsUpdated(e, emitter[e], set, emitter'[e])
      BY <1>2, <2>2, <3>1, UpdatedFields
    <3> QED
      BY <2>3, <3>2 DEF IsUpdated
  <2>4. CASE emitter[e].code # h
    BY <1>4, <2>1, <2>2, <2>4
  <2> QED
    BY <2>3, <2>4
<1>8. emitter' \in [Emitters -> EmitterType]
  <2>1. emitter' = [e \in Emitters |-> emitter'[e]]
    BY <1>4
  <2> QED
    BY <1>7, <2>1
<1> QED
  BY <1>3, <1>5, <1>6, <1>7, <1>8 DEF EndsKept

LEMMA HolderSetStep ==
  ASSUME IInv, NEW h \in Holders, NEW s \in Settings, NEW v \in {None, h}, HolderSet(h, s, v)
  PROVE  IInv' /\ ListStep
<1>1. TypeOK'
  BY HolderSetFields DEF IInv, TypeOK, OthersKept
<1>2. \A e \in Emitters : KeepsLinks(emitter[e], emitter'[e]) /\ KeepsPlace(emitter[e], emitter'[e])
  BY HolderSetFields DEF IsUpdated, KeepsLinks, KeepsPlace
<1>3. LinksUntouched
  BY <1>2, HolderSetFields DEF LinksUntouched, OthersKept, EndsKept
<1>4. PlacesUntouched
  BY <1>2, HolderSetFields DEF PlacesUntouched, KeepsLinks, OthersKept
<1> QED
  BY <1>1, <1>3, <1>4, QuietStep, HolderSetFields

\* Only e changes, and what changes of it are its settings.
LEMMA OneEmitterQuiet ==
  ASSUME IInv, NEW e \in Emitters, holder' = holder, live' = live,
         emitter' \in [Emitters -> EmitterType],
         KeepsLinks(emitter[e], emitter'[e]), KeepsPlace(emitter[e], emitter'[e]),
         \A x \in Emitters : x # e => emitter'[x] = emitter[x]
  PROVE  IInv' /\ ListStep
<1>1. TypeOK'
  BY DEF IInv, TypeOK
<1>2. \A x \in Emitters : KeepsLinks(emitter[x], emitter'[x]) /\ KeepsPlace(emitter[x], emitter'[x])
  BY DEF KeepsLinks, KeepsPlace
<1>3. LinksUntouched
  BY <1>2 DEF LinksUntouched
<1>4. PlacesUntouched
  BY <1>2 DEF PlacesUntouched, KeepsLinks
<1> QED
  BY <1>1, <1>3, <1>4, QuietStep

\* q is r after its setting s was set to v, or to what it inherits.
IsSet(e, r, s, v, q) ==
  /\ q \in EmitterType /\ KeepsLinks(r, q) /\ KeepsPlace(r, q)
  /\ q.attached = r.attached /\ q.diag = r.diag /\ q.ready = r.ready
  /\ q.own[s] <=> v # None
  /\ q.set[s] = IF v # None THEN v ELSE IF r.code = None THEN None ELSE holder[r.code].set[s]
  /\ \A t \in Settings : t # s => q.own[t] = r.own[t] /\ q.set[t] = r.set[t]
  /\ IF s = "logger"
     THEN /\ q.reserved <=> (r.code = None \/ q.set["logger"] # None \/ r.diag)
          /\ q.comments <=> r.code # None /\ (e \in Assemblers => q.set["logger"] # None)
     ELSE q.reserved = r.reserved /\ q.comments = r.comments

LEMMA EmitterSetFields ==
  ASSUME IInv, NEW e \in Emitters, NEW s \in Settings, NEW v \in {None, e}, EmitterSet(e, s, v)
  PROVE  /\ holder' = holder /\ live' = live
         /\ emitter' \in [Emitters -> EmitterType]
         /\ IsSet(e, emitter[e], s, v, emitter'[e])
         /\ \A x \in Emitters : x # e => emitter'[x] = emitter[x]
<1> DEFINE r == emitter[e]
           inherited == IF r.code = None THEN None ELSE holder[r.code].set[s]
           a == [r EXCEPT !.own[s] = v # None, !.set[s] = IF v # None THEN v ELSE inherited]
           q == IF s = "logger" THEN UpdateForcedOptions(e, a) ELSE a
<1>1. holder \in [Holders -> HolderType] /\ emitter \in [Emitters -> EmitterType] /\ r \in EmitterType
  BY DEF IInv, TypeOK
<1>2. inherited \in Holders \cup {None}
  <2>1. r.code \in Holders \cup {None}
    BY <1>1 DEF EmitterType
  <2>2. CASE r.code # None
    <3>1. holder[r.code] \in HolderType
      BY <1>1, <2>1, <2>2
    <3> QED
      BY <2>2, <3>1 DEF HolderType
  <2> QED
    BY <2>2
<1>3. emitter' = [emitter EXCEPT ![e] = q] /\ holder' = holder /\ live' = live
  BY DEF EmitterSet
<1> HIDE DEF r
<1> DEFINE new == IF v # None THEN v ELSE inherited
<1>4. new \in Holders \cup Emitters \cup {None} /\ (v # None) \in BOOLEAN
  BY <1>2
<1>5. a = [r EXCEPT !.own[s] = v # None, !.set[s] = new]
  OBVIOUS
<1> HIDE DEF inherited, new, a
<1>6. /\ a \in EmitterType /\ KeepsLinks(r, a) /\ KeepsPlace(r, a)
      /\ a.attached = r.attached /\ a.diag = r.diag /\ a.ready = r.ready
      /\ a.reserved = r.reserved /\ a.comments = r.comments
      /\ a.own = [r.own EXCEPT ![s] = v # None] /\ a.set = [r.set EXCEPT ![s] = new]
  BY <1>1, <1>4, <1>5 DEF EmitterType, KeepsLinks, KeepsPlace
<1>7. /\ a.own[s] <=> v # None
      /\ a.set[s] = new
      /\ \A t \in Settings : t # s => a.own[t] = r.own[t] /\ a.set[t] = r.set[t]
  <2>1. r.own \in [Settings -> BOOLEAN] /\ r.set \in [Settings -> Holders \cup Emitters \cup {None}]
    BY <1>1 DEF EmitterType
  <2> QED
    BY <1>6, <2>1
<1>8. IsSet(e, r, s, v, q)
  <2>1. CASE s = "logger"
    <3>1. q = UpdateForcedOptions(e, a)
      BY <2>1
    <3> HIDE DEF q
    <3>2. IsForced(e, a, q)
      BY <1>6, <3>1, ForcedFields
    <3> QED
      BY <1>6, <1>7, <2>1, <3>2 DEF IsForced, IsSet, KeepsLinks, KeepsPlace, new, inherited
  <2>2. CASE s # "logger"
    <3>1. q = a
      BY <2>2
    <3> HIDE DEF q
    <3> QED
      BY <1>6, <1>7, <2>2, <3>1 DEF IsSet, new, inherited
  <2> QED
    BY <2>1, <2>2
<1> HIDE DEF q
<1>9. emitter'[e] = q /\ emitter' \in [Emitters -> EmitterType]
  <2>1. q \in EmitterType
    BY <1>8 DEF IsSet
  <2> QED
    BY <1>1, <1>3, <2>1
<1> QED
  BY <1>1, <1>3, <1>8, <1>9 DEF r

LEMMA EmitterSetStep ==
  ASSUME IInv, NEW e \in Emitters, NEW s \in Settings, NEW v \in {None, e}, EmitterSet(e, s, v)
  PROVE  IInv' /\ ListStep
<1>1. KeepsLinks(emitter[e], emitter'[e]) /\ KeepsPlace(emitter[e], emitter'[e])
  BY EmitterSetFields DEF IsSet
<1> QED
  BY <1>1, EmitterSetFields, OneEmitterQuiet

LEMMA SetDiagnosticsFields ==
  ASSUME IInv, NEW e \in Emitters, NEW on \in BOOLEAN, SetDiagnostics(e, on)
  PROVE  /\ holder' = holder /\ live' = live
         /\ emitter' \in [Emitters -> EmitterType]
         /\ KeepsLinks(emitter[e], emitter'[e]) /\ KeepsPlace(emitter[e], emitter'[e])
         /\ emitter'[e].attached = emitter[e].attached /\ emitter'[e].own = emitter[e].own
         /\ emitter'[e].set = emitter[e].set /\ emitter'[e].ready = emitter[e].ready
         /\ emitter'[e].reserved <=>
              (emitter'[e].code = None \/ emitter'[e].set["logger"] # None \/ emitter'[e].diag)
         /\ emitter'[e].comments <=>
              emitter'[e].code # None /\ (e \in Assemblers => emitter'[e].set["logger"] # None)
         /\ \A x \in Emitters : x # e => emitter'[x] = emitter[x]
<1> DEFINE r == emitter[e]
           a == [r EXCEPT !.diag = on]
           q == UpdateForcedOptions(e, a)
<1>1. emitter \in [Emitters -> EmitterType] /\ r \in EmitterType
  BY DEF IInv, TypeOK
<1>2. emitter' = [emitter EXCEPT ![e] = q] /\ holder' = holder /\ live' = live
  BY DEF SetDiagnostics
<1> HIDE DEF r
<1>3. /\ a \in EmitterType /\ KeepsLinks(r, a) /\ KeepsPlace(r, a) /\ a.attached = r.attached
      /\ a.own = r.own /\ a.set = r.set /\ a.ready = r.ready
  BY <1>1 DEF EmitterType, KeepsLinks, KeepsPlace
<1>4. q = UpdateForcedOptions(e, a)
  OBVIOUS
<1> HIDE DEF a, q
<1>5. IsForced(e, a, q)
  BY <1>3, <1>4, ForcedFields
<1>6. emitter'[e] = q /\ emitter' \in [Emitters -> EmitterType]
  <2>1. q \in EmitterType
    BY <1>5 DEF IsForced
  <2> QED
    BY <1>1, <1>2, <2>1
<1> QED
  BY <1>1, <1>2, <1>3, <1>5, <1>6 DEF IsForced, KeepsLinks, KeepsPlace, r

LEMMA SetDiagnosticsStep ==
  ASSUME IInv, NEW e \in Emitters, NEW on \in BOOLEAN, SetDiagnostics(e, on)
  PROVE  IInv' /\ ListStep
BY SetDiagnosticsFields, OneEmitterQuiet

-------------------------------------------------------------------------------
(* Sections and offsets *)

\* The buffers of h, without the words of sequences.
LEMMA BufsOf ==
  ASSUME TypeOK, NEW h \in Holders
  PROVE  /\ 1 \in DOMAIN holder[h].bufs /\ DOMAIN holder[h].bufs \subseteq Nat
         /\ \A i \in DOMAIN holder[h].bufs : holder[h].bufs[i] \in BufferType
<1>1. holder[h].bufs \in Seq(BufferType)
  BY DEF TypeOK, HolderType
<1>2. PICK w : w = Len(holder[h].bufs)
  OBVIOUS
<1>3. w \in 1 .. MaxSections /\ w \in Nat /\ DOMAIN holder[h].bufs = 1 .. w
  BY <1>1, <1>2, LenProperties DEF TypeOK
<1>4. 1 \in 1 .. w /\ 1 .. w \subseteq Nat
  <2>1. MaxSections \in Nat
    BY CodeEmittersAssumption
  <2> QED
    BY <1>3, <2>1
<1>5. \A i \in 1 .. w : holder[h].bufs[i] \in BufferType
  BY <1>1, <1>2, ElementOfSeq
<1> QED
  BY <1>3, <1>4, <1>5

\* A place freshly taken, at the end of what a buffer holds.
LEMMA PlaceTaken ==
  ASSUME IInv, NEW h \in Holders, NEW i \in DOMAIN holder[h].bufs, NEW r,
         r.section = i, r.data = holder[h].bufs[i].data,
         r.off = holder[h].bufs[i].size, r.end = holder[h].bufs[i].cap
  PROVE  PlaceOK(r, holder[h].bufs)
<1>1. holder[h].bufs[i] \in BufferType
  BY BufsOf DEF IInv
<1>2. holder[h].bufs[i].size \in Nat /\ holder[h].bufs[i].size <= holder[h].bufs[i].cap
  BY <1>1 DEF BufferType, IInv, PointersInv, BuffersFit
<1> QED
  BY <1>2 DEF PlaceOK

\* Only the place of e changes, and it is a place in its holder.
LEMMA OnePlaceStep ==
  ASSUME IInv, NEW e \in Emitters, holder' = holder, live' = live,
         emitter' \in [Emitters -> EmitterType],
         KeepsLinks(emitter[e], emitter'[e]), emitter[e].code # None,
         PlaceOK(emitter'[e], holder[emitter[e].code].bufs),
         \A x \in Emitters : x # e => emitter'[x] = emitter[x]
  PROVE  IInv' /\ ListStep
<1>1. TypeOK'
  BY DEF IInv, TypeOK
<1>2. \A x \in Emitters : KeepsLinks(emitter[x], emitter'[x])
  BY DEF KeepsLinks
<1>3. LinksUntouched
  BY <1>2 DEF LinksUntouched
<1>4. LinksInv' /\ ListStep
  BY <1>3, LinksUntouchedStep DEF IInv
<1>5. PointersAgree'
  <2>1. ASSUME NEW x \in Assemblers, emitter'[x].code # None
        PROVE  PlaceOK(emitter'[x], holder'[emitter'[x].code].bufs)
    <3>1. x \in Emitters
      BY DEF Emitters
    <3>2. CASE x = e
      BY <3>2 DEF KeepsLinks
    <3>3. CASE x # e
      BY <2>1, <3>1, <3>3, PointersByPlace DEF IInv, PointersInv
    <3> QED
      BY <3>2, <3>3
  <2> QED
    BY <2>1, PointersByPlaceNext
<1>6. BuffersFit'
  BY DEF IInv, PointersInv, BuffersFit
<1>7. MemoryInv'
  BY MemoryUntouchedStep DEF IInv
<1> QED
  BY <1>1, <1>4, <1>5, <1>6, <1>7 DEF IInv, PointersInv

LEMMA SetSectionFields ==
  ASSUME IInv, NEW e \in Assemblers, NEW i \in 1 .. MaxSections, SetSection(e, i)
  PROVE  /\ holder' = holder /\ live' = live
         /\ emitter' \in [Emitters -> EmitterType]
         /\ emitter[e].code \in Holders
         /\ KeepsLinks(emitter[e], emitter'[e]) /\ KeepsSettings(emitter[e], emitter'[e])
         /\ PlaceOK(emitter'[e], holder[emitter[e].code].bufs)
         /\ \A x \in Emitters : x # e => emitter'[x] = emitter[x]
<1> DEFINE r == emitter[e]
           b == holder[r.code].bufs[i]
           q == InitSection(r, i, b)
<1>0. e \in Emitters
  BY DEF Emitters
<1>1. emitter \in [Emitters -> EmitterType] /\ r \in EmitterType /\ r.code \in Holders
  BY <1>0 DEF IInv, TypeOK, EmitterType, SetSection
<1>2. i \in DOMAIN holder[r.code].bufs
  BY DEF SetSection
<1>3. b \in BufferType /\ i \in Nat
  BY <1>1, <1>2, BufsOf DEF IInv
<1>4. emitter' = [emitter EXCEPT ![e] = q] /\ holder' = holder /\ live' = live
  BY DEF SetSection
<1>5. q = InitSection(r, i, b)
  OBVIOUS
<1> HIDE DEF b, q
<1>6. /\ q \in EmitterType /\ KeepsLinks(r, q) /\ KeepsSettings(r, q)
      /\ q.section = i /\ q.data = b.data /\ q.off = b.size /\ q.end = b.cap
  BY <1>1, <1>3, <1>5, SectionFields
<1>7. PlaceOK(q, holder[r.code].bufs)
  BY <1>1, <1>2, <1>6, PlaceTaken DEF b
<1>8. emitter'[e] = q /\ emitter' \in [Emitters -> EmitterType]
  BY <1>0, <1>1, <1>4, <1>6
<1> QED
  BY <1>1, <1>4, <1>6, <1>7, <1>8

LEMMA SetSectionStep ==
  ASSUME IInv, NEW e \in Assemblers, NEW i \in 1 .. MaxSections, SetSection(e, i)
  PROVE  IInv' /\ ListStep
<1>1. e \in Emitters /\ emitter[e].code # None
  BY DEF Emitters, SetSection
<1> QED
  BY <1>1, SetSectionFields, OnePlaceStep

LEMMA SetOffsetFields ==
  ASSUME IInv, NEW e \in Assemblers, NEW o \in Offsets, SetOffset(e, o)
  PROVE  /\ holder' = holder /\ live' = live
         /\ emitter' \in [Emitters -> EmitterType]
         /\ emitter[e].code \in Holders
         /\ KeepsLinks(emitter[e], emitter'[e]) /\ KeepsSettings(emitter[e], emitter'[e])
         /\ PlaceOK(emitter'[e], holder[emitter[e].code].bufs)
         /\ \A x \in Emitters : x # e => emitter'[x] = emitter[x]
<1> DEFINE r == emitter[e]
           bufs == holder[r.code].bufs
           q == [r EXCEPT !.off = o]
<1>0. e \in Emitters /\ o \in Nat
  BY CodeEmittersAssumption DEF Emitters
<1>1. emitter \in [Emitters -> EmitterType] /\ r \in EmitterType /\ r.code \in Holders /\ r.code # None
  BY <1>0 DEF IInv, TypeOK, EmitterType, SetOffset
<1>2. PlaceOK(r, bufs)
  BY <1>1, PointersByPlace DEF IInv, PointersInv
<1>3. bufs[r.section] \in BufferType
  BY <1>1, <1>2, BufsOf DEF IInv, PlaceOK
<1>4. o <= bufs[r.section].size
  <2>1. PICK size \in Nat : size = bufs[r.section].size
    BY <1>3 DEF BufferType
  <2>2. PICK off \in Nat : off = r.off
    BY <1>1 DEF EmitterType
  <2>3. off <= size
    BY <1>2, <2>1, <2>2 DEF PlaceOK
  <2>4. o <= IF size > off THEN size ELSE off
    BY <2>1, <2>2 DEF SetOffset
  <2> QED
    BY <1>0, <2>1, <2>3, <2>4
<1>5. emitter' = [emitter EXCEPT ![e] = q] /\ holder' = holder /\ live' = live
  BY <1>0, <1>1 DEF SetOffset
<1> HIDE DEF r
<1>6. /\ q \in EmitterType /\ KeepsLinks(r, q) /\ KeepsSettings(r, q)
      /\ q.section = r.section /\ q.data = r.data /\ q.off = o /\ q.end = r.end
  BY <1>0, <1>1 DEF EmitterType, KeepsLinks, KeepsSettings
<1> HIDE DEF q, bufs
<1>7. PlaceOK(q, bufs)
  BY <1>2, <1>4, <1>6 DEF PlaceOK
<1>8. emitter'[e] = q /\ emitter' \in [Emitters -> EmitterType]
  BY <1>0, <1>1, <1>5, <1>6
<1> QED
  BY <1>1, <1>5, <1>6, <1>7, <1>8 DEF r, bufs

LEMMA SetOffsetStep ==
  ASSUME IInv, NEW e \in Assemblers, NEW o \in Offsets, SetOffset(e, o)
  PROVE  IInv' /\ ListStep
<1>1. e \in Emitters /\ emitter[e].code # None
  BY DEF Emitters, SetOffset
<1> QED
  BY <1>1, SetOffsetFields, OnePlaceStep

-------------------------------------------------------------------------------
(* Attaching and detaching *)

\* A list changes but no buffer, and who is attached after keeps its place or
\* has taken one at the first section.
LEMMA ListPointersStep ==
  ASSUME IInv, \A h \in Holders : holder'[h].bufs = holder[h].bufs,
         \A x \in Emitters : emitter'[x].code # None =>
           \/ emitter'[x].code = emitter[x].code /\ KeepsPlace(emitter[x], emitter'[x])
           \/ emitter'[x].code \in Holders
              /\ (x \in Assemblers => PlaceOK(emitter'[x], holder[emitter'[x].code].bufs))
  PROVE  PointersInv'
<1>1. ASSUME NEW x \in Assemblers, emitter'[x].code # None
      PROVE  PlaceOK(emitter'[x], holder'[emitter'[x].code].bufs)
  <2>1. x \in Emitters
    BY DEF Emitters
  <2>2. CASE emitter'[x].code = emitter[x].code /\ KeepsPlace(emitter[x], emitter'[x])
    <3>1. PlaceOK(emitter[x], holder[emitter[x].code].bufs) /\ emitter[x].code \in Holders
      BY <1>1, <2>1, <2>2, PointersByPlace DEF IInv, PointersInv, TypeOK, EmitterType
    <3> QED
      BY <2>2, <3>1 DEF PlaceOK, KeepsPlace
  <2>3. CASE /\ emitter'[x].code \in Holders
             /\ x \in Assemblers => PlaceOK(emitter'[x], holder[emitter'[x].code].bufs)
    BY <2>3
  <2> QED
    BY <1>1, <2>1, <2>2, <2>3
<1>2. BuffersFit'
  BY DEF IInv, PointersInv, BuffersFit
<1> QED
  BY <1>1, <1>2, PointersByPlaceNext DEF PointersInv

LEMMA LinkLastFields ==
  ASSUME NEW ems \in [Emitters -> EmitterType], NEW e \in Emitters, NEW last \in Links, last # e
  PROVE  /\ LinkLast(ems, e, last) \in [Emitters -> EmitterType]
         /\ LinkLast(ems, e, last)[e].prev = last /\ LinkLast(ems, e, last)[e].next = ems[e].next
         /\ \A x \in Emitters :
              /\ LinkLast(ems, e, last)[x].code = ems[x].code
              /\ KeepsPlace(ems[x], LinkLast(ems, e, last)[x])
              /\ KeepsSettings(ems[x], LinkLast(ems, e, last)[x])
              /\ x # e => /\ LinkLast(ems, e, last)[x].prev = ems[x].prev
                          /\ LinkLast(ems, e, last)[x].next = IF x = last THEN e ELSE ems[x].next
<1> DEFINE r == ems[e]
           q == [r EXCEPT !.prev = last]
           linked == [ems EXCEPT ![e] = q]
           t == linked[last]
           u == [t EXCEPT !.next = e]
<1>0. None \notin Emitters
  BY CodeEmittersAssumption
<1>1. LinkLast(ems, e, last) = IF last = None THEN linked ELSE [linked EXCEPT ![last] = u]
  BY DEF LinkLast
<1> HIDE DEF r
<1>2. /\ q \in EmitterType /\ q.prev = last /\ q.next = r.next /\ q.code = r.code
      /\ KeepsPlace(r, q) /\ KeepsSettings(r, q)
  <2>1. r \in EmitterType
    BY DEF r
  <2> QED
    BY <2>1 DEF EmitterType, KeepsPlace, KeepsSettings
<1> HIDE DEF q
<1>3. linked \in [Emitters -> EmitterType] /\ \A x \in Emitters : linked[x] = IF x = e THEN q ELSE ems[x]
  BY <1>2
<1> HIDE DEF linked
<1>4. CASE last = None
  BY <1>0, <1>1, <1>2, <1>3, <1>4 DEF KeepsPlace, KeepsSettings, r
<1>5. CASE last # None
  <2>1. last \in Emitters
    BY <1>5 DEF Links
  <2>2. t \in EmitterType /\ t = ems[last]
    BY <1>3, <2>1
  <2> HIDE DEF t
  <2>3. /\ u \in EmitterType /\ u.prev = t.prev /\ u.next = e /\ u.code = t.code
        /\ KeepsPlace(t, u) /\ KeepsSettings(t, u)
    BY <2>2 DEF EmitterType, KeepsPlace, KeepsSettings, Links
  <2> HIDE DEF u
  <2> DEFINE new == [linked EXCEPT ![last] = u]
  <2>4. new \in [Emitters -> EmitterType] /\ \A x \in Emitters : new[x] = IF x = last THEN u ELSE linked[x]
    BY <1>3, <2>1, <2>3
  <2>5. LinkLast(ems, e, last) = new
    BY <1>1, <1>5
  <2> HIDE DEF new
  <2> QED
    BY <1>2, <1>3, <2>2, <2>3, <2>4, <2>5 DEF KeepsPlace, KeepsSettings, r
<1> QED
  BY <1>4, <1>5

\* Outside of the lists nothing is said about the links of q.
SameEvent(r, q) == KeepsPlace(r, q) /\ KeepsSettings(r, q)

LEMMA AttachFields ==
  ASSUME "attach" \notin Failures, IInv, NEW h \in Holders, NEW e \in Emitters, Attach(h, e)
  PROVE  /\ holder' \in [Holders -> HolderType] /\ OthersKept(h)
         /\ holder'[h].init /\ holder'[h].set = holder[h].set /\ holder'[h].bufs = holder[h].bufs
         /\ emitter[e].code = None /\ holder[h].init
         /\ emitter' \in [Emitters -> EmitterType]
         /\ \E q : IsAttached(e, emitter[e], h, q) /\ SameEvent(q, emitter'[e])
         /\ \A x \in Emitters : x # e => SameEvent(emitter[x], emitter'[x])
         /\ Adds(emitter, holder[h], emitter', holder'[h], h, e)
         /\ live' = live
<1> DEFINE a == OnAttach(e, emitter[e], h)
           ems == [emitter EXCEPT ![e] = a]
           hd == holder[h]
           last == hd.last
           hd2 == [hd EXCEPT !.last = e, !.first = IF last = None THEN e ELSE @]
<1>0. holder[h].init /\ emitter[e].code = None /\ live' = live /\ TypeOK /\ Linked
  BY DEF Attach, IInv, LinksInv
<1>1. holder \in [Holders -> HolderType] /\ emitter \in [Emitters -> EmitterType] /\ hd \in HolderType
  BY <1>0 DEF TypeOK
<1>2. emitter' = LinkLast(ems, e, last) /\ holder' = [holder EXCEPT ![h] = hd2]
  <2>1. emitter' = LinkLast([emitter EXCEPT ![e] = OnAttach(e, emitter[e], h)], e, holder[h].last)
        /\ holder' = [holder EXCEPT ![h].last = e,
                                    ![h].first = IF holder[h].last = None THEN e ELSE @]
    BY DEF Attach
  <2> QED
    BY <1>1, <2>1
<1>3. IsAttached(e, emitter[e], h, a)
  <2>1. Len(holder[h].bufs) >= 1 /\ emitter[e] \in EmitterType
    <3>1. PICK w : w = Len(holder[h].bufs)
      OBVIOUS
    <3>2. w \in 1 .. MaxSections /\ MaxSections \in Nat
      BY <1>0, <3>1, CodeEmittersAssumption DEF TypeOK
    <3> QED
      BY <1>1, <3>1, <3>2
  <2> DEFINE r == emitter[e]
  <2>2. a = OnAttach(e, r, h) /\ r \in EmitterType
    BY <2>1
  <2> HIDE DEF a, r
  <2>3. IsAttached(e, r, h, a)
    BY <1>1, <2>1, <2>2, AttachedFields
  <2> QED
    BY <2>3 DEF r
<1> HIDE DEF a
<1>4. a \in EmitterType /\ a.code = h /\ a.prev = None /\ a.next = None
  BY <1>0, <1>3 DEF IsAttached, IInv, LinksInv, FreeUnlinked
<1>5. ems \in [Emitters -> EmitterType] /\ \A x \in Emitters : ems[x] = IF x = e THEN a ELSE emitter[x]
  BY <1>1, <1>4
<1> HIDE DEF ems
<1>6. last \in Links /\ last # e
  <2>1. last \in Links
    BY <1>1 DEF HolderType
  <2>2. last # None => emitter[last].code = h
    BY <1>0, NeighboursHaveCode
  <2> QED
    BY <1>0, <2>1, <2>2, CodeEmittersAssumption
<1>7. /\ hd2 \in HolderType /\ hd2.last = e /\ hd2.first = IF last = None THEN e ELSE hd.first
      /\ hd2.init = hd.init /\ hd2.set = hd.set /\ hd2.bufs = hd.bufs
  <2> HIDE DEF hd
  <2>1. e \in Links
    BY DEF Links
  <2> QED
    BY <1>1, <2>1 DEF HolderType
<1> HIDE DEF hd2
<1>8. holder'[h] = hd2 /\ holder' \in [Holders -> HolderType] /\ OthersKept(h)
  BY <1>1, <1>2, <1>7 DEF OthersKept
<1> DEFINE Links2(x) ==
      /\ emitter'[x].code = ems[x].code /\ SameEvent(ems[x], emitter'[x])
      /\ x # e => /\ emitter'[x].prev = ems[x].prev
                  /\ emitter'[x].next = IF x = last THEN e ELSE ems[x].next
<1>9. /\ emitter' \in [Emitters -> EmitterType]
      /\ emitter'[e].prev = last /\ emitter'[e].next = ems[e].next
      /\ \A x \in Emitters : Links2(x)
  <2> HIDE DEF last
  <2> QED
    BY <1>2, <1>5, <1>6, LinkLastFields DEF SameEvent
<1>10. Adds(emitter, holder[h], emitter', holder'[h], h, e)
  BY <1>0, <1>4, <1>5, <1>7, <1>8, <1>9, CodeEmittersAssumption DEF Adds
<1>11. SameEvent(a, emitter'[e]) /\ \A x \in Emitters : x # e => SameEvent(emitter[x], emitter'[x])
  BY <1>5, <1>9
<1> QED
  BY <1>0, <1>3, <1>7, <1>8, <1>9, <1>10, <1>11

LEMMA AttachStep ==
  ASSUME "attach" \notin Failures, IInv, NEW h \in Holders, NEW e \in Emitters, Attach(h, e)
  PROVE  IInv' /\ ListStep
<1>1. TypeOK'
  BY AttachFields DEF IInv, TypeOK, OthersKept
<1>2. \A k \in Holders : k # h => holder'[k] = holder[k]
  BY AttachFields DEF OthersKept
<1>3. LinksInv' /\ ListStep
  BY <1>2, AttachFields, JoinStep DEF IInv
<1>4. \A k \in Holders : holder'[k].bufs = holder[k].bufs
  BY <1>2, AttachFields
<1>5. ASSUME NEW x \in Emitters, emitter'[x].code # None
      PROVE  \/ emitter'[x].code = emitter[x].code /\ KeepsPlace(emitter[x], emitter'[x])
             \/ emitter'[x].code \in Holders
                /\ (x \in Assemblers => PlaceOK(emitter'[x], holder[emitter'[x].code].bufs))
  <2>1. CASE x # e
    BY <2>1, AttachFields DEF Adds, SameEvent
  <2>2. CASE x = e
    <3>1. PICK q : IsAttached(e, emitter[e], h, q) /\ SameEvent(q, emitter'[e])
      BY AttachFields
    <3>2. emitter'[e].code = h
      BY AttachFields DEF Adds
    <3>3. ASSUME e \in Assemblers PROVE PlaceOK(emitter'[e], holder[h].bufs)
      <4>1. 1 \in DOMAIN holder[h].bufs
        BY BufsOf DEF IInv
      <4>2. /\ emitter'[e].section = 1 /\ emitter'[e].data = holder[h].bufs[1].data
            /\ emitter'[e].off = holder[h].bufs[1].size /\ emitter'[e].end = holder[h].bufs[1].cap
        BY <3>1, <3>3 DEF IsAttached, SameEvent, KeepsPlace
      <4> QED
        BY <4>1, <4>2, PlaceTaken
    <3> QED
      BY <2>2, <3>2, <3>3
  <2> QED
    BY <2>1, <2>2
<1>6. PointersInv'
  BY <1>4, <1>5, ListPointersStep
<1>7. MemoryInv'
  BY <1>4, AttachFields, MemoryUntouchedStep DEF IInv
<1> QED
  BY <1>1, <1>3, <1>6, <1>7 DEF IInv

\* What becomes of the record of the holder e leaves.
LEMMA UnlinkHolderFields ==
  ASSUME NEW hd \in HolderType, NEW ems \in [Emitters -> EmitterType], NEW e \in Emitters,
         NEW hd2, hd2 = UnlinkHolder(hd, ems, e)
  PROVE  /\ hd2 \in HolderType
         /\ hd2.first = IF ems[e].prev = None THEN ems[e].next ELSE hd.first
         /\ hd2.last = IF ems[e].next = None THEN ems[e].prev ELSE hd.last
         /\ hd2.init = hd.init /\ hd2.set = hd.set /\ hd2.bufs = hd.bufs
<1>1. ems[e].prev \in Links /\ ems[e].next \in Links
  BY DEF EmitterType
<1> DEFINE p == ems[e].prev
           n == ems[e].next
<1>2. hd2 = [hd EXCEPT !.first = IF p = None THEN n ELSE @, !.last = IF n = None THEN p ELSE @]
  BY DEF UnlinkHolder
<1> HIDE DEF p, n
<1>3. p \in Links /\ n \in Links
  BY <1>1 DEF p, n
<1>4. /\ hd2 \in HolderType
      /\ hd2.first = IF p = None THEN n ELSE hd.first
      /\ hd2.last = IF n = None THEN p ELSE hd.last
      /\ hd2.init = hd.init /\ hd2.set = hd.set /\ hd2.bufs = hd.bufs
  BY <1>2, <1>3 DEF HolderType
<1> QED
  BY <1>4 DEF p, n

\* e has left its holder; what was done to it is up to the caller.
HasLeft(h, e) ==
  /\ h \in Holders /\ emitter[e].code = h
  /\ holder' \in [Holders -> HolderType] /\ OthersKept(h)
  /\ holder'[h].init = holder[h].init /\ holder'[h].set = holder[h].set
  /\ holder'[h].bufs = holder[h].bufs
  /\ emitter' \in [Emitters -> EmitterType]
  /\ emitter'[e].code = None /\ emitter'[e].prev = None /\ emitter'[e].next = None
  /\ \A x \in Emitters : x # e => SameEvent(emitter[x], emitter'[x])
  /\ Removes(emitter, holder[h], emitter', holder'[h], h, e)
  /\ live' = live

LEMMA HasLeftStep ==
  ASSUME IInv, NEW h, NEW e \in Emitters, HasLeft(h, e)
  PROVE  IInv' /\ ListStep
<1>1. TypeOK'
  BY DEF HasLeft, IInv, TypeOK, OthersKept
<1>2. \A k \in Holders : k # h => holder'[k] = holder[k]
  BY DEF HasLeft, OthersKept
<1>3. LinksInv' /\ ListStep
  BY <1>2, LeaveStep DEF HasLeft, IInv
<1>4. \A k \in Holders : holder'[k].bufs = holder[k].bufs
  BY <1>2 DEF HasLeft
<1>5. \A x \in Emitters : emitter'[x].code # None =>
        emitter'[x].code = emitter[x].code /\ KeepsPlace(emitter[x], emitter'[x])
  BY DEF HasLeft, Removes, SameEvent
<1>6. PointersInv'
  BY <1>4, <1>5, PlacesUntouchedStep DEF IInv, PlacesUntouched
<1>7. MemoryInv'
  BY <1>4, MemoryUntouchedStep DEF IInv, HasLeft
<1> QED
  BY <1>1, <1>3, <1>6, <1>7 DEF IInv

LEMMA DetachFields ==
  ASSUME IInv, NEW e \in Emitters, Detach(e)
  PROVE  /\ HasLeft(emitter[e].code, e)
         /\ \E q : IsDetached(emitter[e], q) /\ SameEvent(q, emitter'[e])
<1> DEFINE h == emitter[e].code
           q == OnDetach(emitter[e])
           ems == [emitter EXCEPT ![e] = q]
           hd2 == UnlinkHolder(holder[h], emitter, e)
<1>1. emitter \in [Emitters -> EmitterType] /\ holder \in [Holders -> HolderType] /\ emitter[e] \in EmitterType
  BY DEF IInv, TypeOK
<1>2. h \in Holders /\ h # None
  BY <1>1 DEF EmitterType, Detach
<1>3. emitter' = Unlink(ems, e) /\ holder' = [holder EXCEPT ![h] = hd2] /\ live' = live
  <2>1. holder' = [holder EXCEPT ![emitter[e].code] = UnlinkHolder(@, emitter, e)]
    BY DEF Detach
  <2> QED
    BY <1>1, <1>2, <2>1 DEF Detach
<1>4. IsDetached(emitter[e], q)
  BY <1>1, DetachedFields
<1> HIDE DEF q
<1>5. ems \in [Emitters -> EmitterType] /\ \A x \in Emitters : ems[x] = IF x = e THEN q ELSE emitter[x]
  <2>1. q \in EmitterType
    BY <1>4 DEF IsDetached
  <2> QED
    BY <1>1, <2>1
<1> HIDE DEF ems
<1>6. ems[e].prev = emitter[e].prev /\ ems[e].next = emitter[e].next
  BY <1>4, <1>5 DEF IsDetached, KeepsLinks
<1>7. /\ emitter' \in [Emitters -> EmitterType]
      /\ emitter'[e].code = None /\ emitter'[e].prev = None /\ emitter'[e].next = None
      /\ \A x \in Emitters : SameEvent(ems[x], emitter'[x])
      /\ \A x \in Emitters : x # e =>
           /\ emitter'[x].code = ems[x].code
           /\ emitter'[x].next = IF x = ems[e].prev THEN ems[e].next ELSE ems[x].next
           /\ emitter'[x].prev = IF x = ems[e].next THEN ems[e].prev ELSE ems[x].prev
  BY <1>3, <1>5, UnlinkFields DEF SameEvent
<1>8. hd2 = UnlinkHolder(holder[h], emitter, e) /\ holder[h] \in HolderType
  BY <1>1, <1>2
<1> HIDE DEF hd2, h
<1>9. /\ hd2 \in HolderType
      /\ hd2.first = IF emitter[e].prev = None THEN emitter[e].next ELSE holder[h].first
      /\ hd2.last = IF emitter[e].next = None THEN emitter[e].prev ELSE holder[h].last
      /\ hd2.init = holder[h].init /\ hd2.set = holder[h].set /\ hd2.bufs = holder[h].bufs
  BY <1>1, <1>8, UnlinkHolderFields
<1>10. holder'[h] = hd2 /\ holder' \in [Holders -> HolderType] /\ OthersKept(h)
  BY <1>1, <1>2, <1>3, <1>9 DEF OthersKept
<1>11. Removes(emitter, holder[h], emitter', holder'[h], h, e)
  BY <1>2, <1>5, <1>6, <1>7, <1>9, <1>10 DEF Removes
<1>12. \A x \in Emitters : x # e => SameEvent(emitter[x], emitter'[x])
  BY <1>5, <1>7
<1>13. SameEvent(q, emitter'[e])
  BY <1>5, <1>7
<1>14. emitter[e].code = h
  BY DEF h
<1>15. HasLeft(h, e)
  BY <1>2, <1>3, <1>7, <1>9, <1>10, <1>11, <1>12, <1>14 DEF HasLeft
<1> QED
  BY <1>4, <1>13, <1>14, <1>15

LEMMA DetachStep ==
  ASSUME IInv, NEW e \in Emitters, Detach(e)
  PROVE  IInv' /\ ListStep
BY DetachFields, HasLeftStep

LEMMA DestroyAttachedFields ==
  ASSUME IInv, NEW e \in Emitters, DestroyEmitter(e), emitter[e].code # None
  PROVE  HasLeft(emitter[e].code, e) /\ emitter'[e] = NewEmitter
<1> DEFINE h == emitter[e].code
           un == Unlink(emitter, e)
           hd2 == UnlinkHolder(holder[h], emitter, e)
<1>1. emitter \in [Emitters -> EmitterType] /\ holder \in [Holders -> HolderType] /\ emitter[e] \in EmitterType
  BY DEF IInv, TypeOK
<1>2. h \in Holders /\ h # None
  BY <1>1 DEF EmitterType
<1>3. emitter' = [un EXCEPT ![e] = NewEmitter] /\ holder' = [holder EXCEPT ![h] = hd2] /\ live' = live
  <2>1. holder' = [holder EXCEPT ![emitter[e].code] = UnlinkHolder(@, emitter, e)]
    BY DEF DestroyEmitter
  <2> QED
    BY <1>1, <1>2, <2>1 DEF DestroyEmitter
<1>4. /\ un \in [Emitters -> EmitterType]
      /\ \A x \in Emitters : SameEvent(emitter[x], un[x])
      /\ \A x \in Emitters : x # e =>
           /\ un[x].code = emitter[x].code
           /\ un[x].next = IF x = emitter[e].prev THEN emitter[e].next ELSE emitter[x].next
           /\ un[x].prev = IF x = emitter[e].next THEN emitter[e].prev ELSE emitter[x].prev
  BY <1>1, UnlinkFields DEF SameEvent
<1> HIDE DEF un
<1>5. /\ emitter' \in [Emitters -> EmitterType] /\ emitter'[e] = NewEmitter
      /\ \A x \in Emitters : x # e => emitter'[x] = un[x]
  BY <1>3, <1>4, NewEmitterFields
<1>6. NewEmitter.code = None /\ NewEmitter.prev = None /\ NewEmitter.next = None
  BY DEF NewEmitter
<1>8. hd2 = UnlinkHolder(holder[h], emitter, e) /\ holder[h] \in HolderType
  BY <1>1, <1>2
<1> HIDE DEF hd2, h
<1>9. /\ hd2 \in HolderType
      /\ hd2.first = IF emitter[e].prev = None THEN emitter[e].next ELSE holder[h].first
      /\ hd2.last = IF emitter[e].next = None THEN emitter[e].prev ELSE holder[h].last
      /\ hd2.init = holder[h].init /\ hd2.set = holder[h].set /\ hd2.bufs = holder[h].bufs
  BY <1>1, <1>8, UnlinkHolderFields
<1>10. holder'[h] = hd2 /\ holder' \in [Holders -> HolderType] /\ OthersKept(h)
  BY <1>1, <1>2, <1>3, <1>9 DEF OthersKept
<1>11. Removes(emitter, holder[h], emitter', holder'[h], h, e)
  BY <1>2, <1>4, <1>5, <1>6, <1>9, <1>10 DEF Removes
<1>12. \A x \in Emitters : x # e => SameEvent(emitter[x], emitter'[x])
  BY <1>4, <1>5
<1>14. emitter[e].code = h
  BY DEF h
<1>15. HasLeft(h, e)
  BY <1>2, <1>3, <1>5, <1>6, <1>9, <1>10, <1>11, <1>12, <1>14 DEF HasLeft
<1> QED
  BY <1>5, <1>14, <1>15

LEMMA DestroyFreeFields ==
  ASSUME IInv, NEW e \in Emitters, DestroyEmitter(e), emitter[e].code = None
  PROVE  /\ holder' = holder /\ live' = live
         /\ emitter' \in [Emitters -> EmitterType] /\ emitter'[e] = NewEmitter
         /\ \A x \in Emitters : x # e => emitter'[x] = emitter[x]
<1>1. emitter \in [Emitters -> EmitterType]
  BY DEF IInv, TypeOK
<1> QED
  BY <1>1, NewEmitterFields DEF DestroyEmitter

LEMMA DestroyEmitterStep ==
  ASSUME IInv, NEW e \in Emitters, DestroyEmitter(e)
  PROVE  IInv' /\ ListStep
<1>1. CASE emitter[e].code # None
  BY <1>1, DestroyAttachedFields, HasLeftStep
<1>2. CASE emitter[e].code = None
  <2>1. TypeOK'
    BY <1>2, DestroyFreeFields DEF IInv, TypeOK
  <2>2. KeepsLinks(emitter[e], emitter'[e])
    BY <1>2, DestroyFreeFields DEF NewEmitter, KeepsLinks, IInv, LinksInv, FreeUnlinked
  <2>3. \A x \in Emitters : KeepsLinks(emitter[x], emitter'[x])
    BY <1>2, <2>2, DestroyFreeFields DEF KeepsLinks
  <2>4. LinksUntouched
    BY <1>2, <2>3, DestroyFreeFields DEF LinksUntouched
  <2>5. PlacesUntouched
    BY <1>2, <2>2, DestroyFreeFields DEF PlacesUntouched, KeepsLinks, KeepsPlace
  <2> QED
    BY <1>2, <2>1, <2>4, <2>5, QuietStep, DestroyFreeFields
<1> QED
  BY <1>1, <1>2

-------------------------------------------------------------------------------
(* The life of a holder *)

\* The buffers of h change, and the places of its assemblers are in them.
LEMMA HolderPointersStep ==
  ASSUME IInv, NEW h \in Holders,
         \A k \in Holders : k # h => holder'[k].bufs = holder[k].bufs,
         \A i \in DOMAIN holder'[h].bufs : holder'[h].bufs[i].size <= holder'[h].bufs[i].cap,
         \A x \in Emitters : emitter'[x].code # None =>
           /\ emitter'[x].code = emitter[x].code
           /\ emitter[x].code # h => KeepsPlace(emitter[x], emitter'[x])
           /\ emitter[x].code = h /\ x \in Assemblers => PlaceOK(emitter'[x], holder'[h].bufs)
  PROVE  PointersInv'
<1>1. ASSUME NEW x \in Assemblers, emitter'[x].code # None
      PROVE  PlaceOK(emitter'[x], holder'[emitter'[x].code].bufs)
  <2>1. x \in Emitters
    BY DEF Emitters
  <2>2. CASE emitter[x].code = h
    BY <1>1, <2>1, <2>2
  <2>3. CASE emitter[x].code # h
    <3>1. emitter'[x].code = emitter[x].code /\ KeepsPlace(emitter[x], emitter'[x])
      BY <1>1, <2>1, <2>3
    <3>2. PlaceOK(emitter[x], holder[emitter[x].code].bufs) /\ emitter[x].code \in Holders
      BY <1>1, <2>1, <3>1, PointersByPlace DEF IInv, PointersInv, TypeOK, EmitterType
    <3>3. holder'[emitter[x].code].bufs = holder[emitter[x].code].bufs
      BY <2>3, <3>2
    <3> QED
      BY <3>1, <3>2, <3>3 DEF PlaceOK, KeepsPlace
  <2> QED
    BY <2>2, <2>3
<1>2. BuffersFit'
  BY DEF IInv, PointersInv, BuffersFit
<1> QED
  BY <1>1, <1>2, PointersByPlaceNext DEF PointersInv

\* What a reset leaves of the buffers.
LEMMA TextAfterFields ==
  ASSUME IInv, NEW h \in Holders, NEW hard \in BOOLEAN, NEW text, text = TextAfter(holder[h].bufs, hard)
  PROVE  /\ text \in BufferType /\ text.size = 0 /\ text.size <= text.cap
         /\ text.data = IF hard THEN Null ELSE holder[h].bufs[1].data
         /\ <<text>> \in Seq(BufferType) /\ Len(<<text>>) \in 1 .. MaxSections
<1> DEFINE b == holder[h].bufs[1]
<1>1. b \in BufferType
  BY BufsOf DEF IInv
<1>2. text = IF hard THEN EmptyBuffer ELSE [b EXCEPT !.size = 0]
  BY DEF TextAfter
<1> HIDE DEF b
<1>3. text \in BufferType /\ text.size = 0 /\ text.data = IF hard THEN Null ELSE b.data
  BY <1>1, <1>2 DEF BufferType, EmptyBuffer, Null
<1>4. text.size <= text.cap
  BY <1>3 DEF BufferType
<1>5. Len(<<text>>) = 1 /\ <<text>> \in Seq(BufferType)
  BY <1>3
<1>6. 1 \in 1 .. MaxSections
  BY CodeEmittersAssumption
<1> QED
  BY <1>3, <1>4, <1>5, <1>6 DEF b

LEMMA ReleasedLive ==
  ASSUME TypeOK, NEW freed, live' = live \ freed
  PROVE  live' \subseteq Nat \ {Null} /\ IsFiniteSet(live')
<1>1. live' \subseteq live /\ IsFiniteSet(live) /\ live \subseteq Nat \ {Null}
  BY DEF TypeOK
<1>2. IsFiniteSet(live')
  BY <1>1, FS_Subset
<1> QED
  BY <1>1, <1>2

\* Every emitter of h is detached.
AllDetached(h) ==
  /\ emitter' \in [Emitters -> EmitterType]
  /\ \A e \in Emitters : emitter[e].code = h =>
       /\ emitter'[e].code = None /\ emitter'[e].prev = None /\ emitter'[e].next = None
       /\ \E q : IsDetached(emitter[e], q) /\ SameEvent(q, emitter'[e])
  /\ \A e \in Emitters : emitter[e].code # h => emitter'[e] = emitter[e]

LEMMA DetachEmittersFields ==
  ASSUME IInv, NEW h \in Holders, emitter' = DetachEmitters(h)
  PROVE  AllDetached(h)
<1>1. emitter \in [Emitters -> EmitterType] /\ TypeOK /\ Linked
  BY DEF IInv, LinksInv, TypeOK
<1> DEFINE det(e) == [OnDetach(emitter[e]) EXCEPT !.code = None, !.prev = None, !.next = None]
<1>2. emitter' = [e \in Emitters |-> IF e \in Listed(h) THEN det(e) ELSE emitter[e]]
  BY DEF DetachEmitters
<1>3. ASSUME NEW e \in Emitters
      PROVE  /\ det(e) \in EmitterType
             /\ det(e).code = None /\ det(e).prev = None /\ det(e).next = None
             /\ \E q : IsDetached(emitter[e], q) /\ SameEvent(q, det(e))
  <2> DEFINE q == OnDetach(emitter[e])
             d == [q EXCEPT !.code = None, !.prev = None, !.next = None]
  <2>1. IsDetached(emitter[e], q)
    BY <1>1, DetachedFields
  <2>2. det(e) = d
    OBVIOUS
  <2> HIDE DEF det, q
  <2>3. q \in EmitterType
    BY <2>1 DEF IsDetached
  <2>4. d \in EmitterType /\ d.code = None /\ d.prev = None /\ d.next = None /\ SameEvent(q, d)
    BY <2>3 DEF EmitterType, Links, SameEvent, KeepsPlace, KeepsSettings
  <2> QED
    BY <2>1, <2>2, <2>4
<1> HIDE DEF det
<1>4. \A e \in Emitters : e \in Listed(h) <=> emitter[e].code = h
  BY <1>1, ListedHaveCode
<1>5. \A e \in Emitters : emitter'[e] = IF emitter[e].code = h THEN det(e) ELSE emitter[e]
  BY <1>2, <1>4
<1>6. emitter' \in [Emitters -> EmitterType]
  <2>1. emitter' = [e \in Emitters |-> emitter'[e]]
    BY <1>2
  <2>2. \A e \in Emitters : emitter'[e] \in EmitterType
    BY <1>1, <1>3, <1>5
  <2> QED
    BY <2>1, <2>2
<1> QED
  BY <1>3, <1>5, <1>6 DEF AllDetached

\* The holder starts over with nothing but .text.
StartsOver(h, hard) ==
  /\ holder' \in [Holders -> HolderType] /\ OthersKept(h)
  /\ holder'[h].first = None /\ holder'[h].last = None
  /\ holder'[h].bufs = <<TextAfter(holder[h].bufs, hard)>>
  /\ live' = live \ Released(holder[h].bufs, hard)
  /\ AllDetached(h)

LEMMA StartsOverStep ==
  ASSUME IInv, NEW h \in Holders, NEW hard \in BOOLEAN, StartsOver(h, hard)
  PROVE  IInv' /\ ListStep
<1> DEFINE text == TextAfter(holder[h].bufs, hard)
<1>1. holder'[h].bufs = <<text>> /\ live' = live \ Released(holder[h].bufs, hard) /\ TypeOK
  BY DEF StartsOver, IInv
<1>2. /\ text \in BufferType /\ text.size = 0 /\ text.size <= text.cap
      /\ text.data = IF hard THEN Null ELSE holder[h].bufs[1].data
      /\ <<text>> \in Seq(BufferType) /\ Len(<<text>>) \in 1 .. MaxSections
  <2>1. text = TextAfter(holder[h].bufs, hard)
    OBVIOUS
  <2> HIDE DEF text
  <2> QED
    BY <2>1, TextAfterFields
<1> HIDE DEF text
<1>3. \A k \in Holders : k # h => holder'[k] = holder[k]
  BY DEF StartsOver, OthersKept
<1>4. TypeOK'
  <2>1. live' \subseteq Nat \ {Null} /\ IsFiniteSet(live')
    BY <1>1, ReleasedLive
  <2>2. \A k \in Holders : Len(holder'[k].bufs) \in 1 .. MaxSections
    BY <1>1, <1>2, <1>3 DEF TypeOK
  <2> QED
    BY <2>1, <2>2 DEF TypeOK, StartsOver, AllDetached
<1>5. LinksInv' /\ ListStep
  <2>1. Frees(h)
    BY DEF Frees, StartsOver, AllDetached
  <2> QED
    BY <1>3, <2>1, DissolveStep DEF IInv, StartsOver
<1>6. PointersInv'
  <2>1. \A i \in DOMAIN holder'[h].bufs : holder'[h].bufs[i].size <= holder'[h].bufs[i].cap
    BY <1>1, <1>2
  <2>2. ASSUME NEW x \in Emitters, emitter'[x].code # None
        PROVE  /\ emitter'[x].code = emitter[x].code
               /\ emitter[x].code # h /\ KeepsPlace(emitter[x], emitter'[x])
    BY <2>2 DEF StartsOver, AllDetached, KeepsPlace
  <2> QED
    BY <1>3, <2>1, <2>2, HolderPointersStep
<1>7. MemoryInv'
  <2>1. OwnMemory(holder[h].bufs, live) /\ 1 \in DOMAIN holder[h].bufs
    BY HolderMemory, BufsOf DEF IInv
  <2>2. Moves(holder[h].bufs, <<text>>, live, live \ Released(holder[h].bufs, hard))
    BY <1>2, <2>1, ResetMoves
  <2>3. Moves(holder[h].bufs, holder'[h].bufs, live, live')
    BY <1>1, <2>2
  <2> QED
    BY <1>3, <2>3, MovesKeepMemory DEF IInv
<1> QED
  BY <1>4, <1>5, <1>6, <1>7 DEF IInv

LEMMA ResetFields ==
  ASSUME IInv, NEW h \in Holders, NEW hard \in BOOLEAN, Reset(h, hard)
  PROVE  StartsOver(h, hard)
<1> DEFINE text == TextAfter(holder[h].bufs, hard)
           hd == [NewHolder EXCEPT !.bufs = <<text>>]
<1>1. holder' = [holder EXCEPT ![h] = hd] /\ live' = live \ Released(holder[h].bufs, hard)
  BY DEF Reset
<1>2. AllDetached(h)
  BY DetachEmittersFields DEF Reset
<1>3. <<text>> \in Seq(BufferType)
  <2>1. text = TextAfter(holder[h].bufs, hard)
    OBVIOUS
  <2> HIDE DEF text
  <2> QED
    BY <2>1, TextAfterFields
<1> DEFINE bufs == <<text>>
<1>4. bufs \in Seq(BufferType)
  BY <1>3
<1>5. hd = [NewHolder EXCEPT !.bufs = bufs]
  OBVIOUS
<1> HIDE DEF hd, bufs, text
<1>6. hd \in HolderType /\ hd.first = None /\ hd.last = None /\ hd.bufs = bufs
  BY <1>4, <1>5 DEF NewHolder, HolderType, Links
<1>7. holder'[h] = hd /\ holder' \in [Holders -> HolderType] /\ OthersKept(h)
  BY <1>1, <1>6 DEF IInv, TypeOK, OthersKept
<1> QED
  BY <1>1, <1>2, <1>6, <1>7 DEF StartsOver, bufs, text

LEMMA ResetStep ==
  ASSUME IInv, NEW h \in Holders, NEW hard \in BOOLEAN, Reset(h, hard)
  PROVE  IInv' /\ ListStep
BY ResetFields, StartsOverStep

LEMMA DestroyHolderFields ==
  ASSUME IInv, NEW h \in Holders, DestroyHolder(h)
  PROVE  StartsOver(h, TRUE)
<1>1. /\ holder' = [holder EXCEPT ![h] = NewHolder]
      /\ live' = live \ Released(holder[h].bufs, TRUE)
      /\ emitter' = IF holder[h].init THEN DetachEmitters(h) ELSE emitter
  BY DEF DestroyHolder
<1>2. AllDetached(h)
  <2>1. CASE holder[h].init
    BY <1>1, <2>1, DetachEmittersFields
  <2>2. CASE ~holder[h].init
    <3>1. ASSUME NEW e \in Emitters, emitter[e].code = h PROVE FALSE
      <4>1. emitter[e].code # None
        BY <3>1, CodeEmittersAssumption
      <4> QED
        BY <2>2, <3>1, <4>1 DEF IInv, LinksInv, OnlyInitialized
    <3> QED
      BY <1>1, <2>2, <3>1 DEF AllDetached, IInv, TypeOK
  <2> QED
    BY <2>1, <2>2
<1>3. NewHolder.first = None /\ NewHolder.last = None /\ NewHolder.bufs = <<TextAfter(holder[h].bufs, TRUE)>>
  BY DEF NewHolder, TextAfter
<1>4. holder'[h] = NewHolder /\ holder' \in [Holders -> HolderType] /\ OthersKept(h)
  BY <1>1, NewHolderFields DEF IInv, TypeOK, OthersKept
<1> QED
  BY <1>1, <1>2, <1>3, <1>4 DEF StartsOver

LEMMA DestroyHolderStep ==
  ASSUME IInv, NEW h \in Holders, DestroyHolder(h)
  PROVE  IInv' /\ ListStep
BY DestroyHolderFields, StartsOverStep

\* q is r after a builder or an assembler started over; what a compiler is
\* after a failure is not said here.
IsReinit(e, r, text, q) ==
  /\ q \in EmitterType /\ KeepsLinks(r, q)
  /\ e \in Assemblers => q.section = 1 /\ q.data = text.data /\ q.off = text.size /\ q.end = text.cap
  /\ e \in Assemblers \/ "reinit" \notin Failures => KeepsSettings(r, q)

LEMMA ReinitFields ==
  ASSUME IInv, NEW h \in Holders, Reinit(h)
  PROVE  /\ holder' \in [Holders -> HolderType] /\ OthersKept(h) /\ EndsKept(h)
         /\ holder'[h].set = holder[h].set
         /\ holder'[h].bufs = <<TextAfter(holder[h].bufs, FALSE)>>
         /\ live' = live \ Released(holder[h].bufs, FALSE)
         /\ emitter' \in [Emitters -> EmitterType]
         /\ \A e \in Emitters : IF emitter[e].code = h
                                THEN IsReinit(e, emitter[e], TextAfter(holder[h].bufs, FALSE), emitter'[e])
                                ELSE emitter'[e] = emitter[e]
<1> DEFINE text == TextAfter(holder[h].bufs, FALSE)
           after(e) == IF e \in Listed(h) THEN OnReinit(e, emitter[e], text) ELSE {emitter[e]}
           bufs == <<text>>
           hd == [holder[h] EXCEPT !.bufs = bufs]
<1>0. TypeOK /\ Linked
  BY DEF IInv, LinksInv
<1>1. holder[h] \in HolderType /\ holder \in [Holders -> HolderType] /\ emitter \in [Emitters -> EmitterType]
  BY <1>0 DEF TypeOK
<1>2. /\ holder' = [holder EXCEPT ![h] = hd] /\ live' = live \ Released(holder[h].bufs, FALSE)
      /\ emitter' \in [Emitters -> UNION {after(e) : e \in Emitters}]
      /\ \A e \in Emitters : emitter'[e] \in after(e)
  BY <1>1 DEF Reinit
<1>3. text \in BufferType /\ bufs \in Seq(BufferType)
  <2>1. text = TextAfter(holder[h].bufs, FALSE)
    OBVIOUS
  <2>2. bufs = <<text>>
    OBVIOUS
  <2> HIDE DEF text, bufs
  <2> QED
    BY <2>1, <2>2, TextAfterFields
<1>4. ASSUME NEW e \in Emitters, emitter[e].code = h PROVE IsReinit(e, emitter[e], text, emitter'[e])
  <2> DEFINE r == emitter[e]
             q == emitter'[e]
  <2>1. e \in Listed(h)
    BY <1>0, <1>4, ListedHaveCode
  <2>2. q \in OnReinit(e, r, text)
    BY <1>2, <2>1
  <2>3. r \in EmitterType
    BY <1>1
  <2> HIDE DEF r, q, text
  <2>4. CASE e \in Assemblers
    <3>1. q = InitSection(r, 1, text) /\ 1 \in Nat
      BY <2>2, <2>4 DEF OnReinit
    <3>2. /\ q \in EmitterType /\ KeepsLinks(r, q) /\ KeepsSettings(r, q)
          /\ q.section = 1 /\ q.data = text.data /\ q.off = text.size /\ q.end = text.cap
      BY <1>3, <2>3, <3>1, SectionFields
    <3>3. IsReinit(e, r, text, q)
      BY <3>2 DEF IsReinit
    <3> QED
      BY <3>3 DEF r, q
  <2>5. CASE e \notin Assemblers
    <3>1. \/ q = r
          \/ "reinit" \in Failures /\ q = [r EXCEPT !.ready = FALSE]
          \/ "reinit" \in Failures /\ q = OnDetach(r)
      BY <2>2, <2>5 DEF OnReinit
    <3>2. CASE q = r
      BY <2>3, <2>5, <3>2 DEF IsReinit, KeepsLinks, KeepsSettings, r, q
    <3>3. CASE "reinit" \in Failures /\ q = [r EXCEPT !.ready = FALSE]
      <4>1. q \in EmitterType /\ KeepsLinks(r, q)
        BY <2>3, <3>3 DEF EmitterType, KeepsLinks
      <4> QED
        BY <2>5, <3>3, <4>1 DEF IsReinit, r, q
    <3>4. CASE "reinit" \in Failures /\ q = OnDetach(r)
      <4>1. IsDetached(r, q)
        BY <2>3, <3>4, DetachedFields
      <4> QED
        BY <2>5, <3>4, <4>1 DEF IsDetached, IsReinit, r, q
    <3> QED
      BY <3>1, <3>2, <3>3, <3>4
  <2> QED
    BY <2>4, <2>5
<1>5. ASSUME NEW e \in Emitters, emitter[e].code # h PROVE emitter'[e] = emitter[e]
  <2>1. e \notin Listed(h)
    BY <1>0, <1>5, ListedHaveCode
  <2> QED
    BY <1>2, <2>1
<1>6. emitter' \in [Emitters -> EmitterType]
  <2>1. \A e \in Emitters : emitter'[e] \in EmitterType
    BY <1>1, <1>4, <1>5 DEF IsReinit
  <2>2. emitter' = [e \in Emitters |-> emitter'[e]]
    <3> HIDE DEF after
    <3> QED
      BY <1>2
  <2> QED
    BY <2>1, <2>2
<1> HIDE DEF text, bufs
<1>7. /\ hd \in HolderType /\ hd.set = holder[h].set /\ hd.bufs = bufs
      /\ hd.init = holder[h].init /\ hd.first = holder[h].first /\ hd.last = holder[h].last
  BY <1>1, <1>3 DEF HolderType
<1> HIDE DEF hd
<1>8. holder'[h] = hd /\ holder' \in [Holders -> HolderType] /\ OthersKept(h)
  BY <1>1, <1>2, <1>7 DEF OthersKept
<1> QED
  BY <1>2, <1>4, <1>5, <1>6, <1>7, <1>8 DEF EndsKept, bufs, text

LEMMA ReinitStep ==
  ASSUME IInv, NEW h \in Holders, Reinit(h)
  PROVE  IInv' /\ ListStep
<1> DEFINE text == TextAfter(holder[h].bufs, FALSE)
<1>1. /\ holder'[h].bufs = <<text>> /\ live' = live \ Released(holder[h].bufs, FALSE) /\ TypeOK
      /\ OthersKept(h) /\ EndsKept(h)
      /\ \A e \in Emitters : IF emitter[e].code = h THEN IsReinit(e, emitter[e], text, emitter'[e])
                             ELSE emitter'[e] = emitter[e]
  BY ReinitFields DEF IInv
<1>2. /\ text \in BufferType /\ text.size = 0 /\ text.size <= text.cap
      /\ text.data = holder[h].bufs[1].data
      /\ <<text>> \in Seq(BufferType) /\ Len(<<text>>) \in 1 .. MaxSections
  <2>1. text = TextAfter(holder[h].bufs, FALSE)
    OBVIOUS
  <2> HIDE DEF text
  <2> QED
    BY <2>1, TextAfterFields
<1> HIDE DEF text
<1>3. \A k \in Holders : k # h => holder'[k] = holder[k]
  BY <1>1 DEF OthersKept
<1>4. TypeOK'
  <2>1. live' \subseteq Nat \ {Null} /\ IsFiniteSet(live')
    BY <1>1, ReleasedLive
  <2>2. \A k \in Holders : Len(holder'[k].bufs) \in 1 .. MaxSections
    BY <1>1, <1>2, <1>3 DEF TypeOK
  <2> QED
    BY <2>1, <2>2, ReinitFields DEF TypeOK
<1>5. \A e \in Emitters : KeepsLinks(emitter[e], emitter'[e])
  BY <1>1 DEF IsReinit, KeepsLinks
<1>6. LinksInv' /\ ListStep
  <2>1. LinksUntouched
    BY <1>1, <1>3, <1>5 DEF LinksUntouched, EndsKept
  <2> QED
    BY <2>1, LinksUntouchedStep DEF IInv
<1>7. PointersInv'
  <2>1. \A i \in DOMAIN holder'[h].bufs : holder'[h].bufs[i].size <= holder'[h].bufs[i].cap
    BY <1>1, <1>2
  <2>2. ASSUME NEW x \in Emitters, emitter'[x].code # None
        PROVE  /\ emitter'[x].code = emitter[x].code
               /\ emitter[x].code # h => KeepsPlace(emitter[x], emitter'[x])
               /\ emitter[x].code = h /\ x \in Assemblers => PlaceOK(emitter'[x], holder'[h].bufs)
    <3>1. emitter'[x].code = emitter[x].code
      BY <1>5 DEF KeepsLinks
    <3>2. ASSUME emitter[x].code # h PROVE KeepsPlace(emitter[x], emitter'[x])
      BY <1>1, <3>2 DEF KeepsPlace
    <3>3. ASSUME emitter[x].code = h, x \in Assemblers PROVE PlaceOK(emitter'[x], <<text>>)
      <4>1. /\ emitter'[x].section = 1 /\ emitter'[x].data = text.data
            /\ emitter'[x].off = text.size /\ emitter'[x].end = text.cap
        BY <1>1, <3>3 DEF IsReinit
      <4> QED
        BY <1>2, <4>1 DEF PlaceOK
    <3> QED
      BY <1>1, <3>1, <3>2, <3>3
  <2> QED
    BY <1>3, <2>1, <2>2, HolderPointersStep
<1>8. MemoryInv'
  <2>1. OwnMemory(holder[h].bufs, live) /\ 1 \in DOMAIN holder[h].bufs
    BY HolderMemory, BufsOf DEF IInv
  <2>2. Moves(holder[h].bufs, <<text>>, live, live \ Released(holder[h].bufs, FALSE))
    BY <1>2, <2>1, ResetMoves
  <2>3. Moves(holder[h].bufs, holder'[h].bufs, live, live')
    BY <1>1, <2>2
  <2> QED
    BY <1>3, <2>3, MovesKeepMemory DEF IInv
<1> QED
  BY <1>4, <1>6, <1>7, <1>8 DEF IInv

\* The record of h with other buffers.
LEMMA BufsChanged ==
  ASSUME IInv, NEW h \in Holders, NEW bufs \in Seq(BufferType), NEW hd,
         hd = [holder[h] EXCEPT !.bufs = bufs], holder' = [holder EXCEPT ![h] = hd]
  PROVE  /\ holder' \in [Holders -> HolderType] /\ OthersKept(h) /\ EndsKept(h)
         /\ holder'[h].set = holder[h].set /\ holder'[h].bufs = bufs
<1>1. holder[h] \in HolderType /\ holder \in [Holders -> HolderType]
  BY DEF IInv, TypeOK
<1>2. /\ hd \in HolderType /\ hd.set = holder[h].set /\ hd.bufs = bufs
      /\ hd.init = holder[h].init /\ hd.first = holder[h].first /\ hd.last = holder[h].last
  BY <1>1 DEF HolderType
<1>3. holder'[h] = hd /\ holder' \in [Holders -> HolderType] /\ OthersKept(h)
  BY <1>1, <1>2 DEF OthersKept
<1> QED
  BY <1>2, <1>3 DEF EndsKept

LEMMA NewSectionFields ==
  ASSUME IInv, NEW h \in Holders, NewSection(h)
  PROVE  /\ holder' \in [Holders -> HolderType] /\ OthersKept(h) /\ EndsKept(h)
         /\ holder'[h].set = holder[h].set
         /\ Len(holder'[h].bufs) \in 1 .. MaxSections
         /\ DOMAIN holder[h].bufs \subseteq DOMAIN holder'[h].bufs
         /\ \A i \in DOMAIN holder[h].bufs : holder'[h].bufs[i] = holder[h].bufs[i]
         /\ \A i \in DOMAIN holder'[h].bufs \ DOMAIN holder[h].bufs : holder'[h].bufs[i] = EmptyBuffer
         /\ emitter' = emitter /\ live' = live
<1> DEFINE old == holder[h].bufs
           new == Append(old, EmptyBuffer)
           hd == [holder[h] EXCEPT !.bufs = new]
<1>1. old \in Seq(BufferType) /\ EmptyBuffer \in BufferType
  BY NewHolderFields DEF IInv, TypeOK, HolderType
<1>2. holder' = [holder EXCEPT ![h] = hd] /\ emitter' = emitter /\ live' = live /\ Len(old) < MaxSections
  BY DEF NewSection, IInv, TypeOK
<1> HIDE DEF old
<1>3. PICK w : w = Len(old)
  OBVIOUS
<1>4. w \in Nat /\ DOMAIN old = 1 .. w
  BY <1>1, <1>3, LenProperties
<1>5. new \in Seq(BufferType) /\ Len(new) = w + 1 /\ \A i \in 1 .. w : new[i] = old[i]
  BY <1>1, <1>3, AppendProperties
<1>6. new[w + 1] = EmptyBuffer
  BY <1>1, <1>3, AppendProperties
<1>7. DOMAIN new = 1 .. w + 1
  BY <1>5, LenProperties
<1>8. w + 1 \in 1 .. MaxSections
  BY <1>2, <1>3, <1>4, CodeEmittersAssumption
<1> HIDE DEF new
<1>9. /\ holder' \in [Holders -> HolderType] /\ OthersKept(h) /\ EndsKept(h)
      /\ holder'[h].set = holder[h].set /\ holder'[h].bufs = new
  BY <1>2, <1>5, BufsChanged
<1>10. \A i \in DOMAIN new \ DOMAIN old : new[i] = EmptyBuffer
  <2>1. \A i \in 1 .. w + 1 : i \notin 1 .. w => i = w + 1
    BY <1>4
  <2> QED
    BY <1>4, <1>6, <1>7, <2>1
<1>11. DOMAIN old \subseteq DOMAIN new
  BY <1>4, <1>7
<1> QED
  BY <1>2, <1>4, <1>5, <1>8, <1>9, <1>10, <1>11 DEF old

LEMMA NewSectionStep ==
  ASSUME IInv, NEW h \in Holders, NewSection(h)
  PROVE  IInv' /\ ListStep
<1>1. \A k \in Holders : k # h => holder'[k] = holder[k]
  BY NewSectionFields DEF OthersKept
<1>2. TypeOK'
  BY <1>1, NewSectionFields DEF IInv, TypeOK
<1>3. LinksUntouched
  BY <1>1, NewSectionFields DEF LinksUntouched, KeepsLinks, EndsKept
<1>4. LinksInv' /\ ListStep
  BY <1>3, LinksUntouchedStep DEF IInv
<1>5. PointersInv'
  <2>1. ASSUME NEW i \in DOMAIN holder'[h].bufs PROVE holder'[h].bufs[i].size <= holder'[h].bufs[i].cap
    <3>1. CASE i \in DOMAIN holder[h].bufs
      BY <3>1, NewSectionFields DEF IInv, PointersInv, BuffersFit
    <3>2. CASE i \notin DOMAIN holder[h].bufs
      <4>1. holder'[h].bufs[i] = EmptyBuffer
        BY <3>2, NewSectionFields
      <4> QED
        BY <4>1 DEF EmptyBuffer
    <3> QED
      BY <3>1, <3>2
  <2>2. ASSUME NEW x \in Emitters, emitter'[x].code # None
        PROVE  /\ emitter'[x].code = emitter[x].code
               /\ emitter[x].code # h => KeepsPlace(emitter[x], emitter'[x])
               /\ emitter[x].code = h /\ x \in Assemblers => PlaceOK(emitter'[x], holder'[h].bufs)
    <3>1. emitter' = emitter
      BY NewSectionFields
    <3>2. ASSUME emitter[x].code = h, x \in Assemblers PROVE PlaceOK(emitter[x], holder'[h].bufs)
      <4>1. PlaceOK(emitter[x], holder[h].bufs)
        BY <2>2, <3>1, <3>2, PointersByPlace DEF IInv, PointersInv
      <4> QED
        BY <4>1, NewSectionFields DEF PlaceOK
    <3> QED
      BY <3>1, <3>2 DEF KeepsPlace
  <2> QED
    BY <1>1, <2>1, <2>2, HolderPointersStep
<1>6. MemoryInv'
  <2>1. OwnMemory(holder[h].bufs, live)
    BY HolderMemory DEF IInv
  <2>2. \A i \in DOMAIN holder'[h].bufs \ DOMAIN holder[h].bufs : holder'[h].bufs[i].data = Null
    BY NewSectionFields DEF EmptyBuffer
  <2>3. Moves(holder[h].bufs, holder'[h].bufs, live, live)
    BY <2>1, <2>2, NewSectionFields, AppendMoves
  <2>4. live' = live
    BY NewSectionFields
  <2> QED
    BY <1>1, <2>3, <2>4, MovesKeepMemory DEF IInv
<1> QED
  BY <1>2, <1>4, <1>5, <1>6 DEF IInv

-------------------------------------------------------------------------------
(* Buffers that grow *)

\* One buffer of h has become b, and the assemblers of h in that section know.
Regrown(h, i, b) ==
  /\ holder' \in [Holders -> HolderType] /\ OthersKept(h) /\ EndsKept(h)
  /\ holder'[h].set = holder[h].set /\ holder'[h].bufs = [holder[h].bufs EXCEPT ![i] = b]
  /\ b \in BufferType /\ b.size <= b.cap /\ holder[h].bufs[i].size <= b.size
  /\ Moves(holder[h].bufs, [holder[h].bufs EXCEPT ![i] = b], live, live')
  /\ live' \subseteq Nat \ {Null} /\ IsFiniteSet(live')
  /\ emitter' \in [Emitters -> EmitterType]
  /\ \A e \in Emitters :
       /\ KeepsLinks(emitter[e], emitter'[e]) /\ KeepsSettings(emitter[e], emitter'[e])
       /\ IF emitter[e].code = h /\ e \in Assemblers /\ emitter[e].section = i
          THEN /\ emitter'[e].section = i
               /\ emitter'[e].data = b.data /\ emitter'[e].end = b.cap /\ emitter'[e].off <= b.size
          ELSE KeepsPlace(emitter[e], emitter'[e])

LEMMA RegrownStep ==
  ASSUME IInv, NEW h \in Holders, NEW i \in DOMAIN holder[h].bufs, NEW b, Regrown(h, i, b)
  PROVE  IInv' /\ ListStep
<1> DEFINE old == holder[h].bufs
           new == [old EXCEPT ![i] = b]
<1>0. holder'[h].bufs = new /\ b \in BufferType /\ b.size <= b.cap /\ old[i].size <= b.size
  BY DEF Regrown
<1>1. \A k \in Holders : k # h => holder'[k] = holder[k]
  BY DEF Regrown, OthersKept
<1>2. DOMAIN new = DOMAIN old /\ new[i] = b /\ \A j \in DOMAIN old : j # i => new[j] = old[j]
  OBVIOUS
<1>3. TypeOK'
  <2>1. Len(new) = Len(old)
    <3>1. old \in Seq(BufferType)
      BY DEF IInv, TypeOK, HolderType
    <3> HIDE DEF old
    <3> QED
      BY <3>1
  <2>2. Len(holder'[h].bufs) \in 1 .. MaxSections
    BY <1>0, <2>1 DEF IInv, TypeOK
  <2>3. \A k \in Holders : Len(holder'[k].bufs) \in 1 .. MaxSections
    BY <1>1, <2>2 DEF IInv, TypeOK
  <2> QED
    BY <2>3 DEF Regrown, TypeOK
<1> HIDE DEF new
<1>4. LinksInv' /\ ListStep
  <2>1. LinksUntouched
    BY <1>1 DEF LinksUntouched, Regrown, EndsKept
  <2> QED
    BY <2>1, LinksUntouchedStep DEF IInv
<1>5. PointersInv'
  <2>1. ASSUME NEW j \in DOMAIN new PROVE new[j].size <= new[j].cap
    BY <1>0, <1>2 DEF IInv, PointersInv, BuffersFit
  <2>2. ASSUME NEW x \in Emitters, emitter'[x].code # None
        PROVE  /\ emitter'[x].code = emitter[x].code
               /\ emitter[x].code # h => KeepsPlace(emitter[x], emitter'[x])
               /\ emitter[x].code = h /\ x \in Assemblers => PlaceOK(emitter'[x], new)
    <3>1. emitter'[x].code = emitter[x].code
      BY DEF Regrown, KeepsLinks
    <3>2. ASSUME emitter[x].code # h PROVE KeepsPlace(emitter[x], emitter'[x])
      BY <3>2 DEF Regrown
    <3>3. ASSUME emitter[x].code = h, x \in Assemblers PROVE PlaceOK(emitter'[x], new)
      <4>1. PlaceOK(emitter[x], old)
        BY <2>2, <3>1, <3>3, PointersByPlace DEF IInv, PointersInv
      <4>2. CASE emitter[x].section = i
        <5>1. /\ emitter'[x].section = i
              /\ emitter'[x].data = b.data /\ emitter'[x].end = b.cap /\ emitter'[x].off <= b.size
          BY <3>3, <4>2 DEF Regrown
        <5> QED
          BY <1>0, <1>2, <5>1 DEF PlaceOK
      <4>3. CASE emitter[x].section # i
        <5>1. KeepsPlace(emitter[x], emitter'[x])
          BY <4>3 DEF Regrown
        <5>2. emitter[x].section \in DOMAIN old /\ new[emitter[x].section] = old[emitter[x].section]
          BY <1>2, <4>1, <4>3 DEF PlaceOK
        <5> HIDE DEF old
        <5> QED
          BY <1>2, <4>1, <5>1, <5>2 DEF PlaceOK, KeepsPlace
      <4> QED
        BY <4>2, <4>3
    <3> QED
      BY <3>1, <3>2, <3>3
  <2> QED
    BY <1>0, <1>1, <2>1, <2>2, HolderPointersStep
<1>6. MemoryInv'
  <2>1. Moves(holder[h].bufs, holder'[h].bufs, live, live')
    BY DEF Regrown
  <2> QED
    BY <1>1, <2>1, MovesKeepMemory DEF IInv
<1> QED
  BY <1>3, <1>4, <1>5, <1>6 DEF IInv

\* What has become of a buffer and of those who know it, before anything else
\* is written.
GrownTo(h, i, g) ==
  /\ g.buf \in BufferType /\ g.buf.size = holder[h].bufs[i].size
  /\ \A b : b.data = g.buf.data => Moves(holder[h].bufs, [holder[h].bufs EXCEPT ![i] = b], live, g.live)
  /\ g.live \subseteq Nat \ {Null} /\ IsFiniteSet(g.live)
  /\ g.emitters \in [Emitters -> EmitterType]
  /\ \A e \in Emitters :
       /\ KeepsLinks(emitter[e], g.emitters[e]) /\ KeepsSettings(emitter[e], g.emitters[e])
       /\ g.emitters[e].section = emitter[e].section /\ g.emitters[e].off = emitter[e].off
       /\ IF emitter[e].code = h /\ e \in Assemblers /\ emitter[e].section = i
          THEN g.emitters[e].data = g.buf.data /\ g.emitters[e].end = g.buf.cap
          ELSE KeepsPlace(emitter[e], g.emitters[e])

LEMMA RefreshedFields ==
  ASSUME TypeOK, Linked, NEW h \in Holders, NEW i \in Nat, NEW d \in Nat, NEW n \in Nat,
         NEW ems, ems = Refreshed(h, i, d, n)
  PROVE  /\ ems \in [Emitters -> EmitterType]
         /\ \A e \in Emitters :
              /\ KeepsLinks(emitter[e], ems[e]) /\ KeepsSettings(emitter[e], ems[e])
              /\ ems[e].section = emitter[e].section /\ ems[e].off = emitter[e].off
              /\ IF emitter[e].code = h /\ e \in Assemblers /\ emitter[e].section = i
                 THEN ems[e].data = d /\ ems[e].end = n
                 ELSE KeepsPlace(emitter[e], ems[e])
<1>1. emitter \in [Emitters -> EmitterType]
  BY DEF TypeOK
<1>2. \A e \in Emitters : e \in Listed(h) <=> emitter[e].code = h
  BY ListedHaveCode
<1> DEFINE Told(e) == e \in Listed(h) \cap Assemblers /\ emitter[e].section = i
           new(e) == [emitter[e] EXCEPT !.data = d, !.end = n]
<1>3. ems = [e \in Emitters |-> IF Told(e) THEN new(e) ELSE emitter[e]]
  BY DEF Refreshed
<1>4. ASSUME NEW e \in Emitters
      PROVE  /\ new(e) \in EmitterType /\ KeepsLinks(emitter[e], new(e)) /\ KeepsSettings(emitter[e], new(e))
             /\ new(e).section = emitter[e].section /\ new(e).off = emitter[e].off
             /\ new(e).data = d /\ new(e).end = n
  <2> DEFINE r == emitter[e]
             q == [r EXCEPT !.data = d, !.end = n]
  <2>1. r \in EmitterType
    BY <1>1
  <2> HIDE DEF r
  <2>2. /\ q \in EmitterType /\ KeepsLinks(r, q) /\ KeepsSettings(r, q)
        /\ q.section = r.section /\ q.off = r.off /\ q.data = d /\ q.end = n
    BY <2>1 DEF EmitterType, KeepsLinks, KeepsSettings
  <2> HIDE DEF new, q
  <2>3. new(e) = q
    BY DEF new, q, r
  <2> QED
    BY <2>2, <2>3 DEF r
<1> HIDE DEF new
<1>5. \A e \in Emitters : Told(e) <=> emitter[e].code = h /\ e \in Assemblers /\ emitter[e].section = i
  BY <1>2
<1> HIDE DEF Told
<1>6. \A e \in Emitters : ems[e] = IF Told(e) THEN new(e) ELSE emitter[e]
  BY <1>3
<1>7. ems \in [Emitters -> EmitterType]
  <2>1. \A e \in Emitters : ems[e] \in EmitterType
    BY <1>1, <1>4, <1>6
  <2>2. ems = [e \in Emitters |-> ems[e]]
    BY <1>3
  <2> QED
    BY <2>1, <2>2
<1>8. ASSUME NEW e \in Emitters
      PROVE  /\ KeepsLinks(emitter[e], ems[e]) /\ KeepsSettings(emitter[e], ems[e])
             /\ ems[e].section = emitter[e].section /\ ems[e].off = emitter[e].off
             /\ IF emitter[e].code = h /\ e \in Assemblers /\ emitter[e].section = i
                THEN ems[e].data = d /\ ems[e].end = n
                ELSE KeepsPlace(emitter[e], ems[e])
  <2>1. CASE Told(e)
    BY <2>1, <1>4, <1>5, <1>6
  <2>2. CASE ~Told(e)
    <3>1. ems[e] = emitter[e]
      BY <2>2, <1>6
    <3> QED
      BY <2>2, <3>1, <1>5 DEF KeepsLinks, KeepsSettings, KeepsPlace
  <2> QED
    BY <2>1, <2>2
<1> QED
  BY <1>7, <1>8

LEMMA ReserveInternalGrows ==
  ASSUME IInv, NEW h \in Holders, NEW i \in DOMAIN holder[h].bufs, NEW n \in Nat,
         NEW g \in ReserveInternal(h, i, n)
  PROVE  GrownTo(h, i, g) /\ g.buf.cap = n
<1> DEFINE b == holder[h].bufs[i]
           fresh == FreeAddress(live)
           at(d) == [buf |-> [b EXCEPT !.data = d, !.cap = n],
                     emitters |-> Refreshed(h, i, d, n),
                     live |-> (live \ {b.data}) \cup {d}]
<1>0. TypeOK /\ Linked /\ IsFiniteSet(live) /\ live \subseteq Nat \ {Null}
  BY DEF IInv, LinksInv, TypeOK
<1>1. b \in BufferType /\ i \in Nat
  BY <1>0, BufsOf
<1>2. fresh \in Nat \ {0} /\ fresh \notin live
  BY <1>0, FreeAddressIsFree
<1>3. PICK d \in {fresh} \cup ({b.data} \ {Null}) : g = at(d)
  BY DEF ReserveInternal
<1> HIDE DEF fresh
<1>4. d \in Nat /\ d # Null /\ (d = b.data \/ d \notin live)
  BY <1>1, <1>2, <1>3 DEF BufferType, Null
<1> DEFINE buf == [b EXCEPT !.data = d, !.cap = n]
           ems == Refreshed(h, i, d, n)
           after == (live \ {b.data}) \cup {d}
<1>5. g.buf = buf /\ g.emitters = ems /\ g.live = after
  BY <1>3
<1>6. buf \in BufferType /\ buf.size = b.size /\ buf.cap = n /\ buf.data = d
  <2> HIDE DEF b
  <2> QED
    BY <1>1, <1>4 DEF BufferType
<1>7. /\ ems \in [Emitters -> EmitterType]
      /\ \A e \in Emitters :
           /\ KeepsLinks(emitter[e], ems[e]) /\ KeepsSettings(emitter[e], ems[e])
           /\ ems[e].section = emitter[e].section /\ ems[e].off = emitter[e].off
           /\ IF emitter[e].code = h /\ e \in Assemblers /\ emitter[e].section = i
              THEN ems[e].data = d /\ ems[e].end = n
              ELSE KeepsPlace(emitter[e], ems[e])
  <2>1. ems = Refreshed(h, i, d, n)
    OBVIOUS
  <2> HIDE DEF ems
  <2> QED
    BY <1>0, <1>1, <1>4, <2>1, RefreshedFields
<1> HIDE DEF at, ems, buf
<1>8. after \subseteq Nat \ {Null} /\ IsFiniteSet(after)
  <2>1. IsFiniteSet(live \ {b.data})
    BY <1>0, FS_Subset
  <2>2. IsFiniteSet(after)
    BY <2>1, FS_AddElement
  <2> QED
    BY <1>0, <1>4, <2>2
<1>9. ASSUME NEW b2, b2.data = d
      PROVE  Moves(holder[h].bufs, [holder[h].bufs EXCEPT ![i] = b2], live, after)
  <2>1. OwnMemory(holder[h].bufs, live)
    BY <1>0, HolderMemory DEF IInv
  <2>2. b2.data # Null /\ (b2.data = holder[h].bufs[i].data \/ b2.data \notin live)
    BY <1>4, <1>9
  <2>3. Moves(holder[h].bufs, [holder[h].bufs EXCEPT ![i] = b2], live,
              (live \ {holder[h].bufs[i].data}) \cup {b2.data})
    BY <2>1, <2>2, ReallocMoves
  <2> QED
    BY <1>9, <2>3
<1> HIDE DEF after
<1> QED
  BY <1>5, <1>6, <1>7, <1>8, <1>9 DEF GrownTo

LEMMA BufPut ==
  ASSUME IInv, NEW h \in Holders, NEW i \in DOMAIN holder[h].bufs, NEW b \in BufferType,
         holder' = [holder EXCEPT ![h].bufs[i] = b]
  PROVE  /\ holder' \in [Holders -> HolderType] /\ OthersKept(h) /\ EndsKept(h)
         /\ holder'[h].set = holder[h].set /\ holder'[h].bufs = [holder[h].bufs EXCEPT ![i] = b]
<1> DEFINE old == holder[h].bufs
           bufs == [old EXCEPT ![i] = b]
           hd == [holder[h] EXCEPT !.bufs = bufs]
<1>1. old \in Seq(BufferType) /\ holder \in [Holders -> HolderType]
  BY DEF IInv, TypeOK, HolderType
<1>2. bufs \in Seq(BufferType)
  <2>0. i \in DOMAIN old
    OBVIOUS
  <2> HIDE DEF old
  <2>1. PICK w : w = Len(old)
    OBVIOUS
  <2>2. w \in Nat /\ DOMAIN old = 1 .. w /\ old \in [1 .. w -> BufferType]
    BY <1>1, <2>1, LenProperties
  <2>3. bufs \in [1 .. w -> BufferType]
    BY <2>0, <2>2
  <2> HIDE DEF bufs
  <2> QED
    BY <2>2, <2>3
<1>3. holder' = [holder EXCEPT ![h] = hd]
  BY <1>1
<1>4. hd = [holder[h] EXCEPT !.bufs = bufs]
  OBVIOUS
<1> HIDE DEF hd, bufs
<1>5. /\ holder' \in [Holders -> HolderType] /\ OthersKept(h) /\ EndsKept(h)
      /\ holder'[h].set = holder[h].set /\ holder'[h].bufs = bufs
  BY <1>2, <1>3, <1>4, BufsChanged
<1> QED
  BY <1>5 DEF bufs

LEMMA ReserveBufferFields ==
  ASSUME IInv, NEW h \in Holders, NEW i \in DOMAIN holder[h].bufs, NEW n \in ReserveSizes,
         ReserveBuffer(h, i, n)
  PROVE  \E b : Regrown(h, i, b)
<1> DEFINE old == holder[h].bufs[i]
<1>0. n \in Nat /\ n > old.cap /\ old \in BufferType /\ old.size <= old.cap
  BY CodeEmittersAssumption, BufsOf DEF ReserveBuffer, IInv, PointersInv, BuffersFit
<1>1. PICK g \in ReserveInternal(h, i, n) :
         holder' = [holder EXCEPT ![h].bufs[i] = g.buf] /\ emitter' = g.emitters /\ live' = g.live
  BY DEF ReserveBuffer
<1>2. GrownTo(h, i, g) /\ g.buf.cap = n
  BY <1>0, ReserveInternalGrows
<1> DEFINE b == g.buf
<1>3. b \in BufferType /\ b.size = old.size /\ b.cap = n /\ b.size <= b.cap /\ old.size <= b.size
  <2>1. b \in BufferType /\ b.size = old.size /\ b.cap = n
    BY <1>2 DEF GrownTo
  <2> HIDE DEF b, old
  <2> QED
    BY <1>0, <2>1 DEF BufferType
<1>4. /\ holder' \in [Holders -> HolderType] /\ OthersKept(h) /\ EndsKept(h)
      /\ holder'[h].set = holder[h].set /\ holder'[h].bufs = [holder[h].bufs EXCEPT ![i] = b]
  <2>1. holder' = [holder EXCEPT ![h].bufs[i] = b]
    BY <1>1
  <2>2. b \in BufferType
    BY <1>3
  <2> HIDE DEF b
  <2>3. holder' \in [Holders -> HolderType] /\ OthersKept(h) /\ EndsKept(h)
    BY <2>1, <2>2, BufPut
  <2>4. holder'[h].set = holder[h].set
    BY <2>1, <2>2, BufPut
  <2>5. holder'[h].bufs = [holder[h].bufs EXCEPT ![i] = b]
    <3>1. holder \in [Holders -> HolderType]
      BY DEF IInv, TypeOK
    <3> QED
      BY <2>1, <3>1 DEF HolderType
  <2> QED
    BY <2>3, <2>4, <2>5
<1>5. Moves(holder[h].bufs, [holder[h].bufs EXCEPT ![i] = b], live, live')
  BY <1>1, <1>2 DEF GrownTo
<1>6. live' \subseteq Nat \ {Null} /\ IsFiniteSet(live') /\ emitter' \in [Emitters -> EmitterType]
  BY <1>1, <1>2 DEF GrownTo
<1>7. ASSUME NEW e \in Emitters
      PROVE  /\ KeepsLinks(emitter[e], emitter'[e]) /\ KeepsSettings(emitter[e], emitter'[e])
             /\ IF emitter[e].code = h /\ e \in Assemblers /\ emitter[e].section = i
                THEN /\ emitter'[e].section = i
                     /\ emitter'[e].data = b.data /\ emitter'[e].end = b.cap /\ emitter'[e].off <= b.size
                ELSE KeepsPlace(emitter[e], emitter'[e])
  <2>1. /\ KeepsLinks(emitter[e], emitter'[e]) /\ KeepsSettings(emitter[e], emitter'[e])
        /\ emitter'[e].section = emitter[e].section /\ emitter'[e].off = emitter[e].off
        /\ IF emitter[e].code = h /\ e \in Assemblers /\ emitter[e].section = i
           THEN emitter'[e].data = b.data /\ emitter'[e].end = b.cap
           ELSE KeepsPlace(emitter[e], emitter'[e])
    BY <1>1, <1>2 DEF GrownTo
  <2>2. ASSUME emitter[e].code = h, e \in Assemblers, emitter[e].section = i PROVE emitter[e].off <= b.size
    <3>1. emitter[e].code # None
      BY <2>2, CodeEmittersAssumption
    <3>2. PlaceOK(emitter[e], holder[h].bufs)
      BY <2>2, <3>1, PointersByPlace DEF IInv, PointersInv
    <3> QED
      BY <1>3, <2>2, <3>2 DEF PlaceOK
  <2> HIDE DEF b
  <2> QED
    BY <2>1, <2>2
<1> HIDE DEF b
<1>8. Regrown(h, i, b)
  BY <1>3, <1>4, <1>5, <1>6, <1>7 DEF Regrown
<1> QED
  BY <1>8

LEMMA ReserveBufferStep ==
  ASSUME IInv, NEW h \in Holders, NEW i \in DOMAIN holder[h].bufs, NEW n \in ReserveSizes,
         ReserveBuffer(h, i, n)
  PROVE  IInv' /\ ListStep
BY ReserveBufferFields, RegrownStep

\* There is room for what is written, in the buffer as it was or as it grew.
LEMMA EnsureSpaceGrows ==
  ASSUME IInv, NEW e \in Assemblers, NEW n \in EmitSizes, emitter[e].code # None,
         NEW g \in EnsureSpace(e, n)
  PROVE  /\ GrownTo(emitter[e].code, emitter[e].section, g)
         /\ emitter[e].off + n <= g.buf.cap /\ g.buf.size <= g.buf.cap
<1> DEFINE r == emitter[e]
           h == r.code
           i == r.section
           b == holder[h].bufs[i]
           same == [buf |-> b, emitters |-> emitter, live |-> live]
<1>0. e \in Emitters /\ n \in Nat
  BY CodeEmittersAssumption DEF Emitters
<1>1. r \in EmitterType /\ h \in Holders /\ TypeOK
  BY <1>0 DEF IInv, TypeOK, EmitterType
<1>2. PlaceOK(r, holder[h].bufs)
  BY PointersByPlace DEF IInv, PointersInv
<1>3. i \in DOMAIN holder[h].bufs /\ r.data = b.data /\ r.end = b.cap /\ r.off <= b.size /\ b.size <= b.cap
  BY <1>2 DEF PlaceOK
<1>4. b \in BufferType
  BY <1>1, <1>3, BufsOf
<1>5. PICK off \in Nat, size \in Nat, cap \in Nat : off = r.off /\ size = b.size /\ cap = b.cap
  BY <1>1, <1>4 DEF EmitterType, BufferType
<1>6. off <= size /\ size <= cap
  BY <1>3, <1>5
<1>7. g \in IF cap - off >= n \/ size + n <= cap THEN {same}
            ELSE ReserveInternal(h, i, GrownCapacity(cap, size + n))
  BY <1>3, <1>5 DEF EnsureSpace
<1>8. CASE cap - off >= n \/ size + n <= cap
  <2>1. g = same
    BY <1>7, <1>8
  <2>2. g.buf = b /\ g.emitters = emitter /\ g.live = live
    BY <2>1
  <2>3. off + n <= cap
    BY <1>0, <1>6, <1>8
  <2>4. ASSUME NEW b2, b2.data = b.data
        PROVE  Moves(holder[h].bufs, [holder[h].bufs EXCEPT ![i] = b2], live, live)
    <3>1. OwnMemory(holder[h].bufs, live)
      BY <1>1, HolderMemory DEF IInv
    <3>2. b2.data = holder[h].bufs[i].data
      BY <2>4
    <3> QED
      BY <1>3, <3>1, <3>2, SizeMoves
  <2>5. ASSUME NEW x \in Emitters
        PROVE  /\ KeepsLinks(emitter[x], emitter[x]) /\ KeepsSettings(emitter[x], emitter[x])
               /\ IF emitter[x].code = h /\ x \in Assemblers /\ emitter[x].section = i
                  THEN emitter[x].data = b.data /\ emitter[x].end = b.cap
                  ELSE KeepsPlace(emitter[x], emitter[x])
    <3>1. ASSUME emitter[x].code = h, x \in Assemblers, emitter[x].section = i
          PROVE  emitter[x].data = b.data /\ emitter[x].end = b.cap
      <4>1. PlaceOK(emitter[x], holder[h].bufs)
        BY <3>1, PointersByPlace DEF IInv, PointersInv
      <4> QED
        BY <3>1, <4>1 DEF PlaceOK
    <3> QED
      BY <3>1 DEF KeepsLinks, KeepsSettings, KeepsPlace
  <2>6. GrownTo(h, i, g)
    BY <1>1, <1>4, <2>2, <2>4, <2>5 DEF GrownTo, TypeOK
  <2> QED
    BY <1>5, <1>6, <2>2, <2>3, <2>6
<1>9. CASE ~(cap - off >= n \/ size + n <= cap)
  <2>1. PICK required \in Nat : required = size + n
    BY <1>0
  <2>2. PICK c \in Nat : c = GrownCapacity(cap, required) /\ c >= required
    BY GrownCapacitySuffices
  <2>3. g \in ReserveInternal(h, i, c)
    BY <1>7, <1>9, <2>1, <2>2
  <2> HIDE DEF h, i
  <2>4. GrownTo(h, i, g) /\ g.buf.cap = c
    BY <1>1, <1>3, <2>3, ReserveInternalGrows
  <2>5. g.buf.size = size
    BY <1>5, <2>4 DEF GrownTo
  <2>6. off + n <= c /\ size <= c
    BY <1>0, <1>6, <2>1, <2>2
  <2> QED
    BY <1>5, <2>4, <2>5, <2>6 DEF h, i
<1> QED
  BY <1>8, <1>9

LEMMA EmitFields ==
  ASSUME IInv, NEW e \in Assemblers, NEW n \in EmitSizes, Emit(e, n)
  PROVE  /\ emitter[e].code \in Holders /\ emitter[e].section \in DOMAIN holder[emitter[e].code].bufs
         /\ \E b : Regrown(emitter[e].code, emitter[e].section, b)
<1> DEFINE h == emitter[e].code
           i == emitter[e].section
           old == holder[h].bufs[i]
<1>0. e \in Emitters /\ n \in Nat /\ h # None
  BY CodeEmittersAssumption DEF Emitters, Emit
<1>1. emitter[e] \in EmitterType /\ h \in Holders /\ TypeOK
  BY <1>0 DEF IInv, TypeOK, EmitterType
<1>2. PlaceOK(emitter[e], holder[h].bufs)
  BY <1>0, PointersByPlace DEF IInv, PointersInv
<1>3. i \in DOMAIN holder[h].bufs
  BY <1>2 DEF PlaceOK
<1>4. PICK g \in EnsureSpace(e, n) : Done(e, n, g)
  BY DEF Emit
<1>5. /\ GrownTo(h, i, g)
      /\ emitter[e].off + n <= g.buf.cap /\ g.buf.size <= g.buf.cap
  BY <1>0, <1>4, EnsureSpaceGrows
<1> DEFINE r == g.emitters[e]
<1>6. /\ r \in EmitterType /\ r.code = h /\ r.section = i /\ r.off = emitter[e].off
      /\ r.data = g.buf.data /\ r.end = g.buf.cap
      /\ KeepsLinks(emitter[e], r) /\ KeepsSettings(emitter[e], r)
  <2>1. h = emitter[e].code /\ i = emitter[e].section
    OBVIOUS
  <2> HIDE DEF h, i
  <2> QED
    BY <1>0, <1>5, <2>1 DEF GrownTo, KeepsLinks
<1> DEFINE end == r.off + n
           buf == g.buf
           b == [buf EXCEPT !.size = IF end > @ THEN end ELSE @]
           q == [r EXCEPT !.off = end]
<1>7. emitter' = [g.emitters EXCEPT ![e] = q] /\ live' = g.live
  BY <1>4 DEF Done
<1>8. holder' = [holder EXCEPT ![h].bufs[i] = b]
  <2>1. holder' = [holder EXCEPT ![r.code].bufs[r.section] = [g.buf EXCEPT !.size = IF r.off + n > @ THEN r.off + n ELSE @]]
    BY <1>4 DEF Done
  <2> HIDE DEF r, h, i
  <2> QED
    BY <1>6, <2>1
<1> HIDE DEF r, h, i
<1>9. end \in Nat /\ end <= buf.cap
  BY <1>0, <1>5, <1>6 DEF EmitterType
<1>10. buf \in BufferType /\ buf.size = old.size /\ buf.size <= buf.cap
  BY <1>5 DEF GrownTo
<1> HIDE DEF buf, end, old
<1>11. b \in BufferType /\ b.size <= b.cap /\ old.size <= b.size /\ end <= b.size /\ b.cap = buf.cap /\ b.data = buf.data
  <2>1. PICK x \in Nat : x = buf.size
    BY <1>10 DEF BufferType
  <2>2. b = [buf EXCEPT !.size = IF end > x THEN end ELSE x]
    BY <1>10, <2>1 DEF BufferType
  <2>3. CASE end > x
    <3>1. b = [buf EXCEPT !.size = end]
      BY <2>2, <2>3
    <3> QED
      BY <1>9, <1>10, <2>1, <2>3, <3>1 DEF BufferType
  <2>4. CASE ~(end > x)
    <3>1. b = [buf EXCEPT !.size = x]
      BY <2>2, <2>4
    <3> QED
      BY <1>9, <1>10, <2>1, <2>4, <3>1 DEF BufferType
  <2> QED
    BY <2>3, <2>4
<1> HIDE DEF b
<1>12. /\ q \in EmitterType /\ KeepsLinks(r, q) /\ KeepsSettings(r, q)
       /\ q.section = r.section /\ q.data = r.data /\ q.end = r.end /\ q.off = end
  BY <1>6, <1>9 DEF EmitterType, KeepsLinks, KeepsSettings
<1> HIDE DEF q
<1>13. /\ holder' \in [Holders -> HolderType] /\ OthersKept(h) /\ EndsKept(h)
       /\ holder'[h].set = holder[h].set /\ holder'[h].bufs = [holder[h].bufs EXCEPT ![i] = b]
  BY ZenonT(60), <1>1, <1>3, <1>8, <1>11, BufPut
<1>14. Moves(holder[h].bufs, [holder[h].bufs EXCEPT ![i] = b], live, live')
  BY <1>5, <1>7, <1>11 DEF GrownTo, buf
<1>15. /\ live' \subseteq Nat \ {Null} /\ IsFiniteSet(live') /\ emitter' \in [Emitters -> EmitterType]
       /\ emitter'[e] = q /\ \A x \in Emitters : x # e => emitter'[x] = g.emitters[x]
  <2> DEFINE ems == g.emitters
  <2>1. ems \in [Emitters -> EmitterType]
    BY <1>5 DEF GrownTo
  <2>2. live' \subseteq Nat \ {Null} /\ IsFiniteSet(live')
    BY <1>5, <1>7 DEF GrownTo
  <2>3. emitter' = [ems EXCEPT ![e] = q]
    BY <1>7
  <2>4. q \in EmitterType /\ e \in Emitters
    BY <1>0, <1>12
  <2>5. \A x \in Emitters : ems[x] = g.emitters[x]
    OBVIOUS
  <2> HIDE DEF ems
  <2>6. emitter' \in [Emitters -> EmitterType] /\ emitter'[e] = q
        /\ \A x \in Emitters : x # e => emitter'[x] = ems[x]
    BY <2>1, <2>3, <2>4
  <2> QED
    BY <2>2, <2>5, <2>6
<1>16. ASSUME NEW x \in Emitters
       PROVE  /\ KeepsLinks(emitter[x], emitter'[x]) /\ KeepsSettings(emitter[x], emitter'[x])
              /\ IF emitter[x].code = h /\ x \in Assemblers /\ emitter[x].section = i
                 THEN /\ emitter'[x].section = i
                      /\ emitter'[x].data = b.data /\ emitter'[x].end = b.cap /\ emitter'[x].off <= b.size
                 ELSE KeepsPlace(emitter[x], emitter'[x])
  <2>1. CASE x = e
    <3>1. emitter[e].code = h /\ emitter[e].section = i
      BY DEF h, i
    <3> QED
      BY <2>1, <3>1, <1>6, <1>11, <1>12, <1>15 DEF KeepsLinks, KeepsSettings, buf
  <2>2. CASE x # e
    <3>1. /\ KeepsLinks(emitter[x], emitter'[x]) /\ KeepsSettings(emitter[x], emitter'[x])
          /\ emitter'[x].section = emitter[x].section /\ emitter'[x].off = emitter[x].off
          /\ IF emitter[x].code = h /\ x \in Assemblers /\ emitter[x].section = i
             THEN emitter'[x].data = buf.data /\ emitter'[x].end = buf.cap
             ELSE KeepsPlace(emitter[x], emitter'[x])
      BY <1>5, <1>15, <2>2 DEF GrownTo, buf
    <3>2. ASSUME emitter[x].code = h, x \in Assemblers, emitter[x].section = i PROVE emitter[x].off <= b.size
      <4>1. PlaceOK(emitter[x], holder[h].bufs)
        BY <1>0, <3>2, PointersByPlace DEF IInv, PointersInv, h
      <4>2. emitter[x].off <= old.size
        BY <3>2, <4>1 DEF PlaceOK, old
      <4>3. emitter[x].off \in Nat /\ old.size \in Nat /\ b.size \in Nat
        BY <1>1, <1>10, <1>11 DEF TypeOK, EmitterType, BufferType
      <4> QED
        BY <1>11, <4>2, <4>3
    <3> QED
      BY <1>11, <3>1, <3>2
  <2> QED
    BY <2>1, <2>2
<1>17. Regrown(h, i, b)
  BY <1>11, <1>13, <1>14, <1>15, <1>16 DEF Regrown, old
<1> QED
  BY <1>1, <1>3, <1>17 DEF h, i

LEMMA EmitStep ==
  ASSUME IInv, NEW e \in Assemblers, NEW n \in EmitSizes, Emit(e, n)
  PROVE  IInv' /\ ListStep
BY EmitFields, RegrownStep

-------------------------------------------------------------------------------
(* Theorems *)

LEMMA InitIInv == Init => IInv
<1> SUFFICES ASSUME Init PROVE IInv
  OBVIOUS
<1>0. holder = [h \in Holders |-> NewHolder] /\ emitter = [e \in Emitters |-> NewEmitter] /\ live = {}
  BY DEF Init
<1>1. /\ NewHolder.first = None /\ NewHolder.last = None /\ NewHolder.bufs = <<EmptyBuffer>>
      /\ NewEmitter.code = None /\ NewEmitter.prev = None /\ NewEmitter.next = None
      /\ EmptyBuffer.data = Null /\ EmptyBuffer.size = 0 /\ EmptyBuffer.cap = 0
  BY DEF NewHolder, NewEmitter, EmptyBuffer
<1>2. \A h \in Holders : holder[h] = NewHolder /\ Len(holder[h].bufs) = 1 /\ DOMAIN holder[h].bufs = {1}
                         /\ holder[h].bufs[1] = EmptyBuffer
  BY <1>0, <1>1
<1>3. TypeOK
  <2>1. IsFiniteSet(live)
    BY <1>0, FS_EmptySet
  <2>2. 1 \in 1 .. MaxSections
    BY CodeEmittersAssumption
  <2> QED
    BY <1>0, <1>2, <2>1, <2>2, NewHolderFields, NewEmitterFields DEF TypeOK
<1>4. LinksInv
  <2>1. ASSUME NEW h \in Holders PROVE Lists(h, 0, <<>>)
    <3>1. \A e \in Emitters : emitter[e].code # h
      BY <1>0, <1>1, CodeEmittersAssumption
    <3> QED
      BY <1>1, <1>2, <3>1, EmptyList DEF Lists
  <2>2. Linked
    BY <2>1 DEF Linked
  <2> QED
    BY <1>0, <1>1, <2>2 DEF LinksInv, FreeUnlinked, OnlyInitialized
<1>5. PointersInv
  <2>1. PointersAgree
    BY <1>0, <1>1 DEF PointersAgree, Emitters
  <2>2. BuffersFit
    BY <1>1, <1>2 DEF BuffersFit
  <2> QED
    BY <2>1, <2>2 DEF PointersInv
<1>6. MemoryInv
  BY <1>0, <1>1, <1>2 DEF MemoryInv, DataAreLive, LiveHasPlace, OnePlaceEach
<1> QED
  BY <1>3, <1>4, <1>5, <1>6 DEF IInv

LEMMA NextStep ==
  ASSUME "attach" \notin Failures, IInv, [Next]_vars
  PROVE  IInv' /\ ListStep
<1>1. CASE UNCHANGED vars
  <2>1. holder' = holder /\ emitter' = emitter /\ live' = live
    BY <1>1 DEF vars
  <2>2. TypeOK'
    BY <2>1 DEF IInv, TypeOK
  <2>3. LinksUntouched /\ PlacesUntouched
    BY <2>1 DEF LinksUntouched, PlacesUntouched, KeepsLinks, KeepsPlace
  <2> QED
    BY <2>1, <2>2, <2>3, QuietStep
<1>2. ASSUME NEW h \in Holders,
             InitHolder(h) \/ Reinit(h) \/ DestroyHolder(h) \/ NewSection(h)
      PROVE  IInv' /\ ListStep
  BY <1>2, InitHolderStep, ReinitStep, DestroyHolderStep, NewSectionStep
<1>3. ASSUME NEW h \in Holders, NEW hard \in BOOLEAN, Reset(h, hard) PROVE IInv' /\ ListStep
  BY <1>3, ResetStep
<1>4. ASSUME NEW h \in Holders, NEW s \in Settings, NEW v \in {None, h}, HolderSet(h, s, v)
      PROVE  IInv' /\ ListStep
  BY <1>4, HolderSetStep
<1>5. ASSUME NEW h \in Holders, NEW i \in DOMAIN holder[h].bufs, NEW n \in ReserveSizes, ReserveBuffer(h, i, n)
      PROVE  IInv' /\ ListStep
  BY <1>5, ReserveBufferStep
<1>6. ASSUME NEW h \in Holders, NEW e \in Emitters, Attach(h, e) PROVE IInv' /\ ListStep
  BY <1>6, AttachStep
<1>7. ASSUME NEW e \in Emitters, Detach(e) \/ DestroyEmitter(e) PROVE IInv' /\ ListStep
  BY <1>7, DetachStep, DestroyEmitterStep
<1>8. ASSUME NEW e \in Emitters, NEW s \in Settings, NEW v \in {None, e}, EmitterSet(e, s, v)
      PROVE  IInv' /\ ListStep
  BY <1>8, EmitterSetStep
<1>9. ASSUME NEW e \in Diagnosed, NEW on \in BOOLEAN, SetDiagnostics(e, on) PROVE IInv' /\ ListStep
  BY <1>9, SetDiagnosticsStep, CodeEmittersAssumption
<1>10. ASSUME NEW e \in Assemblers, NEW i \in 1 .. MaxSections, SetSection(e, i) PROVE IInv' /\ ListStep
  BY <1>10, SetSectionStep
<1>11. ASSUME NEW e \in Assemblers, NEW o \in Offsets, SetOffset(e, o) PROVE IInv' /\ ListStep
  BY <1>11, SetOffsetStep
<1>12. ASSUME NEW e \in Assemblers, NEW n \in EmitSizes, Emit(e, n) PROVE IInv' /\ ListStep
  BY <1>12, EmitStep
<1> QED
  BY <1>1, <1>2, <1>3, <1>4, <1>5, <1>6, <1>7, <1>8, <1>9, <1>10, <1>11, <1>12 DEF Next

\* The lists, the records of the buffers and the pointers into them describe
\* each other in every reachable state, if on_attach() does not fail: a builder
\* whose node cannot be allocated keeps its holder and is in no list.
THEOREM InductiveInvariant ==
  ASSUME "attach" \notin Failures
  PROVE  Spec => []IInv
<1>1. IInv /\ [Next]_vars => IInv'
  BY NextStep
<1> QED
  BY <1>1, InitIInv, PTL DEF Spec

\* PointersAgree: whoever makes a buffer grow, all assemblers of its section
\* point into it as it is now, and write inside of what is allocated.
THEOREM PointersAreFresh ==
  ASSUME "attach" \notin Failures
  PROVE  Spec => []PointersAgree
<1>1. IInv => PointersAgree
  BY DEF IInv, PointersInv
<1> QED
  BY <1>1, InductiveInvariant, PTL

\* MemoryAccounted: no buffer is leaked, kept after it was freed, or owned twice.
THEOREM BuffersAreOwnedOnce ==
  ASSUME "attach" \notin Failures
  PROVE  Spec => []MemoryAccounted
<1>1. IInv => MemoryAccounted
  BY MemoryAccountedFollows DEF IInv
<1> QED
  BY <1>1, InductiveInvariant, PTL

-------------------------------------------------------------------------------
(* The lists as sequences *)

LEMMA ListIsSequence ==
  ASSUME NEW n \in Nat, NEW m, Distinct(n, m)
  PROVE  /\ m \in Seq(Emitters) /\ Len(m) = n /\ DOMAIN m = 1 .. n
         /\ Cardinality(Range(m)) = n
<1>1. m \in [1 .. n -> Emitters]
  BY DEF Distinct
<1>2. m \in Seq(Emitters) /\ Len(m) = n /\ DOMAIN m = 1 .. n
  BY <1>1
<1>3. m \in [1 .. n -> Range(m)]
  BY <1>1, <1>2 DEF Range
<1>4. m \in Surjection(1 .. n, Range(m))
  BY <1>2, <1>3 DEF Surjection, Range
<1>5. m \in Injection(1 .. n, Range(m))
  BY <1>3 DEF Injection, IsInjective, Distinct
<1>6. IsFiniteSet(1 .. n) /\ Cardinality(1 .. n) = n
  <2>1. 1 \in Int /\ n \in Int
    OBVIOUS
  <2> QED
    BY <2>1, FS_Interval
<1>7. Cardinality(Range(m)) = n
  BY <1>4, <1>5, <1>6, FS_Surjection
<1> QED
  BY <1>2, <1>7

LEMMA LinksAgreeFollows ==
  ASSUME TypeOK, LinksInv
  PROVE  LinksAgree
<1>1. ASSUME NEW h \in Holders
      PROVE  LET m == Members(h)
             IN /\ Listed(h) = {e \in Emitters : emitter[e].code = h}
                /\ Len(m) = Cardinality(Listed(h))
                /\ holder[h].last = IF m = <<>> THEN None ELSE m[Len(m)]
                /\ \A i \in DOMAIN m :
                     emitter[m[i]].prev = IF i = 1 THEN None ELSE m[i - 1]
  <2>1. PICK n \in Nat : \E m : Lists(h, n, m)
    BY DEF LinksInv, Linked
  <2>2. PICK m : Lists(h, n, m)
    BY <2>1
  <2>3. Members(h) = m /\ Listed(h) = Range(m)
    BY <2>2, MembersAreList DEF Listed
  <2>4. Listed(h) = {e \in Emitters : emitter[e].code = h}
    BY ListedHaveCode DEF LinksInv
  <2>5. /\ m \in Seq(Emitters) /\ Len(m) = n /\ DOMAIN m = 1 .. n
        /\ Cardinality(Range(m)) = n
    BY <2>2, ListIsSequence DEF Lists, ListsIn
  <2>6. holder[h].last = IF m = <<>> THEN None ELSE m[n]
    <3>1. holder[h].last = At(n, m, n)
      BY <2>2 DEF Lists, ListsIn
    <3>2. m = <<>> <=> n = 0
      BY <2>5
    <3>3. n \in 1 .. n <=> n # 0
      OBVIOUS
    <3> QED
      BY <3>1, <3>2, <3>3 DEF At
  <2>7. ASSUME NEW i \in 1 .. n PROVE emitter[m[i]].prev = IF i = 1 THEN None ELSE m[i - 1]
    <3>1. emitter[m[i]].prev = At(n, m, i - 1)
      BY <2>2 DEF Lists, ListsIn
    <3>2. i - 1 \in 1 .. n <=> i # 1
      OBVIOUS
    <3> QED
      BY <3>1, <3>2 DEF At
  <2> QED
    BY <2>3, <2>4, <2>5, <2>6, <2>7
<1> QED
  BY <1>1 DEF LinksAgree, LinksInv, FreeUnlinked

\* LinksAgree: every list, walked either way, holds the emitters whose `code`
\* is the holder, whatever was attached, detached, destroyed or reset.
THEOREM ListsAreLinked ==
  ASSUME "attach" \notin Failures
  PROVE  Spec => []LinksAgree
<1>1. IInv => LinksAgree
  BY LinksAgreeFollows DEF IInv
<1> QED
  BY <1>1, InductiveInvariant, PTL

-------------------------------------------------------------------------------
(* The lists implement the registry *)

ListsAreWalked ==
  \A h \in Holders : \A n \in Nat : \A m : Lists(h, n, m) => Members(h) = m

LEMMA WalkedNext == TypeOK' => ListsAreWalked'
<1>1. TypeOK => ListsAreWalked
  BY MembersAreList DEF ListsAreWalked
<1> QED
  BY <1>1, PTL

LEMMA MembersAreListNext ==
  ASSUME NEW h \in Holders, NEW n \in Nat, NEW m
  PROVE  TypeOK' /\ Lists(h, n, m)' => Members(h)' = m
BY WalkedNext DEF ListsAreWalked

\* How the sequence of h changes.
LEMMA KeptMembers ==
  ASSUME IInv, IInv', NEW h \in Holders, Keeps(h)
  PROVE  Members(h)' = Members(h)
<1>1. PICK n \in Nat : \E m : Lists(h, n, m)
  BY DEF IInv, LinksInv, Linked
<1>2. PICK m : Lists(h, n, m)
  BY <1>1
<1>3. Members(h) = m
  BY <1>2, MembersAreList DEF IInv
<1>4. Lists(h, n, m)' /\ TypeOK'
  BY <1>2 DEF Keeps, IInv
<1> QED
  BY <1>3, <1>4, MembersAreListNext

LEMMA JoinedMembers ==
  ASSUME IInv, IInv', NEW h \in Holders, NEW e \in Emitters, Joins(h, e)
  PROVE  Members(h)' = Append(Members(h), e)
<1>1. PICK n \in Nat : \E m : Lists(h, n, m)
  BY DEF IInv, LinksInv, Linked
<1>2. PICK m : Lists(h, n, m)
  BY <1>1
<1>3. Members(h) = m
  BY <1>2, MembersAreList DEF IInv
<1>4. Lists(h, n + 1, Pushed(n, m, e))' /\ TypeOK' /\ n + 1 \in Nat
  BY <1>2 DEF Joins, IInv
<1>5. Members(h)' = Pushed(n, m, e)
  BY <1>4, MembersAreListNext
<1>6. Pushed(n, m, e) = Append(m, e)
  <2>1. m \in Seq(Emitters) /\ Len(m) = n
    BY <1>2, ListIsSequence DEF Lists, ListsIn
  <2> DEFINE w == Append(m, e)
  <2>2. /\ w \in Seq(Emitters) /\ Len(w) = n + 1 /\ \A i \in 1 .. n : w[i] = m[i] /\ w[n + 1] = e
    BY <2>1, AppendProperties
  <2> HIDE DEF w
  <2>3. w = [i \in 1 .. n + 1 |-> w[i]]
    BY <2>2
  <2>4. \A i \in 1 .. n + 1 : w[i] = IF i = n + 1 THEN e ELSE m[i]
    <3>1. \A i \in 1 .. n + 1 : i # n + 1 => i \in 1 .. n
      OBVIOUS
    <3>2. w[n + 1] = e
      BY <2>1, AppendProperties DEF w
    <3> QED
      BY <2>2, <3>1, <3>2
  <2> QED
    BY <2>3, <2>4 DEF Pushed, w
<1> QED
  BY <1>3, <1>5, <1>6

LEMMA LeftMembers ==
  ASSUME IInv, IInv', NEW h \in Holders, NEW e \in Emitters, Leaves(h, e)
  PROVE  \E i \in DOMAIN Members(h) : Members(h)' = Registry!RemoveAt(Members(h), i)
<1>1. PICK n \in Nat : \E m : Lists(h, n, m)
  BY DEF IInv, LinksInv, Linked
<1>2. PICK m : Lists(h, n, m)
  BY <1>1
<1>3. Members(h) = m
  BY <1>2, MembersAreList DEF IInv
<1>4. PICK k \in 1 .. n : m[k] = e
  BY <1>2 DEF Leaves, Lists, ListsIn
<1>5. Lists(h, n - 1, Dropped(n, m, k))' /\ TypeOK' /\ n - 1 \in Nat
  BY <1>2, <1>4 DEF Leaves, IInv
<1>6. Members(h)' = Dropped(n, m, k)
  BY <1>5, MembersAreListNext
<1>7. m \in Seq(Emitters) /\ Len(m) = n /\ DOMAIN m = 1 .. n
  BY <1>2, ListIsSequence DEF Lists, ListsIn
<1>8. Dropped(n, m, k) = Registry!RemoveAt(m, k)
  <2> DEFINE front == SubSeq(m, 1, k - 1)
             back == SubSeq(m, k + 1, n)
             w == front \o back
  <2>1. k \in 1 .. n /\ k - 1 \in Int /\ k + 1 \in Int /\ 1 \in Int /\ n \in Int
    OBVIOUS
  <2>2. /\ front \in Seq(Emitters) /\ Len(front) = k - 1
        /\ \A i \in 1 .. k - 1 : front[i] = m[i]
    <3>1. \A i \in 1 .. k - 1 : m[i] \in Emitters
      BY <1>7
    <3>2. /\ front \in Seq(Emitters) /\ Len(front) = IF 1 <= k - 1 THEN k - 1 - 1 + 1 ELSE 0
          /\ \A i \in 1 .. k - 1 - 1 + 1 : front[i] = m[1 + i - 1]
      <4> HIDE DEF front
      <4> QED
        BY <2>1, <3>1, SubSeqProperties DEF front
    <3>3. (IF 1 <= k - 1 THEN k - 1 - 1 + 1 ELSE 0) = k - 1 /\ k - 1 - 1 + 1 = k - 1
          /\ \A i \in 1 .. k - 1 : 1 + i - 1 = i
      BY <2>1
    <3> HIDE DEF front
    <3> QED
      BY <3>2, <3>3
  <2>3. /\ back \in Seq(Emitters) /\ Len(back) = n - k
        /\ \A i \in 1 .. n - k : back[i] = m[k + i]
    <3>1. \A i \in k + 1 .. n : m[i] \in Emitters
      BY <1>7
    <3>2. /\ back \in Seq(Emitters) /\ Len(back) = IF k + 1 <= n THEN n - (k + 1) + 1 ELSE 0
          /\ \A i \in 1 .. n - (k + 1) + 1 : back[i] = m[k + 1 + i - 1]
      <4> HIDE DEF back
      <4> QED
        BY <2>1, <3>1, SubSeqProperties DEF back
    <3>3. (IF k + 1 <= n THEN n - (k + 1) + 1 ELSE 0) = n - k /\ n - (k + 1) + 1 = n - k
          /\ \A i \in 1 .. n - k : k + 1 + i - 1 = k + i
      BY <2>1
    <3> HIDE DEF back
    <3> QED
      BY <3>2, <3>3
  <2> HIDE DEF front, back
  <2>4. /\ w \in Seq(Emitters) /\ Len(w) = n - 1
        /\ \A i \in 1 .. n - 1 : w[i] = IF i <= k - 1 THEN front[i] ELSE back[i - (k - 1)]
    <3>1. k - 1 + (n - k) = n - 1
      OBVIOUS
    <3>2. /\ w \in Seq(Emitters) /\ Len(w) = Len(front) + Len(back)
          /\ \A i \in 1 .. Len(front) + Len(back) :
               w[i] = IF i <= Len(front) THEN front[i] ELSE back[i - Len(front)]
      BY <2>2, <2>3, ConcatProperties
    <3> HIDE DEF w
    <3>3. Len(front) + Len(back) = n - 1 /\ Len(front) = k - 1
      BY <3>1, <2>2, <2>3
    <3> QED
      BY <3>2, <3>3
  <2> HIDE DEF w
  <2>5. ASSUME NEW i \in 1 .. n - 1 PROVE w[i] = IF i < k THEN m[i] ELSE m[i + 1]
    <3>1. CASE i < k
      <4>1. i <= k - 1 /\ i \in 1 .. k - 1
        BY <3>1
      <4> QED
        BY <3>1, <4>1, <2>2, <2>4
    <3>2. CASE ~(i < k)
      <4>1. ~(i <= k - 1) /\ i - (k - 1) \in 1 .. n - k /\ k + (i - (k - 1)) = i + 1
        BY <3>2
      <4>2. w[i] = back[i - (k - 1)]
        BY <4>1, <2>4
      <4> QED
        BY <3>2, <4>1, <4>2, <2>3
    <3> QED
      BY <3>1, <3>2
  <2>6. w = [i \in 1 .. n - 1 |-> w[i]]
    BY <2>4
  <2>7. w = Registry!RemoveAt(m, k)
    BY <1>7 DEF w, front, back, Registry!RemoveAt
  <2> QED
    BY <2>5, <2>6, <2>7 DEF Dropped
<1> QED
  BY <1>3, <1>6, <1>7, <1>8

LEMMA DissolvedMembers ==
  ASSUME IInv', NEW h \in Holders, Dissolves(h)
  PROVE  Members(h)' = <<>>
<1>1. Lists(h, 0, <<>>)' /\ TypeOK' /\ 0 \in Nat
  BY DEF Dissolves, IInv
<1> QED
  BY <1>1, MembersAreListNext

\* Every step of the links is one of the registry, or none.
LEMMA StepIsRegistered ==
  ASSUME IInv, IInv', ListStep
  PROVE  [Registry!Next]_([h \in Holders |-> Members(h)])
<1> DEFINE all == [h \in Holders |-> Members(h)]
<1>1. CASE \A h \in Holders : Keeps(h)
  <2>1. \A h \in Holders : Members(h)' = Members(h)
    BY <1>1, KeptMembers
  <2> QED
    BY <2>1
<1>2. ASSUME NEW h \in Holders, NEW e \in Emitters, Joins(h, e)
      PROVE  Registry!Next
  <2>1. Members(h)' = Append(Members(h), e)
    BY <1>2, JoinedMembers
  <2>2. \A k \in Holders : k # h => Members(k)' = Members(k)
    BY <1>2, KeptMembers DEF Joins
  <2>3. all' = [all EXCEPT ![h] = Append(@, e)]
    BY <2>1, <2>2
  <2>4. e \notin Registry!Everyone
    <3>1. emitter[e].code = None /\ None \notin Holders
      BY <1>2, CodeEmittersAssumption DEF Joins
    <3>2. ASSUME NEW k \in Holders PROVE e \notin Range(Members(k))
      <4>1. Listed(k) = {x \in Emitters : emitter[x].code = k}
        BY ListedHaveCode DEF IInv, LinksInv
      <4> QED
        BY <3>1, <4>1 DEF Listed
    <3> QED
      BY <3>2 DEF Registry!Everyone, Range, Registry!Range
  <2>5. Registry!Join(h, e)
    BY <2>3 DEF Registry!Join
  <2> QED
    BY <2>4, <2>5 DEF Registry!Next
<1>3. ASSUME NEW h \in Holders, NEW e \in Emitters, Leaves(h, e)
      PROVE  Registry!Next
  <2>1. PICK i \in DOMAIN Members(h) : Members(h)' = Registry!RemoveAt(Members(h), i)
    BY <1>3, LeftMembers
  <2>2. \A k \in Holders : k # h => Members(k)' = Members(k)
    BY <1>3, KeptMembers DEF Leaves
  <2>3. all' = [all EXCEPT ![h] = Registry!RemoveAt(@, i)]
    BY <2>1, <2>2
  <2>4. Registry!Leave(h, i) /\ i \in DOMAIN all[h]
    BY <2>3 DEF Registry!Leave
  <2> QED
    BY <2>4 DEF Registry!Next
<1>4. ASSUME NEW h \in Holders, Dissolves(h)
      PROVE  Registry!Next
  <2>1. Members(h)' = <<>>
    BY <1>4, DissolvedMembers
  <2>2. \A k \in Holders : k # h => Members(k)' = Members(k)
    BY <1>4, KeptMembers DEF Dissolves
  <2>3. all' = [all EXCEPT ![h] = <<>>]
    BY <2>1, <2>2
  <2>4. Registry!Dissolve(h)
    BY <2>3 DEF Registry!Dissolve
  <2> QED
    BY <2>4 DEF Registry!Next
<1> QED
  BY <1>1, <1>2, <1>3, <1>4 DEF ListStep

LEMMA InitIsRegistered == Init => Registry!Init
<1> SUFFICES ASSUME Init PROVE Registry!Init
  OBVIOUS
<1>1. IInv
  BY InitIInv
<1>2. ASSUME NEW h \in Holders PROVE Members(h) = <<>>
  <2>1. \A e \in Emitters : emitter[e].code = None
    BY DEF Init, NewEmitter
  <2>2. holder[h].first = None /\ holder[h].last = None
    BY DEF Init, NewHolder
  <2>3. Lists(h, 0, <<>>)
    BY <2>1, <2>2, EmptyList, CodeEmittersAssumption DEF Lists
  <2> QED
    BY <1>1, <2>3, MembersAreList DEF IInv
<1> QED
  BY <1>2 DEF Registry!Init

\* ImplementsRegistry: the linked lists keep the emitters in the order they
\* were attached; attaching adds one at the end, detaching takes out one, and
\* nothing but a reset or the end of a holder takes out all.
THEOREM ImplementsTheRegistry ==
  ASSUME "attach" \notin Failures
  PROVE  Spec => ImplementsRegistry
<1>1. IInv /\ [Next]_vars => IInv' /\ ListStep
  BY NextStep
<1>2. IInv /\ IInv' /\ ListStep => [Registry!Next]_([h \in Holders |-> Members(h)])
  BY StepIsRegistered
<1> QED
  BY <1>1, <1>2, InductiveInvariant, InitIsRegistered, PTL
     DEF Spec, ImplementsRegistry, Registry!Spec

-------------------------------------------------------------------------------
(* Settings *)

\* SettingsFollow, for one emitter.
Follows(e, r, holders) ==
  /\ \A s \in Settings :
       r.set[s] = IF r.own[s] THEN e ELSE IF r.code = None THEN None ELSE holders[r.code].set[s]
  /\ r.attached <=> r.code # None
  /\ r.reserved <=> (r.code = None \/ r.set["logger"] # None \/ r.diag)
  /\ r.comments <=> r.code # None /\ (e \in Assemblers => r.set["logger"] # None)
  /\ r.ready <=> r.code # None /\ e \notin Assemblers

AllFollow == \A e \in Emitters : Follows(e, emitter[e], holder)

LEMMA SettingsFollowEach == SettingsFollow <=> AllFollow
BY DEF SettingsFollow, AllFollow, Follows

\* An emitter goes on following when neither its settings nor those of its
\* holder change.
LEMMA FollowsKept ==
  ASSUME NEW e, NEW r, NEW q, Follows(e, r, holder), q.code = r.code, KeepsSettings(r, q),
         r.code # None => holder'[r.code].set = holder[r.code].set
  PROVE  Follows(e, q, holder')
BY DEF Follows, KeepsSettings

SetsUntouched == \A h \in Holders : holder'[h].set = holder[h].set

LEMMA SettingsUntouched ==
  ASSUME TypeOK, AllFollow, SetsUntouched,
         NEW e \in Emitters, KeepsSettings(emitter[e], emitter'[e]), emitter'[e].code = emitter[e].code
  PROVE  Follows(e, emitter'[e], holder')
<1>1. emitter[e].code \in Holders \cup {None}
  BY DEF TypeOK, EmitterType
<1>2. emitter[e].code # None => holder'[emitter[e].code].set = holder[emitter[e].code].set
  BY <1>1 DEF SetsUntouched
<1>3. Follows(e, emitter[e], holder)
  BY DEF AllFollow
<1> QED
  BY <1>2, <1>3, FollowsKept

\* Steps that leave the settings of everyone alone.
LEMMA QuietSettings ==
  ASSUME TypeOK, AllFollow, SetsUntouched,
         \A e \in Emitters : emitter'[e].code = emitter[e].code /\ KeepsSettings(emitter[e], emitter'[e])
  PROVE  AllFollow'
BY SettingsUntouched DEF AllFollow

\* Steps of one emitter: the others have but to be left alone.
LEMMA OneSetting ==
  ASSUME TypeOK, AllFollow, SetsUntouched, NEW e \in Emitters,
         \A x \in Emitters : x # e => /\ emitter'[x].code = emitter[x].code
                                      /\ KeepsSettings(emitter[x], emitter'[x]),
         Follows(e, emitter'[e], holder')
  PROVE  AllFollow'
BY SettingsUntouched DEF AllFollow

LEMMA HolderSetFollows ==
  ASSUME IInv, AllFollow, NEW h \in Holders, NEW s \in Settings, NEW v \in {None, h}, HolderSet(h, s, v)
  PROVE  AllFollow'
<1>1. /\ OthersKept(h)
      /\ \A e \in Emitters : IF emitter[e].code = h
                             THEN IsUpdated(e, emitter[e], holder'[h].set, emitter'[e])
                             ELSE emitter'[e] = emitter[e]
  BY HolderSetFields
<1>2. h # None
  BY CodeEmittersAssumption
<1>3. ASSUME NEW e \in Emitters PROVE Follows(e, emitter'[e], holder')
  <2>1. Follows(e, emitter[e], holder)
    BY <1>3 DEF AllFollow
  <2>2. CASE emitter[e].code = h
    <3>1. IsUpdated(e, emitter[e], holder'[h].set, emitter'[e])
      BY <1>1, <2>2
    <3> QED
      BY <1>2, <2>1, <2>2, <3>1 DEF IsUpdated, Follows, KeepsLinks
  <2>3. CASE emitter[e].code # h
    <3>1. emitter'[e] = emitter[e] /\ emitter[e].code \in Holders \cup {None}
      BY <1>1, <2>3 DEF IInv, TypeOK, EmitterType
    <3>2. emitter[e].code # None => holder'[emitter[e].code].set = holder[emitter[e].code].set
      BY <1>1, <2>3, <3>1 DEF OthersKept
    <3> QED
      BY <2>1, <3>1, <3>2, FollowsKept DEF KeepsSettings
  <2> QED
    BY <2>2, <2>3
<1> QED
  BY <1>3 DEF AllFollow

LEMMA EmitterSetFollows ==
  ASSUME IInv, AllFollow, NEW e \in Emitters, NEW s \in Settings, NEW v \in {None, e}, EmitterSet(e, s, v)
  PROVE  AllFollow'
<1>1. /\ holder' = holder /\ IsSet(e, emitter[e], s, v, emitter'[e])
      /\ \A x \in Emitters : x # e => emitter'[x] = emitter[x]
  BY EmitterSetFields
<1>2. Follows(e, emitter[e], holder) /\ e # None
  BY CodeEmittersAssumption DEF AllFollow
<1>3. Follows(e, emitter'[e], holder')
  <2> DEFINE r == emitter[e]
             q == emitter'[e]
  <2>1. IsSet(e, r, s, v, q) /\ Follows(e, r, holder)
    BY <1>1, <1>2
  <2> HIDE DEF r, q
  <2>2. q.code = r.code
    BY <2>1 DEF IsSet, KeepsLinks
  <2>3. ASSUME NEW t \in Settings
        PROVE  q.set[t] = IF q.own[t] THEN e ELSE IF q.code = None THEN None ELSE holder[q.code].set[t]
    <3>1. CASE t = s
      BY <1>2, <2>1, <2>2, <3>1 DEF IsSet
    <3>2. CASE t # s
      BY <2>1, <2>2, <3>2 DEF IsSet, Follows
    <3> QED
      BY <3>1, <3>2
  <2>4. /\ q.reserved <=> (q.code = None \/ q.set["logger"] # None \/ q.diag)
        /\ q.comments <=> q.code # None /\ (e \in Assemblers => q.set["logger"] # None)
    <3>1. CASE s = "logger"
      BY <2>1, <2>2, <3>1 DEF IsSet
    <3>2. CASE s # "logger"
      <4>1. q.set["logger"] = r.set["logger"]
        BY <2>1, <3>2 DEF IsSet, Settings
      <4> QED
        BY <2>1, <2>2, <3>2, <4>1 DEF IsSet, Follows
    <3> QED
      BY <3>1, <3>2
  <2>5. (q.attached <=> q.code # None) /\ (q.ready <=> q.code # None /\ e \notin Assemblers)
    BY <2>1, <2>2 DEF IsSet, Follows
  <2>6. Follows(e, q, holder)
    BY <2>3, <2>4, <2>5 DEF Follows
  <2> QED
    BY <1>1, <2>6 DEF q
<1> QED
  BY <1>1, <1>3, OneSetting DEF IInv, SetsUntouched, KeepsSettings

LEMMA SetDiagnosticsFollows ==
  ASSUME IInv, AllFollow, NEW e \in Emitters, NEW on \in BOOLEAN, SetDiagnostics(e, on)
  PROVE  AllFollow'
<1>1. /\ holder' = holder
      /\ KeepsLinks(emitter[e], emitter'[e])
      /\ emitter'[e].attached = emitter[e].attached /\ emitter'[e].own = emitter[e].own
      /\ emitter'[e].set = emitter[e].set /\ emitter'[e].ready = emitter[e].ready
      /\ emitter'[e].reserved <=>
           (emitter'[e].code = None \/ emitter'[e].set["logger"] # None \/ emitter'[e].diag)
      /\ emitter'[e].comments <=>
           emitter'[e].code # None /\ (e \in Assemblers => emitter'[e].set["logger"] # None)
      /\ \A x \in Emitters : x # e => emitter'[x] = emitter[x]
  BY SetDiagnosticsFields
<1>2. Follows(e, emitter[e], holder)
  BY DEF AllFollow
<1>3. Follows(e, emitter'[e], holder')
  BY <1>1, <1>2 DEF Follows, KeepsLinks
<1> QED
  BY <1>1, <1>3, OneSetting DEF IInv, SetsUntouched, KeepsSettings

LEMMA AttachFollows ==
  ASSUME "attach" \notin Failures, IInv, AllFollow, NEW h \in Holders, NEW e \in Emitters, Attach(h, e)
  PROVE  AllFollow'
<1>1. /\ OthersKept(h) /\ holder'[h].set = holder[h].set /\ emitter[e].code = None
      /\ \E q : IsAttached(e, emitter[e], h, q) /\ SameEvent(q, emitter'[e])
      /\ \A x \in Emitters : x # e => SameEvent(emitter[x], emitter'[x])
      /\ Adds(emitter, holder[h], emitter', holder'[h], h, e)
  BY AttachFields
<1>2. Follows(e, emitter[e], holder) /\ h # None
  BY CodeEmittersAssumption DEF AllFollow
<1>3. PICK q : IsAttached(e, emitter[e], h, q) /\ SameEvent(q, emitter'[e])
  BY <1>1
<1>4. emitter'[e].code = h
  BY <1>1 DEF Adds
<1>5. Follows(e, emitter'[e], holder')
  BY <1>1, <1>2, <1>3, <1>4 DEF Follows, IsAttached, SameEvent, KeepsSettings
<1>6. SetsUntouched
  BY <1>1 DEF SetsUntouched, OthersKept
<1> QED
  BY <1>1, <1>5, <1>6, OneSetting DEF IInv, SameEvent, Adds

LEMMA DetachedFollows ==
  ASSUME NEW e \in Emitters, Follows(e, emitter[e], holder),
         NEW q, IsDetached(emitter[e], q), SameEvent(q, emitter'[e]), emitter'[e].code = None
  PROVE  Follows(e, emitter'[e], holder')
BY DEF Follows, IsDetached, SameEvent, KeepsSettings

LEMMA HasLeftFollows ==
  ASSUME IInv, AllFollow, NEW h, NEW e \in Emitters, HasLeft(h, e), Follows(e, emitter'[e], holder')
  PROVE  AllFollow'
<1>1. SetsUntouched
  BY DEF SetsUntouched, HasLeft, OthersKept
<1> QED
  BY <1>1, OneSetting DEF IInv, HasLeft, SameEvent, Removes

LEMMA DetachFollows ==
  ASSUME IInv, AllFollow, NEW e \in Emitters, Detach(e)
  PROVE  AllFollow'
<1>1. /\ HasLeft(emitter[e].code, e)
      /\ \E q : IsDetached(emitter[e], q) /\ SameEvent(q, emitter'[e])
  BY DetachFields
<1>2. Follows(e, emitter[e], holder) /\ emitter'[e].code = None
  BY <1>1 DEF AllFollow, HasLeft
<1>3. Follows(e, emitter'[e], holder')
  BY <1>1, <1>2, DetachedFollows
<1> QED
  BY <1>1, <1>3, HasLeftFollows

LEMMA NewFollows ==
  ASSUME NEW e, NEW holders
  PROVE  Follows(e, NewEmitter, holders)
BY DEF Follows, NewEmitter, Settings

LEMMA DestroyEmitterFollows ==
  ASSUME IInv, AllFollow, NEW e \in Emitters, DestroyEmitter(e)
  PROVE  AllFollow'
<1>1. CASE emitter[e].code # None
  <2>1. HasLeft(emitter[e].code, e) /\ emitter'[e] = NewEmitter
    BY <1>1, DestroyAttachedFields
  <2>2. Follows(e, emitter'[e], holder')
    BY <2>1, NewFollows
  <2> QED
    BY <2>1, <2>2, HasLeftFollows
<1>2. CASE emitter[e].code = None
  <2>1. /\ holder' = holder /\ emitter'[e] = NewEmitter
        /\ \A x \in Emitters : x # e => emitter'[x] = emitter[x]
    BY <1>2, DestroyFreeFields
  <2>2. Follows(e, emitter'[e], holder')
    BY <2>1, NewFollows
  <2> QED
    BY <2>1, <2>2, OneSetting DEF IInv, SetsUntouched, KeepsSettings
<1> QED
  BY <1>1, <1>2

LEMMA StartsOverFollows ==
  ASSUME IInv, AllFollow, NEW h \in Holders, NEW hard \in BOOLEAN, StartsOver(h, hard)
  PROVE  AllFollow'
<1>1. ASSUME NEW e \in Emitters PROVE Follows(e, emitter'[e], holder')
  <2>1. Follows(e, emitter[e], holder) /\ AllDetached(h) /\ OthersKept(h)
    BY DEF AllFollow, StartsOver
  <2>2. CASE emitter[e].code = h
    <3>1. PICK q : IsDetached(emitter[e], q) /\ SameEvent(q, emitter'[e])
      BY <2>1, <2>2 DEF AllDetached
    <3>2. emitter'[e].code = None
      BY <2>1, <2>2 DEF AllDetached
    <3> QED
      BY <2>1, <3>1, <3>2, DetachedFollows
  <2>3. CASE emitter[e].code # h
    <3>1. emitter'[e] = emitter[e] /\ emitter[e].code \in Holders \cup {None}
      BY <2>1, <2>3 DEF AllDetached, IInv, TypeOK, EmitterType
    <3>2. emitter[e].code # None => holder'[emitter[e].code].set = holder[emitter[e].code].set
      BY <2>1, <2>3, <3>1 DEF OthersKept
    <3> QED
      BY <2>1, <3>1, <3>2, FollowsKept DEF KeepsSettings
  <2> QED
    BY <2>2, <2>3
<1> QED
  BY <1>1 DEF AllFollow

LEMMA ReinitFollows ==
  ASSUME "reinit" \notin Failures, IInv, AllFollow, NEW h \in Holders, Reinit(h)
  PROVE  AllFollow'
<1>1. /\ OthersKept(h) /\ holder'[h].set = holder[h].set
      /\ \A e \in Emitters : IF emitter[e].code = h
                             THEN IsReinit(e, emitter[e], TextAfter(holder[h].bufs, FALSE), emitter'[e])
                             ELSE emitter'[e] = emitter[e]
  BY ReinitFields
<1>2. SetsUntouched
  BY <1>1 DEF SetsUntouched, OthersKept
<1>3. ASSUME NEW e \in Emitters
      PROVE  emitter'[e].code = emitter[e].code /\ KeepsSettings(emitter[e], emitter'[e])
  <2>1. CASE emitter[e].code = h
    BY <1>1, <2>1 DEF IsReinit, KeepsLinks
  <2>2. CASE emitter[e].code # h
    BY <1>1, <2>2 DEF KeepsSettings
  <2> QED
    BY <2>1, <2>2
<1> QED
  BY <1>2, <1>3, QuietSettings DEF IInv

LEMMA RegrownFollows ==
  ASSUME IInv, AllFollow, NEW h \in Holders, NEW i, NEW b, Regrown(h, i, b)
  PROVE  AllFollow'
<1>1. SetsUntouched
  BY DEF SetsUntouched, Regrown, OthersKept
<1>2. \A e \in Emitters : emitter'[e].code = emitter[e].code /\ KeepsSettings(emitter[e], emitter'[e])
  BY DEF Regrown, KeepsLinks
<1> QED
  BY <1>1, <1>2, QuietSettings DEF IInv

LEMMA NextFollows ==
  ASSUME Failures = {}, IInv, AllFollow, [Next]_vars
  PROVE  AllFollow'
<1>0. "attach" \notin Failures /\ "reinit" \notin Failures
  OBVIOUS
<1>1. CASE UNCHANGED vars
  BY <1>1, QuietSettings DEF IInv, vars, SetsUntouched, KeepsSettings
<1>2. ASSUME NEW h \in Holders, InitHolder(h) \/ NewSection(h) PROVE AllFollow'
  <2>1. OthersKept(h) /\ holder'[h].set = holder[h].set /\ emitter' = emitter
    BY <1>2, InitHolderFields, NewSectionFields
  <2>2. SetsUntouched
    BY <2>1 DEF SetsUntouched, OthersKept
  <2> QED
    BY <2>1, <2>2, QuietSettings DEF IInv, KeepsSettings
<1>3. ASSUME NEW h \in Holders, NEW hard \in BOOLEAN, Reset(h, hard) \/ DestroyHolder(h) PROVE AllFollow'
  BY <1>3, ResetFields, DestroyHolderFields, StartsOverFollows
<1>4. ASSUME NEW h \in Holders, Reinit(h) PROVE AllFollow'
  BY <1>0, <1>4, ReinitFollows
<1>5. ASSUME NEW h \in Holders, NEW i \in DOMAIN holder[h].bufs, NEW n \in ReserveSizes, ReserveBuffer(h, i, n)
      PROVE  AllFollow'
  BY <1>5, ReserveBufferFields, RegrownFollows
<1>6. ASSUME NEW e \in Assemblers, NEW n \in EmitSizes, Emit(e, n) PROVE AllFollow'
  BY <1>6, EmitFields, RegrownFollows
<1>7. ASSUME NEW e \in Assemblers, NEW i \in 1 .. MaxSections, SetSection(e, i) PROVE AllFollow'
  <2>1. /\ holder' = holder /\ KeepsLinks(emitter[e], emitter'[e]) /\ KeepsSettings(emitter[e], emitter'[e])
        /\ \A x \in Emitters : x # e => emitter'[x] = emitter[x]
    BY <1>7, SetSectionFields
  <2> QED
    BY <2>1, QuietSettings DEF IInv, SetsUntouched, KeepsLinks, KeepsSettings
<1>8. ASSUME NEW e \in Assemblers, NEW o \in Offsets, SetOffset(e, o) PROVE AllFollow'
  <2>1. /\ holder' = holder /\ KeepsLinks(emitter[e], emitter'[e]) /\ KeepsSettings(emitter[e], emitter'[e])
        /\ \A x \in Emitters : x # e => emitter'[x] = emitter[x]
    BY <1>8, SetOffsetFields
  <2> QED
    BY <2>1, QuietSettings DEF IInv, SetsUntouched, KeepsLinks, KeepsSettings
<1>9. ASSUME NEW h \in Holders, NEW s \in Settings, NEW v \in {None, h}, HolderSet(h, s, v) PROVE AllFollow'
  BY <1>9, HolderSetFollows
<1>10. ASSUME NEW e \in Emitters, NEW s \in Settings, NEW v \in {None, e}, EmitterSet(e, s, v) PROVE AllFollow'
  BY <1>10, EmitterSetFollows
<1>11. ASSUME NEW e \in Diagnosed, NEW on \in BOOLEAN, SetDiagnostics(e, on) PROVE AllFollow'
  BY <1>11, SetDiagnosticsFollows, CodeEmittersAssumption
<1>12. ASSUME NEW h \in Holders, NEW e \in Emitters, Attach(h, e) PROVE AllFollow'
  BY <1>0, <1>12, AttachFollows
<1>13. ASSUME NEW e \in Emitters, Detach(e) \/ DestroyEmitter(e) PROVE AllFollow'
  BY <1>13, DetachFollows, DestroyEmitterFollows
<1> QED
  BY <1>1, <1>2, <1>3, <1>4, <1>5, <1>6, <1>7, <1>8, <1>9, <1>10, <1>11, <1>12, <1>13 DEF Next

\* SettingsFollow: an emitter uses its own logger and error handler if it has
\* any and else those of its holder, and the flags its fast path tests agree.
\* A compiler whose on_reinit() fails is detached while its holder lists it.
THEOREM SettingsAreCurrent ==
  ASSUME Failures = {}
  PROVE  Spec => []SettingsFollow
<1>0. "attach" \notin Failures
  OBVIOUS
<1>1. Spec => []IInv
  BY <1>0, InductiveInvariant
<1>2. Init => AllFollow
  BY NewFollows DEF Init, AllFollow
<1>3. IInv /\ AllFollow /\ [Next]_vars => AllFollow'
  BY NextFollows
<1> QED
  BY <1>1, <1>2, <1>3, SettingsFollowEach, PTL DEF Spec
===============================================================================
