-------------------------- MODULE BuilderList_proofs --------------------------
(***************************************************************************)
(* Theorems about the node list of builders and compilers, for any nodes,  *)
(* sections and functions, and for lists of any length.                    *)
(*                                                                         *)
(* They assume that no label is bound twice (~Rebinding): the code does    *)
(* not ask whether the node of a label is in the list already, and adding  *)
(* it again breaks the links (see the README, "Other disagreements").      *)
(***************************************************************************)
EXTENDS BuilderList, NatSetTheorems, SequenceTheorems

NodeOrNone == Nodes \cup {None}

ListType ==
  [first : NodeOrNone, last : NodeOrNone, cursor : NodeOrNone, dirty : BOOLEAN,
   next : [Nodes -> NodeOrNone], prev : [Nodes -> NodeOrNone],
   active : SUBSET Nodes, next_section : [Sections -> NodeOrNone]]

\* Nodes in an order, each once
Orders ==
  {s \in Seq(Nodes) : \A i, j \in 1 .. Len(s) : s[i] = s[j] => i = j}

NodeAt(s, i) == IF i \in 1 .. Len(s) THEN s[i] ELSE None

\* L links the nodes of s in this order, and no others.
Holds(L, s) ==
  /\ L.active = {s[i] : i \in 1 .. Len(s)}
  /\ L.first = NodeAt(s, 1)
  /\ L.last = NodeAt(s, Len(s))
  /\ \A i \in 1 .. Len(s) : L.next[s[i]] = NodeAt(s, i + 1) /\ L.prev[s[i]] = NodeAt(s, i - 1)
  /\ \A n \in Nodes \ L.active : L.next[n] = None /\ L.prev[n] = None

-------------------------------------------------------------------------------
(* Orders *)

LEMMA OrderType ==
  ASSUME NEW s \in Orders
  PROVE  /\ s \in Seq(Nodes) /\ Len(s) \in Nat /\ DOMAIN s = 1 .. Len(s)
         /\ \A i \in 1 .. Len(s) : s[i] \in Nodes /\ s[i] # None
         /\ \A i, j \in 1 .. Len(s) : s[i] = s[j] => i = j
  BY BuilderListAssumption DEF Orders

\* An order is no longer than there are nodes.
LEMMA OrderIsBounded ==
  ASSUME NEW s \in Orders
  PROVE  /\ Cardinality(Nodes) \in Nat /\ Len(s) <= Cardinality(Nodes)
         /\ Cardinality({s[i] : i \in 1 .. Len(s)}) = Len(s)
<1>1. /\ Len(s) \in Nat /\ s \in [1 .. Len(s) -> Nodes]
      /\ \A i, j \in 1 .. Len(s) : s[i] = s[j] => i = j
  BY OrderType DEF Orders
<1> DEFINE mine == {s[i] : i \in 1 .. Len(s)}
<1>2. mine \in SUBSET Nodes
  BY <1>1
<1>3. s \in Bijection(1 .. Len(s), mine)
  BY <1>1 DEF Bijection, Injection, Surjection, IsInjective
<1>4. Cardinality(mine) = Len(s)
  BY <1>1, <1>3, FS_CountingElements DEF ExistsBijection
<1> QED
  BY <1>2, <1>4, BuilderListAssumption, FS_Subset, FS_CardinalityType

LEMMA InsertedIs ==
  ASSUME NEW s \in Orders, NEW i \in 0 .. Len(s), NEW n \in Nodes, n \notin {s[k] : k \in 1 .. Len(s)}
  PROVE  LET t == Sequence!Insert(s, i, <<n>>)
         IN /\ t \in Orders
            /\ Len(t) = Len(s) + 1
            /\ \A k \in 1 .. Len(s) + 1 :
                 t[k] = IF k <= i THEN s[k] ELSE IF k = i + 1 THEN n ELSE s[k - 1]
<1> DEFINE a == SubSeq(s, 1, i)
           b == SubSeq(s, i + 1, Len(s))
           t == (a \o <<n>>) \o b
<1>0. /\ s \in Seq(Nodes) /\ Len(s) \in Nat /\ i \in Nat /\ i <= Len(s)
      /\ \A k \in 1 .. Len(s) : s[k] \in Nodes /\ s[k] # n
      /\ \A k, j \in 1 .. Len(s) : s[k] = s[j] => k = j
  BY OrderType
<1>1. a \in Seq(Nodes) /\ Len(a) = i /\ \A k \in 1 .. i : a[k] = s[k]
  BY <1>0
<1>2. b \in Seq(Nodes) /\ Len(b) = Len(s) - i /\ \A k \in 1 .. Len(s) - i : b[k] = s[i + k]
  BY <1>0
<1>3. t = Sequence!Insert(s, i, <<n>>)
  BY DEF Sequence!Insert
<1> HIDE DEF a, b
<1>4. /\ a \o <<n>> \in Seq(Nodes) /\ Len(a \o <<n>>) = i + 1
      /\ \A k \in 1 .. i + 1 : (a \o <<n>>)[k] = IF k <= i THEN s[k] ELSE n
  BY <1>0, <1>1
<1> DEFINE c == a \o <<n>>
<1> HIDE DEF c
<1>c. /\ c \o b \in Seq(Nodes) /\ Len(c \o b) = Len(c) + Len(b)
      /\ \A k \in 1 .. Len(c) + Len(b) : (c \o b)[k] = IF k <= Len(c) THEN c[k] ELSE b[k - Len(c)]
  BY <1>2, <1>4, ConcatProperties DEF c
<1>5. /\ t \in Seq(Nodes) /\ Len(t) = Len(s) + 1
      /\ \A k \in 1 .. Len(s) + 1 :
           t[k] = IF k <= i THEN s[k] ELSE IF k = i + 1 THEN n ELSE s[k - 1]
  <2>0. /\ t \in Seq(Nodes) /\ Len(t) = Len(c) + Len(b) /\ Len(c) = i + 1
        /\ \A k \in 1 .. Len(c) + Len(b) : t[k] = IF k <= Len(c) THEN c[k] ELSE b[k - Len(c)]
        /\ \A k \in 1 .. i + 1 : c[k] = IF k <= i THEN s[k] ELSE n
    BY <1>c, <1>4 DEF c
  <2> HIDE DEF t
  <2>1. t \in Seq(Nodes) /\ Len(t) = Len(s) + 1
    BY <1>0, <2>0, <1>2
  <2>2. ASSUME NEW k \in 1 .. Len(s) + 1
        PROVE  t[k] = IF k <= i THEN s[k] ELSE IF k = i + 1 THEN n ELSE s[k - 1]
    <3>0. k \in 1 .. Len(c) + Len(b) /\ k \in Int
      BY <1>0, <1>2, <2>0
    <3>1. CASE k <= i + 1
      <4>1. t[k] = c[k] /\ k \in 1 .. i + 1
        BY <3>0, <3>1, <2>0, <1>0
      <4> QED
        BY <4>1, <3>1, <2>0, <1>0
    <3>2. CASE k > i + 1
      <4>0. ~(k <= Len(c)) /\ Len(c) = i + 1
        BY <3>0, <3>2, <1>0, <2>0
      <4>1. t[k] = b[k - (i + 1)]
        <5>1. t[k] = b[k - Len(c)]
          BY <3>0, <4>0, <2>0
        <5> QED
          BY <5>1, <4>0
      <4>2. PICK m \in 1 .. Len(s) - i : m = k - (i + 1)
        BY <3>0, <3>2, <1>0
      <4>3. i + m = k - 1 /\ ~(k <= i) /\ k # i + 1
        BY <4>2, <3>0, <3>2, <1>0
      <4>4. b[m] = s[i + m]
        BY <1>2
      <4> QED
        BY <4>1, <4>2, <4>3, <4>4
    <3> QED
      BY <3>1, <3>2, <1>0
  <2> QED
    BY <2>1, <2>2
<1> HIDE DEF t
<1>6. ASSUME NEW k \in 1 .. Len(t), NEW j \in 1 .. Len(t), t[k] = t[j] PROVE k = j
  <2> DEFINE old(m) == IF m <= i THEN m ELSE m - 1
  <2>1. \A m \in 1 .. Len(t) : m # i + 1 => old(m) \in 1 .. Len(s) /\ t[m] = s[old(m)]
    BY <1>0, <1>5
  <2>2. CASE k = i + 1 /\ j # i + 1
    <3>1. i + 1 \in 1 .. Len(s) + 1 /\ ~(i + 1 <= i)
      BY <1>0
    <3>2. t[i + 1] = n
      BY <3>1, <1>5
    <3> QED
      BY <3>2, <2>1, <2>2, <1>6, <1>0
  <2>3. CASE j = i + 1 /\ k # i + 1
    <3>1. i + 1 \in 1 .. Len(s) + 1 /\ ~(i + 1 <= i)
      BY <1>0
    <3>2. t[i + 1] = n
      BY <3>1, <1>5
    <3> QED
      BY <3>2, <2>1, <2>3, <1>6, <1>0
  <2>4. CASE k # i + 1 /\ j # i + 1
    <3>1. old(k) = old(j)
      BY <2>1, <2>4, <1>6, <1>0
    <3>2. k \in Int /\ j \in Int /\ i \in Int
      BY <1>0, <1>5
    <3> QED
      BY <3>1, <3>2, <2>4
  <2> QED
    BY <2>2, <2>3, <2>4
<1> QED
  BY <1>3, <1>5, <1>6 DEF Orders

LEMMA RemovedIs ==
  ASSUME NEW s \in Orders, NEW i \in 1 .. Len(s), NEW j \in 1 .. Len(s), i <= j
  PROVE  LET t == SubSeq(s, 1, i - 1) \o SubSeq(s, j + 1, Len(s))
         IN /\ t \in Orders
            /\ Len(t) = Len(s) - (j - i + 1)
            /\ \A k \in 1 .. Len(t) : t[k] = IF k < i THEN s[k] ELSE s[k + (j - i + 1)]
<1> DEFINE a == SubSeq(s, 1, i - 1)
           b == SubSeq(s, j + 1, Len(s))
           t == a \o b
<1>0. /\ s \in Seq(Nodes) /\ Len(s) \in Nat /\ i \in Nat /\ j \in Nat /\ 1 <= i /\ j <= Len(s)
      /\ \A k \in 1 .. Len(s) : s[k] \in Nodes
      /\ \A k, m \in 1 .. Len(s) : s[k] = s[m] => k = m
  BY OrderType
<1>1. a \in Seq(Nodes) /\ Len(a) = i - 1 /\ \A k \in 1 .. i - 1 : a[k] = s[k]
  BY <1>0
<1>2. b \in Seq(Nodes) /\ Len(b) = Len(s) - j /\ \A k \in 1 .. Len(s) - j : b[k] = s[j + k]
  BY <1>0
<1> HIDE DEF a, b
<1>c. /\ t \in Seq(Nodes) /\ Len(t) = Len(a) + Len(b)
      /\ \A k \in 1 .. Len(a) + Len(b) : t[k] = IF k <= Len(a) THEN a[k] ELSE b[k - Len(a)]
  BY <1>1, <1>2, ConcatProperties
<1> HIDE DEF t
<1>3. t \in Seq(Nodes) /\ Len(t) = Len(s) - (j - i + 1)
  BY <1>0, <1>1, <1>2, <1>c
<1>4. ASSUME NEW k \in 1 .. Len(t) PROVE t[k] = IF k < i THEN s[k] ELSE s[k + (j - i + 1)]
  <2>1. CASE k < i
    <3>1. k \in 1 .. i - 1 /\ t[k] = a[k]
      BY <2>1, <1>0, <1>1, <1>2, <1>3, <1>c
    <3> QED
      BY <3>1, <2>1, <1>1
  <2>2. CASE k >= i
    <3>0. k \in Int /\ ~(k < i) /\ ~(k <= Len(a)) /\ k \in 1 .. Len(a) + Len(b)
      BY <2>2, <1>0, <1>1, <1>2, <1>3
    <3>1. t[k] = b[k - Len(a)] /\ k - Len(a) = k - (i - 1)
      BY <3>0, <1>c, <1>1
    <3>2. PICK m \in 1 .. Len(s) - j : m = k - (i - 1)
      BY <3>0, <1>0, <1>1, <1>2
    <3>3. j + m = k + (j - i + 1)
      BY <3>2, <3>0, <1>0
    <3>4. b[m] = s[j + m]
      BY <1>2
    <3> QED
      BY <3>0, <3>1, <3>2, <3>3, <3>4
  <2> QED
    BY <2>1, <2>2, <1>0
<1>5. ASSUME NEW k \in 1 .. Len(t), NEW m \in 1 .. Len(t), t[k] = t[m] PROVE k = m
  <2> DEFINE old(x) == IF x < i THEN x ELSE x + (j - i + 1)
  <2>1. \A x \in 1 .. Len(t) : old(x) \in 1 .. Len(s) /\ t[x] = s[old(x)]
    BY <1>0, <1>3, <1>4
  <2>2. old(k) = old(m)
    BY <2>1, <1>5, <1>0
  <2> QED
    BY <2>2, <1>0, <1>3
<1>6. t \in Orders
  BY <1>3, <1>5 DEF Orders
<1> QED
  BY <1>3, <1>4, <1>6 DEF t, a, b
-------------------------------------------------------------------------------
(* The list *)

LEMMA NodeAtType ==
  ASSUME NEW s \in Orders, NEW i
  PROVE  NodeAt(s, i) \in NodeOrNone
  BY OrderType DEF NodeAt, NodeOrNone

\* Position i of an order, or none before the first and behind the last
LEMMA NodeAtIs ==
  ASSUME NEW s \in Orders, NEW i \in 0 .. Len(s) + 1
  PROVE  /\ NodeAt(s, i) = None <=> i = 0 \/ i = Len(s) + 1
         /\ \A k \in 1 .. Len(s) : NodeAt(s, i) = s[k] <=> i = k
  BY OrderType DEF NodeAt

LEMMA LinkedHolds ==
  ASSUME NEW L \in ListType, NEW s \in Orders, Holds(L, s),
         NEW n \in Nodes, n \notin L.active, NEW i \in 0 .. Len(s)
  PROVE  LET M == Linked(L, n, NodeAt(s, i), NodeAt(s, i + 1))
             t == Sequence!Insert(s, i, <<n>>)
         IN /\ M \in ListType /\ t \in Orders /\ Holds(M, t)
            /\ M.cursor = L.cursor /\ M.next_section = L.next_section
            /\ M.dirty <=> L.dirty \/ n \in Sections
            /\ M.active = L.active \cup {n}
<1> DEFINE p == NodeAt(s, i)
           x == NodeAt(s, i + 1)
           M == Linked(L, n, p, x)
           t == Sequence!Insert(s, i, <<n>>)
           sz == Len(s)
<1>0. /\ sz \in Nat /\ i \in Nat /\ i <= sz
      /\ \A k \in 1 .. sz : s[k] \in Nodes /\ s[k] # n /\ s[k] # None
      /\ \A k, j \in 1 .. sz : s[k] = s[j] => k = j
      /\ n # None /\ n \notin {s[k] : k \in 1 .. sz}
  <2>1. /\ sz \in Nat /\ i \in Nat /\ i <= sz
        /\ \A k \in 1 .. sz : s[k] \in Nodes /\ s[k] # None
        /\ \A k, j \in 1 .. sz : s[k] = s[j] => k = j
    BY OrderType
  <2>2. L.active = {s[k] : k \in 1 .. sz}
    BY DEF Holds
  <2>3. n \notin {s[k] : k \in 1 .. sz} /\ \A k \in 1 .. sz : s[k] # n
    BY <2>2
  <2>4. n # None
    BY BuilderListAssumption
  <2> QED
    BY <2>1, <2>3, <2>4
<1>1. /\ t \in Orders /\ Len(t) = sz + 1
      /\ \A k \in 1 .. sz + 1 : t[k] = IF k <= i THEN s[k] ELSE IF k = i + 1 THEN n ELSE s[k - 1]
  BY <1>0, InsertedIs
<1>2. /\ p \in NodeOrNone /\ x \in NodeOrNone
      /\ p = None <=> i = 0
      /\ x = None <=> i = sz
      /\ \A k \in 1 .. sz : (s[k] = p <=> k = i) /\ (s[k] = x <=> k = i + 1)
  BY <1>0, NodeAtIs, NodeAtType
<1>3. /\ M \in ListType
      /\ M.cursor = L.cursor /\ M.next_section = L.next_section
      /\ M.dirty <=> L.dirty \/ n \in Sections
      /\ M.active = L.active \cup {n}
      /\ M.first = IF p = None THEN n ELSE L.first
      /\ M.last = IF x = None THEN n ELSE L.last
      /\ \A m \in Nodes : M.next[m] = IF m = n THEN x ELSE IF m = p THEN n ELSE L.next[m]
      /\ \A m \in Nodes : M.prev[m] = IF m = n THEN p ELSE IF m = x THEN n ELSE L.prev[m]
  BY <1>2 DEF Linked, ListType, NodeOrNone
<1> HIDE DEF M, t, p, x
<1>4. \A k \in 0 .. sz + 2 :
        NodeAt(t, k) = IF k = i + 1 THEN n ELSE NodeAt(s, IF k <= i THEN k ELSE k - 1)
  <2> SUFFICES ASSUME NEW k \in 0 .. sz + 2
               PROVE  NodeAt(t, k) = IF k = i + 1 THEN n ELSE NodeAt(s, IF k <= i THEN k ELSE k - 1)
    OBVIOUS
  <2>1. CASE k \in 1 .. sz + 1
    BY <2>1, <1>0, <1>1 DEF NodeAt
  <2>2. CASE k \notin 1 .. sz + 1
    BY <2>2, <1>0, <1>1 DEF NodeAt
  <2> QED
    BY <2>1, <2>2
<1>5. M.active = {t[k] : k \in 1 .. Len(t)}
  <2>1. L.active = {s[k] : k \in 1 .. sz}
    BY DEF Holds
  <2>2. ASSUME NEW k \in 1 .. sz + 1 PROVE t[k] \in L.active \cup {n}
    BY <2>1, <1>0, <1>1
  <2>3. ASSUME NEW k \in 1 .. sz PROVE \E j \in 1 .. sz + 1 : t[j] = s[k]
    <3>1. CASE k <= i
      BY <3>1, <1>0, <1>1
    <3>2. CASE k > i
      <4>1. k + 1 \in 1 .. sz + 1 /\ ~(k + 1 <= i) /\ k + 1 # i + 1 /\ (k + 1) - 1 = k
        BY <3>2, <1>0
      <4> QED
        BY <4>1, <1>1
    <3> QED
      BY <3>1, <3>2, <1>0
  <2>4. i + 1 \in 1 .. sz + 1 /\ t[i + 1] = n
    BY <1>0, <1>1
  <2>5. \A m \in L.active \cup {n} : \E j \in 1 .. sz + 1 : t[j] = m
    BY <2>1, <2>3, <2>4
  <2>6. L.active \cup {n} = {t[k] : k \in 1 .. sz + 1}
    BY <2>2, <2>5
  <2> QED
    BY <2>6, <1>1, <1>3
<1>6. M.first = NodeAt(t, 1) /\ M.last = NodeAt(t, Len(t))
  <2>1. L.first = NodeAt(s, 1) /\ L.last = NodeAt(s, sz)
    BY DEF Holds
  <2>2. NodeAt(t, 1) = IF i = 0 THEN n ELSE NodeAt(s, 1)
    BY <1>4, <1>0
  <2>3. NodeAt(t, sz + 1) = IF i = sz THEN n ELSE NodeAt(s, sz)
    BY <1>4, <1>0
  <2> QED
    BY <2>1, <2>2, <2>3, <1>1, <1>2, <1>3
<1>7. ASSUME NEW k \in 1 .. Len(t)
      PROVE  M.next[t[k]] = NodeAt(t, k + 1) /\ M.prev[t[k]] = NodeAt(t, k - 1)
  <2>1. /\ k \in 1 .. sz + 1 /\ k - 1 \in 0 .. sz + 2 /\ k + 1 \in 0 .. sz + 2 /\ k \in Int
        /\ \A m \in 1 .. sz : L.next[s[m]] = NodeAt(s, m + 1) /\ L.prev[s[m]] = NodeAt(s, m - 1)
    BY <1>0, <1>1 DEF Holds
  <2>2. CASE k = i + 1
    <3>1. t[k] = n
      BY <2>1, <2>2, <1>0, <1>1
    <3>2. NodeAt(t, k + 1) = x /\ NodeAt(t, k - 1) = p
      BY <2>1, <2>2, <1>0, <1>4 DEF p, x
    <3> QED
      BY <3>1, <3>2, <1>3
  <2>3. CASE k <= i
    <3>1. t[k] = s[k] /\ k \in 1 .. sz
      BY <2>1, <2>3, <1>0, <1>1
    <3>2. NodeAt(t, k - 1) = NodeAt(s, k - 1)
      BY <2>1, <2>3, <1>0, <1>4
    <3>3. NodeAt(t, k + 1) = IF k = i THEN n ELSE NodeAt(s, k + 1)
      BY <2>1, <2>3, <1>0, <1>4
    <3>4. (s[k] = p <=> k = i) /\ s[k] # x
      BY <2>1, <2>3, <3>1, <1>0, <1>2
    <3>5. /\ L.next[s[k]] = NodeAt(s, k + 1) /\ L.prev[s[k]] = NodeAt(s, k - 1)
          /\ s[k] \in Nodes /\ s[k] # n
      BY <3>1, <2>1, <1>0
    <3>6. M.next[s[k]] = IF k = i THEN n ELSE NodeAt(s, k + 1)
      BY <3>4, <3>5, <1>3
    <3>7. M.prev[s[k]] = NodeAt(s, k - 1)
      BY <3>4, <3>5, <1>3
    <3> QED
      BY <3>1, <3>2, <3>3, <3>6, <3>7
  <2>4. CASE k > i + 1
    <3>0. PICK m \in 1 .. sz : k = m + 1 /\ k - 1 = m /\ m > i /\ m \in Int
      BY <2>1, <2>4, <1>0
    <3>1. t[k] = s[m]
      BY <3>0, <2>1, <2>4, <1>0, <1>1
    <3>2. NodeAt(t, k + 1) = NodeAt(s, m + 1)
      BY <3>0, <2>1, <2>4, <1>0, <1>4
    <3>3. NodeAt(t, k - 1) = IF m = i + 1 THEN n ELSE NodeAt(s, m - 1)
      BY <3>0, <2>1, <2>4, <1>0, <1>4
    <3>4. (s[m] = x <=> m = i + 1) /\ s[m] # p
      BY <3>0, <1>0, <1>2
    <3>5. /\ L.next[s[m]] = NodeAt(s, m + 1) /\ L.prev[s[m]] = NodeAt(s, m - 1)
          /\ s[m] \in Nodes /\ s[m] # n
      BY <2>1, <1>0
    <3>6. M.next[s[m]] = NodeAt(s, m + 1)
      BY <3>4, <3>5, <1>3
    <3>7. M.prev[s[m]] = IF m = i + 1 THEN n ELSE NodeAt(s, m - 1)
      BY <3>4, <3>5, <1>3
    <3> QED
      BY <3>1, <3>2, <3>3, <3>6, <3>7
  <2> QED
    BY <2>1, <2>2, <2>3, <2>4, <1>0
<1>8. ASSUME NEW m \in Nodes \ M.active PROVE M.next[m] = None /\ M.prev[m] = None
  <2>1. m # n /\ m \notin L.active
    BY <1>3
  <2>2. m # p /\ m # x
    BY <2>1, <1>0, OrderType, BuilderListAssumption DEF Holds, p, x, NodeAt
  <2> QED
    BY <2>1, <2>2, <1>3 DEF Holds
<1>9. Holds(M, t)
  BY <1>5, <1>6, <1>7, <1>8 DEF Holds
<1> QED
  BY <1>1, <1>3, <1>9 DEF M, t, p, x

\* M is L without the nodes that are gone, and holds t; the node before them is
\* known.
RunRemoved(L, gone, before, M, t) ==
  /\ M \in ListType /\ t \in Orders /\ Holds(M, t)
  /\ M.cursor = (IF L.cursor \in gone THEN before ELSE L.cursor)
  /\ M.next_section = L.next_section
  /\ M.dirty <=> L.dirty \/ gone \cap Sections # {}
  /\ M.active = L.active \ gone

LEMMA UnlinkedHolds ==
  ASSUME NEW L \in ListType, NEW s \in Orders, Holds(L, s),
         NEW i \in 1 .. Len(s), NEW j \in 1 .. Len(s), i <= j
  PROVE  RunRemoved(L, {s[k] : k \in i .. j}, NodeAt(s, i - 1),
                    Unlinked(L, s[i], s[j], {s[k] : k \in i .. j}),
                    SubSeq(s, 1, i - 1) \o SubSeq(s, j + 1, Len(s)))
<1> DEFINE gone == {s[k] : k \in i .. j}
           M == Unlinked(L, s[i], s[j], gone)
           t == SubSeq(s, 1, i - 1) \o SubSeq(s, j + 1, Len(s))
           p == NodeAt(s, i - 1)
           x == NodeAt(s, j + 1)
           sz == Len(s)
           d == j - i + 1
<1>0. /\ sz \in Nat /\ i \in Nat /\ j \in Nat /\ 1 <= i /\ i <= sz /\ 1 <= j /\ j <= sz
      /\ \A k \in 1 .. sz : s[k] \in Nodes /\ s[k] # None
      /\ \A k, m \in 1 .. sz : s[k] = s[m] => k = m
  BY OrderType
<1>1. /\ t \in Orders /\ Len(t) = sz - d
      /\ \A k \in 1 .. Len(t) : t[k] = IF k < i THEN s[k] ELSE s[k + d]
  BY RemovedIs
<1>2. /\ p \in NodeOrNone /\ x \in NodeOrNone
      /\ p = None <=> i = 1
      /\ x = None <=> j = sz
      /\ \A k \in 1 .. sz : (s[k] = p <=> k = i - 1) /\ (s[k] = x <=> k = j + 1)
  BY <1>0, NodeAtIs, NodeAtType
<1>a. /\ L.prev[s[i]] = p /\ L.next[s[j]] = x
      /\ L.first = s[i] <=> i = 1
      /\ L.last = s[j] <=> j = sz
  <2>1. L.first = NodeAt(s, 1) /\ L.last = NodeAt(s, sz) /\ L.prev[s[i]] = p /\ L.next[s[j]] = x
    BY DEF Holds
  <2>2. NodeAt(s, 1) = s[1] /\ NodeAt(s, sz) = s[sz] /\ 1 \in 1 .. sz /\ sz \in 1 .. sz
    BY <1>0 DEF NodeAt
  <2> QED
    BY <2>1, <2>2, <1>0
<1>g. gone \in SUBSET Nodes
  BY <1>0
<1>3. /\ M \in ListType
      /\ M.cursor = (IF L.cursor \in gone THEN p ELSE L.cursor)
      /\ M.next_section = L.next_section
      /\ M.dirty <=> L.dirty \/ gone \cap Sections # {}
      /\ M.active = L.active \ gone
      /\ M.first = IF i = 1 THEN x ELSE L.first
      /\ M.last = IF j = sz THEN p ELSE L.last
      /\ \A m \in Nodes : M.next[m] = IF m \in gone THEN None ELSE IF m = p THEN x ELSE L.next[m]
      /\ \A m \in Nodes : M.prev[m] = IF m \in gone THEN None ELSE IF m = x THEN p ELSE L.prev[m]
  <2> DEFINE nexts == [m \in Nodes |-> IF m \in gone THEN None ELSE IF m = p THEN x ELSE L.next[m]]
             prevs == [m \in Nodes |-> IF m \in gone THEN None ELSE IF m = x THEN p ELSE L.prev[m]]
             U == [L EXCEPT !.first = IF i = 1 THEN x ELSE L.first,
                            !.last = IF j = sz THEN p ELSE L.last,
                            !.next = nexts, !.prev = prevs,
                            !.active = L.active \ gone,
                            !.dirty = L.dirty \/ gone \cap Sections # {},
                            !.cursor = IF L.cursor \in gone THEN p ELSE L.cursor]
  <2> HIDE DEF gone, p, x
  <2>1. M = U
    BY <1>a DEF Unlinked, ListType
  <2>2. nexts \in [Nodes -> NodeOrNone] /\ prevs \in [Nodes -> NodeOrNone]
    BY <1>2 DEF ListType, NodeOrNone
  <2> HIDE DEF M, nexts, prevs
  <2>3. U \in ListType
    BY <1>2, <2>2 DEF ListType
  <2>4. /\ U.cursor = (IF L.cursor \in gone THEN p ELSE L.cursor)
        /\ U.next_section = L.next_section
        /\ U.dirty <=> L.dirty \/ gone \cap Sections # {}
        /\ U.active = L.active \ gone
        /\ U.first = IF i = 1 THEN x ELSE L.first
        /\ U.last = IF j = sz THEN p ELSE L.last
        /\ U.next = nexts /\ U.prev = prevs
    BY DEF ListType
  <2>5. \A m \in Nodes : nexts[m] = IF m \in gone THEN None ELSE IF m = p THEN x ELSE L.next[m]
    BY DEF nexts
  <2>6. \A m \in Nodes : prevs[m] = IF m \in gone THEN None ELSE IF m = x THEN p ELSE L.prev[m]
    BY DEF prevs
  <2> HIDE DEF U
  <2> QED
    BY <2>1, <2>3, <2>4, <2>5, <2>6
<1>b. \A k \in 1 .. sz : s[k] \in gone <=> k \in i .. j
  BY <1>0
<1> HIDE DEF M, t, p, x, gone
<1>4. \A k \in 0 .. Len(t) + 1 : NodeAt(t, k) = NodeAt(s, IF k < i THEN k ELSE k + d)
  <2> SUFFICES ASSUME NEW k \in 0 .. Len(t) + 1
               PROVE  NodeAt(t, k) = NodeAt(s, IF k < i THEN k ELSE k + d)
    OBVIOUS
  <2>0. Len(t) \in Nat
    BY <1>0, <1>1
  <2>1. CASE k < i
    <3>1. k \in 1 .. Len(t) <=> k \in 1 .. sz
      BY <2>0, <2>1, <1>0, <1>1
    <3> QED
      BY <3>1, <2>1, <1>1 DEF NodeAt
  <2>2. CASE k >= i
    <3>1. k \in 1 .. Len(t) <=> k + d \in 1 .. sz
      BY <2>0, <2>2, <1>0, <1>1
    <3>2. ~(k < i)
      BY <2>2, <2>0, <1>0
    <3> QED
      BY <3>1, <3>2, <1>1 DEF NodeAt
  <2> QED
    BY <2>0, <2>1, <2>2, <1>0
<1>5. M.active = {t[k] : k \in 1 .. Len(t)}
  <2>1. L.active = {s[k] : k \in 1 .. sz}
    BY DEF Holds
  <2>2. ASSUME NEW k \in 1 .. Len(t) PROVE t[k] \in L.active \ gone
    <3>1. PICK m \in 1 .. sz : t[k] = s[m] /\ m \notin i .. j
      <4>1. CASE k < i
        BY <4>1, <1>0, <1>1
      <4>2. CASE ~(k < i)
        <5>1. k + d \in 1 .. sz /\ k + d \notin i .. j
          BY <4>2, <1>0, <1>1
        <5> QED
          BY <5>1, <4>2, <1>1
      <4> QED
        BY <4>1, <4>2
    <3> QED
      BY <3>1, <2>1, <1>b
  <2>3. ASSUME NEW m \in L.active \ gone PROVE \E k \in 1 .. Len(t) : t[k] = m
    <3>1. PICK k \in 1 .. sz : s[k] = m
      BY <2>1
    <3>2. k \notin i .. j
      BY <3>1, <1>b
    <3>3. CASE k < i
      <4>1. k \in 1 .. Len(t)
        BY <3>3, <1>0, <1>1
      <4> QED
        BY <4>1, <3>1, <3>3, <1>1
    <3>4. CASE k > j
      <4>1. PICK y \in 1 .. Len(t) : y + d = k /\ ~(y < i)
        <5>1. k - d \in 1 .. Len(t) /\ (k - d) + d = k /\ ~(k - d < i)
          BY <3>4, <1>0, <1>1
        <5> QED
          BY <5>1
      <4> QED
        BY <4>1, <3>1, <1>1
    <3> QED
      BY <3>2, <3>3, <3>4, <1>0
  <2> QED
    BY <2>2, <2>3, <1>3
<1>6. M.first = NodeAt(t, 1) /\ M.last = NodeAt(t, Len(t))
  <2>1. L.first = NodeAt(s, 1) /\ L.last = NodeAt(s, sz)
    BY DEF Holds
  <2>2. NodeAt(t, 1) = IF i = 1 THEN x ELSE NodeAt(s, 1)
    <3>1. 1 \in 0 .. Len(t) + 1 /\ (1 < i <=> i # 1) /\ (i = 1 => 1 + d = j + 1)
      BY <1>0, <1>1
    <3> QED
      BY <3>1, <1>4 DEF x
  <2>3. NodeAt(t, Len(t)) = IF j = sz THEN p ELSE NodeAt(s, sz)
    <3>1. /\ Len(t) \in 0 .. Len(t) + 1 /\ (Len(t) < i <=> j = sz)
          /\ (j = sz => Len(t) = i - 1) /\ (j # sz => Len(t) + d = sz)
      <4>1. Len(t) \in Nat /\ Len(t) = sz - (j - i + 1)
        BY <1>1, OrderType
      <4> QED
        BY <4>1, <1>0
    <3> QED
      BY <3>1, <1>4 DEF p
  <2> QED
    BY <2>1, <2>2, <2>3, <1>3
<1>7. ASSUME NEW k \in 1 .. Len(t)
      PROVE  M.next[t[k]] = NodeAt(t, k + 1) /\ M.prev[t[k]] = NodeAt(t, k - 1)
  <2>0. PICK m \in 1 .. sz : m = IF k < i THEN k ELSE k + d
    <3>1. CASE k < i
      BY <3>1, <1>0, <1>1
    <3>2. CASE ~(k < i)
      <4>1. k + d \in 1 .. sz
        BY <3>2, <1>0, <1>1
      <4> QED
        BY <4>1, <3>2
    <3> QED
      BY <3>1, <3>2
  <2>1. t[k] = s[m] /\ s[m] \in Nodes /\ s[m] \notin gone
    BY <2>0, <1>0, <1>1, <1>b
  <2>2. L.next[s[m]] = NodeAt(s, m + 1) /\ L.prev[s[m]] = NodeAt(s, m - 1)
    BY DEF Holds
  <2>3. (s[m] = p <=> m = i - 1) /\ (s[m] = x <=> m = j + 1)
    BY <1>2
  <2>4. M.next[s[m]] = IF m = i - 1 THEN x ELSE NodeAt(s, m + 1)
    BY <2>1, <2>2, <2>3, <1>3
  <2>5. M.prev[s[m]] = IF m = j + 1 THEN p ELSE NodeAt(s, m - 1)
    BY <2>1, <2>2, <2>3, <1>3
  <2>6. NodeAt(t, k + 1) = IF m = i - 1 THEN x ELSE NodeAt(s, m + 1)
    <3>1. k + 1 \in 0 .. Len(t) + 1
      BY <1>0, <1>1
    <3>2. (IF k + 1 < i THEN k + 1 ELSE k + 1 + d) = IF m = i - 1 THEN j + 1 ELSE m + 1
      BY <2>0, <1>0, <1>1
    <3> QED
      BY <3>1, <3>2, <1>4 DEF x
  <2>7. NodeAt(t, k - 1) = IF m = j + 1 THEN p ELSE NodeAt(s, m - 1)
    <3>1. k - 1 \in 0 .. Len(t) + 1
      BY <1>0, <1>1
    <3>2. (IF k - 1 < i THEN k - 1 ELSE k - 1 + d) = IF m = j + 1 THEN i - 1 ELSE m - 1
      BY <2>0, <1>0, <1>1
    <3> QED
      BY <3>1, <3>2, <1>4 DEF p
  <2> QED
    BY <2>1, <2>4, <2>5, <2>6, <2>7
<1>8. ASSUME NEW m \in Nodes \ M.active PROVE M.next[m] = None /\ M.prev[m] = None
  <2>1. CASE m \in gone
    BY <2>1, <1>3
  <2>2. CASE m \notin gone
    <3>1. m \notin L.active
      BY <2>2, <1>3
    <3>2. m # p /\ m # x
      BY <3>1, <1>0, BuilderListAssumption DEF Holds, p, x, NodeAt
    <3> QED
      BY <2>2, <3>1, <3>2, <1>3 DEF Holds
  <2> QED
    BY <2>1, <2>2
<1>9. Holds(M, t)
  BY <1>5, <1>6, <1>7, <1>8 DEF Holds
<1>10. RunRemoved(L, gone, p, M, t)
  BY <1>1, <1>3, <1>9 DEF RunRemoved
<1> QED
  BY <1>10 DEF M, t, p, gone

\* The recursion of Walk, which goes one node further at each step,
IsWalk(f, L) ==
  f = [i \in Nat |->
        [n \in Nodes \cup {None} |->
           IF n = None \/ i = 0 THEN <<>> ELSE <<n>> \o f[i - 1][L.next[n]]]]

\* has a solution,
LEMMA WalkExists ==
  \A L \in ListType : \E f : IsWalk(f, L)
<1>0. SUFFICES ASSUME NEW L, L \in ListType PROVE \E f : IsWalk(f, L)
  OBVIOUS
<1>1. PICK T : T = [NodeOrNone -> Seq(Nodes)]
  OBVIOUS
<1>2. PICK none : none = [n \in NodeOrNone |-> <<>>]
  OBVIOUS
<1>3. PICK g : g = [h \in T |-> [n \in NodeOrNone |->
                      IF n = None THEN <<>> ELSE <<n>> \o h[L.next[n]]]]
  OBVIOUS
<1>4. none \in T
  BY <1>1, <1>2
<1>5. g \in [T -> T]
  <2>1. ASSUME NEW h \in T, NEW n \in NodeOrNone
        PROVE  (IF n = None THEN <<>> ELSE <<n>> \o h[L.next[n]]) \in Seq(Nodes)
    <3>1. CASE n = None
      BY <3>1
    <3>2. CASE n # None
      <4>1. n \in Nodes /\ L.next[n] \in NodeOrNone
        BY <3>2, <1>0 DEF ListType, NodeOrNone
      <4>2. h[L.next[n]] \in Seq(Nodes) /\ <<n>> \in Seq(Nodes)
        BY <4>1, <1>1
      <4> QED
        BY <3>2, <4>2, ConcatProperties
    <3> QED
      BY <3>1, <3>2
  <2>2. ASSUME NEW h \in T
        PROVE  [n \in NodeOrNone |-> IF n = None THEN <<>> ELSE <<n>> \o h[L.next[n]]] \in T
    BY <2>1, <1>1
  <2> QED
    BY <2>2, <1>3
<1>6. PICK f \in [Nat -> T] : f[0] = none /\ \A n \in Nat : f[n + 1] = g[f[n]]
  BY <1>4, <1>5, NatRecursion
<1>7. ASSUME NEW i \in Nat
      PROVE  f[i] = [n \in Nodes \cup {None} |->
                       IF n = None \/ i = 0 THEN <<>> ELSE <<n>> \o f[i - 1][L.next[n]]]
  <2>1. CASE i = 0
    BY <2>1, <1>2, <1>6 DEF NodeOrNone
  <2>2. CASE i # 0
    <3>1. PICK k \in Nat : i = k + 1 /\ k = i - 1
      BY <2>2
    <3>2. f[k] \in T /\ f[i] = g[f[k]]
      BY <3>1, <1>6
    <3>3. f[i] = [n \in NodeOrNone |-> IF n = None THEN <<>> ELSE <<n>> \o f[k][L.next[n]]]
      BY <3>2, <1>3
    <3> QED
      BY <2>2, <3>1, <3>3 DEF NodeOrNone
  <2> QED
    BY <2>1, <2>2
<1>8. f = [i \in Nat |-> [n \in Nodes \cup {None} |->
             IF n = None \/ i = 0 THEN <<>> ELSE <<n>> \o f[i - 1][L.next[n]]]]
  BY <1>6, <1>7
<1> QED
  BY <1>8 DEF IsWalk

\* which is what Walk takes its value from,
LEMMA WalkIsChosen ==
  ASSUME NEW L \in ListType
  PROVE  \E f : IsWalk(f, L) /\ Walk(L) = f[Cardinality(Nodes) + 1][L.first]
<1>1. Walk(L) = (CHOOSE f : IsWalk(f, L))[Cardinality(Nodes) + 1][L.first]
  BY DEF Walk, IsWalk
<1> QED
  BY <1>1, WalkExists

\* and it collects what the list holds.
LEMMA WalkIs ==
  ASSUME NEW L \in ListType, NEW s \in Orders, Holds(L, s)
  PROVE  Walk(L) = s
<1> DEFINE sz == Len(s)
<1>0. PICK f : IsWalk(f, L) /\ Walk(L) = f[Cardinality(Nodes) + 1][L.first]
  BY WalkIsChosen
<1>1. /\ sz \in Nat /\ s \in Seq(Nodes) /\ \A k \in 1 .. sz : s[k] \in Nodes /\ s[k] # None
  BY OrderType
<1>2. ASSUME NEW i \in Nat, NEW n \in Nodes \cup {None}
      PROVE  f[i][n] = IF n = None \/ i = 0 THEN <<>> ELSE <<n>> \o f[i - 1][L.next[n]]
  <2>1. f = [j \in Nat |->
              [m \in Nodes \cup {None} |->
                 IF m = None \/ j = 0 THEN <<>> ELSE <<m>> \o f[j - 1][L.next[m]]]]
    BY <1>0 DEF IsWalk
  <2>2. f[i] = [m \in Nodes \cup {None} |->
                  IF m = None \/ i = 0 THEN <<>> ELSE <<m>> \o f[i - 1][L.next[m]]]
    BY <2>1
  <2> QED
    BY <2>2
<1> DEFINE Done == {i \in Nat : \A k \in 1 .. sz + 1 :
                      i >= sz + 1 - k => f[i][NodeAt(s, k)] = SubSeq(s, k, sz)}
<1>3. ASSUME NEW i \in Nat PROVE f[i][NodeAt(s, sz + 1)] = SubSeq(s, sz + 1, sz)
  <2>1. NodeAt(s, sz + 1) = None
    BY <1>1 DEF NodeAt
  <2>2. SubSeq(s, sz + 1, sz) = <<>>
    BY <1>1, SubSeqEmpty
  <2> QED
    BY <2>1, <2>2, <1>2
<1>4. 0 \in Done
  <2>1. ASSUME NEW k \in 1 .. sz + 1, 0 >= sz + 1 - k PROVE k = sz + 1
    BY <2>1, <1>1
  <2> QED
    BY <2>1, <1>3
<1>5. ASSUME NEW i \in Nat, i \in Done PROVE i + 1 \in Done
  <2> SUFFICES ASSUME NEW k \in 1 .. sz + 1, i + 1 >= sz + 1 - k
               PROVE  f[i + 1][NodeAt(s, k)] = SubSeq(s, k, sz)
    OBVIOUS
  <2>1. CASE k = sz + 1
    BY <2>1, <1>3
  <2>2. CASE k # sz + 1
    <3>1. /\ k \in 1 .. sz /\ NodeAt(s, k) = s[k] /\ k + 1 \in 1 .. sz + 1
          /\ i >= sz + 1 - (k + 1)
      BY <2>2, <1>1 DEF NodeAt
    <3>2. L.next[s[k]] = NodeAt(s, k + 1)
      BY <3>1 DEF Holds
    <3>3. f[i + 1][s[k]] = <<s[k]>> \o f[i][NodeAt(s, k + 1)]
      <4>1. PICK j \in Nat : j = i + 1 /\ j # 0 /\ j - 1 = i
        OBVIOUS
      <4>2. s[k] \in Nodes \cup {None} /\ s[k] # None
        BY <3>1, <1>1
      <4>3. f[j][s[k]] = <<s[k]>> \o f[j - 1][L.next[s[k]]]
        BY <4>1, <4>2, <1>2
      <4> QED
        BY <4>1, <4>3, <3>2
    <3>4. f[i][NodeAt(s, k + 1)] = SubSeq(s, k + 1, sz)
      BY <3>1, <1>5
    <3>5. SubSeq(s, k, sz) = <<s[k]>> \o SubSeq(s, k + 1, sz)
      <4>1. sz \in k .. Len(s)
        BY <3>1, <1>1
      <4> QED
        BY <4>1, <3>1, <1>1, SubSeqRecursiveFirst
    <3> QED
      BY <3>1, <3>3, <3>4, <3>5
  <2> QED
    BY <2>1, <2>2
<1>c. PICK c \in Nat : c = Cardinality(Nodes) + 1 /\ c >= sz
  <2>1. PICK b \in Nat : b = Cardinality(Nodes) /\ sz <= b
    BY OrderIsBounded
  <2>2. b + 1 \in Nat /\ b + 1 >= sz
    BY <2>1, <1>1
  <2> QED
    BY <2>1, <2>2
<1>6. c \in Done
  <2>1. Inductive(Done)
    BY <1>4, <1>5 DEF Inductive
  <2> HIDE DEF Done
  <2> QED
    BY <2>1, InductiveHasNat
<1>7. f[c][NodeAt(s, 1)] = SubSeq(s, 1, sz)
  <2>1. 1 \in 1 .. sz + 1 /\ c >= sz + 1 - 1
    BY <1>1, <1>c
  <2> QED
    BY <2>1, <1>6
<1>8. L.first = NodeAt(s, 1)
  BY DEF Holds
<1> QED
  BY <1>0, <1>1, <1>c, <1>7, <1>8, SubSeqFull

-------------------------------------------------------------------------------
(* Sections in an order *)

\* Position k holds the first section behind position i.
NextSectionAt(s, i, k) ==
  /\ k \in i + 1 .. Len(s)
  /\ s[k] \in Sections
  /\ \A m \in i + 1 .. k - 1 : s[m] \notin Sections

LastSection(s, i) == \A k \in i + 1 .. Len(s) : s[k] \notin Sections

LEMMA NextSectionExists ==
  ASSUME NEW s \in Orders, NEW i \in 0 .. Len(s)
  PROVE  LastSection(s, i) \/ \E k \in i + 1 .. Len(s) : NextSectionAt(s, i, k)
<1> DEFINE behind == {k \in i + 1 .. Len(s) : s[k] \in Sections}
<1>1. Len(s) \in Nat /\ i \in Nat
  BY OrderType
<1>2. ASSUME behind # {} PROVE \E k \in behind : NextSectionAt(s, i, k)
  <2>1. behind \in SUBSET Nat
    BY <1>1
  <2>2. PICK k \in behind : \A m \in behind : k <= m
    <3> HIDE DEF behind
    <3> QED
      BY <1>2, <2>1, MinOfNats
  <2>3. ASSUME NEW m \in i + 1 .. k - 1 PROVE s[m] \notin Sections
    BY <1>1, <2>2
  <2> QED
    BY <2>2, <2>3 DEF NextSectionAt
<1> QED
  BY <1>2 DEF LastSection

\* The first section behind a position is the only one, so it is the one found.
LEMMA LeastIsNext ==
  ASSUME NEW s \in Orders, NEW i \in 0 .. Len(s), NEW k, NextSectionAt(s, i, k)
  PROVE  (CHOOSE q \in {m \in i + 1 .. Len(s) : s[m] \in Sections} :
            \A m \in {x \in i + 1 .. Len(s) : s[x] \in Sections} : q <= m) = k
<1> DEFINE behind == {m \in i + 1 .. Len(s) : s[m] \in Sections}
<1>1. Len(s) \in Nat /\ i \in Nat
  BY OrderType
<1>2. k \in behind /\ \A m \in behind : k <= m
  BY <1>1 DEF NextSectionAt
<1>3. behind \in SUBSET Nat
  BY <1>1
<1> HIDE DEF behind
<1>4. \A q \in behind : (\A m \in behind : q <= m) => q = k
  BY <1>2, <1>3
<1>5. (CHOOSE q \in behind : \A m \in behind : q <= m) = k
  BY <1>2, <1>4
<1> QED
  BY <1>5 DEF behind

LEMMA SectionBehindIs ==
  ASSUME NEW s \in Orders, NEW i \in 0 .. Len(s)
  PROVE  /\ SectionBehind(s, i) \in NodeOrNone
         /\ LastSection(s, i) => SectionBehind(s, i) = None
         /\ \A k : NextSectionAt(s, i, k) => SectionBehind(s, i) = s[k]
<1>1. ASSUME NEW k, NextSectionAt(s, i, k) PROVE SectionBehind(s, i) = s[k] /\ s[k] \in Nodes
  <2>1. k \in {m \in i + 1 .. Len(s) : s[m] \in Sections}
    BY <1>1 DEF NextSectionAt
  <2>2. SectionBehind(s, i) =
          s[CHOOSE q \in {m \in i + 1 .. Len(s) : s[m] \in Sections} :
              \A m \in {x \in i + 1 .. Len(s) : s[x] \in Sections} : q <= m]
    BY <2>1 DEF SectionBehind
  <2>3. k \in 1 .. Len(s)
    BY <1>1, OrderType DEF NextSectionAt
  <2> QED
    BY <1>1, <2>2, <2>3, LeastIsNext, OrderType
<1>2. ASSUME LastSection(s, i) PROVE SectionBehind(s, i) = None
  <2>1. {k \in i + 1 .. Len(s) : s[k] \in Sections} = {}
    BY <1>2 DEF LastSection
  <2> QED
    BY <2>1 DEF SectionBehind
<1> QED
  BY <1>1, <1>2, NextSectionExists DEF NodeOrNone

LEMMA EndOfSectionIs ==
  ASSUME NEW s \in Orders, NEW i \in 0 .. Len(s)
  PROVE  /\ LastSection(s, i) => Sequence!EndOfSection(s, i) = Len(s)
         /\ \A k : NextSectionAt(s, i, k) => Sequence!EndOfSection(s, i) = k - 1
<1>1. ASSUME NEW k, NextSectionAt(s, i, k) PROVE Sequence!EndOfSection(s, i) = k - 1
  <2>1. k \in {m \in i + 1 .. Len(s) : s[m] \in Sections}
    BY <1>1 DEF NextSectionAt
  <2>2. Sequence!EndOfSection(s, i) =
          (CHOOSE q \in {m \in i + 1 .. Len(s) : s[m] \in Sections} :
              \A m \in {x \in i + 1 .. Len(s) : s[x] \in Sections} : q <= m) - 1
    BY <2>1 DEF Sequence!EndOfSection
  <2> QED
    BY <1>1, <2>2, LeastIsNext
<1>2. ASSUME LastSection(s, i) PROVE Sequence!EndOfSection(s, i) = Len(s)
  <2>1. {k \in i + 1 .. Len(s) : s[k] \in Sections} = {}
    BY <1>2 DEF LastSection
  <2> QED
    BY <2>1 DEF Sequence!EndOfSection
<1> QED
  BY <1>1, <1>2

\* An order t that has the sections of s, and its other nodes, in the order of s,
\* by h from positions of s to those of t
Embeds(h, s, t) ==
  /\ \A q \in 1 .. Len(s) : h[q] \in 1 .. Len(t) /\ t[h[q]] = s[q]
  /\ \A q, r \in 1 .. Len(s) : q < r => h[q] < h[r]
  /\ \A k \in 1 .. Len(t) : t[k] \in Sections => \E q \in 1 .. Len(s) : k = h[q]

LEMMA SameSectionBehind ==
  ASSUME NEW s \in Orders, NEW t \in Orders, NEW h, Embeds(h, s, t), NEW i \in 1 .. Len(s)
  PROVE  SectionBehind(t, h[i]) = SectionBehind(s, i)
<1>0. /\ Len(s) \in Nat /\ Len(t) \in Nat /\ i \in 0 .. Len(s) /\ i \in Nat
      /\ h[i] \in 1 .. Len(t) /\ h[i] \in 0 .. Len(t) /\ h[i] \in Nat
  BY OrderType DEF Embeds
<1>1. CASE LastSection(s, i)
  <2>1. ASSUME NEW k \in h[i] + 1 .. Len(t), t[k] \in Sections PROVE FALSE
    <3>1. k \in 1 .. Len(t)
      BY <1>0
    <3>2. PICK q \in 1 .. Len(s) : k = h[q]
      BY <2>1, <3>1 DEF Embeds
    <3>3. h[i] < h[q] /\ s[q] \in Sections
      BY <2>1, <3>2, <1>0 DEF Embeds
    <3>4. ~(q <= i)
      BY <3>2, <3>3, <1>0 DEF Embeds
    <3> QED
      BY <3>3, <3>4, <1>0, <1>1 DEF LastSection
  <2>2. LastSection(t, h[i])
    BY <2>1 DEF LastSection
  <2> QED
    BY <2>2, <1>0, <1>1, SectionBehindIs
<1>2. CASE \E k \in i + 1 .. Len(s) : NextSectionAt(s, i, k)
  <2>1. PICK k \in i + 1 .. Len(s) : NextSectionAt(s, i, k)
    BY <1>2
  <2>2. k \in 1 .. Len(s) /\ i < k /\ s[k] \in Sections
    BY <2>1, <1>0 DEF NextSectionAt
  <2>3. h[k] \in h[i] + 1 .. Len(t) /\ t[h[k]] = s[k] /\ h[k] \in 1 .. Len(t)
    BY <2>2, <1>0 DEF Embeds
  <2>4. ASSUME NEW m \in h[i] + 1 .. h[k] - 1, t[m] \in Sections PROVE FALSE
    <3>1. m \in 1 .. Len(t) /\ h[i] < m /\ m < h[k]
      BY <1>0, <2>3
    <3>2. PICK q \in 1 .. Len(s) : m = h[q]
      BY <2>4, <3>1 DEF Embeds
    <3>3. s[q] \in Sections
      BY <2>4, <3>2 DEF Embeds
    <3>4. ~(q <= i) /\ ~(k <= q)
      <4>1. q = i \/ q < i => ~(h[i] < h[q])
        BY <3>2, <1>0, <3>1 DEF Embeds
      <4>2. k = q \/ k < q => ~(h[q] < h[k])
        BY <3>2, <2>2, <2>3, <1>0, <3>1 DEF Embeds
      <4> QED
        BY <4>1, <4>2, <3>1, <3>2, <2>2, <1>0
    <3>5. q \in i + 1 .. k - 1
      BY <3>4, <2>2, <1>0
    <3> QED
      BY <3>3, <3>5, <2>1 DEF NextSectionAt
  <2>5. NextSectionAt(t, h[i], h[k])
    BY <2>2, <2>3, <2>4 DEF NextSectionAt
  <2> QED
    BY <2>1, <2>3, <2>5, <1>0, SectionBehindIs
<1> QED
  BY <1>0, <1>1, <1>2, NextSectionExists

-------------------------------------------------------------------------------
(* Operations on the list *)

\* Unless they are dirty, the links of the sections in the list are the ones
\* update_section_links() would find.
LinksKnown(L, s) ==
  ~L.dirty => \A i \in 1 .. Len(s) : s[i] \in Sections => L.next_section[s[i]] = SectionBehind(s, i)

\* The list L is in order and is the sequence s.
Sound(L, s) ==
  /\ L \in ListType
  /\ s \in Orders
  /\ Holds(L, s)
  /\ LinksKnown(L, s)
  /\ L.cursor \in L.active \cup {None}

LEMMA SoundParts ==
  ASSUME NEW L, NEW s, Sound(L, s)
  PROVE  /\ L \in ListType /\ s \in Orders /\ Holds(L, s)
         /\ s \in Seq(Nodes) /\ Len(s) \in Nat /\ DOMAIN s = 1 .. Len(s)
         /\ L.active = {s[i] : i \in 1 .. Len(s)} /\ L.active \in SUBSET Nodes
         /\ L.first = NodeAt(s, 1) /\ L.last = NodeAt(s, Len(s))
         /\ L.cursor \in L.active \cup {None}
         /\ None \notin Nodes
  BY OrderType, BuilderListAssumption DEF Sound, Holds, ListType

LEMMA SoundWalk ==
  ASSUME NEW L, NEW s, Sound(L, s)
  PROVE  Walk(L) = s
  BY WalkIs DEF Sound

LEMMA CursorMoved ==
  ASSUME NEW L, NEW s, Sound(L, s), NEW c \in L.active \cup {None}
  PROVE  LET M == [L EXCEPT !.cursor = c]
         IN /\ Sound(M, s) /\ M.cursor = c /\ M.active = L.active
            /\ M.next = L.next /\ M.prev = L.prev /\ M.first = L.first /\ M.last = L.last
<1> DEFINE M == [L EXCEPT !.cursor = c]
<1>1. L \in ListType /\ c \in NodeOrNone /\ L.active \in SUBSET Nodes
  BY SoundParts DEF NodeOrNone
<1>2. M \in ListType
  BY <1>1 DEF ListType
<1>3. /\ M.cursor = c /\ M.active = L.active /\ M.dirty = L.dirty
      /\ M.next = L.next /\ M.prev = L.prev /\ M.first = L.first /\ M.last = L.last
      /\ M.next_section = L.next_section
  BY <1>1 DEF ListType
<1> HIDE DEF M
<1>4. Holds(M, s) /\ LinksKnown(M, s)
  BY <1>3 DEF Sound, Holds, LinksKnown
<1>5. Sound(M, s)
  BY <1>2, <1>3, <1>4 DEF Sound
<1> QED
  BY <1>3, <1>5 DEF M

\* The position of a node is where it is.
LEMMA AtIs ==
  ASSUME NEW s \in Orders
  PROVE  /\ Sequence!At(s, None) = 0
         /\ \A i \in 1 .. Len(s) : Sequence!At(s, s[i]) = i
<1>1. /\ DOMAIN s = 1 .. Len(s) /\ \A i \in 1 .. Len(s) : s[i] # None
      /\ \A i, j \in 1 .. Len(s) : s[i] = s[j] => i = j
  BY OrderType
<1>2. ASSUME NEW i \in 1 .. Len(s) PROVE Sequence!At(s, s[i]) = i
  <2>1. Sequence!At(s, s[i]) = CHOOSE k \in 1 .. Len(s) : s[k] = s[i]
    BY <1>1 DEF Sequence!At
  <2>2. (CHOOSE k \in 1 .. Len(s) : s[k] = s[i]) = i
    BY <1>1
  <2> QED
    BY <2>1, <2>2
<1> QED
  BY <1>2 DEF Sequence!At

LEMMA PositionOf ==
  ASSUME NEW L, NEW s, Sound(L, s), NEW n \in L.active
  PROVE  /\ Sequence!At(s, n) \in 1 .. Len(s)
         /\ s[Sequence!At(s, n)] = n
         /\ NodeAt(s, Sequence!At(s, n)) = n
         /\ L.next[n] = NodeAt(s, Sequence!At(s, n) + 1)
         /\ L.prev[n] = NodeAt(s, Sequence!At(s, n) - 1)
<1>1. PICK i \in 1 .. Len(s) : n = s[i]
  BY SoundParts
<1>2. Sequence!At(s, n) = i
  BY <1>1, SoundParts, AtIs
<1> QED
  BY <1>1, <1>2 DEF Sound, Holds, NodeAt

\* A node linked at position i of a list
LEMMA LinkedIsSound ==
  ASSUME NEW L, NEW s, Sound(L, s), NEW n \in Nodes, n \notin L.active, NEW i \in 0 .. Len(s)
  PROVE  LET M == Linked(L, n, NodeAt(s, i), NodeAt(s, i + 1))
             t == Sequence!Insert(s, i, <<n>>)
         IN Sound(M, t) /\ M.cursor = L.cursor /\ M.active = L.active \cup {n}
<1>0. L \in ListType /\ s \in Orders /\ Holds(L, s) /\ L.active = {s[k] : k \in 1 .. Len(s)} /\ Len(s) \in Nat
  BY SoundParts
<1>1. PICK M, t : /\ M = Linked(L, n, NodeAt(s, i), NodeAt(s, i + 1))
                  /\ t = Sequence!Insert(s, i, <<n>>)
  OBVIOUS
<1>2. /\ M \in ListType /\ t \in Orders /\ Holds(M, t)
      /\ M.cursor = L.cursor /\ M.next_section = L.next_section
      /\ M.dirty <=> L.dirty \/ n \in Sections
      /\ M.active = L.active \cup {n}
  <2>0. L \in ListType /\ s \in Orders /\ Holds(L, s) /\ n \in Nodes /\ n \notin L.active /\ i \in 0 .. Len(s)
    BY <1>0
  <2>1. LET A == Linked(L, n, NodeAt(s, i), NodeAt(s, i + 1))
            b == Sequence!Insert(s, i, <<n>>)
        IN /\ A \in ListType /\ b \in Orders /\ Holds(A, b)
           /\ A.cursor = L.cursor /\ A.next_section = L.next_section
           /\ A.dirty <=> L.dirty \/ n \in Sections
           /\ A.active = L.active \cup {n}
    BY <2>0, LinkedHolds
  <2> QED
    BY <2>1, <1>1
<1>3. /\ Len(t) = Len(s) + 1
      /\ \A k \in 1 .. Len(s) + 1 : t[k] = IF k <= i THEN s[k] ELSE IF k = i + 1 THEN n ELSE s[k - 1]
  BY <1>0, <1>1, InsertedIs
<1>4. LinksKnown(M, t)
  <2> SUFFICES ASSUME ~M.dirty, NEW k \in 1 .. Len(t), t[k] \in Sections
               PROVE  M.next_section[t[k]] = SectionBehind(t, k)
    BY DEF LinksKnown
  <2>0. ~L.dirty /\ n \notin Sections
    BY <1>2
  <2>1. PICK h : h = [q \in 1 .. Len(s) |-> IF q <= i THEN q ELSE q + 1]
    OBVIOUS
  <2>2. ASSUME NEW q \in 1 .. Len(s) PROVE h[q] \in 1 .. Len(t) /\ t[h[q]] = s[q]
    <3>1. h[q] = IF q <= i THEN q ELSE q + 1
      BY <2>1
    <3>2. CASE q <= i
      BY <3>1, <3>2, <1>0, <1>3
    <3>3. CASE ~(q <= i)
      <4>1. PICK r \in 1 .. Len(s) + 1 : r = q + 1 /\ ~(r <= i) /\ r # i + 1 /\ r - 1 = q
        <5>1. q + 1 \in 1 .. Len(s) + 1
          BY <1>0
        <5> QED
          BY <5>1, <3>3, <1>0
      <4> QED
        BY <3>1, <3>3, <4>1, <1>3
    <3> QED
      BY <3>2, <3>3
  <2>3. ASSUME NEW q \in 1 .. Len(s), NEW r \in 1 .. Len(s), q < r PROVE h[q] < h[r]
    BY <2>1, <2>3, <1>0
  <2>4. ASSUME NEW m \in 1 .. Len(t), t[m] \in Sections PROVE \E q \in 1 .. Len(s) : m = h[q]
    <3>1. m # i + 1
      BY <2>0, <2>4, <1>0, <1>3
    <3>2. CASE m <= i
      BY <3>2, <2>1, <1>0, <1>3
    <3>3. CASE ~(m <= i)
      <4>1. PICK q \in 1 .. Len(s) : m = q + 1 /\ ~(q <= i)
        <5>1. m - 1 \in 1 .. Len(s) /\ m = (m - 1) + 1 /\ ~(m - 1 <= i)
          BY <3>1, <3>3, <1>0, <1>3
        <5> QED
          BY <5>1
      <4> QED
        BY <4>1, <2>1
    <3> QED
      BY <3>2, <3>3
  <2>5. Embeds(h, s, t)
    BY <2>2, <2>3, <2>4 DEF Embeds
  <2>6. PICK q \in 1 .. Len(s) : k = h[q]
    BY <2>4
  <2>7. t[k] = s[q] /\ SectionBehind(t, k) = SectionBehind(s, q)
    BY <2>2, <2>5, <2>6, <1>0, <1>2, SameSectionBehind
  <2>8. L.next_section[s[q]] = SectionBehind(s, q)
    BY <2>0, <2>7 DEF Sound, LinksKnown
  <2> QED
    BY <2>7, <2>8, <1>2
<1>5. Sound(M, t)
  BY <1>2, <1>4 DEF Sound
<1> QED
  BY <1>1, <1>2, <1>5

\* add_node(): the node goes behind the cursor and becomes the cursor.
LEMMA AddedNode ==
  ASSUME NEW L, NEW s, Sound(L, s), NEW n \in Nodes, n \notin L.active
  PROVE  LET M == AddNode(L, n)
         IN /\ Sound(M, Sequence!Insert(s, Sequence!At(s, L.cursor), <<n>>))
            /\ M.cursor = n /\ M.active = L.active \cup {n}
            /\ Sequence!At(s, L.cursor) \in 0 .. Len(s)
<1>0. PICK i \in 0 .. Len(s) : /\ i = Sequence!At(s, L.cursor)
                               /\ L.cursor = NodeAt(s, i)
                               /\ L.cursor # None => L.next[L.cursor] = NodeAt(s, i + 1)
                               /\ L.cursor = None => i = 0
  <2>1. CASE L.cursor = None
    <3>1. Sequence!At(s, L.cursor) = 0 /\ 0 \in 0 .. Len(s) /\ NodeAt(s, 0) = None
      BY <2>1, AtIs, SoundParts DEF NodeAt
    <3> QED
      BY <2>1, <3>1
  <2>2. CASE L.cursor # None
    <3>1. L.cursor \in L.active
      BY <2>2, SoundParts
    <3>2. Sequence!At(s, L.cursor) \in 0 .. Len(s)
      BY <3>1, PositionOf, SoundParts
    <3> QED
      BY <2>2, <3>1, <3>2, PositionOf
  <2> QED
    BY <2>1, <2>2
<1>1. PICK A : A = Linked(L, n, NodeAt(s, i), NodeAt(s, i + 1))
  OBVIOUS
<1>2. /\ Sound(A, Sequence!Insert(s, i, <<n>>)) /\ A.active = L.active \cup {n}
  BY <1>1, LinkedIsSound
<1>3. AddNode(L, n) = [A EXCEPT !.cursor = n]
  <2>1. CASE L.cursor = None
    <3>1. i = 0 /\ i + 1 = 1
      BY <2>1, <1>0
    <3>2. L.first = NodeAt(s, i + 1) /\ NodeAt(s, i) = None
      BY <2>1, <3>1, <1>0, SoundParts
    <3>3. A = Linked(L, n, None, L.first)
      BY <3>2, <1>1
    <3> QED
      BY <2>1, <3>3 DEF AddNode
  <2>2. CASE L.cursor # None
    <3>1. A = Linked(L, n, L.cursor, L.next[L.cursor])
      BY <2>2, <1>0, <1>1
    <3> QED
      BY <2>2, <3>1 DEF AddNode
  <2> QED
    BY <2>1, <2>2
<1>4. n \in A.active \cup {None}
  BY <1>2
<1>5. PICK M : M = [A EXCEPT !.cursor = n]
  OBVIOUS
<1>6. Sound(M, Sequence!Insert(s, i, <<n>>)) /\ M.cursor = n /\ M.active = A.active
  BY <1>2, <1>4, <1>5, CursorMoved
<1> QED
  BY <1>0, <1>2, <1>3, <1>5, <1>6

LEMMA AddedAfter ==
  ASSUME NEW L, NEW s, Sound(L, s), NEW n \in Nodes, n \notin L.active, NEW ref \in L.active
  PROVE  LET M == AddAfter(L, n, ref)
         IN /\ Sound(M, Sequence!Insert(s, Sequence!At(s, ref), <<n>>))
            /\ M.cursor = L.cursor /\ M.active = L.active \cup {n}
<1>1. PICK i \in 1 .. Len(s) : i = Sequence!At(s, ref) /\ NodeAt(s, i) = ref /\ L.next[ref] = NodeAt(s, i + 1)
  BY PositionOf
<1>2. i \in 0 .. Len(s)
  BY SoundParts
<1>3. AddAfter(L, n, ref) = Linked(L, n, NodeAt(s, i), NodeAt(s, i + 1))
  BY <1>1 DEF AddAfter
<1> QED
  BY <1>1, <1>2, <1>3, LinkedIsSound

LEMMA AddedBefore ==
  ASSUME NEW L, NEW s, Sound(L, s), NEW n \in Nodes, n \notin L.active, NEW ref \in L.active
  PROVE  LET M == AddBefore(L, n, ref)
         IN /\ Sound(M, Sequence!Insert(s, Sequence!At(s, ref) - 1, <<n>>))
            /\ M.cursor = L.cursor /\ M.active = L.active \cup {n}
<1>1. PICK k \in 1 .. Len(s) : k = Sequence!At(s, ref) /\ NodeAt(s, k) = ref /\ L.prev[ref] = NodeAt(s, k - 1)
  BY PositionOf
<1>2. PICK i \in 0 .. Len(s) : i = k - 1 /\ k = i + 1
  <2>1. k - 1 \in 0 .. Len(s) /\ k = (k - 1) + 1
    BY SoundParts
  <2> QED
    BY <2>1
<1>3. AddBefore(L, n, ref) = Linked(L, n, NodeAt(s, i), NodeAt(s, i + 1))
  BY <1>1, <1>2 DEF AddBefore
<1>4. Sequence!At(s, ref) - 1 = i
  BY <1>1, <1>2
<1> QED
  BY <1>3, <1>4, LinkedIsSound

Run(s, i, j) == {s[k] : k \in i .. j}

\* remove_nodes(): a run of nodes goes, and a cursor in it moves before it.
LEMMA RemovedNodes ==
  ASSUME NEW L, NEW s, Sound(L, s), NEW i \in 1 .. Len(s), NEW j \in 1 .. Len(s), i <= j,
         NEW gone, gone = Run(s, i, j)
  PROVE  LET M == Unlinked(L, s[i], s[j], gone)
             t == SubSeq(s, 1, i - 1) \o SubSeq(s, j + 1, Len(s))
         IN /\ Sound(M, t)
            /\ M.cursor = (IF L.cursor \in gone THEN NodeAt(s, i - 1) ELSE L.cursor)
            /\ M.active = L.active \ gone
<1>0. /\ L \in ListType /\ s \in Orders /\ Holds(L, s) /\ Len(s) \in Nat
      /\ L.active = {s[k] : k \in 1 .. Len(s)}
      /\ \A k, m \in 1 .. Len(s) : s[k] = s[m] => k = m
      /\ \A k \in 1 .. Len(s) : s[k] \in Nodes
  BY SoundParts, OrderType
<1>1. PICK M, t : /\ M = Unlinked(L, s[i], s[j], gone)
                  /\ t = SubSeq(s, 1, i - 1) \o SubSeq(s, j + 1, Len(s))
  OBVIOUS
<1>2. /\ M \in ListType /\ t \in Orders /\ Holds(M, t)
      /\ M.cursor = (IF L.cursor \in gone THEN NodeAt(s, i - 1) ELSE L.cursor)
      /\ M.next_section = L.next_section
      /\ M.dirty <=> L.dirty \/ gone \cap Sections # {}
      /\ M.active = L.active \ gone
  <2>1. RunRemoved(L, {s[k] : k \in i .. j}, NodeAt(s, i - 1),
                   Unlinked(L, s[i], s[j], {s[k] : k \in i .. j}), t)
    BY <1>0, <1>1, UnlinkedHolds
  <2>2. RunRemoved(L, gone, NodeAt(s, i - 1), M, t)
    BY <2>1, <1>1 DEF Run
  <2> QED
    BY <2>2 DEF RunRemoved
<1>3. /\ Len(t) = Len(s) - (j - i + 1) /\ Len(t) \in Nat
      /\ \A k \in 1 .. Len(t) : t[k] = IF k < i THEN s[k] ELSE s[k + (j - i + 1)]
  <2>0. s \in Orders
    BY <1>0
  <2>1. LET b == SubSeq(s, 1, i - 1) \o SubSeq(s, j + 1, Len(s))
        IN /\ Len(b) = Len(s) - (j - i + 1)
           /\ \A k \in 1 .. Len(b) : b[k] = IF k < i THEN s[k] ELSE s[k + (j - i + 1)]
    BY <2>0, RemovedIs
  <2>2. Len(t) \in Nat
    BY <1>2, OrderType
  <2> QED
    BY <2>1, <2>2, <1>1
<1>4. LinksKnown(M, t)
  <2> SUFFICES ASSUME ~M.dirty, NEW k \in 1 .. Len(t), t[k] \in Sections
               PROVE  M.next_section[t[k]] = SectionBehind(t, k)
    BY DEF LinksKnown
  <2>0. ~L.dirty /\ gone \cap Sections = {}
    BY <1>2
  <2>1. PICK h : h = [q \in 1 .. Len(t) |-> IF q < i THEN q ELSE q + (j - i + 1)]
    OBVIOUS
  <2>2. ASSUME NEW q \in 1 .. Len(t) PROVE h[q] \in 1 .. Len(s) /\ s[h[q]] = t[q]
    <3>1. h[q] = IF q < i THEN q ELSE q + (j - i + 1)
      BY <2>1
    <3>2. h[q] \in 1 .. Len(s)
      <4>1. CASE q < i
        BY <3>1, <4>1, <1>0
      <4>2. CASE ~(q < i)
        BY <3>1, <4>2, <1>0, <1>3
      <4> QED
        BY <4>1, <4>2
    <3> QED
      BY <3>1, <3>2, <1>3
  <2>3. ASSUME NEW q \in 1 .. Len(t), NEW r \in 1 .. Len(t), q < r PROVE h[q] < h[r]
    BY <2>1, <2>3, <1>0, <1>3
  <2>4. ASSUME NEW m \in 1 .. Len(s), s[m] \in Sections PROVE \E q \in 1 .. Len(t) : m = h[q]
    <3>1. m \notin i .. j
      BY <2>0, <2>4, <1>1 DEF Run
    <3>2. CASE m < i
      <4>1. m \in 1 .. Len(t)
        BY <3>2, <1>0, <1>3
      <4> QED
        BY <4>1, <3>2, <2>1
    <3>3. CASE m > j
      <4>1. PICK q \in 1 .. Len(t) : m = q + (j - i + 1) /\ ~(q < i)
        <5>1. /\ m - (j - i + 1) \in 1 .. Len(t) /\ m = (m - (j - i + 1)) + (j - i + 1)
              /\ ~(m - (j - i + 1) < i)
          BY <3>3, <1>0, <1>3
        <5> QED
          BY <5>1
      <4> QED
        BY <4>1, <2>1
    <3> QED
      BY <3>1, <3>2, <3>3, <1>0
  <2>5. Embeds(h, t, s)
    BY <2>2, <2>3, <2>4 DEF Embeds
  <2>6. SectionBehind(s, h[k]) = SectionBehind(t, k)
    BY <2>5, <1>0, <1>2, SameSectionBehind
  <2>7. L.next_section[s[h[k]]] = SectionBehind(s, h[k])
    BY <2>0, <2>2 DEF Sound, LinksKnown
  <2> QED
    BY <2>2, <2>6, <2>7, <1>2
<1>5. M.cursor \in M.active \cup {None}
  <2>1. CASE L.cursor \notin gone
    BY <2>1, <1>2, SoundParts
  <2>2. CASE L.cursor \in gone
    <3>1. M.cursor = NodeAt(s, i - 1)
      BY <2>2, <1>2
    <3>2. CASE i = 1
      <4>1. i - 1 \notin 1 .. Len(s)
        BY <3>2
      <4> QED
        BY <3>1, <4>1 DEF NodeAt
    <3>3. CASE i # 1
      <4>1. i - 1 \in 1 .. Len(s) /\ i - 1 \notin i .. j
        BY <3>3, <1>0
      <4>2. s[i - 1] \notin gone
        BY <4>1, <1>0, <1>1 DEF Run
      <4> QED
        BY <3>1, <4>1, <4>2, <1>0, <1>2 DEF NodeAt
    <3> QED
      BY <3>2, <3>3
  <2> QED
    BY <2>1, <2>2
<1>6. Sound(M, t)
  BY <1>2, <1>4, <1>5 DEF Sound
<1> QED
  BY <1>1, <1>2, <1>6

\* update_section_links() finds the links, and changes nothing else.
LEMMA LinksUpdated ==
  ASSUME NEW L, NEW s, Sound(L, s)
  PROVE  LET U == UpdateSectionLinks(L)
         IN /\ Sound(U, s) /\ ~U.dirty
            /\ U.active = L.active /\ U.first = L.first /\ U.last = L.last
            /\ U.next = L.next /\ U.prev = L.prev
<1>1. CASE ~L.dirty
  BY <1>1 DEF UpdateSectionLinks
<1>2. CASE L.dirty
  <2>0. /\ L \in ListType /\ s \in Orders /\ DOMAIN s = 1 .. Len(s) /\ Len(s) \in Nat
        /\ \A i, j \in 1 .. Len(s) : s[i] = s[j] => i = j
    BY SoundParts, OrderType
  <2>1. PICK links : links = [x \in Sections |->
                                IF x \in Range(s)
                                THEN SectionBehind(s, CHOOSE i \in DOMAIN s : s[i] = x)
                                ELSE L.next_section[x]]
    OBVIOUS
  <2>2. PICK U : U = [L EXCEPT !.dirty = FALSE, !.next_section = links]
    OBVIOUS
  <2>3. UpdateSectionLinks(L) = U
    <3>1. UpdateSectionLinks(L) =
            [L EXCEPT !.dirty = FALSE,
               !.next_section = [x \in Sections |->
                  IF x \in Range(Walk(L))
                  THEN SectionBehind(Walk(L), CHOOSE i \in DOMAIN Walk(L) : Walk(L)[i] = x)
                  ELSE L.next_section[x]]]
      BY <1>2 DEF UpdateSectionLinks
    <3>2. Walk(L) = s
      BY SoundWalk
    <3> QED
      BY <2>1, <2>2, <3>1, <3>2
  <2>4. ASSUME NEW i \in 1 .. Len(s), s[i] \in Sections PROVE links[s[i]] = SectionBehind(s, i)
    <3>1. s[i] \in Range(s) /\ (CHOOSE k \in DOMAIN s : s[k] = s[i]) = i
      BY <2>0 DEF Range
    <3> QED
      BY <2>1, <2>4, <3>1
  <2>5. links \in [Sections -> NodeOrNone]
    <3>1. ASSUME NEW x \in Sections PROVE links[x] \in NodeOrNone
      <4>1. CASE x \in Range(s)
        <5>1. PICK i \in 1 .. Len(s) : s[i] = x
          BY <4>1, <2>0 DEF Range
        <5>2. i \in 0 .. Len(s)
          BY <2>0
        <5> QED
          BY <5>1, <5>2, <2>0, <2>4, SectionBehindIs
      <4>2. CASE x \notin Range(s)
        BY <4>2, <2>0, <2>1 DEF ListType
      <4> QED
        BY <4>1, <4>2
    <3> QED
      BY <3>1, <2>1
  <2>6. U \in ListType
    BY <2>0, <2>2, <2>5 DEF ListType
  <2>7. /\ ~U.dirty /\ U.next_section = links /\ U.cursor = L.cursor
        /\ U.active = L.active /\ U.first = L.first /\ U.last = L.last
        /\ U.next = L.next /\ U.prev = L.prev
    BY <2>0, <2>2 DEF ListType
  <2>8. Holds(U, s) /\ LinksKnown(U, s)
    BY <2>4, <2>7 DEF Sound, Holds, LinksKnown
  <2>9. Sound(U, s)
    BY <2>0, <2>6, <2>7, <2>8 DEF Sound
  <2> QED
    BY <2>3, <2>7, <2>9
<1> QED
  BY <1>1, <1>2

LEMMA RangeOfOrder ==
  ASSUME NEW s \in Orders
  PROVE  /\ Sequence!Range(s) = {s[i] : i \in 1 .. Len(s)}
         /\ Sequence!New(s) = Nodes \ {s[i] : i \in 1 .. Len(s)}
<1>1. DOMAIN s = 1 .. Len(s)
  BY OrderType
<1> QED
  BY <1>1 DEF Sequence!Range, Sequence!New

LEMMA InsertedLast ==
  ASSUME NEW s \in Orders, NEW x \in Nodes
  PROVE  Sequence!Insert(s, Len(s), <<x>>) = Append(s, x)
<1>1. s \in Seq(Nodes) /\ Len(s) \in Nat
  BY OrderType
<1>2. SubSeq(s, 1, Len(s)) = s /\ SubSeq(s, Len(s) + 1, Len(s)) = <<>>
  BY <1>1, SubSeqFull, SubSeqEmpty
<1>3. Append(s, x) \in Seq(Nodes) /\ s \o <<x>> = Append(s, x)
  BY <1>1
<1>4. Append(s, x) \o <<>> = Append(s, x)
  BY <1>3, ConcatEmptySeq
<1> QED
  BY <1>2, <1>3, <1>4 DEF Sequence!Insert

\* section(): the cursor goes to the end of the section, wherever that is.
LEMMA SwitchedSection ==
  ASSUME NEW L, NEW s, Sound(L, s), L.last # None, NEW x \in Sections
  PROVE  LET M == SwitchSection(L, x)
         IN \E t : /\ Sound(M, t) /\ M.active = L.active \cup {x}
                   /\ Sequence!Switch(s, x, t, M.cursor)
<1>0. /\ s \in Orders /\ Len(s) \in Nat /\ L.active = {s[i] : i \in 1 .. Len(s)}
      /\ Len(s) \in 1 .. Len(s) /\ L.last = s[Len(s)] /\ x \in Nodes
      /\ Sequence!Range(s) = L.active
  <2>1. L.last = NodeAt(s, Len(s))
    BY SoundParts
  <2>2. Len(s) \in 1 .. Len(s)
    BY <2>1 DEF NodeAt
  <2> QED
    BY <2>1, <2>2, SoundParts, RangeOfOrder DEF NodeAt, Nodes
<1>1. PICK M : M = SwitchSection(L, x)
  OBVIOUS
<1>2. CASE x \notin L.active
  <2>1. L.last \in L.active /\ Sequence!At(s, L.last) = Len(s)
    BY <1>0, AtIs
  <2>2. PICK A : A = AddAfter(L, x, L.last)
    OBVIOUS
  <2>3. Sound(A, Append(s, x)) /\ A.active = L.active \cup {x}
    <3>1. Sound(A, Sequence!Insert(s, Sequence!At(s, L.last), <<x>>)) /\ A.active = L.active \cup {x}
      BY <1>0, <1>2, <2>1, <2>2, AddedAfter
    <3>2. Sequence!Insert(s, Len(s), <<x>>) = Append(s, x)
      BY <1>0, InsertedLast
    <3> QED
      BY <3>1, <3>2, <2>1
  <2>4. M = [A EXCEPT !.cursor = x]
    BY <1>1, <1>2, <2>2 DEF SwitchSection
  <2>5. x \in A.active \cup {None}
    BY <2>3
  <2>6. Sound(M, Append(s, x)) /\ M.cursor = x /\ M.active = A.active
    BY <2>3, <2>4, <2>5, CursorMoved
  <2>7. Sequence!Switch(s, x, Append(s, x), M.cursor)
    BY <1>0, <1>2, <2>6 DEF Sequence!Switch
  <2> QED
    BY <1>1, <2>3, <2>6, <2>7
<1>3. CASE x \in L.active
  <2>1. PICK U : U = UpdateSectionLinks(L)
    OBVIOUS
  <2>2. /\ Sound(U, s) /\ ~U.dirty /\ U.active = L.active /\ U.last = L.last
        /\ U.prev = L.prev
    BY <2>1, LinksUpdated
  <2>3. PICK i \in 1 .. Len(s) : x = s[i] /\ Sequence!At(s, x) = i /\ i \in 0 .. Len(s)
    BY <1>0, <1>3, AtIs
  <2>4. U.next_section[x] = SectionBehind(s, i)
    BY <2>2, <2>3 DEF Sound, LinksKnown
  <2>5. PICK c : c = IF SectionBehind(s, i) # None THEN U.prev[SectionBehind(s, i)] ELSE U.last
    OBVIOUS
  <2>6. M = [U EXCEPT !.cursor = c]
    BY <1>1, <1>3, <2>1, <2>4, <2>5 DEF SwitchSection
  <2>7. c \in L.active /\ c = s[Sequence!EndOfSection(s, i)]
    <3>1. CASE LastSection(s, i)
      <4>1. SectionBehind(s, i) = None /\ Sequence!EndOfSection(s, i) = Len(s)
        BY <3>1, <1>0, <2>3, SectionBehindIs, EndOfSectionIs
      <4> QED
        BY <4>1, <2>2, <2>5, <1>0
    <3>2. CASE \E k \in i + 1 .. Len(s) : NextSectionAt(s, i, k)
      <4>1. PICK k \in i + 1 .. Len(s) : NextSectionAt(s, i, k)
        BY <3>2
      <4>2. SectionBehind(s, i) = s[k] /\ Sequence!EndOfSection(s, i) = k - 1
        BY <4>1, <1>0, <2>3, SectionBehindIs, EndOfSectionIs
      <4>3. k \in 1 .. Len(s) /\ k - 1 \in 1 .. Len(s)
        BY <1>0, <2>3
      <4>4. s[k] # None /\ L.prev[s[k]] = s[k - 1]
        BY <4>3, <1>0, OrderType DEF Sound, Holds, NodeAt
      <4> QED
        BY <4>2, <4>3, <4>4, <2>2, <2>5, <1>0
    <3> QED
      BY <3>1, <3>2, <1>0, <2>3, NextSectionExists
  <2>8. c \in U.active \cup {None}
    BY <2>2, <2>7
  <2>9. Sound(M, s) /\ M.cursor = c /\ M.active = U.active
    BY <2>2, <2>6, <2>8, CursorMoved
  <2>10. Sequence!Switch(s, x, s, M.cursor)
    BY <1>0, <1>3, <2>3, <2>7, <2>9 DEF Sequence!Switch
  <2>11. M.active = L.active \cup {x}
    BY <2>2, <2>9, <1>3
  <2> QED
    BY <1>1, <2>9, <2>10, <2>11
<1> QED
  BY <1>2, <1>3

\* What is put together comes apart again.
LEMMA SplitConcat ==
  ASSUME NEW u \in Seq(Nodes), NEW b \in Seq(Nodes)
  PROVE  SubSeq(u \o b, 1, Len(u)) = u /\ SubSeq(u \o b, Len(u) + 1, Len(u \o b)) = b
<1>1. PICK w : w = u \o b
  OBVIOUS
<1>2. /\ w \in Seq(Nodes) /\ Len(w) = Len(u) + Len(b) /\ Len(u) \in Nat /\ Len(b) \in Nat
      /\ \A k \in 1 .. Len(u) + Len(b) : w[k] = IF k <= Len(u) THEN u[k] ELSE b[k - Len(u)]
  BY <1>1, ConcatProperties
<1>3. SubSeq(w, 1, Len(u)) = u
  <2>1. PICK v : v = SubSeq(w, 1, Len(u))
    OBVIOUS
  <2>2. v \in Seq(Nodes) /\ Len(v) = Len(u) /\ \A k \in 1 .. Len(u) : v[k] = w[k]
    BY <2>1, <1>2
  <2>3. \A k \in 1 .. Len(u) : v[k] = u[k]
    BY <2>2, <1>2
  <2> QED
    BY <2>1, <2>2, <2>3, SeqEqual
<1>4. SubSeq(w, Len(u) + 1, Len(w)) = b
  <2>1. PICK v : v = SubSeq(w, Len(u) + 1, Len(w))
    OBVIOUS
  <2>2. v \in Seq(Nodes) /\ Len(v) = Len(b) /\ \A k \in 1 .. Len(b) : v[k] = w[Len(u) + k]
    BY <2>1, <1>2
  <2>3. ASSUME NEW k \in 1 .. Len(b) PROVE v[k] = b[k]
    <3>1. PICK m \in 1 .. Len(u) + Len(b) : m = Len(u) + k /\ ~(m <= Len(u)) /\ m - Len(u) = k
      <4>1. /\ Len(u) + k \in 1 .. Len(u) + Len(b) /\ ~(Len(u) + k <= Len(u))
            /\ (Len(u) + k) - Len(u) = k
        BY <1>2
      <4> QED
        BY <4>1
    <3> QED
      BY <3>1, <2>2, <1>2
  <2> QED
    BY <2>1, <2>2, <2>3, SeqEqual
<1> QED
  BY <1>1, <1>3, <1>4

\* Nodes inserted, then one more behind them
LEMMA InsertedBehind ==
  ASSUME NEW s \in Orders, NEW i \in 0 .. Len(s), NEW ns \in Seq(Nodes), NEW n \in Nodes
  PROVE  Sequence!Insert(Sequence!Insert(s, i, ns), i + Len(ns), <<n>>) =
           Sequence!Insert(s, i, Append(ns, n))
<1>1. PICK a, b, u : a = SubSeq(s, 1, i) /\ b = SubSeq(s, i + 1, Len(s)) /\ u = a \o ns
  OBVIOUS
<1>2. s \in Seq(Nodes) /\ Len(s) \in Nat /\ \A k \in 1 .. Len(s) : s[k] \in Nodes
  BY OrderType
<1>3. a \in Seq(Nodes) /\ Len(a) = i /\ b \in Seq(Nodes)
  BY <1>1, <1>2
<1>4. u \in Seq(Nodes) /\ Len(u) = i + Len(ns)
  BY <1>1, <1>3, ConcatProperties
<1>5. Sequence!Insert(s, i, ns) = u \o b
  BY <1>1 DEF Sequence!Insert
<1>6. SubSeq(u \o b, 1, Len(u)) = u /\ SubSeq(u \o b, Len(u) + 1, Len(u \o b)) = b
  BY <1>3, <1>4, SplitConcat
<1>7. Sequence!Insert(u \o b, Len(u), <<n>>) = (u \o <<n>>) \o b
  BY <1>6 DEF Sequence!Insert
<1>8. u \o <<n>> = a \o Append(ns, n)
  <2>1. <<n>> \in Seq(Nodes) /\ ns \o <<n>> = Append(ns, n)
    OBVIOUS
  <2>2. (a \o ns) \o <<n>> = a \o (ns \o <<n>>)
    BY <2>1, <1>3, ConcatAssociative
  <2> QED
    BY <2>1, <2>2, <1>1
<1>9. Sequence!Insert(s, i, Append(ns, n)) = (a \o Append(ns, n)) \o b
  BY <1>1 DEF Sequence!Insert
<1> QED
  BY <1>4, <1>5, <1>7, <1>8, <1>9

LEMMA InsertedAt ==
  ASSUME NEW s \in Orders, NEW i \in 0 .. Len(s), NEW n \in Nodes, n \notin {s[k] : k \in 1 .. Len(s)}
  PROVE  LET t == Sequence!Insert(s, i, <<n>>)
         IN t \in Orders /\ i + 1 \in 1 .. Len(t) /\ t[i + 1] = n /\ Sequence!At(t, n) = i + 1
<1>1. PICK t : t = Sequence!Insert(s, i, <<n>>)
  OBVIOUS
<1>2. /\ t \in Orders /\ Len(t) = Len(s) + 1
      /\ \A k \in 1 .. Len(s) + 1 : t[k] = IF k <= i THEN s[k] ELSE IF k = i + 1 THEN n ELSE s[k - 1]
  BY <1>1, InsertedIs
<1>3. Len(s) \in Nat
  BY OrderType
<1>4. i + 1 \in 1 .. Len(t) /\ t[i + 1] = n
  BY <1>2, <1>3
<1> QED
  BY <1>1, <1>2, <1>4, AtIs

-------------------------------------------------------------------------------
(* The invariant *)

\* Nodes of a function are in the list only if the function was added; while it
\* is built its end is there and the pool of its constants is not.
OwnersInv ==
  /\ used \subseteq FuncNodes
  /\ \A f \in FuncNodes : f \notin used => NodesOf(f) \cap list.active = {}
  /\ func \in used \cup {None}
  /\ func # None => EndOf[func] \in list.active /\ PoolOf[func] \notin list.active
  /\ "global" \in pools => GlobalPool \notin list.active

IInv == (\E s : Sound(list, s)) /\ OwnersInv

LEMMA FourAreDistinct ==
  ASSUME NEW a, NEW b, NEW c, NEW d, Cardinality({a, b, c, d}) = 4
  PROVE  a # b /\ a # c /\ a # d /\ b # c /\ b # d /\ c # d
<1>1. ASSUME NEW x, NEW y, NEW z PROVE Cardinality({x, y, z}) # 4
  <2>1. IsFiniteSet({x}) /\ Cardinality({x}) = 1
    BY FS_Singleton
  <2>2. IsFiniteSet({x, y}) /\ Cardinality({x, y}) \in 1 .. 2
    <3>1. {x, y} = {x} \cup {y}
      OBVIOUS
    <3> QED
      BY <2>1, <3>1, FS_AddElement
  <2>3. {x, y, z} = {x, y} \cup {z}
    OBVIOUS
  <2> QED
    BY <2>2, <2>3, FS_AddElement
<1>2. ASSUME NEW x, NEW y, NEW z PROVE {a, b, c, d} # {x, y, z}
  <2>1. Cardinality({x, y, z}) # 4
    BY <1>1, Zenon
  <2> QED
    BY <2>1
<1>3. a # b
  BY <1>2
<1>4. a # c
  BY <1>2
<1>5. a # d
  BY <1>2
<1>6. b # c
  BY <1>2
<1>7. b # d
  BY <1>2
<1>8. c # d
  BY <1>2
<1> QED
  BY <1>3, <1>4, <1>5, <1>6, <1>7, <1>8

LEMMA NodesOfFunc ==
  ASSUME NEW f \in FuncNodes
  PROVE  /\ f \in Nodes /\ ExitOf[f] \in Nodes /\ EndOf[f] \in Nodes /\ PoolOf[f] \in Nodes
         /\ f # ExitOf[f] /\ f # EndOf[f] /\ f # PoolOf[f]
         /\ ExitOf[f] # EndOf[f] /\ ExitOf[f] # PoolOf[f] /\ EndOf[f] # PoolOf[f]
         /\ NodesOf(f) \subseteq Inner
         /\ f # None
<1>1. NodesOf(f) \subseteq Inner
  BY DEF Inner
<1>2. NodesOf(f) \subseteq Nodes
  BY <1>1 DEF Nodes
<1>3. Cardinality({f, ExitOf[f], EndOf[f], PoolOf[f]}) = 4
  BY NodesAreDistinct DEF NodesOf
<1> QED
  BY <1>1, <1>2, <1>3, FourAreDistinct, BuilderListAssumption DEF NodesOf

LEMMA OtherNodes ==
  /\ \A n \in Sections \cup Labels \cup Plain : n \in Nodes /\ n \notin Inner /\ n # GlobalPool
  /\ GlobalPool \in Nodes /\ GlobalPool \notin Inner
  BY NodesAreDistinct DEF Nodes

\* A step from s to t, or one that changes neither the list nor the cursor
Steps(s, t) ==
  /\ Sound(list', t)
  /\ Sequence!Step(s, list.cursor, t, list'.cursor) \/ (t = s /\ list'.cursor = list.cursor)

LEMMA OwnersGrow ==
  ASSUME OwnersInv, UNCHANGED <<func, used, pools>>,
         NEW n \in Sections \cup Labels \cup Plain, list'.active = list.active \cup {n}
  PROVE  OwnersInv'
<1>1. n \notin Inner /\ n # GlobalPool
  BY OtherNodes
<1>2. \A f \in FuncNodes : n \notin NodesOf(f) /\ n # PoolOf[f]
  BY <1>1, NodesOfFunc DEF NodesOf
<1> QED
  BY <1>1, <1>2 DEF OwnersInv

LEMMA OwnersShrink ==
  ASSUME OwnersInv, UNCHANGED <<func, used, pools>>, list'.active \subseteq list.active,
         func # None => EndOf[func] \in list'.active
  PROVE  OwnersInv'
  BY DEF OwnersInv

LEMMA AddSteps ==
  ASSUME ~Rebinding, NEW s, Sound(list, s), OwnersInv, NEW n \in Plain \cup Labels, Add(n)
  PROVE  OwnersInv' /\ \E t : Steps(s, t)
<1>1. n \in Nodes /\ n \in Sections \cup Labels \cup Plain /\ n \notin list.active /\ list' = AddNode(list, n)
  BY OtherNodes DEF Add
<1>2. PICK t : t = Sequence!Insert(s, Sequence!At(s, list.cursor), <<n>>)
  OBVIOUS
<1>3. Sound(list', t) /\ list'.cursor = n /\ list'.active = list.active \cup {n}
  BY <1>1, <1>2, AddedNode
<1>4. n \in Sequence!New(s)
  BY <1>1, SoundParts, RangeOfOrder
<1>5. Sequence!Add(s, list.cursor, t, list'.cursor)
  BY <1>2, <1>3, <1>4 DEF Sequence!Add
<1>6. OwnersInv'
  BY <1>1, <1>3, OwnersGrow DEF Add
<1> QED
  BY <1>3, <1>5, <1>6 DEF Steps, Sequence!Step

LEMMA InsertIsPlace ==
  ASSUME NEW s \in Orders, NEW i \in 0 .. Len(s), NEW n \in Nodes,
         n \notin {s[k] : k \in 1 .. Len(s)}, NEW c
  PROVE  Sequence!Place(s, c, Sequence!Insert(s, i, <<n>>), c)
<1>1. PICK t : t = Sequence!Insert(s, i, <<n>>)
  OBVIOUS
<1>2. t \in Orders /\ i + 1 \in 1 .. Len(t) /\ t[i + 1] = n
  BY <1>1, InsertedAt
<1>3. n \in Sequence!New(s) /\ DOMAIN t = 1 .. Len(t)
  BY <1>2, RangeOfOrder, OrderType
<1>4. PICK k \in DOMAIN t : k = i + 1 /\ k - 1 = i
  <2>1. i \in Int
    OBVIOUS
  <2> QED
    BY <2>1, <1>2, <1>3
<1>5. t[k] \in Sequence!New(s) /\ t = Sequence!Insert(s, k - 1, <<t[k]>>)
  BY <1>1, <1>2, <1>3, <1>4
<1> QED
  BY <1>1, <1>4, <1>5 DEF Sequence!Place

LEMMA AfterSteps ==
  ASSUME NEW s, Sound(list, s), NEW n \in Nodes, n \notin list.active, NEW ref \in list.active,
         list' = AddAfter(list, n, ref) \/ list' = AddBefore(list, n, ref)
  PROVE  (\E t : Steps(s, t)) /\ list'.active = list.active \cup {n}
<1>0. s \in Orders /\ Len(s) \in Nat /\ list.active = {s[k] : k \in 1 .. Len(s)}
  BY SoundParts
<1>1. PICK p : p = Sequence!At(s, ref)
  OBVIOUS
<1>2. p \in 1 .. Len(s) /\ p \in 0 .. Len(s) /\ p - 1 \in 0 .. Len(s)
  <2>1. p \in 1 .. Len(s)
    BY <1>1, PositionOf
  <2> QED
    BY <2>1, <1>0
<1>3. ASSUME NEW i \in 0 .. Len(s), Sound(list', Sequence!Insert(s, i, <<n>>)), list'.cursor = list.cursor
      PROVE  \E t : Steps(s, t)
  <2>1. Sequence!Place(s, list.cursor, Sequence!Insert(s, i, <<n>>), list.cursor)
    BY <1>0, InsertIsPlace
  <2> QED
    BY <2>1, <1>3 DEF Steps, Sequence!Step
<1>4. CASE list' = AddAfter(list, n, ref)
  <2>1. /\ Sound(list', Sequence!Insert(s, p, <<n>>))
        /\ list'.cursor = list.cursor /\ list'.active = list.active \cup {n}
    BY <1>1, <1>4, AddedAfter
  <2> QED
    BY <2>1, <1>2, <1>3
<1>5. CASE list' = AddBefore(list, n, ref)
  <2>1. /\ Sound(list', Sequence!Insert(s, p - 1, <<n>>))
        /\ list'.cursor = list.cursor /\ list'.active = list.active \cup {n}
    BY <1>1, <1>5, AddedBefore
  <2> QED
    BY <2>1, <1>2, <1>3
<1> QED
  BY <1>4, <1>5

LEMMA PlaceSteps ==
  ASSUME NEW s, Sound(list, s), OwnersInv, NEW n \in Sections \cup Labels \cup Plain,
         NEW ref \in list.active, Place(n, ref)
  PROVE  OwnersInv' /\ \E t : Steps(s, t)
<1>1. /\ n \in Nodes /\ n \notin list.active
      /\ list' = AddAfter(list, n, ref) \/ list' = AddBefore(list, n, ref)
  BY OtherNodes DEF Place
<1>2. (\E t : Steps(s, t)) /\ list'.active = list.active \cup {n}
  BY <1>1, AfterSteps
<1> QED
  BY <1>2, OwnersGrow DEF Place

LEMMA FlushSteps ==
  ASSUME NEW s, Sound(list, s), OwnersInv, FlushGlobalPool
  PROVE  OwnersInv' /\ \E t : Steps(s, t)
<1>1. GlobalPool \in Nodes /\ GlobalPool \notin Inner /\ GlobalPool \notin list.active
  BY OtherNodes DEF OwnersInv, FlushGlobalPool
<1>2. list.last \in list.active
  BY SoundParts DEF FlushGlobalPool, NodeAt
<1>3. (\E t : Steps(s, t)) /\ list'.active = list.active \cup {GlobalPool}
  BY <1>1, <1>2, AfterSteps DEF FlushGlobalPool
<1>4. \A f \in FuncNodes : GlobalPool \notin NodesOf(f) /\ GlobalPool # PoolOf[f]
  BY <1>1, NodesOfFunc DEF NodesOf
<1>5. OwnersInv'
  BY <1>3, <1>4 DEF OwnersInv, FlushGlobalPool
<1> QED
  BY <1>3, <1>5

LEMMA SetCursorSteps ==
  ASSUME NEW s, Sound(list, s), OwnersInv, NEW n, SetCursor(n)
  PROVE  OwnersInv' /\ \E t : Steps(s, t)
<1>1. Sound(list', s) /\ list'.cursor = n /\ list'.active = list.active
  BY CursorMoved DEF SetCursor
<1>2. Sequence!SetCursor(s, s, list'.cursor)
  BY <1>1, SoundParts, RangeOfOrder DEF SetCursor, Sequence!SetCursor
<1>3. OwnersInv'
  BY <1>1 DEF OwnersInv, SetCursor
<1> QED
  BY <1>1, <1>2, <1>3 DEF Steps, Sequence!Step

LEMMA SectionSteps ==
  ASSUME NEW s, Sound(list, s), OwnersInv, NEW x \in Sections, SetSection(x)
  PROVE  OwnersInv' /\ \E t : Steps(s, t)
<1>1. PICK t : /\ Sound(list', t) /\ list'.active = list.active \cup {x}
               /\ Sequence!Switch(s, x, t, list'.cursor)
  BY SwitchedSection DEF SetSection
<1>2. OwnersInv'
  BY <1>1, OwnersGrow DEF SetSection
<1> QED
  BY <1>1, <1>2 DEF Steps, Sequence!Step

\* Remove, of the nodes s
RunGoes(s) ==
  \E i, j \in DOMAIN s :
    LET gone == {s[k] : k \in i .. j}
    IN /\ i <= j
       /\ func # None => gone \cap {func, ExitOf[func], EndOf[func]} = {}
       /\ list' = Unlinked(list, s[i], s[j], gone)
       /\ UNCHANGED <<func, used, pools>>

LEMMA RemoveSteps ==
  ASSUME NEW s, Sound(list, s), OwnersInv, Remove
  PROVE  OwnersInv' /\ \E t : Steps(s, t)
<1>0. /\ s \in Orders /\ Len(s) \in Nat /\ DOMAIN s = 1 .. Len(s) /\ Walk(list) = s
      /\ \A k \in 1 .. Len(s) : s[k] # None /\ s[k] \in Nodes
      /\ \A k, m \in 1 .. Len(s) : s[k] = s[m] => k = m
  BY SoundParts, SoundWalk, OrderType
<1>1. PICK i \in 1 .. Len(s), j \in 1 .. Len(s), gone \in SUBSET Nodes :
        /\ i <= j
        /\ gone = {s[k] : k \in i .. j}
        /\ func # None => gone \cap {func, ExitOf[func], EndOf[func]} = {}
        /\ list' = Unlinked(list, s[i], s[j], gone)
        /\ UNCHANGED <<func, used, pools>>
  <2>1. RunGoes(Walk(list))
    BY DEF Remove, RunGoes
  <2>2. RunGoes(s)
    BY <2>1, <1>0
  <2>3. \A i, j \in 1 .. Len(s) : {s[k] : k \in i .. j} \in SUBSET Nodes
    BY <1>0
  <2> QED
    BY <2>2, <2>3, <1>0 DEF RunGoes
<1>2. PICK t : t = SubSeq(s, 1, i - 1) \o SubSeq(s, j + 1, Len(s))
  OBVIOUS
<1>3. /\ Sound(list', t)
      /\ list'.cursor = (IF list.cursor \in gone THEN NodeAt(s, i - 1) ELSE list.cursor)
      /\ list'.active = list.active \ gone
  <2>1. gone = Run(s, i, j)
    BY <1>1 DEF Run
  <2>2. list' = Unlinked(list, s[i], s[j], gone) /\ i <= j
    BY <1>1
  <2>3. LET M == Unlinked(list, s[i], s[j], gone)
            u == SubSeq(s, 1, i - 1) \o SubSeq(s, j + 1, Len(s))
        IN /\ Sound(M, u)
           /\ M.cursor = (IF list.cursor \in gone THEN NodeAt(s, i - 1) ELSE list.cursor)
           /\ M.active = list.active \ gone
    BY <2>1, <2>2, RemovedNodes
  <2> QED
    BY <2>2, <2>3, <1>2
<1>4. list'.cursor = IF Sequence!At(s, list.cursor) \notin i .. j THEN list.cursor
                     ELSE IF i = 1 THEN None ELSE s[i - 1]
  <2>1. list.cursor \in gone <=> Sequence!At(s, list.cursor) \in i .. j
    <3>1. CASE list.cursor = None
      <4>1. Sequence!At(s, list.cursor) = 0
        BY <3>1, <1>0, AtIs
      <4>2. None \notin gone /\ 0 \notin i .. j
        BY <1>0, <1>1
      <4> QED
        BY <3>1, <4>1, <4>2
    <3>2. CASE list.cursor # None
      <4>1. PICK k \in 1 .. Len(s) : list.cursor = s[k] /\ Sequence!At(s, list.cursor) = k
        BY <3>2, <1>0, SoundParts, AtIs
      <4>2. s[k] \in gone <=> k \in i .. j
        BY <1>0, <1>1
      <4> QED
        BY <4>1, <4>2
    <3> QED
      BY <3>1, <3>2
  <2>2. NodeAt(s, i - 1) = IF i = 1 THEN None ELSE s[i - 1]
    <3>1. i - 1 \in 1 .. Len(s) <=> i # 1
      BY <1>0
    <3> QED
      BY <3>1 DEF NodeAt
  <2> QED
    BY <2>1, <2>2, <1>3
<1>5. Sequence!Remove(s, list.cursor, t, list'.cursor)
  <2>1. i \in DOMAIN s /\ j \in DOMAIN s
    BY <1>0
  <2> QED
    BY <2>1, <1>1, <1>2, <1>4 DEF Sequence!Remove
<1>6. func # None => EndOf[func] \in list'.active
  BY <1>1, <1>3 DEF OwnersInv
<1>7. OwnersInv'
  BY <1>1, <1>3, <1>6, OwnersShrink
<1> QED
  BY <1>3, <1>5, <1>7 DEF Steps, Sequence!Step

LEMMA StartedOver ==
  ASSUME NEW dirty \in BOOLEAN
  PROVE  Sound(StartOver(dirty), <<Text>>)
<1>1. PICK L, s : L = StartOver(dirty) /\ s = <<Text>>
  OBVIOUS
<1>2. Text \in Sections /\ Text \in Nodes /\ Text # None
  BY BuilderListAssumption DEF Nodes
<1>3. /\ L \in ListType
      /\ L.first = Text /\ L.last = Text /\ L.cursor = Text /\ L.active = {Text}
      /\ \A n \in Nodes : L.next[n] = None /\ L.prev[n] = None
      /\ \A x \in Sections : L.next_section[x] = None
  BY <1>1, <1>2 DEF StartOver, ListType, NodeOrNone
<1>4. s \in Orders /\ Len(s) = 1 /\ s[1] = Text
  BY <1>1, <1>2 DEF Orders
<1>5. \A k : NodeAt(s, k) = IF k = 1 THEN Text ELSE None
  <2>1. \A k : k \in 1 .. 1 <=> k = 1
    OBVIOUS
  <2> QED
    BY <2>1, <1>4 DEF NodeAt
<1>6. Holds(L, s)
  <2>1. L.active = {s[i] : i \in 1 .. Len(s)}
    BY <1>3, <1>4
  <2>2. ASSUME NEW i \in 1 .. Len(s)
        PROVE  L.next[s[i]] = NodeAt(s, i + 1) /\ L.prev[s[i]] = NodeAt(s, i - 1)
    BY <1>2, <1>3, <1>4, <1>5
  <2> QED
    BY <2>1, <2>2, <1>3, <1>4, <1>5 DEF Holds
<1>7. LinksKnown(L, s)
  <2> SUFFICES ASSUME NEW i \in 1 .. Len(s) PROVE L.next_section[s[i]] = SectionBehind(s, i)
    BY DEF LinksKnown
  <2>1. i = 1 /\ i \in 0 .. Len(s) /\ LastSection(s, i)
    BY <1>4 DEF LastSection
  <2> QED
    BY <2>1, <1>2, <1>3, <1>4, SectionBehindIs
<1> QED
  BY <1>1, <1>3, <1>4, <1>6, <1>7 DEF Sound

LEMMA ReinitSteps ==
  ASSUME NEW s, Sound(list, s), OwnersInv, Reinit
  PROVE  OwnersInv' /\ \E t : Steps(s, t)
<1>1. list.dirty \in BOOLEAN
  BY SoundParts DEF ListType
<1>2. Sound(list', <<Text>>)
  BY <1>1, StartedOver DEF Reinit
<1>3. list'.cursor = Text /\ list'.active = {Text}
  BY DEF Reinit, StartOver
<1>4. \A f \in FuncNodes : Text \notin NodesOf(f)
  BY OtherNodes, NodesOfFunc, BuilderListAssumption
<1>5. OwnersInv'
  BY <1>3, <1>4 DEF OwnersInv, Reinit
<1> QED
  BY <1>2, <1>3, <1>5 DEF Steps, Sequence!Step, Sequence!Clear

LEMMA AppendTwo ==
  ASSUME NEW a \in Nodes, NEW b \in Nodes
  PROVE  Append(<<a>>, b) = <<a, b>>
<1>1. PICK u, v : u = Append(<<a>>, b) /\ v = <<a, b>>
  OBVIOUS
<1>2. u \in Seq(Nodes) /\ Len(u) = 2 /\ u[1] = a /\ u[2] = b
  BY <1>1
<1>3. v \in Seq(Nodes) /\ Len(v) = 2 /\ v[1] = a /\ v[2] = b
  BY <1>1
<1>4. \A k \in 1 .. 2 : u[k] = v[k]
  BY <1>2, <1>3
<1> QED
  BY <1>1, <1>2, <1>3, <1>4, SeqEqual

LEMMA AppendThree ==
  ASSUME NEW a \in Nodes, NEW b \in Nodes, NEW c \in Nodes
  PROVE  Append(<<a, b>>, c) = <<a, b, c>>
<1>1. PICK u, v : u = Append(<<a, b>>, c) /\ v = <<a, b, c>>
  OBVIOUS
<1>2. u \in Seq(Nodes) /\ Len(u) = 3 /\ u[1] = a /\ u[2] = b /\ u[3] = c
  BY <1>1
<1>3. v \in Seq(Nodes) /\ Len(v) = 3 /\ v[1] = a /\ v[2] = b /\ v[3] = c
  BY <1>1
<1>4. \A k \in 1 .. 3 : u[k] = v[k]
  BY <1>2, <1>3
<1> QED
  BY <1>1, <1>2, <1>3, <1>4, SeqEqual

LEMMA AddFuncSteps ==
  ASSUME NEW s, Sound(list, s), OwnersInv, NEW f \in FuncNodes, AddFunc(f)
  PROVE  OwnersInv' /\ \E t : Steps(s, t)
<1>0. /\ s \in Orders /\ list.active = {s[k] : k \in 1 .. Len(s)}
      /\ f \notin used /\ NodesOf(f) \cap list.active = {}
      /\ Len(s) \in Nat
  BY SoundParts DEF OwnersInv, AddFunc
<1>1. PICK e, d : e = ExitOf[f] /\ d = EndOf[f]
  OBVIOUS
<1>2. /\ f \in Nodes /\ e \in Nodes /\ d \in Nodes /\ f # e /\ f # d /\ e # d
      /\ f \notin list.active /\ e \notin list.active /\ d \notin list.active
      /\ PoolOf[f] \notin list.active /\ PoolOf[f] \notin {f, e, d}
  BY <1>0, <1>1, NodesOfFunc DEF NodesOf
<1>3. PICK i \in 0 .. Len(s) : i = Sequence!At(s, list.cursor)
  BY <1>2, AddedNode
<1>4. PICK A, B, C : A = AddNode(list, f) /\ B = AddNode(A, e) /\ C = AddNode(B, d)
  OBVIOUS
<1>5. PICK sa, sb, sc : /\ sa = Sequence!Insert(s, i, <<f>>)
                        /\ sb = Sequence!Insert(sa, i + 1, <<e>>)
                        /\ sc = Sequence!Insert(sb, i + 2, <<d>>)
  OBVIOUS
<1>6. Sound(A, sa) /\ A.cursor = f /\ A.active = list.active \cup {f}
  BY <1>2, <1>3, <1>4, <1>5, AddedNode
<1>7. sa \in Orders /\ i + 1 \in 0 .. Len(sa) /\ Sequence!At(sa, f) = i + 1
  <2>1. i + 1 \in 1 .. Len(sa) /\ sa \in Orders /\ Sequence!At(sa, f) = i + 1
    BY <1>0, <1>2, <1>5, InsertedAt
  <2> QED
    BY <2>1
<1>8. Sound(B, sb) /\ B.cursor = e /\ B.active = A.active \cup {e}
  <2>1. e \notin A.active
    BY <1>2, <1>6
  <2> QED
    BY <2>1, <1>2, <1>4, <1>5, <1>6, <1>7, AddedNode
<1>9. sb \in Orders /\ i + 2 \in 0 .. Len(sb) /\ Sequence!At(sb, e) = i + 2
  <2>1. e \notin {sa[k] : k \in 1 .. Len(sa)}
    BY <1>2, <1>6, SoundParts
  <2>2. (i + 1) + 1 \in 1 .. Len(sb) /\ sb \in Orders /\ Sequence!At(sb, e) = (i + 1) + 1
    BY <2>1, <1>2, <1>5, <1>7, InsertedAt
  <2> QED
    BY <2>2
<1>10. Sound(C, sc) /\ C.active = B.active \cup {d}
  <2>1. d \notin B.active
    BY <1>2, <1>6, <1>8
  <2> QED
    BY <2>1, <1>2, <1>4, <1>5, <1>8, <1>9, AddedNode
<1>11. sc = Sequence!Insert(s, i, <<f, e, d>>)
  <2>1. <<f>> \in Seq(Nodes) /\ Len(<<f>>) = 1
    BY <1>2
  <2>2. Append(<<f>>, e) = <<f, e>>
    BY <1>2, AppendTwo
  <2>3. <<f, e>> \in Seq(Nodes) /\ Len(<<f, e>>) = 2
    BY <1>2
  <2>4. Append(<<f, e>>, d) = <<f, e, d>>
    BY <1>2, AppendThree
  <2>5. PICK one, two : one = <<f>> /\ two = <<f, e>>
    OBVIOUS
  <2>6. Sequence!Insert(Sequence!Insert(s, i, one), i + Len(one), <<e>>) =
          Sequence!Insert(s, i, Append(one, e))
    BY <2>1, <2>5, <1>0, <1>2, InsertedBehind
  <2>7. sb = Sequence!Insert(s, i, two)
    BY <2>1, <2>2, <2>5, <2>6, <1>5
  <2>8. Sequence!Insert(Sequence!Insert(s, i, two), i + Len(two), <<d>>) =
          Sequence!Insert(s, i, Append(two, d))
    <3>1. two \in Seq(Nodes) /\ i \in 0 .. Len(s) /\ d \in Nodes /\ s \in Orders
      BY <2>3, <2>5, <1>0, <1>2
    <3> QED
      BY <3>1, InsertedBehind
  <2> QED
    BY <2>3, <2>4, <2>5, <2>7, <2>8, <1>5
<1>12. list' = [C EXCEPT !.cursor = f]
  BY <1>1, <1>4, <1>6 DEF AddFunc
<1>13. Sound(list', sc) /\ list'.cursor = f /\ list'.active = list.active \cup {f, e, d}
  <2>1. C.active = list.active \cup {f, e, d}
    BY <1>6, <1>8, <1>10
  <2>2. f \in C.active \cup {None}
    BY <2>1
  <2> QED
    BY <2>1, <2>2, <1>10, <1>12, CursorMoved
<1>14. Sequence!Enter(s, list.cursor, sc, list'.cursor)
  <2>1. PICK three : three = <<f, e, d>>
    OBVIOUS
  <2>2. three \in {<<g, ExitOf[g], EndOf[g]>> : g \in FuncNodes} /\ three[1] = f
    BY <2>1, <1>1
  <2>3. Sequence!Range(three) \subseteq Sequence!New(s)
    <3>1. Sequence!Range(three) = {f, e, d}
      BY <2>1 DEF Sequence!Range
    <3> QED
      BY <3>1, <1>0, <1>2, RangeOfOrder
  <2> QED
    BY <2>1, <2>2, <2>3, <1>3, <1>11, <1>13 DEF Sequence!Enter
<1>15. OwnersInv'
  <2>1. \A g \in FuncNodes : g # f => NodesOf(g) \cap {f, e, d} = {}
    BY <1>1, NodesAreDistinct DEF NodesOf
  <2>2. GlobalPool \notin {f, e, d}
    BY <1>1, OtherNodes, NodesOfFunc DEF NodesOf
  <2>3. \A g \in FuncNodes : g \notin used' => NodesOf(g) \cap list'.active = {}
    BY <2>1, <1>0, <1>13 DEF OwnersInv, AddFunc
  <2>4. EndOf[f] \in list'.active /\ PoolOf[f] \notin list'.active
    BY <1>1, <1>2, <1>13
  <2>5. "global" \in pools' => GlobalPool \notin list'.active
    BY <2>2, <1>13 DEF OwnersInv, AddFunc
  <2> QED
    BY <2>3, <2>4, <2>5 DEF OwnersInv, AddFunc
<1> QED
  BY <1>13, <1>14, <1>15 DEF Steps, Sequence!Step

\* The place of the node before or behind another
LEMMA AtNodeAt ==
  ASSUME NEW s \in Orders, NEW i \in 0 .. Len(s)
  PROVE  Sequence!At(s, NodeAt(s, i)) = i
<1>1. Len(s) \in Nat /\ i \in Int
  BY OrderType
<1>2. CASE i \in 1 .. Len(s)
  BY <1>2, AtIs DEF NodeAt
<1>3. CASE i = 0
  BY <1>1, <1>3, AtIs DEF NodeAt
<1> QED
  BY <1>1, <1>2, <1>3

LEMMA EndFuncSteps ==
  ASSUME NEW s, Sound(list, s), OwnersInv, EndFunc
  PROVE  OwnersInv' /\ \E t : Steps(s, t)
<1>0. /\ func \in FuncNodes /\ func # None /\ func \in used
      /\ EndOf[func] \in list.active /\ PoolOf[func] \notin list.active
      /\ s \in Orders /\ Len(s) \in Nat
      /\ list.active = {s[k] : k \in 1 .. Len(s)} /\ list.active \in SUBSET Nodes
  BY SoundParts DEF OwnersInv, EndFunc
<1>1. PICK end, pool : end = EndOf[func] /\ pool = PoolOf[func]
  OBVIOUS
<1>2. end \in list.active /\ pool \in Nodes /\ pool \notin list.active
  BY <1>0, <1>1, NodesOfFunc
<1>3. <<func, ExitOf[func], end>> \in {<<f, ExitOf[f], EndOf[f]>> : f \in FuncNodes}
  BY <1>0, <1>1
<1>4. ASSUME NEW t, t = s \/ \E q \in Sequence!New(s) : t = Sequence!Insert(s, Sequence!At(s, end) - 1, <<q>>)
      PROVE  Sequence!Leave(s, t, end)
  <2>1. PICK three : three = <<func, ExitOf[func], end>>
    OBVIOUS
  <2>2. three[3] = end
    BY <2>1
  <2> QED
    BY <2>1, <2>2, <1>3, <1>4 DEF Sequence!Leave
<1>5. CASE "local" \notin pools
  <2>1. list' = [list EXCEPT !.cursor = end]
    BY <1>1, <1>5 DEF EndFunc
  <2>2. end \in list.active \cup {None}
    BY <1>2
  <2>3. Sound(list', s) /\ list'.cursor = end /\ list'.active = list.active
    BY <2>1, <2>2, CursorMoved
  <2>4. OwnersInv'
    BY <2>3 DEF OwnersInv, EndFunc
  <2>5. Sequence!Leave(s, s, list'.cursor)
    BY <2>3, <1>4
  <2> QED
    BY <2>3, <2>4, <2>5 DEF Steps, Sequence!Step
<1>6. CASE "local" \in pools
  <2>1. PICK i \in 1 .. Len(s), p \in NodeOrNone :
             i = Sequence!At(s, end) /\ p = NodeAt(s, i - 1)
    <3>1. Sequence!At(s, end) \in 1 .. Len(s)
      BY <1>2, PositionOf
    <3> QED
      BY <3>1, <1>0, NodeAtType
  <2>2. /\ list.prev[end] = p /\ p \in list.active \cup {None}
        /\ i - 1 \in 0 .. Len(s) /\ Sequence!At(s, p) = i - 1
    <3>1. list.prev[end] = p
      BY <1>2, <2>1, PositionOf
    <3>2. p \in list.active \cup {None}
      BY <1>0, <2>1 DEF NodeAt
    <3>3. i - 1 \in 0 .. Len(s)
      BY <1>0
    <3>4. Sequence!At(s, p) = i - 1
      BY <3>3, <1>0, <2>1, AtNodeAt
    <3> QED
      BY <3>1, <3>2, <3>3, <3>4
  <2>3. PICK L, A, t : /\ L = [list EXCEPT !.cursor = p]
                       /\ A = AddNode(L, pool)
                       /\ t = Sequence!Insert(s, i - 1, <<pool>>)
    OBVIOUS
  <2>4. Sound(L, s) /\ L.cursor = p /\ L.active = list.active
    BY <2>2, <2>3, CursorMoved
  <2>5. Sound(A, t) /\ A.active = list.active \cup {pool}
    <3>1. pool \in Nodes /\ pool \notin L.active
      BY <1>2, <2>4
    <3>2. /\ Sound(A, Sequence!Insert(s, Sequence!At(s, L.cursor), <<pool>>))
          /\ A.active = L.active \cup {pool}
      BY <3>1, <2>3, <2>4, AddedNode
    <3>3. Sequence!At(s, L.cursor) = i - 1
      BY <2>2, <2>4
    <3> QED
      BY <3>2, <3>3, <2>3, <2>4
  <2>6. list' = [A EXCEPT !.cursor = end]
    BY <1>1, <1>6, <2>2, <2>3 DEF EndFunc
  <2>7. end \in A.active \cup {None}
    BY <1>2, <2>5
  <2>8. Sound(list', t) /\ list'.cursor = end /\ list'.active = list.active \cup {pool}
    BY <2>5, <2>6, <2>7, CursorMoved
  <2>9. OwnersInv'
    <3>1. pool \in NodesOf(func) /\ pool # GlobalPool
      BY <1>0, <1>1, OtherNodes, NodesOfFunc DEF NodesOf
    <3>2. \A f \in FuncNodes : f # func => pool \notin NodesOf(f)
      BY <3>1, <1>0, NodesAreDistinct
    <3>3. \A f \in FuncNodes : f \notin used => NodesOf(f) \cap list'.active = {}
      BY <3>2, <2>8, <1>0 DEF OwnersInv
    <3> QED
      BY <3>1, <3>3, <2>8 DEF OwnersInv, EndFunc
  <2>10. pool \in Sequence!New(s)
    BY <1>0, <1>2, RangeOfOrder
  <2>11. Sequence!Leave(s, t, list'.cursor)
    BY <2>1, <2>3, <2>8, <2>10, <1>4
  <2> QED
    BY <2>8, <2>9, <2>11 DEF Steps, Sequence!Step
<1> QED
  BY <1>5, <1>6

LEMMA ConstSteps ==
  ASSUME NEW s, Sound(list, s), OwnersInv, NEW scope, NewConst(scope)
  PROVE  OwnersInv' /\ \E t : Steps(s, t)
<1>1. OwnersInv'
  BY DEF OwnersInv, NewConst
<1>2. Steps(s, s)
  BY DEF Steps, NewConst
<1> QED
  BY <1>1, <1>2

\* Every step keeps the list in order, and is a step of the sequence or none.
LEMMA NextSteps ==
  ASSUME ~Rebinding, NEW s, Sound(list, s), OwnersInv, Next
  PROVE  OwnersInv' /\ \E t : Steps(s, t)
<1>1. CASE \E n \in Plain \cup Labels : Add(n) \/ \E ref \in list.active : Place(n, ref)
  BY <1>1, AddSteps, PlaceSteps
<1>2. CASE \E x \in Sections : SetSection(x) \/ \E ref \in list.active : Place(x, ref)
  BY <1>2, SectionSteps, PlaceSteps
<1>3. CASE Remove
  BY <1>3, RemoveSteps
<1>4. CASE \E n \in Nodes \cup {None} : SetCursor(n)
  BY <1>4, SetCursorSteps
<1>5. CASE \E f \in FuncNodes : AddFunc(f)
  BY <1>5, AddFuncSteps
<1>6. CASE NewConst("global") \/ NewConst("local")
  BY <1>6, ConstSteps
<1>7. CASE EndFunc
  BY <1>7, EndFuncSteps
<1>8. CASE FlushGlobalPool
  BY <1>8, FlushSteps
<1>9. CASE Reinit
  BY <1>9, ReinitSteps
<1> QED
  BY <1>1, <1>2, <1>3, <1>4, <1>5, <1>6, <1>7, <1>8, <1>9 DEF Next

-------------------------------------------------------------------------------
(* The theorems *)

\* The list is in order and its owners are accounted for, from the start and
\* after every step (builder.cpp, compiler.cpp).
THEOREM InductiveInvariant ==
  ASSUME ~Rebinding
  PROVE  Spec => []IInv
<1>1. Init => IInv
  <2> SUFFICES ASSUME Init PROVE IInv
    OBVIOUS
  <2>1. Sound(list, <<Text>>)
    BY StartedOver DEF Init
  <2>2. list.active = {Text}
    BY DEF Init, StartOver
  <2>3. \A f \in FuncNodes : Text \notin NodesOf(f)
    BY OtherNodes, NodesOfFunc, BuilderListAssumption
  <2> QED
    BY <2>1, <2>2, <2>3 DEF Init, IInv, OwnersInv
<1>2. IInv /\ [Next]_vars => IInv'
  <2> SUFFICES ASSUME IInv, [Next]_vars PROVE IInv'
    OBVIOUS
  <2>1. PICK s : Sound(list, s)
    BY DEF IInv
  <2>2. CASE Next
    <3>1. OwnersInv' /\ \E t : Steps(s, t)
      BY <2>1, <2>2, NextSteps DEF IInv
    <3> QED
      BY <3>1 DEF IInv, Steps
  <2>3. CASE UNCHANGED vars
    BY <2>1, <2>3 DEF IInv, OwnersInv, vars
  <2> QED
    BY <2>2, <2>3
<1> QED
  BY <1>1, <1>2, PTL DEF Spec

LEMMA LinksAgreeIfSound ==
  ASSUME NEW s, Sound(list, s)
  PROVE  LinksAgree
<1>0. /\ Walk(list) = s /\ s \in Orders /\ Len(s) \in Nat /\ DOMAIN s = 1 .. Len(s)
      /\ list.active = {s[k] : k \in 1 .. Len(s)}
      /\ list.last = NodeAt(s, Len(s))
      /\ list.cursor \in list.active \cup {None}
  BY SoundParts, SoundWalk
<1>1. Range(s) = list.active
  BY <1>0 DEF Range
<1>2. Len(s) = Cardinality(list.active)
  BY <1>0, OrderIsBounded
<1>3. list.last = IF s = <<>> THEN None ELSE s[Len(s)]
  BY <1>0 DEF NodeAt, Orders
<1>4. \A i \in DOMAIN s : list.prev[s[i]] = IF i = 1 THEN None ELSE s[i - 1]
  <2> SUFFICES ASSUME NEW i \in 1 .. Len(s) PROVE list.prev[s[i]] = IF i = 1 THEN None ELSE s[i - 1]
    BY <1>0
  <2>1. list.prev[s[i]] = NodeAt(s, i - 1)
    BY DEF Sound, Holds
  <2>2. i - 1 \in 1 .. Len(s) <=> i # 1
    BY <1>0
  <2> QED
    BY <2>1, <2>2 DEF NodeAt
<1>5. \A n \in Nodes \ list.active : list.prev[n] = None /\ list.next[n] = None
  BY DEF Sound, Holds
<1> QED
  BY <1>0, <1>1, <1>2, <1>3, <1>4, <1>5 DEF LinksAgree

\* Walked either way the list holds the active nodes, each once, and the cursor
\* is on one of them or nowhere (builder.cpp:138-325).
THEOREM LinksAreSound ==
  ASSUME ~Rebinding
  PROVE  Spec => []LinksAgree
<1>1. IInv => LinksAgree
  BY LinksAgreeIfSound DEF IInv
<1> QED
  BY <1>1, InductiveInvariant, PTL

\* Switching to a section puts the cursor where its nodes end, whatever came
\* before and whether the links between sections are clean or dirty
\* (builder.cpp:369-418).
THEOREM SwitchingIsRight ==
  ASSUME ~Rebinding
  PROVE  Spec => []SwitchingIsExact
<1>1. ASSUME NEW s, Sound(list, s) PROVE SwitchingIsExact
  <2> SUFFICES ASSUME list.last # None, NEW x \in Sections
               PROVE  LET L == SwitchSection(list, x)
                      IN Sequence!Switch(Walk(list), x, Walk(L), L.cursor)
    BY DEF SwitchingIsExact
  <2>1. PICK L : L = SwitchSection(list, x)
    OBVIOUS
  <2>2. PICK t : Sound(L, t) /\ Sequence!Switch(s, x, t, L.cursor)
    BY <1>1, <2>1, SwitchedSection
  <2>3. Walk(list) = s /\ Walk(L) = t
    BY <1>1, <2>2, SoundWalk
  <2> QED
    BY <2>1, <2>2, <2>3
<1>2. IInv => SwitchingIsExact
  BY <1>1 DEF IInv
<1> QED
  BY <1>2, InductiveInvariant, PTL

\* The list implements the sequence of nodes: each operation is a step of the
\* sequence, or leaves it alone (builder.cpp:138-418, compiler.cpp:143-180).
THEOREM ImplementsSequence ==
  ASSUME ~Rebinding
  PROVE  Spec => ImplementsNodeSequence
<1>1. Init => Sequence!Init
  <2> SUFFICES ASSUME Init PROVE Sequence!Init
    OBVIOUS
  <2>1. Sound(list, <<Text>>)
    BY StartedOver DEF Init
  <2>2. Walk(list) = <<Text>> /\ list.cursor = Text
    BY <2>1, SoundWalk DEF Init, StartOver
  <2> QED
    BY <2>2 DEF Sequence!Init, Sequence!Clear
<1>2. IInv /\ [Next]_vars => [Sequence!Next]_<<Walk(list), list.cursor>>
  <2> SUFFICES ASSUME IInv, [Next]_vars
               PROVE  Sequence!Next \/ UNCHANGED <<Walk(list), list.cursor>>
    OBVIOUS
  <2>1. PICK s : Sound(list, s)
    BY DEF IInv
  <2>2. Walk(list) = s
    BY <2>1, SoundWalk
  <2>3. CASE Next
    <3>1. PICK t : Steps(s, t)
      BY <2>1, <2>3, NextSteps DEF IInv
    <3>2. Walk(list') = t
      BY <3>1, SoundWalk DEF Steps
    <3>3. Walk(list)' = t
      BY <3>2 DEF Walk
    <3> QED
      BY <2>2, <3>1, <3>3 DEF Steps, Sequence!Next
  <2>4. CASE UNCHANGED vars
    <3>1. list' = list
      BY <2>4 DEF vars
    <3>2. Walk(list)' = Walk(list)
      BY <3>1 DEF Walk
    <3> QED
      BY <3>1, <3>2
  <2> QED
    BY <2>3, <2>4
<1> QED
  BY <1>1, <1>2, InductiveInvariant, PTL DEF Spec, ImplementsNodeSequence, Sequence!Spec
===============================================================================
