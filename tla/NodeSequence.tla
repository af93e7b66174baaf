----------------------------- MODULE NodeSequence ------------------------------
(***************************************************************************)
(* What a builder's node list promises, with no word about links or        *)
(* caches: a sequence of nodes with a cursor.  New code goes behind the    *)
(* cursor, switching to a section puts the cursor at the end of the nodes  *)
(* of that section, and a function is entered and left as a bracket.       *)
(*                                                                         *)
(* The steps are relations between the sequence s with the cursor c before *)
(* and the sequence t with the cursor d after.                             *)
(***************************************************************************)
EXTENDS Integers, Sequences, Functions

CONSTANTS
  Nodes, Sections, Text, None,
  Functions   \* triples of nodes: a function, its exit label, its end

VARIABLES
  seq,      \* the nodes in the order they will be serialized
  cursor    \* the node new code goes behind; None is before the first

\* The position of a node, 0 for None
At(s, n) == IF n = None THEN 0 ELSE CHOOSE i \in DOMAIN s : s[i] = n

\* The nodes ns behind position i of s
Insert(s, i, ns) == SubSeq(s, 1, i) \o ns \o SubSeq(s, i + 1, Len(s))

New(s) == Nodes \ Range(s)

\* The last position before the next section, from position i
EndOfSection(s, i) ==
  LET behind == {k \in i + 1 .. Len(s) : s[k] \in Sections}
  IN IF behind = {} THEN Len(s) ELSE (CHOOSE k \in behind : \A m \in behind : k <= m) - 1

Add(s, c, t, d) == d \in New(s) /\ t = Insert(s, At(s, c), <<d>>)

Place(s, c, t, d) ==
  /\ d = c
  /\ \E i \in DOMAIN t : t[i] \in New(s) /\ t = Insert(s, i - 1, <<t[i]>>)

Remove(s, c, t, d) ==
  \E i, j \in DOMAIN s :
    /\ i <= j
    /\ t = SubSeq(s, 1, i - 1) \o SubSeq(s, j + 1, Len(s))
    /\ d = IF At(s, c) \notin i .. j THEN c ELSE IF i = 1 THEN None ELSE s[i - 1]

SetCursor(s, t, d) == t = s /\ d \in Range(s) \cup {None}

Switch(s, x, t, d) ==
  IF x \in Range(s) THEN t = s /\ d = s[EndOfSection(s, At(s, x))]
  ELSE t = Append(s, x) /\ d = x

\* A function is three nodes; code goes behind the first of them.
Enter(s, c, t, d) ==
  \E f \in Functions :
    Range(f) \subseteq New(s) /\ t = Insert(s, At(s, c), f) /\ d = f[1]

\* Its constants, if any, go before the last.
Leave(s, t, d) ==
  \E f \in Functions :
    /\ d = f[3]
    /\ \/ t = s
       \/ \E pool \in New(s) : t = Insert(s, At(s, d) - 1, <<pool>>)

Clear(t, d) == t = <<Text>> /\ d = Text

Step(s, c, t, d) ==
  \/ SetCursor(s, t, d) \/ \E x \in Sections : Switch(s, x, t, d)
  \/ Clear(t, d)
  \/ Add(s, c, t, d) \/ Enter(s, c, t, d) \/ Leave(s, t, d)
  \/ Place(s, c, t, d) \/ Remove(s, c, t, d)

Init == Clear(seq, cursor)

Next == Step(seq, cursor, seq', cursor')

Spec == Init /\ [][Next]_<<seq, cursor>>
================================================================================
