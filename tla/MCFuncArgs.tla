------------------------------ MODULE MCFuncArgs -------------------------------
(* Instances of FuncArgs for TLC: all assignments of a few arguments. *)
EXTENDS FuncArgs

Gp   == 0 .. 4
Vec  == 5 .. 7
Kept == {4}

\* The placements of n arguments in these registers and on the stack.
Placements(n, rs) ==
  {p \in [1 .. n -> rs \cup {Stack}] :
     \A v, w \in 1 .. n : p[v] = p[w] => v = w \/ p[v] = Stack}

Assignments(srcs, dsts, wides, by_vecs, sa_outs, realigns, swaps) ==
  {[src |-> s, dst |-> d, wide |-> w, by_vec |-> b, sa_out |-> o, realign |-> r, has_swap |-> x] :
     s \in srcs, d \in dsts, w \in wides, b \in by_vecs, o \in sa_outs, r \in realigns, x \in swaps}

\* Where the calling convention may put n arguments, of the registers rs.
Sources(n, rs) == Placements(n, rs \ Kept)

Permutations4 == {p \in [1 .. 4 -> 0 .. 3] : \A v, w \in 1 .. 4 : p[v] = p[w] => v = w}

\* Does an argument go from one group to the other?
Mixed(i) ==
  \E v \in DOMAIN i.src : /\ {i.src[v], i.dst[v]} \cap Gp # {}
                         /\ {i.src[v], i.dst[v]} \cap Vec # {}

\* Three arguments; two of both groups; all four volatile registers permuted;
\* two with an argument pointer; and one case that is refused.  A frame is
\* realigned only where registers can be exchanged: on x86.
SomeFamilies ==
  {Assignments(Sources(3, Gp), Placements(3, Gp), {{}}, {{}}, {None}, {FALSE}, BOOLEAN),
   {i \in Assignments(Sources(2, {0, 1, 4} \cup Vec), Placements(2, {0, 1, 4} \cup Vec),
                      SUBSET {1, 2}, {{}, {2}}, {None}, {FALSE}, BOOLEAN) : i.has_swap => ~Mixed(i)},
   Assignments(Permutations4, Permutations4, {{}}, {{}}, {None}, {FALSE}, BOOLEAN),
   Assignments(Sources(2, Gp), Placements(2, Gp), {{}, {1, 2}}, {{}}, Gp \cup {None}, BOOLEAN, {TRUE}),
   Assignments(Sources(2, Gp), Placements(2, Gp), {{}}, {{}}, Gp, {FALSE}, {FALSE}),
   Assignments({<<0, 1>>}, {<<2, 2>>}, {{}}, {{}}, {None}, {FALSE}, {TRUE})}

\* A frame realigned on an architecture without an exchange instruction.
Realigned ==
  {Assignments(Sources(2, Gp), Placements(2, Gp), {{}}, {{}}, {None}, {TRUE}, {FALSE})}

\* Arguments that change the group, where registers can be exchanged.
ChangingGroup ==
  {{i \in Assignments(Sources(2, {0, 1} \cup Vec), Placements(2, {0, 1} \cup Vec),
                      {{}}, {{}}, {None}, {FALSE}, {TRUE}) : Mixed(i)}}
===============================================================================
