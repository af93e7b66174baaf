------------------------------ MODULE BuilderList ------------------------------
(***************************************************************************)
(* The node list of BaseBuilder and BaseCompiler (builder.cpp, builder.h,  *)
(* compiler.cpp): a doubly linked list with a cursor, the links from each  *)
(* section to the next that are rebuilt only when they are needed, and the *)
(* functions and constant pools a compiler puts into the list.             *)
(*                                                                         *)
(* The operations on the list are functions from a list to a list, because *)
(* the code builds larger operations of them.  Nodes are named: a node     *)
(* exists from the start, in no list, and creating it means adding it.     *)
(***************************************************************************)
EXTENDS Integers, Sequences, FiniteSets, Functions

CONSTANTS
  Sections,        \* section nodes, one per section
  Text,            \* the one of .text
  Labels,          \* label nodes
  Plain,           \* instructions, data, alignment and comments
  FuncNodes,       \* function nodes
  ExitOf, EndOf,   \* func -> its exit label, its end sentinel
  PoolOf,          \* func -> the pool of the constants it used
  GlobalPool,      \* the pool of the global constants
  None,
  MaxActive,       \* bound: nodes in the list
  Rebinding        \* whether the user binds a label that is bound

NodesOf(f) == {f, ExitOf[f], EndOf[f], PoolOf[f]}

Inner == UNION {NodesOf(f) : f \in FuncNodes}

Nodes == Sections \cup Labels \cup Plain \cup Inner \cup {GlobalPool}

ASSUME BuilderListAssumption ==
  /\ Text \in Sections
  /\ None \notin Nodes
  /\ IsFiniteSet(Nodes)
  /\ MaxActive \in Nat
  /\ Rebinding \in BOOLEAN

\* A function and its nodes are created together, and are nothing else.
ASSUME NodesAreDistinct ==
  /\ \A f \in FuncNodes : Cardinality(NodesOf(f)) = 4
  /\ \A f, g \in FuncNodes : f # g => NodesOf(f) \cap NodesOf(g) = {}
  /\ Inner \cap (Sections \cup Labels \cup Plain \cup {GlobalPool}) = {}
  /\ GlobalPool \notin Sections \cup Labels \cup Plain

VARIABLES
  list,    \* [first, last, cursor, dirty, next, prev, active, next_section]
  func,    \* the function being built, or None
  used,    \* the functions added since the builder started over
  pools    \* the pools that exist and wait to be added: local, global

vars == <<list, func, used, pools>>

\* `dirty` is _dirty_section_links, `active` the nodes with kIsActive.
StartOver(dirty) ==
  [first |-> Text, last |-> Text, cursor |-> Text, dirty |-> dirty,
   next |-> [n \in Nodes |-> None], prev |-> [n \in Nodes |-> None],
   active |-> {Text}, next_section |-> [s \in Sections |-> None]]

\* The nodes from n along `next`, at most i: one more than there are if it goes
\* in circles
Walk(L) ==
  LET from[i \in Nat] ==
        [n \in Nodes \cup {None} |->
           IF n = None \/ i = 0 THEN <<>> ELSE <<n>> \o from[i - 1][L.next[n]]]
  IN from[Cardinality(Nodes) + 1][L.first]

--------------------------------------------------------------------------------
(* The list *)

\* n gets between p and x, either of which may be None.
Linked(L, n, p, x) ==
  [L EXCEPT
     !.next  = [m \in Nodes |-> IF m = n THEN x ELSE IF m = p THEN n ELSE @[m]],
     !.prev  = [m \in Nodes |-> IF m = n THEN p ELSE IF m = x THEN n ELSE @[m]],
     !.first = IF p = None THEN n ELSE @,
     !.last  = IF x = None THEN n ELSE @,
     !.active = @ \cup {n},
     !.dirty = @ \/ n \in Sections]

\* Wrong: without a cursor the list is taken for empty.
WrongAddNode(L, n) ==
  [Linked(L, n, L.cursor, IF L.cursor = None THEN None ELSE L.next[L.cursor]) EXCEPT !.cursor = n]

\* Without a cursor the node goes to the front.
AddNode(L, n) ==
  LET added == IF L.cursor = None THEN Linked(L, n, None, L.first)
               ELSE Linked(L, n, L.cursor, L.next[L.cursor])
  IN [added EXCEPT !.cursor = n]

AddAfter(L, n, ref) == Linked(L, n, ref, L.next[ref])

AddBefore(L, n, ref) == Linked(L, n, L.prev[ref], ref)

\* remove_nodes(), and remove_node() when a = b: the nodes from a to b, which
\* are `gone`.  The assertion that there is a node behind b is not part of it:
\* release builds have none.
Unlinked(L, a, b, gone) ==
  LET p == L.prev[a]
      x == L.next[b]
  IN [L EXCEPT
        !.first = IF @ = a THEN x ELSE @,
        !.last  = IF @ = b THEN p ELSE @,
        !.next  = [m \in Nodes |-> IF m \in gone THEN None ELSE IF m = p THEN x ELSE @[m]],
        !.prev  = [m \in Nodes |-> IF m \in gone THEN None ELSE IF m = x THEN p ELSE @[m]],
        !.active = @ \ gone,
        !.dirty = @ \/ gone \cap Sections # {},
        !.cursor = IF @ \in gone THEN p ELSE @]

\* The first section behind position i, or None
SectionBehind(nodes, i) ==
  LET behind == {k \in i + 1 .. Len(nodes) : nodes[k] \in Sections}
  IN IF behind = {} THEN None ELSE nodes[CHOOSE k \in behind : \A m \in behind : k <= m]

\* update_section_links(): every section in the list gets the one behind it, the
\* last none.
UpdateSectionLinks(L) ==
  LET nodes == Walk(L)
  IN IF ~L.dirty THEN L
     ELSE [L EXCEPT !.dirty = FALSE,
             !.next_section = [s \in Sections |->
                IF s \in Range(nodes)
                THEN SectionBehind(nodes, CHOOSE i \in DOMAIN nodes : nodes[i] = s)
                ELSE @[s]]]

\* Wrong: links are followed that are dirty.
WrongSwitchSection(L, s) ==
  IF s \notin L.active
  THEN [AddAfter(L, s, L.last) EXCEPT !.cursor = s]
  ELSE LET x == L.next_section[s]
       IN [L EXCEPT !.cursor = IF x # None THEN L.prev[x] ELSE L.last]

\* section(): one that is not in the list goes to its end; from one that is,
\* the links lead to where its nodes end.
SwitchSection(L, s) ==
  IF s \notin L.active
  THEN [AddAfter(L, s, L.last) EXCEPT !.cursor = s]
  ELSE LET U == UpdateSectionLinks(L)
           x == U.next_section[s]
       IN [U EXCEPT !.cursor = IF x # None THEN U.prev[x] ELSE U.last]

--------------------------------------------------------------------------------
(* Operations of the builder *)

\* add_node() of an instruction, of data or of another node of its own, new or
\* taken out before.  bind() does it with the node of the label, and does not
\* ask whether it is in the list.
Add(n) ==
  /\ n \in list.active => n \in Labels /\ Rebinding
  /\ list' = AddNode(list, n)
  /\ UNCHANGED <<func, used, pools>>

Place(n, ref) ==
  /\ n \notin list.active
  /\ ref \in list.active
  /\ list' \in {AddAfter(list, n, ref), AddBefore(list, n, ref)}
  /\ UNCHANGED <<func, used, pools>>

\* The user does not take apart a function that is being built.
Remove ==
  LET nodes == Walk(list)
  IN \E i, j \in DOMAIN nodes :
       LET gone == {nodes[k] : k \in i .. j}
       IN /\ i <= j
          /\ func # None => gone \cap {func, ExitOf[func], EndOf[func]} = {}
          /\ list' = Unlinked(list, nodes[i], nodes[j], gone)
          /\ UNCHANGED <<func, used, pools>>

SetCursor(n) ==
  /\ n \in list.active \cup {None}
  /\ list' = [list EXCEPT !.cursor = n]
  /\ UNCHANGED <<func, used, pools>>

\* The code dereferences last_node(): an empty list is not modelled.
SetSection(s) ==
  /\ list.last # None
  /\ list' = SwitchSection(list, s)
  /\ UNCHANGED <<func, used, pools>>

\* on_reinit(), or on_detach() and on_attach(): all nodes are new, but the
\* section links stay dirty if they were.
Reinit ==
  /\ list' = StartOver(list.dirty)
  /\ func' = None
  /\ used' = {}
  /\ pools' = {}

--------------------------------------------------------------------------------
(* Operations of the compiler *)

AddFunc(f) ==
  /\ f \notin used
  /\ LET L == AddNode(list, f)
     IN list' = [AddNode(AddNode(L, ExitOf[f]), EndOf[f]) EXCEPT !.cursor = L.cursor]
  /\ func' = f
  /\ used' = used \cup {f}
  /\ UNCHANGED pools

\* _new_const() creates the pool of its scope when there is none.  A local
\* constant is asked for in a function: its pool goes into the next that ends.
NewConst(scope) ==
  /\ scope \notin pools
  /\ scope = "global" => GlobalPool \notin list.active
  /\ pools' = pools \cup {scope}
  /\ UNCHANGED <<list, func, used>>

\* Wrong: the constants go behind the end.
WrongEndFunc ==
  /\ func # None
  /\ list' = LET L == [list EXCEPT !.cursor = EndOf[func]]
             IN IF "local" \in pools THEN AddNode(L, PoolOf[func]) ELSE L
  /\ func' = None
  /\ pools' = pools \ {"local"}
  /\ UNCHANGED used

\* end_func(): a pool of local constants goes before the end.
EndFunc ==
  /\ func # None
  /\ LET end == EndOf[func]
         L == IF "local" \in pools
              THEN AddNode([list EXCEPT !.cursor = list.prev[end]], PoolOf[func])
              ELSE list
     IN list' = [L EXCEPT !.cursor = end]
  /\ func' = None
  /\ pools' = pools \ {"local"}
  /\ UNCHANGED used

\* GlobalConstPoolPass::run(), at finalization
FlushGlobalPool ==
  /\ "global" \in pools
  /\ list.last # None
  /\ list' = AddAfter(list, GlobalPool, list.last)
  /\ pools' = pools \ {"global"}
  /\ UNCHANGED <<func, used>>

--------------------------------------------------------------------------------
Init ==
  /\ list = StartOver(FALSE)
  /\ func = None
  /\ used = {}
  /\ pools = {}

Room(n) == Cardinality(list.active) + n <= MaxActive

Next ==
  \/ \E n \in Plain \cup Labels : Room(1) /\ (Add(n) \/ \E ref \in list.active : Place(n, ref))
  \/ \E s \in Sections : Room(1) /\ (SetSection(s) \/ \E ref \in list.active : Place(s, ref))
  \/ Remove
  \/ \E n \in Nodes \cup {None} : SetCursor(n)
  \/ \E f \in FuncNodes : Room(3) /\ AddFunc(f)
  \/ NewConst("global") \/ (func # None /\ NewConst("local"))
  \/ Room(IF "local" \in pools THEN 1 ELSE 0) /\ EndFunc
  \/ Room(1) /\ FlushGlobalPool
  \/ Reinit

Spec == Init /\ [][Next]_vars

--------------------------------------------------------------------------------
(* Properties *)

\* Walked either way the list holds the active nodes, each once; a node that is
\* not active has no links, and the cursor is on an active node or nowhere.
\* Serialization, passes and the next insertion all rely on it
\* (builder.cpp:138-325).
LinksAgree ==
  LET nodes == Walk(list)
  IN /\ Range(nodes) = list.active
     /\ Len(nodes) = Cardinality(list.active)
     /\ list.last = IF nodes = <<>> THEN None ELSE nodes[Len(nodes)]
     /\ \A i \in DOMAIN nodes : list.prev[nodes[i]] = IF i = 1 THEN None ELSE nodes[i - 1]
     /\ \A n \in Nodes \ list.active : list.prev[n] = None /\ list.next[n] = None
     /\ list.cursor \in list.active \cup {None}

\* The list implements the sequence: nodes come and go where the cursor or a
\* neighbour says and nowhere else, a function is a bracket, and its constants
\* are inside (builder.cpp:138-325, compiler.cpp:143-180).
Sequence == INSTANCE NodeSequence
  WITH seq <- Walk(list), cursor <- list.cursor,
       Functions <- {<<f, ExitOf[f], EndOf[f]>> : f \in FuncNodes}

ImplementsNodeSequence == Sequence!Spec

\* Whatever was inserted, removed, moved and switched to before: switching to a
\* section now would put the cursor at the end of that section, where it would
\* be if the end were looked for, and a section that is not in the list would
\* become its last (builder.cpp:369-418).
SwitchingIsExact ==
  list.last # None =>
    \A s \in Sections :
      LET L == SwitchSection(list, s)
      IN Sequence!Switch(Walk(list), s, Walk(L), L.cursor)
================================================================================
