----------------------------- MODULE SpanAllocator -----------------------------
(***************************************************************************)
(* What the JIT allocator promises its clients, with no word about how     *)
(* free memory is found: regions of granules are mapped and unmapped, a    *)
(* span given to a client is inside one region and disjoint from every     *)
(* other span held, an operation on one span leaves all other spans alone, *)
(* and a region is not unmapped while a client holds a span of it.         *)
(***************************************************************************)
EXTENDS Integers, FiniteSets

CONSTANT RegionIds

VARIABLES
  region,   \* the mapped regions: id -> number of granules
  held      \* the spans clients hold

vars == <<region, held>>

Granules(s) == s.start .. s.end - 1

Disjoint(s, t) == s.block # t.block \/ Granules(s) \cap Granules(t) = {}

SpanOf(id, size) ==
  {s \in [block : {id}, start : 0 .. size, end : 0 .. size] : s.start < s.end}

Alloc ==
  \/ \E id \in DOMAIN region : \E s \in SpanOf(id, region[id]) :
       /\ \A t \in held : Disjoint(s, t)
       /\ held' = held \cup {s}
       /\ UNCHANGED region
  \/ \E id \in RegionIds \ DOMAIN region :
       /\ DOMAIN region' = DOMAIN region \cup {id}
       /\ \A i \in DOMAIN region : region'[i] = region[i]
       /\ \E s \in SpanOf(id, region'[id]) : held' = held \cup {s}

Release ==
  \E s \in held :
    /\ held' = held \ {s}
    /\ \/ UNCHANGED region
       \/ /\ \A t \in held' : t.block # s.block
          /\ region' = [id \in DOMAIN region \ {s.block} |-> region[id]]

Shrink ==
  \E s \in held : \E end \in s.start + 1 .. s.end - 1 :
    /\ held' = (held \ {s}) \cup {[s EXCEPT !.end = end]}
    /\ UNCHANGED region

Reset ==
  /\ held' = {}
  /\ \E keep \in SUBSET DOMAIN region : region' = [id \in keep |-> region[id]]

Init == region = << >> /\ held = {}

Next == Alloc \/ Release \/ Shrink \/ Reset

Spec == Init /\ [][Next]_vars
===============================================================================
