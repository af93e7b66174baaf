---------------------------- MODULE EmitterRegistry ----------------------------
(***************************************************************************)
(* What attaching promises, with no word about links: every code holder    *)
(* has its emitters in the order they were attached, an emitter belongs to *)
(* at most one holder, leaving takes out one emitter and keeps the order   *)
(* of the others, and only a reset or the end of a holder takes out all.   *)
(***************************************************************************)
EXTENDS Integers, SequencesExt

CONSTANTS Holders, Emitters

VARIABLE members   \* holder -> the emitters attached to it, oldest first

Everyone == UNION {Range(members[h]) : h \in Holders}

Init == members = [h \in Holders |-> <<>>]

Join(h, e) == members' = [members EXCEPT ![h] = Append(@, e)]

Leave(h, i) == members' = [members EXCEPT ![h] = RemoveAt(@, i)]

Dissolve(h) == members' = [members EXCEPT ![h] = <<>>]

Next ==
  \E h \in Holders :
    \/ \E e \in Emitters \ Everyone : Join(h, e)
    \/ \E i \in DOMAIN members[h] : Leave(h, i)
    \/ Dissolve(h)

Spec == Init /\ [][Next]_members
================================================================================
