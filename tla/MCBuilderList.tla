----------------------------- MODULE MCBuilderList -----------------------------
(* A small instance of BuilderList for TLC: sections, code and one function. *)
EXTENDS BuilderList

CONSTANTS text, data, p1, f1, exit1, end1, pool1, gpool

Exits == [f \in {f1} |-> exit1]
Ends  == [f \in {f1} |-> end1]
Pools == [f \in {f1} |-> pool1]
================================================================================
