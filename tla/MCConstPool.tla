------------------------------ MODULE MCConstPool ------------------------------
(* A small instance of ConstPool for TLC. *)
EXTENDS ConstPool

CONSTANTS b, h, w, x   \* a byte, a half word, and two words

Short == {[size |-> 1, data |-> <<b>>], [size |-> 2, data |-> <<h>>]}
Word  == {[size |-> 4, data |-> <<w>>], [size |-> 4, data |-> <<x>>]}
Long  == {[size |-> 8, data |-> <<w, x>>], [size |-> 8, data |-> <<w, w>>],
          [size |-> 16, data |-> <<x, w, w, x>>]}

SomeConstants == Short \cup Word \cup Long
===============================================================================
