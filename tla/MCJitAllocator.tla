---------------------------- MODULE MCJitAllocator ----------------------------
(* Small instances of JitAllocator for TLC. *)
EXTENDS JitAllocator, TLC

CONSTANTS b1, b2, b3

OneBlock    == {b1}

TwoBlocks   == {b1, b2}
ThreeBlocks == {b1, b2, b3}

\* Block identities are interchangeable: nothing orders them.
Symmetry == Permutations(BlockIds)
===============================================================================
