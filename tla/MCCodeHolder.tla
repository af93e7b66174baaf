----------------------------- MODULE MCCodeHolder -----------------------------
(* Small instances of CodeHolder for TLC. *)
EXTENDS CodeHolder

===============================================================================
