---------------------------- MODULE MCStringList ----------------------------
(* Finite instance of StringList for TLC. *)
EXTENDS StringList, TLC

Interchangeable == Permutations(Address)
=============================================================================
