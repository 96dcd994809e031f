---------------------------- MODULE MCPrefixMap ----------------------------
(* Finite instance of PrefixMap for TLC: three keys, two of them in the     *)
(* same chain, one a prefix of another.                                     *)
EXTENDS PrefixMap

ThreeKeys == {<<"a">>, <<"a", "b">>, <<"b">>}
TwoChains == [k \in ThreeKeys |-> IF k = <<"b">> THEN 2 ELSE 1]
=============================================================================
