------------------------------ MODULE MapSpec ------------------------------
(***************************************************************************)
(* What src/src/bas/util/prefix_map.h promises of a map, whatever its      *)
(* buckets: each key has at most one value, the one added last.            *)
(***************************************************************************)
CONSTANTS Keys, Values

VARIABLE map    \* a function from the keys present to their values

Empty == [k \in {} |-> {}]

Init == map = Empty

(* An existing value is replaced. *)
Put(k, v) == map' = [x \in DOMAIN map \cup {k} |-> IF x = k THEN v ELSE map[x]]
Delete(k) == k \in DOMAIN map /\ map' = [x \in DOMAIN map \ {k} |-> map[x]]
Clear == map' = Empty

Next ==
    \/ \E k \in Keys : Delete(k) \/ \E v \in Values : Put(k, v)
    \/ Clear

Spec == Init /\ [][Next]_map
=============================================================================
