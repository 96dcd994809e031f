----------------------------- MODULE MCDbgTimer -----------------------------
(* Finite instance of DbgTimer for TLC. *)
EXTENDS DbgTimer
CONSTANTS c1, c2, x1, x2, f1, f2, tmp

Clients2 == {c1, c2}
OneStopper == {c1}
Ctx2 == {x1, x2}
Paths == {f1, f2, tmp}
Temp == {tmp}

(* Intervals and flags differ together, so that a mix of two is no option. *)
Options ==
    {[interval |-> 1, flags |-> {"health"}, file |-> Empty],
     [interval |-> 0, flags |-> {"stackdump"}, file |-> f1],
     [interval |-> 0, flags |-> {"stackdump"}, file |-> f2]}
=============================================================================
