---------------------------- MODULE MCOptParser ----------------------------
(* Finite instance of OptParser for TLC: optstring "ar:o::", four long      *)
(* options, and up to three words.                                          *)
EXTENDS OptParser

Ar_o__ == <<"a", "r", ":", "o", ":", ":">>

Long == [all |-> [has_arg |-> 0, flag |-> FALSE],
         req |-> [has_arg |-> 1, flag |-> FALSE],
         opt |-> [has_arg |-> 2, flag |-> FALSE],
         flg |-> [has_arg |-> 0, flag |-> TRUE]]

Letters == {"a", "r", "o", "x"}
Clusters ==
    {<<c>> : c \in Letters} \cup Letters \X Letters
    \cup {<<"a", "x", "r">>, <<"x", "o", "r">>, <<"a", "a", "o">>, <<":", "r">>}

Words ==
    {[is |-> k] : k \in {"operand", "dash", "dashdash"}}
    \cup {[is |-> "short", letters |-> c] : c \in Clusters}
    \cup {[is |-> "long", name |-> n, eq |-> e] :
              n \in DOMAIN Long \cup {"bad"}, e \in BOOLEAN}

Argvs == UNION {[1 .. n -> Words] : n \in 0 .. 3}
=============================================================================
