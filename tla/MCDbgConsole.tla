---------------------------- MODULE MCDbgConsole ----------------------------
(* Finite instance of DbgConsole for TLC: two starts of the console; INT_MAX *)
(* is a little more than two seconds.                                       *)
EXTENDS DbgConsole

Word(text) == [text |-> text, num |-> -1, unit |-> ""]
Number(n, unit) == [text |-> "number", num |-> n, unit |-> unit]
W(words) == [cmd |-> "timer", words |-> words]

Lines ==
    {[cmd |-> c, words |-> <<>>] : c \in Command \ {"timer"}} \cup
    {W(<<>>), W(<<Word("-q")>>),
     W(<<Word("-s"), Word("-f"), Word("path"), Word("-w"), Number(2, "s")>>),
     W(<<Word("-w"), Number(3, "s"), Word("-d")>>),
     W(<<Word("-h"), Number(2600, "ms"), Number(0, ""), Word("-f"), Word("-q")>>),
     W(<<Word("-w"), Word("-q"), Number(1500, "ms"), Word("-f")>>)}
=============================================================================
