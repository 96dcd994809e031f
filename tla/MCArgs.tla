------------------------------- MODULE MCArgs -------------------------------
(* Finite instance of Args for TLC: all short lines, and longer ones chosen *)
(* for quotes, nested and repeated expansions and growth of the arrays.     *)
EXTENDS Args

Char == {"a", Space, Backslash, Star, Open, Close, Comma, "\""}
BothQuotes == {"'", "\""}

Files == <<<<"a">>, <<"b">>, <<"a", "b">>>>

QuotedLines ==
    {QuoteAll(ws, q) : ws \in BoundedSeq(BoundedSeq({"a", Space, Star}, 2)
                                         \cup {<<Backslash>>} \cup {<<q>> : q \in BothQuotes}, 2),
                       q \in BothQuotes}
ChosenLines == {
    <<"{", "a", ",", "*", "}">>,
    <<"b", "{", "*", ",", "a", "}", "b">>,
    <<"{", "b", ",", "a", "*", ",", "}", " ", "*">>,
    <<"{", "*", ",", "*", "b", ",", "b", "}">>,
    <<"{", "'", "a", ",", "b", "'", ",", "a", "}">>,
    <<"{", "\\", "'", "a", ",", "b", "\\", "'", ",", "a", "}">>,
    <<"{", "\\", " ", ",", "a", "}">>,
    <<"{", "a", ",", "b", "}", "{", "a", ",", "b", "}">>,
    <<"*", " ", "a", " ", "*", "b", " ", "a">>,
    <<"a", " ", "b", " ", "a", " ", "b", " ", "a">> }

AllLines == BoundedSeq(Char, 3) \cup QuotedLines \cup ChosenLines
FewLines == {<<Star>>, <<"\"", Star, "\"", Space>>, <<"a">>}

NoSite == {}
=============================================================================
