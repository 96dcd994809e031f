---------------------------- MODULE MCCliParser ----------------------------
(* Finite instance of CliParser for TLC: aliases that can be empty, broken, *)
(* chained and circular, and lines with every kind of statement.            *)
EXTENDS CliParser

TwoNames == {<<"a">>, <<"b">>}
SomeValues == {<<>>, <<"a", " ", "x">>, <<"b", " ", "x">>, <<"b", " ", "\\">>, <<"c", " ", "x">>}

SomeLines == {
    <<"a", ";", " ", ";", "#", ";", "b", " ", "x">>,
    <<"a", " ", "'", "x", " ", "x", "'", " ", "\\", "'", ";", "c", " ", "'", "x">>,
    <<" ", "#">>,
    <<"b", "|", " ", "f", ">", " ", "f", ";", ">", " ", "f", ";",
      "b", " ", "|", "f", " ", "<", "f", " ", ">", ">", "f", ";",
      "c", "<", "f", ">", ">", "f", ";", "c", " ", "|", " ", "f", " ", ">", " ", "f">> }

OneName == {<<"f">>}

OneHandler == {1}
WantsName == <<{<<"a">>, <<"c">>}>>

SomeResults == {0, 1}

MaxArgsLine == {<<"c", " ", "x", " ", "x", " ", "x">>, <<"c", " ", "x", " ", "x">>}
=============================================================================
