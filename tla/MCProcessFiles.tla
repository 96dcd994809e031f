--------------------------- MODULE MCProcessFiles ---------------------------
(* Finite instance of ProcessFiles for TLC, with the numbers of the code;   *)
(* size_t has 10 bits, more than any sum here needs.                        *)
EXTENDS ProcessFiles

Opts == {"--error-continue", "-q", "-e"}
Lists == {<<>>, <<"">>, <<"one">>, <<"one", "two">>}
=============================================================================
