------------------------------ MODULE CliText ------------------------------
(***************************************************************************)
(* How src/src/bas/cli/cli_parser.c takes a line apart: statements, their  *)
(* redirections, the command name and its arguments.  Text is a sequence   *)
(* of characters; what may be a NULL pointer is a sequence of at most one  *)
(* text.                                                                   *)
(***************************************************************************)
EXTENDS ArgsText

Semicolon == ";"
Hash == "#"

NotSpace(c) == c # Space
SkipSpaces(s) == LET n == SelectInSeq(s, NotSpace)
                 IN  IF n = 0 THEN <<>> ELSE SubSeq(s, n, Len(s))
TrimEnd(s) == SubSeq(s, 1, SelectLastInSeq(s, NotSpace))

(* trim_whitespace, skip_comments *)
Trim(s) == TrimEnd(SkipSpaces(s))
IsComment(s) == LET t == SkipSpaces(s) IN t # <<>> /\ t[1] = Hash

(* The statement up to the first semicolon, and the text after it, if any. *)
FirstStatement(text) ==
    LET semi == Find(text, Semicolon, 1)
    IN  IF semi = 0 THEN [text |-> text, rest |-> <<>>]
        ELSE [text |-> SubSeq(text, 1, semi - 1), rest |-> <<SubSeq(text, semi + 1, Len(text))>>]

-----------------------------------------------------------------------------
(* cli_parser_parse_redirections.  An operator is searched for with spaces  *)
(* around it, then after it, then before it, and only then without; the     *)
(* last resort for a single character is its last occurrence.               *)
Around(op) == <<<<Space>> \o op \o <<Space>>, op \o <<Space>>, <<Space>> \o op>>

Occurs(form, s, at) ==
    at + Len(form) - 1 <= Len(s) /\ SubSeq(s, at, at + Len(form) - 1) = form

Places(form, s) == {at \in 1 .. Len(s) : Occurs(form, s, at)}
Least(S) == CHOOSE x \in S : \A y \in S : x <= y
Greatest(S) == CHOOSE x \in S : \A y \in S : x >= y

(* s cut at place `at', where form stands. *)
CutAt(s, at, form) ==
    [before |-> SubSeq(s, 1, at - 1), after |-> <<Trim(SubSeq(s, at + Len(form), Len(s)))>>]

NoCut(s) == [before |-> s, after |-> <<>>]

(* s cut at the first place of the first of the forms that occurs. *)
CutAtForm(s, forms) ==
    LET used == SelectInSeq(forms, LAMBDA form : Places(form, s) # {})
    IN  IF used = 0 THEN NoCut(s)
        ELSE CutAt(s, Least(Places(forms[used], s)), forms[used])

CutAtOperator(s, op) ==
    LET spaced == CutAtForm(s, Around(<<op>>))
    IN  IF spaced.after # <<>> \/ Places(<<op>>, s) = {} THEN spaced
        ELSE CutAt(s, Greatest(Places(<<op>>, s)), <<op>>)

AppendTo == <<">", ">">>

(* Faulty variant: the pipe is looked for first. *)
RedirectPipeFirst(s) ==
    LET pipe == CutAtOperator(s, "|")
        append == CutAtForm(pipe.before, Append(Around(AppendTo), AppendTo))
        output == IF append.after # <<>> THEN append ELSE CutAtOperator(pipe.before, ">")
        input == CutAtOperator(output.before, "<")
    IN  [command |-> TrimEnd(input.before), pipe |-> pipe.after, input |-> input.after,
         output |-> output.after, append |-> append.after # <<>>]

Redirect(s) ==
    LET append == CutAtForm(s, Append(Around(AppendTo), AppendTo))
        output == IF append.after # <<>> THEN append ELSE CutAtOperator(s, ">")
        input == CutAtOperator(output.before, "<")
        pipe == CutAtOperator(input.before, "|")
    IN  [command |-> TrimEnd(pipe.before), pipe |-> pipe.after, input |-> input.after,
         output |-> output.after, append |-> append.after # <<>>]

-----------------------------------------------------------------------------
(* The first word of a command, taken as it stands, and the text after it.  *)
CommandName(command) ==
    LET s == SkipSpaces(command)
        n == Find(s, Space, 1)
    IN  IF n = 0 THEN s ELSE SubSeq(s, 1, n - 1)

CommandArgs(command) ==
    LET s == SkipSpaces(command)
        n == Find(s, Space, 1)
    IN  IF n = 0 THEN <<>> ELSE SkipSpaces(SubSeq(s, n + 1, Len(s)))

(* args_parse without an enumeration function: braces are expanded.         *)
Words(text) ==
    LET words == LexWords(text)
    IN  FlattenSeq([x \in DOMAIN words |->
            LET e == ExpandBrace(words[x]) IN IF e = <<>> THEN <<words[x]>> ELSE e])

(* An alias value followed by the arguments, each after a space.            *)
Expanded(value, args) ==
    value \o FlattenSeq([x \in DOMAIN args |-> <<Space>> \o args[x]])
=============================================================================
