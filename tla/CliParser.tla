----------------------------- MODULE CliParser -----------------------------
(***************************************************************************)
(* The command line interpreter of src/src/bas/cli/cli_parser.c.           *)
(* cli_parser_parse_line runs the statements of a line one after the       *)
(* other: redirections, aliases, then the first handler that wants the     *)
(* command.  A handler runs inside that call and may use the parser again: *)
(* set and remove aliases, register handlers, run a line of its own.       *)
(* The alias map is the map of MapSpec, which PrefixMap implements.        *)
(***************************************************************************)
EXTENDS CliText

CONSTANTS
    CliLines,       \* the lines that are run
    AliasNames,     \* alias names
    AliasValues,    \* and their values
    Handlers,       \* handlers that may be registered
    Wants,          \* the command names a handler can_handle
    HandlerResults, \* what handlers return
    FileNames,      \* the names of files and of commands after a pipe
    MaxExpansions,  \* max_alias_expansions
    ArgvSlots,      \* the length of cmd_argv
    MaxDepth,       \* bound: lines run inside one another
    MaxLeaks        \* bound: argument arrays leaked

ASSUME CliParserAssumption ==
    /\ MaxExpansions \in Nat \ {0} /\ ArgvSlots \in Nat \ {0}
    /\ MaxDepth \in Nat \ {0} /\ MaxLeaks \in Nat
    /\ DOMAIN Wants = Handlers /\ HandlerResults \subseteq Int
    /\ CliLines \cup AliasValues \cup FileNames \subseteq Seq(STRING)
    /\ \A file \in FileNames :   \* begins and ends with a character of the name
          /\ file # <<>> /\ NotSpace(file[1]) /\ NotSpace(file[Len(file)])
          /\ ToSet(file) \cap {"|", "<", ">"} = {}

VARIABLES
    aliases,    \* alias_map
    handlers,   \* the handlers, in the order of their registration
    stack,      \* the calls of cli_parser_parse_line, the innermost last
    arrays,     \* argument arrays allocated and not freed
    leaked,     \* history: those nobody will free
    result,     \* what the last call returned
    overrun     \* cmd_argv was written beyond its end

cliVars == <<aliases, handlers, stack, arrays, leaked, result, overrun>>

Aliases == INSTANCE MapSpec WITH Keys <- AliasNames, Values <- AliasValues, map <- aliases

CliInit ==
    /\ aliases = <<>>
    /\ handlers = <<>>
    /\ stack = <<>>
    /\ arrays = 0 /\ leaked = 0
    /\ result = 0
    /\ overrun = FALSE

Top == stack[Len(stack)]
SetTop(frame) == stack' = [stack EXCEPT ![Len(stack)] = frame]
At(pc) == stack # <<>> /\ Top.pc = pc /\ ~overrun

(* The frame of a line whose next statements are still to be read. *)
Frame(rest) ==
    [pc |-> "statement", rest |-> rest, text |-> <<>>, redir |-> Redirect(<<>>),
     name |-> <<>>, argv |-> <<>>, args |-> <<>>, parsed |-> FALSE, expansions |-> 0]

(* Where the parser may be called: from outside, or from a handler. *)
Callable == ~overrun /\ (stack # <<>> => Top.pc = "handling")

(* The argument array of the top frame, if any. *)
Parsed == IF Top.parsed THEN 1 ELSE 0

Return(r) == stack' = Front(stack) /\ result' = r

-----------------------------------------------------------------------------
(* cli_parser_parse_line *)
CallParseLine(line) ==
    /\ Callable
    /\ Len(stack) < MaxDepth /\ leaked <= MaxLeaks
    /\ IF IsComment(line) THEN result' = 0 /\ UNCHANGED stack
       ELSE stack' = Append(stack, Frame(<<SkipSpaces(line)>>)) /\ UNCHANGED result
    /\ UNCHANGED <<aliases, handlers, arrays, leaked, overrun>>

LineDone ==
    /\ At("statement") /\ Top.rest = <<>>
    /\ Return(0)
    /\ UNCHANGED <<aliases, handlers, arrays, leaked, overrun>>

Statement == FirstStatement(Top.rest[1])
StatementRedir == Redirect(Trim(Statement.text))

(* Nothing there, a comment, or a redirection without a command. *)
IsVoid == LET s == Trim(Statement.text)
          IN  s = <<>> \/ IsComment(s) \/ CommandName(Redirect(s).command) = <<>>

SkipStatement ==
    /\ At("statement") /\ Top.rest # <<>> /\ IsVoid
    /\ SetTop(Frame(Statement.rest))
    /\ UNCHANGED <<aliases, handlers, arrays, leaked, result, overrun>>

ReadStatement ==
    /\ At("statement") /\ Top.rest # <<>> /\ ~IsVoid
    /\ LET redir == StatementRedir
           name == CommandName(redir.command)
           args == CommandArgs(redir.command)
       IN  /\ ~LexFails(args)
           /\ SetTop([pc |-> "expand", rest |-> Statement.rest, text |-> Trim(Statement.text),
                      redir |-> redir, name |-> name, argv |-> <<name>> \o Words(args),
                      args |-> Words(args), parsed |-> args # <<>>, expansions |-> 0])
           /\ arrays' = arrays + (IF args # <<>> THEN 1 ELSE 0)
           /\ overrun' = (Len(Words(args)) + 1 >= ArgvSlots)
    /\ UNCHANGED <<aliases, handlers, leaked, result>>

(* A quote is left open, or memory is short.                                *)
ReadFails ==
    /\ At("statement") /\ Top.rest # <<>> /\ ~IsVoid
    /\ CommandArgs(StatementRedir.command) # <<>>
    /\ Return(-1)
    /\ UNCHANGED <<aliases, handlers, arrays, leaked, overrun>>

-----------------------------------------------------------------------------
(* One round of the alias loop.  args is parsed_argv: from the second round *)
(* on it begins with the name the round before came to.                     *)
IsAlias == Top.name \in DOMAIN aliases
Expansion == Expanded(aliases[Top.name], Top.args)

(* Faulty variant: the arguments are parsed, but not passed on. *)
ExpandAliasDropsArgs ==
    /\ At("expand") /\ IsAlias /\ Top.expansions < MaxExpansions
    /\ ~LexFails(Expansion) /\ Words(Expansion) # <<>>
    /\ LET words == Words(aliases[Top.name])
       IN  /\ words # <<>>
           /\ SetTop([Top EXCEPT !.name = words[1], !.argv = words, !.args = words,
                                 !.parsed = TRUE, !.expansions = @ + 1])
           /\ overrun' = (Len(words) >= ArgvSlots)
    /\ arrays' = arrays - Parsed + 1
    /\ UNCHANGED <<aliases, handlers, leaked, result>>

(* Faulty variant: one round more. *)
ExpandAliasOnceMore ==
    /\ At("expand") /\ IsAlias /\ Top.expansions <= MaxExpansions
    /\ ~LexFails(Expansion) /\ Words(Expansion) # <<>>
    /\ LET words == Words(Expansion)
       IN  /\ SetTop([Top EXCEPT !.name = words[1], !.argv = words, !.args = words,
                                 !.parsed = TRUE, !.expansions = @ + 1])
           /\ overrun' = (Len(words) >= ArgvSlots)
    /\ arrays' = arrays - Parsed + 1
    /\ UNCHANGED <<aliases, handlers, leaked, result>>

(* Faulty variant: rounds are not counted. *)
ExpandAliasUncounted ==
    /\ At("expand") /\ IsAlias
    /\ ~LexFails(Expansion) /\ Words(Expansion) # <<>>
    /\ LET words == Words(aliases[Top.name])
       IN  /\ words # <<>>
           /\ SetTop([Top EXCEPT !.name = words[1], !.argv = words, !.args = <<>>,
                                 !.parsed = TRUE])
           /\ overrun' = (Len(words) >= ArgvSlots)
    /\ arrays' = arrays - Parsed + 1
    /\ UNCHANGED <<aliases, handlers, leaked, result>>

ExpandAlias ==
    /\ At("expand") /\ IsAlias /\ Top.expansions < MaxExpansions
    /\ ~LexFails(Expansion) /\ Words(Expansion) # <<>>
    /\ LET words == Words(Expansion)
       IN  /\ SetTop([Top EXCEPT !.name = words[1], !.argv = words, !.args = words,
                                 !.parsed = TRUE, !.expansions = @ + 1])
           /\ overrun' = (Len(words) >= ArgvSlots)
    /\ arrays' = arrays - Parsed + 1
    /\ UNCHANGED <<aliases, handlers, leaked, result>>

(* The old arguments are freed before the expansion is parsed, which a      *)
(* quote left open or want of memory may make fail.                         *)
ExpansionFails ==
    /\ At("expand") /\ IsAlias /\ Top.expansions < MaxExpansions
    /\ arrays' = arrays - Parsed
    /\ Return(-1)
    /\ UNCHANGED <<aliases, handlers, leaked, overrun>>

(* The array of no arguments is never freed. *)
ExpansionEmpty ==
    /\ At("expand") /\ IsAlias /\ Top.expansions < MaxExpansions
    /\ ~LexFails(Expansion) /\ Words(Expansion) = <<>>
    /\ arrays' = arrays - Parsed + 1
    /\ leaked' = leaked + 1
    /\ Return(-1)
    /\ UNCHANGED <<aliases, handlers, overrun>>

TooManyExpansions ==
    /\ At("expand") /\ Top.expansions >= MaxExpansions
    /\ arrays' = arrays - Parsed
    /\ Return(-1)
    /\ UNCHANGED <<aliases, handlers, leaked, overrun>>

Wanting == {x \in DOMAIN handlers : Top.name \in Wants[handlers[x]]}

(* The first handler that wants the command gets it.  What it is, the       *)
(* frame does not keep: any handler may do what this one does next.         *)
Dispatch ==
    /\ At("expand") /\ ~IsAlias /\ Top.expansions < MaxExpansions
    /\ Wanting # {}
    /\ SetTop([Top EXCEPT !.pc = "handling"])
    /\ UNCHANGED <<aliases, handlers, arrays, leaked, result, overrun>>

NoHandler ==
    /\ At("expand") /\ ~IsAlias /\ Top.expansions < MaxExpansions
    /\ Wanting = {}
    /\ arrays' = arrays - Parsed
    /\ Return(-1)
    /\ UNCHANGED <<aliases, handlers, leaked, overrun>>

(* Faulty variant: the arguments are only freed on success. *)
HandlerReturnsLeaks ==
    /\ At("handling")
    /\ \E r \in HandlerResults :
          IF r = 0 THEN SetTop(Frame(Top.rest)) /\ arrays' = arrays - Parsed /\ UNCHANGED result
          ELSE Return(r) /\ UNCHANGED arrays
    /\ UNCHANGED <<aliases, handlers, leaked, overrun>>

(* 0: the next statement; anything else is what the line returns, which     *)
(* cli_parser.h:145 says is "0 on success, -1 on error".                    *)
HandlerReturns ==
    /\ At("handling")
    /\ arrays' = arrays - Parsed
    /\ \E r \in HandlerResults :
          IF r = 0 THEN SetTop(Frame(Top.rest)) /\ UNCHANGED result ELSE Return(r)
    /\ UNCHANGED <<aliases, handlers, leaked, overrun>>

-----------------------------------------------------------------------------
(* The alias and handler functions, called from outside or by a handler.    *)
(* cli_parser_set_alias does not learn that prefix_map_add ran out of       *)
(* memory.                                                                  *)
SetAlias(name, value) ==
    /\ Callable
    /\ \/ Aliases!Put(name, value) /\ result' = 0
       \/ UNCHANGED aliases /\ result' \in {0, -1}
    /\ UNCHANGED <<handlers, stack, arrays, leaked, overrun>>

RemoveAlias(name) ==
    /\ Callable
    /\ \/ Aliases!Delete(name) /\ result' = 0
       \/ name \notin DOMAIN aliases /\ result' = -1 /\ UNCHANGED aliases
    /\ UNCHANGED <<handlers, stack, arrays, leaked, overrun>>

ClearAliases ==
    /\ Callable
    /\ Aliases!Clear
    /\ UNCHANGED <<handlers, stack, arrays, leaked, result, overrun>>

(* cli_parser_register_handler; growing the array may fail, and may move    *)
(* it.  A handler that is running has a pointer into it: the interpreter    *)
(* does not use that again, and what the handler does with it is its own.   *)
RegisterHandler(h) ==
    /\ Callable /\ h \notin ToSet(handlers)
    /\ \/ handlers' = Append(handlers, h) /\ result' = 0
       \/ UNCHANGED handlers /\ result' = -1
    /\ UNCHANGED <<aliases, stack, arrays, leaked, overrun>>

Call ==
    \/ \E line \in CliLines : CallParseLine(line)
    \/ \E name \in AliasNames : \/ \E value \in AliasValues : SetAlias(name, value)
                                \/ RemoveAlias(name)
    \/ ClearAliases
    \/ \E h \in Handlers : RegisterHandler(h)

Run ==
    \/ LineDone \/ SkipStatement \/ ReadStatement \/ ReadFails
    \/ ExpandAlias \/ ExpansionFails \/ ExpansionEmpty \/ TooManyExpansions
    \/ Dispatch \/ NoHandler

CliNext == Call \/ Run \/ HandlerReturns

CliSpec == CliInit /\ [][CliNext]_cliVars

(* The interpreter runs, and a handler returns even if it runs lines of its *)
(* own before: WF_cliVars(Run) and SF_cliVars(ReturnFrom(depth)), with      *)
(* ENABLED spelled out, which TLC would otherwise evaluate with the parsing *)
(* in it.                                                                   *)
CanRun == At("statement") \/ At("expand")
CanReturnFrom(depth) == Len(stack) = depth /\ At("handling")

CliFairSpec ==
    /\ CliSpec
    /\ []<>~CanRun \/ []<><<Run>>_cliVars
    /\ \A depth \in 1 .. MaxDepth :
          <>[]~CanReturnFrom(depth) \/ []<><<CanReturnFrom(depth) /\ HandlerReturns>>_cliVars
-----------------------------------------------------------------------------
(* Type invariant. *)
CliTypeOK ==
    /\ DOMAIN aliases \subseteq AliasNames
    /\ \A name \in DOMAIN aliases : aliases[name] \in AliasValues
    /\ ToSet(handlers) \subseteq Handlers
    /\ Len(stack) <= MaxDepth
    /\ \A x \in DOMAIN stack : /\ stack[x].pc \in {"statement", "expand", "handling"}
                               /\ x < Len(stack) => stack[x].pc = "handling"
                               /\ stack[x].expansions \in 0 .. MaxExpansions
    /\ arrays \in Nat /\ leaked \in Nat
    /\ result \in {0, -1} \cup HandlerResults

(* Every argument array is freed once the statement is over, however it     *)
(* ends and however deep lines are nested; only the empty expansion of an   *)
(* alias leaks one.                                                         *)
ArgvBalance ==
    arrays = leaked + Cardinality({x \in DOMAIN stack : stack[x].parsed})

(* The command at the end of a chain of aliases, each name being the first  *)
(* word of the value before.                                                *)
ChainEnd(name) ==
    LET chain[n \in 0 .. MaxExpansions] ==
            IF n = 0 THEN name
            ELSE Only({IF before \in DOMAIN aliases THEN Words(aliases[before])[1] ELSE before :
                          before \in {chain[n - 1]}})
    IN  chain[MaxExpansions]

(* What a handler gets is what the statement says.  The command is the one  *)
(* at the end of the chain of aliases (an empty value makes a command of    *)
(* its first argument), never one that is still an alias, and it is argv[0].*)
(* The words are those after the name; if the name is an alias whose value  *)
(* begins with no other, the words of its value come in its place; and      *)
(* however long the chain is, argv ends with the words of the statement, in *)
(* their order.  (What comes before them after two aliases is wrong:        *)
(* parsed_argv begins with the name being expanded then, and "Reconstruct   *)
(* full command line with expanded alias", cli_parser.c:441, appends it to  *)
(* its own value.)  Values are meant that end neither inside a quote nor    *)
(* with a backslash, which go on in the arguments, and, where they are read *)
(* again, words that need no quotes.                                        *)
Ended(value) == ~LexFails(value) /\ ~Scan(value).escaped
ReadAgain(words) == Words(Expanded(<<>>, words)) = words
Unquoted(words) == ReadAgain(words) /\ Ended(Expanded(<<>>, words))
PlainAliases == \A name \in DOMAIN aliases :
                    Ended(aliases[name]) /\ Unquoted(Words(aliases[name]))
EndsWith(s, t) == \E n \in 0 .. Len(s) : s = SubSeq(s, 1, n) \o t
AsWritten ==
    LET command == Top.redir.command
        args == Words(CommandArgs(command))
    IN  /\ Top.name \notin DOMAIN aliases /\ Top.argv[1] = Top.name
        /\ (\A name \in DOMAIN aliases :
                Words(aliases[name]) # <<>> /\ Ended(aliases[name]))
               => Top.name = ChainEnd(CommandName(command))
        /\ Top.expansions = 0 => Top.argv = <<CommandName(command)>> \o args
        /\ Top.expansions = 1 /\ ReadAgain(args) /\ Ended(aliases[CommandName(command)]) =>
               Top.argv = Words(aliases[CommandName(command)]) \o args
        /\ PlainAliases /\ ReadAgain(args) => EndsWith(Top.argv, args)
ArgvAsWritten == [][Dispatch => AsWritten]_cliVars

(* What may be written for an operator: nothing, or the operator with a     *)
(* space on any of its sides or on none, and the name of a file.            *)
Spaced(op) == Append(Around(op), op)
Redirected(op, file, form) == IF file = <<>> THEN <<>> ELSE Spaced(op)[form] \o file[1]
Optional == {<<>>} \cup {<<file>> : file \in FileNames}
Ways(op) == {[as |-> Redirected(op, file, form), file |-> file] :
                file \in Optional, form \in 1 .. 4}
PipeWays == Ways(<<"|">>)
InputWays == Ways(<<"<">>)
OutputWays == {[way |-> w, append |-> FALSE] : w \in Ways(<<">">>)}
              \cup {[way |-> w, append |-> TRUE] : w \in {v \in Ways(AppendTo) : v.file # <<>>}}

(* The pipe, the input and the output of a command, in this order, each     *)
(* with any spacing, are told apart, and a command in which there is no     *)
(* operator is returned as it stands.  Other orders are misread: each       *)
(* operator takes all that is behind it, so that "c > f | g" has the output *)
(* "f | g", though cli_parser.h:20-22 knows no order.                       *)
Plain(c) == c # <<>> /\ c[Len(c)] # Space /\ ToSet(c) \cap {"|", "<", ">"} = {}
Beginnings(s) == {SubSeq(s, 1, n) : n \in 1 .. Len(s)}
Reads(redir, c, pipe, input, output) ==
    redir = [command |-> c, pipe |-> pipe.file, input |-> input.file,
             output |-> output.way.file, append |-> output.append]
RedirectionsToldApart ==
    \A x \in DOMAIN stack :
        stack[x].pc = "expand" /\ stack[x].expansions = 0 =>
        \A c \in {stack[x].redir.command} \cup {b \in Beginnings(stack[x].text) : Plain(b)},
           pipe \in PipeWays, input \in InputWays, output \in OutputWays :
            stack[x].text = c \o pipe.as \o input.as \o output.way.as
            => Reads(stack[x].redir, c, pipe, input, output)

(* parse_line returns: circular aliases are given up.                       *)
LineReturns == [](stack # <<>> => <>(stack = <<>> \/ overrun))

(* "Max 64 args + command name" (cli_parser.c:407): as many arguments as    *)
(* cmd_argv has room for beside the name are within its bounds.             *)
MaxArgsFit == overrun => Len(Top.argv) > ArgvSlots
=============================================================================
