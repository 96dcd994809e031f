----------------------------- MODULE OptParser -----------------------------
(***************************************************************************)
(* opt_parse_long of src/src/bas/cli/opt_parser.c: the state it carries    *)
(* from call to call through the words of argv, against the options a      *)
(* reader of the whole command line would see.                             *)
(*                                                                         *)
(* argv is what follows the program name: argv[optind] is the same word    *)
(* here and in C.  A word is its kind and what matters of its text: the    *)
(* letters of a cluster -abc, the name of --name or --name=value.          *)
(***************************************************************************)
EXTENDS Integers, Sequences, SequencesExt

CONSTANTS
    Argv,       \* the argument vectors
    OptString,  \* optstring, as a sequence of letters
    LongOpt,    \* longopts: name -> [has_arg |-> 0 .. 2, flag |-> BOOLEAN]
    None

(* The words there may be: a cluster has a letter at least, "-" has none.   *)
ArgvWord == [is : {"operand", "dash", "dashdash"}]
            \cup [is : {"short"}, letters : Seq(STRING) \ {<<>>}]
            \cup [is : {"long"}, name : STRING, eq : BOOLEAN]

ASSUME OptAssumption ==
    /\ Argv \subseteq Seq(ArgvWord)
    /\ OptString \in Seq(STRING)
    /\ \A n \in DOMAIN LongOpt :
          LongOpt[n].has_arg \in 0 .. 2 /\ LongOpt[n].flag \in BOOLEAN

VARIABLES
    argv,        \* what is parsed
    optind, optopt, optarg, shortPos, currentArg,  \* opt_parser_t
    flags,       \* the options whose flag variable has been set
    returned,    \* what the calls have returned, with the optarg of each
    done         \* the last call has returned -1

vars == <<argv, optind, optopt, optarg, shortPos, currentArg, flags, returned, done>>

(* opt_parser_init *)
Init ==
    /\ argv \in Argv
    /\ optind = 1 /\ optopt = None /\ optarg = None
    /\ shortPos = 0 /\ currentArg = 0
    /\ flags = {} /\ returned = <<>> /\ done = FALSE

-----------------------------------------------------------------------------
(* find_short_option: -1, or how many colons follow the letter, up to 2.    *)
(* (A colon in optstring is found like a letter.)                           *)
ShortArg(c) ==
    LET i == SelectInSeq(OptString, LAMBDA x : x = c)
        Colon(k) == k <= Len(OptString) /\ OptString[k] = ":"
    IN  IF i = 0 THEN -1
        ELSE IF ~Colon(i + 1) THEN 0 ELSE IF ~Colon(i + 2) THEN 1 ELSE 2

Word == argv[optind]
AtWord(is) == ~done /\ optind <= Len(argv) /\ argv[optind].is = is

Returns(c) == returned' = Append(returned, [opt |-> c, arg |-> optarg'])
NoMore == done' = TRUE /\ optarg' = None /\ UNCHANGED <<optopt, flags, returned>>
Error(c) ==
    /\ optarg' = None /\ optopt' = c
    /\ Returns("?")
    /\ UNCHANGED <<argv, flags, done>>

(* On to the n-th word from here, with no cluster open. *)
SkipWords(n) == optind' = optind + n /\ currentArg' = 0 /\ shortPos' = 0

(* Each action is one call. *)
NoOption ==
    /\ \/ ~done /\ optind > Len(argv)
       \/ AtWord("operand")
    /\ NoMore
    /\ UNCHANGED <<argv, optind, shortPos, currentArg>>

(* "--" is read, and with it the last option. *)
LastOption ==
    /\ AtWord("dashdash")
    /\ NoMore
    /\ optind' = optind + 1
    /\ UNCHANGED <<argv, shortPos, currentArg>>

(* "-" begins like an option and is none: it falls through to the lines     *)
(* that "should not reach here".                                            *)
LoneDash ==
    /\ AtWord("dash")
    /\ NoMore
    /\ optind' = optind + 1
    /\ UNCHANGED <<argv, shortPos, currentArg>>

-----------------------------------------------------------------------------
(* Long options *)

KnownLong == AtWord("long") /\ Word.name \in DOMAIN LongOpt
HasArg == LongOpt[Word.name].has_arg
TakesNext == HasArg = 1 /\ ~Word.eq

LongUnknown ==
    /\ AtWord("long") /\ Word.name \notin DOMAIN LongOpt
    /\ Error(None)
    /\ optind' = optind + 1
    /\ UNCHANGED <<shortPos, currentArg>>

LongMissing ==
    /\ KnownLong /\ TakesNext /\ optind = Len(argv)
    /\ Error(None)
    /\ optind' = optind + 1
    /\ UNCHANGED <<shortPos, currentArg>>

LongOption ==
    /\ KnownLong /\ (TakesNext => optind < Len(argv))
    /\ optarg' = IF TakesNext THEN <<"word", optind + 1>>
                 ELSE IF Word.eq /\ HasArg # 0 THEN <<"value", optind>> ELSE None
    /\ optind' = IF TakesNext THEN optind + 2 ELSE optind + 1
    /\ flags' = IF LongOpt[Word.name].flag THEN flags \cup {Word.name} ELSE flags
    /\ Returns(IF LongOpt[Word.name].flag THEN "0" ELSE Word.name)
    /\ UNCHANGED <<argv, optopt, shortPos, currentArg, done>>

-----------------------------------------------------------------------------
(* Short options.  The cluster is new unless it is the one left open; it is *)
(* closed with its last letter (so that the branch that finds one at its    *)
(* end, opt_parser.c:152-158, is never taken: see TypeOK).                  *)

Pos == IF currentArg = optind THEN shortPos ELSE 1
Letter == Word.letters[Pos]
AtLast == Pos = Len(Word.letters)
AtShort(types) == AtWord("short") /\ ShortArg(Letter) \in types

NextLetter ==
    IF AtLast THEN SkipWords(1)
    ELSE optind' = optind /\ currentArg' = optind /\ shortPos' = Pos + 1

ShortUnknown ==
    /\ AtShort({-1})
    /\ Error(Letter)
    /\ NextLetter

ShortPlain ==
    /\ AtShort({0}) \/ (AtShort({2}) /\ AtLast)
    /\ optarg' = None
    /\ NextLetter
    /\ Returns(Letter)
    /\ UNCHANGED <<argv, optopt, flags, done>>

ShortRestIn(word) ==
    /\ AtShort({1, 2}) /\ ~AtLast
    /\ optarg' = <<"rest", optind, Pos + 1>>
    /\ word
    /\ Returns(Letter)
    /\ UNCHANGED <<argv, optopt, flags, done>>

(* Faulty variant: the rest of the cluster is read as options, too. *)
ShortRestStays == ShortRestIn(NextLetter)

ShortRest == ShortRestIn(SkipWords(1))

(* The next word is the argument, if there is one. *)
TakeNextWord ==
    /\ AtShort({1}) /\ AtLast
    /\ optarg' = <<"word", optind + 1>>
    /\ SkipWords(2)
    /\ Returns(Letter)
    /\ UNCHANGED <<argv, optopt, flags, done>>

ShortNextWord == optind < Len(argv) /\ TakeNextWord

ShortMissing ==
    /\ AtShort({1}) /\ AtLast /\ optind = Len(argv)
    /\ Error(Letter)
    /\ SkipWords(1)

Next ==
    \/ NoOption \/ LastOption \/ LoneDash
    \/ LongUnknown \/ LongMissing \/ LongOption
    \/ ShortUnknown \/ ShortPlain \/ ShortRest \/ ShortNextWord \/ ShortMissing

Spec == Init /\ [][Next]_vars

-----------------------------------------------------------------------------
(* What a reader sees in the whole of a command line v *)

(* In a cluster, the first letter that has an argument takes the rest of it *)
(* or, if it is the last and needs one, the next word.                      *)
ArgAt(letters) == SelectInSeq(letters, LAMBDA c : ShortArg(c) \in {1, 2})
PlainLetters(letters, n) ==
    [p \in 1 .. n |->
        [opt |-> IF ShortArg(letters[p]) = -1 THEN "?" ELSE letters[p], arg |-> None]]

Taken(v, i, name, needs) ==
    IF ~needs THEN [opts |-> <<[opt |-> name, arg |-> None]>>, words |-> 1]
    ELSE IF i < Len(v)
    THEN [opts |-> <<[opt |-> name, arg |-> <<"word", i + 1>>]>>, words |-> 2]
    ELSE [opts |-> <<[opt |-> "?", arg |-> None]>>, words |-> 1]

ReadCluster(v, i, letters) ==
    LET p == ArgAt(letters)
        c == letters[p]
        last == Taken(v, i, c, ShortArg(c) = 1)
    IN  IF p = 0
        THEN [opts |-> PlainLetters(letters, Len(letters)), words |-> 1]
        ELSE IF p < Len(letters)
        THEN [opts |-> Append(PlainLetters(letters, p - 1),
                              [opt |-> c, arg |-> <<"rest", i, p + 1>>]),
              words |-> 1]
        ELSE [opts |-> PlainLetters(letters, p - 1) \o last.opts, words |-> last.words]

ReadLong(v, i, w) ==
    IF w.name \notin DOMAIN LongOpt
    THEN [opts |-> <<[opt |-> "?", arg |-> None]>>, words |-> 1]
    ELSE LET o == LongOpt[w.name]
             name == IF o.flag THEN "0" ELSE w.name
         IN  IF w.eq /\ o.has_arg > 0
             THEN [opts |-> <<[opt |-> name, arg |-> <<"value", i>>]>>, words |-> 1]
             ELSE Taken(v, i, name, o.has_arg = 1)

(* A lone "-" is an operand: it names the standard input.                   *)
Stops(v, i) == i > Len(v) \/ v[i].is \in {"operand", "dash"}
Ends(v, i) == v[i].is = "dashdash"
ReadWord(v, i) == IF v[i].is = "long" THEN ReadLong(v, i, v[i])
               ELSE ReadCluster(v, i, v[i].letters)

(* The options from each word on, and where the operands start. *)
Read(v) ==
    LET read[i \in Nat \ {0}] ==
            IF Stops(v, i) THEN [opts |-> <<>>, first |-> i]
            ELSE IF Ends(v, i) THEN [opts |-> <<>>, first |-> i + 1]
            ELSE LET rest == read[i + ReadWord(v, i).words]
                 IN  [opts |-> ReadWord(v, i).opts \o rest.opts, first |-> rest.first]
    IN  read

-----------------------------------------------------------------------------
(* Type invariant: optind stays in argv or just behind it, and an open      *)
(* cluster is the word at optind with a letter left to read.                *)
TypeOK ==
    /\ optind \in 1 .. Len(argv) + 1
    /\ currentArg \in {0, optind}
    /\ IF currentArg = 0 THEN shortPos = 0
       ELSE Word.is = "short" /\ shortPos \in 2 .. Len(Word.letters)
    /\ \A k \in DOMAIN returned : returned[k].arg = None
          \/ returned[k].arg[2] \in DOMAIN argv
    /\ flags \subseteq DOMAIN LongOpt
    /\ done \in BOOLEAN

(* The calls return the options that are written in argv, each once, in     *)
(* order, with its own argument, and -1 after the last, with optind at the  *)
(* first operand: whatever clusters, arguments that look like options,      *)
(* missing arguments and unknown options precede.  (Nothing else is ever    *)
(* returned, so that a loop over the options comes to its end.)  One        *)
(* operand is excepted: a lone "-" that is the first of them may be stepped *)
(* over (opt_parser.c:220-222), although opt_parser.h:61 says "Non-option   *)
(* arguments start at parser.optind".                                       *)
SteppedOver(i) == i \in DOMAIN argv /\ argv[i].is = "dash" /\ optind = i + 1
ReadsAsWritten ==
    LET reading == Read(argv)[1]
    IN  /\ IsPrefix(returned, reading.opts)
        /\ done => /\ returned = reading.opts
                   /\ optind = reading.first \/ SteppedOver(reading.first)

=============================================================================
