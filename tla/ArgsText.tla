------------------------------ MODULE ArgsText ------------------------------
(***************************************************************************)
(* The text functions of src/src/bas/cli/args.c: splitting a command line  *)
(* into words, and the brace and wildcard patterns a word may hold.  Lines *)
(* and words are sequences of characters.                                  *)
(***************************************************************************)
EXTENDS Integers, SequencesExt

CONSTANT Quotes     \* the quote characters ' and "

ASSUME QuotesAssumption == Quotes \subseteq {"'", "\""}

Space == " "
Backslash == "\\"
Open == "{"
Close == "}"
Comma == ","
Star == "*"         \* stands for every wildcard character: *, ? and [

-----------------------------------------------------------------------------
(* The element of a singleton.  Only({e(x) : x \in {v}}) is e(v), and makes *)
(* TLC evaluate v once.                                                     *)
Only(S) == CHOOSE x \in S : TRUE

(* The state of the scanner: the finished words, the word being read, and   *)
(* whether it has begun, is after a backslash, or inside a quote.           *)
LexStart == [words |-> <<>>, cur |-> <<>>, inWord |-> FALSE, escaped |-> FALSE, quote |-> ""]

Take(s, ch) == [s EXCEPT !.cur = Append(@, ch), !.inWord = TRUE, !.escaped = FALSE]
Escaped(s) == [s EXCEPT !.escaped = TRUE, !.inWord = TRUE]
Opened(s, ch) == [s EXCEPT !.quote = ch, !.inWord = TRUE]
Closed(s) == [s EXCEPT !.quote = ""]
WordEnded(s) == [LexStart EXCEPT !.words = Append(s.words, s.cur)]

(* Faulty variant: a backslash is literal inside quotes. *)
LexStepLiteralBackslash(s, ch) ==
    IF s.quote # "" THEN IF ch = s.quote THEN Closed(s) ELSE Take(s, ch)
    ELSE IF s.escaped THEN Take(s, ch)
    ELSE IF ch = Backslash THEN Escaped(s)
    ELSE IF ch \in Quotes THEN Opened(s, ch)
    ELSE IF ch # Space THEN Take(s, ch)
    ELSE IF s.inWord THEN WordEnded(s) ELSE s

(* parse_arg and the first pass of args_parse, one character at a time.  A  *)
(* space that is neither escaped nor quoted ends a word.                    *)
LexStep(s, ch) ==
    IF s.escaped THEN Take(s, ch)
    ELSE IF ch = Backslash THEN Escaped(s)
    ELSE IF s.quote # "" THEN IF ch = s.quote THEN Closed(s) ELSE Take(s, ch)
    ELSE IF ch \in Quotes THEN Opened(s, ch)
    ELSE IF ch # Space THEN Take(s, ch)
    ELSE IF s.inWord THEN WordEnded(s) ELSE s

Scan(line) ==
    LET scan[n \in 0 .. Len(line)] ==
            IF n = 0 THEN LexStart
            ELSE Only({LexStep(s, line[n]) : s \in {scan[n - 1]}})
    IN  scan[Len(line)]

(* A quote left open is an error; a trailing backslash is dropped. *)
LexFails(line) == Scan(line).quote # ""
LexWords(line) == LET s == Scan(line)
                  IN  IF s.inWord THEN Append(s.words, s.cur) ELSE s.words

-----------------------------------------------------------------------------
(* contains_wildcard, contains_brace. *)
HasWildcard(word) == Contains(word, Star)
HasBrace(word) == Contains(word, Open)

(* The first position from `from' on where ch stands; 0 if there is none. *)
Find(word, ch, from) ==
    SelectInSeq([x \in DOMAIN word |-> IF x >= from THEN word[x] ELSE ""], LAMBDA c : c = ch)

(* The quote that is open after s. *)
OpenQuote(s) ==
    LET q[n \in 0 .. Len(s)] ==
            IF n = 0 THEN ""
            ELSE Only({IF o = "" /\ s[n] \in Quotes THEN s[n]
                       ELSE IF o = s[n] THEN "" ELSE o : o \in {q[n - 1]}})
    IN  q[Len(s)]

(* The items of a brace's content: split at commas outside quotes, leading  *)
(* spaces dropped, nothing after a trailing comma.                          *)
ItemStart(content, p) ==
    CHOOSE x \in p .. Len(content) + 1 :
        /\ x = Len(content) + 1 \/ content[x] # Space
        /\ \A y \in p .. x - 1 : content[y] = Space

EndsItem(content, first, x) ==
    content[x] = Comma /\ OpenQuote(SubSeq(content, first, x - 1)) = ""

ItemEnd(content, first) ==
    CHOOSE e \in first .. Len(content) + 1 :
        /\ e = Len(content) + 1 \/ EndsItem(content, first, e)
        /\ \A y \in first .. e - 1 : ~EndsItem(content, first, y)

BraceItems(content) ==
    LET n == Len(content)
        items[p \in 1 .. n + 1] ==
            LET first == ItemStart(content, p)
                end == ItemEnd(content, first)
            IN  IF first = n + 1 THEN <<>>
                ELSE <<SubSeq(content, first, end - 1)>>
                     \o (IF end = n + 1 THEN <<>> ELSE items[end + 1])
    IN  items[1]

(* expand_brace: the first { and the first } after it; no recursion. *)
ExpandBrace(word) ==
    LET open == Find(word, Open, 1)
        close == Find(word, Close, open)
        prefix == SubSeq(word, 1, open - 1)
        suffix == SubSeq(word, close + 1, Len(word))
    IN  IF open = 0 \/ close = 0 THEN <<>>
        ELSE LET items == BraceItems(SubSeq(word, open + 1, close - 1))
             IN  [x \in DOMAIN items |-> prefix \o items[x] \o suffix]

(* fnmatch(3) on patterns with *. *)
FnMatch(pattern, name) ==
    LET m[p \in 1 .. Len(pattern) + 1, x \in 1 .. Len(name) + 1] ==
            IF p = Len(pattern) + 1 THEN x = Len(name) + 1
            ELSE IF pattern[p] = Star
            THEN m[p + 1, x] \/ (x <= Len(name) /\ m[p, x + 1])
            ELSE x <= Len(name) /\ pattern[p] = name[x] /\ m[p + 1, x + 1]
    IN  m[1, 1]

(* The names of a directory listing that match, in the listing's order.     *)
Matches(pattern, listing) ==
    FlattenSeq([x \in DOMAIN listing |->
                   IF FnMatch(pattern, listing[x]) THEN <<listing[x]>> ELSE <<>>])

(* How a caller writes words so that they are read back unchanged. *)
Quote(word, q) ==
    <<q>> \o FlattenSeq([x \in DOMAIN word |->
                IF word[x] \in {q, Backslash} THEN <<Backslash, word[x]>> ELSE <<word[x]>>])
          \o <<q>>
QuoteAll(words, q) ==
    FlattenSeq([x \in DOMAIN words |-> Quote(words[x], q) \o <<Space>>])
=============================================================================
