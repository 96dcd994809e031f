-------------------------------- MODULE Args --------------------------------
(***************************************************************************)
(* args_parse of src/src/bas/cli/args.c: a command line becomes an argv    *)
(* whose strings the caller owns, or by args_parse_to_list a list of copies*)
(* of them.  Words are expanded, braces first, then wildcards, and every   *)
(* string passes from one array to the next, so that the interesting part  *)
(* is who frees what when an allocation fails.                             *)
(*                                                                         *)
(* Each heap object has a name: <<"raw", i>> is the i-th word,             *)
(* <<"brace", i, j>> its j-th brace expansion, <<"match", i, j, k>> the    *)
(* k-th file matching that expansion (j = 0: matching the word itself).    *)
(***************************************************************************)
EXTENDS ArgsText

CONSTANTS
    Lines,            \* command lines
    Listing,          \* the names enum_func offers, in order
    Enumerates,       \* FALSE: enum_func is NULL
    InitialCapacity,  \* ARGS_INITIAL_CAPACITY
    FailSite          \* where an allocation may fail

Site == {"first_pass", "brace", "brace_later", "match_list", "matches",
         "grow", "grow_moved", "terminator", "list"}

ASSUME ArgsAssumption ==
    /\ Lines \subseteq Seq(STRING)
    /\ Listing \in Seq(Seq(STRING))
    /\ InitialCapacity \in Nat \ {0}
    /\ Enumerates \in BOOLEAN
    /\ FailSite \subseteq Site

VARIABLES
    line, pc,
    raw,        \* raw_args: the words of the line
    i,          \* the word being expanded
    items, j,   \* its brace expansions, if any, and the one being added
    matches, k, \* its matching files, if any, and the one being added
    args,       \* args: the objects put there, with their text
    capacity,   \* of args
    list,       \* of args_parse_to_list: the texts copied
    live,       \* objects allocated and not freed
    doubleFree, \* an object was freed twice
    failed      \* the sites that failed in this call

vars == <<line, pc, raw, i, items, j, matches, k, args, capacity, list, live,
          doubleFree, failed>>

Raw(n) == <<"raw", n>>
Brace(n) == <<"brace", i, n>>
Match(n) == <<"match", i, j, n>>
RawArray == <<"raw_args">>
BraceArray == <<"brace_expansions">>
MatchArray == <<"matches">>
ArgArray == <<"args">>
List == <<"list">>
ListItem(n) == <<"item", n>>
Found == <<"match_list">>
FoundName(n) == <<"found", n>>

Init ==
    /\ line \in Lines
    /\ pc = "start"
    /\ raw = <<>> /\ i = 1
    /\ items = <<>> /\ j = 0
    /\ matches = <<>> /\ k = 0
    /\ args = <<>> /\ list = <<>>
    /\ capacity = InitialCapacity
    /\ live = {}
    /\ doubleFree = FALSE
    /\ failed = {}

Fails(site) == site \in FailSite /\ failed' = failed \cup {site}

(* free() of a sequence of objects, one after the other; and what a function *)
(* does that also allocated the objects in new.                              *)
AllocFree(new, objs) ==
    /\ live' = (live \cup new) \ ToSet(objs)
    /\ doubleFree' = (doubleFree \/ ~IsInjective(objs) \/ ~(ToSet(objs) \subseteq live \cup new))
Free(objs) == AllocFree({}, objs)

(* free() aborts the program when it notices. *)
Leave(to) == pc' = IF doubleFree' THEN "aborted" ELSE to

-----------------------------------------------------------------------------
(* First pass: the words are read one by one.  An open quote is found after *)
(* all the others.                                                          *)
Readable == IF LexFails(line) THEN Scan(line).words ELSE LexWords(line)

AllocArrays ==
    /\ pc \in {"start", "alloc_raw"}
    /\ IF pc = "start" THEN pc' = "alloc_raw" /\ live' = live \cup {ArgArray}
       ELSE pc' = "read" /\ live' = live \cup {RawArray}
    /\ UNCHANGED <<line, list, raw, i, items, j, matches, k, args, capacity, doubleFree,
                   failed>>

ReadWord ==
    /\ pc = "read" /\ Len(raw) < Len(Readable)
    /\ raw' = Append(raw, Readable[Len(raw) + 1])
    /\ live' = live \cup {Raw(Len(raw'))}
    /\ UNCHANGED <<line, pc, list, i, items, j, matches, k, args, capacity, doubleFree,
                   failed>>

ReadDone ==
    /\ pc = "read" /\ ~LexFails(line) /\ Len(raw) = Len(Readable)
    /\ pc' = "word"
    /\ UNCHANGED <<line, list, raw, i, items, j, matches, k, args, capacity, live,
                   doubleFree, failed>>

(* An open quote, or no memory for a word or for one of the arrays. *)
FirstPassFails ==
    /\ \/ /\ pc = "read" /\ LexFails(line) /\ Len(raw) = Len(Readable)
          /\ UNCHANGED failed
       \/ /\ pc \in {"start", "alloc_raw"} \/ (pc = "read" /\ Len(raw) < Len(LexWords(line)))
          /\ Fails("first_pass")
    /\ Free(CASE pc = "start" -> <<>>
              [] pc = "alloc_raw" -> <<ArgArray>>
              [] pc = "read" -> [x \in DOMAIN raw |-> Raw(x)] \o <<RawArray>> \o <<ArgArray>>)
    /\ Leave("error")
    /\ UNCHANGED <<line, list, raw, i, items, j, matches, k, args, capacity>>

(* The text being added: the word or one of its brace expansions. *)
Current == IF items = <<>> THEN raw[i] ELSE items[j]
CurrentObj == IF items = <<>> THEN Raw(i) ELSE Brace(j)

ExpandWord ==
    /\ pc = "word" /\ i <= Len(raw)
    /\ LET expansions == IF HasBrace(raw[i]) THEN ExpandBrace(raw[i]) ELSE <<>>
       IN  /\ items' = expansions
           /\ j' = IF expansions = <<>> THEN 0 ELSE 1
           /\ live' = IF expansions = <<>> THEN live
                      ELSE live \cup {BraceArray} \cup {Brace(n) : n \in DOMAIN expansions}
    /\ pc' = "wildcard"
    /\ UNCHANGED <<line, list, raw, i, matches, k, args, capacity, doubleFree, failed>>

(* expand_brace runs out of memory after n items: it frees them and the      *)
(* array, and args_parse frees both again because the pointer is still set.  *)
(* Before the first item there is nothing to free, and the word goes on.     *)
ExpandBraceFails ==
    /\ pc = "word" /\ i <= Len(raw)
    /\ HasBrace(raw[i])
    /\ \E n \in 0 .. Len(ExpandBrace(raw[i])) - 1 :
          LET expansions == [x \in 1 .. n |-> Brace(x)]
              once == IF n = 0 THEN <<>> ELSE expansions \o <<BraceArray>>
          IN  /\ Fails(IF n = 0 THEN "brace" ELSE "brace_later")
              /\ AllocFree(ToSet(once), once \o once)
    /\ Leave("wildcard")
    /\ items' = <<>> /\ j' = 0
    /\ UNCHANGED <<line, list, raw, i, matches, k, args, capacity>>

(* The list that expand_wildcard collects n names in, as it is freed. *)
FoundList(n) == [x \in 1 .. n |-> FoundName(x)] \o <<Found>>
Copies(n) == [x \in 1 .. n |-> Match(x)]

AllMatches ==
    IF HasWildcard(Current) /\ Enumerates THEN Matches(Current, Listing) ELSE <<>>

(* expand_wildcard: no match and a NULL enum_func keep the pattern.  When   *)
(* string_list_append fails the enumeration is cut short, and the names     *)
(* found so far are taken for all.                                          *)
ExpandWildcard ==
    /\ pc = "wildcard"
    /\ \E n \in 0 .. Len(AllMatches) :
          /\ IF n = Len(AllMatches) THEN UNCHANGED failed ELSE Fails("match_list")
          /\ matches' = SubSeq(AllMatches, 1, n)
          /\ k' = IF n = 0 THEN 0 ELSE 1
          /\ AllocFree(ToSet(FoundList(n))
                         \cup (IF n = 0 THEN {} ELSE {MatchArray} \cup ToSet(Copies(n))),
                       FoundList(n))
          /\ pc' = IF n = 0 THEN "keep" ELSE "match"
    /\ UNCHANGED <<line, list, raw, i, items, j, args, capacity>>

(* No memory for the list (n = 0) or, with n names in it, for their array or *)
(* after m copies: all is freed, and the pattern is kept.                    *)
ExpandWildcardFails ==
    /\ pc = "wildcard" /\ HasWildcard(Current) /\ Enumerates
    /\ Fails("matches")
    /\ \E n \in 0 .. Len(AllMatches), array \in BOOLEAN :
          \E m \in 0 .. IF array THEN n - 1 ELSE 0 :
             LET freed == (IF array THEN Copies(m) \o <<MatchArray>> ELSE <<>>)
                          \o (IF n = 0 THEN <<>> ELSE FoundList(n))
             IN  AllocFree(ToSet(freed), freed)
    /\ Leave("keep")
    /\ UNCHANGED <<line, list, raw, i, items, j, matches, k, args, capacity>>

-----------------------------------------------------------------------------
(* Faulty variant: args stays as it is. *)
GrownNever == capacity

(* Growing args before one more string is added. *)
Grown == IF Len(args) >= capacity THEN 2 * capacity ELSE capacity

Push(obj, text) == args' = Append(args, [obj |-> obj, text |-> text]) /\ capacity' = Grown

(* What happens once Current has been added: on to the next expansion, or   *)
(* free the array of expansions and the word they replace.                  *)
NextItem(freed) ==
    IF j < Len(items)
    THEN /\ Free(freed)
         /\ j' = j + 1 /\ pc' = "wildcard"
         /\ UNCHANGED <<i, items>>
    ELSE /\ Free(freed \o (IF items = <<>> THEN <<>> ELSE <<BraceArray, Raw(i)>>))
         /\ i' = i + 1 /\ items' = <<>> /\ j' = 0 /\ pc' = "word"

(* Faulty variant: a brace expansion is added with the text of its word. *)
KeepWord ==
    /\ pc = "keep"
    /\ Push(CurrentObj, raw[i])
    /\ NextItem(<<>>)
    /\ UNCHANGED <<line, list, raw, matches, k, failed>>

(* No wildcard, no match, or a failed expansion: the text itself is added. *)
Keep ==
    /\ pc = "keep"
    /\ Push(CurrentObj, Current)
    /\ NextItem(<<>>)
    /\ UNCHANGED <<line, list, raw, matches, k, failed>>

(* Faulty variant: the strings are freed along with the array of matches. *)
PushMatchFreesStrings ==
    /\ pc = "match"
    /\ Push(Match(k), matches[k])
    /\ IF k < Len(matches)
       THEN /\ k' = k + 1
            /\ UNCHANGED <<pc, matches, i, items, j, live, doubleFree>>
       ELSE /\ NextItem(<<MatchArray>> \o [x \in DOMAIN matches |-> Match(x)])
            /\ matches' = <<>> /\ k' = 0
    /\ UNCHANGED <<line, list, raw, failed>>

(* The strings move from matches to args.  The brace expansion they replace *)
(* is freed; a word they replace is not.                                    *)
PushMatch ==
    /\ pc = "match"
    /\ Push(Match(k), matches[k])
    /\ IF k < Len(matches)
       THEN /\ k' = k + 1
            /\ UNCHANGED <<pc, matches, i, items, j, live, doubleFree>>
       ELSE /\ NextItem(<<MatchArray>> \o (IF items = <<>> THEN <<>> ELSE <<Brace(j)>>))
            /\ matches' = <<>> /\ k' = 0
    /\ UNCHANGED <<line, list, raw, failed>>

(* realloc of args fails: everything in the arrays is freed, wherever it    *)
(* went in the meantime; the word being expanded is not.                    *)
Abandoned ==
    (IF matches = <<>> THEN <<>> ELSE [x \in DOMAIN matches |-> Match(x)] \o <<MatchArray>>)
    \o (IF items = <<>> THEN <<>> ELSE [x \in DOMAIN items |-> Brace(x)] \o <<BraceArray>>)
    \o [x \in DOMAIN args |-> args[x].obj] \o <<ArgArray>>
    \o [x \in 1 .. Len(raw) - i |-> Raw(i + x)] \o <<RawArray>>

(* Has an expansion or a match of this word moved to args before? *)
GrowSite == IF j > 1 \/ k > 1 THEN "grow_moved" ELSE "grow"

GrowFails ==
    /\ pc \in {"keep", "match"}
    /\ Len(args) >= capacity
    /\ Fails(GrowSite)
    /\ Free(Abandoned)
    /\ Leave("error")
    /\ UNCHANGED <<line, list, raw, i, items, j, matches, k, args, capacity>>

-----------------------------------------------------------------------------
(* The terminating NULL needs a slot of its own. *)
Finish ==
    /\ pc = "word" /\ i > Len(raw)
    /\ capacity' = IF Len(args) >= capacity THEN capacity + 1 ELSE capacity
    /\ Free(<<RawArray>>)
    /\ pc' = "done"
    /\ UNCHANGED <<line, list, raw, i, items, j, matches, k, args, failed>>

(* Faulty variant: the words, now in args, are freed with raw_args. *)
FinishFailsTwice ==
    /\ pc = "word" /\ i > Len(raw)
    /\ Len(args) >= capacity
    /\ Fails("terminator")
    /\ Free([x \in DOMAIN raw |-> Raw(x)] \o <<RawArray>>
            \o [x \in DOMAIN args |-> args[x].obj] \o <<ArgArray>>)
    /\ pc' = "error"
    /\ UNCHANGED <<line, list, raw, i, items, j, matches, k, args, capacity>>

FinishFails ==
    /\ pc = "word" /\ i > Len(raw)
    /\ Len(args) >= capacity
    /\ Fails("terminator")
    /\ Free(<<RawArray>> \o [x \in DOMAIN args |-> args[x].obj] \o <<ArgArray>>)
    /\ pc' = "error"
    /\ UNCHANGED <<line, list, raw, i, items, j, matches, k, args, capacity>>

(* args_free by the caller. *)
Argv == [x \in DOMAIN args |-> args[x].obj] \o <<ArgArray>>
ArgsFree ==
    /\ pc = "done"
    /\ Free(Argv)
    /\ pc' = "freed"
    /\ UNCHANGED <<line, list, raw, i, items, j, matches, k, args, capacity, failed>>

(* args_parse_to_list goes on: it copies argv, string by string.            *)
ListCreate ==
    /\ pc = "done"
    /\ live' = live \cup {List}
    /\ pc' = "list"
    /\ UNCHANGED <<line, list, raw, i, items, j, matches, k, args, capacity, doubleFree,
                   failed>>

ListAdd ==
    /\ pc = "list" /\ Len(list) < Len(args)
    /\ list' = Append(list, args[Len(list) + 1].text)
    /\ live' = live \cup {ListItem(Len(list'))}
    /\ UNCHANGED <<line, pc, raw, i, items, j, matches, k, args, capacity, doubleFree,
                   failed>>

(* No memory for the list or for a copy. *)
ListFails ==
    /\ pc = "done" \/ (pc = "list" /\ Len(list) < Len(args))
    /\ Fails("list")
    /\ Free((IF pc = "list" THEN Append([x \in DOMAIN list |-> ListItem(x)], List)
             ELSE <<>>) \o Argv)
    /\ pc' = "freed"
    /\ UNCHANGED <<line, list, raw, i, items, j, matches, k, args, capacity>>

ListDone ==
    /\ pc = "list" /\ Len(list) = Len(args)
    /\ Free(Argv)
    /\ pc' = "listed"
    /\ UNCHANGED <<line, list, raw, i, items, j, matches, k, args, capacity, failed>>

Step ==
    \/ AllocArrays \/ ReadWord \/ ReadDone \/ FirstPassFails
    \/ ExpandWord \/ ExpandBraceFails \/ ExpandWildcard \/ ExpandWildcardFails
    \/ Keep \/ PushMatch \/ GrowFails \/ Finish \/ FinishFails \/ ArgsFree
    \/ ListCreate \/ ListAdd \/ ListFails \/ ListDone

Terminating == pc \in {"freed", "listed", "error", "aborted"} /\ UNCHANGED vars

Next == Step \/ Terminating

Spec == Init /\ [][Next]_vars
-----------------------------------------------------------------------------
(* Type invariant; args has a slot left for the terminating NULL in the end.*)
Objects == {Raw(n) : n \in DOMAIN raw} \cup {RawArray, BraceArray, MatchArray, ArgArray}
           \cup {o \in live : o[1] \in {"brace", "match"}}
           \cup {List} \cup {ListItem(n) : n \in DOMAIN list}
TypeOK ==
    /\ pc \in {"start", "alloc_raw", "read", "word", "wildcard", "keep", "match", "done", "freed",
               "list", "listed", "error", "aborted"}
    /\ i \in 1 .. Len(raw) + 1
    /\ j \in 0 .. Len(items)
    /\ k \in 0 .. Len(matches)
    /\ Len(args) <= capacity /\ (pc = "done" => Len(args) < capacity)
    /\ live \subseteq Objects
    /\ doubleFree \in BOOLEAN
    /\ failed \subseteq FailSite

(* The words read from a line can be written in quotes, with backslashes    *)
(* before quotes and backslashes, and are then read back exactly: spaces,   *)
(* quotes and empty words survive parse_arg.                                *)
QuotingRoundTrips ==
    pc = "word" /\ i = 1 =>
        \A q \in Quotes : /\ ~LexFails(QuoteAll(raw, q))
                          /\ LexWords(QuoteAll(raw, q)) = raw

(* No string and no array is freed twice, by any failure, by the caller's    *)
(* args_free or by the copy to a list, unless memory runs out in             *)
(* expand_brace after its first item, or for the growth of args when an      *)
(* expansion or a match of the same word has moved there already.            *)
NoDoubleFree == doubleFree => failed \cap {"brace_later", "grow_moved"} # {}

(* What args_parse returns can be freed as args.h says: every string is     *)
(* allocated, and is in argv once.  After args_free, which the failure of a *)
(* copy to a list must not miss, only words that a wildcard replaced are    *)
(* left over, which the comment "strings are now in args or freed"          *)
(* (args.c:793) forgets: brace expansions, matches and arrays are all       *)
(* accounted for.  A complete list keeps its own copies and nothing else.   *)
(* An error leaves as little: those words, and the one that was being       *)
(* expanded when args could not grow.                                       *)
ReplacedWords ==
    {Raw(n) : n \in {m \in DOMAIN raw : /\ m < i /\ HasWildcard(raw[m])
                                        /\ \A x \in DOMAIN args : args[x].obj # Raw(m)}}
ArgvOwned ==
    /\ pc \in {"done", "list"} => IsInjective(Argv) /\ ToSet(Argv) \subseteq live
    /\ pc = "freed" => live \subseteq ReplacedWords
    /\ pc = "listed" =>
          live \ ReplacedWords = {List} \cup {ListItem(n) : n \in DOMAIN list}
    /\ pc = "error" =>
          live \subseteq ReplacedWords
              \cup (IF failed \cap {"grow", "grow_moved"} # {} THEN {Raw(i)} ELSE {})

(* argv is the words in order, each replaced by its brace expansions in     *)
(* order, each of those by the matching names, or kept if none matches.  An *)
(* expansion that fails for lack of memory never swallows a word: it still  *)
(* stands in argv, itself or as an expansion of it.  A list is a copy.      *)
Expansions(word) == LET e == ExpandBrace(word) IN IF e = <<>> THEN <<word>> ELSE e
Names(word) ==
    LET m == IF HasWildcard(word) /\ Enumerates THEN Matches(word, Listing) ELSE <<>>
    IN  IF m = <<>> THEN <<word>> ELSE m
EachOf(Op(_), seq) == FlattenSeq([x \in DOMAIN seq |-> Op(seq[x])])
ArgvInOrder ==
    /\ pc = "done" =>
        /\ failed = {} => [x \in DOMAIN args |-> args[x].text] =
                              EachOf(Names, EachOf(Expansions, LexWords(line)))
        /\ \A n \in DOMAIN raw : \E x \in DOMAIN args : args[x].obj[2] = n
    /\ pc = "listed" => list = [x \in DOMAIN args |-> args[x].text]

(* "Inside quotes - wildcards are literal inside quotes" (args.c:409). *)
QuotedWildcardsLiteral ==
    pc = "done" =>
        \A ws \in {<<w>> : w \in BoundedSeq({"a", Star}, 2)}, q \in Quotes :
            line = QuoteAll(ws, q) => [x \in DOMAIN args |-> args[x].text] = ws

=============================================================================
