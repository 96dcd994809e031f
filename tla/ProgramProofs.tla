--------------------------- MODULE ProgramProofs ---------------------------
(***************************************************************************)
(* What a program of bas-c reads: its options, and then its files.         *)
(*                                                                         *)
(* opt_parse_long returns the options that are written in argv, for every  *)
(* argv, every optstring and every table of long options.                  *)
(*                                                                         *)
(* process_files loads files whole and reports failures, for files of any  *)
(* length, any space left free around them, any block size and width of    *)
(* size_t, and any lists of names.                                         *)
(***************************************************************************)
EXTENDS OptParser, ProcessFiles, SequenceLemmas

(***************************************************************************)
(* opt_parse_long                                                          *)
(***************************************************************************)
(* What a call may return. *)
Given == {None} \cup ({"word", "value"} \X Nat) \cup ({"rest"} \X Nat \X Nat)
Name == STRING \cup {"?", "0"}
Option == [opt : Name, arg : Given]
Readings == [opts : Seq(Option), first : Nat]

LEMMA WordIs ==
    ASSUME NEW v \in Seq(ArgvWord), NEW i \in 1 .. Len(v)
    PROVE  /\ v[i].is \in {"operand", "dash", "dashdash", "short", "long"}
           /\ v[i].is = "short" => /\ v[i].letters \in Seq(STRING)
                                      /\ Len(v[i].letters) \in Nat \ {0}
           /\ v[i].is = "long" => v[i].name \in STRING /\ v[i].eq \in BOOLEAN
<1>1. v[i] \in ArgvWord
  OBVIOUS
<1>2. CASE v[i] \in [is : {"operand", "dash", "dashdash"}]
  BY <1>2
<1>3. CASE v[i] \in [is : {"short"}, letters : Seq(STRING) \ {<<>>}]
  <2>1. v[i].is = "short" /\ v[i].letters \in Seq(STRING) /\ v[i].letters # <<>>
    BY <1>3
  <2>2. Len(v[i].letters) \in Nat /\ Len(v[i].letters) # 0
    BY <2>1
  <2> QED
    BY <2>1, <2>2
<1>4. CASE v[i] \in [is : {"long"}, name : STRING, eq : BOOLEAN]
  BY <1>4
<1> QED
  BY <1>1, <1>2, <1>3, <1>4 DEF ArgvWord

LEMMA ShortArgIs == ASSUME NEW c PROVE ShortArg(c) \in {-1, 0, 1, 2}
  BY DEF ShortArg

(* The first letter with an argument, if any. *)
LEMMA ArgAtIs ==
    ASSUME NEW letters \in Seq(STRING)
    PROVE  /\ ArgAt(letters) \in 0 .. Len(letters)
           /\ ArgAt(letters) # 0 => ShortArg(letters[ArgAt(letters)]) \in {1, 2}
           /\ \A q \in 1 .. Len(letters) :
                 ArgAt(letters) = 0 \/ q < ArgAt(letters) => ShortArg(letters[q]) \notin {1, 2}
<1> DEFINE I == {q \in 1 .. Len(letters) : ShortArg(letters[q]) \in {1, 2}}
<1>1. ArgAt(letters) = IF I # {} THEN Min(I) ELSE 0
  BY Zenon DEF ArgAt, SelectInSeq
<1>2. I \in SUBSET Nat /\ Len(letters) \in Nat
  OBVIOUS
<1>3. CASE I = {}
  <2>1. ArgAt(letters) = 0
    BY <1>1, <1>3
  <2>2. ASSUME NEW q \in 1 .. Len(letters) PROVE ShortArg(letters[q]) \notin {1, 2}
    BY <1>3
  <2> QED
    BY <1>2, <2>1, <2>2
<1>4. CASE I # {}
  <2>1. ArgAt(letters) = CHOOSE x \in I : \A y \in I : x <= y
    BY <1>1, <1>4 DEF Min
  <2>2. \E x \in I : \A y \in I : x <= y
    <3> HIDE DEF I
    <3> QED
      BY <1>2, <1>4, LeastExists
  <2>3. ArgAt(letters) \in I /\ \A y \in I : ArgAt(letters) <= y
    <3> HIDE DEF I
    <3> QED
      BY <2>1, <2>2
  <2>4. ArgAt(letters) \in 1 .. Len(letters) /\ ShortArg(letters[ArgAt(letters)]) \in {1, 2}
    BY <2>3
  <2>5. ASSUME NEW q \in 1 .. Len(letters), q < ArgAt(letters)
        PROVE  ShortArg(letters[q]) \notin {1, 2}
    <3>1. q \notin I
      BY <1>2, <2>3, <2>4, <2>5
    <3> QED
      BY <3>1
  <2> QED
    BY <1>2, <2>4, <2>5
<1> QED
  BY <1>3, <1>4

(* In a cluster whose letters before p have no argument.                    *)
LEMMA ArgAtFrom ==
    ASSUME NEW letters \in Seq(STRING), NEW p \in 1 .. Len(letters),
           \A q \in 1 .. p - 1 : ShortArg(letters[q]) \notin {1, 2}
    PROVE  /\ ArgAt(letters) = 0 \/ p <= ArgAt(letters)
           /\ ShortArg(letters[p]) \in {1, 2} => ArgAt(letters) = p
           /\ ShortArg(letters[p]) \notin {1, 2} =>
                 /\ ArgAt(letters) # p
                 /\ p = Len(letters) => ArgAt(letters) = 0
<1>1. PICK a \in 0 .. Len(letters) : a = ArgAt(letters)
  BY ArgAtIs
<1>2. a # 0 => ShortArg(letters[a]) \in {1, 2}
  BY <1>1, ArgAtIs
<1>3. \A q \in 1 .. Len(letters) : a = 0 \/ q < a => ShortArg(letters[q]) \notin {1, 2}
  BY <1>1, ArgAtIs
<1>4. Len(letters) \in Nat
  OBVIOUS
<1>5. a = 0 \/ p <= a
  <2>1. a # 0 /\ a < p => a \in 1 .. p - 1
    BY <1>4
  <2> QED
    BY <1>2, <1>4, <2>1
<1>6. ShortArg(letters[p]) \in {1, 2} => a = p
  BY <1>3, <1>4, <1>5
<1>7. ShortArg(letters[p]) \notin {1, 2} => a # p
  BY <1>2
<1> QED
  BY <1>1, <1>4, <1>5, <1>6, <1>7

PlainOpt(c) == [opt |-> IF ShortArg(c) = -1 THEN "?" ELSE c, arg |-> None]

LEMMA PlainLettersAre ==
    ASSUME NEW letters \in Seq(STRING), NEW n \in 0 .. Len(letters)
    PROVE  /\ PlainLetters(letters, n) \in Seq(Option)
           /\ Len(PlainLetters(letters, n)) = n
           /\ \A q \in 1 .. n : PlainLetters(letters, n)[q] = PlainOpt(letters[q])
<1>1. n \in Nat /\ Len(letters) \in Nat
  OBVIOUS
<1>2. PlainLetters(letters, n) = [q \in 1 .. n |-> PlainOpt(letters[q])]
  BY DEF PlainLetters, PlainOpt
<1>3. ASSUME NEW q \in 1 .. n PROVE PlainOpt(letters[q]) \in Option
  <2>1. q \in 1 .. Len(letters)
    BY <1>1
  <2>2. letters[q] \in STRING
    BY <2>1
  <2>3. (IF ShortArg(letters[q]) = -1 THEN "?" ELSE letters[q]) \in Name
    BY <2>2 DEF Name
  <2> QED
    BY <2>3 DEF PlainOpt, Option, Given
<1>4. [q \in 1 .. n |-> PlainOpt(letters[q])] \in [1 .. n -> Option]
  BY <1>3
<1> DEFINE s == [q \in 1 .. n |-> PlainOpt(letters[q])]
<1>5. s \in Seq(Option) /\ Len(s) = n
  <2> HIDE DEF s
  <2> QED
    BY <1>1, <1>4 DEF s
<1> QED
  BY <1>2, <1>5

(* A name that may take the next word.                                      *)
LEMMA TakenIs ==
    ASSUME NEW v, NEW i \in Nat, NEW name \in Name, NEW needs \in BOOLEAN
    PROVE  \E o \in Option : \E w \in {1, 2} :
              /\ Taken(v, i, name, needs) = [opts |-> <<o>>, words |-> w]
              /\ ~needs => o = [opt |-> name, arg |-> None] /\ w = 1
              /\ needs /\ i < Len(v) =>
                    o = [opt |-> name, arg |-> <<"word", i + 1>>] /\ w = 2
              /\ needs /\ ~(i < Len(v)) => o = [opt |-> "?", arg |-> None] /\ w = 1
<1>1. /\ [opt |-> name, arg |-> None] \in Option /\ [opt |-> "?", arg |-> None] \in Option
      /\ [opt |-> name, arg |-> <<"word", i + 1>>] \in Option
  <2>1. i + 1 \in Nat /\ "?" \in Name
    BY DEF Name
  <2>2. <<"word", i + 1>> \in {"word", "value"} \X Nat
    BY <2>1
  <2> QED
    BY <2>1, <2>2 DEF Option, Given
<1>2. CASE ~needs
  BY <1>1, <1>2 DEF Taken
<1>3. CASE needs /\ i < Len(v)
  BY <1>1, <1>3 DEF Taken
<1>4. CASE needs /\ ~(i < Len(v))
  BY <1>1, <1>4 DEF Taken
<1> QED
  BY <1>2, <1>3, <1>4

(* A cluster has one option for each letter, up to the first that has an    *)
(* argument.                                                                *)
ClusterReads(v, i, letters, n, opts, w) ==
    /\ ReadCluster(v, i, letters) = [opts |-> opts, words |-> w]
    /\ Len(opts) = n
    /\ n = IF ArgAt(letters) = 0 THEN Len(letters) ELSE ArgAt(letters)
    /\ \A q \in 1 .. n : q # ArgAt(letters) => opts[q] = PlainOpt(letters[q])
    /\ ArgAt(letters) = 0 => w = 1
    /\ ArgAt(letters) # 0 /\ ArgAt(letters) < Len(letters) =>
          /\ w = 1
          /\ opts[n] = [opt |-> letters[n], arg |-> <<"rest", i, n + 1>>]
    /\ ArgAt(letters) # 0 /\ ArgAt(letters) = Len(letters) =>
          Taken(v, i, letters[n], ShortArg(letters[n]) = 1) = [opts |-> <<opts[n]>>, words |-> w]

LEMMA ClusterIs ==
    ASSUME NEW v, NEW i \in Nat, NEW letters \in Seq(STRING)
    PROVE  \E n \in 0 .. Len(letters) : \E opts \in Seq(Option) : \E w \in {1, 2} :
              ClusterReads(v, i, letters, n, opts, w)
<1>1. PICK a \in 0 .. Len(letters) : a = ArgAt(letters)
  BY ArgAtIs
<1>2. Len(letters) \in Nat /\ a \in Nat
  OBVIOUS
<1>3. CASE a = 0
  <2>1. ReadCluster(v, i, letters) = [opts |-> PlainLetters(letters, Len(letters)), words |-> 1]
    BY <1>1, <1>3 DEF ReadCluster
  <2>2. /\ PlainLetters(letters, Len(letters)) \in Seq(Option)
        /\ Len(PlainLetters(letters, Len(letters))) = Len(letters)
        /\ \A q \in 1 .. Len(letters) :
              PlainLetters(letters, Len(letters))[q] = PlainOpt(letters[q])
    BY <1>2, PlainLettersAre
  <2>3. Len(letters) \in 0 .. Len(letters) /\ 1 \in {1, 2}
    BY <1>2
  <2>4. ClusterReads(v, i, letters, Len(letters), PlainLetters(letters, Len(letters)), 1)
    BY <1>1, <1>3, <2>1, <2>2 DEF ClusterReads
  <2> QED
    BY <2>2, <2>3, <2>4
<1>4. CASE a # 0
  <2>1. a \in 1 .. Len(letters) /\ a - 1 \in 0 .. Len(letters) /\ (a - 1) + 1 = a
    BY <1>2, <1>4
  <2>2. PICK before \in Seq(Option) :
           /\ before = PlainLetters(letters, a - 1) /\ Len(before) = a - 1
           /\ \A q \in 1 .. a - 1 : before[q] = PlainOpt(letters[q])
    BY <2>1, PlainLettersAre
  <2>3. letters[a] \in Name
    BY <2>1 DEF Name
  <2>4. ASSUME NEW o \in Option
        PROVE  /\ Append(before, o) \in Seq(Option) /\ Len(Append(before, o)) = a
               /\ Append(before, o)[a] = o
               /\ \A q \in 1 .. a : q # a => Append(before, o)[q] = PlainOpt(letters[q])
               /\ before \o <<o>> = Append(before, o)
    <3>1. Append(before, o) \in Seq(Option) /\ Len(Append(before, o)) = a
      BY <2>1, <2>2
    <3>2. Append(before, o)[a] = o
      BY <2>1, <2>2
    <3>3. ASSUME NEW q \in 1 .. a, q # a PROVE Append(before, o)[q] = PlainOpt(letters[q])
      <4>1. q \in 1 .. a - 1
        BY <2>1, <3>3
      <4> QED
        BY <2>2, <4>1
    <3>4. before \o <<o>> = Append(before, o)
      BY <2>2
    <3> QED
      BY <3>1, <3>2, <3>3, <3>4
  <2>5. CASE a < Len(letters)
    <3> DEFINE o == [opt |-> letters[a], arg |-> <<"rest", i, a + 1>>]
    <3>1. o \in Option
      BY <2>1, <2>3 DEF Option, Given
    <3>2. ReadCluster(v, i, letters) = [opts |-> Append(before, o), words |-> 1]
      BY <1>1, <1>4, <2>2, <2>5 DEF ReadCluster
    <3>3. /\ Append(before, o) \in Seq(Option) /\ Len(Append(before, o)) = a
          /\ Append(before, o)[a] = o
          /\ \A q \in 1 .. a : q # a => Append(before, o)[q] = PlainOpt(letters[q])
      BY <2>4, <3>1
    <3> HIDE DEF o
    <3>4. ClusterReads(v, i, letters, a, Append(before, o), 1)
      BY <1>1, <1>2, <1>4, <2>5, <3>2, <3>3 DEF ClusterReads, o
    <3> QED
      BY <3>3, <3>4
  <2>6. CASE a = Len(letters)
    <3>1. PICK o \in Option, w \in {1, 2} :
             Taken(v, i, letters[a], ShortArg(letters[a]) = 1) = [opts |-> <<o>>, words |-> w]
      BY <2>3, TakenIs
    <3>5. ReadCluster(v, i, letters)
             = [opts |-> before \o Taken(v, i, letters[a], ShortArg(letters[a]) = 1).opts,
                words |-> Taken(v, i, letters[a], ShortArg(letters[a]) = 1).words]
      BY <1>1, <1>2, <1>4, <2>2, <2>6 DEF ReadCluster
    <3>2. ReadCluster(v, i, letters) = [opts |-> before \o <<o>>, words |-> w]
      <4>1. /\ Taken(v, i, letters[a], ShortArg(letters[a]) = 1).opts = <<o>>
            /\ Taken(v, i, letters[a], ShortArg(letters[a]) = 1).words = w
        BY <3>1
      <4> QED
        BY <3>5, <4>1
    <3>3. /\ Append(before, o) \in Seq(Option) /\ Len(Append(before, o)) = a
          /\ Append(before, o)[a] = o /\ before \o <<o>> = Append(before, o)
          /\ \A q \in 1 .. a : q # a => Append(before, o)[q] = PlainOpt(letters[q])
      BY <2>4
    <3>6. PICK opts \in Seq(Option) : opts = Append(before, o)
      BY <3>3
    <3>7. /\ ReadCluster(v, i, letters) = [opts |-> opts, words |-> w]
          /\ Len(opts) = a /\ opts[a] = o
          /\ \A q \in 1 .. a : q # a => opts[q] = PlainOpt(letters[q])
      BY <3>2, <3>3, <3>6
    <3>8. Taken(v, i, letters[a], ShortArg(letters[a]) = 1) = [opts |-> <<opts[a]>>, words |-> w]
      BY <3>1, <3>7
    <3>4. ClusterReads(v, i, letters, a, opts, w)
      BY <1>1, <1>2, <1>4, <2>6, <3>7, <3>8 DEF ClusterReads
    <3> QED
      BY <3>3, <3>4
  <2> QED
    BY <1>2, <2>1, <2>5, <2>6
<1> QED
  BY <1>3, <1>4

(* A long option is one option. *)
LEMMA LongIs ==
    ASSUME NEW v \in Seq(ArgvWord), NEW i \in 1 .. Len(v), v[i].is = "long"
    PROVE  \E o \in Option : \E w \in {1, 2} :
              ReadLong(v, i, v[i]) = [opts |-> <<o>>, words |-> w]
<1>1. v[i].name \in STRING /\ v[i].eq \in BOOLEAN /\ i \in Nat
  BY WordIs
<1>2. CASE v[i].name \notin DOMAIN LongOpt
  <2>1. [opt |-> "?", arg |-> None] \in Option
    BY DEF Option, Name, Given
  <2> QED
    BY <1>2, <2>1 DEF ReadLong
<1>3. CASE v[i].name \in DOMAIN LongOpt
  <2> DEFINE o == LongOpt[v[i].name]
             name == IF o.flag THEN "0" ELSE v[i].name
  <2>1. name \in Name
    BY <1>1 DEF Name
  <2>2. CASE v[i].eq /\ o.has_arg > 0
    <3>1. [opt |-> name, arg |-> <<"value", i>>] \in Option
      BY <1>1, <2>1 DEF Option, Given
    <3>2. ReadLong(v, i, v[i])
             = [opts |-> <<[opt |-> name, arg |-> <<"value", i>>]>>, words |-> 1]
      BY <1>3, <2>2 DEF ReadLong
    <3> QED
      BY <3>1, <3>2
  <2>3. CASE ~(v[i].eq /\ o.has_arg > 0)
    <3>1. ReadLong(v, i, v[i]) = Taken(v, i, name, o.has_arg = 1)
      BY <1>3, <2>3 DEF ReadLong
    <3> DEFINE needs == o.has_arg = 1
    <3>2. needs \in BOOLEAN
      OBVIOUS
    <3> HIDE DEF o, name, needs
    <3>3. \E p \in Option : \E w \in {1, 2} : Taken(v, i, name, needs) = [opts |-> <<p>>, words |-> w]
      BY <1>1, <2>1, <3>2, TakenIs
    <3> QED
      BY <3>1, <3>3 DEF needs
  <2> QED
    BY <2>2, <2>3
<1> QED
  BY <1>2, <1>3

(* A word of argv holds options that end here or with the next word.        *)
Goes(v, i) == i \in Nat \ {0} /\ ~Stops(v, i) /\ ~Ends(v, i)

LEMMA ReadWordIs ==
    ASSUME NEW v \in Seq(ArgvWord), NEW i \in Nat, Goes(v, i)
    PROVE  /\ i \in 1 .. Len(v) /\ v[i].is \in {"long", "short"}
           /\ ReadWord(v, i).opts \in Seq(Option) /\ ReadWord(v, i).words \in {1, 2}
<1>1. i \in 1 .. Len(v)
  BY DEF Goes, Stops
<1>2. v[i].is \in {"long", "short"}
  BY <1>1, WordIs DEF Goes, Stops, Ends
<1>3. CASE v[i].is = "long"
  <2>1. PICK o \in Option, w \in {1, 2} : ReadLong(v, i, v[i]) = [opts |-> <<o>>, words |-> w]
    BY <1>1, <1>3, LongIs
  <2>2. ReadWord(v, i).opts = <<o>> /\ ReadWord(v, i).words = w
    BY <1>3, <2>1 DEF ReadWord
  <2> QED
    BY <1>1, <1>3, <2>2
<1>4. CASE v[i].is = "short"
  <2>1. v[i].letters \in Seq(STRING)
    BY <1>1, <1>4, WordIs
  <2>4. PICK n \in 0 .. Len(v[i].letters), opts \in Seq(Option), w \in {1, 2} :
           ClusterReads(v, i, v[i].letters, n, opts, w)
    BY <2>1, ClusterIs
  <2>2. ReadCluster(v, i, v[i].letters) = [opts |-> opts, words |-> w]
    BY <2>4 DEF ClusterReads
  <2>3. ReadWord(v, i).opts = opts /\ ReadWord(v, i).words = w
    BY <1>4, <2>2 DEF ReadWord
  <2> QED
    BY <1>1, <1>4, <2>3
<1> QED
  BY <1>2, <1>3, <1>4

-----------------------------------------------------------------------------
(* The recursion of Read                                                    *)

Body(v, f, i) ==
    IF Stops(v, i) THEN [opts |-> <<>>, first |-> i]
    ELSE IF Ends(v, i) THEN [opts |-> <<>>, first |-> i + 1]
    ELSE [opts |-> ReadWord(v, i).opts \o f[i + ReadWord(v, i).words].opts,
          first |-> f[i + ReadWord(v, i).words].first]

LEMMA BodyIs ==
    ASSUME NEW v \in Seq(ArgvWord), NEW i \in Nat \ {0}, NEW f \in [Nat \ {0} -> Readings]
    PROVE  Body(v, f, i) \in Readings
<1>1. CASE Stops(v, i)
  <2>1. <<>> \in Seq(Option)
    OBVIOUS
  <2> QED
    BY <1>1, <2>1 DEF Body, Readings
<1>3. CASE ~Stops(v, i) /\ Ends(v, i)
  <2>1. <<>> \in Seq(Option) /\ i + 1 \in Nat
    OBVIOUS
  <2> QED
    BY <1>3, <2>1 DEF Body, Readings
<1>2. CASE ~Stops(v, i) /\ ~Ends(v, i)
  <2>1. ReadWord(v, i).opts \in Seq(Option) /\ ReadWord(v, i).words \in {1, 2}
    BY <1>2, ReadWordIs DEF Goes
  <2>2. f[i + ReadWord(v, i).words] \in Readings
    BY <2>1
  <2>3. /\ f[i + ReadWord(v, i).words].opts \in Seq(Option)
        /\ f[i + ReadWord(v, i).words].first \in Nat
    BY <2>2 DEF Readings
  <2>4. ReadWord(v, i).opts \o f[i + ReadWord(v, i).words].opts \in Seq(Option)
    BY <2>1, <2>3
  <2> QED
    BY <1>2, <2>3, <2>4 DEF Body, Readings
<1> QED
  BY <1>1, <1>2, <1>3

Positive == Nat \ {0}

(* f follows the recursion from its last n words of argv on.                *)
Follows(v, f, n) == \A i \in Positive : i + n > Len(v) => f[i] = Body(v, f, i)

LEMMA FollowsOneMore ==
    ASSUME NEW v \in Seq(ArgvWord), NEW n \in Nat, NEW f \in [Positive -> Readings], Follows(v, f, n)
    PROVE  \E g \in [Positive -> Readings] : Follows(v, g, n + 1)
<1>1. PICK total \in Nat : total = Len(v)
  OBVIOUS
<1>2. CASE total <= n
  <2>1. \A i \in Positive : i + n > total
    BY <1>2 DEF Positive
  <2> QED
    BY <1>1, <2>1 DEF Follows
<1>3. CASE total > n
  <2>1. PICK k \in Positive : k + n = total
    <3>1. total - n \in Positive /\ (total - n) + n = total
      BY <1>3 DEF Positive
    <3> QED
      BY <3>1
  <2> DEFINE g == [f EXCEPT ![k] = Body(v, f, k)]
  <2>2. Body(v, f, k) \in Readings
    BY BodyIs DEF Positive
  <2>3. g \in [Positive -> Readings] /\ g[k] = Body(v, f, k)
    BY <2>2
  <2>4. \A i \in Positive \ {k} : g[i] = f[i]
    OBVIOUS
  <2> HIDE DEF g
  <2>5. ASSUME NEW i \in Positive, i >= k PROVE Body(v, g, i) = Body(v, f, i)
    <3>1. CASE Stops(v, i) \/ Ends(v, i)
      BY <3>1 DEF Body
    <3>2. CASE ~Stops(v, i) /\ ~Ends(v, i)
      <4>1. ReadWord(v, i).words \in {1, 2}
        BY <3>2, ReadWordIs DEF Goes, Positive
      <4>2. i + ReadWord(v, i).words \in Positive \ {k}
        BY <2>5, <4>1 DEF Positive
      <4>3. g[i + ReadWord(v, i).words] = f[i + ReadWord(v, i).words]
        BY <2>4, <4>2
      <4> QED
        BY <3>2, <4>3 DEF Body
    <3> QED
      BY <3>1, <3>2
  <2>6. ASSUME NEW i \in Positive, i + (n + 1) > total PROVE g[i] = Body(v, g, i)
    <3>1. i >= k
      BY <2>1, <2>6 DEF Positive
    <3>2. CASE i = k
      BY <2>3, <2>5, <3>1, <3>2
    <3>3. CASE i # k
      <4>1. i + n > total
        BY <2>1, <3>1, <3>3 DEF Positive
      <4> QED
        BY <1>1, <2>4, <2>5, <3>1, <3>3, <4>1 DEF Follows
    <3> QED
      BY <3>2, <3>3
  <2> QED
    BY <1>1, <2>3, <2>6 DEF Follows
<1> QED
  BY <1>2, <1>3

LEMMA FollowsExists ==
    ASSUME NEW v \in Seq(ArgvWord), NEW n \in Nat
    PROVE  \E f \in [Positive -> Readings] : Follows(v, f, n)
<1> DEFINE Without == {m \in Nat : ~ \E f \in [Positive -> Readings] : Follows(v, f, m)}
<1>1. 0 \notin Without
  <2> DEFINE f == [i \in Positive |-> [opts |-> <<>>, first |-> i]]
  <2>1. f \in [Positive -> Readings]
    BY DEF Readings, Positive
  <2>2. ASSUME NEW i \in Positive, i + 0 > Len(v) PROVE f[i] = Body(v, f, i)
    <3>1. Stops(v, i)
      BY <2>2 DEF Stops, Positive
    <3> QED
      BY <3>1 DEF Body
  <2>3. Follows(v, f, 0)
    BY <2>2 DEF Follows
  <2> QED
    BY <2>1, <2>3
<1>2. ASSUME NEW m \in Nat, m \notin Without PROVE m + 1 \notin Without
  <2>1. PICK f \in [Positive -> Readings] : Follows(v, f, m)
    BY <1>2
  <2>2. \E g \in [Positive -> Readings] : Follows(v, g, m + 1)
    BY <2>1, FollowsOneMore
  <2> QED
    BY <2>2
<1>3. Without \in SUBSET Nat
  OBVIOUS
<1>4. Without = {}
  <2> HIDE DEF Without
  <2>1. ASSUME Without # {} PROVE FALSE
    <3>1. PICK m \in Without : \A k \in Without : m <= k
      BY <1>3, <2>1, LeastExists
    <3>2. m \in Nat /\ m # 0
      BY <1>1, <1>3, <3>1
    <3>3. PICK k \in Nat : k + 1 = m
      <4>1. m - 1 \in Nat /\ (m - 1) + 1 = m
        BY <3>2
      <4> QED
        BY <4>1
    <3>4. k \notin Without
      BY <3>1, <3>3
    <3> QED
      BY <1>2, <3>1, <3>3, <3>4
  <2> QED
    BY <2>1
<1> QED
  BY <1>4

LEMMA ReadFollows ==
    ASSUME NEW v \in Seq(ArgvWord)
    PROVE  Read(v) = [i \in Positive |-> Body(v, Read(v), i)]
<1>1. PICK f \in [Positive -> Readings] : Follows(v, f, Len(v))
  BY FollowsExists
<1>2. f = [i \in Positive |-> Body(v, f, i)]
  <2>1. \A i \in Positive : f[i] = Body(v, f, i)
    BY <1>1 DEF Follows, Positive
  <2> QED
    BY <2>1
<1>3. \E g : g = [i \in Positive |-> Body(v, g, i)]
  BY <1>2
<1>4. Read(v) = CHOOSE g : g = [i \in Positive |-> Body(v, g, i)]
  BY Zenon DEF Read, Body, Positive
<1> QED
  BY <1>3, <1>4, Zenon

LEMMA ReadIs ==
    ASSUME NEW v \in Seq(ArgvWord), NEW i \in Positive
    PROVE  /\ Read(v)[i] = Body(v, Read(v), i)
           /\ Read(v)[i] \in Readings
<1>1. \A k \in Positive : Read(v)[k] = Body(v, Read(v), k)
  BY ReadFollows
<1> DEFINE Wrong == {n \in Nat : \E k \in Positive : k + n > Len(v) /\ Read(v)[k] \notin Readings}
<1>2. ASSUME NEW m \in Wrong PROVE \E n \in Wrong : n < m
  <2>1. PICK k \in Positive : k + m > Len(v) /\ Read(v)[k] \notin Readings
    OBVIOUS
  <2>2. ~Stops(v, k) /\ ~Ends(v, k)
    <3>1. CASE Stops(v, k)
      <4>1. Read(v)[k] = [opts |-> <<>>, first |-> k]
        BY <1>1, <3>1 DEF Body
      <4>2. <<>> \in Seq(Option) /\ k \in Nat
        BY DEF Positive
      <4> QED
        BY <2>1, <4>1, <4>2 DEF Readings
    <3>2. CASE ~Stops(v, k) /\ Ends(v, k)
      <4>1. Read(v)[k] = [opts |-> <<>>, first |-> k + 1]
        BY <1>1, <3>2 DEF Body
      <4>2. <<>> \in Seq(Option) /\ k + 1 \in Nat
        BY DEF Positive
      <4> QED
        BY <2>1, <4>1, <4>2 DEF Readings
    <3> QED
      BY <3>1, <3>2
  <2>3. PICK w \in {1, 2} : w = ReadWord(v, k).words
    BY <2>2, ReadWordIs DEF Goes, Positive
  <2>4. ReadWord(v, k).opts \in Seq(Option) /\ k \in 1 .. Len(v)
    BY <2>2, ReadWordIs DEF Goes, Positive
  <2>5. Read(v)[k] = [opts |-> ReadWord(v, k).opts \o Read(v)[k + w].opts, first |-> Read(v)[k + w].first]
    BY <1>1, <2>2, <2>3 DEF Body
  <2>6. k + w \in Positive
    BY DEF Positive
  <2>7. Read(v)[k + w] \notin Readings
    <3>1. ASSUME Read(v)[k + w] \in Readings PROVE FALSE
      <4>1. Read(v)[k + w].opts \in Seq(Option) /\ Read(v)[k + w].first \in Nat
        BY <3>1 DEF Readings
      <4>2. ReadWord(v, k).opts \o Read(v)[k + w].opts \in Seq(Option)
        BY <2>4, <4>1
      <4> QED
        BY <2>1, <2>5, <4>1, <4>2 DEF Readings
    <3> QED
      BY <3>1
  <2>8. PICK n \in Nat : n + 1 = m
    <3>1. m \in Nat /\ m # 0
      BY <2>1, <2>4
    <3>2. m - 1 \in Nat /\ (m - 1) + 1 = m
      BY <3>1
    <3> QED
      BY <3>2
  <2>9. (k + w) + n > Len(v)
    BY <2>1, <2>8 DEF Positive
  <2>10. n \in Wrong
    BY <2>6, <2>7, <2>9
  <2> QED
    BY <2>8, <2>10
<1>3. Wrong \in SUBSET Nat
  OBVIOUS
<1>4. Wrong = {}
  <2> HIDE DEF Wrong
  <2>1. ASSUME Wrong # {} PROVE FALSE
    <3>1. PICK m \in Wrong : \A n \in Wrong : m <= n
      BY <1>3, <2>1, LeastExists
    <3>2. PICK n \in Wrong : n < m
      BY <1>2
    <3>3. m \in Nat /\ n \in Nat /\ m <= n
      BY <1>3, <3>1, <3>2
    <3> QED
      BY <3>2, <3>3
  <2> QED
    BY <2>1
<1>5. \A n \in Nat : n \notin Wrong
  BY <1>4
<1>6. ASSUME Read(v)[i] \notin Readings PROVE FALSE
  <2>1. Len(v) \in Nat /\ i + Len(v) > Len(v)
    BY DEF Positive
  <2> QED
    BY <1>5, <1>6, <2>1
<1> QED
  BY <1>1, <1>6

-----------------------------------------------------------------------------
(* Where a reader of v is after r, at place p of the options that are       *)
(* written from word i on.                                                  *)
Reads(v, r, i, p) ==
    /\ Continues(Read(v)[1].opts, r, Read(v)[i].opts, p)
    /\ Read(v)[1].first = Read(v)[i].first

(* A call reads one option of a word; the last one leads to the next word.  *)
LEMMA ReadOption ==
    ASSUME NEW v \in Seq(ArgvWord), NEW i \in Nat, Goes(v, i), NEW r \in Seq(Option),
           NEW p \in 1 .. Len(ReadWord(v, i).opts), Reads(v, r, i, p)
    PROVE  /\ ReadWord(v, i).opts[p] \in Option
           /\ Reads(v, Append(r, ReadWord(v, i).opts[p]), i, p + 1)
           /\ p = Len(ReadWord(v, i).opts) =>
                 Reads(v, Append(r, ReadWord(v, i).opts[p]), i + ReadWord(v, i).words, 1)
<1>1. ReadWord(v, i).words \in {1, 2} /\ ReadWord(v, i).opts \in Seq(Option)
  BY ReadWordIs
<1>2. PICK w \in Seq(Option) : w = ReadWord(v, i).opts
  BY <1>1
<1>3. PICK j \in Positive : j = i + ReadWord(v, i).words
  BY <1>1 DEF Positive
<1>4. Read(v)[i] = Body(v, Read(v), i)
  BY ReadIs DEF Goes, Positive
<1>5. Read(v)[i] = [opts |-> w \o Read(v)[j].opts, first |-> Read(v)[j].first]
  BY <1>2, <1>3, <1>4 DEF Body, Goes
<1>6. PICK s \in Seq(Option) : s = Read(v)[j].opts
  BY ReadIs DEF Readings
<1>7. Read(v)[i].opts = w \o s /\ Read(v)[i].first = Read(v)[j].first
  BY ONLY <1>5, <1>6
<1>8. PICK all : all = Read(v)[1].opts
  OBVIOUS
<1>9. Continues(all, r, w \o s, p)
  BY <1>7, <1>8 DEF Reads
<1>10. p \in 1 .. Len(w) /\ w \o s \in Seq(Option) /\ Len(w \o s) = Len(w) + Len(s)
  BY <1>2
<1>11. p \in 1 .. Len(w \o s) /\ (w \o s)[p] = w[p] /\ w[p] \in Option
  BY <1>10
<1>12. Append(r, w[p]) \in Seq(Option)
  BY <1>11
<1>13. Continues(all, Append(r, w[p]), w \o s, p + 1)
  BY <1>9, <1>10, <1>11, ReadNext
<1>14. p = Len(w) => Continues(all, Append(r, w[p]), s, 1)
  BY <1>12, <1>13, ReadPart
<1> QED
  BY <1>2, <1>3, <1>6, <1>7, <1>8, <1>11, <1>13, <1>14 DEF Reads

(* There is nothing left to read where the operands start.                  *)
LEMMA ReadStop ==
    ASSUME NEW v \in Seq(ArgvWord), NEW i \in Positive, Stops(v, i) \/ Ends(v, i),
           NEW r \in Seq(Option), Reads(v, r, i, 1)
    PROVE  /\ Read(v)[1].opts = r
           /\ Read(v)[1].first = IF Stops(v, i) THEN i ELSE i + 1
<1>1. Read(v)[i] = Body(v, Read(v), i)
  BY ReadIs
<1>2. Read(v)[i].opts = <<>> /\ Read(v)[i].first = IF Stops(v, i) THEN i ELSE i + 1
  BY <1>1 DEF Body
<1> QED
  BY <1>2, ReadAll DEF Reads

-----------------------------------------------------------------------------
(* The inductive invariant: what is still to be read, from where the next   *)
(* call starts, is what the reader has not returned yet.                    *)
Plain == currentArg # 0 =>
            /\ optind <= Len(argv)
            /\ \A q \in 1 .. shortPos - 1 : ShortArg(argv[optind].letters[q]) \notin {1, 2}
AtFirst(i) == optind = i \/ SteppedOver(i)
AllRead == returned = Read(argv)[1].opts /\ AtFirst(Read(argv)[1].first)
ParseInv ==
    /\ argv \in Seq(ArgvWord) /\ TypeOK
    /\ returned \in Seq(Option)
    /\ Plain
    /\ IF done THEN AllRead ELSE Reads(argv, returned, optind, Pos)

LEMMA InvInit == ASSUME Init PROVE ParseInv
<1> USE OptAssumption
<1>1. argv \in Seq(ArgvWord) /\ returned = <<>> /\ optind = 1 /\ Pos = 1
  BY DEF Init, Pos
<1>2. 1 \in Positive /\ Len(argv) \in Nat
  BY <1>1 DEF Positive
<1>3. Read(argv)[1].opts \in Seq(Option)
  BY <1>1, <1>2, ReadIs DEF Readings
<1>4. Reads(argv, returned, optind, Pos)
  BY <1>1, <1>3, ReadNothing DEF Reads
<1>5. TypeOK
  <2>1. currentArg = 0 /\ shortPos = 0 /\ flags = {} /\ done = FALSE /\ DOMAIN returned = {}
    BY <1>1 DEF Init
  <2>2. optind \in 1 .. Len(argv) + 1
    BY <1>1, <1>2
  <2> QED
    BY <2>1, <2>2 DEF TypeOK
<1> QED
  BY <1>1, <1>4, <1>5 DEF Init, ParseInv, Plain

(* A call that returns an option keeps it. *)
LEMMA ReturnsOne ==
    ASSUME ParseInv, ~done, argv' = argv, done' = done, flags' \subseteq DOMAIN LongOpt,
           NEW o \in Option, returned' = Append(returned, o),
           o.arg = None \/ o.arg[2] \in DOMAIN argv,
           optind' \in 1 .. Len(argv) + 1,
           \/ currentArg' = 0 /\ shortPos' = 0
           \/ /\ currentArg' = optind' /\ optind' <= Len(argv) /\ argv[optind'].is = "short"
              /\ shortPos' \in 2 .. Len(argv[optind'].letters)
              /\ \A q \in 1 .. shortPos' - 1 :
                    ShortArg(argv[optind'].letters[q]) \notin {1, 2},
           NEW p, Reads(argv, Append(returned, o), optind', p),
           p = IF currentArg' = 0 THEN 1 ELSE shortPos'
    PROVE  ParseInv'
<1>1. argv' \in Seq(ArgvWord) /\ returned' \in Seq(Option)
  BY DEF ParseInv
<1>2. Pos' = p
  BY DEF Pos
<1>3. Reads(argv, returned', optind', Pos')
  BY <1>2
<1>4. Reads(argv, returned, optind, Pos)' <=> Reads(argv, returned', optind', Pos')
  BY Zenon DEF Reads
<1>5. ASSUME NEW k \in DOMAIN returned'
      PROVE  returned'[k].arg = None \/ returned'[k].arg[2] \in DOMAIN argv'
  <2>1. returned \in Seq(Option) /\ Len(returned) \in Nat /\ DOMAIN returned = 1 .. Len(returned)
    BY DEF ParseInv
  <2>2. CASE k = Len(returned) + 1
    BY <2>1, <2>2
  <2>3. CASE k # Len(returned) + 1
    <3>1. k \in DOMAIN returned /\ returned'[k] = returned[k]
      BY <2>1, <2>3
    <3> QED
      BY <3>1 DEF ParseInv, TypeOK
  <2> QED
    BY <2>2, <2>3
<1>6. TypeOK'
  BY <1>5 DEF TypeOK, ParseInv, Word
<1>7. Plain'
  BY DEF Plain
<1> QED
  BY <1>1, <1>3, <1>4, <1>6, <1>7 DEF ParseInv

(* So does the last one. *)
FirstAt(i) == IF Stops(argv, i) THEN i ELSE i + 1

(* A lone "-" at i, where the operands start, is stepped over to o.          *)
Steps(i, o) == i \in DOMAIN argv /\ argv[i].is = "dash" /\ o = i + 1

LEMMA ReturnsNone ==
    ASSUME ParseInv, ~done, argv' = argv, NoMore, UNCHANGED <<shortPos, currentArg>>,
           currentArg = 0, Stops(argv, optind) \/ Ends(argv, optind),
           optind' \in 1 .. Len(argv) + 1,
           \/ optind' = FirstAt(optind)
           \/ Stops(argv, optind) /\ Steps(optind, optind')
    PROVE  ParseInv'
<1>1. argv \in Seq(ArgvWord) /\ returned \in Seq(Option) /\ optind \in Positive /\ Pos = 1
  BY DEF ParseInv, TypeOK, Pos, Positive
<1>2. Reads(argv, returned, optind, 1)
  BY <1>1 DEF ParseInv
<1>3. Read(argv)[1].opts = returned /\ Read(argv)[1].first = FirstAt(optind)
  BY <1>1, <1>2, ReadStop DEF FirstAt
<1>4. returned' = Read(argv)[1].opts
  BY <1>3 DEF NoMore
<1>5. optind' = Read(argv)[1].first \/ Steps(Read(argv)[1].first, optind')
  <2>1. CASE optind' = FirstAt(optind)
    BY <1>3, <2>1
  <2>2. CASE Stops(argv, optind) /\ Steps(optind, optind')
    BY <1>3, <2>2 DEF FirstAt
  <2> QED
    BY <2>1, <2>2
<1>6. AllRead'
  BY <1>4, <1>5 DEF AllRead, AtFirst, SteppedOver, Steps
<1>7. TypeOK'
  BY DEF ParseInv, TypeOK, NoMore
<1>8. Plain'
  BY DEF Plain
<1> QED
  BY <1>1, <1>6, <1>7, <1>8 DEF ParseInv, NoMore

LEMMA NoOptionKeeps == ASSUME ParseInv, NoOption PROVE ParseInv'
<1>1. ~done /\ argv' = argv /\ optind' = optind
  BY DEF NoOption, AtWord
<1>2. Stops(argv, optind)
  BY DEF NoOption, AtWord, Stops, Word
<1>3. currentArg = 0
  BY DEF NoOption, AtWord, Word, ParseInv, TypeOK, Plain
<1>4. optind' = FirstAt(optind) /\ optind' \in 1 .. Len(argv) + 1
  BY <1>1, <1>2 DEF FirstAt, ParseInv, TypeOK
<1> QED
  BY <1>1, <1>2, <1>3, <1>4, ReturnsNone DEF NoOption

LEMMA LastOptionKeeps == ASSUME ParseInv, LastOption PROVE ParseInv'
<1>1. ~done /\ argv' = argv /\ optind' = optind + 1
  BY DEF LastOption, AtWord
<1>2. optind \in 1 .. Len(argv) /\ Len(argv) \in Nat
  BY DEF LastOption, AtWord, ParseInv, TypeOK
<1>3. Ends(argv, optind) /\ ~Stops(argv, optind)
  BY <1>2 DEF LastOption, AtWord, Ends, Stops, Word
<1>4. currentArg = 0
  BY DEF LastOption, AtWord, Word, ParseInv, TypeOK
<1>5. optind' = FirstAt(optind) /\ optind' \in 1 .. Len(argv) + 1
  BY <1>1, <1>2, <1>3 DEF FirstAt
<1> QED
  BY <1>1, <1>3, <1>4, <1>5, ReturnsNone DEF LastOption

LEMMA LoneDashKeeps == ASSUME ParseInv, LoneDash PROVE ParseInv'
<1>1. ~done /\ argv' = argv /\ optind' = optind + 1
  BY DEF LoneDash, AtWord
<1>2. optind \in 1 .. Len(argv) /\ Len(argv) \in Nat /\ argv[optind].is = "dash"
  BY DEF LoneDash, AtWord, ParseInv, TypeOK
<1>3. Stops(argv, optind)
  BY <1>2 DEF Stops
<1>4. currentArg = 0
  BY <1>2 DEF LoneDash, AtWord, Word, ParseInv, TypeOK
<1>5. Steps(optind, optind') /\ optind' \in 1 .. Len(argv) + 1
  BY <1>1, <1>2 DEF Steps
<1> QED
  BY <1>1, <1>3, <1>4, <1>5, ReturnsNone DEF LoneDash

-----------------------------------------------------------------------------
(* Long options *)

(* A call at a long option returns the one that is written there.           *)
LongReads(o, w) ==
    /\ AtWord("long")
    /\ ReadLong(argv, optind, Word) = [opts |-> <<o>>, words |-> w]
    /\ w = 1 \/ (w = 2 /\ optind < Len(argv))

LEMMA LongKeeps ==
    ASSUME ParseInv, NEW o \in Option, NEW w \in {1, 2}, LongReads(o, w),
           o.arg = None \/ o.arg[2] \in DOMAIN argv,
           argv' = argv, done' = done, UNCHANGED <<shortPos, currentArg>>,
           flags' \subseteq DOMAIN LongOpt,
           returned' = Append(returned, o), optind' = optind + w
    PROVE  ParseInv'
<1>1. /\ argv \in Seq(ArgvWord) /\ optind \in 1 .. Len(argv) /\ ~done
      /\ argv[optind].is = "long" /\ currentArg = 0 /\ shortPos = 0 /\ Pos = 1
  BY DEF ParseInv, TypeOK, LongReads, AtWord, Word, Pos
<1>2. Goes(argv, optind)
  BY <1>1 DEF Goes, Stops, Ends
<1>3. ReadWord(argv, optind) = [opts |-> <<o>>, words |-> w]
  BY <1>1 DEF LongReads, ReadWord, Word
<1>4. Len(ReadWord(argv, optind).opts) = 1 /\ ReadWord(argv, optind).opts[1] = o
  BY <1>3
<1>5. returned \in Seq(Option) /\ Reads(argv, returned, optind, 1)
  BY <1>1 DEF ParseInv
<1>6. Reads(argv, Append(returned, o), optind + w, 1)
  <2>1. optind \in Nat /\ 1 \in 1 .. Len(ReadWord(argv, optind).opts)
    BY <1>1, <1>4
  <2>2. Reads(argv, Append(returned, ReadWord(argv, optind).opts[1]),
              optind + ReadWord(argv, optind).words, 1)
    BY <1>1, <1>2, <1>4, <1>5, <2>1, ReadOption
  <2>3. ReadWord(argv, optind).words = w
    BY <1>3
  <2> QED
    BY <1>4, <2>2, <2>3
<1>7. optind' \in 1 .. Len(argv) + 1
  BY <1>1 DEF LongReads
<1> QED
  BY <1>1, <1>6, <1>7, ReturnsOne

LEMMA LongUnknownKeeps == ASSUME ParseInv, LongUnknown PROVE ParseInv'
<1> DEFINE o == [opt |-> "?", arg |-> None]
<1>1. o \in Option /\ o.arg = None
  BY DEF Option, Name, Given
<1>2. LongReads(o, 1)
  BY DEF LongUnknown, LongReads, ReadLong
<1>3. /\ argv' = argv /\ done' = done /\ flags' = flags /\ optind' = optind + 1
      /\ returned' = Append(returned, o)
  BY DEF LongUnknown, Error, Returns
<1>4. flags' \subseteq DOMAIN LongOpt
  BY <1>3 DEF ParseInv, TypeOK
<1> HIDE DEF o
<1> QED
  BY <1>1, <1>2, <1>3, <1>4, LongKeeps DEF LongUnknown

LEMMA LongMissingKeeps == ASSUME ParseInv, LongMissing PROVE ParseInv'
<1> DEFINE o == [opt |-> "?", arg |-> None]
<1>1. o \in Option /\ o.arg = None
  BY DEF Option, Name, Given
<1>2. LongReads(o, 1)
  <2>1. optind \in Nat /\ Len(argv) \in Nat /\ ~(optind < Len(argv))
    BY DEF LongMissing, ParseInv, TypeOK
  <2>2. \A name : Taken(argv, optind, name, TRUE) = [opts |-> <<o>>, words |-> 1]
    BY <2>1 DEF Taken
  <2>3. ReadLong(argv, optind, Word) = [opts |-> <<o>>, words |-> 1]
    BY <2>2 DEF LongMissing, KnownLong, TakesNext, HasArg, ReadLong
  <2> QED
    BY <2>3 DEF LongMissing, KnownLong, LongReads
<1>3. /\ argv' = argv /\ done' = done /\ flags' = flags /\ optind' = optind + 1
      /\ returned' = Append(returned, o)
  BY DEF LongMissing, Error, Returns
<1>4. flags' \subseteq DOMAIN LongOpt
  BY <1>3 DEF ParseInv, TypeOK
<1> HIDE DEF o
<1> QED
  BY <1>1, <1>2, <1>3, <1>4, LongKeeps DEF LongMissing

LEMMA LongOptionKeeps == ASSUME ParseInv, LongOption PROVE ParseInv'
<1> DEFINE name == IF LongOpt[Word.name].flag THEN "0" ELSE Word.name
           o == [opt |-> name, arg |-> optarg']
           w == IF TakesNext THEN 2 ELSE 1
<1>1. /\ argv \in Seq(ArgvWord) /\ optind \in 1 .. Len(argv) /\ optind \in Nat
      /\ argv[optind].is = "long" /\ Word = argv[optind] /\ Len(argv) \in Nat
      /\ Word.name \in DOMAIN LongOpt
  BY DEF ParseInv, TypeOK, LongOption, KnownLong, AtWord, Word
<1>2. Word.name \in STRING /\ Word.eq \in BOOLEAN
  BY <1>1, WordIs
<1>3. name \in Name
  BY <1>2 DEF Name
<1>4. HasArg \in 0 .. 2
  BY <1>1, OptAssumption DEF HasArg
<1>5. optarg' = None \/ (optarg' \in Given /\ optarg'[2] \in DOMAIN argv)
  <2>1. CASE TakesNext
    <3>1. optarg' = <<"word", optind + 1>> /\ optind < Len(argv)
      BY <2>1 DEF LongOption
    <3> QED
      BY <1>1, <3>1 DEF Given
  <2>2. CASE ~TakesNext
    BY <1>1, <2>2 DEF LongOption, Given
  <2> QED
    BY <2>1, <2>2
<1>6. o \in Option
  BY <1>3, <1>5 DEF Option, Given
<1>7. LongReads(o, w)
  <2>1. CASE TakesNext
    <3>1. optarg' = <<"word", optind + 1>> /\ optind < Len(argv) /\ HasArg = 1 /\ ~Word.eq
      BY <2>1 DEF LongOption, TakesNext
    <3>2. ReadLong(argv, optind, Word) = [opts |-> <<o>>, words |-> 2]
      BY <1>1, <3>1 DEF ReadLong, Taken, HasArg
    <3> QED
      BY <2>1, <3>1, <3>2 DEF LongReads, LongOption, KnownLong
  <2>2. CASE ~TakesNext /\ Word.eq /\ HasArg # 0
    <3>1. optarg' = <<"value", optind>> /\ HasArg > 0
      BY <1>4, <2>2 DEF LongOption
    <3>2. ReadLong(argv, optind, Word) = [opts |-> <<o>>, words |-> 1]
      BY <1>1, <2>2, <3>1 DEF ReadLong, HasArg
    <3> QED
      BY <2>2, <3>2 DEF LongReads, LongOption, KnownLong
  <2>3. CASE ~TakesNext /\ ~(Word.eq /\ HasArg # 0)
    <3>1. optarg' = None
      BY <2>3 DEF LongOption
    <3>2. ~(Word.eq /\ HasArg > 0) /\ HasArg # 1
      BY <1>4, <2>3 DEF TakesNext
    <3>3. ReadLong(argv, optind, Word) = [opts |-> <<o>>, words |-> 1]
      BY <1>1, <3>1, <3>2 DEF ReadLong, Taken, HasArg
    <3> QED
      BY <2>3, <3>3 DEF LongReads, LongOption, KnownLong
  <2> QED
    BY <2>1, <2>2, <2>3
<1>8. /\ argv' = argv /\ done' = done /\ optind' = optind + w
      /\ returned' = Append(returned, o)
      /\ UNCHANGED <<shortPos, currentArg>>
  BY DEF LongOption, Returns
<1>9. flags' \subseteq DOMAIN LongOpt
  BY <1>1 DEF LongOption, ParseInv, TypeOK
<1>10. w \in {1, 2} /\ (o.arg = None \/ o.arg[2] \in DOMAIN argv)
  BY <1>5
<1> HIDE DEF o, w
<1> QED
  BY <1>6, <1>7, <1>8, <1>9, <1>10, LongKeeps

-----------------------------------------------------------------------------
(* Short options *)

(* What is known at a letter of a cluster. *)
LEMMA AtLetter ==
    ASSUME ParseInv, AtWord("short")
    PROVE  /\ argv \in Seq(ArgvWord) /\ optind \in 1 .. Len(argv) /\ ~done
           /\ argv[optind].is = "short" /\ Word = argv[optind]
           /\ Word.letters \in Seq(STRING)
           /\ Pos \in 1 .. Len(Word.letters)
           /\ \A q \in 1 .. Pos - 1 : ShortArg(Word.letters[q]) \notin {1, 2}
           /\ Goes(argv, optind)
           /\ ReadWord(argv, optind) = ReadCluster(argv, optind, Word.letters)
           /\ returned \in Seq(Option) /\ Reads(argv, returned, optind, Pos)
           /\ Letter = Word.letters[Pos] /\ Letter \in STRING
<1>1. /\ argv \in Seq(ArgvWord) /\ optind \in 1 .. Len(argv) /\ ~done
      /\ argv[optind].is = "short" /\ Word = argv[optind]
  BY DEF ParseInv, TypeOK, AtWord, Word
<1>2. Word.letters \in Seq(STRING) /\ Len(Word.letters) \in Nat \ {0}
  BY <1>1, WordIs
<1>3. currentArg = 0 \/ (currentArg = optind /\ shortPos \in 2 .. Len(Word.letters))
  BY <1>1 DEF ParseInv, TypeOK
<1>4. Pos \in 1 .. Len(Word.letters)
  BY <1>1, <1>2, <1>3 DEF Pos
<1>5. \A q \in 1 .. Pos - 1 : ShortArg(Word.letters[q]) \notin {1, 2}
  <2>1. CASE currentArg = 0
    BY <1>1, <2>1 DEF Pos
  <2>2. CASE currentArg # 0
    BY <1>1, <1>3, <2>2 DEF Pos, ParseInv, Plain
  <2> QED
    BY <2>1, <2>2
<1>6. Goes(argv, optind)
  BY <1>1 DEF Goes, Stops, Ends
<1>7. ReadWord(argv, optind) = ReadCluster(argv, optind, Word.letters)
  BY <1>1 DEF ReadWord
<1>8. returned \in Seq(Option) /\ Reads(argv, returned, optind, Pos)
  BY <1>1 DEF ParseInv
<1>9. Letter = Word.letters[Pos] /\ Letter \in STRING
  BY <1>2, <1>4 DEF Letter
<1> QED
  BY <1>1, <1>2, <1>4, <1>5, <1>6, <1>7, <1>8, <1>9

(* A call at a letter returns the option that is written there, and goes on *)
(* to the next letter or, after w words, to the next word.                  *)
ShortReads(o, w) ==
    /\ AtWord("short")
    /\ Pos \in 1 .. Len(ReadWord(argv, optind).opts)
    /\ o = ReadWord(argv, optind).opts[Pos]
    /\ w # 0 => /\ Pos = Len(ReadWord(argv, optind).opts)
                /\ w = ReadWord(argv, optind).words
                /\ w = 1 \/ optind < Len(argv)
    /\ w = 0 => ~AtLast /\ ShortArg(Letter) \notin {1, 2}

LEMMA ShortKeeps ==
    ASSUME ParseInv, NEW o, NEW w \in {0, 1, 2}, ShortReads(o, w),
           o.arg = None \/ o.arg[2] \in DOMAIN argv,
           argv' = argv, done' = done, flags' = flags,
           returned' = Append(returned, o),
           IF w = 0 THEN optind' = optind /\ currentArg' = optind /\ shortPos' = Pos + 1
           ELSE SkipWords(w)
    PROVE  ParseInv'
<1> DEFINE opts == ReadWord(argv, optind).opts
<1>1. AtWord("short") /\ Pos \in 1 .. Len(opts) /\ o = opts[Pos]
  BY DEF ShortReads
<1>2. /\ argv \in Seq(ArgvWord) /\ optind \in 1 .. Len(argv) /\ optind \in Nat /\ ~done
      /\ argv[optind].is = "short" /\ Word = argv[optind] /\ Goes(argv, optind)
      /\ returned \in Seq(Option) /\ Reads(argv, returned, optind, Pos)
      /\ Pos \in 1 .. Len(Word.letters)
      /\ \A q \in 1 .. Pos - 1 : ShortArg(Word.letters[q]) \notin {1, 2}
      /\ Letter = Word.letters[Pos]
  BY <1>1, AtLetter
<1>3. /\ o \in Option /\ Reads(argv, Append(returned, o), optind, Pos + 1)
      /\ Pos = Len(opts) =>
            Reads(argv, Append(returned, o), optind + ReadWord(argv, optind).words, 1)
  BY <1>1, <1>2, ReadOption
<1>4. flags' \subseteq DOMAIN LongOpt
  BY DEF ParseInv, TypeOK
<1> HIDE DEF opts
<1>5. CASE w = 0
  <2>1. Pos # Len(Word.letters) /\ ShortArg(Word.letters[Pos]) \notin {1, 2}
    BY <1>2, <1>5 DEF ShortReads, AtLast
  <2>2. Len(Word.letters) \in Nat /\ Pos + 1 \in 2 .. Len(Word.letters)
    <3>1. Word.letters \in Seq(STRING)
      BY <1>1, AtLetter
    <3> QED
      BY <1>2, <2>1, <3>1
  <2>3. ASSUME NEW q \in 1 .. (Pos + 1) - 1 PROVE ShortArg(Word.letters[q]) \notin {1, 2}
    <3>1. q = Pos \/ q \in 1 .. Pos - 1
      BY <1>2, <2>2
    <3> QED
      BY <1>2, <2>1, <3>1
  <2>4. optind' = optind /\ currentArg' = optind /\ shortPos' = Pos + 1
    BY <1>5
  <2>5. /\ currentArg' = optind' /\ optind' <= Len(argv) /\ argv[optind'].is = "short"
        /\ shortPos' \in 2 .. Len(argv[optind'].letters)
        /\ \A q \in 1 .. shortPos' - 1 : ShortArg(argv[optind'].letters[q]) \notin {1, 2}
    BY <1>2, <2>2, <2>3, <2>4
  <2>6. Reads(argv, Append(returned, o), optind', Pos + 1)
    BY <1>3, <2>4
  <2>7. Pos + 1 = IF currentArg' = 0 THEN 1 ELSE shortPos'
    BY <1>2, <2>4
  <2>8. optind' \in 1 .. Len(argv) + 1
    BY <1>2, <2>4
  <2> QED
    BY <1>2, <1>3, <1>4, <2>5, <2>6, <2>7, <2>8, ReturnsOne
<1>6. CASE w # 0
  <2>1. optind' = optind + w /\ currentArg' = 0 /\ shortPos' = 0
    BY <1>6 DEF SkipWords
  <2>2. Reads(argv, Append(returned, o), optind', 1)
    BY <1>3, <1>6, <2>1 DEF ShortReads, opts
  <2>3. optind' \in 1 .. Len(argv) + 1
    BY <1>2, <1>6, <2>1 DEF ShortReads
  <2> QED
    BY <1>2, <1>3, <1>4, <2>1, <2>2, <2>3, ReturnsOne
<1> QED
  BY <1>5, <1>6

(* A letter without an argument is read alone. *)
LEMMA PlainReads ==
    ASSUME ParseInv, AtWord("short"),
           \/ ShortArg(Letter) \notin {1, 2}
           \/ ShortArg(Letter) = 2 /\ AtLast
    PROVE  ShortReads(PlainOpt(Letter), IF AtLast THEN 1 ELSE 0)
<1> DEFINE letters == Word.letters
<1>1. /\ argv \in Seq(ArgvWord) /\ optind \in 1 .. Len(argv) /\ optind \in Nat
      /\ letters \in Seq(STRING) /\ Pos \in 1 .. Len(letters) /\ Len(letters) \in Nat
      /\ \A q \in 1 .. Pos - 1 : ShortArg(letters[q]) \notin {1, 2}
      /\ ReadWord(argv, optind) = ReadCluster(argv, optind, letters)
      /\ Letter = letters[Pos] /\ Letter \in STRING
  BY AtLetter
<1>2. PICK n \in 0 .. Len(letters), opts \in Seq(Option), w \in {1, 2} :
         ClusterReads(argv, optind, letters, n, opts, w)
  BY <1>1, ClusterIs
<1>3. ReadWord(argv, optind).opts = opts /\ ReadWord(argv, optind).words = w /\ Len(opts) = n
  BY <1>1, <1>2 DEF ClusterReads
<1>4. PICK a \in 0 .. Len(letters) : a = ArgAt(letters)
  BY <1>1, ArgAtIs
<1>5. /\ a = 0 \/ Pos <= a
      /\ ShortArg(letters[Pos]) \in {1, 2} => a = Pos
      /\ ShortArg(letters[Pos]) \notin {1, 2} =>
            /\ a # Pos
            /\ Pos = Len(letters) => a = 0
  BY <1>1, <1>4, ArgAtFrom
<1>6. n = IF a = 0 THEN Len(letters) ELSE a
  BY <1>2, <1>4 DEF ClusterReads
<1>7. Pos \in 1 .. n
  BY <1>1, <1>4, <1>5, <1>6
<1>8. AtLast <=> Pos = Len(letters)
  BY DEF AtLast
<1> HIDE DEF letters
<1>9. CASE ShortArg(Letter) \notin {1, 2}
  <2>1. a # Pos /\ opts[Pos] = PlainOpt(Letter)
    BY <1>1, <1>2, <1>4, <1>5, <1>7, <1>9 DEF ClusterReads
  <2>2. CASE AtLast
    <3>1. a = 0 /\ n = Pos /\ w = 1
      BY <1>1, <1>2, <1>4, <1>5, <1>6, <1>8, <1>9, <2>2 DEF ClusterReads
    <3> QED
      BY <1>3, <1>7, <2>1, <2>2, <3>1 DEF ShortReads
  <2>3. CASE ~AtLast
    BY <1>3, <1>7, <1>9, <2>1, <2>3 DEF ShortReads
  <2> QED
    BY <2>2, <2>3
<1>10. CASE ShortArg(Letter) = 2 /\ AtLast
  <2>1. a = Pos /\ n = Pos /\ Pos = Len(letters) /\ a # 0
    BY <1>1, <1>5, <1>6, <1>8, <1>10
  <2>2. Taken(argv, optind, letters[Pos], ShortArg(letters[Pos]) = 1)
           = [opts |-> <<opts[Pos]>>, words |-> w]
    BY <1>2, <1>4, <2>1 DEF ClusterReads
  <2>3. Taken(argv, optind, letters[Pos], ShortArg(letters[Pos]) = 1)
           = [opts |-> <<[opt |-> Letter, arg |-> None]>>, words |-> 1]
    BY <1>1, <1>10 DEF Taken
  <2>4. w = 1 /\ <<opts[Pos]>> = <<[opt |-> Letter, arg |-> None]>>
    BY <2>2, <2>3
  <2>5. opts[Pos] = [opt |-> Letter, arg |-> None]
    BY <2>4
  <2>6. PlainOpt(Letter) = [opt |-> Letter, arg |-> None]
    BY <1>10 DEF PlainOpt
  <2> QED
    BY <1>3, <1>7, <1>10, <2>1, <2>4, <2>5, <2>6 DEF ShortReads
<1> QED
  BY <1>9, <1>10

LEMMA ShortUnknownKeeps == ASSUME ParseInv, ShortUnknown PROVE ParseInv'
<1>1. AtWord("short") /\ ShortArg(Letter) = -1
  BY DEF ShortUnknown, AtShort
<1>2. PlainOpt(Letter) = [opt |-> "?", arg |-> None] /\ PlainOpt(Letter).arg = None
  BY <1>1 DEF PlainOpt
<1>3. ShortReads(PlainOpt(Letter), IF AtLast THEN 1 ELSE 0)
  BY <1>1, PlainReads
<1>4. /\ argv' = argv /\ done' = done /\ flags' = flags
      /\ returned' = Append(returned, PlainOpt(Letter))
  BY <1>2 DEF ShortUnknown, Error, Returns
<1>5. IF AtLast THEN SkipWords(1)
      ELSE optind' = optind /\ currentArg' = optind /\ shortPos' = Pos + 1
  BY DEF ShortUnknown, NextLetter
<1>6. CASE AtLast
  BY <1>2, <1>3, <1>4, <1>5, <1>6, ShortKeeps
<1>7. CASE ~AtLast
  BY <1>2, <1>3, <1>4, <1>5, <1>7, ShortKeeps
<1> QED
  BY <1>6, <1>7

LEMMA ShortPlainKeeps == ASSUME ParseInv, ShortPlain PROVE ParseInv'
<1>1. AtWord("short") /\ (ShortArg(Letter) = 0 \/ (ShortArg(Letter) = 2 /\ AtLast))
  BY DEF ShortPlain, AtShort
<1>2. PlainOpt(Letter) = [opt |-> Letter, arg |-> None] /\ PlainOpt(Letter).arg = None
  BY <1>1 DEF PlainOpt
<1>3. ShortReads(PlainOpt(Letter), IF AtLast THEN 1 ELSE 0)
  BY <1>1, PlainReads
<1>4. /\ argv' = argv /\ done' = done /\ flags' = flags
      /\ returned' = Append(returned, PlainOpt(Letter))
  BY <1>2 DEF ShortPlain, Returns
<1>5. IF AtLast THEN SkipWords(1)
      ELSE optind' = optind /\ currentArg' = optind /\ shortPos' = Pos + 1
  BY DEF ShortPlain, NextLetter
<1>6. CASE AtLast
  BY <1>2, <1>3, <1>4, <1>5, <1>6, ShortKeeps
<1>7. CASE ~AtLast
  BY <1>2, <1>3, <1>4, <1>5, <1>7, ShortKeeps
<1> QED
  BY <1>6, <1>7

(* A letter with an argument is the last option of the cluster. *)
LEMMA WithArgReads ==
    ASSUME ParseInv, AtWord("short"), ShortArg(Letter) \in {1, 2}, ~(ShortArg(Letter) = 2 /\ AtLast)
    PROVE  /\ ~AtLast => ShortReads([opt |-> Letter, arg |-> <<"rest", optind, Pos + 1>>], 1)
           /\ AtLast /\ optind < Len(argv) =>
                 ShortReads([opt |-> Letter, arg |-> <<"word", optind + 1>>], 2)
           /\ AtLast /\ ~(optind < Len(argv)) => ShortReads([opt |-> "?", arg |-> None], 1)
<1> DEFINE letters == Word.letters
<1>1. /\ argv \in Seq(ArgvWord) /\ optind \in 1 .. Len(argv) /\ optind \in Nat
      /\ letters \in Seq(STRING) /\ Pos \in 1 .. Len(letters) /\ Len(letters) \in Nat
      /\ \A q \in 1 .. Pos - 1 : ShortArg(letters[q]) \notin {1, 2}
      /\ ReadWord(argv, optind) = ReadCluster(argv, optind, letters)
      /\ Letter = letters[Pos] /\ Letter \in STRING
  BY AtLetter
<1>2. PICK n \in 0 .. Len(letters), opts \in Seq(Option), w \in {1, 2} :
         ClusterReads(argv, optind, letters, n, opts, w)
  BY <1>1, ClusterIs
<1>3. ReadWord(argv, optind).opts = opts /\ ReadWord(argv, optind).words = w /\ Len(opts) = n
  BY <1>1, <1>2 DEF ClusterReads
<1>4. ArgAt(letters) = Pos /\ Pos # 0
  <2> HIDE DEF letters
  <2>1. ShortArg(letters[Pos]) \in {1, 2}
    BY <1>1
  <2>2. PICK p \in 1 .. Len(letters) : p = Pos
    BY <1>1
  <2>3. \A q \in 1 .. p - 1 : ShortArg(letters[q]) \notin {1, 2}
    BY <1>1, <2>2
  <2>4. ArgAt(letters) = p /\ p \in Nat \ {0}
    <3>1. letters \in Seq(STRING) /\ p \in 1 .. Len(letters) /\ ShortArg(letters[p]) \in {1, 2}
      BY <1>1, <2>1, <2>2
    <3> QED
      BY ONLY <2>3, <3>1, ArgAtFrom
  <2> QED
    BY <2>2, <2>4
<1>5. n = Pos
  BY <1>2, <1>4 DEF ClusterReads
<1>6. AtLast <=> Pos = Len(letters)
  BY DEF AtLast
<1> HIDE DEF letters
<1>7. CASE ~AtLast
  <2>1. w = 1 /\ opts[Pos] = [opt |-> Letter, arg |-> <<"rest", optind, Pos + 1>>]
    BY <1>1, <1>2, <1>4, <1>5, <1>6, <1>7 DEF ClusterReads
  <2> QED
    BY <1>1, <1>3, <1>5, <1>7, <2>1 DEF ShortReads
<1>8. CASE AtLast
  <2>1. ShortArg(letters[Pos]) = 1
    BY <1>1, <1>8
  <2>2. Taken(argv, optind, letters[Pos], ShortArg(letters[Pos]) = 1)
           = [opts |-> <<opts[Pos]>>, words |-> w]
    BY <1>2, <1>4, <1>5, <1>6, <1>8 DEF ClusterReads
  <2>3. CASE optind < Len(argv)
    <3>1. Taken(argv, optind, letters[Pos], ShortArg(letters[Pos]) = 1)
             = [opts |-> <<[opt |-> Letter, arg |-> <<"word", optind + 1>>]>>, words |-> 2]
      BY <1>1, <2>1, <2>3 DEF Taken
    <3>2. w = 2 /\ <<opts[Pos]>> = <<[opt |-> Letter, arg |-> <<"word", optind + 1>>]>>
      BY <2>2, <3>1
    <3>3. opts[Pos] = [opt |-> Letter, arg |-> <<"word", optind + 1>>]
      BY <3>2
    <3> QED
      BY <1>1, <1>3, <1>5, <1>8, <2>3, <3>2, <3>3 DEF ShortReads
  <2>4. CASE ~(optind < Len(argv))
    <3>1. Taken(argv, optind, letters[Pos], ShortArg(letters[Pos]) = 1)
             = [opts |-> <<[opt |-> "?", arg |-> None]>>, words |-> 1]
      BY <1>1, <2>1, <2>4 DEF Taken
    <3>2. w = 1 /\ <<opts[Pos]>> = <<[opt |-> "?", arg |-> None]>>
      BY <2>2, <3>1
    <3>3. opts[Pos] = [opt |-> "?", arg |-> None]
      BY <3>2
    <3> QED
      BY <1>1, <1>3, <1>5, <1>8, <2>4, <3>2, <3>3 DEF ShortReads
  <2> QED
    BY <1>8, <2>3, <2>4
<1> QED
  BY <1>7, <1>8

LEMMA ShortRestKeeps == ASSUME ParseInv, ShortRest PROVE ParseInv'
<1> DEFINE o == [opt |-> Letter, arg |-> <<"rest", optind, Pos + 1>>]
<1>1. AtWord("short") /\ ShortArg(Letter) \in {1, 2} /\ ~AtLast
  BY DEF ShortRest, ShortRestIn, AtShort
<1>2. ShortReads(o, 1)
  BY <1>1, WithArgReads
<1>3. o.arg[2] \in DOMAIN argv
  BY <1>1, AtLetter
<1>4. /\ argv' = argv /\ done' = done /\ flags' = flags
      /\ returned' = Append(returned, o) /\ SkipWords(1)
  BY DEF ShortRest, ShortRestIn, Returns
<1> HIDE DEF o
<1> QED
  BY <1>2, <1>3, <1>4, ShortKeeps

LEMMA ShortNextWordKeeps == ASSUME ParseInv, ShortNextWord PROVE ParseInv'
<1> DEFINE o == [opt |-> Letter, arg |-> <<"word", optind + 1>>]
<1>1. AtWord("short") /\ ShortArg(Letter) = 1 /\ AtLast /\ optind < Len(argv)
  BY DEF ShortNextWord, TakeNextWord, AtShort
<1>2. ShortReads(o, 2)
  BY <1>1, WithArgReads
<1>3. o.arg[2] \in DOMAIN argv
  BY <1>1, AtLetter
<1>4. /\ argv' = argv /\ done' = done /\ flags' = flags
      /\ returned' = Append(returned, o) /\ SkipWords(2)
  BY DEF ShortNextWord, TakeNextWord, Returns
<1> HIDE DEF o
<1> QED
  BY <1>2, <1>3, <1>4, ShortKeeps

LEMMA ShortMissingKeeps == ASSUME ParseInv, ShortMissing PROVE ParseInv'
<1> DEFINE o == [opt |-> "?", arg |-> None]
<1>1. AtWord("short") /\ ShortArg(Letter) = 1 /\ AtLast /\ ~(optind < Len(argv))
  BY DEF ShortMissing, AtShort, ParseInv, TypeOK
<1>2. ShortReads(o, 1) /\ o.arg = None
  BY <1>1, WithArgReads
<1>4. /\ argv' = argv /\ done' = done /\ flags' = flags
      /\ returned' = Append(returned, o) /\ SkipWords(1)
  BY DEF ShortMissing, Error, Returns
<1> HIDE DEF o
<1> QED
  BY <1>2, <1>4, ShortKeeps

-----------------------------------------------------------------------------
LEMMA StutterKeeps == ASSUME ParseInv, UNCHANGED vars PROVE ParseInv'
<1>1. TypeOK'
  BY DEF ParseInv, vars, TypeOK, Word
<1>2. Plain'
  BY DEF ParseInv, vars, Plain
<1>3. AllRead' <=> AllRead
  BY DEF vars, AllRead, AtFirst, SteppedOver
<1>4. Pos' = Pos
  BY DEF vars, Pos
<1>5. Reads(argv, returned, optind, Pos)' <=> Reads(argv, returned, optind, Pos)
  BY <1>4, Zenon DEF vars, Reads
<1> QED
  BY <1>1, <1>2, <1>3, <1>5 DEF ParseInv, vars

THEOREM ParseInvariance == Spec => []ParseInv
<1>1. Init => ParseInv
  BY InvInit
<1>2. ParseInv /\ [Next]_vars => ParseInv'
  BY NoOptionKeeps, LastOptionKeeps, LoneDashKeeps, LongUnknownKeeps, LongMissingKeeps, LongOptionKeeps,
     ShortUnknownKeeps, ShortPlainKeeps, ShortRestKeeps, ShortNextWordKeeps,
     ShortMissingKeeps, StutterKeeps DEF Next
<1> QED
  BY <1>1, <1>2, PTL DEF Spec

(* optind stays in argv or just behind it, and an open cluster is the word  *)
(* at optind with a letter left to read.                                    *)
THEOREM TypeCorrect == Spec => []TypeOK
<1>1. ParseInv => TypeOK
  BY DEF ParseInv
<1> QED
  BY <1>1, ParseInvariance, PTL

(* The calls of opt_parse_long return the options that are written in argv, *)
(* each once, in order, with its own argument, and -1 after the last with   *)
(* optind at the first operand or, if that is a lone "-", maybe behind it,  *)
(* for every argv, optstring and table of long options.                     *)
THEOREM ReturnsWhatIsWritten == Spec => []ReadsAsWritten
<1>1. ASSUME ParseInv PROVE ReadsAsWritten
  <2>1. argv \in Seq(ArgvWord) /\ returned \in Seq(Option) /\ optind \in Positive /\ 1 \in Positive
    BY <1>1 DEF ParseInv, TypeOK, Positive
  <2>2. Read(argv)[1].opts \in Seq(Option)
    BY <2>1, ReadIs DEF Readings
  <2>3. CASE done
    <3>1. AllRead
      BY <1>1, <2>3 DEF ParseInv
    <3>2. IsPrefix(returned, returned)
      BY <2>1 DEF IsPrefix
    <3> QED
      BY <3>1, <3>2 DEF AllRead, AtFirst, ReadsAsWritten
  <2>4. CASE ~done
    <3>1. Reads(argv, returned, optind, Pos)
      BY <1>1, <2>4 DEF ParseInv
    <3>2. Read(argv)[optind].opts \in Seq(Option)
      BY <2>1, ReadIs DEF Readings
    <3>3. IsPrefix(returned, Read(argv)[1].opts)
      BY <2>1, <3>1, <3>2, ReadIsPrefix DEF Reads
    <3> QED
      BY <2>4, <3>3 DEF ReadsAsWritten
  <2> QED
    BY <2>3, <2>4
<1> QED
  BY <1>1, ParseInvariance, PTL

-----------------------------------------------------------------------------
LoadType ==
    /\ loadPc \in {"idle", "loop", "fit", "end", "exit"}
    /\ length \in Nat /\ left \in Nat /\ cb \in Nat
    /\ capacity \in Nat /\ off \in Nat /\ memOff \in Nat /\ padding \in Nat
    /\ eof \in BOOLEAN /\ readErr \in BOOLEAN /\ overrun \in BOOLEAN
    /\ data \in {"buffer", NoBuffer}

(* What the caller asks to leave free fits in the first capacity. *)
Fits == memOff + padding <= FirstCapacity

(* Every byte read is behind memOff, in the block at hand, or still to come. *)
Pending == IF loadPc = "fit" THEN cb ELSE 0

LoadInv ==
    /\ loadPc \in {"loop", "fit", "end"} /\ Fits =>
          /\ FirstCapacity <= capacity /\ 2 * capacity < SizeLimit
          /\ off + padding <= capacity
          /\ memOff <= off /\ off + (Pending + left) = memOff + length
    /\ eof => left = 0
    /\ loadPc = "fit" => cb <= BlockSize /\ (cb < BlockSize => eof)
    /\ loadPc = "end" => eof \/ readErr
    /\ readErr => loadPc \in {"end", "idle"} /\ data = NoBuffer

(* Without a buffer nothing is written but the last block: a full one does  *)
(* not fit in the first capacity.                                           *)
BufferInv ==
    Fits =>
      /\ data = NoBuffer /\ (loadPc = "fit" \/ (loadPc = "loop" /\ ~eof)) =>
            capacity = FirstCapacity /\ off = memOff
      /\ overrun => data = NoBuffer /\ eof /\ loadPc # "fit"

(* process_files, between two of its steps. *)
FilesInv ==
    /\ err \in BOOLEAN /\ failed \in BOOLEAN /\ open \in BOOLEAN
    /\ filesPc \in {"check", "open", "decide"} => paths # <<>> /\ err = failed /\ ~open
    /\ filesPc = "options" => ~open
    /\ filesPc = "stdin" => paths = <<>> /\ ~failed /\ ~open
    /\ filesPc = "handle" => open = (paths # <<>>) /\ IF open THEN err = failed ELSE ~failed
    /\ filesPc = "returned" => err = (failed = (paths # <<>>)) /\ ~open

ProcessInv == LoadType /\ LoadInv /\ BufferInv /\ FilesInv

(***************************************************************************)
(* The loop of _load_file.                                                 *)
(***************************************************************************)
LEMMA Numbers ==
    /\ BlockSize \in Nat /\ FirstCapacity \in Nat /\ SizeLimit \in Nat
    /\ SizeLimit > 0 /\ FirstCapacity < BlockSize /\ 2 * FirstCapacity < SizeLimit
    /\ FileSize \subseteq Nat /\ MemOff \subseteq Nat /\ Padding \subseteq Nat
    /\ NoBuffer # "buffer"
BY LoadAssumption

(* Differences that do not go below 0 do not wrap round. *)
LEMMA NoWrap == ASSUME NEW x \in Nat, x < SizeLimit PROVE x % SizeLimit = x
BY Numbers

LEMMA RemainingExact ==
    ASSUME LoadType, LoadInv, Fits, loadPc = "fit"
    PROVE  /\ Remaining = capacity - off - padding
           /\ Remaining \in Nat
<1>1. capacity - off - padding \in Nat /\ capacity - off - padding < SizeLimit
  BY Numbers DEF LoadType, LoadInv
<1> QED
  BY <1>1, NoWrap DEF Remaining

LEMMA FitsKept == ASSUME UNCHANGED <<memOff, padding>> PROVE Fits' <=> Fits
BY DEF Fits

(* A block that is short is the last. *)
LEMMA BlockRead ==
    ASSUME LoadType, LoadInv, ReadBlock
    PROVE  /\ cb' \in Nat /\ cb' <= BlockSize /\ left' \in Nat /\ cb' + left' = left
           /\ eof' \in BOOLEAN /\ (eof' <=> cb' < BlockSize) /\ (eof' => left' = 0)
<1> USE Numbers DEF LoadType, LoadInv, ReadBlock
<1>1. cb' \in Nat /\ cb' <= BlockSize /\ left' \in Nat /\ cb' + left' = left
  OBVIOUS
<1>2. eof' = (cb' < BlockSize) /\ (cb' < BlockSize) \in BOOLEAN
  OBVIOUS
<1>3. eof' \in BOOLEAN /\ (eof' <=> cb' < BlockSize)
  BY ONLY <1>2
<1>4. cb' < BlockSize => left' = 0
  OBVIOUS
<1> QED
  BY ONLY <1>1, <1>3, <1>4

LEMMA LoadTypeStep == ASSUME LoadType, LoadInv, LoadNext PROVE LoadType'
<1> USE Numbers DEF LoadType
<1>1. CASE ReadBlock
  BY <1>1, BlockRead DEF ReadBlock
<1>2. CASE ReadFails
  BY <1>2 DEF ReadFails
<1>3. CASE Grow
  BY <1>3 DEF Grow
<1>4. CASE GrowFails
  BY <1>4 DEF GrowFails
<1>5. CASE CopyBlock
  <2>1. off' \in Nat
    BY <1>5 DEF CopyBlock
  <2>2. overrun' \in BOOLEAN
    BY <1>5 DEF CopyBlock
  <2> QED
    BY <1>5, <2>1, <2>2 DEF CopyBlock
<1>6. CASE LoadEnd
  BY <1>6 DEF LoadEnd
<1> QED
  BY <1>1, <1>2, <1>3, <1>4, <1>5, <1>6 DEF LoadNext

(* The buffer grows exactly, and only a block that fits is copied. *)
LEMMA LoadInvStep == ASSUME LoadType, LoadInv, LoadNext PROVE LoadInv'
<1> USE Numbers DEF LoadType, LoadInv, Pending
<1>1. CASE ReadBlock
  BY <1>1, BlockRead, FitsKept DEF ReadBlock
<1>2. CASE ReadFails
  BY <1>2, FitsKept DEF ReadFails
<1>3. CASE Grow
  <2>1. Fits => capacity' = capacity * 2
    <3> SUFFICES ASSUME Fits PROVE capacity' = capacity * 2
      OBVIOUS
    <3>1. capacity \in Nat /\ 2 * capacity < SizeLimit
      BY <1>3 DEF Grow
    <3>2. capacity * 2 \in Nat /\ capacity * 2 < SizeLimit
      BY <3>1
    <3> QED
      BY <1>3, <3>2, NoWrap DEF Grow
  <2> QED
    BY <1>3, <2>1, FitsKept DEF Grow
<1>4. CASE GrowFails
  BY <1>4, FitsKept DEF GrowFails
<1>5. CASE CopyBlock
  <2>1. Fits => Remaining = capacity - off - padding
    BY <1>5, RemainingExact DEF CopyBlock
  <2>2. Fits => off' + padding <= capacity
    BY <1>5, <2>1 DEF CopyBlock
  <2> QED
    BY <1>5, <2>2, FitsKept DEF CopyBlock
<1>6. CASE LoadEnd
  BY <1>6, FitsKept DEF LoadEnd
<1> QED
  BY <1>1, <1>2, <1>3, <1>4, <1>5, <1>6 DEF LoadNext

(* What is written outside the buffer is never part of what is returned. *)
LEMMA BufferInvStep == ASSUME LoadType, LoadInv, BufferInv, LoadNext PROVE BufferInv'
<1> USE DEF BufferInv
<1>1. CASE ReadBlock
  BY <1>1, FitsKept DEF ReadBlock
<1>2. CASE ReadFails
  BY <1>2, FitsKept DEF ReadFails, LoadType
<1>3. CASE Grow
  BY <1>3, FitsKept, Numbers DEF Grow
<1>4. CASE GrowFails
  BY <1>4, FitsKept DEF GrowFails
<1>5. CASE CopyBlock
  <2> SUFFICES ASSUME Fits' PROVE BufferInv'
    OBVIOUS
  <2>1. Fits /\ ~overrun
    BY <1>5, FitsKept DEF CopyBlock
  <2>2. Remaining = capacity - off - padding /\ off + cb <= capacity
    BY <1>5, <2>1, RemainingExact DEF CopyBlock, LoadType
  <2>3. data = NoBuffer => eof
    <3> SUFFICES ASSUME data = NoBuffer, ~eof PROVE FALSE
      OBVIOUS
    <3>1. capacity = FirstCapacity /\ cb = BlockSize
      BY <1>5, <2>1, Numbers DEF CopyBlock, LoadType, LoadInv
    <3> QED
      BY <1>5, <2>1, <2>2, <3>1, Numbers DEF CopyBlock, LoadType
  <2>4. overrun' => data = NoBuffer
    BY <1>5, <2>1, <2>2 DEF CopyBlock, LoadType
  <2> QED
    BY <1>5, <2>3, <2>4 DEF CopyBlock
<1>6. CASE LoadEnd
  BY <1>6, FitsKept DEF LoadEnd
<1> QED
  BY <1>1, <1>2, <1>3, <1>4, <1>5, <1>6 DEF LoadNext

LEMMA LoadStep ==
    ASSUME LoadType, LoadInv, BufferInv, LoadNext
    PROVE  LoadType' /\ LoadInv' /\ BufferInv'
BY LoadTypeStep, LoadInvStep, BufferInvStep

LEMMA LoadBegins == ASSUME LoadBegin PROVE LoadType' /\ LoadInv' /\ BufferInv'
<1>1. LoadType'
  BY Numbers DEF LoadBegin, LoadType
<1>2. /\ loadPc' = "loop" /\ ~eof' /\ ~readErr' /\ left' = length'
      /\ capacity' = FirstCapacity /\ off' = memOff'
  BY DEF LoadBegin
<1>3. Fits' => off' + padding' <= capacity'
  BY <1>2 DEF Fits
<1>4. Pending' = 0
  BY <1>2 DEF Pending
<1>5. LoadInv'
  <2>1. FirstCapacity <= capacity' /\ 2 * capacity' < SizeLimit
    BY <1>2, Numbers
  <2>2. memOff' <= off' /\ off' + (Pending' + left') = memOff' + length'
    BY <1>1, <1>2, <1>4 DEF LoadType
  <2> QED
    BY <1>2, <1>3, <2>1, <2>2 DEF LoadInv
<1>6. BufferInv'
  BY DEF LoadBegin, BufferInv
<1> QED
  BY <1>1, <1>5, <1>6

LEMMA LoadKept ==
    ASSUME LoadType, LoadInv, BufferInv, UNCHANGED loadVars
    PROVE  LoadType' /\ LoadInv' /\ BufferInv'
BY DEF loadVars, LoadType, LoadInv, BufferInv, Fits, Pending

(***************************************************************************)
(* process_files around it.                                                *)
(***************************************************************************)
LEMMA ProcessStep == ASSUME ProcessInv, FilesNext PROVE ProcessInv'
<1> USE DEF ProcessInv, FilesInv
<1>1. ASSUME NEW o \in Opt, ParseOption(o) PROVE ProcessInv'
  BY <1>1, LoadKept DEF ParseOption
<1>2. ASSUME NEW ps \in PathList, CallProcessFiles(ps) PROVE ProcessInv'
  BY <1>2, LoadKept DEF CallProcessFiles
<1>3. CASE CheckPath
  BY <1>3, LoadKept DEF CheckPath
<1>4. CASE OpenFails
  BY <1>4, LoadKept DEF OpenFails
<1>5. CASE CallHandler
  BY <1>5, LoadBegins DEF CallHandler
<1>6. CASE Handle
  BY <1>6, LoadStep DEF Handle, filesVars
<1>7. CASE HandlerReturns
  <2>1. LoadType' /\ LoadInv' /\ BufferInv'
    BY <1>7 DEF HandlerReturns, EndHandler, LoadType, LoadInv, BufferInv, Fits, Pending
  <2>2. FilesInv'
    BY <1>7 DEF HandlerReturns, EndHandler, Handled
  <2> QED
    BY <2>1, <2>2
<1>8. CASE Decide
  BY <1>8, LoadKept DEF Decide
<1> QED
  BY <1>1, <1>2, <1>3, <1>4, <1>5, <1>6, <1>7, <1>8 DEF FilesNext

(* The inductive invariant holds in every reachable state. *)
THEOREM ProcessInvariance == FilesSpec => []ProcessInv
<1>1. FilesInit => ProcessInv
  <2> SUFFICES ASSUME FilesInit PROVE ProcessInv
    OBVIOUS
  <2>1. LoadType
    BY DEF FilesInit, LoadInit, LoadType
  <2>2. LoadInv /\ BufferInv
    BY DEF FilesInit, LoadInit, LoadInv, BufferInv
  <2>3. FilesInv
    BY DEF FilesInit, FilesInv
  <2> QED
    BY <2>1, <2>2, <2>3 DEF ProcessInv
<1>2. ProcessInv /\ [FilesNext]_processVars => ProcessInv'
  <2> SUFFICES ASSUME ProcessInv, [FilesNext]_processVars PROVE ProcessInv'
    OBVIOUS
  <2>1. CASE FilesNext
    BY <2>1, ProcessStep
  <2>2. CASE UNCHANGED processVars
    BY <2>2, LoadKept DEF processVars, filesVars, ProcessInv, FilesInv
  <2> QED
    BY <2>1, <2>2
<1> QED
  BY <1>1, <1>2, PTL DEF FilesSpec

(* What _load_file returns is the file, the whole file, with the space that *)
(* was asked for left around it.                                            *)
THEOREM LoadsWhole == FilesSpec => []LoadedWhole
<1>1. ProcessInv => LoadedWhole
  BY DEF ProcessInv, LoadType, LoadInv, BufferInv, Fits, Pending, LoadedWhole, LoadedSize
<1> QED
  BY <1>1, ProcessInvariance, PTL

(* process_files reports a failure if and only if there was one. *)
THEOREM ReportsFailures == FilesSpec => []FailuresReported
<1>1. ProcessInv => FailuresReported
  BY DEF ProcessInv, FilesInv, FailuresReported
<1> QED
  BY <1>1, ProcessInvariance, PTL
=============================================================================
