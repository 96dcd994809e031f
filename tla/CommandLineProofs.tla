------------------------- MODULE CommandLineProofs -------------------------
(***************************************************************************)
(* Proofs about what happens to a command line, in args_parse and in the   *)
(* command line interpreter.                                               *)
(*                                                                         *)
(* Args: the text functions on words of any length, who owns which object  *)
(* whichever allocations fail, and what argv holds in the end.             *)
(*                                                                         *)
(* CliParser: every argument array is freed, however lines are nested and  *)
(* however they end, and handlers get what the statement says.             *)
(***************************************************************************)
EXTENDS Args, CliParser, SequenceLemmas, SequenceTheorems, FiniteSetTheorems

(* Characters are strings; the provers do not know that literals are.       *)
Char == STRING \cup {Space, Backslash} \cup Quotes
Text == Seq(Char)
LexState == [words : Seq(Text), cur : Text, inWord : BOOLEAN, escaped : BOOLEAN,
             quote : Quotes \cup {""}]

LEMMA TextConcat ==
    ASSUME NEW s \in Text, NEW t \in Text
    PROVE  s \o t \in Text
  BY ConcatProperties DEF Text

Associates(s, t, u) == s \o (t \o u) = (s \o t) \o u

LEMMA TextAssoc ==
    ASSUME NEW s \in Text, NEW t \in Text, NEW u \in Text
    PROVE  Associates(s, t, u)
  BY ConcatAssociative DEF Text, Associates

LEMMA TextsAssoc ==
    ASSUME NEW s \in Seq(Text), NEW t \in Seq(Text), NEW u \in Seq(Text)
    PROVE  Associates(s, t, u)
  BY ConcatAssociative DEF Associates

Regroups(s, a, b, c, d) == s \o (((a \o b) \o c) \o d) = (((s \o a) \o b) \o c) \o d

LEMMA TextConcats ==
    ASSUME NEW s \in Text, NEW a \in Text, NEW b \in Text, NEW c \in Text, NEW d \in Text
    PROVE  Regroups(s, a, b, c, d)
<1>1. PICK ab \in Text : ab = a \o b
  BY TextConcat
<1>2. PICK abc \in Text : abc = ab \o c
  BY TextConcat
<1>3. s \in Text /\ a \in Text /\ b \in Text
  OBVIOUS
<1>4. Associates(s, abc, d)
  <2>1. abc \in Text /\ d \in Text
    OBVIOUS
  <2> QED
    BY ONLY <1>3, <2>1, TextAssoc
<1>5. Associates(s, ab, c)
  <2>1. ab \in Text /\ c \in Text
    OBVIOUS
  <2> QED
    BY ONLY <1>3, <2>1, TextAssoc
<1>6. Associates(s, a, b)
  BY ONLY <1>3, TextAssoc
<1> QED
  BY ONLY <1>1, <1>2, <1>4, <1>5, <1>6 DEF Regroups, Associates

LEMMA OneChar ==
    ASSUME NEW s \in Text, NEW ch \in Char
    PROVE  <<ch>> \in Text /\ Append(s, ch) = s \o <<ch>>
  BY DEF Text

LEMMA OnlyOf ==
    ASSUME NEW v
    PROVE  Only({v}) = v
  BY Zenon DEF Only

LEMMA TextAppend ==
    /\ \A t \in Text : \A ch \in Char : Append(t, ch) \in Text
    /\ \A s \in Seq(Text) : \A t \in Text : Append(s, t) \in Seq(Text)
    /\ <<>> \in Text /\ <<>> \in Seq(Text)
<1>1. ASSUME NEW t \in Text, NEW ch \in Char PROVE Append(t, ch) \in Text
  <2>1. t \in Seq(Char)
    BY DEF Text
  <2>2. Append(t, ch) \in Seq(Char)
    BY <2>1
  <2> QED
    BY <2>2 DEF Text
<1>2. \A s \in Seq(Text) : \A t \in Text : Append(s, t) \in Seq(Text)
  OBVIOUS
<1>3. <<>> \in Text
  BY DEF Text
<1>4. <<>> \in Seq(Text)
  OBVIOUS
<1> QED
  BY <1>1, <1>2, <1>3, <1>4

LEMMA LexStepType ==
    ASSUME NEW s \in LexState, NEW ch \in Char
    PROVE  LexStep(s, ch) \in LexState
<1>1. Take(s, ch) \in LexState
  BY TextAppend DEF Take, LexState
<1>2. Escaped(s) \in LexState
  BY DEF LexState, Escaped
<1>3. Closed(s) \in LexState
  BY DEF LexState, Closed
<1>4. ch \in Quotes => Opened(s, ch) \in LexState
  BY DEF LexState, Opened
<1>5. WordEnded(s) \in LexState
  <2>1. Append(s.words, s.cur) \in Seq(Text)
    BY TextAppend DEF LexState
  <2> QED
    BY <2>1, TextAppend DEF LexState, LexStart, WordEnded
<1> QED
  BY <1>1, <1>2, <1>3, <1>4, <1>5 DEF LexStep

(* f gives the scanner's states. *)
Scanning(text, f) ==
    /\ f \in [0 .. Len(text) -> LexState]
    /\ f[0] = LexStart
    /\ \A n \in 1 .. Len(text) : f[n] = LexStep(f[n - 1], text[n])
    /\ Scan(text) = f[Len(text)]

LEMMA ScanIs ==
    ASSUME NEW text \in Text
    PROVE  \E f : Scanning(text, f)
<1> DEFINE D == 0 .. Len(text)
           Right(f, n) == IF n = 0 THEN LexStart
                          ELSE Only({LexStep(s, text[n]) : s \in {f[n - 1]}})
           rank == [n \in D |-> n]
           body == [f \in [D -> LexState] |-> [n \in D |-> Right(f, n)]]
<1>1. Len(text) \in Nat /\ 0 \in D /\ Len(text) \in D
  BY DEF Text
<1>2. \A n \in D : n # 0 => n - 1 \in D /\ n - 1 < n /\ text[n] \in Char
  BY <1>1 DEF Text
<1>3. LexStart \in LexState
  BY TextAppend DEF LexState, LexStart
<1>4. ASSUME NEW f, NEW n \in D, n # 0 PROVE Right(f, n) = LexStep(f[n - 1], text[n])
  <2>1. {LexStep(s, text[n]) : s \in {f[n - 1]}} = {LexStep(f[n - 1], text[n])}
    OBVIOUS
  <2> QED
    BY <1>4, <2>1, OnlyOf
<1>5. ASSUME NEW f \in [D -> LexState], NEW n \in D PROVE Right(f, n) \in LexState
  <2>1. CASE n = 0
    BY <1>3, <2>1
  <2>2. CASE n # 0
    <3>1. f[n - 1] \in LexState
      <4> HIDE DEF D
      <4> QED
        BY <1>2, <2>2
    <3> HIDE DEF D, Right
    <3> QED
      BY <1>2, <1>4, <2>2, <3>1, LexStepType
  <2> QED
    BY <2>1, <2>2
<1>6. \E f \in [D -> LexState] : f = body[f]
  <2>1. LexState # {} /\ Len(text) + 1 \in Nat
    BY <1>1, <1>3
  <2>2. rank \in [D -> Nat] /\ \A n \in D : rank[n] < Len(text) + 1
    BY <1>1
  <2>3. body \in [[D -> LexState] -> [D -> LexState]]
    <3> HIDE DEF D, Right
    <3> QED
      BY <1>5
  <2>4. ASSUME NEW f \in [D -> LexState], NEW g \in [D -> LexState], NEW n \in D,
               \A m \in D : rank[m] < rank[n] => f[m] = g[m]
        PROVE  body[f][n] = body[g][n]
    <3>1. \A m \in D : rank[m] = m
      OBVIOUS
    <3>2. n # 0 => f[n - 1] = g[n - 1]
      <4> HIDE DEF D, rank
      <4> QED
        BY <1>2, <2>4, <3>1
    <3>3. Right(f, n) = Right(g, n)
      BY <3>2
    <3> HIDE DEF D, Right
    <3> QED
      BY <3>3
  <2>5. \A f, g \in [D -> LexState] : \A n \in D :
            (\A m \in D : rank[m] < rank[n] => f[m] = g[m]) => body[f][n] = body[g][n]
    <3> HIDE DEF D, rank, body
    <3> QED
      BY <2>4
  <2> HIDE DEF D, rank, body
  <2>6. Recursion(D, LexState, rank, Len(text) + 1, body)
    BY <2>1, <2>2, <2>3, <2>5 DEF Recursion
  <2> QED
    BY <2>6, RecursionExists
<1>7. PICK f \in [D -> LexState] : f = body[f]
  BY <1>6
<1>8. f = [n \in D |-> Right(f, n)]
  <2> HIDE DEF D, Right
  <2> QED
    BY <1>7
<1>9. PICK h : h = [n \in D |-> Right(h, n)] /\ Scan(text) = h[Len(text)]
  <2> DEFINE h == CHOOSE h : h = [n \in D |-> Right(h, n)]
  <2>1. h = [n \in D |-> Right(h, n)]
    BY <1>8, Zenon
  <2>2. Scan(text) = h[Len(text)]
    BY Zenon DEF Scan
  <2> QED
    BY <2>1, <2>2
<1>10. \A n \in D : h[n] = Right(h, n)
  <2> HIDE DEF D, Right
  <2> QED
    BY <1>9
<1>11. h[0] = LexStart /\ \A n \in 1 .. Len(text) : h[n] = LexStep(h[n - 1], text[n])
  <2>1. h[0] = LexStart
    BY <1>1, <1>10
  <2>2. ASSUME NEW n \in 1 .. Len(text) PROVE h[n] = LexStep(h[n - 1], text[n])
    <3>1. n \in D /\ n # 0
      BY <1>1
    <3> HIDE DEF D, Right
    <3> QED
      BY <1>4, <1>10, <3>1
  <2> QED
    BY <2>1, <2>2
<1>12. 0 .. Len(text) \subseteq {n \in D : h[n] \in LexState}
  <2> DEFINE Good == {n \in D : h[n] \in LexState}
  <2>1. 0 \in Good
    BY <1>1, <1>3, <1>11
  <2>2. ASSUME NEW n \in 1 .. Len(text), n - 1 \in Good PROVE n \in Good
    <3>1. n \in D /\ h[n - 1] \in LexState /\ text[n] \in Char
      BY <1>2, <2>2
    <3> HIDE DEF D
    <3> QED
      BY <1>11, <3>1, LexStepType
  <2>3. \A n \in 1 .. Len(text) : n - 1 \in Good => n \in Good
    <3> HIDE DEF Good
    <3> QED
      BY <2>2
  <2>4. 0 .. Len(text) \subseteq Good
    <3> HIDE DEF Good, D
    <3> QED
      BY <1>1, <2>1, <2>3, UpTo
  <2> QED
    BY <2>4
<1>13. h \in [D -> LexState]
  <2>1. \A n \in D : h[n] \in LexState
    BY <1>12
  <2> HIDE DEF D, Right
  <2> QED
    BY <1>9, <2>1
<1>14. Scanning(text, h)
  BY <1>9, <1>11, <1>13 DEF Scanning
<1> QED
  BY <1>14

LEMMA ScanNothing == Scan(<<>>) = LexStart
<1>1. <<>> \in Text /\ Len(<<>>) = 0
  BY DEF Text
<1>2. PICK f : Scanning(<<>>, f)
  BY <1>1, ScanIs
<1> QED
  BY <1>1, <1>2 DEF Scanning

LEMMA ScanType ==
    ASSUME NEW text \in Text
    PROVE  Scan(text) \in LexState /\ LexWords(text) \in Seq(Text)
<1>1. PICK f : Scanning(text, f)
  BY ScanIs
<1>2. Len(text) \in 0 .. Len(text)
  BY DEF Text
<1>3. Scan(text) \in LexState
  BY <1>1, <1>2 DEF Scanning
<1>4. LexWords(text) \in Seq(Text)
  BY <1>3, TextAppend DEF LexWords, LexState
<1> QED
  BY <1>3, <1>4

LEMMA ScanAppend ==
    ASSUME NEW text \in Text, NEW ch \in Char
    PROVE  Scan(Append(text, ch)) = LexStep(Scan(text), ch)
<1> DEFINE more == Append(text, ch)
           N == Len(text)
<1>1. /\ more \in Text /\ Len(more) = N + 1 /\ N \in Nat /\ more[N + 1] = ch
      /\ \A n \in 1 .. N : more[n] = text[n]
  BY DEF Text
<1> HIDE DEF more
<1>2. PICK f : Scanning(text, f)
  BY ScanIs
<1>3. PICK g : Scanning(more, g)
  BY <1>1, ScanIs
<1> DEFINE Good == {n \in 0 .. N : f[n] = g[n]}
<1>4. 0 \in Good
  BY <1>1, <1>2, <1>3 DEF Scanning
<1>5. ASSUME NEW n \in 1 .. N, n - 1 \in Good PROVE n \in Good
  <2>1. n \in 1 .. Len(more) /\ f[n - 1] = g[n - 1] /\ more[n] = text[n]
    BY <1>1, <1>5
  <2> QED
    BY <1>2, <1>3, <2>1 DEF Scanning
<1>6. N \in Good
  <2>1. \A n \in 1 .. N : n - 1 \in Good => n \in Good
    <3> HIDE DEF Good
    <3> QED
      BY <1>5
  <2>2. N \in 0 .. N
    BY <1>1
  <2> HIDE DEF Good, N
  <2>3. 0 .. N \subseteq Good
    BY <1>1, <1>4, <2>1, UpTo
  <2> QED
    BY <2>2, <2>3
<1>7. g[N + 1] = LexStep(g[N], ch)
  <2>1. N + 1 \in 1 .. Len(more) /\ (N + 1) - 1 = N
    BY <1>1
  <2> QED
    BY <1>1, <1>3, <2>1 DEF Scanning
<1>8. g[N] = f[N]
  BY <1>6
<1> QED
  BY <1>1, <1>2, <1>3, <1>7, <1>8 DEF Scanning, more

-----------------------------------------------------------------------------
(* Quoting.  A word of ws has been read to cur, in the quotes q.            *)
Inside(s, ws, cur, q) ==
    /\ s \in LexState
    /\ s.words = ws /\ s.cur = cur
    /\ s.inWord = TRUE /\ s.escaped = FALSE /\ s.quote = q

(* ws has been read. *)
Between(s, ws) ==
    /\ s \in LexState
    /\ s.words = ws /\ s.cur = <<>>
    /\ s.inWord = FALSE /\ s.escaped = FALSE /\ s.quote = ""

QuotedChar(ch, q) == IF ch \in {q, Backslash} THEN <<Backslash, ch>> ELSE <<ch>>

LEMMA QuotesDiffer ==
    ASSUME NEW q \in Quotes
    PROVE  q # "" /\ q # Space /\ q # Backslash /\ q \in Char
  BY QuotesAssumption DEF Space, Backslash, Char

LEMMA TakeInside ==
    ASSUME NEW s \in LexState, NEW ch \in Char, s.inWord = TRUE
    PROVE  Inside(Take(s, ch), s.words, Append(s.cur, ch), s.quote)
  BY TextAppend DEF Take, LexState, Inside

LEMMA ReadQuotedChar ==
    ASSUME NEW text \in Text, NEW ws, NEW cur \in Text, NEW q \in Quotes, NEW ch \in Char,
           Inside(Scan(text), ws, cur, q)
    PROVE  /\ QuotedChar(ch, q) \in Text
           /\ Inside(Scan(text \o QuotedChar(ch, q)), ws, Append(cur, ch), q)
<1>1. Backslash \in Char
  BY DEF Char
<1>2. PICK s \in LexState : s = Scan(text)
  BY ScanType
<1>3. s.words = ws /\ s.cur = cur /\ s.inWord = TRUE /\ s.escaped = FALSE /\ s.quote = q
  BY <1>2 DEF Inside
<1>4. CASE ch \in {q, Backslash}
  <2>1. /\ <<Backslash, ch>> \in Seq(Char) /\ Append(text, Backslash) \in Seq(Char)
        /\ text \o <<Backslash, ch>> = Append(Append(text, Backslash), ch)
    BY <1>1 DEF Text
  <2>2. Scan(Append(text, Backslash)) = Escaped(s)
    <3>1. Scan(Append(text, Backslash)) = LexStep(s, Backslash)
      BY <1>1, <1>2, ScanAppend
    <3> QED
      BY <1>3, <3>1 DEF LexStep
  <2>3. PICK e \in LexState : e = Escaped(s)
    BY DEF LexState, Escaped
  <2>4. e.words = ws /\ e.cur = cur /\ e.inWord = TRUE /\ e.escaped = TRUE /\ e.quote = q
    BY <1>3, <2>3 DEF Escaped, LexState
  <2>5. Scan(Append(Append(text, Backslash), ch)) = LexStep(e, ch)
    BY <2>1, <2>2, <2>3, ScanAppend DEF Text
  <2>6. LexStep(e, ch) = Take(e, ch)
    BY <2>4 DEF LexStep
  <2>7. Inside(Take(e, ch), ws, Append(cur, ch), q)
    BY <2>4, TakeInside
  <2> QED
    BY <1>4, <2>1, <2>5, <2>6, <2>7 DEF QuotedChar, Text
<1>5. CASE ch \notin {q, Backslash}
  <2>1. <<ch>> \in Seq(Char) /\ text \o <<ch>> = Append(text, ch)
    BY DEF Text
  <2>2. Scan(Append(text, ch)) = LexStep(s, ch)
    BY <1>2, ScanAppend
  <2>3. LexStep(s, ch) = Take(s, ch)
    BY <1>3, <1>5, QuotesDiffer DEF LexStep
  <2>4. Inside(Take(s, ch), ws, Append(cur, ch), q)
    BY <1>3, TakeInside
  <2> QED
    BY <1>5, <2>1, <2>2, <2>3, <2>4 DEF QuotedChar, Text
<1> QED
  BY <1>4, <1>5

LEMMA PrefixesOf ==
    ASSUME NEW E, NEW s \in Seq(E)
    PROVE  /\ SubSeq(s, 1, 0) = <<>> /\ SubSeq(s, 1, Len(s)) = s
           /\ \A n \in 1 .. Len(s) : SubSeq(s, 1, n) = Append(SubSeq(s, 1, n - 1), s[n])
           /\ \A n \in 0 .. Len(s) : SubSeq(s, 1, n) \in Seq(E)
<1>1. SubSeq(s, 1, 0) = <<>> /\ SubSeq(s, 1, Len(s)) = s
  OBVIOUS
<1>2. \A n \in 0 .. Len(s) : SubSeq(s, 1, n) \in Seq(E)
  OBVIOUS
<1>3. ASSUME NEW n \in 1 .. Len(s) PROVE SubSeq(s, 1, n) = Append(SubSeq(s, 1, n - 1), s[n])
  OBVIOUS
<1> QED
  BY <1>1, <1>2, <1>3

(* The characters of a word, each quoted, one after the other.              *)
QuotedChars(word, q) == [x \in DOMAIN word |-> QuotedChar(word[x], q)]

LEMMA QuotedCharsType ==
    ASSUME NEW word \in Text, NEW q \in Quotes
    PROVE  /\ QuotedChars(word, q) \in Seq(Text) /\ Len(QuotedChars(word, q)) = Len(word)
           /\ \A x \in 1 .. Len(word) : QuotedChars(word, q)[x] = QuotedChar(word[x], q)
<1>1. DOMAIN word = 1 .. Len(word) /\ Len(word) \in Nat /\ \A x \in 1 .. Len(word) : word[x] \in Char
  BY DEF Text
<1>2. ASSUME NEW x \in 1 .. Len(word) PROVE QuotedChar(word[x], q) \in Text
  <2>1. word[x] \in Char /\ Backslash \in Char
    BY <1>1 DEF Char
  <2>2. <<word[x]>> \in Seq(Char) /\ <<Backslash, word[x]>> \in Seq(Char)
    BY <2>1
  <2> QED
    BY <2>2 DEF QuotedChar, Text
<1> QED
  BY <1>1, <1>2 DEF QuotedChars

LEMMA ReadQuotedChars ==
    ASSUME NEW text \in Text, NEW ws, NEW q \in Quotes, NEW word \in Text,
           Inside(Scan(text), ws, <<>>, q)
    PROVE  /\ FlattenSeq(QuotedChars(word, q)) \in Text
           /\ Inside(Scan(text \o FlattenSeq(QuotedChars(word, q))), ws, word, q)
<1> DEFINE ss == QuotedChars(word, q)
           N == Len(word)
           Part(n) == FlattenSeq(SubSeq(ss, 1, n))
           Good == {n \in 0 .. N : /\ Part(n) \in Text
                                   /\ Inside(Scan(text \o Part(n)), ws, SubSeq(word, 1, n), q)}
<1>1. N \in Nat /\ word \in Seq(Char) /\ \A x \in 1 .. N : word[x] \in Char
  BY DEF Text
<1>2. ss \in Seq(Text) /\ Len(ss) = N /\ \A x \in 1 .. N : ss[x] = QuotedChar(word[x], q)
  BY QuotedCharsType
<1> HIDE DEF ss, N
<1>3. \A n \in 0 .. N : Part(n) \in Text
  <2> SUFFICES ASSUME NEW n \in 0 .. N PROVE Part(n) \in Text
    OBVIOUS
  <2>1. SubSeq(ss, 1, n) \in Seq(Seq(Char))
    BY <1>2, PrefixesOf DEF Text
  <2> QED
    BY <2>1, FlattenType DEF Text
<1>4. 0 \in Good
  <2>1. SubSeq(ss, 1, 0) = <<>> /\ SubSeq(word, 1, 0) = <<>>
    BY <1>1, <1>2, PrefixesOf
  <2>2. Part(0) = <<>>
    BY <2>1, Len(<<>>) = 0 DEF FlattenSeq
  <2>3. text \o <<>> = text
    BY DEF Text
  <2>4. 0 \in 0 .. N
    BY <1>1
  <2> QED
    BY <1>3, <2>1, <2>2, <2>3, <2>4
<1>5. ASSUME NEW n \in 1 .. N, n - 1 \in Good PROVE n \in Good
  <2>1. n \in 0 .. N /\ n - 1 \in 0 .. N /\ Part(n - 1) \in Text
    BY <1>1, <1>5
  <2>2. SubSeq(ss, 1, n) = Append(SubSeq(ss, 1, n - 1), ss[n]) /\ SubSeq(ss, 1, n - 1) \in Seq(Seq(Char))
    BY <1>2, <2>1, PrefixesOf DEF Text
  <2>3. SubSeq(word, 1, n) = Append(SubSeq(word, 1, n - 1), word[n]) /\ SubSeq(word, 1, n - 1) \in Text
    BY <1>1, <2>1, PrefixesOf DEF Text, N
  <2>4. ss[n] = QuotedChar(word[n], q) /\ word[n] \in Char /\ ss[n] \in Text
    BY <1>1, <1>2
  <2>5. Part(n) = Part(n - 1) \o ss[n]
    BY <2>2, <2>4, FlattenAppend DEF Text
  <2>6. (text \o Part(n - 1)) \o ss[n] = text \o (Part(n - 1) \o ss[n])
        /\ text \o Part(n - 1) \in Text
    <3>1. text \in Text /\ Part(n - 1) \in Text /\ ss[n] \in Text
      BY <2>1, <2>4
    <3>2. Associates(text, Part(n - 1), ss[n])
      BY ONLY <3>1, TextAssoc
    <3>3. text \o Part(n - 1) \in Text
      BY ONLY <3>1, TextConcat
    <3> QED
      BY ONLY <3>2, <3>3 DEF Associates
  <2>7. Inside(Scan(text \o Part(n - 1)), ws, SubSeq(word, 1, n - 1), q)
    BY <1>5
  <2>8. Inside(Scan(text \o Part(n)), ws, SubSeq(word, 1, n), q)
    <3> HIDE DEF Part
    <3>1. Inside(Scan((text \o Part(n - 1)) \o QuotedChar(word[n], q)), ws,
                 Append(SubSeq(word, 1, n - 1), word[n]), q)
      BY <2>3, <2>4, <2>6, <2>7, ReadQuotedChar
    <3> QED
      BY <2>3, <2>4, <2>5, <2>6, <3>1
  <2> QED
    BY <1>3, <2>1, <2>8
<1>6. N \in Good
  <2>1. \A n \in 1 .. N : n - 1 \in Good => n \in Good
    BY <1>5
  <2>2. N \in 0 .. N
    BY <1>1
  <2> HIDE DEF Good
  <2>3. 0 .. N \subseteq Good
    BY <1>1, <1>4, <2>1, UpTo
  <2> QED
    BY <2>2, <2>3
<1>7. SubSeq(ss, 1, N) = ss /\ SubSeq(word, 1, N) = word
  BY <1>1, <1>2, PrefixesOf DEF N
<1> QED
  BY <1>6, <1>7 DEF ss

LEMMA ReadQuote ==
    ASSUME NEW text \in Text, NEW ws \in Seq(Text), NEW q \in Quotes, NEW word \in Text,
           Between(Scan(text), ws)
    PROVE  /\ Quote(word, q) \o <<Space>> \in Text
           /\ Between(Scan(text \o (Quote(word, q) \o <<Space>>)), Append(ws, word))
<1> DEFINE f == FlattenSeq(QuotedChars(word, q))
           opened == Append(text, q)
           written == opened \o f
           closed == Append(written, q)
<1>1. q \in Char /\ Space \in Char /\ q # "" /\ q # Space /\ q # Backslash /\ Space # Backslash
  BY QuotesDiffer DEF Char, Space, Backslash
<1>2. opened \in Text
  BY <1>1, TextAppend
<1>3. Inside(Scan(opened), ws, <<>>, q)
  <2>1. PICK s \in LexState : s = Scan(text)
    BY ScanType
  <2>2. /\ s.words = ws /\ s.cur = <<>> /\ s.inWord = FALSE /\ s.escaped = FALSE /\ s.quote = ""
    BY <2>1 DEF Between
  <2>3. Scan(opened) = LexStep(s, q)
    BY <1>1, <2>1, ScanAppend
  <2>4. LexStep(s, q) = Opened(s, q)
    BY <1>1, <2>2 DEF LexStep
  <2>5. Inside(Opened(s, q), ws, <<>>, q)
    BY <2>2 DEF Opened, Inside, LexState
  <2> QED
    BY <2>3, <2>4, <2>5
<1>4. f \in Text /\ Inside(Scan(written), ws, word, q)
  <2> HIDE DEF opened
  <2> QED
    BY <1>2, <1>3, ReadQuotedChars
<1>5. written \in Text /\ closed \in Text
  <2> HIDE DEF opened, f
  <2>1. written \in Text
    BY <1>2, <1>4, ConcatProperties DEF Text
  <2> QED
    BY <1>1, <2>1, TextAppend
<1>6. PICK c \in LexState : /\ c = Scan(closed) /\ c.words = ws /\ c.cur = word /\ c.inWord = TRUE
                            /\ c.escaped = FALSE /\ c.quote = ""
  <2> HIDE DEF opened, f, written
  <2>1. PICK s \in LexState : s = Scan(written)
    BY <1>5, ScanType
  <2>2. s.words = ws /\ s.cur = word /\ s.inWord = TRUE /\ s.escaped = FALSE /\ s.quote = q
    BY <1>4, <2>1 DEF Inside
  <2>3. Scan(closed) = LexStep(s, q)
    BY <1>1, <1>5, <2>1, ScanAppend
  <2>4. LexStep(s, q) = Closed(s)
    BY <1>1, <2>2 DEF LexStep
  <2>5. /\ Closed(s) \in LexState /\ Closed(s).words = ws /\ Closed(s).cur = word
        /\ Closed(s).inWord = TRUE /\ Closed(s).escaped = FALSE /\ Closed(s).quote = ""
    BY <2>2 DEF Closed, LexState
  <2> QED
    BY <2>3, <2>4, <2>5
<1>7. Between(Scan(Append(closed, Space)), Append(ws, word))
  <2> HIDE DEF closed
  <2>1. Space \notin Quotes
    BY QuotesAssumption DEF Space
  <2>2. Scan(Append(closed, Space)) = LexStep(c, Space)
    BY <1>1, <1>5, <1>6, ScanAppend
  <2>3. LexStep(c, Space) = WordEnded(c)
    BY <1>1, <1>6, <2>1 DEF LexStep
  <2>4. Append(ws, word) \in Seq(Text)
    BY TextAppend
  <2>5. Between(WordEnded(c), Append(ws, word))
    BY <1>6, <2>4, TextAppend DEF WordEnded, LexStart, Between, LexState
  <2> QED
    BY <2>2, <2>3, <2>5
<1>8. Quote(word, q) = <<q>> \o f \o <<q>>
  BY Zenon DEF Quote, QuotedChars, QuotedChar
<1>9. /\ Quote(word, q) \o <<Space>> \in Text
      /\ text \o (Quote(word, q) \o <<Space>>) = Append(closed, Space)
  <2>1. <<q>> \in Text /\ <<Space>> \in Text
    BY <1>1, OneChar
  <2>2. Append(closed, Space) = closed \o <<Space>> /\ closed = written \o <<q>>
    <3> HIDE DEF f, written
    <3> QED
      BY <1>1, <1>5, OneChar
  <2>3. written = (text \o <<q>>) \o f
    BY <1>1, OneChar
  <2> HIDE DEF closed, written, f
  <2>4. PICK a \in Text, b \in Text : a = <<q>> /\ b = <<Space>>
    BY <2>1
  <2>5. text \in Text /\ f \in Text /\ a \in Text /\ b \in Text
    BY <1>4
  <2>6. ((a \o f) \o a) \o b \in Text
    BY ONLY <2>5, TextConcat
  <2>7. Regroups(text, a, f, a, b)
    BY ONLY <2>5, TextConcats
  <2> QED
    BY ONLY <1>8, <2>2, <2>3, <2>4, <2>6, <2>7 DEF Regroups
<1> QED
  BY <1>7, <1>9

(* Words of any length written in quotes are read back. *)
LEMMA QuotingReadsBack ==
    ASSUME NEW ws \in Seq(Text), NEW q \in Quotes
    PROVE  ~LexFails(QuoteAll(ws, q)) /\ LexWords(QuoteAll(ws, q)) = ws
<1> DEFINE Piece(x) == Quote(ws[x], q) \o <<Space>>
           ss == [x \in DOMAIN ws |-> Piece(x)]
           N == Len(ws)
           Part(n) == FlattenSeq(SubSeq(ss, 1, n))
           Good == {n \in 0 .. N : Part(n) \in Text /\ Between(Scan(Part(n)), SubSeq(ws, 1, n))}
<1>1. N \in Nat /\ DOMAIN ws = 1 .. N /\ \A x \in 1 .. N : ws[x] \in Text
  OBVIOUS
<1>2. Between(Scan(<<>>), <<>>) /\ <<>> \in Text
  <2>1. LexStart \in LexState
    BY TextAppend, ScanNothing, ScanType
  <2>2. Between(LexStart, <<>>)
    BY <2>1 DEF Between, LexStart
  <2> QED
    BY <2>2, TextAppend, ScanNothing
<1>3. \A x \in 1 .. N : Piece(x) \in Text
  BY <1>1, <1>2, ReadQuote, TextAppend
<1>4. ss \in Seq(Text) /\ Len(ss) = N /\ \A x \in 1 .. N : ss[x] = Piece(x)
  <2> HIDE DEF Piece, N
  <2> QED
    BY <1>1, <1>3
<1>5. QuoteAll(ws, q) = FlattenSeq(ss)
  BY Zenon DEF QuoteAll
<1> HIDE DEF ss, Piece
<1>6. \A n \in 0 .. N : Part(n) \in Text
  <2> SUFFICES ASSUME NEW n \in 0 .. N PROVE Part(n) \in Text
    OBVIOUS
  <2>1. SubSeq(ss, 1, n) \in Seq(Seq(Char))
    BY <1>4, PrefixesOf DEF Text
  <2> QED
    BY <2>1, FlattenType DEF Text
<1>7. 0 \in Good
  <2>1. SubSeq(ss, 1, 0) = <<>> /\ SubSeq(ws, 1, 0) = <<>>
    BY <1>1, <1>4, PrefixesOf
  <2>2. Part(0) = <<>>
    BY <2>1, Len(<<>>) = 0 DEF FlattenSeq
  <2>3. 0 \in 0 .. N
    BY <1>1
  <2> QED
    BY <1>2, <2>1, <2>2, <2>3
<1>8. ASSUME NEW n \in 1 .. N, n - 1 \in Good PROVE n \in Good
  <2>1. n \in 0 .. N /\ n - 1 \in 0 .. N /\ Part(n - 1) \in Text
    BY <1>1, <1>8
  <2>2. SubSeq(ss, 1, n) = Append(SubSeq(ss, 1, n - 1), ss[n]) /\ SubSeq(ss, 1, n - 1) \in Seq(Seq(Char))
    BY <1>4, <2>1, PrefixesOf DEF Text
  <2>3. SubSeq(ws, 1, n) = Append(SubSeq(ws, 1, n - 1), ws[n]) /\ SubSeq(ws, 1, n - 1) \in Seq(Text)
    BY <1>1, <2>1, PrefixesOf
  <2>4. ss[n] = Piece(n) /\ ss[n] \in Text /\ ws[n] \in Text
    BY <1>1, <1>3, <1>4
  <2>5. Part(n) = Part(n - 1) \o ss[n]
    BY <2>2, <2>4, FlattenAppend DEF Text
  <2>6. Between(Scan(Part(n - 1)), SubSeq(ws, 1, n - 1))
    BY <1>8
  <2>7. Between(Scan(Part(n)), SubSeq(ws, 1, n))
    <3> HIDE DEF Part
    <3>1. Between(Scan(Part(n - 1) \o (Quote(ws[n], q) \o <<Space>>)), Append(SubSeq(ws, 1, n - 1), ws[n]))
      BY <2>1, <2>3, <2>4, <2>6, ReadQuote
    <3> QED
      BY <2>3, <2>4, <2>5, <3>1 DEF Piece
  <2> QED
    BY <1>6, <2>1, <2>7
<1>9. N \in Good
  <2>1. \A n \in 1 .. N : n - 1 \in Good => n \in Good
    BY <1>8
  <2>2. N \in 0 .. N
    BY <1>1
  <2> HIDE DEF Good, N
  <2>3. 0 .. N \subseteq Good
    BY <1>1, <1>7, <2>1, UpTo
  <2> QED
    BY <2>2, <2>3
<1>10. SubSeq(ss, 1, N) = ss /\ SubSeq(ws, 1, N) = ws
  BY <1>1, <1>4, PrefixesOf
<1>11. Between(Scan(QuoteAll(ws, q)), ws)
  BY <1>5, <1>9, <1>10
<1> QED
  BY <1>11 DEF Between, LexFails, LexWords

-----------------------------------------------------------------------------
(* Brace and wildcard expansions are sequences of words. *)
LEMMA ItemStartType ==
    ASSUME NEW content \in Text, NEW p \in 1 .. Len(content) + 1
    PROVE  ItemStart(content, p) \in p .. Len(content) + 1
<1> DEFINE Stops == {x \in p .. Len(content) + 1 : x = Len(content) + 1 \/ content[x] # Space}
<1>1. Len(content) \in Nat /\ Len(content) + 1 \in Stops /\ Stops \in SUBSET Nat
  BY DEF Text
<1>2. PICK m \in Stops : \A n \in Stops : m <= n
  <2>1. Stops # {}
    BY <1>1
  <2> HIDE DEF Stops
  <2> QED
    BY <1>1, <2>1, LeastExists
<1>3. ASSUME NEW y \in p .. m - 1 PROVE content[y] = Space
  <2>1. y \in p .. Len(content) + 1 /\ ~ (m <= y)
    BY <1>1
  <2>2. y \notin Stops
    BY <1>2, <2>1
  <2> QED
    BY <2>1, <2>2
<1>4. \E x \in p .. Len(content) + 1 :
         /\ x = Len(content) + 1 \/ content[x] # Space
         /\ \A y \in p .. x - 1 : content[y] = Space
  BY <1>3
<1> QED
  BY <1>4, Zenon DEF ItemStart

LEMMA ItemEndType ==
    ASSUME NEW content \in Text, NEW first \in 1 .. Len(content) + 1
    PROVE  ItemEnd(content, first) \in first .. Len(content) + 1
<1> DEFINE Stops == {x \in first .. Len(content) + 1 : x = Len(content) + 1 \/ EndsItem(content, first, x)}
<1>1. Len(content) \in Nat /\ Len(content) + 1 \in Stops /\ Stops \in SUBSET Nat
  BY DEF Text
<1>2. PICK m \in Stops : \A n \in Stops : m <= n
  <2>1. Stops # {}
    BY <1>1
  <2> HIDE DEF Stops
  <2> QED
    BY <1>1, <2>1, LeastExists
<1>3. ASSUME NEW y \in first .. m - 1 PROVE ~EndsItem(content, first, y)
  <2>1. y \in first .. Len(content) + 1 /\ ~ (m <= y)
    BY <1>1
  <2>2. y \notin Stops
    BY <1>2, <2>1
  <2> QED
    BY <2>1, <2>2
<1>4. \E x \in first .. Len(content) + 1 :
         /\ x = Len(content) + 1 \/ EndsItem(content, first, x)
         /\ \A y \in first .. x - 1 : ~EndsItem(content, first, y)
  BY <1>3
<1> QED
  BY <1>4, Zenon DEF ItemEnd

LEMMA BraceItemsType ==
    ASSUME NEW content \in Text
    PROVE  BraceItems(content) \in Seq(Text)
<1> DEFINE n == Len(content)
           D == 1 .. n + 1
           S == Seq(Text)
           First(p) == ItemStart(content, p)
           End(p) == ItemEnd(content, First(p))
           Item(p) == <<SubSeq(content, First(p), End(p) - 1)>>
           Right(f, p) == IF First(p) = n + 1 THEN <<>>
                          ELSE Item(p) \o (IF End(p) = n + 1 THEN <<>> ELSE f[End(p) + 1])
           rank == [p \in D |-> (n + 1) - p]
           body == [f \in [D -> S] |-> [p \in D |-> Right(f, p)]]
<1>1. n \in Nat /\ 1 \in D /\ content \in Seq(Char)
  BY DEF Text
<1>2. ASSUME NEW p \in D PROVE First(p) \in p .. n + 1 /\ First(p) \in D
  <2>1. First(p) \in p .. n + 1
    BY ItemStartType
  <2> HIDE DEF First
  <2> QED
    BY <1>1, <2>1
<1>3. ASSUME NEW p \in D PROVE End(p) \in First(p) .. n + 1
  <2>1. First(p) \in 1 .. Len(content) + 1
    BY <1>2
  <2> HIDE DEF First
  <2> QED
    BY <2>1, ItemEndType
<1> HIDE DEF First, End
<1>4. ASSUME NEW p \in D, First(p) # n + 1, End(p) # n + 1
      PROVE  End(p) + 1 \in D /\ rank[End(p) + 1] < rank[p]
  <2>1. End(p) + 1 \in D /\ End(p) + 1 > p
    <3>1. First(p) \in p .. n + 1 /\ First(p) # n + 1 /\ End(p) \in First(p) .. n + 1
          /\ End(p) # n + 1
      BY <1>2, <1>3, <1>4
    <3> HIDE DEF n
    <3> QED
      BY <1>1, <3>1
  <2> HIDE DEF n
  <2> QED
    BY <1>1, <2>1
<1>5. ASSUME NEW p \in D, First(p) # n + 1 PROVE Item(p) \in S
  <2>1. First(p) \in 1 .. n /\ End(p) - 1 \in 0 .. n
    <3>1. First(p) \in p .. n + 1 /\ First(p) # n + 1 /\ End(p) \in First(p) .. n + 1
      BY <1>2, <1>3, <1>5
    <3> HIDE DEF n
    <3> QED
      BY <1>1, <3>1
  <2>2. SubSeq(content, First(p), End(p) - 1) \in Seq(Char)
    BY <1>1, <2>1
  <2>3. PICK t \in Text : t = SubSeq(content, First(p), End(p) - 1)
    BY <2>2 DEF Text
  <2>4. <<t>> \in Seq(Text)
    OBVIOUS
  <2> QED
    BY <2>3, <2>4
<1> HIDE DEF Item
<1>6. \A s, t \in S : s \o t \in S
  BY ConcatProperties
<1>7. <<>> \in S
  OBVIOUS
<1>8. ASSUME NEW f, NEW p \in D, First(p) # n + 1 /\ End(p) # n + 1 => f[End(p) + 1] \in S
      PROVE  Right(f, p) \in S
  <2> HIDE DEF D, S, n
  <2> QED
    BY <1>5, <1>6, <1>7, <1>8
<1>9. rank \in [D -> Nat] /\ \A p \in D : rank[p] < n + 2
  <2> HIDE DEF n
  <2> QED
    BY <1>1
<1>10. \E f \in [D -> S] : f = body[f]
  <2>1. body \in [[D -> S] -> [D -> S]]
    <3>1. ASSUME NEW f \in [D -> S], NEW p \in D PROVE Right(f, p) \in S
      <4>1. First(p) # n + 1 /\ End(p) # n + 1 => f[End(p) + 1] \in S
        <5> HIDE DEF D, S
        <5> QED
          BY <1>4
      <4> HIDE DEF D, S, Right
      <4> QED
        BY <1>8, <4>1
    <3> HIDE DEF D, S, Right
    <3> QED
      BY <3>1
  <2>2. ASSUME NEW f \in [D -> S], NEW g \in [D -> S], NEW p \in D,
               \A q \in D : rank[q] < rank[p] => f[q] = g[q]
        PROVE  body[f][p] = body[g][p]
    <3>1. First(p) # n + 1 /\ End(p) # n + 1 => f[End(p) + 1] = g[End(p) + 1]
      <4> HIDE DEF D, S, rank
      <4> QED
        BY <1>4, <2>2
    <3>2. Right(f, p) = Right(g, p)
      <4> HIDE DEF D, S
      <4> QED
        BY <3>1
    <3> HIDE DEF D, S, Right
    <3> QED
      BY <3>2
  <2>3. \A f, g \in [D -> S] : \A p \in D :
            (\A q \in D : rank[q] < rank[p] => f[q] = g[q]) => body[f][p] = body[g][p]
    <3> HIDE DEF D, S, rank, body
    <3> QED
      BY <2>2
  <2>4. S # {} /\ n + 2 \in Nat
    <3> HIDE DEF n, S
    <3> QED
      BY <1>1, <1>7
  <2> HIDE DEF D, S, rank, body, n
  <2>5. Recursion(D, S, rank, n + 2, body)
    BY <1>9, <2>1, <2>3, <2>4 DEF Recursion
  <2> QED
    BY <2>5, RecursionExists
<1>11. PICK f \in [D -> S] : f = body[f]
  BY <1>10
<1>12. f = [p \in D |-> Right(f, p)]
  <2> HIDE DEF D, S, Right
  <2> QED
    BY <1>11
<1>13. PICK h : h = [p \in D |-> Right(h, p)] /\ BraceItems(content) = h[1]
  <2> DEFINE h == CHOOSE h : h = [p \in D |-> Right(h, p)]
  <2>1. h = [p \in D |-> Right(h, p)]
    BY <1>12, Zenon
  <2>2. BraceItems(content) = h[1]
    BY Zenon DEF BraceItems, First, End, Item
  <2> QED
    BY <2>1, <2>2
<1>14. \A p \in D : h[p] = Right(h, p)
  <2> HIDE DEF D, Right
  <2> QED
    BY <1>13
<1>15. D \subseteq {p \in D : h[p] \in S}
  <2> DEFINE Good == {p \in D : h[p] \in S}
  <2>1. ASSUME NEW p \in D, \A q \in D : rank[q] < rank[p] => q \in Good PROVE p \in Good
    <3>1. First(p) # n + 1 /\ End(p) # n + 1 => h[End(p) + 1] \in S
      <4> HIDE DEF D, S, rank
      <4> QED
        BY <1>4, <2>1
    <3>2. Right(h, p) \in S
      <4> HIDE DEF D, S, Right
      <4> QED
        BY <1>8, <3>1
    <3> HIDE DEF D, S, Right, rank
    <3> QED
      BY <1>14, <3>2
  <2> HIDE DEF D, rank, Good
  <2>2. \A p \in D : (\A q \in D : rank[q] < rank[p] => q \in Good) => p \in Good
    BY <2>1
  <2>3. D \subseteq Good
    BY <1>9, <2>2, RankInduction
  <2> QED
    BY <2>3 DEF Good
<1> QED
  BY <1>1, <1>13, <1>15

LEMMA FindType ==
    ASSUME NEW word \in Text, NEW ch, NEW from
    PROVE  Find(word, ch, from) \in 0 .. Len(word)
<1> DEFINE s == [x \in DOMAIN word |-> IF x >= from THEN word[x] ELSE ""]
           I == {x \in 1 .. Len(s) : s[x] = ch}
<1>1. Len(word) \in Nat /\ DOMAIN word = 1 .. Len(word)
  BY DEF Text
<1>2. Len(s) = Len(word)
  BY <1>1
<1>3. Find(word, ch, from) = IF I # {} THEN Min(I) ELSE 0
  BY Zenon DEF Find, SelectInSeq
<1>4. ASSUME I # {} PROVE Min(I) \in I
  <2>1. I \in SUBSET Nat
    <3> HIDE DEF s
    <3> QED
      BY <1>1, <1>2
  <2>2. PICK m \in I : \A x \in I : m <= x
    <3> HIDE DEF I
    <3> QED
      BY <1>4, <2>1, LeastExists
  <2> HIDE DEF I
  <2> QED
    BY <2>2, Zenon DEF Min
<1> HIDE DEF s
<1> QED
  BY <1>1, <1>2, <1>3, <1>4

LEMMA ExpandBraceType ==
    ASSUME NEW word \in Text
    PROVE  ExpandBrace(word) \in Seq(Text)
<1> DEFINE open == Find(word, Open, 1)
           close == Find(word, Close, open)
           prefix == SubSeq(word, 1, open - 1)
           suffix == SubSeq(word, close + 1, Len(word))
           content == SubSeq(word, open + 1, close - 1)
           Piece(x) == prefix \o BraceItems(content)[x] \o suffix
<1>1. Len(word) \in Nat /\ word \in Seq(Char)
  BY DEF Text
<1>2. open \in 0 .. Len(word) /\ close \in 0 .. Len(word)
  BY <1>1, FindType
<1> HIDE DEF open, close
<1>3. CASE open = 0 \/ close = 0
  BY <1>3, TextAppend DEF ExpandBrace, open, close
<1>4. CASE open # 0 /\ close # 0
  <2>1. open \in 1 .. Len(word) /\ close \in 1 .. Len(word)
    BY <1>1, <1>2, <1>4
  <2>2. prefix \in Text /\ suffix \in Text /\ content \in Text
    BY <1>1, <2>1 DEF Text
  <2> HIDE DEF prefix, suffix, content
  <2>3. BraceItems(content) \in Seq(Text)
    BY <2>2, BraceItemsType
  <2>4. PICK s \in Seq(Text) : s = BraceItems(content)
    BY <2>3
  <2>5. \A x \in 1 .. Len(s) : (prefix \o s[x]) \o suffix \in Text
    <3>1. ASSUME NEW x \in 1 .. Len(s) PROVE (prefix \o s[x]) \o suffix \in Text
      <4>1. s[x] \in Text
        OBVIOUS
      <4> QED
        BY <2>2, <4>1, TextConcat
    <3> QED
      BY <3>1
  <2>6. DOMAIN s = 1 .. Len(s) /\ Len(s) \in Nat
    OBVIOUS
  <2>7. [x \in DOMAIN s |-> (prefix \o s[x]) \o suffix] \in Seq(Text)
    BY <2>5, <2>6
  <2>8. ExpandBrace(word) = [x \in DOMAIN s |-> (prefix \o s[x]) \o suffix]
    BY <1>4, <2>4, Zenon DEF ExpandBrace, open, close, prefix, suffix, content
  <2> QED
    BY <2>7, <2>8
<1> QED
  BY <1>3, <1>4

LEMMA MatchesType ==
    ASSUME NEW pattern, NEW names \in Seq(Text)
    PROVE  Matches(pattern, names) \in Seq(Text)
<1> DEFINE Kept(x) == IF FnMatch(pattern, names[x]) THEN <<names[x]>> ELSE <<>>
           ss == [x \in DOMAIN names |-> Kept(x)]
<1>1. DOMAIN names = 1 .. Len(names) /\ Len(names) \in Nat
  OBVIOUS
<1>2. ASSUME NEW x \in 1 .. Len(names) PROVE Kept(x) \in Seq(Text)
  <2>1. PICK t \in Text : t = names[x]
    OBVIOUS
  <2>2. <<t>> \in Seq(Text) /\ <<>> \in Seq(Text)
    OBVIOUS
  <2> QED
    BY <2>1, <2>2
<1>3. ss \in Seq(Seq(Text))
  <2> HIDE DEF Kept
  <2> QED
    BY <1>1, <1>2
<1>4. Matches(pattern, names) = FlattenSeq(ss)
  BY Zenon DEF Matches
<1> HIDE DEF ss
<1> QED
  BY <1>3, <1>4, FlattenType

-----------------------------------------------------------------------------
(* Who owns what.  The objects of args that the position i, j, k has passed.*)
BraceOf(a, n) == <<"brace", a, n>>
MatchOf(a, b, n) == <<"match", a, b, n>>
String == {Raw(a) : a \in Nat} \cup {BraceOf(a, b) : a, b \in Nat}
          \cup {MatchOf(a, b, c) : a, b, c \in Nat}

Before(o, a, b, c) ==
    \/ o[1] = "raw" /\ o[2] < a
    \/ o[1] = "brace" /\ (o[2] < a \/ (o[2] = a /\ o[3] < b))
    \/ o[1] = "match" /\ (o[2] < a \/ (o[2] = a /\ (o[3] < b \/ (o[3] = b /\ o[4] < c))))

Early == pc \in {"start", "alloc_raw", "read"}
Busy == pc \in {"word", "wildcard", "keep", "match"}

Types ==
    /\ line \in Lines
    /\ pc \in {"start", "alloc_raw", "read", "word", "wildcard", "keep", "match", "done",
               "freed", "list", "listed", "error", "aborted"}
    /\ raw \in Seq(Text) /\ items \in Seq(Text) /\ matches \in Seq(Text) /\ list \in Seq(Text)
    /\ i \in 1 .. Len(raw) + 1 /\ j \in 0 .. Len(items) /\ k \in 0 .. Len(matches)
    /\ args \in Seq([obj : String, text : Text])
    /\ capacity \in Nat \ {0} /\ Len(args) <= capacity /\ (pc = "done" => Len(args) < capacity)
    /\ doubleFree \in BOOLEAN /\ failed \subseteq FailSite

(* What belongs to each place of the program. *)
Whereabouts ==
    /\ items = <<>> <=> j = 0
    /\ matches = <<>> <=> k = 0
    /\ Early => i = 1 /\ args = <<>>
    /\ pc \in {"start", "alloc_raw"} => raw = <<>>
    /\ pc \in {"wildcard", "keep", "match"} => i <= Len(raw)
    /\ pc \in {"done", "list", "listed", "freed"} => i = Len(raw) + 1
    /\ pc \notin {"wildcard", "keep", "match", "error", "aborted"} => items = <<>>
    /\ pc \notin {"match", "error", "aborted"} => matches = <<>>
    /\ pc = "match" => matches # <<>> /\ HasWildcard(Current)
    /\ Early \/ Busy \/ pc = "done" => list = <<>>
    /\ Len(list) <= Len(args)

FreedOnce ==
    /\ pc \notin {"error", "aborted"} => ~doubleFree
    /\ doubleFree => failed \cap {"brace_later", "grow_moved"} # {}

(* args holds what is behind, and nothing twice. *)
Passed ==
    /\ \A x \in DOMAIN args : Before(args[x].obj, i, j, k)
    /\ \A x, y \in DOMAIN args : args[x].obj = args[y].obj => x = y

(* Every word that is behind stands in args, itself or as an expansion.     *)
Covered == \A n \in 1 .. i - 1 : \E x \in DOMAIN args : args[x].obj[2] = n

InArgs == {args[x].obj : x \in DOMAIN args}
Ahead ==
    (IF Busy THEN {RawArray} \cup {Raw(n) : n \in i .. Len(raw)} ELSE {})
    \cup (IF items = <<>> THEN {} ELSE {BraceArray} \cup {Brace(n) : n \in j .. Len(items)})
    \cup (IF matches = <<>> THEN {} ELSE {MatchArray} \cup {Match(n) : n \in k .. Len(matches)})
    \cup (IF pc = "list" THEN {List} \cup {ListItem(n) : n \in 1 .. Len(list)} ELSE {})

(* Words that a wildcard may have replaced.                                 *)
Left == {Raw(n) : n \in {m \in DOMAIN raw : m < i /\ HasWildcard(raw[m])}}

Owned ==
    /\ Busy \/ pc \in {"done", "list"} =>
          /\ InArgs \cup {ArgArray} \cup Ahead \subseteq live
          /\ live \subseteq InArgs \cup {ArgArray} \cup Ahead \cup Left
    /\ pc = "start" => live = {}
    /\ pc = "alloc_raw" => live = {ArgArray}
    /\ pc = "read" => live = {Raw(n) : n \in DOMAIN raw} \cup {RawArray} \cup {ArgArray}
    /\ pc = "freed" => live \subseteq ReplacedWords
    /\ pc = "listed" => live \ ReplacedWords = {List} \cup {ListItem(n) : n \in DOMAIN list}
    /\ pc = "error" =>
          live \subseteq ReplacedWords
              \cup (IF failed \cap {"grow", "grow_moved"} # {} THEN {Raw(i)} ELSE {})

ArgsInv == Types /\ Whereabouts /\ FreedOnce /\ Passed /\ Covered /\ Owned /\ live \subseteq Objects

LEMMA Kinds ==
    /\ \A a : Raw(a)[1] = "raw" /\ Raw(a)[2] = a
    /\ \A a, b : BraceOf(a, b)[1] = "brace" /\ BraceOf(a, b)[2] = a /\ BraceOf(a, b)[3] = b
    /\ \A a, b, c : /\ MatchOf(a, b, c)[1] = "match" /\ MatchOf(a, b, c)[2] = a
                    /\ MatchOf(a, b, c)[3] = b /\ MatchOf(a, b, c)[4] = c
    /\ \A a : ListItem(a)[1] = "item" /\ ListItem(a)[2] = a
    /\ RawArray[1] = "raw_args" /\ BraceArray[1] = "brace_expansions"
    /\ MatchArray[1] = "matches" /\ ArgArray[1] = "args" /\ List[1] = "list"
    /\ Found[1] = "match_list" /\ \A a : FoundName(a)[1] = "found" /\ FoundName(a)[2] = a
  BY DEF Raw, BraceOf, MatchOf, ListItem, RawArray, BraceArray, MatchArray, ArgArray, List,
         Found, FoundName

LEMMA HereNames ==
    /\ \A n : Brace(n) = BraceOf(i, n) /\ Match(n) = MatchOf(i, j, n)
    /\ (\A n : Brace(n) = BraceOf(i, n) /\ Match(n) = MatchOf(i, j, n))'
  BY DEF Brace, Match, BraceOf, MatchOf

LEMMA StringFields ==
    ASSUME NEW o \in String
    PROVE  /\ o[1] \in {"raw", "brace", "match"} /\ o[2] \in Nat
           /\ o[1] \in {"brace", "match"} => o[3] \in Nat
           /\ o[1] = "match" => o[4] \in Nat
  BY Kinds DEF String

(* s lists the members of T; each once. *)
Listed(s, T) == s \in Seq(T) /\ ToSet(s) = T
Distinct(s, T) == Listed(s, T) /\ IsInjective(s)

LEMMA DistinctNone == Distinct(<<>>, {})
  BY DEF Distinct, Listed, ToSet, IsInjective

LEMMA DistinctOne ==
    ASSUME NEW x
    PROVE  Distinct(<<x>>, {x})
  BY DEF Distinct, Listed, ToSet, IsInjective

LEMMA DistinctTwo ==
    ASSUME NEW x, NEW y, x # y
    PROVE  Distinct(<<x, y>>, {x, y})
  BY DEF Distinct, Listed, ToSet, IsInjective

LEMMA PlacesOfConcat ==
    ASSUME NEW V, NEW s \in Seq(V), NEW t \in Seq(V)
    PROVE  /\ s \o t \in Seq(V) /\ DOMAIN (s \o t) = 1 .. Len(s) + Len(t)
           /\ DOMAIN s = 1 .. Len(s) /\ DOMAIN t = 1 .. Len(t) /\ Len(s) \in Nat /\ Len(t) \in Nat
           /\ \A x \in 1 .. Len(s) : (s \o t)[x] = s[x]
           /\ \A x \in 1 .. Len(t) : (s \o t)[Len(s) + x] = t[x]
           /\ \A x \in DOMAIN (s \o t) :
                 \/ x \in 1 .. Len(s) /\ (s \o t)[x] = s[x]
                 \/ \E y \in 1 .. Len(t) : x = Len(s) + y /\ (s \o t)[x] = t[y]
<1>1. /\ DOMAIN s = 1 .. Len(s) /\ DOMAIN t = 1 .. Len(t) /\ Len(s) \in Nat /\ Len(t) \in Nat
  OBVIOUS
<1>2. /\ s \o t \in Seq(V) /\ Len(s \o t) = Len(s) + Len(t)
      /\ \A x \in 1 .. Len(s) + Len(t) :
            (s \o t)[x] = IF x <= Len(s) THEN s[x] ELSE t[x - Len(s)]
  BY ConcatProperties
<1>3. \A x \in 1 .. Len(s) : (s \o t)[x] = s[x]
  BY <1>1, <1>2
<1>4. \A x \in 1 .. Len(t) : (s \o t)[Len(s) + x] = t[x]
  BY <1>1, <1>2
<1>5. DOMAIN (s \o t) = 1 .. Len(s) + Len(t)
  BY <1>2
<1>6. ASSUME NEW x \in DOMAIN (s \o t), x \notin 1 .. Len(s)
      PROVE  \E y \in 1 .. Len(t) : x = Len(s) + y /\ (s \o t)[x] = t[y]
  <2>1. x - Len(s) \in 1 .. Len(t) /\ x = Len(s) + (x - Len(s))
    BY <1>1, <1>5, <1>6
  <2> QED
    BY <1>4, <2>1
<1> QED
  BY <1>1, <1>2, <1>3, <1>4, <1>5, <1>6

LEMMA ListedConcat ==
    ASSUME NEW T, NEW U, NEW s, NEW t, Listed(s, T), Listed(t, U)
    PROVE  Listed(s \o t, T \cup U) /\ s \in Seq(T \cup U) /\ t \in Seq(T \cup U)
<1> DEFINE V == T \cup U
<1>1. T \subseteq V /\ U \subseteq V
  OBVIOUS
<1> HIDE DEF V
<1>2. s \in Seq(V) /\ t \in Seq(V) /\ ToSet(s) = T /\ ToSet(t) = U
  BY <1>1, SeqMonotonic DEF Listed
<1>3. ASSUME NEW v \in T PROVE v \in ToSet(s \o t)
  <2>1. PICK x \in 1 .. Len(s) : v = s[x]
    BY <1>2, PlacesOfConcat DEF ToSet
  <2>2. x \in DOMAIN (s \o t) /\ (s \o t)[x] = v
    BY <1>2, <2>1, PlacesOfConcat
  <2> QED
    BY <2>2 DEF ToSet
<1>4. ASSUME NEW v \in U PROVE v \in ToSet(s \o t)
  <2>1. PICK x \in 1 .. Len(t) : v = t[x]
    BY <1>2, PlacesOfConcat DEF ToSet
  <2>2. Len(s) + x \in DOMAIN (s \o t) /\ (s \o t)[Len(s) + x] = v
    BY <1>2, <2>1, PlacesOfConcat
  <2> QED
    BY <2>2 DEF ToSet
<1>5. s \o t \in Seq(V)
  BY <1>2, PlacesOfConcat
<1>6. \A x \in DOMAIN (s \o t) : (s \o t)[x] \in V
  BY <1>5, ElementOfSeq
<1>7. ToSet(s \o t) = V
  BY <1>3, <1>4, <1>6 DEF ToSet, V
<1> QED
  BY <1>2, <1>5, <1>7 DEF Listed, V

LEMMA DistinctConcat ==
    ASSUME NEW T, NEW U, NEW s, NEW t, Distinct(s, T), Distinct(t, U), T \cap U = {}
    PROVE  Distinct(s \o t, T \cup U)
<1> DEFINE V == T \cup U
<1>1. Listed(s \o t, V) /\ s \in Seq(V) /\ t \in Seq(V)
  BY ListedConcat DEF Distinct
<1> HIDE DEF V
<1>2. (\A x \in 1 .. Len(s) : s[x] \in T) /\ \A x \in 1 .. Len(t) : t[x] \in U
  BY DEF Distinct, Listed
<1> DEFINE c == s \o t
<1>3. /\ DOMAIN s = 1 .. Len(s) /\ DOMAIN t = 1 .. Len(t) /\ Len(s) \in Nat /\ Len(t) \in Nat
      /\ DOMAIN c = 1 .. Len(s) + Len(t)
      /\ \A x \in 1 .. Len(s) : c[x] = s[x]
      /\ \A x \in DOMAIN c : \/ x \in 1 .. Len(s) /\ c[x] = s[x]
                             \/ \E y \in 1 .. Len(t) : x = Len(s) + y /\ c[x] = t[y]
  BY <1>1, PlacesOfConcat
<1> HIDE DEF c
<1>4. IsInjective(c)
  <2> SUFFICES ASSUME NEW x \in DOMAIN c, NEW y \in DOMAIN c, c[x] = c[y] PROVE x = y
    BY DEF IsInjective
  <2>1. CASE x \in 1 .. Len(s) /\ y \in 1 .. Len(s)
    BY <1>3, <2>1 DEF Distinct, IsInjective
  <2>2. CASE x \notin 1 .. Len(s) /\ y \notin 1 .. Len(s)
    BY <1>3, <2>2 DEF Distinct, IsInjective
  <2>3. CASE x \in 1 .. Len(s) /\ y \notin 1 .. Len(s)
    BY <1>2, <1>3, <2>3
  <2>4. CASE x \notin 1 .. Len(s) /\ y \in 1 .. Len(s)
    BY <1>2, <1>3, <2>4
  <2> QED
    BY <2>1, <2>2, <2>3, <2>4
<1> QED
  BY <1>1, <1>4 DEF Distinct, V, c

(* The objects that a function names, one by one. *)
LEMMA DistinctNames ==
    ASSUME NEW n \in Nat, NEW name, name = [x \in 1 .. n |-> name[x]],
           \A x, y \in 1 .. n : name[x] = name[y] => x = y
    PROVE  Distinct(name, {name[x] : x \in 1 .. n})
<1> DEFINE T == {name[x] : x \in 1 .. n}
<1>1. name \in Seq(T)
  OBVIOUS
<1>2. ToSet(name) = T
  BY DEF ToSet
<1>3. IsInjective(name)
  BY DEF IsInjective
<1> QED
  BY <1>1, <1>2, <1>3 DEF Distinct, Listed

(* What each of the local arrays of objects holds. *)
LEMMA DistinctArrays ==
    ASSUME NEW n \in Nat
    PROVE  /\ Distinct([x \in 1 .. n |-> Raw(x)], {Raw(x) : x \in 1 .. n})
           /\ Distinct([x \in 1 .. n |-> Brace(x)], {BraceOf(i, x) : x \in 1 .. n})
           /\ Distinct([x \in 1 .. n |-> Match(x)], {MatchOf(i, j, x) : x \in 1 .. n})
           /\ Distinct([x \in 1 .. n |-> FoundName(x)], {FoundName(x) : x \in 1 .. n})
           /\ Distinct([x \in 1 .. n |-> ListItem(x)], {ListItem(x) : x \in 1 .. n})
<1>1. Distinct([x \in 1 .. n |-> Raw(x)], {Raw(x) : x \in 1 .. n})
  <2>1. PICK name : name = [x \in 1 .. n |-> Raw(x)]
    OBVIOUS
  <2>2. \A x \in 1 .. n : name[x] = Raw(x)
    BY <2>1
  <2>3. Distinct(name, {name[x] : x \in 1 .. n})
    BY <2>1, <2>2, Kinds, DistinctNames
  <2> QED
    BY <2>1, <2>2, <2>3
<1>2. Distinct([x \in 1 .. n |-> Brace(x)], {BraceOf(i, x) : x \in 1 .. n})
  <2>1. PICK name : name = [x \in 1 .. n |-> Brace(x)]
    OBVIOUS
  <2>2. \A x \in 1 .. n : name[x] = BraceOf(i, x)
    BY <2>1, HereNames
  <2>3. Distinct(name, {name[x] : x \in 1 .. n})
    BY <2>1, <2>2, Kinds, DistinctNames
  <2> QED
    BY <2>1, <2>2, <2>3
<1>3. Distinct([x \in 1 .. n |-> Match(x)], {MatchOf(i, j, x) : x \in 1 .. n})
  <2>1. PICK name : name = [x \in 1 .. n |-> Match(x)]
    OBVIOUS
  <2>2. \A x \in 1 .. n : name[x] = MatchOf(i, j, x)
    BY <2>1, HereNames
  <2>3. Distinct(name, {name[x] : x \in 1 .. n})
    BY <2>1, <2>2, Kinds, DistinctNames
  <2> QED
    BY <2>1, <2>2, <2>3
<1>4. Distinct([x \in 1 .. n |-> FoundName(x)], {FoundName(x) : x \in 1 .. n})
  <2>1. PICK name : name = [x \in 1 .. n |-> FoundName(x)]
    OBVIOUS
  <2>2. \A x \in 1 .. n : name[x] = FoundName(x)
    BY <2>1
  <2>3. Distinct(name, {name[x] : x \in 1 .. n})
    BY <2>1, <2>2, Kinds, DistinctNames
  <2> QED
    BY <2>1, <2>2, <2>3
<1>5. Distinct([x \in 1 .. n |-> ListItem(x)], {ListItem(x) : x \in 1 .. n})
  <2>1. PICK name : name = [x \in 1 .. n |-> ListItem(x)]
    OBVIOUS
  <2>2. \A x \in 1 .. n : name[x] = ListItem(x)
    BY <2>1
  <2>3. Distinct(name, {name[x] : x \in 1 .. n})
    BY <2>1, <2>2, Kinds, DistinctNames
  <2> QED
    BY <2>1, <2>2, <2>3
<1> QED
  BY <1>1, <1>2, <1>3, <1>4, <1>5

(* What is freed is held, and freed once. *)
LEMMA AllocFreeDistinct ==
    ASSUME NEW s, NEW T, NEW new, Distinct(s, T), T \subseteq live \cup new, AllocFree(new, s)
    PROVE  /\ live' = (live \cup new) \ T
           /\ (~doubleFree => ~doubleFree') /\ doubleFree' \in BOOLEAN
<1>1. ToSet(s) = T /\ IsInjective(s)
  BY DEF Distinct, Listed
<1> QED
  BY <1>1 DEF AllocFree

LEMMA FreeDistinct ==
    ASSUME NEW s, NEW T, Distinct(s, T), T \subseteq live, Free(s)
    PROVE  live' = live \ T /\ (~doubleFree => ~doubleFree') /\ doubleFree' \in BOOLEAN
<1>1. AllocFree({}, s) /\ T \subseteq live \cup {}
  BY DEF Free
<1> QED
  BY <1>1, AllocFreeDistinct

(* The strings of args, and args itself, are all different. *)
LEMMA ArgvDistinct ==
    ASSUME Types, Passed
    PROVE  /\ Distinct(Argv, InArgs \cup {ArgArray})
           /\ Distinct([x \in DOMAIN args |-> args[x].obj], InArgs)
           /\ InArgs \subseteq String /\ ArgArray \notin InArgs
<1> DEFINE s == [x \in DOMAIN args |-> args[x].obj]
<1>1. DOMAIN args = 1 .. Len(args) /\ Len(args) \in Nat
      /\ \A x \in 1 .. Len(args) : args[x].obj \in String
  <2> DEFINE R == [obj : String, text : Text]
  <2>1. args \in Seq(R)
    BY DEF Types
  <2>2. \A r \in R : r.obj \in String
    OBVIOUS
  <2> HIDE DEF R
  <2> QED
    BY <2>1, <2>2
<1>2. Distinct(s, InArgs)
  <2>1. s \in Seq(InArgs)
    BY <1>1 DEF InArgs
  <2>2. DOMAIN s = DOMAIN args /\ \A x \in DOMAIN s : s[x] = args[x].obj
    OBVIOUS
  <2> HIDE DEF s
  <2>3. ToSet(s) = InArgs
    BY <2>2 DEF ToSet, InArgs
  <2>4. IsInjective(s)
    BY <2>2 DEF Passed, IsInjective
  <2> QED
    BY <2>1, <2>3, <2>4 DEF Distinct, Listed
<1>3. InArgs \subseteq String
  BY <1>1 DEF InArgs
<1>4. ArgArray \notin InArgs
  BY <1>3, StringFields, Kinds
<1>5. Argv = s \o <<ArgArray>>
  BY DEF Argv
<1> HIDE DEF s
<1>6. Distinct(s \o <<ArgArray>>, InArgs \cup {ArgArray})
  BY <1>2, <1>4, DistinctOne, DistinctConcat
<1> QED
  BY <1>2, <1>3, <1>4, <1>5, <1>6 DEF s

LEMMA TypesInit ==
    ASSUME Init
    PROVE  ArgsInv
<1> USE ArgsAssumption DEF Init
<1>1. <<>> \in Seq(Text) /\ <<>> \in Seq([obj : String, text : Text]) /\ Len(<<>>) = 0
  OBVIOUS
<1>2. Types
  <2>1. line \in Lines /\ pc = "start" /\ doubleFree \in BOOLEAN /\ failed \subseteq FailSite
    OBVIOUS
  <2>2. i \in 1 .. Len(raw) + 1 /\ j \in 0 .. Len(items) /\ k \in 0 .. Len(matches)
    BY <1>1
  <2>3. capacity \in Nat \ {0} /\ Len(args) <= capacity
    BY <1>1
  <2> QED
    BY <1>1, <2>1, <2>2, <2>3 DEF Types
<1>3. Whereabouts /\ FreedOnce /\ Passed /\ Covered
  BY <1>1 DEF Whereabouts, Early, Busy, FreedOnce, Passed, Covered
<1>4. Owned /\ live \subseteq Objects
  BY DEF Owned, Busy
<1> QED
  BY <1>2, <1>3, <1>4 DEF ArgsInv

LEMMA Inputs ==
    /\ \A l \in Lines : l \in Text
    /\ Listing \in Seq(Text)
<1>1. STRING \subseteq Char
  BY DEF Char
<1>2. \A l \in Seq(STRING) : l \in Text
  BY <1>1, SeqMonotonic DEF Text
<1>3. Seq(STRING) \subseteq Text
  BY <1>2
<1>4. Listing \in Seq(Text)
  BY <1>3, SeqMonotonic, ArgsAssumption
<1> QED
  BY <1>2, <1>4, ArgsAssumption

(* What the first pass reads is text. *)
LEMMA ReadableType ==
    ASSUME line \in Lines
    PROVE  Readable \in Seq(Text) /\ (~LexFails(line) => Readable = LexWords(line))
<1>1. Scan(line).words \in Seq(Text) /\ LexWords(line) \in Seq(Text)
  BY Inputs, ScanType DEF LexState
<1> QED
  BY <1>1 DEF Readable

LEMMA AllocArraysKeeps ==
    ASSUME ArgsInv, AllocArrays
    PROVE  ArgsInv'
<1>1. Types /\ Whereabouts /\ FreedOnce /\ Passed /\ Covered /\ Owned /\ live \subseteq Objects
  BY DEF ArgsInv
<1>2. /\ pc \in {"start", "alloc_raw"} /\ pc' \in {"alloc_raw", "read"}
      /\ UNCHANGED <<line, list, raw, i, items, j, matches, k, args, capacity, doubleFree, failed>>
      /\ raw = <<>> /\ list = <<>> /\ items = <<>> /\ matches = <<>>
      /\ i = 1 /\ args = <<>> /\ ~doubleFree
  BY <1>1 DEF AllocArrays, Whereabouts, FreedOnce, Early, Busy
<1>3. /\ pc' = "alloc_raw" => live' = {ArgArray}
      /\ pc' = "read" => live' = {ArgArray, RawArray}
  BY <1>1 DEF AllocArrays, Owned
<1>4. Types'
  BY <1>1, <1>2 DEF Types
<1>5. Whereabouts' /\ FreedOnce' /\ Passed' /\ Covered'
  BY <1>1, <1>2 DEF Whereabouts, FreedOnce, Passed, Covered, Early, Busy
<1>6. Owned'
  <2>1. {Raw(n) : n \in DOMAIN raw'} = {}
    BY <1>2
  <2> QED
    BY <1>2, <1>3, <2>1 DEF Owned, Busy
<1>7. (live \subseteq Objects)'
  BY <1>2, <1>3 DEF Objects
<1> QED
  BY <1>4, <1>5, <1>6, <1>7 DEF ArgsInv

LEMMA ReadWordKeeps ==
    ASSUME ArgsInv, ReadWord
    PROVE  ArgsInv'
<1>1. Types /\ Whereabouts /\ FreedOnce /\ Passed /\ Covered /\ Owned /\ live \subseteq Objects
  BY DEF ArgsInv
<1>2. /\ pc = "read" /\ pc' = "read" /\ Len(raw) < Len(Readable)
      /\ raw' = Append(raw, Readable[Len(raw) + 1]) /\ live' = live \cup {Raw(Len(raw'))}
      /\ UNCHANGED <<line, list, i, items, j, matches, k, args, capacity, doubleFree, failed>>
      /\ list = <<>> /\ items = <<>> /\ matches = <<>> /\ i = 1 /\ args = <<>> /\ ~doubleFree
  BY <1>1 DEF ReadWord, Whereabouts, FreedOnce, Early, Busy
<1>3. /\ raw' \in Seq(Text) /\ Len(raw') = Len(raw) + 1 /\ Len(raw) \in Nat
      /\ DOMAIN raw' = DOMAIN raw \cup {Len(raw')}
  <2>1. Readable \in Seq(Text) /\ raw \in Seq(Text)
    BY <1>1, ReadableType DEF Types
  <2>2. PICK word \in Text : word = Readable[Len(raw) + 1]
    BY <1>2, <2>1
  <2> QED
    BY <1>2, <2>1, <2>2
<1>4. Types'
  BY <1>1, <1>2, <1>3 DEF Types
<1>5. Whereabouts' /\ FreedOnce' /\ Passed' /\ Covered'
  BY <1>1, <1>2, <1>3 DEF Whereabouts, FreedOnce, Passed, Covered, Early, Busy
<1>6. Owned'
  BY <1>1, <1>2, <1>3 DEF Owned, Busy
<1>7. (live \subseteq Objects)'
  BY <1>1, <1>2, <1>3 DEF Objects
<1> QED
  BY <1>4, <1>5, <1>6, <1>7 DEF ArgsInv

LEMMA ReadDoneKeeps ==
    ASSUME ArgsInv, ReadDone
    PROVE  ArgsInv'
<1>1. Types /\ Whereabouts /\ FreedOnce /\ Passed /\ Covered /\ Owned /\ live \subseteq Objects
  BY DEF ArgsInv
<1>2. /\ pc = "read" /\ pc' = "word"
      /\ UNCHANGED <<line, list, raw, i, items, j, matches, k, args, capacity, live, doubleFree,
                     failed>>
      /\ list = <<>> /\ items = <<>> /\ matches = <<>> /\ i = 1 /\ args = <<>> /\ ~doubleFree
      /\ live = {Raw(n) : n \in DOMAIN raw} \cup {RawArray} \cup {ArgArray}
      /\ DOMAIN raw = 1 .. Len(raw) /\ DOMAIN args = {}
  BY <1>1 DEF ReadDone, Whereabouts, FreedOnce, Owned, Early, Busy, Types
<1>3. Types'
  BY <1>1, <1>2 DEF Types
<1>4. Whereabouts' /\ FreedOnce' /\ Passed' /\ Covered'
  BY <1>1, <1>2 DEF Whereabouts, FreedOnce, Passed, Covered, Early, Busy
<1>5. Owned'
  <2>1. Ahead' = {RawArray} \cup {Raw(n) : n \in DOMAIN raw} /\ InArgs' = {}
    BY <1>2 DEF Ahead, InArgs, Busy
  <2> QED
    BY <1>2, <2>1 DEF Owned
<1>6. (live \subseteq Objects)'
  BY <1>1, <1>2 DEF Objects
<1> QED
  BY <1>3, <1>4, <1>5, <1>6 DEF ArgsInv

LEMMA FirstPassFailsKeeps ==
    ASSUME ArgsInv, FirstPassFails
    PROVE  ArgsInv'
<1>1. Types /\ Whereabouts /\ FreedOnce /\ Passed /\ Covered /\ Owned /\ live \subseteq Objects
  BY DEF ArgsInv
<1>2. /\ failed' \subseteq FailSite /\ failed \subseteq failed'
      /\ pc \in {"start", "alloc_raw", "read"}
      /\ UNCHANGED <<line, list, raw, i, items, j, matches, k, args, capacity>>
      /\ ~doubleFree /\ list = <<>> /\ i = 1 /\ args = <<>> /\ items = <<>> /\ matches = <<>>
  BY <1>1 DEF FirstPassFails, Fails, Types, Whereabouts, FreedOnce, Early, Busy
<1>3. live' = {} /\ ~doubleFree' /\ doubleFree' \in BOOLEAN
  <2>1. CASE pc = "start"
    BY <1>1, <1>2, <2>1, DistinctNone, FreeDistinct DEF FirstPassFails, Owned
  <2>2. CASE pc = "alloc_raw"
    <3>1. Free(<<ArgArray>>)
      BY <2>2 DEF FirstPassFails
    <3>2. live = {ArgArray}
      BY <1>1, <2>2 DEF Owned
    <3> QED
      BY <1>2, <3>1, <3>2, DistinctOne, FreeDistinct
  <2>3. CASE pc = "read"
    <3> DEFINE words == [x \in DOMAIN raw |-> Raw(x)]
               Held == {Raw(n) : n \in DOMAIN raw}
    <3>1. DOMAIN raw = 1 .. Len(raw) /\ Len(raw) \in Nat
      BY <1>1 DEF Types
    <3>2. Distinct(words, Held)
      BY <3>1, DistinctArrays
    <3>3. live = Held \cup {RawArray} \cup {ArgArray}
      BY <1>1, <2>3 DEF Owned
    <3>4. RawArray \notin Held /\ ArgArray \notin Held \cup {RawArray}
      BY Kinds
    <3>5. Free(words \o <<RawArray>> \o <<ArgArray>>)
      BY <2>3 DEF FirstPassFails
    <3> HIDE DEF words, Held
    <3>6. Distinct(words \o <<RawArray>>, Held \cup {RawArray})
      BY <3>2, <3>4, DistinctOne, DistinctConcat
    <3>7. Distinct((words \o <<RawArray>>) \o <<ArgArray>>, (Held \cup {RawArray}) \cup {ArgArray})
      BY <3>4, <3>6, DistinctOne, DistinctConcat
    <3> QED
      BY <1>2, <3>3, <3>5, <3>7, FreeDistinct
  <2> QED
    BY <1>2, <2>1, <2>2, <2>3
<1>4. pc' = "error"
  BY <1>3 DEF FirstPassFails, Leave
<1>5. Types'
  BY <1>1, <1>2, <1>3, <1>4 DEF Types
<1>6. Whereabouts' /\ FreedOnce' /\ Passed' /\ Covered'
  BY <1>1, <1>2, <1>3, <1>4 DEF Whereabouts, FreedOnce, Passed, Covered, Early, Busy
<1>7. Owned'
  BY <1>3, <1>4 DEF Owned, Busy
<1>8. (live \subseteq Objects)'
  BY <1>3 DEF Objects
<1> QED
  BY <1>5, <1>6, <1>7, <1>8 DEF ArgsInv

LEMMA ExpandWordKeeps ==
    ASSUME ArgsInv, ExpandWord
    PROVE  ArgsInv'
<1>1. Types /\ Whereabouts /\ FreedOnce /\ Passed /\ Covered /\ Owned /\ live \subseteq Objects
  BY DEF ArgsInv
<1>2. /\ pc = "word" /\ i <= Len(raw) /\ items = <<>> /\ matches = <<>> /\ j = 0 /\ k = 0
      /\ list = <<>> /\ ~doubleFree /\ i \in DOMAIN raw /\ raw[i] \in Text
  BY <1>1 DEF Whereabouts, FreedOnce, ExpandWord, Early, Busy, Types
<1>3. /\ pc' = "wildcard" /\ items' \in Seq(Text) /\ DOMAIN items' = 1 .. Len(items') /\ Len(items') \in Nat
      /\ UNCHANGED <<line, list, raw, i, matches, k, args, capacity, doubleFree, failed>>
      /\ items' = <<>> => j' = 0 /\ live' = live
      /\ items' # <<>> => /\ j' = 1 /\ Len(items') # 0
                          /\ live' = live \cup {BraceArray} \cup {Brace(n) : n \in DOMAIN items'}
  <2>1. items' \in Seq(Text)
    BY <1>2, ExpandBraceType, TextAppend DEF ExpandWord
  <2> QED
    BY <2>1 DEF ExpandWord
<1>4. Types'
  BY <1>1, <1>2, <1>3 DEF Types
<1>5. Whereabouts' /\ FreedOnce' /\ Covered'
  BY <1>1, <1>2, <1>3 DEF Whereabouts, FreedOnce, Covered, Early, Busy
<1>6. Passed'
  <2>1. ASSUME NEW x \in DOMAIN args PROVE Before(args[x].obj, i, j', k)
    <3>1. Before(args[x].obj, i, 0, 0) /\ args[x].obj \in String
      BY <1>1, <1>2, ArgvDistinct DEF Passed, InArgs
    <3>2. j' \in Nat /\ i \in Nat
      BY <1>1, <1>2, <1>3 DEF Types
    <3> QED
      BY <1>2, <3>1, <3>2, StringFields DEF Before
  <2> QED
    BY <1>1, <1>3, <2>1 DEF Passed
<1>7. Owned'
  <2>1. Busy /\ Busy'
    BY <1>2, <1>3 DEF Busy
  <2>2. InArgs' = InArgs /\ Left' = Left
    BY <1>3 DEF InArgs, Left
  <2> DEFINE New == IF items' = <<>> THEN {}
                    ELSE {BraceArray} \cup {BraceOf(i, n) : n \in 1 .. Len(items')}
  <2>3. live' = live \cup New
    BY <1>3, HereNames
  <2>4. Ahead' = Ahead \cup New
    <3>1. UNCHANGED <<raw, i, matches>>
      BY <1>3
    <3> QED
      BY <1>2, <1>3, <2>1, <3>1, HereNames DEF Ahead
  <2> HIDE DEF New
  <2> QED
    BY <1>1, <1>3, <2>1, <2>2, <2>3, <2>4 DEF Owned
<1>8. (live \subseteq Objects)'
  BY <1>1, <1>2, <1>3, HereNames, Kinds DEF Objects
<1> QED
  BY <1>4, <1>5, <1>6, <1>7, <1>8 DEF ArgsInv

(* Freeing a list twice is freeing something twice. *)
LEMMA TwiceIsTwice ==
    ASSUME NEW T, NEW s \in Seq(T), Len(s) # 0, NEW new, AllocFree(new, s \o s)
    PROVE  doubleFree' = TRUE
<1>1. 1 \in 1 .. Len(s) /\ Len(s) \in Nat
  OBVIOUS
<1>2. /\ 1 \in DOMAIN (s \o s) /\ Len(s) + 1 \in DOMAIN (s \o s)
      /\ (s \o s)[1] = s[1] /\ (s \o s)[Len(s) + 1] = s[1] /\ Len(s) + 1 # 1
  BY <1>1, PlacesOfConcat
<1>3. ~IsInjective(s \o s)
  BY <1>2 DEF IsInjective
<1> QED
  BY <1>3 DEF AllocFree

LEMMA ExpandBraceFailsKeeps ==
    ASSUME ArgsInv, ExpandBraceFails
    PROVE  ArgsInv'
<1>1. Types /\ Whereabouts /\ FreedOnce /\ Passed /\ Covered /\ Owned /\ live \subseteq Objects
  BY DEF ArgsInv
<1>2. /\ pc = "word" /\ i <= Len(raw) /\ items = <<>> /\ matches = <<>> /\ j = 0 /\ k = 0
      /\ list = <<>> /\ ~doubleFree
  BY <1>1 DEF Whereabouts, FreedOnce, ExpandBraceFails, Early, Busy
<1>3. PICK n \in 0 .. Len(ExpandBrace(raw[i])) - 1 :
          LET once == IF n = 0 THEN <<>> ELSE [x \in 1 .. n |-> Brace(x)] \o <<BraceArray>>
          IN  /\ Fails(IF n = 0 THEN "brace" ELSE "brace_later")
              /\ AllocFree(ToSet(once), once \o once)
  BY DEF ExpandBraceFails
<1>4. failed \subseteq failed' /\ failed' \subseteq FailSite
      /\ UNCHANGED <<line, list, raw, i, items, j, matches, k, args, capacity>>
  BY <1>1, <1>2, <1>3 DEF ExpandBraceFails, Fails, Types
<1>5. ASSUME n = 0 PROVE live' = live /\ ~doubleFree' /\ doubleFree' \in BOOLEAN /\ pc' = "wildcard"
  <2>1. <<>> \o <<>> = <<>> /\ ToSet(<<>>) = {}
    BY DEF ToSet
  <2>2. AllocFree({}, <<>>)
    BY <1>3, <1>5, <2>1
  <2>3. live' = live /\ ~doubleFree' /\ doubleFree' \in BOOLEAN
    BY <1>2, <2>2, DistinctNone, AllocFreeDistinct
  <2> QED
    BY <2>3 DEF ExpandBraceFails, Leave
<1>6. ASSUME n # 0 PROVE live' \subseteq live /\ doubleFree' = TRUE /\ pc' = "aborted" /\ "brace_later" \in failed'
  <2> DEFINE once == [x \in 1 .. n |-> Brace(x)] \o <<BraceArray>>
             names == {BraceOf(i, x) : x \in 1 .. n}
  <2>1. n \in Nat
    OBVIOUS
  <2>2. Distinct([x \in 1 .. n |-> Brace(x)], names)
    BY <2>1, DistinctArrays
  <2>3. Listed(once, names \cup {BraceArray}) /\ Listed(once \o once, names \cup {BraceArray})
    <3>1. Listed(once, names \cup {BraceArray})
      <4> HIDE DEF names
      <4> QED
        BY <2>2, DistinctOne, ListedConcat DEF Distinct
    <3> HIDE DEF once, names
    <3>2. Listed(once \o once, (names \cup {BraceArray}) \cup (names \cup {BraceArray}))
      BY <3>1, ListedConcat
    <3> QED
      BY <3>1, <3>2
  <2>4. AllocFree(ToSet(once), once \o once) /\ "brace_later" \in failed'
    BY <1>3, <1>6 DEF Fails
  <2>5. Len(once) # 0
    <3>1. [x \in 1 .. n |-> Brace(x)] \in Seq(names \cup {BraceArray}) /\ <<BraceArray>> \in Seq(names \cup {BraceArray})
      BY <2>1, HereNames
    <3>2. DOMAIN once = 1 .. n + 1
      <4> DEFINE front == [x \in 1 .. n |-> Brace(x)]
      <4>1. Len(front) = n /\ Len(<<BraceArray>>) = 1
        BY <2>1
      <4> HIDE DEF front
      <4> QED
        BY <3>1, <4>1, PlacesOfConcat DEF front
    <3>3. once \in Seq(names \cup {BraceArray})
      BY <2>3 DEF Listed
    <3> HIDE DEF once, names
    <3> QED
      BY <2>1, <3>2, <3>3
  <2> HIDE DEF once, names
  <2>6. doubleFree' = TRUE
    BY <2>3, <2>4, <2>5, TwiceIsTwice DEF Listed
  <2>7. live' \subseteq live
    BY <2>3, <2>4 DEF Listed, AllocFree
  <2> QED
    BY <2>4, <2>6, <2>7 DEF ExpandBraceFails, Leave
<1>7. Types'
  BY <1>1, <1>2, <1>4, <1>5, <1>6 DEF Types
<1>8. Whereabouts' /\ FreedOnce' /\ Passed' /\ Covered'
  BY <1>1, <1>2, <1>4, <1>5, <1>6 DEF Whereabouts, FreedOnce, Passed, Covered, Early, Busy
<1>9. Owned'
  <2>1. InArgs' = InArgs /\ Left' = Left
    BY <1>4 DEF InArgs, Left
  <2>2. pc' = "wildcard" => Ahead' = Ahead
    BY <1>2, <1>4 DEF Ahead, Busy, Brace, Match
  <2>3. pc' = "wildcard" => live' = live
    BY <1>5, <1>6
  <2> QED
    BY <1>1, <1>2, <1>5, <1>6, <2>1, <2>2, <2>3 DEF Owned, Busy
<1>10. (live \subseteq Objects)'
  BY <1>1, <1>4, <1>5, <1>6 DEF Objects
<1> QED
  BY <1>7, <1>8, <1>9, <1>10 DEF ArgsInv

(* The list of the names found. *)
LEMMA FoundDistinct ==
    ASSUME Types, Whereabouts, NEW n \in Nat, live \subseteq Objects
    PROVE  /\ Distinct(FoundList(n), {FoundName(x) : x \in 1 .. n} \cup {Found})
           /\ ToSet(FoundList(n)) = {FoundName(x) : x \in 1 .. n} \cup {Found}
           /\ live \cap ToSet(FoundList(n)) = {}
<1> DEFINE names == {FoundName(x) : x \in 1 .. n}
<1>0. names \cap {Found} = {}
  BY Kinds
<1>1. Distinct([x \in 1 .. n |-> FoundName(x)], names)
  BY DistinctArrays
<1>2. \A o \in live : o[1] \notin {"found", "match_list"}
  BY Kinds DEF Objects
<1>3. live \cap (names \cup {Found}) = {}
  BY <1>2, Kinds
<1>4. FoundList(n) = [x \in 1 .. n |-> FoundName(x)] \o <<Found>>
  BY DEF FoundList
<1> HIDE DEF names
<1>5. Distinct(FoundList(n), names \cup {Found})
  <2>1. Distinct(<<Found>>, {Found})
    BY DistinctOne
  <2>2. PICK s : s = [x \in 1 .. n |-> FoundName(x)]
    OBVIOUS
  <2>3. Distinct(s \o <<Found>>, names \cup {Found})
    BY <1>0, <1>1, <2>1, <2>2, DistinctConcat
  <2> QED
    BY <1>4, <2>2, <2>3
<1> QED
  BY <1>3, <1>5 DEF Distinct, Listed, names

LEMMA ExpandWildcardKeeps ==
    ASSUME ArgsInv, ExpandWildcard
    PROVE  ArgsInv'
<1>1. Types /\ Whereabouts /\ FreedOnce /\ Passed /\ Covered /\ Owned /\ live \subseteq Objects
  BY DEF ArgsInv
<1>2. /\ pc = "wildcard" /\ i <= Len(raw) /\ matches = <<>> /\ k = 0 /\ list = <<>> /\ ~doubleFree
  BY <1>1 DEF Whereabouts, FreedOnce, ExpandWildcard, Early, Busy
<1>0. PICK all : all = AllMatches
  OBVIOUS
<1>5. all \in Seq(Text)
  BY <1>0, Inputs, MatchesType, TextAppend DEF AllMatches
<1>3. PICK n \in 0 .. Len(all) :
         /\ IF n = Len(all) THEN UNCHANGED failed ELSE Fails("match_list")
         /\ matches' = SubSeq(all, 1, n)
         /\ k' = IF n = 0 THEN 0 ELSE 1
         /\ live' = live \cup (IF n = 0 THEN {} ELSE {MatchArray} \cup {MatchOf(i, j, x) : x \in 1 .. n})
         /\ ~doubleFree'
         /\ pc' = IF n = 0 THEN "keep" ELSE "match"
  <2>1. PICK n \in 0 .. Len(all) :
         /\ IF n = Len(all) THEN UNCHANGED failed ELSE Fails("match_list")
         /\ matches' = SubSeq(all, 1, n)
         /\ k' = IF n = 0 THEN 0 ELSE 1
         /\ AllocFree(ToSet(FoundList(n))
                         \cup (IF n = 0 THEN {} ELSE {MatchArray} \cup ToSet(Copies(n))),
                       FoundList(n))
         /\ pc' = IF n = 0 THEN "keep" ELSE "match"
    BY <1>0 DEF ExpandWildcard
  <2>2. n \in Nat
    BY <1>5
  <2> DEFINE found == {FoundName(x) : x \in 1 .. n} \cup {Found}
             copied == IF n = 0 THEN {} ELSE {MatchArray} \cup {MatchOf(i, j, x) : x \in 1 .. n}
  <2>3. Distinct(FoundList(n), found) /\ ToSet(FoundList(n)) = found /\ live \cap found = {}
    BY <1>1, <2>2, FoundDistinct
  <2>4. ToSet(Copies(n)) = {MatchOf(i, j, x) : x \in 1 .. n}
    BY <2>2, DistinctArrays DEF Copies, Distinct, Listed
  <2>5. AllocFree(found \cup copied, FoundList(n))
    BY <2>1, <2>3, <2>4
  <2>6. copied \cap found = {}
    BY Kinds
  <2> HIDE DEF found, copied
  <2>7. live' = live \cup copied /\ ~doubleFree'
    BY <1>2, <2>3, <2>5, <2>6, AllocFreeDistinct
  <2> QED
    BY <2>1, <2>7 DEF copied
<1>4. UNCHANGED <<line, list, raw, i, items, j, args, capacity>> /\ doubleFree' = FALSE
  <2>1. doubleFree' \in BOOLEAN
    BY DEF ExpandWildcard, AllocFree
  <2> QED
    BY <1>3, <2>1 DEF ExpandWildcard
<1>6. matches' \in Seq(Text) /\ Len(matches') = n /\ (n = 0 => matches' = <<>>)
  BY <1>3, <1>5
<1>7. n # 0 => HasWildcard(Current)
  <2>1. ~ HasWildcard(Current) => Len(all) = 0
    BY <1>0 DEF AllMatches
  <2> QED
    BY <1>3, <2>1
<1>8. failed \subseteq failed' /\ failed' \subseteq FailSite
  BY <1>1, <1>3 DEF Fails, Types
<1>9. n \in Nat
  BY <1>5
<1>10. Types'
  <2>1. pc' \in {"keep", "match"} /\ doubleFree' \in BOOLEAN
    BY <1>3, <1>4
  <2>2. k' \in 0 .. Len(matches')
    <3>1. k' = (IF n = 0 THEN 0 ELSE 1) /\ Len(matches') = n
      BY <1>3, <1>6
    <3> QED
      BY <1>9, <3>1
  <2> QED
    BY <1>1, <1>4, <1>6, <1>8, <2>1, <2>2 DEF Types
<1>11. Current' = Current
  BY <1>4 DEF Current
<1>12. Whereabouts' /\ FreedOnce' /\ Covered'
  <2>1. pc' \in {"keep", "match"} /\ (pc' = "match" <=> n # 0) /\ k' = (IF n = 0 THEN 0 ELSE 1)
    BY <1>3
  <2>2. Whereabouts'
    BY <1>1, <1>2, <1>4, <1>6, <1>7, <1>9, <1>11, <2>1 DEF Whereabouts, Early, Busy
  <2>3. FreedOnce' /\ Covered'
    BY <1>1, <1>2, <1>4, <2>1 DEF FreedOnce, Covered
  <2> QED
    BY <2>2, <2>3
<1>13. Passed'
  <2>1. ASSUME NEW x \in DOMAIN args PROVE Before(args[x].obj, i, j, k')
    <3>1. Before(args[x].obj, i, j, 0) /\ args[x].obj \in String
      BY <1>1, <1>2, ArgvDistinct DEF Passed, InArgs
    <3>2. k' \in Nat /\ j \in Nat /\ i \in Nat
      BY <1>1, <1>3 DEF Types
    <3> QED
      BY <1>2, <3>1, <3>2, StringFields DEF Before
  <2> QED
    BY <1>1, <1>4, <2>1 DEF Passed
<1>14. Owned'
  <2>1. Busy /\ Busy'
    BY <1>2, <1>3 DEF Busy
  <2>2. InArgs' = InArgs /\ Left' = Left
    BY <1>4 DEF InArgs, Left
  <2> DEFINE New == IF n = 0 THEN {} ELSE {MatchArray} \cup {MatchOf(i, j, x) : x \in 1 .. n}
  <2>3. live' = live \cup New
    BY <1>3, HereNames
  <2>4. Ahead' = Ahead \cup New
    <3>1. UNCHANGED <<raw, i, items, j>>
      BY <1>4
    <3>2. (matches' = <<>> <=> n = 0) /\ (n # 0 => k' = 1)
      BY <1>3, <1>6
    <3> QED
      BY <1>2, <1>3, <1>6, <2>1, <3>1, <3>2, HereNames DEF Ahead
  <2> HIDE DEF New
  <2> QED
    BY <1>1, <1>3, <2>1, <2>2, <2>3, <2>4 DEF Owned
<1>15. (live \subseteq Objects)'
  BY <1>1, <1>3, <1>4, HereNames, Kinds DEF Objects
<1> QED
  BY <1>10, <1>12, <1>13, <1>14, <1>15 DEF ArgsInv

(* Everything that expand_wildcard allocated is freed once.                  *)
LEMMA ExpandWildcardFailsKeeps ==
    ASSUME ArgsInv, ExpandWildcardFails
    PROVE  ArgsInv'
<1>1. Types /\ Whereabouts /\ FreedOnce /\ Passed /\ Covered /\ Owned /\ live \subseteq Objects
  BY DEF ArgsInv
<1>2. /\ pc = "wildcard" /\ i <= Len(raw) /\ matches = <<>> /\ k = 0 /\ list = <<>> /\ ~doubleFree
      /\ UNCHANGED <<line, list, raw, i, items, j, matches, k, args, capacity>>
      /\ failed \subseteq failed' /\ failed' \subseteq FailSite
  BY <1>1 DEF Whereabouts, FreedOnce, ExpandWildcardFails, Early, Busy, Fails, Types
<1>3. AllMatches \in Seq(Text)
  BY Inputs, MatchesType, TextAppend DEF AllMatches
<1>4. PICK n \in 0 .. Len(AllMatches), array \in BOOLEAN :
          \E m \in 0 .. IF array THEN n - 1 ELSE 0 :
             LET freed == (IF array THEN Copies(m) \o <<MatchArray>> ELSE <<>>)
                          \o (IF n = 0 THEN <<>> ELSE FoundList(n))
             IN  AllocFree(ToSet(freed), freed)
  BY DEF ExpandWildcardFails
<1>5. PICK m \in 0 .. IF array THEN n - 1 ELSE 0 :
             LET freed == (IF array THEN Copies(m) \o <<MatchArray>> ELSE <<>>)
                          \o (IF n = 0 THEN <<>> ELSE FoundList(n))
             IN  AllocFree(ToSet(freed), freed)
  BY <1>4
<1>6. n \in Nat /\ m \in Nat
  BY <1>3
<1> DEFINE copies == IF array THEN Copies(m) \o <<MatchArray>> ELSE <<>>
           copied == IF array THEN {MatchOf(i, j, x) : x \in 1 .. m} \cup {MatchArray} ELSE {}
           names == IF n = 0 THEN <<>> ELSE FoundList(n)
           found == IF n = 0 THEN {} ELSE {FoundName(x) : x \in 1 .. n} \cup {Found}
<1>7. Distinct(copies, copied)
  <2>1. Distinct(Copies(m), {MatchOf(i, j, x) : x \in 1 .. m})
    BY <1>6, DistinctArrays DEF Copies
  <2>2. MatchArray \notin {MatchOf(i, j, x) : x \in 1 .. m}
    BY Kinds
  <2>3. Distinct(Copies(m) \o <<MatchArray>>, {MatchOf(i, j, x) : x \in 1 .. m} \cup {MatchArray})
    BY <2>1, <2>2, DistinctOne, DistinctConcat
  <2> QED
    BY <2>3, DistinctNone
<1>8. Distinct(names, found)
  BY <1>1, <1>6, FoundDistinct, DistinctNone
<1>9. copied \cap found = {}
  BY Kinds
<1>10. live \cap (copied \cup found) = {}
  <2>1. live \cap found = {}
    BY <1>1, <1>6, FoundDistinct
  <2>2. ASSUME NEW o \in live PROVE o # MatchArray /\ \A x \in 1 .. m : o # MatchOf(i, j, x)
    <3>1. o \in InArgs \cup {ArgArray} \cup Ahead \cup Left
      BY <1>1, <1>2 DEF Owned, Busy
    <3>2. o \in InArgs => o[1] \in {"raw", "brace", "match"} /\ Before(o, i, j, 0)
      BY <1>1, <1>2, ArgvDistinct, StringFields DEF Passed, InArgs
    <3>3. \A x \in 1 .. m : ~Before(MatchOf(i, j, x), i, j, 0)
      <4>1. i \in Nat /\ j \in Nat
        BY <1>1 DEF Types
      <4> QED
        BY <1>6, <4>1, Kinds DEF Before
    <3>4. o \in {ArgArray} \cup Ahead \cup Left => o[1] \in {"args", "raw_args", "raw", "brace", "brace_expansions"}
      BY <1>2, HereNames, Kinds DEF Ahead, Left
    <3> QED
      BY <3>1, <3>2, <3>3, <3>4, Kinds
  <2> QED
    BY <2>1, <2>2
<1>11. AllocFree(ToSet(copies \o names), copies \o names)
  BY <1>5
<1> HIDE DEF copies, copied, names, found
<1>12. Distinct(copies \o names, copied \cup found)
  BY <1>7, <1>8, <1>9, DistinctConcat
<1>13. live' = live /\ ~doubleFree' /\ doubleFree' = FALSE
  <2>1. AllocFree(copied \cup found, copies \o names)
    BY <1>11, <1>12 DEF Distinct, Listed
  <2>2. live' = (live \cup (copied \cup found)) \ (copied \cup found)
        /\ ~doubleFree' /\ doubleFree' \in BOOLEAN
    BY <1>2, <1>12, <2>1, AllocFreeDistinct
  <2> QED
    BY <1>10, <2>2
<1>14. pc' = "keep"
  BY <1>13 DEF ExpandWildcardFails, Leave
<1>15. Types'
  BY <1>1, <1>2, <1>13, <1>14 DEF Types
<1>16. Whereabouts' /\ FreedOnce' /\ Passed' /\ Covered'
  BY <1>1, <1>2, <1>13, <1>14 DEF Whereabouts, FreedOnce, Passed, Covered, Early, Busy
<1>17. Owned'
  <2>1. InArgs' = InArgs /\ Left' = Left
    BY <1>2 DEF InArgs, Left
  <2>2. Ahead' = Ahead
    BY <1>2, <1>14, HereNames DEF Ahead, Busy
  <2> QED
    BY <1>1, <1>2, <1>13, <1>14, <2>1, <2>2 DEF Owned, Busy
<1>18. (live \subseteq Objects)'
  BY <1>1, <1>2, <1>13 DEF Objects
<1> QED
  BY <1>15, <1>16, <1>17, <1>18 DEF ArgsInv

(* A word a wildcard replaced is one argv does not hold. *)
LEMMA LeftOver ==
    Left \ InArgs \subseteq ReplacedWords
<1> SUFFICES ASSUME NEW m \in DOMAIN raw, m < i, HasWildcard(raw[m]), Raw(m) \notin InArgs
             PROVE  Raw(m) \in ReplacedWords
  BY DEF Left
<1>1. \A x \in DOMAIN args : args[x].obj # Raw(m)
  BY DEF InArgs
<1> QED
  BY <1>1 DEF ReplacedWords

LEMMA GrowFailsKeeps ==
    ASSUME ArgsInv, GrowFails
    PROVE  ArgsInv'
<1>1. Types /\ Whereabouts /\ FreedOnce /\ Passed /\ Covered /\ Owned /\ live \subseteq Objects
  BY DEF ArgsInv
<1>2. /\ Busy /\ i <= Len(raw) /\ list = <<>> /\ ~doubleFree
      /\ UNCHANGED <<line, list, raw, i, items, j, matches, k, args, capacity>>
      /\ failed \subseteq failed' /\ GrowSite \in failed' /\ failed' \subseteq FailSite
      /\ doubleFree' \in BOOLEAN /\ pc \in {"keep", "match"}
      /\ pc' = IF doubleFree' THEN "aborted" ELSE "error"
  BY <1>1 DEF GrowFails, Whereabouts, FreedOnce, Early, Busy, Types, Fails, Free, AllocFree, Leave
<1>3. /\ i \in Nat /\ j \in Nat /\ k \in Nat /\ Len(raw) \in Nat /\ Len(raw) - i \in Nat
      /\ items \in Seq(Text) /\ Len(items) \in Nat /\ matches \in Seq(Text) /\ Len(matches) \in Nat
      /\ DOMAIN items = 1 .. Len(items) /\ DOMAIN matches = 1 .. Len(matches)
      /\ (items = <<>> <=> j = 0) /\ (matches = <<>> <=> k = 0)
  BY <1>1, <1>2 DEF Types, Whereabouts
<1> DEFINE objs == [x \in DOMAIN args |-> args[x].obj]
           rest == [x \in 1 .. Len(raw) - i |-> Raw(i + x)]
           Rest == {Raw(n) : n \in i + 1 .. Len(raw)}
           names == IF matches = <<>> THEN <<>>
                    ELSE [x \in DOMAIN matches |-> Match(x)] \o <<MatchArray>>
           Names1 == IF matches = <<>> THEN {}
                     ELSE {MatchOf(i, j, x) : x \in 1 .. Len(matches)} \cup {MatchArray}
           parts == IF items = <<>> THEN <<>>
                    ELSE [x \in DOMAIN items |-> Brace(x)] \o <<BraceArray>>
           Parts == IF items = <<>> THEN {}
                    ELSE {BraceOf(i, x) : x \in 1 .. Len(items)} \cup {BraceArray}
<1>4. Distinct(objs, InArgs) /\ InArgs \subseteq String /\ ArgArray \notin InArgs
  BY <1>1, ArgvDistinct
<1>5. Distinct(rest, Rest)
  <2>1. PICK name : name = rest
    OBVIOUS
  <2>2. name = [x \in 1 .. Len(raw) - i |-> name[x]] /\ \A x \in 1 .. Len(raw) - i : name[x] = Raw(i + x)
    BY <2>1
  <2>3. \A x, y \in 1 .. Len(raw) - i : name[x] = name[y] => x = y
    BY <1>3, <2>2, Kinds
  <2>4. Distinct(name, {name[x] : x \in 1 .. Len(raw) - i})
    BY <1>3, <2>2, <2>3, DistinctNames
  <2>5. \A n \in i + 1 .. Len(raw) : n - i \in 1 .. Len(raw) - i /\ i + (n - i) = n
    BY <1>3
  <2>6. \A x \in 1 .. Len(raw) - i : i + x \in i + 1 .. Len(raw)
    BY <1>3
  <2>7. {name[x] : x \in 1 .. Len(raw) - i} = Rest
    BY <2>2, <2>5, <2>6
  <2> QED
    BY <2>1, <2>4, <2>7
<1>6. Distinct(names, Names1)
  <2>1. MatchArray \notin {MatchOf(i, j, x) : x \in 1 .. Len(matches)}
    BY Kinds
  <2>2. Distinct([x \in DOMAIN matches |-> Match(x)] \o <<MatchArray>>,
                 {MatchOf(i, j, x) : x \in 1 .. Len(matches)} \cup {MatchArray})
    BY <1>3, <2>1, DistinctArrays, DistinctOne, DistinctConcat
  <2> QED
    BY <2>2, DistinctNone
<1>7. Distinct(parts, Parts)
  <2>1. BraceArray \notin {BraceOf(i, x) : x \in 1 .. Len(items)}
    BY Kinds
  <2>2. Distinct([x \in DOMAIN items |-> Brace(x)] \o <<BraceArray>>,
                 {BraceOf(i, x) : x \in 1 .. Len(items)} \cup {BraceArray})
    BY <1>3, <2>1, DistinctArrays, DistinctOne, DistinctConcat
  <2> QED
    BY <2>2, DistinctNone
<1>8. Abandoned = ((((names \o parts) \o objs) \o <<ArgArray>>) \o rest) \o <<RawArray>>
  <2>1. Abandoned = names \o parts \o objs \o <<ArgArray>> \o rest \o <<RawArray>>
    BY DEF Abandoned
  <2> HIDE DEF names, parts, objs, rest
  <2> QED
    BY <2>1
<1>9. /\ Rest \cap InArgs = {} /\ ArgArray \notin InArgs \cup Rest
      /\ RawArray \notin InArgs \cup Rest \cup {ArgArray}
      /\ Names1 \cap Parts = {} /\ (Names1 \cup Parts) \cap (Rest \cup {ArgArray} \cup {RawArray}) = {}
  <2>1. \A o \in InArgs : Before(o, i, j, k) /\ o[1] \in {"raw", "brace", "match"}
    BY <1>1, <1>4, StringFields DEF Passed, InArgs
  <2>2. \A n \in i + 1 .. Len(raw) : ~Before(Raw(n), i, j, k)
    BY <1>3, Kinds DEF Before
  <2>3. Rest \cap InArgs = {} /\ ArgArray \notin InArgs \cup Rest
        /\ RawArray \notin InArgs \cup Rest \cup {ArgArray}
    BY <2>1, <2>2, Kinds
  <2>4. Names1 \cap Parts = {} /\ (Names1 \cup Parts) \cap (Rest \cup {ArgArray} \cup {RawArray}) = {}
    BY Kinds
  <2> QED
    BY <2>3, <2>4
<1>10. ASSUME ~ (j > 1 \/ k > 1)
       PROVE  /\ Names1 \cup Parts \subseteq Ahead /\ (Names1 \cup Parts) \cap InArgs = {}
  <2>1. (items # <<>> => j = 1) /\ (matches # <<>> => k = 1)
    BY <1>3, <1>10
  <2>2. Names1 \cup Parts \subseteq Ahead
    BY <2>1, HereNames DEF Ahead
  <2>3. \A o \in InArgs : Before(o, i, j, k) /\ o[1] \in {"raw", "brace", "match"}
    BY <1>1, <1>4, StringFields DEF Passed, InArgs
  <2>4. (items # <<>> => \A n \in 1 .. Len(items) : ~Before(BraceOf(i, n), i, j, k))
    BY <1>3, <2>1, Kinds DEF Before
  <2>5. (matches # <<>> => \A n \in 1 .. Len(matches) : ~Before(MatchOf(i, j, n), i, j, k))
    BY <1>3, <2>1, Kinds DEF Before
  <2>6. Names1 \cap InArgs = {}
    BY <2>3, <2>5, Kinds
  <2>7. Parts \cap InArgs = {}
    BY <2>3, <2>4, Kinds
  <2> QED
    BY <2>2, <2>6, <2>7
<1>11. Rest \cup {RawArray} \subseteq Ahead
  BY <1>2, <1>3 DEF Ahead
<1>12. Ahead \subseteq Names1 \cup Parts \cup Rest \cup {RawArray} \cup {Raw(i)}
  <2>1. Busy /\ pc # "list"
    BY <1>2
  <2>2. Ahead = {RawArray} \cup {Raw(n) : n \in i .. Len(raw)}
                \cup (IF items = <<>> THEN {} ELSE {BraceArray} \cup {BraceOf(i, n) : n \in j .. Len(items)})
                \cup (IF matches = <<>> THEN {} ELSE {MatchArray} \cup {MatchOf(i, j, n) : n \in k .. Len(matches)})
    BY <2>1, HereNames DEF Ahead
  <2>3. /\ \A n \in i .. Len(raw) : n = i \/ n \in i + 1 .. Len(raw)
        /\ items # <<>> => \A n \in j .. Len(items) : n \in 1 .. Len(items)
        /\ matches # <<>> => \A n \in k .. Len(matches) : n \in 1 .. Len(matches)
    BY <1>3
  <2> QED
    BY <2>2, <2>3
<1>13. Free(Abandoned)
  BY DEF GrowFails
<1>14. /\ InArgs \cup {ArgArray} \cup Ahead \subseteq live
       /\ live \subseteq InArgs \cup {ArgArray} \cup Ahead \cup Left
  BY <1>1, <1>2 DEF Owned
<1> HIDE DEF objs, rest, Rest, names, Names1, parts, Parts
<1> DEFINE All == ((((Names1 \cup Parts) \cup InArgs) \cup {ArgArray}) \cup Rest) \cup {RawArray}
<1>15. Listed(Abandoned, All)
  <2>1. Listed(names \o parts, Names1 \cup Parts)
    BY <1>6, <1>7, ListedConcat DEF Distinct
  <2>2. Listed((names \o parts) \o objs, (Names1 \cup Parts) \cup InArgs)
    BY <1>4, <2>1, ListedConcat DEF Distinct
  <2>3. Listed(((names \o parts) \o objs) \o <<ArgArray>>, ((Names1 \cup Parts) \cup InArgs) \cup {ArgArray})
    BY <2>2, DistinctOne, ListedConcat DEF Distinct
  <2>4. Listed((((names \o parts) \o objs) \o <<ArgArray>>) \o rest,
               (((Names1 \cup Parts) \cup InArgs) \cup {ArgArray}) \cup Rest)
    BY <1>5, <2>3, ListedConcat DEF Distinct
  <2>5. Listed(((((names \o parts) \o objs) \o <<ArgArray>>) \o rest) \o <<RawArray>>, All)
    BY <2>4, DistinctOne, ListedConcat DEF Distinct
  <2> QED
    BY <1>8, <2>5
<1>16. ASSUME ~ (j > 1 \/ k > 1) PROVE ~doubleFree'
  <2>1. Distinct(names \o parts, Names1 \cup Parts)
    BY <1>6, <1>7, <1>9, DistinctConcat
  <2>2. Distinct((names \o parts) \o objs, (Names1 \cup Parts) \cup InArgs)
    BY <1>4, <1>10, <1>16, <2>1, DistinctConcat
  <2>3. Distinct(((names \o parts) \o objs) \o <<ArgArray>>, ((Names1 \cup Parts) \cup InArgs) \cup {ArgArray})
    BY <1>9, <2>2, DistinctOne, DistinctConcat
  <2>4. Distinct((((names \o parts) \o objs) \o <<ArgArray>>) \o rest,
                 (((Names1 \cup Parts) \cup InArgs) \cup {ArgArray}) \cup Rest)
    BY <1>5, <1>9, <2>3, DistinctConcat
  <2>5. Distinct(((((names \o parts) \o objs) \o <<ArgArray>>) \o rest) \o <<RawArray>>, All)
    <3>1. ((((Names1 \cup Parts) \cup InArgs) \cup {ArgArray}) \cup Rest) \cap {RawArray} = {}
      BY <1>9
    <3> QED
      BY <2>4, <3>1, DistinctOne, DistinctConcat
  <2>6. All \subseteq live
    BY <1>10, <1>11, <1>14, <1>16
  <2> HIDE DEF All
  <2> QED
    BY <1>2, <1>8, <1>13, <2>5, <2>6, FreeDistinct
<1>17. FreedOnce'
  <2>1. j > 1 \/ k > 1 => GrowSite = "grow_moved"
    BY DEF GrowSite
  <2> QED
    BY <1>2, <1>16, <2>1 DEF FreedOnce
<1>18. live' = live \ All
  BY <1>13, <1>15 DEF Free, AllocFree, Listed
<1>19. live' \subseteq {Raw(i)} \cup (Left \ InArgs)
  BY <1>12, <1>14, <1>18
<1>20. Types'
  BY <1>1, <1>2 DEF Types
<1>21. Whereabouts' /\ Passed' /\ Covered'
  BY <1>1, <1>2 DEF Whereabouts, Passed, Covered, Early, Busy
<1>22. Owned'
  <2>1. live' \subseteq ReplacedWords' \cup {Raw(i)}
    <3>1. ReplacedWords' = ReplacedWords
      BY <1>2 DEF ReplacedWords
    <3> QED
      BY <1>1, <1>19, <3>1, LeftOver
  <2>2. failed' \cap {"grow", "grow_moved"} # {}
    BY <1>2 DEF GrowSite
  <2> QED
    BY <1>2, <2>1, <2>2 DEF Owned, Busy
<1>23. (live \subseteq Objects)'
  BY <1>1, <1>2, <1>18 DEF Objects
<1> QED
  BY <1>17, <1>20, <1>21, <1>22, <1>23 DEF ArgsInv

-----------------------------------------------------------------------------
(* A string is added to args. *)
LEMMA PushTypes ==
    ASSUME Types, NEW obj \in String, NEW text \in Text, Push(obj, text)
    PROVE  /\ args' \in Seq([obj : String, text : Text])
           /\ capacity' \in Nat \ {0} /\ Len(args') <= capacity'
           /\ DOMAIN args = 1 .. Len(args) /\ DOMAIN args' = 1 .. Len(args) + 1
           /\ Len(args') = Len(args) + 1 /\ Len(args) \in Nat
           /\ \A x \in 1 .. Len(args) : args'[x] = args[x]
           /\ args'[Len(args) + 1].obj = obj /\ args'[Len(args) + 1].text = text
           /\ InArgs' = InArgs \cup {obj}
<1> DEFINE R == [obj : String, text : Text]
           e == [obj |-> obj, text |-> text]
<1>1. args \in Seq(R) /\ e \in R /\ args' = Append(args, e) /\ e.obj = obj /\ e.text = text
  BY DEF Types, Push
<1> HIDE DEF R, e
<1>2. /\ args' \in Seq(R) /\ Len(args') = Len(args) + 1 /\ Len(args) \in Nat
      /\ DOMAIN args = 1 .. Len(args) /\ DOMAIN args' = 1 .. Len(args) + 1
      /\ \A x \in 1 .. Len(args) : args'[x] = args[x]
      /\ args'[Len(args) + 1] = e
  BY <1>1
<1>3. capacity' \in Nat \ {0} /\ Len(args') <= capacity'
  BY <1>2 DEF Types, Push, Grown
<1>4. InArgs' = InArgs \cup {obj}
  <2>1. Len(args) + 1 \in DOMAIN args' /\ DOMAIN args' = DOMAIN args \cup {Len(args) + 1}
    BY <1>2
  <2> QED
    BY <1>1, <1>2, <2>1 DEF InArgs
<1> QED
  BY <1>1, <1>2, <1>3, <1>4 DEF R

LEMMA BeforeLater ==
    ASSUME NEW o \in String, NEW a \in Nat, NEW b \in Nat, NEW c \in Nat,
           NEW d \in Nat, NEW e \in Nat, NEW f \in Nat,
           a < d \/ (a = d /\ (b < e \/ (b = e /\ c <= f))), Before(o, a, b, c)
    PROVE  Before(o, d, e, f)
  BY StringFields DEF Before

LEMMA PushPassed ==
    ASSUME Types, Passed, Types', NEW obj \in String, NEW text \in Text, Push(obj, text),
           i < i' \/ (i = i' /\ (j < j' \/ (j = j' /\ k <= k'))),
           ~Before(obj, i, j, k), Before(obj, i', j', k')
    PROVE  Passed'
<1>1. /\ DOMAIN args = 1 .. Len(args) /\ DOMAIN args' = 1 .. Len(args) + 1 /\ Len(args) \in Nat
      /\ \A x \in 1 .. Len(args) : args'[x] = args[x]
      /\ args'[Len(args) + 1].obj = obj
  BY PushTypes
<1>2. i \in Nat /\ j \in Nat /\ k \in Nat /\ i' \in Nat /\ j' \in Nat /\ k' \in Nat
  BY DEF Types
<1>3. \A x \in 1 .. Len(args) : args[x].obj \in String
  BY <1>1, ArgvDistinct DEF InArgs
<1>4. ASSUME NEW x \in 1 .. Len(args) PROVE Before(args[x].obj, i', j', k')
  BY <1>1, <1>2, <1>3, BeforeLater DEF Passed
<1>5. ASSUME NEW x \in DOMAIN args' PROVE x \in 1 .. Len(args) \/ x = Len(args) + 1
  BY <1>1
<1>6. \A x \in DOMAIN args' : Before(args'[x].obj, i', j', k')
  BY <1>1, <1>4, <1>5
<1>7. \A x \in 1 .. Len(args) : args[x].obj # obj
  BY <1>1 DEF Passed
<1>8. ASSUME NEW x \in DOMAIN args', NEW y \in DOMAIN args', args'[x].obj = args'[y].obj PROVE x = y
  BY <1>1, <1>5, <1>7, <1>8 DEF Passed
<1> QED
  BY <1>6, <1>8 DEF Passed

LEMMA PushCovered ==
    ASSUME Types, Types', Covered, NEW obj \in String, NEW text \in Text, Push(obj, text),
           i' = i \/ (i' = i + 1 /\ obj[2] = i)
    PROVE  Covered'
<1>1. /\ DOMAIN args = 1 .. Len(args) /\ DOMAIN args' = 1 .. Len(args) + 1 /\ Len(args) \in Nat
      /\ \A x \in 1 .. Len(args) : args'[x] = args[x]
      /\ args'[Len(args) + 1].obj = obj
  BY PushTypes
<1>2. i \in Nat
  BY DEF Types
<1>3. ASSUME NEW n \in 1 .. i' - 1 PROVE \E x \in DOMAIN args' : args'[x].obj[2] = n
  <2>1. CASE n \in 1 .. i - 1
    BY <1>1, <2>1 DEF Covered
  <2>2. CASE n = i /\ i' = i + 1
    <3>1. Len(args) + 1 \in DOMAIN args'
      BY <1>1
    <3> QED
      BY <1>1, <2>2, <3>1
  <2> QED
    BY <1>2, <2>1, <2>2
<1> QED
  BY <1>3 DEF Covered

(* What is added next is held, but not yet in args. *)
Next1 == IF matches = <<>> THEN CurrentObj ELSE Match(k)

LEMMA NextOne ==
    ASSUME Types, Whereabouts, pc \in {"keep", "match"}
    PROVE  /\ Next1 \in String /\ Next1[2] = i /\ Next1 \in Ahead /\ ~Before(Next1, i, j, k)
           /\ Before(Next1, i + 1, 0, 0)
           /\ items # <<>> => Before(Next1, i, j + 1, 0)
           /\ matches # <<>> => Before(Next1, i, j, k + 1)
<1>1. i \in Nat /\ j \in Nat /\ k \in Nat /\ i \in i .. Len(raw)
      /\ (items # <<>> => j \in j .. Len(items)) /\ (matches # <<>> => k \in k .. Len(matches))
  BY DEF Types, Whereabouts
<1>2. Next1 \in {Raw(i), BraceOf(i, j), MatchOf(i, j, k)}
  BY HereNames DEF Next1, CurrentObj
<1>3. Next1 \in String /\ Next1[2] = i
  BY <1>1, <1>2, Kinds DEF String
<1>4. Next1 \in Ahead
  BY <1>1 DEF Next1, CurrentObj, Ahead, Busy
<1>5. ~Before(Next1, i, j, k) /\ Before(Next1, i + 1, 0, 0)
  BY <1>1, <1>2, Kinds DEF Before
<1>6. items # <<>> => Before(Next1, i, j + 1, 0)
  BY <1>1, Kinds, HereNames DEF Before, Next1, CurrentObj
<1>7. matches # <<>> => Before(Next1, i, j, k + 1)
  BY <1>1, Kinds, HereNames DEF Before, Next1
<1> QED
  BY <1>3, <1>4, <1>5, <1>6, <1>7

(* What is freed once the text has been added: the array of the matches and *)
(* the brace expansion they replace, then the array of the expansions and   *)
(* their word.                                                              *)
Replaced ==
    (IF matches = <<>> THEN {}
     ELSE {MatchArray} \cup (IF items = <<>> THEN {} ELSE {Brace(j)}))
    \cup (IF items = <<>> \/ j < Len(items) THEN {} ELSE {BraceArray, Raw(i)})

LEMMA NextItemKeeps ==
    ASSUME ArgsInv, pc \in {"keep", "match"}, matches # <<>> => k = Len(matches),
           NEW text \in Text, Push(Next1, text), NEW freed, NextItem(freed),
           matches' = <<>>, k' = 0, UNCHANGED <<line, list, raw, failed>>,
           Distinct(freed, IF matches = <<>> THEN {}
                           ELSE {MatchArray} \cup (IF items = <<>> THEN {} ELSE {Brace(j)}))
    PROVE  ArgsInv'
<1> DEFINE First == IF matches = <<>> THEN {}
                    ELSE {MatchArray} \cup (IF items = <<>> THEN {} ELSE {Brace(j)})
           More == IF items = <<>> \/ j < Len(items) THEN {} ELSE {BraceArray, Raw(i)}
<1>1. Types /\ Whereabouts /\ FreedOnce /\ Passed /\ Covered /\ Owned /\ live \subseteq Objects
  BY DEF ArgsInv
<1>2. Busy /\ i <= Len(raw) /\ list = <<>> /\ ~doubleFree /\ (matches # <<>> => pc = "match")
      /\ i \in Nat /\ j \in Nat /\ k \in Nat /\ Len(raw) \in Nat /\ Len(items) \in Nat
      /\ Len(matches) \in Nat /\ j <= Len(items)
      /\ (items = <<>> <=> j = 0) /\ (matches = <<>> <=> k = 0)
      /\ (items = <<>> <=> Len(items) = 0)
  BY <1>1 DEF Whereabouts, FreedOnce, Early, Busy, Types
<1>3. /\ Next1 \in String /\ Next1[2] = i /\ Next1 \in Ahead /\ ~Before(Next1, i, j, k)
      /\ Before(Next1, i + 1, 0, 0) /\ (items # <<>> => Before(Next1, i, j + 1, 0))
  BY <1>1, NextOne
<1>4. /\ args' \in Seq([obj : String, text : Text]) /\ capacity' \in Nat \ {0}
      /\ Len(args') <= capacity' /\ InArgs' = InArgs \cup {Next1} /\ Len(args') \in Nat
      /\ Len(args') = Len(args) + 1 /\ Len(args) \in Nat
  <2>1. PICK obj \in String : obj = Next1
    BY <1>3
  <2>2. Push(obj, text)
    BY <2>1
  <2>3. /\ args' \in Seq([obj : String, text : Text]) /\ capacity' \in Nat \ {0}
        /\ Len(args') <= capacity' /\ InArgs' = InArgs \cup {obj}
        /\ Len(args') = Len(args) + 1 /\ Len(args) \in Nat
    BY <1>1, <2>2, PushTypes
  <2> QED
    BY <2>1, <2>3
<1>5. /\ j < Len(items) => /\ Free(freed) /\ j' = j + 1 /\ pc' = "wildcard"
                           /\ UNCHANGED <<i, items>>
      /\ ~ (j < Len(items)) => /\ Free(freed \o (IF items = <<>> THEN <<>> ELSE <<BraceArray, Raw(i)>>))
                               /\ i' = i + 1 /\ items' = <<>> /\ j' = 0 /\ pc' = "word"
  BY DEF NextItem
<1>6. Distinct(freed, First)
  OBVIOUS
<1>7. Distinct(IF items = <<>> THEN <<>> ELSE <<BraceArray, Raw(i)>>, IF items = <<>> THEN {} ELSE {BraceArray, Raw(i)})
  <2>1. BraceArray # Raw(i)
    BY Kinds
  <2> QED
    BY <2>1, DistinctNone, DistinctTwo
<1>8. Replaced = First \cup More /\ Replaced \subseteq Ahead /\ Next1 \notin Replaced
      /\ Replaced \cap (InArgs \cup {ArgArray}) = {}
  <2>1. Replaced = First \cup More
    BY DEF Replaced
  <2>2. Replaced \subseteq Ahead
    BY <1>2 DEF Replaced, Ahead
  <2>3. Next1 \notin Replaced
    BY <1>2, HereNames, Kinds DEF Replaced, Next1, CurrentObj
  <2>4. \A o \in Replaced : o \notin InArgs
    <3>1. \A o \in InArgs : Before(o, i, j, k) /\ o \in String
      BY <1>1, ArgvDistinct DEF Passed, InArgs
    <3>2. ~Before(Raw(i), i, j, k) /\ ~Before(BraceOf(i, j), i, j, k)
      BY <1>2, Kinds DEF Before
    <3>3. Replaced \subseteq {MatchArray, BraceArray, Raw(i), BraceOf(i, j)}
      BY HereNames DEF Replaced
    <3> QED
      BY <3>1, <3>2, <3>3, Kinds, StringFields
  <2>5. ArgArray \notin Replaced
    BY HereNames, Kinds DEF Replaced
  <2> QED
    BY <2>1, <2>2, <2>3, <2>4, <2>5
<1>9. InArgs \cup {ArgArray} \cup Ahead \subseteq live /\ live \subseteq InArgs \cup {ArgArray} \cup Ahead \cup Left
  BY <1>1, <1>2 DEF Owned
<1> HIDE DEF First, More
<1>10. live' = live \ Replaced /\ ~doubleFree'
  <2>1. CASE j < Len(items)
    <3>1. Replaced = First
      BY <1>8, <2>1 DEF More
    <3> QED
      BY <1>2, <1>5, <1>6, <1>8, <1>9, <2>1, <3>1, FreeDistinct
  <2>2. CASE ~ (j < Len(items))
    <3>1. More = IF items = <<>> THEN {} ELSE {BraceArray, Raw(i)}
      BY <2>2 DEF More
    <3>2. First \cap More = {}
      BY HereNames, Kinds DEF First, More
    <3>3. Distinct(freed \o (IF items = <<>> THEN <<>> ELSE <<BraceArray, Raw(i)>>), First \cup More)
      BY <1>6, <1>7, <3>1, <3>2, DistinctConcat
    <3> QED
      BY <1>2, <1>5, <1>8, <1>9, <2>2, <3>3, FreeDistinct
  <2> QED
    BY <2>1, <2>2
<1>11. /\ j < Len(items) => /\ j' = j + 1 /\ pc' = "wildcard" /\ i' = i /\ items' = items /\ items # <<>>
       /\ ~ (j < Len(items)) => i' = i + 1 /\ items' = <<>> /\ j' = 0 /\ pc' = "word" /\ (items # <<>> => j = Len(items))
  BY <1>2, <1>5
<1>12. Types'
  <2>1. i' \in 1 .. Len(raw) + 1 /\ items' \in Seq(Text) /\ j' \in 0 .. Len(items')
    <3>1. items \in Seq(Text) /\ <<>> \in Seq(Text) /\ Len(<<>>) = 0
      BY <1>1 DEF Types
    <3>2. i \in 1 .. Len(raw)
      BY <1>1, <1>2 DEF Types
    <3>3. CASE j < Len(items)
      BY <1>2, <1>11, <3>1, <3>2, <3>3
    <3>4. CASE ~ (j < Len(items))
      BY <1>2, <1>11, <3>1, <3>2, <3>4
    <3> QED
      BY <3>3, <3>4
  <2>2. doubleFree' \in BOOLEAN
    BY <1>5 DEF Free, AllocFree
  <2>3. matches' \in Seq(Text) /\ k' \in 0 .. Len(matches')
    OBVIOUS
  <2>4. pc' \in {"wildcard", "word"}
    BY <1>11
  <2> QED
    BY <1>1, <1>4, <2>1, <2>2, <2>3, <2>4 DEF Types
<1>13. Whereabouts' /\ FreedOnce'
  BY <1>1, <1>2, <1>4, <1>10, <1>11 DEF Whereabouts, FreedOnce, Early, Busy
<1>14. Passed' /\ Covered'
  <2>1. Before(Next1, i', j', k')
    BY <1>3, <1>11
  <2>2. i < i' \/ (i = i' /\ j < j')
    BY <1>2, <1>11
  <2> QED
    BY <1>1, <1>3, <1>11, <1>12, <2>1, <2>2, PushPassed, PushCovered
<1>15. Owned'
  <2>1. Busy'
    BY <1>11 DEF Busy
  <2>2. Left \subseteq Left'
    BY <1>2, <1>11 DEF Left
  <2>3. Ahead' \subseteq Ahead \ Replaced
    <3>1. CASE j < Len(items)
      <4>1. Ahead' = {RawArray} \cup {Raw(n) : n \in i .. Len(raw)}
                     \cup {BraceArray} \cup {BraceOf(i, n) : n \in j + 1 .. Len(items)}
        BY <1>11, <2>1, <3>1, HereNames DEF Ahead
      <4>2. Ahead' \subseteq Ahead
        <5>1. {RawArray} \cup {Raw(n) : n \in i .. Len(raw)}
                  \cup {BraceArray} \cup {BraceOf(i, n) : n \in j .. Len(items)} \subseteq Ahead
          BY <1>2, <1>11, <3>1, HereNames DEF Ahead
        <5>2. \A n \in j + 1 .. Len(items) : n \in j .. Len(items)
          BY <1>2
        <5>3. {BraceOf(i, n) : n \in j + 1 .. Len(items)} \subseteq {BraceOf(i, n) : n \in j .. Len(items)}
          BY <5>2
        <5> QED
          BY <4>1, <5>1, <5>3
      <4>3. Replaced \subseteq {MatchArray, BraceOf(i, j)}
        BY <3>1, HereNames DEF Replaced
      <4>4. MatchArray \notin Ahead' /\ BraceOf(i, j) \notin Ahead'
        BY <1>2, <4>1, Kinds
      <4> QED
        BY <4>2, <4>3, <4>4
    <3>2. CASE ~ (j < Len(items))
      <4>1. Ahead' = {RawArray} \cup {Raw(n) : n \in i + 1 .. Len(raw)}
        BY <1>11, <2>1, <3>2 DEF Ahead
      <4>2. Ahead' \subseteq Ahead
        <5>1. {RawArray} \cup {Raw(n) : n \in i .. Len(raw)} \subseteq Ahead
          BY <1>2, HereNames DEF Ahead
        <5>2. \A n \in i + 1 .. Len(raw) : n \in i .. Len(raw)
          BY <1>2
        <5>3. {Raw(n) : n \in i + 1 .. Len(raw)} \subseteq {Raw(n) : n \in i .. Len(raw)}
          BY <5>2
        <5> QED
          BY <4>1, <5>1, <5>3
      <4>3. Replaced \subseteq {MatchArray, BraceArray, Raw(i), BraceOf(i, j)}
        BY HereNames DEF Replaced
      <4>4. {MatchArray, BraceArray, Raw(i), BraceOf(i, j)} \cap Ahead' = {}
        BY <1>2, <4>1, Kinds
      <4> QED
        BY <4>2, <4>3, <4>4
    <3> QED
      BY <3>1, <3>2
  <2>4. Ahead \subseteq Ahead' \cup Replaced \cup {Next1} \cup Left'
    <3>1. Ahead \subseteq {RawArray} \cup {Raw(n) : n \in i .. Len(raw)}
              \cup (IF items = <<>> THEN {} ELSE {BraceArray} \cup {BraceOf(i, n) : n \in j .. Len(items)})
              \cup (IF matches = <<>> THEN {} ELSE {MatchArray, MatchOf(i, j, k)})
      BY <1>2, HereNames DEF Ahead
    <3>2. matches # <<>> => MatchArray \in Replaced /\ Next1 = MatchOf(i, j, k)
      BY HereNames DEF Replaced, Next1
    <3>3. items # <<>> => BraceOf(i, j) \in Replaced \cup {Next1}
      BY HereNames DEF Replaced, Next1, CurrentObj
    <3>4. CASE j < Len(items)
      <4>1. Ahead' = {RawArray} \cup {Raw(n) : n \in i .. Len(raw)}
                     \cup {BraceArray} \cup {BraceOf(i, n) : n \in j + 1 .. Len(items)}
        BY <1>11, <2>1, <3>4, HereNames DEF Ahead
      <4>2. j .. Len(items) = {j} \cup (j + 1 .. Len(items))
        BY <1>2
      <4> QED
        BY <1>11, <3>1, <3>2, <3>3, <3>4, <4>1, <4>2
    <3>5. CASE ~ (j < Len(items))
      <4>1. Ahead' = {RawArray} \cup {Raw(n) : n \in i + 1 .. Len(raw)}
        BY <1>11, <2>1, <3>5 DEF Ahead
      <4>2. i .. Len(raw) = {i} \cup (i + 1 .. Len(raw))
        BY <1>2
      <4>3. items # <<>> => j .. Len(items) = {j} /\ {BraceArray, Raw(i)} \subseteq Replaced
        BY <1>2, <1>11, <3>5 DEF Replaced
      <4>4. items = <<>> => Raw(i) \in {Next1} \cup Left'
        <5>1. items = <<>> /\ matches = <<>> => Next1 = Raw(i)
          BY DEF Next1, CurrentObj
        <5>2. items = <<>> /\ matches # <<>> => HasWildcard(raw[i])
          BY <1>1, <1>2 DEF Whereabouts, Current
        <5>3. i \in DOMAIN raw /\ i < i'
          BY <1>1, <1>2, <1>11, <3>5 DEF Types
        <5> QED
          BY <5>1, <5>2, <5>3 DEF Left
      <4> QED
        BY <3>1, <3>2, <3>3, <4>1, <4>2, <4>3, <4>4
    <3> QED
      BY <3>4, <3>5
  <2> QED
    BY <1>3, <1>4, <1>8, <1>9, <1>10, <1>11, <2>1, <2>2, <2>3, <2>4 DEF Owned
<1>16. (live \subseteq Objects)'
  BY <1>1, <1>10 DEF Objects
<1> QED
  BY <1>12, <1>13, <1>14, <1>15, <1>16 DEF ArgsInv

(* The text being added is a text. *)
LEMMA CurrentType ==
    ASSUME Types, Whereabouts, pc \in {"wildcard", "keep", "match"}
    PROVE  Current \in Text
<1>1. i \in DOMAIN raw /\ raw \in Seq(Text) /\ items \in Seq(Text)
  BY DEF Types, Whereabouts
<1>2. CASE items = <<>>
  BY <1>1, <1>2 DEF Current
<1>3. CASE items # <<>>
  <2>1. j \in DOMAIN items
    BY <1>1, <1>3 DEF Types, Whereabouts
  <2> QED
    BY <1>1, <1>3, <2>1 DEF Current
<1> QED
  BY <1>2, <1>3

LEMMA KeepKeeps ==
    ASSUME ArgsInv, Keep
    PROVE  ArgsInv'
<1>1. Types /\ Whereabouts /\ pc = "keep" /\ matches = <<>> /\ k = 0
  BY DEF ArgsInv, Keep, Whereabouts
<1>2. PICK text \in Text : text = Current
  BY <1>1, CurrentType
<1>3. Push(Next1, text) /\ NextItem(<<>>) /\ matches' = <<>> /\ k' = 0
      /\ UNCHANGED <<line, list, raw, failed>>
  BY <1>1, <1>2 DEF Keep, Next1
<1>4. Distinct(<<>>, IF matches = <<>> THEN {}
                     ELSE {MatchArray} \cup (IF items = <<>> THEN {} ELSE {Brace(j)}))
  BY <1>1, DistinctNone
<1> QED
  BY <1>1, <1>3, <1>4, NextItemKeeps

LEMMA PushMatchKeeps ==
    ASSUME ArgsInv, PushMatch
    PROVE  ArgsInv'
<1>1. Types /\ Whereabouts /\ FreedOnce /\ Passed /\ Covered /\ Owned /\ live \subseteq Objects
  BY DEF ArgsInv
<1>2. /\ pc = "match" /\ Busy /\ matches # <<>> /\ i <= Len(raw) /\ list = <<>> /\ ~doubleFree
      /\ matches \in Seq(Text) /\ k \in DOMAIN matches
      /\ i \in Nat /\ j \in Nat /\ k \in Nat /\ Len(matches) \in Nat /\ k <= Len(matches)
      /\ UNCHANGED <<line, list, raw, failed>>
  BY <1>1 DEF PushMatch, Whereabouts, Early, Busy, FreedOnce, Types
<1>3. PICK text \in Text : text = matches[k]
  BY <1>2
<1>4. Push(Next1, text) /\ Next1 = Match(k)
  BY <1>2, <1>3 DEF PushMatch, Next1
<1>5. CASE ~ (k < Len(matches))
  <2> DEFINE freed == <<MatchArray>> \o (IF items = <<>> THEN <<>> ELSE <<Brace(j)>>)
  <2>1. NextItem(freed) /\ matches' = <<>> /\ k' = 0
    BY <1>5 DEF PushMatch
  <2>2. MatchArray # Brace(j)
    BY HereNames, Kinds
  <2>3. Distinct(IF items = <<>> THEN <<>> ELSE <<Brace(j)>>, IF items = <<>> THEN {} ELSE {Brace(j)})
    BY DistinctNone, DistinctOne
  <2>4. Distinct(freed, {MatchArray} \cup (IF items = <<>> THEN {} ELSE {Brace(j)}))
    BY <2>2, <2>3, DistinctOne, DistinctConcat
  <2>5. Distinct(freed, IF matches = <<>> THEN {}
                        ELSE {MatchArray} \cup (IF items = <<>> THEN {} ELSE {Brace(j)}))
    BY <1>2, <2>4
  <2>6. k = Len(matches)
    BY <1>2, <1>5
  <2> HIDE DEF freed
  <2> QED
    BY <1>2, <1>4, <2>1, <2>5, <2>6, NextItemKeeps
<1>6. CASE k < Len(matches)
  <2>1. k' = k + 1 /\ UNCHANGED <<pc, matches, i, items, j, live, doubleFree>>
    BY <1>6 DEF PushMatch
  <2>2. PICK obj \in String : obj = Next1
    BY <1>1, <1>2, NextOne
  <2>3. /\ obj[2] = i /\ obj \in Ahead /\ ~Before(obj, i, j, k) /\ Before(obj, i, j, k + 1)
        /\ obj = MatchOf(i, j, k) /\ Push(obj, text)
    BY <1>1, <1>2, <1>4, <2>2, NextOne, HereNames
  <2>4. /\ args' \in Seq([obj : String, text : Text]) /\ capacity' \in Nat \ {0}
        /\ Len(args') <= capacity' /\ InArgs' = InArgs \cup {obj}
        /\ Len(args') = Len(args) + 1 /\ Len(args) \in Nat
    BY <1>1, <2>3, PushTypes
  <2>5. Types'
    BY <1>1, <1>2, <1>6, <2>1, <2>4 DEF Types
  <2>6. Whereabouts' /\ FreedOnce'
    BY <1>1, <1>2, <2>1, <2>4 DEF Whereabouts, FreedOnce, Early, Busy, Current
  <2>7. Before(obj, i', j', k') /\ i = i' /\ j = j' /\ k <= k'
    BY <1>2, <2>1, <2>3
  <2>8. Passed' /\ Covered'
    BY <1>1, <2>3, <2>5, <2>7, PushPassed, PushCovered
  <2>9. Owned'
    <3>1. Busy' /\ Left' = Left
      BY <1>2, <2>1 DEF Busy, Left
    <3> DEFINE A == {RawArray} \cup {Raw(n) : n \in i .. Len(raw)}
                    \cup (IF items = <<>> THEN {} ELSE {BraceArray} \cup {BraceOf(i, n) : n \in j .. Len(items)})
                    \cup {MatchArray}
    <3>2. Ahead = A \cup {MatchOf(i, j, n) : n \in k .. Len(matches)}
      BY <1>2, HereNames DEF Ahead
    <3>3. Ahead' = A \cup {MatchOf(i, j, n) : n \in k + 1 .. Len(matches)}
      BY <1>2, <2>1, <3>1, HereNames DEF Ahead
    <3>4. k .. Len(matches) = {k} \cup (k + 1 .. Len(matches))
      BY <1>2
    <3> HIDE DEF A
    <3>5. Ahead = Ahead' \cup {obj}
      BY <2>3, <3>2, <3>3, <3>4
    <3> QED
      BY <1>1, <1>2, <2>1, <2>4, <3>1, <3>5 DEF Owned
  <2>10. (live \subseteq Objects)'
    BY <1>1, <1>2, <2>1 DEF Objects
  <2> QED
    BY <2>5, <2>6, <2>8, <2>9, <2>10 DEF ArgsInv
<1> QED
  BY <1>5, <1>6

-----------------------------------------------------------------------------
(* The end of args_parse, and its callers. *)
LEMMA FinishKeeps ==
    ASSUME ArgsInv, Finish
    PROVE  ArgsInv'
<1>1. Types /\ Whereabouts /\ FreedOnce /\ Passed /\ Covered /\ Owned /\ live \subseteq Objects
  BY DEF ArgsInv
<1>2. /\ pc = "word" /\ Busy /\ i = Len(raw) + 1 /\ items = <<>> /\ matches = <<>>
      /\ list = <<>> /\ ~doubleFree /\ pc' = "done" /\ Len(raw) \in Nat
      /\ UNCHANGED <<line, list, raw, i, items, j, matches, k, args, failed>>
  BY <1>1 DEF Finish, Whereabouts, FreedOnce, Early, Busy, Types
<1>3. capacity' \in Nat \ {0} /\ Len(args) < capacity' /\ Len(args) \in Nat
  <2>1. capacity \in Nat \ {0} /\ Len(args) <= capacity /\ Len(args) \in Nat
    BY <1>1 DEF Types
  <2> QED
    BY <2>1 DEF Finish
<1>4. Ahead = {RawArray} /\ Ahead' = {}
  <2>1. i .. Len(raw) = {} /\ ~Busy'
    BY <1>2 DEF Busy
  <2> QED
    BY <1>2, <2>1 DEF Ahead
<1>5. InArgs \cup {ArgArray} \cup Ahead \subseteq live /\ live \subseteq InArgs \cup {ArgArray} \cup Ahead \cup Left
  BY <1>1, <1>2 DEF Owned
<1>6. live' = live \ {RawArray} /\ ~doubleFree' /\ doubleFree' \in BOOLEAN
  BY <1>2, <1>4, <1>5, DistinctOne, FreeDistinct DEF Finish
<1>7. RawArray \notin InArgs \cup {ArgArray}
  BY <1>1, ArgvDistinct, StringFields, Kinds
<1>8. Types'
  BY <1>1, <1>2, <1>3, <1>6 DEF Types
<1>9. Whereabouts' /\ FreedOnce' /\ Passed' /\ Covered'
  BY <1>1, <1>2, <1>6 DEF Whereabouts, FreedOnce, Passed, Covered, Early, Busy
<1>10. InArgs' = InArgs /\ Left' = Left
  BY <1>2 DEF InArgs, Left
<1>11. Owned'
  BY <1>2, <1>4, <1>5, <1>6, <1>7, <1>10 DEF Owned
<1>12. (live \subseteq Objects)'
  BY <1>1, <1>2, <1>6 DEF Objects
<1> QED
  BY <1>8, <1>9, <1>11, <1>12 DEF ArgsInv

LEMMA FinishFailsKeeps ==
    ASSUME ArgsInv, FinishFails
    PROVE  ArgsInv'
<1>1. Types /\ Whereabouts /\ FreedOnce /\ Passed /\ Covered /\ Owned /\ live \subseteq Objects
  BY DEF ArgsInv
<1>2. /\ pc = "word" /\ Busy /\ i = Len(raw) + 1 /\ items = <<>> /\ matches = <<>>
      /\ list = <<>> /\ ~doubleFree /\ pc' = "error" /\ Len(raw) \in Nat
      /\ failed \subseteq failed' /\ failed' \subseteq FailSite
      /\ UNCHANGED <<line, list, raw, i, items, j, matches, k, args, capacity>>
  BY <1>1 DEF FinishFails, Whereabouts, FreedOnce, Early, Busy, Types, Fails
<1> DEFINE s == [x \in DOMAIN args |-> args[x].obj]
<1>3. Distinct(s, InArgs) /\ InArgs \subseteq String /\ ArgArray \notin InArgs
  BY <1>1, ArgvDistinct
<1>4. RawArray \notin InArgs \cup {ArgArray}
  BY <1>3, StringFields, Kinds
<1>5. Free(<<RawArray>> \o s \o <<ArgArray>>)
  BY DEF FinishFails
<1> HIDE DEF s
<1>6. Distinct(<<RawArray>> \o s, {RawArray} \cup InArgs)
  BY <1>3, <1>4, DistinctOne, DistinctConcat
<1>7. Distinct((<<RawArray>> \o s) \o <<ArgArray>>, ({RawArray} \cup InArgs) \cup {ArgArray})
  <2>1. ({RawArray} \cup InArgs) \cap {ArgArray} = {}
    BY <1>3, <1>4
  <2> QED
    BY <1>6, <2>1, DistinctOne, DistinctConcat
<1>8. {RawArray} \cup InArgs \cup {ArgArray} \subseteq live
  BY <1>1, <1>2 DEF Owned, Ahead
<1>9. live' = live \ ({RawArray} \cup InArgs \cup {ArgArray}) /\ ~doubleFree' /\ doubleFree' \in BOOLEAN
  BY <1>2, <1>5, <1>7, <1>8, FreeDistinct
<1>10. Types'
  BY <1>1, <1>2, <1>9 DEF Types
<1>13. Owned'
  <2>1. Ahead = {RawArray}
    BY <1>2 DEF Ahead
  <2>2. live \subseteq InArgs \cup {ArgArray} \cup Ahead \cup Left
    BY <1>1, <1>2 DEF Owned
  <2>3. live' \subseteq Left \ InArgs
    BY <1>9, <2>1, <2>2
  <2>4. ReplacedWords' = ReplacedWords
    BY <1>2 DEF ReplacedWords
  <2> QED
    BY <1>2, <2>3, <2>4, LeftOver DEF Owned, Busy
<1>11. Whereabouts' /\ FreedOnce' /\ Passed' /\ Covered'
  BY <1>1, <1>2, <1>9 DEF Whereabouts, FreedOnce, Passed, Covered, Early, Busy
<1>12. (live \subseteq Objects)'
  BY <1>1, <1>2, <1>9 DEF Objects
<1> QED
  BY <1>10, <1>11, <1>12, <1>13 DEF ArgsInv

LEMMA ArgsFreeKeeps ==
    ASSUME ArgsInv, ArgsFree
    PROVE  ArgsInv'
<1>1. Types /\ Whereabouts /\ FreedOnce /\ Passed /\ Covered /\ Owned /\ live \subseteq Objects
  BY DEF ArgsInv
<1>2. /\ pc = "done" /\ i = Len(raw) + 1 /\ items = <<>> /\ matches = <<>> /\ ~doubleFree
      /\ list = <<>> /\ pc' = "freed"
      /\ UNCHANGED <<line, list, raw, i, items, j, matches, k, args, capacity, failed>>
  BY <1>1 DEF ArgsFree, Whereabouts, FreedOnce
<1>3. Ahead = {}
  BY <1>2 DEF Ahead, Busy
<1>4. InArgs \cup {ArgArray} \subseteq live /\ live \subseteq InArgs \cup {ArgArray} \cup Left
  BY <1>1, <1>2, <1>3 DEF Owned
<1>5. live' = live \ (InArgs \cup {ArgArray}) /\ ~doubleFree' /\ doubleFree' \in BOOLEAN
  BY <1>1, <1>2, <1>4, ArgvDistinct, FreeDistinct DEF ArgsFree
<1>6. live' \subseteq ReplacedWords
  BY <1>1, <1>2, <1>4, <1>5, LeftOver
<1>7. Types'
  BY <1>1, <1>2, <1>5 DEF Types
<1>8. Whereabouts' /\ FreedOnce' /\ Passed' /\ Covered'
  BY <1>1, <1>2, <1>5 DEF Whereabouts, FreedOnce, Passed, Covered, Early, Busy
<1>9. Owned'
  BY <1>2, <1>6 DEF Owned, Busy, ReplacedWords
<1>10. (live \subseteq Objects)'
  BY <1>1, <1>2, <1>5 DEF Objects
<1> QED
  BY <1>7, <1>8, <1>9, <1>10 DEF ArgsInv

(* While argv is there, what is held is argv, the list, and words a wildcard *)
(* replaced.                                                                *)
LEMMA HeldWithArgv ==
    ASSUME ArgsInv, pc \in {"done", "list"}
    PROVE  /\ i = Len(raw) + 1 /\ items = <<>> /\ matches = <<>> /\ ~doubleFree
           /\ list \in Seq(Text) /\ Len(list) \in Nat /\ DOMAIN list = 1 .. Len(list)
           /\ args \in Seq([obj : String, text : Text]) /\ Len(args) \in Nat
           /\ DOMAIN args = 1 .. Len(args) /\ Len(list) <= Len(args)
           /\ (pc = "done" => list = <<>> /\ Ahead = {})
           /\ (pc = "list" => Ahead = {List} \cup {ListItem(n) : n \in 1 .. Len(list)})
           /\ InArgs \cup {ArgArray} \cup Ahead \subseteq live
           /\ live \subseteq InArgs \cup {ArgArray} \cup Ahead \cup Left
           /\ InArgs \subseteq String /\ (Left \ InArgs) \subseteq ReplacedWords
           /\ Left \subseteq String
<1>1. Types /\ Whereabouts /\ FreedOnce /\ Passed /\ Owned
  BY DEF ArgsInv
<1>2. i = Len(raw) + 1 /\ items = <<>> /\ matches = <<>> /\ ~doubleFree /\ (pc = "done" => list = <<>>)
      /\ ~Busy /\ Len(list) <= Len(args)
  BY <1>1 DEF Whereabouts, FreedOnce, Early, Busy
<1>3. InArgs \subseteq String /\ (Left \ InArgs) \subseteq ReplacedWords
  BY <1>1, <1>2, ArgvDistinct, LeftOver
<1>4. Left \subseteq String
  <2>1. raw \in Seq(Text)
    BY <1>1 DEF Types
  <2> QED
    BY <2>1 DEF Left, String
<1>5. InArgs \cup {ArgArray} \cup Ahead \subseteq live /\ live \subseteq InArgs \cup {ArgArray} \cup Ahead \cup Left
  BY <1>1 DEF Owned
<1>6. (pc = "done" => Ahead = {}) /\ (pc = "list" => Ahead = {List} \cup {ListItem(n) : n \in 1 .. Len(list)})
  BY <1>2 DEF Ahead
<1>7. list \in Seq(Text) /\ args \in Seq([obj : String, text : Text])
  BY <1>1 DEF Types
<1> QED
  BY <1>2, <1>3, <1>4, <1>5, <1>6, <1>7

LEMMA ListCreateKeeps ==
    ASSUME ArgsInv, ListCreate
    PROVE  ArgsInv'
<1>1. Types /\ Whereabouts /\ FreedOnce /\ Passed /\ Covered /\ live \subseteq Objects
  BY DEF ArgsInv
<1>2. /\ pc = "done" /\ pc' = "list" /\ live' = live \cup {List}
      /\ UNCHANGED <<line, list, raw, i, items, j, matches, k, args, capacity, doubleFree, failed>>
  BY DEF ListCreate
<1>3. Types' /\ Whereabouts' /\ FreedOnce' /\ Passed' /\ Covered'
  <2>1. Types'
    BY <1>1, <1>2 DEF Types
  <2> QED
    BY <1>1, <1>2, <2>1 DEF Whereabouts, FreedOnce, Passed, Covered, Early, Busy
<1>4. list = <<>> /\ items = <<>> /\ matches = <<>> /\ Ahead = {}
      /\ InArgs \cup {ArgArray} \cup Ahead \subseteq live
      /\ live \subseteq InArgs \cup {ArgArray} \cup Ahead \cup Left
  BY <1>2, HeldWithArgv
<1>5. Ahead' = {List}
  <2>1. ~Busy' /\ list' = <<>> /\ items' = <<>> /\ matches' = <<>> /\ 1 .. Len(<<>>) = {}
    BY <1>2, <1>4 DEF Busy
  <2> QED
    BY <1>2, <2>1 DEF Ahead
<1>6. InArgs' = InArgs /\ Left' = Left
  BY <1>2 DEF InArgs, Left
<1>7. Owned'
  BY <1>2, <1>4, <1>5, <1>6 DEF Owned, Busy
<1>8. (live \subseteq Objects)'
  BY <1>1, <1>2 DEF Objects
<1> QED
  BY <1>3, <1>7, <1>8 DEF ArgsInv

LEMMA ListAddKeeps ==
    ASSUME ArgsInv, ListAdd
    PROVE  ArgsInv'
<1>1. Types /\ Whereabouts /\ FreedOnce /\ Passed /\ Covered /\ live \subseteq Objects
  BY DEF ArgsInv
<1>2. /\ pc = "list" /\ pc' = "list" /\ Len(list) < Len(args)
      /\ live' = live \cup {ListItem(Len(list'))} /\ list' = Append(list, args[Len(list) + 1].text)
      /\ UNCHANGED <<line, raw, i, items, j, matches, k, args, capacity, doubleFree, failed>>
  BY DEF ListAdd
<1>3. /\ list \in Seq(Text) /\ Len(list) \in Nat /\ items = <<>> /\ matches = <<>>
      /\ args \in Seq([obj : String, text : Text]) /\ Len(args) \in Nat
      /\ DOMAIN args = 1 .. Len(args)
      /\ Ahead = {List} \cup {ListItem(n) : n \in 1 .. Len(list)}
      /\ InArgs \cup {ArgArray} \cup Ahead \subseteq live
      /\ live \subseteq InArgs \cup {ArgArray} \cup Ahead \cup Left
  BY <1>2, HeldWithArgv
<1>4. /\ list' \in Seq(Text) /\ Len(list') = Len(list) + 1 /\ DOMAIN list' = 1 .. Len(list) + 1
      /\ Len(list') <= Len(args)
  <2>1. Len(list) + 1 \in DOMAIN args
    BY <1>2, <1>3
  <2>2. args[Len(list) + 1].text \in Text
    <3> DEFINE R == [obj : String, text : Text]
    <3>1. args \in Seq(R) /\ \A r \in R : r.text \in Text
      BY <1>3
    <3> HIDE DEF R
    <3> QED
      BY <2>1, <3>1
  <2>3. PICK text \in Text : text = args[Len(list) + 1].text
    BY <2>2
  <2> QED
    BY <1>2, <1>3, <2>3
<1>5. Types'
  BY <1>1, <1>2, <1>4 DEF Types
<1>6. Whereabouts' /\ FreedOnce' /\ Passed' /\ Covered'
  BY <1>1, <1>2, <1>4 DEF Whereabouts, FreedOnce, Passed, Covered, Early, Busy
<1>7. 1 .. Len(list') = (1 .. Len(list)) \cup {Len(list')} /\ 1 .. Len(list') = DOMAIN list'
  BY <1>3, <1>4
<1>8. Ahead' = Ahead \cup {ListItem(Len(list'))}
  <2>1. ~Busy' /\ items' = <<>> /\ matches' = <<>>
    BY <1>2, <1>3 DEF Busy
  <2>2. Ahead' = {List} \cup {ListItem(n) : n \in 1 .. Len(list')}
    BY <1>2, <2>1 DEF Ahead
  <2> QED
    BY <1>3, <1>7, <2>2
<1>9. InArgs' = InArgs /\ Left' = Left
  BY <1>2 DEF InArgs, Left
<1>10. Owned'
  BY <1>2, <1>3, <1>8, <1>9 DEF Owned, Busy
<1>11. (live \subseteq Objects)'
  <2>1. DOMAIN list' = DOMAIN list \cup {Len(list')}
    BY <1>3, <1>4
  <2> QED
    BY <1>1, <1>2, <2>1 DEF Objects
<1> QED
  BY <1>5, <1>6, <1>10, <1>11 DEF ArgsInv

LEMMA ListFailsKeeps ==
    ASSUME ArgsInv, ListFails
    PROVE  ArgsInv'
<1>1. Types /\ Whereabouts /\ FreedOnce /\ Passed /\ Covered /\ live \subseteq Objects
  BY DEF ArgsInv
<1>2. /\ pc \in {"done", "list"} /\ pc' = "freed"
      /\ failed \subseteq failed' /\ failed' \subseteq FailSite
      /\ UNCHANGED <<line, list, raw, i, items, j, matches, k, args, capacity>>
  BY <1>1 DEF ListFails, Fails, Types
<1>3. /\ items = <<>> /\ matches = <<>> /\ ~doubleFree /\ Len(list) \in Nat
      /\ DOMAIN list = 1 .. Len(list)
      /\ (pc = "done" => Ahead = {})
      /\ (pc = "list" => Ahead = {List} \cup {ListItem(n) : n \in 1 .. Len(list)})
      /\ InArgs \cup {ArgArray} \cup Ahead \subseteq live
      /\ live \subseteq InArgs \cup {ArgArray} \cup Ahead \cup Left
      /\ InArgs \subseteq String /\ (Left \ InArgs) \subseteq ReplacedWords
  BY <1>2, HeldWithArgv
<1> DEFINE copies == [x \in DOMAIN list |-> ListItem(x)]
           Copied == {ListItem(n) : n \in 1 .. Len(list)}
           held == IF pc = "list" THEN Append(copies, List) ELSE <<>>
<1>4. Distinct(copies, Copied)
  BY <1>3, DistinctArrays
<1>5. Copied \cap {List} = {} /\ Copied \in SUBSET Copied
  BY Kinds
<1>6. Free(held \o Argv)
  BY DEF ListFails
<1>7. Append(copies, List) = copies \o <<List>>
  <2> HIDE DEF copies
  <2>1. copies \in Seq(Copied)
    BY <1>4 DEF Distinct, Listed
  <2> QED
    BY <2>1, AppendIsConcat
<1> HIDE DEF copies
<1>8. Distinct(held, Ahead)
  <2>1. CASE pc = "done"
    BY <1>3, <2>1, DistinctNone
  <2>2. CASE pc = "list"
    <3>1. Distinct(copies \o <<List>>, Copied \cup {List})
      BY <1>4, <1>5, DistinctOne, DistinctConcat
    <3>2. Ahead = Copied \cup {List}
      BY <1>3, <2>2
    <3> HIDE DEF Copied
    <3>3. held = copies \o <<List>>
      BY <1>7, <2>2
    <3> QED
      BY <3>1, <3>2, <3>3
  <2> QED
    BY <1>2, <2>1, <2>2
<1>9. Ahead \cap (InArgs \cup {ArgArray}) = {}
  <2>1. \A n : ListItem(n) \notin String
    BY StringFields, Kinds
  <2>2. List \notin String /\ ArgArray # List /\ \A n : ListItem(n) # ArgArray
    BY StringFields, Kinds
  <2> QED
    BY <1>2, <1>3, <2>1, <2>2
<1>10. Distinct(Argv, InArgs \cup {ArgArray})
  BY <1>1, ArgvDistinct
<1> HIDE DEF held, Copied
<1>11. Distinct(held \o Argv, Ahead \cup (InArgs \cup {ArgArray}))
  BY <1>8, <1>9, <1>10, DistinctConcat
<1>12. Ahead \cup (InArgs \cup {ArgArray}) \subseteq live
  BY <1>3
<1>13. live' = live \ (Ahead \cup (InArgs \cup {ArgArray})) /\ ~doubleFree' /\ doubleFree' \in BOOLEAN
  BY <1>3, <1>6, <1>11, <1>12, FreeDistinct
<1>14. Types'
  BY <1>1, <1>2, <1>13 DEF Types
<1>15. Whereabouts' /\ FreedOnce' /\ Passed' /\ Covered'
  BY <1>1, <1>2, <1>13, HeldWithArgv DEF Whereabouts, FreedOnce, Passed, Covered, Early, Busy
<1>16. Owned'
  <2>1. live' \subseteq Left \ InArgs
    BY <1>3, <1>13
  <2>2. ReplacedWords' = ReplacedWords
    BY <1>2 DEF ReplacedWords
  <2> QED
    BY <1>2, <1>3, <2>1, <2>2 DEF Owned, Busy
<1>17. (live \subseteq Objects)'
  BY <1>1, <1>2, <1>13 DEF Objects
<1> QED
  BY <1>14, <1>15, <1>16, <1>17 DEF ArgsInv

LEMMA ListDoneKeeps ==
    ASSUME ArgsInv, ListDone
    PROVE  ArgsInv'
<1>1. Types /\ Whereabouts /\ FreedOnce /\ Passed /\ Covered /\ live \subseteq Objects
  BY DEF ArgsInv
<1>2. /\ pc = "list" /\ pc' = "listed" /\ Free(Argv)
      /\ UNCHANGED <<line, list, raw, i, items, j, matches, k, args, capacity, failed>>
  BY DEF ListDone
<1>3. /\ items = <<>> /\ matches = <<>> /\ ~doubleFree /\ Len(list) \in Nat
      /\ DOMAIN list = 1 .. Len(list) /\ i = Len(raw) + 1 /\ Len(list) <= Len(args)
      /\ Ahead = {List} \cup {ListItem(n) : n \in 1 .. Len(list)}
      /\ InArgs \cup {ArgArray} \cup Ahead \subseteq live
      /\ live \subseteq InArgs \cup {ArgArray} \cup Ahead \cup Left
      /\ InArgs \subseteq String /\ (Left \ InArgs) \subseteq ReplacedWords
  BY <1>2, HeldWithArgv
<1>4. live' = live \ (InArgs \cup {ArgArray}) /\ ~doubleFree' /\ doubleFree' \in BOOLEAN
  <2>1. InArgs \cup {ArgArray} \subseteq live /\ Distinct(Argv, InArgs \cup {ArgArray})
    BY <1>1, <1>3, ArgvDistinct
  <2> QED
    BY <1>2, <1>3, <2>1, FreeDistinct
<1>5. Types'
  BY <1>1, <1>2, <1>4 DEF Types
<1>6. Whereabouts' /\ FreedOnce' /\ Passed' /\ Covered'
  BY <1>1, <1>2, <1>3, <1>4 DEF Whereabouts, FreedOnce, Passed, Covered, Early, Busy
<1>7. Owned'
  <2>1. ReplacedWords' = ReplacedWords /\ list' = list
    BY <1>2 DEF ReplacedWords
  <2>2. Ahead \cap (InArgs \cup {ArgArray}) = {}
    <3>1. \A n : ListItem(n) \notin String /\ ListItem(n) # ArgArray
      BY StringFields, Kinds
    <3>2. List \notin String /\ ArgArray # List
      BY StringFields, Kinds
    <3> QED
      BY <1>3, <3>1, <3>2
  <2>3. Ahead \cap ReplacedWords = {}
    <3>1. \A n, m : ListItem(n) # Raw(m) /\ List # Raw(m)
      BY Kinds
    <3> QED
      BY <1>3, <3>1 DEF ReplacedWords
  <2>4. live' \ ReplacedWords = Ahead
    BY <1>3, <1>4, <2>2, <2>3
  <2>5. Ahead = {List} \cup {ListItem(n) : n \in DOMAIN list}
    BY <1>3
  <2> QED
    BY <1>2, <2>1, <2>4, <2>5 DEF Owned, Busy
<1>8. (live \subseteq Objects)'
  BY <1>1, <1>2, <1>4 DEF Objects
<1> QED
  BY <1>5, <1>6, <1>7, <1>8 DEF ArgsInv

LEMMA StutterKeeps ==
    ASSUME ArgsInv, UNCHANGED vars
    PROVE  ArgsInv'
<1> USE DEF vars
<1>1. Types' = Types /\ FreedOnce' = FreedOnce
  BY DEF Types, FreedOnce
<1>2. Whereabouts' = Whereabouts
  BY DEF Whereabouts, Early, Busy, Current
<1>3. Passed' = Passed /\ Covered' = Covered
  BY DEF Passed, Covered
<1>4. Ahead' = Ahead /\ InArgs' = InArgs /\ Left' = Left /\ ReplacedWords' = ReplacedWords
  BY HereNames DEF Ahead, InArgs, Left, ReplacedWords, Busy
<1>5. Owned' = Owned
  BY <1>4 DEF Owned, Busy
<1>6. Objects' = Objects
  BY DEF Objects
<1> QED
  BY <1>1, <1>2, <1>3, <1>5, <1>6 DEF ArgsInv

-----------------------------------------------------------------------------
(* The whole invariant, on every path through the function and its callers. *)
THEOREM ArgsInvariance == Spec => []ArgsInv
<1>1. Init => ArgsInv
  BY TypesInit
<1>2. ArgsInv /\ [Next]_vars => ArgsInv'
  BY AllocArraysKeeps, ReadWordKeeps, ReadDoneKeeps, FirstPassFailsKeeps, ExpandWordKeeps,
     ExpandBraceFailsKeeps, ExpandWildcardKeeps, ExpandWildcardFailsKeeps, KeepKeeps, PushMatchKeeps, GrowFailsKeeps, FinishKeeps,
     FinishFailsKeeps, ArgsFreeKeeps, ListCreateKeeps, ListAddKeeps, ListFailsKeeps,
     ListDoneKeeps, StutterKeeps DEF Next, Step, Terminating
<1> QED
  BY <1>1, <1>2, PTL DEF Spec

(* Types, the room for the terminating NULL, and nothing allocated without  *)
(* a name.                                                                  *)
THEOREM TypeCorrect == Spec => []TypeOK
<1>1. ArgsInv => TypeOK
  BY DEF ArgsInv, Types, TypeOK
<1> QED
  BY <1>1, ArgsInvariance, PTL

(* Whatever the line, the directory and the allocations that fail, nothing  *)
(* is freed twice, with exactly two exceptions: expand_brace fails after    *)
(* its first item, or args cannot grow when an expansion or a match of the  *)
(* same word stands there already.                                          *)
THEOREM FreedAtMostOnce == Spec => []NoDoubleFree
<1>1. ArgsInv => NoDoubleFree
  BY DEF ArgsInv, FreedOnce, NoDoubleFree
<1> QED
  BY <1>1, ArgsInvariance, PTL

(* The caller owns argv, each string once, and what is left after args_free *)
(* is words that a wildcard replaced.                                       *)
THEOREM Ownership == Spec => []ArgvOwned
<1>1. ASSUME ArgsInv PROVE ArgvOwned
  <2>1. ASSUME pc \in {"done", "list"} PROVE IsInjective(Argv) /\ ToSet(Argv) \subseteq live
    <3>1. Distinct(Argv, InArgs \cup {ArgArray})
      BY <1>1, ArgvDistinct DEF ArgsInv
    <3>2. InArgs \cup {ArgArray} \subseteq live
      BY <1>1, <2>1 DEF ArgsInv, Owned
    <3> QED
      BY <3>1, <3>2 DEF Distinct, Listed
  <2> QED
    BY <1>1, <2>1 DEF ArgvOwned, ArgsInv, Owned
<1> QED
  BY <1>1, ArgsInvariance, PTL

(* For every line: its words, quoted, are read back exactly.                *)
THEOREM QuotingSurvives == Spec => []QuotingRoundTrips
<1>1. ArgsInv => QuotingRoundTrips
  BY QuotingReadsBack DEF ArgsInv, Types, QuotingRoundTrips
<1> QED
  BY <1>1, ArgsInvariance, PTL

-----------------------------------------------------------------------------
(* The order of argv.  What is behind, as a sequence of expansions, and the *)
(* names those stand for.                                                   *)
NamesOf(seq) == FlattenSeq([x \in DOMAIN seq |-> Names(seq[x])])
ExpansionsOf(seq) == FlattenSeq([x \in DOMAIN seq |-> Expansions(seq[x])])
Texts == [x \in DOMAIN args |-> args[x].text]
Behind == ExpansionsOf(SubSeq(raw, 1, i - 1))
          \o (IF items = <<>> THEN <<>> ELSE SubSeq(items, 1, j - 1))
Added == NamesOf(Behind) \o (IF matches = <<>> THEN <<>> ELSE SubSeq(matches, 1, k - 1))

InOrder ==
    /\ pc = "read" => Len(raw) <= Len(Readable) /\ raw = SubSeq(Readable, 1, Len(raw))
    /\ Busy \/ pc = "done" => raw = LexWords(line) /\ (failed = {} => Texts = Added)
    /\ failed = {} =>
          /\ pc \in {"wildcard", "keep", "match"} =>
                Expansions(raw[i]) = IF items = <<>> THEN <<raw[i]>> ELSE items
          /\ pc = "keep" => Names(Current) = <<Current>>
          /\ pc = "match" => Names(Current) = matches
    /\ list = SubSeq(Texts, 1, Len(list))
    /\ pc = "listed" => Len(list) = Len(args)

LEMMA AppendConcat ==
    ASSUME NEW E, NEW a \in Seq(E), NEW b \in Seq(E), NEW c \in E
    PROVE  a \o Append(b, c) = Append(a \o b, c)
<1>1. a \o b \in Seq(E) /\ Append(b, c) \in Seq(E) /\ Append(a \o b, c) \in Seq(E)
      /\ a \o Append(b, c) \in Seq(E)
  OBVIOUS
<1>2. Len(a \o Append(b, c)) = Len(Append(a \o b, c))
  OBVIOUS
<1>3. \A x \in 1 .. Len(a \o Append(b, c)) : (a \o Append(b, c))[x] = Append(a \o b, c)[x]
  OBVIOUS
<1> QED
  BY <1>1, <1>2, <1>3, SeqSame

LEMMA NothingConcat ==
    ASSUME NEW E, NEW a \in Seq(E)
    PROVE  a \o <<>> = a /\ <<>> \o a = a
  OBVIOUS

LEMMA OneConcat ==
    ASSUME NEW E, NEW a \in Seq(E), NEW c \in E
    PROVE  a \o <<c>> = Append(a, c)
  OBVIOUS

LEMMA NoBraceNoExpansion ==
    ASSUME NEW word \in Text, ~HasBrace(word)
    PROVE  ExpandBrace(word) = <<>>
<1> DEFINE s == [x \in DOMAIN word |-> IF x >= 1 THEN word[x] ELSE ""]
           I == {x \in 1 .. Len(s) : s[x] = Open}
<1>1. Len(word) \in Nat /\ DOMAIN word = 1 .. Len(word) /\ Len(s) = Len(word)
  <2>1. Len(word) \in Nat /\ DOMAIN word = 1 .. Len(word)
    BY DEF Text
  <2>2. Len(s) = Len(word)
    BY <2>1
  <2> QED
    BY <2>1, <2>2
<1>2. \A x \in 1 .. Len(word) : word[x] # Open
  BY Zenon DEF HasBrace, Contains
<1>3. I = {}
  BY <1>1, <1>2
<1>4. Find(word, Open, 1) = IF I # {} THEN Min(I) ELSE 0
  BY Zenon DEF Find, SelectInSeq
<1>5. Find(word, Open, 1) = 0
  BY <1>3, <1>4
<1> QED
  BY <1>5 DEF ExpandBrace

LEMMA ExpansionsType ==
    ASSUME NEW word \in Text
    PROVE  Expansions(word) \in Seq(Text) /\ Names(word) \in Seq(Text)
<1>1. ExpandBrace(word) \in Seq(Text) /\ Matches(word, Listing) \in Seq(Text) /\ <<word>> \in Seq(Text)
  BY ExpandBraceType, MatchesType, Inputs
<1> QED
  BY <1>1 DEF Expansions, Names

(* One more word adds its expansions, one more expansion its names. *)
LEMMA ExpansionsOfOneMore ==
    ASSUME NEW s \in Seq(Text)
    PROVE  /\ ExpansionsOf(s) \in Seq(Text) /\ ExpansionsOf(<<>>) = <<>>
           /\ \A w \in Text : ExpansionsOf(Append(s, w)) = ExpansionsOf(s) \o Expansions(w)
<1> DEFINE each(t) == [x \in DOMAIN t |-> Expansions(t[x])]
<1>1. ASSUME NEW t \in Seq(Text) PROVE each(t) \in Seq(Seq(Text))
  <2>1. \A x \in 1 .. Len(t) : Expansions(t[x]) \in Seq(Text)
    BY ExpansionsType
  <2> QED
    BY <2>1
<1>2. ASSUME NEW w \in Text PROVE each(Append(s, w)) = Append(each(s), Expansions(w))
  <2>1. Append(s, w) \in Seq(Text) /\ Expansions(w) \in Seq(Text)
    BY ExpansionsType
  <2>2. each(s) \in Seq(Seq(Text)) /\ each(Append(s, w)) \in Seq(Seq(Text))
    BY <1>1, <2>1
  <2>3. Append(each(s), Expansions(w)) \in Seq(Seq(Text))
    BY <2>1, <2>2
  <2>4. Len(each(Append(s, w))) = Len(s) + 1 /\ Len(Append(each(s), Expansions(w))) = Len(s) + 1
    BY <2>1
  <2>5. \A x \in 1 .. Len(s) + 1 : each(Append(s, w))[x] = Append(each(s), Expansions(w))[x]
    BY <2>1
  <2> HIDE DEF each
  <2> QED
    BY <2>2, <2>3, <2>4, <2>5, SeqSame
<1>3. ASSUME NEW t PROVE ExpansionsOf(t) = FlattenSeq(each(t))
  BY DEF ExpansionsOf
<1>4. ExpansionsOf(<<>>) = <<>>
  <2>1. each(<<>>) = <<>> /\ Len(<<>>) = 0
    OBVIOUS
  <2> QED
    BY <1>3, <2>1 DEF FlattenSeq
<1> HIDE DEF each
<1>5. ExpansionsOf(s) \in Seq(Text)
  BY <1>1, <1>3, FlattenType
<1>6. ASSUME NEW w \in Text PROVE ExpansionsOf(Append(s, w)) = ExpansionsOf(s) \o Expansions(w)
  BY <1>1, <1>2, <1>3, ExpansionsType, FlattenAppend
<1> QED
  BY <1>4, <1>5, <1>6

LEMMA NamesOfOneMore ==
    ASSUME NEW s \in Seq(Text)
    PROVE  /\ NamesOf(s) \in Seq(Text) /\ NamesOf(<<>>) = <<>>
           /\ \A w \in Text : NamesOf(Append(s, w)) = NamesOf(s) \o Names(w)
<1> DEFINE each(t) == [x \in DOMAIN t |-> Names(t[x])]
<1>1. ASSUME NEW t \in Seq(Text) PROVE each(t) \in Seq(Seq(Text))
  <2>1. \A x \in 1 .. Len(t) : Names(t[x]) \in Seq(Text)
    BY ExpansionsType
  <2> QED
    BY <2>1
<1>2. ASSUME NEW w \in Text PROVE each(Append(s, w)) = Append(each(s), Names(w))
  <2>1. Append(s, w) \in Seq(Text) /\ Names(w) \in Seq(Text)
    BY ExpansionsType
  <2>2. each(s) \in Seq(Seq(Text)) /\ each(Append(s, w)) \in Seq(Seq(Text))
    BY <1>1, <2>1
  <2>3. Append(each(s), Names(w)) \in Seq(Seq(Text))
    BY <2>1, <2>2
  <2>4. Len(each(Append(s, w))) = Len(s) + 1 /\ Len(Append(each(s), Names(w))) = Len(s) + 1
    BY <2>1
  <2>5. \A x \in 1 .. Len(s) + 1 : each(Append(s, w))[x] = Append(each(s), Names(w))[x]
    BY <2>1
  <2> HIDE DEF each
  <2> QED
    BY <2>2, <2>3, <2>4, <2>5, SeqSame
<1>3. ASSUME NEW t PROVE NamesOf(t) = FlattenSeq(each(t))
  BY DEF NamesOf
<1>4. NamesOf(<<>>) = <<>>
  <2>1. each(<<>>) = <<>> /\ Len(<<>>) = 0
    OBVIOUS
  <2> QED
    BY <1>3, <2>1 DEF FlattenSeq
<1> HIDE DEF each
<1>5. NamesOf(s) \in Seq(Text)
  BY <1>1, <1>3, FlattenType
<1>6. ASSUME NEW w \in Text PROVE NamesOf(Append(s, w)) = NamesOf(s) \o Names(w)
  BY <1>1, <1>2, <1>3, ExpansionsType, FlattenAppend
<1> QED
  BY <1>4, <1>5, <1>6

LEMMA PushTexts ==
    ASSUME Types, NEW obj \in String, NEW text \in Text, Push(obj, text)
    PROVE  Texts' = Append(Texts, text) /\ Texts \in Seq(Text) /\ Texts' \in Seq(Text)
<1> DEFINE R == [obj : String, text : Text]
<1>1. args \in Seq(R) /\ args' \in Seq(R) /\ DOMAIN args = 1 .. Len(args)
      /\ DOMAIN args' = 1 .. Len(args) + 1 /\ Len(args) \in Nat
      /\ (\A x \in 1 .. Len(args) : args'[x] = args[x]) /\ args'[Len(args) + 1].text = text
  BY PushTypes DEF Types
<1>2. \A r \in R : r.text \in Text
  OBVIOUS
<1> HIDE DEF R
<1>3. Texts \in Seq(Text) /\ Len(Texts) = Len(args)
  BY <1>1, <1>2 DEF Texts
<1>4. Texts' \in Seq(Text) /\ Len(Texts') = Len(args) + 1
  BY <1>1, <1>2 DEF Texts
<1>5. Append(Texts, text) \in Seq(Text) /\ Len(Append(Texts, text)) = Len(args) + 1
  BY <1>3
<1>6. \A x \in 1 .. Len(args) + 1 : Texts'[x] = Append(Texts, text)[x]
  <2>1. (\A x \in 1 .. Len(args) + 1 : Texts'[x] = args'[x].text)
        /\ \A x \in 1 .. Len(args) : Texts[x] = args[x].text
    BY <1>1 DEF Texts
  <2> QED
    BY <1>1, <1>3, <2>1
<1> QED
  BY <1>3, <1>4, <1>5, <1>6, SeqSame

(* Once the text being added is done with, it is behind. *)
LEMMA BehindNext ==
    ASSUME Types, Whereabouts, pc \in {"keep", "match"}, NEW freed, NextItem(freed), raw' = raw,
           Expansions(raw[i]) = IF items = <<>> THEN <<raw[i]>> ELSE items
    PROVE  Behind \in Seq(Text) /\ Behind' = Append(Behind, Current) /\ Current \in Text
<1>1. /\ raw \in Seq(Text) /\ items \in Seq(Text) /\ i \in 1 .. Len(raw) /\ i \in Nat
      /\ j \in 0 .. Len(items) /\ (items = <<>> <=> j = 0) /\ j \in Nat
      /\ raw[i] \in Text
  BY DEF Types, Whereabouts
<1>2. Current \in Text
  BY CurrentType
<1> DEFINE before == ExpansionsOf(SubSeq(raw, 1, i - 1))
<1>3. before \in Seq(Text)
      /\ ExpansionsOf(SubSeq(raw, 1, i)) = before \o Expansions(raw[i])
  <2>1. SubSeq(raw, 1, i - 1) \in Seq(Text) /\ SubSeq(raw, 1, i) = Append(SubSeq(raw, 1, i - 1), raw[i])
    BY <1>1, PrefixesOf
  <2> QED
    BY <1>1, <2>1, ExpansionsOfOneMore
<1> HIDE DEF before
<1>4. CASE items = <<>>
  <2>1. Behind = before
    BY <1>3, <1>4, NothingConcat DEF Behind, before
  <2>2. i' = i + 1 /\ items' = <<>>
    BY <1>1, <1>4 DEF NextItem
  <2>3. Behind' = ExpansionsOf(SubSeq(raw, 1, i)) \o <<>>
    <3>1. i' - 1 = i
      BY <1>1, <2>2
    <3> QED
      BY <2>2, <3>1 DEF Behind, ExpansionsOf, Expansions
  <2>4. ExpansionsOf(SubSeq(raw, 1, i)) = Append(before, raw[i])
    BY <1>1, <1>3, <1>4, OneConcat
  <2>5. Append(before, raw[i]) \in Seq(Text)
    BY <1>1, <1>3
  <2>6. Behind' = Append(before, raw[i])
    BY <2>3, <2>4, <2>5, NothingConcat
  <2> QED
    BY <1>2, <1>3, <1>4, <2>1, <2>6 DEF Current
<1>5. CASE items # <<>>
  <2>1. j \in 1 .. Len(items) /\ items[j] \in Text
    BY <1>1, <1>5
  <2>2. SubSeq(items, 1, j - 1) \in Seq(Text)
        /\ SubSeq(items, 1, j) = Append(SubSeq(items, 1, j - 1), items[j])
        /\ SubSeq(items, 1, Len(items)) = items
    BY <1>1, <2>1, PrefixesOf
  <2>3. Behind = before \o SubSeq(items, 1, j - 1)
    BY <1>5 DEF Behind, before
  <2>4. Append(Behind, items[j]) = before \o SubSeq(items, 1, j)
    <3>1. PICK b \in Seq(Text) : b = SubSeq(items, 1, j - 1)
      BY <2>2
    <3>2. PICK c \in Text : c = items[j]
      BY <2>1
    <3>3. before \o Append(b, c) = Append(before \o b, c)
      BY <1>3, AppendConcat
    <3> QED
      BY <2>2, <2>3, <3>1, <3>2, <3>3
  <2>5. Behind \in Seq(Text) /\ before \o items \in Seq(Text)
    BY <1>1, <1>3, <2>2, <2>3
  <2>6. Behind' = before \o SubSeq(items, 1, j)
    <3>1. CASE j < Len(items)
      <4>1. i' = i /\ items' = items /\ j' = j + 1 /\ j' - 1 = j
        BY <1>1, <3>1 DEF NextItem
      <4> QED
        BY <1>5, <4>1 DEF Behind, before, ExpansionsOf, Expansions
    <3>2. CASE ~ (j < Len(items))
      <4>1. i' = i + 1 /\ items' = <<>> /\ i' - 1 = i /\ j = Len(items)
        BY <1>1, <2>1, <3>2 DEF NextItem
      <4>2. Behind' = ExpansionsOf(SubSeq(raw, 1, i)) \o <<>>
        BY <4>1 DEF Behind, ExpansionsOf, Expansions
      <4>3. ExpansionsOf(SubSeq(raw, 1, i)) = before \o items
        BY <1>3, <1>5
      <4> QED
        BY <2>2, <2>5, <4>1, <4>2, <4>3, NothingConcat
    <3> QED
      BY <3>1, <3>2
  <2> QED
    BY <1>2, <1>5, <2>4, <2>5, <2>6 DEF Current
<1> QED
  BY <1>4, <1>5

(* The list is copied in the order of argv. *)
LEMMA ListStays ==
    ASSUME ArgsInv, InOrder, NEW obj \in String, NEW text \in Text, Push(obj, text),
           list' = list, pc \in {"keep", "match"}
    PROVE  list' = SubSeq(Texts', 1, Len(list'))
<1>1. list = <<>>
  BY DEF ArgsInv, Whereabouts, Busy
<1>2. Texts' \in Seq(Text)
  BY PushTexts DEF ArgsInv
<1> QED
  BY <1>1, <1>2, PrefixesOf

LEMMA KeepOrder ==
    ASSUME ArgsInv, InOrder, Keep
    PROVE  InOrder'
<1>1. Types /\ Whereabouts /\ pc = "keep" /\ matches = <<>> /\ k = 0
  BY DEF ArgsInv, Keep, Whereabouts
<1>2. PICK text \in Text : text = Current
  BY <1>1, CurrentType
<1>3. PICK obj \in String : obj = Next1
  BY <1>1, NextOne
<1>4. Push(obj, text) /\ NextItem(<<>>) /\ UNCHANGED <<line, list, raw, matches, failed>>
  BY <1>1, <1>2, <1>3 DEF Keep, Next1
<1>5. pc' \in {"word", "wildcard"} /\ Busy
  BY <1>1, <1>4 DEF NextItem, Busy
<1>6. list' = SubSeq(Texts', 1, Len(list'))
  BY <1>1, <1>4, ListStays
<1>7. raw' = LexWords(line')
  BY <1>4, <1>5 DEF InOrder
<1>8. ASSUME failed = {} PROVE Texts' = Added'
  <2>1. Texts' = Append(Texts, text) /\ Texts \in Seq(Text)
    BY <1>1, <1>4, PushTexts
  <2>2. Texts = NamesOf(Behind)
    <3>1. Texts = NamesOf(Behind) \o <<>>
      BY <1>1, <1>5, <1>8 DEF InOrder, Added
    <3>2. Behind \in Seq(Text)
      BY <1>1, <1>4, <1>8, BehindNext DEF InOrder
    <3> QED
      BY <3>1, <3>2, NamesOfOneMore, NothingConcat
  <2>3. Behind \in Seq(Text) /\ Behind' = Append(Behind, text) /\ Names(text) = <<text>>
    BY <1>1, <1>2, <1>4, <1>8, BehindNext DEF InOrder
  <2>4. NamesOf(Append(Behind, text)) = Append(NamesOf(Behind), text)
    BY <2>3, NamesOfOneMore, OneConcat
  <2>5. Added' = NamesOf(Append(Behind, text)) \o <<>>
    BY <1>1, <1>4, <2>3 DEF Added, NamesOf, Names
  <2>6. Append(NamesOf(Behind), text) \in Seq(Text)
    BY <2>1, <2>2
  <2> QED
    BY <2>1, <2>2, <2>4, <2>5, <2>6, NothingConcat
<1>9. ASSUME failed = {}, pc' = "wildcard"
      PROVE  Expansions(raw'[i']) = IF items' = <<>> THEN <<raw'[i']>> ELSE items'
  BY <1>1, <1>4, <1>9 DEF NextItem, InOrder
<1> QED
  BY <1>4, <1>5, <1>6, <1>7, <1>8, <1>9 DEF InOrder, Expansions

LEMMA PushMatchOrder ==
    ASSUME ArgsInv, InOrder, PushMatch
    PROVE  InOrder'
<1>1. /\ Types /\ Whereabouts /\ pc = "match" /\ Busy /\ matches # <<>>
      /\ matches \in Seq(Text) /\ k \in 1 .. Len(matches) /\ k \in Nat /\ matches[k] \in Text
      /\ UNCHANGED <<line, list, raw, failed>>
  BY DEF ArgsInv, PushMatch, Whereabouts, Types, Busy
<1>2. PICK text \in Text : text = matches[k]
  BY <1>1
<1>3. PICK obj \in String : obj = Next1
  BY <1>1, NextOne
<1>4. Push(obj, text)
  BY <1>1, <1>2, <1>3 DEF PushMatch, Next1
<1>5. list' = SubSeq(Texts', 1, Len(list'))
  BY <1>1, <1>4, ListStays
<1>6. Texts' = Append(Texts, text) /\ Texts \in Seq(Text)
  BY <1>1, <1>4, PushTexts
<1>7. /\ SubSeq(matches, 1, k - 1) \in Seq(Text)
      /\ SubSeq(matches, 1, k) = Append(SubSeq(matches, 1, k - 1), text)
      /\ SubSeq(matches, 1, Len(matches)) = matches
  BY <1>1, <1>2, PrefixesOf
<1>8. ASSUME Behind \in Seq(Text), failed = {}
      PROVE  Texts' = NamesOf(Behind) \o SubSeq(matches, 1, k)
  <2>1. NamesOf(Behind) \in Seq(Text)
    BY <1>8, NamesOfOneMore
  <2>2. Texts = NamesOf(Behind) \o SubSeq(matches, 1, k - 1)
    BY <1>1, <1>8 DEF InOrder, Added
  <2>3. PICK b \in Seq(Text) : b = SubSeq(matches, 1, k - 1)
    BY <1>7
  <2>4. NamesOf(Behind) \o Append(b, text) = Append(NamesOf(Behind) \o b, text)
    BY <2>1, AppendConcat
  <2> QED
    BY <1>6, <1>7, <2>2, <2>3, <2>4
<1>9. CASE k < Len(matches)
  <2>1. UNCHANGED <<pc, matches, i, items, j>> /\ k' = k + 1 /\ k' - 1 = k
    BY <1>1, <1>9 DEF PushMatch
  <2>2. Behind \in Seq(Text)
    <3>1. SubSeq(raw, 1, i - 1) \in Seq(Text)
      <4>1. raw \in Seq(Text) /\ i - 1 \in 0 .. Len(raw)
        BY <1>1 DEF Types
      <4> QED
        BY <4>1, PrefixesOf
    <3>2. items # <<>> => SubSeq(items, 1, j - 1) \in Seq(Text)
      <4>1. items # <<>> => j - 1 \in 0 .. Len(items)
        BY <1>1 DEF Types, Whereabouts
      <4> QED
        BY <1>1, <4>1, PrefixesOf DEF Types
    <3>3. ExpansionsOf(SubSeq(raw, 1, i - 1)) \in Seq(Text)
      BY <3>1, ExpansionsOfOneMore
    <3> QED
      BY <3>2, <3>3 DEF Behind
  <2>3. Behind' = Behind
    BY <1>1, <2>1 DEF Behind, ExpansionsOf, Expansions
  <2>4. Added' = NamesOf(Behind) \o SubSeq(matches, 1, k)
    BY <1>1, <2>1, <2>3 DEF Added, NamesOf, Names
  <2>5. Current' = Current
    BY <1>1, <2>1 DEF Current
  <2> QED
    BY <1>1, <1>5, <1>8, <2>1, <2>2, <2>4, <2>5 DEF InOrder, Busy, Expansions, Names
<1>10. CASE ~ (k < Len(matches))
  <2>1. PICK freed : NextItem(freed)
    BY <1>10 DEF PushMatch
  <2>2. matches' = <<>> /\ k = Len(matches)
    BY <1>1, <1>10 DEF PushMatch
  <2>3. pc' \in {"word", "wildcard"}
    BY <2>1 DEF NextItem
  <2>4. ASSUME failed = {} PROVE Texts' = Added'
    <3>1. Behind \in Seq(Text) /\ Behind' = Append(Behind, Current) /\ Current \in Text
      BY <1>1, <2>1, <2>4, BehindNext DEF InOrder
    <3>2. Names(Current) = matches
      BY <1>1, <2>4 DEF InOrder
    <3>3. NamesOf(Append(Behind, Current)) = NamesOf(Behind) \o matches
      BY <3>1, <3>2, NamesOfOneMore
    <3>4. Append(Behind, Current) \in Seq(Text)
      BY <3>1
    <3>5. NamesOf(Append(Behind, Current)) \in Seq(Text)
      BY <3>4, NamesOfOneMore
    <3>6. Added' = NamesOf(Append(Behind, Current)) \o <<>>
      BY <2>2, <3>1 DEF Added, NamesOf, Names
    <3> QED
      BY <1>7, <1>8, <2>2, <2>4, <3>1, <3>3, <3>5, <3>6, NothingConcat
  <2>5. ASSUME failed = {}, pc' = "wildcard"
        PROVE  Expansions(raw'[i']) = IF items' = <<>> THEN <<raw'[i']>> ELSE items'
    BY <1>1, <2>1, <2>5 DEF NextItem, InOrder
  <2> QED
    BY <1>1, <1>5, <2>3, <2>4, <2>5 DEF InOrder, Expansions
<1> QED
  BY <1>1, <1>9, <1>10

(* The first pass reads the words one by one. *)
LEMMA AllocArraysOrder ==
    ASSUME ArgsInv, InOrder, AllocArrays
    PROVE  InOrder'
<1>1. /\ raw' = <<>> /\ pc' \in {"alloc_raw", "read"} /\ list' = list /\ line' = line
      /\ Texts' = Texts
  BY DEF ArgsInv, Whereabouts, AllocArrays, Texts
<1>2. Readable' \in Seq(Text) /\ Len(<<>>) = 0
  BY <1>1, ReadableType DEF ArgsInv, Types, Readable
<1>3. Len(raw') <= Len(Readable') /\ raw' = SubSeq(Readable', 1, Len(raw'))
  BY <1>1, <1>2, PrefixesOf
<1> QED
  BY <1>1, <1>3 DEF InOrder, Busy

LEMMA ReadWordOrder ==
    ASSUME ArgsInv, InOrder, ReadWord
    PROVE  InOrder'
<1>1. /\ pc = "read" /\ pc' = "read" /\ Len(raw) < Len(Readable)
      /\ raw' = Append(raw, Readable[Len(raw) + 1])
      /\ list' = list /\ line' = line /\ Texts' = Texts
  BY DEF ReadWord, Texts
<1>2. Readable' = Readable /\ Readable \in Seq(Text) /\ raw \in Seq(Text)
  BY <1>1, ReadableType DEF ArgsInv, Types, Readable
<1>3. PICK n \in 1 .. Len(Readable) : n = Len(raw) + 1 /\ n - 1 = Len(raw)
  BY <1>1, <1>2
<1>4. raw = SubSeq(Readable, 1, Len(raw))
  BY <1>1 DEF InOrder
<1>5. SubSeq(Readable, 1, n) = Append(SubSeq(Readable, 1, n - 1), Readable[n])
  BY <1>2, PrefixesOf
<1>6. raw' = SubSeq(Readable, 1, n)
  BY <1>1, <1>3, <1>4, <1>5
<1>7. Len(raw') = n
  <2>1. PICK word \in Text : word = Readable[Len(raw) + 1]
    BY <1>1, <1>2
  <2> QED
    BY <1>1, <1>2, <1>3, <2>1
<1> QED
  BY <1>1, <1>2, <1>6, <1>7 DEF InOrder, Busy

LEMMA ReadDoneOrder ==
    ASSUME ArgsInv, InOrder, ReadDone
    PROVE  InOrder'
<1>1. /\ i = 1 /\ args = <<>> /\ items = <<>> /\ matches = <<>> /\ list = <<>>
      /\ pc' = "word" /\ raw \in Seq(Text)
      /\ UNCHANGED <<line, list, raw, i, items, j, matches, k, args, failed>>
  BY DEF ArgsInv, Whereabouts, ReadDone, Early, Busy, Types
<1>0. raw' = LexWords(line)
  <2>1. raw = SubSeq(Readable, 1, Len(Readable)) /\ ~LexFails(line)
    BY DEF ReadDone, InOrder
  <2>2. Readable \in Seq(Text) /\ Readable = LexWords(line)
    BY <2>1, ReadableType DEF ArgsInv, Types
  <2> QED
    BY <1>1, <2>1, <2>2, PrefixesOf
<1>2. SubSeq(raw', 1, 0) = <<>>
  BY <1>1, PrefixesOf
<1>3. <<>> \in Seq(Text) /\ Len(<<>>) = 0
  OBVIOUS
<1>4. Behind' = <<>>
  <2>1. i' - 1 = 0
    BY <1>1
  <2>2. Behind' = ExpansionsOf(<<>>) \o <<>>
    BY <1>1, <1>2, <2>1 DEF Behind, ExpansionsOf, Expansions
  <2> QED
    BY <1>3, <2>2, ExpansionsOfOneMore, NothingConcat
<1>5. Added' = <<>>
  <2>1. Added' = NamesOf(<<>>) \o <<>>
    BY <1>1, <1>4 DEF Added, NamesOf, Names
  <2> QED
    BY <1>3, <2>1, NamesOfOneMore, NothingConcat
<1>6. Texts' = <<>>
  BY <1>1 DEF Texts
<1>7. list' = SubSeq(Texts', 1, Len(list'))
  BY <1>1, <1>3, <1>6, PrefixesOf
<1> QED
  BY <1>0, <1>1, <1>5, <1>6, <1>7 DEF InOrder

LEMMA ExpandWordOrder ==
    ASSUME ArgsInv, InOrder, ExpandWord
    PROVE  InOrder'
<1>1. /\ pc = "word" /\ Busy /\ items = <<>> /\ matches = <<>> /\ raw[i] \in Text
      /\ pc' = "wildcard" /\ UNCHANGED <<line, list, raw, i, matches, k, args, failed>>
      /\ items' = (IF HasBrace(raw[i]) THEN ExpandBrace(raw[i]) ELSE <<>>)
      /\ (items' # <<>> => j' = 1)
      /\ raw \in Seq(Text) /\ i - 1 \in 0 .. Len(raw)
  BY DEF ArgsInv, Whereabouts, Types, ExpandWord, Busy
<1>2. items' = ExpandBrace(raw[i])
  BY <1>1, NoBraceNoExpansion
<1>3. Behind' = Behind
  <2>1. items' \in Seq(Text)
    BY <1>1, <1>2, ExpandBraceType
  <2>2. SubSeq(items', 1, 0) = <<>>
    BY <2>1, PrefixesOf
  <2>3. items' # <<>> => j' - 1 = 0
    BY <1>1
  <2> QED
    BY <1>1, <2>2, <2>3 DEF Behind, ExpansionsOf, Expansions
<1>4. Added' = Added /\ Texts' = Texts
  BY <1>1, <1>3 DEF Added, NamesOf, Names, Texts
<1>5. Expansions(raw'[i']) = IF items' = <<>> THEN <<raw'[i']>> ELSE items'
  BY <1>1, <1>2 DEF Expansions
<1> QED
  BY <1>1, <1>4, <1>5 DEF InOrder, Expansions, Names

LEMMA ExpandWildcardOrder ==
    ASSUME ArgsInv, InOrder, ExpandWildcard
    PROVE  InOrder'
<1>1. /\ Types /\ Whereabouts /\ pc = "wildcard" /\ Busy /\ matches = <<>>
      /\ UNCHANGED <<line, list, raw, i, items, j, args>>
  BY DEF ArgsInv, Whereabouts, ExpandWildcard, Busy
<1> DEFINE all == AllMatches
<1>2. all \in Seq(Text)
  BY MatchesType, Inputs DEF AllMatches
<1>3. PICK n \in 0 .. Len(all) :
         /\ IF n = Len(all) THEN UNCHANGED failed ELSE Fails("match_list")
         /\ matches' = SubSeq(all, 1, n)
         /\ k' = (IF n = 0 THEN 0 ELSE 1)
         /\ pc' = (IF n = 0 THEN "keep" ELSE "match")
  BY DEF ExpandWildcard
<1>4. Names(Current) = IF all = <<>> THEN <<Current>> ELSE all
  BY DEF Names, AllMatches
<1> HIDE DEF all
<1>5. failed' = {} => n = Len(all) /\ failed = {}
  BY <1>3 DEF Fails
<1>6. Behind' = Behind /\ Current' = Current /\ Texts' = Texts
  BY <1>1 DEF Behind, ExpansionsOf, Expansions, Current, Texts
<1>7. Added' = Added
  <2>1. matches' = <<>> \/ k' - 1 = 0
    BY <1>2, <1>3, PrefixesOf
  <2>2. Behind \in Seq(Text)
    <3>1. raw \in Seq(Text) /\ i - 1 \in 0 .. Len(raw) /\ items \in Seq(Text)
          /\ (items # <<>> => j - 1 \in 0 .. Len(items))
      BY <1>1 DEF Types, Whereabouts
    <3>2. SubSeq(raw, 1, i - 1) \in Seq(Text) /\ (items # <<>> => SubSeq(items, 1, j - 1) \in Seq(Text))
      BY <3>1, PrefixesOf
    <3>3. ExpansionsOf(SubSeq(raw, 1, i - 1)) \in Seq(Text)
      BY <3>2, ExpansionsOfOneMore
    <3> QED
      BY <3>2, <3>3 DEF Behind
  <2>3. matches' # <<>> => SubSeq(matches', 1, k' - 1) = <<>>
    <3>1. matches' \in Seq(Text)
      BY <1>2, <1>3, PrefixesOf
    <3> QED
      BY <2>1, <3>1, PrefixesOf
  <2>4. NamesOf(Behind) \in Seq(Text)
    BY <2>2, NamesOfOneMore
  <2>5. Added' = NamesOf(Behind) \o <<>>
    BY <1>6, <2>3 DEF Added, NamesOf, Names
  <2>6. Added = NamesOf(Behind) \o <<>>
    BY <1>1 DEF Added
  <2> QED
    BY <2>5, <2>6
<1>8. ASSUME failed' = {}
      PROVE  /\ pc' = "keep" => Names(Current) = <<Current>>
             /\ pc' = "match" => Names(Current) = matches'
  BY <1>2, <1>3, <1>4, <1>5, <1>8, PrefixesOf
<1>9. pc' \in {"keep", "match"}
  BY <1>3
<1>10. Names(Current)' = Names(Current)
  BY <1>6 DEF Names
<1> QED
  BY <1>1, <1>5, <1>6, <1>7, <1>8, <1>9, <1>10 DEF InOrder, Expansions

LEMMA ListAddOrder ==
    ASSUME ArgsInv, InOrder, ListAdd
    PROVE  InOrder'
<1>1. /\ pc = "list" /\ pc' = "list" /\ Len(list) < Len(args)
      /\ list' = Append(list, args[Len(list) + 1].text)
      /\ UNCHANGED <<line, raw, args, failed>>
  BY DEF ListAdd
<1>2. DOMAIN args = 1 .. Len(args) /\ Len(args) \in Nat /\ Texts \in Seq(Text) /\ list \in Seq(Text)
  <2> DEFINE R == [obj : String, text : Text]
  <2>1. args \in Seq(R) /\ list \in Seq(Text)
    BY DEF ArgsInv, Types
  <2>2. \A r \in R : r.text \in Text
    OBVIOUS
  <2> HIDE DEF R
  <2> QED
    BY <2>1, <2>2 DEF Texts
<1>3. Len(list) + 1 \in 1 .. Len(args) /\ Len(list) \in Nat /\ Len(Texts) = Len(args)
  BY <1>1, <1>2 DEF Texts
<1>4. PICK text \in Text : text = Texts[Len(list) + 1] /\ text = args[Len(list) + 1].text
  BY <1>2, <1>3 DEF Texts
<1>5. PICK n \in 1 .. Len(Texts) : n = Len(list) + 1 /\ n - 1 = Len(list)
  BY <1>3
<1>6. SubSeq(Texts, 1, n) = Append(SubSeq(Texts, 1, n - 1), Texts[n])
  BY <1>2, PrefixesOf
<1>7. list = SubSeq(Texts, 1, Len(list))
  BY DEF InOrder
<1>8. list' = SubSeq(Texts, 1, n) /\ Len(list') = n
  <2>1. list' = Append(list, text) /\ Len(list') = Len(list) + 1
    BY <1>1, <1>2, <1>4
  <2>2. SubSeq(Texts, 1, n - 1) = list /\ Texts[n] = text
    BY <1>4, <1>5, <1>7
  <2> QED
    BY <1>5, <1>6, <2>1, <2>2
<1>9. Texts' = Texts
  BY <1>1 DEF Texts
<1> QED
  BY <1>1, <1>8, <1>9 DEF InOrder, Busy

LEMMA OtherOrder ==
    ASSUME ArgsInv, InOrder,
           \/ FirstPassFails \/ ExpandBraceFails \/ ExpandWildcardFails \/ GrowFails \/ Finish \/ FinishFails
           \/ ArgsFree \/ ListCreate \/ ListFails \/ ListDone \/ UNCHANGED vars
    PROVE  InOrder'
<1>1. Texts' = Texts /\ list' = list /\ line' = line /\ raw' = raw
  BY DEF FirstPassFails, ExpandBraceFails, ExpandWildcardFails, GrowFails, Finish, FinishFails,
         ArgsFree, ListCreate, ListFails, ListDone, vars, Texts
<1>2. list' = SubSeq(Texts', 1, Len(list'))
  BY <1>1 DEF InOrder
<1>3. ASSUME FirstPassFails \/ GrowFails \/ FinishFails \/ ArgsFree \/ ListFails \/ ListCreate
      PROVE  InOrder'
  <2>1. pc' \in {"error", "aborted", "freed", "list"}
    BY <1>3 DEF FirstPassFails, GrowFails, FinishFails, ArgsFree, ListFails, ListCreate, Leave
  <2> QED
    BY <1>2, <2>1 DEF InOrder, Busy
<1>4. CASE ListDone
  BY <1>2, <1>4 DEF ListDone, InOrder, Busy
<1>5. CASE ExpandBraceFails \/ ExpandWildcardFails
  <2>1. failed' # {} /\ pc \in {"word", "wildcard"} /\ pc' \in {"aborted", "wildcard", "keep"}
    BY <1>5 DEF ExpandBraceFails, ExpandWildcardFails, Fails, Leave
  <2> QED
    BY <1>1, <1>2, <2>1 DEF InOrder, Busy
<1>6. CASE Finish
  <2>1. /\ pc = "word" /\ pc' = "done" /\ UNCHANGED <<i, items, j, matches, k, failed>>
    BY <1>6 DEF Finish
  <2>2. Added' = Added
    BY <1>1, <2>1 DEF Added, Behind, NamesOf, Names, ExpansionsOf, Expansions
  <2> QED
    BY <1>1, <1>2, <2>1, <2>2 DEF InOrder, Busy
<1>7. CASE UNCHANGED vars
  <2>1. Added' = Added /\ Current' = Current
    BY <1>1, <1>7 DEF vars, Added, Behind, NamesOf, Names, ExpansionsOf, Expansions, Current
  <2>2. Names(Current)' = Names(Current)
    BY <2>1 DEF Names
  <2>3. /\ raw' = raw /\ i' = i /\ items' = items /\ pc' = pc /\ failed' = failed
        /\ matches' = matches /\ args' = args /\ list' = list
    BY <1>7 DEF vars
  <2> QED
    BY <1>1, <2>1, <2>2, <2>3 DEF InOrder, Busy, Expansions, Readable
<1> QED
  BY <1>3, <1>4, <1>5, <1>6, <1>7

THEOREM OrderInvariance == Spec => [](ArgsInv /\ InOrder)
<1>1. ASSUME Init PROVE InOrder
  <2>1. pc = "start" /\ list = <<>> /\ args = <<>> /\ Len(<<>>) = 0
    BY <1>1 DEF Init
  <2>2. Texts = <<>>
    BY <2>1 DEF Texts
  <2>3. SubSeq(<<>>, 1, 0) = <<>>
    <3>1. <<>> \in Seq({})
      OBVIOUS
    <3> QED
      BY <3>1, PrefixesOf
  <2> QED
    BY <2>1, <2>2, <2>3 DEF InOrder, Busy
<1>2. ArgsInv /\ InOrder /\ [Next]_vars => InOrder'
  BY AllocArraysOrder, ReadWordOrder, ReadDoneOrder, ExpandWordOrder, ExpandWildcardOrder, KeepOrder, PushMatchOrder,
     ListAddOrder, OtherOrder DEF Next, Step, Terminating
<1> QED
  BY <1>1, <1>2, ArgsInvariance, PTL DEF Spec

(* argv is the words in order, each expanded as the documentation of args.h *)
(* has it, whenever no allocation failed; even when some did, every word    *)
(* stands in argv, and a list is a copy of argv.                            *)
THEOREM OrderOfArgv == Spec => []ArgvInOrder
<1>1. ASSUME ArgsInv, InOrder PROVE ArgvInOrder
  <2>1. ASSUME pc = "done", failed = {}
        PROVE  Texts = EachOf(Names, EachOf(Expansions, LexWords(line)))
    <3>1. /\ i = Len(raw) + 1 /\ items = <<>> /\ matches = <<>> /\ raw \in Seq(Text)
          /\ raw = LexWords(line) /\ Texts = Added
      BY <1>1, <2>1 DEF ArgsInv, Whereabouts, Types, InOrder
    <3>2. SubSeq(raw, 1, i - 1) = raw
      <4>1. i - 1 = Len(raw)
        BY <3>1
      <4> QED
        BY <3>1, <4>1, PrefixesOf
    <3>3. Behind = ExpansionsOf(raw) /\ Behind \in Seq(Text)
      <4>1. Behind = ExpansionsOf(raw) \o <<>>
        BY <3>1, <3>2 DEF Behind
      <4>2. ExpansionsOf(raw) \in Seq(Text)
        BY <3>1, ExpansionsOfOneMore
      <4> QED
        BY <4>1, <4>2, NothingConcat
    <3>4. Added = NamesOf(ExpansionsOf(raw))
      BY <3>1, <3>3, NamesOfOneMore, NothingConcat DEF Added
    <3>5. NamesOf(ExpansionsOf(raw)) = EachOf(Names, EachOf(Expansions, raw))
      BY DEF NamesOf, ExpansionsOf, EachOf
    <3> QED
      BY <3>1, <3>4, <3>5
  <2>2. ASSUME pc = "done", NEW n \in DOMAIN raw PROVE \E x \in DOMAIN args : args[x].obj[2] = n
    <3>1. n \in 1 .. i - 1
      BY <1>1, <2>2 DEF ArgsInv, Whereabouts, Types
    <3> QED
      BY <1>1, <3>1 DEF ArgsInv, Covered
  <2>3. ASSUME pc = "listed" PROVE list = Texts
    <3>1. Len(list) = Len(args) /\ list = SubSeq(Texts, 1, Len(args))
      BY <1>1, <2>3 DEF InOrder
    <3>2. Texts \in Seq(Text) /\ Len(Texts) = Len(args)
      <4> DEFINE R == [obj : String, text : Text]
      <4>1. args \in Seq(R) /\ \A r \in R : r.text \in Text
        BY <1>1 DEF ArgsInv, Types
      <4> HIDE DEF R
      <4> QED
        BY <4>1 DEF Texts
    <3> QED
      BY <3>1, <3>2, PrefixesOf
  <2> QED
    BY <2>1, <2>2, <2>3 DEF ArgvInOrder, Texts
<1> QED
  BY <1>1, OrderInvariance, PTL

-----------------------------------------------------------------------------
(* The text of statements.                                                  *)
LEMMA SubText ==
    ASSUME NEW s \in Text, NEW a \in Nat \ {0}, NEW b \in 0 .. Len(s)
    PROVE  SubSeq(s, a, b) \in Text
<1>1. Len(s) \in Nat /\ s \in Seq(Char)
  BY DEF Text
<1>2. SubSeq(s, a, b) \in Seq(Char)
  BY <1>1
<1> QED
  BY <1>2 DEF Text

LEMMA SkipSpacesType ==
    ASSUME NEW s \in Text
    PROVE  SkipSpaces(s) \in Text
<1> DEFINE I == {x \in 1 .. Len(s) : NotSpace(s[x])}
<1>1. Len(s) \in Nat
  BY DEF Text
<1>2. SelectInSeq(s, NotSpace) = IF I # {} THEN Min(I) ELSE 0
  BY Zenon DEF SelectInSeq
<1>3. ASSUME I # {} PROVE Min(I) \in I
  <2>1. I \in SUBSET Nat
    BY <1>1
  <2>2. PICK m \in I : \A x \in I : m <= x
    <3> HIDE DEF I
    <3> QED
      BY <1>3, <2>1, LeastExists
  <2> HIDE DEF I
  <2> QED
    BY <2>2, Zenon DEF Min
<1>4. CASE I = {}
  BY <1>2, <1>4, TextAppend DEF SkipSpaces
<1>5. CASE I # {}
  <2>1. PICK n \in 1 .. Len(s) : n = SelectInSeq(s, NotSpace)
    BY <1>2, <1>3, <1>5
  <2>2. SubSeq(s, n, Len(s)) \in Text
    BY <1>1, SubText
  <2>3. SkipSpaces(s) = SubSeq(s, n, Len(s))
    BY <2>1 DEF SkipSpaces
  <2> QED
    BY <2>2, <2>3
<1> QED
  BY <1>4, <1>5

LEMMA TrimType ==
    ASSUME NEW s \in Text
    PROVE  TrimEnd(s) \in Text /\ Trim(s) \in Text
<1>1. ASSUME NEW t \in Text PROVE TrimEnd(t) \in Text
  <2> DEFINE I == {x \in 1 .. Len(t) : NotSpace(t[x])}
  <2>1. Len(t) \in Nat
    BY DEF Text
  <2>2. SelectLastInSeq(t, NotSpace) = IF I # {} THEN Max(I) ELSE 0
    BY Zenon DEF SelectLastInSeq
  <2>3. ASSUME I # {} PROVE Max(I) \in I
    <3>1. I \in SUBSET (0 .. Len(t))
      BY <2>1
    <3>2. PICK m \in I : \A x \in I : m >= x
      <4> HIDE DEF I
      <4> QED
        BY <2>1, <2>3, <3>1, GreatestExists
    <3> HIDE DEF I
    <3> QED
      BY <3>2, Zenon DEF Max
  <2>4. PICK n \in 0 .. Len(t) : n = SelectLastInSeq(t, NotSpace)
    <3>1. I # {} => Max(I) \in 0 .. Len(t)
      BY <2>1, <2>3
    <3> HIDE DEF I
    <3> QED
      BY <2>1, <2>2, <3>1
  <2>5. SubSeq(t, 1, n) \in Text
    BY SubText
  <2> QED
    BY <2>4, <2>5 DEF TrimEnd
<1> QED
  BY <1>1, SkipSpacesType DEF Trim

LEMMA FirstStatementType ==
    ASSUME NEW text \in Text
    PROVE  FirstStatement(text).text \in Text /\ FirstStatement(text).rest \in Seq(Text)
<1>1. PICK semi \in 0 .. Len(text) : semi = Find(text, Semicolon, 1)
  BY FindType
<1>2. Len(text) \in Nat
  BY DEF Text
<1>3. CASE semi = 0
  BY <1>1, <1>3, TextAppend DEF FirstStatement
<1>4. CASE semi # 0
  <2>1. SubSeq(text, 1, semi - 1) \in Text /\ SubSeq(text, semi + 1, Len(text)) \in Text
    <3>1. semi - 1 \in 0 .. Len(text) /\ semi + 1 \in Nat \ {0} /\ Len(text) \in 0 .. Len(text)
      BY <1>2, <1>4
    <3> QED
      BY <3>1, SubText
  <2>2. <<SubSeq(text, semi + 1, Len(text))>> \in Seq(Text)
    BY <2>1
  <2> QED
    BY <1>1, <1>4, <2>1, <2>2 DEF FirstStatement
<1> QED
  BY <1>3, <1>4

(* What a cut of s leaves of it. *)
CutOf(cut, s, S) == cut.before \in Seq(S) /\ Len(cut.before) <= Len(s)

LEMMA CutBefore ==
    ASSUME NEW S, NEW s \in Seq(S)
    PROVE  /\ \A forms : CutOf(CutAtForm(s, forms), s, S)
           /\ \A op : CutOf(CutAtOperator(s, op), s, S)
<1>1. Len(s) \in Nat
  OBVIOUS
<1>2. CutOf(NoCut(s), s, S)
  BY <1>1 DEF NoCut, CutOf
<1>3. ASSUME NEW at \in 1 .. Len(s), NEW form PROVE CutOf(CutAt(s, at, form), s, S)
  <2>1. PICK m \in 0 .. Len(s) : m = at - 1
    BY <1>1
  <2>2. SubSeq(s, 1, m) \in Seq(S) /\ Len(SubSeq(s, 1, m)) = m
    BY <2>1
  <2>3. CutAt(s, at, form).before = SubSeq(s, 1, m)
    BY <2>1 DEF CutAt
  <2> QED
    BY <1>1, <2>2, <2>3 DEF CutOf
<1>4. ASSUME NEW form, Places(form, s) # {}
      PROVE  Least(Places(form, s)) \in 1 .. Len(s) /\ Greatest(Places(form, s)) \in 1 .. Len(s)
  <2> DEFINE P == Places(form, s)
  <2>1. P \in SUBSET (1 .. Len(s)) /\ P \in SUBSET Nat /\ P \in SUBSET (0 .. Len(s)) /\ P # {}
    BY <1>1, <1>4 DEF Places
  <2> HIDE DEF P
  <2>2. PICK l \in P : \A n \in P : l <= n
    BY <2>1, LeastExists
  <2>3. PICK g \in P : \A n \in P : g >= n
    BY <1>1, <2>1, GreatestExists
  <2>4. Least(P) \in P
    BY <2>2, Zenon DEF Least
  <2>5. Greatest(P) \in P
    BY <2>3, Zenon DEF Greatest
  <2> QED
    BY <2>1, <2>4, <2>5 DEF P
<1>5. ASSUME NEW forms PROVE CutOf(CutAtForm(s, forms), s, S)
  <2> DEFINE used == SelectInSeq(forms, LAMBDA form : Places(form, s) # {})
             I == {x \in 1 .. Len(forms) : Places(forms[x], s) # {}}
  <2>1. used = IF I # {} THEN Min(I) ELSE 0
    BY Zenon DEF SelectInSeq
  <2>2. CASE used = 0
    BY <1>2, <2>2 DEF CutAtForm
  <2>3. CASE used # 0
    <3>1. I # {}
      BY <2>1, <2>3
    <3>2. I \in SUBSET Nat
      OBVIOUS
    <3>3. PICK m \in I : \A x \in I : m <= x
      <4> HIDE DEF I
      <4> QED
        BY <3>1, <3>2, LeastExists
    <3>4. Min(I) \in I
      <4> HIDE DEF I
      <4> QED
        BY <3>3, Zenon DEF Min
    <3>5. Places(forms[used], s) # {}
      BY <2>1, <3>1, <3>4
    <3>6. CutAtForm(s, forms) = CutAt(s, Least(Places(forms[used], s)), forms[used])
      BY <2>3, Zenon DEF CutAtForm
    <3> QED
      BY <1>3, <1>4, <3>5, <3>6
  <2> QED
    BY <2>2, <2>3
<1>6. ASSUME NEW op PROVE CutOf(CutAtOperator(s, op), s, S)
  <2>1. CASE CutAtForm(s, Around(<<op>>)).after # <<>> \/ Places(<<op>>, s) = {}
    BY <1>5, <2>1 DEF CutAtOperator
  <2>2. CASE ~(CutAtForm(s, Around(<<op>>)).after # <<>> \/ Places(<<op>>, s) = {})
    BY <1>3, <1>4, <2>2 DEF CutAtOperator
  <2> QED
    BY <2>1, <2>2
<1> QED
  BY <1>5, <1>6

LEMMA RedirectType ==
    ASSUME NEW s \in Text
    PROVE  Redirect(s).command \in Text
<1> DEFINE append == CutAtForm(s, Append(Around(AppendTo), AppendTo))
           output == IF append.after # <<>> THEN append ELSE CutAtOperator(s, ">")
           input == CutAtOperator(output.before, "<")
           pipe == CutAtOperator(input.before, "|")
<1>1. output.before \in Text
  BY CutBefore DEF Text, CutOf
<1> HIDE DEF output
<1>2. input.before \in Text
  BY <1>1, CutBefore DEF Text, CutOf
<1> HIDE DEF input
<1>3. pipe.before \in Text
  BY <1>2, CutBefore DEF Text, CutOf
<1> HIDE DEF pipe
<1>4. Redirect(s).command = TrimEnd(pipe.before)
  BY DEF Redirect, pipe, input, output
<1> QED
  BY <1>3, <1>4, TrimType

LEMMA CommandType ==
    ASSUME NEW command \in Text
    PROVE  CommandName(command) \in Text /\ CommandArgs(command) \in Text
<1>1. PICK s \in Text : s = SkipSpaces(command)
  BY SkipSpacesType
<1>2. PICK n \in 0 .. Len(s) : n = Find(s, Space, 1)
  BY FindType
<1>3. Len(s) \in Nat
  BY DEF Text
<1>4. CASE n = 0
  BY <1>1, <1>2, <1>4, TextAppend DEF CommandName, CommandArgs
<1>5. CASE n # 0
  <2>1. SubSeq(s, 1, n - 1) \in Text /\ SubSeq(s, n + 1, Len(s)) \in Text
    <3>1. n - 1 \in 0 .. Len(s) /\ n + 1 \in Nat \ {0} /\ Len(s) \in 0 .. Len(s)
      BY <1>3, <1>5
    <3> QED
      BY <3>1, SubText
  <2> QED
    BY <1>1, <1>2, <1>5, <2>1, SkipSpacesType DEF CommandName, CommandArgs
<1> QED
  BY <1>4, <1>5

-----------------------------------------------------------------------------
(* Where a form of an operator stands, and what is cut there.               *)
LEMMA OccursIs ==
    ASSUME NEW S, NEW s \in Seq(S), NEW form \in Seq(S), NEW at \in Nat \ {0}
    PROVE  Occurs(form, s, at) <=> /\ at + Len(form) - 1 <= Len(s)
                                   /\ \A y \in 1 .. Len(form) : s[at + y - 1] = form[y]
<1> DEFINE n == Len(form)
           sub == SubSeq(s, at, at + n - 1)
<1>1. n \in Nat /\ Len(s) \in Nat
  OBVIOUS
<1>2. CASE at + n - 1 <= Len(s)
  <2>1. sub \in Seq(S) /\ Len(sub) = n /\ \A y \in 1 .. n : sub[y] = s[at + y - 1]
    <3>1. \A y \in at .. at + n - 1 : s[y] \in S
      BY <1>1, <1>2
    <3>2. sub \in Seq(S)
      BY <1>1, <3>1, SubSeqProperties
    <3> QED
      BY <1>1, <1>2, <3>2
  <2>2. sub = form <=> \A y \in 1 .. n : s[at + y - 1] = form[y]
    <3> HIDE DEF sub
    <3> QED
      BY <2>1, SeqSame
  <2> QED
    BY <1>2, <2>2 DEF Occurs
<1>3. CASE ~(at + n - 1 <= Len(s))
  BY <1>3 DEF Occurs
<1> QED
  BY <1>2, <1>3

Lead(x) == IF x \in {1, 3} THEN 1 ELSE 0
Trail(x) == IF x \in {1, 2} THEN 1 ELSE 0

(* The form x of an operator has a space before it, after it, or both. *)
HasForm(F, S, op, x) ==
    /\ F \in Seq(S) /\ Len(F) = Lead(x) + Len(op) + Trail(x)
    /\ \A y \in 1 .. Len(op) : F[Lead(x) + y] = op[y]
    /\ Lead(x) = 1 => F[1] = Space
    /\ Trail(x) = 1 => F[Len(F)] = Space

LEMMA FormsAre ==
    ASSUME NEW S, Space \in S, NEW op \in Seq(S)
    PROVE  /\ Len(Spaced(op)) = 4 /\ Len(Around(op)) = 3
           /\ \A x \in 1 .. 3 : Around(op)[x] = Spaced(op)[x]
           /\ Spaced(op)[4] = op
           /\ \A x \in 1 .. 4 : HasForm(Spaced(op)[x], S, op, x)
<1> DEFINE F1 == <<Space>> \o op \o <<Space>>
           F2 == op \o <<Space>>
           F3 == <<Space>> \o op
<1>1. HasForm(F1, S, op, 1) /\ HasForm(F2, S, op, 2) /\ HasForm(F3, S, op, 3) /\ HasForm(op, S, op, 4)
  <2>1. HasForm(F2, S, op, 2)
    BY DEF HasForm, Lead, Trail
  <2>2. HasForm(F3, S, op, 3)
    BY DEF HasForm, Lead, Trail
  <2>3. HasForm(F1, S, op, 1)
    <3>1. F1 = F3 \o <<Space>> /\ F3 \in Seq(S) /\ Len(F3) = 1 + Len(op) /\ F3[1] = Space
          /\ \A y \in 1 .. Len(op) : F3[1 + y] = op[y]
      OBVIOUS
    <3> HIDE DEF F1, F3
    <3> QED
      BY <3>1 DEF HasForm, Lead, Trail
  <2>4. HasForm(op, S, op, 4)
    BY DEF HasForm, Lead, Trail
  <2> QED
    BY <2>1, <2>2, <2>3, <2>4
<1>2. Around(op) = <<F1, F2, F3>>
  BY DEF Around
<1>3. /\ Len(Spaced(op)) = 4 /\ Spaced(op)[1] = F1 /\ Spaced(op)[2] = F2
      /\ Spaced(op)[3] = F3 /\ Spaced(op)[4] = op
      /\ Len(Around(op)) = 3
      /\ Around(op)[1] = F1 /\ Around(op)[2] = F2 /\ Around(op)[3] = F3
  <2> DEFINE T == Seq(S)
  <2>1. F1 \in T /\ F2 \in T /\ F3 \in T /\ op \in T
    BY <1>1 DEF HasForm
  <2> HIDE DEF F1, F2, F3, T
  <2> QED
    BY <1>2, <2>1 DEF Spaced
<1>4. \A x \in 1 .. 4 : HasForm(Spaced(op)[x], S, op, x)
  <2> SUFFICES ASSUME NEW x \in 1 .. 4 PROVE HasForm(Spaced(op)[x], S, op, x)
    OBVIOUS
  <2>1. x = 1 \/ x = 2 \/ x = 3 \/ x = 4
    OBVIOUS
  <2> HIDE DEF HasForm
  <2> QED
    BY <1>1, <1>3, <2>1
<1>5. \A x \in 1 .. 3 : Around(op)[x] = Spaced(op)[x]
  <2> SUFFICES ASSUME NEW x \in 1 .. 3 PROVE Around(op)[x] = Spaced(op)[x]
    OBVIOUS
  <2>1. x = 1 \/ x = 2 \/ x = 3
    OBVIOUS
  <2> QED
    BY <1>3, <2>1
<1> QED
  BY <1>3, <1>4, <1>5

LEMMA OccursInside ==
    ASSUME NEW S, NEW s \in Seq(S), NEW op \in Seq(S), NEW x \in 1 .. 4, NEW form,
           HasForm(form, S, op, x), NEW at \in Nat \ {0}, Occurs(form, s, at)
    PROVE  /\ Occurs(op, s, at + Lead(x))
           /\ at + Lead(x) + Len(op) - 1 + Trail(x) <= Len(s)
           /\ Lead(x) = 1 => s[at] = Space
           /\ Trail(x) = 1 => s[at + Lead(x) + Len(op)] = Space
<1>1. Lead(x) \in {0, 1} /\ Trail(x) \in {0, 1} /\ Len(op) \in Nat /\ Len(s) \in Nat
  BY DEF Lead, Trail
<1>2. /\ form \in Seq(S) /\ Len(form) = Lead(x) + Len(op) + Trail(x)
      /\ \A y \in 1 .. Len(op) : form[Lead(x) + y] = op[y]
      /\ (Lead(x) = 1 => form[1] = Space) /\ (Trail(x) = 1 => form[Len(form)] = Space)
  BY DEF HasForm
<1>3. at + Len(form) - 1 <= Len(s) /\ \A y \in 1 .. Len(form) : s[at + y - 1] = form[y]
  BY <1>2, OccursIs
<1>4. PICK l \in {0, 1} : l = Lead(x)
  BY <1>1
<1>5. \A y \in 1 .. Len(op) : s[at + l + y - 1] = op[y]
  <2> SUFFICES ASSUME NEW y \in 1 .. Len(op) PROVE s[at + l + y - 1] = op[y]
    OBVIOUS
  <2>1. l + y \in 1 .. Len(form) /\ at + (l + y) - 1 = at + l + y - 1
    BY <1>1, <1>2, <1>4
  <2> QED
    BY <1>2, <1>3, <1>4, <2>1
<1>6. Occurs(op, s, at + l)
  <2>1. at + l \in Nat \ {0} /\ at + l + Len(op) - 1 <= Len(s)
    BY <1>1, <1>2, <1>3, <1>4
  <2> QED
    BY <1>5, <2>1, OccursIs
<1>7. Lead(x) = 1 => s[at] = Space
  <2> SUFFICES ASSUME Lead(x) = 1 PROVE s[at] = Space
    OBVIOUS
  <2>1. 1 \in 1 .. Len(form) /\ at + 1 - 1 = at
    BY <1>1, <1>2
  <2>2. form[1] = Space
    BY <1>2
  <2>3. s[at + 1 - 1] = form[1]
    BY <1>3, <2>1
  <2> QED
    BY <2>1, <2>2, <2>3
<1>8. Trail(x) = 1 => s[at + Lead(x) + Len(op)] = Space
  <2> SUFFICES ASSUME Trail(x) = 1 PROVE s[at + Lead(x) + Len(op)] = Space
    OBVIOUS
  <2>1. Len(form) \in 1 .. Len(form) /\ at + Len(form) - 1 = at + Lead(x) + Len(op)
    BY <1>1, <1>2
  <2>2. form[Len(form)] = Space
    BY <1>2
  <2>3. s[at + Len(form) - 1] = form[Len(form)]
    BY <1>3, <2>1
  <2> QED
    BY <2>1, <2>2, <2>3
<1> QED
  BY <1>1, <1>2, <1>3, <1>4, <1>6, <1>7, <1>8

(* Beyond place n, u has none of chars and does not end with a space; and   *)
(* what a file is called.                                                   *)
Tidy(u, n, chars) ==
    /\ \A y \in n + 1 .. Len(u) : u[y] \notin chars
    /\ Len(u) > n => u[Len(u)] # Space
Named(f, chars) ==
    /\ f # <<>> /\ f[1] # Space /\ f[Len(f)] # Space
    /\ \A y \in DOMAIN f : f[y] \notin chars
Repeats(op, ch, S) == op \in Seq(S) /\ Len(op) \in {1, 2} /\ \A y \in 1 .. Len(op) : op[y] = ch

(* s is u, then form x of the operator op of the character ch, then f.      *)
Written(s, S, n, u, op, ch, x, f) ==
    /\ u \in Seq(S) /\ f \in Seq(S) /\ Space \in S /\ ch # Space
    /\ n \in 0 .. Len(u) /\ Tidy(u, n, {ch}) /\ Named(f, {ch}) /\ Repeats(op, ch, S)
    /\ x \in 1 .. 4 /\ s = u \o (Spaced(op)[x] \o f)

(* What s is then, place by place. *)
Parts(s, S, u, F, f) ==
    /\ u \in Seq(S) /\ F \in Seq(S) /\ f \in Seq(S)
    /\ s \in Seq(S) /\ Len(s) = Len(u) + Len(F) + Len(f)
    /\ \A y \in 1 .. Len(u) : s[y] = u[y]
    /\ \A y \in 1 .. Len(F) : s[Len(u) + y] = F[y]
    /\ \A y \in 1 .. Len(f) : s[Len(u) + Len(F) + y] = f[y]

LEMMA PartsAre ==
    ASSUME NEW S, NEW u \in Seq(S), NEW F \in Seq(S), NEW f \in Seq(S),
           NEW s, s = u \o (F \o f)
    PROVE  Parts(s, S, u, F, f)
<1>1. PICK g : g = F \o f
  OBVIOUS
<1>2. /\ g \in Seq(S) /\ Len(g) = Len(F) + Len(f)
      /\ \A y \in 1 .. Len(F) : g[y] = F[y]
      /\ \A y \in 1 .. Len(f) : g[Len(F) + y] = f[y]
  BY <1>1
<1>3. /\ s \in Seq(S) /\ Len(s) = Len(u) + Len(g)
      /\ \A y \in 1 .. Len(u) : s[y] = u[y]
      /\ \A y \in 1 .. Len(g) : s[Len(u) + y] = g[y]
  BY <1>1, <1>2
<1>4. PICK a \in Nat, b \in Nat, c \in Nat : a = Len(u) /\ b = Len(F) /\ c = Len(f)
  OBVIOUS
<1>5. ASSUME NEW y \in 1 .. b PROVE s[a + y] = F[y]
  <2>1. y \in 1 .. Len(g)
    BY <1>2, <1>4
  <2> QED
    BY <1>2, <1>3, <1>4, <2>1
<1>6. ASSUME NEW y \in 1 .. c PROVE s[a + b + y] = f[y]
  <2>1. b + y \in 1 .. Len(g) /\ a + (b + y) = a + b + y
    BY <1>2, <1>4
  <2>2. s[a + (b + y)] = g[b + y]
    BY <1>3, <1>4, <2>1
  <2> QED
    BY <1>2, <1>4, <2>1, <2>2
<1>7. Len(s) = a + b + c
  BY <1>2, <1>3, <1>4
<1> QED
  BY <1>3, <1>4, <1>5, <1>6, <1>7 DEF Parts

LEMMA WrittenParts ==
    ASSUME NEW S, NEW s, NEW n, NEW u, NEW op, NEW ch, NEW x, NEW f,
           Written(s, S, n, u, op, ch, x, f)
    PROVE  Parts(s, S, u, Spaced(op)[x], f) /\ HasForm(Spaced(op)[x], S, op, x)
<1>1. HasForm(Spaced(op)[x], S, op, x)
  <2>1. Space \in S /\ op \in Seq(S) /\ x \in 1 .. 4
    BY DEF Written, Repeats
  <2> QED
    BY <2>1, FormsAre
<1>2. PICK F : F = Spaced(op)[x]
  OBVIOUS
<1>3. u \in Seq(S) /\ f \in Seq(S) /\ s = u \o (F \o f)
  BY <1>2 DEF Written
<1>4. F \in Seq(S)
  BY <1>1, <1>2 DEF HasForm
<1> QED
  BY <1>1, <1>2, <1>3, <1>4, PartsAre

LEMMA WrittenChars ==
    ASSUME NEW S, NEW s, NEW n, NEW u, NEW op, NEW ch, NEW x, NEW f,
           Written(s, S, n, u, op, ch, x, f), NEW q, q = Len(u) + Lead(x) + 1
    PROVE  /\ q \in Nat /\ q > n
           /\ \A y \in n + 1 .. Len(s) : s[y] = ch <=> y \in q .. q + Len(op) - 1
           /\ Lead(x) = 0 /\ Len(u) > n => s[Len(u)] # Space
           /\ Trail(x) = 0 => s[q + Len(op)] # Space
<1>1. PICK F : F = Spaced(op)[x]
  OBVIOUS
<1>2. Parts(s, S, u, F, f) /\ HasForm(F, S, op, x)
  BY <1>1, WrittenParts
<1>3. PICK a \in Nat, b \in Nat, c \in Nat, w \in {1, 2}, l \in {0, 1}, t \in {0, 1} :
          /\ a = Len(u) /\ b = Len(F) /\ c = Len(f) /\ w = Len(op)
          /\ l = Lead(x) /\ t = Trail(x)
  <2>1. Len(op) \in {1, 2} /\ Lead(x) \in {0, 1} /\ Trail(x) \in {0, 1}
    BY DEF Written, Repeats, Lead, Trail
  <2>2. Len(u) \in Nat /\ Len(F) \in Nat /\ Len(f) \in Nat
    BY <1>2 DEF Parts
  <2> QED
    BY <2>1, <2>2
<1>4. /\ s \in Seq(S) /\ Len(s) = a + b + c
      /\ \A y \in 1 .. a : s[y] = u[y]
      /\ \A y \in 1 .. b : s[a + y] = F[y]
      /\ \A y \in 1 .. c : s[a + b + y] = f[y]
  BY <1>2, <1>3 DEF Parts
<1>5. /\ ch # Space /\ n \in 0 .. a
      /\ \A y \in n + 1 .. a : u[y] # ch
      /\ a > n => u[a] # Space
      /\ \A y \in 1 .. w : op[y] = ch
  BY <1>3 DEF Written, Repeats, Tidy
<1>6. c >= 1 /\ f[1] # Space /\ \A y \in 1 .. c : f[y] # ch
  <2>1. f \in Seq(S) /\ Named(f, {ch})
    BY DEF Written
  <2>2. DOMAIN f = 1 .. c /\ c # 0
    BY <1>3, <2>1 DEF Named
  <2> QED
    BY <2>1, <2>2 DEF Named
<1>7. /\ b = l + w + t
      /\ \A y \in 1 .. w : F[l + y] = ch
      /\ l = 1 => F[1] = Space
      /\ t = 1 => F[b] = Space
  BY <1>2, <1>3, <1>5 DEF HasForm
<1>8. q = a + l + 1 /\ q \in Nat /\ q > n
  BY <1>3, <1>5
<1>9. ASSUME NEW y \in n + 1 .. Len(s) PROVE s[y] = ch <=> y \in q .. q + w - 1
  <2>0. y \in Int /\ n + 1 <= y /\ y <= a + b + c
    BY <1>4, <1>5
  <2>1. CASE y <= a
    <3>1. y \in 1 .. a /\ y \in n + 1 .. a
      BY <1>5, <2>0, <2>1
    <3>2. y \notin q .. q + w - 1
      BY <1>8, <2>1
    <3> QED
      BY <1>4, <1>5, <3>1, <3>2
  <2>2. CASE y > a + b
    <3>1. PICK z \in 1 .. c : z = y - (a + b)
      BY <2>0, <2>2
    <3>2. y = a + b + z
      BY <2>0, <3>1
    <3>3. y \notin q .. q + w - 1
      BY <1>7, <1>8, <2>2
    <3> QED
      BY <1>4, <1>6, <3>2, <3>3
  <2>3. CASE a < y /\ y <= a + b
    <3>1. PICK z \in 1 .. b : z = y - a
      BY <2>0, <2>3
    <3>2. y = a + z /\ s[y] = F[z]
      <4>1. y = a + z
        BY <2>0, <3>1
      <4> QED
        BY <1>4, <4>1
    <3>3. CASE l < z /\ z <= l + w
      <4>1. PICK v \in 1 .. w : v = z - l
        BY <3>3
      <4>2. z = l + v
        BY <4>1
      <4>3. y \in q .. q + w - 1
        BY <1>8, <3>2, <3>3
      <4> QED
        BY <1>7, <3>2, <4>2, <4>3
    <3>4. CASE ~(l < z /\ z <= l + w)
      <4>1. (l = 1 /\ z = 1) \/ (t = 1 /\ z = b)
        BY <1>7, <3>4
      <4>2. F[z] = Space
        BY <1>7, <4>1
      <4>3. y \notin q .. q + w - 1
        BY <1>8, <3>2, <3>4
      <4> QED
        BY <1>5, <3>2, <4>2, <4>3
    <3> QED
      BY <3>3, <3>4
  <2> QED
    BY <2>0, <2>1, <2>2, <2>3
<1>10. ASSUME a > n PROVE s[a] # Space
  <2>1. a \in 1 .. a
    BY <1>5, <1>10
  <2> QED
    BY <1>4, <1>5, <1>10, <2>1
<1>11. ASSUME t = 0 PROVE s[q + w] # Space
  <2>1. q + w = a + b + 1 /\ 1 \in 1 .. c
    BY <1>6, <1>7, <1>8, <1>11
  <2> QED
    BY <1>4, <1>6, <2>1
<1> QED
  BY <1>3, <1>8, <1>9, <1>10, <1>11

(* Of the forms up to the one that is written, only this one occurs beyond  *)
(* place n, and only once.                                                  *)
LEMMA WrittenPlace ==
    ASSUME NEW S, NEW s, NEW n, NEW u, NEW op, NEW ch, NEW x, NEW f,
           Written(s, S, n, u, op, ch, x, f), NEW z \in 1 .. x,
           NEW at \in Nat, at > n, Occurs(Spaced(op)[z], s, at)
    PROVE  z = x /\ at = Len(u) + 1
<1>1. PICK q : q = Len(u) + Lead(x) + 1
  OBVIOUS
<1>2. /\ q \in Nat /\ q > n
      /\ \A y \in n + 1 .. Len(s) : s[y] = ch <=> y \in q .. q + Len(op) - 1
      /\ Lead(x) = 0 /\ Len(u) > n => s[Len(u)] # Space
      /\ Trail(x) = 0 => s[q + Len(op)] # Space
  BY <1>1, WrittenChars
<1>3. /\ s \in Seq(S) /\ Len(u) \in Nat
      /\ x \in 1 .. 4 /\ Space \in S /\ op \in Seq(S) /\ Len(op) \in {1, 2} /\ n \in Nat
      /\ \A y \in 1 .. Len(op) : op[y] = ch
  <2>1. s \in Seq(S) /\ u \in Seq(S)
    BY WrittenParts DEF Parts
  <2>2. n \in 0 .. Len(u)
    BY DEF Written
  <2> QED
    BY <2>1, <2>2 DEF Written, Repeats
<1>4. PICK a \in Nat, w \in {1, 2}, e \in Nat, l \in {0, 1}, t \in {0, 1} :
          a = Len(u) /\ w = Len(op) /\ e = Len(s) /\ l = Lead(z) /\ t = Trail(z)
  BY <1>3 DEF Lead, Trail
<1>5. z \in 1 .. 4 /\ HasForm(Spaced(op)[z], S, op, z) /\ at \in Nat \ {0}
  <2>1. z \in 1 .. 4
    BY <1>3
  <2>2. HasForm(Spaced(op)[z], S, op, z)
    BY <1>3, <2>1, FormsAre
  <2> QED
    BY <1>3, <2>1, <2>2
<1>6. /\ Occurs(op, s, at + l) /\ at + l + w - 1 + t <= e
      /\ l = 1 => s[at] = Space
      /\ t = 1 => s[at + l + w] = Space
  <2>1. PICK F : F = Spaced(op)[z]
    OBVIOUS
  <2>2. HasForm(F, S, op, z) /\ Occurs(F, s, at)
    BY <1>5, <2>1
  <2>3. /\ Occurs(op, s, at + Lead(z))
        /\ at + Lead(z) + Len(op) - 1 + Trail(z) <= Len(s)
        /\ Lead(z) = 1 => s[at] = Space
        /\ Trail(z) = 1 => s[at + Lead(z) + Len(op)] = Space
    BY <1>3, <1>5, <2>2, OccursInside
  <2> QED
    BY <1>4, <2>3
<1>7. at + l = q
  <2>1. PICK p \in Nat \ {0} : p = at + l
    BY <1>5
  <2>2. \A y \in 1 .. w : s[p + y - 1] = ch
    <3>1. Occurs(op, s, p)
      BY <1>6, <2>1
    <3>2. \A y \in 1 .. Len(op) : s[p + y - 1] = op[y]
      BY <1>3, <2>1, <3>1, OccursIs
    <3> QED
      BY <1>3, <1>4, <3>2
  <2>3. ASSUME NEW y \in 1 .. w PROVE p + y - 1 \in q .. q + w - 1
    <3>1. p + y - 1 \in n + 1 .. e
      BY <1>3, <1>6, <2>1
    <3> QED
      BY <1>2, <1>4, <2>2, <3>1
  <2>4. p + 1 - 1 >= q /\ p + w - 1 <= q + w - 1
    <3>1. 1 \in 1 .. w /\ w \in 1 .. w
      OBVIOUS
    <3> QED
      BY <1>2, <2>3, <3>1
  <2> QED
    BY <1>2, <2>1, <2>4
<1>8. l = 1 => Lead(x) = 1
  <2> SUFFICES ASSUME l = 1, Lead(x) # 1 PROVE FALSE
    OBVIOUS
  <2>1. Lead(x) = 0
    BY DEF Lead
  <2>2. at = a /\ a > n
    BY <1>1, <1>4, <1>5, <1>7, <2>1
  <2> QED
    BY <1>2, <1>4, <1>6, <2>1, <2>2
<1>9. t = 1 => Trail(x) = 1
  <2> SUFFICES ASSUME t = 1, Trail(x) # 1 PROVE FALSE
    OBVIOUS
  <2>1. Trail(x) = 0
    BY DEF Trail
  <2> QED
    BY <1>2, <1>4, <1>6, <1>7, <2>1
<1>10. z = x
  BY <1>3, <1>4, <1>8, <1>9 DEF Lead, Trail
<1>11. at = a + 1
  BY <1>1, <1>4, <1>5, <1>7, <1>10
<1> QED
  BY <1>4, <1>10, <1>11

LEMMA TrimEndIs ==
    ASSUME NEW S, NEW f \in Seq(S), f # <<>>, f[Len(f)] # Space
    PROVE  TrimEnd(f) = f
<1>1. PICK c \in Nat \ {0} : c = Len(f)
  OBVIOUS
<1>2. f = SubSeq(f, 1, c)
  BY <1>1, PrefixSeq
<1>3. NotSpace(f[c])
  BY <1>1 DEF NotSpace
<1> DEFINE I == {x \in 1 .. c : NotSpace(f[x])}
<1>4. SelectLastInSeq(f, NotSpace) = IF I # {} THEN Max(I) ELSE 0
  BY <1>1, Zenon DEF SelectLastInSeq
<1>5. c \in I /\ \A y \in I : c >= y /\ (y >= c => y = c)
  BY <1>1, <1>3
<1> HIDE DEF I
<1>6. Max(I) = c
  <2>1. \E x \in I : \A y \in I : x >= y
    BY <1>5
  <2>2. Max(I) \in I /\ \A y \in I : Max(I) >= y
    BY <2>1, Zenon DEF Max
  <2> QED
    BY <1>5, <2>2
<1> QED
  BY <1>2, <1>4, <1>5, <1>6 DEF TrimEnd

LEMMA TrimNamed ==
    ASSUME NEW S, NEW f \in Seq(S), Named(f, {})
    PROVE  Trim(f) = f
<1>1. PICK c \in Nat \ {0} : c = Len(f)
  BY DEF Named
<1>2. f = SubSeq(f, 1, c)
  BY <1>1, PrefixSeq
<1>3. NotSpace(f[1])
  BY <1>1 DEF Named, NotSpace
<1>4. SkipSpaces(f) = f
  <2> DEFINE I == {x \in 1 .. c : NotSpace(f[x])}
  <2>1. SelectInSeq(f, NotSpace) = IF I # {} THEN Min(I) ELSE 0
    BY <1>1, Zenon DEF SelectInSeq
  <2>2. 1 \in I /\ \A y \in I : 1 <= y /\ (y <= 1 => y = 1)
    BY <1>1, <1>3
  <2> HIDE DEF I
  <2>3. Min(I) = 1
    <3>1. \E x \in I : \A y \in I : x <= y
      BY <2>2
    <3>2. Min(I) \in I /\ \A y \in I : Min(I) <= y
      BY <3>1, Zenon DEF Min
    <3> QED
      BY <2>2, <3>2
  <2> QED
    BY <1>1, <1>2, <2>1, <2>2, <2>3 DEF SkipSpaces
<1>5. TrimEnd(f) = f
  BY TrimEndIs DEF Named
<1> QED
  BY <1>4, <1>5 DEF Trim

(* What is written is found there, and cut out. *)
LEMMA WrittenCut ==
    ASSUME NEW S, NEW s, NEW n, NEW u, NEW op, NEW ch, NEW x, NEW f,
           Written(s, S, n, u, op, ch, x, f), NEW at, at = Len(u) + 1
    PROVE  /\ at \in Places(Spaced(op)[x], s) /\ at > n
           /\ CutAt(s, at, Spaced(op)[x]) = [before |-> u, after |-> <<f>>]
<1>1. PICK F : F = Spaced(op)[x]
  OBVIOUS
<1>2. Parts(s, S, u, F, f) /\ Named(f, {ch}) /\ n \in 0 .. Len(u)
  BY <1>1, WrittenParts DEF Written
<1>3. PICK a \in Nat, b \in Nat, c \in Nat : a = Len(u) /\ b = Len(F) /\ c = Len(f)
  <2>1. u \in Seq(S) /\ F \in Seq(S) /\ f \in Seq(S)
    BY <1>2 DEF Parts
  <2> QED
    BY <2>1
<1>4. /\ u \in Seq(S) /\ F \in Seq(S) /\ f \in Seq(S) /\ s \in Seq(S) /\ Len(s) = a + b + c
      /\ \A y \in 1 .. a : s[y] = u[y]
      /\ \A y \in 1 .. b : s[a + y] = F[y]
      /\ \A y \in 1 .. c : s[a + b + y] = f[y]
  BY <1>2, <1>3 DEF Parts
<1>5. c >= 1 /\ at \in 1 .. Len(s) /\ at > n
  <2>1. c # 0
    BY <1>2, <1>3, <1>4 DEF Named
  <2> QED
    BY <1>2, <1>3, <1>4, <2>1
<1>6. at \in Places(F, s)
  <2>1. at + b - 1 <= Len(s)
    BY <1>3, <1>4, <1>5
  <2>2. \A y \in 1 .. b : s[at + y - 1] = F[y]
    <3> SUFFICES ASSUME NEW y \in 1 .. b PROVE s[at + y - 1] = F[y]
      OBVIOUS
    <3>1. at + y - 1 = a + y
      BY <1>3
    <3> QED
      BY <1>4, <3>1
  <2>3. at \in Nat \ {0}
    BY <1>3
  <2>4. Occurs(F, s, at)
    BY <1>3, <1>4, <2>1, <2>2, <2>3, OccursIs
  <2> QED
    BY <1>5, <2>4 DEF Places
<1>7. SubSeq(s, 1, at - 1) = u
  <2>1. at - 1 = a /\ a \in 0 .. Len(s)
    BY <1>3, <1>4
  <2> QED
    BY <1>3, <1>4, <2>1, PrefixSeq
<1>8. SubSeq(s, at + b, Len(s)) = f
  <2>1. PICK g : g = SubSeq(s, at + b, Len(s))
    OBVIOUS
  <2>2. at + b \in 1 .. Len(s) /\ at + b \in Nat /\ Len(s) \in Nat
    BY <1>3, <1>4, <1>5
  <2>3. /\ g \in Seq(S) /\ Len(g) = Len(s) - (at + b) + 1
        /\ \A y \in 1 .. Len(g) : g[y] = s[(at + b) + y - 1]
    <3>1. PICK p \in Nat, e \in Nat : p = at + b /\ e = Len(s)
      BY <2>2
    <3>2. p \in 1 .. e /\ g = SubSeq(s, p, e)
      BY <2>1, <2>2, <3>1
    <3>3. g \in Seq(S)
      BY <1>4, <3>1, <3>2, SubSeqProperties
    <3>4. Len(g) = e - p + 1 /\ \A y \in 1 .. e - p + 1 : g[y] = s[p + y - 1]
      BY <1>4, <3>1, <3>2
    <3> QED
      BY <3>1, <3>3, <3>4
  <2>4. Len(g) = c
    BY <1>3, <1>4, <2>3
  <2>5. ASSUME NEW y \in 1 .. c PROVE g[y] = f[y]
    <3>1. (at + b) + y - 1 = a + b + y
      BY <1>3
    <3> QED
      BY <1>4, <2>3, <2>4, <3>1
  <2> QED
    BY <1>3, <1>4, <2>1, <2>3, <2>4, <2>5, SeqSame
<1>9. Trim(f) = f
  <2>1. Named(f, {})
    BY <1>2 DEF Named
  <2> QED
    BY <1>4, <2>1, TrimNamed
<1>10. CutAt(s, at, F) = [before |-> u, after |-> <<f>>]
  BY <1>3, <1>7, <1>8, <1>9 DEF CutAt
<1> QED
  BY <1>1, <1>5, <1>6, <1>10

(* A cut that leaves fewer than n characters. *)
Short(cut, n) == cut.after # <<>> /\ Len(cut.before) < n

LEMMA CutShort ==
    ASSUME NEW S, NEW s \in Seq(S), NEW n \in Nat, NEW at \in 1 .. Len(s), at <= n, NEW form
    PROVE  Short(CutAt(s, at, form), n)
<1>1. PICK p \in Nat : p = at - 1 /\ p \in 0 .. Len(s) /\ p < n
  OBVIOUS
<1>2. Len(SubSeq(s, 1, p)) = p
  BY <1>1
<1>3. Len(CutAt(s, at, form).before) < n
  BY <1>1, <1>2 DEF CutAt
<1>4. CutAt(s, at, form).after # <<>>
  <2>1. \A t : <<t>> # <<>>
    OBVIOUS
  <2> QED
    BY <2>1 DEF CutAt
<1> QED
  BY <1>3, <1>4 DEF Short

LEMMA FormFound ==
    ASSUME NEW S, NEW s \in Seq(S), NEW n \in Nat, NEW forms, NEW x \in 1 .. Len(forms),
           Len(forms) \in Nat, NEW at \in Places(forms[x], s), at > n,
           \A z \in 1 .. x : \A y \in Places(forms[z], s) : y > n => z = x /\ y = at
    PROVE  \/ CutAtForm(s, forms) = CutAt(s, at, forms[x])
           \/ Short(CutAtForm(s, forms), n)
<1> DEFINE I == {z \in 1 .. Len(forms) : Places(forms[z], s) # {}}
           used == SelectInSeq(forms, LAMBDA form : Places(form, s) # {})
<1>1. used = IF I # {} THEN Min(I) ELSE 0
  BY Zenon DEF SelectInSeq
<1>2. x \in I /\ I \in SUBSET Nat
  OBVIOUS
<1>3. PICK z \in I : \A y \in I : z <= y
  <2> HIDE DEF I
  <2> QED
    BY <1>2, LeastExists
<1>4. Min(I) \in I /\ \A y \in I : Min(I) <= y
  <2> HIDE DEF I
  <2> QED
    BY <1>3, Zenon DEF Min
<1>5. used \in I /\ used \in 1 .. x
  <2>1. used = Min(I)
    BY <1>1, <1>2
  <2>2. used \in I /\ used <= x
    <3> HIDE DEF I, used
    <3> QED
      BY <1>2, <1>4, <2>1
  <2> HIDE DEF used
  <2> QED
    BY <2>2
<1>6. PICK m : m = used
  OBVIOUS
<1>7. CutAtForm(s, forms) = CutAt(s, Least(Places(forms[m], s)), forms[m])
  <2>1. used # 0
    <3> HIDE DEF used
    <3> QED
      BY <1>5
  <2>2. CutAtForm(s, forms) = CutAt(s, Least(Places(forms[used], s)), forms[used])
    BY <2>1, Zenon DEF CutAtForm
  <2> HIDE DEF used
  <2> QED
    BY <1>6, <2>2
<1>8. m \in 1 .. x /\ Places(forms[m], s) # {}
  <2> HIDE DEF used
  <2> QED
    BY <1>5, <1>6
<1> HIDE DEF I, used
<1>9. PICK P : P = Places(forms[m], s)
  OBVIOUS
<1>10. P \in SUBSET Nat /\ P \subseteq 1 .. Len(s) /\ P # {}
  BY <1>8, <1>9 DEF Places
<1>11. PICK p \in P : \A y \in P : p <= y
  BY <1>10, LeastExists
<1>12. Least(P) \in P
  BY <1>11, Zenon DEF Least
<1>13. PICK l \in Nat : l = Least(P)
  BY <1>10, <1>12
<1>14. CASE l > n
  <2>1. m = x /\ l = at
    BY <1>8, <1>9, <1>12, <1>13, <1>14
  <2> QED
    BY <1>7, <1>9, <1>13, <2>1
<1>15. CASE l <= n
  <2>1. l \in 1 .. Len(s)
    BY <1>10, <1>12, <1>13
  <2>2. Short(CutAt(s, l, forms[m]), n)
    BY <1>15, <2>1, CutShort
  <2> QED
    BY <1>7, <1>9, <1>13, <2>2
<1>16. l > n \/ l <= n
  BY <1>13
<1> QED
  BY <1>14, <1>15, <1>16

LEMMA FormNotFound ==
    ASSUME NEW S, NEW s \in Seq(S), NEW n \in Nat, NEW forms,
           \A z \in 1 .. Len(forms) : \A y \in Places(forms[z], s) : y <= n
    PROVE  CutAtForm(s, forms) = NoCut(s) \/ Short(CutAtForm(s, forms), n)
<1> DEFINE I == {z \in 1 .. Len(forms) : Places(forms[z], s) # {}}
           used == SelectInSeq(forms, LAMBDA form : Places(form, s) # {})
<1>1. used = IF I # {} THEN Min(I) ELSE 0
  BY Zenon DEF SelectInSeq
<1>2. CASE used = 0
  BY <1>2, Zenon DEF CutAtForm
<1>3. CASE used # 0
  <2>1. I # {} /\ I \in SUBSET Nat
    <3>1. I \in SUBSET Nat
      OBVIOUS
    <3>2. I # {}
      <4> HIDE DEF I, used
      <4> QED
        BY <1>1, <1>3
    <3> QED
      BY <3>1, <3>2
  <2>2. PICK z \in I : \A y \in I : z <= y
    <3> HIDE DEF I
    <3> QED
      BY <2>1, LeastExists
  <2>3. Min(I) \in I
    <3> HIDE DEF I
    <3> QED
      BY <2>2, Zenon DEF Min
  <2>4. used \in 1 .. Len(forms) /\ Places(forms[used], s) # {}
    BY <1>1, <2>1, <2>3
  <2>5. CutAtForm(s, forms) = CutAt(s, Least(Places(forms[used], s)), forms[used])
    BY <1>3, Zenon DEF CutAtForm
  <2> HIDE DEF I, used
  <2>6. PICK P : P = Places(forms[used], s)
    OBVIOUS
  <2>7. P \in SUBSET Nat /\ P \subseteq 1 .. Len(s) /\ P # {}
    BY <2>4, <2>6 DEF Places
  <2>8. PICK p \in P : \A y \in P : p <= y
    BY <2>7, LeastExists
  <2>9. Least(P) \in P
    BY <2>8, Zenon DEF Least
  <2>10. Least(P) \in 1 .. Len(s) /\ Least(P) <= n
    BY <2>4, <2>6, <2>7, <2>9
  <2>11. Short(CutAt(s, Least(P), forms[used]), n)
    BY <2>10, CutShort
  <2> QED
    BY <2>5, <2>6, <2>11
<1> QED
  BY <1>2, <1>3

(* What is written is what is cut out, *)
LEMMA WrittenFound ==
    ASSUME NEW S, NEW s, NEW n, NEW u, NEW op, NEW ch, NEW x, NEW f,
           Written(s, S, n, u, op, ch, x, f), NEW cut,
           cut = CutAtForm(s, Spaced(op)) \/ (op = <<ch>> /\ cut = CutAtOperator(s, ch))
    PROVE  cut = [before |-> u, after |-> <<f>>] \/ Short(cut, n)
<1>1. /\ s \in Seq(S) /\ n \in Nat /\ x \in 1 .. 4 /\ Space \in S /\ op \in Seq(S)
      /\ Len(s) \in Nat
  <2>1. s \in Seq(S) /\ u \in Seq(S)
    BY WrittenParts DEF Parts
  <2>2. n \in 0 .. Len(u)
    BY DEF Written
  <2> QED
    BY <2>1, <2>2 DEF Written, Repeats
<1>2. PICK at \in Nat : at = Len(u) + 1
  <2>1. u \in Seq(S)
    BY DEF Written
  <2> QED
    BY <2>1
<1>3. /\ at \in Places(Spaced(op)[x], s) /\ at > n
      /\ CutAt(s, at, Spaced(op)[x]) = [before |-> u, after |-> <<f>>]
  BY <1>2, WrittenCut
<1>4. ASSUME NEW z \in 1 .. x, NEW y \in Places(Spaced(op)[z], s), y > n
      PROVE  z = x /\ y = at
  <2>1. y \in Nat /\ Occurs(Spaced(op)[z], s, y)
    BY DEF Places
  <2> QED
    BY <1>2, <1>4, <2>1, WrittenPlace
<1>5. /\ Len(Spaced(op)) = 4 /\ Len(Around(op)) = 3 /\ Spaced(op)[4] = op
      /\ \A z \in 1 .. 3 : Around(op)[z] = Spaced(op)[z]
  BY <1>1, FormsAre
<1>6. CASE cut = CutAtForm(s, Spaced(op))
  <2>1. PICK forms : forms = Spaced(op)
    OBVIOUS
  <2>2. Len(forms) \in Nat /\ x \in 1 .. Len(forms)
    <3>1. Len(forms) = 4
      BY <1>5, <2>1
    <3> QED
      BY <1>1, <3>1
  <2>3. cut = CutAt(s, at, forms[x]) \/ Short(cut, n)
    BY <1>1, <1>3, <1>4, <1>6, <2>1, <2>2, FormFound
  <2> QED
    BY <1>3, <2>1, <2>3
<1>7. CASE op = <<ch>> /\ cut = CutAtOperator(s, ch)
  <2>1. PICK forms : forms = Around(op)
    OBVIOUS
  <2>2. PICK spaced : spaced = CutAtForm(s, forms)
    OBVIOUS
  <2>3. PICK P : P = Places(op, s)
    OBVIOUS
  <2>4. cut = IF spaced.after # <<>> \/ P = {} THEN spaced ELSE CutAt(s, Greatest(P), op)
    BY <1>7, <2>1, <2>2, <2>3, Zenon DEF CutAtOperator
  <2>5. P \in SUBSET (0 .. Len(s)) /\ P \subseteq 1 .. Len(s)
    BY <2>3 DEF Places
  <2>6. Short(spaced, n) => cut = spaced
    BY <2>4 DEF Short
  <2>7. CASE x \in 1 .. 3
    <3>1. Len(forms) \in Nat /\ x \in 1 .. Len(forms) /\ forms[x] = Spaced(op)[x]
      BY <1>5, <2>1, <2>7
    <3>2. ASSUME NEW z \in 1 .. x PROVE forms[z] = Spaced(op)[z]
      <4>1. z \in 1 .. 3
        BY <2>7
      <4> QED
        BY <1>5, <2>1, <4>1
    <3>3. spaced = CutAt(s, at, forms[x]) \/ Short(spaced, n)
      BY <1>1, <1>3, <1>4, <2>2, <3>1, <3>2, FormFound
    <3>4. spaced = CutAt(s, at, forms[x]) => cut = spaced
      <4>1. \A t : <<t>> # <<>>
        OBVIOUS
      <4> QED
        BY <2>4, <4>1 DEF CutAt
    <3> QED
      BY <1>3, <2>6, <3>1, <3>3, <3>4
  <2>8. CASE x = 4
    <3>1. P # {} /\ at \in P /\ \A y \in P : y > n => y = at
      BY <1>3, <1>4, <1>5, <2>3, <2>8
    <3>2. \A z \in 1 .. Len(forms) : \A y \in Places(forms[z], s) : y <= n
      <4> SUFFICES ASSUME NEW z \in 1 .. 3, NEW y \in Places(forms[z], s) PROVE y <= n
        BY <1>5, <2>1
      <4>1. z \in 1 .. x /\ z # x /\ y \in Places(Spaced(op)[z], s)
        BY <1>5, <2>1, <2>8
      <4>2. ~(y > n)
        BY <1>4, <4>1
      <4>3. y \in Nat
        BY DEF Places
      <4> QED
        BY <1>1, <4>2, <4>3
    <3>3. spaced = NoCut(s) \/ Short(spaced, n)
      BY <1>1, <2>2, <3>2, FormNotFound
    <3>4. CASE spaced = NoCut(s)
      <4>1. cut = CutAt(s, Greatest(P), op)
        BY <2>4, <3>1, <3>4 DEF NoCut
      <4>2. PICK m \in P : \A y \in P : m >= y
        BY <1>1, <2>5, <3>1, GreatestExists
      <4>3. Greatest(P) \in P /\ \A y \in P : Greatest(P) >= y
        BY <4>2, Zenon DEF Greatest
      <4>4. PICK g \in P : g = Greatest(P)
        BY <4>3
      <4>5. g \in Nat /\ g >= at
        BY <1>1, <2>5, <3>1, <4>3, <4>4
      <4>6. Greatest(P) = at
        BY <1>1, <1>2, <1>3, <3>1, <4>4, <4>5
      <4> QED
        BY <1>3, <1>5, <2>8, <4>1, <4>6
    <3> QED
      BY <2>6, <3>3, <3>4
  <2>9. x \in 1 .. 3 \/ x = 4
    BY <1>1
  <2> QED
    BY <2>7, <2>8, <2>9
<1> QED
  BY <1>6, <1>7

(* and nothing is, where an operator does not occur.                        *)
LEMMA NotWritten ==
    ASSUME NEW S, NEW s \in Seq(S), NEW n \in Nat, Space \in S, NEW op \in Seq(S),
           \A y \in n + 1 .. Len(s) : ~Occurs(op, s, y), op # <<>>, NEW ch, NEW cut,
           cut = CutAtForm(s, Spaced(op)) \/ (op = <<ch>> /\ cut = CutAtOperator(s, ch))
    PROVE  cut = NoCut(s) \/ Short(cut, n)
<1>1. /\ Len(Spaced(op)) = 4 /\ Len(Around(op)) = 3 /\ Spaced(op)[4] = op
      /\ \A z \in 1 .. 3 : Around(op)[z] = Spaced(op)[z]
      /\ \A z \in 1 .. 4 : HasForm(Spaced(op)[z], S, op, z)
  BY FormsAre
<1>2. ASSUME NEW z \in 1 .. 4, NEW y \in Places(Spaced(op)[z], s) PROVE y <= n
  <2>1. PICK F : F = Spaced(op)[z] /\ HasForm(F, S, op, z)
    BY <1>1
  <2>2. y \in Nat \ {0} /\ Occurs(F, s, y)
    BY <2>1 DEF Places
  <2>3. /\ Occurs(op, s, y + Lead(z)) /\ y + Lead(z) + Len(op) - 1 + Trail(z) <= Len(s)
    BY <2>1, <2>2, OccursInside
  <2>4. PICK l \in {0, 1}, t \in {0, 1}, w \in Nat \ {0}, e \in Nat :
            l = Lead(z) /\ t = Trail(z) /\ w = Len(op) /\ e = Len(s)
    BY DEF Lead, Trail
  <2>5. y + l <= e /\ y + l \in Nat
    BY <2>2, <2>3, <2>4
  <2>6. y + l \notin n + 1 .. e
    BY <2>3, <2>4
  <2> QED
    BY <2>2, <2>4, <2>5, <2>6
<1>3. CASE cut = CutAtForm(s, Spaced(op))
  <2>1. PICK forms : forms = Spaced(op)
    OBVIOUS
  <2>2. \A z \in 1 .. Len(forms) : \A y \in Places(forms[z], s) : y <= n
    BY <1>1, <1>2, <2>1
  <2> QED
    BY <1>3, <2>1, <2>2, FormNotFound
<1>4. CASE op = <<ch>> /\ cut = CutAtOperator(s, ch)
  <2>1. PICK forms : forms = Around(op)
    OBVIOUS
  <2>2. PICK spaced : spaced = CutAtForm(s, forms)
    OBVIOUS
  <2>3. PICK P : P = Places(op, s)
    OBVIOUS
  <2>4. cut = IF spaced.after # <<>> \/ P = {} THEN spaced ELSE CutAt(s, Greatest(P), op)
    BY <1>4, <2>1, <2>2, <2>3, Zenon DEF CutAtOperator
  <2>5. P \in SUBSET (0 .. Len(s)) /\ P \subseteq 1 .. Len(s) /\ \A y \in P : y <= n
    <3>1. \A y \in Places(Spaced(op)[4], s) : y <= n
      BY <1>2
    <3> QED
      BY <1>1, <2>3, <3>1 DEF Places
  <2>6. \A z \in 1 .. Len(forms) : \A y \in Places(forms[z], s) : y <= n
    <3> SUFFICES ASSUME NEW z \in 1 .. 3, NEW y \in Places(forms[z], s) PROVE y <= n
      BY <1>1, <2>1
    <3>1. z \in 1 .. 4 /\ y \in Places(Spaced(op)[z], s)
      BY <1>1, <2>1
    <3> QED
      BY <1>2, <3>1
  <2>7. spaced = NoCut(s) \/ Short(spaced, n)
    BY <2>2, <2>6, FormNotFound
  <2>8. CASE P # {} /\ spaced.after = <<>>
    <3>1. cut = CutAt(s, Greatest(P), op)
      BY <2>4, <2>8
    <3>2. PICK m \in P : \A y \in P : m >= y
      <4>1. Len(s) \in Nat
        OBVIOUS
      <4> QED
        BY <2>5, <2>8, <4>1, GreatestExists
    <3>3. Greatest(P) \in P
      BY <3>2, Zenon DEF Greatest
    <3>4. Greatest(P) \in 1 .. Len(s) /\ Greatest(P) <= n
      BY <2>5, <3>3
    <3> QED
      BY <3>1, <3>4, CutShort
  <2> QED
    BY <2>4, <2>7, <2>8
<1> QED
  BY <1>3, <1>4

LEMMA FormChars ==
    ASSUME NEW S, NEW op, NEW ch, Repeats(op, ch, S), NEW x \in 1 .. 4, NEW F,
           HasForm(F, S, op, x)
    PROVE  F \in Seq(S) /\ \A y \in 1 .. Len(F) : F[y] \in {Space, ch}
<1>1. PICK w \in {1, 2}, l \in {0, 1}, t \in {0, 1} : w = Len(op) /\ l = Lead(x) /\ t = Trail(x)
  BY DEF Repeats, Lead, Trail
<1>2. /\ F \in Seq(S) /\ Len(F) = l + w + t
      /\ \A y \in 1 .. w : F[l + y] = ch
      /\ l = 1 => F[1] = Space
      /\ t = 1 => F[Len(F)] = Space
  BY <1>1 DEF HasForm, Repeats
<1>3. ASSUME NEW y \in 1 .. Len(F) PROVE F[y] \in {Space, ch}
  <2>1. CASE l < y /\ y <= l + w
    <3>1. y - l \in 1 .. w /\ y = l + (y - l)
      BY <2>1
    <3> QED
      BY <1>2, <3>1
  <2>2. CASE ~(l < y /\ y <= l + w)
    <3>1. (l = 1 /\ y = 1) \/ (t = 1 /\ y = Len(F))
      BY <1>2, <2>2
    <3> QED
      BY <1>2, <3>1
  <2> QED
    BY <2>1, <2>2
<1> QED
  BY <1>2, <1>3

(* A part of a statement, if it is there. *)
PartOf(t, S, n, u, op, ch, x, file, chars) ==
    /\ u \in Seq(S) /\ Space \in S /\ x \in 1 .. 4 /\ n \in 0 .. Len(u)
    /\ ch # Space /\ Space \notin chars /\ Tidy(u, n, chars)
    /\ Repeats(op, ch, S) /\ (file = <<>> \/ \E f \in Seq(S) : file = <<f>> /\ Named(f, chars \cup {ch}))
    /\ t = u \o Redirected(op, file, x)

LEMMA PartIs ==
    ASSUME NEW t, NEW S, NEW n, NEW u, NEW op, NEW ch, NEW x, NEW file, NEW chars,
           PartOf(t, S, n, u, op, ch, x, file, chars)
    PROVE  /\ t \in Seq(S) /\ n \in 0 .. Len(t)
           /\ file = <<>> => t = u
           /\ ch \notin chars => Tidy(t, n, chars)
           /\ file # <<>> /\ ch \in chars => Written(t, S, n, u, op, ch, x, file[1])
<1>1. CASE file = <<>>
  <2>1. u \in Seq(S) /\ t = u \o <<>> /\ n \in 0 .. Len(u) /\ Tidy(u, n, chars)
    BY <1>1 DEF PartOf, Redirected
  <2>2. t = u
    BY <2>1
  <2> QED
    BY <1>1, <2>1, <2>2
<1>2. CASE file # <<>>
  <2>1. PICK f \in Seq(S) : file = <<f>> /\ Named(f, chars \cup {ch})
    BY <1>2 DEF PartOf
  <2>2. PICK F : F = Spaced(op)[x]
    OBVIOUS
  <2>3. file[1] = f /\ t = u \o (F \o f)
    BY <1>2, <2>1, <2>2 DEF PartOf, Redirected
  <2>4. /\ u \in Seq(S) /\ Space \in S /\ x \in 1 .. 4 /\ op \in Seq(S) /\ n \in 0 .. Len(u)
        /\ ch # Space /\ Space \notin chars /\ Tidy(u, n, chars) /\ Repeats(op, ch, S)
    BY DEF PartOf, Repeats
  <2>5. HasForm(F, S, op, x)
    BY <2>2, <2>4, FormsAre
  <2>6. F \in Seq(S) /\ \A y \in 1 .. Len(F) : F[y] \in {Space, ch}
    BY <2>4, <2>5, FormChars
  <2>7. Parts(t, S, u, F, f)
    BY <2>3, <2>4, <2>6, PartsAre
  <2>8. PICK a \in Nat, b \in Nat, c \in Nat : a = Len(u) /\ b = Len(F) /\ c = Len(f)
    BY <2>4, <2>6
  <2>9. /\ t \in Seq(S) /\ Len(t) = a + b + c
        /\ \A y \in 1 .. a : t[y] = u[y]
        /\ \A y \in 1 .. b : t[a + y] = F[y]
        /\ \A y \in 1 .. c : t[a + b + y] = f[y]
    BY <2>7, <2>8 DEF Parts
  <2>10. c >= 1 /\ f[c] # Space /\ \A y \in 1 .. c : f[y] \notin chars /\ f[y] # ch
    <3>1. DOMAIN f = 1 .. c /\ c # 0
      BY <2>1, <2>8 DEF Named
    <3> QED
      BY <2>1, <2>8, <3>1 DEF Named
  <2>11. n \in 0 .. Len(t)
    BY <2>4, <2>8, <2>9
  <2>12. ASSUME ch \notin chars PROVE Tidy(t, n, chars)
    <3>1. ASSUME NEW y \in n + 1 .. Len(t) PROVE t[y] \notin chars
      <4>0. y \in Int /\ n + 1 <= y /\ y <= a + b + c /\ n \in Nat
        BY <2>4, <2>8, <2>9
      <4>1. CASE y <= a
        <5>1. y \in 1 .. a /\ y \in n + 1 .. a
          BY <4>0, <4>1
        <5> QED
          BY <2>4, <2>8, <2>9, <5>1 DEF Tidy
      <4>2. CASE a < y /\ y <= a + b
        <5>1. PICK z \in 1 .. b : z = y - a
          BY <4>0, <4>2
        <5>2. y = a + z
          BY <4>0, <5>1
        <5> QED
          BY <2>4, <2>6, <2>8, <2>9, <2>12, <5>2
      <4>3. CASE y > a + b
        <5>1. PICK z \in 1 .. c : z = y - (a + b)
          BY <4>0, <4>3
        <5>2. y = a + b + z
          BY <4>0, <5>1
        <5> QED
          BY <2>9, <2>10, <5>2
      <4> QED
        BY <4>0, <4>1, <4>2, <4>3
    <3>2. t[Len(t)] # Space
      <4>1. c \in 1 .. c
        BY <2>10
      <4> QED
        BY <2>9, <2>10, <4>1
    <3> QED
      BY <3>1, <3>2 DEF Tidy
  <2>13. ASSUME ch \in chars PROVE Written(t, S, n, u, op, ch, x, f)
    <3>1. Tidy(u, n, {ch}) /\ Named(f, {ch})
      BY <2>1, <2>4, <2>13 DEF Tidy, Named
    <3> QED
      BY <2>2, <2>3, <2>4, <3>1 DEF Written
  <2> QED
    BY <1>2, <2>3, <2>9, <2>11, <2>12, <2>13
<1> QED
  BY <1>1, <1>2

(* The part is cut out. *)
LEMMA PartCut ==
    ASSUME NEW t, NEW S, NEW n, NEW u, NEW op, NEW ch, NEW x, NEW file, NEW chars,
           PartOf(t, S, n, u, op, ch, x, file, chars), ch \in chars, NEW cut,
           cut = CutAtForm(t, Spaced(op)) \/ (op = <<ch>> /\ cut = CutAtOperator(t, ch))
    PROVE  cut = [before |-> u, after |-> file] \/ Short(cut, n)
<1>1. CASE file = <<>>
  <2>1. t \in Seq(S) /\ t = u
    BY <1>1, PartIs
  <2>2. /\ n \in 0 .. Len(u) /\ Space \in S /\ op \in Seq(S) /\ Len(op) \in {1, 2}
        /\ op[1] = ch /\ \A y \in n + 1 .. Len(u) : u[y] # ch
    BY DEF PartOf, Repeats, Tidy
  <2>3. n \in Nat /\ op # <<>>
    BY <2>2
  <2>4. ASSUME NEW y \in n + 1 .. Len(t), Occurs(op, t, y) PROVE FALSE
    <3>1. y \in Nat \ {0}
      BY <2>1, <2>3
    <3>2. \A z \in 1 .. Len(op) : t[y + z - 1] = op[z]
      BY <2>1, <2>2, <2>4, <3>1, OccursIs
    <3>3. 1 \in 1 .. Len(op) /\ y + 1 - 1 = y
      BY <2>2, <3>1
    <3> QED
      BY <2>1, <2>2, <3>2, <3>3
  <2>5. cut = NoCut(t) \/ Short(cut, n)
    BY <2>1, <2>2, <2>3, <2>4, NotWritten
  <2> QED
    BY <1>1, <2>1, <2>5 DEF NoCut
<1>2. CASE file # <<>>
  <2>1. PICK f : file = <<f>>
    BY <1>2 DEF PartOf
  <2>2. Written(t, S, n, u, op, ch, x, f)
    BY <1>2, <2>1, PartIs
  <2> QED
    BY <2>1, <2>2, WrittenFound
<1> QED
  BY <1>1, <1>2

LEMMA TrimEndShorter ==
    ASSUME NEW S, NEW s \in Seq(S)
    PROVE  Len(TrimEnd(s)) <= Len(s)
<1> DEFINE I == {x \in 1 .. Len(s) : NotSpace(s[x])}
<1>1. Len(s) \in Nat /\ I \in SUBSET (0 .. Len(s))
  OBVIOUS
<1>2. SelectLastInSeq(s, NotSpace) = IF I # {} THEN Max(I) ELSE 0
  BY Zenon DEF SelectLastInSeq
<1> HIDE DEF I
<1>3. ASSUME I # {} PROVE Max(I) \in I
  <2>1. PICK m \in I : \A x \in I : m >= x
    BY <1>1, <1>3, GreatestExists
  <2> QED
    BY <2>1, Zenon DEF Max
<1>4. PICK m \in 0 .. Len(s) : m = SelectLastInSeq(s, NotSpace)
  <2>1. CASE I = {}
    BY <1>1, <1>2, <2>1
  <2>2. CASE I # {}
    BY <1>1, <1>2, <1>3, <2>2
  <2> QED
    BY <2>1, <2>2
<1>5. Len(SubSeq(s, 1, m)) = m
  BY <1>4
<1> QED
  BY <1>1, <1>4, <1>5 DEF TrimEnd

Signs == {"|", "<", ">"}

LEMMA OptionalIs ==
    ASSUME NEW S, FileNames \subseteq Seq(S), NEW file \in Optional
    PROVE  file = <<>> \/ \E f \in Seq(S) : file = <<f>> /\ Named(f, Signs)
<1>1. CASE file # <<>>
  <2>1. PICK f \in FileNames : file = <<f>>
    BY <1>1 DEF Optional
  <2>2. f # <<>> /\ NotSpace(f[1]) /\ NotSpace(f[Len(f)]) /\ ToSet(f) \cap Signs = {}
    BY CliParserAssumption DEF Signs
  <2>3. \A y \in DOMAIN f : f[y] \notin Signs
    BY <2>2 DEF ToSet
  <2> QED
    BY <2>1, <2>2, <2>3 DEF Named, NotSpace
<1> QED
  BY <1>1

LEMMA SignsAre ==
    /\ Space \notin Signs /\ "|" # "<" /\ "|" # ">" /\ "<" # ">"
    /\ "|" # Space /\ "<" # Space /\ ">" # Space
  BY DEF Signs, Space

LEMMA SignsRepeat ==
    ASSUME NEW S, NEW ch \in S
    PROVE  Repeats(<<ch>>, ch, S) /\ Repeats(<<ch, ch>>, ch, S)
  BY DEF Repeats

(* A command and what is written after it. *)
WithWays(c, pipe, xp, input, xi, output, append, xo) ==
    c \o Redirected(<<"|">>, pipe, xp) \o Redirected(<<"<">>, input, xi)
      \o Redirected(IF append THEN AppendTo ELSE <<">">>, output, xo)

(* The pipe, the input and the output written after a command are those     *)
(* that Redirect returns, if it returns the command, and it does if there   *)
(* is no operator in it.                                                    *)
Writes(S, s, c, pipe, xp, input, xi, output, append, xo) ==
    /\ Signs \subseteq S /\ Space \in S /\ FileNames \subseteq Seq(S) /\ c \in Seq(S)
    /\ pipe \in Optional /\ input \in Optional /\ output \in Optional
    /\ append \in BOOLEAN /\ append => output # <<>>
    /\ xp \in 1 .. 4 /\ xi \in 1 .. 4 /\ xo \in 1 .. 4
    /\ s = WithWays(c, pipe, xp, input, xi, output, append, xo)
    /\ Redirect(s).command = c \/ Plain(c)

LEMMA RedirectIs ==
    ASSUME NEW S, NEW s, NEW c, NEW pipe, NEW xp, NEW input, NEW xi, NEW output, NEW append,
           NEW xo, Writes(S, s, c, pipe, xp, input, xi, output, append, xo)
    PROVE  Redirect(s) = [command |-> c, pipe |-> pipe, input |-> input,
                          output |-> output, append |-> append]
<1> USE DEF Writes
<1>1. PICK n \in 0 .. Len(c) :
          /\ Tidy(c, n, Signs)
          /\ (Redirect(s).command = c /\ n = Len(c)) \/ (Plain(c) /\ n = 0)
  <2>1. Len(c) \in Nat
    OBVIOUS
  <2>2. Len(c) \in 0 .. Len(c) /\ 0 \in 0 .. Len(c) /\ Tidy(c, Len(c), Signs)
    BY <2>1 DEF Tidy
  <2>3. ASSUME Plain(c) PROVE Tidy(c, 0, Signs)
    <3>1. DOMAIN c = 0 + 1 .. Len(c) /\ Len(c) > 0
      BY <2>1, <2>3 DEF Plain
    <3>2. \A y \in DOMAIN c : c[y] \notin Signs
      BY <2>3 DEF Plain, Signs, ToSet
    <3> QED
      BY <2>3, <3>1, <3>2 DEF Plain, Tidy
  <2> QED
    BY <2>2, <2>3
<1>2. /\ "|" \in S /\ "<" \in S /\ ">" \in S /\ "|" \in Signs /\ "<" \in Signs /\ ">" \in Signs
  BY DEF Signs
<1>3. PICK op : op = IF append THEN AppendTo ELSE <<">">>
  OBVIOUS
<1>4. /\ Repeats(<<"|">>, "|", S) /\ Repeats(<<"<">>, "<", S)
      /\ Repeats(op, ">", S) /\ Repeats(AppendTo, ">", S)
  BY <1>2, <1>3, SignsRepeat DEF AppendTo
<1>5. PICK P : P = c \o Redirected(<<"|">>, pipe, xp)
  OBVIOUS
<1>6. PICK Q : Q = P \o Redirected(<<"<">>, input, xi)
  OBVIOUS
<1>7. s = Q \o Redirected(op, output, xo)
  BY <1>3, <1>5, <1>6 DEF WithWays
<1>8. \A file \in Optional, ch \in Signs, chars \in SUBSET Signs :
          file = <<>> \/ \E f \in Seq(S) : file = <<f>> /\ Named(f, chars \cup {ch})
  <2> SUFFICES ASSUME NEW file \in Optional, NEW ch \in Signs, NEW chars \in SUBSET Signs,
                      file # <<>>
               PROVE  \E f \in Seq(S) : file = <<f>> /\ Named(f, chars \cup {ch})
    OBVIOUS
  <2>1. PICK f \in Seq(S) : file = <<f>> /\ Named(f, Signs)
    BY OptionalIs
  <2>2. Named(f, chars \cup {ch})
    BY <2>1 DEF Named
  <2> QED
    BY <2>1, <2>2
<1>9. Tidy(c, n, Signs) /\ n \in 0 .. Len(c) /\ n \in Nat
  BY <1>1
<1>10. \A chars \in SUBSET Signs : PartOf(P, S, n, c, <<"|">>, "|", xp, pipe, chars)
  <2> SUFFICES ASSUME NEW chars \in SUBSET Signs PROVE PartOf(P, S, n, c, <<"|">>, "|", xp, pipe, chars)
    OBVIOUS
  <2>1. Tidy(c, n, chars) /\ Space \notin chars
    BY <1>9, SignsAre DEF Tidy
  <2>2. pipe = <<>> \/ \E f \in Seq(S) : pipe = <<f>> /\ Named(f, chars \cup {"|"})
    BY <1>2, <1>8
  <2> QED
    BY <1>4, <1>5, <1>9, <2>1, <2>2, SignsAre DEF PartOf
<1>11. P \in Seq(S) /\ n \in 0 .. Len(P) /\ Tidy(P, n, {"<", ">"})
  <2>1. PartOf(P, S, n, c, <<"|">>, "|", xp, pipe, {"<", ">"}) /\ "|" \notin {"<", ">"}
    BY <1>2, <1>10, SignsAre
  <2> QED
    BY <2>1, PartIs
<1>12. \A chars \in SUBSET {"<", ">"} : PartOf(Q, S, n, P, <<"<">>, "<", xi, input, chars)
  <2> SUFFICES ASSUME NEW chars \in SUBSET {"<", ">"}
               PROVE  PartOf(Q, S, n, P, <<"<">>, "<", xi, input, chars)
    OBVIOUS
  <2>1. Tidy(P, n, chars) /\ Space \notin chars /\ chars \in SUBSET Signs
    BY <1>2, <1>11, SignsAre DEF Tidy
  <2>2. input = <<>> \/ \E f \in Seq(S) : input = <<f>> /\ Named(f, chars \cup {"<"})
    BY <1>2, <1>8, <2>1
  <2> QED
    BY <1>4, <1>6, <1>11, <2>1, <2>2, SignsAre DEF PartOf
<1>13. Q \in Seq(S) /\ n \in 0 .. Len(Q) /\ Tidy(Q, n, {">"})
  <2>1. PartOf(Q, S, n, P, <<"<">>, "<", xi, input, {">"}) /\ "<" \notin {">"}
    BY <1>12, SignsAre
  <2> QED
    BY <2>1, PartIs
<1>14. PartOf(s, S, n, Q, op, ">", xo, output, {">"})
  <2>1. output = <<>> \/ \E f \in Seq(S) : output = <<f>> /\ Named(f, {">"} \cup {">"})
    BY <1>2, <1>8
  <2> QED
    BY <1>4, <1>7, <1>13, <2>1, SignsAre DEF PartOf
<1>15. s \in Seq(S)
  BY <1>14, PartIs
<1>16. PICK A : A = CutAtForm(s, Spaced(AppendTo))
  OBVIOUS
<1>17. PICK O : O = IF A.after # <<>> THEN A ELSE CutAtOperator(s, ">")
  OBVIOUS
<1>18. PICK I : I = CutAtOperator(O.before, "<")
  OBVIOUS
<1>19. PICK B : B = CutAtOperator(I.before, "|")
  OBVIOUS
<1>20. Redirect(s) = [command |-> TrimEnd(B.before), pipe |-> B.after, input |-> I.after,
                      output |-> O.after, append |-> A.after # <<>>]
  BY <1>16, <1>17, <1>18, <1>19, Zenon DEF Redirect, Spaced
(* No cut leaves less than the command. *)
<1>21. /\ O.before \in Seq(S) /\ I.before \in Seq(S) /\ B.before \in Seq(S)
       /\ Len(I.before) <= Len(O.before) /\ Len(B.before) <= Len(I.before)
       /\ n <= Len(B.before)
  <2>1. O.before \in Seq(S)
    BY <1>15, <1>16, <1>17, CutBefore DEF CutOf
  <2>2. I.before \in Seq(S) /\ Len(I.before) <= Len(O.before)
    BY <1>18, <2>1, CutBefore DEF CutOf
  <2>3. B.before \in Seq(S) /\ Len(B.before) <= Len(I.before)
    BY <1>19, <2>2, CutBefore DEF CutOf
  <2>4. CASE Redirect(s).command = c /\ n = Len(c)
    <3>1. c = TrimEnd(B.before)
      BY <1>20, <2>4
    <3> QED
      BY <2>1, <2>2, <2>3, <2>4, <3>1, TrimEndShorter
  <2>5. CASE n = 0
    BY <2>1, <2>2, <2>3, <2>5
  <2> QED
    BY <1>1, <2>4, <2>5
<1>22. ~Short(O, n) /\ ~Short(I, n) /\ ~Short(B, n)
  <2>1. Len(O.before) \in Nat /\ Len(I.before) \in Nat /\ Len(B.before) \in Nat
    BY <1>21
  <2> QED
    BY <1>9, <1>21, <2>1 DEF Short
<1>23. O = [before |-> Q, after |-> output] /\ append = (A.after # <<>>)
  <2>1. CASE append
    <3>1. op = AppendTo
      BY <1>3, <2>1
    <3>2. A = [before |-> Q, after |-> output] \/ Short(A, n)
      BY <1>14, <1>16, <3>1, PartCut
    <3>3. A.after # <<>>
      BY <2>1, <3>2 DEF Short
    <3> QED
      BY <1>17, <1>22, <2>1, <3>2, <3>3
  <2>2. CASE ~append
    <3>1. op = <<">">>
      BY <1>3, <2>2
    <3>2. ASSUME NEW y \in n + 1 .. Len(s), Occurs(AppendTo, s, y) PROVE FALSE
      <4>1. y \in Nat \ {0} /\ AppendTo \in Seq(S) /\ Len(AppendTo) = 2
            /\ AppendTo[1] = ">" /\ AppendTo[2] = ">"
        BY <1>2 DEF AppendTo
      <4>2. /\ y + Len(AppendTo) - 1 <= Len(s)
            /\ \A z \in 1 .. Len(AppendTo) : s[y + z - 1] = AppendTo[z]
        <5>1. PICK o \in Seq(S) : o = AppendTo
          BY <4>1
        <5>2. /\ y + Len(o) - 1 <= Len(s)
              /\ \A z \in 1 .. Len(o) : s[y + z - 1] = o[z]
          <6>1. Occurs(o, s, y)
            BY <3>2, <5>1
          <6> QED
            BY <1>15, <4>1, <6>1, OccursIs
        <5> QED
          BY <5>1, <5>2
      <4>3. s[y] = ">" /\ s[y + 1] = ">" /\ y + 1 \in n + 1 .. Len(s)
        <5>1. s[y + 1 - 1] = ">" /\ s[y + 2 - 1] = ">" /\ y + 1 <= Len(s)
          BY <4>1, <4>2
        <5>2. y + 1 - 1 = y /\ y + 2 - 1 = y + 1 /\ Len(s) \in Nat
          BY <1>15, <4>1
        <5> QED
          BY <5>1, <5>2
      <4>4. CASE output = <<>>
        <5>1. s = Q
          BY <1>14, <4>4, PartIs
        <5> QED
          BY <1>13, <4>3, <5>1 DEF Tidy
      <4>5. CASE output # <<>>
        <5>1. Written(s, S, n, Q, op, ">", xo, output[1])
          BY <1>14, <4>5, PartIs
        <5>2. PICK q : q = Len(Q) + Lead(xo) + 1
          OBVIOUS
        <5>3. q \in Nat /\ \A z \in n + 1 .. Len(s) : s[z] = ">" <=> z \in q .. q + Len(op) - 1
          BY <5>1, <5>2, WrittenChars
        <5>4. Len(op) = 1
          BY <3>1
        <5>5. y \in q .. q + 1 - 1 /\ y + 1 \in q .. q + 1 - 1
          BY <4>3, <5>3, <5>4
        <5> QED
          BY <4>1, <5>3, <5>5
      <4> QED
        BY <4>4, <4>5
    <3>3. A = NoCut(s) \/ Short(A, n)
      <4>1. AppendTo \in Seq(S) /\ AppendTo # <<>>
        BY <1>2 DEF AppendTo
      <4> HIDE DEF AppendTo
      <4> QED
        BY <1>9, <1>15, <1>16, <3>2, <4>1, NotWritten
    <3>4. A = NoCut(s)
      BY <1>17, <1>22, <3>3 DEF Short
    <3>5. A.after = <<>> /\ O = CutAtOperator(s, ">")
      BY <1>17, <3>4 DEF NoCut
    <3>6. O = [before |-> Q, after |-> output] \/ Short(O, n)
      BY <1>14, <3>1, <3>5, PartCut
    <3>7. O = [before |-> Q, after |-> output]
      BY <1>22, <3>6
    <3>8. append = FALSE /\ (A.after # <<>>) = FALSE
      BY <2>2, <3>5
    <3> QED
      BY <3>7, <3>8
  <2> QED
    BY <2>1, <2>2
<1>24. I = [before |-> P, after |-> input]
  <2>1. PartOf(Q, S, n, P, <<"<">>, "<", xi, input, {"<"}) /\ I = CutAtOperator(Q, "<")
    BY <1>12, <1>18, <1>23
  <2>2. I = [before |-> P, after |-> input] \/ Short(I, n)
    BY <2>1, PartCut
  <2> QED
    BY <1>22, <2>2
<1>25. B = [before |-> c, after |-> pipe]
  <2>1. PartOf(P, S, n, c, <<"|">>, "|", xp, pipe, {"|"}) /\ B = CutAtOperator(P, "|")
    BY <1>2, <1>10, <1>19, <1>24
  <2>2. B = [before |-> c, after |-> pipe] \/ Short(B, n)
    BY <2>1, PartCut
  <2> QED
    BY <1>22, <2>2
<1>26. TrimEnd(B.before) = c
  <2>1. Plain(c) => TrimEnd(c) = c
    BY TrimEndIs DEF Plain
  <2> QED
    BY <1>1, <1>20, <1>25, <2>1
<1> QED
  BY <1>20, <1>23, <1>24, <1>25, <1>26

-----------------------------------------------------------------------------
(* Reading on.  W are the words before what the scanner has read.           *)
After(W, s) == [s EXCEPT !.words = W \o @]

LEMMA StartIs ==
    /\ LexStart \in LexState
    /\ LexStart.words = <<>> /\ LexStart.cur = <<>> /\ LexStart.quote = ""
    /\ LexStart.inWord = FALSE /\ LexStart.escaped = FALSE
<1>1. LexStart \in LexState
  BY TextAppend DEF LexState, LexStart
<1>2. /\ LexStart.words = <<>> /\ LexStart.cur = <<>> /\ LexStart.quote = ""
      /\ LexStart.inWord = FALSE /\ LexStart.escaped = FALSE
  BY DEF LexStart
<1> QED
  BY <1>1, <1>2

LEMMA AfterIs ==
    ASSUME NEW W \in Seq(Text), NEW s \in LexState
    PROVE  After(W, s) = [words |-> W \o s.words, cur |-> s.cur, inWord |-> s.inWord,
                          escaped |-> s.escaped, quote |-> s.quote]
<1> DEFINE ws == W \o s.words
<1>1. After(W, s) = [s EXCEPT !.words = ws]
  BY DEF After
<1> HIDE DEF ws
<1>2. s = [words |-> s.words, cur |-> s.cur, inWord |-> s.inWord, escaped |-> s.escaped,
           quote |-> s.quote]
  BY DEF LexState
<1>3. [s EXCEPT !.words = ws] = [words |-> ws, cur |-> s.cur, inWord |-> s.inWord,
                                 escaped |-> s.escaped, quote |-> s.quote]
  BY ONLY <1>2
<1> QED
  BY <1>1, <1>3 DEF ws

LEMMA StepAfter ==
    ASSUME NEW W \in Seq(Text), NEW s \in LexState, NEW ch \in Char
    PROVE  LexStep(After(W, s), ch) = After(W, LexStep(s, ch))
<1> DEFINE a == After(W, s)
<1>1. /\ s.words \in Seq(Text) /\ s.cur \in Text
      /\ W \o s.words \in Seq(Text)
      /\ W \o Append(s.words, s.cur) = Append(W \o s.words, s.cur)
  <2>1. s.words \in Seq(Text) /\ s.cur \in Text
    BY DEF LexState
  <2>2. W \o Append(s.words, s.cur) = Append(W \o s.words, s.cur)
    <3> HIDE DEF Text
    <3> QED
      BY <2>1, AppendConcat
  <2> QED
    BY <2>1, <2>2
<1>2. s = [words |-> s.words, cur |-> s.cur, inWord |-> s.inWord, escaped |-> s.escaped,
           quote |-> s.quote]
  BY DEF LexState
<1>3. a = [words |-> W \o s.words, cur |-> s.cur, inWord |-> s.inWord,
           escaped |-> s.escaped, quote |-> s.quote]
  BY AfterIs
<1>4. Take(a, ch) = After(W, Take(s, ch))
  BY <1>2, <1>3 DEF Take, After
<1>5. Escaped(a) = After(W, Escaped(s))
  BY <1>2, <1>3 DEF Escaped, After
<1>6. Opened(a, ch) = After(W, Opened(s, ch))
  BY <1>2, <1>3 DEF Opened, After
<1>7. Closed(a) = After(W, Closed(s))
  BY <1>2, <1>3 DEF Closed, After
<1>8. WordEnded(a) = After(W, WordEnded(s))
  BY <1>1, <1>3 DEF WordEnded, LexStart, After
<1>9. a.escaped = s.escaped /\ a.quote = s.quote /\ a.inWord = s.inWord
  BY <1>3
<1> HIDE DEF a
<1>10. LexStep(a, ch) = After(W, LexStep(s, ch))
  BY <1>4, <1>5, <1>6, <1>7, <1>8, <1>9 DEF LexStep, a
<1> QED
  BY <1>10 DEF a

(* Between two words nothing is kept. *)
Idle(s) == s.inWord \/ (s.cur = <<>> /\ ~s.escaped /\ s.quote = "")

LEMMA IdleScanner ==
    ASSUME NEW text \in Text
    PROVE  Idle(Scan(text))
<1> DEFINE N == Len(text)
           Part(n) == SubSeq(text, 1, n)
           Good == {n \in 0 .. N : Idle(Scan(Part(n)))}
<1>1. N \in Nat /\ text \in Seq(Char) /\ \A n \in 1 .. N : text[n] \in Char
  BY DEF Text
<1>2. \A n \in 0 .. N : Part(n) \in Text
  BY <1>1, PrefixesOf DEF Text
<1>3. 0 \in Good
  <2>1. Part(0) = <<>>
    BY <1>1, PrefixesOf
  <2>2. Idle(Scan(<<>>))
    BY ScanNothing, StartIs DEF Idle
  <2>3. 0 \in 0 .. N
    BY <1>1
  <2> QED
    BY <2>1, <2>2, <2>3
<1>4. ASSUME NEW n \in 1 .. N, n - 1 \in Good PROVE n \in Good
  <2>1. n - 1 \in 0 .. N /\ n \in 0 .. N /\ Part(n - 1) \in Text /\ text[n] \in Char
    BY <1>1, <1>2
  <2>2. Part(n) = Append(Part(n - 1), text[n])
    BY <1>1, PrefixesOf
  <2>3. Scan(Part(n)) = LexStep(Scan(Part(n - 1)), text[n])
    <3> HIDE DEF Part
    <3> QED
      BY <2>1, <2>2, ScanAppend
  <2>4. PICK s \in LexState : s = Scan(Part(n - 1))
    <3> HIDE DEF Part
    <3> QED
      BY <2>1, ScanType
  <2>5. Idle(s)
    BY <1>4, <2>4
  <2>6. Idle(LexStep(s, text[n]))
    <3>1. Idle(Take(s, text[n])) /\ Idle(Escaped(s)) /\ Idle(Opened(s, text[n]))
          /\ Idle(WordEnded(s)) /\ (s.inWord => Idle(Closed(s)))
      BY DEF LexState, Idle, Take, Escaped, Opened, WordEnded, LexStart, Closed
    <3>2. s.quote # "" => s.inWord
      BY <2>5 DEF Idle
    <3> QED
      BY <2>5, <3>1, <3>2 DEF LexStep
  <2> HIDE DEF Part
  <2> QED
    BY <2>1, <2>3, <2>4, <2>6
<1>5. N \in Good
  <2>1. \A n \in 1 .. N : n - 1 \in Good => n \in Good
    BY <1>4
  <2>2. N \in 0 .. N
    BY <1>1
  <2> HIDE DEF Good
  <2>3. 0 .. N \subseteq Good
    BY <1>1, <1>3, <2>1, UpTo
  <2> QED
    BY <2>2, <2>3
<1>6. Part(N) = text
  BY <1>1, PrefixesOf
<1> QED
  BY <1>5, <1>6

(* A space, after text that ends neither in a quote nor with a backslash,   *)
(* ends its last word: what follows is read as if it stood alone.           *)
LEMMA ReadOn ==
    ASSUME NEW v \in Text, NEW t \in Text, Ended(v), t = <<>> \/ t[1] = Space
    PROVE  LexWords(v \o t) = LexWords(v) \o LexWords(t) /\ (Ended(t) => Ended(v \o t))
<1> DEFINE N == Len(t)
           Part(n) == SubSeq(t, 1, n)
           W == LexWords(v)
           Good == {n \in 0 .. N : n # 0 => Scan(v \o Part(n)) = After(W, Scan(Part(n)))}
<1>1. N \in Nat /\ t \in Seq(Char) /\ \A n \in 1 .. N : t[n] \in Char
  BY DEF Text
<1>2. \A n \in 0 .. N : Part(n) \in Text
  BY <1>1, PrefixesOf DEF Text
<1>3. W \in Seq(Text)
  BY ScanType
<1>4. PICK s \in LexState : s = Scan(v)
  BY ScanType
<1>5. s.quote = "" /\ ~s.escaped /\ Idle(s)
  BY <1>4, IdleScanner DEF Ended, LexFails
<1>6. ASSUME NEW n \in 1 .. N
      PROVE  /\ Part(n - 1) \in Text /\ v \o Part(n - 1) \in Text /\ t[n] \in Char
             /\ Scan(Part(n)) = LexStep(Scan(Part(n - 1)), t[n])
             /\ Scan(v \o Part(n)) = LexStep(Scan(v \o Part(n - 1)), t[n])
  <2>1. n - 1 \in 0 .. N /\ n \in 0 .. N /\ Part(n - 1) \in Text /\ t[n] \in Char
    BY <1>1, <1>2
  <2>2. Part(n) = Append(Part(n - 1), t[n])
    BY <1>1, PrefixesOf
  <2> HIDE DEF Part
  <2>3. v \o Part(n - 1) \in Text
    BY <2>1, TextConcat
  <2>4. v \o Append(Part(n - 1), t[n]) = Append(v \o Part(n - 1), t[n])
    BY <2>1, AppendConcat DEF Text
  <2> QED
    BY <2>1, <2>2, <2>3, <2>4, ScanAppend
<1>7. ASSUME N # 0 PROVE 1 \in Good
  <2>1. 1 \in 1 .. N /\ 1 \in 0 .. N /\ t[1] = Space
    <3>1. t # <<>>
      BY <1>7
    <3> QED
      BY <1>1, <1>7, <3>1
  <2>2. Part(0) = <<>> /\ v \o <<>> = v
    <3>1. v \o <<>> = v
      BY NothingConcat DEF Text
    <3> QED
      BY <1>1, <3>1, PrefixesOf
  <2>3. Scan(Part(1)) = LexStep(LexStart, Space) /\ Scan(v \o Part(1)) = LexStep(s, Space)
    <3>1. 1 - 1 = 0
      OBVIOUS
    <3> HIDE DEF Part
    <3> QED
      BY <1>4, <1>6, <2>1, <2>2, <3>1, ScanNothing
  <2>4. Space \notin Quotes /\ Space # Backslash
    BY QuotesAssumption DEF Space, Backslash
  <2>5. LexStep(LexStart, Space) = LexStart
    BY <2>4 DEF LexStep, LexStart
  <2>6. LexStep(s, Space) = IF s.inWord THEN WordEnded(s) ELSE s
    BY <1>5, <2>4 DEF LexStep
  <2>7. W = IF s.inWord THEN Append(s.words, s.cur) ELSE s.words
    BY <1>4 DEF LexWords
  <2>8. W \o <<>> = W
    BY <1>3, NothingConcat
  <2>9. After(W, LexStart) = [words |-> W, cur |-> <<>>, inWord |-> FALSE, escaped |-> FALSE,
                              quote |-> ""]
    <3> HIDE DEF W
    <3> QED
      BY <1>3, <2>8, StartIs, AfterIs
  <2>10. LexStep(s, Space) = After(W, LexStart)
    <3>1. CASE s.inWord
      BY <2>6, <2>7, <2>9, <3>1 DEF WordEnded, LexStart
    <3>2. CASE ~s.inWord
      BY <1>5, <2>6, <2>7, <2>9, <3>2 DEF LexState, Idle
    <3> QED
      BY <3>1, <3>2
  <2> HIDE DEF Part, W
  <2> QED
    BY <2>1, <2>3, <2>5, <2>10
<1>8. ASSUME NEW n \in 1 .. N, n - 1 \in Good PROVE n \in Good
  <2>1. CASE n = 1
    <3>1. N # 0
      BY <1>1, <2>1
    <3> QED
      BY <1>7, <2>1, <3>1
  <2>2. CASE n # 1
    <3>1. n \in 0 .. N /\ n - 1 # 0 /\ t[n] \in Char
      BY <1>1, <2>2
    <3>2. Scan(v \o Part(n - 1)) = After(W, Scan(Part(n - 1)))
      BY <1>8, <3>1
    <3> HIDE DEF Part, W
    <3>3. Scan(Part(n - 1)) \in LexState
      BY <1>6, ScanType
    <3>4. Scan(v \o Part(n)) = After(W, Scan(Part(n)))
      BY <1>3, <1>6, <3>1, <3>2, <3>3, StepAfter
    <3> QED
      BY <3>1, <3>4
  <2> QED
    BY <2>1, <2>2
<1>9. CASE t = <<>>
  <2>1. v \o <<>> = v
    BY NothingConcat DEF Text
  <2>2. LexWords(<<>>) = <<>>
    BY ScanNothing, StartIs DEF LexWords
  <2>3. W \o <<>> = W
    BY <1>3, NothingConcat
  <2>4. LexWords(v \o t) = LexWords(v) \o LexWords(t)
    BY <1>9, <2>1, <2>2, <2>3
  <2>5. v \o t = v
    BY <1>9, <2>1
  <2> QED
    BY <2>4, <2>5
<1>10. CASE t # <<>>
  <2>1. N # 0 /\ N \in 0 .. N
    BY <1>1, <1>10
  <2>2. N \in Good
    <3>1. 0 \in Good
      BY <1>1
    <3>2. \A n \in 1 .. N : n - 1 \in Good => n \in Good
      <4> HIDE DEF Good
      <4> QED
        BY <1>8
    <3> HIDE DEF Good
    <3>3. 0 .. N \subseteq Good
      BY <1>1, <3>1, <3>2, UpTo
    <3> QED
      BY <2>1, <3>3
  <2>3. Part(N) = t
    BY <1>1, PrefixesOf
  <2>4. Scan(v \o t) = After(W, Scan(t))
    BY <2>1, <2>2, <2>3
  <2>5. PICK e \in LexState : e = Scan(t)
    BY ScanType
  <2>6. e.words \in Seq(Text) /\ e.cur \in Text
    BY <2>5 DEF LexState
  <2>7. W \o Append(e.words, e.cur) = Append(W \o e.words, e.cur)
    <3> HIDE DEF W
    <3> QED
      BY <1>3, <2>6, AppendConcat
  <2>8. After(W, e).words = W \o e.words /\ After(W, e).cur = e.cur
        /\ After(W, e).inWord = e.inWord
    BY <2>5 DEF After, LexState
  <2>9. LexWords(v \o t) = W \o LexWords(t)
    <3> HIDE DEF W
    <3> QED
      BY <2>4, <2>5, <2>7, <2>8 DEF LexWords
  <2>10. Ended(t) => Ended(v \o t)
    <3>1. After(W, e).quote = e.quote /\ After(W, e).escaped = e.escaped
      BY <2>5 DEF After, LexState
    <3> HIDE DEF W
    <3> QED
      BY <2>4, <2>5, <3>1 DEF Ended, LexFails
  <2> QED
    BY <2>9, <2>10
<1> QED
  BY <1>9, <1>10

LEMMA WordsAre ==
    ASSUME NEW text \in Text
    PROVE  Words(text) = ExpansionsOf(LexWords(text)) /\ Words(text) \in Seq(Text)
<1>1. PICK ws \in Seq(Text) : ws = LexWords(text)
  BY ScanType
<1>2. Words(text) = FlattenSeq([x \in DOMAIN ws |->
          LET e == ExpandBrace(ws[x]) IN IF e = <<>> THEN <<ws[x]>> ELSE e])
  BY <1>1, Zenon DEF Words
<1>3. ExpansionsOf(ws) = FlattenSeq([x \in DOMAIN ws |->
          LET e == ExpandBrace(ws[x]) IN IF e = <<>> THEN <<ws[x]>> ELSE e])
  BY Zenon DEF ExpansionsOf, Expansions
<1> QED
  BY <1>1, <1>2, <1>3, ExpansionsOfOneMore

LEMMA ExpansionsOfConcat ==
    ASSUME NEW a \in Seq(Text), NEW b \in Seq(Text)
    PROVE  ExpansionsOf(a \o b) = ExpansionsOf(a) \o ExpansionsOf(b)
<1> DEFINE N == Len(b)
           Part(n) == SubSeq(b, 1, n)
           Good == {n \in 0 .. N :
                       ExpansionsOf(a \o Part(n)) = ExpansionsOf(a) \o ExpansionsOf(Part(n))}
<1>1. N \in Nat /\ \A n \in 1 .. N : b[n] \in Text
  OBVIOUS
<1>2. \A n \in 0 .. N : Part(n) \in Seq(Text)
  <2> HIDE DEF Text
  <2> QED
    BY PrefixesOf
<1>3. 0 \in Good
  <2>1. Part(0) = <<>>
    BY PrefixesOf
  <2>2. a \o <<>> = a /\ ExpansionsOf(a) \o <<>> = ExpansionsOf(a)
    <3>1. ExpansionsOf(a) \in Seq(Text)
      BY ExpansionsOfOneMore
    <3> HIDE DEF Text
    <3> QED
      BY <3>1, NothingConcat
  <2>3. ExpansionsOf(<<>>) = <<>>
    BY ExpansionsOfOneMore
  <2>4. 0 \in 0 .. N
    BY <1>1
  <2> HIDE DEF Part
  <2> QED
    BY <2>1, <2>2, <2>3, <2>4
<1>4. ASSUME NEW n \in 1 .. N, n - 1 \in Good PROVE n \in Good
  <2>1. n - 1 \in 0 .. N /\ n \in 0 .. N /\ Part(n - 1) \in Seq(Text) /\ b[n] \in Text
    BY <1>1, <1>2
  <2>2. Part(n) = Append(Part(n - 1), b[n])
    <3> HIDE DEF Text
    <3> QED
      BY PrefixesOf
  <2>3. ExpansionsOf(a \o Part(n - 1)) = ExpansionsOf(a) \o ExpansionsOf(Part(n - 1))
    BY <1>4
  <2> HIDE DEF Part, N
  <2>4. a \o Append(Part(n - 1), b[n]) = Append(a \o Part(n - 1), b[n])
        /\ a \o Part(n - 1) \in Seq(Text)
    <3> HIDE DEF Text
    <3>1. a \o Append(Part(n - 1), b[n]) = Append(a \o Part(n - 1), b[n])
      BY <2>1, AppendConcat
    <3>2. a \o Part(n - 1) \in Seq(Text)
      BY <2>1
    <3> QED
      BY <3>1, <3>2
  <2>5. PICK p \in Seq(Text), q \in Seq(Text), r \in Seq(Text) :
            /\ p = ExpansionsOf(a) /\ q = ExpansionsOf(Part(n - 1)) /\ r = Expansions(b[n])
    BY <2>1, ExpansionsOfOneMore, ExpansionsType
  <2>6. (p \o q) \o r = p \o (q \o r)
    <3>1. Associates(p, q, r)
      BY ONLY p \in Seq(Text), q \in Seq(Text), r \in Seq(Text), TextsAssoc
    <3> QED
      BY <3>1 DEF Associates
  <2>7. ExpansionsOf(Append(a \o Part(n - 1), b[n])) = (p \o q) \o r
    BY <2>1, <2>3, <2>4, <2>5, ExpansionsOfOneMore
  <2>8. ExpansionsOf(Append(Part(n - 1), b[n])) = q \o r
    BY <2>1, <2>5, ExpansionsOfOneMore
  <2> QED
    BY <2>1, <2>2, <2>4, <2>5, <2>6, <2>7, <2>8
<1>5. N \in Good
  <2>1. \A n \in 1 .. N : n - 1 \in Good => n \in Good
    <3> HIDE DEF Good
    <3> QED
      BY <1>4
  <2>2. N \in 0 .. N
    BY <1>1
  <2> HIDE DEF Good, N
  <2>3. 0 .. N \subseteq Good
    BY <1>1, <1>3, <2>1, UpTo
  <2> QED
    BY <2>2, <2>3
<1>6. Part(N) = b
  <2> HIDE DEF Text
  <2> QED
    BY PrefixesOf
<1> QED
  BY <1>5, <1>6

(* The arguments as the line of an alias goes on with them: each after a    *)
(* space.                                                                   *)
Spread(ws) == FlattenSeq([x \in DOMAIN ws |-> <<Space>> \o ws[x]])

LEMMA FirstStays ==
    ASSUME NEW E, NEW a \in Seq(E), NEW b \in Seq(E), a # <<>>
    PROVE  a \o b # <<>> /\ (a \o b)[1] = a[1]
<1>1. Len(a) \in Nat \ {0} /\ Len(b) \in Nat /\ Len(a \o b) = Len(a) + Len(b)
  OBVIOUS
<1>2. (a \o b)[1] = a[1]
  BY <1>1
<1>3. a \o b # <<>>
  BY <1>1
<1> QED
  BY <1>2, <1>3

LEMMA SpreadIs ==
    ASSUME NEW given \in Seq(Text)
    PROVE  /\ Spread(given) \in Text
           /\ Spread(given) = <<>> \/ Spread(given)[1] = Space
           /\ \A v : Expanded(v, given) = v \o Spread(given)
           /\ Expanded(<<>>, given) = Spread(given)
<1> DEFINE ss == [x \in DOMAIN given |-> <<Space>> \o given[x]]
<1>1. /\ Len(given) \in Nat /\ DOMAIN given = 1 .. Len(given)
      /\ \A x \in 1 .. Len(given) : given[x] \in Text
  OBVIOUS
<1>2. Space \in Char
  BY DEF Char
<1>3. ASSUME NEW x \in 1 .. Len(given)
      PROVE  ss[x] \in Text /\ ss[x] # <<>> /\ ss[x][1] = Space
  <2>1. given[x] \in Seq(Char)
    BY DEF Text
  <2>2. /\ <<Space>> \o given[x] \in Seq(Char) /\ Len(<<Space>> \o given[x]) = 1 + Len(given[x])
        /\ (<<Space>> \o given[x])[1] = Space /\ Len(given[x]) \in Nat
    BY <1>2, <2>1
  <2>3. ss[x] = <<Space>> \o given[x]
    BY <1>1
  <2>4. <<Space>> \o given[x] # <<>>
    BY <2>2
  <2> HIDE DEF ss
  <2> QED
    BY <2>2, <2>3, <2>4 DEF Text
<1>4. ss \in Seq(Text) /\ Len(ss) = Len(given)
  BY <1>1, <1>3
<1>5. Spread(given) = FlattenSeq(ss)
  BY Zenon DEF Spread
<1> HIDE DEF ss
<1>6. Spread(given) \in Text
  BY <1>4, <1>5, FlattenType DEF Text
<1>7. ASSUME ss = <<>> PROVE Spread(given) = <<>>
  BY <1>5, <1>7, Len(<<>>) = 0 DEF FlattenSeq
<1>8. ASSUME ss # <<>> PROVE Spread(given)[1] = Space
  <2>1. PICK f : Flattens(Char, ss, f)
    BY <1>4, <1>8, FlattenIs DEF Text
  <2>2. Len(ss) \in Nat \ {0} /\ Len(ss) \in Nat
    BY <1>4, <1>8
  <2> DEFINE N == Len(ss)
             Good == {n \in 0 .. N : n # 0 => f[n] # <<>> /\ f[n][1] = Space}
  <2>3. f[1] = ss[1] /\ f \in [1 .. N -> Seq(Char)]
        /\ \A x \in 1 .. N : x # 1 => f[x] = f[x - 1] \o ss[x]
    BY <2>1 DEF Flattens
  <2>4. ASSUME NEW n \in 1 .. N, n - 1 \in Good PROVE n \in Good
    <3>0. n \in 0 .. N /\ n \in 1 .. Len(given)
      BY <1>4, <2>2
    <3>1. CASE n = 1
      BY <1>3, <1>4, <2>3, <3>0, <3>1
    <3>2. CASE n # 1
      <4>1. n - 1 \in 1 .. N /\ n - 1 # 0 /\ f[n - 1] # <<>> /\ f[n - 1][1] = Space
        BY <2>2, <2>4, <3>2
      <4>2. f[n - 1] \in Seq(Char) /\ ss[n] \in Seq(Char)
        BY <1>3, <2>3, <3>0, <4>1 DEF Text
      <4> HIDE DEF Good
      <4>3. f[n - 1] \o ss[n] # <<>> /\ (f[n - 1] \o ss[n])[1] = Space
        BY <4>1, <4>2, FirstStays
      <4>4. f[n] = f[n - 1] \o ss[n]
        BY <2>3, <3>2
      <4> QED
        BY <3>0, <4>3, <4>4 DEF Good
    <3> QED
      BY <3>1, <3>2
  <2>5. 0 \in Good
    BY <2>2
  <2>6. \A n \in 1 .. N : n - 1 \in Good => n \in Good
    <3> HIDE DEF Good
    <3> QED
      BY <2>4
  <2>7. N \in Good
    <3>1. N \in 0 .. N
      BY <2>2
    <3> HIDE DEF Good
    <3>2. 0 .. N \subseteq Good
      BY <2>2, <2>5, <2>6, UpTo
    <3> QED
      BY <3>1, <3>2
  <2>8. FlattenSeq(ss) = f[N]
    BY <2>1 DEF Flattens
  <2> QED
    BY <1>5, <2>2, <2>7, <2>8
<1>9. \A v : Expanded(v, given) = v \o Spread(given)
  BY Zenon DEF Expanded, Spread
<1>10. <<>> \o Spread(given) = Spread(given)
  BY <1>6, NothingConcat DEF Text
<1> QED
  BY <1>6, <1>7, <1>8, <1>9, <1>10

LEMMA SpreadOneMore ==
    /\ Spread(<<>>) = <<>>
    /\ \A w \in Text : <<Space>> \o w \in Text
    /\ \A ws \in Seq(Text), w \in Text :
           Spread(Append(ws, w)) = Spread(ws) \o (<<Space>> \o w)
<1> DEFINE Set(ws) == [x \in DOMAIN ws |-> <<Space>> \o ws[x]]
<1>1. \A w \in Text : <<Space>> \o w \in Text
  BY DEF Text, Char
<1>2. Spread(<<>>) = <<>>
  <2>1. Set(<<>>) = <<>>
    OBVIOUS
  <2>2. FlattenSeq(<<>>) = <<>>
    BY Len(<<>>) = 0 DEF FlattenSeq
  <2> QED
    BY <2>1, <2>2, Zenon DEF Spread
<1>3. ASSUME NEW ws \in Seq(Text), NEW w \in Text
      PROVE  Spread(Append(ws, w)) = Spread(ws) \o (<<Space>> \o w)
  <2>1. Set(ws) \in Seq(Text) /\ Set(Append(ws, w)) = Append(Set(ws), <<Space>> \o w)
    <3> DEFINE With(v) == <<Space>> \o v
    <3>1. \A v \in Text : With(v) \in Text
      BY <1>1
    <3> HIDE DEF With, Text
    <3>2. [x \in DOMAIN ws |-> With(ws[x])] \in Seq(Text)
      BY <3>1
    <3>3. [x \in DOMAIN Append(ws, w) |-> With(Append(ws, w)[x])]
              = Append([x \in DOMAIN ws |-> With(ws[x])], With(w))
      BY <3>1
    <3> QED
      BY <3>2, <3>3 DEF With
  <2>2. PICK ss \in Seq(Text), e \in Text : ss = Set(ws) /\ e = <<Space>> \o w
    BY <1>1, <2>1
  <2>3. FlattenSeq(Append(ss, e)) = FlattenSeq(ss) \o e
    BY FlattenAppend DEF Text
  <2>4. Spread(ws) = FlattenSeq(Set(ws)) /\ Spread(Append(ws, w)) = FlattenSeq(Set(Append(ws, w)))
    BY Zenon DEF Spread
  <2> HIDE DEF Set
  <2> QED
    BY <2>1, <2>2, <2>3, <2>4
<1> QED
  BY <1>1, <1>2, <1>3

LEMMA SpreadConcat ==
    ASSUME NEW a \in Seq(Text), NEW b \in Seq(Text)
    PROVE  Spread(a \o b) = Spread(a) \o Spread(b)
<1> DEFINE N == Len(b)
           Part(n) == SubSeq(b, 1, n)
           Good == {n \in 0 .. N : Spread(a \o Part(n)) = Spread(a) \o Spread(Part(n))}
<1>1. N \in Nat /\ \A n \in 1 .. N : b[n] \in Text
  OBVIOUS
<1>2. \A n \in 0 .. N : Part(n) \in Seq(Text)
  <2> HIDE DEF Text
  <2> QED
    BY PrefixesOf
<1>3. 0 \in Good
  <2>1. Part(0) = <<>>
    BY PrefixesOf
  <2>2. a \o <<>> = a /\ Spread(a) \o <<>> = Spread(a)
    <3>1. Spread(a) \in Seq(Char)
      BY SpreadIs DEF Text
    <3>2. a \o <<>> = a
      <4> HIDE DEF Text
      <4> QED
        BY NothingConcat
    <3> QED
      BY <3>1, <3>2, NothingConcat
  <2>3. Spread(<<>>) = <<>>
    BY SpreadOneMore
  <2>4. 0 \in 0 .. N
    BY <1>1
  <2> HIDE DEF Part
  <2> QED
    BY <2>1, <2>2, <2>3, <2>4
<1>4. ASSUME NEW n \in 1 .. N, n - 1 \in Good PROVE n \in Good
  <2>1. n - 1 \in 0 .. N /\ n \in 0 .. N /\ Part(n - 1) \in Seq(Text) /\ b[n] \in Text
    BY <1>1, <1>2
  <2>2. Part(n) = Append(Part(n - 1), b[n])
    <3> HIDE DEF Text
    <3> QED
      BY PrefixesOf
  <2>3. Spread(a \o Part(n - 1)) = Spread(a) \o Spread(Part(n - 1))
    BY <1>4
  <2> HIDE DEF Part, N
  <2>4. a \o Append(Part(n - 1), b[n]) = Append(a \o Part(n - 1), b[n])
        /\ a \o Part(n - 1) \in Seq(Text)
    <3> HIDE DEF Text
    <3>1. a \o Append(Part(n - 1), b[n]) = Append(a \o Part(n - 1), b[n])
      BY <2>1, AppendConcat
    <3>2. a \o Part(n - 1) \in Seq(Text)
      BY <2>1
    <3> QED
      BY <3>1, <3>2
  <2>5. PICK p \in Text, q \in Text, r \in Text :
            p = Spread(a) /\ q = Spread(Part(n - 1)) /\ r = <<Space>> \o b[n]
    BY <2>1, SpreadIs, SpreadOneMore
  <2>6. (p \o q) \o r = p \o (q \o r)
    <3>1. Associates(p, q, r)
      BY ONLY p \in Text, q \in Text, r \in Text, TextAssoc
    <3> QED
      BY <3>1 DEF Associates
  <2>7. Spread(Append(a \o Part(n - 1), b[n])) = (p \o q) \o r
    <3>1. PICK x \in Seq(Text), y \in Text : x = a \o Part(n - 1) /\ y = b[n]
      BY <2>1, <2>4
    <3>2. Spread(Append(x, y)) = Spread(x) \o (<<Space>> \o y)
      BY SpreadOneMore
    <3> QED
      BY <2>3, <2>5, <3>1, <3>2
  <2>8. Spread(Append(Part(n - 1), b[n])) = q \o r
    BY <2>1, <2>5, SpreadOneMore
  <2> QED
    BY <2>1, <2>2, <2>4, <2>5, <2>6, <2>7, <2>8
<1>5. N \in Good
  <2>1. \A n \in 1 .. N : n - 1 \in Good => n \in Good
    <3> HIDE DEF Good
    <3> QED
      BY <1>4
  <2>2. N \in 0 .. N
    BY <1>1
  <2> HIDE DEF Good, N
  <2>3. 0 .. N \subseteq Good
    BY <1>1, <1>3, <2>1, UpTo
  <2> QED
    BY <2>2, <2>3
<1>6. Part(N) = b
  <2> HIDE DEF Text
  <2> QED
    BY PrefixesOf
<1> QED
  BY <1>5, <1>6

(* The words of an alias and of the arguments that follow it.               *)
LEMMA WordsOfExpanded ==
    ASSUME NEW v \in Text, NEW given \in Seq(Text)
    PROVE  /\ Expanded(v, given) \in Text
           /\ Words(v) \in Seq(Text) /\ Words(Expanded(<<>>, given)) \in Seq(Text)
           /\ Ended(v) => Words(Expanded(v, given)) = Words(v) \o Words(Expanded(<<>>, given))
<1>1. PICK t \in Text : t = Spread(given)
  BY SpreadIs
<1>2. Expanded(v, given) = v \o t /\ Expanded(<<>>, given) = t /\ (t = <<>> \/ t[1] = Space)
  BY <1>1, SpreadIs
<1>3. v \o t \in Text
  BY TextConcat
<1>4. Words(v) \in Seq(Text) /\ Words(t) \in Seq(Text)
  BY WordsAre
<1>5. ASSUME Ended(v) PROVE Words(v \o t) = Words(v) \o Words(t)
  <2>1. LexWords(v \o t) = LexWords(v) \o LexWords(t)
    BY <1>2, <1>5, ReadOn
  <2>2. LexWords(v) \in Seq(Text) /\ LexWords(t) \in Seq(Text)
    BY ScanType
  <2> QED
    BY <1>3, <2>1, <2>2, WordsAre, ExpansionsOfConcat
<1> QED
  BY <1>2, <1>3, <1>4, <1>5

(* Words that need no quotes are read again as they stand, whatever words   *)
(* follow.                                                                  *)
LEMMA UnquotedOn ==
    ASSUME NEW a \in Seq(Text), Unquoted(a), NEW b \in Seq(Text)
    PROVE  /\ ReadAgain(b) => ReadAgain(a \o b)
           /\ Unquoted(b) => Unquoted(a \o b)
<1>1. a \o b \in Seq(Text)
  OBVIOUS
<1>2. PICK u \in Text, t \in Text : u = Spread(a) /\ t = Spread(b)
  BY SpreadIs
<1>3. /\ Expanded(<<>>, a) = u /\ Expanded(<<>>, b) = t /\ Expanded(<<>>, a \o b) = Spread(a \o b)
      /\ t = <<>> \/ t[1] = Space
      /\ Expanded(u, b) = u \o t
  BY <1>1, <1>2, SpreadIs
<1>4. Spread(a \o b) = u \o t
  BY <1>2, SpreadConcat
<1>5. Ended(u) /\ Words(u) = a
  BY <1>3 DEF Unquoted, ReadAgain
<1>6. Words(u \o t) = a \o Words(t)
  <2>1. Words(Expanded(u, b)) = Words(u) \o Words(Expanded(<<>>, b))
    BY <1>5, WordsOfExpanded
  <2> QED
    BY <1>3, <1>5, <2>1
<1>7. Ended(t) => Ended(u \o t)
  BY <1>3, <1>5, ReadOn
<1> QED
  BY <1>3, <1>4, <1>6, <1>7 DEF Unquoted, ReadAgain

-----------------------------------------------------------------------------
(* The interpreter's stack.                                                 *)
Frames ==
    [pc : {"statement", "expand", "handling"}, rest : Seq(Text), text : Text,
     redir : {Redirect(s) : s \in Text}, name : Text, argv : Seq(Text), args : Seq(Text),
     parsed : BOOLEAN, expansions : 0 .. MaxExpansions]

Holds(s) == {x \in DOMAIN s : s[x].parsed}

(* The frames of a stack, top excepted, are those of lines whose handlers   *)
(* run.                                                                     *)
Nested(s) ==
    /\ s \in Seq(Frames) /\ Len(s) <= MaxDepth
    /\ \A x \in DOMAIN s : x < Len(s) => s[x].pc = "handling"

LEMMA FrontIs ==
    ASSUME NEW s \in Seq(Frames), s # <<>>
    PROVE  /\ Len(s) \in Nat \ {0} /\ s[Len(s)] \in Frames
           /\ Front(s) \in Seq(Frames) /\ Len(Front(s)) = Len(s) - 1
           /\ \A x \in 1 .. Len(s) - 1 : Front(s)[x] = s[x]
<1>1. Len(s) \in Nat \ {0}
  OBVIOUS
<1>2. s[Len(s)] \in Frames
  BY <1>1
<1>3. Front(s) = SubSeq(s, 1, Len(s) - 1)
  BY DEF Front
<1>4. /\ SubSeq(s, 1, Len(s) - 1) \in Seq(Frames) /\ Len(SubSeq(s, 1, Len(s) - 1)) = Len(s) - 1
      /\ \A x \in 1 .. Len(s) - 1 : SubSeq(s, 1, Len(s) - 1)[x] = s[x]
  <2>1. PICK n \in 0 .. Len(s) : n = Len(s) - 1
    <3>1. \A l \in Nat \ {0} : l - 1 \in 0 .. l
      BY ONLY SMT
    <3>2. Len(s) - 1 \in 0 .. Len(s)
      BY ONLY <1>1, <3>1
    <3> QED
      BY ONLY <3>2, Zenon
  <2>2. SubSeq(s, 1, n) \in Seq(Frames) /\ Len(SubSeq(s, 1, n)) = n
        /\ \A x \in 1 .. n : SubSeq(s, 1, n)[x] = s[x]
    <3> HIDE DEF Frames
    <3> QED
      BY <1>1, PrefixSeq
  <2> QED
    BY <2>1, <2>2
<1> QED
  BY <1>1, <1>2, <1>3, <1>4

LEMMA HoldsTop ==
    ASSUME NEW s \in Seq(Frames), s # <<>>
    PROVE  /\ Cardinality(Holds(Front(s))) \in Nat
           /\ Cardinality(Holds(s)) =
                  Cardinality(Holds(Front(s))) + (IF s[Len(s)].parsed THEN 1 ELSE 0)
<1> DEFINE n == Len(s)
           H == Holds(s)
           G == Holds(Front(s))
<1>1. n \in Nat \ {0} /\ Front(s) \in Seq(Frames) /\ Len(Front(s)) = n - 1
      /\ \A x \in 1 .. n - 1 : Front(s)[x] = s[x]
  BY FrontIs
<1>2. DOMAIN s = 1 .. n /\ DOMAIN Front(s) = 1 .. n - 1
  BY <1>1
<1>3. IsFiniteSet(H)
  <2>1. IsFiniteSet(1 .. n)
    BY <1>1, FS_Interval
  <2>2. H \subseteq 1 .. n
    BY <1>2 DEF Holds
  <2> QED
    BY <2>1, <2>2, FS_Subset
<1>4. G = H \ {n}
  BY <1>1, <1>2 DEF Holds
<1>5. n \in H <=> s[n].parsed
  BY <1>1, <1>2 DEF Holds
<1>6. Cardinality(G) \in Nat /\ Cardinality(G) = IF n \in H THEN Cardinality(H) - 1 ELSE Cardinality(H)
  <2> HIDE DEF G, H, n
  <2>1. IsFiniteSet(H \ {n}) /\ Cardinality(H \ {n}) = IF n \in H THEN Cardinality(H) - 1 ELSE Cardinality(H)
    BY <1>3, FS_RemoveElement
  <2>2. Cardinality(H \ {n}) \in Nat
    BY <2>1, FS_CardinalityType
  <2> QED
    BY <1>4, <2>1, <2>2
<1>7. Cardinality(H) \in Nat
  BY <1>3, FS_CardinalityType
<1> HIDE DEF G, H
<1>8. Cardinality(H) = Cardinality(G) + (IF s[n].parsed THEN 1 ELSE 0)
  BY <1>5, <1>6, <1>7
<1> QED
  BY <1>6, <1>8 DEF G, H, n

(* What SetTop, Return and a call of parse_line do to a stack.              *)
LEMMA ReplacedTop ==
    ASSUME NEW s \in Seq(Frames), s # <<>>, NEW F \in Frames, Nested(s),
           NEW t, t = [s EXCEPT ![Len(s)] = F]
    PROVE  /\ t \in Seq(Frames) /\ t # <<>> /\ Len(t) = Len(s) /\ t[Len(t)] = F
           /\ Front(t) = Front(s)
           /\ Nested(t)
<1>1. Len(s) \in Nat \ {0} /\ DOMAIN s = 1 .. Len(s)
  BY FrontIs
<1>2. t \in Seq(Frames) /\ Len(t) = Len(s) /\ t[Len(s)] = F
      /\ \A x \in 1 .. Len(s) - 1 : t[x] = s[x]
  <2>1. s \in [1 .. Len(s) -> Frames]
    OBVIOUS
  <2>2. t \in [1 .. Len(s) -> Frames] /\ t[Len(s)] = F
        /\ \A x \in 1 .. Len(s) - 1 : t[x] = s[x]
    <3>1. PICK n \in Nat \ {0} : n = Len(s)
      BY <1>1
    <3>2. s \in [1 .. n -> Frames] /\ t = [s EXCEPT ![n] = F] /\ F \in Frames
      BY <2>1, <3>1
    <3>3. t \in [1 .. n -> Frames]
      BY ONLY <3>2
    <3>4. t[n] = F /\ \A x \in 1 .. n - 1 : t[x] = s[x]
      BY ONLY <3>1, <3>2
    <3> QED
      BY <3>1, <3>3, <3>4
  <2>3. t \in Seq(Frames) /\ Len(t) = Len(s)
    <3>1. PICK n \in Nat \ {0} : n = Len(s)
      BY <1>1
    <3>2. t \in [1 .. n -> Frames]
      BY <2>2, <3>1
    <3>3. t \in Seq(Frames)
      BY ONLY <3>1, <3>2
    <3>4. Len(t) = n
      BY ONLY <3>1, <3>2, <3>3
    <3> QED
      BY <3>1, <3>3, <3>4
  <2> QED
    BY <2>2, <2>3
<1>3. t # <<>>
  BY <1>1, <1>2
<1>4. Front(t) = Front(s)
  <2>1. /\ Front(t) \in Seq(Frames) /\ Front(s) \in Seq(Frames)
        /\ Len(Front(t)) = Len(s) - 1 /\ Len(Front(s)) = Len(s) - 1
        /\ \A x \in 1 .. Len(s) - 1 : Front(t)[x] = Front(s)[x]
    BY <1>2, <1>3, FrontIs
  <2> QED
    BY <2>1, SeqSame
<1>5. Nested(t)
  <2>1. DOMAIN t = 1 .. Len(s) /\ Len(t) = Len(s) /\ Len(s) <= MaxDepth
    <3>1. Len(t) = Len(s) /\ t \in Seq(Frames)
      BY <1>2
    <3>2. DOMAIN t = 1 .. Len(t)
      BY ONLY <3>1
    <3> QED
      BY <3>1, <3>2 DEF Nested
  <2>2. \A x \in 1 .. Len(s) - 1 : s[x].pc = "handling"
    BY <1>1 DEF Nested
  <2>3. ASSUME NEW x \in DOMAIN t, x < Len(t) PROVE t[x].pc = "handling"
    <3>1. x \in 1 .. Len(s) - 1
      BY <1>1, <2>1, <2>3
    <3> QED
      BY <1>2, <2>2, <3>1
  <2> QED
    BY <1>2, <2>1, <2>3 DEF Nested
<1> QED
  BY <1>2, <1>3, <1>4, <1>5

LEMMA Popped ==
    ASSUME NEW s \in Seq(Frames), s # <<>>, Nested(s), NEW t, t = Front(s)
    PROVE  Nested(t) /\ (t # <<>> => t[Len(t)].pc = "handling")
<1>1. /\ Len(s) \in Nat \ {0} /\ t \in Seq(Frames) /\ Len(t) = Len(s) - 1
      /\ \A x \in 1 .. Len(s) - 1 : t[x] = s[x]
  BY FrontIs
<1>2. DOMAIN s = 1 .. Len(s) /\ DOMAIN t = 1 .. Len(s) - 1
  BY <1>1
<1>3. \A x \in 1 .. Len(s) - 1 : t[x].pc = "handling"
  BY <1>1, <1>2 DEF Nested
<1>4. Nested(t)
  <2>1. Len(t) <= MaxDepth
    BY <1>1, CliParserAssumption DEF Nested
  <2> QED
    BY <1>1, <1>2, <1>3, <2>1 DEF Nested
<1>5. t # <<>> => Len(t) \in 1 .. Len(s) - 1
  BY <1>1
<1> QED
  BY <1>1, <1>3, <1>4, <1>5

LEMMA Pushed ==
    ASSUME NEW s \in Seq(Frames), NEW F \in Frames, Nested(s), Len(s) < MaxDepth,
           s # <<>> => s[Len(s)].pc = "handling", NEW t, t = Append(s, F)
    PROVE  /\ Nested(t) /\ t \in Seq(Frames) /\ t # <<>> /\ t[Len(t)] = F /\ Front(t) = s
<1>1. /\ Len(s) \in Nat /\ t \in Seq(Frames) /\ Len(t) = Len(s) + 1 /\ t[Len(s) + 1] = F
      /\ \A x \in 1 .. Len(s) : t[x] = s[x]
  OBVIOUS
<1>2. t # <<>>
  BY <1>1
<1>3. Front(t) = s
  <2>1. /\ Front(t) \in Seq(Frames) /\ Len(Front(t)) = Len(t) - 1
        /\ \A x \in 1 .. Len(t) - 1 : Front(t)[x] = t[x]
    BY <1>1, <1>2, FrontIs
  <2> QED
    BY <1>1, <2>1, SeqSame
<1>4. Nested(t)
  <2>1. Len(t) <= MaxDepth
    BY <1>1, CliParserAssumption
  <2>2. DOMAIN s = 1 .. Len(s) /\ DOMAIN t = 1 .. Len(s) + 1
    BY <1>1
  <2>3. \A x \in 1 .. Len(s) : t[x].pc = "handling"
    <3>1. \A x \in 1 .. Len(s) : x < Len(s) => s[x].pc = "handling"
      BY <2>2 DEF Nested
    <3> SUFFICES ASSUME NEW x \in 1 .. Len(s) PROVE s[x].pc = "handling"
      BY <1>1
    <3>2. s # <<>>
      BY <1>1
    <3>3. x < Len(s) \/ x = Len(s)
      BY <1>1
    <3> QED
      BY <3>1, <3>2, <3>3
  <2> QED
    BY <1>1, <2>1, <2>2, <2>3 DEF Nested
<1> QED
  BY <1>1, <1>2, <1>3, <1>4

-----------------------------------------------------------------------------
(* Chains of aliases.  f is the chain that begins with name.                *)
FirstWord(name) == IF name \in DOMAIN aliases THEN Words(aliases[name])[1] ELSE name
Chain(f, name) ==
    /\ f \in [0 .. MaxExpansions -> Text]
    /\ f[0] = name
    /\ \A n \in 1 .. MaxExpansions : f[n] = FirstWord(f[n - 1])

AliasTypes ==
    /\ DOMAIN aliases \subseteq AliasNames
    /\ \A name \in DOMAIN aliases : aliases[name] \in AliasValues
AllEnded == \A name \in DOMAIN aliases : Words(aliases[name]) # <<>> /\ Ended(aliases[name])

LEMMA ValuesAreText == AliasValues \subseteq Text /\ CliLines \subseteq Text
<1>1. STRING \subseteq Char
  BY DEF Char
<1>2. \A s \in Seq(STRING) : s \in Seq(Char)
  BY <1>1, SeqMonotonic
<1> QED
  BY <1>2, CliParserAssumption DEF Text

LEMMA FirstWordType ==
    ASSUME AliasTypes, AllEnded, NEW name \in Text
    PROVE  FirstWord(name) \in Text
<1>1. CASE name \in DOMAIN aliases
  <2>1. Words(aliases[name]) \in Seq(Text) /\ Words(aliases[name]) # <<>>
    BY <1>1, ValuesAreText, WordsAre DEF AliasTypes, AllEnded
  <2>2. Words(aliases[name])[1] \in Text
    <3> HIDE DEF Text
    <3>1. \A s \in Seq(Text) : s # <<>> => s[1] \in Text
      OBVIOUS
    <3> QED
      BY <2>1, <3>1
  <2> QED
    BY <1>1, <2>2 DEF FirstWord
<1>2. CASE name \notin DOMAIN aliases
  BY <1>2 DEF FirstWord
<1> QED
  BY <1>1, <1>2

LEMMA ChainIs ==
    ASSUME AliasTypes, AllEnded, NEW name \in Text
    PROVE  \E f : Chain(f, name) /\ ChainEnd(name) = f[MaxExpansions]
<1> DEFINE D == 0 .. MaxExpansions
           Right(f, n) == IF n = 0 THEN name
                          ELSE Only({IF before \in DOMAIN aliases THEN Words(aliases[before])[1]
                                     ELSE before : before \in {f[n - 1]}})
           rank == [n \in D |-> n]
           body == [f \in [D -> Text] |-> [n \in D |-> Right(f, n)]]
<1>1. MaxExpansions \in Nat /\ 0 \in D /\ MaxExpansions \in D
  BY CliParserAssumption
<1>2. \A n \in D : n # 0 => n - 1 \in D /\ n - 1 < n
  BY <1>1
<1>3. ASSUME NEW f, NEW n \in D, n # 0 PROVE Right(f, n) = FirstWord(f[n - 1])
  <2>1. {IF before \in DOMAIN aliases THEN Words(aliases[before])[1] ELSE before :
             before \in {f[n - 1]}} = {FirstWord(f[n - 1])}
    BY DEF FirstWord
  <2> QED
    BY <1>3, <2>1, OnlyOf
<1>4. ASSUME NEW f \in [D -> Text], NEW n \in D PROVE Right(f, n) \in Text
  <2>1. CASE n = 0
    BY <2>1
  <2>2. CASE n # 0
    <3>1. f[n - 1] \in Text
      <4> HIDE DEF D
      <4> QED
        BY <1>2, <2>2
    <3> HIDE DEF D, Right
    <3> QED
      BY <1>3, <2>2, <3>1, FirstWordType
  <2> QED
    BY <2>1, <2>2
<1>5. \E f \in [D -> Text] : f = body[f]
  <2>1. Text # {} /\ MaxExpansions + 1 \in Nat
    BY <1>1
  <2>2. rank \in [D -> Nat] /\ \A n \in D : rank[n] < MaxExpansions + 1
    BY <1>1
  <2>3. body \in [[D -> Text] -> [D -> Text]]
    <3> HIDE DEF D, Right
    <3> QED
      BY <1>4
  <2>4. ASSUME NEW f \in [D -> Text], NEW g \in [D -> Text], NEW n \in D,
               \A m \in D : rank[m] < rank[n] => f[m] = g[m]
        PROVE  body[f][n] = body[g][n]
    <3>1. \A m \in D : rank[m] = m
      OBVIOUS
    <3>2. n # 0 => f[n - 1] = g[n - 1]
      <4> HIDE DEF D, rank
      <4> QED
        BY <1>2, <2>4, <3>1
    <3>3. Right(f, n) = Right(g, n)
      BY <3>2
    <3> HIDE DEF D, Right
    <3> QED
      BY <3>3
  <2>5. \A f, g \in [D -> Text] : \A n \in D :
            (\A m \in D : rank[m] < rank[n] => f[m] = g[m]) => body[f][n] = body[g][n]
    <3> HIDE DEF D, rank, body
    <3> QED
      BY <2>4
  <2> HIDE DEF D, rank, body
  <2>6. Recursion(D, Text, rank, MaxExpansions + 1, body)
    BY <2>1, <2>2, <2>3, <2>5 DEF Recursion
  <2> QED
    BY <2>6, RecursionExists
<1>6. PICK f \in [D -> Text] : f = body[f]
  BY <1>5
<1>7. f = [n \in D |-> Right(f, n)]
  <2> HIDE DEF D, Right
  <2> QED
    BY <1>6
<1>8. PICK h : h = [n \in D |-> Right(h, n)] /\ ChainEnd(name) = h[MaxExpansions]
  <2> DEFINE h == CHOOSE h : h = [n \in D |-> Right(h, n)]
  <2>1. h = [n \in D |-> Right(h, n)]
    BY <1>7, Zenon
  <2>2. ChainEnd(name) = h[MaxExpansions]
    BY Zenon DEF ChainEnd
  <2> QED
    BY <2>1, <2>2
<1>9. \A n \in D : h[n] = Right(h, n)
  <2> HIDE DEF D, Right
  <2> QED
    BY <1>8
<1>10. h[0] = name /\ \A n \in 1 .. MaxExpansions : h[n] = FirstWord(h[n - 1])
  <2>1. h[0] = name
    BY <1>1, <1>9
  <2>2. ASSUME NEW n \in 1 .. MaxExpansions PROVE h[n] = FirstWord(h[n - 1])
    <3>1. n \in D /\ n # 0
      BY <1>1
    <3> HIDE DEF D, Right
    <3> QED
      BY <1>3, <1>9, <3>1
  <2> QED
    BY <2>1, <2>2
<1>11. 0 .. MaxExpansions \subseteq {n \in D : h[n] \in Text}
  <2> DEFINE Good == {n \in D : h[n] \in Text}
  <2>1. 0 \in Good
    BY <1>1, <1>10
  <2>2. ASSUME NEW n \in 1 .. MaxExpansions, n - 1 \in Good PROVE n \in Good
    <3>1. n \in D /\ h[n - 1] \in Text
      BY <1>1, <2>2
    <3> HIDE DEF D
    <3> QED
      BY <1>10, <3>1, FirstWordType
  <2>3. \A n \in 1 .. MaxExpansions : n - 1 \in Good => n \in Good
    <3> HIDE DEF Good
    <3> QED
      BY <2>2
  <2> HIDE DEF Good, D
  <2> QED
    BY <1>1, <2>1, <2>3, UpTo DEF Good
<1>12. h \in [0 .. MaxExpansions -> Text]
  <2>1. \A n \in D : h[n] \in Text
    BY <1>11
  <2>2. h \in [D -> Text]
    <3> HIDE DEF D, Right
    <3> QED
      BY <1>8, <2>1
  <2> QED
    BY <2>2
<1> QED
  BY <1>8, <1>10, <1>12 DEF Chain

(* A name that is no alias ends the chain. *)
LEMMA ChainStays ==
    ASSUME NEW f, NEW name, Chain(f, name), NEW e \in 0 .. MaxExpansions,
           f[e] \notin DOMAIN aliases
    PROVE  f[MaxExpansions] = f[e]
<1> DEFINE Good == {n \in 0 .. MaxExpansions : n >= e => f[n] = f[e]}
<1>1. MaxExpansions \in Nat /\ e \in Nat
  BY CliParserAssumption
<1>2. 0 \in Good
  BY <1>1
<1>3. ASSUME NEW n \in 1 .. MaxExpansions, n - 1 \in Good PROVE n \in Good
  <2>1. CASE n - 1 >= e
    <3>1. f[n - 1] = f[e]
      BY <1>3, <2>1
    <3>2. f[n] = f[e]
      BY <3>1 DEF Chain, FirstWord
    <3> QED
      BY <1>1, <3>2
  <2>2. CASE ~(n - 1 >= e)
    BY <1>1, <2>2
  <2> QED
    BY <2>1, <2>2
<1>4. \A n \in 1 .. MaxExpansions : n - 1 \in Good => n \in Good
  <2> HIDE DEF Good
  <2> QED
    BY <1>3
<1>5. MaxExpansions \in Good
  <2>1. MaxExpansions \in 0 .. MaxExpansions
    BY <1>1
  <2> HIDE DEF Good
  <2>2. 0 .. MaxExpansions \subseteq Good
    BY <1>1, <1>2, <1>4, UpTo
  <2> QED
    BY <2>1, <2>2
<1> QED
  BY <1>1, <1>5

-----------------------------------------------------------------------------
(* What a frame whose aliases are being expanded carries: the words of the  *)
(* statement, or of its first alias and the rest of the statement; and the  *)
(* name that the chain of aliases has come to.                              *)
Carried(F) ==
    LET name == CommandName(F.redir.command)
        given == Words(CommandArgs(F.redir.command))
    IN  /\ F.redir = Redirect(F.text)
        /\ F.argv # <<>> /\ F.argv[1] = F.name
        /\ F.expansions = 0 =>
              F.name = name /\ F.args = given /\ F.argv = <<name>> \o given
        /\ F.expansions = 1 =>
              name \in DOMAIN aliases /\ F.argv = Words(Expanded(aliases[name], given))
        /\ F.expansions > 0 /\ PlainAliases /\ ReadAgain(given) =>
              \E g \in Seq(Text) : Unquoted(g) /\ F.argv = g \o given /\ F.args = g \o given
        /\ AllEnded => \A f : Chain(f, name) => F.name = f[F.expansions]

(* What a line may return. *)
Results == {0, -1} \cup HandlerResults

TopInv ==
    stack # <<>> => /\ Top.pc = "statement" => ~Top.parsed
                    /\ Top.pc = "expand" => Carried(Top)

CliInv ==
    /\ Nested(stack)
    /\ AliasTypes
    /\ handlers \in Seq(Handlers)
    /\ leaked \in Nat /\ result \in Results
    /\ arrays = leaked + Cardinality(Holds(stack))
    /\ TopInv

LEMMA TopIs ==
    ASSUME CliInv, stack # <<>>
    PROVE  /\ stack \in Seq(Frames) /\ Nested(stack) /\ Top \in Frames
           /\ Top = stack[Len(stack)] /\ Len(stack) \in Nat \ {0}
<1>1. stack \in Seq(Frames)
  BY DEF CliInv, Nested
<1>2. Top = stack[Len(stack)]
  BY DEF Top
<1> QED
  BY <1>1, <1>2, FrontIs DEF CliInv

LEMMA NewFrame ==
    ASSUME NEW rest \in Seq(Text)
    PROVE  /\ Frame(rest) \in Frames /\ Frame(rest).pc = "statement"
           /\ Frame(rest).parsed = FALSE
<1>1. <<>> \in Text /\ <<>> \in Seq(Text)
  BY TextAppend
<1>2. Redirect(<<>>) \in {Redirect(s) : s \in Text}
  BY <1>1
<1>3. 0 \in 0 .. MaxExpansions
  BY CliParserAssumption
<1> DEFINE R == {Redirect(s) : s \in Text}
           T == Text
           E == 0 .. MaxExpansions
<1> HIDE DEF R, T, E
<1> QED
  BY <1>1, <1>2, <1>3 DEF Frame, Frames, R, T, E

(* The statement goes on in the same frame. *)
LEMMA GoesOn ==
    ASSUME CliInv, stack # <<>>, NEW F \in Frames, SetTop(F),
           UNCHANGED <<aliases, handlers, leaked, result>>,
           arrays' = arrays - Parsed + (IF F.parsed THEN 1 ELSE 0),
           F.pc = "statement" => ~F.parsed,
           F.pc = "expand" => Carried(F)'
    PROVE  CliInv'
<1>1. /\ stack \in Seq(Frames) /\ Nested(stack) /\ Top = stack[Len(stack)]
      /\ stack' = [stack EXCEPT ![Len(stack)] = F]
  BY TopIs DEF SetTop
<1>2. PICK t : t = stack'
  OBVIOUS
<1>3. /\ t \in Seq(Frames) /\ t # <<>> /\ t[Len(t)] = F /\ Front(t) = Front(stack) /\ Nested(t)
  BY <1>1, <1>2, ReplacedTop
<1>4. /\ Cardinality(Holds(Front(stack))) \in Nat
      /\ Cardinality(Holds(stack)) = Cardinality(Holds(Front(stack))) + Parsed
  BY <1>1, HoldsTop DEF Parsed
<1>5. Cardinality(Holds(t)) = Cardinality(Holds(Front(stack))) + (IF F.parsed THEN 1 ELSE 0)
  BY <1>3, HoldsTop
<1>6. arrays' = leaked' + Cardinality(Holds(t))
  <2>1. arrays = leaked + Cardinality(Holds(stack)) /\ leaked \in Nat /\ Parsed \in Nat
    BY DEF CliInv, Parsed
  <2> QED
    BY <1>4, <1>5, <2>1
<1>7. AliasTypes'
  BY DEF CliInv, AliasTypes
<1>8. TopInv'
  <2>1. Top' = F
    BY <1>2, <1>3 DEF Top
  <2> QED
    BY <2>1 DEF TopInv
<1> QED
  BY <1>2, <1>3, <1>6, <1>7, <1>8 DEF CliInv, Nested, Holds

(* The line is over. *)
LEMMA ComesBack ==
    ASSUME CliInv, stack # <<>>, NEW r \in Results, Return(r),
           UNCHANGED <<aliases, handlers>>, leaked' \in Nat,
           arrays' = arrays - Parsed + (leaked' - leaked)
    PROVE  CliInv'
<1>1. stack \in Seq(Frames) /\ Nested(stack) /\ Top = stack[Len(stack)]
  BY TopIs
<1>2. PICK t : t = stack' /\ t = Front(stack)
  BY DEF Return
<1>3. Nested(t) /\ (t # <<>> => t[Len(t)].pc = "handling")
  BY <1>1, <1>2, Popped
<1>4. /\ Cardinality(Holds(Front(stack))) \in Nat
      /\ Cardinality(Holds(stack)) = Cardinality(Holds(Front(stack))) + Parsed
  BY <1>1, HoldsTop DEF Parsed
<1>5. arrays' = leaked' + Cardinality(Holds(t))
  <2>1. arrays = leaked + Cardinality(Holds(stack)) /\ leaked \in Nat /\ Parsed \in Nat
    BY DEF CliInv, Parsed
  <2> QED
    BY <1>2, <1>4, <2>1
<1>6. AliasTypes'
  BY DEF CliInv, AliasTypes
<1>7. TopInv'
  BY <1>2, <1>3 DEF TopInv, Top
<1>8. result' \in Results
  BY DEF Return
<1> QED
  BY <1>2, <1>3, <1>5, <1>6, <1>7, <1>8 DEF CliInv, Nested, Holds

(* Neither the stack nor the arrays change. *)
LEMMA StackStays ==
    ASSUME CliInv, UNCHANGED <<stack, arrays, leaked>>, AliasTypes',
           handlers' \in Seq(Handlers), result' \in Results,
           UNCHANGED aliases \/ Callable
    PROVE  CliInv'
<1>1. TopInv'
  <2>1. CASE stack = <<>>
    BY <2>1 DEF TopInv
  <2>2. CASE stack # <<>> /\ Callable
    BY <2>2 DEF TopInv, Callable, Top
  <2>3. CASE UNCHANGED aliases
    BY <2>3 DEF CliInv, TopInv, Top, Carried, AllEnded, PlainAliases, Chain, FirstWord
  <2> QED
    BY <2>1, <2>2, <2>3
<1> QED
  BY <1>1 DEF CliInv, Nested, Holds

-----------------------------------------------------------------------------
(* One lemma per action of the interpreter.                                 *)
LEMMA CarriedStays ==
    ASSUME NEW F, UNCHANGED aliases, Carried(F)
    PROVE  Carried(F)'
  BY DEF Carried, AllEnded, PlainAliases, Chain, FirstWord

LEMMA CallParseLineKeeps ==
    ASSUME CliInv, NEW text \in CliLines, CallParseLine(text)
    PROVE  CliInv'
<1>1. CASE IsComment(text)
  <2>1. /\ UNCHANGED <<stack, aliases, handlers, arrays, leaked>>
        /\ result' \in Results
    BY <1>1 DEF CallParseLine, Results
  <2>2. AliasTypes' /\ handlers' \in Seq(Handlers)
    BY <2>1 DEF CliInv, AliasTypes
  <2> QED
    BY <2>1, <2>2, StackStays
<1>2. CASE ~IsComment(text)
  <2>1. PICK F : F = Frame(<<SkipSpaces(text)>>)
    OBVIOUS
  <2>2. F \in Frames /\ F.pc = "statement" /\ F.parsed = FALSE
    <3>1. SkipSpaces(text) \in Text
      BY ValuesAreText, SkipSpacesType
    <3>2. <<SkipSpaces(text)>> \in Seq(Text)
      <4> HIDE DEF Text
      <4> QED
        BY <3>1
    <3> QED
      BY <2>1, <3>2, NewFrame
  <2>3. PICK t : t = Append(stack, F) /\ t = stack'
    BY <1>2, <2>1 DEF CallParseLine
  <2>4. UNCHANGED <<aliases, handlers, arrays, leaked, result>> /\ Len(stack) < MaxDepth
    BY <1>2 DEF CallParseLine
  <2>5. stack \in Seq(Frames) /\ Nested(stack)
    BY DEF CliInv, Nested
  <2>6. stack # <<>> => stack[Len(stack)].pc = "handling"
    BY DEF CallParseLine, Callable, Top
  <2>7. Nested(t) /\ t \in Seq(Frames) /\ t # <<>> /\ t[Len(t)] = F /\ Front(t) = stack
    BY <2>2, <2>3, <2>4, <2>5, <2>6, Pushed
  <2>8. Cardinality(Holds(t)) = Cardinality(Holds(stack))
    <3>1. /\ Cardinality(Holds(Front(t))) \in Nat
          /\ Cardinality(Holds(t)) = Cardinality(Holds(Front(t))) + (IF t[Len(t)].parsed THEN 1 ELSE 0)
      BY <2>7, HoldsTop
    <3> QED
      BY <2>2, <2>7, <3>1
  <2>9. TopInv'
    BY <2>2, <2>3, <2>7 DEF TopInv, Top
  <2> QED
    BY <2>3, <2>4, <2>7, <2>8, <2>9 DEF CliInv, Nested, Holds, AliasTypes
<1> QED
  BY <1>1, <1>2

(* Before a statement is read no array is held. *)
LEMMA NothingParsed ==
    ASSUME CliInv, At("statement")
    PROVE  stack # <<>> /\ Parsed = 0 /\ arrays - Parsed = arrays
<1>1. stack # <<>> /\ ~Top.parsed
  BY DEF At, CliInv, TopInv
<1>2. arrays \in Int
  <2>1. Cardinality(Holds(stack)) \in Nat
    BY <1>1, TopIs, HoldsTop DEF Parsed
  <2> QED
    BY <2>1 DEF CliInv
<1> QED
  BY <1>1, <1>2 DEF Parsed

LEMMA ArraysInt ==
    ASSUME CliInv, stack # <<>>
    PROVE  arrays \in Int /\ leaked \in Nat /\ Parsed \in {0, 1}
<1>1. Cardinality(Holds(stack)) \in Nat
  <2>1. stack \in Seq(Frames)
    BY TopIs
  <2>2. /\ Cardinality(Holds(Front(stack))) \in Nat
        /\ Cardinality(Holds(stack)) =
              Cardinality(Holds(Front(stack))) + (IF stack[Len(stack)].parsed THEN 1 ELSE 0)
    BY <2>1, HoldsTop
  <2> QED
    BY <2>2
<1> QED
  BY <1>1 DEF CliInv, Parsed

LEMMA LineDoneKeeps ==
    ASSUME CliInv, LineDone \/ ReadFails
    PROVE  CliInv'
<1>1. stack # <<>> /\ Parsed = 0 /\ arrays - Parsed = arrays
  BY NothingParsed DEF LineDone, ReadFails
<1>2. /\ UNCHANGED <<aliases, handlers, leaked>> /\ arrays' = arrays
      /\ Return(0) \/ Return(-1)
  BY DEF LineDone, ReadFails
<1>3. leaked' \in Nat /\ arrays' = arrays - Parsed + (leaked' - leaked)
  BY <1>1, <1>2, ArraysInt
<1>4. 0 \in Results /\ -1 \in Results
  BY DEF Results
<1> QED
  BY <1>1, <1>2, <1>3, <1>4, ComesBack

(* The text that the statements are read from. *)
LEMMA StatementIs ==
    ASSUME CliInv, stack # <<>>, Top.rest # <<>>
    PROVE  Statement.text \in Text /\ Statement.rest \in Seq(Text)
           /\ Trim(Statement.text) \in Text
<1>1. Top.rest \in Seq(Text)
  <2>1. Top \in Frames
    BY TopIs
  <2>2. \A F \in Frames : F.rest \in Seq(Text)
    BY DEF Frames
  <2> QED
    BY <2>1, <2>2
<1>2. Top.rest[1] \in Text
  <2> HIDE DEF Text
  <2>1. \A s \in Seq(Text) : s # <<>> => s[1] \in Text
    OBVIOUS
  <2> QED
    BY <1>1, <2>1
<1> QED
  BY <1>2, FirstStatementType, TrimType DEF Statement

LEMMA SkipStatementKeeps ==
    ASSUME CliInv, SkipStatement
    PROVE  CliInv'
<1>1. stack # <<>> /\ Parsed = 0 /\ arrays - Parsed = arrays
  BY NothingParsed DEF SkipStatement
<1>2. PICK F : F = Frame(Statement.rest)
  OBVIOUS
<1>3. F \in Frames /\ F.pc = "statement" /\ F.parsed = FALSE
  <2>1. Statement.rest \in Seq(Text)
    BY <1>1, StatementIs DEF SkipStatement
  <2> QED
    BY <1>2, <2>1, NewFrame
<1>4. SetTop(F) /\ UNCHANGED <<aliases, handlers, leaked, result>> /\ arrays' = arrays
  BY <1>2 DEF SkipStatement
<1>5. arrays' = arrays - Parsed + (IF F.parsed THEN 1 ELSE 0)
  BY <1>1, <1>3, <1>4, ArraysInt
<1>6. F.pc # "expand"
  BY <1>3
<1> QED
  BY <1>1, <1>3, <1>4, <1>5, <1>6, GoesOn

-----------------------------------------------------------------------------
LEMMA ReadStatementKeeps ==
    ASSUME CliInv, ReadStatement
    PROVE  CliInv'
<1> DEFINE redir == StatementRedir
           name == CommandName(redir.command)
           given == CommandArgs(redir.command)
           record == [pc |-> "expand", rest |-> Statement.rest, text |-> Trim(Statement.text),
                      redir |-> redir, name |-> name, argv |-> <<name>> \o Words(given),
                      args |-> Words(given), parsed |-> given # <<>>, expansions |-> 0]
<1>1. stack # <<>> /\ Parsed = 0 /\ arrays - Parsed = arrays /\ Top.rest # <<>>
  BY NothingParsed DEF ReadStatement
<1>2. /\ SetTop(record) /\ arrays' = arrays + (IF given # <<>> THEN 1 ELSE 0)
      /\ UNCHANGED <<aliases, handlers, leaked, result>>
  BY DEF ReadStatement
<1>3. /\ Statement.rest \in Seq(Text) /\ Trim(Statement.text) \in Text
      /\ redir \in {Redirect(s) : s \in Text}
  BY <1>1, StatementIs DEF StatementRedir
<1>4. redir.command \in Text
  BY <1>1, StatementIs, RedirectType DEF StatementRedir
<1>5. name \in Text /\ given \in Text /\ Words(given) \in Seq(Text)
  BY <1>4, CommandType, WordsAre
<1>6. /\ <<name>> \in Seq(Text) /\ <<name>> \o Words(given) \in Seq(Text)
      /\ <<name>> \o Words(given) # <<>> /\ (<<name>> \o Words(given))[1] = name
  <2>1. \A n \in Text, w \in Seq(Text) :
            <<n>> \in Seq(Text) /\ <<n>> # <<>> /\ <<n>>[1] = n /\ <<n>> \o w \in Seq(Text)
    <3> HIDE DEF Text
    <3> QED
      OBVIOUS
  <2> HIDE DEF Text, name, given
  <2> QED
    BY <1>5, <2>1, FirstStays
<1>7. PICK F : F = record
  OBVIOUS
<1>8. F \in Frames
  <2>1. 0 \in 0 .. MaxExpansions
    BY CliParserAssumption
  <2> DEFINE R == {Redirect(s) : s \in Text}
             T == Text
             E == 0 .. MaxExpansions
             argv == <<name>> \o Words(given)
  <2>2. argv \in Seq(T)
    BY <1>6
  <2> HIDE DEF R, T, E, name, given, redir, argv
  <2> QED
    BY <1>3, <1>5, <1>7, <2>1, <2>2 DEF Frames, R, T, E, argv
<1>9. /\ F.pc = "expand" /\ F.redir = redir /\ F.text = Trim(Statement.text)
      /\ F.name = name /\ F.expansions = 0
      /\ F.argv = <<name>> \o Words(given) /\ F.args = Words(given) /\ F.parsed = (given # <<>>)
  <2> HIDE DEF name, given, redir
  <2> QED
    BY <1>7
<1>10. Carried(F)
  <2>0. F.redir = Redirect(F.text)
    BY <1>9 DEF StatementRedir
  <2>1. /\ \A f : Chain(f, name) => F.name = f[F.expansions]
        /\ ~(F.expansions > 0)
    BY <1>9 DEF Chain
  <2> HIDE DEF redir
  <2>2. CommandName(F.redir.command) = name /\ Words(CommandArgs(F.redir.command)) = Words(given)
    BY <1>9
  <2> HIDE DEF name, given
  <2> QED
    BY <1>6, <1>9, <2>0, <2>1, <2>2 DEF Carried
<1>11. Carried(F)'
  BY <1>2, <1>10, CarriedStays
<1>12. arrays' = arrays - Parsed + (IF F.parsed THEN 1 ELSE 0)
  <2> HIDE DEF given
  <2> QED
    BY <1>1, <1>2, <1>9, ArraysInt
<1>13. SetTop(F)
  BY <1>2, <1>7
<1> QED
  BY <1>1, <1>2, <1>8, <1>9, <1>11, <1>12, <1>13, GoesOn

(* A frame with some of its fields replaced, as ExpandAlias and Dispatch    *)
(* replace them.                                                            *)
NextRound(G, words) == [G EXCEPT !.name = words[1], !.argv = words, !.args = words,
                                 !.parsed = TRUE, !.expansions = @ + 1]

LEMMA FrameExpanded ==
    ASSUME NEW G \in Frames, NEW words \in Seq(Text), words # <<>>,
           G.expansions < MaxExpansions, NEW F, F = NextRound(G, words)
    PROVE  /\ F \in Frames /\ F.parsed
           /\ F.pc = G.pc /\ F.redir = G.redir /\ F.text = G.text
           /\ F.name = words[1] /\ F.argv = words
           /\ F.args = words /\ F.expansions = G.expansions + 1
<1> DEFINE R == {Redirect(s) : s \in Text}
           T == Text
           E == 0 .. MaxExpansions
<1>1. words[1] \in T /\ words \in Seq(T)
  <2> HIDE DEF Text
  <2> QED
    OBVIOUS
<1>2. G.expansions + 1 \in E
  <2>1. G.expansions \in E
    BY DEF Frames
  <2> QED
    BY <2>1, CliParserAssumption
<1>3. G \in [pc : {"statement", "expand", "handling"}, rest : Seq(T), text : T, redir : R,
             name : T, argv : Seq(T), args : Seq(T), parsed : BOOLEAN, expansions : E]
  BY DEF Frames
<1>4. PICK first, n : first = words[1] /\ n = G.expansions + 1
  OBVIOUS
<1> HIDE DEF R, T, E
<1>5. F = [G EXCEPT !.name = first, !.argv = words, !.args = words, !.parsed = TRUE,
                    !.expansions = n]
  BY <1>4 DEF NextRound
<1>6. first \in T /\ n \in E
  BY <1>1, <1>2, <1>4
<1>7. F \in [pc : {"statement", "expand", "handling"}, rest : Seq(T), text : T, redir : R,
             name : T, argv : Seq(T), args : Seq(T), parsed : BOOLEAN, expansions : E]
      /\ F.pc = G.pc /\ F.redir = G.redir /\ F.text = G.text
      /\ F.name = first /\ F.argv = words
      /\ F.args = words /\ F.parsed /\ F.expansions = n
  BY ONLY <1>1, <1>3, <1>5, <1>6
<1> QED
  BY <1>4, <1>7 DEF Frames, R, T, E

LEMMA FrameHandled ==
    ASSUME NEW G \in Frames, NEW F, F = [G EXCEPT !.pc = "handling"]
    PROVE  F \in Frames /\ F.pc = "handling" /\ F.parsed = G.parsed
<1> DEFINE R == {Redirect(s) : s \in Text}
           T == Text
           E == 0 .. MaxExpansions
<1>1. G \in [pc : {"statement", "expand", "handling"}, rest : Seq(T), text : T, redir : R,
             name : T, argv : Seq(T), args : Seq(T), parsed : BOOLEAN, expansions : E]
  BY DEF Frames
<1> HIDE DEF R, T, E
<1>2. F \in [pc : {"statement", "expand", "handling"}, rest : Seq(T), text : T, redir : R,
             name : T, argv : Seq(T), args : Seq(T), parsed : BOOLEAN, expansions : E]
      /\ F.pc = "handling" /\ F.parsed = G.parsed
  BY ONLY <1>1, F = [G EXCEPT !.pc = "handling"]
<1> QED
  BY <1>2 DEF Frames, R, T, E

-----------------------------------------------------------------------------
LEMMA GivenType ==
    ASSUME NEW F \in Frames
    PROVE  /\ CommandName(F.redir.command) \in Text
           /\ Words(CommandArgs(F.redir.command)) \in Seq(Text)
<1>1. PICK s \in Text : F.redir = Redirect(s)
  BY DEF Frames
<1>2. F.redir.command \in Text
  BY <1>1, RedirectType
<1> QED
  BY <1>2, CommandType, WordsAre

(* A round of the alias loop goes on with what the frame carries.           *)
LEMMA CarriedOn ==
    ASSUME AliasTypes, NEW G \in Frames, Carried(G), G.name \in DOMAIN aliases,
           G.expansions < MaxExpansions,
           NEW words, words = Words(Expanded(aliases[G.name], G.args)), words # <<>>,
           NEW F, F.redir = G.redir, F.text = G.text, F.name = words[1], F.argv = words,
           F.args = words, F.expansions = G.expansions + 1
    PROVE  Carried(F)
<1> DEFINE name == CommandName(G.redir.command)
           given == Words(CommandArgs(G.redir.command))
<1>1. G.expansions \in Nat /\ G.args \in Seq(Text)
  <2>1. \A H \in Frames : H.expansions \in Nat /\ H.args \in Seq(Text)
    BY CliParserAssumption DEF Frames
  <2> QED
    BY <2>1
<1>2. G.expansions = 0 => G.name = name /\ G.args = given
  BY DEF Carried
<1>8. given \in Seq(Text)
  BY GivenType
<1>3. F.expansions = 1 => name \in DOMAIN aliases /\ F.argv = Words(Expanded(aliases[name], given))
  <2>1. F.expansions = 1 => G.expansions = 0
    BY <1>1
  <2> HIDE DEF name, given
  <2> QED
    BY <1>2, <2>1
<1>4. ASSUME AllEnded, NEW f, Chain(f, name) PROVE F.name = f[F.expansions]
  <2>1. G.name = f[G.expansions]
    BY <1>4 DEF Carried
  <2>2. f[G.expansions + 1] = FirstWord(G.name)
    <3>1. G.expansions + 1 \in 1 .. MaxExpansions /\ (G.expansions + 1) - 1 = G.expansions
      BY <1>1, CliParserAssumption
    <3> QED
      BY <1>4, <2>1, <3>1 DEF Chain
  <2>3. FirstWord(G.name) = Words(aliases[G.name])[1]
    BY DEF FirstWord
  <2>4. aliases[G.name] \in Text /\ Words(aliases[G.name]) # <<>> /\ Ended(aliases[G.name])
    BY <1>4, ValuesAreText DEF AliasTypes, AllEnded
  <2>5. PICK v \in Text : v = aliases[G.name]
    BY <2>4
  <2>6. /\ Words(v) \in Seq(Text) /\ Words(Expanded(<<>>, G.args)) \in Seq(Text)
        /\ Words(Expanded(v, G.args)) = Words(v) \o Words(Expanded(<<>>, G.args))
    BY <1>1, <2>4, <2>5, WordsOfExpanded
  <2>7. words[1] = Words(v)[1]
    <3> HIDE DEF Text
    <3>1. (Words(v) \o Words(Expanded(<<>>, G.args)))[1] = Words(v)[1]
      BY <2>4, <2>5, <2>6, FirstStays
    <3> QED
      BY <2>5, <2>6, <3>1
  <2> QED
    BY <2>2, <2>3, <2>5, <2>7
<1>7. ASSUME PlainAliases, ReadAgain(given)
      PROVE  \E g \in Seq(Text) : Unquoted(g) /\ F.argv = g \o given /\ words = g \o given
  <2>1. aliases[G.name] \in Text /\ Ended(aliases[G.name]) /\ Unquoted(Words(aliases[G.name]))
    BY <1>7, ValuesAreText DEF AliasTypes, PlainAliases
  <2>2. PICK v \in Text : v = aliases[G.name]
    BY <2>1
  <2>3. /\ Words(v) \in Seq(Text) /\ Unquoted(Words(v))
        /\ words = Words(v) \o Words(Expanded(<<>>, G.args))
    BY <1>1, <2>1, <2>2, WordsOfExpanded
  <2>4. PICK w \in Seq(Text) : w = Words(v)
    BY <2>3
  <2>5. CASE G.expansions = 0
    <3>1. Words(Expanded(<<>>, G.args)) = given
      BY <1>2, <1>7, <2>5 DEF ReadAgain
    <3> QED
      BY <2>3, <2>4, <3>1
  <2>6. CASE G.expansions # 0
    <3>1. G.expansions > 0
      BY <1>1, <2>6
    <3>2. PICK g \in Seq(Text) : Unquoted(g) /\ G.args = g \o given
      BY <1>7, <3>1 DEF Carried
    <3>3. PICK h \in Seq(Text) : h = given
      BY <1>8
    <3>4. Words(Expanded(<<>>, G.args)) = g \o h
      <4>1. ReadAgain(g \o h)
        BY <1>7, <3>2, <3>3, UnquotedOn
      <4> QED
        BY <3>2, <3>3, <4>1 DEF ReadAgain
    <3>5. w \o (g \o h) = (w \o g) \o h
      <4>1. Associates(w, g, h)
        BY ONLY w \in Seq(Text), g \in Seq(Text), h \in Seq(Text), TextsAssoc
      <4> QED
        BY <4>1 DEF Associates
    <3>6. Unquoted(w \o g) /\ w \o g \in Seq(Text)
      <4>1. Unquoted(w \o g)
        BY <2>3, <2>4, <3>2, UnquotedOn
      <4>2. w \o g \in Seq(Text)
        <5> HIDE DEF Text
        <5> QED
          OBVIOUS
      <4> QED
        BY <4>1, <4>2
    <3> HIDE DEF given
    <3> QED
      BY <2>3, <2>4, <3>3, <3>4, <3>5, <3>6
  <2> QED
    BY <2>5, <2>6
<1>5. CommandName(F.redir.command) = name /\ Words(CommandArgs(F.redir.command)) = given
  OBVIOUS
<1>6. F.expansions # 0 /\ F.redir = Redirect(F.text)
  BY <1>1 DEF Carried
<1> HIDE DEF name, given
<1> QED
  BY <1>3, <1>4, <1>5, <1>6, <1>7 DEF Carried

LEMMA ExpandAliasKeeps ==
    ASSUME CliInv, ExpandAlias
    PROVE  CliInv'
<1>1. stack # <<>> /\ Top.pc = "expand" /\ Carried(Top)
  BY DEF ExpandAlias, At, CliInv, TopInv
<1>2. PICK G \in Frames : G = Top
  BY <1>1, TopIs
<1>3. PICK words : words = Words(Expansion)
  OBVIOUS
<1>4. G.name \in DOMAIN aliases /\ words = Words(Expanded(aliases[G.name], G.args))
      /\ words # <<>> /\ G.expansions < MaxExpansions
  BY <1>2, <1>3 DEF ExpandAlias, IsAlias, Expansion
<1>5. words \in Seq(Text)
  <2>1. aliases[G.name] \in Text
    BY <1>4, ValuesAreText DEF CliInv, AliasTypes
  <2>2. G.args \in Seq(Text)
    <3>1. \A H \in Frames : H.args \in Seq(Text)
      BY DEF Frames
    <3> QED
      BY <3>1
  <2>3. Expanded(aliases[G.name], G.args) \in Text
    BY <2>1, <2>2, WordsOfExpanded
  <2> QED
    BY <1>4, <2>3, WordsAre
<1>6. PICK F : F = NextRound(G, words)
  OBVIOUS
<1>7. /\ F \in Frames /\ F.parsed
      /\ F.pc = G.pc /\ F.redir = G.redir /\ F.text = G.text
      /\ F.name = words[1] /\ F.argv = words
      /\ F.args = words /\ F.expansions = G.expansions + 1
  BY <1>4, <1>5, <1>6, FrameExpanded
<1>8. Carried(F)
  BY <1>1, <1>2, <1>4, <1>7, CarriedOn DEF CliInv
<1>9. SetTop(F) /\ UNCHANGED <<aliases, handlers, leaked, result>> /\ arrays' = arrays - Parsed + 1
  BY <1>2, <1>3, <1>6 DEF ExpandAlias, NextRound
<1>10. Carried(F)'
  BY <1>8, <1>9, CarriedStays
<1>11. F.pc # "statement" /\ arrays' = arrays - Parsed + (IF F.parsed THEN 1 ELSE 0)
  BY <1>1, <1>2, <1>7, <1>9
<1> QED
  BY <1>1, <1>7, <1>9, <1>10, <1>11, GoesOn

LEMMA DispatchKeeps ==
    ASSUME CliInv, Dispatch
    PROVE  CliInv'
<1>1. stack # <<>>
  BY DEF Dispatch, At
<1>2. PICK G \in Frames : G = Top
  BY <1>1, TopIs
<1>3. PICK F : F = [G EXCEPT !.pc = "handling"]
  OBVIOUS
<1>4. F \in Frames /\ F.pc = "handling" /\ F.parsed = G.parsed
  BY <1>3, FrameHandled
<1>5. SetTop(F) /\ UNCHANGED <<aliases, handlers, arrays, leaked, result>>
  BY <1>2, <1>3 DEF Dispatch
<1>6. arrays' = arrays - Parsed + (IF F.parsed THEN 1 ELSE 0)
  BY <1>1, <1>2, <1>4, <1>5, ArraysInt DEF Parsed
<1>7. F.pc # "statement" /\ F.pc # "expand"
  BY <1>4
<1> QED
  BY <1>1, <1>4, <1>5, <1>6, <1>7, GoesOn

(* The ways in which a line is given up. *)
LEMMA GivenUpKeeps ==
    ASSUME CliInv, ExpansionFails \/ ExpansionEmpty \/ TooManyExpansions \/ NoHandler
    PROVE  CliInv'
<1>1. stack # <<>>
  BY DEF ExpansionFails, ExpansionEmpty, TooManyExpansions, NoHandler, At
<1>2. arrays \in Int /\ leaked \in Nat /\ Parsed \in {0, 1}
  BY <1>1, ArraysInt
<1>3. Return(-1) /\ UNCHANGED <<aliases, handlers>>
  BY DEF ExpansionFails, ExpansionEmpty, TooManyExpansions, NoHandler
<1>4. leaked' \in Nat /\ arrays' = arrays - Parsed + (leaked' - leaked)
  <2>1. \/ leaked' = leaked /\ arrays' = arrays - Parsed
        \/ leaked' = leaked + 1 /\ arrays' = arrays - Parsed + 1
    BY DEF ExpansionFails, ExpansionEmpty, TooManyExpansions, NoHandler
  <2> QED
    BY <1>2, <2>1
<1>5. -1 \in Results
  BY DEF Results
<1> QED
  BY <1>1, <1>3, <1>4, <1>5, ComesBack

LEMMA HandlerReturnsKeeps ==
    ASSUME CliInv, HandlerReturns
    PROVE  CliInv'
<1>1. stack # <<>>
  BY DEF HandlerReturns, At
<1>2. arrays \in Int /\ leaked \in Nat /\ Parsed \in {0, 1}
  BY <1>1, ArraysInt
<1>3. arrays' = arrays - Parsed /\ UNCHANGED <<aliases, handlers, leaked>>
  BY DEF HandlerReturns
<1>4. CASE SetTop(Frame(Top.rest)) /\ UNCHANGED result
  <2>1. Top.rest \in Seq(Text)
    <3>1. \A H \in Frames : H.rest \in Seq(Text)
      BY DEF Frames
    <3> QED
      BY <1>1, <3>1, TopIs
  <2>2. PICK F : F = Frame(Top.rest)
    OBVIOUS
  <2>3. F \in Frames /\ F.pc = "statement" /\ F.parsed = FALSE
    BY <2>1, <2>2, NewFrame
  <2>4. SetTop(F) /\ UNCHANGED <<aliases, handlers, leaked, result>>
    BY <1>3, <1>4, <2>2
  <2>5. F.pc # "expand" /\ ~F.parsed /\ arrays' = arrays - Parsed + (IF F.parsed THEN 1 ELSE 0)
    BY <1>2, <1>3, <2>3
  <2> QED
    BY <1>1, <2>3, <2>4, <2>5, GoesOn
<1>5. ASSUME NEW r \in HandlerResults, Return(r) PROVE CliInv'
  <2>0. r \in Results
    BY DEF Results
  <2>1. leaked' \in Nat /\ arrays' = arrays - Parsed + (leaked' - leaked)
    BY <1>2, <1>3
  <2> QED
    BY <1>1, <1>3, <1>5, <2>0, <2>1, ComesBack
<1> QED
  BY <1>4, <1>5 DEF HandlerReturns

-----------------------------------------------------------------------------
(* The alias and handler functions. *)
LEMMA SetAliasKeeps ==
    ASSUME CliInv, NEW name \in AliasNames, NEW value \in AliasValues, SetAlias(name, value)
    PROVE  CliInv'
<1>1. AliasTypes'
  <2>1. AliasTypes
    BY DEF CliInv
  <2>2. CASE UNCHANGED aliases
    BY <2>1, <2>2 DEF AliasTypes
  <2>3. CASE Aliases!Put(name, value)
    <3>1. aliases' = [x \in DOMAIN aliases \cup {name} |-> IF x = name THEN value ELSE aliases[x]]
      BY <2>3 DEF Aliases!Put
    <3> QED
      BY <2>1, <3>1 DEF AliasTypes
  <2> QED
    BY <2>2, <2>3 DEF SetAlias
<1>2. handlers' \in Seq(Handlers) /\ result' \in Results
  BY DEF SetAlias, CliInv, Results
<1> QED
  BY <1>1, <1>2, StackStays DEF SetAlias

LEMMA RemoveAliasKeeps ==
    ASSUME CliInv, NEW name \in AliasNames, RemoveAlias(name)
    PROVE  CliInv'
<1>1. AliasTypes'
  <2>1. AliasTypes
    BY DEF CliInv
  <2>2. CASE UNCHANGED aliases
    BY <2>1, <2>2 DEF AliasTypes
  <2>3. CASE Aliases!Delete(name)
    <3>1. aliases' = [x \in DOMAIN aliases \ {name} |-> aliases[x]]
      BY <2>3 DEF Aliases!Delete
    <3> QED
      BY <2>1, <3>1 DEF AliasTypes
  <2> QED
    BY <2>2, <2>3 DEF RemoveAlias
<1>2. handlers' \in Seq(Handlers) /\ result' \in Results
  BY DEF RemoveAlias, CliInv, Results
<1> QED
  BY <1>1, <1>2, StackStays DEF RemoveAlias

LEMMA ClearAliasesKeeps ==
    ASSUME CliInv, ClearAliases
    PROVE  CliInv'
<1>1. AliasTypes'
  <2>1. aliases' = [name \in {} |-> {}]
    BY DEF ClearAliases, Aliases!Clear, Aliases!Empty
  <2> QED
    BY <2>1 DEF AliasTypes
<1>2. handlers' \in Seq(Handlers) /\ result' \in Results
  BY DEF ClearAliases, CliInv
<1> QED
  BY <1>1, <1>2, StackStays DEF ClearAliases

LEMMA RegisterHandlerKeeps ==
    ASSUME CliInv, NEW h \in Handlers, RegisterHandler(h)
    PROVE  CliInv'
<1>1. AliasTypes'
  BY DEF RegisterHandler, CliInv, AliasTypes
<1>2. handlers' \in Seq(Handlers) /\ result' \in Results
  BY DEF RegisterHandler, CliInv, Results
<1> QED
  BY <1>1, <1>2, StackStays DEF RegisterHandler

LEMMA CliInitInv ==
    ASSUME CliInit
    PROVE  CliInv
<1>1. stack = <<>> /\ aliases = <<>> /\ handlers = <<>>
  BY DEF CliInit
<1>2. <<>> \in Seq(Frames) /\ <<>> \in Seq(Handlers) /\ Len(<<>>) = 0 /\ DOMAIN <<>> = {}
  <2> HIDE DEF Frames
  <2>1. Len(<<>>) = 0 /\ <<>> \in Seq(Frames) /\ <<>> \in Seq(Handlers)
    OBVIOUS
  <2>2. DOMAIN <<>> = 1 .. Len(<<>>)
    OBVIOUS
  <2> QED
    BY <2>1, <2>2
<1>3. Nested(<<>>)
  BY <1>2, CliParserAssumption DEF Nested
<1>4. Cardinality(Holds(<<>>)) = 0
  <2>1. Holds(<<>>) = {}
    BY <1>2 DEF Holds
  <2> QED
    BY <2>1, FS_EmptySet
<1>5. AliasTypes
  <2>1. DOMAIN aliases = {}
    BY <1>1, <1>2
  <2> QED
    BY <2>1 DEF AliasTypes
<1> QED
  BY <1>1, <1>2, <1>3, <1>4, <1>5 DEF CliInit, CliInv, TopInv, Results

LEMMA CliNextKeeps ==
    ASSUME CliInv, [CliNext]_cliVars
    PROVE  CliInv'
<1>1. CASE UNCHANGED cliVars
  <2>1. AliasTypes' /\ handlers' \in Seq(Handlers) /\ result' \in Results
    BY <1>1 DEF cliVars, CliInv, AliasTypes
  <2> QED
    BY <1>1, <2>1, StackStays DEF cliVars
<1>2. CASE Call
  BY <1>2, CallParseLineKeeps, SetAliasKeeps, RemoveAliasKeeps, ClearAliasesKeeps,
     RegisterHandlerKeeps DEF Call
<1>3. CASE Run
  BY <1>3, LineDoneKeeps, SkipStatementKeeps, ReadStatementKeeps, ExpandAliasKeeps,
     DispatchKeeps, GivenUpKeeps DEF Run
<1>4. CASE HandlerReturns
  BY <1>4, HandlerReturnsKeeps
<1> QED
  BY <1>1, <1>2, <1>3, <1>4 DEF CliNext

(* The inductive invariant of the interpreter: lines are run inside the     *)
(* handlers of others, there is one argument array for each frame that      *)
(* parsed one and for each empty expansion, and a frame carries what its    *)
(* statement says.                                                          *)
THEOREM CliInvariance == CliSpec => []CliInv
  BY CliInitInv, CliNextKeeps, PTL DEF CliSpec

(* The type invariant of the interpreter. *)
THEOREM CliTypeCorrect == CliSpec => []CliTypeOK
<1>1. ASSUME CliInv PROVE CliTypeOK
  <2>1. ToSet(handlers) \subseteq Handlers
    <3>1. handlers \in Seq(Handlers)
      BY <1>1 DEF CliInv
    <3>2. \A x \in DOMAIN handlers : handlers[x] \in Handlers
      BY <3>1
    <3> QED
      BY <3>2 DEF ToSet
  <2>2. /\ stack \in Seq(Frames) /\ Len(stack) <= MaxDepth
        /\ \A x \in DOMAIN stack : x < Len(stack) => stack[x].pc = "handling"
    BY <1>1 DEF CliInv, Nested
  <2>3. \A F \in Frames : F.pc \in {"statement", "expand", "handling"}
                          /\ F.expansions \in 0 .. MaxExpansions
    BY DEF Frames
  <2>4. \A x \in DOMAIN stack : stack[x] \in Frames
    BY <2>2
  <2>5. arrays \in Nat
    <3>1. Cardinality(Holds(stack)) \in Nat
      <4>1. CASE stack = <<>>
        <5>1. Holds(stack) = {}
          <6>1. DOMAIN stack = 1 .. 0
            BY <4>1
          <6> QED
            BY <6>1 DEF Holds
        <5> QED
          BY <5>1, FS_EmptySet
      <4>2. CASE stack # <<>>
        <5>1. /\ Cardinality(Holds(Front(stack))) \in Nat
              /\ Cardinality(Holds(stack)) =
                    Cardinality(Holds(Front(stack))) + (IF stack[Len(stack)].parsed THEN 1 ELSE 0)
          BY <2>2, <4>2, HoldsTop
        <5> QED
          BY <5>1
      <4> QED
        BY <4>1, <4>2
    <3> QED
      BY <1>1, <3>1 DEF CliInv
  <2>6. /\ DOMAIN aliases \subseteq AliasNames
        /\ \A name \in DOMAIN aliases : aliases[name] \in AliasValues
        /\ leaked \in Nat /\ result \in Results
    BY <1>1 DEF CliInv, AliasTypes
  <2> QED
    BY <2>1, <2>2, <2>3, <2>4, <2>5, <2>6 DEF CliTypeOK, Results
<1> QED
  BY <1>1, CliInvariance, PTL

(* cli_parser_parse_line frees every argument array, however the statement  *)
(* ends and whatever lines its handler runs; one is lost for each alias     *)
(* that expands to nothing.                                                 *)
THEOREM ArraysFreed == CliSpec => []ArgvBalance
<1>1. CliInv => ArgvBalance
  BY DEF CliInv, ArgvBalance, Holds
<1> QED
  BY <1>1, CliInvariance, PTL

LEMMA EndIs ==
    ASSUME NEW a \in Seq(Text), NEW b \in Seq(Text), NEW s, s = a \o b
    PROVE  EndsWith(s, b)
<1> DEFINE T == Text
<1>1. a \in Seq(T) /\ b \in Seq(T)
  OBVIOUS
<1> HIDE DEF T
<1>2. Len(a) \in 0 .. Len(s) /\ SubSeq(s, 1, Len(a)) = a
  BY <1>1
<1> QED
  BY <1>2 DEF EndsWith

(* A handler is given the command at the end of the chain of aliases, the   *)
(* words that the statement has after its name, behind those of its alias   *)
(* if it is one, and as the last ones however long the chain is.            *)
THEOREM HandlersGetWhatIsWritten == CliSpec => ArgvAsWritten
<1> DEFINE name == CommandName(Top.redir.command)
           given == Words(CommandArgs(Top.redir.command))
<1>1. ASSUME CliInv, Dispatch PROVE AsWritten
  <2>1. stack # <<>> /\ Top.pc = "expand" /\ Carried(Top) /\ Top.name \notin DOMAIN aliases
        /\ AliasTypes
    BY <1>1 DEF Dispatch, At, IsAlias, CliInv, TopInv
  <2>2. PICK G \in Frames : G = Top
    BY <1>1, <2>1, TopIs
  <2>3. G.expansions \in 0 .. MaxExpansions
    BY DEF Frames
  <2>4. name \in Text /\ given \in Seq(Text)
    BY <2>2, GivenType
  <2>5. Top.argv[1] = Top.name /\ (Top.expansions = 0 => Top.argv = <<name>> \o given)
    BY <2>1 DEF Carried
  <2>6. ASSUME AllEnded PROVE Top.name = ChainEnd(name)
    <3>1. PICK f : Chain(f, name) /\ ChainEnd(name) = f[MaxExpansions]
      BY <2>1, <2>4, <2>6, ChainIs
    <3>2. Top.name = f[Top.expansions]
      BY <2>1, <2>6, <3>1 DEF Carried
    <3>3. f[MaxExpansions] = f[Top.expansions]
      <4> HIDE DEF name
      <4> QED
        BY <2>1, <2>2, <2>3, <3>1, <3>2, ChainStays
    <3> QED
      BY <3>1, <3>2, <3>3
  <2>7. ASSUME Top.expansions = 1, Words(Expanded(<<>>, given)) = given, Ended(aliases[name])
        PROVE  Top.argv = Words(aliases[name]) \o given
    <3>1. name \in DOMAIN aliases /\ Top.argv = Words(Expanded(aliases[name], given))
      BY <2>1, <2>7 DEF Carried
    <3>2. PICK v \in Text : v = aliases[name]
      BY <2>1, <3>1, ValuesAreText DEF AliasTypes
    <3>3. Words(Expanded(v, given)) = Words(v) \o Words(Expanded(<<>>, given))
      <4> HIDE DEF given, name
      <4> QED
        BY <2>4, <2>7, <3>2, WordsOfExpanded
    <3> QED
      BY <2>7, <3>1, <3>2, <3>3
  <2>8. ASSUME PlainAliases, ReadAgain(given) PROVE EndsWith(Top.argv, given)
    <3>1. CASE Top.expansions = 0
      <4>1. Top.argv = <<name>> \o given
        BY <2>5, <3>1
      <4>2. <<name>> \in Seq(Text)
        BY <2>4
      <4> HIDE DEF name, given
      <4> QED
        BY <2>4, <4>1, <4>2, EndIs
    <3>2. CASE Top.expansions # 0
      <4>1. Top.expansions > 0
        BY <2>2, <2>3, <3>2, CliParserAssumption
      <4>2. PICK g \in Seq(Text) : Top.argv = g \o given
        BY <2>1, <2>8, <4>1 DEF Carried
      <4> HIDE DEF given
      <4> QED
        BY <2>4, <4>2, EndIs
    <3> QED
      BY <3>1, <3>2
  <2> QED
    BY <2>1, <2>5, <2>6, <2>7, <2>8 DEF AsWritten, AllEnded, ReadAgain
<1>2. CliInv /\ [CliNext]_cliVars => [Dispatch => AsWritten]_cliVars
  BY <1>1
<1> QED
  BY <1>2, CliInvariance, PTL DEF CliSpec, ArgvAsWritten

(* What may be written for an operator. *)
LEMMA WaysAre ==
    ASSUME NEW op, NEW w \in Ways(op)
    PROVE  \E file \in Optional, form \in 1 .. 4 :
               w.file = file /\ w.as = Redirected(op, file, form)
<1>1. PICK file \in Optional, form \in 1 .. 4 :
          w = [as |-> Redirected(op, file, form), file |-> file]
  BY DEF Ways
<1> QED
  BY <1>1

LEMMA OutputWaysAre ==
    ASSUME NEW output \in OutputWays
    PROVE  \E file \in Optional, form \in 1 .. 4, append \in BOOLEAN :
               /\ append => file # <<>>
               /\ output.append = append /\ output.way.file = file
               /\ output.way.as = Redirected(IF append THEN AppendTo ELSE <<">">>, file, form)
<1>1. CASE \E w \in Ways(<<">">>) : output = [way |-> w, append |-> FALSE]
  <2>1. PICK w \in Ways(<<">">>) : output = [way |-> w, append |-> FALSE]
    BY <1>1
  <2>2. output.way = w /\ output.append = FALSE
    BY <2>1
  <2> QED
    BY <2>2, WaysAre
<1>2. CASE \E w \in Ways(AppendTo) : w.file # <<>> /\ output = [way |-> w, append |-> TRUE]
  <2>1. PICK w \in Ways(AppendTo) : w.file # <<>> /\ output = [way |-> w, append |-> TRUE]
    BY <1>2
  <2>2. output.way = w /\ output.append = TRUE
    BY <2>1
  <2> QED
    BY <2>1, <2>2, WaysAre
<1> QED
  BY <1>1, <1>2 DEF OutputWays

(* A pipe, an input and an output written after a command in this order,    *)
(* each with any of the four spacings, are those that                       *)
(* cli_parser_parse_redirections returns, for files of any names; and so is *)
(* the command if there is no operator in it.                               *)
THEOREM RedirectionsApart == CliSpec => []RedirectionsToldApart
<1> DEFINE S == Char \cup Signs
<1>1. ASSUME CliInv, NEW x \in DOMAIN stack, stack[x].pc = "expand"
      PROVE  /\ stack[x].redir = Redirect(stack[x].text) /\ stack[x].redir.command \in Seq(S)
             /\ \A c \in Beginnings(stack[x].text) : c \in Seq(S)
  <2>1. stack # <<>> /\ Nested(stack)
    BY <1>1 DEF CliInv
  <2>2. stack[x] = Top /\ Top \in Frames
    <3>1. stack \in Seq(Frames) /\ Top = stack[Len(stack)] /\ Top \in Frames
      BY <1>1, <2>1, TopIs
    <3>2. ~(x < Len(stack))
      BY <1>1, <2>1 DEF Nested
    <3>3. x \in 1 .. Len(stack) /\ Len(stack) \in Nat
      BY <3>1
    <3> QED
      BY <3>1, <3>2, <3>3
  <2>3. Top.redir = Redirect(Top.text)
    BY <1>1, <2>1, <2>2 DEF CliInv, TopInv, Carried
  <2>4. Top.text \in Text
    <3>1. \A F \in Frames : F.text \in Text
      BY DEF Frames
    <3> QED
      BY <2>2, <3>1
  <2>5. Redirect(Top.text).command \in Seq(Char)
    BY <2>4, RedirectType DEF Text
  <2>6. Seq(Char) \subseteq Seq(S)
    BY SeqMonotonic
  <2>7. ASSUME NEW c \in Beginnings(Top.text) PROVE c \in Seq(Char)
    <3>1. PICK n \in 1 .. Len(Top.text) : c = SubSeq(Top.text, 1, n)
      BY DEF Beginnings
    <3>2. n \in 0 .. Len(Top.text) /\ 1 \in Nat \ {0}
      BY <2>4
    <3> QED
      BY <2>4, <3>1, <3>2, SubText DEF Text
  <2> QED
    BY <2>2, <2>3, <2>5, <2>6, <2>7
<1>2. Signs \subseteq S /\ Space \in S /\ FileNames \subseteq Seq(S)
  <2>1. STRING \subseteq S /\ Space \in S
    BY DEF Char
  <2>2. FileNames \subseteq Seq(STRING)
    BY CliParserAssumption
  <2>3. Seq(STRING) \subseteq Seq(S)
    BY <2>1, SeqMonotonic
  <2> QED
    BY <2>1, <2>2, <2>3
<1>3. ASSUME CliInv, NEW x \in DOMAIN stack, stack[x].pc = "expand",
             NEW c, c = stack[x].redir.command \/ (c \in Beginnings(stack[x].text) /\ Plain(c)),
             NEW pipe \in PipeWays, NEW input \in InputWays, NEW output \in OutputWays,
             stack[x].text = c \o pipe.as \o input.as \o output.way.as
      PROVE  Reads(stack[x].redir, c, pipe, input, output)
  <2>1. PICK s : s = stack[x].text
    OBVIOUS
  <2>2. stack[x].redir = Redirect(s) /\ (Redirect(s).command = c \/ Plain(c)) /\ c \in Seq(S)
    BY <1>1, <1>3, <2>1
  <2>3. PICK pf \in Optional, xp \in 1 .. 4 :
            pipe.file = pf /\ pipe.as = Redirected(<<"|">>, pf, xp)
    BY WaysAre DEF PipeWays
  <2>4. PICK inf \in Optional, xi \in 1 .. 4 :
            input.file = inf /\ input.as = Redirected(<<"<">>, inf, xi)
    BY WaysAre DEF InputWays
  <2>5. PICK of \in Optional, xo \in 1 .. 4, append \in BOOLEAN :
            /\ append => of # <<>>
            /\ output.append = append /\ output.way.file = of
            /\ output.way.as = Redirected(IF append THEN AppendTo ELSE <<">">>, of, xo)
    BY OutputWaysAre
  <2>6. s = WithWays(c, pf, xp, inf, xi, of, append, xo)
    BY <1>3, <2>1, <2>3, <2>4, <2>5 DEF WithWays
  <2> HIDE DEF S
  <2>7. Writes(S, s, c, pf, xp, inf, xi, of, append, xo)
    BY <1>2, <2>2, <2>5, <2>6 DEF Writes
  <2>8. Redirect(s) = [command |-> c, pipe |-> pf, input |-> inf, output |-> of, append |-> append]
    BY <2>7, RedirectIs
  <2> QED
    BY <2>2, <2>3, <2>4, <2>5, <2>8 DEF Reads
<1>4. ASSUME CliInv PROVE RedirectionsToldApart
  <2>1. ASSUME NEW x \in DOMAIN stack, stack[x].pc = "expand",
               NEW c \in {stack[x].redir.command} \cup {b \in Beginnings(stack[x].text) : Plain(b)},
               NEW pipe \in PipeWays, NEW input \in InputWays, NEW output \in OutputWays,
               stack[x].text = c \o pipe.as \o input.as \o output.way.as
        PROVE  Reads(stack[x].redir, c, pipe, input, output)
    <3>1. c = stack[x].redir.command \/ (c \in Beginnings(stack[x].text) /\ Plain(c))
      OBVIOUS
    <3> QED
      BY <1>3, <1>4, <2>1, <3>1
  <2> QED
    BY <2>1 DEF RedirectionsToldApart
<1> QED
  BY <1>4, CliInvariance, PTL
=============================================================================
