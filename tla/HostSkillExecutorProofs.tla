----------------------- MODULE HostSkillExecutorProofs -----------------------
(***************************************************************************)
(* Proofs about HostSkillExecutor and CommandLine, for any requests,       *)
(* commands, outputs and sizes of the pool.                                *)
(***************************************************************************)
EXTENDS HostSkillExecutor, FoldTheorems

-----------------------------------------------------------------------------
(* Quoting a text for the shell *)

\* Every character is a string; that these are has to be said, since the
\* provers know of no element of STRING.
Char == STRING \cup {Quote, Backslash, "|", "\""}

Text == Seq(Char)

LEMMA CharactersDiffer ==
  /\ Quote \in Char /\ Backslash \in Char /\ Quote # Backslash
  /\ Quote \notin Special /\ Backslash \notin Special
BY DEF Quote, Backslash, Char, Special

\* What ShellWord makes of one more character.
ReadChar1(s, c) ==
  CASE s.mode = "quoted" /\ c = Quote -> [s EXCEPT !.mode = "plain"]
    [] s.mode = "plain" /\ c = Quote -> [s EXCEPT !.mode = "quoted"]
    [] s.mode = "plain" /\ c = Backslash -> [s EXCEPT !.mode = "escaped"]
    [] s.mode = "plain" /\ c \in Special -> [s EXCEPT !.mode = "broken"]
    [] s.mode = "escaped" -> [mode |-> "plain", word |-> Append(s.word, c)]
    [] s.mode = "broken" -> s
    [] OTHER -> [s EXCEPT !.word = Append(@, c)]

Reading == [mode : {"quoted", "plain", "escaped", "broken"}, word : Text]

FirstReading == [mode |-> "plain", word |-> << >>]

ReadAll(text) == FoldLeft(ReadChar1, FirstReading, text)

LEMMA ShellWordIsFold ==
  ASSUME NEW text
  PROVE  ShellWord(text) = IF ReadAll(text).mode = "plain" THEN ReadAll(text).word
                           ELSE <<"broken">>
BY DEF ShellWord, ReadAll, FoldLeft, MapThenFoldSet, ReadChar1, FirstReading

LEMMA ReadTyped ==
  ASSUME NEW s \in Reading, NEW c \in Char
  PROVE  ReadChar1(s, c) \in Reading
BY DEF Reading, ReadChar1, Text

LEMMA ReadCases ==
  ASSUME NEW x, NEW c
  PROVE  /\ ReadChar1([mode |-> "plain", word |-> x], Quote)
                = [mode |-> "quoted", word |-> x]
         /\ ReadChar1([mode |-> "plain", word |-> x], Backslash)
                = [mode |-> "escaped", word |-> x]
         /\ ReadChar1([mode |-> "escaped", word |-> x], c)
                = [mode |-> "plain", word |-> Append(x, c)]
         /\ ReadChar1([mode |-> "quoted", word |-> x], Quote)
                = [mode |-> "plain", word |-> x]
         /\ c # Quote => ReadChar1([mode |-> "quoted", word |-> x], c)
                          = [mode |-> "quoted", word |-> Append(x, c)]
<1>1. /\ "quoted" # "plain" /\ "quoted" # "escaped" /\ "quoted" # "broken"
      /\ "plain" # "escaped" /\ "plain" # "broken" /\ "escaped" # "broken"
  OBVIOUS
<1>2. ASSUME NEW m
      PROVE  /\ [mode |-> m, word |-> x].mode = m
             /\ [mode |-> m, word |-> x].word = x
             /\ \A n : [[mode |-> m, word |-> x] EXCEPT !.mode = n] = [mode |-> n, word |-> x]
             /\ \A y : [[mode |-> m, word |-> x] EXCEPT !.word = y] = [mode |-> m, word |-> y]
  OBVIOUS
<1>3. ReadChar1([mode |-> "plain", word |-> x], Quote) = [mode |-> "quoted", word |-> x]
  <2>1. PICK q : q = [mode |-> "plain", word |-> x]
    OBVIOUS
  <2>2. q.mode = "plain"
    BY <1>2, <2>1
  <2>3. ReadChar1(q, Quote) = [q EXCEPT !.mode = "quoted"]
    BY <2>2, <1>1, CharactersDiffer, Zenon DEF ReadChar1
  <2> QED BY <1>2, <2>1, <2>3, Zenon
<1>4. ReadChar1([mode |-> "plain", word |-> x], Backslash) = [mode |-> "escaped", word |-> x]
  <2>1. PICK q : q = [mode |-> "plain", word |-> x]
    OBVIOUS
  <2>2. q.mode = "plain"
    BY <1>2, <2>1
  <2>3. ReadChar1(q, Backslash) = [q EXCEPT !.mode = "escaped"]
    BY <2>2, <1>1, CharactersDiffer, Zenon DEF ReadChar1
  <2> QED BY <1>2, <2>1, <2>3, Zenon
<1>5. ReadChar1([mode |-> "escaped", word |-> x], c) = [mode |-> "plain", word |-> Append(x, c)]
  <2>1. PICK q : q = [mode |-> "escaped", word |-> x]
    OBVIOUS
  <2>2. q.mode = "escaped" /\ q.word = x
    BY <1>2, <2>1
  <2>3. ReadChar1(q, c) = [mode |-> "plain", word |-> Append(q.word, c)]
    BY <2>2, <1>1, Zenon DEF ReadChar1
  <2> QED BY <2>1, <2>2, <2>3, Zenon
<1>6. ReadChar1([mode |-> "quoted", word |-> x], Quote) = [mode |-> "plain", word |-> x]
  <2>1. PICK q : q = [mode |-> "quoted", word |-> x]
    OBVIOUS
  <2>2. q.mode = "quoted"
    BY <1>2, <2>1
  <2>3. ReadChar1(q, Quote) = [q EXCEPT !.mode = "plain"]
    BY <2>2, <1>1, Zenon DEF ReadChar1
  <2> QED BY <1>2, <2>1, <2>3, Zenon
<1>7. ASSUME c # Quote
      PROVE  ReadChar1([mode |-> "quoted", word |-> x], c)
               = [mode |-> "quoted", word |-> Append(x, c)]
  <2>1. PICK q : q = [mode |-> "quoted", word |-> x]
    OBVIOUS
  <2>2. q.mode = "quoted" /\ q.word = x
    BY <1>2, <2>1
  <2>3. ReadChar1(q, c) = [q EXCEPT !.word = Append(q.word, c)]
    BY <2>2, <1>1, <1>7, Zenon DEF ReadChar1
  <2> QED BY <1>2, <2>1, <2>2, <2>3, Zenon
<1> QED BY <1>3, <1>4, <1>5, <1>6, <1>7

LEMMA ReadAllAppend ==
  ASSUME NEW text \in Text, NEW c \in Char
  PROVE  /\ ReadAll(<< >>) = FirstReading
         /\ ReadAll(text) \in Reading
         /\ ReadAll(Append(text, c)) = ReadChar1(ReadAll(text), c)
<1> DEFINE H == [x \in Char |-> [s \in Reading |-> ReadChar1(s, x)]]
<1>1. H \in [Char -> [Reading -> Reading]]
  BY ReadTyped
<1>2. FirstReading \in Reading
  BY DEF FirstReading, Reading, Text
<1>3. ASSUME NEW seq \in Text
      PROVE  \E f : /\ FoldsFor(Reading, f, seq, FirstReading, H)
                    /\ ReadAll(seq) = f[DOMAIN seq]
  <2> DEFINE Eq(h) ==
        h = [s \in SUBSET (DOMAIN seq) |->
               IF s = {} THEN FirstReading
               ELSE ReadChar1(h[s \ {Max(s)}], seq[Max(s)])]
  <2>1. PICK f \in [SUBSET (DOMAIN seq) -> Reading] :
          FoldOver(Reading, f, seq, FirstReading, H)
    <3> HIDE DEF H
    <3> QED BY <1>1, <1>2, FoldForExists DEF Text
  <2>2. Eq(f)
    <3>1. ASSUME NEW s \in SUBSET (DOMAIN seq), s # {}
          PROVE  f[s] = ReadChar1(f[s \ {Max(s)}], seq[Max(s)])
      <4>1. /\ Max(s) \in DOMAIN seq /\ f[s \ {Max(s)}] \in Reading
            /\ f[s] = H[seq[Max(s)]][f[s \ {Max(s)}]]
        BY <2>1, <3>1 DEF FoldOver
      <4>2. seq[Max(s)] \in Char
        BY <4>1 DEF Text
      <4> QED BY <4>1, <4>2
    <3>2. f[{}] = FirstReading
      BY <2>1 DEF FoldOver
    <3> QED BY <3>1, <3>2
  <2>3. Eq(CHOOSE h : Eq(h))
    <3> HIDE DEF Eq
    <3> QED BY <2>2, Zenon
  <2>4. ReadAll(seq) = (CHOOSE h : Eq(h))[DOMAIN seq]
    BY DEF ReadAll, FoldLeft, MapThenFoldSet
  <2> DEFINE g == CHOOSE h : Eq(h)
  <2>5. FoldsFor(Reading, g, seq, FirstReading, H)
    <3> HIDE DEF g
    <3>1. Eq(g)
      BY <2>3 DEF g
    <3>2. g[{}] = FirstReading
      BY <3>1
    <3>3. ASSUME NEW s \in SUBSET (DOMAIN seq), s # {}, g[s \ {Max(s)}] \in Reading
          PROVE  g[s] = H[seq[Max(s)]][g[s \ {Max(s)}]]
      <4>1. g[s] = ReadChar1(g[s \ {Max(s)}], seq[Max(s)])
        BY <3>1, <3>3
      <4>2. seq[Max(s)] \in Char
        <5>1. Max(s) \in DOMAIN seq
          BY <2>1, <3>3 DEF FoldOver
        <5> QED BY <5>1 DEF Text
      <4> QED BY <4>1, <4>2, <3>3
    <3> QED BY <3>2, <3>3 DEF FoldsFor
  <2> QED BY <2>4, <2>5
<1> HIDE DEF H
<1>4. ReadAll(<< >>) = FirstReading
  <2>1. << >> \in Text
    BY DEF Text
  <2> QED BY <1>3, <2>1, FoldForEmpty
<1>5. PICK f : FoldsFor(Reading, f, text, FirstReading, H) /\ ReadAll(text) = f[DOMAIN text]
  BY <1>3
<1>6. PICK g : /\ FoldsFor(Reading, g, Append(text, c), FirstReading, H)
               /\ ReadAll(Append(text, c)) = g[DOMAIN Append(text, c)]
  <2>1. Append(text, c) \in Text
    BY AppendProperties DEF Text
  <2> QED BY <1>3, <2>1
<1>7. StepsTo(Reading, f, g, text, c, H)
  <2>1. text \in Seq(Char)
    BY DEF Text
  <2> QED BY <1>1, <1>2, <1>5, <1>6, <2>1, FoldForAppend
<1> QED BY <1>4, <1>5, <1>6, <1>7 DEF H, StepsTo

\* What shell_escape makes of one character, and of a text.
QuotedChar(c) == IF c = Quote THEN <<Quote, Backslash, Quote, Quote>> ELSE <<c>>

Escaped(text) == FlattenSeq([i \in DOMAIN text |-> QuotedChar(text[i])])

LEMMA EscapedAppend ==
  ASSUME NEW text \in Text, NEW c \in Char
  PROVE  /\ Escaped(<< >>) = << >>
         /\ Escaped(text) \in Text
         /\ Escaped(Append(text, c)) = Escaped(text) \o QuotedChar(c)
<1> DEFINE seqs == [i \in DOMAIN text |-> QuotedChar(text[i])]
           more == [i \in DOMAIN Append(text, c) |-> QuotedChar(Append(text, c)[i])]
<1>1. \A x \in Char : QuotedChar(x) \in Seq(Char)
  BY CharactersDiffer DEF QuotedChar
<1>2. text \in Seq(Char)
  BY DEF Text
<1>3. seqs \in Seq(Seq(Char)) /\ Len(seqs) = Len(text)
  <2>1. seqs \in [1 .. Len(text) -> Seq(Char)]
    BY <1>1, <1>2
  <2> HIDE DEF seqs
  <2> QED BY <1>2, <2>1
<1>4. more = Append(seqs, QuotedChar(c))
  <2>1. /\ DOMAIN Append(text, c) = 1 .. Len(text) + 1
        /\ \A i \in 1 .. Len(text) : Append(text, c)[i] = text[i]
        /\ Append(text, c)[Len(text) + 1] = c
        /\ Len(text) \in Nat /\ DOMAIN text = 1 .. Len(text)
    BY <1>2
  <2>2. more = [i \in 1 .. Len(text) + 1 |->
                  IF i = Len(text) + 1 THEN QuotedChar(c) ELSE QuotedChar(text[i])]
    BY <2>1
  <2>3. /\ DOMAIN Append(seqs, QuotedChar(c)) = 1 .. Len(text) + 1
        /\ \A i \in 1 .. Len(text) : Append(seqs, QuotedChar(c))[i] = seqs[i]
        /\ Append(seqs, QuotedChar(c))[Len(text) + 1] = QuotedChar(c)
        /\ Append(seqs, QuotedChar(c)) = [i \in 1 .. Len(text) + 1 |->
                                            Append(seqs, QuotedChar(c))[i]]
    <3>1. PICK q : q = QuotedChar(c) /\ q \in Seq(Char)
      BY <1>1
    <3>2. PICK n \in Nat : n = Len(text)
      BY <2>1
    <3> HIDE DEF seqs
    <3>3. /\ DOMAIN Append(seqs, q) = 1 .. n + 1
          /\ \A i \in 1 .. n : Append(seqs, q)[i] = seqs[i]
          /\ Append(seqs, q)[n + 1] = q
          /\ Append(seqs, q) \in Seq(Seq(Char)) /\ Len(Append(seqs, q)) = n + 1
      BY <1>3, <3>1, <3>2, AppendProperties
    <3>4. Append(seqs, q) = [i \in 1 .. n + 1 |-> Append(seqs, q)[i]]
      <4>1. PICK a \in Seq(Seq(Char)) : a = Append(seqs, q)
        BY <3>3
      <4>2. a = [i \in 1 .. Len(a) |-> a[i]]
        OBVIOUS
      <4> QED BY <3>3, <4>1, <4>2
    <3> QED BY <3>1, <3>2, <3>3, <3>4
  <2> QED BY <2>1, <2>2, <2>3
<1>5. Escaped(<< >>) = << >>
  <2>1. [i \in DOMAIN << >> |-> QuotedChar(<< >>[i])] = << >>
    OBVIOUS
  <2> QED BY <2>1, FlattenEmpty DEF Escaped
<1> HIDE DEF seqs, more
<1>6. /\ FlattenSeq(seqs) \in Seq(Char)
      /\ FlattenSeq(more) = FlattenSeq(seqs) \o QuotedChar(c)
  BY <1>1, <1>3, <1>4, FlattenAppend
<1> QED BY <1>5, <1>6 DEF Escaped, seqs, more, Text

\* Within the quotes the shell reads the text that was escaped.
LEMMA ReadEscaped ==
  ASSUME NEW text \in Text
  PROVE  ReadAll(<<Quote>> \o Escaped(text)) = [mode |-> "quoted", word |-> text]
<1> DEFINE Holds(x) == ReadAll(<<Quote>> \o Escaped(x)) = [mode |-> "quoted", word |-> x]
           S == {m \in 0 .. Len(text) : Holds(SubSeq(text, 1, m))}
<1>1. text \in Seq(Char)
  BY DEF Text
<1>2. Holds(<< >>)
  <2>1. << >> \in Text /\ <<Quote>> \o << >> = Append(<< >>, Quote)
    BY CharactersDiffer DEF Text
  <2>2. ReadAll(Append(<< >>, Quote)) = ReadChar1(FirstReading, Quote)
    BY <2>1, CharactersDiffer, ReadAllAppend
  <2>3. ReadChar1(FirstReading, Quote) = [mode |-> "quoted", word |-> << >>]
    BY ReadCases DEF FirstReading
  <2>4. Escaped(<< >>) = << >>
    BY <2>1, CharactersDiffer, EscapedAppend
  <2> QED BY <2>1, <2>2, <2>3, <2>4
<1>3. ASSUME NEW x \in Text, NEW c \in Char, Holds(x)
      PROVE  Holds(Append(x, c))
  <2>1. PICK t \in Text : t = <<Quote>> \o Escaped(x)
    <3>1. <<Quote>> \in Seq(Char) /\ Escaped(x) \in Seq(Char)
      BY CharactersDiffer, EscapedAppend DEF Text
    <3> QED BY <3>1, ConcatProperties DEF Text
  <2>2. ReadAll(t) = [mode |-> "quoted", word |-> x]
    BY <1>3, <2>1
  <2>3. <<Quote>> \o Escaped(Append(x, c)) = t \o QuotedChar(c)
    <3>1. Escaped(Append(x, c)) = Escaped(x) \o QuotedChar(c)
      BY EscapedAppend
    <3>2. <<Quote>> \in Seq(Char) /\ Escaped(x) \in Seq(Char)
            /\ QuotedChar(c) \in Seq(Char)
      <4>1. Escaped(x) \in Seq(Char)
        BY EscapedAppend DEF Text
      <4> QED BY <4>1, CharactersDiffer DEF QuotedChar
    <3>3. \A a, b, d \in Seq(Char) : a \o (b \o d) = (a \o b) \o d
      BY ConcatAssociative
    <3> QED BY <2>1, <3>1, <3>2, <3>3
  <2>4. CASE c # Quote
    <3>1. t \o QuotedChar(c) = Append(t, c)
      BY <2>4 DEF QuotedChar, Text
    <3>2. ReadAll(Append(t, c)) = ReadChar1([mode |-> "quoted", word |-> x], c)
      BY <2>2, ReadAllAppend
    <3>3. ReadChar1([mode |-> "quoted", word |-> x], c) =
            [mode |-> "quoted", word |-> Append(x, c)]
      BY <2>4, ReadCases
    <3> QED BY <2>3, <3>1, <3>2, <3>3
  <2>5. CASE c = Quote
    <3> DEFINE t1 == Append(t, Quote)
               t2 == Append(t1, Backslash)
               t3 == Append(t2, Quote)
               t4 == Append(t3, Quote)
    <3>1. t1 \in Text /\ t2 \in Text /\ t3 \in Text
      BY CharactersDiffer, AppendProperties DEF Text
    <3>2. t \o QuotedChar(c) = t4
      BY <2>5, CharactersDiffer DEF QuotedChar, Text
    <3> HIDE DEF t1, t2, t3, t4
    <3>3. ReadAll(t1) = [mode |-> "plain", word |-> x]
      <4>1. ReadAll(t1) = ReadChar1([mode |-> "quoted", word |-> x], Quote)
        BY <2>2, CharactersDiffer, ReadAllAppend DEF t1
      <4> QED BY <4>1, ReadCases
    <3>4. ReadAll(t2) = [mode |-> "escaped", word |-> x]
      <4>1. ReadAll(t2) = ReadChar1([mode |-> "plain", word |-> x], Backslash)
        BY <3>1, <3>3, CharactersDiffer, ReadAllAppend DEF t2
      <4> QED BY <4>1, ReadCases
    <3>5. ReadAll(t3) = [mode |-> "plain", word |-> Append(x, Quote)]
      <4>1. ReadAll(t3) = ReadChar1([mode |-> "escaped", word |-> x], Quote)
        BY <3>1, <3>4, CharactersDiffer, ReadAllAppend DEF t3
      <4> QED BY <4>1, ReadCases
    <3>6. ReadAll(t4) = [mode |-> "quoted", word |-> Append(x, Quote)]
      <4>1. ReadAll(t4) = ReadChar1([mode |-> "plain", word |-> Append(x, Quote)], Quote)
        BY <3>1, <3>5, CharactersDiffer, ReadAllAppend DEF t4
      <4> QED BY <4>1, ReadCases
    <3> QED BY <2>3, <2>5, <3>2, <3>6
  <2> QED BY <2>4, <2>5
<1> HIDE DEF Holds
<1>4. 0 \in S
  <2>1. SubSeq(text, 1, 0) = << >> /\ Len(text) \in Nat
    BY <1>1
  <2>2. Holds(SubSeq(text, 1, 0))
    BY <1>2, <2>1, Zenon
  <2> QED BY <2>1, <2>2
<1>5. \A m \in 0 .. Len(text) - 1 : m \in S => m + 1 \in S
  <2> SUFFICES ASSUME NEW m \in 0 .. Len(text) - 1, m \in S
               PROVE  m + 1 \in S
    BY Zenon
  <2>1. /\ SubSeq(text, 1, m) \in Text /\ text[m + 1] \in Char
        /\ SubSeq(text, 1, m + 1) = Append(SubSeq(text, 1, m), text[m + 1])
    BY <1>1, PrefixAppend DEF Text
  <2>2. Holds(SubSeq(text, 1, m + 1))
    BY <1>3, <2>1
  <2> QED BY <2>2
<1> HIDE DEF S
<1>6. Len(text) \in S
  <2>1. Len(text) \in Nat
    BY <1>1
  <2>2. \A m \in 0 .. Len(text) : m \in S
    BY <2>1, <1>4, <1>5, InductionUpTo, Zenon
  <2> QED BY <2>1, <2>2
<1>7. Holds(text)
  <2>1. Holds(SubSeq(text, 1, Len(text)))
    BY <1>6 DEF S
  <2> QED BY <1>1, <2>1, WholePrefix
<1> QED BY <1>7 DEF Holds

\* shell_escape (host_skill_executor.cpp): whatever the text, the shell makes
\* of what it is quoted to one word, and that word is the text.
THEOREM QuotingIsUndone ==
  \A text \in Seq(STRING) : ShellWord(ShellEscape(text)) = text
<1> SUFFICES ASSUME NEW text \in Seq(STRING)
             PROVE  ShellWord(ShellEscape(text)) = text
  OBVIOUS
<1> DEFINE t == <<Quote>> \o Escaped(text)
<1>1. text \in Text
  <2>1. STRING \subseteq Char
    BY DEF Char
  <2> QED BY <2>1, SeqOfMore DEF Text
<1>2. t \in Text
  BY <1>1, CharactersDiffer, EscapedAppend, ConcatProperties DEF Text
<1>3. ReadAll(t) = [mode |-> "quoted", word |-> text]
  BY <1>1, ReadEscaped
<1>4. ShellEscape(text) = t \o <<Quote>>
  BY Zenon DEF ShellEscape, Escaped, QuotedChar
<1> HIDE DEF t
<1>5. t \o <<Quote>> = Append(t, Quote)
  BY <1>2, CharactersDiffer DEF Text
<1>6. ReadAll(Append(t, Quote)) = ReadChar1([mode |-> "quoted", word |-> text], Quote)
  BY <1>2, <1>3, CharactersDiffer, ReadAllAppend
<1>7. ReadChar1([mode |-> "quoted", word |-> text], Quote) = [mode |-> "plain", word |-> text]
  BY ReadCases
<1>8. ReadAll(Append(t, Quote)) = [mode |-> "plain", word |-> text]
  BY <1>6, <1>7
<1>9. ShellWord(ShellEscape(text)) = ReadAll(Append(t, Quote)).word
  <2>1. ReadAll(Append(t, Quote)).mode = "plain"
    BY <1>8
  <2> QED BY <1>4, <1>5, <2>1, ShellWordIsFold
<1> QED BY <1>8, <1>9

-----------------------------------------------------------------------------
(* The sizes of what a child writes *)

Sizes(w) == FoldLeft(LAMBDA n, p : n + p.size, 0, w)

LEMMA SizesAppend ==
  ASSUME NEW w \in Seq(Piece), NEW p \in Piece
  PROVE  /\ Sizes(<< >>) = 0
         /\ Sizes(w) \in Nat
         /\ Sizes(Append(w, p)) = Sizes(w) + p.size
<1> DEFINE H == [q \in Piece |-> [n \in Nat |-> n + q.size]]
<1>1. \A q \in Piece : q.size \in Nat
  BY DEF Piece
<1>2. H \in [Piece -> [Nat -> Nat]]
  BY <1>1
<1>3. ASSUME NEW seq \in Seq(Piece)
      PROVE  \E f : FoldsFor(Nat, f, seq, 0, H) /\ Sizes(seq) = f[DOMAIN seq]
  <2> DEFINE Eq(h) ==
        h = [s \in SUBSET (DOMAIN seq) |->
               IF s = {} THEN 0 ELSE h[s \ {Max(s)}] + seq[Max(s)].size]
             g == CHOOSE h : Eq(h)
  <2>1. PICK f \in [SUBSET (DOMAIN seq) -> Nat] : FoldOver(Nat, f, seq, 0, H)
    <3> HIDE DEF H
    <3> QED BY <1>2, FoldForExists
  <2>2. \A s \in SUBSET (DOMAIN seq) : s # {} => seq[Max(s)] \in Piece
    <3>1. \A k \in DOMAIN seq : seq[k] \in Piece
      OBVIOUS
    <3> QED BY <2>1, <3>1, Zenon DEF FoldOver
  <2>3. Eq(f)
    <3>1. ASSUME NEW s \in SUBSET (DOMAIN seq), s # {}
          PROVE  f[s] = f[s \ {Max(s)}] + seq[Max(s)].size
      <4>1. f[s \ {Max(s)}] \in Nat /\ f[s] = H[seq[Max(s)]][f[s \ {Max(s)}]]
        BY <2>1, <3>1 DEF FoldOver
      <4> QED BY <2>2, <3>1, <4>1
    <3>2. f[{}] = 0
      BY <2>1 DEF FoldOver
    <3> QED BY <3>1, <3>2
  <2>4. Eq(g)
    <3> HIDE DEF Eq
    <3> QED BY <2>3, Zenon
  <2>5. Sizes(seq) = g[DOMAIN seq]
    BY DEF Sizes, FoldLeft, MapThenFoldSet
  <2> HIDE DEF g
  <2>6. FoldsFor(Nat, g, seq, 0, H)
    <3>1. g[{}] = 0
      BY <2>4
    <3>2. ASSUME NEW s \in SUBSET (DOMAIN seq), s # {}, g[s \ {Max(s)}] \in Nat
          PROVE  g[s] = H[seq[Max(s)]][g[s \ {Max(s)}]]
      <4>1. g[s] = g[s \ {Max(s)}] + seq[Max(s)].size
        BY <2>4, <3>2
      <4> QED BY <2>2, <3>2, <4>1
    <3> QED BY <3>1, <3>2 DEF FoldsFor
  <2> QED BY <2>5, <2>6
<1> HIDE DEF H
<1>4. Sizes(<< >>) = 0
  <2>1. << >> \in Seq(Piece)
    OBVIOUS
  <2>2. PICK f : FoldsFor(Nat, f, << >>, 0, H) /\ Sizes(<< >>) = f[DOMAIN << >>]
    BY <1>3, <2>1
  <2> QED BY <2>2, FoldForEmpty
<1>5. PICK f : FoldsFor(Nat, f, w, 0, H) /\ Sizes(w) = f[DOMAIN w]
  BY <1>3
<1>6. PICK g : /\ FoldsFor(Nat, g, Append(w, p), 0, H)
               /\ Sizes(Append(w, p)) = g[DOMAIN Append(w, p)]
  BY <1>3, AppendProperties
<1>7. StepsTo(Nat, f, g, w, p, H)
  BY <1>2, <1>5, <1>6, FoldForAppend
<1> QED BY <1>1, <1>4, <1>5, <1>6, <1>7 DEF H, StepsTo

\* Of the first m pieces.
SizeUpTo(w, m) == Sizes(SubSeq(w, 1, m))

LEMMA SizeUpToGrows ==
  ASSUME NEW w \in Seq(Piece)
  PROVE  /\ SizeUpTo(w, 0) = 0
         /\ SizeUpTo(w, Len(w)) = Sizes(w)
         /\ \A m \in 0 .. Len(w) :
              SizeUpTo(w, m) \in Nat /\ SizeUpTo(w, m) <= Sizes(w)
         /\ \A m \in 0 .. Len(w) - 1 :
              SizeUpTo(w, m + 1) = SizeUpTo(w, m) + w[m + 1].size
<1>1. \A q \in Piece : q.size \in Nat
  BY DEF Piece
<1>2. ASSUME NEW m \in 0 .. Len(w) - 1
      PROVE  /\ SizeUpTo(w, m + 1) = SizeUpTo(w, m) + w[m + 1].size
             /\ SizeUpTo(w, m) \in Nat
             /\ w[m + 1].size \in Nat
  <2>1. /\ SubSeq(w, 1, m) \in Seq(Piece) /\ w[m + 1] \in Piece
        /\ SubSeq(w, 1, m + 1) = Append(SubSeq(w, 1, m), w[m + 1])
    BY PrefixAppend
  <2> QED BY <1>1, <2>1, SizesAppend DEF SizeUpTo
<1>3. \E p : p \in Piece
  <2>1. [size |-> 1, seen |-> 0, newline |-> FALSE] \in Piece
    BY DEF Piece
  <2> QED BY <2>1
<1>4. SizeUpTo(w, 0) = 0 /\ SizeUpTo(w, Len(w)) = Sizes(w) /\ Sizes(w) \in Nat
  <2>1. SubSeq(w, 1, 0) = << >> /\ SubSeq(w, 1, Len(w)) = w
    BY WholePrefix
  <2> QED BY <1>3, <2>1, SizesAppend DEF SizeUpTo
<1> DEFINE n == Len(w)
           S == {d \in 0 .. n : SizeUpTo(w, n - d) \in Nat /\ SizeUpTo(w, n - d) <= Sizes(w)}
<1>5. n \in Nat
  OBVIOUS
<1>6. 0 \in S
  BY <1>4
<1>7. \A d \in 0 .. n - 1 : d \in S => d + 1 \in S
  <2> SUFFICES ASSUME NEW d \in 0 .. n - 1, d \in S
               PROVE  d + 1 \in S
    BY Zenon
  <2>0. n - (d + 1) \in 0 .. n - 1 /\ n - (d + 1) + 1 = n - d
    <3> HIDE DEF n
    <3> QED BY <1>5
  <2>1. PICK m \in 0 .. n - 1 : m = n - (d + 1) /\ m + 1 = n - d
    BY <2>0
  <2>2. SizeUpTo(w, m + 1) = SizeUpTo(w, m) + w[m + 1].size
    BY <1>2
  <2>3. SizeUpTo(w, m) \in Nat /\ w[m + 1].size \in Nat
    BY <1>2
  <2>4. SizeUpTo(w, m + 1) <= Sizes(w)
    BY <2>1
  <2>5. SizeUpTo(w, m) <= Sizes(w)
    BY <1>4, <2>2, <2>3, <2>4
  <2> QED BY <2>1, <2>3, <2>5
<1> HIDE DEF S
<1>8. \A d \in 0 .. n : d \in S
  BY <1>5, <1>6, <1>7, InductionUpTo, Zenon
<1>9. ASSUME NEW m \in 0 .. n
      PROVE  SizeUpTo(w, m) \in Nat /\ SizeUpTo(w, m) <= Sizes(w)
  <2>1. PICK d \in 0 .. n : m = n - d
    <3> HIDE DEF n
    <3>1. n - m \in 0 .. n /\ m = n - (n - m)
      BY <1>5
    <3> QED BY <3>1
  <2> QED BY <1>8, <2>1 DEF S
<1> QED BY <1>2, <1>4, <1>9

-----------------------------------------------------------------------------
(* Counting *)

\* A count u becomes w, and n makes up for it.
LEMMA Balance ==
  ASSUME NEW m \in Nat, NEW n \in Nat, NEW c \in Nat, NEW u \in Nat, NEW w \in Nat,
         NEW x \in Nat, NEW y \in Nat,
         w + x = u + y, n + y <= m + x, m + u <= c
  PROVE  n + w <= c
OBVIOUS

-----------------------------------------------------------------------------
(* One execute: what is known of it at each stage *)

AllSeen(w) == \A p \in Range(w) : p.seen = p.size

Command(j) == scenario.jobs[j].command

\* The last byte that was seen of the first n pieces is a newline.
EndsAt(w, n) ==
  \E i \in 1 .. n :
    /\ w[i].newline /\ w[i].seen = w[i].size
    /\ \A k \in i + 1 .. n : w[k].seen = 0

\* The result that is returned, for ResultTellsRun.
Told(j, e) ==
  /\ e.result.success => e.child # << >>
  /\ e.child # << >> /\ e.result.truncated =>
       Sizes(Writes(j)) > MaxOutput /\ e.result.output <= MaxOutput + Marker
  /\ e.child # << >> /\ ~e.result.truncated /\ MaxOutput > 0 =>
       e.result.output <= MaxOutput
  /\ e.result.success /\ ~e.result.truncated =>
       /\ scenario.jobs[j].ends \in {"zero", "signal"}
       /\ AllSeen(Writes(j)) =>
            e.result.output = IF LastIsNewline(j) THEN Sizes(Writes(j)) - 1
                              ELSE Sizes(Writes(j))

\* A child that is read, or has been.  A newline at the end is a byte of the output.
ReadsRight(j, e) ==
  /\ e.child = <<Command(j)>>
  /\ ~e.result.success
  /\ e.result.output <= SizeUpTo(Writes(j), e.piece)
  /\ AllSeen(Writes(j)) => e.result.output = SizeUpTo(Writes(j), e.piece)
  /\ EndsAt(Writes(j), e.piece) => e.result.output >= 1
  /\ MaxOutput > 0 => e.result.output <= MaxOutput
  /\ e.result.truncated =>
       e.pc = "close" /\ MaxOutput > 0 /\ Sizes(Writes(j)) > MaxOutput
  /\ e.pc = "close" /\ ~e.result.truncated => e.piece = Len(Writes(j))

Early == {"out", "queued", "validate"}

StageOk(j, e) ==
  /\ e.pc \in Early => e.input = << >>
  /\ e.pc = "unget" => e.hand # "none"
  /\ e.pc \in Early \cup Asking \cup {"start"} =>
       e.child = << >> /\ e.piece = 0 /\ e.result = Failed
  /\ e.pc \in {"read", "close"} => ReadsRight(j, e)
  /\ e.pc \in {"record", "done"} => Told(j, e)
  /\ e.child \in {<< >>, <<Command(j)>>}
  /\ e.piece <= Len(Writes(j))

\* The queue holds jobs that wait in it, each once.
QueueOk ==
  /\ \A j \in Jobs : j > arrived => exec[j].pc = "out"
  /\ \A p \in 1 .. Len(queue) : exec[queue[p]].pc = "queued"
  /\ \A p, q \in 1 .. Len(queue) : queue[p] = queue[q] => p = q

ExecInv ==
  /\ scenario \in Scenarios
  /\ arrived \in 0 .. Len(scenario.jobs)
  /\ queue \in Seq(Jobs)
  /\ exec \in [Jobs -> Exec]
  /\ QueueOk
  /\ \A j \in Jobs : StageOk(j, exec[j])

TerminalOk ==
  /\ terminal \in [typed : Seq(Keys), eof : BOOLEAN, cin : {"good", "eof", "fail"}]
  /\ verdict \in [Jobs -> {"none", "asked", "yes", "no"}]
  /\ mixed \in BOOLEAN
  /\ recent \in Seq(Jobs) /\ recorded \in Seq(Jobs)

HInv == ExecInv /\ TerminalOk

USE HostSkillExecutorAssumption

LEMMA ScenarioFacts ==
  ASSUME scenario \in Scenarios
  PROVE  /\ scenario \in Scenario
         /\ Len(scenario.jobs) \in Nat
         /\ Jobs = 1 .. Len(scenario.jobs)
<1>1. scenario \in Scenario
  BY HostSkillExecutorAssumption
<1>2. scenario.jobs \in Seq(Job)
  BY <1>1 DEF Scenario
<1> QED BY <1>1, <1>2 DEF Jobs

LEMMA JobFacts ==
  ASSUME scenario \in Scenarios, NEW j \in Jobs
  PROVE  /\ Command(j) \in Seq(STRING)
         /\ Writes(j) \in Seq(Piece) /\ Len(Writes(j)) \in Nat
         /\ scenario.jobs[j].ends \in Ends
         /\ \A m \in 1 .. Len(Writes(j)) :
              /\ Writes(j)[m] \in Piece /\ Writes(j)[m] \in Range(Writes(j))
              /\ Writes(j)[m].size \in Nat /\ Writes(j)[m].seen \in Nat
              /\ Writes(j)[m].seen <= Writes(j)[m].size /\ Writes(j)[m].size >= 1
<1>1. scenario \in Scenario
  BY ScenarioFacts
<1>2. scenario.jobs \in Seq(Job)
  BY <1>1 DEF Scenario
<1>3. scenario.jobs[j] \in Job
  BY <1>2 DEF Jobs
<1>4. Writes(j) \in Seq(Piece)
  BY <1>3 DEF Job, Writes
<1>5. \A p \in Range(Writes(j)) : p.seen <= p.size
  BY HostSkillExecutorAssumption DEF Jobs, Writes
<1>6. ASSUME NEW m \in 1 .. Len(Writes(j))
      PROVE  Writes(j)[m] \in Piece /\ Writes(j)[m] \in Range(Writes(j))
  BY <1>4 DEF Range
<1>7. \A p \in Piece : p.size \in Nat /\ p.size >= 1 /\ p.seen \in Nat
  BY DEF Piece
<1>8. Command(j) \in Seq(STRING) /\ scenario.jobs[j].ends \in Ends
  BY <1>3 DEF Job, Command
<1>9. Len(Writes(j)) \in Nat
  BY <1>4
<1> QED BY <1>4, <1>5, <1>6, <1>7, <1>8, <1>9

PCs == Asking \cup {"out", "queued", "validate", "start", "read", "close", "record", "done"}

LEMMA ExecFields ==
  ASSUME NEW e \in Exec
  PROVE  /\ e.pc \in PCs /\ e.input \in Seq({"y", "n"})
         /\ e.hand \in Keys \cup {"none"}
         /\ e.child \in Seq(Seq(STRING)) /\ e.piece \in Nat
         /\ e.result \in Result
         /\ e.result.success \in BOOLEAN /\ e.result.truncated \in BOOLEAN
         /\ e.result.output \in Nat
BY DEF Exec, Result, PCs

LEMMA FailedIsResult ==
  /\ Failed \in Result /\ ~Failed.success /\ ~Failed.truncated
  /\ Failed.output = 0
BY DEF Failed, Result

\* Only the stage of an execution changes.
LEMMA GotoMoves ==
  ASSUME exec \in [Jobs -> Exec], NEW j \in Jobs, NEW pc \in PCs, Goto(j, pc)
  PROVE  \E e \in Exec :
           /\ exec' = [exec EXCEPT ![j] = e]
           /\ e.pc = pc /\ e.input = exec[j].input
           /\ e.hand = exec[j].hand /\ e.child = exec[j].child
           /\ e.piece = exec[j].piece /\ e.result = exec[j].result
<1> DEFINE e == [exec[j] EXCEPT !.pc = pc]
<1>1. e \in Exec
  BY DEF Exec, PCs
<1>2. /\ e.pc = pc /\ e.input = exec[j].input
      /\ e.hand = exec[j].hand /\ e.child = exec[j].child
      /\ e.piece = exec[j].piece /\ e.result = exec[j].result
  BY DEF Exec
<1>3. exec' = [exec EXCEPT ![j] = e]
  BY DEF Goto
<1> HIDE DEF e
<1> QED BY <1>1, <1>2, <1>3

LEMMA FailMoves ==
  ASSUME exec \in [Jobs -> Exec], NEW j \in Jobs, Fail(j)
  PROVE  \E e \in Exec :
           /\ exec' = [exec EXCEPT ![j] = e]
           /\ e.pc = "record" /\ e.input = exec[j].input
           /\ e.hand = exec[j].hand /\ e.child = exec[j].child
           /\ e.piece = exec[j].piece /\ e.result = Failed
<1> DEFINE e == [exec[j] EXCEPT !.pc = "record", !.result = Failed]
<1>1. e \in Exec
  BY FailedIsResult DEF Exec
<1>2. /\ e.pc = "record" /\ e.input = exec[j].input
      /\ e.hand = exec[j].hand /\ e.child = exec[j].child
      /\ e.piece = exec[j].piece /\ e.result = Failed
  BY DEF Exec
<1>3. exec' = [exec EXCEPT ![j] = e]
  BY DEF Fail
<1> HIDE DEF e
<1> QED BY <1>1, <1>2, <1>3

\* A step of execute: one job goes on, and what is known of it is kept.
Moves(j, e) ==
  /\ exec' = [exec EXCEPT ![j] = e]
  /\ StageOk(j, e)
  /\ exec[j].pc \notin {"out", "queued"} /\ e.pc \notin {"out", "queued"}

LEMMA FailStageOk ==
  ASSUME NEW j \in Jobs, NEW e, StageOk(j, exec[j]),
         e.pc = "record", e.child = exec[j].child, e.piece = exec[j].piece,
         e.result = Failed
  PROVE  StageOk(j, e)
BY FailedIsResult DEF StageOk, Early, Asking, Told

LEMMA ValidateMoves ==
  ASSUME ExecInv, NEW j \in Jobs, Validate(j)
  PROVE  \E e \in Exec : Moves(j, e)
<1>1. exec \in [Jobs -> Exec] /\ StageOk(j, exec[j]) /\ exec[j].pc = "validate"
  BY DEF ExecInv, Validate, At
<1>2. CASE ~Accepted(j)
  <2>1. Fail(j)
    BY <1>2 DEF Validate
  <2> QED BY <1>1, <2>1, FailMoves, FailStageOk DEF Moves
<1>3. CASE Accepted(j)
  <2>1. PICK pc \in {"ask", "start"} : Goto(j, pc)
    BY <1>3 DEF Validate
  <2>2. PICK e \in Exec :
          /\ exec' = [exec EXCEPT ![j] = e]
          /\ e.pc = pc /\ e.input = exec[j].input
          /\ e.hand = exec[j].hand /\ e.child = exec[j].child
          /\ e.piece = exec[j].piece /\ e.result = exec[j].result
    BY <1>1, <2>1, GotoMoves DEF PCs, Asking
  <2>3. StageOk(j, e)
    BY <1>1, <2>1, <2>2 DEF StageOk, Early, Asking
  <2> QED BY <1>1, <2>1, <2>2, <2>3 DEF Moves
<1> QED BY <1>2, <1>3

\* What getline and the callback make of execution j when the line ends.
Decided(j, e, cin) ==
  /\ e.input = exec[j].input /\ e.hand = exec[j].hand
  /\ \/ /\ e.pc = "start" /\ e.result = exec[j].result
        /\ cin # "fail" /\ Approved(exec[j].input)
     \/ e.pc = "record" /\ e.result = Failed

LEMMA LineEndsDoes ==
  ASSUME exec \in [Jobs -> Exec], NEW j \in Jobs, NEW rest, NEW cin,
         LineEnds(j, rest, cin)
  PROVE  \E e \in Exec :
           /\ exec' = [exec EXCEPT ![j] = e]
           /\ e.child = exec[j].child /\ e.piece = exec[j].piece
           /\ Decided(j, e, cin)
<1>1. CASE cin # "fail" /\ Approved(exec[j].input)
  <2>1. Goto(j, "start")
    BY <1>1 DEF LineEnds
  <2> QED BY <1>1, <2>1, GotoMoves DEF PCs, Decided
<1>2. CASE ~(cin # "fail" /\ Approved(exec[j].input))
  <2>1. Fail(j)
    BY <1>2 DEF LineEnds
  <2> QED BY <2>1, FailMoves DEF Decided
<1> QED BY <1>1, <1>2

\* What a step of the thread at the terminal does: execution j becomes e, and
\* "typed" and "cin" are what it leaves of the terminal.
AskStep(j, e, typed, cin) ==
  /\ exec[j].pc = "ask" /\ typed = terminal.typed /\ e.hand = exec[j].hand
  /\ \/ /\ e.pc = "peek" /\ e.input = exec[j].input /\ e.result = exec[j].result
        /\ cin = terminal.cin
     \/ terminal.cin # "good" /\ cin = "fail" /\ Decided(j, e, cin)

PeekStep(j, e, typed, cin) ==
  /\ exec[j].pc = "peek" /\ terminal.typed # << >>
  /\ e.pc = "unget" /\ e.hand = Head(terminal.typed)
  /\ e.input = exec[j].input /\ e.result = exec[j].result
  /\ typed = Tail(terminal.typed) /\ cin = terminal.cin

UngetStep(j, e, typed, cin) ==
  /\ exec[j].pc = "unget" /\ e.hand = "none" /\ e.result = exec[j].result
  /\ typed = <<exec[j].hand>> \o terminal.typed /\ cin = terminal.cin
  /\ \/ exec[j].hand = "newline" /\ e.pc = "drop" /\ e.input = exec[j].input
     \/ /\ exec[j].hand \in {"y", "n"} /\ e.pc = "take"
        /\ e.input = Append(exec[j].input, exec[j].hand)

TakeStep(j, e, typed, cin) ==
  /\ exec[j].pc = "take" /\ terminal.typed # << >>
  /\ e.pc = "peek" /\ e.input = exec[j].input /\ e.hand = exec[j].hand
  /\ e.result = exec[j].result
  /\ typed = Tail(terminal.typed) /\ cin = terminal.cin

DropStep(j, e, typed, cin) ==
  /\ exec[j].pc = "drop" /\ terminal.typed # << >>
  /\ typed = Tail(terminal.typed) /\ cin = terminal.cin /\ Decided(j, e, cin)

EndStep(j, e, typed, cin) ==
  /\ exec[j].pc \in {"peek", "take", "drop"}
  /\ terminal.typed = << >> /\ terminal.eof /\ typed = << >>
  /\ cin \in {"good", "eof", "fail"} /\ Decided(j, e, cin)

TerminalStep(j, e, typed, cin) ==
  \/ AskStep(j, e, typed, cin) \/ PeekStep(j, e, typed, cin)
  \/ UngetStep(j, e, typed, cin) \/ TakeStep(j, e, typed, cin)
  \/ DropStep(j, e, typed, cin) \/ EndStep(j, e, typed, cin)

\* A step of the thread at the terminal.
AsksOn(j, e, typed, cin) ==
  /\ exec' = [exec EXCEPT ![j] = e]
  /\ e.child = exec[j].child /\ e.piece = exec[j].piece
  /\ terminal' = [typed |-> typed, eof |-> terminal.eof, cin |-> cin]
  /\ TerminalStep(j, e, typed, cin)

AsksOnSome(j) ==
  \E e \in Exec, typed \in Seq(Keys), cin \in {"good", "eof", "fail"} :
    AsksOn(j, e, typed, cin)

LEMMA TerminalFields ==
  ASSUME TerminalOk
  PROVE  /\ terminal.typed \in Seq(Keys) /\ terminal.eof \in BOOLEAN
         /\ terminal.cin \in {"good", "eof", "fail"}
         /\ \A typed \in Seq(Keys), cin \in {"good", "eof", "fail"} :
              [terminal EXCEPT !.typed = typed, !.cin = cin] =
                [typed |-> typed, eof |-> terminal.eof, cin |-> cin]
         /\ \A typed \in Seq(Keys) :
              [terminal EXCEPT !.typed = typed] =
                [typed |-> typed, eof |-> terminal.eof, cin |-> terminal.cin]
         /\ terminal =
              [typed |-> terminal.typed, eof |-> terminal.eof, cin |-> terminal.cin]
<1>1. PICK t \in Seq(Keys), b \in BOOLEAN, c \in {"good", "eof", "fail"} :
        terminal = [typed |-> t, eof |-> b, cin |-> c]
  BY DEF TerminalOk
<1>2. terminal.typed = t /\ terminal.eof = b /\ terminal.cin = c
  BY <1>1
<1>3. ASSUME NEW typed \in Seq(Keys), NEW cin \in {"good", "eof", "fail"}
      PROVE  [terminal EXCEPT !.typed = typed, !.cin = cin] =
               [typed |-> typed, eof |-> b, cin |-> cin]
  <2> DEFINE r == [terminal EXCEPT !.typed = typed, !.cin = cin]
  <2>1. /\ r \in [typed : Seq(Keys), eof : BOOLEAN, cin : {"good", "eof", "fail"}]
        /\ r.typed = typed /\ r.eof = b /\ r.cin = cin
    BY <1>2 DEF TerminalOk
  <2> HIDE DEF r
  <2>2. r = [typed |-> typed, eof |-> b, cin |-> cin]
    BY <2>1
  <2> QED BY <2>2 DEF r
<1>4. ASSUME NEW typed \in Seq(Keys)
      PROVE  [terminal EXCEPT !.typed = typed] = [typed |-> typed, eof |-> b, cin |-> c]
  <2> DEFINE r == [terminal EXCEPT !.typed = typed]
  <2>1. /\ r \in [typed : Seq(Keys), eof : BOOLEAN, cin : {"good", "eof", "fail"}]
        /\ r.typed = typed /\ r.eof = b /\ r.cin = c
    BY <1>2 DEF TerminalOk
  <2> HIDE DEF r
  <2>2. r = [typed |-> typed, eof |-> b, cin |-> c]
    BY <2>1
  <2> QED BY <2>2 DEF r
<1> QED BY <1>1, <1>2, <1>3, <1>4

LEMMA TailTyped ==
  ASSUME HInv, terminal.typed # << >>,
         terminal' = [terminal EXCEPT !.typed = Tail(@)]
  PROVE  /\ Tail(terminal.typed) \in Seq(Keys)
         /\ terminal' = [typed |-> Tail(terminal.typed), eof |-> terminal.eof,
                         cin |-> terminal.cin]
<1>1. Tail(terminal.typed) \in Seq(Keys)
  <2>1. PICK text \in Seq(Keys) : text = terminal.typed
    BY TerminalFields DEF HInv
  <2>2. Tail(text) \in Seq(Keys)
    BY <2>1
  <2> QED BY <2>1, <2>2
<1>2. terminal' = [terminal EXCEPT !.typed = Tail(terminal.typed)]
  OBVIOUS
<1> QED BY <1>1, <1>2, TerminalFields DEF HInv

LEMMA AskDoes ==
  ASSUME HInv, NEW j \in Jobs, Ask(j)
  PROVE  AsksOnSome(j)
<1>1. exec \in [Jobs -> Exec] /\ exec[j].pc = "ask"
  BY DEF HInv, ExecInv, Ask, At
<1>2. terminal.typed \in Seq(Keys) /\ terminal.cin \in {"good", "eof", "fail"}
  BY TerminalFields DEF HInv
<1>3. CASE Goto(j, "peek") /\ UNCHANGED terminal
  <2>1. PICK e \in Exec :
          /\ exec' = [exec EXCEPT ![j] = e]
          /\ e.pc = "peek" /\ e.input = exec[j].input
          /\ e.hand = exec[j].hand /\ e.child = exec[j].child
          /\ e.piece = exec[j].piece /\ e.result = exec[j].result
    BY <1>1, <1>3, GotoMoves DEF PCs, Asking
  <2>2. AsksOn(j, e, terminal.typed, terminal.cin)
    BY <1>1, <1>3, <2>1, TerminalFields DEF HInv, AsksOn, TerminalStep, AskStep
  <2> QED BY <1>2, <2>2 DEF AsksOnSome
<1>4. CASE terminal.cin # "good" /\ LineEnds(j, terminal.typed, "fail")
  <2>1. PICK e \in Exec :
          /\ exec' = [exec EXCEPT ![j] = e]
          /\ e.child = exec[j].child /\ e.piece = exec[j].piece
          /\ Decided(j, e, "fail")
    BY <1>1, <1>4, LineEndsDoes
  <2>2. terminal' = [typed |-> terminal.typed, eof |-> terminal.eof, cin |-> "fail"]
    BY <1>4, TerminalFields DEF HInv, LineEnds
  <2>3. e.hand = exec[j].hand
    BY <2>1 DEF Decided
  <2>4. AsksOn(j, e, terminal.typed, "fail")
    BY <1>1, <1>4, <2>1, <2>2, <2>3 DEF AsksOn, TerminalStep, AskStep
  <2> QED BY <1>2, <2>4 DEF AsksOnSome
<1> QED BY <1>3, <1>4 DEF Ask

LEMMA InputEndsDoes ==
  ASSUME HInv, NEW j \in Jobs, exec[j].pc \in {"peek", "take", "drop"},
         terminal.typed = << >>, terminal.eof,
         NEW cin \in {"good", "eof", "fail"}, LineEnds(j, << >>, cin)
  PROVE  AsksOnSome(j)
<1>1. exec \in [Jobs -> Exec] /\ << >> \in Seq(Keys)
  BY DEF HInv, ExecInv
<1>2. PICK e \in Exec :
        /\ exec' = [exec EXCEPT ![j] = e]
        /\ e.child = exec[j].child /\ e.piece = exec[j].piece
        /\ Decided(j, e, cin)
  BY <1>1, LineEndsDoes
<1>3. terminal' = [typed |-> << >>, eof |-> terminal.eof, cin |-> cin]
  BY TerminalFields DEF HInv, LineEnds
<1>4. AsksOn(j, e, << >>, cin)
  BY <1>2, <1>3 DEF AsksOn, TerminalStep, EndStep
<1> QED BY <1>1, <1>4 DEF AsksOnSome

LEMMA PeekDoes ==
  ASSUME HInv, NEW j \in Jobs, Peek(j)
  PROVE  AsksOnSome(j)
<1>1. exec \in [Jobs -> Exec] /\ exec[j].pc = "peek" /\ exec[j] \in Exec
  BY DEF HInv, ExecInv, Peek, At
<1>2. terminal.typed \in Seq(Keys) /\ terminal.cin \in {"good", "eof", "fail"}
  BY TerminalFields DEF HInv
<1>3. CASE InputEnds(j)
  <2>1. PICK cin \in {"good", "eof", "fail"} : LineEnds(j, << >>, cin)
    BY <1>3 DEF InputEnds
  <2> QED BY <1>1, <1>3, <2>1, InputEndsDoes DEF InputEnds
<1>4. CASE /\ terminal.typed # << >>
           /\ exec' = [exec EXCEPT ![j].pc = "unget", ![j].hand = Head(terminal.typed)]
           /\ terminal' = [terminal EXCEPT !.typed = Tail(@)]
  <2>1. PICK c \in Keys : c = Head(terminal.typed)
    BY <1>2, <1>4
  <2> DEFINE e == [exec[j] EXCEPT !.pc = "unget", !.hand = c]
  <2>2. exec' = [exec EXCEPT ![j] = e]
    BY <1>4, <2>1
  <2>3. /\ e \in Exec /\ e.pc = "unget" /\ e.hand = c /\ e.input = exec[j].input
        /\ e.result = exec[j].result /\ e.child = exec[j].child
        /\ e.piece = exec[j].piece
    BY <1>1 DEF Exec, Asking
  <2> HIDE DEF e
  <2>4. /\ Tail(terminal.typed) \in Seq(Keys)
        /\ terminal' = [typed |-> Tail(terminal.typed), eof |-> terminal.eof,
                        cin |-> terminal.cin]
    BY <1>2, <1>4, TailTyped
  <2>5. AsksOn(j, e, Tail(terminal.typed), terminal.cin)
    BY <1>1, <1>4, <2>1, <2>2, <2>3, <2>4 DEF AsksOn, TerminalStep, PeekStep
  <2> QED BY <1>2, <2>3, <2>4, <2>5 DEF AsksOnSome
<1> QED BY <1>3, <1>4 DEF Peek

LEMMA UngetDoes ==
  ASSUME HInv, NEW j \in Jobs, Unget(j)
  PROVE  AsksOnSome(j)
<1>1. /\ exec \in [Jobs -> Exec] /\ exec[j].pc = "unget" /\ exec[j] \in Exec
      /\ exec[j].hand # "none"
  BY DEF HInv, ExecInv, Unget, At, StageOk
<1>2. PICK c \in Keys : c = exec[j].hand
  BY <1>1, ExecFields
<1>3. terminal.typed \in Seq(Keys) /\ terminal.cin \in {"good", "eof", "fail"}
  BY TerminalFields DEF HInv
<1>4. /\ <<c>> \o terminal.typed \in Seq(Keys)
      /\ terminal' = [typed |-> <<c>> \o terminal.typed, eof |-> terminal.eof,
                      cin |-> terminal.cin]
  <2>1. <<c>> \in Seq(Keys)
    OBVIOUS
  <2>2. terminal' = [terminal EXCEPT !.typed = <<c>> \o @]
    BY <1>2 DEF Unget
  <2> QED BY <1>3, <2>1, <2>2, ConcatProperties, TerminalFields DEF HInv
<1>5. CASE c = "newline"
  <2> DEFINE e == [exec[j] EXCEPT !.pc = "drop", !.hand = "none"]
  <2>1. exec' = [exec EXCEPT ![j] = e]
    BY <1>2, <1>5 DEF Unget
  <2>2. /\ e \in Exec /\ e.pc = "drop" /\ e.hand = "none" /\ e.input = exec[j].input
        /\ e.result = exec[j].result /\ e.child = exec[j].child
        /\ e.piece = exec[j].piece
    BY <1>1 DEF Exec, Asking
  <2> HIDE DEF e
  <2>3. AsksOn(j, e, <<c>> \o terminal.typed, terminal.cin)
    BY <1>1, <1>2, <1>4, <1>5, <2>1, <2>2 DEF AsksOn, TerminalStep, UngetStep
  <2> QED BY <1>3, <1>4, <2>2, <2>3 DEF AsksOnSome
<1>6. CASE c # "newline"
  <2>0. c \in {"y", "n"}
    BY <1>6 DEF Keys
  <2>1. PICK line \in Seq({"y", "n"}) : line = Append(exec[j].input, c)
    BY <1>1, <2>0, ExecFields, AppendProperties
  <2> DEFINE e == [exec[j] EXCEPT !.pc = "take", !.hand = "none", !.input = line]
  <2>2. exec' = [exec EXCEPT ![j] = e]
    BY <1>2, <1>6, <2>1 DEF Unget
  <2>3. /\ e \in Exec /\ e.pc = "take" /\ e.hand = "none" /\ e.input = line
        /\ e.result = exec[j].result /\ e.child = exec[j].child
        /\ e.piece = exec[j].piece
    BY <1>1 DEF Exec, Asking
  <2> HIDE DEF e
  <2>4. AsksOn(j, e, <<c>> \o terminal.typed, terminal.cin)
    BY <1>1, <1>2, <1>4, <2>0, <2>1, <2>2, <2>3 DEF AsksOn, TerminalStep, UngetStep
  <2> QED BY <1>3, <1>4, <2>3, <2>4 DEF AsksOnSome
<1> QED BY <1>5, <1>6

LEMMA TakeDoes ==
  ASSUME HInv, NEW j \in Jobs, Take(j)
  PROVE  AsksOnSome(j)
<1>1. exec \in [Jobs -> Exec] /\ exec[j].pc = "take"
  BY DEF HInv, ExecInv, Take, At
<1>2. terminal.typed \in Seq(Keys) /\ terminal.cin \in {"good", "eof", "fail"}
  BY TerminalFields DEF HInv
<1>3. CASE InputEnds(j)
  <2>1. PICK cin \in {"good", "eof", "fail"} : LineEnds(j, << >>, cin)
    BY <1>3 DEF InputEnds
  <2> QED BY <1>1, <1>3, <2>1, InputEndsDoes DEF InputEnds
<1>4. CASE /\ terminal.typed # << >> /\ Goto(j, "peek")
           /\ terminal' = [terminal EXCEPT !.typed = Tail(@)]
  <2>1. PICK e \in Exec :
          /\ exec' = [exec EXCEPT ![j] = e]
          /\ e.pc = "peek" /\ e.input = exec[j].input
          /\ e.hand = exec[j].hand /\ e.child = exec[j].child
          /\ e.piece = exec[j].piece /\ e.result = exec[j].result
    BY <1>1, <1>4, GotoMoves DEF PCs, Asking
  <2>2. /\ Tail(terminal.typed) \in Seq(Keys)
        /\ terminal' = [typed |-> Tail(terminal.typed), eof |-> terminal.eof,
                        cin |-> terminal.cin]
    BY <1>2, <1>4, TailTyped
  <2>3. AsksOn(j, e, Tail(terminal.typed), terminal.cin)
    BY <1>1, <1>4, <2>1, <2>2 DEF AsksOn, TerminalStep, TakeStep
  <2> QED BY <1>2, <2>2, <2>3 DEF AsksOnSome
<1> QED BY <1>3, <1>4 DEF Take

LEMMA DropDoes ==
  ASSUME HInv, NEW j \in Jobs, Drop(j)
  PROVE  AsksOnSome(j)
<1>1. exec \in [Jobs -> Exec] /\ exec[j].pc = "drop"
  BY DEF HInv, ExecInv, Drop, At
<1>2. terminal.typed \in Seq(Keys) /\ terminal.cin \in {"good", "eof", "fail"}
  BY TerminalFields DEF HInv
<1>3. CASE /\ terminal.typed = << >> /\ terminal.eof
           /\ LineEnds(j, << >>, terminal.cin)
  BY <1>1, <1>2, <1>3, InputEndsDoes
<1>4. CASE /\ terminal.typed # << >>
           /\ LineEnds(j, Tail(terminal.typed), terminal.cin)
  <2>1. PICK e \in Exec :
          /\ exec' = [exec EXCEPT ![j] = e]
          /\ e.child = exec[j].child /\ e.piece = exec[j].piece
          /\ Decided(j, e, terminal.cin)
    BY <1>1, <1>4, LineEndsDoes
  <2>2. /\ Tail(terminal.typed) \in Seq(Keys)
        /\ terminal' = [typed |-> Tail(terminal.typed), eof |-> terminal.eof,
                        cin |-> terminal.cin]
    <3>1. Tail(terminal.typed) \in Seq(Keys)
      BY <1>2, <1>4
    <3> QED BY <1>2, <1>4, <3>1, TerminalFields DEF HInv, LineEnds
  <2>3. AsksOn(j, e, Tail(terminal.typed), terminal.cin)
    BY <1>1, <1>4, <2>1, <2>2 DEF AsksOn, TerminalStep, DropStep
  <2> QED BY <1>2, <2>2, <2>3 DEF AsksOnSome
<1> QED BY <1>3, <1>4 DEF Drop

Asks(j) == Ask(j) \/ Peek(j) \/ Unget(j) \/ Take(j) \/ Drop(j)

LEMMA AsksDoes ==
  ASSUME HInv, NEW j \in Jobs, Asks(j)
  PROVE  /\ AsksOnSome(j)
         /\ UNCHANGED <<scenario, arrived, queue, verdict, mixed, recent, recorded>>
<1>1. UNCHANGED <<scenario, arrived, queue, verdict, mixed, recent, recorded>>
  BY DEF Asks, Ask, Peek, Unget, Take, Drop
<1> QED BY <1>1, AskDoes, PeekDoes, UngetDoes, TakeDoes, DropDoes DEF Asks

LEMMA AsksMoves ==
  ASSUME HInv, NEW j \in Jobs, Asks(j)
  PROVE  \E e \in Exec : Moves(j, e)
<1>1. PICK e \in Exec, typed \in Seq(Keys), cin \in {"good", "eof", "fail"} :
        AsksOn(j, e, typed, cin)
  BY AsksDoes DEF AsksOnSome
<1>2. /\ exec[j].pc \in Asking /\ e.pc \in Asking \cup {"start", "record"}
      /\ e.pc \in Asking \cup {"start"} => e.result = exec[j].result
      /\ e.pc = "record" => e.result = Failed
      /\ e.pc = "unget" => e.hand = Head(terminal.typed) /\ terminal.typed # << >>
  BY <1>1 DEF AsksOn, TerminalStep, AskStep, PeekStep, UngetStep, TakeStep, DropStep,
              EndStep, Decided, Asking
<1>3. StageOk(j, exec[j]) /\ e.child = exec[j].child /\ e.piece = exec[j].piece
  BY <1>1 DEF HInv, ExecInv, AsksOn
<1>4. CASE e.pc = "record"
  <2>1. StageOk(j, e)
    BY <1>2, <1>3, <1>4, FailStageOk
  <2> QED BY <1>1, <1>2, <1>4, <2>1 DEF Moves, AsksOn, Asking
<1>5. CASE e.pc \in Asking \cup {"start"}
  <2>1. e.pc = "unget" => e.hand # "none"
    <3>1. terminal.typed \in Seq(Keys)
      BY TerminalFields DEF HInv
    <3>2. terminal.typed # << >> => Head(terminal.typed) \in Keys
      BY <3>1
    <3> QED BY <1>2, <3>2 DEF Keys
  <2>2. StageOk(j, e)
    BY <1>2, <1>3, <1>5, <2>1 DEF StageOk, Early, Asking
  <2> QED BY <1>1, <1>2, <1>5, <2>2 DEF Moves, AsksOn, Asking
<1> QED BY <1>2, <1>4, <1>5

LEMMA PopenMoves ==
  ASSUME ExecInv, NEW j \in Jobs, Popen(j)
  PROVE  \E e \in Exec : Moves(j, e)
<1>1. exec \in [Jobs -> Exec] /\ StageOk(j, exec[j]) /\ exec[j].pc = "start"
  BY DEF ExecInv, At, Popen
<1>2. CASE Fail(j)
  BY <1>1, <1>2, FailMoves, FailStageOk DEF Moves
<1>3. CASE exec' = [exec EXCEPT ![j].pc = "read",
                               ![j].child = <<ShellWord(ShellEscape(Command(j)))>>]
  <2>1. ShellWord(ShellEscape(Command(j))) = Command(j) /\ Command(j) \in Seq(STRING)
    <3>1. Command(j) \in Seq(STRING)
      BY JobFacts DEF ExecInv
    <3> QED BY <3>1, QuotingIsUndone
  <2> DEFINE e == [exec[j] EXCEPT !.pc = "read", !.child = <<Command(j)>>]
  <2>2. exec' = [exec EXCEPT ![j] = e]
    BY <1>3, <2>1
  <2>3. e \in Exec
    <3>1. <<Command(j)>> \in Seq(Seq(STRING))
      BY <2>1
    <3> QED BY <1>1, <3>1 DEF Exec
  <2>4. /\ e.pc = "read" /\ e.child = <<Command(j)>>
        /\ e.piece = exec[j].piece /\ e.result = exec[j].result
    BY <1>1 DEF Exec
  <2> HIDE DEF e
  <2>5. StageOk(j, e)
    <3>1. e.piece = 0 /\ e.result = Failed
      BY <1>1, <2>4 DEF StageOk, Early, Asking
    <3>2. SizeUpTo(Writes(j), 0) = 0 /\ Len(Writes(j)) \in Nat
      BY JobFacts, SizeUpToGrows DEF ExecInv
    <3>3. ~EndsAt(Writes(j), 0)
      BY DEF EndsAt
    <3> QED BY <2>4, <3>1, <3>2, <3>3, FailedIsResult DEF StageOk, Early, Asking, ReadsRight
  <2> QED BY <1>1, <2>2, <2>3, <2>4, <2>5 DEF Moves
<1> QED BY <1>2, <1>3 DEF Popen, Command

\* Pieces are seen as they are, as far as strlen sees them.
LEMMA FgetsMoves ==
  ASSUME ExecInv, NEW j \in Jobs, Fgets(j)
  PROVE  \E e \in Exec : Moves(j, e)
<1>1. exec \in [Jobs -> Exec] /\ StageOk(j, exec[j]) /\ exec[j].pc = "read"
  BY DEF ExecInv, At, Fgets
<1>2. PICK f \in Exec : f = exec[j]
  BY <1>1
<1>3. PICK w \in Seq(Piece) : w = Writes(j)
  BY JobFacts DEF ExecInv
<1>4. PICK m \in 0 .. Len(w) - 1 : m = f.piece
  <2>1. f.piece \in Nat /\ f.piece < Len(w) /\ Len(w) \in Nat
    BY <1>2, <1>3, ExecFields DEF Fgets
  <2> QED BY <2>1
<1>5. PICK n \in Nat : n = f.result.output
  BY <1>2, ExecFields
<1>6. PICK piece \in Piece : /\ piece = w[m + 1] /\ piece.seen \in Nat /\ piece.size \in Nat
                             /\ piece.seen <= piece.size /\ piece.size >= 1
                             /\ piece \in Range(w)
  <2>1. m + 1 \in 1 .. Len(w)
    BY <1>4
  <2> QED BY <1>3, <2>1, JobFacts DEF ExecInv
<1>7. /\ SizeUpTo(w, m) \in Nat /\ Sizes(w) \in Nat
      /\ SizeUpTo(w, m + 1) = SizeUpTo(w, m) + piece.size
      /\ SizeUpTo(w, m + 1) <= Sizes(w)
  <2>1. m + 1 \in 0 .. Len(w) /\ m \in 0 .. Len(w) /\ Len(w) \in 0 .. Len(w)
    BY <1>4
  <2> QED BY <1>4, <1>6, <2>1, SizeUpToGrows
<1>8. ReadsRight(j, f) /\ f.child = <<Command(j)>>
  BY <1>1, <1>2 DEF StageOk, ReadsRight
<1>9. IF Fits(n, piece)
      THEN exec' = [exec EXCEPT ![j].piece = @ + 1, ![j].result.output = @ + piece.seen]
      ELSE exec' = [exec EXCEPT ![j].pc = "close", ![j].result.truncated = TRUE]
  BY <1>2, <1>3, <1>4, <1>5, <1>6, Zenon DEF Fgets
<1>10. /\ ~f.result.success
       /\ n <= SizeUpTo(w, m)
       /\ AllSeen(w) => n = SizeUpTo(w, m)
       /\ MaxOutput > 0 => n <= MaxOutput
       /\ EndsAt(w, m) => n >= 1
       /\ f.result.truncated => f.pc = "close"
  BY <1>3, <1>4, <1>5, <1>8 DEF ReadsRight
<1>11. CASE Fits(n, piece)
  <2> DEFINE r == [f.result EXCEPT !.output = n + piece.seen]
             e == [f EXCEPT !.piece = m + 1, !.result = r]
  <2>1. /\ r \in Result /\ r.success = f.result.success
        /\ r.truncated = f.result.truncated /\ r.output = n + piece.seen
    <3>1. n + piece.seen \in Nat /\ f.result \in Result
      BY <1>6, ExecFields
    <3> QED BY <3>1 DEF Result
  <2>2. exec' = [exec EXCEPT ![j] = e]
    <3>1. exec' = [exec EXCEPT ![j].piece = @ + 1, ![j].result.output = @ + piece.seen]
      BY <1>9, <1>11
    <3> QED BY <1>1, <1>2, <1>4, <1>5, <3>1
  <2> HIDE DEF r
  <2>3. /\ e \in Exec /\ e.pc = f.pc /\ e.child = f.child /\ e.piece = m + 1
        /\ e.result = r
    <3>1. m + 1 \in Nat
      BY <1>4
    <3> QED BY <2>1, <3>1 DEF Exec
  <2> HIDE DEF e
  <2>4. StageOk(j, e)
    <3>1. MaxOutput > 0 => n + piece.seen <= MaxOutput
      BY <1>11 DEF Fits
    <3>2. n + piece.seen <= SizeUpTo(w, m + 1)
      BY <1>6, <1>7, <1>10
    <3>3. AllSeen(w) => n + piece.seen = SizeUpTo(w, m + 1)
      <4>1. AllSeen(w) => piece.seen = piece.size
        BY <1>6 DEF AllSeen
      <4> QED BY <1>7, <1>10, <4>1
    <3>4. e.pc = "read" /\ e.child = <<Command(j)>>
      BY <1>1, <1>2, <1>8, <2>3
    <3>7. EndsAt(w, m + 1) => n + piece.seen >= 1
      <4> SUFFICES ASSUME EndsAt(w, m + 1)
                   PROVE  n + piece.seen >= 1
        OBVIOUS
      <4>1. PICK i \in 1 .. m + 1 :
              /\ w[i].newline /\ w[i].seen = w[i].size
              /\ \A k \in i + 1 .. m + 1 : w[k].seen = 0
        BY DEF EndsAt
      <4>2. CASE i = m + 1
        BY <1>6, <4>1, <4>2
      <4>3. CASE i # m + 1
        <5>1. i \in 1 .. m /\ m \in Nat /\ \A k \in i + 1 .. m : k \in i + 1 .. m + 1
          BY <1>4, <4>3
        <5>2. EndsAt(w, m)
          BY <4>1, <5>1 DEF EndsAt
        <5> QED BY <1>6, <1>10, <5>2
      <4> QED BY <4>2, <4>3
    <3>5. ReadsRight(j, e)
      BY <1>1, <1>2, <1>3, <1>10, <2>1, <2>3, <3>1, <3>2, <3>3, <3>4, <3>7 DEF ReadsRight
    <3>6. m + 1 <= Len(w)
      BY <1>4
    <3> QED BY <1>3, <2>3, <3>4, <3>5, <3>6 DEF StageOk, Early, Asking
  <2> QED BY <1>1, <1>2, <2>2, <2>3, <2>4 DEF Moves
<1>12. CASE ~Fits(n, piece)
  <2> DEFINE r == [f.result EXCEPT !.truncated = TRUE]
             e == [f EXCEPT !.pc = "close", !.result = r]
  <2>1. /\ r \in Result /\ r.success = f.result.success
        /\ r.truncated = TRUE /\ r.output = n
    <3>1. f.result \in Result
      BY ExecFields
    <3> QED BY <1>5, <3>1 DEF Result
  <2>2. exec' = [exec EXCEPT ![j] = e]
    <3>1. exec' = [exec EXCEPT ![j].pc = "close", ![j].result.truncated = TRUE]
      BY <1>9, <1>12
    <3> QED BY <1>1, <1>2, <3>1
  <2> HIDE DEF r
  <2>3. /\ e \in Exec /\ e.pc = "close" /\ e.child = f.child /\ e.piece = m
        /\ e.result = r
    BY <1>4, <2>1 DEF Exec
  <2> HIDE DEF e
  <2>4. StageOk(j, e)
    <3>1. MaxOutput > 0 /\ n + piece.seen > MaxOutput
      BY <1>6, <1>12 DEF Fits
    <3>2. Sizes(w) > MaxOutput
      BY <1>6, <1>7, <1>10, <3>1
    <3>3. ReadsRight(j, e)
      BY <1>3, <1>8, <1>10, <2>1, <2>3, <3>1, <3>2 DEF ReadsRight
    <3>4. m <= Len(w)
      BY <1>4
    <3> QED BY <1>3, <1>8, <2>3, <3>3, <3>4 DEF StageOk, Early, Asking
  <2> QED BY <1>1, <1>2, <2>2, <2>3, <2>4 DEF Moves
<1> QED BY <1>11, <1>12

LEMMA FgetsEndMoves ==
  ASSUME ExecInv, NEW j \in Jobs, FgetsEnd(j)
  PROVE  \E e \in Exec : Moves(j, e)
<1>1. /\ exec \in [Jobs -> Exec] /\ StageOk(j, exec[j]) /\ exec[j].pc = "read"
      /\ exec[j].piece = Len(Writes(j)) /\ Goto(j, "close")
  BY DEF ExecInv, At, FgetsEnd
<1>2. PICK e \in Exec :
        /\ exec' = [exec EXCEPT ![j] = e]
        /\ e.pc = "close" /\ e.input = exec[j].input
        /\ e.hand = exec[j].hand /\ e.child = exec[j].child
        /\ e.piece = exec[j].piece /\ e.result = exec[j].result
  BY <1>1, GotoMoves DEF PCs, Asking
<1>3. ReadsRight(j, e)
  BY <1>1, <1>2 DEF StageOk, ReadsRight
<1>4. StageOk(j, e)
  BY <1>1, <1>2, <1>3 DEF StageOk, Early, Asking
<1> QED BY <1>1, <1>2, <1>4 DEF Moves

\* What pclose makes of execution f, with the output that is returned.
Closed(f, code, ok, out) ==
  [f EXCEPT !.pc = "record",
            !.result = [success |-> ok, code |-> code, output |-> out,
                        truncated |-> f.result.truncated]]

\* A newline at the end is a byte that was counted.
LEMMA ReturnedFacts ==
  ASSUME ExecInv, NEW j \in Jobs, exec[j].pc = "close",
         NEW n \in Nat, exec[j].result.output = n
  PROVE  /\ Returned(j) \in Nat
         /\ exec[j].result.truncated => Returned(j) = n + Marker
         /\ ~exec[j].result.truncated =>
              Returned(j) = IF EndsAt(Writes(j), exec[j].piece) THEN n - 1 ELSE n
<1>1. EndsAt(Writes(j), exec[j].piece) => n >= 1
  BY DEF ExecInv, StageOk, ReadsRight
<1>2. EndsLine(j) <=> EndsAt(Writes(j), exec[j].piece)
  BY DEF EndsLine, EndsAt
<1>3. Marker \in Nat
  BY HostSkillExecutorAssumption
<1> QED BY <1>1, <1>2, <1>3 DEF Returned

\* If every byte of the output is seen, the last one ends the line.
LEMMA EndsAtLast ==
  ASSUME ExecInv, NEW j \in Jobs, AllSeen(Writes(j))
  PROVE  EndsAt(Writes(j), Len(Writes(j))) <=> LastIsNewline(j)
<1>1. PICK w \in Seq(Piece) : w = Writes(j)
  BY JobFacts DEF ExecInv
<1>2. /\ Len(w) \in Nat
      /\ \A m \in 1 .. Len(w) : w[m].seen = w[m].size /\ w[m].size >= 1 /\ w[m].size \in Nat
  BY <1>1, JobFacts DEF ExecInv, AllSeen
<1>3. ASSUME EndsAt(w, Len(w))
      PROVE  w # << >> /\ w[Len(w)].newline
  <2>1. PICK i \in 1 .. Len(w) :
          /\ w[i].newline
          /\ \A k \in i + 1 .. Len(w) : w[k].seen = 0
    BY <1>3 DEF EndsAt
  <2>2. Len(w) \in 1 .. Len(w)
    BY <1>2, <2>1
  <2>3. w[Len(w)].seen # 0
    BY <1>2, <2>2
  <2>4. Len(w) \notin i + 1 .. Len(w)
    BY <2>1, <2>3
  <2>5. i = Len(w)
    BY <1>2, <2>1, <2>4
  <2> QED BY <1>2, <2>1, <2>5
<1>4. ASSUME w # << >>, w[Len(w)].newline
      PROVE  EndsAt(w, Len(w))
  <2>1. Len(w) \in 1 .. Len(w) /\ \A k \in Len(w) + 1 .. Len(w) : FALSE
    BY <1>4, <1>2
  <2> QED BY <1>2, <1>4, <2>1 DEF EndsAt
<1> QED BY <1>1, <1>3, <1>4 DEF LastIsNewline

LEMMA PcloseDoes ==
  ASSUME ExecInv, NEW j \in Jobs, Pclose(j)
  PROVE  \E status \in Statuses(j), code \in {0, 1}, ok \in BOOLEAN :
           /\ ok <=> code = 0
           /\ code = 0 => status # "nonzero"
           /\ exec' = [exec EXCEPT ![j] = Closed(exec[j], code, ok, Returned(j))]
<1>1. PICK status \in Statuses(j) :
        exec' = [exec EXCEPT
                   ![j].pc = "record",
                   ![j].result = [success |-> (IF status = "nonzero" THEN 1 ELSE 0) = 0,
                                  code |-> IF status = "nonzero" THEN 1 ELSE 0,
                                  output |-> Returned(j),
                                  truncated |-> exec[j].result.truncated]]
  BY Zenon DEF Pclose
<1>2. PICK code \in {0, 1} : code = IF status = "nonzero" THEN 1 ELSE 0
  OBVIOUS
<1>3. PICK ok \in BOOLEAN : ok = (code = 0)
  OBVIOUS
<1>4. exec' = [exec EXCEPT
                 ![j].pc = "record",
                 ![j].result = [success |-> ok, code |-> code, output |-> Returned(j),
                                truncated |-> exec[j].result.truncated]]
  BY <1>1, <1>2, <1>3, Zenon
<1>5. exec' = [exec EXCEPT ![j] = Closed(exec[j], code, ok, Returned(j))]
  <2>1. PICK r : r = [success |-> ok, code |-> code, output |-> Returned(j),
                      truncated |-> exec[j].result.truncated]
    OBVIOUS
  <2>2. exec' = [exec EXCEPT ![j].pc = "record", ![j].result = r]
    BY <1>4, <2>1, Zenon
  <2>3. PICK f : f = [exec[j] EXCEPT !.pc = "record", !.result = r]
    OBVIOUS
  <2>4. Closed(exec[j], code, ok, Returned(j)) = f
    BY <2>1, <2>3, Zenon DEF Closed
  <2>5. exec \in [Jobs -> Exec]
    BY DEF ExecInv
  <2>6. exec' = [exec EXCEPT ![j] = f]
    BY <2>2, <2>3, <2>5
  <2> QED BY <2>4, <2>6
<1>6. ok <=> code = 0
  BY <1>3, Zenon
<1>7. code = 0 => status # "nonzero"
  BY <1>2
<1> QED BY <1>5, <1>6, <1>7, Zenon

LEMMA PcloseMoves ==
  ASSUME ExecInv, NEW j \in Jobs, Pclose(j)
  PROVE  \E e \in Exec : Moves(j, e)
<1>1. /\ exec \in [Jobs -> Exec] /\ StageOk(j, exec[j]) /\ exec[j].pc = "close"
      /\ scenario.jobs[j].ends \in Ends /\ scenario.jobs[j].ends # "never"
  BY JobFacts DEF ExecInv, At, Pclose
<1>2. PICK status \in Statuses(j), code \in {0, 1}, ok \in BOOLEAN :
        /\ ok <=> code = 0
        /\ code = 0 => status # "nonzero"
        /\ exec' = [exec EXCEPT ![j] = Closed(exec[j], code, ok, Returned(j))]
  BY PcloseDoes
<1>3. PICK f \in Exec : f = exec[j]
  BY <1>1
<1>4. PICK n \in Nat : n = f.result.output
  BY ExecFields
<1>5. PICK out \in Nat :
        /\ out = Returned(j)
        /\ f.result.truncated => out = n + Marker
        /\ ~f.result.truncated =>
             out = IF EndsAt(Writes(j), f.piece) THEN n - 1 ELSE n
  BY <1>1, <1>3, <1>4, ReturnedFacts
<1>6. PICK e \in Exec :
        /\ e = Closed(f, code, ok, out)
        /\ e.pc = "record" /\ e.child = f.child /\ e.piece = f.piece
        /\ e.result.success = ok /\ e.result.output = out
        /\ e.result.truncated = f.result.truncated
  <2> DEFINE r == [success |-> ok, code |-> code, output |-> out,
                   truncated |-> f.result.truncated]
             e == Closed(f, code, ok, out)
  <2>1. f.result.truncated \in BOOLEAN
    BY ExecFields
  <2>2. /\ r \in Result /\ r.success = ok /\ r.output = out
        /\ r.truncated = f.result.truncated
    BY <2>1 DEF Result
  <2>3. e = [f EXCEPT !.pc = "record", !.result = r]
    BY DEF Closed
  <2> HIDE DEF r
  <2>4. /\ e \in Exec /\ e.pc = "record" /\ e.child = f.child /\ e.piece = f.piece
        /\ e.result = r
    BY <2>2, <2>3 DEF Exec
  <2> QED BY <2>2, <2>4
<1>7. exec' = [exec EXCEPT ![j] = e]
  BY <1>2, <1>3, <1>5, <1>6
<1>8. ReadsRight(j, f)
  BY <1>1, <1>3 DEF StageOk
<1>9. Told(j, e)
  <2>1. e.result.success => e.child # << >>
    BY <1>6, <1>8 DEF ReadsRight
  <2>2. ASSUME e.result.truncated
        PROVE  Sizes(Writes(j)) > MaxOutput /\ e.result.output <= MaxOutput + Marker
    <3>1. Sizes(Writes(j)) > MaxOutput /\ n <= MaxOutput /\ out = n + Marker
      BY <1>4, <1>5, <1>6, <1>8, <2>2 DEF ReadsRight
    <3>2. MaxOutput \in Nat /\ Marker \in Nat
      BY HostSkillExecutorAssumption
    <3> QED BY <1>6, <3>1, <3>2
  <2>3. ASSUME ~e.result.truncated, MaxOutput > 0
        PROVE  e.result.output <= MaxOutput
    <3>1. n <= MaxOutput
      BY <1>4, <1>8, <2>3 DEF ReadsRight
    <3>2. out = n \/ out = n - 1
      BY <1>5, <1>6, <2>3
    <3>3. MaxOutput \in Nat
      BY HostSkillExecutorAssumption
    <3> QED BY <1>6, <3>1, <3>2, <3>3
  <2>4. ASSUME e.result.success, ~e.result.truncated
        PROVE  /\ scenario.jobs[j].ends \in {"zero", "signal"}
               /\ AllSeen(Writes(j)) =>
                    e.result.output = IF LastIsNewline(j) THEN Sizes(Writes(j)) - 1
                                      ELSE Sizes(Writes(j))
    <3>2. ~f.result.truncated /\ status # "nonzero"
      BY <1>2, <1>6, <2>4
    <3>3. status = scenario.jobs[j].ends
      BY <1>3, <3>2 DEF Statuses
    <3>4. scenario.jobs[j].ends \in {"zero", "signal"}
      BY <1>1, <3>2, <3>3 DEF Ends
    <3>5. f.piece = Len(Writes(j))
      BY <1>1, <1>3, <1>8, <3>2 DEF ReadsRight
    <3>6. SizeUpTo(Writes(j), Len(Writes(j))) = Sizes(Writes(j))
      BY JobFacts, SizeUpToGrows DEF ExecInv
    <3>7. ASSUME AllSeen(Writes(j))
          PROVE  e.result.output = IF LastIsNewline(j) THEN Sizes(Writes(j)) - 1
                                   ELSE Sizes(Writes(j))
      <4>1. n = Sizes(Writes(j))
        BY <1>4, <1>8, <3>5, <3>6, <3>7 DEF ReadsRight
      <4>2. EndsAt(Writes(j), f.piece) <=> LastIsNewline(j)
        BY <3>5, <3>7, EndsAtLast
      <4> QED BY <1>5, <1>6, <3>2, <4>1, <4>2
    <3> QED BY <3>4, <3>7
  <2> QED BY <2>1, <2>2, <2>3, <2>4 DEF Told
<1>10. StageOk(j, e)
  <2>1. e.child \in {<< >>, <<Command(j)>>} /\ e.piece <= Len(Writes(j))
    BY <1>1, <1>3, <1>6 DEF StageOk
  <2> QED BY <1>6, <1>9, <2>1 DEF StageOk, Early, Asking
<1> QED BY <1>1, <1>6, <1>7, <1>10 DEF Moves

LEMMA RecordMoves ==
  ASSUME ExecInv, NEW j \in Jobs, Record(j)
  PROVE  \E e \in Exec : Moves(j, e)
<1>1. /\ exec \in [Jobs -> Exec] /\ StageOk(j, exec[j]) /\ exec[j].pc = "record"
      /\ Goto(j, "done")
  BY DEF ExecInv, At, Record
<1>2. PICK e \in Exec :
        /\ exec' = [exec EXCEPT ![j] = e]
        /\ e.pc = "done" /\ e.input = exec[j].input
        /\ e.hand = exec[j].hand /\ e.child = exec[j].child
        /\ e.piece = exec[j].piece /\ e.result = exec[j].result
  BY <1>1, GotoMoves DEF PCs, Asking
<1>3. StageOk(j, e)
  BY <1>1, <1>2 DEF StageOk, Early, Asking, Told
<1> QED BY <1>1, <1>2, <1>3 DEF Moves

LEMMA ExecuteMoves ==
  ASSUME HInv, NEW j \in Jobs, Execute(j)
  PROVE  /\ \E e \in Exec : Moves(j, e)
         /\ UNCHANGED <<scenario, arrived, queue>>
<1>2. CASE Asks(j)
  BY <1>2, AsksMoves, AsksDoes
<1>3. CASE ~Asks(j)
  <2>1. UNCHANGED <<scenario, arrived, queue>>
    BY <1>3 DEF Execute, Asks, Validate, Popen, Fgets, FgetsEnd, Pclose, Record
  <2> QED
    BY <1>3, <2>1, ValidateMoves, PopenMoves, FgetsMoves, FgetsEndMoves, PcloseMoves,
       RecordMoves DEF Execute, Asks, HInv
<1> QED BY <1>2, <1>3

-----------------------------------------------------------------------------
(* The invariant of the executions *)

LEMMA JobsStay ==
  ASSUME scenario' = scenario
  PROVE  /\ Jobs' = Jobs
         /\ \A j, e : StageOk(j, e)' = StageOk(j, e)
BY DEF Jobs, StageOk, Told, ReadsRight, LastIsNewline, Writes, Command

\* StageOk of all jobs when one of them changes.
LEMMA StagesKept ==
  ASSUME ExecInv, scenario' = scenario, NEW j \in Jobs, NEW e \in Exec,
         exec' = [exec EXCEPT ![j] = e], StageOk(j, e)
  PROVE  /\ exec' \in [Jobs' -> Exec]
         /\ \A i \in Jobs' : StageOk(i, exec[i])'
<1>1. exec' \in [Jobs' -> Exec]
  BY JobsStay DEF ExecInv
<1>2. ASSUME NEW i \in Jobs'
      PROVE  StageOk(i, exec[i])'
  <2>1. i \in Jobs /\ StageOk(i, exec[i])
    BY JobsStay DEF ExecInv
  <2>2. StageOk(i, exec'[i])
    BY <1>1, <2>1 DEF ExecInv
  <2> QED BY <2>2 DEF StageOk, Told, ReadsRight, LastIsNewline, Writes, Command
<1> QED BY <1>1, <1>2

LEMMA ExecuteKeeps ==
  ASSUME HInv, NEW j \in Jobs, Execute(j)
  PROVE  ExecInv'
<1>1. PICK e \in Exec : Moves(j, e)
  BY ExecuteMoves
<1>2. UNCHANGED <<scenario, arrived, queue>>
  BY ExecuteMoves
<1>3. ExecInv /\ exec \in [Jobs -> Exec] /\ QueueOk /\ queue \in Seq(Jobs)
  BY DEF HInv, ExecInv
<1>4. exec' \in [Jobs' -> Exec] /\ \A i \in Jobs' : StageOk(i, exec[i])'
  BY <1>1, <1>2, <1>3, StagesKept DEF Moves
<1>5. QueueOk'
  <2>1. /\ exec' = [exec EXCEPT ![j] = e] /\ exec[j].pc \notin {"out", "queued"}
    BY <1>1 DEF Moves
  <2>2. ASSUME NEW i \in Jobs', i > arrived'
        PROVE  exec'[i].pc = "out"
    <3>1. i \in Jobs /\ exec[i].pc = "out"
      BY <1>2, <1>3, <2>2, JobsStay DEF QueueOk
    <3> QED BY <1>3, <2>1, <3>1
  <2>3. ASSUME NEW p \in 1 .. Len(queue)
        PROVE  exec'[queue[p]].pc = "queued"
    <3>1. queue[p] \in Jobs /\ exec[queue[p]].pc = "queued"
      BY <1>3 DEF QueueOk
    <3> QED BY <1>3, <2>1, <3>1
  <2> QED BY <1>2, <1>3, <2>2, <2>3 DEF QueueOk
<1> QED BY <1>2, <1>3, <1>4, <1>5, JobsStay DEF ExecInv

LEMMA EnqueueKeeps ==
  ASSUME HInv, Enqueue
  PROVE  ExecInv'
<1>1. /\ ExecInv /\ exec \in [Jobs -> Exec] /\ QueueOk /\ queue \in Seq(Jobs)
      /\ scenario' = scenario /\ scenario \in Scenarios
  BY DEF HInv, ExecInv, Enqueue
<1>2. PICK j \in Jobs : /\ j = arrived + 1 /\ arrived \in Nat /\ j > arrived
                       /\ j \in 0 .. Len(scenario.jobs)
  <2>1. arrived \in 0 .. Len(scenario.jobs) /\ arrived < Len(scenario.jobs)
    BY DEF HInv, ExecInv, Enqueue
  <2> QED BY <1>1, <2>1, ScenarioFacts
<1>3. arrived' = j /\ queue' = Append(queue, j) /\ Goto(j, "queued")
  BY <1>2 DEF Enqueue
<1>4. PICK e \in Exec :
        /\ exec' = [exec EXCEPT ![j] = e]
        /\ e.pc = "queued" /\ e.input = exec[j].input
        /\ e.hand = exec[j].hand /\ e.child = exec[j].child
        /\ e.piece = exec[j].piece /\ e.result = exec[j].result
  BY <1>1, <1>3, GotoMoves DEF PCs, Asking
<1>5. exec[j].pc = "out" /\ StageOk(j, exec[j])
  BY <1>1, <1>2 DEF QueueOk, ExecInv
<1>6. StageOk(j, e)
  BY <1>4, <1>5 DEF StageOk, Early, Asking
<1>7. exec' \in [Jobs' -> Exec] /\ \A i \in Jobs' : StageOk(i, exec[i])'
  BY <1>1, <1>4, <1>6, StagesKept
<1>8. QueueOk'
  <2>1. ASSUME NEW i \in Jobs', i > arrived'
        PROVE  exec'[i].pc = "out"
    <3>1. i \in Jobs /\ i \in Nat /\ i > j /\ i > arrived
      BY <1>1, <1>2, <1>3, <2>1, JobsStay, ScenarioFacts
    <3>2. exec[i].pc = "out" /\ i # j
      BY <1>1, <1>2, <3>1 DEF QueueOk
    <3> QED BY <1>1, <1>4, <3>1, <3>2
  <2>2. ASSUME NEW p \in 1 .. Len(queue)
        PROVE  queue[p] \in Jobs /\ queue[p] # j /\ exec'[queue[p]].pc = "queued"
    <3>1. queue[p] \in Jobs /\ exec[queue[p]].pc = "queued"
      BY <1>1 DEF QueueOk
    <3> QED BY <1>1, <1>4, <1>5, <3>1
  <2>3. /\ Len(queue) \in Nat /\ Len(queue') = Len(queue) + 1
        /\ \A p \in 1 .. Len(queue) : queue'[p] = queue[p]
        /\ queue'[Len(queue) + 1] = j
    BY <1>1, <1>3
  <2>4. \A p \in 1 .. Len(queue') : p \in 1 .. Len(queue) \/ p = Len(queue) + 1
    BY <2>3
  <2>5. exec'[j].pc = "queued"
    BY <1>1, <1>4
  <2>6. \A p \in 1 .. Len(queue') : exec'[queue'[p]].pc = "queued"
    BY <2>2, <2>3, <2>4, <2>5
  <2>7. \A p, q \in 1 .. Len(queue') : queue'[p] = queue'[q] => p = q
    BY <1>1, <2>2, <2>3, <2>4 DEF QueueOk
  <2> QED BY <2>1, <2>6, <2>7 DEF QueueOk
<1>9. queue' \in Seq(Jobs')
  BY <1>1, <1>3, JobsStay, AppendProperties
<1> QED BY <1>1, <1>2, <1>3, <1>7, <1>8, <1>9 DEF ExecInv

LEMMA DequeueKeeps ==
  ASSUME HInv, Dequeue
  PROVE  ExecInv'
<1>1. /\ ExecInv /\ exec \in [Jobs -> Exec] /\ QueueOk /\ queue \in Seq(Jobs)
      /\ scenario' = scenario /\ arrived' = arrived
      /\ queue # << >> /\ queue' = Tail(queue)
  BY DEF HInv, ExecInv, Dequeue
<1>2. PICK j \in Jobs : j = Head(queue) /\ j = queue[1]
  BY <1>1
<1>3. Goto(j, "validate") /\ exec[j].pc = "queued" /\ StageOk(j, exec[j])
  <2>1. 1 \in 1 .. Len(queue)
    BY <1>1
  <2> QED BY <1>1, <1>2, <2>1 DEF Dequeue, QueueOk, ExecInv
<1>4. PICK e \in Exec :
        /\ exec' = [exec EXCEPT ![j] = e]
        /\ e.pc = "validate" /\ e.input = exec[j].input
        /\ e.hand = exec[j].hand /\ e.child = exec[j].child
        /\ e.piece = exec[j].piece /\ e.result = exec[j].result
  BY <1>1, <1>3, GotoMoves DEF PCs, Asking
<1>5. StageOk(j, e)
  BY <1>3, <1>4 DEF StageOk, Early, Asking
<1>6. exec' \in [Jobs' -> Exec] /\ \A i \in Jobs' : StageOk(i, exec[i])'
  BY <1>1, <1>4, <1>5, StagesKept
<1>7. /\ Len(queue) \in Nat /\ Len(queue') = Len(queue) - 1
      /\ \A p \in 1 .. Len(queue') : p + 1 \in 1 .. Len(queue) /\ queue'[p] = queue[p + 1]
  BY <1>1
<1>8. QueueOk'
  <2>1. ASSUME NEW i \in Jobs', i > arrived'
        PROVE  exec'[i].pc = "out"
    <3>1. i \in Jobs /\ exec[i].pc = "out"
      BY <1>1, <2>1, JobsStay DEF QueueOk
    <3> QED BY <1>1, <1>3, <1>4, <3>1
  <2>2. ASSUME NEW p \in 1 .. Len(queue')
        PROVE  exec'[queue'[p]].pc = "queued"
    <3>1. p + 1 \in 1 .. Len(queue) /\ queue'[p] = queue[p + 1] /\ p + 1 # 1
          /\ 1 \in 1 .. Len(queue)
      BY <1>7
    <3>2. /\ queue[p + 1] \in Jobs /\ exec[queue[p + 1]].pc = "queued"
          /\ queue[p + 1] # j
      BY <1>1, <1>2, <3>1 DEF QueueOk
    <3> QED BY <1>1, <1>4, <3>1, <3>2
  <2>3. ASSUME NEW p \in 1 .. Len(queue'), NEW q \in 1 .. Len(queue'),
               queue'[p] = queue'[q]
        PROVE  p = q
    <3>1. p + 1 = q + 1
      BY <1>1, <1>7, <2>3 DEF QueueOk
    <3> QED BY <3>1
  <2> QED BY <2>1, <2>2, <2>3 DEF QueueOk
<1>9. queue' \in Seq(Jobs')
  BY <1>1, JobsStay
<1> QED BY <1>1, <1>6, <1>8, <1>9, JobsStay DEF ExecInv

LEMMA ExecUnchanged ==
  ASSUME ExecInv, UNCHANGED <<scenario, arrived, queue, exec>>
  PROVE  ExecInv'
<1>1. ASSUME NEW j \in Jobs'
      PROVE  StageOk(j, exec[j])'
  <2>1. StageOk(j, exec[j])
    BY <1>1, JobsStay DEF ExecInv
  <2> QED BY <2>1 DEF StageOk, Told, ReadsRight, LastIsNewline, Writes, Command
<1> QED BY <1>1, JobsStay DEF ExecInv, QueueOk, Jobs

LEMMA TerminalInit ==
  ASSUME Init
  PROVE  TerminalOk
<1>1. << >> \in Seq(Keys) /\ << >> \in Seq(Jobs)
  OBVIOUS
<1>2. terminal \in [typed : Seq(Keys), eof : BOOLEAN, cin : {"good", "eof", "fail"}]
  BY <1>1 DEF Init
<1>3. verdict \in [Jobs -> {"none", "asked", "yes", "no"}]
  BY DEF Init
<1> QED BY <1>1, <1>2, <1>3 DEF Init, TerminalOk

LEMMA TerminalKept ==
  ASSUME HInv, [Next]_vars
  PROVE  TerminalOk'
<1>1. /\ terminal \in [typed : Seq(Keys), eof : BOOLEAN, cin : {"good", "eof", "fail"}]
      /\ verdict \in [Jobs -> {"none", "asked", "yes", "no"}]
      /\ mixed \in BOOLEAN
      /\ recent \in Seq(Jobs) /\ recorded \in Seq(Jobs)
  BY DEF HInv, TerminalOk
<1>2. CASE UNCHANGED vars
  BY <1>1, <1>2 DEF vars, TerminalOk, Jobs
<1>3. CASE Enqueue \/ Dequeue
  BY <1>1, <1>3 DEF Enqueue, Dequeue, TerminalOk, Jobs
<1>4. CASE CloseInput
  BY <1>1, <1>4 DEF CloseInput, TerminalOk, Jobs
<1>5. ASSUME NEW j \in Jobs, Validate(j)
      PROVE  TerminalOk'
  <2>1. /\ scenario' = scenario /\ UNCHANGED <<terminal, recent, recorded>>
        /\ verdict' = IF Prompts(j) THEN [verdict EXCEPT ![j] = "asked"] ELSE verdict
        /\ mixed' = (mixed \/ (Prompts(j) /\ \E i \in Jobs : exec[i].pc \in Asking))
    BY <1>5 DEF Validate
  <2>2. verdict' \in [Jobs -> {"none", "asked", "yes", "no"}]
    BY <1>1, <2>1
  <2>3. mixed' \in BOOLEAN
    BY <2>1
  <2> QED BY <1>1, <2>1, <2>2, <2>3, JobsStay DEF TerminalOk
<1>6. ASSUME NEW j \in Jobs, Asks(j)
      PROVE  TerminalOk'
  <2>1. PICK e \in Exec, typed \in Seq(Keys), cin \in {"good", "eof", "fail"} :
          AsksOn(j, e, typed, cin)
    BY <1>6, AsksDoes DEF AsksOnSome
  <2>2. terminal' \in [typed : Seq(Keys), eof : BOOLEAN, cin : {"good", "eof", "fail"}]
    BY <1>1, <2>1 DEF AsksOn
  <2>3. UNCHANGED <<scenario, verdict, mixed, recent, recorded>>
    BY <1>6, AsksDoes
  <2> QED BY <1>1, <2>2, <2>3, JobsStay DEF TerminalOk
<1>7. ASSUME NEW j \in Jobs, Popen(j) \/ Fgets(j) \/ FgetsEnd(j) \/ Pclose(j)
      PROVE  TerminalOk'
  BY <1>1, <1>7 DEF Popen, Fgets, FgetsEnd, Pclose, TerminalOk, Jobs
<1>8. ASSUME NEW j \in Jobs, Record(j)
      PROVE  TerminalOk'
  <2>1. recent' \in Seq(Jobs) /\ recorded' \in Seq(Jobs)
    <3>1. recorded' = Append(recorded, j) /\ recent' = RecordLast(recent, j, MaxRecent)
      BY <1>8 DEF Record
    <3>2. Len(recent) >= MaxRecent => Tail(recent) \in Seq(Jobs)
      BY <1>1
    <3> QED BY <1>1, <3>1, <3>2, AppendProperties DEF RecordLast
  <2> QED BY <1>1, <1>8, <2>1 DEF Record, TerminalOk, Jobs
<1>9. ASSUME NEW j \in Jobs, NEW v \in {"yes", "no"}, Answer(j, v)
      PROVE  TerminalOk'
  <2>1. PICK c \in {"y", "n"} : c = IF v = "yes" THEN "y" ELSE "n"
    OBVIOUS
  <2>2. terminal' = [terminal EXCEPT !.typed = @ \o <<c, "newline">>]
    BY <1>9, <2>1 DEF Answer
  <2>3. terminal.typed \o <<c, "newline">> \in Seq(Keys)
    <3>1. <<c, "newline">> \in Seq(Keys)
      BY DEF Keys
    <3> QED BY <1>1, <3>1, ConcatProperties
  <2>4. terminal' \in [typed : Seq(Keys), eof : BOOLEAN, cin : {"good", "eof", "fail"}]
    BY <1>1, <2>2, <2>3
  <2>5. verdict' \in [Jobs -> {"none", "asked", "yes", "no"}]
    BY <1>1, <1>9 DEF Answer
  <2> QED BY <1>1, <1>9, <2>4, <2>5 DEF Answer, TerminalOk, Jobs
<1> QED
  BY <1>2, <1>3, <1>4, <1>5, <1>6, <1>7, <1>8, <1>9 DEF Next, Execute, Asks, Operator, Rest

LEMMA ExecInvInit ==
  ASSUME Init
  PROVE  ExecInv
<1>1. scenario \in Scenarios /\ Len(scenario.jobs) \in Nat /\ Jobs = 1 .. Len(scenario.jobs)
  BY ScenarioFacts DEF Init
<1>2. NotArrived \in Exec
  BY FailedIsResult DEF NotArrived, Exec
<1>3. exec \in [Jobs -> Exec] /\ \A j \in Jobs : exec[j] = NotArrived
  BY <1>2 DEF Init
<1>4. ASSUME NEW j \in Jobs
      PROVE  StageOk(j, exec[j])
  <2>1. /\ exec[j].pc = "out" /\ exec[j].input = << >> /\ exec[j].child = << >>
        /\ exec[j].piece = 0 /\ exec[j].result = Failed
    BY <1>3 DEF NotArrived
  <2>2. Len(Writes(j)) \in Nat
    BY <1>1, JobFacts
  <2> QED BY <2>1, <2>2 DEF StageOk, Early, Asking
<1>5. QueueOk
  <2>1. queue = << >> /\ \A j \in Jobs : exec[j].pc = "out"
    BY <1>3 DEF Init, NotArrived
  <2> QED BY <2>1 DEF QueueOk
<1> QED BY <1>1, <1>3, <1>4, <1>5 DEF ExecInv, Init

LEMMA HInvKept ==
  ASSUME HInv, [Next]_vars
  PROVE  HInv'
<1>1. TerminalOk'
  BY TerminalKept
<1>2. ExecInv'
  <2>1. CASE Enqueue
    BY <2>1, EnqueueKeeps
  <2>2. CASE Dequeue
    BY <2>2, DequeueKeeps
  <2>3. ASSUME NEW j \in Jobs, Execute(j)
        PROVE  ExecInv'
    BY <2>3, ExecuteKeeps
  <2>4. CASE UNCHANGED <<scenario, arrived, queue, exec>>
    BY <2>4, ExecUnchanged DEF HInv
  <2> QED
    BY <2>1, <2>2, <2>3, <2>4
    DEF Next, vars, CloseInput, Operator, Answer, Rest
<1> QED BY <1>1, <1>2 DEF HInv

LEMMA HInvAlways == Spec => []HInv
<1>1. Init => HInv
  BY ExecInvInit, TerminalInit DEF HInv
<1>2. HInv /\ [Next]_vars => HInv'
  BY HInvKept
<1> QED BY <1>1, <1>2, PTL DEF Spec

\* All variables hold what the code can put there: in particular a job is in the
\* queue only once, and fgets is not called behind the end of the output.
THEOREM TypeCorrect == Spec => []TypeOK
<1>1. HInv => TypeOK
  <2> SUFFICES ASSUME HInv PROVE TypeOK
    OBVIOUS
  <2>1. scenario \in Scenario
    BY ScenarioFacts DEF HInv, ExecInv
  <2>2. \A j \in Jobs : exec[j] \in Exec /\ exec[j].piece <= Len(scenario.jobs[j].writes)
    BY DEF HInv, ExecInv, StageOk, Writes
  <2> QED BY <2>1, <2>2 DEF HInv, ExecInv, TerminalOk, TypeOK
<1> QED BY <1>1, HInvAlways, PTL

\* The result tells what the child did (host_skill_executor.cpp), whatever the
\* pieces that fgets returned: an output that is marked was longer than the limit
\* and is cut off within it, any other is all of it but a newline at its end, as
\* far as no NUL hid a part; and success is of a child that was started and ended.
THEOREM ResultsTell == Spec => []ResultTellsRun
<1>1. HInv => ResultTellsRun
  <2> SUFFICES ASSUME HInv, NEW j \in Jobs, exec[j].pc \in {"record", "done"}
               PROVE  Told(j, exec[j])
    BY DEF ResultTellsRun, Told, AllSeen, Total, Sizes
  <2> QED BY DEF HInv, ExecInv, StageOk
<1> QED BY <1>1, HInvAlways, PTL

-----------------------------------------------------------------------------
(* The list of the Monitor *)

\* MonitorShowsLast, entry by entry.
Shows(list, all, limit) ==
  /\ Len(list) = IF Len(all) < limit THEN Len(all) ELSE limit
  /\ \A p \in 1 .. Len(list) : list[p] = all[Len(all) - Len(list) + p]

LastShown == Shows(recent, recorded, MaxRecent)

LEMMA LastShownInit == Init => LastShown
BY DEF Init, LastShown, Shows

LEMMA RecordShows ==
  ASSUME NEW S, NEW list \in Seq(S), NEW all \in Seq(S), NEW entry \in S,
         NEW limit \in Nat \ {0}, Shows(list, all, limit)
  PROVE  Shows(RecordLast(list, entry, limit), Append(all, entry), limit)
<1> DEFINE more == Append(all, entry)
<1>1. PICK n \in Nat, k \in Nat : n = Len(all) /\ k = Len(list)
  OBVIOUS
<1>2. k = IF n < limit THEN n ELSE limit
  BY <1>1 DEF Shows
<1>3. \A p \in 1 .. k : list[p] = all[n - k + p]
  BY <1>1 DEF Shows
<1>4. /\ Len(more) = n + 1 /\ more[n + 1] = entry
      /\ \A p \in 1 .. n : more[p] = all[p]
  BY <1>1, AppendProperties
<1> HIDE DEF more
<1>5. CASE n < limit
  <2> DEFINE last == Append(list, entry)
  <2>1. k = n /\ RecordLast(list, entry, limit) = last
    BY <1>1, <1>2, <1>5 DEF RecordLast
  <2>2. /\ Len(last) = n + 1 /\ last[n + 1] = entry
        /\ \A p \in 1 .. n : last[p] = list[p]
    <3>1. /\ Len(last) = Len(list) + 1 /\ last[Len(list) + 1] = entry
          /\ \A p \in 1 .. Len(list) : last[p] = list[p]
      BY AppendProperties
    <3> HIDE DEF last
    <3> QED BY <1>1, <2>1, <3>1
  <2> HIDE DEF last
  <2>3. \A p \in 1 .. n : list[p] = all[p]
    BY <1>3, <2>1
  <2>4. \A p \in 1 .. n + 1 : last[p] = more[p]
    BY <1>4, <2>2, <2>3
  <2>5. Shows(last, more, limit)
    BY <1>4, <1>5, <2>2, <2>4 DEF Shows
  <2> QED BY <2>1, <2>5 DEF more
<1>6. CASE n >= limit
  <2> DEFINE rest == Tail(list)
             last == Append(rest, entry)
  <2>1. k = limit /\ k >= 1 /\ list # << >>
    <3>1. k = limit /\ k >= 1 /\ Len(list) >= 1
      BY <1>1, <1>2, <1>6
    <3> QED BY <3>1
  <2>2. RecordLast(list, entry, limit) = last
    BY <1>1, <2>1 DEF RecordLast
  <2>3. /\ rest \in Seq(S) /\ Len(rest) = k - 1
        /\ \A p \in 1 .. k - 1 : rest[p] = list[p + 1]
    BY <1>1, <2>1, HeadTailProperties
  <2> HIDE DEF rest
  <2>4. /\ Len(last) = k /\ last[k] = entry
        /\ \A p \in 1 .. k - 1 : last[p] = list[p + 1]
    <3>1. /\ Len(last) = Len(rest) + 1 /\ last[Len(rest) + 1] = entry
          /\ \A p \in 1 .. Len(rest) : last[p] = rest[p]
      BY <2>3, AppendProperties
    <3> HIDE DEF last
    <3> QED BY <2>1, <2>3, <3>1
  <2> HIDE DEF last
  <2>5. ASSUME NEW p \in 1 .. k
        PROVE  last[p] = more[n + 1 - k + p]
    <3>1. CASE p = k
      BY <1>4, <2>4, <3>1
    <3>2. CASE p # k
      <4>1. p + 1 \in 1 .. k /\ p \in 1 .. k - 1 /\ n - k + (p + 1) \in 1 .. n
              /\ n - k + (p + 1) = n + 1 - k + p
        BY <1>6, <2>1, <3>2
      <4>2. last[p] = all[n - k + (p + 1)]
        BY <1>3, <2>4, <4>1
      <4> QED BY <1>4, <4>1, <4>2
    <3> QED BY <3>1, <3>2
  <2>6. Shows(last, more, limit)
    <3>1. Len(last) = (IF Len(more) < limit THEN Len(more) ELSE limit) /\ Len(last) = k
      BY <1>1, <1>4, <1>6, <2>1, <2>4
    <3>2. ASSUME NEW p \in 1 .. Len(last)
          PROVE  last[p] = more[Len(more) - Len(last) + p]
      <4>1. p \in 1 .. k /\ Len(more) - Len(last) + p = n + 1 - k + p
        BY <1>4, <2>4
      <4>2. last[p] = more[n + 1 - k + p]
        BY <2>5, <4>1
      <4> QED BY <4>1, <4>2
    <3> QED BY <3>1, <3>2 DEF Shows
  <2> QED BY <2>2, <2>6 DEF more
<1> QED BY <1>1, <1>5, <1>6

LEMMA LastShownKept ==
  ASSUME HInv, LastShown, [Next]_vars
  PROVE  LastShown'
<1>1. CASE UNCHANGED <<recent, recorded>>
  BY <1>1 DEF LastShown, Shows
<1>2. ASSUME NEW j \in Jobs, Record(j)
      PROVE  LastShown'
  <2>1. recent \in Seq(Jobs) /\ recorded \in Seq(Jobs) /\ MaxRecent \in Nat \ {0}
    BY HostSkillExecutorAssumption DEF HInv, TerminalOk
  <2>2. Shows(RecordLast(recent, j, MaxRecent), Append(recorded, j), MaxRecent)
    BY <2>1, RecordShows DEF LastShown
  <2> QED BY <1>2, <2>2 DEF Record, LastShown
<1> QED
  BY <1>1, <1>2
  DEF Next, vars, Enqueue, Dequeue, CloseInput, Execute, Operator, Answer, Rest,
      Validate, Ask, Peek, Unget, Take, Drop, Popen, Fgets, FgetsEnd, Pclose

\* record_tool_execution (monitor.cpp): the list holds the last executions in
\* their order, and all of them until there are too many.
THEOREM MonitorIsRight == Spec => []MonitorShowsLast
<1>1. HInv /\ LastShown => MonitorShowsLast
  <2> SUFFICES ASSUME HInv, LastShown PROVE MonitorShowsLast
    OBVIOUS
  <2>1. recent \in Seq(Jobs) /\ recorded \in Seq(Jobs)
    BY DEF HInv, TerminalOk
  <2>2. PICK n \in Nat, k \in Nat : n = Len(recorded) /\ k = Len(recent)
    BY <2>1
  <2>3. k = (IF n < MaxRecent THEN n ELSE MaxRecent) /\ k <= n
    BY <2>2, HostSkillExecutorAssumption DEF LastShown, Shows
  <2>4. \A p \in 1 .. k : recent[p] = recorded[n - k + p]
    BY <2>2 DEF LastShown, Shows
  <2>5. PICK m \in 1 .. n + 1 : m = n - k + 1
    <3>1. n - k + 1 \in 1 .. n + 1
      BY <2>3
    <3> QED BY <3>1
  <2>6. /\ SubSeq(recorded, m, n) \in Seq(Jobs)
        /\ Len(SubSeq(recorded, m, n)) = IF m <= n THEN n - m + 1 ELSE 0
        /\ \A p \in 1 .. n - m + 1 : SubSeq(recorded, m, n)[p] = recorded[m + p - 1]
    <3>1. \A p \in m .. n : recorded[p] \in Jobs
      BY <2>1, <2>2
    <3> QED BY <3>1, SubSeqProperties
  <2>7. /\ Len(SubSeq(recorded, m, n)) = k
        /\ \A p \in 1 .. k : SubSeq(recorded, m, n)[p] = recorded[n - k + p]
    <3>1. n - m + 1 = k /\ \A p \in 1 .. k : m + p - 1 = n - k + p
      BY <2>3, <2>5
    <3> QED BY <2>3, <2>5, <2>6, <3>1
  <2>8. recent = SubSeq(recorded, m, n)
    <3> DEFINE t == SubSeq(recorded, m, n)
    <3>1. t \in Seq(Jobs) /\ Len(t) = k /\ \A p \in 1 .. k : t[p] = recorded[n - k + p]
      BY <2>6, <2>7
    <3> HIDE DEF t
    <3>2. Len(recent) = Len(t) /\ \A p \in 1 .. Len(recent) : recent[p] = t[p]
      BY <2>2, <2>4, <3>1
    <3>3. recent = t
      BY <2>1, <3>1, <3>2, SeqEqual
    <3> QED BY <3>3 DEF t
  <2> QED BY <2>2, <2>3, <2>5, <2>8 DEF MonitorShowsLast
<1>2. Init => LastShown
  BY LastShownInit
<1>3. HInv /\ LastShown /\ [Next]_vars => LastShown'
  BY LastShownKept
<1> QED BY <1>1, <1>2, <1>3, HInvAlways, PTL DEF Spec

-----------------------------------------------------------------------------
(* The operator *)

One(p) == IF p THEN 1 ELSE 0

\* An execution that was approved.
GoesOn(e) == e.pc = "start" \/ e.child # << >>

\* A character was taken for the line: the one that was looked at, or whatever
\* was in its place.
TookOne(e) == e.input # << >> /\ ~(e.pc = "take" /\ Len(e.input) = 1)

\* The characters execution e keeps of those that were typed: one in its hand,
\* one for its line and one for the end of the line.
Weight(e) == One(e.pc = "unget") + One(TookOne(e)) + One(GoesOn(e))

Holders == {j \in Jobs : exec[j].pc = "unget"}
Takers  == {j \in Jobs : TookOne(exec[j])}
Goers   == {j \in Jobs : GoesOn(exec[j])}

\* Who goes on has taken two characters, and the operator types two for a prompt.
Enough ==
  Len(terminal.typed) + (Cardinality(Holders) + Cardinality(Takers) + Cardinality(Goers))
    <= 2 * Cardinality(Answered)

\* Nobody goes on without a line.
GoersRead == \A j \in Jobs : GoesOn(exec[j]) => exec[j].input # << >>

\* Without a yes there is no y, in nobody's hand and on nobody's line.
NoYes ==
  Yeses = {} =>
    /\ terminal.typed \in Seq({"n", "newline"})
    /\ \A j \in Jobs :
         /\ exec[j].hand # "y" /\ exec[j].input \in Seq({"n"})
         /\ ~GoesOn(exec[j])

\* The character of an answer.
Letter(v) == IF v = "yes" THEN "y" ELSE "n"

\* A thread alone at the terminal on its way through the line <<c, "newline">>.
Between(c, e, typed) ==
  \/ e.pc \in {"ask", "peek"} /\ e.input = << >> /\ typed = <<c, "newline">>
  \/ e.pc = "unget" /\ e.hand = c /\ e.input = << >> /\ typed = <<"newline">>
  \/ e.pc = "take" /\ e.input = <<c>> /\ typed = <<c, "newline">>
  \/ e.pc = "peek" /\ e.input = <<c>> /\ typed = <<"newline">>
  \/ e.pc = "unget" /\ e.hand = "newline" /\ e.input = <<c>> /\ typed = << >>
  \/ e.pc = "drop" /\ e.input = <<c>> /\ typed = <<"newline">>

\* How far the answer to the open prompt is: not given, or given and not read.
Progress(v, e, typed, cin) ==
  \/ v = "asked" /\ e.pc \in {"ask", "peek"} /\ e.input = << >> /\ typed = << >>
  \/ v \in {"yes", "no"} /\ cin = "good" /\ Between(Letter(v), e, typed)

\* As long as no two prompts were open at once: what is typed is the rest of
\* the answer to the one that is open, and a command that runs was approved.
OneAtATime ==
  /\ \A i, j \in Jobs : exec[i].pc \in Asking /\ exec[j].pc \in Asking => i = j
  /\ (\A j \in Jobs : exec[j].pc \notin Asking) => terminal.typed = << >>
  /\ \A j \in Jobs :
       exec[j].pc \in Asking =>
         Progress(verdict[j], exec[j], terminal.typed, terminal.cin)
  /\ \A j \in Jobs : verdict[j] = "asked" => exec[j].pc \in Asking \/ terminal.eof
  /\ \A j \in Jobs : GoesOn(exec[j]) => verdict[j] = "yes"

\* Nobody is asked before the command is validated.
NotYetAsked == \A j \in Jobs : exec[j].pc \in Early => verdict[j] = "none"

Obeys ==
  /\ terminal.cin # "good" => terminal.eof
  /\ scenario.approve =>
       /\ NotYetAsked /\ GoersRead /\ NoYes
       /\ ~terminal.eof => Enough
       /\ ~mixed => OneAtATime

\* Two sets that differ in one element at most.
LEMMA CountAt ==
  ASSUME NEW S, IsFiniteSet(S), NEW A \in SUBSET S, NEW B \in SUBSET S, NEW x \in S,
         \A y \in S : y # x => (y \in A <=> y \in B)
  PROVE  /\ Cardinality(A) \in Nat /\ Cardinality(B) \in Nat
         /\ Cardinality(B) + One(x \in A) = Cardinality(A) + One(x \in B)
<1>1. IsFiniteSet(A) /\ IsFiniteSet(B)
  BY FS_Subset
<1>2. A \ {x} = B \ {x}
  OBVIOUS
<1>3. /\ Cardinality(A \ {x}) = IF x \in A THEN Cardinality(A) - 1 ELSE Cardinality(A)
      /\ Cardinality(B \ {x}) = IF x \in B THEN Cardinality(B) - 1 ELSE Cardinality(B)
  BY <1>1, FS_RemoveElement
<1>4. Cardinality(A) \in Nat /\ Cardinality(B) \in Nat
  BY <1>1, FS_CardinalityType
<1>5. One(x \in A) = (IF x \in A THEN 1 ELSE 0) /\ One(x \in B) = (IF x \in B THEN 1 ELSE 0)
  BY DEF One
<1> QED BY <1>2, <1>3, <1>4, <1>5

LEMMA JobsFinite ==
  ASSUME HInv
  PROVE  /\ IsFiniteSet(Jobs)
         /\ \A A \in SUBSET Jobs : IsFiniteSet(A) /\ Cardinality(A) \in Nat
<1>1. IsFiniteSet(Jobs)
  BY ScenarioFacts, FS_Interval DEF HInv, ExecInv
<1> QED BY <1>1, FS_Subset, FS_CardinalityType

\* What counts is what one execution keeps and what is left on the terminal.
LEMMA EnoughAt ==
  ASSUME HInv, Enough, NEW j \in Jobs, scenario' = scenario, Answered' = Answered,
         \A i \in Jobs : i # j => exec'[i] = exec[i],
         NEW n \in Nat, n = Len(terminal'.typed),
         n + Weight(exec'[j]) <= Len(terminal.typed) + Weight(exec[j])
  PROVE  Enough'
<1>1. Jobs' = Jobs /\ IsFiniteSet(Jobs)
  BY JobsStay, JobsFinite
<1>2. /\ Holders \in SUBSET Jobs /\ Holders' \in SUBSET Jobs
      /\ Takers \in SUBSET Jobs /\ Takers' \in SUBSET Jobs
      /\ Goers \in SUBSET Jobs /\ Goers' \in SUBSET Jobs
      /\ Answered \in SUBSET Jobs
  BY <1>1 DEF Holders, Takers, Goers, Answered
<1>3. /\ \A y \in Jobs : y # j => (y \in Holders <=> y \in Holders')
      /\ \A y \in Jobs : y # j => (y \in Takers <=> y \in Takers')
      /\ \A y \in Jobs : y # j => (y \in Goers <=> y \in Goers')
  BY <1>1 DEF Holders, Takers, Goers
<1>4. PICK h \in Nat, hh \in Nat :
        /\ h = Cardinality(Holders) /\ hh = Cardinality(Holders')
        /\ hh + One(j \in Holders) = h + One(j \in Holders')
  BY <1>1, <1>2, <1>3, CountAt
<1>5. PICK t \in Nat, tt \in Nat :
        /\ t = Cardinality(Takers) /\ tt = Cardinality(Takers')
        /\ tt + One(j \in Takers) = t + One(j \in Takers')
  BY <1>1, <1>2, <1>3, CountAt
<1>6. PICK g \in Nat, gg \in Nat :
        /\ g = Cardinality(Goers) /\ gg = Cardinality(Goers')
        /\ gg + One(j \in Goers) = g + One(j \in Goers')
  BY <1>1, <1>2, <1>3, CountAt
<1>7. PICK a \in Nat : a = Cardinality(Answered)
  BY <1>2, JobsFinite
<1>8. PICK m \in Nat : m = Len(terminal.typed)
  <2>1. PICK text \in Seq(Keys) : text = terminal.typed
    BY TerminalFields DEF HInv
  <2> QED BY <2>1
<1>9. /\ One(exec[j].pc = "unget") = One(j \in Holders)
      /\ One(TookOne(exec[j])) = One(j \in Takers)
      /\ One(GoesOn(exec[j])) = One(j \in Goers)
  BY DEF One, Holders, Takers, Goers
<1>10. /\ One(exec'[j].pc = "unget") = One(j \in Holders')
       /\ One(TookOne(exec'[j])) = One(j \in Takers')
       /\ One(GoesOn(exec'[j])) = One(j \in Goers')
  BY <1>1 DEF One, Holders, Takers, Goers
<1>11. PICK a1 \in Nat, a2 \in Nat, a3 \in Nat :
         a1 = One(j \in Holders) /\ a2 = One(j \in Takers) /\ a3 = One(j \in Goers)
  BY DEF One
<1>12. PICK b1 \in Nat, b2 \in Nat, b3 \in Nat :
         b1 = One(j \in Holders') /\ b2 = One(j \in Takers') /\ b3 = One(j \in Goers')
  BY DEF One
<1>13. n + (b1 + b2 + b3) <= m + (a1 + a2 + a3)
  BY <1>8, <1>9, <1>10, <1>11, <1>12 DEF Weight
<1>14. hh + a1 = h + b1 /\ tt + a2 = t + b2 /\ gg + a3 = g + b3
  BY <1>4, <1>5, <1>6, <1>11, <1>12
<1>15. PICK c \in Nat : c = 2 * a
  OBVIOUS
<1>16. m + (h + t + g) <= c
  BY <1>4, <1>5, <1>6, <1>7, <1>8, <1>15 DEF Enough
<1>17. n + (hh + tt + gg) <= c
  <2>1. PICK x \in Nat, y \in Nat, u \in Nat, w \in Nat :
          x = a1 + a2 + a3 /\ y = b1 + b2 + b3 /\ u = h + t + g /\ w = hh + tt + gg
    OBVIOUS
  <2>2. w + x = u + y
    BY <1>14, <2>1
  <2>3. n + y <= m + x
    BY <1>13, <2>1, Zenon
  <2>4. m + u <= c
    BY <1>16, <2>1, Zenon
  <2>5. n + w <= c
    BY <2>2, <2>3, <2>4, Balance
  <2> QED BY <2>1, <2>5, Zenon
<1> QED BY <1>4, <1>5, <1>6, <1>7, <1>15, <1>17 DEF Enough

\* A step of execution j that has nothing to do with its prompt.
Quiet(j) ==
  /\ \A i \in Jobs : i # j => exec'[i] = exec[i]
  /\ exec[j].pc \notin Asking /\ exec'[j].pc \notin Asking
  /\ exec'[j].input = exec[j].input /\ exec'[j].hand = exec[j].hand
  /\ GoesOn(exec'[j]) => GoesOn(exec[j])
  /\ exec'[j].pc \in Early => exec[j].pc \in Early

LEMMA QuietKeeps ==
  ASSUME HInv, Obeys, NEW j \in Jobs, Quiet(j),
         UNCHANGED <<scenario, verdict, terminal, mixed>>
  PROVE  Obeys'
<1> SUFFICES ASSUME scenario.approve
             PROVE  /\ NotYetAsked' /\ GoersRead' /\ NoYes'
                    /\ ~terminal.eof => Enough'
                    /\ ~mixed => OneAtATime'
  BY DEF Obeys
<1>1. /\ Jobs' = Jobs /\ NotYetAsked /\ GoersRead /\ NoYes
      /\ ~terminal.eof => Enough
      /\ ~mixed => OneAtATime
  BY JobsStay DEF Obeys
<1>2. NotYetAsked'
  BY <1>1 DEF NotYetAsked, Quiet, Early
<1>3. GoersRead'
  BY <1>1 DEF GoersRead, Quiet
<1>4. NoYes'
  BY <1>1 DEF NoYes, Quiet, Yeses
<1>5. ASSUME ~terminal.eof PROVE Enough'
  <2>1. Answered' = Answered
    BY <1>1 DEF Answered
  <2>2. PICK n \in Nat : n = Len(terminal.typed)
    <3>1. PICK text \in Seq(Keys) : text = terminal.typed
      BY TerminalFields DEF HInv
    <3> QED BY <3>1
  <2>3. /\ One(exec'[j].pc = "unget") = 0 /\ One(exec[j].pc = "unget") = 0
        /\ One(TookOne(exec'[j])) = One(TookOne(exec[j]))
    BY DEF Quiet, One, TookOne, Asking
  <2>4. PICK t \in Nat : t = One(TookOne(exec[j]))
    BY DEF One
  <2>5. PICK g \in Nat, gg \in Nat :
          g = One(GoesOn(exec[j])) /\ gg = One(GoesOn(exec'[j])) /\ gg <= g
    BY DEF One, Quiet
  <2>6. Weight(exec[j]) = 0 + t + g /\ Weight(exec'[j]) = 0 + t + gg
    BY <2>3, <2>4, <2>5, Zenon DEF Weight
  <2>7. n + (0 + t + gg) <= n + (0 + t + g)
    BY <2>5
  <2>8. n + Weight(exec'[j]) <= Len(terminal.typed) + Weight(exec[j])
    BY <2>2, <2>6, <2>7, Zenon
  <2>9. n = Len(terminal'.typed) /\ \A i \in Jobs : i # j => exec'[i] = exec[i]
    BY <2>2 DEF Quiet
  <2> QED BY <1>1, <1>5, <2>1, <2>8, <2>9, EnoughAt
<1>6. ASSUME ~mixed PROVE OneAtATime'
  <2>1. \A i \in Jobs :
          /\ exec'[i].pc \in Asking <=> exec[i].pc \in Asking
          /\ exec'[i].pc \in Asking => exec'[i] = exec[i]
          /\ GoesOn(exec'[i]) => GoesOn(exec[i])
    BY DEF Quiet
  <2> QED BY <1>1, <1>6, <2>1 DEF OneAtATime
<1> QED BY <1>2, <1>3, <1>4, <1>5, <1>6

\* What the steps of an execution do to it.
LEMMA QuietGoto ==
  ASSUME HInv, NEW j \in Jobs, NEW pc \in PCs, Goto(j, pc),
         exec[j].pc \notin Asking, pc \notin Asking, pc # "start",
         pc \in Early => exec[j].pc \in Early
  PROVE  Quiet(j)
<1>1. exec \in [Jobs -> Exec]
  BY DEF HInv, ExecInv
<1>2. PICK e \in Exec :
        /\ exec' = [exec EXCEPT ![j] = e]
        /\ e.pc = pc /\ e.input = exec[j].input
        /\ e.hand = exec[j].hand /\ e.child = exec[j].child
        /\ e.piece = exec[j].piece /\ e.result = exec[j].result
  BY <1>1, GotoMoves
<1>3. exec'[j] = e /\ \A i \in Jobs : i # j => exec'[i] = exec[i]
  BY <1>1, <1>2
<1> QED BY <1>2, <1>3 DEF Quiet, GoesOn

LEMMA QuietFail ==
  ASSUME HInv, NEW j \in Jobs, Fail(j), exec[j].pc \notin Asking
  PROVE  Quiet(j)
<1>1. exec \in [Jobs -> Exec]
  BY DEF HInv, ExecInv
<1>2. PICK e \in Exec :
        /\ exec' = [exec EXCEPT ![j] = e]
        /\ e.pc = "record" /\ e.input = exec[j].input
        /\ e.hand = exec[j].hand /\ e.child = exec[j].child
        /\ e.piece = exec[j].piece /\ e.result = Failed
  BY <1>1, FailMoves
<1>3. exec'[j] = e /\ \A i \in Jobs : i # j => exec'[i] = exec[i]
  BY <1>1, <1>2
<1> QED BY <1>2, <1>3 DEF Quiet, GoesOn, Early, Asking

LEMMA QuietPopen ==
  ASSUME HInv, NEW j \in Jobs, Popen(j)
  PROVE  Quiet(j)
<1>1. exec \in [Jobs -> Exec] /\ exec[j].pc = "start"
  BY DEF HInv, ExecInv, Popen, At
<1>2. CASE Fail(j)
  BY <1>1, <1>2, QuietFail DEF Asking
<1>3. ASSUME NEW word,
             exec' = [exec EXCEPT ![j].pc = "read", ![j].child = <<word>>]
      PROVE  Quiet(j)
  <2>1. /\ exec'[j].pc = "read" /\ exec'[j].input = exec[j].input
        /\ exec'[j].hand = exec[j].hand
        /\ \A i \in Jobs : i # j => exec'[i] = exec[i]
    BY <1>1, <1>3 DEF Exec
  <2> QED BY <1>1, <2>1 DEF Quiet, GoesOn, Early, Asking
<1> QED BY <1>2, <1>3 DEF Popen

LEMMA QuietFgets ==
  ASSUME HInv, NEW j \in Jobs, Fgets(j)
  PROVE  Quiet(j)
<1>1. exec \in [Jobs -> Exec] /\ exec[j].pc = "read"
  BY DEF HInv, ExecInv, Fgets, At
<1>2. ASSUME NEW n,
             exec' = [exec EXCEPT ![j].piece = @ + 1, ![j].result.output = @ + n]
      PROVE  Quiet(j)
  <2>1. /\ exec'[j].pc = exec[j].pc /\ exec'[j].input = exec[j].input
        /\ exec'[j].hand = exec[j].hand /\ exec'[j].child = exec[j].child
        /\ \A i \in Jobs : i # j => exec'[i] = exec[i]
    BY <1>1, <1>2 DEF Exec
  <2> QED BY <1>1, <2>1 DEF Quiet, GoesOn, Early, Asking
<1>3. CASE exec' = [exec EXCEPT ![j].pc = "close", ![j].result.truncated = TRUE]
  <2>1. /\ exec'[j].pc = "close" /\ exec'[j].input = exec[j].input
        /\ exec'[j].hand = exec[j].hand /\ exec'[j].child = exec[j].child
        /\ \A i \in Jobs : i # j => exec'[i] = exec[i]
    BY <1>1, <1>3 DEF Exec
  <2> QED BY <1>1, <2>1 DEF Quiet, GoesOn, Early, Asking
<1> QED BY <1>2, <1>3 DEF Fgets

LEMMA QuietPclose ==
  ASSUME HInv, NEW j \in Jobs, Pclose(j)
  PROVE  Quiet(j)
<1>1. exec \in [Jobs -> Exec] /\ exec[j].pc = "close" /\ ExecInv
  BY DEF HInv, ExecInv, Pclose, At
<1>2. PICK code, ok :
        exec' = [exec EXCEPT ![j] = Closed(exec[j], code, ok, Returned(j))]
  BY <1>1, PcloseDoes
<1>3. /\ exec'[j].pc = "record" /\ exec'[j].input = exec[j].input
      /\ exec'[j].hand = exec[j].hand /\ exec'[j].child = exec[j].child
      /\ \A i \in Jobs : i # j => exec'[i] = exec[i]
  BY <1>1, <1>2 DEF Exec, Closed
<1> QED BY <1>1, <1>3 DEF Quiet, GoesOn, Early, Asking

LEMMA ValidateObeys ==
  ASSUME HInv, Obeys, NEW j \in Jobs, Validate(j)
  PROVE  Obeys'
<1> SUFFICES ASSUME scenario.approve
             PROVE  Obeys'
  BY DEF Obeys, Validate
<1>1. /\ NotYetAsked /\ GoersRead /\ NoYes
      /\ ~terminal.eof => Enough
      /\ ~mixed => OneAtATime
      /\ terminal.cin # "good" => terminal.eof
      /\ exec \in [Jobs -> Exec] /\ StageOk(j, exec[j]) /\ exec[j].pc = "validate"
      /\ verdict \in [Jobs -> {"none", "asked", "yes", "no"}] /\ mixed \in BOOLEAN
      /\ scenario' = scenario /\ terminal' = terminal /\ Jobs' = Jobs
  BY JobsStay DEF Obeys, HInv, ExecInv, TerminalOk, Validate, At
<1>2. CASE ~Accepted(j)
  <2>1. Fail(j) /\ verdict' = verdict /\ mixed' = mixed
    BY <1>1, <1>2 DEF Validate, Prompts
  <2>2. Quiet(j)
    BY <1>1, <2>1, QuietFail DEF Asking
  <2> QED BY <1>1, <2>1, <2>2, QuietKeeps
<1>3. CASE Accepted(j)
  <2>1. /\ Goto(j, "ask") /\ verdict' = [verdict EXCEPT ![j] = "asked"]
        /\ mixed' = (mixed \/ \E i \in Jobs : exec[i].pc \in Asking)
    BY <1>3 DEF Validate, Prompts
  <2>2. /\ \A i \in Jobs : i # j => exec'[i] = exec[i]
        /\ exec'[j].pc = "ask" /\ exec'[j].input = << >> /\ exec[j].input = << >>
        /\ exec'[j].child = << >> /\ exec'[j].hand = exec[j].hand
    <3>1. PICK e \in Exec :
            /\ exec' = [exec EXCEPT ![j] = e]
            /\ e.pc = "ask" /\ e.input = exec[j].input
            /\ e.hand = exec[j].hand /\ e.child = exec[j].child
            /\ e.piece = exec[j].piece /\ e.result = exec[j].result
      BY <1>1, <2>1, GotoMoves DEF PCs, Asking
    <3>2. exec[j].input = << >> /\ exec[j].child = << >>
      BY <1>1 DEF StageOk, Early
    <3> QED BY <1>1, <3>1, <3>2
  <2>3. /\ \A i \in Jobs : i # j => verdict'[i] = verdict[i]
        /\ verdict'[j] = "asked" /\ verdict[j] = "none"
    BY <1>1, <2>1 DEF NotYetAsked, Early
  <2>4. Yeses' = Yeses /\ Answered' = Answered
    BY <1>1, <2>3 DEF Yeses, Answered
  <2>5. ~GoesOn(exec'[j])
    BY <2>2 DEF GoesOn
  <2>6. NotYetAsked'
    BY <1>1, <2>2, <2>3 DEF NotYetAsked, Early
  <2>7. GoersRead'
    BY <1>1, <2>2, <2>5 DEF GoersRead
  <2>8. NoYes'
    BY <1>1, <2>2, <2>4, <2>5 DEF NoYes
  <2>9. ASSUME ~terminal.eof PROVE Enough'
    <3>1. PICK n \in Nat : n = Len(terminal.typed)
      <4>1. PICK text \in Seq(Keys) : text = terminal.typed
        BY TerminalFields DEF HInv
      <4> QED BY <4>1
    <3>2. Weight(exec'[j]) = 0
      BY <2>2, <2>5 DEF Weight, One, TookOne
    <3>3. Weight(exec[j]) \in Nat
      BY DEF Weight, One
    <3>4. n + Weight(exec'[j]) <= Len(terminal.typed) + Weight(exec[j])
      BY <3>1, <3>2, <3>3
    <3> QED BY <1>1, <2>2, <2>4, <2>9, <3>1, <3>4, EnoughAt
  <2>10. ASSUME ~mixed' PROVE OneAtATime'
    <3>1. OneAtATime /\ \A i \in Jobs : exec[i].pc \notin Asking
      BY <1>1, <2>1, <2>10
    <3>2. terminal.typed = << >>
      BY <3>1 DEF OneAtATime
    <3>3. Progress(verdict'[j], exec'[j], terminal'.typed, terminal'.cin)
      BY <1>1, <2>2, <2>3, <3>2 DEF Progress
    <3>4. exec'[j].pc \in Asking /\ \A i \in Jobs : exec'[i].pc \in Asking => i = j
      BY <2>2, <3>1 DEF Asking
    <3>5. \A i \in Jobs : verdict'[i] = "asked" => i = j \/ terminal.eof
      BY <2>3, <3>1 DEF OneAtATime
    <3>6. \A i \in Jobs : GoesOn(exec'[i]) => verdict'[i] = "yes"
      BY <2>2, <2>3, <2>5, <3>1 DEF OneAtATime
    <3> QED BY <1>1, <2>2, <3>3, <3>4, <3>5, <3>6 DEF OneAtATime
  <2> QED BY <1>1, <2>6, <2>7, <2>8, <2>9, <2>10 DEF Obeys
<1> QED BY <1>2, <1>3

\* The texts a thread meets that is alone at the terminal.
LEMMA Texts ==
  ASSUME NEW c \in {"y", "n"}
  PROVE  /\ Head(<<c, "newline">>) = c /\ Tail(<<c, "newline">>) = <<"newline">>
         /\ Head(<<"newline">>) = "newline" /\ Tail(<<"newline">>) = << >>
         /\ <<c>> \o <<"newline">> = <<c, "newline">>
         /\ <<"newline">> \o << >> = <<"newline">>
         /\ Append(<< >>, c) = <<c>> /\ <<c>>[1] = c /\ <<c>> # << >>
         /\ <<c, "newline">> # << >> /\ <<"newline">> # << >> /\ c # "newline"
<1>1. /\ Head(<<c, "newline">>) = c /\ Tail(<<c, "newline">>) = <<"newline">>
      /\ Head(<<"newline">>) = "newline" /\ Tail(<<"newline">>) = << >>
  OBVIOUS
<1>2. <<c>> \o <<"newline">> = <<c, "newline">>
  <2> DEFINE s == <<c>> \o <<"newline">>
             r == <<c, "newline">>
  <2>1. <<c>> \in Seq(Keys) /\ <<"newline">> \in Seq(Keys) /\ r \in Seq(Keys)
    BY DEF Keys
  <2>2. /\ s \in Seq(Keys) /\ Len(s) = 2
        /\ \A i \in 1 .. 2 : s[i] = IF i <= 1 THEN <<c>>[i] ELSE <<"newline">>[i - 1]
    BY <2>1, ConcatProperties
  <2>3. Len(r) = 2 /\ r[1] = c /\ r[2] = "newline"
    OBVIOUS
  <2> HIDE DEF s, r
  <2>4. s[1] = c /\ s[2] = "newline"
    BY <2>2
  <2>5. \A i \in 1 .. 2 : s[i] = r[i]
    BY <2>3, <2>4
  <2>6. s = r
    BY <2>1, <2>2, <2>3, <2>5, SeqEqual
  <2> QED BY <2>6 DEF s, r
<1>3. <<"newline">> \o << >> = <<"newline">>
  OBVIOUS
<1>4. Append(<< >>, c) = <<c>> /\ <<c>>[1] = c /\ <<c>> # << >>
  OBVIOUS
<1>5. <<c, "newline">> # << >> /\ <<"newline">> # << >> /\ c # "newline"
  OBVIOUS
<1> QED BY <1>1, <1>2, <1>3, <1>4, <1>5

\* A thread alone at the terminal, one step on its way through a line.
LEMMA BetweenKept ==
  ASSUME NEW j \in Jobs, NEW c \in {"y", "n"},
         terminal.cin = "good", Between(c, exec[j], terminal.typed),
         NEW e, NEW typed, NEW cin, TerminalStep(j, e, typed, cin)
  PROVE  /\ cin = "good"
         /\ \/ e.pc \in Asking /\ Between(c, e, typed)
            \/ /\ e.pc \in {"start", "record"} /\ typed = << >>
               /\ e.pc = "start" => c = "y"
<1>1. CASE AskStep(j, e, typed, cin)
  BY <1>1, Texts DEF AskStep, Between, Asking
<1>2. CASE PeekStep(j, e, typed, cin)
  BY <1>2, Texts DEF PeekStep, Between, Asking
<1>3. CASE UngetStep(j, e, typed, cin)
  <2>1. /\ exec[j].pc = "unget" /\ cin = "good"
        /\ typed = <<exec[j].hand>> \o terminal.typed
    BY <1>3 DEF UngetStep
  <2>2. CASE exec[j].hand = c
    <3>1. exec[j].input = << >> /\ terminal.typed = <<"newline">>
      BY <2>1, <2>2, Texts DEF Between
    <3>2. e.pc = "take" /\ e.input = <<c>> /\ typed = <<c, "newline">>
      BY <1>3, <2>1, <2>2, <3>1, Texts DEF UngetStep
    <3> QED BY <2>1, <3>2 DEF Between, Asking
  <2>3. CASE exec[j].hand # c
    <3>1. /\ exec[j].hand = "newline" /\ exec[j].input = <<c>>
          /\ terminal.typed = << >>
      BY <2>1, <2>3, Texts DEF Between
    <3>2. e.pc = "drop" /\ e.input = <<c>> /\ typed = <<"newline">>
      BY <1>3, <2>1, <3>1, Texts DEF UngetStep
    <3> QED BY <2>1, <3>2 DEF Between, Asking
  <2> QED BY <2>2, <2>3
<1>4. CASE TakeStep(j, e, typed, cin)
  BY <1>4, Texts DEF TakeStep, Between, Asking
<1>5. CASE DropStep(j, e, typed, cin)
  <2>1. exec[j].input = <<c>> /\ terminal.typed = <<"newline">>
    BY <1>5 DEF DropStep, Between
  <2>2. Approved(exec[j].input) => c = "y"
    BY <2>1, Texts DEF Approved
  <2> QED BY <1>5, <2>1, <2>2, Texts DEF DropStep, Decided
<1>6. CASE EndStep(j, e, typed, cin)
  BY <1>6, Texts DEF EndStep, Between
<1> QED BY <1>1, <1>2, <1>3, <1>4, <1>5, <1>6 DEF TerminalStep

\* A thread that waits for an answer which was not given.
LEMMA WaitingKept ==
  ASSUME NEW j \in Jobs, exec[j].pc \in {"ask", "peek"}, exec[j].input = << >>,
         terminal.typed = << >>, terminal.cin # "good" => terminal.eof,
         NEW e, NEW typed, NEW cin, TerminalStep(j, e, typed, cin)
  PROVE  /\ typed = << >>
         /\ \/ e.pc \in {"ask", "peek"} /\ e.input = << >>
            \/ e.pc = "record" /\ terminal.eof
<1>1. ~Approved(exec[j].input)
  BY DEF Approved
<1>2. CASE AskStep(j, e, typed, cin)
  BY <1>1, <1>2 DEF AskStep, Decided
<1>3. CASE EndStep(j, e, typed, cin)
  BY <1>1, <1>3 DEF EndStep, Decided
<1>4. CASE PeekStep(j, e, typed, cin)
  BY <1>4 DEF PeekStep
<1>5. CASE ~(AskStep(j, e, typed, cin) \/ EndStep(j, e, typed, cin)
               \/ PeekStep(j, e, typed, cin))
  BY <1>5 DEF TerminalStep, UngetStep, TakeStep, DropStep
<1> QED BY <1>2, <1>3, <1>4, <1>5

\* The characters that execution j keeps come off the terminal.
LEMMA StepWeighs ==
  ASSUME HInv, NEW j \in Jobs, exec[j].child = << >>, ~terminal.eof,
         terminal.cin = "good",
         NEW e \in Exec, NEW typed \in Seq(Keys), NEW cin,
         e.child = exec[j].child, TerminalStep(j, e, typed, cin)
  PROVE  Len(typed) + Weight(e) <= Len(terminal.typed) + Weight(exec[j])
<1>1. PICK text \in Seq(Keys) : text = terminal.typed
  BY TerminalFields DEF HInv
<1>2. PICK n \in Nat : n = Len(text)
  OBVIOUS
<1>3. text # << >> => Len(Tail(text)) = n - 1 /\ n >= 1
  BY <1>2
<1>4. /\ One(TRUE) = 1 /\ One(FALSE) = 0
  BY DEF One
<1>5. PICK a \in Nat, b \in Nat :
        /\ a = One(TookOne(exec[j])) /\ b = One(TookOne(e))
        /\ a <= 1 /\ b <= 1
        /\ (TookOne(e) <=> TookOne(exec[j])) => a = b
  BY DEF One
<1>6. /\ One(GoesOn(exec[j])) = IF exec[j].pc = "start" THEN 1 ELSE 0
      /\ One(GoesOn(e)) = IF e.pc = "start" THEN 1 ELSE 0
      /\ One(exec[j].pc = "unget") = IF exec[j].pc = "unget" THEN 1 ELSE 0
      /\ One(e.pc = "unget") = IF e.pc = "unget" THEN 1 ELSE 0
  BY DEF One, GoesOn
<1>7. /\ Weight(exec[j]) = (IF exec[j].pc = "unget" THEN 1 ELSE 0) + a
                             + (IF exec[j].pc = "start" THEN 1 ELSE 0)
      /\ Weight(e) = (IF e.pc = "unget" THEN 1 ELSE 0) + b
                       + (IF e.pc = "start" THEN 1 ELSE 0)
  BY <1>5, <1>6 DEF Weight
<1>8. CASE AskStep(j, e, typed, cin)
  <2>1. /\ exec[j].pc = "ask" /\ e.pc = "peek" /\ e.input = exec[j].input
        /\ typed = text
    BY <1>1, <1>8 DEF AskStep
  <2>2. a = b
    BY <1>5, <2>1 DEF TookOne
  <2> QED BY <1>1, <1>2, <1>7, <2>1, <2>2
<1>9. CASE PeekStep(j, e, typed, cin)
  <2>1. /\ exec[j].pc = "peek" /\ e.pc = "unget" /\ e.input = exec[j].input
        /\ Len(typed) = n - 1
    BY <1>1, <1>3, <1>9 DEF PeekStep
  <2>2. a = b
    BY <1>5, <2>1 DEF TookOne
  <2>3. Weight(exec[j]) = a /\ Weight(e) = a + 1
    BY <1>7, <2>1, <2>2
  <2>4. (n - 1) + (a + 1) <= n + a
    OBVIOUS
  <2> QED BY <1>1, <1>2, <2>1, <2>3, <2>4, Zenon
<1>10. CASE UngetStep(j, e, typed, cin)
  <2>1. exec[j].pc = "unget" /\ e.pc \in {"take", "drop"} /\ exec[j].hand \in Keys
    BY <1>10 DEF UngetStep, Keys
  <2>2. Len(typed) = n + 1
    <3>1. typed = <<exec[j].hand>> \o text
      BY <1>1, <1>10 DEF UngetStep
    <3>2. <<exec[j].hand>> \in Seq(Keys) /\ Len(<<exec[j].hand>>) = 1
      BY <2>1
    <3> QED BY <1>2, <3>1, <3>2, ConcatProperties
  <2>3. TookOne(e) <=> TookOne(exec[j])
    <3>1. CASE e.pc = "drop"
      BY <1>10, <2>1, <3>1 DEF UngetStep, TookOne
    <3>2. CASE e.pc = "take"
      <4>1. PICK line \in Seq({"y", "n"}), c \in {"y", "n"} :
              line = exec[j].input /\ c = exec[j].hand /\ e.input = Append(line, c)
        <5>1. exec[j].input \in Seq({"y", "n"})
          BY ExecFields DEF HInv, ExecInv
        <5> QED BY <1>10, <3>2, <5>1 DEF UngetStep
      <4>2. e.input # << >> /\ Len(e.input) = Len(line) + 1 /\ Len(line) \in Nat
        <5>1. /\ Append(line, c) \in Seq({"y", "n"})
              /\ Len(Append(line, c)) = Len(line) + 1 /\ Len(line) \in Nat
          BY AppendProperties
        <5>2. PICK more \in Seq({"y", "n"}) : more = Append(line, c)
          BY <5>1
        <5>3. Len(more) = Len(line) + 1 /\ Len(line) \in Nat
          BY <5>1, <5>2, Zenon
        <5>4. more # << >>
          BY <5>3
        <5> QED BY <4>1, <5>2, <5>3, <5>4, Zenon
      <4>3. Len(e.input) = 1 <=> line = << >>
        <5>1. Len(line) = 0 <=> line = << >>
          OBVIOUS
        <5> QED BY <4>2, <5>1
      <4> QED BY <2>1, <3>2, <4>1, <4>2, <4>3 DEF TookOne
    <3> QED BY <2>1, <3>1, <3>2
  <2>4. a = b
    BY <1>5, <2>3
  <2>5. Weight(exec[j]) = a + 1 /\ Weight(e) = a
    BY <1>7, <2>1, <2>4
  <2>6. (n + 1) + a <= n + (a + 1)
    OBVIOUS
  <2> QED BY <1>1, <1>2, <2>2, <2>5, <2>6, Zenon
<1>11. CASE TakeStep(j, e, typed, cin)
  <2>1. exec[j].pc = "take" /\ e.pc = "peek" /\ Len(typed) = n - 1
    BY <1>1, <1>3, <1>11 DEF TakeStep
  <2> QED BY <1>1, <1>2, <1>5, <1>7, <2>1
<1>12. CASE DropStep(j, e, typed, cin)
  <2>1. /\ exec[j].pc = "drop" /\ e.pc \in {"start", "record"}
        /\ e.input = exec[j].input /\ Len(typed) = n - 1
    BY <1>1, <1>3, <1>12 DEF DropStep, Decided
  <2>2. a = b
    BY <1>5, <2>1 DEF TookOne
  <2>3. Weight(exec[j]) = a /\ (Weight(e) = a \/ Weight(e) = a + 1)
    BY <1>7, <2>1, <2>2
  <2> QED BY <1>1, <1>2, <2>1, <2>3
<1>13. ~EndStep(j, e, typed, cin)
  BY DEF EndStep
<1> QED BY <1>8, <1>9, <1>10, <1>11, <1>12, <1>13 DEF TerminalStep

\* What a thread looks at, takes or holds is not a y unless one was typed.
LEMMA StepWithoutYes ==
  ASSUME HInv, NEW j \in Jobs, terminal.typed \in Seq({"n", "newline"}),
         exec[j].hand # "y", exec[j].input \in Seq({"n"}),
         NEW e, NEW typed, NEW cin, TerminalStep(j, e, typed, cin)
  PROVE  /\ typed \in Seq({"n", "newline"})
         /\ e.hand # "y" /\ e.input \in Seq({"n"}) /\ e.pc # "start"
<1>1. PICK text \in Seq({"n", "newline"}) : text = terminal.typed
  OBVIOUS
<1>2. PICK line \in Seq({"n"}) : line = exec[j].input
  OBVIOUS
<1>3. text # << >> => Tail(text) \in Seq({"n", "newline"}) /\ Head(text) # "y"
  <2>1. text # << >> => Head(text) \in {"n", "newline"} /\ Tail(text) \in Seq({"n", "newline"})
    OBVIOUS
  <2> QED BY <2>1
<1>4. ~Approved(line)
  <2>1. line # << >> => line[1] \in {"n"}
    OBVIOUS
  <2> QED BY <2>1 DEF Approved
<1>5. Decided(j, e, cin) =>
        e.hand = exec[j].hand /\ e.input = line /\ e.pc # "start"
  BY <1>2, <1>4 DEF Decided
<1>6. CASE AskStep(j, e, typed, cin)
  BY <1>1, <1>2, <1>5, <1>6 DEF AskStep
<1>7. CASE PeekStep(j, e, typed, cin)
  BY <1>1, <1>2, <1>3, <1>7 DEF PeekStep
<1>8. CASE UngetStep(j, e, typed, cin)
  <2>1. exec[j].hand \in {"n", "newline"}
    BY <1>8 DEF UngetStep
  <2>2. PICK c \in {"n", "newline"} : c = exec[j].hand
    BY <2>1
  <2>3. <<c>> \o text \in Seq({"n", "newline"})
    <3>1. <<c>> \in Seq({"n", "newline"})
      OBVIOUS
    <3> QED BY <3>1, ConcatProperties
  <2>4. Append(line, "n") \in Seq({"n"})
    BY AppendProperties
  <2>5. e.input = line \/ e.input = Append(line, "n")
    BY <1>2, <1>8, <2>1 DEF UngetStep
  <2> QED BY <1>1, <1>8, <2>2, <2>3, <2>4, <2>5 DEF UngetStep
<1>9. CASE TakeStep(j, e, typed, cin)
  BY <1>1, <1>2, <1>3, <1>9 DEF TakeStep
<1>10. CASE DropStep(j, e, typed, cin)
  BY <1>1, <1>2, <1>3, <1>5, <1>10 DEF DropStep
<1>11. CASE EndStep(j, e, typed, cin)
  <2>1. << >> \in Seq({"n", "newline"})
    OBVIOUS
  <2> QED BY <1>2, <1>5, <1>11, <2>1 DEF EndStep
<1> QED BY <1>6, <1>7, <1>8, <1>9, <1>10, <1>11 DEF TerminalStep

\* As long as no two prompts were open at once.
LEMMA AsksAlone ==
  ASSUME HInv, OneAtATime, terminal.cin # "good" => terminal.eof, NEW j \in Jobs,
         exec[j].pc \in Asking, exec[j].child = << >>,
         NEW e, NEW typed, NEW cin, TerminalStep(j, e, typed, cin),
         e.child = exec[j].child, exec'[j] = e,
         \A i \in Jobs : i # j => exec'[i] = exec[i],
         UNCHANGED <<scenario, verdict>>,
         terminal'.typed = typed, terminal'.eof = terminal.eof, terminal'.cin = cin
  PROVE  OneAtATime'
<1>1. Jobs' = Jobs
  BY JobsStay
<1>2. \A i \in Jobs : exec[i].pc \in Asking => i = j
  BY DEF OneAtATime
<1>3. Progress(verdict[j], exec[j], terminal.typed, terminal.cin)
  BY DEF OneAtATime
<1>4. \/ e.pc \in Asking /\ Progress(verdict[j], e, typed, cin)
      \/ /\ e.pc \in {"start", "record"} /\ typed = << >>
         /\ verdict[j] = "asked" => terminal.eof
         /\ e.pc = "start" => verdict[j] = "yes"
  <2>1. CASE verdict[j] = "asked"
    <3>1. exec[j].pc \in {"ask", "peek"} /\ exec[j].input = << >> /\ terminal.typed = << >>
      BY <1>3, <2>1 DEF Progress
    <3>2. /\ typed = << >>
          /\ \/ e.pc \in {"ask", "peek"} /\ e.input = << >>
             \/ e.pc = "record" /\ terminal.eof
      BY <3>1, WaitingKept
    <3> QED BY <2>1, <3>2 DEF Progress, Asking
  <2>2. CASE verdict[j] # "asked"
    <3>1. PICK c \in {"y", "n"} : c = Letter(verdict[j]) /\ (c = "y" => verdict[j] = "yes")
      BY DEF Letter
    <3>2. /\ verdict[j] \in {"yes", "no"} /\ terminal.cin = "good"
          /\ Between(c, exec[j], terminal.typed)
      BY <1>3, <2>2, <3>1 DEF Progress
    <3>3. /\ cin = "good"
          /\ \/ e.pc \in Asking /\ Between(c, e, typed)
             \/ /\ e.pc \in {"start", "record"} /\ typed = << >>
                /\ e.pc = "start" => c = "y"
      BY <3>2, BetweenKept
    <3> QED BY <3>1, <3>2, <3>3 DEF Progress
  <2> QED BY <2>1, <2>2
<1>5. \A i \in Jobs : GoesOn(exec'[i]) => verdict[i] = "yes"
  <2>1. GoesOn(e) => e.pc = "start"
    BY DEF GoesOn
  <2>2. GoesOn(e) => verdict[j] = "yes"
    BY <1>4, <2>1 DEF Asking
  <2> QED BY <2>2 DEF OneAtATime
<1>6. \A i \in Jobs : exec'[i].pc \in Asking => i = j
  BY <1>2
<1>7. CASE e.pc \in Asking /\ Progress(verdict[j], e, typed, cin)
  <2>1. \A i \in Jobs : verdict[i] = "asked" => exec'[i].pc \in Asking \/ terminal.eof
    BY <1>7 DEF OneAtATime
  <2> QED BY <1>1, <1>5, <1>6, <1>7, <2>1 DEF OneAtATime
<1>8. CASE /\ e.pc \in {"start", "record"} /\ typed = << >>
           /\ verdict[j] = "asked" => terminal.eof
  <2>1. \A i \in Jobs : exec'[i].pc \notin Asking
    BY <1>6, <1>8 DEF Asking
  <2>2. \A i \in Jobs : verdict[i] = "asked" => exec'[i].pc \in Asking \/ terminal.eof
    BY <1>8 DEF OneAtATime
  <2> QED BY <1>1, <1>5, <1>8, <2>1, <2>2 DEF OneAtATime
<1> QED BY <1>4, <1>7, <1>8

LEMMA AsksObeys ==
  ASSUME HInv, Obeys, NEW j \in Jobs, Asks(j)
  PROVE  Obeys'
<1>1. /\ UNCHANGED <<scenario, verdict, mixed>> /\ Jobs' = Jobs
      /\ exec \in [Jobs -> Exec] /\ StageOk(j, exec[j])
  BY AsksDoes, JobsStay DEF HInv, ExecInv
<1>2. PICK e \in Exec, typed \in Seq(Keys), cin \in {"good", "eof", "fail"} :
        AsksOn(j, e, typed, cin)
  BY AsksDoes DEF AsksOnSome
<1>3. /\ exec'[j] = e /\ \A i \in Jobs : i # j => exec'[i] = exec[i]
      /\ terminal'.typed = typed /\ terminal'.eof = terminal.eof /\ terminal'.cin = cin
      /\ e.child = exec[j].child /\ TerminalStep(j, e, typed, cin)
  BY <1>1, <1>2 DEF AsksOn
<1>4. /\ exec[j].pc \in Asking
      /\ e.pc \in Asking \cup {"start", "record"}
      /\ e.pc = "start" => e.input = exec[j].input /\ Approved(exec[j].input)
      /\ cin # "good" => terminal.cin # "good" \/ terminal.eof
  BY <1>3 DEF TerminalStep, AskStep, PeekStep, UngetStep, TakeStep, DropStep, EndStep,
              Decided, Asking
<1>5. exec[j].child = << >>
  BY <1>1, <1>4 DEF StageOk
<1>6. terminal'.cin # "good" => terminal'.eof
  BY <1>3, <1>4 DEF Obeys
<1> SUFFICES ASSUME scenario.approve
             PROVE  /\ NotYetAsked' /\ GoersRead' /\ NoYes'
                    /\ ~terminal.eof => Enough'
                    /\ ~mixed => OneAtATime'
  BY <1>1, <1>3, <1>6 DEF Obeys
<1>7. /\ NotYetAsked /\ GoersRead /\ NoYes
      /\ ~terminal.eof => Enough
      /\ ~mixed => OneAtATime
      /\ terminal.cin # "good" => terminal.eof
  BY DEF Obeys
<1>8. NotYetAsked'
  <2>1. e.pc \notin Early
    BY <1>4 DEF Early, Asking
  <2> QED BY <1>1, <1>3, <1>7, <2>1 DEF NotYetAsked
<1>9. GoersRead'
  <2>1. GoesOn(e) => e.input # << >>
    BY <1>3, <1>4, <1>5 DEF GoesOn, Approved
  <2> QED BY <1>1, <1>3, <1>7, <2>1 DEF GoersRead
<1>10. NoYes'
  <2>1. SUFFICES ASSUME Yeses = {}
                 PROVE  /\ typed \in Seq({"n", "newline"})
                        /\ e.hand # "y" /\ e.input \in Seq({"n"}) /\ ~GoesOn(e)
    BY <1>1, <1>3, <1>7 DEF NoYes, Yeses
  <2>2. /\ typed \in Seq({"n", "newline"})
        /\ e.hand # "y" /\ e.input \in Seq({"n"}) /\ e.pc # "start"
    BY <1>3, <1>7, <2>1, StepWithoutYes DEF NoYes
  <2> QED BY <1>3, <1>5, <2>2 DEF GoesOn
<1>11. ASSUME ~terminal.eof PROVE Enough'
  <2>1. Answered' = Answered
    BY <1>1 DEF Answered
  <2>2. Len(typed) + Weight(e) <= Len(terminal.typed) + Weight(exec[j])
    BY <1>3, <1>5, <1>7, <1>11, StepWeighs
  <2>3. PICK n \in Nat : n = Len(typed)
    OBVIOUS
  <2>4. n + Weight(exec'[j]) <= Len(terminal.typed) + Weight(exec[j])
    BY <1>3, <2>2, <2>3, Zenon
  <2>5. n = Len(terminal'.typed)
    BY <1>3, <2>3
  <2> QED BY <1>1, <1>3, <1>7, <1>11, <2>1, <2>4, <2>5, EnoughAt
<1>12. ASSUME ~mixed PROVE OneAtATime'
  BY <1>1, <1>3, <1>4, <1>5, <1>7, <1>12, AsksAlone
<1> QED BY <1>8, <1>9, <1>10, <1>11, <1>12

LEMMA AnswerObeys ==
  ASSUME HInv, Obeys, NEW j \in Jobs, NEW v \in {"yes", "no"}, Answer(j, v)
  PROVE  Obeys'
<1>1. PICK c \in {"y", "n"} :
        /\ c = Letter(v)
        /\ terminal' = [terminal EXCEPT !.typed = @ \o <<c, "newline">>]
  BY DEF Answer, Letter
<1>2. /\ verdict[j] = "asked" /\ ~terminal.eof /\ verdict' = [verdict EXCEPT ![j] = v]
      /\ scenario' = scenario /\ exec' = exec /\ mixed' = mixed /\ Jobs' = Jobs
      /\ terminal \in [typed : Seq(Keys), eof : BOOLEAN, cin : {"good", "eof", "fail"}]
      /\ verdict \in [Jobs -> {"none", "asked", "yes", "no"}]
  BY JobsStay DEF Answer, HInv, TerminalOk
<1>3. /\ terminal'.typed = terminal.typed \o <<c, "newline">>
      /\ terminal'.eof = terminal.eof /\ terminal'.cin = terminal.cin
      /\ verdict'[j] = v /\ \A i \in Jobs : i # j => verdict'[i] = verdict[i]
  BY <1>1, <1>2
<1>4. terminal'.cin # "good" => terminal'.eof
  BY <1>3 DEF Obeys
<1> SUFFICES ASSUME scenario.approve
             PROVE  NotYetAsked' /\ GoersRead' /\ NoYes' /\ Enough' /\ (~mixed => OneAtATime')
  BY <1>2, <1>4 DEF Obeys
<1>5. /\ NotYetAsked /\ GoersRead /\ NoYes /\ Enough
      /\ ~mixed => OneAtATime
      /\ terminal.cin = "good"
  BY <1>2 DEF Obeys
<1>6. NotYetAsked'
  BY <1>2, <1>3, <1>5 DEF NotYetAsked
<1>7. GoersRead'
  BY <1>2, <1>5 DEF GoersRead
<1>8. NoYes'
  <2> SUFFICES ASSUME Yeses' = {}
               PROVE  /\ terminal'.typed \in Seq({"n", "newline"})
                      /\ \A i \in Jobs : /\ exec[i].hand # "y"
                                         /\ exec[i].input \in Seq({"n"})
                                         /\ ~GoesOn(exec[i])
    BY <1>2 DEF NoYes
  <2>1. v # "yes"
    BY <1>2, <1>3 DEF Yeses
  <2>2. Yeses = {}
    BY <1>2, <1>3 DEF Yeses
  <2>3. c = "n"
    BY <1>1, <2>1 DEF Letter
  <2>4. terminal.typed \in Seq({"n", "newline"})
    BY <1>5, <2>2 DEF NoYes
  <2>5. <<c, "newline">> \in Seq({"n", "newline"})
    BY <2>3
  <2>6. terminal'.typed \in Seq({"n", "newline"})
    BY <1>3, <2>4, <2>5, ConcatProperties
  <2> QED BY <1>5, <2>2, <2>6 DEF NoYes
<1>9. Enough'
  <2>1. Holders' = Holders /\ Takers' = Takers /\ Goers' = Goers
    BY <1>2 DEF Holders, Takers, Goers
  <2>2. Answered' = Answered \cup {j} /\ j \notin Answered
    BY <1>2, <1>3 DEF Answered
  <2>3. Answered \in SUBSET Jobs
    BY DEF Answered
  <2>4. IsFiniteSet(Answered) /\ Cardinality(Answered) \in Nat
    BY <2>3, JobsFinite
  <2>5. Cardinality(Answered') = Cardinality(Answered) + 1
    BY <2>2, <2>4, FS_AddElement
  <2>6. Len(terminal'.typed) = Len(terminal.typed) + 2 /\ Len(terminal.typed) \in Nat
    <3>1. PICK text \in Seq(Keys) : text = terminal.typed
      BY <1>2
    <3>2. <<c, "newline">> \in Seq(Keys) /\ Len(<<c, "newline">>) = 2
      BY DEF Keys
    <3>3. Len(text \o <<c, "newline">>) = Len(text) + 2 /\ Len(text) \in Nat
      BY <3>2, ConcatProperties
    <3> QED BY <1>3, <3>1, <3>3
  <2>7. PICK h \in Nat :
          h = Cardinality(Holders) + Cardinality(Takers) + Cardinality(Goers)
    <3>1. Holders \in SUBSET Jobs /\ Takers \in SUBSET Jobs /\ Goers \in SUBSET Jobs
      BY DEF Holders, Takers, Goers
    <3>2. /\ Cardinality(Holders) \in Nat /\ Cardinality(Takers) \in Nat
          /\ Cardinality(Goers) \in Nat
      BY <3>1, JobsFinite
    <3> QED BY <3>2
  <2>8. PICK a \in Nat, n \in Nat : a = Cardinality(Answered) /\ n = Len(terminal.typed)
    BY <2>4, <2>6
  <2>9. n + h <= 2 * a
    BY <1>5, <2>7, <2>8 DEF Enough
  <2>10. (n + 2) + h <= 2 * (a + 1)
    BY <2>9
  <2>11. Len(terminal'.typed) = n + 2 /\ Cardinality(Answered') = a + 1
    BY <2>5, <2>6, <2>8
  <2>12. Cardinality(Holders') + Cardinality(Takers') + Cardinality(Goers') = h
    BY <2>1, <2>7
  <2> QED BY <2>10, <2>11, <2>12, Zenon DEF Enough
<1>10. ASSUME ~mixed PROVE OneAtATime'
  <2>1. OneAtATime /\ exec[j].pc \in Asking
    BY <1>2, <1>5, <1>10 DEF OneAtATime
  <2>2. exec[j].pc \in {"ask", "peek"} /\ exec[j].input = << >> /\ terminal.typed = << >>
    <3>1. Progress("asked", exec[j], terminal.typed, terminal.cin)
      BY <1>2, <2>1 DEF OneAtATime
    <3> QED BY <3>1 DEF Progress
  <2>3. terminal'.typed = <<c, "newline">>
    <3>1. << >> \o <<c, "newline">> = <<c, "newline">>
      OBVIOUS
    <3> QED BY <1>3, <2>2, <3>1
  <2>4. Progress(verdict'[j], exec'[j], terminal'.typed, terminal'.cin)
    BY <1>1, <1>2, <1>3, <1>5, <2>2, <2>3 DEF Progress, Between
  <2>5. \A i \in Jobs : exec[i].pc \in Asking => i = j
    BY <2>1 DEF OneAtATime
  <2>6. \A i \in Jobs : verdict'[i] = "asked" => exec'[i].pc \in Asking \/ terminal'.eof
    BY <1>2, <1>3, <2>1 DEF OneAtATime
  <2>7. \A i \in Jobs : GoesOn(exec'[i]) => verdict'[i] = "yes"
    BY <1>2, <1>3, <2>1 DEF OneAtATime
  <2> QED BY <1>2, <2>1, <2>4, <2>5, <2>6, <2>7 DEF OneAtATime
<1> QED BY <1>6, <1>7, <1>8, <1>9, <1>10

LEMMA ObeysKept ==
  ASSUME HInv, Obeys, [Next]_vars
  PROVE  Obeys'
<1>1. CASE UNCHANGED vars
  BY <1>1 DEF vars, Obeys, NotYetAsked, GoersRead, NoYes, Enough, OneAtATime,
              Holders, Takers, Goers, Yeses, Answered, Jobs
<1>2. CASE Enqueue
  <2>1. /\ arrived + 1 \in Jobs /\ arrived \in Nat /\ Jobs \subseteq Nat
        /\ ExecInv /\ Goto(arrived + 1, "queued")
    BY <1>2, ScenarioFacts DEF Enqueue, HInv, ExecInv
  <2>2. PICK j \in Jobs : j = arrived + 1 /\ j > arrived
    BY <2>1
  <2>3. exec[j].pc = "out"
    BY <2>1, <2>2 DEF ExecInv, QueueOk
  <2>4. Quiet(j)
    BY <2>1, <2>2, <2>3, QuietGoto DEF PCs, Early, Asking
  <2> QED BY <1>2, <2>4, QuietKeeps DEF Enqueue
<1>3. CASE Dequeue
  <2>1. queue \in Seq(Jobs) /\ queue # << >> /\ Goto(Head(queue), "validate") /\ ExecInv
    BY <1>3 DEF Dequeue, HInv, ExecInv
  <2>2. PICK j \in Jobs : j = Head(queue) /\ j = queue[1] /\ 1 \in 1 .. Len(queue)
    BY <2>1
  <2>3. exec[j].pc = "queued"
    BY <2>1, <2>2 DEF ExecInv, QueueOk
  <2>4. Quiet(j)
    BY <2>1, <2>2, <2>3, QuietGoto DEF PCs, Early, Asking
  <2> QED BY <1>3, <2>4, QuietKeeps DEF Dequeue
<1>4. CASE CloseInput
  <2>1. /\ UNCHANGED <<scenario, exec, verdict, mixed>> /\ Jobs' = Jobs
        /\ terminal'.typed = terminal.typed /\ terminal'.cin = terminal.cin
        /\ terminal'.eof
    BY <1>4, JobsStay DEF CloseInput, HInv, TerminalOk
  <2>2. scenario.approve => NotYetAsked' /\ GoersRead' /\ NoYes'
    BY <2>1 DEF Obeys, NotYetAsked, GoersRead, NoYes, Yeses
  <2>3. scenario.approve /\ ~mixed => OneAtATime'
    BY <2>1 DEF Obeys, OneAtATime
  <2> QED BY <2>1, <2>2, <2>3 DEF Obeys
<1>5. ASSUME NEW j \in Jobs, Validate(j) PROVE Obeys'
  BY <1>5, ValidateObeys
<1>6. ASSUME NEW j \in Jobs, Asks(j) PROVE Obeys'
  BY <1>6, AsksObeys
<1>7. ASSUME NEW j \in Jobs, Popen(j) PROVE Obeys'
  BY <1>7, QuietPopen, QuietKeeps DEF Popen
<1>8. ASSUME NEW j \in Jobs, Fgets(j) PROVE Obeys'
  BY <1>8, QuietFgets, QuietKeeps DEF Fgets
<1>9. ASSUME NEW j \in Jobs, FgetsEnd(j) PROVE Obeys'
  BY <1>9, QuietGoto, QuietKeeps DEF FgetsEnd, At, PCs, Early, Asking
<1>10. ASSUME NEW j \in Jobs, Pclose(j) PROVE Obeys'
  BY <1>10, QuietPclose, QuietKeeps DEF Pclose
<1>11. ASSUME NEW j \in Jobs, Record(j) PROVE Obeys'
  BY <1>11, QuietGoto, QuietKeeps DEF Record, At, PCs, Early, Asking
<1>12. ASSUME NEW j \in Jobs, NEW v \in {"yes", "no"}, Answer(j, v) PROVE Obeys'
  BY <1>12, AnswerObeys
<1> QED
  BY <1>1, <1>2, <1>3, <1>4, <1>5, <1>6, <1>7, <1>8, <1>9, <1>10, <1>11, <1>12
  DEF Next, Execute, Asks, Operator, Rest

LEMMA ObeysInit ==
  ASSUME Init
  PROVE  Obeys
<1>1. /\ \A j \in Jobs : exec[j] = NotArrived /\ verdict[j] = "none"
      /\ terminal.typed = << >> /\ terminal.cin = "good"
  BY DEF Init
<1>2. \A j \in Jobs : /\ exec[j].pc = "out" /\ exec[j].input = << >>
                      /\ exec[j].hand = "none" /\ exec[j].child = << >>
  BY <1>1 DEF NotArrived
<1>3. NotYetAsked /\ GoersRead
  BY <1>1, <1>2 DEF NotYetAsked, GoersRead, GoesOn
<1>4. NoYes
  <2>1. << >> \in Seq({"n", "newline"}) /\ << >> \in Seq({"n"})
    OBVIOUS
  <2> QED BY <1>1, <1>2, <2>1 DEF NoYes, GoesOn
<1>5. Enough
  <2>1. Holders = {} /\ Takers = {} /\ Goers = {} /\ Answered = {}
    BY <1>1, <1>2 DEF Holders, Takers, Goers, Answered, TookOne, GoesOn
  <2>2. Cardinality({}) = 0 /\ Len(<< >>) = 0
    BY FS_EmptySet
  <2> QED BY <1>1, <2>1, <2>2 DEF Enough
<1>6. OneAtATime
  BY <1>1, <1>2 DEF OneAtATime, GoesOn, Asking
<1> QED BY <1>1, <1>3, <1>4, <1>5, <1>6 DEF Obeys

\* The approval callback (main.cpp, host_skill_executor.cpp) on one terminal,
\* whose characters each thread looks at and takes in separate steps: if the
\* operator never says yes, nothing runs; as long as the terminal is open, no
\* more commands run than prompts were answered, since each costs two of the
\* characters typed; and with one prompt at a time the command that runs is the
\* one the yes was for.
THEOREM OperatorIsObeyed == Spec => []OperatorDecides
<1>1. HInv /\ Obeys => OperatorDecides
  <2> SUFFICES ASSUME HInv, Obeys, scenario.approve
               PROVE  /\ Yeses = {} => Ran = {}
                      /\ ~terminal.eof => Cardinality(Ran) <= Cardinality(Answered)
                      /\ ~mixed => Ran \subseteq Yeses
    BY DEF OperatorDecides
  <2>1. Ran \subseteq Goers
    BY DEF Ran, Goers, GoesOn
  <2>2. Yeses = {} => Ran = {}
    BY DEF Obeys, NoYes, Ran, GoesOn
  <2>3. ~mixed => Ran \subseteq Yeses
    BY DEF Obeys, OneAtATime, Ran, GoesOn, Yeses
  <2>4. ASSUME ~terminal.eof
        PROVE  Cardinality(Ran) <= Cardinality(Answered)
    <3>1. Goers \subseteq Takers
      <4>1. ASSUME NEW j \in Jobs, GoesOn(exec[j])
            PROVE  TookOne(exec[j])
        <5>1. exec[j].input # << >>
          BY <4>1 DEF Obeys, GoersRead
        <5>2. exec[j].pc # "take"
          BY <4>1 DEF HInv, ExecInv, StageOk, GoesOn, Asking
        <5> QED BY <5>1, <5>2 DEF TookOne
      <4> QED BY <4>1 DEF Goers, Takers
    <3>2. /\ Holders \in SUBSET Jobs /\ Takers \in SUBSET Jobs /\ Goers \in SUBSET Jobs
          /\ Answered \in SUBSET Jobs /\ Ran \in SUBSET Jobs
      BY DEF Holders, Takers, Goers, Answered, Ran
    <3>3. IsFiniteSet(Takers) /\ IsFiniteSet(Goers)
      BY <3>2, JobsFinite
    <3>4. Cardinality(Goers) <= Cardinality(Takers) /\ Cardinality(Ran) <= Cardinality(Goers)
      BY <2>1, <3>1, <3>3, FS_Subset
    <3>5. PICK h \in Nat, t \in Nat, g \in Nat, a \in Nat, r \in Nat :
            /\ h = Cardinality(Holders) /\ t = Cardinality(Takers) /\ g = Cardinality(Goers)
            /\ a = Cardinality(Answered) /\ r = Cardinality(Ran)
      BY <3>2, JobsFinite
    <3>6. PICK n \in Nat : n = Len(terminal.typed)
      <4>1. PICK text \in Seq(Keys) : text = terminal.typed
        BY TerminalFields DEF HInv
      <4> QED BY <4>1
    <3>7. n + (h + t + g) <= 2 * a
      BY <2>4, <3>5, <3>6 DEF Obeys, Enough
    <3>8. g <= t /\ r <= g
      BY <3>4, <3>5
    <3>9. r <= a
      BY <3>7, <3>8
    <3> QED BY <3>5, <3>9
  <2> QED BY <2>2, <2>3, <2>4
<1>2. Init => Obeys
  BY ObeysInit
<1>3. HInv /\ Obeys /\ [Next]_vars => Obeys'
  BY ObeysKept
<1> QED BY <1>1, <1>2, <1>3, HInvAlways, PTL DEF Spec

-----------------------------------------------------------------------------
(* Cutting a command at its pipes *)

\* A state of split_pipe_segments: the open quotes, whether a backslash came
\* last, the segment that is read, and those that are complete.
St(a, b, e, cur, segs) ==
  [single |-> a, double |-> b, escaped |-> e, current |-> cur, segments |-> segs]

Splitting == [single : BOOLEAN, double : BOOLEAN, escaped : BOOLEAN,
              current : Text, segments : Seq(Text)]

Split(text) == FoldLeft(SplitStep, Scan, text)

Cuts(a, b, e, c) == ~e /\ c = "|" /\ ~a /\ ~b
NextSingle(a, b, e, c) == IF ~e /\ c = Quote /\ ~b THEN ~a ELSE a
NextDouble(a, b, e, c) == IF ~e /\ c = "\"" /\ ~a THEN ~b ELSE b
NextEscaped(a, b, e, c) == ~e /\ c = Backslash /\ ~a

LEMMA StFields ==
  ASSUME NEW a, NEW b, NEW e, NEW cur, NEW segs
  PROVE  /\ St(a, b, e, cur, segs).single = a
         /\ St(a, b, e, cur, segs).double = b
         /\ St(a, b, e, cur, segs).escaped = e
         /\ St(a, b, e, cur, segs).current = cur
         /\ St(a, b, e, cur, segs).segments = segs
         /\ \A x : [St(a, b, e, cur, segs) EXCEPT !.current = x] = St(a, b, e, x, segs)
         /\ \A x : [St(a, b, e, cur, segs) EXCEPT !.single = x] = St(x, b, e, cur, segs)
         /\ \A x : [St(a, b, e, cur, segs) EXCEPT !.double = x] = St(a, x, e, cur, segs)
         /\ \A x : [St(a, b, e, cur, segs) EXCEPT !.escaped = x] = St(a, b, x, cur, segs)
         /\ \A x : [St(a, b, e, cur, segs) EXCEPT !.segments = x] = St(a, b, e, cur, x)
<1>1. /\ St(a, b, e, cur, segs).single = a
      /\ St(a, b, e, cur, segs).double = b
      /\ St(a, b, e, cur, segs).escaped = e
      /\ St(a, b, e, cur, segs).current = cur
      /\ St(a, b, e, cur, segs).segments = segs
  BY DEF St
<1>2. \A x : [St(a, b, e, cur, segs) EXCEPT !.current = x] = St(a, b, e, x, segs)
  BY DEF St
<1>3. \A x : [St(a, b, e, cur, segs) EXCEPT !.single = x] = St(x, b, e, cur, segs)
  BY DEF St
<1>4. \A x : [St(a, b, e, cur, segs) EXCEPT !.double = x] = St(a, x, e, cur, segs)
  BY DEF St
<1>5. \A x : [St(a, b, e, cur, segs) EXCEPT !.escaped = x] = St(a, b, x, cur, segs)
  BY DEF St
<1>6. \A x : [St(a, b, e, cur, segs) EXCEPT !.segments = x] = St(a, b, e, cur, x)
  BY DEF St
<1> QED BY <1>1, <1>2, <1>3, <1>4, <1>5, <1>6

LEMMA SplitCases ==
  ASSUME NEW a \in BOOLEAN, NEW b \in BOOLEAN, NEW e \in BOOLEAN,
         NEW cur, NEW segs, NEW c
  PROVE  SplitStep(St(a, b, e, cur, segs), c) =
           IF Cuts(a, b, e, c) THEN St(a, b, e, << >>, Append(segs, cur))
           ELSE St(NextSingle(a, b, e, c), NextDouble(a, b, e, c), NextEscaped(a, b, e, c),
                   Append(cur, c), segs)
<1>1. /\ Backslash # Quote /\ Backslash # "\"" /\ Backslash # "|"
      /\ Quote # "\"" /\ Quote # "|" /\ "\"" # "|"
  BY DEF Backslash, Quote
<1>2. PICK s : s = St(a, b, e, cur, segs)
  OBVIOUS
<1>3. PICK k : k = [s EXCEPT !.current = Append(s.current, c)]
  OBVIOUS
<1>4. /\ s.single = a /\ s.double = b /\ s.escaped = e
      /\ s.current = cur /\ s.segments = segs
  BY <1>2, StFields
<1>5. k = St(a, b, e, Append(cur, c), segs)
  <2>1. k = [s EXCEPT !.current = Append(cur, c)]
    BY <1>3, <1>4
  <2>2. \A x : [s EXCEPT !.current = x] = St(a, b, e, x, segs)
    BY <1>2 DEF St
  <2> QED BY <2>1, <2>2, Zenon
<1>6. /\ k.single = a /\ k.double = b
      /\ \A x : [k EXCEPT !.single = x] = St(x, b, e, Append(cur, c), segs)
      /\ \A x : [k EXCEPT !.double = x] = St(a, x, e, Append(cur, c), segs)
      /\ \A x : [k EXCEPT !.escaped = x] = St(a, b, x, Append(cur, c), segs)
  <2>1. PICK q : q = Append(cur, c)
    OBVIOUS
  <2>2. k = St(a, b, e, q, segs)
    BY <1>5, <2>1
  <2>3. k.single = a /\ k.double = b
    BY <2>2, StFields
  <2>4. \A x : [k EXCEPT !.single = x] = St(x, b, e, q, segs)
    BY <2>2 DEF St
  <2>5. \A x : [k EXCEPT !.double = x] = St(a, x, e, q, segs)
    BY <2>2 DEF St
  <2>6. \A x : [k EXCEPT !.escaped = x] = St(a, b, x, q, segs)
    BY <2>2 DEF St
  <2> QED BY <2>1, <2>3, <2>4, <2>5, <2>6
<1>7. CASE e
  <2>1. SplitStep(s, c) = [k EXCEPT !.escaped = FALSE]
    BY <1>3, <1>4, <1>7, Zenon DEF SplitStep
  <2>2. /\ ~Cuts(a, b, e, c) /\ NextSingle(a, b, e, c) = a /\ NextDouble(a, b, e, c) = b
        /\ NextEscaped(a, b, e, c) = FALSE
    BY <1>7, Zenon DEF Cuts, NextSingle, NextDouble, NextEscaped
  <2> QED BY <1>2, <1>6, <2>1, <2>2, Zenon
<1>8. CASE ~e /\ c = Backslash /\ ~a
  <2>1. SplitStep(s, c) = [k EXCEPT !.escaped = TRUE]
    BY <1>1, <1>3, <1>4, <1>8, Zenon DEF SplitStep
  <2>2. /\ ~Cuts(a, b, e, c) /\ NextSingle(a, b, e, c) = a /\ NextDouble(a, b, e, c) = b
        /\ NextEscaped(a, b, e, c) = TRUE
    BY <1>1, <1>8, Zenon DEF Cuts, NextSingle, NextDouble, NextEscaped
  <2> QED BY <1>2, <1>6, <2>1, <2>2, Zenon
<1>9. CASE ~e /\ c = Quote /\ ~b
  <2>1. SplitStep(s, c) = [k EXCEPT !.single = ~k.single]
    BY <1>1, <1>3, <1>4, <1>9, Zenon DEF SplitStep
  <2>2. /\ ~Cuts(a, b, e, c) /\ NextSingle(a, b, e, c) = ~a /\ NextDouble(a, b, e, c) = b
        /\ NextEscaped(a, b, e, c) = FALSE /\ e = FALSE
    BY <1>1, <1>9, Zenon DEF Cuts, NextSingle, NextDouble, NextEscaped
  <2> QED BY <1>2, <1>6, <2>1, <2>2, Zenon
<1>10. CASE ~e /\ c = "\"" /\ ~a
  <2>1. SplitStep(s, c) = [k EXCEPT !.double = ~k.double]
    BY <1>1, <1>3, <1>4, <1>10, Zenon DEF SplitStep
  <2>2. /\ ~Cuts(a, b, e, c) /\ NextSingle(a, b, e, c) = a /\ NextDouble(a, b, e, c) = ~b
        /\ NextEscaped(a, b, e, c) = FALSE /\ e = FALSE
    BY <1>1, <1>10, Zenon DEF Cuts, NextSingle, NextDouble, NextEscaped
  <2> QED BY <1>2, <1>6, <2>1, <2>2, Zenon
<1>11. CASE Cuts(a, b, e, c)
  <2>1. SplitStep(s, c) = [s EXCEPT !.segments = Append(s.segments, s.current),
                                    !.current = << >>]
    BY <1>1, <1>3, <1>4, <1>11, Zenon DEF SplitStep, Cuts
  <2>2. ASSUME NEW x, NEW y
        PROVE  [s EXCEPT !.segments = x, !.current = y] = St(a, b, e, y, x)
    <3>1. s = [single |-> a, double |-> b, escaped |-> e, current |-> cur,
               segments |-> segs]
      BY <1>2 DEF St
    <3>2. PICK t : t = [s EXCEPT !.segments = x]
      OBVIOUS
    <3>3. t = [single |-> a, double |-> b, escaped |-> e, current |-> cur,
               segments |-> x]
      BY <3>1, <3>2
    <3>4. [t EXCEPT !.current = y] = St(a, b, e, y, x)
      BY <3>3 DEF St
    <3>5. [s EXCEPT !.segments = x, !.current = y] = [t EXCEPT !.current = y]
      BY <3>1, <3>2
    <3> QED BY <3>4, <3>5
  <2> QED BY <1>2, <1>4, <1>11, <2>1, <2>2, Zenon
<1>12. CASE /\ ~e /\ ~(c = Backslash /\ ~a) /\ ~(c = Quote /\ ~b) /\ ~(c = "\"" /\ ~a)
            /\ ~Cuts(a, b, e, c)
  <2>1. SplitStep(s, c) = k
    BY <1>1, <1>3, <1>4, <1>12, Zenon DEF SplitStep, Cuts
  <2>2. /\ NextSingle(a, b, e, c) = a /\ NextDouble(a, b, e, c) = b
        /\ NextEscaped(a, b, e, c) = FALSE /\ e = FALSE
    BY <1>12, Zenon DEF NextSingle, NextDouble, NextEscaped
  <2> QED BY <1>2, <1>5, <1>12, <2>1, <2>2, Zenon
<1> QED BY <1>7, <1>8, <1>9, <1>10, <1>11, <1>12, Zenon

LEMMA SplitCut ==
  ASSUME NEW a \in BOOLEAN, NEW b \in BOOLEAN, NEW e \in BOOLEAN,
         NEW cur, NEW segs, NEW c, Cuts(a, b, e, c)
  PROVE  SplitStep(St(a, b, e, cur, segs), c) = St(a, b, e, << >>, Append(segs, cur))
BY SplitCases

LEMMA BarIsChar == "|" \in Char /\ <<"|">> \in Text /\ << >> \in Text
BY DEF Char, Text

LEMMA SplittingIsSt ==
  ASSUME NEW s \in Splitting
  PROVE  \E a, b, e \in BOOLEAN, cur \in Text, segs \in Seq(Text) :
           s = St(a, b, e, cur, segs)
<1>1. s = St(s.single, s.double, s.escaped, s.current, s.segments)
  BY DEF Splitting, St
<1>2. /\ s.single \in BOOLEAN /\ s.double \in BOOLEAN /\ s.escaped \in BOOLEAN
      /\ s.current \in Text /\ s.segments \in Seq(Text)
  BY DEF Splitting
<1> QED BY <1>1, <1>2, Zenon

LEMMA StTyped ==
  ASSUME NEW a \in BOOLEAN, NEW b \in BOOLEAN, NEW e \in BOOLEAN,
         NEW cur \in Text, NEW segs \in Seq(Text)
  PROVE  St(a, b, e, cur, segs) \in Splitting
BY DEF St, Splitting

LEMMA NextFlags ==
  ASSUME NEW a \in BOOLEAN, NEW b \in BOOLEAN, NEW e \in BOOLEAN, NEW c
  PROVE  /\ NextSingle(a, b, e, c) \in BOOLEAN /\ NextDouble(a, b, e, c) \in BOOLEAN
         /\ NextEscaped(a, b, e, c) \in BOOLEAN
BY DEF NextSingle, NextDouble, NextEscaped

LEMMA SplitTyped ==
  ASSUME NEW s \in Splitting, NEW c \in Char
  PROVE  SplitStep(s, c) \in Splitting
<1>1. PICK a, b, e \in BOOLEAN, cur \in Text, segs \in Seq(Text) :
        s = St(a, b, e, cur, segs)
  BY SplittingIsSt
<1>2. << >> \in Text /\ Append(cur, c) \in Text /\ Append(segs, cur) \in Seq(Text)
  BY BarIsChar, AppendProperties DEF Text
<1>3. CASE Cuts(a, b, e, c)
  <2>1. SplitStep(s, c) = St(a, b, e, << >>, Append(segs, cur))
    <3>1. SplitStep(St(a, b, e, cur, segs), c) = St(a, b, e, << >>, Append(segs, cur))
      BY <1>1, <1>3, SplitCut
    <3> QED BY <1>1, <3>1
  <2>2. PICK more \in Seq(Text) : more = Append(segs, cur)
    BY <1>2
  <2>3. St(a, b, e, << >>, more) \in Splitting
    BY <1>1, <1>2, StTyped
  <2> QED BY <2>1, <2>2, <2>3
<1>4. CASE ~Cuts(a, b, e, c)
  <2>1. PICK a1, b1, e1 \in BOOLEAN :
          a1 = NextSingle(a, b, e, c) /\ b1 = NextDouble(a, b, e, c)
            /\ e1 = NextEscaped(a, b, e, c)
    BY NextFlags
  <2>2. SplitStep(s, c) = St(a1, b1, e1, Append(cur, c), segs)
    BY <1>1, <1>4, <2>1, SplitCases
  <2> QED BY <1>2, <2>2, StTyped
<1> QED BY <1>3, <1>4

LEMMA ScanIsSt == Scan = St(FALSE, FALSE, FALSE, << >>, << >>) /\ Scan \in Splitting
<1>1. Scan = St(FALSE, FALSE, FALSE, << >>, << >>)
  BY DEF Scan, St
<1>2. << >> \in Text /\ << >> \in Seq(Text)
  BY BarIsChar
<1> QED BY <1>1, <1>2, StTyped

LEMMA SplitAppend ==
  ASSUME NEW text \in Text, NEW c \in Char
  PROVE  /\ Split(<< >>) = Scan
         /\ Split(text) \in Splitting
         /\ Split(Append(text, c)) = SplitStep(Split(text), c)
<1> DEFINE H == [x \in Char |-> [s \in Splitting |-> SplitStep(s, x)]]
<1>1. H \in [Char -> [Splitting -> Splitting]]
  BY SplitTyped
<1>2. Scan \in Splitting
  BY ScanIsSt
<1>3. ASSUME NEW seq \in Text
      PROVE  \E f : /\ FoldsFor(Splitting, f, seq, Scan, H)
                    /\ Split(seq) = f[DOMAIN seq]
  <2> DEFINE Eq(h) ==
        h = [s \in SUBSET (DOMAIN seq) |->
               IF s = {} THEN Scan
               ELSE SplitStep(h[s \ {Max(s)}], seq[Max(s)])]
  <2>1. PICK f \in [SUBSET (DOMAIN seq) -> Splitting] :
          FoldOver(Splitting, f, seq, Scan, H)
    <3> HIDE DEF H
    <3> QED BY <1>1, <1>2, FoldForExists DEF Text
  <2>2. Eq(f)
    <3>1. ASSUME NEW s \in SUBSET (DOMAIN seq), s # {}
          PROVE  f[s] = SplitStep(f[s \ {Max(s)}], seq[Max(s)])
      <4>1. /\ Max(s) \in DOMAIN seq /\ f[s \ {Max(s)}] \in Splitting
            /\ f[s] = H[seq[Max(s)]][f[s \ {Max(s)}]]
        BY <2>1, <3>1 DEF FoldOver
      <4>2. seq[Max(s)] \in Char
        BY <4>1 DEF Text
      <4> QED BY <4>1, <4>2
    <3>2. f[{}] = Scan
      BY <2>1 DEF FoldOver
    <3> QED BY <3>1, <3>2
  <2>3. Eq(CHOOSE h : Eq(h))
    <3> HIDE DEF Eq
    <3> QED BY <2>2, Zenon
  <2>4. Split(seq) = (CHOOSE h : Eq(h))[DOMAIN seq]
    BY DEF Split, FoldLeft, MapThenFoldSet
  <2> DEFINE g == CHOOSE h : Eq(h)
  <2>5. FoldsFor(Splitting, g, seq, Scan, H)
    <3> HIDE DEF g
    <3>1. Eq(g)
      BY <2>3 DEF g
    <3>2. g[{}] = Scan
      BY <3>1
    <3>3. ASSUME NEW s \in SUBSET (DOMAIN seq), s # {}, g[s \ {Max(s)}] \in Splitting
          PROVE  g[s] = H[seq[Max(s)]][g[s \ {Max(s)}]]
      <4>1. g[s] = SplitStep(g[s \ {Max(s)}], seq[Max(s)])
        BY <3>1, <3>3
      <4>2. seq[Max(s)] \in Char
        <5>1. Max(s) \in DOMAIN seq
          BY <2>1, <3>3 DEF FoldOver
        <5> QED BY <5>1 DEF Text
      <4> QED BY <4>1, <4>2, <3>3
    <3> QED BY <3>2, <3>3 DEF FoldsFor
  <2> QED BY <2>4, <2>5
<1> HIDE DEF H
<1>4. Split(<< >>) = Scan
  <2>1. << >> \in Text
    BY DEF Text
  <2> QED BY <1>3, <2>1, FoldForEmpty
<1>5. PICK f : FoldsFor(Splitting, f, text, Scan, H) /\ Split(text) = f[DOMAIN text]
  BY <1>3
<1>6. PICK g : /\ FoldsFor(Splitting, g, Append(text, c), Scan, H)
               /\ Split(Append(text, c)) = g[DOMAIN Append(text, c)]
  <2>1. Append(text, c) \in Text
    BY AppendProperties DEF Text
  <2> QED BY <1>3, <2>1
<1>7. StepsTo(Splitting, f, g, text, c, H)
  <2>1. text \in Seq(Char)
    BY DEF Text
  <2> QED BY <1>1, <1>2, <1>5, <1>6, <2>1, FoldForAppend
<1> QED BY <1>4, <1>5, <1>6, <1>7 DEF H, StepsTo

\* The segments put together again, with bars between them.
JoinedTo(first, rest) == FoldLeft(LAMBDA text, s : text \o <<"|">> \o s, first, rest)

LEMMA JoinedToAppend ==
  ASSUME NEW first \in Text, NEW rest \in Seq(Text), NEW last \in Text
  PROVE  /\ JoinedTo(first, << >>) = first
         /\ JoinedTo(first, rest) \in Text
         /\ JoinedTo(first, Append(rest, last)) =
              JoinedTo(first, rest) \o <<"|">> \o last
<1> DEFINE H == [x \in Text |-> [t \in Text |-> t \o <<"|">> \o x]]
<1>1. \A x, t \in Text : t \o <<"|">> \o x \in Text
  BY BarIsChar, ConcatProperties DEF Text
<1>2. H \in [Text -> [Text -> Text]]
  BY <1>1
<1>3. ASSUME NEW seq \in Seq(Text)
      PROVE  \E f : /\ FoldsFor(Text, f, seq, first, H)
                    /\ JoinedTo(first, seq) = f[DOMAIN seq]
  <2> DEFINE Eq(h) ==
        h = [s \in SUBSET (DOMAIN seq) |->
               IF s = {} THEN first
               ELSE h[s \ {Max(s)}] \o <<"|">> \o seq[Max(s)]]
  <2>1. PICK f \in [SUBSET (DOMAIN seq) -> Text] : FoldOver(Text, f, seq, first, H)
    <3> HIDE DEF H
    <3> QED BY <1>2, FoldForExists
  <2>2. Eq(f)
    <3>1. ASSUME NEW s \in SUBSET (DOMAIN seq), s # {}
          PROVE  f[s] = f[s \ {Max(s)}] \o <<"|">> \o seq[Max(s)]
      <4>1. /\ Max(s) \in DOMAIN seq /\ f[s \ {Max(s)}] \in Text
            /\ f[s] = H[seq[Max(s)]][f[s \ {Max(s)}]]
        BY <2>1, <3>1 DEF FoldOver
      <4>2. seq[Max(s)] \in Text
        BY <4>1
      <4> QED BY <4>1, <4>2
    <3>2. f[{}] = first
      BY <2>1 DEF FoldOver
    <3> QED BY <3>1, <3>2
  <2>3. Eq(CHOOSE h : Eq(h))
    <3> HIDE DEF Eq
    <3> QED BY <2>2, Zenon
  <2>4. JoinedTo(first, seq) = (CHOOSE h : Eq(h))[DOMAIN seq]
    BY DEF JoinedTo, FoldLeft, MapThenFoldSet
  <2> DEFINE g == CHOOSE h : Eq(h)
  <2>5. FoldsFor(Text, g, seq, first, H)
    <3> HIDE DEF g
    <3>1. Eq(g)
      BY <2>3 DEF g
    <3>2. g[{}] = first
      BY <3>1
    <3>3. ASSUME NEW s \in SUBSET (DOMAIN seq), s # {}, g[s \ {Max(s)}] \in Text
          PROVE  g[s] = H[seq[Max(s)]][g[s \ {Max(s)}]]
      <4>1. g[s] = g[s \ {Max(s)}] \o <<"|">> \o seq[Max(s)]
        BY <3>1, <3>3
      <4>2. seq[Max(s)] \in Text
        <5>1. Max(s) \in DOMAIN seq
          BY <2>1, <3>3 DEF FoldOver
        <5> QED BY <5>1
      <4> QED BY <4>1, <4>2, <3>3
    <3> QED BY <3>2, <3>3 DEF FoldsFor
  <2> QED BY <2>4, <2>5
<1> HIDE DEF H
<1>4. JoinedTo(first, << >>) = first
  <2>1. << >> \in Seq(Text)
    OBVIOUS
  <2> QED BY <1>3, <2>1, FoldForEmpty
<1>5. PICK f : FoldsFor(Text, f, rest, first, H) /\ JoinedTo(first, rest) = f[DOMAIN rest]
  BY <1>3
<1>6. PICK g : /\ FoldsFor(Text, g, Append(rest, last), first, H)
               /\ JoinedTo(first, Append(rest, last)) = g[DOMAIN Append(rest, last)]
  <2>1. Append(rest, last) \in Seq(Text)
    BY AppendProperties
  <2> QED BY <1>3, <2>1
<1>7. StepsTo(Text, f, g, rest, last, H)
  BY <1>2, <1>5, <1>6, FoldForAppend
<1> QED BY <1>4, <1>5, <1>6, <1>7 DEF H, StepsTo

LEMMA JoinedAppend ==
  ASSUME NEW segs \in Seq(Text), NEW last \in Text
  PROVE  /\ Joined(<<last>>) = last
         /\ segs # << >> => /\ Joined(segs) \in Text
                            /\ Joined(Append(segs, last)) =
                                 Joined(segs) \o <<"|">> \o last
<1>1. Joined(<<last>>) = last
  <2>1. Head(<<last>>) = last /\ Tail(<<last>>) = << >>
    OBVIOUS
  <2>2. Joined(<<last>>) = JoinedTo(last, << >>)
    BY <2>1 DEF Joined, JoinedTo
  <2>3. << >> \in Seq(Text)
    OBVIOUS
  <2> QED BY <2>2, <2>3, JoinedToAppend
<1>2. ASSUME segs # << >>
      PROVE  /\ Joined(segs) \in Text
             /\ Joined(Append(segs, last)) = Joined(segs) \o <<"|">> \o last
  <2>1. PICK first \in Text, rest \in Seq(Text) : first = Head(segs) /\ rest = Tail(segs)
    BY <1>2, HeadTailProperties
  <2>2. Head(Append(segs, last)) = first /\ Tail(Append(segs, last)) = Append(rest, last)
    BY <1>2, <2>1
  <2>3. Joined(segs) = JoinedTo(first, rest)
    BY <2>1 DEF Joined, JoinedTo
  <2>4. Joined(Append(segs, last)) = JoinedTo(first, Append(rest, last))
    BY <2>2 DEF Joined, JoinedTo
  <2>5. /\ JoinedTo(first, rest) \in Text
        /\ JoinedTo(first, Append(rest, last)) = JoinedTo(first, rest) \o <<"|">> \o last
    <3>1. first \in Text /\ rest \in Seq(Text) /\ last \in Text
      BY <2>1
    <3> QED BY <3>1, JoinedToAppend, Zenon
  <2>6. Joined(segs) \in Text
    BY <2>3, <2>5
  <2>7. Joined(Append(segs, last)) = Joined(segs) \o <<"|">> \o last
    BY <2>3, <2>4, <2>5
  <2> QED BY <2>6, <2>7
<1> QED BY <1>1, <1>2

\* The state behind a text, and what the segments cut from it are.
CutAs(t, a, b, e, cur, segs) ==
  /\ Split(t) = St(a, b, e, cur, segs)
  /\ Split(cur) = St(a, b, e, cur, << >>)
  /\ \A i \in 1 .. Len(segs) :
       Split(segs[i]) = St(FALSE, FALSE, FALSE, segs[i], << >>)
  /\ segs = << >> => t = cur
  /\ segs # << >> => t = Joined(segs) \o <<"|">> \o cur

IsCut(t) ==
  \E a, b, e \in BOOLEAN, cur \in Text, segs \in Seq(Text) : CutAs(t, a, b, e, cur, segs)

LEMMA AppendBehind ==
  \A s, t \in Text, x \in Char : Append(s \o t, x) = s \o Append(t, x)
<1> SUFFICES ASSUME NEW s \in Text, NEW t \in Text, NEW x \in Char
             PROVE  Append(s \o t, x) = s \o Append(t, x)
  OBVIOUS
<1>1. s \in Seq(Char) /\ t \in Seq(Char) /\ <<x>> \in Seq(Char)
  BY DEF Text
<1>2. s \o t \in Seq(Char)
  BY <1>1, ConcatProperties
<1>3. Append(t, x) = t \o <<x>> /\ Append(s \o t, x) = (s \o t) \o <<x>>
  BY <1>1, <1>2, AppendIsConcat
<1> QED BY <1>1, <1>3, ConcatAssociative

LEMMA CutAppend ==
  ASSUME NEW t \in Text, NEW c \in Char, IsCut(t)
  PROVE  IsCut(Append(t, c))
<1>1. PICK a, b, e \in BOOLEAN, cur \in Text, segs \in Seq(Text) :
        CutAs(t, a, b, e, cur, segs)
  BY Zenon DEF IsCut
<1>2. /\ Split(t) = St(a, b, e, cur, segs)
      /\ Split(cur) = St(a, b, e, cur, << >>)
      /\ \A i \in 1 .. Len(segs) :
           Split(segs[i]) = St(FALSE, FALSE, FALSE, segs[i], << >>)
      /\ segs = << >> => t = cur
      /\ segs # << >> => t = Joined(segs) \o <<"|">> \o cur
  BY <1>1 DEF CutAs
<1>3. /\ Split(Append(t, c)) = SplitStep(St(a, b, e, cur, segs), c)
      /\ Split(Append(cur, c)) = SplitStep(St(a, b, e, cur, << >>), c)
  <2>1. /\ Split(Append(t, c)) = SplitStep(Split(t), c)
        /\ Split(Append(cur, c)) = SplitStep(Split(cur), c)
    BY <1>1, SplitAppend
  <2> QED BY <1>2, <2>1
<1>4. CASE Cuts(a, b, e, c)
  <2>1. PICK more \in Seq(Text) : more = Append(segs, cur)
    BY <1>1, AppendProperties
  <2>2. Split(Append(t, c)) = St(a, b, e, << >>, more)
    BY <1>1, <1>3, <1>4, <2>1, SplitCases
  <2>3. a = FALSE /\ b = FALSE /\ e = FALSE /\ c = "|"
    BY <1>1, <1>4 DEF Cuts
  <2>4. Split(<< >>) = St(FALSE, FALSE, FALSE, << >>, << >>)
    BY SplitAppend, ScanIsSt
  <2>5. ASSUME NEW i \in 1 .. Len(more)
        PROVE  Split(more[i]) = St(FALSE, FALSE, FALSE, more[i], << >>)
    <3>1. /\ Len(more) = Len(segs) + 1 /\ more[Len(segs) + 1] = cur
          /\ \A k \in 1 .. Len(segs) : more[k] = segs[k]
          /\ Len(segs) \in Nat
      BY <1>1, <2>1, AppendProperties
    <3>2. CASE i = Len(segs) + 1
      BY <1>2, <2>3, <3>1, <3>2
    <3>3. CASE i # Len(segs) + 1
      <4>1. i \in 1 .. Len(segs)
        BY <3>1, <3>3
      <4> QED BY <1>2, <3>1, <4>1
    <3> QED BY <3>2, <3>3
  <2>6. more # << >> /\ Append(t, c) = Joined(more) \o <<"|">> \o << >>
    <3>1. PICK j \in Text : j = Joined(more) /\ t = j
      <4>1. CASE segs = << >>
        <5>1. more = <<cur>> /\ t = cur
          BY <1>2, <2>1, <4>1
        <5> QED BY <1>1, <5>1, JoinedAppend
      <4>2. CASE segs # << >>
        <5>1. Joined(more) = Joined(segs) \o <<"|">> \o cur
          BY <1>1, <2>1, <4>2, JoinedAppend
        <5> QED BY <1>2, <4>2, <5>1
      <4> QED BY <4>1, <4>2
    <3>2. Append(j, "|") = j \o <<"|">> \o << >>
      BY BarIsChar DEF Text
    <3>3. more # << >>
      BY <1>1, <2>1, AppendProperties
    <3> QED BY <2>3, <3>1, <3>2, <3>3
  <2>7. CutAs(Append(t, c), a, b, e, << >>, more)
    BY <2>2, <2>3, <2>4, <2>5, <2>6 DEF CutAs
  <2> QED BY <1>1, <2>1, <2>7, BarIsChar, Zenon DEF IsCut
<1>5. CASE ~Cuts(a, b, e, c)
  <2>1. PICK a1, b1, e1 \in BOOLEAN :
          a1 = NextSingle(a, b, e, c) /\ b1 = NextDouble(a, b, e, c)
            /\ e1 = NextEscaped(a, b, e, c)
    BY <1>1, NextFlags
  <2>2. PICK more \in Text : more = Append(cur, c)
    BY <1>1, AppendProperties DEF Text
  <2>3. Split(Append(t, c)) = St(a1, b1, e1, more, segs)
    BY <1>1, <1>3, <1>5, <2>1, <2>2, SplitCases
  <2>4. Split(more) = St(a1, b1, e1, more, << >>)
    BY <1>1, <1>3, <1>5, <2>1, <2>2, SplitCases
  <2>5. segs = << >> => Append(t, c) = more
    BY <1>2, <2>2
  <2>6. ASSUME segs # << >>
        PROVE  Append(t, c) = Joined(segs) \o <<"|">> \o more
    <3>1. PICK j \in Text : j = Joined(segs)
      BY <1>1, <2>6, JoinedAppend
    <3>2. t = j \o <<"|">> \o cur
      BY <1>2, <2>6, <3>1
    <3>3. PICK k \in Text : k = j \o <<"|">>
      BY BarIsChar, ConcatProperties DEF Text
    <3>4. Append(k \o cur, c) = k \o Append(cur, c)
      BY <1>1, <3>3, AppendBehind
    <3> QED BY <2>2, <3>1, <3>2, <3>3, <3>4
  <2>7. CutAs(Append(t, c), a1, b1, e1, more, segs)
    BY <1>2, <2>3, <2>4, <2>5, <2>6 DEF CutAs
  <2> QED BY <1>1, <2>1, <2>2, <2>7, Zenon DEF IsCut
<1> QED BY <1>4, <1>5

LEMMA TextIsCut ==
  ASSUME NEW text \in Text
  PROVE  IsCut(text)
<1> DEFINE S == {m \in 0 .. Len(text) : IsCut(SubSeq(text, 1, m))}
<1>1. text \in Seq(Char) /\ Len(text) \in Nat
  BY DEF Text
<1>2. IsCut(<< >>)
  <2>1. Split(<< >>) = St(FALSE, FALSE, FALSE, << >>, << >>) /\ << >> \in Text
    BY SplitAppend, ScanIsSt, BarIsChar
  <2>2. CutAs(<< >>, FALSE, FALSE, FALSE, << >>, << >>)
    <3>1. \A i : i \notin 1 .. Len(<< >>)
      OBVIOUS
    <3> QED BY <2>1, <3>1, Zenon DEF CutAs
  <2>3. << >> \in Seq(Text) /\ FALSE \in BOOLEAN
    OBVIOUS
  <2> QED BY <2>1, <2>2, <2>3, Zenon DEF IsCut
<1>3. 0 \in S
  <2>1. SubSeq(text, 1, 0) = << >> /\ 0 \in 0 .. Len(text)
    BY <1>1
  <2>2. IsCut(SubSeq(text, 1, 0))
    BY <1>2, <2>1, Zenon
  <2> QED BY <2>1, <2>2
<1>4. \A m \in 0 .. Len(text) - 1 : m \in S => m + 1 \in S
  <2> SUFFICES ASSUME NEW m \in 0 .. Len(text) - 1, m \in S
               PROVE  m + 1 \in S
    BY Zenon
  <2>1. /\ SubSeq(text, 1, m) \in Text /\ text[m + 1] \in Char
        /\ SubSeq(text, 1, m + 1) = Append(SubSeq(text, 1, m), text[m + 1])
    BY <1>1, PrefixAppend DEF Text
  <2>2. IsCut(SubSeq(text, 1, m + 1))
    BY <2>1, CutAppend
  <2> QED BY <1>1, <2>2
<1> HIDE DEF S
<1>5. Len(text) \in S
  <2>1. \A m \in 0 .. Len(text) : m \in S
    BY <1>1, <1>3, <1>4, InductionUpTo, Zenon
  <2> QED BY <1>1, <2>1
<1>6. IsCut(SubSeq(text, 1, Len(text)))
  BY <1>5 DEF S
<1> QED BY <1>1, <1>6, WholePrefix

\* The segments of a command make it up, are closed, and cannot be cut further.
LEMMA SegmentsMakeUp ==
  ASSUME NEW command \in Text
  PROVE  SegmentsRejoin(command)
<1>1. PICK a, b, e \in BOOLEAN, cur \in Text, segs \in Seq(Text) :
        CutAs(command, a, b, e, cur, segs)
  BY TextIsCut, Zenon DEF IsCut
<1>2. /\ Split(command) = St(a, b, e, cur, segs)
      /\ Split(cur) = St(a, b, e, cur, << >>)
      /\ \A i \in 1 .. Len(segs) :
           Split(segs[i]) = St(FALSE, FALSE, FALSE, segs[i], << >>)
      /\ segs = << >> => command = cur
      /\ segs # << >> => command = Joined(segs) \o <<"|">> \o cur
  BY <1>1 DEF CutAs
<1>3. PICK all \in Seq(Text) : all = IF cur = << >> THEN segs ELSE Append(segs, cur)
  BY <1>1, AppendProperties
<1>4. SplitPipeSegments(command) = all
  <2>1. Split(command).current = cur /\ Split(command).segments = segs
    BY <1>2, StFields
  <2> QED BY <1>3, <2>1, Zenon DEF SplitPipeSegments, Split
<1>5. ASSUME NEW t \in Text, NEW a1, NEW b1, NEW e1,
             Split(t) = St(a1, b1, e1, t, << >>)
      PROVE  /\ t # << >> => SplitPipeSegments(t) = <<t>>
             /\ a1 = FALSE /\ b1 = FALSE /\ e1 = FALSE => IsClosed(t)
  <2>1. /\ Split(t).current = t /\ Split(t).segments = << >>
        /\ Split(t).single = a1 /\ Split(t).double = b1 /\ Split(t).escaped = e1
    BY <1>5, StFields
  <2>2. Append(<< >>, t) = <<t>>
    OBVIOUS
  <2>3. t # << >> => SplitPipeSegments(t) = <<t>>
    BY <2>1, <2>2, Zenon DEF SplitPipeSegments, Split
  <2>4. a1 = FALSE /\ b1 = FALSE /\ e1 = FALSE => IsClosed(t)
    BY <2>1, Zenon DEF IsClosed, Split
  <2> QED BY <2>3, <2>4
<1>6. IF all = << >> THEN command = << >>
      ELSE command \in {Joined(all), Append(Joined(all), "|")}
  <2>1. CASE cur = << >> /\ segs = << >>
    BY <1>2, <1>3, <2>1
  <2>2. CASE cur = << >> /\ segs # << >>
    <3>1. PICK j \in Text : j = Joined(segs)
      BY <1>1, <2>2, JoinedAppend
    <3>2. Append(j, "|") = j \o <<"|">> \o << >>
      BY BarIsChar DEF Text
    <3> QED BY <1>2, <1>3, <2>2, <3>1, <3>2
  <2>3. CASE cur # << >> /\ segs = << >>
    <3>1. all = <<cur>> /\ all # << >>
      BY <1>3, <2>3
    <3>2. Joined(all) = cur
      BY <1>1, <3>1, JoinedAppend
    <3> QED BY <1>2, <2>3, <3>1, <3>2
  <2>4. CASE cur # << >> /\ segs # << >>
    <3>1. all = Append(segs, cur)
      BY <1>3, <2>4
    <3>2. Joined(all) = Joined(segs) \o <<"|">> \o cur
      BY <1>1, <2>4, <3>1, JoinedAppend
    <3>3. all # << >>
      BY <1>1, <3>1, AppendProperties
    <3> QED BY <1>2, <2>4, <3>2, <3>3
  <2> QED BY <2>1, <2>2, <2>3, <2>4
<1>7. ASSUME NEW i \in DOMAIN all
      PROVE  /\ i < Len(all) => IsClosed(all[i])
             /\ all[i] # << >> => SplitPipeSegments(all[i]) = <<all[i]>>
  <2>1. i \in 1 .. Len(all) /\ Len(segs) \in Nat /\ all[i] \in Text
    BY <1>1, <1>3, <1>7
  <2>2. CASE i \in 1 .. Len(segs)
    <3>1. all[i] = segs[i]
      BY <1>1, <1>3, <2>2, AppendProperties
    <3>2. Split(all[i]) = St(FALSE, FALSE, FALSE, all[i], << >>)
      BY <1>2, <2>2, <3>1
    <3> QED BY <1>5, <2>1, <3>2
  <2>3. CASE i \notin 1 .. Len(segs)
    <3>1. cur # << >> /\ all = Append(segs, cur)
      BY <1>3, <2>1, <2>3
    <3>2. Len(all) = Len(segs) + 1 /\ all[Len(segs) + 1] = cur
      BY <1>1, <3>1, AppendProperties
    <3>3. i = Len(segs) + 1
      BY <2>1, <2>3, <3>2
    <3>4. ~(i < Len(all)) /\ all[i] = cur
      BY <2>1, <3>2, <3>3
    <3>5. SplitPipeSegments(cur) = <<cur>>
      BY <1>1, <1>2, <1>5, <3>1
    <3> QED BY <3>4, <3>5
  <2> QED BY <2>2, <2>3
<1> QED BY <1>4, <1>6, <1>7, Zenon DEF SegmentsRejoin

\* execute (host_skill_executor.cpp): the child gets the text that was
\* validated, and the segments that were validated are all of it.
THEOREM ChecksWhatRuns == Spec => []RunsWhatWasChecked
<1>1. HInv => RunsWhatWasChecked
  <2> SUFFICES ASSUME HInv, NEW j \in Jobs
               PROVE  /\ exec[j].child \in {<< >>, <<scenario.jobs[j].command>>}
                      /\ SegmentsRejoin(scenario.jobs[j].command)
    BY DEF RunsWhatWasChecked
  <2>1. exec[j].child \in {<< >>, <<scenario.jobs[j].command>>}
    BY DEF HInv, ExecInv, StageOk, Command
  <2>2. scenario.jobs[j].command \in Text
    <3>1. scenario.jobs[j].command \in Seq(STRING) /\ STRING \subseteq Char
      BY JobFacts DEF HInv, ExecInv, Command, Char
    <3> QED BY <3>1, SeqOfMore DEF Text
  <2> QED BY <2>1, <2>2, SegmentsMakeUp
<1> QED BY <1>1, HInvAlways, PTL

=============================================================================
