-------------------------- MODULE ProcReaderProofs ----------------------------
(***************************************************************************)
(* Proofs about ProcReader for every command name and any number of lives  *)
(* of a pid: what the getters take out of the files of /proc, and the      *)
(* invariant from which the theorems of GettersProofs follow.              *)
(***************************************************************************)
EXTENDS ProcReader, FiniteSetTheorems, SequenceTheorems, TLAPS

-----------------------------------------------------------------------------
(* Sequences, sets of numbers and their extremes *)

\* A function on 1..n is a sequence of length n.
LEMMA FunctionIsSeq ==
  ASSUME NEW S, NEW n \in Nat, NEW f \in [1..n -> S]
  PROVE  f \in Seq(S) /\ Len(f) = n
  OBVIOUS

\* A number is even or odd.
LEMMA EvenOrOdd == \A d \in Nat : \E h \in Nat : d = 2 * h \/ d = 2 * h + 1
<1> TAKE d \in Nat
<1>1. d \div 2 \in Nat /\ (d = 2 * (d \div 2) \/ d = 2 * (d \div 2) + 1)
  BY SMT
<1> QED
  BY <1>1

\* The number that is in a set and bounds it is its minimum or maximum.
LEMMA Extremes ==
  ASSUME NEW S \in SUBSET Int, NEW m \in S
  PROVE  /\ (\A y \in S : m <= y) => Min(S) = m
         /\ (\A y \in S : m >= y) => Max(S) = m
<1>1. ASSUME \A y \in S : m <= y PROVE Min(S) = m
  <2>1. \A x \in S : (\A y \in S : x <= y) => x = m
    BY <1>1
  <2> QED
    BY <1>1, <2>1, Zenon DEF Min
<1>2. ASSUME \A y \in S : m >= y PROVE Max(S) = m
  <2>1. \A x \in S : (\A y \in S : x >= y) => x = m
    BY <1>2
  <2> QED
    BY <1>2, <2>1, Zenon DEF Max
<1> QED
  BY <1>1, <1>2

-----------------------------------------------------------------------------
(* The stat file *)

\* What a stat file is written with.
StatChars == CommChars \cup {"pid"} \cup {StatWords[k] : k \in 1..37}

\* The words after the name are 37, and none is a blank or a parenthesis.
LEMMA StatWordsFacts ==
  /\ StatWords \in Seq(StatChars)
  /\ Len(StatWords) = 37
  /\ \A k \in 1..37 : StatWords[k] \in StatChars /\ StatWords[k] \notin CommChars
  /\ \A k \in 1..37 : StatWords[k] # Blank
<1>1. Len(StatWords) = 37 /\ StatWords = [k \in 1..37 |-> StatWords[k]]
  BY DEF StatWords
<1>2. \A k \in 1..37 : StatWords[k] # "("
  BY SMTT(60) DEF StatWords
<1>3. \A k \in 1..37 : StatWords[k] # ")"
  BY SMTT(60) DEF StatWords
<1>4. \A k \in 1..37 : StatWords[k] # Blank
  <2>1. \A k \in 1..37 : StatWords[k] \in
          {"state", "ppid", "pgrp", "session", "tty_nr", "tpgid", "flags", "minflt",
           "cminflt", "majflt", "cmajflt", "utime", "stime", "cutime", "cstime",
           "priority", "nice", "num_threads", "itrealvalue", "starttime", "vsize",
           "rss", "rsslim", "startcode", "endcode", "startstack", "kstkesp",
           "kstkeip", "signal", "blocked", "sigignore", "sigcatch", "wchan", "nswap",
           "cnswap", "exit_signal", "processor"}
    BY SMTT(60) DEF StatWords
  <2> QED
    BY <2>1, Zenon DEF Blank
<1>5. \A k \in 1..37 : StatWords[k] # "a"
  BY SMTT(60) DEF StatWords
<1>6. StatWords \in [1..37 -> StatChars] /\ 37 \in Nat
  BY <1>1 DEF StatChars
<1>7. StatWords \in Seq(StatChars)
  BY <1>6, FunctionIsSeq, Zenon
<1> QED
  BY <1>1, <1>2, <1>3, <1>4, <1>5, <1>6, <1>7 DEF CommChars

\* The words, with the blank before each.
StatRest == [i \in 1..2 * Len(StatWords) |-> IF i % 2 = 1 THEN Blank ELSE StatWords[i \div 2]]

\* The character at each place of a stat file.
LEMMA StatLineFacts ==
  ASSUME NEW c \in Seq(CommChars)
  PROVE  /\ StatLine(c) \in Seq(StatChars)
         /\ Len(StatLine(c)) = Len(c) + 78
         /\ StatLine(c)[1] = "pid" /\ StatLine(c)[2] = Blank /\ StatLine(c)[3] = "("
         /\ \A i \in 1..Len(c) : StatLine(c)[i + 3] = c[i]
         /\ StatLine(c)[Len(c) + 4] = ")"
         /\ \A k \in 1..37 : /\ StatLine(c)[Len(c) + 3 + 2 * k] = Blank
                             /\ StatLine(c)[Len(c) + 4 + 2 * k] = StatWords[k]
<1> DEFINE start == <<"pid", Blank, "(">>
           close == <<")">>
<1>1. CommChars \subseteq StatChars /\ "pid" \in StatChars
  BY DEF StatChars
<1>2. start \in Seq(StatChars) /\ Len(start) = 3 /\ start[1] = "pid" /\ start[2] = Blank /\ start[3] = "("
  BY <1>1 DEF CommChars
<1>3. close \in Seq(StatChars) /\ Len(close) = 1 /\ close[1] = ")"
  BY <1>1 DEF CommChars
<1>4. c \in Seq(StatChars) /\ Len(c) \in Nat
  BY <1>1, SeqMonotonic
<1>5. StatRest \in [1..74 -> StatChars]
  <2>1. ASSUME NEW i \in 1..74 PROVE (IF i % 2 = 1 THEN Blank ELSE StatWords[i \div 2]) \in StatChars
    <3>1. CASE i % 2 = 1
      BY <3>1, <1>1 DEF CommChars
    <3>2. CASE i % 2 # 1
      <4>1. i \div 2 \in 1..37
        BY <3>2
      <4> QED
        BY <3>2, <4>1, StatWordsFacts, Zenon
    <3> QED
      BY <3>1, <3>2
  <2> QED
    BY <2>1, StatWordsFacts DEF StatRest
<1>6. StatRest \in Seq(StatChars) /\ Len(StatRest) = 74
  <2>1. PICK n \in Nat : n = 74
    BY SMT
  <2>2. StatRest \in [1..n -> StatChars]
    BY <1>5, <2>1, SMT
  <2>3. StatRest \in Seq(StatChars) /\ Len(StatRest) = n
    BY ONLY n \in Nat, <2>2, FunctionIsSeq, Zenon
  <2> QED
    BY ONLY <2>1, <2>3, SMT
<1>7. \A k \in 1..37 : StatRest[2 * k - 1] = Blank /\ StatRest[2 * k] = StatWords[k]
  BY StatWordsFacts DEF StatRest
<1>8. StatLine(c) = ((start \o c) \o close) \o StatRest
  BY DEF StatLine, StatRest
<1> DEFINE line == StatLine(c)
<1> HIDE DEF start, close, line
<1>9. /\ line \in Seq(StatChars) /\ Len(line) = Len(c) + 78
      /\ \A i \in 1..3 : line[i] = start[i]
      /\ \A i \in 1..Len(c) : line[3 + i] = c[i]
      /\ \A i \in 1..1 : line[3 + Len(c) + i] = close[i]
      /\ \A i \in 1..74 : line[3 + Len(c) + 1 + i] = StatRest[i]
  <2>1. line = ((start \o c) \o close) \o StatRest
    BY <1>8 DEF line
  <2>2. start \in Seq(StatChars) /\ c \in Seq(StatChars) /\ close \in Seq(StatChars) /\ StatRest \in Seq(StatChars)
    BY <1>2, <1>3, <1>4, <1>6
  <2>3. /\ line \in Seq(StatChars) /\ Len(line) = Len(start) + Len(c) + Len(close) + Len(StatRest)
        /\ \A i \in 1..Len(start) : line[i] = start[i]
        /\ \A i \in 1..Len(c) : line[Len(start) + i] = c[i]
        /\ \A i \in 1..Len(close) : line[Len(start) + Len(c) + i] = close[i]
        /\ \A i \in 1..Len(StatRest) : line[Len(start) + Len(c) + Len(close) + i] = StatRest[i]
    BY <2>1, <2>2
  <2> QED
    BY <1>2, <1>3, <1>4, <1>6, <2>3
<1>10. line[1] = "pid" /\ line[2] = Blank /\ line[3] = "("
  BY <1>2, <1>9
<1>11. ASSUME NEW i \in 1..Len(c) PROVE line[i + 3] = c[i]
  <2>1. line[3 + i] = c[i]
    BY <1>9, Zenon
  <2>2. 3 + i = i + 3
    BY <1>4
  <2> QED
    BY <2>1, <2>2, Zenon
<1>12. line[Len(c) + 4] = ")"
  BY <1>3, <1>4, <1>9
<1>13. ASSUME NEW k \in 1..37
       PROVE  line[Len(c) + 3 + 2 * k] = Blank /\ line[Len(c) + 4 + 2 * k] = StatWords[k]
  <2>1. /\ 2 * k - 1 \in 1..74 /\ 2 * k \in 1..74
        /\ Len(c) + 3 + 2 * k = 3 + Len(c) + 1 + (2 * k - 1)
        /\ Len(c) + 4 + 2 * k = 3 + Len(c) + 1 + 2 * k
    BY <1>4
  <2>2. StatRest[2 * k - 1] = Blank /\ StatRest[2 * k] = StatWords[k]
    BY <1>7, Zenon
  <2> QED
    BY <1>9, <2>1, <2>2, Zenon
<1> QED
  BY <1>9, <1>10, <1>11, <1>12, <1>13 DEF line

\* Behind the name there are only blanks and words.
LEMMA BehindName ==
  ASSUME NEW c \in Seq(CommChars), NEW i \in (Len(c) + 5)..(Len(c) + 78)
  PROVE  StatLine(c)[i] \notin CommChars \ {Blank}
<1>1. Len(c) \in Nat
  OBVIOUS
<1>2. \A n \in 5..78 : \E k \in 1..37 : n = 3 + 2 * k \/ n = 4 + 2 * k
  <2> SUFFICES ASSUME NEW n \in 5..78 PROVE \E k \in 1..37 : n = 3 + 2 * k \/ n = 4 + 2 * k
    OBVIOUS
  <2>1. (n - 3) \div 2 \in 1..37 /\ (n = 3 + 2 * ((n - 3) \div 2) \/ n = 4 + 2 * ((n - 3) \div 2))
    OBVIOUS
  <2> QED
    BY <2>1
<1>3. i - Len(c) \in 5..78
  <2>1. \A n \in Nat : \A j \in (n + 5)..(n + 78) : j - n \in 5..78
    OBVIOUS
  <2> QED
    BY <1>1, <2>1, Zenon
<1>4. PICK k \in 1..37 : i - Len(c) = 3 + 2 * k \/ i - Len(c) = 4 + 2 * k
  BY <1>2, <1>3
<1>5. i = Len(c) + 3 + 2 * k \/ i = Len(c) + 4 + 2 * k
  BY <1>1, <1>4
<1>6. StatLine(c)[i] = Blank \/ StatLine(c)[i] = StatWords[k]
  BY <1>5, StatLineFacts, Zenon
<1> QED
  BY <1>6, StatWordsFacts, Zenon

\* Looking for the first "(" and the last ")" finds the name, whatever it is.
LEMMA NameFound ==
  ASSUME NEW c \in Seq(CommChars)
  PROVE  /\ rIdx(StatLine(c)) = Len(c) + 4
         /\ commFound(StatLine(c))
         /\ commOf(StatLine(c)) = c
<1> DEFINE line == StatLine(c)
<1>1. /\ line \in Seq(StatChars) /\ Len(line) = Len(c) + 78
      /\ line[1] = "pid" /\ line[2] = Blank /\ line[3] = "("
      /\ \A i \in 1..Len(c) : line[i + 3] = c[i]
      /\ line[Len(c) + 4] = ")"
  BY StatLineFacts
<1>a. Len(c) \in Nat
  OBVIOUS
<1>2. \A i \in (Len(c) + 5)..(Len(c) + 78) : line[i] \notin CommChars \ {Blank}
  BY BehindName
<1> HIDE DEF line
<1>3. Blank # "(" /\ Blank # ")" /\ "pid" # "("
  BY Zenon DEF Blank
<1>4. DOMAIN line = 1..Len(c) + 78
  BY <1>a, <1>1
<1>5. Min(Indices(line, "(")) = 3
  <2>1. Indices(line, "(") \in SUBSET Int /\ 3 \in Indices(line, "(")
    BY <1>a, <1>1, <1>4 DEF Indices
  <2>2. \A y \in Indices(line, "(") : 3 <= y
    BY <1>a, <1>1, <1>3, <1>4 DEF Indices
  <2> QED
    BY <2>1, <2>2, Extremes
<1>6. Max(Indices(line, ")")) = Len(c) + 4
  <2>1. Indices(line, ")") \in SUBSET Int /\ Len(c) + 4 \in Indices(line, ")")
    BY <1>a, <1>1, <1>4 DEF Indices
  <2>2. ASSUME NEW y \in Indices(line, ")") PROVE Len(c) + 4 >= y
    <3>1. y \in 1..Len(c) + 78 /\ line[y] = ")" /\ ")" \in CommChars \ {Blank}
      BY <1>3, <1>4 DEF Indices, CommChars
    <3>2. y \notin (Len(c) + 5)..(Len(c) + 78)
      BY <1>2, <3>1
    <3> QED
      BY <1>a, <1>1, <3>1, <3>2
  <2> QED
    BY <2>1, <2>2, Extremes
<1>7. rIdx(line) = Len(c) + 4
  BY <1>6 DEF rIdx
<1>8. commFound(line)
  BY <1>a, <1>1, <1>5, <1>7 DEF commFound
<1>9. SubSeq(line, 4, Len(c) + 3) = c
  <2>1. \A i \in 4..Len(c) + 3 : line[i] \in StatChars
    BY <1>a, <1>1
  <2>2. /\ SubSeq(line, 4, Len(c) + 3) \in Seq(StatChars)
        /\ Len(SubSeq(line, 4, Len(c) + 3)) = Len(c)
        /\ \A i \in 1..Len(c) : SubSeq(line, 4, Len(c) + 3)[i] = line[3 + i]
    BY <1>a, <1>1, <2>1
  <2>3. \A i \in 1..Len(c) : SubSeq(line, 4, Len(c) + 3)[i] = c[i]
    BY <1>a, <1>1, <2>2
  <2>4. c \in Seq(StatChars)
    BY SeqMonotonic DEF StatChars
  <2> QED
    BY <2>2, <2>3, <2>4, SeqEqual
<1>10. commOf(line) = c
  BY <1>a, <1>1, <1>5, <1>7, <1>9 DEF commOf
<1> QED
  BY <1>7, <1>8, <1>10 DEF line

\* Counting the words before a place finds the n-th word.
LEMMA NthWord ==
  ASSUME NEW s, NEW m \in Nat, NEW b \in [1..m -> Int],
         \A i, j \in 1..m : i < j => b[i] < b[j],
         WordStarts(s) = {b[i] : i \in 1..m}
  PROVE  /\ Cardinality(WordStarts(s)) = m
         /\ \A n \in 0..m - 1 : Field(s, n) = WordAt(s, b[n + 1])
<1>1. ASSUME NEW n \in 0..m
      PROVE  Cardinality({b[i] : i \in 1..n}) = n
  <2> DEFINE f == [i \in 1..n |-> b[i]]
  <2>1. f \in Bijection(1..n, {b[i] : i \in 1..n})
    <3>1. f \in [1..n -> {b[i] : i \in 1..n}]
      OBVIOUS
    <3>2. \A i, j \in 1..n : f[i] = f[j] => i = j
      <4> SUFFICES ASSUME NEW i \in 1..n, NEW j \in 1..n, f[i] = f[j] PROVE i = j
        OBVIOUS
      <4>1. i \in 1..m /\ j \in 1..m /\ b[i] = b[j] /\ b[i] \in Int
        OBVIOUS
      <4> QED
        BY <4>1
    <3>3. \A y \in {b[i] : i \in 1..n} : \E i \in 1..n : f[i] = y
      OBVIOUS
    <3> QED
      BY <3>1, <3>2, <3>3 DEF Bijection, Injection, Surjection, IsInjective
  <2>2. IsFiniteSet(1..n) /\ Cardinality(1..n) = n
    BY FS_Interval
  <2> QED
    BY <2>1, <2>2, FS_Bijection DEF ExistsBijection
<1>2. ASSUME NEW k \in 1..m
      PROVE  Cardinality({j \in WordStarts(s) : j < b[k]}) = k - 1
  <2>1. {j \in WordStarts(s) : j < b[k]} = {b[i] : i \in 1..k - 1}
    <3>1. ASSUME NEW i \in 1..m PROVE b[i] < b[k] <=> i \in 1..k - 1
      <4>1. b[i] \in Int /\ b[k] \in Int
        OBVIOUS
      <4> QED
        BY <4>1
    <3>2. 1..k - 1 \subseteq 1..m
      OBVIOUS
    <3> QED
      BY <3>1, <3>2
  <2>2. k - 1 \in 0..m
    OBVIOUS
  <2> QED
    BY <1>1, <2>1, <2>2, Zenon
<1>3. ASSUME NEW n \in 0..m - 1
      PROVE  Field(s, n) = WordAt(s, b[n + 1])
  <2>1. n + 1 \in 1..m /\ b[n + 1] \in WordStarts(s)
    OBVIOUS
  <2>2. Cardinality({j \in WordStarts(s) : j < b[n + 1]}) = n
    BY <1>2, <2>1
  <2>3. ASSUME NEW i \in WordStarts(s), Cardinality({j \in WordStarts(s) : j < i}) = n
        PROVE  i = b[n + 1]
    <3>1. PICK k \in 1..m : i = b[k]
      OBVIOUS
    <3>2. k - 1 = n
      BY <1>2, <2>3, <3>1
    <3> QED
      BY <3>1, <3>2
  <2>4. (CHOOSE i \in WordStarts(s) : Cardinality({j \in WordStarts(s) : j < i}) = n) = b[n + 1]
    BY <2>1, <2>2, <2>3
  <2> QED
    BY <2>4, Zenon DEF Field
<1> QED
  BY <1>1, <1>3

\* A word of one character ends before the next blank.
LEMMA OneCharacter ==
  ASSUME NEW S, NEW s \in Seq(S), NEW i \in 1..Len(s), s[i] # Blank,
         i < Len(s) => s[i + 1] = Blank
  PROVE  WordAt(s, i) = <<s[i]>>
<1>0. SubSeq(s, i, i) = <<s[i]>>
  <2>1. i \in i..Len(s) /\ i + 1 \in Int /\ i \in Int /\ i < i + 1
    OBVIOUS
  <2>2. SubSeq(s, i, i) = <<s[i]>> \o SubSeq(s, i + 1, i)
    BY <2>1, SubSeqRecursiveFirst
  <2>3. SubSeq(s, i + 1, i) = <<>>
    BY <2>1, SubSeqEmpty
  <2>4. <<s[i]>> \in Seq(S)
    OBVIOUS
  <2> QED
    BY <2>2, <2>3, <2>4, ConcatEmptySeq, Zenon
<1> DEFINE after == {j \in i..Len(s) : s[j] = Blank}
<1>1. CASE i = Len(s)
  <2>1. after = {}
    BY <1>1
  <2>2. SubSeq(s, i, Len(s)) = <<s[i]>>
    BY <1>0, <1>1
  <2> QED
    BY <2>1, <2>2 DEF WordAt
<1>2. CASE i # Len(s)
  <2>1. after \in SUBSET Int /\ i + 1 \in after
    BY <1>2
  <2>2. \A y \in after : i + 1 <= y
    OBVIOUS
  <2>3. Min(after) = i + 1
    BY <2>1, <2>2, Extremes, Zenon
  <2>4. Min(after) - 1 = i
    BY <2>3
  <2> QED
    BY <1>0, <2>1, <2>4, Zenon DEF WordAt
<1> QED
  BY <1>1, <1>2

\* The words of a line in which words of one character and blanks take turns.
LEMMA AlternatingWords ==
  ASSUME NEW S, NEW s \in Seq(S), NEW m \in Nat, Len(s) = 2 * m - 1,
         \A k \in 1..m : s[2 * k - 1] # Blank,
         \A k \in 1..m - 1 : s[2 * k] = Blank
  PROVE  /\ Cardinality(WordStarts(s)) = m
         /\ \A n \in 0..m - 1 : Field(s, n) = <<s[2 * n + 1]>>
<1>1. PICK b \in [1..m -> Int] : \A k \in 1..m : b[k] = 2 * k - 1
  <2>1. [k \in 1..m |-> 2 * k - 1] \in [1..m -> Int]
    OBVIOUS
  <2> QED
    BY <2>1, Zenon
<1>2. \A i, j \in 1..m : i < j => b[i] < b[j]
  BY <1>1
<1>3. WordStarts(s) = {b[k] : k \in 1..m}
  <2>1. DOMAIN s = 1..2 * m - 1
    OBVIOUS
  <2>2. ASSUME NEW k \in 1..m PROVE b[k] \in WordStarts(s)
    <3>1. b[k] = 2 * k - 1 /\ b[k] \in 1..2 * m - 1 /\ s[b[k]] # Blank
      BY <1>1
    <3>2. b[k] = 1 \/ s[b[k] - 1] = Blank
      <4>1. k # 1 => k - 1 \in 1..m - 1 /\ b[k] - 1 = 2 * (k - 1)
        BY <3>1
      <4>2. k # 1 => s[2 * (k - 1)] = Blank
        BY <4>1, Zenon
      <4> QED
        BY <3>1, <4>1, <4>2
    <3> QED
      BY <2>1, <3>1, <3>2 DEF WordStarts
  <2>3. ASSUME NEW i \in WordStarts(s) PROVE \E k \in 1..m : i = b[k]
    <3>1. i \in 1..2 * m - 1 /\ s[i] # Blank
      BY <2>1 DEF WordStarts
    <3>2. i % 2 = 0 => i \div 2 \in 1..m - 1 /\ i = 2 * (i \div 2)
      BY <3>1
    <3>3. i % 2 # 0
      BY <3>1, <3>2, Zenon
    <3>4. (i + 1) \div 2 \in 1..m /\ i = 2 * ((i + 1) \div 2) - 1
      BY <3>1, <3>3
    <3> QED
      BY <1>1, <3>4
  <2> QED
    BY <2>2, <2>3
<1>4. /\ Cardinality(WordStarts(s)) = m
      /\ \A n \in 0..m - 1 : Field(s, n) = WordAt(s, b[n + 1])
  BY <1>2, <1>3, NthWord, Zenon
<1>5. ASSUME NEW n \in 0..m - 1 PROVE Field(s, n) = <<s[2 * n + 1]>>
  <2>1. n + 1 \in 1..m /\ 2 * n + 1 \in 1..Len(s) /\ 2 * n + 1 = 2 * (n + 1) - 1
    OBVIOUS
  <2>2. b[n + 1] = 2 * n + 1
    BY <1>1, <2>1
  <2>3. s[2 * n + 1] # Blank
    BY <2>1, Zenon
  <2>4. 2 * n + 1 < Len(s) => s[2 * n + 1 + 1] = Blank
    <3>1. 2 * n + 1 < Len(s) => n + 1 \in 1..m - 1 /\ 2 * n + 1 + 1 = 2 * (n + 1)
      BY <2>1
    <3> QED
      BY <3>1, Zenon
  <2>5. WordAt(s, 2 * n + 1) = <<s[2 * n + 1]>>
    BY <2>1, <2>3, <2>4, OneCharacter, Zenon
  <2> QED
    BY <1>4, <2>2, <2>5
<1> QED
  BY <1>4, <1>5

\* What follows the name, from the second character on, are the 37 words with
\* a blank between each two, so that their numbers do not depend on the name.
LEMMA WordsBehindName ==
  ASSUME NEW c \in Seq(CommChars)
  PROVE  LET rest == SubSeq(StatLine(c), Len(c) + 6, Len(c) + 78)
         IN  /\ Cardinality(WordStarts(rest)) = 37
             /\ \A n \in 0..36 : Field(rest, n) = <<StatWords[n + 1]>>
<1> DEFINE line == StatLine(c)
           rest == SubSeq(line, Len(c) + 6, Len(c) + 78)
<1>1. /\ line \in Seq(StatChars) /\ Len(line) = Len(c) + 78
      /\ \A k \in 1..37 : line[Len(c) + 3 + 2 * k] = Blank /\ line[Len(c) + 4 + 2 * k] = StatWords[k]
  BY StatLineFacts
<1>2. Len(c) \in Nat
  OBVIOUS
<1> HIDE DEF line
<1>3. /\ rest \in Seq(StatChars) /\ Len(rest) = 73
      /\ \A i \in 1..73 : rest[i] = line[Len(c) + 5 + i]
  <2>1. \A i \in (Len(c) + 6)..(Len(c) + 78) : line[i] \in StatChars
    <3> SUFFICES ASSUME NEW i \in (Len(c) + 6)..(Len(c) + 78) PROVE line[i] \in StatChars
      OBVIOUS
    <3>1. i \in 1..Len(line)
      BY <1>1, <1>2
    <3> QED
      BY <1>1, <3>1, ElementOfSeq, Zenon
  <2>2. Len(c) + 6 \in Int /\ Len(c) + 78 \in Int /\ Len(c) + 6 <= Len(c) + 78
        /\ (Len(c) + 78) - (Len(c) + 6) + 1 = 73
    BY <1>2
  <2>3. /\ rest \in Seq(StatChars)
        /\ Len(rest) = 73
        /\ \A i \in 1..73 : rest[i] = line[(Len(c) + 6) + i - 1]
    BY <2>1, <2>2, SubSeqProperties
  <2> QED
    BY <1>2, <2>3
<1> HIDE DEF rest
<1>4. \A k \in 1..37 : rest[2 * k - 1] = StatWords[k]
  <2> SUFFICES ASSUME NEW k \in 1..37 PROVE rest[2 * k - 1] = StatWords[k]
    BY Zenon
  <2>1. 2 * k - 1 \in 1..73 /\ Len(c) + 5 + (2 * k - 1) = Len(c) + 4 + 2 * k
    BY <1>2
  <2>2. rest[2 * k - 1] = line[Len(c) + 5 + (2 * k - 1)]
    BY <1>3, <2>1, Zenon
  <2>3. line[Len(c) + 4 + 2 * k] = StatWords[k]
    BY <1>1, Zenon
  <2> QED
    BY <2>1, <2>2, <2>3
<1>5. \A k \in 1..36 : rest[2 * k] = Blank
  <2> SUFFICES ASSUME NEW k \in 1..36 PROVE rest[2 * k] = Blank
    BY Zenon
  <2>1. 2 * k \in 1..73 /\ k + 1 \in 1..37 /\ Len(c) + 5 + 2 * k = Len(c) + 3 + 2 * (k + 1)
    BY <1>2
  <2>2. rest[2 * k] = line[Len(c) + 5 + 2 * k]
    BY <1>3, <2>1, Zenon
  <2>3. line[Len(c) + 3 + 2 * (k + 1)] = Blank
    BY <1>1, <2>1, Zenon
  <2> QED
    BY <2>1, <2>2, <2>3
<1>6. \A k \in 1..37 : rest[2 * k - 1] # Blank
  BY ONLY <1>4, StatWordsFacts, ZenonT(30)
<1>7. PICK m \in Nat : m = 37
  OBVIOUS
<1>8. Len(rest) = 2 * m - 1 /\ 1..m = 1..37 /\ 1..m - 1 = 1..36 /\ 0..m - 1 = 0..36
  BY <1>3, <1>7
<1>9. /\ Cardinality(WordStarts(rest)) = m
      /\ \A n \in 0..m - 1 : Field(rest, n) = <<rest[2 * n + 1]>>
  <2>1. (\A k \in 1..m : rest[2 * k - 1] # Blank) /\ (\A k \in 1..m - 1 : rest[2 * k] = Blank)
    BY <1>5, <1>6, <1>8, Zenon
  <2>2. rest \in Seq(StatChars) /\ m \in Nat /\ Len(rest) = 2 * m - 1
    BY <1>3, <1>7, <1>8
  <2> QED
    BY ONLY <2>1, <2>2, AlternatingWords, ZenonT(30)
<1>10. ASSUME NEW n \in 0..36 PROVE rest[2 * n + 1] = StatWords[n + 1]
  <2>1. n + 1 \in 1..37 /\ 2 * (n + 1) - 1 = 2 * n + 1
    OBVIOUS
  <2>2. rest[2 * (n + 1) - 1] = StatWords[n + 1]
    BY <1>4, <2>1, Zenon
  <2> QED
    BY <2>1, <2>2
<1> QED
  BY <1>7, <1>8, <1>9, <1>10 DEF rest, line

\* None of the words that ProcState scans for numbers is a character of a name.
LEMMA AllWordsScan ==
  LET words == <<"state", "ppid", "pgrp", "tty_nr", "priority", "nice", "processor">>
  IN  scanned(words) = Tail(words)
<1> DEFINE words == <<"state", "ppid", "pgrp", "tty_nr", "priority", "nice", "processor">>
<1>1. Len(words) = 7
  OBVIOUS
<1>2. \A n \in 2..7 : words[n] \in {"ppid", "pgrp", "tty_nr", "priority", "nice", "processor"}
  BY SMT
<1>3. \A w \in {"ppid", "pgrp", "tty_nr", "priority", "nice", "processor"} : w \notin CommChars
  BY DEF CommChars, Blank
<1> HIDE DEF words
<1>4. {n \in 2..Len(words) : words[n] \in CommChars} = {}
  BY <1>1, <1>2, <1>3
<1> QED
  BY <1>4, Zenon DEF scanned, words

\* ProcState finds the name and its seven words in the stat file of a process
\* of any name.
LEMMA StatOfAnyName ==
  ASSUME NEW c \in Comms
  PROVE  /\ Stat[c].found
         /\ Stat[c].comm = c
         /\ Stat[c].interests =
              <<"state", "ppid", "pgrp", "tty_nr", "priority", "nice", "processor">>
         /\ Stat[c].scanned = Tail(Stat[c].interests)
<1> DEFINE line == StatLine(c)
           rest == SubSeq(line, rIdx(line) + 2, Len(line))
<1>1. c \in Seq(CommChars) /\ Len(c) \in Nat
  BY ProcAssumption
<1>2. rIdx(line) = Len(c) + 4 /\ commFound(line) /\ commOf(line) = c
  BY <1>1, NameFound
<1>3. Len(line) = Len(c) + 78 /\ rIdx(line) + 2 = Len(c) + 6
  BY <1>1, <1>2, StatLineFacts
<1>4. /\ Cardinality(WordStarts(rest)) = 37
      /\ \A n \in 0..36 : Field(rest, n) = <<StatWords[n + 1]>>
  BY <1>1, <1>3, WordsBehindName
<1> HIDE DEF rest
<1>5. \A n \in 0..36 : Head(Field(rest, n)) = StatWords[n + 1]
  BY <1>4
<1> DEFINE wanted == <<0, 1, 2, 4, 15, 16, 36>>
<1>6. interests(line) = [n \in DOMAIN wanted |-> Head(Field(rest, wanted[n]))]
  BY <1>4 DEF interests, rest
<1>7. DOMAIN wanted = 1..7 /\ \A n \in 1..7 : wanted[n] \in 0..36
  OBVIOUS
<1>8. interests(line) = [n \in 1..7 |-> StatWords[wanted[n] + 1]]
  BY <1>5, <1>6, <1>7
<1>9. [n \in 1..7 |-> StatWords[wanted[n] + 1]] =
         <<"state", "ppid", "pgrp", "tty_nr", "priority", "nice", "processor">>
  BY SMTT(60) DEF StatWords
<1>10. scanned(interests(line)) = Tail(interests(line))
  BY <1>8, <1>9, AllWordsScan, Zenon
<1>11. Stat[c] = [found |-> commFound(line), comm |-> commOf(line), interests |-> interests(line),
                  scanned |-> scanned(interests(line)), faults |-> faults(line), times |-> times(line)]
  BY Zenon DEF Stat
<1> HIDE DEF line
<1>12. /\ Stat[c].found = commFound(line) /\ Stat[c].comm = commOf(line)
       /\ Stat[c].interests = interests(line) /\ Stat[c].scanned = scanned(interests(line))
  BY <1>11
<1> QED
  BY <1>2, <1>8, <1>9, <1>10, <1>12, Zenon

\* The words of a line that begins with a word of one character and a longer
\* one, of length p - 2, before the words and blanks take turns.
LEMMA WordsOfLine ==
  ASSUME NEW S, NEW s \in Seq(S), NEW p \in Nat, p >= 3, NEW m \in Nat, Len(s) = p + 2 * m,
         s[1] # Blank, s[2] = Blank, \A i \in 3..p : s[i] # Blank,
         \A k \in 1..m : s[p + 2 * k - 1] = Blank,
         \A k \in 1..m : s[p + 2 * k] # Blank
  PROVE  \A n \in 1..m : Field(s, n + 1) = <<s[p + 2 * n]>>
<1> DEFINE f == [k \in 1..m + 2 |-> IF k = 1 THEN 1 ELSE IF k = 2 THEN 3 ELSE p + 2 * (k - 2)]
<1>1. PICK b \in [1..m + 2 -> Int] :
        b[1] = 1 /\ b[2] = 3 /\ \A k \in 1..m : b[k + 2] = p + 2 * k
  <2>1. f \in [1..m + 2 -> Int] /\ f[1] = 1 /\ f[2] = 3
    OBVIOUS
  <2>2. ASSUME NEW k \in 1..m PROVE f[k + 2] = p + 2 * k
    OBVIOUS
  <2> HIDE DEF f
  <2> QED
    BY <2>1, <2>2
<1>2. ASSUME NEW i \in 1..m + 2, NEW j \in 1..m + 2, i < j PROVE b[i] < b[j]
  <2>1. ASSUME NEW k \in 1..m + 2 PROVE k = 1 \/ k = 2 \/ (k > 2 /\ b[k] = p + 2 * (k - 2))
    <3>1. k > 2 => k - 2 \in 1..m /\ (k - 2) + 2 = k
      OBVIOUS
    <3>2. k > 2 => b[(k - 2) + 2] = p + 2 * (k - 2)
      BY <1>1, <3>1, Zenon
    <3> QED
      BY <3>1, <3>2
  <2>2. i = 1 \/ i = 2 \/ (i > 2 /\ b[i] = p + 2 * (i - 2))
    BY <2>1
  <2>3. j = 1 \/ j = 2 \/ (j > 2 /\ b[j] = p + 2 * (j - 2))
    BY <2>1
  <2> QED
    BY <1>1, <1>2, <2>2, <2>3
<1>3. WordStarts(s) = {b[k] : k \in 1..m + 2}
  <2>1. DOMAIN s = 1..p + 2 * m
    OBVIOUS
  <2>2. ASSUME NEW k \in 1..m + 2 PROVE b[k] \in WordStarts(s)
    <3>1. CASE k = 1
      BY <1>1, <2>1, <3>1 DEF WordStarts
    <3>2. CASE k = 2
      BY <1>1, <2>1, <3>2 DEF WordStarts
    <3>3. CASE k > 2
      <4>1. k - 2 \in 1..m /\ (k - 2) + 2 = k
        BY <3>3
      <4>2. b[k] = p + 2 * (k - 2)
        BY <1>1, <4>1, Zenon
      <4>3. s[p + 2 * (k - 2) - 1] = Blank /\ s[p + 2 * (k - 2)] # Blank
        BY <4>1, Zenon
      <4>4. p + 2 * (k - 2) \in 1..p + 2 * m
        BY <4>1
      <4> QED
        BY <2>1, <4>2, <4>3, <4>4 DEF WordStarts
    <3> QED
      BY <3>1, <3>2, <3>3
  <2>3. ASSUME NEW i \in WordStarts(s) PROVE \E k \in 1..m + 2 : i = b[k]
    <3>1. i \in 1..p + 2 * m /\ s[i] # Blank /\ (i = 1 \/ s[i - 1] = Blank)
      BY <2>1 DEF WordStarts
    <3>2. CASE i <= p
      <4>1. i # 2
        BY <3>1
      <4>2. i <= 3
        <5>1. i > 3 => i - 1 \in 3..p
          BY <3>1, <3>2
        <5> QED
          BY <3>1, <5>1
      <4>3. i = 1 \/ i = 3
        BY <3>1, <4>1, <4>2
      <4>4. 1 \in 1..m + 2 /\ 2 \in 1..m + 2
        OBVIOUS
      <4> QED
        BY <1>1, <4>3, <4>4
    <3>3. CASE i > p
      <4> DEFINE d == i - p
      <4>1. d \in 1..2 * m /\ i = p + d
        BY <3>1, <3>3
      <4> HIDE DEF d
      <4>2. PICK h \in Nat : d = 2 * h \/ d = 2 * h + 1
        <5>1. d \in Nat
          BY <4>1
        <5> QED
          BY ONLY <5>1, EvenOrOdd, Zenon
      <4>3. d # 2 * h + 1
        <5> SUFFICES ASSUME d = 2 * h + 1 PROVE FALSE
          OBVIOUS
        <5>1. h + 1 \in 1..m /\ i = p + 2 * (h + 1) - 1
          BY <4>1
        <5> QED
          BY <3>1, <5>1
      <4>4. d = 2 * h /\ h \in 1..m
        BY <4>1, <4>2, <4>3
      <4>5. h + 2 \in 1..m + 2
        BY <4>4
      <4>6. b[h + 2] = i
        BY <1>1, <4>1, <4>4
      <4> QED
        BY <4>5, <4>6
    <3> QED
      BY <3>1, <3>2, <3>3
  <2> QED
    BY <2>2, <2>3
<1>4. m + 2 \in Nat
  OBVIOUS
<1>5. \A n \in 0..(m + 2) - 1 : Field(s, n) = WordAt(s, b[n + 1])
  BY <1>2, <1>3, <1>4, NthWord, Zenon
<1>6. ASSUME NEW n \in 1..m PROVE Field(s, n + 1) = <<s[p + 2 * n]>>
  <2>1. n + 1 \in 0..(m + 2) - 1 /\ (n + 1) + 1 = n + 2 /\ p + 2 * n \in 1..Len(s)
    OBVIOUS
  <2>2. Field(s, n + 1) = WordAt(s, b[n + 2])
    BY <1>5, <2>1
  <2>3. b[n + 2] = p + 2 * n
    BY <1>1
  <2>4. s[p + 2 * n] # Blank
    OBVIOUS
  <2>5. p + 2 * n < Len(s) => s[p + 2 * n + 1] = Blank
    <3>1. p + 2 * n < Len(s) => n + 1 \in 1..m /\ p + 2 * (n + 1) - 1 = p + 2 * n + 1
      OBVIOUS
    <3>2. n + 1 \in 1..m => s[p + 2 * (n + 1) - 1] = Blank
      BY Zenon
    <3> QED
      BY <3>1, <3>2
  <2>6. WordAt(s, p + 2 * n) = <<s[p + 2 * n]>>
    BY <2>1, <2>4, <2>5, OneCharacter, Zenon
  <2> QED
    BY <2>2, <2>3, <2>6
<1> QED
  BY <1>6

\* ProcTime finds its three words in the stat file of a process whose name
\* holds no blank.
LEMMA TimesOfNameWithoutBlank ==
  ASSUME NEW c \in Comms, ~HasBlank(c)
  PROVE  Stat[c].times = <<"utime", "stime", "starttime">>
<1> DEFINE line == StatLine(c)
<1>1. c \in Seq(CommChars) /\ Len(c) \in Nat
  BY ProcAssumption
<1>2. /\ line \in Seq(StatChars) /\ Len(line) = Len(c) + 78
      /\ line[1] = "pid" /\ line[2] = Blank /\ line[3] = "("
      /\ \A i \in 1..Len(c) : line[i + 3] = c[i]
      /\ line[Len(c) + 4] = ")"
      /\ \A k \in 1..37 : line[Len(c) + 3 + 2 * k] = Blank /\ line[Len(c) + 4 + 2 * k] = StatWords[k]
  BY <1>1, StatLineFacts
<1>3. Blank # "pid" /\ Blank # "(" /\ Blank # ")"
  BY Zenon DEF Blank
<1> HIDE DEF line
<1>4. \A i \in 1..Len(c) : c[i] # Blank
  BY <1>1 DEF HasBlank, Range
<1>5. PICK m \in Nat : m = 37
  OBVIOUS
<1>6. PICK p \in Nat : p = Len(c) + 4
  BY <1>1
<1>7. p >= 3 /\ Len(line) = p + 2 * m /\ 1..m = 1..37
  BY <1>1, <1>2, <1>5, <1>6
<1>8. \A i \in 3..p : line[i] # Blank
  <2> SUFFICES ASSUME NEW i \in 3..p PROVE line[i] # Blank
    OBVIOUS
  <2>1. CASE i = 3 \/ i = p
    BY <1>2, <1>3, <1>6, <2>1, Zenon
  <2>2. CASE i # 3 /\ i # p
    <3>1. i - 3 \in 1..Len(c) /\ (i - 3) + 3 = i
      BY <1>1, <1>6, <2>2
    <3> QED
      BY <1>2, <1>4, <3>1, ZenonT(30)
  <2> QED
    BY <2>1, <2>2
<1>9. \A k \in 1..37 : line[p + 2 * k - 1] = Blank /\ line[p + 2 * k] = StatWords[k]
  <2> SUFFICES ASSUME NEW k \in 1..37
               PROVE  line[p + 2 * k - 1] = Blank /\ line[p + 2 * k] = StatWords[k]
    OBVIOUS
  <2>1. p + 2 * k - 1 = Len(c) + 3 + 2 * k /\ p + 2 * k = Len(c) + 4 + 2 * k
    BY <1>1, <1>6
  <2> QED
    BY <1>2, <2>1, Zenon
<1>10. \A k \in 1..37 : line[p + 2 * k] # Blank
  BY ONLY <1>9, StatWordsFacts, ZenonT(30)
<1>11. \A n \in 1..m : Field(line, n + 1) = <<line[p + 2 * n]>>
  <2>1. (\A k \in 1..m : line[p + 2 * k - 1] = Blank) /\ (\A k \in 1..m : line[p + 2 * k] # Blank)
    BY <1>7, <1>9, <1>10, Zenon
  <2>2. line[1] # Blank /\ line[2] = Blank
    BY <1>2, <1>3
  <2>3. line \in Seq(StatChars) /\ m \in Nat /\ p \in Nat
    BY <1>2, <1>5, <1>6
  <2> QED
    BY ONLY <1>7, <1>8, <2>1, <2>2, <2>3, WordsOfLine, ZenonT(30)
<1>12. ASSUME NEW n \in 1..37 PROVE strtoull(line, n + 1) = StatWords[n]
  <2>1. Field(line, n + 1) = <<StatWords[n]>>
    BY <1>7, <1>9, <1>11, Zenon
  <2>2. StatWords[n] \notin CommChars
    BY StatWordsFacts, Zenon
  <2> QED
    BY <2>1, <2>2 DEF strtoull
<1>13. times(line) = <<StatWords[12], StatWords[13], StatWords[20]>>
  <2>1. strtoull(line, 12 + 1) = StatWords[12] /\ strtoull(line, 13 + 1) = StatWords[13]
        /\ strtoull(line, 20 + 1) = StatWords[20]
    BY <1>12
  <2> QED
    BY <2>1 DEF times
<1>14. StatWords[12] = "utime" /\ StatWords[13] = "stime" /\ StatWords[20] = "starttime"
  BY DEF StatWords
<1>15. Stat[c].times = times(line)
  BY Zenon DEF Stat, line
<1> QED
  BY <1>13, <1>14, <1>15

-----------------------------------------------------------------------------
(* The inductive invariant of the getters of processes *)

Files == {"stat", "status", "statm", "cmdline", "environ", "exe", "cwd", "root", "limits", "fd"}

\* The file each field is read from.
FileOf ==
  [Name |-> "stat", Stat |-> "stat", Username |-> "status", Size |-> "statm", Faults |-> "stat",
   Times |-> "stat", List |-> "cmdline", Vars |-> "environ", exe |-> "exe", cwd |-> "cwd",
   root |-> "root", Limits |-> "limits", Open |-> "fd"]

ProcStateWords == <<"state", "ppid", "pgrp", "tty_nr", "priority", "nice", "processor">>

ProcTimeWords == <<"utime", "stime", "starttime">>

\* What a field may hold.
Texts ==
  Comms \cup {Stat[c].faults : c \in Comms} \cup {Stat[c].times : c \in Comms}
    \cup {<<>>, ProcStateWords, <<"name">>, <<"uid">>, <<"size", "resident", "share">>, <<"args">>,
          <<"vars">>, <<"path">>, <<"soft", "hard">>, <<"count">>}

Values == [what : Texts, comm : Comms \cup {<<>>}, now : BOOLEAN]

ReaderTypes ==
  /\ process \in Processes
  /\ getter \in Getters
  /\ todo \in Seq(Files) /\ Len(todo) <= 3
  /\ \A i \in DOMAIN todo : \E f \in FieldsOf[getter] : todo[i] = FileOf[f]
  /\ opened \in 0..MaxLives
  /\ receiver \in [FieldsOf[getter] -> Values]
  /\ result \in {"new", "none", "ok", "ESRCH", "error"}
  /\ present \in BOOLEAN
  /\ absent \in BOOLEAN
  /\ result = "none" <=> todo # <<>>
  /\ opened # 0 => result = "none"

\* A field is of this call or its file is still to be read.
FieldsFollow(g, r, files) ==
  g # "ProcEnv" => \A f \in FieldsOf[g] : r[f].now \/ \E i \in DOMAIN files : files[i] = FileOf[f]

\* The words are in their fields.
WordsRight(g, r) ==
  /\ g = "ProcState" => /\ r["Name"].what = r["Name"].comm
                        /\ r["Stat"].now => r["Stat"].what = ProcStateWords
  /\ g = "ProcTime" => (r["Times"].now => HasBlank(r["Times"].comm) \/ r["Times"].what = ProcTimeWords)

\* What the history of a running call knows: an open file is of a process that
\* had the pid during the call, and of the present one unless that is gone;
\* while no process has had the pid the first file has not been opened.
HistoryKnows ==
  /\ result = "none" => (Exists => present) /\ (~Exists => absent)
  /\ opened # 0 => present /\ opened <= process.life /\ (opened < process.life => absent)
  /\ result = "none" /\ ~present /\ getter \notin {"ProcExe", "ProcFDUsage"} =>
       Head(todo) \in ViaReadProcFile

ReaderInv ==
  /\ ReaderTypes
  /\ result \in {"none", "ok"} => FieldsFollow(getter, receiver, todo)
  /\ WordsRight(getter, receiver)
  /\ HistoryKnows
  /\ AbsentIsESRCH

\* The getters by name.
LEMMA GetterNames ==
  Getters = {"ProcState", "ProcMem", "ProcTime", "ProcArgs", "ProcEnv", "ProcExe", "ProcFDUsage"}
  BY DEF Getters, FileOrders

\* Three links can be read in any order, each once.
LEMMA LinkOrders ==
  ASSUME NEW order \in Bijection(1..3, {"exe", "cwd", "root"})
  PROVE  /\ order \in Seq(Files) /\ Len(order) = 3
         /\ \A i \in 1..3 : order[i] \in {"exe", "cwd", "root"}
         /\ \A l \in {"exe", "cwd", "root"} : \E i \in 1..3 : order[i] = l
<1>1. /\ order \in [1..3 -> {"exe", "cwd", "root"}]
      /\ \A l \in {"exe", "cwd", "root"} : \E i \in 1..3 : order[i] = l
  BY DEF Bijection, Injection, Surjection
<1>2. order \in [1..3 -> Files] /\ 3 \in Nat
  BY <1>1 DEF Files
<1>3. order \in Seq(Files) /\ Len(order) = 3
  BY <1>2, FunctionIsSeq, Zenon
<1> QED
  BY <1>1, <1>3

\* The files a Get begins with are those of its fields.
LEMMA OrderFacts ==
  ASSUME NEW g \in Getters, NEW order \in FileOrders[g]
  PROVE  /\ order \in Seq(Files) /\ order # <<>> /\ Len(order) <= 3
         /\ \A i \in DOMAIN order : \E f \in FieldsOf[g] : order[i] = FileOf[f]
         /\ \A f \in FieldsOf[g] : \E i \in DOMAIN order : order[i] = FileOf[f]
         /\ g \notin {"ProcExe", "ProcFDUsage"} => Head(order) \in ViaReadProcFile
<1>1. CASE g = "ProcExe"
  <2>1. order \in Bijection(1..3, {"exe", "cwd", "root"}) /\ FieldsOf[g] = {"exe", "cwd", "root"}
    BY <1>1 DEF FileOrders, FieldsOf
  <2>2. \A f \in {"exe", "cwd", "root"} : FileOf[f] = f
    BY DEF FileOf
  <2>3. /\ order \in Seq(Files) /\ Len(order) = 3
        /\ \A i \in 1..3 : order[i] \in {"exe", "cwd", "root"}
        /\ \A l \in {"exe", "cwd", "root"} : \E i \in 1..3 : order[i] = l
    BY <2>1, LinkOrders
  <2>4. order # <<>> /\ DOMAIN order = 1..3
    BY <2>3
  <2> QED
    BY <1>1, <2>1, <2>2, <2>3, <2>4
<1>2. CASE g = "ProcState"
  <2>1. order = <<"stat", "status">> /\ FieldsOf[g] = {"Name", "Stat", "Username"}
    BY <1>2 DEF FileOrders, FieldsOf
  <2> QED
    BY <2>1 DEF Files, FileOf, ViaReadProcFile
<1>3. CASE g = "ProcMem"
  <2>1. order = <<"statm", "stat">> /\ FieldsOf[g] = {"Size", "Faults"}
    BY <1>3 DEF FileOrders, FieldsOf
  <2> QED
    BY <2>1 DEF Files, FileOf, ViaReadProcFile
<1>4. CASE g = "ProcTime"
  <2>1. order = <<"stat">> /\ FieldsOf[g] = {"Times"}
    BY <1>4 DEF FileOrders, FieldsOf
  <2> QED
    BY <2>1 DEF Files, FileOf, ViaReadProcFile
<1>5. CASE g = "ProcArgs"
  <2>1. order = <<"cmdline">> /\ FieldsOf[g] = {"List"}
    BY <1>5 DEF FileOrders, FieldsOf
  <2> QED
    BY <2>1 DEF Files, FileOf, ViaReadProcFile
<1>6. CASE g = "ProcEnv"
  <2>1. order = <<"environ">> /\ FieldsOf[g] = {"Vars"}
    BY <1>6 DEF FileOrders, FieldsOf
  <2> QED
    BY <2>1 DEF Files, FileOf, ViaReadProcFile
<1>7. CASE g = "ProcFDUsage"
  <2>1. order = <<"limits", "fd">> /\ FieldsOf[g] = {"Limits", "Open"}
    BY <1>7 DEF FileOrders, FieldsOf
  <2> QED
    BY <1>7, <2>1 DEF Files, FileOf
<1> QED
  BY <1>1, <1>2, <1>3, <1>4, <1>5, <1>6, <1>7, GetterNames

\* The fields of each getter.
LEMMA FieldNames ==
  /\ FieldsOf["ProcState"] = {"Name", "Stat", "Username"}
  /\ FieldsOf["ProcMem"] = {"Size", "Faults"}
  /\ FieldsOf["ProcTime"] = {"Times"}
  /\ FieldsOf["ProcArgs"] = {"List"}
  /\ FieldsOf["ProcEnv"] = {"Vars"}
  /\ FieldsOf["ProcExe"] = {"exe", "cwd", "root"}
  /\ FieldsOf["ProcFDUsage"] = {"Limits", "Open"}
  BY DEF FieldsOf

\* A new receiver.
LEMMA FreshFacts ==
  ASSUME NEW g \in Getters
  PROVE  Fresh(g) \in [FieldsOf[g] -> Values] /\ WordsRight(g, Fresh(g))
<1>1. Unset \in Values /\ ~Unset.now /\ Unset.what = Unset.comm
  BY DEF Unset, Values, Texts
<1>2. Fresh(g) \in [FieldsOf[g] -> Values] /\ \A f \in FieldsOf[g] : Fresh(g)[f] = Unset
  BY <1>1 DEF Fresh
<1> QED
  BY <1>1, <1>2, FieldNames DEF WordsRight

\* At the start a process runs and no Get was called.
LEMMA ReaderInitially == Init => ReaderInv
<1> SUFFICES ASSUME Init PROVE ReaderInv
  OBVIOUS
<1>1. /\ process \in Processes /\ process.state = "run" /\ getter \in Getters
      /\ todo = <<>> /\ opened = 0 /\ receiver = Fresh(getter) /\ result = "new"
      /\ present = TRUE /\ absent = FALSE
  BY ProcAssumption DEF Init, Processes
<1>2. <<>> \in Seq(Files)
  OBVIOUS
<1>3. ReaderTypes
  <2>1. receiver \in [FieldsOf[getter] -> Values]
    BY <1>1, FreshFacts
  <2>2. Len(todo) <= 3 /\ DOMAIN todo = {} /\ opened \in 0..MaxLives
    BY <1>1, ProcAssumption
  <2> QED
    BY <1>1, <1>2, <2>1, <2>2, Zenon DEF ReaderTypes
<1>4. WordsRight(getter, receiver)
  BY <1>1, FreshFacts
<1> QED
  BY <1>1, <1>3, <1>4 DEF ReaderInv, HistoryKnows, AbsentIsESRCH

\* A Get that begins has all its files to read.
LEMMA CallKeeps ==
  ASSUME ReaderInv, NEW g \in Getters, NEW order \in FileOrders[g], Call(g, order)
  PROVE  ReaderInv'
<1>1. /\ getter' = g /\ todo' = order /\ result' = "none" /\ process' = process /\ opened' = opened
      /\ receiver' = Fresh(g) \/ (g = getter /\ receiver' = Used)
      /\ result # "none"
  BY DEF Call
<1>2. present' \in BOOLEAN /\ (present' <=> Exists) /\ absent' \in BOOLEAN /\ (absent' <=> ~Exists)
  BY Zenon DEF Call, Exists
<1>3. opened = 0
  BY <1>1 DEF ReaderInv, ReaderTypes
<1>4. receiver' \in [FieldsOf[g] -> Values] /\ WordsRight(g, receiver')
  <2>1. CASE receiver' = Fresh(g)
    BY <2>1, FreshFacts
  <2>2. CASE g = getter /\ receiver' = Used
    <3>1. receiver \in [FieldsOf[g] -> Values] /\ WordsRight(g, receiver)
      BY <2>2 DEF ReaderInv, ReaderTypes
    <3>2. ASSUME NEW f \in FieldsOf[g]
          PROVE  /\ Used[f] \in Values /\ ~Used[f].now
                 /\ Used[f].what = receiver[f].what /\ Used[f].comm = receiver[f].comm
      BY <3>1, Zenon DEF Used, Values
    <3>3. Used \in [FieldsOf[g] -> Values]
      BY <3>1, <3>2, Zenon DEF Used
    <3>4. WordsRight(g, Used)
      BY <3>1, <3>2, FieldNames, SMTT(30) DEF WordsRight
    <3> QED
      BY <2>2, <3>3, <3>4
  <2> QED
    BY <1>1, <2>1, <2>2
<1>5. ReaderTypes'
  <2>1. /\ order \in Seq(Files) /\ order # <<>> /\ Len(order) <= 3
        /\ \A i \in DOMAIN order : \E f \in FieldsOf[g] : order[i] = FileOf[f]
    BY OrderFacts
  <2> QED
    BY <1>1, <1>2, <1>3, <1>4, <2>1 DEF ReaderInv, ReaderTypes
<1>6. FieldsFollow(getter', receiver', todo')
  BY <1>1, OrderFacts DEF FieldsFollow
<1>7. HistoryKnows'
  BY <1>1, <1>2, <1>3, OrderFacts DEF HistoryKnows, Exists
<1>8. AbsentIsESRCH'
  BY <1>1 DEF AbsentIsESRCH
<1> QED
  BY <1>1, <1>4, <1>5, <1>6, <1>7, <1>8 DEF ReaderInv

\* A Get that fails while no process has the pid reports ESRCH, and only then.
LEMMA FailKeeps ==
  ASSUME ReaderInv, result = "none", NEW err \in {"ESRCH", "error"}, Fail(err),
         err = "ESRCH" => ~Exists,
         ~present /\ getter \notin {"ProcExe", "ProcFDUsage"} => err = "ESRCH"
  PROVE  ReaderInv'
<1>1. /\ result' = err /\ todo' = <<>> /\ opened' = 0 /\ process' = process /\ getter' = getter
      /\ receiver' = receiver /\ present' = present /\ absent' = absent
  BY DEF Fail, FailStoring
<1>2. <<>> \in Seq(Files) /\ Len(<<>>) <= 3 /\ DOMAIN <<>> = {}
  OBVIOUS
<1>3. ReaderTypes'
  BY <1>1, <1>2, ProcAssumption DEF ReaderInv, ReaderTypes
<1>4. HistoryKnows'
  BY <1>1 DEF HistoryKnows
<1>5. AbsentIsESRCH'
  <2>1. err = "ESRCH" => absent
    BY DEF ReaderInv, HistoryKnows
  <2> QED
    BY <1>1, <2>1 DEF AbsentIsESRCH
<1> QED
  BY <1>1, <1>3, <1>4, <1>5 DEF ReaderInv

\* Opening a file.
LEMMA OpenKeeps == ASSUME ReaderInv, Open PROVE ReaderInv'
<1>1. result = "none" /\ opened = 0 /\ todo # <<>>
  BY DEF Open, ReaderInv, ReaderTypes
<1>2. CASE Readable(Head(todo))
  <2>1. opened' = process.life /\ UNCHANGED <<process, getter, todo, receiver, result, present, absent>>
    BY <1>2 DEF Open
  <2>2. process.life \in 1..MaxLives
    BY DEF ReaderInv, ReaderTypes, Processes
  <2>3. Exists
    BY <1>2 DEF Readable
  <2>4. ReaderTypes'
    BY <1>1, <2>1, <2>2 DEF ReaderInv, ReaderTypes
  <2>5. HistoryKnows'
    BY <1>1, <2>1, <2>2, <2>3 DEF ReaderInv, HistoryKnows, Exists
  <2>6. AbsentIsESRCH'
    BY <2>1 DEF ReaderInv, AbsentIsESRCH
  <2> QED
    BY <2>1, <2>4, <2>5, <2>6 DEF ReaderInv
<1>3. CASE ~Readable(Head(todo))
  <2>1. Fail(OpenError(Head(todo)))
    BY <1>3 DEF Open
  <2>2. OpenError(Head(todo)) \in {"ESRCH", "error"} /\ (OpenError(Head(todo)) = "ESRCH" => ~Exists)
    BY DEF OpenError
  <2>3. ~present /\ getter \notin {"ProcExe", "ProcFDUsage"} => OpenError(Head(todo)) = "ESRCH"
    BY <1>1 DEF OpenError, ReaderInv, HistoryKnows
  <2> QED
    BY <1>1, <2>1, <2>2, <2>3, FailKeeps
<1> QED
  BY <1>2, <1>3

\* A file whose process has gone.
LEMMA ReadGoneKeeps == ASSUME ReaderInv, ReadGone PROVE ReaderInv'
<1>1. result = "none" /\ opened # 0 /\ Fail("error")
  BY DEF ReadGone
<1>2. present
  BY <1>1 DEF ReaderInv, HistoryKnows
<1> QED
  BY <1>1, <1>2, FailKeeps

\* A file that was read: its fields are of this call, the others as they were.
LEMMA StoredKeeps ==
  ASSUME ReaderInv, todo # <<>>, NEW r \in [FieldsOf[getter] -> Values], Stored(r),
         WordsRight(getter, r),
         \A f \in FieldsOf[getter] : FileOf[f] # Head(todo) => r[f] = receiver[f],
         getter # "ProcEnv" => \A f \in FieldsOf[getter] : FileOf[f] = Head(todo) => r[f].now
  PROVE  ReaderInv'
<1>1. /\ receiver' = r /\ todo' = Tail(todo) /\ opened' = 0 /\ process' = process /\ getter' = getter
      /\ result' = IF Len(todo) = 1 THEN "ok" ELSE "none"
      /\ present' = present /\ absent' = absent /\ result = "none" /\ Exists
  BY DEF Stored
<1>2. /\ todo \in Seq(Files) /\ Len(todo) <= 3
      /\ \A i \in DOMAIN todo : \E f \in FieldsOf[getter] : todo[i] = FileOf[f]
      /\ FieldsFollow(getter, receiver, todo)
  BY <1>1 DEF ReaderInv, ReaderTypes
<1>3. /\ Tail(todo) \in Seq(Files) /\ Len(Tail(todo)) = Len(todo) - 1
      /\ \A i \in 1..Len(todo) - 1 : Tail(todo)[i] = todo[i + 1]
      /\ Len(todo) \in Nat /\ Len(todo) > 0
      /\ DOMAIN Tail(todo) = 1..Len(todo) - 1 /\ DOMAIN todo = 1..Len(todo)
      /\ Head(todo) = todo[1]
  BY <1>2
<1>4. Len(todo) = 1 <=> Tail(todo) = <<>>
  <2>1. Len(<<>>) = 0 /\ (Tail(todo) # <<>> => Len(Tail(todo)) # 0)
    BY <1>3, EmptySeq
  <2>2. PICK n \in Nat : n = Len(todo)
    BY <1>3, Zenon
  <2>3. Len(Tail(todo)) = n - 1
    BY <1>3, <2>2, Zenon
  <2>4. n = 1 <=> n - 1 = 0
    OBVIOUS
  <2> QED
    BY <2>1, <2>2, <2>3, <2>4, Zenon
<1>5. \A i \in DOMAIN Tail(todo) : \E f \in FieldsOf[getter] : Tail(todo)[i] = FileOf[f]
  <2> SUFFICES ASSUME NEW i \in DOMAIN Tail(todo)
               PROVE  \E f \in FieldsOf[getter] : Tail(todo)[i] = FileOf[f]
    OBVIOUS
  <2>1. i + 1 \in DOMAIN todo /\ Tail(todo)[i] = todo[i + 1]
    BY <1>3, SMTT(30)
  <2> QED
    BY <1>2, <2>1
<1>6. ReaderTypes'
  BY <1>1, <1>2, <1>3, <1>4, <1>5, ProcAssumption, SMTT(30) DEF ReaderInv, ReaderTypes
<1>7. FieldsFollow(getter, r, Tail(todo))
  <2> SUFFICES ASSUME getter # "ProcEnv", NEW f \in FieldsOf[getter]
               PROVE  r[f].now \/ \E i \in DOMAIN Tail(todo) : Tail(todo)[i] = FileOf[f]
    BY DEF FieldsFollow
  <2>1. CASE FileOf[f] = Head(todo)
    BY <2>1
  <2>2. CASE FileOf[f] # Head(todo)
    <3>1. r[f] = receiver[f]
      BY <2>2
    <3>2. receiver[f].now \/ \E i \in DOMAIN todo : todo[i] = FileOf[f]
      BY <1>2 DEF FieldsFollow
    <3>3. ASSUME NEW i \in DOMAIN todo, todo[i] = FileOf[f]
          PROVE  \E j \in DOMAIN Tail(todo) : Tail(todo)[j] = FileOf[f]
      <4>1. i # 1 /\ i - 1 \in DOMAIN Tail(todo) /\ (i - 1) + 1 = i
        BY <1>3, <2>2, <3>3
      <4>2. Tail(todo)[i - 1] = todo[i]
        BY <1>3, <4>1
      <4> QED
        BY <3>3, <4>1, <4>2
    <3> QED
      BY <3>1, <3>2, <3>3
  <2> QED
    BY <2>1, <2>2
<1>8. HistoryKnows'
  BY <1>1 DEF ReaderInv, HistoryKnows, Exists
<1>9. AbsentIsESRCH'
  BY <1>1 DEF ReaderInv, HistoryKnows, AbsentIsESRCH
<1> QED
  BY <1>1, <1>6, <1>7, <1>8, <1>9 DEF ReaderInv

\* What storing one field does to the receiver.
LEMMA StoresFacts ==
  ASSUME ReaderInv, NEW field \in FieldsOf[getter], NEW what \in Texts
  PROVE  /\ Value(what) \in Values /\ Value(what).now
         /\ Value(what).what = what /\ Value(what).comm = process.comm
         /\ Stores(field, what) \in [FieldsOf[getter] -> Values]
         /\ Stores(field, what)[field] = Value(what)
         /\ \A f \in FieldsOf[getter] \ {field} : Stores(field, what)[f] = receiver[f]
<1>1. process.comm \in Comms
  BY DEF ReaderInv, ReaderTypes, Processes
<1>2. Value(what) \in Values /\ Value(what).now /\ Value(what).what = what /\ Value(what).comm = process.comm
  BY <1>1 DEF Value, Values
<1>3. receiver \in [FieldsOf[getter] -> Values]
  BY DEF ReaderInv, ReaderTypes
<1> QED
  BY <1>2, <1>3 DEF Stores

\* A step of the process.
LEMMA BecomeKeeps ==
  ASSUME ReaderInv, NEW p \in Processes, Become(p),
         p.life = process.life \/ (~Exists /\ p.life = process.life + 1)
  PROVE  ReaderInv'
<1>1. process' = p /\ UNCHANGED <<getter, todo, opened, receiver, result>>
  BY DEF Become, call
<1>2. /\ present' \in BOOLEAN /\ (present' <=> present \/ (result = "none" /\ p.state # "gone"))
      /\ absent' \in BOOLEAN /\ (absent' <=> absent \/ (result = "none" /\ p.state = "gone"))
  BY Zenon DEF Become
<1>3. ReaderTypes'
  BY <1>1, <1>2 DEF ReaderInv, ReaderTypes
<1>4. process.life \in Nat /\ opened \in Nat
  BY DEF ReaderInv, ReaderTypes, Processes
<1>5. HistoryKnows'
  <2>1. result' = "none" => (Exists' => present') /\ (~Exists' => absent')
    BY <1>1, <1>2 DEF Exists
  <2>2. opened' # 0 => present' /\ opened' <= process'.life /\ (opened' < process'.life => absent')
    <3> SUFFICES ASSUME opened # 0
                 PROVE  present' /\ opened <= p.life /\ (opened < p.life => absent')
      BY <1>1
    <3>1. result = "none" /\ present /\ opened <= process.life /\ (opened < process.life => absent)
          /\ (~Exists => absent)
      BY DEF ReaderInv, ReaderTypes, HistoryKnows
    <3> QED
      BY <1>2, <1>4, <3>1
  <2>3. result' = "none" /\ ~present' /\ getter' \notin {"ProcExe", "ProcFDUsage"} =>
          Head(todo') \in ViaReadProcFile
    BY <1>1, <1>2 DEF ReaderInv, HistoryKnows
  <2> QED
    BY <2>1, <2>2, <2>3 DEF HistoryKnows, ViaReadProcFile
<1>6. AbsentIsESRCH'
  BY <1>1, <1>2 DEF ReaderInv, AbsentIsESRCH
<1> QED
  BY <1>1, <1>3, <1>5, <1>6 DEF ReaderInv

\* A getter that stores one field from one file.
LEMMA OneFieldKeeps ==
  ASSUME ReaderInv, NEW g \in Getters, NEW file, Reading(g, file), NEW field \in FieldsOf[g],
         \A f \in FieldsOf[g] : FileOf[f] = file <=> f = field,
         NEW what \in Texts, Stored(Stores(field, what)),
         WordsRight(g, Stores(field, what))
  PROVE  ReaderInv'
<1>1. getter = g /\ todo # <<>> /\ Head(todo) = file
  BY DEF Reading
<1> DEFINE r == Stores(field, what)
<1>2. /\ r \in [FieldsOf[getter] -> Values] /\ r[field].now
      /\ \A f \in FieldsOf[getter] \ {field} : r[f] = receiver[f]
  BY <1>1, StoresFacts
<1> HIDE DEF r
<1>3. \A f \in FieldsOf[getter] : FileOf[f] # Head(todo) => r[f] = receiver[f]
  BY <1>1, <1>2
<1>4. \A f \in FieldsOf[getter] : FileOf[f] = Head(todo) => r[f].now
  BY <1>1, <1>2
<1>5. Stored(r) /\ WordsRight(getter, r)
  BY <1>1 DEF r
<1> QED
  BY <1>1, <1>2, <1>3, <1>4, <1>5, StoredKeeps, Zenon

\* The stat file of any process has the name and the words ProcState wants.
LEMMA ProcStateStores ==
  ASSUME process.comm \in Comms, ProcStateStat
  PROVE  Stored(WithStat(stat.interests))
<1>1. stat.found /\ stat.interests = ProcStateWords /\ stat.scanned = Tail(stat.interests)
  BY StatOfAnyName DEF stat, ProcStateWords
<1>2. stat.interests # <<>>
  BY <1>1 DEF ProcStateWords
<1> QED
  BY <1>1, <1>2, Zenon DEF ProcStateStat

\* ProcState's stat file: the name and the words of any process are found.
LEMMA ProcStateStatKeeps == ASSUME ReaderInv, ProcStateStat PROVE ReaderInv'
<1>1. getter = "ProcState" /\ todo # <<>> /\ Head(todo) = "stat"
  BY DEF ProcStateStat, Reading
<1>2. process.comm \in Comms /\ receiver \in [FieldsOf[getter] -> Values]
  BY DEF ReaderInv, ReaderTypes, Processes
<1>3. stat.comm = process.comm /\ stat.interests = ProcStateWords
  BY <1>2, StatOfAnyName DEF stat, ProcStateWords
<1> DEFINE r == WithStat(stat.interests)
<1>4. Stored(r)
  BY <1>2, ProcStateStores
<1>5. FieldsOf[getter] = {"Name", "Stat", "Username"}
  BY <1>1, FieldNames
<1>6. process.comm \in Texts /\ ProcStateWords \in Texts
  BY <1>2 DEF Texts
<1>7. /\ Value(process.comm) \in Values /\ Value(process.comm).now
      /\ Value(process.comm).what = process.comm /\ Value(process.comm).comm = process.comm
      /\ Value(ProcStateWords) \in Values /\ Value(ProcStateWords).now
      /\ Value(ProcStateWords).what = ProcStateWords
  BY <1>2, <1>6 DEF Value, Values
<1>8. /\ r \in [FieldsOf[getter] -> Values] /\ r["Name"] = Value(process.comm)
      /\ r["Stat"] = Value(ProcStateWords) /\ r["Username"] = receiver["Username"]
  BY <1>2, <1>3, <1>5, <1>7, SMTT(30) DEF WithStat, WithName
<1> HIDE DEF r
<1>9. WordsRight(getter, r)
  BY <1>1, <1>7, <1>8 DEF WordsRight
<1>10. FileOf["Name"] = "stat" /\ FileOf["Stat"] = "stat" /\ FileOf["Username"] = "status"
  BY DEF FileOf
<1>11. \A f \in FieldsOf[getter] : FileOf[f] # Head(todo) => r[f] = receiver[f]
  BY <1>1, <1>5, <1>8, <1>10
<1>12. \A f \in FieldsOf[getter] : FileOf[f] = Head(todo) => r[f].now
  BY <1>1, <1>5, <1>7, <1>8, <1>10
<1> QED
  BY <1>1, <1>4, <1>8, <1>9, <1>11, <1>12, StoredKeeps, SMTT(30)

\* ProcTime's stat file.
LEMMA ProcTimeStatKeeps == ASSUME ReaderInv, ProcTimeStat PROVE ReaderInv'
<1>1. Reading("ProcTime", "stat") /\ Stored(Stores("Times", stat.times)) /\ getter = "ProcTime"
  BY DEF ProcTimeStat, Reading
<1>2. process.comm \in Comms /\ "ProcTime" \in Getters
  BY GetterNames, SMTT(30) DEF ReaderInv, ReaderTypes, Processes
<1>3. stat.times \in Texts /\ (HasBlank(process.comm) \/ stat.times = ProcTimeWords)
  BY <1>2, TimesOfNameWithoutBlank, SMTT(30) DEF stat, Texts, ProcTimeWords
<1>4. FieldsOf["ProcTime"] = {"Times"} /\ FileOf["Times"] = "stat"
  BY FieldNames DEF FileOf
<1>5. Stores("Times", stat.times)["Times"].comm = process.comm /\ Stores("Times", stat.times)["Times"].what = stat.times
  BY <1>1, <1>3, <1>4, StoresFacts, SMTT(30)
<1>6. WordsRight("ProcTime", Stores("Times", stat.times))
  BY <1>3, <1>5 DEF WordsRight
<1> QED
  BY <1>1, <1>2, <1>3, <1>4, <1>6, OneFieldKeeps

\* The other files of one field.
LEMMA OtherReadsKeep ==
  ASSUME ReaderInv,
         ProcStateStatus \/ ProcMemStatm \/ ProcMemStat \/ ProcArgs \/ ProcExe \/ ProcFDUsage
  PROVE  ReaderInv'
<1>1. process.comm \in Comms
  BY DEF ReaderInv, ReaderTypes, Processes
<1>2. CASE ProcStateStatus
  <2>1. PICK form \in {"name", "uid"} : Stored(Stores("Username", <<form>>))
    BY <1>2 DEF ProcStateStatus
  <2>2. Reading("ProcState", "status") /\ getter = "ProcState" /\ "ProcState" \in Getters
    BY <1>2, GetterNames DEF ProcStateStatus, Reading
  <2>3. <<form>> \in Texts
    BY DEF Texts
  <2>4. FieldsOf["ProcState"] = {"Name", "Stat", "Username"}
    BY FieldNames
  <2>5. \A f \in {"Name", "Stat", "Username"} : FileOf[f] = "status" <=> f = "Username"
    BY DEF FileOf
  <2>6. WordsRight("ProcState", Stores("Username", <<form>>))
    <3>1. \A f \in {"Name", "Stat"} : Stores("Username", <<form>>)[f] = receiver[f]
      BY <2>2, <2>3, <2>4, StoresFacts
    <3> QED
      BY <2>2, <3>1 DEF WordsRight, ReaderInv
  <2> QED
    BY <2>1, <2>2, <2>3, <2>4, <2>5, <2>6, OneFieldKeeps
<1>3. \A g \in Getters \ {"ProcState", "ProcTime"} : \A r : WordsRight(g, r)
  BY DEF WordsRight
<1>4. CASE ProcMemStatm
  <2>1. /\ Reading("ProcMem", "statm") /\ Stored(Stores("Size", <<"size", "resident", "share">>))
        /\ "ProcMem" \in Getters \ {"ProcState", "ProcTime"}
    BY <1>4, GetterNames DEF ProcMemStatm
  <2>2. <<"size", "resident", "share">> \in Texts
    BY DEF Texts
  <2>3. FieldsOf["ProcMem"] = {"Size", "Faults"} /\ \A f \in {"Size", "Faults"} : FileOf[f] = "statm" <=> f = "Size"
    BY FieldNames DEF FileOf
  <2> QED
    BY <1>3, <2>1, <2>2, <2>3, OneFieldKeeps
<1>5. CASE ProcMemStat
  <2>1. /\ Reading("ProcMem", "stat") /\ Stored(Stores("Faults", stat.faults))
        /\ "ProcMem" \in Getters \ {"ProcState", "ProcTime"}
    BY <1>5, GetterNames DEF ProcMemStat
  <2>2. stat.faults \in Texts
    BY <1>1 DEF Texts, stat
  <2>3. FieldsOf["ProcMem"] = {"Size", "Faults"} /\ \A f \in {"Size", "Faults"} : FileOf[f] = "stat" <=> f = "Faults"
    BY FieldNames DEF FileOf
  <2> QED
    BY <1>3, <2>1, <2>2, <2>3, OneFieldKeeps
<1>6. CASE ProcArgs
  <2>1. /\ Reading("ProcArgs", "cmdline") /\ Stored(Stores("List", <<"args">>))
        /\ "ProcArgs" \in Getters \ {"ProcState", "ProcTime"}
    BY <1>6, GetterNames DEF ProcArgs
  <2>2. <<"args">> \in Texts
    BY DEF Texts
  <2>3. FieldsOf["ProcArgs"] = {"List"} /\ \A f \in {"List"} : FileOf[f] = "cmdline" <=> f = "List"
    BY FieldNames DEF FileOf
  <2> QED
    BY <1>3, <2>1, <2>2, <2>3, OneFieldKeeps
<1>7. CASE ProcExe
  <2>1. PICK link \in {"exe", "cwd", "root"} : Reading("ProcExe", link) /\ Stored(Stores(link, <<"path">>))
    BY <1>7 DEF ProcExe
  <2>2. <<"path">> \in Texts /\ "ProcExe" \in Getters \ {"ProcState", "ProcTime"}
    BY GetterNames DEF Texts
  <2>3. FieldsOf["ProcExe"] = {"exe", "cwd", "root"} /\ \A f \in {"exe", "cwd", "root"} : FileOf[f] = link <=> f = link
    BY FieldNames DEF FileOf
  <2> QED
    BY <1>3, <2>1, <2>2, <2>3, OneFieldKeeps
<1>8. CASE ProcFDUsage
  <2>1. "ProcFDUsage" \in Getters \ {"ProcState", "ProcTime"} /\ FieldsOf["ProcFDUsage"] = {"Limits", "Open"}
    BY GetterNames, FieldNames
  <2>2. <<"soft", "hard">> \in Texts /\ <<"count">> \in Texts
    BY DEF Texts
  <2>3. \A f \in {"Limits", "Open"} : (FileOf[f] = "limits" <=> f = "Limits") /\ (FileOf[f] = "fd" <=> f = "Open")
    BY DEF FileOf
  <2>4. CASE Reading("ProcFDUsage", "limits") /\ Stored(Stores("Limits", <<"soft", "hard">>))
    BY <1>3, <2>1, <2>2, <2>3, <2>4, OneFieldKeeps, SMTT(30)
  <2>5. CASE Reading("ProcFDUsage", "fd") /\ Stored(Stores("Open", <<"count">>))
    BY <1>3, <2>1, <2>2, <2>3, <2>5, OneFieldKeeps, SMTT(30)
  <2> QED
    BY <1>8, <2>4, <2>5 DEF ProcFDUsage
<1> QED
  BY <1>2, <1>4, <1>5, <1>6, <1>7, <1>8, SMTT(30)

\* ProcEnv's variables, which are of this call in a new receiver only.
LEMMA ProcEnvKeeps == ASSUME ReaderInv, ProcEnv PROVE ReaderInv'
<1> DEFINE v == [Value(<<"vars">>) EXCEPT !.now = receiver["Vars"] = Unset]
           r == [receiver EXCEPT !["Vars"] = v]
<1>1. getter = "ProcEnv" /\ todo # <<>> /\ Head(todo) = "environ" /\ Stored(r)
  BY DEF ProcEnv, Reading
<1>2. process.comm \in Comms /\ receiver \in [FieldsOf[getter] -> Values]
  BY DEF ReaderInv, ReaderTypes, Processes
<1>3. FieldsOf[getter] = {"Vars"} /\ FileOf["Vars"] = "environ"
  BY <1>1, FieldNames DEF FileOf
<1>4. (receiver["Vars"] = Unset) \in BOOLEAN /\ <<"vars">> \in Texts
  BY DEF Texts
<1>5. v \in Values
  BY <1>2, <1>4, Zenon DEF Value, Values
<1> HIDE DEF v
<1>6. r \in [FieldsOf[getter] -> Values]
  BY <1>2, <1>5, Zenon
<1> HIDE DEF r
<1>7. WordsRight(getter, r)
  BY <1>1 DEF WordsRight
<1> QED
  BY <1>1, <1>3, <1>6, <1>7, StoredKeeps

\* What the process does.
LEMMA ProcessKeeps ==
  ASSUME ReaderInv, Exec \/ Setuid \/ Exit \/ Reap \/ Reuse
  PROVE  ReaderInv'
<1>1. process \in [life : 1..MaxLives, state : {"run", "zombie", "gone"}, comm : Comms, user : Users]
  BY DEF ReaderInv, ReaderTypes, Processes
<1>2. CASE Exec
  <2>1. PICK c \in Comms : Become([process EXCEPT !.comm = c])
    BY <1>2 DEF Exec
  <2>2. [process EXCEPT !.comm = c] \in Processes /\ [process EXCEPT !.comm = c].life = process.life
    BY <1>1 DEF Processes
  <2> QED
    BY <2>1, <2>2, BecomeKeeps, Zenon
<1>3. CASE Setuid
  <2>1. PICK u \in Users : Become([process EXCEPT !.user = u])
    BY <1>3 DEF Setuid
  <2>2. [process EXCEPT !.user = u] \in Processes /\ [process EXCEPT !.user = u].life = process.life
    BY <1>1 DEF Processes
  <2> QED
    BY <2>1, <2>2, BecomeKeeps, Zenon
<1>4. ASSUME NEW st \in {"zombie", "gone"}, Become([process EXCEPT !.state = st])
      PROVE  ReaderInv'
  <2>1. [process EXCEPT !.state = st] \in Processes /\ [process EXCEPT !.state = st].life = process.life
    BY <1>1 DEF Processes
  <2> QED
    BY <1>4, <2>1, BecomeKeeps, Zenon
<1>5. CASE Exit \/ Reap
  BY <1>4, <1>5 DEF Exit, Reap
<1>6. CASE Reuse
  BY <1>1, <1>6, BecomeKeeps, ProcAssumption DEF Reuse, Exists, Processes
<1> QED
  BY <1>2, <1>3, <1>5, <1>6

\* ReaderInv is inductive.
LEMMA ReaderStep == ReaderInv /\ [Next]_vars => ReaderInv'
<1> SUFFICES ASSUME ReaderInv, [Next]_vars PROVE ReaderInv'
  OBVIOUS
<1>1. CASE \E g \in Getters : \E order \in FileOrders[g] : Call(g, order)
  BY <1>1, CallKeeps
<1>2. CASE Open \/ ReadGone
  BY <1>2, OpenKeeps, ReadGoneKeeps
<1>3. CASE ProcStateStat \/ ProcTimeStat \/ ProcEnv
  BY <1>3, ProcStateStatKeeps, ProcTimeStatKeeps, ProcEnvKeeps
<1>4. CASE ProcStateStatus \/ ProcMemStatm \/ ProcMemStat \/ ProcArgs \/ ProcExe \/ ProcFDUsage
  BY <1>4, OtherReadsKeep
<1>5. CASE Exec \/ Setuid \/ Exit \/ Reap \/ Reuse
  BY <1>5, ProcessKeeps, ZenonT(30)
<1>6. CASE UNCHANGED vars
  BY <1>6 DEF vars, call, ReaderInv, ReaderTypes, FieldsFollow, WordsRight, HistoryKnows, AbsentIsESRCH, Exists
<1> QED
  BY <1>1, <1>2, <1>3, <1>4, <1>5, <1>6 DEF Next, Get

-----------------------------------------------------------------------------
(* Failures *)


\* A file that cannot be opened is of a process that is not there, of one that
\* has exited, or of another user's.
LEMMA UnreadableIsKnown ==
  ASSUME ReaderInv, result = "none", ~Readable(Head(todo))
  PROVE  \/ absent
         \/ getter = "ProcExe" /\ process.state = "zombie"
         \/ getter \in {"ProcEnv", "ProcExe", "ProcFDUsage"} /\ process.user # Self
<1>1. todo # <<>> /\ todo \in Seq(Files) /\ getter \in Getters
  BY DEF ReaderInv, ReaderTypes
<1>2. Head(todo) = todo[1] /\ 1 \in DOMAIN todo
  BY <1>1, EmptySeq
<1>3. PICK f \in FieldsOf[getter] : Head(todo) = FileOf[f]
  BY <1>2 DEF ReaderInv, ReaderTypes
<1>4. CASE ~Exists
  BY <1>4 DEF ReaderInv, HistoryKnows
<1>5. CASE Exists
  <2>1. CASE getter \in {"ProcState", "ProcMem", "ProcTime", "ProcArgs"}
    <3>1. Head(todo) \in {"stat", "status", "statm", "cmdline"}
      BY <1>3, <2>1, FieldNames DEF FileOf
    <3> QED
      BY <1>5, <3>1, Zenon DEF Readable
  <2>2. CASE getter = "ProcEnv"
    <3>1. Head(todo) = "environ"
      BY <1>3, <2>2, FieldNames DEF FileOf
    <3> QED
      BY <1>5, <2>2, <3>1, ZenonT(30) DEF Readable
  <2>3. CASE getter = "ProcFDUsage"
    <3>1. Head(todo) \in {"limits", "fd"}
      BY <1>3, <2>3, FieldNames DEF FileOf
    <3> QED
      BY <1>5, <2>3, <3>1, SMTT(30) DEF Readable
  <2>4. CASE getter = "ProcExe"
    <3>1. process.state \in {"run", "zombie", "gone"}
      BY DEF ReaderInv, ReaderTypes, Processes
    <3> QED
      BY <1>5, <2>4, <3>1 DEF Readable, Exists
  <2> QED
    BY <1>1, <2>1, <2>2, <2>3, <2>4, GetterNames
<1> QED
  BY <1>4, <1>5

\* A step that stores a field does not fail.
LEMMA StoredSucceeds == ASSUME NEW r, Stored(r) PROVE result' \in {"none", "ok"}
  BY DEF Stored

\* No step lets a call fail that should not.
LEMMA FailureIsKnown == ReaderInv /\ Next => LivingProcessIsRead
<1> SUFFICES ASSUME ReaderInv, Next, result = "none", result' \notin {"none", "ok"}
             PROVE  \/ absent
                    \/ getter = "ProcExe" /\ process.state = "zombie"
                    \/ getter \in {"ProcEnv", "ProcExe", "ProcFDUsage"} /\ process.user # Self
  BY DEF LivingProcessIsRead
<1>1. ~\E g \in Getters : \E order \in FileOrders[g] : Call(g, order)
  BY DEF Call
<1>2. CASE Open
  <2>1. ~Readable(Head(todo))
    BY <1>2 DEF Open
  <2> QED
    BY <2>1, UnreadableIsKnown
<1>3. CASE ReadGone
  <2>1. opened # 0 /\ (~Exists \/ process.life # opened)
    BY <1>3 DEF ReadGone
  <2>2. opened <= process.life /\ opened \in Nat /\ process.life \in Nat
    BY <2>1 DEF ReaderInv, ReaderTypes, HistoryKnows, Processes
  <2> QED
    BY <2>1, <2>2 DEF ReaderInv, HistoryKnows
<1>4. ~ProcStateStat
  <2> SUFFICES ASSUME ProcStateStat PROVE FALSE
    BY SMTT(30)
  <2>1. process.comm \in Comms
    BY DEF ReaderInv, ReaderTypes, Processes
  <2> QED
    BY <2>1, ProcStateStores, StoredSucceeds
<1>5. ~(ProcStateStatus \/ ProcMemStatm \/ ProcMemStat \/ ProcTimeStat \/ ProcArgs \/ ProcEnv)
  BY StoredSucceeds DEF ProcStateStatus, ProcMemStatm, ProcMemStat, ProcTimeStat, ProcArgs, ProcEnv
<1>6. ~(ProcExe \/ ProcFDUsage)
  BY StoredSucceeds DEF ProcExe, ProcFDUsage
<1>7. ~(Exec \/ Setuid \/ Exit \/ Reap \/ Reuse)
  BY DEF Exec, Setuid, Exit, Reap, Reuse, Become, call
<1> QED
  BY <1>1, <1>2, <1>3, <1>4, <1>5, <1>6, <1>7 DEF Next, Get

=============================================================================
