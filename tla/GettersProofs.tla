--------------------------- MODULE GettersProofs ------------------------------
(***************************************************************************)
(* Theorems about Getters: the parts of a behaviour keep the invariants of *)
(* ProcReaderProofs and NumberProofs, and what is converted stands for     *)
(* what it was converted from.                                             *)
(***************************************************************************)
EXTENDS Getters, ProcReaderProofs, NumberProofs

\* A step of the getters is one of its parts.
LEMMA PartsStep == [GettersNext]_getterVars => [Next]_vars /\ [MemNext]_memVars
  BY DEF GettersNext, getterVars

\* What the theorems follow from holds throughout.
LEMMA GettersInvariant == GettersSpec => [](ReaderInv /\ MemInv)
<1>1. GettersInit => ReaderInv /\ MemInv
  BY ReaderInitially, MemInitially, SMTT(30) DEF GettersInit
<1>2. ReaderInv /\ MemInv /\ [GettersNext]_getterVars => ReaderInv' /\ MemInv'
  BY PartsStep, ReaderStep, MemStep, SMTT(30)
<1> QED
  BY <1>1, <1>2, PTL DEF GettersSpec

\* Every variable of the getters has its type, for any number of pages, any
\* command names and users and any number of processes that share the pid.
THEOREM GettersTypeCorrect == GettersSpec => []GettersTypeOK
<1>1. ReaderInv /\ MemInv => GettersTypeOK
  <2> SUFFICES ASSUME ReaderInv, MemInv PROVE GettersTypeOK
    OBVIOUS
  <2>1. receiver \in [FieldsOf[getter] -> Values]
    BY DEF ReaderInv, ReaderTypes
  <2>2. /\ DOMAIN receiver = FieldsOf[getter]
        /\ \A f \in DOMAIN receiver : receiver[f].comm \in Comms \cup {<<>>} /\ receiver[f].now \in BOOLEAN
    BY <2>1, SMTT(30) DEF Values
  <2>3. TypeOK
    BY <2>2 DEF ReaderInv, ReaderTypes, TypeOK
  <2> QED
    BY <2>3 DEF MemInv, GettersTypeOK
<1> QED
  BY <1>1, GettersInvariant, PTL

\* Whatever the command name is, with blanks and parentheses in any number and
\* order, ProcState's name and words are in their fields, and ProcTime's times
\* are unless the name has a blank.
THEOREM FieldsAreRight == GettersSpec => []RightFields
<1>1. ReaderInv => RightFields
  <2> SUFFICES ASSUME ReaderInv, result = "ok" PROVE RightFields
    BY DEF RightFields
  <2>1. todo = <<>> /\ DOMAIN todo = {}
    BY DEF ReaderInv, ReaderTypes
  <2>2. getter # "ProcEnv" => \A f \in FieldsOf[getter] : receiver[f].now
    BY <2>1, SMTT(30) DEF ReaderInv, FieldsFollow
  <2>3. CASE getter = "ProcState"
    <3>1. receiver["Stat"].now
      BY <2>2, <2>3, FieldNames, SMTT(30)
    <3>2. receiver["Name"].what = receiver["Name"].comm /\ receiver["Stat"].what = ProcStateWords
      BY <2>3, <3>1, SMTT(30) DEF ReaderInv, WordsRight
    <3> QED
      BY <2>3, <3>2, ZenonT(30) DEF RightFields, ProcStateWords
  <2>4. CASE getter = "ProcTime"
    <3>1. receiver["Times"].now
      BY <2>2, <2>4, FieldNames, SMTT(30)
    <3>2. HasBlank(receiver["Times"].comm) \/ receiver["Times"].what = ProcTimeWords
      BY <2>4, <3>1, SMTT(30) DEF ReaderInv, WordsRight
    <3> QED
      BY <2>4, <3>2, SMTT(30) DEF RightFields, ProcTimeWords
  <2> QED
    BY <2>3, <2>4, SMTT(30) DEF RightFields
<1> QED
  BY <1>1, GettersInvariant, PTL

\* A getter of a process or of memory that succeeds has set every field in this
\* call, in the order of files or questions it has and whatever moves meanwhile:
\* every getter but ProcEnv, which adds to the map it finds, and OpenBSD's Mem
\* and Swap, which return nil also when the kernel refuses.
THEOREM SuccessIsCurrentAlways == GettersSpec => []SuccessIsOfThisCall
<1>1. ReaderInv /\ MemInv => SuccessIsOfThisCall
  <2> SUFFICES ASSUME ReaderInv, MemInv PROVE SuccessIsOfThisCall
    OBVIOUS
  <2>1. ASSUME result = "ok", getter # "ProcEnv" PROVE \A f \in DOMAIN receiver : receiver[f].now
    <3>1. todo = <<>> /\ DOMAIN todo = {} /\ DOMAIN receiver = FieldsOf[getter]
      BY <2>1 DEF ReaderInv, ReaderTypes
    <3> QED
      BY <2>1, <3>1, SMTT(30) DEF ReaderInv, FieldsFollow
  <2> QED
    BY <2>1, SMTT(30) DEF MemInv, SuccessIsOfThisCall, SuccessIsCurrent
<1> QED
  BY <1>1, GettersInvariant, PTL

\* The parts of memory and of swap space add up, modulo the word, for hosts of
\* any size; and in a receiver that OpenBSD's Swap has not added to before, none
\* wraps below zero when the kernel's numbers come in one answer, or in several
\* between which no page moves.  Of FreeBSD and OpenBSD with pages moving between
\* two answers only the first part is claimed.
THEOREM MemoryAddsUpAlways == GettersSpec => []MemoryAddsUp
<1>1. MemInv => MemoryAddsUp
  BY DEF MemInv, MemoryAddsUp
<1> QED
  BY <1>1, GettersInvariant, PTL

\* An error of a getter of processes says what is the case, whatever happens to
\* the process between two files.
THEOREM ErrorsAreRightAlways == GettersSpec => ErrorsAreRight
<1>1. ReaderInv /\ ReaderInv' /\ [GettersNext]_getterVars => [LivingProcessIsRead /\ AbsentIsESRCH']_vars
  <2>1. ReaderInv' => AbsentIsESRCH'
    BY DEF ReaderInv
  <2> QED
    BY <2>1, PartsStep, FailureIsKnown, SMTT(30)
<1> QED
  BY <1>1, GettersInvariant, PTL DEF GettersSpec, ErrorsAreRight

\* What is shown is what the sample was converted into.
ConvertedInv ==
  /\ part = "conversion" => sample \in Samples
  /\ shown # <<"nothing">> => part = "conversion" /\ shown = <<"text", Converted(sample)>>

\* ConvertedInv is inductive.
LEMMA ConvertedAlways == GettersSpec => []ConvertedInv
<1>1. GettersInit => ConvertedInv
  BY DEF GettersInit, ConvertedInv
<1>2. ConvertedInv /\ [GettersNext]_getterVars => ConvertedInv'
  <2> SUFFICES ASSUME ConvertedInv, [GettersNext]_getterVars PROVE ConvertedInv'
    OBVIOUS
  <2>1. part' = part /\ sample' = sample
    BY DEF GettersNext, getterVars, Convert
  <2>2. shown' = shown \/ (part = "conversion" /\ shown' = <<"text", Converted(sample)>>)
    BY DEF GettersNext, getterVars, Convert
  <2>3. Converted(sample)' = Converted(sample)
    BY <2>1, SMTT(30) DEF Converted
  <2> QED
    BY <2>1, <2>2, <2>3, SMTT(30) DEF ConvertedInv
<1> QED
  BY <1>1, <1>2, PTL DEF GettersSpec

\* What each kind of sample holds and is converted into.
LEMMA SampleKinds ==
  ASSUME ConvertedInv, shown # <<"nothing">>
  PROVE  /\ sample.kind = "size" => /\ sample.size \in Sizes
                                    /\ Text = <<FormatSize(sample.size), FormatSize(sample.size + 1)>>
         /\ sample.kind = "usage" => /\ sample.usage \in Usages
                                     /\ Text = UsePercent(sample.usage[1], sample.usage[2], sample.usage[3])
         /\ sample.kind = "seconds" => /\ sample.n \in Seconds
                                       /\ Text = <<UptimeFormat(sample.n), FormatTotal(1000 * sample.n + 999)>>
         /\ sample.kind = "sockets" => /\ sample.m \in Messages /\ sample.n \in Messages
                                       /\ Text = <<Written(sample.m), Written(sample.n), FastHash(sample.m), FastHash(sample.n)>>
<1>1. sample \in Samples /\ Text = Converted(sample)
  BY SMTT(30) DEF ConvertedInv, Text
<1>2. /\ sample.kind = "size" => sample.size \in Sizes
      /\ sample.kind = "usage" => sample.usage \in Usages
      /\ sample.kind = "seconds" => sample.n \in Seconds
      /\ sample.kind = "sockets" => sample.m \in Messages /\ sample.n \in Messages
  BY <1>1, SMTT(30) DEF Samples
<1>3. sample.kind = "size" => Converted(sample) = <<FormatSize(sample.size), FormatSize(sample.size + 1)>>
  BY DEF Converted
<1>4. sample.kind = "usage" => Converted(sample) = UsePercent(sample.usage[1], sample.usage[2], sample.usage[3])
  BY DEF Converted
<1>5. sample.kind = "seconds" => Converted(sample) = <<UptimeFormat(sample.n), FormatTotal(1000 * sample.n + 999)>>
  BY SMTT(30) DEF Converted
<1>6. sample.kind = "sockets" => Converted(sample) = <<Written(sample.m), Written(sample.n), FastHash(sample.m), FastHash(sample.n)>>
  BY DEF Converted
<1> QED
  BY <1>1, <1>2, <1>3, <1>4, <1>5, <1>6, SMTT(30)

\* Sizes, percentages, times and sockets are converted as ConversionsAgree says.
LEMMA ConvertedAgree == ConvertedInv => ConversionsAgree
<1> SUFFICES ASSUME ConvertedInv PROVE ConversionsAgree
  BY SMTT(30)
<1>1. SizesReadRight
  <2> SUFFICES ASSUME shown # <<"nothing">>, sample.kind = "size" PROVE SizesReadRight
    BY DEF SizesReadRight, Shows
  <2>1. PICK size \in Nat : size = sample.size /\ Shifted(size + 1, 6) <= 16
    BY SampleKinds, GettersAssumption, SMTT(30)
  <2>2. Text[1] = FormatSize(size) /\ Text[2] = FormatSize(size + 1)
    BY <2>1, SampleKinds, SMTT(30)
  <2> QED
    BY <2>1, <2>2, SizeRight, SizesGrow, SMTT(30) DEF SizesReadRight
<1>2. PercentCoversUse
  <2> SUFFICES ASSUME shown # <<"nothing">>, sample.kind = "usage" PROVE PercentCoversUse
    BY ZenonT(30) DEF PercentCoversUse, Shows
  <2>1. PICK total \in Nat, free_ \in Nat, left \in Nat :
          /\ total = sample.usage[1] /\ free_ = sample.usage[2] /\ left = sample.usage[3] /\ free_ <= total
    BY SampleKinds, GettersAssumption, SMTT(30)
  <2>2. PICK used \in Nat, avail \in Nat : used = (total - free_) \div Kb /\ avail = left \div Kb
    <3>1. total - free_ \in Nat /\ Kb \in Nat \ {0}
      BY <2>1, FormatsAssumption, SMTT(30)
    <3>2. (total - free_) \div Kb \in Nat /\ left \div Kb \in Nat
      BY <3>1, Division, SMTT(30)
    <3> QED
      BY <3>2, SMTT(30)
  <2> SUFFICES ASSUME used + avail # 0
               PROVE  \E p \in 0..100 : Covers(p, used, avail) /\ Text = Float64(p)
    BY <2>1, <2>2, ZenonT(30) DEF PercentCoversUse
  <2>3. Text = Float64(RoundUp(used * 100, used + avail))
    <3>1. Text = UsePercent(sample.usage[1], sample.usage[2], sample.usage[3])
      BY ONLY SampleKinds, ConvertedInv, shown # <<"nothing">>, sample.kind = "usage", ZenonT(30)
    <3>2. Text = UsePercent(total, free_, left)
      BY ONLY <2>1, <3>1, ZenonT(30)
    <3>3. UsePercent(total, free_, left) =
            Float64(IF used + avail # 0 THEN RoundUp(used * 100, used + avail) ELSE 0)
      BY ONLY <2>2, ZenonT(30) DEF UsePercent
    <3> QED
      BY ONLY <3>2, <3>3, used + avail # 0, ZenonT(30)
  <2>4. PICK p \in Nat : /\ p = RoundUp(used * 100, used + avail) /\ p <= 100
                         /\ p * (used + avail) >= 100 * used
                         /\ p > 0 => (p - 1) * (used + avail) < 100 * used
    BY RoundUpFacts, ZenonT(30)
  <2>5. p \in 0..100
    BY <2>4, SMTT(30)
  <2> QED
    BY <2>3, <2>4, <2>5, ZenonT(30) DEF Covers
<1>3. UnitsAddUp
  <2> SUFFICES ASSUME shown # <<"nothing">>, sample.kind = "seconds" PROVE UnitsAddUp
    BY DEF UnitsAddUp, Shows
  <2>1. PICK n \in Nat : n = sample.n
    <3>1. sample.n \in Seconds
      BY ONLY SampleKinds, ConvertedInv, shown # <<"nothing">>, sample.kind = "seconds", SMTT(30)
    <3> QED
      BY ONLY <3>1, GettersAssumption, ZenonT(30)
  <2>2. Text[1] = UptimeFormat(n) /\ Text[2] = FormatTotal(1000 * n + 999)
    BY <2>1, SampleKinds, SMTT(30)
  <2>3. /\ Text[1].days * 86400 + Text[1].hours * 3600 + Text[1].minutes * 60 = 60 * (n \div 60)
        /\ Text[1].hours < 24
        /\ Text[2].hh * 3600 + Text[2].mm * 60 + Text[2].ss = n % 86400
    BY ONLY <2>2, n \in Nat, TimesAddUp, SMTT(30)
  <2> QED
    BY ONLY <2>1, <2>3, SMTT(30) DEF UnitsAddUp
<1>4. SocketsToldApart
  <2> SUFFICES ASSUME shown # <<"nothing">>, sample.kind = "sockets" PROVE SocketsToldApart
    BY SMTT(30) DEF SocketsToldApart, Shows
  <2>1. PICK m \in Sockets, n \in Sockets : m = sample.m /\ n = sample.n
    BY SampleKinds, GettersAssumption, SMTT(30)
  <2>2. /\ Text[1] = Written(m) /\ Text[2] = Written(n)
        /\ Text[3] = Sum64(Written(m)) /\ Text[4] = Sum64(Written(n))
    BY <2>1, SampleKinds, SMTT(30) DEF FastHash
  <2>3. (Text[1] = Text[2]) <=> /\ SubSeq(m.src, 1, Width(m)) = SubSeq(n.src, 1, Width(n))
                                /\ SubSeq(m.dst, 1, Width(m)) = SubSeq(n.dst, 1, Width(n))
                                /\ m.sport = n.sport /\ m.dport = n.dport
    BY ONLY <2>2, m \in Sockets, n \in Sockets, HashTellsApart, ZenonT(30)
  <2>4. Text[1] = Text[2] => Text[3] = Text[4]
    BY <2>2, ZenonT(30)
  <2> QED
    BY ONLY <2>1, <2>3, <2>4, ZenonT(30) DEF SocketsToldApart, Width
<1> QED
  BY <1>1, <1>2, <1>3, <1>4, SMTT(30) DEF ConversionsAgree

\* For every size of 64 bits, every usage of a file system, every time, every
\* pair of sockets, and whatever hash takes the place of FNV-1.  How far the
\* floating-point form of a percentage is from it is not part of this theorem.
THEOREM ConversionsAgreeAlways == GettersSpec => []ConversionsAgree
  BY ConvertedAlways, ConvertedAgree, PTL

=============================================================================
