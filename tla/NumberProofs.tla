----------------------------- MODULE NumberProofs -----------------------------
(***************************************************************************)
(* Proofs about numbers: the invariant of MemGetters, for any amount of    *)
(* memory and any word size, and what Formats prints of sizes, shares and  *)
(* times and joins of sockets.  GettersProofs draws the theorems from it.  *)
(***************************************************************************)
EXTENDS MemGetters, Formats, SequenceTheorems, TLAPS

-----------------------------------------------------------------------------
(* The getters of memory *)

Answers == [free : 0..Pages, inactive : 0..Pages, swap : 0..SwapPages]

FieldNamesOfMem == {"Total", "Free", "Used", "ActualFree", "ActualUsed"}

Mems == [FieldNamesOfMem -> 0..Word - 1]

\* The questions a running Get may have left.
StillToAsk ==
  [LinuxMem    |-> {<<"meminfo">>},
   LinuxSwap   |-> {<<"meminfo">>},
   DarwinMem   |-> {<<"memsize", "vm_info">>, <<"vm_info">>},
   DarwinSwap  |-> {<<"swapusage">>},
   FreeBSDMem  |-> {<<"page_count", "page_size", "free_count", "inactive_count">>,
                    <<"page_size", "free_count", "inactive_count">>,
                    <<"free_count", "inactive_count">>, <<"inactive_count">>},
   OpenBSDMem  |-> {<<"size", "uvmexp", "size", "bcachestat">>, <<"uvmexp", "size", "bcachestat">>,
                    <<"size", "bcachestat">>, <<"bcachestat">>},
   OpenBSDSwap |-> {<<"nswap", "swapstats">>, <<"swapstats">>},
   WindowsMem  |-> {<<"memorystatus">>},
   WindowsSwap |-> {<<"memorystatus">>}]

\* The answers are of one moment if they came together or if no page has moved.
AnswersFit ==
  /\ memGetter \in OneReading \/ ~moved => got.free + got.inactive <= Pages
  /\ memResult = "running" /\ ~moved => got.free \in {0, free} /\ got.inactive \in {0, inactive}

MemInv ==
  /\ MemTypeOK
  /\ memResult = "running" => asked \in StillToAsk[memGetter]
  /\ AnswersFit
  /\ memResult = "running" /\ memGetter = "OpenBSDSwap" /\ ~reused => mem = New
  /\ Balanced
  /\ NoWrap
  /\ MemSuccessIsCurrent

\* A number as an unsigned word.
LEMMA AsWord ==
  \A x \in Int :
    /\ x % Word \in 0..Word - 1
    /\ 0 <= x /\ x < Word => x % Word = x
    /\ x < 0 /\ -Word <= x => x % Word = x + Word
    /\ Word <= x /\ x < 2 * Word => x % Word = x - Word
  BY MemAssumption

\* A difference added to what was subtracted gives back the number, wrapped or not.
LEMMA MinusPlus ==
  ASSUME NEW a \in 0..Word - 1, NEW b \in 0..Word - 1
  PROVE  /\ Minus(a, b) \in 0..Word - 1 /\ Plus(a, b) \in 0..Word - 1
         /\ Plus(Minus(a, b), b) = a
         /\ b <= a => Minus(a, b) = a - b
         /\ a + b < Word => Plus(a, b) = a + b
<1>1. PICK w \in Nat : w = Word
  BY MemAssumption
<1>2. Minus(a, b) = IF b <= a THEN a - b ELSE a - b + w
  BY <1>1, AsWord, SMTT(30) DEF Minus
<1>3. \A c \in 0..w - 1 : Plus(c, b) = IF c + b < w THEN c + b ELSE c + b - w
  BY <1>1, AsWord, SMTT(30) DEF Plus
<1>4. PICK d \in 0..w - 1 : d = Minus(a, b) /\ d = IF b <= a THEN a - b ELSE a - b + w
  BY <1>1, <1>2
<1>5. Plus(d, b) = a
  BY <1>1, <1>3, <1>4
<1> QED
  BY <1>1, <1>2, <1>3, <1>4, <1>5

\* The fields taken from inactive pages counted as free.
LEMMA InactiveFreeFacts ==
  ASSUME NEW a \in Answers
  PROVE  /\ InactiveFree(a) \in Mems
         /\ Plus(InactiveFree(a).Used, InactiveFree(a).Free) = InactiveFree(a).Total
         /\ Plus(InactiveFree(a).ActualUsed, InactiveFree(a).ActualFree) = InactiveFree(a).Total
         /\ a.free + a.inactive <= Pages => \A f \in FieldNamesOfMem : InactiveFree(a)[f] <= InactiveFree(a).Total
<1>1. PICK x \in 0..Pages, y \in 0..Pages : x = a.free /\ y = a.inactive
  BY DEF Answers
<1>2. x \in 0..Word - 1 /\ y \in 0..Word - 1 /\ Pages \in 0..Word - 1 /\ x + y < Word /\ x <= Pages
  BY MemAssumption
<1>3. /\ Minus(Pages, x) = Pages - x /\ Pages - x \in 0..Word - 1
      /\ Plus(Minus(Pages, x), x) = Pages
      /\ Plus(x, y) = x + y /\ x + y \in 0..Word - 1
      /\ Minus(Pages - x, y) \in 0..Word - 1
      /\ y <= Pages - x => Minus(Pages - x, y) = Pages - x - y
  <2>1. Pages - x \in 0..Word - 1 /\ x + y \in 0..Word - 1
    BY <1>2, MemAssumption
  <2>2. Minus(Pages, x) = Pages - x /\ Plus(Minus(Pages, x), x) = Pages
    BY <1>2, MinusPlus
  <2>3. Plus(x, y) = x + y
    BY <1>2, MinusPlus
  <2>4. /\ Minus(Pages - x, y) \in 0..Word - 1
        /\ y <= Pages - x => Minus(Pages - x, y) = Pages - x - y
    BY <1>2, <2>1, MinusPlus
  <2> QED
    BY <2>1, <2>2, <2>3, <2>4
<1>4. Plus(Minus(Pages - x, y), x + y) = Pages
  BY <1>2, AsWord, MemAssumption DEF Minus, Plus
<1>5. InactiveFree(a) = [Total |-> Pages, Free |-> x, Used |-> Pages - x,
                         ActualFree |-> x + y, ActualUsed |-> Minus(Pages - x, y)]
  BY <1>1, <1>3 DEF InactiveFree
<1>6. x + y <= Pages => Minus(Pages - x, y) <= Pages
  BY <1>3, MemAssumption
<1> QED
  BY <1>1, <1>2, <1>3, <1>4, <1>5, <1>6, MemAssumption DEF Mems, FieldNamesOfMem

\* Linux and Windows.
LEMMA LinuxMemFacts ==
  ASSUME NEW a \in Answers, NEW available \in 0..Pages \cup {NoEstimate}
  PROVE  /\ LinuxMem(a, available) \in Mems
         /\ Plus(LinuxMem(a, available).Used, LinuxMem(a, available).Free) = LinuxMem(a, available).Total
         /\ Plus(LinuxMem(a, available).ActualUsed, LinuxMem(a, available).ActualFree) = LinuxMem(a, available).Total
         /\ a.free + a.inactive <= Pages =>
              \A f \in FieldNamesOfMem : LinuxMem(a, available)[f] <= LinuxMem(a, available).Total
<1>1. PICK x \in 0..Pages, y \in 0..Pages : x = a.free /\ y = a.inactive
  BY DEF Answers
<1>2. x \in 0..Word - 1 /\ y \in 0..Word - 1 /\ Pages \in 0..Word - 1 /\ x + y < Word /\ x <= Pages
  BY MemAssumption
<1> DEFINE actual == IF available # NoEstimate THEN available ELSE Plus(a.free, a.inactive)
<1>3. PICK z \in 0..Word - 1 : z = actual /\ (x + y <= Pages => z <= Pages)
  <2>1. Plus(a.free, a.inactive) = x + y /\ x + y \in 0..Word - 1
    <3>1. Plus(x, y) = x + y
      BY <1>2, MinusPlus
    <3>2. x + y \in 0..Word - 1
      BY <1>2, MemAssumption
    <3> QED
      BY <1>1, <3>1, <3>2, Zenon
  <2>2. CASE available = NoEstimate
    BY <2>1, <2>2
  <2>3. CASE available # NoEstimate
    BY <2>3, MemAssumption
  <2> QED
    BY <2>2, <2>3
<1>4. /\ Minus(Pages, x) = Pages - x /\ Pages - x \in 0..Word - 1
      /\ Plus(Pages - x, x) = Pages
      /\ Minus(Pages, z) \in 0..Word - 1 /\ Plus(Minus(Pages, z), z) = Pages
      /\ z <= Pages => Minus(Pages, z) = Pages - z
  <2>1. Minus(Pages, x) = Pages - x /\ Minus(Pages, x) \in 0..Word - 1 /\ Plus(Minus(Pages, x), x) = Pages
    BY ONLY <1>2, MinusPlus, Zenon
  <2>2. /\ Minus(Pages, z) \in 0..Word - 1 /\ Plus(Minus(Pages, z), z) = Pages
        /\ z <= Pages => Minus(Pages, z) = Pages - z
    BY ONLY <1>2, z \in 0..Word - 1, MinusPlus, Zenon
  <2> QED
    BY ONLY <2>1, <2>2, Zenon
<1>5. LinuxMem(a, available) = [Total |-> Pages, Free |-> x, Used |-> Pages - x,
                                ActualFree |-> z, ActualUsed |-> Minus(Pages, z)]
  <2>1. LinuxMem(a, available) = [Total |-> Pages, Free |-> a.free, Used |-> Minus(Pages, a.free),
                                  ActualFree |-> actual, ActualUsed |-> Minus(Pages, actual)]
    BY DEF LinuxMem
  <2> HIDE DEF actual
  <2> QED
    BY <1>1, <1>3, <1>4, <2>1
<1> HIDE DEF actual
<1>6. x + y <= Pages => Minus(Pages, z) <= Pages
  <2>1. z <= Pages => Pages - z <= Pages
    BY MemAssumption
  <2> QED
    BY <1>3, <1>4, <2>1
<1> QED
  BY <1>1, <1>2, <1>3, <1>4, <1>5, <1>6, MemAssumption DEF Mems, FieldNamesOfMem

LEMMA WindowsMemFacts ==
  ASSUME NEW a \in Answers
  PROVE  /\ WindowsMem(a) \in Mems
         /\ Plus(WindowsMem(a).Used, WindowsMem(a).Free) = WindowsMem(a).Total
         /\ Plus(WindowsMem(a).ActualUsed, WindowsMem(a).ActualFree) = WindowsMem(a).Total
         /\ a.free + a.inactive <= Pages => \A f \in FieldNamesOfMem : WindowsMem(a)[f] <= WindowsMem(a).Total
<1>1. PICK z \in 0..Word - 1 : z = a.free + a.inactive
  BY MemAssumption DEF Answers
<1>2. /\ Minus(Pages, z) \in 0..Word - 1 /\ Plus(Minus(Pages, z), z) = Pages
      /\ z <= Pages => Minus(Pages, z) = Pages - z
      /\ Pages \in 0..Word - 1
  BY MinusPlus, MemAssumption
<1>3. WindowsMem(a) = [Total |-> Pages, Free |-> z, Used |-> Minus(Pages, z),
                       ActualFree |-> z, ActualUsed |-> Minus(Pages, z)]
  BY <1>1 DEF WindowsMem
<1>4. z <= Pages => Minus(Pages, z) <= Pages
  BY <1>2, MemAssumption
<1> QED
  BY <1>1, <1>2, <1>3, <1>4, MemAssumption DEF Mems, FieldNamesOfMem

\* Swap space, of the systems that tell its size and use as a whole.
LEMMA SwapFacts ==
  ASSUME NEW a \in Answers, NEW m \in {SwapOf(a), DarwinSwap(a)}
  PROVE  /\ m \in Mems /\ Plus(m.Used, m.Free) = m.Total
         /\ \A f \in FieldNamesOfMem : m[f] <= m.Total
<1>1. PICK x \in 0..SwapPages : x = a.swap
  BY DEF Answers
<1>2. x \in 0..Word - 1 /\ SwapPages \in 0..Word - 1 /\ SwapPages - x \in 0..Word - 1 /\ 0 \in 0..Word - 1
  BY MemAssumption
<1>3. Minus(SwapPages, SwapPages - x) = x /\ Plus(x, SwapPages - x) = SwapPages
  BY <1>2, AsWord, MemAssumption DEF Minus, Plus
<1>4. m = [Total |-> SwapPages, Free |-> SwapPages - x, Used |-> x, ActualFree |-> 0, ActualUsed |-> 0]
  BY <1>1, <1>3, Zenon DEF SwapOf, DarwinSwap, New
<1> QED
  BY <1>2, <1>3, <1>4, MemAssumption DEF Mems, FieldNamesOfMem

\* The share of a device in the sums of OpenBSD's Swap.
LEMMA DeviceFacts ==
  ASSUME NEW d \in SwapDevices
  PROVE  /\ Kilobytes(d, d.inuse) \in Nat /\ Kilobytes(d, d.nblks) \in Nat
         /\ Kilobytes(d, d.inuse) <= Kilobytes(d, d.nblks)
         /\ Kilobytes(d, d.nblks) <= d.nblks /\ d.nblks \in Nat
<1>1. PICK x \in Nat, y \in Nat : x = d.inuse /\ y = d.nblks /\ x <= y
  BY MemAssumption DEF SwapDevices
<1>2. x \div 2 \in Nat /\ y \div 2 \in Nat /\ x \div 2 <= y \div 2 /\ y \div 2 <= y
  BY <1>1, SMT
<1> QED
  BY <1>1, <1>2 DEF Kilobytes

\* Swap space on OpenBSD, where what the receiver held counts too.
LEMMA OpenBSDSwapFacts ==
  ASSUME NEW a \in Answers, NEW r \in Mems, NEW t \in SwapTables(a), NEW m, m = OpenBSDSwap(t, r)
  PROVE  /\ m \in Mems /\ Plus(m.Used, m.Free) = m.Total
         /\ r = New => \A f \in FieldNamesOfMem : m[f] <= m.Total
<1>1. PICK u1 \in Nat, u2 \in Nat, n1 \in Nat, n2 \in Nat :
        /\ u1 = Kilobytes(t[1], t[1].inuse) /\ u2 = Kilobytes(t[2], t[2].inuse)
        /\ n1 = Kilobytes(t[1], t[1].nblks) /\ n2 = Kilobytes(t[2], t[2].nblks)
        /\ u1 <= n1 /\ u2 <= n2 /\ n1 + n2 <= SwapPages
  <2>1. /\ t[1] \in SwapDevices /\ t[2] \in SwapDevices
        /\ t[1].nblks + t[2].nblks = SwapPages
    BY DEF SwapTables
  <2>2. PICK d \in SwapDevices, e \in SwapDevices : d = t[1] /\ e = t[2] /\ d.nblks + e.nblks = SwapPages
    BY <2>1
  <2>3. Kilobytes(d, d.nblks) + Kilobytes(e, e.nblks) <= SwapPages
    BY <2>2, DeviceFacts, SMT
  <2> QED
    BY <2>2, <2>3, DeviceFacts, SMTT(30)
<1>2. u1 \in 0..Word - 1 /\ u2 \in 0..Word - 1 /\ n1 \in 0..Word - 1 /\ n2 \in 0..Word - 1
  BY <1>1, MemAssumption
<1>3. PICK total \in 0..Word - 1, used \in 0..Word - 1 :
        total = Plus(Plus(r.Total, n1), n2) /\ used = Plus(Plus(r.Used, u1), u2)
  <2>1. r.Total \in 0..Word - 1 /\ r.Used \in 0..Word - 1
    BY DEF Mems, FieldNamesOfMem
  <2>2. Plus(r.Total, n1) \in 0..Word - 1 /\ Plus(r.Used, u1) \in 0..Word - 1
    BY <1>2, <2>1, MinusPlus, Zenon
  <2>3. Plus(Plus(r.Total, n1), n2) \in 0..Word - 1 /\ Plus(Plus(r.Used, u1), u2) \in 0..Word - 1
    BY <1>2, <2>2, MinusPlus, Zenon
  <2> QED
    BY <2>3
<1>4. m = [Total |-> total, Free |-> Minus(total, used), Used |-> used, ActualFree |-> 0, ActualUsed |-> 0]
  BY <1>1, <1>3, Zenon DEF OpenBSDSwap, New
<1>5. /\ Minus(total, used) \in 0..Word - 1
      /\ Plus(Minus(total, used), used) = total
      /\ Plus(used, Minus(total, used)) = Plus(Minus(total, used), used)
  BY MinusPlus, MemAssumption DEF Plus
<1>6. ASSUME r = New PROVE used <= total /\ Minus(total, used) <= total
  <2>1. n1 + n2 \in 0..Word - 1 /\ u1 + u2 \in 0..Word - 1
    BY <1>1, MemAssumption
  <2>2. Plus(0, n1) = n1 /\ Plus(0, u1) = u1 /\ Plus(n1, n2) = n1 + n2 /\ Plus(u1, u2) = u1 + u2
    BY <1>2, <2>1, AsWord, MemAssumption, SMTT(30) DEF Plus
  <2>3. total = n1 + n2 /\ used = u1 + u2
    BY <1>3, <1>6, <2>2 DEF New
  <2>4. total - used \in 0..Word - 1 /\ used <= total
    BY <1>1, <2>1, <2>3, MemAssumption
  <2>5. Minus(total, used) = total - used
    BY <2>4, AsWord, MemAssumption DEF Minus
  <2> QED
    BY <2>3, <2>4, <2>5, <2>1
<1>7. m \in Mems /\ Plus(m.Used, m.Free) = m.Total
  BY <1>4, <1>5, MemAssumption DEF Mems, FieldNamesOfMem
<1> QED
  BY <1>4, <1>6, <1>7, MemAssumption DEF FieldNamesOfMem

\* What every Get computes.
LEMMA FillFacts ==
  ASSUME NEW g \in MemGets, NEW a \in Answers, NEW r \in Mems, NEW m \in Fill(g, a, r)
  PROVE  /\ m \in Mems
         /\ Plus(m.Used, m.Free) = m.Total
         /\ g \notin SwapGetters => Plus(m.ActualUsed, m.ActualFree) = m.Total
         /\ a.free + a.inactive <= Pages /\ (g = "OpenBSDSwap" => r = New) =>
              \A f \in FieldNamesOfMem : m[f] <= m.Total
         /\ g # "OpenBSDSwap" => m \in Fill(g, a, New)
<1>1. g \in {"LinuxMem", "LinuxSwap", "DarwinMem", "DarwinSwap", "FreeBSDMem", "OpenBSDMem",
             "OpenBSDSwap", "WindowsMem", "WindowsSwap"}
  BY DEF MemGets, Questions
<1>2. CASE g = "LinuxMem"
  <2>1. PICK available \in 0..Pages \cup {NoEstimate} : m = LinuxMem(a, available)
    BY <1>2 DEF Fill
  <2>2. m \in Fill(g, a, New)
    BY <1>2 DEF Fill
  <2> QED
    BY <1>2, <2>1, <2>2, LinuxMemFacts
<1>3. CASE g \in {"DarwinMem", "FreeBSDMem", "OpenBSDMem"}
  <2>1. m = InactiveFree(a) /\ m \in Fill(g, a, New)
    BY <1>3 DEF Fill, DarwinMem, FreeBSDMem, OpenBSDMem
  <2> QED
    BY <1>3, <2>1, InactiveFreeFacts
<1>4. CASE g = "WindowsMem"
  <2>1. m = WindowsMem(a) /\ m \in Fill(g, a, New)
    BY <1>4 DEF Fill
  <2> QED
    BY <1>4, <2>1, WindowsMemFacts
<1>5. CASE g \in {"LinuxSwap", "WindowsSwap", "DarwinSwap"}
  <2>1. m \in {SwapOf(a), DarwinSwap(a)} /\ m \in Fill(g, a, New)
    BY <1>5 DEF Fill, LinuxSwap, WindowsSwap
  <2>2. g \in SwapGetters
    BY <1>5 DEF SwapGetters
  <2> QED
    BY <2>1, <2>2, SwapFacts
<1>6. CASE g = "OpenBSDSwap"
  <2>1. PICK t \in SwapTables(a) : m = OpenBSDSwap(t, r)
    BY <1>6 DEF Fill
  <2>2. g \in SwapGetters
    BY <1>6 DEF SwapGetters
  <2> QED
    BY <1>6, <2>1, <2>2, OpenBSDSwapFacts
<1> QED
  BY <1>1, <1>2, <1>3, <1>4, <1>5, <1>6

Together == {"meminfo", "vm_info", "memorystatus"}

Halves == {"free_count", "uvmexp", "inactive_count", "bcachestat"}

Others == {"memsize", "swapusage", "page_count", "page_size", "size", "nswap", "swapstats"}

\* The head and the tail of short sequences.
LEMMA ShortTuples ==
  ASSUME NEW a, NEW b, NEW c, NEW d
  PROVE  /\ Len(<<a>>) = 1 /\ Head(<<a>>) = a /\ Tail(<<a>>) = <<>> /\ <<a>> # <<>>
         /\ Len(<<a, b>>) = 2 /\ Head(<<a, b>>) = a /\ Tail(<<a, b>>) = <<b>> /\ <<a, b>> # <<>>
         /\ Len(<<a, b, c>>) = 3 /\ Head(<<a, b, c>>) = a /\ Tail(<<a, b, c>>) = <<b, c>>
         /\ <<a, b, c>> # <<>>
         /\ Len(<<a, b, c, d>>) = 4 /\ Head(<<a, b, c, d>>) = a /\ Tail(<<a, b, c, d>>) = <<b, c, d>>
         /\ <<a, b, c, d>> # <<>>
  OBVIOUS

\* The next question of a running Get and those that follow it.
LEMMA NextQuestion ==
  ASSUME NEW g \in MemGets, NEW q \in StillToAsk[g]
  PROVE  /\ Len(q) = 1 => Tail(q) = <<>>
         /\ Len(q) # 1 => Tail(q) \in StillToAsk[g]
         /\ Head(q) \in Together \cup Halves \cup Others
         /\ g \in OneReading => Head(q) \notin Halves
         /\ g = "OpenBSDSwap" => Head(q) \in {"nswap", "swapstats"}
         /\ q # <<>>
<1>1. g \in {"LinuxMem", "LinuxSwap", "DarwinMem", "DarwinSwap", "FreeBSDMem", "OpenBSDMem",
             "OpenBSDSwap", "WindowsMem", "WindowsSwap"}
  BY DEF MemGets, Questions
<1>2. CASE g \in {"LinuxMem", "LinuxSwap"}
  <2>1. q = <<"meminfo">>
    BY <1>2 DEF StillToAsk
  <2> QED
    BY <1>2, <2>1, ShortTuples DEF Together, Halves, Others
<1>3. CASE g = "DarwinMem"
  <2>1. StillToAsk[g] = {<<"memsize", "vm_info">>,
                         <<"vm_info">>}
    BY <1>3 DEF StillToAsk
  <2>2. CASE q = <<"memsize", "vm_info">>
    <3>1. Len(q) = 2 /\ Head(q) = "memsize" /\ Tail(q) = <<"vm_info">> /\ q # <<>>
      BY ONLY <2>2, ShortTuples
    <3> QED
      BY <1>3, <2>1, <3>1 DEF Together, Halves, Others
  <2>3. CASE q = <<"vm_info">>
    <3>1. Len(q) = 1 /\ Head(q) = "vm_info" /\ Tail(q) = <<>> /\ q # <<>>
      BY ONLY <2>3, ShortTuples
    <3> QED
      BY <1>3, <2>1, <3>1 DEF Together, Halves, Others
  <2> QED
    BY <2>1, <2>2, <2>3
<1>4. CASE g = "DarwinSwap"
  <2>1. q = <<"swapusage">>
    BY <1>4 DEF StillToAsk
  <2> QED
    BY <1>4, <2>1, ShortTuples DEF Together, Halves, Others
<1>5. CASE g = "FreeBSDMem"
  <2>1. StillToAsk[g] = {<<"page_count", "page_size", "free_count", "inactive_count">>,
                         <<"page_size", "free_count", "inactive_count">>,
                         <<"free_count", "inactive_count">>,
                         <<"inactive_count">>}
    BY <1>5 DEF StillToAsk
  <2>2. g \notin OneReading
    BY <1>5 DEF OneReading
  <2>3. CASE q = <<"page_count", "page_size", "free_count", "inactive_count">>
    <3>1. Len(q) = 4 /\ Head(q) = "page_count" /\ Tail(q) = <<"page_size", "free_count", "inactive_count">> /\ q # <<>>
      BY ONLY <2>3, ShortTuples
    <3> QED
      BY <1>5, <2>1, <2>2, <3>1 DEF Together, Halves, Others
  <2>4. CASE q = <<"page_size", "free_count", "inactive_count">>
    <3>1. Len(q) = 3 /\ Head(q) = "page_size" /\ Tail(q) = <<"free_count", "inactive_count">> /\ q # <<>>
      BY ONLY <2>4, ShortTuples
    <3> QED
      BY <1>5, <2>1, <2>2, <3>1 DEF Together, Halves, Others
  <2>5. CASE q = <<"free_count", "inactive_count">>
    <3>1. Len(q) = 2 /\ Head(q) = "free_count" /\ Tail(q) = <<"inactive_count">> /\ q # <<>>
      BY ONLY <2>5, ShortTuples
    <3> QED
      BY <1>5, <2>1, <2>2, <3>1 DEF Together, Halves, Others
  <2>6. CASE q = <<"inactive_count">>
    <3>1. Len(q) = 1 /\ Head(q) = "inactive_count" /\ Tail(q) = <<>> /\ q # <<>>
      BY ONLY <2>6, ShortTuples
    <3> QED
      BY <1>5, <2>1, <2>2, <3>1 DEF Together, Halves, Others
  <2> QED
    BY <2>1, <2>3, <2>4, <2>5, <2>6
<1>6. CASE g = "OpenBSDMem"
  <2>1. StillToAsk[g] = {<<"size", "uvmexp", "size", "bcachestat">>,
                         <<"uvmexp", "size", "bcachestat">>,
                         <<"size", "bcachestat">>,
                         <<"bcachestat">>}
    BY <1>6 DEF StillToAsk
  <2>2. g \notin OneReading
    BY <1>6 DEF OneReading
  <2>3. CASE q = <<"size", "uvmexp", "size", "bcachestat">>
    <3>1. Len(q) = 4 /\ Head(q) = "size" /\ Tail(q) = <<"uvmexp", "size", "bcachestat">> /\ q # <<>>
      BY ONLY <2>3, ShortTuples
    <3> QED
      BY <1>6, <2>1, <2>2, <3>1 DEF Together, Halves, Others
  <2>4. CASE q = <<"uvmexp", "size", "bcachestat">>
    <3>1. Len(q) = 3 /\ Head(q) = "uvmexp" /\ Tail(q) = <<"size", "bcachestat">> /\ q # <<>>
      BY ONLY <2>4, ShortTuples
    <3> QED
      BY <1>6, <2>1, <2>2, <3>1 DEF Together, Halves, Others
  <2>5. CASE q = <<"size", "bcachestat">>
    <3>1. Len(q) = 2 /\ Head(q) = "size" /\ Tail(q) = <<"bcachestat">> /\ q # <<>>
      BY ONLY <2>5, ShortTuples
    <3> QED
      BY <1>6, <2>1, <2>2, <3>1 DEF Together, Halves, Others
  <2>6. CASE q = <<"bcachestat">>
    <3>1. Len(q) = 1 /\ Head(q) = "bcachestat" /\ Tail(q) = <<>> /\ q # <<>>
      BY ONLY <2>6, ShortTuples
    <3> QED
      BY <1>6, <2>1, <2>2, <3>1 DEF Together, Halves, Others
  <2> QED
    BY <2>1, <2>3, <2>4, <2>5, <2>6
<1>7. CASE g = "OpenBSDSwap"
  <2>1. StillToAsk[g] = {<<"nswap", "swapstats">>,
                         <<"swapstats">>}
    BY <1>7 DEF StillToAsk
  <2>2. CASE q = <<"nswap", "swapstats">>
    <3>1. Len(q) = 2 /\ Head(q) = "nswap" /\ Tail(q) = <<"swapstats">> /\ q # <<>>
      BY ONLY <2>2, ShortTuples
    <3> QED
      BY <1>7, <2>1, <3>1 DEF Together, Halves, Others
  <2>3. CASE q = <<"swapstats">>
    <3>1. Len(q) = 1 /\ Head(q) = "swapstats" /\ Tail(q) = <<>> /\ q # <<>>
      BY ONLY <2>3, ShortTuples
    <3> QED
      BY <1>7, <2>1, <3>1 DEF Together, Halves, Others
  <2> QED
    BY <2>1, <2>2, <2>3
<1>8. CASE g \in {"WindowsMem", "WindowsSwap"}
  <2>1. q = <<"memorystatus">>
    BY <1>8 DEF StillToAsk
  <2> QED
    BY <1>8, <2>1, ShortTuples DEF Together, Halves, Others
<1> QED
  BY <1>1, <1>2, <1>3, <1>4, <1>5, <1>6, <1>7, <1>8

\* The answer to it.
LEMMA AnswerFacts ==
  ASSUME MemInv, NEW q \in Together \cup Halves \cup Others
  PROVE  /\ Answer(q) \in Answers
         /\ Answer(q).free \in {got.free, free} /\ Answer(q).inactive \in {got.inactive, inactive}
         /\ q \in Together => Answer(q).free = free /\ Answer(q).inactive = inactive
         /\ q \in Others => Answer(q).free = got.free /\ Answer(q).inactive = got.inactive
<1>1. got \in Answers /\ free \in 0..Pages /\ inactive \in 0..Pages /\ swapUsed \in 0..SwapPages
  BY MemAssumption DEF MemInv, MemTypeOK, Answers
<1>2. CASE q \in Together
  <2>1. Answer(q) = [got EXCEPT !.free = free, !.inactive = inactive, !.swap = swapUsed]
    BY <1>2 DEF Answer, Together
  <2> QED
    BY <1>1, <1>2, <2>1, Zenon DEF Answers, Together, Others
<1>3. CASE q \in Halves
  <2>1. Answer(q) \in {[got EXCEPT !.free = free], [got EXCEPT !.inactive = inactive]}
    BY <1>3 DEF Answer, Halves
  <2>2. q \notin Together /\ q \notin Others
    BY <1>3 DEF Halves, Together, Others
  <2> QED
    BY <1>1, <2>1, <2>2 DEF Answers
<1>4. CASE q \in Others
  <2>1. Answer(q) \in {[got EXCEPT !.swap = swapUsed], got}
    BY <1>4 DEF Answer, Others
  <2>2. q \notin Together
    BY <1>4 DEF Together, Others
  <2> QED
    BY <1>1, <2>1, <2>2 DEF Answers
<1> QED
  BY <1>2, <1>3, <1>4

\* A receiver's fields by name.
LEMMA MemFieldNames == DOMAIN New = FieldNamesOfMem /\ New \in Mems
  BY MemAssumption DEF New, FieldNamesOfMem, Mems

\* The program starts with a new receiver.
LEMMA MemInitially == MemInit => MemInv
<1> SUFFICES ASSUME MemInit PROVE MemInv
  OBVIOUS
<1>1. MemTypeOK
  <2>1. free \in 0..Pages /\ inactive \in 0..Pages - free /\ swapUsed \in 0..SwapPages
    BY MemAssumption DEF MemInit
  <2>2. got \in [free : 0..Pages, inactive : 0..Pages, swap : 0..SwapPages]
    BY MemAssumption DEF MemInit
  <2>3. mem \in [DOMAIN New -> 0..Word - 1]
    BY MemFieldNames DEF MemInit, Mems
  <2> QED
    BY <2>1, <2>2, <2>3, Zenon DEF MemInit, MemTypeOK
<1>2. AnswersFit
  BY MemAssumption DEF MemInit, AnswersFit
<1> QED
  BY <1>1, <1>2 DEF MemInit, MemInv, Balanced, NoWrap, MemSuccessIsCurrent

\* A Get is called.
LEMMA CallMemKeeps == ASSUME MemInv, NEW g \in MemGets, CallMem(g) PROVE MemInv'
<1>1. /\ memGetter' = g /\ asked' = Questions[g] /\ memResult' = "running" /\ filled' = FALSE /\ moved' = FALSE
      /\ got' = [free |-> 0, inactive |-> 0, swap |-> 0]
      /\ free' = free /\ inactive' = inactive /\ swapUsed' = swapUsed
  BY DEF CallMem, memHost
<1>2. mem' \in Mems /\ reused' \in BOOLEAN /\ (~reused' => mem' = New)
  <2>1. CASE mem' = New /\ reused' = FALSE
    BY <2>1, MemFieldNames, Zenon
  <2>2. CASE reused' = (mem # New) /\ UNCHANGED mem
    <3>1. reused' \in BOOLEAN /\ (reused' <=> mem # New)
      BY <2>2, Zenon
    <3> QED
      BY <2>2, <3>1, MemFieldNames DEF MemInv, MemTypeOK, Mems
  <2> QED
    BY <2>1, <2>2, Zenon DEF CallMem
<1>3. Questions[g] \in StillToAsk[g] /\ Questions[g] # <<>>
  <2>1. Questions[g] \in StillToAsk[g]
    BY DEF MemGets, Questions, StillToAsk
  <2> QED
    BY <2>1, NextQuestion
<1>4. MemTypeOK'
  <2>1. got' \in [free : 0..Pages, inactive : 0..Pages, swap : 0..SwapPages]
    BY <1>1, MemAssumption
  <2>2. mem' \in [DOMAIN New -> 0..Word - 1]
    BY <1>2, MemFieldNames DEF Mems
  <2> QED
    BY <1>1, <1>2, <1>3, <2>1, <2>2, Zenon DEF MemInv, MemTypeOK
<1>5. AnswersFit'
  BY <1>1, MemAssumption DEF AnswersFit
<1> QED
  BY <1>1, <1>2, <1>3, <1>4, <1>5 DEF MemInv, Balanced, NoWrap, MemSuccessIsCurrent

\* A question is answered.
LEMMA AskKeeps == ASSUME MemInv, Ask PROVE MemInv'
<1> DEFINE q == Head(asked)
<1>1. /\ memResult = "running" /\ got' = Answer(q) /\ asked' = Tail(asked)
      /\ memGetter' = memGetter /\ moved' = moved /\ reused' = reused
      /\ free' = free /\ inactive' = inactive /\ swapUsed' = swapUsed
  BY DEF Ask, memHost
<1>2. /\ memGetter \in MemGets /\ asked \in StillToAsk[memGetter] /\ filled = FALSE
      /\ {filled, moved, reused} \subseteq BOOLEAN
  BY <1>1 DEF MemInv, MemTypeOK
<1>3. /\ Len(asked) = 1 => Tail(asked) = <<>>
      /\ Len(asked) # 1 => Tail(asked) \in StillToAsk[memGetter] /\ Tail(asked) # <<>>
      /\ q \in Together \cup Halves \cup Others
      /\ memGetter \in OneReading => q \notin Halves
      /\ memGetter = "OpenBSDSwap" => q \in {"nswap", "swapstats"}
  BY <1>2, NextQuestion, Zenon
<1>4. /\ Answer(q) \in Answers
      /\ Answer(q).free \in {got.free, free} /\ Answer(q).inactive \in {got.inactive, inactive}
      /\ q \in Together => Answer(q).free = free /\ Answer(q).inactive = inactive
      /\ q \in Others => Answer(q).free = got.free /\ Answer(q).inactive = got.inactive
  BY <1>3, AnswerFacts
<1>5. free \in 0..Pages /\ inactive \in 0..Pages /\ free + inactive <= Pages /\ got \in Answers
  BY MemAssumption DEF MemInv, MemTypeOK, Answers
<1>6. AnswersFit'
  <2>1. memGetter \in OneReading \/ ~moved => Answer(q).free + Answer(q).inactive <= Pages
    <3>1. CASE memGetter \in OneReading
      <4>1. got.free + got.inactive <= Pages
        BY <3>1 DEF MemInv, AnswersFit
      <4>2. q \in Together \/ q \in Others
        BY <1>3, <3>1
      <4> QED
        BY <1>4, <1>5, <4>1, <4>2
    <3>2. CASE ~moved
      <4>1. got.free \in {0, free} /\ got.inactive \in {0, inactive}
        BY <1>1, <3>2 DEF MemInv, AnswersFit
      <4>2. PICK x \in {0, free}, y \in {0, inactive} : x = Answer(q).free /\ y = Answer(q).inactive
        BY <1>4, <4>1
      <4>3. x + y <= Pages
        BY <1>5, MemAssumption
      <4> QED
        BY <4>2, <4>3, Zenon
    <3> QED
      BY <3>1, <3>2
  <2>2. ~moved => Answer(q).free \in {0, free} /\ Answer(q).inactive \in {0, inactive}
    BY <1>1, <1>4 DEF MemInv, AnswersFit
  <2> QED
    BY <1>1, <2>1, <2>2 DEF AnswersFit
<1>7. mem \in Mems
  BY MemFieldNames DEF MemInv, MemTypeOK, Mems
<1> HIDE DEF q
<1>8. CASE Len(asked) = 1
  <2>1. mem' \in Fill(memGetter, Answer(q), mem) /\ memResult' = "ok" /\ filled' = TRUE
    BY <1>1, <1>8 DEF Ask
  <2>2. /\ mem' \in Mems
        /\ Plus(mem'.Used, mem'.Free) = mem'.Total
        /\ memGetter \notin SwapGetters => Plus(mem'.ActualUsed, mem'.ActualFree) = mem'.Total
        /\ Answer(q).free + Answer(q).inactive <= Pages /\ (memGetter = "OpenBSDSwap" => mem = New) =>
             \A f \in FieldNamesOfMem : mem'[f] <= mem'.Total
        /\ memGetter # "OpenBSDSwap" => mem' \in Fill(memGetter, Answer(q), New)
    BY <1>2, <1>4, <1>7, <2>1, FillFacts
  <2>3. MemTypeOK'
    BY <1>1, <1>2, <1>3, <1>4, <1>8, <2>1, <2>2, MemFieldNames, Zenon DEF MemInv, MemTypeOK, Mems, Answers
  <2>4. Balanced'
    BY <1>1, <2>2 DEF Balanced
  <2>5. NoWrap'
    <3> SUFFICES ASSUME ~reused, memGetter \in OneReading \/ ~moved
                 PROVE  \A f \in FieldNamesOfMem : mem'[f] <= mem'.Total
      BY <1>1, MemFieldNames DEF NoWrap
    <3>1. Answer(q).free + Answer(q).inactive <= Pages
      BY <1>1, <1>6 DEF AnswersFit
    <3>2. memGetter = "OpenBSDSwap" => mem = New
      BY <1>1 DEF MemInv
    <3> QED
      BY <2>2, <3>1, <3>2, SMTT(30)
  <2>6. MemSuccessIsCurrent'
    <3>1. memGetter \notin Silent => memGetter # "OpenBSDSwap"
      BY DEF Silent
    <3>2. Fill(memGetter', got', New) = Fill(memGetter, Answer(q), New)
      BY <1>1
    <3> QED
      BY <1>1, <2>1, <2>2, <3>1, <3>2 DEF MemSuccessIsCurrent
  <2> QED
    BY <1>6, <2>1, <2>3, <2>4, <2>5, <2>6 DEF MemInv
<1>9. CASE Len(asked) # 1
  <2>1. mem' = Early(q, Answer(q)) /\ memResult' = "running" /\ filled' = FALSE
    BY <1>1, <1>2, <1>9 DEF Ask, q
  <2>2. Early(q, Answer(q)) \in {mem, [mem EXCEPT !.Total = Pages], [mem EXCEPT !.Free = Answer(q).free]}
    BY DEF Early
  <2>3. Pages \in 0..Word - 1 /\ Answer(q).free \in 0..Word - 1
    BY <1>4, <1>5, MemAssumption DEF Answers
  <2>4. mem' \in Mems
    BY <1>7, <2>1, <2>2, <2>3 DEF Mems
  <2>5. MemTypeOK'
    BY <1>1, <1>2, <1>3, <1>4, <1>9, <2>1, <2>4, MemFieldNames, Zenon DEF MemInv, MemTypeOK, Mems, Answers
  <2>6. memGetter = "OpenBSDSwap" => mem' = mem
    BY <1>3, <2>1 DEF Early
  <2>7. memGetter = "OpenBSDSwap" /\ ~reused => mem' = New
    BY <1>1, <2>6 DEF MemInv
  <2> QED
    BY <1>1, <1>3, <1>6, <1>9, <2>1, <2>5, <2>7 DEF MemInv, Balanced, NoWrap, MemSuccessIsCurrent
<1> QED
  BY <1>8, <1>9

\* The kernel refuses.
LEMMA RefuseKeeps == ASSUME MemInv, Refuse PROVE MemInv'
<1>1. /\ memResult = "running" /\ memResult' = IF memGetter \in Silent THEN "ok" ELSE "error"
      /\ asked' = <<>>
      /\ UNCHANGED <<free, inactive, swapUsed, memGetter, got, mem, filled, moved, reused>>
  BY DEF Refuse, memHost
<1>2. filled = FALSE
  BY <1>1 DEF MemInv, MemTypeOK
<1>3. MemTypeOK'
  BY <1>1, <1>2 DEF MemInv, MemTypeOK
<1>4. AnswersFit'
  BY <1>1 DEF MemInv, AnswersFit
<1> QED
  BY <1>1, <1>2, <1>3, <1>4 DEF MemInv, Balanced, NoWrap, MemSuccessIsCurrent

\* A page moves.
LEMMA MoveKeeps == ASSUME MemInv, Move PROVE MemInv'
<1>1. /\ moved' = TRUE
      /\ UNCHANGED <<memGetter, asked, got, mem, memResult, filled, reused>>
  BY DEF Move, memCall
<1>2. free \in 0..Pages /\ inactive \in 0..Pages - free /\ swapUsed \in 0..SwapPages
  BY DEF MemInv, MemTypeOK
<1>3. free' \in 0..Pages /\ inactive' \in 0..Pages - free' /\ swapUsed' \in 0..SwapPages
  BY <1>2, MemAssumption DEF Move
<1>4. MemTypeOK'
  BY <1>1, <1>3 DEF MemInv, MemTypeOK
<1>5. AnswersFit'
  BY <1>1 DEF MemInv, AnswersFit
<1>6. moved \in BOOLEAN
  BY DEF MemInv, MemTypeOK
<1>7. Balanced' /\ NoWrap'
  BY <1>1, <1>6 DEF MemInv, Balanced, NoWrap
<1>8. MemSuccessIsCurrent'
  <2>1. Fill(memGetter', got', New) = Fill(memGetter, got, New)
    BY <1>1
  <2> QED
    BY <1>1, <2>1 DEF MemInv, MemSuccessIsCurrent
<1> QED
  BY <1>1, <1>4, <1>5, <1>7, <1>8 DEF MemInv

\* MemInv is inductive.
LEMMA MemStep == MemInv /\ [MemNext]_memVars => MemInv'
<1> SUFFICES ASSUME MemInv, [MemNext]_memVars PROVE MemInv'
  OBVIOUS
<1>1. CASE MemNext
  BY <1>1, CallMemKeeps, AskKeeps, RefuseKeeps, MoveKeeps DEF MemNext
<1>2. CASE UNCHANGED memVars
  <2>1. UNCHANGED <<free, inactive, swapUsed, memGetter, asked, got, mem, memResult, filled, reused, moved>>
    BY <1>2 DEF memVars, memHost, memCall
  <2>2. MemTypeOK' /\ AnswersFit' /\ Balanced' /\ NoWrap'
    BY <2>1 DEF MemInv, MemTypeOK, AnswersFit, Balanced, NoWrap
  <2>3. Fill(memGetter', got', New) = Fill(memGetter, got, New)
    BY <2>1
  <2>4. MemSuccessIsCurrent'
    BY <2>1, <2>3 DEF MemInv, MemSuccessIsCurrent
  <2> QED
    BY <2>1, <2>2, <2>4 DEF MemInv
<1> QED
  BY <1>1, <1>2

-----------------------------------------------------------------------------
(* Formats *)

\* A function on 1..n is a sequence of length n.
LEMMA NumberSeq ==
  ASSUME NEW n \in Nat, NEW f \in [1..n -> Nat]
  PROVE  f \in Seq(Nat) /\ Len(f) = n
  OBVIOUS

\* Division with a remainder.
LEMMA Division ==
  ASSUME NEW n \in Nat, NEW d \in Nat \ {0}
  PROVE  n \div d \in Nat /\ n % d \in 0..d - 1 /\ n = d * (n \div d) + (n % d)
  OBVIOUS

\* One division by 1024.
LEMMA Shift ==
  ASSUME NEW n \in Nat
  PROVE  n \div 1024 \in Nat /\ n % 1024 \in Nat /\ n % 1024 < 1024 /\ n = 1024 * (n \div 1024) + (n % 1024)
  BY SMT

\* The rounds of the loop.
LEMMA Rounds ==
  ASSUME NEW size \in Nat
  PROVE  /\ Shifted(size, 0) = size
         /\ \A o \in 0..6 : Shifted(size, o) \in Nat
         /\ \A o \in 1..6 : Shifted(size, o) = Shifted(size, o - 1) \div 1024
<1> DEFINE Round(x) == x \div 1024
<1>1. PICK k \in Nat, m \in Nat, g \in Nat, t \in Nat, p \in Nat, e \in Nat :
        /\ k = Round(size) /\ m = Round(k) /\ g = Round(m)
        /\ t = Round(g) /\ p = Round(t) /\ e = Round(p)
  BY SMTT(30)
<1>2. \A o : Shifted(size, o) = <<size, k, m, g, t, p, e>>[o + 1]
  BY <1>1, SMTT(30) DEF Shifted
<1>3. /\ Shifted(size, 0) = size /\ Shifted(size, 1) = k /\ Shifted(size, 2) = m /\ Shifted(size, 3) = g
      /\ Shifted(size, 4) = t /\ Shifted(size, 5) = p /\ Shifted(size, 6) = e
  BY <1>2, SMT
<1>4. \A o \in 0..6 : o = 0 \/ o = 1 \/ o = 2 \/ o = 3 \/ o = 4 \/ o = 5 \/ o = 6
  BY SMT
<1>5. \A o \in 1..6 : o = 1 \/ o = 2 \/ o = 3 \/ o = 4 \/ o = 5 \/ o = 6
  BY SMT
<1>6. ASSUME NEW o \in 0..6 PROVE Shifted(size, o) \in Nat
  BY <1>3, <1>4, SMT
<1> HIDE DEF Round
<1>7. ASSUME NEW o \in 1..6 PROVE Shifted(size, o) = Round(Shifted(size, o - 1))
  <2>1. Shifted(size, 1) = Round(Shifted(size, 0)) /\ Shifted(size, 2) = Round(Shifted(size, 1))
    BY ONLY <1>1, <1>3, Zenon
  <2>2. Shifted(size, 3) = Round(Shifted(size, 2)) /\ Shifted(size, 4) = Round(Shifted(size, 3))
    BY ONLY <1>1, <1>3, Zenon
  <2>3. Shifted(size, 5) = Round(Shifted(size, 4)) /\ Shifted(size, 6) = Round(Shifted(size, 5))
    BY ONLY <1>1, <1>3, Zenon
  <2>4. CASE o = 1
    BY ONLY <2>1, <2>4, SMT
  <2>5. CASE o = 2
    BY ONLY <2>1, <2>5, SMT
  <2>6. CASE o = 3
    BY ONLY <2>2, <2>6, SMT
  <2>7. CASE o = 4
    BY ONLY <2>2, <2>7, SMT
  <2>8. CASE o = 5
    BY ONLY <2>3, <2>8, SMT
  <2>9. CASE o = 6
    BY ONLY <2>3, <2>9, SMT
  <2> QED
    BY ONLY <1>5, o \in 1..6, <2>4, <2>5, <2>6, <2>7, <2>8, <2>9, ZenonT(30)
<1> QED
  BY <1>3, <1>6, <1>7 DEF Round

\* The units.
LEMMA Units ==
  /\ Unit(0) = 1
  /\ \A o \in 0..6 : Unit(o) \in Nat \ {0}
  /\ \A o \in 1..6 : Unit(o) = 1024 * Unit(o - 1)
<1>1. /\ Unit(0) = 1 /\ Unit(1) = 1024 * Unit(0) /\ Unit(2) = 1024 * Unit(1) /\ Unit(3) = 1024 * Unit(2)
      /\ Unit(4) = 1024 * Unit(3) /\ Unit(5) = 1024 * Unit(4) /\ Unit(6) = 1024 * Unit(5)
  BY SMT DEF Unit
<1>2. /\ Unit(0) \in Nat \ {0} /\ Unit(1) \in Nat \ {0} /\ Unit(2) \in Nat \ {0} /\ Unit(3) \in Nat \ {0}
      /\ Unit(4) \in Nat \ {0} /\ Unit(5) \in Nat \ {0} /\ Unit(6) \in Nat \ {0}
  BY <1>1, SMT
<1>3. ASSUME NEW o \in 0..6 PROVE Unit(o) \in Nat \ {0}
  BY <1>2, SMT
<1>4. ASSUME NEW o \in 1..6 PROVE Unit(o) = 1024 * Unit(o - 1)
  BY <1>1, SMT
<1> QED
  BY <1>1, <1>3, <1>4

\* One more byte is one more of a unit at most.
LEMMA ShiftNext ==
  ASSUME NEW n \in Nat
  PROVE  (n + 1) \div 1024 \in {n \div 1024, n \div 1024 + 1}
  BY SMT

\* A size is so many of a unit and less than one more.
LEMMA SizeInUnits ==
  ASSUME NEW size \in Nat
  PROVE  \A o \in 0..6 : \E low \in 0..Unit(o) - 1 : size = Shifted(size, o) * Unit(o) + low
<1> DEFINE Holds(o) == \E low \in 0..Unit(o) - 1 : size = Shifted(size, o) * Unit(o) + low
<1>1. Holds(0)
  <2>1. Unit(0) = 1 /\ Shifted(size, 0) = size
    BY Rounds, Units
  <2>2. 0 \in 0..1 - 1 /\ size = size * 1 + 0
    BY SMT
  <2> QED
    BY <2>1, <2>2
<1>2. ASSUME NEW o \in 1..6, Holds(o - 1) PROVE Holds(o)
  <2>1. o - 1 \in 0..6
    BY SMT
  <2>2. PICK u \in Nat \ {0} : u = Unit(o - 1) /\ Unit(o) = 1024 * u
    BY <2>1, Units, SMT
  <2>3. PICK low \in 0..u - 1 : size = Shifted(size, o - 1) * u + low
    BY <1>2, <2>2
  <2>4. PICK q \in Nat, r \in Nat : r < 1024 /\ q = Shifted(size, o) /\ Shifted(size, o - 1) = 1024 * q + r
    <3>1. PICK n \in Nat : n = Shifted(size, o - 1)
      BY <2>1, Rounds
    <3>2. Shifted(size, o) = n \div 1024
      BY <3>1, Rounds
    <3>3. PICK q \in Nat, r \in Nat : r < 1024 /\ q = n \div 1024 /\ n = 1024 * q + r
      BY Shift
    <3> QED
      BY <3>1, <3>2, <3>3
  <2>5. size = (1024 * q + r) * u + low
    BY <2>3, <2>4
  <2>6. (1024 * q + r) * u = q * (1024 * u) + r * u /\ r * u \in Nat /\ r * u <= 1023 * u
    BY <2>4, SMT
  <2>7. r * u + low \in 0..1024 * u - 1 /\ size = q * (1024 * u) + (r * u + low)
    BY <2>5, <2>6, SMT
  <2> QED
    BY <2>2, <2>4, <2>7
<1> HIDE DEF Holds
<1>3. Holds(1) /\ Holds(2) /\ Holds(3) /\ Holds(4) /\ Holds(5) /\ Holds(6)
  <2>1. \A o \in 1..6 : Holds(o - 1) => Holds(o)
    BY <1>2
  <2>2. /\ Holds(1 - 1) => Holds(1)
        /\ Holds(2 - 1) => Holds(2)
        /\ Holds(3 - 1) => Holds(3)
        /\ Holds(4 - 1) => Holds(4)
        /\ Holds(5 - 1) => Holds(5)
        /\ Holds(6 - 1) => Holds(6)
    BY <2>1, SMT
  <2>3. 1 - 1 = 0 /\ 2 - 1 = 1 /\ 3 - 1 = 2 /\ 4 - 1 = 3 /\ 5 - 1 = 4 /\ 6 - 1 = 5
    BY SMT
  <2> QED
    BY <1>1, <2>2, <2>3, SMT
<1>4. ASSUME NEW o \in 0..6 PROVE Holds(o)
  BY <1>1, <1>3, SMT
<1> QED
  BY <1>4 DEF Holds

\* One more byte is one more of any unit at most.
LEMMA NextSizeInUnits ==
  ASSUME NEW size \in Nat
  PROVE  \A o \in 0..6 : Shifted(size + 1, o) \in {Shifted(size, o), Shifted(size, o) + 1}
<1> DEFINE Holds(o) == Shifted(size + 1, o) \in {Shifted(size, o), Shifted(size, o) + 1}
<1>1. Holds(0)
  BY Rounds
<1>2. ASSUME NEW o \in 1..6, Holds(o - 1) PROVE Holds(o)
  <2>1. o - 1 \in 0..6
    BY SMT
  <2>2. PICK n \in Nat, m \in Nat : n = Shifted(size, o - 1) /\ m = Shifted(size + 1, o - 1)
    BY <2>1, Rounds
  <2>3. Shifted(size, o) = n \div 1024 /\ Shifted(size + 1, o) = m \div 1024
    BY <2>2, Rounds
  <2>4. m \in {n, n + 1}
    BY <1>2, <2>2
  <2> QED
    BY <2>3, <2>4, ShiftNext
<1> HIDE DEF Holds
<1>3. Holds(1) /\ Holds(2) /\ Holds(3) /\ Holds(4) /\ Holds(5) /\ Holds(6)
  <2>1. \A o \in 1..6 : Holds(o - 1) => Holds(o)
    BY <1>2
  <2>2. /\ Holds(1 - 1) => Holds(1)
        /\ Holds(2 - 1) => Holds(2)
        /\ Holds(3 - 1) => Holds(3)
        /\ Holds(4 - 1) => Holds(4)
        /\ Holds(5 - 1) => Holds(5)
        /\ Holds(6 - 1) => Holds(6)
    BY <2>1, SMT
  <2>3. 1 - 1 = 0 /\ 2 - 1 = 1 /\ 3 - 1 = 2 /\ 4 - 1 = 3 /\ 5 - 1 = 4 /\ 6 - 1 = 5
    BY SMT
  <2> QED
    BY <1>1, <2>2, <2>3, SMT
<1>4. ASSUME NEW o \in 0..6 PROVE Holds(o)
  BY <1>1, <1>3, SMT
<1> QED
  BY <1>4 DEF Holds

\* The loop ends in the first round that leaves fewer than 973.
LEMMA LoopEnds ==
  ASSUME NEW size \in Nat, size >= 973, Shifted(size, 6) < 973
  PROVE  /\ Order(size) \in 1..6 /\ Shifted(size, Order(size)) < 973
         /\ \A p \in 0..Order(size) - 1 : Shifted(size, p) >= 973
         /\ \A o \in 1..6 : Shifted(size, o) < 973 /\ (\A p \in 1..(o - 1) : Shifted(size, p) >= 973)
                            => Order(size) = o
<1> DEFINE Ends(o) == Shifted(size, o) < 973 /\ \A p \in 1..(o - 1) : Shifted(size, p) >= 973
<1>1. \A o \in 0..6 : Shifted(size, o) \in Nat
  BY Rounds
<1>2. \E o \in 1..6 : Ends(o)
  <2>1. CASE Shifted(size, 1) < 973
    BY <2>1, SMT
  <2>2. CASE Shifted(size, 1) >= 973 /\ Shifted(size, 2) < 973
    <3>1. \A p \in 1..(2 - 1) : p = 1
      BY SMT
    <3> QED
      BY <2>2, <3>1, SMT
  <2>3. CASE Shifted(size, 1) >= 973 /\ Shifted(size, 2) >= 973 /\ Shifted(size, 3) < 973
    <3>1. \A p \in 1..(3 - 1) : p = 1 \/ p = 2
      BY SMT
    <3> QED
      BY <2>3, <3>1, SMT
  <2>4. CASE Shifted(size, 1) >= 973 /\ Shifted(size, 2) >= 973 /\ Shifted(size, 3) >= 973 /\ Shifted(size, 4) < 973
    <3>1. \A p \in 1..(4 - 1) : p = 1 \/ p = 2 \/ p = 3
      BY SMT
    <3> QED
      BY <2>4, <3>1, SMT
  <2>5. CASE /\ Shifted(size, 1) >= 973 /\ Shifted(size, 2) >= 973 /\ Shifted(size, 3) >= 973
             /\ Shifted(size, 4) >= 973 /\ Shifted(size, 5) < 973
    <3>1. \A p \in 1..(5 - 1) : p = 1 \/ p = 2 \/ p = 3 \/ p = 4
      BY SMT
    <3> QED
      BY <2>5, <3>1, SMT
  <2>6. CASE /\ Shifted(size, 1) >= 973 /\ Shifted(size, 2) >= 973 /\ Shifted(size, 3) >= 973
             /\ Shifted(size, 4) >= 973 /\ Shifted(size, 5) >= 973
    <3>1. \A p \in 1..(6 - 1) : p = 1 \/ p = 2 \/ p = 3 \/ p = 4 \/ p = 5
      BY SMT
    <3> QED
      BY <2>6, <3>1, SMT
  <2> QED
    BY <1>1, <2>1, <2>2, <2>3, <2>4, <2>5, <2>6, SMT
<1>3. Order(size) = CHOOSE o \in 1..6 : Ends(o)
  BY DEF Order
<1> HIDE DEF Ends
<1>4. Order(size) \in 1..6 /\ Ends(Order(size))
  BY <1>2, <1>3, ZenonT(30)
<1>5. ASSUME NEW o \in 1..6, Ends(o) PROVE Order(size) = o
  <2>1. PICK x \in 1..6 : x = Order(size) /\ Ends(x)
    BY <1>4
  <2>2. ~(x < o)
    <3> SUFFICES ASSUME x < o PROVE FALSE
      OBVIOUS
    <3>1. x \in 1..(o - 1) /\ x \in 0..6
      BY SMT
    <3> QED
      BY <1>1, <1>5, <2>1, <3>1, SMT DEF Ends
  <2>3. ~(o < x)
    <3> SUFFICES ASSUME o < x PROVE FALSE
      OBVIOUS
    <3>1. o \in 1..(x - 1) /\ o \in 0..6
      BY SMT
    <3> QED
      BY <1>1, <1>5, <2>1, <3>1, SMT DEF Ends
  <2> QED
    BY <2>1, <2>2, <2>3, SMT
<1>6. \A p \in 0..Order(size) - 1 : Shifted(size, p) >= 973
  <2> SUFFICES ASSUME NEW p \in 0..Order(size) - 1 PROVE Shifted(size, p) >= 973
    OBVIOUS
  <2>1. CASE p = 0
    BY <2>1, Rounds
  <2>2. CASE p # 0
    <3>1. p \in 1..(Order(size) - 1)
      BY <1>4, <2>2, SMT
    <3> QED
      BY <1>4, <3>1 DEF Ends
  <2> QED
    BY <2>1, <2>2
<1> QED
  BY <1>4, <1>5, <1>6 DEF Ends

\* A number n is printed as w with t tenths, near to it.
PrintedAs(n, w, t, g, last) ==
  /\ Shown(n) = [whole |-> w, tenths |-> t] /\ g = Magnitude(Shown(n))
  /\ last = 10 <=> t = -1
  /\ w < 1000 /\ t >= -1 /\ t < 10 /\ g < 10000
  /\ t # -1 => w < 10
  /\ 10 * n - 1024 * g <= 512 * last /\ 1024 * g - 10 * n <= 512 * last

\* What is printed of n is near it.
PrintedNear(n) == \E w \in Nat, t \in Int, g \in Nat, last \in {1, 10} : PrintedAs(n, w, t, g, last)

\* What is printed is near the number and has no more than three digits.
LEMMA ShownNear ==
  ASSUME NEW n \in Nat, n >= 973, n < 973 * 1024
  PROVE  PrintedNear(n)
<1> SUFFICES \E w \in Nat, t \in Int, g \in Nat, last \in {1, 10} : PrintedAs(n, w, t, g, last)
  BY DEF PrintedNear
<1>1. PICK w \in Nat, r \in Nat : w <= 972 /\ r < 1024 /\ w = n \div 1024 /\ r = n % 1024 /\ n = 1024 * w + r
  <2>1. n \div 1024 <= 972
    BY SMT
  <2> QED
    BY <2>1, Shift
<1>2. ASSUME w < 9 \/ (w = 9 /\ r < 973)
      PROVE  \E v \in Nat, t \in Int, g \in Nat : PrintedAs(n, v, t, g, 1)
  <2>1. PICK t \in Nat : t <= 10 /\ t = (r * 5 + 256) \div 512 /\ 512 * t <= r * 5 + 256 /\ r * 5 + 256 < 512 * t + 512
    BY <1>1, SMT
  <2>2. Shown(n) = Carry(w, t)
    BY <1>1, <1>2, <2>1 DEF Shown
  <2>3. CASE t = 10
    <3>1. Shown(n) = [whole |-> w + 1, tenths |-> 0] /\ w < 9
      BY <1>2, <2>1, <2>2, <2>3, SMT DEF Carry
    <3>2. Magnitude(Shown(n)) = (w + 1) * 10
      BY <3>1, SMT DEF Magnitude
    <3>3. PICK v \in Nat, z \in Int, g \in Nat : v = w + 1 /\ z = 0 /\ g = (w + 1) * 10
      BY SMT
    <3>4. PrintedAs(n, v, z, g, 1)
      BY <1>1, <2>1, <2>3, <3>1, <3>2, <3>3, SMT DEF PrintedAs
    <3> QED
      BY <3>4
  <2>4. CASE t # 10
    <3>1. Shown(n) = [whole |-> w, tenths |-> t]
      BY <2>1, <2>2, <2>4, SMT DEF Carry
    <3>2. Magnitude(Shown(n)) = w * 10 + t
      BY <3>1, SMT DEF Magnitude
    <3>3. PrintedAs(n, w, t, w * 10 + t, 1)
      BY <1>1, <1>2, <2>1, <2>4, <3>1, <3>2, SMT DEF PrintedAs
    <3>4. t \in Int /\ w \in Nat /\ w * 10 + t \in Nat
      BY <2>4, SMT
    <3> QED
      BY ONLY <3>3, <3>4, Zenon
  <2> QED
    BY <2>3, <2>4
<1>3. ASSUME ~(w < 9 \/ (w = 9 /\ r < 973))
      PROVE  \E v \in Nat, t \in Int, g \in Nat : PrintedAs(n, v, t, g, 10)
  <2>1. PICK x \in 0..1 : x = (IF r >= 512 THEN 1 ELSE 0)
    BY SMT
  <2>2. Shown(n) = [whole |-> w + x, tenths |-> -1]
    BY <1>1, <1>3, <2>1, SMT DEF Shown
  <2>3. Magnitude(Shown(n)) = (w + x) * 10
    BY <2>2, SMT DEF Magnitude
  <2>4. PrintedAs(n, w + x, -1, (w + x) * 10, 10)
    BY <1>1, <2>1, <2>2, <2>3, SMT DEF PrintedAs
  <2>5. w + x \in Nat /\ (w + x) * 10 \in Nat /\ -1 \in Int
    BY SMT
  <2> QED
    BY ONLY <2>4, <2>5, Zenon
<1> QED
  BY ONLY <1>2, <1>3, ZenonT(30)

\* A larger number is not printed smaller.
LEMMA ShownGrows ==
  ASSUME NEW n \in Nat, n >= 973, n + 1 < 973 * 1024
  PROVE  Magnitude(Shown(n)) <= Magnitude(Shown(n + 1))
<1> DEFINE Printed(w, r) ==
             IF w < 9 \/ (w = 9 /\ r < 973)
               THEN IF (r * 5 + 256) \div 512 >= 10 THEN (w + 1) * 10 ELSE w * 10 + ((r * 5 + 256) \div 512)
               ELSE (w + (IF r >= 512 THEN 1 ELSE 0)) * 10
<1>1. ASSUME NEW k \in Nat PROVE Magnitude(Shown(k)) = Printed(k \div 1024, k % 1024)
  <2>1. PICK w \in Nat, r \in 0..1023 : w = k \div 1024 /\ r = k % 1024
    BY SMT
  <2>2. CASE w < 9 \/ (w = 9 /\ r < 973)
    <3>1. PICK t \in 0..10 : t = (r * 5 + 256) \div 512
      BY SMT
    <3>2. Shown(k) = Carry(w, t)
      BY <2>1, <2>2, <3>1, SMT DEF Shown
    <3>3. CASE t >= 10
      BY <2>1, <2>2, <3>1, <3>2, <3>3, SMT DEF Carry, Magnitude
    <3>4. CASE t < 10
      BY <2>1, <2>2, <3>1, <3>2, <3>4, SMT DEF Carry, Magnitude
    <3> QED
      BY <3>3, <3>4, SMT
  <2>3. CASE ~(w < 9 \/ (w = 9 /\ r < 973))
    BY <2>1, <2>3, SMTT(30) DEF Shown, Magnitude
  <2> QED
    BY <2>2, <2>3
<1>2. PICK w \in Nat, r \in 0..1023 : w = n \div 1024 /\ r = n % 1024 /\ n = 1024 * w + r
  BY SMTT(30)
<1>3. CASE r < 1023
  <2>1. (n + 1) \div 1024 = w /\ (n + 1) % 1024 = r + 1
    BY <1>2, <1>3, SMT
  <2>2. (r * 5 + 256) \div 512 <= ((r + 1) * 5 + 256) \div 512
    BY SMT
  <2>3. Printed(w, r) <= Printed(w, r + 1)
    <3>1. PICK s \in Nat, t \in Nat : /\ s = (r * 5 + 256) \div 512 /\ t = ((r + 1) * 5 + 256) \div 512
                                      /\ s <= t /\ 512 * t <= (r + 1) * 5 + 256
      BY <2>2, SMTT(30)
    <3> QED
      BY <3>1, SMT
  <2> QED
    BY <1>1, <1>2, <2>1, <2>3
<1>4. CASE r = 1023
  <2>1. (n + 1) \div 1024 = w + 1 /\ (n + 1) % 1024 = 0
    BY <1>2, <1>4, SMT
  <2>2. (1023 * 5 + 256) \div 512 = 10 /\ (0 * 5 + 256) \div 512 = 0
    BY SMT
  <2>3. Printed(w, 1023) <= Printed(w + 1, 0)
    BY <2>2, SMT
  <2> QED
    BY <1>1, <1>2, <1>4, <2>1, <2>3, SMTT(30)
<1> QED
  BY <1>2, <1>3, <1>4, SMT

\* A size below the first unit.
LEMMA SmallSize ==
  ASSUME NEW size \in Nat, size < 973
  PROVE  FormatSize(size) = [order |-> 0, whole |-> size, tenths |-> -1] /\ Magnitude(FormatSize(size)) = size * 10
<1>1. FormatSize(size) = [order |-> 0, whole |-> size, tenths |-> -1]
  BY DEF FormatSize
<1> QED
  BY <1>1, SMT DEF Magnitude

\* A size in the unit it is printed in.
LEMMA LargeSize ==
  ASSUME NEW size \in Nat, size >= 973, Shifted(size, 6) < 973
  PROVE  \E n \in Nat, u \in Nat \ {0}, low \in Nat :
           /\ n = Shifted(size, Order(size) - 1) /\ u = Unit(Order(size) - 1) /\ Unit(Order(size)) = 1024 * u
           /\ n >= 973 /\ n < 973 * 1024 /\ low < u /\ size = n * u + low
           /\ FormatSize(size).order = Order(size)
           /\ FormatSize(size).whole = Shown(n).whole /\ FormatSize(size).tenths = Shown(n).tenths
           /\ Magnitude(FormatSize(size)) = Magnitude(Shown(n))
<1>1. /\ Order(size) \in 1..6 /\ Shifted(size, Order(size)) < 973
      /\ \A p \in 0..Order(size) - 1 : Shifted(size, p) >= 973
  BY LoopEnds
<1>2. PICK o \in 1..6 : o = Order(size)
  BY <1>1
<1>3. o - 1 \in 0..6 /\ o - 1 \in 0..o - 1
  BY SMT
<1>4. PICK n \in Nat : n = Shifted(size, o - 1)
  BY <1>3, Rounds
<1>5. n >= 973 /\ n \div 1024 < 973
  BY <1>1, <1>2, <1>3, <1>4, Rounds
<1>6. n < 973 * 1024
  BY <1>5, SMT
<1>7. PICK u \in Nat \ {0} : u = Unit(o - 1) /\ Unit(o) = 1024 * u
  BY <1>3, Units
<1>8. PICK low \in 0..u - 1 : size = n * u + low
  <2>1. \E low \in 0..Unit(o - 1) - 1 : size = Shifted(size, o - 1) * Unit(o - 1) + low
    BY <1>3, SizeInUnits, ZenonT(30)
  <2> QED
    BY <1>4, <1>7, <2>1
<1>9. low \in Nat /\ low < u
  BY <1>7, <1>8, SMT
<1>10. ~(size < 973)
  BY SMT
<1>11. FormatSize(size) = [order |-> o, whole |-> Shown(n).whole, tenths |-> Shown(n).tenths]
  BY <1>2, <1>4, <1>10 DEF FormatSize
<1>12. Magnitude(FormatSize(size)) = Magnitude(Shown(n))
  BY <1>11 DEF Magnitude
<1>13. /\ FormatSize(size).order = o
       /\ FormatSize(size).whole = Shown(n).whole /\ FormatSize(size).tenths = Shown(n).tenths
  BY <1>11
<1> QED
  BY <1>2, <1>4, <1>5, <1>6, <1>7, <1>8, <1>9, <1>12, <1>13

\* A product with a bounded factor.
LEMMA Scaled ==
  ASSUME NEW u \in Nat, NEW d \in Int, NEW b \in Nat
  PROVE  (d <= b => u * d <= u * b) /\ (-d <= b => -(u * d) <= u * b)
<1>1. ASSUME NEW e \in Int, e <= b PROVE u * e <= u * b
  BY <1>1, SMT
<1>2. u * (-d) = -(u * d)
  BY SMT
<1> QED
  BY <1>1, <1>2, SMT

\* How far a large size is off when it is printed.
LEMMA PrintedError ==
  ASSUME NEW n \in Nat, NEW u \in Nat \ {0}, NEW low \in Nat, low < u, NEW g \in Nat, NEW last \in Nat,
         10 * n - 1024 * g <= 512 * last, 1024 * g - 10 * n <= 512 * last
  PROVE  LET error == 10 * (n * u + low) - g * (1024 * u)
         IN  2 * error <= last * (1024 * u) + 20 * u /\ -(2 * error) <= last * (1024 * u) + 20 * u
<1>1. PICK d \in Int : d = 10 * n - 1024 * g
  <2>1. PICK x \in Int, y \in Int : x = 10 * n /\ y = 1024 * g
    BY SMT
  <2>2. x - y \in Int
    BY SMT
  <2>3. x - y = 10 * n - 1024 * g
    BY <2>1
  <2> QED
    BY ONLY <2>2, <2>3, ZenonT(30)
<1>6. PICK b \in Nat : b = 512 * last
  BY SMT
<1>2. u * d <= u * b /\ -(u * d) <= u * b
  BY <1>1, <1>6, Scaled, SMT
<1>3. u * b = 512 * (last * u) /\ last * (1024 * u) = 1024 * (last * u)
  BY <1>6, SMT
<1>4. 10 * (n * u + low) - g * (1024 * u) = u * d + 10 * low
  <2>1. u * d = 10 * (n * u) - 1024 * (g * u)
    BY <1>1, SMT
  <2>2. g * (1024 * u) = 1024 * (g * u)
    BY SMT
  <2> QED
    BY <2>1, <2>2, SMT
<1>5. PICK ud \in Int, lu \in Nat : ud = u * d /\ lu = last * u
  BY SMT
<1> QED
  BY <1>2, <1>3, <1>4, <1>5, SMT

\* The smallest size of a unit is printed as one of it.
LEMMA ShownFirst == Magnitude(Shown(973)) = 10
<1>1. 973 \div 1024 = 0 /\ 973 % 1024 = 973 /\ (973 * 5 + 256) \div 512 = 10
  BY SMT
<1>2. Shown(973) = [whole |-> 1, tenths |-> 0]
  BY <1>1, SMT DEF Shown, Carry
<1> QED
  BY <1>2, SMT DEF Magnitude

\* A larger size is not printed smaller, across units as well.
LEMMA SizesGrow ==
  ASSUME NEW size \in Nat, Shifted(size + 1, 6) <= 16
  PROVE  Magnitude(FormatSize(size)) * Unit(FormatSize(size).order)
           <= Magnitude(FormatSize(size + 1)) * Unit(FormatSize(size + 1).order)
<1> DEFINE next == size + 1
<1>1. /\ next \in Nat /\ \A o \in 0..6 : Shifted(size, o) \in Nat /\ Shifted(next, o) \in Nat
      /\ \A o \in 0..6 : Shifted(next, o) \in {Shifted(size, o), Shifted(size, o) + 1}
  BY Rounds, NextSizeInUnits
<1>2. Shifted(size, 6) < 973 /\ Shifted(next, 6) < 973 /\ Shifted(next, 6) <= 16
  <2>1. Shifted(next, 6) \in {Shifted(size, 6), Shifted(size, 6) + 1} /\ Shifted(size, 6) \in Nat
    BY <1>1, SMT
  <2> QED
    BY <2>1, SMT
<1>3. CASE next < 973
  <2>1. /\ FormatSize(size).order = 0 /\ Magnitude(FormatSize(size)) = size * 10
        /\ FormatSize(next).order = 0 /\ Magnitude(FormatSize(next)) = next * 10
    BY <1>1, <1>3, SmallSize, SMT
  <2> QED
    BY <2>1, Units, SMT
<1>4. CASE size = 972
  <2>1. FormatSize(size).order = 0 /\ Magnitude(FormatSize(size)) = 9720
    BY <1>4, SmallSize, SMT
  <2>2. next = 973 /\ Shifted(next, 0) = 973 /\ Shifted(next, 1) = 0
    <3>1. next = 973
      BY <1>4, SMT
    <3>2. Shifted(next, 0) = next /\ Shifted(next, 1) = Shifted(next, 1 - 1) \div 1024
      BY <1>1, Rounds, SMT
    <3>3. 1 - 1 = 0 /\ 973 \div 1024 = 0
      BY SMT
    <3> QED
      BY <3>1, <3>2, <3>3, SMT
  <2>3. Order(next) = 1
    <3>1. Shifted(next, 1) < 973 /\ \A p \in 1..(1 - 1) : Shifted(next, p) >= 973
      BY <2>2, SMT
    <3>2. 1 \in 1..6 /\ next >= 973
      BY <2>2, SMT
    <3> QED
      BY <1>1, <1>2, <3>1, <3>2, LoopEnds
  <2>4. FormatSize(next).order = 1 /\ Magnitude(FormatSize(next)) = 10
    <3>1. next >= 973
      BY <2>2, SMT
    <3>2. PICK n \in Nat : /\ n = Shifted(next, Order(next) - 1) /\ FormatSize(next).order = Order(next)
                           /\ Magnitude(FormatSize(next)) = Magnitude(Shown(n))
      BY <1>1, <1>2, <3>1, LargeSize
    <3>3. n = 973
      BY <2>2, <2>3, <3>2, SMT
    <3> QED
      BY <2>3, <3>2, <3>3, ShownFirst
  <2>5. Unit(0) = 1 /\ Unit(1) = 1024
    BY SMT DEF Unit
  <2> QED
    BY <2>1, <2>4, <2>5, SMT
<1>5. CASE size >= 973
  <2>1. next >= 973
    BY <1>5, SMT
  <2> SUFFICES Magnitude(FormatSize(size)) * Unit(FormatSize(size).order)
                 <= Magnitude(FormatSize(next)) * Unit(FormatSize(next).order)
    OBVIOUS
  <2> HIDE DEF next
  <2>2. PICK n \in Nat, u \in Nat \ {0}, low \in Nat :
          /\ n = Shifted(size, Order(size) - 1) /\ u = Unit(Order(size) - 1) /\ Unit(Order(size)) = 1024 * u
          /\ n >= 973 /\ n < 973 * 1024 /\ FormatSize(size).order = Order(size)
          /\ Magnitude(FormatSize(size)) = Magnitude(Shown(n))
    BY <1>2, <1>5, LargeSize
  <2>3. PICK m \in Nat, v \in Nat \ {0}, low2 \in Nat :
          /\ m = Shifted(next, Order(next) - 1) /\ v = Unit(Order(next) - 1) /\ Unit(Order(next)) = 1024 * v
          /\ m >= 973 /\ m < 973 * 1024 /\ FormatSize(next).order = Order(next)
          /\ Magnitude(FormatSize(next)) = Magnitude(Shown(m))
    BY <1>1, <1>2, <2>1, LargeSize
  <2>4. PICK o \in 1..6 : /\ o = Order(size) /\ Shifted(size, o) < 973
                          /\ \A p \in 0..o - 1 : Shifted(size, p) >= 973
    BY <1>2, <1>5, LoopEnds
  <2>5. \A p \in 0..o - 1 : Shifted(next, p) >= 973
    <3> SUFFICES ASSUME NEW p \in 0..o - 1 PROVE Shifted(next, p) >= 973
      OBVIOUS
    <3>1. p \in 0..6
      BY SMT
    <3>2. Shifted(next, p) \in {Shifted(size, p), Shifted(size, p) + 1} /\ Shifted(size, p) \in Nat
      BY <1>1, <3>1
    <3> QED
      BY <2>4, <3>2, SMT
  <2>6. PICK a \in Nat, b \in Nat : a = Shifted(size, o) /\ b = Shifted(next, o) /\ b \in {a, a + 1}
    <3>1. o \in 0..6
      BY SMT
    <3> QED
      BY <1>1, <3>1
  <2>7. CASE b < 973
    <3>1. Order(next) = o
      <4>1. \A p \in 1..(o - 1) : Shifted(next, p) >= 973
        BY <2>5, SMT
      <4> QED
        BY <1>1, <1>2, <2>1, <2>6, <2>7, <4>1, LoopEnds
    <3>2. o - 1 \in 0..6
      BY SMT
    <3>3. m \in {n, n + 1}
      BY <1>1, <2>2, <2>3, <2>4, <3>1, <3>2
    <3>4. Magnitude(Shown(n)) <= Magnitude(Shown(m))
      <4>1. CASE m = n
        <5>1. PICK g \in Nat : g = Magnitude(Shown(n))
          BY <2>2, ShownNear DEF PrintedAs, PrintedNear
        <5> QED
          BY <4>1, <5>1, SMT
      <4>2. CASE m = n + 1
        BY <2>2, <2>3, <4>2, ShownGrows
      <4> QED
        BY <3>3, <4>1, <4>2
    <3>5. PICK g \in Nat, h \in Nat : g = Magnitude(Shown(n)) /\ h = Magnitude(Shown(m)) /\ g <= h
      BY <2>2, <2>3, <3>4, ShownNear DEF PrintedAs, PrintedNear
    <3>6. g * (1024 * u) <= h * (1024 * u)
      BY <3>5, SMT
    <3> QED
      BY <2>2, <2>3, <2>4, <3>1, <3>5, <3>6
  <2>8. CASE b >= 973
    <3>1. b = 973
      BY <2>4, <2>6, <2>8, SMT
    <3>2. o # 6
      <4> SUFFICES ASSUME o = 6 PROVE FALSE
        OBVIOUS
      <4>1. b = Shifted(next, 6)
        BY <2>6
      <4> QED
        BY <1>2, <3>1, <4>1, SMT
    <3>3. o + 1 \in 1..6 /\ (o + 1) - 1 = o /\ o + 1 \in 0..6
      BY <3>2, SMT
    <3>4. Shifted(next, o + 1) = 0
      <4>1. Shifted(next, o + 1) = 973 \div 1024
        <5>1. Shifted(next, o + 1) = Shifted(next, (o + 1) - 1) \div 1024
          BY <1>1, <3>3, Rounds
        <5>2. Shifted(next, (o + 1) - 1) = 973
          BY <2>6, <3>1, <3>3, ZenonT(30)
        <5> QED
          BY <5>1, <5>2
      <4> QED
        BY <4>1, SMT
    <3>5. \A p \in 1..((o + 1) - 1) : Shifted(next, p) >= 973
      <4> SUFFICES ASSUME NEW p \in 1..o PROVE Shifted(next, p) >= 973
        BY <3>3
      <4>1. p = o \/ p \in 0..o - 1
        BY SMT
      <4> QED
        BY <2>5, <2>6, <2>8, <4>1
    <3>6. Order(next) = o + 1
      <4>1. Shifted(next, o + 1) < 973
        BY <3>4, SMT
      <4> QED
        BY <1>1, <1>2, <2>1, <3>3, <3>5, <4>1, LoopEnds
    <3>7. m = 973 /\ Magnitude(Shown(m)) = 10
      <4>1. Order(next) - 1 = o
        BY <3>3, <3>6
      <4>2. m = 973
        <5>1. Shifted(next, Order(next) - 1) = 973
          BY <2>6, <3>1, <4>1, ZenonT(30)
        <5> QED
          BY <2>3, <5>1
      <4> QED
        BY <4>2, ShownFirst
    <3>8. v = 1024 * u
      BY <2>2, <2>3, <2>4, <3>3, <3>6
    <3>9. PICK g \in Nat : g = Magnitude(Shown(n)) /\ g < 10000
      BY <2>2, ShownNear DEF PrintedAs, PrintedNear
    <3>10. g * (1024 * u) <= 10 * (1024 * (1024 * u))
      <4>1. g * (1024 * u) <= 10000 * (1024 * u)
        BY <3>9, SMT
      <4> QED
        BY <4>1, SMT
    <3> QED
      BY <2>2, <2>3, <3>7, <3>8, <3>9, <3>10
  <2> QED
    BY <2>6, <2>7, <2>8, SMT
<1>6. size < 972 \/ size = 972 \/ size >= 973
  BY SMT
<1>7. size < 972 => next < 973
  BY SMT
<1> QED
  BY <1>3, <1>4, <1>5, <1>6, <1>7

\* A percentage rounded up.
LEMMA RoundUpFacts ==
  ASSUME NEW used \in Nat, NEW avail \in Nat, used + avail # 0
  PROVE  LET p == RoundUp(used * 100, used + avail)
         IN  /\ p \in Nat /\ p <= 100
             /\ p * (used + avail) >= 100 * used
             /\ p > 0 => (p - 1) * (used + avail) < 100 * used
<1> DEFINE n == used * 100  d == used + avail
<1>1. n \in Nat /\ d \in Nat \ {0} /\ n <= 100 * d /\ n = 100 * used
  BY SMT
<1>2. PICK q \in Nat, r \in Nat : q = n \div d /\ r = n % d /\ r < d /\ n = d * q + r
  <2> HIDE DEF n, d
  <2>1. n \div d \in Nat /\ n % d \in 0..d - 1 /\ n = d * (n \div d) + (n % d)
    <3>1. n \in Nat /\ d \in Nat \ {0}
      BY <1>1
    <3> QED
      BY ONLY <3>1, Division, Zenon
  <2>2. n % d \in Nat /\ n % d < d
    BY <1>1, <2>1, SMT
  <2> QED
    BY <2>1, <2>2
<1>3. RoundUp(n, d) = q + (IF r # 0 THEN 1 ELSE 0)
  BY <1>2 DEF RoundUp
<1> HIDE DEF n, d
<1>4. d * q <= 100 * d
  BY <1>1, <1>2, SMT
<1>5. q <= 100
  BY <1>1, <1>4, SMT
<1>6. r # 0 => q < 100
  BY <1>1, <1>2, <1>5, SMT
<1>7. (q + 1) * d = d * q + d /\ q * d = d * q /\ (q - 1) * d = d * q - d
  BY <1>1, SMT
<1>8. PICK p \in Nat : p = RoundUp(n, d) /\ p = q + (IF r # 0 THEN 1 ELSE 0)
  BY <1>3, SMT
<1>9. CASE r = 0
  <2>1. p = q /\ p * d = d * q /\ (p - 1) * d = d * q - d
    BY <1>7, <1>8, <1>9
  <2>2. p <= 100 /\ p * d >= n /\ (p - 1) * d < n
    BY <1>1, <1>2, <1>5, <1>9, <2>1, SMT
  <2> QED
    BY <1>1, <1>8, <2>2 DEF n, d
<1>10. CASE r # 0
  <2>1. p = q + 1 /\ p - 1 = q
    BY <1>8, <1>10, SMT
  <2>2. p * d = d * q + d /\ (p - 1) * d = d * q
    BY <1>7, <2>1
  <2>3. p <= 100 /\ p * d >= n /\ (p - 1) * d < n
    BY <1>1, <1>2, <1>6, <1>10, <2>1, <2>2, SMT
  <2> QED
    BY <1>1, <1>8, <2>3 DEF n, d
<1> QED
  BY <1>9, <1>10

\* The units of a time.
LEMMA TimesAddUp ==
  ASSUME NEW n \in Nat
  PROVE  /\ UptimeFormat(n).days * 86400 + UptimeFormat(n).hours * 3600 + UptimeFormat(n).minutes * 60
               = 60 * (n \div 60)
         /\ UptimeFormat(n).hours < 24
         /\ FormatTotal(1000 * n + 999).hh * 3600 + FormatTotal(1000 * n + 999).mm * 60
               + FormatTotal(1000 * n + 999).ss = n % 86400
<1>1. (n \div 86400) * 86400 + (((n \div 60) \div 60) % 24) * 3600 + ((n \div 60) % 60) * 60 = 60 * (n \div 60)
  BY SMT
<1>2. ((n \div 60) \div 60) % 24 < 24
  BY SMT
<1>3. (1000 * n + 999) \div 1000 = n
  BY SMT
<1>4. ((n \div 3600) % 24) * 3600 + ((n \div 60) % 60) * 60 + (n % 60) = n % 86400
  BY SMT
<1>5. /\ UptimeFormat(n).days = n \div 86400 /\ UptimeFormat(n).hours = ((n \div 60) \div 60) % 24
      /\ UptimeFormat(n).minutes = (n \div 60) % 60
  BY SMT DEF UptimeFormat, HoursOfDay
<1>6. /\ FormatTotal(1000 * n + 999).hh = (n \div 3600) % 24
      /\ FormatTotal(1000 * n + 999).mm = (n \div 60) % 60
      /\ FormatTotal(1000 * n + 999).ss = n % 60
  BY <1>3, SMT DEF FormatTotal
<1>7. /\ UptimeFormat(n).days * 86400 + UptimeFormat(n).hours * 3600 + UptimeFormat(n).minutes * 60
            = 60 * (n \div 60)
      /\ UptimeFormat(n).hours < 24
  BY ONLY <1>1, <1>2, <1>5, SMT
<1>8. FormatTotal(1000 * n + 999).hh * 3600 + FormatTotal(1000 * n + 999).mm * 60
               + FormatTotal(1000 * n + 999).ss = n % 86400
  BY ONLY <1>4, <1>6, SMT
<1> QED
  BY ONLY <1>7, <1>8, SMT

\* The bytes of an address that count.
Width(m) == IF m.family = "AF_INET" THEN V4 ELSE Full

\* What FastHash joins: parts whose lengths depend on the family alone.
LEMMA SocketParts ==
  ASSUME NEW m \in Sockets
  PROVE  /\ Width(m) \in Nat
         /\ ipBytes(m.src, m.family) = SubSeq(m.src, 1, Width(m)) /\ SubSeq(m.src, 1, Width(m)) \in Seq(Nat)
         /\ Len(SubSeq(m.src, 1, Width(m))) = Width(m)
         /\ ipBytes(m.dst, m.family) = SubSeq(m.dst, 1, Width(m)) /\ SubSeq(m.dst, 1, Width(m)) \in Seq(Nat)
         /\ Len(SubSeq(m.dst, 1, Width(m))) = Width(m)
         /\ m.sport \in Seq(Nat) /\ Len(m.sport) = 2 /\ m.dport \in Seq(Nat) /\ Len(m.dport) = 2
<1>1. /\ m.family \in {"AF_INET", "AF_INET6"} /\ m.src \in [1..Full -> Nat] /\ m.dst \in [1..Full -> Nat]
      /\ m.sport \in [1..2 -> Nat] /\ m.dport \in [1..2 -> Nat]
  BY DEF Sockets
<1>2. Width(m) \in Nat /\ Width(m) >= 1 /\ Width(m) <= Full /\ Full \in Nat
  BY FormatsAssumption DEF Width
<1>3. ASSUME NEW d \in [1..Full -> Nat]
      PROVE  /\ ipBytes(d, m.family) = SubSeq(d, 1, Width(m)) /\ SubSeq(d, 1, Width(m)) \in Seq(Nat)
             /\ Len(SubSeq(d, 1, Width(m))) = Width(m)
  <2>1. d \in Seq(Nat) /\ Len(d) = Full
    BY <1>2, NumberSeq
  <2>2. SubSeq(d, 1, Width(m)) \in Seq(Nat) /\ Len(SubSeq(d, 1, Width(m))) = Width(m)
    BY <1>2, <2>1
  <2>3. SubSeq(d, 1, Len(d)) = d
    BY <2>1, SubSeqFull
  <2>4. ipBytes(d, m.family) = SubSeq(d, 1, Width(m))
    BY <2>1, <2>3, Zenon DEF ipBytes, Width
  <2> QED
    BY <2>2, <2>4
<1>4. ASSUME NEW p \in [1..2 -> Nat] PROVE p \in Seq(Nat) /\ Len(p) = 2
  BY NumberSeq, Zenon
<1> QED
  BY <1>1, <1>2, <1>3, <1>4, Zenon

\* The length of a concatenation.
LEMMA ConcatLength ==
  ASSUME NEW S, NEW s \in Seq(S), NEW t \in Seq(S)
  PROVE  s \o t \in Seq(S) /\ Len(s \o t) = Len(s) + Len(t)
  OBVIOUS

\* Joined sequences of numbers: their lengths, and that they can be taken apart.
LEMMA NumbersJoined ==
  /\ \A s, t \in Seq(Nat) : s \o t \in Seq(Nat) /\ Len(s \o t) = Len(s) + Len(t)
  /\ \A s, t, u, v \in Seq(Nat) : Len(s) = Len(t) /\ s \o u = t \o v => s = t /\ u = v
<1>1. ASSUME NEW s \in Seq(Nat), NEW t \in Seq(Nat) PROVE s \o t \in Seq(Nat) /\ Len(s \o t) = Len(s) + Len(t)
  BY ConcatLength
<1>2. ASSUME NEW s \in Seq(Nat), NEW t \in Seq(Nat), NEW u \in Seq(Nat), NEW v \in Seq(Nat),
             Len(s) = Len(t), s \o u = t \o v
      PROVE  s = t /\ u = v
  <2>1. /\ s \o u \in Seq(Nat) /\ Len(s \o u) = Len(s) + Len(u) /\ Len(t \o v) = Len(t) + Len(v)
        /\ Len(s) \in Nat /\ Len(u) \in Nat /\ Len(v) \in Nat
        /\ \A i \in 1..Len(s) : (s \o u)[i] = s[i]
        /\ \A i \in 1..Len(t) : (t \o v)[i] = t[i]
        /\ \A i \in 1..Len(u) : (s \o u)[Len(s) + i] = u[i]
        /\ \A i \in 1..Len(v) : (t \o v)[Len(t) + i] = v[i]
    <3>1. \A a, b \in Seq(Nat) : \A i \in 1..Len(a) : (a \o b)[i] = a[i]
      OBVIOUS
    <3>2. \A a, b \in Seq(Nat) : \A i \in 1..Len(b) : (a \o b)[Len(a) + i] = b[i]
      OBVIOUS
    <3>3. \A a, b \in Seq(Nat) : a \o b \in Seq(Nat) /\ Len(a \o b) = Len(a) + Len(b) /\ Len(a) \in Nat
      OBVIOUS
    <3> QED
      BY <3>1, <3>2, <3>3
  <2>2. Len(u) = Len(v)
    <3>1. PICK a \in Nat, b \in Nat, c \in Nat : a = Len(s) /\ b = Len(u) /\ c = Len(v)
      BY <2>1
    <3>2. a + b = a + c
      BY <1>2, <2>1, <3>1, Zenon
    <3> QED
      BY <3>1, <3>2
  <2>3. \A i \in 1..Len(s) : s[i] = t[i]
    BY <1>2, <2>1, Zenon
  <2>4. \A i \in 1..Len(u) : u[i] = v[i]
    BY <1>2, <2>1, <2>2, Zenon
  <2>5. s = t
    BY <1>2, <2>3, SeqEqual
  <2>6. u = v
    BY <2>2, <2>4, SeqEqual
  <2> QED
    BY <2>5, <2>6
<1> QED
  BY ONLY <1>1, <1>2, Zenon

\* FastHash writes them so that they can be taken apart again.
LEMMA HashTellsApart ==
  ASSUME NEW m \in Sockets, NEW n \in Sockets
  PROVE  Written(m) = Written(n) <=>
           /\ SubSeq(m.src, 1, Width(m)) = SubSeq(n.src, 1, Width(n))
           /\ SubSeq(m.dst, 1, Width(m)) = SubSeq(n.dst, 1, Width(n))
           /\ m.sport = n.sport /\ m.dport = n.dport
<1>1. PICK a \in Seq(Nat), b \in Seq(Nat), c \in Seq(Nat), d \in Seq(Nat), w \in Nat :
        /\ a = SubSeq(m.src, 1, Width(m)) /\ b = SubSeq(m.dst, 1, Width(m)) /\ c = m.sport /\ d = m.dport
        /\ Len(a) = w /\ Len(b) = w /\ Len(c) = 2 /\ Len(d) = 2 /\ Written(m) = a \o b \o c \o d
  BY SocketParts, Zenon DEF Written
<1>2. PICK e \in Seq(Nat), f \in Seq(Nat), g \in Seq(Nat), h \in Seq(Nat), v \in Nat :
        /\ e = SubSeq(n.src, 1, Width(n)) /\ f = SubSeq(n.dst, 1, Width(n)) /\ g = n.sport /\ h = n.dport
        /\ Len(e) = v /\ Len(f) = v /\ Len(g) = 2 /\ Len(h) = 2 /\ Written(n) = e \o f \o g \o h
  BY SocketParts, Zenon DEF Written
<1> SUFFICES ASSUME a \o b \o c \o d = e \o f \o g \o h PROVE a = e /\ b = f /\ c = g /\ d = h
  BY <1>1, <1>2, Zenon
<1>3. /\ Len(a) = w /\ Len(b) = w /\ Len(c) = 2 /\ Len(d) = 2
      /\ Len(e) = v /\ Len(f) = v /\ Len(g) = 2 /\ Len(h) = 2
  BY <1>1, <1>2, Zenon
<1>4. /\ a \in Seq(Nat) /\ b \in Seq(Nat) /\ c \in Seq(Nat) /\ d \in Seq(Nat)
      /\ e \in Seq(Nat) /\ f \in Seq(Nat) /\ g \in Seq(Nat) /\ h \in Seq(Nat)
  BY Zenon
<1>5. a \o b \in Seq(Nat) /\ e \o f \in Seq(Nat) /\ Len(a \o b) = Len(a) + Len(b) /\ Len(e \o f) = Len(e) + Len(f)
  BY ONLY <1>4, NumbersJoined, Zenon
<1>6. PICK p, q : p = a \o b /\ q = e \o f
  BY Zenon
<1>7. p \o c \in Seq(Nat) /\ q \o g \in Seq(Nat) /\ Len(p \o c) = Len(p) + Len(c) /\ Len(q \o g) = Len(q) + Len(g)
  BY ONLY <1>4, <1>5, <1>6, NumbersJoined, Zenon
<1>8. PICK r, s : r = p \o c /\ s = q \o g
  BY Zenon
<1>9. r \o d = s \o h
  BY <1>6, <1>8, Zenon
<1>10. Len(r \o d) = Len(r) + Len(d) /\ Len(s \o h) = Len(s) + Len(h)
  BY ONLY <1>4, <1>7, <1>8, NumbersJoined, Zenon
<1>11. w = v
  <2>1. w + w + 2 + 2 = v + v + 2 + 2
    BY <1>3, <1>5, <1>6, <1>7, <1>8, <1>9, <1>10, Zenon
  <2> QED
    BY ONLY <2>1, w \in Nat, v \in Nat, SMT
<1>12. Len(r) = Len(s) /\ Len(p) = Len(q) /\ Len(a) = Len(e)
  BY <1>3, <1>5, <1>6, <1>7, <1>8, <1>11, Zenon
<1>13. r = s /\ d = h
  <2>1. r \in Seq(Nat) /\ d \in Seq(Nat) /\ s \in Seq(Nat) /\ h \in Seq(Nat) /\ Len(r) = Len(s)
    BY <1>7, <1>8, <1>12, Zenon
  <2> QED
    BY ONLY <2>1, <1>9, NumbersJoined, Zenon
<1>14. p = q /\ c = g
  <2>1. p \in Seq(Nat) /\ c \in Seq(Nat) /\ q \in Seq(Nat) /\ g \in Seq(Nat) /\ Len(p) = Len(q) /\ p \o c = q \o g
    BY <1>5, <1>6, <1>8, <1>12, <1>13, Zenon
  <2> QED
    BY ONLY <2>1, NumbersJoined, Zenon
<1>15. a = e /\ b = f
  <2>1. a \in Seq(Nat) /\ b \in Seq(Nat) /\ e \in Seq(Nat) /\ f \in Seq(Nat) /\ Len(a) = Len(e) /\ a \o b = e \o f
    BY <1>6, <1>14, <1>12, ZenonT(30)
  <2> QED
    BY ONLY <2>1, NumbersJoined, Zenon
<1> QED
  BY <1>13, <1>14, <1>15

\* FormatSize of one size, as SizesReadRight has it.
LEMMA SizeRight ==
  ASSUME NEW size \in Nat, Shifted(size + 1, 6) <= 16
  PROVE  LET t == FormatSize(size)
             unit == Unit(t.order)
             last == IF t.tenths = -1 THEN 10 ELSE 1
             error == 10 * size - Magnitude(t) * unit
         IN  /\ t.whole < 1000 /\ (t.tenths # -1 => t.whole < 10 /\ t.tenths < 10)
             /\ t.order = 0 => error = 0
             /\ t.order > 0 => /\ 2 * error <= last * unit + 20 * Unit(t.order - 1)
                               /\ -(2 * error) <= last * unit + 20 * Unit(t.order - 1)
<1>1. CASE size < 973
  <2>1. /\ FormatSize(size).order = 0 /\ FormatSize(size).whole = size /\ FormatSize(size).tenths = -1
        /\ Magnitude(FormatSize(size)) = size * 10
    BY <1>1, SmallSize
  <2>2. Unit(0) = 1
    BY Units
  <2> QED
    BY <1>1, <2>1, <2>2, SMT
<1>2. CASE size >= 973
  <2>1. Shifted(size, 6) < 973
    <3>1. Shifted(size + 1, 6) \in {Shifted(size, 6), Shifted(size, 6) + 1} /\ Shifted(size, 6) \in Nat
      BY Rounds, NextSizeInUnits, SMT
    <3> QED
      BY <3>1, SMT
  <2>2. PICK n \in Nat, u \in Nat \ {0}, low \in Nat :
          /\ n = Shifted(size, Order(size) - 1) /\ u = Unit(Order(size) - 1) /\ Unit(Order(size)) = 1024 * u
          /\ n >= 973 /\ n < 973 * 1024 /\ low < u /\ size = n * u + low
          /\ FormatSize(size).order = Order(size)
          /\ FormatSize(size).whole = Shown(n).whole /\ FormatSize(size).tenths = Shown(n).tenths
          /\ Magnitude(FormatSize(size)) = Magnitude(Shown(n))
    BY <1>2, <2>1, LargeSize
  <2>3. PICK w \in Nat, t \in Int, g \in Nat, last \in {1, 10} : PrintedAs(n, w, t, g, last)
    <3>1. n >= 973 /\ n < 973 * 1024
      BY <2>2, ZenonT(30)
    <3>2. PrintedNear(n)
      BY ONLY <3>1, n \in Nat, ShownNear, SMT
    <3> QED
      BY ONLY <3>2, Zenon DEF PrintedNear
  <2>4. /\ FormatSize(size).whole = w /\ FormatSize(size).tenths = t
        /\ Magnitude(FormatSize(size)) = g
    BY <2>2, <2>3 DEF PrintedAs
  <2>5. last = IF FormatSize(size).tenths = -1 THEN 10 ELSE 1
    BY <2>3, <2>4, SMT DEF PrintedAs
  <2>6. FormatSize(size).whole < 1000
        /\ (FormatSize(size).tenths # -1 => FormatSize(size).whole < 10 /\ FormatSize(size).tenths < 10)
    BY <2>3, <2>4 DEF PrintedAs
  <2>7. PICK o \in 1..6 : o = Order(size)
    BY <1>2, <2>1, LoopEnds
  <2>8. o # 0
    BY SMTT(30)
  <2>9. LET error == 10 * size - g * (1024 * u)
        IN  2 * error <= last * (1024 * u) + 20 * u /\ -(2 * error) <= last * (1024 * u) + 20 * u
    <3>1. last \in Nat /\ 10 * n - 1024 * g <= 512 * last /\ 1024 * g - 10 * n <= 512 * last
      BY <2>3, SMT DEF PrintedAs
    <3> QED
      BY <2>2, <3>1, PrintedError
  <2>10. PICK unit \in Nat : unit = 1024 * u
    BY ONLY u \in Nat, SMT
  <2>11. PICK error \in Int : error = 10 * size - g * unit
    <3>1. PICK gu \in Int : gu = g * unit
      BY ONLY g \in Nat, unit \in Nat, SMT
    <3>2. 10 * size - gu \in Int
      BY ONLY size \in Nat, gu \in Int, SMT
    <3>3. 10 * size - g * unit \in Int
      BY ONLY <3>1, <3>2, SMT
    <3> QED
      BY ONLY <3>3, Zenon
  <2>12. 2 * error <= last * unit + 20 * u /\ -(2 * error) <= last * unit + 20 * u
    BY ONLY <2>9, <2>10, <2>11, SMT
  <2>13. FormatSize(size).order = o /\ Unit(FormatSize(size).order) = unit /\ Unit(FormatSize(size).order - 1) = u
    <3>1. FormatSize(size).order = o /\ Unit(o) = 1024 * u /\ Unit(o - 1) = u
      BY <2>2, <2>7, ZenonT(30)
    <3> QED
      BY ONLY <2>10, <3>1, SMT
  <2>14. 10 * size - Magnitude(FormatSize(size)) * Unit(FormatSize(size).order) = error
    BY ONLY <2>4, <2>11, <2>13, SMT
  <2> QED
    BY ONLY <2>5, <2>6, <2>8, <2>12, <2>13, <2>14, SMT
<1> QED
  BY <1>1, <1>2, SMT

=============================================================================
