-------------------------- MODULE CpuCollectorProofs --------------------------
(***************************************************************************)
(* Proofs about CpuCollector for counters of any width.                    *)
(***************************************************************************)
EXTENDS CpuCollector, TLAPS

\* Addition modulo Modulus stays in range and has 0 as its unit.
LEMMA PlusFacts ==
  ASSUME NEW a \in Words, NEW b \in Words
  PROVE  Plus(a, b) \in Words /\ Plus(a, 0) = a /\ Plus(0, b) = b
  BY ModulusAssumption DEF Plus, Words

\* A wrapped difference stays in range.
LEMMA DeltaFacts ==
  ASSUME NEW a \in Words, NEW b \in Words
  PROVE  Delta(a, b) \in Words
  BY ModulusAssumption DEF Delta, Words

\* The wrapped difference added to the old reading is the new one: a counter
\* that wraps between two readings loses nothing.
LEMMA DeltaAddsUp ==
  ASSUME NEW a \in Words, NEW b \in Words, NEW x \in Words, NEW y \in Words,
         Plus(x, Plus(y, 0)) = b
  PROVE  Plus(x, Plus(y, Delta(a, b))) = a
  BY ModulusAssumption DEF Delta, Plus, Words

\* The difference from zero is the reading itself.
LEMMA DeltaZero ==
  ASSUME NEW a \in Words
  PROVE  Delta(a, 0) = a
  BY ModulusAssumption DEF Delta, Words

\* The same for readings named by any expressions.
LEMMA DeltaAddsUpAll ==
  \A a, b, x, y \in Words :
     Plus(x, Plus(y, 0)) = b => Plus(x, Plus(y, Delta(a, b))) = a
  BY DeltaAddsUp

\* A sample moves between the sums without changing the total.
LEMMA MoveSample ==
  ASSUME NEW a \in Words, NEW b \in Words, NEW c \in Words
  PROVE  /\ Plus(Plus(a, b), c) = Plus(Plus(a, c), b)
         /\ Plus(Plus(a, b), c) = Plus(a, Plus(b, c))
  BY ModulusAssumption DEF Plus, Words

\* The inductive invariant: the total, and what the goroutine has not touched
\* before its first send.
CollectorInv ==
  /\ CpuTypeOK
  /\ SamplesAddUp
  /\ FirstSendNeverBlocks
  /\ at = "start" => cpuUsage = 0

\* What waits in the channel or in the goroutine's hands is a word.
LEMMA SampleType ==
  ASSUME CpuTypeOK
  PROVE  InChannel \in Words /\ InHand \in Words
<1>1. 0 \in Words
  BY ModulusAssumption DEF Words
<1>2. InChannel \in Words
  BY <1>1 DEF CpuTypeOK, InChannel
<1>3. Delta(cpuUsage, previous) \in Words
  BY DeltaFacts DEF CpuTypeOK
<1>4. InHand \in Words
  BY <1>1, <1>3 DEF CpuTypeOK, InHand
<1> QED
  BY <1>2, <1>4

\* CollectCpuStats starts with nothing sampled and nothing sent.
LEMMA InitCollector == CpuInit => CollectorInv
<1> SUFFICES ASSUME CpuInit PROVE CollectorInv
  OBVIOUS
<1>1. 0 \in Words
  BY ModulusAssumption DEF Words
<1>2. InChannel = 0 /\ InHand = 0
  BY DEF CpuInit, InChannel, InHand
<1>3. CpuTypeOK
  BY <1>1, Zenon DEF CpuInit, CpuTypeOK
<1> QED
  BY <1>1, <1>2, <1>3, PlusFacts DEF CpuInit, CollectorInv, SamplesAddUp, FirstSendNeverBlocks

\* A step that changes neither the goroutine's state nor the sums keeps the total.
LEMMA Unmoved ==
  ASSUME SamplesAddUp, UNCHANGED <<at, cpuUsage, previous, samplesCh, taken, dropped>>
  PROVE  SamplesAddUp'
  BY DEF SamplesAddUp, InChannel, InHand

\* Every step keeps the types.
LEMMA NextCollectorType == CpuTypeOK /\ [CpuNext]_cpuVars => CpuTypeOK'
<1> SUFFICES ASSUME CpuTypeOK, [CpuNext]_cpuVars PROVE CpuTypeOK'
  OBVIOUS
<1>1. CASE Advance \/ Tick \/ RequestStop \/ Stop \/ UNCHANGED cpuVars
  BY <1>1, Zenon DEF Advance, Tick, RequestStop, Stop, CpuTypeOK, cpuVars
<1>2. CASE Take
  <2>1. PICK v \in Words : samplesCh = <<v>>
    BY <1>2 DEF Take, CpuTypeOK
  <2>2. Head(samplesCh) \in Words /\ samplesCh' = <<>>
    BY <1>2, <2>1 DEF Take
  <2>3. taken' \in Words
    BY <1>2, <2>2, PlusFacts DEF Take, CpuTypeOK
  <2> QED
    BY <1>2, <2>2, <2>3 DEF Take, CpuTypeOK
<1>3. CASE First \/ SendFirst \/ Sample
  BY <1>3, Zenon DEF First, SendFirst, Sample, Get, CpuTypeOK
<1>4. CASE Offer
  <2>1. Delta(cpuUsage, previous) \in Words
    BY DeltaFacts DEF CpuTypeOK
  <2>2. Plus(dropped, Delta(cpuUsage, previous)) \in Words
    BY <2>1, PlusFacts DEF CpuTypeOK
  <2> QED
    BY <1>4, <2>1, <2>2 DEF Offer, CpuTypeOK
<1> QED
  BY <1>1, <1>2, <1>3, <1>4 DEF CpuNext, Collector

\* Every step keeps the total.
LEMMA NextAddUp == CollectorInv /\ [CpuNext]_cpuVars => SamplesAddUp'
<1> SUFFICES ASSUME CollectorInv, [CpuNext]_cpuVars PROVE SamplesAddUp'
  OBVIOUS
<1> DEFINE x == Plus(taken, InChannel)
<1>0. CpuTypeOK
  BY DEF CollectorInv
<1>1. /\ InChannel \in Words /\ InHand \in Words /\ taken \in Words /\ dropped \in Words
      /\ cpuUsage \in Words /\ cpuUsage' \in Words /\ 0 \in Words
  BY SampleType, NextCollectorType, ModulusAssumption DEF CollectorInv, CpuTypeOK, Words
<1>2. x \in Words
  BY <1>1, PlusFacts
<1>3. Plus(x, Plus(dropped, InHand)) = cpuUsage
  BY DEF CollectorInv, SamplesAddUp
<1>4. CASE Advance \/ Tick \/ RequestStop \/ UNCHANGED cpuVars
  BY <1>4, Unmoved DEF CollectorInv, Advance, Tick, RequestStop, cpuVars
<1>5. CASE Take
  <2>1. PICK v \in Words : samplesCh = <<v>>
    BY <1>5, <1>0 DEF Take, CpuTypeOK
  <2>2. InChannel = v /\ taken' = Plus(taken, v) /\ samplesCh' = <<>>
    BY <1>5, <2>1 DEF Take, InChannel
  <2>3. InChannel' = 0 /\ InHand' = InHand
    BY <1>5, <2>2 DEF Take, InChannel, InHand
  <2>4. Plus(taken', InChannel') = x
    BY <1>2, <2>2, <2>3, PlusFacts
  <2> QED
    BY <1>3, <1>5, <2>3, <2>4 DEF Take, SamplesAddUp
<1>6. CASE First
  <2>1. InHand = 0 /\ cpuUsage = 0 /\ InHand' = cpuUsage' /\ InChannel' = InChannel
    BY <1>6 DEF First, CollectorInv, InHand, InChannel
  <2>2. Delta(cpuUsage', 0) = cpuUsage'
    BY <1>1, DeltaZero
  <2>3. Plus(x, Plus(dropped, Delta(cpuUsage', 0))) = cpuUsage'
    <3>1. Plus(x, Plus(dropped, 0)) = 0
      BY <1>3, <2>1
    <3> HIDE DEF x
    <3> QED
      BY <1>1, <1>2, <3>1, DeltaAddsUpAll
  <2> QED
    BY <1>6, <2>1, <2>2, <2>3 DEF First, SamplesAddUp
<1>7. CASE SendFirst \/ (Offer /\ samplesCh = <<>>)
  <2>1. samplesCh = <<>> /\ samplesCh' = <<InHand>> /\ at' = "select"
    BY <1>7 DEF SendFirst, Offer, InHand
  <2>a. InChannel = 0 /\ InChannel' = InHand /\ InHand' = 0
    BY <2>1 DEF InChannel, InHand
  <2>2. Plus(taken, Plus(dropped, InHand)) = cpuUsage
    BY <1>1, <1>3, <2>a, PlusFacts
  <2>3. Plus(Plus(taken, InHand), dropped) = cpuUsage
    BY <1>1, <2>2, MoveSample
  <2>4. Plus(dropped, 0) = dropped
    BY <1>1, PlusFacts
  <2> QED
    BY <1>7, <2>a, <2>3, <2>4 DEF SendFirst, Offer, SamplesAddUp
<1>8. CASE Sample
  <2>1. InHand = 0 /\ InHand' = Delta(cpuUsage', cpuUsage) /\ InChannel' = InChannel
    BY <1>8 DEF Sample, InHand, InChannel
  <2>2. Plus(x, Plus(dropped, Delta(cpuUsage', cpuUsage))) = cpuUsage'
    <3>1. Plus(x, Plus(dropped, 0)) = cpuUsage
      BY <1>3, <2>1
    <3> HIDE DEF x
    <3> QED
      BY <1>1, <1>2, <3>1, DeltaAddsUpAll
  <2> QED
    BY <1>8, <2>1, <2>2 DEF Sample, SamplesAddUp
<1>9. CASE Offer /\ samplesCh # <<>>
  <2>1. dropped' = Plus(dropped, InHand) /\ InHand' = 0 /\ InChannel' = InChannel
    BY <1>9 DEF Offer, InHand, InChannel
  <2>2. Plus(dropped', 0) = dropped'
    BY <1>1, <2>1, PlusFacts
  <2> QED
    BY <1>3, <1>9, <2>1, <2>2 DEF Offer, SamplesAddUp
<1>10. CASE Stop
  <2>1. InHand = 0 /\ InHand' = 0 /\ InChannel' = InChannel
    BY <1>10 DEF Stop, InHand, InChannel
  <2> QED
    BY <1>3, <1>10, <2>1 DEF Stop, SamplesAddUp
<1> QED
  BY <1>4, <1>5, <1>6, <1>7, <1>8, <1>9, <1>10 DEF CpuNext, Collector

\* The channel stays empty until the goroutine's first send.
LEMMA NextStart ==
  CollectorInv /\ [CpuNext]_cpuVars => FirstSendNeverBlocks' /\ (at = "start" => cpuUsage = 0)'
<1> SUFFICES ASSUME CollectorInv, [CpuNext]_cpuVars
             PROVE  FirstSendNeverBlocks' /\ (at = "start" => cpuUsage = 0)'
  OBVIOUS
<1> USE DEF CollectorInv, FirstSendNeverBlocks
<1>1. CASE Advance \/ Tick \/ Take \/ RequestStop \/ UNCHANGED cpuVars
  BY <1>1 DEF Advance, Tick, Take, RequestStop, cpuVars
<1>2. CASE Collector
  BY <1>2 DEF Collector, First, SendFirst, Sample, Offer, Stop
<1> QED
  BY <1>1, <1>2 DEF CpuNext

\* The samples account for the counter whatever its width, however often it
\* wraps, and whichever samples the caller is too slow to take.
THEOREM SamplesCorrect == CpuSpec => []SamplesAddUp
<1>1. CollectorInv /\ [CpuNext]_cpuVars => CollectorInv'
  BY NextCollectorType, NextAddUp, NextStart DEF CollectorInv
<1>2. CollectorInv => SamplesAddUp
  BY DEF CollectorInv
<1> QED
  BY InitCollector, <1>1, <1>2, PTL DEF CpuSpec

\* The goroutine's blocking first send always finds room.
THEOREM FirstSendCorrect == CpuSpec => []FirstSendNeverBlocks
<1>1. CollectorInv /\ [CpuNext]_cpuVars => CollectorInv'
  BY NextCollectorType, NextAddUp, NextStart DEF CollectorInv
<1>2. CollectorInv => FirstSendNeverBlocks
  BY DEF CollectorInv
<1> QED
  BY InitCollector, <1>1, <1>2, PTL DEF CpuSpec

=============================================================================
