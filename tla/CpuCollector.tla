---------------------------- MODULE CpuCollector ----------------------------
(***************************************************************************)
(* concrete_sigar.go, CollectCpuStats: a goroutine samples the CPU         *)
(* counters on every tick and offers the difference to the caller over a   *)
(* channel of capacity 1, without ever waiting for the caller; the caller  *)
(* ends it over an unbuffered stop channel.                                *)
(*                                                                         *)
(* A counter is a word of unsigned arithmetic modulo Modulus (2^64 in      *)
(* the code) that may wrap.  Cpu.Delta works field by field and the        *)
(* collector treats the fields alike, so one field stands for all eight.   *)
(***************************************************************************)
EXTENDS Naturals, Sequences

CONSTANT Modulus           \* the counters are integers modulo Modulus

ASSUME ModulusAssumption == Modulus \in Nat \ {0}

VARIABLES counter,       \* the counter in /proc/stat
          at,           \* where the goroutine is
          cpuUsage,     \* the last reading
          previous,     \* previousCpuUsage
          tick,         \* a tick waits in ticker.C (capacity 1)
          samplesCh,    \* the channel of samples (capacity 1)
          stopCh,       \* the caller's send on stopCh: "no", "sending", "sent"
          taken,        \* history: sum of the samples the caller received
          dropped       \* history: sum of the samples no one received

cpuVars == <<counter, at, cpuUsage, previous, tick, samplesCh, stopCh, taken, dropped>>

Words == 0..Modulus - 1

\* Unsigned addition and, in Cpu.Delta, subtraction: both wrap.
Plus(a, b) == IF a + b < Modulus THEN a + b ELSE a + b - Modulus

Delta(a, b) == IF b <= a THEN a - b ELSE a + Modulus - b

CpuInit ==
  /\ counter \in Words
  /\ at = "start"
  /\ cpuUsage = 0
  /\ previous = 0
  /\ tick = FALSE
  /\ samplesCh = <<>>
  /\ stopCh = "no"
  /\ taken = 0
  /\ dropped = 0

-----------------------------------------------------------------------------
(* The host and the caller *)

Advance ==
  /\ counter' \in Words
  /\ UNCHANGED <<at, cpuUsage, previous, tick, samplesCh, stopCh, taken, dropped>>

\* The ticker exists once the first sample has been sent, and is never stopped.
Tick ==
  /\ at \notin {"start", "first"}
  /\ ~tick
  /\ tick' = TRUE
  /\ UNCHANGED <<counter, at, cpuUsage, previous, samplesCh, stopCh, taken, dropped>>

Take ==
  /\ samplesCh # <<>>
  /\ taken' = Plus(taken, Head(samplesCh))
  /\ samplesCh' = Tail(samplesCh)
  /\ UNCHANGED <<counter, at, cpuUsage, previous, tick, stopCh, dropped>>

RequestStop ==
  /\ stopCh = "no"
  /\ stopCh' = "sending"
  /\ UNCHANGED <<counter, at, cpuUsage, previous, tick, samplesCh, taken, dropped>>

-----------------------------------------------------------------------------
(* The collector's goroutine *)

\* cpuUsage.Get(): the reading, or nothing at all when /proc/stat cannot be read
\* (the error is ignored).
Get == cpuUsage' \in {counter, cpuUsage}

First ==
  /\ at = "start"
  /\ Get
  /\ at' = "first"
  /\ UNCHANGED <<counter, previous, tick, samplesCh, stopCh, taken, dropped>>

\* A blocking send.
SendFirst ==
  /\ at = "first"
  /\ samplesCh = <<>>
  /\ samplesCh' = <<cpuUsage>>
  /\ at' = "select"
  /\ UNCHANGED <<counter, cpuUsage, previous, tick, stopCh, taken, dropped>>

\* Variant: previousCpuUsage stays the first reading.
SampleSinceStart ==
  /\ at = "select"
  /\ tick
  /\ tick' = FALSE
  /\ Get
  /\ at' = "offer"
  /\ UNCHANGED <<counter, previous, samplesCh, stopCh, taken, dropped>>

\* Variant: the reading is taken and never offered.
SampleOnly ==
  /\ at = "select"
  /\ tick
  /\ tick' = FALSE
  /\ previous' = cpuUsage
  /\ Get
  /\ UNCHANGED <<counter, at, samplesCh, stopCh, taken, dropped>>

Sample ==
  /\ at = "select"
  /\ tick
  /\ tick' = FALSE
  /\ previous' = cpuUsage
  /\ Get
  /\ at' = "offer"
  /\ UNCHANGED <<counter, samplesCh, stopCh, taken, dropped>>

\* Variant: the send without its default case.
OfferBlocking ==
  /\ at = "offer"
  /\ samplesCh = <<>>
  /\ samplesCh' = <<Delta(cpuUsage, previous)>>
  /\ at' = "select"
  /\ UNCHANGED <<counter, cpuUsage, previous, tick, stopCh, taken, dropped>>

\* The inner select: a sample that finds the channel full is dropped.
Offer ==
  /\ at = "offer"
  /\ IF samplesCh = <<>>
       THEN samplesCh' = <<Delta(cpuUsage, previous)>> /\ UNCHANGED dropped
       ELSE dropped' = Plus(dropped, Delta(cpuUsage, previous)) /\ UNCHANGED samplesCh
  /\ at' = "select"
  /\ UNCHANGED <<counter, cpuUsage, previous, tick, stopCh, taken>>

Stop ==
  /\ at = "select"
  /\ stopCh = "sending"
  /\ stopCh' = "sent"
  /\ at' = "stopped"
  /\ UNCHANGED <<counter, cpuUsage, previous, tick, samplesCh, taken, dropped>>

Collector == First \/ SendFirst \/ Sample \/ Offer \/ Stop

CpuNext == Advance \/ Tick \/ Take \/ RequestStop \/ Collector

CpuSpec == CpuInit /\ [][CpuNext]_cpuVars

-----------------------------------------------------------------------------

\* Every variable holds a value of its kind; samplesCh never holds two samples.
CpuTypeOK ==
  /\ {counter, cpuUsage, previous, taken, dropped} \subseteq Words
  /\ at \in {"start", "first", "select", "offer", "stopped"}
  /\ tick \in BOOLEAN
  /\ samplesCh = <<>> \/ samplesCh \in {<<v>> : v \in Words}
  /\ stopCh \in {"no", "sending", "sent"}

\* The sample in the channel, and the one about to be offered.
InChannel == IF samplesCh = <<>> THEN 0 ELSE samplesCh[1]

InHand ==
  CASE at = "first" -> cpuUsage
    [] at = "offer" -> Delta(cpuUsage, previous)
    [] OTHER -> 0

\* The samples account for the counter exactly, modulo its width: what the
\* caller received, what waits for it and what was dropped add up to the last
\* reading, across wrapped counters and failed readings.
SamplesAddUp ==
  Plus(Plus(taken, InChannel), Plus(dropped, InHand)) = cpuUsage

\* The first sample finds the channel empty, so its blocking send cannot hang
\* the goroutine before it ever listens on stopCh.
FirstSendNeverBlocks == at \in {"start", "first"} => samplesCh = <<>>

\* A caller that sends on stopCh is served, even if it never takes a sample
\* again and the ticker is always ready.
StopIsServed == stopCh = "sending" ~> stopCh = "sent"

\* A caller that keeps receiving and does not stop the collector is given a
\* sample again and again.
SamplesKeepComing == [](stopCh = "no") => []<>(samplesCh # <<>>)

=============================================================================
