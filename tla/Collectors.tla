----------------------------- MODULE Collectors -----------------------------
(***************************************************************************)
(* The two parts of the library that collect over time and for a caller    *)
(* that waits: the socket dump of sys/linux (InetDiag) and the CPU sampler *)
(* of concrete_sigar.go (CpuCollector).  They share nothing, so one of     *)
(* them runs and the other rests in its first state.                       *)
(***************************************************************************)
EXTENDS InetDiag, CpuCollector

VARIABLE part           \* the collector that runs: "dump" or "cpu"

collectorVars == <<part, vars, cpuVars>>

CollectorsInit ==
  /\ part \in {"dump", "cpu"}
  /\ Init
  /\ CpuInit
  /\ part = "cpu" => table = {}
  /\ part = "dump" => counter = 0

\* The steps of either part, and those of its steps that fairness is about.
Dump == part = "dump" /\ Next /\ UNCHANGED <<part, cpuVars>>

Cpu == part = "cpu" /\ CpuNext /\ UNCHANGED <<part, vars>>

DumpProgress == Dump /\ Progress

CpuCollects == Cpu /\ Collector

CpuStops == Cpu /\ Stop

CpuTicks == Cpu /\ Tick

CollectorsNext == Dump \/ Cpu

\* The caller's goroutine runs and the kernel's dump goes on when it is read,
\* but Recvfrom need never fail.  The sampler's goroutine runs while it can,
\* its ticker ticks, and a select with several ready cases picks one at random,
\* so a stop that is ready again and again is picked in the end.
CollectorsSpec ==
  /\ CollectorsInit
  /\ [][CollectorsNext]_collectorVars
  /\ WF_collectorVars(DumpProgress)
  /\ WF_collectorVars(CpuCollects)
  /\ SF_collectorVars(CpuStops)
  /\ WF_collectorVars(CpuTicks)

-----------------------------------------------------------------------------

\* As long as every datagram fits readBuf, NetlinkInetDiagWithBuf returns: its
\* loop ends with the dump and never waits for a datagram that does not come.
DumpReturns == part = "dump" => CallReturns

\* Once CollectCpuStats has been called, a caller that does not stop the
\* collector finds a sample in the channel again and again, however it takes
\* them.
SamplingGoesOn == part = "cpu" => SamplesKeepComing

=============================================================================
