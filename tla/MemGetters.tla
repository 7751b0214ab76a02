----------------------------- MODULE MemGetters -----------------------------
(***************************************************************************)
(* Mem.Get and Swap.Get on Linux, Darwin, FreeBSD, OpenBSD and Windows.    *)
(* Each asks the kernel one or more questions while pages move between the *)
(* free list, the inactive list and the processes, and computes its fields *)
(* from the answers, in unsigned words.  The unit is the page.             *)
(***************************************************************************)
EXTENDS Integers, Sequences

CONSTANTS Pages,        \* physical memory
          SwapPages,    \* swap space
          Word          \* 2^64

ASSUME MemAssumption ==
  /\ Pages \in Nat \ {0}
  /\ SwapPages \in Nat
  /\ Word \in Nat /\ Word > 2 * (Pages + SwapPages)

VARIABLES
  free, inactive,       \* the kernel's lists
  swapUsed,
  memGetter,            \* whose Get was called last
  asked,                \* the questions it has still to ask
  got,                  \* the answers
  mem,                  \* the fields of the caller's Mem or Swap
  memResult,            \* "running", "ok" or "error"
  filled,               \* history: this call has computed its fields
  moved,                \* history: a page has moved since the call began
  reused                \* history: the receiver had been filled before

memHost == <<free, inactive, swapUsed>>
memCall == <<memGetter, asked, got, mem, memResult, filled, reused>>
memVars == <<memHost, memCall, moved>>

\* The questions of each getter, in order.  Darwin and FreeBSD ask for totals
\* that do not change; OpenBSD asks for the size of each answer first.
Questions ==
  [LinuxMem    |-> <<"meminfo">>,
   LinuxSwap   |-> <<"meminfo">>,
   DarwinMem   |-> <<"memsize", "vm_info">>,
   DarwinSwap  |-> <<"swapusage">>,
   FreeBSDMem  |-> <<"page_count", "page_size", "free_count", "inactive_count">>,
   OpenBSDMem  |-> <<"size", "uvmexp", "size", "bcachestat">>,
   OpenBSDSwap |-> <<"nswap", "swapstats">>,
   WindowsMem  |-> <<"memorystatus">>,
   WindowsSwap |-> <<"memorystatus">>]

MemGets == DOMAIN Questions

SwapGetters == {"LinuxSwap", "DarwinSwap", "OpenBSDSwap", "WindowsSwap"}

\* The getters whose changing numbers are all of one answer.
OneReading == MemGets \ {"FreeBSDMem", "OpenBSDMem"}

New == [Total |-> 0, Free |-> 0, Used |-> 0, ActualFree |-> 0, ActualUsed |-> 0]

Minus(a, b) == (a - b) % Word

Plus(a, b) == (a + b) % Word

-----------------------------------------------------------------------------
(* The kernels *)

\* What an answer tells about the moment it was given.
Answer(question) ==
  CASE question \in {"meminfo", "vm_info", "memorystatus"} ->
         [got EXCEPT !.free = free, !.inactive = inactive, !.swap = swapUsed]
    [] question \in {"free_count", "uvmexp"} -> [got EXCEPT !.free = free]
    [] question \in {"inactive_count", "bcachestat"} -> [got EXCEPT !.inactive = inactive]
    [] question \in {"swapusage", "swapstats"} -> [got EXCEPT !.swap = swapUsed]
    [] OTHER -> got

\* Pages move: they are allocated, freed, aged and reclaimed, and swapped.
Move ==
  /\ \/ free > 0 /\ free' = free - 1 /\ UNCHANGED <<inactive, swapUsed>>
     \/ free + inactive < Pages /\ free' = free + 1 /\ UNCHANGED <<inactive, swapUsed>>
     \/ free + inactive < Pages /\ inactive' = inactive + 1 /\ UNCHANGED <<free, swapUsed>>
     \/ inactive > 0 /\ inactive' = inactive - 1 /\ free' = free + 1 /\ UNCHANGED swapUsed
     \/ swapUsed' \in {swapUsed - 1, swapUsed + 1} \cap 0..SwapPages /\ UNCHANGED <<free, inactive>>
  /\ moved' = TRUE
  /\ UNCHANGED memCall

-----------------------------------------------------------------------------
(* What each Get makes of the answers *)

\* An older kernel, whose /proc/meminfo has no MemAvailable.
NoEstimate == -1

\* /proc/meminfo, with the kernel's estimate or with buffers and cache.
LinuxMem(a, available) ==
  LET actual == IF available # NoEstimate THEN available ELSE Plus(a.free, a.inactive)
  IN  [Total |-> Pages, Free |-> a.free, Used |-> Minus(Pages, a.free),
       ActualFree |-> actual, ActualUsed |-> Minus(Pages, actual)]

\* Variant: ActualUsed still counts the inactive pages.
InactiveUsed(a) ==
  [Total |-> Pages, Free |-> a.free, Used |-> Minus(Pages, a.free),
   ActualFree |-> Plus(a.free, a.inactive), ActualUsed |-> Minus(Pages, a.free)]

\* Inactive (buffer) pages count as free.
InactiveFree(a) ==
  [Total |-> Pages, Free |-> a.free, Used |-> Minus(Pages, a.free),
   ActualFree |-> Plus(a.free, a.inactive),
   ActualUsed |-> Minus(Minus(Pages, a.free), a.inactive)]

DarwinMem(a) == InactiveFree(a)

FreeBSDMem(a) == InactiveFree(a)

OpenBSDMem(a) == InactiveFree(a)

\* AvailPhys holds the free and the standby pages.
WindowsMem(a) ==
  LET avail == a.free + a.inactive
  IN  [Total |-> Pages, Free |-> avail, Used |-> Minus(Pages, avail),
       ActualFree |-> avail, ActualUsed |-> Minus(Pages, avail)]

SwapOf(a) ==
  [New EXCEPT !.Total = SwapPages, !.Free = SwapPages - a.swap,
              !.Used = Minus(SwapPages, SwapPages - a.swap)]

LinuxSwap(a) == SwapOf(a)

\* Darwin is told Used instead of computing it.
DarwinSwap(a) == [SwapOf(a) EXCEPT !.Used = a.swap]

\* The page file.
WindowsSwap(a) == SwapOf(a)

\* A swap device of OpenBSD, in blocks.
SwapDevices ==
  {d \in [enabled : BOOLEAN, inuse : 0..SwapPages, nblks : 0..SwapPages] : d.inuse <= d.nblks}

\* Two devices that make up the swap space; one of them may be empty.
SwapTables(a) ==
  {t \in SwapDevices \X SwapDevices : /\ t[1].inuse + t[2].inuse = a.swap
                                     /\ t[1].nblks + t[2].nblks = SwapPages}

\* Kilobytes, of two blocks each, of a device that is enabled.
Kilobytes(d, blocks) == IF d.enabled THEN blocks \div 2 ELSE 0

\* OpenBSD adds its devices to what the receiver holds.
OpenBSDSwap(t, r) ==
  LET used == Plus(Plus(r.Used, Kilobytes(t[1], t[1].inuse)), Kilobytes(t[2], t[2].inuse))
      total == Plus(Plus(r.Total, Kilobytes(t[1], t[1].nblks)), Kilobytes(t[2], t[2].nblks))
  IN  [New EXCEPT !.Total = total, !.Used = used, !.Free = Minus(total, used)]

Fill(g, a, r) ==
  CASE g = "LinuxMem" -> {LinuxMem(a, available) : available \in 0..Pages \cup {NoEstimate}}
    [] g = "DarwinMem" -> {DarwinMem(a)}
    [] g = "FreeBSDMem" -> {FreeBSDMem(a)}
    [] g = "OpenBSDMem" -> {OpenBSDMem(a)}
    [] g = "WindowsMem" -> {WindowsMem(a)}
    [] g = "OpenBSDSwap" -> {OpenBSDSwap(t, r) : t \in SwapTables(a)}
    [] g = "LinuxSwap" -> {LinuxSwap(a)}
    [] g = "DarwinSwap" -> {DarwinSwap(a)}
    [] g = "WindowsSwap" -> {WindowsSwap(a)}

\* The field that is stored before the last question is asked.
Early(question, a) ==
  CASE question = "memsize" -> [mem EXCEPT !.Total = Pages]
    [] question = "free_count" -> [mem EXCEPT !.Free = a.free]
    [] OTHER -> mem

-----------------------------------------------------------------------------

MemInit ==
  /\ free \in 0..Pages /\ inactive \in 0..Pages /\ free + inactive <= Pages
  /\ swapUsed \in 0..SwapPages
  /\ memGetter \in MemGets
  /\ asked = <<>>
  /\ got = [free |-> 0, inactive |-> 0, swap |-> 0]
  /\ mem = New
  /\ memResult = "new"
  /\ filled = FALSE /\ moved = FALSE /\ reused = FALSE

\* A Get on a new receiver, or a second one of the same getter on the receiver
\* of its first.
CallMem(g) ==
  /\ memResult # "running"
  /\ memGetter' = g
  /\ asked' = Questions[g]
  /\ got' = [free |-> 0, inactive |-> 0, swap |-> 0]
  /\ \/ mem' = New /\ reused' = FALSE
     \/ g = memGetter /\ ~reused /\ reused' = (mem # New) /\ UNCHANGED mem
  /\ memResult' = "running"
  /\ filled' = FALSE
  /\ moved' = FALSE
  /\ UNCHANGED memHost

Ask ==
  /\ memResult = "running"
  /\ got' = Answer(Head(asked))
  /\ asked' = Tail(asked)
  /\ IF Len(asked) = 1
       THEN mem' \in Fill(memGetter, got', mem) /\ memResult' = "ok" /\ filled' = TRUE
       ELSE mem' = Early(Head(asked), got') /\ UNCHANGED <<memResult, filled>>
  /\ UNCHANGED <<memHost, memGetter, moved, reused>>

Silent == {"OpenBSDMem", "OpenBSDSwap"}

\* The kernel refuses to answer, or has no swap devices to tell of; OpenBSD's
\* getters return nil all the same.
Refuse ==
  /\ memResult = "running"
  /\ memResult' = IF memGetter \in Silent THEN "ok" ELSE "error"
  /\ asked' = <<>>
  /\ UNCHANGED <<memHost, memGetter, got, mem, filled, moved, reused>>

MemNext == (\E g \in MemGets : CallMem(g)) \/ Ask \/ Refuse \/ Move

-----------------------------------------------------------------------------

\* Every variable holds a value of its kind, and the fields are words.
MemTypeOK ==
  /\ free \in 0..Pages /\ inactive \in 0..Pages - free /\ swapUsed \in 0..SwapPages
  /\ memGetter \in MemGets
  /\ memResult \in {"new", "running", "ok", "error"}
  /\ memResult = "running" <=> asked # <<>>
  /\ got \in [free : 0..Pages, inactive : 0..Pages, swap : 0..SwapPages]
  /\ mem \in [DOMAIN New -> 0..Word - 1]
  /\ {filled, moved, reused} \subseteq BOOLEAN
  /\ filled => memResult = "ok"

\* The parts add up to the whole on every platform, however the pages move
\* between two answers: what is counted as free is not counted as used.
Balanced ==
  filled => /\ Plus(mem.Used, mem.Free) = mem.Total
            /\ memGetter \notin SwapGetters =>
                 Plus(mem.ActualUsed, mem.ActualFree) = mem.Total

\* No field wraps below zero when all numbers come from one answer, even if
\* pages move during the call, nor on any platform when no page has moved.
NoWrap ==
  filled /\ ~reused /\ (memGetter \in OneReading \/ ~moved) =>
    \A f \in DOMAIN New : mem[f] <= mem.Total

\* A success means that the fields were computed, and they describe the host of
\* this call alone: a receiver that is used again does not show.  OpenBSD, which
\* returns nil when the kernel refuses and adds up its swap devices in the
\* receiver, is the exception.
MemSuccessIsCurrent ==
  memResult = "ok" /\ memGetter \notin Silent =>
    /\ filled
    /\ mem \in Fill(memGetter, got, New)

\* The fields are parts of the total: they add up to it, and none exceeds it
\* but where two answers of the kernel describe two moments.
MemoryAddsUp == Balanced /\ NoWrap

=============================================================================
