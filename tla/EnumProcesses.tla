---------------------------- MODULE EnumProcesses ----------------------------
(***************************************************************************)
(* sys/windows/syscall_windows.go, EnumProcesses: the process ids of the   *)
(* host, read with arrays of growing size while the number of processes    *)
(* changes between the calls.  The ids themselves do not matter to the     *)
(* loop, so a list of ids is its length.                                   *)
(***************************************************************************)
EXTENDS Naturals

CONSTANT Counts         \* the numbers of processes the host may have

ASSUME CountsAssumption == Counts \subseteq Nat

VARIABLES count,        \* processes on the host now
          pc,           \* "call", "returned" or "failed"
          size,         \* the length of the array of the next call
          tries,        \* calls made so far
          pids,         \* ids returned by the last call
          seen          \* history: processes on the host at the last call

vars == <<count, pc, size, tries, pids, seen>>

FirstSize == 2048

MaxTries == 5

Init ==
  /\ count \in Counts
  /\ pc = "call"
  /\ size = FirstSize
  /\ tries = 0
  /\ pids = 0
  /\ seen = 0

Change ==
  /\ count' \in Counts
  /\ UNCHANGED <<pc, size, tries, pids, seen>>

\* psapi fills the array as far as it goes and reports success either way.
Filled == IF count < size THEN count ELSE size

\* Variant: a full array is taken for a complete one.
CallAcceptsFull ==
  /\ pc = "call"
  /\ pids' = Filled
  /\ seen' = count
  /\ tries' = tries + 1
  /\ IF pids' <= size
       THEN pc' = "returned" /\ UNCHANGED size
       ELSE pc' = "call" /\ size' = size * 2
  /\ UNCHANGED count

\* One iteration of the loop: an array that is not full ends it, as does the
\* last try.
Call ==
  /\ pc = "call"
  /\ pids' = Filled
  /\ seen' = count
  /\ tries' = tries + 1
  /\ IF pids' < size
       THEN pc' = "returned" /\ UNCHANGED size
       ELSE /\ pc' = IF tries' < MaxTries THEN "call" ELSE "returned"
            /\ size' = size * 2
  /\ UNCHANGED count

\* The API fails, or reports a number of bytes that is no whole number of ids
\* or more than the array holds.
Fail ==
  /\ pc = "call"
  /\ pc' = "failed"
  /\ UNCHANGED <<count, size, tries, pids, seen>>

Next == Change \/ Call \/ Fail

Spec == Init /\ [][Next]_vars

\* The caller's goroutine runs; the API returns.
FairSpec == Spec /\ WF_vars(Call \/ Fail)

-----------------------------------------------------------------------------

\* The array of each try is twice as long as that of the one before.
Sizes == {<<0, 2048>>, <<1, 4096>>, <<2, 8192>>, <<3, 16384>>, <<4, 32768>>}

\* While EnumProcesses tries, its array has the size of the try it is at.
TriesInv ==
  /\ count \in Nat /\ pids \in Nat /\ seen \in Nat /\ size \in Nat /\ tries \in Nat
  /\ pc \in {"call", "returned", "failed"}
  /\ pc = "call" => <<tries, size>> \in Sizes

\* A list that EnumProcesses returns misses a process only when the host has
\* more than the largest array holds, however the number of processes changes
\* between the tries; it then fills that array.
MissesOnlyBeyondLargest ==
  pc = "returned" => pids = seen \/ (pids = 32768 /\ seen > 32768)

\* "This function can return a max of 65536 PIDs": a host with no more processes
\* has them all returned.
ReturnsUpTo65536 == pc = "returned" /\ seen <= 65536 => pids = seen

\* EnumProcesses comes to an end although every list may be outgrown.
Returns == <>(pc # "call")

=============================================================================
