------------------------------ MODULE WindowsHost ------------------------------
(***************************************************************************)
(* The Windows getters together.  They share no state but the two caches,  *)
(* so a behaviour is that of one part of the host: the list of processes,  *)
(* the getters of a process, the boot time, the privileges or the volumes. *)
(***************************************************************************)
EXTENDS EnumProcesses, WindowsProcess, WindowsCaches, WindowsVolumes

VARIABLE part

hostVars == <<part, vista, vars, procVars, cacheVars, volVars>>

Parts == {"list", "process", "uptime", "privileges", "volumes"}

HostInit ==
  /\ part \in Parts
  /\ vista \in BOOLEAN /\ (part \notin {"process", "uptime"} => vista)
  /\ Init /\ ProcInit /\ CacheInit /\ VolInit
  /\ part # "list" => count = 0
  /\ part # "process" => granted = {}
  /\ part # "volumes" => Mounted = {}

HostNext ==
  /\ UNCHANGED <<part, vista>>
  /\ \/ part = "list" /\ Next /\ UNCHANGED <<procVars, cacheVars, volVars>>
     \/ part = "process" /\ ProcNext /\ UNCHANGED <<vars, cacheVars, volVars>>
     \/ part = "uptime" /\ UptimeNext /\ UNCHANGED <<vars, procVars, volVars>>
     \/ part = "privileges" /\ PrivNext /\ UNCHANGED <<vars, procVars, volVars>>
     \/ part = "volumes" /\ VolNext /\ UNCHANGED <<vars, procVars, cacheVars>>

HostSpec ==
  /\ HostInit /\ [][HostNext]_hostVars
  /\ part = "list" => WF_vars(Call \/ Fail)
  /\ CacheFairness

-----------------------------------------------------------------------------

\* EnumProcesses, once called, comes to an end.
ListReturns == part = "list" => Returns

\* A call that retries, or that waits for the mutex of a cache, returns.
WindowsCallsReturn == ListReturns /\ CachedGetReturns

=============================================================================
