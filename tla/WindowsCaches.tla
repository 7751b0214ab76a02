----------------------------- MODULE WindowsCaches -----------------------------
(***************************************************************************)
(* The two values the Windows code looks up once and keeps under a mutex:  *)
(* the boot time of Uptime.Get (sigar_windows.go), whose WMI answer moves  *)
(* with the clock of the host, and the LUIDs of mapPrivileges              *)
(* (sys/windows/privileges.go), of which one call asks for several.        *)
(***************************************************************************)
EXTENDS Integers, Sequences, WindowsVersion

CONSTANTS Callers,      \* goroutines
          NameLists,    \* the lists of privileges EnableTokenPrivileges is called with
          BootTimes     \* what WMI may answer, as the clock is set

ASSUME CachesAssumption == BootTimes \subseteq Nat \ {0} /\ NameLists \subseteq Seq(STRING)

VARIABLES bootTime,     \* 0 is nil
          privNames,    \* the names whose LUID is known
          lockedBy,     \* the callers inside a critical section
          where,        \* where a caller is
          names,        \* the list of its last mapPrivileges
          answer,       \* the boot time of its last Uptime.Get, 0 if it failed
          privileges,   \* the LUIDs mapPrivileges has so far; a LUID is its name
          lastErr       \* its last mapPrivileges failed

cacheVars == <<bootTime, privNames, lockedBy, where, names, answer, privileges, lastErr>>

CacheInit ==
  /\ bootTime = 0
  /\ privNames = {}
  /\ lockedBy = {}
  /\ where = [c \in Callers |-> "idle"]
  /\ names = [c \in Callers |-> << >>]
  /\ answer = [c \in Callers |-> 0]
  /\ privileges = [c \in Callers |-> << >>]
  /\ lastErr = [c \in Callers |-> FALSE]

\* bootTimeLock guards bootTime, privNameMutex privNames: no caller needs
\* both, and a behaviour is about one of them.  Before Vista the call returns
\* ErrNotImplemented at once.
CallUptime(c) ==
  /\ where[c] = "idle"
  /\ IF vista
       THEN where' = [where EXCEPT ![c] = "uptime lock"] /\ UNCHANGED answer
       ELSE answer' = [answer EXCEPT ![c] = 0] /\ UNCHANGED where
  /\ UNCHANGED <<bootTime, privNames, lockedBy, privileges, lastErr, names>>

\* Variant: bootTime is tested before the lock is taken.
UptimeLockLate(c) ==
  /\ where[c] = "uptime lock"
  /\ lockedBy' = lockedBy \cup {c}
  /\ where' = [where EXCEPT ![c] = IF bootTime = 0 THEN "query" ELSE "since"]
  /\ UNCHANGED <<bootTime, privNames, answer, privileges, lastErr, names>>

UptimeLock(c) ==
  /\ where[c] = "uptime lock"
  /\ lockedBy = {}
  /\ lockedBy' = {c}
  /\ where' = [where EXCEPT ![c] = IF bootTime = 0 THEN "query" ELSE "since"]
  /\ UNCHANGED <<bootTime, privNames, answer, privileges, lastErr, names>>

getWin32OperatingSystem(c) ==
  /\ where[c] = "query"
  /\ bootTime' \in BootTimes
  /\ where' = [where EXCEPT ![c] = "since"]
  /\ UNCHANGED <<privNames, lockedBy, answer, privileges, lastErr, names>>

\* Variant: the error returns without the unlock.
WMIFailsLocked(c) ==
  /\ where[c] = "query"
  /\ answer' = [answer EXCEPT ![c] = 0]
  /\ where' = [where EXCEPT ![c] = "idle"]
  /\ UNCHANGED <<bootTime, privNames, lockedBy, privileges, lastErr, names>>

\* The query fails, or does not return one row: bootTime stays nil.
WMIFails(c) ==
  /\ where[c] = "query"
  /\ answer' = [answer EXCEPT ![c] = 0]
  /\ where' = [where EXCEPT ![c] = "idle"]
  /\ lockedBy' = lockedBy \ {c}
  /\ UNCHANGED <<bootTime, privNames, privileges, lastErr, names>>

Since(c) ==
  /\ where[c] = "since"
  /\ answer' = [answer EXCEPT ![c] = bootTime]
  /\ where' = [where EXCEPT ![c] = "idle"]
  /\ lockedBy' = lockedBy \ {c}
  /\ UNCHANGED <<bootTime, privNames, privileges, lastErr, names>>

CallMapPrivileges(c) ==
  /\ where[c] = "idle"
  /\ \E list \in NameLists : names' = [names EXCEPT ![c] = list]
  /\ where' = [where EXCEPT ![c] = "priv lock"]
  /\ privileges' = [privileges EXCEPT ![c] = << >>]
  /\ lastErr' = [lastErr EXCEPT ![c] = FALSE]
  /\ UNCHANGED <<bootTime, privNames, lockedBy, answer>>

\* Variant: the map is used without its mutex.
PrivLockNever(c) ==
  /\ where[c] = "priv lock"
  /\ where' = [where EXCEPT ![c] = "names"]
  /\ UNCHANGED <<bootTime, privNames, lockedBy, answer, privileges, lastErr, names>>

PrivLock(c) ==
  /\ where[c] = "priv lock"
  /\ lockedBy = {}
  /\ lockedBy' = {c}
  /\ where' = [where EXCEPT ![c] = "names"]
  /\ UNCHANGED <<bootTime, privNames, answer, privileges, lastErr, names>>

NextName(c) == names[c][Len(privileges[c]) + 1]

\* Variant: a name found in the map is not added to the result.
KnownNameSkipped(c) ==
  /\ where[c] = "names"
  /\ Len(privileges[c]) < Len(names[c])
  /\ NextName(c) \in privNames
  /\ where' = [where EXCEPT ![c] = "unlock"]
  /\ UNCHANGED <<bootTime, privNames, lockedBy, answer, privileges, lastErr, names>>

KnownName(c) ==
  /\ where[c] = "names"
  /\ Len(privileges[c]) < Len(names[c])
  /\ NextName(c) \in privNames
  /\ privileges' = [privileges EXCEPT ![c] = Append(@, NextName(c))]
  /\ UNCHANGED <<bootTime, privNames, lockedBy, where, answer, lastErr, names>>

LookupName(c) ==
  /\ where[c] = "names"
  /\ Len(privileges[c]) < Len(names[c])
  /\ NextName(c) \notin privNames
  /\ privNames' = privNames \cup {NextName(c)}
  /\ privileges' = [privileges EXCEPT ![c] = Append(@, NextName(c))]
  /\ UNCHANGED <<bootTime, lockedBy, where, answer, lastErr, names>>

\* LookupPrivilegeValue fails: no list is returned, the names before it stay
\* in the map.
LookupFails(c) ==
  /\ where[c] = "names"
  /\ Len(privileges[c]) < Len(names[c])
  /\ NextName(c) \notin privNames
  /\ privileges' = [privileges EXCEPT ![c] = << >>]
  /\ lastErr' = [lastErr EXCEPT ![c] = TRUE]
  /\ where' = [where EXCEPT ![c] = "unlock"]
  /\ UNCHANGED <<bootTime, privNames, lockedBy, answer, names>>

AllNames(c) ==
  /\ where[c] = "names"
  /\ Len(privileges[c]) = Len(names[c])
  /\ where' = [where EXCEPT ![c] = "unlock"]
  /\ UNCHANGED <<bootTime, privNames, lockedBy, answer, privileges, lastErr, names>>

PrivUnlock(c) ==
  /\ where[c] = "unlock"
  /\ lockedBy' = lockedBy \ {c}
  /\ where' = [where EXCEPT ![c] = "idle"]
  /\ UNCHANGED <<bootTime, privNames, answer, privileges, lastErr, names>>

UptimeStep(c) == UptimeLock(c) \/ getWin32OperatingSystem(c) \/ WMIFails(c) \/ Since(c)

PrivStep(c) ==
  PrivLock(c) \/ KnownName(c) \/ LookupName(c) \/ LookupFails(c) \/ AllNames(c) \/ PrivUnlock(c)

UptimeNext == \E c \in Callers : CallUptime(c) \/ UptimeStep(c)

PrivNext == \E c \in Callers : CallMapPrivileges(c) \/ PrivStep(c)

\* A goroutine inside a Get runs on; sync.Mutex hands itself to a waiter that
\* it has starved.
CacheFairness ==
  \A c \in Callers : /\ SF_cacheVars(UptimeStep(c))
                     /\ SF_cacheVars(PrivStep(c))

-----------------------------------------------------------------------------

\* Every Uptime.Get that succeeds measures from one boot time, although WMI
\* would answer another after the clock was set.
OneBootTime ==
  \A c, d \in Callers : answer[c] # 0 /\ answer[d] # 0 => answer[c] = answer[d]

\* privNames, a Go map, is used by one goroutine at a time, as the runtime asks
\* of a map that is written, and so is bootTime.
CachesAreGuarded ==
  \A c, d \in Callers :
    {where[c], where[d]} \subseteq {"query", "since", "names"} => c = d

\* mapPrivileges returns the LUID of each name it was given, in their order,
\* or an error: also when another call, or an earlier one that failed, had put
\* some of the names in the map.
PrivilegesInOrder ==
  \A c \in Callers : where[c] = "unlock" => IF lastErr[c] THEN privileges[c] = << >>
                                                          ELSE privileges[c] = names[c]

\* A call of Uptime.Get or mapPrivileges returns, whatever calls fail before
\* it: every return path gives up the mutex.
CachedGetReturns == \A c \in Callers : where[c] # "idle" ~> where[c] = "idle"

=============================================================================
