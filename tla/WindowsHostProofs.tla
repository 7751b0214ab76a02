--------------------------- MODULE WindowsHostProofs ---------------------------
(***************************************************************************)
(* Proofs about the parts of WindowsHost: the list of processes for any    *)
(* numbers of them; the getters of a process for any number of processes   *)
(* that share its pid; the two caches for any number of goroutines, any    *)
(* list of privileges and any answers of WMI; and any number of volumes.   *)
(***************************************************************************)
EXTENDS WindowsHost, SequenceTheorems, TLAPS

-----------------------------------------------------------------------------
(* The list of processes *)

\* Both facts together: the list is complete because a try that returns
\* before the last one had room to spare, and the last one has 32768 places.
EnumInv == TriesInv /\ MissesOnlyBeyondLargest

\* EnumProcesses begins with no call made.
LEMMA InitEnum == Init => EnumInv
  BY CountsAssumption DEF Init, FirstSize, EnumInv, TriesInv, Sizes, MissesOnlyBeyondLargest

\* One call keeps both: the five sizes are told apart.
LEMMA CallEnum == EnumInv /\ Call => EnumInv'
<1> SUFFICES ASSUME EnumInv, Call PROVE EnumInv'
  OBVIOUS
<1> USE DEF EnumInv, TriesInv
<1>1. /\ pids' = Filled /\ seen' = count /\ tries' = tries + 1 /\ count' = count
      /\ count \in Nat /\ size \in Nat /\ tries \in Nat
  BY DEF Call
<1>2. <<tries, size>> \in Sizes
  BY DEF Call
<1>3. Filled \in Nat /\ (Filled < size => Filled = count) /\ (Filled >= size => Filled = size /\ count >= size)
  BY <1>1 DEF Filled
<1>4. CASE Filled < size
  <2>1. pc' = "returned" /\ size' = size /\ pids' = seen'
    BY <1>1, <1>3, <1>4 DEF Call
  <2> QED
    BY <1>1, <1>3, <2>1 DEF MissesOnlyBeyondLargest
<1>5. CASE ~(Filled < size)
  <2>1. /\ pc' = IF tries' < 5 THEN "call" ELSE "returned"
        /\ size' = size * 2
    BY <1>1, <1>5 DEF Call, MaxTries
  <2>2. pids' = size /\ seen' >= size /\ seen' \in Nat
    BY <1>1, <1>3, <1>5
  <2>3. tries \in 0..4 /\ (tries < 4 => <<tries', size'>> \in Sizes) /\ (tries = 4 => size = 32768)
    BY <1>1, <1>2, <2>1 DEF Sizes
  <2>4. size' \in Nat
    BY <1>1, <2>1
  <2>5. tries < 4 => pc' = "call"
    BY <1>1, <2>1, <2>3
  <2>6. tries = 4 => pc' = "returned"
    BY <1>1, <2>1
  <2>7. TriesInv'
    BY <1>1, <2>1, <2>2, <2>3, <2>4, <2>6
  <2>8. MissesOnlyBeyondLargest'
    BY <2>2, <2>3, <2>5 DEF MissesOnlyBeyondLargest
  <2> QED
    BY <2>7, <2>8
<1> QED
  BY <1>4, <1>5

\* So does every step.
LEMMA NextEnum == EnumInv /\ [Next]_vars => EnumInv'
<1> SUFFICES ASSUME EnumInv, [Next]_vars PROVE EnumInv'
  OBVIOUS
<1>1. CASE Change \/ UNCHANGED vars
  <2>1. count' \in Nat /\ UNCHANGED <<pc, size, tries, pids, seen>>
    BY <1>1, CountsAssumption, Zenon DEF Change, vars, EnumInv, TriesInv
  <2> QED
    BY <2>1 DEF EnumInv, TriesInv, Sizes, MissesOnlyBeyondLargest
<1>2. CASE Fail
  BY <1>2 DEF Fail, EnumInv, TriesInv, MissesOnlyBeyondLargest
<1>3. CASE Call
  BY <1>3, CallEnum
<1> QED
  BY <1>1, <1>2, <1>3 DEF Next

\* The same while the rest of the host runs.
LEMMA EnumInvariant == HostSpec => []EnumInv
<1>1. HostInit => EnumInv
  BY InitEnum DEF HostInit
<1>2. EnumInv /\ [HostNext]_hostVars => EnumInv'
  <2>1. [HostNext]_hostVars => [Next]_vars
    BY DEF HostNext, hostVars
  <2> QED
    BY <2>1, NextEnum
<1> QED
  BY <1>1, <1>2, PTL DEF HostSpec

\* EnumProcesses returns every process of a host with up to 32768 of them,
\* whatever happens between its calls.
THEOREM EnumComplete == HostSpec => []MissesOnlyBeyondLargest
<1>1. EnumInv => MissesOnlyBeyondLargest
  BY DEF EnumInv
<1> QED
  BY <1>1, EnumInvariant, PTL

-----------------------------------------------------------------------------
(* The caches *)

Places == {"idle", "uptime lock", "query", "since", "priv lock", "names", "unlock"}

CacheTypes ==
  /\ bootTime \in Nat
  /\ where \in [Callers -> Places]
  /\ names \in [Callers -> Seq(STRING)]
  /\ answer \in [Callers -> Nat]
  /\ privileges \in [Callers -> Seq(STRING)]
  /\ lastErr \in [Callers -> BOOLEAN]

\* A caller is inside a critical section exactly when it holds the mutex.
LockInv ==
  \A c \in Callers : where[c] \in {"query", "since", "names", "unlock"} => lockedBy = {c}

\* WMI is asked only while the boot time is nil, and while it is nil no one
\* has an answer.
BootInv ==
  \A c \in Callers : /\ where[c] = "query" => bootTime = 0
                     /\ answer[c] # 0 => answer[c] = bootTime

\* mapPrivileges has the LUIDs of a first part of the names, from its call on.
PrefixInv ==
  \A c \in Callers : where[c] \in {"priv lock", "names"} =>
    /\ ~lastErr[c]
    /\ Len(privileges[c]) <= Len(names[c])
    /\ \A i \in 1..Len(privileges[c]) : privileges[c][i] = names[c][i]

CacheInv == CacheTypes /\ LockInv /\ BootInv /\ PrefixInv /\ PrivilegesInOrder

-----------------------------------------------------------------------------

\* The caches start empty, with no caller inside.
LEMMA CacheInitially == CacheInit => CacheInv
<1> SUFFICES ASSUME CacheInit PROVE CacheInv
  OBVIOUS
<1>0. << >> \in Seq(STRING)
  OBVIOUS
<1>1. CacheTypes
  BY <1>0 DEF CacheInit, CacheTypes, Places
<1>2. LockInv /\ BootInv /\ PrefixInv /\ PrivilegesInOrder
  BY DEF CacheInit, LockInv, BootInv, PrefixInv, PrivilegesInOrder
<1> QED
  BY <1>1, <1>2 DEF CacheInv

\* Every step of Uptime.Get keeps the invariant: only the holder of
\* bootTimeLock sets the boot time, and only once.
LEMMA UptimeKeeps == CacheInv /\ UptimeNext => CacheInv'
<1> SUFFICES ASSUME CacheInv,
                    NEW c \in Callers, CallUptime(c) \/ UptimeStep(c)
             PROVE  CacheInv'
  BY DEF UptimeNext
<1> USE CachesAssumption
<1>1. CASE CallUptime(c)
  <2>0. /\ where[c] = "idle"
        /\ UNCHANGED <<bootTime, privNames, lockedBy, privileges, lastErr, names>>
    BY <1>1, Zenon DEF CallUptime
  <2>1. CASE vista
    <3>1. where' = [where EXCEPT ![c] = "uptime lock"] /\ answer' = answer
      BY <1>1, <2>1, Zenon DEF CallUptime
    <3> QED
      BY <2>0, <3>1, Zenon DEF CacheInv, CacheTypes, Places, LockInv, BootInv, PrefixInv,
                PrivilegesInOrder
  <2>2. CASE ~vista
    <3>1. answer' = [answer EXCEPT ![c] = 0] /\ where' = where
      BY <1>1, <2>2, Zenon DEF CallUptime
    <3> QED
      BY <2>0, <3>1, Zenon DEF CacheInv, CacheTypes, Places, LockInv, BootInv, PrefixInv,
                PrivilegesInOrder
  <2> QED
    BY <2>1, <2>2, Zenon
<1>2. CASE UptimeLock(c)
  BY <1>2, Zenon DEF UptimeLock, CacheInv, CacheTypes, Places, LockInv, BootInv, PrefixInv,
              PrivilegesInOrder
<1>3. CASE getWin32OperatingSystem(c)
  <2>1. bootTime = 0 /\ bootTime' \in Nat /\ \A d \in Callers : answer[d] = 0
    BY <1>3 DEF getWin32OperatingSystem, CacheInv, BootInv, CacheTypes
  <2>2. \A d \in Callers \ {c} : where[d] # "query"
    BY <1>3, Zenon DEF getWin32OperatingSystem, CacheInv, LockInv
  <2> QED
    BY <1>3, <2>1, <2>2, Zenon DEF getWin32OperatingSystem, CacheInv, CacheTypes, Places, LockInv,
                            BootInv, PrefixInv, PrivilegesInOrder
<1>4. CASE WMIFails(c)
  BY <1>4, Zenon DEF WMIFails, CacheInv, CacheTypes, Places, LockInv, BootInv, PrefixInv,
              PrivilegesInOrder
<1>5. CASE Since(c)
  BY <1>5, Zenon DEF Since, CacheInv, CacheTypes, Places, LockInv, BootInv, PrefixInv,
              PrivilegesInOrder
<1> QED
  BY <1>1, <1>2, <1>3, <1>4, <1>5 DEF UptimeStep

\* Adding the next name keeps a first part of the names one.
LEMMA PrefixGrows ==
  ASSUME NEW n \in Seq(STRING), NEW s \in Seq(STRING), Len(s) < Len(n),
         \A i \in 1..Len(s) : s[i] = n[i]
  PROVE  LET t == Append(s, n[Len(s) + 1]) IN
           /\ t \in Seq(STRING)
           /\ Len(t) <= Len(n)
           /\ \A i \in 1..Len(t) : t[i] = n[i]
<1>1. n[Len(s) + 1] \in STRING
  OBVIOUS
<1> QED
  BY <1>1

\* Every step of mapPrivileges keeps the invariant.
LEMMA PrivKeeps == CacheInv /\ PrivNext => CacheInv'
<1> SUFFICES ASSUME CacheInv,
                    NEW c \in Callers, CallMapPrivileges(c) \/ PrivStep(c)
             PROVE  CacheInv'
  BY DEF PrivNext
<1>0. << >> \in Seq(STRING)
  OBVIOUS
<1>len. 1..0 = {} /\ \A s \in Seq(STRING) : 0 <= Len(s)
  OBVIOUS
<1>1. CASE CallMapPrivileges(c)
  <2>0. PICK n \in NameLists : names' = [names EXCEPT ![c] = n]
    BY <1>1, Zenon DEF CallMapPrivileges
  <2>1. /\ privileges' = [privileges EXCEPT ![c] = << >>]
        /\ lastErr' = [lastErr EXCEPT ![c] = FALSE]
        /\ where' = [where EXCEPT ![c] = "priv lock"]
        /\ UNCHANGED <<bootTime, lockedBy, answer>>
    BY <1>1, Zenon DEF CallMapPrivileges
  <2>n. n \in Seq(STRING)
    BY CachesAssumption
  <2>2. CacheTypes'
    BY <1>0, <2>0, <2>1, <2>n, Zenon DEF CacheInv, CacheTypes, Places
  <2>3. LockInv' /\ BootInv'
    BY <2>1, Zenon DEF CacheInv, CacheTypes, LockInv, BootInv
  <2>4. /\ privileges'[c] = << >> /\ ~lastErr'[c] /\ Len(privileges'[c]) = 0
        /\ names'[c] \in Seq(STRING) /\ where'[c] = "priv lock"
    BY <2>0, <2>1, <2>n, Zenon DEF CacheInv, CacheTypes
  <2>5. \A d \in Callers \ {c} :
          /\ privileges'[d] = privileges[d]
          /\ lastErr'[d] = lastErr[d]
          /\ where'[d] = where[d]
          /\ names'[d] = names[d]
    BY <2>0, <2>1, Zenon DEF CacheInv, CacheTypes
  <2>6. PrefixInv'
    <3> SUFFICES ASSUME NEW d \in Callers, where'[d] \in {"priv lock", "names"}
                 PROVE  /\ ~lastErr'[d]
                        /\ Len(privileges'[d]) <= Len(names'[d])
                        /\ \A i \in 1..Len(privileges'[d]) : privileges'[d][i] = names'[d][i]
      BY Zenon DEF PrefixInv
    <3>1. CASE d = c
      <4>1. ~lastErr'[d] /\ Len(privileges'[d]) = 0 /\ names'[d] \in Seq(STRING)
        BY <2>4, <3>1, Zenon
      <4> QED
        BY <1>len, <4>1, Zenon
    <3>2. CASE d # c
      BY <2>5, <3>2, Zenon DEF CacheInv, PrefixInv
    <3> QED
      BY <3>1, <3>2, Zenon
  <2>7. PrivilegesInOrder'
    BY <2>4, <2>5, Zenon DEF CacheInv, PrivilegesInOrder
  <2> QED
    BY <2>2, <2>3, <2>6, <2>7 DEF CacheInv
<1>2. CASE PrivLock(c)
  BY <1>2, ZenonT(30) DEF PrivLock, CacheInv, CacheTypes, Places, LockInv, BootInv, PrefixInv,
              PrivilegesInOrder
<1>3. CASE KnownName(c) \/ LookupName(c)
  <2>1. /\ privileges' = [privileges EXCEPT ![c] = Append(@, names[c][Len(@) + 1])]
        /\ where[c] = "names" /\ Len(privileges[c]) < Len(names[c])
        /\ UNCHANGED <<bootTime, lockedBy, where, answer, lastErr, names>>
    BY <1>3 DEF KnownName, LookupName, NextName, CacheInv, CacheTypes
  <2>2. /\ privileges'[c] \in Seq(STRING)
        /\ Len(privileges'[c]) <= Len(names[c])
        /\ \A i \in 1..Len(privileges'[c]) : privileges'[c][i] = names[c][i]
    <3>1. /\ privileges[c] \in Seq(STRING) /\ names[c] \in Seq(STRING)
          /\ \A i \in 1..Len(privileges[c]) : privileges[c][i] = names[c][i]
      BY <2>1, Zenon DEF CacheInv, CacheTypes, PrefixInv
    <3>2. privileges'[c] = Append(privileges[c], names[c][Len(privileges[c]) + 1])
      BY <2>1 DEF CacheInv, CacheTypes
    <3>3. Len(privileges[c]) < Len(names[c])
      BY <2>1
    <3> HIDE <2>1
    <3> DEFINE t == Append(privileges[c], names[c][Len(privileges[c]) + 1])
    <3>4. /\ t \in Seq(STRING)
          /\ Len(t) <= Len(names[c])
          /\ \A i \in 1..Len(t) : t[i] = names[c][i]
      BY ONLY <3>1, <3>3, PrefixGrows, Zenon
    <3> QED
      BY <3>2, <3>4, Zenon
  <2>3. \A d \in Callers \ {c} : privileges'[d] = privileges[d]
    BY <2>1 DEF CacheInv, CacheTypes
  <2>4. CacheTypes' /\ LockInv' /\ BootInv'
    BY <2>1, <2>2 DEF CacheInv, CacheTypes, LockInv, BootInv
  <2>5. PrefixInv' /\ PrivilegesInOrder'
    <3>1. ~lastErr[c]
      BY <2>1, Zenon DEF CacheInv, PrefixInv
    <3>2. PrefixInv'
      BY <2>1, <2>2, <2>3, <3>1, ZenonT(30) DEF CacheInv, PrefixInv
    <3>3. PrivilegesInOrder'
      BY <2>1, <2>3 DEF CacheInv, PrivilegesInOrder
    <3> QED
      BY <3>2, <3>3
  <2> QED
    BY <2>4, <2>5 DEF CacheInv
<1>4. CASE LookupFails(c)
  BY <1>0, <1>4, Zenon DEF LookupFails, CacheInv, CacheTypes, Places, LockInv, BootInv, PrefixInv,
                    PrivilegesInOrder
<1>5. CASE AllNames(c)
  <2>1. privileges[c] = names[c]
    <3>1. /\ privileges[c] \in Seq(STRING) /\ names[c] \in Seq(STRING)
          /\ Len(privileges[c]) = Len(names[c])
          /\ \A i \in 1..Len(privileges[c]) : privileges[c][i] = names[c][i]
      BY <1>5, Zenon DEF AllNames, CacheInv, CacheTypes, PrefixInv
    <3> QED
      BY <3>1
  <2> QED
    BY <1>5, <2>1, Zenon DEF AllNames, CacheInv, CacheTypes, Places, LockInv, BootInv, PrefixInv,
                      PrivilegesInOrder
<1>6. CASE PrivUnlock(c)
  BY <1>6, Zenon DEF PrivUnlock, CacheInv, CacheTypes, Places, LockInv, BootInv, PrefixInv,
              PrivilegesInOrder
<1> QED
  BY <1>1, <1>2, <1>3, <1>4, <1>5, <1>6 DEF PrivStep

\* The invariant of the caches holds while the rest of the host runs.
LEMMA CachesInvariant == HostSpec => []CacheInv
<1>1. HostInit => CacheInv
  BY CacheInitially DEF HostInit
<1>2. CacheInv /\ [HostNext]_hostVars => CacheInv'
  <2> SUFFICES ASSUME CacheInv, [HostNext]_hostVars PROVE CacheInv'
    OBVIOUS
  <2>1. UptimeNext \/ PrivNext \/ UNCHANGED cacheVars
    BY DEF HostNext, hostVars
  <2>2. CASE UNCHANGED cacheVars
    BY <2>2, Zenon DEF cacheVars, CacheInv, CacheTypes, LockInv, BootInv, PrefixInv,
                PrivilegesInOrder
  <2> QED
    BY <2>1, <2>2, UptimeKeeps, PrivKeeps
<1> QED
  BY <1>1, <1>2, PTL DEF HostSpec

\* Uptime.Get: all answers are measured from one boot time, for any number of
\* goroutines and however often WMI fails or changes its answer.
THEOREM BootTimeCorrect == HostSpec => []OneBootTime
<1>1. CacheInv => OneBootTime
  BY DEF CacheInv, BootInv, OneBootTime
<1> QED
  BY <1>1, CachesInvariant, PTL

\* The caches are used by one goroutine at a time, for any number of them.
THEOREM CachesGuarded == HostSpec => []CachesAreGuarded
<1>1. CacheInv => CachesAreGuarded
  BY DEF CacheInv, LockInv, CachesAreGuarded
<1> QED
  BY <1>1, CachesInvariant, PTL

\* mapPrivileges: a call that succeeds returns the LUIDs of all its names in
\* order, for any lists of names, whichever of them were in the map before.
THEOREM PrivilegesCorrect == HostSpec => []PrivilegesInOrder
<1>1. CacheInv => PrivilegesInOrder
  BY DEF CacheInv
<1> QED
  BY <1>1, CachesInvariant, PTL

-----------------------------------------------------------------------------
(* The getters of a process *)

Read == Helpers["ProcState"]

\* The i-th helper of ProcState.Get has returned.
Done(i) == i < helper \/ at = "idle"

\* The fields of the helpers that have returned are of this call, in order,
\* and the others have not failed.
ReadInv ==
  \A i \in 1..4 :
    /\ Done(i) /\ Read[i] \in errs => recv[Read[i]] \in {0, RunStateUnknown}
    /\ Done(i) /\ Read[i] \notin errs => born <= recv[Read[i]] /\ recv[Read[i]] <= life
    /\ ~Done(i) => Read[i] \notin errs
    /\ \A j \in 1..4 : i < j /\ Done(i) /\ Done(j) /\ Read[i] \notin errs /\ Read[j] \notin errs =>
                         recv[Read[i]] <= recv[Read[j]]

\* A handle is for the process that has the pid, which nothing else can get
\* while the handle is open.
ProcInv ==
  /\ life \in Nat /\ born \in Nat /\ born <= life
  /\ getter \in DOMAIN Helpers \cup {"none"}
  /\ at \in {"idle", "open", "query", "user", "close", "account"}
  /\ at # "idle" => getter # "none"
  /\ helper \in Nat /\ helper >= 1
  /\ getter # "none" => helper <= Len(Helpers[getter])
  /\ handle = IF at \in {"idle", "open"} THEN 0 ELSE life
  /\ recv \in [Fields -> Int]
  /\ getter = "ProcState" => ReadInv

\* The helpers of each getter.
LEMMA HelperFacts ==
  /\ DOMAIN Helpers = {"ProcState", "ProcMem", "ProcTime", "ProcArgs"}
  /\ Read = <<"Name", "State", "Ppid", "Username">> /\ Len(Read) = 4 /\ Helpers["ProcState"] = Read
  /\ \A i \in 1..4 : Read[i] \in Fields
  /\ \A i, j \in 1..4 : i # j => Read[i] # Read[j]
  /\ Helpers["ProcMem"] = <<"Memory">> /\ Helpers["ProcTime"] = <<"Times">> /\ Helpers["ProcArgs"] = <<"Args">>
  BY DEF Helpers, Read, Fields

\* The field of the helper that runs.
LEMMA FieldFacts ==
  ASSUME ProcInv, at # "idle"
  PROVE  /\ Field \in Fields
         /\ getter = "ProcState" => helper \in 1..4 /\ Field = Read[helper]
         /\ Field = "Args" => getter = "ProcArgs"
<1>1. getter \in {"ProcState", "ProcMem", "ProcTime", "ProcArgs"} /\ helper \in 1..Len(Helpers[getter])
  BY HelperFacts DEF ProcInv
<1>2. CASE getter = "ProcState"
  BY <1>1, <1>2, HelperFacts DEF Field, Fields
<1>3. CASE getter # "ProcState"
  BY <1>1, <1>3, HelperFacts DEF Field, Fields
<1> QED
  BY <1>2, <1>3

\* No getter has been called.
LEMMA ProcInitially == ProcInit => ProcInv
<1> SUFFICES ASSUME ProcInit PROVE ProcInv
  OBVIOUS
<1>1. recv \in [Fields -> Int] /\ life \in Nat /\ life = 1 /\ born = 1 /\ helper = 1 /\ handle = 0
  BY DEF ProcInit
<1>2. getter = "none" /\ at = "idle" /\ errs = {}
  BY DEF ProcInit
<1> QED
  BY <1>1, <1>2 DEF ProcInv

\* Processes come and go, and a getter is called.
LEMMA OutsideKeeps ==
  ASSUME ProcInv, Exit \/ Reuse \/ \E g \in DOMAIN Helpers : Get(g)
  PROVE  ProcInv'
<1>1. CASE Exit
  BY <1>1, Zenon DEF Exit, ProcInv, ReadInv, Done
<1>2. CASE Reuse
  <2>1. at \in {"idle", "open"}
    BY <1>2 DEF Reuse, Exists, ProcInv
  <2>2. life' = life + 1 /\ born <= life' /\ life' \in Nat
    BY <1>2 DEF Reuse, ProcInv
  <2>3. UNCHANGED <<getter, helper, at, handle, recv, errs, born>>
    BY <1>2 DEF Reuse
  <2>4. ASSUME getter = "ProcState" PROVE ReadInv'
    <3>1. \A i \in 1..4 : recv[Read[i]] \in Int
      BY HelperFacts DEF ProcInv
    <3> QED
      BY <2>2, <2>3, <2>4, <3>1, SMTT(30) DEF ReadInv, Done, ProcInv
  <2> QED
    BY <2>1, <2>2, <2>3, <2>4 DEF ProcInv
<1>3. ASSUME NEW g \in DOMAIN Helpers, Get(g) PROVE ProcInv'
  <2>1. /\ getter' = g /\ helper' = 1 /\ at' = "open" /\ recv' = [f \in Fields |-> Old]
        /\ errs' = {} /\ born' = life /\ UNCHANGED <<life, handle>>
        /\ at = "idle"
    BY <1>3 DEF Get
  <2>3. Len(Helpers[g]) >= 1 /\ g # "none"
    BY HelperFacts
  <2>4. ReadInv'
    BY <2>1 DEF ReadInv, Done
  <2>5. recv' \in [Fields -> Int]
    BY <2>1 DEF Old
  <2>6. handle' = 0
    BY <2>1, Zenon DEF ProcInv
  <2>7. life' \in Nat /\ born' \in Nat /\ born' <= life'
    BY <2>1 DEF ProcInv
  <2>8. getter' \in DOMAIN Helpers /\ helper' = 1 /\ at' = "open" /\ errs' = {}
    BY <2>1
  <2> QED
    BY <2>1, <2>3, <2>4, <2>5, <2>6, <2>7, <2>8 DEF ProcInv
<1> QED
  BY <1>1, <1>2, <1>3

\* A helper goes on to its next step.
LEMMA MiddleKeeps ==
  ASSUME ProcInv, OpenProcess \/ OpenProcessToken \/ GetTokenUser \/ CloseToken
  PROVE  ProcInv'
<1>1. /\ UNCHANGED <<helper, recv, errs, life, getter, born>>
      /\ at # "idle" /\ at' \in {"query", "user", "close", "account"} /\ handle' = life
  <2>1. CASE OpenProcess
    BY <2>1 DEF OpenProcess, Known, ProcInv
  <2>2. CASE OpenProcessToken
    BY <2>2 DEF OpenProcessToken, Known, ProcInv
  <2>3. CASE GetTokenUser
    BY <2>3 DEF GetTokenUser, Known, ProcInv
  <2>4. CASE CloseToken
    BY <2>4, Zenon DEF CloseToken, Known, ProcInv
  <2> QED
    BY <2>1, <2>2, <2>3, <2>4
<1>2. getter = "ProcState" => ReadInv'
  BY <1>1 DEF ProcInv, ReadInv, Done
<1> QED
  BY <1>1, <1>2 DEF ProcInv

\* A helper returns: the next one runs, or the getter returns.
LEMMA HelperReturns ==
  ASSUME ProcInv, at # "idle", Onward, Known, handle' = 0,
         recv' \in [Fields -> Int], \A f \in Fields \ {Field} : recv'[f] = recv[f],
         \/ errs' = errs /\ recv'[Field] = life
         \/ /\ errs' = errs \cup {Field}
            /\ getter = "ProcState" => recv'[Field] \in {0, RunStateUnknown}
  PROVE  ProcInv'
<1>1. UNCHANGED <<life, getter, born>>
  BY DEF Known
<1>2. /\ at' \in {"idle", "open"} /\ getter # "none" /\ helper' \in Nat /\ helper' >= 1
      /\ helper' <= Len(Helpers[getter])
      /\ \/ helper' = helper + 1 /\ at' = "open"
         \/ helper' = helper /\ at' = "idle" /\ helper = Len(Helpers[getter])
  <2>1. Len(Helpers[getter]) \in Nat /\ getter # "none"
    BY HelperFacts DEF ProcInv
  <2> QED
    BY <2>1 DEF Onward, ProcInv
<1>5. ASSUME getter = "ProcState" PROVE ReadInv'
  <2>1. helper \in 1..4 /\ Field = Read[helper] /\ Len(Helpers[getter]) = 4
    BY <1>5, FieldFacts, HelperFacts
  <2>2. \A i \in 1..4 : /\ Read[i] \in Fields /\ (i # helper => recv'[Read[i]] = recv[Read[i]])
                        /\ (i # helper => (Read[i] \in errs' <=> Read[i] \in errs))
    BY <2>1, HelperFacts
  <2>3. \A i \in 1..4 : (Done(i)' <=> Done(i) \/ i = helper) /\ (Done(i) <=> i < helper)
    BY <1>2, <2>1 DEF Done
  <2>4. recv \in [Fields -> Int] /\ ReadInv /\ life \in Nat /\ born \in Nat /\ born <= life
    BY <1>5 DEF ProcInv
  <2>5. \/ recv'[Read[helper]] = life /\ Read[helper] \notin errs'
        \/ recv'[Read[helper]] \in {0, RunStateUnknown} /\ Read[helper] \in errs'
    BY <1>5, <2>1, <2>3, <2>4 DEF ReadInv
  <2>6. \A i \in 1..4 : recv[Read[i]] \in Int /\ recv'[Read[i]] \in Int
    BY <2>2, <2>4, SMTT(30)
  <2>7. ASSUME NEW i \in 1..4
        PROVE  /\ Done(i)' /\ Read[i] \in errs' => recv'[Read[i]] \in {0, RunStateUnknown}
               /\ Done(i)' /\ Read[i] \notin errs' => born <= recv'[Read[i]] /\ recv'[Read[i]] <= life
               /\ ~Done(i)' => Read[i] \notin errs'
    BY <2>2, <2>3, <2>4, <2>5, <2>6 DEF ReadInv
  <2>8. ASSUME NEW i \in 1..4, NEW j \in 1..4, i < j, Done(i)', Done(j)', Read[i] \notin errs', Read[j] \notin errs'
        PROVE  recv'[Read[i]] <= recv'[Read[j]]
    <3>1. i < helper /\ (j < helper \/ j = helper)
      BY <2>1, <2>3, <2>8, SMTT(30)
    <3>2. CASE j < helper
      BY <2>2, <2>3, <2>4, <2>8, <3>1, <3>2 DEF ReadInv
    <3>3. CASE j = helper
      <4>1. recv'[Read[j]] = life
        BY <2>5, <2>8, <3>3
      <4>2. recv'[Read[i]] = recv[Read[i]] /\ recv[Read[i]] <= life
        BY <2>2, <2>3, <2>4, <2>8, <3>1 DEF ReadInv
      <4> QED
        BY <4>1, <4>2
    <3> QED
      BY <3>1, <3>2, <3>3
  <2> QED
    BY <1>1, <2>7, <2>8 DEF ReadInv
<1> QED
  BY <1>1, <1>2, <1>5 DEF ProcInv

\* The helpers that return.
LEMMA ReturnsKeep ==
  ASSUME ProcInv,
         \/ getProcName \/ getProcStatus \/ getParentPid \/ ProcMem \/ getProcTimes \/ LookupAccount
         \/ getWin32Process
         \/ OpenProcessFails \/ Win32ProcessFails \/ Refuse
  PROVE  ProcInv'
<1>1. at # "idle"
  BY DEF getProcName, getProcStatus, getParentPid, ProcMem, getProcTimes, Query, LookupAccount, getWin32Process,
         OpenProcessFails, Win32ProcessFails, Refuse
<1>2. Field \in Fields /\ recv \in [Fields -> Int] /\ life \in Int
  BY <1>1, FieldFacts DEF ProcInv
<1>3. ASSUME Succeed(life), Known
      PROVE  ProcInv'
  <2>1. recv' = [recv EXCEPT ![Field] = life] /\ handle' = 0 /\ errs' = errs /\ Onward
    BY <1>3 DEF Succeed
  <2>2. recv' \in [Fields -> Int] /\ recv'[Field] = life /\ \A f \in Fields \ {Field} : recv'[f] = recv[f]
    BY <1>2, <2>1
  <2> QED
    BY <1>1, <1>3, <2>1, <2>2, HelperReturns
<1>4. ASSUME HelperFails, Known
      PROVE  ProcInv'
  <2>1. /\ recv' = IF getter = "ProcState" THEN [recv EXCEPT ![Field] = ErrorValue] ELSE recv
        /\ handle' = 0 /\ errs' = errs \cup {Field} /\ Onward
    BY <1>4 DEF HelperFails
  <2>2. ErrorValue \in {0, RunStateUnknown} /\ ErrorValue \in Int
    BY DEF ErrorValue, RunStateUnknown
  <2>3. recv' \in [Fields -> Int] /\ \A f \in Fields \ {Field} : recv'[f] = recv[f]
    BY <1>2, <2>1, <2>2
  <2>4. getter = "ProcState" => recv'[Field] \in {0, RunStateUnknown}
    BY <1>2, <2>1, <2>2
  <2> QED
    BY <1>1, <1>4, <2>1, <2>3, <2>4, HelperReturns
<1>5. CASE getProcName \/ getProcStatus \/ getParentPid \/ ProcMem \/ getProcTimes
  <2>1. at = "query" /\ Succeed(handle) /\ Known
    BY <1>5 DEF getProcName, getProcStatus, getParentPid, ProcMem, getProcTimes, Query
  <2>2. handle = life
    BY <2>1 DEF ProcInv
  <2> QED
    BY <1>3, <2>1, <2>2, Zenon
<1>6. CASE LookupAccount
  <2>1. at = "account" /\ Succeed(handle) /\ Known
    BY <1>6 DEF LookupAccount
  <2>2. handle = life
    BY <2>1 DEF ProcInv
  <2> QED
    BY <1>3, <2>1, <2>2, Zenon
<1>7. CASE getWin32Process
  <2>1. at = "open" /\ Known /\ getter = "ProcArgs"
    BY <1>1, <1>7, FieldFacts DEF getWin32Process
  <2>2. CASE Succeed(life)
    BY <1>3, <2>1, <2>2
  <2>3. CASE at' = "idle" /\ UNCHANGED <<helper, handle, recv, errs>>
    BY <2>1, <2>3 DEF Known, ProcInv
  <2> QED
    BY <1>7, <2>2, <2>3 DEF getWin32Process
<1>8. CASE OpenProcessFails \/ Win32ProcessFails \/ Refuse
  <2>1. HelperFails /\ Known
    BY <1>8 DEF OpenProcessFails, Win32ProcessFails, Refuse
  <2> QED
    BY <1>4, <2>1
<1> QED
  BY <1>5, <1>6, <1>7, <1>8

\* ProcInv holds while the rest of the host runs.
LEMMA ProcInvariant == HostSpec => []ProcInv
<1>1. HostInit => ProcInv
  BY ProcInitially DEF HostInit
<1>2. ProcInv /\ [HostNext]_hostVars => ProcInv'
  <2> SUFFICES ASSUME ProcInv, [HostNext]_hostVars PROVE ProcInv'
    OBVIOUS
  <2>1. ProcNext \/ UNCHANGED procVars
    BY SMTT(30) DEF HostNext, hostVars
  <2>2. CASE UNCHANGED procVars
    BY <2>2 DEF procVars, ProcInv, ReadInv, Done
  <2>3. CASE ProcNext
    BY <2>3, OutsideKeeps, MiddleKeeps, ReturnsKeep DEF ProcNext
  <2> QED
    BY <2>1, <2>2, <2>3
<1> QED
  BY <1>1, <1>2, PTL DEF HostSpec

\* ProcState.Get: the fields are of this call and in the order of the helpers,
\* however often the pid changes hands.
THEOREM FieldsAreOfThisCall == HostSpec => []FieldsOfThisCall
<1>1. ProcInv => FieldsOfThisCall
  <2> SUFFICES ASSUME ProcInv, at = "idle", getter = "ProcState" PROVE FieldsOfThisCall
    BY DEF FieldsOfThisCall, Returned
  <2>1. ReadInv /\ born \in Nat /\ life \in Nat /\ \A i \in 1..4 : Done(i) /\ recv[Read[i]] \in Int
    BY HelperFacts DEF ProcInv, Done
  <2>2. ASSUME NEW i \in 1..4, NEW j \in 1..4
        PROVE  /\ IF Read[i] \in errs THEN recv[Read[i]] \in {0, RunStateUnknown}
                                      ELSE recv[Read[i]] \in born..life
               /\ i < j /\ {Read[i], Read[j]} \cap errs = {} => recv[Read[i]] <= recv[Read[j]]
    BY <2>1 DEF ReadInv
  <2>3. Helpers["ProcState"] = Read /\ Len(Read) = 4
    BY HelperFacts
  <2> QED
    BY <2>2, <2>3, Zenon DEF FieldsOfThisCall
<1> QED
  BY <1>1, ProcInvariant, PTL

-----------------------------------------------------------------------------
(* The volumes *)

Last == Len(Volumes)

Increasing(s) == \A i, j \in 1..Len(s) : i < j => s[i] < s[j]

Has(s, v) == \E i \in 1..Len(s) : s[i] = v

VolTypes ==
  /\ mounts \in [1..Last -> Nat]
  /\ stage \in {"idle", "find", "length", "paths", "drives"}
  /\ found \in Seq(Nat) /\ Len(found) <= Last /\ \A i \in 1..Len(found) : found[i] = i
  /\ next \in Nat /\ next >= 1
  /\ paths \in Seq(Nat) /\ list \in Seq(Nat) /\ before \in Nat
  /\ steady \subseteq 1..Last /\ ever \subseteq 1..Last

\* What is mounted throughout is mounted now, and that has been mounted.
SteadyInv ==
  /\ \A v \in steady : mounts[v] > 0
  /\ stage # "idle" => \A v \in 1..Last : mounts[v] > 0 => v \in ever

\* The paths are those of volumes before the loop's, each at most once, in
\* order, and no volume mounted throughout is missing.
PathsInv ==
  /\ stage = "find" => paths = << >> /\ next = 1
  /\ stage \in {"length", "paths", "drives"} => Len(found) = Last
  /\ stage = "paths" => next <= Last
  /\ stage \in {"length", "paths"} => /\ next <= Last + 1
                                      /\ \A i \in 1..Len(paths) : paths[i] < next
                                      /\ \A v \in steady : v < next => Has(paths, v)
  /\ stage \in {"find", "length", "paths"} => Len(list) = before

\* The call has come to the drives.
Listing == stage = "drives" \/ (stage = "idle" /\ status = "ok")

\* What the call has appended is a first part of the paths, and in the end all.
ListInv ==
  /\ stage \in {"length", "paths"} \/ Listing => Increasing(paths) /\ \A i \in 1..Len(paths) : paths[i] \in ever
  /\ Listing => /\ next <= Len(paths) + 1
                /\ Len(list) = before + (next - 1)
                /\ \A i \in 1..(next - 1) : list[before + i] = paths[i]
                /\ \A v \in steady : Has(paths, v)
  /\ stage = "idle" /\ status = "ok" => next = Len(paths) + 1

VolInv == VolTypes /\ SteadyInv /\ PathsInv /\ ListInv

\* No call has been made.
LEMMA VolInitially == VolInit => VolInv
<1> SUFFICES ASSUME VolInit PROVE VolInv
  OBVIOUS
<1>1. Last \in Nat
  BY VolumesAssumption DEF Last
<1>2. mounts \in [1..Last -> Nat]
  BY VolumesAssumption DEF VolInit, Last
<1> QED
  BY <1>1, <1>2 DEF VolInit, VolInv, VolTypes, SteadyInv, PathsInv, ListInv, Listing

\* A volume is mounted or unmounted while the call runs.
LEMMA MountKeeps ==
  ASSUME VolInv, NEW i \in 1..Last, NEW n \in 0..MaxPaths, Mount(i, n)
  PROVE  VolInv'
<1>1. /\ stage # "idle" /\ n \in Nat /\ Last \in Nat
      /\ UNCHANGED <<stage, found, next, length, paths, list, before, gets, status>>
  BY VolumesAssumption DEF Mount, Last
<1>2. mounts' \in [1..Last -> Nat] /\ mounts'[i] = n /\ \A v \in 1..Last : v # i => mounts'[v] = mounts[v]
  BY <1>1 DEF Mount, VolInv, VolTypes
<1>3. /\ steady' \subseteq steady /\ (n = 0 => i \notin steady')
      /\ ever \subseteq ever' /\ (n > 0 => i \in ever') /\ ever' \subseteq 1..Last
  BY DEF Mount, VolInv, VolTypes
<1>4. VolTypes'
  BY <1>1, <1>2, <1>3, SMTT(30) DEF VolInv, VolTypes
<1>5. SteadyInv'
  <2>1. ASSUME NEW v \in steady' PROVE mounts'[v] > 0
    <3>1. v \in steady /\ v \in 1..Last /\ mounts[v] > 0
      BY <1>3 DEF VolInv, VolTypes, SteadyInv
    <3>2. v = i => n # 0
      BY <1>3
    <3> QED
      BY <1>1, <1>2, <3>1, <3>2
  <2>2. ASSUME NEW v \in 1..Last, mounts'[v] > 0 PROVE v \in ever'
    <3>1. v # i => v \in ever
      BY <1>1, <1>2, <2>2 DEF VolInv, SteadyInv
    <3>2. v = i => v \in ever'
      BY <1>2, <1>3, <2>2
    <3> QED
      BY <1>3, <3>1, <3>2
  <2> QED
    BY <2>1, <2>2 DEF SteadyInv
<1>6. PathsInv'
  BY <1>1, <1>3 DEF VolInv, PathsInv, Has
<1>7. ListInv'
  BY <1>1, <1>3, Zenon DEF VolInv, ListInv, Listing, Increasing, Has
<1> QED
  BY <1>4, <1>5, <1>6, <1>7 DEF VolInv

\* Get is called.
LEMMA GetKeeps ==
  ASSUME VolInv, GetFileSystems
  PROVE  VolInv'
<1>1. /\ stage' = "find" /\ found' = << >> /\ paths' = << >> /\ next' = 1 /\ before' = Len(list)
      /\ steady' = Mounted /\ ever' = Mounted /\ UNCHANGED <<mounts, list>>
  BY DEF GetFileSystems
<1>2. Last \in Nat /\ Mounted = {v \in 1..Last : mounts[v] > 0}
  BY VolumesAssumption DEF Last, Mounted
<1>3. VolTypes'
  BY <1>1, <1>2, SMTT(30) DEF VolInv, VolTypes
<1> QED
  BY <1>1, <1>2, <1>3 DEF VolInv, VolTypes, SteadyInv, PathsInv, ListInv, Listing

\* The steps that leave the paths alone.
LEMMA FindKeeps ==
  ASSUME VolInv, FindVolume \/ NoMoreVolumes \/ NotMounted \/ MoreData
  PROVE  VolInv'
<1>1. UNCHANGED <<mounts, before, steady, ever, paths, list>> /\ Last \in Nat
  BY VolumesAssumption, SMTT(30) DEF FindVolume, NoMoreVolumes, NotMounted, MoreData, World, Last
<1>2. CASE FindVolume
  <2>1. stage = "find" /\ stage' = "find" /\ next' = next /\ Len(found) < Last /\ found' = Append(found, Len(found) + 1)
    BY <1>2 DEF FindVolume, Last
  <2>2. found' \in Seq(Nat) /\ Len(found') <= Last /\ \A k \in 1..Len(found') : found'[k] = k
    BY <1>1, <2>1, SMTT(30) DEF VolInv, VolTypes
  <2> QED
    BY <1>1, <2>1, <2>2 DEF VolInv, VolTypes, SteadyInv, PathsInv, ListInv, Listing
<1>3. CASE NoMoreVolumes
  <2>1. stage = "find" /\ stage' = "length" /\ UNCHANGED <<found, next>> /\ Len(found) = Last
    BY <1>3 DEF NoMoreVolumes, Last
  <2>2. paths = << >> /\ next = 1 /\ \A v \in steady : v >= 1
    BY <2>1 DEF VolInv, PathsInv, VolTypes
  <2>3. Increasing(paths) /\ \A k \in 1..Len(paths) : FALSE
    BY <2>2, SMTT(30) DEF Increasing
  <2> QED
    BY <1>1, <2>1, <2>2, <2>3 DEF VolInv, VolTypes, SteadyInv, PathsInv, ListInv, Listing
<1>4. CASE NotMounted
  <2>1. /\ stage = "length" /\ stage' = "length" /\ found' = found /\ next' = next + 1 /\ next <= Len(found)
        /\ mounts[found[next]] = 0
    BY <1>4 DEF NotMounted
  <2>2. next \notin steady /\ next <= Last /\ next \in Nat
    BY <1>1, <2>1, SMTT(30) DEF VolInv, VolTypes, SteadyInv
  <2>3. \A k \in 1..Len(paths) : paths[k] < next'
    <3>1. \A k \in 1..Len(paths) : paths[k] \in Nat /\ paths[k] < next
      BY <2>1, SMTT(30) DEF VolInv, PathsInv, VolTypes
    <3> QED
      BY <2>1, <2>2, <3>1
  <2>4. \A v \in steady : v < next' => Has(paths, v)
    <3>1. \A v \in steady : v \in Nat /\ (v < next => Has(paths, v))
      BY <1>1, <2>1 DEF VolInv, PathsInv, VolTypes
    <3> QED
      BY <2>1, <2>2, <3>1
  <2> QED
    BY <1>1, <2>1, <2>2, <2>3, <2>4, SMTT(30) DEF VolInv, VolTypes, SteadyInv, PathsInv, ListInv, Listing
<1>5. CASE MoreData
  <2>1. /\ stage = "length" /\ stage' = "paths" /\ UNCHANGED <<found, next>> /\ next <= Len(found)
    BY <1>5 DEF MoreData
  <2> QED
    BY <1>1, <2>1 DEF VolInv, VolTypes, SteadyInv, PathsInv, ListInv, Listing
<1> QED
  BY <1>2, <1>3, <1>4, <1>5

\* The paths of one volume.
LEMMA PathsKeep ==
  ASSUME VolInv, VolumePaths
  PROVE  VolInv'
<1>1. /\ stage = "paths" /\ stage' = "length" /\ next' = next + 1 /\ UNCHANGED <<mounts, before, steady, ever, found, list>>
      /\ paths' = paths \o FirstPath(found[next]) /\ Last \in Nat
  BY VolumesAssumption DEF VolumePaths, World, Last
<1>2. /\ next \in Nat /\ next >= 1 /\ next <= Last /\ found[next] = next /\ mounts[next] \in Nat
      /\ paths \in Seq(Nat) /\ Increasing(paths) /\ \A k \in 1..Len(paths) : paths[k] < next /\ paths[k] \in ever
  BY <1>1, SMTT(30) DEF VolInv, VolTypes, PathsInv, ListInv
<1>3. CASE mounts[next] = 0
  <2>1. paths' = paths
    BY <1>1, <1>2, <1>3, ConcatEmptySeq DEF FirstPath
  <2>2. next \notin steady
    BY <1>3 DEF VolInv, SteadyInv
  <2>3. \A v \in steady : v < next' => Has(paths, v)
    <3>1. \A v \in steady : v \in Nat /\ (v < next => Has(paths, v))
      BY <1>1 DEF VolInv, PathsInv, VolTypes
    <3> QED
      BY <1>1, <1>2, <2>2, <3>1
  <2>4. \A k \in 1..Len(paths) : paths[k] < next'
    <3>1. \A k \in 1..Len(paths) : paths[k] \in Nat
      BY <1>2
    <3> QED
      BY <1>1, <1>2, <3>1
  <2>5. next' \in Nat /\ next' >= 1 /\ next' <= Last + 1
    BY <1>1, <1>2
  <2> QED
    BY <1>1, <2>1, <2>3, <2>4, <2>5 DEF VolInv, VolTypes, SteadyInv, PathsInv, ListInv, Listing
<1>4. CASE mounts[next] > 0
  <2>1. paths' = Append(paths, next)
    BY <1>1, <1>2, <1>4, AppendIsConcat DEF FirstPath
  <2>2. next \in ever
    BY <1>1, <1>2, <1>4 DEF VolInv, SteadyInv
  <2>3. /\ paths' \in Seq(Nat) /\ Len(paths') = Len(paths) + 1 /\ paths'[Len(paths) + 1] = next
        /\ \A k \in 1..Len(paths) : paths'[k] = paths[k]
    BY <1>2, <2>1
  <2>4. \A k \in 1..Len(paths') : k \in 1..Len(paths) \/ k = Len(paths) + 1
    BY <1>2, <2>3
  <2>5. Increasing(paths') /\ \A k \in 1..Len(paths') : paths'[k] < next' /\ paths'[k] \in ever
    BY <1>1, <1>2, <2>2, <2>3, <2>4, SMTT(30) DEF Increasing
  <2>6. \A v \in steady : v < next' => Has(paths', v)
    <3> SUFFICES ASSUME NEW v \in steady, v < next' PROVE Has(paths', v)
      OBVIOUS
    <3>1. CASE v < next
      BY <1>1, <1>2, <2>3, <3>1 DEF VolInv, PathsInv, Has
    <3>2. CASE v = next
      BY <1>2, <2>3, <3>2, SMTT(30) DEF Has
    <3> QED
      BY <1>1, <1>2, <3>1, <3>2 DEF VolInv, VolTypes
  <2>7. next' \in Nat /\ next' >= 1 /\ next' <= Last + 1
    BY <1>1, <1>2
  <2> QED
    BY <1>1, <2>3, <2>5, <2>6, <2>7, Zenon DEF VolInv, VolTypes, SteadyInv, PathsInv, ListInv, Listing
<1> QED
  BY <1>2, <1>3, <1>4, SMTT(30)

\* The drives, and the ends of the call.
LEMMA DrivesKeep ==
  ASSUME VolInv, FindFails \/ PathsFail \/ DriveFails \/ AllVolumes \/ Drive \/ AllDrives
  PROVE  VolInv'
<1>1. UNCHANGED <<mounts, before, steady, ever, paths, found>> /\ Last \in Nat
  BY VolumesAssumption DEF FindFails, PathsFail, DriveFails, GetFails, AllVolumes, Drive, AllDrives, World, Last
<1>2. CASE FindFails \/ PathsFail \/ DriveFails
  <2>1. stage' = "idle" /\ status' = "error" /\ UNCHANGED <<next, list>>
    BY <1>2, Zenon DEF FindFails, PathsFail, DriveFails, GetFails
  <2> QED
    BY <1>1, <2>1, SMTT(30) DEF VolInv, VolTypes, SteadyInv, PathsInv, ListInv, Listing
<1>3. CASE AllVolumes
  <2>1. stage = "length" /\ stage' = "drives" /\ next > Len(found) /\ next' = 1 /\ list' = list
    BY <1>3 DEF AllVolumes
  <2>2. /\ \A v \in steady : Has(paths, v)
        /\ Len(paths) \in Nat /\ Len(list) = before /\ before \in Nat
    BY <1>1, <2>1 DEF VolInv, VolTypes, PathsInv
  <2> QED
    BY <1>1, <2>1, <2>2 DEF VolInv, VolTypes, SteadyInv, PathsInv, ListInv, Listing
<1>4. CASE Drive
  <2>1. /\ stage = "drives" /\ stage' = "drives" /\ next <= Len(paths) /\ next' = next + 1
        /\ list' = Append(list, paths[next])
    BY <1>4 DEF Drive
  <2>2. /\ list \in Seq(Nat) /\ paths \in Seq(Nat) /\ next \in Nat /\ next >= 1 /\ before \in Nat
        /\ Len(list) = before + (next - 1) /\ \A k \in 1..(next - 1) : list[before + k] = paths[k]
        /\ paths[next] \in Nat
    BY <2>1 DEF VolInv, VolTypes, ListInv, Listing
  <2>3. /\ list' \in Seq(Nat) /\ Len(list') = before + next /\ list'[before + next] = paths[next]
        /\ \A k \in 1..Len(list) : list'[k] = list[k]
    BY <2>1, <2>2
  <2>4. ASSUME NEW k \in 1..(next' - 1) PROVE list'[before + k] = paths[k]
    <3>1. k = next \/ k \in 1..(next - 1)
      BY <2>1, <2>2
    <3>2. k \in 1..(next - 1) => before + k \in 1..Len(list)
      BY <2>2
    <3> QED
      BY <2>2, <2>3, <3>1, <3>2, Zenon
  <2>5. next' \in Nat /\ next' >= 1 /\ next' <= Len(paths) + 1 /\ Len(list') = before + (next' - 1)
    BY <2>1, <2>2, <2>3, SMTT(30)
  <2> QED
    BY <1>1, <2>1, <2>3, <2>4, <2>5, Zenon DEF VolInv, VolTypes, SteadyInv, PathsInv, ListInv, Listing
<1>5. CASE AllDrives
  <2>1. stage = "drives" /\ stage' = "idle" /\ next > Len(paths) /\ UNCHANGED <<next, list>>
    BY <1>5 DEF AllDrives
  <2>2. next = Len(paths) + 1
    BY <2>1 DEF VolInv, VolTypes, ListInv, Listing
  <2> QED
    BY <1>1, <2>1, <2>2 DEF VolInv, VolTypes, SteadyInv, PathsInv, ListInv, Listing
<1> QED
  BY <1>2, <1>3, <1>4, <1>5

\* VolInv holds while the rest of the host runs.
LEMMA VolInvariant == HostSpec => []VolInv
<1>1. HostInit => VolInv
  BY VolInitially DEF HostInit
<1>2. VolInv /\ [HostNext]_hostVars => VolInv'
  <2> SUFFICES ASSUME VolInv, [HostNext]_hostVars PROVE VolInv'
    OBVIOUS
  <2>1. VolNext \/ UNCHANGED volVars
    BY Zenon DEF HostNext, hostVars
  <2>2. CASE UNCHANGED volVars
    BY <2>2 DEF volVars, VolInv, VolTypes, SteadyInv, PathsInv, ListInv, Listing
  <2>3. CASE VolNext
    <3>1. CASE \E i \in 1..Last, n \in 0..MaxPaths : Mount(i, n)
      BY <3>1, MountKeeps
    <3>2. CASE GetFileSystems
      BY <3>2, GetKeeps
    <3>3. CASE VolStep
      BY <3>3, FindKeeps, PathsKeep, DrivesKeep DEF VolStep
    <3> QED
      BY <2>3, <3>1, <3>2, <3>3 DEF VolNext, Last
  <2> QED
    BY <2>1, <2>2, <2>3
<1> QED
  BY <1>1, <1>2, PTL DEF HostSpec

\* FileSystemList.Get, for any number of volumes and paths and of earlier
\* calls on the receiver.
THEOREM VolumesAreListed == HostSpec => []MountedVolumesListed
<1>1. VolInv => MountedVolumesListed
  <2> SUFFICES ASSUME VolInv, stage = "idle", status = "ok"
               PROVE  IsInjective(Added) /\ steady \subseteq Range(Added) /\ Range(Added) \subseteq ever
    BY DEF MountedVolumesListed
  <2>1. /\ list \in Seq(Nat) /\ paths \in Seq(Nat) /\ before \in Nat /\ Len(list) = before + Len(paths)
        /\ \A i \in 1..Len(paths) : list[before + i] = paths[i]
        /\ Increasing(paths) /\ \A i \in 1..Len(paths) : paths[i] \in ever
        /\ \A v \in steady : Has(paths, v)
    BY DEF VolInv, VolTypes, ListInv, Listing
  <2>2. Added \in Seq(Nat) /\ Len(Added) = Len(paths) /\ \A i \in 1..Len(paths) : Added[i] = paths[i]
    <3>1. list \in Seq(Nat) /\ paths \in Seq(Nat) /\ before \in Nat /\ Len(list) = before + Len(paths)
      BY <2>1, Zenon
    <3>2. Len(paths) \in Nat /\ before + 1 \in Nat
      BY ONLY <3>1
    <3>3. Added \in Seq(Nat) /\ Len(Added) = Len(paths)
      BY ONLY <3>1, <3>2 DEF Added
    <3>4. ASSUME NEW i \in 1..Len(paths) PROVE Added[i] = paths[i]
      <4>1. Added[i] = list[before + 1 + i - 1]
        BY ONLY <3>1, <3>2, i \in 1..Len(paths) DEF Added
      <4>2. before + 1 + i - 1 = before + i
        BY ONLY <3>1, <3>2, i \in 1..Len(paths)
      <4> QED
        BY <2>1, <4>1, <4>2, Zenon
    <3> QED
      BY <3>3, <3>4, Zenon
  <2>3. DOMAIN Added = 1..Len(paths) /\ Len(paths) \in Nat
    <3>1. paths \in Seq(Nat) /\ Added \in Seq(Nat) /\ Len(Added) = Len(paths)
      BY <2>1, <2>2, Zenon
    <3> QED
      BY ONLY <3>1
  <2>4. IsInjective(Added)
    <3> SUFFICES ASSUME NEW i \in 1..Len(paths), NEW j \in 1..Len(paths), paths[i] = paths[j] PROVE i = j
      BY <2>2, <2>3 DEF IsInjective
    <3>1. paths[i] \in Nat /\ paths[j] \in Nat /\ i \in Nat /\ j \in Nat
      <4>1. paths \in Seq(Nat)
        BY <2>1, Zenon
      <4>2. i \in 1..Len(paths) /\ j \in 1..Len(paths)
        OBVIOUS
      <4> QED
        BY ONLY <4>1, <4>2
    <3>2. (i < j => paths[i] < paths[j]) /\ (j < i => paths[j] < paths[i])
      BY <2>1, Zenon DEF Increasing
    <3> QED
      BY <3>1, <3>2
  <2>5. steady \subseteq Range(Added) /\ Range(Added) \subseteq ever
    BY <2>1, <2>2, <2>3, Zenon DEF Range, Has
  <2> QED
    BY <2>4, <2>5
<1> QED
  BY <1>1, VolInvariant, PTL

=============================================================================
