---------------------------- MODULE WindowsProcess ----------------------------
(***************************************************************************)
(* sigar_windows.go, the getters of one process: each helper opens the     *)
(* process by its pid, asks one question of the handle and closes it, so   *)
(* the process may exit, and its pid be used again, between two helpers of *)
(* one Get.  A value read is the life of the pid that it was read from;    *)
(* Old is whatever an earlier Get left in a field.                         *)
(***************************************************************************)
EXTENDS Integers, Sequences, WindowsVersion

CONSTANT MaxLives       \* bound: processes that use the pid one after another

ASSUME MaxLivesAssumption == MaxLives \in Nat \ {0}

VARIABLES life,         \* the process that has, or last had, the pid
          alive,        \* it runs
          granted,      \* the rights its access list grants this program
          getter,       \* the Get called last, "none" before the first
          helper,       \* the helper of that Get that runs
          at,           \* where it is; "idle" between two calls
          handle,       \* the process its handle is for, 0 without one
          token,        \* a process token is open
          recv,         \* the receiver's fields
          errs,         \* fields whose helper failed
          born          \* history: life when Get was called

procVars == <<life, alive, granted, getter, helper, at, handle, token, recv, errs, born>>

Old == -1

\* RunStateUnknown is the character '?'.
RunStateUnknown == 63

Helpers == [ProcState |-> <<"Name", "State", "Ppid", "Username">>,
            ProcMem   |-> <<"Memory">>,
            ProcTime  |-> <<"Times">>,
            ProcArgs  |-> <<"Args">>]

Fields == {"Name", "State", "Ppid", "Username", "Memory", "Times", "Args"}

Rights == {"QUERY_LIMITED", "QUERY", "VM_READ"}

\* The access lists there are: whoever may query may do so to a limited extent,
\* where Windows knows of that.
AccessLists ==
  {g \in SUBSET Rights : IF vista THEN "QUERY" \in g => "QUERY_LIMITED" \in g
                                  ELSE "QUERY_LIMITED" \notin g}

\* What the helper of a field asks OpenProcess for.
Access(field) ==
  CASE field = "Username" -> {"QUERY"}
    [] field = "Memory" -> {processQueryLimitedInfoAccess, "VM_READ"}
    [] OTHER -> {processQueryLimitedInfoAccess}

ProcInit ==
  /\ life = 1 /\ alive = TRUE
  /\ granted \in AccessLists
  /\ getter = "none" /\ helper = 1 /\ at = "idle"
  /\ handle = 0 /\ token = FALSE
  /\ recv = [f \in Fields |-> 0]
  /\ errs = {}
  /\ born = 1

\* A process object stays as long as the process runs or a handle is open.
Exists == alive \/ handle = life

Exit ==
  /\ alive
  /\ alive' = FALSE
  /\ UNCHANGED <<life, granted, getter, helper, at, handle, token, recv, errs, born>>

Reuse ==
  /\ ~Exists
  /\ life < MaxLives
  /\ life' = life + 1
  /\ alive' = TRUE
  /\ granted' \in AccessLists
  /\ UNCHANGED <<getter, helper, at, handle, token, recv, errs, born>>

Get(g) ==
  /\ at = "idle"
  /\ getter' = g
  /\ helper' = 1
  /\ at' = "open"
  /\ token' = FALSE
  /\ recv' = [f \in Fields |-> Old]
  /\ errs' = {}
  /\ born' = life
  /\ UNCHANGED <<life, alive, granted, handle>>

Field == Helpers[getter][helper]

\* ProcState goes on to its next helper, whatever became of this one.
Onward ==
  IF helper < Len(Helpers[getter])
    THEN helper' = helper + 1 /\ at' = "open"
    ELSE at' = "idle" /\ UNCHANGED helper

\* A helper returns a value and its deferred CloseHandle runs.
Succeed(value) ==
  /\ recv' = [recv EXCEPT ![Field] = value]
  /\ handle' = 0
  /\ UNCHANGED errs
  /\ Onward

\* Variant: ProcState assigns a field only when its helper succeeded.
HelperFailsKeeps ==
  /\ recv' = recv
  /\ errs' = errs \cup {Field}
  /\ handle' = 0
  /\ Onward

\* The value that comes with an error.  getParentPid of a process it cannot
\* open returns RunStateUnknown for a pid.
ErrorValue ==
  IF Field = "State" \/ (Field = "Ppid" /\ at = "open") THEN RunStateUnknown ELSE 0

\* A helper returns an error, closing its handle if it has one: ProcState
\* assigns the value that comes with the error, the other getters return
\* before they assign anything.
HelperFails ==
  /\ recv' = IF getter = "ProcState" THEN [recv EXCEPT ![Field] = ErrorValue] ELSE recv
  /\ errs' = errs \cup {Field}
  /\ handle' = 0
  /\ Onward

Known == UNCHANGED <<life, alive, granted, getter, born>>

\* The access list grants what the helper asks for.
Permitted == Access(Field) \subseteq granted

OpenProcess ==
  /\ at = "open" /\ Field # "Args" /\ Exists /\ Permitted
  /\ handle' = life
  /\ at' = "query"
  /\ UNCHANGED <<helper, token, recv, errs>> /\ Known

OpenProcessFails ==
  /\ at = "open" /\ Field # "Args"
  /\ ~Exists \/ ~Permitted
  /\ HelperFails
  /\ UNCHANGED token /\ Known

\* One question is asked of the handle, and answered.
Query(field) ==
  /\ at = "query" /\ Field = field
  /\ Succeed(handle)
  /\ UNCHANGED token /\ Known

getProcName == Query("Name")

\* The exit code says whether it still runs; only whose code it is matters here.
getProcStatus == Query("State")

getParentPid == Query("Ppid")

\* ProcMem.Get assigns Resident and Size, ProcTime.Get its four times, all
\* from the one answer.
ProcMem == Query("Memory")

getProcTimes == Query("Times")

\* ProcArgs.Get asks WMI, without a handle, and keeps the receiver's list when
\* the process has no command line.
getWin32Process ==
  /\ at = "open" /\ Field = "Args" /\ vista /\ alive
  /\ \/ Succeed(life)
     \/ at' = "idle" /\ UNCHANGED <<helper, handle, recv, errs>>
  /\ UNCHANGED token /\ Known

\* The query fails, or finds no such process, or Windows has no such query.
Win32ProcessFails ==
  /\ at = "open" /\ Field = "Args"
  /\ HelperFails
  /\ UNCHANGED token /\ Known

\* Any question, or step of getProcCredName, may fail.  The token is closed
\* after its user is known and only then.
Refuse ==
  /\ at \in {"query", "user", "close", "account"}
  /\ HelperFails
  /\ UNCHANGED token /\ Known

OpenProcessToken ==
  /\ at = "query" /\ Field = "Username"
  /\ token' = TRUE
  /\ at' = "user"
  /\ UNCHANGED <<helper, handle, recv, errs>> /\ Known

GetTokenUser ==
  /\ at = "user"
  /\ at' = "close"
  /\ UNCHANGED <<helper, handle, token, recv, errs>> /\ Known

CloseToken ==
  /\ at = "close"
  /\ token' = FALSE
  /\ at' = "account"
  /\ UNCHANGED <<helper, handle, recv, errs>> /\ Known

LookupAccount ==
  /\ at = "account"
  /\ Succeed(handle)
  /\ UNCHANGED token /\ Known

ProcNext ==
  \/ Exit \/ Reuse
  \/ \E g \in DOMAIN Helpers : Get(g)
  \/ OpenProcess \/ OpenProcessFails
  \/ getProcName \/ getProcStatus \/ getParentPid \/ ProcMem \/ getProcTimes
  \/ getWin32Process \/ Win32ProcessFails \/ Refuse
  \/ OpenProcessToken \/ GetTokenUser \/ CloseToken \/ LookupAccount

-----------------------------------------------------------------------------

\* A Get has returned.
Returned == at = "idle" /\ getter # "none"

\* After ProcState.Get no field holds a value of an earlier call: those whose
\* helper failed have its error's value, the others were read from processes
\* that had the pid during the call, in the order of the helpers.
FieldsOfThisCall ==
  Returned /\ getter = "ProcState" =>
    LET read == Helpers["ProcState"]
    IN  \A i, j \in 1..Len(read) :
          /\ IF read[i] \in errs THEN recv[read[i]] \in {0, RunStateUnknown}
                                   ELSE recv[read[i]] \in born..life
          /\ i < j /\ {read[i], read[j]} \cap errs = {} => recv[read[i]] <= recv[read[j]]

=============================================================================
