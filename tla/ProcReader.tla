----------------------------- MODULE ProcReader -----------------------------
(***************************************************************************)
(* sigar_linux_common.go, sigar_linux.go: the getters that describe one    *)
(* process.  Each reads one or more files of /proc/<pid> while the process *)
(* execs, changes its user, exits or is replaced by another one with the   *)
(* same pid, and stores what it reads in a receiver that the caller may    *)
(* have used before.                                                       *)
(*                                                                         *)
(* A field of a receiver holds what was stored, as a sequence of words, the *)
(* command name of the process then, and whether all of it is of this      *)
(* call.  A command name is any sequence of characters and goes into the   *)
(* stat file as it is; the other words of that file are written here as    *)
(* their names.                                                            *)
(***************************************************************************)
EXTENDS Naturals, Sequences, FiniteSetsExt, Functions

CONSTANTS Comms,        \* command names: sequences over CommChars
          Users,
          Self,         \* the user this program runs as
          MaxLives      \* bound: the pid is used this often

Blank == " "

CommChars == {"a", Blank, "(", ")"}

ASSUME ProcAssumption ==
  /\ Comms \subseteq Seq(CommChars)
  /\ Self \in Users
  /\ MaxLives \in Nat \ {0}

VARIABLES
  process,      \* the process that has, or had last, the pid
  getter,       \* whose Get was called last
  todo,         \* the files the call has still to read
  opened,       \* the life whose file is open, or 0
  receiver,     \* the fields of the getter's receiver
  result,       \* of the last call; "none" while it runs, "new" before the first
  present,      \* history: a process had the pid at some time of the call
  absent        \* history: no process had it at some time of the call

call == <<getter, todo, opened, receiver, result>>
vars == <<process, call, present, absent>>

Processes == [life : 1..MaxLives, state : {"run", "zombie", "gone"}, comm : Comms, user : Users]

Exists == process.state # "gone"

-----------------------------------------------------------------------------
(* The files *)

\* The order in which each Get reads its files; ProcExe ranges over a map.
FileOrders ==
  [ProcState   |-> {<<"stat", "status">>},
   ProcMem     |-> {<<"statm", "stat">>},
   ProcTime    |-> {<<"stat">>},
   ProcArgs    |-> {<<"cmdline">>},
   ProcEnv     |-> {<<"environ">>},
   ProcExe     |-> Bijection(1..3, {"exe", "cwd", "root"}),
   ProcFDUsage |-> {<<"limits", "fd">>}]

Getters == DOMAIN FileOrders

\* The fields of the receiver; those stored together are one.
FieldsOf ==
  [ProcState   |-> {"Name", "Stat", "Username"},
   ProcMem     |-> {"Size", "Faults"},
   ProcTime    |-> {"Times"},
   ProcArgs    |-> {"List"},
   ProcEnv     |-> {"Vars"},
   ProcExe     |-> {"exe", "cwd", "root"},
   ProcFDUsage |-> {"Limits", "Open"}]

Unset == [what |-> <<>>, comm |-> <<>>, now |-> FALSE]

Fresh(g) == [f \in FieldsOf[g] |-> Unset]

\* What the kernel lets a program see: links and private files of its own
\* user's processes, no links of a process that has no memory any more.
Readable(file) ==
  /\ Exists
  /\ file \in {"environ", "exe", "cwd", "root", "fd"} => process.user = Self
  /\ file \in {"exe", "cwd", "root"} => process.state = "run"

\* The words of /proc/<pid>/stat that follow the command name, by proc(5).
StatWords ==
  <<"state", "ppid", "pgrp", "session", "tty_nr", "tpgid", "flags", "minflt",
    "cminflt", "majflt", "cmajflt", "utime", "stime", "cutime", "cstime",
    "priority", "nice", "num_threads", "itrealvalue", "starttime", "vsize",
    "rss", "rsslim", "startcode", "endcode", "startstack", "kstkesp",
    "kstkeip", "signal", "blocked", "sigignore", "sigcatch", "wchan", "nswap",
    "cnswap", "exit_signal", "processor">>

StatLine(comm) ==
  <<"pid", Blank, "(">> \o comm \o <<")">>
    \o [i \in 1..2 * Len(StatWords) |-> IF i % 2 = 1 THEN Blank ELSE StatWords[i \div 2]]

-----------------------------------------------------------------------------
(* Taking the stat file apart *)

Indices(s, c) == {i \in DOMAIN s : s[i] = c}

\* strings.Fields: the words between blanks, each a sequence of characters.
WordStarts(s) == {i \in DOMAIN s : s[i] # Blank /\ (i = 1 \/ s[i - 1] = Blank)}

WordAt(s, i) ==
  LET after == {j \in i..Len(s) : s[j] = Blank}
  IN  SubSeq(s, i, IF after = {} THEN Len(s) ELSE Min(after) - 1)

\* fields[n], counted from 0.
Field(s, n) ==
  WordAt(s, CHOOSE i \in WordStarts(s) : Cardinality({j \in WordStarts(s) : j < i}) = n)

\* strtoull(fields[n]) with the error ignored: anything but a number is 0.
strtoull(s, n) ==
  LET word == Field(s, n)
  IN  IF Len(word) = 1 /\ word[1] \notin CommChars THEN word[1] ELSE "0"

\* Variant: the name ends at the first closing parenthesis.
rIdxFirst(line) == Min(Indices(line, ")"))

\* bytes.LastIndex(data, ")")
rIdx(line) == Max(Indices(line, ")"))

\* The test before the name is taken out.
commFound(line) ==
  /\ Min(Indices(line, "(")) < rIdx(line)
  /\ rIdx(line) + 2 <= Len(line)

commOf(line) == SubSeq(line, Min(Indices(line, "(")) + 1, rIdx(line) - 1)

\* The fields after the name, those that ProcState is interested in.
interests(line) ==
  LET rest == SubSeq(line, rIdx(line) + 2, Len(line))
      wanted == <<0, 1, 2, 4, 15, 16, 36>>
  IN  IF Cardinality(WordStarts(rest)) <= 36 THEN <<>>
      ELSE [n \in DOMAIN wanted |-> Head(Field(rest, wanted[n]))]

\* The words behind the state that fmt.Fscan stores: up to one that is no number.
scanned(words) ==
  LET other == {n \in 2..Len(words) : words[n] \in CommChars}
  IN  IF other = {} THEN Tail(words) ELSE SubSeq(words, 2, Min(other) - 1)

\* ProcMem's words of the whole line.
faults(line) == <<strtoull(line, 10), strtoull(line, 12)>>

\* ProcTime's words of the whole line: user, sys and start time.
times(line) == <<strtoull(line, 13), strtoull(line, 14), strtoull(line, 21)>>

\* What the getters take out of the stat file of a process of each name.
Stat ==
  [c \in Comms |->
     LET line == StatLine(c)
     IN  [found     |-> commFound(line),
          comm      |-> commOf(line),
          interests |-> interests(line),
          scanned   |-> scanned(interests(line)),
          faults    |-> faults(line),
          times     |-> times(line)]]

stat == Stat[process.comm]

-----------------------------------------------------------------------------

Init ==
  /\ process \in [life : {1}, state : {"run"}, comm : Comms, user : Users]
  /\ getter \in Getters
  /\ todo = <<>>
  /\ opened = 0
  /\ receiver = Fresh(getter)
  /\ result = "new"
  /\ present = TRUE
  /\ absent = FALSE

Used == [f \in DOMAIN receiver |-> [receiver[f] EXCEPT !.now = FALSE]]

\* The caller calls Get, on a new receiver or on the one it used last.
Call(g, order) ==
  /\ result # "none"
  /\ getter' = g
  /\ todo' = order
  /\ receiver' \in {Fresh(g)} \cup (IF g = getter THEN {Used} ELSE {})
  /\ result' = "none"
  /\ present' = Exists
  /\ absent' = ~Exists
  /\ UNCHANGED <<process, opened>>

\* Get returns the error; what it has stored so far stays.
FailStoring(err, r) ==
  /\ result' = err
  /\ todo' = <<>>
  /\ opened' = 0
  /\ receiver' = r
  /\ UNCHANGED <<process, getter, present, absent>>

Fail(err) == FailStoring(err, receiver)

\* readProcFile turns a file that is not there into ESRCH.
ViaReadProcFile == {"stat", "statm", "cmdline", "environ"}

\* Variant: the error of the open is passed on.
OpenErrorPlain(file) == "error"

\* What a failing open of the file is reported as.
OpenError(file) == IF file \in ViaReadProcFile /\ ~Exists THEN "ESRCH" ELSE "error"

Open ==
  /\ result = "none"
  /\ opened = 0
  /\ IF Readable(Head(todo))
       THEN opened' = process.life /\ UNCHANGED <<process, getter, todo, receiver, result, present, absent>>
       ELSE Fail(OpenError(Head(todo)))

\* The file is open and its process has exited since: the read fails.
ReadGone ==
  /\ result = "none"
  /\ opened # 0
  /\ ~Exists \/ process.life # opened
  /\ Fail("error")

Value(what) == [what |-> what, comm |-> process.comm, now |-> TRUE]

Stores(field, what) == [receiver EXCEPT ![field] = Value(what)]

\* Variant: Get returns after its first file.
StoredEarly(r) ==
  /\ result = "none"
  /\ opened = process.life
  /\ Exists
  /\ receiver' = r
  /\ todo' = Tail(todo)
  /\ opened' = 0
  /\ result' = "ok"
  /\ UNCHANGED <<process, getter, present, absent>>

\* The file was read: the receiver becomes r and the next file is due.
Stored(r) ==
  /\ result = "none"
  /\ opened = process.life
  /\ Exists
  /\ receiver' = r
  /\ todo' = Tail(todo)
  /\ opened' = 0
  /\ result' = IF Len(todo) = 1 THEN "ok" ELSE "none"
  /\ UNCHANGED <<process, getter, present, absent>>

Reading(g, file) == getter = g /\ todo # <<>> /\ Head(todo) = file /\ opened # 0

\* ProcState's name is stored before the words are counted and scanned, and the
\* words up to the one that does not scan.
WithName == [receiver EXCEPT !["Name"] = Value(stat.comm)]

WithStat(words) == [WithName EXCEPT !["Stat"] = Value(words)]

\* ProcState: the name and the words, or the error of a line that lacks them.
ProcStateStat ==
  /\ Reading("ProcState", "stat")
  /\ Exists /\ process.life = opened
  /\ \/ ~stat.found /\ Fail("error")
     \/ stat.found /\ stat.interests = <<>> /\ FailStoring("error", WithName)
     \/ /\ stat.found /\ stat.interests # <<>>
        /\ IF stat.scanned = Tail(stat.interests)
             THEN Stored(WithStat(stat.interests))
             ELSE FailStoring("error", WithStat(stat.scanned))

\* Variant: the user is left as it was when there is no name for the uid.
ProcStateStatusNamed ==
  /\ Reading("ProcState", "status")
  /\ Stored(Stores("Username", <<"name">>)) \/ Stored(receiver)

\* The uid in the status file, as a name when the user database has one.
ProcStateStatus ==
  /\ Reading("ProcState", "status")
  /\ \E form \in {"name", "uid"} : Stored(Stores("Username", <<form>>))

ProcMemStatm ==
  /\ Reading("ProcMem", "statm")
  /\ Stored(Stores("Size", <<"size", "resident", "share">>))

ProcMemStat ==
  /\ Reading("ProcMem", "stat")
  /\ Stored(Stores("Faults", stat.faults))

ProcTimeStat ==
  /\ Reading("ProcTime", "stat")
  /\ Stored(Stores("Times", stat.times))

ProcArgs == Reading("ProcArgs", "cmdline") /\ Stored(Stores("List", <<"args">>))

\* The variables are added to those of the receiver's earlier calls.
ProcEnv ==
  /\ Reading("ProcEnv", "environ")
  /\ Stored([receiver EXCEPT !["Vars"] = [Value(<<"vars">>) EXCEPT !.now = receiver["Vars"] = Unset]])

ProcExe ==
  \E link \in {"exe", "cwd", "root"} :
    Reading("ProcExe", link) /\ Stored(Stores(link, <<"path">>))

ProcFDUsage ==
  \/ Reading("ProcFDUsage", "limits") /\ Stored(Stores("Limits", <<"soft", "hard">>))
  \/ Reading("ProcFDUsage", "fd") /\ Stored(Stores("Open", <<"count">>))

Get ==
  \/ Open \/ ReadGone
  \/ ProcStateStat \/ ProcStateStatus
  \/ ProcMemStatm \/ ProcMemStat
  \/ ProcTimeStat
  \/ ProcArgs \/ ProcEnv \/ ProcExe \/ ProcFDUsage

-----------------------------------------------------------------------------
(* The process *)

\* The process becomes p; the running call's history takes note.
Become(p) ==
  /\ process' = p
  /\ present' = (present \/ (result = "none" /\ p.state # "gone"))
  /\ absent' = (absent \/ (result = "none" /\ p.state = "gone"))
  /\ UNCHANGED call

Exec == process.state = "run" /\ \E c \in Comms : Become([process EXCEPT !.comm = c])

Setuid == process.state = "run" /\ \E u \in Users : Become([process EXCEPT !.user = u])

Exit == process.state = "run" /\ Become([process EXCEPT !.state = "zombie"])

Reap == process.state = "zombie" /\ Become([process EXCEPT !.state = "gone"])

\* Another process is given the pid.
Reuse ==
  /\ ~Exists
  /\ process.life < MaxLives
  /\ \E c \in Comms, u \in Users :
       Become([life |-> process.life + 1, state |-> "run", comm |-> c, user |-> u])

Next ==
  \/ \E g \in Getters : \E order \in FileOrders[g] : Call(g, order)
  \/ Get
  \/ Exec \/ Setuid \/ Exit \/ Reap \/ Reuse

Spec == Init /\ [][Next]_vars

-----------------------------------------------------------------------------

\* Every variable holds a value of its kind, the receiver is the getter's, and
\* a call that has returned has no file left to read and none open.
TypeOK ==
  /\ process \in Processes
  /\ getter \in Getters
  /\ Len(todo) <= 3
  /\ opened \in 0..MaxLives
  /\ DOMAIN receiver = FieldsOf[getter]
  /\ \A f \in DOMAIN receiver : receiver[f].comm \in Comms \cup {<<>>} /\ receiver[f].now \in BOOLEAN
  /\ result \in {"new", "none", "ok", "ESRCH", "error"}
  /\ present \in BOOLEAN
  /\ absent \in BOOLEAN
  /\ result = "none" <=> todo # <<>>
  /\ opened # 0 => result = "none"

HasBlank(comm) == Blank \in Range(comm)

\* Every number lands in its own field whatever the command name is: ProcState
\* takes the name and the seven words it wants out of a stat file whose name
\* holds blanks and parentheses.  ProcTime, which counts words from the start
\* of the line, does so for a name without blanks.
RightFields ==
  result = "ok" =>
    /\ getter = "ProcState" =>
         /\ receiver["Name"].what = receiver["Name"].comm
         /\ receiver["Stat"].what =
              <<"state", "ppid", "pgrp", "tty_nr", "priority", "nice", "processor">>
    /\ getter = "ProcTime" =>
         \/ HasBlank(receiver["Times"].comm)
         \/ receiver["Times"].what = <<"utime", "stime", "starttime">>

\* A Get that succeeds leaves nothing of an earlier call in its receiver: every
\* field was read during this call.  ProcEnv, which adds to the map it finds, is
\* the exception.
SuccessIsCurrent ==
  result = "ok" /\ getter # "ProcEnv" =>
    \A f \in DOMAIN receiver : receiver[f].now

\* A process that runs through the whole call, and whose files this program may
\* read, is described without an error, whatever its name and whatever it execs.
LivingProcessIsRead ==
  result = "none" /\ result' \notin {"none", "ok"} =>
    \/ absent
    \/ getter = "ProcExe" /\ process.state = "zombie"
    \/ getter \in {"ProcEnv", "ProcExe", "ProcFDUsage"} /\ process.user # Self

\* The getters built on readProcFile report a pid that no process has as ESRCH,
\* the error their callers test for, and report it for no other reason.
AbsentIsESRCH ==
  /\ result = "ESRCH" => absent
  /\ ~present /\ result # "none" /\ getter \notin {"ProcExe", "ProcFDUsage"}
       => result = "ESRCH"

\* An error of a getter tells the caller what is the case: there is one only if
\* the process is not there or not to be read, and ESRCH only in the first case.
ErrorsAreRight == [][LivingProcessIsRead /\ AbsentIsESRCH']_vars

=============================================================================
