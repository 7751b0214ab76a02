----------------------------- MODULE WatcherHost -----------------------------
(***************************************************************************)
(* WatcherLinux composed with a host: processes that fork, exec, change    *)
(* their ids and exit, and the netlink socket that queues one datagram per *)
(* event, in order, until the reader receives it.  The kernel is not code  *)
(* of this repository; it is modelled by what handleEvent relies on.       *)
(*                                                                         *)
(* The application watches processes and keeps receiving.  subs is a       *)
(* history variable: the events of each process that the calls of Watch    *)
(* that have returned ask for, a forked child having its parent's when the *)
(* parent is watched for EXEC ("follow forks").  An event is owed to the   *)
(* application when it happens to a process with a subscription to it.  A  *)
(* RemoveWatch or a Close takes every promise back.                        *)
(*                                                                         *)
(* The socket buffer may overflow: the kernel drops the event, the next    *)
(* Recvfrom returns ENOBUFS before any datagram, and until the reader has  *)
(* emptied the buffer every other event is dropped too, without another    *)
(* error.  A child whose fork was lost is followed by nobody, and nothing  *)
(* is promised for it.                                                     *)
(***************************************************************************)
EXTENDS WatcherLinux

CONSTANTS Self,         \* the application's own process, which does not exit
          KernelEvents, \* the kinds of events that happen on this host
          QueueLen,     \* events that fit the socket buffer
          MaxLosses     \* bound: events that are lost

ASSUME HostAssumption ==
  /\ Self \in Procs
  /\ KernelEvents \subseteq Flags
  /\ QueueLen \in Nat \ {0}
  /\ MaxLosses \in Nat

VARIABLES alive,        \* the processes that exist
          queue,        \* the socket buffer: events and whether they are owed
          overrun,      \* the error ENOBUFS waits for the next Recvfrom
          congested,    \* events are dropped until the buffer is empty
          subs,         \* history: events the application subscribed to
          anySubs,      \* history: events it subscribed to with Watch(-1, ...)
          owed,         \* history: the event in the reader's hands is owed
          lost,         \* history: how many events were lost
          unreported,   \* history: no error was sent since the buffer overflowed
          missed        \* history: processes whose last exit was lost

host == <<alive, queue, overrun, congested>>
promises == <<subs, anySubs, owed>>
losses == <<lost, unreported, missed>>
hostVars == <<vars, host, promises, losses>>

HostInit ==
  /\ Init
  /\ alive = {Self}
  /\ queue = <<>>
  /\ subs = [p \in Procs |-> {}]
  /\ anySubs = {}
  /\ owed = FALSE
  /\ overrun = FALSE /\ congested = FALSE /\ lost = 0 /\ unreported = FALSE /\ missed = {}

-----------------------------------------------------------------------------
(* The kernel *)

Room == Len(queue) < QueueLen /\ ~congested

Emit(what, p, q) ==
  /\ what \in KernelEvents
  /\ Room \/ lost < MaxLosses
  /\ queue' = IF Room
               THEN Append(queue, [event |-> [what |-> what, pid |-> p, child |-> q],
                                   owed |-> what \in subs[p] \cup anySubs])
               ELSE queue
  /\ lost' = IF Room THEN lost ELSE lost + 1
  /\ congested' = ~Room
  /\ overrun' = (overrun \/ (congested' /\ ~congested))
  /\ unreported' = (unreported \/ (congested' /\ ~congested))

ForkProc(p, q) ==
  /\ p \in alive
  /\ q \notin alive
  /\ Emit("FORK", p, q)
  /\ alive' = alive \cup {q}
  /\ subs' = [subs EXCEPT ![q] = IF Room /\ "EXEC" \in subs[p] THEN subs[p] ELSE {}]
  /\ UNCHANGED <<vars, anySubs, owed, missed>>

ExitProc(p) ==
  /\ p \in alive \ {Self}
  /\ Emit("EXIT", p, p)
  /\ alive' = alive \ {p}
  /\ subs' = [subs EXCEPT ![p] = {}]
  /\ missed' = IF Room THEN missed \ {p} ELSE missed \cup {p}
  /\ UNCHANGED <<vars, anySubs, owed>>

\* exec, setuid, setgid, setsid
ChangeProc(p, what) ==
  /\ p \in alive
  /\ Emit(what, p, p)
  /\ UNCHANGED <<vars, alive, promises, missed>>

Kernel ==
  \/ \E p, q \in Procs : ForkProc(p, q)
  \/ \E p \in Procs : ExitProc(p)
  \/ \E p \in Procs, what \in Flags \ {"FORK", "EXIT"} : ChangeProc(p, what)

-----------------------------------------------------------------------------

\* Recvfrom takes the oldest datagram.
HostRecvfrom ==
  /\ ~overrun
  /\ queue # <<>>
  /\ Receive(<<Head(queue).event>>)
  /\ queue' = Tail(queue)
  /\ congested' = (congested /\ queue' # <<>>)
  /\ owed' = Head(queue).owed
  /\ UNCHANGED <<alive, overrun, subs, anySubs, losses>>

\* Recvfrom returns ENOBUFS, once.
HostRecvfromError ==
  /\ overrun
  /\ RecvfromError
  /\ overrun' = FALSE
  /\ UNCHANGED <<alive, queue, congested, promises, losses>>

\* The error is sent; the buffer may have overflowed again by then.
HostSendError ==
  /\ SendError
  /\ unreported' = overrun
  /\ UNCHANGED <<host, promises, lost, missed>>

HostReader ==
  /\ ReadEventsStep
  /\ pc[Reader] \notin {"recv", "sendError"}
  /\ UNCHANGED <<host, promises, losses>>

\* The step that completes a Watch makes its events owed from now on.
HostWatch(c) ==
  /\ Watch(c)
  /\ IF pc[c] \in {"or", "insert"}
       THEN /\ subs' = [p \in Procs |-> IF p = arg[c].pid /\ p \in alive
                                          THEN subs[p] \cup arg[c].flags
                                          ELSE subs[p]]
            /\ anySubs' = IF arg[c].pid = AnyPid THEN anySubs \cup arg[c].flags ELSE anySubs
       ELSE UNCHANGED <<subs, anySubs>>
  /\ UNCHANGED <<msgs, host, owed, losses>>

HostCallWatch(c) ==
  /\ \E p \in WatchKeys, f \in FlagSets : CallWatch(c, p, f)
  /\ UNCHANGED <<msgs, host, promises, losses>>

\* From the call on, nothing is owed.
HostCallRemoveOrClose(c) ==
  /\ (\E p \in RemoveKeys : CallRemoveWatch(c, p)) \/ CallClose(c)
  /\ subs' = [p \in Procs |-> {}]
  /\ anySubs' = {}
  /\ owed' = FALSE
  /\ queue' = [i \in DOMAIN queue |-> [queue[i] EXCEPT !.owed = FALSE]]
  /\ UNCHANGED <<msgs, alive, overrun, congested, losses>>

HostRemoveOrClose(c) ==
  /\ RemoveWatch(c) \/ CloseStep(c)
  /\ UNCHANGED <<msgs, host, promises, losses>>

HostNext ==
  \/ Kernel
  \/ HostRecvfrom
  \/ HostRecvfromError
  \/ HostSendError
  \/ HostReader
  \/ \E c \in Clients :
       HostCallWatch(c) \/ HostWatch(c) \/ HostCallRemoveOrClose(c) \/ HostRemoveOrClose(c)
  \/ MapFault /\ UNCHANGED <<msgs, host, promises, losses>>

HostSpec == HostInit /\ [][HostNext]_hostVars

-----------------------------------------------------------------------------

\* The reader filters out no event that is owed: an event of a process that is
\* watched for it, or that descends by fork from one watched for EXEC, reaches
\* the send on its channel, also after other events were lost.
OwedEventsAreSent ==
  [][msgs # <<>> /\ msgs' = Tail(msgs) /\ pc[Reader] # "send" => ~owed]_hostVars

\* When the reader has caught up with the kernel, a process whose entry asks for
\* EXIT still exists: the exit of a followed child has removed its entry, so
\* the table does not fill with dead processes and a reused pid is not taken
\* for the old process.  Only an exit event that was lost leaves an entry.
ExitClearsWatch ==
  queue = <<>> /\ pc[Reader] \in {"isDone", "recv"}
    => \A p \in Procs : Watched(p) /\ "EXIT" \in watches[p] => p \in alive \cup missed

\* An overflow is never silent: the reader goes on to no event, and so to none
\* that happened after the overflow, before it has sent an error to the
\* application.  The one error stands for all that is lost until the buffer
\* has been emptied.
LossIsReported == [][msgs = <<>> /\ msgs' # <<>> => ~unreported]_hostVars

=============================================================================
