----------------------------- MODULE WatcherBSD -----------------------------
(***************************************************************************)
(* psnotify/psnotify_bsd.go: the readEvents goroutine on a kqueue, and     *)
(* register and unregister, which here do something: they put a filter for *)
(* the pid into the kqueue and take it out again, through one event buffer *)
(* that all goroutines share.                                              *)
(*                                                                         *)
(* The kqueue is the kernel's.  A filter collects the events of its        *)
(* process until Kevent returns them, all in one set of flags.  The filter *)
(* of a process that has exited goes when its last events are returned.  A *)
(* pid is not reused here.                                                 *)
(***************************************************************************)
EXTENDS Watcher, Sequences, Functions

CONSTANT EventsLen      \* the length of the slice events of readEvents, 10

VARIABLES
  buf,            \* listener.buf[0]: the change handed to Kevent
  kq,             \* the filter of each process, or NoWatch
  pending,        \* the events each filter has collected
  alive,          \* the processes that exist
  events,         \* what Kevent returned and the reader has not handled yet
  overlap         \* history: a kevent began while another goroutine was in
                  \*   kevent, or between its register and its insert

kernel == <<kq, pending, alive>>
bsd == <<buf, kernel, events, overlap>>
vars == <<watcherVars, bsd>>

BSDFlags == {"FORK", "EXEC", "EXIT"}

\* psnotify_bsd.go has no other flags.
ASSUME BSDAssumption ==
  /\ FlagSets \subseteq SUBSET BSDFlags
  /\ IsFiniteSet(Procs)
  /\ EventsLen \in Nat \ {0}

Changes == [ident : Pids, flags : {"ADD", "DELETE"}, fflags : SUBSET Flags]

Kevents == [ident : Procs, fflags : SUBSET BSDFlags]

\* The steps of kevent(): three stores to the shared buffer and the system
\* call.  The label "register" stands for the first one of unregister as well.
KeventSteps == {"register", "flags", "fflags", "kevent"}

Init ==
  /\ NewWatcher("isDone")
  /\ buf = [ident |-> AnyPid, flags |-> "ADD", fflags |-> {}]
  /\ kq = [p \in Procs |-> NoWatch]
  /\ pending = [p \in Procs |-> {}]
  /\ alive = Procs
  /\ events = <<>>
  /\ overlap = FALSE

-----------------------------------------------------------------------------
(* kevent(pid, fflags, flags): unregister runs it under watchesMutex,        *)
(* register does not, and no mutex guards the buffer.                        *)

Unregistering(g) == watchesMutex = g

\* One store to the shared buffer.
Store(g, field, value, label) ==
  /\ buf' = [buf EXCEPT ![field] = value]
  /\ Goto(g, label)
  /\ UNCHANGED <<table, lifecycle, arg, entry, world, kernel, events>>

StoreIdent(g) ==
  /\ pc[g] = "register"
  /\ Store(g, "ident", arg[g].pid, "flags")
  /\ overlap' = (overlap \/ \E h \in Goroutines \ {g} :
                              pc[h] \in {"flags", "fflags", "kevent", "insert"})

StoreFlags(g) ==
  /\ pc[g] = "flags"
  /\ Store(g, "flags", IF Unregistering(g) THEN "DELETE" ELSE "ADD", "fflags")
  /\ UNCHANGED overlap

StoreFflags(g) ==
  /\ pc[g] = "fflags"
  /\ Store(g, "fflags", arg[g].flags, "kevent")
  /\ UNCHANGED overlap

\* The kernel finds the filter of the change, or for EV_ADD the process.
Found ==
  /\ buf.ident \in Procs
  /\ kq[buf.ident] # NoWatch \/ (buf.flags = "ADD" /\ buf.ident \in alive)

\* EV_ADD creates a filter or replaces its fflags, EV_DELETE drops it with
\* what it has collected; either fails when there is nothing to act on.
Change ==
  LET p == buf.ident IN
  IF ~Found THEN UNCHANGED <<kq, pending>>
  ELSE IF buf.flags = "ADD"
    THEN kq' = [kq EXCEPT ![p] = buf.fflags] /\ UNCHANGED pending
    ELSE kq' = [kq EXCEPT ![p] = NoWatch] /\ pending' = [pending EXCEPT ![p] = {}]

\* Variant: RemoveWatch returns without its Unlock.
AfterUnregisterLocked(g) ==
  Return(g, IF closedMutex = g THEN "delete" ELSE AfterRemove(g)) /\ UNCHANGED watchesMutex

\* Close goes on with its loop; RemoveWatch unlocks watchesMutex and returns.
AfterUnregister(g) ==
  IF closedMutex = g
    THEN Return(g, "delete") /\ UNCHANGED watchesMutex
    ELSE Return(g, AfterRemove(g)) /\ watchesMutex' = Nobody

\* After register Watch inserts its entry, or returns the error.
AfterRegister(g) ==
  /\ IF Found
       THEN Goto(g, "insert") /\ UNCHANGED arg
       ELSE Return(g, "idle")
  /\ UNCHANGED watchesMutex

\* Variant: unregister leaves the kqueue as it is.
KeventAddOnly(g) ==
  /\ pc[g] = "kevent"
  /\ IF Unregistering(g)
       THEN AfterUnregister(g) /\ UNCHANGED <<kq, pending>>
       ELSE AfterRegister(g) /\ Change
  /\ UNCHANGED <<watches, lifecycle, entry, world, buf, alive, events, overlap>>

\* The system call, with whatever the buffer holds by now.
Kevent(g) ==
  /\ pc[g] = "kevent"
  /\ Change
  /\ IF Unregistering(g) THEN AfterUnregister(g) ELSE AfterRegister(g)
  /\ UNCHANGED <<watches, lifecycle, entry, world, buf, alive, events, overlap>>

kevent(g) == StoreIdent(g) \/ StoreFlags(g) \/ StoreFflags(g) \/ Kevent(g)

-----------------------------------------------------------------------------
(* Watch, RemoveWatch and Close, with the unregister in their loops *)

Watch(g) ==
  /\ WatchCheck(g) \/ WatchLookup(g) \/ WatchOr(g) \/ WatchInsert(g)
  /\ UNCHANGED bsd

\* An absent pid is an error; the entry of another is deleted, and unregister
\* runs before the deferred Unlock.
RemoveWatchLocked(g) ==
  /\ pc[g] = "remove"
  /\ watchesMutex = Nobody
  /\ IF Watched(arg[g].pid)
       THEN /\ watches' = [watches EXCEPT ![arg[g].pid] = NoWatch]
            /\ watchesMutex' = g
            /\ Goto(g, "register")
            /\ UNCHANGED arg
       ELSE Return(g, AfterRemove(g)) /\ UNCHANGED table
  /\ entry' = Detached(arg[g].pid)
  /\ UNCHANGED <<lifecycle, world, bsd>>

\* One iteration of Close's loop, up to the call of unregister.
CloseUnregister(c) ==
  /\ pc[c] = "delete"
  /\ \E p \in Pids :
       /\ Watched(p)
       /\ watches' = [watches EXCEPT ![p] = NoWatch]
       /\ entry' = Detached(p)
       /\ arg' = [arg EXCEPT ![c] = [pid |-> p, flags |-> {}]]
  /\ Goto(c, "register")
  /\ UNCHANGED <<watchesMutex, lifecycle, world, bsd>>

\* Close up to its receive from breakLoop: no code here closes that channel, so
\* the steps CloseAwait and CloseListener of module Watcher are never enabled.
Close(c) ==
  \/ CloseUnregister(c)
  \/ /\ CloseEnter(c) \/ CloseLockWatches(c) \/ CloseUnlockWatches(c) \/ CloseSignal(c)
     /\ UNCHANGED bsd

-----------------------------------------------------------------------------
(* readEvents *)

\* Kevent blocks until a filter has collected something and returns each such
\* filter once, in any order, as many as the slice has room for; that empties
\* it, and drops it when its process is gone.
Poll ==
  /\ pc[Reader] = "poll"
  /\ \E ready \in SUBSET {p \in Procs : pending[p] # {}} :
       /\ ready # {}
       /\ Cardinality(ready) <= EventsLen
       /\ Cardinality(ready) < EventsLen => \A p \in Procs \ ready : pending[p] = {}
       /\ events' \in Bijection(1..Cardinality(ready), {[ident |-> p, fflags |-> pending[p]] : p \in ready})
       /\ kq' = [p \in Procs |-> IF p \in ready \ alive THEN NoWatch ELSE kq[p]]
       /\ pending' = [p \in Procs |-> IF p \in ready THEN {} ELSE pending[p]]
  /\ Goto(Reader, "handle")
  /\ UNCHANGED <<table, lifecycle, arg, entry, world, buf, alive, overlap>>

\* Kevent failed.
PollError ==
  /\ pc[Reader] = "poll"
  /\ Goto(Reader, "sendError")
  /\ UNCHANGED <<table, lifecycle, arg, entry, world, bsd>>

\* w.Error <- err; continue
SendError ==
  /\ pc[Reader] = "sendError"
  /\ receiving
  /\ Goto(Reader, "isDone")
  /\ UNCHANGED <<table, lifecycle, arg, entry, world, bsd>>

EndOfEvents ==
  /\ pc[Reader] = "handle"
  /\ events = <<>>
  /\ Goto(Reader, "isDone")
  /\ UNCHANGED <<table, lifecycle, arg, entry, world, bsd>>

ev == Head(events)

\* The switch compares the whole of ev.Fflags: events that were collected
\* together match no case.
HandleEvent ==
  /\ pc[Reader] = "handle"
  /\ events # <<>>
  /\ IF ev.fflags = {"EXIT"}
       THEN /\ Goto(Reader, "remove")
            /\ arg' = [arg EXCEPT ![Reader] = [pid |-> ev.ident, flags |-> {}]]
       ELSE /\ Goto(Reader, IF Cardinality(ev.fflags) = 1 THEN "send" ELSE "handle")
            /\ UNCHANGED arg
  /\ events' = IF Cardinality(ev.fflags) = 1 THEN events ELSE Tail(events)
  /\ UNCHANGED <<table, lifecycle, entry, world, buf, kernel, overlap>>

Send ==
  /\ pc[Reader] = "send"
  /\ receiving
  /\ events' = Tail(events)
  /\ Goto(Reader, "handle")
  /\ UNCHANGED <<table, lifecycle, arg, entry, world, buf, kernel, overlap>>

-----------------------------------------------------------------------------
(* The processes *)

\* p forks or execs: its filter collects the event if it is asked for.
Happens(p, what) ==
  /\ p \in alive
  /\ kq[p] # NoWatch /\ what \in kq[p]
  /\ pending' = [pending EXCEPT ![p] = @ \cup {what}]
  /\ UNCHANGED <<watcherVars, buf, kq, alive, events, overlap>>

\* p exits; a filter with nothing to report goes with it.
ProcExit(p) ==
  /\ p \in alive
  /\ alive' = alive \ {p}
  /\ pending' = IF "EXIT" \in kq[p] THEN [pending EXCEPT ![p] = @ \cup {"EXIT"}] ELSE pending
  /\ kq' = IF pending'[p] = {} THEN [kq EXCEPT ![p] = NoWatch] ELSE kq
  /\ UNCHANGED <<watcherVars, buf, events, overlap>>

Process(p) == Happens(p, "FORK") \/ Happens(p, "EXEC") \/ ProcExit(p)

-----------------------------------------------------------------------------

ReaderStep ==
  \/ isDone("poll", "stopped") /\ UNCHANGED bsd
  \/ Poll \/ PollError \/ SendError \/ EndOfEvents \/ HandleEvent \/ Send
  \/ RemoveWatchLocked(Reader)
  \/ kevent(Reader)

ClientStep(c) == Watch(c) \/ RemoveWatchLocked(c) \/ kevent(c) \/ Close(c)

Call(c) ==
  /\ \/ \E p \in WatchKeys, f \in FlagSets : CallWatch(c, p, f)
     \/ \E p \in RemoveKeys : CallRemoveWatch(c, p)
     \/ CallClose(c)
  /\ UNCHANGED bsd

Next ==
  \/ ReaderStep
  \/ \E c \in Clients : Call(c) \/ ClientStep(c)
  \/ \E p \in Procs : Process(p)
  \/ StopReceiving /\ UNCHANGED bsd
  \/ MapFault /\ UNCHANGED bsd

Spec == Init /\ [][Next]_vars

-----------------------------------------------------------------------------

ReaderSteps == {"isDone", "poll", "handle", "send", "sendError", "remove", "stopped"} \cup KeventSteps

\* Every variable holds a value of its kind, the reader has an event in hand
\* wherever it uses one, a process without a filter has no events waiting, and
\* watchesMutex is held across the kevent of an unregister and by the loop of
\* Close and nowhere else: it is released on every path.
TypeOK ==
  /\ watches \in [Pids -> Entries]
  /\ watchesMutex \in Goroutines \cup {Nobody}
  /\ closedMutex \in Clients \cup {Nobody}
  /\ {isClosed, done, finished, breakLoop, listenerOpen, receiving, fault, overlap} \subseteq BOOLEAN
  /\ \A c \in Clients : pc[c] \in ClientSteps \cup KeventSteps
  /\ pc[Reader] \in ReaderSteps
  /\ arg \in [Goroutines -> Args]
  /\ entry \in [Goroutines -> Entries]
  /\ buf \in Changes
  /\ kq \in [Procs -> (SUBSET BSDFlags) \cup {NoWatch}]
  /\ pending \in [Procs -> SUBSET BSDFlags]
  /\ alive \subseteq Procs
  /\ events \in Seq(Kevents)
  /\ pc[Reader] \in {"send", "remove"} \cup KeventSteps => events # <<>>
  /\ \A p \in Procs : kq[p] = NoWatch => pending[p] = {}
  /\ \A g \in Goroutines : watchesMutex = g =>
       pc[g] \in KeventSteps \cup (IF g = Reader THEN {} ELSE {"delete"})

\* No goroutine is between the table and the kqueue.
Settled ==
  /\ watchesMutex = Nobody
  /\ \A g \in Goroutines : pc[g] \notin KeventSteps \cup {"insert"}

\* The kqueue follows the watch table: for a process that exists there is a
\* filter exactly when there is an entry, and the filter asks for no event the
\* entry does not.  Nothing but the order of the calls keeps the two together,
\* so this holds as long as no two calls of kevent have overlapped.
KqueueFollowsTable ==
  Settled /\ ~overlap =>
    \A p \in alive : /\ Watched(p) <=> kq[p] # NoWatch
                     /\ Watched(p) => kq[p] \subseteq watches[p]

lifecycleState ==
  IF ~listenerOpen THEN "closed"
  ELSE IF finished THEN "finished"
  ELSE IF isClosed THEN "closing"
  ELSE "open"

Lifecycle == INSTANCE WatcherLifecycle
               WITH state <- lifecycleState,
                    offer <- pc[Reader] \in {"send", "sendError"}

\* The kqueue watcher shuts down in the order of the abstract lifecycle, as
\* far as it gets: nothing is offered once the channels are closed.
ImplementsLifecycle == Lifecycle!Spec

=============================================================================
