---------------------------- MODULE WatcherLinux ----------------------------
(***************************************************************************)
(* psnotify/psnotify_linux.go: the readEvents goroutine on the netlink     *)
(* process connector, composed with the API of module Watcher.             *)
(*                                                                         *)
(* The kernel is an arbitrary environment here: any datagram may be        *)
(* received at any time, and Recvfrom may fail.  A message carries the pid *)
(* handleEvent takes out of it (the Tgid for FORK, EXEC and EXIT, the      *)
(* ProcessPid for UID, GID and SID) and, for FORK, the child's Tgid.       *)
(* "OTHER" is a message that is not of type NLMSG_DONE or whose What is    *)
(* none of the cases.                                                      *)
(***************************************************************************)
EXTENDS Watcher, Sequences

CONSTANTS Datagrams,    \* what one Recvfrom can return: sequences of messages
          Received      \* the channels the application's select receives on

Events == [what : Flags \cup {"OTHER"}, pid : Procs, child : Procs]

Channels == {"Fork", "Exec", "Exit", "Sid", "Uid", "Error"}

ASSUME LinuxAssumption ==
  /\ Datagrams \subseteq Seq(Events)
  /\ Received \subseteq Channels

VARIABLE msgs           \* the messages of the datagram not yet handled

vars == <<watcherVars, msgs>>

\* The reader is in handleEvent, past the switch on the event.
EventSteps == {"followParent", "followAny", "forkFilter", "remove", "send"} \cup WatchSteps

\* The reader has not left the loop of readEvents.
LoopSteps == {"isDone", "recv", "handle", "sendError"} \cup EventSteps

ReaderSteps == LoopSteps \cup {"break", "stopped"}

Init == NewWatcher("isDone") /\ msgs = <<>>

-----------------------------------------------------------------------------
(* register and unregister are no-ops on Linux. *)

register(g) ==
  /\ pc[g] = "register"
  /\ Goto(g, "insert")
  /\ UNCHANGED <<table, lifecycle, arg, entry, world>>

Watch(g) ==
  \/ WatchCheck(g)
  \/ WatchLookup(g)
  \/ WatchOr(g)
  \/ register(g)
  \/ WatchInsert(g)

-----------------------------------------------------------------------------
(* readEvents *)

Receive(d) ==
  /\ pc[Reader] = "recv"
  /\ msgs' = d
  /\ Goto(Reader, "handle")
  /\ UNCHANGED <<table, lifecycle, arg, entry, world>>

Recvfrom == \E d \in Datagrams : Receive(d)

\* Variant: the reader tries again.
RecvfromErrorAgain ==
  /\ pc[Reader] = "recv"
  /\ Goto(Reader, "isDone")
  /\ UNCHANGED <<table, lifecycle, arg, entry, world, msgs>>

\* Recvfrom failed, or returned less than a netlink header.
RecvfromError ==
  /\ pc[Reader] = "recv"
  /\ Goto(Reader, "sendError")
  /\ UNCHANGED <<table, lifecycle, arg, entry, world, msgs>>

\* w.Error <- err; continue
SendError ==
  /\ pc[Reader] = "sendError"
  /\ receiving
  /\ "Error" \in Received
  /\ Goto(Reader, "isDone")
  /\ UNCHANGED <<table, lifecycle, arg, entry, world, msgs>>

EndOfDatagram ==
  /\ pc[Reader] = "handle"
  /\ msgs = <<>>
  /\ Goto(Reader, "isDone")
  /\ UNCHANGED <<table, lifecycle, arg, entry, world, msgs>>

\* Variant: the reader returns instead of breaking out of its loop.
ReturnWithoutBreakLoop ==
  /\ pc[Reader] = "break"
  /\ Goto(Reader, "stopped")
  /\ UNCHANGED <<table, lifecycle, arg, entry, world, msgs>>

\* break; close(w.breakLoop)
CloseBreakLoop ==
  /\ pc[Reader] = "break"
  /\ breakLoop' = TRUE
  /\ Goto(Reader, "stopped")
  /\ UNCHANGED <<table, closedMutex, isClosed, done, finished, listenerOpen,
                 arg, entry, world, msgs>>

-----------------------------------------------------------------------------
(* handleEvent *)

\* An entry for the pid decides alone; the entry of -1 counts only without one.
isWatching(pid, event) ==
  IF Watched(pid)
    THEN event \in watches[pid]
    ELSE Watched(AnyPid) /\ event \in watches[AnyPid]

msg == Head(msgs)

\* The channel handleEvent sends the event on.
ChannelOf(what) ==
  CASE what = "FORK" -> "Fork"
    [] what = "EXEC" -> "Exec"
    [] what = "EXIT" -> "Exit"
    [] what \in {"UID", "GID"} -> "Uid"
    [] what = "SID" -> "Sid"

\* The flag isWatching is asked for: GID events are filtered by PROC_EVENT_UID.
FilterFlag(what) == IF what = "GID" THEN "UID" ELSE what

NextMsg(label) == Goto(Reader, label) /\ msgs' = Tail(msgs)

HandleOther ==
  /\ pc[Reader] = "handle"
  /\ msgs # <<>>
  /\ msg.what = "OTHER"
  /\ NextMsg("handle")
  /\ UNCHANGED <<table, lifecycle, arg, entry, world>>

\* Variant: forks are not followed.
HandleForkOnly ==
  /\ pc[Reader] = "handle"
  /\ msgs # <<>>
  /\ msg.what = "FORK"
  /\ Goto(Reader, "forkFilter")
  /\ UNCHANGED <<table, lifecycle, arg, entry, world, msgs>>

\* case FORK: a parent watched for EXEC has its children watched too.
HandleFork ==
  /\ pc[Reader] = "handle"
  /\ msgs # <<>>
  /\ msg.what = "FORK"
  /\ watchesMutex = Nobody
  /\ Goto(Reader, IF isWatching(msg.pid, "EXEC") THEN "followParent" ELSE "forkFilter")
  /\ UNCHANGED <<table, lifecycle, arg, entry, world, msgs>>

\* watch, ok := w.watches[key], without watchesMutex; with an entry the reader
\* calls w.Watch(child, watch.flags), without one it goes on at label.
Follow(key, label) ==
  /\ IF Watched(key)
       THEN /\ arg' = [arg EXCEPT ![Reader] = [pid |-> msg.child, flags |-> watches[key]]]
            /\ Goto(Reader, "check")
       ELSE Goto(Reader, label) /\ UNCHANGED arg
  /\ UNCHANGED <<table, lifecycle, entry, world, msgs>>

FollowParent == pc[Reader] = "followParent" /\ Follow(msg.pid, "followAny")

FollowAny == pc[Reader] = "followAny" /\ Follow(AnyPid, "forkFilter")

\* The second filter of case FORK.
ForkFilter ==
  /\ pc[Reader] = "forkFilter"
  /\ watchesMutex = Nobody
  /\ IF isWatching(msg.pid, "FORK")
       THEN Goto(Reader, "send") /\ UNCHANGED msgs
       ELSE NextMsg("handle")
  /\ UNCHANGED <<table, lifecycle, arg, entry, world>>

HandleExec ==
  /\ pc[Reader] = "handle"
  /\ msgs # <<>>
  /\ msg.what = "EXEC"
  /\ watchesMutex = Nobody
  /\ IF isWatching(msg.pid, "EXEC")
       THEN Goto(Reader, "send") /\ UNCHANGED msgs
       ELSE NextMsg("handle")
  /\ UNCHANGED <<table, lifecycle, arg, entry, world>>

\* Variant: the exit is reported and the watch is kept.
HandleAndKeep ==
  /\ pc[Reader] = "handle"
  /\ msgs # <<>>
  /\ msg.what \in {"EXIT", "UID", "GID", "SID"}
  /\ watchesMutex = Nobody
  /\ IF isWatching(msg.pid, FilterFlag(msg.what))
       THEN Goto(Reader, "send") /\ UNCHANGED msgs
       ELSE NextMsg("handle")
  /\ UNCHANGED <<table, lifecycle, arg, entry, world>>

\* case EXIT, UID, GID and SID: RemoveWatch(pid), then the send.
HandleAndRemove ==
  /\ pc[Reader] = "handle"
  /\ msgs # <<>>
  /\ msg.what \in {"EXIT", "UID", "GID", "SID"}
  /\ watchesMutex = Nobody
  /\ IF isWatching(msg.pid, FilterFlag(msg.what))
       THEN /\ Goto(Reader, "remove")
            /\ arg' = [arg EXCEPT ![Reader] = [pid |-> msg.pid, flags |-> {}]]
            /\ UNCHANGED msgs
       ELSE NextMsg("handle") /\ UNCHANGED arg
  /\ UNCHANGED <<table, lifecycle, entry, world>>

\* The send on an unbuffered channel completes when the application receives.
Send ==
  /\ pc[Reader] = "send"
  /\ receiving
  /\ ChannelOf(msg.what) \in Received
  /\ NextMsg("handle")
  /\ UNCHANGED <<table, lifecycle, arg, entry, world>>

-----------------------------------------------------------------------------

\* Steps of the reader that only the API half of the state takes part in.
ReaderCalls ==
  /\ isDone("recv", "break") \/ Watch(Reader) \/ RemoveWatch(Reader)
  /\ UNCHANGED msgs

\* Steps of the reader that do not depend on what the kernel sends.
ReadEventsStep ==
  \/ ReaderCalls
  \/ RecvfromError
  \/ SendError
  \/ EndOfDatagram
  \/ CloseBreakLoop
  \/ HandleOther
  \/ HandleFork
  \/ FollowParent
  \/ FollowAny
  \/ ForkFilter
  \/ HandleExec
  \/ HandleAndRemove
  \/ Send

ReaderStep == Recvfrom \/ ReadEventsStep

\* A step of a call that client c is in.
ClientStep(c) ==
  /\ Watch(c) \/ RemoveWatch(c) \/ CloseStep(c)
  /\ UNCHANGED msgs

Call(c) ==
  /\ \/ \E p \in WatchKeys, f \in FlagSets : CallWatch(c, p, f)
     \/ \E p \in RemoveKeys : CallRemoveWatch(c, p)
     \/ CallClose(c)
  /\ UNCHANGED msgs

Next ==
  \/ ReaderStep
  \/ \E c \in Clients : Call(c) \/ ClientStep(c)
  \/ StopReceiving /\ UNCHANGED msgs
  \/ MapFault /\ UNCHANGED msgs

Spec == Init /\ [][Next]_vars

\* Every goroutine that can run does run in the end, and a Go mutex does not
\* starve a waiter (hence strong fairness).  For the reader this includes
\* that Recvfrom returns in the end: some process on the host forks, execs or
\* exits.  No call is obliged to be made.
Fairness ==
  /\ SF_vars(ReaderStep)
  /\ \A c \in Clients : SF_vars(ClientStep(c))

FairSpec == Spec /\ Fairness

-----------------------------------------------------------------------------
(* Safety *)

\* Every variable holds a value of its kind; clients are never at a step of
\* the reader, nor the reader inside Close, and the reader has an event in
\* hand wherever handleEvent uses one.
TypeOK ==
  /\ watches \in [Pids -> Entries]
  /\ watchesMutex \in Clients \cup {Nobody}
  /\ closedMutex \in Clients \cup {Nobody}
  /\ isClosed \in BOOLEAN
  /\ done \in BOOLEAN
  /\ finished \in BOOLEAN
  /\ breakLoop \in BOOLEAN
  /\ listenerOpen \in BOOLEAN
  /\ pc \in [Goroutines -> ClientSteps \cup ReaderSteps]
  /\ pc[Reader] \in ReaderSteps
  /\ \A c \in Clients : pc[c] \in ClientSteps
  /\ arg \in [Goroutines -> Args]
  /\ entry \in [Goroutines -> Entries]
  /\ receiving \in BOOLEAN
  /\ fault \in BOOLEAN
  /\ msgs \in Seq(Events)
  /\ pc[Reader] \in EventSteps => msgs # <<>>

\* Close closes the listener only after readEvents has left its loop, so the
\* reader never calls Recvfrom on a descriptor that is closed or reused, and
\* by then every event channel is closed.
ListenerOutlivesReader ==
  ~listenerOpen => pc[Reader] = "stopped" /\ finished

\* w.done <- true in Close never blocks: the channel of capacity 1 is empty
\* whenever a Close gets there, however many goroutines call Close.
SignalNeverBlocks == \A c \in Clients : pc[c] = "signal" => ~done

\* readEvents never sends on an event channel that finish() has closed (which
\* would panic): the only goroutine that sends is the one that closes.
NoSendOnClosedChannel == finished => pc[Reader] \notin {"send", "sendError"}

\* Close has emptied the watch table and let go of it.
Cleared ==
  \/ ~listenerOpen
  \/ \E c \in Clients : pc[c] \in {"signal", "await", "closeListener"}

\* A Watch that read isClosed before Close stored it may still insert its entry
\* after Close emptied the table; once the table has been emptied no other
\* Watch can, so each goroutine other than the closer leaves one at most.
LateWatchesBounded ==
  Cleared => Cardinality({p \in Pids : Watched(p)})
               + Cardinality({g \in Goroutines : pc[g] \in {"lookup", "register", "insert"}})
             <= Cardinality(Goroutines) - 1

-----------------------------------------------------------------------------
(* The shutdown protocol *)

lifecycleState ==
  IF ~listenerOpen THEN "closed"
  ELSE IF finished THEN "finished"
  ELSE IF isClosed THEN "closing"
  ELSE "open"

Lifecycle == INSTANCE WatcherLifecycle
               WITH state <- lifecycleState,
                    offer <- pc[Reader] \in {"send", "sendError"}

\* The watcher shuts down in one order: Close is called, the reader takes its
\* last event off its hands and closes the channels, and the listener is
\* released; nothing is offered on a channel after that.
ImplementsLifecycle == Lifecycle!Spec

\* How isClosed, done, finished, breakLoop and the listener move together:
\* the one Close that gets past its guard holds closedMutex until the listener
\* is closed, and the done message is consumed by the reader that then closes
\* the channels and breakLoop.
ShutdownInv ==
  /\ \A c \in Clients : pc[c] \in CloseSteps <=> closedMutex = c
  /\ \A c \in Clients : pc[c] = "delete" <=> watchesMutex = c
  /\ ~isClosed => ~done /\ ~finished /\ closedMutex = Nobody
  /\ done => ~finished
  /\ done => \E c \in Clients : pc[c] = "await"
  /\ finished <=> pc[Reader] \in {"break", "stopped"}
  /\ finished => ~listenerOpen \/ \E c \in Clients : pc[c] \in {"await", "closeListener"}
  /\ breakLoop <=> pc[Reader] = "stopped"
  /\ \A c \in Clients : pc[c] = "closeListener" => breakLoop
  /\ ~listenerOpen => breakLoop /\ closedMutex = Nobody

-----------------------------------------------------------------------------
(* The watch table *)

\* Watch is to "Add pid to the watched process set", with "a bitmask of process
\* events to capture" (psnotify.go 125-127): it adds events to an entry and never
\* takes one away, so the flags of a pid change to a smaller set only by the
\* removal of the whole entry.
FlagsNeverShrink ==
  [][\A p \in Pids : Watched(p) /\ Watched(p)' => watches[p] \subseteq watches'[p]]_vars

\* Close "removes all watches": the table is empty once it has returned.
ClosedTableEmpty == ~listenerOpen => \A p \in Pids : ~Watched(p)

\* No goroutine reads w.watches while another writes it, so the Go runtime
\* does not abort the program that uses the watcher.
NoMapFault == ~fault

-----------------------------------------------------------------------------
(* Progress *)

\* The reader, following a fork, waits in Watch for closedMutex, whose holder
\* waits in Close for the reader.
CloseDeadlock == pc[Reader] = "check" /\ \E c \in Clients : pc[c] = "await"

\* While the application receives, a Close that has begun returns, unless the
\* runtime aborts or it falls into the one known deadlock: no other wait of
\* Close or of the reader is for ever.
CloseReturnsOrDeadlocks ==
  []receiving =>
    \A c \in Clients : pc[c] \in CloseSteps ~> pc[c] = "idle" \/ fault \/ CloseDeadlock

\* Close completes: it closes the listener and the channels and returns, as
\* long as the application receives and the runtime does not abort.
CloseCompletes ==
  []receiving => \A c \in Clients : pc[c] \in CloseSteps ~> pc[c] = "idle" \/ fault

\* RemoveWatch returns whatever the application and a concurrent Close do:
\* no one keeps watchesMutex for ever.
RemoveWatchReturns == \A c \in Clients : pc[c] = "remove" ~> pc[c] = "idle" \/ fault

\* Watch returns unless a Close waits for the reader: nobody else keeps
\* closedMutex or watchesMutex for ever.
WatchReturns ==
  \A c \in Clients : pc[c] \in WatchSteps ~>
    pc[c] = "idle" \/ fault \/ \E d \in Clients : pc[d] = "await"

\* Every call of Watch, RemoveWatch and Close returns; Close in its deadlock
\* with a reader that follows a fork, and what waits for that Close, are the
\* only exceptions.
CallsReturn == CloseReturnsOrDeadlocks /\ RemoveWatchReturns /\ WatchReturns

=============================================================================
