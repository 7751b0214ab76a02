------------------------------ MODULE Watcher ------------------------------
(***************************************************************************)
(* psnotify/psnotify.go: the platform independent half of a process-event  *)
(* Watcher.  Any number of goroutines (Clients) call Watch, RemoveWatch    *)
(* and Close; one goroutine per watcher (Reader) runs readEvents, which is *)
(* platform code and lives in the modules that extend this one.  The       *)
(* reader itself calls Watch (to follow forks) and RemoveWatch (when a     *)
(* process exits), so those two are written for any goroutine g.           *)
(*                                                                         *)
(* One action is one stretch of code that no other goroutine can observe   *)
(* half done: a critical section of a mutex that does not block inside is  *)
(* one step, an access outside the mutex is a step of its own.             *)
(***************************************************************************)
EXTENDS Naturals, FiniteSets

CONSTANTS Clients,      \* goroutines that call the API
          Reader,       \* the readEvents goroutine
          Procs,        \* process ids
          AnyPid,       \* the key -1: any process
          WatchKeys,    \* the pids the clients pass to Watch
          RemoveKeys,   \* the pids they pass to RemoveWatch
          FlagSets,     \* the flag masks they pass to Watch
          Nobody        \* a mutex that is not held

Flags == {"FORK", "EXEC", "EXIT", "UID", "GID", "SID"}

\* The map has no entry for a key: a set that is no set of flags.
NoWatch == {"NOWATCH"}

Entries == (SUBSET Flags) \cup {NoWatch}

Pids == Procs \cup {AnyPid}

Goroutines == Clients \cup {Reader}

ASSUME ConstantsAssumption ==
  /\ Reader \notin Clients
  /\ AnyPid \notin Procs
  /\ Nobody \notin Goroutines
  /\ WatchKeys \subseteq Pids
  /\ RemoveKeys \subseteq Pids
  /\ FlagSets \subseteq SUBSET Flags

VARIABLES
  watches,        \* w.watches: the flags of the entry of each key, or NoWatch
  watchesMutex,   \* holder of w.watchesMutex across steps, or Nobody
  closedMutex,    \* holder of w.closedMutex across steps, or Nobody
  isClosed,       \* w.isClosed
  done,           \* a message is in w.done (a channel of capacity 1)
  finished,       \* finish() has closed the six event channels
  breakLoop,      \* w.breakLoop has been closed
  listenerOpen,   \* the OS listener has not been closed
  pc,             \* where each goroutine is
  arg,            \* the pid and flags of the call each goroutine is in
  entry,          \* in Watch: the flags read through watchEntry, or NoWatch
                  \*   when the pointer no longer is the one in the map
  receiving,      \* the application's goroutine receives events
  fault           \* the Go runtime aborted the program

table == <<watches, watchesMutex>>
lifecycle == <<closedMutex, isClosed, done, finished, breakLoop, listenerOpen>>
calls == <<pc, arg, entry>>
world == <<receiving, fault>>
watcherVars == <<table, lifecycle, calls, world>>

NoArg == [pid |-> AnyPid, flags |-> {}]

Args == [pid : Pids, flags : SUBSET Flags]

WatchSteps == {"check", "lookup", "or", "register", "insert"}

\* Steps of Close while it holds closedMutex: from the store to isClosed to
\* the deferred Unlock.
CloseSteps == {"clear", "delete", "signal", "await", "closeListener"}

ClientSteps == {"idle", "remove", "enter"} \cup WatchSteps \cup CloseSteps

Watched(p) == watches[p] # NoWatch

\* No goroutine moves once the runtime has aborted the program.
Goto(g, label) == ~fault /\ pc' = [pc EXCEPT ![g] = label]

-----------------------------------------------------------------------------

\* NewWatcher once createListener has succeeded; readerStart is where the
\* readEvents goroutine begins.
NewWatcher(readerStart) ==
  /\ watches = [p \in Pids |-> NoWatch]
  /\ watchesMutex = Nobody
  /\ closedMutex = Nobody
  /\ isClosed = FALSE
  /\ done = FALSE
  /\ finished = FALSE
  /\ breakLoop = FALSE
  /\ listenerOpen = TRUE
  /\ pc = [g \in Goroutines |-> IF g = Reader THEN readerStart ELSE "idle"]
  /\ arg = [g \in Goroutines |-> NoArg]
  /\ entry = [g \in Goroutines |-> NoWatch]
  /\ receiving = TRUE
  /\ fault = FALSE

-----------------------------------------------------------------------------
(* The application *)

CallWatch(c, p, f) ==
  /\ pc[c] = "idle"
  /\ Goto(c, "check")
  /\ arg' = [arg EXCEPT ![c] = [pid |-> p, flags |-> f]]
  /\ UNCHANGED <<table, lifecycle, entry, world>>

CallRemoveWatch(c, p) ==
  /\ pc[c] = "idle"
  /\ Goto(c, "remove")
  /\ arg' = [arg EXCEPT ![c] = [pid |-> p, flags |-> {}]]
  /\ UNCHANGED <<table, lifecycle, entry, world>>

CallClose(c) ==
  /\ pc[c] = "idle"
  /\ Goto(c, "enter")
  /\ UNCHANGED <<table, lifecycle, arg, entry, world>>

\* The application leaves its select loop, as psnotify_test.go does before it
\* calls Close.
StopReceiving ==
  /\ ~fault
  /\ receiving
  /\ receiving' = FALSE
  /\ UNCHANGED <<table, lifecycle, calls, fault>>

-----------------------------------------------------------------------------
(* Watch(pid, flags) *)

\* The goroutine leaves Watch or RemoveWatch, whose arguments die.
Return(g, label) ==
  /\ Goto(g, label)
  /\ arg' = [arg EXCEPT ![g] = NoArg]

\* The reader follows a fork with Watch and goes on with the fork event.
AfterWatch(g) == IF g = Reader THEN "forkFilter" ELSE "idle"

AfterRemove(g) == IF g = Reader THEN "send" ELSE "idle"

\* Variant: Watch without its test of isClosed.
WatchCheckAlways(g) ==
  /\ pc[g] = "check"
  /\ closedMutex = Nobody
  /\ Goto(g, "lookup")
  /\ UNCHANGED <<table, lifecycle, arg, entry, world>>

\* closedMutex guards nothing but the read of isClosed here.
WatchCheck(g) ==
  /\ pc[g] = "check"
  /\ closedMutex = Nobody
  /\ IF isClosed
       THEN Return(g, AfterWatch(g))
       ELSE Goto(g, "lookup") /\ UNCHANGED arg
  /\ UNCHANGED <<table, lifecycle, entry, world>>

\* The map read and, when the key is found, the load of watchEntry.flags;
\* neither is under watchesMutex.
WatchLookup(g) ==
  /\ pc[g] = "lookup"
  /\ entry' = [entry EXCEPT ![g] = watches[arg[g].pid]]
  /\ Goto(g, IF Watched(arg[g].pid) THEN "or" ELSE "register")
  /\ UNCHANGED <<table, lifecycle, arg, world>>

\* Variant: watchEntry.flags = flags.
WatchAssign(g) ==
  /\ pc[g] = "or"
  /\ watches' = IF entry[g] = NoWatch
                  THEN watches
                  ELSE [watches EXCEPT ![arg[g].pid] = arg[g].flags]
  /\ entry' = [entry EXCEPT ![g] = NoWatch]
  /\ Return(g, AfterWatch(g))
  /\ UNCHANGED <<watchesMutex, lifecycle, world>>

\* The store half of watchEntry.flags |= flags.  A store through a pointer
\* whose entry has left the map changes nothing anyone can see.
WatchOr(g) ==
  /\ pc[g] = "or"
  /\ watches' = IF entry[g] = NoWatch
                  THEN watches
                  ELSE [watches EXCEPT ![arg[g].pid] = entry[g] \cup arg[g].flags]
  /\ entry' = [entry EXCEPT ![g] = NoWatch]
  /\ Return(g, AfterWatch(g))
  /\ UNCHANGED <<watchesMutex, lifecycle, world>>

\* When the entry of p leaves the map, every pointer to it becomes stale.
Detached(p) == [g \in Goroutines |-> IF arg[g].pid = p THEN NoWatch ELSE entry[g]]

\* w.watches[pid] = &watch{flags} under watchesMutex.
WatchInsert(g) ==
  /\ pc[g] = "insert"
  /\ watchesMutex = Nobody
  /\ watches' = [watches EXCEPT ![arg[g].pid] = arg[g].flags]
  /\ entry' = Detached(arg[g].pid)
  /\ Return(g, AfterWatch(g))
  /\ UNCHANGED <<watchesMutex, lifecycle, world>>

-----------------------------------------------------------------------------
(* RemoveWatch(pid) *)

\* One critical section of watchesMutex; an absent pid is an error and
\* changes nothing.
RemoveWatch(g) ==
  /\ pc[g] = "remove"
  /\ watchesMutex = Nobody
  /\ watches' = [watches EXCEPT ![arg[g].pid] = NoWatch]
  /\ entry' = Detached(arg[g].pid)
  /\ Return(g, AfterRemove(g))
  /\ UNCHANGED <<watchesMutex, lifecycle, world>>

-----------------------------------------------------------------------------
(* Close() *)

\* Lock closedMutex; the second and later calls return at once.
CloseEnter(c) ==
  /\ pc[c] = "enter"
  /\ closedMutex = Nobody
  /\ IF isClosed
       THEN Goto(c, "idle") /\ UNCHANGED <<closedMutex, isClosed>>
       ELSE /\ Goto(c, "clear")
            /\ closedMutex' = c
            /\ isClosed' = TRUE
  /\ UNCHANGED <<table, done, finished, breakLoop, listenerOpen, arg, entry, world>>

CloseLockWatches(c) ==
  /\ pc[c] = "clear"
  /\ watchesMutex = Nobody
  /\ watchesMutex' = c
  /\ Goto(c, "delete")
  /\ UNCHANGED <<watches, lifecycle, arg, entry, world>>

\* One iteration of the range over w.watches, in any order.
CloseDelete(c) ==
  /\ pc[c] = "delete"
  /\ \E p \in Pids :
       /\ Watched(p)
       /\ watches' = [watches EXCEPT ![p] = NoWatch]
       /\ entry' = Detached(p)
  /\ Goto(c, "delete")
  /\ UNCHANGED <<watchesMutex, lifecycle, arg, world>>

CloseUnlockWatches(c) ==
  /\ pc[c] = "delete"
  /\ \A p \in Pids : ~Watched(p)
  /\ watchesMutex' = Nobody
  /\ Goto(c, "signal")
  /\ UNCHANGED <<watches, lifecycle, arg, entry, world>>

\* w.done <- true blocks while the channel holds a message.
CloseSignal(c) ==
  /\ pc[c] = "signal"
  /\ ~done
  /\ done' = TRUE
  /\ Goto(c, "await")
  /\ UNCHANGED <<table, closedMutex, isClosed, finished, breakLoop, listenerOpen,
                 arg, entry, world>>

\* Variant: Close does not wait for the reader.
CloseNoAwait(c) ==
  /\ pc[c] = "await"
  /\ Goto(c, "closeListener")
  /\ UNCHANGED <<table, lifecycle, arg, entry, world>>

\* <-w.breakLoop, with closedMutex still held.
CloseAwait(c) ==
  /\ pc[c] = "await"
  /\ breakLoop
  /\ Goto(c, "closeListener")
  /\ UNCHANGED <<table, lifecycle, arg, entry, world>>

\* listener.close() and the deferred Unlock.
CloseListener(c) ==
  /\ pc[c] = "closeListener"
  /\ listenerOpen' = FALSE
  /\ closedMutex' = Nobody
  /\ Goto(c, "idle")
  /\ UNCHANGED <<table, isClosed, done, finished, breakLoop, arg, entry, world>>

CloseStep(c) ==
  \/ CloseEnter(c)
  \/ CloseLockWatches(c)
  \/ CloseDelete(c)
  \/ CloseUnlockWatches(c)
  \/ CloseSignal(c)
  \/ CloseAwait(c)
  \/ CloseListener(c)

-----------------------------------------------------------------------------
(* isDone(), run by the reader only: a non-blocking receive from w.done, and *)
(* finish() when it yields a message.                                        *)

\* Variant: isDone reports FALSE after finish().
isDoneForgets(continue, stop) ==
  /\ pc[Reader] = "isDone"
  /\ finished' = (finished \/ done)
  /\ done' = FALSE
  /\ Goto(Reader, continue)
  /\ UNCHANGED <<table, closedMutex, isClosed, breakLoop, listenerOpen,
                 arg, entry, world>>

isDone(continue, stop) ==
  /\ pc[Reader] = "isDone"
  /\ IF done
       THEN finished' = TRUE /\ done' = FALSE /\ Goto(Reader, stop)
       ELSE Goto(Reader, continue) /\ UNCHANGED <<finished, done>>
  /\ UNCHANGED <<table, closedMutex, isClosed, breakLoop, listenerOpen,
                 arg, entry, world>>

-----------------------------------------------------------------------------
(* The map, which is read without watchesMutex *)

\* The goroutine's next step reads the map without watchesMutex; the last two
\* labels are those of the Linux reader that follows a fork.
UnlockedRead(g) == pc[g] \in {"lookup", "followParent", "followAny"}

\* The goroutine's next step writes the map, under watchesMutex.
MapWrite(g) ==
  \/ pc[g] = "insert" /\ watchesMutex = Nobody
  \/ pc[g] = "remove" /\ watchesMutex = Nobody /\ Watched(arg[g].pid)
  \/ pc[g] = "delete" /\ \E p \in Pids : Watched(p)

\* An unlocked read during a write: the Go runtime may catch the race and
\* abort the program ("concurrent map read and map write").  When it does
\* not, the read sees the map before or after the write.
MapFault ==
  /\ ~fault
  /\ \E g, h \in Goroutines : g # h /\ UnlockedRead(g) /\ MapWrite(h)
  /\ fault' = TRUE
  /\ UNCHANGED <<table, lifecycle, calls, receiving>>

=============================================================================
