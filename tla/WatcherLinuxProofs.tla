-------------------------- MODULE WatcherLinuxProofs --------------------------
(***************************************************************************)
(* Proofs about WatcherLinux for any number of clients, processes, flag    *)
(* masks and datagrams: type correctness, the shutdown invariant and the   *)
(* safety properties it implies, and the refinement of WatcherLifecycle.   *)
(***************************************************************************)
EXTENDS WatcherLinux, TLAPS

-----------------------------------------------------------------------------
(* Type correctness *)

\* NewWatcher returns a well-typed watcher whose reader is about to call isDone.
LEMMA InitType == Init => TypeOK
<1> SUFFICES ASSUME Init PROVE TypeOK
  OBVIOUS
<1>1. pc \in [Goroutines -> ClientSteps \cup ReaderSteps]
  BY DEF Init, NewWatcher, ClientSteps, ReaderSteps, LoopSteps, EventSteps
<1>2. pc[Reader] \in ReaderSteps /\ \A c \in Clients : pc[c] \in ClientSteps
  BY ConstantsAssumption
  DEF Init, NewWatcher, Goroutines, ClientSteps, ReaderSteps, LoopSteps, EventSteps
<1>3. arg \in [Goroutines -> Args]
  BY DEF Init, NewWatcher, Args, NoArg, Pids
<1>4. watches \in [Pids -> Entries] /\ entry \in [Goroutines -> Entries]
  BY DEF Init, NewWatcher, Entries
<1>5. msgs \in Seq(Events) /\ pc[Reader] \notin EventSteps
  BY DEF Init, NewWatcher, Goroutines, EventSteps, WatchSteps
<1> QED
  BY <1>1, <1>2, <1>3, <1>4, <1>5, Zenon DEF Init, NewWatcher, TypeOK

\* A message in hand is an event, and so are the ones after it.
LEMMA MsgType ==
  ASSUME TypeOK, msgs # <<>>
  PROVE  /\ msg \in Events
         /\ msg.pid \in Pids
         /\ msg.child \in Pids
         /\ Tail(msgs) \in Seq(Events)
<1>1. msg \in Events /\ Tail(msgs) \in Seq(Events)
  BY DEF TypeOK, msg
<1> QED
  BY <1>1 DEF Events, Pids

\* A step of the reader that leaves the mutexes, the table and the shutdown
\* state alone keeps the types when it keeps an event in hand where one is
\* needed.
LEMMA ReaderMoveType ==
  ASSUME TypeOK, NEW label \in LoopSteps, Goto(Reader, label),
         UNCHANGED <<table, lifecycle, entry, world>>,
         arg' \in [Goroutines -> Args],
         msgs' \in Seq(Events),
         label \in EventSteps => msgs' # <<>>
  PROVE  TypeOK'
<1>1. pc' \in [Goroutines -> ClientSteps \cup ReaderSteps]
  BY Zenon DEF TypeOK, Goto, ReaderSteps
<1>2. pc'[Reader] = label /\ \A c \in Clients : pc'[c] = pc[c]
  BY ConstantsAssumption DEF TypeOK, Goto, Goroutines
<1> QED
  BY <1>1, <1>2 DEF TypeOK, ReaderSteps, table, lifecycle, world

\* The steps of Watch keep the types, on a client and on the reader.
LEMMA WatchType ==
  ASSUME TypeOK, NEW g \in Goroutines, Watch(g), UNCHANGED msgs
  PROVE  TypeOK'
<1>1. CASE WatchCheck(g) /\ isClosed
  <2>1. arg' \in [Goroutines -> Args]
    BY <1>1 DEF WatchCheck, Return, TypeOK, Args, NoArg, Pids
  <2>2. CASE g = Reader
    BY <1>1, <2>1, <2>2, ReaderMoveType
    DEF WatchCheck, Return, AfterWatch, TypeOK, LoopSteps, EventSteps, WatchSteps
  <2>3. CASE g \in Clients
    BY <1>1, <2>1, <2>3, ConstantsAssumption
    DEF WatchCheck, Return, AfterWatch, Goto, TypeOK, Goroutines, ClientSteps,
        table, lifecycle, world
  <2> QED
    BY <2>2, <2>3 DEF Goroutines
<1> USE ConstantsAssumption
        DEF TypeOK, Entries, Goroutines, Args, NoArg, ClientSteps, ReaderSteps, LoopSteps,
            EventSteps, WatchSteps, Goto, Return, AfterWatch, table, lifecycle, world
<1>2. CASE WatchCheck(g) /\ ~isClosed
  BY <1>2 DEF WatchCheck
<1>3. CASE WatchLookup(g)
  BY <1>3 DEF WatchLookup
<1>4. CASE WatchOr(g)
  BY <1>4 DEF WatchOr, Pids
<1>5. CASE register(g)
  BY <1>5 DEF register
<1>6. CASE WatchInsert(g)
  BY <1>6 DEF WatchInsert, Detached, Pids
<1> QED
  BY <1>1, <1>2, <1>3, <1>4, <1>5, <1>6 DEF Watch

\* So does RemoveWatch.
LEMMA RemoveWatchType ==
  ASSUME TypeOK, NEW g \in Goroutines, RemoveWatch(g), UNCHANGED msgs
  PROVE  TypeOK'
  BY ConstantsAssumption, SMTT(30)
  DEF TypeOK, RemoveWatch, Detached, Return, AfterRemove, Goto, Entries, Goroutines,
      Pids, Args, NoArg, ClientSteps, ReaderSteps, LoopSteps, EventSteps, WatchSteps,
      lifecycle, world

\* Close runs on clients only.
LEMMA CloseType ==
  ASSUME TypeOK, NEW c \in Clients, CloseStep(c), UNCHANGED msgs
  PROVE  TypeOK'
<1> USE ConstantsAssumption
        DEF TypeOK, Entries, Goroutines, ClientSteps, CloseSteps, Goto,
            table, lifecycle, world
<1>1. CASE CloseEnter(c)
  BY <1>1, ZenonT(30) DEF CloseEnter
<1>2. CASE CloseLockWatches(c)
  BY <1>2 DEF CloseLockWatches
<1>3. CASE CloseDelete(c)
  BY <1>3 DEF CloseDelete, Detached
<1>4. CASE CloseUnlockWatches(c)
  BY <1>4 DEF CloseUnlockWatches
<1>5. CASE CloseSignal(c)
  BY <1>5 DEF CloseSignal
<1>6. CASE CloseAwait(c)
  BY <1>6 DEF CloseAwait
<1>7. CASE CloseListener(c)
  BY <1>7, Zenon DEF CloseListener
<1> QED
  BY <1>1, <1>2, <1>3, <1>4, <1>5, <1>6, <1>7 DEF CloseStep

\* A call is made with a pid and a mask of the client's choice.
LEMMA CallType ==
  ASSUME TypeOK, NEW c \in Clients, Call(c)
  PROVE  TypeOK'
<1> USE ConstantsAssumption
        DEF TypeOK, Goroutines, Args, ClientSteps, WatchSteps, Goto,
            table, lifecycle, world
<1>1. CASE \E p \in WatchKeys, f \in FlagSets : CallWatch(c, p, f)
  BY <1>1 DEF Call, CallWatch
<1>2. CASE \E p \in RemoveKeys : CallRemoveWatch(c, p)
  BY <1>2 DEF Call, CallRemoveWatch
<1>3. CASE CallClose(c)
  BY <1>3 DEF Call, CallClose
<1> QED
  BY <1>1, <1>2, <1>3 DEF Call

\* The reader takes its events out of the datagrams the kernel can send.
LEMMA ReaderType ==
  ASSUME TypeOK, ReaderStep
  PROVE  TypeOK'
<1> USE DEF EventSteps, LoopSteps, WatchSteps
<1>a. arg \in [Goroutines -> Args] /\ msgs \in Seq(Events)
  BY DEF TypeOK
<1>1. CASE ReaderCalls
  <2>1. CASE isDone("recv", "break") /\ UNCHANGED msgs /\ done
    BY <2>1, ConstantsAssumption, ZenonT(30)
    DEF isDone, TypeOK, Goto, Goroutines, ReaderSteps, table, world
  <2>2. CASE isDone("recv", "break") /\ UNCHANGED msgs /\ ~done
    BY <2>2, <1>a, ReaderMoveType DEF isDone, lifecycle
  <2> QED
    BY <1>1, <2>1, <2>2, WatchType, RemoveWatchType DEF ReaderCalls, Goroutines
<1>2. CASE Recvfrom
  BY <1>2, <1>a, LinuxAssumption, ReaderMoveType DEF Recvfrom, Receive
<1>3. CASE RecvfromError
  BY <1>3, <1>a, ReaderMoveType DEF RecvfromError
<1>4. CASE SendError
  BY <1>4, <1>a, ReaderMoveType DEF SendError
<1>5. CASE EndOfDatagram
  BY <1>5, <1>a, ReaderMoveType DEF EndOfDatagram
<1>6. CASE CloseBreakLoop
  BY <1>6, ConstantsAssumption
  DEF CloseBreakLoop, TypeOK, Goto, Goroutines, ReaderSteps, table, world
<1>7. CASE HandleOther
  BY <1>7, <1>a, MsgType, ReaderMoveType DEF HandleOther, NextMsg
<1>8. CASE HandleFork
  <2>1. CASE isWatching(msg.pid, "EXEC")
    BY <1>8, <1>a, <2>1, ReaderMoveType DEF HandleFork
  <2>2. CASE ~isWatching(msg.pid, "EXEC")
    BY <1>8, <1>a, <2>2, ReaderMoveType DEF HandleFork
  <2> QED
    BY <2>1, <2>2
<1>9. ASSUME NEW key \in Pids, NEW label \in EventSteps, msgs # <<>>, Follow(key, label)
      PROVE  TypeOK'
  <2>1. CASE Watched(key)
    <3>1. [pid |-> msg.child, flags |-> watches[key]] \in Args
      BY <1>9, <2>1, MsgType DEF TypeOK, Watched, Entries, Args
    <3> QED
      BY <1>9, <1>a, <2>1, <3>1, ReaderMoveType DEF Follow
  <2>2. CASE ~Watched(key)
    BY <1>9, <1>a, <2>2, ReaderMoveType DEF Follow
  <2> QED
    BY <2>1, <2>2
<1>10. CASE FollowParent
  BY <1>9, <1>10, MsgType DEF FollowParent, TypeOK
<1>11. CASE FollowAny
  BY <1>9, <1>11 DEF FollowAny, Pids, TypeOK
<1>12. CASE ForkFilter
  <2>1. msgs # <<>>
    BY <1>12 DEF ForkFilter, TypeOK
  <2>2. CASE isWatching(msg.pid, "FORK")
    BY <1>12, <1>a, <2>1, <2>2, ReaderMoveType DEF ForkFilter
  <2>3. CASE ~isWatching(msg.pid, "FORK")
    BY <1>12, <1>a, <2>1, <2>3, MsgType, ReaderMoveType DEF ForkFilter, NextMsg
  <2> QED
    BY <2>2, <2>3
<1>13. CASE HandleExec
  <2>1. CASE isWatching(msg.pid, "EXEC")
    BY <1>13, <1>a, <2>1, ReaderMoveType DEF HandleExec
  <2>2. CASE ~isWatching(msg.pid, "EXEC")
    BY <1>13, <1>a, <2>2, MsgType, ReaderMoveType DEF HandleExec, NextMsg
  <2> QED
    BY <2>1, <2>2
<1>14. CASE HandleAndRemove
  <2>1. CASE isWatching(msg.pid, FilterFlag(msg.what))
    <3>1. [pid |-> msg.pid, flags |-> {}] \in Args
      BY <1>14, MsgType DEF HandleAndRemove, Args
    <3> QED
      BY <1>14, <1>a, <2>1, <3>1, ReaderMoveType, Zenon DEF HandleAndRemove
  <2>2. CASE ~isWatching(msg.pid, FilterFlag(msg.what))
    BY <1>14, <1>a, <2>2, MsgType, ReaderMoveType DEF HandleAndRemove, NextMsg
  <2> QED
    BY <2>1, <2>2
<1>15. CASE Send
  <2>1. msgs # <<>>
    BY <1>15 DEF Send, TypeOK
  <2> QED
    BY <1>15, <1>a, <2>1, MsgType, ReaderMoveType DEF Send, NextMsg
<1> QED
  BY <1>1, <1>2, <1>3, <1>4, <1>5, <1>6, <1>7, <1>8, <1>10, <1>11, <1>12, <1>13,
     <1>14, <1>15 DEF ReaderStep, ReadEventsStep

\* Every step of the watcher keeps the types.
LEMMA NextType == TypeOK /\ [Next]_vars => TypeOK'
<1> SUFFICES ASSUME TypeOK, [Next]_vars PROVE TypeOK'
  OBVIOUS
<1>1. CASE ReaderStep
  BY <1>1, ReaderType
<1>2. ASSUME NEW c \in Clients, Call(c) PROVE TypeOK'
  BY <1>2, CallType
<1>3. ASSUME NEW c \in Clients, ClientStep(c) PROVE TypeOK'
  BY <1>3, WatchType, RemoveWatchType, CloseType DEF ClientStep, Goroutines
<1>4. CASE StopReceiving /\ UNCHANGED msgs
  BY <1>4, Zenon DEF StopReceiving, TypeOK, table, lifecycle, calls
<1>5. CASE MapFault /\ UNCHANGED msgs
  BY <1>5 DEF MapFault, TypeOK, table, lifecycle, calls
<1>6. CASE UNCHANGED vars
  BY <1>6 DEF vars, watcherVars, TypeOK, table, lifecycle, calls, world
<1> QED
  BY <1>1, <1>2, <1>3, <1>4, <1>5, <1>6 DEF Next

\* Every reachable state of the watcher is well typed, whatever the number of
\* goroutines that call it and whatever datagrams the kernel sends.
THEOREM TypeCorrect == Spec => []TypeOK
  BY InitType, NextType, PTL DEF Spec

-----------------------------------------------------------------------------
(* The shutdown protocol.  Only the seven steps of Close, isDone when it has *)
(* a message and the close of breakLoop touch the shutdown state; QuietStep  *)
(* disposes of every other step at once.                                     *)

\* A goroutine that moves outside Close and inside the loop of readEvents does
\* not disturb the shutdown.
LEMMA QuietStep ==
  ASSUME TypeOK, ShutdownInv, NEW g \in Goroutines, NEW label, Goto(g, label),
         UNCHANGED <<watchesMutex, lifecycle>>,
         g = Reader => pc[g] \in LoopSteps /\ label \in LoopSteps,
         g # Reader => pc[g] \notin CloseSteps /\ label \notin CloseSteps
  PROVE  ShutdownInv'
<1>1. pc'[g] = label /\ \A h \in Goroutines : h # g => pc'[h] = pc[h]
  BY DEF TypeOK, Goto
<1>2. CASE g = Reader
  <2>1. \A c \in Clients : pc'[c] = pc[c]
    BY <1>1, <1>2, ConstantsAssumption DEF Goroutines
  <2>2. /\ pc[Reader] \notin {"break", "stopped"}
        /\ pc'[Reader] \notin {"break", "stopped"}
    BY <1>1, <1>2 DEF LoopSteps, EventSteps, WatchSteps
  <2> QED
    BY <2>1, <2>2 DEF ShutdownInv, lifecycle
<1>3. CASE g \in Clients
  <2>1. pc'[Reader] = pc[Reader]
    BY <1>1, <1>3, ConstantsAssumption DEF Goroutines
  <2>2. pc'[g] \notin CloseSteps /\ pc[g] \notin CloseSteps
    BY <1>1, <1>3, ConstantsAssumption
  <2>3. \A c \in Clients : c # g => pc'[c] = pc[c]
    BY <1>1 DEF Goroutines
  <2> QED
    BY <1>3, <2>1, <2>2, <2>3 DEF ShutdownInv, lifecycle, CloseSteps
<1> QED
  BY <1>2, <1>3 DEF Goroutines

\* The steps of Watch, on a client or on the reader, leave the shutdown alone.
LEMMA WatchShutdown ==
  ASSUME TypeOK, ShutdownInv, NEW g \in Goroutines, Watch(g)
  PROVE  ShutdownInv'
<1> USE DEF LoopSteps, EventSteps, WatchSteps, CloseSteps, AfterWatch, Return, table
<1>1. CASE WatchCheck(g)
  <2>1. CASE isClosed
    <3>1. Goto(g, AfterWatch(g)) /\ UNCHANGED <<watchesMutex, lifecycle>>
      BY <1>1, <2>1 DEF WatchCheck
    <3> QED
      BY <1>1, <3>1, QuietStep DEF WatchCheck
  <2>2. CASE ~isClosed
    BY <1>1, <2>2, QuietStep DEF WatchCheck
  <2> QED
    BY <2>1, <2>2
<1>2. CASE WatchLookup(g)
  <2>1. CASE Watched(arg[g].pid)
    BY <1>2, <2>1, QuietStep DEF WatchLookup
  <2>2. CASE ~Watched(arg[g].pid)
    BY <1>2, <2>2, QuietStep DEF WatchLookup
  <2> QED
    BY <2>1, <2>2
<1>3. CASE WatchOr(g)
  BY <1>3, QuietStep DEF WatchOr
<1>4. CASE register(g)
  BY <1>4, QuietStep DEF register
<1>5. CASE WatchInsert(g)
  BY <1>5, QuietStep DEF WatchInsert
<1> QED
  BY <1>1, <1>2, <1>3, <1>4, <1>5 DEF Watch

\* So does RemoveWatch.
LEMMA RemoveWatchShutdown ==
  ASSUME TypeOK, ShutdownInv, NEW g \in Goroutines, RemoveWatch(g)
  PROVE  ShutdownInv'
  BY QuietStep
  DEF RemoveWatch, Return, AfterRemove, LoopSteps, EventSteps, CloseSteps

\* So do the application's calls, before the first step of the code they run.
LEMMA CallShutdown ==
  ASSUME TypeOK, ShutdownInv, NEW c \in Clients, Call(c)
  PROVE  ShutdownInv'
<1> USE ConstantsAssumption DEF Goroutines, CloseSteps, table
<1>1. CASE \E p \in WatchKeys, f \in FlagSets : CallWatch(c, p, f)
  BY <1>1, QuietStep DEF CallWatch
<1>2. CASE \E p \in RemoveKeys : CallRemoveWatch(c, p)
  BY <1>2, QuietStep DEF CallRemoveWatch
<1>3. CASE CallClose(c)
  BY <1>3, QuietStep DEF CallClose
<1> QED
  BY <1>1, <1>2, <1>3 DEF Call

\* The steps of Close: the client that holds closedMutex is the only one in
\* CloseSteps, so each step moves the shutdown state alone.
LEMMA CloseShutdown ==
  ASSUME TypeOK, ShutdownInv, NEW c \in Clients, CloseStep(c)
  PROVE  ShutdownInv'
<1>0. c # Reader /\ \A d \in Clients : d # Nobody
  BY ConstantsAssumption DEF Goroutines
<1>1. ASSUME NEW label, Goto(c, label)
      PROVE  /\ pc'[c] = label
             /\ pc'[Reader] = pc[Reader]
             /\ \A d \in Clients : d # c => pc'[d] = pc[d]
  BY <1>0, <1>1 DEF TypeOK, Goto, Goroutines
<1> USE <1>0 DEF CloseSteps, table, lifecycle
<1>2. CASE CloseEnter(c) /\ isClosed
  <2>1. Goto(c, "idle") /\ UNCHANGED <<watchesMutex, lifecycle>>
    BY <1>2 DEF CloseEnter
  <2> QED
    BY <1>2, <2>1, QuietStep DEF CloseEnter, Goroutines
<1>3. CASE CloseEnter(c) /\ ~isClosed
  <2>1. Goto(c, "clear")
    BY <1>3 DEF CloseEnter
  <2> QED
    BY <1>3, <1>1, <2>1 DEF CloseEnter, ShutdownInv
<1>4. CASE CloseLockWatches(c)
  BY <1>4, <1>1, Zenon DEF CloseLockWatches, ShutdownInv
<1>5. CASE CloseDelete(c)
  BY <1>5, <1>1, SMTT(30) DEF CloseDelete, ShutdownInv
<1>6. CASE CloseUnlockWatches(c)
  BY <1>6, <1>1, SMTT(30) DEF CloseUnlockWatches, ShutdownInv
<1>7. CASE CloseSignal(c)
  BY <1>7, <1>1 DEF CloseSignal, ShutdownInv
<1>8. CASE CloseAwait(c)
  BY <1>8, <1>1 DEF CloseAwait, ShutdownInv
<1>9. CASE CloseListener(c)
  BY <1>9, <1>1 DEF CloseListener, ShutdownInv
<1> QED
  BY <1>2, <1>3, <1>4, <1>5, <1>6, <1>7, <1>8, <1>9 DEF CloseStep

\* The steps of the reader: isDone takes the message of the Close that waits,
\* and the reader closes breakLoop after it.
LEMMA ReaderShutdown ==
  ASSUME TypeOK, ShutdownInv, ReaderStep
  PROVE  ShutdownInv'
<1>1. CASE isDone("recv", "break") /\ done
  <2>1. pc'[Reader] = "break" /\ pc[Reader] = "isDone" /\ \A c \in Clients : pc'[c] = pc[c]
    BY <1>1, ConstantsAssumption DEF isDone, Goto, TypeOK, Goroutines
  <2> QED
    BY <1>1, <2>1 DEF isDone, ShutdownInv, table
<1>2. CASE CloseBreakLoop
  <2>1. pc'[Reader] = "stopped" /\ pc[Reader] = "break" /\ \A c \in Clients : pc'[c] = pc[c]
    BY <1>2, ConstantsAssumption DEF CloseBreakLoop, Goto, TypeOK, Goroutines
  <2> QED
    BY <1>2, <2>1 DEF CloseBreakLoop, ShutdownInv, table
<1>3. ASSUME NEW label \in LoopSteps, Goto(Reader, label), pc[Reader] \in LoopSteps,
             UNCHANGED <<table, lifecycle>>
      PROVE  ShutdownInv'
  BY <1>3, QuietStep DEF Goroutines, table
<1> USE <1>3 DEF LoopSteps, EventSteps, NextMsg
<1>4. CASE isDone("recv", "break") /\ ~done
  BY <1>4 DEF isDone, lifecycle
<1>5. CASE Watch(Reader) \/ RemoveWatch(Reader)
  BY <1>5, WatchShutdown, RemoveWatchShutdown DEF Goroutines
<1>6. CASE Recvfrom \/ RecvfromError \/ SendError \/ EndOfDatagram \/ HandleOther \/ Send
  BY <1>6 DEF Recvfrom, Receive, RecvfromError, SendError, EndOfDatagram, HandleOther, Send
<1>7. CASE HandleFork
  <2>1. Goto(Reader, "followParent") \/ Goto(Reader, "forkFilter")
    BY <1>7 DEF HandleFork
  <2> QED
    BY <1>7, <2>1 DEF HandleFork
<1>8. CASE FollowParent \/ FollowAny
  <2>1. Goto(Reader, "check") \/ Goto(Reader, "followAny") \/ Goto(Reader, "forkFilter")
    BY <1>8 DEF FollowParent, FollowAny, Follow
  <2> QED
    BY <1>8, <2>1, Zenon DEF FollowParent, FollowAny, Follow, WatchSteps
<1>9. CASE ForkFilter \/ HandleExec
  <2>1. Goto(Reader, "send") \/ Goto(Reader, "handle")
    BY <1>9 DEF ForkFilter, HandleExec
  <2> QED
    BY <1>9, <2>1 DEF ForkFilter, HandleExec
<1>10. CASE HandleAndRemove
  <2>1. Goto(Reader, "remove") \/ Goto(Reader, "handle")
    BY <1>10 DEF HandleAndRemove
  <2> QED
    BY <1>10, <2>1 DEF HandleAndRemove
<1> QED
  BY <1>1, <1>2, <1>4, <1>5, <1>6, <1>7, <1>8, <1>9, <1>10, Zenon DEF ReaderStep, ReadEventsStep, ReaderCalls

\* Every step of the watcher keeps the shutdown invariant.
LEMMA NextShutdown == TypeOK /\ ShutdownInv /\ [Next]_vars => ShutdownInv'
<1> SUFFICES ASSUME TypeOK, ShutdownInv, [Next]_vars PROVE ShutdownInv'
  OBVIOUS
<1>1. CASE ReaderStep
  BY <1>1, ReaderShutdown
<1>2. ASSUME NEW c \in Clients, Call(c) PROVE ShutdownInv'
  BY <1>2, CallShutdown
<1>3. ASSUME NEW c \in Clients, ClientStep(c) PROVE ShutdownInv'
  BY <1>3, WatchShutdown, RemoveWatchShutdown, CloseShutdown DEF ClientStep, Goroutines
<1>4. CASE StopReceiving
  BY <1>4 DEF StopReceiving, ShutdownInv, table, lifecycle, calls
<1>5. CASE MapFault /\ UNCHANGED msgs
  BY <1>5 DEF MapFault, ShutdownInv, table, lifecycle, calls
<1>6. CASE UNCHANGED vars
  BY <1>6 DEF vars, watcherVars, ShutdownInv, table, lifecycle, calls, world
<1> QED
  BY <1>1, <1>2, <1>3, <1>4, <1>5, <1>6 DEF Next

\* NewWatcher starts with no Close in progress.
LEMMA InitShutdown == Init => ShutdownInv
  BY ConstantsAssumption DEF Init, NewWatcher, ShutdownInv, Goroutines, CloseSteps

\* The shutdown invariant holds for any number of goroutines that call Close,
\* Watch and RemoveWatch at any time.
THEOREM ShutdownCorrect == Spec => []ShutdownInv
<1>1. Init => TypeOK /\ ShutdownInv
  BY InitType, InitShutdown
<1>2. TypeOK /\ ShutdownInv /\ [Next]_vars => TypeOK' /\ ShutdownInv'
  BY NextType, NextShutdown
<1> QED
  BY <1>1, <1>2, PTL DEF Spec

\* Close never takes the listener away from a reader in its loop.
THEOREM ListenerSafe == Spec => []ListenerOutlivesReader
<1>1. ShutdownInv => ListenerOutlivesReader
  BY DEF ShutdownInv, ListenerOutlivesReader
<1> QED
  BY <1>1, ShutdownCorrect, PTL

\* Close never blocks on the done channel, however many Closes run.
THEOREM SignalSafe == Spec => []SignalNeverBlocks
<1>1. ShutdownInv => SignalNeverBlocks
  <2> SUFFICES ASSUME ShutdownInv, NEW c \in Clients, pc[c] = "signal" PROVE ~done
    BY DEF SignalNeverBlocks
  <2>1. closedMutex = c
    BY DEF ShutdownInv, CloseSteps
  <2>2. ASSUME NEW d \in Clients, pc[d] = "await" PROVE FALSE
    BY <2>1, <2>2 DEF ShutdownInv, CloseSteps
  <2> QED
    BY <2>2 DEF ShutdownInv
<1> QED
  BY <1>1, ShutdownCorrect, PTL

\* The reader never sends on a channel that finish() has closed.
THEOREM SendSafe == Spec => []NoSendOnClosedChannel
<1>1. ShutdownInv => NoSendOnClosedChannel
  BY DEF ShutdownInv, NoSendOnClosedChannel
<1> QED
  BY <1>1, ShutdownCorrect, PTL

-----------------------------------------------------------------------------
(* Refinement of WatcherLifecycle *)

\* A step that leaves the shutdown flags alone is an offer, a take or nothing;
\* a reader that offers an event is in its loop.
LEMMA OfferStep ==
  ASSUME TypeOK, ShutdownInv, UNCHANGED <<isClosed, finished, listenerOpen>>,
         pc[Reader] \in LoopSteps \/ pc'[Reader] \notin {"send", "sendError"}
  PROVE  [Lifecycle!Next]_<<lifecycleState, pc[Reader] \in {"send", "sendError"}>>
<1>1. lifecycleState' = lifecycleState
  BY DEF lifecycleState
<1>2. pc[Reader] \in LoopSteps => lifecycleState \in {"open", "closing"}
  BY SMTT(30) DEF lifecycleState, ShutdownInv, LoopSteps, EventSteps, WatchSteps
<1> QED
  BY <1>1, <1>2 DEF Lifecycle!Next, Lifecycle!Offer, Lifecycle!Take

\* The reader's steps: closing the channels happens in the abstract state
\* "closing" with nothing offered.
LEMMA ReaderRefines ==
  ASSUME TypeOK, ShutdownInv, ReaderStep
  PROVE  [Lifecycle!Next]_<<lifecycleState, pc[Reader] \in {"send", "sendError"}>>
<1>1. CASE isDone("recv", "break") /\ done
  <2>1. pc'[Reader] = "break" /\ pc[Reader] = "isDone"
    BY <1>1 DEF isDone, Goto, TypeOK, Goroutines
  <2>2. isClosed /\ ~finished /\ listenerOpen
    BY <1>1 DEF ShutdownInv
  <2>3. finished' /\ UNCHANGED <<isClosed, listenerOpen>>
    BY <1>1 DEF isDone
  <2> QED
    BY <2>1, <2>2, <2>3 DEF lifecycleState, Lifecycle!Next, Lifecycle!CloseChannels
<1>2. CASE isDone("recv", "break") /\ ~done
  BY <1>2, OfferStep DEF isDone, LoopSteps
<1>3. CASE CloseBreakLoop
  <2>1. pc'[Reader] = "stopped"
    BY <1>3, ZenonT(30) DEF CloseBreakLoop, Goto, TypeOK, Goroutines
  <2> QED
    BY <1>3, <2>1, OfferStep DEF CloseBreakLoop
<1> USE DEF LoopSteps, EventSteps, WatchSteps, lifecycle
<1>4. CASE Watch(Reader)
  BY <1>4, OfferStep
  DEF Watch, WatchCheck, WatchLookup, WatchOr, register, WatchInsert
<1>5. CASE RemoveWatch(Reader)
  BY <1>5, OfferStep, Zenon DEF RemoveWatch
<1>6. CASE Recvfrom \/ RecvfromError \/ SendError \/ EndOfDatagram \/ HandleOther \/ Send
  BY <1>6, OfferStep, Zenon DEF Recvfrom, Receive, RecvfromError, SendError, EndOfDatagram, HandleOther, Send
<1>7. CASE HandleFork \/ FollowParent \/ FollowAny \/ ForkFilter
  BY <1>7, OfferStep, Zenon DEF HandleFork, FollowParent, FollowAny, Follow, ForkFilter
<1>8. CASE HandleExec \/ HandleAndRemove
  BY <1>8, OfferStep, ZenonT(30) DEF HandleExec, HandleAndRemove
<1> QED
  BY <1>1, <1>2, <1>3, <1>4, <1>5, <1>6, <1>7, <1>8 DEF ReaderStep, ReadEventsStep, ReaderCalls

\* The clients' steps: only the first Close begins the shutdown, and only its
\* last step ends it.
LEMMA ClientRefines ==
  ASSUME TypeOK, ShutdownInv, NEW c \in Clients, Call(c) \/ ClientStep(c)
  PROVE  [Lifecycle!Next]_<<lifecycleState, pc[Reader] \in {"send", "sendError"}>>
<1>1. ASSUME NEW label, Goto(c, label) PROVE pc'[Reader] = pc[Reader]
  BY <1>1, ConstantsAssumption DEF Goto, TypeOK, Goroutines
<1>2. ASSUME NEW label, Goto(c, label), UNCHANGED <<isClosed, finished, listenerOpen>>
      PROVE  [Lifecycle!Next]_<<lifecycleState, pc[Reader] \in {"send", "sendError"}>>
  BY <1>1, <1>2, OfferStep, Zenon DEF LoopSteps, EventSteps
<1>3. CASE Call(c)
  BY <1>2, <1>3, Zenon DEF Call, CallWatch, CallRemoveWatch, CallClose, lifecycle
<1>4. CASE Watch(c)
  <2>1. (\E label : Goto(c, label)) /\ UNCHANGED lifecycle
    BY <1>4, Zenon DEF Watch, WatchCheck, WatchLookup, WatchOr, register, WatchInsert, Return
  <2> QED
    BY <1>2, <2>1 DEF lifecycle
<1>5. CASE RemoveWatch(c)
  BY <1>2, <1>5, Zenon DEF RemoveWatch, Return, lifecycle
<1>6. CASE CloseEnter(c) /\ isClosed
  BY <1>2, <1>6, Zenon DEF CloseEnter
<1>7. CASE CloseEnter(c) /\ ~isClosed
  <2>1. pc'[Reader] = pc[Reader] /\ isClosed' /\ UNCHANGED <<finished, listenerOpen>>
    BY <1>1, <1>7, Zenon DEF CloseEnter
  <2>2. ~isClosed /\ ~finished /\ listenerOpen
    BY <1>7 DEF ShutdownInv
  <2> QED
    BY <2>1, <2>2 DEF lifecycleState, Lifecycle!Next, Lifecycle!BeginClose
<1>8. CASE CloseListener(c)
  <2>1. pc'[Reader] = pc[Reader] /\ ~listenerOpen' /\ UNCHANGED <<isClosed, finished>>
    BY <1>1, <1>8 DEF CloseListener
  <2>2. finished /\ listenerOpen
    BY <1>8, ConstantsAssumption DEF CloseListener, ShutdownInv, CloseSteps, Goroutines
  <2> QED
    BY <2>1, <2>2 DEF lifecycleState, Lifecycle!Next, Lifecycle!ReleaseListener
<1>9. CASE CloseLockWatches(c) \/ CloseDelete(c) \/ CloseUnlockWatches(c)
             \/ CloseSignal(c) \/ CloseAwait(c)
  BY <1>2, <1>9, Zenon
  DEF CloseLockWatches, CloseDelete, CloseUnlockWatches, CloseSignal, CloseAwait, lifecycle
<1> QED
  BY <1>3, <1>4, <1>5, <1>6, <1>7, <1>8, <1>9 DEF ClientStep, CloseStep

\* Every behaviour of the watcher is a behaviour of the abstract lifecycle:
\* Close is called, the channels close with nothing offered on them, and then
\* the listener is released.
THEOREM RefinesLifecycle == Spec => ImplementsLifecycle
<1>1. Init => Lifecycle!Init
  BY DEF Init, NewWatcher, Goroutines, lifecycleState, Lifecycle!Init
<1>2. TypeOK /\ ShutdownInv /\ [Next]_vars
        => [Lifecycle!Next]_<<lifecycleState, pc[Reader] \in {"send", "sendError"}>>
  <2> SUFFICES ASSUME TypeOK, ShutdownInv, [Next]_vars
               PROVE  [Lifecycle!Next]_<<lifecycleState, pc[Reader] \in {"send", "sendError"}>>
    OBVIOUS
  <2>1. CASE StopReceiving \/ MapFault \/ UNCHANGED vars
    <3>1. UNCHANGED <<pc, isClosed, finished, listenerOpen>>
      BY <2>1 DEF StopReceiving, MapFault, vars, watcherVars, lifecycle, calls
    <3> QED
      BY <3>1 DEF lifecycleState
  <2> QED
    BY <2>1, ReaderRefines, ClientRefines, Zenon DEF Next
<1> QED
  BY <1>1, <1>2, TypeCorrect, ShutdownCorrect, PTL
  DEF Spec, ImplementsLifecycle, Lifecycle!Spec

=============================================================================
