--------------------------- MODULE WatcherBSDProofs ---------------------------
(***************************************************************************)
(* Proofs about WatcherBSD for any number of clients and processes: type   *)
(* correctness, that the kqueue follows the watch table, and the           *)
(* refinement of WatcherLifecycle.                                         *)
(***************************************************************************)
EXTENDS WatcherBSD, FiniteSetTheorems, TLAPS

Labels == ClientSteps \cup ReaderSteps

\* Who is where: the goroutine in the loop of Close and the reader in
\* unregister hold watchesMutex, a step of Close follows the store to isClosed,
\* and the reader stops for good when it has closed the channels.
PlaceInv ==
  /\ pc \in [Goroutines -> Labels]
  /\ buf.fflags \subseteq BSDFlags
  /\ \A g \in Goroutines : arg[g].flags \subseteq BSDFlags
  /\ pc[Reader] \in KeventSteps => watchesMutex = Reader
  /\ \A c \in Clients : pc[c] = "delete" => watchesMutex = c
  /\ \A c \in Clients : pc[c] \in CloseSteps => isClosed
  /\ closedMutex # Nobody => isClosed
  /\ done => isClosed
  /\ finished => isClosed /\ pc[Reader] = "stopped"
  /\ listenerOpen

\* g has begun to fill the buffer and has not come to the end of its call.
Busy(g) == pc[g] \in {"flags", "fflags", "kevent", "insert"}

\* g has taken its pid out of the table and not yet out of the kqueue.
Removing(g) == watchesMutex = g /\ pc[g] \in KeventSteps

\* A pointer that is not stale is held between the two halves of |= only.
EntriesInv == \A g \in Goroutines : entry[g] # NoWatch => pc[g] = "or" /\ Watched(arg[g].pid)

\* No one inserts an entry while watchesMutex is held to remove it.
RemovedInv == \A g \in Goroutines : Removing(g) => ~Watched(arg[g].pid)

\* Without an overlap the buffer belongs to the one call that is under way.
BufferInv ==
  /\ \A g, h \in Goroutines : Busy(g) /\ Busy(h) => g = h
  /\ \A g \in Goroutines :
       /\ pc[g] \in {"flags", "fflags", "kevent"} => buf.ident = arg[g].pid
       /\ pc[g] \in {"fflags", "kevent"} => buf.flags = IF watchesMutex = g THEN "DELETE" ELSE "ADD"
       /\ pc[g] = "kevent" => buf.fflags = arg[g].flags
       /\ pc[g] = "insert" /\ arg[g].pid \in alive => kq[arg[g].pid] = arg[g].flags

\* A goroutine is between the table and the kqueue with p.
Between(p) == \E g \in Goroutines : arg[g].pid = p /\ (pc[g] = "insert" \/ Removing(g))

\* The filter of p is what the entry says, and what a goroutine that is about
\* to store to the entry has read of it.
Follows(p) ==
  /\ Watched(p) <=> kq[p] # NoWatch
  /\ Watched(p) => kq[p] \subseteq watches[p]
  /\ \A g \in Goroutines : arg[g].pid = p /\ entry[g] # NoWatch => kq[p] \subseteq entry[g]

FollowInv == \A p \in alive : Between(p) \/ Follows(p)

KqueueInv == EntriesInv /\ RemovedInv /\ (~overlap => BufferInv /\ FollowInv)

BSDInv == TypeOK /\ PlaceInv /\ KqueueInv

-----------------------------------------------------------------------------
(* Types and places *)

\* NewWatcher returns a watcher whose table and kqueue are empty.
LEMMA InitBSD == Init => BSDInv
<1> SUFFICES ASSUME Init PROVE BSDInv
  OBVIOUS
<1> USE ConstantsAssumption DEF Init, NewWatcher
<1>1. /\ pc \in [Goroutines -> Labels] /\ pc[Reader] = "isDone" /\ \A c \in Clients : pc[c] = "idle"
  BY DEF Goroutines, Labels, ClientSteps, ReaderSteps, KeventSteps
<1>2. /\ arg \in [Goroutines -> Args] /\ entry \in [Goroutines -> Entries] /\ watches \in [Pids -> Entries]
      /\ buf \in Changes
  BY DEF Args, NoArg, Entries, Pids, Changes
<1>3. TypeOK
  <2>1. /\ kq \in [Procs -> (SUBSET BSDFlags) \cup {NoWatch}] /\ pending \in [Procs -> SUBSET BSDFlags]
        /\ \A p \in Procs : kq[p] = NoWatch => pending[p] = {}
    OBVIOUS
  <2>2. events \in Seq(Kevents) /\ alive \subseteq Procs
    OBVIOUS
  <2>3. {isClosed, done, finished, breakLoop, listenerOpen, receiving, fault, overlap} \subseteq BOOLEAN
    BY Zenon
  <2>4. \A g \in Goroutines : watchesMutex # g
    OBVIOUS
  <2>5. pc[Reader] \in ReaderSteps /\ pc[Reader] \notin {"send", "remove"} \cup KeventSteps
    BY <1>1 DEF ReaderSteps, KeventSteps
  <2>6. \A c \in Clients : pc[c] \in ClientSteps \cup KeventSteps
    BY <1>1 DEF ClientSteps
  <2> QED
    BY <1>2, <2>1, <2>2, <2>3, <2>4, <2>5, <2>6 DEF TypeOK
<1>4. PlaceInv
  BY <1>1 DEF PlaceInv, NoArg, KeventSteps, CloseSteps
<1>5. EntriesInv /\ RemovedInv /\ BufferInv /\ FollowInv
  BY <1>1 DEF EntriesInv, RemovedInv, BufferInv, FollowInv, Follows, Watched, Removing, Busy, Goroutines, Pids
<1> QED
  BY <1>3, <1>4, <1>5 DEF BSDInv, KqueueInv

\* A goroutine that moves leaves the others where they are.
LEMMA Moves ==
  ASSUME PlaceInv, NEW g \in Goroutines, NEW label \in Labels, Goto(g, label)
  PROVE  /\ pc' \in [Goroutines -> Labels] /\ pc'[g] = label
         /\ \A h \in Goroutines : h # g => pc'[h] = pc[h]
  BY DEF PlaceInv, Goto

\* What a goroutine's call is about.
LEMMA ArgType ==
  ASSUME TypeOK, NEW g \in Goroutines
  PROVE  arg[g] \in Args /\ arg[g].pid \in Pids /\ arg[g].flags \in SUBSET Flags
         /\ NoArg \in Args
  BY DEF TypeOK, Args, NoArg, Pids

\* The stores to the shared buffer.
LEMMA StoreType ==
  ASSUME TypeOK, PlaceInv, NEW g \in Goroutines, StoreIdent(g) \/ StoreFlags(g) \/ StoreFflags(g)
  PROVE  TypeOK' /\ PlaceInv'
<1>1. pc[g] \in KeventSteps /\ (g = Reader => watchesMutex = Reader)
  BY DEF StoreIdent, StoreFlags, StoreFflags, KeventSteps, PlaceInv
<1>2. PICK label \in KeventSteps : Goto(g, label)
  BY DEF StoreIdent, StoreFlags, StoreFflags, Store, KeventSteps
<1>3. /\ pc' \in [Goroutines -> Labels] /\ pc'[g] = label
      /\ \A h \in Goroutines : h # g => pc'[h] = pc[h]
  BY <1>2, Moves DEF Labels, ReaderSteps
<1>4. buf' \in Changes /\ buf'.fflags \subseteq BSDFlags
  BY ArgType DEF StoreIdent, StoreFlags, StoreFflags, Store, TypeOK, PlaceInv, Changes
<1>5. overlap' \in BOOLEAN
  <2>1. CASE StoreIdent(g)
    BY <2>1, Zenon DEF StoreIdent
  <2>2. CASE StoreFlags(g) \/ StoreFflags(g)
    BY <2>2 DEF StoreFlags, StoreFflags, TypeOK
  <2> QED
    BY <2>1, <2>2
<1>6. UNCHANGED <<table, lifecycle, arg, entry, world, kernel, events>>
  BY DEF StoreIdent, StoreFlags, StoreFflags, Store
<1>7. TypeOK'
  BY <1>1, <1>3, <1>4, <1>5, <1>6, ConstantsAssumption, SMTT(30)
  DEF TypeOK, table, lifecycle, world, kernel, Goroutines, ClientSteps, ReaderSteps, KeventSteps
<1>8. PlaceInv'
  BY <1>1, <1>3, <1>4, <1>6, ConstantsAssumption
  DEF PlaceInv, table, lifecycle, world, kernel, Goroutines, KeventSteps, CloseSteps
<1> QED
  BY <1>7, <1>8

\* The system call.
LEMMA KeventType ==
  ASSUME TypeOK, PlaceInv, NEW g \in Goroutines, Kevent(g)
  PROVE  TypeOK' /\ PlaceInv'
<1>1. pc[g] = "kevent" /\ (g = Reader => watchesMutex = Reader)
  BY DEF Kevent, KeventSteps, PlaceInv
<1>2. UNCHANGED <<watches, lifecycle, entry, world, buf, alive, events, overlap>>
  BY DEF Kevent
<1>3. /\ kq' \in [Procs -> (SUBSET BSDFlags) \cup {NoWatch}] /\ pending' \in [Procs -> SUBSET BSDFlags]
      /\ \A p \in Procs : kq'[p] = NoWatch => pending'[p] = {}
  <2>1. NoWatch \notin SUBSET BSDFlags
    BY DEF NoWatch, BSDFlags
  <2>2. Change
    BY DEF Kevent
  <2>3. /\ kq \in [Procs -> (SUBSET BSDFlags) \cup {NoWatch}] /\ pending \in [Procs -> SUBSET BSDFlags]
        /\ \A p \in Procs : kq[p] = NoWatch => pending[p] = {}
        /\ buf.fflags \in SUBSET BSDFlags
    BY DEF TypeOK, PlaceInv
  <2>4. PICK p, f : p = buf.ident /\ f = buf.fflags
    OBVIOUS
  <2>5. CASE kq' = kq /\ pending' = pending
    BY <2>3, <2>5, Zenon
  <2>6. CASE p \in Procs /\ kq' = [kq EXCEPT ![p] = f] /\ pending' = pending
    BY ONLY <2>1, <2>3, <2>4, <2>6
  <2>7. CASE p \in Procs /\ kq' = [kq EXCEPT ![p] = NoWatch] /\ pending' = [pending EXCEPT ![p] = {}]
    BY ONLY <2>3, <2>7
  <2> QED
    BY <2>2, <2>4, <2>5, <2>6, <2>7 DEF Change, Found
<1>4. PICK label \in Labels : Goto(g, label)
  BY DEF Kevent, AfterUnregister, AfterRegister, Return, AfterRemove,
         Labels, ClientSteps, CloseSteps, WatchSteps, ReaderSteps
<1>5. /\ pc' \in [Goroutines -> Labels] /\ pc'[g] = label
      /\ \A h \in Goroutines : h # g => pc'[h] = pc[h]
  BY <1>4, Moves
<1>6. arg' \in [Goroutines -> Args] /\ \A h \in Goroutines : arg'[h].flags \subseteq BSDFlags
  <2>1. arg' = arg \/ arg' = [arg EXCEPT ![g] = NoArg]
    BY DEF Kevent, AfterUnregister, AfterRegister, Return
  <2>2. NoArg \in Args /\ NoArg.flags = {}
    BY DEF NoArg, Args, Pids
  <2> QED
    BY <2>1, <2>2 DEF TypeOK, PlaceInv
<1>7. /\ watchesMutex' = watchesMutex \/ (watchesMutex = g /\ watchesMutex' = Nobody)
      /\ watchesMutex' = g => label = "delete" /\ g \in Clients
      /\ g \in Clients => label \in {"delete", "idle", "insert"}
      /\ label = "delete" => watchesMutex' = g /\ g \in Clients /\ closedMutex # Nobody
      /\ g = Reader => label = "send"
  <2>1. pc'[g] = label
    BY <1>5
  <2>2. CASE Unregistering(g)
    BY <1>5, <2>2, ConstantsAssumption, ZenonT(30)
    DEF Kevent, AfterUnregister, Return, AfterRemove, Goto, Unregistering, TypeOK, Goroutines, PlaceInv
  <2>3. CASE ~Unregistering(g)
    BY <1>1, <1>5, <2>3, ConstantsAssumption, Zenon
    DEF Kevent, AfterRegister, Return, Goto, Unregistering, TypeOK, Goroutines, PlaceInv
  <2> QED
    BY <2>2, <2>3
<1>8. TypeOK'
  BY <1>1, <1>2, <1>3, <1>5, <1>6, <1>7, ConstantsAssumption, SMTT(30)
  DEF TypeOK, table, lifecycle, world, Goroutines, ClientSteps, CloseSteps, WatchSteps, ReaderSteps, KeventSteps
<1>9. PlaceInv'
  BY <1>1, <1>2, <1>5, <1>6, <1>7, ConstantsAssumption
  DEF TypeOK, PlaceInv, table, lifecycle, world, Goroutines, KeventSteps, CloseSteps
<1> QED
  BY <1>8, <1>9

\* Watch.
LEMMA WatchType ==
  ASSUME TypeOK, PlaceInv, NEW c \in Clients, Watch(c)
  PROVE  TypeOK' /\ PlaceInv'
<1>1. c \in Goroutines /\ c # Reader
  BY ConstantsAssumption, SMTT(30) DEF Goroutines
<1>2. PICK label \in {"idle", "lookup", "or", "register"} : Goto(c, label)
  BY <1>1 DEF Watch, WatchCheck, WatchLookup, WatchOr, WatchInsert, Return, AfterWatch
<1>3. /\ pc' \in [Goroutines -> Labels] /\ pc'[c] = label
      /\ \A h \in Goroutines : h # c => pc'[h] = pc[h]
  BY <1>1, <1>2, Moves DEF Labels, ReaderSteps, ClientSteps, WatchSteps
<1>4. UNCHANGED <<watchesMutex, lifecycle, world, bsd>>
  BY DEF Watch, WatchCheck, WatchLookup, WatchOr, WatchInsert, table
<1>5. arg' \in [Goroutines -> Args] /\ \A h \in Goroutines : arg'[h].flags \subseteq BSDFlags
  <2>1. arg' = arg \/ arg' = [arg EXCEPT ![c] = NoArg]
    BY DEF Watch, WatchCheck, WatchLookup, WatchOr, WatchInsert, Return
  <2>2. NoArg \in Args /\ NoArg.flags = {}
    BY Zenon DEF NoArg, Args, Pids
  <2> QED
    BY <1>1, <2>1, <2>2 DEF TypeOK, PlaceInv
<1>6. watches' \in [Pids -> Entries] /\ entry' \in [Goroutines -> Entries]
  <2>1. arg[c].pid \in Pids /\ arg[c].flags \in SUBSET Flags
    BY <1>1, ArgType
  <2>2. \A p : Detached(p) \in [Goroutines -> Entries]
    BY Zenon DEF Detached, TypeOK, Entries
  <2> QED
    BY <1>1, <2>1, <2>2 DEF Watch, WatchCheck, WatchLookup, WatchOr, WatchInsert, table, TypeOK, Entries
<1>7. pc[c] # "delete" /\ (watchesMutex = c => pc[c] \in KeventSteps) /\ pc[c] \in {"check", "lookup", "or", "insert"}
  BY <1>1, Zenon DEF Watch, WatchCheck, WatchLookup, WatchOr, WatchInsert, TypeOK
<1>8. TypeOK'
  BY <1>1, <1>3, <1>4, <1>5, <1>6, <1>7, ConstantsAssumption, Zenon
  DEF TypeOK, lifecycle, world, bsd, kernel, Goroutines, ClientSteps, WatchSteps, KeventSteps
<1>9. PlaceInv'
  BY <1>1, <1>3, <1>4, <1>5, ConstantsAssumption
  DEF PlaceInv, lifecycle, world, bsd, kernel, Goroutines, KeventSteps, CloseSteps
<1> QED
  BY <1>8, <1>9

\* RemoveWatch up to its unregister.
LEMMA RemoveType ==
  ASSUME TypeOK, PlaceInv, NEW g \in Goroutines, RemoveWatchLocked(g)
  PROVE  TypeOK' /\ PlaceInv'
<1>1. PICK label \in {"idle", "send", "register"} : Goto(g, label)
  BY DEF RemoveWatchLocked, Return, AfterRemove
<1>2. /\ pc' \in [Goroutines -> Labels] /\ pc'[g] = label
      /\ \A h \in Goroutines : h # g => pc'[h] = pc[h]
  BY <1>1, Moves DEF Labels, ReaderSteps, ClientSteps, WatchSteps
<1>3. UNCHANGED <<lifecycle, world, bsd>> /\ pc[g] = "remove" /\ watchesMutex = Nobody
  BY DEF RemoveWatchLocked
<1>4. /\ watchesMutex' \in {Nobody, g}
      /\ label = "register" <=> watchesMutex' = g
      /\ g = Reader => label # "idle"
      /\ g # Reader => label # "send"
  BY <1>1, <1>2, <1>3, ConstantsAssumption
  DEF RemoveWatchLocked, Return, AfterRemove, table, Goto
<1>5. arg' \in [Goroutines -> Args] /\ \A h \in Goroutines : arg'[h].flags \subseteq BSDFlags
  <2>1. arg' = arg \/ arg' = [arg EXCEPT ![g] = NoArg]
    BY DEF RemoveWatchLocked, Return
  <2>2. NoArg \in Args /\ NoArg.flags = {}
    BY SMTT(30) DEF NoArg, Args, Pids
  <2> QED
    BY <2>1, <2>2 DEF TypeOK, PlaceInv
<1>6. watches' \in [Pids -> Entries] /\ entry' \in [Goroutines -> Entries]
  BY DEF RemoveWatchLocked, Detached, TypeOK, Entries, table
<1>7. g \in Clients <=> g # Reader
  BY ConstantsAssumption DEF Goroutines
<1>8. TypeOK'
  BY <1>2, <1>3, <1>4, <1>5, <1>6, <1>7, ConstantsAssumption, Zenon
  DEF TypeOK, lifecycle, world, bsd, kernel, Goroutines, ClientSteps, WatchSteps, ReaderSteps, KeventSteps
<1>9. PlaceInv'
  BY <1>2, <1>3, <1>4, <1>5, <1>7, ConstantsAssumption, Zenon
  DEF PlaceInv, lifecycle, world, bsd, kernel, Goroutines, KeventSteps, CloseSteps
<1> QED
  BY <1>8, <1>9, Zenon

\* Close.
LEMMA CloseType ==
  ASSUME TypeOK, PlaceInv, NEW c \in Clients, Close(c)
  PROVE  TypeOK' /\ PlaceInv'
<1>1. c \in Goroutines /\ c # Reader
  BY ConstantsAssumption DEF Goroutines
<1>2. PICK label \in {"idle", "register", "clear", "delete", "signal", "await"} : Goto(c, label)
  BY DEF Close, CloseUnregister, CloseEnter, CloseLockWatches, CloseUnlockWatches, CloseSignal
<1>3. /\ pc' \in [Goroutines -> Labels] /\ pc'[c] = label
      /\ \A h \in Goroutines : h # c => pc'[h] = pc[h]
  BY <1>1, <1>2, Moves DEF Labels, ReaderSteps, ClientSteps, WatchSteps, CloseSteps
<1> USE DEF lifecycle, world, bsd, kernel, table
<1>4. CASE CloseUnregister(c)
  <2>1. watches' \in [Pids -> Entries] /\ entry' \in [Goroutines -> Entries]
    BY <1>4, ZenonT(30) DEF CloseUnregister, Detached, TypeOK, Entries
  <2>2. arg' \in [Goroutines -> Args] /\ \A h \in Goroutines : arg'[h].flags \subseteq BSDFlags
    BY <1>1, <1>4 DEF CloseUnregister, TypeOK, PlaceInv, Args
  <2>3. label = "register" /\ pc[c] = "delete" /\ watchesMutex = c
    BY <1>1, <1>3, <1>4, Zenon DEF CloseUnregister, Goto, PlaceInv
  <2>4. UNCHANGED <<watchesMutex, lifecycle, world, bsd>>
    BY <1>4, ZenonT(30) DEF CloseUnregister
  <2>5. TypeOK'
    BY <1>1, <1>3, <2>1, <2>2, <2>3, <2>4, ConstantsAssumption DEF TypeOK, Goroutines, KeventSteps
  <2>6. PlaceInv'
    BY <1>1, <1>3, <2>2, <2>3, <2>4, ConstantsAssumption, Zenon DEF PlaceInv, Goroutines, KeventSteps, CloseSteps
  <2> QED
    BY <2>5, <2>6, Zenon
<1>5. CASE CloseEnter(c) /\ UNCHANGED bsd
  <2>1. TypeOK'
    BY <1>1, <1>3, <1>5, ConstantsAssumption, Zenon
    DEF CloseEnter, TypeOK, Goroutines, Goto, PlaceInv, KeventSteps, ClientSteps, CloseSteps
  <2>2. PlaceInv'
    BY <1>1, <1>3, <1>5, ConstantsAssumption, Zenon DEF CloseEnter, PlaceInv, Goroutines, Goto, KeventSteps, CloseSteps
  <2> QED
    BY <2>1, <2>2
<1>6. CASE CloseLockWatches(c) /\ UNCHANGED bsd
  <2>1. TypeOK'
    BY <1>1, <1>3, <1>6, ConstantsAssumption, Zenon
    DEF CloseLockWatches, TypeOK, Goroutines, Goto, PlaceInv, KeventSteps, ClientSteps, CloseSteps
  <2>2. PlaceInv'
    BY <1>1, <1>3, <1>6, ConstantsAssumption, Zenon DEF CloseLockWatches, PlaceInv, Goroutines, Goto, KeventSteps, CloseSteps
  <2> QED
    BY <2>1, <2>2
<1>7. CASE CloseUnlockWatches(c) /\ UNCHANGED bsd
  <2>1. TypeOK'
    BY <1>1, <1>3, <1>7, ConstantsAssumption, Zenon
    DEF CloseUnlockWatches, TypeOK, Goroutines, Goto, PlaceInv, KeventSteps, ClientSteps, CloseSteps
  <2>2. PlaceInv'
    BY <1>1, <1>3, <1>7, ConstantsAssumption, ZenonT(30) DEF CloseUnlockWatches, PlaceInv, Goroutines, Goto, KeventSteps, CloseSteps
  <2> QED
    BY <2>1, <2>2
<1>8. CASE CloseSignal(c) /\ UNCHANGED bsd
  <2>1. TypeOK'
    BY <1>1, <1>3, <1>8, ConstantsAssumption
    DEF CloseSignal, TypeOK, Goroutines, Goto, PlaceInv, KeventSteps, ClientSteps, CloseSteps
  <2>2. PlaceInv'
    BY <1>1, <1>3, <1>8, ConstantsAssumption, Zenon DEF CloseSignal, PlaceInv, Goroutines, Goto, KeventSteps, CloseSteps
  <2> QED
    BY <2>1, <2>2
<1> QED
  BY <1>4, <1>5, <1>6, <1>7, <1>8 DEF Close

\* A call is made with a pid and flags of the client's choice.
LEMMA CallType ==
  ASSUME TypeOK, PlaceInv, NEW c \in Clients, Call(c)
  PROVE  TypeOK' /\ PlaceInv'
<1>1. c \in Goroutines /\ c # Reader
  BY ConstantsAssumption DEF Goroutines
<1>2. PICK label \in {"check", "remove", "enter"} : Goto(c, label)
  BY ZenonT(30) DEF Call, CallWatch, CallRemoveWatch, CallClose
<1>3. /\ pc' \in [Goroutines -> Labels] /\ pc'[c] = label
      /\ \A h \in Goroutines : h # c => pc'[h] = pc[h]
  BY <1>1, <1>2, Moves DEF Labels, ReaderSteps, ClientSteps, WatchSteps
<1>4. UNCHANGED <<table, lifecycle, entry, world, bsd>> /\ pc[c] = "idle"
  BY DEF Call, CallWatch, CallRemoveWatch, CallClose
<1>5. arg' \in [Goroutines -> Args] /\ \A h \in Goroutines : arg'[h].flags \subseteq BSDFlags
  <2>1. CASE arg' = arg
    BY <2>1, ZenonT(30) DEF TypeOK, PlaceInv
  <2>2. CASE \E p \in WatchKeys \cup RemoveKeys, f \in FlagSets \cup {{}} : arg' = [arg EXCEPT ![c] = [pid |-> p, flags |-> f]]
    <3>1. PICK p \in WatchKeys \cup RemoveKeys, f \in FlagSets \cup {{}} : arg' = [arg EXCEPT ![c] = [pid |-> p, flags |-> f]]
      BY <2>2, Zenon
    <3>2. [pid |-> p, flags |-> f] \in Args /\ f \subseteq BSDFlags
      BY ConstantsAssumption, BSDAssumption, ZenonT(30) DEF Args
    <3> QED
      BY <1>1, <3>1, <3>2 DEF TypeOK, PlaceInv
  <2> QED
    BY <2>1, <2>2, Zenon DEF Call, CallWatch, CallRemoveWatch, CallClose
<1> USE DEF table, lifecycle, world, bsd, kernel
<1>6. TypeOK'
  BY <1>1, <1>3, <1>4, <1>5, ConstantsAssumption DEF TypeOK, Goroutines, ClientSteps, WatchSteps, KeventSteps
<1>7. PlaceInv'
  BY <1>1, <1>3, <1>4, <1>5, ConstantsAssumption, Zenon DEF PlaceInv, Goroutines, CloseSteps
<1> QED
  BY <1>6, <1>7, ZenonT(30)

\* An event in hand is one of a process, and so are the ones after it.
LEMMA EventType ==
  ASSUME TypeOK, events # <<>>
  PROVE  ev \in Kevents /\ ev.ident \in Procs /\ Tail(events) \in Seq(Kevents)
<1>1. ev \in Kevents /\ Tail(events) \in Seq(Kevents)
  BY SMTT(30) DEF TypeOK, ev
<1> QED
  BY <1>1, ZenonT(30) DEF Kevents

\* What Kevent returns is a sequence of events.
LEMMA PollType ==
  ASSUME TypeOK, NEW ready \in SUBSET Procs
  PROVE  Bijection(1..Cardinality(ready), {[ident |-> p, fflags |-> pending[p]] : p \in ready}) \subseteq Seq(Kevents)
<1> DEFINE S == {[ident |-> p, fflags |-> pending[p]] : p \in ready}
<1>1. S \subseteq Kevents
  BY DEF TypeOK, Kevents
<1>2. Cardinality(ready) \in Nat
  BY BSDAssumption, FS_Subset, FS_CardinalityType
<1> HIDE DEF S
<1>3. \A n \in Nat : \A f \in [1..n -> S] : f \in Seq(Kevents)
  BY <1>1
<1>4. Bijection(1..Cardinality(ready), S) \subseteq [1..Cardinality(ready) -> S]
  BY DEF Bijection, Injection
<1> QED
  BY <1>2, <1>3, <1>4 DEF S

\* The reader's loop.
LEMMA ReaderType ==
  ASSUME TypeOK, PlaceInv,
         \/ isDone("poll", "stopped") /\ UNCHANGED bsd
         \/ Poll \/ PollError \/ SendError \/ EndOfEvents \/ HandleEvent \/ Send
  PROVE  TypeOK' /\ PlaceInv'
<1>1. Reader \in Goroutines
  BY ZenonT(30) DEF Goroutines
<1>2. PICK label \in {"poll", "stopped", "handle", "sendError", "isDone", "remove", "send"} : Goto(Reader, label)
  BY DEF isDone, Poll, PollError, SendError, EndOfEvents, HandleEvent, Send
<1>3. /\ pc' \in [Goroutines -> Labels] /\ pc'[Reader] = label
      /\ \A h \in Goroutines : h # Reader => pc'[h] = pc[h]
  BY <1>1, <1>2, Moves, ZenonT(30) DEF Labels, ReaderSteps
<1>4. pc[Reader] \notin KeventSteps /\ watchesMutex # Reader /\ pc[Reader] # "stopped"
  BY <1>1 DEF isDone, Poll, PollError, SendError, EndOfEvents, HandleEvent, Send, TypeOK, KeventSteps
<1>4a. /\ \A c \in Clients : pc'[c] \in ClientSteps \cup KeventSteps
       /\ pc'[Reader] \in ReaderSteps /\ pc'[Reader] \notin KeventSteps
       /\ UNCHANGED watchesMutex =>
            \A g \in Goroutines : watchesMutex' = g =>
              pc'[g] \in KeventSteps \cup (IF g = Reader THEN {} ELSE {"delete"})
  <2>1. \A c \in Clients : c \in Goroutines /\ c # Reader /\ pc'[c] = pc[c]
    BY <1>3, ConstantsAssumption, Zenon DEF Goroutines
  <2>2. pc'[Reader] \in ReaderSteps /\ pc'[Reader] \notin KeventSteps
    BY <1>3 DEF ReaderSteps, KeventSteps
  <2> QED
    BY <1>3, <1>4, <2>1, <2>2, Zenon DEF TypeOK
<1> USE DEF table, lifecycle, world, bsd, kernel
<1>5. CASE isDone("poll", "stopped") /\ UNCHANGED bsd
  <2>1. TypeOK'
    BY <1>1, <1>3, <1>4, <1>5, ConstantsAssumption, ZenonT(30)
    DEF isDone, Goto, PlaceInv, TypeOK, Goroutines, ReaderSteps, KeventSteps
  <2>2. PlaceInv'
    BY <1>1, <1>3, <1>4, <1>5, ConstantsAssumption, Zenon
    DEF isDone, Goto, PlaceInv, TypeOK, Goroutines, ReaderSteps, KeventSteps
  <2> QED
    BY <2>1, <2>2
<1>6. CASE Poll
  <2>1. PICK ready \in SUBSET Procs :
          /\ events' \in Bijection(1..Cardinality(ready), {[ident |-> p, fflags |-> pending[p]] : p \in ready})
          /\ kq' = [p \in Procs |-> IF p \in ready \ alive THEN NoWatch ELSE kq[p]]
          /\ pending' = [p \in Procs |-> IF p \in ready THEN {} ELSE pending[p]]
    <3>1. \A ready \in SUBSET {p \in Procs : pending[p] # {}} : ready \in SUBSET Procs
      BY SMTT(30)
    <3> QED
      BY <1>6, <3>1, Zenon DEF Poll
  <2>2. events' \in Seq(Kevents)
    BY <2>1, PollType
  <2>3. /\ kq' \in [Procs -> (SUBSET BSDFlags) \cup {NoWatch}] /\ pending' \in [Procs -> SUBSET BSDFlags]
        /\ \A p \in Procs : kq'[p] = NoWatch => pending'[p] = {}
    BY <2>1, Zenon DEF TypeOK
  <2>4. UNCHANGED <<table, lifecycle, arg, entry, world, buf, alive, overlap>> /\ label = "handle"
    BY <1>1, <1>3, <1>6, Zenon DEF Poll, Goto, PlaceInv
  <2>5. TypeOK'
    BY <1>3, <1>4a, <2>2, <2>3, <2>4, Zenon DEF TypeOK
  <2>6. PlaceInv'
    BY <1>1, <1>3, <1>4, <2>4, ConstantsAssumption, Zenon DEF PlaceInv, Goroutines, KeventSteps
  <2> QED
    BY <2>5, <2>6
<1>7. CASE PollError \/ SendError \/ EndOfEvents
  <2>1. UNCHANGED <<table, lifecycle, arg, entry, world, bsd>> /\ label \in {"sendError", "isDone"}
    BY <1>1, <1>3, <1>7, ZenonT(30) DEF PollError, SendError, EndOfEvents, Goto, PlaceInv
  <2>2. TypeOK'
    BY <1>3, <1>4a, <2>1, ZenonT(30) DEF TypeOK
  <2>3. PlaceInv'
    BY <1>1, <1>3, <1>4, <2>1, ConstantsAssumption, ZenonT(30) DEF PlaceInv, Goroutines, KeventSteps
  <2> QED
    BY <2>2, <2>3
<1>8. CASE HandleEvent
  <2>1. /\ UNCHANGED <<table, lifecycle, entry, world, buf, kernel, overlap>>
        /\ events # <<>> /\ label \in {"handle", "send", "remove"}
    BY <1>1, <1>3, <1>8 DEF HandleEvent, Goto, PlaceInv
  <2>2. Cardinality({"EXIT"}) = 1
    BY FS_Singleton, Zenon
  <2>3. events' \in Seq(Kevents) /\ (label # "handle" => events' = events)
    BY <1>1, <1>3, <1>8, <2>1, <2>2, EventType, Zenon DEF HandleEvent, Goto, PlaceInv, TypeOK
  <2>4. arg' \in [Goroutines -> Args] /\ \A h \in Goroutines : arg'[h].flags \subseteq BSDFlags
    <3>1. PICK a \in Args : a = [pid |-> ev.ident, flags |-> {}]
      BY <2>1, EventType, Zenon DEF Args, Pids
    <3>2. (arg' = arg \/ arg' = [arg EXCEPT ![Reader] = a]) /\ a.flags = {}
      BY <1>8, <3>1, Zenon DEF HandleEvent
    <3> QED
      BY <1>1, <3>1, <3>2, ZenonT(30) DEF TypeOK, PlaceInv
  <2>5. TypeOK'
    BY <1>3, <1>4a, <2>1, <2>3, <2>4 DEF TypeOK
  <2>6. PlaceInv'
    BY <1>1, <1>3, <1>4, <2>1, <2>4, ConstantsAssumption, Zenon DEF PlaceInv, Goroutines, KeventSteps
  <2> QED
    BY <2>5, <2>6
<1>9. CASE Send
  <2>1. /\ UNCHANGED <<table, lifecycle, arg, entry, world, buf, kernel, overlap>>
        /\ events # <<>> /\ label = "handle"
    BY <1>1, <1>3, <1>9, Zenon DEF Send, Goto, PlaceInv, TypeOK
  <2>2. events' \in Seq(Kevents)
    BY <1>9, <2>1, EventType, ZenonT(30) DEF Send
  <2>3. TypeOK'
    BY <1>3, <1>4a, <2>1, <2>2 DEF TypeOK
  <2>4. PlaceInv'
    BY <1>1, <1>3, <1>4, <2>1, ConstantsAssumption, Zenon DEF PlaceInv, Goroutines, KeventSteps
  <2> QED
    BY <2>3, <2>4
<1> QED
  BY <1>5, <1>6, <1>7, <1>8, <1>9

\* Processes change the kernel's state only.
LEMMA ProcessType ==
  ASSUME TypeOK, PlaceInv, NEW p \in Procs, Process(p)
  PROVE  TypeOK' /\ PlaceInv'
<1>1. UNCHANGED <<watcherVars, buf, events, overlap>>
  BY DEF Process, Happens, ProcExit
<1>2. /\ kq' \in [Procs -> (SUBSET BSDFlags) \cup {NoWatch}] /\ pending' \in [Procs -> SUBSET BSDFlags]
      /\ \A q \in Procs : kq'[q] = NoWatch => pending'[q] = {}
      /\ alive' \subseteq Procs
  <2>1. CASE Happens(p, "FORK") \/ Happens(p, "EXEC")
    BY <2>1 DEF Happens, TypeOK, BSDFlags
  <2>2. CASE ProcExit(p)
    <3>1. pending' \in [Procs -> SUBSET BSDFlags] /\ \A q \in Procs : q # p => pending'[q] = pending[q]
      BY <2>2, Zenon DEF ProcExit, TypeOK, BSDFlags
    <3>2. pending'[p] = pending[p] \/ kq[p] # NoWatch
      BY <2>2, Zenon DEF ProcExit, TypeOK, NoWatch
    <3>3. alive' \subseteq Procs
      BY <2>2 DEF ProcExit, TypeOK
    <3>4. kq' = IF pending'[p] = {} THEN [kq EXCEPT ![p] = NoWatch] ELSE kq
      BY <2>2 DEF ProcExit
    <3> QED
      BY <3>1, <3>2, <3>3, <3>4, Zenon DEF TypeOK
  <2> QED
    BY <2>1, <2>2, Zenon DEF Process
<1> USE DEF watcherVars, table, lifecycle, calls, world
<1>3. TypeOK'
  BY <1>1, <1>2, Zenon DEF TypeOK
<1>4. PlaceInv'
  BY <1>1, Zenon DEF PlaceInv
<1> QED
  BY <1>3, <1>4

\* The types and the places hold in every step.
LEMMA TypeStep == TypeOK /\ PlaceInv /\ [Next]_vars => TypeOK' /\ PlaceInv'
<1> SUFFICES ASSUME TypeOK, PlaceInv, [Next]_vars PROVE TypeOK' /\ PlaceInv'
  OBVIOUS
<1>1. CASE ReaderStep
  BY <1>1, ReaderType, RemoveType, StoreType, KeventType DEF ReaderStep, kevent, Goroutines
<1>2. CASE \E c \in Clients : Call(c) \/ ClientStep(c)
  BY <1>2, CallType, WatchType, RemoveType, StoreType, KeventType, CloseType DEF ClientStep, kevent, Goroutines
<1>3. CASE \E p \in Procs : Process(p)
  BY <1>3, ProcessType
<1> USE DEF table, lifecycle, calls, world, bsd, kernel
<1>4. CASE StopReceiving /\ UNCHANGED bsd
  <2>1. TypeOK'
    BY <1>4, Zenon DEF StopReceiving, TypeOK
  <2>2. PlaceInv'
    BY <1>4, Zenon DEF StopReceiving, PlaceInv
  <2> QED
    BY <2>1, <2>2
<1>5. CASE MapFault /\ UNCHANGED bsd
  <2>1. TypeOK'
    BY <1>5, Zenon DEF MapFault, TypeOK
  <2>2. PlaceInv'
    BY <1>5, ZenonT(30) DEF MapFault, PlaceInv
  <2> QED
    BY <2>1, <2>2
<1>6. CASE UNCHANGED vars
  <2>1. TypeOK'
    BY <1>6 DEF vars, watcherVars, TypeOK
  <2>2. PlaceInv'
    BY <1>6, Zenon DEF vars, watcherVars, PlaceInv
  <2> QED
    BY <2>1, <2>2
<1> QED
  BY <1>1, <1>2, <1>3, <1>4, <1>5, <1>6 DEF Next

-----------------------------------------------------------------------------
(* The kqueue and the table *)

\* Where a goroutine holds a pointer to an entry, or is between the table and
\* the kqueue.
Hot == KeventSteps \cup {"insert", "or"}

\* What happens elsewhere leaves the two together: goroutines move between
\* other places, or processes that are gone lose their filters.
LEMMA Aside ==
  ASSUME KqueueInv, watches' = watches, entry' = entry, buf' = buf, overlap' = overlap,
         alive' \subseteq alive, \A p \in alive' : kq'[p] = kq[p],
         \A h \in Goroutines : \/ pc'[h] = pc[h] /\ arg'[h] = arg[h]
                               \/ pc[h] \notin Hot /\ pc'[h] \notin Hot,
         \A h \in Goroutines : pc[h] \in Hot => (watchesMutex' = h <=> watchesMutex = h)
  PROVE  KqueueInv'
<1>1. ASSUME NEW h \in Goroutines
      PROVE  /\ pc'[h] \in Hot => pc[h] \in Hot /\ pc'[h] = pc[h] /\ arg'[h] = arg[h]
             /\ pc[h] \in Hot => pc'[h] = pc[h] /\ arg'[h] = arg[h]
  BY ZenonT(30)
<1>2. ASSUME NEW h \in Goroutines
      PROVE  (Removing(h)' <=> Removing(h)) /\ (Busy(h)' <=> Busy(h))
  BY <1>1, <1>2 DEF Removing, Busy, Hot, KeventSteps
<1>3. EntriesInv'
  BY <1>1, Zenon DEF KqueueInv, EntriesInv, Watched, Hot
<1>4. RemovedInv'
  BY <1>1, <1>2 DEF KqueueInv, RemovedInv, Watched, Hot, Removing
<1>5. ASSUME ~overlap PROVE BufferInv'
  <2>1. BufferInv
    BY <1>5, Zenon DEF KqueueInv
  <2>2. \A g, h \in Goroutines : Busy(g)' /\ Busy(h)' => g = h
    BY <1>2, <2>1, Zenon DEF BufferInv
  <2>3. ASSUME NEW g \in Goroutines
        PROVE  /\ pc'[g] \in {"flags", "fflags", "kevent"} => buf'.ident = arg'[g].pid
               /\ pc'[g] \in {"fflags", "kevent"} => buf'.flags = IF watchesMutex' = g THEN "DELETE" ELSE "ADD"
               /\ pc'[g] = "kevent" => buf'.fflags = arg'[g].flags
               /\ pc'[g] = "insert" /\ arg'[g].pid \in alive' => kq'[arg'[g].pid] = arg'[g].flags
    BY <1>1, <2>1, <2>3 DEF BufferInv, Hot, KeventSteps
  <2> QED
    BY <2>2, <2>3 DEF BufferInv
<1>6. ASSUME ~overlap PROVE FollowInv'
  <2> SUFFICES ASSUME NEW p \in alive', ~Between(p)' PROVE Follows(p)'
    BY DEF FollowInv
  <2>1. ~Between(p)
    BY <1>1, <1>2, SMTT(30) DEF Between, Removing, Hot
  <2>2. Follows(p) /\ kq'[p] = kq[p]
    BY <1>6, <2>1 DEF KqueueInv, FollowInv
  <2>3. \A g \in Goroutines : arg'[g].pid = p /\ entry'[g] # NoWatch => arg[g].pid = p /\ entry[g] # NoWatch
    BY <1>1 DEF KqueueInv, EntriesInv, Hot
  <2> QED
    BY <2>2, <2>3, Zenon DEF Follows, Watched
<1> QED
  BY <1>3, <1>4, <1>5, <1>6, Zenon DEF KqueueInv

\* The stores to the buffer.
LEMMA StoreFollows ==
  ASSUME BSDInv, TypeOK', NEW g \in Goroutines, StoreIdent(g) \/ StoreFlags(g) \/ StoreFflags(g)
  PROVE  KqueueInv'
<1>1. TypeOK /\ PlaceInv /\ KqueueInv
  BY Zenon DEF BSDInv
<1>2. PICK label \in KeventSteps : Goto(g, label) /\ pc[g] \in KeventSteps
  BY DEF StoreIdent, StoreFlags, StoreFflags, Store, KeventSteps
<1>3. pc'[g] = label /\ \A h \in Goroutines : h # g => pc'[h] = pc[h]
  BY <1>1, <1>2, Moves DEF Labels, ReaderSteps
<1>4. UNCHANGED <<watches, watchesMutex, arg, entry, kq, alive>>
  BY Zenon DEF StoreIdent, StoreFlags, StoreFflags, Store, table, kernel
<1>5. \A h \in Goroutines : Removing(h)' <=> Removing(h)
  BY <1>2, <1>3, <1>4 DEF Removing
<1>6. \A p : Between(p)' <=> Between(p)
  BY <1>2, <1>3, <1>4, <1>5, Zenon DEF Between, KeventSteps
<1>7. EntriesInv'
  BY <1>1, <1>2, <1>3, <1>4, Zenon DEF KqueueInv, EntriesInv, Watched, KeventSteps
<1>8. RemovedInv'
  BY <1>1, <1>4, <1>5 DEF KqueueInv, RemovedInv, Watched
<1>9. overlap \in BOOLEAN /\ overlap' \in BOOLEAN
  BY <1>1, Zenon DEF TypeOK
<1>10. ASSUME ~overlap' PROVE ~overlap
  <2>1. CASE StoreIdent(g)
    BY <1>10, <2>1, Zenon DEF StoreIdent
  <2>2. CASE StoreFlags(g) \/ StoreFflags(g)
    BY <1>10, <2>2, Zenon DEF StoreFlags, StoreFflags
  <2> QED
    BY <2>1, <2>2
<1>11. ASSUME ~overlap' PROVE FollowInv'
  BY <1>1, <1>4, <1>6, <1>10, <1>11, Zenon DEF KqueueInv, FollowInv, Follows, Watched
<1>12. ASSUME ~overlap' PROVE BufferInv'
  <2>1. BufferInv
    BY <1>1, <1>10, <1>12 DEF KqueueInv
  <2>2. \A h \in Goroutines : h # g => ~Busy(h)
    <3>1. CASE StoreIdent(g)
      <4>1. \A h \in Goroutines \ {g} : pc[h] \notin {"flags", "fflags", "kevent", "insert"}
        BY <1>12, <3>1, Zenon DEF StoreIdent
      <4> QED
        BY <4>1 DEF Busy
    <3>2. CASE StoreFlags(g) \/ StoreFflags(g)
      BY <2>1, <3>2, Zenon DEF StoreFlags, StoreFflags, BufferInv, Busy
    <3> QED
      BY <3>1, <3>2
  <2>3. \A h \in Goroutines : h # g => pc'[h] \notin {"flags", "fflags", "kevent", "insert"}
    BY <1>3, <2>2 DEF Busy
  <2>4. /\ pc'[g] \in {"flags", "fflags", "kevent"} => buf'.ident = arg[g].pid
        /\ pc'[g] \in {"fflags", "kevent"} => buf'.flags = IF watchesMutex = g THEN "DELETE" ELSE "ADD"
        /\ pc'[g] = "kevent" => buf'.fflags = arg[g].flags
    <3>1. CASE StoreIdent(g)
      BY <1>1, <1>3, <3>1, Zenon DEF StoreIdent, Store, Goto, PlaceInv, TypeOK, Changes
    <3>2. CASE StoreFlags(g)
      BY <1>1, <1>3, <2>1, <3>2, Zenon DEF StoreFlags, Store, Goto, PlaceInv, TypeOK, Changes, BufferInv, Unregistering
    <3>3. CASE StoreFflags(g)
      BY <1>1, <1>3, <2>1, <3>3, Zenon DEF StoreFflags, Store, Goto, PlaceInv, TypeOK, Changes, BufferInv
    <3> QED
      BY <3>1, <3>2, <3>3
  <2>5. pc'[g] # "insert"
    BY <1>3 DEF KeventSteps
  <2>6. \A h, k \in Goroutines : Busy(h)' /\ Busy(k)' => h = k
    BY <2>3 DEF Busy
  <2>7. ASSUME NEW h \in Goroutines
        PROVE  /\ pc'[h] \in {"flags", "fflags", "kevent"} => buf'.ident = arg'[h].pid
               /\ pc'[h] \in {"fflags", "kevent"} => buf'.flags = IF watchesMutex' = h THEN "DELETE" ELSE "ADD"
               /\ pc'[h] = "kevent" => buf'.fflags = arg'[h].flags
               /\ pc'[h] = "insert" /\ arg'[h].pid \in alive' => kq'[arg'[h].pid] = arg'[h].flags
    BY <1>4, <2>3, <2>4, <2>5, Zenon
  <2> QED
    BY <2>6, <2>7 DEF BufferInv
<1> QED
  BY <1>7, <1>8, <1>11, <1>12 DEF KqueueInv

\* An entry is not NoWatch when it is a set of flags.
LEMMA FlagsAreEntries == \A f \in SUBSET Flags : f # NoWatch
  BY Zenon DEF Flags, NoWatch

\* Where the system call leaves its goroutine.
LEMMA KeventMoves ==
  ASSUME TypeOK, PlaceInv, NEW g \in Goroutines, Kevent(g)
  PROVE  /\ \A h \in Goroutines : h # g => pc'[h] = pc[h] /\ arg'[h] = arg[h]
         /\ watchesMutex = g => pc'[g] \notin Hot /\ watchesMutex' \in {g, Nobody}
         /\ watchesMutex # g => /\ watchesMutex' = watchesMutex
                                /\ \/ /\ pc'[g] = "insert" /\ arg' = arg
                                      /\ Found
                                   \/ pc'[g] = "idle" /\ ~Found
<1>1. CASE watchesMutex = g
  <2>1. PICK label \in {"delete", "send", "idle"} : Return(g, label) /\ watchesMutex' \in {g, Nobody}
    BY <1>1 DEF Kevent, Unregistering, AfterUnregister, AfterRemove
  <2> QED
    BY <1>1, <2>1 DEF Return, Goto, PlaceInv, TypeOK, Hot, KeventSteps
<1>2. CASE watchesMutex # g
  BY <1>2, Zenon DEF Kevent, Unregistering, AfterRegister, Return, Goto, PlaceInv, TypeOK
<1> QED
  BY <1>1, <1>2, ZenonT(30)

\* The system call.
LEMMA KeventFollows ==
  ASSUME BSDInv, NEW g \in Goroutines, Kevent(g)
  PROVE  KqueueInv'
<1>1. TypeOK /\ PlaceInv /\ KqueueInv
  BY DEF BSDInv
<1>2. /\ pc[g] = "kevent" /\ UNCHANGED <<watches, entry, buf, alive, overlap>> /\ Change
  BY DEF Kevent
<1>3. /\ \A h \in Goroutines : h # g => pc'[h] = pc[h] /\ arg'[h] = arg[h]
      /\ watchesMutex = g => pc'[g] \notin Hot /\ watchesMutex' \in {g, Nobody}
      /\ watchesMutex # g => watchesMutex' = watchesMutex /\ pc'[g] \in {"insert", "idle"}
  BY <1>1, KeventMoves, Zenon
<1>4. entry[g] = NoWatch
  BY <1>1, <1>2, Zenon DEF KqueueInv, EntriesInv
<1>5. EntriesInv'
  BY <1>1, <1>2, <1>3, <1>4 DEF KqueueInv, EntriesInv, Watched
<1>6. ASSUME NEW h \in Goroutines PROVE Removing(h)' <=> h # g /\ Removing(h)
  BY <1>3, ConstantsAssumption DEF Removing, Hot, KeventSteps
<1>7. RemovedInv'
  BY <1>1, <1>2, <1>3, <1>6 DEF KqueueInv, RemovedInv, Watched
<1>8. ASSUME ~overlap PROVE BufferInv' /\ FollowInv'
  <2>1. BufferInv /\ FollowInv
    BY <1>1, <1>8 DEF KqueueInv
  <2>2. PICK q \in Pids : q = arg[g].pid
    BY <1>1, ArgType, Zenon
  <2>3. /\ buf.ident = q /\ buf.fflags = arg[g].flags
        /\ buf.flags = IF watchesMutex = g THEN "DELETE" ELSE "ADD"
    BY <1>2, <2>1, <2>2, Zenon DEF BufferInv
  <2>4. \A h \in Goroutines : h # g => pc'[h] \notin {"flags", "fflags", "kevent", "insert"}
    BY <1>2, <1>3, <2>1 DEF BufferInv, Busy
  <2>5. /\ \A p \in alive : p # q => kq'[p] = kq[p]
        /\ watchesMutex = g /\ q \in alive => kq'[q] = NoWatch
        /\ watchesMutex # g /\ q \in alive => kq'[q] = arg[g].flags
    BY <1>1, <1>2, <2>3, Zenon DEF Change, Found, TypeOK
  <2>6. watchesMutex # g /\ q \in alive => pc'[g] = "insert"
    BY <1>1, <2>3, KeventMoves, Zenon DEF Found, TypeOK
  <2>7. pc'[g] = "insert" => watchesMutex # g /\ arg'[g] = arg[g]
    BY <1>1, KeventMoves, Zenon DEF Hot
  <2>8. BufferInv'
    <3>1. \A h, k \in Goroutines : Busy(h)' /\ Busy(k)' => h = k
      BY <2>4 DEF Busy
    <3>2. pc'[g] \notin {"flags", "fflags", "kevent"}
      BY <1>3, Zenon DEF Hot, KeventSteps
    <3>3. pc'[g] = "insert" /\ arg'[g].pid \in alive' => kq'[arg'[g].pid] = arg'[g].flags
      BY <1>2, <2>2, <2>5, <2>7
    <3> QED
      BY <2>4, <3>1, <3>2, <3>3, Zenon DEF BufferInv
  <2>9. ASSUME NEW p \in alive, ~Between(p)' PROVE Follows(p)'
    <3>1. CASE p = q
      <4>1. watchesMutex = g
        BY <1>2, <2>2, <2>6, <2>7, <2>9, <3>1, Zenon DEF Between
      <4>2. ~Watched(p) /\ kq'[p] = NoWatch
        BY <1>1, <1>2, <2>2, <2>5, <3>1, <4>1, Zenon DEF KqueueInv, RemovedInv, Removing, KeventSteps
      <4>3. \A h \in Goroutines : arg'[h].pid = p => entry'[h] = NoWatch
        BY <1>1, <1>2, <1>3, <1>4, <4>2 DEF KqueueInv, EntriesInv
      <4> QED
        BY <1>2, <4>2, <4>3 DEF Follows, Watched
    <3>2. CASE p # q
      <4>1. ~Between(p)
        <5> SUFFICES ASSUME NEW h \in Goroutines, arg[h].pid = p, pc[h] = "insert" \/ Removing(h) PROVE FALSE
          BY DEF Between
        <5>1. h # g
          BY <2>2, <3>2
        <5> QED
          BY <1>3, <1>6, <2>9, <5>1, Zenon DEF Between
      <4>2. Follows(p) /\ kq'[p] = kq[p]
        BY <2>1, <2>5, <3>2, <4>1 DEF FollowInv
      <4> QED
        BY <1>2, <1>3, <1>4, <4>2, Zenon DEF Follows, Watched
    <3> QED
      BY <3>1, <3>2, SMTT(30)
  <2> QED
    BY <1>2, <2>8, <2>9 DEF FollowInv
<1> QED
  BY <1>2, <1>5, <1>7, <1>8 DEF KqueueInv

\* Watch reads the entry, and stores to it through the pointer.
LEMMA WatchFollows ==
  ASSUME BSDInv, NEW c \in Clients, Watch(c)
  PROVE  KqueueInv'
<1>1. TypeOK /\ PlaceInv /\ KqueueInv /\ c \in Goroutines
  BY ZenonT(30) DEF BSDInv, Goroutines
<1>2. UNCHANGED <<buf, kq, alive, overlap, watchesMutex>>
  BY DEF Watch, bsd, kernel, WatchCheck, WatchLookup, WatchOr, WatchInsert, table
<1>3. PICK q \in Pids : q = arg[c].pid
  BY <1>1, ArgType
<1>4. AfterWatch(c) = "idle"
  BY ConstantsAssumption DEF AfterWatch
<1>5. CASE WatchCheck(c)
  <2>1. UNCHANGED <<watches, entry>> /\ pc[c] = "check"
    BY <1>5 DEF WatchCheck, table
  <2>2. /\ \A h \in Goroutines : h # c => pc'[h] = pc[h] /\ arg'[h] = arg[h]
        /\ pc'[c] \in {"idle", "lookup"}
    BY <1>1, <1>4, <1>5, ZenonT(30) DEF WatchCheck, Return, Goto, TypeOK, PlaceInv
  <2>3. pc[c] \notin Hot /\ pc'[c] \notin Hot
    BY <2>1, <2>2 DEF Hot, KeventSteps
  <2> QED
    BY <1>1, <1>2, <2>1, <2>2, <2>3, Aside, Zenon
<1>6. CASE WatchLookup(c)
  <2>1. /\ UNCHANGED <<watches, arg>> /\ pc[c] = "lookup"
        /\ entry' = [entry EXCEPT ![c] = watches[q]]
        /\ pc'[c] = IF Watched(q) THEN "or" ELSE "register"
        /\ \A h \in Goroutines : h # c => pc'[h] = pc[h]
    BY <1>1, <1>3, <1>6 DEF WatchLookup, Goto, PlaceInv, table
  <2>2. watchesMutex # c
    BY <1>1, <2>1, Zenon DEF TypeOK, KeventSteps
  <2>3. entry'[c] = watches[q] /\ \A h \in Goroutines : h # c => entry'[h] = entry[h]
    BY <1>1, <2>1, Zenon DEF TypeOK
  <2>4. EntriesInv'
    BY <1>1, <1>3, <2>1, <2>3, ZenonT(30) DEF KqueueInv, EntriesInv, Watched
  <2>5. \A h \in Goroutines : (Removing(h)' <=> Removing(h)) /\ (Busy(h)' <=> Busy(h))
    BY <1>2, <2>1, <2>2 DEF Removing, Busy
  <2>6. RemovedInv'
    BY <1>1, <2>1, <2>5, Zenon DEF KqueueInv, RemovedInv, Watched
  <2>7. ASSUME ~overlap PROVE BufferInv'
    BY <1>1, <1>2, <2>1, <2>5, <2>7, Zenon DEF KqueueInv, BufferInv
  <2>8. ASSUME ~overlap, NEW p \in alive, ~Between(p)' PROVE Follows(p)'
    <3>1. Follows(p)
      BY <1>1, <2>1, <2>5, <2>8, Zenon DEF KqueueInv, FollowInv, Between
    <3> QED
      BY <1>2, <1>3, <2>1, <2>3, <3>1, Zenon DEF Follows, Watched
  <2> QED
    BY <1>2, <2>4, <2>6, <2>7, <2>8, ZenonT(30) DEF KqueueInv, FollowInv
<1>7. CASE WatchOr(c)
  <2>1. /\ pc[c] = "or" /\ pc'[c] = "idle" /\ entry'[c] = NoWatch
        /\ \A h \in Goroutines : h # c => pc'[h] = pc[h] /\ arg'[h] = arg[h] /\ entry'[h] = entry[h]
    BY <1>1, <1>4, <1>7, ZenonT(30) DEF WatchOr, Return, Goto, PlaceInv, TypeOK
  <2>2. PICK f \in SUBSET Flags : f = arg[c].flags
    BY <1>1, ArgType, SMTT(30)
  <2>3. watches' = IF entry[c] = NoWatch THEN watches ELSE [watches EXCEPT ![q] = entry[c] \cup f]
    BY <1>3, <1>7, <2>2 DEF WatchOr
  <2>4. entry[c] # NoWatch => entry[c] \cup f # NoWatch
    BY <1>1, FlagsAreEntries, Zenon DEF TypeOK, Entries
  <2>5. \A p \in Pids : Watched(p)' <=> Watched(p)
    BY <1>1, <1>3, <2>3, <2>4, Zenon DEF Watched, TypeOK, KqueueInv, EntriesInv
  <2>6. \A h \in Goroutines : arg[h].pid \in Pids
    BY <1>1, ArgType
  <2>7. EntriesInv'
    BY <1>1, <2>1, <2>5, <2>6, ZenonT(30) DEF KqueueInv, EntriesInv
  <2>8. \A h \in Goroutines : (Removing(h)' <=> Removing(h)) /\ (Busy(h)' <=> Busy(h))
    BY <1>2, <2>1 DEF Removing, Busy, KeventSteps
  <2>9. RemovedInv'
    BY <1>1, <2>1, <2>5, <2>6, <2>8, Zenon DEF KqueueInv, RemovedInv, Removing, KeventSteps
  <2>10. ASSUME ~overlap PROVE BufferInv'
    BY <1>1, <1>2, <2>1, <2>8, <2>10, ZenonT(30) DEF KqueueInv, BufferInv
  <2>11. ASSUME ~overlap, NEW p \in alive, ~Between(p)' PROVE Follows(p)'
    <3>1. Follows(p) /\ p \in Pids
      <4>1. p \in Pids
        BY <1>1 DEF TypeOK, Pids
      <4>2. ASSUME NEW h \in Goroutines, arg[h].pid = p, pc[h] = "insert" \/ Removing(h) PROVE FALSE
        <5>1. h # c
          BY <2>1, <4>2 DEF Removing, KeventSteps
        <5>2. arg'[h].pid = p /\ (pc'[h] = "insert" \/ Removing(h)')
          BY <2>1, <2>8, <4>2, <5>1, Zenon
        <5> QED
          BY <2>11, <5>2, ZenonT(30) DEF Between
      <4>3. ~Between(p)
        BY <4>2, Zenon DEF Between
      <4> QED
        BY <1>1, <2>11, <4>1, <4>3, Zenon DEF KqueueInv, FollowInv
    <3>2. Watched(p)' => kq'[p] \subseteq watches'[p]
      BY <1>1, <1>2, <1>3, <2>3, <2>5, <3>1, Zenon DEF Follows, TypeOK
    <3>3. \A h \in Goroutines : arg'[h].pid = p /\ entry'[h] # NoWatch => kq'[p] \subseteq entry'[h]
      BY <1>2, <2>1, <3>1, Zenon DEF Follows
    <3> QED
      BY <1>2, <2>5, <3>1, <3>2, <3>3, Zenon DEF Follows
  <2> QED
    BY <1>2, <2>7, <2>9, <2>10, <2>11 DEF KqueueInv, FollowInv
<1>8. CASE WatchInsert(c)
  <2>1. /\ pc[c] = "insert" /\ pc'[c] = "idle" /\ watchesMutex = Nobody
        /\ \A h \in Goroutines : h # c => pc'[h] = pc[h] /\ arg'[h] = arg[h]
        /\ watches' = [watches EXCEPT ![q] = arg[c].flags] /\ entry' = Detached(q)
    BY <1>1, <1>3, <1>4, <1>8, Zenon DEF WatchInsert, Return, Goto, PlaceInv, TypeOK
  <2>2. /\ \A h \in Goroutines : entry'[h] # NoWatch => h # c /\ arg[h].pid # q /\ entry'[h] = entry[h]
        /\ \A p \in Pids : p # q => watches'[p] = watches[p]
        /\ watches'[q] = arg[c].flags
    BY <1>1, <1>3, <2>1, Zenon DEF Detached, TypeOK
  <2>3. arg[c].flags # NoWatch
    BY <1>1, ArgType, FlagsAreEntries, Zenon
  <2>4. \A h \in Goroutines : arg[h].pid \in Pids /\ ~Removing(h) /\ ~Removing(h)'
    BY <1>1, <1>2, <2>1, ArgType, ConstantsAssumption, ZenonT(30) DEF Removing
  <2>5. EntriesInv'
    BY <1>1, <2>1, <2>2, <2>4 DEF KqueueInv, EntriesInv, Watched
  <2>6. RemovedInv'
    BY <2>4 DEF RemovedInv
  <2>7. ASSUME ~overlap PROVE BufferInv'
    <3>1. \A h \in Goroutines : pc'[h] \notin {"flags", "fflags", "kevent", "insert"}
      BY <1>1, <2>1, <2>7 DEF KqueueInv, BufferInv, Busy
    <3> QED
      BY <3>1, ZenonT(30) DEF BufferInv, Busy
  <2>8. ASSUME ~overlap, NEW p \in alive, ~Between(p)' PROVE Follows(p)'
    <3>1. CASE p = q
      <4>1. kq[p] = arg[c].flags
        BY <1>1, <1>3, <2>1, <2>8, <3>1, Zenon DEF KqueueInv, BufferInv
      <4> QED
        BY <1>2, <2>1, <2>2, <2>3, <3>1, <4>1, Zenon DEF Follows, Watched
    <3>2. CASE p # q
      <4>1. Follows(p) /\ p \in Pids
        BY <1>1, <1>3, <2>1, <2>4, <2>8, <3>2, ZenonT(30) DEF KqueueInv, FollowInv, Between, TypeOK, Pids
      <4> QED
        BY <1>2, <2>1, <2>2, <3>2, <4>1, Zenon DEF Follows, Watched
    <3> QED
      BY <3>1, <3>2
  <2> QED
    BY <1>2, <2>5, <2>6, <2>7, <2>8 DEF KqueueInv, FollowInv
<1> QED
  BY <1>5, <1>6, <1>7, <1>8 DEF Watch

\* An entry leaves the table, by RemoveWatch or in the loop of Close: g goes to
\* its unregister with watchesMutex held.
LEMMA EntryLeaves ==
  ASSUME BSDInv, NEW g \in Goroutines, NEW q \in Pids,
         watches' = [watches EXCEPT ![q] = NoWatch], entry' = Detached(q), pc[g] \in {"remove", "delete"},
         watchesMutex \in {g, Nobody}, watchesMutex' = g, arg'[g].pid = q, pc'[g] = "register",
         \A h \in Goroutines : h # g => pc'[h] = pc[h] /\ arg'[h] = arg[h],
         UNCHANGED <<buf, kq, alive, overlap>>
  PROVE  KqueueInv'
<1>1. TypeOK /\ PlaceInv /\ KqueueInv
  BY Zenon DEF BSDInv
<1>2. /\ \A h \in Goroutines : entry'[h] # NoWatch => h # g /\ arg[h].pid # q /\ entry'[h] = entry[h]
      /\ \A p \in Pids : p # q => watches'[p] = watches[p]
      /\ ~Watched(q)'
  BY <1>1, Zenon DEF Detached, TypeOK, KqueueInv, EntriesInv, Watched
<1>3. \A h \in Goroutines : /\ arg[h].pid \in Pids
                            /\ ~Removing(h) /\ (Removing(h)' <=> h = g) /\ (Busy(h)' <=> Busy(h))
  BY <1>1, ArgType, ConstantsAssumption, Zenon DEF Removing, Busy, KeventSteps
<1>4. EntriesInv'
  <2> SUFFICES ASSUME NEW h \in Goroutines, entry'[h] # NoWatch PROVE pc'[h] = "or" /\ watches'[arg'[h].pid] # NoWatch
    BY Zenon DEF EntriesInv, Watched
  <2>1. h # g /\ arg[h].pid # q /\ entry[h] # NoWatch
    BY <1>2, Zenon
  <2>2. pc[h] = "or" /\ Watched(arg[h].pid)
    BY <1>1, <2>1, Zenon DEF KqueueInv, EntriesInv
  <2>3. watches'[arg[h].pid] = watches[arg[h].pid]
    BY <1>2, <1>3, <2>1, Zenon
  <2> QED
    BY <2>1, <2>2, <2>3, Zenon DEF Watched
<1>5. RemovedInv'
  BY <1>2, <1>3, ZenonT(30) DEF RemovedInv
<1>6. ASSUME ~overlap PROVE BufferInv'
  <2>1. BufferInv
    BY <1>1, <1>6 DEF KqueueInv
  <2>2. \A h, k \in Goroutines : Busy(h)' /\ Busy(k)' => h = k
    BY <1>3, <2>1, Zenon DEF BufferInv
  <2>3. ASSUME NEW h \in Goroutines
        PROVE  /\ pc'[h] \in {"flags", "fflags", "kevent"} => buf'.ident = arg'[h].pid
               /\ pc'[h] \in {"fflags", "kevent"} => buf'.flags = IF watchesMutex' = h THEN "DELETE" ELSE "ADD"
               /\ pc'[h] = "kevent" => buf'.fflags = arg'[h].flags
               /\ pc'[h] = "insert" /\ arg'[h].pid \in alive' => kq'[arg'[h].pid] = arg'[h].flags
    BY <2>1, ConstantsAssumption, Zenon DEF BufferInv
  <2> QED
    BY <2>2, <2>3, ZenonT(30) DEF BufferInv
<1>7. ASSUME ~overlap, NEW p \in alive, ~Between(p)' PROVE Follows(p)'
  <2>1. p # q
    BY <1>3, <1>7, Zenon DEF Between
  <2>2. Follows(p) /\ p \in Pids
    BY <1>1, <1>3, <1>7, ZenonT(30) DEF KqueueInv, FollowInv, Between, TypeOK, Pids
  <2> QED
    BY <1>2, <2>1, <2>2 DEF Follows, Watched
<1> QED
  BY <1>4, <1>5, <1>6, <1>7, Zenon DEF KqueueInv, FollowInv

\* RemoveWatch up to its unregister.
LEMMA RemoveFollows ==
  ASSUME BSDInv, NEW g \in Goroutines, RemoveWatchLocked(g)
  PROVE  KqueueInv'
<1>1. TypeOK /\ PlaceInv /\ KqueueInv
  BY DEF BSDInv
<1>2. PICK q \in Pids : q = arg[g].pid
  BY <1>1, ArgType
<1>3. pc[g] = "remove" /\ watchesMutex = Nobody /\ entry' = Detached(q) /\ UNCHANGED <<buf, kq, alive, overlap>>
  BY <1>2, Zenon DEF RemoveWatchLocked, bsd, kernel
<1>4. CASE Watched(q)
  <2>1. /\ watches' = [watches EXCEPT ![q] = NoWatch] /\ watchesMutex' = g /\ arg' = arg
        /\ pc'[g] = "register" /\ \A h \in Goroutines : h # g => pc'[h] = pc[h]
    BY <1>1, <1>2, <1>4, Zenon DEF RemoveWatchLocked, Goto, PlaceInv
  <2> QED
    BY <1>2, <1>3, <2>1, EntryLeaves, Zenon
<1>5. CASE ~Watched(q)
  <2>1. /\ UNCHANGED <<watches, watchesMutex>> /\ pc'[g] \in {"send", "idle"}
        /\ \A h \in Goroutines : h # g => pc'[h] = pc[h] /\ arg'[h] = arg[h]
    BY <1>1, <1>2, <1>5, ZenonT(30) DEF RemoveWatchLocked, Return, Goto, AfterRemove, PlaceInv, TypeOK, table
  <2>2. \A h \in Goroutines : arg[h].pid = q => entry[h] = NoWatch
    BY <1>1, <1>5 DEF KqueueInv, EntriesInv
  <2>3. entry' = entry
    BY <1>1, <1>3, <2>2, Zenon DEF Detached, TypeOK
  <2>4. pc[g] \notin Hot /\ pc'[g] \notin Hot
    BY <1>3, <2>1, Zenon DEF Hot, KeventSteps
  <2> QED
    BY <1>1, <1>3, <2>1, <2>3, <2>4, Aside, Zenon
<1> QED
  BY <1>4, <1>5

\* Close.
LEMMA CloseFollows ==
  ASSUME BSDInv, NEW c \in Clients, Close(c)
  PROVE  KqueueInv'
<1>1. TypeOK /\ PlaceInv /\ KqueueInv /\ c \in Goroutines
  BY DEF BSDInv, Goroutines
<1>2. CASE CloseUnregister(c)
  <2>1. PICK q \in Pids : /\ watches' = [watches EXCEPT ![q] = NoWatch] /\ entry' = Detached(q)
                          /\ arg' = [arg EXCEPT ![c] = [pid |-> q, flags |-> {}]]
    BY <1>2, Zenon DEF CloseUnregister
  <2>2. arg'[c].pid = q /\ \A h \in Goroutines : h # c => arg'[h] = arg[h]
    BY <1>1, <2>1, Zenon DEF TypeOK
  <2>3. /\ pc[c] = "delete" /\ watchesMutex = c /\ watchesMutex' = watchesMutex
        /\ UNCHANGED <<buf, kq, alive, overlap>>
        /\ pc'[c] = "register" /\ \A h \in Goroutines : h # c => pc'[h] = pc[h]
    BY <1>1, <1>2, Zenon DEF CloseUnregister, bsd, kernel, Goto, PlaceInv
  <2> QED
    BY <1>1, <2>1, <2>2, <2>3, EntryLeaves, Zenon
<1>3. CASE (CloseEnter(c) \/ CloseLockWatches(c) \/ CloseUnlockWatches(c) \/ CloseSignal(c)) /\ UNCHANGED bsd
  <2>1. /\ UNCHANGED <<watches, entry, arg, buf, kq, alive, overlap>>
        /\ pc[c] \in {"enter", "clear", "delete", "signal"}
        /\ pc'[c] \in {"idle", "clear", "delete", "signal", "await"}
        /\ \A h \in Goroutines : h # c => pc'[h] = pc[h]
    BY <1>1, <1>3, Zenon
    DEF CloseEnter, CloseLockWatches, CloseUnlockWatches, CloseSignal, table, bsd, kernel, Goto, PlaceInv
  <2>2. watchesMutex' = watchesMutex \/ (watchesMutex \in {c, Nobody} /\ watchesMutex' \in {c, Nobody})
    BY <1>1, <1>3, Zenon DEF CloseEnter, CloseLockWatches, CloseUnlockWatches, CloseSignal, table, PlaceInv
  <2>3. pc[c] \notin Hot /\ pc'[c] \notin Hot
    BY <2>1 DEF Hot, KeventSteps
  <2>4. \A h \in Goroutines : pc[h] \in Hot => (watchesMutex' = h <=> watchesMutex = h)
    BY <2>2, <2>3, ConstantsAssumption
  <2> QED
    BY <1>1, <2>1, <2>3, <2>4, Aside
<1> QED
  BY <1>2, <1>3 DEF Close

\* The reader's loop, the calls, and the processes.
LEMMA RestFollows ==
  ASSUME BSDInv,
         \/ isDone("poll", "stopped") /\ UNCHANGED bsd
         \/ Poll \/ PollError \/ SendError \/ EndOfEvents \/ HandleEvent \/ Send
         \/ \E c \in Clients : Call(c)
         \/ \E p \in Procs : Process(p)
         \/ StopReceiving /\ UNCHANGED bsd
         \/ MapFault /\ UNCHANGED bsd
         \/ UNCHANGED vars
  PROVE  KqueueInv'
<1>1. TypeOK /\ PlaceInv /\ KqueueInv /\ Reader \in Goroutines
  BY DEF BSDInv, Goroutines
<1> USE DEF table, bsd, kernel
<1>2. ASSUME NEW g \in Goroutines, NEW label, Goto(g, label), pc[g] \notin Hot, label \notin Hot,
             \A h \in Goroutines : h # g => arg'[h] = arg[h],
             UNCHANGED <<watches, watchesMutex, entry, buf, alive, overlap>>, \A p \in alive : kq'[p] = kq[p]
      PROVE  KqueueInv'
  <2>1. pc'[g] = label /\ \A h \in Goroutines : h # g => pc'[h] = pc[h]
    BY <1>1, <1>2, ZenonT(30) DEF Goto, PlaceInv
  <2> QED
    BY <1>1, <1>2, <2>1, Aside, Zenon
<1>3. CASE isDone("poll", "stopped") /\ UNCHANGED bsd
  BY <1>1, <1>2, <1>3 DEF isDone, Hot, KeventSteps
<1>4. CASE Poll
  <2>1. \A p \in alive : kq'[p] = kq[p]
    BY <1>1, <1>4, Zenon DEF Poll, TypeOK
  <2>2. /\ Goto(Reader, "handle") /\ pc[Reader] = "poll"
        /\ UNCHANGED <<watches, watchesMutex, arg, entry, buf, alive, overlap>>
    BY <1>4, Zenon DEF Poll
  <2> QED
    BY <1>1, <1>2, <2>1, <2>2, Zenon DEF Hot, KeventSteps
<1>5. CASE PollError \/ SendError \/ EndOfEvents \/ Send
  BY <1>1, <1>2, <1>5, Zenon DEF PollError, SendError, EndOfEvents, Send, Hot, KeventSteps
<1>6. CASE HandleEvent
  <2>1. PICK label \in {"remove", "send", "handle"} : Goto(Reader, label)
    BY <1>6, Zenon DEF HandleEvent
  <2>2. \A h \in Goroutines : h # Reader => arg'[h] = arg[h]
    BY <1>1, <1>6, Zenon DEF HandleEvent, TypeOK
  <2>3. pc[Reader] = "handle" /\ UNCHANGED <<watches, watchesMutex, entry, buf, alive, overlap, kq>>
    BY <1>6, Zenon DEF HandleEvent
  <2> QED
    BY <1>1, <1>2, <2>1, <2>2, <2>3, Zenon DEF Hot, KeventSteps
<1>7. ASSUME NEW c \in Clients, Call(c) PROVE KqueueInv'
  <2>1. PICK label \in {"check", "remove", "enter"} : Goto(c, label)
    BY <1>7, Zenon DEF Call, CallWatch, CallRemoveWatch, CallClose
  <2>2. \A h \in Goroutines : h # c => arg'[h] = arg[h]
    BY <1>1, <1>7, Zenon DEF Call, CallWatch, CallRemoveWatch, CallClose, TypeOK
  <2>3. c \in Goroutines /\ pc[c] = "idle" /\ UNCHANGED <<watches, watchesMutex, entry, buf, alive, overlap, kq>>
    BY <1>7, Zenon DEF Call, CallWatch, CallRemoveWatch, CallClose, Goroutines
  <2> QED
    BY <1>2, <2>1, <2>2, <2>3, Zenon DEF Hot, KeventSteps
<1>8. ASSUME NEW p \in Procs, Process(p) PROVE KqueueInv'
  <2>1. UNCHANGED <<watches, watchesMutex, entry, buf, overlap, pc, arg>>
    BY <1>8, Zenon DEF Process, Happens, ProcExit, watcherVars, calls
  <2>2. alive' \subseteq alive /\ \A q \in alive' : kq'[q] = kq[q]
    <3>1. CASE ProcExit(p)
      <4>1. alive' = alive \ {p}
        BY <3>1 DEF ProcExit
      <4>2. kq' = kq \/ kq' = [kq EXCEPT ![p] = NoWatch]
        BY <3>1, Zenon DEF ProcExit
      <4> QED
        BY <1>1, <4>1, <4>2, ZenonT(30) DEF TypeOK
    <3>2. CASE Happens(p, "FORK") \/ Happens(p, "EXEC")
      BY <3>2 DEF Happens
    <3> QED
      BY <1>8, <3>1, <3>2, Zenon DEF Process
  <2> QED
    BY <1>1, <2>1, <2>2, Aside, Zenon
<1>9. CASE ((StopReceiving \/ MapFault) /\ UNCHANGED bsd) \/ UNCHANGED vars
  <2>1. UNCHANGED <<watches, watchesMutex, entry, buf, overlap, pc, arg, alive, kq>>
    BY <1>9 DEF StopReceiving, MapFault, vars, watcherVars, calls
  <2> QED
    BY <1>1, <2>1, Aside, ZenonT(30)
<1> QED
  BY <1>3, <1>4, <1>5, <1>6, <1>7, <1>8, <1>9

\* BSDInv is inductive.
LEMMA BSDStep == BSDInv /\ [Next]_vars => BSDInv'
<1> SUFFICES ASSUME BSDInv, [Next]_vars PROVE BSDInv'
  OBVIOUS
<1>1. TypeOK' /\ PlaceInv'
  BY TypeStep DEF BSDInv
<1>2. KqueueInv'
  <2>1. ASSUME NEW g \in Goroutines, kevent(g) PROVE KqueueInv'
    BY <1>1, <2>1, StoreFollows, KeventFollows DEF kevent
  <2>2. Reader \in Goroutines /\ Clients \subseteq Goroutines
    BY DEF Goroutines
  <2>3. CASE ReaderStep
    BY <2>1, <2>2, <2>3, RemoveFollows, RestFollows DEF ReaderStep
  <2>4. ASSUME NEW c \in Clients, Call(c) \/ ClientStep(c) PROVE KqueueInv'
    <3>1. CASE Call(c)
      BY <3>1, RestFollows
    <3>2. CASE ClientStep(c)
      BY <2>1, <2>2, <3>2, RemoveFollows, WatchFollows, CloseFollows DEF ClientStep
    <3> QED
      BY <2>4, <3>1, <3>2
  <2>5. CASE (\E p \in Procs : Process(p)) \/ ((StopReceiving \/ MapFault) /\ UNCHANGED bsd) \/ UNCHANGED vars
    BY <2>5, RestFollows
  <2> QED
    BY <2>3, <2>4, <2>5 DEF Next
<1> QED
  BY <1>1, <1>2 DEF BSDInv

\* What the theorems follow from.
LEMMA BSDInvariant == Spec => []BSDInv
  BY InitBSD, BSDStep, PTL DEF Spec

-----------------------------------------------------------------------------
(* The theorems *)

\* The watcher on a kqueue keeps its types for any clients and processes; with
\* them watchesMutex is free again at the end of every call.
THEOREM BSDTypeCorrect == Spec => []TypeOK
<1>1. BSDInv => TypeOK
  BY Zenon DEF BSDInv
<1> QED
  BY <1>1, BSDInvariant, PTL

\* Watch, RemoveWatch, Close and the reader keep the filters of the kqueue and
\* the watch table together, in any number and any order, as long as no two
\* calls of kevent overlap.
THEOREM KqueueFollows == Spec => []KqueueFollowsTable
<1>1. BSDInv => KqueueFollowsTable
  <2> SUFFICES ASSUME BSDInv, Settled, ~overlap, NEW p \in alive
               PROVE  (Watched(p) <=> kq[p] # NoWatch) /\ (Watched(p) => kq[p] \subseteq watches[p])
    BY DEF KqueueFollowsTable
  <2>1. ~Between(p)
    BY SMTT(30) DEF Between, Removing, Settled
  <2> QED
    BY <2>1, Zenon DEF BSDInv, KqueueInv, FollowInv, Follows
<1> QED
  BY <1>1, BSDInvariant, PTL

-----------------------------------------------------------------------------
(* Refinement of WatcherLifecycle *)

\* A step that leaves the shutdown flags alone is an offer, a take or nothing;
\* a reader that moves has not closed the channels.
LEMMA OfferStep ==
  ASSUME PlaceInv, UNCHANGED <<isClosed, finished, listenerOpen>>,
         pc[Reader] # "stopped" \/ pc'[Reader] = pc[Reader]
  PROVE  [Lifecycle!Next]_<<lifecycleState, pc[Reader] \in {"send", "sendError"}>>
<1>1. lifecycleState' = lifecycleState
  BY SMTT(30) DEF lifecycleState
<1>2. pc[Reader] # "stopped" => lifecycleState \in {"open", "closing"}
  BY DEF lifecycleState, PlaceInv
<1> QED
  BY <1>1, <1>2 DEF Lifecycle!Next, Lifecycle!Offer, Lifecycle!Take

\* Every step of the watcher is one of the abstract lifecycle or none: the
\* first Close begins the shutdown, and the reader closes the channels.
LEMMA StepRefines ==
  ASSUME BSDInv, [Next]_vars
  PROVE  [Lifecycle!Next]_<<lifecycleState, pc[Reader] \in {"send", "sendError"}>>
<1>1. PlaceInv /\ Reader \in Goroutines
  BY Zenon DEF BSDInv, Goroutines
<1> USE DEF lifecycle
<1>2. CASE isDone("poll", "stopped") /\ done
  <2>1. pc'[Reader] = "stopped" /\ pc[Reader] = "isDone"
    BY <1>1, <1>2, Zenon DEF isDone, Goto, PlaceInv
  <2>2. isClosed /\ ~finished /\ listenerOpen
    BY <1>1, <1>2, <2>1 DEF PlaceInv
  <2>3. finished' /\ UNCHANGED <<isClosed, listenerOpen>>
    BY <1>2, Zenon DEF isDone
  <2> QED
    BY <2>1, <2>2, <2>3 DEF lifecycleState, Lifecycle!Next, Lifecycle!CloseChannels
<1>3. CASE isDone("poll", "stopped") /\ ~done
  <2>1. UNCHANGED <<isClosed, finished, listenerOpen>> /\ pc[Reader] # "stopped"
    BY <1>3 DEF isDone
  <2> QED
    BY ONLY <1>1, <2>1, OfferStep
<1>4. CASE Poll \/ PollError \/ SendError \/ EndOfEvents \/ HandleEvent \/ Send
  BY <1>1, <1>4, OfferStep, Zenon DEF Poll, PollError, SendError, EndOfEvents, HandleEvent, Send
<1>5. CASE RemoveWatchLocked(Reader) \/ kevent(Reader)
  BY <1>1, <1>5, OfferStep, Zenon DEF RemoveWatchLocked, kevent, StoreIdent, StoreFlags, StoreFflags, Store, Kevent
<1>6. ASSUME NEW c \in Clients, NEW label, Goto(c, label) PROVE pc'[Reader] = pc[Reader]
  BY <1>1, <1>6, ConstantsAssumption, Zenon DEF Goto, PlaceInv, Goroutines
<1>7. ASSUME NEW c \in Clients, \E label : Goto(c, label), UNCHANGED <<isClosed, finished, listenerOpen>>
      PROVE  [Lifecycle!Next]_<<lifecycleState, pc[Reader] \in {"send", "sendError"}>>
  BY <1>1, <1>6, <1>7, OfferStep, ZenonT(30)
<1>8. ASSUME NEW c \in Clients, Call(c) \/ Watch(c) \/ RemoveWatchLocked(c) \/ kevent(c)
      PROVE  [Lifecycle!Next]_<<lifecycleState, pc[Reader] \in {"send", "sendError"}>>
  <2>1. UNCHANGED <<isClosed, finished, listenerOpen>>
    BY <1>8, Zenon
    DEF Call, CallWatch, CallRemoveWatch, CallClose, Watch, WatchCheck, WatchLookup, WatchOr, WatchInsert,
        RemoveWatchLocked, kevent, StoreIdent, StoreFlags, StoreFflags, Store, Kevent
  <2>2. \E label : Goto(c, label)
    <3>1. CASE Call(c)
      BY <3>1, Zenon DEF Call, CallWatch, CallRemoveWatch, CallClose
    <3>2. CASE Watch(c)
      BY <3>2, Zenon DEF Watch, WatchCheck, WatchLookup, WatchOr, WatchInsert, Return
    <3>3. CASE RemoveWatchLocked(c)
      BY <3>3, Zenon DEF RemoveWatchLocked, Return
    <3>4. CASE kevent(c)
      BY <3>4, Zenon DEF kevent, StoreIdent, StoreFlags, StoreFflags, Store, Kevent, AfterUnregister, AfterRegister, Return
    <3> QED
      BY <1>8, <3>1, <3>2, <3>3, <3>4
  <2> QED
    BY <1>7, <2>1, <2>2
<1>9. ASSUME NEW c \in Clients, Close(c)
      PROVE  [Lifecycle!Next]_<<lifecycleState, pc[Reader] \in {"send", "sendError"}>>
  <2>1. \E label : Goto(c, label)
    BY <1>9 DEF Close, CloseUnregister, CloseEnter, CloseLockWatches, CloseUnlockWatches, CloseSignal
  <2>2. CASE CloseEnter(c) /\ ~isClosed
    <3>1. pc'[Reader] = pc[Reader]
      BY <1>6, <2>1
    <3>2. isClosed' /\ UNCHANGED <<finished, listenerOpen>>
      BY <2>2 DEF CloseEnter
    <3>3. ~isClosed /\ ~finished /\ listenerOpen
      BY <1>1, <2>2, Zenon DEF PlaceInv
    <3> QED
      BY <3>1, <3>2, <3>3, Zenon DEF lifecycleState, Lifecycle!Next, Lifecycle!BeginClose
  <2>3. CASE ~(CloseEnter(c) /\ ~isClosed)
    <3>1. UNCHANGED <<isClosed, finished, listenerOpen>>
      BY <1>9, <2>3 DEF Close, CloseUnregister, CloseEnter, CloseLockWatches, CloseUnlockWatches, CloseSignal
    <3> QED
      BY <1>7, <2>1, <3>1, ZenonT(30)
  <2> QED
    BY <2>2, <2>3, ZenonT(30)
<1>10. CASE (\E p \in Procs : Process(p)) \/ ((StopReceiving \/ MapFault) /\ UNCHANGED bsd) \/ UNCHANGED vars
  <2>1. UNCHANGED <<pc, isClosed, finished, listenerOpen>>
    BY <1>10, Zenon DEF Process, Happens, ProcExit, StopReceiving, MapFault, vars, watcherVars, calls
  <2> QED
    BY <1>1, <2>1, OfferStep
<1> QED
  BY <1>2, <1>3, <1>4, <1>5, <1>8, <1>9, <1>10, Zenon DEF Next, ReaderStep, ClientStep

\* Every behaviour of the watcher on a kqueue is one of the abstract lifecycle:
\* the channels close after Close is called, with nothing offered on them.
THEOREM BSDRefinesLifecycle == Spec => ImplementsLifecycle
<1>1. Init => Lifecycle!Init
  BY DEF Init, NewWatcher, Goroutines, lifecycleState, Lifecycle!Init
<1>2. BSDInv /\ [Next]_vars => [Lifecycle!Next]_<<lifecycleState, pc[Reader] \in {"send", "sendError"}>>
  BY StepRefines
<1> QED
  BY <1>1, <1>2, BSDInvariant, PTL DEF Spec, ImplementsLifecycle, Lifecycle!Spec

=============================================================================
