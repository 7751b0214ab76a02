# A TLA+ model of gosigar

gosigar reads metrics of the host and of its processes (memory, CPU, file
systems, process state, cgroups, sockets) and notifies a program of process
events. What is hard to get right is the code that runs concurrently with the
rest of the program (the process-event watcher, the CPU collector, the two
Windows caches), the getters that ask several questions of a host that changes
in between, the loops that retry or collect, and arithmetic at the edges.

`PROJECT.json` lists the components, the runs, the mutants, the lines every
definition stands for, the hazards and the findings.

## The system and its parts

| part | source | modules | state |
| --- | --- | --- | --- |
| watcher API: Watch, RemoveWatch, Close, isDone, finish | `psnotify/psnotify.go` | `Watcher`, `WatcherLifecycle` | modelled |
| Linux netlink reader | `psnotify/psnotify_linux.go` | `WatcherLinux`, `WatcherHost` | partly: bind and its errors are left out |
| BSD kqueue reader | `psnotify/psnotify_bsd.go` | `WatcherBSD` | modelled |
| Windows watcher | `psnotify/psnotify_windows.go` | none | no state: NewWatcher always fails |
| CPU collector, Cpu.Delta | `concrete_sigar.go`, `sigar_interface.go` | `CpuCollector`, `Collectors` | partly: the other methods are one Get each |
| cgroup reader | `cgroup/*.go` | `CgroupReader`, `BlkioThrottle`, `CgroupStats` | partly: the numbers in the files of cpu, cpuacct and memory are left out |
| Linux /proc getters | `sigar_linux.go`, `sigar_linux_common.go` | `ProcReader`, `MemGetters`, `ArgBuffers`, `CpuCollector` | partly: processes, memory, swap, CPU |
| Darwin, FreeBSD, OpenBSD getters | `sigar_darwin.go`, `sigar_freebsd.go`, `sigar_openbsd.go` | `MemGetters`, `ArgBuffers` | partly: memory, swap, Darwin's arguments |
| Windows getters | `sigar_windows.go`, `sys/windows/*.go` | `WindowsProcess`, `WindowsVersion`, `WindowsCaches`, `WindowsVolumes`, `EnumProcesses`, `MemGetters` | partly: processes, uptime, privileges, volumes, memory |
| inet_diag over netlink | `sys/linux/inetdiag.go`, `netlink.go` | `InetDiag`, `Collectors`, `Formats` | partly: the loop, its errors, the socket key |
| formatting | `sigar_format.go` | `Formats` | partly: sizes, percentages, durations |
| fakes | `fakes/fake_sigar.go` | none | a test double |
| stubs, byte order, generated calls, examples | | none | no state |

The parts interact in two places. A watcher's clients and its reader share the
watch table, and the reader calls back into the API. The other parts share
nothing but the host they look at, so `Getters`, `WindowsHost`, `Collectors`
and `CgroupStats` put them side by side: a behaviour is that of one of their
parts.

## The modules

### Watcher, WatcherLinux, WatcherBSD: the process-event watcher

Any number of client goroutines call `Watch`, `RemoveWatch` and `Close`; one
goroutine runs `readEvents`. They share the map `watches` under
`watchesMutex`, the flag `isClosed` under `closedMutex`, and the channels
`done` (capacity 1) and `breakLoop`.

- `Watcher` has the state and the platform-independent calls. `Watch` and
  `RemoveWatch` take the goroutine as a parameter, because the reader calls
  them too, to follow a fork and to forget a process that exited.
- A critical section that does not block is one step. An access outside the
  mutex is a step of its own: the lookup in `Watch`, the load and the store of
  `flags |= flags`, and the reader's two lookups when it follows a fork.
- Two unsynchronised accesses to a Go map may make the runtime abort the
  program, or not: `MapFault` is that choice, at every write of the table that
  another goroutine's lookup may meet.
- `Close` is seven steps, because it holds `closedMutex` while it clears the
  table, signals the reader and waits for it.
- The entry a goroutine read through a pointer is kept in `entry`. When the
  entry leaves the map the pointer goes stale, and a store through it is lost.
- `WatcherLinux` has the loop of `readEvents` and one action per case of
  `handleEvent`.
- `WatcherBSD` has `register` and `unregister`, which on this platform do
  something, and the reader on a kqueue. All goroutines fill one event buffer,
  so the stores to it and the Kevent that reads it are separate steps, and the
  change that reaches the kernel may be a mixture. The kqueue is external: a
  filter collects the events of its process in one set of flags, and one
  Kevent returns up to `EventsLen` of them (10 in the code). The history
  variable `overlap` records that a kevent began while another goroutine was
  in one, or between its register and the insert of its entry.
- A datagram is a sequence of events; decoding the bytes is left out.

`WatcherLifecycle` is what the watcher promises about its shutdown, with
goroutines, mutexes and the table left out: open, closing, channels closed,
listener released, in that order, nothing offered on a closed channel. Both
readers implement it (`ImplementsLifecycle`).

`WatcherHost` composes the Linux watcher with processes that fork, exec, change
their credentials and exit, and with the socket's queue. When the queue is full
the kernel drops events until the reader has emptied it (`congested`), and the
next Recvfrom returns ENOBUFS once, which the reader sends on the channel of
errors. History variables record which
events the application has been promised (`owed`), what was dropped (`lost`,
`missed`), and that a drop has not been reported yet (`unreported`).

### CpuCollector, InetDiag, composed in Collectors

`CpuCollector` is `CollectCpuStats`: a goroutine that samples a wrapping
counter at each tick, offers the difference on a channel of capacity 1, drops
it when the channel is full, and stops on request. `Get` may fail, which leaves
the old reading in place, as in the code. One counter stands for the eight of
`Cpu`, which `Delta` treats alike.

`InetDiag` is `NetlinkInetDiagWithBuf`: the request, the loop over datagrams
and over the messages of each, DONE and ERROR, and every error return, that for
a message too short for what it should hold among them. The kernel walks its
table of sockets once, while sockets open and close, and puts any number of
messages up to a bound into a datagram. That a socket keeps its place in the
table meanwhile is an idealisation of the kernel. A datagram that does not fit
the buffer loses its end, which may be the DONE; `cut` records it.

`DumpReturns` and `SamplingGoesOn` are the liveness of the two parts, each in
the behaviours of its own part.

### CgroupReader, BlkioThrottle, composed in CgroupStats

`CgroupReader` follows `NewReader` and `GetStatsForProcess` from the mount
table to the last file. Looking up the paths is one step; opening a file and
reading it are two, because a cgroup removed in between gives ENODEV, which
fails the call, while one removed before gives ENOENT, which the code takes for
a zero. Any other failure to open or to read fails the call and drops what it
had. The files of a subsystem are numbered in the order the code reads them;
`Absent` are those this kernel does not have. The host moves the process, lets
it exit, removes and makes cgroups and unmounts hierarchies. A value is the
directory, and the life of that directory, that it was read in. Two facts of
the kernel are assumed: a cgroup with a process in it is not removed, and
`/proc/[pid]/cgroup` is one snapshot.

`BlkioThrottle` follows `blkioThrottle`: six files merged into one table of
devices while I/O goes on and limits change. A file may be missing, which the
code takes for an empty one, or fail, which it passes on.

### ProcReader, MemGetters, ArgBuffers, Formats, composed in Getters

- `ProcReader`: the getters of a Linux process. Opening and reading a file are
  two steps, between which the process may exec, change its user, exit, be
  reaped, or be replaced by another with the same pid. The stat file is a
  sequence of words into which the command name goes as it is, so the model
  finds the fields the way the code does. The receiver may have been used
  before: every field remembers whether it is of this call. A Get that fails
  leaves in it what it had stored by then.
- `MemGetters`: `Mem.Get` and `Swap.Get` of five systems. Each question to the
  kernel is a step, pages move in between, and the fields are computed in
  unsigned words. OpenBSD's table of swap devices is summed up into the
  receiver, in kilobytes, as there.
- `ArgBuffers`: how buffers of NUL-terminated strings are taken apart: cmdline
  and environ, Darwin's argument area, the string lists of Windows. A string is
  a short sequence over a few characters, because the properties are about
  where it is cut.
- `Formats`: `FormatSize`, `UsePercent`, `Uptime.Format`, `FormatTotal` and
  `FastHash`, as the numbers that appear in their results. `UsePercent`
  divides and multiplies in floating point: `Float64` rounds each result to
  `Bits` bits, ties to even. `FastHash` is the bytes it writes, in order, under
  any function `Sum64` in the place of FNV-1.

### The Windows modules, composed in WindowsHost

- `EnumProcesses`: the retry loop with arrays of 2048 to 32768 ids, while the
  number of processes changes between the tries.
- `WindowsProcess`: ProcState, ProcMem, ProcTime and ProcArgs. Each helper
  opens the pid again, so the fields may be of several processes. The rights it
  asks for depend on the version (`WindowsVersion`), and the access list of the
  process decides whether it gets them. Handle and token are state, so that
  each failing call shows what it leaves open.
- `WindowsCaches`: the boot time and the privilege names, each looked up once
  under a mutex by any of several goroutines.
- `WindowsVolumes`: `FileSystemList.Get`, which asks for the length of a list
  and then for the list, while volumes are mounted and unmounted.

## The runs

| run | expects | shows |
| --- | --- | --- |
| `linux_watcher` | pass | Two clients, a reader that follows forks, any order of calls: shutdown implements `WatcherLifecycle`, and late watches are bounded by the goroutines. Under fairness every call returns while the application receives; the deadlock below is the only exception. |
| `host_follow` | pass | No event of a watched process or a followed descendant is filtered out, before or after a loss; only a lost exit leaves an entry that asks for EXIT; a loss is reported before the next event. |
| `bsd_watcher` | pass | The kqueue follows the table as long as no two calls of kevent overlap; `watchesMutex` is released on every path; shutdown keeps to `WatcherLifecycle`. |
| `cgroup_stats` | pass | A result never mixes two cgroups of a subsystem; a subsystem that the host left alone is complete whatever happened to the others; the common path is right in any map order. Of blkio: totals are the kernel's own; an operation whose bytes are reported is itself reported; a limit is one the device had. |
| `collectors` | pass | A dump that fits the buffer is complete, every dump is sound, the kernel's errno is the caller's, and the call returns unless a datagram is cut. Samples received, waiting and dropped add up to the last reading across wraps and failed readings; they keep coming; a stop request is served. |
| `getters` | pass | Fields land where they belong and are of this call; a process that lives is read and an absent one is ESRCH; memory adds up; arguments, lists, sizes, percentages, durations and socket keys agree with reference definitions; a percentage is within one unit in the last place of a whole one. |
| `windows_host` | pass | A process is missed only beyond 32768 of them; no value of an earlier call survives; both caches are used by one goroutine at a time and serve all of them; mounted volumes are listed. |
| `linux_close_deadlock` | violation | Close waits with `closedMutex` held for a reader that waits for `closedMutex`. |
| `linux_map_fault` | violation | The program in `psnotify/README.md` can race on the map. |
| `linux_flag_loss` | violation | A Watch of a child and the Watch that follows its fork both find no entry; the later insert drops the flags of the earlier. |
| `cgroup_colon` | violation | A cgroup whose path has a colon is left out. |
| `windows_enum_limit` | violation | A comment promises 65536 ids, five tries end at 32768. |

Every property of a passing run has a mutant: the operator marked "Variant:"
before a definition is a plausible mistake in that code, and breaks the
property. Some properties are the conjunction of several that say the same of
different code: `CallsReturn`, `WindowsCallsReturn`, `ErrorsAreRight`,
`SuccessIsOfThisCall`, `MemoryAddsUp`, `StringsSurvive` and `ConversionsAgree`.
Their mutant breaks one conjunct.

What is proved for every instance and follows from a property that a run
checks, or only serves its proof, is left to the proofs: `TypeOK` of the Linux
watcher and of inet_diag, `CpuTypeOK`, `ShutdownInv`, `ListenerOutlivesReader`,
`SignalNeverBlocks`, `NoSendOnClosedChannel`, `FirstSendNeverBlocks` and
`TriesInv`.

### Further disagreements

The first four are seen by checking one property with the constants given; none
is a listed run.

- `OwedEventsAreSent`, with `HostFollow.cfg` and UID added to `KernelEvents`
  and to the flag sets: a change of uid, gid or sid removes the watch of a
  process that lives on.
- `OwedEventsAreSent` with `WatchKeys = {p1, any}` in `HostFollow.cfg`: an
  entry for a pid hides the entry of -1.
- `ClosedTableEmpty`, with the constants of `LinuxMapFault.cfg`: a `Watch` that
  has passed its test inserts after `Close` emptied the table, although
  `psnotify.go:98` says Close "removes all watches". `LateWatchesBounded` is
  the bound that does hold.
- `CloseCompletes`, with the constants of `LinuxCloseDeadlock.cfg`, `Received =
  {"Fork", "Exec", "Exit", "Error"}`, all six flags and the datagrams
  `Credentials`: the consumer of `psnotify/README.md` never receives from Uid
  and Sid, so the reader and then Close hang.

The rest are visible in the definitions, and the properties name them as
exceptions or leave them out:

- BSD watcher: the reader never closes `breakLoop`, so Close never returns
  (`psnotify_bsd.go:63`). A second Watch of a pid adds to the entry but not to
  the filter. The reader handles one flag of an event, so an exit merged with a
  fork leaves the entry. Calls that overlap share the buffer.
- Linux watcher: the exit of one thread ends the watch of its process
  (`psnotify_linux.go:246`); a failing bind leaks the socket.
- Linux getters: a command name with a blank shifts the fields of ProcTime and
  ProcMem. ProcMem reports as the minor and major faults of the process those
  of its children (`sigar_linux_common.go:245-246`, fields cminflt and
  cmajflt). ProcEnv keeps what it finds in its map.
- Memory: on FreeBSD and OpenBSD pages that move between two answers can make
  a difference wrap. OpenBSD returns nil when the kernel refuses, and its Swap
  adds to what the receiver holds, in kilobytes where the others have bytes.
- Darwin: an empty first argument passes for padding; `kern_procargs` returns
  nil when the system call fails.
- Windows: getProcCredName leaves its token open when GetTokenUser fails,
  although a comment there says "Close token to prevent handle leaks."; a
  failing getParentPid leaves 63, the code of '?', in Ppid; ProcState may mix
  two processes that had the pid in turn; ProcArgs keeps an old list when there
  is no command line; FileSystemList appends to its receiver.
- inet_diag: a datagram cut off before its DONE makes the call wait for ever.
  The texts of `NetlinkErrno` are those of libnl's numbering, not of errno.
- Formatting: `FormatTotal` drops whole days. `UsePercent` returns
  28.999999999999996 where the whole percentage is 29.
- cgroups: `cpuacct.go:111` multiplies before it divides and wraps.
- Fakes: the stop channel of the fake collector is never read.

## Bounds

- `linux_watcher`: two clients, two pids and -1, datagrams of at most two
  messages. Every race found needs two goroutines and one pid; a second client
  adds the second `Close` and the lost update.
- `host_follow`: three processes, so that a child has a child; a queue of one
  and at most two losses (`MaxLosses`), so that one loss can follow the report
  of another. A queue of two with one loss has been checked as well. The two
  processes other than the program itself are symmetric.
- `bsd_watcher`: two symmetric clients and one process, which is enough for
  every mixture in the buffer of two calls; one process has one event at a
  time, so `EventsLen` is 1.
- `linux_flag_loss`, `linux_map_fault`: one client, one fork.
- `cgroup_stats`: two hierarchies, one with two subsystems, two paths, three
  lives; two files of cpu and of cpuacct, the first of cpu not in this kernel,
  and one of blkio; five mount tables (a second, partial mount before or after
  the whole one, a mount outside the root file system, a malformed line).
  `MaxLife` lets a cgroup be removed and made again during a call. The memory
  subsystem is read like the others and is not mounted in this instance.
  `IgnoreRootCgroups` is FALSE in the passing run and TRUE in `cgroup_colon`.
  Of blkio: two symmetric devices, two I/Os, limits 0 or 1, one in bytes and
  one in operations, and a kernel with all or with none of the six files.
- `collectors`: four sockets, datagrams of up to three messages, a buffer of
  two: datagrams below, at and above the size of the buffer. Words of 16 for
  the errno. A CPU counter of four values, so that it wraps within a few
  samples.
- `getters`: two lives of the pid, two users, the command names "", "a)", "a a"
  and "a) ("; three pages and two swap pages in words of 16; strings of a few
  characters, cut at every length; sizes next to every change of unit. Floats
  of 13 bits have the same inexact percentages as those of 53; a hash of three
  values makes many sockets share one.
- `windows_host`: the real array sizes with the counts 0, 1 and those at and
  next to each size; three lives of the pid; three goroutines, three
  overlapping lists of two privileges, two boot times; two volumes with up to
  two paths, two calls of Get.

`CHECK_DEADLOCK` is on for the collectors and the cgroup runs. It is off where
the system may stop for good: a watcher that the runtime aborted, that is
closed or is in the deadlock of `linux_close_deadlock`; parts of `getters` and
of the Windows runs that make one conversion or a bounded number of calls. No
symmetry is used with liveness.

## Fairness

- Watcher: strong fairness for the reader and for each client's call in
  progress. Go runs every runnable goroutine in the end, and its mutex does not
  starve a waiter. For the reader this includes that `Recvfrom` returns again,
  which needs some process on the host to fork, exec or exit. No one has to
  call anything.
- Collector: weak fairness for the goroutine and the ticker; strong fairness
  for the stop case, because `select` picks at random among the ready cases.
- InetDiag: weak fairness for the caller and the dump it reads; nothing makes
  Recvfrom fail or other programs act.
- Windows: weak fairness for the retry loop; strong fairness for each caller
  inside a cached Get, again because of the mutex.
- `cgroup_stats`, `bsd_watcher`, `host_follow` and `getters` safety only,
  without fairness.

## The proofs

The proofs hold for every value of the constants that the named assumptions
allow, so for any number of goroutines, pids, sockets and datagrams.

- `WatcherLinuxProofs`, from `ConstantsAssumption` and `LinuxAssumption`:
  `TypeCorrect`, `ShutdownCorrect`, `ListenerSafe`, `SignalSafe`, `SendSafe`
  and `RefinesLifecycle`. None of the last four is inductive: that the listener
  is closed after the reader has stopped depends on who holds `closedMutex`,
  where the `done` message is and whether the channels are closed.
  `ShutdownInv` ties these together and, with `TypeOK`, is inductive. Lemma
  `QuietStep` disposes of the steps that leave the shutdown state alone; the
  steps of Close, isDone and the close of `breakLoop` are taken one by one. The
  refinement maps every step to a step of `WatcherLifecycle` or to a stutter.
- `CpuCollectorProofs`, from `ModulusAssumption`: `SamplesCorrect` and
  `FirstSendCorrect`, for every width of the counter. They rest on lemmas on
  addition and subtraction modulo the width.
- `InetDiagProofs`, from `DumpAssumption`: `TypeCorrect`, `DumpIsComplete`,
  `DumpIsSound` and `ErrorsCorrect`. Completeness is not inductive: between two
  datagrams a socket that stays is either collected, in the batch in hand, or
  ahead of the kernel's cursor. `DumpInv` says this (`WalkInv`), keeps what is
  collected below what is to come (`OrderInv`), and ties DONE to a cursor at
  the end of the table and the error to the kernel's answer (`EndInv`).
- `WindowsHostProofs`, from `CountsAssumption`, `MaxLivesAssumption`,
  `CachesAssumption` and `VolumesAssumption`: each part of the host has an
  invariant of its own, which the steps of the other parts leave alone.
  `EnumComplete` rests on `TriesInv`, which ties the size of the array to the
  try. `BootTimeCorrect`, `CachesGuarded` and `PrivilegesCorrect` rest on
  `CacheInv`: who is inside the critical section, that WMI is asked only while
  the boot time is nil, and that a list under construction is a first part of
  the names. `FieldsAreOfThisCall` rests on `ProcInv`: an open handle is for
  the process that has the pid, which no other can get meanwhile; a token
  outlives its helper only when that failed; each helper that has run has
  failed or has left a life between the beginning of the call and now, and a
  later helper's life is no earlier. `VolumesAreListed` rests on `VolInv`: in
  the loop over the volumes the paths are those of volumes before the loop's,
  in order, and no volume mounted throughout is missing; what the call has
  appended is a first part of them.
- `ProcReaderProofs`, from `ProcAssumption`: what the getters of a process take
  out of the stat file. `StatOfAnyName` says that ProcState, which looks for
  the last parenthesis, finds the name and its words whatever the name;
  `TimesOfNameWithoutBlank` that ProcTime, which counts words from the front,
  finds its own if the name has no blank. `ReaderInv` is the inductive
  invariant of a call: the fields of the files already read are of this call
  and hold their own words, and the history knows whether the pid had a
  process.
- `NumberProofs`, from `MemAssumption` and `FormatsAssumption`: `MemInv`, in
  which the answers fit together if they came at once or no page has moved and
  the questions left are an end of the getter's list, and the lemmas on the
  conversions. `SizeRight` bounds the error of a printed size by the rounding
  of its unit, `SizesGrow` keeps printed sizes in the order of the sizes,
  `RoundUpFacts` is about percentages, `TimesAddUp` about the two times,
  `HashTellsApart` about the key of a socket.
- `GettersProofs`, from these and `GettersAssumption`: `GettersTypeCorrect`,
  `FieldsAreRight`, `SuccessIsCurrentAlways`, `MemoryAddsUpAlways`,
  `ErrorsAreRightAlways` and `ConversionsAgreeAlways`, for any command names,
  users, lives, sizes of memory and of words, and any samples to convert.
  `SuccessIsCurrentAlways` is about every getter but ProcEnv and OpenBSD's two.
  `MemoryAddsUpAlways` says that the parts add up modulo the word, and that
  none wraps in a fresh receiver if the changing numbers come in one answer or
  no page moves between two; for FreeBSD and OpenBSD with pages moving only the
  first remains. `ConversionsAgreeAlways` is about the bytes that are hashed,
  not the hash, and about the floating-point form of the least covering
  percentage, not its distance from that. `ErrorsAreRight` is an action
  property: a step in which a call fails starts from a state in which the
  process was not there or not to be read.
- `WatcherBSDProofs`, from `ConstantsAssumption` and `BSDAssumption`:
  `BSDTypeCorrect`, `KqueueFollows` and `BSDRefinesLifecycle`. That the kqueue
  follows the table is not inductive, since each call changes them one after
  the other. `BSDInv` says where goroutines may be (`PlaceInv`); that a call
  under way owns the buffer, so that the kernel sees its own change
  (`BufferInv`); that no one inserts an entry while another removes it
  (`RemovedInv`); and that a process without such a call in progress has a
  filter exactly when it has an entry (`FollowInv`).

Only model-checked:

- everything about liveness under fairness, which is beyond the prover;
- `LateWatchesBounded` and the properties of `WatcherHost`;
- `PercentIsNear`, which needs the rounding of two operations for every size;
- `CgroupReader` and `BlkioThrottle`, whose results are folds over lines and
  devices, and `StringsSurvive`, which is about a recursive decoding of a
  sequence: what these compute for every input needs an induction over data.

## Not modelled, and why

- Bytes on the wire and in structs: netlink headers, struct layouts. The models
  start from the decoded message.
- The numbers in the files of cpu, cpuacct and memory, and the parsing of a
  number (`parseUint`).
- A cgroup mounted by name (`name=blkio`), which could shadow the subsystem.
- Threads, and failures of bind, in the Linux watcher.
- Getters that parse one file or convert the result of one system call: load
  average, uptime (but for Windows), CPU lists, FD and huge-page counts, file
  system usage, process lists (but for Windows), rusage. There is no state
  between their steps and nothing to interleave.
- The fakes: the fake collector passes on what a test gives it.
- Generated code, vendored code, stubs and the example programs.
