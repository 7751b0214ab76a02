---------------------------- MODULE BlkioThrottle ----------------------------
(***************************************************************************)
(* blkioThrottle (cgroup/blkio.go): six files of a blkio cgroup are read   *)
(* one after the other into one table of devices, while the processes of   *)
(* the cgroup do I/O and an administrator changes the limits.              *)
(*                                                                         *)
(* Every I/O moves one unit of bytes, so that the kernel counts the same   *)
(* number in both of its statistics files; they differ in a result only    *)
(* because they are read at different times.  A file is one snapshot.      *)
(***************************************************************************)
EXTENDS Naturals, Sequences, FiniteSets, SequencesExt, FiniteSetsExt

CONSTANTS Devices,          \* device IDs
          Kernels,          \* the sets of files that a kernel may not have
          Tuned,            \* the limits that the administrator changes
          MaxIO,            \* bound on the number of I/Os
          MaxLimit          \* the limits are 0 (none) to MaxLimit

StatFiles == <<"io_service_bytes", "io_serviced">>

LimitFiles == <<"read_bps_device", "write_bps_device",
                "read_iops_device", "write_iops_device">>

\* The field of a ThrottleDevice that each limit file is read into.
LimitField == [read_bps_device |-> "ReadLimitBPS", write_bps_device |-> "WriteLimitBPS",
               read_iops_device |-> "ReadLimitIOPS", write_iops_device |-> "WriteLimitIOPS"]

Files == StatFiles \o LimitFiles

ASSUME BlkioAssumption ==
  /\ MaxIO \in Nat /\ MaxLimit \in Nat
  /\ Kernels \subseteq SUBSET ToSet(Files) /\ Tuned \subseteq ToSet(LimitFiles)

Ops == {"read", "write", "sync", "async"}

NoOps == [op \in Ops |-> 0]

VARIABLES
  lacks,            \* kernel: the files it does not have
  io,               \* kernel: the I/Os of each device, by operation
  limit,            \* kernel: the limits of each device, by file
  had,              \* history: the limits a device had since the call began
  next,             \* index in Files of the file to read, or beyond
  devices,          \* the table: DeviceID -> ThrottleDevice
  total,            \* Throttle.TotalBytes and TotalIOs
  kernelTotal       \* history: the last line, "Total n", of each stat file

disks == <<lacks, io, limit>>
blkioVars == <<disks, had, next, devices, total, kernelTotal>>

NewDevice == [Bytes |-> NoOps, IOs |-> NoOps, ReadLimitBPS |-> 0, WriteLimitBPS |-> 0,
              ReadLimitIOPS |-> 0, WriteLimitIOPS |-> 0]

SetsOf(l) == [d \in Devices |-> [f \in ToSet(LimitFiles) |-> {l[d][f]}]]

BlkioInit ==
  /\ lacks \in Kernels
  /\ io = [d \in Devices |-> NoOps]
  /\ limit = [d \in Devices |-> [f \in ToSet(LimitFiles) |-> 0]]
  /\ had = SetsOf(limit)
  /\ next = 1
  /\ devices = <<>>
  /\ total = [Bytes |-> 0, IOs |-> 0]
  /\ kernelTotal = [Bytes |-> 0, IOs |-> 0]

-----------------------------------------------------------------------------
(* What the files say (external).  A device is listed in the statistics    *)
(* once it has done I/O, and in a limit file while it has that limit.      *)

Line(d, op, v) == [device |-> {d}, op |-> op, value |-> v]

Sum(f(_), S) == MapThenSumSet(f, S)

DeviceTotal(d) == io[d]["read"] + io[d]["write"]

DeviceLines(d) ==
  << Line(d, "read", io[d]["read"]), Line(d, "write", io[d]["write"]),
     Line(d, "sync", io[d]["sync"]), Line(d, "async", io[d]["async"]),
     Line(d, "total", DeviceTotal(d)) >>

StatLines(order) ==
  FlattenSeq([i \in DOMAIN order |-> DeviceLines(order[i])])
    \o << [device |-> {}, op |-> "total", value |-> Sum(DeviceTotal, Devices)] >>

LimitLines(f, order) ==
  [i \in DOMAIN order |-> Line(order[i], "", limit[order[i]][f])]

-----------------------------------------------------------------------------
(* The reader. *)

\* Variant: every line counts, also the last one, which has no device.
readAllValues(lines) ==
  [i \in DOMAIN lines |-> IF lines[i].device = {} /\ i > 1
                          THEN [lines[i] EXCEPT !.device = lines[i - 1].device,
                                                !.op = "read"]
                          ELSE lines[i]]

\* Valid lines start with a device ID.
readBlkioValues(lines) == SelectSeq(lines, LAMBDA v : v.device # {})

DevicesOf(values) == UNION {values[i].device : i \in DOMAIN values}

\* The operations of each device; "total" is not one of them.
collectOpValues(values) ==
  [d \in DevicesOf(values) |->
     FoldLeft(LAMBDA ops, v : IF v.device = {d} /\ v.op \in Ops
                              THEN [ops EXCEPT ![v.op] = v.value] ELSE ops,
              NoOps, values)]

getDevice(d) == IF d \in DOMAIN devices THEN devices[d] ELSE NewDevice

\* The table with field set for the devices of vals.
Update(field, vals) ==
  [d \in DOMAIN devices \cup DOMAIN vals |->
     IF d \in DOMAIN vals THEN [getDevice(d) EXCEPT ![field] = vals[d]] ELSE devices[d]]

\* Variant: the two statistics files are read in the other order.
StatSwapped == <<"IOs", "Bytes">>

\* The field that each of the statistics files is read into, in order.
StatField == <<"Bytes", "IOs">>

ReadStat ==
  /\ next <= Len(StatFiles)
  /\ IF Files[next] \in lacks
     THEN UNCHANGED <<devices, kernelTotal>>
     ELSE \E order \in SetToSeqs({d \in Devices : DeviceTotal(d) > 0}) :
            LET lines == StatLines(order)
            IN  /\ devices' = Update(StatField[next], collectOpValues(readBlkioValues(lines)))
                /\ kernelTotal' = [kernelTotal EXCEPT ![StatField[next]] = Last(lines).value]
  /\ next' = next + 1
  /\ UNCHANGED <<disks, had, total>>

\* Variant: two of the limits are mixed up.
FieldMixed(f) ==
  IF f = "write_iops_device" THEN "WriteLimitBPS" ELSE LimitField[f]

FieldOf(f) == LimitField[f]

ReadLimit ==
  /\ next \in Len(StatFiles) + 1 .. Len(Files)
  /\ IF Files[next] \in lacks
     THEN UNCHANGED devices
     ELSE \E order \in SetToSeqs({d \in Devices : limit[d][Files[next]] > 0}) :
            LET values == readBlkioValues(LimitLines(Files[next], order))
            IN  devices' = Update(FieldOf(Files[next]),
                             [d \in DevicesOf(values) |->
                                FoldLeft(LAMBDA x, v : IF v.device = {d} THEN v.value ELSE x,
                                         0, values)])
  /\ next' = next + 1
  /\ UNCHANGED <<disks, had, total, kernelTotal>>

\* A file that cannot be opened or read, or does not parse, fails the call.
ReadFails ==
  /\ next <= Len(Files)
  /\ next' = Len(Files) + 3
  /\ UNCHANGED <<disks, had, devices, total, kernelTotal>>

\* The loop over the table that adds up the totals.
AddUp ==
  /\ next = Len(Files) + 1
  /\ LET bytes(d) == devices[d].Bytes["read"] + devices[d].Bytes["write"]
         ios(d) == devices[d].IOs["read"] + devices[d].IOs["write"]
     IN  total' = [Bytes |-> Sum(bytes, DOMAIN devices), IOs |-> Sum(ios, DOMAIN devices)]
  /\ next' = next + 1
  /\ UNCHANGED <<disks, had, devices, kernelTotal>>

\* The next call, with a new BlockIOSubsystem.
Again ==
  /\ next > Len(Files) + 1
  /\ next' = 1
  /\ devices' = <<>>
  /\ total' = [Bytes |-> 0, IOs |-> 0]
  /\ kernelTotal' = [Bytes |-> 0, IOs |-> 0]
  /\ had' = SetsOf(limit)
  /\ UNCHANGED disks

-----------------------------------------------------------------------------
(* The processes and the administrator (external). *)

\* The kernel counts every read as synchronous.
DoIO(d, op, mode) ==
  /\ op = "read" => mode = "sync"
  /\ Sum(DeviceTotal, Devices) < MaxIO
  /\ io' = [io EXCEPT ![d][op] = @ + 1, ![d][mode] = @ + 1]
  /\ UNCHANGED <<lacks, limit, had, next, devices, total, kernelTotal>>

SetLimit(d, f, v) ==
  /\ v # limit[d][f]
  /\ limit' = [limit EXCEPT ![d][f] = v]
  /\ had' = [had EXCEPT ![d][f] = @ \cup {v}]
  /\ UNCHANGED <<lacks, io, next, devices, total, kernelTotal>>

Users ==
  \/ \E d \in Devices, op \in {"read", "write"}, mode \in {"sync", "async"} : DoIO(d, op, mode)
  \/ \E d \in Devices, f \in Tuned \ lacks, v \in 0 .. MaxLimit : SetLimit(d, f, v)

BlkioNext == ReadStat \/ ReadLimit \/ ReadFails \/ AddUp \/ Again \/ Users

-----------------------------------------------------------------------------
(* Properties. *)

Done == next = Len(Files) + 2

\* The totals of a result (blkio.go 180-184) are those the kernel gives on the
\* last line of each file, which the code does not read: no device is counted
\* twice or lost, and neither are the "Total" lines added in.
TotalsAgree == Done => total = kernelTotal

\* The byte counts are read before the operation counts, so an operation whose
\* bytes are in a result is itself in it, also while I/O goes on.
BytesAreOfCountedIOs ==
  Done => \A d \in DOMAIN devices, op \in Ops :
    devices[d].Bytes[op] <= devices[d].IOs[op] /\ devices[d].IOs[op] <= io[d][op]

\* A limit in a result is one the device had, of that kind, during the call;
\* a device not in the result had, at some time of the call, no limit.
LimitsAreReal ==
  Done => \A d \in Devices : \A f \in ToSet(LimitFiles) \ lacks :
    IF d \in DOMAIN devices THEN devices[d][LimitField[f]] \in had[d][f]
                            ELSE 0 \in had[d][f]

=============================================================================
