---------------------------- MODULE CgroupReader ----------------------------
(***************************************************************************)
(* cgroup/reader.go and the readers it calls: NewReader finds out where    *)
(* the cgroup hierarchies are mounted, GetStatsForProcess looks up the     *)
(* cgroups of a process and reads their files one by one, while the host   *)
(* moves the process, removes and creates cgroups and unmounts             *)
(* hierarchies.                                                            *)
(*                                                                         *)
(* A hierarchy is the set of subsystems mounted together; a cgroup is a    *)
(* directory of a hierarchy, at a path.  A directory that is removed and   *)
(* made again has a new life.  Neither the names of the files nor the      *)
(* numbers in them matter here: the files of a subsystem are numbered in   *)
(* the order in which its get method reads them, a value is the directory, *)
(* and the life of it, that it was read in, and a file that is not there   *)
(* counts as zero, as in the code.                                         *)
(***************************************************************************)
EXTENDS Naturals, Sequences, FiniteSets, SequencesExt

CONSTANTS Hierarchies,      \* a partition of the enabled subsystems
          Paths,            \* cgroup paths
          Root,             \* the path "/"
          Colons,           \* the paths with a ":" in them
          MountTables,      \* contents of mountinfo: sequences of mounts
          FileCounts,       \* how many files each subsystem is read from
          Absent,           \* the files, <<subsystem, number>>, this kernel does not have
          IgnoreRootCgroups,
          MaxLife           \* bound on the lives of a directory

\* The subsystems GetStatsForProcess reads, in order.
Interested == <<"blkio", "cpu", "cpuacct", "memory">>

Subsystems == ToSet(Interested)

Nowhere == [point |-> "none"]

Differ == "differ"          \* the paths met so far are not all the same

ASSUME CgroupAssumption ==
  /\ Hierarchies \subseteq SUBSET Subsystems
  /\ \A g, h \in Hierarchies : g # h => g \cap h = {}
  /\ Root \in Paths /\ Colons \subseteq Paths \ {Root}
  /\ "" \notin Paths /\ Differ \notin Paths
  /\ FileCounts \in [Subsystems -> Nat \ {0}]
  /\ IgnoreRootCgroups \in BOOLEAN
  /\ MaxLife \in Nat

VARIABLES
  alive,            \* the process exists
  member,           \* its path in each hierarchy
  life,             \* of each directory of each hierarchy; it exists when odd
  mountinfo,        \* the mounts in place, in order
  pc,
  supported,        \* NewReader: the result of SupportedSubsystems
  mountpoints,      \* r.cgroupMountpoints: the mount of a subsystem, or Nowhere
  paths,            \* the path of each subsystem of /proc/[pid]/cgroup
  mounts,           \* the subsystems still to read, in order
  metadata,         \* Stats.Metadata.Path
  file,             \* the file of Head(mounts) to read next
  opened,           \* hierarchy, path and life of the open file's directory
  values,           \* for each subsystem the values read, and the zeros
  err,              \* why the call failed, or ""
  left              \* history: the hierarchies whose cgroup the process has
                    \*   left, by a move or its exit, since the call began

host == <<alive, member, life, mountinfo>>
reader == <<supported, mountpoints>>
call == <<paths, mounts, metadata, file, opened, values, err>>
vars == <<host, pc, reader, call, left>>

Exists(h, p) == life[h][p] % 2 = 1

HierarchyOf(s) == CHOOSE h \in Hierarchies : s \in h

NoValues == [s \in Subsystems |-> [seen |-> {}, zero |-> {}]]

Init ==
  /\ alive = TRUE
  /\ member \in [Hierarchies -> Paths]
  /\ life = [h \in Hierarchies |->
               [p \in Paths |-> IF p \in {Root, member[h]} THEN 1 ELSE 0]]
  /\ mountinfo \in MountTables
  /\ pc = "new"
  /\ supported = {}
  /\ mountpoints = [s \in Subsystems |-> Nowhere]
  /\ paths = <<>>
  /\ mounts = <<>>
  /\ metadata = ""
  /\ file = 1
  /\ opened = <<>>
  /\ values = NoValues
  /\ err = ""
  /\ left = {}

-----------------------------------------------------------------------------
(* NewReader. *)

\* The enabled subsystems of /proc/cgroups.  An error, ErrCgroupsMissing among
\* them, fails NewReader.
SupportedSubsystems ==
  /\ pc = "new"
  /\ \/ supported' = UNION Hierarchies /\ pc' = "mounts"
     \/ UNCHANGED <<supported, pc>>
  /\ UNCHANGED <<host, mountpoints, call, left>>

\* Variant: the options of a mount are not looked at.
AnyCgroupMount(m, s) == m.type = "cgroup" /\ m.underRootfs

Relevant(m, s) == m.type = "cgroup" /\ m.underRootfs /\ s \in m.options

\* The first mount in the table that lists the subsystem among its options.
MountOf(s) ==
  LET found == SelectSeq(mountinfo, LAMBDA m : Relevant(m, s))
  IN  IF found = <<>> THEN Nowhere ELSE Head(found)

\* A line that parseMountinfoLine rejects fails NewReader, and so does a
\* mountinfo that cannot be opened or read to its end.
SubsystemMountpoints ==
  /\ pc = "mounts"
  /\ \/ /\ \A i \in DOMAIN mountinfo : mountinfo[i].wellFormed
        /\ mountpoints' = [s \in Subsystems |->
                             IF s \in supported THEN MountOf(s) ELSE Nowhere]
        /\ pc' = "ready"
     \/ pc' = "new" /\ UNCHANGED mountpoints
  /\ UNCHANGED <<host, supported, call, left>>

-----------------------------------------------------------------------------
(* GetStatsForProcess. *)

\* The lines of /proc/[pid]/cgroup that split into three at the colons.
ProcessCgroupPaths ==
  [s \in {t \in UNION Hierarchies : member[HierarchyOf(t)] \notin Colons} |->
     member[HierarchyOf(s)]]

Wanted(ps, s) ==
  /\ s \in DOMAIN ps
  /\ ~(ps[s] = Root /\ IgnoreRootCgroups)
  /\ mountpoints[s] # Nowhere

\* Variant: the loop does not stop at a path that differs.
FirstPath(ps, order) ==
  FoldLeft(LAMBDA path, s : IF path = "" THEN ps[s] ELSE path, "", order)

\* getCommonCgroupMetadata over the mounts in the order the map yields them.
CommonPath(ps, order) ==
  LET path == FoldLeft(LAMBDA p, s : IF p = "" THEN ps[s]
                                     ELSE IF p = ps[s] THEN p ELSE Differ,
                       "", order)
  IN  IF path = Differ THEN "" ELSE path

\* The call returns an error, and no result.
Fail(why) ==
  /\ pc' = "error" /\ err' = why
  /\ mounts' = <<>> /\ metadata' = "" /\ file' = 1
  /\ opened' = <<>> /\ values' = NoValues

\* Reads /proc/[pid]/cgroup, builds the mounts and their metadata.  With no
\* mounts the result is nil.  The file is gone with the process; it may also
\* not be read to its end.
GetStatsForProcess ==
  /\ pc \in {"ready", "ok", "none", "error"}
  /\ left' = {}
  /\ \/ /\ alive
        /\ LET ps == ProcessCgroupPaths
               todo == SelectSeq(Interested, LAMBDA s : Wanted(ps, s))
           IN  /\ paths' = ps
               /\ mounts' = todo
               /\ \E order \in SetToSeqs(ToSet(todo)) :
                     metadata' = CommonPath(ps, order)
               /\ pc' = IF todo = <<>> THEN "none" ELSE "open"
               /\ err' = ""
               /\ file' = 1
               /\ opened' = <<>>
               /\ values' = NoValues
     \/ /\ Fail(IF alive THEN "I/O" ELSE "no process")
        /\ paths' = <<>>
  /\ UNCHANGED <<host, reader>>

\* The path that filepath.Join(mountpoint, path) names inside the hierarchy.
\* A mount that shows only the part of a hierarchy below m.root has no
\* directory for the other paths.
DirectoryAt(m, path) ==
  IF m.root = Root THEN {path}
  ELSE IF path = Root THEN {m.root} ELSE {}

\* The directory there is behind the full path of a subsystem, if any.
FullPath(s) ==
  {p \in DirectoryAt(mountpoints[s], paths[s]) :
     mountpoints[s] \in ToSet(mountinfo) /\ Exists(mountpoints[s].hierarchy, p)}

NextFile ==
  LET last == file = FileCounts[Head(mounts)]
  IN  /\ file' = IF last THEN 1 ELSE file + 1
      /\ mounts' = IF last THEN Tail(mounts) ELSE mounts
      /\ pc' = IF last /\ Len(mounts) = 1 THEN "ok" ELSE "open"
      /\ UNCHANGED err

\* Variant: the path is looked up again for every file.
OpenCurrent ==
  /\ pc = "open"
  /\ LET s == Head(mounts)
         m == mountpoints[s]
         p == member[HierarchyOf(s)]
     IN  IF m \in ToSet(mountinfo) /\ <<s, file>> \notin Absent /\ m.root = Root
         THEN /\ opened' = <<m.hierarchy, p, life[m.hierarchy][p]>>
              /\ pc' = "read"
              /\ UNCHANGED <<mounts, file, values, err>>
         ELSE /\ values' = [values EXCEPT ![s].zero = @ \cup {file}]
              /\ NextFile
              /\ UNCHANGED opened
  /\ UNCHANGED <<host, reader, paths, metadata, left>>

\* os.Open of the next file: one that does not exist leaves its value zero, any
\* other error fails the call.
Open ==
  /\ pc = "open"
  /\ LET s == Head(mounts)
     IN  \/ \E p \in FullPath(s) :
              /\ <<s, file>> \notin Absent
              /\ opened' = <<mountpoints[s].hierarchy, p,
                             life[mountpoints[s].hierarchy][p]>>
              /\ pc' = "read"
              /\ UNCHANGED <<mounts, metadata, file, values, err>>
         \/ /\ <<s, file>> \in Absent \/ FullPath(s) = {}
            /\ values' = [values EXCEPT ![s].zero = @ \cup {file}]
            /\ NextFile
            /\ UNCHANGED <<metadata, opened>>
         \/ Fail("I/O")
  /\ UNCHANGED <<host, reader, paths, left>>

\* Reads and parses the open file.  In a directory removed since, reading fails
\* with ENODEV; that, and what does not parse, fails the call.
Read ==
  /\ pc = "read"
  /\ LET s == Head(mounts)
         exists == life[opened[1]][opened[2]] = opened[3]
     IN  \/ /\ exists
            /\ values' = [values EXCEPT ![s].seen = @ \cup {opened}]
            /\ NextFile
            /\ opened' = <<>>
            /\ UNCHANGED metadata
         \/ Fail(IF exists THEN "I/O" ELSE "ENODEV")
  /\ UNCHANGED <<host, reader, paths, left>>

-----------------------------------------------------------------------------
(* The host (external).  A cgroup with a process in it is not removed. *)

Move(h, p) ==
  /\ alive /\ p # member[h] /\ Exists(h, p)
  /\ member' = [member EXCEPT ![h] = p]
  /\ left' = left \cup {h}
  /\ UNCHANGED <<alive, life, mountinfo, pc, reader, call>>

Exit ==
  /\ alive
  /\ alive' = FALSE
  /\ left' = Hierarchies
  /\ UNCHANGED <<member, life, mountinfo, pc, reader, call>>

Rmdir(h, p) ==
  /\ p # Root /\ Exists(h, p)
  /\ ~(alive /\ member[h] = p)
  /\ life' = [life EXCEPT ![h][p] = @ + 1]
  /\ UNCHANGED <<alive, member, mountinfo, pc, reader, call, left>>

Mkdir(h, p) ==
  /\ ~Exists(h, p) /\ life[h][p] < MaxLife
  /\ life' = [life EXCEPT ![h][p] = @ + 1]
  /\ UNCHANGED <<alive, member, mountinfo, pc, reader, call, left>>

Unmount(i) ==
  /\ mountinfo' = RemoveAt(mountinfo, i)
  /\ UNCHANGED <<alive, member, life, pc, reader, call, left>>

Host ==
  \/ \E h \in Hierarchies, p \in Paths : Move(h, p) \/ Rmdir(h, p) \/ Mkdir(h, p)
  \/ Exit
  \/ \E i \in DOMAIN mountinfo : Unmount(i)

Reader ==
  \/ SupportedSubsystems \/ SubsystemMountpoints
  \/ GetStatsForProcess \/ Open \/ Read

Next == Host \/ Reader

Spec == Init /\ [][Next]_vars

-----------------------------------------------------------------------------
(* Properties. *)

InCall == pc \in {"open", "read", "ok"}

Asked == {s \in Subsystems : Wanted(paths, s)}

\* The mount of the subsystem shows all of the hierarchy of the subsystem.
Whole(s) == mountpoints[s].root = Root

\* getCommonCgroupMetadata (reader.go 146-149): the result of the call has a
\* path iff all its subsystems share it, whatever the order of the map.
CommonMetadata ==
  InCall => \A p \in Paths : metadata = p <=> \A s \in Asked : paths[s] = p

\* Everything a call reports for a subsystem was read in the cgroup, of the
\* hierarchy that has the subsystem, in which the process was when the call
\* began: moving the process during the call does not mix two cgroups.
SnapshotPaths ==
  InCall => \A s \in Asked : Whole(s) =>
    \A v \in values[s].seen : v[1] = HierarchyOf(s) /\ v[2] = paths[s]

\* What the call found of the subsystem still holds: its mount is in place and
\* shows all of the hierarchy, and the process is where it was.
Undisturbed(s) ==
  Whole(s) /\ mountpoints[s] \in ToSet(mountinfo) /\ HierarchyOf(s) \notin left

\* The host disturbs the statistics of a subsystem only where it touches that
\* subsystem: whatever happens to its other hierarchies and to other cgroups,
\* a finished call has for an undisturbed subsystem every file this kernel has
\* and no zero besides, all of one life of the process's own cgroup; and it
\* fails for a cgroup that was removed only if some subsystem was disturbed.
DisturbedAlone ==
  /\ pc = "ok" => \A s \in Asked : Undisturbed(s) =>
       LET h == HierarchyOf(s)
       IN  /\ values[s].seen \subseteq {<<h, member[h], life[h][member[h]]>>}
           /\ values[s].zero = {i \in 1 .. FileCounts[s] : <<s, i>> \in Absent}
  /\ err = "ENODEV" => \E s \in Asked : ~Undisturbed(s)

\* ProcessCgroupPaths "returns the cgroups to which a process belongs"
\* (util.go 228): none of its cgroups is left out.
PathsComplete ==
  pc \in {"open", "none"} /\ left = {} => DOMAIN paths = UNION Hierarchies

=============================================================================
