---------------------------- MODULE WindowsVolumes ----------------------------
(***************************************************************************)
(* FileSystemList.Get on Windows (sigar_windows.go) with GetAccessPaths,   *)
(* GetVolumes and GetVolumePathsForVolume of sys/windows: the volumes are  *)
(* listed first, then the paths of each are asked for twice, for their     *)
(* length and for themselves, while volumes are mounted and unmounted.     *)
(***************************************************************************)
EXTENDS Naturals, Sequences, Functions

CONSTANTS Volumes,      \* the volumes of the host, in the order Windows lists them
          MaxPaths,     \* bound: paths a volume is mounted at
          MaxGets       \* bound: calls of Get on one receiver

ASSUME VolumesAssumption == Volumes \in Seq(STRING) /\ MaxPaths \in Nat /\ MaxGets \in Nat

VARIABLES mounts,       \* the number of paths of each volume
          stage,        \* "idle", "find", "length", "paths" or "drives"
          found,        \* volumes FindNextVolume has returned
          next,         \* the volume, or the path, the loop is at
          length,       \* the length GetVolumePathNamesForVolumeName asked for
          paths,        \* the first paths found; a path is its volume
          list,         \* the List of the receiver
          before,       \* history: its length when Get was called
          steady,       \* history: volumes mounted ever since
          ever,         \* history: volumes mounted at some time since
          gets, status  \* calls so far; how the last one ended

volVars == <<mounts, stage, found, next, length, paths, list, before,
             steady, ever, gets, status>>

Mounted == {i \in 1..Len(Volumes) : mounts[i] > 0}

VolInit ==
  /\ mounts \in [1..Len(Volumes) -> 0..MaxPaths]
  /\ stage = "idle" /\ found = << >> /\ next = 1 /\ length = 0
  /\ paths = << >> /\ list = << >>
  /\ before = 0 /\ steady = {} /\ ever = {}
  /\ gets = 0 /\ status = "none"

Mount(i, n) ==
  /\ stage # "idle" /\ n # mounts[i]
  /\ mounts' = [mounts EXCEPT ![i] = n]
  /\ steady' = IF n = 0 THEN steady \ {i} ELSE steady
  /\ ever' = IF n > 0 THEN ever \cup {i} ELSE ever
  /\ UNCHANGED <<stage, found, next, length, paths, list, before, gets, status>>

GetFileSystems ==
  /\ stage = "idle" /\ gets < MaxGets
  /\ gets' = gets + 1
  /\ stage' = "find"
  /\ found' = << >> /\ paths' = << >> /\ next' = 1
  /\ before' = Len(list)
  /\ steady' = Mounted /\ ever' = Mounted
  /\ UNCHANGED <<mounts, length, list, status>>

World == UNCHANGED <<mounts, before, steady, ever, gets>>

\* FindFirstVolume, then FindNextVolume: the buffer is appended after each.
FindVolume ==
  /\ stage = "find" /\ Len(found) < Len(Volumes)
  /\ found' = Append(found, Len(found) + 1)
  /\ UNCHANGED <<stage, next, length, paths, list, status>> /\ World

\* ERROR_NO_MORE_FILES ends the loop; the search handle is open in this stage
\* and no other.
NoMoreVolumes ==
  /\ stage = "find" /\ Len(found) = Len(Volumes)
  /\ stage' = "length"
  /\ UNCHANGED <<found, next, length, paths, list, status>> /\ World

\* GetAccessPaths returns its error, with nothing appended to the receiver.
GetFails ==
  /\ stage' = "idle"
  /\ status' = "error"
  /\ UNCHANGED <<found, next, length, paths, list>> /\ World

FindFails == stage = "find" /\ GetFails

\* Variant: a volume without paths ends the loop.
NotMountedStops ==
  /\ stage = "length" /\ next <= Len(found)
  /\ mounts[found[next]] = 0
  /\ next' = Len(found) + 1
  /\ UNCHANGED <<stage, found, length, paths, list, status>> /\ World

\* The first call asks for no buffer at all: the volume is not mounted, nil is
\* returned with a nil error, and GetAccessPaths passes on to the next volume.
NotMounted ==
  /\ stage = "length" /\ next <= Len(found)
  /\ mounts[found[next]] = 0
  /\ next' = next + 1
  /\ UNCHANGED <<stage, found, length, paths, list, status>> /\ World

\* The first call fails with ERROR_MORE_DATA and tells the length.
MoreData ==
  /\ stage = "length" /\ next <= Len(found)
  /\ mounts[found[next]] > 0
  /\ length' = mounts[found[next]]
  /\ stage' = "paths"
  /\ UNCHANGED <<found, next, paths, list, status>> /\ World

\* "Get only the first path", if there is one.
FirstPath(i) == IF mounts[i] = 0 THEN << >> ELSE <<i>>

\* The second call fills the buffer.
VolumePaths ==
  /\ stage = "paths" /\ mounts[found[next]] <= length
  /\ paths' = paths \o FirstPath(found[next])
  /\ next' = next + 1
  /\ stage' = "length"
  /\ UNCHANGED <<found, length, list, status>> /\ World

\* The volume has got a path since and the buffer is too small, or either
\* call fails on its own account.
PathsFail == stage \in {"length", "paths"} /\ next <= Len(found) /\ GetFails

AllVolumes ==
  /\ stage = "length" /\ next > Len(found)
  /\ next' = 1
  /\ stage' = "drives"
  /\ UNCHANGED <<found, length, paths, list, status>> /\ World

\* GetDriveType of one path: the file system is appended to the receiver.
Drive ==
  /\ stage = "drives" /\ next <= Len(paths)
  /\ list' = Append(list, paths[next])
  /\ next' = next + 1
  /\ UNCHANGED <<stage, found, length, paths, status>> /\ World

DriveFails == stage = "drives" /\ next <= Len(paths) /\ GetFails

AllDrives ==
  /\ stage = "drives" /\ next > Len(paths)
  /\ stage' = "idle"
  /\ status' = "ok"
  /\ UNCHANGED <<found, next, length, paths, list>> /\ World

VolStep == FindVolume \/ NoMoreVolumes \/ FindFails \/ NotMounted \/ MoreData \/ VolumePaths
             \/ PathsFail \/ AllVolumes \/ Drive \/ DriveFails \/ AllDrives

VolNext ==
  \/ \E i \in 1..Len(Volumes), n \in 0..MaxPaths : Mount(i, n)
  \/ GetFileSystems
  \/ VolStep

-----------------------------------------------------------------------------

\* What the last Get appended.
Added == SubSeq(list, before + 1, Len(list))

\* FileSystemList.Get that succeeds has appended each volume that was mounted
\* all through the call, once, and none that was not mounted during it,
\* whatever is mounted and unmounted between its calls.
MountedVolumesListed ==
  stage = "idle" /\ status = "ok" =>
    /\ IsInjective(Added)
    /\ steady \subseteq Range(Added)
    /\ Range(Added) \subseteq ever

=============================================================================
