----------------------------- MODULE CgroupStats -----------------------------
(***************************************************************************)
(* The statistics of cgroup/, seen from two sides.  Part "reader" is a     *)
(* Reader and the calls of GetStatsForProcess with all their subsystems    *)
(* (CgroupReader), where the content of a file does not matter; part       *)
(* "blkio" is one subsystem, blkio, with the content of its files          *)
(* (BlkioThrottle).  A behaviour is of one part; the other stays as it is. *)
(***************************************************************************)
EXTENDS CgroupReader, BlkioThrottle

VARIABLE part

allVars == <<vars, blkioVars, part>>

\* The other part is in one fixed initial state.
StatsInit ==
  /\ part \in {"reader", "blkio"}
  /\ Init /\ BlkioInit
  /\ part = "reader" => lacks = CHOOSE k \in Kernels : TRUE
  /\ part = "blkio" => /\ member = [h \in Hierarchies |-> Root]
                       /\ mountinfo = CHOOSE t \in MountTables : TRUE

StatsNext ==
  \/ part = "reader" /\ Next /\ UNCHANGED <<blkioVars, part>>
  \/ part = "blkio" /\ BlkioNext /\ UNCHANGED <<vars, part>>

StatsSpec == StatsInit /\ [][StatsNext]_allVars

=============================================================================
