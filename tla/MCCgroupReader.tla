--------------------------- MODULE MCCgroupReader ---------------------------
(* A small host: cpu and cpuacct share a hierarchy, blkio has its own. *)
EXTENDS CgroupReader

MCHierarchies == {{"blkio"}, {"cpu", "cpuacct"}}

MCPaths == {"/", "/a"}

MCColons == {"/a"}

Mount(point, h, root) ==
  [point |-> point, type |-> "cgroup", underRootfs |-> TRUE, wellFormed |-> TRUE,
   options |-> h, hierarchy |-> h, root |-> root]

Other == [point |-> "/tmp", type |-> "tmpfs", underRootfs |-> TRUE, wellFormed |-> TRUE,
          options |-> {}, hierarchy |-> {}, root |-> "/"]

\* One hierarchy not mounted; both, and one a second time, in part, before or
\* after; one outside the root file system; a line with a field missing.
MCMountTables ==
  LET b == Mount("/cgroup/blkio", {"blkio"}, "/")
      c == Mount("/cgroup/cpu", {"cpu", "cpuacct"}, "/")
      part == Mount("/container/blkio", {"blkio"}, "/a")
  IN  {<<Other, c>>, <<b, c, part>>, <<part, b, c>>,
       <<[b EXCEPT !.underRootfs = FALSE], c>>,
       <<b, [Other EXCEPT !.wellFormed = FALSE]>>}

MCWholeTables ==
  {<<Mount("/cgroup/blkio", {"blkio"}, "/"), Mount("/cgroup/cpu", {"cpu", "cpuacct"}, "/")>>}

\* Two files of cpu and cpuacct, the first of cpu not in this kernel, one of blkio.
MCFileCounts == [s \in Subsystems |-> IF s = "blkio" THEN 1 ELSE 2]

MCAbsent == {<<"cpu", 1>>}

=============================================================================
