---------------------------- MODULE MCWindowsHost ----------------------------
(* Numbers of processes around each array size; lists of two privileges; two volumes. *)
EXTENDS WindowsHost

Around ==
  {0, 1} \cup UNION {{n - 1, n, n + 1} : n \in {2048, 4096, 8192, 16384, 32768, 65536}}

\* Lists that overlap, in different orders.
MCNameLists ==
  {<<"SeDebugPrivilege", "SeBackupPrivilege">>, <<"SeBackupPrivilege">>,
   <<"SeBackupPrivilege", "SeDebugPrivilege">>}

TwoVolumes == <<"C", "D">>

=============================================================================
