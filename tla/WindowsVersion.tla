---------------------------- MODULE WindowsVersion ----------------------------
(***************************************************************************)
(* The version of Windows, which sigar_windows.go looks up once, when the  *)
(* program starts.                                                         *)
(***************************************************************************)
VARIABLE vista          \* version.IsWindowsVistaOrGreater()

\* The access right of the helpers that need the least; Windows 2003 and XP do
\* not know PROCESS_QUERY_LIMITED_INFORMATION.
processQueryLimitedInfoAccess == IF vista THEN "QUERY_LIMITED" ELSE "QUERY"

=============================================================================
