---------------------------- MODULE MCCollectors ----------------------------
(***************************************************************************)
(* Small instances of the two collectors: a table of a few sockets dumped  *)
(* in datagrams that may or may not fit, and CPU counters that wrap after  *)
(* a few values.                                                           *)
(***************************************************************************)
EXTENDS Collectors
=============================================================================
