---------------------------- MODULE MCWatcherHost ----------------------------
(* Small instances of WatcherHost. *)
EXTENDS WatcherHost, TLC

CONSTANTS p1, p2, p3, c1

\* Receive takes its datagrams from the queue instead.
NoDatagrams == {}

\* The processes that may come and go are interchangeable: none is watched by
\* its own pid.
Symmetry == Permutations(Procs \ {Self})

=============================================================================
