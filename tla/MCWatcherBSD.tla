---------------------------- MODULE MCWatcherBSD ----------------------------
(* A small instance of WatcherBSD. *)
EXTENDS WatcherBSD, TLC

CONSTANTS p1, p2, c1, c2

\* The clients are interchangeable.
Symmetry == Permutations(Clients)

=============================================================================
