--------------------------- MODULE MCWatcherLinux ---------------------------
(* Small instances of WatcherLinux. *)
EXTENDS WatcherLinux

CONSTANTS p1, p2, c1, c2

Msg(w, p, q) == [what |-> w, pid |-> p, child |-> q]

\* p1 forks p2, execs and exits; a datagram of two messages and one of none.
ForkExecExit ==
  { <<>>,
    <<Msg("FORK", p1, p2)>>,
    <<Msg("EXEC", p1, p1), Msg("OTHER", p1, p1)>>,
    <<Msg("EXIT", p1, p1)>> }

\* p1 forks p2.
Forks == { <<Msg("FORK", p1, p2)>> }

\* p1 changes its credentials and exits.
Credentials ==
  { <<Msg("UID", p1, p1)>>, <<Msg("GID", p1, p1)>>, <<Msg("SID", p1, p1)>>,
    <<Msg("EXIT", p1, p1)>> }

=============================================================================
