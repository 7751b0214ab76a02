-------------------------- MODULE WatcherLifecycle --------------------------
(***************************************************************************)
(* What a psnotify Watcher promises about its shutdown, with goroutines,   *)
(* mutexes and the watch table left out.  The application sees a watcher   *)
(* that is "open", is asked to close ("closing"), has closed its event     *)
(* channels ("finished") and at last releases the OS listener ("closed").  *)
(* An offer is an event or an error that waits on one of the channels for  *)
(* the application to take it.                                             *)
(***************************************************************************)
VARIABLES state, offer

Init == state = "open" /\ offer = FALSE

\* An event may still be offered after Close has been called, until the
\* channels close.
Offer ==
  /\ state \in {"open", "closing"}
  /\ ~offer
  /\ offer' = TRUE
  /\ UNCHANGED state

Take ==
  /\ offer
  /\ offer' = FALSE
  /\ UNCHANGED state

BeginClose ==
  /\ state = "open"
  /\ state' = "closing"
  /\ UNCHANGED offer

\* The channels close while nothing is offered on them.
CloseChannels ==
  /\ state = "closing"
  /\ ~offer
  /\ state' = "finished"
  /\ UNCHANGED offer

ReleaseListener ==
  /\ state = "finished"
  /\ state' = "closed"
  /\ UNCHANGED offer

Next == Offer \/ Take \/ BeginClose \/ CloseChannels \/ ReleaseListener

Spec == Init /\ [][Next]_<<state, offer>>

=============================================================================
