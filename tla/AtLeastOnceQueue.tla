-------------------------- MODULE AtLeastOnceQueue --------------------------
(***************************************************************************)
(* What the durable outbox promises, without tables, clocks, requests or   *)
(* crashes.  An event is queued locally before the backend can receive it; *)
(* the device keeps it until the backend has it or it is set aside as      *)
(* refused; a refused event never returns to the queue.                    *)
(***************************************************************************)
CONSTANT Events

VARIABLES
    queued,     \* events that were ever made durable
    held,       \* events the device still has to deliver
    received,   \* events the backend has stored
    refused     \* events set aside in the dead-letter table

vars == <<queued, held, received, refused>>

Init ==
    /\ queued = {}
    /\ held = {}
    /\ received = {}
    /\ refused = {}

Take(e) ==
    /\ e \notin refused
    /\ queued' = queued \cup {e}
    /\ held' = held \cup {e}
    /\ UNCHANGED <<received, refused>>

Receive(S) ==
    /\ S \subseteq queued
    /\ received' = received \cup S
    /\ UNCHANGED <<queued, held, refused>>

Settle(D, R) ==
    /\ D \subseteq held \cap received
    /\ R \subseteq held \ D
    /\ held' = held \ (D \cup R)
    /\ refused' = refused \cup R
    /\ UNCHANGED <<queued, received>>

Next ==
    \/ \E e \in Events : Take(e)
    \/ \E S \in SUBSET Events : Receive(S)
    \/ \E D, R \in SUBSET Events : Settle(D, R)

Spec == Init /\ [][Next]_vars

\* No event that was ever queued disappears: it is still held, or the backend
\* has it, or it is kept in the dead-letter table.
NothingLost == queued \subseteq held \cup received \cup refused
=============================================================================
