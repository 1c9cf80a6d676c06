---------------------------- MODULE EventDelivery ----------------------------
(***************************************************************************)
(* What the transactional outbox promises to the rest of the system        *)
(* (src/backend/src/events): an event a use case committed is handed to    *)
(* the publisher, sooner or later and possibly more than once, and an      *)
(* event whose transaction did not commit never is.  Nothing is said of    *)
(* the table, the locks or the instances that make it so.                  *)
(***************************************************************************)
CONSTANT Event      \* the domain events a use case may emit

VARIABLES
  happened,         \* events whose use case committed
  delivered         \* events the publisher was given at least once

vars == <<happened, delivered>>

Init ==
  /\ happened = {}
  /\ delivered = {}

(* A use case commits its state change and its event together.             *)
Happen(e) ==
  /\ e \notin happened
  /\ happened' = happened \cup {e}
  /\ UNCHANGED delivered

(* One publish call hands over a batch of events that have happened.       *)
Deliver(B) ==
  /\ B \subseteq happened
  /\ delivered' = delivered \cup B
  /\ UNCHANGED happened

Next ==
  \/ \E e \in Event : Happen(e)
  \/ \E B \in SUBSET Event : Deliver(B)

Safety == Init /\ [][Next]_vars

(* No event that happened is left out of every batch for ever.             *)
Spec == Safety /\ \A e \in Event : WF_vars(Deliver({e}))
=============================================================================
