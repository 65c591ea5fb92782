------------------------------- MODULE Outbox -------------------------------
(***************************************************************************)
(* What the Meta event queue promises to the rest of the program, without  *)
(* batches, claims, clocks or processes: an event that was submitted stays *)
(* open until Meta has it or the route's configuration says not to send    *)
(* it.  Delivery is at least once: an event may reach Meta again, also     *)
(* after it was closed or its route deleted.                               *)
(***************************************************************************)
CONSTANT Events

VARIABLES
  box,       (* how the queue accounts for each event        *)
  delivered  (* the events Meta has accepted at least once   *)

outboxVars == <<box, delivered>>

OutboxTypeOK ==
  /\ box \in [Events -> {"absent", "open", "sent", "skipped", "deleted"}]
  /\ delivered \in SUBSET Events

OutboxInit ==
  /\ box = [e \in Events |-> "absent"]
  /\ delivered = {}

InQueue(e) == box[e] \in {"open", "sent", "skipped"}

Submit(e) ==
  /\ box[e] = "absent"
  /\ box' = [box EXCEPT ![e] = "open"]
  /\ UNCHANGED delivered

Send(e) ==
  /\ box[e] # "absent"
  /\ delivered' = delivered \cup {e}
  /\ UNCHANGED box

(* Closing an event as sent needs a delivery; closing it as skipped does not.*)
Close(e) ==
  /\ InQueue(e)
  /\ \/ e \in delivered /\ box' = [box EXCEPT ![e] = "sent"]
     \/ box' = [box EXCEPT ![e] = "skipped"]
  /\ UNCHANGED delivered

Reopen(e) ==
  /\ box[e] \in {"sent", "skipped"}
  /\ box' = [box EXCEPT ![e] = "open"]
  /\ UNCHANGED delivered

(* All the events of a deleted route go together.                           *)
Forget(S) ==
  /\ box' = [e \in Events |-> IF e \in S /\ InQueue(e) THEN "deleted" ELSE box[e]]
  /\ UNCHANGED delivered

OutboxNext ==
  \/ \E e \in Events : Submit(e) \/ Send(e) \/ Close(e) \/ Reopen(e)
  \/ \E S \in SUBSET Events : Forget(S)

OutboxSpec == OutboxInit /\ [][OutboxNext]_outboxVars

=============================================================================
