---------------------------- MODULE DeliveryQueue ----------------------------
(***************************************************************************)
(* What the webhook queue promises: an item that has been queued is posted  *)
(* until the receiver acknowledges it or the sender gives up; "delivered"   *)
(* is claimed only of an item that was acknowledged; the verdict on an item *)
(* is final.  Workers, batches, backoff, crashes are left out.              *)
(***************************************************************************)
CONSTANT Items

VARIABLES status,  \* status[i]: "none" (not queued yet), "pending",
                   \* "delivered", "failed", or "gone" (deleted by cascade)
          acked    \* items the receiver has answered with a 2xx

vars == <<status, acked>>

Init == status = [i \in Items |-> "none"] /\ acked = {}

Enqueue(i) ==
    /\ status[i] = "none"
    /\ status' = [status EXCEPT ![i] = "pending"]
    /\ UNCHANGED acked

\* The receiver acknowledges item i; it may do so again, and after deletion.
Acknowledge(i) ==
    /\ status[i] \in {"pending", "gone"}
    /\ acked' = acked \cup {i}
    /\ UNCHANGED status

Deliver(i) ==
    /\ status[i] = "pending"
    /\ i \in acked
    /\ status' = [status EXCEPT ![i] = "delivered"]
    /\ UNCHANGED acked

GiveUp(i) ==
    /\ status[i] = "pending"
    /\ status' = [status EXCEPT ![i] = "failed"]
    /\ UNCHANGED acked

\* A webhook is deleted, and its queue rows with it.
Remove(S) ==
    /\ status' = [i \in Items |-> IF i \in S THEN "gone" ELSE status[i]]
    /\ UNCHANGED acked

Next ==
    \/ \E i \in Items : Enqueue(i) \/ Acknowledge(i) \/ Deliver(i) \/ GiveUp(i)
    \/ \E S \in SUBSET Items : Remove(S)

Spec == Init /\ [][Next]_vars
==============================================================================
