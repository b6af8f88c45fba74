----------------------------- MODULE PreviewSlots -----------------------------
(***************************************************************************)
(* What previa promises of the status of its previews, whatever runs       *)
(* underneath: a preview holds a slot while it deploys and while it is     *)
(* active, there are never more holders than slots, a preview waits only   *)
(* when it found every slot taken, and every other change of status is one *)
(* of a few.                                                               *)
(***************************************************************************)
EXTENDS Naturals, FiniteSets

CONSTANTS Preview, MaxActive   \* InstanceLifecycle's assumptions hold of both

VARIABLE status

Holders == {i \in Preview : status[i] \in {"active", "deploying"}}

Init == status = [i \in Preview |-> "none"]

Become(i, s) == status' = [status EXCEPT ![i] = s]

\* A holder redeploys in its slot; anyone else needs a free one.
Deploy(i) ==
  /\ i \in Holders \/ Cardinality(Holders) < MaxActive
  /\ Become(i, "deploying")

\* Only a preview that holds no slot, and finds none free, waits.
Wait(i) ==
  /\ i \notin Holders
  /\ Cardinality(Holders) >= MaxActive
  /\ Become(i, "waiting")

Serve(i) == status[i] = "deploying" /\ Become(i, "active")
Fail(i) == status[i] = "deploying" /\ Become(i, "error")
Stop(i) == status[i] = "active" /\ Become(i, "paused")
Destroy(i) == status[i] # "none" /\ Become(i, "none")

Next == \E i \in Preview :
  Deploy(i) \/ Wait(i) \/ Serve(i) \/ Fail(i) \/ Stop(i) \/ Destroy(i)

Spec == Init /\ [][Next]_status

=============================================================================
