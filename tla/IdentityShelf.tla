--------------------------- MODULE IdentityShelf ---------------------------
(***************************************************************************)
(* What the identity service promises the hosts, whatever the statuses it  *)
(* keeps: an identity is offered to its host only by a deliberate offer,   *)
(* made while it is approved and its package is complete, and one that     *)
(* was taken back is not offered again without another offer.              *)
(***************************************************************************)
CONSTANT Identity

VARIABLE shelf   \* where each identity stands

Places == {"absent", "hidden", "ready", "offered"}

Init == shelf = [i \in Identity |-> "absent"]

Move(i, from, to) ==
  /\ shelf[i] \in from
  /\ \E place \in to : shelf' = [shelf EXCEPT ![i] = place]

Register(i) == Move(i, {"absent"}, {"hidden", "ready"})
Review(i) == Move(i, {"hidden", "ready"}, {"hidden", "ready"})
Offer(i) == Move(i, {"ready"}, {"offered"})
Withdraw(i) == Move(i, {"offered"}, {"hidden", "ready"})
Remove(i) == Move(i, Places \ {"absent"}, {"absent"})

Next == \E i \in Identity :
          Register(i) \/ Review(i) \/ Offer(i) \/ Withdraw(i) \/ Remove(i)

Spec == Init /\ [][Next]_shelf
=============================================================================
