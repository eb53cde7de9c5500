----------------------------- MODULE MCLaneGate -----------------------------
(* Small instances of LaneGate for TLC. *)
EXTENDS LaneGate, TLC

CONSTANTS a, b, t

(* Two administrative requests of any kind beside order traffic on a lane. *)
AnyTwo == [r \in Requests |-> IF r = t THEN {"order"} ELSE Ops \ {"order"}]

(* The requests whose locks could wait on each other, one of each shape: up  *)
(* from a lane, a lane and the mutation lock, all three, one after another.  *)
Lockers ==
    [r \in Requests |->
        CASE r = a -> {"block", "restoreRows"}
          [] r = b -> {"block", "mode", "delete", "note"}
          [] OTHER -> {"order"}]

(* Account creation on its own. *)
Creation == [r \in Requests |-> IF r = t THEN {"order"} ELSE {"account"}]

Swap == Permutations({a, b})
=============================================================================
