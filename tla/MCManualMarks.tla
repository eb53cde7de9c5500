--------------------------- MODULE MCManualMarks ---------------------------
(* Two pairs, each the inverse of the other. *)
EXTENDS ManualMarks, TLC

CONSTANTS ab, ba, px

MCOpposite == (ab :> ba) @@ (ba :> ab)

(* A mark cleared and set again, or set or cleared with a failing call, in   *)
(* two runs; a mark set or cleared and another change of the configuration,  *)
(* or a change and a failing call, in three.                                 *)
MCBudgets ==
    {[prices |-> 2, changes |-> 0, faults |-> 0, stops |-> 1],
     [prices |-> 1, changes |-> 0, faults |-> 1, stops |-> 1],
     [prices |-> 1, changes |-> 1, faults |-> 0, stops |-> 2],
     [prices |-> 0, changes |-> 1, faults |-> 1, stops |-> 2]}

(* A pair with a mark or a stream; its inverse has no row, or a disabled one, *)
(* or a stream of its own.                                                   *)
MCSaved ==
    {(ab :> px) @@ (ba :> b) : b \in {"absent", "off"}} \cup
    {(ab :> "feed") @@ (ba :> b) : b \in {"absent", "feed"}}
=============================================================================
