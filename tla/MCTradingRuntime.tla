-------------------------- MODULE MCTradingRuntime --------------------------
(* Small instances of TradingRuntime for TLC. *)
EXTENDS TradingRuntime, TLC

CONSTANTS o1, o2, c1, c2, a, b

\* Two calls compete for one order, through two connections or through one.
RivalOrder == (a :> o1) @@ (b :> o1)
RivalConn  == (a :> c1) @@ (b :> c2)
SharedConn == (a :> c1) @@ (b :> c1)

\* One call, one order.
LoneOrder == a :> o1
LoneConn  == a :> c1

\* Two orders share a worker.
TwinOrder == (a :> o1) @@ (b :> o2)

=============================================================================
