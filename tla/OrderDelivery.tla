---------------------------- MODULE OrderDelivery ----------------------------
(* What framework/trading promises for each order handed to it, without      *)
(* links, claims, markers, streams or retries: the venue is asked at most    *)
(* once and only while the order is open; every execution is booked, in      *)
(* order, while the order is open; and the order is closed only when the     *)
(* venue can execute no more and the books agree with it.                    *)
EXTENDS Naturals

CONSTANTS
    Orders,
    Qty         \* quantity of an order, in units, at least one

VARIABLES
    outcome,    \* what Officer shows for the order
    asked,      \* orders the venue was asked to execute
    live,       \* orders the venue may still execute
    executed,   \* quantity the venue executed
    booked      \* quantity Officer booked for the venue's executions

vars == <<outcome, asked, live, executed, booked>>

Init ==
    /\ outcome = [o \in Orders |-> "open"]
    /\ asked = {} /\ live = {}
    /\ executed = [o \in Orders |-> 0]
    /\ booked = [o \in Orders |-> 0]

Ask(o) ==
    /\ o \notin asked /\ outcome[o] = "open"
    /\ asked' = asked \cup {o} /\ live' = live \cup {o}
    /\ UNCHANGED <<outcome, executed, booked>>

\* The venue executes a unit; the order may leave its book with it.
VenueFill(o) ==
    /\ o \in live /\ executed[o] < Qty
    /\ executed' = [executed EXCEPT ![o] = @ + 1]
    /\ live' = IF executed'[o] = Qty THEN live \ {o} ELSE live
    /\ UNCHANGED <<outcome, asked, booked>>

\* The venue is done with the order, or never got it.
VenueEnd(o) ==
    /\ o \in live /\ live' = live \ {o}
    /\ UNCHANGED <<outcome, asked, executed, booked>>

\* The next execution is booked; the last unit fills the order.
Book(o) ==
    /\ outcome[o] = "open" /\ booked[o] < executed[o]
    /\ booked' = [booked EXCEPT ![o] = @ + 1]
    /\ outcome' = [outcome EXCEPT ![o] = IF booked'[o] = Qty THEN "filled" ELSE @]
    /\ UNCHANGED <<asked, live, executed>>

\* The order is closed over books that agree with the venue.
Close(o) ==
    /\ outcome[o] = "open" /\ o \notin live /\ booked[o] = executed[o]
    /\ outcome' = [outcome EXCEPT ![o] = "cancelled"]
    /\ UNCHANGED <<asked, live, executed, booked>>

\* An operator settles an order the venue was not asked to execute.
Settle(o) ==
    /\ outcome[o] = "open" /\ o \notin asked
    /\ outcome' = [outcome EXCEPT ![o] = "filled"]
    /\ UNCHANGED <<asked, live, executed, booked>>

Next == \E o \in Orders : \/ Ask(o) \/ VenueFill(o) \/ VenueEnd(o) \/ Book(o)
                          \/ Close(o) \/ Settle(o)

Spec == Init /\ [][Next]_vars

=============================================================================
