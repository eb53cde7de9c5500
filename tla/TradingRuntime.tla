--------------------------- MODULE TradingRuntime ---------------------------
(***************************************************************************)
(* The durable venue-send protocol of framework/trading: callers hand held *)
(* Officer orders to one serial worker per trading connection; the worker  *)
(* links, claims, marks and sends each order once, books the venue's       *)
(* executions and closes the order when the venue is done with it.         *)
(*                                                                         *)
(* A call of Runtime.Send mints one client order id, so a call, its client *)
(* order id and the venue order that may come of it share one name in      *)
(* Calls.  Quantities are counted in units: every execution fills one      *)
(* unit and carries the cumulative quantity k after it.                    *)
(***************************************************************************)
EXTENDS Integers, FiniteSets

CONSTANTS
    Orders,       \* Officer orders that hold a pre-trade reservation
    Conns,        \* trading connections, one worker each
    Calls,        \* calls of Runtime.Send, and the client order ids they mint
    CallOrder,    \* the order a call sends
    CallConn,     \* the connection a call names
    Qty,          \* quantity of an order, in units
    NoCall,       \* no client order id
    MaxFaults,    \* how many store or sink operations may fail
    MaxCrashes,   \* how often the process may die or the runtime be stopped
    MaxOps,       \* how many operator requests may enter an account lane
    TimelySend    \* TRUE: a request reaches the venue or is lost before the
                  \* two-minute missing-order grace of its link runs out

ASSUME CallsAssumption ==
    /\ CallOrder \in [Calls -> Orders]
    /\ CallConn \in [Calls -> Conns]
    /\ NoCall \notin Calls

ASSUME BoundsAssumption ==
    /\ Qty \in Nat \ {0}
    /\ MaxFaults \in Nat
    /\ MaxCrashes \in Nat
    /\ MaxOps \in Nat
    /\ TimelySend \in BOOLEAN

VARIABLES
    (* Officer's store: survives a crash *)
    status,       \* order status
    trades,       \* quantity of the order's stored trades
    touched,      \* orders with an execution report or cancel not of a worker
    confirmed,    \* orders with a confirmed event
    claimed,      \* client order ids whose claim report is stored
    closed,       \* client order ids whose done report is stored
    booked,       \* cumulative quantities of the stored fill reports of an id
    link,         \* client order id of the order's venue_order row
    attempted,    \* ids whose row is marked send_attempted
    acked,        \* ids whose row holds the venue order id
    aged,         \* ids whose row is older than the missing-order grace
    (* the venue *)
    venue,        \* what became of the request carrying an id
    executed,     \* quantity the venue executed for an id
    (* workers, lost with the process *)
    phase,        \* is the runtime accepting tasks
    pc,           \* control point of a worker
    job,          \* client order id the worker is busy with
    seen,         \* cumulative quantity of the detail the worker last read
    snap,         \* venue snapshot the worker last looked up
    pending,      \* ids the retry ticker reconciles
    relist,       \* reconcileAllPending
    queue,        \* rest of the ids one reconciliation pass visits
    (* callers and operators *)
    caller,       \* control point of a Send call in Service.sendOrder
    result,       \* what the worker answered the call
    answer,       \* VenueSend.Status the caller was told
    lane,         \* the operator request inside the order's account lane
    (* history and bounds *)
    sends,        \* how often Connector.Send was called for an order
    faults, crashes, ops

orderVars  == <<status, trades, touched, confirmed>>
reportVars == <<claimed, closed, booked>>
linkVars   == <<link, attempted, acked, aged>>
venueVars  == <<venue, executed>>
workerVars == <<pc, job, seen, snap>>
retryVars  == <<pending, relist, queue>>
callVars   == <<caller, result, answer>>
store      == <<orderVars, reportVars, linkVars>>
vars == <<store, venueVars, phase, workerVars, retryVars, callVars, lane,
          sends, faults, crashes, ops>>

SendPCs == {"check", "link", "claim", "recheck", "unlink", "mark", "issue",
            "await", "ack", "refuse"}
ReconcilePCs == {"read", "resolve", "discard", "lookup", "apply", "close"}
BusyPCs == SendPCs \cup ReconcilePCs
PCs == BusyPCs \cup {"idle", "scan", "off"}

AtVenue == {"open", "filled", "cancelled", "replaced"}
VenueStates == AtVenue \cup {"absent", "inflight", "refused", "lost"}
Statuses == {"committed", "partially_filled", "filled", "cancelled"}
OpKinds == {"fill", "final", "report", "close", "confirm", "cancel"}
Free == [kind |-> "free", by |-> NoCall]
LaneStates == {Free} \cup [kind : OpKinds, by : Calls \cup {NoCall}]
Snapshots == [st : AtVenue, filled : 0..Qty]

OrdersOK ==
    /\ status \in [Orders -> Statuses]
    /\ trades \in [Orders -> Nat]
    /\ touched \subseteq Orders
    /\ confirmed \subseteq Orders

ReportsOK ==
    /\ claimed \subseteq Calls
    /\ closed \subseteq Calls
    /\ booked \in [Calls -> SUBSET (1..Qty)]

LinksOK ==
    /\ link \in [Orders -> Calls \cup {NoCall}]
    /\ attempted \subseteq Calls
    /\ acked \subseteq Calls
    /\ aged \subseteq Calls

VenueOK ==
    /\ venue \in [Calls -> VenueStates]
    /\ executed \in [Calls -> 0..Qty]

WorkersOK ==
    /\ phase \in {"up", "stopping"}
    /\ pc \in [Conns -> PCs]
    /\ job \in [Conns -> Calls \cup {NoCall}]
    /\ seen \in [Conns -> Nat]
    /\ snap \in [Conns -> Snapshots]

RetriesOK ==
    /\ pending \in [Conns -> SUBSET Calls]
    /\ relist \in [Conns -> BOOLEAN]
    /\ queue \in [Conns -> SUBSET Calls]

CallsOK ==
    /\ caller \in [Calls -> {"new", "offered", "handed", "verify", "unsent",
                             "cancelling", "end", "dead"}]
    /\ result \in [Calls -> {"none", "ack", "refused", "unknown", "unsent"}]
    /\ answer \in [Calls -> {"none", "acknowledged", "refused", "unknown"}]

LanesOK == lane \in [Orders -> LaneStates]

CountsOK ==
    /\ sends \in [Orders -> Nat]
    /\ faults \in 0..MaxFaults
    /\ crashes \in 0..MaxCrashes
    /\ ops \in 0..MaxOps

\* The types of all variables, by part.
TypeOK ==
    /\ OrdersOK /\ ReportsOK /\ LinksOK /\ VenueOK /\ WorkersOK
    /\ RetriesOK /\ CallsOK /\ LanesOK /\ CountsOK

Init ==
    /\ status = [o \in Orders |-> "committed"]
    /\ trades = [o \in Orders |-> 0]
    /\ touched = {} /\ confirmed = {}
    /\ claimed = {} /\ closed = {}
    /\ booked = [i \in Calls |-> {}]
    /\ link = [o \in Orders |-> NoCall]
    /\ attempted = {} /\ acked = {} /\ aged = {}
    /\ venue = [i \in Calls |-> "absent"]
    /\ executed = [i \in Calls |-> 0]
    /\ phase = "up"
    /\ pc = [c \in Conns |-> "idle"]
    /\ job = [c \in Conns |-> NoCall]
    /\ seen = [c \in Conns |-> 0]
    /\ snap = [c \in Conns |-> [st |-> "open", filled |-> 0]]
    /\ pending = [c \in Conns |-> {}]
    /\ relist = [c \in Conns |-> FALSE]
    /\ queue = [c \in Conns |-> {}]
    /\ caller = [i \in Calls |-> "new"]
    /\ result = [i \in Calls |-> "none"]
    /\ answer = [i \in Calls |-> "none"]
    /\ lane = [o \in Orders |-> Free]
    /\ sends = [o \in Orders |-> 0]
    /\ faults = 0 /\ crashes = 0 /\ ops = 0

-----------------------------------------------------------------------------
(* Reading the store.  An operator whose name ends in _Bug is a plausible     *)
(* mistake in the operator that follows it: the checks put it in that        *)
(* operator's place to see that a property notices.                          *)

Terminal(o) == status[o] \in {"filled", "cancelled"}

Modifiable_Bug(o) == TRUE

\* RequireOrderModifiable
Modifiable(o) == ~Terminal(o)

NoVenueOrder_Bug(o) == TRUE

\* requireNoVenueOrder
NoVenueOrder(o) == link[o] = NoCall

IdsOf(o) == {i \in Calls : CallOrder[i] = o}

\* Ids of o with a stored report of a worker.
Reporting(o) == {i \in IdsOf(o) : i \in claimed \cup closed \/ booked[i] # {}}

\* requireNoExecutionReportActivity
NoActivity(o) == o \notin touched /\ Reporting(o) = {}

\* eligible(detail, claim): own is the set of ids whose claim is excused.
Eligible(o, own) ==
    /\ status[o] = "committed"
    /\ trades[o] = 0
    /\ o \notin touched \cup confirmed
    /\ Reporting(o) \subseteq own

Linked(i) == link[CallOrder[i]] = i

Continues_Bug(k, cum) == k > cum

\* The fill with cumulative quantity k is the next one after cum.
Continues(k, cum) == k = cum + 1

MissingForGood_Bug(i) == i \notin acked

\* An order the venue does not know was never placed there: it has no venue
\* id and its link is older than missingOrderGrace.
MissingForGood(i) == i \notin acked /\ i \in aged

Verdict_Bug(o) == "refused"

\* What the caller of a refused send is told of the order it reads.
Verdict(o) == IF status[o] = "cancelled" THEN "refused" ELSE "unknown"

OpenLinks_Bug(c) ==
    {i \in Calls \ acked : Linked(i) /\ CallConn[i] = c /\ ~Terminal(CallOrder[i])}

\* ListOpenVenueOrders: rows of the connection whose order is not terminal.
OpenLinks(c) ==
    {i \in Calls : Linked(i) /\ CallConn[i] = c /\ ~Terminal(CallOrder[i])}

\* A store or sink call fails without effect.
Fault == faults < MaxFaults /\ faults' = faults + 1
NoFault == UNCHANGED faults

-----------------------------------------------------------------------------
(* Reports of the workers, each atomic with the order state it settles.     *)
(* They pass the order's account lane, so they wait for the request in it.  *)

LaneFree(o) == lane[o] = Free

\* The claim report is a workflow report of status committed.
StoreClaim(i) ==
    LET o == CallOrder[i] IN
    /\ status' = [status EXCEPT ![o] = "committed"]
    /\ claimed' = claimed \cup {i}
    /\ UNCHANGED <<trades, touched, confirmed, closed, booked>>

StoreFill_CountedTwice(i, k) ==
    LET o == CallOrder[i] IN
    /\ status' = [status EXCEPT
                    ![o] = IF k = Qty THEN "filled" ELSE "partially_filled"]
    /\ trades' = [trades EXCEPT ![o] = @ + 1]
    /\ booked' = [booked EXCEPT ![i] = @ \cup {trades[o] + k}]
    /\ UNCHANGED <<touched, confirmed, claimed, closed>>

StoreFill_EarlyFinal(i, k) ==
    LET o == CallOrder[i] IN
    /\ status' = [status EXCEPT ![o] = "filled"]
    /\ trades' = [trades EXCEPT ![o] = @ + 1]
    /\ booked' = [booked EXCEPT ![i] = @ \cup {k}]
    /\ UNCHANGED <<touched, confirmed, claimed, closed>>

\* Fill report fill:<k>; the venue flags the last unit as final.
StoreFill(i, k) ==
    LET o == CallOrder[i] IN
    /\ status' = [status EXCEPT
                    ![o] = IF k = Qty THEN "filled" ELSE "partially_filled"]
    /\ trades' = [trades EXCEPT ![o] = @ + 1]
    /\ booked' = [booked EXCEPT ![i] = @ \cup {k}]
    /\ UNCHANGED <<touched, confirmed, claimed, closed>>

\* The done report cancels with leaves 0; a stored one leaves all unchanged.
StoreDone(i) ==
    LET o == CallOrder[i] IN
    IF i \in closed \/ Terminal(o)
    THEN UNCHANGED <<orderVars, reportVars>>
    ELSE /\ status' = [status EXCEPT ![o] = "cancelled"]
         /\ closed' = closed \cup {i}
         /\ UNCHANGED <<trades, touched, confirmed, claimed, booked>>

-----------------------------------------------------------------------------
(* Worker control *)

Goto(c, p) == pc' = [pc EXCEPT ![c] = p]

Track_Bug(c, i) == UNCHANGED pending

Track(c, i) == pending' = [pending EXCEPT ![c] = @ \cup {i}]

Untrack_Bug(c, i) == pending' = [pending EXCEPT ![c] = {}]

Untrack(c, i) == pending' = [pending EXCEPT ![c] = @ \ {i}]

Finish_Bug(c, r) == Goto(c, "idle") /\ UNCHANGED <<job, seen, snap, result>>

\* The worker posts the result of its task and returns to its select.
Finish(c, r) ==
    /\ Goto(c, "idle")
    /\ result' = [result EXCEPT ![job[c]] = r]
    /\ UNCHANGED <<job, seen, snap>>

Settled_Bug(c, retry) ==
    /\ Goto(c, "scan")
    /\ Untrack(c, job[c])
    /\ UNCHANGED <<job, seen, snap, relist, queue>>

\* The end of trackReconcile: retry keeps the id pending.
Settled(c, retry) ==
    /\ Goto(c, "scan")
    /\ IF retry THEN Track(c, job[c]) ELSE Untrack(c, job[c])
    /\ UNCHANGED <<job, seen, snap, relist, queue>>

At(c, p) == pc[c] = p

\* What a worker's step leaves alone.
Quiet == UNCHANGED <<phase, lane, caller, answer, crashes, ops>>

-----------------------------------------------------------------------------
(* Callers: Service.sendOrder and Runtime.submit *)

\* A held order is offered to its worker.
Offer(i) ==
    /\ caller[i] = "new"
    /\ caller' = [caller EXCEPT ![i] = "offered"]
    /\ UNCHANGED <<store, venueVars, phase, workerVars, retryVars, result,
                   answer, lane, sends, faults, crashes, ops>>

\* submit fails before the hand-off: ErrNotSent.  The caller's context may end
\* and the connection may be disabled or unavailable at any time.
RefuseEarly(i) ==
    /\ caller[i] = "offered"
    /\ caller' = [caller EXCEPT ![i] = "unsent"]
    /\ UNCHANGED <<store, venueVars, phase, workerVars, retryVars, result,
                   answer, lane, sends, faults, crashes, ops>>

\* The worker takes the task off its unbuffered channel.
HandOff(c, i) ==
    /\ phase = "up" /\ At(c, "idle")
    /\ caller[i] = "offered" /\ CallConn[i] = c
    /\ caller' = [caller EXCEPT ![i] = "handed"]
    /\ Goto(c, "check")
    /\ job' = [job EXCEPT ![c] = i]
    /\ UNCHANGED <<store, venueVars, phase, seen, snap, retryVars, result,
                   answer, lane, sends, faults, crashes, ops>>

\* The caller's context or the runtime's ends the wait: the worker goes on.
Abandon(i) ==
    /\ caller[i] = "handed"
    /\ caller' = [caller EXCEPT ![i] = "end"]
    /\ answer' = [answer EXCEPT ![i] = "unknown"]
    /\ UNCHANGED <<store, venueVars, phase, workerVars, retryVars, result,
                   lane, sends, faults, crashes, ops>>

\* The venue order is read back before an acknowledgement is passed on.
Return(i) ==
    /\ caller[i] = "handed" /\ result[i] # "none"
    /\ \/ /\ result[i] = "ack"
          /\ caller' = [caller EXCEPT ![i] = "end"]
          /\ \/ NoFault /\ answer' = [answer EXCEPT ![i] = "acknowledged"]
             \/ Fault /\ answer' = [answer EXCEPT ![i] = "unknown"]
       \/ /\ result[i] = "unknown" /\ NoFault
          /\ caller' = [caller EXCEPT ![i] = "end"]
          /\ answer' = [answer EXCEPT ![i] = "unknown"]
       \/ /\ result[i] = "refused" /\ NoFault
          /\ caller' = [caller EXCEPT ![i] = "verify"]
          /\ UNCHANGED answer
       \/ /\ result[i] = "unsent" /\ NoFault
          /\ caller' = [caller EXCEPT ![i] = "unsent"]
          /\ UNCHANGED answer
    /\ UNCHANGED <<store, venueVars, phase, workerVars, retryVars, result,
                   lane, sends, crashes, ops>>

\* The venue refused: the caller is told so once the order reads cancelled.
Verify(i) ==
    /\ caller[i] = "verify"
    /\ caller' = [caller EXCEPT ![i] = "end"]
    /\ \/ /\ NoFault
          /\ answer' = [answer EXCEPT ![i] = Verdict(CallOrder[i])]
       \/ Fault /\ answer' = [answer EXCEPT ![i] = "unknown"]
    /\ UNCHANGED <<store, venueVars, phase, workerVars, retryVars, result,
                   lane, sends, crashes, ops>>

\* ErrNotSent: CancelOrder enters the account lane like an operator's cancel.
CancelUnsent(i) ==
    LET o == CallOrder[i]
        Accepted == NoVenueOrder(o) /\ Modifiable(o) /\ NoActivity(o)
    IN  /\ caller[i] = "unsent" /\ LaneFree(o)
        /\ \/ /\ NoFault /\ Accepted
              /\ lane' = [lane EXCEPT ![o] = [kind |-> "cancel", by |-> i]]
              /\ caller' = [caller EXCEPT ![i] = "cancelling"]
              /\ UNCHANGED answer
           \/ /\ (NoFault /\ ~Accepted) \/ Fault
              /\ caller' = [caller EXCEPT ![i] = "end"]
              /\ answer' = [answer EXCEPT ![i] = "unknown"]
              /\ UNCHANGED lane
        /\ UNCHANGED <<store, venueVars, phase, workerVars, retryVars, result,
                       sends, crashes, ops>>

-----------------------------------------------------------------------------
(* Operator requests: checked when they enter the lane, stored when they    *)
(* leave it; a worker may link the order in between.                        *)

OpEnter(o, k) ==
    /\ ops < MaxOps /\ ops' = ops + 1
    /\ LaneFree(o) /\ NoVenueOrder(o) /\ Modifiable(o)
    /\ k \in {"cancel", "confirm"} => NoActivity(o)
    /\ lane' = [lane EXCEPT ![o] = [kind |-> k, by |-> NoCall]]
    /\ UNCHANGED <<store, venueVars, phase, workerVars, retryVars, callVars,
                   sends, faults, crashes>>

OpStore(o) ==
    LET k == lane[o].kind
        i == lane[o].by
    IN  /\ ~LaneFree(o)
        /\ lane' = [lane EXCEPT ![o] = Free]
        /\ confirmed' = IF k = "confirm" THEN confirmed \cup {o} ELSE confirmed
        /\ touched' = IF k = "confirm" THEN touched ELSE touched \cup {o}
        /\ trades' = IF k \in {"fill", "final"}
                     THEN [trades EXCEPT ![o] = @ + 1] ELSE trades
        /\ status' = [status EXCEPT ![o] =
                        CASE k = "fill"    -> "partially_filled"
                          [] k = "final"   -> "filled"
                          [] k = "report"  -> "committed"
                          [] k = "confirm" -> @
                          [] OTHER         -> "cancelled"]
        /\ IF i = NoCall
           THEN UNCHANGED <<caller, answer>>
           ELSE /\ caller' = [caller EXCEPT ![i] = "end"]
                /\ answer' = [answer EXCEPT ![i] = "refused"]
        /\ UNCHANGED <<reportVars, linkVars, venueVars, phase, workerVars,
                       retryVars, result, sends, faults, crashes, ops>>

-----------------------------------------------------------------------------
(* worker.send *)

\* checkDestination, then the second read of the order.
Check(c) ==
    LET i == job[c] IN
    /\ At(c, "check")
    /\ \/ Finish(c, "unsent")
       \/ /\ Eligible(CallOrder[i], {})
          /\ Goto(c, "link")
          /\ UNCHANGED <<job, seen, snap, result>>
    /\ Quiet
    /\ UNCHANGED <<store, venueVars, retryVars, sends, faults>>

CreateLink_Bug(c) ==
    LET i == job[c] IN
    /\ At(c, "link")
    /\ link' = [link EXCEPT ![CallOrder[i]] = i]
    /\ Goto(c, "claim")
    /\ Quiet
    /\ UNCHANGED <<orderVars, reportVars, attempted, acked, aged, venueVars, job,
                   seen, snap, retryVars, result, sends, faults>>

\* CreateVenueOrder: one row per order.
CreateLink(c) ==
    LET i == job[c]
        o == CallOrder[i]
    IN  /\ At(c, "link")
        /\ \/ /\ NoFault /\ link[o] = NoCall
              /\ link' = [link EXCEPT ![o] = i]
              /\ Goto(c, "claim")
              /\ UNCHANGED <<job, seen, snap, result>>
           \/ /\ NoFault /\ link[o] # NoCall
              /\ Finish(c, "unsent")
              /\ UNCHANGED link
           \/ Fault /\ Finish(c, "unsent") /\ UNCHANGED link
        /\ Quiet
        /\ UNCHANGED <<orderVars, reportVars, attempted, acked, aged,
                       venueVars, retryVars, sends>>

\* The claim report waits for the lane.
Claim(c) ==
    LET i == job[c]
        o == CallOrder[i]
    IN  /\ At(c, "claim") /\ LaneFree(o)
        /\ \/ /\ NoFault /\ Modifiable(o)
              /\ StoreClaim(i)
              /\ Goto(c, "recheck")
           \/ /\ NoFault /\ ~Modifiable(o)
              /\ Goto(c, "unlink")
              /\ UNCHANGED <<orderVars, reportVars>>
           \/ /\ Fault
              /\ Goto(c, "unlink")
              /\ UNCHANGED <<orderVars, reportVars>>
        /\ Quiet
        /\ UNCHANGED <<linkVars, venueVars, job, seen, snap, retryVars,
                       result, sends>>

\* The order is read again: an operator may have slipped in before the claim.
Recheck(c) ==
    LET i == job[c] IN
    /\ At(c, "recheck")
    /\ \/ /\ NoFault /\ Eligible(CallOrder[i], {i})
          /\ Track(c, i)
          /\ Goto(c, "mark")
          /\ UNCHANGED <<job, seen, snap, result>>
       \/ /\ NoFault /\ ~Eligible(CallOrder[i], {i})
          /\ Goto(c, "unlink")
          /\ UNCHANGED <<job, seen, snap, result, pending>>
       \/ /\ Fault
          /\ Track(c, i)
          /\ Finish(c, "unknown")
    /\ Quiet
    /\ UNCHANGED <<store, venueVars, relist, queue, sends>>

Unlink_Bug(c) ==
    LET i == job[c] IN
    /\ At(c, "unlink")
    /\ \/ NoFault /\ link' = [link EXCEPT ![CallOrder[i]] = NoCall]
       \/ Fault /\ UNCHANGED link
    /\ Finish(c, "unsent")
    /\ Quiet
    /\ UNCHANGED <<orderVars, reportVars, attempted, acked, aged, venueVars,
                   retryVars, sends>>

\* DeleteVenueOrder after a failed or outrun claim.
Unlink(c) ==
    LET i == job[c] IN
    /\ At(c, "unlink")
    /\ \/ /\ NoFault
          /\ link' = [link EXCEPT ![CallOrder[i]] = NoCall]
          /\ Finish(c, "unsent")
          /\ UNCHANGED pending
       \/ /\ Fault
          /\ Track(c, i)
          /\ Finish(c, "unknown")
          /\ UNCHANGED link
    /\ Quiet
    /\ UNCHANGED <<orderVars, reportVars, attempted, acked, aged, venueVars,
                   relist, queue, sends>>

\* MarkVenueOrderSendAttempted.
Mark(c) ==
    LET i == job[c] IN
    /\ At(c, "mark")
    /\ \/ /\ NoFault
          /\ attempted' = attempted \cup {i}
          /\ Goto(c, "issue")
          /\ UNCHANGED <<job, seen, snap, result>>
       \/ Fault /\ Finish(c, "unknown") /\ UNCHANGED attempted
    /\ Quiet
    /\ UNCHANGED <<orderVars, reportVars, link, acked, aged, venueVars,
                   retryVars, sends>>

\* Connector.Send puts the request on the wire ...
Issue(c) ==
    LET i == job[c] IN
    /\ At(c, "issue")
    /\ venue' = [venue EXCEPT ![i] = "inflight"]
    /\ sends' = [sends EXCEPT ![CallOrder[i]] = @ + 1]
    /\ Goto(c, "await")
    /\ Quiet
    /\ UNCHANGED <<store, executed, job, seen, snap, retryVars, result, faults>>

Await_Bug(c) ==
    /\ At(c, "await")
    /\ Goto(c, IF venue[job[c]] \in AtVenue THEN "ack" ELSE "issue")
    /\ Quiet
    /\ UNCHANGED <<store, venueVars, job, seen, snap, retryVars, result, sends,
                   faults>>

\* ... and returns the venue's answer, or an unknown outcome at any time.
Await(c) ==
    LET i == job[c] IN
    /\ At(c, "await")
    /\ \/ /\ venue[i] \in AtVenue
          /\ Goto(c, "ack")
          /\ UNCHANGED <<job, seen, snap, result>>
       \/ /\ venue[i] = "refused"
          /\ Goto(c, "refuse")
          /\ UNCHANGED <<job, seen, snap, result>>
       \/ Finish(c, "unknown")
    /\ Quiet
    /\ UNCHANGED <<store, venueVars, retryVars, sends, faults>>

\* SetVenueOrderID of the acknowledgement.
Acknowledge(c) ==
    LET i == job[c] IN
    /\ At(c, "ack")
    /\ \/ /\ NoFault
          /\ acked' = acked \cup {i}
          /\ Untrack(c, i)
          /\ Finish(c, "ack")
       \/ Fault /\ Finish(c, "unknown") /\ UNCHANGED <<acked, pending>>
    /\ Quiet
    /\ UNCHANGED <<orderVars, reportVars, link, attempted, aged, venueVars,
                   relist, queue, sends>>

\* A definitive refusal closes the order, or leaves it to the retry ticker.
Refuse(c) ==
    LET i == job[c]
        o == CallOrder[i]
    IN  /\ At(c, "refuse") /\ LaneFree(o)
        /\ \/ /\ NoFault /\ (Terminal(o) => i \in closed)
              /\ StoreDone(i)
              /\ Untrack(c, i)
           \/ /\ NoFault /\ Terminal(o) /\ i \notin closed
              /\ UNCHANGED <<orderVars, reportVars, pending>>
           \/ Fault /\ UNCHANGED <<orderVars, reportVars, pending>>
        /\ Finish(c, "refused")
        /\ Quiet
        /\ UNCHANGED <<linkVars, venueVars, relist, queue, sends>>

-----------------------------------------------------------------------------
(* The worker's select: stream events and the retry ticker *)

\* EventConnected: every open link of the connection is reconciled.
Connected(c) ==
    /\ phase = "up" /\ At(c, "idle")
    /\ \/ /\ NoFault
          /\ relist' = [relist EXCEPT ![c] = FALSE]
          /\ queue' = [queue EXCEPT ![c] = OpenLinks(c)]
          /\ Goto(c, "scan")
       \/ /\ Fault
          /\ relist' = [relist EXCEPT ![c] = TRUE]
          /\ UNCHANGED <<queue, pc>>
    /\ Quiet
    /\ UNCHANGED <<store, venueVars, job, seen, snap, pending, result, sends>>

\* The retry ticker: a listing that failed, then every pending id.
Tick(c) ==
    /\ phase = "up" /\ At(c, "idle")
    /\ relist[c] \/ pending[c] # {}
    /\ \/ /\ NoFault
          /\ queue' = [queue EXCEPT ![c] =
               pending[c] \cup IF relist[c] THEN OpenLinks(c) ELSE {}]
          /\ relist' = [relist EXCEPT ![c] = FALSE]
       \/ /\ Fault /\ relist[c]
          /\ queue' = [queue EXCEPT ![c] = pending[c]]
          /\ UNCHANGED relist
    /\ Goto(c, "scan")
    /\ Quiet
    /\ UNCHANGED <<store, venueVars, job, seen, snap, pending, result, sends>>

\* EventOrder for id i.  The stream may drop, repeat and reorder its events,
\* so any event the venue ever had a cause for may come now.
OrderEvent(c, i) ==
    /\ phase = "up" /\ At(c, "idle")
    /\ venue[i] \in AtVenue /\ CallConn[i] = c
    /\ \/ /\ NoFault /\ Linked(i)
          /\ queue' = [queue EXCEPT ![c] = {i}]
          /\ Goto(c, "scan")
          /\ UNCHANGED pending
       \/ Fault /\ Track(c, i) /\ UNCHANGED <<queue, pc>>
    /\ Quiet
    /\ UNCHANGED <<store, venueVars, job, seen, snap, relist, result, sends>>

\* EventFill for the execution of i with cumulative quantity k: handleFill.
FillEvent(c, i, k) ==
    LET o == CallOrder[i] IN
    /\ phase = "up" /\ At(c, "idle")
    /\ k <= executed[i] /\ CallConn[i] = c
    /\ \/ /\ NoFault /\ Linked(i) /\ k > trades[o] /\ Terminal(o)
          /\ Untrack(c, i)
          /\ UNCHANGED <<orderVars, reportVars, queue, pc>>
       \/ /\ NoFault /\ Linked(i) /\ k > trades[o] /\ ~Terminal(o)
          /\ ~Continues(k, trades[o])
          /\ queue' = [queue EXCEPT ![c] = {i}]
          /\ Goto(c, "scan")
          /\ UNCHANGED <<orderVars, reportVars, pending>>
       \/ /\ NoFault /\ Linked(i) /\ Continues(k, trades[o]) /\ ~Terminal(o)
          /\ LaneFree(o) /\ k \notin booked[i]
          /\ StoreFill(i, k)
          /\ UNCHANGED <<pending, queue, pc>>
       \/ /\ Fault /\ Track(c, i)
          /\ UNCHANGED <<orderVars, reportVars, queue, pc>>
    /\ Quiet
    /\ UNCHANGED <<linkVars, venueVars, job, seen, snap, relist, result, sends>>

-----------------------------------------------------------------------------
(* worker.reconcile, one id of the queue after the other *)

\* The next id; a pass over several ids ends early when the runtime stops.
Scan(c) ==
    /\ At(c, "scan")
    /\ \/ /\ queue[c] = {} /\ Goto(c, "idle")
          /\ UNCHANGED <<job, queue>>
       \/ \E i \in queue[c] :
            /\ phase = "up"
            /\ job' = [job EXCEPT ![c] = i]
            /\ queue' = [queue EXCEPT ![c] = @ \ {i}]
            /\ Goto(c, "read")
    /\ Quiet
    /\ UNCHANGED <<store, venueVars, seen, snap, pending, relist, result,
                   sends, faults>>

\* The link and the order are read; what is read is used until the id settles.
Read(c) ==
    LET i == job[c]
        o == CallOrder[i]
    IN  /\ At(c, "read") /\ phase = "up"
        /\ \/ NoFault /\ ~Linked(i) /\ Settled(c, FALSE)
           \/ /\ NoFault /\ Linked(i) /\ i \notin attempted
              /\ Goto(c, IF i \in claimed /\ Eligible(o, {i})
                         THEN "resolve" ELSE "discard")
              /\ UNCHANGED <<job, seen, snap, retryVars>>
           \/ /\ NoFault /\ Linked(i) /\ i \in attempted /\ Terminal(o)
              /\ Settled(c, FALSE)
           \/ /\ NoFault /\ Linked(i) /\ i \in attempted /\ ~Terminal(o)
              /\ seen' = [seen EXCEPT ![c] = trades[o]]
              /\ Goto(c, "lookup")
              /\ UNCHANGED <<job, snap, retryVars>>
           \/ Fault /\ Settled(c, TRUE)
        /\ Quiet
        /\ UNCHANGED <<store, venueVars, result, sends>>

\* An unsent link whose claim is missing or outrun goes away.
Discard(c) ==
    LET i == job[c] IN
    /\ At(c, "discard") /\ phase = "up"
    /\ \/ /\ NoFault
          /\ link' = [link EXCEPT ![CallOrder[i]] = NoCall]
          /\ Settled(c, FALSE)
       \/ Fault /\ Settled(c, TRUE) /\ UNCHANGED link
    /\ Quiet
    /\ UNCHANGED <<orderVars, reportVars, attempted, acked, aged, venueVars,
                   result, sends>>

\* Connector.Lookup, then SetVenueOrderID for an order found.
Lookup(c) ==
    LET i == job[c] IN
    /\ At(c, "lookup") /\ phase = "up"
    /\ \/ /\ NoFault /\ venue[i] \notin AtVenue
          /\ IF MissingForGood(i)
             THEN Goto(c, "close") /\ UNCHANGED <<job, seen, snap, retryVars>>
             ELSE Settled(c, TRUE)
          /\ UNCHANGED acked
       \/ /\ NoFault /\ venue[i] \in AtVenue
          /\ snap' = [snap EXCEPT
               ![c] = [st |-> venue[i], filled |-> executed[i]]]
          /\ acked' = acked \cup {i}
          /\ Goto(c, "apply")
          /\ UNCHANGED <<job, seen, retryVars>>
       \/ Fault /\ Settled(c, TRUE) /\ UNCHANGED acked
    /\ Quiet
    /\ UNCHANGED <<orderVars, reportVars, link, attempted, aged, venueVars,
                   result, sends>>

\* The fills of the snapshot beyond what was read, each followed by a re-read;
\* then the terminal barrier and the venue's status.
Apply(c) ==
    LET i == job[c]
        o == CallOrder[i]
        k == seen[c] + 1
    IN  /\ At(c, "apply")
        /\ \/ /\ NoFault /\ k <= snap[c].filled /\ LaneFree(o)
              /\ IF k \notin booked[i] /\ Terminal(o)
                 THEN /\ Settled(c, FALSE)
                      /\ UNCHANGED <<orderVars, reportVars>>
                 ELSE /\ IF k \in booked[i]
                         THEN UNCHANGED <<orderVars, reportVars>>
                         ELSE StoreFill(i, k)
                      /\ IF trades'[o] = k
                         THEN /\ seen' = [seen EXCEPT ![c] = k]
                              /\ UNCHANGED <<pc, job, snap, retryVars>>
                         ELSE Settled(c, TRUE)
           \/ /\ NoFault /\ seen[c] > snap[c].filled
              /\ Settled(c, TRUE)
              /\ UNCHANGED <<orderVars, reportVars>>
           \/ /\ NoFault /\ seen[c] = snap[c].filled
              /\ IF snap[c].st = "cancelled"
                 THEN Goto(c, "close") /\ UNCHANGED <<job, seen, snap, retryVars>>
                 ELSE Settled(c, snap[c].st = "filled" /\ ~Terminal(o))
              /\ UNCHANGED <<orderVars, reportVars>>
           \/ Fault /\ Settled(c, TRUE) /\ UNCHANGED <<orderVars, reportVars>>
        /\ Quiet
        /\ UNCHANGED <<linkVars, venueVars, result, sends>>

\* cancelOrder of a reconciliation; "resolve" is its use for an unsent link.
Close(c) ==
    LET i == job[c] IN
    /\ pc[c] \in {"resolve", "close"} /\ LaneFree(CallOrder[i])
    /\ \/ NoFault /\ StoreDone(i) /\ Settled(c, FALSE)
       \/ /\ Fault /\ Settled(c, TRUE)
          /\ UNCHANGED <<orderVars, reportVars>>
    /\ Quiet
    /\ UNCHANGED <<linkVars, venueVars, result, sends>>

-----------------------------------------------------------------------------
(* Lifecycle, time and the venue *)

\* Runtime.stop cancels the workers' context; each finishes what it must.
Stop ==
    /\ phase = "up" /\ crashes < MaxCrashes
    /\ phase' = "stopping" /\ crashes' = crashes + 1
    /\ UNCHANGED <<store, venueVars, workerVars, retryVars, callVars, lane,
                   sends, faults, ops>>

\* A worker leaves its loop, or fails the store read of a reconciliation.
Exit(c) ==
    /\ phase = "stopping"
    /\ pc[c] \in {"idle", "scan", "read", "discard", "lookup", "apply"}
    /\ Goto(c, "off")
    /\ UNCHANGED <<store, venueVars, phase, job, seen, snap, retryVars,
                   callVars, lane, sends, faults, crashes, ops>>

\* Runtime.start: pending is filled from the store.
Start ==
    /\ phase = "stopping" /\ \A c \in Conns : At(c, "off")
    /\ phase' = "up"
    /\ pc' = [c \in Conns |-> "idle"]
    /\ pending' = [c \in Conns |-> OpenLinks(c)]
    /\ relist' = [c \in Conns |-> FALSE]
    /\ queue' = [c \in Conns |-> {}]
    /\ UNCHANGED <<store, venueVars, job, seen, snap, callVars, lane, sends,
                   faults, crashes, ops>>

\* The process dies: callers, workers and lane requests with it.
Crash ==
    /\ crashes < MaxCrashes /\ crashes' = crashes + 1
    /\ phase' = "stopping"
    /\ pc' = [c \in Conns |-> "off"]
    /\ lane' = [o \in Orders |-> Free]
    /\ caller' = [i \in Calls |->
                    IF caller[i] \in {"new", "end"} THEN caller[i] ELSE "dead"]
    /\ UNCHANGED <<store, venueVars, job, seen, snap, retryVars, result,
                   answer, sends, faults, ops>>

\* A worker is between creating the link of i and the end of its send.
Sending(i) == \E c \in Conns : job[c] = i /\ pc[c] \in SendPCs

\* missingOrderGrace after the link's created_at has passed.
Age(i) ==
    /\ Linked(i) /\ i \notin aged
    /\ TimelySend => venue[i] # "inflight" /\ ~Sending(i)
    /\ aged' = aged \cup {i}
    /\ UNCHANGED <<orderVars, reportVars, link, attempted, acked, venueVars,
                   phase, workerVars, retryVars, callVars, lane, sends,
                   faults, crashes, ops>>

VenueStep(i) ==
    /\ \/ /\ venue[i] = "inflight"
          /\ \E v \in {"open", "refused", "lost"} :
                venue' = [venue EXCEPT ![i] = v]
          /\ UNCHANGED executed
       \/ /\ venue[i] = "open" /\ executed[i] < Qty
          /\ executed' = [executed EXCEPT ![i] = @ + 1]
          /\ venue' = [venue EXCEPT
               ![i] = IF executed[i] + 1 = Qty THEN "filled" ELSE "open"]
       \/ /\ venue[i] = "open"
          /\ \E v \in {"cancelled", "replaced"} :
                venue' = [venue EXCEPT ![i] = v]
          /\ UNCHANGED executed
    /\ UNCHANGED <<store, phase, workerVars, retryVars, callVars, lane, sends,
                   faults, crashes, ops>>

-----------------------------------------------------------------------------
Send(c) == \/ Check(c) \/ CreateLink(c) \/ Claim(c) \/ Recheck(c) \/ Unlink(c)
           \/ Mark(c) \/ Issue(c) \/ Await(c) \/ Acknowledge(c) \/ Refuse(c)

Reconcile(c) == \/ Scan(c) \/ Read(c) \/ Discard(c) \/ Lookup(c) \/ Apply(c)
                \/ Close(c)

Call(i) == \/ Offer(i) \/ RefuseEarly(i) \/ Abandon(i) \/ Return(i)
           \/ Verify(i) \/ CancelUnsent(i)

Stream(c) == \/ Connected(c)
             \/ \E i \in Calls : \/ OrderEvent(c, i)
                                 \/ \E k \in 1..Qty : FillEvent(c, i, k)

Next ==
    \/ \E c \in Conns : \/ Send(c) \/ Reconcile(c) \/ Stream(c) \/ Tick(c)
                        \/ Exit(c) \/ \E i \in Calls : HandOff(c, i)
    \/ \E i \in Calls : Call(i) \/ Age(i) \/ VenueStep(i)
    \/ \E o \in Orders : OpStore(o) \/ \E k \in OpKinds : OpEnter(o, k)
    \/ Stop \/ Start \/ Crash

Spec == Init /\ [][Next]_vars

-----------------------------------------------------------------------------
(* Safety *)

\* Connector.Send is called at most once for an order, whatever calls,
\* connections, failures, crashes and restarts do (doc.go: durable claims and
\* send-attempt markers prevent resends).
OneSend == \A o \in Orders : sends[o] <= 1

\* Why, step by step: the link names a call of its order, a worker is busy with
\* a call of its own connection, what was marked stays linked, a worker that
\* may mark or delete a link holds an unmarked one, and a worker about to send
\* holds the marked link of an order that was never sent.
LinkOwned == \A o \in Orders : link[o] # NoCall => CallOrder[link[o]] = o

JobOwned ==
    \A c \in Conns : pc[c] \in BusyPCs => job[c] \in Calls /\ CallConn[job[c]] = c

RetriesOwned == \A c \in Conns : \A i \in pending[c] \cup queue[c] : CallConn[i] = c

MarkedStaysLinked == \A i \in attempted : Linked(i)

UnmarkedInHand ==
    \A c \in Conns :
        pc[c] \in {"claim", "recheck", "unlink", "mark", "resolve", "discard"}
            => Linked(job[c]) /\ job[c] \notin attempted

MarkedInHand ==
    \A c \in Conns : pc[c] = "issue" =>
        Linked(job[c]) /\ job[c] \in attempted /\ sends[CallOrder[job[c]]] = 0

SentIsMarked == \A o \in Orders : sends[o] > 0 => link[o] \in attempted

SendInv ==
    /\ LinkOwned /\ JobOwned /\ RetriesOwned
    /\ MarkedStaysLinked /\ UnmarkedInHand /\ MarkedInHand
    /\ SentIsMarked /\ OneSend

\* A call that failed with ErrNotSent left no link and no request behind, now
\* or later: sendOrder cancels the order on the strength of it.
NotSentMeansNotSent ==
    \A i \in Calls :
        (result[i] = "unsent" \/ caller[i] \in {"unsent", "cancelling"})
            => venue[i] = "absent" /\ i \notin attempted /\ ~Linked(i)

\* Once an order was marked for sending its trades are exactly the venue's
\* executions 1..n, each booked once, never ahead of the venue: whatever the
\* stream dropped, repeated or reordered, and however often it was replayed.
BookedIsVenuePrefix ==
    \A i \in attempted :
        /\ booked[i] = 1..trades[CallOrder[i]]
        /\ trades[CallOrder[i]] <= executed[i]

\* The terminal barrier: an order that was marked for sending is terminal only
\* when its venue order can execute no more and every execution is booked.
TerminalBarrier ==
    \A i \in attempted : Terminal(CallOrder[i]) =>
        /\ venue[i] \notin {"inflight", "open"}
        /\ booked[i] = 1..executed[i]

\* A caller is told "refused" only when the order is cancelled without trades
\* and no call for it, past or future, has an order at a venue (docs/api.md).
RefusedMeansNoVenueOrder ==
    \A i \in Calls : answer[i] = "refused" =>
        /\ status[CallOrder[i]] = "cancelled"
        /\ trades[CallOrder[i]] = 0
        /\ \A j \in IdsOf(CallOrder[i]) : venue[j] \in {"absent", "refused"}

\* A stored claim behind a live link fences the order: no operator request is
\* inside its lane, so what the worker re-reads cannot be outrun.
ClaimFence ==
    \A o \in Orders : link[o] \in claimed => LaneFree(o)

\* While the runtime is up nothing unfinished is forgotten: an open link whose
\* send has no acknowledgement is pending, or its worker is busy with it.
NothingForgotten ==
    phase = "up" => \A i \in Calls :
        Linked(i) /\ i \notin acked /\ ~Terminal(CallOrder[i]) =>
            LET c == CallConn[i]
            IN  i \in pending[c] \/ (job[c] = i /\ pc[c] \in BusyPCs)

\* A finished order stays finished: no late fill, claim, cancel or operator
\* request that was checked earlier changes it.
FinishedStaysFinished ==
    [][\A o \in Orders : Terminal(o) =>
          status'[o] = status[o] /\ trades'[o] = trades[o]]_vars

-----------------------------------------------------------------------------
(* What the protocol delivers.  The link of an order the venue was asked to  *)
(* execute is never replaced, so it names the order's venue order.           *)

Asked == {o \in Orders : sends[o] > 0}

Delivery == INSTANCE OrderDelivery WITH
    outcome  <- [o \in Orders |-> IF Terminal(o) THEN status[o] ELSE "open"],
    asked    <- Asked,
    live     <- {o \in Orders :
                    \E i \in IdsOf(o) : venue[i] \in {"inflight", "open"}},
    executed <- [o \in Orders |-> IF o \in Asked THEN executed[link[o]] ELSE 0],
    booked   <- [o \in Orders |-> IF o \in Asked THEN trades[o] ELSE 0]

\* The runtime implements OrderDelivery.
Delivers == Delivery!Spec

-----------------------------------------------------------------------------
(* Liveness *)

(* The worker goroutine and the process supervisor keep running; select      *)
(* serves every ready case again and again, so the ticker and the hand-off   *)
(* get their turn; lanes drain; time passes; requests on the wire arrive or  *)
(* are lost.                                                                 *)
Fairness ==
    /\ \A c \in Conns :
         /\ WF_vars(Send(c)) /\ WF_vars(Reconcile(c)) /\ WF_vars(Exit(c))
         /\ SF_vars(Tick(c))
         /\ \A i \in Calls : SF_vars(HandOff(c, i))
    /\ \A i \in Calls :
         /\ WF_vars(Return(i)) /\ WF_vars(Verify(i)) /\ WF_vars(CancelUnsent(i))
         /\ WF_vars(Age(i)) /\ WF_vars(venue[i] = "inflight" /\ VenueStep(i))
    /\ \A o \in Orders : WF_vars(OpStore(o))
    /\ WF_vars(Start)

FairSpec == Spec /\ Fairness

\* A stream that may have lost an event reconnects, and says so.
StreamSpec == FairSpec /\ \A c \in Conns : SF_vars(Connected(c))

\* The venue order of i is one the runtime has to wait for: still open, or
\* replaced, which it leaves to the operator.
Waiting(i) == venue[i] \in {"open", "replaced"}

\* A send of unknown outcome is settled by the retry ticker alone, without any
\* stream: the order closes, or its venue order is found.
UnknownSendsResolve ==
    \A i \in Calls :
        i \in attempted ~> i \in acked \/ Terminal(CallOrder[i])

\* Once the venue is done with an order that reached the send step, never got
\* it, or the process died between the mark and the send, the order finishes
\* (docs/api.md: the runtime reconciles orders that reached the send step).
SendsResolve ==
    \A i \in Calls :
        i \in attempted /\ ~Waiting(i) ~> Terminal(CallOrder[i]) \/ Waiting(i)

\* A link that never reached the send step does not stay on an open order: it
\* is sent, deleted, or its order is closed.
UnsentLinksResolve ==
    \A i \in Calls :
        Linked(i) ~> i \in attempted \/ ~Linked(i) \/ Terminal(CallOrder[i])

\* Every caller is answered unless the process dies under it.
CallersAnswered ==
    \A i \in Calls : caller[i] = "offered" ~> caller[i] \in {"end", "dead"}

=============================================================================
