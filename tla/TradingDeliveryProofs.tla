------------------------ MODULE TradingDeliveryProofs ------------------------
(***************************************************************************)
(* The books of TradingRuntime agree with the venue: the trades of an      *)
(* order that was marked for sending are the venue's executions, each      *)
(* booked once and in order, and the order is closed only over complete    *)
(* books.  With it the runtime implements OrderDelivery.                   *)
(***************************************************************************)
EXTENDS TradingFenceProofs

-----------------------------------------------------------------------------
(* Books *)

\* What the venue can have executed in each of its states.
VenueShape ==
    \A i \in Calls :
        /\ venue[i] \in {"absent", "inflight", "refused", "lost"} => executed[i] = 0
        /\ executed[i] = Qty => venue[i] = "filled"
        /\ venue[i] = "filled" => executed[i] = Qty

\* Only a request that was sent is known at the venue.
KnownIsAsked ==
    \A i \in Calls : venue[i] # "absent" => sends[CallOrder[i]] > 0

\* A worker's snapshot is a state the venue order had; a final one it has.
SnapshotTrue ==
    \A c \in Conns : pc[c] = "apply" =>
        /\ snap[c].filled <= executed[job[c]]
        /\ snap[c].st # "open" =>
              venue[job[c]] = snap[c].st /\ executed[job[c]] = snap[c].filled

\* A worker has read no more trades than are stored.
SeenIsBooked ==
    \A c \in Conns : pc[c] \in {"lookup", "apply"} =>
        seen[c] <= trades[CallOrder[job[c]]]

\* A worker that refuses an order was refused by the venue.
RefusedInHand ==
    \A c \in Conns : pc[c] = "refuse" => venue[job[c]] = "refused"

\* Fills are booked for marked calls only.
BookedIsMarked == \A i \in Calls : booked[i] # {} => i \in attempted

\* The books and the venue, at every step of a worker.
BooksInv ==
    /\ VenueShape /\ KnownIsAsked /\ SnapshotTrue /\ SeenIsBooked
    /\ RefusedInHand /\ BookedIsMarked /\ BookedIsVenuePrefix

\* Initially nothing was executed or booked.
LEMMA InitBooks == Init => BooksInv
  BY BoundsAssumption
  DEF Init, BooksInv, VenueShape, KnownIsAsked, SnapshotTrue, SeenIsBooked,
      RefusedInHand, BookedIsMarked, BookedIsVenuePrefix

\* Steps that touch neither the venue, the marks nor the trades, and take no
\* worker to a step that compares them.
BooksAside ==
    /\ UNCHANGED <<venue, executed, sends, trades, booked, attempted, seen, snap>>
    /\ \A c \in Conns : pc'[c] \in {"lookup", "apply", "refuse"} =>
                            pc'[c] = pc[c] /\ job'[c] = job[c]

\* A step aside keeps the books.
LEMMA AsideKeepsBooks == BooksInv /\ BooksAside => BooksInv'
  BY DEF BooksInv, BooksAside, VenueShape, KnownIsAsked, SnapshotTrue,
     SeenIsBooked, RefusedInHand, BookedIsMarked, BookedIsVenuePrefix

\* No operator request is in the lane of an order with a marked id.
LEMMA MarkedIsFenced ==
  ASSUME WorkInv, MarkInv, FenceInv, NEW i \in attempted
  PROVE  LaneFree(CallOrder[i])
  BY CallsAssumption
  DEF WorkInv, TypeOK, LinksOK, MarkInv, MarkedStaysLinked, FenceInv,
      MarkedIsClaimed, ClaimFence,
     Linked

\* An order has at most one marked id, the linked one.
LEMMA OneMark ==
  ASSUME MarkInv, NEW i \in attempted, NEW j \in Calls,
         CallOrder[j] = CallOrder[i], Linked(j) \/ j \in attempted
  PROVE  i = j
  BY DEF MarkInv, MarkedStaysLinked, Linked

\* A worker books the next execution of a marked id, one the venue made, in a
\* free lane and on an open order.
Books(i) ==
    LET o == CallOrder[i] IN
    /\ i \in attempted /\ LaneFree(o) /\ ~Terminal(o)
    /\ trades[o] + 1 <= executed[i]
    /\ StoreFill(i, trades[o] + 1)

\* An execution report of the stream either changes nothing in the store or
\* books the next execution.
LEMMA FillEventBooks ==
  ASSUME WorkInv, MarkInv, CallInv, BooksInv,
         NEW c \in Conns, NEW i \in Calls, NEW k \in 1..Qty, FillEvent(c, i, k)
  PROVE  UNCHANGED <<orderVars, reportVars>> \/ (Linked(i) /\ Books(i))
<1>1. executed[i] > 0 => i \in attempted
  BY DEF CallInv, KnownIsMarked, BooksInv, VenueShape, WorkInv, TypeOK, VenueOK
<1>2. CASE UNCHANGED <<orderVars, reportVars>>
  BY <1>2
<1>3. CASE ~UNCHANGED <<orderVars, reportVars>>
  <2>1. /\ Linked(i) /\ ~Terminal(CallOrder[i]) /\ LaneFree(CallOrder[i])
        /\ k = trades[CallOrder[i]] + 1 /\ k <= executed[i]
        /\ StoreFill(i, k)
    BY <1>3 DEF FillEvent, Continues
  <2> QED
    BY <1>1, <2>1, BoundsAssumption DEF Books, WorkInv, TypeOK, VenueOK
<1> QED
  BY <1>2, <1>3

\* So does the application of a snapshot.
LEMMA ApplyBooks ==
  ASSUME WorkInv, MarkInv, FenceInv, BooksInv, NEW c \in Conns, Apply(c)
  PROVE  UNCHANGED <<orderVars, reportVars>> \/ Books(job[c])
<1> DEFINE i == job[c]  o == CallOrder[i]  k == seen[c] + 1
<1>1. /\ pc[c] = "apply" /\ i \in attempted /\ o \in Orders /\ i \in Calls
  BY BusyJob DEF Apply, At, FenceInv, MarkedAtVenueSteps, MarkedPCs, BusyPCs,
     ReconcilePCs
<1>2. CASE UNCHANGED <<orderVars, reportVars>>
  BY <1>2
<1>3. CASE ~UNCHANGED <<orderVars, reportVars>>
  <2>1. /\ ~Terminal(o) /\ LaneFree(o) /\ k <= snap[c].filled
        /\ k \notin booked[i] /\ StoreFill(i, k)
    BY <1>3 DEF Apply
  <2>2. /\ snap[c].filled <= executed[i] /\ seen[c] <= trades[o]
        /\ booked[i] = 1..trades[o]
    BY <1>1 DEF BooksInv, SnapshotTrue, SeenIsBooked, BookedIsVenuePrefix
  <2>3. /\ seen[c] \in Nat /\ trades[o] \in Nat /\ executed[i] \in 0..Qty
        /\ snap[c].filled \in 0..Qty
    BY <1>1 DEF WorkInv, TypeOK, WorkersOK, OrdersOK, VenueOK, Snapshots
  <2>4. k = trades[o] + 1
    BY <2>1, <2>2, <2>3
  <2>5. k <= executed[i]
    BY <2>1, <2>2, <2>3, BoundsAssumption
  <2> QED
    BY <1>1, <2>1, <2>4, <2>5 DEF Books
<1> QED
  BY <1>2, <1>3

\* Booking the next execution keeps the books a prefix of the executions.
LEMMA BookingKeepsPrefix ==
  ASSUME WorkInv, MarkInv, BooksInv, NEW i \in Calls, Books(i),
         UNCHANGED <<attempted, executed>>
  PROVE  /\ BookedIsMarked' /\ BookedIsVenuePrefix'
<1> DEFINE o == CallOrder[i]  k == trades[o] + 1
<1>1. /\ o \in Orders /\ trades[o] \in Nat /\ trades \in [Orders -> Nat]
      /\ booked \in [Calls -> SUBSET (1..Qty)] /\ attempted \subseteq Calls
  BY CallsAssumption DEF WorkInv, TypeOK, OrdersOK, ReportsOK, LinksOK
<1>2. /\ i \in attempted /\ k <= executed[i]
      /\ trades' = [trades EXCEPT ![o] = k]
      /\ booked' = [booked EXCEPT ![i] = @ \cup {k}]
  BY DEF Books, StoreFill
<1>3. booked[i] = 1..trades[o]
  BY <1>2 DEF BooksInv, BookedIsVenuePrefix
<1>4. booked'[i] = 1..k
  BY <1>1, <1>2, <1>3
<1>5. ASSUME NEW j \in attempted, j # i
      PROVE  trades'[CallOrder[j]] = trades[CallOrder[j]] /\ booked'[j] = booked[j]
  BY <1>1, <1>2, <1>5, OneMark
<1>6. BookedIsVenuePrefix'
  BY <1>1, <1>2, <1>4, <1>5 DEF BooksInv, BookedIsVenuePrefix
<1>7. BookedIsMarked'
  BY <1>1, <1>2 DEF BooksInv, BookedIsMarked
<1> QED
  BY <1>6, <1>7

\* Stored trades never disappear.
LEMMA BookingKeepsTrades ==
  ASSUME WorkInv, UNCHANGED <<orderVars, reportVars>> \/ \E i \in Calls : Books(i)
  PROVE  \A o \in Orders : /\ trades[o] \in Nat /\ trades'[o] \in Nat
                           /\ trades[o] <= trades'[o]
<1>1. trades \in [Orders -> Nat]
  BY DEF WorkInv, TypeOK, OrdersOK
<1>2. CASE UNCHANGED <<orderVars, reportVars>>
  BY <1>1, <1>2 DEF orderVars
<1>3. ASSUME NEW i \in Calls, Books(i)
      PROVE  \A o \in Orders : /\ trades[o] \in Nat /\ trades'[o] \in Nat
                               /\ trades[o] <= trades'[o]
  BY <1>1, <1>3 DEF Books, StoreFill
<1> QED
  BY <1>2, <1>3

\* The venue takes no execution back.
LEMMA ExecutionsGrow ==
  ASSUME WorkInv, NEW i \in Calls, VenueStep(i)
  PROVE  \A j \in Calls : /\ executed[j] \in Nat /\ executed'[j] \in Nat
                          /\ executed[j] <= executed'[j]
  BY BoundsAssumption DEF VenueStep, WorkInv, TypeOK, VenueOK

\* BooksInv is inductive over the invariants before it.
LEMMA NextBooks ==
  WorkInv /\ MarkInv /\ CallInv /\ FenceInv /\ BooksInv /\ [Next]_vars => BooksInv'
<1> SUFFICES ASSUME WorkInv, MarkInv, CallInv, FenceInv, BooksInv, [Next]_vars
             PROVE  BooksInv'
  OBVIOUS
<1> USE CallsAssumption, BoundsAssumption
    DEF WorkInv, TypeOK, BooksInv, Quiet, NoFault, Fault, Goto, At, Finish,
        Settled, Track, Untrack, store, orderVars, reportVars, linkVars,
        venueVars, workerVars, retryVars, callVars
<1> USE DEF VenueShape, KnownIsAsked, SnapshotTrue, SeenIsBooked,
        RefusedInHand, BookedIsMarked, BookedIsVenuePrefix, WorkersOK, LinksOK
<1>a. \A c \in Conns : pc[c] \in HolderPCs \cup {"link", "read"} =>
        pc[c] \in BusyPCs /\ job[c] \in Calls /\ CallOrder[job[c]] \in Orders
  BY BusyJob DEF HolderPCs, MarkedPCs, HandPCs, BusyPCs, SendPCs, ReconcilePCs
<1>b. \A c \in Conns : pc[c] \in MarkedPCs => job[c] \in attempted
  BY DEF FenceInv, MarkedAtVenueSteps
<1>1. ASSUME NEW i \in Calls, Offer(i) PROVE BooksInv'
  BY <1>1, AsideKeepsBooks DEF BooksAside, Offer
<1>2. ASSUME NEW i \in Calls, RefuseEarly(i) PROVE BooksInv'
  BY <1>2, AsideKeepsBooks DEF BooksAside, RefuseEarly
<1>3. ASSUME NEW i \in Calls, Abandon(i) PROVE BooksInv'
  BY <1>3, AsideKeepsBooks DEF BooksAside, Abandon
<1>4. ASSUME NEW i \in Calls, Return(i) PROVE BooksInv'
  BY <1>4, AsideKeepsBooks DEF BooksAside, Return
<1>5. ASSUME NEW i \in Calls, Verify(i) PROVE BooksInv'
  BY <1>5, AsideKeepsBooks DEF BooksAside, Verify
<1>6. ASSUME NEW i \in Calls, CancelUnsent(i) PROVE BooksInv'
  BY <1>6, AsideKeepsBooks DEF BooksAside, CancelUnsent
<1>7. ASSUME NEW o \in Orders, NEW k \in OpKinds, OpEnter(o, k) PROVE BooksInv'
  BY <1>7, AsideKeepsBooks DEF BooksAside, OpEnter
<1>8. ASSUME NEW o \in Orders, OpStore(o) PROVE BooksInv'
  <2>1. SeenIsBooked'
    BY <1>8, MarkedIsFenced DEF OpStore, OrdersOK, LaneFree
  <2>2. BookedIsVenuePrefix'
    BY <1>8, MarkedIsFenced DEF OpStore, OrdersOK, VenueOK, ReportsOK, LaneFree
  <2> QED
    BY <1>8, <2>1, <2>2 DEF OpStore
<1>9. ASSUME NEW c \in Conns, NEW i \in Calls, HandOff(c, i) PROVE BooksInv'
  BY <1>9, AsideKeepsBooks DEF BooksAside, HandOff
<1>10. ASSUME NEW c \in Conns, Check(c) PROVE BooksInv'
  BY <1>10, AsideKeepsBooks DEF BooksAside, Check
<1>11. ASSUME NEW c \in Conns, CreateLink(c) PROVE BooksInv'
  BY <1>11, AsideKeepsBooks DEF BooksAside, CreateLink
<1>12. ASSUME NEW c \in Conns, Claim(c) PROVE BooksInv'
  BY <1>12, AsideKeepsBooks DEF BooksAside, Claim, StoreClaim
<1>13. ASSUME NEW c \in Conns, Recheck(c) PROVE BooksInv'
  BY <1>13, AsideKeepsBooks DEF BooksAside, Recheck
<1>14. ASSUME NEW c \in Conns, Unlink(c) PROVE BooksInv'
  BY <1>14, AsideKeepsBooks DEF BooksAside, Unlink
<1>15. ASSUME NEW c \in Conns, Mark(c) PROVE BooksInv'
  <2>1. SnapshotTrue'
    BY <1>15, <1>a DEF Mark, HolderPCs, MarkedPCs, HandPCs, VenueOK, MarkInv,
       UnmarkedInHand, FenceInv, ReadyToSend
  <2>2. SeenIsBooked'
    BY <1>15, <1>a DEF Mark, HolderPCs, MarkedPCs, HandPCs, OrdersOK, MarkInv,
       UnmarkedInHand, FenceInv, ReadyToSend
  <2>3. RefusedInHand'
    BY <1>15, <1>a DEF Mark, HolderPCs, MarkedPCs, HandPCs, VenueOK, MarkInv,
       UnmarkedInHand, FenceInv, ReadyToSend
  <2>4. BookedIsMarked'
    BY <1>15, <1>a DEF Mark, HolderPCs, MarkedPCs, HandPCs, OrdersOK,
       ReportsOK, MarkInv, UnmarkedInHand, FenceInv, ReadyToSend
  <2>5. BookedIsVenuePrefix'
    <3>1. booked[job[c]] = {} /\ trades[CallOrder[job[c]]] = 0
      BY <1>15, <1>a DEF Mark, MarkInv, UnmarkedInHand, HandPCs, HolderPCs,
         FenceInv, ReadyToSend
    <3>2. booked[job[c]] = 1..trades[CallOrder[job[c]]]
      BY <3>1
    <3>3. executed[job[c]] >= 0
      BY <1>15, <1>a DEF Mark, VenueOK, HandPCs, HolderPCs
    <3>4. /\ attempted' \subseteq attempted \cup {job[c]}
          /\ UNCHANGED <<booked, trades, executed>>
      BY <1>15 DEF Mark
    <3> QED
      BY <3>1, <3>2, <3>3, <3>4
  <2> QED
    BY <1>15, <2>1, <2>2, <2>3, <2>4, <2>5 DEF Mark
<1>16. ASSUME NEW c \in Conns, Issue(c) PROVE BooksInv'
  <2>1. VenueShape'
    BY <1>16, <1>a, OneHolder DEF Issue, HolderPCs, MarkedPCs, HandPCs,
       VenueOK, MarkInv, MarkedInHand, BusyPCs, SendPCs, ReconcilePCs, CountsOK
  <2>2. KnownIsAsked'
    BY <1>16, <1>a, OneHolder DEF Issue, HolderPCs, MarkedPCs, HandPCs,
       VenueOK, MarkInv, MarkedInHand, BusyPCs, SendPCs, ReconcilePCs, CountsOK
  <2>3. SnapshotTrue'
    BY <1>16, <1>a, OneHolder DEF Issue, HolderPCs, MarkedPCs, HandPCs,
       VenueOK, MarkInv, MarkedInHand, BusyPCs, SendPCs, ReconcilePCs, CountsOK
  <2>4. SeenIsBooked'
    BY <1>16, <1>a, OneHolder DEF Issue, HolderPCs, MarkedPCs, HandPCs,
       OrdersOK, MarkInv, MarkedInHand, BusyPCs, SendPCs, ReconcilePCs,
       CountsOK
  <2>5. RefusedInHand'
    BY <1>16, <1>a, OneHolder DEF Issue, HolderPCs, MarkedPCs, HandPCs,
       VenueOK, MarkInv, MarkedInHand, BusyPCs, SendPCs, ReconcilePCs, CountsOK
  <2> QED
    BY <1>16, <2>1, <2>2, <2>3, <2>4, <2>5 DEF Issue
<1>17. ASSUME NEW c \in Conns, Await(c) PROVE BooksInv'
  <2>1. SnapshotTrue'
    BY <1>17, <1>a DEF Await, HolderPCs, MarkedPCs, HandPCs, VenueOK
  <2>2. SeenIsBooked'
    BY <1>17, <1>a DEF Await, HolderPCs, MarkedPCs, HandPCs, OrdersOK
  <2>3. RefusedInHand'
    BY <1>17, <1>a DEF Await, HolderPCs, MarkedPCs, HandPCs, VenueOK
  <2> QED
    BY <1>17, <2>1, <2>2, <2>3 DEF Await
<1>18. ASSUME NEW c \in Conns, Acknowledge(c) PROVE BooksInv'
  BY <1>18, AsideKeepsBooks DEF BooksAside, Acknowledge
<1>19. ASSUME NEW c \in Conns, Refuse(c) PROVE BooksInv'
  BY <1>19, AsideKeepsBooks DEF BooksAside, Refuse, StoreDone
<1>20. ASSUME NEW c \in Conns, Connected(c) PROVE BooksInv'
  BY <1>20, AsideKeepsBooks DEF BooksAside, Connected
<1>21. ASSUME NEW c \in Conns, Tick(c) PROVE BooksInv'
  BY <1>21, AsideKeepsBooks DEF BooksAside, Tick
<1>22. ASSUME NEW c \in Conns, NEW i \in Calls, OrderEvent(c, i) PROVE BooksInv'
  BY <1>22, AsideKeepsBooks DEF BooksAside, OrderEvent
<1>23. ASSUME NEW c \in Conns, NEW i \in Calls, NEW k \in 1..Qty,
                FillEvent(c, i, k)
         PROVE  BooksInv'
  <2>1. SeenIsBooked'
    <3>1. \A o \in Orders : /\ trades[o] \in Nat /\ trades'[o] \in Nat
                            /\ trades[o] <= trades'[o]
      BY <1>23, FillEventBooks, BookingKeepsTrades DEF FillEvent
    <3> SUFFICES ASSUME NEW d \in Conns, pc'[d] \in {"lookup", "apply"}
                 PROVE  seen'[d] <= trades'[CallOrder[job'[d]]]
      OBVIOUS
    <3>2. /\ pc[d] \in {"lookup", "apply"} /\ job'[d] = job[d]
          /\ seen'[d] = seen[d] /\ CallOrder[job[d]] \in Orders
      BY <1>23, <1>a DEF FillEvent, HolderPCs, MarkedPCs
    <3>3. seen[d] \in Nat /\ seen[d] <= trades[CallOrder[job[d]]]
      BY <3>2
    <3> QED
      BY <3>1, <3>2, <3>3
  <2>2. BookedIsMarked'
    BY <1>23, FillEventBooks, BookingKeepsPrefix DEF FillEvent
  <2>3. BookedIsVenuePrefix'
    BY <1>23, FillEventBooks, BookingKeepsPrefix DEF FillEvent
  <2> QED
    BY <1>23, <2>1, <2>2, <2>3 DEF FillEvent, StoreFill
<1>24. ASSUME NEW c \in Conns, Scan(c) PROVE BooksInv'
  BY <1>24, AsideKeepsBooks DEF BooksAside, Scan
<1>25. ASSUME NEW c \in Conns, Read(c) PROVE BooksInv'
  <2>1. SnapshotTrue'
    BY <1>25, <1>a DEF Read, HolderPCs, MarkedPCs, HandPCs, VenueOK
  <2>2. SeenIsBooked'
    BY <1>25, <1>a DEF Read, HolderPCs, MarkedPCs, HandPCs, OrdersOK
  <2>3. RefusedInHand'
    BY <1>25, <1>a DEF Read, HolderPCs, MarkedPCs, HandPCs, VenueOK
  <2> QED
    BY <1>25, <2>1, <2>2, <2>3 DEF Read
<1>26. ASSUME NEW c \in Conns, Discard(c) PROVE BooksInv'
  BY <1>26, AsideKeepsBooks DEF BooksAside, Discard
<1>27. ASSUME NEW c \in Conns, Lookup(c) PROVE BooksInv'
  <2>1. SnapshotTrue'
    <3>1. \A d \in Conns : pc'[d] = "apply" /\ d # c =>
            pc[d] = "apply" /\ job'[d] = job[d] /\ snap'[d] = snap[d]
      BY <1>27 DEF Lookup
    <3>2. pc'[c] = "apply" =>
            /\ job'[c] = job[c] /\ snap'[c].st = venue[job[c]]
            /\ snap'[c].filled = executed[job[c]] /\ executed[job[c]] \in Nat
      BY <1>27, <1>a DEF Lookup, HolderPCs, MarkedPCs, VenueOK
    <3> QED
      BY <1>27, <3>1, <3>2 DEF Lookup
  <2>2. SeenIsBooked'
    BY <1>27, <1>a DEF Lookup, HolderPCs, MarkedPCs, HandPCs, OrdersOK,
       Snapshots
  <2>3. RefusedInHand'
    BY <1>27, <1>a DEF Lookup, HolderPCs, MarkedPCs, HandPCs, VenueOK,
       Snapshots
  <2> QED
    BY <1>27, <2>1, <2>2, <2>3 DEF Lookup
<1>28. ASSUME NEW c \in Conns, Apply(c) PROVE BooksInv'
  <2>1. SnapshotTrue'
    BY <1>28, <1>a DEF Apply, HolderPCs, MarkedPCs, HandPCs, VenueOK
  <2>2. SeenIsBooked'
    <3>1. \A o \in Orders : /\ trades[o] \in Nat /\ trades'[o] \in Nat
                            /\ trades[o] <= trades'[o]
      BY <1>28, <1>a, ApplyBooks, BookingKeepsTrades DEF Apply, HolderPCs, MarkedPCs
    <3> SUFFICES ASSUME NEW d \in Conns, pc'[d] \in {"lookup", "apply"}
                 PROVE  seen'[d] <= trades'[CallOrder[job'[d]]]
      OBVIOUS
    <3>2. CASE d = c
      <4>1. pc[c] = "apply" /\ job'[c] = job[c] /\ CallOrder[job[c]] \in Orders
        BY <1>28, <1>a, <3>2 DEF Apply, HolderPCs, MarkedPCs
      <4>2. seen'[c] = seen[c] \/ seen'[c] = trades'[CallOrder[job[c]]]
        BY <1>28, <3>2 DEF Apply
      <4>3. seen[c] \in Nat /\ seen[c] <= trades[CallOrder[job[c]]]
        BY <4>1
      <4> QED
        BY <3>1, <3>2, <4>1, <4>2, <4>3
    <3>3. CASE d # c
      <4>1. /\ pc[d] \in {"lookup", "apply"} /\ job'[d] = job[d]
            /\ seen'[d] = seen[d] /\ CallOrder[job[d]] \in Orders
        BY <1>28, <1>a, <3>3 DEF Apply, HolderPCs, MarkedPCs
      <4>2. seen[d] \in Nat /\ seen[d] <= trades[CallOrder[job[d]]]
        BY <4>1
      <4> QED
        BY <3>1, <4>1, <4>2
    <3> QED
      BY <3>2, <3>3
  <2>3. RefusedInHand'
    BY <1>28, <1>a DEF Apply, HolderPCs, MarkedPCs, HandPCs, VenueOK
  <2>4. BookedIsMarked'
    BY <1>28, <1>a, ApplyBooks, BookingKeepsPrefix DEF Apply, HolderPCs, MarkedPCs
  <2>5. BookedIsVenuePrefix'
    BY <1>28, <1>a, ApplyBooks, BookingKeepsPrefix DEF Apply, HolderPCs, MarkedPCs
  <2> QED
    BY <1>28, <2>1, <2>2, <2>3, <2>4, <2>5 DEF Apply, StoreFill
<1>29. ASSUME NEW c \in Conns, Close(c) PROVE BooksInv'
  BY <1>29, AsideKeepsBooks DEF BooksAside, Close, StoreDone
<1>30. ASSUME NEW c \in Conns, Exit(c) PROVE BooksInv'
  BY <1>30, AsideKeepsBooks DEF BooksAside, Exit
<1>31. ASSUME Stop PROVE BooksInv'
  BY <1>31, AsideKeepsBooks DEF BooksAside, Stop
<1>32. ASSUME Start PROVE BooksInv'
  BY <1>32, AsideKeepsBooks DEF BooksAside, Start
<1>33. ASSUME Crash PROVE BooksInv'
  BY <1>33, AsideKeepsBooks DEF BooksAside, Crash
<1>34. ASSUME NEW i \in Calls, Age(i) PROVE BooksInv'
  BY <1>34, AsideKeepsBooks DEF BooksAside, Age
<1>35. ASSUME NEW i \in Calls, VenueStep(i) PROVE BooksInv'
  <2>1. VenueShape'
    BY <1>35 DEF VenueStep, VenueOK, AtVenue, VenueStates, CountsOK
  <2>2. KnownIsAsked'
    BY <1>35 DEF VenueStep, VenueOK, AtVenue, VenueStates, CountsOK
  <2>3. SnapshotTrue'
    <3> SUFFICES ASSUME NEW c \in Conns, pc[c] = "apply"
                 PROVE  /\ snap[c].filled <= executed'[job[c]]
                        /\ snap[c].st # "open" =>
                              /\ venue'[job[c]] = snap[c].st
                              /\ executed'[job[c]] = snap[c].filled
      BY <1>35 DEF VenueStep
    <3>1. /\ job[c] \in Calls /\ snap[c].filled \in Nat
          /\ snap[c].st \in AtVenue
      BY BusyJob DEF BusyPCs, ReconcilePCs, Snapshots
    <3>2. /\ executed[job[c]] <= executed'[job[c]] /\ executed[job[c]] \in Nat
          /\ executed'[job[c]] \in Nat
      BY <1>35, <3>1, ExecutionsGrow
    <3>4. venue[job[c]] \in {"filled", "cancelled", "replaced"} =>
               /\ venue'[job[c]] = venue[job[c]]
               /\ executed'[job[c]] = executed[job[c]]
      BY <1>35, <3>1 DEF VenueStep, VenueOK
    <3>3. /\ snap[c].filled <= executed[job[c]]
          /\ snap[c].st # "open" =>
               venue[job[c]] = snap[c].st /\ executed[job[c]] = snap[c].filled
      OBVIOUS
    <3> QED
      BY <3>1, <3>2, <3>3, <3>4 DEF AtVenue
  <2>4. RefusedInHand'
    BY <1>35, BusyJob DEF VenueStep, VenueOK, AtVenue, VenueStates, CountsOK,
       BusyPCs, SendPCs, ReconcilePCs, Snapshots
  <2>5. BookedIsVenuePrefix'
    <3>1. \A j \in Calls : /\ executed[j] \in Nat /\ executed'[j] \in Nat
                           /\ executed[j] <= executed'[j]
      BY <1>35, ExecutionsGrow
    <3>2. \A j \in attempted : j \in Calls /\ trades[CallOrder[j]] \in Nat
      BY DEF OrdersOK
    <3> QED
      BY <1>35, <3>1, <3>2 DEF VenueStep
  <2> QED
    BY <1>35, <2>1, <2>2, <2>3, <2>4, <2>5 DEF VenueStep
<1>36. ASSUME UNCHANGED vars PROVE BooksInv'
  BY <1>36, AsideKeepsBooks DEF BooksAside, vars
<1> QED
  BY <1>1, <1>2, <1>3, <1>4, <1>5, <1>6, <1>7, <1>8, <1>9, <1>10, <1>11, <1>12,
     <1>13, <1>14, <1>15, <1>16, <1>17, <1>18, <1>19, <1>20, <1>21, <1>22,
     <1>23, <1>24, <1>25, <1>26, <1>27, <1>28, <1>29, <1>30, <1>31, <1>32,
     <1>33, <1>34, <1>35, <1>36 DEF Next, Send, Reconcile, Call, Stream

\* The inductive invariant behind the books.
THEOREM BooksInvHolds ==
  Spec => [](WorkInv /\ MarkInv /\ CallInv /\ FenceInv /\ BooksInv)
<1>1. Init => BooksInv
  BY InitBooks
<1>2. WorkInv /\ MarkInv /\ CallInv /\ FenceInv /\ BooksInv /\ [Next]_vars => BooksInv'
  BY NextBooks
<1> QED
  BY <1>1, <1>2, FenceInvHolds, PTL DEF Spec

\* Once an order was marked for sending its trades are exactly the venue's
\* executions 1..n, each booked once and never ahead of the venue, whatever the
\* stream dropped, repeated or reordered.
THEOREM BooksMatchVenue == Spec => []BookedIsVenuePrefix
<1>1. BooksInv => BookedIsVenuePrefix
  BY DEF BooksInv
<1> QED
  BY BooksInvHolds, <1>1, PTL

-----------------------------------------------------------------------------
(* The terminal barrier.  It needs TimelySend: a request that reaches the     *)
(* venue after the missing-order grace of its link was given up too early.    *)

\* The grace of a link runs out only when its request arrived or is lost.
AgedIsSettled ==
    \A i \in aged : /\ caller[i] \notin {"new", "offered"}
                    /\ venue[i] # "inflight" /\ ~Sending(i)

\* A worker about to close an order has booked all the venue can execute.
ReadyToClose ==
    \A c \in Conns : pc[c] = "close" =>
        /\ venue[job[c]] \notin {"inflight", "open"}
        /\ executed[job[c]] = trades[CallOrder[job[c]]]

\* An order is finished only over complete books.
BarrierInv == AgedIsSettled /\ ReadyToClose /\ TerminalBarrier

\* Initially no order is finished.
LEMMA InitBarrier == Init => BarrierInv
  BY DEF Init, BarrierInv, AgedIsSettled, ReadyToClose, TerminalBarrier

\* Steps that touch neither ages, the venue, marks nor orders, and start
\* neither a send nor a close.
BarrierAside ==
    /\ UNCHANGED <<aged, attempted, venue, executed, booked, trades, status>>
    /\ \A i \in Calls : caller'[i] \in {"new", "offered"} =>
                            caller[i] \in {"new", "offered"}
    /\ \A c \in Conns :
          /\ pc'[c] \in SendPCs => pc[c] \in SendPCs /\ job'[c] = job[c]
          /\ pc'[c] = "close" => pc[c] = "close" /\ job'[c] = job[c]

\* A step aside keeps the barrier.
LEMMA AsideKeepsBarrier ==
  ASSUME WorkInv, BarrierInv, BarrierAside
  PROVE  BarrierInv'
<1>1. aged \subseteq Calls
  BY DEF WorkInv, TypeOK, LinksOK
<1>2. AgedIsSettled'
  BY <1>1 DEF BarrierInv, BarrierAside, AgedIsSettled, Sending
<1>3. ReadyToClose'
  BY DEF BarrierInv, BarrierAside, ReadyToClose
<1>4. TerminalBarrier'
  BY DEF BarrierInv, BarrierAside, TerminalBarrier, Terminal
<1> QED
  BY <1>2, <1>3, <1>4 DEF BarrierInv

\* Booking the next execution keeps the barrier: the last unit closes both
\* sides at once.
LEMMA BookingKeepsBarrier ==
  ASSUME WorkInv, MarkInv, BooksInv, BarrierInv, NEW i \in Calls, Books(i),
         UNCHANGED <<attempted, executed, venue>>
  PROVE  TerminalBarrier'
<1> DEFINE o == CallOrder[i]  k == trades[o] + 1
<1>1. /\ o \in Orders /\ trades[o] \in Nat /\ trades \in [Orders -> Nat]
      /\ status \in [Orders -> Statuses]
      /\ booked \in [Calls -> SUBSET (1..Qty)] /\ attempted \subseteq Calls
      /\ executed[i] \in 0..Qty
  BY CallsAssumption DEF WorkInv, TypeOK, OrdersOK, ReportsOK, LinksOK, VenueOK
<1>2. /\ i \in attempted /\ k <= executed[i] /\ ~Terminal(o)
      /\ status' = [status EXCEPT
                       ![o] = IF k = Qty THEN "filled" ELSE "partially_filled"]
      /\ booked' = [booked EXCEPT ![i] = @ \cup {k}]
  BY DEF Books, StoreFill
<1>3. booked[i] = 1..trades[o]
  BY <1>2 DEF BooksInv, BookedIsVenuePrefix
<1>4. ASSUME Terminal(o)'
      PROVE  venue'[i] = "filled" /\ booked'[i] = 1..executed'[i]
  <2>1. k = Qty
    BY <1>1, <1>2, <1>4 DEF Terminal
  <2>2. executed[i] = k
    BY <1>1, <1>2, <2>1, BoundsAssumption
  <2>3. booked'[i] = 1..k
    BY <1>1, <1>2, <1>3
  <2> QED
    BY <2>1, <2>2, <2>3 DEF BooksInv, VenueShape
<1>5. ASSUME NEW j \in attempted, j # i, Terminal(CallOrder[j])'
      PROVE  Terminal(CallOrder[j]) /\ booked'[j] = booked[j]
  <2>1. CallOrder[j] # o /\ CallOrder[j] \in Orders /\ j \in Calls
    BY <1>1, <1>2, <1>5, OneMark, CallsAssumption
  <2> QED
    BY <1>1, <1>2, <1>5, <2>1 DEF Terminal
<1> QED
  BY <1>4, <1>5 DEF BarrierInv, TerminalBarrier

\* Storing a done report keeps it when the venue is done with the order and
\* the books are complete, and when the order was never marked.
LEMMA ClosingKeepsBarrier ==
  ASSUME WorkInv, MarkInv, BooksInv, BarrierInv, NEW i \in Calls,
         UNCHANGED <<orderVars, reportVars>> \/ StoreDone(i),
         UNCHANGED <<attempted, executed, venue>>,
         i \in attempted => /\ venue[i] \notin {"inflight", "open"}
                            /\ executed[i] = trades[CallOrder[i]],
         Linked(i)
  PROVE  TerminalBarrier'
<1> DEFINE o == CallOrder[i]
<1>1. /\ status \in [Orders -> Statuses] /\ attempted \subseteq Calls
      /\ o \in Orders
  BY CallsAssumption DEF WorkInv, TypeOK, OrdersOK, LinksOK
<1>2. booked' = booked /\ (status' = status \/ status' = [status EXCEPT ![o] = "cancelled"])
  BY DEF StoreDone, orderVars, reportVars
<1>3. ASSUME NEW j \in attempted, CallOrder[j] = o
      PROVE  /\ venue[j] \notin {"inflight", "open"}
             /\ booked[j] = 1..executed[j]
  BY <1>3, OneMark DEF BooksInv, BookedIsVenuePrefix
<1>4. ASSUME NEW j \in attempted, CallOrder[j] # o, Terminal(CallOrder[j])'
      PROVE  Terminal(CallOrder[j])
  BY <1>1, <1>2, <1>4, CallsAssumption DEF Terminal
<1> QED
  BY <1>2, <1>3, <1>4 DEF BarrierInv, TerminalBarrier

\* The venue is done with an order that is neither on its way nor open.
LEMMA VenueRests ==
  ASSUME WorkInv, NEW i \in Calls, VenueStep(i), NEW j \in Calls,
         venue[j] \notin {"inflight", "open"}
  PROVE  venue'[j] = venue[j] /\ executed'[j] = executed[j]
  BY DEF VenueStep, WorkInv, TypeOK, VenueOK

\* BarrierInv is inductive over the invariants before it.
LEMMA NextBarrier ==
  ASSUME TimelySend, WorkInv, MarkInv, CallInv, FenceInv, BooksInv, BarrierInv,
         [Next]_vars
  PROVE  BarrierInv'
<1> USE CallsAssumption, BoundsAssumption
    DEF Quiet, NoFault, Fault, Goto, At, Finish, Settled, Track, Untrack,
        store, orderVars, reportVars, linkVars, venueVars, workerVars,
        retryVars, callVars
<1> USE DEF BarrierInv, AgedIsSettled, ReadyToClose, TerminalBarrier, Sending
<1>a. \A c \in Conns : pc[c] \in BusyPCs =>
        job[c] \in Calls /\ CallOrder[job[c]] \in Orders
  BY BusyJob
<1>b. \A c \in Conns : pc[c] \in MarkedPCs => job[c] \in attempted
  BY DEF FenceInv, MarkedAtVenueSteps
<1>c. /\ pc \in [Conns -> PCs] /\ job \in [Conns -> Calls \cup {NoCall}]
      /\ aged \subseteq Calls /\ attempted \subseteq Calls
      /\ trades \in [Orders -> Nat] /\ status \in [Orders -> Statuses]
      /\ venue \in [Calls -> VenueStates] /\ executed \in [Calls -> 0..Qty]
  BY DEF WorkInv, TypeOK, WorkersOK, LinksOK, OrdersOK, VenueOK
<1>d. \A c \in Conns : pc[c] \in SendPCs => job[c] \notin aged
  OBVIOUS
<1>1. ASSUME NEW i \in Calls, Offer(i) PROVE BarrierInv'
  BY <1>1, <1>c, AsideKeepsBarrier DEF BarrierAside, Offer, SendPCs
<1>2. ASSUME NEW i \in Calls, RefuseEarly(i) PROVE BarrierInv'
  BY <1>2, <1>c, AsideKeepsBarrier DEF BarrierAside, RefuseEarly, SendPCs
<1>3. ASSUME NEW i \in Calls, Abandon(i) PROVE BarrierInv'
  BY <1>3, <1>c, AsideKeepsBarrier DEF BarrierAside, Abandon, SendPCs
<1>4. ASSUME NEW i \in Calls, Return(i) PROVE BarrierInv'
  BY <1>4, <1>c, AsideKeepsBarrier DEF BarrierAside, Return, SendPCs, WorkInv,
     TypeOK, CallsOK
<1>5. ASSUME NEW i \in Calls, Verify(i) PROVE BarrierInv'
  BY <1>5, <1>c, AsideKeepsBarrier DEF BarrierAside, Verify, SendPCs
<1>6. ASSUME NEW i \in Calls, CancelUnsent(i) PROVE BarrierInv'
  BY <1>6, <1>c, AsideKeepsBarrier DEF BarrierAside, CancelUnsent, SendPCs,
     WorkInv, TypeOK, CallsOK
<1>7. ASSUME NEW o \in Orders, NEW k \in OpKinds, OpEnter(o, k) PROVE BarrierInv'
  BY <1>7, <1>c, AsideKeepsBarrier DEF BarrierAside, OpEnter, SendPCs
<1>8. ASSUME NEW o \in Orders, OpStore(o) PROVE BarrierInv'
  <2>1. AgedIsSettled'
    BY <1>8, <1>c DEF OpStore, WorkInv, TypeOK, CallsOK, LanesOK, LaneStates
  <2>2. ReadyToClose'
    BY <1>8, <1>c, MarkedIsFenced, <1>b, <1>a DEF OpStore, LaneFree, BusyPCs,
       SendPCs, ReconcilePCs, MarkedPCs, HolderPCs
  <2>3. TerminalBarrier'
    BY <1>8, <1>c, MarkedIsFenced, <1>b, <1>a DEF OpStore, Terminal, LaneFree,
       BusyPCs, SendPCs, ReconcilePCs, MarkedPCs, HolderPCs
  <2> QED
    BY <2>1, <2>2, <2>3
<1>9. ASSUME NEW c \in Conns, NEW i \in Calls, HandOff(c, i) PROVE BarrierInv'
  <2>1. AgedIsSettled'
    BY <1>9, <1>c, <1>a DEF HandOff, BusyPCs, SendPCs, ReconcilePCs, MarkedPCs,
       HolderPCs, CallInv, OfferedIsFresh
  <2>2. ReadyToClose'
    BY <1>9, <1>c, <1>a DEF HandOff, BusyPCs, SendPCs, ReconcilePCs, MarkedPCs,
       HolderPCs
  <2>3. TerminalBarrier'
    BY <1>9, <1>c, <1>a DEF HandOff, BusyPCs, SendPCs, ReconcilePCs, MarkedPCs,
       HolderPCs, Terminal
  <2> QED
    BY <2>1, <2>2, <2>3
<1>10. ASSUME NEW c \in Conns, Check(c) PROVE BarrierInv'
  BY <1>10, <1>c, AsideKeepsBarrier DEF BarrierAside, Check, SendPCs
<1>11. ASSUME NEW c \in Conns, CreateLink(c) PROVE BarrierInv'
  BY <1>11, <1>c, AsideKeepsBarrier DEF BarrierAside, CreateLink, SendPCs
<1>12. ASSUME NEW c \in Conns, Claim(c) PROVE BarrierInv'
  <2>1. AgedIsSettled'
    BY <1>12, <1>c, <1>a DEF Claim, BusyPCs, SendPCs, ReconcilePCs, MarkedPCs,
       HolderPCs
  <2>2. ReadyToClose'
    BY <1>12, <1>c, <1>a DEF Claim, BusyPCs, SendPCs, ReconcilePCs, MarkedPCs,
       HolderPCs, StoreClaim, Modifiable, Terminal
  <2>3. TerminalBarrier'
    BY <1>12, <1>c, <1>a DEF Claim, BusyPCs, SendPCs, ReconcilePCs, MarkedPCs,
       HolderPCs, Terminal, StoreClaim, Modifiable
  <2> QED
    BY <2>1, <2>2, <2>3
<1>13. ASSUME NEW c \in Conns, Recheck(c) PROVE BarrierInv'
  BY <1>13, <1>c, AsideKeepsBarrier DEF BarrierAside, Recheck, SendPCs
<1>14. ASSUME NEW c \in Conns, Unlink(c) PROVE BarrierInv'
  BY <1>14, <1>c, AsideKeepsBarrier DEF BarrierAside, Unlink, SendPCs
<1>15. ASSUME NEW c \in Conns, Mark(c) PROVE BarrierInv'
  <2>1. AgedIsSettled'
    BY <1>15, <1>c, <1>a DEF Mark, BusyPCs, SendPCs, ReconcilePCs, MarkedPCs,
       HolderPCs
  <2>2. ReadyToClose'
    BY <1>15, <1>c, <1>a DEF Mark, BusyPCs, SendPCs, ReconcilePCs, MarkedPCs,
       HolderPCs, FenceInv, ReadyToSend, Terminal
  <2>3. TerminalBarrier'
    BY <1>15, <1>c, <1>a DEF Mark, BusyPCs, SendPCs, ReconcilePCs, MarkedPCs,
       HolderPCs, Terminal, FenceInv, ReadyToSend
  <2> QED
    BY <2>1, <2>2, <2>3
<1>16. ASSUME NEW c \in Conns, Issue(c) PROVE BarrierInv'
  <2>1. AgedIsSettled'
    BY <1>16, <1>c, <1>a, <1>d DEF Issue, BusyPCs, SendPCs, ReconcilePCs,
       MarkedPCs, HolderPCs
  <2>2. ReadyToClose'
    BY <1>16, <1>c, <1>a, OneHolder DEF Issue, BusyPCs, SendPCs, ReconcilePCs,
       MarkedPCs, HolderPCs, FenceInv, ReadyToSend, Terminal
  <2>3. TerminalBarrier'
    BY <1>16, <1>c, <1>a, OneHolder DEF Issue, BusyPCs, SendPCs, ReconcilePCs,
       MarkedPCs, HolderPCs, Terminal, FenceInv, ReadyToSend
  <2> QED
    BY <2>1, <2>2, <2>3
<1>17. ASSUME NEW c \in Conns, Await(c) PROVE BarrierInv'
  BY <1>17, <1>c, AsideKeepsBarrier DEF BarrierAside, Await, SendPCs
<1>18. ASSUME NEW c \in Conns, Acknowledge(c) PROVE BarrierInv'
  BY <1>18, <1>c, AsideKeepsBarrier DEF BarrierAside, Acknowledge, SendPCs
<1>19. ASSUME NEW c \in Conns, Refuse(c) PROVE BarrierInv'
  <2>1. AgedIsSettled'
    BY <1>19, <1>c, <1>a DEF Refuse, BusyPCs, SendPCs, ReconcilePCs, MarkedPCs,
       HolderPCs
  <2>2. ReadyToClose'
    BY <1>19, <1>c, <1>a DEF Refuse, BusyPCs, SendPCs, ReconcilePCs, MarkedPCs,
       HolderPCs, StoreDone
  <2>3. TerminalBarrier'
    <3>1. pc[c] = "refuse" /\ job[c] \in attempted /\ job[c] \in Calls
          /\ CallOrder[job[c]] \in Orders
      BY <1>19, <1>a, <1>b DEF Refuse, MarkedPCs, BusyPCs, SendPCs
    <3>2. venue[job[c]] = "refused" /\ executed[job[c]] = 0
      BY <3>1 DEF BooksInv, RefusedInHand, VenueShape
    <3>3. trades[CallOrder[job[c]]] = 0
      BY <3>1, <3>2, <1>c DEF BooksInv, BookedIsVenuePrefix
    <3>4. Linked(job[c])
      BY <3>1 DEF MarkInv, MarkedStaysLinked
    <3>5. UNCHANGED <<orderVars, reportVars>> \/ StoreDone(job[c])
      BY <1>19 DEF Refuse
    <3> QED
      BY <1>19, <3>1, <3>2, <3>3, <3>4, <3>5, ClosingKeepsBarrier DEF Refuse
  <2> QED
    BY <2>1, <2>2, <2>3
<1>20. ASSUME NEW c \in Conns, Connected(c) PROVE BarrierInv'
  BY <1>20, <1>c, AsideKeepsBarrier DEF BarrierAside, Connected, SendPCs
<1>21. ASSUME NEW c \in Conns, Tick(c) PROVE BarrierInv'
  BY <1>21, <1>c, AsideKeepsBarrier DEF BarrierAside, Tick, SendPCs
<1>22. ASSUME NEW c \in Conns, NEW i \in Calls, OrderEvent(c, i) PROVE BarrierInv'
  BY <1>22, <1>c, AsideKeepsBarrier DEF BarrierAside, OrderEvent, SendPCs
<1>23. ASSUME NEW c \in Conns, NEW i \in Calls, NEW k \in 1..Qty,
                FillEvent(c, i, k)
         PROVE  BarrierInv'
  <2>1. AgedIsSettled'
    BY <1>23, <1>c, <1>a DEF FillEvent, BusyPCs, SendPCs, ReconcilePCs,
       MarkedPCs, HolderPCs
  <2>2. ReadyToClose'
    BY <1>23, <1>c, <1>a, FillEventBooks, IdleHoldsNothing DEF FillEvent,
       BusyPCs, SendPCs, ReconcilePCs, MarkedPCs, HolderPCs, Books, StoreFill,
       FenceInv
  <2>3. TerminalBarrier'
    BY <1>23, FillEventBooks, BookingKeepsBarrier DEF FillEvent, Terminal
  <2> QED
    BY <2>1, <2>2, <2>3
<1>24. ASSUME NEW c \in Conns, Scan(c) PROVE BarrierInv'
  BY <1>24, <1>c, AsideKeepsBarrier DEF BarrierAside, Scan, SendPCs
<1>25. ASSUME NEW c \in Conns, Read(c) PROVE BarrierInv'
  BY <1>25, <1>c, AsideKeepsBarrier DEF BarrierAside, Read, SendPCs
<1>26. ASSUME NEW c \in Conns, Discard(c) PROVE BarrierInv'
  BY <1>26, <1>c, AsideKeepsBarrier DEF BarrierAside, Discard, SendPCs
<1>27. ASSUME NEW c \in Conns, Lookup(c) PROVE BarrierInv'
  <2>1. AgedIsSettled'
    BY <1>27, <1>c, <1>a DEF Lookup, BusyPCs, SendPCs, ReconcilePCs, MarkedPCs,
       HolderPCs
  <2>2. ReadyToClose'
    <3> SUFFICES ASSUME NEW d \in Conns, pc'[d] = "close"
                 PROVE  /\ venue[job[d]] \notin {"inflight", "open"}
                        /\ executed[job[d]] = trades[CallOrder[job[d]]]
      BY <1>27 DEF Lookup
    <3>1. CASE pc[d] = "close"
      BY <3>1
    <3>2. CASE pc[d] # "close"
      <4>1. /\ d = c /\ pc[d] = "lookup" /\ venue[job[d]] \notin AtVenue
            /\ job[d] \in aged
        BY <1>27, <1>c, <3>2 DEF Lookup, MissingForGood
      <4>2. job[d] \in attempted /\ job[d] \in Calls /\ CallOrder[job[d]] \in Orders
        BY <4>1, <1>a, <1>b DEF MarkedPCs, BusyPCs, ReconcilePCs
      <4>3. venue[job[d]] \in {"absent", "refused", "lost"}
        BY <4>1, <4>2, <1>c DEF AtVenue, VenueStates
      <4>4. executed[job[d]] = 0 /\ trades[CallOrder[job[d]]] <= executed[job[d]]
        BY <4>2, <4>3 DEF BooksInv, VenueShape, BookedIsVenuePrefix
      <4> QED
        BY <4>2, <4>3, <4>4, <1>c
    <3> QED
      BY <3>1, <3>2
  <2>3. TerminalBarrier'
    BY <1>27, <1>c, <1>a, <1>b DEF Lookup, BusyPCs, SendPCs, ReconcilePCs,
       MarkedPCs, HolderPCs, Terminal, MissingForGood, BooksInv, VenueShape,
       BookedIsVenuePrefix, AtVenue, VenueStates
  <2> QED
    BY <2>1, <2>2, <2>3
<1>28. ASSUME NEW c \in Conns, Apply(c) PROVE BarrierInv'
  <2>1. AgedIsSettled'
    BY <1>28, <1>c, <1>a DEF Apply, BusyPCs, SendPCs, ReconcilePCs, MarkedPCs,
       HolderPCs
  <2>2. ReadyToClose'
    <3> SUFFICES ASSUME NEW d \in Conns, pc'[d] = "close"
                 PROVE  /\ venue[job[d]] \notin {"inflight", "open"}
                        /\ executed[job[d]] = trades'[CallOrder[job[d]]]
      BY <1>28 DEF Apply
    <3>1. CASE d = c
      <4>1. /\ pc[c] = "apply" /\ seen[c] = snap[c].filled
            /\ snap[c].st = "cancelled" /\ trades' = trades
        BY <1>28, <1>c, <3>1 DEF Apply
      <4>2. job[c] \in attempted /\ job[c] \in Calls /\ CallOrder[job[c]] \in Orders
        BY <4>1, <1>a, <1>b DEF MarkedPCs, BusyPCs, ReconcilePCs
      <4>3. venue[job[c]] = "cancelled" /\ executed[job[c]] = seen[c]
        BY <4>1 DEF BooksInv, SnapshotTrue
      <4>4. /\ seen[c] <= trades[CallOrder[job[c]]]
            /\ trades[CallOrder[job[c]]] <= executed[job[c]]
        BY <4>1, <4>2 DEF BooksInv, SeenIsBooked, BookedIsVenuePrefix
      <4>5. seen[c] \in Nat /\ trades[CallOrder[job[c]]] \in Nat
        BY <4>2, <1>c DEF WorkInv, TypeOK, WorkersOK
      <4> QED
        BY <3>1, <4>1, <4>3, <4>4, <4>5
    <3>2. CASE d # c
      <4>1. pc[c] = "apply" /\ pc[d] = "close"
        BY <1>28, <1>c, <3>2 DEF Apply
      <4>2. CallOrder[job[d]] # CallOrder[job[c]] /\ CallOrder[job[d]] \in Orders
        BY <4>1, <3>2, <1>a, SoleHolder DEF FenceInv, HolderPCs, MarkedPCs,
           BusyPCs, ReconcilePCs
      <4>3. trades'[CallOrder[job[d]]] = trades[CallOrder[job[d]]]
        BY <1>28, <1>c, <4>2, ApplyBooks DEF Books, StoreFill
      <4> QED
        BY <4>1, <4>3
    <3> QED
      BY <3>1, <3>2
  <2>3. TerminalBarrier'
    BY <1>28, ApplyBooks, BookingKeepsBarrier, <1>a DEF Apply, Terminal,
       BusyPCs, SendPCs, ReconcilePCs, MarkedPCs, HolderPCs
  <2> QED
    BY <2>1, <2>2, <2>3
<1>29. ASSUME NEW c \in Conns, Close(c) PROVE BarrierInv'
  <2>1. AgedIsSettled'
    BY <1>29, <1>c, <1>a DEF Close, BusyPCs, SendPCs, ReconcilePCs, MarkedPCs,
       HolderPCs
  <2>2. ReadyToClose'
    BY <1>29, <1>c, <1>a DEF Close, BusyPCs, SendPCs, ReconcilePCs, MarkedPCs,
       HolderPCs, StoreDone
  <2>3. TerminalBarrier'
    BY <1>29, <1>a, <1>b, ClosingKeepsBarrier, HolderLinked DEF Close, BusyPCs,
       SendPCs, ReconcilePCs, MarkedPCs, HolderPCs, FenceInv, MarkInv,
       UnmarkedInHand, HandPCs
  <2> QED
    BY <2>1, <2>2, <2>3
<1>30. ASSUME NEW c \in Conns, Exit(c) PROVE BarrierInv'
  BY <1>30, <1>c, AsideKeepsBarrier DEF BarrierAside, Exit, SendPCs
<1>31. ASSUME Stop PROVE BarrierInv'
  BY <1>31, <1>c, AsideKeepsBarrier DEF BarrierAside, Stop, SendPCs
<1>32. ASSUME Start PROVE BarrierInv'
  BY <1>32, <1>c, AsideKeepsBarrier DEF BarrierAside, Start, SendPCs
<1>33. ASSUME Crash PROVE BarrierInv'
  BY <1>33, <1>c, AsideKeepsBarrier DEF BarrierAside, Crash, SendPCs
<1>34. ASSUME NEW i \in Calls, Age(i) PROVE BarrierInv'
  <2>1. AgedIsSettled'
    BY <1>34, <1>c DEF Age, CallInv, OfferedIsFresh, Unplaced
  <2>2. ReadyToClose'
    BY <1>34, <1>c DEF Age
  <2>3. TerminalBarrier'
    BY <1>34, <1>c DEF Age, Terminal
  <2> QED
    BY <2>1, <2>2, <2>3
<1>35. ASSUME NEW i \in Calls, VenueStep(i) PROVE BarrierInv'
  <2>1. AgedIsSettled'
    BY <1>35, <1>c DEF VenueStep
  <2>2. ReadyToClose'
    <3> SUFFICES ASSUME NEW c \in Conns, pc[c] = "close"
                 PROVE  /\ venue'[job[c]] \notin {"inflight", "open"}
                        /\ executed'[job[c]] = trades[CallOrder[job[c]]]
      BY <1>35 DEF VenueStep
    <3> QED
      BY <1>35, <1>a, VenueRests DEF BusyPCs, ReconcilePCs
  <2>3. TerminalBarrier'
    <3>1. \A i_1 \in attempted : Terminal(CallOrder[i_1]) =>
            venue'[i_1] = venue[i_1] /\ executed'[i_1] = executed[i_1]
      BY <1>35, <1>c, VenueRests
    <3> QED
      BY <1>35, <3>1 DEF VenueStep, Terminal
  <2> QED
    BY <2>1, <2>2, <2>3
<1>36. ASSUME UNCHANGED vars PROVE BarrierInv'
  BY <1>36, AsideKeepsBarrier DEF BarrierAside, vars
<1> QED
  BY <1>1, <1>2, <1>3, <1>4, <1>5, <1>6, <1>7, <1>8, <1>9, <1>10, <1>11, <1>12,
     <1>13, <1>14, <1>15, <1>16, <1>17, <1>18, <1>19, <1>20, <1>21, <1>22,
     <1>23, <1>24, <1>25, <1>26, <1>27, <1>28, <1>29, <1>30, <1>31, <1>32,
     <1>33, <1>34, <1>35, <1>36 DEF Next, Send, Reconcile, Call, Stream

\* The inductive invariant behind the terminal barrier.
THEOREM BarrierInvHolds ==
  ASSUME TimelySend
  PROVE  Spec => [](WorkInv /\ MarkInv /\ CallInv /\ FenceInv /\ BooksInv /\ BarrierInv)
<1>1. Init => BarrierInv
  BY InitBarrier
<1>2. WorkInv /\ MarkInv /\ CallInv /\ FenceInv /\ BooksInv /\ BarrierInv /\ [Next]_vars
        => BarrierInv'
  BY NextBarrier
<1> QED
  BY <1>1, <1>2, BooksInvHolds, PTL DEF Spec

\* An order that was marked for sending is terminal only when its venue order
\* can execute no more and every execution is booked.
THEOREM ClosedOnlyWhenDone ==
  ASSUME TimelySend
  PROVE  Spec => []TerminalBarrier
<1>1. BarrierInv => TerminalBarrier
  BY DEF BarrierInv
<1> QED
  BY BarrierInvHolds, <1>1, PTL

-----------------------------------------------------------------------------
(* The runtime implements OrderDelivery *)

(* What the refinement mapping shows of an order.                            *)
Shown(o) == IF Terminal(o) THEN status[o] ELSE "open"
VenueLive(o) == \E i \in IdsOf(o) : venue[i] \in {"inflight", "open"}
Made(o) == IF o \in Asked THEN executed[link[o]] ELSE 0
Entered(o) == IF o \in Asked THEN trades[o] ELSE 0

\* What a step leaves alone of an order.
ShownKept(o) == Shown(o)' = Shown(o)
AskedKept(o) == o \in Asked' <=> o \in Asked
LiveKept(o) == VenueLive(o)' <=> VenueLive(o)
MadeKept(o) == Made(o)' = Made(o)
EnteredKept(o) == Entered(o)' = Entered(o)
AllKept(o) == /\ ShownKept(o) /\ AskedKept(o) /\ LiveKept(o)
              /\ MadeKept(o) /\ EnteredKept(o)

\* A step that shows nothing is a stutter of OrderDelivery.
LEMMA Stutters ==
  ASSUME \A p \in Orders : AllKept(p)
  PROVE  UNCHANGED Delivery!vars
<1> USE DEF AllKept, ShownKept, AskedKept, LiveKept, MadeKept, EnteredKept,
        Shown, VenueLive, Made, Entered, Asked
<1>1. UNCHANGED [o \in Orders |-> IF Terminal(o) THEN status[o] ELSE "open"]
  OBVIOUS
<1>2. UNCHANGED Asked
  OBVIOUS
<1>3. UNCHANGED {o \in Orders :
                    \E i \in IdsOf(o) : venue[i] \in {"inflight", "open"}}
  OBVIOUS
<1>4. UNCHANGED [o \in Orders |-> IF o \in Asked THEN executed[link[o]] ELSE 0]
  OBVIOUS
<1>5. UNCHANGED [o \in Orders |-> IF o \in Asked THEN trades[o] ELSE 0]
  OBVIOUS
<1> QED
  BY <1>1, <1>2, <1>3, <1>4, <1>5 DEF Delivery!vars

\* Each action of OrderDelivery, told by what it does to its order and by what
\* it leaves alone of the others.
LEMMA IsAsk ==
  ASSUME NEW o \in Orders, o \notin Asked, Shown(o) = "open", o \in Asked',
         ShownKept(o), VenueLive(o)', MadeKept(o), EnteredKept(o),
         \A p \in Orders \ {o} : AllKept(p)
  PROVE  Delivery!Ask(o)
<1> USE DEF AllKept, ShownKept, AskedKept, LiveKept, MadeKept, EnteredKept,
        Shown, VenueLive, Made, Entered, Asked
<1> QED
  BY DEF Delivery!Ask

\* A step that ends one venue order and changes no other order.
LEMMA IsVenueEnd ==
  ASSUME NEW o \in Orders, VenueLive(o), ~VenueLive(o)',
         ShownKept(o), AskedKept(o), MadeKept(o), EnteredKept(o),
         \A p \in Orders \ {o} : AllKept(p)
  PROVE  Delivery!VenueEnd(o)
<1> USE DEF AllKept, ShownKept, AskedKept, LiveKept, MadeKept, EnteredKept,
        Shown, VenueLive, Made, Entered, Asked
<1> QED
  BY DEF Delivery!VenueEnd

\* A step in which the venue executes one more unit of one order.
LEMMA IsVenueFill ==
  ASSUME NEW o \in Orders, VenueLive(o), Made(o) < Qty, Made(o)' = Made(o) + 1,
         VenueLive(o)' <=> Made(o)' # Qty,
         ShownKept(o), AskedKept(o), EnteredKept(o),
         \A p \in Orders \ {o} : AllKept(p)
  PROVE  Delivery!VenueFill(o)
<1> DEFINE shown == [p \in Orders |-> Shown(p)]
           live == {p \in Orders : VenueLive(p)}
           made == [p \in Orders |-> Made(p)]
           entered == [p \in Orders |-> Entered(p)]
<1> USE DEF AllKept, ShownKept, AskedKept, LiveKept, MadeKept, EnteredKept
<1>1. made' = [made EXCEPT ![o] = @ + 1]
  OBVIOUS
<1>2. shown' = shown
  OBVIOUS
<1>3. Asked' = Asked
  BY DEF Asked
<1>4. entered' = entered
  OBVIOUS
<1>5. live' = IF made'[o] = Qty THEN live \ {o} ELSE live
  OBVIOUS
<1> QED
  BY <1>1, <1>2, <1>3, <1>4, <1>5
  DEF Delivery!VenueFill, Shown, VenueLive, Made, Entered, Asked

\* A step that books one more execution of one open order.
LEMMA IsBook ==
  ASSUME NEW o \in Orders, Shown(o) = "open", Entered(o) < Made(o),
         Entered(o)' = Entered(o) + 1,
         Shown(o)' = IF Entered(o)' = Qty THEN "filled" ELSE "open",
         AskedKept(o), LiveKept(o), MadeKept(o),
         \A p \in Orders \ {o} : AllKept(p)
  PROVE  Delivery!Book(o)
<1> DEFINE shown == [p \in Orders |-> Shown(p)]
           live == {p \in Orders : VenueLive(p)}
           made == [p \in Orders |-> Made(p)]
           entered == [p \in Orders |-> Entered(p)]
<1> USE DEF AllKept, ShownKept, AskedKept, LiveKept, MadeKept, EnteredKept
<1>1. entered' = [entered EXCEPT ![o] = @ + 1]
  OBVIOUS
<1>2. shown' = [shown EXCEPT ![o] = IF entered'[o] = Qty THEN "filled" ELSE @]
  OBVIOUS
<1>3. Asked' = Asked
  BY DEF Asked
<1>4. live' = live
  OBVIOUS
<1>5. made' = made
  OBVIOUS
<1> QED
  BY <1>1, <1>2, <1>3, <1>4, <1>5
  DEF Delivery!Book, Shown, VenueLive, Made, Entered, Asked

\* A step that cancels one open order whose books are complete.
LEMMA IsClose ==
  ASSUME NEW o \in Orders, Shown(o) = "open", ~VenueLive(o),
         Entered(o) = Made(o), Shown(o)' = "cancelled",
         AskedKept(o), LiveKept(o), MadeKept(o), EnteredKept(o),
         \A p \in Orders \ {o} : AllKept(p)
  PROVE  Delivery!Close(o)
<1> DEFINE shown == [p \in Orders |-> Shown(p)]
           live == {p \in Orders : VenueLive(p)}
           made == [p \in Orders |-> Made(p)]
           entered == [p \in Orders |-> Entered(p)]
<1> USE DEF AllKept, ShownKept, AskedKept, LiveKept, MadeKept, EnteredKept
<1>1. shown' = [shown EXCEPT ![o] = "cancelled"]
  OBVIOUS
<1>2. Asked' = Asked
  BY DEF Asked
<1>3. live' = live
  OBVIOUS
<1>4. made' = made
  OBVIOUS
<1>5. entered' = entered
  OBVIOUS
<1> QED
  BY <1>1, <1>2, <1>3, <1>4, <1>5
  DEF Delivery!Close, Shown, VenueLive, Made, Entered, Asked

\* A step in which an operator fills an order the venue was never asked for.
LEMMA IsSettle ==
  ASSUME NEW o \in Orders, Shown(o) = "open", o \notin Asked,
         Shown(o)' = "filled",
         AskedKept(o), LiveKept(o), MadeKept(o), EnteredKept(o),
         \A p \in Orders \ {o} : AllKept(p)
  PROVE  Delivery!Settle(o)
<1> DEFINE shown == [p \in Orders |-> Shown(p)]
           live == {p \in Orders : VenueLive(p)}
           made == [p \in Orders |-> Made(p)]
           entered == [p \in Orders |-> Entered(p)]
<1> USE DEF AllKept, ShownKept, AskedKept, LiveKept, MadeKept, EnteredKept
<1>1. shown' = [shown EXCEPT ![o] = "filled"]
  OBVIOUS
<1>2. Asked' = Asked
  BY DEF Asked
<1>3. live' = live
  OBVIOUS
<1>4. made' = made
  OBVIOUS
<1>5. entered' = entered
  OBVIOUS
<1> QED
  BY <1>1, <1>2, <1>3, <1>4, <1>5
  DEF Delivery!Settle, Shown, VenueLive, Made, Entered, Asked

\* The link of an order the venue was asked to execute names its venue order,
\* its only marked id, and no step moves it.
LEMMA AskedLink ==
  ASSUME WorkInv, MarkInv, NEW o \in Asked
  PROVE  /\ link[o] \in Calls /\ link[o] \in attempted
         /\ CallOrder[link[o]] = o
  BY CallsAssumption DEF Asked, WorkInv, TypeOK, LinksOK, CountsOK, MarkInv,
     SentIsMarked, LinkOwned

\* The link of an asked order stays, whatever else a step does.
LEMMA AskedLinkKept ==
  ASSUME WorkInv, MarkInv, MarkInv', attempted \subseteq attempted', NEW o \in Asked
  PROVE  link'[o] = link[o]
  BY AskedLink DEF MarkInv, MarkedStaysLinked, Linked

\* An order without a marked id was never asked for and is unknown to the venue.
LEMMA UnmarkedIsUnknown ==
  ASSUME WorkInv, MarkInv, CallInv, NEW o \in Orders,
         \A i \in attempted : CallOrder[i] # o
  PROVE  o \notin Asked /\ ~VenueLive(o)
  BY AskedLink DEF CallInv, KnownIsMarked, VenueLive, IdsOf

\* The venue works on an order with a marked id when it works on that id.
LEMMA MarkedLive ==
  ASSUME MarkInv, CallInv, NEW i \in Calls, i \in attempted
  PROVE  VenueLive(CallOrder[i]) <=> venue[i] \in {"inflight", "open"}
  BY OneMark DEF CallInv, KnownIsMarked, VenueLive, IdsOf

\* What a step leaves alone when it touches neither the venue nor sends.
LEMMA VenueAside ==
  ASSUME WorkInv, MarkInv, MarkInv', attempted \subseteq attempted',
         UNCHANGED <<venue, executed, sends>>, NEW p \in Orders
  PROVE  AskedKept(p) /\ LiveKept(p) /\ MadeKept(p)
<1>1. Asked' = Asked
  BY DEF Asked
<1> QED
  BY <1>1, AskedLinkKept DEF AskedKept, LiveKept, MadeKept, VenueLive, Made

\* An order whose status and trades a step leaves alone.
LEMMA OrderAside ==
  ASSUME NEW p \in Orders, AskedKept(p), status'[p] = status[p],
         trades'[p] = trades[p]
  PROVE  ShownKept(p) /\ EnteredKept(p)
  BY DEF AskedKept, ShownKept, EnteredKept, Shown, Entered, Terminal

\* All that the refinement rests on.
DeliveryInv ==
    WorkInv /\ MarkInv /\ CallInv /\ FenceInv /\ BooksInv /\ BarrierInv

\* Sending an order to the venue asks for it.
LEMMA IssueAsks ==
  ASSUME DeliveryInv, MarkInv', NEW c \in Conns, NEW i \in Calls, job[c] = i,
         Issue(c)
  PROVE  Delivery!Ask(CallOrder[i])
<1> DEFINE o == CallOrder[i]
<1> USE DEF DeliveryInv
<1>1. /\ pc[c] = "issue" /\ o \in Orders /\ i \in attempted
      /\ sends[o] = 0 /\ link[o] = i
  BY BusyJob DEF Issue, At, BusyPCs, SendPCs, MarkInv, MarkedInHand, Linked
<1>2. status[o] = "committed" /\ trades[o] = 0
  BY <1>1 DEF FenceInv, ReadyToSend
<1>3. venue[i] = "absent" /\ executed[i] = 0
  BY <1>1 DEF BooksInv, KnownIsAsked, VenueShape
<1>4. /\ venue' = [venue EXCEPT ![i] = "inflight"]
      /\ sends' = [sends EXCEPT ![o] = @ + 1]
      /\ UNCHANGED <<status, trades, executed, link, attempted>>
  BY DEF Issue, store, orderVars, linkVars
<1>5. /\ venue \in [Calls -> VenueStates] /\ sends \in [Orders -> Nat]
  BY DEF WorkInv, TypeOK, VenueOK, CountsOK
<1>6. o \notin Asked /\ Asked' = Asked \cup {o}
  BY <1>1, <1>4, <1>5 DEF Asked
<1>7. Shown(o) = "open" /\ \A p \in Orders : ShownKept(p)
  BY <1>2, <1>4 DEF Shown, ShownKept, Terminal
<1>8. VenueLive(o)' /\ \A p \in Orders \ {o} : LiveKept(p)
  <2>1. venue'[i] = "inflight" /\ \A j \in Calls \ {i} : venue'[j] = venue[j]
    BY <1>1, <1>4, <1>5
  <2>2. VenueLive(o)'
    BY <1>1, <2>1 DEF VenueLive, IdsOf
  <2>3. ASSUME NEW p \in Orders \ {o} PROVE LiveKept(p)
    BY <2>1 DEF VenueLive, LiveKept, IdsOf
  <2> QED
    BY <2>2, <2>3
<1>9. \A p \in Orders : MadeKept(p) /\ EnteredKept(p)
  BY <1>1, <1>2, <1>3, <1>4, <1>6 DEF MadeKept, EnteredKept, Made, Entered
<1>10. \A p \in Orders \ {o} : AllKept(p)
  BY <1>6, <1>7, <1>8, <1>9 DEF AllKept, AskedKept
<1> QED
  BY <1>1, <1>6, <1>7, <1>8, <1>9, <1>10, IsAsk

\* A step of the venue executes a unit, ends its order, or shows nothing.
LEMMA VenueStepSteps ==
  ASSUME DeliveryInv, MarkInv', NEW i \in Calls, VenueStep(i)
  PROVE  Delivery!Next \/ UNCHANGED Delivery!vars
<1> DEFINE o == CallOrder[i]
<1> USE DEF DeliveryInv
<1>1. /\ venue \in [Calls -> VenueStates] /\ executed \in [Calls -> 0..Qty]
      /\ sends \in [Orders -> Nat] /\ o \in Orders
  BY CallsAssumption DEF WorkInv, TypeOK, VenueOK, CountsOK
<1>2. /\ venue[i] \in {"inflight", "open"}
      /\ UNCHANGED <<status, trades, sends, link, attempted>>
  BY DEF VenueStep, store, orderVars, linkVars
<1>3. i \in attempted /\ link[o] = i /\ o \in Asked
  BY <1>1, <1>2 DEF CallInv, KnownIsMarked, BooksInv, KnownIsAsked, MarkInv,
     MarkedStaysLinked, Linked, Asked
<1>4. \A p \in Orders : ShownKept(p) /\ AskedKept(p) /\ EnteredKept(p)
  BY <1>2 DEF ShownKept, AskedKept, EnteredKept, Shown, Entered, Asked, Terminal
<1>5. /\ \A j \in Calls \ {i} : venue'[j] = venue[j] /\ executed'[j] = executed[j]
  BY <1>1 DEF VenueStep
<1>6. \A p \in Orders \ {o} : AllKept(p)
  <2> SUFFICES ASSUME NEW p \in Orders \ {o} PROVE LiveKept(p) /\ MadeKept(p)
    BY <1>4 DEF AllKept
  <2>1. LiveKept(p)
    BY <1>5 DEF LiveKept, VenueLive, IdsOf
  <2>2. MadeKept(p)
    BY <1>2, <1>4, <1>5, AskedLink DEF MadeKept, Made, AskedKept
  <2> QED
    BY <2>1, <2>2
<1>7. VenueLive(o)
  BY <1>2 DEF VenueLive, IdsOf
<1>8. VenueLive(o)' <=> venue'[i] \in {"inflight", "open"}
  BY <1>1, <1>3, <1>5, OneMark DEF VenueLive, IdsOf, CallInv, KnownIsMarked
<1>9. Made(o) = executed[i] /\ Made(o)' = executed'[i]
  BY <1>1, <1>2, <1>3, <1>4 DEF Made, AskedKept
<1>10. CASE executed'[i] = executed[i] /\ venue'[i] \in {"inflight", "open"}
  BY <1>4, <1>6, <1>7, <1>8, <1>9, <1>10, Stutters
  DEF AllKept, LiveKept, MadeKept
<1>11. CASE executed'[i] = executed[i] /\ venue'[i] \notin {"inflight", "open"}
  <2>1. Delivery!VenueEnd(o)
    BY <1>1, <1>4, <1>6, <1>7, <1>8, <1>9, <1>11, IsVenueEnd DEF MadeKept
  <2> QED
    BY <1>1, <2>1 DEF Delivery!Next
<1>12. CASE executed'[i] # executed[i]
  <2>1. /\ executed[i] < Qty /\ executed'[i] = executed[i] + 1
        /\ venue'[i] = IF executed[i] + 1 = Qty THEN "filled" ELSE "open"
    BY <1>1, <1>12 DEF VenueStep
  <2>2. Delivery!VenueFill(o)
    BY <1>1, <1>4, <1>6, <1>7, <1>8, <1>9, <2>1, IsVenueFill
  <2> QED
    BY <1>1, <2>2 DEF Delivery!Next
<1> QED
  BY <1>10, <1>11, <1>12

\* Booking the next execution of a marked id books it for its order.
LEMMA BooksBook ==
  ASSUME DeliveryInv, MarkInv', NEW i \in Calls, Books(i),
         UNCHANGED <<venue, executed, sends, attempted>>
  PROVE  Delivery!Book(CallOrder[i])
<1> DEFINE o == CallOrder[i]
<1> USE DEF DeliveryInv
<1>1. /\ trades \in [Orders -> Nat] /\ status \in [Orders -> Statuses]
      /\ executed[i] \in 0..Qty /\ o \in Orders /\ sends \in [Orders -> Nat]
  BY CallsAssumption DEF WorkInv, TypeOK, OrdersOK, VenueOK, CountsOK
<1>2. /\ i \in attempted /\ ~Terminal(o) /\ trades[o] + 1 <= executed[i]
      /\ status' = [status EXCEPT ![o] =
                       IF trades[o] + 1 = Qty THEN "filled" ELSE "partially_filled"]
      /\ trades' = [trades EXCEPT ![o] = trades[o] + 1]
  BY <1>1 DEF Books, StoreFill
<1>3. link[o] = i /\ o \in Asked
  BY <1>1, <1>2, BoundsAssumption DEF BooksInv, KnownIsAsked, VenueShape,
     MarkInv, MarkedStaysLinked, Linked, Asked
<1>4. \A p \in Orders : AskedKept(p) /\ LiveKept(p) /\ MadeKept(p)
  BY VenueAside
<1>5. \A p \in Orders \ {o} : AllKept(p)
  BY <1>1, <1>2, <1>4, OrderAside DEF AllKept
<1>6. /\ Entered(o) = trades[o] /\ Entered(o)' = trades[o] + 1
      /\ Made(o) = executed[i]
  BY <1>1, <1>2, <1>3, <1>4 DEF Entered, Made, AskedKept
<1>7. Shown(o) = "open" /\ Shown(o)' = IF trades[o] + 1 = Qty THEN "filled" ELSE "open"
  BY <1>1, <1>2 DEF Shown, Terminal
<1> QED
  BY <1>1, <1>2, <1>4, <1>5, <1>6, <1>7, IsBook

\* So does the done report of a linked id: it closes the order over complete
\* books, or changes nothing.
LEMMA DoneCloses ==
  ASSUME DeliveryInv, MarkInv', NEW i \in Calls, Linked(i),
         i \in attempted => /\ venue[i] \notin {"inflight", "open"}
                            /\ executed[i] = trades[CallOrder[i]],
         UNCHANGED <<orderVars, reportVars>> \/ StoreDone(i),
         UNCHANGED <<venue, executed, sends, attempted>>
  PROVE  Delivery!Next \/ UNCHANGED Delivery!vars
<1> DEFINE o == CallOrder[i]
<1> USE DEF DeliveryInv
<1>1. status \in [Orders -> Statuses] /\ o \in Orders /\ sends \in [Orders -> Nat]
  BY CallsAssumption DEF WorkInv, TypeOK, OrdersOK, CountsOK
<1>2. \A p \in Orders : AskedKept(p) /\ LiveKept(p) /\ MadeKept(p)
  BY VenueAside
<1>3. CASE UNCHANGED <<orderVars, reportVars>>
  BY <1>2, <1>3, OrderAside, Stutters DEF AllKept, orderVars
<1>4. CASE ~UNCHANGED <<orderVars, reportVars>>
  <2>1. /\ ~Terminal(o) /\ status' = [status EXCEPT ![o] = "cancelled"]
        /\ trades' = trades
    BY <1>4 DEF StoreDone
  <2>2. \A p \in Orders \ {o} : AllKept(p)
    BY <1>1, <1>2, <2>1, OrderAside DEF AllKept
  <2>3. Shown(o) = "open" /\ Shown(o)' = "cancelled" /\ EnteredKept(o)
    BY <1>1, <1>2, <2>1 DEF Shown, Terminal, EnteredKept, Entered, AskedKept
  <2>4. ~VenueLive(o) /\ Entered(o) = Made(o)
    <3>1. CASE i \in attempted
      BY <3>1, MarkedLive DEF Linked, Entered, Made
    <3>2. CASE i \notin attempted
      <4>1. \A j \in attempted : CallOrder[j] # o
        BY <3>2, OneMark
      <4> QED
        BY <1>1, <4>1, UnmarkedIsUnknown DEF Entered, Made
    <3> QED
      BY <3>1, <3>2
  <2>5. Delivery!Close(o)
    BY <1>1, <1>2, <2>2, <2>3, <2>4, IsClose
  <2> QED
    BY <1>1, <2>5 DEF Delivery!Next
<1> QED
  BY <1>3, <1>4

\* An operator request settles, closes or reports on an order that is not the
\* venue's.
LEMMA OpStoreSteps ==
  ASSUME DeliveryInv, MarkInv', NEW o \in Orders, OpStore(o)
  PROVE  Delivery!Next \/ UNCHANGED Delivery!vars
<1> USE DEF DeliveryInv
<1>1. /\ status \in [Orders -> Statuses] /\ trades \in [Orders -> Nat]
      /\ sends \in [Orders -> Nat]
  BY DEF WorkInv, TypeOK, OrdersOK, CountsOK
<1>2. /\ ~LaneFree(o) /\ UNCHANGED <<venue, executed, sends, attempted>>
      /\ \A p \in Orders \ {o} : status'[p] = status[p] /\ trades'[p] = trades[p]
  BY <1>1 DEF OpStore, venueVars, linkVars
<1>3. ~Terminal(o)
  BY <1>2 DEF FenceInv, LaneOrderOpen
<1>4. o \notin Asked /\ ~VenueLive(o)
  BY <1>2, MarkedIsFenced, UnmarkedIsUnknown
<1>5. \A p \in Orders : AskedKept(p) /\ LiveKept(p) /\ MadeKept(p)
  BY <1>2, VenueAside
<1>6. \A p \in Orders \ {o} : AllKept(p)
  BY <1>2, <1>5, OrderAside DEF AllKept
<1>7. Entered(o) = Made(o) /\ EnteredKept(o) /\ Shown(o) = "open"
  BY <1>3, <1>4, <1>5 DEF Entered, Made, EnteredKept, AskedKept, Shown
<1>8. status'[o] \in Statuses
  BY <1>1 DEF OpStore, Statuses
<1>9. CASE Shown(o)' = "open"
  BY <1>5, <1>6, <1>7, <1>9, Stutters DEF AllKept, ShownKept
<1>10. CASE Shown(o)' = "cancelled"
  <2>1. Delivery!Close(o)
    BY <1>4, <1>5, <1>6, <1>7, <1>10, IsClose
  <2> QED
    BY <2>1 DEF Delivery!Next
<1>11. CASE Shown(o)' = "filled"
  <2>1. Delivery!Settle(o)
    BY <1>4, <1>5, <1>6, <1>7, <1>11, IsSettle
  <2> QED
    BY <2>1 DEF Delivery!Next
<1> QED
  BY <1>8, <1>9, <1>10, <1>11 DEF Shown, Terminal, Statuses
\* The other steps touch neither the venue nor the marks that are there.
LEMMA MarksGrow ==
  ASSUME [Next]_vars
  PROVE  attempted \subseteq attempted'
<1> USE DEF Quiet, store, linkVars
<1>1. ASSUME NEW c \in Conns, Mark(c) PROVE attempted \subseteq attempted'
  BY <1>1 DEF Mark
<1>2. ASSUME NEW c \in Conns, Send(c) \/ Reconcile(c), ~Mark(c)
      PROVE  attempted' = attempted
  BY <1>2 DEF Send, Reconcile, Check, CreateLink, Claim, Recheck, Unlink,
     Issue, Await, Acknowledge, Refuse, Scan, Read, Discard, Lookup, Apply,
     Close
<1>3. ASSUME NEW c \in Conns, \/ Stream(c) \/ Tick(c) \/ Exit(c)
                              \/ \E i \in Calls : HandOff(c, i)
      PROVE  attempted' = attempted
  BY <1>3 DEF Stream, Connected, OrderEvent, FillEvent, Tick, Exit, HandOff
<1>4. ASSUME NEW i \in Calls, Call(i) \/ Age(i) \/ VenueStep(i)
      PROVE  attempted' = attempted
  BY <1>4 DEF Call, Offer, RefuseEarly, Abandon, Return, Verify, CancelUnsent,
     Age, VenueStep
<1>5. ASSUME \/ Stop \/ Start \/ Crash \/ UNCHANGED vars
             \/ \E o \in Orders : OpStore(o) \/ \E k \in OpKinds : OpEnter(o, k)
      PROVE  attempted' = attempted
  BY <1>5 DEF Stop, Start, Crash, OpStore, OpEnter, vars
<1> QED
  BY <1>1, <1>2, <1>3, <1>4, <1>5 DEF Next

\* A step that touches neither the venue, sends, status nor trades stutters.
LEMMA QuietStutters ==
  ASSUME DeliveryInv, MarkInv', [Next]_vars,
         UNCHANGED <<venue, executed, sends>>,
         \A p \in Orders : status'[p] = status[p] \/ (~Terminal(p) /\ ~Terminal(p)'),
         UNCHANGED trades
  PROVE  UNCHANGED Delivery!vars
<1>1. \A p \in Orders : AskedKept(p) /\ LiveKept(p) /\ MadeKept(p)
  BY MarksGrow, VenueAside DEF DeliveryInv
<1>2. \A p \in Orders : ShownKept(p) /\ EnteredKept(p)
  BY <1>1 DEF AskedKept, ShownKept, EnteredKept, Shown, Entered, Terminal
<1> QED
  BY <1>1, <1>2, Stutters DEF AllKept

\* The initial states map to initial states of OrderDelivery.
LEMMA InitDelivery == Init => Delivery!Init
<1> SUFFICES ASSUME Init PROVE Delivery!Init
  OBVIOUS
<1>1. Asked = {}
  BY DEF Init, Asked
<1>2. \A o \in Orders : ~Terminal(o) /\ ~VenueLive(o)
  BY DEF Init, Terminal, VenueLive, IdsOf
<1> QED
  BY <1>1, <1>2 DEF Delivery!Init, VenueLive

\* Every step of the runtime is a step of OrderDelivery, or shows nothing.
LEMMA NextDelivery ==
  ASSUME DeliveryInv, MarkInv', [Next]_vars
  PROVE  Delivery!Next \/ UNCHANGED Delivery!vars
<1> USE DEF DeliveryInv
<1>a. status \in [Orders -> Statuses] /\ CallOrder \in [Calls -> Orders]
  BY CallsAssumption DEF WorkInv, TypeOK, OrdersOK
<1>1. ASSUME NEW c \in Conns, Issue(c) PROVE Delivery!Next
  <2>1. PICK i \in Calls : job[c] = i
    BY <1>1, BusyJob DEF Issue, At, BusyPCs, SendPCs
  <2>2. Delivery!Ask(CallOrder[i])
    BY <1>1, <2>1, IssueAsks
  <2> QED
    BY <1>a, <2>2 DEF Delivery!Next
<1>2. ASSUME NEW i \in Calls, VenueStep(i)
      PROVE  Delivery!Next \/ UNCHANGED Delivery!vars
  BY <1>2, VenueStepSteps
<1>3. ASSUME NEW c \in Conns, NEW i \in Calls, NEW k \in 1..Qty,
             FillEvent(c, i, k)
      PROVE  Delivery!Next \/ UNCHANGED Delivery!vars
  <2>1. UNCHANGED <<venue, executed, sends, attempted>>
    BY <1>3 DEF FillEvent, Quiet, venueVars, linkVars
  <2>2. CASE UNCHANGED <<orderVars, reportVars>>
    BY <2>1, <2>2, QuietStutters DEF orderVars
  <2>3. CASE Books(i)
    BY <1>a, <2>1, <2>3, BooksBook DEF Delivery!Next
  <2> QED
    BY <1>3, <2>2, <2>3, FillEventBooks
<1>4. ASSUME NEW c \in Conns, Apply(c)
      PROVE  Delivery!Next \/ UNCHANGED Delivery!vars
  <2>1. UNCHANGED <<venue, executed, sends, attempted>>
    BY <1>4 DEF Apply, Quiet, venueVars, linkVars
  <2>2. PICK i \in Calls : job[c] = i
    BY <1>4, BusyJob DEF Apply, At, BusyPCs, ReconcilePCs
  <2>3. CASE UNCHANGED <<orderVars, reportVars>>
    BY <2>1, <2>3, QuietStutters DEF orderVars
  <2>4. CASE Books(i)
    BY <1>a, <2>1, <2>4, BooksBook DEF Delivery!Next
  <2> QED
    BY <1>4, <2>2, <2>3, <2>4, ApplyBooks
<1>5. ASSUME NEW c \in Conns, Refuse(c)
      PROVE  Delivery!Next \/ UNCHANGED Delivery!vars
  <2>1. UNCHANGED <<venue, executed, sends, attempted>>
    BY <1>5 DEF Refuse, Quiet, venueVars, linkVars
  <2>2. PICK i \in Calls : job[c] = i
    BY <1>5, BusyJob DEF Refuse, At, BusyPCs, SendPCs
  <2>3. pc[c] = "refuse" /\ i \in attempted /\ Linked(i)
    BY <1>5, <2>2 DEF Refuse, At, FenceInv, MarkedAtVenueSteps, MarkedPCs,
       MarkInv, MarkedStaysLinked
  <2>4. venue[i] = "refused" /\ executed[i] = 0
    BY <2>2, <2>3 DEF BooksInv, RefusedInHand, VenueShape
  <2>5. trades[CallOrder[i]] = 0
    BY <1>a, <2>3, <2>4 DEF BooksInv, BookedIsVenuePrefix, WorkInv, TypeOK,
       OrdersOK
  <2>6. UNCHANGED <<orderVars, reportVars>> \/ StoreDone(i)
    BY <1>5, <2>2 DEF Refuse
  <2> QED
    BY <2>1, <2>3, <2>4, <2>5, <2>6, DoneCloses
<1>6. ASSUME NEW c \in Conns, Close(c)
      PROVE  Delivery!Next \/ UNCHANGED Delivery!vars
  <2>1. UNCHANGED <<venue, executed, sends, attempted>>
    BY <1>6 DEF Close, Quiet, venueVars, linkVars
  <2>2. PICK i \in Calls : job[c] = i
    BY <1>6, BusyJob DEF Close, BusyPCs, ReconcilePCs
  <2>3. Linked(i)
    BY <1>6, <2>2, HolderLinked DEF Close, FenceInv, HolderPCs, HandPCs,
       MarkedPCs
  <2>4. i \in attempted => /\ venue[i] \notin {"inflight", "open"}
                           /\ executed[i] = trades[CallOrder[i]]
    BY <1>6, <2>2 DEF Close, MarkInv, UnmarkedInHand, BarrierInv, ReadyToClose
  <2>5. UNCHANGED <<orderVars, reportVars>> \/ StoreDone(i)
    BY <1>6, <2>2 DEF Close
  <2> QED
    BY <2>1, <2>3, <2>4, <2>5, DoneCloses
<1>7. ASSUME NEW o \in Orders, OpStore(o)
      PROVE  Delivery!Next \/ UNCHANGED Delivery!vars
  BY <1>7, OpStoreSteps
<1>8. ASSUME NEW c \in Conns, Claim(c) PROVE UNCHANGED Delivery!vars
  <2>1. UNCHANGED <<venue, executed, sends, trades>>
    BY <1>8 DEF Claim, StoreClaim, Quiet, venueVars, orderVars
  <2>2. \A p \in Orders : status'[p] = status[p] \/ (~Terminal(p) /\ ~Terminal(p)')
    BY <1>8, <1>a DEF Claim, StoreClaim, Modifiable, Terminal, orderVars
  <2> QED
    BY <2>1, <2>2, QuietStutters
<1> USE DEF Quiet, store, orderVars, venueVars
<1>9. ASSUME NEW c \in Conns,
             \/ Check(c) \/ CreateLink(c) \/ Recheck(c) \/ Unlink(c) \/ Mark(c)
             \/ Await(c) \/ Acknowledge(c)
      PROVE  UNCHANGED <<venue, executed, sends, status, trades>>
  BY <1>9 DEF Check, CreateLink, Recheck, Unlink, Mark, Await, Acknowledge
<1>10. ASSUME NEW c \in Conns,
             \/ Scan(c) \/ Read(c) \/ Discard(c) \/ Lookup(c) \/ Connected(c)
             \/ Tick(c) \/ Exit(c)
             \/ \E i \in Calls : OrderEvent(c, i) \/ HandOff(c, i)
      PROVE  UNCHANGED <<venue, executed, sends, status, trades>>
  BY <1>10 DEF Scan, Read, Discard, Lookup, Connected, Tick, Exit,
     OrderEvent, HandOff
<1>11. ASSUME NEW i \in Calls, Call(i) \/ Age(i)
       PROVE  UNCHANGED <<venue, executed, sends, status, trades>>
  BY <1>11 DEF Call, Offer, RefuseEarly, Abandon, Return, Verify,
     CancelUnsent, Age
<1>12. ASSUME Stop \/ Start \/ Crash \/ UNCHANGED vars
              \/ \E o \in Orders, k \in OpKinds : OpEnter(o, k)
       PROVE  UNCHANGED <<venue, executed, sends, status, trades>>
  BY <1>12 DEF Stop, Start, Crash, OpEnter, vars
<1>13. CASE UNCHANGED <<venue, executed, sends, status, trades>>
  BY <1>13, QuietStutters
<1> QED
  BY <1>1, <1>2, <1>3, <1>4, <1>5, <1>6, <1>7, <1>8, <1>9, <1>10, <1>11,
     <1>12, <1>13 DEF Next, Send, Reconcile, Stream

\* The runtime implements OrderDelivery: the venue is asked at most once and
\* only while the order is open, its executions are booked in order while the
\* order is open, and the order closes only over books that agree with a venue
\* that is done with it.
THEOREM ImplementsDelivery ==
  ASSUME TimelySend
  PROVE  Spec => Delivers
<1>1. Init => Delivery!Init
  BY InitDelivery
<1>2. DeliveryInv /\ MarkInv' /\ [Next]_vars => [Delivery!Next]_(Delivery!vars)
  BY NextDelivery
<1>3. Spec => []DeliveryInv
  BY BarrierInvHolds DEF DeliveryInv
<1>4. DeliveryInv => MarkInv
  BY DEF DeliveryInv
<1> QED
  BY <1>1, <1>2, <1>3, <1>4, PTL DEF Spec, Delivers, Delivery!Spec

=============================================================================
