-------------------------- MODULE TradingFenceProofs --------------------------
(***************************************************************************)
(* What fences an order of TradingRuntime: a call that ends unsent leaves  *)
(* nothing behind, a stored claim keeps operators out of the order's lane, *)
(* only the worker that holds the link of an order writes to it, and a     *)
(* finished order stays as it is.                                          *)
(***************************************************************************)
EXTENDS TradingRuntimeProofs

(* Control points at which a worker holds the linked id of an order.         *)
MarkedPCs == {"issue", "await", "ack", "refuse", "lookup", "apply", "close"}
HolderPCs == HandPCs \cup MarkedPCs

-----------------------------------------------------------------------------
(* Calls *)

Unplaced(i) == venue[i] = "absent" /\ i \notin attempted /\ ~Linked(i)

\* A call that no worker took yet left no trace.
OfferedIsFresh ==
    \A i \in Calls : caller[i] \in {"new", "offered"} =>
        Unplaced(i) /\ i \notin claimed /\ i \notin aged /\ result[i] = "none"

\* A send in progress has no result yet, and its caller waits or went away.
SenderUnanswered ==
    \A c \in Conns : pc[c] \in SendPCs =>
        result[job[c]] = "none" /\ caller[job[c]] \in {"handed", "end", "dead"}

\* Before it links its order a send left no trace.
CheckedIsFresh ==
    \A c \in Conns : pc[c] \in {"check", "link"} =>
        Unplaced(job[c]) /\ job[c] \notin claimed /\ job[c] \notin aged

\* The venue knows only what was marked.
KnownIsMarked == \A i \in Calls : venue[i] # "absent" => i \in attempted

\* What a call may have left behind, by how far it came.
CallInv ==
    /\ OfferedIsFresh /\ SenderUnanswered /\ CheckedIsFresh
    /\ KnownIsMarked /\ NotSentMeansNotSent

-----------------------------------------------------------------------------
(* Claims and lanes *)

\* A send is marked only after its claim was stored.
MarkedIsClaimed ==
    /\ attempted \subseteq claimed
    /\ \A c \in Conns : pc[c] \in {"recheck", "mark"} => job[c] \in claimed

MarkedAtVenueSteps ==
    \A c \in Conns : pc[c] \in MarkedPCs => job[c] \in attempted

\* A request in a lane found its order open, and it stays open meanwhile.
LaneOrderOpen == \A o \in Orders : ~LaneFree(o) => ~Terminal(o)

\* An order about to be marked or sent is as its worker re-read it.
ReadyToSend ==
    \A c \in Conns : pc[c] \in {"mark", "issue"} =>
        status[CallOrder[job[c]]] = "committed" /\ trades[CallOrder[job[c]]] = 0

\* What the durable claim keeps off an order.
FenceInv ==
    /\ MarkedIsClaimed /\ ClaimFence /\ MarkedAtVenueSteps
    /\ LaneOrderOpen /\ ReadyToSend

\* Initially no call has left anything behind.
LEMMA InitCall == Init => CallInv
  BY CallsAssumption
  DEF Init, CallInv, OfferedIsFresh, SenderUnanswered, CheckedIsFresh,
      KnownIsMarked, NotSentMeansNotSent, Unplaced, Linked, SendPCs

\* Steps that touch none of what a call leaves behind, and start no send.
CallAside ==
    /\ UNCHANGED <<link, attempted, aged, claimed, venue, caller, result>>
    /\ \A c \in Conns : pc'[c] \in SendPCs => pc'[c] = pc[c] /\ job'[c] = job[c]

\* A worker in the middle of a task holds a call of an order.
LEMMA BusyJob ==
  ASSUME WorkInv, NEW c \in Conns, pc[c] \in BusyPCs
  PROVE  /\ job[c] \in Calls /\ CallOrder[job[c]] \in Orders
         /\ CallConn[job[c]] = c
  BY CallsAssumption DEF WorkInv, JobOwned

\* A step aside keeps what a call may have left behind.
LEMMA AsideKeepsCalls == CallInv /\ CallAside => CallInv'
  BY DEF CallInv, CallAside, OfferedIsFresh, SenderUnanswered, CheckedIsFresh,
     KnownIsMarked, NotSentMeansNotSent, Unplaced, Linked, SendPCs

\* CallInv is inductive over the invariants of the no-resend proof.
LEMMA NextCall == WorkInv /\ MarkInv /\ CallInv /\ [Next]_vars => CallInv'
<1> SUFFICES ASSUME WorkInv, MarkInv, CallInv, [Next]_vars PROVE CallInv'
  OBVIOUS
<1> USE CallsAssumption, BoundsAssumption
    DEF WorkInv, TypeOK, MarkInv, CallInv, Quiet, NoFault, Fault, Goto, At,
        Finish, Settled, Track, Untrack, store, orderVars, reportVars,
        linkVars, venueVars, workerVars, retryVars, callVars
<1> USE DEF OfferedIsFresh, SenderUnanswered, CheckedIsFresh, KnownIsMarked,
        NotSentMeansNotSent, Unplaced, Linked, SendPCs, HandPCs, WorkersOK,
        CallsOK, LinksOK
<1>a. \A c \in Conns : pc[c] \in SendPCs \cup HandPCs =>
        pc[c] \in BusyPCs /\ job[c] \in Calls /\ CallOrder[job[c]] \in Orders
  BY BusyJob DEF BusyPCs, ReconcilePCs
<1>1. ASSUME NEW i \in Calls, Offer(i) PROVE CallInv'
  <2>1. OfferedIsFresh'
    BY <1>1 DEF Offer
  <2>2. SenderUnanswered'
    BY <1>1, <1>a DEF Offer
  <2> QED
    BY <1>1, <2>1, <2>2 DEF Offer
<1>2. ASSUME NEW i \in Calls, RefuseEarly(i) PROVE CallInv'
  <2>1. OfferedIsFresh'
    BY <1>2 DEF RefuseEarly
  <2>2. SenderUnanswered'
    BY <1>2, <1>a DEF RefuseEarly
  <2>3. NotSentMeansNotSent'
    BY <1>2 DEF RefuseEarly
  <2> QED
    BY <1>2, <2>1, <2>2, <2>3 DEF RefuseEarly
<1>3. ASSUME NEW i \in Calls, Abandon(i) PROVE CallInv'
  <2>1. OfferedIsFresh'
    BY <1>3 DEF Abandon
  <2>2. SenderUnanswered'
    BY <1>3, <1>a DEF Abandon
  <2>3. NotSentMeansNotSent'
    BY <1>3 DEF Abandon
  <2> QED
    BY <1>3, <2>1, <2>2, <2>3 DEF Abandon
<1>4. ASSUME NEW i \in Calls, Return(i) PROVE CallInv'
  <2>1. OfferedIsFresh'
    BY <1>4 DEF Return
  <2>2. SenderUnanswered'
    BY <1>4, <1>a DEF Return
  <2>3. NotSentMeansNotSent'
    BY <1>4 DEF Return
  <2> QED
    BY <1>4, <2>1, <2>2, <2>3 DEF Return
<1>5. ASSUME NEW i \in Calls, Verify(i) PROVE CallInv'
  <2>1. OfferedIsFresh'
    BY <1>5 DEF Verify, Verdict
  <2>2. SenderUnanswered'
    BY <1>5, <1>a DEF Verify, Verdict
  <2>3. NotSentMeansNotSent'
    BY <1>5 DEF Verify, Verdict
  <2> QED
    BY <1>5, <2>1, <2>2, <2>3 DEF Verify
<1>6. ASSUME NEW i \in Calls, CancelUnsent(i) PROVE CallInv'
  <2>1. OfferedIsFresh'
    BY <1>6 DEF CancelUnsent
  <2>2. SenderUnanswered'
    BY <1>6, <1>a DEF CancelUnsent
  <2>3. NotSentMeansNotSent'
    BY <1>6 DEF CancelUnsent
  <2> QED
    BY <1>6, <2>1, <2>2, <2>3 DEF CancelUnsent
<1>7. ASSUME NEW o \in Orders, NEW k \in OpKinds, OpEnter(o, k) PROVE CallInv'
  BY <1>7, AsideKeepsCalls DEF CallAside, ReconcilePCs, BusyPCs, OpEnter
<1>8. ASSUME NEW o \in Orders, OpStore(o) PROVE CallInv'
  <2>1. OfferedIsFresh'
    BY <1>8 DEF OpStore, LanesOK, LaneStates, Free
  <2>2. SenderUnanswered'
    BY <1>8, <1>a DEF OpStore, LanesOK, LaneStates, Free
  <2>3. NotSentMeansNotSent'
    BY <1>8 DEF OpStore, LanesOK, LaneStates, Free
  <2> QED
    BY <1>8, <2>1, <2>2, <2>3 DEF OpStore
<1>9. ASSUME NEW c \in Conns, NEW i \in Calls, HandOff(c, i) PROVE CallInv'
  <2>1. OfferedIsFresh'
    BY <1>9, <1>a DEF HandOff
  <2>2. SenderUnanswered'
    BY <1>9, <1>a, OneHolder DEF HandOff
  <2>3. CheckedIsFresh'
    BY <1>9, <1>a, OneHolder DEF HandOff
  <2>4. NotSentMeansNotSent'
    BY <1>9, <1>a DEF HandOff
  <2> QED
    BY <1>9, <2>1, <2>2, <2>3, <2>4 DEF HandOff
<1>10. ASSUME NEW c \in Conns, Check(c) PROVE CallInv'
  <2>1. OfferedIsFresh'
    BY <1>10, <1>a DEF Check
  <2>2. SenderUnanswered'
    BY <1>10, <1>a, OneHolder DEF Check
  <2>3. CheckedIsFresh'
    BY <1>10, <1>a, OneHolder DEF Check
  <2>4. NotSentMeansNotSent'
    BY <1>10, <1>a DEF Check
  <2> QED
    BY <1>10, <2>1, <2>2, <2>3, <2>4 DEF Check
<1>11. ASSUME NEW c \in Conns, CreateLink(c) PROVE CallInv'
  <2>1. OfferedIsFresh'
    BY <1>11, <1>a DEF CreateLink
  <2>2. SenderUnanswered'
    BY <1>11, <1>a, OneHolder DEF CreateLink
  <2>3. CheckedIsFresh'
    BY <1>11, <1>a, OneHolder DEF CreateLink
  <2>4. NotSentMeansNotSent'
    BY <1>11, <1>a DEF CreateLink
  <2> QED
    BY <1>11, <2>1, <2>2, <2>3, <2>4 DEF CreateLink
<1>12. ASSUME NEW c \in Conns, Claim(c) PROVE CallInv'
  <2>1. OfferedIsFresh'
    BY <1>12, <1>a DEF Claim, StoreClaim
  <2>2. SenderUnanswered'
    BY <1>12, <1>a, OneHolder DEF Claim, StoreClaim
  <2>3. CheckedIsFresh'
    BY <1>12, <1>a, OneHolder DEF Claim, StoreClaim
  <2> QED
    BY <1>12, <2>1, <2>2, <2>3 DEF Claim, StoreClaim
<1>13. ASSUME NEW c \in Conns, Recheck(c) PROVE CallInv'
  <2>1. OfferedIsFresh'
    BY <1>13, <1>a DEF Recheck, UnmarkedInHand
  <2>2. SenderUnanswered'
    BY <1>13, <1>a, OneHolder DEF Recheck, UnmarkedInHand
  <2>3. CheckedIsFresh'
    BY <1>13, <1>a, OneHolder DEF Recheck, UnmarkedInHand
  <2>4. NotSentMeansNotSent'
    BY <1>13, <1>a DEF Recheck, UnmarkedInHand
  <2> QED
    BY <1>13, <2>1, <2>2, <2>3, <2>4 DEF Recheck
<1>14. ASSUME NEW c \in Conns, Unlink(c) PROVE CallInv'
  <2>1. OfferedIsFresh'
    BY <1>14, <1>a DEF Unlink, UnmarkedInHand
  <2>2. SenderUnanswered'
    BY <1>14, <1>a, OneHolder DEF Unlink, UnmarkedInHand
  <2>3. CheckedIsFresh'
    BY <1>14, <1>a, OneHolder DEF Unlink, UnmarkedInHand
  <2>4. NotSentMeansNotSent'
    BY <1>14, <1>a DEF Unlink, UnmarkedInHand
  <2> QED
    BY <1>14, <2>1, <2>2, <2>3, <2>4 DEF Unlink
<1>15. ASSUME NEW c \in Conns, Mark(c) PROVE CallInv'
  <2>1. OfferedIsFresh'
    BY <1>15, <1>a DEF Mark, UnmarkedInHand
  <2>2. SenderUnanswered'
    BY <1>15, <1>a, OneHolder DEF Mark, UnmarkedInHand
  <2>3. CheckedIsFresh'
    BY <1>15, <1>a, OneHolder DEF Mark, UnmarkedInHand
  <2>4. KnownIsMarked'
    BY <1>15, <1>a DEF Mark, UnmarkedInHand
  <2>5. NotSentMeansNotSent'
    BY <1>15, <1>a DEF Mark, UnmarkedInHand
  <2> QED
    BY <2>1, <2>2, <2>3, <2>4, <2>5
<1>16. ASSUME NEW c \in Conns, Issue(c) PROVE CallInv'
  <2>1. OfferedIsFresh'
    BY <1>16, <1>a DEF Issue, VenueOK, MarkedInHand
  <2>2. SenderUnanswered'
    BY <1>16, <1>a, OneHolder DEF Issue, VenueOK, MarkedInHand
  <2>3. CheckedIsFresh'
    BY <1>16, <1>a, OneHolder DEF Issue, VenueOK, MarkedInHand
  <2>4. KnownIsMarked'
    BY <1>16, <1>a DEF Issue, VenueOK, MarkedInHand
  <2>5. NotSentMeansNotSent'
    BY <1>16, <1>a DEF Issue, VenueOK, MarkedInHand
  <2> QED
    BY <2>1, <2>2, <2>3, <2>4, <2>5
<1>17. ASSUME NEW c \in Conns, Await(c) PROVE CallInv'
  <2>1. OfferedIsFresh'
    BY <1>17, <1>a DEF Await, AtVenue
  <2>2. SenderUnanswered'
    BY <1>17, <1>a, OneHolder DEF Await, AtVenue
  <2>3. CheckedIsFresh'
    BY <1>17, <1>a, OneHolder DEF Await, AtVenue
  <2>4. NotSentMeansNotSent'
    BY <1>17, <1>a DEF Await, AtVenue
  <2> QED
    BY <1>17, <2>1, <2>2, <2>3, <2>4 DEF Await
<1>18. ASSUME NEW c \in Conns, Acknowledge(c) PROVE CallInv'
  <2>1. OfferedIsFresh'
    BY <1>18, <1>a DEF Acknowledge
  <2>2. SenderUnanswered'
    BY <1>18, <1>a, OneHolder DEF Acknowledge
  <2>3. CheckedIsFresh'
    BY <1>18, <1>a, OneHolder DEF Acknowledge
  <2>4. NotSentMeansNotSent'
    BY <1>18, <1>a DEF Acknowledge
  <2> QED
    BY <1>18, <2>1, <2>2, <2>3, <2>4 DEF Acknowledge
<1>19. ASSUME NEW c \in Conns, Refuse(c) PROVE CallInv'
  <2>a. claimed' = claimed
    BY <1>19 DEF Refuse, StoreDone
  <2>1. OfferedIsFresh'
    BY <1>19, <2>a, <1>a DEF Refuse
  <2>2. SenderUnanswered'
    BY <1>19, <2>a, <1>a, OneHolder DEF Refuse
  <2>3. CheckedIsFresh'
    BY <1>19, <2>a, <1>a, OneHolder DEF Refuse
  <2>4. NotSentMeansNotSent'
    BY <1>19, <2>a, <1>a DEF Refuse
  <2> QED
    BY <1>19, <2>a, <2>1, <2>2, <2>3, <2>4 DEF Refuse
<1>20. ASSUME NEW c \in Conns, Connected(c) PROVE CallInv'
  BY <1>20, AsideKeepsCalls DEF CallAside, ReconcilePCs, BusyPCs, Connected
<1>21. ASSUME NEW c \in Conns, Tick(c) PROVE CallInv'
  BY <1>21, AsideKeepsCalls DEF CallAside, ReconcilePCs, BusyPCs, Tick
<1>22. ASSUME NEW c \in Conns, NEW i \in Calls, OrderEvent(c, i) PROVE CallInv'
  BY <1>22, AsideKeepsCalls DEF CallAside, ReconcilePCs, BusyPCs, OrderEvent
<1>23. ASSUME NEW c \in Conns, NEW i \in Calls, NEW k \in 1..Qty,
                FillEvent(c, i, k)
         PROVE  CallInv'
  BY <1>23, AsideKeepsCalls DEF CallAside, ReconcilePCs, BusyPCs, FillEvent,
     StoreFill
<1>24. ASSUME NEW c \in Conns, Scan(c) PROVE CallInv'
  BY <1>24, AsideKeepsCalls DEF CallAside, ReconcilePCs, BusyPCs, Scan
<1>25. ASSUME NEW c \in Conns, Read(c) PROVE CallInv'
  BY <1>25, AsideKeepsCalls DEF CallAside, ReconcilePCs, BusyPCs, Read
<1>26. ASSUME NEW c \in Conns, Discard(c) PROVE CallInv'
  <2>1. OfferedIsFresh'
    BY <1>26, <1>a DEF Discard, UnmarkedInHand
  <2>2. CheckedIsFresh'
    BY <1>26, <1>a, OneHolder DEF Discard, UnmarkedInHand
  <2>3. NotSentMeansNotSent'
    BY <1>26, <1>a DEF Discard, UnmarkedInHand
  <2> QED
    BY <1>26, <2>1, <2>2, <2>3 DEF Discard
<1>27. ASSUME NEW c \in Conns, Lookup(c) PROVE CallInv'
  BY <1>27, AsideKeepsCalls DEF CallAside, ReconcilePCs, BusyPCs, Lookup
<1>28. ASSUME NEW c \in Conns, Apply(c) PROVE CallInv'
  BY <1>28, AsideKeepsCalls DEF CallAside, ReconcilePCs, BusyPCs, Apply,
     StoreFill
<1>29. ASSUME NEW c \in Conns, Close(c) PROVE CallInv'
  BY <1>29, AsideKeepsCalls DEF CallAside, ReconcilePCs, BusyPCs, Close,
     StoreDone
<1>30. ASSUME NEW c \in Conns, Exit(c) PROVE CallInv'
  BY <1>30, AsideKeepsCalls DEF CallAside, ReconcilePCs, BusyPCs, Exit
<1>31. ASSUME Stop PROVE CallInv'
  BY <1>31, AsideKeepsCalls DEF CallAside, ReconcilePCs, BusyPCs, Stop
<1>32. ASSUME Start PROVE CallInv'
  BY <1>32, AsideKeepsCalls DEF CallAside, ReconcilePCs, BusyPCs, Start
<1>33. ASSUME Crash PROVE CallInv'
  <2>1. OfferedIsFresh'
    BY <1>33 DEF Crash
  <2>2. SenderUnanswered'
    BY <1>33, <1>a DEF Crash
  <2>3. CheckedIsFresh'
    BY <1>33, <1>a DEF Crash
  <2>4. NotSentMeansNotSent'
    BY <1>33 DEF Crash
  <2> QED
    BY <1>33, <2>1, <2>2, <2>3, <2>4 DEF Crash
<1>34. ASSUME NEW i \in Calls, Age(i) PROVE CallInv'
  <2>1. OfferedIsFresh'
    BY <1>34 DEF Age
  <2>2. CheckedIsFresh'
    BY <1>34, <1>a DEF Age
  <2> QED
    BY <1>34, <2>1, <2>2 DEF Age
<1>35. ASSUME NEW i \in Calls, VenueStep(i) PROVE CallInv'
  <2>1. OfferedIsFresh'
    BY <1>35 DEF VenueStep, VenueOK
  <2>2. CheckedIsFresh'
    BY <1>35, <1>a DEF VenueStep, VenueOK
  <2>3. KnownIsMarked'
    BY <1>35 DEF VenueStep, VenueOK
  <2>4. NotSentMeansNotSent'
    BY <1>35 DEF VenueStep, VenueOK
  <2> QED
    BY <1>35, <2>1, <2>2, <2>3, <2>4 DEF VenueStep
<1>36. ASSUME UNCHANGED vars PROVE CallInv'
  BY <1>36, AsideKeepsCalls DEF CallAside, vars
<1> QED
  BY <1>1, <1>2, <1>3, <1>4, <1>5, <1>6, <1>7, <1>8, <1>9, <1>10, <1>11, <1>12,
     <1>13, <1>14, <1>15, <1>16, <1>17, <1>18, <1>19, <1>20, <1>21, <1>22,
     <1>23, <1>24, <1>25, <1>26, <1>27, <1>28, <1>29, <1>30, <1>31, <1>32,
     <1>33, <1>34, <1>35, <1>36 DEF Next, Send, Reconcile, Call, Stream

\* The inductive invariant behind a call that fails with ErrNotSent.
THEOREM CallInvHolds == Spec => [](WorkInv /\ MarkInv /\ CallInv)
<1>1. Init => WorkInv /\ MarkInv /\ CallInv
  BY InitWork, InitMark, InitCall
<1>2. WorkInv /\ MarkInv /\ CallInv /\ [Next]_vars => (WorkInv /\ MarkInv /\ CallInv)'
  BY NextWork, NextMark, NextCall
<1> QED
  BY <1>1, <1>2, PTL DEF Spec

\* A call that failed with ErrNotSent has no link, no mark and no venue order,
\* now or later, so cancelling its order on the strength of it is safe.
THEOREM NotSentLeavesNothing == Spec => []NotSentMeansNotSent
<1>1. CallInv => NotSentMeansNotSent
  BY DEF CallInv
<1> QED
  BY CallInvHolds, <1>1, PTL

\* Initially nothing is claimed and every lane is free.
LEMMA InitFence == Init => FenceInv
  BY CallsAssumption
  DEF Init, FenceInv, MarkedIsClaimed, ClaimFence, MarkedAtVenueSteps,
      LaneOrderOpen, ReadyToSend, LaneFree, MarkedPCs

\* A worker past the link of its order holds that link.
LEMMA HolderLinked ==
  ASSUME WorkInv, MarkInv, MarkedAtVenueSteps,
         NEW c \in Conns, pc[c] \in HolderPCs
  PROVE  Linked(job[c])
  BY BusyJob DEF MarkInv, MarkedStaysLinked, UnmarkedInHand,
     MarkedAtVenueSteps, HolderPCs, MarkedPCs, HandPCs, BusyPCs, SendPCs,
     ReconcilePCs

\* No two workers hold the link of one order.
LEMMA SoleHolder ==
  ASSUME WorkInv, MarkInv, MarkedAtVenueSteps,
         NEW c \in Conns, pc[c] \in HolderPCs,
         NEW d \in Conns, pc[d] \in HolderPCs,
         CallOrder[job[c]] = CallOrder[job[d]]
  PROVE  c = d
  BY HolderLinked, OneHolder DEF Linked, HolderPCs, MarkedPCs, HandPCs,
     BusyPCs, SendPCs, ReconcilePCs

\* Nor does a worker that is idle own a link another one holds.
LEMMA IdleHoldsNothing ==
  ASSUME WorkInv, MarkInv, MarkedAtVenueSteps,
         NEW c \in Conns, pc[c] \in HolderPCs, NEW i \in Calls, Linked(i),
         pc[CallConn[i]] = "idle"
  PROVE  CallOrder[job[c]] # CallOrder[i]
  BY HolderLinked, BusyJob DEF Linked, HolderPCs, MarkedPCs, HandPCs,
     BusyPCs, SendPCs, ReconcilePCs

\* Steps that touch neither claims, lanes and what operators and fills settle,
\* nor take a worker past its claim.
FenceAside ==
    /\ UNCHANGED <<link, attempted, claimed, lane, status, trades>>
    /\ \A c \in Conns : pc'[c] \in MarkedPCs \cup {"recheck", "mark"} =>
                            pc'[c] = pc[c] /\ job'[c] = job[c]

\* A step aside keeps the fence.
LEMMA AsideKeepsFence == FenceInv /\ FenceAside => FenceInv'
  BY DEF FenceInv, FenceAside, MarkedIsClaimed, ClaimFence, MarkedAtVenueSteps,
     LaneOrderOpen, ReadyToSend, LaneFree, MarkedPCs, Terminal

\* FenceInv is inductive over the invariants before it.
LEMMA NextFence ==
  WorkInv /\ MarkInv /\ CallInv /\ FenceInv /\ [Next]_vars => FenceInv'
<1> SUFFICES ASSUME WorkInv, MarkInv, CallInv, FenceInv, [Next]_vars
             PROVE  FenceInv'
  OBVIOUS
<1> USE CallsAssumption, BoundsAssumption
    DEF WorkInv, TypeOK, MarkInv, CallInv, FenceInv, Quiet, NoFault, Fault,
        Goto, At, Finish, Settled, Track, Untrack, store, orderVars,
        reportVars, linkVars, venueVars, workerVars, retryVars, callVars
<1> USE DEF MarkedIsClaimed, ClaimFence, MarkedAtVenueSteps, LaneOrderOpen,
        ReadyToSend, LaneFree, Linked, MarkedPCs, HolderPCs, HandPCs, Terminal,
        WorkersOK
<1>a. \A c \in Conns : pc[c] \in HolderPCs \cup {"link", "read"} =>
        pc[c] \in BusyPCs /\ job[c] \in Calls /\ CallOrder[job[c]] \in Orders
  BY BusyJob DEF BusyPCs, SendPCs, ReconcilePCs
<1>b. \A c \in Conns : pc[c] \in {"mark", "issue"} =>
        LaneFree(CallOrder[job[c]])
  BY <1>a, HolderLinked
<1>1. ASSUME NEW i \in Calls, Offer(i) PROVE FenceInv'
  BY <1>1, AsideKeepsFence DEF FenceAside, Offer
<1>2. ASSUME NEW i \in Calls, RefuseEarly(i) PROVE FenceInv'
  BY <1>2, AsideKeepsFence DEF FenceAside, RefuseEarly
<1>3. ASSUME NEW i \in Calls, Abandon(i) PROVE FenceInv'
  BY <1>3, AsideKeepsFence DEF FenceAside, Abandon
<1>4. ASSUME NEW i \in Calls, Return(i) PROVE FenceInv'
  BY <1>4, AsideKeepsFence DEF FenceAside, Return
<1>5. ASSUME NEW i \in Calls, Verify(i) PROVE FenceInv'
  BY <1>5, AsideKeepsFence DEF FenceAside, Verify
<1>6. ASSUME NEW i \in Calls, CancelUnsent(i) PROVE FenceInv'
  <2>1. ClaimFence'
    BY <1>6, <1>a DEF CancelUnsent, LinksOK, ReportsOK, LanesOK, LaneStates,
       Free, LinkOwned, NoVenueOrder
  <2>2. LaneOrderOpen'
    BY <1>6, <1>a DEF CancelUnsent, LanesOK, OrdersOK, LaneStates, Free,
       Modifiable
  <2> QED
    BY <1>6, <2>1, <2>2 DEF CancelUnsent
<1>7. ASSUME NEW o \in Orders, NEW k \in OpKinds, OpEnter(o, k) PROVE FenceInv'
  <2>1. ClaimFence'
    BY <1>7 DEF OpEnter, LinksOK, ReportsOK, LanesOK, LaneStates, Free,
       LinkOwned, NoVenueOrder
  <2>2. LaneOrderOpen'
    BY <1>7 DEF OpEnter, LanesOK, OrdersOK, LaneStates, Free, Modifiable
  <2> QED
    BY <1>7, <2>1, <2>2 DEF OpEnter
<1>8. ASSUME NEW o \in Orders, OpStore(o) PROVE FenceInv'
  <2>1. ClaimFence'
    BY <1>8 DEF OpStore, LinksOK, ReportsOK, LanesOK, LaneStates, Free,
       LinkOwned
  <2>2. LaneOrderOpen'
    BY <1>8 DEF OpStore, LanesOK, OrdersOK, LaneStates, Free, Modifiable
  <2>3. ReadyToSend'
    BY <1>8, <1>b DEF OpStore, OrdersOK
  <2> QED
    BY <1>8, <2>1, <2>2, <2>3 DEF OpStore
<1>9. ASSUME NEW c \in Conns, NEW i \in Calls, HandOff(c, i) PROVE FenceInv'
  BY <1>9, AsideKeepsFence DEF FenceAside, HandOff
<1>10. ASSUME NEW c \in Conns, Check(c) PROVE FenceInv'
  BY <1>10, AsideKeepsFence DEF FenceAside, Check
<1>11. ASSUME NEW c \in Conns, CreateLink(c) PROVE FenceInv'
  <2>1. ClaimFence'
    BY <1>11, <1>a DEF CreateLink, LinksOK, ReportsOK, LanesOK, LaneStates,
       Free, LinkOwned, CheckedIsFresh, Unplaced
  <2>2. MarkedIsClaimed'
    BY <1>11, <1>a DEF CreateLink
  <2>3. MarkedAtVenueSteps'
    BY <1>11, <1>a DEF CreateLink
  <2>4. ReadyToSend'
    BY <1>11, <1>a DEF CreateLink, OrdersOK
  <2> QED
    BY <1>11, <2>1, <2>2, <2>3, <2>4 DEF CreateLink
<1>12. ASSUME NEW c \in Conns, Claim(c) PROVE FenceInv'
  <2>1. MarkedIsClaimed'
    BY <1>12, <1>a DEF Claim, UnmarkedInHand, StoreClaim
  <2>2. ClaimFence'
    BY <1>12, <1>a DEF Claim, LinksOK, ReportsOK, LanesOK, LaneStates, Free,
       LinkOwned, StoreClaim
  <2>3. MarkedAtVenueSteps'
    BY <1>12, <1>a DEF Claim, UnmarkedInHand, StoreClaim
  <2>4. LaneOrderOpen'
    BY <1>12, <1>a DEF Claim, LanesOK, OrdersOK, LaneStates, Free, Modifiable,
       StoreClaim
  <2>5. ReadyToSend'
    BY <1>12, <1>a, SoleHolder DEF Claim, OrdersOK, UnmarkedInHand, StoreClaim
  <2> QED
    BY <2>1, <2>2, <2>3, <2>4, <2>5
<1>13. ASSUME NEW c \in Conns, Recheck(c) PROVE FenceInv'
  <2>1. MarkedIsClaimed'
    BY <1>13, <1>a DEF Recheck
  <2>2. MarkedAtVenueSteps'
    BY <1>13, <1>a DEF Recheck
  <2>3. ReadyToSend'
    BY <1>13, <1>a DEF Recheck, OrdersOK, Eligible
  <2> QED
    BY <1>13, <2>1, <2>2, <2>3 DEF Recheck
<1>14. ASSUME NEW c \in Conns, Unlink(c) PROVE FenceInv'
  <2>1. ClaimFence'
    BY <1>14, <1>a DEF Unlink, LinksOK, ReportsOK, LanesOK, LaneStates, Free,
       LinkOwned
  <2>2. MarkedIsClaimed'
    BY <1>14, <1>a DEF Unlink, UnmarkedInHand
  <2>3. MarkedAtVenueSteps'
    BY <1>14, <1>a DEF Unlink, UnmarkedInHand
  <2>4. ReadyToSend'
    BY <1>14, <1>a DEF Unlink, OrdersOK, UnmarkedInHand
  <2> QED
    BY <1>14, <2>1, <2>2, <2>3, <2>4 DEF Unlink
<1>15. ASSUME NEW c \in Conns, Mark(c) PROVE FenceInv'
  <2>1. MarkedIsClaimed'
    BY <1>15, <1>a DEF Mark, UnmarkedInHand
  <2>2. MarkedAtVenueSteps'
    BY <1>15, <1>a DEF Mark, UnmarkedInHand
  <2>3. ReadyToSend'
    BY <1>15, <1>a DEF Mark, OrdersOK, UnmarkedInHand
  <2> QED
    BY <1>15, <2>1, <2>2, <2>3 DEF Mark
<1>16. ASSUME NEW c \in Conns, Issue(c) PROVE FenceInv'
  <2>1. MarkedIsClaimed'
    BY <1>16, <1>a DEF Issue
  <2>2. MarkedAtVenueSteps'
    BY <1>16, <1>a DEF Issue, MarkedInHand
  <2>3. ReadyToSend'
    BY <1>16, <1>a DEF Issue, OrdersOK
  <2> QED
    BY <1>16, <2>1, <2>2, <2>3 DEF Issue
<1>17. ASSUME NEW c \in Conns, Await(c) PROVE FenceInv'
  <2>1. MarkedIsClaimed'
    BY <1>17, <1>a DEF Await
  <2>2. MarkedAtVenueSteps'
    BY <1>17, <1>a DEF Await
  <2>3. ReadyToSend'
    BY <1>17, <1>a DEF Await, OrdersOK
  <2> QED
    BY <1>17, <2>1, <2>2, <2>3 DEF Await
<1>18. ASSUME NEW c \in Conns, Acknowledge(c) PROVE FenceInv'
  BY <1>18, AsideKeepsFence DEF FenceAside, Acknowledge
<1>19. ASSUME NEW c \in Conns, Refuse(c) PROVE FenceInv'
  <2>1. MarkedIsClaimed'
    BY <1>19, <1>a DEF Refuse, StoreDone
  <2>2. MarkedAtVenueSteps'
    BY <1>19, <1>a DEF Refuse, StoreDone
  <2>3. LaneOrderOpen'
    BY <1>19, <1>a DEF Refuse, LanesOK, OrdersOK, LaneStates, Free, Modifiable,
       StoreDone
  <2>4. ReadyToSend'
    BY <1>19, <1>a, SoleHolder DEF Refuse, OrdersOK, StoreDone
  <2> QED
    BY <1>19, <2>1, <2>2, <2>3, <2>4 DEF Refuse, StoreDone
<1>20. ASSUME NEW c \in Conns, Connected(c) PROVE FenceInv'
  BY <1>20, AsideKeepsFence DEF FenceAside, Connected
<1>21. ASSUME NEW c \in Conns, Tick(c) PROVE FenceInv'
  BY <1>21, AsideKeepsFence DEF FenceAside, Tick
<1>22. ASSUME NEW c \in Conns, NEW i \in Calls, OrderEvent(c, i) PROVE FenceInv'
  BY <1>22, AsideKeepsFence DEF FenceAside, OrderEvent
<1>23. ASSUME NEW c \in Conns, NEW i \in Calls, NEW k \in 1..Qty,
                FillEvent(c, i, k)
         PROVE  FenceInv'
  <2>1. LaneOrderOpen'
    BY <1>23, <1>a DEF FillEvent, LanesOK, OrdersOK, LaneStates, Free,
       Modifiable, StoreFill
  <2>2. ReadyToSend'
    BY <1>23, <1>a, IdleHoldsNothing DEF FillEvent, OrdersOK, StoreFill
  <2> QED
    BY <1>23, <2>1, <2>2 DEF FillEvent, StoreFill
<1>24. ASSUME NEW c \in Conns, Scan(c) PROVE FenceInv'
  BY <1>24, AsideKeepsFence DEF FenceAside, Scan
<1>25. ASSUME NEW c \in Conns, Read(c) PROVE FenceInv'
  <2>1. MarkedAtVenueSteps'
    BY <1>25, <1>a DEF Read
  <2>2. MarkedIsClaimed'
    BY <1>25, <1>a DEF Read
  <2>3. ReadyToSend'
    BY <1>25, <1>a DEF Read, OrdersOK
  <2> QED
    BY <1>25, <2>1, <2>2, <2>3 DEF Read
<1>26. ASSUME NEW c \in Conns, Discard(c) PROVE FenceInv'
  <2>1. ClaimFence'
    BY <1>26, <1>a DEF Discard, LinksOK, ReportsOK, LanesOK, LaneStates, Free,
       LinkOwned
  <2>2. MarkedIsClaimed'
    BY <1>26, <1>a DEF Discard, UnmarkedInHand
  <2>3. MarkedAtVenueSteps'
    BY <1>26, <1>a DEF Discard, UnmarkedInHand
  <2>4. ReadyToSend'
    BY <1>26, <1>a DEF Discard, OrdersOK, UnmarkedInHand
  <2> QED
    BY <1>26, <2>1, <2>2, <2>3, <2>4 DEF Discard
<1>27. ASSUME NEW c \in Conns, Lookup(c) PROVE FenceInv'
  <2>1. MarkedIsClaimed'
    BY <1>27, <1>a DEF Lookup
  <2>2. MarkedAtVenueSteps'
    BY <1>27, <1>a DEF Lookup
  <2>3. ReadyToSend'
    BY <1>27, <1>a DEF Lookup, OrdersOK
  <2> QED
    BY <1>27, <2>1, <2>2, <2>3 DEF Lookup
<1>28. ASSUME NEW c \in Conns, Apply(c) PROVE FenceInv'
  <2>1. MarkedIsClaimed'
    BY <1>28, <1>a DEF Apply, StoreFill
  <2>2. MarkedAtVenueSteps'
    BY <1>28, <1>a DEF Apply, StoreFill
  <2>3. LaneOrderOpen'
    BY <1>28, <1>a DEF Apply, LanesOK, OrdersOK, LaneStates, Free, Modifiable,
       StoreFill
  <2>4. ReadyToSend'
    BY <1>28, <1>a, SoleHolder DEF Apply, OrdersOK, StoreFill
  <2> QED
    BY <1>28, <2>1, <2>2, <2>3, <2>4 DEF Apply, StoreFill
<1>29. ASSUME NEW c \in Conns, Close(c) PROVE FenceInv'
  <2>1. MarkedIsClaimed'
    BY <1>29, <1>a DEF Close, StoreDone
  <2>2. MarkedAtVenueSteps'
    BY <1>29, <1>a DEF Close, StoreDone
  <2>3. LaneOrderOpen'
    BY <1>29, <1>a DEF Close, LanesOK, OrdersOK, LaneStates, Free, Modifiable,
       StoreDone
  <2>4. ReadyToSend'
    BY <1>29, <1>a, SoleHolder DEF Close, OrdersOK, StoreDone
  <2> QED
    BY <1>29, <2>1, <2>2, <2>3, <2>4 DEF Close, StoreDone
<1>30. ASSUME NEW c \in Conns, Exit(c) PROVE FenceInv'
  BY <1>30, AsideKeepsFence DEF FenceAside, Exit
<1>31. ASSUME Stop PROVE FenceInv'
  BY <1>31, AsideKeepsFence DEF FenceAside, Stop
<1>32. ASSUME Start PROVE FenceInv'
  BY <1>32, AsideKeepsFence DEF FenceAside, Start
<1>33. ASSUME Crash PROVE FenceInv'
  <2>1. MarkedIsClaimed'
    BY <1>33 DEF Crash
  <2>2. ClaimFence'
    BY <1>33 DEF Crash, LinksOK, ReportsOK, LanesOK, LaneStates, Free,
       LinkOwned
  <2>3. MarkedAtVenueSteps'
    BY <1>33 DEF Crash
  <2>4. LaneOrderOpen'
    BY <1>33 DEF Crash, LanesOK, OrdersOK, LaneStates, Free, Modifiable
  <2>5. ReadyToSend'
    BY <1>33 DEF Crash, OrdersOK
  <2> QED
    BY <2>1, <2>2, <2>3, <2>4, <2>5
<1>34. ASSUME NEW i \in Calls, Age(i) PROVE FenceInv'
  BY <1>34, AsideKeepsFence DEF FenceAside, Age
<1>35. ASSUME NEW i \in Calls, VenueStep(i) PROVE FenceInv'
  BY <1>35, AsideKeepsFence DEF FenceAside, VenueStep
<1>36. ASSUME UNCHANGED vars PROVE FenceInv'
  BY <1>36, AsideKeepsFence DEF FenceAside, vars
<1> QED
  BY <1>1, <1>2, <1>3, <1>4, <1>5, <1>6, <1>7, <1>8, <1>9, <1>10, <1>11, <1>12,
     <1>13, <1>14, <1>15, <1>16, <1>17, <1>18, <1>19, <1>20, <1>21, <1>22,
     <1>23, <1>24, <1>25, <1>26, <1>27, <1>28, <1>29, <1>30, <1>31, <1>32,
     <1>33, <1>34, <1>35, <1>36 DEF Next, Send, Reconcile, Call, Stream

\* The inductive invariant behind the fence.
THEOREM FenceInvHolds ==
  Spec => [](WorkInv /\ MarkInv /\ CallInv /\ FenceInv)
<1>1. Init => FenceInv
  BY InitFence
<1>2. WorkInv /\ MarkInv /\ CallInv /\ FenceInv /\ [Next]_vars => FenceInv'
  BY NextFence
<1> QED
  BY <1>1, <1>2, CallInvHolds, PTL DEF Spec

\* A stored claim behind a live link keeps every operator request out of the
\* order's lane, so what the worker re-reads before it marks and sends the
\* order cannot be outrun.
THEOREM ClaimFences == Spec => []ClaimFence
<1>1. FenceInv => ClaimFence
  BY DEF FenceInv
<1> QED
  BY FenceInvHolds, <1>1, PTL

-----------------------------------------------------------------------------
(* A finished order stays finished *)

Settles == \A o \in Orders : Terminal(o) =>
              status'[o] = status[o] /\ trades'[o] = trades[o]

\* No step reopens, closes again or fills an order that is terminal: workers
\* look before they write, and a request inside the lane found the order open.
LEMMA NextSettles == WorkInv /\ FenceInv /\ [Next]_vars => Settles
<1> SUFFICES ASSUME WorkInv, FenceInv, [Next]_vars PROVE Settles
  OBVIOUS
<1> USE CallsAssumption DEF Settles, Quiet, store, orderVars, reportVars,
        WorkInv, TypeOK, OrdersOK, Terminal
<1>a. ASSUME UNCHANGED orderVars PROVE Settles
  BY <1>a
<1>1. ASSUME NEW o \in Orders, OpStore(o) PROVE Settles
  BY <1>1 DEF OpStore, FenceInv, LaneOrderOpen
<1>2. ASSUME NEW c \in Conns, Claim(c) PROVE Settles
  BY <1>2 DEF Claim, StoreClaim, Modifiable
<1>3. ASSUME NEW c \in Conns, Refuse(c) PROVE Settles
  BY <1>3 DEF Refuse, StoreDone
<1>4. ASSUME NEW c \in Conns, NEW i \in Calls, NEW k \in 1..Qty,
             FillEvent(c, i, k)
      PROVE  Settles
  BY <1>4 DEF FillEvent, StoreFill
<1>5. ASSUME NEW c \in Conns, Apply(c) PROVE Settles
  BY <1>5 DEF Apply, StoreFill
<1>6. ASSUME NEW c \in Conns, Close(c) PROVE Settles
  BY <1>6 DEF Close, StoreDone
<1>7. ASSUME NEW i \in Calls, Call(i) \/ Age(i) \/ VenueStep(i) PROVE Settles
  BY <1>7, <1>a DEF Call, Offer, RefuseEarly, Abandon, Return, Verify,
     CancelUnsent, Age, VenueStep
<1>8. ASSUME NEW c \in Conns,
             \/ Check(c) \/ CreateLink(c) \/ Recheck(c) \/ Unlink(c) \/ Mark(c)
             \/ Issue(c) \/ Await(c) \/ Acknowledge(c)
      PROVE  Settles
  BY <1>8, <1>a DEF Check, CreateLink, Recheck, Unlink, Mark, Issue, Await,
     Acknowledge
<1>9. ASSUME NEW c \in Conns,
             \/ Scan(c) \/ Read(c) \/ Discard(c) \/ Lookup(c) \/ Connected(c)
             \/ Tick(c) \/ Exit(c)
             \/ \E i \in Calls : OrderEvent(c, i) \/ HandOff(c, i)
      PROVE  Settles
  BY <1>9, <1>a DEF Scan, Read, Discard, Lookup, Connected, Tick, Exit,
     OrderEvent, HandOff
<1>10. ASSUME Stop \/ Start \/ Crash \/ UNCHANGED vars
              \/ \E o \in Orders, k \in OpKinds : OpEnter(o, k)
       PROVE  Settles
  BY <1>10, <1>a DEF Stop, Start, Crash, OpEnter, vars
<1> QED
  BY <1>1, <1>2, <1>3, <1>4, <1>5, <1>6, <1>7, <1>8, <1>9, <1>10
  DEF Next, Send, Reconcile, Stream

\* No late fill, claim, cancel or operator request that was checked earlier
\* changes an order that is filled or cancelled.
THEOREM FinishedIsFinal == Spec => FinishedStaysFinished
<1>1. WorkInv /\ FenceInv /\ [Next]_vars =>
        [\A o \in Orders : Terminal(o) =>
            status'[o] = status[o] /\ trades'[o] = trades[o]]_vars
  BY NextSettles DEF Settles
<1> QED
  BY <1>1, FenceInvHolds, PTL DEF Spec, FinishedStaysFinished

=============================================================================
