------------------------- MODULE TradingAnswerProofs -------------------------
(***************************************************************************)
(* What TradingRuntime tells its callers, and what it keeps working on: an *)
(* order reported refused has no venue order, and no unfinished send is    *)
(* forgotten while the runtime is up.                                      *)
(***************************************************************************)
EXTENDS TradingDeliveryProofs

-----------------------------------------------------------------------------
(* Answers *)

\* Every stored trade has a report of an operator or of a worker.
TradesTraced ==
    \A o \in Orders : trades[o] > 0 =>
        o \in touched \/ \E i \in IdsOf(o) : booked[i] # {}

\* A send is refused only by the venue.
RefusedResult ==
    \A i \in Calls : result[i] = "refused" \/ caller[i] = "verify" =>
        venue[i] = "refused"

\* A caller's own cancel is in the lane of its order, which has no trades.
CancelUntraded ==
    \A o \in Orders : lane[o].by # NoCall =>
        /\ lane[o].kind = "cancel" /\ CallOrder[lane[o].by] = o
        /\ trades[o] = 0

\* Why an order reported refused can have no venue order.
AnswerInv ==
    TradesTraced /\ RefusedResult /\ CancelUntraded /\ RefusedMeansNoVenueOrder

\* Initially no one was answered.
LEMMA InitAnswer == Init => AnswerInv
  BY DEF Init, AnswerInv, TradesTraced, RefusedResult, CancelUntraded,
     RefusedMeansNoVenueOrder, Free

\* Steps that touch no order, report, venue order or lane and answer no one.
AnswerAside ==
    /\ UNCHANGED <<status, trades, touched, booked, venue, lane>>
    /\ \A i \in Calls : /\ answer'[i] = "refused" => answer[i] = "refused"
                        /\ result'[i] = "refused" => result[i] = "refused"
                        /\ caller'[i] = "verify" => caller[i] = "verify"

\* A step aside keeps the answers true.
LEMMA AsideKeepsAnswers == AnswerInv /\ AnswerAside => AnswerInv'
  BY DEF AnswerInv, AnswerAside, TradesTraced, RefusedResult, CancelUntraded,
     RefusedMeansNoVenueOrder, IdsOf

\* What a caller was told stays true: the order is finished, and an unknown or
\* refused venue order stays so unless its order is sent.
LEMMA AnswerStands ==
  ASSUME AnswerInv, Settles, CallOrder \in [Calls -> Orders],
         \A j \in Calls : venue[j] \in {"absent", "refused"} =>
            venue'[j] = venue[j] \/ status[CallOrder[j]] = "committed",
         NEW i \in Calls, answer[i] = "refused"
  PROVE  /\ status'[CallOrder[i]] = "cancelled"
         /\ trades'[CallOrder[i]] = 0
         /\ \A j \in IdsOf(CallOrder[i]) : venue'[j] \in {"absent", "refused"}
  BY DEF AnswerInv, RefusedMeansNoVenueOrder, Settles, Terminal, IdsOf

\* An order of a refused id, and one without a marked id, has no other venue
\* order.
LEMMA RefusedIsWhole ==
  ASSUME WorkInv, MarkInv, CallInv, BooksInv, NEW i \in Calls, venue[i] = "refused"
  PROVE  /\ trades[CallOrder[i]] = 0
         /\ \A j \in IdsOf(CallOrder[i]) : venue[j] \in {"absent", "refused"}
<1>1. i \in attempted /\ executed[i] = 0
  BY DEF CallInv, KnownIsMarked, BooksInv, VenueShape
<1>2. trades[CallOrder[i]] \in Nat
  BY CallsAssumption DEF WorkInv, TypeOK, OrdersOK
<1>3. trades[CallOrder[i]] = 0
  BY <1>1, <1>2 DEF BooksInv, BookedIsVenuePrefix
<1>4. \A j \in IdsOf(CallOrder[i]) : j = i \/ venue[j] = "absent"
  BY <1>1, OneMark DEF IdsOf, CallInv, KnownIsMarked
<1> QED
  BY <1>3, <1>4

\* AnswerInv is inductive over the invariants before it.
LEMMA NextAnswer ==
  ASSUME WorkInv, MarkInv, CallInv, FenceInv, BooksInv, AnswerInv, [Next]_vars
  PROVE  AnswerInv'
<1> USE CallsAssumption, BoundsAssumption
    DEF Quiet, NoFault, Fault, Goto, At, Finish, Settled, Track, Untrack,
        store, orderVars, reportVars, linkVars, venueVars, workerVars,
        retryVars, callVars
<1> USE DEF AnswerInv, TradesTraced, RefusedResult, CancelUntraded,
        RefusedMeansNoVenueOrder, IdsOf
<1>a. \A c \in Conns : pc[c] \in BusyPCs =>
        job[c] \in Calls /\ CallOrder[job[c]] \in Orders
  BY BusyJob
<1>b. Settles
  BY NextSettles
<1>c. /\ trades \in [Orders -> Nat] /\ status \in [Orders -> Statuses]
      /\ touched \subseteq Orders /\ booked \in [Calls -> SUBSET (1..Qty)]
      /\ venue \in [Calls -> VenueStates] /\ lane \in [Orders -> LaneStates]
  BY DEF WorkInv, TypeOK, OrdersOK, ReportsOK, VenueOK, LanesOK
<1>d. CallsOK
  BY DEF WorkInv, TypeOK
<1>1. ASSUME NEW i \in Calls, Offer(i) PROVE AnswerInv'
  BY <1>1, <1>d, AsideKeepsAnswers DEF AnswerAside, Offer, CallsOK
<1>2. ASSUME NEW i \in Calls, RefuseEarly(i) PROVE AnswerInv'
  <2>1. RefusedResult'
    BY <1>2, <1>c, <1>d DEF RefuseEarly, CallsOK
  <2>2. RefusedMeansNoVenueOrder'
    BY <1>2, <1>b, <1>d DEF RefuseEarly, CallsOK
  <2> QED
    BY <1>2, <2>1, <2>2 DEF RefuseEarly
<1>3. ASSUME NEW i \in Calls, Abandon(i) PROVE AnswerInv'
  <2>1. RefusedResult'
    BY <1>3, <1>c, <1>d DEF Abandon, CallsOK
  <2>2. RefusedMeansNoVenueOrder'
    BY <1>3, <1>b, <1>d DEF Abandon, CallsOK
  <2> QED
    BY <1>3, <2>1, <2>2 DEF Abandon
<1>4. ASSUME NEW i \in Calls, Return(i) PROVE AnswerInv'
  <2>1. RefusedResult'
    BY <1>4, <1>c, <1>d DEF Return, CallsOK
  <2>2. RefusedMeansNoVenueOrder'
    BY <1>4, <1>b, <1>d DEF Return, CallsOK
  <2> QED
    BY <1>4, <2>1, <2>2 DEF Return
<1>5. ASSUME NEW i \in Calls, Verify(i) PROVE AnswerInv'
  <2>1. TradesTraced'
    BY <1>5, <1>c DEF Verify
  <2>2. RefusedResult'
    BY <1>5, <1>c, <1>d DEF Verify, CallsOK
  <2>3. CancelUntraded'
    BY <1>5, <1>c DEF Verify, LaneStates, Free, LaneFree
  <2>4. RefusedMeansNoVenueOrder'
    <3>1. ASSUME NEW j \in Calls, answer'[j] = "refused", answer[j] # "refused"
          PROVE  j = i /\ status[CallOrder[i]] = "cancelled" /\ venue[i] = "refused"
      BY <1>5, <1>d, <3>1 DEF Verify, Verdict, CallsOK
    <3> QED
      BY <1>5, <3>1, RefusedIsWhole DEF Verify
  <2> QED
    BY <2>1, <2>2, <2>3, <2>4
<1>6. ASSUME NEW i \in Calls, CancelUnsent(i) PROVE AnswerInv'
  <2>1. TradesTraced'
    BY <1>6, <1>c DEF CancelUnsent
  <2>2. RefusedResult'
    BY <1>6, <1>c, <1>d DEF CancelUnsent, CallsOK
  <2>3. CancelUntraded'
    <3>1. ASSUME lane' # lane
          PROVE  /\ lane' = [lane EXCEPT ![CallOrder[i]] = [kind |-> "cancel", by |-> i]]
                 /\ NoActivity(CallOrder[i]) /\ trades' = trades
      BY <1>6, <3>1 DEF CancelUnsent
    <3>2. NoActivity(CallOrder[i]) => trades[CallOrder[i]] = 0
      BY <1>c DEF NoActivity, Reporting
    <3> QED
      BY <1>6, <1>c, <3>1, <3>2 DEF CancelUnsent
  <2>4. RefusedMeansNoVenueOrder'
    BY <1>6, <1>b, <1>d DEF CancelUnsent, CallsOK
  <2> QED
    BY <2>1, <2>2, <2>3, <2>4
<1>7. ASSUME NEW o \in Orders, NEW k \in OpKinds, OpEnter(o, k) PROVE AnswerInv'
  <2>1. TradesTraced'
    BY <1>7, <1>c DEF OpEnter
  <2>2. RefusedResult'
    BY <1>7, <1>c, <1>d DEF OpEnter, CallsOK
  <2>3. CancelUntraded'
    BY <1>7, <1>c DEF OpEnter, LaneStates, Free, LaneFree
  <2>4. RefusedMeansNoVenueOrder'
    BY <1>7, <1>c, <1>b, <1>d, AnswerStands DEF OpEnter, CallsOK
  <2> QED
    BY <2>1, <2>2, <2>3, <2>4
<1>8. ASSUME NEW o \in Orders, OpStore(o) PROVE AnswerInv'
  <2>1. TradesTraced'
    BY <1>8, <1>c DEF OpStore
  <2>2. RefusedResult'
    BY <1>8, <1>c, <1>d DEF OpStore, CallsOK
  <2>3. CancelUntraded'
    BY <1>8, <1>c DEF OpStore, LaneStates, Free, LaneFree
  <2>4. RefusedMeansNoVenueOrder'
    <3> SUFFICES ASSUME NEW i \in Calls, answer'[i] = "refused"
                 PROVE  /\ status'[CallOrder[i]] = "cancelled"
                        /\ trades'[CallOrder[i]] = 0
                        /\ \A j \in IdsOf(CallOrder[i]) : venue'[j] \in {"absent", "refused"}
      OBVIOUS
    <3>1. venue' = venue
      BY <1>8 DEF OpStore
    <3>2. CASE answer[i] = "refused"
      BY <3>1, <3>2, <1>b, AnswerStands
    <3>3. CASE answer[i] # "refused"
      <4>1. i = lane[o].by /\ lane[o].by # NoCall
        BY <1>8, <3>3, <1>d DEF OpStore, CallsOK
      <4>2. lane[o].kind = "cancel" /\ CallOrder[i] = o /\ trades[o] = 0
        BY <4>1
      <4>3. status'[o] = "cancelled" /\ trades'[o] = 0
        BY <1>8, <1>c, <4>2 DEF OpStore
      <4>4. \A j \in IdsOf(o) : venue[j] = "absent"
        BY <1>8, MarkedIsFenced DEF OpStore, CallInv, KnownIsMarked
      <4> QED
        BY <3>1, <4>2, <4>3, <4>4
    <3> QED
      BY <3>2, <3>3
  <2> QED
    BY <2>1, <2>2, <2>3, <2>4
<1>9. ASSUME NEW c \in Conns, NEW i \in Calls, HandOff(c, i) PROVE AnswerInv'
  BY <1>9, <1>d, AsideKeepsAnswers DEF AnswerAside, HandOff, CallsOK
<1>10. ASSUME NEW c \in Conns, Check(c) PROVE AnswerInv'
  BY <1>10, <1>d, AsideKeepsAnswers DEF AnswerAside, Check, CallsOK
<1>11. ASSUME NEW c \in Conns, CreateLink(c) PROVE AnswerInv'
  BY <1>11, <1>d, AsideKeepsAnswers DEF AnswerAside, CreateLink, CallsOK
<1>12. ASSUME NEW c \in Conns, Claim(c) PROVE AnswerInv'
  <2>1. TradesTraced'
    BY <1>12, <1>c, <1>a DEF Claim, BusyPCs, SendPCs, ReconcilePCs, StoreClaim
  <2>2. RefusedResult'
    BY <1>12, <1>c, <1>a, <1>d DEF Claim, BusyPCs, SendPCs, ReconcilePCs,
       CallsOK, StoreClaim
  <2>3. CancelUntraded'
    BY <1>12, <1>c, <1>a DEF Claim, BusyPCs, SendPCs, ReconcilePCs, LaneStates,
       Free, LaneFree, StoreClaim
  <2>4. RefusedMeansNoVenueOrder'
    BY <1>12, <1>c, <1>a, <1>b, <1>d, AnswerStands DEF Claim, BusyPCs, SendPCs,
       ReconcilePCs, CallsOK, StoreClaim
  <2> QED
    BY <2>1, <2>2, <2>3, <2>4
<1>13. ASSUME NEW c \in Conns, Recheck(c) PROVE AnswerInv'
  BY <1>13, <1>d, AsideKeepsAnswers DEF AnswerAside, Recheck, CallsOK
<1>14. ASSUME NEW c \in Conns, Unlink(c) PROVE AnswerInv'
  BY <1>14, <1>d, AsideKeepsAnswers DEF AnswerAside, Unlink, CallsOK
<1>15. ASSUME NEW c \in Conns, Mark(c) PROVE AnswerInv'
  BY <1>15, <1>d, AsideKeepsAnswers DEF AnswerAside, Mark, CallsOK
<1>16. ASSUME NEW c \in Conns, Issue(c) PROVE AnswerInv'
  <2>1. TradesTraced'
    BY <1>16, <1>c, <1>a DEF Issue, BusyPCs, SendPCs, ReconcilePCs
  <2>2. RefusedResult'
    BY <1>16, <1>c, <1>a, <1>d DEF Issue, BusyPCs, SendPCs, ReconcilePCs,
       CallsOK, CallInv, SenderUnanswered
  <2>3. CancelUntraded'
    BY <1>16, <1>c, <1>a DEF Issue, BusyPCs, SendPCs, ReconcilePCs, LaneStates,
       Free, LaneFree
  <2>4. RefusedMeansNoVenueOrder'
    <3>1. /\ job[c] \in Calls /\ status[CallOrder[job[c]]] = "committed"
          /\ \A j \in Calls : j # job[c] => venue'[j] = venue[j]
          /\ answer' = answer
      BY <1>16, <1>a, <1>c DEF Issue, BusyPCs, SendPCs, FenceInv, ReadyToSend
    <3> QED
      BY <3>1, <1>b, AnswerStands
  <2> QED
    BY <2>1, <2>2, <2>3, <2>4
<1>17. ASSUME NEW c \in Conns, Await(c) PROVE AnswerInv'
  BY <1>17, <1>d, AsideKeepsAnswers DEF AnswerAside, Await, CallsOK
<1>18. ASSUME NEW c \in Conns, Acknowledge(c) PROVE AnswerInv'
  BY <1>18, <1>d, AsideKeepsAnswers DEF AnswerAside, Acknowledge, CallsOK
<1>19. ASSUME NEW c \in Conns, Refuse(c) PROVE AnswerInv'
  <2>1. TradesTraced'
    BY <1>19, <1>c, <1>a DEF Refuse, BusyPCs, SendPCs, ReconcilePCs, StoreDone
  <2>2. RefusedResult'
    BY <1>19, <1>c, <1>a, <1>d DEF Refuse, BusyPCs, SendPCs, ReconcilePCs,
       CallsOK, BooksInv, RefusedInHand, StoreDone
  <2>3. CancelUntraded'
    BY <1>19, <1>c, <1>a DEF Refuse, BusyPCs, SendPCs, ReconcilePCs,
       LaneStates, Free, LaneFree, StoreDone
  <2>4. RefusedMeansNoVenueOrder'
    BY <1>19, <1>c, <1>a, <1>b, <1>d, AnswerStands DEF Refuse, BusyPCs,
       SendPCs, ReconcilePCs, CallsOK, StoreDone
  <2> QED
    BY <2>1, <2>2, <2>3, <2>4
<1>20. ASSUME NEW c \in Conns, Connected(c) PROVE AnswerInv'
  BY <1>20, <1>d, AsideKeepsAnswers DEF AnswerAside, Connected, CallsOK
<1>21. ASSUME NEW c \in Conns, Tick(c) PROVE AnswerInv'
  BY <1>21, <1>d, AsideKeepsAnswers DEF AnswerAside, Tick, CallsOK
<1>22. ASSUME NEW c \in Conns, NEW i \in Calls, OrderEvent(c, i) PROVE AnswerInv'
  BY <1>22, <1>d, AsideKeepsAnswers DEF AnswerAside, OrderEvent, CallsOK
<1>23. ASSUME NEW c \in Conns, NEW i \in Calls, NEW k \in 1..Qty,
                FillEvent(c, i, k)
         PROVE  AnswerInv'
  <2>1. TradesTraced'
    BY <1>23, <1>c, FillEventBooks DEF Books, StoreFill, FillEvent
  <2>2. RefusedResult'
    BY <1>23, <1>c, <1>a, <1>d DEF FillEvent, BusyPCs, SendPCs, ReconcilePCs,
       CallsOK
  <2>3. CancelUntraded'
    BY <1>23, <1>c, FillEventBooks, <1>a DEF FillEvent, Books, StoreFill,
       LaneFree, LaneStates, Free, BusyPCs, ReconcilePCs
  <2>4. RefusedMeansNoVenueOrder'
    BY <1>23, <1>c, <1>a, <1>b, <1>d, AnswerStands DEF FillEvent, BusyPCs,
       SendPCs, ReconcilePCs, CallsOK
  <2> QED
    BY <2>1, <2>2, <2>3, <2>4
<1>24. ASSUME NEW c \in Conns, Scan(c) PROVE AnswerInv'
  BY <1>24, <1>d, AsideKeepsAnswers DEF AnswerAside, Scan, CallsOK
<1>25. ASSUME NEW c \in Conns, Read(c) PROVE AnswerInv'
  BY <1>25, <1>d, AsideKeepsAnswers DEF AnswerAside, Read, CallsOK
<1>26. ASSUME NEW c \in Conns, Discard(c) PROVE AnswerInv'
  BY <1>26, <1>d, AsideKeepsAnswers DEF AnswerAside, Discard, CallsOK
<1>27. ASSUME NEW c \in Conns, Lookup(c) PROVE AnswerInv'
  BY <1>27, <1>d, AsideKeepsAnswers DEF AnswerAside, Lookup, CallsOK
<1>28. ASSUME NEW c \in Conns, Apply(c) PROVE AnswerInv'
  <2>1. TradesTraced'
    BY <1>28, <1>c, ApplyBooks, <1>a DEF Apply, Books, StoreFill, BusyPCs,
       ReconcilePCs
  <2>2. RefusedResult'
    BY <1>28, <1>c, <1>a, <1>d DEF Apply, BusyPCs, SendPCs, ReconcilePCs,
       CallsOK
  <2>3. CancelUntraded'
    BY <1>28, <1>c, ApplyBooks, <1>a DEF Apply, Books, StoreFill, LaneFree,
       LaneStates, Free, BusyPCs, ReconcilePCs
  <2>4. RefusedMeansNoVenueOrder'
    BY <1>28, <1>c, <1>a, <1>b, <1>d, AnswerStands DEF Apply, BusyPCs, SendPCs,
       ReconcilePCs, CallsOK
  <2> QED
    BY <2>1, <2>2, <2>3, <2>4
<1>29. ASSUME NEW c \in Conns, Close(c) PROVE AnswerInv'
  <2>1. TradesTraced'
    BY <1>29, <1>c, <1>a DEF Close, BusyPCs, SendPCs, ReconcilePCs, StoreDone
  <2>2. RefusedResult'
    BY <1>29, <1>c, <1>a, <1>d DEF Close, BusyPCs, SendPCs, ReconcilePCs,
       CallsOK, StoreDone
  <2>3. CancelUntraded'
    BY <1>29, <1>c, <1>a DEF Close, BusyPCs, SendPCs, ReconcilePCs, LaneStates,
       Free, LaneFree, StoreDone
  <2>4. RefusedMeansNoVenueOrder'
    BY <1>29, <1>c, <1>a, <1>b, <1>d, AnswerStands DEF Close, BusyPCs, SendPCs,
       ReconcilePCs, CallsOK, StoreDone
  <2> QED
    BY <2>1, <2>2, <2>3, <2>4
<1>30. ASSUME NEW c \in Conns, Exit(c) PROVE AnswerInv'
  BY <1>30, <1>d, AsideKeepsAnswers DEF AnswerAside, Exit, CallsOK
<1>31. ASSUME Stop PROVE AnswerInv'
  BY <1>31, <1>d, AsideKeepsAnswers DEF AnswerAside, Stop, CallsOK
<1>32. ASSUME Start PROVE AnswerInv'
  BY <1>32, <1>d, AsideKeepsAnswers DEF AnswerAside, Start, CallsOK
<1>33. ASSUME Crash PROVE AnswerInv'
  <2>1. TradesTraced'
    BY <1>33, <1>c DEF Crash
  <2>2. RefusedResult'
    BY <1>33, <1>c, <1>d DEF Crash, CallsOK
  <2>3. CancelUntraded'
    BY <1>33, <1>c DEF Crash, LaneStates, Free, LaneFree
  <2>4. RefusedMeansNoVenueOrder'
    BY <1>33, <1>c, <1>b, <1>d, AnswerStands DEF Crash, CallsOK
  <2> QED
    BY <2>1, <2>2, <2>3, <2>4
<1>34. ASSUME NEW i \in Calls, Age(i) PROVE AnswerInv'
  BY <1>34, <1>d, AsideKeepsAnswers DEF AnswerAside, Age, CallsOK
<1>35. ASSUME NEW i \in Calls, VenueStep(i) PROVE AnswerInv'
  <2>1. TradesTraced'
    BY <1>35, <1>c DEF VenueStep
  <2>2. RefusedResult'
    <3>1. \A j \in Calls : venue[j] \in {"absent", "refused"} => venue'[j] = venue[j]
      BY <1>35, VenueRests
    <3> QED
      BY <1>35, <3>1 DEF VenueStep
  <2>3. CancelUntraded'
    BY <1>35, <1>c DEF VenueStep, LaneStates, Free, LaneFree
  <2>4. RefusedMeansNoVenueOrder'
    <3>1. \A j \in Calls : venue[j] \in {"absent", "refused"} => venue'[j] = venue[j]
      BY <1>35, VenueRests
    <3> QED
      BY <1>35, <3>1, <1>b, AnswerStands DEF VenueStep
  <2> QED
    BY <2>1, <2>2, <2>3, <2>4
<1>36. ASSUME UNCHANGED vars PROVE AnswerInv'
  BY <1>36, AsideKeepsAnswers DEF AnswerAside, vars
<1> QED
  BY <1>1, <1>2, <1>3, <1>4, <1>5, <1>6, <1>7, <1>8, <1>9, <1>10, <1>11, <1>12,
     <1>13, <1>14, <1>15, <1>16, <1>17, <1>18, <1>19, <1>20, <1>21, <1>22,
     <1>23, <1>24, <1>25, <1>26, <1>27, <1>28, <1>29, <1>30, <1>31, <1>32,
     <1>33, <1>34, <1>35, <1>36 DEF Next, Send, Reconcile, Call, Stream

\* The inductive invariant behind the answers.
THEOREM AnswerInvHolds == Spec => []AnswerInv
<1>1. Init => AnswerInv
  BY InitAnswer
<1>2. WorkInv /\ MarkInv /\ CallInv /\ FenceInv /\ BooksInv /\ AnswerInv /\ [Next]_vars
        => AnswerInv'
  BY NextAnswer
<1> QED
  BY <1>1, <1>2, BooksInvHolds, PTL DEF Spec

\* A caller is told "refused" only when the order is cancelled without trades
\* and no call for it, past or future, has an order at a venue.
THEOREM RefusedIsTrue == Spec => []RefusedMeansNoVenueOrder
<1>1. AnswerInv => RefusedMeansNoVenueOrder
  BY DEF AnswerInv
<1> QED
  BY AnswerInvHolds, <1>1, PTL

-----------------------------------------------------------------------------
(* Retries *)

\* From the mark on the retry ticker knows the send.
MarkedIsPending ==
    \A c \in Conns : pc[c] \in {"mark", "issue", "await", "ack", "refuse"} =>
        job[c] \in pending[c]

\* A snapshot is applied only after its venue order id was stored.
AppliedIsAcked == \A c \in Conns : pc[c] = "apply" => job[c] \in acked

\* A stored done report finished its order.
ClosedIsTerminal == \A i \in closed : Terminal(CallOrder[i])

\* Why no unfinished send is forgotten.
RetryInv ==
    MarkedIsPending /\ AppliedIsAcked /\ ClosedIsTerminal /\ NothingForgotten

\* Initially nothing is to be retried.
LEMMA InitRetry == Init => RetryInv
  BY CallsAssumption DEF Init, RetryInv, MarkedIsPending, AppliedIsAcked,
     ClosedIsTerminal, NothingForgotten, Linked

\* Steps that touch no worker, no retry and no link.
RetryAside ==
    /\ UNCHANGED <<phase, pc, job, pending, acked, link, closed>>
    /\ \A o \in Orders : Terminal(o) => Terminal(o)'

\* A step aside forgets nothing.
LEMMA AsideKeepsRetries ==
  (closed \subseteq Calls) /\ RetryInv /\ RetryAside => RetryInv'
  BY CallsAssumption DEF RetryInv, RetryAside, MarkedIsPending, AppliedIsAcked,
     ClosedIsTerminal, NothingForgotten, Linked

\* RetryInv is inductive over the invariants before it.
LEMMA NextRetry ==
  ASSUME WorkInv, MarkInv, CallInv, FenceInv, BooksInv, RetryInv, [Next]_vars
  PROVE  RetryInv'
<1> USE CallsAssumption
    DEF Quiet, NoFault, Fault, Goto, At, Finish, Settled, Track, Untrack,
        store, orderVars, reportVars, linkVars, venueVars, workerVars,
        retryVars, callVars
<1> USE DEF RetryInv, MarkedIsPending, AppliedIsAcked, NothingForgotten, Linked,
        BusyPCs, SendPCs, ReconcilePCs
<1>a. \A c \in Conns : pc[c] \in BusyPCs =>
        /\ job[c] \in Calls /\ CallOrder[job[c]] \in Orders
        /\ CallConn[job[c]] = c
  BY BusyJob
<1>b. /\ \A o \in Orders : Terminal(o) => Terminal(o)'
      /\ closed \subseteq Calls
  BY NextSettles DEF Settles, Terminal, WorkInv, TypeOK, ReportsOK
<1>c. /\ pc \in [Conns -> PCs] /\ job \in [Conns -> Calls \cup {NoCall}]
      /\ pending \in [Conns -> SUBSET Calls]
      /\ link \in [Orders -> Calls \cup {NoCall}]
      /\ status \in [Orders -> Statuses]
  BY DEF WorkInv, TypeOK, WorkersOK, RetriesOK, LinksOK, OrdersOK
<1>1. ASSUME NEW i \in Calls, Offer(i) PROVE RetryInv'
  BY <1>1, <1>b, AsideKeepsRetries DEF RetryAside, Offer
<1>2. ASSUME NEW i \in Calls, RefuseEarly(i) PROVE RetryInv'
  BY <1>2, <1>b, AsideKeepsRetries DEF RetryAside, RefuseEarly
<1>3. ASSUME NEW i \in Calls, Abandon(i) PROVE RetryInv'
  BY <1>3, <1>b, AsideKeepsRetries DEF RetryAside, Abandon
<1>4. ASSUME NEW i \in Calls, Return(i) PROVE RetryInv'
  BY <1>4, <1>b, AsideKeepsRetries DEF RetryAside, Return
<1>5. ASSUME NEW i \in Calls, Verify(i) PROVE RetryInv'
  BY <1>5, <1>b, AsideKeepsRetries DEF RetryAside, Verify
<1>6. ASSUME NEW i \in Calls, CancelUnsent(i) PROVE RetryInv'
  BY <1>6, <1>b, AsideKeepsRetries DEF RetryAside, CancelUnsent
<1>7. ASSUME NEW o \in Orders, NEW k \in OpKinds, OpEnter(o, k) PROVE RetryInv'
  BY <1>7, <1>b, AsideKeepsRetries DEF RetryAside, OpEnter
<1>8. ASSUME NEW o \in Orders, OpStore(o) PROVE RetryInv'
  <2>1. MarkedIsPending'
    BY <1>8, <1>c DEF OpStore
  <2>2. AppliedIsAcked'
    BY <1>8, <1>c DEF OpStore
  <2>3. NothingForgotten'
    BY <1>8, <1>c, <1>b DEF OpStore
  <2> QED
    BY <1>8, <1>b, <2>1, <2>2, <2>3 DEF OpStore, ClosedIsTerminal
<1>9. ASSUME NEW c \in Conns, NEW i \in Calls, HandOff(c, i) PROVE RetryInv'
  <2>1. MarkedIsPending'
    BY <1>9, <1>c, <1>a DEF HandOff
  <2>2. AppliedIsAcked'
    BY <1>9, <1>c, <1>a DEF HandOff
  <2>3. NothingForgotten'
    BY <1>9, <1>c, <1>a, <1>b DEF HandOff
  <2> QED
    BY <1>9, <1>b, <2>1, <2>2, <2>3 DEF HandOff, ClosedIsTerminal
<1>10. ASSUME NEW c \in Conns, Check(c) PROVE RetryInv'
  <2>1. MarkedIsPending'
    BY <1>10, <1>c, <1>a DEF Check
  <2>2. AppliedIsAcked'
    BY <1>10, <1>c, <1>a DEF Check
  <2>3. NothingForgotten'
    BY <1>10, <1>c, <1>a, <1>b DEF Check, CheckedIsFresh, CallInv, Unplaced
  <2> QED
    BY <1>10, <1>b, <2>1, <2>2, <2>3 DEF Check, ClosedIsTerminal
<1>11. ASSUME NEW c \in Conns, CreateLink(c) PROVE RetryInv'
  <2>1. MarkedIsPending'
    BY <1>11, <1>c, <1>a DEF CreateLink
  <2>2. AppliedIsAcked'
    BY <1>11, <1>c, <1>a DEF CreateLink
  <2>3. NothingForgotten'
    BY <1>11, <1>c, <1>a, <1>b DEF CreateLink, CheckedIsFresh, CallInv,
       Unplaced
  <2> QED
    BY <1>11, <1>b, <2>1, <2>2, <2>3 DEF CreateLink, ClosedIsTerminal
<1>12. ASSUME NEW c \in Conns, Claim(c) PROVE RetryInv'
  <2>1. MarkedIsPending'
    BY <1>12, <1>c, <1>a DEF Claim
  <2>2. AppliedIsAcked'
    BY <1>12, <1>c, <1>a DEF Claim
  <2>3. NothingForgotten'
    BY <1>12, <1>c, <1>a, <1>b DEF Claim
  <2> QED
    BY <1>12, <1>b, <2>1, <2>2, <2>3 DEF Claim, ClosedIsTerminal, StoreClaim
<1>13. ASSUME NEW c \in Conns, Recheck(c) PROVE RetryInv'
  <2>1. MarkedIsPending'
    BY <1>13, <1>c, <1>a DEF Recheck
  <2>2. AppliedIsAcked'
    BY <1>13, <1>c, <1>a DEF Recheck
  <2>3. NothingForgotten'
    BY <1>13, <1>c, <1>a, <1>b DEF Recheck
  <2> QED
    BY <1>13, <1>b, <2>1, <2>2, <2>3 DEF Recheck, ClosedIsTerminal
<1>14. ASSUME NEW c \in Conns, Unlink(c) PROVE RetryInv'
  <2>1. MarkedIsPending'
    BY <1>14, <1>c, <1>a DEF Unlink
  <2>2. AppliedIsAcked'
    BY <1>14, <1>c, <1>a DEF Unlink
  <2>3. NothingForgotten'
    BY <1>14, <1>c, <1>a, <1>b DEF Unlink
  <2> QED
    BY <1>14, <1>b, <2>1, <2>2, <2>3 DEF Unlink, ClosedIsTerminal
<1>15. ASSUME NEW c \in Conns, Mark(c) PROVE RetryInv'
  <2>1. MarkedIsPending'
    BY <1>15, <1>c, <1>a DEF Mark
  <2>2. AppliedIsAcked'
    BY <1>15, <1>c, <1>a DEF Mark
  <2>3. NothingForgotten'
    BY <1>15, <1>c, <1>a, <1>b DEF Mark
  <2> QED
    BY <1>15, <1>b, <2>1, <2>2, <2>3 DEF Mark, ClosedIsTerminal
<1>16. ASSUME NEW c \in Conns, Issue(c) PROVE RetryInv'
  <2>1. MarkedIsPending'
    BY <1>16, <1>c, <1>a DEF Issue
  <2>2. AppliedIsAcked'
    BY <1>16, <1>c, <1>a DEF Issue
  <2>3. NothingForgotten'
    BY <1>16, <1>c, <1>a, <1>b DEF Issue
  <2> QED
    BY <1>16, <1>b, <2>1, <2>2, <2>3 DEF Issue, ClosedIsTerminal
<1>17. ASSUME NEW c \in Conns, Await(c) PROVE RetryInv'
  <2>1. MarkedIsPending'
    BY <1>17, <1>c, <1>a DEF Await
  <2>2. AppliedIsAcked'
    BY <1>17, <1>c, <1>a DEF Await
  <2>3. NothingForgotten'
    BY <1>17, <1>c, <1>a, <1>b DEF Await
  <2> QED
    BY <1>17, <1>b, <2>1, <2>2, <2>3 DEF Await, ClosedIsTerminal
<1>18. ASSUME NEW c \in Conns, Acknowledge(c) PROVE RetryInv'
  <2>1. MarkedIsPending'
    BY <1>18, <1>c, <1>a DEF Acknowledge
  <2>2. AppliedIsAcked'
    BY <1>18, <1>c, <1>a DEF Acknowledge
  <2>3. NothingForgotten'
    BY <1>18, <1>c, <1>a, <1>b DEF Acknowledge
  <2> QED
    BY <1>18, <1>b, <2>1, <2>2, <2>3 DEF Acknowledge, ClosedIsTerminal
<1>19. ASSUME NEW c \in Conns, Refuse(c) PROVE RetryInv'
  <2>1. MarkedIsPending'
    BY <1>19, <1>c, <1>a DEF Refuse
  <2>2. AppliedIsAcked'
    BY <1>19, <1>c, <1>a DEF Refuse
  <2>3. ClosedIsTerminal'
    BY <1>19, <1>c, <1>a, <1>b DEF Refuse, StoreDone, Terminal,
       ClosedIsTerminal
  <2>4. NothingForgotten'
    BY <1>19, <1>c, <1>a, <1>b DEF Refuse, StoreDone, Terminal,
       ClosedIsTerminal
  <2> QED
    BY <2>1, <2>2, <2>3, <2>4
<1>20. ASSUME NEW c \in Conns, Connected(c) PROVE RetryInv'
  <2>1. MarkedIsPending'
    BY <1>20, <1>c, <1>a DEF Connected
  <2>2. AppliedIsAcked'
    BY <1>20, <1>c, <1>a DEF Connected
  <2>3. NothingForgotten'
    BY <1>20, <1>c, <1>a, <1>b DEF Connected
  <2> QED
    BY <1>20, <1>b, <2>1, <2>2, <2>3 DEF Connected, ClosedIsTerminal
<1>21. ASSUME NEW c \in Conns, Tick(c) PROVE RetryInv'
  <2>1. MarkedIsPending'
    BY <1>21, <1>c, <1>a DEF Tick
  <2>2. AppliedIsAcked'
    BY <1>21, <1>c, <1>a DEF Tick
  <2>3. NothingForgotten'
    BY <1>21, <1>c, <1>a, <1>b DEF Tick
  <2> QED
    BY <1>21, <1>b, <2>1, <2>2, <2>3 DEF Tick, ClosedIsTerminal
<1>22. ASSUME NEW c \in Conns, NEW i \in Calls, OrderEvent(c, i) PROVE RetryInv'
  <2>1. MarkedIsPending'
    BY <1>22, <1>c, <1>a DEF OrderEvent
  <2>2. AppliedIsAcked'
    BY <1>22, <1>c, <1>a DEF OrderEvent
  <2>3. NothingForgotten'
    BY <1>22, <1>c, <1>a, <1>b DEF OrderEvent
  <2> QED
    BY <1>22, <1>b, <2>1, <2>2, <2>3 DEF OrderEvent, ClosedIsTerminal
<1>23. ASSUME NEW c \in Conns, NEW i \in Calls, NEW k \in 1..Qty,
                FillEvent(c, i, k)
         PROVE  RetryInv'
  <2>1. MarkedIsPending'
    BY <1>23, <1>c, <1>a DEF FillEvent
  <2>2. AppliedIsAcked'
    BY <1>23, <1>c, <1>a DEF FillEvent
  <2>3. NothingForgotten'
    BY <1>23, <1>c, <1>a, <1>b DEF FillEvent
  <2> QED
    BY <1>23, <1>b, <2>1, <2>2, <2>3 DEF FillEvent, ClosedIsTerminal, StoreFill
<1>24. ASSUME NEW c \in Conns, Scan(c) PROVE RetryInv'
  <2>1. MarkedIsPending'
    BY <1>24, <1>c, <1>a DEF Scan
  <2>2. AppliedIsAcked'
    BY <1>24, <1>c, <1>a DEF Scan
  <2>3. NothingForgotten'
    BY <1>24, <1>c, <1>a, <1>b DEF Scan
  <2> QED
    BY <1>24, <1>b, <2>1, <2>2, <2>3 DEF Scan, ClosedIsTerminal
<1>25. ASSUME NEW c \in Conns, Read(c) PROVE RetryInv'
  <2>1. MarkedIsPending'
    BY <1>25, <1>c, <1>a DEF Read
  <2>2. AppliedIsAcked'
    BY <1>25, <1>c, <1>a DEF Read
  <2>3. NothingForgotten'
    BY <1>25, <1>c, <1>a, <1>b DEF Read
  <2> QED
    BY <1>25, <1>b, <2>1, <2>2, <2>3 DEF Read, ClosedIsTerminal
<1>26. ASSUME NEW c \in Conns, Discard(c) PROVE RetryInv'
  <2>1. MarkedIsPending'
    BY <1>26, <1>c, <1>a DEF Discard
  <2>2. AppliedIsAcked'
    BY <1>26, <1>c, <1>a DEF Discard
  <2>3. NothingForgotten'
    BY <1>26, <1>c, <1>a, <1>b DEF Discard
  <2> QED
    BY <1>26, <1>b, <2>1, <2>2, <2>3 DEF Discard, ClosedIsTerminal
<1>27. ASSUME NEW c \in Conns, Lookup(c) PROVE RetryInv'
  <2>1. MarkedIsPending'
    BY <1>27, <1>c, <1>a DEF Lookup
  <2>2. AppliedIsAcked'
    BY <1>27, <1>c, <1>a DEF Lookup
  <2>3. NothingForgotten'
    BY <1>27, <1>c, <1>a, <1>b DEF Lookup
  <2> QED
    BY <1>27, <1>b, <2>1, <2>2, <2>3 DEF Lookup, ClosedIsTerminal
<1>28. ASSUME NEW c \in Conns, Apply(c) PROVE RetryInv'
  <2>1. MarkedIsPending'
    BY <1>28, <1>c, <1>a DEF Apply
  <2>2. AppliedIsAcked'
    BY <1>28, <1>c, <1>a DEF Apply
  <2>3. NothingForgotten'
    BY <1>28, <1>c, <1>a, <1>b DEF Apply, Terminal
  <2> QED
    BY <1>28, <1>b, <2>1, <2>2, <2>3 DEF Apply, ClosedIsTerminal, StoreFill
<1>29. ASSUME NEW c \in Conns, Close(c) PROVE RetryInv'
  <2>1. MarkedIsPending'
    BY <1>29, <1>c, <1>a DEF Close
  <2>2. AppliedIsAcked'
    BY <1>29, <1>c, <1>a DEF Close
  <2>3. ClosedIsTerminal'
    BY <1>29, <1>c, <1>a, <1>b DEF Close, StoreDone, Terminal, ClosedIsTerminal
  <2>4. NothingForgotten'
    BY <1>29, <1>c, <1>a, <1>b DEF Close, StoreDone, Terminal, ClosedIsTerminal
  <2> QED
    BY <2>1, <2>2, <2>3, <2>4
<1>30. ASSUME NEW c \in Conns, Exit(c) PROVE RetryInv'
  <2>1. MarkedIsPending'
    BY <1>30, <1>c, <1>a DEF Exit
  <2>2. AppliedIsAcked'
    BY <1>30, <1>c, <1>a DEF Exit
  <2>3. NothingForgotten'
    BY <1>30, <1>c, <1>a, <1>b DEF Exit
  <2> QED
    BY <1>30, <1>b, <2>1, <2>2, <2>3 DEF Exit, ClosedIsTerminal
<1>31. ASSUME Stop PROVE RetryInv'
  <2>1. MarkedIsPending'
    BY <1>31, <1>c DEF Stop
  <2>2. AppliedIsAcked'
    BY <1>31, <1>c DEF Stop
  <2>3. NothingForgotten'
    BY <1>31, <1>c, <1>b DEF Stop
  <2> QED
    BY <1>31, <1>b, <2>1, <2>2, <2>3 DEF Stop, ClosedIsTerminal
<1>32. ASSUME Start PROVE RetryInv'
  <2>1. MarkedIsPending'
    BY <1>32, <1>c DEF Start
  <2>2. AppliedIsAcked'
    BY <1>32, <1>c DEF Start
  <2>3. NothingForgotten'
    BY <1>32, <1>c, <1>b DEF Start, OpenLinks
  <2> QED
    BY <1>32, <1>b, <2>1, <2>2, <2>3 DEF Start, ClosedIsTerminal
<1>33. ASSUME Crash PROVE RetryInv'
  <2>1. MarkedIsPending'
    BY <1>33, <1>c DEF Crash
  <2>2. AppliedIsAcked'
    BY <1>33, <1>c DEF Crash
  <2>3. NothingForgotten'
    BY <1>33, <1>c, <1>b DEF Crash
  <2> QED
    BY <1>33, <1>b, <2>1, <2>2, <2>3 DEF Crash, ClosedIsTerminal
<1>34. ASSUME NEW i \in Calls, Age(i) PROVE RetryInv'
  BY <1>34, <1>b, AsideKeepsRetries DEF RetryAside, Age
<1>35. ASSUME NEW i \in Calls, VenueStep(i) PROVE RetryInv'
  BY <1>35, <1>b, AsideKeepsRetries DEF RetryAside, VenueStep
<1>36. ASSUME UNCHANGED vars PROVE RetryInv'
  BY <1>36, <1>b, AsideKeepsRetries DEF RetryAside, vars
<1> QED
  BY <1>1, <1>2, <1>3, <1>4, <1>5, <1>6, <1>7, <1>8, <1>9, <1>10, <1>11, <1>12,
     <1>13, <1>14, <1>15, <1>16, <1>17, <1>18, <1>19, <1>20, <1>21, <1>22,
     <1>23, <1>24, <1>25, <1>26, <1>27, <1>28, <1>29, <1>30, <1>31, <1>32,
     <1>33, <1>34, <1>35, <1>36 DEF Next, Send, Reconcile, Call, Stream

\* The inductive invariant behind the retries.
THEOREM RetryInvHolds == Spec => []RetryInv
<1>1. Init => RetryInv
  BY InitRetry
<1>2. WorkInv /\ MarkInv /\ CallInv /\ FenceInv /\ BooksInv /\ RetryInv /\ [Next]_vars
        => RetryInv'
  BY NextRetry
<1> QED
  BY <1>1, <1>2, BooksInvHolds, PTL DEF Spec

\* While the runtime is up an open link whose send has no acknowledgement is in
\* its worker's hands or pending at the retry ticker: after a failed store
\* call, an unknown outcome, a lost event or a restart.
THEOREM NoneForgotten == Spec => []NothingForgotten
<1>1. RetryInv => NothingForgotten
  BY DEF RetryInv
<1> QED
  BY RetryInvHolds, <1>1, PTL

=============================================================================
