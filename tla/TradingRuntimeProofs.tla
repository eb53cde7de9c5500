------------------------ MODULE TradingRuntimeProofs ------------------------
(* Type correctness of TradingRuntime and its no-resend guarantee, for every *)
(* set of orders, calls and connections and every bound.                     *)
EXTENDS TradingRuntime, TLAPS

\* What the types depend on besides TypeOK itself: a busy worker holds a call
\* of its connection, and takes its next one from its own retries.
WorkInv == TypeOK /\ JobOwned /\ RetriesOwned

\* Initially everything is well typed, and no worker has a call.
LEMMA InitWork == Init => WorkInv
  BY CallsAssumption, BoundsAssumption
  DEF Init, WorkInv, TypeOK, OrdersOK, ReportsOK, LinksOK, VenueOK, WorkersOK,
      RetriesOK, CallsOK, LanesOK, CountsOK, JobOwned, RetriesOwned, BusyPCs,
      SendPCs, ReconcilePCs, PCs, Statuses, VenueStates, AtVenue, LaneStates,
      Free, Snapshots

\* The links a worker scans are those of its own connection.
LEMMA OpenLinksOwned ==
  ASSUME NEW c \in Conns
  PROVE  /\ OpenLinks(c) \subseteq Calls
         /\ \A i \in OpenLinks(c) : CallConn[i] = c
  BY DEF OpenLinks

\* Every action keeps the types and who owns which call.
LEMMA NextWork == WorkInv /\ [Next]_vars => WorkInv'
<1> SUFFICES ASSUME WorkInv, [Next]_vars PROVE WorkInv'
  OBVIOUS
<1> USE CallsAssumption, BoundsAssumption
    DEF WorkInv, TypeOK, Quiet, NoFault, Fault, Goto, At, Finish, Settled,
        Track, Untrack, store, orderVars, reportVars, linkVars, venueVars,
        workerVars, retryVars, callVars
<1>1. ASSUME NEW i \in Calls, Offer(i) PROVE WorkInv'
  <2>1. CallsOK'
    BY <1>1 DEF Offer, CallsOK
  <2> QED
    BY <1>1, <2>1 DEF Offer, OrdersOK, ReportsOK, LinksOK, VenueOK, WorkersOK,
       RetriesOK, LanesOK, CountsOK, JobOwned, RetriesOwned
<1>2. ASSUME NEW i \in Calls, RefuseEarly(i) PROVE WorkInv'
  <2>1. CallsOK'
    BY <1>2 DEF RefuseEarly, CallsOK
  <2> QED
    BY <1>2, <2>1 DEF RefuseEarly, OrdersOK, ReportsOK, LinksOK, VenueOK,
       WorkersOK, RetriesOK, LanesOK, CountsOK, JobOwned, RetriesOwned
<1>3. ASSUME NEW i \in Calls, Abandon(i) PROVE WorkInv'
  <2>1. CallsOK'
    BY <1>3 DEF Abandon, CallsOK
  <2> QED
    BY <1>3, <2>1 DEF Abandon, OrdersOK, ReportsOK, LinksOK, VenueOK,
       WorkersOK, RetriesOK, LanesOK, CountsOK, JobOwned, RetriesOwned
<1>4. ASSUME NEW i \in Calls, Return(i) PROVE WorkInv'
  <2>1. CallsOK'
    BY <1>4 DEF Return, CallsOK
  <2>2. CountsOK'
    BY <1>4 DEF Return, CountsOK
  <2> QED
    BY <1>4, <2>1, <2>2 DEF Return, OrdersOK, ReportsOK, LinksOK, VenueOK,
       WorkersOK, RetriesOK, LanesOK, JobOwned, RetriesOwned
<1>5. ASSUME NEW i \in Calls, Verify(i) PROVE WorkInv'
  <2>1. CallsOK'
    BY <1>5 DEF Verify, CallsOK, Verdict
  <2>2. CountsOK'
    BY <1>5 DEF Verify, CountsOK
  <2> QED
    BY <1>5, <2>1, <2>2 DEF Verify, OrdersOK, ReportsOK, LinksOK, VenueOK,
       WorkersOK, RetriesOK, LanesOK, JobOwned, RetriesOwned
<1>6. ASSUME NEW i \in Calls, CancelUnsent(i) PROVE WorkInv'
  <2>1. CallsOK'
    BY <1>6 DEF CancelUnsent, CallsOK
  <2>2. CountsOK'
    BY <1>6 DEF CancelUnsent, CountsOK
  <2>3. LanesOK'
    BY <1>6 DEF CancelUnsent, LanesOK, LaneStates, OpKinds
  <2> QED
    BY <1>6, <2>1, <2>2, <2>3 DEF CancelUnsent, OrdersOK, ReportsOK, LinksOK,
       VenueOK, WorkersOK, RetriesOK, JobOwned, RetriesOwned
<1>7. ASSUME NEW o \in Orders, NEW k \in OpKinds, OpEnter(o, k) PROVE WorkInv'
  <2>1. LanesOK'
    BY <1>7 DEF OpEnter, LanesOK, LaneStates
  <2>2. CountsOK'
    BY <1>7 DEF OpEnter, CountsOK
  <2> QED
    BY <1>7, <2>1, <2>2 DEF OpEnter, OrdersOK, ReportsOK, LinksOK, VenueOK,
       WorkersOK, RetriesOK, CallsOK, JobOwned, RetriesOwned
<1>8. ASSUME NEW o \in Orders, OpStore(o) PROVE WorkInv'
  <2>1. OrdersOK'
    BY <1>8 DEF OpStore, OrdersOK, Statuses
  <2>2. CallsOK'
    BY <1>8 DEF OpStore, CallsOK
  <2>3. LanesOK'
    BY <1>8 DEF OpStore, LanesOK, LaneStates
  <2> QED
    BY <1>8, <2>1, <2>2, <2>3 DEF OpStore, ReportsOK, LinksOK, VenueOK,
       WorkersOK, RetriesOK, CountsOK, JobOwned, RetriesOwned
<1>9. ASSUME NEW c \in Conns, NEW i \in Calls, HandOff(c, i) PROVE WorkInv'
  <2>1. WorkersOK'
    BY <1>9 DEF HandOff, WorkersOK, PCs, BusyPCs, SendPCs, ReconcilePCs
  <2>2. CallsOK'
    BY <1>9 DEF HandOff, CallsOK
  <2>3. JobOwned'
    BY <1>9 DEF HandOff, JobOwned, PCs, BusyPCs, SendPCs, ReconcilePCs,
       WorkersOK
  <2> QED
    BY <1>9, <2>1, <2>2, <2>3 DEF HandOff, OrdersOK, ReportsOK, LinksOK,
       VenueOK, RetriesOK, LanesOK, CountsOK, RetriesOwned
<1>10. ASSUME NEW c \in Conns, Check(c) PROVE WorkInv'
  <2>1. WorkersOK'
    BY <1>10 DEF Check, WorkersOK, PCs, BusyPCs, SendPCs, ReconcilePCs
  <2>2. CallsOK'
    BY <1>10 DEF Check, CallsOK
  <2>3. JobOwned'
    BY <1>10 DEF Check, JobOwned, PCs, BusyPCs, SendPCs, ReconcilePCs,
       WorkersOK
  <2> QED
    BY <1>10, <2>1, <2>2, <2>3 DEF Check, OrdersOK, ReportsOK, LinksOK,
       VenueOK, RetriesOK, LanesOK, CountsOK, RetriesOwned
<1>11. ASSUME NEW c \in Conns, CreateLink(c) PROVE WorkInv'
  <2>1. LinksOK'
    BY <1>11 DEF CreateLink, LinksOK, PCs, BusyPCs, SendPCs, ReconcilePCs,
       JobOwned
  <2>2. WorkersOK'
    BY <1>11 DEF CreateLink, WorkersOK, PCs, BusyPCs, SendPCs, ReconcilePCs
  <2>3. CallsOK'
    BY <1>11 DEF CreateLink, CallsOK
  <2>4. CountsOK'
    BY <1>11 DEF CreateLink, CountsOK
  <2>5. JobOwned'
    BY <1>11 DEF CreateLink, JobOwned, PCs, BusyPCs, SendPCs, ReconcilePCs,
       WorkersOK
  <2> QED
    BY <1>11, <2>1, <2>2, <2>3, <2>4, <2>5 DEF CreateLink, OrdersOK,
       ReportsOK, VenueOK, RetriesOK, LanesOK, RetriesOwned
<1>12. ASSUME NEW c \in Conns, Claim(c) PROVE WorkInv'
  <2>1. OrdersOK'
    BY <1>12 DEF Claim, OrdersOK, StoreClaim, Statuses, JobOwned
  <2>2. ReportsOK'
    BY <1>12 DEF Claim, ReportsOK, StoreClaim, PCs, BusyPCs, SendPCs,
       ReconcilePCs, JobOwned
  <2>3. WorkersOK'
    BY <1>12 DEF Claim, WorkersOK, PCs, BusyPCs, SendPCs, ReconcilePCs
  <2>4. CountsOK'
    BY <1>12 DEF Claim, CountsOK
  <2>5. JobOwned'
    BY <1>12 DEF Claim, JobOwned, PCs, BusyPCs, SendPCs, ReconcilePCs,
       WorkersOK
  <2> QED
    BY <1>12, <2>1, <2>2, <2>3, <2>4, <2>5 DEF Claim, LinksOK, VenueOK,
       RetriesOK, CallsOK, LanesOK, RetriesOwned
<1>13. ASSUME NEW c \in Conns, Recheck(c) PROVE WorkInv'
  <2>1. WorkersOK'
    BY <1>13 DEF Recheck, WorkersOK, PCs, BusyPCs, SendPCs, ReconcilePCs
  <2>2. RetriesOK'
    BY <1>13 DEF Recheck, RetriesOK, PCs, BusyPCs, SendPCs, ReconcilePCs,
       JobOwned
  <2>3. CallsOK'
    BY <1>13 DEF Recheck, CallsOK
  <2>4. CountsOK'
    BY <1>13 DEF Recheck, CountsOK
  <2>5. JobOwned'
    BY <1>13 DEF Recheck, JobOwned, PCs, BusyPCs, SendPCs, ReconcilePCs,
       WorkersOK
  <2>6. RetriesOwned'
    BY <1>13 DEF Recheck, RetriesOwned, PCs, BusyPCs, SendPCs, ReconcilePCs,
       RetriesOK, JobOwned
  <2> QED
    BY <1>13, <2>1, <2>2, <2>3, <2>4, <2>5, <2>6 DEF Recheck, OrdersOK,
       ReportsOK, LinksOK, VenueOK, LanesOK
<1>14. ASSUME NEW c \in Conns, Unlink(c) PROVE WorkInv'
  <2>1. LinksOK'
    BY <1>14 DEF Unlink, LinksOK, JobOwned
  <2>2. WorkersOK'
    BY <1>14 DEF Unlink, WorkersOK, PCs, BusyPCs, SendPCs, ReconcilePCs
  <2>3. RetriesOK'
    BY <1>14 DEF Unlink, RetriesOK, PCs, BusyPCs, SendPCs, ReconcilePCs,
       JobOwned
  <2>4. CallsOK'
    BY <1>14 DEF Unlink, CallsOK
  <2>5. CountsOK'
    BY <1>14 DEF Unlink, CountsOK
  <2>6. JobOwned'
    BY <1>14 DEF Unlink, JobOwned, PCs, BusyPCs, SendPCs, ReconcilePCs,
       WorkersOK
  <2>7. RetriesOwned'
    BY <1>14 DEF Unlink, RetriesOwned, PCs, BusyPCs, SendPCs, ReconcilePCs,
       RetriesOK, JobOwned
  <2> QED
    BY <1>14, <2>1, <2>2, <2>3, <2>4, <2>5, <2>6, <2>7 DEF Unlink, OrdersOK,
       ReportsOK, VenueOK, LanesOK
<1>15. ASSUME NEW c \in Conns, Mark(c) PROVE WorkInv'
  <2>1. LinksOK'
    BY <1>15 DEF Mark, LinksOK, PCs, BusyPCs, SendPCs, ReconcilePCs, JobOwned
  <2>2. WorkersOK'
    BY <1>15 DEF Mark, WorkersOK, PCs, BusyPCs, SendPCs, ReconcilePCs
  <2>3. CallsOK'
    BY <1>15 DEF Mark, CallsOK
  <2>4. CountsOK'
    BY <1>15 DEF Mark, CountsOK
  <2>5. JobOwned'
    BY <1>15 DEF Mark, JobOwned, PCs, BusyPCs, SendPCs, ReconcilePCs,
       WorkersOK
  <2> QED
    BY <1>15, <2>1, <2>2, <2>3, <2>4, <2>5 DEF Mark, OrdersOK, ReportsOK,
       VenueOK, RetriesOK, LanesOK, RetriesOwned
<1>16. ASSUME NEW c \in Conns, Issue(c) PROVE WorkInv'
  <2>1. VenueOK'
    BY <1>16 DEF Issue, VenueOK, VenueStates, JobOwned
  <2>2. WorkersOK'
    BY <1>16 DEF Issue, WorkersOK, PCs, BusyPCs, SendPCs, ReconcilePCs
  <2>3. CountsOK'
    BY <1>16 DEF Issue, CountsOK, JobOwned, PCs, BusyPCs, SendPCs,
       ReconcilePCs
  <2>4. JobOwned'
    BY <1>16 DEF Issue, JobOwned, PCs, BusyPCs, SendPCs, ReconcilePCs,
       WorkersOK
  <2> QED
    BY <1>16, <2>1, <2>2, <2>3, <2>4 DEF Issue, OrdersOK, ReportsOK, LinksOK,
       RetriesOK, CallsOK, LanesOK, RetriesOwned
<1>17. ASSUME NEW c \in Conns, Await(c) PROVE WorkInv'
  <2>1. WorkersOK'
    BY <1>17 DEF Await, WorkersOK, PCs, BusyPCs, SendPCs, ReconcilePCs
  <2>2. CallsOK'
    BY <1>17 DEF Await, CallsOK
  <2>3. JobOwned'
    BY <1>17 DEF Await, JobOwned, PCs, BusyPCs, SendPCs, ReconcilePCs,
       WorkersOK
  <2> QED
    BY <1>17, <2>1, <2>2, <2>3 DEF Await, OrdersOK, ReportsOK, LinksOK,
       VenueOK, RetriesOK, LanesOK, CountsOK, RetriesOwned
<1>18. ASSUME NEW c \in Conns, Acknowledge(c) PROVE WorkInv'
  <2>1. LinksOK'
    BY <1>18 DEF Acknowledge, LinksOK, PCs, BusyPCs, SendPCs, ReconcilePCs,
       JobOwned
  <2>2. WorkersOK'
    BY <1>18 DEF Acknowledge, WorkersOK, PCs, BusyPCs, SendPCs, ReconcilePCs
  <2>3. RetriesOK'
    BY <1>18 DEF Acknowledge, RetriesOK, JobOwned
  <2>4. CallsOK'
    BY <1>18 DEF Acknowledge, CallsOK
  <2>5. CountsOK'
    BY <1>18 DEF Acknowledge, CountsOK
  <2>6. JobOwned'
    BY <1>18 DEF Acknowledge, JobOwned, PCs, BusyPCs, SendPCs, ReconcilePCs,
       WorkersOK
  <2>7. RetriesOwned'
    BY <1>18 DEF Acknowledge, RetriesOwned, RetriesOK, JobOwned
  <2> QED
    BY <1>18, <2>1, <2>2, <2>3, <2>4, <2>5, <2>6, <2>7 DEF Acknowledge,
       OrdersOK, ReportsOK, VenueOK, LanesOK
<1>19. ASSUME NEW c \in Conns, Refuse(c) PROVE WorkInv'
  <2>1. OrdersOK'
    BY <1>19 DEF Refuse, OrdersOK, StoreDone, Statuses, JobOwned
  <2>2. ReportsOK'
    BY <1>19 DEF Refuse, ReportsOK, StoreDone, PCs, BusyPCs, SendPCs,
       ReconcilePCs, JobOwned
  <2>3. WorkersOK'
    BY <1>19 DEF Refuse, WorkersOK, PCs, BusyPCs, SendPCs, ReconcilePCs
  <2>4. RetriesOK'
    BY <1>19 DEF Refuse, RetriesOK, JobOwned
  <2>5. CallsOK'
    BY <1>19 DEF Refuse, CallsOK
  <2>6. CountsOK'
    BY <1>19 DEF Refuse, CountsOK
  <2>7. JobOwned'
    BY <1>19 DEF Refuse, JobOwned, PCs, BusyPCs, SendPCs, ReconcilePCs,
       WorkersOK
  <2>8. RetriesOwned'
    BY <1>19 DEF Refuse, RetriesOwned, RetriesOK, JobOwned
  <2> QED
    BY <1>19, <2>1, <2>2, <2>3, <2>4, <2>5, <2>6, <2>7, <2>8 DEF Refuse,
       LinksOK, VenueOK, LanesOK
<1>20. ASSUME NEW c \in Conns, Connected(c) PROVE WorkInv'
  <2>1. WorkersOK'
    BY <1>20 DEF Connected, WorkersOK, PCs, BusyPCs, SendPCs, ReconcilePCs
  <2>2. RetriesOK'
    <3>1. pending' \in [Conns -> SUBSET Calls] /\ queue' \in [Conns -> SUBSET Calls]
      BY <1>20, OpenLinksOwned DEF Connected, RetriesOK
    <3>2. relist' \in [Conns -> BOOLEAN]
      BY <1>20 DEF Connected, RetriesOK
    <3> QED
      BY <3>1, <3>2 DEF RetriesOK
  <2>3. CountsOK'
    BY <1>20 DEF Connected, CountsOK
  <2>4. JobOwned'
    BY <1>20 DEF Connected, JobOwned, PCs, BusyPCs, SendPCs, ReconcilePCs,
       WorkersOK
  <2>5. RetriesOwned'
    BY <1>20, OpenLinksOwned DEF Connected, RetriesOwned, RetriesOK, JobOwned
  <2> QED
    BY <1>20, <2>1, <2>2, <2>3, <2>4, <2>5 DEF Connected, OrdersOK, ReportsOK,
       LinksOK, VenueOK, CallsOK, LanesOK
<1>21. ASSUME NEW c \in Conns, Tick(c) PROVE WorkInv'
  <2>1. WorkersOK'
    BY <1>21 DEF Tick, WorkersOK, PCs, BusyPCs, SendPCs, ReconcilePCs
  <2>2. RetriesOK'
    <3>1. pending' \in [Conns -> SUBSET Calls] /\ queue' \in [Conns -> SUBSET Calls]
      BY <1>21, OpenLinksOwned DEF Tick, RetriesOK
    <3>2. relist' \in [Conns -> BOOLEAN]
      BY <1>21 DEF Tick, RetriesOK
    <3> QED
      BY <3>1, <3>2 DEF RetriesOK
  <2>3. CountsOK'
    BY <1>21 DEF Tick, CountsOK
  <2>4. JobOwned'
    BY <1>21 DEF Tick, JobOwned, PCs, BusyPCs, SendPCs, ReconcilePCs,
       WorkersOK
  <2>5. RetriesOwned'
    BY <1>21, OpenLinksOwned DEF Tick, RetriesOwned, RetriesOK, JobOwned
  <2> QED
    BY <1>21, <2>1, <2>2, <2>3, <2>4, <2>5 DEF Tick, OrdersOK, ReportsOK,
       LinksOK, VenueOK, CallsOK, LanesOK
<1>22. ASSUME NEW c \in Conns, NEW i \in Calls, OrderEvent(c, i) PROVE WorkInv'
  <2>1. WorkersOK'
    BY <1>22 DEF OrderEvent, WorkersOK, PCs, BusyPCs, SendPCs, ReconcilePCs
  <2>2. RetriesOK'
    BY <1>22 DEF OrderEvent, RetriesOK
  <2>3. CountsOK'
    BY <1>22 DEF OrderEvent, CountsOK
  <2>4. JobOwned'
    BY <1>22 DEF OrderEvent, JobOwned, PCs, BusyPCs, SendPCs, ReconcilePCs,
       WorkersOK
  <2>5. RetriesOwned'
    BY <1>22 DEF OrderEvent, RetriesOwned, RetriesOK
  <2> QED
    BY <1>22, <2>1, <2>2, <2>3, <2>4, <2>5 DEF OrderEvent, OrdersOK,
       ReportsOK, LinksOK, VenueOK, CallsOK, LanesOK
<1>23. ASSUME NEW c \in Conns, NEW i \in Calls, NEW k \in 1..Qty,
                FillEvent(c, i, k)
         PROVE  WorkInv'
  <2>1. OrdersOK'
    BY <1>23 DEF FillEvent, OrdersOK, StoreFill, Statuses
  <2>2. ReportsOK'
    BY <1>23 DEF FillEvent, ReportsOK, StoreFill
  <2>3. WorkersOK'
    BY <1>23 DEF FillEvent, WorkersOK, PCs, BusyPCs, SendPCs, ReconcilePCs
  <2>4. RetriesOK'
    BY <1>23 DEF FillEvent, RetriesOK
  <2>5. CountsOK'
    BY <1>23 DEF FillEvent, CountsOK
  <2>6. JobOwned'
    BY <1>23 DEF FillEvent, JobOwned, PCs, BusyPCs, SendPCs, ReconcilePCs,
       WorkersOK
  <2>7. RetriesOwned'
    BY <1>23 DEF FillEvent, RetriesOwned, RetriesOK
  <2> QED
    BY <1>23, <2>1, <2>2, <2>3, <2>4, <2>5, <2>6, <2>7 DEF FillEvent, LinksOK,
       VenueOK, CallsOK, LanesOK
<1>24. ASSUME NEW c \in Conns, Scan(c) PROVE WorkInv'
  <2>1. WorkersOK'
    BY <1>24 DEF Scan, WorkersOK, PCs, BusyPCs, SendPCs, ReconcilePCs,
       RetriesOK
  <2>2. RetriesOK'
    BY <1>24 DEF Scan, RetriesOK, JobOwned
  <2>3. JobOwned'
    BY <1>24 DEF Scan, JobOwned, PCs, BusyPCs, SendPCs, ReconcilePCs,
       WorkersOK, RetriesOwned, RetriesOK
  <2>4. RetriesOwned'
    BY <1>24 DEF Scan, RetriesOwned, RetriesOK, JobOwned
  <2> QED
    BY <1>24, <2>1, <2>2, <2>3, <2>4 DEF Scan, OrdersOK, ReportsOK, LinksOK,
       VenueOK, CallsOK, LanesOK, CountsOK
<1>25. ASSUME NEW c \in Conns, Read(c) PROVE WorkInv'
  <2>1. WorkersOK'
    BY <1>25 DEF Read, WorkersOK, PCs, BusyPCs, SendPCs, ReconcilePCs,
       OrdersOK, JobOwned
  <2>2. RetriesOK'
    BY <1>25 DEF Read, RetriesOK, PCs, BusyPCs, SendPCs, ReconcilePCs,
       JobOwned
  <2>3. CountsOK'
    BY <1>25 DEF Read, CountsOK
  <2>4. JobOwned'
    BY <1>25 DEF Read, JobOwned, PCs, BusyPCs, SendPCs, ReconcilePCs,
       WorkersOK
  <2>5. RetriesOwned'
    BY <1>25 DEF Read, RetriesOwned, PCs, BusyPCs, SendPCs, ReconcilePCs,
       RetriesOK, JobOwned
  <2> QED
    BY <1>25, <2>1, <2>2, <2>3, <2>4, <2>5 DEF Read, OrdersOK, ReportsOK,
       LinksOK, VenueOK, CallsOK, LanesOK
<1>26. ASSUME NEW c \in Conns, Discard(c) PROVE WorkInv'
  <2>1. LinksOK'
    BY <1>26 DEF Discard, LinksOK, JobOwned
  <2>2. WorkersOK'
    BY <1>26 DEF Discard, WorkersOK, PCs, BusyPCs, SendPCs, ReconcilePCs
  <2>3. RetriesOK'
    BY <1>26 DEF Discard, RetriesOK, PCs, BusyPCs, SendPCs, ReconcilePCs,
       JobOwned
  <2>4. CountsOK'
    BY <1>26 DEF Discard, CountsOK
  <2>5. JobOwned'
    BY <1>26 DEF Discard, JobOwned, PCs, BusyPCs, SendPCs, ReconcilePCs,
       WorkersOK
  <2>6. RetriesOwned'
    BY <1>26 DEF Discard, RetriesOwned, PCs, BusyPCs, SendPCs, ReconcilePCs,
       RetriesOK, JobOwned
  <2> QED
    BY <1>26, <2>1, <2>2, <2>3, <2>4, <2>5, <2>6 DEF Discard, OrdersOK,
       ReportsOK, VenueOK, CallsOK, LanesOK
<1>27. ASSUME NEW c \in Conns, Lookup(c) PROVE WorkInv'
  <2>1. LinksOK'
    BY <1>27 DEF Lookup, LinksOK, PCs, BusyPCs, SendPCs, ReconcilePCs,
       JobOwned
  <2>2. WorkersOK'
    <3>1. /\ job[c] \in Calls
          /\ [st |-> venue[job[c]], filled |-> executed[job[c]]].filled \in 0..Qty
      BY <1>27 DEF Lookup, JobOwned, BusyPCs, ReconcilePCs, VenueOK
    <3>2. venue[job[c]] \in AtVenue =>
            [st |-> venue[job[c]], filled |-> executed[job[c]]] \in Snapshots
      BY <3>1 DEF Snapshots
    <3>3. snap' \in [Conns -> Snapshots]
      BY <1>27, <3>2 DEF Lookup, WorkersOK
    <3> QED
      BY <1>27, <3>3 DEF Lookup, WorkersOK, PCs, BusyPCs, SendPCs, ReconcilePCs
  <2>3. RetriesOK'
    BY <1>27 DEF Lookup, RetriesOK, PCs, BusyPCs, SendPCs, ReconcilePCs,
       JobOwned
  <2>4. CountsOK'
    BY <1>27 DEF Lookup, CountsOK
  <2>5. JobOwned'
    BY <1>27 DEF Lookup, JobOwned, PCs, BusyPCs, SendPCs, ReconcilePCs,
       WorkersOK
  <2>6. RetriesOwned'
    BY <1>27 DEF Lookup, RetriesOwned, PCs, BusyPCs, SendPCs, ReconcilePCs,
       RetriesOK, JobOwned
  <2> QED
    BY <1>27, <2>1, <2>2, <2>3, <2>4, <2>5, <2>6 DEF Lookup, OrdersOK,
       ReportsOK, VenueOK, CallsOK, LanesOK
<1>28. ASSUME NEW c \in Conns, Apply(c) PROVE WorkInv'
  <2>1. OrdersOK'
    BY <1>28 DEF Apply, OrdersOK, StoreFill, Statuses, JobOwned
  <2>2. ReportsOK'
    BY <1>28 DEF Apply, ReportsOK, StoreFill, WorkersOK, Snapshots, PCs,
       BusyPCs, SendPCs, ReconcilePCs, JobOwned
  <2>3. WorkersOK'
    BY <1>28 DEF Apply, WorkersOK, PCs, BusyPCs, SendPCs, ReconcilePCs
  <2>4. RetriesOK'
    BY <1>28 DEF Apply, RetriesOK, PCs, BusyPCs, SendPCs, ReconcilePCs,
       JobOwned
  <2>5. CountsOK'
    BY <1>28 DEF Apply, CountsOK
  <2>6. JobOwned'
    BY <1>28 DEF Apply, JobOwned, PCs, BusyPCs, SendPCs, ReconcilePCs,
       WorkersOK
  <2>7. RetriesOwned'
    BY <1>28 DEF Apply, RetriesOwned, PCs, BusyPCs, SendPCs, ReconcilePCs,
       RetriesOK, JobOwned
  <2> QED
    BY <1>28, <2>1, <2>2, <2>3, <2>4, <2>5, <2>6, <2>7 DEF Apply, LinksOK,
       VenueOK, CallsOK, LanesOK
<1>29. ASSUME NEW c \in Conns, Close(c) PROVE WorkInv'
  <2>1. OrdersOK'
    BY <1>29 DEF Close, OrdersOK, StoreDone, Statuses, JobOwned
  <2>2. ReportsOK'
    BY <1>29 DEF Close, ReportsOK, StoreDone, PCs, BusyPCs, SendPCs,
       ReconcilePCs, JobOwned
  <2>3. WorkersOK'
    BY <1>29 DEF Close, WorkersOK, PCs, BusyPCs, SendPCs, ReconcilePCs
  <2>4. RetriesOK'
    BY <1>29 DEF Close, RetriesOK, PCs, BusyPCs, SendPCs, ReconcilePCs,
       JobOwned
  <2>5. CountsOK'
    BY <1>29 DEF Close, CountsOK
  <2>6. JobOwned'
    BY <1>29 DEF Close, JobOwned, PCs, BusyPCs, SendPCs, ReconcilePCs,
       WorkersOK
  <2>7. RetriesOwned'
    BY <1>29 DEF Close, RetriesOwned, PCs, BusyPCs, SendPCs, ReconcilePCs,
       RetriesOK, JobOwned
  <2> QED
    BY <1>29, <2>1, <2>2, <2>3, <2>4, <2>5, <2>6, <2>7 DEF Close, LinksOK,
       VenueOK, CallsOK, LanesOK
<1>30. ASSUME NEW c \in Conns, Exit(c) PROVE WorkInv'
  <2>1. WorkersOK'
    BY <1>30 DEF Exit, WorkersOK, PCs, BusyPCs, SendPCs, ReconcilePCs
  <2>2. JobOwned'
    BY <1>30 DEF Exit, JobOwned, PCs, BusyPCs, SendPCs, ReconcilePCs,
       WorkersOK
  <2> QED
    BY <1>30, <2>1, <2>2 DEF Exit, OrdersOK, ReportsOK, LinksOK, VenueOK,
       RetriesOK, CallsOK, LanesOK, CountsOK, RetriesOwned
<1>31. ASSUME Stop PROVE WorkInv'
  <2>1. WorkersOK'
    BY <1>31 DEF Stop, WorkersOK
  <2>2. CountsOK'
    BY <1>31 DEF Stop, CountsOK
  <2> QED
    BY <1>31, <2>1, <2>2 DEF Stop, OrdersOK, ReportsOK, LinksOK, VenueOK,
       RetriesOK, CallsOK, LanesOK, JobOwned, RetriesOwned
<1>32. ASSUME Start PROVE WorkInv'
  <2>1. WorkersOK'
    BY <1>32 DEF Start, WorkersOK, PCs, BusyPCs, SendPCs, ReconcilePCs
  <2>2. RetriesOK'
    BY <1>32, OpenLinksOwned DEF Start, RetriesOK
  <2>3. JobOwned'
    BY <1>32 DEF Start, JobOwned, PCs, BusyPCs, SendPCs, ReconcilePCs
  <2>4. RetriesOwned'
    BY <1>32, OpenLinksOwned DEF Start, RetriesOwned, RetriesOK
  <2> QED
    BY <1>32, <2>1, <2>2, <2>3, <2>4 DEF Start, OrdersOK, ReportsOK, LinksOK,
       VenueOK, CallsOK, LanesOK, CountsOK
<1>33. ASSUME Crash PROVE WorkInv'
  <2>1. WorkersOK'
    BY <1>33 DEF Crash, WorkersOK, PCs, BusyPCs, SendPCs, ReconcilePCs
  <2>2. CallsOK'
    BY <1>33 DEF Crash, CallsOK
  <2>3. LanesOK'
    BY <1>33 DEF Crash, LanesOK, LaneStates
  <2>4. CountsOK'
    BY <1>33 DEF Crash, CountsOK
  <2>5. JobOwned'
    BY <1>33 DEF Crash, JobOwned, PCs, BusyPCs, SendPCs, ReconcilePCs
  <2> QED
    BY <1>33, <2>1, <2>2, <2>3, <2>4, <2>5 DEF Crash, OrdersOK, ReportsOK,
       LinksOK, VenueOK, RetriesOK, RetriesOwned
<1>34. ASSUME NEW i \in Calls, Age(i) PROVE WorkInv'
  <2>1. LinksOK'
    BY <1>34 DEF Age, LinksOK
  <2> QED
    BY <1>34, <2>1 DEF Age, OrdersOK, ReportsOK, VenueOK, WorkersOK,
       RetriesOK, CallsOK, LanesOK, CountsOK, JobOwned, RetriesOwned
<1>35. ASSUME NEW i \in Calls, VenueStep(i) PROVE WorkInv'
  <2>1. VenueOK'
    BY <1>35 DEF VenueStep, VenueOK, VenueStates, AtVenue
  <2> QED
    BY <1>35, <2>1 DEF VenueStep, OrdersOK, ReportsOK, LinksOK, WorkersOK,
       RetriesOK, CallsOK, LanesOK, CountsOK, JobOwned, RetriesOwned
<1>36. ASSUME UNCHANGED vars PROVE WorkInv'
  BY <1>36
  DEF vars, OrdersOK, ReportsOK, LinksOK, VenueOK, WorkersOK, RetriesOK,
      CallsOK, LanesOK, CountsOK, JobOwned, RetriesOwned
<1> QED
  BY <1>1, <1>2, <1>3, <1>4, <1>5, <1>6, <1>7, <1>8, <1>9, <1>10, <1>11,
     <1>12, <1>13, <1>14, <1>15, <1>16, <1>17, <1>18, <1>19, <1>20, <1>21,
     <1>22, <1>23, <1>24, <1>25, <1>26, <1>27, <1>28, <1>29, <1>30, <1>31,
     <1>32, <1>33, <1>34, <1>35, <1>36 DEF Next, Send, Reconcile, Call, Stream

\* Every variable keeps its type, in every behaviour of the specification.
THEOREM TypeCorrect == Spec => []TypeOK
<1>1. WorkInv => TypeOK
  BY DEF WorkInv
<1> QED
  BY InitWork, NextWork, <1>1, PTL DEF Spec

-----------------------------------------------------------------------------
(* No order is sent twice *)

\* The steps of a worker between the link of an order and its mark.
HandPCs == {"claim", "recheck", "unlink", "mark", "resolve", "discard"}

\* What SendInv says beyond WorkInv.
MarkInv ==
    /\ LinkOwned /\ MarkedStaysLinked /\ UnmarkedInHand /\ MarkedInHand
    /\ SentIsMarked /\ OneSend

\* The steps that leave links, marks and sends alone and take no worker to a
\* control point where it may change them: all but six actions.
Harmless ==
    /\ UNCHANGED <<link, attempted, sends>>
    /\ \A c \in Conns : /\ pc'[c] \in HandPCs =>
                               pc[c] \in HandPCs /\ job'[c] = job[c]
                        /\ pc'[c] = "issue" => pc[c] = "issue" /\ job'[c] = job[c]

\* Initially nothing is marked or sent.
LEMMA InitMark == Init => MarkInv
  BY DEF Init, MarkInv, LinkOwned, MarkedStaysLinked, UnmarkedInHand,
     MarkedInHand, SentIsMarked, OneSend

\* A step that leaves links, marks and sends alone keeps the chain of reasons.
LEMMA HarmlessKeepsMarks == MarkInv /\ Harmless => MarkInv'
  BY DEF MarkInv, Harmless, HandPCs, LinkOwned, MarkedStaysLinked,
     UnmarkedInHand, MarkedInHand, SentIsMarked, OneSend, Linked

\* Two workers never hold the same call.
LEMMA OneHolder ==
  ASSUME WorkInv, NEW c \in Conns, NEW d \in Conns,
         pc[c] \in BusyPCs, pc[d] \in BusyPCs, job[c] = job[d]
  PROVE  c = d
  BY DEF WorkInv, JobOwned

\* MarkInv is inductive over WorkInv.
LEMMA NextMark == WorkInv /\ MarkInv /\ [Next]_vars => MarkInv'
<1> SUFFICES ASSUME WorkInv, MarkInv, [Next]_vars PROVE MarkInv'
  OBVIOUS
<1> USE CallsAssumption, BoundsAssumption
    DEF WorkInv, TypeOK, MarkInv, Quiet, NoFault, Fault, Goto, At, Finish,
        Settled, Track, Untrack, store, orderVars, reportVars, linkVars,
        venueVars, workerVars, retryVars, callVars
<1>a. \A c \in Conns : pc[c] \in HandPCs \cup {"link", "issue", "read"} =>
        pc[c] \in BusyPCs /\ job[c] \in Calls /\ CallOrder[job[c]] \in Orders
  BY DEF JobOwned, HandPCs, BusyPCs, SendPCs, ReconcilePCs
<1>1. ASSUME NEW i \in Calls, Offer(i) PROVE MarkInv'
  BY <1>1, HarmlessKeepsMarks DEF Harmless, HandPCs, Offer, WorkersOK
<1>2. ASSUME NEW i \in Calls, RefuseEarly(i) PROVE MarkInv'
  BY <1>2, HarmlessKeepsMarks DEF Harmless, HandPCs, RefuseEarly, WorkersOK
<1>3. ASSUME NEW i \in Calls, Abandon(i) PROVE MarkInv'
  BY <1>3, HarmlessKeepsMarks DEF Harmless, HandPCs, Abandon, WorkersOK
<1>4. ASSUME NEW i \in Calls, Return(i) PROVE MarkInv'
  BY <1>4, HarmlessKeepsMarks DEF Harmless, HandPCs, Return, WorkersOK
<1>5. ASSUME NEW i \in Calls, Verify(i) PROVE MarkInv'
  BY <1>5, HarmlessKeepsMarks DEF Harmless, HandPCs, Verify, WorkersOK
<1>6. ASSUME NEW i \in Calls, CancelUnsent(i) PROVE MarkInv'
  BY <1>6, HarmlessKeepsMarks DEF Harmless, HandPCs, CancelUnsent, WorkersOK
<1>7. ASSUME NEW o \in Orders, NEW k \in OpKinds, OpEnter(o, k) PROVE MarkInv'
  BY <1>7, HarmlessKeepsMarks DEF Harmless, HandPCs, OpEnter, WorkersOK
<1>8. ASSUME NEW o \in Orders, OpStore(o) PROVE MarkInv'
  BY <1>8, HarmlessKeepsMarks DEF Harmless, HandPCs, OpStore, WorkersOK
<1>9. ASSUME NEW c \in Conns, NEW i \in Calls, HandOff(c, i) PROVE MarkInv'
  BY <1>9, HarmlessKeepsMarks DEF Harmless, HandPCs, HandOff, WorkersOK
<1>10. ASSUME NEW c \in Conns, Check(c) PROVE MarkInv'
  BY <1>10, HarmlessKeepsMarks DEF Harmless, HandPCs, Check, WorkersOK
<1>11. ASSUME NEW c \in Conns, Claim(c) PROVE MarkInv'
  BY <1>11, HarmlessKeepsMarks DEF Harmless, HandPCs, Claim, WorkersOK
<1>12. ASSUME NEW c \in Conns, Recheck(c) PROVE MarkInv'
  BY <1>12, HarmlessKeepsMarks DEF Harmless, HandPCs, Recheck, WorkersOK
<1>13. ASSUME NEW c \in Conns, Await(c) PROVE MarkInv'
  BY <1>13, HarmlessKeepsMarks DEF Harmless, HandPCs, Await, WorkersOK
<1>14. ASSUME NEW c \in Conns, Acknowledge(c) PROVE MarkInv'
  BY <1>14, HarmlessKeepsMarks DEF Harmless, HandPCs, Acknowledge, WorkersOK
<1>15. ASSUME NEW c \in Conns, Refuse(c) PROVE MarkInv'
  BY <1>15, HarmlessKeepsMarks DEF Harmless, HandPCs, Refuse, WorkersOK
<1>16. ASSUME NEW c \in Conns, Connected(c) PROVE MarkInv'
  BY <1>16, HarmlessKeepsMarks DEF Harmless, HandPCs, Connected, WorkersOK
<1>17. ASSUME NEW c \in Conns, Tick(c) PROVE MarkInv'
  BY <1>17, HarmlessKeepsMarks DEF Harmless, HandPCs, Tick, WorkersOK
<1>18. ASSUME NEW c \in Conns, NEW i \in Calls, OrderEvent(c, i) PROVE MarkInv'
  BY <1>18, HarmlessKeepsMarks DEF Harmless, HandPCs, OrderEvent, WorkersOK
<1>19. ASSUME NEW c \in Conns, NEW i \in Calls, NEW k \in 1..Qty,
                FillEvent(c, i, k)
         PROVE  MarkInv'
  BY <1>19, HarmlessKeepsMarks DEF Harmless, HandPCs, FillEvent, WorkersOK
<1>20. ASSUME NEW c \in Conns, Scan(c) PROVE MarkInv'
  BY <1>20, HarmlessKeepsMarks DEF Harmless, HandPCs, Scan, WorkersOK
<1>21. ASSUME NEW c \in Conns, Lookup(c) PROVE MarkInv'
  BY <1>21, HarmlessKeepsMarks DEF Harmless, HandPCs, Lookup, WorkersOK
<1>22. ASSUME NEW c \in Conns, Apply(c) PROVE MarkInv'
  BY <1>22, HarmlessKeepsMarks DEF Harmless, HandPCs, Apply, WorkersOK
<1>23. ASSUME NEW c \in Conns, Close(c) PROVE MarkInv'
  BY <1>23, HarmlessKeepsMarks DEF Harmless, HandPCs, Close, WorkersOK
<1>24. ASSUME NEW c \in Conns, Exit(c) PROVE MarkInv'
  BY <1>24, HarmlessKeepsMarks DEF Harmless, HandPCs, Exit, WorkersOK
<1>25. ASSUME Stop PROVE MarkInv'
  BY <1>25, HarmlessKeepsMarks DEF Harmless, HandPCs, Stop, WorkersOK
<1>26. ASSUME Start PROVE MarkInv'
  BY <1>26, HarmlessKeepsMarks DEF Harmless, HandPCs, Start, WorkersOK
<1>27. ASSUME Crash PROVE MarkInv'
  BY <1>27, HarmlessKeepsMarks DEF Harmless, HandPCs, Crash, WorkersOK
<1>28. ASSUME NEW i \in Calls, Age(i) PROVE MarkInv'
  BY <1>28, HarmlessKeepsMarks DEF Harmless, HandPCs, Age, WorkersOK
<1>29. ASSUME NEW i \in Calls, VenueStep(i) PROVE MarkInv'
  BY <1>29, HarmlessKeepsMarks DEF Harmless, HandPCs, VenueStep, WorkersOK
<1>30. ASSUME NEW c \in Conns, CreateLink(c) PROVE MarkInv'
  <2>1. LinkOwned'
    BY <1>30, <1>a, OneHolder DEF CreateLink, LinkOwned, MarkedStaysLinked,
       UnmarkedInHand, MarkedInHand, SentIsMarked, OneSend, HandPCs, Linked,
       LinksOK, WorkersOK, CountsOK
  <2>2. MarkedStaysLinked'
    BY <1>30, <1>a, OneHolder DEF CreateLink, LinkOwned, MarkedStaysLinked,
       UnmarkedInHand, MarkedInHand, SentIsMarked, OneSend, HandPCs, Linked,
       LinksOK, WorkersOK, CountsOK
  <2>3. UnmarkedInHand'
    BY <1>30, <1>a, OneHolder DEF CreateLink, LinkOwned, MarkedStaysLinked,
       UnmarkedInHand, MarkedInHand, SentIsMarked, OneSend, HandPCs, Linked,
       LinksOK, WorkersOK, CountsOK
  <2>4. MarkedInHand'
    BY <1>30, <1>a, OneHolder DEF CreateLink, LinkOwned, MarkedStaysLinked,
       UnmarkedInHand, MarkedInHand, SentIsMarked, OneSend, HandPCs, Linked,
       LinksOK, WorkersOK, CountsOK
  <2>5. SentIsMarked'
    BY <1>30, <1>a, OneHolder DEF CreateLink, LinkOwned, MarkedStaysLinked,
       UnmarkedInHand, MarkedInHand, SentIsMarked, OneSend, HandPCs, Linked,
       LinksOK, WorkersOK, CountsOK
  <2>6. OneSend'
    BY <1>30, <1>a, OneHolder DEF CreateLink, LinkOwned, MarkedStaysLinked,
       UnmarkedInHand, MarkedInHand, SentIsMarked, OneSend, HandPCs, Linked,
       LinksOK, WorkersOK, CountsOK
  <2> QED
    BY <2>1, <2>2, <2>3, <2>4, <2>5, <2>6
<1>31. ASSUME NEW c \in Conns, Unlink(c) PROVE MarkInv'
  <2>1. LinkOwned'
    BY <1>31, <1>a, OneHolder DEF Unlink, LinkOwned, MarkedStaysLinked,
       UnmarkedInHand, MarkedInHand, SentIsMarked, OneSend, HandPCs, Linked,
       LinksOK, WorkersOK, CountsOK
  <2>2. MarkedStaysLinked'
    BY <1>31, <1>a, OneHolder DEF Unlink, LinkOwned, MarkedStaysLinked,
       UnmarkedInHand, MarkedInHand, SentIsMarked, OneSend, HandPCs, Linked,
       LinksOK, WorkersOK, CountsOK
  <2>3. UnmarkedInHand'
    BY <1>31, <1>a, OneHolder DEF Unlink, LinkOwned, MarkedStaysLinked,
       UnmarkedInHand, MarkedInHand, SentIsMarked, OneSend, HandPCs, Linked,
       LinksOK, WorkersOK, CountsOK
  <2>4. MarkedInHand'
    BY <1>31, <1>a, OneHolder DEF Unlink, LinkOwned, MarkedStaysLinked,
       UnmarkedInHand, MarkedInHand, SentIsMarked, OneSend, HandPCs, Linked,
       LinksOK, WorkersOK, CountsOK
  <2>5. SentIsMarked'
    BY <1>31, <1>a, OneHolder DEF Unlink, LinkOwned, MarkedStaysLinked,
       UnmarkedInHand, MarkedInHand, SentIsMarked, OneSend, HandPCs, Linked,
       LinksOK, WorkersOK, CountsOK
  <2>6. OneSend'
    BY <1>31, <1>a, OneHolder DEF Unlink, LinkOwned, MarkedStaysLinked,
       UnmarkedInHand, MarkedInHand, SentIsMarked, OneSend, HandPCs, Linked,
       LinksOK, WorkersOK, CountsOK
  <2> QED
    BY <2>1, <2>2, <2>3, <2>4, <2>5, <2>6
<1>32. ASSUME NEW c \in Conns, Mark(c) PROVE MarkInv'
  <2>1. LinkOwned'
    BY <1>32, <1>a, OneHolder DEF Mark, LinkOwned, MarkedStaysLinked,
       UnmarkedInHand, MarkedInHand, SentIsMarked, OneSend, HandPCs, Linked,
       LinksOK, WorkersOK, CountsOK
  <2>2. MarkedStaysLinked'
    BY <1>32, <1>a, OneHolder DEF Mark, LinkOwned, MarkedStaysLinked,
       UnmarkedInHand, MarkedInHand, SentIsMarked, OneSend, HandPCs, Linked,
       LinksOK, WorkersOK, CountsOK
  <2>3. UnmarkedInHand'
    BY <1>32, <1>a, OneHolder DEF Mark, LinkOwned, MarkedStaysLinked,
       UnmarkedInHand, MarkedInHand, SentIsMarked, OneSend, HandPCs, Linked,
       LinksOK, WorkersOK, CountsOK
  <2>4. MarkedInHand'
    BY <1>32, <1>a, OneHolder DEF Mark, LinkOwned, MarkedStaysLinked,
       UnmarkedInHand, MarkedInHand, SentIsMarked, OneSend, HandPCs, Linked,
       LinksOK, WorkersOK, CountsOK
  <2>5. SentIsMarked'
    BY <1>32, <1>a, OneHolder DEF Mark, LinkOwned, MarkedStaysLinked,
       UnmarkedInHand, MarkedInHand, SentIsMarked, OneSend, HandPCs, Linked,
       LinksOK, WorkersOK, CountsOK
  <2>6. OneSend'
    BY <1>32, <1>a, OneHolder DEF Mark, LinkOwned, MarkedStaysLinked,
       UnmarkedInHand, MarkedInHand, SentIsMarked, OneSend, HandPCs, Linked,
       LinksOK, WorkersOK, CountsOK
  <2> QED
    BY <2>1, <2>2, <2>3, <2>4, <2>5, <2>6
<1>33. ASSUME NEW c \in Conns, Issue(c) PROVE MarkInv'
  <2>1. LinkOwned'
    BY <1>33, <1>a, OneHolder DEF Issue, LinkOwned, MarkedStaysLinked,
       UnmarkedInHand, MarkedInHand, SentIsMarked, OneSend, HandPCs, Linked,
       LinksOK, WorkersOK, CountsOK
  <2>2. MarkedStaysLinked'
    BY <1>33, <1>a, OneHolder DEF Issue, LinkOwned, MarkedStaysLinked,
       UnmarkedInHand, MarkedInHand, SentIsMarked, OneSend, HandPCs, Linked,
       LinksOK, WorkersOK, CountsOK
  <2>3. UnmarkedInHand'
    BY <1>33, <1>a, OneHolder DEF Issue, LinkOwned, MarkedStaysLinked,
       UnmarkedInHand, MarkedInHand, SentIsMarked, OneSend, HandPCs, Linked,
       LinksOK, WorkersOK, CountsOK
  <2>4. MarkedInHand'
    BY <1>33, <1>a, OneHolder DEF Issue, LinkOwned, MarkedStaysLinked,
       UnmarkedInHand, MarkedInHand, SentIsMarked, OneSend, HandPCs, Linked,
       LinksOK, WorkersOK, CountsOK
  <2>5. SentIsMarked'
    BY <1>33, <1>a, OneHolder DEF Issue, LinkOwned, MarkedStaysLinked,
       UnmarkedInHand, MarkedInHand, SentIsMarked, OneSend, HandPCs, Linked,
       LinksOK, WorkersOK, CountsOK
  <2>6. OneSend'
    BY <1>33, <1>a, OneHolder DEF Issue, LinkOwned, MarkedStaysLinked,
       UnmarkedInHand, MarkedInHand, SentIsMarked, OneSend, HandPCs, Linked,
       LinksOK, WorkersOK, CountsOK
  <2> QED
    BY <2>1, <2>2, <2>3, <2>4, <2>5, <2>6
<1>34. ASSUME NEW c \in Conns, Read(c) PROVE MarkInv'
  <2>1. LinkOwned'
    BY <1>34, <1>a, OneHolder DEF Read, LinkOwned, MarkedStaysLinked,
       UnmarkedInHand, MarkedInHand, SentIsMarked, OneSend, HandPCs, Linked,
       LinksOK, WorkersOK, CountsOK
  <2>2. MarkedStaysLinked'
    BY <1>34, <1>a, OneHolder DEF Read, LinkOwned, MarkedStaysLinked,
       UnmarkedInHand, MarkedInHand, SentIsMarked, OneSend, HandPCs, Linked,
       LinksOK, WorkersOK, CountsOK
  <2>3. UnmarkedInHand'
    BY <1>34, <1>a, OneHolder DEF Read, LinkOwned, MarkedStaysLinked,
       UnmarkedInHand, MarkedInHand, SentIsMarked, OneSend, HandPCs, Linked,
       LinksOK, WorkersOK, CountsOK
  <2>4. MarkedInHand'
    BY <1>34, <1>a, OneHolder DEF Read, LinkOwned, MarkedStaysLinked,
       UnmarkedInHand, MarkedInHand, SentIsMarked, OneSend, HandPCs, Linked,
       LinksOK, WorkersOK, CountsOK
  <2>5. SentIsMarked'
    BY <1>34, <1>a, OneHolder DEF Read, LinkOwned, MarkedStaysLinked,
       UnmarkedInHand, MarkedInHand, SentIsMarked, OneSend, HandPCs, Linked,
       LinksOK, WorkersOK, CountsOK
  <2>6. OneSend'
    BY <1>34, <1>a, OneHolder DEF Read, LinkOwned, MarkedStaysLinked,
       UnmarkedInHand, MarkedInHand, SentIsMarked, OneSend, HandPCs, Linked,
       LinksOK, WorkersOK, CountsOK
  <2> QED
    BY <2>1, <2>2, <2>3, <2>4, <2>5, <2>6
<1>35. ASSUME NEW c \in Conns, Discard(c) PROVE MarkInv'
  <2>1. LinkOwned'
    BY <1>35, <1>a, OneHolder DEF Discard, LinkOwned, MarkedStaysLinked,
       UnmarkedInHand, MarkedInHand, SentIsMarked, OneSend, HandPCs, Linked,
       LinksOK, WorkersOK, CountsOK
  <2>2. MarkedStaysLinked'
    BY <1>35, <1>a, OneHolder DEF Discard, LinkOwned, MarkedStaysLinked,
       UnmarkedInHand, MarkedInHand, SentIsMarked, OneSend, HandPCs, Linked,
       LinksOK, WorkersOK, CountsOK
  <2>3. UnmarkedInHand'
    BY <1>35, <1>a, OneHolder DEF Discard, LinkOwned, MarkedStaysLinked,
       UnmarkedInHand, MarkedInHand, SentIsMarked, OneSend, HandPCs, Linked,
       LinksOK, WorkersOK, CountsOK
  <2>4. MarkedInHand'
    BY <1>35, <1>a, OneHolder DEF Discard, LinkOwned, MarkedStaysLinked,
       UnmarkedInHand, MarkedInHand, SentIsMarked, OneSend, HandPCs, Linked,
       LinksOK, WorkersOK, CountsOK
  <2>5. SentIsMarked'
    BY <1>35, <1>a, OneHolder DEF Discard, LinkOwned, MarkedStaysLinked,
       UnmarkedInHand, MarkedInHand, SentIsMarked, OneSend, HandPCs, Linked,
       LinksOK, WorkersOK, CountsOK
  <2>6. OneSend'
    BY <1>35, <1>a, OneHolder DEF Discard, LinkOwned, MarkedStaysLinked,
       UnmarkedInHand, MarkedInHand, SentIsMarked, OneSend, HandPCs, Linked,
       LinksOK, WorkersOK, CountsOK
  <2> QED
    BY <2>1, <2>2, <2>3, <2>4, <2>5, <2>6
<1>36. ASSUME UNCHANGED vars PROVE MarkInv'
  BY <1>36, HarmlessKeepsMarks DEF Harmless, vars
<1> QED
  BY <1>1, <1>2, <1>3, <1>4, <1>5, <1>6, <1>7, <1>8, <1>9, <1>10, <1>11,
     <1>12, <1>13, <1>14, <1>15, <1>16, <1>17, <1>18, <1>19, <1>20, <1>21,
     <1>22, <1>23, <1>24, <1>25, <1>26, <1>27, <1>28, <1>29, <1>30, <1>31,
     <1>32, <1>33, <1>34, <1>35, <1>36 DEF Next, Send, Reconcile, Call, Stream

\* The inductive invariant behind the no-resend guarantee.
THEOREM SendInvHolds == Spec => []SendInv
<1>1. Init => WorkInv /\ MarkInv
  BY InitWork, InitMark
<1>2. WorkInv /\ MarkInv /\ [Next]_vars => (WorkInv /\ MarkInv)'
  BY NextWork, NextMark
<1>3. WorkInv /\ MarkInv => SendInv
  BY DEF WorkInv, MarkInv, SendInv
<1> QED
  BY <1>1, <1>2, <1>3, PTL DEF Spec

\* Connector.Send is called at most once for an order: no call, connection,
\* failure, crash or restart makes the runtime send it again.
THEOREM AtMostOneSend == Spec => []OneSend
<1>1. SendInv => OneSend
  BY DEF SendInv
<1> QED
  BY SendInvHolds, <1>1, PTL

=============================================================================
