---------------------------- MODULE ManualMarks ----------------------------
(***************************************************************************)
(* The market-data manager: what keeps the quotes in the engine those of   *)
(* the applied configuration.  An operator sets or clears the mark of a    *)
(* pair of a bring-your-own source while the manager runs; other pairs are *)
(* fed by a stream.  A quote of a pair whose inverse is not configured is  *)
(* published for the inverse pair too.                                     *)
(*                                                                         *)
(* Every run of the manager has its own goroutines: the drains of the two  *)
(* sources, the start-up actions and the refresh.  Stop does not wait for  *)
(* them longer than a grace, so they can meet the goroutines of the next   *)
(* run.  The publisher gate orders those who queue marks, the sink gate    *)
(* those who change the engine, and the barrier keeps the drains of a run  *)
(* back until what the last run left in the engine is cleared.             *)
(***************************************************************************)
EXTENDS Integers, Sequences

CONSTANTS
    Pairs,         \* asset pairs
    Opposite,      \* the pair with base and quote swapped
    Marks,         \* prices an operator sets
    Streamed,      \* the pairs a stream may offer
    Saved,         \* the rows a program may start with
    MaxRuns,       \* runs of the manager
    Budgets        \* bounds: how many prices set, other changes of the
                   \* configuration, failing calls and stops go together

ASSUME PairsAssumption ==
    /\ Opposite \in [Pairs -> Pairs]
    /\ \A p \in Pairs : Opposite[p] # p /\ Opposite[Opposite[p]] = p
    /\ "none" \notin Pairs
    /\ Marks \cap {"none", "absent", "off", "blank", "feed"} = {}
    /\ Streamed \subseteq Pairs
    /\ MaxRuns \in Nat

Roles == {"drain", "feed", "startup", "refresh"}
Runs == 1 .. MaxRuns
caller == <<"caller", 0>>
Procs == (Roles \X Runs) \cup {caller}
Free == <<"free", 0>>

(* A row of the store: none, a disabled one, one of a streaming source, one  *)
(* of the manual source with its price.                                      *)
Rows == {"absent", "off", "feed", "blank"} \cup Marks
IsManual(row) == row = "blank" \/ row \in Marks
Enabled(row) == row = "feed" \/ IsManual(row)

ASSUME SavedAssumption ==
    /\ Saved \subseteq [Pairs -> Rows]
    /\ \A rows \in Saved : \A p \in Pairs : rows[p] = "feed" => p \in Streamed

Source(row) == IF IsManual(row) THEN "byo" ELSE "feed"

NoClear == [token |-> 0, direct |-> FALSE, inverse |-> FALSE]
Empty == [mark |-> "none", of |-> "none", run |-> 0]

VARIABLES
    config,        \* the rows of the store
    mgr,           \* the Manager struct, changed under its mutex
    cancelled,     \* runs whose context is cancelled and connectors closed
    queue,         \* the manual connector's channel of each run
    publisher,     \* holder of the publisher gate
    sinkGate,      \* holder of the sink gate
    pc,            \* control point of each goroutine
    hand,          \* the update it works on
    todo,          \* updates it has yet to publish
    seen,          \* what the refresh of a run read: run, revision, rows
    answer,        \* what arrived on the clearDone channel waited on
    engine,        \* the quote of each pair in the engine, and whose it is
    shown,         \* history: token of the last manual change of each pair
    told,          \* history: the pair PushManual answered is cleared
    retired,       \* history: pairs whose assets the engine did not know
    adopted,       \* history: pairs whose quote lost its source at a start
                   \* that left it to another one, which sent none yet
    spent          \* prices set, changes, failing calls and stops so far

vars == <<config, mgr, cancelled, queue, publisher, sinkGate, pc, hand, todo,
          seen, answer, engine, shown, told, retired, adopted, spent>>

history == <<shown, told, retired, adopted>>

NoUpdate == [pair |-> "none", run |-> 0, token |-> 0, mark |-> "none",
             direct |-> FALSE, inverse |-> FALSE]

NotSeen == [run |-> 0, revision |-> 0, rows |-> [p \in Pairs |-> "absent"]]

Clear(p, state, run) ==
    [pair |-> p, run |-> run, token |-> state.token, mark |-> "blank",
     direct |-> state.direct, inverse |-> state.inverse]

Quote(p, mark, token, run) ==
    [pair |-> p, run |-> run, token |-> token, mark |-> mark,
     direct |-> TRUE, inverse |-> FALSE]

IsClear(u) == u.mark = "blank"

Goto(w, step) == pc' = [pc EXCEPT ![w] = step]
Take(w, u) == hand' = [hand EXCEPT ![w] = u]
IsCancelled(w) == w[2] \in cancelled

(* A goroutine rid of its update.  One of a cancelled run ends: nothing it    *)
(* could do next gets past the context, and its publisher gate is free.       *)
Leave(w, step) == Goto(w, IF IsCancelled(w) THEN "off" ELSE step) /\ Take(w, NoUpdate)
LeaveTodo(w) == todo' = [todo EXCEPT ![w] = IF IsCancelled(w) THEN {} ELSE @]
LeavePublisher(w) ==
    publisher' = IF IsCancelled(w) /\ publisher = w THEN Free ELSE publisher

Spend(kind) ==
    /\ spent' = [spent EXCEPT ![kind] = @ + 1]
    /\ \E b \in Budgets : \A k \in DOMAIN spent : spent'[k] <= b[k]
Fault == Spend("faults")

-----------------------------------------------------------------------------
(* The Manager struct *)

(* resolveSinkBarrierClearLocked *)
Resolve(s, p, token) ==
    LET held == [s.held EXCEPT ![p] = 0] IN
    IF s.open \/ token = 0 \/ s.held[p] # token
    THEN s
    ELSE [s EXCEPT !.held = held, !.open = \A q \in Pairs : held[q] = 0]

(* setPendingManualClearLocked *)
SetClear(s, p, state) ==
    [s EXCEPT
        !.held[p] = IF s.clears[p] # NoClear /\ @ = s.clears[p].token
                    THEN state.token
                    ELSE @,
        !.clears[p] = state]

(* supersedePendingManualClearLocked *)
Supersede(s, p) ==
    CASE s.clears[p] = NoClear -> s
      [] s.clears[p].inverse /\ p \notin s.synthetic ->
             [s EXCEPT !.clears[p].direct = FALSE]
      [] OTHER -> Resolve([s EXCEPT !.clears[p] = NoClear], p, s.clears[p].token)

(* retireManualQuoteLocked *)
Retire(s, p) ==
    LET r == IF s.clears[p] = NoClear
             THEN s
             ELSE Resolve([s EXCEPT !.clears[p] = NoClear], p, s.clears[p].token)
    IN [r EXCEPT !.live = @ \ {p}, !.liveInverse = @ \ {p}, !.mark[p] = "none",
                 !.token[p] = 0, !.synthetic = @ \ {p},
                 !.latest = @ \ {<<"byo", p>>}]

(* MUTANT: a clear that a newer mark superseded completes all the same. *)
CompleteAny(s, u) ==
    IF u.run # s.run
    THEN s
    ELSE Resolve(
           [s EXCEPT
               !.clears[u.pair] = NoClear,
               !.live = IF u.direct THEN @ \ {u.pair} ELSE @,
               !.liveInverse = @ \ {u.pair},
               !.latest = IF u.direct THEN @ \ {<<"byo", u.pair>>} ELSE @],
           u.pair, u.token)

(* completeManualClear *)
Complete(s, u) ==
    IF s.clears[u.pair].token # u.token \/ u.run # s.run
    THEN s
    ELSE Resolve(
           [s EXCEPT
               !.clears[u.pair] = NoClear,
               !.live = IF u.direct THEN @ \ {u.pair} ELSE @,
               !.liveInverse = @ \ {u.pair},
               !.latest = IF u.direct THEN @ \ {<<"byo", u.pair>>} ELSE @],
           u.pair, u.token)

(* nextManualTokenLocked: the code has one counter, but compares only the    *)
(* tokens of one pair.                                                       *)
NewToken(s, p) == [s EXCEPT !.last[p] = @ + 1, !.token[p] = s.last[p] + 1]

MarkLive(s, p) ==
    [s EXCEPT !.live = @ \cup {p},
              !.liveInverse = IF p \in s.synthetic THEN @ \cup {p} ELSE @]

(* A row that lost its price, and one that has a price. *)
WantClear(s, p) ==
    LET t == NewToken(s, p) IN
    SetClear([t EXCEPT !.mark[p] = "blank"], p,
             [token |-> t.token[p], direct |-> TRUE,
              inverse |-> p \in s.liveInverse \cup s.synthetic])

WantMark(s, p, mark) == MarkLive(Supersede([s EXCEPT !.mark[p] = mark], p), p)

(* MUTANT: only the run is compared, not the token of the mark. *)
IsOfTheRun(u) == mgr.started /\ u.run = mgr.run

(* manualUpdateIsCurrentLocked, quoteUpdateIsCurrent *)
IsCurrent(u) ==
    /\ mgr.started
    /\ u.run = mgr.run
    /\ u.mark # "feed" =>
           /\ mgr.token[u.pair] = u.token
           /\ mgr.mark[u.pair] = u.mark

(* manualClearIsCurrent *)
ClearIsCurrent(u) ==
    /\ mgr.started
    /\ u.run = mgr.run
    /\ mgr.clears[u.pair] = [token |-> u.token, direct |-> u.direct, inverse |-> u.inverse]

(* MUTANT: a drain does not wait for the inherited clears. *)
NoBarrier(w) == w[2] = mgr.run

-----------------------------------------------------------------------------
(* waitForSinkBarrier: the barrier of a run is closed once, for good. *)
BarrierOpen(w) == w[2] = mgr.run /\ mgr.open

(* Where a clear that ended leaves its goroutine: the drain tells the one    *)
(* that waits for it.                                                        *)
Cleared(w, u, ok) ==
    /\ Leave(w, CASE w[1] = "drain" -> "recv"
                  [] w[1] = "startup" -> "clears"
                  [] w[1] = "refresh" -> "retry")
    /\ answer' = IF w[1] = "drain" /\ \E x \in Procs : pc[x] = "await" /\ hand[x] = u
                 THEN IF ok THEN "done" ELSE "failed"
                 ELSE answer
    /\ LeavePublisher(w)

(* applyManualClear up to its call of the engine *)
BeginClear(w, u) ==
    /\ sinkGate = Free
    /\ IF ClearIsCurrent(u)
       THEN /\ sinkGate' = w
            /\ Take(w, u) /\ Goto(w, "clear")
            /\ UNCHANGED <<answer, publisher>>
       ELSE Cleared(w, u, TRUE) /\ UNCHANGED sinkGate

-----------------------------------------------------------------------------
(* drain, one goroutine per source and run *)

Receive(w) ==
    /\ pc[w] = "recv" /\ w[1] = "drain"
    /\ queue[w[2]] # <<>>
    /\ Take(w, Head(queue[w[2]]))
    /\ queue' = [queue EXCEPT ![w[2]] = Tail(@)]
    /\ Goto(w, "got")
    /\ UNCHANGED <<config, mgr, cancelled, publisher, sinkGate, todo, seen,
                   answer, engine, history, spent>>

(* A stream offers a quote. *)
Offer(w) ==
    /\ pc[w] = "recv" /\ w[1] = "feed"
    /\ \E p \in Pairs :
           /\ mgr.applied[p] = "feed"
           /\ Take(w, Quote(p, "feed", 0, w[2]))
    /\ Goto(w, "got")
    /\ UNCHANGED <<config, mgr, cancelled, queue, publisher, sinkGate, todo,
                   seen, answer, engine, history, spent>>

Admit(w) ==
    /\ pc[w] = "got" /\ ~IsClear(hand[w])
    /\ BarrierOpen(w)
    /\ sinkGate = Free
    /\ IF IsCurrent(hand[w])
       THEN sinkGate' = w /\ Goto(w, "sink") /\ UNCHANGED hand
       ELSE Leave(w, "recv") /\ UNCHANGED sinkGate
    /\ UNCHANGED <<config, mgr, cancelled, queue, publisher, todo, seen,
                   answer, engine, history, spent>>

AdmitClear(w) ==
    /\ pc[w] = "got" /\ IsClear(hand[w])
    /\ BarrierOpen(w)
    /\ BeginClear(w, hand[w])
    /\ UNCHANGED <<config, mgr, cancelled, queue, todo, seen, engine, history, spent>>

(* pushToSink, recordAcceptedSnapshot and the quote of the inverse pair *)
Push(w) ==
    LET u == hand[w]
        direct == [engine EXCEPT ![u.pair] = [mark |-> u.mark, of |-> u.pair, run |-> u.run]]
        both == [direct EXCEPT ![Opposite[u.pair]] = direct[u.pair]]
    IN
    /\ pc[w] = "sink"
    /\ \/ /\ Fault
          /\ Leave(w, "recv") /\ sinkGate' = Free
          /\ UNCHANGED <<mgr, engine, shown, adopted>>
       \/ /\ mgr' = [mgr EXCEPT !.latest = @ \cup {<<Source(u.mark), u.pair>>}]
          /\ \E inverse \in BOOLEAN :
                 /\ \/ inverse /\ u.pair \in mgr.plan /\ engine' = both /\ UNCHANGED spent
                    \/ ~inverse /\ u.pair \in mgr.plan /\ engine' = direct /\ Fault
                    \/ ~inverse /\ u.pair \notin mgr.plan /\ engine' = direct /\ UNCHANGED spent
                 /\ IF u.mark = "feed"
                    THEN Leave(w, "recv") /\ sinkGate' = Free /\ UNCHANGED shown
                    ELSE /\ Goto(w, "acknowledge") /\ UNCHANGED sinkGate
                         /\ Take(w, [u EXCEPT !.inverse = inverse])
                         /\ shown' = [shown EXCEPT ![u.pair] = u.token]
          /\ adopted' = {x \in adopted : engine'[x] = engine[x]}
    /\ UNCHANGED <<config, cancelled, queue, publisher, todo, seen, answer,
                   told, retired>>

(* acknowledgeManualQuote *)
Acknowledge(w) ==
    LET u == hand[w] IN
    /\ pc[w] = "acknowledge"
    /\ mgr' = IF ~IsCurrent(u)
              THEN mgr
              ELSE [mgr EXCEPT
                       !.live = @ \cup {u.pair},
                       !.liveInverse = IF u.inverse THEN @ \cup {u.pair} ELSE @]
    /\ Leave(w, "recv") /\ sinkGate' = Free
    /\ UNCHANGED <<config, cancelled, queue, publisher, todo, seen, answer,
                   engine, history, spent>>

-----------------------------------------------------------------------------
(* applyManualClear, by a drain, a start-up or a refresh *)

ClearEngine(w) ==
    LET u == hand[w]
        direct == IF u.direct THEN {u.pair} ELSE {}
        inverse == IF u.inverse THEN {Opposite[u.pair]} ELSE {}
        Without(ps) == [x \in Pairs |-> IF x \in ps THEN Empty ELSE engine[x]]
        partly == {engine, Without(IF u.inverse THEN direct ELSE {})}
    IN
    /\ pc[w] = "clear"
    /\ \/ /\ engine' = Without(direct \cup inverse)
          /\ Goto(w, "cleared")
          /\ shown' = IF u.direct THEN [shown EXCEPT ![u.pair] = u.token] ELSE shown
          /\ UNCHANGED <<mgr, hand, todo, publisher, sinkGate, answer, retired, spent>>
       \/ /\ Fault
          /\ engine' \in partly
          /\ Cleared(w, u, FALSE) /\ LeaveTodo(w) /\ sinkGate' = Free
          /\ UNCHANGED <<mgr, shown, retired>>
       \/ /\ Fault
          /\ engine' \in partly
          /\ mgr' = Retire(mgr, u.pair)
          /\ retired' = retired \cup {u.pair}
          /\ Cleared(w, u, TRUE) /\ LeaveTodo(w) /\ sinkGate' = Free
          /\ UNCHANGED shown
    /\ UNCHANGED <<config, cancelled, queue, seen, told, adopted>>

CompleteClear(w) ==
    /\ pc[w] = "cleared"
    /\ mgr' = Complete(mgr, hand[w])
    /\ Cleared(w, hand[w], TRUE) /\ LeaveTodo(w) /\ sinkGate' = Free
    /\ UNCHANGED <<config, cancelled, queue, seen, engine, history, spent>>

-----------------------------------------------------------------------------
(* Publishers.  A push fails when the channel is full for the grace; after    *)
(* Close it does nothing.                                                    *)

(* MUTANT: a push never waits for the drain. *)
SentUnbounded(u) ==
    /\ u.run \notin cancelled
    /\ queue' = [queue EXCEPT ![u.run] = Append(@, u)]

Sent(u) ==
    /\ u.run \notin cancelled
    /\ queue[u.run] = <<>>
    /\ queue' = [queue EXCEPT ![u.run] = <<u>>]

NotSent(u) ==
    /\ u.run \in cancelled \/ queue[u.run] # <<>>
    /\ UNCHANGED queue

(* The publisher has more to publish, or gives its gate back. *)
PublishOrRest(w) ==
    IF todo'[w] # {}
    THEN Goto(w, "publish") /\ publisher' = w
    ELSE /\ Goto(w, IF w[1] = "refresh" /\ ~IsCancelled(w) THEN "tick" ELSE "off")
         /\ publisher' = Free

(* The rest of runStartupManualActions and of refreshManualMarksOnce *)
Publish(w) ==
    /\ pc[w] = "publish"
    /\ \E u \in todo[w] :
           /\ todo' = [todo EXCEPT ![w] = @ \ {u}]
           /\ \/ Sent(u) /\ IsClear(u) /\ Goto(w, "await") /\ Take(w, u) /\ UNCHANGED publisher
              \/ Sent(u) /\ ~IsClear(u) /\ PublishOrRest(w) /\ UNCHANGED hand
              \/ NotSent(u) /\ PublishOrRest(w) /\ UNCHANGED hand
    /\ UNCHANGED <<config, mgr, cancelled, sinkGate, seen, answer, engine,
                   history, spent>>

(* pushManualClear waits for the answer, no longer than the grace. *)
Await(w) ==
    /\ pc[w] = "await"
    /\ answer' = "none"
    /\ LeaveTodo(w)
    /\ IF w = caller
       THEN /\ Leave(w, "idle") /\ publisher' = Free
            /\ told' = IF answer = "done" THEN hand[w].pair ELSE told
       ELSE PublishOrRest(w) /\ Take(w, NoUpdate) /\ UNCHANGED told
    /\ UNCHANGED <<config, mgr, cancelled, queue, sinkGate, seen, engine,
                   shown, retired, adopted, spent>>

Clears(w) == {u \in todo[w] : IsClear(u)}

(* The publisher applies its next clear itself. *)
ClearNext(w) ==
    /\ \E u \in Clears(w) :
           BeginClear(w, u) /\ todo' = [todo EXCEPT ![w] = @ \ {u}]
    /\ UNCHANGED mgr

(* releaseSinkBarrierIfReady *)
ReleaseBarrier(w) ==
    mgr' = IF w[2] = mgr.run /\ \A p \in Pairs : mgr.held[p] = 0
           THEN [mgr EXCEPT !.open = TRUE]
           ELSE mgr

(* runStartupManualActions *)
BeginStartup(w) ==
    /\ pc[w] = "startup"
    /\ publisher = Free
    /\ IF Clears(w) # {}
       THEN Goto(w, "clears") /\ publisher' = w /\ UNCHANGED <<mgr, todo>>
       ELSE ReleaseBarrier(w) /\ UNCHANGED todo /\ PublishOrRest(w)
    /\ UNCHANGED <<config, cancelled, queue, sinkGate, hand, seen, answer,
                   engine, history, spent>>

StartupClears(w) ==
    /\ pc[w] = "clears"
    /\ \/ ClearNext(w)
       \/ /\ Clears(w) = {}
          /\ ReleaseBarrier(w)
          /\ UNCHANGED <<sinkGate, hand, todo, answer>>
          /\ PublishOrRest(w)
    /\ UNCHANGED <<config, cancelled, queue, seen, engine, history, spent>>

(* The revision a refresh reads before, without the mutex, it reads the rows *)
ReadRevision(w) ==
    /\ seen' = [seen EXCEPT ![w[2]].run = mgr.run, ![w[2]].revision = mgr.revision]
    /\ Goto(w, "readRows")

(* refreshManualMarksOnce: retryPendingManualClears first *)
BeginRefresh(w) ==
    LET pending == {p \in Pairs : mgr.clears[p] # NoClear} IN
    /\ pc[w] = "tick"
    /\ publisher = Free
    /\ IF pending # {}
       THEN /\ publisher' = w
            /\ todo' = [todo EXCEPT ![w] = {Clear(p, mgr.clears[p], mgr.run) : p \in pending}]
            /\ Goto(w, "retry")
            /\ UNCHANGED seen
       ELSE ReadRevision(w) /\ UNCHANGED <<publisher, todo>>
    /\ UNCHANGED <<config, mgr, cancelled, queue, sinkGate, hand, answer,
                   engine, history, spent>>

Retry(w) ==
    /\ pc[w] = "retry"
    /\ \/ ClearNext(w) /\ UNCHANGED seen
       \/ /\ Clears(w) = {}
          /\ publisher' = Free
          /\ ReadRevision(w)
          /\ UNCHANGED <<mgr, sinkGate, hand, todo, answer>>
    /\ UNCHANGED <<config, cancelled, queue, engine, history, spent>>

ReadRows(w) ==
    /\ pc[w] = "readRows"
    /\ \/ /\ seen' = [seen EXCEPT ![w[2]].rows = config]
          /\ Goto(w, "plan") /\ UNCHANGED spent
       \/ Fault /\ Goto(w, "tick") /\ seen' = [seen EXCEPT ![w[2]] = NotSeen]
    /\ UNCHANGED <<config, mgr, cancelled, queue, publisher, sinkGate, hand,
                   todo, answer, engine, history>>

RefreshRow(s, p, row) ==
    CASE row \in Marks ->
             WantMark(IF s.mark[p] # row \/ s.token[p] = 0 THEN NewToken(s, p) ELSE s, p, row)
      [] row = "blank" /\ s.clears[p] = NoClear /\ p \in s.live -> WantClear(s, p)
      [] OTHER -> [s EXCEPT !.mark[p] = "blank"]

(* MUTANT: rows read before a live edit are published after it. *)
StillAsReadByRun(r) == mgr.started /\ seen[r].run = mgr.run

StillAsRead(r) ==
    mgr.started /\ seen[r].run = mgr.run /\ seen[r].revision = mgr.revision

(* The refresh of all rows: each touches its own pair only, but for the       *)
(* barrier, which the last inherited clear opens.                             *)
Refreshed(s, was, rows) ==
    LET row == [p \in Pairs |-> IF p \in rows THEN RefreshRow(s, p, was[p]) ELSE s]
        held == [p \in Pairs |-> row[p].held[p]]
    IN [s EXCEPT
           !.mark = [p \in Pairs |-> row[p].mark[p]],
           !.token = [p \in Pairs |-> row[p].token[p]],
           !.last = [p \in Pairs |-> row[p].last[p]],
           !.clears = [p \in Pairs |-> row[p].clears[p]],
           !.held = held,
           !.live = {p \in Pairs : p \in row[p].live},
           !.liveInverse = {p \in Pairs : p \in row[p].liveInverse},
           !.open = @ \/ (held # s.held /\ \A p \in Pairs : held[p] = 0)]

PlanRefresh(w) ==
    LET was == seen[w[2]].rows
        rows == {p \in Pairs : IsManual(was[p]) /\ mgr.applied[p] = "byo"}
        next == Refreshed(mgr, was, rows)
        cleared == {p \in rows : next.clears[p].token > mgr.clears[p].token}
        priced == {p \in rows : was[p] \in Marks}
    IN
    /\ pc[w] = "plan"
    /\ publisher = Free
    /\ IF StillAsRead(w[2])
       THEN /\ mgr' = next
            /\ todo' = [todo EXCEPT ![w] =
                   {Clear(p, next.clears[p], mgr.run) : p \in cleared} \cup
                   {Quote(p, was[p], next.token[p], mgr.run) : p \in priced}]
       ELSE UNCHANGED <<mgr, todo>>
    /\ PublishOrRest(w)
    /\ seen' = [seen EXCEPT ![w[2]] = NotSeen]
    /\ UNCHANGED <<config, cancelled, queue, sinkGate, hand, answer, engine,
                   history, spent>>

-----------------------------------------------------------------------------
(* The control plane: one request at a time, under marketDataMu. *)

(* UpsertMarketDataInstrument of the manual source, then PushManual: it      *)
(* reaches the run if the run has the pair.                                  *)
SetPrice ==
    /\ pc[caller] = "idle"
    /\ Spend("prices")
    /\ \E p \in Pairs, row \in {"blank"} \cup Marks :
           /\ config' = [config EXCEPT ![p] = row]
           /\ Take(caller, Quote(p, row, 0, mgr.run))
    /\ told' = "none"
    /\ Goto(caller, "pushManual")
    /\ UNCHANGED <<mgr, cancelled, queue, publisher, sinkGate, todo, seen,
                   answer, engine, shown, retired, adopted>>

PushManual ==
    LET p == hand[caller].pair
        row == hand[caller].mark
        next == IF row = "blank" THEN WantClear(mgr, p) ELSE WantMark(NewToken(mgr, p), p, row)
    IN
    /\ pc[caller] = "pushManual"
    /\ publisher = Free
    /\ IF mgr.started /\ mgr.applied[p] = "byo"
       THEN /\ mgr' = [next EXCEPT !.revision = @ + 1]
            /\ publisher' = caller
            /\ Take(caller, IF row = "blank" THEN Clear(p, next.clears[p], mgr.run)
                            ELSE Quote(p, row, next.token[p], mgr.run))
            /\ Goto(caller, "push")
       ELSE Leave(caller, "idle") /\ UNCHANGED <<mgr, publisher>>
    /\ UNCHANGED <<config, cancelled, queue, sinkGate, todo, seen, answer,
                   engine, history, spent>>

(* The publisher gate was not free within the grace. *)
PushManualTooLate ==
    /\ pc[caller] = "pushManual"
    /\ publisher # Free
    /\ Leave(caller, "idle")
    /\ UNCHANGED <<config, mgr, cancelled, queue, publisher, sinkGate, todo,
                   seen, answer, engine, history, spent>>

FinishPush ==
    LET u == hand[caller] IN
    /\ pc[caller] = "push"
    /\ \/ Sent(u) /\ IsClear(u) /\ Goto(caller, "await") /\ UNCHANGED <<hand, publisher>>
       \/ Sent(u) /\ ~IsClear(u) /\ Leave(caller, "idle") /\ publisher' = Free
       \/ NotSent(u) /\ Leave(caller, "idle") /\ publisher' = Free
    /\ UNCHANGED <<config, mgr, cancelled, sinkGate, todo, seen, answer,
                   engine, history, spent>>

(* Streaming, disabling or deleting a pair waits for a restart. *)
Configure ==
    /\ pc[caller] = "idle"
    /\ Spend("changes")
    /\ \E p \in Pairs, row \in {"absent", "off", "feed"} :
           /\ row = "feed" => p \in Streamed
           /\ row # config[p]
           /\ config' = [config EXCEPT ![p] = row]
    /\ told' = "none"
    /\ UNCHANGED <<mgr, cancelled, queue, publisher, sinkGate, pc, hand, todo,
                   seen, answer, engine, shown, retired, adopted>>

(* Stop: no longer started; then the context and the connectors; then, done  *)
(* waiting, the state of the run.                                            *)
BeginStop ==
    /\ pc[caller] = "idle"
    /\ mgr.started /\ mgr.run < MaxRuns
    /\ Spend("stops")
    /\ mgr' = [mgr EXCEPT !.started = FALSE]
    /\ Goto(caller, "stop")
    /\ UNCHANGED <<config, cancelled, queue, publisher, sinkGate, hand, todo, seen,
                   answer, engine, history>>

(* A goroutine in a call of the engine, or waiting for an answer, goes on;    *)
(* every other one meets the cancelled context or the closed connector first. *)
CancelRun ==
    LET ended(w) == w[2] = mgr.run /\ pc[w] \notin {"sink", "acknowledge", "clear",
                                                  "cleared", "await"}
    IN
    /\ pc[caller] = "stop"
    /\ cancelled' = cancelled \cup {mgr.run}
    /\ pc' = [w \in Procs |-> IF w = caller THEN "stopped"
                              ELSE IF ended(w) THEN "off" ELSE pc[w]]
    /\ hand' = [w \in Procs |-> IF ended(w) THEN NoUpdate ELSE hand[w]]
    /\ todo' = [w \in Procs |-> IF ended(w) THEN {} ELSE todo[w]]
    /\ seen' = [seen EXCEPT ![mgr.run] = NotSeen]
    /\ queue' = [queue EXCEPT ![mgr.run] = <<>>]
    /\ publisher' = IF ended(publisher) THEN Free ELSE publisher
    /\ UNCHANGED <<config, mgr, sinkGate, answer, engine, history, spent>>

NoState(s) ==
    [s EXCEPT !.applied = [p \in Pairs |-> "off"],
              !.mark = [p \in Pairs |-> "none"],
              !.token = [p \in Pairs |-> 0],
              !.synthetic = {},
              !.revision = 0,
              !.clears = [p \in Pairs |-> NoClear],
              !.held = [p \in Pairs |-> 0],
              !.open = TRUE]

EndStop ==
    /\ pc[caller] = "stopped"
    /\ mgr' = NoState(mgr)
    /\ Goto(caller, "idle")
    /\ UNCHANGED <<config, cancelled, queue, publisher, sinkGate, hand, todo, seen,
                   answer, engine, history, spent>>

-----------------------------------------------------------------------------
(* Start, under the sink gate and the mutex *)

On(p) == IF Enabled(config[p]) THEN Source(config[p]) ELSE "off"

(* syntheticPairPlan *)
Plan == {p \in Pairs : config[p] # "absent" /\ config[Opposite[p]] = "absent"}

Stale == {q \in mgr.latest : On(q[2]) # q[1]}

(* reconcileQuoteRegistry: what a quote no source has any more left behind.  *)
ClearedWith(q) ==
    LET o == Opposite[q[2]] IN
    {x \in {q[2], o} :
        IF x = o THEN On(o) = "off" /\ ~(On(q[2]) # "off" /\ q[2] \in Plan)
        ELSE On(x) = "off"}

Reconciled(qs) ==
    [x \in Pairs |-> IF \E q \in qs : x \in ClearedWith(q) THEN Empty ELSE engine[x]]

(* The stream's quotes among those that a start leaves to another source. *)
Adopted(qs) ==
    {x \in Pairs : LET p == engine[x].of IN
        /\ engine[x].mark = "feed" /\ <<"feed", p>> \in qs
        /\ On(x) # "off" \/ On(p) # "off"}

(* MUTANT: a mark that keeps its price keeps its inverse. *)
InheritedUnwanted(s, old) ==
    [p \in Pairs |->
        IF p \in old.live /\ s.mark[p] \notin Marks
        THEN [token |-> IF s.mark[p] = "none" THEN s.last[p] + 1 ELSE s.token[p],
              direct |-> TRUE, inverse |-> p \in old.liveInverse]
        ELSE NoClear]

(* startupManualActionsLocked: clears of what the last run left, then marks. *)
Inherited(s, old) ==
    LET unwanted == {p \in old.live : s.mark[p] \notin Marks}
        derived == {p \in old.live \ unwanted :
                        p \in old.liveInverse /\ p \notin s.synthetic}
    IN [p \in Pairs |->
           CASE p \in unwanted ->
                    [token |-> IF s.mark[p] = "none" THEN s.last[p] + 1 ELSE s.token[p],
                     direct |-> TRUE, inverse |-> p \in old.liveInverse]
             [] p \in derived -> [token |-> s.token[p], direct |-> FALSE, inverse |-> TRUE]
             [] OTHER -> NoClear]

Applied(s) ==
    LET byo == {p \in Pairs : On(p) = "byo"}
        fresh == [s EXCEPT
                     !.started = TRUE,
                     !.run = @ + 1,
                     !.applied = [p \in Pairs |-> On(p)],
                     !.mark = [p \in Pairs |-> IF p \in byo THEN config[p] ELSE "none"],
                     !.token = [p \in Pairs |-> IF p \in byo THEN s.last[p] + 1 ELSE 0],
                     !.last = [p \in Pairs |-> IF p \in byo THEN @[p] + 1 ELSE @[p]],
                     !.synthetic = Plan \cap byo,
                     !.plan = Plan,
                     !.open = FALSE]
        clears == Inherited(fresh, s)
        priced == {p \in byo : config[p] \in Marks}
    IN [fresh EXCEPT
           !.clears = clears,
           !.held = [p \in Pairs |-> clears[p].token],
           !.last = [p \in Pairs |-> IF clears[p].token > @[p] THEN clears[p].token ELSE @[p]],
           !.live = @ \cup priced,
           !.liveInverse = @ \cup (priced \cap Plan)]

NewRun(s) ==
    LET next == Applied(s)
        byo == {p \in Pairs : On(p) = "byo"}
        clears == {p \in Pairs : next.clears[p] # NoClear}
        here(w) == w[2] = next.run
    IN
    /\ mgr' = next
    /\ todo' = [w \in Procs |->
           IF here(w) /\ w[1] = "startup"
           THEN {Clear(p, next.clears[p], next.run) : p \in clears} \cup
                {Quote(p, config[p], next.token[p], next.run) :
                    p \in {q \in byo : config[q] \in Marks}}
           ELSE todo[w]]
    /\ pc' = [w \in Procs |->
           IF ~here(w) THEN pc[w]
           ELSE CASE w[1] = "startup" -> "startup"
                  [] w[1] = "drain" /\ byo # {} -> "recv"
                  [] w[1] = "feed" /\ (\E p \in Pairs : On(p) = "feed") -> "recv"
                  [] w[1] = "refresh" /\ byo \cup clears # {} -> "tick"
                  [] OTHER -> pc[w]]

CanStart ==
    /\ pc[caller] = "idle"
    /\ ~mgr.started /\ mgr.run < MaxRuns
    /\ sinkGate = Free

Start ==
    /\ CanStart
    /\ engine' = Reconciled(Stale)
    /\ adopted' = adopted \cup Adopted(Stale)
    /\ NewRun([mgr EXCEPT !.latest = @ \ Stale])
    /\ UNCHANGED <<config, cancelled, queue, publisher, sinkGate, hand, seen,
                   answer, shown, told, retired, spent>>

(* The engine does not know an asset any more, or fails: after the clear of  *)
(* the pair itself, if only the clear of its inverse does.                   *)
Interrupted(qs, q) ==
    {Reconciled(qs)} \cup
    IF ClearedWith(q) = {q[2], Opposite[q[2]]}
    THEN {[Reconciled(qs) EXCEPT ![q[2]] = Empty]}
    ELSE {}

StartUnknownAsset ==
    /\ CanStart
    /\ Fault
    /\ \E q \in {r \in Stale : ClearedWith(r) # {}} :
           /\ engine' \in Interrupted(Stale \ {q}, q)
           /\ NewRun([(IF q[1] = "byo" THEN Retire(mgr, q[2]) ELSE mgr)
                         EXCEPT !.latest = @ \ Stale])
           /\ retired' = retired \cup {q[2]}
    /\ adopted' = adopted \cup Adopted(Stale)
    /\ UNCHANGED <<config, cancelled, queue, publisher, sinkGate, hand, seen,
                   answer, shown, told>>

StartFails ==
    /\ CanStart
    /\ Fault
    /\ \E done \in SUBSET Stale : \E q \in Stale \ done :
           /\ ClearedWith(q) # {}
           /\ engine' \in Interrupted(done, q)
           /\ mgr' = [mgr EXCEPT !.latest = @ \ done]
           /\ adopted' = adopted \cup Adopted(done)
    /\ UNCHANGED <<config, cancelled, queue, publisher, sinkGate, pc, hand, todo, seen,
                   answer, shown, told, retired>>

-----------------------------------------------------------------------------
Init ==
    /\ config \in Saved
    /\ mgr = [started |-> FALSE, run |-> 0, revision |-> 0, open |-> TRUE,
              applied |-> [p \in Pairs |-> "off"],
              mark |-> [p \in Pairs |-> "none"],
              token |-> [p \in Pairs |-> 0],
              last |-> [p \in Pairs |-> 0],
              held |-> [p \in Pairs |-> 0],
              clears |-> [p \in Pairs |-> NoClear],
              synthetic |-> {}, plan |-> {}, live |-> {}, liveInverse |-> {},
              latest |-> {}]
    /\ cancelled = {}
    /\ queue = [r \in Runs |-> <<>>]
    /\ publisher = Free
    /\ sinkGate = Free
    /\ pc = [w \in Procs |-> IF w = caller THEN "idle" ELSE "off"]
    /\ hand = [w \in Procs |-> NoUpdate]
    /\ todo = [w \in Procs |-> {}]
    /\ seen = [r \in Runs |-> NotSeen]
    /\ answer = "none"
    /\ engine = [p \in Pairs |-> Empty]
    /\ shown = [p \in Pairs |-> 0]
    /\ told = "none"
    /\ retired = {}
    /\ adopted = {}
    /\ spent = [prices |-> 0, changes |-> 0, faults |-> 0, stops |-> 0]

Drain(w) ==
    \/ Receive(w) \/ Offer(w) \/ Admit(w) \/ AdmitClear(w)
    \/ Push(w) \/ Acknowledge(w)

ManualClear(w) == ClearEngine(w) \/ CompleteClear(w)

Publisher(w) == Publish(w) \/ Await(w)

Startup(w) == BeginStartup(w) \/ StartupClears(w)

Refresh(w) ==
    \/ BeginRefresh(w) \/ Retry(w) \/ ReadRows(w) \/ PlanRefresh(w)

ControlPlane ==
    \/ SetPrice \/ PushManual \/ PushManualTooLate \/ FinishPush \/ Configure
    \/ BeginStop \/ CancelRun \/ EndStop
    \/ Start \/ StartUnknownAsset \/ StartFails

Next ==
    \/ ControlPlane
    \/ \E w \in Procs :
           Drain(w) \/ ManualClear(w) \/ Publisher(w) \/ Startup(w) \/ Refresh(w)

Spec == Init /\ [][Next]_vars

-----------------------------------------------------------------------------
(* Properties *)

Tokens == Nat
Updates == [pair : Pairs \cup {"none"}, run : 0 .. MaxRuns, token : Tokens,
            mark : {"none", "blank", "feed"} \cup Marks,
            direct : BOOLEAN, inverse : BOOLEAN]

(* Every variable holds the kind of value its Go counterpart has. *)
TypeOK ==
    /\ config \in [Pairs -> Rows]
    /\ mgr.run \in 0 .. MaxRuns
    /\ mgr.applied \in [Pairs -> {"off", "byo", "feed"}]
    /\ mgr.token \in [Pairs -> Tokens]
    /\ mgr.live \subseteq Pairs /\ mgr.liveInverse \subseteq Pairs
    /\ mgr.latest \subseteq {"byo", "feed"} \X Pairs
    /\ cancelled \subseteq Runs
    /\ \A r \in Runs : Len(queue[r]) <= 1
    /\ \A w \in Procs :
           publisher = w => pc[w] \in {"clears", "retry", "clear", "cleared",
                                      "publish", "push", "await"}
    /\ \A w \in Procs :
           pc[w] \in {"sink", "acknowledge", "clear", "cleared"} <=> sinkGate = w
    /\ hand \in [Procs -> Updates]
    /\ \A w \in Procs : todo[w] \subseteq Updates
    /\ \A p \in Pairs : engine[p].of \in {"none", p, Opposite[p]}

(* Where the quote of x came from a manual mark, the manager still knows that *)
(* the mark may be live there: a restart or a clear will find it.             *)
LiveIsTracked ==
    \A x \in Pairs : LET p == engine[x].of IN
        engine[x].mark \in Marks /\ p \notin retired =>
            p \in IF x = p THEN mgr.live ELSE mgr.liveInverse

(* The marks and clears of a pair reach the engine in the order of their      *)
(* tokens, whichever goroutine of whichever run carries them.                 *)
MarksInOrder == [][\A p \in Pairs : shown'[p] >= shown[p]]_vars

(* A quote published in this run is removed only by a clear of the manual     *)
(* mark it is: a clear inherited from the last run, or one retried, takes no  *)
(* quote of the stream and none of the inverse pair with it.                  *)
ClearsOwnQuote ==
    [][\A x \in Pairs :
          mgr.started /\ engine[x].run = mgr.run /\ engine[x].mark # "none" /\ engine'[x] = Empty
          => /\ engine[x].mark \in Marks
             /\ \E w \in Procs : pc[w] = "clear" /\ hand[w].pair = engine[x].of]_vars

(* PushManual answers that a pair is cleared only when its mark is gone from  *)
(* the engine, the derived one too.                                           *)
ClearAnswerTrue ==
    \A x \in Pairs :
        engine[x].of = told /\ engine[x].mark \in Marks => told \in retired

(* Once a run holds its quotes back no more, what an earlier run left is a    *)
(* mark of a pair that the operator still sets, or its inverse if that is     *)
(* still derived, or a stream's quote whose pair or inverse still has a       *)
(* source, or had one when a start took its stream away.                      *)
NothingOutlivesItsPair ==
    mgr.started /\ mgr.open =>
        \A x \in Pairs : LET p == engine[x].of IN
            engine[x].mark # "none" /\ engine[x].run < mgr.run /\ p \notin retired =>
                IF engine[x].mark = "feed"
                THEN mgr.applied[x] # "off" \/ mgr.applied[p] # "off" \/ x \in adopted
                ELSE mgr.mark[p] # "none" /\ (x = p \/ p \in mgr.synthetic)

=============================================================================
