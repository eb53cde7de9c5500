# Pit Officer in TLA+

Models, model-checking configurations and machine-checked proofs for Pit Officer
(`go.openpit.dev/officer`), the service that keeps trading accounts, limits and
orders in front of the OpenPit risk engine and, optionally, sends held orders to a
venue. The models are written from the Go source; line numbers of what each
definition stands for are in `PROJECT.json` under `map`.

## 1. The system

| component (directory) | state it keeps | operations | talks to | what makes it correct |
|---|---|---|---|---|
| trading runtime (`framework/trading`: `runtime.go`, `reconcile.go`) | one serial worker per connection with an in-memory retry set, a "listing failed" flag and a fee cursor; durable state is in the store | `Send`, `PreCheck`, `Start`, `Stop`, `Restart`, stream events, retry ticker | venue through `Connector`; store; node through the report sink | an order is sent at most once; venue executions are booked once and in order; an order is closed only when the venue is done; what was sent is eventually settled |
| venue fees (`framework/trading/fees.go`) | cursor per worker, reported skips per runtime | hourly and on reconnect: read pages, adjust, report | `FeeReader`, adjustment sink, audit sink | a fee is charged once, never passed over silently |
| venue-link store (`internal/store/sqlite/trading.go`) | `venue_orders` rows, connections, grants, fee accounts | create, mark, acknowledge, delete, list, find | SQL | one link per order; marks are permanent |
| node orders and reports (`framework/node/local_orders.go`, `local_execution.go`, `local_trading.go`) | none of its own | submit, report, close, confirm, cancel, amend | engine, store, account lanes | the store and the engine tell the same story about an order; reports are idempotent |
| node lane gate and engine rebuild (`framework/node/local.go`) | `laneGate`, `mutate`, `restarting`, the engine handle | lanes, mutations, live configuration, rebuild | engine, store, market data | nobody acts on an engine that is being replaced; no deadlock |
| node dictionary and limits (`local_accounts.go`, `local_groups.go`, `local_limits.go`, ...) | none of its own | accounts, groups, limits, currency, assets, adjustments | engine, store | store and engine agree after a failure of either |
| engine adapter (`engine/`) | handles of the native engine | pre-trade, reports, adjustments, configuration | OpenPit library | outside this repository |
| control plane (`framework/backend`) | approval policy | everything the surfaces offer | node, runtime, market data, signer | a caller is told what happened |
| market data (`framework/marketdata`) | run generation, connectors, manual marks with tokens, sink gate | start, stop, push and clear marks, refresh, drain | connectors, engine sink | a stale quote never reaches the engine |
| market-data and venue connectors (`internal/marketdata`, `internal/trading`) | sockets, backoff | connect, subscribe, send, look up | venues | every reconnect is announced |
| panel access (`internal/access`) | access mode, password, sessions, tokens, recovery code | set-up, sign in and out, recover, rotate | store, audit | an ended session stays ended; codes are single-use and rate limited |
| stores, schema, backup, signing, secrets, health, MCP and HTTP surfaces, application wiring, panel UI | files, tables | transport and persistence | all | mostly sequential code with its own tests |

How they interact on the path that matters most: a caller of the control plane holds
an order in the node (the engine reserves funds, the store keeps the order), then
hands it to the runtime; a worker links it, claims it through the node like any
execution report, marks it, and calls the venue. Stream events, a ticker and a restart
drive reconciliation, whose results go back through the node's report path, where they
meet operator requests in the order's account lane.

Hard behaviours: two callers and an operator racing for an order; process death
between any two durable steps; a venue whose answer is lost and whose stream drops,
repeats and reorders; failures of single store operations; the retry set being lost;
a caller giving up while its order is being sent. `PROJECT.json` lists each at its
line under `hazards` with the properties that cover it.

## 2. Modules

| module | role |
|---|---|
| `TradingRuntime` | the durable send protocol: callers, workers, store, venue, operators, crashes |
| `OrderDelivery` | what the protocol promises per order, without its mechanism |
| `MCTradingRuntime` | small instances for TLC |
| `TradingRuntimeProofs` | proofs: types, and at most one send per order |
| `TradingFenceProofs` | proofs: what a failed call leaves, what the claim fences, what is final |
| `TradingDeliveryProofs` | proofs: books, terminal barrier, refinement of `OrderDelivery` |
| `TradingAnswerProofs` | proofs: what callers are told, what stays on the retry set |
| `FeeIntake` | venue fees: the worker's passes, the operators who change whom they charge, restarts |
| `MCFeeIntake` | small instances for TLC |
| `FeeIntakeProofs` | its theorems and their proofs |
| `LaneGate` | the node's locks, what its requests change in store and engine, and how each failure is repaired |
| `MCLaneGate` | small instances for TLC |
| `LaneGateProofs` | its theorems and their proofs |
| `ManualMarks` | the market-data manager: marks of an operator, streams, restarts, and the quotes they leave in the engine |
| `MCManualMarks` | a small instance for TLC |
| `ManualMarksProofs` | its theorems and their proofs |
| `PanelAccess` | modes, sessions, sign-in, recovery codes and tokens of the panel |
| `MCPanelAccess` | small instances for TLC |
| `PanelAccessProofs` | its theorems and their proofs |

### 2.1 TradingRuntime

State and code:

| variables | code |
|---|---|
| `status`, `trades`, `touched`, `confirmed` | the order row, its trades, and whether a report, cancel or confirmation that is not the runtime's was stored |
| `claimed`, `closed`, `booked` | stored execution reports `trading:<id>:claim`, `:done`, `:fill:<cumulative>` |
| `link`, `attempted`, `acked`, `aged` | the `venue_orders` row: its client order id, `send_attempted`, venue order id, and whether `created_at` is older than `missingOrderGrace` |
| `venue`, `executed` | the venue: what became of the request, how much it executed |
| `phase`, `pc`, `job`, `seen`, `snap` | is the runtime started; the worker goroutine's control point and the local variables it keeps across steps (`officerCum`, `snapshot`) |
| `pending`, `relist`, `queue` | `worker.pending`, `reconcileAllPending`, and the rest of the loop over ids |
| `caller`, `result`, `answer` | `Service.sendOrder` waiting, the task result, `VenueSend.Status` |
| `lane` | the operator request that passed its checks and has not stored its effect |
| `sends` | history: calls of `Connector.Send` per order |
| `faults`, `crashes`, `ops` | bounds |

Actions and code: `Check`, `CreateLink`, `Claim`, `Recheck`, `Unlink`, `Mark`,
`Issue`, `Await`, `Acknowledge`, `Refuse` are `worker.send` cut at each durable
effect, because a crash, a caller giving up or another worker can come between;
`Scan`, `Read`, `Discard`, `Lookup`, `Apply`, `Close` are `worker.reconcile` with
`finishAttempt`; `Connected`, `OrderEvent`, `FillEvent`, `Tick`, `HandOff`, `Exit` are
the cases of the worker's `select`; `Offer`, `RefuseEarly`, `Abandon`, `Return`,
`Verify`, `CancelUnsent` are `Service.sendOrder` and `Runtime.submit`; `OpEnter` and
`OpStore` are an operator's report, close, confirm or cancel, checked when it enters
the account lane and stored when it leaves; `Stop`, `Start` and `Crash` are the life
cycle, `Age` and `VenueStep` time and the venue.

Choices worth a word:

- A `Send` call mints one client order id, so the call, its id and the venue order
  that may come of it share one name.
- An execution is one unit, so "the fill with cumulative k" names a fill.
- The stream is unreliable by construction: `OrderEvent` and `FillEvent` may fire for
  anything the venue ever had a cause to report, in any order, any number of times or
  never.
- A report the worker sends through the sink is one step: it is one lane turn in the
  node, and its store transaction is atomic.
- A link read by a pass is not re-read while the pass handles it, as in the code; no
  other goroutine of the process changes the rows of the worker's connection.
- `Connector.Send` may return "unknown" whatever the venue did, and the runtime never
  waits for the truth.
- `TimelySend`: a request reaches the venue or is lost before the link's two-minute
  grace runs out. The code measures the grace from the creation of the link and bounds
  `Connector.Send` by a much shorter timeout; an order that reached the venue later
  than that would be closed while it is live. All runs assume it, and the hazard list
  names it. Of the theorems only `ClosedOnlyWhenDone` and `ImplementsDelivery` do.
- A replaced venue order is logged and left to the operator, so liveness excludes it.

Left out of this module: `PreCheck` tasks, diagnostics, `Force` reports, changing or
disabling a connection while running, workers that failed to open, and venue fees
(`FeeIntake` models those).

### 2.2 OrderDelivery

Five variables per order: what Officer shows, whether the venue was asked, whether it
may still execute, what it executed, what was booked. The venue is asked at most once
and only while the order is open; executions are booked in order, while it is open; it
closes only when the venue is done and the books agree. `TradingRuntime!Delivery`
gives the refinement mapping; it relies on the link of an asked order never being
replaced, which `SendInv` states.

### 2.3 FeeIntake

| variables | code |
|---|---|
| `row`, `owner` | the adjustment stored under `trading:<connection>:fee:<fee id>` and its account |
| `accounts`, `members`, `grants`, `feeAccount` | accounts, the members of a group that may be granted, `trading_access`, `trading_connection.fee_account_id` |
| `mapped` | whether the fees' venue assets map to one Officer asset each |
| `posted` | how many fees the venue has posted, in its order |
| `up`, `skipped` | is the runtime not stopping; `Runtime.feeSkips` |
| `pc`, `cursor`, `last`, `more`, `target` | the pass: its control point, `worker.feeCursor`, the last fee of the page, whether a next token came, the account read at its start |
| `debits`, `released`, `reports` | history: debits of a fee on existing accounts, fees whose row went with a deleted account, skip reports of this process |

`BeginPass`, `ReadPage`, `ReadPartly`, `PageDone`, `Look`, `Skip`, `SkipFails` and
`GiveUp` are `intakeFees`, `intakeFee` and `reportFeeSkip` cut where another goroutine
can come between; `Adjust`, `Book`, `BookFails` and `Collide` are the node's
`ApplyAdjustment`: its early checks, its turn in the account's lane, its failures, and
the case where the store refuses a row the engine has already applied, which must end
the process. `Stop`, `Exit`, `Start` and `Crash` are `Runtime.Restart` and process
death; a restart keeps `skipped` and loses `cursor`, a death loses both. `SetFeeAccount`
to `BookByHand` are operator requests: those that write grants hold the node's mutation
lock from their reads to their write, so each is one step; `BookByHand` is an adjustment
an operator makes under a fee's id, which the code allows to an unrestricted caller
(`domain/limits.go`, `AdjustmentIDOutsideTradingRuntime`).

Abstracted: amounts, assets (one flag for all) and the reason of a skip. Left out: fees
without an id, which end every pass where they stand (the connector of this repository
never hands one over); a connection without any venue order, whose fees are not read;
the start of the replay moving when the earliest venue order is deleted with its account;
a restart that fails and leaves the runtime stopped.

Two properties are weaker than one might expect, because the code is. A fee whose skip
was reported is booked only when a restart replays it, so `ReadyFeesBooked` asks for the
fee account and the mapping to be in place before a pass starts and the fee not to be
passed. A fee whose row is found between look-up and adjustment counts as booked even if
the row is a rejection (`ErrAlreadyExists`, `fees.go:141`), so `CursorCovers` asks for a
row or a report, not for a debit or a report.

### 2.4 LaneGate

What the node keeps is held twice, in the store and in the current engine. A request
has two facts, an alias in the resolver and a piece of state, each of which the store
and the engine hold or not; what its handler does to accounts, groups, limits or blocks
is which facts it adds or removes, on which side first, and what it does when the other
side fails.

| variables | code |
|---|---|
| `store`, `engine`, `build` | rows, what the engine holds, the number of the current engine handle |
| `gate`, `mutate`, `restarting` | `localNode.laneGate`, `mutate`, `restarting` |
| `deferred` | the requests with `endEngineRestart` deferred |
| `op`, `pc`, `lane`, `snap` | the request, its control point, the engine it got with its lane, the facts it built a new engine from |
| `fatal`, `told` | the fail-stop hook was called; history: requests answered retry-unsafe |

`LaneEnter` to `Release` are `beginLane`, `beginMutation`, `beginFencedMutation`,
`beginEngineRestart`, the upgrade of a lane to a restart, and their ends; the lock is
Go's `RWMutex`, in which a waiting writer keeps new readers out. `Apply`, `Persist`,
`Audit` are the requests that change the engine first, inside a lane; `Commit`,
`Publish`, `Undo`, `Initial`, `Compensate`, `Configure`, `Revert` those that change the
store first; `Build` to `LastRebuild` the engine rebuild; `Classify` to `Unapply` the
restore of a backup while the node runs; `ResetDatabase` and `Exit` themselves. Every
step that can fail may.

The handlers of one shape are one operation: `block` stands for every chain on one
account, `limit` for every limit that is configured live, `note` for every request that
only writes the store under the mutation lock. `SetGroupCurrency` and
`SetAccountCurrency` return a retry-unsafe error without repairing anything, which the
properties allow since the caller is told. Blocking an unknown account is `autoCreate`
and then `block`. One known weak point is named in the hazards: `local_accounts.go:508`.
`DivergenceIsTold` excepts `CreateAccount`, of which the run `lane_create` shows why
(section 4).

### 2.5 ManualMarks

Two sources, one bring-your-own and one streaming, with at most one row per pair; the
inverse of a pair that has no row of its own gets the derived quote.

| variables | code |
|---|---|
| `config` | the instruments of the store |
| `mgr` | `Manager`: run, applied rows, manual states with their tokens, live quotes, pending clears, the barrier |
| `cancelled`, `queue` | contexts of ended runs; the channel of the manual connector, of capacity one |
| `publisher`, `sinkGate` | the two gates |
| `pc`, `hand`, `todo`, `seen`, `answer` | the goroutines of each run (drain of either source, start-up actions, refresh) and the caller of the control plane |
| `engine` | the quote of each pair, the pair it comes from and the run that pushed it |
| `shown`, `told`, `retired`, `adopted` | history: the token last shown, the pair a caller was told is cleared, pairs the engine refused as unknown, pairs whose quote a start left to another source |

`SetPrice`, `PushManual`, `Configure`, `Start`, `BeginStop` and so on are the control
plane under `marketDataMu`; `Receive` to `Acknowledge` the drain, `ClearEngine` and
`CompleteClear` `applyManualClear`; `BeginRefresh` to `PlanRefresh` the refresh;
`StartupClears` and `Publish` what a new run does before it opens the barrier.
`Stop` waits for its goroutines no longer than a grace, so a call into the engine may
still be under way when the next run starts.

Reductions: taking a gate and the check that follows are one step; cancelling a run ends
at once those of its goroutines that are in no engine call and no wait, since whatever
they would do next meets the cancelled context; the publisher gives its gate back with
its last push; tokens are counted per pair, as only tokens of one pair are compared.
A pair the engine calls unknown is `retired` and exempt, as `manager.go` documents that
a stale quote may remain. Two things the properties do not ask, because the code does
not do them and no comment says it does. A pair that was streamed and is now manual
without a price keeps the last quote of the stream until it expires in the engine: the
start forgets the stream's identity and clears nothing, since the pair or its inverse
has another source (`manager.go:426-446`), so removing that source too, in a third run,
clears nothing either; `adopted` remembers such a quote. A streamed pair keeps its
derived quote when the inverse gets a row that is disabled. And a mark that lost its
price in a refresh while the clear of its derived quote was still to be retried waits
for the refresh after that (`manager.go:1865-1870`): the row is then without a price
while the mark stands, which `NothingOutlivesItsPair` allows. Liveness of marks is not
checked.

`RefreshRow` is the refresh of one row and `Refreshed` that of all of them. A row
changes what is kept for its own pair, so `Refreshed` is written pair by pair; the one
thing the rows share is the barrier, which opens when the last held clear is resolved.

### 2.6 PanelAccess

| variables | code |
|---|---|
| `db` | `access_state`, `access_credential`, `panel_session`, and the setup decisions other components store |
| `snapshot`, `accessMu` | the store's published mode and tokens, and the mutex that orders them |
| `mu`, `signIn`, `recovery` | `Service.mu`, the sign-in delay, the recovery code |
| `call` | a request: what it does, where it is, when it started, the password or session it presented |
| `printed` | history: when this process printed a code, and whether token mode was enabled since |

A request that takes `mu` starts with its mode check (`SignIn`, `ChangePassword`,
`RequestRecovery`, ...), reads and compares the password (`PasswordMatches`,
`PasswordRefused`), writes in one transaction that reads the stored mode first (`Write`,
or `Commit` and `Publish` where the snapshot changes), and writes its audit entries
(`Audit`), whose failure changes nothing. `ReadSession` and `CheckSession` are the check
of a session, which takes no lock: a sign-out, a password change or a reset of the
database can come between. `ResetCommits` and `ResetPublishes` are the store's `Reset`,
which goes past the service and takes `accessMu` alone; `Restart` loses what is in
memory.

Passwords, tokens and sessions are numbers drawn from one counter; a person types the
current password or a wrong one. Time is a clock of a few moments. Both kinds of token
are one. A sign-out and a decision of setup, which hold `mu` for one store call, are one
step; so are the mode check and the row read of a session check. A reset is refused
during setup, and only one is ever in flight: a second one, admitted before setup and
carried out while setup is being completed, could take the decisions away between the
check and the write that completes it (`setup.go:132-164`), since that write requires
setup mode but not the decisions. The model does not show this.

## 3. What is checked

Each run has failures (`MaxFaults`: store or sink operations that fail without
effect), process deaths or stops (`MaxCrashes`) and operator requests (`MaxOps`).

| run | instance | question | properties |
|---|---|---|---|
| `lone_send` | 1 order, 1 connection, 1 call, 2 units, 2 faults, 2 crashes, 1 operator request | is what Officer books what the venue did, whatever fails | `TypeOK`, `NotSentMeansNotSent`, `BookedIsVenuePrefix`, `TerminalBarrier`, `Delivers` |
| `rival_sends` | 1 order, 2 connections, 2 calls, 1 unit, 1 fault, 1 crash, 1 operator request | who wins when two calls and an operator want one order, and what is each told | `OneSend`, `SendInv`, `RefusedMeansNoVenueOrder`, `ClaimFence`, `FinishedStaysFinished` |
| `twin_orders` | 2 orders on 1 connection, 1 fault | is one order's work lost to the other's | `NothingForgotten` |
| `settles` | 1 order, 2 units, 1 fault, 1 crash, 1 operator request, no fairness for the stream | does the ticker alone settle what a send left open, and is every caller answered | `UnknownSendsResolve`, `UnsentLinksResolve`, `CallersAnswered` |
| `reconnects` | as `settles`, with reconnects | does every order the venue is done with finish in Officer | `SendsResolve` |
| `fee_books` | 3 fees (one not applicable), pages of 2, 2 accounts and a group, 1 failure, 1 restart or crash, 2 operator requests | is every fee debited once, none passed silently, none reported twice, its account never a choice; is every fee settled, and booked where it can be | `TypeOK`, `ChargedOnce`, `CursorCovers`, `SkipReportedOnce`, `OneFeeTarget`, `FeeInv`, `FeesSettle`, `ReadyFeesBooked` |
| `lane_gate` | two administrative requests of any two kinds and an order, every step failing or not | do store and engine agree, or is the caller told, whoever rebuilds the engine meanwhile | `TypeOK`, `LaneOnLiveEngine`, `OneRestartOwner`, `DivergenceIsTold`, `LaneSeesWhole`, `NoAdmissionIntoDoubt` |
| `lane_progress` | endless orders, a block that upgrades its lane or a restore, and a block, limit mode, delete or store-only request | do the locks let everyone through | `EveryRequestAnswered` |
| `lane_create` | one account creation and an order | expected violation, see section 4 | `CreateSettles` |
| `manual_marks` | a pair and its inverse, one price, up to 3 runs; a mark set and cleared, another change of the configuration, a failing call, two of these together | does the engine show the last mark, and nothing nobody tracks, across a restart | `TypeOK`, `LiveIsTracked`, `ClearAnswerTrue`, `NothingOutlivesItsPair`, `MarksInOrder`, `ClearsOwnQuote` |
| `panel_access` | 2 requests, 5 moments, 3 credentials, 2 wrong codes burn one, 1 failing write, 1 restart or reset | does anything outlive the credential it came from; do codes keep their distance | `OldCredentialsEnd`, `CodeOfThePassword`, `EndedStaysEnded`, `CodesSpaced` |
| `panel_codes` | 1 request at a time, no failure, no restart | expected violation, see section 4 | `OneCodeAMinute` |

Why the bounds are enough to be interesting: two units give a partial fill, a gap and a
reordering; two crashes put one in the middle of the recovery from the other; two
faults make a compensation fail (the claim and then the delete of its link); two calls
for an order meet in every pair of control points of two workers. One unit in
`rival_sends` keeps two workers affordable; fills are the subject of `lone_send`.
For fees, two requests make a fee account change hands around one restart, and pages of
two with three fees give a full page and a short one; longer sequences of requests are
covered by the theorems, which hold for every bound. Two requests and an order put each
kind of engine rebuild against each kind of change. Two runs of the manager are what
meets at a restart, and a third finds what the second forgot. For the panel, the times are in the order of the code's (a touch
before the interval between codes, a code's life, the idle time, a session's life), and
five moments are enough for each to run out; three credentials are the one a database
starts with and two more, so a change can be followed by another or by a sign-in.
Deadlock is checked in every run but `manual_marks`, where a stopped manager whose
budget is spent has nothing left to do.

Fairness (`Fairness`): the worker goroutine keeps running (weak, per worker); its
`select` serves a ready case again and again, so the ticker and hand-off get their turn
(strong, as they compete with stream events); a caller's own steps, lane turns, time
and requests on the wire progress; the supervisor restarts a dead process. Nothing is
assumed of the stream in `settles`. `StreamSpec` adds that a stream reconnects and says
so, which `connector.go` requires of `Subscribe` ("Every (re)connect emits
EventConnected"): an acknowledged order whose later events are lost is looked at again
only then, since acknowledgement takes it off the retry set.

In `FeeIntake` the worker's goroutine keeps running and its hourly tick comes (weak
fairness of its pass), and a restart or the end of the process goes through.

In `LaneGate` every step of a request is strongly fair: goroutines run, and Go's
mutexes hand over to a waiter that starves, so who waits for a lock gets it if it comes
free again and again; new requests are not assumed to come.

Every property has a mutant in `PROJECT.json`: an operator next to the original whose
name ends in `_Bug` (or names the mistake) and that makes TLC refute the property.

## 4. Where code and comments disagree

`lane_create`: `CreateAccount` does not repair an account whose first engine chain was
cancelled before any engine call (`local_accounts.go:115`), although the comment at
`:118` says that a failed initial mutation is reconciled by deleting the row and
rebuilding. The store then has state the engine has not, and the error does not say so.

`panel_codes`: `docs/configuration.md:101` and the comment at `service.go:442` promise
at most one recovery code a minute. Enabling token mode forgets when the last code was
issued (`service.go:638`), so a panel taken through open mode and back prints a second
one at once, which a test asks for (`service_test.go:1133`). `CodesSpaced` is the
promise the code keeps: one code a minute while token mode stays.

## 5. What is proved

Every safety property of the passing runs is a theorem, for every value of the
constants. The two that are expected to fail are not, and liveness stays with TLC.

### 5.1 TradingRuntime

Four modules, each on top of the one before, prove, for all orders, connections, calls,
quantities and bounds, from `CallsAssumption` (a call has one order and one connection;
`NoCall` is no call) and `BoundsAssumption` (types of the bounds):

| module | theorem | statement |
|---|---|---|
| `TradingRuntimeProofs` | `TypeCorrect` | `Spec => []TypeOK` |
| | `SendInvHolds` | `Spec => []SendInv` |
| | `AtMostOneSend` | `Spec => []OneSend` |
| `TradingFenceProofs` | `NotSentLeavesNothing` | `Spec => []NotSentMeansNotSent` |
| | `ClaimFences` | `Spec => []ClaimFence` |
| | `FinishedIsFinal` | `Spec => FinishedStaysFinished` |
| `TradingDeliveryProofs` | `BooksMatchVenue` | `Spec => []BookedIsVenuePrefix` |
| | `ClosedOnlyWhenDone` | `Spec => []TerminalBarrier`, if `TimelySend` |
| | `ImplementsDelivery` | `Spec => Delivers`, if `TimelySend` |
| `TradingAnswerProofs` | `RefusedIsTrue` | `Spec => []RefusedMeansNoVenueOrder` |
| | `NoneForgotten` | `Spec => []NothingForgotten` |

`OneSend` alone is not inductive: nothing in it says why a worker that is about to call
the venue could not do so twice. `SendInv` adds the chain of reasons: the link names a
call of its own order; a worker is busy with a call of its own connection, so no two
workers hold the same call (`OneHolder`); a marked link stays; a worker that may mark or
delete a link holds an unmarked one; a worker about to send holds the marked link of an
order that was never sent; a sent order has a marked link. The proof goes in two
layers: `NextWork` shows that every action keeps the ownership facts, with the actions
grouped by what they change, and `NextMark` that it keeps the marking facts, where
`HarmlessKeepsMarks` disposes of the actions that touch neither links, marks, sends nor
control points of a send.

The later properties are invariants of their own layers, each inductive given the layers
before it, with one step of the proof per action:

- `CallInv`: how much a call can have left behind, by how far it came. A call offered,
  handed over or being checked left no trace, so the error paths that answer
  `ErrNotSent` (before the link, or after the link was deleted again) have nothing to
  leave; the venue knows only what was marked.
- `FenceInv`: a mark comes after a stored claim; a request in a lane found its order
  open, and the order stays so; and an order about to be marked or sent is as its worker
  re-read it (`ReadyToSend`). The last needs `ClaimFence`, and `ClaimFence` needs that
  the claim itself waited for the lane.
- `BooksInv`: a snapshot in a worker's hands is a state the venue order had, and final
  if it says so; what the worker read of the trades is at most what is stored; fills are
  booked for marked calls only. `BookedIsVenuePrefix` is not inductive without them:
  a pass that applied an older snapshot over a newer one would repeat an execution.
- `BarrierInv`: why an order closes over complete books. It is the layer that needs
  `TimelySend`: a link unknown at the venue after its grace is settled as never placed,
  and a request that landed later would be live behind a closed order. No state of the
  other theorems depends on that.
- `ImplementsDelivery` maps the first state and every action of the runtime to a step or
  a stutter of `OrderDelivery`. The marked link is what the abstract order is read from,
  and `SendInv` says it is never replaced.
- `AnswerInv`: a caller that verifies a refusal was refused by the venue, an order with
  trades has a report that says where from, and the caller's own cancel is in the lane
  of an order without trades. So "refused" is told only of what has no venue order.
- `RetryInv`: from the mark on the retry ticker knows the send (`MarkedIsPending`); a
  pass takes a link off the retry set only once the venue order id is stored
  (`AppliedIsAcked`) or the order is finished (`ClosedIsTerminal`). A start of the
  runtime, which lost the retry set, looks at every open link.

### 5.2 FeeIntake

`FeeIntakeProofs` proves, for all accounts, fees, page sizes and bounds, from
`FeeAssumption` (the fees are numbered, a page is not empty, the group and "no account"
are no accounts) and `LimitAssumption` (types of the bounds):

| theorem | statement |
|---|---|
| `FeeTypeCorrect` | `Spec => []TypeOK` |
| `FeeInvHolds` | `Spec => []FeeInv` |
| `FeesChargedOnce` | `Spec => []ChargedOnce` |
| `NoFeePassedSilently` | `Spec => []CursorCovers` |
| `SkipsReportedOnce` | `Spec => []SkipReportedOnce` |
| `FeeTargetUnique` | `Spec => []OneFeeTarget` |

`FeeInv` is inductive: `Bounds` keeps the cursor within what was posted; `Ledger` ties
debits to accepted rows (a row is written only where none is, in one transaction with the
debit) and reports to what the runtime remembers. The proof has one step per action;
`QuietPass` disposes of the steps of a pass that finish no fee.

### 5.3 LaneGate

`LaneGateProofs` proves, for every set of requests, from `GateAssumption` (no request is
`NoRequest`; each request has the operations it may be):

| theorem | statement |
|---|---|
| `GateInvHolds` | `Spec => []GateInv` |
| `TypeCorrect` | `Spec => []TypeOK` |
| `RestartOwned` | `Spec => []OneRestartOwner` |
| `LanesAreLive` | `Spec => []LaneOnLiveEngine` |
| `DoubtAdmitsNone` | `Spec => NoAdmissionIntoDoubt` |
| `CopiesInvHolds` | `Spec => []CopiesInv` |
| `DivergenceTold` | `Spec => []DivergenceIsTold` |
| `LanesSeeWhole` | `Spec => []LaneSeesWhole` |

`GateInv` is about the locks alone. A request is at a step its handler has (`EachFits`);
from the step at which it announces itself it is the gate's writer (`OwnersWrite`) and
past its wait it has no reader beside it (`WriterAlone`), while who is in a lane is a
reader (`LanesRead`). Hence whoever replaces the engine does so with no lane open
(`OwnerAlone`). The steps fall into work between locks, steps of the locks and answers
(`StepKinds`), and `WorkKeepsGate`, `LockKeepsGate` and `ExitKeepsGate` take one each.

`CopiesInv` is about the two copies of the state. `DivergenceIsTold` speaks only of
requests that have returned; `Stage` says, for each step of each handler, what it relies
on in the store and in the engine: a chain about to be stored is in the engine as a
whole, a change about to be published is in the store as a whole, a change about to be
taken back is not in the engine. `NewBefore` is what makes a rollback right: what it
removes was not there before the request. `BuiltFromStore` is what makes the
installation of an engine right: the store does not move between its construction and
its installation, because who changes the store meanwhile would need the gate
(`StoreChangersHold`). `OthersStaged` shows that a step of one request keeps what every
other one relies on, `OwnStaged` that it reaches its own next stage. The engine resets
and failures that the code reports or dies of are the exceptions that `Staged` names, as
the property does.

### 5.4 ManualMarks

`ManualMarksProofs` proves, for all pairs, marks, streams, stored rows, runs and
budgets, from `PairsAssumption` (each pair has an inverse, no mark is the name of another
kind of row) and `SavedAssumption` (the stored rows are rows; only a streamed pair has a
stream):

| theorem | statement |
|---|---|
| `BeforeHolds` | `Spec => []Before` |
| `TypeCorrect` | `Spec => []TypeOK` |
| `OrderKept` | `Spec => MarksInOrder` |
| `MarksTracked` | `Spec => []LiveIsTracked` |
| `OwnQuotesCleared` | `Spec => ClearsOwnQuote` |
| `NothingLeftOver` | `Spec => []NothingOutlivesItsPair` |
| `AnswerHolds` | `Spec => []ClearAnswerTrue` |

None of these properties is inductive. The invariant is built in layers, each proved
from the ones below it; TLC checks every layer on the instance of `manual_marks` too.

- `Before` is what is true before anything is said of the engine. `Structure`: each
  goroutine is at a step of its role and holds an update of its own run (`Hands`); runs
  follow one another, and only a call into the engine or a wait for an answer outlasts
  its run (`RunsInTurn`); either gate is held by exactly the goroutine that is between
  taking and leaving it (`Gates`), so one goroutine at a time is in the engine. `Sound`
  (one `RowSound` per pair): the tokens of a mark and of its clear are the last given
  out, a clear of a start-up is held until it is resolved, an inverse is live only with
  its pair. `RowsTracked`: a row with a mark is live. `InFlight`: who is in a call of
  the engine has an update that the manager still has, or one with a token that was
  replaced.
- `Quoted`, `InOrder` and `LiveIsTracked` add the engine: a quote comes from its own pair
  or the inverse; nothing in a hand that may still be pushed is older than what was shown.
- `OwnQuotes` says which quotes of this run there can be, and that the one a clear is
  about to remove is of its own pair. `FeedsKept` says that the source of a stream's
  quote is remembered until a start has cleared or adopted it.
- The answer to a clear is sound because of what may still follow it: `TokensGiven` (no
  update has a token its pair has not given out) and `ReadsInTurn` (a refresh plans with
  what it read in this run). `AskedSound` then says that while the caller waits its clear
  is the newest of its pair and is on its way once, and `ToldSound` that after the answer
  no mark of the pair can come back before the operator sets one.

The manager's operations (`Resolve`, `Supersede`, `Complete`, `Retire`, the refresh of a
row, the rows a start inherits) each have a lemma that says what they keep of the row they
touch and that they touch no other (`Touches`); a step of the manager is then a case of
one of these (`ManagerStep`). A refresh and a start touch all rows, each by itself
(`Refreshed`, `Inherited`), so no induction over the pairs is needed.

### 5.5 PanelAccess

`PanelAccessProofs` proves, for all requests, decisions, intervals and bounds, from
`TimesAssumption` (the intervals are positive numbers) and `CallersAssumption` ("free"
and "node" are no requests):

| theorem | statement |
|---|---|
| `AccessInvHolds` | `Spec => []AccessInv` |
| `CredentialsEnd` | `Spec => []OldCredentialsEnd` |
| `CodeBelongs` | `Spec => []CodeOfThePassword` |
| `SessionsStayEnded` | `Spec => EndedStaysEnded` |
| `CodesKeepApart` | `Spec => CodesSpaced` |

`OldCredentialsEnd` is not inductive: a sign-in about to write could have compared a
password that has changed since. `AccessInv` says why it has not: only the holder of `mu`
is on its way to a write, and a password it was compared with is the panel's as long as
token mode lasts, which the transaction reads again (`OneWriter`). Outside token mode
there are no sessions (`Consistent`), so enabling it adopts none; and a code of an older
password is there only between a commit that enables token mode and its publication
(`CodeCurrent`). `WriteKeeps` says what each write leaves; the steps that write nothing go
through `LeaveKeeps` and `SameCredentials`. `OnlyNewSessions` adds that a step brings no
session but the next number, from which `SessionsStayEnded` follows.

`PrintRemembered` says that a process remembers when it printed its last code, however
that code ended: burnt, used, expired or replaced. The steps that forget the time are
the end of the process and token mode enabled anew, which is why `OneCodeAMinute` fails
and `CodesSpaced`, which leaves these out, is a theorem.

### 5.6 Only model-checked

- Liveness and everything under fairness (all of `settles`, `reconnects` and
  `lane_progress`; `FeesSettle` and `ReadyFeesBooked` of `fee_books`): out of the
  prover's reach.
- The refutations of the two promises of section 4, which are TLC's counterexamples.

## 6. Plan

1. `OrderLife`: hold, reservation, report, close, confirm, cancel of an order in the
   node with store and engine failures, composed with `TradingRuntime`'s view of it.
2. The start of the fee replay as a variable (`fees.go:37`), several sources for one
   pair in `ManualMarks`, and an abstract specification of the manager.

## 7. Not modelled

The OpenPit engine is a library outside this repository; it appears as what the node
puts in it and gets back, never through its own rules. Venue and market-data connectors are mappings of
third-party protocols. The HTTP, MCP and CSV surfaces, schema scripts, signing, secrets,
the format of backups, health diagnostics, start-up and the panel's user interface are sequential
code, transport or formats in which a state machine has nothing to say; `PROJECT.json`
lists each with its reason.
