------------------------------ MODULE LaneGate ------------------------------
(***************************************************************************)
(* The gates of the local node and the requests that pass them.  A realm's *)
(* state is held twice: durably in the store and live in the current       *)
(* engine.  Requests on one account take a lane (a read lock of laneGate)  *)
(* and change the engine first; requests that publish identities or        *)
(* policies exclude every lane and change the store first; deletes, resets *)
(* and runtime restores reserve an engine restart.  Every step may fail,   *)
(* and each failure is repaired by rolling one copy back, by rebuilding    *)
(* the engine from the store, or by stopping the process.                  *)
(*                                                                         *)
(* What a request changes is a set of facts that the store and the engine  *)
(* each hold or do not hold: an alias in the resolver, a piece of state.   *)
(***************************************************************************)
EXTENDS Naturals

(* Requests that change the engine inside an account lane. *)
LaneOps == {"order", "currency", "block"}

(* Requests that exclude the lanes and keep the live engine. *)
FenceOps ==
    {"account", "group", "rename", "autoCreate", "dropAsset", "move",
     "groupBlock", "groupCurrency", "limit", "pnlLimit", "firstLimit", "mode",
     "restoreMode", "restoreModeAssets"}

(* Requests that reserve an engine restart at once, and from a lane. *)
RestartOps == {"delete", "reset"}
RestoreOps == {"restore", "restoreRows", "restoreMode", "restoreModeAssets"}

Ops == LaneOps \cup FenceOps \cup RestartOps \cup RestoreOps \cup {"note"}

CONSTANTS
    Requests,     \* the requests in flight
    NoRequest,    \* no holder
    OpsOf         \* what each request may be

ASSUME GateAssumption ==
    /\ NoRequest \notin Requests
    /\ OpsOf \in [Requests -> SUBSET Ops]

VARIABLES
    (* the store *)
    store,        \* facts persisted
    (* the node *)
    engine,       \* facts the current engine holds
    build,        \* number of the current engine
    gate,         \* laneGate: readers inside, readers waiting, the writer
    mutate,       \* holder of the mutation lock
    restarting,   \* the request that set the restart flag, if it is set
    fatal,        \* has the fail-stop hook been called
    (* the requests *)
    op,           \* what the request does
    pc,           \* its control point
    lane,         \* the engine it was admitted to, 0 for none
    deferred,     \* requests that end an engine restart when they return
    snap,         \* the facts of the engine a request built
    (* history *)
    told          \* requests answered with a retry-unsafe error

nodeVars == <<engine, build>>
lockVars == <<gate, mutate, restarting, deferred, lane>>
vars == <<store, engine, build, gate, mutate, restarting, fatal, op, pc, lane,
          deferred, snap, told>>

Facts == Requests \X {"alias", "state"}

Content(r) ==
    CASE op[r] \in {"account", "group", "restore", "restoreModeAssets", "delete"} ->
             {<<r, "alias">>, <<r, "state">>}
      [] op[r] \in {"rename", "autoCreate", "dropAsset"} -> {<<r, "alias">>}
      [] op[r] \in {"note", "restoreRows", "reset"} -> {}
      [] OTHER -> {<<r, "state">>}

Removes(r) == op[r] \in {"dropAsset", "delete"}

Done(r, facts) == IF Removes(r) THEN facts \ Content(r) ELSE facts \cup Content(r)
Undone(r, facts) == IF Removes(r) THEN facts \cup Content(r) ELSE facts \ Content(r)

(* The engine a request works on: the lane's, or else the current one. *)
Changed(r, facts) == IF lane[r] \in {0, build} THEN facts ELSE engine

-----------------------------------------------------------------------------
(* sync.RWMutex: a writer that waits keeps new readers out, and unlocking it *)
(* lets in the readers that waited meanwhile.                                *)

RLock(r) ==
    gate' = IF gate.writer = NoRequest
            THEN [gate EXCEPT !.readers = @ \cup {r}]
            ELSE [gate EXCEPT !.waiting = @ \cup {r}]

Announce(r) ==
    /\ gate.writer = NoRequest
    /\ gate' = [gate EXCEPT !.writer = r]

Drained(r) == gate.writer = r /\ gate.readers = {}

Unlocked(r) ==
    IF gate.writer = r
    THEN [readers |-> gate.waiting, waiting |-> {}, writer |-> NoRequest]
    ELSE [gate EXCEPT !.readers = @ \ {r}]

-----------------------------------------------------------------------------
(* Admission *)

Goto(r, step) == pc' = [pc EXCEPT ![r] = step]

(* The first step of the handler once its gate is held. *)
Body(r) ==
    CASE op[r] \in LaneOps \cup {"move", "groupBlock", "groupCurrency"} -> "apply"
      [] op[r] \in {"firstLimit", "delete"} -> "build"
      [] op[r] = "reset" -> "reset"
      [] op[r] \in RestoreOps -> "import"
      [] OTHER -> "commit"

(* beginLane: the lock, then the flag. *)
LaneEnter(r) ==
    /\ pc[r] = "idle"
    /\ op[r] \in LaneOps \cup {"restore", "restoreRows"}
    /\ RLock(r)
    /\ Goto(r, "laneCheck")
    /\ UNCHANGED <<store, nodeVars, mutate, restarting, fatal, op, lane,
                   deferred, snap, told>>

LaneCheck(r) ==
    /\ pc[r] = "laneCheck"
    /\ r \in gate.readers
    /\ IF restarting # NoRequest
       THEN Goto(r, "finish") /\ UNCHANGED lane
       ELSE /\ lane' = [lane EXCEPT ![r] = build]
            /\ Goto(r, IF op[r] \in RestoreOps THEN "classify" ELSE Body(r))
    /\ UNCHANGED <<store, nodeVars, gate, mutate, restarting, fatal, op,
                   deferred, snap, told>>

(* beginMutation: the flag, the lock, the flag again. *)
MutationCheck(r) ==
    /\ \/ pc[r] = "idle" /\ op[r] = "note"
       \/ pc[r] = "mutationCheck"
    /\ Goto(r, IF restarting # NoRequest THEN "finish" ELSE "wantMutate")
    /\ UNCHANGED <<store, nodeVars, lockVars, fatal, op, snap, told>>

MutateLock(r) ==
    /\ pc[r] = "wantMutate"
    /\ mutate = NoRequest
    /\ mutate' = r
    /\ Goto(r, "mutateHeld")
    /\ UNCHANGED <<store, nodeVars, gate, restarting, fatal, op, lane,
                   deferred, snap, told>>

MutateRecheck(r) ==
    /\ pc[r] = "mutateHeld"
    /\ Goto(r, IF restarting # NoRequest
               THEN "finish"
               ELSE IF op[r] \in {"restoreMode", "restoreModeAssets"} THEN "classify"
               ELSE Body(r))
    /\ UNCHANGED <<store, nodeVars, lockVars, fatal, op, snap, told>>

(* beginLivePolicyConfiguration, beginLiveIdentityPublication: the gate, the *)
(* flag, then the mutation lock and the flag again.                          *)
FenceEnter(r) ==
    /\ pc[r] = "wantFence"
    /\ Announce(r)
    /\ Goto(r, "fence")
    /\ UNCHANGED <<store, nodeVars, mutate, restarting, fatal, op, lane,
                   deferred, snap, told>>

(* MUTANT: the gate is taken although lanes are still inside. *)
FenceCheckBarging(r) ==
    /\ pc[r] = "fence"
    /\ gate.writer = r
    /\ Goto(r, IF restarting # NoRequest THEN "finish" ELSE "wantMutate")
    /\ UNCHANGED <<store, nodeVars, lockVars, fatal, op, snap, told>>

FenceCheck(r) ==
    /\ pc[r] = "fence"
    /\ Drained(r)
    /\ Goto(r, IF restarting # NoRequest THEN "finish" ELSE "wantMutate")
    /\ UNCHANGED <<store, nodeVars, lockVars, fatal, op, snap, told>>

(* beginEngineRestart: the flag, then the gate and the mutation lock. *)
Reserve(r) ==
    /\ pc[r] = "idle"
    /\ op[r] \in RestartOps
    /\ IF restarting # NoRequest
       THEN Goto(r, "finish") /\ UNCHANGED <<restarting, deferred>>
       ELSE /\ restarting' = r
            /\ deferred' = deferred \cup {r}
            /\ Goto(r, "reserved")
    /\ UNCHANGED <<store, nodeVars, gate, mutate, fatal, op, lane, snap, told>>

(* MUTANT: the lane is given up first and the flag left for later. *)
ReserveFromLaneLate(r) ==
    /\ pc[r] = "reserve"
    /\ Goto(r, "releaseLane")
    /\ UNCHANGED <<store, nodeVars, lockVars, fatal, op, snap, told>>

(* beginEngineRestartFromLane: the flag, then the lane is given up; a taken  *)
(* flag gives the lane up too.  A chain that failed unsafely then returns    *)
(* with the engine as it is.                                                 *)
ReserveFromLane(r) ==
    /\ pc[r] = "reserve"
    /\ IF restarting # NoRequest
       THEN /\ Goto(r, "finish")
            /\ told' = IF op[r] = "block" THEN told \cup {r} ELSE told
            /\ UNCHANGED <<restarting, deferred>>
       ELSE /\ restarting' = r
            /\ deferred' = deferred \cup {r}
            /\ Goto(r, "releaseLane")
            /\ UNCHANGED told
    /\ UNCHANGED <<store, nodeVars, gate, mutate, fatal, op, lane, snap>>

(* MUTANT: the restart is awaited with the lane still held. *)
ReleaseLaneNever(r) ==
    /\ pc[r] = "releaseLane"
    /\ Goto(r, "reserved")
    /\ UNCHANGED <<store, nodeVars, lockVars, fatal, op, snap, told>>

ReleaseLane(r) ==
    /\ pc[r] = "releaseLane"
    /\ gate' = [gate EXCEPT !.readers = @ \ {r}]
    /\ lane' = [lane EXCEPT ![r] = 0]
    /\ Goto(r, "reserved")
    /\ UNCHANGED <<store, nodeVars, mutate, restarting, fatal, op, deferred,
                   snap, told>>

RestartFence(r) ==
    /\ pc[r] = "reserved"
    /\ Announce(r)
    /\ Goto(r, "restartFence")
    /\ UNCHANGED <<store, nodeVars, mutate, restarting, fatal, op, lane,
                   deferred, snap, told>>

(* MUTANT: a restart does not wait for the lanes to drain. *)
RestartLockBarging(r) ==
    /\ pc[r] = "restartFence"
    /\ gate.writer = r
    /\ mutate = NoRequest
    /\ mutate' = r
    /\ Goto(r, IF op[r] = "block" THEN "rebuild" ELSE Body(r))
    /\ UNCHANGED <<store, nodeVars, gate, restarting, fatal, op, lane,
                   deferred, snap, told>>

RestartLock(r) ==
    /\ pc[r] = "restartFence"
    /\ Drained(r)
    /\ mutate = NoRequest
    /\ mutate' = r
    /\ Goto(r, IF op[r] = "block" THEN "rebuild" ELSE Body(r))
    /\ UNCHANGED <<store, nodeVars, gate, restarting, fatal, op, lane,
                   deferred, snap, told>>

(* endEngineRestart clears the flag before it lets go of the locks. *)
EndRestart(r) ==
    /\ pc[r] = "finish"
    /\ r \in deferred
    /\ restarting' = NoRequest
    /\ deferred' = deferred \ {r}
    /\ UNCHANGED <<store, nodeVars, gate, mutate, fatal, op, pc, lane, snap,
                   told>>

Release(r) ==
    /\ pc[r] = "finish"
    /\ r \notin deferred
    /\ gate' = Unlocked(r)
    /\ mutate' = IF mutate = r THEN NoRequest ELSE mutate
    /\ lane' = [lane EXCEPT ![r] = 0]
    /\ Goto(r, "answered")
    /\ UNCHANGED <<store, nodeVars, restarting, fatal, op, deferred, snap, told>>

-----------------------------------------------------------------------------
(* Outcomes *)

bodyFixed == <<lockVars, op>>

Return(r) == Goto(r, "finish") /\ UNCHANGED <<fatal, told>>

ReturnUnsafe(r) ==
    /\ Goto(r, "finish")
    /\ told' = told \cup {r}
    /\ UNCHANGED fatal

(* fatalPostEnginePersistence, fatalPostCommitAudit, *)
(* fatalPostEngineAuditByCode, fatalReconciliation   *)
Fatal(r) ==
    /\ Goto(r, "finish")
    /\ fatal' = TRUE
    /\ UNCHANGED told

Continue(r, step) == Goto(r, step) /\ UNCHANGED <<fatal, told>>

(* MUTANT: a repair goes on to a step that no handler has. *)
AfterSwapLost(r) ==
    IF op[r] \in {"firstLimit", "limit", "delete", "reset", "restore",
                  "restoreModeAssets"}
    THEN "audit"
    ELSE "reconciled"

(* What a rebuild is part of: a request that goes on, or a failure's repair. *)
AfterSwap(r) ==
    IF op[r] \in {"firstLimit", "limit", "delete", "reset", "restore",
                  "restoreModeAssets"}
    THEN "audit"
    ELSE "finish"

-----------------------------------------------------------------------------
(* Engine first: the store follows inside the chain or exclusive section. *)

Applied(r) == engine' = Changed(r, Done(r, engine)) /\ Continue(r, "persist")
Uncertain(r) == engine' \in {engine, Changed(r, Done(r, engine))}

(* Accepted orders and execution reports, and the account currency. *)
RunLaneChain(r) ==
    /\ op[r] \in {"order", "currency"}
    /\ Applied(r) \/ (Uncertain(r) /\ ReturnUnsafe(r))

SetAccountBlocked(r) ==
    /\ op[r] = "block"
    /\ Applied(r) \/ (Uncertain(r) /\ Continue(r, "reserve"))

SetAccountGroup(r) ==
    /\ op[r] = "move"
    /\ Applied(r) \/ (Uncertain(r) /\ Continue(r, "rebuild"))

SetGroupBlocked(r) ==
    /\ op[r] = "groupBlock"
    /\ Applied(r) \/ (Uncertain(r) /\ (Continue(r, "rebuild") \/ Fatal(r)))

SetGroupCurrency(r) ==
    /\ op[r] = "groupCurrency"
    /\ Applied(r) \/ (Uncertain(r) /\ ReturnUnsafe(r))

Apply(r) ==
    /\ pc[r] = "apply"
    /\ \/ Return(r) /\ UNCHANGED engine
       \/ RunLaneChain(r) \/ SetAccountBlocked(r) \/ SetAccountGroup(r)
       \/ SetGroupBlocked(r) \/ SetGroupCurrency(r)
    /\ UNCHANGED <<store, build, snap, bodyFixed>>

Persist(r) ==
    /\ pc[r] = "persist"
    /\ \/ store' = Done(r, store) /\ Continue(r, "audit")
       \/ Fatal(r) /\ UNCHANGED store
    /\ UNCHANGED <<nodeVars, snap, bodyFixed>>

(* A change already made whose record fails stops the process, unless it is  *)
(* in the store alone or can still be taken back.                            *)
Audit(r) ==
    /\ pc[r] = "audit"
    /\ \/ Return(r)
       \/ CASE op[r] = "note" -> Return(r)
            [] op[r] \in {"restoreMode", "restoreRows"} -> Continue(r, "unapply")
            [] OTHER -> Fatal(r)
    /\ UNCHANGED <<store, nodeVars, snap, bodyFixed>>

-----------------------------------------------------------------------------
(* Store first: the engine follows, and the store is rolled back if it does *)
(* not.                                                                     *)

Commit(r) ==
    /\ pc[r] = "commit"
    /\ \/ Return(r) /\ UNCHANGED store
       \/ /\ store' = Done(r, store)
          /\ Continue(r, CASE op[r] = "note" -> "audit"
                           [] op[r] \in {"limit", "pnlLimit", "mode"} -> "configure"
                           [] OTHER -> "publish")
    /\ UNCHANGED <<nodeVars, snap, bodyFixed>>

Publish(r) ==
    /\ pc[r] = "publish"
    /\ \/ /\ engine' = IF Removes(r) THEN engine \ {<<r, "alias">>}
                       ELSE engine \cup {<<r, "alias">>}
          /\ Continue(r, IF op[r] \in {"account", "group"} THEN "initial" ELSE "audit")
       \/ /\ Continue(r, IF op[r] = "dropAsset" THEN "dropAudit" ELSE "undo")
          /\ UNCHANGED engine
    /\ UNCHANGED <<store, build, snap, bodyFixed>>

Undo(r) ==
    /\ pc[r] = "undo"
    /\ \/ store' = Undone(r, store) /\ Return(r)
       \/ /\ Continue(r, IF op[r] = "autoCreate" THEN "lastRebuild" ELSE "rebuild")
          /\ UNCHANGED store
    /\ UNCHANGED <<nodeVars, snap, bodyFixed>>

(* The asset is gone from the store and still in the resolver. *)
DropAudit(r) ==
    /\ pc[r] = "dropAudit"
    /\ Continue(r, "rebuild") \/ Continue(r, "lastRebuild")
    /\ UNCHANGED <<store, nodeVars, snap, bodyFixed>>

(* The runtime state of a new account or group.  If no engine call was made, *)
(* a group is taken back and an account is left as it is; otherwise the row  *)
(* is deleted and the engine rebuilt.                                        *)
Initial(r) ==
    /\ pc[r] = "initial"
    /\ \/ engine' = Done(r, engine) /\ Continue(r, "audit")
       \/ /\ IF op[r] = "account" THEN Return(r) ELSE Continue(r, "compensate")
          /\ UNCHANGED engine
       \/ engine' \in {engine, Done(r, engine)} /\ Continue(r, "undoRebuild")
    /\ UNCHANGED <<store, build, snap, bodyFixed>>

Compensate(r) ==
    /\ pc[r] = "compensate"
    /\ engine' \in {engine, Undone(r, engine)}
    /\ store' \in {store, Undone(r, store)}
    /\ IF /\ engine' = Undone(r, engine)
          /\ store' = Undone(r, store)
       THEN Return(r)
       ELSE Continue(r, "rebuild")
    /\ UNCHANGED <<build, snap, bodyFixed>>

UndoRebuild(r) ==
    /\ pc[r] = "undoRebuild"
    /\ store' \in {store, Undone(r, store)}
    /\ Continue(r, "rebuild")
    /\ UNCHANGED <<nodeVars, snap, bodyFixed>>

Configured(r) == engine' = Done(r, engine) /\ Continue(r, "audit")
Refused(r) == Continue(r, "revert") /\ UNCHANGED engine

(* A rate or order-size policy that the engine cannot change online is *)
(* rebuilt.                                                            *)
PutLimit(r) ==
    /\ op[r] = "limit"
    /\ \/ Configured(r) \/ Refused(r)
       \/ engine' = Done(r, engine) /\ Fatal(r)
       \/ Continue(r, "rebuild") /\ UNCHANGED engine

(* MUTANT: a P&L bound that may have landed is only rolled back in the store. *)
PutPnlBoundsUnrepaired(r) ==
    /\ op[r] = "pnlLimit"
    /\ \/ Configured(r) \/ Refused(r)
       \/ engine' = Done(r, engine) /\ Fatal(r)
       \/ engine' \in {engine, Done(r, engine)} /\ Continue(r, "revert")

(* A P&L bound that failed may have landed. *)
PutPnlBounds(r) ==
    /\ op[r] = "pnlLimit"
    /\ \/ Configured(r) \/ Refused(r)
       \/ engine' = Done(r, engine) /\ Fatal(r)
       \/ engine' \in {engine, Done(r, engine)} /\ Continue(r, "revertRebuild")

SetLimitMode(r) ==
    /\ op[r] \in {"mode", "restoreMode"}
    /\ Configured(r) \/ Refused(r)

Configure(r) ==
    /\ pc[r] = "configure"
    /\ PutLimit(r) \/ PutPnlBounds(r) \/ SetLimitMode(r)
    /\ UNCHANGED <<store, build, snap, bodyFixed>>

(* The rollback of a policy change or of a restore's scope. *)
Revert(r) ==
    /\ pc[r] \in {"revert", "revertRebuild"}
    /\ \/ /\ store' = Undone(r, store)
          /\ IF pc[r] = "revert" THEN Return(r) ELSE Continue(r, "rebuild")
       \/ Fatal(r) /\ UNCHANGED store
    /\ UNCHANGED <<nodeVars, snap, bodyFixed>>

-----------------------------------------------------------------------------
(* Engine built beside the live one, then installed. *)

Build(r) ==
    /\ pc[r] = "build"
    /\ \/ Return(r) /\ UNCHANGED snap
       \/ /\ snap' = [snap EXCEPT ![r] = Done(r, store)]
          /\ Continue(r, "install")
    /\ UNCHANGED <<store, nodeVars, bodyFixed>>

Install(r) ==
    /\ pc[r] = "install"
    /\ \/ Return(r) /\ UNCHANGED <<store, nodeVars>>
       \/ /\ store' = Done(r, store)
          /\ engine' = snap[r]
          /\ build' = build + 1
          /\ Continue(r, "mirror")
    /\ UNCHANGED <<snap, bodyFixed>>

Rebuild(r) ==
    /\ pc[r] = "rebuild"
    /\ \/ Fatal(r) /\ UNCHANGED nodeVars
       \/ /\ engine' = store
          /\ build' = build + 1
          /\ Continue(r, "mirror")
    /\ UNCHANGED <<store, snap, bodyFixed>>

(* mirrorSeedAccountBlocks *)
Mirror(r) ==
    /\ pc[r] = "mirror"
    /\ Continue(r, AfterSwap(r)) \/ Fatal(r)
    /\ UNCHANGED <<store, nodeVars, snap, bodyFixed>>

(* A rebuild on the way to the fail-stop. *)
LastRebuild(r) ==
    /\ pc[r] = "lastRebuild"
    /\ \/ engine' = store /\ build' = build + 1
       \/ UNCHANGED nodeVars
    /\ Fatal(r)
    /\ UNCHANGED <<store, snap, bodyFixed>>

-----------------------------------------------------------------------------
(* Reset and restore *)

ResetDatabase(r) ==
    /\ pc[r] = "reset"
    /\ \/ Return(r) /\ UNCHANGED store
       \/ store' = {} /\ (Continue(r, "rebuild") \/ Fatal(r))
    /\ UNCHANGED <<nodeVars, snap, bodyFixed>>

Classify(r) ==
    /\ pc[r] = "classify"
    /\ \/ Return(r)
       \/ Continue(r, CASE op[r] = "restore" -> "reserve"
                        [] op[r] = "restoreRows" -> "mutationCheck"
                        [] op[r] = "restoreMode" -> "import"
                        [] OTHER -> "reserveHeld")
    /\ UNCHANGED <<store, nodeVars, snap, bodyFixed>>

(* MUTANT: the restart flag is set without asking whether it is taken. *)
ReserveHeldBlind(r) ==
    /\ pc[r] = "reserveHeld"
    /\ restarting' = r
    /\ deferred' = deferred \cup {r}
    /\ Goto(r, "import")
    /\ UNCHANGED <<store, nodeVars, gate, mutate, fatal, op, lane, snap, told>>

ReserveHeld(r) ==
    /\ pc[r] = "reserveHeld"
    /\ IF restarting # NoRequest
       THEN Goto(r, "finish") /\ UNCHANGED <<restarting, deferred>>
       ELSE /\ restarting' = r
            /\ deferred' = deferred \cup {r}
            /\ Goto(r, "import")
    /\ UNCHANGED <<store, nodeVars, gate, mutate, fatal, op, lane, snap, told>>

Import(r) ==
    /\ pc[r] = "import"
    /\ \/ Return(r) /\ UNCHANGED store
       \/ /\ store' = Done(r, store)
          /\ Continue(r, CASE op[r] = "restoreMode" -> "configure"
                           [] op[r] = "restoreRows" -> "audit"
                           [] OTHER -> "plan")
    /\ UNCHANGED <<nodeVars, snap, bodyFixed>>

Plan(r) ==
    /\ pc[r] = "plan"
    /\ \/ Continue(r, "rebuild") /\ UNCHANGED engine
       \/ engine' = Done(r, engine) /\ Continue(r, "audit")
       \/ engine' \in {engine, Done(r, engine)} /\ Fatal(r)
    /\ UNCHANGED <<store, build, snap, bodyFixed>>

Unapply(r) ==
    /\ pc[r] = "unapply"
    /\ \/ engine' = Undone(r, engine) /\ Continue(r, "revert")
       \/ op[r] = "restoreMode" /\ Fatal(r) /\ UNCHANGED engine
    /\ UNCHANGED <<store, build, snap, bodyFixed>>

-----------------------------------------------------------------------------
(* Order traffic on the lanes never ends. *)
Again(r) ==
    /\ pc[r] = "answered"
    /\ op[r] = "order"
    /\ Goto(r, "idle")
    /\ UNCHANGED <<store, nodeVars, lockVars, fatal, op, snap, told>>

(* The fail-stop hook ends the process; NewLocalNode builds the engine from  *)
(* the store.  Requests in flight are lost.                                  *)
Exit ==
    /\ fatal
    /\ fatal' = FALSE
    /\ engine' = store
    /\ build' = 1
    /\ gate' = [readers |-> {}, waiting |-> {}, writer |-> NoRequest]
    /\ mutate' = NoRequest
    /\ restarting' = NoRequest
    /\ deferred' = {}
    /\ lane' = [r \in Requests |-> 0]
    /\ pc' = [r \in Requests |-> IF pc[r] = "idle" THEN "idle" ELSE "answered"]
    /\ told' = {}
    /\ UNCHANGED <<store, op, snap>>

Init ==
    /\ op \in {f \in [Requests -> Ops] : \A r \in Requests : f[r] \in OpsOf[r]}
    /\ store = UNION {Content(r) : r \in {q \in Requests : Removes(q)}}
    /\ engine = store
    /\ build = 1
    /\ gate = [readers |-> {}, waiting |-> {}, writer |-> NoRequest]
    /\ mutate = NoRequest
    /\ restarting = NoRequest
    /\ fatal = FALSE
    /\ pc = [r \in Requests |-> "idle"]
    /\ lane = [r \in Requests |-> 0]
    /\ deferred = {}
    /\ snap = [r \in Requests |-> {}]
    /\ told = {}

Issue(r) ==
    /\ pc[r] = "idle"
    /\ \/ LaneEnter(r) \/ Reserve(r) \/ MutationCheck(r)
       \/ /\ op[r] \in FenceOps
          /\ Goto(r, "wantFence")
          /\ UNCHANGED <<store, nodeVars, lockVars, fatal, op, snap, told>>

Step(r) ==
    \/ LaneCheck(r) \/ (pc[r] = "mutationCheck" /\ MutationCheck(r)) \/ FenceEnter(r)
    \/ MutateLock(r) \/ MutateRecheck(r) \/ FenceCheck(r)
    \/ ReserveFromLane(r) \/ ReleaseLane(r) \/ RestartFence(r) \/ RestartLock(r)
    \/ EndRestart(r) \/ Release(r)
    \/ Apply(r) \/ Persist(r) \/ Audit(r)
    \/ Commit(r) \/ Publish(r) \/ Undo(r) \/ DropAudit(r) \/ Initial(r)
    \/ Compensate(r) \/ UndoRebuild(r) \/ Configure(r) \/ Revert(r)
    \/ Build(r) \/ Install(r) \/ Rebuild(r) \/ Mirror(r) \/ LastRebuild(r)
    \/ ResetDatabase(r) \/ Classify(r) \/ ReserveHeld(r) \/ Import(r)
    \/ Plan(r) \/ Unapply(r)

Next == Exit \/ \E r \in Requests : Issue(r) \/ Step(r) \/ Again(r)

(* Goroutines run, and sync.Mutex hands over to a waiter that starves: a      *)
(* request that waits for a lock gets it if it comes free again and again.   *)
(* At every other step, once it can be taken it can be taken until it is.    *)
Fairness == WF_vars(Exit) /\ \A r \in Requests : SF_vars(Step(r))

Spec == Init /\ [][Next]_vars
FairSpec == Spec /\ Fairness

-----------------------------------------------------------------------------
Steps ==
    {"idle", "laneCheck", "mutationCheck", "wantMutate", "mutateHeld",
     "wantFence", "fence", "reserve", "releaseLane", "reserved", "restartFence",
     "reserveHeld", "classify", "apply", "persist", "audit", "commit",
     "publish", "undo", "dropAudit", "initial", "compensate", "undoRebuild",
     "configure", "revert", "revertRebuild", "build", "install", "rebuild",
     "mirror", "lastRebuild", "reset", "import", "plan", "unapply", "finish",
     "answered"}

Holders == Requests \cup {NoRequest}

(* The variables have their types. *)
TypeOK ==
    /\ store \in SUBSET Facts
    /\ engine \in SUBSET Facts
    /\ build \in Nat \ {0}
    /\ gate \in [readers : SUBSET Requests, waiting : SUBSET Requests, writer : Holders]
    /\ mutate \in Holders
    /\ restarting \in Holders
    /\ fatal \in BOOLEAN
    /\ op \in [Requests -> Ops]
    /\ pc \in [Requests -> Steps]
    /\ lane \in [Requests -> Nat]
    /\ deferred \in SUBSET Requests
    /\ snap \in [Requests -> SUBSET Facts]
    /\ told \in SUBSET Requests

(* A request admitted to a lane works on the engine that serves: no rebuild, *)
(* by whatever failure, replaces and stops an engine a lane still uses.      *)
LaneOnLiveEngine == \A r \in Requests : lane[r] # 0 => lane[r] = build

(* The restart flag belongs to the one request that will clear it: a request *)
(* that fails to reserve a restart never runs as if it had, and no one       *)
(* clears the flag of another.                                               *)
OneRestartOwner == deferred = {restarting} \ {NoRequest}

Agree(r) == Content(r) \cap store = Content(r) \cap engine

Resetting == \E r \in Requests : op[r] = "reset" /\ pc[r] = "rebuild"

(* When a request returns, whatever failed on the way, the store and the     *)
(* engine agree about what it changed, or its caller got a retry-unsafe      *)
(* error, or the process is going down.  (CreateAccount: see CreateSettles.) *)
DivergenceIsTold ==
    \A r \in Requests :
        \/ Agree(r)
        \/ pc[r] \notin {"idle", "finish", "answered"}
        \/ r \in told \/ fatal \/ Resetting
        \/ op[r] = "account"

(* An order in a lane never meets an identity or a policy that only one of   *)
(* store and engine has, although each of these requests writes them in      *)
(* several steps and repairs its failures in several more.                   *)
LaneSeesWhole ==
    (\E r \in Requests : lane[r] # 0) =>
        \A q \in Requests :
            \/ Agree(q)
            \/ op[q] \in LaneOps \cup {"account"}
            \/ q \in told \/ fatal

(* Between the reservation of a restart by a lane whose chain left the       *)
(* engine in doubt and the end of the rebuild, no lane is admitted.          *)
InDoubt(r) ==
    /\ op[r] = "block"
    /\ pc[r] \in {"releaseLane", "reserved", "restartFence", "rebuild"}

NoAdmissionIntoDoubt ==
    [][(\E q \in Requests : InDoubt(q)) =>
        \A r \in Requests : lane[r] = 0 => lane'[r] = 0]_vars

(* After CreateAccount returns, with whatever error, the store has the       *)
(* account exactly if the engine has it with its runtime state.              *)
CreateSettles ==
    \A r \in Requests :
        op[r] = "account" /\ pc[r] = "answered" =>
            Agree(r) \/ fatal \/ Resetting

(* Every request that is waiting or working is answered, under endless order *)
(* traffic, and whoever restarts the engine meanwhile: neither the upgrade   *)
(* from a lane nor the two locks block for ever.                             *)
EveryRequestAnswered ==
    \A r \in Requests : pc[r] # "idle" ~> pc[r] = "answered"
=============================================================================
