---------------------------- MODULE LaneGateProofs ----------------------------
(***************************************************************************)
(* Proofs about LaneGate, for every set of requests.  GateInv is about the *)
(* locks: who owns the gate, who is in a lane, who restarts the engine.    *)
(* CopiesInv is about the two copies of the state, at every step of every  *)
(* handler, and rests on GateInv for what the others cannot do meanwhile.  *)
(***************************************************************************)
EXTENDS LaneGate, TLAPS

-----------------------------------------------------------------------------
(* Which step belongs to which request.                                      *)

Around == {"idle", "finish", "answered"}
Fenced == Around \cup {"wantFence", "fence", "wantMutate", "mutateHeld"}

\* The steps that the handler of each operation has.
Fits(o, s) ==
    /\ o \in {"order", "currency"} =>
           s \in Around \cup {"laneCheck", "apply", "persist", "audit"}
    /\ o = "block" =>
           s \in Around \cup {"laneCheck", "apply", "persist", "audit", "reserve",
                              "releaseLane", "reserved", "restartFence",
                              "rebuild", "mirror"}
    /\ o = "restore" =>
           s \in Around \cup {"laneCheck", "classify", "reserve", "releaseLane",
                              "reserved", "restartFence", "import", "plan",
                              "rebuild", "mirror", "audit"}
    /\ o = "restoreRows" =>
           s \in Around \cup {"laneCheck", "classify", "mutationCheck",
                              "wantMutate", "mutateHeld", "import", "audit",
                              "unapply", "revert"}
    /\ o = "note" =>
           s \in Around \cup {"wantMutate", "mutateHeld", "commit", "audit"}
    /\ o = "delete" =>
           s \in Around \cup {"reserved", "restartFence", "build", "install",
                              "mirror", "audit"}
    /\ o = "reset" =>
           s \in Around \cup {"reserved", "restartFence", "reset", "rebuild",
                              "mirror", "audit"}
    /\ o \in {"account", "group", "rename", "autoCreate"} =>
           s \in Fenced \cup {"commit", "publish", "undo", "initial", "compensate",
                              "undoRebuild", "rebuild", "lastRebuild", "mirror",
                              "audit"}
    /\ o = "dropAsset" =>
           s \in Fenced \cup {"commit", "publish", "dropAudit", "rebuild",
                              "lastRebuild", "mirror", "audit"}
    /\ o \in {"move", "groupBlock", "groupCurrency"} =>
           s \in Fenced \cup {"apply", "persist", "rebuild", "mirror", "audit"}
    /\ o \in {"limit", "pnlLimit", "mode"} =>
           s \in Fenced \cup {"commit", "configure", "revert", "revertRebuild",
                              "rebuild", "mirror", "audit"}
    /\ o = "firstLimit" =>
           s \in Fenced \cup {"build", "install", "mirror", "audit"}
    /\ o = "restoreMode" =>
           s \in Fenced \cup {"classify", "import", "configure", "audit",
                              "unapply", "revert"}
    /\ o = "restoreModeAssets" =>
           s \in Fenced \cup {"classify", "reserveHeld", "import", "plan",
                              "rebuild", "mirror", "audit"}

(* A request is at a step that its handler has. *)
EachFits == \A r \in Requests : Fits(op[r], pc[r])

(* The steps that a handler takes with the gate announced or held. *)
OwnsGate(r) ==
    \/ op[r] \in FenceOps /\ pc[r] \notin {"idle", "wantFence", "answered"}
    \/ /\ op[r] \in {"block", "restore", "delete", "reset"}
       /\ pc[r] \in {"restartFence", "build", "install", "reset", "import",
                     "plan", "rebuild", "mirror"}

(* A request at such a step is the gate's writer. *)
OwnersWrite == \A r \in Requests : OwnsGate(r) => gate.writer = r

(* A writer past its wait has no reader beside it. *)
WriterAlone ==
    \A r \in Requests :
        gate.writer = r /\ pc[r] \notin {"fence", "restartFence"} =>
            gate.readers = {}

(* Who holds a lane is a reader of the gate, and a chain runs in a lane. *)
LanesRead == \A r \in Requests : lane[r] # 0 => r \in gate.readers

\* A chain on an account runs in a lane.
ChainInLane ==
    \A r \in Requests :
        op[r] \in LaneOps /\ pc[r] \in {"apply", "persist"} => lane[r] # 0

(* A request in doubt has reserved the restart. *)
DoubtReserved == \A r \in Requests : InDoubt(r) => r \in deferred

\* The order of the locks.
GateInv ==
    /\ TypeOK
    /\ OneRestartOwner
    /\ EachFits
    /\ OwnersWrite
    /\ WriterAlone
    /\ LanesRead
    /\ ChainInLane
    /\ DoubtReserved
    /\ LaneOnLiveEngine

-----------------------------------------------------------------------------
(* What each step knows of the two copies.                                   *)

\* All of a request's change is in a copy, or none of what it may change.
Full(r, facts) ==
    Content(r) \cap facts = IF Removes(r) THEN {} ELSE Content(r)

Clean(r, facts) == Content(r) \cap facts = {}

(* Between its first change and its last a request's copies may differ. *)
Changing ==
    {"persist", "publish", "undo", "dropAudit", "initial", "compensate",
     "undoRebuild", "configure", "revert", "revertRebuild", "rebuild",
     "lastRebuild", "plan", "unapply"}

Upgrading == {"reserve", "releaseLane", "reserved", "restartFence"}

\* What a step of a handler relies on, and what it leaves.
Stage(r) ==
    /\ pc[r] \notin Changing /\ ~ (op[r] = "block" /\ pc[r] \in Upgrading) =>
           Agree(r)
    /\ pc[r] = "persist" => Full(r, engine)
    /\ pc[r] \in {"publish", "initial", "configure", "plan"} => Full(r, store)
    /\ pc[r] \in {"publish", "undo", "configure", "revert"} =>
           Removes(r) \/ Clean(r, engine)

\* Every request is where its step says, or its failure was told, or the process
\* stops or is being reset.
Staged ==
    \A r \in Requests :
        \/ op[r] = "account"
        \/ r \in told \/ fatal \/ Resetting
        \/ Stage(r)

(* What a request may have to take back was in neither copy before it. *)
TakenBack ==
    {"group", "rename", "autoCreate", "limit", "pnlLimit", "mode", "restoreMode"}

NewBefore ==
    \A r \in Requests :
        /\ op[r] \in TakenBack
        /\ pc[r] \in {"idle", "wantFence", "fence", "wantMutate", "mutateHeld",
                      "commit", "classify", "import"}
        => Clean(r, store) /\ Clean(r, engine)

(* The store does not change between the build of an engine and its         *)
(* installation.                                                             *)
BuiltFromStore ==
    \A r \in Requests : pc[r] = "install" => snap[r] = Done(r, store)

\* What every handler knows of the two copies.
CopiesInv == Staged /\ NewBefore /\ BuiltFromStore

-----------------------------------------------------------------------------
(* The facts of a request.                                                   *)

\* What a request changes is a set of facts, and they are its own.
LEMMA ContentOwn ==
    ASSUME NEW r \in Requests
    PROVE  /\ Content(r) \in SUBSET Facts
           /\ \A x \in Content(r) : x[1] = r
  BY DEF Content, Facts

\* Doing and undoing a request's change stays within the facts.
LEMMA ChangesAreFacts ==
    ASSUME NEW r \in Requests, NEW facts \in SUBSET Facts
    PROVE  Done(r, facts) \in SUBSET Facts /\ Undone(r, facts) \in SUBSET Facts
  BY ContentOwn DEF Done, Undone

\* The change of a request to an engine, live or stopped, is a set of facts.
LEMMA ChangedIsFacts ==
    ASSUME TypeOK, NEW facts \in SUBSET Facts, NEW r \in Requests
    PROVE  Changed(r, facts) \in SUBSET Facts
  BY DEF Changed, TypeOK

-----------------------------------------------------------------------------
(* Steps that hold their locks and change the copies.                        *)

\* The steps under locks.
BodyStep(r) ==
    \/ Apply(r) \/ Persist(r) \/ Audit(r) \/ Commit(r) \/ Publish(r) \/ Undo(r)
    \/ DropAudit(r) \/ Initial(r) \/ Compensate(r) \/ UndoRebuild(r)
    \/ Configure(r) \/ Revert(r) \/ Build(r) \/ Install(r) \/ Rebuild(r)
    \/ Mirror(r) \/ LastRebuild(r) \/ ResetDatabase(r) \/ Classify(r)
    \/ Import(r) \/ Plan(r) \/ Unapply(r)

(* What such a step is to the locks. *)
Works(r) ==
    /\ UNCHANGED <<lockVars, op>>
    /\ pc' = [pc EXCEPT ![r] = pc'[r]]
    /\ Fits(op[r], pc'[r])
    /\ pc'[r] \in Steps
    /\ pc[r] \notin {"fence", "restartFence"}
    /\ OwnsGate(r)' => OwnsGate(r)
    /\ op[r] \in LaneOps /\ pc'[r] \in {"apply", "persist"} => pc[r] = "apply"
    /\ ~ InDoubt(r)'
    /\ build' = build \/ (build' = build + 1 /\ OwnsGate(r))

(* What it writes are facts. *)
WritesFacts ==
    /\ store' \in SUBSET Facts
    /\ engine' \in SUBSET Facts
    /\ snap' \in [Requests -> SUBSET Facts]
    /\ fatal' \in BOOLEAN
    /\ told' \in SUBSET Requests

\* A step under locks leaves the locks alone, stays within its handler, enters
\* no lane and no doubt, and replaces the engine only where the gate is owned.
LEMMA BodyWorks ==
    ASSUME GateInv, NEW r \in Requests, BodyStep(r)
    PROVE  Works(r)
<1> USE DEF GateInv, TypeOK, Works, bodyFixed, lockVars, nodeVars, Goto, Return,
            ReturnUnsafe, Fatal, Continue, InDoubt, Fits, Around, Fenced,
            OwnsGate, Ops, LaneOps, FenceOps, RestartOps, RestoreOps, Steps
<1>f. Fits(op[r], pc[r])
  BY DEF EachFits
<1>o. op[r] \in Ops
  OBVIOUS
<1>1. CASE Apply(r)
  BY <1>f, <1>o, <1>1 DEF Apply, Applied, Uncertain, RunLaneChain,
     SetAccountBlocked, SetAccountGroup, SetGroupBlocked, SetGroupCurrency
<1>2. CASE Persist(r)
  BY <1>f, <1>o, <1>2 DEF Persist
<1>3. CASE Audit(r)
  BY <1>f, <1>o, <1>3 DEF Audit
<1>4. CASE Commit(r)
  BY <1>f, <1>o, <1>4 DEF Commit
<1>5. CASE Publish(r)
  BY <1>f, <1>o, <1>5 DEF Publish
<1>6. CASE Undo(r)
  BY <1>f, <1>o, <1>6 DEF Undo
<1>7. CASE DropAudit(r)
  BY <1>f, <1>o, <1>7 DEF DropAudit
<1>8. CASE Initial(r)
  BY <1>f, <1>o, <1>8 DEF Initial
<1>9. CASE Compensate(r)
  BY <1>f, <1>o, <1>9 DEF Compensate
<1>10. CASE UndoRebuild(r)
  BY <1>f, <1>o, <1>10 DEF UndoRebuild
<1>11. CASE Configure(r)
  BY <1>f, <1>o, <1>11 DEF Configure, PutLimit, PutPnlBounds, SetLimitMode,
     Configured, Refused
<1>12. CASE Revert(r)
  BY <1>f, <1>o, <1>12 DEF Revert
<1>13. CASE Build(r)
  BY <1>f, <1>o, <1>13 DEF Build
<1>14. CASE Install(r)
  BY <1>f, <1>o, <1>14 DEF Install
<1>15. CASE Rebuild(r)
  BY <1>f, <1>o, <1>15 DEF Rebuild
<1>16. CASE Mirror(r)
  BY <1>f, <1>o, <1>16 DEF Mirror, AfterSwap
<1>17. CASE LastRebuild(r)
  BY <1>f, <1>o, <1>17 DEF LastRebuild
<1>18. CASE ResetDatabase(r)
  BY <1>f, <1>o, <1>18 DEF ResetDatabase
<1>19. CASE Classify(r)
  BY <1>f, <1>o, <1>19 DEF Classify
<1>20. CASE Import(r)
  BY <1>f, <1>o, <1>20 DEF Import
<1>21. CASE Plan(r)
  BY <1>f, <1>o, <1>21 DEF Plan
<1>22. CASE Unapply(r)
  BY <1>f, <1>o, <1>22 DEF Unapply
<1>23. QED
  BY <1>1, <1>2, <1>3, <1>4, <1>5, <1>6, <1>7, <1>8, <1>9, <1>10, <1>11,
     <1>12, <1>13, <1>14, <1>15, <1>16, <1>17, <1>18, <1>19, <1>20, <1>21,
     <1>22 DEF BodyStep

\* A step under locks writes facts.
LEMMA BodyWrites ==
    ASSUME TypeOK, NEW r \in Requests, BodyStep(r)
    PROVE  WritesFacts
<1> USE DEF TypeOK, WritesFacts, bodyFixed, nodeVars, Return, ReturnUnsafe, Fatal,
            Continue
<1>d. /\ Done(r, store) \in SUBSET Facts /\ Undone(r, store) \in SUBSET Facts
      /\ Done(r, engine) \in SUBSET Facts /\ Undone(r, engine) \in SUBSET Facts
      /\ Changed(r, Done(r, engine)) \in SUBSET Facts
      /\ {<<r, "alias">>} \in SUBSET Facts
  BY ChangesAreFacts, ChangedIsFacts DEF Facts
<1>1. CASE Apply(r)
  BY <1>d, <1>1 DEF Apply, Applied, Uncertain, RunLaneChain,
     SetAccountBlocked, SetAccountGroup, SetGroupBlocked, SetGroupCurrency
<1>2. CASE Persist(r)
  BY <1>d, <1>2 DEF Persist
<1>3. CASE Audit(r)
  BY <1>d, <1>3 DEF Audit
<1>4. CASE Commit(r)
  BY <1>d, <1>4 DEF Commit
<1>5. CASE Publish(r)
  BY <1>d, <1>5 DEF Publish
<1>6. CASE Undo(r)
  BY <1>d, <1>6 DEF Undo
<1>7. CASE DropAudit(r)
  BY <1>d, <1>7 DEF DropAudit
<1>8. CASE Initial(r)
  BY <1>d, <1>8 DEF Initial
<1>9. CASE Compensate(r)
  BY <1>d, <1>9 DEF Compensate
<1>10. CASE UndoRebuild(r)
  BY <1>d, <1>10 DEF UndoRebuild
<1>11. CASE Configure(r)
  BY <1>d, <1>11 DEF Configure, PutLimit, PutPnlBounds, SetLimitMode,
     Configured, Refused
<1>12. CASE Revert(r)
  BY <1>d, <1>12 DEF Revert
<1>13. CASE Build(r)
  BY <1>d, <1>13 DEF Build
<1>14. CASE Install(r)
  BY <1>d, <1>14 DEF Install
<1>15. CASE Rebuild(r)
  BY <1>d, <1>15 DEF Rebuild
<1>16. CASE Mirror(r)
  BY <1>d, <1>16 DEF Mirror, AfterSwap
<1>17. CASE LastRebuild(r)
  BY <1>d, <1>17 DEF LastRebuild
<1>18. CASE ResetDatabase(r)
  BY <1>d, <1>18 DEF ResetDatabase
<1>19. CASE Classify(r)
  BY <1>d, <1>19 DEF Classify
<1>20. CASE Import(r)
  BY <1>d, <1>20 DEF Import
<1>21. CASE Plan(r)
  BY <1>d, <1>21 DEF Plan
<1>22. CASE Unapply(r)
  BY <1>d, <1>22 DEF Unapply
<1>23. QED
  BY <1>1, <1>2, <1>3, <1>4, <1>5, <1>6, <1>7, <1>8, <1>9, <1>10, <1>11,
     <1>12, <1>13, <1>14, <1>15, <1>16, <1>17, <1>18, <1>19, <1>20, <1>21,
     <1>22 DEF BodyStep

-----------------------------------------------------------------------------
(* The locks.                                                                *)

\* Initially no lock is held and both copies are the same.
LEMMA InitGate == GateAssumption /\ Init => GateInv
<1> SUFFICES ASSUME GateAssumption, Init PROVE GateInv
  OBVIOUS
<1> USE DEF Init, GateAssumption
<1>op. op \in [Requests -> Ops]
  OBVIOUS
<1>1. \A r \in Requests : Content(r) \in SUBSET Facts
  BY ContentOwn
<1>2. store \in SUBSET Facts
  BY <1>1
<1>3. TypeOK
  <2>1. /\ engine \in SUBSET Facts /\ build \in Nat \ {0}
        /\ mutate \in Holders /\ restarting \in Holders
        /\ deferred \in SUBSET Requests /\ told \in SUBSET Requests
    BY <1>2 DEF Holders
  <2>2. gate \in [readers : SUBSET Requests, waiting : SUBSET Requests,
                  writer : Holders]
    BY DEF Holders
  <2>3. pc \in [Requests -> Steps]
    BY DEF Steps
  <2>4. lane \in [Requests -> Nat]
    OBVIOUS
  <2>5. snap \in [Requests -> SUBSET Facts]
    OBVIOUS
  <2>6. fatal \in BOOLEAN
    OBVIOUS
  <2> QED
    BY <1>2, <1>op, <2>1, <2>2, <2>3, <2>4, <2>5, <2>6 DEF TypeOK
<1>4. EachFits
  BY DEF EachFits, Fits, Around, Fenced
<1>5. /\ OneRestartOwner /\ OwnersWrite /\ WriterAlone /\ LanesRead
      /\ ChainInLane /\ DoubtReserved /\ LaneOnLiveEngine
  BY DEF OneRestartOwner, OwnersWrite, OwnsGate, WriterAlone, LanesRead,
         ChainInLane, DoubtReserved, InDoubt, LaneOnLiveEngine, LaneOps
<1> QED
  BY <1>3, <1>4, <1>5 DEF GateInv

\* A request that replaces the engine owns the gate, and no lane is held.
LEMMA OwnerAlone ==
    ASSUME GateInv, NEW r \in Requests, OwnsGate(r),
           pc[r] \notin {"fence", "restartFence"}
    PROVE  /\ gate.writer = r /\ gate.readers = {}
           /\ \A q \in Requests : lane[q] = 0
           /\ \A q \in Requests : OwnsGate(q) => q = r
  BY DEF GateInv, OwnersWrite, WriterAlone, LanesRead

\* A step under locks keeps the order of the locks.
LEMMA WorkKeepsGate ==
    ASSUME GateInv, NEW r \in Requests, Works(r), WritesFacts
    PROVE  GateInv'
<1> USE DEF GateInv, Works, lockVars
<1>1. TypeOK'
  <2>1. pc' \in [Requests -> Steps]
    BY DEF TypeOK
  <2>2. build' \in Nat \ {0}
    BY DEF TypeOK
  <2> QED
    BY <2>1, <2>2 DEF TypeOK, WritesFacts
<1>p. \A q \in Requests : q # r => pc'[q] = pc[q]
  BY DEF TypeOK
<1>2. OneRestartOwner'
  BY DEF OneRestartOwner
<1>3. EachFits'
  BY <1>p DEF EachFits
<1>4. OwnersWrite'
  BY <1>p DEF OwnersWrite, OwnsGate
<1>5. WriterAlone'
  BY <1>p DEF WriterAlone
<1>6. LanesRead'
  BY DEF LanesRead
<1>7. ChainInLane'
  BY <1>p DEF ChainInLane
<1>8. DoubtReserved'
  BY <1>p DEF DoubtReserved, InDoubt
<1>9. LaneOnLiveEngine'
  <2>1. CASE build' = build
    BY <2>1 DEF LaneOnLiveEngine
  <2>2. CASE build' = build + 1 /\ OwnsGate(r)
    BY <2>2, OwnerAlone DEF LaneOnLiveEngine
  <2> QED
    BY <2>1, <2>2
<1> QED
  BY <1>1, <1>2, <1>3, <1>4, <1>5, <1>6, <1>7, <1>8, <1>9

(* Steps that only take or leave a lock. *)
WantFence(r) ==
    /\ pc[r] = "idle"
    /\ op[r] \in FenceOps
    /\ Goto(r, "wantFence")
    /\ UNCHANGED <<store, nodeVars, lockVars, fatal, op, snap, told>>

LockStep(r) ==
    \/ LaneEnter(r) \/ LaneCheck(r) \/ MutationCheck(r) \/ WantFence(r)
    \/ FenceEnter(r) \/ FenceCheck(r) \/ MutateLock(r) \/ MutateRecheck(r)
    \/ Reserve(r) \/ ReserveFromLane(r) \/ ReserveHeld(r) \/ ReleaseLane(r)
    \/ RestartFence(r) \/ RestartLock(r) \/ EndRestart(r) \/ Release(r) \/ Again(r)

\* A step that takes or leaves a lock keeps the order of the locks.
LEMMA LockKeepsGate ==
    ASSUME GateAssumption, GateInv, NEW r \in Requests, LockStep(r)
    PROVE  GateInv'
<1> USE DEF GateInv, GateAssumption, lockVars, nodeVars, Goto, Holders, Fits,
            Around, Fenced, OwnsGate, InDoubt, Ops, LaneOps, FenceOps,
            RestartOps, RestoreOps
<1>f. Fits(op[r], pc[r])
  BY DEF EachFits
<1>o. op[r] \in Ops /\ op \in [Requests -> Ops] /\ pc \in [Requests -> Steps]
  BY DEF TypeOK
<1>1. CASE LaneEnter(r)
  <2>1. TypeOK'
    BY <1>f, <1>o, <1>1 DEF LaneEnter, RLock, TypeOK, Steps
  <2>2. OneRestartOwner'
    BY <1>f, <1>o, <1>1 DEF LaneEnter, RLock, TypeOK, OneRestartOwner
  <2>3. EachFits'
    BY <1>f, <1>o, <1>1 DEF LaneEnter, RLock, EachFits
  <2>4. OwnersWrite'
    BY <1>f, <1>o, <1>1 DEF LaneEnter, RLock, TypeOK, OwnersWrite
  <2>5. WriterAlone'
    BY <1>f, <1>o, <1>1 DEF LaneEnter, RLock, TypeOK, WriterAlone,
       OwnersWrite
  <2>6. LanesRead'
    BY <1>f, <1>o, <1>1 DEF LaneEnter, RLock, TypeOK, LanesRead,
       WriterAlone, OwnersWrite
  <2>7. ChainInLane'
    BY <1>f, <1>o, <1>1 DEF LaneEnter, RLock, TypeOK, ChainInLane
  <2>8. DoubtReserved'
    BY <1>f, <1>o, <1>1 DEF LaneEnter, RLock, TypeOK, DoubtReserved
  <2>9. LaneOnLiveEngine'
    BY <1>f, <1>o, <1>1 DEF LaneEnter, RLock, TypeOK, LaneOnLiveEngine
  <2> QED
    BY <2>1, <2>2, <2>3, <2>4, <2>5, <2>6, <2>7, <2>8, <2>9
<1>2. CASE LaneCheck(r)
  <2>1. TypeOK'
    BY <1>f, <1>o, <1>2 DEF LaneCheck, Body, TypeOK, Steps
  <2>2. OneRestartOwner'
    BY <1>f, <1>o, <1>2 DEF LaneCheck, Body, TypeOK, OneRestartOwner
  <2>3. EachFits'
    BY <1>f, <1>o, <1>2 DEF LaneCheck, Body, EachFits
  <2>4. OwnersWrite'
    BY <1>f, <1>o, <1>2 DEF LaneCheck, Body, TypeOK, OwnersWrite
  <2>5. WriterAlone'
    BY <1>f, <1>o, <1>2 DEF LaneCheck, Body, TypeOK, WriterAlone,
       OwnersWrite
  <2>6. LanesRead'
    BY <1>f, <1>o, <1>2 DEF LaneCheck, Body, TypeOK, LanesRead,
       WriterAlone, OwnersWrite
  <2>7. ChainInLane'
    BY <1>f, <1>o, <1>2 DEF LaneCheck, Body, TypeOK, ChainInLane
  <2>8. DoubtReserved'
    BY <1>f, <1>o, <1>2 DEF LaneCheck, Body, TypeOK, DoubtReserved
  <2>9. LaneOnLiveEngine'
    BY <1>f, <1>o, <1>2 DEF LaneCheck, Body, TypeOK, LaneOnLiveEngine
  <2> QED
    BY <2>1, <2>2, <2>3, <2>4, <2>5, <2>6, <2>7, <2>8, <2>9
<1>3. CASE MutationCheck(r)
  <2>1. TypeOK'
    BY <1>f, <1>o, <1>3 DEF MutationCheck, TypeOK, Steps
  <2>2. OneRestartOwner'
    BY <1>f, <1>o, <1>3 DEF MutationCheck, TypeOK, OneRestartOwner
  <2>3. EachFits'
    BY <1>f, <1>o, <1>3 DEF MutationCheck, EachFits
  <2>4. OwnersWrite'
    BY <1>f, <1>o, <1>3 DEF MutationCheck, TypeOK, OwnersWrite
  <2>5. WriterAlone'
    BY <1>f, <1>o, <1>3 DEF MutationCheck, TypeOK, WriterAlone,
       OwnersWrite
  <2>6. LanesRead'
    BY <1>f, <1>o, <1>3 DEF MutationCheck, TypeOK, LanesRead, WriterAlone,
       OwnersWrite
  <2>7. ChainInLane'
    BY <1>f, <1>o, <1>3 DEF MutationCheck, TypeOK, ChainInLane
  <2>8. DoubtReserved'
    BY <1>f, <1>o, <1>3 DEF MutationCheck, TypeOK, DoubtReserved
  <2>9. LaneOnLiveEngine'
    BY <1>f, <1>o, <1>3 DEF MutationCheck, TypeOK, LaneOnLiveEngine
  <2> QED
    BY <2>1, <2>2, <2>3, <2>4, <2>5, <2>6, <2>7, <2>8, <2>9
<1>4. CASE WantFence(r)
  <2>1. TypeOK'
    BY <1>f, <1>o, <1>4 DEF WantFence, TypeOK, Steps
  <2>2. OneRestartOwner'
    BY <1>f, <1>o, <1>4 DEF WantFence, TypeOK, OneRestartOwner
  <2>3. EachFits'
    BY <1>f, <1>o, <1>4 DEF WantFence, EachFits
  <2>4. OwnersWrite'
    BY <1>f, <1>o, <1>4 DEF WantFence, TypeOK, OwnersWrite
  <2>5. WriterAlone'
    BY <1>f, <1>o, <1>4 DEF WantFence, TypeOK, WriterAlone, OwnersWrite
  <2>6. LanesRead'
    BY <1>f, <1>o, <1>4 DEF WantFence, TypeOK, LanesRead, WriterAlone,
       OwnersWrite
  <2>7. ChainInLane'
    BY <1>f, <1>o, <1>4 DEF WantFence, TypeOK, ChainInLane
  <2>8. DoubtReserved'
    BY <1>f, <1>o, <1>4 DEF WantFence, TypeOK, DoubtReserved
  <2>9. LaneOnLiveEngine'
    BY <1>f, <1>o, <1>4 DEF WantFence, TypeOK, LaneOnLiveEngine
  <2> QED
    BY <2>1, <2>2, <2>3, <2>4, <2>5, <2>6, <2>7, <2>8, <2>9
<1>5. CASE FenceEnter(r)
  <2>1. TypeOK'
    BY <1>f, <1>o, <1>5 DEF FenceEnter, Announce, TypeOK, Steps
  <2>2. OneRestartOwner'
    BY <1>f, <1>o, <1>5 DEF FenceEnter, Announce, TypeOK, OneRestartOwner
  <2>3. EachFits'
    BY <1>f, <1>o, <1>5 DEF FenceEnter, Announce, EachFits
  <2>4. OwnersWrite'
    BY <1>f, <1>o, <1>5 DEF FenceEnter, Announce, TypeOK, OwnersWrite
  <2>5. WriterAlone'
    BY <1>f, <1>o, <1>5 DEF FenceEnter, Announce, TypeOK, WriterAlone,
       OwnersWrite
  <2>6. LanesRead'
    BY <1>f, <1>o, <1>5 DEF FenceEnter, Announce, TypeOK, LanesRead,
       WriterAlone, OwnersWrite
  <2>7. ChainInLane'
    BY <1>f, <1>o, <1>5 DEF FenceEnter, Announce, TypeOK, ChainInLane
  <2>8. DoubtReserved'
    BY <1>f, <1>o, <1>5 DEF FenceEnter, Announce, TypeOK, DoubtReserved
  <2>9. LaneOnLiveEngine'
    BY <1>f, <1>o, <1>5 DEF FenceEnter, Announce, TypeOK, LaneOnLiveEngine
  <2> QED
    BY <2>1, <2>2, <2>3, <2>4, <2>5, <2>6, <2>7, <2>8, <2>9
<1>6. CASE FenceCheck(r)
  <2>1. TypeOK'
    BY <1>f, <1>o, <1>6 DEF FenceCheck, Drained, TypeOK, Steps
  <2>2. OneRestartOwner'
    BY <1>f, <1>o, <1>6 DEF FenceCheck, Drained, TypeOK, OneRestartOwner
  <2>3. EachFits'
    BY <1>f, <1>o, <1>6 DEF FenceCheck, Drained, EachFits
  <2>4. OwnersWrite'
    BY <1>f, <1>o, <1>6 DEF FenceCheck, Drained, TypeOK, OwnersWrite
  <2>5. WriterAlone'
    BY <1>f, <1>o, <1>6 DEF FenceCheck, Drained, TypeOK, WriterAlone,
       OwnersWrite
  <2>6. LanesRead'
    BY <1>f, <1>o, <1>6 DEF FenceCheck, Drained, TypeOK, LanesRead,
       WriterAlone, OwnersWrite
  <2>7. ChainInLane'
    BY <1>f, <1>o, <1>6 DEF FenceCheck, Drained, TypeOK, ChainInLane
  <2>8. DoubtReserved'
    BY <1>f, <1>o, <1>6 DEF FenceCheck, Drained, TypeOK, DoubtReserved
  <2>9. LaneOnLiveEngine'
    BY <1>f, <1>o, <1>6 DEF FenceCheck, Drained, TypeOK, LaneOnLiveEngine
  <2> QED
    BY <2>1, <2>2, <2>3, <2>4, <2>5, <2>6, <2>7, <2>8, <2>9
<1>7. CASE MutateLock(r)
  <2>1. TypeOK'
    BY <1>f, <1>o, <1>7 DEF MutateLock, TypeOK, Steps
  <2>2. OneRestartOwner'
    BY <1>f, <1>o, <1>7 DEF MutateLock, TypeOK, OneRestartOwner
  <2>3. EachFits'
    BY <1>f, <1>o, <1>7 DEF MutateLock, EachFits
  <2>4. OwnersWrite'
    BY <1>f, <1>o, <1>7 DEF MutateLock, TypeOK, OwnersWrite
  <2>5. WriterAlone'
    BY <1>f, <1>o, <1>7 DEF MutateLock, TypeOK, WriterAlone, OwnersWrite
  <2>6. LanesRead'
    BY <1>f, <1>o, <1>7 DEF MutateLock, TypeOK, LanesRead, WriterAlone,
       OwnersWrite
  <2>7. ChainInLane'
    BY <1>f, <1>o, <1>7 DEF MutateLock, TypeOK, ChainInLane
  <2>8. DoubtReserved'
    BY <1>f, <1>o, <1>7 DEF MutateLock, TypeOK, DoubtReserved
  <2>9. LaneOnLiveEngine'
    BY <1>f, <1>o, <1>7 DEF MutateLock, TypeOK, LaneOnLiveEngine
  <2> QED
    BY <2>1, <2>2, <2>3, <2>4, <2>5, <2>6, <2>7, <2>8, <2>9
<1>8. CASE MutateRecheck(r)
  <2>1. TypeOK'
    BY <1>f, <1>o, <1>8 DEF MutateRecheck, Body, TypeOK, Steps
  <2>2. OneRestartOwner'
    BY <1>f, <1>o, <1>8 DEF MutateRecheck, Body, TypeOK, OneRestartOwner
  <2>3. EachFits'
    BY <1>f, <1>o, <1>8 DEF MutateRecheck, Body, EachFits
  <2>4. OwnersWrite'
    BY <1>f, <1>o, <1>8 DEF MutateRecheck, Body, TypeOK, OwnersWrite
  <2>5. WriterAlone'
    BY <1>f, <1>o, <1>8 DEF MutateRecheck, Body, TypeOK, WriterAlone,
       OwnersWrite
  <2>6. LanesRead'
    BY <1>f, <1>o, <1>8 DEF MutateRecheck, Body, TypeOK, LanesRead,
       WriterAlone, OwnersWrite
  <2>7. ChainInLane'
    BY <1>f, <1>o, <1>8 DEF MutateRecheck, Body, TypeOK, ChainInLane
  <2>8. DoubtReserved'
    BY <1>f, <1>o, <1>8 DEF MutateRecheck, Body, TypeOK, DoubtReserved
  <2>9. LaneOnLiveEngine'
    BY <1>f, <1>o, <1>8 DEF MutateRecheck, Body, TypeOK, LaneOnLiveEngine
  <2> QED
    BY <2>1, <2>2, <2>3, <2>4, <2>5, <2>6, <2>7, <2>8, <2>9
<1>9. CASE Reserve(r)
  <2>1. TypeOK'
    BY <1>f, <1>o, <1>9 DEF Reserve, TypeOK, Steps
  <2>2. OneRestartOwner'
    BY <1>f, <1>o, <1>9 DEF Reserve, TypeOK, OneRestartOwner
  <2>3. EachFits'
    BY <1>f, <1>o, <1>9 DEF Reserve, EachFits
  <2>4. OwnersWrite'
    BY <1>f, <1>o, <1>9 DEF Reserve, TypeOK, OwnersWrite
  <2>5. WriterAlone'
    BY <1>f, <1>o, <1>9 DEF Reserve, TypeOK, WriterAlone, OwnersWrite
  <2>6. LanesRead'
    BY <1>f, <1>o, <1>9 DEF Reserve, TypeOK, LanesRead, WriterAlone,
       OwnersWrite
  <2>7. ChainInLane'
    BY <1>f, <1>o, <1>9 DEF Reserve, TypeOK, ChainInLane
  <2>8. DoubtReserved'
    BY <1>f, <1>o, <1>9 DEF Reserve, TypeOK, DoubtReserved
  <2>9. LaneOnLiveEngine'
    BY <1>f, <1>o, <1>9 DEF Reserve, TypeOK, LaneOnLiveEngine
  <2> QED
    BY <2>1, <2>2, <2>3, <2>4, <2>5, <2>6, <2>7, <2>8, <2>9
<1>10. CASE ReserveFromLane(r)
  <2>1. TypeOK'
    BY <1>f, <1>o, <1>10 DEF ReserveFromLane, TypeOK, Steps
  <2>2. OneRestartOwner'
    BY <1>f, <1>o, <1>10 DEF ReserveFromLane, TypeOK, OneRestartOwner
  <2>3. EachFits'
    BY <1>f, <1>o, <1>10 DEF ReserveFromLane, EachFits
  <2>4. OwnersWrite'
    BY <1>f, <1>o, <1>10 DEF ReserveFromLane, TypeOK, OwnersWrite
  <2>5. WriterAlone'
    BY <1>f, <1>o, <1>10 DEF ReserveFromLane, TypeOK, WriterAlone,
       OwnersWrite
  <2>6. LanesRead'
    BY <1>f, <1>o, <1>10 DEF ReserveFromLane, TypeOK, LanesRead,
       WriterAlone, OwnersWrite
  <2>7. ChainInLane'
    BY <1>f, <1>o, <1>10 DEF ReserveFromLane, TypeOK, ChainInLane
  <2>8. DoubtReserved'
    BY <1>f, <1>o, <1>10 DEF ReserveFromLane, TypeOK, DoubtReserved
  <2>9. LaneOnLiveEngine'
    BY <1>f, <1>o, <1>10 DEF ReserveFromLane, TypeOK, LaneOnLiveEngine
  <2> QED
    BY <2>1, <2>2, <2>3, <2>4, <2>5, <2>6, <2>7, <2>8, <2>9
<1>11. CASE ReserveHeld(r)
  <2>1. TypeOK'
    BY <1>f, <1>o, <1>11 DEF ReserveHeld, TypeOK, Steps
  <2>2. OneRestartOwner'
    BY <1>f, <1>o, <1>11 DEF ReserveHeld, TypeOK, OneRestartOwner
  <2>3. EachFits'
    BY <1>f, <1>o, <1>11 DEF ReserveHeld, EachFits
  <2>4. OwnersWrite'
    BY <1>f, <1>o, <1>11 DEF ReserveHeld, TypeOK, OwnersWrite
  <2>5. WriterAlone'
    BY <1>f, <1>o, <1>11 DEF ReserveHeld, TypeOK, WriterAlone, OwnersWrite
  <2>6. LanesRead'
    BY <1>f, <1>o, <1>11 DEF ReserveHeld, TypeOK, LanesRead, WriterAlone,
       OwnersWrite
  <2>7. ChainInLane'
    BY <1>f, <1>o, <1>11 DEF ReserveHeld, TypeOK, ChainInLane
  <2>8. DoubtReserved'
    BY <1>f, <1>o, <1>11 DEF ReserveHeld, TypeOK, DoubtReserved
  <2>9. LaneOnLiveEngine'
    BY <1>f, <1>o, <1>11 DEF ReserveHeld, TypeOK, LaneOnLiveEngine
  <2> QED
    BY <2>1, <2>2, <2>3, <2>4, <2>5, <2>6, <2>7, <2>8, <2>9
<1>12. CASE ReleaseLane(r)
  <2>1. TypeOK'
    BY <1>f, <1>o, <1>12 DEF ReleaseLane, TypeOK, Steps
  <2>2. OneRestartOwner'
    BY <1>f, <1>o, <1>12 DEF ReleaseLane, TypeOK, OneRestartOwner
  <2>3. EachFits'
    BY <1>f, <1>o, <1>12 DEF ReleaseLane, EachFits
  <2>4. OwnersWrite'
    BY <1>f, <1>o, <1>12 DEF ReleaseLane, TypeOK, OwnersWrite
  <2>5. WriterAlone'
    BY <1>f, <1>o, <1>12 DEF ReleaseLane, TypeOK, WriterAlone, OwnersWrite
  <2>6. LanesRead'
    BY <1>f, <1>o, <1>12 DEF ReleaseLane, TypeOK, LanesRead, WriterAlone,
       OwnersWrite
  <2>7. ChainInLane'
    BY <1>f, <1>o, <1>12 DEF ReleaseLane, TypeOK, ChainInLane
  <2>8. DoubtReserved'
    BY <1>f, <1>o, <1>12 DEF ReleaseLane, TypeOK, DoubtReserved
  <2>9. LaneOnLiveEngine'
    BY <1>f, <1>o, <1>12 DEF ReleaseLane, TypeOK, LaneOnLiveEngine
  <2> QED
    BY <2>1, <2>2, <2>3, <2>4, <2>5, <2>6, <2>7, <2>8, <2>9
<1>13. CASE RestartFence(r)
  <2>1. TypeOK'
    BY <1>f, <1>o, <1>13 DEF RestartFence, Announce, TypeOK, Steps
  <2>2. OneRestartOwner'
    BY <1>f, <1>o, <1>13 DEF RestartFence, Announce, TypeOK,
       OneRestartOwner
  <2>3. EachFits'
    BY <1>f, <1>o, <1>13 DEF RestartFence, Announce, EachFits
  <2>4. OwnersWrite'
    BY <1>f, <1>o, <1>13 DEF RestartFence, Announce, TypeOK, OwnersWrite
  <2>5. WriterAlone'
    BY <1>f, <1>o, <1>13 DEF RestartFence, Announce, TypeOK, WriterAlone,
       OwnersWrite
  <2>6. LanesRead'
    BY <1>f, <1>o, <1>13 DEF RestartFence, Announce, TypeOK, LanesRead,
       WriterAlone, OwnersWrite
  <2>7. ChainInLane'
    BY <1>f, <1>o, <1>13 DEF RestartFence, Announce, TypeOK, ChainInLane
  <2>8. DoubtReserved'
    BY <1>f, <1>o, <1>13 DEF RestartFence, Announce, TypeOK, DoubtReserved
  <2>9. LaneOnLiveEngine'
    BY <1>f, <1>o, <1>13 DEF RestartFence, Announce, TypeOK,
       LaneOnLiveEngine
  <2> QED
    BY <2>1, <2>2, <2>3, <2>4, <2>5, <2>6, <2>7, <2>8, <2>9
<1>14. CASE RestartLock(r)
  <2>1. TypeOK'
    BY <1>f, <1>o, <1>14 DEF RestartLock, Drained, Body, TypeOK, Steps
  <2>2. OneRestartOwner'
    BY <1>f, <1>o, <1>14 DEF RestartLock, Drained, Body, TypeOK,
       OneRestartOwner
  <2>3. EachFits'
    BY <1>f, <1>o, <1>14 DEF RestartLock, Drained, Body, EachFits
  <2>4. OwnersWrite'
    BY <1>f, <1>o, <1>14 DEF RestartLock, Drained, Body, TypeOK,
       OwnersWrite
  <2>5. WriterAlone'
    BY <1>f, <1>o, <1>14 DEF RestartLock, Drained, Body, TypeOK,
       WriterAlone, OwnersWrite
  <2>6. LanesRead'
    BY <1>f, <1>o, <1>14 DEF RestartLock, Drained, Body, TypeOK,
       LanesRead, WriterAlone, OwnersWrite
  <2>7. ChainInLane'
    BY <1>f, <1>o, <1>14 DEF RestartLock, Drained, Body, TypeOK,
       ChainInLane
  <2>8. DoubtReserved'
    BY <1>f, <1>o, <1>14 DEF RestartLock, Drained, Body, TypeOK,
       DoubtReserved
  <2>9. LaneOnLiveEngine'
    BY <1>f, <1>o, <1>14 DEF RestartLock, Drained, Body, TypeOK,
       LaneOnLiveEngine
  <2> QED
    BY <2>1, <2>2, <2>3, <2>4, <2>5, <2>6, <2>7, <2>8, <2>9
<1>15. CASE EndRestart(r)
  <2>1. TypeOK'
    BY <1>f, <1>o, <1>15 DEF EndRestart, TypeOK, Steps
  <2>2. OneRestartOwner'
    BY <1>f, <1>o, <1>15 DEF EndRestart, TypeOK, OneRestartOwner
  <2>3. EachFits'
    BY <1>f, <1>o, <1>15 DEF EndRestart, EachFits
  <2>4. OwnersWrite'
    BY <1>f, <1>o, <1>15 DEF EndRestart, TypeOK, OwnersWrite
  <2>5. WriterAlone'
    BY <1>f, <1>o, <1>15 DEF EndRestart, TypeOK, WriterAlone, OwnersWrite
  <2>6. LanesRead'
    BY <1>f, <1>o, <1>15 DEF EndRestart, TypeOK, LanesRead, WriterAlone,
       OwnersWrite
  <2>7. ChainInLane'
    BY <1>f, <1>o, <1>15 DEF EndRestart, TypeOK, ChainInLane
  <2>8. DoubtReserved'
    BY <1>f, <1>o, <1>15 DEF EndRestart, TypeOK, DoubtReserved
  <2>9. LaneOnLiveEngine'
    BY <1>f, <1>o, <1>15 DEF EndRestart, TypeOK, LaneOnLiveEngine
  <2> QED
    BY <2>1, <2>2, <2>3, <2>4, <2>5, <2>6, <2>7, <2>8, <2>9
<1>16. CASE Release(r)
  <2>1. TypeOK'
    BY <1>f, <1>o, <1>16 DEF Release, Unlocked, TypeOK, Steps
  <2>2. OneRestartOwner'
    BY <1>f, <1>o, <1>16 DEF Release, Unlocked, TypeOK, OneRestartOwner
  <2>3. EachFits'
    BY <1>f, <1>o, <1>16 DEF Release, Unlocked, EachFits
  <2>4. OwnersWrite'
    BY <1>f, <1>o, <1>16 DEF Release, Unlocked, TypeOK, OwnersWrite
  <2>5. WriterAlone'
    BY <1>f, <1>o, <1>16 DEF Release, Unlocked, TypeOK, WriterAlone,
       OwnersWrite
  <2>6. LanesRead'
    BY <1>f, <1>o, <1>16 DEF Release, Unlocked, TypeOK, LanesRead,
       WriterAlone, OwnersWrite
  <2>7. ChainInLane'
    BY <1>f, <1>o, <1>16 DEF Release, Unlocked, TypeOK, ChainInLane
  <2>8. DoubtReserved'
    BY <1>f, <1>o, <1>16 DEF Release, Unlocked, TypeOK, DoubtReserved
  <2>9. LaneOnLiveEngine'
    BY <1>f, <1>o, <1>16 DEF Release, Unlocked, TypeOK, LaneOnLiveEngine
  <2> QED
    BY <2>1, <2>2, <2>3, <2>4, <2>5, <2>6, <2>7, <2>8, <2>9
<1>17. CASE Again(r)
  <2>1. TypeOK'
    BY <1>f, <1>o, <1>17 DEF Again, TypeOK, Steps
  <2>2. OneRestartOwner'
    BY <1>f, <1>o, <1>17 DEF Again, TypeOK, OneRestartOwner
  <2>3. EachFits'
    BY <1>f, <1>o, <1>17 DEF Again, EachFits
  <2>4. OwnersWrite'
    BY <1>f, <1>o, <1>17 DEF Again, TypeOK, OwnersWrite
  <2>5. WriterAlone'
    BY <1>f, <1>o, <1>17 DEF Again, TypeOK, WriterAlone, OwnersWrite
  <2>6. LanesRead'
    BY <1>f, <1>o, <1>17 DEF Again, TypeOK, LanesRead, WriterAlone,
       OwnersWrite
  <2>7. ChainInLane'
    BY <1>f, <1>o, <1>17 DEF Again, TypeOK, ChainInLane
  <2>8. DoubtReserved'
    BY <1>f, <1>o, <1>17 DEF Again, TypeOK, DoubtReserved
  <2>9. LaneOnLiveEngine'
    BY <1>f, <1>o, <1>17 DEF Again, TypeOK, LaneOnLiveEngine
  <2> QED
    BY <2>1, <2>2, <2>3, <2>4, <2>5, <2>6, <2>7, <2>8, <2>9
<1>18. QED
  BY <1>1, <1>2, <1>3, <1>4, <1>5, <1>6, <1>7, <1>8, <1>9, <1>10, <1>11,
     <1>12, <1>13, <1>14, <1>15, <1>16, <1>17 DEF LockStep

\* A restarted process holds no lock.
LEMMA ExitKeepsGate ==
    ASSUME GateAssumption, GateInv, Exit
    PROVE  GateInv'
<1> USE DEF GateInv, GateAssumption, Exit
<1>1. TypeOK'
  <2>1. gate' \in [readers : SUBSET Requests, waiting : SUBSET Requests,
                   writer : Holders]
    BY DEF Holders
  <2>2. pc' \in [Requests -> Steps]
    BY DEF Steps
  <2>3. /\ store' \in SUBSET Facts /\ engine' \in SUBSET Facts
        /\ build' \in Nat \ {0} /\ mutate' \in Holders /\ restarting' \in Holders
        /\ op' \in [Requests -> Ops]
        /\ deferred' \in SUBSET Requests /\ told' \in SUBSET Requests
        /\ snap' \in [Requests -> SUBSET Facts]
    BY DEF TypeOK, Holders
  <2>4. lane' \in [Requests -> Nat]
    OBVIOUS
  <2>5. fatal' \in BOOLEAN
    OBVIOUS
  <2> QED
    BY <2>1, <2>2, <2>3, <2>4, <2>5 DEF TypeOK
<1>2. EachFits'
  BY DEF EachFits, Fits, Around, Fenced
<1>3. /\ OneRestartOwner' /\ OwnersWrite' /\ WriterAlone' /\ LanesRead'
      /\ ChainInLane' /\ DoubtReserved' /\ LaneOnLiveEngine'
  BY DEF OneRestartOwner, OwnersWrite, OwnsGate, WriterAlone, LanesRead,
         ChainInLane, DoubtReserved, InDoubt, LaneOnLiveEngine, LaneOps
<1> QED
  BY <1>1, <1>2, <1>3

\* Every step is a restart of the process, a lock step or a step under locks.
LEMMA StepKinds ==
    ASSUME Next
    PROVE  Exit \/ \E r \in Requests : LockStep(r) \/ BodyStep(r)
  BY DEF Next, Issue, Step, Again, LockStep, BodyStep, WantFence

\* Every step keeps the order of the locks.
LEMMA NextGate == GateAssumption /\ GateInv /\ [Next]_vars => GateInv'
<1> SUFFICES ASSUME GateAssumption, GateInv, [Next]_vars PROVE GateInv'
  OBVIOUS
<1>1. CASE Exit
  BY <1>1, ExitKeepsGate
<1>2. ASSUME NEW r \in Requests, LockStep(r) PROVE GateInv'
  BY <1>2, LockKeepsGate
<1>3. ASSUME NEW r \in Requests, BodyStep(r) PROVE GateInv'
  BY <1>3, BodyWorks, BodyWrites, WorkKeepsGate DEF GateInv
<1>4. CASE UNCHANGED vars
  BY <1>4 DEF vars, GateInv, TypeOK, OneRestartOwner, EachFits, OwnersWrite,
              OwnsGate, WriterAlone, LanesRead, ChainInLane, DoubtReserved,
              InDoubt, LaneOnLiveEngine
<1> QED
  BY <1>1, <1>2, <1>3, <1>4, StepKinds

\* The order of the locks holds throughout (laneGate, beginLane, beginMutation,
\* beginEngineRestart and what follows them).
THEOREM GateInvHolds == Spec => []GateInv
<1>1. Init => GateInv
  BY InitGate, GateAssumption
<1>2. GateInv /\ [Next]_vars => GateInv'
  BY NextGate, GateAssumption
<1> QED
  BY <1>1, <1>2, PTL DEF Spec

\* The variables of the gates have their types.
THEOREM TypeCorrect == Spec => []TypeOK
<1>1. GateInv => TypeOK
  BY DEF GateInv
<1> QED
  BY <1>1, GateInvHolds, PTL

\* The restart flag belongs to the request that will clear it, whichever way it
\* reserved the restart: at once, from a lane or with its locks held.
THEOREM RestartOwned == Spec => []OneRestartOwner
<1>1. GateInv => OneRestartOwner
  BY DEF GateInv
<1> QED
  BY <1>1, GateInvHolds, PTL

\* No rebuild, by whatever request or failure, replaces an engine that a request
\* in a lane still works on.
THEOREM LanesAreLive == Spec => []LaneOnLiveEngine
<1>1. GateInv => LaneOnLiveEngine
  BY DEF GateInv
<1> QED
  BY <1>1, GateInvHolds, PTL

\* No step but admission gives a lane, and admission asks for the flag.
LEMMA NoLaneInDoubt ==
    ASSUME GateAssumption, GateInv, Next,
           NEW q \in Requests, InDoubt(q),
           NEW p \in Requests, lane[p] = 0
    PROVE  lane'[p] = 0
<1>1. restarting # NoRequest
  BY GateAssumption DEF GateInv, DoubtReserved, OneRestartOwner
<1>2. CASE Exit
  BY <1>2 DEF Exit
<1>3. ASSUME NEW r \in Requests, BodyStep(r) PROVE lane'[p] = 0
  BY <1>3, BodyWorks DEF Works, lockVars
<1>4. ASSUME NEW r \in Requests, LockStep(r) PROVE lane'[p] = 0
  <2>1. lane \in [Requests -> Nat]
    BY DEF GateInv, TypeOK
  <2> QED
    BY <1>1, <1>4, <2>1
       DEF LockStep, LaneEnter, LaneCheck, MutationCheck, WantFence, FenceEnter,
           FenceCheck, MutateLock, MutateRecheck, Reserve, ReserveFromLane,
           ReserveHeld, ReleaseLane, RestartFence, RestartLock, EndRestart,
           Release, Again, lockVars
<1> QED
  BY <1>2, <1>3, <1>4, StepKinds

\* From the reservation of a restart by a lane whose chain left the engine in
\* doubt until the rebuild has ended, no request is admitted to a lane.
THEOREM DoubtAdmitsNone == Spec => NoAdmissionIntoDoubt
<1>1. GateInv /\ [Next]_vars =>
          [(\E q \in Requests : InDoubt(q)) =>
              \A r \in Requests : lane[r] = 0 => lane'[r] = 0]_vars
  BY NoLaneInDoubt, GateAssumption
<1> QED
  BY <1>1, GateInvHolds, PTL DEF Spec, NoAdmissionIntoDoubt

-----------------------------------------------------------------------------
(* The two copies.                                                           *)

\* What one request does, undoes or publishes leaves another's facts alone.
LEMMA Apart ==
    ASSUME NEW r \in Requests, NEW q \in Requests, q # r, NEW facts
    PROVE  /\ Content(q) \cap Done(r, facts) = Content(q) \cap facts
           /\ Content(q) \cap Undone(r, facts) = Content(q) \cap facts
           /\ Content(q) \cap (facts \cup {<<r, "alias">>}) = Content(q) \cap facts
           /\ Content(q) \cap (facts \ {<<r, "alias">>}) = Content(q) \cap facts
<1>1. \A x \in Content(q) : x \notin Content(r) /\ x # <<r, "alias">>
  BY ContentOwn
<1> QED
  BY <1>1 DEF Done, Undone

\* A change done is there in full, and one undone is gone.
LEMMA DoneIsFull ==
    ASSUME NEW r \in Requests, NEW facts
    PROVE  /\ Full(r, Done(r, facts))
           /\ Removes(r) \/ Clean(r, Undone(r, facts))
  BY DEF Full, Clean, Done, Undone

\* Some requests change no fact.
LEMMA NoContent ==
    ASSUME NEW r \in Requests, op[r] \in {"note", "restoreRows", "reset"}
    PROVE  /\ Content(r) = {}
           /\ \A facts : Done(r, facts) = facts /\ Undone(r, facts) = facts
<1>1. Content(r) = {}
  BY DEF Content
<1> QED
  BY <1>1 DEF Done, Undone

\* An engine changed in a lane is the one that serves.
LEMMA ChangedLive ==
    ASSUME LaneOnLiveEngine, NEW r \in Requests, NEW facts
    PROVE  Changed(r, facts) = facts
  BY DEF Changed, LaneOnLiveEngine

\* The history of answers, and the process's end, are not taken back.
LEMMA BodyKeepsAnswers ==
    ASSUME NEW r \in Requests, BodyStep(r)
    PROVE  (fatal => fatal') /\ told \subseteq told'
<1> USE DEF bodyFixed, Return, ReturnUnsafe, Fatal, Continue
<1>1. CASE Apply(r)
  BY <1>1 DEF Apply, Applied, Uncertain, RunLaneChain, SetAccountBlocked,
     SetAccountGroup, SetGroupBlocked, SetGroupCurrency
<1>2. CASE Persist(r)
  BY <1>2 DEF Persist
<1>3. CASE Audit(r)
  BY <1>3 DEF Audit
<1>4. CASE Commit(r)
  BY <1>4 DEF Commit
<1>5. CASE Publish(r)
  BY <1>5 DEF Publish
<1>6. CASE Undo(r)
  BY <1>6 DEF Undo
<1>7. CASE DropAudit(r)
  BY <1>7 DEF DropAudit
<1>8. CASE Initial(r)
  BY <1>8 DEF Initial
<1>9. CASE Compensate(r)
  BY <1>9 DEF Compensate
<1>10. CASE UndoRebuild(r)
  BY <1>10 DEF UndoRebuild
<1>11. CASE Configure(r)
  BY <1>11 DEF Configure, PutLimit, PutPnlBounds, SetLimitMode, Configured,
     Refused
<1>12. CASE Revert(r)
  BY <1>12 DEF Revert
<1>13. CASE Build(r)
  BY <1>13 DEF Build
<1>14. CASE Install(r)
  BY <1>14 DEF Install
<1>15. CASE Rebuild(r)
  BY <1>15 DEF Rebuild
<1>16. CASE Mirror(r)
  BY <1>16 DEF Mirror, AfterSwap
<1>17. CASE LastRebuild(r)
  BY <1>17 DEF LastRebuild
<1>18. CASE ResetDatabase(r)
  BY <1>18 DEF ResetDatabase
<1>19. CASE Classify(r)
  BY <1>19 DEF Classify
<1>20. CASE Import(r)
  BY <1>20 DEF Import
<1>21. CASE Plan(r)
  BY <1>21 DEF Plan
<1>22. CASE Unapply(r)
  BY <1>22 DEF Unapply
<1>23. QED
  BY <1>1, <1>2, <1>3, <1>4, <1>5, <1>6, <1>7, <1>8, <1>9, <1>10, <1>11,
     <1>12, <1>13, <1>14, <1>15, <1>16, <1>17, <1>18, <1>19, <1>20, <1>21,
     <1>22 DEF BodyStep

(* The three ways in which a step under locks touches the others' facts. *)
SparesOthers(r) ==
    /\ \A q \in Requests \ {r} :
           /\ Content(q) \cap store' = Content(q) \cap store
           /\ Content(q) \cap engine' = Content(q) \cap engine
    /\ op[r] = "reset" /\ pc[r] = "rebuild" => fatal'

Replaces(r) ==
    /\ OwnsGate(r) /\ pc[r] \notin {"fence", "restartFence"}
    /\ engine' = store'
    /\ \A q \in Requests \ {r} : Content(q) \cap store' = Content(q) \cap store

Empties(r) ==
    /\ op[r] = "reset" /\ pc[r] = "reset"
    /\ store' = {} /\ engine' = engine
    /\ fatal' \/ pc' = [pc EXCEPT ![r] = "rebuild"]

\* A step under locks changes its own facts, replaces the engine by one that
\* holds what the store holds, or empties the store.
LEMMA BodyTouches ==
    ASSUME GateInv, BuiltFromStore, NEW r \in Requests, BodyStep(r)
    PROVE  SparesOthers(r) \/ Replaces(r) \/ Empties(r)
<1> USE DEF nodeVars, Return, ReturnUnsafe, Fatal, Continue, Goto, Fits,
            Around, Fenced, OwnsGate, Ops, LaneOps, FenceOps, RestartOps,
            RestoreOps
<1>f. Fits(op[r], pc[r]) /\ op[r] \in Ops
  BY DEF GateInv, EachFits, TypeOK
<1>l. \A facts : Changed(r, facts) = facts
  BY ChangedLive DEF GateInv
<1>a. \A q \in Requests \ {r} : \A facts :
          /\ Content(q) \cap Done(r, facts) = Content(q) \cap facts
          /\ Content(q) \cap Undone(r, facts) = Content(q) \cap facts
          /\ Content(q) \cap (facts \cup {<<r, "alias">>}) = Content(q) \cap facts
          /\ Content(q) \cap (facts \ {<<r, "alias">>}) = Content(q) \cap facts
  BY Apart
<1>1. CASE Apply(r)
  BY <1>a, <1>l, <1>1 DEF Apply, Applied, Uncertain, RunLaneChain,
     SetAccountBlocked, SetAccountGroup, SetGroupBlocked, SetGroupCurrency,
     SparesOthers
<1>2. CASE Persist(r)
  BY <1>a, <1>l, <1>2 DEF Persist, SparesOthers
<1>3. CASE Audit(r)
  BY <1>a, <1>l, <1>3 DEF Audit, SparesOthers
<1>4. CASE Commit(r)
  BY <1>a, <1>l, <1>4 DEF Commit, SparesOthers
<1>5. CASE Publish(r)
  BY <1>a, <1>l, <1>5 DEF Publish, SparesOthers
<1>6. CASE Undo(r)
  BY <1>a, <1>l, <1>6 DEF Undo, SparesOthers
<1>7. CASE DropAudit(r)
  BY <1>a, <1>l, <1>7 DEF DropAudit, SparesOthers
<1>8. CASE Initial(r)
  BY <1>a, <1>l, <1>8 DEF Initial, SparesOthers
<1>9. CASE Compensate(r)
  BY <1>a, <1>l, <1>9 DEF Compensate, SparesOthers
<1>10. CASE UndoRebuild(r)
  BY <1>a, <1>l, <1>10 DEF UndoRebuild, SparesOthers
<1>11. CASE Configure(r)
  BY <1>a, <1>l, <1>11 DEF Configure, PutLimit, PutPnlBounds, SetLimitMode,
     Configured, Refused, SparesOthers
<1>12. CASE Revert(r)
  BY <1>a, <1>l, <1>12 DEF Revert, SparesOthers
<1>13. CASE Build(r)
  BY <1>a, <1>l, <1>13 DEF Build, SparesOthers
<1>14. CASE Install(r)
  <2>1. snap[r] = Done(r, store)
    BY <1>14 DEF Install, BuiltFromStore
  <2> QED
    BY <1>f, <1>a, <1>14, <2>1 DEF Install, SparesOthers, Replaces
<1>15. CASE Rebuild(r)
  BY <1>f, <1>a, <1>15 DEF Rebuild, SparesOthers, Replaces
<1>16. CASE Mirror(r)
  BY <1>a, <1>l, <1>16 DEF Mirror, AfterSwap, SparesOthers
<1>17. CASE LastRebuild(r)
  BY <1>f, <1>a, <1>17 DEF LastRebuild, SparesOthers, Replaces
<1>18. CASE ResetDatabase(r)
  BY <1>f, <1>18 DEF ResetDatabase, SparesOthers, Empties
<1>19. CASE Classify(r)
  BY <1>a, <1>l, <1>19 DEF Classify, SparesOthers
<1>20. CASE Import(r)
  BY <1>a, <1>l, <1>20 DEF Import, SparesOthers
<1>21. CASE Plan(r)
  BY <1>a, <1>l, <1>21 DEF Plan, SparesOthers
<1>22. CASE Unapply(r)
  BY <1>a, <1>l, <1>22 DEF Unapply, SparesOthers
<1>23. QED
  BY <1>1, <1>2, <1>3, <1>4, <1>5, <1>6, <1>7, <1>8, <1>9, <1>10, <1>11,
     <1>12, <1>13, <1>14, <1>15, <1>16, <1>17, <1>18, <1>19, <1>20, <1>21,
     <1>22 DEF BodyStep

\* Who changes the store owns the gate or is in a lane.
LEMMA StoreChangersHold ==
    ASSUME GateInv, NEW r \in Requests, BodyStep(r), store' # store
    PROVE  /\ OwnsGate(r) \/ lane[r] # 0
           /\ pc[r] \notin {"fence", "restartFence"}
<1> USE DEF nodeVars, Return, ReturnUnsafe, Fatal, Continue, Goto, Fits,
            Around, Fenced, OwnsGate, Ops, LaneOps, FenceOps, RestartOps,
            RestoreOps
<1>f. Fits(op[r], pc[r]) /\ op[r] \in Ops
  BY DEF GateInv, EachFits, TypeOK
<1>n. op[r] \in {"note", "restoreRows", "reset"} =>
          Done(r, store) = store /\ Undone(r, store) = store
  BY NoContent
<1>c. op[r] \in LaneOps /\ pc[r] \in {"apply", "persist"} => lane[r] # 0
  BY DEF GateInv, ChainInLane
<1>1. CASE Apply(r)
  BY <1>1 DEF Apply, Applied, Uncertain, RunLaneChain, SetAccountBlocked,
     SetAccountGroup, SetGroupBlocked, SetGroupCurrency
<1>2. CASE Persist(r)
  BY <1>f, <1>n, <1>c, <1>2 DEF Persist
<1>3. CASE Audit(r)
  BY <1>3 DEF Audit
<1>4. CASE Commit(r)
  BY <1>f, <1>n, <1>c, <1>4 DEF Commit
<1>5. CASE Publish(r)
  BY <1>5 DEF Publish
<1>6. CASE Undo(r)
  BY <1>f, <1>n, <1>c, <1>6 DEF Undo
<1>7. CASE DropAudit(r)
  BY <1>7 DEF DropAudit
<1>8. CASE Initial(r)
  BY <1>8 DEF Initial
<1>9. CASE Compensate(r)
  BY <1>f, <1>n, <1>c, <1>9 DEF Compensate
<1>10. CASE UndoRebuild(r)
  BY <1>f, <1>n, <1>c, <1>10 DEF UndoRebuild
<1>11. CASE Configure(r)
  BY <1>11 DEF Configure, PutLimit, PutPnlBounds, SetLimitMode, Configured,
     Refused
<1>12. CASE Revert(r)
  BY <1>f, <1>n, <1>c, <1>12 DEF Revert
<1>13. CASE Build(r)
  BY <1>13 DEF Build
<1>14. CASE Install(r)
  BY <1>f, <1>n, <1>c, <1>14 DEF Install
<1>15. CASE Rebuild(r)
  BY <1>15 DEF Rebuild
<1>16. CASE Mirror(r)
  BY <1>16 DEF Mirror, AfterSwap
<1>17. CASE LastRebuild(r)
  BY <1>17 DEF LastRebuild
<1>18. CASE ResetDatabase(r)
  BY <1>f, <1>n, <1>c, <1>18 DEF ResetDatabase
<1>19. CASE Classify(r)
  BY <1>19 DEF Classify
<1>20. CASE Import(r)
  BY <1>f, <1>n, <1>c, <1>20 DEF Import
<1>21. CASE Plan(r)
  BY <1>21 DEF Plan
<1>22. CASE Unapply(r)
  BY <1>22 DEF Unapply
<1>23. QED
  BY <1>1, <1>2, <1>3, <1>4, <1>5, <1>6, <1>7, <1>8, <1>9, <1>10, <1>11,
     <1>12, <1>13, <1>14, <1>15, <1>16, <1>17, <1>18, <1>19, <1>20, <1>21,
     <1>22 DEF BodyStep

(* What Staged says of one request. *)
Told(r) == op[r] = "account" \/ r \in told \/ fatal \/ Resetting \/ Stage(r)

\* A step under locks keeps what the others know of their copies.
LEMMA OthersStaged ==
    ASSUME GateInv, BuiltFromStore, NEW r \in Requests, BodyStep(r),
           NEW q \in Requests, q # r, Told(q)
    PROVE  Told(q)'
<1>w. Works(r)
  BY BodyWorks
<1>p. /\ op' = op
      /\ \A p \in Requests : p # r => pc'[p] = pc[p]
  BY <1>w DEF Works, GateInv, TypeOK
<1>c. /\ Content(q)' = Content(q) /\ (Removes(q)' <=> Removes(q))
  BY <1>p DEF Content, Removes
<1>k. (fatal => fatal') /\ told \subseteq told'
  BY BodyKeepsAnswers
<1>1. CASE SparesOthers(r)
  <2>1. /\ Content(q) \cap store' = Content(q) \cap store
        /\ Content(q) \cap engine' = Content(q) \cap engine
    BY <1>1 DEF SparesOthers
  <2>2. Resetting => Resetting' \/ fatal'
    BY <1>1, <1>p DEF Resetting, SparesOthers
  <2>3. Stage(q) => Stage(q)'
    BY <1>p, <1>c, <2>1 DEF Stage, Agree, Full, Clean
  <2> QED
    BY <1>p, <1>k, <2>2, <2>3 DEF Told
<1>2. CASE Replaces(r)
  <2>1. CASE op[q] = "account"
    BY <1>p, <2>1 DEF Told
  <2>2. CASE op[q] # "account"
    <3>1. Agree(q)'
      BY <1>2, <1>c DEF Replaces, Agree
    <3>2. /\ ~ OwnsGate(q) /\ lane[q] = 0
          /\ OwnsGate(r) /\ pc[r] \notin {"fence", "restartFence"}
      BY <1>2, OwnerAlone DEF Replaces
    <3>3. Fits(op[q], pc[q]) /\ op[q] \in Ops
      BY DEF GateInv, EachFits, TypeOK
    <3>4. op[q] \in LaneOps => pc[q] \notin {"apply", "persist"}
      BY <3>2 DEF GateInv, ChainInLane
    <3>5. CASE op[q] \in {"restoreRows", "note", "reset"}
      <4>1. Content(q) = {}
        BY <3>5, NoContent
      <4> QED
        BY <1>c, <4>1 DEF Told, Stage, Agree, Full, Clean
    <3>6. CASE op[q] \notin {"restoreRows", "note", "reset"}
      <4>1. pc'[q] \notin {"persist", "publish", "initial", "configure", "plan",
                          "undo", "revert"}
        BY <1>p, <2>2, <3>2, <3>3, <3>4, <3>6
           DEF OwnsGate, Fits, Around, Fenced, Ops, LaneOps, FenceOps,
               RestartOps, RestoreOps
      <4> QED
        BY <3>1, <4>1 DEF Told, Stage
    <3> QED
      BY <3>5, <3>6
  <2> QED
    BY <2>1, <2>2
<1>3. CASE Empties(r)
  <2>1. fatal' \/ Resetting'
    BY <1>3, <1>p DEF Empties, Resetting, GateInv, TypeOK
  <2> QED
    BY <2>1 DEF Told
<1> QED
  BY <1>1, <1>2, <1>3, BodyTouches

\* A step under locks keeps what the request itself knows of its copies.
LEMMA OwnStaged ==
    ASSUME GateInv, NewBefore, BuiltFromStore, NEW r \in Requests, BodyStep(r),
           Told(r)
    PROVE  Told(r)'
<1> USE DEF nodeVars, Return, ReturnUnsafe, Fatal, Continue, Goto, Fits,
            Around, Fenced, Ops, LaneOps, FenceOps, RestartOps, RestoreOps
<1>w. Works(r)
  BY BodyWorks
<1>p. /\ op' = op
      /\ pc \in [Requests -> Steps]
      /\ \A p \in Requests : p # r => pc'[p] = pc[p]
  BY <1>w DEF Works, GateInv, TypeOK
<1>c. /\ Content(r)' = Content(r) /\ (Removes(r)' <=> Removes(r))
  BY <1>p DEF Content, Removes
<1>k. (fatal => fatal') /\ told \subseteq told'
  BY BodyKeepsAnswers
<1>f. Fits(op[r], pc[r]) /\ op[r] \in Ops
  BY DEF GateInv, EachFits, TypeOK
<1>1. CASE op[r] \in {"account", "note", "restoreRows", "reset"}
  <2>1. op[r] # "account" => Content(r) = {}
    BY <1>1, NoContent
  <2> QED
    BY <1>p, <1>c, <2>1 DEF Told, Stage, Agree, Full, Clean
<1>2. CASE r \in told \/ fatal
  BY <1>2, <1>k DEF Told
<1>3. CASE Resetting /\ op[r] # "reset"
  <2>1. Resetting'
    BY <1>3, <1>p DEF Resetting
  <2> QED
    BY <2>1 DEF Told
<1>4. CASE /\ op[r] \notin {"account", "note", "restoreRows", "reset"}
           /\ r \notin told /\ ~ fatal /\ Stage(r)
  <2>d. \A facts : /\ Full(r, Done(r, facts))
                   /\ Removes(r) \/ Clean(r, Undone(r, facts))
    BY DoneIsFull
  <2>l. \A facts : Changed(r, facts) = facts
    BY ChangedLive DEF GateInv
  <2>n. /\ op[r] \in TakenBack
        /\ pc[r] \in {"commit", "import"}
        => Clean(r, store) /\ Clean(r, engine)
    BY DEF NewBefore
  <2>r. Removes(r) <=> op[r] \in {"dropAsset", "delete"}
    BY DEF Removes
  <2>1. CASE Apply(r)
    BY <1>f, <1>p, <1>c, <1>4, <2>d, <2>l, <2>n, <2>r, <2>1 DEF Apply,
       Applied, Uncertain, RunLaneChain, SetAccountBlocked,
       SetAccountGroup, SetGroupBlocked, SetGroupCurrency, Told, Stage,
       Agree, Full, Clean, Changing, Upgrading, TakenBack
  <2>2. CASE Persist(r)
    BY <1>f, <1>p, <1>c, <1>4, <2>d, <2>l, <2>n, <2>r, <2>2 DEF Persist,
       Told, Stage, Agree, Full, Clean, Changing, Upgrading, TakenBack
  <2>3. CASE Audit(r)
    BY <1>f, <1>p, <1>c, <1>4, <2>d, <2>l, <2>n, <2>r, <2>3 DEF Audit,
       Told, Stage, Agree, Full, Clean, Changing, Upgrading, TakenBack
  <2>4. CASE Commit(r)
    BY <1>f, <1>p, <1>c, <1>4, <2>d, <2>l, <2>n, <2>r, <2>4 DEF Commit,
       Told, Stage, Agree, Full, Clean, Changing, Upgrading, TakenBack
  <2>5. CASE Publish(r)
    <3>1. /\ op[r] \in {"account", "group", "rename", "autoCreate", "dropAsset"}
          /\ Full(r, store) /\ (Removes(r) \/ Clean(r, engine))
          /\ store' = store
      BY <1>f, <1>4, <2>5 DEF Publish, Stage
    <3>2. CASE pc'[r] \in {"undo", "dropAudit"}
      <4>1. pc'[r] = "undo" => engine' = engine
        BY <1>p, <2>5, <3>1 DEF Publish
      <4> QED
        BY <1>c, <3>1, <3>2, <4>1 DEF Told, Stage, Changing, Clean
    <3>3. CASE pc'[r] = "initial"
      BY <1>c, <3>1, <3>3 DEF Told, Stage, Changing, Full
    <3>4. CASE pc'[r] = "audit"
      <4>1. /\ op[r] \in {"rename", "autoCreate", "dropAsset"}
            /\ engine' = IF Removes(r) THEN engine \ {<<r, "alias">>}
                         ELSE engine \cup {<<r, "alias">>}
        BY <1>4, <1>p, <2>5, <3>1, <3>4 DEF Publish
      <4>2. Content(r) = {<<r, "alias">>}
        BY <4>1 DEF Content
      <4>3. Agree(r)'
        BY <1>c, <3>1, <4>1, <4>2 DEF Agree, Full
      <4> QED
        BY <3>4, <4>3 DEF Told, Stage
    <3> QED
      BY <1>p, <2>5, <3>2, <3>3, <3>4 DEF Publish
  <2>6. CASE Undo(r)
    <3>1. ~ Removes(r) /\ Clean(r, engine)
      BY <1>f, <1>4, <2>r, <2>6 DEF Undo, Stage
    <3>2. CASE store' = Undone(r, store) /\ Return(r)
      <4>1. Clean(r, store') /\ engine' = engine /\ pc'[r] = "finish"
        BY <1>p, <2>d, <2>6, <3>1, <3>2 DEF Undo
      <4>2. Agree(r)'
        BY <1>c, <3>1, <4>1 DEF Agree, Clean
      <4> QED
        BY <4>1, <4>2 DEF Told, Stage
    <3>3. CASE pc'[r] \in {"lastRebuild", "rebuild"}
      BY <3>3 DEF Told, Stage, Changing
    <3> QED
      BY <1>p, <2>6, <3>2, <3>3 DEF Undo
  <2>7. CASE DropAudit(r)
    BY <1>f, <1>p, <1>c, <1>4, <2>d, <2>l, <2>n, <2>r, <2>7 DEF DropAudit,
       Told, Stage, Agree, Full, Clean, Changing, Upgrading, TakenBack
  <2>8. CASE Initial(r)
    BY <1>f, <1>p, <1>c, <1>4, <2>d, <2>l, <2>n, <2>r, <2>8 DEF Initial,
       Told, Stage, Agree, Full, Clean, Changing, Upgrading, TakenBack
  <2>9. CASE Compensate(r)
    <3>1. op[r] = "group" \/ ~ Removes(r)
      BY <1>f, <2>r, <2>9 DEF Compensate
    <3>2. CASE engine' = Undone(r, engine) /\ store' = Undone(r, store)
      <4>1. Clean(r, store') /\ Clean(r, engine')
        BY <1>f, <2>d, <2>r, <2>9, <3>2 DEF Compensate
      <4>2. Agree(r)' /\ pc'[r] = "finish"
        BY <1>c, <1>p, <2>9, <3>2, <4>1 DEF Compensate, Agree, Clean
      <4> QED
        BY <4>2 DEF Told, Stage
    <3>3. CASE ~ (engine' = Undone(r, engine) /\ store' = Undone(r, store))
      <4>1. pc'[r] = "rebuild"
        BY <1>p, <2>9, <3>3 DEF Compensate
      <4> QED
        BY <4>1 DEF Told, Stage, Changing
    <3> QED
      BY <3>2, <3>3
  <2>10. CASE UndoRebuild(r)
    BY <1>f, <1>p, <1>c, <1>4, <2>d, <2>l, <2>n, <2>r, <2>10 DEF
       UndoRebuild, Told, Stage, Agree, Full, Clean, Changing, Upgrading,
       TakenBack
  <2>11. CASE Configure(r)
    BY <1>f, <1>p, <1>c, <1>4, <2>d, <2>l, <2>n, <2>r, <2>11 DEF
       Configure, PutLimit, PutPnlBounds, SetLimitMode, Configured,
       Refused, Told, Stage, Agree, Full, Clean, Changing, Upgrading,
       TakenBack
  <2>12. CASE Revert(r)
    BY <1>f, <1>p, <1>c, <1>4, <2>d, <2>l, <2>n, <2>r, <2>12 DEF Revert,
       Told, Stage, Agree, Full, Clean, Changing, Upgrading, TakenBack
  <2>13. CASE Build(r)
    BY <1>f, <1>p, <1>c, <1>4, <2>d, <2>l, <2>n, <2>r, <2>13 DEF Build,
       Told, Stage, Agree, Full, Clean, Changing, Upgrading, TakenBack
  <2>14. CASE Install(r)
    <3>1. snap[r] = Done(r, store)
      BY <2>14 DEF Install, BuiltFromStore
    <3>2. /\ pc[r] = "install" /\ pc'[r] \in {"finish", "mirror"}
          /\ (store' = store /\ engine' = engine) \/ engine' = store'
      BY <1>p, <2>14, <3>1 DEF Install
    <3> QED
      BY <1>c, <1>4, <3>2 DEF Told, Stage, Agree, Changing, Upgrading
  <2>15. CASE Rebuild(r)
    BY <1>f, <1>p, <1>c, <1>4, <2>d, <2>l, <2>n, <2>r, <2>15 DEF Rebuild,
       Told, Stage, Agree, Full, Clean, Changing, Upgrading, TakenBack
  <2>16. CASE Mirror(r)
    BY <1>f, <1>p, <1>c, <1>4, <2>d, <2>l, <2>n, <2>r, <2>16 DEF Mirror,
       AfterSwap, Told, Stage, Agree, Full, Clean, Changing, Upgrading,
       TakenBack
  <2>17. CASE LastRebuild(r)
    BY <1>f, <1>p, <1>c, <1>4, <2>d, <2>l, <2>n, <2>r, <2>17 DEF
       LastRebuild, Told, Stage, Agree, Full, Clean, Changing, Upgrading,
       TakenBack
  <2>18. CASE ResetDatabase(r)
    BY <1>f, <1>p, <1>c, <1>4, <2>d, <2>l, <2>n, <2>r, <2>18 DEF
       ResetDatabase, Told, Stage, Agree, Full, Clean, Changing,
       Upgrading, TakenBack
  <2>19. CASE Classify(r)
    BY <1>f, <1>p, <1>c, <1>4, <2>d, <2>l, <2>n, <2>r, <2>19 DEF Classify,
       Told, Stage, Agree, Full, Clean, Changing, Upgrading, TakenBack
  <2>20. CASE Import(r)
    BY <1>f, <1>p, <1>c, <1>4, <2>d, <2>l, <2>n, <2>r, <2>20 DEF Import,
       Told, Stage, Agree, Full, Clean, Changing, Upgrading, TakenBack
  <2>21. CASE Plan(r)
    BY <1>f, <1>p, <1>c, <1>4, <2>d, <2>l, <2>n, <2>r, <2>21 DEF Plan,
       Told, Stage, Agree, Full, Clean, Changing, Upgrading, TakenBack
  <2>22. CASE Unapply(r)
    BY <1>f, <1>p, <1>c, <1>4, <2>d, <2>l, <2>n, <2>r, <2>22 DEF Unapply,
       Told, Stage, Agree, Full, Clean, Changing, Upgrading, TakenBack
  <2>23. QED
    BY <2>1, <2>2, <2>3, <2>4, <2>5, <2>6, <2>7, <2>8, <2>9, <2>10, <2>11,
       <2>12, <2>13, <2>14, <2>15, <2>16, <2>17, <2>18, <2>19, <2>20,
       <2>21, <2>22 DEF BodyStep
<1> QED
  BY <1>1, <1>2, <1>3, <1>4 DEF Told

\* A step under locks keeps apart what a request may have to take back.
LEMMA BodyKeepsNew ==
    ASSUME GateInv, NewBefore, BuiltFromStore, NEW r \in Requests, BodyStep(r)
    PROVE  NewBefore'
<1>w. Works(r)
  BY BodyWorks
<1>p. /\ op' = op
      /\ pc \in [Requests -> Steps]
      /\ \A p \in Requests : p # r => pc'[p] = pc[p]
  BY <1>w DEF Works, GateInv, TypeOK
<1>c. \A q \in Requests : Content(q)' = Content(q)
  BY <1>p DEF Content
<1>f. Fits(op[r], pc[r]) /\ op[r] \in Ops
  BY DEF GateInv, EachFits, TypeOK
<1> DEFINE Before(q, s) ==
        /\ op[q] \in TakenBack
        /\ s \in {"idle", "wantFence", "fence", "wantMutate", "mutateHeld",
                  "commit", "classify", "import"}
<1>1. ASSUME NEW q \in Requests, q # r, Before(q, pc[q])
      PROVE  Clean(q, store)' /\ Clean(q, engine)'
  <2>1. Clean(q, store) /\ Clean(q, engine)
    BY <1>1 DEF NewBefore
  <2> QED
    BY <1>1, <1>c, <2>1, BodyTouches
       DEF SparesOthers, Replaces, Empties, Clean
<1>2. ASSUME Before(r, pc'[r])
      PROVE  Clean(r, store)' /\ Clean(r, engine)'
  <2> USE DEF Return, ReturnUnsafe, Fatal, Continue, Goto, nodeVars, TakenBack, Fits,
              Around, Fenced
  <2>1. /\ pc[r] = "classify" /\ pc'[r] = "import"
        /\ store' = store /\ engine' = engine
    <3>1. CASE Apply(r)
      BY <1>p, <1>f, <1>2, <3>1 DEF Apply, Applied, Uncertain,
         RunLaneChain, SetAccountBlocked, SetAccountGroup,
         SetGroupBlocked, SetGroupCurrency
    <3>2. CASE Persist(r)
      BY <1>p, <1>f, <1>2, <3>2 DEF Persist
    <3>3. CASE Audit(r)
      BY <1>p, <1>f, <1>2, <3>3 DEF Audit
    <3>4. CASE Commit(r)
      BY <1>p, <1>f, <1>2, <3>4 DEF Commit
    <3>5. CASE Publish(r)
      BY <1>p, <1>f, <1>2, <3>5 DEF Publish
    <3>6. CASE Undo(r)
      BY <1>p, <1>f, <1>2, <3>6 DEF Undo
    <3>7. CASE DropAudit(r)
      BY <1>p, <1>f, <1>2, <3>7 DEF DropAudit
    <3>8. CASE Initial(r)
      BY <1>p, <1>f, <1>2, <3>8 DEF Initial
    <3>9. CASE Compensate(r)
      BY <1>p, <1>f, <1>2, <3>9 DEF Compensate
    <3>10. CASE UndoRebuild(r)
      BY <1>p, <1>f, <1>2, <3>10 DEF UndoRebuild
    <3>11. CASE Configure(r)
      BY <1>p, <1>f, <1>2, <3>11 DEF Configure, PutLimit, PutPnlBounds,
         SetLimitMode, Configured, Refused
    <3>12. CASE Revert(r)
      BY <1>p, <1>f, <1>2, <3>12 DEF Revert
    <3>13. CASE Build(r)
      BY <1>p, <1>f, <1>2, <3>13 DEF Build
    <3>14. CASE Install(r)
      BY <1>p, <1>f, <1>2, <3>14 DEF Install
    <3>15. CASE Rebuild(r)
      BY <1>p, <1>f, <1>2, <3>15 DEF Rebuild
    <3>16. CASE Mirror(r)
      BY <1>p, <1>f, <1>2, <3>16 DEF Mirror, AfterSwap
    <3>17. CASE LastRebuild(r)
      BY <1>p, <1>f, <1>2, <3>17 DEF LastRebuild
    <3>18. CASE ResetDatabase(r)
      BY <1>p, <1>f, <1>2, <3>18 DEF ResetDatabase
    <3>19. CASE Classify(r)
      BY <1>p, <1>f, <1>2, <3>19 DEF Classify
    <3>20. CASE Import(r)
      BY <1>p, <1>f, <1>2, <3>20 DEF Import
    <3>21. CASE Plan(r)
      BY <1>p, <1>f, <1>2, <3>21 DEF Plan
    <3>22. CASE Unapply(r)
      BY <1>p, <1>f, <1>2, <3>22 DEF Unapply
    <3>23. QED
      BY <3>1, <3>2, <3>3, <3>4, <3>5, <3>6, <3>7, <3>8, <3>9, <3>10,
         <3>11, <3>12, <3>13, <3>14, <3>15, <3>16, <3>17, <3>18, <3>19,
         <3>20, <3>21, <3>22 DEF BodyStep
  <2> QED
    BY <1>2, <1>c, <2>1 DEF NewBefore, Clean
<1> QED
  BY <1>1, <1>2, <1>p DEF NewBefore

\* An engine is installed as the store was when it was built: no one changes the
\* store between the two.
LEMMA BodyKeepsBuilt ==
    ASSUME GateInv, BuiltFromStore, NEW r \in Requests, BodyStep(r)
    PROVE  BuiltFromStore'
<1>w. Works(r)
  BY BodyWorks
<1>p. /\ op' = op
      /\ pc \in [Requests -> Steps]
      /\ snap \in [Requests -> SUBSET Facts]
      /\ \A p \in Requests : p # r => pc'[p] = pc[p]
  BY <1>w DEF Works, GateInv, TypeOK
<1>1. ASSUME NEW q \in Requests, q # r, pc[q] = "install"
      PROVE  snap'[q] = Done(q, store)'
  <2>1. OwnsGate(q)
    <3>1. Fits(op[q], "install") /\ op[q] \in Ops
      BY <1>1 DEF GateInv, EachFits, TypeOK
    <3> QED
      BY <1>1, <3>1 DEF OwnsGate, Fits, Around, Fenced, Ops, LaneOps, FenceOps,
                        RestartOps, RestoreOps
  <2>2. store' = store
    BY <1>1, <2>1, OwnerAlone, StoreChangersHold
  <2>3. snap'[q] = snap[q]
    BY <1>1, <1>p
       DEF BodyStep, Apply, Persist, Audit, Commit, Publish, Undo, DropAudit,
           Initial, Compensate, UndoRebuild, Configure, Revert, Build, Install,
           Rebuild, Mirror, LastRebuild, ResetDatabase, Classify, Import, Plan,
           Unapply
  <2> QED
    BY <1>1, <1>p, <2>2, <2>3 DEF BuiltFromStore, Done, Content, Removes
<1>2. ASSUME pc'[r] = "install"
      PROVE  snap'[r] = Done(r, store)'
  <2>1. Build(r) /\ snap'[r] = Done(r, store) /\ store' = store
    BY <1>2, <1>p
       DEF BodyStep, Apply, Applied, Uncertain, RunLaneChain, SetAccountBlocked,
           SetAccountGroup, SetGroupBlocked, SetGroupCurrency, Persist, Audit,
           Commit, Publish, Undo, DropAudit, Initial, Compensate, UndoRebuild,
           Configure, PutLimit, PutPnlBounds, SetLimitMode, Configured, Refused,
           Revert, Build, Install, Rebuild, Mirror, AfterSwap, LastRebuild,
           ResetDatabase, Classify, Import, Plan, Unapply,
           Return, ReturnUnsafe, Fatal, Continue, Goto, nodeVars
  <2> QED
    BY <1>p, <2>1 DEF Done, Content, Removes
<1> QED
  BY <1>1, <1>2, <1>p DEF BuiltFromStore

\* A lock step changes neither copy; it keeps what every request knows of them.
LEMMA LockKeepsCopies ==
    ASSUME GateInv, CopiesInv, NEW r \in Requests, LockStep(r)
    PROVE  CopiesInv'
<1> USE DEF nodeVars, lockVars, Goto, Fits, Around, Fenced, Ops, LaneOps,
            FenceOps, RestartOps, RestoreOps
<1>f. Fits(op[r], pc[r]) /\ op[r] \in Ops
  BY DEF GateInv, EachFits, TypeOK
<1>p. pc \in [Requests -> Steps]
  BY DEF GateInv, TypeOK
<1>1. /\ UNCHANGED <<store, engine, op, snap, fatal>>
      /\ told \subseteq told'
      /\ \A q \in Requests : q # r => pc'[q] = pc[q]
  BY <1>p
     DEF LockStep, LaneEnter, LaneCheck, MutationCheck, WantFence, FenceEnter,
         FenceCheck, MutateLock, MutateRecheck, Reserve, ReserveFromLane,
         ReserveHeld, ReleaseLane, RestartFence, RestartLock, EndRestart,
         Release, Again
<1>2. /\ pc[r] \notin Changing
      /\ op[r] \in TakenBack /\ pc'[r] \in {"idle", "wantFence", "fence",
             "wantMutate", "mutateHeld", "commit", "classify", "import"} =>
             pc[r] \in {"idle", "wantFence", "fence", "wantMutate", "mutateHeld",
                        "commit", "classify", "import"}
      /\ pc'[r] # "install"
      /\ pc'[r] \notin Changing \/ (op[r] = "block" /\ pc'[r] = "rebuild")
      /\ op[r] = "block" /\ pc[r] \in Upgrading =>
             \/ pc'[r] \in Upgrading \cup {"rebuild"}
             \/ pc'[r] = "finish" /\ r \in told'
  <2>1. CASE LaneEnter(r)
    BY <1>f, <1>p, <2>1 DEF LaneEnter, TakenBack, Changing, Upgrading
  <2>2. CASE LaneCheck(r)
    BY <1>f, <1>p, <2>2 DEF LaneCheck, Body, TakenBack, Changing,
       Upgrading
  <2>3. CASE MutationCheck(r)
    BY <1>f, <1>p, <2>3 DEF MutationCheck, TakenBack, Changing, Upgrading
  <2>4. CASE WantFence(r)
    BY <1>f, <1>p, <2>4 DEF WantFence, TakenBack, Changing, Upgrading
  <2>5. CASE FenceEnter(r)
    BY <1>f, <1>p, <2>5 DEF FenceEnter, TakenBack, Changing, Upgrading
  <2>6. CASE FenceCheck(r)
    BY <1>f, <1>p, <2>6 DEF FenceCheck, TakenBack, Changing, Upgrading
  <2>7. CASE MutateLock(r)
    BY <1>f, <1>p, <2>7 DEF MutateLock, TakenBack, Changing, Upgrading
  <2>8. CASE MutateRecheck(r)
    BY <1>f, <1>p, <2>8 DEF MutateRecheck, Body, TakenBack, Changing,
       Upgrading
  <2>9. CASE Reserve(r)
    BY <1>f, <1>p, <2>9 DEF Reserve, TakenBack, Changing, Upgrading
  <2>10. CASE ReserveFromLane(r)
    BY <1>f, <1>p, <2>10 DEF ReserveFromLane, TakenBack, Changing,
       Upgrading
  <2>11. CASE ReserveHeld(r)
    BY <1>f, <1>p, <2>11 DEF ReserveHeld, TakenBack, Changing, Upgrading
  <2>12. CASE ReleaseLane(r)
    BY <1>f, <1>p, <2>12 DEF ReleaseLane, TakenBack, Changing, Upgrading
  <2>13. CASE RestartFence(r)
    BY <1>f, <1>p, <2>13 DEF RestartFence, TakenBack, Changing, Upgrading
  <2>14. CASE RestartLock(r)
    BY <1>f, <1>p, <2>14 DEF RestartLock, Body, TakenBack, Changing,
       Upgrading
  <2>15. CASE EndRestart(r)
    BY <1>f, <1>p, <2>15 DEF EndRestart, TakenBack, Changing, Upgrading
  <2>16. CASE Release(r)
    BY <1>f, <1>p, <2>16 DEF Release, TakenBack, Changing, Upgrading
  <2>17. CASE Again(r)
    BY <1>f, <1>p, <2>17 DEF Again, TakenBack, Changing, Upgrading
  <2>18. QED
    BY <2>1, <2>2, <2>3, <2>4, <2>5, <2>6, <2>7, <2>8, <2>9, <2>10, <2>11,
       <2>12, <2>13, <2>14, <2>15, <2>16, <2>17 DEF LockStep
<1>c. \A q \in Requests :
          /\ Content(q)' = Content(q)
          /\ Removes(q)' <=> Removes(q)
          /\ Done(q, store)' = Done(q, store)
          /\ Agree(q)' <=> Agree(q)
  BY <1>1 DEF Content, Removes, Done, Agree
<1>3. Resetting => Resetting'
  <2>1. ASSUME NEW q \in Requests, op[q] = "reset", pc[q] = "rebuild"
        PROVE  q # r
    BY <1>2, <2>1 DEF Changing
  <2> QED
    BY <1>1, <2>1 DEF Resetting
<1>4. Staged'
  <2> SUFFICES ASSUME NEW q \in Requests, Told(q) PROVE Told(q)'
    BY DEF Staged, CopiesInv, Told
  <2>1. CASE ~ Stage(q)
    BY <1>1, <1>3, <2>1 DEF Told
  <2>2. CASE Stage(q) /\ q # r
    BY <1>1, <1>c, <2>2 DEF Told, Stage, Full, Clean
  <2>3. CASE Stage(r) /\ q = r
    <3>1. CASE op[r] = "block" /\ pc[r] \in Upgrading
      BY <1>1, <1>2, <2>3, <3>1 DEF Told, Stage, Changing, Upgrading
    <3>2. CASE ~ (op[r] = "block" /\ pc[r] \in Upgrading)
      <4>1. Agree(r)'
        BY <1>2, <1>c, <2>3, <3>2 DEF Stage
      <4> QED
        BY <1>2, <2>3, <4>1 DEF Told, Stage, Changing
    <3> QED
      BY <3>1, <3>2
  <2> QED
    BY <2>1, <2>2, <2>3
<1>5. NewBefore'
  BY <1>1, <1>2, <1>c DEF CopiesInv, NewBefore, Clean
<1>6. BuiltFromStore'
  BY <1>1, <1>2, <1>c DEF CopiesInv, BuiltFromStore
<1> QED
  BY <1>4, <1>5, <1>6 DEF CopiesInv

\* Initially the copies agree, and nothing new is in them.
LEMMA InitCopies == GateAssumption /\ Init => CopiesInv
<1> SUFFICES ASSUME GateAssumption, Init PROVE CopiesInv
  OBVIOUS
<1>1. Staged
  BY DEF Init, Staged, Stage, Agree, Changing
<1>2. NewBefore
  <2> SUFFICES ASSUME NEW q \in Requests, op[q] \in TakenBack
               PROVE  Clean(q, store)
    BY DEF Init, NewBefore, Clean
  <2>1. ASSUME NEW p \in Requests, Removes(p)
        PROVE  Content(q) \cap Content(p) = {}
    <3>1. p # q
      BY <2>1 DEF Removes, TakenBack
    <3> QED
      BY <3>1, ContentOwn
  <2> QED
    BY <2>1 DEF Init, Clean
<1>3. BuiltFromStore
  BY DEF Init, BuiltFromStore
<1> QED
  BY <1>1, <1>2, <1>3 DEF CopiesInv

\* A restarted process builds its engine from the store.
LEMMA ExitKeepsCopies ==
    ASSUME GateInv, CopiesInv, Exit
    PROVE  CopiesInv'
<1>1. \A q \in Requests : Content(q)' = Content(q)
  BY DEF Exit, Content
<1>2. Staged'
  BY DEF Exit, Staged, Stage, Agree, Changing
<1>3. NewBefore'
  BY <1>1 DEF Exit, CopiesInv, NewBefore, Clean
<1>4. BuiltFromStore'
  BY DEF Exit, BuiltFromStore
<1> QED
  BY <1>2, <1>3, <1>4 DEF CopiesInv

\* Every step keeps what each handler knows of the two copies.
LEMMA NextCopies ==
    GateAssumption /\ GateInv /\ CopiesInv /\ [Next]_vars => CopiesInv'
<1> SUFFICES ASSUME GateAssumption, GateInv, CopiesInv, [Next]_vars
             PROVE  CopiesInv'
  OBVIOUS
<1>1. CASE Exit
  BY <1>1, ExitKeepsCopies
<1>2. ASSUME NEW r \in Requests, LockStep(r) PROVE CopiesInv'
  BY <1>2, LockKeepsCopies
<1>3. ASSUME NEW r \in Requests, BodyStep(r) PROVE CopiesInv'
  <2>1. ASSUME NEW q \in Requests PROVE Told(q)'
    <3>1. Told(q)
      BY DEF CopiesInv, Staged, Told
    <3>2. CASE q = r
      BY <1>3, <3>1, <3>2, OwnStaged DEF CopiesInv
    <3>3. CASE q # r
      BY <1>3, <3>1, <3>3, OthersStaged DEF CopiesInv
    <3> QED
      BY <3>2, <3>3
  <2>2. NewBefore'
    BY <1>3, BodyKeepsNew DEF CopiesInv
  <2>3. BuiltFromStore'
    BY <1>3, BodyKeepsBuilt DEF CopiesInv
  <2> QED
    BY <2>1, <2>2, <2>3 DEF CopiesInv, Staged, Told
<1>4. CASE UNCHANGED vars
  <2>1. UNCHANGED <<store, engine, fatal, op, pc, snap, told>>
    BY <1>4 DEF vars
  <2>2. \A q \in Requests :
            /\ Content(q)' = Content(q)
            /\ Removes(q)' <=> Removes(q)
            /\ Done(q, store)' = Done(q, store)
    BY <2>1 DEF Content, Removes, Done
  <2>3. Staged'
    <3>1. \A q \in Requests : Stage(q) => Stage(q)'
      BY <2>1, <2>2 DEF Stage, Agree, Full, Clean
    <3>2. Resetting => Resetting'
      BY <2>1 DEF Resetting
    <3> QED
      BY <2>1, <3>1, <3>2 DEF CopiesInv, Staged
  <2>4. NewBefore'
    BY <2>1, <2>2 DEF CopiesInv, NewBefore, Clean
  <2>5. BuiltFromStore'
    BY <2>1, <2>2 DEF CopiesInv, BuiltFromStore
  <2> QED
    BY <2>3, <2>4, <2>5 DEF CopiesInv
<1> QED
  BY <1>1, <1>2, <1>3, <1>4, StepKinds

\* What each step of each handler knows of the store and the engine holds.
THEOREM CopiesInvHolds == Spec => []CopiesInv
<1>1. Init => CopiesInv
  BY InitCopies, GateAssumption
<1>2. GateInv /\ CopiesInv /\ [Next]_vars => CopiesInv'
  BY NextCopies, GateAssumption
<1> QED
  BY <1>1, <1>2, GateInvHolds, PTL DEF Spec

\* Whenever a request has returned, whatever failed on the way and however the
\* other requests interleaved with it, the store and the engine agree about what
\* it changed, or its caller was told, or the process stops (or is being reset).
THEOREM DivergenceTold == Spec => []DivergenceIsTold
<1>1. CopiesInv => DivergenceIsTold
  BY DEF CopiesInv, Staged, Stage, DivergenceIsTold, Changing, Upgrading
<1> QED
  BY <1>1, CopiesInvHolds, PTL

\* While any request holds a lane, every identity and policy that the store and
\* the engine hold differently is one whose caller was told, or the process
\* stops.
THEOREM LanesSeeWhole == Spec => []LaneSeesWhole
<1>1. GateInv /\ CopiesInv => LaneSeesWhole
  <2> SUFFICES ASSUME GateInv, CopiesInv, NEW r \in Requests, lane[r] # 0,
                      NEW q \in Requests, op[q] \notin LaneOps \cup {"account"},
                      q \notin told, ~ fatal
               PROVE  Agree(q)
    BY DEF LaneSeesWhole
  <2>f. \A p \in Requests : Fits(op[p], pc[p]) /\ op[p] \in Ops
    BY DEF GateInv, EachFits, TypeOK
  <2>o. \A p \in Requests :
            ~ OwnsGate(p) \/ pc[p] \in {"fence", "restartFence"}
    BY OwnerAlone
  <2>1. ~ Resetting
    BY <2>o DEF Resetting, OwnsGate
  <2>2. Stage(q)
    BY <2>1 DEF CopiesInv, Staged
  <2>3. CASE op[q] \in {"restoreRows", "note", "reset"}
    BY <2>3, NoContent DEF Agree
  <2>4. CASE op[q] \notin {"restoreRows", "note", "reset"}
    <3>1. pc[q] \notin Changing
      BY <2>f, <2>o, <2>4
         DEF OwnsGate, Changing, Fits, Around, Fenced, Ops, LaneOps, FenceOps,
             RestartOps, RestoreOps
    <3> QED
      BY <2>2, <3>1 DEF Stage, LaneOps
  <2> QED
    BY <2>3, <2>4
<1> QED
  BY <1>1, GateInvHolds, CopiesInvHolds, PTL

=============================================================================
