--------------------------- MODULE FeeIntakeProofs ---------------------------
(***************************************************************************)
(* Theorems about FeeIntake, for every set of accounts, every number of    *)
(* fees and every bound.  FeeInv is inductive; what the runs check of the  *)
(* books follows from it.                                                  *)
(***************************************************************************)
EXTENDS FeeIntake, TLAPS

USE FeeAssumption, LimitAssumption

\* The account of a pass is an account or none.
LEMMA PassTargetType ==
    ASSUME TypeOK PROVE PassTarget \in MaybeAccount
  <1>1. Senders \subseteq Accounts
    BY DEF TypeOK, StoreOK, Senders
  <1>2. CASE \E a \in Senders : Senders = {a}
    <2>1. (CHOOSE a \in Senders : TRUE) \in Senders
      BY <1>2
    <2> QED
      BY <2>1, <1>1 DEF PassTarget, MaybeAccount, TypeOK, StoreOK
  <1>3. CASE ~\E a \in Senders : Senders = {a}
    BY <1>3 DEF PassTarget, MaybeAccount, TypeOK, StoreOK
  <1> QED
    BY <1>2, <1>3

\* The store of a connection without grants and the worker before its first
\* pass satisfy the invariant.
LEMMA InitFee == Init => FeeInv
  <1> SUFFICES ASSUME Init PROVE FeeInv
    OBVIOUS
  <1>1. StoreOK
    BY DEF Init, StoreOK, RowStates, MaybeAccount
  <1>2. more \in BOOLEAN /\ up \in BOOLEAN
    BY Zenon DEF Init
  <1>3. PassOK
    BY <1>2 DEF Init, PassOK, PCs, MaybeAccount
  <1>4. TypeOK /\ Bounds
    BY <1>1, <1>2, <1>3 DEF Init, TypeOK, Bounds
  <1>5. Ledger /\ CursorCovers /\ OneFeeTarget
    BY DEF Init, Ledger, CursorCovers, OneFeeTarget
  <1> QED
    BY <1>4, <1>5 DEF FeeInv

-----------------------------------------------------------------------------
\* A step that moves the worker only, without finishing a fee, keeps the books.
LEMMA QuietPass ==
    ASSUME FeeInv, UNCHANGED <<rowVars, grantVars, runtimeVars, cursor>>
    PROVE  Ledger' /\ CursorCovers' /\ OneFeeTarget'
  BY DEF FeeInv, Ledger, CursorCovers, OneFeeTarget, rowVars, grantVars,
         runtimeVars

\* Every step of a pass keeps the invariant.
LEMMA PassKeeps == FeeInv /\ Pass => FeeInv'
  <1> SUFFICES ASSUME FeeInv, Pass PROVE FeeInv'
    OBVIOUS
  <1> USE DEF Fees
  <1>0. /\ TypeOK /\ Bounds /\ Ledger /\ CursorCovers /\ OneFeeTarget
        /\ StoreOK /\ PassOK
    BY DEF FeeInv, TypeOK
  <1>1. CASE BeginPass
    <2>1. TypeOK'
      BY <1>0, <1>1, PassTargetType
         DEF BeginPass, TypeOK, StoreOK, PassOK, PCs, rowVars, grantVars, runtimeVars
    <2>2. Ledger' /\ CursorCovers' /\ OneFeeTarget'
      BY <1>1, QuietPass DEF BeginPass
    <2>3. Bounds'
      BY <1>0, <1>1 DEF BeginPass, Bounds
    <2> QED
      BY <2>1, <2>2, <2>3 DEF FeeInv
  <1>2. CASE ReadPage \/ ReadPartly
    <2>1. /\ last' \in cursor..posted
          /\ pc' = "fee" /\ faults' \in 0..MaxFaults
          /\ UNCHANGED <<rowVars, grantVars, mapped, posted, runtimeVars,
                         cursor, target, stops, ops>>
      BY <1>0, <1>2 DEF ReadPage, ReadPartly, Bounds, TypeOK, PassOK
    <2>2. more' \in BOOLEAN
      <3>1. (cursor + PageSize <= posted) \in BOOLEAN
        OBVIOUS
      <3>2. more' = (cursor + PageSize <= posted) \/ more' = FALSE
        BY <1>2, Zenon DEF ReadPage, ReadPartly
      <3> QED
        BY <3>1, <3>2, Zenon
    <2>3. TypeOK'
      BY <1>0, <2>1, <2>2
         DEF TypeOK, StoreOK, PassOK, PCs, rowVars, grantVars, runtimeVars
    <2>4. Ledger' /\ CursorCovers' /\ OneFeeTarget'
      BY <2>1, QuietPass
    <2>5. Bounds'
      BY <1>0, <2>1 DEF Bounds, TypeOK, PassOK
    <2> QED
      BY <2>3, <2>4, <2>5 DEF FeeInv
  <1>3. CASE PageDone \/ GiveUp \/ BookFails \/ SkipFails
    <2>1. /\ pc' \in {"page", "idle"} /\ faults' \in 0..MaxFaults
          /\ UNCHANGED <<rowVars, grantVars, mapped, posted, runtimeVars,
                         cursor, last, more, target, stops, ops>>
      BY <1>0, <1>3 DEF PageDone, GiveUp, BookFails, SkipFails, EndPass, Goto, TypeOK
    <2>2. TypeOK'
      BY <1>0, <2>1
         DEF TypeOK, StoreOK, PassOK, PCs, rowVars, grantVars, runtimeVars
    <2>3. Ledger' /\ CursorCovers' /\ OneFeeTarget'
      BY <2>1, QuietPass
    <2>4. Bounds'
      BY <1>0, <2>1 DEF Bounds
    <2> QED
      BY <2>2, <2>3, <2>4 DEF FeeInv
  <1>4. CASE /\ pc \in {"fee", "adjust"} /\ cursor < last
             /\ Goto("skip") \/ Goto("adjust") \/ Goto("book") \/ EndPass
             /\ UNCHANGED <<rowVars, grantVars, mapped, posted, runtimeVars,
                            faults, stops, ops>>
    <2>1. TypeOK'
      BY <1>0, <1>4 DEF TypeOK, StoreOK, PassOK, PCs, Goto, EndPass, rowVars,
                        grantVars, runtimeVars
    <2>2. Ledger' /\ CursorCovers' /\ OneFeeTarget'
      BY <1>4, QuietPass DEF Goto, EndPass
    <2>3. Bounds'
      BY <1>0, <1>4 DEF Bounds, Goto, EndPass
    <2> QED
      BY <2>1, <2>2, <2>3 DEF FeeInv
  <1>5. CASE /\ pc \in {"fee", "adjust"} /\ cursor < last
             /\ row[Fee] # "none" /\ Finish
             /\ UNCHANGED <<rowVars, grantVars, mapped, posted, runtimeVars,
                            faults, stops, ops>>
    <2>1. TypeOK' /\ Bounds'
      BY <1>0, <1>5 DEF TypeOK, StoreOK, PassOK, PCs, Finish, Fee, Bounds,
                        rowVars, grantVars, runtimeVars
    <2>2. Ledger' /\ OneFeeTarget'
      BY <1>0, <1>5 DEF Ledger, OneFeeTarget, rowVars, grantVars, runtimeVars
    <2>3. CursorCovers'
      BY <1>0, <1>5 DEF CursorCovers, Finish, Fee, PassOK, rowVars, runtimeVars
    <2> QED
      BY <2>1, <2>2, <2>3 DEF FeeInv
  <1>6. CASE Look
    <2>1. Decide(Fee) \in {"skip", "done", "adjust"}
          /\ (Decide(Fee) = "done" => row[Fee] # "none")
      BY DEF Decide
    <2> QED
      BY <1>4, <1>5, <1>6, <2>1 DEF Look
  <1>7. CASE Adjust
    <2>1. pc = "adjust" /\ cursor < last
      BY <1>0, <1>7 DEF Adjust, PassOK
    <2> QED
      BY <1>4, <1>5, <1>7, <2>1 DEF Adjust, IdTaken
  <1>8. CASE Book
    <2>1. /\ cursor < last /\ Fee \in 1..LastFee /\ row[Fee] = "none"
          /\ target \in accounts
      BY <1>0, <1>8 DEF Book, IdTaken, PassOK, Fee
    <2>2. PICK v \in {"accepted", "rejected"} :
            /\ Store(Fee, target, v)
            /\ v = "accepted" => Finish
            /\ v = "rejected" => Goto("skip")
      BY <1>8 DEF Book
    <2>3. StoreOK' /\ debits' \in [Fees -> Nat] /\ released' = released
      BY <1>0, <1>8, <2>1, <2>2
         DEF Book, Store, TypeOK, StoreOK, RowStates, MaybeAccount, grantVars
    <2>4. PassOK' /\ Bounds'
      BY <1>0, <1>8, <2>1, <2>2
         DEF Book, TypeOK, PassOK, PCs, Finish, Goto, Fee, Bounds
    <2>5. TypeOK' /\ Bounds'
      BY <1>0, <1>8, <2>3, <2>4 DEF Book, TypeOK, runtimeVars
    <2>6. Ledger'
      BY <1>0, <1>8, <2>1, <2>2
         DEF Book, Store, Ledger, TypeOK, StoreOK, grantVars, runtimeVars
    <2>7. CursorCovers'
      BY <1>0, <1>8, <2>1, <2>2
         DEF Book, Store, CursorCovers, StoreOK, PassOK, Finish, Goto, Fee,
             runtimeVars
    <2>8. OneFeeTarget'
      BY <1>0, <1>8 DEF Book, OneFeeTarget, grantVars
    <2> QED
      BY <2>5, <2>6, <2>7, <2>8 DEF FeeInv
  <1>9. CASE Skip
    <2>1. cursor < last /\ Fee \in 1..LastFee
      BY <1>0, <1>9 DEF Skip, PassOK, Fee
    <2>2. skipped' \subseteq Fees /\ reports' \in [Fees -> Nat]
      BY <1>0, <1>9, <2>1 DEF Skip, TypeOK
    <2>3. StoreOK' /\ PassOK' /\ Bounds'
      BY <1>0, <1>9, <2>1
         DEF Skip, TypeOK, StoreOK, PassOK, PCs, Finish, Fee, Bounds, rowVars,
             grantVars
    <2>4. TypeOK' /\ Bounds'
      BY <1>0, <1>9, <2>2, <2>3 DEF Skip, TypeOK, rowVars
    <2>5. Ledger'
      BY <1>0, <1>9, <2>1 DEF Skip, Ledger, TypeOK, rowVars, grantVars
    <2>6. CursorCovers'
      BY <1>0, <1>9, <2>1 DEF Skip, CursorCovers, Finish, Fee, PassOK, rowVars
    <2>7. OneFeeTarget'
      BY <1>0, <1>9 DEF Skip, OneFeeTarget, grantVars
    <2> QED
      BY <2>4, <2>5, <2>6, <2>7 DEF FeeInv
  <1> QED
    BY <1>1, <1>2, <1>3, <1>6, <1>7, <1>8, <1>9 DEF Pass

-----------------------------------------------------------------------------
\* The life cycle of runtime and process, and the venue, keep the invariant.
LEMMA LifeKeeps ==
    FeeInv /\ (Stop \/ Exit \/ Start \/ Crash \/ Collide \/ Post) => FeeInv'
  <1> SUFFICES ASSUME FeeInv, Stop \/ Exit \/ Start \/ Crash \/ Collide \/ Post
               PROVE  FeeInv'
    OBVIOUS
  <1> USE DEF Fees
  <1>0. /\ TypeOK /\ Bounds /\ Ledger /\ CursorCovers /\ OneFeeTarget
        /\ StoreOK /\ PassOK
    BY DEF FeeInv, TypeOK
  <1>1. CASE Stop \/ Exit
    <2>1. up' \in BOOLEAN
      BY <1>0, <1>1, Zenon DEF Stop, Exit, TypeOK, runtimeVars
    <2>2. /\ pc' \in {pc, "off"} /\ stops' \in 0..MaxStops
          /\ UNCHANGED <<rowVars, grantVars, mapped, posted, skipped, reports,
                         cursor, last, more, target, faults, ops>>
      BY <1>0, <1>1 DEF Stop, Exit, Goto, TypeOK, passVars, runtimeVars
    <2> QED
      BY <1>0, <2>2, <2>1 DEF FeeInv, TypeOK, StoreOK, PassOK, PCs, Bounds, Ledger,
         CursorCovers, OneFeeTarget, rowVars, grantVars
  <1>2. CASE Start
    <2>1. up' \in BOOLEAN /\ more' \in BOOLEAN
      BY <1>2, Zenon DEF Start, NewWorker
    <2>2. PassOK' /\ Bounds'
      BY <1>0, <1>2, <2>1 DEF Start, NewWorker, PassOK, PCs, MaybeAccount, Bounds,
         TypeOK
    <2>3. TypeOK'
      BY <1>0, <1>2, <2>1, <2>2 DEF Start, TypeOK, StoreOK, rowVars, grantVars
    <2>4. Ledger' /\ CursorCovers' /\ OneFeeTarget'
      BY <1>0, <1>2 DEF Start, NewWorker, Ledger, CursorCovers, OneFeeTarget,
         rowVars, grantVars
    <2> QED
      BY <2>2, <2>3, <2>4 DEF FeeInv
  <1>3. CASE Crash \/ Collide
    <2>1. Die /\ stops' \in 0..MaxStops
      BY <1>0, <1>3 DEF Crash, Collide, TypeOK
    <2>2. up' \in BOOLEAN /\ more' \in BOOLEAN
      BY <2>1, Zenon DEF Die, NewWorker
    <2>3. PassOK' /\ Bounds'
      BY <1>0, <2>1, <2>2 DEF Die, NewWorker, PassOK, PCs, MaybeAccount, Bounds,
         TypeOK
    <2>4. TypeOK' /\ Bounds'
      BY <1>0, <2>1, <2>2, <2>3 DEF Die, TypeOK, StoreOK, rowVars, grantVars
    <2>5. Ledger' /\ OneFeeTarget'
      BY <1>0, <2>1 DEF Die, Ledger, OneFeeTarget, rowVars, grantVars
    <2>6. CursorCovers'
      BY <2>1 DEF Die, NewWorker, CursorCovers
    <2> QED
      BY <2>4, <2>5, <2>6 DEF FeeInv
  <1>4. CASE Post
    BY <1>0, <1>4 DEF Post, FeeInv, TypeOK, StoreOK, PassOK, Bounds, Ledger,
       CursorCovers, OneFeeTarget, rowVars, grantVars, runtimeVars, passVars
  <1> QED
    BY <1>1, <1>2, <1>3, <1>4

\* No request of an operator breaks the invariant.
LEMMA OperatorKeeps == FeeInv /\ Operator => FeeInv'
  <1> SUFFICES ASSUME FeeInv, Operator PROVE FeeInv'
    OBVIOUS
  <1> USE DEF Fees
  <1>0. /\ TypeOK /\ Bounds /\ Ledger /\ CursorCovers /\ OneFeeTarget
        /\ StoreOK /\ PassOK
    BY DEF FeeInv, TypeOK
  <1>1. Request
    BY DEF Operator, ClearFeeAccount, Remap, SetFeeAccount, SetAccountGroup,
       DeleteAccount, GrantAccess, RemoveAccess, BookByHand
  <1>2. ASSUME StoreOK', Ledger', CursorCovers', OneFeeTarget',
               debits' \in [Fees -> Nat], released' \subseteq Fees
        PROVE  FeeInv'
    BY <1>0, <1>1, <1>2 DEF Request, FeeInv, TypeOK, PassOK, Bounds, Ledger,
       runtimeVars, passVars
  <1>3. ASSUME UNCHANGED rowVars, UNCHANGED accounts, StoreOK', OneFeeTarget'
        PROVE  FeeInv'
    <2>1. Ledger' /\ CursorCovers'
      BY <1>0, <1>1, <1>3 DEF Request, Ledger, CursorCovers, rowVars,
         runtimeVars, passVars
    <2> QED
      BY <1>0, <1>2, <1>3, <2>1 DEF rowVars, TypeOK
  <1>4. CASE ClearFeeAccount
    <2>1. Senders = grants
      BY <1>4 DEF ClearFeeAccount, Senders
    <2>2. StoreOK' /\ OneFeeTarget'
      BY <1>0, <1>4, <2>1 DEF ClearFeeAccount, StoreOK, MaybeAccount, OneFeeTarget,
         rowVars
    <2> QED
      BY <1>3, <1>4, <2>2 DEF ClearFeeAccount
  <1>5. CASE Remap
    BY <1>0, <1>3, <1>5 DEF Remap, StoreOK, OneFeeTarget, rowVars, grantVars
  <1>6. ASSUME NEW a \in Accounts, SetFeeAccount(a) PROVE FeeInv'
    <2>1. StoreOK' /\ OneFeeTarget'
      BY <1>0, <1>6 DEF SetFeeAccount, StoreOK, MaybeAccount, OneFeeTarget, rowVars
    <2> QED
      BY <1>3, <1>6, <2>1 DEF SetFeeAccount
  <1>7. ASSUME NEW a \in Accounts, SetAccountGroup(a) PROVE FeeInv'
    <2>1. StoreOK' /\ OneFeeTarget'
      BY <1>0, <1>7 DEF SetAccountGroup, StoreOK, OneFeeTarget, rowVars
    <2> QED
      BY <1>3, <1>7, <2>1 DEF SetAccountGroup
  <1>8. ASSUME NEW s \in Accounts \cup {Group}, GrantAccess(s) \/ RemoveAccess(s)
        PROVE  FeeInv'
    <2>1. StoreOK' /\ OneFeeTarget'
      BY <1>0, <1>8 DEF GrantAccess, RemoveAccess, StoreOK, OneFeeTarget, rowVars
    <2> QED
      BY <1>3, <1>8, <2>1 DEF GrantAccess, RemoveAccess
  <1>9. ASSUME NEW a \in Accounts, DeleteAccount(a) PROVE FeeInv'
    <2>1. StoreOK' /\ debits' \in [Fees -> Nat] /\ released' \subseteq Fees
      BY <1>0, <1>9 DEF DeleteAccount, StoreOK, RowStates, MaybeAccount, TypeOK
    <2>2. Ledger'
      BY <1>0, <1>1, <1>9 DEF DeleteAccount, Request, Ledger, runtimeVars
    <2>3. CursorCovers'
      BY <1>0, <1>1, <1>9 DEF DeleteAccount, Request, CursorCovers, runtimeVars,
         passVars, PassOK
    <2>4. OneFeeTarget'
      BY <1>0, <1>9 DEF DeleteAccount, OneFeeTarget
    <2> QED
      BY <1>2, <2>1, <2>2, <2>3, <2>4
  <1>10. ASSUME NEW f \in Fees, NEW a \in Accounts, BookByHand(f, a) PROVE FeeInv'
    <2>1. PICK v \in {"accepted", "rejected"} : Store(f, a, v)
      BY <1>10 DEF BookByHand
    <2>2. StoreOK' /\ debits' \in [Fees -> Nat] /\ released' \subseteq Fees
      BY <1>0, <1>10, <2>1 DEF BookByHand, Store, StoreOK, RowStates,
         MaybeAccount, TypeOK, grantVars
    <2>3. Ledger'
      BY <1>0, <1>1, <1>10, <2>1 DEF BookByHand, Store, Request, Ledger, StoreOK,
         TypeOK, runtimeVars, grantVars
    <2>4. CursorCovers'
      BY <1>0, <1>1, <1>10, <2>1 DEF BookByHand, Store, Request, CursorCovers,
         StoreOK, PassOK, runtimeVars, passVars
    <2>5. OneFeeTarget'
      BY <1>0, <1>10 DEF BookByHand, OneFeeTarget, grantVars
    <2> QED
      BY <1>2, <2>2, <2>3, <2>4, <2>5
  <1> QED
    BY <1>4, <1>5, <1>6, <1>7, <1>8, <1>9, <1>10 DEF Operator

-----------------------------------------------------------------------------
\* A stuttering step keeps the invariant.
LEMMA StutterKeeps == FeeInv /\ UNCHANGED vars => FeeInv'
  BY DEF FeeInv, TypeOK, StoreOK, PassOK, Bounds, Ledger, CursorCovers,
     OneFeeTarget, vars, rowVars, grantVars, runtimeVars, passVars

\* The cursor, the rows, the debits and the reports agree in every reachable
\* state (fees.go, intakeFees and reportFeeSkip).
THEOREM FeeInvHolds == Spec => []FeeInv
  <1>1. FeeInv /\ [Next]_vars => FeeInv'
    BY PassKeeps, LifeKeeps, OperatorKeeps, StutterKeeps DEF Next
  <1> QED
    BY InitFee, <1>1, PTL DEF Spec

\* What FeeInv says of debits and reports.
LEMMA FeeInvImplies ==
    FeeInv => TypeOK /\ ChargedOnce /\ CursorCovers /\ SkipReportedOnce /\ OneFeeTarget
  BY DEF FeeInv, Ledger, ChargedOnce, SkipReportedOnce

\* The variables keep their types.
THEOREM FeeTypeCorrect == Spec => []TypeOK
  BY FeeInvHolds, FeeInvImplies, PTL

\* No fee is debited twice, and every debit has its row and its account.
THEOREM FeesChargedOnce == Spec => []ChargedOnce
  BY FeeInvHolds, FeeInvImplies, PTL

\* The worker passes no fee silently.
THEOREM NoFeePassedSilently == Spec => []CursorCovers
  BY FeeInvHolds, FeeInvImplies, PTL

\* No skip is reported twice by one process.
THEOREM SkipsReportedOnce == Spec => []SkipReportedOnce
  BY FeeInvHolds, FeeInvImplies, PTL

\* Grants never leave the account of a fee to choice.
THEOREM FeeTargetUnique == Spec => []OneFeeTarget
  BY FeeInvHolds, FeeInvImplies, PTL
=============================================================================
