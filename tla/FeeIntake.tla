------------------------------ MODULE FeeIntake ------------------------------
(***************************************************************************)
(* The intake of unlinked venue fees of one trading connection: the        *)
(* connection's worker reads the fees the venue posts page by page, books  *)
(* each as an adjustment of the connection's fee account (or of the only   *)
(* account that can send) under an id made from the fee's, and reports the *)
(* ones it must skip.  The position is in the worker's memory; the reports *)
(* made are in the runtime's memory; adjustments, grants and the fee       *)
(* account are in the store.  Operators change the latter meanwhile.       *)
(*                                                                         *)
(* Fees are numbered in the venue's order.  The connection has its first   *)
(* venue order, so its fees are read.                                      *)
(***************************************************************************)
EXTENDS Integers

CONSTANTS
    Accounts,     \* Officer accounts
    Group,        \* an account group that may hold a grant
    NoAccount,    \* no account
    LastFee,      \* the venue posts the fees 1..LastFee
    Executed,     \* fees with status executed; the others are not applicable
    PageSize,     \* fees in a full page
    MaxFaults,    \* how many reads, adjustments or reports fail or time out
    MaxStops,     \* how often the process dies or the runtime is restarted
    MaxOps        \* how many operator requests are made

Fees == 1..LastFee

ASSUME FeeAssumption ==
    /\ LastFee \in Nat
    /\ PageSize \in Nat \ {0}
    /\ Executed \subseteq Fees
    /\ NoAccount \notin Accounts
    /\ Group \notin Accounts

ASSUME LimitAssumption ==
    /\ MaxFaults \in Nat
    /\ MaxStops \in Nat
    /\ MaxOps \in Nat

VARIABLES
    (* Officer's store *)
    row,          \* the adjustment stored under the id of a fee
    owner,        \* the account of that adjustment
    accounts,     \* accounts that exist
    members,      \* members of the group
    grants,       \* subjects that may send through the connection
    feeAccount,   \* the connection's fee account
    mapped,       \* do the fees' assets map to one Officer asset each
    (* the venue *)
    posted,       \* the venue posted the fees 1..posted
    (* the runtime *)
    up,           \* is the runtime not asked to stop
    skipped,      \* feeSkips: fees whose skip was reported
    (* the worker *)
    pc,           \* control point of the pass
    cursor,       \* feeCursor: the last fee finished with
    last,         \* the last fee of the page being read
    more,         \* did the page come with a next token
    target,       \* the account this pass books fees to
    (* history and bounds *)
    debits,       \* how often a fee is debited from accounts that exist
    released,     \* fees whose adjustment went with its account
    reports,      \* how often this process reported a fee skipped
    faults, stops, ops

rowVars     == <<row, owner, debits, released>>
grantVars   == <<accounts, members, grants, feeAccount>>
runtimeVars == <<up, skipped, reports>>
passVars    == <<pc, cursor, last, more, target>>
vars == <<rowVars, grantVars, mapped, posted, runtimeVars, passVars,
          faults, stops, ops>>

RowStates == {"none", "accepted", "rejected"}
PCs == {"idle", "page", "fee", "adjust", "book", "skip", "off"}
MaybeAccount == Accounts \cup {NoAccount}

StoreOK ==
    /\ row \in [Fees -> RowStates]
    /\ owner \in [Fees -> MaybeAccount]
    /\ accounts \subseteq Accounts
    /\ members \subseteq Accounts
    /\ grants \subseteq Accounts \cup {Group}
    /\ feeAccount \in MaybeAccount
    /\ mapped \in BOOLEAN

PassOK ==
    /\ pc \in PCs
    /\ cursor \in 0..LastFee
    /\ last \in 0..LastFee
    /\ more \in BOOLEAN
    /\ target \in MaybeAccount
    /\ pc \in {"fee", "adjust", "book", "skip"} => cursor <= last
    /\ pc \in {"adjust", "book", "skip"} => cursor < last

TypeOK ==
    /\ StoreOK
    /\ PassOK
    /\ posted \in 0..LastFee
    /\ up \in BOOLEAN
    /\ skipped \subseteq Fees
    /\ debits \in [Fees -> Nat]
    /\ released \subseteq Fees
    /\ reports \in [Fees -> Nat]
    /\ faults \in 0..MaxFaults
    /\ stops \in 0..MaxStops
    /\ ops \in 0..MaxOps

Init ==
    /\ row = [f \in Fees |-> "none"]
    /\ owner = [f \in Fees |-> NoAccount]
    /\ accounts = Accounts
    /\ members = {}
    /\ grants = {}
    /\ feeAccount = NoAccount
    /\ mapped \in BOOLEAN
    /\ posted = 0
    /\ up = TRUE
    /\ skipped = {}
    /\ pc = "idle" /\ cursor = 0 /\ last = 0 /\ more = FALSE
    /\ target = NoAccount
    /\ debits = [f \in Fees |-> 0]
    /\ released = {}
    /\ reports = [f \in Fees |-> 0]
    /\ faults = 0 /\ stops = 0 /\ ops = 0

-----------------------------------------------------------------------------
(* The worker's pass.                                                      *)

\* Accounts that can send: granted directly or through the granted group.
Senders == (grants \ {Group}) \cup (IF Group \in grants THEN members ELSE {})

\* The fee account, else the only sender, else nobody.
PassTarget ==
    IF feeAccount # NoAccount THEN feeAccount
    ELSE IF \E a \in Senders : Senders = {a} THEN CHOOSE a \in Senders : TRUE
    ELSE NoAccount

\* The fee at the head of the rest of the page.
Fee == cursor + 1

\* The id names the account as well, so another account's row is not found.
IdTaken_PerAccount(f) == row[f] # "none" /\ owner[f] = target
\* Does the store hold an adjustment under the fee's id, whoever's it is.
IdTaken(f) == row[f] # "none"

\* The pass ends: an error or the read budget.
EndPass ==
    /\ pc' = "idle"
    /\ UNCHANGED <<cursor, last, more, target>>

\* The worker is done with the fee and goes on with the page.
Finish ==
    /\ cursor' = Fee
    /\ pc' = "fee"
    /\ UNCHANGED <<last, more, target>>

Goto(p) ==
    /\ pc' = p
    /\ UNCHANGED <<cursor, last, more, target>>

\* After a reconnect, or on the hourly tick, the accounts are read once for
\* the whole pass.
BeginPass ==
    /\ pc = "idle" /\ up
    /\ pc' = "page"
    /\ target' = PassTarget
    /\ UNCHANGED <<rowVars, grantVars, mapped, posted, runtimeVars, cursor,
                   last, more, faults, stops, ops>>

\* A full page counts one fee too many.
ReadPage_OneTooMany ==
    /\ pc = "page"
    /\ pc' = "fee"
    /\ last' = IF cursor + PageSize <= posted THEN cursor + PageSize + 1 ELSE posted
    /\ more' = (cursor + PageSize <= posted)
    /\ UNCHANGED <<rowVars, grantVars, mapped, posted, runtimeVars, cursor,
                   target, faults, stops, ops>>
\* One page strictly after the cursor; a page that is not full is the last.
ReadPage ==
    /\ pc = "page"
    /\ pc' = "fee"
    /\ last' = IF cursor + PageSize <= posted THEN cursor + PageSize ELSE posted
    /\ more' = (cursor + PageSize <= posted)
    /\ UNCHANGED <<rowVars, grantVars, mapped, posted, runtimeVars, cursor,
                   target, faults, stops, ops>>

\* The read fails on the way and hands over the fees before the failure.
ReadPartly ==
    /\ pc = "page" /\ faults < MaxFaults
    /\ \E l \in cursor..posted :
        /\ l < cursor + PageSize
        /\ last' = l
    /\ more' = FALSE
    /\ pc' = "fee"
    /\ faults' = faults + 1
    /\ UNCHANGED <<rowVars, grantVars, mapped, posted, runtimeVars, cursor,
                   target, stops, ops>>

PageDone ==
    /\ pc = "fee" /\ cursor = last
    /\ Goto(IF more THEN "page" ELSE "idle")
    /\ UNCHANGED <<rowVars, grantVars, mapped, posted, runtimeVars, faults,
                   stops, ops>>

\* A read fails or the budget is used up, or the runtime is stopping: the
\* pass ends with the fee unfinished.
GiveUp ==
    /\ pc \in {"page", "fee", "adjust"}
    /\ \/ ~up /\ faults' = faults
       \/ faults < MaxFaults /\ faults' = faults + 1
    /\ EndPass
    /\ UNCHANGED <<rowVars, grantVars, mapped, posted, runtimeVars, stops, ops>>

\* A fee reported before is never looked at again.
Decide_SkipIsFinal(f) ==
    IF f \notin Executed \/ f \in skipped THEN "skip"
    ELSE IF row[f] = "accepted" THEN "done"
    ELSE IF row[f] = "rejected" \/ target = NoAccount \/ ~mapped THEN "skip"
    ELSE "adjust"
\* A fee nobody can be charged for is passed without a report.
Decide_Silent(f) ==
    IF f \notin Executed THEN "skip"
    ELSE IF row[f] = "accepted" \/ target = NoAccount THEN "done"
    ELSE IF row[f] = "rejected" \/ ~mapped THEN "skip"
    ELSE "adjust"
\* What the worker decides for the fee from what it reads: its status, an
\* adjustment stored earlier, the pass's account, the asset.
Decide(f) ==
    IF f \notin Executed THEN "skip"
    ELSE IF row[f] = "accepted" THEN "done"
    ELSE IF row[f] = "rejected" THEN "skip"
    ELSE IF target = NoAccount THEN "skip"
    ELSE IF ~mapped THEN "skip"
    ELSE "adjust"

Look ==
    /\ pc = "fee" /\ cursor < last
    /\ LET next == Decide(Fee)
       IN IF next = "done" THEN Finish ELSE Goto(next)
    /\ UNCHANGED <<rowVars, grantVars, mapped, posted, runtimeVars, faults,
                   stops, ops>>

\* The adjustment's early checks: the account must exist and the id be unused.
\* An id in use counts as booked.
Adjust ==
    /\ pc = "adjust"
    /\ IF target \notin accounts THEN EndPass
       ELSE IF IdTaken(Fee) THEN Finish
       ELSE Goto("book")
    /\ UNCHANGED <<rowVars, grantVars, mapped, posted, runtimeVars, faults,
                   stops, ops>>

\* An adjustment of account a is stored under the id of fee f.
Store(f, a, verdict) ==
    /\ row' = [row EXCEPT ![f] = verdict]
    /\ owner' = [owner EXCEPT ![f] = a]
    /\ debits' = IF verdict = "accepted"
                 THEN [debits EXCEPT ![f] = @ + 1] ELSE debits
    /\ UNCHANGED released

\* The adjustment runs in the account's lane: the engine decides and the store
\* takes the row.
Book ==
    /\ pc = "book"
    /\ target \in accounts
    /\ ~IdTaken(Fee)
    /\ \/ Store(Fee, target, "accepted") /\ Finish
       \/ Store(Fee, target, "rejected") /\ Goto("skip")
    /\ UNCHANGED <<grantVars, mapped, posted, runtimeVars, faults, stops, ops>>

\* The lane fails, without effect.
BookFails ==
    /\ pc = "book"
    /\ \/ target \notin accounts /\ faults' = faults
       \/ faults < MaxFaults /\ faults' = faults + 1
    /\ EndPass
    /\ UNCHANGED <<rowVars, grantVars, mapped, posted, runtimeVars, stops, ops>>

\* A fee reported before stops the pass.
Skip_Stuck ==
    /\ pc = "skip"
    /\ skipped' = skipped \cup {Fee}
    /\ reports' = IF Fee \in skipped THEN reports
                  ELSE [reports EXCEPT ![Fee] = @ + 1]
    /\ IF Fee \in skipped THEN EndPass ELSE Finish
    /\ UNCHANGED <<rowVars, grantVars, mapped, posted, up, faults, stops, ops>>
\* reportFeeSkip: a fee reported since the process started is passed.
Skip ==
    /\ pc = "skip"
    /\ skipped' = skipped \cup {Fee}
    /\ reports' = IF Fee \in skipped THEN reports
                  ELSE [reports EXCEPT ![Fee] = @ + 1]
    /\ Finish
    /\ UNCHANGED <<rowVars, grantVars, mapped, posted, up, faults, stops, ops>>

SkipFails ==
    /\ pc = "skip" /\ Fee \notin skipped
    /\ faults < MaxFaults
    /\ faults' = faults + 1
    /\ EndPass
    /\ UNCHANGED <<rowVars, grantVars, mapped, posted, runtimeVars, stops, ops>>

Pass == \/ BeginPass \/ ReadPage \/ ReadPartly \/ PageDone \/ GiveUp \/ Look
        \/ Adjust \/ Book \/ BookFails \/ Skip \/ SkipFails

-----------------------------------------------------------------------------
(* The runtime and the venue.                                              *)

\* Restart: the current pass is told to give up, ...
Stop ==
    /\ up /\ stops < MaxStops
    /\ up' = FALSE
    /\ stops' = stops + 1
    /\ UNCHANGED <<rowVars, grantVars, mapped, posted, skipped, reports,
                   passVars, faults, ops>>

\* ... the worker leaves, ...
Exit ==
    /\ ~up /\ pc = "idle"
    /\ Goto("off")
    /\ UNCHANGED <<rowVars, grantVars, mapped, posted, runtimeVars, faults,
                   stops, ops>>

\* A new worker has no position.
NewWorker ==
    /\ pc' = "idle" /\ cursor' = 0 /\ last' = 0 /\ more' = FALSE
    /\ target' = NoAccount

\* The runtime forgets what was reported.
Start_Forgets ==
    /\ pc = "off"
    /\ up' = TRUE
    /\ skipped' = {}
    /\ NewWorker
    /\ UNCHANGED <<rowVars, grantVars, mapped, posted, reports,
                   faults, stops, ops>>
\* ... and a new one starts, in the runtime that knows what was reported.
Start ==
    /\ pc = "off"
    /\ up' = TRUE
    /\ NewWorker
    /\ UNCHANGED <<rowVars, grantVars, mapped, posted, skipped, reports,
                   faults, stops, ops>>

\* The process dies and is started again; the engine is rebuilt from the store.
Die ==
    /\ up' = TRUE
    /\ skipped' = {}
    /\ reports' = [f \in Fees |-> 0]
    /\ NewWorker
    /\ UNCHANGED <<rowVars, grantVars, mapped, posted, faults, ops>>

Crash ==
    /\ stops < MaxStops
    /\ stops' = stops + 1
    /\ Die

\* The store refuses a row whose id was taken after the early check: the
\* engine has applied the adjustment, so the process must not go on.
Collide ==
    /\ pc = "book" /\ target \in accounts
    /\ IdTaken(Fee)
    /\ Die
    /\ UNCHANGED stops

Post ==
    /\ posted < LastFee
    /\ posted' = posted + 1
    /\ UNCHANGED <<rowVars, grantVars, mapped, runtimeVars, passVars, faults,
                   stops, ops>>

-----------------------------------------------------------------------------
(* Operators.  A request runs under the node's mutation lock, or in a lane.  *)

Request ==
    /\ ops < MaxOps
    /\ ops' = ops + 1
    /\ UNCHANGED <<posted, runtimeVars, passVars, faults, stops>>

SetFeeAccount(a) ==
    /\ Request
    /\ a \in accounts
    /\ feeAccount' = a
    /\ UNCHANGED <<rowVars, accounts, members, grants, mapped>>

\* Refused while a group is granted or several accounts can send.
ClearFeeAccount ==
    /\ Request
    /\ \A a, b \in Senders : a = b
    /\ Group \notin grants
    /\ feeAccount' = NoAccount
    /\ UNCHANGED <<rowVars, accounts, members, grants, mapped>>

\* Any number of accounts, as long as no group is among them.
GrantAccess_AnyAccount(s) ==
    /\ Request
    /\ s \in accounts \cup {Group}
    /\ feeAccount # NoAccount \/ s # Group
    /\ grants' = grants \cup {s}
    /\ UNCHANGED <<rowVars, accounts, members, feeAccount, mapped>>

\* Without a fee account only one account may be granted, and no group.
GrantAccess(s) ==
    /\ Request
    /\ s \in accounts \cup {Group}
    /\ \/ feeAccount # NoAccount
       \/ s # Group /\ (s \in grants \/ grants = {})
    /\ grants' = grants \cup {s}
    /\ UNCHANGED <<rowVars, accounts, members, feeAccount, mapped>>

RemoveAccess(s) ==
    /\ Request
    /\ s \in grants
    /\ grants' = grants \ {s}
    /\ UNCHANGED <<rowVars, accounts, members, feeAccount, mapped>>

SetAccountGroup(a) ==
    /\ Request
    /\ a \in accounts
    /\ members' = IF a \in members THEN members \ {a} ELSE members \cup {a}
    /\ UNCHANGED <<rowVars, accounts, grants, feeAccount, mapped>>

\* The account's adjustments stay behind.
DeleteAccount_KeepsRows(a) ==
    /\ Request
    /\ a \in accounts /\ a # feeAccount
    /\ accounts' = accounts \ {a}
    /\ members' = members \ {a}
    /\ grants' = grants \ {a}
    /\ UNCHANGED <<rowVars, feeAccount, mapped>>
\* A forced delete takes the account's grants and adjustments along; a fee
\* account cannot be deleted.
DeleteAccount(a) ==
    /\ Request
    /\ a \in accounts /\ a # feeAccount
    /\ LET gone == {f \in Fees : owner[f] = a}
       IN /\ row' = [f \in Fees |-> IF f \in gone THEN "none" ELSE row[f]]
          /\ owner' = [f \in Fees |-> IF f \in gone THEN NoAccount ELSE owner[f]]
          /\ debits' = [f \in Fees |-> IF f \in gone THEN 0 ELSE debits[f]]
          /\ released' = released \cup gone
    /\ accounts' = accounts \ {a}
    /\ members' = members \ {a}
    /\ grants' = grants \ {a}
    /\ UNCHANGED <<feeAccount, mapped>>

\* An instrument mapping is added or removed.
Remap ==
    /\ Request
    /\ mapped' = ~mapped
    /\ UNCHANGED <<rowVars, grantVars>>

\* An operator books a posted fee by hand under the id the runtime would use.
BookByHand(f, a) ==
    /\ Request
    /\ f <= posted /\ a \in accounts
    /\ row[f] = "none"
    /\ \E verdict \in {"accepted", "rejected"} : Store(f, a, verdict)
    /\ UNCHANGED <<grantVars, mapped>>

Operator ==
    \/ ClearFeeAccount \/ Remap
    \/ \E a \in Accounts : SetFeeAccount(a) \/ SetAccountGroup(a) \/ DeleteAccount(a)
    \/ \E s \in Accounts \cup {Group} : GrantAccess(s) \/ RemoveAccess(s)
    \/ \E f \in Fees, a \in Accounts : BookByHand(f, a)

Next == Pass \/ Stop \/ Exit \/ Start \/ Crash \/ Collide \/ Post \/ Operator

\* The worker keeps running and its hourly tick comes; a restart goes through.
Fairness == WF_vars(Pass) /\ WF_vars(Exit) /\ WF_vars(Start) /\ WF_vars(Collide)

Spec == Init /\ [][Next]_vars /\ Fairness

-----------------------------------------------------------------------------
(* What must hold.                                                         *)

\* A fee is debited at most once, whatever the passes, restarts, changes of
\* the fee account and bookings by hand in between, and a debit has its row
\* and its account (fees.go: the id of the adjustment is made from the fee's).
ChargedOnce ==
    \A f \in Fees :
        /\ debits[f] <= 1
        /\ debits[f] = 1 => row[f] = "accepted" /\ owner[f] \in accounts

\* The cursor passes a fee only when an adjustment of it was stored or its
\* skip was reported (fees.go: the cursor consumes final outcomes).  An
\* adjustment may since have gone with its account.
CursorCovers ==
    \A f \in 1..cursor : row[f] # "none" \/ f \in skipped \/ f \in released

\* A skip is reported at most once while the process lives, across restarts
\* of the runtime (doc.go: at most once per Runtime, including across Restart).
SkipReportedOnce == \A f \in Fees : reports[f] <= 1

\* Without a fee account no group and at most one account is granted, so a
\* fee never has several accounts to choose from, whatever requests and
\* deletes came before (PutTradingAccess, SetTradingConnectionFeeAccount).
OneFeeTarget ==
    feeAccount = NoAccount =>
        /\ Group \notin grants
        /\ \A a, b \in grants : a = b

\* The cursor stays within what the venue posted.
Bounds == cursor <= posted /\ last <= posted

\* The row of a fee, its account and its debits agree, and a fee was reported
\* once exactly when the runtime remembers it.
Ledger ==
    \A f \in Fees :
        /\ row[f] # "none" => owner[f] \in accounts
        /\ debits[f] = IF row[f] = "accepted" THEN 1 ELSE 0
        /\ reports[f] = IF f \in skipped THEN 1 ELSE 0

\* The invariant that makes the four above inductive.
FeeInv == TypeOK /\ Bounds /\ Ledger /\ CursorCovers /\ OneFeeTarget

\* Every posted fee the worker has not passed is booked or reported in the end:
\* reads, adjustments and reports that failed are tried again (doc.go: the
\* cursor retries temporary failures, an audit error on a later pass).
FeesSettle ==
    \A f \in Fees :
        f <= posted /\ cursor < f ~> row[f] # "none" \/ f \in skipped

\* The connection has a fee account and the assets of its fees are mapped.
Ready == feeAccount # NoAccount /\ mapped

\* When everything needed is in place before a pass starts, a fee the worker
\* has not passed gets its adjustment, even if its skip was reported earlier
\* (doc.go: restart replays from the first link).
ReadyFeesBooked ==
    \A f \in Executed :
        f <= posted /\ cursor < f /\ pc = "idle" /\ Ready
            ~> row[f] # "none" \/ ~Ready
=============================================================================
