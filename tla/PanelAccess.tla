---------------------------- MODULE PanelAccess ----------------------------
(***************************************************************************)
(* Who may use the panel: the access service over its store.  One mutex,   *)
(* mu, serialises what changes the access state; the check of a session,   *)
(* which every panel request makes, takes no lock, and a reset of the      *)
(* database goes past the service altogether.  The store keeps the mode    *)
(* and the tokens in memory too, as a snapshot that accessMu orders with   *)
(* the writes behind it; every write is a transaction that reads the       *)
(* stored mode first.  The recovery code and the sign-in delay live in     *)
(* memory and end with the process.                                        *)
(***************************************************************************)
EXTENDS Integers, FiniteSetsExt, Functions

CONSTANTS
    Callers,         \* requests in the program at one time
    Decisions,       \* what setup asks for before it completes
    IssueInterval,   \* recoveryIssueInterval
    CodeTTL,         \* recoveryCodeTTL
    MaxFailures,     \* recoveryMaxFailures
    MinDelay,        \* signInMinDelay
    MaxDelay,        \* signInMaxDelay
    TouchInterval,   \* sessionTouchInterval
    IdleTimeout,     \* sessionIdleTimeout
    Lifetime,        \* sessionLifetime
    MaxTime,         \* bound: the last moment of the clock
    MaxIds,          \* bound: credentials and sessions issued
    MaxFaults,       \* bound: writes that fail
    MaxEvents        \* bound: restarts and resets of the database

ASSUME TimesAssumption ==
    /\ {IssueInterval, CodeTTL, MaxFailures, MinDelay, TouchInterval,
        IdleTimeout, Lifetime} \subseteq Nat \ {0}
    /\ MaxDelay \in Nat /\ MinDelay <= MaxDelay
    /\ {MaxTime, MaxIds, MaxFaults, MaxEvents} \subseteq Nat

Free == "free"
Node == "node"       \* the reset of the database, which is no panel request
ASSUME CallersAssumption == {Free, Node} \cap Callers = {}

VARIABLES
    clock,       \* the time
    db,          \* the stored access state; chosen, the decisions of setup
    snapshot,    \* the published mode and tokens
    accessMu,    \* who is between a commit and the snapshot it publishes
    mu,          \* the holder of the service's mutex
    signIn,      \* failed sign-ins since a success, when the next is accepted
    recovery,    \* the recovery code; of, the password it was issued for
    call,        \* where each request is
    last,        \* the last password, token or session issued
    printed,     \* history: when a code was last printed by this process and
                 \* whether token mode was enabled since
    faults, events

vars == <<clock, db, snapshot, accessMu, mu, signIn, recovery, call, last,
          printed, faults, events>>

Done == [op |-> "none", at |-> "none"]
Auditing == [op |-> "audited", at |-> "audit"]
Never == -IssueInterval

NoCode == [held |-> FALSE, of |-> 0, expires |-> 0, failures |-> 0,
           issued |-> Never]
NotPrinted == [at |-> Never, enabled |-> FALSE]

NoSessions == [i \in {} |-> [since |-> 0, seen |-> 0, by |-> 0]]
Fresh == [mode |-> "setup", password |-> 0, token |-> 0,
          sessions |-> NoSessions, chosen |-> {}]

(* The snapshot a database leaves when it is loaded.                         *)
Loaded(d) == [mode |-> d.mode, token |-> d.token]

(* A program starts on the database it finds: a new one, or one whose setup  *)
(* was completed.                                                            *)
Init ==
    /\ clock = 0
    /\ db \in {Fresh,
               [Fresh EXCEPT !.mode = "open", !.chosen = Decisions],
               [Fresh EXCEPT !.mode = "token", !.chosen = Decisions,
                             !.password = 1, !.token = 1]}
    /\ snapshot = Loaded(db)
    /\ accessMu = Free
    /\ mu = Free
    /\ signIn = [failures |-> 0, next |-> 0]
    /\ recovery = NoCode
    /\ call = [c \in Callers |-> Done]
    /\ last = 1
    /\ printed = NotPrinted
    /\ faults = 0
    /\ events = 0

Memory == <<signIn, recovery, printed>>
Bounds == <<clock, faults, events>>

----------------------------------------------------------------------------
(* The store.                                                                *)

(* Deleting sessions; a missing one is not an error.                         *)
Without(sessions, ids) == Restrict(sessions, DOMAIN sessions \ ids)

(* A new session, after those that expired by the time it is issued are      *)
(* deleted.                                                                  *)
StoreSession(sessions, id, now, password) ==
    LET current == {i \in DOMAIN sessions : sessions[i].since + Lifetime > now}
    IN [i \in current \cup {id} |->
            IF i = id THEN [since |-> now, seen |-> now, by |-> password]
            ELSE sessions[i]]

(* Touching with an upsert.                                                  *)
TouchOrCreate(sessions, id, row, now) ==
    [i \in DOMAIN sessions \cup {id} |->
        IF i = id THEN [row EXCEPT !.seen = now] ELSE sessions[i]]

(* An UPDATE of the row: nothing when a sign-out deleted it.                 *)
TouchSession(sessions, id, row, now) ==
    IF id \in DOMAIN sessions
    THEN [sessions EXCEPT ![id].seen = now]
    ELSE sessions

TokenMode(d, n, now) ==
    [d EXCEPT !.mode = "token", !.password = n, !.token = n,
              !.sessions = StoreSession(@, n, now, n)]
DisableTokenMode(d) ==
    [d EXCEPT !.mode = "open", !.password = 0, !.token = 0,
              !.sessions = NoSessions]

(* ReplacePassword keeps the session that asked, which confirmed itself with *)
(* the current password.                                                     *)
ReplacePassword(d, n, keep) ==
    [d EXCEPT !.password = n,
              !.sessions = [i \in DOMAIN d.sessions \cap {keep} |->
                               [d.sessions[i] EXCEPT !.by = n]]]
ResetPassword(d, n, now) ==
    [d EXCEPT !.password = n,
              !.sessions = StoreSession(NoSessions, n, now, n)]

(* The mode a write requires, and what it leaves.                            *)
Requires(op) ==
    CASE op \in {"completeOpen", "completeToken"} -> "setup"
      [] op = "switchToToken" -> "open"
      [] OTHER -> "token"

Written(k, n) ==
    CASE k.op = "signIn" ->
            [db EXCEPT !.sessions = StoreSession(@, n, k.now, k.word)]
      [] k.op = "reset" -> ResetPassword(db, n, k.now)
      [] k.op = "change" -> ReplacePassword(db, n, k.id)
      [] k.op = "regenerate" -> [db EXCEPT !.token = n]
      [] k.op = "switchToOpen" -> DisableTokenMode(db)
      [] k.op = "completeOpen" -> [db EXCEPT !.mode = "open"]
      [] k.op \in {"switchToToken", "completeToken"} -> TokenMode(db, n, k.now)

Issues(op) == op \notin {"switchToOpen", "completeOpen"}

(* The operations whose time is the start of a session or of a delay.        *)
Dated == {"signIn", "reset", "switchToToken", "completeToken"}

(* The writes that change the mode or a token also publish the snapshot.     *)
Publishing ==
    {"regenerate", "switchToOpen", "switchToToken", "completeOpen",
     "completeToken"}

----------------------------------------------------------------------------
(* The service: starting an operation.                                       *)

Live(code) == code.held /\ clock < code.expires

(* Forgetting with the code when it was issued, too.                         *)
BurnAndForget(code) == NoCode

(* The time it was issued stays, for the interval between codes.             *)
BurnRecoveryCode(code) == [NoCode EXCEPT !.issued = code.issued]

EnabledAsBefore(code) == code

(* Token mode, when it is enabled, starts without a code.                    *)
EnabledTokenMode(code) == NoCode

(* backoff.Delay.                                                            *)
Delay(failures) == Min({MaxDelay, MinDelay * 2 ^ (failures - 1)})

Serialised ==
    {"signIn", "signOut", "signOutEverywhere", "request", "reset", "change",
     "switchToOpen", "switchToToken", "regenerate", "decide", "completeOpen",
     "completeToken"}

SignInUnlocked(op) == op \in Serialised \ {"signIn"}
NeedsMu(op) == op \in Serialised

CanStart(c, op) == call[c] = Done /\ (NeedsMu(op) => mu = Free)

Enter(c, op, stage, word, id) ==
    /\ CanStart(c, op)
    /\ Issues(op) => last < MaxIds
    /\ mu' = IF NeedsMu(op) THEN c ELSE mu
    /\ call' = [call EXCEPT ![c] = [op |-> op, at |-> stage, word |-> word, id |-> id,
                                    now |-> IF op \in Dated THEN clock ELSE 0]]

(* requireMode and the sign-in delay refuse without a trace.                 *)
SignIn(c, word) ==
    /\ snapshot.mode = "token"
    /\ clock >= signIn.next
    /\ Enter(c, "signIn", "verify", word, 0)
    /\ UNCHANGED <<db, snapshot, accessMu, Memory, last, Bounds>>

SwitchToOpen(c, word) ==
    /\ snapshot.mode = "token"
    /\ Enter(c, "switchToOpen", "verify", word, 0)
    /\ UNCHANGED <<db, snapshot, accessMu, Memory, last, Bounds>>

ChangePassword(c, word, id) ==
    /\ snapshot.mode = "token"
    /\ Enter(c, "change", "verify", word, id)
    /\ UNCHANGED <<db, snapshot, accessMu, Memory, last, Bounds>>

SwitchToToken(c) ==
    /\ snapshot.mode = "open"
    /\ Enter(c, "switchToToken", "write", 0, 0)
    /\ UNCHANGED <<db, snapshot, accessMu, Memory, last, Bounds>>

RegenerateToken(c) ==
    /\ snapshot.mode = "token"
    /\ Enter(c, "regenerate", "write", 0, 0)
    /\ UNCHANGED <<db, snapshot, accessMu, Memory, last, Bounds>>

CompleteSetup(c, op) ==
    /\ snapshot.mode = "setup"
    /\ db.chosen = Decisions
    /\ Enter(c, op, "write", 0, 0)
    /\ UNCHANGED <<db, snapshot, accessMu, Memory, last, Bounds>>

(* The code is printed and live before its audit entry is written, so it     *)
(* stays live when that fails and the caller is told of an error.            *)
RequestRecovery(c) ==
    /\ snapshot.mode = "token"
    /\ ~Live(recovery)
    /\ clock >= recovery.issued + IssueInterval
    /\ CanStart(c, "request")
    /\ mu' = c
    /\ call' = [call EXCEPT ![c] = Auditing]
    /\ recovery' = [held |-> TRUE, of |-> db.password,
                    expires |-> clock + CodeTTL, failures |-> 0,
                    issued |-> clock]
    /\ printed' = [at |-> clock, enabled |-> FALSE]
    /\ UNCHANGED <<db, snapshot, accessMu, signIn, last, Bounds>>

ResetWithRecoveryCode(c) ==
    /\ snapshot.mode = "token"
    /\ Live(recovery)
    /\ Enter(c, "reset", "write", 0, 0)
    /\ UNCHANGED <<db, snapshot, accessMu, Memory, last, Bounds>>

(* A code presented when none is live forgets an expired one.                *)
ResetWithoutCode(c) ==
    /\ snapshot.mode = "token"
    /\ CanStart(c, "reset")
    /\ ~Live(recovery)
    /\ recovery' = BurnRecoveryCode(recovery)
    /\ UNCHANGED <<db, snapshot, accessMu, mu, signIn, printed, call, last,
                   Bounds>>

ResetWithWrongCode(c) ==
    /\ snapshot.mode = "token"
    /\ CanStart(c, "reset")
    /\ Live(recovery)
    /\ recovery' = IF recovery.failures + 1 >= MaxFailures
                   THEN BurnRecoveryCode(recovery)
                   ELSE [recovery EXCEPT !.failures = @ + 1]
    /\ UNCHANGED <<db, snapshot, accessMu, mu, signIn, printed, call, last,
                   Bounds>>

SignOut(c, ids) ==
    /\ CanStart(c, "signOut")
    /\ db' = [db EXCEPT !.sessions = Without(@, ids)]
    /\ UNCHANGED <<snapshot, accessMu, mu, Memory, call, last, Bounds>>

(* WhileInSetup and DeclineEncryption: a decision is stored while setup is   *)
(* kept from completing.                                                     *)
Decide(c, d) ==
    /\ snapshot.mode = "setup"
    /\ CanStart(c, "decide")
    /\ db' = [db EXCEPT !.chosen = @ \cup {d}]
    /\ UNCHANGED <<snapshot, accessMu, mu, Memory, call, last, Bounds>>

----------------------------------------------------------------------------
(* The service: the steps of an operation that holds mu.                     *)

Leave(c) ==
    /\ mu' = IF mu = c THEN Free ELSE mu
    /\ call' = [call EXCEPT ![c] = Done]

Proceed(c, stage) ==
    /\ call' = [call EXCEPT ![c].at = stage]
    /\ UNCHANGED mu

(* The change is made: what is left to write needs nothing the call knew.    *)
Made(c) ==
    /\ call' = [call EXCEPT ![c] = Auditing]
    /\ UNCHANGED mu

(* Reading the stored password and comparing.  A wrong one at sign-in delays *)
(* the next; a right one clears the delay.                                   *)
PasswordMatches(c) ==
    /\ call[c].at = "verify"
    /\ db.password # 0 /\ call[c].word = db.password
    /\ signIn' = IF call[c].op = "signIn" THEN [failures |-> 0, next |-> 0]
                 ELSE signIn
    /\ Proceed(c, "write")
    /\ UNCHANGED <<db, snapshot, accessMu, recovery, printed, last, Bounds>>

PasswordRefused(c) ==
    /\ call[c].at = "verify"
    /\ db.password = 0 \/ call[c].word # db.password
    /\ signIn' = IF call[c].op = "signIn" /\ db.password # 0
                 THEN LET n == signIn.failures + 1 IN
                      [failures |-> Min({n, MaxDelay}),
                       next |-> call[c].now + Delay(n)]
                 ELSE signIn
    /\ Leave(c)
    /\ UNCHANGED <<db, snapshot, accessMu, recovery, printed, last, Bounds>>

(* The transaction of a write that leaves the mode and the tokens alone.     *)
(* A password change burns the code of the password it replaced.             *)
Write(c) ==
    LET k == call[c] IN
    /\ k.at = "write" /\ k.op \notin Publishing
    /\ db.mode = Requires(k.op)
    /\ last' = last + 1
    /\ db' = Written(k, last + 1)
    /\ IF k.op = "signIn"
       THEN Leave(c) /\ UNCHANGED recovery
       ELSE Made(c) /\ recovery' = BurnRecoveryCode(recovery)
    /\ UNCHANGED <<snapshot, accessMu, signIn, printed, Bounds>>

(* The transaction of a write that holds accessMu until it publishes.        *)
Commit(c) ==
    LET k == call[c] IN
    /\ k.at = "write" /\ k.op \in Publishing
    /\ accessMu = Free
    /\ db.mode = Requires(k.op)
    /\ last' = IF Issues(k.op) THEN last + 1 ELSE last
    /\ db' = Written(k, last + 1)
    /\ accessMu' = c
    /\ Proceed(c, "publish")
    /\ UNCHANGED <<snapshot, Memory, Bounds>>

(* Token mode forgets every earlier code, whatever took the mode away.       *)
Publish(c) ==
    /\ call[c].at = "publish"
    /\ snapshot' = Loaded(db)
    /\ accessMu' = Free
    /\ IF call[c].op \in {"switchToToken", "completeToken"}
       THEN /\ recovery' = EnabledTokenMode(recovery)
            /\ printed' = [printed EXCEPT !.enabled = TRUE]
       ELSE UNCHANGED <<recovery, printed>>
    /\ Made(c)
    /\ UNCHANGED <<db, signIn, last, Bounds>>

(* Another mode than the one required: nothing is written.                   *)
WriteRefused(c) ==
    /\ call[c].at = "write"
    /\ call[c].op \in Publishing => accessMu = Free
    /\ db.mode # Requires(call[c].op)
    /\ Leave(c)
    /\ UNCHANGED <<db, snapshot, accessMu, Memory, last, Bounds>>

WriteFails(c) ==
    /\ call[c].at = "write"
    /\ faults < MaxFaults
    /\ faults' = faults + 1
    /\ Leave(c)
    /\ UNCHANGED <<db, snapshot, accessMu, Memory, last, clock, events>>

(* The audit entries follow the change, which stays whether they are stored  *)
(* or not.                                                                   *)
Audit(c) ==
    /\ call[c].at = "audit"
    /\ Leave(c)
    /\ UNCHANGED <<db, snapshot, accessMu, Memory, last, Bounds>>

----------------------------------------------------------------------------
(* The check of a session takes no lock.                                     *)

ReadSession(c, id) ==
    /\ snapshot.mode = "token"
    /\ id \in DOMAIN db.sessions
    /\ call[c] = Done
    /\ call' = [call EXCEPT ![c] = [op |-> "check", at |-> "found",
                                    row |-> db.sessions[id], id |-> id]]
    /\ UNCHANGED <<db, snapshot, accessMu, mu, Memory, last, Bounds>>

(* The clock is read after the row: an ended session is deleted, a live one  *)
(* touched when its last-seen time is old enough.                            *)
CheckSession(c) ==
    LET row == call[c].row
        live == clock < row.since + Lifetime /\ clock < row.seen + IdleTimeout
    IN
    /\ call[c].at = "found"
    /\ db' = [db EXCEPT !.sessions =
                 IF ~live THEN Without(@, {call[c].id})
                 ELSE IF clock - row.seen > TouchInterval
                 THEN TouchSession(@, call[c].id, row, clock)
                 ELSE @]
    /\ call' = [call EXCEPT ![c] = Done]
    /\ UNCHANGED <<snapshot, accessMu, mu, Memory, last, Bounds>>

----------------------------------------------------------------------------
(* Past the service.                                                         *)

(* Reset puts a new database in place of the old one and publishes its       *)
(* snapshot, under accessMu alone.  It is refused during setup.              *)
ResetCommits ==
    /\ events < MaxEvents
    /\ events' = events + 1
    /\ accessMu = Free
    /\ snapshot.mode # "setup"
    /\ db' = Fresh
    /\ accessMu' = Node
    /\ UNCHANGED <<clock, snapshot, mu, Memory, call, last, faults>>

ResetPublishes ==
    /\ accessMu = Node
    /\ snapshot' = Loaded(db)
    /\ accessMu' = Free
    /\ UNCHANGED <<db, mu, Memory, call, last, Bounds>>

(* The process ends at any step and another starts on what is stored.        *)
Restart ==
    /\ events < MaxEvents
    /\ events' = events + 1
    /\ snapshot' = Loaded(db)
    /\ accessMu' = Free
    /\ mu' = Free
    /\ signIn' = [failures |-> 0, next |-> 0]
    /\ recovery' = NoCode
    /\ call' = [c \in Callers |-> Done]
    /\ printed' = NotPrinted
    /\ UNCHANGED <<clock, db, last, faults>>

Tick ==
    /\ clock < MaxTime
    /\ clock' = clock + 1
    /\ UNCHANGED <<db, snapshot, accessMu, mu, Memory, call, last, faults,
                   events>>

(* A person types the password of the panel or another, which is 0.          *)
Request(c) ==
    \/ \E word \in {0, db.password} :
          SignIn(c, word) \/ SwitchToOpen(c, word)
          \/ \E id \in 1 .. last : ChangePassword(c, word, id)
    \/ SwitchToToken(c)
    \/ RegenerateToken(c)
    \/ \E op \in {"completeOpen", "completeToken"} : CompleteSetup(c, op)
    \/ RequestRecovery(c)
    \/ ResetWithRecoveryCode(c)
    \/ ResetWithoutCode(c)
    \/ ResetWithWrongCode(c)
    \/ \E ids \in {{i} : i \in 1 .. last} \cup {1 .. last} : SignOut(c, ids)
    \/ \E d \in Decisions : Decide(c, d)
    \/ \E id \in 1 .. last : ReadSession(c, id)

Step(c) ==
    \/ PasswordMatches(c)
    \/ PasswordRefused(c)
    \/ Write(c)
    \/ Commit(c)
    \/ Publish(c)
    \/ WriteRefused(c)
    \/ WriteFails(c)
    \/ Audit(c)
    \/ CheckSession(c)

Next ==
    \/ \E c \in Callers : Request(c) \/ Step(c)
    \/ ResetCommits
    \/ ResetPublishes
    \/ Restart
    \/ Tick

Spec == Init /\ [][Next]_vars

----------------------------------------------------------------------------
(* A session that was signed out, or ended in any other way, never comes     *)
(* back: recording the activity of a request that read it before finds no    *)
(* row (CheckSession).                                                       *)
EndedStaysEnded ==
    [][\A i \in 1 .. last :
          i \notin DOMAIN db.sessions => i \notin DOMAIN db'.sessions]_vars

(* Every session was opened with the password the panel has now, or asked    *)
(* for its change itself; and unless a commit is about to be published, the  *)
(* snapshot that admits requests is the stored mode and token.  A sign-in    *)
(* with the old password cannot outlive the change it raced.                 *)
OldCredentialsEnd ==
    /\ \A i \in DOMAIN db.sessions : db.sessions[i].by = db.password
    /\ accessMu = Free => snapshot = Loaded(db)

(* A live recovery code can reset only the password it was issued for: a     *)
(* change, a way through open mode and a new database all end it.            *)
CodeOfThePassword ==
    db.mode = "token" /\ Live(recovery)
        /\ (\A c \in Callers : call[c].at # "publish")
    => recovery.of = db.password

(* While token mode stays, a process prints two recovery codes no closer     *)
(* than the interval, whether the first was used, burnt by wrong codes, by a *)
(* password change or by its age, and whether its audit entry was stored.    *)
CodesSpaced ==
    [][printed'.at # printed.at /\ printed.at # Never /\ ~printed.enabled
       => printed'.at = Never
          \/ printed'.at - printed.at >= IssueInterval]_vars

(* docs/configuration.md:101-102, "a new code is issued at most once a       *)
(* minute": the same without the exception for token mode enabled between.   *)
OneCodeAMinute ==
    [][printed'.at # printed.at /\ printed.at # Never
       => printed'.at = Never
          \/ printed'.at - printed.at >= IssueInterval]_vars
=============================================================================
