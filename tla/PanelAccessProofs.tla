-------------------------- MODULE PanelAccessProofs --------------------------
(***************************************************************************)
(* Theorems about PanelAccess, for every set of requests, every interval   *)
(* and every bound.  AccessInv is inductive.  Its heart is the mutex: one  *)
(* request at a time is between its first check and its last write, so the *)
(* password a request was confirmed with is the one it still finds.        *)
(***************************************************************************)
EXTENDS PanelAccess, TLAPS

USE CallersAssumption

Row == [since : Nat, seen : Nat, by : Nat]
Sessions == UNION {[I -> Row] : I \in SUBSET Nat}
Modes == {"setup", "open", "token"}
Stored == [mode : Modes, password : Nat, token : Nat, sessions : Sessions,
           chosen : SUBSET Decisions]
Codes == [held : BOOLEAN, of : Nat, expires : Int, failures : Int, issued : Int]

Writing == {"signIn", "reset", "change"} \cup Publishing
Pending == {"verify", "write", "publish"}
Operations == [op : Writing, at : Pending, word : Nat, id : Nat, now : Nat]
Checks == [op : {"check"}, at : {"found"}, row : Row, id : Nat]
Calls == {Done, Auditing} \cup Operations \cup Checks

AccessTypes ==
    /\ clock \in Nat
    /\ last \in Nat
    /\ db \in Stored
    /\ call \in [Callers -> Calls]
    /\ recovery \in Codes

\* What holds of a database by itself.
Consistent(d) ==
    /\ d \in Stored
    /\ \A i \in DOMAIN d.sessions : d.sessions[i].by = d.password
    /\ d.mode # "token" => DOMAIN d.sessions = {}

(* Only the holder of mu is on its way to a write, and a sign-in on its way  *)
(* was compared with the password the panel still has.                       *)
OneWriter ==
    \A c \in Callers :
        /\ call[c].at \in Pending => mu = c
        /\ call[c].at = "write" /\ call[c].op = "signIn" /\ db.mode = "token"
           => call[c].word = db.password

Enabling(c) ==
    call[c].at = "publish" /\ call[c].op \in {"switchToToken", "completeToken"}

\* A code held in token mode is one of the stored password, but while token
\* mode is being enabled.
CodeCurrent ==
    db.mode = "token" /\ recovery.held /\ (\A c \in Callers : ~Enabling(c))
    => recovery.of = db.password

\* Nobody between commit and publication: the snapshot is what is stored.
Published == accessMu = Free => snapshot = Loaded(db)

\* The inductive invariant of the access service.
AccessInv ==
    AccessTypes /\ Consistent(db) /\ OneWriter /\ CodeCurrent /\ Published

-----------------------------------------------------------------------------
\* The sets of sessions are the functions from numbers to rows.
LEMMA SessionsType ==
    ASSUME NEW f
    PROVE  f \in Sessions <=> DOMAIN f \subseteq Nat /\ f \in [DOMAIN f -> Row]
  BY DEF Sessions

\* Deleting sessions keeps the others as they are (DeleteSession,
\* DeleteSessions).
LEMMA WithoutKeeps ==
    ASSUME NEW d \in Stored, Consistent(d), NEW ids
    PROVE  LET e == [d EXCEPT !.sessions = Without(@, ids)] IN
           /\ Consistent(e)
           /\ DOMAIN e.sessions \subseteq DOMAIN d.sessions
           /\ e.mode = d.mode /\ e.token = d.token /\ e.password = d.password
  <1> DEFINE f == Without(d.sessions, ids)
             e == [d EXCEPT !.sessions = f]
  <1>1. d.sessions \in Sessions
    BY DEF Stored
  <1>2. /\ DOMAIN d.sessions \subseteq Nat
        /\ d.sessions \in [DOMAIN d.sessions -> Row]
    BY <1>1, SessionsType
  <1>3. /\ DOMAIN f = DOMAIN d.sessions \ ids
        /\ \A i \in DOMAIN f : f[i] = d.sessions[i]
    BY DEF Without, Restrict
  <1>4. f \in [DOMAIN f -> Row]
    BY <1>2, <1>3 DEF Without, Restrict
  <1>5. f \in Sessions
    BY <1>2, <1>3, <1>4, SessionsType
  <1> HIDE DEF f
  <1>6. /\ e \in Stored /\ e.sessions = f /\ e.mode = d.mode
        /\ e.token = d.token /\ e.password = d.password
    BY <1>5 DEF Stored
  <1> QED
    BY <1>3, <1>6 DEF Consistent, f

\* Recording activity changes the time of one row that is there (TouchSession).
LEMMA TouchKeeps ==
    ASSUME NEW d \in Stored, Consistent(d), NEW id, NEW row, NEW now \in Nat
    PROVE  LET e == [d EXCEPT !.sessions = TouchSession(@, id, row, now)] IN
           /\ Consistent(e)
           /\ DOMAIN e.sessions = DOMAIN d.sessions
           /\ e.mode = d.mode /\ e.token = d.token /\ e.password = d.password
  <1> DEFINE f == TouchSession(d.sessions, id, row, now)
             e == [d EXCEPT !.sessions = f]
  <1>1. d.sessions \in Sessions
    BY DEF Stored
  <1>2. /\ DOMAIN d.sessions \subseteq Nat
        /\ d.sessions \in [DOMAIN d.sessions -> Row]
    BY <1>1, SessionsType
  <1>3. /\ DOMAIN f = DOMAIN d.sessions
        /\ \A i \in DOMAIN f : f[i] \in Row /\ f[i].by = d.sessions[i].by
        /\ f \in [DOMAIN f -> Row]
    BY <1>2 DEF TouchSession, Row
  <1>4. f \in Sessions
    BY <1>2, <1>3, SessionsType
  <1> HIDE DEF f
  <1>5. /\ e \in Stored /\ e.sessions = f /\ e.mode = d.mode
        /\ e.token = d.token /\ e.password = d.password
    BY <1>4 DEF Stored
  <1> QED
    BY <1>3, <1>5 DEF Consistent, f

\* Storing a session adds one row and, of those that expired, removes any
\* (CreateSession).
LEMMA StoreSessionAdds ==
    ASSUME NEW f \in Sessions, NEW n \in Nat, NEW now \in Nat, NEW w \in Nat
    PROVE  LET g == StoreSession(f, n, now, w) IN
           /\ g \in Sessions
           /\ DOMAIN g \subseteq DOMAIN f \cup {n}
           /\ (\A i \in DOMAIN f : f[i].by = w)
              => \A i \in DOMAIN g : g[i].by = w
  <1> DEFINE g == StoreSession(f, n, now, w)
  <1>1. DOMAIN f \subseteq Nat /\ f \in [DOMAIN f -> Row]
    BY SessionsType
  <1>2. /\ DOMAIN g \subseteq DOMAIN f \cup {n}
        /\ \A i \in DOMAIN g :
              g[i] = IF i = n THEN [since |-> now, seen |-> now, by |-> w] ELSE f[i]
        /\ g = [i \in DOMAIN g |-> g[i]]
    BY DEF StoreSession
  <1>3. \A i \in DOMAIN g : g[i] \in Row
    BY <1>1, <1>2 DEF Row
  <1>4. g \in [DOMAIN g -> Row] /\ DOMAIN g \subseteq Nat
    BY <1>1, <1>2, <1>3
  <1>5. g \in Sessions
    BY <1>4, SessionsType
  <1>6. ASSUME \A i \in DOMAIN f : f[i].by = w, NEW i \in DOMAIN g
        PROVE  g[i].by = w
    BY <1>2, <1>6
  <1> QED
    BY <1>2, <1>5, <1>6

\* A database without sessions, and the one of a new or reset program.
LEMMA NoSessionsType == NoSessions \in Sessions /\ DOMAIN NoSessions = {}
  <1>1. DOMAIN NoSessions = {} /\ NoSessions \in [DOMAIN NoSessions -> Row]
    BY DEF NoSessions
  <1> QED
    BY <1>1, SessionsType

\* A new database is consistent: it is in setup and has no sessions.
LEMMA FreshConsistent ==
    Consistent(Fresh) /\ Fresh.mode = "setup" /\ DOMAIN Fresh.sessions = {}
  BY NoSessionsType DEF Fresh, Consistent, Stored, Modes

-----------------------------------------------------------------------------
\* What a write leaves when the mode is the one it requires: a database that
\* is consistent again, with no session but those it had and a new one.
LEMMA WriteKeeps ==
    ASSUME NEW k \in Operations, NEW n \in Nat, Consistent(db),
           db.mode = Requires(k.op),
           k.op = "signIn" => k.word = db.password
    PROVE  LET e == Written(k, n) IN
           /\ Consistent(e)
           /\ DOMAIN e.sessions \subseteq DOMAIN db.sessions \cup {n}
           /\ k.op \notin Publishing => e.mode = db.mode /\ e.token = db.token
           /\ k.op \in {"signIn", "regenerate"} => e.password = db.password
           /\ k.op \in {"switchToOpen", "completeOpen"} => e.mode # "token"
  <1> DEFINE e == Written(k, n)
  <1>0. /\ db \in Stored /\ db.sessions \in Sessions /\ k.now \in Nat
        /\ k.word \in Nat /\ k.op \in Writing /\ db.mode \in Modes
    BY DEF Consistent, Stored, Operations
  <1> DEFINE added(f, w) == StoreSession(f, n, k.now, w)
  <1>1. CASE k.op = "signIn"
    <2>1. e = [db EXCEPT !.sessions = added(db.sessions, k.word)]
      BY <1>1 DEF Written
    <2>2. /\ added(db.sessions, k.word) \in Sessions
          /\ DOMAIN added(db.sessions, k.word) \subseteq DOMAIN db.sessions \cup {n}
      BY <1>0, StoreSessionAdds
    <2>6. \A i \in DOMAIN db.sessions : db.sessions[i].by = k.word
      BY <1>1 DEF Consistent
    <2>5. \A i \in DOMAIN added(db.sessions, k.word) :
              added(db.sessions, k.word)[i].by = k.word
      BY <2>6 DEF StoreSession
    <2> HIDE DEF added
    <2>3. /\ e \in Stored /\ e.sessions = added(db.sessions, k.word)
          /\ e.mode = db.mode /\ e.token = db.token /\ e.password = db.password
      BY <1>0, <2>1, <2>2 DEF Stored
    <2>4. db.mode = "token"
      BY <1>1 DEF Requires
    <2> QED
      BY <1>1, <2>2, <2>3, <2>4, <2>5 DEF Consistent, Publishing
  <1>2. CASE k.op = "reset"
    <2>1. e = [db EXCEPT !.password = n, !.sessions = added(NoSessions, n)]
      BY <1>2 DEF Written, ResetPassword
    <2>2. /\ added(NoSessions, n) \in Sessions
          /\ DOMAIN added(NoSessions, n) \subseteq {n}
          /\ \A i \in DOMAIN added(NoSessions, n) : added(NoSessions, n)[i].by = n
      BY <1>0, StoreSessionAdds, NoSessionsType
    <2> HIDE DEF added
    <2>3. /\ e \in Stored /\ e.sessions = added(NoSessions, n)
          /\ e.mode = db.mode /\ e.token = db.token /\ e.password = n
      BY <1>0, <2>1, <2>2 DEF Stored
    <2>4. db.mode = "token"
      BY <1>2 DEF Requires
    <2> QED
      BY <1>2, <2>2, <2>3, <2>4 DEF Consistent, Publishing
  <1>3. CASE k.op = "change"
    <2> DEFINE f == [i \in DOMAIN db.sessions \cap {k.id} |->
                        [db.sessions[i] EXCEPT !.by = n]]
    <2>1. e = [db EXCEPT !.password = n, !.sessions = f]
      BY <1>3 DEF Written, ReplacePassword
    <2>2. /\ DOMAIN db.sessions \subseteq Nat
          /\ db.sessions \in [DOMAIN db.sessions -> Row]
      BY <1>0, SessionsType
    <2>3. /\ DOMAIN f \subseteq DOMAIN db.sessions
          /\ \A i \in DOMAIN f : f[i] \in Row /\ f[i].by = n
          /\ f \in [DOMAIN f -> Row]
      BY <2>2 DEF Row
    <2>4. f \in Sessions
      BY <2>2, <2>3, SessionsType
    <2> HIDE DEF f
    <2>5. /\ e \in Stored /\ e.sessions = f
          /\ e.mode = db.mode /\ e.token = db.token /\ e.password = n
      BY <1>0, <2>1, <2>4 DEF Stored
    <2>6. db.mode = "token"
      BY <1>3 DEF Requires
    <2> QED
      BY <1>3, <2>3, <2>5, <2>6 DEF Consistent, Publishing
  <1>4. CASE k.op = "regenerate"
    <2>1. e = [db EXCEPT !.token = n]
      BY <1>4 DEF Written
    <2>2. /\ e \in Stored /\ e.sessions = db.sessions
          /\ e.mode = db.mode /\ e.password = db.password
      BY <1>0, <2>1 DEF Stored
    <2> QED
      BY <1>4, <2>2 DEF Consistent, Publishing
  <1>5. CASE k.op = "switchToOpen"
    <2>1. e = [db EXCEPT !.mode = "open", !.password = 0, !.token = 0,
                         !.sessions = NoSessions]
      BY <1>5 DEF Written, DisableTokenMode
    <2>3. e = [mode |-> "open", password |-> 0, token |-> 0,
               sessions |-> NoSessions, chosen |-> db.chosen]
      BY <1>0, <2>1 DEF Stored
    <2>2. e \in Stored /\ e.sessions = NoSessions /\ e.mode = "open"
      BY <1>0, <2>3, NoSessionsType DEF Stored, Modes
    <2> QED
      BY <1>5, <2>2, NoSessionsType DEF Consistent, Publishing
  <1>6. CASE k.op = "completeOpen"
    <2>1. e = [db EXCEPT !.mode = "open"]
      BY <1>6 DEF Written
    <2>2. /\ e \in Stored /\ e.sessions = db.sessions /\ e.mode = "open"
          /\ e.password = db.password
      BY <1>0, <2>1 DEF Stored, Modes
    <2>3. db.mode = "setup"
      BY <1>6 DEF Requires
    <2> QED
      BY <1>6, <2>2, <2>3 DEF Consistent, Publishing
  <1>7. CASE k.op \in {"switchToToken", "completeToken"}
    <2>1. e = [db EXCEPT !.mode = "token", !.password = n, !.token = n,
                         !.sessions = added(db.sessions, n)]
      BY <1>7 DEF Written, TokenMode
    <2>2. DOMAIN db.sessions = {}
      BY <1>7 DEF Requires, Consistent
    <2>3. /\ added(db.sessions, n) \in Sessions
          /\ DOMAIN added(db.sessions, n) \subseteq {n}
          /\ \A i \in DOMAIN added(db.sessions, n) : added(db.sessions, n)[i].by = n
      BY <1>0, <2>2, StoreSessionAdds
    <2> HIDE DEF added
    <2>4. /\ e \in Stored /\ e.sessions = added(db.sessions, n)
          /\ e.mode = "token" /\ e.password = n
      BY <1>0, <2>1, <2>3 DEF Stored, Modes
    <2> QED
      BY <1>7, <2>3, <2>4 DEF Consistent, Publishing
  <1> QED
    BY <1>0, <1>1, <1>2, <1>3, <1>4, <1>5, <1>6, <1>7 DEF Writing, Publishing

-----------------------------------------------------------------------------
\* A new program satisfies the invariant on every database it may find.
LEMMA InitAccess == Init => AccessInv
  <1> SUFFICES ASSUME Init PROVE AccessInv
    OBVIOUS
  <1>1. Consistent(db)
    <2>1. db = Fresh \/ \E m \in {"open", "token"}, p \in {0, 1} :
            db = [mode |-> m, password |-> p, token |-> p,
                  sessions |-> NoSessions, chosen |-> Decisions]
      BY Zenon DEF Init, Fresh
    <2> QED
      BY <2>1, FreshConsistent, NoSessionsType DEF Consistent, Stored, Modes
  <1>2. db \in Stored
    BY <1>1 DEF Consistent
  <1>3. recovery \in Codes
    BY TimesAssumption DEF Init, NoCode, Never, Codes
  <1>4. AccessTypes
    BY <1>2, <1>3 DEF Init, AccessTypes, Calls
  <1>5. OneWriter
    BY DEF Init, OneWriter, Done, Pending
  <1>6. CodeCurrent /\ Published
    BY DEF Init, CodeCurrent, NoCode, Published
  <1> QED
    BY <1>1, <1>4, <1>5, <1>6 DEF AccessInv

\* A request on its way to a write is an operation of the service.
LEMMA PendingOperation ==
    ASSUME NEW k \in Calls, k.at \in Pending
    PROVE  k \in Operations
  BY DEF Calls, Done, Auditing, Checks, Pending

\* While the mutex is free, or another has it, a request is on no such way.
LEMMA OthersWait ==
    ASSUME AccessInv, NEW c \in Callers, mu # c
    PROVE  call[c].at \notin Pending
  BY DEF AccessInv, OneWriter

\* Moving a request on changes its stage alone.
LEMMA ProceedStage ==
    ASSUME AccessTypes, NEW c \in Callers, call[c].at \in Pending,
           NEW stage \in Pending, Proceed(c, stage)
    PROVE  /\ call' \in [Callers -> Calls]
           /\ call'[c].at = stage /\ call'[c].op = call[c].op
           /\ call'[c].word = call[c].word
           /\ \A b \in Callers \ {c} : call'[b] = call[b]
           /\ mu' = mu
  <1>1. call \in [Callers -> Calls]
    BY DEF AccessTypes
  <1>2. call[c] \in Operations
    BY <1>1, PendingOperation
  <1> DEFINE k == [call[c] EXCEPT !.at = stage]
  <1>3. /\ k \in Operations /\ k.at = stage /\ k.op = call[c].op
        /\ k.word = call[c].word
    BY <1>2 DEF Operations
  <1>4. call' = [call EXCEPT ![c] = k] /\ mu' = mu
    BY DEF Proceed
  <1>5. k \in Calls
    BY <1>3 DEF Calls
  <1> HIDE DEF k
  <1> QED
    BY <1>1, <1>3, <1>4, <1>5

\* A request that ends, or that has only its audit entry left, is on no way to
\* a write, and leaves the others where they are.
LEMMA PutAside ==
    ASSUME AccessTypes, NEW c \in Callers, Leave(c) \/ Made(c)
    PROVE  /\ call' \in [Callers -> Calls]
           /\ call'[c].at \notin Pending
           /\ \A b \in Callers \ {c} : call'[b] = call[b]
           /\ mu' = mu \/ (mu = c /\ mu' = Free)
  BY DEF AccessTypes, Leave, Made, Calls, Done, Auditing, Pending

\* Starting an operation, with the mutex free and nobody on the way.
LEMMA EnterKeeps ==
    ASSUME AccessInv, NEW c \in Callers, NEW op \in Writing,
           NEW stage \in {"verify", "write"}, NEW word \in Nat, NEW id \in Nat,
           stage = "write" => op # "signIn",
           Enter(c, op, stage, word, id),
           UNCHANGED <<db, snapshot, accessMu, recovery, last, clock>>
    PROVE  AccessInv'
  <1>1. mu = Free /\ mu' = c
    BY DEF Enter, CanStart, NeedsMu, Serialised, Writing, Publishing
  <1>2. \A b \in Callers : call[b].at \notin Pending
    BY <1>1, OthersWait
  <1> DEFINE k == [op |-> op, at |-> stage, word |-> word, id |-> id,
                   now |-> IF op \in Dated THEN clock ELSE 0]
  <1>3. k \in Operations /\ k.at = stage /\ k.op = op
    BY DEF Operations, Pending, AccessInv, AccessTypes
  <1>4. call' = [call EXCEPT ![c] = k]
    BY DEF Enter
  <1>5. k \in Calls
    BY <1>3 DEF Calls
  <1> HIDE DEF k
  <1>6. AccessTypes'
    BY <1>4, <1>5 DEF AccessInv, AccessTypes
  <1>7. /\ call'[c].at = stage /\ call'[c].op = op
        /\ \A b \in Callers \ {c} : call'[b] = call[b]
    BY <1>3, <1>4 DEF AccessInv, AccessTypes
  <1>8. OneWriter'
    BY <1>1, <1>2, <1>7 DEF OneWriter, Pending
  <1>9. CodeCurrent'
    BY <1>2, <1>7 DEF AccessInv, CodeCurrent, Enabling, Pending
  <1> QED
    BY <1>6, <1>8, <1>9 DEF AccessInv, Consistent, Published, Loaded

\* A burnt code is not held (burnRecoveryCode).
LEMMA BurntCode ==
    ASSUME NEW code \in Codes
    PROVE  BurnRecoveryCode(code) \in Codes /\ ~BurnRecoveryCode(code).held
  <1>1. NoCode \in Codes /\ ~NoCode.held
    BY TimesAssumption DEF NoCode, Never, Codes
  <1>2. code.issued \in Int
    BY DEF Codes
  <1> QED
    BY <1>1, <1>2 DEF BurnRecoveryCode, Codes

\* A database with the mode, the tokens and the password of the one before.
LEMMA SameCredentials ==
    ASSUME AccessInv, Consistent(db'), db'.mode = db.mode, db'.token = db.token,
           db'.password = db.password,
           UNCHANGED <<clock, snapshot, accessMu, mu, recovery, last>>,
           call' \in [Callers -> Calls],
           \A b \in Callers : call'[b] = call[b] \/ call'[b].at \notin Pending,
           \A b \in Callers : Enabling(b) => call'[b] = call[b]
    PROVE  AccessInv'
  <1>1. AccessTypes'
    BY DEF AccessInv, AccessTypes, Consistent
  <1>2. OneWriter'
    BY DEF AccessInv, OneWriter, Pending
  <1>3. CodeCurrent'
    BY DEF AccessInv, CodeCurrent, Enabling, Pending
  <1>4. Published'
    BY DEF AccessInv, Published, Loaded
  <1> QED
    BY <1>1, <1>2, <1>3, <1>4 DEF AccessInv

\* What a panel request starts, or does at once (SignIn, SwitchToOpen,
\* ChangePassword, RequestRecovery, ResetWithRecoveryCode and the others).
LEMMA RequestKeeps ==
    ASSUME AccessInv, NEW c \in Callers, Request(c) PROVE AccessInv'
  <1>0. /\ db \in Stored /\ db.password \in Nat /\ last \in Nat
        /\ recovery \in Codes /\ call \in [Callers -> Calls] /\ clock \in Nat
    BY DEF AccessInv, AccessTypes, Stored
  <1>1. CASE \E word \in {0, db.password} :
                SignIn(c, word) \/ SwitchToOpen(c, word)
                \/ \E id \in 1 .. last : ChangePassword(c, word, id)
    <2>1. PICK word \in {0, db.password} :
                SignIn(c, word) \/ SwitchToOpen(c, word)
                \/ \E id \in 1 .. last : ChangePassword(c, word, id)
      BY <1>1
    <2>2. word \in Nat
      BY <1>0
    <2>3. CASE SignIn(c, word)
      BY <2>2, <2>3, EnterKeeps DEF SignIn, Writing, Memory, Bounds
    <2>4. CASE SwitchToOpen(c, word)
      BY <2>2, <2>4, EnterKeeps DEF SwitchToOpen, Writing, Publishing, Memory, Bounds
    <2>5. CASE \E id \in 1 .. last : ChangePassword(c, word, id)
      <3>1. PICK id \in 1 .. last : ChangePassword(c, word, id)
        BY <2>5
      <3>2. id \in Nat
        BY <1>0
      <3> QED
        BY <2>2, <3>1, <3>2, EnterKeeps DEF ChangePassword, Writing, Memory, Bounds
    <2> QED
      BY <2>1, <2>3, <2>4, <2>5
  <1>2. CASE SwitchToToken(c)
    BY <1>2, EnterKeeps DEF SwitchToToken, Writing, Publishing, Memory, Bounds
  <1>3. CASE RegenerateToken(c)
    BY <1>3, EnterKeeps DEF RegenerateToken, Writing, Publishing, Memory, Bounds
  <1>4. CASE \E op \in {"completeOpen", "completeToken"} : CompleteSetup(c, op)
    <2>1. PICK op \in {"completeOpen", "completeToken"} : CompleteSetup(c, op)
      BY <1>4
    <2> QED
      BY <2>1, EnterKeeps DEF CompleteSetup, Writing, Publishing, Memory, Bounds
  <1>5. CASE ResetWithRecoveryCode(c)
    BY <1>5, EnterKeeps DEF ResetWithRecoveryCode, Writing, Memory, Bounds
  <1>6. CASE RequestRecovery(c)
    <2>1. mu = Free /\ mu' = c /\ call' = [call EXCEPT ![c] = Auditing]
      BY <1>6 DEF RequestRecovery, CanStart, NeedsMu, Serialised
    <2>2. \A b \in Callers : call[b].at \notin Pending
      BY <2>1, OthersWait
    <2>3. /\ call' \in [Callers -> Calls]
          /\ \A b \in Callers : call'[b].at \notin Pending
      BY <1>0, <2>1, <2>2 DEF Calls, Auditing, Pending
    <2>4. recovery' \in Codes /\ recovery'.of = db.password
      BY <1>0, <1>6, TimesAssumption DEF RequestRecovery, Codes
    <2>5. UNCHANGED <<db, snapshot, accessMu, last, clock>>
      BY <1>6 DEF RequestRecovery, Bounds
    <2>6. AccessTypes' /\ OneWriter'
      BY <2>3, <2>4, <2>5 DEF AccessInv, AccessTypes, OneWriter, Pending
    <2> QED
      BY <2>4, <2>5, <2>6
         DEF AccessInv, CodeCurrent, Consistent, Published, Loaded
  <1>7. CASE ResetWithoutCode(c) \/ ResetWithWrongCode(c)
    <2>1. /\ UNCHANGED <<db, snapshot, accessMu, mu, call, last, clock>>
          /\ \/ recovery' = BurnRecoveryCode(recovery)
             \/ recovery' = [recovery EXCEPT !.failures = @ + 1]
      BY <1>7 DEF ResetWithoutCode, ResetWithWrongCode, Bounds
    <2>2. recovery' \in Codes /\ (recovery'.held => recovery.held)
          /\ (recovery'.held => recovery'.of = recovery.of)
      <3>1. CASE recovery' = BurnRecoveryCode(recovery)
        BY <1>0, <3>1, BurntCode
      <3>2. CASE recovery' = [recovery EXCEPT !.failures = @ + 1]
        BY <1>0, <3>2 DEF Codes
      <3> QED
        BY <2>1, <3>1, <3>2
    <2>3. AccessTypes' /\ OneWriter'
      BY <2>1, <2>2 DEF AccessInv, AccessTypes, OneWriter
    <2>4. CodeCurrent'
      BY <2>1, <2>2 DEF AccessInv, CodeCurrent, Enabling
    <2> QED
      BY <2>1, <2>3, <2>4 DEF AccessInv, Consistent, Published, Loaded
  <1>8. CASE \E ids \in {{i} : i \in 1 .. last} \cup {1 .. last} : SignOut(c, ids)
    <2>1. PICK ids : SignOut(c, ids)
      BY <1>8
    <2>2. /\ db' = [db EXCEPT !.sessions = Without(@, ids)]
          /\ UNCHANGED <<clock, snapshot, accessMu, mu, recovery, call, last>>
      BY <2>1 DEF SignOut, Memory, Bounds
    <2>3. /\ Consistent(db') /\ db'.mode = db.mode /\ db'.token = db.token
          /\ db'.password = db.password
      BY <1>0, <2>2, WithoutKeeps DEF AccessInv
    <2> QED
      BY <1>0, <2>2, <2>3, SameCredentials
  <1>9. CASE \E d \in Decisions : Decide(c, d)
    <2>1. PICK d \in Decisions : Decide(c, d)
      BY <1>9
    <2>2. /\ db' = [db EXCEPT !.chosen = @ \cup {d}]
          /\ UNCHANGED <<clock, snapshot, accessMu, mu, recovery, call, last>>
      BY <2>1 DEF Decide, Memory, Bounds
    <2>3. /\ db' \in Stored /\ db'.mode = db.mode /\ db'.token = db.token
          /\ db'.password = db.password /\ db'.sessions = db.sessions
      BY <1>0, <2>2 DEF Stored
    <2>4. Consistent(db')
      BY <2>3 DEF AccessInv, Consistent
    <2> QED
      BY <1>0, <2>2, <2>3, <2>4, SameCredentials
  <1>10. CASE \E id \in 1 .. last : ReadSession(c, id)
    <2>1. PICK id \in 1 .. last : ReadSession(c, id)
      BY <1>10
    <2>2. DOMAIN db.sessions \subseteq Nat /\ db.sessions \in [DOMAIN db.sessions -> Row]
      BY <1>0, SessionsType DEF Stored
    <2> DEFINE k == [op |-> "check", at |-> "found", row |-> db.sessions[id], id |-> id]
    <2>3. k \in Checks /\ k.at = "found"
      BY <1>0, <2>1, <2>2 DEF ReadSession, Checks
    <2>4. call[c] = Done /\ call' = [call EXCEPT ![c] = k]
      BY <2>1 DEF ReadSession
    <2> HIDE DEF k
    <2>5. /\ call' \in [Callers -> Calls] /\ call'[c].at \notin Pending
          /\ \A b \in Callers \ {c} : call'[b] = call[b]
      BY <1>0, <2>3, <2>4 DEF Calls, Pending
    <2>6. UNCHANGED <<clock, db, snapshot, accessMu, mu, recovery, last>>
      BY <2>1 DEF ReadSession, Memory, Bounds
    <2>7. ~Enabling(c)
      BY <2>4 DEF Enabling, Done
    <2> QED
      BY <2>5, <2>6, <2>7, SameCredentials DEF AccessInv
  <1> QED
    BY <1>1, <1>2, <1>3, <1>4, <1>5, <1>6, <1>7, <1>8, <1>9, <1>10 DEF Request

\* A request that ends where it is without changing anything stored.
LEMMA LeaveKeeps ==
    ASSUME AccessInv, NEW c \in Callers, Leave(c), ~Enabling(c),
           UNCHANGED <<clock, db, snapshot, accessMu, recovery, last>>
    PROVE  AccessInv'
  <1>1. /\ call' \in [Callers -> Calls] /\ call'[c].at \notin Pending
        /\ \A b \in Callers \ {c} : call'[b] = call[b]
        /\ mu' = mu \/ (mu = c /\ mu' = Free)
    BY PutAside DEF AccessInv
  <1>2. AccessTypes'
    BY <1>1 DEF AccessInv, AccessTypes
  <1>3. OneWriter'
    BY <1>1 DEF AccessInv, OneWriter, Pending
  <1>4. CodeCurrent'
    BY <1>1 DEF AccessInv, CodeCurrent, Enabling, Pending
  <1> QED
    BY <1>2, <1>3, <1>4 DEF AccessInv, Consistent, Published, Loaded

\* Comparing the password (SignIn, checkCurrentPassword).
LEMMA PasswordKeeps ==
    ASSUME AccessInv, NEW c \in Callers, PasswordMatches(c) \/ PasswordRefused(c)
    PROVE  AccessInv'
  <1>0. /\ UNCHANGED <<clock, db, snapshot, accessMu, recovery, last>>
        /\ call[c].at = "verify"
    BY DEF PasswordMatches, PasswordRefused, Bounds
  <1>1. CASE PasswordMatches(c)
    <2>1. Proceed(c, "write") /\ call[c].word = db.password
      BY <1>1 DEF PasswordMatches
    <2>2. /\ call' \in [Callers -> Calls] /\ call'[c].at = "write"
          /\ call'[c].op = call[c].op /\ call'[c].word = db.password
          /\ \A b \in Callers \ {c} : call'[b] = call[b]
          /\ mu' = mu
      BY <1>0, <2>1, ProceedStage DEF AccessInv, Pending
    <2>3. AccessTypes'
      BY <1>0, <2>2 DEF AccessInv, AccessTypes
    <2>4. OneWriter'
      BY <1>0, <2>2 DEF AccessInv, OneWriter, Pending
    <2>5. CodeCurrent'
      BY <1>0, <2>2 DEF AccessInv, CodeCurrent, Enabling
    <2> QED
      BY <1>0, <2>3, <2>4, <2>5 DEF AccessInv, Consistent, Published, Loaded
  <1>2. CASE PasswordRefused(c)
    BY <1>0, <1>2, LeaveKeeps DEF PasswordRefused, Enabling
  <1> QED
    BY <1>1, <1>2

\* What a request that writes is, and that no other is on its way.
LEMMA AboutToWrite ==
    ASSUME AccessInv, NEW c \in Callers, call[c].at = "write",
           db.mode = Requires(call[c].op)
    PROVE  /\ call[c] \in Operations /\ last + 1 \in Nat /\ mu = c
           /\ call[c].op = "signIn" => call[c].word = db.password
           /\ \A b \in Callers \ {c} : call[b].at \notin Pending
  <1>1. call[c] \in Operations /\ last + 1 \in Nat
    BY PendingOperation DEF AccessInv, AccessTypes, Pending
  <1>2. mu = c
    BY DEF AccessInv, OneWriter, Pending
  <1>3. \A b \in Callers \ {c} : call[b].at \notin Pending
    BY <1>2, OthersWait
  <1>4. call[c].op = "signIn" => call[c].word = db.password
    BY DEF AccessInv, OneWriter, Requires
  <1> QED
    BY <1>1, <1>2, <1>3, <1>4

\* The writes that leave the mode and the tokens alone (CreateSession,
\* ResetPassword, ReplacePassword).
LEMMA WriteStepKeeps ==
    ASSUME AccessInv, NEW c \in Callers, Write(c) PROVE AccessInv'
  <1>0. /\ call[c].at = "write" /\ call[c].op \notin Publishing
        /\ db.mode = Requires(call[c].op) /\ last' = last + 1
        /\ db' = Written(call[c], last + 1)
        /\ UNCHANGED <<clock, snapshot, accessMu>>
        /\ \/ call[c].op = "signIn" /\ Leave(c) /\ recovery' = recovery
           \/ call[c].op # "signIn" /\ Made(c) /\ recovery' = BurnRecoveryCode(recovery)
    BY DEF Write, Bounds
  <1>1. /\ call[c] \in Operations /\ last + 1 \in Nat /\ Consistent(db)
        /\ call[c].op = "signIn" => call[c].word = db.password
        /\ \A b \in Callers \ {c} : call[b].at \notin Pending
    BY <1>0, AboutToWrite DEF AccessInv
  <1>2. /\ Consistent(db') /\ db'.mode = db.mode /\ db'.token = db.token
        /\ call[c].op = "signIn" => db'.password = db.password
    BY <1>0, <1>1, WriteKeeps
  <1>3. /\ call' \in [Callers -> Calls]
        /\ \A b \in Callers : call'[b].at \notin Pending
    BY <1>0, <1>1, PutAside DEF AccessInv
  <1>4. recovery' \in Codes /\ (call[c].op # "signIn" => ~recovery'.held)
    BY <1>0, BurntCode DEF AccessInv, AccessTypes
  <1>5. AccessTypes'
    BY <1>0, <1>1, <1>2, <1>3, <1>4 DEF AccessInv, AccessTypes, Consistent
  <1>6. OneWriter'
    BY <1>3 DEF OneWriter, Pending
  <1>7. CodeCurrent'
    <2>1. ~Enabling(c) /\ \A b \in Callers \ {c} : ~Enabling(b)
      BY <1>0, <1>1 DEF Enabling, Pending
    <2> QED
      BY <1>0, <1>2, <1>4, <2>1 DEF AccessInv, CodeCurrent
  <1> QED
    BY <1>0, <1>2, <1>5, <1>6, <1>7 DEF AccessInv, Published, Loaded

\* The writes that publish a mode or a token (EnableTokenMode,
\* DisableTokenMode, ReplaceToken, the completion of setup).
LEMMA CommitKeeps ==
    ASSUME AccessInv, NEW c \in Callers, Commit(c) PROVE AccessInv'
  <1>0. /\ call[c].at = "write" /\ call[c].op \in Publishing
        /\ db.mode = Requires(call[c].op)
        /\ db' = Written(call[c], last + 1)
        /\ accessMu' = c /\ Proceed(c, "publish")
        /\ UNCHANGED <<clock, snapshot, recovery>>
        /\ last' = IF Issues(call[c].op) THEN last + 1 ELSE last
    BY DEF Commit, Memory, Bounds
  <1>1. /\ call[c] \in Operations /\ last + 1 \in Nat /\ Consistent(db)
        /\ call[c].op = "signIn" => call[c].word = db.password
        /\ \A b \in Callers \ {c} : call[b].at \notin Pending
        /\ mu = c
    BY <1>0, AboutToWrite DEF AccessInv
  <1>2. /\ Consistent(db')
        /\ call[c].op = "regenerate" => db'.password = db.password
        /\ call[c].op \in {"switchToOpen", "completeOpen"} => db'.mode # "token"
    BY <1>0, <1>1, WriteKeeps
  <1>3. /\ call' \in [Callers -> Calls] /\ call'[c].at = "publish"
        /\ call'[c].op = call[c].op /\ mu' = mu
        /\ \A b \in Callers \ {c} : call'[b] = call[b]
    BY <1>0, ProceedStage DEF AccessInv, Pending
  <1>4. AccessTypes'
    BY <1>0, <1>1, <1>2, <1>3 DEF AccessInv, AccessTypes, Consistent
  <1>5. OneWriter'
    BY <1>1, <1>3 DEF OneWriter, Pending
  <1>6. CodeCurrent'
    <2>1. CASE call[c].op \in {"switchToToken", "completeToken"}
      BY <1>3, <2>1 DEF CodeCurrent, Enabling
    <2>2. CASE call[c].op \in {"switchToOpen", "completeOpen"}
      BY <1>2, <2>2 DEF CodeCurrent
    <2>3. CASE call[c].op = "regenerate"
      <3>1. db.mode = "token" /\ \A b \in Callers : ~Enabling(b)
        BY <1>0, <1>1, <2>3 DEF Requires, Enabling, Pending
      <3> QED
        BY <1>0, <1>2, <2>3, <3>1 DEF AccessInv, CodeCurrent
    <2> QED
      BY <1>0, <2>1, <2>2, <2>3 DEF Publishing
  <1>7. Published'
    BY <1>0 DEF Published
  <1> QED
    BY <1>2, <1>4, <1>5, <1>6, <1>7 DEF AccessInv

\* Publishing the snapshot; token mode, when it is enabled, forgets the code.
LEMMA PublishKeeps ==
    ASSUME AccessInv, NEW c \in Callers, Publish(c) PROVE AccessInv'
  <1>0. /\ call[c].at = "publish" /\ snapshot' = Loaded(db) /\ Made(c)
        /\ UNCHANGED <<clock, db, last>>
        /\ IF call[c].op \in {"switchToToken", "completeToken"}
           THEN recovery' = NoCode ELSE recovery' = recovery
    BY DEF Publish, EnabledTokenMode, Bounds
  <1>1. /\ call' \in [Callers -> Calls] /\ call'[c].at \notin Pending
        /\ \A b \in Callers \ {c} : call'[b] = call[b] /\ call[b].at \notin Pending
    <2>1. mu = c
      BY <1>0 DEF AccessInv, OneWriter, Pending
    <2> QED
      BY <1>0, <2>1, PutAside, OthersWait DEF AccessInv
  <1>2. NoCode \in Codes /\ ~NoCode.held
    BY TimesAssumption DEF NoCode, Never, Codes
  <1>3. AccessTypes' /\ OneWriter'
    BY <1>0, <1>1, <1>2 DEF AccessInv, AccessTypes, OneWriter, Pending
  <1>4. CodeCurrent'
    <2>1. CASE Enabling(c)
      BY <1>0, <1>2, <2>1 DEF CodeCurrent, Enabling
    <2>2. CASE ~Enabling(c)
      BY <1>0, <1>1, <2>2 DEF AccessInv, CodeCurrent, Enabling, Pending
    <2> QED
      BY <2>1, <2>2
  <1> QED
    BY <1>0, <1>3, <1>4 DEF AccessInv, Consistent, Published, Loaded

\* The check of a session, which may end it or record its activity.
LEMMA CheckKeeps ==
    ASSUME AccessInv, NEW c \in Callers, CheckSession(c) PROVE AccessInv'
  <1>0. /\ call[c].at = "found" /\ call' = [call EXCEPT ![c] = Done]
        /\ UNCHANGED <<clock, snapshot, accessMu, mu, recovery, last>>
        /\ clock \in Nat /\ db \in Stored /\ call \in [Callers -> Calls]
        /\ Consistent(db)
    BY DEF CheckSession, Memory, Bounds, AccessInv, AccessTypes
  <1>1. \/ db' = [db EXCEPT !.sessions = Without(@, {call[c].id})]
        \/ db' = [db EXCEPT !.sessions = TouchSession(@, call[c].id, call[c].row, clock)]
        \/ db' = db
    <2>1. [db EXCEPT !.sessions = @] = db
      BY <1>0 DEF Stored
    <2> QED
      BY <2>1 DEF CheckSession
  <1>2. /\ Consistent(db') /\ db'.mode = db.mode /\ db'.token = db.token
        /\ db'.password = db.password
    <2>1. CASE db' = [db EXCEPT !.sessions = Without(@, {call[c].id})]
      BY <1>0, <2>1, WithoutKeeps
    <2>2. CASE db' = [db EXCEPT !.sessions =
                          TouchSession(@, call[c].id, call[c].row, clock)]
      BY <1>0, <2>2, TouchKeeps
    <2> QED
      BY <1>0, <1>1, <2>1, <2>2
  <1>3. /\ call' \in [Callers -> Calls] /\ call'[c].at \notin Pending
        /\ \A b \in Callers \ {c} : call'[b] = call[b]
        /\ ~Enabling(c)
    BY <1>0 DEF Calls, Done, Pending, Enabling
  <1> QED
    BY <1>0, <1>2, <1>3, SameCredentials

\* Every step of a request keeps the invariant.
LEMMA StepKeeps ==
    ASSUME AccessInv, NEW c \in Callers, Step(c) PROVE AccessInv'
  <1>1. CASE WriteRefused(c) \/ WriteFails(c) \/ Audit(c)
    <2>1. /\ call[c].at \in {"write", "audit"} /\ Leave(c)
          /\ UNCHANGED <<clock, db, snapshot, accessMu, recovery, last>>
      BY <1>1 DEF WriteRefused, WriteFails, Audit, Memory, Bounds
    <2> QED
      BY <2>1, LeaveKeeps DEF Enabling
  <1> QED
    BY <1>1, PasswordKeeps, WriteStepKeeps, CommitKeeps, PublishKeeps, CheckKeeps
       DEF Step

-----------------------------------------------------------------------------
\* A reset of the database, past the service, keeps the invariant: the new
\* database has no session and is in setup (Reset).
LEMMA ResetKeeps == AccessInv /\ (ResetCommits \/ ResetPublishes) => AccessInv'
  <1> SUFFICES ASSUME AccessInv, ResetCommits \/ ResetPublishes PROVE AccessInv'
    OBVIOUS
  <1>1. CASE ResetCommits
    <2>1. /\ db' = Fresh /\ accessMu' = Node
          /\ UNCHANGED <<clock, mu, recovery, call, last>>
      BY <1>1 DEF ResetCommits, Memory
    <2>2. Consistent(db') /\ db'.mode = "setup"
      BY <2>1, FreshConsistent
    <2>3. AccessTypes'
      BY <2>1, <2>2 DEF AccessInv, AccessTypes, Consistent
    <2>4. OneWriter' /\ CodeCurrent'
      BY <2>1, <2>2 DEF AccessInv, OneWriter, CodeCurrent
    <2>5. Published'
      BY <2>1 DEF Published, Free, Node
    <2> QED
      BY <2>2, <2>3, <2>4, <2>5 DEF AccessInv
  <1>2. CASE ResetPublishes
    <2>1. /\ snapshot' = Loaded(db)
          /\ UNCHANGED <<clock, db, mu, recovery, call, last>>
      BY <1>2 DEF ResetPublishes, Memory, Bounds
    <2>2. AccessTypes' /\ OneWriter' /\ CodeCurrent' /\ Published'
      BY <2>1 DEF AccessInv, AccessTypes, OneWriter, CodeCurrent, Enabling,
                  Published, Loaded
    <2> QED
      BY <2>1, <2>2 DEF AccessInv, Consistent
  <1> QED
    BY <1>1, <1>2

\* So does the end of the process at any step and the start of another.
LEMMA RestartKeeps == AccessInv /\ Restart => AccessInv'
  <1> SUFFICES ASSUME AccessInv, Restart PROVE AccessInv'
    OBVIOUS
  <1>1. /\ snapshot' = Loaded(db) /\ recovery' = NoCode
        /\ call' = [c \in Callers |-> Done]
        /\ UNCHANGED <<clock, db, last>>
    BY DEF Restart
  <1>2. NoCode \in Codes /\ ~NoCode.held
    BY TimesAssumption DEF NoCode, Never, Codes
  <1>3. AccessTypes' /\ OneWriter'
    BY <1>1, <1>2
       DEF AccessInv, AccessTypes, OneWriter, Calls, Done, Pending
  <1>4. CodeCurrent' /\ Published'
    BY <1>1, <1>2 DEF CodeCurrent, Published, Loaded
  <1> QED
    BY <1>1, <1>3, <1>4 DEF AccessInv, Consistent

\* Time passing, and a step of another system.
LEMMA TickKeeps == AccessInv /\ (Tick \/ UNCHANGED vars) => AccessInv'
  <1> SUFFICES ASSUME AccessInv, Tick \/ UNCHANGED vars PROVE AccessInv'
    OBVIOUS
  <1>1. /\ clock' \in Nat
        /\ UNCHANGED <<db, snapshot, accessMu, mu, recovery, call, last>>
    BY DEF Tick, Memory, vars, AccessInv, AccessTypes
  <1> QED
    BY <1>1 DEF AccessInv, AccessTypes, Consistent, OneWriter, CodeCurrent,
                Enabling, Published, Loaded

\* One writer at a time, a consistent database, a code of its password and a
\* published snapshot, in every reachable state.
THEOREM AccessInvHolds == Spec => []AccessInv
  <1>1. AccessInv /\ [Next]_vars => AccessInv'
    BY RequestKeeps, StepKeeps, ResetKeeps, RestartKeeps, TickKeeps DEF Next
  <1> QED
    BY InitAccess, <1>1, PTL DEF Spec

\* What AccessInv says of sessions and recovery codes.
LEMMA AccessInvImplies ==
    AccessInv => OldCredentialsEnd /\ CodeOfThePassword
  <1> SUFFICES ASSUME AccessInv PROVE OldCredentialsEnd /\ CodeOfThePassword
    OBVIOUS
  <1>1. OldCredentialsEnd
    BY DEF AccessInv, Consistent, Published, OldCredentialsEnd
  <1>2. CodeOfThePassword
    BY DEF AccessInv, CodeCurrent, Enabling, CodeOfThePassword, Live
  <1> QED
    BY <1>1, <1>2

\* No session outlives the password it was opened with, and the snapshot that
\* admits requests is the stored one (service.go, with access.go of the store).
THEOREM CredentialsEnd == Spec => []OldCredentialsEnd
  BY AccessInvHolds, AccessInvImplies, PTL

\* A live recovery code is one of the password the panel has.
THEOREM CodeBelongs == Spec => []CodeOfThePassword
  BY AccessInvHolds, AccessInvImplies, PTL

-----------------------------------------------------------------------------
\* No step brings a session but a new one: every write numbers its session
\* past all before it, and recording activity finds no row to write
\* (touchSession after a sign-out).
LEMMA OnlyNewSessions ==
    ASSUME AccessInv, Next
    PROVE  DOMAIN db'.sessions \subseteq DOMAIN db.sessions \cup {last + 1}
  <1>0. db \in Stored /\ Consistent(db) /\ clock \in Nat
    BY DEF AccessInv, AccessTypes
  <1>1. CASE \E c \in Callers : Request(c)
    <2>1. PICK c \in Callers : Request(c)
      BY <1>1
    <2>2. CASE \E ids \in {{i} : i \in 1 .. last} \cup {1 .. last} : SignOut(c, ids)
      <3>1. PICK ids : SignOut(c, ids)
        BY <2>2
      <3>2. db' = [db EXCEPT !.sessions = Without(@, ids)]
        BY <3>1 DEF SignOut
      <3> QED
        BY <1>0, <3>2, WithoutKeeps
    <2>3. CASE \E d \in Decisions : Decide(c, d)
      BY <1>0, <2>3 DEF Decide, Stored
    <2>4. CASE db' = db
      BY <2>4
    <2> QED
      BY <2>1, <2>2, <2>3, <2>4
         DEF Request, SignIn, SwitchToOpen, ChangePassword, SwitchToToken,
             RegenerateToken, CompleteSetup, RequestRecovery,
             ResetWithRecoveryCode, ResetWithoutCode, ResetWithWrongCode,
             ReadSession
  <1>2. CASE \E c \in Callers : Step(c)
    <2>1. PICK c \in Callers : Step(c)
      BY <1>2
    <2>2. CASE Write(c) \/ Commit(c)
      <3>1. /\ call[c].at = "write" /\ db.mode = Requires(call[c].op)
            /\ db' = Written(call[c], last + 1)
        BY <2>2 DEF Write, Commit
      <3> QED
        BY <1>0, <3>1, AboutToWrite, WriteKeeps
    <2>3. CASE CheckSession(c)
      <3>1. \/ db' = [db EXCEPT !.sessions = Without(@, {call[c].id})]
            \/ db' = [db EXCEPT !.sessions =
                          TouchSession(@, call[c].id, call[c].row, clock)]
            \/ db' = db
        <4>1. [db EXCEPT !.sessions = @] = db
          BY <1>0 DEF Stored
        <4> QED
          BY <2>3, <4>1 DEF CheckSession
      <3>2. CASE db' = [db EXCEPT !.sessions = Without(@, {call[c].id})]
        BY <1>0, <3>2, WithoutKeeps
      <3>3. CASE db' = [db EXCEPT !.sessions =
                            TouchSession(@, call[c].id, call[c].row, clock)]
        BY <1>0, <3>3, TouchKeeps
      <3> QED
        BY <3>1, <3>2, <3>3
    <2>4. CASE db' = db
      BY <2>4
    <2> QED
      BY <2>1, <2>2, <2>3, <2>4
         DEF Step, PasswordMatches, PasswordRefused, Publish, WriteRefused,
             WriteFails, Audit
  <1>3. CASE ResetCommits
    BY <1>3, FreshConsistent DEF ResetCommits
  <1>4. CASE ResetPublishes \/ Restart \/ Tick
    BY <1>4 DEF ResetPublishes, Restart, Tick
  <1> QED
    BY <1>1, <1>2, <1>3, <1>4 DEF Next

\* A session that ended never comes back, whatever was reading it when it did.
THEOREM SessionsStayEnded == Spec => EndedStaysEnded
  <1>1. AccessInv /\ [Next]_vars
        => [\A i \in 1 .. last :
               i \notin DOMAIN db.sessions => i \notin DOMAIN db'.sessions]_vars
    <2> SUFFICES ASSUME AccessInv, Next, NEW i \in 1 .. last,
                        i \notin DOMAIN db.sessions
                 PROVE  i \notin DOMAIN db'.sessions
      OBVIOUS
    <2>1. last \in Nat
      BY DEF AccessInv, AccessTypes
    <2> QED
      BY <2>1, OnlyNewSessions
  <1> QED
    BY <1>1, AccessInvHolds, PTL DEF Spec, EndedStaysEnded

-----------------------------------------------------------------------------
(* The time a code was printed is the time the service remembers, while token *)
(* mode is not enabled anew.                                                  *)
PrintRemembered ==
    /\ printed \in [at : Int, enabled : BOOLEAN]
    /\ printed.at # Never /\ ~printed.enabled => recovery.issued = printed.at

\* What a step may do to the code printed last: leave it, forget it with the
\* process, start token mode without it, or print another after the interval.
LEMMA PrintSteps ==
    ASSUME AccessInv, PrintRemembered, [Next]_vars
    PROVE  \/ printed' = printed /\ recovery'.issued = recovery.issued
           \/ printed' = NotPrinted
           \/ printed' = [at |-> printed.at, enabled |-> TRUE]
           \/ /\ clock >= recovery.issued + IssueInterval
              /\ printed' = [at |-> clock, enabled |-> FALSE]
              /\ recovery'.issued = clock
  <1>0. recovery \in Codes
    BY DEF AccessInv, AccessTypes
  <1>1. ASSUME NEW c \in Callers, Request(c)
        PROVE  \/ printed' = printed /\ recovery'.issued = recovery.issued
               \/ /\ clock >= recovery.issued + IssueInterval
                  /\ printed' = [at |-> clock, enabled |-> FALSE]
                  /\ recovery'.issued = clock
    BY <1>0, <1>1
       DEF Request, SignIn, SwitchToOpen, ChangePassword, SwitchToToken,
           RegenerateToken, CompleteSetup, RequestRecovery,
           ResetWithRecoveryCode, ResetWithoutCode, ResetWithWrongCode, SignOut,
           Decide, ReadSession, Memory, BurnRecoveryCode, NoCode, Codes
  <1>2. ASSUME NEW c \in Callers, Step(c), ~Publish(c)
        PROVE  printed' = printed /\ recovery'.issued = recovery.issued
    BY <1>0, <1>2
       DEF Step, PasswordMatches, PasswordRefused, Write, Commit, WriteRefused,
           WriteFails, Audit, CheckSession, Memory, BurnRecoveryCode, NoCode
  <1>3. ASSUME NEW c \in Callers, Publish(c)
        PROVE  \/ printed' = printed /\ recovery'.issued = recovery.issued
               \/ printed' = [at |-> printed.at, enabled |-> TRUE]
    BY <1>3 DEF Publish, PrintRemembered
  <1>4. CASE ResetCommits \/ ResetPublishes \/ Tick \/ UNCHANGED vars
    BY <1>4 DEF ResetCommits, ResetPublishes, Tick, vars, Memory
  <1>5. CASE Restart
    BY <1>5 DEF Restart
  <1> QED
    BY <1>1, <1>2, <1>3, <1>4, <1>5 DEF Next

\* A process remembers when it printed its last code, however the code ended.
THEOREM PrintsRemembered == Spec => []PrintRemembered
  <1>0. Never \in Int
    BY TimesAssumption DEF Never
  <1>1. Init => PrintRemembered
    BY <1>0 DEF Init, PrintRemembered, NotPrinted
  <1>2. AccessInv /\ PrintRemembered /\ [Next]_vars => PrintRemembered'
    <2> SUFFICES ASSUME AccessInv, PrintRemembered, [Next]_vars
                 PROVE  PrintRemembered'
      OBVIOUS
    <2>1. clock \in Int
      BY DEF AccessInv, AccessTypes
    <2>2. CASE printed' = printed /\ recovery'.issued = recovery.issued
      BY <2>2 DEF PrintRemembered
    <2>3. CASE printed' = NotPrinted
      BY <1>0, <2>3 DEF PrintRemembered, NotPrinted
    <2>4. CASE printed' = [at |-> printed.at, enabled |-> TRUE]
      BY <2>4 DEF PrintRemembered
    <2>5. CASE /\ printed' = [at |-> clock, enabled |-> FALSE]
               /\ recovery'.issued = clock
      BY <2>1, <2>5 DEF PrintRemembered
    <2> QED
      BY <2>2, <2>3, <2>4, <2>5, PrintSteps
  <1> QED
    BY <1>1, <1>2, AccessInvHolds, PTL DEF Spec

\* While token mode stays, a process prints two codes no closer than the
\* interval, whatever ended the first (recovery.go, requestRecovery).
THEOREM CodesKeepApart == Spec => CodesSpaced
  <1>1. AccessInv /\ PrintRemembered /\ [Next]_vars
        => [printed'.at # printed.at /\ printed.at # Never /\ ~printed.enabled
            => printed'.at = Never
               \/ printed'.at - printed.at >= IssueInterval]_vars
    <2> SUFFICES ASSUME AccessInv, PrintRemembered, Next,
                        printed'.at # printed.at, printed.at # Never,
                        ~printed.enabled, printed'.at # Never
                 PROVE  printed'.at - printed.at >= IssueInterval
      OBVIOUS
    <2>1. /\ clock >= recovery.issued + IssueInterval
          /\ printed'.at = clock
      BY PrintSteps DEF NotPrinted
    <2>2. clock \in Nat /\ recovery.issued \in Int /\ IssueInterval \in Nat
      BY TimesAssumption DEF AccessInv, AccessTypes, Codes
    <2> QED
      BY <2>1, <2>2 DEF PrintRemembered
  <1> QED
    BY <1>1, AccessInvHolds, PrintsRemembered, PTL DEF Spec, CodesSpaced

=============================================================================
