-------------------------- MODULE ManualMarksProofs --------------------------
(***************************************************************************)
(* Proofs about ManualMarks, for any number of pairs, marks and runs.      *)
(***************************************************************************)
EXTENDS ManualMarks, TLAPS

-----------------------------------------------------------------------------
(* Where the goroutines are, and what they hold                              *)

ClearStates == [token : Nat, direct : BOOLEAN, inverse : BOOLEAN]

Managers ==
    [started : BOOLEAN, run : 0 .. MaxRuns, revision : Nat, open : BOOLEAN,
     applied : [Pairs -> {"off", "byo", "feed"}],
     mark : [Pairs -> {"none", "blank"} \cup Marks],
     token : [Pairs -> Nat], last : [Pairs -> Nat], held : [Pairs -> Nat],
     clears : [Pairs -> ClearStates],
     synthetic : SUBSET Pairs, plan : SUBSET Pairs,
     live : SUBSET Pairs, liveInverse : SUBSET Pairs,
     latest : SUBSET ({"byo", "feed"} \X Pairs)]

Quotes == [mark : {"none", "feed"} \cup Marks, of : Pairs \cup {"none"},
           run : 0 .. MaxRuns]
Reads == [run : 0 .. MaxRuns, revision : Nat, rows : [Pairs -> Rows]]

Workers == Roles \X Runs

InSink == {"sink", "acknowledge", "clear", "cleared"}
Publishing == {"clears", "retry", "clear", "cleared", "publish", "push", "await"}
Survivors == InSink \cup {"off", "await"}

StepsOf(role) ==
    CASE role = "caller" -> {"idle", "pushManual", "push", "await", "stop", "stopped"}
      [] role = "drain" -> InSink \cup {"off", "recv", "got"}
      [] role = "feed" -> {"off", "recv", "got", "sink"}
      [] role = "startup" ->
             {"off", "startup", "clears", "clear", "cleared", "publish", "await"}
      [] role = "refresh" ->
             {"off", "tick", "retry", "clear", "cleared", "readRows", "plan",
              "publish", "await"}

Steps == InSink \cup Publishing \cup
         {"off", "idle", "pushManual", "stop", "stopped", "recv", "got",
          "startup", "tick", "readRows", "plan"}

Data ==
    /\ config \in [Pairs -> Rows]
    /\ mgr \in Managers
    /\ cancelled \subseteq Runs
    /\ queue \in [Runs -> {<<>>} \cup {<<u>> : u \in Updates}]
    /\ seen \in [Runs -> Reads]
    /\ answer \in {"none", "done", "failed"}
    /\ engine \in [Pairs -> Quotes]
    /\ shown \in [Pairs -> Nat]
    /\ told \in Pairs \cup {"none"}
    /\ retired \subseteq Pairs
    /\ adopted \subseteq Pairs

Control ==
    /\ publisher \in Procs \cup {Free}
    /\ sinkGate \in Procs \cup {Free}
    /\ pc \in [Procs -> Steps]
    /\ hand \in [Procs -> Updates]
    /\ todo \in [Procs -> SUBSET Updates]

\* An update of the manual source, and what a goroutine may hold.
Manual(u, r) ==
    /\ u.pair \in Pairs /\ u.run = r /\ u.mark \in {"blank"} \cup Marks
    /\ IsClear(u) => u.token >= 1
Offered(w, u) == IF w[1] = "feed"
                 THEN u.pair \in Pairs /\ u.run = w[2] /\ u.mark = "feed"
                 ELSE Manual(u, w[2])

Fits(w, step, u, updates) ==
    /\ step \in StepsOf(w[1])
    /\ IF step \in InSink \cup {"got", "await"} THEN Offered(w, u) ELSE u = NoUpdate
    /\ step \in {"clear", "cleared", "await"} => IsClear(u)
    /\ step \in {"sink", "acknowledge"} => ~IsClear(u)
    /\ \A v \in updates : Manual(v, w[2])

CallerFits(step, u) ==
    /\ step \in StepsOf("caller")
    /\ step = "pushManual" => u.pair \in Pairs /\ u.mark \in {"blank"} \cup Marks
    /\ step \in {"push", "await"} => mgr.started /\ Manual(u, mgr.run)
    /\ step = "await" => IsClear(u)

Hands ==
    /\ \A r \in Runs : queue[r] # <<>> => Manual(queue[r][1], r)
    /\ \A w \in Workers : Fits(w, pc[w], hand[w], todo[w])
    /\ CallerFits(pc[caller], hand[caller])
    /\ todo[caller] = {}

\* Runs come one after the other, and only a call into the engine or a wait
\* for an answer outlasts its run.
RunsInTurn ==
    /\ \A r \in Runs : r < mgr.run => r \in cancelled
    /\ \A r \in cancelled : r <= mgr.run
    /\ mgr.started => mgr.run \in Runs \ cancelled
    /\ ~mgr.started /\ mgr.run \in Runs \ cancelled => pc[caller] = "stop"
    /\ pc[caller] = "stop" => ~mgr.started /\ mgr.run \in Runs \ cancelled
    /\ pc[caller] = "stopped" => ~mgr.started
    /\ \A w \in Workers :
           /\ w[2] > mgr.run => pc[w] = "off"
           /\ w[2] \in cancelled => pc[w] \in Survivors
           /\ pc[w] \in InSink => w[2] = mgr.run
    /\ \A r \in Runs : seen[r].run \in {0, r}

Gates ==
    /\ \A w \in Procs : sinkGate = w <=> pc[w] \in InSink
    /\ \A w \in Procs :
           publisher = w <=> pc[w] \in Publishing /\ w[1] # "drain"

Structure == Data /\ Control /\ Hands /\ RunsInTurn /\ Gates

-----------------------------------------------------------------------------
LEMMA ProcsAre ==
    /\ caller \in Procs /\ caller \notin Workers /\ Free \notin Procs
    /\ caller[1] = "caller" /\ caller[2] = 0 /\ Free[2] = 0
    /\ Workers \subseteq Procs
    /\ \A w \in Procs : w = caller \/ w \in Workers
    /\ \A w \in Workers : w[1] \in Roles /\ w[2] \in Runs /\ w = <<w[1], w[2]>>
    /\ \A w \in Procs : w[2] \in 0 .. MaxRuns
    /\ Runs \subseteq 0 .. MaxRuns /\ 0 \notin Runs
    /\ MaxRuns \in Nat
  BY PairsAssumption DEF Procs, Workers, caller, Free, Roles, Runs

LEMMA UpdatesAre ==
    /\ NoUpdate \in Updates
    /\ \A p \in Pairs, s \in ClearStates, r \in 0 .. MaxRuns :
           /\ Clear(p, s, r) \in Updates /\ IsClear(Clear(p, s, r))
           /\ Clear(p, s, r).pair = p /\ Clear(p, s, r).run = r
           /\ Clear(p, s, r).token = s.token
           /\ s.token >= 1 => Manual(Clear(p, s, r), r)
    /\ \A p \in Pairs, row \in {"feed", "blank"} \cup Marks, t \in Nat, r \in 0 .. MaxRuns :
           /\ Quote(p, row, t, r) \in Updates
           /\ Quote(p, row, t, r).pair = p /\ Quote(p, row, t, r).run = r
           /\ Quote(p, row, t, r).mark = row
           /\ row \in Marks => Manual(Quote(p, row, t, r), r)
           /\ row \in Marks => ~IsClear(Quote(p, row, t, r))
  BY PairsAssumption DEF Updates, NoUpdate, Clear, Quote, Manual, IsClear, ClearStates, Tokens

-----------------------------------------------------------------------------
(* What the manager's operations keep: its types, the run and the rows, and   *)
(* the tokens that were given out.                                           *)

Grows(s, r) ==
    /\ r \in Managers
    /\ r.started = s.started /\ r.run = s.run
    /\ r.applied = s.applied /\ r.plan = s.plan
    /\ \A p \in Pairs : r.last[p] >= s.last[p]

LEMMA GrowsTwice ==
    ASSUME NEW s, NEW r, NEW q, s \in Managers, Grows(s, r), Grows(r, q)
    PROVE  Grows(s, q)
  BY DEF Grows, Managers

LEMMA KeepsTokens ==
    ASSUME NEW s \in Managers, NEW r \in Managers,
           r.started = s.started, r.run = s.run, r.applied = s.applied,
           r.plan = s.plan, r.last = s.last
    PROVE  Grows(s, r)
<1>1. \A p \in Pairs : s.last[p] \in Nat
  BY DEF Managers
<1> QED  BY <1>1 DEF Grows

LEMMA ResolveGrows ==
    ASSUME NEW s \in Managers, NEW p \in Pairs, NEW t \in Nat
    PROVE  LET r == Resolve(s, p, t) IN
           /\ Grows(s, r)
           /\ r.mark = s.mark /\ r.token = s.token /\ r.last = s.last
           /\ r.clears = s.clears /\ r.synthetic = s.synthetic
           /\ r.live = s.live /\ r.liveInverse = s.liveInverse
           /\ r.latest = s.latest /\ r.revision = s.revision
           /\ \A q \in Pairs \ {p} : r.held[q] = s.held[q]
           /\ r.held[p] = IF s.open \/ t = 0 \/ s.held[p] # t THEN s.held[p] ELSE 0
           /\ s.open => r.open
           /\ r.open => s.open \/ \A q \in Pairs : r.held[q] = 0
<1> DEFINE h == [s.held EXCEPT ![p] = 0]
           b == \A q \in Pairs : h[q] = 0
           r == Resolve(s, p, t)
<1>2. /\ h \in [Pairs -> Nat] /\ h[p] = 0 /\ \A q \in Pairs \ {p} : h[q] = s.held[q]
      /\ b \in BOOLEAN /\ s.held \in [Pairs -> Nat]
  BY DEF Managers
<1>3. CASE s.open \/ t = 0 \/ s.held[p] # t
  <2>1. Resolve(s, p, t) = s
    BY <1>3 DEF Resolve
  <2>2. Grows(s, s)
    BY KeepsTokens
  <2> QED  BY <1>3, <2>1, <2>2
<1>4. CASE ~(s.open \/ t = 0 \/ s.held[p] # t)
  <2>1. r = [s EXCEPT !.held = h, !.open = b]
    BY <1>4 DEF Resolve
  <2> HIDE DEF r, h
  <2>2. /\ r \in Managers
        /\ r.started = s.started /\ r.run = s.run /\ r.applied = s.applied
        /\ r.plan = s.plan
        /\ r.mark = s.mark /\ r.token = s.token /\ r.last = s.last
        /\ r.clears = s.clears /\ r.synthetic = s.synthetic
        /\ r.live = s.live /\ r.liveInverse = s.liveInverse
        /\ r.latest = s.latest /\ r.revision = s.revision
        /\ r.held = h /\ r.open = b
    <3> HIDE DEF b
    <3> QED  BY <1>2, <2>1 DEF Managers
  <2>3. Grows(s, r)
    BY <2>2, KeepsTokens
  <2>4. /\ \A q \in Pairs \ {p} : r.held[q] = s.held[q]
        /\ r.held[p] = 0
        /\ r.open => \A q \in Pairs : r.held[q] = 0
    BY <1>2, <2>2
  <2> QED  BY <1>4, <2>2, <2>3, <2>4 DEF r
<1> QED  BY <1>3, <1>4

LEMMA SetClearGrows ==
    ASSUME NEW s \in Managers, NEW p \in Pairs, NEW c \in ClearStates
    PROVE  LET r == SetClear(s, p, c) IN
           /\ Grows(s, r)
           /\ r.mark = s.mark /\ r.token = s.token /\ r.last = s.last
           /\ r.clears = [s.clears EXCEPT ![p] = c] /\ r.synthetic = s.synthetic
           /\ r.live = s.live /\ r.liveInverse = s.liveInverse
           /\ r.latest = s.latest /\ r.revision = s.revision /\ r.open = s.open
           /\ \A q \in Pairs \ {p} : r.held[q] = s.held[q]
           /\ r.held[p] = IF s.clears[p] # NoClear /\ s.held[p] = s.clears[p].token
                          THEN c.token ELSE s.held[p]
<1> DEFINE k == IF s.clears[p] # NoClear /\ s.held[p] = s.clears[p].token
                THEN c.token ELSE s.held[p]
           h == [s.held EXCEPT ![p] = k]
           d == [s.clears EXCEPT ![p] = c]
           m == [s EXCEPT !.held = h]
           r == SetClear(s, p, c)
<1>2. k \in Nat /\ s.held \in [Pairs -> Nat] /\ s.clears \in [Pairs -> ClearStates]
  BY DEF Managers, ClearStates
<1>3. r = [m EXCEPT !.clears = [m.clears EXCEPT ![p] = c]]
  BY Zenon DEF SetClear
<1> HIDE DEF k, r
<1>4. /\ h \in [Pairs -> Nat] /\ h[p] = k /\ \A q \in Pairs \ {p} : h[q] = s.held[q]
      /\ d \in [Pairs -> ClearStates]
  BY <1>2
<1> HIDE DEF h
<1>a. m.clears = s.clears
  BY DEF Managers
<1>b. r = [s EXCEPT !.held = h, !.clears = d]
  BY <1>3, <1>a, Zenon
<1> HIDE DEF d, m
<1>5. /\ r \in Managers
      /\ r.started = s.started /\ r.run = s.run /\ r.applied = s.applied
      /\ r.plan = s.plan
      /\ r.mark = s.mark /\ r.token = s.token /\ r.last = s.last
      /\ r.clears = d /\ r.synthetic = s.synthetic
      /\ r.live = s.live /\ r.liveInverse = s.liveInverse
      /\ r.latest = s.latest /\ r.revision = s.revision /\ r.open = s.open
      /\ r.held = h
  BY <1>4, <1>b DEF Managers
<1>6. Grows(s, r)
  BY <1>5, KeepsTokens
<1> QED  BY <1>4, <1>5, <1>6 DEF r, d, k

LEMMA NewTokenGrows ==
    ASSUME NEW s \in Managers, NEW p \in Pairs
    PROVE  LET r == NewToken(s, p) IN
           /\ Grows(s, r)
           /\ r.mark = s.mark /\ r.held = s.held /\ r.open = s.open
           /\ r.clears = s.clears /\ r.synthetic = s.synthetic
           /\ r.live = s.live /\ r.liveInverse = s.liveInverse
           /\ r.latest = s.latest /\ r.revision = s.revision
           /\ r.last = [s.last EXCEPT ![p] = s.last[p] + 1]
           /\ r.token = [s.token EXCEPT ![p] = s.last[p] + 1]
<1> DEFINE l == [s.last EXCEPT ![p] = s.last[p] + 1]
           k == [s.token EXCEPT ![p] = s.last[p] + 1]
           m == [s EXCEPT !.last = l]
           r == NewToken(s, p)
<1>2. /\ l \in [Pairs -> Nat] /\ k \in [Pairs -> Nat]
      /\ \A q \in Pairs : l[q] >= s.last[q]
  BY DEF Managers
<1>3. r = [m EXCEPT !.token = [m.token EXCEPT ![p] = s.last[p] + 1]]
  BY Zenon DEF NewToken
<1> HIDE DEF l, r
<1>a. m.token = s.token
  BY DEF Managers
<1>b. r = [s EXCEPT !.last = l, !.token = k]
  BY <1>3, <1>a, Zenon
<1> HIDE DEF k, m
<1>4. /\ r \in Managers
      /\ r.started = s.started /\ r.run = s.run /\ r.applied = s.applied
      /\ r.plan = s.plan
      /\ r.mark = s.mark /\ r.held = s.held /\ r.open = s.open
      /\ r.clears = s.clears /\ r.synthetic = s.synthetic
      /\ r.live = s.live /\ r.liveInverse = s.liveInverse
      /\ r.latest = s.latest /\ r.revision = s.revision
      /\ r.last = l /\ r.token = k
  BY <1>2, <1>b DEF Managers
<1>5. Grows(s, r)
  BY <1>2, <1>4 DEF Grows
<1> QED  BY <1>4, <1>5 DEF r, l, k

-----------------------------------------------------------------------------
(* What is kept for one pair                                                 *)

SameRow(s, r, p) ==
    /\ r.mark[p] = s.mark[p] /\ r.token[p] = s.token[p] /\ r.last[p] = s.last[p]
    /\ r.clears[p] = s.clears[p] /\ r.held[p] = s.held[p]
    /\ p \in r.synthetic <=> p \in s.synthetic
    /\ p \in r.live <=> p \in s.live
    /\ p \in r.liveInverse <=> p \in s.liveInverse

\* Only p changes, and the barrier when nothing is held any more.
Touches(s, r, p) ==
    /\ Grows(s, r)
    /\ r.revision = s.revision
    /\ \A q \in Pairs \ {p} : SameRow(s, r, q)
    /\ \A q \in Pairs : s.held[q] = 0 => r.held[q] = 0
    /\ \A q \in Pairs : <<"feed", q>> \in r.latest <=> <<"feed", q>> \in s.latest
    /\ s.open => r.open
    /\ r.open => s.open \/ \A q \in Pairs : r.held[q] = 0

\* Tokens of a mark and of a clear are the last given out; only a clear that is
\* pending is held, and not behind an open barrier.
RowTokens(s, p) ==
    LET c == s.clears[p] IN
    /\ s.token[p] <= s.last[p]
    /\ s.mark[p] \in Marks => s.token[p] = s.last[p] /\ s.token[p] >= 1
    /\ c # NoClear => c.token >= 1 /\ (c.direct \/ c.inverse)
    /\ c.token <= s.last[p]
    /\ c.direct => c.token = s.last[p] /\ s.mark[p] \notin Marks
    /\ s.held[p] # 0 => s.held[p] = c.token
    /\ s.open => s.held[p] = 0

\* What a run keeps for its pair.
RowSound(s, p) ==
    LET c == s.clears[p] IN
    /\ RowTokens(s, p)
    /\ s.mark[p] # "none" => s.applied[p] = "byo"
    /\ p \in s.synthetic => p \in s.plan
    /\ p \in s.liveInverse => p \in s.live
    /\ c # NoClear /\ ~c.direct => p \notin s.synthetic /\ s.mark[p] # "none"
    /\ c.direct /\ p \in s.liveInverse => c.inverse
    /\ s.started =>
           /\ c.inverse /\ p \notin s.plan => s.held[p] # 0
           /\ p \in s.liveInverse /\ p \notin s.plan => s.held[p] # 0 /\ c.inverse
           /\ s.mark[p] = "none" /\ c # NoClear => s.held[p] # 0
           /\ p \in s.plan => s.applied[Opposite[p]] = "off"

\* What it tracks of its marks, as long as the engine knows the assets.
RowTracked(s, p) ==
    /\ s.mark[p] \in Marks => p \in s.live /\ (p \in s.plan => p \in s.liveInverse)
    /\ s.applied[p] = "byo" /\ p \in s.plan => p \in s.synthetic
    /\ s.started /\ p \in s.live => s.mark[p] # "none" \/ s.clears[p] # NoClear

LEMMA TouchesTwice ==
    ASSUME NEW s \in Managers, NEW r, NEW q, NEW p \in Pairs,
           Touches(s, r, p), Touches(r, q, p)
    PROVE  Touches(s, q, p)
<1>1. Grows(s, q)
  BY GrowsTwice DEF Touches
<1>2. \A x \in Pairs \ {p} : SameRow(s, q, x)
  BY DEF Touches, SameRow
<1>3. /\ \A x \in Pairs : s.held[x] = 0 => q.held[x] = 0
      /\ \A x \in Pairs : <<"feed", x>> \in q.latest <=> <<"feed", x>> \in s.latest
      /\ s.open => q.open
      /\ q.open => s.open \/ \A x \in Pairs : q.held[x] = 0
      /\ q.revision = s.revision
  BY DEF Touches
<1> QED  BY <1>1, <1>2, <1>3 DEF Touches

\* A pair none of whose own values changed is as sound as before.
LEMMA RowsKept ==
    ASSUME NEW s \in Managers, NEW r \in Managers, NEW p \in Pairs,
           SameRow(s, r, p),
           r.started = s.started, r.applied = s.applied, r.plan = s.plan,
           r.open => s.open \/ r.held[p] = 0
    PROVE  /\ RowSound(s, p) => RowSound(r, p)
           /\ RowTracked(s, p) => RowTracked(r, p)
<1>1. RowSound(s, p) => RowTokens(r, p)
  BY DEF SameRow, RowSound, RowTokens
<1>2. RowSound(s, p) => RowSound(r, p)
  BY <1>1 DEF SameRow, RowSound
<1>3. RowTracked(s, p) => RowTracked(r, p)
  BY DEF SameRow, RowTracked
<1> QED  BY <1>2, <1>3

LEMMA SupersedeIs ==
    ASSUME NEW s \in Managers, NEW p \in Pairs,
           s.clears[p] # NoClear => s.clears[p].token >= 1,
           s.held[p] # 0 => s.held[p] = s.clears[p].token,
           s.open => s.held[p] = 0
    PROVE  LET r == Supersede(s, p)
               c == s.clears[p]
           IN
           /\ Touches(s, r, p)
           /\ r.mark = s.mark /\ r.token = s.token /\ r.last = s.last
           /\ r.synthetic = s.synthetic /\ r.live = s.live /\ r.liveInverse = s.liveInverse
           /\ IF c.inverse /\ p \notin s.synthetic
              THEN /\ r.clears[p].token = c.token /\ ~r.clears[p].direct
                   /\ r.clears[p].inverse /\ r.held[p] = s.held[p]
              ELSE r.clears[p] = NoClear /\ r.held[p] = 0
<1> DEFINE c == s.clears[p]
           r == Supersede(s, p)
<1>1. s.clears \in [Pairs -> ClearStates] /\ s.held \in [Pairs -> Nat] /\ NoClear \in ClearStates
      /\ c \in ClearStates
  BY DEF Managers, NoClear, ClearStates
<1>2. CASE c = NoClear
  <2>1. r = s
    <3>1. ~c.inverse
      BY <1>2 DEF NoClear
    <3> QED  BY <1>2, <3>1, Zenon DEF Supersede
  <2>2. Touches(s, s, p)
    <3>1. Grows(s, s)
      BY KeepsTokens
    <3> QED  BY <3>1 DEF Touches, SameRow
  <2>3. ~c.inverse /\ s.held[p] = 0
    BY <1>1, <1>2 DEF NoClear
  <2> QED  BY <1>2, <2>1, <2>2, <2>3
<1>3. CASE c # NoClear /\ c.inverse /\ p \notin s.synthetic
  <2> DEFINE k == [c EXCEPT !.direct = FALSE]
             d == [s.clears EXCEPT ![p] = k]
  <2>1. r = [s EXCEPT !.clears = d]
    BY <1>3, Zenon DEF Supersede
  <2>2. k \in ClearStates /\ k.token = c.token /\ ~k.direct /\ k.inverse
    BY <1>1, <1>3 DEF ClearStates
  <2> HIDE DEF k
  <2>3. d \in [Pairs -> ClearStates] /\ d[p] = k /\ \A q \in Pairs \ {p} : d[q] = s.clears[q]
    BY <1>1, <2>2
  <2> HIDE DEF d, r
  <2>4. /\ r \in Managers
        /\ r.started = s.started /\ r.run = s.run /\ r.applied = s.applied
        /\ r.plan = s.plan /\ r.open = s.open
        /\ r.mark = s.mark /\ r.token = s.token /\ r.last = s.last
        /\ r.clears = d /\ r.synthetic = s.synthetic
        /\ r.live = s.live /\ r.liveInverse = s.liveInverse
        /\ r.latest = s.latest /\ r.revision = s.revision /\ r.held = s.held
    BY <2>1, <2>3 DEF Managers
  <2>5. Touches(s, r, p)
    BY <2>3, <2>4, KeepsTokens DEF Touches, SameRow
  <2> QED  BY <1>3, <2>2, <2>3, <2>4, <2>5 DEF r
<1>4. CASE c # NoClear /\ ~(c.inverse /\ p \notin s.synthetic)
  <2> DEFINE d == [s.clears EXCEPT ![p] = NoClear]
             m == [s EXCEPT !.clears = d]
  <2>1. r = Resolve(m, p, c.token)
    BY <1>4, Zenon DEF Supersede
  <2>2. d \in [Pairs -> ClearStates] /\ d[p] = NoClear /\ \A q \in Pairs \ {p} : d[q] = s.clears[q]
    BY <1>1
  <2> HIDE DEF d
  <2>3. /\ m \in Managers
        /\ m.started = s.started /\ m.run = s.run /\ m.applied = s.applied
        /\ m.plan = s.plan /\ m.open = s.open
        /\ m.mark = s.mark /\ m.token = s.token /\ m.last = s.last
        /\ m.clears = d /\ m.synthetic = s.synthetic
        /\ m.live = s.live /\ m.liveInverse = s.liveInverse
        /\ m.latest = s.latest /\ m.revision = s.revision /\ m.held = s.held
    BY <2>2 DEF Managers
  <2>4. Touches(s, m, p)
    BY <2>2, <2>3, KeepsTokens DEF Touches, SameRow
  <2> HIDE DEF m, r
  <2>5. c.token \in Nat /\ c.token >= 1
    BY <1>1, <1>4 DEF ClearStates
  <2>6. /\ Grows(m, r)
        /\ r.mark = m.mark /\ r.token = m.token /\ r.last = m.last
        /\ r.clears = m.clears /\ r.synthetic = m.synthetic
        /\ r.live = m.live /\ r.liveInverse = m.liveInverse
        /\ r.latest = m.latest /\ r.revision = m.revision
        /\ \A q \in Pairs \ {p} : r.held[q] = m.held[q]
        /\ r.held[p] = IF m.open \/ c.token = 0 \/ m.held[p] # c.token THEN m.held[p] ELSE 0
        /\ m.open => r.open
        /\ r.open => m.open \/ \A q \in Pairs : r.held[q] = 0
    BY <2>1, <2>3, <2>5, ResolveGrows
  <2>7. r.held[p] = 0
    BY <1>1, <2>3, <2>5, <2>6
  <2>8. Touches(m, r, p)
    BY <2>6, <2>7 DEF Touches, SameRow
  <2>9. Touches(s, r, p)
    BY <2>4, <2>8, TouchesTwice
  <2> QED  BY <1>4, <2>2, <2>3, <2>6, <2>7, <2>9 DEF r
<1> QED  BY <1>2, <1>3, <1>4

LEMMA MarkLiveIs ==
    ASSUME NEW s \in Managers, NEW p \in Pairs
    PROVE  LET r == MarkLive(s, p) IN
           /\ Touches(s, r, p)
           /\ r.mark = s.mark /\ r.token = s.token /\ r.last = s.last
           /\ r.clears = s.clears /\ r.held = s.held /\ r.synthetic = s.synthetic
           /\ r.live = s.live \cup {p}
           /\ r.liveInverse = IF p \in s.synthetic THEN s.liveInverse \cup {p} ELSE s.liveInverse
<1> DEFINE r == MarkLive(s, p)
           l == s.live \cup {p}
           i == IF p \in s.synthetic THEN s.liveInverse \cup {p} ELSE s.liveInverse
           m == [s EXCEPT !.live = l]
<1>1. m.liveInverse = s.liveInverse
  BY DEF Managers
<1>2. r = [m EXCEPT !.liveInverse = IF p \in s.synthetic THEN m.liveInverse \cup {p} ELSE m.liveInverse]
  BY Zenon DEF MarkLive
<1>3. l \in SUBSET Pairs /\ i \in SUBSET Pairs
  BY DEF Managers
<1> HIDE DEF r
<1>4. r = [s EXCEPT !.live = l, !.liveInverse = i]
  BY <1>1, <1>2, Zenon
<1> HIDE DEF l, i
<1>5. /\ r \in Managers
      /\ r.started = s.started /\ r.run = s.run /\ r.applied = s.applied
      /\ r.plan = s.plan /\ r.open = s.open
      /\ r.mark = s.mark /\ r.token = s.token /\ r.last = s.last
      /\ r.clears = s.clears /\ r.synthetic = s.synthetic
      /\ r.live = l /\ r.liveInverse = i
      /\ r.latest = s.latest /\ r.revision = s.revision /\ r.held = s.held
  BY <1>3, <1>4 DEF Managers
<1>6. Touches(s, r, p)
  BY <1>5, KeepsTokens DEF Touches, SameRow, l, i
<1> QED  BY <1>5, <1>6 DEF r, l, i

\* A manager whose row of p has the given mark.
LEMMA PutMark ==
    ASSUME NEW s \in Managers, NEW p \in Pairs, NEW mark \in {"none", "blank"} \cup Marks
    PROVE  LET r == [s EXCEPT !.mark[p] = mark] IN
           /\ Touches(s, r, p) /\ r.mark[p] = mark
           /\ r.token = s.token /\ r.last = s.last
           /\ r.clears = s.clears /\ r.held = s.held /\ r.synthetic = s.synthetic
           /\ r.live = s.live /\ r.liveInverse = s.liveInverse /\ r.open = s.open
           /\ r.latest = s.latest
<1> DEFINE d == [s.mark EXCEPT ![p] = mark]
           r == [s EXCEPT !.mark = d]
<1>1. /\ d \in [Pairs -> {"none", "blank"} \cup Marks] /\ d[p] = mark
      /\ \A q \in Pairs \ {p} : d[q] = s.mark[q]
  BY DEF Managers
<1> HIDE DEF d
<1>2. /\ r \in Managers
      /\ r.started = s.started /\ r.run = s.run /\ r.applied = s.applied
      /\ r.plan = s.plan /\ r.open = s.open
      /\ r.mark = d /\ r.token = s.token /\ r.last = s.last
      /\ r.clears = s.clears /\ r.synthetic = s.synthetic
      /\ r.live = s.live /\ r.liveInverse = s.liveInverse
      /\ r.latest = s.latest /\ r.revision = s.revision /\ r.held = s.held
  BY <1>1 DEF Managers
<1> HIDE DEF r
<1>3. Touches(s, r, p)
  BY <1>1, <1>2, KeepsTokens DEF Touches, SameRow
<1> QED  BY <1>1, <1>2, <1>3 DEF r, d

LEMMA WantClearIs ==
    ASSUME NEW s \in Managers, NEW p \in Pairs,
           s.clears[p] # NoClear => s.clears[p].token >= 1,
           s.held[p] # 0 => s.held[p] = s.clears[p].token
    PROVE  LET r == WantClear(s, p) IN
           /\ Touches(s, r, p)
           /\ r.mark[p] = "blank" /\ r.token[p] = r.last[p] /\ r.last[p] = s.last[p] + 1
           /\ r.clears[p] = [token |-> r.last[p], direct |-> TRUE,
                             inverse |-> p \in s.liveInverse \cup s.synthetic]
           /\ r.held[p] = 0 <=> s.held[p] = 0
           /\ r.held[p] # 0 => r.held[p] = r.last[p]
           /\ r.open = s.open
           /\ r.synthetic = s.synthetic /\ r.live = s.live /\ r.liveInverse = s.liveInverse
<1> DEFINE t == NewToken(s, p)
           m == [t EXCEPT !.mark[p] = "blank"]
           c == [token |-> t.token[p], direct |-> TRUE,
                 inverse |-> p \in s.liveInverse \cup s.synthetic]
           r == SetClear(m, p, c)
<1>0. /\ s.last \in [Pairs -> Nat] /\ s.token \in [Pairs -> Nat] /\ s.held \in [Pairs -> Nat]
      /\ s.clears \in [Pairs -> ClearStates]
  BY DEF Managers
<1>1. /\ Grows(s, t)
      /\ t.mark = s.mark /\ t.held = s.held /\ t.open = s.open
      /\ t.clears = s.clears /\ t.synthetic = s.synthetic
      /\ t.live = s.live /\ t.liveInverse = s.liveInverse
      /\ t.latest = s.latest /\ t.revision = s.revision
      /\ t.last = [s.last EXCEPT ![p] = s.last[p] + 1]
      /\ t.token = [s.token EXCEPT ![p] = s.last[p] + 1]
  BY NewTokenGrows
<1> HIDE DEF t
<1>2. Touches(s, t, p)
  BY <1>0, <1>1 DEF Touches, SameRow
<1>3. /\ Touches(t, m, p) /\ m.mark[p] = "blank"
      /\ m.token = t.token /\ m.last = t.last
      /\ m.clears = t.clears /\ m.held = t.held /\ m.synthetic = t.synthetic
      /\ m.live = t.live /\ m.liveInverse = t.liveInverse /\ m.open = t.open
      /\ m.latest = t.latest
  BY <1>1, PutMark DEF Grows
<1> HIDE DEF m
<1>4. m \in Managers /\ Touches(s, m, p)
  BY <1>2, <1>3, TouchesTwice DEF Touches, Grows
<1>5. c \in ClearStates /\ c.token = s.last[p] + 1 /\ c.token >= 1 /\ t.last[p] = s.last[p] + 1
  <2>1. t.token[p] = s.last[p] + 1 /\ s.last[p] \in Nat /\ t.last[p] = s.last[p] + 1
    BY <1>0, <1>1
  <2> DEFINE b == p \in s.liveInverse \cup s.synthetic
             k == t.token[p]
  <2>2. b \in BOOLEAN /\ k \in Nat
    BY <2>1
  <2>3. c = [token |-> k, direct |-> TRUE, inverse |-> b]
    OBVIOUS
  <2> HIDE DEF b, k
  <2>4. c \in ClearStates /\ c.token = k
    BY <2>2, <2>3 DEF ClearStates
  <2> QED  BY <2>1, <2>2, <2>4 DEF k
<1> HIDE DEF c
<1>6. /\ Grows(m, r)
      /\ r.mark = m.mark /\ r.token = m.token /\ r.last = m.last
      /\ r.clears = [m.clears EXCEPT ![p] = c] /\ r.synthetic = m.synthetic
      /\ r.live = m.live /\ r.liveInverse = m.liveInverse
      /\ r.latest = m.latest /\ r.revision = m.revision /\ r.open = m.open
      /\ \A q \in Pairs \ {p} : r.held[q] = m.held[q]
      /\ r.held[p] = IF m.clears[p] # NoClear /\ m.held[p] = m.clears[p].token
                     THEN c.token ELSE m.held[p]
  BY <1>4, <1>5, SetClearGrows
<1> HIDE DEF r
<1>7. r.held[p] = 0 <=> s.held[p] = 0
  BY <1>0, <1>1, <1>3, <1>5, <1>6 DEF NoClear
<1>8. r.held[p] # 0 => r.held[p] = s.last[p] + 1
  BY <1>0, <1>1, <1>3, <1>5, <1>6 DEF NoClear, ClearStates
<1>9. Touches(m, r, p)
  BY <1>0, <1>1, <1>3, <1>6, <1>7 DEF Touches, SameRow
<1>10. Touches(s, r, p)
  BY <1>4, <1>9, TouchesTwice
<1>11. /\ r.clears[p] = c /\ r.last[p] = s.last[p] + 1 /\ r.token[p] = s.last[p] + 1
      /\ t.token[p] = r.last[p]
  BY <1>0, <1>1, <1>3, <1>6
<1>13. c = [token |-> r.last[p], direct |-> TRUE,
            inverse |-> p \in s.liveInverse \cup s.synthetic]
  BY <1>11 DEF c
<1>12. WantClear(s, p) = r
  BY Zenon DEF WantClear, r, m, t, c
<1>14. /\ r.mark[p] = "blank" /\ r.open = s.open
       /\ r.synthetic = s.synthetic /\ r.live = s.live /\ r.liveInverse = s.liveInverse
  BY <1>1, <1>3, <1>6
<1> HIDE DEF m, c
<1> QED  BY <1>7, <1>8, <1>10, <1>11, <1>12, <1>13, <1>14

LEMMA WantClearSound ==
    ASSUME NEW s \in Managers, NEW p \in Pairs, RowSound(s, p), s.applied[p] = "byo"
    PROVE  LET r == WantClear(s, p) IN
           /\ Touches(s, r, p) /\ RowSound(r, p)
           /\ RowTracked(s, p) => RowTracked(r, p)
           /\ r.mark[p] = "blank" /\ r.last[p] = s.last[p] + 1
           /\ r.clears[p].token = r.last[p] /\ r.clears[p].direct
           /\ s.live \subseteq r.live /\ s.liveInverse \subseteq r.liveInverse
           /\ r.synthetic = s.synthetic
<1> DEFINE r == WantClear(s, p)
<1>0. /\ s.last[p] \in Nat /\ s.held[p] \in Nat /\ s.clears[p] \in ClearStates
      /\ "blank" \notin Marks
  BY PairsAssumption DEF Managers
<1>1. /\ Touches(s, r, p)
      /\ r.mark[p] = "blank" /\ r.token[p] = r.last[p] /\ r.last[p] = s.last[p] + 1
      /\ r.clears[p] = [token |-> r.last[p], direct |-> TRUE,
                        inverse |-> p \in s.liveInverse \cup s.synthetic]
      /\ r.held[p] = 0 <=> s.held[p] = 0
      /\ r.held[p] # 0 => r.held[p] = r.last[p]
      /\ r.open = s.open
      /\ r.synthetic = s.synthetic /\ r.live = s.live /\ r.liveInverse = s.liveInverse
  BY WantClearIs DEF RowSound, RowTokens
<1> HIDE DEF r
<1>2. /\ r.clears[p].token = r.last[p] /\ r.clears[p].direct
      /\ r.clears[p].inverse <=> p \in s.liveInverse \cup s.synthetic
  <2> DEFINE i == p \in s.liveInverse \cup s.synthetic
             k == r.last[p]
  <2>1. r.clears[p] = [token |-> k, direct |-> TRUE, inverse |-> i]
    BY <1>1
  <2> HIDE DEF i, k
  <2>2. r.clears[p].token = k /\ r.clears[p].direct /\ r.clears[p].inverse = i
    BY <2>1
  <2> QED  BY <2>2 DEF i, k
<1>3. /\ r.started = s.started /\ r.applied = s.applied /\ r.plan = s.plan
  BY <1>1 DEF Touches, Grows
<1>4. RowTokens(r, p)
  BY <1>0, <1>1, <1>2 DEF RowSound, RowTokens
<1>5. RowSound(r, p)
  BY <1>0, <1>1, <1>2, <1>3, <1>4 DEF RowSound
<1>6. RowTracked(s, p) => RowTracked(r, p)
  BY <1>0, <1>1, <1>3 DEF RowTracked
<1> QED  BY <1>1, <1>2, <1>5, <1>6 DEF r

\* A mark is set with a new token, or again with the one it has.
LEMMA WantMarkSound ==
    ASSUME NEW s \in Managers, NEW p \in Pairs, RowSound(s, p), s.applied[p] = "byo",
           NEW m \in Marks, NEW t,
           t = NewToken(s, p) \/ (t = s /\ s.mark[p] = m)
    PROVE  LET r == WantMark(t, p, m) c == s.clears[p] IN
           /\ Touches(s, r, p) /\ RowSound(r, p)
           /\ RowTracked(s, p) => RowTracked(r, p)
           /\ r.mark[p] = m /\ r.token[p] = r.last[p]
           /\ s.live \subseteq r.live /\ s.liveInverse \subseteq r.liveInverse
           /\ r.synthetic = s.synthetic
           /\ \/ r.clears[p] = NoClear
              \/ /\ r.clears[p].token = c.token /\ ~r.clears[p].direct /\ r.clears[p].inverse
                 /\ c.inverse /\ p \notin s.synthetic
<1> DEFINE c == s.clears[p]
           a == [t EXCEPT !.mark[p] = m]
           b == Supersede(a, p)
           r == MarkLive(b, p)
<1>0. /\ s.last[p] \in Nat /\ s.held[p] \in Nat /\ s.clears[p] \in ClearStates
      /\ m \notin {"none", "blank"} /\ s.token \in [Pairs -> Nat] /\ s.last \in [Pairs -> Nat]
  BY PairsAssumption DEF Managers
<1>1. /\ Touches(s, t, p)
      /\ t.token[p] = t.last[p] /\ t.last[p] >= 1 /\ t.last[p] >= s.last[p] /\ t.last[p] \in Nat
      /\ t.mark = s.mark /\ t.held = s.held /\ t.open = s.open
      /\ t.clears = s.clears /\ t.synthetic = s.synthetic
      /\ t.live = s.live /\ t.liveInverse = s.liveInverse /\ t.latest = s.latest
  <2>1. CASE t = NewToken(s, p)
    <3>1. /\ Grows(s, t) /\ t.revision = s.revision
          /\ t.last = [s.last EXCEPT ![p] = s.last[p] + 1]
          /\ t.token = [s.token EXCEPT ![p] = s.last[p] + 1]
          /\ t.mark = s.mark /\ t.held = s.held /\ t.open = s.open
          /\ t.clears = s.clears /\ t.synthetic = s.synthetic
          /\ t.live = s.live /\ t.liveInverse = s.liveInverse /\ t.latest = s.latest
      BY <2>1, NewTokenGrows
    <3>2. /\ t.token[p] = s.last[p] + 1 /\ t.last[p] = s.last[p] + 1
          /\ \A q \in Pairs \ {p} : t.token[q] = s.token[q] /\ t.last[q] = s.last[q]
      BY <1>0, <3>1
    <3>3. Touches(s, t, p)
      BY <3>1, <3>2 DEF Touches, SameRow
    <3> QED  BY <1>0, <3>1, <3>2, <3>3
  <2>2. CASE t = s /\ s.mark[p] = m
    <3>1. Grows(s, s)
      BY KeepsTokens
    <3>2. Touches(s, t, p)
      BY <2>2, <3>1 DEF Touches, SameRow
    <3> QED  BY <1>0, <2>2, <3>2 DEF RowSound, RowTokens
  <2> QED  BY <2>1, <2>2
<1>2. t \in Managers
  BY <1>1 DEF Touches, Grows
<1>3. /\ Touches(t, a, p) /\ a.mark[p] = m
      /\ a.token = t.token /\ a.last = t.last
      /\ a.clears = t.clears /\ a.held = t.held /\ a.synthetic = t.synthetic
      /\ a.live = t.live /\ a.liveInverse = t.liveInverse /\ a.open = t.open
  BY <1>2, PutMark
<1> HIDE DEF a
<1>4. a \in Managers
  BY <1>3 DEF Touches, Grows
<1>5. /\ Touches(a, b, p)
      /\ b.mark = a.mark /\ b.token = a.token /\ b.last = a.last
      /\ b.synthetic = a.synthetic /\ b.live = a.live /\ b.liveInverse = a.liveInverse
      /\ IF c.inverse /\ p \notin a.synthetic
         THEN /\ b.clears[p].token = c.token /\ ~b.clears[p].direct
              /\ b.clears[p].inverse /\ b.held[p] = a.held[p]
         ELSE b.clears[p] = NoClear /\ b.held[p] = 0
  <2>1. /\ a.clears[p] = c
        /\ a.clears[p] # NoClear => a.clears[p].token >= 1
        /\ a.held[p] # 0 => a.held[p] = a.clears[p].token
        /\ a.open => a.held[p] = 0
    BY <1>1, <1>3 DEF RowSound, RowTokens
  <2> HIDE DEF b, c
  <2>2. Supersede(a, p) = b
    BY DEF b
  <2> QED  BY <1>4, <2>1, <2>2, SupersedeIs
<1> HIDE DEF b
<1>6. b \in Managers
  BY <1>5 DEF Touches, Grows
<1>7. /\ Touches(b, r, p)
      /\ r.mark = b.mark /\ r.token = b.token /\ r.last = b.last
      /\ r.clears = b.clears /\ r.held = b.held /\ r.synthetic = b.synthetic
      /\ r.live = b.live \cup {p}
      /\ r.liveInverse = IF p \in b.synthetic THEN b.liveInverse \cup {p} ELSE b.liveInverse
  BY <1>6, MarkLiveIs
<1> HIDE DEF r
<1>8. Touches(s, r, p)
  <2>1. Touches(s, a, p)
    BY <1>1, <1>3, TouchesTwice
  <2>2. Touches(s, b, p)
    BY <1>5, <2>1, TouchesTwice
  <2> QED  BY <1>7, <2>2, TouchesTwice
<1>9. /\ r.started = s.started /\ r.applied = s.applied /\ r.plan = s.plan
      /\ r.open => s.open \/ r.held[p] = 0
  BY <1>8 DEF Touches, Grows
<1>10. /\ r.mark[p] = m /\ r.token[p] = t.last[p] /\ r.last[p] = t.last[p]
       /\ r.synthetic = s.synthetic
       /\ r.live = s.live \cup {p}
       /\ r.liveInverse = IF p \in s.synthetic THEN s.liveInverse \cup {p} ELSE s.liveInverse
       /\ IF c.inverse /\ p \notin s.synthetic
          THEN /\ r.clears[p].token = c.token /\ ~r.clears[p].direct
               /\ r.clears[p].inverse /\ r.held[p] = s.held[p]
          ELSE r.clears[p] = NoClear /\ r.held[p] = 0
  BY <1>1, <1>3, <1>5, <1>7
<1>11. c.token \in Nat /\ (c.inverse => c # NoClear /\ c.token >= 1) /\ c.token <= s.last[p]
  BY <1>0 DEF NoClear, RowSound, RowTokens, ClearStates
<1>12. RowTokens(r, p)
  BY <1>0, <1>1, <1>9, <1>10, <1>11 DEF RowSound, RowTokens, NoClear
<1>13. RowSound(r, p)
  BY <1>0, <1>9, <1>10, <1>11, <1>12 DEF RowSound, RowTokens, NoClear
<1>14. RowTracked(s, p) => RowTracked(r, p)
  BY <1>0, <1>9, <1>10 DEF RowTracked, RowSound
<1>15. WantMark(t, p, m) = r
  BY Zenon DEF WantMark, r, b, a
<1> QED  BY <1>1, <1>8, <1>10, <1>13, <1>14, <1>15

\* What the completion of the clear u makes of its pair.
CompletedSound(s, u, r) ==
    /\ Touches(s, r, u.pair) /\ RowSound(r, u.pair)
    /\ u.direct = s.clears[u.pair].direct /\ RowTracked(s, u.pair) => RowTracked(r, u.pair)
    /\ r.clears[u.pair] = NoClear /\ r.mark = s.mark /\ r.token = s.token
    /\ r.live = IF u.direct THEN s.live \ {u.pair} ELSE s.live
    /\ r.liveInverse = s.liveInverse \ {u.pair}

LEMMA CompleteSound ==
    ASSUME NEW s \in Managers, NEW u \in Updates, u.pair \in Pairs, RowSound(s, u.pair),
           u.token >= 1, s.clears[u.pair].token = u.token, u.run = s.run
    PROVE  CompletedSound(s, u, Complete(s, u))
<1> SUFFICES ASSUME NEW p \in Pairs, p = u.pair, RowSound(s, p),
                    s.clears[p].token = u.token, NEW r, r = Complete(s, u)
             PROVE  CompletedSound(s, u, r)
  OBVIOUS
<1> DEFINE c == s.clears[p]
           m == [s EXCEPT
                    !.clears[u.pair] = NoClear,
                    !.live = IF u.direct THEN @ \ {u.pair} ELSE @,
                    !.liveInverse = @ \ {u.pair},
                    !.latest = IF u.direct THEN @ \ {<<"byo", u.pair>>} ELSE @]
<1>0. /\ s.last[p] \in Nat /\ s.held \in [Pairs -> Nat] /\ s.clears[p] \in ClearStates
      /\ s.clears \in [Pairs -> ClearStates] /\ u.token \in Nat /\ s.mark[p] \in {"none", "blank"} \cup Marks
      /\ "none" \notin Marks
  BY PairsAssumption DEF Managers, Updates, Tokens
<1>1. r = Resolve(m, p, u.token)
  BY Zenon DEF Complete
<1>2. /\ m \in Managers
      /\ m.started = s.started /\ m.run = s.run /\ m.applied = s.applied
      /\ m.plan = s.plan /\ m.open = s.open /\ m.held = s.held
      /\ m.mark = s.mark /\ m.token = s.token /\ m.last = s.last
      /\ m.clears = [s.clears EXCEPT ![p] = NoClear] /\ m.synthetic = s.synthetic
      /\ m.live = IF u.direct THEN s.live \ {p} ELSE s.live
      /\ m.liveInverse = s.liveInverse \ {p}
      /\ m.revision = s.revision
      /\ m.latest = IF u.direct THEN s.latest \ {<<"byo", p>>} ELSE s.latest
  <2>1. NoClear \in ClearStates
    BY DEF NoClear, ClearStates
  <2> HIDE DEF m
  <2>2. m = [s EXCEPT
                !.clears[u.pair] = NoClear,
                !.live = IF u.direct THEN @ \ {u.pair} ELSE @,
                !.liveInverse = @ \ {u.pair},
                !.latest = IF u.direct THEN @ \ {<<"byo", u.pair>>} ELSE @]
    BY DEF m
  <2> QED  BY <2>1, <2>2 DEF Managers
<1> HIDE DEF m
<1>3. /\ m.clears[p] = NoClear /\ \A q \in Pairs \ {p} : m.clears[q] = s.clears[q]
  BY <1>0, <1>2
<1>4. Touches(s, m, p)
  <2>1. Grows(s, m)
    BY <1>2, KeepsTokens
  <2>2. \A q \in Pairs \ {p} : SameRow(s, m, q)
    BY <1>2, <1>3 DEF SameRow
  <2>3. \A q \in Pairs : <<"feed", q>> \in m.latest <=> <<"feed", q>> \in s.latest
    BY <1>2
  <2> QED  BY <1>2, <2>1, <2>2, <2>3 DEF Touches
<1>5. /\ Grows(m, r)
      /\ r.mark = m.mark /\ r.token = m.token /\ r.last = m.last
      /\ r.clears = m.clears /\ r.synthetic = m.synthetic
      /\ r.live = m.live /\ r.liveInverse = m.liveInverse
      /\ r.latest = m.latest /\ r.revision = m.revision
      /\ \A q \in Pairs \ {p} : r.held[q] = m.held[q]
      /\ r.held[p] = IF m.open \/ u.token = 0 \/ m.held[p] # u.token THEN m.held[p] ELSE 0
      /\ m.open => r.open
      /\ r.open => m.open \/ \A q \in Pairs : r.held[q] = 0
  <2>2. m \in Managers /\ u.token \in Nat
    BY <1>0, <1>2
  <2> DEFINE t == u.token
  <2> HIDE DEF t
  <2>3. r = Resolve(m, p, t) /\ t \in Nat
    BY <1>1, <2>2 DEF t
  <2> QED  BY <2>2, <2>3, ResolveGrows DEF t
<1>6. r.held[p] = 0
  BY <1>0, <1>2, <1>5 DEF RowSound, RowTokens
<1>7. Touches(m, r, p)
  BY <1>5, <1>6 DEF Touches, SameRow
<1>8. Touches(s, r, p)
  BY <1>4, <1>7, TouchesTwice
<1>9. /\ r.started = s.started /\ r.applied = s.applied /\ r.plan = s.plan
  BY <1>8 DEF Touches, Grows
<1>10. /\ ~NoClear.direct /\ ~NoClear.inverse /\ NoClear.token = 0
  BY DEF NoClear
<1>11. RowTokens(r, p)
  BY <1>0, <1>2, <1>3, <1>5, <1>6, <1>10 DEF RowSound, RowTokens
<1>12. RowSound(r, p)
  BY <1>0, <1>2, <1>3, <1>5, <1>6, <1>9, <1>10, <1>11 DEF RowSound
<1>13. u.direct = c.direct /\ RowTracked(s, p) => RowTracked(r, p)
  <2>1. c # NoClear
    BY <1>0, <1>10
  <2> SUFFICES ASSUME u.direct = c.direct, RowTracked(s, p) PROVE RowTracked(r, p)
    OBVIOUS
  <2>2. r.mark[p] = s.mark[p] /\ (p \in r.synthetic <=> p \in s.synthetic)
    BY <1>2, <1>5
  <2>3. CASE u.direct
    <3>1. s.mark[p] \notin Marks /\ p \notin r.live
      BY <1>2, <1>5, <2>3 DEF RowSound, RowTokens
    <3> QED  BY <1>9, <2>2, <3>1 DEF RowTracked
  <2>4. CASE ~u.direct
    <3>1. p \notin s.synthetic /\ s.mark[p] # "none" /\ s.applied[p] = "byo"
      BY <2>1, <2>4 DEF RowSound
    <3>2. p \notin s.plan
      BY <3>1 DEF RowTracked
    <3>3. p \in r.live <=> p \in s.live
      BY <1>2, <1>5, <2>4
    <3> QED  BY <1>9, <2>2, <3>1, <3>2, <3>3 DEF RowTracked
  <2> QED  BY <2>3, <2>4
<1> QED  BY <1>1, <1>2, <1>3, <1>5, <1>8, <1>12, <1>13 DEF CompletedSound

LEMMA RetireSound ==
    ASSUME NEW s \in Managers, NEW p \in Pairs, RowSound(s, p)
    PROVE  LET r == Retire(s, p) IN
           /\ Touches(s, r, p) /\ RowSound(r, p)
           /\ r.clears[p] = NoClear /\ r.mark[p] = "none"
<1> DEFINE c == s.clears[p]
           m == [s EXCEPT !.clears[p] = NoClear]
           b == IF c = NoClear THEN s ELSE Resolve(m, p, c.token)
           r == [b EXCEPT !.live = @ \ {p}, !.liveInverse = @ \ {p}, !.mark[p] = "none",
                 !.token[p] = 0, !.synthetic = @ \ {p},
                 !.latest = @ \ {<<"byo", p>>}]
<1>0. /\ s.last[p] \in Nat /\ s.held \in [Pairs -> Nat] /\ c \in ClearStates
      /\ s.clears \in [Pairs -> ClearStates]
      /\ "none" \notin Marks /\ NoClear \in ClearStates
      /\ ~NoClear.direct /\ ~NoClear.inverse /\ NoClear.token = 0
  BY PairsAssumption DEF Managers, NoClear, ClearStates
<1>1. Retire(s, p) = r
  BY Zenon DEF Retire
<1>2. /\ m \in Managers
      /\ m.started = s.started /\ m.run = s.run /\ m.applied = s.applied
      /\ m.plan = s.plan /\ m.open = s.open /\ m.held = s.held
      /\ m.mark = s.mark /\ m.token = s.token /\ m.last = s.last
      /\ m.clears = [s.clears EXCEPT ![p] = NoClear] /\ m.synthetic = s.synthetic
      /\ m.live = s.live /\ m.liveInverse = s.liveInverse
      /\ m.revision = s.revision /\ m.latest = s.latest
  <2> HIDE DEF m
  <2>1. m = [s EXCEPT !.clears[p] = NoClear]
    BY DEF m
  <2> QED  BY <1>0, <2>1 DEF Managers
<1> HIDE DEF m
<1>3. m.clears[p] = NoClear /\ \A q \in Pairs \ {p} : m.clears[q] = s.clears[q]
  BY <1>0, <1>2
<1>4. Touches(s, m, p)
  <2>1. Grows(s, m)
    BY <1>2, KeepsTokens
  <2>2. \A q \in Pairs \ {p} : SameRow(s, m, q)
    BY <1>2, <1>3 DEF SameRow
  <2> QED  BY <1>2, <2>1, <2>2 DEF Touches
<1>5. Touches(s, b, p) /\ b.clears[p] = NoClear /\ b.held[p] = 0
  <2>1. CASE c = NoClear
    <3>1. Grows(s, s)
      BY KeepsTokens
    <3>2. Touches(s, s, p)
      BY <3>1 DEF Touches, SameRow
    <3> QED  BY <1>0, <2>1, <3>2 DEF RowSound, RowTokens
  <2>2. CASE c # NoClear
    <3>1. b = Resolve(m, p, c.token) /\ c.token \in Nat /\ c.token >= 1
      BY <1>0, <2>2 DEF RowSound, RowTokens, ClearStates
    <3> HIDE DEF b
    <3>2. /\ Grows(m, b)
          /\ b.mark = m.mark /\ b.token = m.token /\ b.last = m.last
          /\ b.clears = m.clears /\ b.synthetic = m.synthetic
          /\ b.live = m.live /\ b.liveInverse = m.liveInverse
          /\ b.latest = m.latest /\ b.revision = m.revision
          /\ \A q \in Pairs \ {p} : b.held[q] = m.held[q]
          /\ b.held[p] = IF m.open \/ c.token = 0 \/ m.held[p] # c.token THEN m.held[p] ELSE 0
          /\ m.open => b.open
          /\ b.open => m.open \/ \A q \in Pairs : b.held[q] = 0
      BY <1>0, <1>2, <3>1, ResolveGrows
    <3>3. b.held[p] = 0
      BY <1>0, <1>2, <3>2, <3>1 DEF RowSound, RowTokens
    <3>4. Touches(m, b, p)
      BY <3>2, <3>3 DEF Touches, SameRow
    <3>5. Touches(s, b, p)
      BY <1>4, <3>4, TouchesTwice
    <3> QED  BY <1>3, <3>2, <3>3, <3>5
  <2> QED  BY <2>1, <2>2
<1> HIDE DEF b
<1>6. b \in Managers
  BY <1>5 DEF Touches, Grows
<1>7. /\ r \in Managers
      /\ r.started = b.started /\ r.run = b.run /\ r.applied = b.applied
      /\ r.plan = b.plan /\ r.open = b.open /\ r.held = b.held
      /\ r.mark = [b.mark EXCEPT ![p] = "none"] /\ r.token = [b.token EXCEPT ![p] = 0]
      /\ r.last = b.last
      /\ r.clears = b.clears /\ r.synthetic = b.synthetic \ {p}
      /\ r.live = b.live \ {p} /\ r.liveInverse = b.liveInverse \ {p}
      /\ r.revision = b.revision /\ r.latest = b.latest \ {<<"byo", p>>}
  <2> HIDE DEF r
  <2>1. r = [b EXCEPT !.live = @ \ {p}, !.liveInverse = @ \ {p}, !.mark[p] = "none",
             !.token[p] = 0, !.synthetic = @ \ {p},
             !.latest = @ \ {<<"byo", p>>}]
    BY DEF r
  <2>2. b.mark \in [Pairs -> {"none", "blank"} \cup Marks] /\ b.token \in [Pairs -> Nat]
    BY <1>6 DEF Managers
  <2> QED  BY <1>6, <2>1, <2>2 DEF Managers
<1> HIDE DEF r
<1>8. /\ r.mark[p] = "none" /\ r.token[p] = 0
      /\ \A q \in Pairs \ {p} : r.mark[q] = b.mark[q] /\ r.token[q] = b.token[q]
  BY <1>6, <1>7 DEF Managers
<1>9. Touches(b, r, p)
  <2>1. Grows(b, r)
    BY <1>6, <1>7, KeepsTokens
  <2>2. \A q \in Pairs \ {p} : SameRow(b, r, q)
    BY <1>7, <1>8 DEF SameRow
  <2>3. \A q \in Pairs : <<"feed", q>> \in r.latest <=> <<"feed", q>> \in b.latest
    BY <1>7
  <2> QED  BY <1>7, <2>1, <2>2, <2>3 DEF Touches
<1>10. Touches(s, r, p)
  BY <1>5, <1>9, TouchesTwice
<1>11. /\ r.clears[p] = NoClear /\ r.held[p] = 0 /\ r.last[p] \in Nat
       /\ p \notin r.synthetic /\ p \notin r.live /\ p \notin r.liveInverse
       /\ r.started = s.started /\ r.applied = s.applied /\ r.plan = s.plan
  <2>1. r.started = s.started /\ r.applied = s.applied /\ r.plan = s.plan /\ r \in Managers
    BY <1>10 DEF Touches, Grows
  <2>2. r.last[p] \in Nat
    BY <2>1 DEF Managers
  <2> QED  BY <1>5, <1>7, <2>1, <2>2
<1>12. RowTokens(r, p)
  BY <1>0, <1>8, <1>11 DEF RowTokens
<1>13. RowSound(r, p)
  BY <1>0, <1>8, <1>11, <1>12 DEF RowSound
<1> QED  BY <1>1, <1>8, <1>10, <1>11, <1>13

\* What may have become of the clear of p while its row was written.
ClearKept(s, r, p) ==
    \/ r.clears[p] = s.clears[p]
    \/ r.clears[p] = NoClear
    \/ r.clears[p].token > s.last[p]
    \/ s.clears[p].inverse /\ p \notin s.synthetic /\ r.clears[p].token = s.clears[p].token

\* A row written again: p has the price, or none.
Written(s, r, p, row) ==
    /\ Touches(s, r, p) /\ RowSound(r, p)
    /\ RowTracked(s, p) => RowTracked(r, p)
    /\ r.mark[p] = row
    /\ row \in Marks => r.token[p] = r.last[p]
    /\ p \in r.synthetic <=> p \in s.synthetic
    /\ p \in s.live => p \in r.live
    /\ p \in s.liveInverse => p \in r.liveInverse
    /\ ClearKept(s, r, p)

LEMMA RefreshRowSound ==
    ASSUME NEW s \in Managers, NEW p \in Pairs, RowSound(s, p), s.applied[p] = "byo",
           NEW row \in {"blank"} \cup Marks
    PROVE  Written(s, RefreshRow(s, p, row), p, row)
<1> DEFINE r == RefreshRow(s, p, row)
<1>0. "blank" \notin Marks /\ s.last[p] \in Nat
  BY PairsAssumption DEF Managers
<1>1. CASE row \in Marks
  <2> DEFINE t == IF s.mark[p] # row \/ s.token[p] = 0 THEN NewToken(s, p) ELSE s
  <2>1. r = WantMark(t, p, row)
    BY <1>0, <1>1 DEF RefreshRow
  <2>2. t = NewToken(s, p) \/ (t = s /\ s.mark[p] = row)
    OBVIOUS
  <2> HIDE DEF t, r
  <2>3. /\ Touches(s, r, p) /\ RowSound(r, p)
        /\ RowTracked(s, p) => RowTracked(r, p)
        /\ r.mark[p] = row /\ r.token[p] = r.last[p]
        /\ s.live \subseteq r.live /\ s.liveInverse \subseteq r.liveInverse
        /\ r.synthetic = s.synthetic
        /\ \/ r.clears[p] = NoClear
           \/ /\ r.clears[p].token = s.clears[p].token /\ ~r.clears[p].direct /\ r.clears[p].inverse
              /\ s.clears[p].inverse /\ p \notin s.synthetic
    BY <1>1, <2>1, <2>2, WantMarkSound
  <2> QED  BY <2>3 DEF Written, ClearKept, r
<1>2. CASE row = "blank" /\ s.clears[p] = NoClear /\ p \in s.live
  <2>1. r = WantClear(s, p)
    BY <1>0, <1>2 DEF RefreshRow
  <2> HIDE DEF r
  <2>2. /\ Touches(s, r, p) /\ RowSound(r, p)
        /\ RowTracked(s, p) => RowTracked(r, p)
        /\ r.mark[p] = "blank" /\ r.last[p] = s.last[p] + 1
        /\ r.clears[p].token = r.last[p] /\ r.clears[p].direct
        /\ s.live \subseteq r.live /\ s.liveInverse \subseteq r.liveInverse
        /\ r.synthetic = s.synthetic
    BY <2>1, WantClearSound
  <2> QED  BY <1>0, <1>2, <2>2 DEF Written, ClearKept, r
<1>3. CASE row = "blank" /\ ~(s.clears[p] = NoClear /\ p \in s.live)
  <2>1. r = [s EXCEPT !.mark[p] = "blank"]
    BY <1>0, <1>3, Zenon DEF RefreshRow
  <2> HIDE DEF r
  <2>2. /\ Touches(s, r, p) /\ r.mark[p] = "blank"
        /\ r.token = s.token /\ r.last = s.last
        /\ r.clears = s.clears /\ r.held = s.held /\ r.synthetic = s.synthetic
        /\ r.live = s.live /\ r.liveInverse = s.liveInverse /\ r.open = s.open
        /\ r.latest = s.latest
    BY <2>1, PutMark
  <2>3. r.started = s.started /\ r.applied = s.applied /\ r.plan = s.plan
    BY <2>2 DEF Touches, Grows
  <2>4. RowTokens(r, p)
    BY <1>0, <2>2 DEF RowSound, RowTokens
  <2>5. RowSound(r, p)
    BY <1>0, <2>2, <2>3, <2>4 DEF RowSound
  <2>6. RowTracked(s, p) => RowTracked(r, p)
    BY <1>0, <2>2, <2>3 DEF RowTracked
  <2> QED  BY <1>0, <1>3, <2>2, <2>5, <2>6 DEF Written, ClearKept, r
<1> QED  BY <1>1, <1>2, <1>3

LEMMA RefreshedSound ==
    ASSUME NEW s \in Managers, \A p \in Pairs : RowSound(s, p),
           NEW was \in [Pairs -> Rows], NEW rows \in SUBSET Pairs,
           \A p \in rows : IsManual(was[p]) /\ s.applied[p] = "byo"
    PROVE  LET r == Refreshed(s, was, rows) IN
           /\ Grows(s, r) /\ r.latest = s.latest /\ r.revision = s.revision
           /\ s.open => r.open
           /\ r.open => s.open \/ \A p \in Pairs : r.held[p] = 0
           /\ \A p \in Pairs :
                  /\ RowSound(r, p)
                  /\ RowTracked(s, p) => RowTracked(r, p)
                  /\ p \in s.live => p \in r.live
                  /\ p \in s.liveInverse => p \in r.liveInverse
                  /\ ClearKept(s, r, p)
                  /\ s.held[p] = 0 => r.held[p] = 0
                  /\ IF p \in rows
                     THEN r.mark[p] = was[p] /\ (was[p] \in Marks => r.token[p] = r.last[p])
                     ELSE SameRow(s, r, p)
<1> DEFINE row == [p \in Pairs |-> IF p \in rows THEN RefreshRow(s, p, was[p]) ELSE s]
           held == [p \in Pairs |-> row[p].held[p]]
           open == s.open \/ (held # s.held /\ \A p \in Pairs : held[p] = 0)
           r == Refreshed(s, was, rows)
<1>0. Grows(s, s)
  BY KeepsTokens
<1>1. \A p \in rows : Written(s, row[p], p, was[p])
  <2> SUFFICES ASSUME NEW p \in rows PROVE Written(s, row[p], p, was[p])
    OBVIOUS
  <2>1. was[p] \in {"blank"} \cup Marks /\ s.applied[p] = "byo" /\ p \in Pairs
    BY DEF IsManual
  <2>2. row[p] = RefreshRow(s, p, was[p])
    BY <2>1
  <2> QED  BY <2>1, <2>2, RefreshRowSound
<1>2. \A p \in Pairs \ rows : row[p] = s
  OBVIOUS
<1>3. \A p \in Pairs : Grows(s, row[p])
  BY <1>0, <1>1, <1>2 DEF Written, Touches
<1> HIDE DEF row
<1>4. r = [s EXCEPT
             !.mark = [p \in Pairs |-> row[p].mark[p]],
             !.token = [p \in Pairs |-> row[p].token[p]],
             !.last = [p \in Pairs |-> row[p].last[p]],
             !.clears = [p \in Pairs |-> row[p].clears[p]],
             !.held = held,
             !.live = {p \in Pairs : p \in row[p].live},
             !.liveInverse = {p \in Pairs : p \in row[p].liveInverse},
             !.open = @ \/ (held # s.held /\ \A p \in Pairs : held[p] = 0)]
  BY Zenon DEF Refreshed, row
<1> HIDE DEF r
<1>5. /\ [p \in Pairs |-> row[p].mark[p]] \in [Pairs -> {"none", "blank"} \cup Marks]
      /\ [p \in Pairs |-> row[p].token[p]] \in [Pairs -> Nat]
      /\ [p \in Pairs |-> row[p].last[p]] \in [Pairs -> Nat]
      /\ [p \in Pairs |-> row[p].clears[p]] \in [Pairs -> ClearStates]
      /\ held \in [Pairs -> Nat]
      /\ open \in BOOLEAN
  BY <1>3 DEF Grows, Managers
<1>6. /\ r \in Managers
      /\ r.started = s.started /\ r.run = s.run /\ r.applied = s.applied
      /\ r.plan = s.plan /\ r.latest = s.latest /\ r.revision = s.revision
      /\ r.synthetic = s.synthetic
      /\ r.mark = [p \in Pairs |-> row[p].mark[p]]
      /\ r.token = [p \in Pairs |-> row[p].token[p]]
      /\ r.last = [p \in Pairs |-> row[p].last[p]]
      /\ r.clears = [p \in Pairs |-> row[p].clears[p]]
      /\ r.held = held
      /\ r.live = {p \in Pairs : p \in row[p].live}
      /\ r.liveInverse = {p \in Pairs : p \in row[p].liveInverse}
      /\ r.open = open
  BY <1>4, <1>5 DEF Managers
<1>7. \A p \in Pairs : r.held[p] = row[p].held[p] /\ r.last[p] = row[p].last[p]
  BY <1>6
<1>8. Grows(s, r)
  BY <1>3, <1>6, <1>7 DEF Grows
<1>9. /\ s.open => r.open
      /\ r.open => s.open \/ \A p \in Pairs : r.held[p] = 0
  BY <1>6 DEF Managers
<1>10. ASSUME NEW p \in Pairs
       PROVE  /\ RowSound(r, p)
              /\ RowTracked(s, p) => RowTracked(r, p)
              /\ p \in s.live => p \in r.live
              /\ p \in s.liveInverse => p \in r.liveInverse
              /\ ClearKept(s, r, p)
              /\ s.held[p] = 0 => r.held[p] = 0
              /\ IF p \in rows
                 THEN r.mark[p] = was[p] /\ (was[p] \in Marks => r.token[p] = r.last[p])
                 ELSE SameRow(s, r, p)
  <2> DEFINE q == row[p]
  <2>1. /\ q \in Managers /\ q.started = r.started /\ q.applied = r.applied /\ q.plan = r.plan
        /\ q.started = s.started /\ q.applied = s.applied /\ q.plan = s.plan
    BY <1>3, <1>6 DEF Grows
  <2>2. /\ r.mark[p] = q.mark[p] /\ r.token[p] = q.token[p] /\ r.last[p] = q.last[p]
        /\ r.clears[p] = q.clears[p] /\ r.held[p] = q.held[p]
        /\ p \in r.live <=> p \in q.live
        /\ p \in r.liveInverse <=> p \in q.liveInverse
    BY <1>6
  <2>3. p \in r.synthetic <=> p \in q.synthetic
    BY <1>1, <1>2, <1>6 DEF Written
  <2>4. SameRow(q, r, p)
    BY <2>2, <2>3 DEF SameRow
  <2>5. r.open => q.open \/ r.held[p] = 0
    BY <1>1, <1>2, <1>9 DEF Written, Touches
  <2>6. CASE p \in rows
    <3>1. Written(s, q, p, was[p])
      BY <1>1, <2>6
    <3> HIDE DEF q
    <3>2. RowSound(r, p) /\ (RowTracked(q, p) => RowTracked(r, p))
      BY <1>6, <2>1, <2>4, <2>5, <3>1, RowsKept DEF Written
    <3>3. ClearKept(s, r, p)
      BY <2>2, <3>1 DEF Written, ClearKept
    <3>4. s.held[p] = 0 => r.held[p] = 0
      BY <2>2, <3>1 DEF Written, Touches
    <3> QED  BY <2>2, <2>6, <3>1, <3>2, <3>3, <3>4 DEF Written
  <2>7. CASE p \notin rows
    <3>1. q = s
      BY <1>2, <2>7
    <3> HIDE DEF q
    <3>2. RowSound(r, p) /\ (RowTracked(q, p) => RowTracked(r, p))
      BY <1>6, <2>1, <2>4, <2>5, <3>1, RowsKept
    <3> QED  BY <2>2, <2>4, <2>7, <3>1, <3>2 DEF ClearKept
  <2> QED  BY <2>6, <2>7
<1> QED  BY <1>6, <1>8, <1>9, <1>10 DEF r

-----------------------------------------------------------------------------
(* A start *)

LEMMA PlanIs ==
    ASSUME config \in [Pairs -> Rows]
    PROVE  /\ Plan \subseteq Pairs
           /\ \A p \in Pairs : On(p) \in {"off", "byo", "feed"}
           /\ \A p \in Pairs : On(p) = "byo" => config[p] \in {"blank"} \cup Marks
           /\ \A p \in Pairs : config[p] \in {"blank"} \cup Marks => On(p) = "byo"
           /\ \A p \in Plan : On(Opposite[p]) = "off"
<1>1. \A p \in Pairs : config[p] \in Rows /\ Opposite[p] \in Pairs
  BY PairsAssumption
<1>2. {"absent", "off", "feed", "blank", "byo"} \cap Marks \subseteq {"byo"}
  BY PairsAssumption
<1>3. \A p \in Pairs : On(p) = IF config[p] = "feed" THEN "feed"
                              ELSE IF config[p] \in {"blank"} \cup Marks THEN "byo" ELSE "off"
  BY <1>1, <1>2 DEF On, Enabled, Source, IsManual, Rows
<1>4. Plan \subseteq Pairs /\ \A p \in Plan : config[Opposite[p]] = "absent"
  BY DEF Plan
<1> QED  BY <1>1, <1>2, <1>3, <1>4

LEMMA AppliedSound ==
    ASSUME NEW s \in Managers, config \in [Pairs -> Rows], s.run + 1 \in 0 .. MaxRuns,
           \A p \in Pairs : p \in s.liveInverse => p \in s.live
    PROVE  LET r == Applied(s) IN
           /\ r \in Managers /\ r.started /\ r.run = s.run + 1 /\ ~r.open
           /\ r.latest = s.latest /\ r.revision = s.revision
           /\ r.applied = [p \in Pairs |-> On(p)] /\ r.plan = Plan
           /\ \A p \in Pairs :
                  /\ RowSound(r, p) /\ RowTracked(r, p)
                  /\ r.last[p] >= s.last[p]
                  /\ r.mark[p] = IF On(p) = "byo" THEN config[p] ELSE "none"
                  /\ p \in s.live => p \in r.live
                  /\ p \in s.liveInverse => p \in r.liveInverse
<1> DEFINE byo == {p \in Pairs : On(p) = "byo"}
           fresh == [s EXCEPT
                        !.started = TRUE,
                        !.run = @ + 1,
                        !.applied = [p \in Pairs |-> On(p)],
                        !.mark = [p \in Pairs |-> IF p \in byo THEN config[p] ELSE "none"],
                        !.token = [p \in Pairs |-> IF p \in byo THEN s.last[p] + 1 ELSE 0],
                        !.last = [p \in Pairs |-> IF p \in byo THEN @[p] + 1 ELSE @[p]],
                        !.synthetic = Plan \cap byo,
                        !.plan = Plan,
                        !.open = FALSE]
           clears == Inherited(fresh, s)
           priced == {p \in byo : config[p] \in Marks}
           r == [fresh EXCEPT
                    !.clears = clears,
                    !.held = [p \in Pairs |-> clears[p].token],
                    !.last = [p \in Pairs |-> IF clears[p].token > @[p] THEN clears[p].token ELSE @[p]],
                    !.live = @ \cup priced,
                    !.liveInverse = @ \cup (priced \cap Plan)]
<1>1. Applied(s) = r
  BY Zenon DEF Applied
<1>2. /\ s.last \in [Pairs -> Nat] /\ s.live \subseteq Pairs /\ s.liveInverse \subseteq Pairs
      /\ "none" \notin Marks /\ "blank" \notin Marks
      /\ Plan \subseteq Pairs
      /\ \A p \in Pairs : On(p) \in {"off", "byo", "feed"}
      /\ \A p \in byo : config[p] \in {"blank"} \cup Marks
      /\ \A p \in Plan : On(Opposite[p]) = "off"
  BY PlanIs, PairsAssumption DEF Managers
<1>3. /\ byo \subseteq Pairs /\ priced \subseteq byo
      /\ \A p \in Pairs : p \in byo <=> On(p) = "byo"
      /\ \A p \in byo : p \in priced <=> config[p] \in Marks
  OBVIOUS
<1> HIDE DEF byo, priced
<1> DEFINE mark == [p \in Pairs |-> IF p \in byo THEN config[p] ELSE "none"]
           token == [p \in Pairs |-> IF p \in byo THEN s.last[p] + 1 ELSE 0]
           last == [p \in Pairs |-> IF p \in byo THEN s.last[p] + 1 ELSE s.last[p]]
           applied == [p \in Pairs |-> On(p)]
<1>4. /\ mark \in [Pairs -> {"none", "blank"} \cup Marks]
      /\ token \in [Pairs -> Nat] /\ last \in [Pairs -> Nat]
      /\ applied \in [Pairs -> {"off", "byo", "feed"}]
  BY <1>2, <1>3
<1>5. /\ fresh \in Managers
      /\ fresh.started /\ fresh.run = s.run + 1 /\ ~fresh.open
      /\ fresh.applied = applied /\ fresh.mark = mark /\ fresh.token = token
      /\ fresh.last = last /\ fresh.synthetic = Plan \cap byo /\ fresh.plan = Plan
      /\ fresh.live = s.live /\ fresh.liveInverse = s.liveInverse
      /\ fresh.latest = s.latest /\ fresh.revision = s.revision
  <2> HIDE DEF mark, token, applied
  <2>1. fresh = [s EXCEPT
                        !.started = TRUE,
                        !.run = @ + 1,
                        !.applied = applied,
                        !.mark = mark,
                        !.token = token,
                        !.last = [p \in Pairs |-> IF p \in byo THEN @[p] + 1 ELSE @[p]],
                        !.synthetic = Plan \cap byo,
                        !.plan = Plan,
                        !.open = FALSE]
    BY DEF mark, token, applied
  <2> HIDE DEF fresh
  <2> QED  BY <1>2, <1>3, <1>4, <2>1 DEF Managers
<1> HIDE DEF fresh
<1>6. \A p \in Pairs :
         /\ p \in byo => /\ fresh.mark[p] = config[p] /\ fresh.token[p] = s.last[p] + 1
                         /\ fresh.last[p] = s.last[p] + 1
         /\ p \notin byo => /\ fresh.mark[p] = "none" /\ fresh.token[p] = 0
                            /\ fresh.last[p] = s.last[p]
         /\ s.last[p] \in Nat
  <2>1. fresh.mark = mark /\ fresh.token = token /\ fresh.last = last
    BY <1>5
  <2>2. ASSUME NEW p \in Pairs
        PROVE  /\ p \in byo => mark[p] = config[p] /\ token[p] = s.last[p] + 1
                                   /\ last[p] = s.last[p] + 1
               /\ p \notin byo => mark[p] = "none" /\ token[p] = 0 /\ last[p] = s.last[p]
               /\ s.last[p] \in Nat
    BY <1>2
  <2> HIDE DEF mark, token, last, applied
  <2> QED  BY <2>1, <2>2
<1> HIDE DEF mark, token, last, applied
<1> DEFINE unwanted == {p \in s.live : fresh.mark[p] \notin Marks}
           derived == {p \in s.live \ unwanted :
                          p \in s.liveInverse /\ p \notin fresh.synthetic}
           clearOf(p) ==
               CASE p \in unwanted ->
                    [token |-> IF fresh.mark[p] = "none" THEN fresh.last[p] + 1 ELSE fresh.token[p],
                     direct |-> TRUE, inverse |-> p \in s.liveInverse]
                 [] p \in derived -> [token |-> fresh.token[p], direct |-> FALSE, inverse |-> TRUE]
                 [] OTHER -> NoClear
<1>7. clears = [p \in Pairs |-> clearOf(p)]
  BY Zenon DEF Inherited
<1> HIDE DEF clears
<1>8. ASSUME NEW p \in Pairs
      PROVE  /\ clears[p] \in ClearStates
             /\ p \in unwanted =>
                    /\ clears[p].token = s.last[p] + 1
                    /\ clears[p].direct /\ (clears[p].inverse <=> p \in s.liveInverse)
             /\ p \in derived =>
                    /\ clears[p].token = s.last[p] + 1
                    /\ ~clears[p].direct /\ clears[p].inverse
             /\ p \notin unwanted \cup derived => clears[p] = NoClear
  <2>1. CASE p \in unwanted
    <3> DEFINE i == p \in s.liveInverse
               k == IF fresh.mark[p] = "none" THEN fresh.last[p] + 1 ELSE fresh.token[p]
    <3>1. clears[p] = [token |-> k, direct |-> TRUE, inverse |-> i]
      BY <1>7, <2>1, Zenon
    <3>2. k = s.last[p] + 1 /\ k \in Nat /\ i \in BOOLEAN
      BY <1>2, <1>6, <1>3, <2>1
    <3> HIDE DEF i, k
    <3>3. /\ clears[p] \in ClearStates /\ clears[p].token = k /\ clears[p].direct
          /\ clears[p].inverse = i
      BY <3>1, <3>2 DEF ClearStates
    <3> QED  BY <2>1, <3>2, <3>3 DEF i
  <2>2. CASE p \in derived
    <3>1. clears[p] = [token |-> fresh.token[p], direct |-> FALSE, inverse |-> TRUE]
      BY <1>7, <2>2, Zenon
    <3>2. p \in byo
      BY <1>2, <1>6, <2>2
    <3> QED  BY <1>6, <2>2, <3>1, <3>2 DEF ClearStates
  <2>3. CASE p \notin unwanted \cup derived
    BY <1>7, <2>3 DEF ClearStates, NoClear
  <2> QED  BY <2>1, <2>2, <2>3
<1>9. \A p \in Pairs :
         /\ p \in unwanted <=> p \in s.live /\ fresh.mark[p] \notin Marks
         /\ p \in derived <=> /\ p \in s.live /\ p \in s.liveInverse
                              /\ fresh.mark[p] \in Marks /\ p \notin fresh.synthetic
  OBVIOUS
<1> HIDE DEF unwanted, derived, clearOf
<1> DEFINE held == [p \in Pairs |-> clears[p].token]
           final == [p \in Pairs |-> IF clears[p].token > fresh.last[p]
                                     THEN clears[p].token ELSE fresh.last[p]]
<1>10. /\ clears \in [Pairs -> ClearStates]
       /\ held \in [Pairs -> Nat] /\ final \in [Pairs -> Nat]
  <2>1. \A p \in Pairs : clears[p].token \in Nat /\ fresh.last[p] \in Nat
    BY <1>5, <1>8 DEF ClearStates, Managers
  <2> QED  BY <1>7, <1>8, <2>1
<1>11. /\ r \in Managers
       /\ r.started /\ r.run = s.run + 1 /\ ~r.open
       /\ r.applied = fresh.applied /\ r.mark = fresh.mark /\ r.token = fresh.token
       /\ r.last = final /\ r.synthetic = fresh.synthetic /\ r.plan = Plan
       /\ r.clears = clears /\ r.held = held
       /\ r.live = s.live \cup priced /\ r.liveInverse = s.liveInverse \cup (priced \cap Plan)
       /\ r.latest = s.latest /\ r.revision = s.revision
  <2>1. r = [fresh EXCEPT
                    !.clears = clears,
                    !.held = held,
                    !.last = [p \in Pairs |-> IF clears[p].token > @[p] THEN clears[p].token ELSE @[p]],
                    !.live = @ \cup priced,
                    !.liveInverse = @ \cup (priced \cap Plan)]
    BY DEF held
  <2> HIDE DEF r, held
  <2> QED  BY <1>2, <1>3, <1>5, <1>10, <2>1 DEF Managers
<1> HIDE DEF r
<1>12. ASSUME NEW p \in Pairs
       PROVE  /\ RowSound(r, p) /\ RowTracked(r, p)
              /\ r.last[p] >= s.last[p]
              /\ r.mark[p] = IF On(p) = "byo" THEN config[p] ELSE "none"
              /\ p \in s.live => p \in r.live
              /\ p \in s.liveInverse => p \in r.liveInverse
  <2>1. /\ ~NoClear.direct /\ ~NoClear.inverse /\ NoClear.token = 0
    BY DEF NoClear
  <2>2. /\ r.last[p] = IF clears[p].token > fresh.last[p] THEN clears[p].token ELSE fresh.last[p]
        /\ r.held[p] = clears[p].token /\ r.clears[p] = clears[p]
        /\ r.mark[p] = fresh.mark[p] /\ r.token[p] = fresh.token[p]
        /\ p \in r.synthetic <=> p \in Plan /\ p \in byo
        /\ p \in fresh.synthetic <=> p \in Plan /\ p \in byo
        /\ r.applied[p] = On(p) /\ r.applied[Opposite[p]] = On(Opposite[p])
        /\ p \in r.live <=> p \in s.live \/ p \in priced
        /\ p \in r.liveInverse <=> p \in s.liveInverse \/ (p \in priced /\ p \in Plan)
    BY <1>5, <1>11, PairsAssumption DEF applied
  <2>3. /\ p \in priced <=> fresh.mark[p] \in Marks
        /\ p \in priced => p \in byo
        /\ p \in byo <=> On(p) = "byo"
        /\ fresh.mark[p] # "none" => p \in byo
        /\ p \in byo => fresh.mark[p] = config[p] /\ fresh.mark[p] # "none"
    BY <1>2, <1>3, <1>6
  <2>4. RowTokens(r, p)
    BY <1>6, <1>8, <1>9, <1>11, <2>1, <2>2, <2>3 DEF RowTokens
  <2>5. RowSound(r, p)
    BY <1>2, <1>6, <1>8, <1>9, <1>11, <2>1, <2>2, <2>3, <2>4 DEF RowSound
  <2>6. RowTracked(r, p)
    BY <1>2, <1>6, <1>8, <1>9, <1>11, <2>1, <2>2, <2>3 DEF RowTracked
  <2>7. r.last[p] >= s.last[p]
    BY <1>6, <1>8, <1>9, <2>1, <2>2
  <2> QED  BY <1>6, <2>2, <2>3, <2>5, <2>6, <2>7
<1> QED  BY <1>1, <1>5, <1>11, <1>12 DEF applied

-----------------------------------------------------------------------------
(* The remaining changes of the manager *)

\* The rows of every pair as they were.
SameRows(s, r) ==
    /\ Grows(s, r)
    /\ \A p \in Pairs : SameRow(s, r, p)
    /\ r.open = s.open

LEMMA PutLatest ==
    ASSUME NEW s \in Managers, NEW l \in SUBSET ({"byo", "feed"} \X Pairs)
    PROVE  LET r == [s EXCEPT !.latest = l] IN
           SameRows(s, r) /\ r.latest = l /\ r.revision = s.revision
<1> DEFINE r == [s EXCEPT !.latest = l]
<1>1. /\ r \in Managers
      /\ r.started = s.started /\ r.run = s.run /\ r.applied = s.applied
      /\ r.plan = s.plan /\ r.open = s.open /\ r.held = s.held
      /\ r.mark = s.mark /\ r.token = s.token /\ r.last = s.last
      /\ r.clears = s.clears /\ r.synthetic = s.synthetic
      /\ r.live = s.live /\ r.liveInverse = s.liveInverse
      /\ r.revision = s.revision /\ r.latest = l
  BY DEF Managers
<1> HIDE DEF r
<1>2. Grows(s, r)
  BY <1>1, KeepsTokens
<1> QED  BY <1>1, <1>2 DEF SameRows, SameRow, r

LEMMA NextRevision ==
    ASSUME NEW s \in Managers
    PROVE  LET r == [s EXCEPT !.revision = @ + 1] IN
           /\ SameRows(s, r) /\ r.latest = s.latest /\ r.revision = s.revision + 1
           /\ r.token = s.token /\ r.clears = s.clears /\ r.live = s.live
           /\ r.liveInverse = s.liveInverse /\ r.synthetic = s.synthetic
<1> DEFINE r == [s EXCEPT !.revision = @ + 1]
<1>1. /\ r \in Managers
      /\ r.started = s.started /\ r.run = s.run /\ r.applied = s.applied
      /\ r.plan = s.plan /\ r.open = s.open /\ r.held = s.held
      /\ r.mark = s.mark /\ r.token = s.token /\ r.last = s.last
      /\ r.clears = s.clears /\ r.synthetic = s.synthetic
      /\ r.live = s.live /\ r.liveInverse = s.liveInverse
      /\ r.revision = s.revision + 1 /\ r.latest = s.latest
  BY DEF Managers
<1> HIDE DEF r
<1>2. Grows(s, r)
  BY <1>1, KeepsTokens
<1> QED  BY <1>1, <1>2 DEF SameRows, SameRow, r

LEMMA OpenSound ==
    ASSUME NEW s \in Managers, \A p \in Pairs : RowSound(s, p),
           \A p \in Pairs : s.held[p] = 0
    PROVE  LET r == [s EXCEPT !.open = TRUE] IN
           /\ Grows(s, r) /\ r.open /\ r.latest = s.latest /\ r.revision = s.revision
           /\ \A p \in Pairs : /\ SameRow(s, r, p)
                               /\ RowSound(r, p)
                               /\ RowTracked(s, p) => RowTracked(r, p)
<1> DEFINE r == [s EXCEPT !.open = TRUE]
<1>1. /\ r \in Managers
      /\ r.started = s.started /\ r.run = s.run /\ r.applied = s.applied
      /\ r.plan = s.plan /\ r.open /\ r.held = s.held
      /\ r.mark = s.mark /\ r.token = s.token /\ r.last = s.last
      /\ r.clears = s.clears /\ r.synthetic = s.synthetic
      /\ r.live = s.live /\ r.liveInverse = s.liveInverse
      /\ r.revision = s.revision /\ r.latest = s.latest
  BY DEF Managers
<1> HIDE DEF r
<1>2. Grows(s, r)
  BY <1>1, KeepsTokens
<1>3. \A p \in Pairs : SameRow(s, r, p)
  BY <1>1 DEF SameRow
<1>4. \A p \in Pairs : r.held[p] = 0
  BY <1>1
<1> QED  BY <1>1, <1>2, <1>3, <1>4, RowsKept DEF r

LEMMA StopSound ==
    ASSUME NEW s \in Managers
    PROVE  LET r == [s EXCEPT !.started = FALSE] IN
           /\ r \in Managers /\ ~r.started /\ r.run = s.run /\ r.applied = s.applied
           /\ r.plan = s.plan /\ r.open = s.open /\ r.last = s.last
           /\ r.latest = s.latest /\ r.revision = s.revision
           /\ r.live = s.live /\ r.liveInverse = s.liveInverse
           /\ r.clears = s.clears /\ r.mark = s.mark
           /\ \A p \in Pairs : /\ RowSound(s, p) => RowSound(r, p)
                               /\ RowTracked(s, p) => RowTracked(r, p)
<1> DEFINE r == [s EXCEPT !.started = FALSE]
<1>1. /\ r \in Managers
      /\ ~r.started /\ r.run = s.run /\ r.applied = s.applied
      /\ r.plan = s.plan /\ r.open = s.open /\ r.held = s.held
      /\ r.mark = s.mark /\ r.token = s.token /\ r.last = s.last
      /\ r.clears = s.clears /\ r.synthetic = s.synthetic
      /\ r.live = s.live /\ r.liveInverse = s.liveInverse
      /\ r.revision = s.revision /\ r.latest = s.latest
  BY DEF Managers
<1> HIDE DEF r
<1>2. \A p \in Pairs : RowSound(s, p) => RowSound(r, p)
  BY <1>1 DEF RowSound, RowTokens
<1>3. \A p \in Pairs : RowTracked(s, p) => RowTracked(r, p)
  BY <1>1 DEF RowTracked
<1> QED  BY <1>1, <1>2, <1>3 DEF r

LEMMA NoStateSound ==
    ASSUME NEW s \in Managers, ~s.started
    PROVE  LET r == NoState(s) IN
           /\ r \in Managers /\ ~r.started /\ r.run = s.run
           /\ r.plan = s.plan /\ r.open /\ r.last = s.last /\ r.latest = s.latest
           /\ r.live = s.live /\ r.liveInverse = s.liveInverse
           /\ \A p \in Pairs : r.clears[p] = NoClear /\ r.mark[p] = "none"
           /\ \A p \in Pairs : /\ RowSound(s, p) => RowSound(r, p)
                               /\ RowTracked(r, p)
<1> DEFINE r == NoState(s)
<1>1. NoClear \in ClearStates /\ ~NoClear.direct /\ ~NoClear.inverse /\ NoClear.token = 0
  BY DEF NoClear, ClearStates
<1>2. r = [s EXCEPT !.applied = [p \in Pairs |-> "off"],
              !.mark = [p \in Pairs |-> "none"],
              !.token = [p \in Pairs |-> 0],
              !.synthetic = {},
              !.revision = 0,
              !.clears = [p \in Pairs |-> NoClear],
              !.held = [p \in Pairs |-> 0],
              !.open = TRUE]
  BY DEF NoState
<1> HIDE DEF r
<1>3. /\ r \in Managers
      /\ r.started = s.started /\ r.run = s.run /\ r.applied = [p \in Pairs |-> "off"]
      /\ r.plan = s.plan /\ r.open /\ r.held = [p \in Pairs |-> 0]
      /\ r.mark = [p \in Pairs |-> "none"] /\ r.token = [p \in Pairs |-> 0] /\ r.last = s.last
      /\ r.clears = [p \in Pairs |-> NoClear] /\ r.synthetic = {}
      /\ r.live = s.live /\ r.liveInverse = s.liveInverse
      /\ r.latest = s.latest
  BY <1>1, <1>2 DEF Managers
<1>4. \A p \in Pairs : /\ r.applied[p] = "off" /\ r.mark[p] = "none" /\ r.token[p] = 0
                       /\ r.clears[p] = NoClear /\ r.held[p] = 0 /\ r.last[p] \in Nat
  <2>1. s.last \in [Pairs -> Nat]
    BY DEF Managers
  <2> QED  BY <1>3, <2>1
<1>5. "none" \notin Marks
  BY PairsAssumption
<1>6. ASSUME NEW p \in Pairs PROVE RowTokens(r, p)
  BY <1>1, <1>4, <1>5 DEF RowTokens
<1>7. \A p \in Pairs : RowSound(s, p) => RowSound(r, p)
  BY <1>1, <1>3, <1>4, <1>5, <1>6 DEF RowSound
<1>8. \A p \in Pairs : RowTracked(r, p)
  BY <1>3, <1>4, <1>5 DEF RowTracked
<1> QED  BY <1>3, <1>4, <1>7, <1>8 DEF r

\* A mark that reached the engine is live, and its inverse with it.
LEMMA AcknowledgeSound ==
    ASSUME NEW s \in Managers, NEW p \in Pairs, NEW inverse \in BOOLEAN,
           RowSound(s, p), s.mark[p] \in Marks, inverse => p \in s.plan
    PROVE  LET r == [s EXCEPT
                        !.live = @ \cup {p},
                        !.liveInverse = IF inverse THEN @ \cup {p} ELSE @]
           IN
           /\ Touches(s, r, p) /\ RowSound(r, p)
           /\ RowTracked(s, p) => RowTracked(r, p)
           /\ r.clears = s.clears /\ r.mark = s.mark
           /\ s.live \subseteq r.live /\ s.liveInverse \subseteq r.liveInverse
<1> DEFINE r == [s EXCEPT
                    !.live = @ \cup {p},
                    !.liveInverse = IF inverse THEN @ \cup {p} ELSE @]
<1>0. "none" \notin Marks
  BY PairsAssumption
<1>1. /\ r \in Managers
      /\ r.started = s.started /\ r.run = s.run /\ r.applied = s.applied
      /\ r.plan = s.plan /\ r.open = s.open /\ r.held = s.held
      /\ r.mark = s.mark /\ r.token = s.token /\ r.last = s.last
      /\ r.clears = s.clears /\ r.synthetic = s.synthetic
      /\ r.live = s.live \cup {p}
      /\ r.liveInverse = IF inverse THEN s.liveInverse \cup {p} ELSE s.liveInverse
      /\ r.revision = s.revision /\ r.latest = s.latest
  BY DEF Managers
<1> HIDE DEF r
<1>2. Grows(s, r)
  BY <1>1, KeepsTokens
<1>3. Touches(s, r, p)
  BY <1>1, <1>2 DEF Touches, SameRow
<1>4. RowTokens(r, p)
  BY <1>1 DEF RowSound, RowTokens
<1>5. ~s.clears[p].direct
  BY DEF RowSound, RowTokens
<1>6. RowSound(r, p)
  BY <1>0, <1>1, <1>4, <1>5 DEF RowSound
<1>7. RowTracked(s, p) => RowTracked(r, p)
  BY <1>0, <1>1 DEF RowTracked
<1> QED  BY <1>1, <1>3, <1>6, <1>7 DEF r

-----------------------------------------------------------------------------
(* What every step makes of the manager                                      *)

Sound == \A p \in Pairs : RowSound(mgr, p)
RowsTracked == \A p \in Pairs \ retired : RowTracked(mgr, p)

\* A goroutine in a call of the engine: its update is that of the manager, or
\* has a token that the manager has replaced.
InFlight ==
    \A w \in Workers : LET u == hand[w] p == hand[w].pair IN
        pc[w] \in InSink =>
            /\ u.mark # "feed" => u.token <= mgr.last[p]
            /\ w[1] \in {"drain", "feed"} => mgr.open
            /\ pc[w] \in {"clear", "cleared"} =>
                   /\ u.direct \/ u.inverse
                   /\ p \notin retired /\ mgr.clears[p].token = u.token =>
                          mgr.clears[p].direct = u.direct /\ mgr.clears[p].inverse = u.inverse
            /\ pc[w] = "sink" /\ u.mark \in Marks /\ p \notin retired =>
                   p \in mgr.live /\ (p \in mgr.plan => p \in mgr.liveInverse)
            /\ pc[w] = "acknowledge" /\ u.inverse => p \in mgr.plan

MgrNext ==
    /\ mgr' \in Managers
    /\ Sound' /\ RowsTracked'
    /\ \A p \in Pairs : mgr'.last[p] >= mgr.last[p]

LEMMA RowsUnchanged ==
    ASSUME mgr' = mgr, retired' = retired, mgr \in Managers, Sound, RowsTracked
    PROVE  MgrNext /\ Grows(mgr, mgr')
<1>1. Grows(mgr, mgr')
  BY KeepsTokens
<1> QED  BY <1>1 DEF MgrNext, Sound, RowsTracked, Grows

\* A step that touches the row of one pair.
LEMMA RowTouched ==
    ASSUME mgr \in Managers, Sound, RowsTracked, NEW p \in Pairs,
           Touches(mgr, mgr', p), RowSound(mgr', p),
           retired' = retired \/ retired' = retired \cup {p},
           p \in retired' \/ RowTracked(mgr', p)
    PROVE  MgrNext /\ Grows(mgr, mgr')
<1>1. Grows(mgr, mgr')
  BY DEF Touches
<1>2. ASSUME NEW q \in Pairs \ {p}
      PROVE  /\ RowSound(mgr', q)
             /\ RowTracked(mgr, q) => RowTracked(mgr', q)
  <2>1. /\ SameRow(mgr, mgr', q) /\ mgr' \in Managers
        /\ mgr'.started = mgr.started /\ mgr'.applied = mgr.applied /\ mgr'.plan = mgr.plan
        /\ mgr'.open => mgr.open \/ mgr'.held[q] = 0
    BY <1>1 DEF Touches, Grows
  <2> DEFINE s == mgr r == mgr'
  <2> HIDE DEF s, r
  <2>2. /\ SameRow(s, r, q) /\ s \in Managers /\ r \in Managers
        /\ r.started = s.started /\ r.applied = s.applied /\ r.plan = s.plan
        /\ r.open => s.open \/ r.held[q] = 0
    BY <2>1 DEF s, r
  <2>3. /\ RowSound(s, q) => RowSound(r, q)
        /\ RowTracked(s, q) => RowTracked(r, q)
    BY <2>2, RowsKept
  <2> QED  BY <2>3 DEF s, r, Sound
<1>3. Sound'
  BY <1>2 DEF Sound
<1>4. RowsTracked'
  BY <1>2 DEF RowsTracked
<1> QED  BY <1>1, <1>3, <1>4 DEF MgrNext, Grows

\* A step that keeps every row.
LEMMA RowsSame ==
    ASSUME mgr \in Managers, Sound, RowsTracked, retired' = retired, SameRows(mgr, mgr')
    PROVE  MgrNext /\ Grows(mgr, mgr')
<1> DEFINE s == mgr r == mgr'
<1>1. SameRows(s, r) /\ s \in Managers
  OBVIOUS
<1> HIDE DEF s, r
<1>2. /\ Grows(s, r) /\ r \in Managers
      /\ r.started = s.started /\ r.applied = s.applied /\ r.plan = s.plan
      /\ r.open = s.open
  BY <1>1 DEF SameRows, Grows
<1>3. \A q \in Pairs :
          /\ RowSound(s, q) => RowSound(r, q)
          /\ RowTracked(s, q) => RowTracked(r, q)
  BY <1>1, <1>2, RowsKept DEF SameRows
<1>4. Sound' /\ RowsTracked'
  BY <1>3 DEF s, r, Sound, RowsTracked
<1> QED  BY <1>2, <1>4 DEF s, r, MgrNext, Grows

\* What a step does to the marks that the manager tracks.
LiveKept ==
    \A p \in Pairs \ retired' :
        /\ p \in mgr.live => p \in mgr'.live
        /\ p \in mgr.liveInverse => p \in mgr'.liveInverse

\* What a step may do while a goroutine is in a call of the engine.
FlightKept ==
    /\ mgr.open => mgr'.open
    /\ mgr'.plan = mgr.plan
    /\ \A p \in Pairs \ retired' : ClearKept(mgr, mgr', p)

Before == Structure /\ Sound /\ RowsTracked /\ InFlight

LEMMA InHand ==
    ASSUME Before, NEW w \in Procs, pc[w] \in InSink
    PROVE  /\ w \in Workers /\ w[2] = mgr.run
           /\ hand[w] \in Updates /\ hand[w].pair \in Pairs /\ hand[w].run = mgr.run
           /\ IF w[1] = "feed" THEN hand[w].mark = "feed"
              ELSE Manual(hand[w], mgr.run)
           /\ pc[w] \in {"sink", "acknowledge"} => ~IsClear(hand[w]) /\ w[1] \in {"drain", "feed"}
           /\ pc[w] \in {"clear", "cleared", "acknowledge"} => w[1] # "feed"
           /\ pc[w] \in {"clear", "cleared"} => IsClear(hand[w]) /\ hand[w].token >= 1
<1>1. /\ w \in Workers
      /\ Fits(w, pc[w], hand[w], todo[w])
      /\ w[2] = mgr.run
      /\ hand[w] \in Updates
      /\ w[1] \in Roles
  <2>1. w # caller
    BY DEF Before, Structure, Hands, CallerFits, StepsOf, InSink
  <2> QED  BY <2>1, ProcsAre DEF Before, Structure, Hands, RunsInTurn, Control
<1>2. w[1] = "feed" => pc[w] \notin {"clear", "cleared", "acknowledge"}
  BY <1>1 DEF Fits, StepsOf
<1>3. pc[w] \in {"sink", "acknowledge"} => w[1] \in {"drain", "feed"}
  BY <1>1 DEF Fits, StepsOf, Roles
<1> QED  BY <1>1, <1>2, <1>3 DEF Fits, Offered, Manual

LEMMA PushManager ==
    ASSUME Before, NEW w \in Procs, Push(w)
    PROVE  MgrNext /\ Grows(mgr, mgr') /\ LiveKept /\ FlightKept
<1>1. mgr \in Managers /\ Sound /\ RowsTracked /\ retired' = retired
  BY DEF Before, Structure, Data, Push
<1>2. CASE mgr' = mgr
  BY <1>1, <1>2, RowsUnchanged DEF LiveKept, FlightKept, ClearKept
<1>3. CASE mgr' = [mgr EXCEPT !.latest = mgr.latest \cup {<<Source(hand[w].mark), hand[w].pair>>}]
  <2> DEFINE l == mgr.latest \cup {<<Source(hand[w].mark), hand[w].pair>>}
  <2>1. hand[w].pair \in Pairs
    BY InHand DEF Push, InSink
  <2>2. l \in SUBSET ({"byo", "feed"} \X Pairs)
    BY <1>1, <2>1 DEF Managers, Source
  <2>3. mgr' = [mgr EXCEPT !.latest = l]
    BY <1>3
  <2> HIDE DEF l
  <2>4. SameRows(mgr, mgr')
    BY <1>1, <2>2, <2>3, PutLatest
  <2>5. MgrNext /\ Grows(mgr, mgr')
    BY <1>1, <2>4, RowsSame
  <2> QED  BY <2>4, <2>5 DEF LiveKept, FlightKept, ClearKept, SameRows, SameRow, Grows
<1> QED  BY <1>2, <1>3, Zenon DEF Push

LEMMA AcknowledgeManager ==
    ASSUME Before, NEW w \in Procs, Acknowledge(w)
    PROVE  MgrNext /\ Grows(mgr, mgr') /\ LiveKept /\ FlightKept
<1> DEFINE u == hand[w]  p == hand[w].pair  i == hand[w].inverse
<1>1. mgr \in Managers /\ Sound /\ RowsTracked /\ retired' = retired
  BY DEF Before, Structure, Data, Acknowledge, history
<1>2. CASE mgr' = mgr
  BY <1>1, <1>2, RowsUnchanged DEF LiveKept, FlightKept, ClearKept
<1>3. CASE /\ IsCurrent(hand[w])
           /\ mgr' = [mgr EXCEPT !.live = mgr.live \cup {p},
                                 !.liveInverse = IF i THEN mgr.liveInverse \cup {p}
                                                 ELSE mgr.liveInverse]
  <2>1. /\ p \in Pairs /\ i \in BOOLEAN /\ hand[w].mark \in Marks
        /\ i => p \in mgr.plan
    <3>1. pc[w] = "acknowledge" /\ w \in Workers
      BY InHand DEF Acknowledge, InSink
    <3>2. hand[w].mark \in {"blank"} \cup Marks /\ ~IsClear(hand[w])
      BY <3>1, InHand DEF InSink, Manual
    <3> QED  BY <3>1, <3>2, InHand DEF InSink, IsClear, Updates, Before, InFlight
  <2>2. mgr.mark[p] \in Marks /\ RowSound(mgr, p)
    <3>1. hand[w].mark # "feed"
      BY <2>1, PairsAssumption
    <3> QED  BY <1>1, <1>3, <2>1, <3>1 DEF IsCurrent, Sound
  <2> HIDE DEF p, i
  <2>3. /\ Touches(mgr, mgr', p) /\ RowSound(mgr', p)
        /\ RowTracked(mgr, p) => RowTracked(mgr', p)
        /\ mgr'.clears = mgr.clears
        /\ mgr.live \subseteq mgr'.live /\ mgr.liveInverse \subseteq mgr'.liveInverse
    BY <1>1, <1>3, <2>1, <2>2, AcknowledgeSound, ZenonT(60)
  <2>4. MgrNext /\ Grows(mgr, mgr')
    BY <1>1, <2>1, <2>3, RowTouched DEF RowsTracked
  <2> QED  BY <2>3, <2>4 DEF LiveKept, FlightKept, ClearKept, Touches, Grows
<1> QED  BY <1>2, <1>3, Zenon DEF Acknowledge

LEMMA ClearEngineManager ==
    ASSUME Before, NEW w \in Procs, ClearEngine(w)
    PROVE  MgrNext /\ Grows(mgr, mgr') /\ LiveKept /\ FlightKept
<1> DEFINE p == hand[w].pair
<1>1. mgr \in Managers /\ Sound /\ RowsTracked
  BY DEF Before, Structure, Data
<1>2. CASE mgr' = mgr /\ retired' = retired
  BY <1>1, <1>2, RowsUnchanged DEF LiveKept, FlightKept, ClearKept
<1>3. CASE mgr' = Retire(mgr, p) /\ retired' = retired \cup {p}
  <2>1. p \in Pairs
    BY InHand DEF ClearEngine, InSink
  <2> HIDE DEF p
  <2>2. Touches(mgr, mgr', p) /\ RowSound(mgr', p)
    BY <1>1, <1>3, <2>1, RetireSound DEF Sound
  <2>3. MgrNext /\ Grows(mgr, mgr')
    BY <1>1, <1>3, <2>1, <2>2, RowTouched
  <2>4. \A q \in Pairs \ retired' : SameRow(mgr, mgr', q)
    BY <1>3, <2>2 DEF Touches
  <2> QED  BY <2>2, <2>3, <2>4 DEF LiveKept, FlightKept, ClearKept, Touches, Grows, SameRow
<1> QED  BY <1>2, <1>3, Zenon DEF ClearEngine

LEMMA CompleteManager ==
    ASSUME Before, NEW w \in Procs, CompleteClear(w)
    PROVE  MgrNext /\ Grows(mgr, mgr') /\ FlightKept
<1> DEFINE u == hand[w] p == hand[w].pair
<1>1. mgr \in Managers /\ Sound /\ RowsTracked /\ retired' = retired
  BY DEF Before, Structure, Data, CompleteClear, history
<1>2. /\ w \in Workers /\ pc[w] = "cleared"
      /\ u \in Updates /\ p \in Pairs /\ u.run = mgr.run /\ u.token >= 1
      /\ mgr' = Complete(mgr, u)
  BY InHand DEF CompleteClear, InSink
<1>3. CASE mgr.clears[p].token # u.token
  <2>1. mgr' = mgr
    BY <1>2, <1>3, Zenon DEF Complete
  <2> QED  BY <1>1, <2>1, RowsUnchanged DEF FlightKept, ClearKept
<1>4. CASE mgr.clears[p].token = u.token
  <2>1. /\ Touches(mgr, mgr', p) /\ RowSound(mgr', p)
        /\ u.direct = mgr.clears[p].direct /\ RowTracked(mgr, p) => RowTracked(mgr', p)
        /\ mgr'.clears[p] = NoClear
    <3>1. /\ u \in Updates /\ u.pair \in Pairs /\ RowSound(mgr, u.pair) /\ u.token >= 1
          /\ mgr.clears[u.pair].token = u.token /\ u.run = mgr.run /\ mgr \in Managers
          /\ mgr' = Complete(mgr, u)
      BY <1>1, <1>2, <1>4 DEF Sound
    <3> HIDE DEF u
    <3>2. CompletedSound(mgr, u, mgr')
      BY <3>1, CompleteSound
    <3> QED  BY <3>2 DEF CompletedSound, p, u
  <2>2. p \in retired \/ RowTracked(mgr', p)
    BY <1>1, <1>2, <1>4, <2>1 DEF Before, InFlight, InSink, RowsTracked
  <2> HIDE DEF p
  <2>3. MgrNext /\ Grows(mgr, mgr')
    BY <1>1, <1>2, <2>1, <2>2, RowTouched
  <2> QED  BY <2>1, <2>3 DEF FlightKept, ClearKept, Touches, Grows, SameRow
<1> QED  BY <1>3, <1>4

LEMMA BarrierManager ==
    ASSUME Before, NEW w \in Procs, BeginStartup(w) \/ StartupClears(w)
    PROVE  MgrNext /\ Grows(mgr, mgr') /\ LiveKept /\ FlightKept
<1>1. mgr \in Managers /\ Sound /\ RowsTracked /\ retired' = retired
  BY DEF Before, Structure, Data, BeginStartup, StartupClears, history
<1>2. CASE mgr' = mgr
  BY <1>1, <1>2, RowsUnchanged DEF LiveKept, FlightKept, ClearKept
<1>3. CASE mgr' = [mgr EXCEPT !.open = TRUE] /\ \A p \in Pairs : mgr.held[p] = 0
  <2> DEFINE s == mgr r == mgr'
  <2>1. s \in Managers /\ (\A p \in Pairs : RowSound(s, p))
        /\ (\A p \in Pairs : s.held[p] = 0) /\ r = [s EXCEPT !.open = TRUE]
    BY <1>1, <1>3 DEF Sound
  <2> HIDE DEF s, r
  <2>2. /\ Grows(s, r) /\ r.open
        /\ \A p \in Pairs : /\ SameRow(s, r, p)
                            /\ RowSound(r, p)
                            /\ RowTracked(s, p) => RowTracked(r, p)
    BY <2>1, OpenSound
  <2>3. MgrNext /\ Grows(mgr, mgr')
    BY <1>1, <2>2 DEF MgrNext, Sound, RowsTracked, Grows, s, r
  <2>4. \A p \in Pairs : SameRow(mgr, mgr', p)
    BY <2>2 DEF s, r
  <2>5. mgr'.open
    BY <2>2 DEF r
  <2> QED  BY <2>3, <2>4, <2>5 DEF LiveKept, FlightKept, ClearKept, SameRow, Grows
<1>4. mgr' = mgr \/ (mgr' = [mgr EXCEPT !.open = TRUE] /\ \A p \in Pairs : mgr.held[p] = 0)
  BY Zenon DEF BeginStartup, StartupClears, ReleaseBarrier, ClearNext
<1> QED  BY <1>2, <1>3, <1>4

LEMMA PushManualManager ==
    ASSUME Before, PushManual
    PROVE  MgrNext /\ Grows(mgr, mgr') /\ LiveKept /\ FlightKept
<1> DEFINE p == hand[caller].pair
           row == hand[caller].mark
           n == IF row = "blank" THEN WantClear(mgr, p) ELSE WantMark(NewToken(mgr, p), p, row)
<1>1. mgr \in Managers /\ Sound /\ RowsTracked /\ retired' = retired
  BY DEF Before, Structure, Data, PushManual, history
<1>2. p \in Pairs /\ row \in {"blank"} \cup Marks
  BY DEF Before, Structure, Hands, CallerFits, PushManual
<1>3. CASE mgr' = mgr
  BY <1>1, <1>3, RowsUnchanged DEF LiveKept, FlightKept, ClearKept
<1>4. CASE mgr.applied[p] = "byo" /\ mgr' = [n EXCEPT !.revision = @ + 1]
  <2>1. RowSound(mgr, p)
    BY <1>1, <1>2 DEF Sound
  <2> HIDE DEF p, row, n
  <2>2. /\ Touches(mgr, n, p) /\ RowSound(n, p)
        /\ RowTracked(mgr, p) => RowTracked(n, p)
        /\ mgr.live \subseteq n.live /\ mgr.liveInverse \subseteq n.liveInverse
        /\ ClearKept(mgr, n, p)
    <3>1. CASE row = "blank"
      <4>1. n = WantClear(mgr, p)
        BY <3>1 DEF n
      <4>2. /\ Touches(mgr, n, p) /\ RowSound(n, p)
            /\ RowTracked(mgr, p) => RowTracked(n, p)
            /\ n.last[p] = mgr.last[p] + 1 /\ n.clears[p].token = n.last[p]
            /\ mgr.live \subseteq n.live /\ mgr.liveInverse \subseteq n.liveInverse
        BY <1>1, <1>2, <1>4, <2>1, <4>1, WantClearSound
      <4>3. n.clears[p].token > mgr.last[p]
        BY <1>1, <1>2, <4>2 DEF Managers
      <4> QED  BY <4>2, <4>3 DEF ClearKept
    <3>2. CASE row # "blank"
      <4>1. n = WantMark(NewToken(mgr, p), p, row) /\ row \in Marks
        BY <1>2, <3>2 DEF n
      <4> DEFINE t == NewToken(mgr, p)
      <4> HIDE DEF t
      <4>2. LET r == WantMark(t, p, row) c == mgr.clears[p] IN
            /\ Touches(mgr, r, p) /\ RowSound(r, p)
            /\ RowTracked(mgr, p) => RowTracked(r, p)
            /\ mgr.live \subseteq r.live /\ mgr.liveInverse \subseteq r.liveInverse
            /\ \/ r.clears[p] = NoClear
               \/ /\ r.clears[p].token = c.token
                  /\ c.inverse /\ p \notin mgr.synthetic
        <5>1. t = NewToken(mgr, p) \/ (t = mgr /\ mgr.mark[p] = row)
          BY DEF t
        <5> QED  BY <1>1, <1>2, <1>4, <2>1, <4>1, <5>1, WantMarkSound
      <4> QED  BY <4>1, <4>2 DEF ClearKept, t
    <3> QED  BY <3>1, <3>2
  <2> DEFINE r == mgr'
  <2>3. n \in Managers /\ r = [n EXCEPT !.revision = @ + 1]
    BY <1>4, <2>2 DEF Touches, Grows
  <2>4. SameRows(n, r)
    <3> HIDE DEF r
    <3> QED  BY <2>3, NextRevision
  <2>5. /\ Grows(mgr, r) /\ r \in Managers
        /\ \A q \in Pairs : SameRow(n, r, q)
    <3> HIDE DEF r
    <3>1. Grows(mgr, n) /\ Grows(n, r)
      BY <2>2, <2>4 DEF SameRows, Touches
    <3>2. Grows(mgr, r)
      BY <1>1, <3>1, GrowsTwice
    <3> QED  BY <2>4, <3>1, <3>2 DEF SameRows, Grows
  <2>6. \A q \in Pairs : /\ RowSound(n, q) => RowSound(r, q)
                         /\ RowTracked(n, q) => RowTracked(r, q)
    <3> HIDE DEF r
    <3>1. r.open = n.open /\ r.started = n.started /\ r.applied = n.applied /\ r.plan = n.plan
      BY <2>4 DEF SameRows, Grows
    <3> QED  BY <2>3, <2>5, <3>1, RowsKept
  <2>7. \A q \in Pairs : /\ RowSound(n, q)
                         /\ RowTracked(mgr, q) => RowTracked(n, q)
    <3> SUFFICES ASSUME NEW q \in Pairs, q # p
                 PROVE  RowSound(n, q) /\ (RowTracked(mgr, q) => RowTracked(n, q))
      BY <2>2
    <3> DEFINE s == mgr
    <3> HIDE DEF s
    <3>1. /\ SameRow(s, n, q) /\ s \in Managers /\ RowSound(s, q)
          /\ n.started = s.started /\ n.applied = s.applied /\ n.plan = s.plan
          /\ n.open => s.open \/ n.held[q] = 0
      BY <1>1, <2>2 DEF Touches, Grows, s, Sound
    <3>2. RowSound(n, q) /\ (RowTracked(s, q) => RowTracked(n, q))
      BY <2>3, <3>1, RowsKept
    <3> QED  BY <3>2 DEF s
  <2>8. MgrNext
    BY <1>1, <2>5, <2>6, <2>7 DEF MgrNext, Sound, RowsTracked, Grows
  <2>9. LiveKept
    BY <2>2, <2>5 DEF LiveKept, SameRow
  <2>10. \A q \in Pairs : ClearKept(mgr, n, q)
    <3> SUFFICES ASSUME NEW q \in Pairs, q # p PROVE ClearKept(mgr, n, q)
      BY <2>2
    <3> QED  BY <2>2 DEF ClearKept, Touches, SameRow
  <2>11. FlightKept
    <3>1. \A q \in Pairs : ClearKept(mgr, r, q)
      BY <2>5, <2>10 DEF ClearKept, SameRow
    <3>2. mgr.open => r.open
      BY <2>2, <2>4 DEF Touches, SameRows
    <3> QED  BY <2>5, <3>1, <3>2 DEF FlightKept, Grows
  <2> QED  BY <2>5, <2>8, <2>9, <2>11
<1> QED  BY <1>3, <1>4, Zenon DEF PushManual

LEMMA RefreshManager ==
    ASSUME Before, NEW w \in Procs, w \in Workers, PlanRefresh(w)
    PROVE  MgrNext /\ Grows(mgr, mgr') /\ LiveKept /\ FlightKept
<1> DEFINE was == seen[w[2]].rows
           rows == {p \in Pairs : IsManual(was[p]) /\ mgr.applied[p] = "byo"}
<1>1. mgr \in Managers /\ Sound /\ RowsTracked /\ retired' = retired
  BY DEF Before, Structure, Data, PlanRefresh, history
<1>2. CASE mgr' = mgr
  BY <1>1, <1>2, RowsUnchanged DEF LiveKept, FlightKept, ClearKept
<1>3. CASE mgr' = Refreshed(mgr, was, rows)
  <2>1. was \in [Pairs -> Rows]
    BY ProcsAre DEF Before, Structure, Data, Reads
  <2> DEFINE s == mgr r == mgr'
  <2> HIDE DEF was
  <2> HIDE DEF rows
  <2>2. s \in Managers /\ (\A p \in Pairs : RowSound(s, p)) /\ r = Refreshed(s, was, rows)
    BY <1>1, <1>3 DEF Sound
  <2>3. /\ rows \in SUBSET Pairs
        /\ \A p \in rows : IsManual(was[p]) /\ s.applied[p] = "byo"
    BY DEF rows
  <2> HIDE DEF s, r
  <2>4. /\ Grows(s, r)
        /\ s.open => r.open
        /\ \A p \in Pairs :
               /\ RowSound(r, p)
               /\ RowTracked(s, p) => RowTracked(r, p)
               /\ p \in s.live => p \in r.live
               /\ p \in s.liveInverse => p \in r.liveInverse
               /\ ClearKept(s, r, p)
    BY <2>1, <2>2, <2>3, RefreshedSound
  <2>5. MgrNext /\ Grows(mgr, mgr')
    BY <1>1, <2>4 DEF MgrNext, Sound, RowsTracked, Grows, s, r
  <2>6. LiveKept
    BY <2>4 DEF LiveKept, s, r
  <2>7. FlightKept
    BY <1>1, <2>4 DEF FlightKept, Grows, s, r
  <2> QED  BY <2>5, <2>6, <2>7
<1> QED  BY <1>2, <1>3, Zenon DEF PlanRefresh

LEMMA SameLast ==
    ASSUME NEW s \in Managers, NEW r, r.last = s.last
    PROVE  \A p \in Pairs : r.last[p] >= s.last[p]
<1> DEFINE f == s.last
<1>1. f \in [Pairs -> Nat]
  BY DEF Managers
<1> HIDE DEF f
<1>2. \A p \in Pairs : f[p] >= f[p]
  BY <1>1
<1> QED  BY <1>2 DEF f

LEMMA StopManager ==
    ASSUME Before, BeginStop \/ EndStop
    PROVE  MgrNext /\ LiveKept /\ FlightKept
<1>1. mgr \in Managers /\ Sound /\ RowsTracked /\ retired' = retired
  BY DEF Before, Structure, Data, BeginStop, EndStop, history
<1> DEFINE s == mgr r == mgr'
<1>2. CASE BeginStop
  <2>1. r = [s EXCEPT !.started = FALSE] /\ s \in Managers
    BY <1>1, <1>2 DEF BeginStop
  <2> HIDE DEF s, r
  <2>2. /\ r \in Managers /\ r.plan = s.plan /\ r.open = s.open /\ r.last = s.last
        /\ r.live = s.live /\ r.liveInverse = s.liveInverse
        /\ r.clears = s.clears
        /\ \A p \in Pairs : /\ RowSound(s, p) => RowSound(r, p)
                            /\ RowTracked(s, p) => RowTracked(r, p)
    BY <2>1, StopSound
  <2>3. \A p \in Pairs : r.last[p] >= s.last[p]
    BY <2>1, <2>2, SameLast
  <2> QED  BY <1>1, <2>2, <2>3
           DEF MgrNext, Sound, RowsTracked, LiveKept, FlightKept, ClearKept, s, r
<1>3. CASE EndStop
  <2>1. r = NoState(s) /\ s \in Managers /\ ~s.started
    BY <1>1, <1>3 DEF EndStop, Before, Structure, RunsInTurn
  <2> HIDE DEF s, r
  <2>2. /\ r \in Managers /\ r.plan = s.plan /\ r.open /\ r.last = s.last
        /\ r.live = s.live /\ r.liveInverse = s.liveInverse
        /\ \A p \in Pairs : r.clears[p] = NoClear
        /\ \A p \in Pairs : /\ RowSound(s, p) => RowSound(r, p)
                            /\ RowTracked(r, p)
    BY <2>1, NoStateSound
  <2>3. \A p \in Pairs : r.last[p] >= s.last[p]
    BY <2>1, <2>2, SameLast
  <2> QED  BY <1>1, <2>2, <2>3
           DEF MgrNext, Sound, RowsTracked, LiveKept, FlightKept, ClearKept, s, r
<1> QED  BY <1>2, <1>3

\* A start of the run: what it starts from, and what it makes of it.
LEMMA NewRunManager ==
    ASSUME Before, NEW s \in Managers, mgr.run < MaxRuns, s.run = mgr.run,
           mgr' = Applied(s),
           \A p \in Pairs : s.last[p] >= mgr.last[p],
           \A p \in Pairs : p \in s.liveInverse => p \in s.live,
           \A p \in Pairs \ retired' :
               /\ p \in mgr.live => p \in s.live
               /\ p \in mgr.liveInverse => p \in s.liveInverse
    PROVE  /\ MgrNext /\ LiveKept
           /\ mgr'.started /\ mgr'.run = mgr.run + 1 /\ ~mgr'.open
           /\ mgr'.latest = s.latest
           /\ mgr'.plan = Plan
           /\ \A p \in Pairs : mgr'.applied[p] = On(p)
           /\ \A p \in Pairs : mgr'.mark[p] = IF On(p) = "byo" THEN config[p] ELSE "none"
<1> DEFINE r == mgr'
<1>1. /\ config \in [Pairs -> Rows] /\ s.run + 1 \in 0 .. MaxRuns /\ mgr \in Managers
      /\ r = Applied(s)
  <2>1. config \in [Pairs -> Rows] /\ mgr \in Managers
    BY DEF Before, Structure, Data
  <2>2. mgr.run \in 0 .. MaxRuns
    BY <2>1 DEF Managers
  <2> QED  BY <2>1, <2>2, ProcsAre
<1> HIDE DEF r
<1>2. /\ r \in Managers /\ r.started /\ r.run = s.run + 1 /\ ~r.open
      /\ r.latest = s.latest
      /\ r.applied = [p \in Pairs |-> On(p)] /\ r.plan = Plan
      /\ \A p \in Pairs :
             /\ RowSound(r, p) /\ RowTracked(r, p)
             /\ r.last[p] >= s.last[p]
             /\ r.mark[p] = IF On(p) = "byo" THEN config[p] ELSE "none"
             /\ p \in s.live => p \in r.live
             /\ p \in s.liveInverse => p \in r.liveInverse
  BY <1>1, AppliedSound
<1>3. \A p \in Pairs : r.last[p] >= mgr.last[p]
  <2>1. \A p \in Pairs : r.last[p] \in Nat /\ s.last[p] \in Nat /\ mgr.last[p] \in Nat
    BY <1>1, <1>2 DEF Managers
  <2> QED  BY <1>2, <2>1
<1>4. MgrNext
  BY <1>2, <1>3 DEF MgrNext, Sound, RowsTracked, r
<1>5. LiveKept
  BY <1>2 DEF LiveKept, r
<1> QED  BY <1>2, <1>4, <1>5 DEF r

LEMMA StaleIs ==
    ASSUME mgr \in Managers
    PROVE  \A q \in Stale : q \in mgr.latest /\ q[1] \in {"byo", "feed"} /\ q[2] \in Pairs
                            /\ q = <<q[1], q[2]>>
  BY DEF Stale, Managers

LEMMA StartManager ==
    ASSUME Before, Start \/ StartUnknownAsset
    PROVE  /\ MgrNext /\ LiveKept
           /\ mgr'.started /\ mgr'.run = mgr.run + 1 /\ ~mgr'.open
           /\ mgr'.plan = Plan
           /\ \A p \in Pairs : mgr'.applied[p] = On(p)
           /\ \A p \in Pairs : mgr'.mark[p] = IF On(p) = "byo" THEN config[p] ELSE "none"
           /\ \A p \in Pairs : <<"feed", p>> \in mgr'.latest <=>
                                   <<"feed", p>> \in mgr.latest \ Stale
<1>1. mgr \in Managers /\ Sound /\ mgr.run < MaxRuns
  BY DEF Before, Structure, Data, Start, StartUnknownAsset, CanStart
<1>2. CASE Start
  <2> DEFINE l == mgr.latest \ Stale
             s == [mgr EXCEPT !.latest = l]
  <2>1. mgr' = Applied(s) /\ retired' = retired
    BY <1>2 DEF Start, NewRun
  <2>2. l \in SUBSET ({"byo", "feed"} \X Pairs)
    BY <1>1 DEF Managers
  <2> HIDE DEF l
  <2>3. SameRows(mgr, s) /\ s.latest = l
    BY <1>1, <2>2, PutLatest
  <2> HIDE DEF s
  <2>4. /\ s \in Managers /\ s.run = mgr.run
        /\ \A p \in Pairs : s.last[p] >= mgr.last[p]
        /\ \A p \in Pairs : /\ p \in mgr.live <=> p \in s.live
                            /\ p \in mgr.liveInverse <=> p \in s.liveInverse
    BY <2>3 DEF SameRows, SameRow, Grows
  <2>5. \A p \in Pairs : p \in s.liveInverse => p \in s.live
    BY <1>1, <2>4 DEF Sound, RowSound
  <2> QED  BY <1>1, <2>1, <2>3, <2>4, <2>5, NewRunManager DEF l
<1>3. CASE StartUnknownAsset
  <2>1. PICK q \in Stale :
            /\ NewRun([(IF q[1] = "byo" THEN Retire(mgr, q[2]) ELSE mgr)
                         EXCEPT !.latest = @ \ Stale])
            /\ retired' = retired \cup {q[2]}
    BY <1>3 DEF StartUnknownAsset
  <2> DEFINE t == IF q[1] = "byo" THEN Retire(mgr, q[2]) ELSE mgr
             l == t.latest \ Stale
             s == [t EXCEPT !.latest = l]
  <2>2. mgr' = Applied(s)
    BY <2>1 DEF NewRun
  <2>3. q[2] \in Pairs
    BY <1>1, StaleIs
  <2>4. /\ Grows(mgr, t)
        /\ \A p \in Pairs : RowSound(t, p)
        /\ \A p \in Pairs \ {q[2]} : SameRow(mgr, t, p)
        /\ \A p \in Pairs : <<"feed", p>> \in t.latest <=> <<"feed", p>> \in mgr.latest
    <3>1. CASE q[1] = "byo"
      <4> DEFINE p == q[2]
      <4>1. t = Retire(mgr, p) /\ p \in Pairs /\ RowSound(mgr, p)
        BY <1>1, <2>3, <3>1 DEF Sound
      <4> HIDE DEF t, p
      <4>2. Touches(mgr, t, p) /\ RowSound(t, p)
        BY <1>1, <4>1, RetireSound
      <4>3. ASSUME NEW x \in Pairs, x # p PROVE RowSound(t, x)
        <5>1. /\ SameRow(mgr, t, x) /\ t \in Managers /\ RowSound(mgr, x)
              /\ t.started = mgr.started /\ t.applied = mgr.applied /\ t.plan = mgr.plan
              /\ t.open => mgr.open \/ t.held[x] = 0
          BY <1>1, <4>2, <4>3 DEF Touches, Grows, Sound
        <5> DEFINE m == mgr
        <5>2. /\ SameRow(m, t, x) /\ m \in Managers /\ t \in Managers /\ RowSound(m, x)
              /\ t.started = m.started /\ t.applied = m.applied /\ t.plan = m.plan
              /\ t.open => m.open \/ t.held[x] = 0
          BY <1>1, <5>1
        <5> HIDE DEF m
        <5> QED  BY <4>3, <5>2, RowsKept
      <4> QED  BY <4>2, <4>3 DEF Touches, p
    <3>2. CASE q[1] # "byo"
      <4>1. Grows(mgr, mgr)
        BY <1>1, KeepsTokens
      <4> QED  BY <1>1, <3>2, <4>1 DEF Sound, SameRow
    <3> QED  BY <3>1, <3>2
  <2>5. t \in Managers
    BY <2>4 DEF Grows
  <2>6. l \in SUBSET ({"byo", "feed"} \X Pairs)
    <3> HIDE DEF t
    <3> QED  BY <2>5 DEF Managers
  <2>7. SameRows(t, s) /\ s.latest = l
    <3> HIDE DEF t, l
    <3> QED  BY <2>5, <2>6, PutLatest
  <2>8. \A p \in Pairs : <<"feed", p>> \in l <=> <<"feed", p>> \in mgr.latest \ Stale
    BY <2>4
  <2> HIDE DEF t, l, s
  <2>9. /\ s \in Managers /\ s.run = mgr.run /\ Grows(mgr, s)
        /\ \A p \in Pairs : s.last[p] >= mgr.last[p]
        /\ \A p \in Pairs : SameRow(t, s, p)
    <3>1. Grows(mgr, s)
      BY <1>1, <2>4, <2>7, GrowsTwice DEF SameRows
    <3> QED  BY <2>7, <3>1 DEF SameRows, Grows
  <2>10. \A p \in Pairs : p \in s.liveInverse => p \in s.live
    BY <2>4, <2>9 DEF RowSound, SameRow
  <2>11. \A p \in Pairs \ retired' :
            /\ p \in mgr.live => p \in s.live
            /\ p \in mgr.liveInverse => p \in s.liveInverse
    BY <2>1, <2>4, <2>9 DEF SameRow
  <2> QED  BY <1>1, <2>2, <2>7, <2>8, <2>9, <2>10, <2>11, NewRunManager
<1> QED  BY <1>2, <1>3

LEMMA StartFailsManager ==
    ASSUME Before, StartFails
    PROVE  MgrNext /\ Grows(mgr, mgr') /\ LiveKept /\ FlightKept
<1>1. mgr \in Managers /\ Sound /\ RowsTracked /\ retired' = retired
  BY DEF Before, Structure, Data, StartFails
<1>2. PICK done \in SUBSET Stale : mgr' = [mgr EXCEPT !.latest = mgr.latest \ done]
  BY DEF StartFails
<1> DEFINE l == mgr.latest \ done
<1>3. l \in SUBSET ({"byo", "feed"} \X Pairs)
  BY <1>1 DEF Managers
<1>4. mgr' = [mgr EXCEPT !.latest = l]
  BY <1>2
<1> HIDE DEF l
<1>5. SameRows(mgr, mgr')
  BY <1>1, <1>3, <1>4, PutLatest
<1>6. MgrNext /\ Grows(mgr, mgr')
  BY <1>1, <1>5, RowsSame
<1> QED  BY <1>5, <1>6 DEF LiveKept, FlightKept, ClearKept, SameRows, SameRow, Grows

-----------------------------------------------------------------------------
(* What every step makes of the goroutines                                   *)

Publishes(w, step) == step \in Publishing /\ w[1] # "drain"

\* One goroutine moves on, with its gates.
Moves(w, step, u, updates) ==
    /\ pc' = [pc EXCEPT ![w] = step]
    /\ hand' = [hand EXCEPT ![w] = u]
    /\ todo' = [todo EXCEPT ![w] = updates]
    /\ u \in Updates /\ updates \in SUBSET Updates
    /\ step \in InSink => sinkGate \in {w, Free} /\ sinkGate' = w
    /\ step \notin InSink => sinkGate' = IF pc[w] \in InSink THEN Free ELSE sinkGate
    /\ Publishes(w, step) => publisher \in {w, Free} /\ publisher' = w
    /\ ~Publishes(w, step) => publisher' = IF Publishes(w, pc[w]) THEN Free ELSE publisher

\* What a step of one goroutine leaves alone.
RunKept ==
    /\ Data'
    /\ mgr'.started = mgr.started /\ mgr'.run = mgr.run /\ cancelled' = cancelled
    /\ \A r \in Runs : queue'[r] # <<>> => Manual(queue'[r][1], r)
    /\ \A r \in Runs : seen'[r].run \in {0, r}

LEMMA StepsAre ==
    \A role : StepsOf(role) \in SUBSET Steps \/ role \notin Roles \cup {"caller"}
  BY DEF StepsOf, Steps, InSink, Publishing, Roles

LEMMA GatesMove ==
    ASSUME Structure, NEW w \in Procs, NEW step \in Steps, NEW u, NEW updates,
           Moves(w, step, u, updates)
    PROVE  Control' /\ Gates'
<1>1. /\ pc' = [pc EXCEPT ![w] = step] /\ pc \in [Procs -> Steps]
      /\ hand' = [hand EXCEPT ![w] = u] /\ hand \in [Procs -> Updates]
      /\ todo' = [todo EXCEPT ![w] = updates] /\ todo \in [Procs -> SUBSET Updates]
      /\ u \in Updates /\ updates \in SUBSET Updates
  BY DEF Moves, Structure, Control
<1>2. \A v \in Procs : pc'[v] = IF v = w THEN step ELSE pc[v]
  BY <1>1
<1>3. /\ sinkGate \in Procs \cup {Free} /\ publisher \in Procs \cup {Free} /\ Free \notin Procs
      /\ sinkGate' \in Procs \cup {Free} /\ publisher' \in Procs \cup {Free}
  BY ProcsAre DEF Moves, Structure, Control
<1>4. Control'
  BY <1>1, <1>3 DEF Control
<1>5. \A v \in Procs : sinkGate' = v <=> pc'[v] \in InSink
  <2> SUFFICES ASSUME NEW v \in Procs PROVE sinkGate' = v <=> pc'[v] \in InSink
    OBVIOUS
  <2>1. /\ sinkGate = v <=> pc[v] \in InSink
        /\ sinkGate = w <=> pc[w] \in InSink
    BY DEF Structure, Gates
  <2> QED  BY <1>2, <1>3, <2>1 DEF Moves
<1>6. \A v \in Procs : publisher' = v <=> Publishes(v, pc'[v])
  <2> SUFFICES ASSUME NEW v \in Procs PROVE publisher' = v <=> Publishes(v, pc'[v])
    OBVIOUS
  <2>1. /\ publisher = v <=> Publishes(v, pc[v])
        /\ publisher = w <=> Publishes(w, pc[w])
    BY DEF Structure, Gates, Publishes
  <2> QED  BY <1>2, <1>3, <2>1 DEF Moves
<1> QED  BY <1>4, <1>5, <1>6 DEF Gates, Publishes

LEMMA WorkerMoves ==
    ASSUME Structure, NEW w \in Workers, NEW step, NEW u, NEW updates,
           Moves(w, step, u, updates), RunKept,
           Fits(w, step, u, updates), pc[w] # "off",
           w[2] \in cancelled => step \in Survivors,
           step \in InSink => w[2] = mgr.run
    PROVE  Structure'
<1>1. step \in Steps /\ w \in Procs /\ w # caller
  BY StepsAre, ProcsAre DEF Fits
<1>2. Control' /\ Gates'
  BY <1>1, GatesMove
<1>3. \A v \in Procs :
          /\ pc'[v] = IF v = w THEN step ELSE pc[v]
          /\ hand'[v] = IF v = w THEN u ELSE hand[v]
          /\ todo'[v] = IF v = w THEN updates ELSE todo[v]
  BY DEF Moves, Structure, Control
<1>4. /\ pc'[caller] = pc[caller] /\ hand'[caller] = hand[caller]
      /\ todo'[caller] = todo[caller]
  BY <1>1, <1>3, ProcsAre
<1>5. Hands'
  <2>1. \A v \in Workers : Fits(v, pc'[v], hand'[v], todo'[v])
    BY <1>3, ProcsAre DEF Structure, Hands
  <2>2. CallerFits(pc[caller], hand[caller])'
    BY <1>4 DEF RunKept, Structure, Hands, CallerFits
  <2> QED  BY <1>4, <2>1, <2>2 DEF RunKept, Structure, Hands
<1>6. RunsInTurn'
  <2>1. \A v \in Workers :
           /\ v[2] > mgr.run => pc'[v] = "off"
           /\ v[2] \in cancelled => pc'[v] \in Survivors
           /\ pc'[v] \in InSink => v[2] = mgr.run
    BY <1>3, ProcsAre DEF Structure, RunsInTurn
  <2> QED  BY <1>4, <2>1 DEF RunKept, Structure, RunsInTurn
<1> QED  BY <1>2, <1>5, <1>6 DEF RunKept, Structure

LEMMA CallerMoves ==
    ASSUME Structure, NEW step, NEW u, Moves(caller, step, u, {}), RunKept,
           CallerFits(step, u), pc[caller] # "stop", step \notin {"stop", "stopped"}
    PROVE  Structure'
<1>1. step \in Steps /\ caller \in Procs /\ caller \notin Workers
  BY StepsAre, ProcsAre DEF CallerFits
<1>2. Control' /\ Gates'
  BY <1>1, GatesMove
<1>3. \A v \in Workers : pc'[v] = pc[v] /\ hand'[v] = hand[v] /\ todo'[v] = todo[v]
  BY ProcsAre DEF Moves, Structure, Control
<1>4. pc'[caller] = step /\ hand'[caller] = u /\ todo'[caller] = {}
  BY <1>1 DEF Moves, Structure, Control
<1>5. Hands'
  <2>1. \A v \in Workers : Fits(v, pc'[v], hand'[v], todo'[v])
    BY <1>3 DEF Structure, Hands
  <2>2. CallerFits(pc[caller], hand[caller])'
    BY <1>4 DEF RunKept, Structure, Hands, CallerFits
  <2> QED  BY <1>4, <2>1, <2>2 DEF RunKept, Structure, Hands
<1>6. RunsInTurn'
  <2>1. \A v \in Workers :
           /\ v[2] > mgr.run => pc'[v] = "off"
           /\ v[2] \in cancelled => pc'[v] \in Survivors
           /\ pc'[v] \in InSink => v[2] = mgr.run
    BY <1>3 DEF Structure, RunsInTurn
  <2> QED  BY <1>4, <2>1 DEF RunKept, Structure, RunsInTurn
<1> QED  BY <1>2, <1>5, <1>6 DEF RunKept, Structure

\* Where a goroutine is before its step.
LEMMA Resting ==
    ASSUME Structure, NEW w \in Workers
    PROVE  /\ w \in Procs /\ w # caller /\ w[1] \in Roles /\ w[2] \in Runs /\ w[2] \in 0 .. MaxRuns
           /\ pc \in [Procs -> Steps] /\ hand \in [Procs -> Updates]
           /\ todo \in [Procs -> SUBSET Updates]
           /\ hand[w] \in Updates /\ todo[w] \in SUBSET Updates /\ NoUpdate \in Updates
           /\ hand = [hand EXCEPT ![w] = hand[w]] /\ todo = [todo EXCEPT ![w] = todo[w]]
           /\ Fits(w, pc[w], hand[w], todo[w])
           /\ pc[w] \notin Survivors => w[2] \notin cancelled /\ w[2] = mgr.run
           /\ pc[w] \in InSink => w[2] = mgr.run /\ sinkGate = w
           /\ Publishes(w, pc[w]) => publisher = w
           /\ ~Publishes(w, pc[w]) => publisher # w
<1>1. /\ w \in Procs /\ w # caller /\ w[1] \in Roles /\ w[2] \in Runs /\ w[2] \in 0 .. MaxRuns
      /\ pc \in [Procs -> Steps] /\ hand \in [Procs -> Updates]
      /\ todo \in [Procs -> SUBSET Updates] /\ NoUpdate \in Updates
      /\ Fits(w, pc[w], hand[w], todo[w])
      /\ mgr \in Managers
  BY ProcsAre, UpdatesAre DEF Structure, Data, Control, Hands
<1>2. pc[w] \notin Survivors => w[2] \notin cancelled /\ w[2] = mgr.run
  <2>1. mgr.run \in 0 .. MaxRuns
    BY <1>1 DEF Managers
  <2>2. \A r \in Runs : r < mgr.run => r \in cancelled
    BY DEF Structure, RunsInTurn
  <2>3. /\ w[2] > mgr.run => pc[w] = "off"
        /\ w[2] \in cancelled => pc[w] \in Survivors
    BY DEF Structure, RunsInTurn
  <2>4. w[2] \in Nat /\ mgr.run \in Nat
    BY <1>1, <2>1, ProcsAre
  <2> QED  BY <1>1, <2>2, <2>3, <2>4 DEF Survivors
<1>3. /\ pc[w] \in InSink => w[2] = mgr.run /\ sinkGate = w
      /\ Publishes(w, pc[w]) <=> publisher = w
  BY <1>1 DEF Structure, RunsInTurn, Gates, Publishes
<1> QED  BY <1>1, <1>2, <1>3

LEMMA QueuesAre ==
    ASSUME Structure, NEW r \in Runs
    PROVE  /\ queue \in [Runs -> {<<>>} \cup {<<u>> : u \in Updates}]
           /\ queue[r] # <<>> =>
                  /\ Head(queue[r]) = queue[r][1] /\ Tail(queue[r]) = <<>>
                  /\ queue[r][1] \in Updates /\ Manual(queue[r][1], r)
<1>1. queue \in [Runs -> {<<>>} \cup {<<u>> : u \in Updates}]
  BY DEF Structure, Data
<1>2. ASSUME queue[r] # <<>>
      PROVE  /\ Head(queue[r]) = queue[r][1] /\ Tail(queue[r]) = <<>>
             /\ queue[r][1] \in Updates
  <2>1. PICK u \in Updates : queue[r] = <<u>>
    BY <1>1, <1>2
  <2> QED  BY <2>1
<1> QED  BY <1>1, <1>2 DEF Structure, Hands

LEMMA ReceiveStep ==
    ASSUME Structure, NEW w \in Workers, Receive(w)
    PROVE  Structure'
<1> DEFINE u == Head(queue[w[2]])
<1>1. /\ pc[w] = "recv" /\ w[1] = "drain" /\ w[2] \in Runs
      /\ u = queue[w[2]][1] /\ Tail(queue[w[2]]) = <<>>
      /\ u \in Updates /\ Manual(u, w[2])
  BY Resting, QueuesAre DEF Receive
<1> HIDE DEF u
<1>2. Moves(w, "got", u, todo[w])
  BY <1>1, Resting DEF Receive, Moves, Goto, Take, InSink, Publishes, Publishing, u
<1>3. RunKept
  <2>1. queue' = [queue EXCEPT ![w[2]] = <<>>]
    BY <1>1 DEF Receive
  <2>2. queue' \in [Runs -> {<<>>} \cup {<<v>> : v \in Updates}]
    BY <1>1, <2>1, QueuesAre
  <2>3. \A r \in Runs : queue'[r] # <<>> => queue[r] # <<>> /\ queue'[r] = queue[r]
    BY <1>1, <2>1, QueuesAre
  <2> QED  BY <2>2, <2>3 DEF RunKept, Receive, history, Structure, Data, Hands, RunsInTurn
<1>4. Fits(w, "got", u, todo[w])
  BY <1>1, Resting DEF Fits, StepsOf, Offered
<1> QED  BY <1>1, <1>2, <1>3, <1>4, Resting, WorkerMoves DEF InSink, Survivors

LEMMA OfferStep ==
    ASSUME Structure, NEW w \in Workers, Offer(w)
    PROVE  Structure'
<1>1. PICK p \in Pairs : Take(w, Quote(p, "feed", 0, w[2]))
  BY DEF Offer
<1> DEFINE u == Quote(p, "feed", 0, w[2])
<1>2. u \in Updates /\ u.pair = p /\ u.run = w[2] /\ u.mark = "feed"
  <2>1. w[2] \in 0 .. MaxRuns
    BY Resting
  <2> QED  BY <2>1 DEF Updates, Quote, Tokens
<1>3. pc[w] = "recv" /\ w[1] = "feed" /\ Take(w, u)
  BY <1>1 DEF Offer
<1> HIDE DEF u
<1>4. Moves(w, "got", u, todo[w])
  BY <1>2, <1>3, Resting DEF Offer, Moves, Goto, Take, InSink, Publishes, Publishing
<1>5. RunKept
  BY DEF RunKept, Offer, history, Structure, Data, Hands, RunsInTurn
<1>6. Fits(w, "got", u, todo[w])
  BY <1>2, <1>3, Resting DEF Fits, StepsOf, Offered, IsClear
<1> QED  BY <1>3, <1>4, <1>5, <1>6, Resting, WorkerMoves DEF InSink, Survivors

LEMMA AdmitStep ==
    ASSUME Structure, NEW w \in Workers, Admit(w)
    PROVE  Structure'
<1>1. pc[w] = "got" /\ ~IsClear(hand[w]) /\ w[2] \notin cancelled /\ w[2] = mgr.run
  BY Resting DEF Admit, Survivors, InSink
<1>2. RunKept
  BY DEF RunKept, Admit, history, Structure, Data, Hands, RunsInTurn
<1>3. CASE IsCurrent(hand[w])
  <2>1. Moves(w, "sink", hand[w], todo[w])
    BY <1>1, <1>3, Resting DEF Admit, Moves, Goto, InSink, Publishes, Publishing
  <2>2. Fits(w, "sink", hand[w], todo[w])
    BY <1>1, Resting DEF Fits, StepsOf, InSink, Roles
  <2> QED  BY <1>1, <1>2, <2>1, <2>2, WorkerMoves
<1>4. CASE ~IsCurrent(hand[w])
  <2>1. Moves(w, "recv", NoUpdate, todo[w])
    BY <1>1, <1>4, Resting DEF Admit, Leave, IsCancelled, Take, Moves, Goto, InSink, Publishes, Publishing
  <2>2. Fits(w, "recv", NoUpdate, todo[w])
    BY <1>1, Resting DEF Fits, StepsOf, InSink, Roles
  <2> QED  BY <1>1, <1>2, <2>1, <2>2, WorkerMoves DEF InSink
<1> QED  BY <1>3, <1>4

\* The goroutine of a clear that ended, or was not begun.
LEMMA ClearedMoves ==
    ASSUME Structure, NEW w \in Workers, NEW u, NEW ok \in BOOLEAN,
           Cleared(w, u, ok), RunKept, w[1] # "feed",
           NEW updates \in SUBSET todo[w], todo' = [todo EXCEPT ![w] = updates],
           \/ pc[w] \in {"clear", "cleared"} /\ sinkGate' = Free
           \/ pc[w] \in {"got", "clears", "retry"} /\ sinkGate' = sinkGate
    PROVE  Structure'
<1> DEFINE back == CASE w[1] = "drain" -> "recv"
                     [] w[1] = "startup" -> "clears"
                     [] w[1] = "refresh" -> "retry"
           step == IF IsCancelled(w) THEN "off" ELSE back
<1>1. /\ w[1] = "drain" => back = "recv"
      /\ w[1] = "startup" => back = "clears"
      /\ w[1] = "refresh" => back = "retry"
      /\ w[1] \in {"drain", "startup", "refresh"}
  BY Resting DEF Roles
<1>2. /\ pc' = [pc EXCEPT ![w] = step] /\ hand' = [hand EXCEPT ![w] = NoUpdate]
      /\ publisher' = IF IsCancelled(w) /\ publisher = w THEN Free ELSE publisher
  BY Zenon DEF Cleared, Leave, Goto, Take, LeavePublisher
<1> HIDE DEF back
<1>3. pc[w] \in StepsOf(w[1]) /\ \A v \in todo[w] : Manual(v, w[2])
  BY Resting DEF Fits
<1>4. /\ Publishes(w, pc[w]) <=> w[1] # "drain"
      /\ Publishes(w, back) <=> w[1] # "drain"
      /\ ~Publishes(w, "off")
      /\ back \notin InSink \cup {"await", "got"} /\ back \in StepsOf(w[1]) /\ "off" \in StepsOf(w[1])
  BY <1>1, <1>3 DEF Publishes, Publishing, InSink, StepsOf
<1>5. Moves(w, step, NoUpdate, updates)
  <2>1. updates \in SUBSET Updates /\ NoUpdate \in Updates
    BY Resting
  <2>2. step \notin InSink
    BY <1>4 DEF InSink
  <2>3. sinkGate' = IF pc[w] \in InSink THEN Free ELSE sinkGate
    BY DEF InSink
  <2>4. /\ Publishes(w, step) => publisher \in {w, Free} /\ publisher' = w
        /\ ~Publishes(w, step) => publisher' = IF Publishes(w, pc[w]) THEN Free ELSE publisher
    BY <1>2, <1>4, Resting
  <2> QED  BY <1>2, <2>1, <2>2, <2>3, <2>4 DEF Moves
<1>6. Fits(w, step, NoUpdate, updates)
  BY <1>3, <1>4 DEF Fits, InSink
<1>7. /\ pc[w] # "off" /\ step \notin InSink
      /\ w[2] \in cancelled => step \in Survivors
  BY <1>4 DEF InSink, IsCancelled, Survivors
<1> HIDE DEF step
<1> QED  BY <1>5, <1>6, <1>7, WorkerMoves

\* A clear that its goroutine begins, or finds superseded.
LEMMA BeginMoves ==
    ASSUME Structure, NEW w \in Workers, NEW u \in Updates,
           Manual(u, w[2]), IsClear(u), BeginClear(w, u), RunKept, w[1] # "feed",
           pc[w] \in {"got", "clears", "retry"},
           NEW updates \in SUBSET todo[w], todo' = [todo EXCEPT ![w] = updates]
    PROVE  Structure'
<1>1. CASE ClearIsCurrent(u)
  <2>1. /\ sinkGate = Free /\ sinkGate' = w /\ publisher' = publisher
        /\ pc' = [pc EXCEPT ![w] = "clear"] /\ hand' = [hand EXCEPT ![w] = u]
    BY <1>1 DEF BeginClear, Take, Goto
  <2>2. Publishes(w, "clear") <=> Publishes(w, pc[w])
    BY Resting DEF Publishes, Publishing, Fits, StepsOf, Roles, InSink
  <2>3. Moves(w, "clear", u, updates)
    BY <2>1, <2>2, Resting DEF Moves, InSink
  <2>4. Fits(w, "clear", u, updates)
    <3>1. "clear" \in StepsOf(w[1]) /\ \A v \in todo[w] : Manual(v, w[2])
      BY Resting DEF StepsOf, InSink, Roles, Fits
    <3> QED  BY <3>1 DEF Fits, Offered, InSink
  <2>5. w[2] \notin cancelled /\ w[2] = mgr.run
    BY Resting DEF Survivors, InSink
  <2> QED  BY <2>3, <2>4, <2>5, WorkerMoves
<1>2. CASE ~ClearIsCurrent(u)
  <2>1. Cleared(w, u, TRUE) /\ sinkGate' = sinkGate
    BY <1>2 DEF BeginClear
  <2> QED  BY <2>1, ClearedMoves
<1> QED  BY <1>1, <1>2

LEMMA ClearedAnswers ==
    ASSUME answer \in {"none", "done", "failed"}, NEW w, NEW u, NEW ok, Cleared(w, u, ok)
    PROVE  answer' \in {"none", "done", "failed"}
  BY DEF Cleared

LEMMA AdmitClearStep ==
    ASSUME Structure, NEW w \in Workers, AdmitClear(w)
    PROVE  Structure'
<1>1. pc[w] = "got" /\ IsClear(hand[w]) /\ w[2] \notin cancelled /\ w[2] = mgr.run
  BY Resting DEF AdmitClear, Survivors, InSink
<1>2. w[1] = "drain" /\ hand[w] \in Updates /\ Manual(hand[w], w[2])
  BY <1>1, Resting DEF Fits, StepsOf, Roles, InSink, Offered, IsClear
<1>3. RunKept
  <2>1. answer' \in {"none", "done", "failed"}
    BY ClearedAnswers DEF AdmitClear, BeginClear, Structure, Data
  <2> QED  BY <2>1 DEF RunKept, AdmitClear, history, Structure, Data, Hands, RunsInTurn
<1>4. todo' = [todo EXCEPT ![w] = todo[w]]
  BY Resting DEF AdmitClear
<1> QED  BY <1>1, <1>2, <1>3, <1>4, BeginMoves DEF AdmitClear

LEMMA NextClearMoves ==
    ASSUME Structure, NEW w \in Workers, ClearNext(w), pc[w] \in {"clears", "retry"}, RunKept
    PROVE  Structure'
<1>1. PICK u \in Clears(w) : BeginClear(w, u) /\ todo' = [todo EXCEPT ![w] = todo[w] \ {u}]
  BY DEF ClearNext
<1>2. u \in Updates /\ Manual(u, w[2]) /\ IsClear(u) /\ w[1] # "feed"
  BY Resting DEF Clears, Fits, StepsOf
<1> QED  BY <1>1, <1>2, BeginMoves

\* A publisher that goes on to its next update, or gives its gate back.
LEMMA RestMoves ==
    ASSUME Structure, NEW w \in Workers, PublishOrRest(w), RunKept,
           w[1] \in {"startup", "refresh"}, pc[w] \notin InSink \cup {"off"},
           hand' = [hand EXCEPT ![w] = NoUpdate],
           NEW updates \in SUBSET Updates, todo' = [todo EXCEPT ![w] = updates],
           \A v \in updates : Manual(v, w[2]),
           w[2] \in cancelled => updates = {},
           publisher \in {w, Free}, sinkGate' = sinkGate
    PROVE  Structure'
<1>1. todo'[w] = updates
  BY Resting
<1>2. CASE updates # {}
  <2>1. pc' = [pc EXCEPT ![w] = "publish"] /\ publisher' = w
    BY <1>1, <1>2, Zenon DEF PublishOrRest, Goto
  <2>2. Moves(w, "publish", NoUpdate, updates)
    BY <2>1, Resting DEF Moves, InSink, Publishes, Publishing
  <2>3. Fits(w, "publish", NoUpdate, updates)
    BY DEF Fits, StepsOf, InSink
  <2> QED  BY <1>2, <2>2, <2>3, WorkerMoves DEF InSink
<1>3. CASE updates = {}
  <2> DEFINE step == IF w[1] = "refresh" /\ ~IsCancelled(w) THEN "tick" ELSE "off"
  <2>1. pc' = [pc EXCEPT ![w] = step] /\ publisher' = Free
    BY <1>1, <1>3, Zenon DEF PublishOrRest, Goto
  <2>2. step \notin InSink /\ ~Publishes(w, step) /\ step \in StepsOf(w[1])
        /\ step \notin {"await", "got"}
    BY DEF InSink, Publishes, Publishing, StepsOf
  <2>3. w[2] \in cancelled => step \in Survivors
    BY DEF Survivors, IsCancelled
  <2> HIDE DEF step
  <2>4. Moves(w, step, NoUpdate, updates)
    BY <2>1, <2>2, Resting DEF Moves
  <2>5. Fits(w, step, NoUpdate, updates)
    BY <1>3, <2>2 DEF Fits, InSink
  <2> QED  BY <2>2, <2>3, <2>4, <2>5, WorkerMoves
<1> QED  BY <1>2, <1>3

\* A goroutine without an update, ready to publish, keeps none.
LEMMA EmptyHand ==
    ASSUME Structure, NEW w \in Workers, pc[w] \notin InSink \cup {"got", "await"}, hand' = hand
    PROVE  hand' = [hand EXCEPT ![w] = NoUpdate]
<1>1. hand[w] = NoUpdate /\ hand = [hand EXCEPT ![w] = hand[w]]
  BY Resting DEF Fits
<1> QED  BY <1>1

LEMMA BeginStartupStep ==
    ASSUME Before, NEW w \in Workers, BeginStartup(w)
    PROVE  Structure'
<1>1. /\ Structure /\ pc[w] = "startup" /\ w[2] \notin cancelled /\ publisher = Free
      /\ w \in Procs
  BY Resting DEF Before, BeginStartup, Survivors, InSink
<1>2. Grows(mgr, mgr')
  BY <1>1, BarrierManager
<1>3. RunKept
  BY <1>1, <1>2 DEF RunKept, BeginStartup, Grows, history, Structure, Data, Hands, RunsInTurn
<1>4. /\ w[1] = "startup" /\ todo' = [todo EXCEPT ![w] = todo[w]]
      /\ \A v \in todo[w] : Manual(v, w[2])
  BY <1>1, Resting DEF Fits, StepsOf, Roles, InSink, BeginStartup
<1>5. hand' = [hand EXCEPT ![w] = NoUpdate]
  BY <1>1, EmptyHand DEF InSink, BeginStartup
<1>6. CASE Clears(w) # {}
  <2>1. pc' = [pc EXCEPT ![w] = "clears"] /\ publisher' = w
    BY <1>6 DEF BeginStartup, Goto
  <2>2. Moves(w, "clears", NoUpdate, todo[w])
    BY <1>1, <1>4, <1>5, <2>1, Resting DEF Moves, InSink, Publishes, Publishing, BeginStartup
  <2>3. Fits(w, "clears", NoUpdate, todo[w])
    BY <1>4 DEF Fits, StepsOf, InSink
  <2> QED  BY <1>1, <1>3, <2>2, <2>3, WorkerMoves DEF InSink
<1>7. CASE Clears(w) = {}
  <2>1. PublishOrRest(w) /\ sinkGate' = sinkGate
    BY <1>7 DEF BeginStartup
  <2> QED  BY <1>1, <1>3, <1>4, <1>5, <2>1, Resting, RestMoves DEF InSink
<1> QED  BY <1>6, <1>7

LEMMA StartupClearsStep ==
    ASSUME Before, NEW w \in Workers, StartupClears(w)
    PROVE  Structure'
<1>1. /\ Structure /\ pc[w] = "clears" /\ w[2] \notin cancelled /\ w \in Procs
      /\ w[1] = "startup" /\ publisher = w
  BY Resting DEF Before, StartupClears, Survivors, InSink, Fits, StepsOf, Roles, Publishes, Publishing
<1>2. Grows(mgr, mgr')
  BY <1>1, BarrierManager
<1>3. RunKept
  <2>1. answer' \in {"none", "done", "failed"}
    BY <1>1, ClearedAnswers DEF StartupClears, ClearNext, BeginClear, Structure, Data
  <2> QED  BY <1>1, <1>2, <2>1 DEF RunKept, StartupClears, Grows, history, Structure, Data, Hands, RunsInTurn
<1>4. CASE ClearNext(w)
  BY <1>1, <1>3, <1>4, NextClearMoves
<1>5. CASE PublishOrRest(w) /\ UNCHANGED <<sinkGate, hand, todo, answer>>
  <2>1. /\ todo' = [todo EXCEPT ![w] = todo[w]]
        /\ \A v \in todo[w] : Manual(v, w[2])
        /\ todo[w] \in SUBSET Updates
    BY <1>1, <1>5, Resting DEF Fits
  <2>2. hand' = [hand EXCEPT ![w] = NoUpdate]
    BY <1>1, <1>5, EmptyHand DEF InSink
  <2> QED  BY <1>1, <1>3, <1>5, <2>1, <2>2, RestMoves DEF InSink
<1> QED  BY <1>4, <1>5 DEF StartupClears

LEMMA RevisionRead ==
    ASSUME Structure, NEW w \in Workers, ReadRevision(w), w[2] = mgr.run
    PROVE  /\ seen' \in [Runs -> Reads]
           /\ \A r \in Runs : seen'[r].run \in {0, r}
           /\ \A r \in Runs : seen'[r].rows = seen[r].rows
           /\ \A r \in Runs \ {w[2]} : seen'[r] = seen[r]
           /\ seen'[w[2]].run = mgr.run /\ seen'[w[2]].revision = mgr.revision
<1> DEFINE r == w[2]
           m == seen[r]
           e == [m EXCEPT !.run = mgr.run, !.revision = mgr.revision]
<1>1. /\ seen \in [Runs -> Reads] /\ r \in Runs /\ mgr.run \in 0 .. MaxRuns
      /\ mgr.revision \in Nat /\ r = mgr.run
      /\ \A x \in Runs : seen[x].run \in {0, x}
  BY Resting DEF Structure, Data, Managers, RunsInTurn
<1>2. m \in Reads
  BY <1>1
<1>3. seen' = [seen EXCEPT ![r] = e]
  BY <1>1 DEF ReadRevision
<1> HIDE DEF m
<1>4. e \in Reads /\ e.run = mgr.run /\ e.revision = mgr.revision /\ e.rows = m.rows
  BY <1>1, <1>2 DEF Reads
<1> HIDE DEF e, r
<1>5. seen'[r] = e /\ seen' \in [Runs -> Reads] /\ \A x \in Runs \ {r} : seen'[x] = seen[x]
  BY <1>1, <1>3, <1>4
<1>6. \A x \in Runs : seen'[x].run \in {0, x} /\ seen'[x].rows = seen[x].rows
  BY <1>1, <1>4, <1>5 DEF m
<1> QED  BY <1>4, <1>5, <1>6 DEF r

LEMMA BeginRefreshStep ==
    ASSUME Structure, Sound, NEW w \in Workers, BeginRefresh(w)
    PROVE  Structure'
<1>1. /\ pc[w] = "tick" /\ w[2] \notin cancelled /\ w[2] = mgr.run /\ publisher = Free
      /\ w[1] = "refresh"
  BY Resting DEF BeginRefresh, Survivors, InSink, Fits, StepsOf, Roles
<1>2. hand' = [hand EXCEPT ![w] = NoUpdate]
  BY <1>1, EmptyHand DEF InSink, BeginRefresh
<1> DEFINE pending == {p \in Pairs : mgr.clears[p] # NoClear}
           updates == {Clear(p, mgr.clears[p], mgr.run) : p \in pending}
<1>3. mgr \in Managers /\ mgr.run \in 0 .. MaxRuns /\ mgr.revision \in Nat
      /\ mgr.clears \in [Pairs -> ClearStates]
  BY DEF Structure, Data, Managers
<1>4. CASE pending # {}
  <2>1. /\ pc' = [pc EXCEPT ![w] = "retry"] /\ publisher' = w /\ seen' = seen
        /\ todo' = [todo EXCEPT ![w] = updates] /\ sinkGate' = sinkGate
    BY <1>4 DEF BeginRefresh, Goto
  <2>2. \A v \in updates : v \in Updates /\ Manual(v, w[2])
    <3> SUFFICES ASSUME NEW p \in pending
                 PROVE  LET v == Clear(p, mgr.clears[p], mgr.run) IN v \in Updates /\ Manual(v, w[2])
      OBVIOUS
    <3> DEFINE c == mgr.clears[p]
    <3>1. c \in ClearStates /\ c.token >= 1
      BY <1>3 DEF Sound, RowSound, RowTokens
    <3> HIDE DEF c
    <3>2. Clear(p, c, mgr.run) \in Updates /\ Manual(Clear(p, c, mgr.run), mgr.run)
      BY <1>3, <3>1, UpdatesAre
    <3> QED  BY <1>1, <3>2 DEF c
  <2> HIDE DEF updates
  <2>3. Moves(w, "retry", NoUpdate, updates)
    BY <1>1, <1>2, <2>1, <2>2, Resting DEF Moves, InSink, Publishes, Publishing
  <2>4. Fits(w, "retry", NoUpdate, updates)
    BY <1>1, <2>2 DEF Fits, StepsOf, InSink
  <2>5. RunKept
    BY <2>1 DEF RunKept, BeginRefresh, history, Structure, Data, Hands, RunsInTurn
  <2> QED  BY <1>1, <2>3, <2>4, <2>5, WorkerMoves DEF InSink
<1>5. CASE pending = {}
  <2>1. /\ pc' = [pc EXCEPT ![w] = "readRows"] /\ publisher' = publisher
        /\ seen' = [seen EXCEPT ![w[2]].run = mgr.run, ![w[2]].revision = mgr.revision]
        /\ todo' = todo /\ sinkGate' = sinkGate
    BY <1>5 DEF BeginRefresh, ReadRevision, Goto
  <2>2. Moves(w, "readRows", NoUpdate, todo[w])
    BY <1>1, <1>2, <2>1, Resting DEF Moves, InSink, Publishes, Publishing
  <2>3. Fits(w, "readRows", NoUpdate, todo[w])
    BY <1>1, Resting DEF Fits, StepsOf, InSink
  <2>4. RunKept
    <3>1. seen' \in [Runs -> Reads] /\ \A r \in Runs : seen'[r].run \in {0, r}
      BY <1>1, <1>5, RevisionRead DEF BeginRefresh
    <3> QED  BY <3>1 DEF RunKept, BeginRefresh, history, Structure, Data, Hands, RunsInTurn
  <2> QED  BY <1>1, <2>2, <2>3, <2>4, WorkerMoves DEF InSink
<1> QED  BY <1>4, <1>5

LEMMA RetryStep ==
    ASSUME Structure, NEW w \in Workers, Retry(w)
    PROVE  Structure'
<1>1. /\ pc[w] = "retry" /\ w[2] \notin cancelled /\ w[2] = mgr.run
      /\ w[1] = "refresh" /\ publisher = w
  BY Resting DEF Retry, Survivors, InSink, Fits, StepsOf, Roles, Publishes, Publishing
<1>2. CASE ClearNext(w) /\ seen' = seen
  <2>1. RunKept
    <3>1. answer' \in {"none", "done", "failed"}
      BY <1>2, ClearedAnswers DEF ClearNext, BeginClear, Structure, Data
    <3>2. mgr' = mgr
      BY <1>2 DEF ClearNext
    <3> QED  BY <1>2, <3>1, <3>2 DEF RunKept, Retry, history, Structure, Data, Hands, RunsInTurn
  <2> QED  BY <1>1, <1>2, <2>1, NextClearMoves
<1>3. CASE /\ publisher' = Free /\ ReadRevision(w)
           /\ UNCHANGED <<mgr, sinkGate, hand, todo, answer>>
  <2>1. pc' = [pc EXCEPT ![w] = "readRows"]
    BY <1>3 DEF ReadRevision, Goto
  <2>2. hand' = [hand EXCEPT ![w] = NoUpdate]
    BY <1>1, <1>3, EmptyHand DEF InSink
  <2>3. Moves(w, "readRows", NoUpdate, todo[w])
    BY <1>1, <1>3, <2>1, <2>2, Resting DEF Moves, InSink, Publishes, Publishing
  <2>4. Fits(w, "readRows", NoUpdate, todo[w])
    BY <1>1, Resting DEF Fits, StepsOf, InSink
  <2>5. RunKept
    <3>1. seen' \in [Runs -> Reads] /\ \A r \in Runs : seen'[r].run \in {0, r}
      BY <1>1, <1>3, RevisionRead
    <3> QED  BY <1>3, <3>1 DEF RunKept, Retry, history, Structure, Data, Hands, RunsInTurn
  <2> QED  BY <1>1, <2>3, <2>4, <2>5, WorkerMoves DEF InSink
<1> QED  BY <1>2, <1>3 DEF Retry

LEMMA RowsRead ==
    ASSUME Structure, NEW r \in Runs
    PROVE  /\ NotSeen \in Reads /\ NotSeen.run = 0
           /\ [seen EXCEPT ![r] = NotSeen] \in [Runs -> Reads]
           /\ \A x \in Runs : [seen EXCEPT ![r] = NotSeen][x].run \in {0, x}
           /\ [seen EXCEPT ![r].rows = config] \in [Runs -> Reads]
           /\ \A x \in Runs : [seen EXCEPT ![r].rows = config][x].run = seen[x].run
<1>1. NotSeen \in Reads /\ NotSeen.run = 0
  BY ProcsAre DEF NotSeen, Reads, Rows
<1>2. /\ seen \in [Runs -> Reads] /\ config \in [Pairs -> Rows]
      /\ \A x \in Runs : seen[x].run \in {0, x}
  BY DEF Structure, Data, RunsInTurn
<1> HIDE DEF NotSeen
<1>3. /\ [seen EXCEPT ![r] = NotSeen] \in [Runs -> Reads]
      /\ \A x \in Runs : [seen EXCEPT ![r] = NotSeen][x].run \in {0, x}
  BY <1>1, <1>2
<1> DEFINE m == seen[r]
           e == [m EXCEPT !.rows = config]
<1>4. m \in Reads
  BY <1>2
<1> HIDE DEF m
<1>5. e \in Reads /\ e.run = m.run
  BY <1>2, <1>4 DEF Reads
<1> HIDE DEF e
<1>6. /\ [seen EXCEPT ![r] = e] \in [Runs -> Reads]
      /\ \A x \in Runs : [seen EXCEPT ![r] = e][x].run = seen[x].run
  BY <1>2, <1>5 DEF m
<1> QED  BY <1>1, <1>3, <1>6 DEF e, m

LEMMA ReadRowsStep ==
    ASSUME Structure, NEW w \in Workers, ReadRows(w)
    PROVE  Structure'
<1>1. /\ pc[w] = "readRows" /\ w[2] \notin cancelled /\ w[2] = mgr.run /\ w[1] = "refresh"
      /\ w[2] \in Runs
  BY Resting DEF ReadRows, Survivors, InSink, Fits, StepsOf, Roles, Publishing
<1>2. hand' = [hand EXCEPT ![w] = NoUpdate] /\ todo' = [todo EXCEPT ![w] = todo[w]]
  BY <1>1, EmptyHand, Resting DEF InSink, ReadRows
<1>3. PICK step \in {"plan", "tick"} : pc' = [pc EXCEPT ![w] = step]
  BY DEF ReadRows, Goto
<1>4. Moves(w, step, NoUpdate, todo[w])
  BY <1>1, <1>2, <1>3, Resting DEF Moves, InSink, Publishes, Publishing, ReadRows
<1>5. Fits(w, step, NoUpdate, todo[w])
  BY <1>1, Resting DEF Fits, StepsOf, InSink
<1>6. RunKept
  <2> DEFINE none == [seen EXCEPT ![w[2]] = NotSeen]
             read == [seen EXCEPT ![w[2]].rows = config]
  <2>1. /\ seen' \in [Runs -> Reads]
        /\ \A r \in Runs : seen'[r].run \in {0, r}
    <3>1. seen' = none \/ seen' = read
      BY DEF ReadRows
    <3>2. /\ none \in [Runs -> Reads] /\ read \in [Runs -> Reads]
          /\ \A r \in Runs : none[r].run \in {0, r} /\ read[r].run = seen[r].run
          /\ \A r \in Runs : seen[r].run \in {0, r}
      BY <1>1, RowsRead DEF Structure, RunsInTurn
    <3> HIDE DEF none, read
    <3> QED  BY <3>1, <3>2
  <2> QED  BY <2>1 DEF RunKept, ReadRows, history, Structure, Data, Hands, RunsInTurn
<1> QED  BY <1>1, <1>4, <1>5, <1>6, WorkerMoves DEF InSink

LEMMA PlanRefreshStep ==
    ASSUME Before, NEW w \in Workers, PlanRefresh(w)
    PROVE  Structure'
<1>1. /\ Structure /\ pc[w] = "plan" /\ w[2] \notin cancelled /\ w[2] = mgr.run
      /\ w[1] = "refresh" /\ publisher = Free /\ w \in Procs /\ w[2] \in Runs
  BY Resting DEF Before, PlanRefresh, Survivors, InSink, Fits, StepsOf, Roles
<1>2. Grows(mgr, mgr')
  BY <1>1, RefreshManager
<1>3. RunKept
  <2>1. /\ seen' \in [Runs -> Reads]
        /\ \A r \in Runs : seen'[r].run \in {0, r}
    BY <1>1, RowsRead DEF PlanRefresh
  <2> QED  BY <1>1, <1>2, <2>1
           DEF RunKept, PlanRefresh, Grows, history, Structure, Data, Hands, RunsInTurn
<1>4. hand' = [hand EXCEPT ![w] = NoUpdate]
  BY <1>1, EmptyHand DEF InSink, PlanRefresh
<1>5. PublishOrRest(w) /\ sinkGate' = sinkGate
  BY DEF PlanRefresh
<1> DEFINE was == seen[w[2]].rows
           rows == {p \in Pairs : IsManual(was[p]) /\ mgr.applied[p] = "byo"}
           next == Refreshed(mgr, was, rows)
           cleared == {p \in rows : next.clears[p].token > mgr.clears[p].token}
           priced == {p \in rows : was[p] \in Marks}
           cs == {Clear(p, next.clears[p], mgr.run) : p \in cleared}
           qs == {Quote(p, was[p], next.token[p], mgr.run) : p \in priced}
<1>6. CASE StillAsRead(w[2])
  <2>1. mgr' = next /\ todo' = [todo EXCEPT ![w] = cs \cup qs]
    BY <1>6, Zenon DEF PlanRefresh
  <2>2. next \in Managers /\ mgr.run \in 0 .. MaxRuns
    <3>1. mgr \in Managers
      BY <1>1 DEF Structure, Data
    <3> QED  BY <1>2, <2>1, <3>1 DEF Grows, Managers
  <2>3. ASSUME NEW p \in cleared
        PROVE  LET u == Clear(p, next.clears[p], mgr.run) IN u \in Updates /\ Manual(u, w[2])
    <3> DEFINE c == next.clears[p]
    <3> HIDE DEF next
    <3>1. c \in ClearStates /\ mgr.clears[p] \in ClearStates /\ p \in Pairs
      BY <1>1, <2>2 DEF Managers, Structure, Data
    <3>2. c.token > mgr.clears[p].token
      OBVIOUS
    <3>3. c.token >= 1
      BY <3>1, <3>2 DEF ClearStates
    <3> HIDE DEF c
    <3>4. Clear(p, c, mgr.run) \in Updates /\ Manual(Clear(p, c, mgr.run), mgr.run)
      BY <2>2, <3>1, <3>3, UpdatesAre
    <3> QED  BY <1>1, <3>4 DEF c
  <2>4. ASSUME NEW p \in priced
        PROVE  LET u == Quote(p, was[p], next.token[p], mgr.run)
               IN u \in Updates /\ Manual(u, w[2])
    <3> DEFINE t == next.token[p] m == was[p]
    <3> HIDE DEF next
    <3>1. t \in Nat /\ p \in Pairs /\ m \in Marks /\ m # "blank"
      BY <2>2, PairsAssumption DEF Managers
    <3> HIDE DEF t, m
    <3>2. Quote(p, m, t, mgr.run) \in Updates /\ Manual(Quote(p, m, t, mgr.run), mgr.run)
      BY <2>2, <3>1 DEF Quote, Updates, Manual, IsClear, Tokens
    <3> QED  BY <1>1, <3>2 DEF t, m
  <2>5. \A u \in cs \cup qs : u \in Updates /\ Manual(u, w[2])
    BY <2>3, <2>4
  <2> DEFINE all == cs \cup qs
  <2>6. all \in SUBSET Updates /\ \A u \in all : Manual(u, w[2])
    BY <2>5
  <2>7. todo' = [todo EXCEPT ![w] = all]
    BY <2>1
  <2> HIDE DEF all
  <2> QED  BY <1>1, <1>3, <1>4, <1>5, <2>6, <2>7, RestMoves DEF InSink
<1>7. CASE ~StillAsRead(w[2])
  <2>1. /\ todo' = [todo EXCEPT ![w] = todo[w]]
        /\ todo[w] \in SUBSET Updates
        /\ \A u \in todo[w] : Manual(u, w[2])
    BY <1>7, Resting, <1>1 DEF PlanRefresh, Fits
  <2> QED  BY <1>1, <1>3, <1>4, <1>5, <2>1, RestMoves DEF InSink
<1> QED  BY <1>6, <1>7

LEMMA PublishStep ==
    ASSUME Structure, NEW w \in Workers, Publish(w)
    PROVE  Structure'
<1>1. /\ pc[w] = "publish" /\ w[2] \notin cancelled /\ w[2] = mgr.run
      /\ w[1] \in {"startup", "refresh"} /\ publisher = w
  BY Resting DEF Publish, Survivors, InSink, Fits, StepsOf, Roles, Publishes, Publishing
<1>2. PICK u \in todo[w] :
           /\ todo' = [todo EXCEPT ![w] = todo[w] \ {u}]
           /\ \/ Sent(u) /\ IsClear(u) /\ Goto(w, "await") /\ Take(w, u) /\ UNCHANGED publisher
              \/ Sent(u) /\ PublishOrRest(w) /\ UNCHANGED hand
              \/ NotSent(u) /\ PublishOrRest(w) /\ UNCHANGED hand
  BY DEF Publish
<1> DEFINE updates == todo[w] \ {u}
<1>3. /\ u \in Updates /\ Manual(u, w[2]) /\ updates \in SUBSET Updates
      /\ \A v \in updates : Manual(v, w[2])
      /\ todo' = [todo EXCEPT ![w] = updates]
  BY <1>2, Resting DEF Fits
<1> HIDE DEF updates
<1>4. RunKept
  <2>1. CASE Sent(u)
    <3>1. queue' = [queue EXCEPT ![w[2]] = <<u>>]
      BY <1>3, <2>1 DEF Sent, Manual
    <3> DEFINE q == <<u>>
    <3>2. q \in {<<>>} \cup {<<v>> : v \in Updates} /\ q[1] = u
      BY <1>3
    <3>3. queue' = [queue EXCEPT ![w[2]] = q]
      BY <3>1
    <3> HIDE DEF q
    <3>4. queue' \in [Runs -> {<<>>} \cup {<<v>> : v \in Updates}]
      BY <3>2, <3>3, Resting DEF Structure, Data
    <3>5. \A r \in Runs : queue'[r] = IF r = w[2] THEN q ELSE queue[r]
      BY <3>3, Resting DEF Structure, Data
    <3>6. \A r \in Runs : queue'[r] # <<>> => Manual(queue'[r][1], r)
      BY <1>3, <3>2, <3>5 DEF Structure, Hands
    <3> QED  BY <3>4, <3>6 DEF RunKept, Publish, history, Structure, Data, RunsInTurn
  <2>2. CASE queue' = queue
    BY <2>2 DEF RunKept, Publish, history, Structure, Data, Hands, RunsInTurn
  <2> QED  BY <1>2, <2>1, <2>2 DEF NotSent
<1>5. sinkGate' = sinkGate
  BY DEF Publish
<1>6. CASE IsClear(u) /\ Goto(w, "await") /\ Take(w, u) /\ UNCHANGED publisher
  <2>1. Moves(w, "await", u, updates)
    BY <1>1, <1>3, <1>5, <1>6, Resting DEF Moves, Goto, Take, InSink, Publishes, Publishing
  <2>2. Fits(w, "await", u, updates)
    BY <1>1, <1>3, <1>6 DEF Fits, Offered, StepsOf, InSink
  <2> QED  BY <1>1, <1>4, <2>1, <2>2, WorkerMoves DEF InSink
<1>7. CASE PublishOrRest(w) /\ UNCHANGED hand
  <2>1. hand' = [hand EXCEPT ![w] = NoUpdate]
    BY <1>1, <1>7, EmptyHand DEF InSink
  <2> QED  BY <1>1, <1>3, <1>4, <1>5, <1>7, <2>1, RestMoves DEF InSink
<1> QED  BY <1>2, <1>6, <1>7

LEMMA AwaitStep ==
    ASSUME Structure, NEW w \in Workers, Await(w)
    PROVE  Structure'
<1>1. /\ pc[w] = "await" /\ w # caller /\ w \in Procs
      /\ w[1] \in {"startup", "refresh"} /\ publisher = w
  BY Resting DEF Await, InSink, Fits, StepsOf, Roles, Publishes, Publishing
<1>2. PublishOrRest(w) /\ hand' = [hand EXCEPT ![w] = NoUpdate]
  BY <1>1 DEF Await, Take
<1> DEFINE updates == IF IsCancelled(w) THEN {} ELSE todo[w]
<1>3. /\ todo' = [todo EXCEPT ![w] = updates] /\ updates \in SUBSET Updates
      /\ \A v \in updates : Manual(v, w[2])
      /\ w[2] \in cancelled => updates = {}
  BY Resting DEF Await, LeaveTodo, Fits, IsCancelled
<1> HIDE DEF updates
<1>4. RunKept
  BY <1>1 DEF RunKept, Await, Structure, Data, Hands, RunsInTurn
<1>5. sinkGate' = sinkGate
  BY DEF Await
<1> QED  BY <1>1, <1>2, <1>3, <1>4, <1>5, RestMoves DEF InSink

\* A drain rid of a quote.
LEMMA DrainMoves ==
    ASSUME Structure, NEW w \in Workers, pc[w] \in {"sink", "acknowledge"},
           Leave(w, "recv"), RunKept,
           sinkGate' = Free, publisher' = publisher, todo' = todo
    PROVE  Structure'
<1> DEFINE step == IF IsCancelled(w) THEN "off" ELSE "recv"
<1>1. w[1] \in {"drain", "feed"} /\ \A v \in todo[w] : Manual(v, w[2])
  BY Resting DEF Fits, StepsOf, Roles
<1>2. /\ step \in StepsOf(w[1]) /\ step \notin InSink \cup {"got", "await"}
      /\ w[2] \in cancelled => step \in Survivors
      /\ ~Publishes(w, step) /\ ~Publishes(w, pc[w]) /\ pc[w] \in InSink /\ pc[w] # "off"
  BY <1>1 DEF StepsOf, InSink, Survivors, IsCancelled, Publishes, Publishing
<1>3. pc' = [pc EXCEPT ![w] = step] /\ hand' = [hand EXCEPT ![w] = NoUpdate]
  BY DEF Leave, Goto, Take
<1> HIDE DEF step
<1>4. Moves(w, step, NoUpdate, todo[w])
  BY <1>2, <1>3, Resting DEF Moves
<1>5. Fits(w, step, NoUpdate, todo[w])
  BY <1>1, <1>2 DEF Fits, InSink
<1> QED  BY <1>2, <1>4, <1>5, WorkerMoves

LEMMA AcknowledgeStep ==
    ASSUME Before, NEW w \in Workers, Acknowledge(w)
    PROVE  Structure'
<1>1. Structure /\ w \in Procs
  BY Resting DEF Before
<1>2. Grows(mgr, mgr')
  BY <1>1, AcknowledgeManager
<1>3. RunKept
  BY <1>1, <1>2 DEF RunKept, Acknowledge, Grows, history, Structure, Data, Hands, RunsInTurn
<1> QED  BY <1>1, <1>3, DrainMoves DEF Acknowledge

\* The quotes that a step may put into the engine.
LEMMA QuotePut ==
    ASSUME Before, NEW w \in Workers, pc[w] = "sink"
    PROVE  LET u == hand[w]
               p == u.pair
               q == [mark |-> u.mark, of |-> p, run |-> u.run]
               direct == [engine EXCEPT ![p] = q]
               both == [direct EXCEPT ![Opposite[p]] = direct[p]]
           IN
           /\ direct \in [Pairs -> Quotes] /\ both \in [Pairs -> Quotes]
           /\ direct[p] = q /\ both[p] = q /\ both[Opposite[p]] = q
           /\ \A x \in Pairs \ {p} : direct[x] = engine[x]
           /\ \A x \in Pairs \ {p, Opposite[p]} : both[x] = engine[x]
<1> DEFINE u == hand[w] p == u.pair m == u.mark r == u.run
           q == [mark |-> m, of |-> p, run |-> r]
<1>1. m \in {"feed"} \cup Marks /\ r \in 0 .. MaxRuns /\ p \in Pairs
  <2>1. mgr.run \in 0 .. MaxRuns
    BY DEF Before, Structure, Data, Managers
  <2> QED  BY <2>1, ProcsAre, InHand DEF InSink, Manual, IsClear
<1>2. engine \in [Pairs -> Quotes] /\ Opposite[p] \in Pairs /\ Opposite[p] # p
  BY <1>1, PairsAssumption DEF Before, Structure, Data
<1> HIDE DEF p, m, r
<1>3. q \in Quotes
  BY <1>1 DEF Quotes
<1> HIDE DEF q
<1> DEFINE direct == [engine EXCEPT ![p] = q]
<1>4. /\ direct \in [Pairs -> Quotes] /\ direct[p] = q
      /\ \A x \in Pairs \ {p} : direct[x] = engine[x]
  BY <1>1, <1>2, <1>3
<1> HIDE DEF direct
<1> DEFINE both == [direct EXCEPT ![Opposite[p]] = direct[p]]
<1>5. /\ both \in [Pairs -> Quotes] /\ both[Opposite[p]] = q /\ both[p] = q
      /\ \A x \in Pairs \ {p, Opposite[p]} : both[x] = direct[x]
  BY <1>1, <1>2, <1>3, <1>4
<1>6. \A x \in Pairs \ {p, Opposite[p]} : both[x] = engine[x]
  BY <1>4, <1>5
<1> HIDE DEF both
<1>7. /\ direct \in [Pairs -> Quotes] /\ both \in [Pairs -> Quotes]
      /\ direct[p] = q /\ both[p] = q /\ both[Opposite[p]] = q
      /\ \A x \in Pairs \ {p} : direct[x] = engine[x]
      /\ \A x \in Pairs \ {p, Opposite[p]} : both[x] = engine[x]
  BY <1>4, <1>5, <1>6
<1> QED  BY <1>7, Zenon DEF both, direct, q, p, m, r, u

LEMMA PushStep ==
    ASSUME Before, NEW w \in Workers, Push(w)
    PROVE  Structure'
<1> DEFINE u == hand[w]
           p == hand[w].pair
           q == [mark |-> u.mark, of |-> p, run |-> u.run]
           direct == [engine EXCEPT ![p] = q]
           both == [direct EXCEPT ![Opposite[p]] = direct[p]]
<1>1. /\ Structure /\ pc[w] = "sink" /\ w \in Procs /\ w[1] \in {"drain", "feed"}
      /\ w[2] = mgr.run /\ u \in Updates /\ p \in Pairs /\ u.run = mgr.run
      /\ u.mark \in {"feed"} \cup Marks /\ u.token \in Nat
      /\ w[1] = "feed" <=> u.mark = "feed"
  <2>1. Structure /\ pc[w] = "sink" /\ w \in Procs
    BY Resting DEF Before, Push
  <2> QED  BY <2>1, InHand, PairsAssumption DEF InSink, Manual, IsClear, Updates, Tokens
<1>2. Grows(mgr, mgr') /\ mgr.run \in 0 .. MaxRuns
  BY <1>1, PushManager DEF Structure, Data, Managers
<1>3. engine' \in [Pairs -> Quotes]
  <2>1. engine \in [Pairs -> Quotes]
    BY <1>1 DEF Structure, Data
  <2>2. /\ direct \in [Pairs -> Quotes] /\ both \in [Pairs -> Quotes]
    BY <1>1, QuotePut
  <2>3. engine' = engine \/ engine' = direct \/ engine' = both
    BY Zenon DEF Push
  <2> HIDE DEF direct, both
  <2> QED  BY <2>1, <2>2, <2>3
<1>4. RunKept
  <2>1. shown' \in [Pairs -> Nat]
    <3>1. shown \in [Pairs -> Nat]
      BY <1>1 DEF Structure, Data
    <3>2. shown' = shown \/ shown' = [shown EXCEPT ![p] = u.token]
      BY DEF Push
    <3> QED  BY <1>1, <3>1, <3>2
  <2>2. adopted' \subseteq Pairs
    <3>1. adopted' \subseteq adopted
      BY DEF Push
    <3> QED  BY <1>1, <3>1 DEF Structure, Data
  <2> QED  BY <1>1, <1>2, <1>3, <2>1, <2>2
           DEF RunKept, Push, Grows, Structure, Data, Hands, RunsInTurn
<1>5. CASE Leave(w, "recv") /\ sinkGate' = Free
  BY <1>1, <1>4, <1>5, DrainMoves DEF Push
<1>6. CASE /\ u.mark # "feed" /\ Goto(w, "acknowledge") /\ sinkGate' = sinkGate
           /\ \E i \in BOOLEAN : Take(w, [hand[w] EXCEPT !.inverse = i])
  <2>1. PICK i \in BOOLEAN : Take(w, [hand[w] EXCEPT !.inverse = i])
    BY <1>6
  <2> DEFINE v == [u EXCEPT !.inverse = i]
  <2>2. hand' = [hand EXCEPT ![w] = v]
    BY <2>1 DEF Take
  <2>3. v \in Updates /\ Manual(v, w[2]) /\ ~IsClear(v) /\ w[1] = "drain"
    <3>1. u.mark # "blank" /\ u.mark \in Marks /\ w[1] = "drain"
      BY <1>1, <1>6, PairsAssumption
    <3> HIDE DEF u
    <3>2. v \in Updates /\ v.pair = u.pair /\ v.run = u.run /\ v.mark = u.mark
      BY <1>1, <2>1 DEF Updates
    <3> HIDE DEF v
    <3> QED  BY <1>1, <3>1, <3>2 DEF Manual, IsClear, u
  <2> HIDE DEF v
  <2>4. Moves(w, "acknowledge", v, todo[w])
    BY <1>1, <1>6, <2>2, <2>3, Resting DEF Moves, Goto, InSink, Publishes, Publishing, Push
  <2>5. Fits(w, "acknowledge", v, todo[w])
    BY <1>1, <2>3, Resting DEF Fits, Offered, StepsOf, InSink
  <2> QED  BY <1>1, <1>4, <2>4, <2>5, WorkerMoves DEF Survivors, InSink
<1>7. \/ Leave(w, "recv") /\ sinkGate' = Free
      \/ /\ u.mark # "feed" /\ Goto(w, "acknowledge") /\ sinkGate' = sinkGate
         /\ \E i \in BOOLEAN : Take(w, [hand[w] EXCEPT !.inverse = i])
  BY DEF Push
<1> QED  BY <1>5, <1>6, <1>7

\* What a clear takes from the engine.
Targets(u) == {x \in Pairs : (x = u.pair /\ u.direct) \/ (x = Opposite[u.pair] /\ u.inverse)}

LEMMA ClearEngineIs ==
    ASSUME Before, NEW w \in Procs, ClearEngine(w)
    PROVE  /\ engine' \in [Pairs -> Quotes]
           /\ \A x \in Pairs : \/ engine'[x] = engine[x]
                               \/ x \in Targets(hand[w]) /\ engine'[x] = Empty
           /\ \/ /\ \A x \in Targets(hand[w]) : engine'[x] = Empty
                 /\ Goto(w, "cleared")
                 /\ shown' = IF hand[w].direct THEN [shown EXCEPT ![hand[w].pair] = hand[w].token]
                             ELSE shown
                 /\ UNCHANGED <<mgr, hand, todo, publisher, sinkGate, answer, retired>>
              \/ /\ \E ok \in BOOLEAN : Cleared(w, hand[w], ok)
                 /\ LeaveTodo(w) /\ sinkGate' = Free /\ shown' = shown
                 /\ retired' \in {retired, retired \cup {hand[w].pair}}
<1> DEFINE u == hand[w]
           direct == IF u.direct THEN {u.pair} ELSE {}
           inverse == IF u.inverse THEN {Opposite[u.pair]} ELSE {}
           Without(ps) == [x \in Pairs |-> IF x \in ps THEN Empty ELSE engine[x]]
           part == IF u.inverse THEN direct ELSE {}
<1>1. engine \in [Pairs -> Quotes] /\ Empty \in Quotes /\ u.pair \in Pairs
  BY InHand, ProcsAre DEF Before, Structure, Data, Empty, Quotes, ClearEngine, InSink
<1>2. \A x \in direct \cup inverse : x \in Targets(u)
  BY <1>1, PairsAssumption DEF Targets
<1>3. \A x \in Targets(u) : x \in direct \cup inverse
  BY DEF Targets
<1>4. part \subseteq direct \cup inverse
  OBVIOUS
<1>5. \/ engine' = engine
      \/ engine' = Without(direct \cup inverse)
      \/ engine' = Without(part)
  BY Zenon DEF ClearEngine
<1>6. engine' \in [Pairs -> Quotes]
  <2> HIDE DEF Empty, direct, inverse, part
  <2> QED  BY <1>1, <1>5
<1>7. \A x \in Pairs : \/ engine'[x] = engine[x]
                       \/ x \in Targets(hand[w]) /\ engine'[x] = Empty
  <2> HIDE DEF Empty, direct, inverse, part
  <2> QED  BY <1>1, <1>2, <1>4, <1>5
<1>8. CASE /\ engine' = Without(direct \cup inverse)
           /\ Goto(w, "cleared")
           /\ shown' = IF hand[w].direct THEN [shown EXCEPT ![hand[w].pair] = hand[w].token]
                       ELSE shown
           /\ UNCHANGED <<mgr, hand, todo, publisher, sinkGate, answer, retired>>
  <2>1. \A x \in Targets(hand[w]) : engine'[x] = Empty
    <3>1. \A x \in direct \cup inverse : x \in Pairs
      BY <1>2 DEF Targets
    <3> HIDE DEF Empty, direct, inverse
    <3> QED  BY <1>3, <1>8, <3>1
  <2> QED  BY <1>6, <1>7, <1>8, <2>1
<1>9. CASE /\ \E ok \in BOOLEAN : Cleared(w, hand[w], ok)
           /\ LeaveTodo(w) /\ sinkGate' = Free /\ shown' = shown
           /\ retired' \in {retired, retired \cup {hand[w].pair}}
  BY <1>6, <1>7, <1>9
<1>10. \/ /\ engine' = Without(direct \cup inverse)
          /\ Goto(w, "cleared")
          /\ shown' = IF hand[w].direct THEN [shown EXCEPT ![hand[w].pair] = hand[w].token]
                      ELSE shown
          /\ UNCHANGED <<mgr, hand, todo, publisher, sinkGate, answer, retired>>
       \/ /\ \E ok \in BOOLEAN : Cleared(w, hand[w], ok)
          /\ LeaveTodo(w) /\ sinkGate' = Free /\ shown' = shown
          /\ retired' \in {retired, retired \cup {hand[w].pair}}
  BY Zenon DEF ClearEngine
<1> QED  BY <1>8, <1>9, <1>10

LEMMA LeaveTodoIs ==
    ASSUME Structure, NEW w \in Workers, LeaveTodo(w)
    PROVE  \E updates \in SUBSET todo[w] : todo' = [todo EXCEPT ![w] = updates]
<1> DEFINE updates == IF IsCancelled(w) THEN {} ELSE todo[w]
<1>1. todo' = [todo EXCEPT ![w] = updates]
  BY DEF LeaveTodo
<1>2. updates \in SUBSET todo[w]
  OBVIOUS
<1> HIDE DEF updates
<1> QED  BY <1>1, <1>2

LEMMA ClearEngineStep ==
    ASSUME Before, NEW w \in Workers, ClearEngine(w)
    PROVE  Structure'
<1>1. /\ Structure /\ w \in Procs /\ pc[w] = "clear" /\ w[1] # "feed"
      /\ hand[w] \in Updates /\ hand[w].pair \in Pairs /\ hand[w].token \in Nat
  <2>1. Structure /\ pc[w] = "clear" /\ w \in Procs
    BY Resting DEF Before, ClearEngine
  <2> QED  BY <2>1, InHand DEF InSink, Updates, Tokens
<1>2. Grows(mgr, mgr')
  BY <1>1, ClearEngineManager
<1>3. RunKept
  <2>1. engine' \in [Pairs -> Quotes]
    BY <1>1, ClearEngineIs
  <2>2. shown' \in [Pairs -> Nat]
    <3>1. shown \in [Pairs -> Nat]
      BY <1>1 DEF Structure, Data
    <3>2. shown' = shown \/ shown' = [shown EXCEPT ![hand[w].pair] = hand[w].token]
      BY <1>1, ClearEngineIs
    <3> QED  BY <1>1, <3>1, <3>2
  <2>3. retired' \subseteq Pairs
    <3>1. retired \subseteq Pairs
      BY <1>1 DEF Structure, Data
    <3>2. retired' \in {retired, retired \cup {hand[w].pair}}
      BY <1>1, ClearEngineIs
    <3> QED  BY <1>1, <3>1, <3>2
  <2>4. answer' \in {"none", "done", "failed"}
    <3>1. answer \in {"none", "done", "failed"}
      BY <1>1 DEF Structure, Data
    <3>2. answer' = answer \/ \E ok \in BOOLEAN : Cleared(w, hand[w], ok)
      BY <1>1, ClearEngineIs
    <3> QED  BY <3>1, <3>2, ClearedAnswers
  <2> QED  BY <1>1, <1>2, <2>1, <2>2, <2>3, <2>4
           DEF RunKept, ClearEngine, Grows, Structure, Data, Hands, RunsInTurn
<1>4. CASE Goto(w, "cleared") /\ UNCHANGED <<hand, todo, publisher, sinkGate>>
  <2>1. Publishes(w, "clear") <=> Publishes(w, "cleared")
    BY DEF Publishes, Publishing
  <2>2. Moves(w, "cleared", hand[w], todo[w])
    BY <1>1, <1>4, <2>1, Resting DEF Moves, Goto, InSink
  <2>3. Fits(w, "cleared", hand[w], todo[w])
    BY <1>1, Resting DEF Fits, StepsOf, InSink, Roles
  <2>4. w[2] = mgr.run
    BY <1>1, Resting DEF InSink
  <2> QED  BY <1>1, <1>3, <2>2, <2>3, <2>4, WorkerMoves DEF Survivors, InSink
<1>5. CASE /\ \E ok \in BOOLEAN : Cleared(w, hand[w], ok)
           /\ LeaveTodo(w) /\ sinkGate' = Free
  BY <1>1, <1>3, <1>5, LeaveTodoIs, ClearedMoves
<1> QED  BY <1>1, <1>4, <1>5, ClearEngineIs

LEMMA CompleteStep ==
    ASSUME Before, NEW w \in Workers, CompleteClear(w)
    PROVE  Structure'
<1>1. Structure /\ w \in Procs /\ pc[w] = "cleared" /\ w[1] # "feed"
  <2>1. Structure /\ pc[w] = "cleared" /\ w \in Procs
    BY Resting DEF Before, CompleteClear
  <2> QED  BY <2>1, InHand DEF InSink
<1>2. Grows(mgr, mgr')
  BY <1>1, CompleteManager
<1>3. RunKept
  <2>1. answer' \in {"none", "done", "failed"}
    BY <1>1, ClearedAnswers DEF CompleteClear, Structure, Data
  <2> QED  BY <1>1, <1>2, <2>1
           DEF RunKept, CompleteClear, Grows, history, Structure, Data, Hands, RunsInTurn
<1>4. Cleared(w, hand[w], TRUE) /\ LeaveTodo(w) /\ sinkGate' = Free
  BY DEF CompleteClear
<1> QED  BY <1>1, <1>3, <1>4, LeaveTodoIs, ClearedMoves

LEMMA CallerRests ==
    ASSUME Structure
    PROVE  /\ caller \in Procs /\ ~IsCancelled(caller) /\ NoUpdate \in Updates
           /\ pc \in [Procs -> Steps] /\ hand \in [Procs -> Updates]
           /\ todo \in [Procs -> SUBSET Updates]
           /\ hand[caller] \in Updates /\ todo[caller] = {}
           /\ todo = [todo EXCEPT ![caller] = {}] /\ hand = [hand EXCEPT ![caller] = hand[caller]]
           /\ CallerFits(pc[caller], hand[caller])
           /\ pc[caller] \notin InSink
           /\ Publishes(caller, pc[caller]) <=> publisher = caller
           /\ \A step : Publishes(caller, step) <=> step \in Publishing
<1>1. /\ caller \in Procs /\ NoUpdate \in Updates
      /\ pc \in [Procs -> Steps] /\ hand \in [Procs -> Updates]
      /\ todo \in [Procs -> SUBSET Updates]
      /\ todo[caller] = {} /\ CallerFits(pc[caller], hand[caller])
      /\ caller[1] = "caller" /\ caller[2] = 0 /\ 0 \notin Runs /\ cancelled \subseteq Runs
  BY ProcsAre, UpdatesAre DEF Structure, Data, Control, Hands
<1>2. ~IsCancelled(caller)
  BY <1>1 DEF IsCancelled
<1>3. pc[caller] \notin InSink
  BY <1>1 DEF CallerFits, StepsOf, InSink
<1>4. Publishes(caller, pc[caller]) <=> publisher = caller
  BY <1>1 DEF Structure, Gates, Publishes
<1>5. todo = [todo EXCEPT ![caller] = {}] /\ hand = [hand EXCEPT ![caller] = hand[caller]]
  BY <1>1
<1> QED  BY <1>1, <1>2, <1>3, <1>4, <1>5 DEF Publishes

LEMMA SetPriceStep ==
    ASSUME Structure, SetPrice
    PROVE  Structure'
<1>1. PICK p \in Pairs, row \in {"blank"} \cup Marks :
           /\ config' = [config EXCEPT ![p] = row]
           /\ Take(caller, Quote(p, row, 0, mgr.run))
  BY DEF SetPrice
<1> DEFINE u == Quote(p, row, 0, mgr.run)
<1>2. u \in Updates /\ u.pair = p /\ u.mark = row
  <2>1. mgr.run \in 0 .. MaxRuns
    BY DEF Structure, Data, Managers
  <2> QED  BY <2>1 DEF Updates, Quote, Tokens
<1>3. hand' = [hand EXCEPT ![caller] = u]
  BY <1>1 DEF Take
<1> HIDE DEF u
<1>4. RunKept
  <2>1. config' \in [Pairs -> Rows]
    BY <1>1 DEF Structure, Data, Rows
  <2> QED  BY <2>1 DEF RunKept, SetPrice, Structure, Data, Hands, RunsInTurn
<1>5. Moves(caller, "pushManual", u, {})
  BY <1>2, <1>3, CallerRests DEF SetPrice, Moves, Goto, InSink, Publishing
<1>6. CallerFits("pushManual", u)
  BY <1>2 DEF CallerFits, StepsOf
<1> QED  BY <1>4, <1>5, <1>6, CallerMoves DEF SetPrice

\* The caller done with its update.
LEMMA CallerLeaves ==
    ASSUME Structure, Leave(caller, "idle"), RunKept, pc[caller] \in {"pushManual", "push", "await"},
           todo' = todo, sinkGate' = sinkGate,
           publisher' = IF pc[caller] = "pushManual" THEN publisher ELSE Free
    PROVE  Structure'
<1>1. Moves(caller, "idle", NoUpdate, {})
  <2>1. pc' = [pc EXCEPT ![caller] = "idle"] /\ hand' = [hand EXCEPT ![caller] = NoUpdate]
    BY CallerRests DEF Leave, Goto, Take
  <2>2. /\ Publishes(caller, pc[caller]) <=> pc[caller] # "pushManual"
        /\ ~Publishes(caller, "idle") /\ "idle" \notin InSink /\ pc[caller] \notin InSink
    BY CallerRests DEF InSink, Publishing
  <2> QED  BY <2>1, <2>2, CallerRests DEF Moves
<1>2. CallerFits("idle", NoUpdate)
  BY DEF CallerFits, StepsOf
<1> QED  BY <1>1, <1>2, CallerMoves

LEMMA TooLateStep ==
    ASSUME Structure, PushManualTooLate
    PROVE  Structure'
<1>1. RunKept
  BY DEF RunKept, PushManualTooLate, history, Structure, Data, Hands, RunsInTurn
<1> QED  BY <1>1, CallerLeaves DEF PushManualTooLate

LEMMA PushManualStep ==
    ASSUME Before, PushManual
    PROVE  Structure'
<1> DEFINE p == hand[caller].pair
           row == hand[caller].mark
           next == IF row = "blank" THEN WantClear(mgr, p) ELSE WantMark(NewToken(mgr, p), p, row)
<1>1. /\ Structure /\ pc[caller] = "pushManual" /\ publisher = Free
      /\ p \in Pairs /\ row \in {"blank"} \cup Marks
      /\ todo' = todo /\ sinkGate' = sinkGate
  BY CallerRests DEF Before, PushManual, CallerFits
<1>2. Grows(mgr, mgr')
  BY PushManualManager
<1>3. RunKept
  BY <1>1, <1>2 DEF RunKept, PushManual, Grows, history, Structure, Data, Hands, RunsInTurn
<1>4. CASE mgr.started /\ mgr.applied[p] = "byo"
  <2> DEFINE u == IF row = "blank" THEN Clear(p, next.clears[p], mgr.run)
                  ELSE Quote(p, row, next.token[p], mgr.run)
  <2>1. /\ hand' = [hand EXCEPT ![caller] = u] /\ publisher' = caller
        /\ pc' = [pc EXCEPT ![caller] = "push"]
    BY <1>4, Zenon DEF PushManual, Take, Goto
  <2>2. mgr \in Managers /\ mgr.run \in 0 .. MaxRuns /\ RowSound(mgr, p)
    BY <1>1 DEF Structure, Data, Managers, Before, Sound
  <2>3. u \in Updates /\ Manual(u, mgr.run)
    <3> HIDE DEF p, row, next
    <3>1. CASE row = "blank"
      <4> DEFINE c == next.clears[p]
      <4>1. /\ Touches(mgr, next, p) /\ next.last[p] = mgr.last[p] + 1
            /\ next.clears[p].token = next.last[p]
        BY <1>1, <1>4, <2>2, <3>1, WantClearSound DEF next
      <4>2. c \in ClearStates /\ c.token >= 1
        BY <1>1, <2>2, <4>1 DEF Managers, Touches, Grows
      <4> HIDE DEF c
      <4>3. Clear(p, c, mgr.run) \in Updates /\ Manual(Clear(p, c, mgr.run), mgr.run)
        BY <1>1, <2>2, <4>2, UpdatesAre
      <4>4. u = Clear(p, c, mgr.run)
        BY <3>1 DEF c
      <4> QED  BY <4>3, <4>4
    <3>2. CASE row # "blank"
      <4> DEFINE t == next.token[p]
                 s == NewToken(mgr, p)
      <4>1. row \in Marks /\ next = WantMark(s, p, row)
        BY <1>1, <3>2, Zenon DEF next
      <4>2. s = NewToken(mgr, p) \/ (s = mgr /\ mgr.mark[p] = row)
        OBVIOUS
      <4> HIDE DEF s
      <4>3. Touches(mgr, next, p)
        BY <1>1, <1>4, <2>2, <4>1, <4>2, WantMarkSound
      <4>4. t \in Nat
        BY <1>1, <4>3 DEF Touches, Grows, Managers
      <4> HIDE DEF t
      <4>5. /\ Quote(p, row, t, mgr.run) \in Updates
            /\ Manual(Quote(p, row, t, mgr.run), mgr.run)
        BY <1>1, <2>2, <3>2, <4>1, <4>4 DEF Quote, Updates, Manual, IsClear, Tokens
      <4>6. u = Quote(p, row, t, mgr.run)
        BY <3>2 DEF t
      <4> QED  BY <4>5, <4>6
    <3> QED  BY <3>1, <3>2
  <2> HIDE DEF u
  <2>4. Moves(caller, "push", u, {})
    BY <1>1, <2>1, <2>3, CallerRests DEF Moves, InSink, Publishing
  <2>5. CallerFits("push", u)
    BY <1>4, <2>3 DEF CallerFits, StepsOf
  <2> QED  BY <1>1, <1>3, <2>4, <2>5, CallerMoves
<1>5. CASE ~(mgr.started /\ mgr.applied[p] = "byo")
  <2>1. Leave(caller, "idle") /\ publisher' = publisher
    BY <1>5 DEF PushManual
  <2> QED  BY <1>1, <1>3, <2>1, CallerLeaves
<1> QED  BY <1>4, <1>5

LEMMA FinishPushStep ==
    ASSUME Structure, FinishPush
    PROVE  Structure'
<1> DEFINE u == hand[caller]
<1>1. /\ pc[caller] = "push" /\ u \in Updates /\ Manual(u, mgr.run) /\ mgr.started
      /\ mgr.run \in Runs /\ u.run = mgr.run
      /\ todo' = todo /\ sinkGate' = sinkGate
  BY CallerRests DEF FinishPush, CallerFits, Structure, RunsInTurn, Manual
<1> HIDE DEF u
<1>2. RunKept
  <2>1. CASE Sent(u)
    <3> DEFINE q == <<u>>
    <3>1. queue' = [queue EXCEPT ![mgr.run] = q]
      BY <1>1, <2>1 DEF Sent
    <3>2. q \in {<<>>} \cup {<<v>> : v \in Updates} /\ q[1] = u
      BY <1>1
    <3> HIDE DEF q
    <3>3. queue' \in [Runs -> {<<>>} \cup {<<v>> : v \in Updates}]
      BY <3>1, <3>2 DEF Structure, Data
    <3>4. \A r \in Runs : queue'[r] = IF r = mgr.run THEN q ELSE queue[r]
      BY <3>1 DEF Structure, Data
    <3>5. \A r \in Runs : queue'[r] # <<>> => Manual(queue'[r][1], r)
      BY <1>1, <3>2, <3>4 DEF Structure, Hands
    <3> QED  BY <3>3, <3>5 DEF RunKept, FinishPush, history, Structure, Data, RunsInTurn
  <2>2. CASE queue' = queue
    BY <2>2 DEF RunKept, FinishPush, history, Structure, Data, Hands, RunsInTurn
  <2> QED  BY <2>1, <2>2 DEF NotSent, FinishPush, u
<1>3. CASE IsClear(u) /\ Goto(caller, "await") /\ UNCHANGED <<hand, publisher>>
  <2>1. Moves(caller, "await", u, {})
    BY <1>1, <1>3, CallerRests DEF Moves, Goto, InSink, Publishing, u
  <2>2. CallerFits("await", u)
    BY <1>1, <1>3 DEF CallerFits, StepsOf
  <2> QED  BY <1>1, <1>2, <2>1, <2>2, CallerMoves
<1>4. CASE Leave(caller, "idle") /\ publisher' = Free
  BY <1>1, <1>2, <1>4, CallerLeaves
<1> QED  BY <1>3, <1>4 DEF FinishPush, u

LEMMA CallerAwaitStep ==
    ASSUME Structure, Await(caller)
    PROVE  Structure'
<1>1. todo' = todo
  <2>1. todo' = [todo EXCEPT ![caller] = todo[caller]]
    BY CallerRests DEF Await, LeaveTodo
  <2> QED  BY <2>1, CallerRests
<1>2. RunKept
  <2>1. told' \in Pairs \cup {"none"}
    BY CallerRests DEF Await, CallerFits, Manual, Structure, Data
  <2> QED  BY <2>1 DEF RunKept, Await, Structure, Data, Hands, RunsInTurn
<1> QED  BY <1>1, <1>2, CallerLeaves DEF Await

LEMMA ConfigureStep ==
    ASSUME Structure, Configure
    PROVE  Structure'
<1>1. config' \in [Pairs -> Rows]
  BY DEF Configure, Structure, Data, Rows
<1>2. /\ Data' /\ UNCHANGED <<mgr, cancelled, queue, publisher, sinkGate, pc, hand, todo, seen>>
  BY <1>1 DEF Configure, Structure, Data
<1> QED  BY <1>2 DEF Structure, Control, Hands, RunsInTurn, Gates, CallerFits

LEMMA StopStep ==
    ASSUME Before, BeginStop \/ EndStop
    PROVE  Structure'
<1>1. Structure /\ mgr' \in Managers /\ mgr'.run = mgr.run /\ ~mgr'.started
  <2>1. MgrNext /\ Structure
    BY StopManager DEF Before
  <2>2. mgr \in Managers
    BY <2>1 DEF Structure, Data
  <2>3. CASE BeginStop
    BY <2>1, <2>2, <2>3 DEF BeginStop, MgrNext, Managers
  <2>4. CASE EndStop
    <3>1. ~mgr.started
      BY <2>1, <2>4 DEF EndStop, Structure, RunsInTurn
    <3> DEFINE s == mgr r == mgr'
    <3>2. s \in Managers /\ ~s.started /\ r = NoState(s)
      BY <2>2, <2>4, <3>1 DEF EndStop
    <3> HIDE DEF s, r
    <3>3. r.run = s.run /\ ~r.started
      BY <3>2, NoStateSound
    <3> QED  BY <2>1, <3>3 DEF MgrNext, s, r
  <2> QED  BY <2>1, <2>3, <2>4
<1>2. PICK step \in {"stop", "idle"} :
           /\ pc' = [pc EXCEPT ![caller] = step]
           /\ step = "stop" => BeginStop
           /\ step = "idle" => EndStop
  BY DEF BeginStop, EndStop, Goto
<1>3. Moves(caller, step, hand[caller], {})
  BY <1>1, <1>2, CallerRests DEF Moves, InSink, Publishing, BeginStop, EndStop
<1>4. Control' /\ Gates' /\ step \in Steps /\ caller \notin Workers
  <2>1. step \in Steps /\ caller \in Procs /\ caller \notin Workers
    BY ProcsAre DEF Steps
  <2> QED  BY <1>1, <1>3, <2>1, GatesMove
<1>5. /\ \A v \in Workers : pc'[v] = pc[v]
      /\ hand' = hand /\ todo' = todo /\ pc'[caller] = step
      /\ UNCHANGED <<config, cancelled, queue, seen, engine, history>>
  BY <1>1, <1>2, <1>4, ProcsAre, CallerRests DEF BeginStop, EndStop
<1>6. Data'
  BY <1>1, <1>2 DEF Structure, Data, BeginStop, EndStop, history
<1>7. Hands'
  <2>1. \A v \in Workers : Fits(v, pc'[v], hand'[v], todo'[v])
    BY <1>1, <1>5 DEF Structure, Hands
  <2>2. CallerFits(pc[caller], hand[caller])'
    BY <1>5 DEF CallerFits, StepsOf
  <2> QED  BY <1>1, <1>5, <2>1, <2>2 DEF Structure, Hands
<1>8. RunsInTurn'
  <2>1. \A v \in Workers :
           /\ v[2] > mgr.run => pc'[v] = "off"
           /\ v[2] \in cancelled => pc'[v] \in Survivors
           /\ pc'[v] \in InSink => v[2] = mgr.run
    BY <1>1, <1>5 DEF Structure, RunsInTurn
  <2>2. CASE BeginStop
    <3>1. mgr.run \in Runs \ cancelled /\ step = "stop"
      BY <1>1, <1>2, <2>2, CallerRests DEF BeginStop, EndStop, Structure, RunsInTurn
    <3> QED  BY <1>1, <1>5, <2>1, <3>1 DEF Structure, RunsInTurn
  <2>3. CASE EndStop
    <3>1. mgr.run \notin Runs \ cancelled /\ step = "idle"
      BY <1>1, <1>2, <2>3, CallerRests DEF BeginStop, EndStop, Structure, RunsInTurn
    <3> QED  BY <1>1, <1>5, <2>1, <3>1 DEF Structure, RunsInTurn
  <2> QED  BY <2>2, <2>3
<1> QED  BY <1>4, <1>6, <1>7, <1>8 DEF Structure

LEMMA CancelStep ==
    ASSUME Structure, CancelRun
    PROVE  Structure'
<1> DEFINE gone(w) == w[2] = mgr.run /\ pc[w] \notin InSink \cup {"await"}
<1>1. /\ pc[caller] = "stop" /\ mgr' = mgr /\ cancelled' = cancelled \cup {mgr.run}
      /\ pc' = [w \in Procs |-> IF w = caller THEN "stopped"
                                ELSE IF gone(w) THEN "off" ELSE pc[w]]
      /\ hand' = [w \in Procs |-> IF gone(w) THEN NoUpdate ELSE hand[w]]
      /\ todo' = [w \in Procs |-> IF gone(w) THEN {} ELSE todo[w]]
      /\ seen' = [seen EXCEPT ![mgr.run] = NotSeen]
      /\ queue' = [queue EXCEPT ![mgr.run] = <<>>]
      /\ publisher' = IF gone(publisher) THEN Free ELSE publisher
      /\ sinkGate' = sinkGate
  BY DEF CancelRun, InSink
<1>2. /\ mgr.run \in Runs /\ mgr.run \notin cancelled /\ ~mgr.started /\ mgr.run # 0
      /\ mgr.run \in Nat /\ caller[2] = 0 /\ Free[2] = 0
      /\ caller \in Procs /\ caller \notin Workers /\ Workers \subseteq Procs
      /\ \A w \in Procs : w = caller \/ w \in Workers
  BY <1>1, ProcsAre DEF Structure, RunsInTurn, Runs
<1>3. ~gone(caller) /\ ~gone(Free)
  BY <1>2
<1>4. /\ pc'[caller] = "stopped" /\ hand'[caller] = hand[caller] /\ todo'[caller] = {}
      /\ \A w \in Workers :
             /\ pc'[w] = IF gone(w) THEN "off" ELSE pc[w]
             /\ hand'[w] = IF gone(w) THEN NoUpdate ELSE hand[w]
             /\ todo'[w] = IF gone(w) THEN {} ELSE todo[w]
  BY <1>1, <1>2, <1>3, CallerRests
<1>5. Control'
  <2>1. pc' \in [Procs -> Steps] /\ hand' \in [Procs -> Updates] /\ todo' \in [Procs -> SUBSET Updates]
    BY <1>1, CallerRests DEF Steps
  <2>2. publisher' \in Procs \cup {Free} /\ sinkGate' \in Procs \cup {Free}
    BY <1>1 DEF Structure, Control
  <2> QED  BY <2>1, <2>2 DEF Control
<1>6. Data'
  <2>1. /\ queue' \in [Runs -> {<<>>} \cup {<<u>> : u \in Updates}]
        /\ seen' \in [Runs -> Reads]
    BY <1>1, <1>2, RowsRead DEF Structure, Data
  <2>2. cancelled' \subseteq Runs
    BY <1>1, <1>2 DEF Structure, Data
  <2> QED  BY <2>1, <2>2 DEF CancelRun, history, Structure, Data
<1>7. Hands'
  <2>1. \A r \in Runs : queue'[r] # <<>> => Manual(queue'[r][1], r)
    BY <1>1, <1>2 DEF Structure, Data, Hands
  <2>2. ASSUME NEW w \in Workers PROVE Fits(w, pc'[w], hand'[w], todo'[w])
    <3>1. CASE gone(w)
      <4>1. pc'[w] = "off" /\ hand'[w] = NoUpdate /\ todo'[w] = {}
        BY <1>4, <3>1
      <4>2. "off" \in StepsOf(w[1])
        BY Resting DEF StepsOf, Roles
      <4> QED  BY <4>1, <4>2 DEF Fits, InSink
    <3>2. CASE ~gone(w)
      BY <1>4, <3>2 DEF Structure, Hands
    <3> QED  BY <3>1, <3>2
  <2>3. CallerFits(pc[caller], hand[caller])'
    BY <1>4 DEF CallerFits, StepsOf
  <2> QED  BY <1>4, <2>1, <2>2, <2>3 DEF Hands
<1>8. RunsInTurn'
  <2>1. ASSUME NEW w \in Workers
        PROVE  /\ w[2] > mgr.run => pc'[w] = "off"
               /\ w[2] \in cancelled' => pc'[w] \in Survivors
               /\ pc'[w] \in InSink => w[2] = mgr.run
    <3>1. /\ w[2] > mgr.run => pc[w] = "off"
          /\ w[2] \in cancelled => pc[w] \in Survivors
          /\ pc[w] \in InSink => w[2] = mgr.run
      BY DEF Structure, RunsInTurn
    <3> QED  BY <1>1, <1>4, <3>1, ZenonT(60) DEF Survivors, InSink
  <2>2. \A r \in Runs : seen'[r].run \in {0, r}
    BY <1>1, <1>2, RowsRead
  <2>3. /\ \A r \in Runs : r < mgr.run => r \in cancelled'
        /\ \A r \in cancelled' : r <= mgr.run
    BY <1>1, <1>2 DEF Structure, RunsInTurn
  <2> QED  BY <1>1, <1>2, <1>4, <2>1, <2>2, <2>3 DEF RunsInTurn
<1>9. Gates'
  <2>1. ASSUME NEW w \in Procs PROVE sinkGate' = w <=> pc'[w] \in InSink
    <3>1. sinkGate = w <=> pc[w] \in InSink
      BY DEF Structure, Gates
    <3> QED  BY <1>1, <1>2, <1>4, <3>1 DEF InSink
  <2>2. ASSUME NEW w \in Procs PROVE publisher' = w <=> Publishes(w, pc'[w])
    <3>1. /\ publisher = w <=> Publishes(w, pc[w])
          /\ publisher \in Procs \cup {Free} /\ Free \notin Procs
      BY ProcsAre DEF Structure, Control, Gates, Publishes
    <3>2. CASE w = caller
      BY <1>1, <1>3, <1>4, <3>1, <3>2, CallerRests DEF Publishing, Publishes
    <3>3. CASE w \in Workers
      <4>1. pc'[w] = IF gone(w) THEN "off" ELSE pc[w]
        BY <1>4, <3>3
      <4>2. ~Publishes(w, "off")
        BY DEF Publishes, Publishing
      <4> QED  BY <1>1, <3>1, <4>1, <4>2
    <3> QED  BY <1>2, <3>2, <3>3
  <2> QED  BY <2>1, <2>2 DEF Gates, Publishes
<1> QED  BY <1>5, <1>6, <1>7, <1>8, <1>9 DEF Structure

\* The goroutines of a new run, none of which was there before.
LEMMA NewRunMoves ==
    ASSUME Structure, NEW s, NewRun(s), Data', Sound',
           pc[caller] = "idle", ~mgr.started, mgr.run < MaxRuns, sinkGate = Free,
           mgr'.started, mgr'.run = mgr.run + 1,
           UNCHANGED <<cancelled, queue, publisher, sinkGate, hand, seen>>
    PROVE  /\ Structure'
           /\ \A w \in Procs : pc'[w] = pc[w] \/ pc'[w] \in {"startup", "recv", "tick"}
           /\ \A w \in Procs : pc'[w] \notin InSink \cup {"plan"}
                               \/ (pc'[w] = "plan" /\ pc[w] = "plan")
<1> DEFINE next == Applied(s)
           here(w) == w[2] = next.run
           clears == {p \in Pairs : next.clears[p] # NoClear}
           priced == {p \in Pairs : On(p) = "byo" /\ config[p] \in Marks}
           cs == {Clear(p, next.clears[p], next.run) : p \in clears}
           qs == {Quote(p, config[p], next.token[p], next.run) : p \in priced}
           all == cs \cup qs
           step(w) ==
               IF ~here(w) THEN pc[w]
               ELSE CASE w[1] = "startup" -> "startup"
                      [] w[1] = "drain" /\ {p \in Pairs : On(p) = "byo"} # {} -> "recv"
                      [] w[1] = "feed" /\ (\E p \in Pairs : On(p) = "feed") -> "recv"
                      [] w[1] = "refresh" /\ {p \in Pairs : On(p) = "byo"} \cup clears # {}
                             -> "tick"
                      [] OTHER -> pc[w]
<1>1. /\ mgr' = next /\ next \in Managers /\ next.run = mgr.run + 1 /\ next.run \in 0 .. MaxRuns
      /\ mgr.run \in Nat /\ next.run \in Runs /\ config \in [Pairs -> Rows]
  <2>1. mgr' = next /\ mgr' \in Managers /\ config \in [Pairs -> Rows]
    BY DEF NewRun, Data, Structure
  <2>2. mgr.run \in 0 .. MaxRuns /\ mgr'.run \in 0 .. MaxRuns
    BY <2>1 DEF Structure, Data, Managers
  <2> QED  BY <2>1, <2>2, ProcsAre DEF Runs
<1>2. pc' = [w \in Procs |-> step(w)]
  BY DEF NewRun
<1>3. todo' = [w \in Procs |-> IF here(w) /\ w[1] = "startup" THEN all ELSE todo[w]]
  <2>1. {p \in {q \in {r \in Pairs : On(r) = "byo"} : config[q] \in Marks} : TRUE} = priced
    OBVIOUS
  <2>2. {p \in {q \in Pairs : On(q) = "byo"} : config[p] \in Marks} = priced
    OBVIOUS
  <2> QED  BY <2>2 DEF NewRun
<1>4. \A u \in all : u \in Updates /\ Manual(u, next.run)
  <2>1. ASSUME NEW p \in clears
        PROVE  LET u == Clear(p, next.clears[p], next.run) IN u \in Updates /\ Manual(u, next.run)
    <3> DEFINE c == next.clears[p]
    <3>1. c \in ClearStates /\ c.token >= 1 /\ p \in Pairs
      <4>1. RowSound(mgr', p)
        BY DEF Sound
      <4>2. c # NoClear /\ p \in Pairs /\ next.clears \in [Pairs -> ClearStates]
        <5> HIDE DEF next
        <5> QED  BY <1>1 DEF Managers
      <4> HIDE DEF next
      <4> QED  BY <1>1, <4>1, <4>2 DEF RowSound, RowTokens
    <3> HIDE DEF c, next
    <3>2. Clear(p, c, next.run) \in Updates /\ Manual(Clear(p, c, next.run), next.run)
      BY <1>1, <3>1, UpdatesAre
    <3> QED  BY <3>2 DEF c
  <2>2. ASSUME NEW p \in priced
        PROVE  LET u == Quote(p, config[p], next.token[p], next.run)
               IN u \in Updates /\ Manual(u, next.run)
    <3> DEFINE t == next.token[p] m == config[p]
    <3> HIDE DEF next
    <3>1. t \in Nat /\ p \in Pairs /\ m \in Marks /\ m # "blank"
      BY <1>1, PairsAssumption DEF Managers
    <3> HIDE DEF t, m
    <3>2. Quote(p, m, t, next.run) \in Updates /\ Manual(Quote(p, m, t, next.run), next.run)
      BY <1>1, <3>1 DEF Quote, Updates, Manual, IsClear, Tokens
    <3> QED  BY <3>2 DEF t, m
  <2> QED  BY <2>1, <2>2
<1> HIDE DEF all
<1>5. \A w \in Workers : here(w) => pc[w] = "off" /\ hand[w] = NoUpdate /\ w[2] \notin cancelled
  <2> SUFFICES ASSUME NEW w \in Workers, here(w)
               PROVE  pc[w] = "off" /\ hand[w] = NoUpdate /\ w[2] \notin cancelled
    OBVIOUS
  <2>1. w[2] = mgr.run + 1 /\ w[2] \in Runs /\ w[2] > mgr.run /\ ~(w[2] <= mgr.run)
    BY <1>1, ProcsAre
  <2>2. pc[w] = "off" /\ w[2] \notin cancelled
    BY <2>1 DEF Structure, RunsInTurn
  <2> QED  BY <2>2, Resting DEF Fits, InSink
<1>6. caller \in Procs /\ caller \notin Workers /\ ~here(caller) /\ Workers \subseteq Procs
      /\ \A w \in Procs : w = caller \/ w \in Workers
  BY <1>1, ProcsAre
<1>7. \A w \in Procs : step(w) = pc[w] \/ (w \in Workers /\ here(w) /\
          \/ w[1] = "startup" /\ step(w) = "startup"
          \/ w[1] \in {"drain", "feed"} /\ step(w) = "recv"
          \/ w[1] = "refresh" /\ step(w) = "tick")
  <2> SUFFICES ASSUME NEW w \in Procs, step(w) # pc[w]
               PROVE  w \in Workers /\ here(w) /\
                      \/ w[1] = "startup" /\ step(w) = "startup"
                      \/ w[1] \in {"drain", "feed"} /\ step(w) = "recv"
                      \/ w[1] = "refresh" /\ step(w) = "tick"
    OBVIOUS
  <2>1. here(w)
    OBVIOUS
  <2>2. w \in Workers
    BY <1>6, <2>1
  <2>3. /\ w[1] = "startup" => step(w) = "startup"
        /\ w[1] = "drain" => step(w) = "recv"
        /\ w[1] = "feed" => step(w) = "recv"
        /\ w[1] = "refresh" => step(w) = "tick"
        /\ w[1] \in Roles
    BY <2>1, <2>2, Resting
  <2> QED  BY <2>1, <2>2, <2>3 DEF Roles
<1> HIDE DEF step
<1>8. /\ \A w \in Procs : pc'[w] = step(w)
      /\ \A w \in Procs : todo'[w] = IF here(w) /\ w[1] = "startup" THEN all ELSE todo[w]
  BY <1>2, <1>3
<1> HIDE DEF next
<1>9. Control'
  <2>1. \A w \in Procs : step(w) \in Steps
    BY <1>7, CallerRests DEF Steps
  <2>2. pc' \in [Procs -> Steps]
    BY <1>2, <2>1
  <2>3. todo' \in [Procs -> SUBSET Updates]
    BY <1>3, <1>4, CallerRests
  <2> QED  BY <2>2, <2>3 DEF Structure, Control
<1>10. \A w \in Workers : Fits(w, pc'[w], hand[w], todo'[w])
  <2> SUFFICES ASSUME NEW w \in Workers PROVE Fits(w, pc'[w], hand[w], todo'[w])
    OBVIOUS
  <2>1. Fits(w, pc[w], hand[w], todo[w])
    BY Resting
  <2>2. CASE ~here(w)
    BY <1>6, <1>7, <1>8, <2>1, <2>2
  <2>3. CASE here(w)
    <3>1. \A u \in todo'[w] : Manual(u, w[2])
      BY <1>4, <1>6, <1>8, <2>1, <2>3 DEF Fits
    <3>2. pc'[w] \in StepsOf(w[1]) /\ pc'[w] \notin InSink \cup {"got", "await"}
      <4>1. pc'[w] = pc[w] \/ (w[1] = "startup" /\ pc'[w] = "startup")
            \/ (w[1] \in {"drain", "feed"} /\ pc'[w] = "recv") \/ (w[1] = "refresh" /\ pc'[w] = "tick")
        BY <1>6, <1>7, <1>8
      <4>2. pc[w] = "off" /\ pc[w] \in StepsOf(w[1])
        BY <1>5, <2>1, <2>3 DEF Fits
      <4> QED  BY <4>1, <4>2 DEF StepsOf, InSink
    <3> QED  BY <1>5, <2>3, <3>1, <3>2 DEF Fits, InSink
  <2> QED  BY <2>2, <2>3
<1>11. pc'[caller] = "idle" /\ todo'[caller] = {}
  BY <1>6, <1>7, <1>8, CallerRests
<1>12. Hands'
  <2>1. CallerFits(pc[caller], hand[caller])'
    BY <1>11 DEF CallerFits, StepsOf
  <2> QED  BY <1>10, <1>11, <2>1 DEF Structure, Hands
<1>13. \A w \in Procs : pc'[w] \in InSink \cup Publishing \cup {"plan"} => pc'[w] = pc[w]
  BY <1>7, <1>8 DEF InSink, Publishing
<1>14. Gates'
  <2>1. \A w \in Procs : pc[w] \in InSink \cup Publishing => pc'[w] = pc[w]
    <3> SUFFICES ASSUME NEW w \in Procs, pc[w] \in InSink \cup Publishing PROVE pc'[w] = pc[w]
      OBVIOUS
    <3>1. pc[w] # "off"
      BY DEF InSink, Publishing
    <3> QED  BY <1>5, <1>7, <1>8, <3>1
  <2>2. \A w \in Procs : /\ pc'[w] \in InSink <=> pc[w] \in InSink
                         /\ pc'[w] \in Publishing <=> pc[w] \in Publishing
    BY <1>13, <2>1
  <2> QED  BY <2>2 DEF Structure, Gates
<1>15. RunsInTurn'
  <2>1. ASSUME NEW w \in Workers
        PROVE  /\ w[2] > mgr'.run => pc'[w] = "off"
               /\ w[2] \in cancelled => pc'[w] \in Survivors
               /\ pc'[w] \notin InSink
    <3>1. /\ w[2] > mgr.run => pc[w] = "off"
          /\ w[2] \in cancelled => pc[w] \in Survivors
          /\ pc[w] \notin InSink /\ pc'[w] \in InSink => pc'[w] = pc[w]
      <4>1. w \in Procs /\ sinkGate # w
        BY <1>6, ProcsAre
      <4> QED  BY <1>13, <4>1 DEF Structure, RunsInTurn, Gates
    <3>2. ~here(w) => pc'[w] = pc[w]
      BY <1>6, <1>7, <1>8
    <3>3. here(w) => w[2] \notin cancelled /\ w[2] = mgr'.run
      BY <1>1, <1>5
    <3>4. w[2] \in Nat /\ mgr'.run = mgr.run + 1
      BY <1>1, ProcsAre
    <3>5. pc'[w] \notin InSink
      <4>1. w \in Procs /\ sinkGate # w
        BY <1>6, ProcsAre
      <4> QED  BY <1>6, <1>13, <4>1 DEF Structure, Gates
    <3> QED  BY <1>1, <3>1, <3>2, <3>3, <3>4, <3>5
  <2>2. /\ \A r \in Runs : r < mgr'.run => r \in cancelled
        /\ \A r \in cancelled : r <= mgr'.run
        /\ mgr'.run \in Runs \ cancelled
    <3>1. /\ \A r \in Runs : r < mgr.run => r \in cancelled
          /\ \A r \in cancelled : r <= mgr.run
          /\ mgr.run \in Runs => mgr.run \in cancelled
          /\ cancelled \subseteq Runs
      BY DEF Structure, RunsInTurn, Data
    <3> QED  BY <1>1, <3>1 DEF Runs
  <2> QED  BY <1>1, <1>11, <2>1, <2>2 DEF Structure, RunsInTurn
<1>16. Structure'
  BY <1>9, <1>12, <1>14, <1>15 DEF Structure
<1>17. \A w \in Procs : pc'[w] \notin InSink
  <2>1. \A w \in Procs : sinkGate # w
    BY ProcsAre
  <2> QED  BY <1>13, <2>1 DEF Structure, Gates
<1> QED  BY <1>7, <1>8, <1>13, <1>16, <1>17

\* What the reconciliation of a start does to the quotes of the engine.
LEMMA ReconciledIs ==
    ASSUME engine \in [Pairs -> Quotes], NEW qs, NEW q, q[2] \in Pairs,
           NEW e \in Interrupted(qs, q) \cup {Reconciled(qs)}
    PROVE  /\ e \in [Pairs -> Quotes]
           /\ \A x \in Pairs : e[x] = engine[x] \/ e[x] = Empty
           /\ \A r \in qs : \A x \in Pairs : x \in ClearedWith(r) => e[x] = Empty
<1> DEFINE f == Reconciled(qs)
<1>0. Empty \in Quotes
  BY ProcsAre DEF Empty, Quotes
<1>1. /\ f \in [Pairs -> Quotes]
      /\ \A x \in Pairs : f[x] = engine[x] \/ f[x] = Empty
      /\ \A r \in qs : \A x \in Pairs : x \in ClearedWith(r) => f[x] = Empty
  BY <1>0 DEF Reconciled
<1>2. e = f \/ e = [f EXCEPT ![q[2]] = Empty]
  BY DEF Interrupted
<1> HIDE DEF f
<1> QED  BY <1>0, <1>1, <1>2

LEMMA StartEngine ==
    ASSUME Before, Start \/ StartUnknownAsset \/ StartFails
    PROVE  /\ engine' \in [Pairs -> Quotes]
           /\ \A x \in Pairs : engine'[x] = engine[x] \/ engine'[x] = Empty
           /\ adopted \subseteq adopted' /\ adopted' \subseteq Pairs
           /\ retired \subseteq retired' /\ retired' \subseteq Pairs
           /\ \E done \in SUBSET Stale :
                  /\ \A r \in done : r[2] \notin retired' =>
                         \A x \in Pairs : x \in ClearedWith(r) => engine'[x] = Empty
                  /\ adopted' = adopted \cup Adopted(done)
                  /\ \A p \in Pairs : <<"feed", p>> \in mgr'.latest <=>
                                          <<"feed", p>> \in mgr.latest \ done
<1>1. /\ engine \in [Pairs -> Quotes] /\ adopted \subseteq Pairs /\ retired \subseteq Pairs
      /\ mgr \in Managers
  BY DEF Before, Structure, Data
<1>2. \A qs : Adopted(qs) \subseteq Pairs
  BY DEF Adopted
<1>3. CASE Start
  <2>1. engine' = Reconciled(Stale) /\ adopted' = adopted \cup Adopted(Stale) /\ retired' = retired
    BY <1>3 DEF Start
  <2>2. /\ engine' \in [Pairs -> Quotes]
        /\ \A x \in Pairs : engine'[x] = engine[x] \/ engine'[x] = Empty
        /\ \A r \in Stale : \A x \in Pairs : x \in ClearedWith(r) => engine'[x] = Empty
    <3>1. CASE Pairs = {}
      BY <2>1, <3>1, <1>1 DEF Reconciled
    <3>2. CASE Pairs # {}
      <4>1. PICK p \in Pairs : TRUE
        BY <3>2
      <4> DEFINE q == <<"feed", p>>
      <4>2. q[2] \in Pairs /\ engine' \in Interrupted(Stale, q) \cup {Reconciled(Stale)}
        BY <2>1
      <4> HIDE DEF q
      <4> QED  BY <1>1, <4>2, ReconciledIs
    <3> QED  BY <3>1, <3>2
  <2>3. \A p \in Pairs : <<"feed", p>> \in mgr'.latest <=> <<"feed", p>> \in mgr.latest \ Stale
    BY <1>3, StartManager
  <2>4. Stale \in SUBSET Stale
    OBVIOUS
  <2> QED  BY <1>1, <1>2, <2>1, <2>2, <2>3, <2>4
<1>4. CASE StartUnknownAsset
  <2>1. PICK q \in Stale : /\ engine' \in Interrupted(Stale \ {q}, q)
                           /\ retired' = retired \cup {q[2]}
    BY <1>4 DEF StartUnknownAsset
  <2>2. adopted' = adopted \cup Adopted(Stale)
    BY <1>4 DEF StartUnknownAsset
  <2>3. q[2] \in Pairs
    BY <1>1, StaleIs
  <2>4. /\ engine' \in [Pairs -> Quotes]
        /\ \A x \in Pairs : engine'[x] = engine[x] \/ engine'[x] = Empty
        /\ \A r \in Stale \ {q} : \A x \in Pairs : x \in ClearedWith(r) => engine'[x] = Empty
    BY <1>1, <2>1, <2>3, ReconciledIs
  <2>5. \A r \in Stale : r[2] \notin retired' =>
            \A x \in Pairs : x \in ClearedWith(r) => engine'[x] = Empty
    BY <2>1, <2>4
  <2>6. \A p \in Pairs : <<"feed", p>> \in mgr'.latest <=> <<"feed", p>> \in mgr.latest \ Stale
    BY <1>4, StartManager
  <2>7. Stale \in SUBSET Stale
    OBVIOUS
  <2> QED  BY <1>1, <1>2, <2>1, <2>2, <2>3, <2>4, <2>5, <2>6, <2>7
<1>5. CASE StartFails
  <2>1. PICK done \in SUBSET Stale : \E q \in Stale \ done :
            /\ engine' \in Interrupted(done, q)
            /\ mgr' = [mgr EXCEPT !.latest = @ \ done]
            /\ adopted' = adopted \cup Adopted(done)
    BY <1>5 DEF StartFails
  <2>2. PICK q \in Stale : engine' \in Interrupted(done, q)
    BY <2>1
  <2>3. q[2] \in Pairs /\ retired' = retired
    BY <1>1, <1>5, StaleIs DEF StartFails
  <2>4. /\ engine' \in [Pairs -> Quotes]
        /\ \A x \in Pairs : engine'[x] = engine[x] \/ engine'[x] = Empty
        /\ \A r \in done : \A x \in Pairs : x \in ClearedWith(r) => engine'[x] = Empty
    BY <1>1, <2>2, <2>3, ReconciledIs
  <2>5. mgr'.latest = mgr.latest \ done
    BY <1>1, <2>1 DEF Managers
  <2> QED  BY <1>1, <1>2, <2>1, <2>3, <2>4, <2>5
<1> QED  BY <1>3, <1>4, <1>5

LEMMA StartStep ==
    ASSUME Before, Start \/ StartUnknownAsset
    PROVE  /\ Structure'
           /\ \A w \in Procs : pc'[w] = pc[w] \/ pc'[w] \in {"startup", "recv", "tick"}
           /\ \A w \in Procs : pc'[w] \notin InSink
<1>1. /\ pc[caller] = "idle" /\ ~mgr.started /\ mgr.run < MaxRuns /\ sinkGate = Free
      /\ UNCHANGED <<config, cancelled, queue, publisher, sinkGate, hand, seen, answer, shown, told>>
  BY DEF Start, StartUnknownAsset, CanStart
<1>2. MgrNext /\ mgr'.started /\ mgr'.run = mgr.run + 1
  BY StartManager
<1>3. Data'
  BY <1>1, <1>2, StartEngine DEF Before, Structure, Data, MgrNext
<1>4. \E s : NewRun(s)
  BY DEF Start, StartUnknownAsset
<1>5. PICK s : NewRun(s)
  BY <1>4
<1>6. Structure /\ Sound'
  BY <1>2 DEF Before, MgrNext
<1>7. /\ Structure'
      /\ \A w \in Procs : pc'[w] = pc[w] \/ pc'[w] \in {"startup", "recv", "tick"}
      /\ \A w \in Procs : pc'[w] \notin InSink \cup {"plan"}
                          \/ (pc'[w] = "plan" /\ pc[w] = "plan")
  BY <1>1, <1>2, <1>3, <1>5, <1>6, NewRunMoves
<1> QED  BY <1>7 DEF InSink

LEMMA StartFailsStep ==
    ASSUME Before, StartFails
    PROVE  Structure'
<1>1. /\ UNCHANGED <<config, cancelled, queue, publisher, sinkGate, pc, hand, todo, seen,
                     answer, shown, told, retired>>
      /\ MgrNext /\ mgr'.started = mgr.started /\ mgr'.run = mgr.run
  <2>1. UNCHANGED <<config, cancelled, queue, publisher, sinkGate, pc, hand, todo, seen,
                    answer, shown, told, retired>>
    BY DEF StartFails
  <2> QED  BY <2>1, StartFailsManager DEF Grows
<1>2. Data'
  BY <1>1, StartEngine DEF Before, Structure, Data, MgrNext
<1>3. Control' /\ Gates'
  BY <1>1 DEF Before, Structure, Control, Gates
<1>4. Hands'
  BY <1>1 DEF Before, Structure, Hands, CallerFits
<1>5. RunsInTurn'
  BY <1>1 DEF Before, Structure, RunsInTurn
<1> QED  BY <1>2, <1>3, <1>4, <1>5 DEF Structure

\* The actions of goroutines are those of workers, but for the wait of the caller.
WorkerStep(w) ==
    \/ Receive(w) \/ Offer(w) \/ Admit(w) \/ AdmitClear(w) \/ Push(w) \/ Acknowledge(w)
    \/ ClearEngine(w) \/ CompleteClear(w) \/ Publish(w) \/ Await(w)
    \/ BeginStartup(w) \/ StartupClears(w)
    \/ BeginRefresh(w) \/ Retry(w) \/ ReadRows(w) \/ PlanRefresh(w)

CallerStep ==
    \/ SetPrice \/ PushManual \/ PushManualTooLate \/ FinishPush \/ Await(caller) \/ Configure
    \/ BeginStop \/ CancelRun \/ EndStop
    \/ Start \/ StartUnknownAsset \/ StartFails

LEMMA NextIs ==
    ASSUME Structure, Next
    PROVE  CallerStep \/ \E w \in Workers : WorkerStep(w)
<1>1. CASE ControlPlane
  BY <1>1 DEF ControlPlane, CallerStep
<1>2. ASSUME NEW w \in Procs,
             Drain(w) \/ ManualClear(w) \/ Publisher(w) \/ Startup(w) \/ Refresh(w)
      PROVE  CallerStep \/ \E x \in Workers : WorkerStep(x)
  <2>1. WorkerStep(w)
    BY <1>2 DEF Drain, ManualClear, Publisher, Startup, Refresh, WorkerStep
  <2>2. CASE w \in Workers
    BY <2>1, <2>2
  <2>3. CASE w = caller
    <3>1. pc[caller] \in {"idle", "pushManual", "push", "await", "stop", "stopped"}
      BY CallerRests DEF CallerFits, StepsOf
    <3>2. /\ ~Receive(w) /\ ~Offer(w) /\ ~Admit(w) /\ ~AdmitClear(w) /\ ~Push(w)
          /\ ~Acknowledge(w) /\ ~ClearEngine(w) /\ ~CompleteClear(w) /\ ~Publish(w)
          /\ ~BeginStartup(w) /\ ~StartupClears(w)
          /\ ~BeginRefresh(w) /\ ~Retry(w) /\ ~ReadRows(w) /\ ~PlanRefresh(w)
      BY <2>3, <3>1 DEF Receive, Offer, Admit, AdmitClear, Push, Acknowledge, ClearEngine,
            CompleteClear, Publish, BeginStartup, StartupClears, BeginRefresh, Retry,
            ReadRows, PlanRefresh
    <3> QED  BY <2>1, <2>3, <3>2 DEF WorkerStep, CallerStep
  <2> QED  BY <2>2, <2>3, ProcsAre
<1> QED  BY <1>1, <1>2 DEF Next

LEMMA StructureStep ==
    ASSUME Before, Next
    PROVE  Structure'
<1>1. Structure /\ Sound
  BY DEF Before
<1>2. CASE CallerStep
  BY <1>1, <1>2, SetPriceStep, PushManualStep, TooLateStep, FinishPushStep, CallerAwaitStep,
     ConfigureStep, StopStep, CancelStep, StartStep, StartFailsStep DEF CallerStep
<1>3. ASSUME NEW w \in Workers, WorkerStep(w)
      PROVE  Structure'
  BY <1>1, <1>3, ReceiveStep, OfferStep, AdmitStep, AdmitClearStep, PushStep, AcknowledgeStep,
     ClearEngineStep, CompleteStep, PublishStep, AwaitStep, BeginStartupStep, StartupClearsStep,
     BeginRefreshStep, RetryStep, ReadRowsStep, PlanRefreshStep DEF WorkerStep
<1> QED  BY <1>1, <1>2, <1>3, NextIs

\* A step that leaves the manager as it is.
LEMMA ManagerStill ==
    ASSUME Before, mgr' = mgr, retired' = retired
    PROVE  MgrNext /\ LiveKept /\ FlightKept
<1>1. MgrNext
  BY RowsUnchanged DEF Before, Structure, Data
<1> QED  BY <1>1 DEF LiveKept, FlightKept, ClearKept

\* The steps that change the manager.
LEMMA ManagerMoves ==
    ASSUME Structure, Next
    PROVE  \/ mgr' = mgr /\ retired' = retired
           \/ PushManual \/ BeginStop \/ EndStop \/ Start \/ StartUnknownAsset \/ StartFails
           \/ \E w \in Workers :
                  \/ Push(w) \/ Acknowledge(w) \/ ClearEngine(w) \/ CompleteClear(w)
                  \/ BeginStartup(w) \/ StartupClears(w) \/ PlanRefresh(w)
<1> DEFINE still == mgr' = mgr /\ retired' = retired
<1>1. CASE CallerStep
  <2>1. SetPrice => still
    BY DEF SetPrice
  <2>2. PushManualTooLate => still
    BY DEF PushManualTooLate, history
  <2>3. FinishPush => still
    BY DEF FinishPush, history
  <2>4. Await(caller) => still
    BY DEF Await
  <2>5. Configure => still
    BY DEF Configure
  <2>6. CancelRun => still
    BY DEF CancelRun, history
  <2> QED  BY <1>1, <2>1, <2>2, <2>3, <2>4, <2>5, <2>6 DEF CallerStep
<1>2. ASSUME NEW w \in Workers, WorkerStep(w)
      PROVE  still \/ Push(w) \/ Acknowledge(w) \/ ClearEngine(w) \/ CompleteClear(w)
             \/ BeginStartup(w) \/ StartupClears(w) \/ PlanRefresh(w)
  <2>1. Receive(w) \/ Offer(w) \/ Admit(w) \/ AdmitClear(w) => still
    BY DEF Receive, Offer, Admit, AdmitClear, history
  <2>2. Publish(w) \/ Await(w) \/ BeginRefresh(w) \/ ReadRows(w) => still
    BY DEF Publish, Await, BeginRefresh, ReadRows, history
  <2>3. Retry(w) => still
    BY DEF Retry, ClearNext, history
  <2> QED  BY <1>2, <2>1, <2>2, <2>3 DEF WorkerStep
<1> QED  BY <1>1, <1>2, NextIs

LEMMA ManagerStep ==
    ASSUME Before, Next
    PROVE  MgrNext
<1>1. Structure /\ Workers \subseteq Procs
  BY ProcsAre DEF Before
<1> QED  BY <1>1, ManagerMoves, ManagerStill, PushManualManager, StopManager, StartManager,
            StartFailsManager, PushManager, AcknowledgeManager, ClearEngineManager,
            CompleteManager, BarrierManager, RefreshManager

\* Only the completion of a clear makes the manager forget a mark.
LEMMA LiveStep ==
    ASSUME Before, Next
    PROVE  LiveKept \/ \E w \in Workers : CompleteClear(w)
<1>1. Structure /\ Workers \subseteq Procs
  BY ProcsAre DEF Before
<1> QED  BY <1>1, ManagerMoves, ManagerStill, PushManualManager, StopManager, StartManager,
            StartFailsManager, PushManager, AcknowledgeManager, ClearEngineManager,
            BarrierManager, RefreshManager

FlightOf(w) == LET u == hand[w] p == hand[w].pair IN
    pc[w] \in InSink =>
        /\ u.mark # "feed" => u.token <= mgr.last[p]
        /\ w[1] \in {"drain", "feed"} => mgr.open
        /\ pc[w] \in {"clear", "cleared"} =>
               /\ u.direct \/ u.inverse
               /\ p \notin retired /\ mgr.clears[p].token = u.token =>
                      mgr.clears[p].direct = u.direct /\ mgr.clears[p].inverse = u.inverse
        /\ pc[w] = "sink" /\ u.mark \in Marks /\ p \notin retired =>
               p \in mgr.live /\ (p \in mgr.plan => p \in mgr.liveInverse)
        /\ pc[w] = "acknowledge" /\ u.inverse => p \in mgr.plan

LEMMA OneInSink ==
    ASSUME Structure, NEW w \in Workers, NEW x, sinkGate \in {Free, x}, w # x
    PROVE  pc[w] \notin InSink
  BY ProcsAre DEF Structure, Gates

\* A goroutine that stays in its call while another moves.
LEMMA FlightStays ==
    ASSUME Before, MgrNext, FlightKept, LiveKept, retired \subseteq retired',
           \/ publisher = Free /\ mgr.started
           \/ \A p \in Pairs : mgr'.clears[p] \in {mgr.clears[p], NoClear},
           NEW w \in Workers, pc[w] \in InSink, pc'[w] = pc[w], hand'[w] = hand[w]
    PROVE  FlightOf(w)'
<1> DEFINE u == hand[w] p == hand[w].pair
<1>1. /\ u \in Updates /\ p \in Pairs /\ w \in Procs
      /\ pc[w] \in {"clear", "cleared"} => u.token >= 1 /\ w[1] # "feed" /\ IsClear(u)
      /\ u.token \in Nat
  BY ProcsAre, InHand DEF Updates, Tokens
<1>2. FlightOf(w)
  BY DEF Before, InFlight, FlightOf
<1>3. mgr \in Managers /\ mgr' \in Managers /\ mgr'.last[p] >= mgr.last[p]
  BY <1>1 DEF Before, Structure, Data, MgrNext
<1>4. mgr.last[p] \in Nat /\ mgr'.last[p] \in Nat
  BY <1>1, <1>3 DEF Managers
<1>5. ASSUME pc[w] \in {"clear", "cleared"}, p \notin retired', mgr'.clears[p].token = u.token
      PROVE  mgr'.clears[p].direct = u.direct /\ mgr'.clears[p].inverse = u.inverse
  <2>1. p \notin retired /\ u.token >= 1 /\ u.token <= mgr.last[p]
    BY <1>1, <1>2, <1>5, PairsAssumption DEF FlightOf, IsClear
  <2>2. ClearKept(mgr, mgr', p)
    BY <1>1, <1>5 DEF FlightKept
  <2>3. CASE mgr'.clears[p] = mgr.clears[p]
    BY <1>2, <1>5, <2>1, <2>3 DEF FlightOf
  <2>4. mgr'.clears[p] # NoClear /\ ~(mgr'.clears[p].token > mgr.last[p])
    BY <1>1, <1>4, <1>5, <2>1 DEF NoClear
  <2>5. CASE /\ publisher = Free /\ mgr.started
             /\ mgr.clears[p].inverse /\ p \notin mgr.synthetic
    <3>1. w[1] = "drain"
      <4>1. w[1] \in Roles /\ (Publishes(w, pc[w]) => publisher = w) /\ publisher # w
        BY <2>5, ProcsAre, Resting DEF Before
      <4> QED  BY <1>1, <1>5, <4>1 DEF Publishes, Publishing, Roles
    <3>2. mgr.open
      BY <1>2, <3>1 DEF FlightOf
    <3>3. RowSound(mgr, p) /\ RowTracked(mgr, p)
      BY <1>1, <2>1 DEF Before, Sound, RowsTracked
    <3>4. mgr.held[p] = 0 /\ mgr.clears[p] # NoClear
      BY <2>5, <3>2, <3>3 DEF RowSound, RowTokens, NoClear
    <3>5. p \in mgr.plan /\ mgr.applied[p] = "byo"
      BY <2>5, <3>3, <3>4 DEF RowSound
    <3> QED  BY <2>5, <3>3, <3>5 DEF RowTracked
  <2> QED  BY <1>1, <2>2, <2>3, <2>4, <2>5 DEF ClearKept
<1>6. pc[w] \in {"clear", "cleared"} => u.direct \/ u.inverse
  BY <1>2 DEF FlightOf
<1>7. u.mark # "feed" => u.token <= mgr'.last[p]
  BY <1>1, <1>2, <1>3, <1>4 DEF FlightOf
<1>8. w[1] \in {"drain", "feed"} => mgr'.open
  BY <1>2 DEF FlightOf, FlightKept
<1>9. /\ pc[w] = "sink" /\ u.mark \in Marks /\ p \notin retired' =>
               p \in mgr'.live /\ (p \in mgr'.plan => p \in mgr'.liveInverse)
      /\ pc[w] = "acknowledge" /\ u.inverse => p \in mgr'.plan
  BY <1>1, <1>2 DEF FlightOf, FlightKept, LiveKept
<1> QED  BY <1>5, <1>6, <1>7, <1>8, <1>9 DEF FlightOf

\* The steps during which a call in the engine goes on as it is.
LEMMA FlightGoesOn ==
    ASSUME Before, MgrNext, FlightKept, LiveKept, retired \subseteq retired',
           \/ publisher = Free /\ mgr.started
           \/ \A p \in Pairs : mgr'.clears[p] \in {mgr.clears[p], NoClear},
           \A w \in Workers : pc'[w] \in InSink => pc'[w] = pc[w] /\ hand'[w] = hand[w]
    PROVE  InFlight'
<1>1. ASSUME NEW w \in Workers, pc'[w] \in InSink
      PROVE  FlightOf(w)'
  BY <1>1, FlightStays
<1> QED  BY <1>1 DEF InFlight, FlightOf

\* A step of one goroutine leaves the others where they are.
LEMMA OneMoves ==
    ASSUME Structure, NEW w \in Workers, WorkerStep(w), NEW x \in Procs, x # w
    PROVE  pc'[x] = pc[x] /\ hand'[x] = hand[x] /\ todo'[x] = todo[x]
<1> DEFINE still == pc'[x] = pc[x] /\ hand'[x] = hand[x] /\ todo'[x] = todo[x]
<1>1. pc \in [Procs -> Steps] /\ hand \in [Procs -> Updates] /\ todo \in [Procs -> SUBSET Updates]
  BY DEF Structure, Control
<1>2. \A step : Goto(w, step) => pc'[x] = pc[x]
  BY <1>1 DEF Goto
<1>3. \A u : Take(w, u) => hand'[x] = hand[x]
  BY <1>1 DEF Take
<1>4. \A step : Leave(w, step) => pc'[x] = pc[x] /\ hand'[x] = hand[x]
  BY <1>2, <1>3 DEF Leave
<1>5. \A u, ok : Cleared(w, u, ok) => pc'[x] = pc[x] /\ hand'[x] = hand[x]
  BY <1>4 DEF Cleared
<1>6. \A u : BeginClear(w, u) => pc'[x] = pc[x] /\ hand'[x] = hand[x]
  BY <1>2, <1>3, <1>5 DEF BeginClear
<1>7. LeaveTodo(w) => todo'[x] = todo[x]
  BY <1>1 DEF LeaveTodo
<1>8. PublishOrRest(w) => pc'[x] = pc[x]
  BY <1>2 DEF PublishOrRest
<1>9. ClearNext(w) => still
  BY <1>1, <1>6 DEF ClearNext
<1>10. ReadRevision(w) => pc'[x] = pc[x]
  BY <1>2 DEF ReadRevision
<1>11. Receive(w) \/ Offer(w) => still
  BY <1>2, <1>3 DEF Receive, Offer
<1>12. Admit(w) => still
  BY <1>2, <1>4 DEF Admit
<1>13. AdmitClear(w) => still
  BY <1>6 DEF AdmitClear
<1>14. Push(w) => still
  BY <1>2, <1>3, <1>4 DEF Push
<1>15. Acknowledge(w) => still
  BY <1>4 DEF Acknowledge
<1>16. ClearEngine(w) => still
  BY <1>2, <1>5, <1>7 DEF ClearEngine
<1>17. CompleteClear(w) => still
  BY <1>5, <1>7 DEF CompleteClear
<1>18. Publish(w) => still
  BY <1>1, <1>2, <1>3, <1>8 DEF Publish
<1>19. Await(w) => still
  BY <1>3, <1>4, <1>7, <1>8 DEF Await
<1>20. BeginStartup(w) => still
  BY <1>2, <1>8 DEF BeginStartup
<1>21. StartupClears(w) => still
  BY <1>8, <1>9 DEF StartupClears
<1>22. BeginRefresh(w) => still
  BY <1>1, <1>2, <1>10 DEF BeginRefresh
<1>23. Retry(w) => still
  BY <1>9, <1>10 DEF Retry
<1>24. ReadRows(w) => still
  BY <1>2 DEF ReadRows
<1>25. PlanRefresh(w) => still
  BY <1>1, <1>8 DEF PlanRefresh
<1> QED  BY <1>11, <1>12, <1>13, <1>14, <1>15, <1>16, <1>17, <1>18, <1>19, <1>20, <1>21,
            <1>22, <1>23, <1>24, <1>25 DEF WorkerStep

\* So does a step of the caller, unless it ends or starts a run.
LEMMA CallerAlone ==
    ASSUME Structure, CallerStep, NEW x \in Workers
    PROVE  \/ CancelRun \/ Start \/ StartUnknownAsset
           \/ pc'[x] = pc[x] /\ hand'[x] = hand[x] /\ todo'[x] = todo[x]
<1> DEFINE still == pc'[x] = pc[x] /\ hand'[x] = hand[x] /\ todo'[x] = todo[x]
<1>1. /\ pc \in [Procs -> Steps] /\ hand \in [Procs -> Updates]
      /\ todo \in [Procs -> SUBSET Updates] /\ x \in Procs /\ x # caller
  BY ProcsAre DEF Structure, Control
<1>2. \A step : Goto(caller, step) => pc'[x] = pc[x]
  BY <1>1 DEF Goto
<1>3. \A u : Take(caller, u) => hand'[x] = hand[x]
  BY <1>1 DEF Take
<1>4. \A step : Leave(caller, step) => pc'[x] = pc[x] /\ hand'[x] = hand[x]
  BY <1>2, <1>3 DEF Leave
<1>5. LeaveTodo(caller) => todo'[x] = todo[x]
  BY <1>1 DEF LeaveTodo
<1>6. SetPrice => still
  BY <1>2, <1>3 DEF SetPrice
<1>7. PushManual => still
  BY <1>2, <1>3, <1>4 DEF PushManual
<1>8. PushManualTooLate => still
  BY <1>4 DEF PushManualTooLate
<1>9. FinishPush => still
  BY <1>2, <1>4 DEF FinishPush
<1>10. Await(caller) => still
  BY <1>3, <1>4, <1>5 DEF Await
<1>11. Configure => still
  BY DEF Configure
<1>12. BeginStop \/ EndStop => still
  BY <1>2 DEF BeginStop, EndStop
<1>13. StartFails => still
  BY DEF StartFails
<1> QED  BY <1>6, <1>7, <1>8, <1>9, <1>10, <1>11, <1>12, <1>13 DEF CallerStep

\* Where an entry of the sink comes from.
LEMMA Entering ==
    ASSUME Structure, NEW w \in Workers, WorkerStep(w), pc'[w] \in InSink
    PROVE  \/ /\ Admit(w) /\ IsCurrent(hand[w])
              /\ pc'[w] = "sink" /\ hand'[w] = hand[w]
           \/ /\ pc[w] \in {"got", "clears", "retry"}
              /\ pc'[w] = "clear" /\ hand'[w] \in Updates /\ ClearIsCurrent(hand'[w])
              /\ sinkGate = Free /\ mgr' = mgr /\ retired' = retired
              /\ pc[w] = "got" => w[1] = "drain" /\ BarrierOpen(w)
              /\ pc[w] # "got" => w[1] # "drain" /\ w[1] # "feed"
           \/ /\ Push(w) /\ pc'[w] = "acknowledge"
              /\ \E i \in BOOLEAN : /\ hand'[w] = [hand[w] EXCEPT !.inverse = i]
                                    /\ i => hand[w].pair \in mgr.plan
              /\ hand[w].mark # "feed"
           \/ ClearEngine(w) /\ pc'[w] = "cleared" /\ hand'[w] = hand[w] /\ mgr' = mgr
              /\ retired' = retired
<1>1. /\ pc \in [Procs -> Steps] /\ hand \in [Procs -> Updates]
      /\ todo \in [Procs -> SUBSET Updates] /\ w \in Procs
      /\ Fits(w, pc[w], hand[w], todo[w])
  BY Resting
<1>2. \A step : Goto(w, step) => pc'[w] = step
  BY <1>1 DEF Goto
<1>3. \A u : Take(w, u) => hand'[w] = u
  BY <1>1 DEF Take
<1>4. \A step : Leave(w, step) => pc'[w] \in {"off", step}
  BY <1>2 DEF Leave
<1>5. \A u, ok : Cleared(w, u, ok) /\ w[1] \in {"drain", "startup", "refresh"}
                     => pc'[w] \notin InSink
  BY <1>4 DEF Cleared, InSink
<1>6. \A u : BeginClear(w, u) /\ w[1] \in {"drain", "startup", "refresh"} =>
          /\ ClearIsCurrent(u) /\ pc'[w] = "clear" /\ hand'[w] = u /\ sinkGate = Free
  BY <1>2, <1>3, <1>5 DEF BeginClear
<1>7. PublishOrRest(w) => pc'[w] \notin InSink
  BY <1>2 DEF PublishOrRest, InSink
<1>8. ReadRevision(w) => pc'[w] \notin InSink
  BY <1>2 DEF ReadRevision, InSink
<1>9. ~Receive(w) /\ ~Offer(w) /\ ~Acknowledge(w) /\ ~Publish(w) /\ ~Await(w) /\ ~BeginStartup(w)
      /\ ~BeginRefresh(w) /\ ~ReadRows(w) /\ ~PlanRefresh(w)
  <2>1. ~Receive(w) /\ ~Offer(w)
    BY <1>2 DEF Receive, Offer, InSink
  <2>2. ~Acknowledge(w)
    BY <1>4 DEF Acknowledge, InSink
  <2>3. ~Publish(w)
    BY <1>2, <1>7 DEF Publish, InSink
  <2>4. ~Await(w)
    BY <1>7, ProcsAre DEF Await
  <2>5. ~BeginStartup(w)
    BY <1>2, <1>7 DEF BeginStartup, InSink
  <2>6. ~BeginRefresh(w)
    BY <1>2, <1>8 DEF BeginRefresh, InSink
  <2>7. ~ReadRows(w)
    BY <1>2 DEF ReadRows, InSink
  <2>8. ~PlanRefresh(w)
    BY <1>7 DEF PlanRefresh
  <2> QED  BY <2>1, <2>2, <2>3, <2>4, <2>5, <2>6, <2>7, <2>8
<1>10. CASE Admit(w)
  BY <1>2, <1>4, <1>10 DEF Admit, InSink
<1>11. CASE AdmitClear(w)
  <2>1. pc[w] = "got" /\ IsClear(hand[w]) /\ BarrierOpen(w) /\ BeginClear(w, hand[w])
        /\ mgr' = mgr /\ retired' = retired
    BY <1>11 DEF AdmitClear, history
  <2>2. w[1] = "drain"
    <3>1. Offered(w, hand[w]) /\ w[1] \in {"drain", "feed"}
      BY <1>1, <2>1, Resting DEF Fits, StepsOf, Roles, InSink
    <3> QED  BY <2>1, <3>1 DEF Offered, IsClear
  <2> QED  BY <1>1, <1>6, <2>1, <2>2
<1>12. CASE ClearNext(w) /\ pc[w] \in {"clears", "retry"} /\ retired' = retired
  <2>1. PICK u \in Clears(w) : BeginClear(w, u)
    BY <1>12 DEF ClearNext
  <2>2. u \in Updates /\ w[1] \in {"startup", "refresh"} /\ mgr' = mgr
    BY <1>1, <1>12, Resting DEF Fits, StepsOf, Roles, InSink, Clears, ClearNext
  <2> QED  BY <1>6, <1>12, <2>1, <2>2
<1>13. CASE StartupClears(w)
  <2>1. ClearNext(w) /\ pc[w] \in {"clears", "retry"} /\ retired' = retired
    BY <1>7, <1>13 DEF StartupClears, history
  <2> QED  BY <1>12, <2>1
<1>14. CASE Retry(w)
  <2>1. ClearNext(w) /\ pc[w] \in {"clears", "retry"} /\ retired' = retired
    BY <1>8, <1>14 DEF Retry, history
  <2> QED  BY <1>12, <2>1
<1>15. CASE Push(w)
  <2>1. pc'[w] \notin {"off", "recv"}
    BY DEF InSink
  <2>2. \E i \in BOOLEAN :
            /\ i => hand[w].pair \in mgr.plan
            /\ hand[w].mark # "feed" /\ Goto(w, "acknowledge")
            /\ Take(w, [hand[w] EXCEPT !.inverse = i])
    BY <1>4, <1>15, <2>1 DEF Push
  <2> QED  BY <1>2, <1>3, <1>15, <2>2
<1>16. CASE ClearEngine(w) \/ CompleteClear(w)
  <2>1. w[1] \in {"drain", "startup", "refresh"}
    BY <1>1, <1>16, Resting DEF Fits, StepsOf, Roles, ClearEngine, CompleteClear
  <2>2. \A u, ok : ~Cleared(w, u, ok)
    BY <1>5, <2>1
  <2>3. ~CompleteClear(w)
    BY <2>2 DEF CompleteClear
  <2>4. Goto(w, "cleared") /\ hand' = hand /\ mgr' = mgr /\ retired' = retired
    BY <1>16, <2>2, <2>3 DEF ClearEngine
  <2> QED  BY <1>2, <1>16, <2>3, <2>4
<1> QED  BY <1>9, <1>10, <1>11, <1>13, <1>14, <1>15, <1>16 DEF WorkerStep

\* The history of the pairs that lost their assets only grows.
LEMMA RetiredGrows ==
    ASSUME Before, Next
    PROVE  retired \subseteq retired'
<1>1. Structure
  BY DEF Before
<1>2. PushManual => retired' = retired
  BY DEF PushManual, history
<1>3. BeginStop \/ EndStop => retired' = retired
  BY DEF BeginStop, EndStop, history
<1>4. ASSUME NEW w \in Workers,
             \/ Push(w) \/ Acknowledge(w) \/ CompleteClear(w)
             \/ BeginStartup(w) \/ StartupClears(w) \/ PlanRefresh(w)
      PROVE  retired' = retired
  BY <1>4 DEF Push, Acknowledge, CompleteClear, BeginStartup, StartupClears, PlanRefresh, history
<1>5. ASSUME NEW w \in Workers, ClearEngine(w)
      PROVE  retired \subseteq retired'
  BY <1>5 DEF ClearEngine
<1>6. Start \/ StartUnknownAsset \/ StartFails => retired \subseteq retired'
  BY StartEngine
<1> QED  BY <1>1, <1>2, <1>3, <1>4, <1>5, <1>6, ManagerMoves

\* The clears of the manager while a goroutine may be in the engine.
LEMMA ClearsWait ==
    ASSUME Before,
           \/ PushManual \/ BeginStop \/ EndStop \/ StartFails \/ mgr' = mgr
           \/ \E w \in Workers : BeginStartup(w) \/ StartupClears(w) \/ PlanRefresh(w)
    PROVE  \/ publisher = Free /\ mgr.started
           \/ \A p \in Pairs : mgr'.clears[p] \in {mgr.clears[p], NoClear}
<1>1. mgr \in Managers
  BY DEF Before, Structure, Data
<1>2. CASE PushManual
  BY <1>2 DEF PushManual
<1>3. CASE BeginStop
  BY <1>1, <1>3 DEF BeginStop, Managers
<1>4. CASE EndStop
  <2>1. mgr' = NoState(mgr)
    BY <1>4 DEF EndStop
  <2>2. mgr'.clears = [p \in Pairs |-> NoClear]
    BY <1>1, <2>1 DEF NoState, Managers
  <2> QED  BY <2>2
<1>5. CASE StartFails
  <2>1. \E l : mgr' = [mgr EXCEPT !.latest = l]
    BY <1>5 DEF StartFails
  <2> QED  BY <1>1, <2>1 DEF Managers
<1>6. ASSUME NEW w \in Workers, BeginStartup(w) \/ StartupClears(w)
      PROVE  mgr'.clears = mgr.clears
  <2>1. mgr' = mgr \/ mgr' = [mgr EXCEPT !.open = TRUE]
    BY <1>6 DEF BeginStartup, StartupClears, ClearNext, ReleaseBarrier
  <2> QED  BY <1>1, <2>1 DEF Managers
<1>7. ASSUME NEW w \in Workers, PlanRefresh(w)
      PROVE  publisher = Free /\ (mgr.started \/ mgr' = mgr)
  BY <1>7 DEF PlanRefresh, StillAsRead
<1> QED  BY <1>2, <1>3, <1>4, <1>5, <1>6, <1>7

LEMMA InFlightStep ==
    ASSUME Before, Next
    PROVE  InFlight'
<1>1. /\ Structure /\ MgrNext /\ retired \subseteq retired' /\ Workers \subseteq Procs
      /\ mgr \in Managers /\ pc \in [Procs -> Steps]
  BY ManagerStep, RetiredGrows, ProcsAre DEF Before, Structure, Data, Control
<1> DEFINE waits == \/ publisher = Free /\ mgr.started
                    \/ \A p \in Pairs : mgr'.clears[p] \in {mgr.clears[p], NoClear}
<1>2. CASE CallerStep
  <2>1. CASE CancelRun
    <3>1. mgr' = mgr /\ retired' = retired
      BY <2>1 DEF CancelRun, history
    <3>2. \A w \in Workers : pc'[w] \in InSink => pc'[w] = pc[w] /\ hand'[w] = hand[w]
      BY <1>1, <2>1, ProcsAre DEF CancelRun, InSink
    <3>3. waits
      BY <1>1, <3>1, ClearsWait
    <3> QED  BY <1>1, <3>1, <3>2, <3>3, ManagerStill, FlightGoesOn
  <2>2. CASE Start \/ StartUnknownAsset
    BY <1>1, <2>2, StartStep DEF InFlight
  <2>3. CASE ~CancelRun /\ ~Start /\ ~StartUnknownAsset
    <3>1. \A w \in Workers : pc'[w] = pc[w] /\ hand'[w] = hand[w]
      BY <1>1, <1>2, <2>3, CallerAlone
    <3>2. /\ mgr' = mgr /\ retired' = retired
          \/ PushManual \/ BeginStop \/ EndStop \/ StartFails
      <4>1. SetPrice \/ PushManualTooLate \/ FinishPush \/ Await(caller) \/ Configure
            => mgr' = mgr /\ retired' = retired
        BY DEF SetPrice, PushManualTooLate, FinishPush, Await, Configure, history
      <4> QED  BY <1>2, <2>3, <4>1 DEF CallerStep
    <3>3. LiveKept /\ FlightKept
      BY <3>2, ManagerStill, PushManualManager, StopManager, StartFailsManager
    <3>4. waits
      BY <3>2, ClearsWait
    <3> QED  BY <1>1, <3>1, <3>3, <3>4, FlightGoesOn
  <2> QED  BY <2>1, <2>2, <2>3
<1>3. ASSUME NEW w \in Workers, WorkerStep(w), pc'[w] \notin InSink
      PROVE  InFlight'
  <2>1. \A x \in Workers : x # w => pc'[x] = pc[x] /\ hand'[x] = hand[x]
    BY <1>1, <1>3, OneMoves
  <2>2. CASE pc[w] \in InSink
    <3>1. sinkGate = w
      BY <1>1, <2>2 DEF Structure, Gates
    <3>2. \A x \in Workers : x # w => pc'[x] \notin InSink
      BY <1>1, <2>1, <3>1, OneInSink
    <3> QED  BY <1>3, <3>2 DEF InFlight
  <2>3. CASE pc[w] \notin InSink
    <3>1. /\ mgr' = mgr /\ retired' = retired
          \/ BeginStartup(w) \/ StartupClears(w) \/ PlanRefresh(w)
      <4>1. ~Push(w) /\ ~Acknowledge(w) /\ ~ClearEngine(w) /\ ~CompleteClear(w)
        BY <2>3 DEF Push, Acknowledge, ClearEngine, CompleteClear, InSink
      <4>2. Receive(w) \/ Offer(w) \/ Admit(w) \/ AdmitClear(w) => mgr' = mgr /\ retired' = retired
        BY DEF Receive, Offer, Admit, AdmitClear, history
      <4>3. Publish(w) \/ Await(w) \/ BeginRefresh(w) \/ ReadRows(w) => mgr' = mgr /\ retired' = retired
        BY DEF Publish, Await, BeginRefresh, ReadRows, history
      <4>4. Retry(w) => mgr' = mgr /\ retired' = retired
        BY DEF Retry, ClearNext, history
      <4> QED  BY <1>3, <4>1, <4>2, <4>3, <4>4 DEF WorkerStep
    <3>2. LiveKept /\ FlightKept
      BY <1>1, <3>1, ManagerStill, BarrierManager, RefreshManager
    <3>3. waits
      BY <3>1, ClearsWait
    <3>4. \A x \in Workers : pc'[x] \in InSink => pc'[x] = pc[x] /\ hand'[x] = hand[x]
      BY <1>3, <2>1
    <3> QED  BY <1>1, <3>2, <3>3, <3>4, FlightGoesOn
  <2> QED  BY <2>2, <2>3
<1>4. ASSUME NEW w \in Workers, WorkerStep(w), pc'[w] \in InSink
      PROVE  InFlight'
  <2> DEFINE u == hand[w] p == hand[w].pair v == hand'[w]
  <2>0. Fits(w, pc[w], hand[w], todo[w]) /\ w[1] \in Roles /\ hand[w] \in Updates
    BY <1>1, Resting
  <2>1. sinkGate \in {Free, w}
    <3>1. pc[w] \in InSink => sinkGate = w
      BY <1>1 DEF Structure, Gates
    <3>2. Admit(w) => sinkGate = Free
      BY DEF Admit
    <3>3. Push(w) \/ ClearEngine(w) => pc[w] \in InSink
      BY DEF Push, ClearEngine, InSink
    <3> QED  BY <1>1, <1>4, <3>1, <3>2, <3>3, Entering
  <2>2. \A x \in Workers : x # w => pc'[x] \notin InSink
    BY <1>1, <1>4, <2>1, OneMoves, OneInSink
  <2>3. CASE Admit(w) /\ IsCurrent(u) /\ pc'[w] = "sink" /\ v = u
    <3>1. pc[w] = "got" /\ ~IsClear(u) /\ mgr.open /\ mgr' = mgr /\ retired' = retired
      BY <2>3 DEF Admit, BarrierOpen, history
    <3>2. u.mark # "feed" => u.pair \in Pairs /\ u.mark \in Marks
      BY <2>0, <3>1 DEF Fits, Offered, Manual, IsClear
    <3>3. ASSUME u.mark # "feed"
          PROVE  /\ u.token <= mgr.last[p]
                 /\ p \notin retired => p \in mgr.live /\ (p \in mgr.plan => p \in mgr.liveInverse)
      <4>1. RowSound(mgr, p) /\ mgr.token[p] = u.token /\ mgr.mark[p] \in Marks
        BY <2>3, <3>2, <3>3 DEF Before, Sound, IsCurrent
      <4>2. p \notin retired => RowTracked(mgr, p)
        BY <3>2, <3>3 DEF Before, RowsTracked
      <4> QED  BY <4>1, <4>2 DEF RowSound, RowTokens, RowTracked
    <3>4. "feed" \notin Marks
      BY PairsAssumption
    <3>5. FlightOf(w)'
      BY <2>3, <3>1, <3>3, <3>4 DEF FlightOf
    <3> QED  BY <2>2, <3>5 DEF InFlight, FlightOf
  <2>4. CASE /\ pc[w] \in {"got", "clears", "retry"}
             /\ pc'[w] = "clear" /\ v \in Updates /\ ClearIsCurrent(v)
             /\ mgr' = mgr /\ retired' = retired
             /\ pc[w] = "got" => w[1] = "drain" /\ BarrierOpen(w)
             /\ pc[w] # "got" => w[1] # "drain" /\ w[1] # "feed"
    <3>1. Fits(w, pc'[w], v, todo'[w])
      BY StructureStep DEF Structure, Hands
    <3>2. v.pair \in Pairs /\ IsClear(v) /\ v.token >= 1 /\ v.token \in Nat
      BY <2>4, <3>1 DEF Fits, Offered, Manual, IsClear, InSink, Updates, Tokens
    <3>3. RowTokens(mgr, v.pair)
      BY <3>2 DEF Before, Sound, RowSound
    <3>4. /\ mgr.clears[v.pair].token = v.token
          /\ mgr.clears[v.pair].direct = v.direct /\ mgr.clears[v.pair].inverse = v.inverse
      BY <2>4 DEF ClearIsCurrent
    <3>5. mgr.clears[v.pair] # NoClear
      BY <3>2, <3>4 DEF NoClear
    <3>6. v.token <= mgr.last[v.pair] /\ (v.direct \/ v.inverse)
      BY <3>3, <3>4, <3>5 DEF RowTokens
    <3>7. w[1] \in {"drain", "feed"} => mgr.open
      BY <2>4 DEF BarrierOpen
    <3>8. FlightOf(w)'
      BY <2>4, <3>4, <3>6, <3>7 DEF FlightOf
    <3> QED  BY <2>2, <3>8 DEF InFlight, FlightOf
  <2>5. CASE /\ Push(w) /\ pc'[w] = "acknowledge"
             /\ \E i \in BOOLEAN : v = [u EXCEPT !.inverse = i] /\ (i => p \in mgr.plan)
             /\ u.mark # "feed"
    <3>1. pc[w] = "sink" /\ pc[w] \in InSink
      BY <2>5 DEF Push, InSink
    <3>2. FlightOf(w)
      BY DEF Before, InFlight, FlightOf
    <3>3. v.pair = p /\ v.token = u.token /\ v.mark = u.mark /\ (v.inverse => p \in mgr.plan)
      BY <2>0, <2>5 DEF Updates
    <3>4. p \in Pairs /\ u.token \in Nat
      BY <1>1, <2>0, <3>1, InHand DEF Updates, Tokens
    <3>5. Grows(mgr, mgr') /\ FlightKept
      BY <1>1, <2>5, PushManager
    <3>6. u.token <= mgr'.last[p] /\ mgr'.plan = mgr.plan
      <4>1. mgr.last[p] \in Nat /\ mgr'.last[p] \in Nat /\ mgr'.last[p] >= mgr.last[p]
        BY <1>1, <3>4, <3>5 DEF Grows, Managers
      <4> QED  BY <2>5, <3>1, <3>2, <3>4, <3>5, <4>1 DEF FlightOf, FlightKept
    <3>7. w[1] \in {"drain", "feed"} => mgr'.open
      BY <3>1, <3>2, <3>5 DEF FlightOf, FlightKept
    <3>8. FlightOf(w)'
      BY <2>5, <3>3, <3>6, <3>7 DEF FlightOf
    <3> QED  BY <2>2, <3>8 DEF InFlight, FlightOf
  <2>6. CASE /\ ClearEngine(w) /\ pc'[w] = "cleared" /\ v = u /\ mgr' = mgr
             /\ retired' = retired
    <3>1. pc[w] = "clear" /\ pc[w] \in InSink
      BY <2>6 DEF ClearEngine, InSink
    <3>2. FlightOf(w)
      BY DEF Before, InFlight, FlightOf
    <3>3. FlightOf(w)'
      BY <2>6, <3>1, <3>2 DEF FlightOf
    <3> QED  BY <2>2, <3>3 DEF InFlight, FlightOf
  <2> QED  BY <1>1, <1>4, <2>3, <2>4, <2>5, <2>6, Entering
<1> QED  BY <1>1, <1>2, <1>3, <1>4, NextIs

LEMMA BeforeInit ==
    ASSUME Init
    PROVE  Before
<1>1. /\ \A p \in Pairs : p # "none" /\ Opposite[p] \in Pairs
      /\ MaxRuns \in Nat /\ 0 \in 0 .. MaxRuns /\ NoUpdate \in Updates
  BY PairsAssumption, UpdatesAre
<1>2. config \in [Pairs -> Rows]
  BY SavedAssumption DEF Init
<1>3. mgr \in Managers
  BY <1>1 DEF Init, Managers, ClearStates, NoClear
<1>4. Data
  <2>1. NotSeen \in Reads
    BY <1>1 DEF NotSeen, Reads, Rows
  <2>2. Empty \in Quotes
    BY <1>1 DEF Empty, Quotes
  <2>3. seen \in [Runs -> Reads] /\ engine \in [Pairs -> Quotes]
    BY <2>1, <2>2 DEF Init
  <2>4. /\ cancelled \subseteq Runs /\ queue \in [Runs -> {<<>>} \cup {<<u>> : u \in Updates}]
        /\ answer = "none" /\ shown \in [Pairs -> Nat] /\ told = "none"
        /\ retired = {} /\ adopted = {}
    BY DEF Init
  <2> QED  BY <1>2, <1>3, <2>3, <2>4 DEF Data
<1>5. /\ \A w \in Workers : pc[w] = "off" /\ hand[w] = NoUpdate /\ todo[w] = {}
      /\ pc[caller] = "idle" /\ hand[caller] = NoUpdate /\ todo[caller] = {}
      /\ \A w \in Procs : pc[w] \in {"off", "idle"}
  BY ProcsAre DEF Init
<1>6. Control
  BY <1>1 DEF Init, Control, Steps
<1>7. Hands
  <2>1. ASSUME NEW w \in Workers PROVE Fits(w, "off", NoUpdate, {})
    BY <2>1, ProcsAre DEF Fits, StepsOf, Roles, InSink
  <2>2. CallerFits("idle", NoUpdate)
    BY DEF CallerFits, StepsOf
  <2>3. \A r \in Runs : queue[r] = <<>>
    BY DEF Init
  <2> QED  BY <1>5, <2>1, <2>2, <2>3 DEF Hands
<1>8. /\ mgr.run = 0 /\ ~mgr.started /\ mgr.open /\ cancelled = {}
      /\ \A r \in Runs : seen[r].run = 0
  BY DEF Init, NotSeen
<1>9. RunsInTurn
  <2>1. \A r \in Runs : r > 0 /\ ~(r < 0)
    BY DEF Runs
  <2> QED  BY <1>5, <1>8, <2>1, ProcsAre DEF RunsInTurn, InSink
<1>10. Gates
  BY <1>5, ProcsAre DEF Init, Gates, InSink, Publishing
<1>11. Sound /\ RowsTracked
  <2>1. \A p \in Pairs : /\ mgr.mark[p] = "none" /\ mgr.token[p] = 0 /\ mgr.last[p] = 0
                         /\ mgr.held[p] = 0 /\ mgr.clears[p] = NoClear /\ mgr.applied[p] = "off"
    BY DEF Init
  <2>2. mgr.synthetic = {} /\ mgr.plan = {} /\ mgr.live = {} /\ mgr.liveInverse = {}
    BY DEF Init
  <2>3. "none" \notin Marks
    BY PairsAssumption
  <2> QED  BY <1>8, <2>1, <2>2, <2>3 DEF Sound, RowsTracked, RowSound, RowTokens, RowTracked, NoClear
<1>12. InFlight
  BY <1>5 DEF InFlight, InSink
<1> QED  BY <1>4, <1>6, <1>7, <1>9, <1>10, <1>11, <1>12 DEF Before, Structure

LEMMA BeforeStep ==
    ASSUME Before, [Next]_vars
    PROVE  Before'
<1>1. CASE Next
  BY <1>1, StructureStep, ManagerStep, InFlightStep DEF Before, MgrNext
<1>2. CASE UNCHANGED vars
  BY <1>2 DEF vars, history, Before, Structure, Data, Control, Hands, CallerFits, RunsInTurn,
       Gates, Sound, RowsTracked, InFlight
<1> QED  BY <1>1, <1>2

\* At every state of a runtime the goroutines are where their gates and their
\* run allow (Structure), what is kept for each pair is sound and goes with the
\* rows (Sound, RowsTracked), and what is on its way to the engine was accounted
\* for before it was sent (InFlight).
THEOREM BeforeHolds == Spec => []Before
<1>1. Init => Before
  BY BeforeInit
<1>2. Before /\ [Next]_vars => Before'
  BY BeforeStep
<1> QED  BY <1>1, <1>2, PTL DEF Spec

-----------------------------------------------------------------------------
(* The engine                                                                *)

\* No change reached the engine that is newer than those in the hands.
InOrder ==
    /\ \A p \in Pairs : shown[p] <= mgr.last[p]
    /\ \A w \in Workers : LET u == hand[w] IN
           (pc[w] = "sink" /\ u.mark # "feed") \/ (pc[w] = "clear" /\ u.direct)
               => shown[u.pair] <= u.token

\* The quotes of a pair are its own or its inverse's; those cleared are gone.
Quoted ==
    /\ \A x \in Pairs :
           /\ engine[x].of \in {"none", x, Opposite[x]}
           /\ engine[x].mark = "none" <=> engine[x].of = "none"
    /\ \A w \in Workers : pc[w] = "cleared" =>
           \A x \in Targets(hand[w]) : engine[x] = Empty

\* The steps that change the engine.
LEMMA EngineMoves ==
    ASSUME Structure, Next
    PROVE  \/ UNCHANGED <<engine, shown, adopted>>
           \/ Start \/ StartUnknownAsset \/ StartFails
           \/ \E w \in Workers : Push(w) \/ ClearEngine(w)
<1> DEFINE still == UNCHANGED <<engine, shown, adopted>>
<1>1. CASE CallerStep
  <2>1. SetPrice \/ Await(caller) \/ Configure \/ CancelRun => still
    BY DEF SetPrice, Await, Configure, CancelRun, history
  <2>2. PushManualTooLate \/ FinishPush \/ PushManual => still
    BY DEF PushManualTooLate, FinishPush, PushManual, history
  <2>3. BeginStop \/ EndStop => still
    BY DEF BeginStop, EndStop, history
  <2> QED  BY <1>1, <2>1, <2>2, <2>3 DEF CallerStep
<1>2. ASSUME NEW w \in Workers, WorkerStep(w)
      PROVE  still \/ Push(w) \/ ClearEngine(w)
  <2>1. Receive(w) \/ Offer(w) \/ Admit(w) \/ AdmitClear(w) => still
    BY DEF Receive, Offer, Admit, AdmitClear, history
  <2>2. Publish(w) \/ Await(w) \/ BeginRefresh(w) \/ ReadRows(w) => still
    BY DEF Publish, Await, BeginRefresh, ReadRows, history
  <2>3. Acknowledge(w) \/ CompleteClear(w) \/ BeginStartup(w) => still
    BY DEF Acknowledge, CompleteClear, BeginStartup, history
  <2>4. StartupClears(w) \/ Retry(w) \/ PlanRefresh(w) => still
    BY DEF StartupClears, Retry, PlanRefresh, history
  <2> QED  BY <1>2, <2>1, <2>2, <2>3, <2>4 DEF WorkerStep
<1> QED  BY <1>1, <1>2, NextIs

\* In the engine, a goroutine moves by itself, or nothing changes there.
LEMMA SinkStep ==
    ASSUME Before, Next, NEW w \in Workers, pc'[w] \in InSink
    PROVE  \/ WorkerStep(w)
           \/ /\ pc[w] = pc'[w] /\ hand'[w] = hand[w] /\ sinkGate = w
              /\ UNCHANGED <<engine, shown, adopted>>
<1> SUFFICES ASSUME ~WorkerStep(w)
             PROVE  /\ pc[w] = pc'[w] /\ hand'[w] = hand[w] /\ sinkGate = w
                    /\ UNCHANGED <<engine, shown, adopted>>
  OBVIOUS
<1>1. Structure /\ w \in Procs /\ w # caller /\ pc \in [Procs -> Steps]
  BY ProcsAre DEF Before, Structure, Control
<1>2. pc[w] = pc'[w] /\ hand'[w] = hand[w]
  <2>1. CASE CancelRun
    <3>1. pc'[w] # "off"
      BY DEF InSink
    <3> QED  BY <1>1, <2>1, <3>1 DEF CancelRun
  <2>2. CASE CallerStep /\ ~CancelRun
    <3>1. ~Start /\ ~StartUnknownAsset
      BY <1>1, StartStep
    <3> QED  BY <1>1, <2>2, <3>1, CallerAlone
  <2>3. ASSUME NEW x \in Workers, WorkerStep(x)
        PROVE  pc[w] = pc'[w] /\ hand'[w] = hand[w]
    BY <1>1, <2>3, OneMoves
  <2> QED  BY <1>1, <2>1, <2>2, <2>3, NextIs
<1>3. sinkGate = w
  BY <1>1, <1>2 DEF Structure, Gates
<1>4. ~Start /\ ~StartUnknownAsset /\ ~StartFails
  BY <1>1, <1>3, ProcsAre DEF Start, StartUnknownAsset, StartFails, CanStart
<1>5. ASSUME NEW x \in Workers, Push(x) \/ ClearEngine(x)
      PROVE  FALSE
  <2>1. pc[x] \in InSink
    BY <1>5 DEF Push, ClearEngine, InSink
  <2>2. x = w
    BY <1>1, <1>3, <2>1, OneInSink
  <2> QED  BY <1>5, <2>2 DEF WorkerStep
<1> QED  BY <1>1, <1>2, <1>3, <1>4, <1>5, EngineMoves

\* A quote that reaches the engine.
LEMMA PushIs ==
    ASSUME Before, NEW w \in Workers, Push(w)
    PROVE  LET u == hand[w] p == u.pair q == [mark |-> u.mark, of |-> p, run |-> u.run] IN
           /\ pc[w] = "sink" /\ p \in Pairs /\ u.mark \in {"feed"} \cup Marks /\ u.run = mgr.run
           /\ engine' \in [Pairs -> Quotes]
           /\ \A x \in Pairs : \/ engine'[x] = engine[x]
                               \/ x = p /\ engine'[x] = q
                               \/ x = Opposite[p] /\ engine'[x] = q /\ p \in mgr.plan
           /\ adopted' \subseteq adopted
           /\ \A x \in Pairs : engine'[x] = engine[x] /\ x \in adopted => x \in adopted'
           /\ \/ UNCHANGED <<mgr, engine, shown, adopted>>
              \/ /\ mgr'.latest = mgr.latest \cup {<<Source(u.mark), p>>}
                 /\ engine'[p] = q
                 /\ u.mark = "feed" => shown' = shown /\ pc'[w] # "acknowledge"
                 /\ u.mark # "feed" => shown' = [shown EXCEPT ![p] = u.token]
<1> DEFINE u == hand[w] p == u.pair q == [mark |-> u.mark, of |-> p, run |-> u.run]
           direct == [engine EXCEPT ![p] = q]
           both == [direct EXCEPT ![Opposite[p]] = direct[p]]
<1>1. pc[w] = "sink" /\ pc[w] \in InSink /\ w \in Procs
  BY ProcsAre DEF Push, InSink
<1>2. /\ p \in Pairs /\ u.run = mgr.run /\ u.mark \in {"feed"} \cup Marks
      /\ u.run \in 0 .. MaxRuns
  <2>1. mgr.run \in 0 .. MaxRuns
    BY DEF Before, Structure, Data, Managers
  <2> QED  BY <1>1, <2>1, InHand DEF Manual, IsClear
<1>3. engine \in [Pairs -> Quotes] /\ mgr \in Managers /\ pc \in [Procs -> Steps]
  BY DEF Before, Structure, Data, Control
<1>4. /\ engine' = engine \/ engine' = direct \/ (engine' = both /\ p \in mgr.plan)
      /\ (adopted' = adopted \/ adopted' = {x \in adopted : engine'[x] = engine[x]})
  BY DEF Push
<1>5. \/ UNCHANGED <<mgr, engine, shown, adopted>>
      \/ /\ mgr'.latest = mgr.latest \cup {<<Source(u.mark), p>>}
         /\ engine' \in {direct, both}
         /\ u.mark = "feed" => shown' = shown /\ pc'[w] # "acknowledge"
         /\ u.mark # "feed" => shown' = [shown EXCEPT ![p] = u.token]
  <2>1. \/ UNCHANGED <<mgr, engine, shown, adopted>>
        \/ /\ mgr' = [mgr EXCEPT !.latest = @ \cup {<<Source(u.mark), p>>}]
           /\ engine' \in {direct, both}
           /\ u.mark = "feed" => shown' = shown /\ Leave(w, "recv")
           /\ u.mark # "feed" => shown' = [shown EXCEPT ![p] = u.token]
    BY DEF Push
  <2>2. Leave(w, "recv") => pc'[w] # "acknowledge"
    BY <1>1, <1>3 DEF Leave, Goto
  <2> HIDE DEF direct, both, u, p
  <2> QED  BY <1>3, <2>1, <2>2 DEF Managers
<1>6. /\ direct \in [Pairs -> Quotes] /\ both \in [Pairs -> Quotes]
      /\ direct[p] = q /\ both[p] = q /\ both[Opposite[p]] = q
      /\ \A x \in Pairs \ {p} : direct[x] = engine[x]
      /\ \A x \in Pairs \ {p, Opposite[p]} : both[x] = engine[x]
  BY <1>1, QuotePut
<1> HIDE DEF direct, both, q
<1>7. \A x \in Pairs : \/ engine'[x] = engine[x]
                       \/ x = p /\ engine'[x] = q
                       \/ x = Opposite[p] /\ engine'[x] = q /\ p \in mgr.plan
  BY <1>4, <1>6
<1> HIDE DEF u, p
<1> QED  BY <1>1, <1>2, <1>3, <1>4, <1>5, <1>6, <1>7 DEF u, p, q

\* What the engine is asked to clear, and the token it clears with.
LEMMA ShownNext ==
    ASSUME Before, InOrder, Next
    PROVE  \A p \in Pairs : /\ shown'[p] >= shown[p] /\ shown'[p] <= mgr'.last[p]
                            /\ shown'[p] \in Nat /\ shown[p] \in Nat
<1>1. /\ Structure /\ MgrNext /\ shown \in [Pairs -> Nat] /\ mgr \in Managers /\ mgr' \in Managers
      /\ \A p \in Pairs : mgr.last[p] \in Nat /\ mgr'.last[p] \in Nat /\ mgr.last[p] <= mgr'.last[p]
  <2>1. /\ Structure /\ MgrNext /\ shown \in [Pairs -> Nat] /\ mgr \in Managers /\ mgr' \in Managers
    BY ManagerStep DEF Before, Structure, Data, MgrNext
  <2>2. mgr.last \in [Pairs -> Nat] /\ mgr'.last \in [Pairs -> Nat]
    BY <2>1 DEF Managers
  <2> QED  BY <2>1, <2>2 DEF MgrNext
<1>2. ASSUME shown' = shown
      PROVE  \A p \in Pairs : shown'[p] >= shown[p] /\ shown'[p] <= mgr'.last[p]
  BY <1>1, <1>2 DEF InOrder
<1>3. ASSUME NEW w \in Workers, shown' = [shown EXCEPT ![hand[w].pair] = hand[w].token],
             (pc[w] = "sink" /\ hand[w].mark # "feed") \/ (pc[w] = "clear" /\ hand[w].direct)
      PROVE  \A p \in Pairs : shown'[p] >= shown[p] /\ shown'[p] <= mgr'.last[p]
  <2> DEFINE u == hand[w] p == hand[w].pair
  <2>1. p \in Pairs /\ u.token \in Nat /\ u.mark # "feed"
    <3>1. pc[w] \in InSink /\ w \in Procs /\ "feed" # "blank"
      BY <1>3, ProcsAre DEF InSink
    <3> QED  BY <1>3, <3>1, InHand DEF Updates, Tokens, IsClear
  <2>2. shown[p] <= u.token
    BY <1>3 DEF InOrder
  <2>3. u.token <= mgr.last[p]
    BY <1>3, <2>1 DEF Before, InFlight, InSink
  <2> HIDE DEF u, p
  <2>4. shown' = [shown EXCEPT ![p] = u.token]
    BY <1>3 DEF u, p
  <2> QED  BY <1>1, <2>1, <2>2, <2>3, <2>4 DEF InOrder
<1>4. ASSUME NEW w \in Workers, Push(w)
      PROVE  shown' = shown \/ (shown' = [shown EXCEPT ![hand[w].pair] = hand[w].token]
                                /\ pc[w] = "sink" /\ hand[w].mark # "feed")
  <2> DEFINE u == hand[w]
  <2>2. pc[w] = "sink" /\ (u.mark = "feed" => shown' = shown)
        /\ (u.mark # "feed" => shown' = shown \/ shown' = [shown EXCEPT ![u.pair] = u.token])
    BY <1>4, PushIs
  <2> QED  BY <2>2
<1>5. ASSUME NEW w \in Workers, ClearEngine(w)
      PROVE  shown' = shown \/ (shown' = [shown EXCEPT ![hand[w].pair] = hand[w].token]
                                /\ pc[w] = "clear" /\ hand[w].direct)
  BY <1>5 DEF ClearEngine
<1>6. Start \/ StartUnknownAsset \/ StartFails => shown' = shown
  BY DEF Start, StartUnknownAsset, StartFails
<1>7. \A p \in Pairs : shown'[p] \in Nat /\ shown[p] \in Nat
  BY <1>1, StructureStep DEF Structure, Data
<1>8. \A w \in Workers : Push(w) \/ ClearEngine(w) =>
          \A p \in Pairs : shown'[p] >= shown[p] /\ shown'[p] <= mgr'.last[p]
  <2> SUFFICES ASSUME NEW w \in Workers, Push(w) \/ ClearEngine(w)
               PROVE  \A p \in Pairs : shown'[p] >= shown[p] /\ shown'[p] <= mgr'.last[p]
    OBVIOUS
  <2>1. CASE shown' = shown
    BY <1>2, <2>1
  <2>2. CASE shown' # shown
    <3>1. shown' = [shown EXCEPT ![hand[w].pair] = hand[w].token]
      BY <1>4, <1>5, <2>2
    <3>2. (pc[w] = "sink" /\ hand[w].mark # "feed") \/ (pc[w] = "clear" /\ hand[w].direct)
      BY <1>4, <1>5, <2>2
    <3> QED  BY <1>3, <3>1, <3>2
  <2> QED  BY <2>1, <2>2
<1>9. \/ shown' = shown \/ Start \/ StartUnknownAsset \/ StartFails
      \/ \E w \in Workers : Push(w) \/ ClearEngine(w)
  BY <1>1, EngineMoves
<1> QED  BY <1>2, <1>6, <1>7, <1>8, <1>9

LEMMA InOrderStep ==
    ASSUME Before, InOrder, Next
    PROVE  InOrder'
<1>1. Structure /\ Workers \subseteq Procs /\ Structure'
  BY StructureStep, ProcsAre DEF Before
<1>2. ASSUME NEW w \in Workers,
             (pc'[w] = "sink" /\ hand'[w].mark # "feed") \/ (pc'[w] = "clear" /\ hand'[w].direct)
      PROVE  shown'[hand'[w].pair] <= hand'[w].token
  <2>1. pc'[w] \in InSink
    BY <1>2 DEF InSink
  <2>2. CASE pc[w] = pc'[w] /\ hand'[w] = hand[w] /\ shown' = shown
    BY <1>2, <2>2 DEF InOrder
  <2>3. CASE WorkerStep(w)
    <3>1. Fits(w, pc'[w], hand'[w], todo'[w])
      BY <1>1 DEF Structure, Hands
    <3>2. hand'[w].pair \in Pairs
      BY <2>1, <3>1 DEF Fits, Offered, Manual
    <3> DEFINE u == hand'[w] p == hand'[w].pair
    <3>3. CASE /\ Admit(w) /\ IsCurrent(hand[w]) /\ pc'[w] = "sink" /\ hand'[w] = hand[w]
      <4>1. shown' = shown /\ ~IsClear(u)
        BY <3>3 DEF Admit, history
      <4>2. u.mark \in Marks
        BY <1>2, <2>1, <3>1, <3>3, <4>1 DEF Fits, Offered, Manual, IsClear
      <4>3. mgr.token[p] = u.token /\ mgr.mark[p] = u.mark
        BY <1>2, <3>3 DEF IsCurrent
      <4>4. mgr.token[p] = mgr.last[p]
        BY <3>2, <4>2, <4>3 DEF Before, Sound, RowSound, RowTokens
      <4> QED  BY <3>2, <4>1, <4>3, <4>4 DEF InOrder
    <3>4. CASE /\ pc[w] \in {"got", "clears", "retry"} /\ pc'[w] = "clear"
               /\ ClearIsCurrent(hand'[w])
      <4>1. shown' = shown
        <5>1. ~Push(w) /\ ~ClearEngine(w)
          BY <3>4 DEF Push, ClearEngine
        <5>2. ASSUME NEW x \in Workers, Push(x) \/ ClearEngine(x)
              PROVE  FALSE
          <6>1. pc[x] \in InSink
            BY <5>2 DEF Push, ClearEngine, InSink
          <6>2. x # w /\ pc'[w] = pc[w]
            <7>1. WorkerStep(x)
              BY <5>2 DEF WorkerStep
            <7> QED  BY <1>1, <5>1, <5>2, <7>1, OneMoves
          <6> QED  BY <3>4, <6>2
        <5>3. Start \/ StartUnknownAsset \/ StartFails => shown' = shown
          BY DEF Start, StartUnknownAsset, StartFails
        <5> QED  BY <1>1, <5>2, <5>3, EngineMoves
      <4>2. mgr.clears[p].token = u.token /\ mgr.clears[p].direct
        BY <1>2, <3>4 DEF ClearIsCurrent
      <4>3. u.token = mgr.last[p]
        BY <3>2, <4>2 DEF Before, Sound, RowSound, RowTokens
      <4> QED  BY <3>2, <4>1, <4>3 DEF InOrder
    <3>5. \/ Admit(w) /\ IsCurrent(hand[w]) /\ pc'[w] = "sink" /\ hand'[w] = hand[w]
          \/ /\ pc[w] \in {"got", "clears", "retry"} /\ pc'[w] = "clear"
             /\ ClearIsCurrent(hand'[w])
          \/ pc'[w] \in {"acknowledge", "cleared"}
      BY <1>1, <2>1, <2>3, Entering
    <3> QED  BY <1>2, <3>3, <3>4, <3>5
  <2>4. WorkerStep(w) \/ (pc[w] = pc'[w] /\ hand'[w] = hand[w] /\ shown' = shown)
    BY <2>1, SinkStep
  <2> QED  BY <2>2, <2>3, <2>4
<1>3. \A p \in Pairs : shown'[p] <= mgr'.last[p]
  BY ShownNext
<1>4. \A w \in Workers :
          (pc'[w] = "sink" /\ hand'[w].mark # "feed") \/ (pc'[w] = "clear" /\ hand'[w].direct)
              => shown'[hand'[w].pair] <= hand'[w].token
  BY <1>2
<1> QED  BY <1>3, <1>4 DEF InOrder

\* No step takes the engine back to an older mark of a pair, whatever run, retry
\* or clear delivers it: the gate before the sink and the tokens keep the order.
THEOREM OrderKept == Spec => MarksInOrder
<1>1. Init => InOrder
  <2> SUFFICES ASSUME Init PROVE InOrder
    OBVIOUS
  <2>1. \A p \in Pairs : shown[p] = 0 /\ mgr.last[p] = 0
    BY DEF Init
  <2>2. \A w \in Workers : pc[w] = "off"
    BY ProcsAre DEF Init
  <2> QED  BY <2>1, <2>2 DEF InOrder
<1>2. Before /\ InOrder /\ [Next]_vars => InOrder' /\ [\A p \in Pairs : shown'[p] >= shown[p]]_vars
  <2> SUFFICES ASSUME Before, InOrder, [Next]_vars
               PROVE  InOrder' /\ [\A p \in Pairs : shown'[p] >= shown[p]]_vars
    OBVIOUS
  <2>1. CASE Next
    BY <2>1, InOrderStep, ShownNext
  <2>2. CASE UNCHANGED vars
    BY <2>2 DEF vars, history, InOrder
  <2> QED  BY <2>1, <2>2
<1> QED  BY <1>1, <1>2, BeforeHolds, PTL DEF Spec, MarksInOrder

\* What a step makes of the quote of a pair.
LEMMA QuoteNext ==
    ASSUME Before, Next, NEW x \in Pairs, engine'[x] # engine[x]
    PROVE  \/ engine'[x] = Empty
           \/ \E w \in Workers : LET u == hand[w] IN
                  /\ Push(w) /\ u.pair \in Pairs /\ u.mark \in {"feed"} \cup Marks
                  /\ engine'[x] = [mark |-> u.mark, of |-> u.pair, run |-> u.run]
                  /\ x = u.pair \/ (x = Opposite[u.pair] /\ u.pair \in mgr.plan)
<1>1. Structure /\ Workers \subseteq Procs
  BY ProcsAre DEF Before
<1>2. CASE Start \/ StartUnknownAsset \/ StartFails
  BY <1>2, StartEngine
<1>3. ASSUME NEW w \in Workers, ClearEngine(w)
      PROVE  engine'[x] = Empty
  <2>1. \A y \in Pairs : engine'[y] = engine[y] \/ engine'[y] = Empty
    BY <1>1, <1>3, ClearEngineIs
  <2> QED  BY <2>1
<1>4. ASSUME NEW w \in Workers, Push(w)
      PROVE  LET u == hand[w] IN
             /\ u.pair \in Pairs /\ u.mark \in {"feed"} \cup Marks
             /\ engine'[x] = [mark |-> u.mark, of |-> u.pair, run |-> u.run]
             /\ x = u.pair \/ (x = Opposite[u.pair] /\ u.pair \in mgr.plan)
  <2> DEFINE u == hand[w] q == [mark |-> u.mark, of |-> u.pair, run |-> u.run]
  <2>1. /\ u.pair \in Pairs /\ u.mark \in {"feed"} \cup Marks
        /\ \A y \in Pairs : \/ engine'[y] = engine[y]
                            \/ y = u.pair /\ engine'[y] = q
                            \/ y = Opposite[u.pair] /\ engine'[y] = q /\ u.pair \in mgr.plan
    BY <1>4, PushIs
  <2> HIDE DEF q, u
  <2>2. engine'[x] = q /\ (x = u.pair \/ (x = Opposite[u.pair] /\ u.pair \in mgr.plan))
    BY <2>1
  <2> QED  BY <2>1, <2>2 DEF q, u
<1>5. \/ engine' = engine \/ Start \/ StartUnknownAsset \/ StartFails
      \/ \E w \in Workers : Push(w) \/ ClearEngine(w)
  BY <1>1, EngineMoves
<1> QED  BY <1>2, <1>3, <1>4, <1>5

LEMMA QuotedStep ==
    ASSUME Before, Quoted, Next
    PROVE  Quoted'
<1>1. /\ Structure /\ Structure' /\ Workers \subseteq Procs
      /\ \A p \in Pairs : Opposite[p] \in Pairs /\ Opposite[Opposite[p]] = p /\ p # "none"
      /\ "none" \notin Marks
  BY StructureStep, ProcsAre, PairsAssumption DEF Before
<1>2. ASSUME NEW x \in Pairs
      PROVE  /\ engine'[x].of \in {"none", x, Opposite[x]}
             /\ engine'[x].mark = "none" <=> engine'[x].of = "none"
  <2>1. CASE engine'[x] = engine[x]
    BY <2>1 DEF Quoted
  <2>2. CASE engine'[x] = Empty
    BY <2>2 DEF Empty
  <2>3. ASSUME NEW m \in {"feed"} \cup Marks, NEW p \in Pairs, NEW r,
               engine'[x] = [mark |-> m, of |-> p, run |-> r], x = p \/ x = Opposite[p]
        PROVE  /\ engine'[x].of \in {"none", x, Opposite[x]}
               /\ engine'[x].mark = "none" <=> engine'[x].of = "none"
    BY <1>1, <2>3
  <2>4. ASSUME NEW w \in Workers,
               hand[w].pair \in Pairs /\ hand[w].mark \in {"feed"} \cup Marks,
               engine'[x] = [mark |-> hand[w].mark, of |-> hand[w].pair, run |-> hand[w].run],
               x = hand[w].pair \/ x = Opposite[hand[w].pair]
        PROVE  /\ engine'[x].of \in {"none", x, Opposite[x]}
               /\ engine'[x].mark = "none" <=> engine'[x].of = "none"
    <3> DEFINE m == hand[w].mark p == hand[w].pair r == hand[w].run
    <3>1. m \in {"feed"} \cup Marks /\ p \in Pairs /\ (x = p \/ x = Opposite[p])
          /\ engine'[x] = [mark |-> m, of |-> p, run |-> r]
      BY <2>4
    <3> HIDE DEF m, p, r
    <3> QED  BY <2>3, <3>1
  <2>5. \/ engine'[x] = engine[x] \/ engine'[x] = Empty
        \/ \E w \in Workers :
               /\ hand[w].pair \in Pairs /\ hand[w].mark \in {"feed"} \cup Marks
               /\ engine'[x] = [mark |-> hand[w].mark, of |-> hand[w].pair, run |-> hand[w].run]
               /\ x = hand[w].pair \/ x = Opposite[hand[w].pair]
    BY QuoteNext
  <2> QED  BY <2>1, <2>2, <2>4, <2>5
<1>3. ASSUME NEW w \in Workers, pc'[w] = "cleared", NEW x \in Targets(hand'[w])
      PROVE  engine'[x] = Empty
  <2>1. pc'[w] \in InSink
    BY <1>3 DEF InSink
  <2>2. CASE pc[w] = pc'[w] /\ hand'[w] = hand[w] /\ engine' = engine
    <3>1. x \in Targets(hand[w])
      BY <1>3, <2>2
    <3> QED  BY <1>3, <2>2, <3>1 DEF Quoted
  <2>3. CASE ClearEngine(w) /\ hand'[w] = hand[w]
    <3>1. \/ \A y \in Targets(hand[w]) : engine'[y] = Empty
          \/ \E ok \in BOOLEAN : Cleared(w, hand[w], ok)
      BY <1>1, <2>3, ClearEngineIs
    <3>2. ASSUME NEW ok, Cleared(w, hand[w], ok)
          PROVE  FALSE
      <4>1. w[1] \in {"drain", "startup", "refresh"} /\ pc \in [Procs -> Steps] /\ w \in Procs
        <5>1. Fits(w, pc[w], hand[w], todo[w]) /\ w[1] \in Roles /\ pc[w] = "clear"
          BY <1>1, <2>3, Resting DEF ClearEngine
        <5> QED  BY <1>1, <5>1, Resting DEF Fits, StepsOf, Roles
      <4>2. pc'[w] \in {"off", "recv", "clears", "retry"}
        BY <3>2, <4>1 DEF Cleared, Leave, Goto
      <4> QED  BY <1>3, <4>2
    <3>3. x \in Targets(hand[w])
      BY <1>3, <2>3
    <3> QED  BY <3>1, <3>2, <3>3
  <2>4. CASE WorkerStep(w)
    <3>1. ClearEngine(w) /\ hand'[w] = hand[w]
      BY <1>1, <1>3, <2>1, <2>4, Entering
    <3> QED  BY <2>3, <3>1
  <2>5. WorkerStep(w) \/ (pc[w] = pc'[w] /\ hand'[w] = hand[w] /\ engine' = engine)
    BY <2>1, SinkStep
  <2> QED  BY <2>2, <2>4, <2>5
<1>4. \A w \in Workers : pc'[w] = "cleared" => \A x \in Targets(hand'[w]) : engine'[x] = Empty
  BY <1>3
<1>5. (\A w \in Workers : pc[w] = "cleared" => \A x \in Targets(hand[w]) : engine[x] = Empty)'
  BY <1>4 DEF Targets
<1> QED  BY <1>2, <1>5 DEF Quoted

LEMMA LiveIsTrackedStep ==
    ASSUME Before, Quoted, LiveIsTracked, Next
    PROVE  LiveIsTracked'
<1>1. /\ Structure /\ Workers \subseteq Procs /\ engine \in [Pairs -> Quotes]
      /\ retired \subseteq retired' /\ mgr \in Managers
      /\ \A p \in Pairs : Opposite[p] \in Pairs /\ Opposite[Opposite[p]] = p /\ Opposite[p] # p
      /\ "none" \notin Marks /\ "feed" \notin Marks
  BY RetiredGrows, ProcsAre, PairsAssumption DEF Before, Structure, Data
<1> SUFFICES ASSUME NEW x \in Pairs, engine'[x].mark \in Marks, engine'[x].of \notin retired'
             PROVE  engine'[x].of \in IF x = engine'[x].of THEN mgr'.live ELSE mgr'.liveInverse
  BY DEF LiveIsTracked
<1>2. engine'[x] # Empty
  BY <1>1 DEF Empty
<1>3. CASE engine'[x] = engine[x]
  <2> DEFINE p == engine[x].of
  <2>1. /\ p \in Pairs /\ p \notin retired' /\ p \notin retired /\ p \in {x, Opposite[x]}
        /\ p \in IF x = p THEN mgr.live ELSE mgr.liveInverse
        /\ engine[x] # Empty
    <3>1. p # "none" /\ p \in {"none", x, Opposite[x]}
      BY <1>1, <1>3 DEF Quoted
    <3> QED  BY <1>1, <1>2, <1>3, <3>1 DEF LiveIsTracked
  <2>2. CASE LiveKept
    BY <1>3, <2>1, <2>2 DEF LiveKept
  <2>3. ASSUME NEW w \in Workers, CompleteClear(w)
        PROVE  p \in IF x = p THEN mgr'.live ELSE mgr'.liveInverse
    <3> DEFINE u == hand[w] c == mgr.clears[u.pair]
    <3>1. pc[w] = "cleared" /\ mgr' = Complete(mgr, u) /\ pc[w] \in InSink /\ w \in Procs
      BY <1>1, <2>3 DEF CompleteClear, InSink
    <3>2. u \in Updates /\ u.pair \in Pairs /\ u.run = mgr.run /\ u.token >= 1
      BY <1>1, <3>1, InHand
    <3>3. x \notin Targets(u)
      BY <2>1, <3>1 DEF Quoted
    <3>4. CASE c.token # u.token
      <4>1. mgr' = mgr
        BY <3>1, <3>4 DEF Complete
      <4> QED  BY <2>1, <4>1
    <3>5. CASE c.token = u.token
      <4>1. RowSound(mgr, u.pair)
        BY <3>2 DEF Before, Sound
      <4>2. /\ mgr'.live = IF u.direct THEN mgr.live \ {u.pair} ELSE mgr.live
            /\ mgr'.liveInverse = mgr.liveInverse \ {u.pair}
        <5> HIDE DEF u
        <5>1. mgr' = Complete(mgr, u)
          BY <3>1
        <5> QED  BY <1>1, <3>2, <3>5, <4>1, <5>1, CompleteSound DEF CompletedSound
      <4>3. CASE p # u.pair
        BY <2>1, <4>2, <4>3
      <4>4. CASE p = u.pair
        <5>1. u.direct \/ u.inverse
          BY <3>1 DEF Before, InFlight
        <5>2. c.direct = u.direct /\ c.inverse = u.inverse
          BY <2>1, <3>1, <3>5, <4>4 DEF Before, InFlight
        <5>3. CASE x = p
          <6>1. ~u.direct
            BY <3>3, <4>4, <5>3 DEF Targets
          <6> QED  BY <2>1, <4>2, <5>3, <6>1
        <5>4. CASE x = Opposite[p] /\ x # p
          <6>1. ~u.inverse
            BY <3>3, <4>4, <5>4 DEF Targets
          <6>2. p \in mgr.liveInverse
            BY <2>1, <5>4
          <6> QED  BY <4>1, <4>4, <5>1, <5>2, <6>1, <6>2 DEF RowSound
        <5> QED  BY <1>1, <2>1, <5>3, <5>4
      <4> QED  BY <4>3, <4>4
    <3> QED  BY <3>4, <3>5
  <2> QED  BY <1>3, <2>2, <2>3, LiveStep
<1>4. ASSUME NEW w \in Workers, Push(w),
             engine'[x] = [mark |-> hand[w].mark, of |-> hand[w].pair, run |-> hand[w].run],
             hand[w].pair \in Pairs,
             x = hand[w].pair \/ (x = Opposite[hand[w].pair] /\ hand[w].pair \in mgr.plan)
      PROVE  engine'[x].of \in IF x = engine'[x].of THEN mgr'.live ELSE mgr'.liveInverse
  <2> DEFINE p == hand[w].pair
  <2>1. engine'[x].of = p /\ hand[w].mark \in Marks /\ p \notin retired /\ p \notin retired'
    BY <1>1, <1>4
  <2>2. pc[w] = "sink" /\ pc[w] \in InSink
    BY <1>4 DEF Push, InSink
  <2>3. p \in mgr.live /\ (p \in mgr.plan => p \in mgr.liveInverse)
    BY <2>1, <2>2 DEF Before, InFlight
  <2>4. LiveKept
    BY <1>1, <1>4, PushManager
  <2>5. /\ p \in mgr.live => p \in mgr'.live
        /\ p \in mgr.liveInverse => p \in mgr'.liveInverse
    BY <1>4, <2>1, <2>4 DEF LiveKept
  <2> QED  BY <1>1, <1>4, <2>1, <2>3, <2>5
<1> QED  BY <1>2, <1>3, <1>4, QuoteNext

EngineInv == Before /\ Quoted /\ LiveIsTracked

LEMMA EngineInvHolds == Spec => []EngineInv
<1>1. Init => Quoted /\ LiveIsTracked
  <2> SUFFICES ASSUME Init PROVE Quoted /\ LiveIsTracked
    OBVIOUS
  <2>1. /\ \A x \in Pairs : engine[x].of = "none" /\ engine[x].mark = "none"
        /\ \A w \in Workers : pc[w] = "off"
        /\ "none" \notin Marks
    BY ProcsAre, PairsAssumption DEF Init, Empty
  <2> QED  BY <2>1 DEF Quoted, LiveIsTracked
<1>2. Before /\ Quoted /\ LiveIsTracked /\ [Next]_vars => Quoted' /\ LiveIsTracked'
  <2> SUFFICES ASSUME Before, Quoted, LiveIsTracked, [Next]_vars
               PROVE  Quoted' /\ LiveIsTracked'
    OBVIOUS
  <2>1. CASE Next
    BY <2>1, QuotedStep, LiveIsTrackedStep
  <2>2. CASE UNCHANGED vars
    BY <2>2 DEF vars, history, Quoted, LiveIsTracked, Targets
  <2> QED  BY <2>1, <2>2
<1> QED  BY <1>1, <1>2, BeforeHolds, PTL DEF Spec, EngineInv

\* The manager knows every mark that the engine may have: a restart or a clear
\* will find it.
THEOREM MarksTracked == Spec => []LiveIsTracked
<1>1. EngineInv => LiveIsTracked
  BY DEF EngineInv
<1> QED  BY <1>1, EngineInvHolds, PTL

\* Every variable holds the kind of value its Go counterpart has.
THEOREM TypeCorrect == Spec => []TypeOK
<1>1. ASSUME EngineInv
      PROVE  TypeOK
  <2>1. Structure /\ Quoted /\ mgr \in Managers
    BY <1>1 DEF EngineInv, Before, Structure, Data
  <2>2. /\ mgr.run \in 0 .. MaxRuns
        /\ mgr.applied \in [Pairs -> {"off", "byo", "feed"}]
        /\ mgr.token \in [Pairs -> Tokens]
        /\ mgr.live \subseteq Pairs /\ mgr.liveInverse \subseteq Pairs
        /\ mgr.latest \subseteq {"byo", "feed"} \X Pairs
    BY <2>1 DEF Managers, Tokens
  <2>3. config \in [Pairs -> Rows] /\ cancelled \subseteq Runs
    BY <2>1 DEF Structure, Data
  <2>4. \A r \in Runs : Len(queue[r]) <= 1
    <3> SUFFICES ASSUME NEW r \in Runs PROVE Len(queue[r]) <= 1
      OBVIOUS
    <3>1. queue[r] = <<>> \/ \E u \in Updates : queue[r] = <<u>>
      BY <2>1 DEF Structure, Data
    <3>2. CASE queue[r] = <<>>
      BY <3>2
    <3>3. CASE queue[r] # <<>>
      <4>1. PICK u \in Updates : queue[r] = <<u>>
        BY <3>1, <3>3
      <4>2. Len(<<u>>) = 1
        OBVIOUS
      <4> QED  BY <4>1, <4>2
    <3> QED  BY <3>2, <3>3
  <2>5. /\ \A w \in Procs :
               publisher = w => pc[w] \in {"clears", "retry", "clear", "cleared",
                                          "publish", "push", "await"}
        /\ \A w \in Procs :
               pc[w] \in {"sink", "acknowledge", "clear", "cleared"} <=> sinkGate = w
    BY <2>1 DEF Structure, Gates, InSink, Publishing
  <2>6. hand \in [Procs -> Updates] /\ \A w \in Procs : todo[w] \subseteq Updates
    BY <2>1 DEF Structure, Control
  <2>7. \A p \in Pairs : engine[p].of \in {"none", p, Opposite[p]}
    BY <2>1 DEF Quoted
  <2> QED  BY <2>2, <2>3, <2>4, <2>5, <2>6, <2>7 DEF TypeOK
<1>2. EngineInv => TypeOK
  BY <1>1
<1> QED  BY <1>2, EngineInvHolds, PTL

\* A step is of the run, ends it, or starts the next one.
LEMMA RunStep ==
    ASSUME Before, Next
    PROVE  \/ Grows(mgr, mgr') /\ (mgr.open => mgr'.open)
           \/ ~mgr'.started /\ mgr'.run = mgr.run
           \/ Start \/ StartUnknownAsset
<1>1. Structure /\ Workers \subseteq Procs /\ mgr \in Managers /\ Sound /\ RowsTracked
  BY ProcsAre DEF Before, Structure, Data
<1>2. mgr' = mgr /\ retired' = retired => Grows(mgr, mgr') /\ (mgr.open => mgr'.open)
  BY <1>1, RowsUnchanged
<1>3. PushManual => Grows(mgr, mgr') /\ (mgr.open => mgr'.open)
  BY PushManualManager DEF FlightKept
<1>4. StartFails => Grows(mgr, mgr') /\ (mgr.open => mgr'.open)
  BY StartFailsManager DEF FlightKept
<1>5. BeginStop \/ EndStop => ~mgr'.started /\ mgr'.run = mgr.run
  <2>1. CASE BeginStop
    <3>1. mgr' = [mgr EXCEPT !.started = FALSE]
      BY <2>1 DEF BeginStop
    <3> QED  BY <1>1, <3>1, StopSound
  <2>2. CASE EndStop
    <3>1. mgr' = NoState(mgr) /\ ~mgr.started
      BY <1>1, <2>2 DEF EndStop, Structure, RunsInTurn
    <3> QED  BY <1>1, <3>1, NoStateSound
  <2> QED  BY <2>1, <2>2
<1>6. ASSUME NEW w \in Workers,
             \/ Push(w) \/ Acknowledge(w) \/ ClearEngine(w) \/ CompleteClear(w)
             \/ BeginStartup(w) \/ StartupClears(w) \/ PlanRefresh(w)
      PROVE  Grows(mgr, mgr') /\ (mgr.open => mgr'.open)
  BY <1>1, <1>6, PushManager, AcknowledgeManager, ClearEngineManager, CompleteManager,
     BarrierManager, RefreshManager DEF FlightKept
<1> QED  BY <1>1, <1>2, <1>3, <1>4, <1>5, <1>6, ManagerMoves

Supported(mark, p) == mgr.applied[p] = IF mark = "feed" THEN "feed" ELSE "byo"

QuoteOfRun(x) == mgr.started /\ engine[x].run = mgr.run /\ engine[x].mark # "none"

\* The quotes of a run are of pairs that it has, and for an inverse pair only if
\* that is not configured; what a clear removes is the quote of its own pair.
OwnQuotes ==
    /\ \A x \in Pairs : engine[x].run <= mgr.run
    /\ \A x \in Pairs : QuoteOfRun(x) =>
           /\ Supported(engine[x].mark, engine[x].of)
           /\ engine[x].of # x => engine[x].of \in mgr.plan
           /\ mgr.open
    /\ \A w \in Workers :
           mgr.started /\ w[2] = mgr.run /\ ((pc[w] = "got" /\ w[1] = "feed") \/ pc[w] = "sink")
               => Supported(hand[w].mark, hand[w].pair)
    /\ \A w \in Workers : pc[w] = "clear" =>
           \A x \in Targets(hand[w]) : QuoteOfRun(x) =>
               engine[x].mark \in Marks /\ engine[x].of = hand[w].pair

\* What a clear that is current takes from the engine.
LEMMA ClearIsOwn ==
    ASSUME EngineInv, OwnQuotes, NEW u, u.pair \in Pairs, u.token >= 1, ClearIsCurrent(u),
           NEW x \in Targets(u), QuoteOfRun(x)
    PROVE  engine[x].mark \in Marks /\ engine[x].of = u.pair
<1> DEFINE p == u.pair c == mgr.clears[p]
<1>1. /\ x \in Pairs /\ engine[x].mark \in {"feed"} \cup Marks
      /\ Opposite[p] # p /\ Opposite[p] \in Pairs /\ Opposite[Opposite[p]] = p
      /\ Opposite[x] \in Pairs
      /\ "feed" \notin Marks
  <2>1. engine[x] \in Quotes /\ x \in Pairs
    BY DEF EngineInv, Before, Structure, Data, Targets
  <2> QED  BY <2>1, PairsAssumption DEF Quotes, QuoteOfRun
<1>2. /\ mgr.started /\ mgr.open
      /\ Supported(engine[x].mark, engine[x].of)
      /\ engine[x].of # x => engine[x].of \in mgr.plan
      /\ engine[x].of \in {x, Opposite[x]}
  <2>1. engine[x].of # "none" /\ engine[x].of \in {"none", x, Opposite[x]}
    BY <1>1 DEF EngineInv, Quoted, QuoteOfRun
  <2> QED  BY <1>1, <2>1 DEF OwnQuotes, QuoteOfRun
<1>3. RowSound(mgr, p) /\ \A q \in Pairs : RowSound(mgr, q)
  BY DEF EngineInv, Before, Sound
<1>4. c # NoClear /\ c.direct = u.direct /\ c.inverse = u.inverse
  BY DEF ClearIsCurrent, NoClear
<1>5. mgr.held[p] = 0
  BY <1>2, <1>3 DEF RowSound, RowTokens
<1>6. mgr.applied[p] = "byo"
  BY <1>2, <1>3, <1>4, <1>5 DEF RowSound
<1>7. \A q \in mgr.plan : q \in Pairs => mgr.applied[Opposite[q]] = "off"
  BY <1>2, <1>3 DEF RowSound
<1>8. CASE x = p
  <2>1. engine[x].of = p
    BY <1>1, <1>2, <1>6, <1>7, <1>8
  <2> QED  BY <1>1, <1>2, <1>6, <2>1 DEF Supported
<1>9. CASE x = Opposite[p] /\ u.inverse
  <2>1. p \in mgr.plan
    BY <1>2, <1>3, <1>4, <1>5, <1>9 DEF RowSound
  <2>2. mgr.applied[x] = "off"
    BY <1>7, <1>9, <2>1
  <2>3. engine[x].of = p
    BY <1>1, <1>2, <1>9, <2>2 DEF Supported
  <2> QED  BY <1>1, <1>2, <1>6, <2>3 DEF Supported
<1> QED  BY <1>8, <1>9 DEF Targets

\* A goroutine leaves the engine alone unless it pushes or clears.
LEMMA EngineStill ==
    ASSUME NEW w \in Workers, WorkerStep(w), ~Push(w), ~ClearEngine(w)
    PROVE  UNCHANGED <<engine, shown, adopted>>
<1> DEFINE still == UNCHANGED <<engine, shown, adopted>>
<1>1. Receive(w) \/ Offer(w) \/ Admit(w) \/ AdmitClear(w) => still
  BY DEF Receive, Offer, Admit, AdmitClear, history
<1>2. Publish(w) \/ Await(w) \/ BeginRefresh(w) \/ ReadRows(w) => still
  BY DEF Publish, Await, BeginRefresh, ReadRows, history
<1>3. Acknowledge(w) \/ CompleteClear(w) \/ BeginStartup(w) => still
  BY DEF Acknowledge, CompleteClear, BeginStartup, history
<1>4. StartupClears(w) \/ Retry(w) \/ PlanRefresh(w) => still
  BY DEF StartupClears, Retry, PlanRefresh, history
<1> QED  BY <1>1, <1>2, <1>3, <1>4 DEF WorkerStep

\* A goroutine moves by itself, with the caller's Stop or Start, or not at all.
LEMMA WorkerNext ==
    ASSUME Structure, Next, NEW w \in Workers
    PROVE  \/ WorkerStep(w) \/ CancelRun \/ Start \/ StartUnknownAsset
           \/ pc'[w] = pc[w] /\ hand'[w] = hand[w] /\ todo'[w] = todo[w]
<1>1. Workers \subseteq Procs
  BY ProcsAre
<1>2. CASE CallerStep
  BY <1>2, CallerAlone
<1>3. ASSUME NEW x \in Workers, WorkerStep(x)
      PROVE  WorkerStep(w) \/ (pc'[w] = pc[w] /\ hand'[w] = hand[w] /\ todo'[w] = todo[w])
  BY <1>1, <1>3, OneMoves
<1> QED  BY <1>2, <1>3, NextIs

\* Where an update comes from.
LEMMA GotStep ==
    ASSUME Structure, NEW w \in Workers, WorkerStep(w), pc'[w] = "got"
    PROVE  Receive(w) \/ Offer(w)
<1>1. /\ pc \in [Procs -> Steps] /\ w \in Procs /\ w # caller /\ w[1] \in Roles
      /\ Fits(w, pc[w], hand[w], todo[w])
  BY Resting
<1>2. \A step : Goto(w, step) => step = "got"
  BY <1>1 DEF Goto
<1>3. \A step : Leave(w, step) => step = "got"
  BY <1>2 DEF Leave
<1>4. \A u, ok : w[1] # "feed" => ~Cleared(w, u, ok)
  BY <1>1, <1>3 DEF Cleared, Roles
<1>5. ~PublishOrRest(w)
  BY <1>2 DEF PublishOrRest
<1>6. \A u : w[1] # "feed" => ~BeginClear(w, u)
  BY <1>2, <1>4 DEF BeginClear
<1>7. ~Admit(w) /\ ~Push(w) /\ ~Acknowledge(w)
  BY <1>2, <1>3 DEF Admit, Push, Acknowledge
<1>8. ~AdmitClear(w)
  <2>1. pc[w] = "got" /\ IsClear(hand[w]) /\ AdmitClear(w) => w[1] # "feed"
    BY <1>1 DEF Fits, Offered, IsClear
  <2> QED  BY <1>6, <2>1 DEF AdmitClear
<1>9. pc[w] \in {"clear", "cleared", "clears", "retry"} => w[1] # "feed"
  BY <1>1 DEF Fits, StepsOf
<1>10. ~ClearEngine(w) /\ ~CompleteClear(w)
  BY <1>2, <1>4, <1>9 DEF ClearEngine, CompleteClear
<1>11. ~Publish(w) /\ ~Await(w) /\ ~BeginStartup(w) /\ ~PlanRefresh(w)
  BY <1>1, <1>2, <1>5 DEF Publish, Await, BeginStartup, PlanRefresh
<1>12. ~StartupClears(w)
  BY <1>5, <1>6, <1>9 DEF StartupClears, ClearNext
<1>13. ~BeginRefresh(w) /\ ~ReadRows(w)
  BY <1>2 DEF BeginRefresh, ReadRows, ReadRevision
<1>14. ~Retry(w)
  BY <1>2, <1>6, <1>9 DEF Retry, ClearNext, ReadRevision
<1> QED  BY <1>7, <1>8, <1>10, <1>11, <1>12, <1>13, <1>14 DEF WorkerStep

LEMMA OwnQuotesStep ==
    ASSUME EngineInv, OwnQuotes, Next
    PROVE  OwnQuotes'
<1>1. /\ Before /\ Structure /\ Structure' /\ engine \in [Pairs -> Quotes]
      /\ mgr.run \in Nat /\ Workers \subseteq Procs
      /\ \A x \in Pairs : engine[x].run \in Nat
  <2>1. /\ Before /\ Structure /\ Structure' /\ engine \in [Pairs -> Quotes]
        /\ mgr.run \in 0 .. MaxRuns
    BY StructureStep DEF EngineInv, Before, Structure, Data, Managers
  <2> QED  BY <2>1, ProcsAre DEF Quotes
<1>2. CASE Start \/ StartUnknownAsset
  <2>1. /\ mgr'.run = mgr.run + 1
        /\ \A x \in Pairs : engine'[x] = engine[x] \/ engine'[x] = Empty
        /\ \A w \in Procs : pc'[w] = pc[w] \/ pc'[w] \in {"startup", "recv", "tick"}
        /\ \A w \in Procs : pc'[w] \notin InSink
    BY <1>1, <1>2, StartManager, StartEngine, StartStep
  <2>2. \A x \in Pairs : engine'[x].run <= mgr.run
    BY <1>1, <2>1 DEF OwnQuotes, Empty
  <2>3. \A x \in Pairs : engine'[x].run \in Nat
    BY <1>1, <2>1 DEF Empty
  <2>4. \A x \in Pairs : engine'[x].run <= mgr'.run /\ engine'[x].run # mgr'.run
    BY <1>1, <2>1, <2>2, <2>3
  <2>5. ASSUME NEW w \in Workers, w[2] = mgr'.run
        PROVE  pc'[w] # "got"
    <3>1. pc[w] = "off"
      <4>1. w[2] > mgr.run
        BY <1>1, <2>1, <2>5
      <4> QED  BY <1>1, <4>1 DEF Structure, RunsInTurn
    <3> QED  BY <1>1, <2>1, <3>1
  <2>6. \A w \in Workers : pc'[w] \notin {"sink", "clear"}
    BY <1>1, <2>1 DEF InSink
  <2> QED  BY <2>4, <2>5, <2>6 DEF OwnQuotes, QuoteOfRun
<1>3. CASE Grows(mgr, mgr') /\ (mgr.open => mgr'.open)
  <2>1. /\ mgr'.started = mgr.started /\ mgr'.run = mgr.run
        /\ mgr'.applied = mgr.applied /\ mgr'.plan = mgr.plan
    BY <1>3 DEF Grows
  <2>2. ASSUME NEW x \in Pairs
        PROVE  /\ engine'[x].run <= mgr'.run
               /\ QuoteOfRun(x)' =>
                      /\ Supported(engine[x].mark, engine[x].of)'
                      /\ engine'[x].of # x => engine'[x].of \in mgr'.plan
                      /\ mgr'.open
    <3>1. CASE engine'[x] = engine[x]
      BY <1>3, <2>1, <3>1 DEF OwnQuotes, QuoteOfRun, Supported
    <3>2. CASE engine'[x] = Empty
      BY <1>1, <2>1, <3>2 DEF Empty, QuoteOfRun
    <3>3. ASSUME NEW w \in Workers, Push(w), hand[w].pair \in Pairs,
                 engine'[x] = [mark |-> hand[w].mark, of |-> hand[w].pair, run |-> hand[w].run],
                 x = hand[w].pair \/ (x = Opposite[hand[w].pair] /\ hand[w].pair \in mgr.plan)
          PROVE  /\ engine'[x].run <= mgr'.run
                 /\ QuoteOfRun(x)' =>
                        /\ Supported(engine[x].mark, engine[x].of)'
                        /\ engine'[x].of # x => engine'[x].of \in mgr'.plan
                        /\ mgr'.open
      <4>1. pc[w] = "sink" /\ pc[w] \in InSink /\ w \in Procs
        BY <1>1, <3>3 DEF Push, InSink
      <4>2. w[2] = mgr.run /\ hand[w].run = mgr.run /\ w[1] \in {"drain", "feed"}
        BY <1>1, <4>1, InHand
      <4>3. mgr.open
        BY <1>1, <4>1, <4>2 DEF Before, InFlight
      <4>4. mgr.started => Supported(hand[w].mark, hand[w].pair)
        BY <4>1, <4>2 DEF OwnQuotes
      <4>5. /\ engine'[x].run = mgr.run /\ engine'[x].mark = hand[w].mark
            /\ engine'[x].of = hand[w].pair
        BY <3>3, <4>2
      <4> QED  BY <1>1, <1>3, <2>1, <3>3, <4>3, <4>4, <4>5 DEF QuoteOfRun, Supported
    <3> QED  BY <1>1, <3>1, <3>2, <3>3, QuoteNext
  <2>3. ASSUME NEW w \in Workers, mgr'.started, w[2] = mgr'.run,
               (pc'[w] = "got" /\ w[1] = "feed") \/ pc'[w] = "sink"
        PROVE  Supported(hand[w].mark, hand[w].pair)'
    <3>1. CASE pc'[w] = pc[w] /\ hand'[w] = hand[w]
      BY <2>1, <2>3, <3>1 DEF OwnQuotes, Supported
    <3>2. CASE WorkerStep(w) /\ pc'[w] = "got" /\ w[1] = "feed"
      <4>1. Offer(w)
        <5>1. ~Receive(w)
          BY <3>2 DEF Receive
        <5> QED  BY <1>1, <3>2, <5>1, GotStep
      <4>2. \E p \in Pairs : mgr.applied[p] = "feed" /\ hand'[w] = Quote(p, "feed", 0, w[2])
        BY <1>1, <4>1 DEF Offer, Take, Structure, Control
      <4>3. hand'[w].mark = "feed" /\ mgr.applied[hand'[w].pair] = "feed"
        BY <4>2 DEF Quote
      <4> QED  BY <2>1, <4>3 DEF Supported
    <3>3. CASE WorkerStep(w) /\ pc'[w] = "sink"
      <4>1. Admit(w) /\ IsCurrent(hand[w]) /\ hand'[w] = hand[w]
        <5>1. pc'[w] \in InSink
          BY <3>3 DEF InSink
        <5> QED  BY <1>1, <3>3, <5>1, Entering
      <4>2. Fits(w, pc[w], hand[w], todo[w]) /\ pc[w] = "got" /\ ~IsClear(hand[w])
        BY <1>1, <4>1, Resting DEF Admit
      <4>3. CASE hand[w].mark = "feed"
        <5>1. w[1] = "feed"
          <6>1. "feed" \notin {"blank"} \cup Marks
            BY PairsAssumption
          <6> QED  BY <4>2, <4>3, <6>1 DEF Fits, Offered, Manual
        <5> QED  BY <2>1, <2>3, <4>1, <4>2, <4>3, <5>1 DEF OwnQuotes, Supported
      <4>4. CASE hand[w].mark # "feed"
        <5>1. hand[w].pair \in Pairs /\ hand[w].mark \in Marks
          BY <4>2, <4>4 DEF Fits, Offered, Manual, IsClear
        <5>2. mgr.mark[hand[w].pair] # "none"
          BY <4>1, <4>4, <5>1, PairsAssumption DEF IsCurrent
        <5>3. mgr.applied[hand[w].pair] = "byo"
          BY <1>1, <5>1, <5>2 DEF Before, Sound, RowSound
        <5> QED  BY <2>1, <4>1, <4>4, <5>3 DEF Supported
      <4> QED  BY <4>3, <4>4
    <3>4. ~Start /\ ~StartUnknownAsset
      BY <1>1, <2>1, StartManager
    <3>5. CancelRun => pc'[w] = pc[w] /\ hand'[w] = hand[w]
      <4>1. w \in Procs /\ w # caller
        BY <1>1, ProcsAre
      <4> QED  BY <2>3, <4>1 DEF CancelRun
    <3> QED  BY <1>1, <2>3, <3>1, <3>2, <3>3, <3>4, <3>5, WorkerNext
  <2>4. ASSUME NEW w \in Workers, pc'[w] = "clear", NEW x \in Targets(hand'[w]), QuoteOfRun(x)'
        PROVE  engine'[x].mark \in Marks /\ engine'[x].of = hand'[w].pair
    <3>1. pc'[w] \in InSink
      BY <2>4 DEF InSink
    <3>2. CASE pc[w] = pc'[w] /\ hand'[w] = hand[w] /\ engine' = engine
      <4>1. QuoteOfRun(x) /\ x \in Targets(hand[w])
        BY <2>1, <2>4, <3>2 DEF QuoteOfRun
      <4> QED  BY <2>4, <3>2, <4>1 DEF OwnQuotes
    <3>3. CASE WorkerStep(w)
      <4>1. /\ pc[w] \in {"got", "clears", "retry"} /\ ClearIsCurrent(hand'[w]) /\ mgr' = mgr
        BY <1>1, <2>4, <3>1, <3>3, Entering
      <4>2. engine' = engine
        <5>1. ~Push(w) /\ ~ClearEngine(w)
          BY <4>1 DEF Push, ClearEngine
        <5> QED  BY <3>3, <5>1, EngineStill
      <4>3. hand'[w].pair \in Pairs /\ hand'[w].token >= 1
        <5>1. Fits(w, pc'[w], hand'[w], todo'[w])
          BY <1>1 DEF Structure, Hands
        <5> QED  BY <2>4, <3>1, <5>1 DEF Fits, Offered, Manual, IsClear
      <4>4. QuoteOfRun(x)
        BY <2>4, <4>1, <4>2 DEF QuoteOfRun
      <4> QED  BY <2>4, <4>1, <4>2, <4>3, <4>4, ClearIsOwn
    <3>4. WorkerStep(w) \/ (pc[w] = pc'[w] /\ hand'[w] = hand[w] /\ engine' = engine)
      BY <1>1, <3>1, SinkStep
    <3> QED  BY <3>2, <3>3, <3>4
  <2>5. (\A w \in Workers : pc[w] = "clear" =>
           \A x \in Targets(hand[w]) : QuoteOfRun(x) =>
               engine[x].mark \in Marks /\ engine[x].of = hand[w].pair)'
    BY <2>4 DEF Targets
  <2> QED  BY <2>2, <2>3, <2>5 DEF OwnQuotes
<1>4. CASE ~mgr'.started /\ mgr'.run = mgr.run
  <2>1. ASSUME NEW x \in Pairs
        PROVE  engine'[x].run <= mgr'.run
    <3>1. CASE engine'[x] = engine[x]
      BY <1>4, <3>1 DEF OwnQuotes
    <3>2. CASE engine'[x] = Empty
      BY <1>1, <1>4, <3>2 DEF Empty
    <3>3. ASSUME NEW w \in Workers, Push(w),
                 engine'[x] = [mark |-> hand[w].mark, of |-> hand[w].pair, run |-> hand[w].run]
          PROVE  engine'[x].run <= mgr'.run
      BY <1>1, <1>4, <3>3, PushIs
    <3> QED  BY <1>1, <3>1, <3>2, <3>3, QuoteNext
  <2>2. \A x : ~QuoteOfRun(x)'
    BY <1>4 DEF QuoteOfRun
  <2> QED  BY <1>4, <2>1, <2>2 DEF OwnQuotes, QuoteOfRun
<1> QED  BY <1>1, <1>2, <1>3, <1>4, RunStep

LEMMA ClearsOwnStep ==
    ASSUME EngineInv, OwnQuotes, Next, NEW x \in Pairs, QuoteOfRun(x), engine'[x] = Empty
    PROVE  /\ engine[x].mark \in Marks
           /\ \E w \in Procs : pc[w] = "clear" /\ hand[w].pair = engine[x].of
<1>1. Before /\ Structure /\ Workers \subseteq Procs /\ engine'[x] # engine[x]
  BY ProcsAre DEF EngineInv, Before, QuoteOfRun, Empty
<1>2. ~Start /\ ~StartUnknownAsset /\ ~StartFails
  BY DEF Start, StartUnknownAsset, StartFails, CanStart, QuoteOfRun
<1>3. ASSUME NEW w \in Workers, Push(w)
      PROVE  FALSE
  <2> DEFINE u == hand[w] q == [mark |-> u.mark, of |-> u.pair, run |-> u.run]
  <2>1. engine'[x] = engine[x] \/ engine'[x] = q
    BY <1>1, <1>3, PushIs
  <2>2. q.mark # "none"
    <3>1. u.mark \in {"feed"} \cup Marks
      BY <1>1, <1>3, PushIs
    <3> QED  BY <3>1, PairsAssumption
  <2> QED  BY <1>1, <2>1, <2>2 DEF Empty
<1>4. ASSUME NEW w \in Workers, ClearEngine(w)
      PROVE  pc[w] = "clear" /\ x \in Targets(hand[w])
  <2>1. x \in Targets(hand[w])
    BY <1>1, <1>4, ClearEngineIs
  <2> QED  BY <1>4, <2>1 DEF ClearEngine
<1>5. PICK w \in Workers : ClearEngine(w)
  <2>1. \E w \in Workers : Push(w) \/ ClearEngine(w)
    BY <1>1, <1>2, EngineMoves
  <2> QED  BY <1>3, <2>1
<1>6. pc[w] = "clear" /\ x \in Targets(hand[w])
  BY <1>4, <1>5
<1>7. engine[x].mark \in Marks /\ engine[x].of = hand[w].pair
  BY <1>6 DEF OwnQuotes
<1> QED  BY <1>1, <1>6, <1>7

LEMMA OwnQuotesHolds == Spec => []OwnQuotes
<1>1. Init => OwnQuotes
  <2> SUFFICES ASSUME Init PROVE OwnQuotes
    OBVIOUS
  <2>1. /\ \A x \in Pairs : engine[x] = Empty
        /\ \A w \in Workers : pc[w] = "off"
        /\ ~mgr.started /\ mgr.run = 0
    BY ProcsAre DEF Init
  <2> QED  BY <2>1 DEF OwnQuotes, QuoteOfRun, Empty
<1>2. EngineInv /\ OwnQuotes /\ [Next]_vars => OwnQuotes'
  <2> SUFFICES ASSUME EngineInv, OwnQuotes, [Next]_vars PROVE OwnQuotes'
    OBVIOUS
  <2>1. CASE Next
    BY <2>1, OwnQuotesStep
  <2>2. CASE UNCHANGED vars
    BY <2>2 DEF vars, history, OwnQuotes, QuoteOfRun, Supported, Targets
  <2> QED  BY <2>1, <2>2
<1> QED  BY <1>1, <1>2, EngineInvHolds, PTL DEF Spec

\* While a run is on, a quote that it published is removed only by a clear of
\* the manual mark it is: never a quote of the stream, never one of the inverse
\* pair.
THEOREM OwnQuotesCleared == Spec => ClearsOwnQuote
<1>1. EngineInv /\ OwnQuotes /\ [Next]_vars =>
      [\A x \in Pairs :
          mgr.started /\ engine[x].run = mgr.run /\ engine[x].mark # "none" /\ engine'[x] = Empty
          => /\ engine[x].mark \in Marks
             /\ \E w \in Procs : pc[w] = "clear" /\ hand[w].pair = engine[x].of]_vars
  BY ClearsOwnStep DEF QuoteOfRun
<1> QED  BY <1>1, EngineInvHolds, OwnQuotesHolds, PTL DEF Spec, ClearsOwnQuote

-----------------------------------------------------------------------------
(* What every step makes of the marks, the clears and the latest quotes      *)

\* What PushManual makes of its row when it reaches the run.
LEMMA PushedIs ==
    ASSUME Before, PushManual, mgr.started, mgr.applied[hand[caller].pair] = "byo"
    PROVE  LET p == hand[caller].pair row == hand[caller].mark IN
           /\ p \in Pairs /\ row \in {"blank"} \cup Marks
           /\ publisher = Free /\ pc'[caller] = "push"
           /\ mgr'.revision = mgr.revision + 1
           /\ mgr'.mark[p] = row
           /\ \A q \in Pairs \ {p} : SameRow(mgr, mgr', q)
           /\ \A q \in Pairs : <<"feed", q>> \in mgr'.latest <=> <<"feed", q>> \in mgr.latest
           /\ row = "blank" =>
                  LET c == mgr'.clears[p] u == hand'[caller] IN
                  /\ c.token = mgr.last[p] + 1 /\ c.direct
                  /\ u = Clear(p, c, mgr.run)
           /\ row # "blank" => hand'[caller].mark # "blank"
                               /\ hand'[caller].pair = p
<1> DEFINE p == hand[caller].pair
           row == hand[caller].mark
           n == IF row = "blank" THEN WantClear(mgr, p) ELSE WantMark(NewToken(mgr, p), p, row)
<1>1. /\ mgr \in Managers /\ Sound
      /\ pc \in [Procs -> Steps] /\ hand \in [Procs -> Updates] /\ caller \in Procs
  BY ProcsAre DEF Before, Structure, Data, Control
<1>2. p \in Pairs /\ row \in {"blank"} \cup Marks
  BY DEF Before, Structure, Hands, CallerFits, PushManual
<1>3. /\ publisher = Free /\ Goto(caller, "push")
      /\ mgr' = [n EXCEPT !.revision = @ + 1]
      /\ Take(caller, IF row = "blank" THEN Clear(p, n.clears[p], mgr.run)
                      ELSE Quote(p, row, n.token[p], mgr.run))
  BY DEF PushManual
<1>4. mgr.applied[p] = "byo" /\ RowSound(mgr, p)
  BY <1>1, <1>2 DEF Sound
<1> HIDE DEF p, row, n
<1>5. /\ Touches(mgr, n, p) /\ n.mark[p] = row
      /\ row = "blank" => n.clears[p].token = mgr.last[p] + 1 /\ n.clears[p].direct
  <2>1. CASE row = "blank"
    <3>1. n = WantClear(mgr, p)
      BY <2>1 DEF n
    <3>2. /\ Touches(mgr, n, p) /\ n.mark[p] = "blank"
          /\ n.last[p] = mgr.last[p] + 1 /\ n.clears[p].token = n.last[p] /\ n.clears[p].direct
      BY <1>1, <1>2, <1>4, <3>1, WantClearSound
    <3> QED  BY <2>1, <3>2
  <2>2. CASE row # "blank"
    <3> DEFINE t == NewToken(mgr, p)
    <3>1. n = WantMark(t, p, row) /\ row \in Marks /\ (t = NewToken(mgr, p) \/ (t = mgr /\ mgr.mark[p] = row))
      BY <1>2, <2>2 DEF n
    <3> HIDE DEF t
    <3>2. LET r == WantMark(t, p, row) IN Touches(mgr, r, p) /\ r.mark[p] = row
      BY <1>1, <1>2, <1>4, <3>1, WantMarkSound
    <3> QED  BY <2>2, <3>1, <3>2
  <2> QED  BY <2>1, <2>2
<1> DEFINE r == mgr'
<1>6. n \in Managers /\ r = [n EXCEPT !.revision = @ + 1]
  BY <1>3, <1>5 DEF Touches, Grows
<1>7. /\ SameRows(n, r) /\ r.latest = n.latest /\ r.revision = n.revision + 1
      /\ r.clears = n.clears
  <2> HIDE DEF r
  <2> QED  BY <1>6, NextRevision
<1>8. /\ r.mark[p] = row /\ r.revision = mgr.revision + 1
      /\ \A q \in Pairs \ {p} : SameRow(mgr, r, q)
      /\ \A q \in Pairs : <<"feed", q>> \in r.latest <=> <<"feed", q>> \in mgr.latest
  <2> HIDE DEF r
  <2> QED  BY <1>2, <1>5, <1>7 DEF Touches, SameRows, SameRow
<1>9. pc'[caller] = "push"
      /\ hand'[caller] = IF row = "blank" THEN Clear(p, n.clears[p], mgr.run)
                         ELSE Quote(p, row, n.token[p], mgr.run)
  BY <1>1, <1>3 DEF Goto, Take
<1>10. row # "blank" => hand'[caller].mark # "blank" /\ hand'[caller].pair = p
  BY <1>9 DEF Quote
<1> QED  BY <1>2, <1>3, <1>5, <1>7, <1>8, <1>9, <1>10 DEF p, row

\* What a completed clear leaves.
LEMMA CompletedIs ==
    ASSUME Before, NEW w \in Workers, CompleteClear(w)
    PROVE  LET u == hand[w] p == u.pair IN
           /\ p \in Pairs /\ mgr'.revision = mgr.revision /\ mgr'.mark = mgr.mark
           /\ \A q \in Pairs : <<"feed", q>> \in mgr'.latest <=> <<"feed", q>> \in mgr.latest
           /\ \A q \in Pairs : mgr'.clears[q] = mgr.clears[q]
                               \/ (q = p /\ mgr.clears[q].token = u.token)
<1> DEFINE u == hand[w] p == hand[w].pair
           m == [mgr EXCEPT
                    !.clears[u.pair] = NoClear,
                    !.live = IF u.direct THEN @ \ {u.pair} ELSE @,
                    !.liveInverse = @ \ {u.pair},
                    !.latest = IF u.direct THEN @ \ {<<"byo", u.pair>>} ELSE @]
<1>1. /\ mgr \in Managers /\ u \in Updates /\ p \in Pairs /\ u.token \in Nat
      /\ mgr' = Complete(mgr, u)
  <2>1. w \in Procs /\ pc[w] \in InSink
    BY ProcsAre DEF CompleteClear, InSink
  <2> QED  BY <2>1, InHand DEF Before, Structure, Data, CompleteClear, Updates, Tokens
<1>2. CASE mgr' = mgr
  BY <1>1, <1>2
<1>3. CASE mgr.clears[p].token = u.token /\ mgr' = Resolve(m, p, u.token)
  <2> HIDE DEF u, p
  <2>1. NoClear \in ClearStates
    BY DEF NoClear, ClearStates
  <2> DEFINE d == u.direct
             cs == [mgr.clears EXCEPT ![p] = NoClear]
             l == IF d THEN mgr.live \ {p} ELSE mgr.live
             i == mgr.liveInverse \ {p}
             t == IF d THEN mgr.latest \ {<<"byo", p>>} ELSE mgr.latest
             k == [mgr EXCEPT !.clears = cs, !.live = l, !.liveInverse = i, !.latest = t]
  <2>2. /\ cs \in [Pairs -> ClearStates] /\ l \in SUBSET Pairs /\ i \in SUBSET Pairs
        /\ t \in SUBSET ({"byo", "feed"} \X Pairs)
    BY <1>1, <2>1 DEF Managers
  <2>3. m = k
    BY Zenon DEF p, u
  <2>4. \A q \in Pairs : cs[q] = mgr.clears[q] \/ q = p
    BY <1>1 DEF Managers
  <2>5. \A q \in Pairs : <<"feed", q>> \in t <=> <<"feed", q>> \in mgr.latest
    OBVIOUS
  <2> HIDE DEF cs, l, i, t
  <2>6. /\ k \in Managers /\ k.revision = mgr.revision /\ k.mark = mgr.mark
        /\ k.clears = cs /\ k.latest = t
    BY <1>1, <2>2 DEF Managers
  <2> HIDE DEF m, k
  <2>7. LET r == Resolve(k, p, u.token) IN
        /\ r.mark = k.mark /\ r.clears = k.clears /\ r.latest = k.latest
        /\ r.revision = k.revision
    BY <1>1, <2>6, ResolveGrows
  <2>8. /\ mgr'.revision = mgr.revision /\ mgr'.mark = mgr.mark
        /\ mgr'.clears = cs /\ mgr'.latest = t
    BY <1>3, <2>3, <2>6, <2>7
  <2> QED  BY <1>1, <1>3, <2>4, <2>5, <2>8 DEF u, p
<1>4. mgr' = mgr \/ (mgr.clears[p].token = u.token /\ mgr' = Resolve(m, p, u.token))
  BY <1>1, Zenon DEF Complete
<1> QED  BY <1>2, <1>3, <1>4

\* What a goroutine makes of the rows, unless it refreshes them.
FeedsOf(w) ==
    \A q \in Pairs :
        /\ <<"feed", q>> \in mgr.latest => <<"feed", q>> \in mgr'.latest
        /\ <<"feed", q>> \in mgr'.latest =>
               <<"feed", q>> \in mgr.latest
               \/ (Push(w) /\ hand[w].mark = "feed" /\ hand[w].pair = q)

LEMMA RowsOf ==
    ASSUME Before, NEW w \in Workers,
           \/ Push(w) \/ Acknowledge(w) \/ ClearEngine(w) \/ CompleteClear(w)
           \/ BeginStartup(w) \/ StartupClears(w)
    PROVE  /\ mgr'.revision = mgr.revision /\ FeedsOf(w)
           /\ \A q \in Pairs : mgr'.mark[q] \in {mgr.mark[q], "none"}
           /\ \A q \in Pairs : \/ mgr'.clears[q] = mgr.clears[q] \/ q \in retired'
                               \/ /\ CompleteClear(w) /\ q = hand[w].pair
                                  /\ mgr.clears[q].token = hand[w].token
<1>1. mgr \in Managers /\ Sound /\ w \in Procs
  BY ProcsAre DEF Before, Structure, Data
<1>2. CASE mgr' = mgr
  BY <1>2 DEF FeedsOf
<1>3. CASE Push(w) /\ mgr' # mgr
  <2> DEFINE t == Source(hand[w].mark) p == hand[w].pair
             l == mgr.latest \cup {<<t, p>>}
  <2>1. mgr' = [mgr EXCEPT !.latest = l]
    BY <1>3, Zenon DEF Push
  <2>2. /\ p \in Pairs /\ t \in {"byo", "feed"} /\ hand[w].mark \in {"feed"} \cup Marks
        /\ t = "feed" => hand[w].mark = "feed"
    BY <1>3, PushIs DEF Source, IsManual
  <2> HIDE DEF t, p
  <2>3. l \in SUBSET ({"byo", "feed"} \X Pairs)
    BY <1>1, <2>2 DEF Managers
  <2>4. \A q \in Pairs : <<"feed", q>> \in l => <<"feed", q>> \in mgr.latest \/ (t = "feed" /\ p = q)
    OBVIOUS
  <2>5. mgr.latest \subseteq l
    OBVIOUS
  <2> HIDE DEF l
  <2>6. SameRows(mgr, mgr') /\ mgr'.latest = l /\ mgr'.revision = mgr.revision
    BY <1>1, <2>1, <2>3, PutLatest
  <2> QED  BY <1>3, <2>2, <2>4, <2>5, <2>6 DEF SameRows, SameRow, FeedsOf, p
<1>4. CASE Acknowledge(w) /\ mgr' # mgr
  <2> DEFINE p == hand[w].pair  i == hand[w].inverse
  <2>1. /\ IsCurrent(hand[w])
        /\ mgr' = [mgr EXCEPT !.live = mgr.live \cup {p},
                              !.liveInverse = IF i THEN mgr.liveInverse \cup {p}
                                              ELSE mgr.liveInverse]
    BY <1>4, Zenon DEF Acknowledge
  <2>2. /\ p \in Pairs /\ i \in BOOLEAN /\ hand[w].mark \in Marks
        /\ i => p \in mgr.plan
    <3>1. pc[w] = "acknowledge" /\ w \in Workers
      BY <1>1, <1>4, InHand DEF Acknowledge, InSink
    <3>2. hand[w].mark \in {"blank"} \cup Marks /\ ~IsClear(hand[w])
      BY <1>1, <3>1, InHand DEF InSink, Manual
    <3> QED  BY <1>1, <3>1, <3>2, InHand DEF InSink, IsClear, Updates, Before, InFlight
  <2>3. mgr.mark[p] \in Marks /\ RowSound(mgr, p)
    <3>1. hand[w].mark # "feed"
      BY <2>2, PairsAssumption
    <3> QED  BY <1>1, <2>1, <2>2, <3>1 DEF IsCurrent, Sound
  <2> HIDE DEF p, i
  <2>4. /\ Touches(mgr, mgr', p) /\ mgr'.clears = mgr.clears /\ mgr'.mark = mgr.mark
    BY <1>1, <2>1, <2>2, <2>3, AcknowledgeSound, ZenonT(60)
  <2> QED  BY <2>4 DEF Touches, FeedsOf
<1>5. CASE ClearEngine(w) /\ mgr' # mgr
  <2> DEFINE p == hand[w].pair
  <2>1. mgr' = Retire(mgr, p) /\ retired' = retired \cup {p}
    BY <1>5, Zenon DEF ClearEngine
  <2>2. p \in Pairs
    BY <1>1, <1>5, InHand DEF ClearEngine, InSink
  <2> HIDE DEF p
  <2>3. Touches(mgr, mgr', p) /\ mgr'.mark[p] = "none"
    BY <1>1, <2>1, <2>2, RetireSound DEF Sound
  <2> QED  BY <2>1, <2>2, <2>3 DEF Touches, SameRow, FeedsOf
<1>6. CASE CompleteClear(w)
  BY <1>6, CompletedIs DEF FeedsOf
<1>7. CASE (BeginStartup(w) \/ StartupClears(w)) /\ mgr' # mgr
  <2> DEFINE s == mgr r == mgr'
  <2>1. mgr' = [mgr EXCEPT !.open = TRUE] /\ \A p \in Pairs : mgr.held[p] = 0
    BY <1>7, Zenon DEF BeginStartup, StartupClears, ReleaseBarrier, ClearNext
  <2>2. s \in Managers /\ (\A p \in Pairs : RowSound(s, p))
        /\ (\A p \in Pairs : s.held[p] = 0) /\ r = [s EXCEPT !.open = TRUE]
    BY <1>1, <2>1 DEF Sound
  <2> HIDE DEF s, r
  <2>3. r.latest = s.latest /\ r.revision = s.revision /\ \A p \in Pairs : SameRow(s, r, p)
    BY <2>2, OpenSound
  <2> QED  BY <2>3 DEF SameRow, FeedsOf, s, r
<1> QED  BY <1>2, <1>3, <1>4, <1>5, <1>6, <1>7

\* What a refresh makes of them.
LEMMA RefreshIs ==
    ASSUME Before, NEW w \in Workers, PlanRefresh(w)
    PROVE  /\ mgr'.revision = mgr.revision /\ FeedsOf(w)
           /\ pc[w] = "plan" /\ publisher = Free
           /\ \A q \in Pairs : \/ mgr'.mark[q] = mgr.mark[q]
                               \/ StillAsRead(w[2]) /\ mgr'.mark[q] = seen[w[2]].rows[q]
<1> DEFINE was == seen[w[2]].rows
           rows == {p \in Pairs : IsManual(was[p]) /\ mgr.applied[p] = "byo"}
<1>1. mgr \in Managers /\ Sound /\ pc[w] = "plan" /\ publisher = Free
  BY DEF Before, Structure, Data, PlanRefresh
<1>2. CASE mgr' = mgr
  BY <1>1, <1>2 DEF FeedsOf
<1>3. CASE StillAsRead(w[2]) /\ mgr' = Refreshed(mgr, was, rows)
  <2>1. was \in [Pairs -> Rows]
    BY ProcsAre DEF Before, Structure, Data, Reads
  <2> DEFINE s == mgr r == mgr'
  <2> HIDE DEF was
  <2> HIDE DEF rows
  <2>2. s \in Managers /\ (\A p \in Pairs : RowSound(s, p)) /\ r = Refreshed(s, was, rows)
    BY <1>1, <1>3 DEF Sound
  <2>3. /\ rows \in SUBSET Pairs
        /\ \A p \in rows : IsManual(was[p]) /\ s.applied[p] = "byo"
    BY DEF rows
  <2> HIDE DEF s, r
  <2>4. /\ r.latest = s.latest /\ r.revision = s.revision
        /\ \A p \in Pairs : IF p \in rows THEN r.mark[p] = was[p] ELSE SameRow(s, r, p)
    BY <2>1, <2>2, <2>3, RefreshedSound
  <2>5. \A p \in Pairs : mgr'.mark[p] = mgr.mark[p] \/ mgr'.mark[p] = seen[w[2]].rows[p]
    BY <2>4 DEF SameRow, s, r, was
  <2>6. mgr'.revision = mgr.revision /\ mgr'.latest = mgr.latest
    BY <2>4 DEF s, r
  <2> QED  BY <1>1, <1>3, <2>5, <2>6 DEF FeedsOf
<1> QED  BY <1>2, <1>3, Zenon DEF PlanRefresh

\* What the end of a run and a failed start make of the rows.
LEMMA StopRows ==
    ASSUME Before, BeginStop \/ EndStop \/ StartFails
    PROVE  /\ \A p \in Pairs : mgr'.mark[p] \in {mgr.mark[p], "none"}
           /\ mgr'.revision = mgr.revision \/ ~mgr'.started
           /\ \A q \in Pairs : <<"feed", q>> \in mgr.latest =>
                                   <<"feed", q>> \in mgr'.latest \/ StartFails
           /\ \A q \in Pairs : <<"feed", q>> \in mgr'.latest => <<"feed", q>> \in mgr.latest
<1>1. mgr \in Managers
  BY DEF Before, Structure, Data
<1> DEFINE s == mgr r == mgr'
<1>2. CASE BeginStop
  <2>1. r = [s EXCEPT !.started = FALSE] /\ s \in Managers
    BY <1>1, <1>2 DEF BeginStop
  <2> HIDE DEF s, r
  <2>2. r.mark = s.mark /\ ~r.started /\ r.latest = s.latest
    BY <2>1, StopSound
  <2> QED  BY <2>2 DEF s, r
<1>3. CASE EndStop
  <2>1. r = NoState(s) /\ s \in Managers /\ ~s.started
    BY <1>1, <1>3 DEF EndStop, Before, Structure, RunsInTurn
  <2> HIDE DEF s, r
  <2>2. (\A p \in Pairs : r.mark[p] = "none") /\ ~r.started /\ r.latest = s.latest
    BY <2>1, NoStateSound
  <2> QED  BY <2>2 DEF s, r
<1>4. CASE StartFails
  <2>1. PICK done \in SUBSET Stale : mgr' = [mgr EXCEPT !.latest = mgr.latest \ done]
    BY <1>4 DEF StartFails
  <2> DEFINE l == mgr.latest \ done
  <2>2. l \in SUBSET ({"byo", "feed"} \X Pairs)
    BY <1>1 DEF Managers
  <2>3. mgr' = [mgr EXCEPT !.latest = l]
    BY <2>1
  <2>4. l \subseteq mgr.latest
    OBVIOUS
  <2> HIDE DEF l
  <2>5. SameRows(mgr, mgr') /\ mgr'.revision = mgr.revision /\ mgr'.latest = l
    BY <1>1, <2>2, <2>3, PutLatest
  <2> QED  BY <1>4, <2>4, <2>5 DEF SameRows, SameRow
<1> QED  BY <1>2, <1>3, <1>4

\* What PushManual makes of the rows of the other pairs.
LEMMA PushedRows ==
    ASSUME Before, PushManual
    PROVE  /\ \A p \in Pairs : mgr'.mark[p] = mgr.mark[p] \/ hand[caller].pair = p
           /\ mgr'.revision \in {mgr.revision, mgr.revision + 1}
           /\ \A q \in Pairs : <<"feed", q>> \in mgr'.latest <=> <<"feed", q>> \in mgr.latest
<1>1. CASE mgr.started /\ mgr.applied[hand[caller].pair] = "byo"
  BY <1>1, PushedIs DEF SameRow
<1>2. CASE mgr' = mgr
  BY <1>2
<1> QED  BY <1>1, <1>2, Zenon DEF PushManual

\* Where a mark of the manager comes from: PushManual, the rows that a refresh
\* read, or the rows that a start reads.
LEMMA MarkNext ==
    ASSUME Before, Next, NEW p \in Pairs
    PROVE  \/ mgr'.mark[p] \in {mgr.mark[p], "none"}
           \/ PushManual /\ hand[caller].pair = p
           \/ \E w \in Workers : /\ PlanRefresh(w) /\ pc[w] = "plan" /\ StillAsRead(w[2])
                                 /\ mgr'.mark[p] = seen[w[2]].rows[p]
           \/ (Start \/ StartUnknownAsset) /\ mgr'.mark[p] \in {"none", config[p]}
<1>0. Structure
  BY DEF Before
<1>1. CASE mgr' = mgr
  BY <1>1
<1>2. CASE PushManual \/ BeginStop \/ EndStop \/ StartFails
  BY <1>2, StopRows, PushedRows
<1>3. CASE Start \/ StartUnknownAsset
  <2>1. mgr'.mark[p] = IF On(p) = "byo" THEN config[p] ELSE "none"
    BY <1>3, StartManager
  <2> QED  BY <1>3, <2>1
<1>4. ASSUME NEW w \in Workers,
             \/ Push(w) \/ Acknowledge(w) \/ ClearEngine(w) \/ CompleteClear(w)
             \/ BeginStartup(w) \/ StartupClears(w)
      PROVE  mgr'.mark[p] \in {mgr.mark[p], "none"}
  BY <1>4, RowsOf
<1>5. ASSUME NEW w \in Workers, PlanRefresh(w)
      PROVE  \/ mgr'.mark[p] = mgr.mark[p]
             \/ pc[w] = "plan" /\ StillAsRead(w[2]) /\ mgr'.mark[p] = seen[w[2]].rows[p]
  BY <1>5, RefreshIs
<1> QED  BY <1>0, <1>1, <1>2, <1>3, <1>4, <1>5, ManagerMoves

\* The revision of a run grows by each change that PushManual brings, and by
\* nothing else.
LEMMA RevisionNext ==
    ASSUME Before, Next
    PROVE  \/ mgr'.revision = mgr.revision
           \/ PushManual /\ mgr'.revision = mgr.revision + 1
           \/ ~mgr'.started
           \/ Start \/ StartUnknownAsset
<1>0. Structure
  BY DEF Before
<1>1. CASE mgr' = mgr
  BY <1>1
<1>2. CASE BeginStop \/ EndStop \/ StartFails
  BY <1>2, StopRows
<1>3. CASE PushManual
  BY <1>3, PushedRows
<1>4. ASSUME NEW w \in Workers,
             \/ Push(w) \/ Acknowledge(w) \/ ClearEngine(w) \/ CompleteClear(w)
             \/ BeginStartup(w) \/ StartupClears(w)
      PROVE  mgr'.revision = mgr.revision
  BY <1>4, RowsOf
<1>5. ASSUME NEW w \in Workers, PlanRefresh(w)
      PROVE  mgr'.revision = mgr.revision
  BY <1>5, RefreshIs
<1> QED  BY <1>0, <1>1, <1>2, <1>3, <1>4, <1>5, ManagerMoves

\* The latest quotes of the streams: those that a stream pushed, until a start
\* takes it away.
LEMMA FeedsNext ==
    ASSUME Before, Next, NEW q \in Pairs
    PROVE  /\ <<"feed", q>> \in mgr.latest =>
                  \/ <<"feed", q>> \in mgr'.latest
                  \/ Start \/ StartUnknownAsset \/ StartFails
           /\ <<"feed", q>> \in mgr'.latest =>
                  \/ <<"feed", q>> \in mgr.latest
                  \/ \E w \in Workers : Push(w) /\ hand[w].mark = "feed" /\ hand[w].pair = q
                  \/ Start \/ StartUnknownAsset
<1>0. Structure
  BY DEF Before
<1>1. CASE mgr' = mgr
  BY <1>1
<1>2. CASE PushManual \/ BeginStop \/ EndStop \/ StartFails
  BY <1>2, StopRows, PushedRows
<1>3. ASSUME NEW w \in Workers,
             \/ Push(w) \/ Acknowledge(w) \/ ClearEngine(w) \/ CompleteClear(w)
             \/ BeginStartup(w) \/ StartupClears(w)
      PROVE  FeedsOf(w)
  BY <1>3, RowsOf
<1>4. ASSUME NEW w \in Workers, PlanRefresh(w)
      PROVE  FeedsOf(w)
  BY <1>4, RefreshIs
<1> QED  BY <1>0, <1>1, <1>2, <1>3, <1>4, ManagerMoves DEF FeedsOf

-----------------------------------------------------------------------------
(* What outlives a run                                                       *)

\* The manager knows the source of every quote of a stream, unless a start left
\* it to the source of the pair or of its inverse; a run has the streams that
\* the manager knows.
FeedsKept ==
    /\ \A x \in Pairs : LET p == engine[x].of IN
           engine[x].mark = "feed" /\ p \notin retired =>
               <<"feed", p>> \in mgr.latest \/ x \in adopted
    /\ mgr.started => \A p \in Pairs : <<"feed", p>> \in mgr.latest => mgr.applied[p] = "feed"

\* A quote of a stream that a start takes away is cleared, or adopted.
LEMMA StreamTaken ==
    ASSUME EngineInv, NEW done \in SUBSET Stale, NEW x \in Pairs,
           engine[x].mark = "feed", <<"feed", engine[x].of>> \in done,
           x \notin Adopted(done)
    PROVE  x \in ClearedWith(<<"feed", engine[x].of>>)
<1> DEFINE p == engine[x].of o == Opposite[engine[x].of]
<1>1. p \in {x, Opposite[x]} /\ p \in Pairs
  <2>1. engine[x].of \in {"none", x, Opposite[x]} /\ engine[x].of # "none" /\ Opposite[x] \in Pairs
    BY PairsAssumption DEF EngineInv, Quoted
  <2> QED  BY <2>1
<1>2. o \in Pairs /\ o # p /\ x \in {p, o}
  BY <1>1, PairsAssumption
<1>3. On(x) = "off" /\ On(p) = "off"
  BY DEF Adopted
<1>4. <<"feed", p>>[2] = p
  OBVIOUS
<1> QED  BY <1>2, <1>3, <1>4 DEF ClearedWith

LEMMA FeedsKeptStep ==
    ASSUME EngineInv, OwnQuotes, FeedsKept, Next
    PROVE  FeedsKept'
<1>0. Before /\ Structure /\ mgr \in Managers
  BY DEF EngineInv, Before, Structure, Data
<1>1. ASSUME NEW x \in Pairs, engine'[x].mark = "feed", engine'[x].of \notin retired'
      PROVE  <<"feed", engine'[x].of>> \in mgr'.latest \/ x \in adopted'
  <2>1. CASE engine'[x] # engine[x]
    <3>1. engine'[x] # Empty
      BY <1>1 DEF Empty
    <3>2. PICK w \in Workers : /\ Push(w) /\ hand[w].pair \in Pairs
                               /\ engine'[x] = [mark |-> hand[w].mark, of |-> hand[w].pair,
                                                run |-> hand[w].run]
      BY <1>0, <2>1, <3>1, QuoteNext
    <3>3. hand[w].mark = "feed" /\ engine'[x].of = hand[w].pair
      BY <1>1, <3>2
    <3>4. mgr'.latest = mgr.latest \cup {<<Source("feed"), hand[w].pair>>}
      BY <1>0, <2>1, <3>2, <3>3, PushIs
    <3>5. Source("feed") = "feed"
      BY PairsAssumption DEF Source, IsManual
    <3> QED  BY <3>3, <3>4, <3>5
  <2>2. CASE engine'[x] = engine[x]
    <3> DEFINE p == engine[x].of
    <3>1. engine[x].mark = "feed" /\ p \notin retired /\ p \in Pairs
      <4>1. retired \subseteq retired'
        BY <1>0, RetiredGrows
      <4>2. engine[x].of \in {"none", x, Opposite[x]} /\ (engine[x].mark = "none" <=> engine[x].of = "none")
            /\ Opposite[x] \in Pairs
        BY PairsAssumption DEF EngineInv, Quoted
      <4> QED  BY <1>1, <2>2, <4>1, <4>2
    <3>2. CASE x \in adopted
      <4>1. CASE UNCHANGED <<engine, shown, adopted>>
        BY <3>2, <4>1
      <4>2. CASE Start \/ StartUnknownAsset \/ StartFails
        BY <1>0, <3>2, <4>2, StartEngine
      <4>3. ASSUME NEW w \in Workers, Push(w)
            PROVE  x \in adopted'
        BY <1>0, <2>2, <3>2, <4>3, PushIs
      <4>4. ASSUME NEW w \in Workers, ClearEngine(w)
            PROVE  x \in adopted'
        BY <3>2, <4>4 DEF ClearEngine
      <4> QED  BY <1>0, <4>1, <4>2, <4>3, <4>4, EngineMoves
    <3>3. CASE <<"feed", p>> \in mgr.latest
      <4>1. CASE Start \/ StartUnknownAsset \/ StartFails
        <5>1. PICK done \in SUBSET Stale :
                  /\ \A r \in done : r[2] \notin retired' =>
                         \A y \in Pairs : y \in ClearedWith(r) => engine'[y] = Empty
                  /\ adopted' = adopted \cup Adopted(done)
                  /\ \A q \in Pairs : <<"feed", q>> \in mgr'.latest <=>
                                          <<"feed", q>> \in mgr.latest \ done
          BY <1>0, <4>1, StartEngine
        <5>2. CASE <<"feed", p>> \notin done
          BY <2>2, <3>1, <3>3, <5>1, <5>2
        <5>3. CASE <<"feed", p>> \in done /\ x \notin Adopted(done)
          <6>1. x \in ClearedWith(<<"feed", p>>)
            BY <3>1, <5>3, StreamTaken
          <6>2. <<"feed", p>>[2] \notin retired'
            BY <1>1, <2>2
          <6>3. engine'[x] = Empty
            BY <5>1, <5>3, <6>1, <6>2
          <6> QED  BY <1>1, <6>3 DEF Empty
        <5> QED  BY <5>1, <5>2, <5>3
      <4>2. CASE ~(Start \/ StartUnknownAsset \/ StartFails)
        BY <1>0, <2>2, <3>1, <3>3, <4>2, FeedsNext
      <4> QED  BY <4>1, <4>2
    <3> QED  BY <3>1, <3>2, <3>3 DEF FeedsKept
  <2> QED  BY <2>1, <2>2
<1>2. ASSUME mgr'.started, NEW p \in Pairs, <<"feed", p>> \in mgr'.latest
      PROVE  mgr'.applied[p] = "feed"
  <2>1. CASE Start \/ StartUnknownAsset
    <3>1. /\ mgr'.applied[p] = On(p)
          /\ <<"feed", p>> \in mgr.latest \ Stale
      BY <1>0, <1>2, <2>1, StartManager
    <3>2. <<"feed", p>>[1] = "feed" /\ <<"feed", p>>[2] = p
      OBVIOUS
    <3> QED  BY <3>1, <3>2 DEF Stale
  <2>2. CASE Grows(mgr, mgr')
    <3>1. mgr.started /\ mgr'.applied = mgr.applied
      BY <1>2, <2>2 DEF Grows
    <3>2. CASE <<"feed", p>> \in mgr.latest
      BY <3>1, <3>2 DEF FeedsKept
    <3>3. ASSUME NEW w \in Workers, Push(w), hand[w].mark = "feed", hand[w].pair = p
          PROVE  mgr.applied[p] = "feed"
      <4>1. pc[w] = "sink" /\ w[2] = mgr.run
        BY <1>0, <3>3, InHand, ProcsAre DEF Push, InSink
      <4>2. Supported(hand[w].mark, hand[w].pair)
        BY <3>1, <4>1 DEF OwnQuotes
      <4> QED  BY <3>3, <4>2 DEF Supported
    <3> QED  BY <1>0, <1>2, <2>1, <3>1, <3>2, <3>3, FeedsNext
  <2> QED  BY <1>0, <1>2, <2>1, <2>2, RunStep
<1> QED  BY <1>1, <1>2 DEF FeedsKept

\* Once a run holds its quotes back no more, what an earlier run left is a mark
\* of a pair that the operator still sets, or its inverse if that is still
\* derived, or a stream's quote whose pair or inverse still has a source, or had
\* one when a start took its stream away.
THEOREM NothingLeftOver == Spec => []NothingOutlivesItsPair
<1>1. EngineInv /\ FeedsKept => NothingOutlivesItsPair
  <2> SUFFICES ASSUME EngineInv, FeedsKept, mgr.started, mgr.open, NEW x \in Pairs,
                      engine[x].mark # "none", engine[x].of \notin retired
               PROVE  IF engine[x].mark = "feed"
                      THEN mgr.applied[x] # "off" \/ mgr.applied[engine[x].of] # "off" \/ x \in adopted
                      ELSE mgr.mark[engine[x].of] # "none"
                           /\ (x = engine[x].of \/ engine[x].of \in mgr.synthetic)
    BY DEF NothingOutlivesItsPair
  <2> DEFINE p == engine[x].of
  <2>1. p \in Pairs /\ engine[x].mark \in {"feed"} \cup Marks /\ mgr \in Managers
    <3>1. engine[x].of \in {"none", x, Opposite[x]} /\ (engine[x].mark = "none" <=> engine[x].of = "none")
          /\ Opposite[x] \in Pairs
      BY PairsAssumption DEF EngineInv, Quoted
    <3>2. engine[x].mark \in {"none", "feed"} \cup Marks /\ mgr \in Managers
      BY DEF EngineInv, Before, Structure, Data, Quotes
    <3> QED  BY <3>1, <3>2
  <2>2. CASE engine[x].mark = "feed"
    BY <2>1, <2>2 DEF FeedsKept
  <2>3. CASE engine[x].mark \in Marks
    <3>1. /\ engine[x].mark # "feed"
          /\ IF x = p THEN p \in mgr.live ELSE p \in mgr.liveInverse
      BY <2>3, PairsAssumption DEF EngineInv, LiveIsTracked
    <3>2. RowSound(mgr, p) /\ RowTracked(mgr, p)
      BY <2>1 DEF EngineInv, Before, Sound, RowsTracked
    <3>3. p \in mgr.live /\ mgr.held[p] = 0
      BY <3>1, <3>2 DEF RowSound, RowTokens
    <3>4. mgr.mark[p] # "none"
      BY <3>2, <3>3 DEF RowSound, RowTracked
    <3>5. x # p => p \in mgr.plan
      BY <3>1, <3>2, <3>3 DEF RowSound
    <3>6. x # p => p \in mgr.synthetic
      BY <3>2, <3>4, <3>5 DEF RowSound, RowTracked
    <3> QED  BY <3>1, <3>4, <3>6
  <2> QED  BY <2>1, <2>2, <2>3
<1>2. Init => FeedsKept
  <2> SUFFICES ASSUME Init
               PROVE  FeedsKept
    OBVIOUS
  <2>1. \A x \in Pairs : engine[x].mark # "feed"
    BY DEF Init, Empty
  <2>2. ~mgr.started
    BY DEF Init
  <2> QED  BY <2>1, <2>2 DEF FeedsKept
<1>3. EngineInv /\ OwnQuotes /\ FeedsKept /\ [Next]_vars => FeedsKept'
  <2>1. CASE UNCHANGED vars
    BY <2>1 DEF vars, history, FeedsKept
  <2> QED  BY <2>1, FeedsKeptStep
<1> QED  BY <1>1, <1>2, <1>3, EngineInvHolds, OwnQuotesHolds, PTL DEF Spec

-----------------------------------------------------------------------------
(* What a refresh read                                                       *)

\* The rows that a refresh plans with are those it read in this run.
ReadsInTurn ==
    \A r \in Runs :
        /\ seen[r].run <= mgr.run
        /\ mgr.started /\ seen[r].run = mgr.run => seen[r].revision <= mgr.revision

\* A goroutine plans a refresh once it has read the rows.
LEMMA PlanFrom ==
    ASSUME Structure, NEW w \in Workers, WorkerStep(w), pc'[w] = "plan"
    PROVE  ReadRows(w)
<1>1. /\ pc \in [Procs -> Steps] /\ w \in Procs /\ w # caller /\ w[1] \in Roles
      /\ Fits(w, pc[w], hand[w], todo[w])
  BY Resting
<1>2. \A step : Goto(w, step) => step = "plan"
  BY <1>1 DEF Goto
<1>3. \A step : Leave(w, step) => step = "plan"
  BY <1>2 DEF Leave
<1>4. \A u, ok : w[1] # "feed" => ~Cleared(w, u, ok)
  BY <1>1, <1>3 DEF Cleared, Roles
<1>5. ~PublishOrRest(w)
  BY <1>2 DEF PublishOrRest
<1>6. \A u : w[1] # "feed" => ~BeginClear(w, u)
  BY <1>2, <1>4 DEF BeginClear
<1>7. ~Admit(w) /\ ~Push(w) /\ ~Acknowledge(w) /\ ~Receive(w) /\ ~Offer(w)
  BY <1>2, <1>3 DEF Admit, Push, Acknowledge, Receive, Offer
<1>8. ~AdmitClear(w)
  <2>1. pc[w] = "got" /\ IsClear(hand[w]) /\ AdmitClear(w) => w[1] # "feed"
    BY <1>1 DEF Fits, Offered, IsClear
  <2> QED  BY <1>6, <2>1 DEF AdmitClear
<1>9. pc[w] \in {"clear", "cleared", "clears", "retry"} => w[1] # "feed"
  BY <1>1 DEF Fits, StepsOf
<1>10. ~ClearEngine(w) /\ ~CompleteClear(w)
  BY <1>2, <1>4, <1>9 DEF ClearEngine, CompleteClear
<1>11. ~Publish(w) /\ ~Await(w) /\ ~BeginStartup(w) /\ ~PlanRefresh(w)
  BY <1>1, <1>2, <1>5 DEF Publish, Await, BeginStartup, PlanRefresh
<1>12. ~StartupClears(w)
  BY <1>5, <1>6, <1>9 DEF StartupClears, ClearNext
<1>13. ~BeginRefresh(w)
  BY <1>2 DEF BeginRefresh, ReadRevision
<1>14. ~Retry(w)
  BY <1>2, <1>6, <1>9 DEF Retry, ClearNext, ReadRevision
<1> QED  BY <1>7, <1>8, <1>10, <1>11, <1>12, <1>13, <1>14 DEF WorkerStep

\* The steps of a refresh, by its control point.
LEMMA RefreshSteps ==
    ASSUME NEW w, WorkerStep(w), pc[w] \in {"tick", "retry", "readRows", "plan"}
    PROVE  BeginRefresh(w) \/ Retry(w) \/ ReadRows(w) \/ PlanRefresh(w)
<1>1. ~Receive(w) /\ ~Offer(w) /\ ~Admit(w) /\ ~AdmitClear(w) /\ ~Push(w) /\ ~Acknowledge(w)
  BY DEF Receive, Offer, Admit, AdmitClear, Push, Acknowledge
<1>2. ~ClearEngine(w) /\ ~CompleteClear(w) /\ ~Publish(w) /\ ~Await(w)
  BY DEF ClearEngine, CompleteClear, Publish, Await
<1>3. ~BeginStartup(w) /\ ~StartupClears(w)
  BY DEF BeginStartup, StartupClears
<1> QED  BY <1>1, <1>2, <1>3 DEF WorkerStep

\* The steps that change what a refresh has read.
SeesRevision(r) ==
    /\ seen'[r].run = mgr.run /\ seen'[r].revision = mgr.revision
    /\ pc'[<<"refresh", r>>] = "readRows" /\ mgr' = mgr
SeesRows(r) ==
    /\ seen'[r].run = seen[r].run /\ seen'[r].revision = seen[r].revision
    /\ seen'[r].rows = config /\ mgr' = mgr /\ config' = config

LEMMA SeenOf ==
    ASSUME Structure, NEW w \in Workers, WorkerStep(w), NEW r \in Runs
    PROVE  \/ seen'[r] = seen[r] /\ ~ReadRows(<<"refresh", r>>)
           \/ seen'[r] = NotSeen
           \/ SeesRevision(r)
           \/ SeesRows(r)
<1>1. /\ pc \in [Procs -> Steps] /\ w \in Procs /\ w[1] \in Roles /\ w[2] \in Runs
      /\ Fits(w, pc[w], hand[w], todo[w]) /\ w = <<w[1], w[2]>>
      /\ pc[w] \notin Survivors => w[2] = mgr.run
  BY Resting, ProcsAre
<1>2. seen \in [Runs -> Reads] /\ \A x \in Runs : seen[x] \in Reads
  BY DEF Structure, Data
<1>3. \A step : Goto(w, step) => pc'[w] = step
  BY <1>1 DEF Goto
<1>4. pc[w] \in {"tick", "retry", "readRows", "plan"} => w[1] = "refresh" /\ w[2] = mgr.run
  BY <1>1 DEF Fits, StepsOf, Survivors, InSink, Roles
<1>5. CASE pc[w] \notin {"tick", "retry", "readRows", "plan"}
  <2>1. seen' = seen
    <3>1. Receive(w) \/ Offer(w) \/ Admit(w) \/ AdmitClear(w) => seen' = seen
      BY DEF Receive, Offer, Admit, AdmitClear
    <3>2. Publish(w) \/ Await(w) \/ Acknowledge(w) \/ CompleteClear(w) => seen' = seen
      BY DEF Publish, Await, Acknowledge, CompleteClear
    <3>3. BeginStartup(w) \/ StartupClears(w) \/ Push(w) \/ ClearEngine(w) => seen' = seen
      BY DEF BeginStartup, StartupClears, Push, ClearEngine
    <3>4. ~BeginRefresh(w) /\ ~Retry(w) /\ ~ReadRows(w) /\ ~PlanRefresh(w)
      BY <1>5 DEF BeginRefresh, Retry, ReadRows, PlanRefresh
    <3> QED  BY <3>1, <3>2, <3>3, <3>4 DEF WorkerStep
  <2>2. CASE ReadRows(<<"refresh", r>>)
    <3> DEFINE x == <<"refresh", r>>
    <3>1. x \in Procs /\ x # w
      BY <1>5, <2>2 DEF ReadRows, Procs, Roles
    <3>2. pc[x] = "readRows" /\ pc'[x] \in {"plan", "tick"}
      <4>1. pc'[x] \in {"plan", "tick"}
        BY <1>1, <2>2, <3>1 DEF ReadRows, Goto
      <4> QED  BY <2>2, <4>1 DEF ReadRows
    <3> QED  BY <3>1, <3>2, OneMoves
  <2> QED  BY <2>1, <2>2
<1>6. CASE pc[w] \in {"tick", "retry", "readRows", "plan"} /\ w[2] # r
  <2>1. \A e : seen' = [seen EXCEPT ![w[2]] = e] => seen'[r] = seen[r]
    BY <1>2, <1>6
  <2>2. ReadRevision(w) => seen'[r] = seen[r]
    BY <1>2, <1>6 DEF ReadRevision
  <2>3. seen'[r] = seen[r]
    <3>1. BeginRefresh(w) => seen'[r] = seen[r]
      BY <2>2 DEF BeginRefresh
    <3>2. Retry(w) => seen'[r] = seen[r]
      BY <2>2 DEF Retry
    <3>3. ReadRows(w) => seen'[r] = seen[r]
      BY <1>2, <1>6 DEF ReadRows
    <3>4. PlanRefresh(w) => seen'[r] = seen[r]
      BY <2>1 DEF PlanRefresh
    <3>5. BeginRefresh(w) \/ Retry(w) \/ ReadRows(w) \/ PlanRefresh(w)
      BY <1>6, RefreshSteps
    <3> QED  BY <3>1, <3>2, <3>3, <3>4, <3>5
  <2>4. ~ReadRows(<<"refresh", r>>)
    <3> DEFINE x == <<"refresh", r>>
    <3>1. x \in Workers /\ x # w
      BY <1>6 DEF Workers, Roles
    <3>2. CASE ReadRows(x)
      <4>1. pc[x] = "readRows" /\ pc'[x] = pc[x] /\ x \in Procs
        BY <3>1, <3>2, OneMoves, ProcsAre DEF ReadRows
      <4> QED  BY <1>1, <3>1, <3>2, <4>1 DEF ReadRows, Goto
    <3> QED  BY <3>2
  <2> QED  BY <2>3, <2>4
<1>7. CASE pc[w] \in {"tick", "retry", "readRows", "plan"} /\ w[2] = r
  <2>1. w = <<"refresh", r>> /\ w[2] = mgr.run
    BY <1>1, <1>4, <1>7
  <2>2. ASSUME ReadRevision(w), mgr' = mgr
        PROVE  SeesRevision(r)
    BY <1>3, <2>1, <2>2, RevisionRead DEF SeesRevision, ReadRevision
  <2>3. CASE BeginRefresh(w)
    <3>1. CASE ReadRevision(w)
      BY <2>2, <2>3, <3>1 DEF BeginRefresh
    <3>2. CASE seen' = seen
      BY <2>1, <2>3, <3>2 DEF BeginRefresh, ReadRows
    <3> QED  BY <2>3, <3>1, <3>2 DEF BeginRefresh
  <2>4. CASE Retry(w)
    <3>1. CASE ReadRevision(w) /\ mgr' = mgr
      BY <2>2, <3>1
    <3>2. CASE seen' = seen
      BY <2>1, <2>4, <3>2 DEF Retry, ReadRows
    <3> QED  BY <2>4, <3>1, <3>2 DEF Retry
  <2>5. CASE ReadRows(w)
    <3>1. CASE seen' = [seen EXCEPT ![r].rows = config]
      <4> DEFINE m == seen[r] e == [m EXCEPT !.rows = config]
      <4>1. seen'[r] = e /\ m \in Reads
        BY <1>2, <3>1
      <4> HIDE DEF m
      <4>2. e.run = m.run /\ e.revision = m.revision /\ e.rows = config
        BY <4>1 DEF Reads
      <4>3. mgr' = mgr /\ config' = config
        BY <2>5 DEF ReadRows
      <4> QED  BY <4>1, <4>2, <4>3 DEF SeesRows, m
    <3>2. CASE seen' = [seen EXCEPT ![r] = NotSeen]
      BY <1>2, <3>2
    <3> QED  BY <1>7, <2>5, <3>1, <3>2 DEF ReadRows
  <2>6. CASE PlanRefresh(w)
    BY <1>2, <1>7, <2>6 DEF PlanRefresh
  <2> QED  BY <1>7, <2>3, <2>4, <2>5, <2>6, RefreshSteps
<1> QED  BY <1>5, <1>6, <1>7

LEMMA SeenNext ==
    ASSUME Before, Next, NEW r \in Runs
    PROVE  \/ /\ seen'[r] = seen[r]
              /\ pc'[<<"refresh", r>>] = "plan" => pc[<<"refresh", r>>] = "plan"
           \/ seen'[r] = NotSeen
           \/ SeesRevision(r)
           \/ SeesRows(r)
<1> DEFINE x == <<"refresh", r>>
<1>1. Structure /\ x \in Workers /\ x \in Procs /\ x # caller /\ seen \in [Runs -> Reads]
      /\ pc \in [Procs -> Steps]
  BY ProcsAre DEF Before, Structure, Data, Control, Workers, Roles
<1>2. CASE CallerStep
  <2>1. CASE CancelRun
    <3>1. pc'[x] \in {"off", pc[x]}
      BY <1>1, <2>1, Zenon DEF CancelRun
    <3>2. seen'[r] \in {seen[r], NotSeen}
      BY <1>1, <2>1 DEF CancelRun
    <3> QED  BY <3>1, <3>2
  <2>2. CASE Start \/ StartUnknownAsset
    <3>1. seen' = seen
      BY <2>2 DEF Start, StartUnknownAsset
    <3> QED  BY <1>1, <2>2, <3>1, StartStep
  <2>3. CASE ~CancelRun /\ ~Start /\ ~StartUnknownAsset
    <3>1. pc'[x] = pc[x]
      BY <1>1, <1>2, <2>3, CallerAlone
    <3>2. SetPrice \/ PushManual \/ PushManualTooLate \/ FinishPush \/ Await(caller) => seen' = seen
      BY DEF SetPrice, PushManual, PushManualTooLate, FinishPush, Await
    <3>3. Configure \/ BeginStop \/ EndStop \/ StartFails => seen' = seen
      BY DEF Configure, BeginStop, EndStop, StartFails
    <3> QED  BY <1>2, <2>3, <3>1, <3>2, <3>3 DEF CallerStep
  <2> QED  BY <2>1, <2>2, <2>3
<1>3. ASSUME NEW w \in Workers, WorkerStep(w)
      PROVE  \/ seen'[r] = seen[r] /\ (pc'[x] = "plan" => pc[x] = "plan")
             \/ seen'[r] = NotSeen \/ SeesRevision(r) \/ SeesRows(r)
  <2>1. CASE w = x
    BY <1>1, <1>3, <2>1, SeenOf, PlanFrom
  <2>2. CASE w # x
    <3>1. pc'[x] = pc[x]
      BY <1>1, <1>3, <2>2, OneMoves
    <3> QED  BY <1>1, <1>3, <3>1, SeenOf
  <2> QED  BY <2>1, <2>2
<1> QED  BY <1>1, <1>2, <1>3, NextIs

LEMMA ReadsInTurnStep ==
    ASSUME Before, ReadsInTurn, Next
    PROVE  ReadsInTurn'
<1>0. Structure /\ Structure' /\ mgr \in Managers /\ mgr' \in Managers /\ MgrNext
  BY StructureStep, ManagerStep DEF Before, Structure, Data, MgrNext
<1>1. mgr.run \in 0 .. MaxRuns /\ mgr'.run \in 0 .. MaxRuns
      /\ mgr.revision \in Nat /\ mgr'.revision \in Nat /\ MaxRuns \in Nat
  BY <1>0, ProcsAre DEF Managers
<1>2. mgr'.run = mgr.run \/ ((Start \/ StartUnknownAsset) /\ mgr'.run = mgr.run + 1)
  BY <1>0, RunStep, StartManager DEF Grows
<1>3. ASSUME mgr'.started
      PROVE  \/ mgr.started /\ mgr'.run = mgr.run /\ mgr'.revision >= mgr.revision
             \/ mgr'.run = mgr.run + 1
  <2>1. CASE Start \/ StartUnknownAsset
    BY <2>1, StartManager
  <2>2. CASE Grows(mgr, mgr') /\ ~(Start \/ StartUnknownAsset)
    <3>1. mgr'.revision \in {mgr.revision, mgr.revision + 1}
      BY <1>3, <2>2, RevisionNext
    <3> QED  BY <1>1, <1>3, <2>2, <3>1 DEF Grows
  <2> QED  BY <1>3, <2>1, <2>2, RunStep
<1> SUFFICES ASSUME NEW r \in Runs
             PROVE  /\ seen'[r].run <= mgr'.run
                    /\ mgr'.started /\ seen'[r].run = mgr'.run => seen'[r].revision <= mgr'.revision
  BY DEF ReadsInTurn
<1>4. /\ seen[r].run <= mgr.run /\ seen[r].run \in 0 .. MaxRuns /\ seen[r].revision \in Nat
      /\ mgr.started /\ seen[r].run = mgr.run => seen[r].revision <= mgr.revision
  BY <1>0 DEF ReadsInTurn, Structure, Data, Reads
<1>5. CASE seen'[r].run = seen[r].run /\ seen'[r].revision = seen[r].revision
  BY <1>1, <1>2, <1>3, <1>4, <1>5
<1>6. CASE seen'[r] = NotSeen
  BY <1>1, <1>6 DEF NotSeen
<1>7. CASE SeesRevision(r)
  BY <1>1, <1>7 DEF SeesRevision
<1> QED  BY <1>5, <1>6, <1>7, SeenNext DEF SeesRows

-----------------------------------------------------------------------------
(* A pair at rest: no row, no mark and no refresh would bring its mark back  *)

Rests(p) ==
    /\ config[p] \notin Marks
    /\ mgr.mark[p] \notin Marks
    /\ \A r \in Runs : pc[<<"refresh", r>>] = "plan" /\ StillAsRead(r)
                           => seen[r].rows[p] \notin Marks

\* A refresh that may still plan read its rows in this run, and a start leaves
\* none of them.
LEMMA ReadsRest ==
    ASSUME Before, ReadsInTurn, Next, NEW p \in Pairs, config[p] \notin Marks,
           NEW r \in Runs, pc'[<<"refresh", r>>] = "plan", StillAsRead(r)',
           ~(PushManual /\ mgr'.revision # mgr.revision),
           pc[<<"refresh", r>>] = "plan" /\ StillAsRead(r) => seen[r].rows[p] \notin Marks
    PROVE  seen'[r].rows[p] \notin Marks
<1>0. Structure /\ Structure' /\ mgr \in Managers /\ mgr' \in Managers
  BY StructureStep, ManagerStep DEF Before, Structure, Data, MgrNext
<1>1. mgr'.started /\ seen'[r].run = mgr'.run /\ seen'[r].revision = mgr'.revision
  BY DEF StillAsRead
<1>2. mgr'.run \in Runs
  BY <1>0, <1>1 DEF Structure, RunsInTurn
<1>3. CASE seen'[r] = NotSeen
  BY <1>1, <1>2, <1>3, ProcsAre DEF NotSeen
<1>4. CASE SeesRevision(r)
  BY <1>4 DEF SeesRevision
<1>5. CASE SeesRows(r)
  BY <1>5 DEF SeesRows
<1>6. CASE seen'[r] = seen[r] /\ pc[<<"refresh", r>>] = "plan"
  <2>1. mgr.run \in 0 .. MaxRuns /\ seen[r].run <= mgr.run /\ seen[r].run \in 0 .. MaxRuns
    BY <1>0 DEF ReadsInTurn, Structure, Data, Managers, Reads
  <2>2. ~Start /\ ~StartUnknownAsset
    BY <1>1, <1>6, <2>1, StartManager
  <2>3. mgr.started /\ mgr'.run = mgr.run
    BY <1>1, <2>2, RunStep DEF Grows
  <2>4. mgr'.revision = mgr.revision
    BY <1>1, <2>2, RevisionNext, <1>0 DEF Managers
  <2> QED  BY <1>1, <1>6, <2>3, <2>4 DEF StillAsRead
<1> QED  BY <1>3, <1>4, <1>5, <1>6, SeenNext

LEMMA RestsStep ==
    ASSUME Before, ReadsInTurn, Next, NEW p \in Pairs, Rests(p), ~PushManual,
           config'[p] \notin Marks
    PROVE  Rests(p)'
<1>1. "none" \notin Marks
  BY PairsAssumption
<1>2. mgr'.mark[p] \notin Marks
  <2>1. ASSUME NEW w \in Workers, PlanRefresh(w), pc[w] = "plan", StillAsRead(w[2])
        PROVE  seen[w[2]].rows[p] \notin Marks
    <3>1. w = <<"refresh", w[2]>> /\ w[2] \in Runs
      <4>1. w = <<w[1], w[2]>> /\ w[1] \in Roles /\ w[2] \in Runs /\ pc[w] \in StepsOf(w[1])
        BY Resting, ProcsAre DEF Before, Fits
      <4>2. w[1] = "refresh"
        BY <2>1, <4>1 DEF StepsOf, Roles, InSink
      <4> QED  BY <4>1, <4>2
    <3>2. <<"refresh", w[2]>> = w
      BY <3>1
    <3> QED  BY <2>1, <3>1, <3>2 DEF Rests
  <2> QED  BY <1>1, <2>1, MarkNext DEF Rests
<1>3. \A r \in Runs : (pc[<<"refresh", r>>] = "plan" /\ StillAsRead(r)
                           => seen[r].rows[p] \notin Marks)'
  BY ReadsRest DEF Rests
<1> QED  BY <1>2, <1>3 DEF Rests

\* Gone from the engine, and on no way into it.
NoMarkOf(p) ==
    /\ \A x \in Pairs : engine[x].of = p => engine[x].mark \notin Marks
    /\ \A w \in Workers : pc[w] = "sink" /\ hand[w].pair = p => hand[w].mark \notin Marks

LEMMA NoMarkStep ==
    ASSUME Before, Next, NEW p \in Pairs, Rests(p), NoMarkOf(p)
    PROVE  NoMarkOf(p)'
<1>0. Structure
  BY DEF Before
<1>1. "none" \notin Marks /\ "feed" \notin Marks /\ "blank" \notin Marks
  BY PairsAssumption
<1>2. ASSUME NEW x \in Pairs, engine'[x].of = p
      PROVE  engine'[x].mark \notin Marks
  <2>1. CASE engine'[x] = engine[x]
    BY <1>2, <2>1 DEF NoMarkOf
  <2>2. CASE engine'[x] = Empty
    BY <1>1, <2>2 DEF Empty
  <2>3. ASSUME NEW w \in Workers, Push(w),
               engine'[x] = [mark |-> hand[w].mark, of |-> hand[w].pair, run |-> hand[w].run]
        PROVE  engine'[x].mark \notin Marks
    BY <1>2, <2>3 DEF NoMarkOf, Push
  <2> QED  BY <2>1, <2>2, <2>3, QuoteNext
<1>3. ASSUME NEW w \in Workers, pc'[w] = "sink", hand'[w].pair = p
      PROVE  hand'[w].mark \notin Marks
  <2>1. CASE pc'[w] = pc[w] /\ hand'[w] = hand[w]
    BY <1>3, <2>1 DEF NoMarkOf
  <2>2. CASE WorkerStep(w)
    <3>1. Admit(w) /\ IsCurrent(hand[w]) /\ hand'[w] = hand[w]
      BY <1>0, <1>3, <2>2, Entering DEF InSink
    <3>2. hand[w].mark # "feed" => mgr.mark[p] = hand[w].mark
      BY <1>3, <3>1 DEF IsCurrent
    <3> QED  BY <1>1, <3>1, <3>2 DEF Rests
  <2> QED  BY <1>3, <2>1, <2>2, SinkStep DEF InSink
<1> QED  BY <1>2, <1>3 DEF NoMarkOf

-----------------------------------------------------------------------------
(* Where updates come from                                                   *)

\* The update that a goroutine holds after its step.
HandNext(w) ==
    \/ hand'[w] = NoUpdate
    \/ hand'[w] = hand[w]
    \/ /\ ~IsClear(hand[w]) /\ hand'[w].pair = hand[w].pair
       /\ hand'[w].token = hand[w].token /\ hand'[w].mark = hand[w].mark
    \/ Receive(w) /\ queue[w[2]] # <<>> /\ hand'[w] = queue[w[2]][1] /\ queue'[w[2]] = <<>>
    \/ hand'[w].token = 0 /\ hand'[w].mark = "feed"
    \/ publisher = w /\ hand'[w] \in todo[w]

LEMMA HandOf ==
    ASSUME Structure, NEW w \in Workers, WorkerStep(w)
    PROVE  HandNext(w)
<1>1. /\ pc \in [Procs -> Steps] /\ hand \in [Procs -> Updates]
      /\ todo \in [Procs -> SUBSET Updates] /\ w \in Procs /\ w # caller
      /\ Fits(w, pc[w], hand[w], todo[w])
      /\ Publishes(w, pc[w]) => publisher = w
  BY Resting
<1>2. \A u : Take(w, u) => hand'[w] = u
  BY <1>1 DEF Take
<1>3. \A step : Leave(w, step) => hand'[w] = NoUpdate
  BY <1>2 DEF Leave
<1>4. \A u, ok : Cleared(w, u, ok) => hand'[w] = NoUpdate
  BY <1>3 DEF Cleared
<1>5. \A u : BeginClear(w, u) => hand'[w] \in {u, NoUpdate}
  BY <1>2, <1>4 DEF BeginClear
<1>6. pc[w] \in {"clears", "retry", "publish"} => publisher = w
  <2>1. pc[w] \in {"clears", "retry", "publish"} => w[1] # "drain"
    BY <1>1 DEF Fits, StepsOf, InSink
  <2> QED  BY <1>1, <2>1 DEF Publishes, Publishing
<1>7. ClearNext(w) /\ pc[w] \in {"clears", "retry"} => HandNext(w)
  BY <1>5, <1>6 DEF ClearNext, Clears, HandNext
<1>8. CASE Receive(w)
  <2>1. w[2] \in Runs /\ queue[w[2]] # <<>> /\ queue \in [Runs -> {<<>>} \cup {<<u>> : u \in Updates}]
    BY <1>8, Resting, QueuesAre DEF Receive
  <2>2. Head(queue[w[2]]) = queue[w[2]][1] /\ Tail(queue[w[2]]) = <<>>
    BY <2>1, QueuesAre
  <2>3. hand'[w] = queue[w[2]][1] /\ queue'[w[2]] = <<>>
    BY <1>2, <1>8, <2>1, <2>2 DEF Receive
  <2> QED  BY <1>8, <2>1, <2>3 DEF HandNext
<1>9. CASE Offer(w)
  <2>1. PICK p \in Pairs : Take(w, Quote(p, "feed", 0, w[2]))
    BY <1>9 DEF Offer
  <2>2. hand'[w] = Quote(p, "feed", 0, w[2])
    BY <1>2, <2>1
  <2> QED  BY <2>2 DEF Quote, HandNext
<1>10. CASE Push(w)
  <2>1. CASE Take(w, [hand[w] EXCEPT !.inverse = TRUE]) \/ Take(w, [hand[w] EXCEPT !.inverse = FALSE])
    <3>1. PICK i \in BOOLEAN : hand'[w] = [hand[w] EXCEPT !.inverse = i]
      BY <1>2, <2>1
    <3>2. hand[w] \in Updates
      BY <1>1
    <3>3. ~IsClear(hand[w])
      BY <1>1, <1>10 DEF Fits, Push
    <3> DEFINE u == hand[w]
    <3> HIDE DEF u
    <3>4. LET v == [u EXCEPT !.inverse = i] IN
          u \in Updates => v.pair = u.pair /\ v.token = u.token /\ v.mark = u.mark
      BY DEF Updates
    <3> QED  BY <3>1, <3>2, <3>3, <3>4 DEF HandNext, u
  <2>2. CASE Leave(w, "recv")
    BY <1>3, <2>2 DEF HandNext
  <2> QED  BY <1>10, <2>1, <2>2 DEF Push
<1>11. Admit(w) \/ Acknowledge(w) => HandNext(w)
  BY <1>3 DEF Admit, Acknowledge, HandNext
<1>12. AdmitClear(w) => HandNext(w)
  BY <1>5 DEF AdmitClear, HandNext
<1>13. ClearEngine(w) \/ CompleteClear(w) => HandNext(w)
  BY <1>4 DEF ClearEngine, CompleteClear, HandNext
<1>14. Publish(w) => HandNext(w)
  BY <1>2, <1>6 DEF Publish, HandNext
<1>15. Await(w) => HandNext(w)
  BY <1>1, <1>2 DEF Await, HandNext
<1>16. BeginStartup(w) \/ BeginRefresh(w) \/ ReadRows(w) \/ PlanRefresh(w) => HandNext(w)
  BY DEF BeginStartup, BeginRefresh, ReadRows, PlanRefresh, HandNext
<1>17. StartupClears(w) \/ Retry(w) => HandNext(w)
  BY <1>7 DEF StartupClears, Retry, HandNext
<1> QED  BY <1>8, <1>9, <1>10, <1>11, <1>12, <1>13, <1>14, <1>15, <1>16, <1>17 DEF WorkerStep

\* What it has yet to publish: what the manager wanted when it read its rows.
TodoNext(w) ==
    \A u \in todo'[w] :
        \/ u \in todo[w]
        \/ u.pair \in Pairs /\ u.token \in {mgr'.clears[u.pair].token, mgr'.token[u.pair]}

LEMMA TodoOf ==
    ASSUME Structure, NEW w \in Workers, WorkerStep(w)
    PROVE  TodoNext(w)
<1>1. todo \in [Procs -> SUBSET Updates] /\ w \in Procs
  BY Resting
<1>2. LeaveTodo(w) => TodoNext(w)
  BY <1>1 DEF LeaveTodo, TodoNext
<1>3. \A u : todo' = [todo EXCEPT ![w] = @ \ {u}] => TodoNext(w)
  BY <1>1 DEF TodoNext
<1>4. todo' = todo => TodoNext(w)
  BY DEF TodoNext
<1>5. ClearNext(w) => TodoNext(w)
  BY <1>3 DEF ClearNext
<1>6. Receive(w) \/ Offer(w) \/ Admit(w) \/ AdmitClear(w) \/ Push(w) \/ Acknowledge(w) => TodoNext(w)
  BY <1>4 DEF Receive, Offer, Admit, AdmitClear, Push, Acknowledge
<1>7. ClearEngine(w) \/ CompleteClear(w) \/ Await(w) => TodoNext(w)
  BY <1>2, <1>4 DEF ClearEngine, CompleteClear, Await
<1>8. Publish(w) \/ BeginStartup(w) \/ StartupClears(w) \/ Retry(w) \/ ReadRows(w) => TodoNext(w)
  BY <1>3, <1>4, <1>5 DEF Publish, BeginStartup, StartupClears, Retry, ReadRows
<1>9. CASE BeginRefresh(w)
  <2>1. CASE todo' = todo
    BY <1>4, <2>1
  <2>2. CASE todo' = [todo EXCEPT ![w] = {Clear(p, mgr.clears[p], mgr.run) :
                                              p \in {q \in Pairs : mgr.clears[q] # NoClear}}]
    <3>1. todo'[w] = {Clear(p, mgr.clears[p], mgr.run) : p \in {q \in Pairs : mgr.clears[q] # NoClear}}
      BY <1>1, <2>2
    <3>2. mgr' = mgr
      BY <1>9 DEF BeginRefresh
    <3> QED  BY <3>1, <3>2 DEF TodoNext, Clear
  <2> QED  BY <1>9, <2>1, <2>2 DEF BeginRefresh
<1>10. CASE PlanRefresh(w)
  <2>1. CASE todo' = todo
    BY <1>4, <2>1
  <2>2. CASE todo' # todo
    <3> DEFINE was == seen[w[2]].rows
               rows == {p \in Pairs : IsManual(was[p]) /\ mgr.applied[p] = "byo"}
               next == Refreshed(mgr, was, rows)
               cleared == {p \in rows : next.clears[p].token > mgr.clears[p].token}
               priced == {p \in rows : was[p] \in Marks}
    <3>1. /\ mgr' = next
          /\ todo' = [todo EXCEPT ![w] =
                 {Clear(p, next.clears[p], mgr.run) : p \in cleared} \cup
                 {Quote(p, was[p], next.token[p], mgr.run) : p \in priced}]
      BY <1>10, <2>2, Zenon DEF PlanRefresh
    <3>2. cleared \subseteq Pairs /\ priced \subseteq Pairs
      OBVIOUS
    <3> HIDE DEF was, next, cleared, priced
    <3>3. todo'[w] = {Clear(p, mgr'.clears[p], mgr.run) : p \in cleared} \cup
                     {Quote(p, was[p], mgr'.token[p], mgr.run) : p \in priced}
      BY <1>1, <3>1
    <3>4. \A u \in todo'[w] : u.pair \in Pairs /\ u.token \in {mgr'.clears[u.pair].token, mgr'.token[u.pair]}
      BY <3>2, <3>3 DEF Clear, Quote
    <3> QED  BY <3>4 DEF TodoNext
  <2> QED  BY <2>1, <2>2
<1> QED  BY <1>6, <1>7, <1>8, <1>9, <1>10 DEF WorkerStep

\* What it sends.
QueueNext(w) ==
    \A r \in Runs : \/ queue'[r] \in {queue[r], <<>>}
                    \/ publisher = w /\ \E u \in todo[w] : queue'[r] = <<u>>

LEMMA QueueOf ==
    ASSUME Structure, NEW w \in Workers, WorkerStep(w)
    PROVE  QueueNext(w)
<1>1. queue \in [Runs -> {<<>>} \cup {<<u>> : u \in Updates}] /\ w[2] \in Runs /\ w \in Procs
      /\ Fits(w, pc[w], hand[w], todo[w]) /\ (Publishes(w, pc[w]) => publisher = w)
  BY Resting DEF Structure, Data
<1>2. queue' = queue => QueueNext(w)
  BY DEF QueueNext
<1>3. CASE Receive(w)
  <2>1. queue[w[2]] # <<>>
    BY <1>3 DEF Receive
  <2>2. Tail(queue[w[2]]) = <<>>
    BY <1>1, <2>1, QueuesAre
  <2>3. \A r \in Runs : queue'[r] = IF r = w[2] THEN <<>> ELSE queue[r]
    BY <1>1, <1>3, <2>2 DEF Receive
  <2> QED  BY <2>3 DEF QueueNext
<1>4. CASE Publish(w)
  <2>1. publisher = w
    <3>1. w[1] # "drain"
      BY <1>1, <1>4 DEF Publish, Fits, StepsOf, InSink
    <3> QED  BY <1>1, <1>4, <3>1 DEF Publish, Publishes, Publishing
  <2>2. PICK u \in todo[w] : queue' = queue \/ queue' = [queue EXCEPT ![u.run] = <<u>>]
    BY <1>4 DEF Publish, Sent, NotSent
  <2>3. \A r \in Runs : queue'[r] \in {queue[r], <<u>>}
    BY <1>1, <2>2
  <2> QED  BY <2>1, <2>3 DEF QueueNext
<1>5. Offer(w) \/ Admit(w) \/ AdmitClear(w) \/ Push(w) \/ Acknowledge(w) => queue' = queue
  BY DEF Offer, Admit, AdmitClear, Push, Acknowledge
<1>6. ClearEngine(w) \/ CompleteClear(w) \/ Await(w) \/ BeginStartup(w) \/ StartupClears(w)
          => queue' = queue
  BY DEF ClearEngine, CompleteClear, Await, BeginStartup, StartupClears
<1>7. BeginRefresh(w) \/ Retry(w) \/ ReadRows(w) \/ PlanRefresh(w) => queue' = queue
  BY DEF BeginRefresh, Retry, ReadRows, PlanRefresh
<1> QED  BY <1>2, <1>3, <1>4, <1>5, <1>6, <1>7 DEF WorkerStep

\* No update has a token that its pair has not yet given out.
Given(u) == u.pair \in Pairs => u.token <= mgr.last[u.pair]

TokensGiven ==
    /\ \A w \in Procs : Given(hand[w]) /\ \A u \in todo[w] : Given(u)
    /\ \A r \in Runs : queue[r] # <<>> => Given(queue[r][1])

LEMMA GivenGrows ==
    ASSUME Before, Next, NEW u \in Updates, Given(u)
    PROVE  Given(u)'
<1>1. MgrNext /\ mgr \in Managers
  BY ManagerStep DEF Before, Structure, Data
<1>2. CASE u.pair \in Pairs
  <2>1. mgr'.last[u.pair] >= mgr.last[u.pair] /\ u.token <= mgr.last[u.pair]
    BY <1>1, <1>2 DEF MgrNext, Given
  <2>2. mgr'.last[u.pair] \in Nat /\ mgr.last[u.pair] \in Nat /\ u.token \in Nat
    BY <1>1, <1>2 DEF MgrNext, Managers, Updates, Tokens
  <2> QED  BY <2>1, <2>2 DEF Given
<1> QED  BY <1>2 DEF Given

\* The tokens of the manager's marks and clears are given out.
LEMMA GivenByRow ==
    ASSUME Before, Next, NEW u, NEW p, p = u.pair, p \in Pairs,
           u.token \in {mgr'.clears[p].token, mgr'.token[p]}
    PROVE  Given(u)'
<1>1. RowTokens(mgr', p)
  BY ManagerStep DEF MgrNext, Sound, RowSound
<1> QED  BY <1>1 DEF RowTokens, Given

LEMMA GivenNone ==
    ASSUME Before, Next, NEW u, u = NoUpdate \/ u.token = 0
    PROVE  Given(u)'
<1>1. mgr' \in Managers
  BY ManagerStep DEF MgrNext
<1>2. CASE u = NoUpdate
  BY <1>2, PairsAssumption DEF NoUpdate, Given
<1>3. CASE u.token = 0
  BY <1>1, <1>3 DEF Given, Managers
<1> QED  BY <1>2, <1>3

\* A start has the tokens of its rows in hand.
LEMMA StartGives ==
    ASSUME Before, Start \/ StartUnknownAsset
    PROVE  /\ hand' = hand /\ queue' = queue
           /\ \A w \in Procs : \A u \in todo'[w] :
                  \/ u \in todo[w]
                  \/ u.pair \in Pairs /\ u.token \in {mgr'.clears[u.pair].token, mgr'.token[u.pair]}
<1>1. hand' = hand /\ queue' = queue
  BY DEF Start, StartUnknownAsset
<1>2. \E s : NewRun(s)
  BY DEF Start, StartUnknownAsset
<1>3. PICK s : NewRun(s)
  BY <1>2
<1> DEFINE next == Applied(s)
           cs == {p \in Pairs : next.clears[p] # NoClear}
           ps == {q \in Pairs : On(q) = "byo" /\ config[q] \in Marks}
           fresh == {Clear(p, mgr'.clears[p], mgr'.run) : p \in cs} \cup
                    {Quote(p, config[p], mgr'.token[p], mgr'.run) : p \in ps}
<1>4. \A w \in Procs : todo'[w] \in {todo[w], fresh}
  <2> DEFINE f == {Clear(p, next.clears[p], next.run) : p \in cs} \cup
                  {Quote(p, config[p], next.token[p], next.run) :
                       p \in {q \in {p \in Pairs : On(p) = "byo"} : config[q] \in Marks}}
  <2>1. /\ mgr' = next
        /\ todo' = [w \in Procs |-> IF w[2] = next.run /\ w[1] = "startup" THEN f ELSE todo[w]]
    BY <1>3, Zenon DEF NewRun
  <2>2. \A w \in Procs : todo'[w] = IF w[2] = next.run /\ w[1] = "startup" THEN f ELSE todo[w]
    <3> HIDE DEF f, next
    <3> QED  BY <2>1
  <2>3. {q \in {p \in Pairs : On(p) = "byo"} : config[q] \in Marks} = ps
    OBVIOUS
  <2>4. f = fresh
    <3> HIDE DEF cs, ps, next
    <3> QED  BY <2>1, <2>3
  <2> HIDE DEF f, fresh, next
  <2> QED  BY <2>2, <2>4
<1>5. \A u \in fresh : u.pair \in Pairs /\ u.token \in {mgr'.clears[u.pair].token, mgr'.token[u.pair]}
  <2>1. cs \subseteq Pairs /\ ps \subseteq Pairs
    OBVIOUS
  <2> HIDE DEF cs, ps
  <2> QED  BY <2>1 DEF Clear, Quote
<1> HIDE DEF fresh
<1> QED  BY <1>1, <1>4, <1>5

\* What its pair gave out before a step it has given out after it.
GivenNext(u) == u.pair \in Pairs => u.token <= mgr'.last[u.pair]

LEMMA TokensGivenStep ==
    ASSUME Before, TokensGiven, Next
    PROVE  TokensGiven'
<1>0. Structure /\ Structure'
  BY StructureStep DEF Before
<1>1. /\ hand \in [Procs -> Updates] /\ todo \in [Procs -> SUBSET Updates]
      /\ pc \in [Procs -> Steps]
      /\ queue \in [Runs -> {<<>>} \cup {<<u>> : u \in Updates}] /\ caller \in Procs
      /\ \A r \in Runs : queue[r] # <<>> => queue[r][1] \in Updates
  BY <1>0, ProcsAre, QueuesAre DEF Structure, Data, Control
<1>2. \A u \in Updates : Given(u) => GivenNext(u)
  <2>1. ASSUME NEW u \in Updates, Given(u)
        PROVE  GivenNext(u)
    <3>1. Given(u)'
      BY <2>1, GivenGrows
    <3> QED  BY <3>1 DEF Given, GivenNext
  <2> QED  BY <2>1
<1>3. \A u : u.pair \in Pairs /\ u.token \in {mgr'.clears[u.pair].token, mgr'.token[u.pair]}
                 => GivenNext(u)
  <2>1. ASSUME NEW u, NEW p, p = u.pair, p \in Pairs, u.token \in {mgr'.clears[p].token, mgr'.token[p]}
        PROVE  GivenNext(u)
    <3>1. Given(u)'
      BY <2>1, GivenByRow
    <3> QED  BY <3>1 DEF Given, GivenNext
  <2> QED  BY <2>1
<1>4. \A u : u = NoUpdate \/ u.token = 0 => GivenNext(u)
  <2>1. ASSUME NEW u, u = NoUpdate \/ u.token = 0
        PROVE  GivenNext(u)
    <3>1. Given(u)'
      BY <2>1, GivenNone
    <3> QED  BY <3>1 DEF Given, GivenNext
  <2> QED  BY <2>1
<1>5. /\ \A w \in Procs : GivenNext(hand[w]) /\ \A u \in todo[w] : GivenNext(u)
      /\ \A r \in Runs : queue[r] # <<>> => GivenNext(queue[r][1])
  BY <1>1, <1>2 DEF TokensGiven
<1> DEFINE same(w) == hand'[w] = hand[w] /\ todo'[w] = todo[w]
           good(w) == GivenNext(hand'[w]) /\ \A u \in todo'[w] : GivenNext(u)
           sent == \A r \in Runs : queue'[r] # <<>> => GivenNext(queue'[r][1])
<1>6. \A w \in Procs : same(w) => good(w)
  BY <1>5
<1>7. (\A r \in Runs : queue'[r] \in {queue[r], <<>>}) => sent
  BY <1>5
<1>8. ASSUME CallerStep
      PROVE  (\A w \in Procs : good(w)) /\ sent
  <2>1. CASE CancelRun
    <3>1. \A w \in Procs : hand'[w] \in {hand[w], NoUpdate} /\ todo'[w] \in {todo[w], {}}
      BY <2>1 DEF CancelRun
    <3>2. \A r \in Runs : queue'[r] \in {queue[r], <<>>}
      BY <1>1, <2>1 DEF CancelRun
    <3> QED  BY <1>4, <1>5, <1>7, <3>1, <3>2
  <2>2. CASE Start \/ StartUnknownAsset
    <3>1. \A w \in Procs : good(w)
      BY <1>3, <1>5, <2>2, StartGives
    <3>2. queue' = queue
      BY <2>2, StartGives
    <3> QED  BY <1>7, <3>1, <3>2
  <2>3. CASE ~CancelRun /\ ~Start /\ ~StartUnknownAsset
    <3>1. \A w \in Workers : same(w)
      BY <1>0, <1>8, <2>3, CallerAlone
    <3>2. todo'[caller] = {}
      BY <1>0 DEF Structure, Hands
    <3>3. GivenNext(hand'[caller])
      <4>1. \A u : Take(caller, u) => hand'[caller] = u
        BY <1>1 DEF Take
      <4>2. \A step : Leave(caller, step) => hand'[caller] = NoUpdate
        BY <4>1 DEF Leave
      <4>3. CASE hand' = hand
        BY <1>1, <1>5, <4>3
      <4>4. CASE SetPrice
        <5>1. PICK p \in Pairs, row \in {"blank"} \cup Marks : Take(caller, Quote(p, row, 0, mgr.run))
          BY <4>4 DEF SetPrice
        <5>2. hand'[caller].token = 0
          BY <4>1, <5>1 DEF Quote
        <5> QED  BY <1>4, <5>2
      <4>5. CASE PushManual
        <5>1. CASE Leave(caller, "idle")
          BY <1>4, <4>2, <5>1
        <5>2. CASE mgr.started /\ mgr.applied[hand[caller].pair] = "byo"
          <6>1. PICK n : /\ mgr' = [n EXCEPT !.revision = @ + 1]
                         /\ \/ hand'[caller] = Clear(hand[caller].pair, n.clears[hand[caller].pair], mgr.run)
                            \/ hand'[caller] = Quote(hand[caller].pair, hand[caller].mark, n.token[hand[caller].pair], mgr.run)
                         /\ n \in Managers
            <7> DEFINE p == hand[caller].pair row == hand[caller].mark
                       n == IF row = "blank" THEN WantClear(mgr, p) ELSE WantMark(NewToken(mgr, p), p, row)
            <7>1. /\ mgr' = [n EXCEPT !.revision = @ + 1]
                  /\ Take(caller, IF row = "blank" THEN Clear(p, n.clears[p], mgr.run)
                                  ELSE Quote(p, row, n.token[p], mgr.run))
              BY <4>5, <5>2 DEF PushManual
            <7>2. n \in Managers
              <8>1. mgr \in Managers /\ p \in Pairs /\ row \in {"blank"} \cup Marks /\ RowSound(mgr, p)
                BY <4>5 DEF Before, Structure, Data, Hands, CallerFits, PushManual, Sound
              <8>2. mgr.applied[p] = "byo"
                BY <5>2
              <8> HIDE DEF p, row
              <8>3. row = "blank" => WantClear(mgr, p) \in Managers
                BY <8>1, <8>2, WantClearSound DEF Touches, Grows
              <8>4. ASSUME row # "blank"
                    PROVE  WantMark(NewToken(mgr, p), p, row) \in Managers
                <9> DEFINE t == NewToken(mgr, p)
                <9>1. row \in Marks /\ t = NewToken(mgr, p)
                  BY <8>1, <8>4
                <9> HIDE DEF t
                <9>2. WantMark(t, p, row) \in Managers
                  BY <8>1, <8>2, <9>1, WantMarkSound DEF Touches, Grows
                <9> QED  BY <9>1, <9>2
              <8> QED  BY <8>3, <8>4
            <7> HIDE DEF n
            <7> QED  BY <4>1, <7>1, <7>2
          <6>2. mgr'.clears = n.clears /\ mgr'.token = n.token
            <7> DEFINE r == mgr'
            <7>1. r = [n EXCEPT !.revision = @ + 1] /\ n \in Managers
              BY <6>1
            <7> HIDE DEF r
            <7>2. r.clears = n.clears /\ r.token = n.token
              BY <7>1, NextRevision
            <7> QED  BY <7>2 DEF r
          <6>3. hand[caller].pair \in Pairs
            BY <4>5 DEF Before, Structure, Hands, CallerFits, PushManual
          <6>4. hand'[caller].pair = hand[caller].pair
                /\ hand'[caller].token \in {mgr'.clears[hand[caller].pair].token, mgr'.token[hand[caller].pair]}
            BY <6>1, <6>2 DEF Clear, Quote
          <6> QED  BY <1>3, <6>3, <6>4
        <5> QED  BY <4>5, <5>1, <5>2 DEF PushManual
      <4>6. PushManualTooLate \/ FinishPush \/ Await(caller) => hand' = hand \/ hand'[caller] = NoUpdate
        BY <4>2 DEF PushManualTooLate, FinishPush, Await
      <4>7. Configure \/ BeginStop \/ EndStop \/ StartFails => hand' = hand
        BY DEF Configure, BeginStop, EndStop, StartFails
      <4> QED  BY <1>4, <1>8, <2>3, <4>3, <4>4, <4>5, <4>6, <4>7 DEF CallerStep
    <3>4. sent
      <4>1. CASE FinishPush
        <5>1. queue' = queue \/ queue' = [queue EXCEPT ![hand[caller].run] = <<hand[caller]>>]
          BY <4>1 DEF FinishPush, Sent, NotSent
        <5>2. \A r \in Runs : queue'[r] \in {queue[r], <<hand[caller]>>}
          BY <1>1, <5>1
        <5>3. <<hand[caller]>>[1] = hand[caller] /\ GivenNext(hand[caller])
          BY <1>1, <1>5
        <5> QED  BY <1>5, <5>2, <5>3
      <4>2. SetPrice \/ PushManual \/ PushManualTooLate \/ Await(caller) \/ Configure => queue' = queue
        BY DEF SetPrice, PushManual, PushManualTooLate, Await, Configure
      <4>3. BeginStop \/ EndStop \/ StartFails => queue' = queue
        BY DEF BeginStop, EndStop, StartFails
      <4> QED  BY <1>7, <1>8, <2>3, <4>1, <4>2, <4>3 DEF CallerStep
    <3>5. \A w \in Procs : good(w)
      BY <1>6, <3>1, <3>2, <3>3, ProcsAre
    <3> QED  BY <3>4, <3>5
  <2> QED  BY <2>1, <2>2, <2>3
<1>9. ASSUME NEW w \in Workers, WorkerStep(w)
      PROVE  (\A x \in Procs : good(x)) /\ sent
  <2>1. w \in Procs /\ w[2] \in Runs
    BY ProcsAre
  <2>2. \A x \in Procs : x # w => same(x)
    BY <1>0, <1>9, OneMoves
  <2>3. GivenNext(hand'[w])
    <3>1. HandNext(w)
      BY <1>0, <1>9, HandOf
    <3>2. CASE hand'[w].pair = hand[w].pair /\ hand'[w].token = hand[w].token
      BY <1>5, <2>1, <3>2 DEF GivenNext
    <3> QED  BY <1>4, <1>5, <2>1, <3>1, <3>2 DEF HandNext
  <2>4. \A u \in todo'[w] : GivenNext(u)
    BY <1>0, <1>3, <1>5, <1>9, <2>1, TodoOf DEF TodoNext
  <2>5. sent
    <3>1. QueueNext(w)
      BY <1>0, <1>9, QueueOf
    <3>2. \A r \in Runs : queue'[r] \in {queue[r], <<>>} \/ \E u \in todo[w] : queue'[r] = <<u>>
      BY <3>1 DEF QueueNext
    <3>3. \A u \in todo[w] : GivenNext(u) /\ <<u>>[1] = u
      BY <1>5, <2>1
    <3> QED  BY <1>5, <3>2, <3>3
  <2> QED  BY <1>6, <2>2, <2>3, <2>4, <2>5
<1>10. (\A w \in Procs : good(w)) /\ sent => TokensGiven'
  BY DEF TokensGiven, Given, GivenNext
<1> QED  BY <1>0, <1>8, <1>9, <1>10, NextIs

-----------------------------------------------------------------------------
(* Answers                                                                   *)

\* A start leaves the goroutines of the earlier runs alone.
LEMMA StartsNew ==
    ASSUME Before, Start \/ StartUnknownAsset, NEW w \in Procs, pc[w] # "off"
    PROVE  pc'[w] = pc[w] /\ hand'[w] = hand[w]
<1>1. mgr'.run = mgr.run + 1 /\ mgr.run \in 0 .. MaxRuns /\ hand' = hand
  BY StartManager, StartGives DEF Before, Structure, Data, Managers
<1>2. \E s : NewRun(s)
  BY DEF Start, StartUnknownAsset
<1>3. PICK s : NewRun(s)
  BY <1>2
<1>4. w[2] # mgr'.run
  <2>1. CASE w = caller
    BY <1>1, <2>1, ProcsAre
  <2>2. CASE w \in Workers
    <3>1. w[2] \in Runs /\ ~(w[2] > mgr.run)
      BY <2>2, ProcsAre DEF Before, Structure, RunsInTurn
    <3> QED  BY <1>1, <3>1, ProcsAre
  <2> QED  BY <2>1, <2>2, ProcsAre
<1>5. pc'[w] = pc[w]
  <2> DEFINE next == Applied(s)
             other(x) == CASE x[1] = "startup" -> "startup"
                           [] x[1] = "drain" /\ {p \in Pairs : On(p) = "byo"} # {} -> "recv"
                           [] x[1] = "feed" /\ (\E p \in Pairs : On(p) = "feed") -> "recv"
                           [] x[1] = "refresh" /\ {p \in Pairs : On(p) = "byo"} \cup
                                 {p \in Pairs : next.clears[p] # NoClear} # {} -> "tick"
                           [] OTHER -> pc[x]
  <2>1. /\ mgr' = next
        /\ pc' = [x \in Procs |-> IF ~(x[2] = next.run) THEN pc[x] ELSE other(x)]
    BY <1>3, Zenon DEF NewRun
  <2> HIDE DEF next, other
  <2>2. pc'[w] = IF ~(w[2] = next.run) THEN pc[w] ELSE other(w)
    BY <2>1
  <2> QED  BY <1>4, <2>1, <2>2
<1> QED  BY <1>1, <1>5

\* Who waits for an answer goes on waiting until it takes it.
LEMMA AwaitStays ==
    ASSUME Before, Next, NEW x \in Procs, pc[x] = "await", ~Await(x)
    PROVE  pc'[x] = "await" /\ hand'[x] = hand[x]
<1>0. Structure
  BY DEF Before
<1>1. CASE x = caller
  <2>1. CASE CallerStep
    <3>1. ~SetPrice /\ ~PushManual /\ ~PushManualTooLate /\ ~FinishPush /\ ~Configure
      BY <1>1 DEF SetPrice, PushManual, PushManualTooLate, FinishPush, Configure
    <3>2. ~BeginStop /\ ~CancelRun /\ ~EndStop /\ ~Start /\ ~StartUnknownAsset /\ ~StartFails
      BY <1>1 DEF BeginStop, CancelRun, EndStop, Start, StartUnknownAsset, StartFails, CanStart
    <3> QED  BY <1>1, <2>1, <3>1, <3>2 DEF CallerStep
  <2>2. ASSUME NEW w \in Workers, WorkerStep(w)
        PROVE  pc'[x] = pc[x] /\ hand'[x] = hand[x]
    BY <1>0, <1>1, <2>2, OneMoves, ProcsAre
  <2> QED  BY <1>0, <2>1, <2>2, NextIs
<1>2. CASE x \in Workers
  <2>1. ~WorkerStep(x)
    <3>1. ~Receive(x) /\ ~Offer(x) /\ ~Admit(x) /\ ~AdmitClear(x) /\ ~Push(x) /\ ~Acknowledge(x)
      BY DEF Receive, Offer, Admit, AdmitClear, Push, Acknowledge
    <3>2. ~ClearEngine(x) /\ ~CompleteClear(x) /\ ~Publish(x)
      BY DEF ClearEngine, CompleteClear, Publish
    <3>3. ~BeginStartup(x) /\ ~StartupClears(x)
      BY DEF BeginStartup, StartupClears
    <3>4. ~BeginRefresh(x) /\ ~Retry(x) /\ ~ReadRows(x) /\ ~PlanRefresh(x)
      BY DEF BeginRefresh, Retry, ReadRows, PlanRefresh
    <3> QED  BY <3>1, <3>2, <3>3, <3>4 DEF WorkerStep
  <2>2. CASE CancelRun
    <3>1. x # caller /\ x \in Procs
      BY <1>2, ProcsAre
    <3> QED  BY <2>2, <3>1 DEF CancelRun
  <2>3. CASE Start \/ StartUnknownAsset
    BY <2>3, StartsNew
  <2> QED  BY <1>0, <1>2, <2>1, <2>2, <2>3, WorkerNext
<1> QED  BY <1>1, <1>2, ProcsAre

\* A goroutine answers by the end of its clear.
Answered(w) ==
    /\ w[1] = "drain" /\ hand'[w] = NoUpdate /\ pc[w] \in {"got", "clear", "cleared"}
    /\ \E x \in Procs : pc[x] = "await" /\ hand[x] = hand[w]
    /\ \/ AdmitClear(w) /\ ~ClearIsCurrent(hand[w]) /\ retired' = retired
       \/ ClearEngine(w) /\ (answer' = "failed" \/ hand[w].pair \in retired')
       \/ CompleteClear(w)

LEMMA AnswerOf ==
    ASSUME Structure, NEW w \in Workers, WorkerStep(w)
    PROVE  answer' = answer \/ (Await(w) /\ answer' = "none") \/ Answered(w)
<1>1. /\ pc \in [Procs -> Steps] /\ hand \in [Procs -> Updates] /\ w \in Procs
      /\ Fits(w, pc[w], hand[w], todo[w])
  BY Resting
<1>2. \A u : Take(w, u) => hand'[w] = u
  BY <1>1 DEF Take
<1>3. \A u, ok : Cleared(w, u, ok) =>
          \/ answer' = answer
          \/ /\ w[1] = "drain" /\ hand'[w] = NoUpdate
             /\ \E x \in Procs : pc[x] = "await" /\ hand[x] = u
             /\ ok \/ answer' = "failed"
  BY <1>2 DEF Cleared, Leave
<1>4. \A u : BeginClear(w, u) =>
          answer' = answer \/ (Cleared(w, u, TRUE) /\ ~ClearIsCurrent(u))
  BY DEF BeginClear
<1>5. CASE AdmitClear(w)
  <2>1. BeginClear(w, hand[w]) /\ pc[w] = "got" /\ retired' = retired
    BY <1>5 DEF AdmitClear, history
  <2> QED  BY <1>3, <1>4, <1>5, <2>1 DEF Answered
<1>6. CASE ClearEngine(w)
  <2>1. pc[w] = "clear"
    BY <1>6 DEF ClearEngine
  <2>2. CASE answer' = answer
    BY <2>2
  <2>3. CASE Cleared(w, hand[w], FALSE)
    BY <1>3, <1>6, <2>1, <2>3 DEF Answered
  <2>4. CASE Cleared(w, hand[w], TRUE) /\ retired' = retired \cup {hand[w].pair}
    BY <1>3, <1>6, <2>1, <2>4 DEF Answered
  <2> QED  BY <1>6, <2>2, <2>3, <2>4 DEF ClearEngine
<1>7. CASE CompleteClear(w)
  BY <1>3, <1>7 DEF CompleteClear, Answered
<1>8. ClearNext(w) /\ w[1] # "drain" => answer' = answer
  BY <1>3, <1>4 DEF ClearNext
<1>9. pc[w] \in {"clears", "retry"} => w[1] # "drain"
  BY <1>1 DEF Fits, StepsOf, InSink
<1>10. StartupClears(w) \/ Retry(w) => answer' = answer
  BY <1>8, <1>9 DEF StartupClears, Retry
<1>11. Await(w) => answer' = "none"
  BY DEF Await
<1>12. Receive(w) \/ Offer(w) \/ Admit(w) \/ Push(w) \/ Acknowledge(w) \/ Publish(w) => answer' = answer
  BY DEF Receive, Offer, Admit, Push, Acknowledge, Publish
<1>13. BeginStartup(w) \/ BeginRefresh(w) \/ ReadRows(w) \/ PlanRefresh(w) => answer' = answer
  BY DEF BeginStartup, BeginRefresh, ReadRows, PlanRefresh
<1> QED  BY <1>5, <1>6, <1>7, <1>10, <1>11, <1>12, <1>13 DEF WorkerStep

\* Only the caller's own wait ends with an answer taken.
LEMMA CallerAnswers ==
    ASSUME CallerStep
    PROVE  answer' = answer \/ (Await(caller) /\ answer' = "none")
<1>1. SetPrice \/ PushManual \/ PushManualTooLate \/ FinishPush \/ Configure => answer' = answer
  BY DEF SetPrice, PushManual, PushManualTooLate, FinishPush, Configure
<1>2. BeginStop \/ CancelRun \/ EndStop \/ Start \/ StartUnknownAsset \/ StartFails => answer' = answer
  BY DEF BeginStop, CancelRun, EndStop, Start, StartUnknownAsset, StartFails
<1>3. Await(caller) => answer' = "none"
  BY DEF Await
<1> QED  BY <1>1, <1>2, <1>3 DEF CallerStep

\* An answer has someone who waits for it.
WaitHeard == answer # "none" => \E w \in Procs : pc[w] = "await"

LEMMA WaitHeardStep ==
    ASSUME Before, WaitHeard, Next
    PROVE  WaitHeard'
<1>0. Structure
  BY DEF Before
<1> SUFFICES ASSUME answer' # "none"
             PROVE  \E x \in Procs : pc'[x] = "await"
  BY DEF WaitHeard
<1>1. ASSUME NEW x \in Procs, Await(x)
      PROVE  FALSE
  BY <1>1 DEF Await
<1>2. \E x \in Procs : pc[x] = "await"
  <2>1. CASE answer' = answer
    BY <2>1 DEF WaitHeard
  <2>2. CASE CallerStep
    BY <2>1, <2>2, <1>1, CallerAnswers, ProcsAre
  <2>3. ASSUME NEW w \in Workers, WorkerStep(w)
        PROVE  answer' = answer \/ \E x \in Procs : pc[x] = "await"
    BY <1>0, <1>1, <2>3, AnswerOf, ProcsAre DEF Answered
  <2> QED  BY <1>0, <2>1, <2>2, <2>3, NextIs
<1>3. PICK x \in Procs : pc[x] = "await"
  BY <1>2
<1> QED  BY <1>1, <1>3, AwaitStays

\* A publisher waits alone.
LEMMA AwaitsAlone ==
    ASSUME Structure, NEW x \in Procs, pc[x] = "await"
    PROVE  publisher = x
<1>1. x[1] # "drain"
  <2>1. CASE x = caller
    BY <2>1, ProcsAre
  <2>2. CASE x \in Workers
    BY <2>2 DEF Structure, Hands, Fits, StepsOf, InSink
  <2> QED  BY <2>1, <2>2, ProcsAre
<1> QED  BY <1>1 DEF Structure, Gates, Publishing

\* The store has the row that the caller is about to push.
RowAsked == pc[caller] = "pushManual" => config[hand[caller].pair] = hand[caller].mark

\* The clear that the caller pushed is the newest of its pair, and on its way
\* at most once, until it is answered.
OnItsWay == pc[caller] = "await" /\ answer = "none"
Sole(u) ==
    /\ \A w \in Workers : hand[w].pair = u.pair =>
           hand[w].token < u.token \/ (OnItsWay /\ hand[w] = u /\ w[1] = "drain")
    /\ \A r \in Runs : queue[r] # <<>> /\ queue[r][1].pair = u.pair =>
           \/ queue[r][1].token < u.token
           \/ OnItsWay /\ queue[r][1] = u /\ hand[<<"drain", r>>] # u

\* While the caller asks for a clear, the manager keeps it; once the answer is
\* that it is done, it is.
AskedSound ==
    pc[caller] \in {"push", "await"} /\ IsClear(hand[caller]) =>
        LET u == hand[caller] p == u.pair IN
        /\ u.direct /\ Rests(p) /\ Sole(u)
        /\ p \notin retired /\ answer = "none" =>
               mgr.clears[p] = [token |-> u.token, direct |-> u.direct, inverse |-> u.inverse]
        /\ p \notin retired /\ answer = "done" => NoMarkOf(p)

\* Where the caller got to push or to wait.
LEMMA CallerWaits ==
    ASSUME Before, Next, pc'[caller] \in {"push", "await"}
    PROVE  \/ PushManual /\ mgr.started /\ mgr.applied[hand[caller].pair] = "byo"
           \/ /\ FinishPush /\ pc[caller] = "push" /\ pc'[caller] = "await"
              /\ hand' = hand /\ IsClear(hand[caller])
              /\ queue' = [queue EXCEPT ![hand[caller].run] = <<hand[caller]>>]
           \/ /\ \E w \in Workers : WorkerStep(w)
              /\ pc'[caller] = pc[caller] /\ hand'[caller] = hand[caller]
<1>0. Structure /\ pc \in [Procs -> Steps] /\ caller \in Procs
  BY ProcsAre DEF Before, Structure, Control
<1>1. \A step : Goto(caller, step) => pc'[caller] = step
  BY <1>0 DEF Goto
<1>2. \A step : Leave(caller, step) => pc'[caller] \in {"off", step}
  BY <1>1 DEF Leave
<1>3. CASE CallerStep
  <2>1. ~SetPrice /\ ~BeginStop /\ ~EndStop
    BY <1>1 DEF SetPrice, BeginStop, EndStop
  <2>2. ~PushManualTooLate /\ ~Await(caller)
    BY <1>2 DEF PushManualTooLate, Await
  <2>3. ~Configure /\ ~StartFails
    BY DEF Configure, StartFails, CanStart
  <2>4. ~CancelRun
    BY <1>0 DEF CancelRun
  <2>5. ~Start /\ ~StartUnknownAsset
    <3>1. ASSUME Start \/ StartUnknownAsset
          PROVE  FALSE
      <4>1. pc[caller] = "idle"
        BY <3>1 DEF Start, StartUnknownAsset, CanStart
      <4>2. pc'[caller] = "idle"
        BY <1>0, <3>1, <4>1, StartsNew
      <4> QED  BY <4>2
    <3> QED  BY <3>1
  <2>6. PushManual => mgr.started /\ mgr.applied[hand[caller].pair] = "byo"
    BY <1>2 DEF PushManual
  <2>7. CASE FinishPush
    <3>1. Sent(hand[caller]) /\ IsClear(hand[caller]) /\ Goto(caller, "await") /\ hand' = hand
          /\ pc[caller] = "push"
      BY <1>2, <2>7 DEF FinishPush
    <3> QED  BY <1>1, <2>7, <3>1 DEF Sent
  <2> QED  BY <1>3, <2>1, <2>2, <2>3, <2>4, <2>5, <2>6, <2>7 DEF CallerStep
<1>4. ASSUME NEW w \in Workers, WorkerStep(w)
      PROVE  pc'[caller] = pc[caller] /\ hand'[caller] = hand[caller]
  BY <1>0, <1>4, OneMoves, ProcsAre
<1> QED  BY <1>0, <1>3, <1>4, NextIs

\* A clear that PushManual wants is the newest of its pair.
LEMMA AskedFirst ==
    ASSUME Before, ReadsInTurn, TokensGiven, WaitHeard, RowAsked, Next,
           PushManual, mgr.started, mgr.applied[hand[caller].pair] = "byo"
    PROVE  AskedSound'
<1> SUFFICES ASSUME IsClear(hand[caller])'
             PROVE  (LET u == hand[caller] p == u.pair IN
                     /\ u.direct /\ Rests(p) /\ Sole(u)
                     /\ p \notin retired /\ answer = "none" =>
                            mgr.clears[p] = [token |-> u.token, direct |-> u.direct, inverse |-> u.inverse]
                     /\ p \notin retired /\ answer = "done" => NoMarkOf(p))'
  BY DEF AskedSound
<1>0. Structure /\ mgr \in Managers /\ mgr' \in Managers
  BY ManagerStep DEF Before, Structure, Data, MgrNext
<1> DEFINE p == hand[caller].pair c == mgr'.clears[p] u == hand'[caller]
<1>1. hand[caller].mark = "blank"
  BY PushedIs DEF IsClear
<1>2. /\ p \in Pairs /\ publisher = Free /\ mgr'.revision = mgr.revision + 1
      /\ mgr'.mark[p] = "blank" /\ c.token = mgr.last[p] + 1 /\ c.direct
      /\ u = Clear(p, c, mgr.run) /\ pc[caller] = "pushManual"
  BY <1>1, PushedIs DEF PushManual
<1>3. UNCHANGED <<config, queue, seen, answer>> /\ ~CancelRun /\ ~Start /\ ~StartUnknownAsset
      /\ CallerStep
  <2>1. ~CancelRun /\ ~Start /\ ~StartUnknownAsset
    BY <1>2 DEF CancelRun, Start, StartUnknownAsset, CanStart
  <2> QED  BY <2>1 DEF PushManual, CallerStep
<1>4. u.pair = p /\ u.token = mgr.last[p] + 1 /\ u.direct
      /\ c = [token |-> u.token, direct |-> u.direct, inverse |-> u.inverse]
  <2>1. c \in ClearStates
    BY <1>0, <1>2 DEF Managers
  <2> HIDE DEF c, u
  <2>2. c = [token |-> c.token, direct |-> c.direct, inverse |-> c.inverse]
    BY <2>1 DEF ClearStates
  <2> QED  BY <1>2, <2>2 DEF Clear
<1>5. answer = "none"
  <2>1. \A w \in Procs : pc[w] # "await"
    BY <1>0, <1>2, AwaitsAlone, ProcsAre
  <2> QED  BY <2>1 DEF WaitHeard
<1>6. Rests(hand[caller].pair)'
  <2>1. "blank" \notin Marks
    BY PairsAssumption
  <2>2. config'[p] \notin Marks
    BY <1>1, <1>2, <1>3, <2>1 DEF RowAsked
  <2>3. \A r \in Runs : ~StillAsRead(r)'
    <3> SUFFICES ASSUME NEW r \in Runs, StillAsRead(r)'
                 PROVE  FALSE
      OBVIOUS
    <3>1. /\ mgr'.started /\ seen[r].run = mgr'.run /\ seen[r].revision = mgr'.revision
      BY <1>3 DEF StillAsRead
    <3>2. mgr'.run = mgr.run
      BY PushManualManager DEF Grows
    <3>3. seen[r].revision <= mgr.revision
      BY <3>1, <3>2 DEF ReadsInTurn
    <3> QED  BY <1>0, <1>2, <3>1, <3>3 DEF Managers
  <2> QED  BY <1>2, <1>4, <2>1, <2>2, <2>3 DEF Rests
<1>7. Sole(hand[caller])'
  <2>1. \A w \in Workers : hand'[w] = hand[w]
    BY <1>0, <1>3, CallerAlone
  <2>2. \A v \in Updates : Given(v) /\ v.pair = p => v.token < u.token
    BY <1>0, <1>2, <1>4 DEF Given, Managers, Updates, Tokens
  <2>3. \A w \in Workers : hand[w] \in Updates /\ Given(hand[w])
    BY <1>0, ProcsAre DEF TokensGiven, Structure, Control
  <2>4. \A r \in Runs : queue[r] # <<>> => queue[r][1] \in Updates /\ Given(queue[r][1])
    BY <1>0, QueuesAre DEF TokensGiven
  <2>5. \A w \in Workers : hand'[w].pair = p => hand'[w].token < u.token
    BY <2>1, <2>2, <2>3
  <2>6. \A r \in Runs : queue'[r] # <<>> /\ queue'[r][1].pair = p => queue'[r][1].token < u.token
    BY <1>3, <2>2, <2>4
  <2> QED  BY <1>4, <2>5, <2>6 DEF Sole
<1> QED  BY <1>3, <1>4, <1>5, <1>6, <1>7

\* The caller's clear is sent.
LEMMA AskedSent ==
    ASSUME Before, ReadsInTurn, WaitHeard, AskedSound, Next,
           FinishPush, pc[caller] = "push", pc'[caller] = "await",
           hand' = hand, IsClear(hand[caller]),
           queue' = [queue EXCEPT ![hand[caller].run] = <<hand[caller]>>]
    PROVE  AskedSound'
<1>0. Structure
  BY DEF Before
<1> DEFINE u == hand[caller] p == hand[caller].pair
<1>1. UNCHANGED <<config, mgr, seen, answer, engine, retired>>
  BY DEF FinishPush, history
<1>2. p \in Pairs /\ u.run \in Runs /\ queue \in [Runs -> {<<>>} \cup {<<v>> : v \in Updates}]
  BY <1>0 DEF Structure, Hands, CallerFits, Manual, RunsInTurn, Data
<1>3. u.direct /\ Rests(p) /\ Sole(u)
      /\ (p \notin retired /\ answer = "none" =>
              mgr.clears[p] = [token |-> u.token, direct |-> u.direct, inverse |-> u.inverse])
  BY DEF AskedSound
<1>4. answer = "none"
  <2>1. publisher = caller
    BY <1>0, ProcsAre DEF Structure, Gates, Publishing
  <2>2. \A w \in Procs : pc[w] # "await"
    BY <1>0, <2>1, AwaitsAlone
  <2> QED  BY <2>2 DEF WaitHeard
<1>5. Rests(hand[caller].pair)'
  <2>1. ~PushManual
    BY DEF PushManual
  <2> QED  BY <1>1, <1>2, <1>3, <2>1, RestsStep DEF Rests
<1>6. Sole(hand[caller])'
  <2>1. \A w \in Workers : hand[w].pair = p => hand[w].token < u.token
    BY <1>3 DEF Sole, OnItsWay
  <2>2. \A r \in Runs : queue[r] # <<>> /\ queue[r][1].pair = p => queue[r][1].token < u.token
    BY <1>3 DEF Sole, OnItsWay
  <2>3. \A r \in Runs : queue'[r] \in {queue[r], <<u>>}
    BY <1>2
  <2>4. \A r \in Runs : hand[<<"drain", r>>] # u
    <3> SUFFICES ASSUME NEW r \in Runs, hand[<<"drain", r>>] = u
                 PROVE  FALSE
      OBVIOUS
    <3>1. <<"drain", r>> \in Workers
      BY DEF Workers, Roles
    <3>2. u.token < u.token
      BY <2>1, <3>1
    <3>3. u.token \in Nat
      BY <1>0, ProcsAre DEF Structure, Control, Updates, Tokens
    <3> QED  BY <3>2, <3>3
  <2>5. OnItsWay'
    BY <1>1, <1>4 DEF OnItsWay
  <2>6. <<u>>[1] = u
    OBVIOUS
  <2> HIDE DEF u
  <2>7. \A r \in Runs : queue'[r] # <<>> /\ queue'[r][1].pair = p =>
            queue'[r][1].token < u.token \/ queue'[r][1] = u
    BY <2>2, <2>3, <2>6
  <2> QED  BY <2>1, <2>4, <2>5, <2>7 DEF Sole, u
<1> QED  BY <1>1, <1>3, <1>4, <1>5, <1>6 DEF AskedSound, IsClear

\* What a completed clear of the whole mark leaves.
LEMMA ClearedGone ==
    ASSUME EngineInv, NEW w \in Workers, CompleteClear(w), NEW p \in Pairs,
           LET u == hand[w] IN
               /\ u.pair = p /\ u.direct
               /\ mgr.clears[p].direct /\ mgr.clears[p].inverse = u.inverse,
           p \notin retired
    PROVE  NoMarkOf(p)
<1>0. Structure /\ w \in Procs /\ pc[w] = "cleared" /\ pc \in [Procs -> Steps]
  BY ProcsAre DEF EngineInv, Before, Structure, Control, CompleteClear
<1>1. \A x \in Targets(hand[w]) : engine[x] = Empty
  BY <1>0 DEF EngineInv, Quoted
<1>2. ASSUME NEW x \in Pairs, engine[x].of = p, engine[x].mark \in Marks
      PROVE  FALSE
  <2>1. engine[x] # Empty
    BY <1>2, PairsAssumption DEF Empty
  <2>2. x \notin Targets(hand[w])
    BY <1>1, <2>1
  <2>3. x # p
    BY <2>2 DEF Targets
  <2>4. p \in {x, Opposite[x]}
    BY <1>2, PairsAssumption DEF EngineInv, Quoted
  <2>5. x = Opposite[p]
    BY <2>3, <2>4, PairsAssumption
  <2>6. ~hand[w].inverse
    BY <2>2, <2>5 DEF Targets
  <2>7. p \in mgr.liveInverse
    BY <1>2, <2>3 DEF EngineInv, LiveIsTracked
  <2>8. RowSound(mgr, p)
    BY DEF EngineInv, Before, Sound
  <2> QED  BY <2>6, <2>7, <2>8 DEF RowSound
<1>3. \A x \in Workers : pc[x] # "sink"
  <2>1. sinkGate = w
    BY <1>0 DEF Structure, Gates, InSink
  <2> QED  BY <1>0, <2>1, ProcsAre DEF Structure, Gates, InSink
<1> QED  BY <1>2, <1>3 DEF NoMarkOf

\* While the caller has the publisher gate, no goroutine publishes.
LEMMA CallerPublishes ==
    ASSUME Structure, pc[caller] \in {"push", "await"}, NEW w \in Workers
    PROVE  /\ publisher = caller /\ publisher # w
           /\ ~Publish(w) /\ ~Await(w) /\ ~BeginStartup(w) /\ ~StartupClears(w)
           /\ ~BeginRefresh(w) /\ ~Retry(w) /\ ~PlanRefresh(w)
<1>1. publisher = caller /\ publisher # w /\ publisher # Free
  BY ProcsAre DEF Structure, Gates, Publishing
<1>2. w \in Procs /\ pc[w] \in StepsOf(w[1]) /\ (pc[w] \in Publishing /\ w[1] # "drain" => publisher = w)
  BY ProcsAre DEF Structure, Gates, Hands, Fits
<1>3. pc[w] \notin {"publish", "await", "clears", "retry"}
  BY <1>1, <1>2 DEF Publishing, StepsOf, InSink
<1>4. ~Publish(w) /\ ~Await(w) /\ ~StartupClears(w) /\ ~Retry(w)
  BY <1>3 DEF Publish, Await, StartupClears, Retry
<1>5. ~BeginStartup(w) /\ ~BeginRefresh(w) /\ ~PlanRefresh(w)
  BY <1>1 DEF BeginStartup, BeginRefresh, PlanRefresh
<1> QED  BY <1>1, <1>4, <1>5

\* One goroutine steps while the caller asks for a clear: how the clear and its
\* answer stand.
LEMMA SoleStep ==
    ASSUME Before, Next, NEW w \in Workers, WorkerStep(w),
           NEW u \in Updates, u.pair \in Pairs, u.token >= 1, IsClear(u),
           pc[caller] \in {"push", "await"}, pc'[caller] = pc[caller],
           hand[caller] = u, Sole(u)
    PROVE  Sole(u)'
<1>0. Structure /\ Structure' /\ u.token \in Nat
  BY StructureStep DEF Before, Updates, Tokens
<1>1. /\ hand \in [Procs -> Updates] /\ w \in Procs /\ caller \in Procs /\ caller # w
      /\ queue \in [Runs -> {<<>>} \cup {<<v>> : v \in Updates}]
  BY <1>0, ProcsAre DEF Structure, Control, Data
<1>2. publisher = caller /\ ~Await(w)
  BY <1>0, CallerPublishes
<1>3. \A x \in Workers : x # w => hand'[x] = hand[x]
  BY <1>0, OneMoves, ProcsAre
<1>4. \A r \in Runs : queue'[r] \in {queue[r], <<>>}
  BY <1>0, <1>1, <1>2, QueueOf DEF QueueNext
<1>5. HandNext(w)
  BY <1>0, HandOf
\* The two who hold an update of the same run are one.
<1>6. \A x \in Workers : x[1] = "drain" /\ hand[x] = u => x = <<"drain", u.run>> /\ u.run \in Runs
  <2> SUFFICES ASSUME NEW x \in Workers, x[1] = "drain", hand[x] = u
               PROVE  x = <<"drain", u.run>> /\ u.run \in Runs
    OBVIOUS
  <2>1. Fits(x, pc[x], hand[x], todo[x]) /\ x = <<x[1], x[2]>> /\ x[2] \in Runs
    BY <1>0, Resting, ProcsAre
  <2>2. hand[x] # NoUpdate
    BY PairsAssumption DEF NoUpdate
  <2>3. Offered(x, hand[x])
    BY <2>1, <2>2 DEF Fits
  <2>4. u.run = x[2]
    BY <2>3 DEF Offered, Manual
  <2> QED  BY <2>1, <2>4
<1>7. \A r \in Runs : queue[r] # <<>> /\ queue[r][1] = u => r = u.run
  BY <1>0 DEF Structure, Hands, Manual
<1>8. CASE answer' = answer
  <2>1. OnItsWay' <=> OnItsWay
    BY <1>8 DEF OnItsWay
  <2>2. ASSUME NEW x \in Workers, hand'[x].pair = u.pair
        PROVE  hand'[x].token < u.token \/ (OnItsWay' /\ hand'[x] = u /\ x[1] = "drain")
    <3>1. CASE hand'[x] = hand[x]
      BY <2>1, <2>2, <3>1 DEF Sole
    <3>2. CASE x = w /\ ~IsClear(hand[w]) /\ hand'[w].pair = hand[w].pair /\ hand'[w].token = hand[w].token
      BY <2>2, <3>2 DEF Sole
    <3>3. CASE hand'[x] = NoUpdate
      BY <2>2, <3>3, PairsAssumption DEF NoUpdate
    <3>4. CASE hand'[x].token = 0
      BY <1>0, <3>4
    <3>5. CASE x = w /\ Receive(w) /\ queue[w[2]] # <<>> /\ hand'[w] = queue[w[2]][1]
      <4>1. w[1] = "drain" /\ w[2] \in Runs
        BY <3>5, ProcsAre DEF Receive
      <4> QED  BY <2>1, <2>2, <3>5, <4>1 DEF Sole
    <3> QED  BY <1>2, <1>3, <1>5, <3>1, <3>2, <3>3, <3>4, <3>5, ProcsAre, <1>1 DEF HandNext
  <2>3. ASSUME NEW r \in Runs, queue'[r] # <<>>, queue'[r][1].pair = u.pair
        PROVE  \/ queue'[r][1].token < u.token
               \/ OnItsWay' /\ queue'[r][1] = u /\ hand'[<<"drain", r>>] # u
    <3> DEFINE x == <<"drain", r>>
    <3>1. queue'[r] = queue[r] /\ x \in Workers
      BY <1>4, <2>3 DEF Workers, Roles
    <3>2. CASE queue[r][1].token < u.token
      BY <3>1, <3>2
    <3>3. CASE OnItsWay /\ queue[r][1] = u /\ hand[x] # u
      <4>1. hand'[x] # u
        <5>1. CASE x # w
          BY <1>3, <3>1, <3>3, <5>1
        <5>2. CASE x = w
          <6>1. ASSUME Receive(w), queue'[w[2]] = <<>>
                PROVE  FALSE
            BY <2>3, <5>2, <6>1
          <6>2. u # NoUpdate /\ u.mark # "feed"
            BY PairsAssumption DEF NoUpdate, IsClear
          <6>3. ~(publisher = w)
            BY <1>1, <1>2
          <6>4. hand'[w].mark = hand[w].mark /\ ~IsClear(hand[w]) => hand'[w] # u
            BY DEF IsClear
          <6> QED  BY <1>5, <3>3, <5>2, <6>1, <6>2, <6>3, <6>4 DEF HandNext
        <5> QED  BY <5>1, <5>2
      <4> QED  BY <2>1, <3>1, <3>3, <4>1
    <3> QED  BY <2>3, <3>1, <3>2, <3>3 DEF Sole
  <2> QED  BY <2>2, <2>3 DEF Sole
<1>9. CASE Answered(w)
  <2>1. hand[w] = u /\ w[1] = "drain" /\ hand'[w] = NoUpdate
    <3>1. PICK x \in Procs : pc[x] = "await" /\ hand[x] = hand[w]
      BY <1>9 DEF Answered
    <3>2. x = caller
      BY <1>0, <1>2, <3>1, AwaitsAlone
    <3> QED  BY <1>9, <3>1, <3>2 DEF Answered
  <2>2. w = <<"drain", u.run>>
    BY <1>6, <2>1
  <2>3. ASSUME NEW x \in Workers, hand'[x].pair = u.pair
        PROVE  hand'[x].token < u.token
    <3>1. x # w
      BY <2>1, <2>3, PairsAssumption DEF NoUpdate
    <3>2. hand'[x] = hand[x]
      BY <1>3, <3>1
    <3>3. ~(hand[x] = u /\ x[1] = "drain")
      BY <1>6, <2>2, <3>1
    <3> QED  BY <2>3, <3>2, <3>3 DEF Sole
  <2>4. ASSUME NEW r \in Runs, queue'[r] # <<>>, queue'[r][1].pair = u.pair
        PROVE  queue'[r][1].token < u.token
    <3>1. queue'[r] = queue[r]
      BY <1>4, <2>4
    <3>2. ~(queue[r][1] = u /\ hand[<<"drain", r>>] # u)
      BY <1>7, <2>1, <2>2, <2>4, <3>1
    <3> QED  BY <2>4, <3>1, <3>2 DEF Sole
  <2> QED  BY <2>3, <2>4 DEF Sole
<1> QED  BY <1>0, <1>2, <1>8, <1>9, AnswerOf

\* The steps of a goroutine leave the store alone.
LEMMA StoreKept ==
    ASSUME NEW w \in Workers, WorkerStep(w)
    PROVE  config' = config /\ (told' = told \/ w = caller)
<1>1. Receive(w) \/ Offer(w) \/ Admit(w) \/ AdmitClear(w) \/ Push(w) \/ Acknowledge(w)
          => config' = config /\ told' = told
  BY DEF Receive, Offer, Admit, AdmitClear, Push, Acknowledge, history
<1>2. ClearEngine(w) \/ CompleteClear(w) \/ Publish(w) \/ BeginStartup(w) \/ StartupClears(w)
          => config' = config /\ told' = told
  BY DEF ClearEngine, CompleteClear, Publish, BeginStartup, StartupClears, history
<1>3. BeginRefresh(w) \/ Retry(w) \/ ReadRows(w) \/ PlanRefresh(w)
          => config' = config /\ told' = told
  BY DEF BeginRefresh, Retry, ReadRows, PlanRefresh, history
<1>4. Await(w) => config' = config /\ (told' = told \/ w = caller)
  BY DEF Await
<1> QED  BY <1>1, <1>2, <1>3, <1>4 DEF WorkerStep

\* An answer comes once: whoever brings it has the caller's clear in hand.
LEMMA AnsweredOnce ==
    ASSUME Before, NEW w \in Workers, Answered(w),
           NEW u \in Updates, u.pair \in Pairs,
           pc[caller] \in {"push", "await"}, hand[caller] = u, Sole(u)
    PROVE  hand[w] = u /\ answer = "none"
<1>0. Structure /\ u.token \in Nat
  BY DEF Before, Updates, Tokens
<1>1. PICK x \in Procs : pc[x] = "await" /\ hand[x] = hand[w]
  BY DEF Answered
<1>2. x = caller
  <2>1. caller \in Procs /\ publisher = caller
    BY <1>0, ProcsAre DEF Structure, Gates, Publishing
  <2> QED  BY <1>0, <1>1, <2>1, AwaitsAlone
<1> QED  BY <1>0, <1>1, <1>2 DEF Sole, OnItsWay

\* The manager keeps the clear that the caller asked for, until it is answered.
LEMMA AskedKept ==
    ASSUME Before, Next, NEW w \in Workers, WorkerStep(w),
           NEW u \in Updates, NEW p \in Pairs, p = u.pair, u.token >= 1, IsClear(u),
           pc[caller] \in {"push", "await"}, hand[caller] = u, Sole(u),
           p \notin retired', answer' = "none",
           p \notin retired /\ answer = "none" =>
               mgr.clears[p] = [token |-> u.token, direct |-> u.direct, inverse |-> u.inverse]
    PROVE  mgr'.clears[p] = [token |-> u.token, direct |-> u.direct, inverse |-> u.inverse]
<1>0. Structure /\ u.token \in Nat
  BY DEF Before, Updates, Tokens
<1>1. /\ publisher = caller /\ ~Await(w) /\ ~BeginStartup(w) /\ ~StartupClears(w)
      /\ ~PlanRefresh(w) /\ p \notin retired
  BY <1>0, CallerPublishes, RetiredGrows
<1>2. ~(CompleteClear(w) /\ mgr.clears[p].token = hand[w].token /\ answer = "none" /\ p = hand[w].pair)
  <2> SUFFICES ASSUME CompleteClear(w), mgr.clears[p].token = hand[w].token, answer = "none",
                      p = hand[w].pair
               PROVE  FALSE
    OBVIOUS
  <2>1. mgr.clears[p].token = u.token
    BY <1>1
  <2>2. OnItsWay /\ hand[w] = u /\ w[1] = "drain"
    BY <1>0, <2>1 DEF Sole
  <2>3. \E x \in Procs : pc[x] = "await" /\ hand[x] = hand[w]
    BY <2>2, ProcsAre DEF OnItsWay
  <2>4. answer' = "done"
    BY <2>2, <2>3 DEF CompleteClear, Cleared
  <2> QED  BY <2>4
<1>3. answer = "none"
  <2>1. CASE answer' = answer
    BY <2>1
  <2>2. CASE Answered(w)
    BY <2>2, AnsweredOnce
  <2> QED  BY <1>0, <1>1, <2>1, <2>2, AnswerOf
<1>4. mgr.clears[p] = [token |-> u.token, direct |-> u.direct, inverse |-> u.inverse]
  BY <1>1, <1>3
<1>5. mgr'.clears[p] = mgr.clears[p]
  <2>1. CASE Push(w) \/ Acknowledge(w) \/ ClearEngine(w) \/ CompleteClear(w)
    BY <1>2, <1>3, <2>1, RowsOf
  <2>2. CASE ~(Push(w) \/ Acknowledge(w) \/ ClearEngine(w) \/ CompleteClear(w))
    <3>1. Receive(w) \/ Offer(w) \/ Admit(w) \/ AdmitClear(w) => mgr' = mgr
      BY DEF Receive, Offer, Admit, AdmitClear
    <3>2. Publish(w) \/ BeginRefresh(w) \/ Retry(w) \/ ReadRows(w) => mgr' = mgr
      BY DEF Publish, BeginRefresh, Retry, ReadRows, ClearNext
    <3> QED  BY <1>1, <2>2, <3>1, <3>2 DEF WorkerStep
  <2> QED  BY <2>1, <2>2
<1> QED  BY <1>4, <1>5

\* When the answer is that the clear is done, it is.
LEMMA AskedDone ==
    ASSUME EngineInv, Next, NEW w \in Workers, WorkerStep(w),
           NEW u \in Updates, NEW p \in Pairs, p = u.pair, u.direct, u.run = mgr.run,
           mgr.started, pc[caller] \in {"push", "await"}, hand[caller] = u, Sole(u), Rests(p),
           p \notin retired', answer' = "done",
           p \notin retired /\ answer = "none" =>
               mgr.clears[p] = [token |-> u.token, direct |-> u.direct, inverse |-> u.inverse],
           p \notin retired /\ answer = "done" => NoMarkOf(p)
    PROVE  NoMarkOf(p)'
<1>0. Before /\ Structure
  BY DEF EngineInv, Before
<1>1. ~Await(w) /\ p \notin retired
  BY <1>0, CallerPublishes, RetiredGrows
<1>2. NoMarkOf(p)
  <2>1. CASE answer' = answer
    BY <1>1, <2>1
  <2>2. CASE Answered(w)
    <3>1. hand[w] = u /\ answer = "none"
      BY <1>0, <2>2, AnsweredOnce
    <3>2. mgr.clears[p] = [token |-> u.token, direct |-> u.direct, inverse |-> u.inverse]
      BY <1>1, <3>1
    <3>3. ClearIsCurrent(u)
      BY <3>2 DEF ClearIsCurrent
    <3>4. CompleteClear(w)
      BY <1>1, <2>2, <3>1, <3>3 DEF Answered
    <3>5. mgr.clears[p].direct /\ mgr.clears[p].inverse = u.inverse
      BY <3>2
    <3> QED  BY <1>1, <3>1, <3>4, <3>5, ClearedGone
  <2> QED  BY <1>0, <1>1, <2>1, <2>2, AnswerOf
<1> QED  BY <1>0, <1>2, NoMarkStep

LEMMA AskedStep ==
    ASSUME EngineInv, ReadsInTurn, TokensGiven, WaitHeard, RowAsked, AskedSound, Next
    PROVE  AskedSound'
<1> SUFFICES ASSUME pc'[caller] \in {"push", "await"}, IsClear(hand[caller])'
             PROVE  AskedSound'
  BY DEF AskedSound
<1>0. Before /\ Structure
  BY DEF EngineInv, Before
<1>1. CASE PushManual /\ mgr.started /\ mgr.applied[hand[caller].pair] = "byo"
  BY <1>0, <1>1, AskedFirst
<1>2. CASE /\ FinishPush /\ pc[caller] = "push" /\ pc'[caller] = "await"
           /\ hand' = hand /\ IsClear(hand[caller])
           /\ queue' = [queue EXCEPT ![hand[caller].run] = <<hand[caller]>>]
  BY <1>0, <1>2, AskedSent
<1>3. ASSUME NEW w \in Workers, WorkerStep(w),
             pc'[caller] = pc[caller], hand'[caller] = hand[caller]
      PROVE  AskedSound'
  <2>1. /\ hand[caller] \in Updates /\ IsClear(hand[caller]) /\ mgr.started
        /\ Manual(hand[caller], mgr.run) /\ pc[caller] \in {"push", "await"}
    BY <1>0, <1>3, ProcsAre DEF Structure, Control, Hands, CallerFits, IsClear
  <2>2. PICK u \in Updates : u = hand[caller]
    BY <2>1
  <2>3. PICK p \in Pairs : p = u.pair
    BY <2>1, <2>2 DEF Manual
  <2>4. /\ u.direct /\ Rests(p) /\ Sole(u)
        /\ p \notin retired /\ answer = "none" =>
               mgr.clears[p] = [token |-> u.token, direct |-> u.direct, inverse |-> u.inverse]
        /\ p \notin retired /\ answer = "done" => NoMarkOf(p)
    BY <2>1, <2>2, <2>3 DEF AskedSound
  <2>5. u.token >= 1 /\ u.run = mgr.run /\ IsClear(u) /\ hand[caller] = u
    BY <2>1, <2>2 DEF Manual
  <2>6. Rests(p)'
    <3>1. config' = config /\ ~PushManual
      BY <1>3, <2>1, StoreKept DEF PushManual
    <3> QED  BY <1>0, <2>4, <3>1, RestsStep DEF Rests
  <2>7. Sole(u)'
    BY <1>0, <1>3, <2>1, <2>3, <2>4, <2>5, SoleStep
  <2>8. p \notin retired' /\ answer' = "none" =>
            mgr'.clears[p] = [token |-> u.token, direct |-> u.direct, inverse |-> u.inverse]
    BY <1>0, <1>3, <2>1, <2>3, <2>4, <2>5, AskedKept
  <2>9. p \notin retired' /\ answer' = "done" => NoMarkOf(p)'
    BY <1>0, <1>3, <2>1, <2>3, <2>4, <2>5, AskedDone
  <2>10. hand'[caller] = u
    BY <1>3, <2>2
  <2>11. Rests(hand[caller].pair)' /\ (NoMarkOf(p)' => NoMarkOf(hand[caller].pair)')
    BY <2>3, <2>6, <2>10 DEF Rests, NoMarkOf
  <2>12. Sole(hand[caller])'
    BY <2>7, <2>10 DEF Sole
  <2> QED  BY <2>3, <2>4, <2>8, <2>9, <2>10, <2>11, <2>12 DEF AskedSound
<1> QED  BY <1>0, <1>1, <1>2, <1>3, CallerWaits

\* Who changes the store, and what the caller was told.
LEMMA StoreNext ==
    ASSUME Structure, Next
    PROVE  \/ config' = config /\ (told' = told \/ Await(caller))
           \/ (SetPrice \/ Configure) /\ told' = "none"
<1>1. CASE CallerStep
  <2>1. PushManual \/ PushManualTooLate \/ FinishPush => config' = config /\ told' = told
    BY DEF PushManual, PushManualTooLate, FinishPush, history
  <2>2. BeginStop \/ CancelRun \/ EndStop => config' = config /\ told' = told
    BY DEF BeginStop, CancelRun, EndStop, history
  <2>3. Start \/ StartUnknownAsset \/ StartFails => config' = config /\ told' = told
    BY DEF Start, StartUnknownAsset, StartFails
  <2>4. Await(caller) => config' = config
    BY DEF Await
  <2>5. SetPrice \/ Configure => told' = "none"
    BY DEF SetPrice, Configure
  <2> QED  BY <1>1, <2>1, <2>2, <2>3, <2>4, <2>5 DEF CallerStep
<1>2. ASSUME NEW w \in Workers, WorkerStep(w)
      PROVE  config' = config /\ told' = told
  BY <1>2, StoreKept, ProcsAre
<1> QED  BY <1>1, <1>2, NextIs

\* How the caller comes to push a row.
LEMMA CallerRow ==
    ASSUME Before, Next, pc'[caller] = "pushManual"
    PROVE  \/ SetPrice
           \/ pc[caller] = "pushManual" /\ hand'[caller] = hand[caller] /\ config' = config
<1>0. Structure /\ pc \in [Procs -> Steps] /\ caller \in Procs
  BY ProcsAre DEF Before, Structure, Control
<1>1. \A step : Goto(caller, step) => pc'[caller] = step
  BY <1>0 DEF Goto
<1>2. \A step : Leave(caller, step) => pc'[caller] \in {"off", step}
  BY <1>1 DEF Leave
<1>3. CASE CallerStep
  <2>1. ~BeginStop /\ ~EndStop /\ ~PushManualTooLate /\ ~Await(caller)
    BY <1>1, <1>2 DEF BeginStop, EndStop, PushManualTooLate, Await
  <2>2. ~PushManual /\ ~FinishPush
    <3>1. ~FinishPush
      BY <1>1, <1>2 DEF FinishPush
    <3>2. ~PushManual
      BY <1>1, <1>2 DEF PushManual
    <3> QED  BY <3>1, <3>2
  <2>3. ~Configure /\ ~StartFails /\ ~CancelRun
    BY <1>0 DEF Configure, StartFails, CanStart, CancelRun
  <2>4. ~Start /\ ~StartUnknownAsset
    <3>1. ASSUME Start \/ StartUnknownAsset
          PROVE  FALSE
      <4>1. pc[caller] = "idle"
        BY <3>1 DEF Start, StartUnknownAsset, CanStart
      <4>2. pc'[caller] = "idle"
        BY <1>0, <3>1, <4>1, StartsNew
      <4> QED  BY <4>2
    <3> QED  BY <3>1
  <2> QED  BY <1>3, <2>1, <2>2, <2>3, <2>4 DEF CallerStep
<1>4. ASSUME NEW w \in Workers, WorkerStep(w)
      PROVE  pc[caller] = "pushManual" /\ hand'[caller] = hand[caller] /\ config' = config
  BY <1>0, <1>4, OneMoves, StoreKept, ProcsAre
<1> QED  BY <1>0, <1>3, <1>4, NextIs

LEMMA RowAskedStep ==
    ASSUME Before, RowAsked, Next
    PROVE  RowAsked'
<1> SUFFICES ASSUME pc'[caller] = "pushManual"
             PROVE  config'[hand'[caller].pair] = hand'[caller].mark
  BY DEF RowAsked
<1>1. CASE SetPrice
  <2>1. PICK p \in Pairs, row \in {"blank"} \cup Marks :
            config' = [config EXCEPT ![p] = row] /\ Take(caller, Quote(p, row, 0, mgr.run))
    BY <1>1 DEF SetPrice
  <2>2. config \in [Pairs -> Rows] /\ hand \in [Procs -> Updates] /\ caller \in Procs
    BY ProcsAre DEF Before, Structure, Data, Control
  <2>3. config'[p] = row /\ hand'[caller] = Quote(p, row, 0, mgr.run)
    BY <2>1, <2>2 DEF Take
  <2> QED  BY <2>3 DEF Quote
<1>2. CASE pc[caller] = "pushManual" /\ hand'[caller] = hand[caller] /\ config' = config
  BY <1>2 DEF RowAsked
<1> QED  BY <1>1, <1>2, CallerRow

\* What the caller was told holds until the operator changes the configuration.
ToldSound ==
    told \in Pairs =>
        /\ pc[caller] \notin {"pushManual", "push", "await"}
        /\ Rests(told)
        /\ told \notin retired => NoMarkOf(told)

LEMMA ToldStep ==
    ASSUME EngineInv, ReadsInTurn, AskedSound, ToldSound, Next
    PROVE  ToldSound'
<1> SUFFICES ASSUME told' \in Pairs
             PROVE  ToldSound'
  BY DEF ToldSound
<1>0. Before /\ Structure /\ pc \in [Procs -> Steps] /\ caller \in Procs /\ retired \subseteq retired'
  BY RetiredGrows, ProcsAre DEF EngineInv, Before, Structure, Control
<1>1. PICK p \in Pairs : p = told'
  OBVIOUS
<1>2. config' = config /\ (told' = told \/ Await(caller)) /\ ~SetPrice
  <2>1. ~SetPrice /\ ~Configure
    BY PairsAssumption DEF SetPrice, Configure
  <2> QED  BY <1>0, <2>1, StoreNext
<1>3. ASSUME Rests(p), p \notin retired => NoMarkOf(p), pc[caller] # "pushManual",
             pc'[caller] \notin {"pushManual", "push", "await"}
      PROVE  ToldSound'
  <2>1. Rests(p)'
    <3>1. ~PushManual
      BY <1>3 DEF PushManual
    <3> QED  BY <1>0, <1>2, <1>3, <3>1, RestsStep DEF Rests
  <2>2. p \notin retired' => NoMarkOf(p)'
    BY <1>0, <1>3, NoMarkStep
  <2>3. Rests(told)' /\ (told' \notin retired' => NoMarkOf(told)')
    BY <1>1, <2>1, <2>2 DEF Rests, NoMarkOf
  <2> QED  BY <1>3, <2>3 DEF ToldSound
<1>4. CASE told' = told /\ ~(Await(caller) /\ answer = "done")
  <2>1. /\ pc[caller] \notin {"pushManual", "push", "await"} /\ Rests(p)
        /\ p \notin retired => NoMarkOf(p)
    BY <1>1, <1>4 DEF ToldSound
  <2>2. pc'[caller] \notin {"pushManual", "push", "await"}
    <3>1. ~PushManual /\ ~FinishPush
      BY <2>1 DEF PushManual, FinishPush
    <3> QED  BY <1>0, <1>2, <2>1, <3>1, CallerRow, CallerWaits
  <2> QED  BY <1>3, <2>1, <2>2
<1>5. CASE Await(caller) /\ answer = "done"
  <2>1. p = hand[caller].pair /\ pc[caller] = "await" /\ pc'[caller] \in {"off", "idle"}
    <3>1. p = hand[caller].pair /\ pc[caller] = "await" /\ Leave(caller, "idle")
      BY <1>1, <1>5 DEF Await
    <3> QED  BY <1>0, <3>1 DEF Leave, Goto
  <2>2. IsClear(hand[caller])
    BY <1>0, <2>1 DEF Structure, Hands, CallerFits
  <2>3. Rests(p) /\ (p \notin retired => NoMarkOf(p))
    BY <1>5, <2>1, <2>2 DEF AskedSound
  <2> QED  BY <1>3, <2>1, <2>3
<1>6. Await(caller) /\ answer # "done" => told' = told
  BY DEF Await
<1> QED  BY <1>2, <1>4, <1>5, <1>6

AnswerInv == ReadsInTurn /\ TokensGiven /\ WaitHeard /\ RowAsked /\ AskedSound /\ ToldSound

\* PushManual answers that a pair is cleared only when its mark is gone from the
\* engine, the one derived for its inverse too, and it stays gone until the
\* configuration is changed again.
THEOREM AnswerHolds == Spec => []ClearAnswerTrue
<1>1. EngineInv /\ AnswerInv => ClearAnswerTrue
  <2> SUFFICES ASSUME EngineInv, AnswerInv, NEW x \in Pairs, engine[x].of = told,
                      engine[x].mark \in Marks
               PROVE  told \in retired
    BY DEF ClearAnswerTrue
  <2>1. told \in Pairs
    <3>1. engine[x].mark # "none"
      BY PairsAssumption
    <3>2. engine[x].of \in {x, Opposite[x]}
      BY <3>1 DEF EngineInv, Quoted
    <3> QED  BY <3>2, PairsAssumption
  <2> QED  BY <2>1 DEF AnswerInv, ToldSound, NoMarkOf
<1>2. Init => AnswerInv
  <2> SUFFICES ASSUME Init
               PROVE  AnswerInv
    OBVIOUS
  <2>1. /\ pc[caller] = "idle" /\ answer = "none" /\ told = "none"
        /\ ~mgr.started /\ mgr.run = 0 /\ seen = [r \in Runs |-> NotSeen]
        /\ queue = [r \in Runs |-> <<>>]
        /\ hand = [w \in Procs |-> NoUpdate] /\ todo = [w \in Procs |-> {}]
    BY ProcsAre DEF Init
  <2>2. ReadsInTurn
    BY <2>1 DEF ReadsInTurn, NotSeen
  <2>3. TokensGiven
    BY <2>1, PairsAssumption DEF TokensGiven, Given, NoUpdate
  <2>4. WaitHeard /\ RowAsked /\ AskedSound /\ ToldSound
    BY <2>1, PairsAssumption DEF WaitHeard, RowAsked, AskedSound, ToldSound
  <2> QED  BY <2>2, <2>3, <2>4 DEF AnswerInv
<1>3. EngineInv /\ AnswerInv /\ [Next]_vars => AnswerInv'
  <2> SUFFICES ASSUME EngineInv, AnswerInv, [Next]_vars
               PROVE  AnswerInv'
    OBVIOUS
  <2> USE DEF AnswerInv
  <2>1. CASE UNCHANGED vars
    <3>1. ReadsInTurn' /\ TokensGiven' /\ WaitHeard' /\ RowAsked'
      BY <2>1 DEF vars, history, ReadsInTurn, TokensGiven, Given, WaitHeard, RowAsked
    <3>2. AskedSound' /\ ToldSound'
      BY <2>1 DEF vars, history, AskedSound, ToldSound, Rests, NoMarkOf, Sole, OnItsWay,
                  IsClear, StillAsRead
    <3> QED  BY <3>1, <3>2
  <2>2. CASE Next
    <3>1. Before
      BY DEF EngineInv
    <3>2. ReadsInTurn' /\ TokensGiven' /\ WaitHeard' /\ RowAsked'
      BY <2>2, <3>1, ReadsInTurnStep, TokensGivenStep, WaitHeardStep, RowAskedStep
    <3>3. AskedSound' /\ ToldSound'
      BY <2>2, AskedStep, ToldStep
    <3> QED  BY <3>2, <3>3
  <2> QED  BY <2>1, <2>2
<1> QED  BY <1>1, <1>2, <1>3, EngineInvHolds, PTL DEF Spec
=============================================================================
