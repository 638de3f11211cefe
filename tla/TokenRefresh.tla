---------------------------- MODULE TokenRefresh ----------------------------
(***************************************************************************)
(* How IntegrationManager (src/src/integrations) keeps access tokens from   *)
(* running out: the refresh on demand, the one-shot timer of an account,    *)
(* the periodic passes, and the sweep an unlocked vault starts.  Time passes *)
(* in steps of the margin's unit and a token is the time it has left; the   *)
(* provider answers a refresh whenever it likes, with a new lifetime or an  *)
(* error.  Whose tokens they are is the matter of module McpBridge.         *)
(***************************************************************************)
EXTENDS Integers, FiniteSets

CONSTANTS
    Account,
    Refreshable,  \* accounts whose provider hands out a refresh token
    Lifetime,     \* lifetimes a provider may grant, Never for no expiry
    Longest,      \* the longest of them
    Margin,       \* the timer fires this long before the expiry: 60 s
    Buffer,       \* EXPIRY_BUFFER_SECONDS: 5 min
    Period,       \* BG_TICK_MS: 30 min
    Ahead,        \* BG_PRE_EXPIRY_SECONDS: 35 min
    MaxPasses,    \* background passes that may be under way at once, a bound
    None

Never == -1
Off == -1

ASSUME TokenRefreshAssumption ==
    /\ Refreshable \subseteq Account
    /\ Longest \in Nat
    /\ Lifetime \subseteq (1..Longest) \cup {Never}
    /\ Margin \in Nat /\ Buffer \in Nat /\ Period \in Nat /\ Ahead \in Nat
    /\ 0 < Margin /\ Margin < Buffer /\ Buffer < Period /\ Period < Ahead
    /\ MaxPasses \in Nat
    /\ None \notin Int

VARIABLES
    token,     \* time the stored token of each account has left, None if not connected
    inflight,  \* IntegrationManager.refreshInflight
    timer,     \* IntegrationManager.earlyRefreshTimers: time to go, or Off
    sweepIn,   \* time to the next background pass
    passes,    \* backgroundRefresh under way: accounts to do, account awaited
    locked,    \* is the vault locked
    lapsed     \* accounts whose token nobody watches: the last refresh failed or brought a
               \* life within the margin, or a pass set the timer from an expiry of the past

vars == <<token, inflight, timer, sweepIn, passes, locked, lapsed>>

Left == 0..Longest

\* An account of the snapshot store.list() took: its expiry, and whether the
\* pass will only set its timer.
Entry == [acct : Account, left : Left \cup {Never}, skip : BOOLEAN]

TypeOK ==
    /\ token \in [Account -> Left \cup {Never, None}]
    /\ inflight \subseteq Account
    /\ timer \in [Account -> 0..Period \cup {Off}]
    /\ sweepIn \in 0..Period
    /\ passes \subseteq [todo : SUBSET Entry, waits : Account \cup {None}]
    /\ locked \in BOOLEAN
    /\ lapsed \subseteq Account

Init ==
    /\ token = [a \in Account |-> None]
    /\ inflight = {}
    /\ timer = [a \in Account |-> Off]
    /\ sweepIn = Period
    /\ passes = {}
    /\ locked = TRUE
    /\ lapsed = {}

-----------------------------------------------------------------------------
(* getAccessToken and scheduleEarlyRefresh.                                *)

NearExpiry(left) == left # Never /\ left < Buffer

\* Does getAccessToken on a token with left to go end in a refresh: one it
\* starts, or the one in flight it joins.
Refreshes(a, left, force) ==
    left # None /\ a \in Refreshable /\ (force \/ NearExpiry(left))

\* getTokens answers null while the vault is locked.
Readable(a) == IF locked THEN None ELSE token[a]

RefreshNow(left) == left # Never /\ left - Margin <= 0

\* Mutant of TimerFor: the timer is set only for lives shorter than the buffer.
TimerForShort(left) == IF left # Never /\ left < Buffer THEN left ELSE Off

\* scheduleEarlyRefresh: no timer without an expiry, nor when the next pass
\* comes first.
TimerFor(left) ==
    IF left = Never \/ RefreshNow(left) \/ left - Margin >= Period THEN Off ELSE left - Margin

-----------------------------------------------------------------------------
(* Background passes.                                                      *)

Pass(todo, waits) == IF todo = {} /\ waits = None THEN {} ELSE {[todo |-> todo, waits |-> waits]}

\* Mutant of Snapshot: tokens that have run out are not looked at.
SnapshotLive ==
    {[acct |-> a, left |-> token[a], skip |-> token[a] = Never \/ token[a] > Ahead] :
        a \in {b \in Account : token[b] # None /\ token[b] # 0}}

Snapshot ==
    {[acct |-> a, left |-> token[a], skip |-> token[a] = Never \/ token[a] > Ahead] :
        a \in {b \in Account : token[b] # None}}

\* backgroundRefresh up to its first account.
BeginPass == Cardinality(passes) < MaxPasses /\ passes' = passes \cup Pass(Snapshot, None)

\* The passes that awaited the refresh of a go on.
Resumed(a) ==
    UNION {Pass(p.todo, IF p.waits = a THEN None ELSE p.waits) : p \in passes}

\* A pass goes from account to account without leaving the event loop to others,
\* until it awaits a refresh.
Idle == \A p \in passes : p.waits # None

\* The interval fires.
SweepDue ==
    /\ Idle /\ sweepIn = 0
    /\ sweepIn' = Period
    /\ IF locked THEN UNCHANGED passes ELSE BeginPass
    /\ UNCHANGED <<token, inflight, timer, locked, lapsed>>

\* One account of a pass: its timer is set from the expiry the snapshot holds,
\* then its token is asked for, and a refresh awaited.
SweepStep(p, e) ==
    /\ p.waits = None
    /\ LET refresh == Refreshes(e.acct, Readable(e.acct), FALSE)
       IN  /\ timer' = [timer EXCEPT ![e.acct] = TimerFor(e.left)]
           /\ inflight' = IF refresh /\ (RefreshNow(e.left) \/ ~e.skip) THEN inflight \cup {e.acct} ELSE inflight
           /\ passes' = (passes \ {p}) \cup
                 Pass(p.todo \ {e}, IF refresh /\ ~e.skip THEN e.acct ELSE None)
           /\ lapsed' = IF e.left # token[e.acct] THEN lapsed \cup {e.acct} ELSE lapsed
    /\ UNCHANGED <<token, sweepIn, locked>>

-----------------------------------------------------------------------------
(* Accounts.                                                               *)

\* completeAuth, after the exchange of the code.
Connect(a, life) ==
    /\ Idle /\ ~locked
    /\ token' = [token EXCEPT ![a] = life]
    /\ timer' = [timer EXCEPT ![a] = TimerFor(life)]
    /\ inflight' = IF RefreshNow(life) /\ Refreshes(a, life, FALSE) THEN inflight \cup {a} ELSE inflight
    /\ lapsed' = lapsed \ {a}
    /\ UNCHANGED <<sweepIn, passes, locked>>

Disconnect(a) ==
    /\ Idle /\ token[a] # None
    /\ token' = [token EXCEPT ![a] = None]
    /\ timer' = [timer EXCEPT ![a] = Off]
    /\ UNCHANGED <<inflight, sweepIn, passes, locked, lapsed>>

\* getAccessToken from a tool, or forceRefresh after a 401.
Use(a, force) ==
    /\ Idle /\ Refreshes(a, Readable(a), force)
    /\ inflight' = inflight \cup {a}
    /\ UNCHANGED <<token, timer, sweepIn, passes, locked, lapsed>>

\* The timer of an account.
TimerFires(a) ==
    /\ Idle /\ timer[a] = 0
    /\ timer' = [timer EXCEPT ![a] = Off]
    /\ inflight' = IF Refreshes(a, Readable(a), FALSE) THEN inflight \cup {a} ELSE inflight
    /\ UNCHANGED <<token, sweepIn, passes, locked, lapsed>>

\* doRefresh, the provider granted a new token.  The refresh scheduleEarlyRefresh
\* asks for at once when the life is that short joins this one, which is over.
Refreshed(a, life) ==
    /\ Idle /\ a \in inflight /\ ~locked
    /\ token' = [token EXCEPT ![a] = life]
    /\ timer' = [timer EXCEPT ![a] = TimerFor(life)]
    /\ inflight' = inflight \ {a}
    /\ passes' = Resumed(a)
    /\ lapsed' = IF RefreshNow(life) THEN lapsed \cup {a} ELSE lapsed \ {a}
    /\ UNCHANGED <<sweepIn, locked>>

\* doRefresh, the provider refused or the vault was locked before upsert.
RefreshFailed(a) ==
    /\ Idle /\ a \in inflight
    /\ inflight' = inflight \ {a}
    /\ passes' = Resumed(a)
    /\ lapsed' = lapsed \cup {a}
    /\ UNCHANGED <<token, timer, sweepIn, locked>>

-----------------------------------------------------------------------------
(* The vault and the clock.                                                *)

Lock ==
    /\ Idle /\ ~locked
    /\ locked' = TRUE
    /\ UNCHANGED <<token, inflight, timer, sweepIn, passes, lapsed>>

Unlock ==
    /\ Idle /\ locked
    /\ locked' = FALSE
    /\ BeginPass
    /\ UNCHANGED <<token, inflight, timer, sweepIn, lapsed>>

Less(t) == IF t = None \/ t <= 0 THEN t ELSE t - 1

\* Timers that are due and passes that can go on run before time passes: the
\* event loop is not held up for as long as the unit.
Tick ==
    /\ sweepIn > 0
    /\ \A a \in Account : timer[a] # 0
    /\ Idle
    /\ token' = [a \in Account |-> Less(token[a])]
    /\ timer' = [a \in Account |-> Less(timer[a])]
    /\ sweepIn' = sweepIn - 1
    /\ passes' = {[p EXCEPT !.todo = {[e EXCEPT !.left = Less(e.left)] : e \in @}] : p \in passes}
    /\ UNCHANGED <<inflight, locked, lapsed>>

-----------------------------------------------------------------------------

Next ==
    \/ SweepDue
    \/ \E p \in passes : \E e \in p.todo : SweepStep(p, e)
    \/ \E a \in Account :
          \/ \E life \in Lifetime : Connect(a, life) \/ Refreshed(a, life)
          \/ Disconnect(a) \/ TimerFires(a) \/ RefreshFailed(a)
          \/ \E force \in BOOLEAN : Use(a, force)
    \/ Lock \/ Unlock
    \/ Tick

Spec == Init /\ [][Next]_vars

\* The event loop runs what is due, the clock goes on, and the provider answers.
\* Each may be put off by a pass that is under way, so the fairness is strong.
FairSpec ==
    /\ Spec
    /\ SF_vars(SweepDue) /\ SF_vars(Tick)
    /\ WF_vars(\E p \in passes : \E e \in p.todo : SweepStep(p, e))
    /\ \A a \in Account :
          SF_vars(TimerFires(a)) /\ SF_vars(RefreshFailed(a) \/ \E life \in Lifetime : Refreshed(a, life))

-----------------------------------------------------------------------------

Waiting(a) == \E p \in passes : \E e \in p.todo : e.acct = a

\* IntegrationManager.ts, earlyRefreshTimers: without them "a fresh token with a
\* 10-min TTL would expire 20 min before the next sweep notices".  Between timer,
\* sweep and refresh on demand no token runs out unnoticed.
KeptWarm ==
    \A a \in Refreshable : token[a] = 0 => locked \/ a \in inflight \/ a \in lapsed \/ Waiting(a)

\* An expired token is asked for again, however often the refresh failed before.
ExpiredIsRetried ==
    \A a \in Refreshable : token[a] = 0 ~> (token[a] # 0 \/ a \in inflight \/ locked)
=============================================================================
