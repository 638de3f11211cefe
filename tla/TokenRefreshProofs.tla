------------------------- MODULE TokenRefreshProofs -------------------------
(***************************************************************************)
(* That no token runs out unnoticed, for every set of accounts, every set of *)
(* lifetimes and every choice of thresholds in the order the code has them.  *)
(***************************************************************************)
EXTENDS TokenRefresh, TLAPS

\* The token of a is one somebody must watch.
Due(a) ==
    /\ token[a] # None /\ token[a] # Never
    /\ ~locked /\ a \notin lapsed /\ a \notin inflight /\ ~Waiting(a)

\* It is watched by a timer that is set for the margin before its expiry, or, when
\* there is none, by a pass that comes before that moment.
Watched(a) ==
    \/ timer[a] >= 0 /\ timer[a] = token[a] - Margin
    \/ timer[a] = Off /\ sweepIn + Margin <= token[a]

AllWatched == \A a \in Refreshable : Due(a) => Watched(a)

IInv == TypeOK /\ AllWatched

-----------------------------------------------------------------------------
(* The operators.                                                          *)

\* What a timer is set to is a time within the period, or Off.
LEMMA TimerForTypes ==
    ASSUME NEW left \in Left \cup {Never}
    PROVE  TimerFor(left) \in 0..Period \cup {Off}
BY TokenRefreshAssumption DEF TimerFor, RefreshNow, Left, Never, Off

\* scheduleEarlyRefresh: a life outside the margin is watched from then on.
LEMMA TimerForWatches ==
    ASSUME NEW left \in Left, ~RefreshNow(left), NEW sweep \in 0..Period
    PROVE  \/ TimerFor(left) >= 0 /\ TimerFor(left) = left - Margin
           \/ TimerFor(left) = Off /\ sweep + Margin <= left
BY TokenRefreshAssumption DEF TimerFor, RefreshNow, Left, Never, Off

\* A life within the margin is within the buffer too: a refresh that is asked for
\* because of it is one getAccessToken starts.
LEMMA NowRefreshes ==
    ASSUME NEW a \in Refreshable, NEW left \in Left, RefreshNow(left) \/ left = Margin
    PROVE  Refreshes(a, left, FALSE)
BY TokenRefreshAssumption DEF Refreshes, NearExpiry, RefreshNow, Left, Never

LEMMA LessTypes ==
    /\ \A t \in Left \cup {Never, None} : Less(t) \in Left \cup {Never, None}
    /\ \A t \in Left \cup {Never} : Less(t) \in Left \cup {Never}
    /\ \A t \in 0..Period \cup {Off} : Less(t) \in 0..Period \cup {Off}
BY TokenRefreshAssumption DEF Less, Left, Never, Off

LEMMA PassTypes ==
    ASSUME NEW todo \in SUBSET Entry, NEW waits \in Account \cup {None}
    PROVE  Pass(todo, waits) \subseteq [todo : SUBSET Entry, waits : Account \cup {None}]
BY DEF Pass

LEMMA SnapshotTypes == TypeOK => Snapshot \subseteq Entry
<1> SUFFICES ASSUME TypeOK, NEW a \in Account, token[a] # None
             PROVE  [acct |-> a, left |-> token[a], skip |-> token[a] = Never \/ token[a] > Ahead] \in Entry
    BY DEF Snapshot
<1> DEFINE skip == token[a] = Never \/ token[a] > Ahead
<1>1. token[a] \in Left \cup {Never} BY DEF TypeOK
<1>2. skip \in BOOLEAN OBVIOUS
<1> HIDE DEF skip
<1>3. [acct |-> a, left |-> token[a], skip |-> skip] \in Entry BY <1>1, <1>2 DEF Entry
<1> QED BY <1>3 DEF skip

LEMMA BeginTypes == TypeOK /\ BeginPass => passes' \subseteq [todo : SUBSET Entry, waits : Account \cup {None}]
BY SnapshotTypes, PassTypes DEF BeginPass, TypeOK

\* A pass that begins has every connected account to do, and no other loses one.
LEMMA BeginWaits == BeginPass => \A a \in Account : token[a] # None => Waiting(a)'
<1> SUFFICES ASSUME BeginPass, NEW a \in Account, token[a] # None PROVE Waiting(a)' OBVIOUS
<1> DEFINE mine == [acct |-> a, left |-> token[a], skip |-> token[a] = Never \/ token[a] > Ahead]
<1>0. mine \in Snapshot /\ mine.acct = a BY DEF Snapshot
<1> HIDE DEF mine
<1>1. PICK e \in Snapshot : e.acct = a BY <1>0
<1>2. [todo |-> Snapshot, waits |-> None] \in passes' BY <1>1 DEF BeginPass, Pass
<1> QED BY <1>1, <1>2 DEF Waiting

LEMMA ResumedTypes == ASSUME TypeOK, NEW a PROVE Resumed(a) \subseteq [todo : SUBSET Entry, waits : Account \cup {None}]
<1>1. ASSUME NEW p \in passes
      PROVE  Pass(p.todo, IF p.waits = a THEN None ELSE p.waits) \subseteq [todo : SUBSET Entry, waits : Account \cup {None}]
  <2>1. p.todo \in SUBSET Entry /\ p.waits \in Account \cup {None} BY DEF TypeOK
  <2> QED BY <2>1, PassTypes
<1> QED BY <1>1 DEF Resumed

\* The passes that awaited a refresh keep what they have to do.
LEMMA ResumedWaits == ASSUME NEW a, NEW b, passes' = Resumed(a), Waiting(b) PROVE Waiting(b)'
<1>1. PICK p \in passes : \E e \in p.todo : e.acct = b BY DEF Waiting
<1>2. PICK e \in p.todo : e.acct = b BY <1>1
<1> DEFINE w == IF p.waits = a THEN None ELSE p.waits
<1>3. Pass(p.todo, w) \subseteq Resumed(a) BY DEF Resumed
<1>4. [todo |-> p.todo, waits |-> w] \in Pass(p.todo, w) BY <1>2 DEF Pass
<1> HIDE DEF w
<1> QED BY <1>2, <1>3, <1>4 DEF Waiting

-----------------------------------------------------------------------------

LEMMA InitInv == Init => IInv
BY TokenRefreshAssumption DEF Init, IInv, TypeOK, AllWatched, Due, Off

LEMMA TypeStep == TypeOK /\ [Next]_vars => TypeOK'
<1> SUFFICES ASSUME TypeOK, [Next]_vars PROVE TypeOK' OBVIOUS
<1> USE DEF TypeOK
<1>1. CASE SweepDue BY <1>1, BeginTypes, TokenRefreshAssumption DEF SweepDue
<1>2. ASSUME NEW p \in passes, NEW e \in p.todo, SweepStep(p, e) PROVE TypeOK'
  <2>1. p.todo \in SUBSET Entry /\ e \in Entry /\ e.acct \in Account /\ e.left \in Left \cup {Never} BY DEF Entry
  <2>2. TimerFor(e.left) \in 0..Period \cup {Off} BY <2>1, TimerForTypes
  <2>3. \A w \in {e.acct, None} : Pass(p.todo \ {e}, w) \subseteq [todo : SUBSET Entry, waits : Account \cup {None}]
    BY <2>1, PassTypes
  <2>4. passes' \subseteq [todo : SUBSET Entry, waits : Account \cup {None}] BY <1>2, <2>3 DEF SweepStep
  <2>5. timer' \in [Account -> 0..Period \cup {Off}] BY <1>2, <2>1, <2>2 DEF SweepStep
  <2> QED BY <1>2, <2>1, <2>4, <2>5 DEF SweepStep
<1>3. ASSUME NEW a \in Account, NEW life \in Lifetime, Connect(a, life) \/ Refreshed(a, life) PROVE TypeOK'
  <2>1. life \in Left \cup {Never} BY TokenRefreshAssumption DEF Left
  <2>2. TimerFor(life) \in 0..Period \cup {Off} BY <2>1, TimerForTypes
  <2>3. CASE Connect(a, life) BY <2>1, <2>2, <2>3 DEF Connect
  <2>4. CASE Refreshed(a, life) BY <2>1, <2>2, <2>4, ResumedTypes DEF Refreshed
  <2> QED BY <1>3, <2>3, <2>4
<1>4. ASSUME NEW a \in Account, Disconnect(a) PROVE TypeOK' BY <1>4 DEF Disconnect
<1>5. ASSUME NEW a \in Account, TimerFires(a) PROVE TypeOK' BY <1>5 DEF TimerFires
<1>6. ASSUME NEW a \in Account, RefreshFailed(a) PROVE TypeOK' BY <1>6, ResumedTypes DEF RefreshFailed
<1>7. ASSUME NEW a \in Account, NEW force \in BOOLEAN, Use(a, force) PROVE TypeOK' BY <1>7 DEF Use
<1>8. CASE Lock BY <1>8 DEF Lock
<1>9. CASE Unlock BY <1>9, BeginTypes DEF Unlock
<1>10. CASE Tick
  <2>1. token' \in [Account -> Left \cup {Never, None}] /\ timer' \in [Account -> 0..Period \cup {Off}]
    BY <1>10, LessTypes DEF Tick
  <2>2. sweepIn' \in 0..Period BY <1>10, TokenRefreshAssumption DEF Tick
  <2>3. ASSUME NEW p \in passes
        PROVE  [p EXCEPT !.todo = {[e EXCEPT !.left = Less(e.left)] : e \in @}]
                   \in [todo : SUBSET Entry, waits : Account \cup {None}]
    <3>1. \A e \in p.todo : [e EXCEPT !.left = Less(e.left)] \in Entry BY LessTypes DEF Entry
    <3> QED BY <3>1
  <2>4. passes' \subseteq [todo : SUBSET Entry, waits : Account \cup {None}] BY <1>10, <2>3 DEF Tick
  <2> QED BY <1>10, <2>1, <2>2, <2>4 DEF Tick
<1>11. CASE UNCHANGED vars BY <1>11 DEF vars
<1> QED BY <1>1, <1>2, <1>3, <1>4, <1>5, <1>6, <1>7, <1>8, <1>9, <1>10, <1>11 DEF Next

\* The token of a stays watched where nothing that concerns it changes for the worse.
LEMMA Undisturbed ==
    ASSUME NEW a \in Refreshable, Due(a) => Watched(a),
           token'[a] = token[a], timer'[a] = timer[a], sweepIn' = sweepIn,
           locked' = locked,
           a \in lapsed => a \in lapsed', a \in inflight => a \in inflight', Waiting(a) => Waiting(a)'
    PROVE  Due(a)' => Watched(a)'
BY DEF Due, Watched

LEMMA WatchedStep == TypeOK /\ AllWatched /\ [Next]_vars => AllWatched'
<1> SUFFICES ASSUME TypeOK, AllWatched, [Next]_vars, NEW a \in Refreshable, Due(a)'
             PROVE  Watched(a)'
    BY DEF AllWatched
<1>0. Due(a) => Watched(a) BY DEF AllWatched
<1>a. a \in Account BY TokenRefreshAssumption
<1>b. sweepIn \in 0..Period /\ token \in [Account -> Left \cup {Never, None}]
      /\ timer \in [Account -> 0..Period \cup {Off}]
    BY DEF TypeOK
<1>1. CASE SweepDue
  <2>1. ~locked /\ token[a] # None BY <1>1 DEF SweepDue, Due
  <2>2. Waiting(a)' BY <1>1, <1>a, <2>1, BeginWaits DEF SweepDue
  <2> QED BY <2>2 DEF Due
<1>2. ASSUME NEW p \in passes, NEW e \in p.todo, SweepStep(p, e) PROVE Watched(a)'
  <2>1. e \in Entry /\ e.acct \in Account /\ e.left \in Left \cup {Never} BY DEF TypeOK, Entry
  <2>2. CASE e.acct = a
    <3>1. e.left = token[a] /\ token'[a] = token[a] /\ ~locked
      BY <1>2, <2>2 DEF SweepStep, Due
    <3>2. e.left \in Left BY <3>1, <2>1 DEF Due, Never
    <3>3. ~RefreshNow(e.left)
      <4> SUFFICES ASSUME RefreshNow(e.left) PROVE FALSE OBVIOUS
      <4>1. Refreshes(e.acct, Readable(e.acct), FALSE) BY <2>2, <3>1, <3>2, NowRefreshes DEF Readable
      <4>2. a \in inflight' BY <1>2, <4>1, <2>2 DEF SweepStep
      <4> QED BY <4>2 DEF Due
    <3>4. timer'[a] = TimerFor(e.left) /\ sweepIn' = sweepIn BY <1>2, <1>a, <1>b, <2>2 DEF SweepStep
    <3> QED BY <3>1, <3>2, <3>3, <3>4, <1>b, TimerForWatches DEF Watched
  <2>3. CASE e.acct # a
    <3>1. ASSUME Waiting(a) PROVE Waiting(a)'
      <4>1. PICK q \in passes : \E d \in q.todo : d.acct = a BY <3>1 DEF Waiting
      <4>2. CASE q # p
        <5>1. q \in passes' BY <1>2, <4>2 DEF SweepStep
        <5> QED BY <5>1, <4>1 DEF Waiting
      <4>3. CASE q = p
        <5>1. PICK d \in p.todo \ {e} : d.acct = a BY <4>1, <4>3, <2>3
        <5>2. PICK w : [todo |-> p.todo \ {e}, waits |-> w] \in passes' BY <1>2, <5>1 DEF SweepStep, Pass
        <5> QED BY <5>1, <5>2 DEF Waiting
      <4> QED BY <4>2, <4>3
    <3>2. /\ token' = token /\ timer'[a] = timer[a] /\ sweepIn' = sweepIn /\ locked' = locked
          /\ inflight \subseteq inflight' /\ lapsed \subseteq lapsed'
      BY <1>2, <2>1, <2>3, <1>a, <1>b DEF SweepStep
    <3> QED BY <3>1, <3>2, <1>0, Undisturbed
  <2> QED BY <2>2, <2>3
<1>3. ASSUME NEW b \in Account, NEW life \in Lifetime, Connect(b, life) PROVE Watched(a)'
  <2>1. CASE a = b
    <3>1. token'[a] = life /\ timer'[a] = TimerFor(life) /\ sweepIn' = sweepIn BY <1>3, <2>1, <1>b DEF Connect
    <3>2. life \in Left BY <3>1, TokenRefreshAssumption DEF Due, Left
    <3>3. ~RefreshNow(life) BY <1>3, <2>1, <3>2, NowRefreshes DEF Connect, Due
    <3> QED BY <3>1, <3>2, <3>3, <1>b, TimerForWatches DEF Watched
  <2>2. CASE a # b
    <3>1. Waiting(a) => Waiting(a)' BY <1>3 DEF Connect, Waiting
    <3> QED BY <1>3, <2>2, <3>1, <1>0, <1>a, <1>b, Undisturbed DEF Connect
  <2> QED BY <2>1, <2>2
<1>4. ASSUME NEW b \in Account, NEW life \in Lifetime, Refreshed(b, life) PROVE Watched(a)'
  <2>1. CASE a = b
    <3>1. token'[a] = life /\ timer'[a] = TimerFor(life) /\ sweepIn' = sweepIn BY <1>4, <2>1, <1>b DEF Refreshed
    <3>2. life \in Left BY <3>1, TokenRefreshAssumption DEF Due, Left
    <3>3. ~RefreshNow(life) BY <1>4, <2>1 DEF Refreshed, Due
    <3> QED BY <3>1, <3>2, <3>3, <1>b, TimerForWatches DEF Watched
  <2>2. CASE a # b
    <3>1. Waiting(a) => Waiting(a)' BY <1>4, ResumedWaits DEF Refreshed
    <3>2. /\ token'[a] = token[a] /\ timer'[a] = timer[a] /\ sweepIn' = sweepIn /\ locked' = locked
          /\ (a \in lapsed => a \in lapsed') /\ (a \in inflight => a \in inflight')
      BY <1>4, <2>2, <1>a, <1>b DEF Refreshed
    <3> QED BY <3>1, <3>2, <1>0, Undisturbed
  <2> QED BY <2>1, <2>2
<1>5. ASSUME NEW b \in Account, Disconnect(b) PROVE Watched(a)'
  <2>1. a # b BY <1>5, <1>b DEF Disconnect, Due
  <2>2. Waiting(a) => Waiting(a)' BY <1>5 DEF Disconnect, Waiting
  <2> QED BY <1>5, <2>1, <2>2, <1>0, <1>a, <1>b, Undisturbed DEF Disconnect
<1>6. ASSUME NEW b \in Account, TimerFires(b) PROVE Watched(a)'
  <2>2. Waiting(a) => Waiting(a)' BY <1>6 DEF TimerFires, Waiting
  <2>3. CASE a # b BY <1>6, <2>3, <2>2, <1>0, <1>a, <1>b, Undisturbed DEF TimerFires
  <2>4. CASE a = b
    \* The timer of a token that is due fires at the margin, and starts a refresh.
    <3>1. /\ token' = token /\ locked' = locked /\ lapsed' = lapsed /\ timer[a] = 0
          /\ inflight' = IF Refreshes(a, Readable(a), FALSE) THEN inflight \cup {a} ELSE inflight
      BY <1>6, <2>4 DEF TimerFires
    <3>2. Watched(a) BY <1>0, <2>2, <3>1 DEF Due
    <3>3. token[a] \in Left BY <3>1, <1>a, <1>b DEF Due
    <3>4. token[a] = Margin BY <3>1, <3>2, <3>3, TokenRefreshAssumption DEF Watched, Off, Left
    <3>5. a \in inflight' BY <3>1, <3>3, <3>4, NowRefreshes DEF Readable, Due
    <3> QED BY <3>5 DEF Due
  <2> QED BY <2>3, <2>4
<1>7. ASSUME NEW b \in Account, RefreshFailed(b) PROVE Watched(a)'
  <2>1. Waiting(a) => Waiting(a)' BY <1>7, ResumedWaits DEF RefreshFailed
  <2>2. a # b BY <1>7 DEF RefreshFailed, Due
  <2> QED BY <1>7, <2>1, <2>2, <1>0, Undisturbed DEF RefreshFailed
<1>8. ASSUME NEW b \in Account, NEW force \in BOOLEAN, Use(b, force) PROVE Watched(a)'
  <2>1. Waiting(a) => Waiting(a)' BY <1>8 DEF Use, Waiting
  <2> QED BY <1>8, <2>1, <1>0, Undisturbed DEF Use
<1>9. CASE Lock BY <1>9 DEF Lock, Due
<1>10. CASE Unlock
  <2>1. token[a] # None BY <1>10 DEF Unlock, Due
  <2>2. Waiting(a)' BY <1>10, <2>1, <1>a, BeginWaits DEF Unlock
  <2> QED BY <2>2 DEF Due
<1>11. CASE Tick
  <2>1. /\ token'[a] = Less(token[a]) /\ timer'[a] = Less(timer[a]) /\ sweepIn' = sweepIn - 1
        /\ timer[a] # 0 /\ inflight' = inflight /\ locked' = locked /\ lapsed' = lapsed
    BY <1>11, <1>a DEF Tick
  <2>2. ASSUME Waiting(a) PROVE Waiting(a)'
    <3>1. PICK p \in passes : \E d \in p.todo : d.acct = a BY <2>2 DEF Waiting
    <3>2. PICK d \in p.todo : d.acct = a BY <3>1
    <3> DEFINE q == [p EXCEPT !.todo = {[e EXCEPT !.left = Less(e.left)] : e \in @}]
               c == [d EXCEPT !.left = Less(d.left)]
    <3>3. q \in passes' BY <1>11 DEF Tick
    <3>4. c \in q.todo /\ c.acct = a
      <4>1. p \in [todo : SUBSET Entry, waits : Account \cup {None}] /\ d \in Entry BY DEF TypeOK
      <4>2. q.todo = {[e EXCEPT !.left = Less(e.left)] : e \in p.todo} BY <4>1
      <4>3. c.acct = a BY <4>1, <3>2 DEF Entry
      <4> QED BY <4>2, <4>3
    <3> HIDE DEF q, c
    <3> QED BY <3>3, <3>4 DEF Waiting
  <2>3. token[a] \in Left BY <2>1, <1>a, <1>b DEF Due, Less, Never
  <2>4. Watched(a) BY <1>0, <2>1, <2>2, <2>3, TokenRefreshAssumption DEF Due, Left, Never
  <2> QED BY <2>1, <2>3, <2>4, <1>a, <1>b, TokenRefreshAssumption DEF Watched, Less, Off, Left
<1>12. CASE UNCHANGED vars
  <2>1. Waiting(a) => Waiting(a)' BY <1>12 DEF vars, Waiting
  <2> QED BY <1>12, <2>1, <1>0, Undisturbed DEF vars
<1> QED BY <1>1, <1>2, <1>3, <1>4, <1>5, <1>6, <1>7, <1>8, <1>9, <1>10, <1>11, <1>12 DEF Next

-----------------------------------------------------------------------------

LEMMA Inductive == Spec => []IInv
<1>1. Init => IInv BY InitInv
<1>2. IInv /\ [Next]_vars => IInv' BY TypeStep, WatchedStep DEF IInv
<1> QED BY <1>1, <1>2, PTL DEF Spec

\* Timers stay within the period of the sweep, so none is set that the next pass
\* would come before (scheduleEarlyRefresh), and what a pass has to do are accounts
\* with an expiry (backgroundRefresh).
THEOREM TypeCorrect == Spec => []TypeOK
BY Inductive, PTL DEF IInv

\* The promise of the comment above earlyRefreshTimers: between the timer, the sweep
\* and the refresh on demand, a token that has run out was asked for again, unless
\* its last refresh failed or a pass replaced its timer by one of an older expiry.
THEOREM TokensKeptWarm == Spec => []KeptWarm
<1>1. IInv => KeptWarm
  <2> SUFFICES ASSUME IInv, NEW a \in Refreshable, token[a] = 0,
                      ~locked, a \notin inflight, a \notin lapsed, ~Waiting(a)
               PROVE  FALSE
      BY DEF KeptWarm
  <2>1. Due(a) BY TokenRefreshAssumption DEF Due, Never
  <2>2. Watched(a) BY <2>1 DEF IInv, AllWatched
  <2>3. sweepIn \in 0..Period BY DEF IInv, TypeOK
  <2> QED BY <2>2, <2>3, TokenRefreshAssumption DEF Watched, Off
<1> QED BY <1>1, Inductive, PTL
=============================================================================
