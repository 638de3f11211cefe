-------------------------- MODULE TaskRunnerProofs --------------------------
(***************************************************************************)
(* Theorems about TaskRunner for any number of messages and sessions, with *)
(* parallel loops, roll-overs, deletions and restarts.                     *)
(*                                                                         *)
(* LoopInv ties the program point of each task to the tables and indexes;  *)
(* it is what makes ActiveIsLive and StrandedOnlyByFailure inductive.      *)
(* SerialInv adds what holds when messages do not overtake a set-up.       *)
(* RepliesInv, AnswersInv, PromptsInv and KeptInv add what channels and    *)
(* conversations are owed: they follow every row and every queued input.   *)
(***************************************************************************)
EXTENDS TaskRunner, SequenceTheorems, FiniteSetTheorems, TLAPS

Driving == {"turn", "stillborn"}
Started == {"awaiting", "resuming", "files"} \cup Driving

\* A task that has started knows its session, and knows a real one.
Sited == \A m \in Msg : at[m] \in Started => sid[m] \in Session

\* A task is in inflight while it drives a loop, its row says so from spawn to
\* verdict, and a message that spawned no task has no row.
Phases ==
    /\ inflight = {m \in Msg : at[m] \in Driving}
    /\ \A m \in Msg : at[m] \in Started => status[m] = "running"
    /\ \A m \in Msg : at[m] \in {"new", "queued"} => status[m] = "none"

LoopInv == Phases /\ ActiveIsLive /\ StrandedOnlyByFailure

SerialInv ==
    Serial =>
        /\ \A s \in Session : latest[s] = s
        /\ \A m, n \in SettingUp : m = n
        /\ \A m \in SettingUp : Loops(sid[m]) = {}
        /\ \A t \in inflight : active[sid[t]] = t

-----------------------------------------------------------------------------
\* The rows the loop writes are rows.
LEMMA RowsAreRows ==
    ASSUME NEW t \in Msg, NEW ms \in Seq(Msg)
    PROVE  UserRow(t, ms) \in Row /\ SummariseRow(t) \in Row /\ ReplyRow(t) \in Row
  BY DEF UserRow, SummariseRow, ReplyRow, Row

\* Replacing the rows of one session keeps the table well typed.
LEMMA RowsTyped ==
    ASSUME NEW R, NEW f \in [Session -> Seq(R)], NEW s \in Session, NEW q \in Seq(R)
    PROVE  [f EXCEPT ![s] = q] \in [Session -> Seq(R)]
  OBVIOUS

\* What the shared parts of the actions do to the variables they change.
LEMMA RegisterTypes ==
    ASSUME TypeOK, NEW m \in Msg, NEW s \in Session, Register(m, s)
    PROVE  /\ rows' \in [Session -> Seq(Row)]
           /\ inflight' \subseteq Msg
           /\ active' \in [Session -> Msg \cup {None}]
           /\ at' \in [Msg -> Where]
           /\ \A n \in Msg \ {m} : at'[n] = at[n]
<1>1. CASE s \in sessions
  <2>1. /\ rows' = [rows EXCEPT ![s] = Append(@, UserRow(m, <<m>>))]
        /\ inflight' = inflight \cup {m}
        /\ active' = [active EXCEPT ![s] = m]
        /\ at' = [at EXCEPT ![m] = "turn"]
    BY <1>1 DEF Register
  <2>2. <<m>> \in Seq(Msg)
    OBVIOUS
  <2>3. UserRow(m, <<m>>) \in Row /\ rows[s] \in Seq(Row)
    BY <2>2, RowsAreRows DEF TypeOK
  <2>4. Append(rows[s], UserRow(m, <<m>>)) \in Seq(Row)
    BY <2>3
  <2>5. rows' \in [Session -> Seq(Row)]
    BY <2>1, <2>4, RowsTyped DEF TypeOK
  <2>6. at \in [Msg -> Where] /\ "turn" \in Where
    BY DEF TypeOK, Where
  <2>7. active \in [Session -> Msg \cup {None}] /\ inflight \subseteq Msg
    BY DEF TypeOK
  <2>8. QED
    BY <2>1, <2>5, <2>6, <2>7
<1>2. CASE s \notin sessions
  BY <1>2 DEF Register, TypeOK, Where
<1>3. QED
  BY <1>1, <1>2

LEMMA PersistTypes ==
    ASSUME TypeOK, Sited, NEW m \in Msg, NEW next \in Seq(Row), Persist(m, next)
    PROVE  /\ sid[m] \in Session /\ at[m] = "turn"
           /\ rows' \in [Session -> Seq(Row)] /\ mute' \in [Msg -> Nat]
<1>1. sid[m] \in Session /\ at[m] = "turn"
  BY DEF Persist, Sited, Started, Driving
<1>2. ReplyRow(m) \in Row
  BY RowsAreRows, <<>> \in Seq(Msg)
<1>3. rows[sid[m]] \in Seq(Row) /\ Len(rows[sid[m]]) \in Nat
  BY <1>1 DEF TypeOK
<1>4. rows[sid[m]] \o <<ReplyRow(m)>> \o next \in Seq(Row) /\ rows[sid[m]] \o next \in Seq(Row)
  BY <1>2, <1>3
<1>5. \/ /\ rows' = [rows EXCEPT ![sid[m]] = rows[sid[m]] \o <<ReplyRow(m)>> \o next]
         /\ mute' = mute
      \/ /\ rows' = [rows EXCEPT ![sid[m]] = rows[sid[m]] \o next]
         /\ mute' = [mute EXCEPT ![m] = Len(rows[sid[m]])]
  BY DEF Persist
<1>6. rows' \in [Session -> Seq(Row)]
  <2>1. \A q \in Seq(Row) : [rows EXCEPT ![sid[m]] = q] \in [Session -> Seq(Row)]
    BY <1>1, RowsTyped DEF TypeOK
  <2>2. QED
    BY <1>4, <1>5, <2>1
<1>7. mute' \in [Msg -> Nat]
  BY <1>3, <1>5 DEF TypeOK
<1>8. QED
  BY <1>1, <1>6, <1>7

LEMMA FinallyTypes ==
    ASSUME TypeOK, NEW m \in Msg, Finally(m)
    PROVE  /\ inflight' \subseteq Msg
           /\ active' \in [Session -> Msg \cup {None}]
           /\ at' \in [Msg -> Where]
           /\ at'[m] = "done" /\ \A n \in Msg \ {m} : at'[n] = at[n]
  BY DEF Finally, TypeOK, Where

LEMMA ReplyTypes ==
    ASSUME TypeOK, NEW m \in Msg, NEW r \in {"answer", "sorry"}, ReplyOnChannel(m, r)
    PROVE  replies' \in [Msg -> Seq({"answer", "sorry"})]
  BY DEF TypeOK, ReplyOnChannel

LEMMA NextTurnTypes ==
    ASSUME TypeOK, NEW m \in Msg, at[m] = "turn", NextTurn(m)
    PROVE  /\ at' \in [Msg -> Where]
           /\ \A n \in Msg : at'[n] = at[n] \/ (n = m /\ at'[n] \in Driving)
<1>1. PICK w \in Driving : at' = [at EXCEPT ![m] = w]
  <2>1. CASE m \in aborted
    BY <2>1 DEF NextTurn, Driving
  <2>2. CASE m \notin aborted
    BY <2>2 DEF NextTurn, Driving
  <2>3. QED
    BY <2>1, <2>2
<1>2. at \in [Msg -> Where] /\ w \in Where
  BY DEF TypeOK, Where, Driving
<1>3. QED
  BY <1>1, <1>2

-----------------------------------------------------------------------------
\* Every variable keeps its type; AfterCompaction looks its session up in
\* latest, so this needs Sited.
THEOREM TypeCorrect == Spec => [](TypeOK /\ Sited)
<1> USE TaskRunnerAssumption DEF Sited, Started, Driving
<1> Root \subseteq Session /\ Child \subseteq Session
  BY DEF Session
<1>1. Init => TypeOK /\ Sited
  <2> SUFFICES ASSUME Init PROVE TypeOK /\ Sited
    OBVIOUS
  <2>1. <<>> \in Seq(Row) /\ <<>> \in Seq(Msg) /\ <<>> \in Seq({"answer", "sorry"})
    OBVIOUS
  <2>2. rows \in [Session -> Seq(Row)] /\ pending \in [Session -> Seq(Msg)]
        /\ replies \in [Msg -> Seq({"answer", "sorry"})]
    BY <2>1 DEF Init
  <2>3. QED
    BY <2>2 DEF Init, TypeOK, Where
<1>2. TypeOK /\ Sited /\ [Next]_vars => (TypeOK /\ Sited)'
  <2> SUFFICES ASSUME TypeOK, Sited, [Next]_vars PROVE (TypeOK /\ Sited)'
    OBVIOUS
  <2>1. ASSUME NEW m \in Msg, NEW s \in Root, Inject(m, s) PROVE (TypeOK /\ Sited)'
    BY <2>1 DEF TypeOK, Where, Inject, Arrives
  <2>2. ASSUME NEW m \in Msg, NEW s \in Root, Spawn(m, s) PROVE (TypeOK /\ Sited)'
    BY <2>2 DEF TypeOK, Where, Spawn, Arrives, memory
  <2>3. ASSUME NEW m \in Msg, AfterCompaction(m) PROVE (TypeOK /\ Sited)'
    <3> DEFINE s == latest[sid[m]]
    <3>1. s \in Session /\ sid' \in [Msg -> Session \cup {None}] /\ sid' = [sid EXCEPT ![m] = s]
      BY <2>3 DEF AfterCompaction, TypeOK
    <3>2. CASE m \in WithFiles
      BY <2>3, <3>1, <3>2 DEF AfterCompaction, TypeOK, Where
    <3>3. CASE m \notin WithFiles
      <4>1. Register(m, s)
        BY <2>3, <3>3 DEF AfterCompaction
      <4>2. /\ rows' \in [Session -> Seq(Row)] /\ inflight' \subseteq Msg
            /\ active' \in [Session -> Msg \cup {None}] /\ at' \in [Msg -> Where]
            /\ \A n \in Msg \ {m} : at'[n] = at[n]
        BY <3>1, <4>1, RegisterTypes
      <4>3. QED
        BY <2>3, <3>1, <4>2 DEF AfterCompaction, TypeOK
    <3>4. QED
      BY <3>2, <3>3
  <2>4. ASSUME NEW m \in Msg, AfterAttachments(m) PROVE (TypeOK /\ Sited)'
    <3>1. sid[m] \in Session /\ Register(m, sid[m])
      BY <2>4 DEF AfterAttachments
    <3>2. QED
      BY <2>4, <3>1, RegisterTypes DEF AfterAttachments, TypeOK
  <2>5. ASSUME NEW m \in Msg, TurnReportsError(m) PROVE (TypeOK /\ Sited)'
    <3>1. replies' \in [Msg -> Seq({"answer", "sorry"})]
      BY <2>5 DEF TurnReportsError, TypeOK
    <3>2. QED
      BY <2>5, <3>1, FinallyTypes DEF TurnReportsError, TypeOK
  <2>6. ASSUME NEW m \in Msg, TurnThrows(m) PROVE (TypeOK /\ Sited)'
    BY <2>6, FinallyTypes, ReplyTypes DEF TurnThrows, TypeOK
  <2>7. ASSUME NEW m \in Msg, TurnLacksText(m) PROVE (TypeOK /\ Sited)'
    <3>1. SummariseRow(m) \in Row /\ <<SummariseRow(m)>> \in Seq(Row)
      <4>1. SummariseRow(m) \in Row
        BY RowsAreRows, <<>> \in Seq(Msg)
      <4>2. QED
        BY <4>1
    <3>2. /\ at[m] = "turn" /\ sid[m] \in Session
          /\ rows' \in [Session -> Seq(Row)] /\ mute' \in [Msg -> Nat]
      BY <2>7, <3>1, PersistTypes DEF TurnLacksText
    <3>3. QED
      BY <2>7, <3>2, NextTurnTypes DEF TurnLacksText, MayStartCompaction, TypeOK
  <2>8. ASSUME NEW m \in Msg, TurnDrains(m) PROVE (TypeOK /\ Sited)'
    <3>1. at[m] = "turn" /\ sid[m] \in Session /\ pending[sid[m]] \in Seq(Msg)
      BY <2>8 DEF TurnDrains, Persist, TypeOK, Sited
    <3>2. <<UserRow(m, pending[sid[m]])>> \in Seq(Row)
      BY <3>1, RowsAreRows
    <3>3. rows' \in [Session -> Seq(Row)] /\ mute' \in [Msg -> Nat]
      BY <2>8, <3>2, PersistTypes DEF TurnDrains
    <3>4. pending' \in [Session -> Seq(Msg)]
      BY <2>8, <3>1 DEF TurnDrains, TypeOK
    <3>5. QED
      BY <2>8, <3>1, <3>3, <3>4, NextTurnTypes DEF TurnDrains, MayStartCompaction, TypeOK
  <2>9. ASSUME NEW m \in Msg, TurnCompletes(m) PROVE (TypeOK /\ Sited)'
    <3>1. <<>> \in Seq(Row)
      OBVIOUS
    <3>2. sid[m] \in Session /\ rows' \in [Session -> Seq(Row)] /\ mute' \in [Msg -> Nat]
      BY <2>9, <3>1, PersistTypes DEF TurnCompletes
    <3>3. QED
      BY <2>9, <3>2, FinallyTypes, ReplyTypes DEF TurnCompletes, MayStartCompaction, TypeOK
  <2>10. ASSUME NEW m \in Msg, Abort(m) PROVE (TypeOK /\ Sited)'
    BY <2>10 DEF Abort, tables, TypeOK
  <2>11. ASSUME NEW s \in Session, CompactionSkips(s) PROVE (TypeOK /\ Sited)'
    BY <2>11 DEF CompactionSkips, Wake, tables, TypeOK, Where
  <2>12. ASSUME NEW s \in Session, NEW c \in Child, CompactionRolls(s, c) PROVE (TypeOK /\ Sited)'
    BY <2>12 DEF CompactionRolls, Wake, TypeOK, Where
  <2>13. ASSUME NEW s \in Session, DeleteSession(s) PROVE (TypeOK /\ Sited)'
    <3>1. <<>> \in Seq(Row)
      OBVIOUS
    <3>2. rows' \in [Session -> Seq(Row)]
      BY <2>13, <3>1, RowsTyped DEF DeleteSession, TypeOK
    <3>3. QED
      BY <2>13, <3>2 DEF DeleteSession, memory, TypeOK
  <2>14. ASSUME Restart PROVE (TypeOK /\ Sited)'
    <3>0. <<>> \in Seq(Msg)
      OBVIOUS
    <3>1. at' \in [Msg -> Where] /\ \A m \in Msg : at'[m] \in {at[m], "lost"}
      BY <2>14 DEF Restart, TypeOK, Where
    <3>2. QED
      BY <2>14, <3>0, <3>1 DEF Restart, tables, TypeOK
  <2>15. CASE UNCHANGED vars
    BY <2>15 DEF vars, tables, memory, TypeOK
  <2>16. QED
    BY <2>1, <2>2, <2>3, <2>4, <2>5, <2>6, <2>7, <2>8, <2>9, <2>10, <2>11,
       <2>12, <2>13, <2>14, <2>15 DEF Next, TaskStep, CompactionStep
<1>3. QED
  BY <1>1, <1>2, PTL DEF Spec

-----------------------------------------------------------------------------
LEMMA PhasesStep == TypeOK /\ Phases /\ [Next]_vars => Phases'
<1> SUFFICES ASSUME TypeOK, Phases, [Next]_vars PROVE Phases'
  OBVIOUS
<1> USE DEF Phases, Started, Driving
<1> at \in [Msg -> Where] /\ status \in [Msg -> {"none", "running", "completed", "failed"}]
  BY DEF TypeOK
<1> HIDE DEF TypeOK
<1>1. ASSUME NEW m \in Msg, NEW s \in Root, Inject(m, s) PROVE Phases'
  BY <1>1 DEF Inject, Arrives
<1>2. ASSUME NEW m \in Msg, NEW s \in Root, Spawn(m, s) PROVE Phases'
  BY <1>2 DEF Spawn, Arrives, memory
<1>3. ASSUME NEW m \in Msg, AfterCompaction(m) PROVE Phases'
  BY <1>3 DEF AfterCompaction, Register
<1>4. ASSUME NEW m \in Msg, AfterAttachments(m) PROVE Phases'
  BY <1>4 DEF AfterAttachments, Register
<1>5. ASSUME NEW m \in Msg, TurnReportsError(m) PROVE Phases'
  BY <1>5 DEF TurnReportsError, Finally
<1>6. ASSUME NEW m \in Msg, TurnThrows(m) PROVE Phases'
  BY <1>6 DEF TurnThrows, Finally
<1>7. ASSUME NEW m \in Msg, TurnLacksText(m) PROVE Phases'
  BY <1>7, NextTurnTypes DEF TurnLacksText, Persist
<1>8. ASSUME NEW m \in Msg, TurnDrains(m) PROVE Phases'
  BY <1>8, NextTurnTypes DEF TurnDrains, Persist
<1>9. ASSUME NEW m \in Msg, TurnCompletes(m) PROVE Phases'
  BY <1>9 DEF TurnCompletes, Persist, Finally
<1>10. ASSUME NEW m \in Msg, Abort(m) PROVE Phases'
  BY <1>10 DEF Abort, tables
<1>11. ASSUME NEW s \in Session, CompactionSkips(s) PROVE Phases'
  BY <1>11 DEF CompactionSkips, Wake, tables
<1>12. ASSUME NEW s \in Session, NEW c \in Child, CompactionRolls(s, c) PROVE Phases'
  BY <1>12 DEF CompactionRolls, Wake
<1>13. ASSUME NEW s \in Session, DeleteSession(s) PROVE Phases'
  BY <1>13 DEF DeleteSession, memory
<1>14. ASSUME Restart PROVE Phases'
  BY <1>14 DEF Restart, tables
<1>15. CASE UNCHANGED vars
  BY <1>15 DEF vars, tables, memory
<1>16. QED
  BY <1>1, <1>2, <1>3, <1>4, <1>5, <1>6, <1>7, <1>8, <1>9, <1>10, <1>11,
     <1>12, <1>13, <1>14, <1>15 DEF Next, TaskStep, CompactionStep

LEMMA ActiveStep ==
    TypeOK /\ Sited /\ Phases /\ ActiveIsLive /\ [Next]_vars => ActiveIsLive'
<1> SUFFICES ASSUME TypeOK, Sited, Phases, ActiveIsLive, [Next]_vars,
                    NEW s \in Session, active'[s] # None
             PROVE  active'[s] \in Loops(s)'
  BY DEF ActiveIsLive
<1> USE DEF Loops, Phases, Sited, Started, Driving
<1> /\ at \in [Msg -> Where] /\ inflight \subseteq Msg
    /\ sid \in [Msg -> Session \cup {None}] /\ active \in [Session -> Msg \cup {None}]
    /\ Root \subseteq Session
    /\ active[s] # None => active[s] \in inflight /\ sid[active[s]] = s
  BY DEF TypeOK, Session, ActiveIsLive
<1> None \notin Msg
  BY TaskRunnerAssumption
<1>1. ASSUME NEW m \in Msg, NEW r \in Root, Inject(m, r) PROVE active'[s] \in Loops(s)'
  BY <1>1 DEF Inject, Arrives
<1>2. ASSUME NEW m \in Msg, NEW r \in Root, Spawn(m, r) PROVE active'[s] \in Loops(s)'
  BY <1>2 DEF Spawn, Arrives, memory
<1>3. ASSUME NEW m \in Msg, AfterCompaction(m) PROVE active'[s] \in Loops(s)'
  BY <1>3 DEF AfterCompaction, Register
<1>4. ASSUME NEW m \in Msg, AfterAttachments(m) PROVE active'[s] \in Loops(s)'
  BY <1>4 DEF AfterAttachments, Register
<1>5. ASSUME NEW m \in Msg, TurnReportsError(m) PROVE active'[s] \in Loops(s)'
  BY <1>5 DEF TurnReportsError, Finally
<1>6. ASSUME NEW m \in Msg, TurnThrows(m) PROVE active'[s] \in Loops(s)'
  BY <1>6 DEF TurnThrows, Finally
<1>7. ASSUME NEW m \in Msg, TurnLacksText(m) PROVE active'[s] \in Loops(s)'
  BY <1>7 DEF TurnLacksText, Persist
<1>8. ASSUME NEW m \in Msg, TurnDrains(m) PROVE active'[s] \in Loops(s)'
  BY <1>8 DEF TurnDrains, Persist
<1>9. ASSUME NEW m \in Msg, TurnCompletes(m) PROVE active'[s] \in Loops(s)'
  BY <1>9 DEF TurnCompletes, Persist, Finally
<1>10. ASSUME NEW m \in Msg, Abort(m) PROVE active'[s] \in Loops(s)'
  BY <1>10 DEF Abort, tables
<1>11. ASSUME NEW r \in Session, CompactionSkips(r) PROVE active'[s] \in Loops(s)'
  BY <1>11 DEF CompactionSkips, Wake, tables
<1>12. ASSUME NEW r \in Session, NEW c \in Child, CompactionRolls(r, c) PROVE active'[s] \in Loops(s)'
  BY <1>12 DEF CompactionRolls, Wake
<1>13. ASSUME NEW r \in Session, DeleteSession(r) PROVE active'[s] \in Loops(s)'
  BY <1>13 DEF DeleteSession, memory
<1>14. ASSUME Restart PROVE active'[s] \in Loops(s)'
  BY <1>14 DEF Restart, tables
<1>15. CASE UNCHANGED vars
  BY <1>15 DEF vars, tables, memory
<1>16. QED
  BY <1>1, <1>2, <1>3, <1>4, <1>5, <1>6, <1>7, <1>8, <1>9, <1>10, <1>11,
     <1>12, <1>13, <1>14, <1>15 DEF Next, TaskStep, CompactionStep

LEMMA StrandedStep ==
    TypeOK /\ Sited /\ Phases /\ ActiveIsLive /\ StrandedOnlyByFailure /\ [Next]_vars
        => StrandedOnlyByFailure'
<1> SUFFICES ASSUME TypeOK, Sited, Phases, ActiveIsLive, StrandedOnlyByFailure, [Next]_vars,
                    NEW s \in Session, pending'[s] # <<>>, Loops(s)' = {}
             PROVE  \E t \in Msg : sid'[t] = s /\ status'[t] = "failed"
  BY DEF StrandedOnlyByFailure
<1> USE DEF Phases, Sited, Started, Driving
<1> DEFINE Failed == \E t \in Msg : sid'[t] = s /\ status'[t] = "failed"
<1> /\ at \in [Msg -> Where] /\ inflight \subseteq Msg
    /\ status \in [Msg -> {"none", "running", "completed", "failed"}]
    /\ sid \in [Msg -> Session \cup {None}] /\ active \in [Session -> Msg \cup {None}]
    /\ pending \in [Session -> Seq(Msg)]
    /\ Root \subseteq Session
  BY DEF TypeOK, Session
<1> active[s] # None => active[s] \in inflight /\ sid[active[s]] = s
  BY DEF ActiveIsLive, Loops
<1> \A t \in inflight' : sid'[t] # s
  BY DEF Loops
<1> ASSUME pending[s] # <<>>, \A t \in inflight : sid[t] # s
    PROVE  \E t \in Msg : sid[t] = s /\ status[t] = "failed"
  BY DEF Loops, StrandedOnlyByFailure
<1>1. ASSUME NEW m \in Msg, NEW r \in Root, Inject(m, r) PROVE Failed
  BY <1>1 DEF Inject, Arrives
<1>2. ASSUME NEW m \in Msg, NEW r \in Root, Spawn(m, r) PROVE Failed
  BY <1>2 DEF Spawn, Arrives, memory
<1>3. ASSUME NEW m \in Msg, AfterCompaction(m) PROVE Failed
  BY <1>3 DEF AfterCompaction, Register
<1>4. ASSUME NEW m \in Msg, AfterAttachments(m) PROVE Failed
  BY <1>4 DEF AfterAttachments, Register
<1>5. ASSUME NEW m \in Msg, TurnReportsError(m) PROVE Failed
  BY <1>5 DEF TurnReportsError, Finally
<1>6. ASSUME NEW m \in Msg, TurnThrows(m) PROVE Failed
  BY <1>6 DEF TurnThrows, Finally
<1>7. ASSUME NEW m \in Msg, TurnLacksText(m) PROVE Failed
  BY <1>7 DEF TurnLacksText, Persist
<1>8. ASSUME NEW m \in Msg, TurnDrains(m) PROVE Failed
  BY <1>8 DEF TurnDrains, Persist
<1>9. ASSUME NEW m \in Msg, TurnCompletes(m) PROVE Failed
  BY <1>9 DEF TurnCompletes, Persist, Finally
<1>10. ASSUME NEW m \in Msg, Abort(m) PROVE Failed
  BY <1>10 DEF Abort, tables
<1>11. ASSUME NEW r \in Session, CompactionSkips(r) PROVE Failed
  BY <1>11 DEF CompactionSkips, Wake, tables
<1>12. ASSUME NEW r \in Session, NEW c \in Child, CompactionRolls(r, c) PROVE Failed
  BY <1>12 DEF CompactionRolls, Wake
<1>13. ASSUME NEW r \in Session, DeleteSession(r) PROVE Failed
  BY <1>13 DEF DeleteSession, memory
<1>14. ASSUME Restart PROVE Failed
  BY <1>14 DEF Restart, tables
<1>15. CASE UNCHANGED vars
  BY <1>15 DEF vars, tables, memory
<1>16. QED
  BY <1>1, <1>2, <1>3, <1>4, <1>5, <1>6, <1>7, <1>8, <1>9, <1>10, <1>11,
     <1>12, <1>13, <1>14, <1>15 DEF Next, TaskStep, CompactionStep

\* Whatever parallel loops, roll-overs, deletions and restarts do, the session
\* index names only a task that is driving that session, and an input is left
\* without a loop only by a loop that failed.
THEOREM LoopSafety == Spec => [](ActiveIsLive /\ StrandedOnlyByFailure)
<1>1. Init => LoopInv
  BY DEF Init, LoopInv, Phases, ActiveIsLive, StrandedOnlyByFailure, Driving, Started
<1>2. TypeOK /\ Sited /\ LoopInv /\ [Next]_vars => LoopInv'
  BY PhasesStep, ActiveStep, StrandedStep DEF LoopInv
<1>3. LoopInv => ActiveIsLive /\ StrandedOnlyByFailure
  BY DEF LoopInv
<1>4. QED
  BY <1>1, <1>2, <1>3, TypeCorrect, PTL DEF Spec

\* No step of any task, of cancel, of compaction or of a restart rewrites a
\* verdict in the task table.
THEOREM VerdictsAreFinal == Spec => VerdictIsFinal
<1>1. TypeOK /\ Phases /\ [Next]_vars =>
        [\A m \in Msg : status[m] \in {"completed", "failed"} => status[m]' = status[m]]_vars
  <2> SUFFICES ASSUME TypeOK, Phases, [Next]_vars, NEW n \in Msg,
                      status[n] \in {"completed", "failed"}
               PROVE  status[n]' = status[n]
    OBVIOUS
  <2> USE DEF Phases, Started, Driving
  <2> status \in [Msg -> {"none", "running", "completed", "failed"}]
    BY DEF TypeOK
  <2>1. ASSUME NEW m \in Msg, NEW r \in Root, Inject(m, r)
       PROVE status[n]' = status[n]
    BY <2>1 DEF Inject
  <2>2. ASSUME NEW m \in Msg, NEW r \in Root, Spawn(m, r)
       PROVE status[n]' = status[n]
    BY <2>2 DEF Spawn, Arrives
  <2>3. ASSUME NEW m \in Msg, TurnReportsError(m)
       PROVE status[n]' = status[n]
    BY <2>3 DEF TurnReportsError
  <2>4. ASSUME NEW m \in Msg, TurnThrows(m)
       PROVE status[n]' = status[n]
    BY <2>4 DEF TurnThrows
  <2>5. ASSUME NEW m \in Msg, TurnCompletes(m)
       PROVE status[n]' = status[n]
    BY <2>5 DEF TurnCompletes, Persist
  <2>6. ASSUME NEW m \in Msg, AfterCompaction(m) \/ AfterAttachments(m) \/ TurnLacksText(m)
                     \/ TurnDrains(m) \/ Abort(m)
       PROVE status[n]' = status[n]
    BY <2>6 DEF AfterCompaction, AfterAttachments, TurnLacksText, TurnDrains, Abort, tables
  <2>7. ASSUME NEW r \in Session, CompactionStep(r) \/ DeleteSession(r)
       PROVE status[n]' = status[n]
    BY <2>7 DEF CompactionStep, CompactionSkips, CompactionRolls, DeleteSession, tables
  <2>8. CASE Restart \/ UNCHANGED vars
    BY <2>8 DEF Restart, vars, tables
  <2>9. QED
    BY <2>1, <2>2, <2>3, <2>4, <2>5, <2>6, <2>7, <2>8 DEF Next, TaskStep
<1>2. Init => Phases
  BY DEF Init, Phases, Started, Driving
<1>3. QED
  BY <1>1, <1>2, PhasesStep, TypeCorrect, PTL DEF Spec, VerdictIsFinal

-----------------------------------------------------------------------------
LEMMA SerialStep ==
    Serial /\ TypeOK /\ Sited /\ Phases /\ ActiveIsLive /\ SerialInv /\ [Next]_vars
        => SerialInv'
<1> SUFFICES ASSUME Serial, TypeOK, Sited, Phases, ActiveIsLive, SerialInv, [Next]_vars
             PROVE  /\ \A s \in Session : latest'[s] = s
                    /\ \A m, n \in SettingUp' : m = n
                    /\ \A m \in SettingUp' : \A t \in inflight' : sid'[t] # sid'[m]
                    /\ \A t \in inflight' : active'[sid'[t]] = t
  BY DEF SerialInv, Loops
<1> DEFINE SerialInv1 == /\ \A s \in Session : latest'[s] = s
                         /\ \A m, n \in SettingUp' : m = n
                         /\ \A m \in SettingUp' : \A t \in inflight' : sid'[t] # sid'[m]
                         /\ \A t \in inflight' : active'[sid'[t]] = t
<1> DirectRun = {} /\ Child = {} /\ Overlap = FALSE /\ None \notin Msg
  BY TaskRunnerAssumption DEF Serial
<1> USE DEF Phases, Sited, Started, Driving, SettingUp
<1> /\ at \in [Msg -> Where] /\ inflight \subseteq Msg
    /\ latest \in [Session -> Session] /\ Root \subseteq Session
    /\ sid \in [Msg -> Session \cup {None}] /\ active \in [Session -> Msg \cup {None}]
  BY DEF TypeOK, Session
<1> /\ \A s \in Session : latest[s] = s
    /\ \A m, n \in SettingUp : m = n
    /\ \A m \in SettingUp : \A t \in inflight : sid[t] # sid[m]
    /\ \A t \in inflight : active[sid[t]] = t
  BY DEF SerialInv, Serial, Loops
<1>1. ASSUME NEW m \in Msg, NEW r \in Root, Inject(m, r) PROVE SerialInv1
  BY <1>1 DEF Inject, Arrives
<1>2. ASSUME NEW m \in Msg, NEW r \in Root, Spawn(m, r) PROVE SerialInv1
  BY <1>2 DEF Spawn, Arrives, memory
<1>3. ASSUME NEW m \in Msg, AfterCompaction(m) PROVE SerialInv1
  BY <1>3 DEF AfterCompaction, Register
<1>4. ASSUME NEW m \in Msg, AfterAttachments(m) PROVE SerialInv1
  BY <1>4 DEF AfterAttachments, Register
<1>5. ASSUME NEW m \in Msg, TurnReportsError(m) PROVE SerialInv1
  BY <1>5 DEF TurnReportsError, Finally
<1>6. ASSUME NEW m \in Msg, TurnThrows(m) PROVE SerialInv1
  BY <1>6 DEF TurnThrows, Finally
<1>7. ASSUME NEW m \in Msg, TurnLacksText(m) PROVE SerialInv1
  BY <1>7 DEF TurnLacksText, Persist, NextTurn
<1>8. ASSUME NEW m \in Msg, TurnDrains(m) PROVE SerialInv1
  BY <1>8 DEF TurnDrains, Persist, NextTurn
<1>9. ASSUME NEW m \in Msg, TurnCompletes(m) PROVE SerialInv1
  BY <1>9 DEF TurnCompletes, Persist, Finally
<1>10. ASSUME NEW m \in Msg, Abort(m) PROVE SerialInv1
  BY <1>10 DEF Abort, tables
<1>11. ASSUME NEW r \in Session, CompactionSkips(r) PROVE SerialInv1
  BY <1>11 DEF CompactionSkips, Wake, tables
<1>12. ASSUME NEW r \in Session, NEW c \in Child, CompactionRolls(r, c) PROVE SerialInv1
  OBVIOUS
<1>13. ASSUME NEW r \in Session, DeleteSession(r) PROVE SerialInv1
  BY <1>13 DEF DeleteSession, memory
<1>14. ASSUME Restart PROVE SerialInv1
  BY <1>14 DEF Restart, tables
<1>15. CASE UNCHANGED vars
  BY <1>15 DEF vars, tables, memory
<1>16. QED
  BY <1>1, <1>2, <1>3, <1>4, <1>5, <1>6, <1>7, <1>8, <1>9, <1>10, <1>11,
     <1>12, <1>13, <1>14, <1>15 DEF Next, TaskStep, CompactionStep

\* When every caller uses send(), no session is rolled and no message arrives
\* inside a set-up, each live loop is the one its session's entry names: at
\* most one loop per session, and the index is in step with inflight.
THEOREM SerialIsOneLoop == Spec => []SerialOneLoop
<1>1. Init => SerialInv
  BY DEF Init, SerialInv, SettingUp, Loops
<1>2. TypeOK /\ Sited /\ LoopInv /\ [Next]_vars => LoopInv'
  BY PhasesStep, ActiveStep, StrandedStep DEF LoopInv
<1>3. TypeOK /\ Sited /\ LoopInv /\ SerialInv /\ [Next]_vars => SerialInv'
  <2>1. CASE Serial
    BY <2>1, SerialStep DEF LoopInv
  <2>2. CASE ~Serial
    BY <2>2 DEF SerialInv, Serial
  <2>3. QED
    BY <2>1, <2>2
<1>4. SerialInv => SerialOneLoop
  BY DEF SerialInv, SerialOneLoop
<1>5. Init => LoopInv
  BY DEF Init, LoopInv, Phases, ActiveIsLive, StrandedOnlyByFailure, Driving, Started
<1>6. QED
  BY <1>1, <1>2, <1>3, <1>4, <1>5, TypeCorrect, PTL DEF Spec

-----------------------------------------------------------------------------
(* Channel replies.                                                        *)

\* A task that is over has its verdict, and what waits in an inbox is a message
\* that was queued.
OverHasVerdict == \A m \in Msg : at[m] = "done" => status[m] \in {"completed", "failed"}
InboxQueued == \A s \in Session : \A i \in DOMAIN pending[s] : at[pending[s][i]] = "queued"

RepliesInv == OverHasVerdict /\ InboxQueued /\ OneReplyPerChannelTask

\* What waited in an inbox still does, or it is emptied.
LEMMA InboxKept ==
    ASSUME TypeOK, InboxQueued,
           \A s \in Session : pending'[s] \in {pending[s], <<>>},
           \A m \in Msg : at[m] = "queued" => at'[m] = "queued"
    PROVE  InboxQueued'
<1> SUFFICES ASSUME NEW s \in Session, NEW i \in DOMAIN pending'[s]
             PROVE  at'[pending'[s][i]] = "queued"
  BY DEF InboxQueued
<1>1. pending'[s] = pending[s]
  OBVIOUS
<1>2. pending[s] \in Seq(Msg) /\ i \in 1..Len(pending[s])
  BY <1>1 DEF TypeOK
<1>3. pending[s][i] \in Msg /\ at[pending[s][i]] = "queued"
  BY <1>2 DEF InboxQueued
<1>4. QED
  BY <1>1, <1>3

LEMMA VerdictStep == TypeOK /\ Phases /\ OverHasVerdict /\ [Next]_vars => OverHasVerdict'
<1> SUFFICES ASSUME TypeOK, Phases, OverHasVerdict, [Next]_vars PROVE OverHasVerdict'
  OBVIOUS
<1> USE DEF OverHasVerdict, Phases, Started, Driving
<1> at \in [Msg -> Where] /\ status \in [Msg -> {"none", "running", "completed", "failed"}]
  BY DEF TypeOK
<1>1. ASSUME NEW m \in Msg, NEW s \in Root, Inject(m, s) PROVE OverHasVerdict'
  BY <1>1 DEF Inject, Arrives
<1>2. ASSUME NEW m \in Msg, NEW s \in Root, Spawn(m, s) PROVE OverHasVerdict'
  BY <1>2 DEF Spawn, Arrives, memory
<1>3. ASSUME NEW m \in Msg, AfterCompaction(m) PROVE OverHasVerdict'
  BY <1>3 DEF AfterCompaction, Register
<1>4. ASSUME NEW m \in Msg, AfterAttachments(m) PROVE OverHasVerdict'
  BY <1>4 DEF AfterAttachments, Register
<1>5. ASSUME NEW m \in Msg, TurnReportsError(m) PROVE OverHasVerdict'
  BY <1>5 DEF TurnReportsError, Finally
<1>6. ASSUME NEW m \in Msg, TurnThrows(m) PROVE OverHasVerdict'
  BY <1>6 DEF TurnThrows, Finally
<1>7. ASSUME NEW m \in Msg, TurnLacksText(m) PROVE OverHasVerdict'
  BY <1>7, NextTurnTypes DEF TurnLacksText, Persist
<1>8. ASSUME NEW m \in Msg, TurnDrains(m) PROVE OverHasVerdict'
  BY <1>8, NextTurnTypes DEF TurnDrains, Persist
<1>9. ASSUME NEW m \in Msg, TurnCompletes(m) PROVE OverHasVerdict'
  BY <1>9 DEF TurnCompletes, Persist, Finally
<1>10. ASSUME NEW m \in Msg, Abort(m) PROVE OverHasVerdict'
  BY <1>10 DEF Abort, tables
<1>11. ASSUME NEW s \in Session, CompactionSkips(s) PROVE OverHasVerdict'
  BY <1>11 DEF CompactionSkips, Wake, tables
<1>12. ASSUME NEW s \in Session, NEW c \in Child, CompactionRolls(s, c) PROVE OverHasVerdict'
  BY <1>12 DEF CompactionRolls, Wake
<1>13. ASSUME NEW s \in Session, DeleteSession(s) PROVE OverHasVerdict'
  BY <1>13 DEF DeleteSession, memory
<1>14. ASSUME Restart PROVE OverHasVerdict'
  BY <1>14 DEF Restart, tables
<1>15. CASE UNCHANGED vars
  BY <1>15 DEF vars, tables, memory
<1>16. QED
  BY <1>1, <1>2, <1>3, <1>4, <1>5, <1>6, <1>7, <1>8, <1>9, <1>10, <1>11,
     <1>12, <1>13, <1>14, <1>15 DEF Next, TaskStep, CompactionStep

LEMMA InboxStep == TypeOK /\ InboxQueued /\ [Next]_vars => InboxQueued'
<1> SUFFICES ASSUME TypeOK, InboxQueued, [Next]_vars PROVE InboxQueued'
  OBVIOUS
<1> at \in [Msg -> Where] /\ pending \in [Session -> Seq(Msg)]
  BY DEF TypeOK
<1>1. ASSUME NEW m \in Msg, NEW s \in Root, Inject(m, s) PROVE InboxQueued'
  <2>1. /\ at[m] = "new" /\ pending' = [pending EXCEPT ![s] = Append(pending[s], m)]
        /\ at' = [at EXCEPT ![m] = "queued"] /\ s \in Session
    BY <1>1 DEF Inject, Arrives, Session
  <2> SUFFICES ASSUME NEW r \in Session, NEW i \in DOMAIN pending'[r]
               PROVE  at'[pending'[r][i]] = "queued"
    BY DEF InboxQueued
  <2>2. CASE r = s /\ i = Len(pending[s]) + 1
    <3>1. pending'[r][i] = m
      BY <2>1, <2>2
    <3>2. QED
      BY <2>1, <3>1
  <2>3. CASE ~(r = s /\ i = Len(pending[s]) + 1)
    <3>1. pending[r] \in Seq(Msg) /\ i \in DOMAIN pending[r] /\ pending'[r][i] = pending[r][i]
      BY <2>1, <2>3
    <3>2. pending[r][i] \in Msg
      BY <3>1
    <3>3. at[pending[r][i]] = "queued"
      BY <3>1 DEF InboxQueued
    <3>4. QED
      BY <3>1, <3>2, <3>3, <2>1
  <2>4. QED
    BY <2>2, <2>3
<1>2. ASSUME \/ \E m \in Msg, s \in Root : Spawn(m, s)
             \/ \E m \in Msg : AfterCompaction(m) \/ AfterAttachments(m) \/ TurnReportsError(m)
                               \/ TurnThrows(m) \/ TurnLacksText(m) \/ TurnDrains(m)
                               \/ TurnCompletes(m) \/ Abort(m)
             \/ \E s \in Session : CompactionStep(s) \/ DeleteSession(s)
             \/ UNCHANGED vars
      PROVE  InboxQueued'
  <2>1. \A s \in Session : pending'[s] \in {pending[s], <<>>}
    <3>1. CASE \E m \in Msg : TurnDrains(m)
      BY <3>1 DEF TurnDrains
    <3>2. CASE ~(\E m \in Msg : TurnDrains(m))
      BY <1>2, <3>2 DEF Spawn, AfterCompaction, AfterAttachments, TurnReportsError, TurnThrows,
         TurnLacksText, TurnCompletes, Abort, CompactionStep, CompactionSkips, CompactionRolls,
         DeleteSession, vars, memory
    <3>3. QED
      BY <3>1, <3>2
  <2>2. \A m \in Msg : at[m] = "queued" => at'[m] = "queued"
    <3>1. CASE \E m \in Msg, s \in Root : Spawn(m, s)
      BY <3>1 DEF Spawn, Arrives
    <3>2. CASE \E m \in Msg : AfterCompaction(m) \/ AfterAttachments(m)
      BY <3>2 DEF AfterCompaction, AfterAttachments, Register
    <3>3. CASE \E m \in Msg : TurnReportsError(m) \/ TurnThrows(m) \/ TurnCompletes(m)
      BY <3>3 DEF TurnReportsError, TurnThrows, TurnCompletes, Persist, Finally
    <3>4. CASE \E m \in Msg : TurnLacksText(m) \/ TurnDrains(m)
      BY <3>4, NextTurnTypes DEF TurnLacksText, TurnDrains, Persist
    <3>5. CASE (\E m \in Msg : Abort(m)) \/ UNCHANGED vars \/ \E s \in Session : DeleteSession(s)
      BY <3>5 DEF Abort, vars, DeleteSession
    <3>6. CASE \E s \in Session : CompactionStep(s)
      BY <3>6 DEF CompactionStep, CompactionSkips, CompactionRolls, Wake
    <3>7. QED
      BY <1>2, <3>1, <3>2, <3>3, <3>4, <3>5, <3>6
  <2>3. QED
    BY <2>1, <2>2, InboxKept
<1>3. ASSUME Restart PROVE InboxQueued'
  BY <1>3 DEF Restart, InboxQueued
<1>4. QED
  BY <1>1, <1>2, <1>3 DEF Next, TaskStep

LEMMA RepliesStep ==
    TypeOK /\ Phases /\ RepliesInv /\ [Next]_vars => OneReplyPerChannelTask'
<1> SUFFICES ASSUME TypeOK, Phases, RepliesInv, [Next]_vars PROVE OneReplyPerChannelTask'
  OBVIOUS
<1> USE DEF OneReplyPerChannelTask, Phases, Started, Driving
<1> /\ at \in [Msg -> Where] /\ status \in [Msg -> {"none", "running", "completed", "failed"}]
    /\ replies \in [Msg -> Seq({"answer", "sorry"})]
    /\ OnChannel \subseteq Msg /\ OneReplyPerChannelTask /\ OverHasVerdict
  BY TaskRunnerAssumption DEF TypeOK, RepliesInv
<1>0. ASSUME NEW m \in Msg, at[m] \in Driving, NEW r \in {"answer", "sorry"},
             replies' = [replies EXCEPT ![m] = Append(@, r)]
      PROVE  m \in OnChannel => replies'[m] = <<r>>
  <2>1. m \in OnChannel => replies[m] = <<>>
    BY <1>0
  <2>2. replies'[m] = Append(replies[m], r)
    BY <1>0
  <2>3. Append(<<>>, r) = <<r>>
    OBVIOUS
  <2>4. QED
    BY <2>1, <2>2, <2>3
<1>1. ASSUME NEW m \in Msg, NEW s \in Root, Inject(m, s) PROVE OneReplyPerChannelTask'
  BY <1>1 DEF Inject, Arrives
<1>2. ASSUME NEW m \in Msg, NEW s \in Root, Spawn(m, s) PROVE OneReplyPerChannelTask'
  BY <1>2 DEF Spawn, Arrives, memory
<1>3. ASSUME NEW m \in Msg, AfterCompaction(m) PROVE OneReplyPerChannelTask'
  BY <1>3 DEF AfterCompaction, Register
<1>4. ASSUME NEW m \in Msg, AfterAttachments(m) PROVE OneReplyPerChannelTask'
  BY <1>4 DEF AfterAttachments, Register
<1>5. ASSUME NEW m \in Msg, TurnReportsError(m) PROVE OneReplyPerChannelTask'
  <2>1. /\ at' = [at EXCEPT ![m] = "done"] /\ status' = [status EXCEPT ![m] = "failed"]
        /\ replies' = [replies EXCEPT ![m] = Append(@, "sorry")] /\ at[m] \in Driving
    BY <1>5 DEF TurnReportsError, Finally
  <2>2. m \in OnChannel => replies'[m] = <<"sorry">>
    BY <2>1, <1>0
  <2>3. QED
    BY <2>1, <2>2
<1>6. ASSUME NEW m \in Msg, TurnThrows(m) PROVE OneReplyPerChannelTask'
  <2>1. /\ at' = [at EXCEPT ![m] = "done"] /\ status' = [status EXCEPT ![m] = "failed"]
        /\ ReplyOnChannel(m, "sorry") /\ at[m] \in Driving
    BY <1>6 DEF TurnThrows, Finally
  <2>2. m \in OnChannel => replies'[m] = <<"sorry">>
    BY <2>1, <1>0 DEF ReplyOnChannel
  <2>3. \A n \in Msg \ {m} : replies'[n] = replies[n]
    BY <2>1 DEF ReplyOnChannel
  <2>4. QED
    BY <2>1, <2>2, <2>3
<1>7. ASSUME NEW m \in Msg, TurnLacksText(m) PROVE OneReplyPerChannelTask'
  BY <1>7, NextTurnTypes DEF TurnLacksText, Persist
<1>8. ASSUME NEW m \in Msg, TurnDrains(m) PROVE OneReplyPerChannelTask'
  BY <1>8, NextTurnTypes DEF TurnDrains, Persist
<1>9. ASSUME NEW m \in Msg, TurnCompletes(m) PROVE OneReplyPerChannelTask'
  <2>1. /\ at' = [at EXCEPT ![m] = "done"] /\ status' = [status EXCEPT ![m] = "completed"]
        /\ ReplyOnChannel(m, "answer") /\ at[m] \in Driving
    BY <1>9 DEF TurnCompletes, Persist, Finally
  <2>2. m \in OnChannel => replies'[m] = <<"answer">>
    BY <2>1, <1>0 DEF ReplyOnChannel
  <2>3. \A n \in Msg \ {m} : replies'[n] = replies[n]
    BY <2>1 DEF ReplyOnChannel
  <2>4. QED
    BY <2>1, <2>2, <2>3
<1>10. ASSUME NEW m \in Msg, Abort(m) PROVE OneReplyPerChannelTask'
  BY <1>10 DEF Abort, tables
<1>11. ASSUME NEW s \in Session, CompactionSkips(s) PROVE OneReplyPerChannelTask'
  BY <1>11 DEF CompactionSkips, Wake, tables
<1>12. ASSUME NEW s \in Session, NEW c \in Child, CompactionRolls(s, c) PROVE OneReplyPerChannelTask'
  BY <1>12 DEF CompactionRolls, Wake
<1>13. ASSUME NEW s \in Session, DeleteSession(s) PROVE OneReplyPerChannelTask'
  BY <1>13 DEF DeleteSession, memory
<1>14. ASSUME Restart PROVE OneReplyPerChannelTask'
  <2>1. \A m \in Msg : at[m] = "done" => at'[m] = "done"
    <3> SUFFICES ASSUME NEW m \in Msg, at[m] = "done", NEW s \in Session, NEW i \in DOMAIN pending[s],
                        pending[s][i] = m
                 PROVE  FALSE
      BY <1>14 DEF Restart
    <3>1. QED
      BY DEF RepliesInv, InboxQueued
  <2>2. \A m \in Msg : at'[m] = "done" => at[m] = "done"
    BY <1>14 DEF Restart
  <2>3. QED
    BY <1>14, <2>1, <2>2 DEF Restart, tables
<1>15. CASE UNCHANGED vars
  BY <1>15 DEF vars, tables, memory
<1>16. QED
  BY <1>1, <1>2, <1>3, <1>4, <1>5, <1>6, <1>7, <1>8, <1>9, <1>10, <1>11,
     <1>12, <1>13, <1>14, <1>15 DEF Next, TaskStep, CompactionStep

\* However the loop of a task ends, by an answer, an error event, an exception or
\* an abort, its channel gets exactly one reply, the apology exactly when the task
\* row says failed.  A task that never gets to its loop, rejected because its
\* session is gone, ends without any; one that is queued, running or lost in a
\* crash has sent none.
THEOREM ChannelHearsOnce == Spec => []OneReplyPerChannelTask
<1>1. Init => Phases /\ RepliesInv
  BY TaskRunnerAssumption DEF Init, Phases, Started, Driving, RepliesInv, OverHasVerdict, InboxQueued, OneReplyPerChannelTask
<1>2. TypeOK /\ Phases /\ RepliesInv /\ [Next]_vars => RepliesInv'
  BY VerdictStep, InboxStep, RepliesStep DEF RepliesInv
<1>3. RepliesInv => OneReplyPerChannelTask
  BY DEF RepliesInv
<1>4. QED
  BY <1>1, <1>2, <1>3, PhasesStep, TypeCorrect, PTL DEF Spec

-----------------------------------------------------------------------------
(* The conversation.                                                       *)

\* Before its first turn a message has no row.
Early == {"new", "queued", "awaiting", "resuming", "files"}

Answered(s, i) ==
    \/ \E j \in DOMAIN rows[s] : j > i /\ rows[s][j] = ReplyRow(rows[s][i].by)
    \/ i <= mute[rows[s][i].by]

\* A row is in the session its task works for.  A user row is answered, or its
\* task is still driving, or the task is over and did not complete.
AnswersInv ==
    \A s \in Session : \A i \in DOMAIN rows[s] :
        LET t == rows[s][i].by IN
        /\ at[t] \notin Early /\ sid[t] = s
        /\ rows[s][i].role = "user" =>
               \/ Answered(s, i)
               \/ at[t] \in Driving
               \/ at[t] \notin Driving /\ status[t] # "completed"

\* A turn that said nothing lies within the conversation.
MuteInv ==
    \A t \in Msg : /\ at[t] \in Early => mute[t] = 0
                   /\ at[t] \in Driving => mute[t] <= Len(rows[sid[t]])

\* Rows q are written at the end of s.
Writes(s, q) == rows' = [rows EXCEPT ![s] = rows[s] \o q]

LEMMA RowFields ==
    ASSUME NEW r \in Row
    PROVE  r.by \in Msg /\ r.carries \in Seq(Msg) /\ r.role \in {"user", "reply"}
  BY DEF Row

LEMMA RowsHaveAuthors ==
    ASSUME TypeOK, NEW s \in Session, NEW i \in DOMAIN rows[s]
    PROVE  rows[s][i] \in Row /\ rows[s][i].by \in Msg
<1>1. rows[s][i] \in Row
  BY DEF TypeOK
<1>2. QED
  BY <1>1, RowFields

LEMMA WritesRows ==
    ASSUME TypeOK, NEW s \in Session, NEW q \in Seq(Row), Writes(s, q)
    PROVE  /\ \A r \in Session \ {s} : rows'[r] = rows[r]
           /\ DOMAIN rows'[s] = 1..(Len(rows[s]) + Len(q)) /\ Len(rows[s]) \in Nat /\ Len(q) \in Nat
           /\ \A r \in Session : DOMAIN rows[r] = 1..Len(rows[r]) /\ Len(rows[r]) \in Nat
           /\ \A r \in Session : \A i \in DOMAIN rows[r] :
                  /\ i \in DOMAIN rows'[r] /\ rows'[r][i] = rows[r][i]
                  /\ rows[r][i] \in Row /\ rows[r][i].by \in Msg
           /\ \A i \in 1..Len(q) : rows'[s][Len(rows[s]) + i] = q[i]
           /\ \A r \in Session : \A i \in DOMAIN rows'[r] :
                  i \in DOMAIN rows[r] \/ (r = s /\ \E k \in 1..Len(q) : i = Len(rows[s]) + k /\ rows'[s][i] = q[k])
<1>1. rows[s] \in Seq(Row) /\ rows'[s] = rows[s] \o q /\ \A r \in Session : rows[r] \in Seq(Row)
  BY DEF TypeOK, Writes
<1>2. \A r \in Session \ {s} : rows'[r] = rows[r]
  BY DEF TypeOK, Writes
<1>3. /\ Len(rows'[s]) = Len(rows[s]) + Len(q) /\ Len(rows[s]) \in Nat /\ Len(q) \in Nat
      /\ \A i \in 1..Len(rows[s]) : rows'[s][i] = rows[s][i]
      /\ \A i \in 1..Len(q) : rows'[s][Len(rows[s]) + i] = q[i]
      /\ DOMAIN rows'[s] = 1..(Len(rows[s]) + Len(q))
  BY <1>1
<1>4. \A r \in Session : DOMAIN rows[r] = 1..Len(rows[r]) /\ Len(rows[r]) \in Nat
  BY <1>1
<1>5. ASSUME NEW r \in Session, NEW i \in DOMAIN rows[r]
      PROVE  /\ i \in DOMAIN rows'[r] /\ rows'[r][i] = rows[r][i]
             /\ rows[r][i] \in Row /\ rows[r][i].by \in Msg
  <2>1. rows[r][i] \in Row /\ rows[r][i].by \in Msg
    BY RowsHaveAuthors
  <2>2. CASE r = s
    <3>1. i \in 1..Len(rows[s])
      BY <2>2, <1>4
    <3>2. i \in 1..(Len(rows[s]) + Len(q))
      BY <3>1, <1>3
    <3>3. QED
      BY <2>1, <2>2, <3>1, <3>2, <1>3
  <2>3. CASE r # s
    BY <2>1, <2>3, <1>2
  <2>4. QED
    BY <2>2, <2>3
<1>6. ASSUME NEW r \in Session, NEW i \in DOMAIN rows'[r], i \notin DOMAIN rows[r]
      PROVE  r = s /\ \E k \in 1..Len(q) : i = Len(rows[s]) + k /\ rows'[s][i] = q[k]
  <2>1. r = s /\ i \in 1..(Len(rows[s]) + Len(q)) /\ i \notin 1..Len(rows[s])
    BY <1>6, <1>2, <1>3, <1>4
  <2>2. i - Len(rows[s]) \in 1..Len(q) /\ i = Len(rows[s]) + (i - Len(rows[s]))
    BY <2>1, <1>3
  <2>3. QED
    BY <2>1, <2>2, <1>3
<1>7. QED
  BY <1>2, <1>3, <1>4, <1>5, <1>6

\* With q, t has answered, or has nothing to say to, all there is in s.
Concludes(t, s, q) == (\E k \in 1..Len(q) : q[k] = ReplyRow(t)) \/ mute'[t] = Len(rows[s])

\* What the invariant needs of a step that writes q at the end of s, or nothing.
LEMMA AnswersWritten ==
    ASSUME TypeOK, AnswersInv, NEW s \in Session, NEW q \in Seq(Row), Writes(s, q),
           \A t \in Msg : at[t] \notin Early =>
               /\ at'[t] \notin Early
               /\ sid'[t] = sid[t]
               /\ at[t] \notin Driving => at'[t] \notin Driving /\ status'[t] = status[t]
               /\ at[t] \in Driving =>
                      \/ at'[t] \in Driving
                      \/ status'[t] # "completed"
                      \/ sid[t] = s /\ Concludes(t, s, q),
           mute' \in [Msg -> Nat], \A t \in Msg : mute[t] <= mute'[t],
           \A k \in 1..Len(q) :
               /\ at'[q[k].by] \notin Early /\ sid'[q[k].by] = s
               /\ q[k].role = "user" => at'[q[k].by] \in Driving
    PROVE  AnswersInv'
<1>0. /\ \A r \in Session \ {s} : rows'[r] = rows[r]
      /\ DOMAIN rows'[s] = 1..(Len(rows[s]) + Len(q)) /\ Len(rows[s]) \in Nat /\ Len(q) \in Nat
      /\ \A r \in Session : DOMAIN rows[r] = 1..Len(rows[r]) /\ Len(rows[r]) \in Nat
      /\ \A r \in Session : \A i \in DOMAIN rows[r] :
             /\ i \in DOMAIN rows'[r] /\ rows'[r][i] = rows[r][i]
             /\ rows[r][i] \in Row /\ rows[r][i].by \in Msg
      /\ \A i \in 1..Len(q) : rows'[s][Len(rows[s]) + i] = q[i]
      /\ \A r \in Session : \A i \in DOMAIN rows'[r] :
             i \in DOMAIN rows[r] \/ (r = s /\ \E k \in 1..Len(q) : i = Len(rows[s]) + k /\ rows'[s][i] = q[k])
  BY WritesRows, ZenonT(60)
<1> SUFFICES ASSUME NEW r \in Session, NEW i \in DOMAIN rows'[r]
             PROVE  /\ at'[rows'[r][i].by] \notin Early /\ sid'[rows'[r][i].by] = r
                    /\ rows'[r][i].role = "user" =>
                         \/ Answered(r, i)'
                         \/ at'[rows'[r][i].by] \in Driving
                         \/ at'[rows'[r][i].by] \notin Driving /\ status'[rows'[r][i].by] # "completed"
  BY DEF AnswersInv
<1>1. CASE i \in DOMAIN rows[r]
  <2> DEFINE t == rows[r][i].by
  <2>1. t \in Msg /\ rows'[r][i] = rows[r][i]
    BY <1>0, <1>1
  <2>2. /\ at[t] \notin Early /\ sid[t] = r
        /\ rows[r][i].role = "user" =>
               \/ Answered(r, i)
               \/ at[t] \in Driving
               \/ at[t] \notin Driving /\ status[t] # "completed"
    BY <1>1 DEF AnswersInv
  <2>3. Answered(r, i) => Answered(r, i)'
    <3>1. i \in Nat /\ mute[t] \in Nat /\ mute'[t] \in Nat /\ mute[t] <= mute'[t]
      BY <1>0, <1>1, <2>1 DEF TypeOK
    <3>2. CASE i <= mute[t]
      <4>1. i <= mute'[t]
        BY <3>1, <3>2
      <4>2. QED
        BY <4>1, <2>1 DEF Answered
    <3>3. CASE \E j \in DOMAIN rows[r] : j > i /\ rows[r][j] = ReplyRow(t)
      BY <1>0, <1>1, <2>1, <3>3 DEF Answered, ReplyRow
    <3>4. QED
      BY <3>2, <3>3 DEF Answered
  <2>6. ASSUME sid[t] = s, r = s, mute'[t] = Len(rows[s]) PROVE Answered(r, i)'
    <3>1. i <= mute'[t]
      BY <1>0, <1>1, <2>6
    <3>2. QED
      BY <3>1, <2>1 DEF Answered
  <2>4. ASSUME sid[t] = s, r = s, NEW k \in 1..Len(q), q[k] = ReplyRow(t) PROVE Answered(r, i)'
    <3>1. Len(rows[s]) + k \in DOMAIN rows'[s] /\ Len(rows[s]) + k > i
      BY <1>0, <1>1, <2>4
    <3>2. rows'[s][Len(rows[s]) + k] = ReplyRow(t)
      BY <1>0, <2>4
    <3>3. QED
      BY <3>1, <3>2, <2>1, <2>4 DEF Answered, ReplyRow
  <2>5. QED
    BY <2>1, <2>2, <2>3, <2>4, <2>6 DEF Concludes
<1>2. CASE i \notin DOMAIN rows[r]
  <2>1. PICK k \in 1..Len(q) : i = Len(rows[s]) + k /\ rows'[s][i] = q[k] /\ r = s
    BY <1>0, <1>2
  <2>2. QED
    BY <2>1
<1>3. QED
  BY <1>1, <1>2

\* The same for a step that writes no row.
LEMMA AnswersKept ==
    ASSUME TypeOK, AnswersInv, rows' = rows, mute' = mute,
           \A t \in Msg : at[t] \notin Early =>
               /\ at'[t] \notin Early
               /\ sid'[t] = sid[t]
               /\ at[t] \notin Driving => at'[t] \notin Driving /\ status'[t] = status[t]
               /\ at[t] \in Driving => at'[t] \in Driving \/ status'[t] # "completed"
    PROVE  AnswersInv'
<1> SUFFICES ASSUME NEW r \in Session, NEW i \in DOMAIN rows[r]
             PROVE  /\ at'[rows[r][i].by] \notin Early /\ sid'[rows[r][i].by] = r
                    /\ rows[r][i].role = "user" =>
                         \/ Answered(r, i)'
                         \/ at'[rows[r][i].by] \in Driving
                         \/ at'[rows[r][i].by] \notin Driving /\ status'[rows[r][i].by] # "completed"
  BY DEF AnswersInv
<1> DEFINE t == rows[r][i].by
<1>1. t \in Msg
  BY RowsHaveAuthors
<1>2. /\ at[t] \notin Early /\ sid[t] = r
      /\ rows[r][i].role = "user" =>
             \/ Answered(r, i)
             \/ at[t] \in Driving
             \/ at[t] \notin Driving /\ status[t] # "completed"
  BY DEF AnswersInv
<1>3. Answered(r, i)' <=> Answered(r, i)
  BY DEF Answered, ReplyRow
<1>4. QED
  BY <1>1, <1>2, <1>3

\* A task that registers writes its row, or is rejected and writes none.
LEMMA RegisterWrites ==
    ASSUME TypeOK, NEW m \in Msg, NEW s \in Session, Register(m, s)
    PROVE  \/ Writes(s, <<UserRow(m, <<m>>)>>) /\ at' = [at EXCEPT ![m] = "turn"]
           \/ rows' = rows /\ at' = [at EXCEPT ![m] = "rejected"]
<1>1. rows[s] \in Seq(Row)
  BY DEF TypeOK
<1>2. Append(rows[s], UserRow(m, <<m>>)) = rows[s] \o <<UserRow(m, <<m>>)>>
  BY <1>1
<1>3. QED
  BY <1>2 DEF Register, Writes

\* A turn that ends well writes its response block, if it has one, then at most
\* one user row.
LEMMA PersistWrites ==
    ASSUME TypeOK, Sited, NEW m \in Msg, NEW next \in Seq(Row), Persist(m, next)
    PROVE  /\ sid[m] \in Session /\ at[m] = "turn"
           /\ \E b \in {<<>>, <<ReplyRow(m)>>} :
                  /\ b \o next \in Seq(Row) /\ Writes(sid[m], b \o next)
                  /\ b # <<>> => mute' = mute
                  /\ b = <<>> => mute' = [mute EXCEPT ![m] = Len(rows[sid[m]])]
<1>1. sid[m] \in Session /\ at[m] = "turn"
  BY DEF Persist, Sited, Started, Driving
<1>2. ReplyRow(m) \in Row /\ <<ReplyRow(m)>> # <<>>
  BY RowsAreRows, <<>> \in Seq(Msg)
<1>3. rows[sid[m]] \in Seq(Row)
  BY <1>1 DEF TypeOK
<1>4. rows[sid[m]] \o <<ReplyRow(m)>> \o next = rows[sid[m]] \o (<<ReplyRow(m)>> \o next)
  <2> DEFINE p == <<ReplyRow(m)>>
             old == rows[sid[m]]
  <2>1. p \in Seq(Row) /\ old \in Seq(Row)
    BY <1>2, <1>3
  <2> HIDE DEF p, old
  <2>2. old \o p \o next = old \o (p \o next)
    BY <2>1, ConcatAssociative
  <2>3. QED
    BY <2>2 DEF p, old
<1>5. <<ReplyRow(m)>> \o next \in Seq(Row) /\ <<>> \o next = next
  BY <1>2, ConcatEmptySeq
<1>6. CASE rows' = [rows EXCEPT ![sid[m]] = rows[sid[m]] \o <<ReplyRow(m)>> \o next] /\ mute' = mute
  BY <1>1, <1>2, <1>4, <1>5, <1>6 DEF Writes
<1>7. CASE /\ rows' = [rows EXCEPT ![sid[m]] = rows[sid[m]] \o next]
           /\ mute' = [mute EXCEPT ![m] = Len(rows[sid[m]])]
  BY <1>1, <1>2, <1>5, <1>7 DEF Writes
<1>8. QED
  BY <1>6, <1>7 DEF Persist

\* What there is in a block with a user row behind it, and in a block alone.
LEMMA BlockThenRow ==
    ASSUME NEW m \in Msg, NEW r \in Row, NEW b \in {<<>>, <<ReplyRow(m)>>}, NEW q, q = b \o <<r>>
    PROVE  /\ q \in Seq(Row) /\ q[Len(q)] = r
           /\ Len(q) = 1 \/ (Len(q) = 2 /\ q[1] = ReplyRow(m))
<1>1. ReplyRow(m) \in Row
  BY RowsAreRows, <<>> \in Seq(Msg)
<1>2. <<r>> \in Seq(Row) /\ <<ReplyRow(m)>> \in Seq(Row)
  BY <1>1
<1>3. CASE b = <<>>
  <2>1. q = <<r>>
    BY <1>2, <1>3, ConcatEmptySeq
  <2>2. Len(<<r>>) = 1 /\ <<r>>[1] = r
    OBVIOUS
  <2>3. QED
    BY <1>2, <2>1, <2>2
<1>4. CASE b = <<ReplyRow(m)>>
  <2>1. Len(q) = 2 /\ q[1] = ReplyRow(m) /\ q[2] = r
    BY <1>2, <1>4, ConcatProperties
  <2>2. q \in Seq(Row)
    BY <1>2, <1>4, ConcatProperties
  <2>3. QED
    BY <2>1, <2>2
<1>5. QED
  BY <1>3, <1>4

LEMMA BlockAlone ==
    ASSUME NEW m \in Msg, NEW b \in {<<>>, <<ReplyRow(m)>>}, NEW q, q = b \o <<>>
    PROVE  /\ q \in Seq(Row) /\ Len(q) \in {0, 1}
           /\ Len(q) = 0 <=> b = <<>>
           /\ \A k \in 1..Len(q) : k = 1 /\ q[k] = ReplyRow(m)
<1>1. ReplyRow(m) \in Row
  BY RowsAreRows, <<>> \in Seq(Msg)
<1>2. <<>> \in Seq(Row) /\ <<ReplyRow(m)>> \in Seq(Row)
  BY <1>1
<1>3. b \in Seq(Row) /\ Len(b) \in {0, 1} /\ (Len(b) = 0 <=> b = <<>>)
  <2>1. CASE b = <<>>
    BY <1>2, <2>1
  <2>2. CASE b = <<ReplyRow(m)>>
    <3>1. Len(b) = 1 /\ b # <<>>
      BY <2>2
    <3>2. QED
      BY <1>2, <2>2, <3>1
  <2>3. QED
    BY <2>1, <2>2
<1>4. q = b
  BY <1>3, ConcatEmptySeq
<1>5. \A k \in 1..Len(b) : k = 1 /\ b[k] = ReplyRow(m)
  <2>1. CASE b = <<>>
    BY <2>1
  <2>2. CASE b = <<ReplyRow(m)>>
    BY <2>2
  <2>3. QED
    BY <2>1, <2>2
<1>6. QED
  BY <1>3, <1>4, <1>5

LEMMA AnswersStep ==
    TypeOK /\ Sited /\ Phases /\ InboxQueued /\ MuteInv /\ AnswersInv /\ [Next]_vars => AnswersInv'
<1> SUFFICES ASSUME TypeOK, Sited, Phases, InboxQueued, MuteInv, AnswersInv, [Next]_vars
             PROVE  AnswersInv'
  OBVIOUS
<1> USE DEF Phases, Started, Driving, Early
<1> at \in [Msg -> Where] /\ status \in [Msg -> {"none", "running", "completed", "failed"}]
    /\ sid \in [Msg -> Session \cup {None}] /\ Root \subseteq Session
    /\ mute \in [Msg -> Nat]
  BY DEF TypeOK, Session
<1>m. \A t \in Msg : mute[t] <= mute[t]
  OBVIOUS
<1>1. ASSUME NEW m \in Msg, NEW s \in Root, Inject(m, s) PROVE AnswersInv'
  BY <1>1, AnswersKept DEF Inject, Arrives
<1>2. ASSUME NEW m \in Msg, NEW s \in Root, Spawn(m, s) PROVE AnswersInv'
  BY <1>2, AnswersKept DEF Spawn, Arrives, memory
<1>3. ASSUME NEW m \in Msg, NEW s \in Session, Register(m, s), at[m] \in {"resuming", "files"},
             sid' = [sid EXCEPT ![m] = s], status' = status, mute' = mute
      PROVE  AnswersInv'
  <2>1. CASE rows' = rows /\ at' = [at EXCEPT ![m] = "rejected"]
    BY <1>3, <2>1, AnswersKept
  <2>2. CASE Writes(s, <<UserRow(m, <<m>>)>>) /\ at' = [at EXCEPT ![m] = "turn"]
    <3> DEFINE q == <<UserRow(m, <<m>>)>>
    <3>1. <<m>> \in Seq(Msg)
      OBVIOUS
    <3>2. UserRow(m, <<m>>) \in Row
      BY <3>1, RowsAreRows
    <3>3. q \in Seq(Row) /\ Len(q) = 1 /\ q[1].by = m
      BY <3>2 DEF UserRow
    <3>4. \A k \in 1..Len(q) : at'[q[k].by] \in Driving /\ sid'[q[k].by] = s
      BY <3>3, <2>2, <1>3
    <3>5. Writes(s, q)
      BY <2>2
    <3> HIDE DEF q
    <3>6. QED
      BY <1>m, <1>3, <2>2, <3>3, <3>4, <3>5, AnswersWritten
  <2>3. QED
    BY <1>3, <2>1, <2>2, RegisterWrites
<1>4. ASSUME NEW m \in Msg, AfterCompaction(m) PROVE AnswersInv'
  <2>1. latest[sid[m]] \in Session /\ at[m] = "resuming" /\ status' = status
        /\ sid' = [sid EXCEPT ![m] = latest[sid[m]]] /\ mute' = mute
    BY <1>4 DEF AfterCompaction, Sited, TypeOK
  <2>2. CASE Register(m, latest[sid[m]])
    BY <2>1, <2>2, <1>3
  <2>3. CASE at' = [at EXCEPT ![m] = "files"] /\ rows' = rows
    BY <2>1, <2>3, AnswersKept
  <2>4. QED
    BY <1>4, <2>2, <2>3 DEF AfterCompaction
<1>5. ASSUME NEW m \in Msg, AfterAttachments(m) PROVE AnswersInv'
  <2>1. /\ Register(m, sid[m]) /\ at[m] = "files" /\ status' = status /\ sid[m] \in Session
        /\ sid' = [sid EXCEPT ![m] = sid[m]] /\ mute' = mute
    BY <1>5 DEF AfterAttachments, Sited
  <2>2. QED
    BY <2>1, <1>3
<1>6. ASSUME NEW m \in Msg, TurnReportsError(m) \/ TurnThrows(m) PROVE AnswersInv'
  BY <1>6, AnswersKept DEF TurnReportsError, TurnThrows, Finally
\* A turn never takes anything back from what was silent.
<1>p. ASSUME NEW m \in Msg, sid[m] \in Session, at[m] = "turn", NEW b,
             b # <<>> => mute' = mute, b = <<>> => mute' = [mute EXCEPT ![m] = Len(rows[sid[m]])]
      PROVE  /\ mute' \in [Msg -> Nat] /\ \A t \in Msg : mute[t] <= mute'[t]
             /\ b = <<>> => mute'[m] = Len(rows[sid[m]])
  <2>1. mute[m] <= Len(rows[sid[m]]) /\ Len(rows[sid[m]]) \in Nat
    BY <1>p DEF MuteInv, TypeOK
  <2>2. QED
    BY <1>p, <1>m, <2>1
<1>7. ASSUME NEW m \in Msg, NEW r \in Row, Persist(m, <<r>>), r.by = m, NextTurn(m),
             status' = status, sid' = sid
      PROVE  AnswersInv'
  <2>1. <<r>> \in Seq(Row)
    OBVIOUS
  <2>2. PICK b \in {<<>>, <<ReplyRow(m)>>} :
           /\ b \o <<r>> \in Seq(Row) /\ Writes(sid[m], b \o <<r>>)
           /\ b # <<>> => mute' = mute
           /\ b = <<>> => mute' = [mute EXCEPT ![m] = Len(rows[sid[m]])]
    BY <1>7, <2>1, PersistWrites
  <2>3. sid[m] \in Session /\ at[m] = "turn"
    BY <1>7, <2>1, PersistWrites
  <2>4. PICK q : q = b \o <<r>>
    OBVIOUS
  <2>5. q[Len(q)] = r /\ (Len(q) = 1 \/ (Len(q) = 2 /\ q[1] = ReplyRow(m)))
    BY <2>4, BlockThenRow
  <2>6. \A k \in 1..Len(q) : q[k].by = m
    <3>1. ReplyRow(m).by = m
      BY DEF ReplyRow
    <3>2. QED
      BY <2>5, <3>1, <1>7
  <2>7. \A n \in Msg : at'[n] = at[n] \/ (n = m /\ at'[n] \in Driving)
    BY <1>7, <2>3, NextTurnTypes
  <2>8. at'[m] \in Driving
    BY <2>3, <2>7
  <2>9. mute' \in [Msg -> Nat] /\ \A t \in Msg : mute[t] <= mute'[t]
    BY <2>2, <2>3, <1>p
  <2>10. q \in Seq(Row) /\ Writes(sid[m], q)
    BY <2>2, <2>4
  <2>11. QED
    <3>1. \A t \in Msg : at[t] \notin Early =>
               /\ at'[t] \notin Early
               /\ sid'[t] = sid[t]
               /\ at[t] \notin Driving => at'[t] \notin Driving /\ status'[t] = status[t]
               /\ at[t] \in Driving => at'[t] \in Driving
      BY <1>7, <2>3, <2>7
    <3>2. \A k \in 1..Len(q) : /\ at'[q[k].by] \notin Early /\ sid'[q[k].by] = sid[m]
                               /\ at'[q[k].by] \in Driving
      BY <1>7, <2>6, <2>8
    <3>3. QED
      BY <2>3, <2>9, <2>10, <3>1, <3>2, AnswersWritten
<1>8. ASSUME NEW m \in Msg, TurnLacksText(m) PROVE AnswersInv'
  <2>1. SummariseRow(m) \in Row /\ SummariseRow(m).by = m
    BY RowsAreRows, <<>> \in Seq(Msg) DEF SummariseRow
  <2>2. QED
    BY <1>8, <2>1, <1>7 DEF TurnLacksText
<1>9. ASSUME NEW m \in Msg, TurnDrains(m) PROVE AnswersInv'
  <2>1. sid[m] \in Session /\ pending[sid[m]] \in Seq(Msg)
    BY <1>9 DEF TurnDrains, Persist, Sited, TypeOK
  <2>2. UserRow(m, pending[sid[m]]) \in Row /\ UserRow(m, pending[sid[m]]).by = m
    BY <2>1, RowsAreRows DEF UserRow
  <2>3. QED
    BY <1>9, <2>2, <1>7 DEF TurnDrains
<1>10. ASSUME NEW m \in Msg, TurnCompletes(m) PROVE AnswersInv'
  <2>1. <<>> \in Seq(Row) /\ Persist(m, <<>>)
    BY <1>10 DEF TurnCompletes
  <2>2. PICK b \in {<<>>, <<ReplyRow(m)>>} :
           /\ b \o <<>> \in Seq(Row) /\ Writes(sid[m], b \o <<>>)
           /\ b # <<>> => mute' = mute
           /\ b = <<>> => mute' = [mute EXCEPT ![m] = Len(rows[sid[m]])]
    BY <2>1, PersistWrites
  <2>3. sid[m] \in Session /\ at[m] = "turn"
    BY <2>1, PersistWrites
  <2>4. PICK q : q = b \o <<>>
    OBVIOUS
  <2>5. /\ Len(q) \in {0, 1} /\ (Len(q) = 0 <=> b = <<>>)
        /\ \A k \in 1..Len(q) : k = 1 /\ q[k] = ReplyRow(m)
    BY <2>4, BlockAlone
  <2>6. ReplyRow(m).by = m /\ ReplyRow(m).role = "reply"
    BY DEF ReplyRow
  <2>7. /\ at' = [at EXCEPT ![m] = "done"] /\ status' = [status EXCEPT ![m] = "completed"]
        /\ sid' = sid
    BY <1>10 DEF TurnCompletes, Finally
  <2>8. /\ mute' \in [Msg -> Nat] /\ \A t \in Msg : mute[t] <= mute'[t]
        /\ b = <<>> => mute'[m] = Len(rows[sid[m]])
    BY <2>2, <2>3, <1>p
  <2>9. Concludes(m, sid[m], q)
    BY <2>5, <2>8 DEF Concludes
  <2>10. q \in Seq(Row) /\ Writes(sid[m], q)
    BY <2>2, <2>4
  <2>11. QED
    <3>1. \A t \in Msg : at[t] \notin Early =>
               /\ at'[t] \notin Early
               /\ sid'[t] = sid[t]
               /\ at[t] \notin Driving => at'[t] \notin Driving /\ status'[t] = status[t]
               /\ at[t] \in Driving =>
                      \/ at'[t] \in Driving
                      \/ status'[t] # "completed"
                      \/ sid[t] = sid[m] /\ Concludes(t, sid[m], q)
      <4>1. ASSUME NEW t \in Msg, t # m PROVE at'[t] = at[t] /\ status'[t] = status[t]
        BY <2>7, <4>1
      <4>2. at'[m] = "done"
        BY <2>7
      <4>3. QED
        BY <2>3, <2>7, <2>9, <4>1, <4>2
    <3>2. \A k \in 1..Len(q) : /\ at'[q[k].by] \notin Early /\ sid'[q[k].by] = sid[m]
                               /\ q[k].role = "user" => at'[q[k].by] \in Driving
      BY <2>5, <2>6, <2>7
    <3>3. mute' \in [Msg -> Nat] /\ \A t \in Msg : mute[t] <= mute'[t]
      BY <2>8
    <3>4. QED
      BY <2>3, <2>10, <3>1, <3>2, <3>3, AnswersWritten
<1>11. ASSUME NEW m \in Msg, Abort(m) PROVE AnswersInv'
  BY <1>11, AnswersKept DEF Abort, tables
<1>12. ASSUME NEW s \in Session, CompactionStep(s) PROVE AnswersInv'
  BY <1>12, AnswersKept DEF CompactionStep, CompactionSkips, CompactionRolls, Wake, tables
<1>13. ASSUME NEW s \in Session, DeleteSession(s) PROVE AnswersInv'
  <2>1. /\ rows'[s] = <<>> /\ \A r \in Session \ {s} : rows'[r] = rows[r]
        /\ at' = at /\ sid' = sid /\ status' = status
        /\ \A t \in Msg : sid[t] # s => mute'[t] = mute[t]
    BY <1>13 DEF DeleteSession, TypeOK
  <2>2. DOMAIN rows'[s] = {}
    BY <2>1
  <2> SUFFICES ASSUME NEW r \in Session \ {s}, NEW i \in DOMAIN rows[r]
               PROVE  /\ at[rows[r][i].by] \notin Early /\ sid[rows[r][i].by] = r
                      /\ rows[r][i].role = "user" =>
                           \/ Answered(r, i)'
                           \/ at[rows[r][i].by] \in Driving
                           \/ at[rows[r][i].by] \notin Driving /\ status[rows[r][i].by] # "completed"
    BY <2>1, <2>2 DEF AnswersInv
  <2>3. Answered(r, i)' <=> Answered(r, i)
    <3>1. rows[r][i].by \in Msg /\ sid[rows[r][i].by] = r
      BY RowsHaveAuthors DEF AnswersInv
    <3>2. rows'[r] = rows[r] /\ mute'[rows[r][i].by] = mute[rows[r][i].by]
      BY <2>1, <3>1
    <3>3. QED
      BY <3>2 DEF Answered, ReplyRow
  <2>4. QED
    BY <2>3 DEF AnswersInv
<1>14. ASSUME Restart PROVE AnswersInv'
  <2>1. ASSUME NEW t \in Msg, at[t] \notin Early
        PROVE  /\ at'[t] \notin Early /\ at'[t] \notin Driving
               /\ at[t] \in Driving => status'[t] # "completed"
    BY <1>14, <2>1 DEF Restart, tables
  <2>2. QED
    BY <1>14, <2>1, AnswersKept DEF Restart, tables
<1>15. CASE UNCHANGED vars
  BY <1>15, AnswersKept DEF vars, tables
<1>16. QED
  BY <1>1, <1>2, <1>4, <1>5, <1>6, <1>8, <1>9, <1>10, <1>11,
     <1>12, <1>13, <1>14, <1>15 DEF Next, TaskStep

\* What MuteInv needs of a step that changes neither rows nor mute.
LEMMA MuteKept ==
    ASSUME MuteInv, rows' = rows, mute' = mute,
           \A t \in Msg : /\ at'[t] \in Early => at[t] \in Early
                          /\ at'[t] \in Driving => at[t] \in Driving /\ sid'[t] = sid[t]
    PROVE  MuteInv'
  BY DEF MuteInv

\* The same for a step of m that writes q at the end of s.
LEMMA MuteWritten ==
    ASSUME TypeOK, MuteInv, NEW m \in Msg, NEW s \in Session, NEW q \in Seq(Row), Writes(s, q),
           mute' \in [Msg -> Nat], \A t \in Msg \ {m} : mute'[t] = mute[t] /\ at'[t] = at[t],
           sid' \in [Msg -> Session \cup {None}], \A t \in Msg \ {m} : sid'[t] = sid[t],
           \A t \in Msg : at[t] \in Driving => sid[t] \in Session,
           at'[m] \notin Early, sid'[m] = s, mute'[m] <= Len(rows[s])
    PROVE  MuteInv'
<1>1. /\ Len(rows'[s]) = Len(rows[s]) + Len(q) /\ Len(rows[s]) \in Nat /\ Len(q) \in Nat
      /\ \A r \in Session \ {s} : rows'[r] = rows[r]
  <2>1. rows[s] \in Seq(Row) /\ rows' = [rows EXCEPT ![s] = rows[s] \o q]
    BY DEF TypeOK, Writes
  <2>2. QED
    BY <2>1 DEF TypeOK
<1>2. ASSUME NEW t \in Msg \ {m}, at[t] \in Driving PROVE mute[t] <= Len(rows'[sid[t]])
  <2>1. mute[t] \in Nat /\ mute[t] <= Len(rows[sid[t]]) /\ sid[t] \in Session
    BY <1>2 DEF MuteInv, TypeOK
  <2>2. CASE sid[t] = s
    BY <1>1, <2>1, <2>2
  <2>3. CASE sid[t] # s
    BY <1>1, <2>1, <2>3
  <2>4. QED
    BY <2>2, <2>3
<1>3. mute'[m] <= Len(rows'[s])
  BY <1>1
<1>4. QED
  BY <1>2, <1>3 DEF MuteInv

LEMMA MuteStep == TypeOK /\ Sited /\ Phases /\ InboxQueued /\ MuteInv /\ [Next]_vars => MuteInv'
<1> SUFFICES ASSUME TypeOK, Sited, Phases, InboxQueued, MuteInv, [Next]_vars PROVE MuteInv'
  OBVIOUS
<1> USE DEF Started, Driving, Early
<1>0. /\ at \in [Msg -> Where] /\ sid \in [Msg -> Session \cup {None}] /\ mute \in [Msg -> Nat]
      /\ rows \in [Session -> Seq(Row)] /\ Root \subseteq Session
      /\ \A t \in Msg : at[t] \in Driving => sid[t] \in Session
  BY DEF TypeOK, Session, Sited
<1>1. ASSUME NEW m \in Msg, NEW s \in Root, Inject(m, s) \/ Spawn(m, s) PROVE MuteInv'
  BY <1>0, <1>1, MuteKept DEF Inject, Spawn, Arrives, memory
<1>2. ASSUME NEW m \in Msg, NEW s \in Session, Register(m, s), at[m] \in {"resuming", "files"},
             sid' = [sid EXCEPT ![m] = s], mute' = mute
      PROVE  MuteInv'
  <2>1. CASE rows' = rows /\ at' = [at EXCEPT ![m] = "rejected"]
    BY <1>0, <1>2, <2>1, MuteKept
  <2>2. CASE Writes(s, <<UserRow(m, <<m>>)>>) /\ at' = [at EXCEPT ![m] = "turn"]
    <3>1. <<m>> \in Seq(Msg)
      OBVIOUS
    <3>2. UserRow(m, <<m>>) \in Row
      BY <3>1, RowsAreRows
    <3>3. PICK q \in Seq(Row) : Writes(s, q)
      <4>1. <<UserRow(m, <<m>>)>> \in Seq(Row)
        BY <3>2
      <4>2. QED
        BY <2>2, <4>1
    <3>4. mute'[m] = 0 /\ Len(rows[s]) \in Nat
      BY <1>0, <1>2 DEF MuteInv
    <3>5. mute'[m] <= Len(rows[s])
      BY <3>4
    <3>6. /\ at'[m] \notin Early /\ sid'[m] = s /\ sid' \in [Msg -> Session \cup {None}]
          /\ \A t \in Msg \ {m} : mute'[t] = mute[t] /\ at'[t] = at[t] /\ sid'[t] = sid[t]
      BY <1>0, <1>2, <2>2
    <3>7. QED
      BY <1>0, <1>2, <3>3, <3>5, <3>6, MuteWritten
  <2>3. QED
    BY <1>2, <2>1, <2>2, RegisterWrites
<1>3. ASSUME NEW m \in Msg, AfterCompaction(m) PROVE MuteInv'
  <2>1. latest[sid[m]] \in Session /\ at[m] = "resuming" /\ mute' = mute
        /\ sid' = [sid EXCEPT ![m] = latest[sid[m]]]
    BY <1>3 DEF AfterCompaction, Sited, TypeOK
  <2>2. CASE Register(m, latest[sid[m]])
    BY <2>1, <2>2, <1>2
  <2>3. CASE at' = [at EXCEPT ![m] = "files"] /\ rows' = rows
    BY <1>0, <2>1, <2>3, MuteKept
  <2>4. QED
    BY <1>3, <2>2, <2>3 DEF AfterCompaction
<1>4. ASSUME NEW m \in Msg, AfterAttachments(m) PROVE MuteInv'
  <2>1. /\ Register(m, sid[m]) /\ at[m] = "files" /\ sid[m] \in Session
        /\ sid' = [sid EXCEPT ![m] = sid[m]] /\ mute' = mute
    BY <1>4, <1>0 DEF AfterAttachments, Sited
  <2>2. QED
    BY <2>1, <1>2
<1>5. ASSUME NEW m \in Msg, TurnReportsError(m) \/ TurnThrows(m) \/ Abort(m) PROVE MuteInv'
  BY <1>0, <1>5, MuteKept DEF TurnReportsError, TurnThrows, Finally, Abort, tables
\* A turn that ends well, whether another follows or not.
<1>6. ASSUME NEW m \in Msg, NEW next \in Seq(Row), Persist(m, next), sid' = sid,
             at'[m] \notin Early, \A t \in Msg \ {m} : at'[t] = at[t]
      PROVE  MuteInv'
  <2>1. PICK b \in {<<>>, <<ReplyRow(m)>>} :
           /\ b \o next \in Seq(Row) /\ Writes(sid[m], b \o next)
           /\ b # <<>> => mute' = mute
           /\ b = <<>> => mute' = [mute EXCEPT ![m] = Len(rows[sid[m]])]
    BY <1>6, PersistWrites
  <2>2. sid[m] \in Session /\ at[m] = "turn" /\ Len(rows[sid[m]]) \in Nat
    <3>1. sid[m] \in Session /\ at[m] = "turn"
      BY <1>6, PersistWrites
    <3>2. QED
      BY <1>0, <3>1
  <2>3. PICK q \in Seq(Row) : Writes(sid[m], q)
    BY <2>1
  <2>4. mute[m] <= Len(rows[sid[m]])
    BY <2>2 DEF MuteInv
  <2>5. /\ mute' \in [Msg -> Nat] /\ mute'[m] <= Len(rows[sid[m]])
        /\ \A t \in Msg \ {m} : mute'[t] = mute[t]
    <3>1. CASE mute' = mute
      BY <1>0, <2>2, <2>4, <3>1
    <3>2. CASE mute' = [mute EXCEPT ![m] = Len(rows[sid[m]])]
      BY <1>0, <2>2, <3>2
    <3>3. QED
      BY <2>1, <3>1, <3>2
  <2>6. QED
    BY <1>0, <1>6, <2>2, <2>3, <2>5, MuteWritten
<1>7. ASSUME NEW m \in Msg, TurnLacksText(m) \/ TurnDrains(m) PROVE MuteInv'
  <2>1. at[m] = "turn" /\ sid[m] \in Session
    BY <1>0, <1>7 DEF TurnLacksText, TurnDrains, Persist
  <2>2. pending[sid[m]] \in Seq(Msg)
    BY <2>1 DEF TypeOK
  <2>3. <<SummariseRow(m)>> \in Seq(Row) /\ <<UserRow(m, pending[sid[m]])>> \in Seq(Row)
    <3>1. SummariseRow(m) \in Row /\ UserRow(m, pending[sid[m]]) \in Row
      BY <2>2, RowsAreRows
    <3>2. QED
      BY <3>1
  <2>4. \A n \in Msg : at'[n] = at[n] \/ (n = m /\ at'[n] \in Driving)
    BY <1>7, <2>1, NextTurnTypes DEF TurnLacksText, TurnDrains
  <2>5. at'[m] \notin Early /\ \A t \in Msg \ {m} : at'[t] = at[t]
    BY <2>1, <2>4
  <2>6. QED
    BY <1>6, <1>7, <2>3, <2>5 DEF TurnLacksText, TurnDrains
<1>8. ASSUME NEW m \in Msg, TurnCompletes(m) PROVE MuteInv'
  <2>1. at' = [at EXCEPT ![m] = "done"] /\ <<>> \in Seq(Row) /\ sid' = sid /\ Persist(m, <<>>)
    BY <1>8 DEF TurnCompletes, Finally
  <2>2. at'[m] \notin Early /\ \A t \in Msg \ {m} : at'[t] = at[t]
    BY <1>0, <2>1
  <2>3. QED
    BY <1>6, <2>1, <2>2
<1>9. ASSUME NEW s \in Session, CompactionStep(s) PROVE MuteInv'
  BY <1>0, <1>9, MuteKept DEF CompactionStep, CompactionSkips, CompactionRolls, Wake, tables
<1>10. ASSUME NEW s \in Session, DeleteSession(s) PROVE MuteInv'
  <2>1. /\ rows'[s] = <<>> /\ \A r \in Session \ {s} : rows'[r] = rows[r]
        /\ at' = at /\ sid' = sid
        /\ mute' = [t \in Msg |-> IF sid[t] = s THEN 0 ELSE mute[t]]
    BY <1>0, <1>10 DEF DeleteSession
  <2>2. ASSUME NEW t \in Msg, at[t] \in Driving PROVE mute'[t] <= Len(rows'[sid[t]])
    <3>1. sid[t] \in Session
      BY <1>0, <2>2
    <3>2. CASE sid[t] = s
      BY <2>1, <3>2
    <3>3. CASE sid[t] # s
      BY <2>1, <2>2, <3>1, <3>3 DEF MuteInv
    <3>4. QED
      BY <3>2, <3>3
  <2>3. \A t \in Msg : at[t] \in Early => mute'[t] = 0
    BY <2>1 DEF MuteInv
  <2>4. QED
    BY <2>1, <2>2, <2>3 DEF MuteInv
<1>11. ASSUME Restart PROVE MuteInv'
  <2>1. \A t \in Msg : at'[t] \in Early => at[t] \in Early
    BY <1>0, <1>11 DEF Restart
  <2>2. \A t \in Msg : at'[t] \notin Driving
    BY <1>0, <1>11 DEF Restart
  <2>3. QED
    BY <1>11, <2>1, <2>2, MuteKept DEF Restart, tables
<1>12. CASE UNCHANGED vars
  BY <1>12, MuteKept DEF vars, tables
<1>13. QED
  BY <1>1, <1>3, <1>4, <1>5, <1>7, <1>8, <1>9, <1>10, <1>11, <1>12 DEF Next, TaskStep

\* Each user row of a task the table calls completed (its prompt, the summary
\* request, each batch it drained) has a response block of that task behind it,
\* or a later turn of the task ended without producing one, however many loops
\* wrote between them and whatever was deleted or restarted.
THEOREM CompletedHasAnswered == Spec => []CompletedAnswersAll
<1>1. Init => Phases /\ InboxQueued /\ MuteInv /\ AnswersInv
  BY DEF Init, Phases, Started, Driving, Early, InboxQueued, MuteInv, AnswersInv
<1>2. TypeOK /\ Phases /\ AnswersInv => CompletedAnswersAll
  <2> SUFFICES ASSUME TypeOK, Phases, AnswersInv, NEW s \in Session, NEW i \in DOMAIN rows[s],
                      rows[s][i].role = "user", status[rows[s][i].by] = "completed"
               PROVE  Answered(s, i)
    BY DEF CompletedAnswersAll, Answered
  <2>1. rows[s][i].by \in Msg
    BY RowsHaveAuthors
  <2>2. QED
    BY <2>1 DEF AnswersInv, Phases, Started, Driving
<1>3. QED
  BY <1>1, <1>2, MuteStep, AnswersStep, PhasesStep, InboxStep, TypeCorrect, PTL DEF Spec

-----------------------------------------------------------------------------
(* The serial conversation.                                                *)

Orderly == Serial /\ Deletable = {}

\* Each response block comes after the row it answers; the last row of a session
\* being driven is the one its task is answering.
PromptsInv ==
    Orderly =>
        /\ \A s \in Session : \A i \in DOMAIN rows[s] :
               rows[s][i].role = "reply" =>
                   i > 1 /\ rows[s][i - 1].role = "user" /\ rows[s][i - 1].by = rows[s][i].by
        /\ \A t \in inflight :
               /\ Len(rows[sid[t]]) > 0
               /\ rows[sid[t]][Len(rows[sid[t]])].role = "user"
               /\ rows[sid[t]][Len(rows[sid[t]])].by = t

\* What a step keeps that ends no set-up and no turn.
LEMMA PromptsKept ==
    ASSUME PromptsInv, rows' = rows, inflight' \subseteq inflight,
           \A t \in inflight' : sid'[t] = sid[t]
    PROVE  PromptsInv'
BY DEF PromptsInv, Orderly, Serial

LEMMA PromptsStep ==
    /\ Orderly /\ TypeOK /\ Sited /\ Phases /\ SerialInv /\ PromptsInv /\ [Next]_vars
    => PromptsInv'
<1> SUFFICES ASSUME Orderly, TypeOK, Sited, Phases, SerialInv, PromptsInv, [Next]_vars
             PROVE  PromptsInv'
  OBVIOUS
<1> USE DEF Phases, Started, Driving
<1>0. /\ at \in [Msg -> Where] /\ inflight \subseteq Msg
      /\ sid \in [Msg -> Session \cup {None}] /\ rows \in [Session -> Seq(Row)]
      /\ latest \in [Session -> Session]
      /\ \A m \in SettingUp : \A t \in inflight : sid[t] # sid[m]
      /\ \A t \in inflight : active[sid[t]] = t /\ sid[t] \in Session
      /\ Deletable = {}
      /\ \A s \in Session : latest[s] = s
      /\ \A s \in Session : \A i \in DOMAIN rows[s] :
               rows[s][i].role = "reply" =>
                   i > 1 /\ rows[s][i - 1].role = "user" /\ rows[s][i - 1].by = rows[s][i].by
      /\ \A t \in inflight :
               /\ Len(rows[sid[t]]) > 0
               /\ rows[sid[t]][Len(rows[sid[t]])].role = "user"
               /\ rows[sid[t]][Len(rows[sid[t]])].by = t
  BY DEF TypeOK, SerialInv, Orderly, Loops, PromptsInv, Sited
\* Rows are written at the end of a session nobody else drives.
<1>w. ASSUME NEW m \in Msg, NEW s \in Session, NEW q \in Seq(Row), Writes(s, q),
             \A t \in inflight \ {m} : sid[t] # s,
             inflight' \subseteq inflight \cup {m}, \A t \in inflight' \ {m} : sid'[t] = sid[t],
             m \in inflight' => sid'[m] = s,
             \/ m \in inflight /\ sid[m] = s /\ Len(q) = 2 /\ q[1] = ReplyRow(m)
                /\ q[2].role = "user" /\ q[2].by = m
             \/ m \in inflight /\ sid[m] = s /\ Len(q) = 1 /\ q[1] = ReplyRow(m) /\ m \notin inflight'
             \/ Len(q) = 1 /\ q[1].role = "user" /\ q[1].by = m
      PROVE  PromptsInv'
  <2>1. /\ \A r \in Session \ {s} : rows'[r] = rows[r]
        /\ DOMAIN rows'[s] = 1..(Len(rows[s]) + Len(q)) /\ Len(rows[s]) \in Nat /\ Len(q) \in Nat
        /\ \A r \in Session : DOMAIN rows[r] = 1..Len(rows[r]) /\ Len(rows[r]) \in Nat
        /\ \A r \in Session : \A i \in DOMAIN rows[r] :
               /\ i \in DOMAIN rows'[r] /\ rows'[r][i] = rows[r][i]
               /\ rows[r][i] \in Row /\ rows[r][i].by \in Msg
        /\ \A i \in 1..Len(q) : rows'[s][Len(rows[s]) + i] = q[i]
    BY <1>w, WritesRows
  <2>2. Len(rows'[s]) = Len(rows[s]) + Len(q)
    BY <1>0, <1>w DEF Writes
  <2> DEFINE n == Len(rows[s])
  <2>3. n \in Nat /\ DOMAIN rows[s] = 1..n /\ DOMAIN rows'[s] = 1..(n + Len(q))
    BY <2>1
  <2>4. ReplyRow(m).role = "reply" /\ ReplyRow(m).by = m
    BY DEF ReplyRow
  <2>5. rows'[s][n + 1] = q[1] /\ (Len(q) = 2 => rows'[s][n + 2] = q[2])
    BY <2>1, <1>w
  <2>6. \A i \in 1..n : rows'[s][i] = rows[s][i]
    BY <2>1, <2>3
  <2>7. m \in inflight /\ sid[m] = s => n > 0 /\ rows[s][n].role = "user" /\ rows[s][n].by = m
    BY <1>0
  <2> HIDE DEF n
  <2>8. ASSUME NEW i \in DOMAIN rows'[s], rows'[s][i].role = "reply"
        PROVE  i > 1 /\ rows'[s][i - 1].role = "user" /\ rows'[s][i - 1].by = rows'[s][i].by
    <3>1. CASE i \in 1..n
      <4>0. i \in DOMAIN rows[s] /\ rows'[s][i] = rows[s][i]
        BY <3>1, <2>3, <2>6
      <4>1. i > 1 /\ rows[s][i - 1].role = "user" /\ rows[s][i - 1].by = rows[s][i].by
        BY <4>0, <2>8, <1>0
      <4>2. i - 1 \in 1..n
        BY <4>1, <3>1, <2>3
      <4>3. QED
        BY <4>1, <4>2, <3>1, <2>6
    <3>2. CASE i = n + 1
      <4>1. q[1].role = "reply" /\ rows'[s][i] = q[1]
        BY <2>5, <2>8, <3>2
      <4>2. m \in inflight /\ sid[m] = s /\ q[1] = ReplyRow(m)
        BY <4>1, <1>w
      <4>3. n \in 1..n /\ i > 1 /\ i - 1 = n
        BY <4>2, <2>7, <2>3, <3>2
      <4>4. QED
        BY <4>1, <4>2, <4>3, <2>4, <2>6, <2>7
    <3>3. CASE i = n + 2 /\ Len(q) = 2
      BY <3>3, <2>5, <2>8, <1>w
    <3>4. Len(q) \in {1, 2} /\ i \in 1..(n + Len(q))
      BY <2>3, <1>w
    <3>5. i \in 1..n \/ i = n + 1 \/ (i = n + 2 /\ Len(q) = 2)
      <4>1. n \in Nat
        BY <2>3
      <4>2. CASE Len(q) = 1
        <5>1. i \in 1..(n + 1)
          BY <3>4, <4>2
        <5>2. QED
          BY <5>1, <4>1
      <4>3. CASE Len(q) = 2
        <5>1. i \in 1..(n + 2)
          BY <3>4, <4>3
        <5>2. QED
          BY <5>1, <4>1, <4>3
      <4>4. QED
        BY <3>4, <4>2, <4>3
    <3>6. QED
      BY <3>1, <3>2, <3>3, <3>5
  <2>9. ASSUME NEW t \in inflight'
        PROVE  /\ Len(rows'[sid'[t]]) > 0
               /\ rows'[sid'[t]][Len(rows'[sid'[t]])].role = "user"
               /\ rows'[sid'[t]][Len(rows'[sid'[t]])].by = t
    <3>1. CASE t = m
      <4>1. sid'[t] = s
        BY <3>1, <1>w
      <4>2. CASE Len(q) = 2
        BY <4>1, <4>2, <3>1, <2>2, <2>3, <2>5, <1>w
      <4>3. CASE Len(q) = 1
        <5>1. q[1].role = "user" /\ q[1].by = m
          BY <4>3, <3>1, <1>w
        <5>2. Len(rows'[s]) = n + 1 /\ n + 1 > 0
          BY <4>3, <2>2, <2>3 DEF n
        <5>3. QED
          BY <5>1, <5>2, <4>1, <3>1, <2>5
      <4>4. QED
        BY <4>2, <4>3, <1>w
    <3>2. CASE t # m
      <4>1. t \in inflight /\ sid'[t] = sid[t] /\ sid[t] # s /\ sid[t] \in Session
        BY <3>2, <1>w, <1>0
      <4>2. rows'[sid[t]] = rows[sid[t]]
        BY <4>1, <2>1
      <4>3. QED
        BY <4>1, <4>2, <1>0
    <3>3. QED
      BY <3>1, <3>2
  <2>10. ASSUME NEW r \in Session \ {s}, NEW i \in DOMAIN rows'[r], rows'[r][i].role = "reply"
        PROVE  i > 1 /\ rows'[r][i - 1].role = "user" /\ rows'[r][i - 1].by = rows'[r][i].by
    BY <2>10, <2>1, <1>0
  <2>11. QED
    BY <2>8, <2>9, <2>10 DEF PromptsInv
<1>1. ASSUME NEW m \in Msg, NEW s \in Session, Register(m, s), at[m] \in {"resuming", "files"},
             sid' = [sid EXCEPT ![m] = s], sid[m] = s
      PROVE  PromptsInv'
  <2>1. CASE Writes(s, <<UserRow(m, <<m>>)>>) /\ inflight' = inflight \cup {m}
    <3> DEFINE q == <<UserRow(m, <<m>>)>>
    <3>1. <<m>> \in Seq(Msg)
      OBVIOUS
    <3>2. UserRow(m, <<m>>) \in Row
      BY <3>1, RowsAreRows
    <3>3. q \in Seq(Row) /\ Len(q) = 1 /\ q[1].by = m /\ q[1].role = "user"
      BY <3>2 DEF UserRow
    <3>4. m \in SettingUp /\ \A t \in inflight : sid[t] # s
      BY <1>1, <1>0 DEF SettingUp
    <3>5. Writes(s, q) /\ inflight' = inflight \cup {m}
      BY <2>1
    <3>6. sid'[m] = s /\ \A t \in inflight' \ {m} : sid'[t] = sid[t]
      BY <1>1, <1>0, <3>5
    <3> HIDE DEF q
    <3>7. QED
      BY <3>3, <3>4, <3>5, <3>6, <1>w
  <2>2. CASE rows' = rows /\ inflight' = inflight
    BY <1>1, <2>2, <1>0, PromptsKept
  <2>3. \/ Writes(s, <<UserRow(m, <<m>>)>>) /\ inflight' = inflight \cup {m}
        \/ rows' = rows /\ inflight' = inflight
    <3>1. Append(rows[s], UserRow(m, <<m>>)) = rows[s] \o <<UserRow(m, <<m>>)>>
      BY <1>0
    <3>2. QED
      BY <1>1, <3>1 DEF Register, Writes
  <2>4. QED
    BY <2>1, <2>2, <2>3
<1>2. ASSUME NEW m \in Msg, AfterCompaction(m) PROVE PromptsInv'
  <2>1. sid[m] \in Session /\ latest[sid[m]] = sid[m] /\ at[m] = "resuming"
        /\ sid' = [sid EXCEPT ![m] = sid[m]]
    BY <1>2, <1>0 DEF AfterCompaction, Sited
  <2>2. CASE Register(m, latest[sid[m]])
    BY <2>1, <2>2, <1>1
  <2>3. CASE UNCHANGED <<rows, inflight>>
    BY <2>1, <2>3, <1>0, PromptsKept
  <2>4. QED
    BY <1>2, <2>2, <2>3 DEF AfterCompaction
<1>3. ASSUME NEW m \in Msg, AfterAttachments(m) PROVE PromptsInv'
  <2>1. /\ Register(m, sid[m]) /\ at[m] = "files" /\ sid[m] \in Session
        /\ sid' = [sid EXCEPT ![m] = sid[m]]
    BY <1>3, <1>0 DEF AfterAttachments, Sited
  <2>2. QED
    BY <2>1, <1>1
<1>4. ASSUME NEW m \in Msg, NEW r \in Row, Persist(m, <<r>>), r.by = m, r.role = "user",
             inflight' = inflight, sid' = sid
      PROVE  PromptsInv'
  <2>1. <<r>> \in Seq(Row)
    OBVIOUS
  <2>2. sid[m] \in Session /\ at[m] = "turn"
    BY <1>4, <2>1, PersistWrites
  <2>3. PICK b \in {<<>>, <<ReplyRow(m)>>} : b \o <<r>> \in Seq(Row) /\ Writes(sid[m], b \o <<r>>)
    BY <1>4, <2>1, PersistWrites
  <2>4. PICK q : q = b \o <<r>>
    OBVIOUS
  <2>5. q[Len(q)] = r /\ (Len(q) = 1 \/ (Len(q) = 2 /\ q[1] = ReplyRow(m)))
    BY <2>4, BlockThenRow
  <2>6. m \in inflight /\ \A t \in inflight \ {m} : sid[t] # sid[m]
    BY <2>2, <1>0
  <2>7. q \in Seq(Row) /\ Writes(sid[m], q)
    BY <2>3, <2>4
  <2>8. QED
    BY <1>4, <2>2, <2>5, <2>6, <2>7, <1>w
<1>5. ASSUME NEW m \in Msg, TurnLacksText(m) PROVE PromptsInv'
  <2>1. SummariseRow(m) \in Row /\ SummariseRow(m).by = m /\ SummariseRow(m).role = "user"
    BY RowsAreRows, <<>> \in Seq(Msg) DEF SummariseRow
  <2>2. QED
    BY <1>5, <2>1, <1>4 DEF TurnLacksText
<1>6. ASSUME NEW m \in Msg, TurnDrains(m) PROVE PromptsInv'
  <2>1. sid[m] \in Session /\ pending[sid[m]] \in Seq(Msg)
    BY <1>6 DEF TurnDrains, Persist, Sited, TypeOK
  <2>2. UserRow(m, pending[sid[m]]) \in Row /\ UserRow(m, pending[sid[m]]).by = m
        /\ UserRow(m, pending[sid[m]]).role = "user"
    BY <2>1, RowsAreRows DEF UserRow
  <2>3. QED
    BY <1>6, <2>2, <1>4 DEF TurnDrains
<1>7. ASSUME NEW m \in Msg, TurnCompletes(m) PROVE PromptsInv'
  <2>0. <<>> \in Seq(Row) /\ Persist(m, <<>>)
    BY <1>7 DEF TurnCompletes
  <2>1. sid[m] \in Session /\ at[m] = "turn"
    BY <2>0, PersistWrites
  <2>2. PICK b \in {<<>>, <<ReplyRow(m)>>} : b \o <<>> \in Seq(Row) /\ Writes(sid[m], b \o <<>>)
    BY <2>0, PersistWrites
  <2>3. PICK q : q = b \o <<>>
    OBVIOUS
  <2>4. Len(q) \in {0, 1} /\ \A k \in 1..Len(q) : k = 1 /\ q[k] = ReplyRow(m)
    BY <2>3, BlockAlone
  <2>5. inflight' = inflight \ {m} /\ sid' = sid
    BY <1>7 DEF TurnCompletes, Finally
  <2>6. m \in inflight /\ \A t \in inflight \ {m} : sid[t] # sid[m]
    BY <2>1, <1>0
  <2>7. q \in Seq(Row) /\ Writes(sid[m], q)
    BY <2>2, <2>3
  <2>8. CASE Len(q) = 1
    BY <2>1, <2>4, <2>5, <2>6, <2>7, <2>8, <1>w
  <2>9. CASE Len(q) = 0
    <3>1. q = <<>> /\ rows[sid[m]] \in Seq(Row)
      BY <1>0, <2>1, <2>7, <2>9, EmptySeq
    <3>2. rows' = rows
      BY <1>0, <3>1, <2>7, ConcatEmptySeq DEF Writes
    <3>3. QED
      BY <3>2, <2>5, PromptsKept
  <2>10. QED
    BY <2>4, <2>8, <2>9
<1>8. ASSUME NEW m \in Msg, TurnReportsError(m) \/ TurnThrows(m) \/ Abort(m) PROVE PromptsInv'
  BY <1>8, PromptsKept DEF TurnReportsError, TurnThrows, Finally, Abort, tables
<1>9. ASSUME NEW m \in Msg, NEW s \in Root, Inject(m, s) \/ Spawn(m, s) PROVE PromptsInv'
  BY <1>9, <1>0, PromptsKept DEF Inject, Spawn, Arrives, memory
<1>10. ASSUME NEW s \in Session, CompactionStep(s) PROVE PromptsInv'
  BY <1>10, PromptsKept DEF CompactionStep, CompactionSkips, CompactionRolls, tables
<1>11. ASSUME NEW s \in Session, DeleteSession(s) PROVE PromptsInv'
  BY <1>11, <1>0 DEF DeleteSession
<1>12. ASSUME Restart PROVE PromptsInv'
  BY <1>12, PromptsKept DEF Restart, tables
<1>13. CASE UNCHANGED vars
  BY <1>13, PromptsKept DEF vars, tables, memory
<1>14. QED
  BY <1>2, <1>3, <1>5, <1>6, <1>7, <1>8, <1>9, <1>10, <1>11, <1>12, <1>13
  DEF Next, TaskStep

\* When every caller uses send(), nothing is rolled or deleted and no message
\* arrives inside a set-up, the transcript alternates: each response block directly
\* follows the user row it answers, through injections, retries, errors and restarts.
THEOREM SerialConversation == Spec => []SerialRepliesFollowPrompt
<1>1. Init => LoopInv /\ SerialInv /\ PromptsInv
  BY DEF Init, LoopInv, Phases, ActiveIsLive, StrandedOnlyByFailure, Driving, Started, SerialInv,
     SettingUp, Loops, PromptsInv
<1>2. TypeOK /\ Sited /\ LoopInv /\ [Next]_vars => LoopInv'
  BY PhasesStep, ActiveStep, StrandedStep DEF LoopInv
<1>3. TypeOK /\ Sited /\ LoopInv /\ SerialInv /\ [Next]_vars => SerialInv'
  <2>1. CASE Serial
    BY <2>1, SerialStep DEF LoopInv
  <2>2. CASE ~Serial
    BY <2>2 DEF SerialInv, Serial
  <2>3. QED
    BY <2>1, <2>2
<1>4. TypeOK /\ Sited /\ LoopInv /\ SerialInv /\ PromptsInv /\ [Next]_vars => PromptsInv'
  <2>1. CASE Orderly
    BY <2>1, PromptsStep DEF LoopInv
  <2>2. CASE ~Orderly
    BY <2>2 DEF PromptsInv, Orderly, Serial
  <2>3. QED
    BY <2>1, <2>2
<1>5. PromptsInv => SerialRepliesFollowPrompt
  BY DEF PromptsInv, Orderly, SerialRepliesFollowPrompt
<1>6. QED
  BY <1>1, <1>2, <1>3, <1>4, <1>5, TypeCorrect, PTL DEF Spec

-----------------------------------------------------------------------------
(* Inputs on their way into the conversation.                              *)

InInbox(m, s, i) == i \in DOMAIN pending[s] /\ pending[s][i] = m
InRow(m, s, n, i) ==
    n \in DOMAIN rows[s] /\ i \in DOMAIN rows[s][n].carries /\ rows[s][n].carries[i] = m
Holds(m, s, n, i) == (n = 0 /\ InInbox(m, s, i)) \/ InRow(m, s, n, i)

\* A message before its first turn is nowhere; one that was kept is in one place,
\* and a queued one is somewhere as long as nothing is deleted.
KeptInv ==
    /\ \A m \in Msg, s, t \in Session : \A n, k, i, j \in Nat :
           Holds(m, s, n, i) /\ Holds(m, t, k, j) => s = t /\ n = k /\ i = j
    /\ \A m \in Msg, s \in Session : \A n, i \in Nat :
           Holds(m, s, n, i) => at[m] \notin {"new", "awaiting", "resuming", "files"}
    /\ Deletable = {} => \A m \in Msg : at[m] = "queued" => \E s \in Session : \E n, i \in Nat : Holds(m, s, n, i)

\* The places of m are where it is held.
LEMMA PlacesAreHeld ==
    ASSUME TypeOK, NEW m \in Msg
    PROVE  /\ \A p \in Places(m) : \E s \in Session : \E n, i \in Nat : p = <<s, n, i>> /\ Holds(m, s, n, i)
           /\ \A s \in Session : \A n, i \in Nat : Holds(m, s, n, i) => <<s, n, i>> \in Places(m)
<1>1. \A s \in Session : pending[s] \in Seq(Msg) /\ rows[s] \in Seq(Row)
  BY DEF TypeOK
<1>2. \A s \in Session : \A i \in DOMAIN pending[s] : i \in Nat
  BY <1>1
<1>3. ASSUME NEW s \in Session, NEW n \in DOMAIN rows[s], NEW i \in DOMAIN rows[s][n].carries
      PROVE  n \in Nat /\ i \in Nat
  <2>1. rows[s][n].carries \in Seq(Msg)
    BY <1>1, RowFields
  <2>2. QED
    BY <1>1, <2>1
<1>4. ASSUME NEW p \in Places(m)
      PROVE  \E s \in Session : \E n, i \in Nat : p = <<s, n, i>> /\ Holds(m, s, n, i)
  <2>1. PICK s \in Session :
           \/ \E i \in DOMAIN pending[s] : p = <<s, 0, i>> /\ pending[s][i] = m
           \/ \E n \in DOMAIN rows[s] : \E i \in DOMAIN rows[s][n].carries :
                 p = <<s, n, i>> /\ rows[s][n].carries[i] = m
    BY DEF Places
  <2>2. QED
    BY <2>1, <1>2, <1>3 DEF Holds, InInbox, InRow
<1>5. ASSUME NEW s \in Session, NEW n \in Nat, NEW i \in Nat, Holds(m, s, n, i)
      PROVE  <<s, n, i>> \in Places(m)
  BY <1>5 DEF Places, Holds, InInbox, InRow
<1>6. QED
  BY <1>4, <1>5

LEMMA KeptIsOnce == TypeOK /\ KeptInv => InputKeptOnce
<1> SUFFICES ASSUME TypeOK, KeptInv, NEW m \in Msg
             PROVE  /\ Cardinality(Places(m)) <= 1
                    /\ at[m] = "queued" /\ Deletable = {} => Places(m) # {}
  BY DEF InputKeptOnce
<1>1. \A p, q \in Places(m) : p = q
  <2> SUFFICES ASSUME NEW p \in Places(m), NEW q \in Places(m) PROVE p = q
    OBVIOUS
  <2>1. PICK s \in Session, n \in Nat, i \in Nat : p = <<s, n, i>> /\ Holds(m, s, n, i)
    BY PlacesAreHeld
  <2>2. PICK t \in Session, k \in Nat, j \in Nat : q = <<t, k, j>> /\ Holds(m, t, k, j)
    BY PlacesAreHeld
  <2>3. QED
    BY <2>1, <2>2 DEF KeptInv
<1>2. Cardinality(Places(m)) <= 1
  <2>1. CASE Places(m) = {}
    BY <2>1, FS_EmptySet
  <2>2. CASE Places(m) # {}
    <3>1. PICK p : Places(m) = {p}
      BY <1>1, <2>2
    <3>2. QED
      BY <3>1, FS_Singleton
  <2>3. QED
    BY <2>1, <2>2
<1>3. at[m] = "queued" /\ Deletable = {} => Places(m) # {}
  BY PlacesAreHeld DEF KeptInv
<1>4. QED
  BY <1>2, <1>3

\* Nothing is put anywhere.
LEMMA HoldsSame ==
    ASSUME KeptInv,
           \A m \in Msg, s \in Session : \A n, i \in Nat : Holds(m, s, n, i)' <=> Holds(m, s, n, i),
           \A m \in Msg : /\ at'[m] \in {"new", "awaiting", "resuming", "files"} =>
                                 at[m] \in {"new", "awaiting", "resuming", "files"}
                          /\ at'[m] = "queued" => at[m] = "queued"
    PROVE  KeptInv'
<1> DEFINE Nowhere == {"new", "awaiting", "resuming", "files"}
<1>1. \A m \in Msg, s, t \in Session : \A n, k, i, j \in Nat :
           Holds(m, s, n, i)' /\ Holds(m, t, k, j)' => s = t /\ n = k /\ i = j
  BY DEF KeptInv
<1>2. \A m \in Msg, s \in Session : \A n, i \in Nat : Holds(m, s, n, i)' => at'[m] \notin Nowhere
  BY DEF KeptInv
<1>3. Deletable = {} => \A m \in Msg : at'[m] = "queued" => \E s \in Session : \E n, i \in Nat : Holds(m, s, n, i)'
  BY DEF KeptInv
<1>4. QED
  BY <1>1, <1>2, <1>3 DEF KeptInv

\* Message m is put in one more place.
PutAt(m, r, l, p) ==
    \A x \in Msg, s \in Session : \A n, i \in Nat :
        Holds(x, s, n, i)' <=> Holds(x, s, n, i) \/ (x = m /\ s = r /\ n = l /\ i = p)

\* A message that was nowhere may be put in one.
LEMMA HoldsOneMore ==
    ASSUME KeptInv, NEW m \in Msg, NEW r \in Session, NEW l \in Nat, NEW p \in Nat,
           at[m] \in {"new", "awaiting", "resuming", "files"}, PutAt(m, r, l, p),
           \A x \in Msg \ {m} : at'[x] = at[x],
           at'[m] \notin {"new", "awaiting", "resuming", "files"}
    PROVE  KeptInv'
<1> USE DEF PutAt
<1> DEFINE Nowhere == {"new", "awaiting", "resuming", "files"}
<1>0. \A s \in Session : \A n, i \in Nat : ~Holds(m, s, n, i)
  BY DEF KeptInv
<1>1. \A x \in Msg, s, t \in Session : \A n, k, i, j \in Nat :
           Holds(x, s, n, i)' /\ Holds(x, t, k, j)' => s = t /\ n = k /\ i = j
  BY <1>0 DEF KeptInv
<1>2. \A x \in Msg, s \in Session : \A n, i \in Nat : Holds(x, s, n, i)' => at'[x] \notin Nowhere
  BY <1>0 DEF KeptInv
<1>3. Deletable = {} => \A x \in Msg : at'[x] = "queued" => \E s \in Session : \E n, i \in Nat : Holds(x, s, n, i)'
  <2> SUFFICES ASSUME Deletable = {}, NEW x \in Msg, at'[x] = "queued"
               PROVE  \E s \in Session : \E n, i \in Nat : Holds(x, s, n, i)'
    OBVIOUS
  <2>1. CASE x = m
    BY <2>1
  <2>2. CASE x # m
    BY <2>2 DEF KeptInv
  <2>3. QED
    BY <2>1, <2>2
<1>4. QED
  BY <1>1, <1>2, <1>3 DEF KeptInv

\* What rows written at the end of a session hold.
LEMMA WritesHolds ==
    ASSUME TypeOK, NEW s \in Session, NEW q \in Seq(Row), Writes(s, q),
           NEW m \in Msg, NEW t \in Session, NEW n, NEW i
    PROVE  InRow(m, t, n, i)' <=>
              \/ InRow(m, t, n, i)
              \/ t = s /\ \E k \in 1..Len(q) : /\ n = Len(rows[s]) + k
                                               /\ i \in DOMAIN q[k].carries /\ q[k].carries[i] = m
<1>1. /\ \A r \in Session \ {s} : rows'[r] = rows[r]
      /\ DOMAIN rows'[s] = 1..(Len(rows[s]) + Len(q)) /\ Len(rows[s]) \in Nat /\ Len(q) \in Nat
      /\ \A r \in Session : DOMAIN rows[r] = 1..Len(rows[r]) /\ Len(rows[r]) \in Nat
      /\ \A r \in Session : \A j \in DOMAIN rows[r] :
             /\ j \in DOMAIN rows'[r] /\ rows'[r][j] = rows[r][j]
             /\ rows[r][j] \in Row /\ rows[r][j].by \in Msg
      /\ \A j \in 1..Len(q) : rows'[s][Len(rows[s]) + j] = q[j]
      /\ \A r \in Session : \A j \in DOMAIN rows'[r] :
             j \in DOMAIN rows[r] \/ (r = s /\ \E k \in 1..Len(q) : j = Len(rows[s]) + k /\ rows'[s][j] = q[k])
  BY WritesRows
<1>2. ASSUME NEW k \in 1..Len(q), n = Len(rows[s]) + k
      PROVE  n \in DOMAIN rows'[s] /\ rows'[s][n] = q[k]
  BY <1>1, <1>2
<1>3. InRow(m, t, n, i) => InRow(m, t, n, i)'
  BY <1>1 DEF InRow
<1>4. ASSUME t = s, NEW k \in 1..Len(q), n = Len(rows[s]) + k, i \in DOMAIN q[k].carries, q[k].carries[i] = m
      PROVE  InRow(m, t, n, i)'
  BY <1>2, <1>4 DEF InRow
<1>5. ASSUME InRow(m, t, n, i)'
      PROVE  \/ InRow(m, t, n, i)
             \/ t = s /\ \E k \in 1..Len(q) : /\ n = Len(rows[s]) + k
                                              /\ i \in DOMAIN q[k].carries /\ q[k].carries[i] = m
  <2>1. n \in DOMAIN rows'[t]
    BY <1>5 DEF InRow
  <2>2. CASE n \in DOMAIN rows[t]
    BY <2>2, <1>1, <1>5 DEF InRow
  <2>3. CASE n \notin DOMAIN rows[t]
    <3>1. PICK k \in 1..Len(q) : n = Len(rows[s]) + k /\ rows'[s][n] = q[k] /\ t = s
      BY <2>1, <2>3, <1>1
    <3>2. i \in DOMAIN q[k].carries /\ q[k].carries[i] = m
      BY <3>1, <1>5 DEF InRow
    <3>3. QED
      BY <3>1, <3>2
  <2>4. QED
    BY <2>2, <2>3
<1>6. QED
  BY <1>3, <1>4, <1>5

LEMMA KeptStep ==
    TypeOK /\ Sited /\ Phases /\ InboxQueued /\ KeptInv /\ [Next]_vars => KeptInv'
<1> SUFFICES ASSUME TypeOK, Sited, Phases, InboxQueued, KeptInv, [Next]_vars PROVE KeptInv'
  OBVIOUS
<1>0. /\ at \in [Msg -> Where] /\ pending \in [Session -> Seq(Msg)] /\ rows \in [Session -> Seq(Row)]
      /\ sid \in [Msg -> Session \cup {None}] /\ Root \subseteq Session
  BY DEF TypeOK, Session
\* Nothing moves.
<1>s. ASSUME pending' = pending, rows' = rows,
             \A m \in Msg : /\ at'[m] \in {"new", "awaiting", "resuming", "files"} =>
                                   at[m] \in {"new", "awaiting", "resuming", "files"}
                            /\ at'[m] = "queued" => at[m] = "queued"
      PROVE  KeptInv'
  <2>1. \A m \in Msg, s \in Session : \A n, i \in Nat : Holds(m, s, n, i)' <=> Holds(m, s, n, i)
    BY <1>s DEF Holds, InInbox, InRow
  <2>2. QED
    BY <2>1, <1>s, HoldsSame
\* A message registers: its row carries it.
<1>r. ASSUME NEW m \in Msg, NEW s \in Session, Register(m, s), at[m] \in {"resuming", "files"}, pending' = pending
      PROVE  KeptInv'
  <2>1. CASE rows' = rows /\ at' = [at EXCEPT ![m] = "rejected"]
    BY <2>1, <1>0, <1>r, <1>s
  <2>2. CASE Writes(s, <<UserRow(m, <<m>>)>>) /\ at' = [at EXCEPT ![m] = "turn"]
    <3> DEFINE q == <<UserRow(m, <<m>>)>>
    <3>1. <<m>> \in Seq(Msg)
      OBVIOUS
    <3>2. UserRow(m, <<m>>) \in Row
      BY <3>1, RowsAreRows
    <3>3. q \in Seq(Row) /\ Len(q) = 1 /\ q[1].carries = <<m>>
      BY <3>2 DEF UserRow
    <3>4. Writes(s, q)
      BY <2>2
    <3> HIDE DEF q
    <3>5. Len(rows[s]) + 1 \in Nat
      BY <1>0
    <3>6. ASSUME NEW x \in Msg, NEW t \in Session, NEW n \in Nat, NEW i \in Nat
          PROVE  Holds(x, t, n, i)' <=> Holds(x, t, n, i) \/ (x = m /\ t = s /\ n = Len(rows[s]) + 1 /\ i = 1)
      <4>1. InRow(x, t, n, i)' <=>
               \/ InRow(x, t, n, i)
               \/ t = s /\ \E k \in 1..Len(q) : /\ n = Len(rows[s]) + k
                                                /\ i \in DOMAIN q[k].carries /\ q[k].carries[i] = x
        BY <3>3, <3>4, WritesHolds
      <4>2. (\E k \in 1..Len(q) : /\ n = Len(rows[s]) + k
                                  /\ i \in DOMAIN q[k].carries /\ q[k].carries[i] = x)
            <=> n = Len(rows[s]) + 1 /\ i = 1 /\ x = m
        BY <3>3
      <4>3. InInbox(x, t, i)' <=> InInbox(x, t, i)
        BY <1>r DEF InInbox
      <4>4. QED
        BY <4>1, <4>2, <4>3 DEF Holds
    <3>7. /\ \A x \in Msg \ {m} : at'[x] = at[x]
          /\ at'[m] \notin {"new", "awaiting", "resuming", "files"}
          /\ at[m] \in {"new", "awaiting", "resuming", "files"}
      BY <2>2, <1>0, <1>r
    <3>8. 1 \in Nat /\ PutAt(m, s, Len(rows[s]) + 1, 1)
      BY <3>6 DEF PutAt
    <3>9. QED
      BY <3>5, <3>7, <3>8, HoldsOneMore
  <2>3. QED
    BY <1>r, <2>1, <2>2, RegisterWrites
\* Rows that carry nothing are written.
<1>w. ASSUME NEW s \in Session, NEW q \in Seq(Row), Writes(s, q), pending' = pending,
             \A k \in 1..Len(q) : q[k].carries = <<>>,
             \A m \in Msg : /\ at'[m] \in {"new", "awaiting", "resuming", "files"} =>
                                   at[m] \in {"new", "awaiting", "resuming", "files"}
                            /\ at'[m] = "queued" => at[m] = "queued"
      PROVE  KeptInv'
  <2>1. ASSUME NEW x \in Msg, NEW t \in Session, NEW n \in Nat, NEW i \in Nat
        PROVE  Holds(x, t, n, i)' <=> Holds(x, t, n, i)
    <3>1. InRow(x, t, n, i)' <=>
             \/ InRow(x, t, n, i)
             \/ t = s /\ \E k \in 1..Len(q) : /\ n = Len(rows[s]) + k
                                              /\ i \in DOMAIN q[k].carries /\ q[k].carries[i] = x
      BY <1>w, WritesHolds
    <3>2. \A k \in 1..Len(q) : DOMAIN q[k].carries = {}
      BY <1>w
    <3>3. InInbox(x, t, i)' <=> InInbox(x, t, i)
      BY <1>w DEF InInbox
    <3>4. QED
      BY <3>1, <3>2, <3>3 DEF Holds
  <2>2. QED
    BY <2>1, <1>w, HoldsSame
\* A message is queued: it is the last of its inbox.
<1>i. ASSUME NEW m \in Msg, NEW s \in Session, at[m] = "new", rows' = rows,
             pending' = [pending EXCEPT ![s] = Append(pending[s], m)], at' = [at EXCEPT ![m] = "queued"]
      PROVE  KeptInv'
  <2>2. ASSUME NEW x \in Msg, NEW t \in Session, NEW n \in Nat, NEW i \in Nat
        PROVE  Holds(x, t, n, i)' <=> Holds(x, t, n, i) \/ (x = m /\ t = s /\ n = 0 /\ i = Len(pending[s]) + 1)
    <3>1. InRow(x, t, n, i)' <=> InRow(x, t, n, i)
      BY <1>i DEF InRow
    <3>2. pending[s] \in Seq(Msg) /\ pending[t] \in Seq(Msg) /\ Len(pending[s]) \in Nat
      BY <1>0, <1>i
    <3>3. t # s => pending'[t] = pending[t]
      BY <1>0, <1>i
    <3>4. pending'[s] = Append(pending[s], m)
      BY <1>0, <1>i
    <3>5. /\ DOMAIN Append(pending[s], m) = 1..(Len(pending[s]) + 1)
          /\ Append(pending[s], m)[Len(pending[s]) + 1] = m
          /\ \A j \in 1..Len(pending[s]) : Append(pending[s], m)[j] = pending[s][j]
          /\ DOMAIN pending[s] = 1..Len(pending[s])
      BY <3>2
    <3>6. InInbox(x, t, i)' <=> InInbox(x, t, i) \/ (x = m /\ t = s /\ i = Len(pending[s]) + 1)
      <4>1. CASE t # s
        BY <4>1, <3>3 DEF InInbox
      <4>2. CASE t = s
        <5>1. i \in 1..(Len(pending[s]) + 1) <=> i \in 1..Len(pending[s]) \/ i = Len(pending[s]) + 1
          BY <3>2
        <5>2. Len(pending[s]) + 1 \notin 1..Len(pending[s])
          BY <3>2
        <5>3. QED
          BY <4>2, <5>1, <5>2, <3>4, <3>5 DEF InInbox
      <4>3. QED
        BY <4>1, <4>2
    <3>7. QED
      BY <3>1, <3>6 DEF Holds
  <2>3. Len(pending[s]) + 1 \in Nat /\ 0 \in Nat
    BY <1>0, <1>i
  <2>4. /\ \A x \in Msg \ {m} : at'[x] = at[x]
        /\ at'[m] \notin {"new", "awaiting", "resuming", "files"}
        /\ at[m] \in {"new", "awaiting", "resuming", "files"}
    BY <1>i, <1>0
  <2>5. PutAt(m, s, 0, Len(pending[s]) + 1)
    BY <2>2 DEF PutAt
  <2>6. QED
    BY <2>3, <2>4, <2>5, HoldsOneMore
<1>1. ASSUME NEW m \in Msg, NEW s \in Root, Inject(m, s) PROVE KeptInv'
  <2>1. /\ at[m] = "new" /\ rows' = rows /\ s \in Session
        /\ pending' = [pending EXCEPT ![s] = Append(pending[s], m)] /\ at' = [at EXCEPT ![m] = "queued"]
    BY <1>1, <1>0 DEF Inject, Arrives
  <2>2. QED
    BY <2>1, <1>i
<1>2. ASSUME NEW m \in Msg, NEW s \in Root, Spawn(m, s) PROVE KeptInv'
  BY <1>2, <1>0, <1>s DEF Spawn, Arrives, memory
<1>3. ASSUME NEW m \in Msg, AfterCompaction(m) PROVE KeptInv'
  <2>1. latest[sid[m]] \in Session /\ at[m] = "resuming" /\ pending' = pending
    BY <1>3 DEF AfterCompaction, Sited, Started, TypeOK
  <2>2. CASE Register(m, latest[sid[m]])
    BY <2>1, <2>2, <1>r
  <2>3. CASE at' = [at EXCEPT ![m] = "files"] /\ rows' = rows
    BY <2>1, <2>3, <1>0, <1>s
  <2>4. QED
    BY <1>3, <2>2, <2>3 DEF AfterCompaction
<1>4. ASSUME NEW m \in Msg, AfterAttachments(m) PROVE KeptInv'
  <2>1. /\ Register(m, sid[m]) /\ at[m] = "files" /\ sid[m] \in Session /\ pending' = pending
    BY <1>4 DEF AfterAttachments, Sited, Started
  <2>2. QED
    BY <2>1, <1>r
<1>5. ASSUME NEW m \in Msg, TurnReportsError(m) \/ TurnThrows(m) \/ Abort(m) PROVE KeptInv'
  BY <1>5, <1>0, <1>s DEF TurnReportsError, TurnThrows, Finally, Abort, tables
<1>6. ASSUME NEW m \in Msg, TurnLacksText(m) PROVE KeptInv'
  <2>1. SummariseRow(m) \in Row
    BY RowsAreRows, <<>> \in Seq(Msg)
  <2>2. <<SummariseRow(m)>> \in Seq(Row)
    BY <2>1
  <2>3. sid[m] \in Session /\ at[m] = "turn"
    BY <1>6, <2>2, PersistWrites DEF TurnLacksText
  <2>4. PICK b \in {<<>>, <<ReplyRow(m)>>} :
           b \o <<SummariseRow(m)>> \in Seq(Row) /\ Writes(sid[m], b \o <<SummariseRow(m)>>)
    BY <1>6, <2>2, PersistWrites DEF TurnLacksText
  <2>5. PICK q : q = b \o <<SummariseRow(m)>>
    OBVIOUS
  <2>6. q[Len(q)] = SummariseRow(m) /\ (Len(q) = 1 \/ (Len(q) = 2 /\ q[1] = ReplyRow(m)))
    BY <2>1, <2>5, BlockThenRow
  <2>7. \A k \in 1..Len(q) : q[k].carries = <<>>
    BY <2>6 DEF ReplyRow, SummariseRow
  <2>8. \A n \in Msg : at'[n] = at[n] \/ (n = m /\ at'[n] \in Driving)
    BY <1>6, <2>3, NextTurnTypes DEF TurnLacksText
  <2>9. q \in Seq(Row) /\ Writes(sid[m], q)
    BY <2>4, <2>5
  <2>10. QED
    BY <1>6, <2>3, <2>7, <2>8, <2>9, <1>w DEF TurnLacksText, Driving
<1>7. ASSUME NEW m \in Msg, TurnCompletes(m) PROVE KeptInv'
  <2>0. <<>> \in Seq(Row) /\ Persist(m, <<>>)
    BY <1>7 DEF TurnCompletes
  <2>1. sid[m] \in Session /\ at[m] = "turn"
    BY <2>0, PersistWrites
  <2>2. PICK b \in {<<>>, <<ReplyRow(m)>>} : b \o <<>> \in Seq(Row) /\ Writes(sid[m], b \o <<>>)
    BY <2>0, PersistWrites
  <2>3. PICK q : q = b \o <<>>
    OBVIOUS
  <2>4. \A k \in 1..Len(q) : q[k].carries = <<>>
    BY <2>3, BlockAlone DEF ReplyRow
  <2>5. at' = [at EXCEPT ![m] = "done"] /\ pending' = pending
    BY <1>7 DEF TurnCompletes, Finally
  <2>6. q \in Seq(Row) /\ Writes(sid[m], q)
    BY <2>2, <2>3
  <2>7. QED
    BY <1>0, <2>1, <2>4, <2>5, <2>6, <1>w
<1>8. ASSUME NEW m \in Msg, TurnDrains(m) PROVE KeptInv'
  <2> DEFINE r == UserRow(m, pending[sid[m]])
  <2>s. PICK s : s = sid[m]
    OBVIOUS
  <2>1. s \in Session /\ pending[s] \in Seq(Msg) /\ pending' = [pending EXCEPT ![s] = <<>>]
    BY <2>s, <1>8, <1>0 DEF TurnDrains, Persist, Sited, Started, Driving
  <2>2. r \in Row
    BY <2>s, <2>1, RowsAreRows
  <2>3. <<r>> \in Seq(Row)
    BY <2>2
  <2>4. PICK b \in {<<>>, <<ReplyRow(m)>>} : b \o <<r>> \in Seq(Row) /\ Writes(s, b \o <<r>>)
    BY <2>s, <1>8, <2>3, PersistWrites DEF TurnDrains
  <2>c. PICK q : q = b \o <<r>>
    OBVIOUS
  <2>d. q \in Seq(Row) /\ Writes(s, q) /\ at[m] = "turn"
    BY <1>8, <2>3, <2>4, <2>c, PersistWrites DEF TurnDrains
  <2>5. q[Len(q)] = r /\ (Len(q) = 1 \/ (Len(q) = 2 /\ q[1] = ReplyRow(m)))
    BY <2>2, <2>c, BlockThenRow
  <2>6. /\ Len(q) = 2 => DOMAIN q[1].carries = {}
        /\ q[Len(q)].carries = pending[s]
    BY <2>s, <2>5 DEF ReplyRow, UserRow
  <2>7. \A n \in Msg : at'[n] = at[n] \/ (n = m /\ at'[n] \in Driving)
    BY <1>8, <2>d, NextTurnTypes DEF TurnDrains
  <2>l. PICK l : l = Len(rows[s]) + Len(q)
    OBVIOUS
  <2>8. l \in Nat /\ l # 0 /\ l \notin DOMAIN rows[s]
    <3>1. DOMAIN rows[s] = 1..Len(rows[s]) /\ Len(rows[s]) \in Nat
      BY <1>0, <2>1
    <3>2. Len(q) = 1 \/ Len(q) = 2
      BY <2>5
    <3>3. PICK n \in Nat : n = Len(rows[s])
      BY <3>1
    <3>4. l = n + 1 \/ l = n + 2
      BY <3>2, <3>3, <2>l
    <3>5. QED
      BY <3>1, <3>3, <3>4
  <2> HIDE DEF r
  \* What waited is in the last row, and what was elsewhere still is.
  <2>9. ASSUME NEW x \in Msg, NEW t \in Session, NEW n \in Nat, NEW i \in Nat
        PROVE  Holds(x, t, n, i)' <=> \/ t = s /\ n = l /\ Holds(x, s, 0, i)
                                      \/ ~(t = s /\ n = 0) /\ ~(t = s /\ n = l) /\ Holds(x, t, n, i)
    <3>1. InRow(x, t, n, i)' <=>
             \/ InRow(x, t, n, i)
             \/ t = s /\ \E k \in 1..Len(q) : /\ n = Len(rows[s]) + k
                                              /\ i \in DOMAIN q[k].carries /\ q[k].carries[i] = x
      BY <2>1, <2>d, WritesHolds
    <3>2. (\E k \in 1..Len(q) : /\ n = Len(rows[s]) + k
                                /\ i \in DOMAIN q[k].carries /\ q[k].carries[i] = x)
          <=> n = l /\ InInbox(x, s, i)
      <4>1. \A k \in 1..Len(q) : k = Len(q) \/ (k = 1 /\ Len(q) = 2)
        BY <2>5
      <4>2. Len(q) \in 1..Len(q)
        BY <2>5
      <4>3. QED
        BY <4>1, <4>2, <2>6, <2>l DEF InInbox
    <3>3. InInbox(x, t, i)' <=> t # s /\ InInbox(x, t, i)
      <4>1. t # s => pending'[t] = pending[t]
        BY <2>1, <1>0
      <4>2. pending'[s] = <<>>
        BY <2>1, <1>0
      <4>3. QED
        BY <4>1, <4>2 DEF InInbox
    <3>4. \A y \in Session : ~InRow(x, y, 0, i)
      <4>1. \A y \in Session : DOMAIN rows[y] = 1..Len(rows[y]) /\ Len(rows[y]) \in Nat
        BY <1>0
      <4>2. QED
        BY <4>1 DEF InRow
    <3>5. ~InRow(x, s, l, i)
      BY <2>8 DEF InRow
    <3>6. QED
      BY <3>1, <3>2, <3>3, <3>4, <3>5, <2>1, <2>8 DEF Holds
  <2> DEFINE Nowhere == {"new", "awaiting", "resuming", "files"}
  <2>10. \A x \in Msg, t, u \in Session : \A n, k, i, j \in Nat :
             Holds(x, t, n, i)' /\ Holds(x, u, k, j)' => t = u /\ n = k /\ i = j
    <3> SUFFICES ASSUME NEW x \in Msg, NEW t \in Session, NEW u \in Session,
                        NEW n \in Nat, NEW k \in Nat, NEW i \in Nat, NEW j \in Nat,
                        Holds(x, t, n, i)', Holds(x, u, k, j)'
                 PROVE  t = u /\ n = k /\ i = j
      OBVIOUS
    <3>0. 0 \in Nat /\ s \in Session
      BY <2>1
    <3>1. CASE t = s /\ n = l /\ Holds(x, s, 0, i)
      <4>1. CASE u = s /\ k = l /\ Holds(x, s, 0, j)
        BY <3>0, <3>1, <4>1 DEF KeptInv
      <4>2. CASE ~(u = s /\ k = 0) /\ Holds(x, u, k, j)
        BY <3>0, <3>1, <4>2 DEF KeptInv
      <4>3. QED
        BY <4>1, <4>2, <2>9
    <3>2. CASE ~(t = s /\ n = 0) /\ Holds(x, t, n, i)
      <4>1. CASE u = s /\ k = l /\ Holds(x, s, 0, j)
        BY <3>0, <3>2, <4>1 DEF KeptInv
      <4>2. CASE ~(u = s /\ k = 0) /\ Holds(x, u, k, j)
        BY <3>2, <4>2 DEF KeptInv
      <4>3. QED
        BY <4>1, <4>2, <2>9
    <3>3. QED
      BY <3>1, <3>2, <2>9
  <2>11. \A x \in Msg, t \in Session : \A n, i \in Nat : Holds(x, t, n, i)' => at'[x] \notin Nowhere
    <3> SUFFICES ASSUME NEW x \in Msg, NEW t \in Session, NEW n \in Nat, NEW i \in Nat, Holds(x, t, n, i)'
                 PROVE  at'[x] \notin Nowhere
      OBVIOUS
    <3>1. Holds(x, s, 0, i) \/ Holds(x, t, n, i)
      BY <2>9
    <3>2. at[x] \notin Nowhere
      BY <3>1, <2>1 DEF KeptInv
    <3>3. QED
      BY <3>2, <2>7 DEF Driving
  <2>12. Deletable = {} => \A x \in Msg : at'[x] = "queued" => \E t \in Session : \E n, i \in Nat : Holds(x, t, n, i)'
    <3> SUFFICES ASSUME Deletable = {}, NEW x \in Msg, at'[x] = "queued"
                 PROVE  \E t \in Session : \E n, i \in Nat : Holds(x, t, n, i)'
      OBVIOUS
    <3>1. at[x] = "queued"
      BY <2>7 DEF Driving
    <3>2. PICK t \in Session, n \in Nat, i \in Nat : Holds(x, t, n, i)
      BY <3>1 DEF KeptInv
    <3>3. CASE t = s /\ n = 0
      BY <3>2, <3>3, <2>8, <2>9
    <3>4. CASE t = s /\ n = l
      <4>1. ~Holds(x, s, l, i)
        BY <2>8 DEF Holds, InRow
      <4>2. QED
        BY <4>1, <3>2, <3>4
    <3>5. QED
      BY <3>2, <3>3, <3>4, <2>9
  <2>13. QED
    BY <2>10, <2>11, <2>12 DEF KeptInv
<1>9. ASSUME NEW s \in Session, CompactionStep(s) PROVE KeptInv'
  BY <1>9, <1>0, <1>s DEF CompactionStep, CompactionSkips, CompactionRolls, Wake, tables
\* What is deleted, and what a crash takes from an inbox, is not put anywhere.
<1>d. ASSUME \A x \in Msg, t \in Session : \A n, i \in Nat : Holds(x, t, n, i)' => Holds(x, t, n, i),
             \A x \in Msg : at'[x] \in {at[x], "lost"},
             Deletable = {} => \A x \in Msg : at'[x] = "queued" =>
                 \E t \in Session : \E n, i \in Nat : Holds(x, t, n, i)'
      PROVE  KeptInv'
  <2>1. \A x \in Msg, t, u \in Session : \A n, k, i, j \in Nat :
             Holds(x, t, n, i)' /\ Holds(x, u, k, j)' => t = u /\ n = k /\ i = j
    BY <1>d DEF KeptInv
  <2>2. \A x \in Msg, t \in Session : \A n, i \in Nat :
             Holds(x, t, n, i)' => at'[x] \notin {"new", "awaiting", "resuming", "files"}
    <3> SUFFICES ASSUME NEW x \in Msg, NEW t \in Session, NEW n \in Nat, NEW i \in Nat, Holds(x, t, n, i)'
                 PROVE  at'[x] \notin {"new", "awaiting", "resuming", "files"}
      OBVIOUS
    <3>1. at[x] \notin {"new", "awaiting", "resuming", "files"}
      BY <1>d DEF KeptInv
    <3>2. QED
      BY <3>1, <1>d
  <2>3. QED
    BY <2>1, <2>2, <1>d DEF KeptInv
<1>10. ASSUME NEW s \in Session, DeleteSession(s) PROVE KeptInv'
  <2>1. /\ pending' = pending /\ at' = at /\ Deletable # {}
        /\ rows'[s] = <<>> /\ \A t \in Session \ {s} : rows'[t] = rows[t]
    BY <1>10, <1>0 DEF DeleteSession, memory
  <2>2. \A x \in Msg, t \in Session : \A n, i \in Nat : Holds(x, t, n, i)' => Holds(x, t, n, i)
    BY <2>1 DEF Holds, InInbox, InRow
  <2>3. QED
    BY <2>1, <2>2, <1>d
<1>11. ASSUME Restart PROVE KeptInv'
  <2>1. /\ rows' = rows /\ \A t \in Session : pending'[t] = <<>>
        /\ \A x \in Msg : at'[x] \in {at[x], "lost"}
    BY <1>11, <1>0 DEF Restart, tables
  <2>2. \A x \in Msg, t \in Session : \A n, i \in Nat : Holds(x, t, n, i)' <=> InRow(x, t, n, i)
    BY <2>1 DEF Holds, InInbox, InRow
  <2>3. Deletable = {} => \A x \in Msg : at'[x] = "queued" =>
            \E t \in Session : \E n, i \in Nat : Holds(x, t, n, i)'
    <3> SUFFICES ASSUME Deletable = {}, NEW x \in Msg, at'[x] = "queued"
                 PROVE  \E t \in Session : \E n, i \in Nat : Holds(x, t, n, i)'
      OBVIOUS
    <3>1. at[x] = "queued"
      BY <2>1
    <3>2. PICK t \in Session, n \in Nat, i \in Nat : Holds(x, t, n, i)
      BY <3>1 DEF KeptInv
    <3>3. ~InInbox(x, t, i)
      BY <1>11, <1>0 DEF Restart, InInbox
    <3>4. QED
      BY <3>2, <3>3, <2>2 DEF Holds
  <2>4. QED
    BY <2>1, <2>2, <2>3, <1>d DEF Holds
<1>12. CASE UNCHANGED vars
  BY <1>12, <1>s DEF vars, tables, memory
<1>13. QED
  BY <1>1, <1>2, <1>3, <1>4, <1>5, <1>6, <1>7, <1>8, <1>9, <1>10, <1>11, <1>12
  DEF Next, TaskStep

\* An injected input sits in one inbox or in one row, never in two and never twice,
\* whichever loop drains it; and unless its session may be deleted it does not
\* vanish: a restart loses exactly the inputs still waiting in an inbox.
THEOREM InputsAreKept == Spec => []InputKeptOnce
<1>1. Init => Phases /\ InboxQueued /\ KeptInv
  BY DEF Init, Phases, Started, Driving, InboxQueued, KeptInv, Holds, InInbox, InRow
<1>2. QED
  BY <1>1, KeptStep, KeptIsOnce, PhasesStep, InboxStep, TypeCorrect, PTL DEF Spec
=============================================================================
