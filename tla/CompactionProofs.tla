-------------------------- MODULE CompactionProofs --------------------------
(***************************************************************************)
(* Theorems about Compaction for any number of sessions, tasks, messages   *)
(* and restarts: what the manager promises the run loop (RollOver), and    *)
(* that rolling a session over leaves it as it was, tells the conversation *)
(* in its order and, written to by nobody meanwhile, loses nothing of it.  *)
(***************************************************************************)
EXTENDS Compaction, FiniteSetTheorems, TLAPS

\* Loops, compactions and the map speak of sessions that exist, and an id that
\* is not a session's yet has no rows.
Housed ==
    /\ Root \subseteq sessions
    /\ \A t \in Task : at[t] \in {"waiting", "resuming"} => root[t] \in Root
    /\ \A t \in Task : Working(t) => sid[t] \in sessions
    /\ pending \subseteq sessions
    /\ \A s \in Session : latest[s] = s \/ (s \in sessions /\ latest[s] \in sessions)
    /\ \A s \in Session \ sessions : rows[s] = <<>>

Rows == Seq(Row)

\* The two ways a task goes on from where it resumed: it waits for its files,
\* or writes its message to s and begins.
Looks(t) ==
    /\ at[t] = "resuming" /\ at' = [at EXCEPT ![t] = "files"]
    /\ sid' = [sid EXCEPT ![t] = latest[root[t]]]
    /\ UNCHANGED <<sessions, rows, said, root, pending, snapshot, savings, latest, torn, crashes>>

Opens(t, s) ==
    /\ (at[t] = "files" /\ s = sid[t]) \/ (at[t] = "resuming" /\ s = latest[root[t]])
    /\ said < MaxSaid /\ said' = said + 1
    /\ rows' = [rows EXCEPT ![s] = Append(rows[s], Verbatim(said + 1))]
    /\ sid' = [sid EXCEPT ![t] = s]
    /\ at' = [at EXCEPT ![t] = "turn"]
    /\ UNCHANGED <<sessions, root, pending, snapshot, savings, latest, torn, crashes>>

LEMMA Openings ==
    ASSUME TypeOK, Housed, NEW t \in Task, Resumes(t) \/ AfterAttachments(t)
    PROVE  Looks(t) \/ \E s \in sessions : Opens(t, s)
<1>1. CASE AfterAttachments(t)
  <2>1. sid[t] \in sessions /\ sid' = [sid EXCEPT ![t] = sid[t]]
    BY <1>1 DEF AfterAttachments, Housed, Working, TypeOK
  <2>2. Opens(t, sid[t])
    BY <1>1, <2>1 DEF AfterAttachments, Begins, Opens, manager
  <2>3. QED
    BY <2>1, <2>2
<1>2. CASE Resumes(t)
  <2>1. latest[root[t]] \in sessions
    BY <1>2, CompactionAssumption DEF Resumes, Housed, Session
  <2>2. CASE Begins(t, Current(root[t]))
    <3>1. Opens(t, latest[root[t]])
      BY <1>2, <2>2 DEF Resumes, Begins, Current, Opens, manager
    <3>2. QED
      BY <2>1, <3>1
  <2>3. CASE at' = [at EXCEPT ![t] = "files"] /\ UNCHANGED <<said, rows>>
    BY <1>2, <2>3 DEF Resumes, Current, Looks, manager
  <2>4. QED
    BY <1>2, <2>2, <2>3 DEF Resumes
<1>3. QED
  BY <1>1, <1>2

-----------------------------------------------------------------------------
LEMMA VerbatimIsRow == ASSUME NEW m \in Message PROVE Verbatim(m) \in Row
  BY DEF Verbatim, Row

\* The numbers Init gives to the messages of the roots' histories.
LEMMA HistoriesNumbered ==
    ASSUME NEW n \in 0..Cardinality(Root) - 1, NEW i \in 1..History
    PROVE  /\ n * History + i \in Message
           /\ n * History + i <= History * Cardinality(Root)
<1>1. Cardinality(Root) \in Nat /\ History \in Nat /\ MaxSaid \in Nat
      /\ History * Cardinality(Root) <= MaxSaid
  BY FS_CardinalityType, CompactionAssumption
<1>2. ASSUME NEW c \in Nat, NEW h \in Nat, NEW k \in 0..c - 1, NEW j \in 1..h
      PROVE  k * h + j \in Nat /\ k * h + j >= 1 /\ k * h + j <= h * c
  <2>1. PICK d \in Nat : c = k + 1 + d
    <3>1. c - k - 1 \in Nat /\ c = k + 1 + (c - k - 1)
      OBVIOUS
    <3>2. QED
      BY <3>1
  <2>2. h * c = k * h + h + h * d /\ h * d \in Nat /\ k * h \in Nat
    BY <2>1
  <2>3. QED
    BY <2>2
<1>3. n * History + i \in Nat /\ n * History + i >= 1 /\ n * History + i <= History * Cardinality(Root)
  BY <1>1, <1>2
<1>4. History * Cardinality(Root) \in Nat
  BY <1>1
<1>5. QED
  BY <1>1, <1>3, <1>4 DEF Message

\* Cutting a sequence of rows gives sequences of rows, and so does putting the
\* cut together again around a summary.
LEMMA CutTypes ==
    ASSUME NEW rs \in Rows, Len(rs) >= ProtectHead + 4,
           NEW k \in 2..Len(rs) - ProtectHead - 1
    PROVE  Cut(rs, k) \in Snapshot
<1>1. ProtectHead \in Nat /\ Len(rs) \in Nat
  BY CompactionAssumption DEF Rows
<1>2. ASSUME NEW a \in Nat, NEW b \in Nat, 1 <= a, b <= Len(rs)
      PROVE  SubSeq(rs, a, b) \in Seq(Row)
  BY <1>2 DEF Rows
<1>3. /\ SubSeq(rs, 1, ProtectHead) \in Seq(Row)
      /\ SubSeq(rs, ProtectHead + 1, Len(rs) - k) \in Seq(Row)
      /\ SubSeq(rs, Len(rs) - k + 1, Len(rs)) \in Seq(Row)
  BY <1>1, <1>2
<1>4. QED
  BY <1>3 DEF Cut, Snapshot

LEMMA ChildRowsTypes ==
    ASSUME NEW cut \in Snapshot
    PROVE  ChildRows(cut) \in Rows
<1>1. cut.head \in Seq(Row) /\ cut.middle \in Seq(Row) /\ cut.tail \in Seq(Row)
  BY DEF Snapshot
<1>2. UNION {cut.middle[i].of : i \in DOMAIN cut.middle} \in SUBSET Message
  <2>1. \A i \in DOMAIN cut.middle : cut.middle[i] \in Row
    BY <1>1
  <2>2. \A i \in DOMAIN cut.middle : cut.middle[i].of \subseteq Message
    BY <2>1 DEF Row
  <2>3. QED
    BY <2>2
<1>3. [kind |-> "summary", of |-> UNION {cut.middle[i].of : i \in DOMAIN cut.middle}] \in Row
  BY <1>2 DEF Row
<1>4. QED
  BY <1>1, <1>3 DEF ChildRows, Rows

-----------------------------------------------------------------------------
LEMMA CompactsTypes ==
    ASSUME TypeOK, NEW s \in Session, NEW rs \in Rows, MayCompact(s, rs)
    PROVE  pending' \subseteq Session /\ snapshot' \in [Session -> Snapshot]
<1>1. CASE UNCHANGED <<pending, snapshot>>
  BY <1>1 DEF TypeOK
<1>2. CASE Compacts(s, rs)
  <2>1. PICK k \in 2..Len(rs) - ProtectHead - 1 : snapshot' = [snapshot EXCEPT ![s] = Cut(rs, k)]
    BY <1>2 DEF Compacts
  <2>2. Cut(rs, k) \in Snapshot
    BY <1>2, CutTypes DEF Compacts
  <2>3. pending' = pending \cup {s}
    BY <1>2 DEF Compacts
  <2>4. QED
    BY <2>1, <2>2, <2>3 DEF TypeOK
<1>3. QED
  BY <1>1, <1>2 DEF MayCompact

\* Every variable keeps its type, and everything that names a session names one
\* that exists.
THEOREM TypeCorrect == Spec => [](TypeOK /\ Housed)
<1> USE CompactionAssumption
<1> Root \subseteq Session /\ Child \subseteq Session /\ Root \cap Child = {}
  BY DEF Session
<1> DEFINE Where == {"new", "waiting", "resuming", "files", "turn", "over"}
<1>1. Init => TypeOK /\ Housed
  <2> SUFFICES ASSUME Init PROVE TypeOK /\ Housed
    OBVIOUS
  <2>1. PICK number \in [Root -> 0..Cardinality(Root) - 1] :
            rows = [s \in Session |->
                       IF s \in Root
                       THEN [i \in 1..History |-> Verbatim(number[s] * History + i)]
                       ELSE <<>>]
    BY DEF Init
  <2>2. ASSUME NEW s \in Root
        PROVE  [i \in 1..History |-> Verbatim(number[s] * History + i)] \in Seq(Row)
    <3>1. \A i \in 1..History : Verbatim(number[s] * History + i) \in Row
      BY HistoriesNumbered, VerbatimIsRow
    <3>2. QED
      BY <3>1
  <2>3. rows \in [Session -> Seq(Row)]
    BY <2>1, <2>2
  <2>4. History * Cardinality(Root) \in 0..MaxSaid
    BY FS_CardinalityType
  <2>5. Nothing \in Snapshot
    BY DEF Nothing, Snapshot
  <2>6. TypeOK
    BY <2>3, <2>4, <2>5 DEF Init, TypeOK, Working
  <2>7. Housed
    BY <2>1 DEF Init, Housed, Working
  <2>8. QED
    BY <2>6, <2>7
<1>2. TypeOK /\ Housed /\ [Next]_vars => (TypeOK /\ Housed)'
  <2> SUFFICES ASSUME TypeOK, Housed, [Next]_vars PROVE TypeOK' /\ Housed'
    OBVIOUS
  <2>1. ASSUME NEW t \in Task, NEW r \in Root, Arrives(t, r) PROVE TypeOK' /\ Housed'
    <3>1. PICK w \in {"waiting", "resuming"} : at' = [at EXCEPT ![t] = w]
      BY <2>1 DEF Arrives
    <3>2. root' = [root EXCEPT ![t] = r]
          /\ UNCHANGED <<sessions, rows, said, sid, pending, snapshot, savings, latest, torn, crashes>>
      BY <2>1 DEF Arrives, manager
    <3>3. TypeOK'
      BY <3>1, <3>2 DEF TypeOK, Working
    <3>4. Housed'
      BY <3>1, <3>2 DEF Housed, TypeOK, Working
    <3>5. QED
      BY <3>3, <3>4
  <2>2. ASSUME NEW t \in Task, Resumes(t) \/ AfterAttachments(t) PROVE TypeOK' /\ Housed'
    <3>1. CASE Looks(t)
      <4>1. latest[root[t]] \in sessions /\ latest[root[t]] \in Session
        BY <3>1 DEF Looks, Housed, TypeOK
      <4>2. TypeOK'
        BY <3>1, <4>1 DEF Looks, TypeOK, Working
      <4>3. Housed'
        BY <3>1, <4>1 DEF Looks, Housed, TypeOK, Working
      <4>4. QED
        BY <4>2, <4>3
    <3>2. ASSUME NEW s \in sessions, Opens(t, s) PROVE TypeOK' /\ Housed'
      <4>1. s \in Session
        BY DEF TypeOK
      <4>2. Append(rows[s], Verbatim(said + 1)) \in Seq(Row) /\ said' \in 0..MaxSaid
        <5>1. said + 1 \in Message /\ said' \in 0..MaxSaid
          BY <3>2 DEF Opens, TypeOK, Message
        <5>2. rows[s] \in Seq(Row)
          BY <4>1 DEF TypeOK
        <5>3. QED
          BY <5>1, <5>2, VerbatimIsRow
      <4>3. rows' \in [Session -> Seq(Row)]
        BY <3>2, <4>1, <4>2 DEF Opens, TypeOK
      <4>4. TypeOK'
        BY <3>2, <4>1, <4>2, <4>3 DEF Opens, TypeOK, Working
      <4>5. \A x \in Session \ sessions' : rows'[x] = <<>>
        BY <3>2, <4>1 DEF Opens, Housed, TypeOK
      <4>6. Housed'
        BY <3>2, <4>1, <4>5 DEF Opens, Housed, TypeOK, Working
      <4>7. QED
        BY <4>4, <4>6
    <3>3. QED
      BY <2>2, <3>1, <3>2, Openings
  <2>3. ASSUME NEW t \in Task, TurnEnds(t) PROVE TypeOK' /\ Housed'
    <3> DEFINE s == sid[t]
               reply == Append(rows[s], Verbatim(said + 1))
    <3>1. at[t] = "turn" /\ s \in sessions /\ s \in Session
      BY <2>3 DEF TurnEnds, Housed, TypeOK, Working
    <3>2. said + 1 \in Message /\ said \in Nat
      BY <2>3 DEF TurnEnds, TypeOK, Message
    <3>3. reply \in Seq(Row)
      BY <3>1, <3>2, VerbatimIsRow DEF TypeOK
    <3>4. MayCompact(s, reply) /\ UNCHANGED <<sessions, root, sid, savings, latest, torn, crashes>>
      BY <2>3 DEF TurnEnds
    <3>5. PICK new \in Seq(Row) :
              /\ rows' = [rows EXCEPT ![s] = new]
              /\ said' \in 0..MaxSaid
              /\ at' = [at EXCEPT ![t] = "over"] \/ at' = at
      <4>1. CASE said + 2 <= MaxSaid /\ said' = said + 2 /\ at' = at
                 /\ rows' = [rows EXCEPT ![s] = Append(reply, Verbatim(said + 2))]
        <5>1. said + 2 \in Message /\ said' \in 0..MaxSaid
          BY <3>2, <4>1, CompactionAssumption DEF Message
        <5>2. Append(reply, Verbatim(said + 2)) \in Seq(Row)
          BY <3>3, <5>1, VerbatimIsRow
        <5>3. QED
          BY <4>1, <5>1, <5>2
      <4>2. CASE said + 1 <= MaxSaid /\ said' = said + 1 /\ at' = [at EXCEPT ![t] = "over"]
                 /\ rows' = [rows EXCEPT ![s] = reply]
        <5>1. said' \in 0..MaxSaid
          BY <3>2, <4>2, CompactionAssumption
        <5>2. QED
          BY <3>3, <4>2, <5>1
      <4>3. QED
        BY <2>3, <4>1, <4>2 DEF TurnEnds
    <3> HIDE DEF s, reply
    <3>6. pending' \subseteq Session /\ snapshot' \in [Session -> Snapshot]
      BY <3>1, <3>3, <3>4, CompactsTypes DEF Rows
    <3>7. pending' \subseteq sessions
      BY <3>1, <3>4 DEF MayCompact, Compacts, Housed
    <3>8. TypeOK'
      BY <3>1, <3>4, <3>5, <3>6 DEF TypeOK, Working
    <3>9. Housed'
      BY <3>1, <3>4, <3>5, <3>7 DEF Housed, TypeOK, Working
    <3>10. QED
      BY <3>8, <3>9
  <2>4. ASSUME NEW t \in Task, TurnFails(t) PROVE TypeOK' /\ Housed'
    BY <2>4 DEF TurnFails, manager, TypeOK, Housed, Working
  <2>5. ASSUME NEW s \in Session, NEW c \in Child, NEW saving \in {"low", "high"},
               RollsOver(s, c, saving)
        PROVE  TypeOK' /\ Housed'
    <3>1. /\ s \in pending /\ c \notin sessions /\ c \in Session
          /\ sessions' = sessions \cup {c}
          /\ rows' = [rows EXCEPT ![c] = ChildRows(snapshot[s])]
          /\ savings' = [savings EXCEPT ![s] = Append(savings[s], saving)]
          /\ latest' = [latest EXCEPT ![s] = c]
          /\ torn' = torn \/ torn' = torn \cup {s}
          /\ pending' = pending \ {s}
          /\ snapshot' = [snapshot EXCEPT ![s] = Nothing]
          /\ UNCHANGED <<said, root, sid, crashes>>
      BY <2>5 DEF RollsOver
    <3>2. at' = [t \in Task |-> IF at[t] = "waiting" /\ root[t] = s THEN "resuming" ELSE at[t]]
      BY <2>5 DEF RollsOver, Wake
    <3>3. ChildRows(snapshot[s]) \in Seq(Row) /\ Nothing \in Snapshot
      BY ChildRowsTypes DEF TypeOK, Rows, Nothing, Snapshot
    <3>4. Append(savings[s], saving) \in Seq({"low", "high"})
      BY DEF TypeOK
    <3>5. rows' \in [Session -> Seq(Row)] /\ savings' \in [Session -> Seq({"low", "high"})]
          /\ snapshot' \in [Session -> Snapshot] /\ latest' \in [Session -> Session]
      BY <3>1, <3>3, <3>4 DEF TypeOK
    <3>6. /\ at' \in [Task -> Where]
          /\ \A t \in Task : Working(t)' => Working(t)
          /\ \A t \in Task : at'[t] \in {"waiting", "resuming"} => at[t] \in {"waiting", "resuming"}
      BY <3>2 DEF TypeOK, Working
    <3>7. TypeOK'
      BY <3>1, <3>5, <3>6 DEF TypeOK
    <3>8. s \in sessions /\ c \in sessions' /\ sessions \subseteq sessions'
      BY <3>1 DEF Housed
    <3>9. \A x \in Session : latest'[x] = x \/ (x \in sessions' /\ latest'[x] \in sessions')
      BY <3>1, <3>8 DEF Housed, TypeOK
    <3>10. \A x \in Session \ sessions' : rows'[x] = <<>>
      BY <3>1 DEF Housed, TypeOK
    <3>11. \A t \in Task : at'[t] \in {"waiting", "resuming"} => root'[t] \in Root
      BY <3>1, <3>6 DEF Housed
    <3>12. \A t \in Task : Working(t)' => sid'[t] \in sessions'
      BY <3>1, <3>6, <3>8 DEF Housed
    <3>13. Housed'
      BY <3>1, <3>8, <3>9, <3>10, <3>11, <3>12 DEF Housed
    <3>14. QED
      BY <3>7, <3>13
  <2>6. CASE Restart
    <3>1. /\ crashes < MaxCrashes /\ crashes' = crashes + 1
          /\ at' = [t \in Task |-> IF at[t] = "new" THEN "new" ELSE "over"]
          /\ pending' = {} /\ snapshot' = [s \in Session |-> Nothing]
          /\ savings' = [s \in Session |-> <<>>] /\ latest' = [s \in Session |-> s]
          /\ UNCHANGED <<sessions, rows, said, root, sid, torn>>
      BY <2>6 DEF Restart
    <3>2. crashes' \in 0..MaxCrashes /\ Nothing \in Snapshot /\ <<>> \in Seq({"low", "high"})
      BY <3>1 DEF TypeOK, Nothing, Snapshot
    <3>3. TypeOK'
      BY <3>1, <3>2 DEF TypeOK, Working
    <3>4. Housed'
      BY <3>1 DEF Housed, Working
    <3>5. QED
      BY <3>3, <3>4
  <2>7. CASE UNCHANGED vars
    BY <2>7 DEF vars, loops, manager, TypeOK, Housed, Working
  <2>8. QED
    BY <2>1, <2>2, <2>3, <2>4, <2>5, <2>6, <2>7 DEF Next
<1>3. QED
  BY <1>1, <1>2, PTL DEF Spec

-----------------------------------------------------------------------------
\* CompactionManager implements RollOver: one compaction of a session at a time,
\* rolled over to a child nobody has used, and nothing else moves the session a
\* conversation continues in.
THEOREM ImplementsRollOver == Spec => KeepsPromise
<1> DEFINE Step == (\E s \in Session : Promise!Starts(s) \/ Promise!Settles(s)) \/ Promise!Forgets
           Same == UNCHANGED <<pending, latest>>
<1>1. Init => pending = {} /\ latest = [s \in Session |-> s]
  BY DEF Init
<1>2. TypeOK /\ Housed /\ [Next]_vars => Step \/ Same
  <2> SUFFICES ASSUME TypeOK, Housed, [Next]_vars PROVE Step \/ Same
    OBVIOUS
  <2>1. ASSUME NEW t \in Task, NEW r \in Root, Arrives(t, r) PROVE Same
    BY <2>1 DEF Arrives, manager
  <2>2. ASSUME NEW t \in Task, Resumes(t) \/ AfterAttachments(t) PROVE Same
    BY <2>2 DEF Resumes, AfterAttachments, manager
  <2>3. ASSUME NEW t \in Task, TurnFails(t) PROVE Same
    BY <2>3 DEF TurnFails, manager
  <2>4. ASSUME NEW t \in Task, TurnEnds(t) PROVE Step \/ Same
    <3>1. sid[t] \in Session /\ UNCHANGED latest
          /\ MayCompact(sid[t], Append(rows[sid[t]], Verbatim(said + 1)))
      BY <2>4 DEF TurnEnds, TypeOK, Working
    <3>2. CASE Compacts(sid[t], Append(rows[sid[t]], Verbatim(said + 1)))
      <4>1. Promise!Starts(sid[t])
        BY <3>1, <3>2 DEF Compacts, Promise!Starts
      <4>2. QED
        BY <3>1, <4>1
    <3>3. CASE UNCHANGED <<pending, snapshot>>
      BY <3>1, <3>3
    <3>4. QED
      BY <3>1, <3>2, <3>3 DEF MayCompact
  <2>5. ASSUME NEW s \in Session, NEW c \in Child, NEW saving \in {"low", "high"},
               RollsOver(s, c, saving)
        PROVE  Step
    <3>1. /\ s \in pending /\ c \in Session \ sessions
          /\ sessions' = sessions \cup {c} /\ pending' = pending \ {s}
          /\ latest' = [latest EXCEPT ![s] = c]
      BY <2>5 DEF RollsOver, Session
    <3>2. latest[c] = c
      BY <3>1 DEF Housed
    <3>3. Promise!Settles(s)
      BY <3>1, <3>2 DEF Promise!Settles
    <3>4. QED
      BY <3>3
  <2>6. CASE Restart
    BY <2>6 DEF Restart, Promise!Forgets
  <2>7. CASE UNCHANGED vars
    BY <2>7 DEF vars, manager
  <2>8. QED
    BY <2>1, <2>2, <2>3, <2>4, <2>5, <2>6, <2>7 DEF Next
<1>3. QED
  BY <1>1, <1>2, TypeCorrect, PTL DEF Spec, KeepsPromise, Promise!Spec

-----------------------------------------------------------------------------
Extends(old, new) ==
    /\ Len(old) <= Len(new)
    /\ \A i \in DOMAIN old : new[i] = old[i]

LEMMA AppendExtends ==
    ASSUME NEW rs \in Seq(Row), NEW a \in Row, NEW b \in Row
    PROVE  /\ Extends(rs, rs)
           /\ Extends(rs, Append(rs, a))
           /\ Extends(rs, Append(Append(rs, a), b))
<1>1. Append(rs, a) \in Seq(Row) /\ Len(Append(rs, a)) = Len(rs) + 1 /\ Len(rs) \in Nat
      /\ DOMAIN rs = 1..Len(rs) /\ \A i \in 1..Len(rs) : Append(rs, a)[i] = rs[i]
  OBVIOUS
<1>2. Len(Append(Append(rs, a), b)) = Len(rs) + 2
      /\ \A i \in 1..Len(rs) : Append(Append(rs, a), b)[i] = rs[i]
  BY <1>1
<1>3. QED
  BY <1>1, <1>2 DEF Extends

\* The original session stays intact: no step of a loop, a compaction or a
\* restart changes or removes a row.
THEOREM OriginalsStayIntact == Spec => OriginalIntact
<1> DEFINE Grows == \A s \in Session :
                       /\ Len(rows[s]) <= Len(rows[s]')
                       /\ \A i \in DOMAIN rows[s] : rows[s]'[i] = rows[s][i]
<1>1. TypeOK /\ Housed /\ [Next]_vars => Grows
  <2> SUFFICES ASSUME TypeOK, Housed, [Next]_vars,
                      NEW x \in Session
               PROVE  Extends(rows[x], rows'[x])
    BY DEF Extends
  <2>1. rows \in [Session -> Seq(Row)] /\ rows[x] \in Seq(Row) /\ said \in Nat
    BY DEF TypeOK
  <2>2. Extends(rows[x], rows[x])
    BY <2>1 DEF Extends
  <2>3. ASSUME NEW t \in Task, Resumes(t) \/ AfterAttachments(t) PROVE Extends(rows[x], rows'[x])
    <3>1. CASE Looks(t)
      BY <2>2, <3>1 DEF Looks
    <3>2. ASSUME NEW s \in sessions, Opens(t, s) PROVE Extends(rows[x], rows'[x])
      <4>1. said + 1 \in Message
        BY <2>1, <3>2, CompactionAssumption DEF Opens, Message
      <4>2. rows'[x] = rows[x] \/ rows'[x] = Append(rows[x], Verbatim(said + 1))
        BY <2>1, <3>2 DEF Opens
      <4>3. QED
        BY <2>1, <2>2, <4>1, <4>2, VerbatimIsRow, AppendExtends
    <3>3. QED
      BY <2>3, <3>1, <3>2, Openings
  <2>4. ASSUME NEW t \in Task, TurnEnds(t) PROVE Extends(rows[x], rows'[x])
    <3> DEFINE reply == Append(rows[x], Verbatim(said + 1))
    <3>1. CASE rows'[x] = reply
      <4>1. said + 1 \in Message
        BY <2>1, <2>4, CompactionAssumption DEF TurnEnds, Message
      <4>2. QED
        BY <2>1, <3>1, <4>1, VerbatimIsRow, AppendExtends
    <3>2. CASE rows'[x] = Append(reply, Verbatim(said + 2)) /\ said + 2 <= MaxSaid
      <4>1. said + 1 \in Message /\ said + 2 \in Message
        BY <2>1, <3>2, CompactionAssumption DEF Message
      <4>2. QED
        BY <2>1, <3>2, <4>1, VerbatimIsRow, AppendExtends
    <3>3. CASE rows'[x] = rows[x]
      BY <2>2, <3>3
    <3>4. QED
      BY <2>1, <2>4, <3>1, <3>2, <3>3 DEF TurnEnds
  <2>5. ASSUME NEW s \in Session, NEW c \in Child, NEW saving \in {"low", "high"},
               RollsOver(s, c, saving)
        PROVE  Extends(rows[x], rows'[x])
    <3>1. CASE x = c
      <4>1. rows[x] = <<>> /\ rows'[x] = ChildRows(snapshot[s]) /\ snapshot[s] \in Snapshot
        BY <2>1, <2>5, <3>1 DEF RollsOver, Housed, Session, TypeOK
      <4>2. Len(rows'[x]) \in Nat
        BY <4>1, ChildRowsTypes DEF Rows
      <4>3. QED
        BY <4>1, <4>2 DEF Extends
    <3>2. CASE x # c
      BY <2>1, <2>2, <2>5, <3>2 DEF RollsOver
    <3>3. QED
      BY <3>1, <3>2
  <2>6. ASSUME UNCHANGED rows PROVE Extends(rows[x], rows'[x])
    BY <2>2, <2>6
  <2>7. /\ \A t \in Task, r \in Root : Arrives(t, r) => UNCHANGED rows
        /\ \A t \in Task : TurnFails(t) => UNCHANGED rows
        /\ Restart => UNCHANGED rows
        /\ UNCHANGED vars => UNCHANGED rows
    BY DEF Arrives, TurnFails, Restart, vars
  <2>8. QED
    BY <2>3, <2>4, <2>5, <2>6, <2>7 DEF Next
<1>2. QED
  BY <1>1, TypeCorrect, PTL DEF Spec, OriginalIntact
-----------------------------------------------------------------------------
\* A session that is being compacted was not given up.
Worthwhile == \A s \in pending : ~Thrashing(s)

\* No three passes in a row over a session save little.
THEOREM LowSavingsEnd == Spec => []ThrashingStops
<1> DEFINE Inv == Worthwhile /\ ThrashingStops
<1>1. Init => Inv
  BY DEF Init, Worthwhile, ThrashingStops
<1>2. TypeOK /\ Inv /\ [Next]_vars => Inv'
  <2> SUFFICES ASSUME TypeOK, Inv, [Next]_vars PROVE Inv'
    OBVIOUS
  <2>1. ASSUME UNCHANGED savings, \A s \in pending' : s \in pending \/ ~Thrashing(s) PROVE Inv'
    BY <2>1 DEF Worthwhile, Thrashing, ThrashingStops
  <2>2. ASSUME NEW t \in Task, NEW r \in Root, Arrives(t, r) PROVE Inv'
    BY <2>1, <2>2 DEF Arrives, manager
  <2>3. ASSUME NEW t \in Task, Resumes(t) \/ AfterAttachments(t) \/ TurnFails(t) PROVE Inv'
    BY <2>1, <2>3 DEF Resumes, AfterAttachments, TurnFails, manager
  <2>4. ASSUME NEW t \in Task, TurnEnds(t) PROVE Inv'
    BY <2>1, <2>4 DEF TurnEnds, MayCompact, Compacts
  <2>5. ASSUME NEW s \in Session, NEW c \in Child, NEW saving \in {"low", "high"},
               RollsOver(s, c, saving)
        PROVE  Inv'
    <3> DEFINE old == savings[s]
               new == savings'[s]
    <3>1. s \in pending /\ pending' = pending \ {s}
          /\ new = Append(old, saving) /\ \A x \in Session \ {s} : savings'[x] = savings[x]
      BY <2>5 DEF RollsOver, TypeOK
    <3>2. Worthwhile'
      BY <3>1 DEF Worthwhile, Thrashing, TypeOK
    <3>3. /\ Len(old) \in Nat /\ Len(new) = Len(old) + 1
          /\ \A i \in 1..Len(old) : new[i] = old[i] /\ old[i] \in {"low", "high"}
      BY <3>1 DEF TypeOK
    <3>4. ~(Len(old) >= 2 /\ old[Len(old)] = "low" /\ old[Len(old) - 1] = "low")
      BY <3>1 DEF Worthwhile, Thrashing
    <3>5. ASSUME NEW i \in 3..Len(new) PROVE \E j \in i - 2 .. i : new[j] = "high"
      <4>1. CASE i \in 3..Len(old)
        <5>1. PICK j \in i - 2 .. i : old[j] = "high"
          BY <4>1 DEF ThrashingStops
        <5>2. j \in 1..Len(old)
          BY <3>3, <4>1
        <5>3. QED
          BY <3>3, <5>1, <5>2
      <4>2. CASE i = Len(old) + 1
        <5>1. Len(old) >= 2
          BY <3>3, <4>2
        <5>2. /\ Len(old) \in 1..Len(old) /\ Len(old) - 1 \in 1..Len(old)
              /\ Len(old) \in i - 2 .. i /\ Len(old) - 1 \in i - 2 .. i
          BY <3>3, <4>2, <5>1
        <5>3. old[Len(old)] = "high" \/ old[Len(old) - 1] = "high"
          BY <3>3, <3>4, <5>1, <5>2
        <5>4. QED
          BY <3>3, <5>2, <5>3
      <4>3. QED
        BY <3>3, <4>1, <4>2
    <3> HIDE DEF old, new
    <3>6. ASSUME NEW x \in Session, NEW i \in 3..Len(savings'[x])
          PROVE  \E j \in i - 2 .. i : savings'[x][j] = "high"
      <4>1. CASE x = s
        BY <3>5, <4>1 DEF new
      <4>2. CASE x # s
        BY <3>1, <4>2 DEF ThrashingStops
      <4>3. QED
        BY <4>1, <4>2
    <3>7. QED
      BY <3>2, <3>6 DEF ThrashingStops
  <2>6. CASE Restart
    <3>1. pending' = {} /\ \A x \in Session : Len(savings'[x]) = 0
      BY <2>6 DEF Restart
    <3>2. QED
      BY <3>1 DEF Worthwhile, ThrashingStops
  <2>7. CASE UNCHANGED vars
    BY <2>1, <2>7 DEF vars, manager
  <2>8. QED
    BY <2>2, <2>3, <2>4, <2>5, <2>6, <2>7 DEF Next
<1>3. Inv => ThrashingStops
  OBVIOUS
<1>4. QED
  BY <1>1, <1>2, <1>3, TypeCorrect, PTL DEF Spec
-----------------------------------------------------------------------------
\* The messages rows tell of, and rows that tell them in the order they were
\* said.
Told(rs) == UNION {rs[i].of : i \in DOMAIN rs}

Ordered(rs) ==
    \A i, j \in DOMAIN rs : i < j => \A m \in rs[i].of, n \in rs[j].of : m < n

Before(ms, ns) == \A m \in ms, n \in ns : m < n

Tells(rs, n) == Ordered(rs) /\ \A m \in Told(rs) : m <= n

\* A cut keeps the order of the rows it was made from.
CutTells(cut, n) ==
    /\ Tells(cut.head, n) /\ Tells(cut.tail, n) /\ \A m \in Told(cut.middle) : m <= n
    /\ Before(Told(cut.head), Told(cut.middle))
    /\ Before(Told(cut.head), Told(cut.tail))
    /\ Before(Told(cut.middle), Told(cut.tail))

InOrder == \A s \in Session : Tells(rows[s], said) /\ CutTells(snapshot[s], said)

LEMMA ToldConcat ==
    ASSUME NEW rs \in Seq(Row), NEW qs \in Seq(Row)
    PROVE  Told(rs \o qs) = Told(rs) \cup Told(qs)
<1> DEFINE all == rs \o qs
<1>1. /\ DOMAIN rs = 1..Len(rs) /\ DOMAIN qs = 1..Len(qs) /\ DOMAIN all = 1..Len(rs) + Len(qs)
      /\ Len(rs) \in Nat /\ Len(qs) \in Nat
      /\ \A i \in 1..Len(rs) : all[i] = rs[i]
      /\ \A i \in 1..Len(qs) : all[Len(rs) + i] = qs[i]
  OBVIOUS
<1> HIDE DEF all
<1>2. ASSUME NEW m \in Told(all) PROVE m \in Told(rs) \cup Told(qs)
  <2>1. PICK i \in DOMAIN all : m \in all[i].of
    BY DEF Told
  <2>2. CASE i \in 1..Len(rs)
    BY <1>1, <2>1, <2>2 DEF Told
  <2>3. CASE i \notin 1..Len(rs)
    <3>1. i - Len(rs) \in 1..Len(qs) /\ i = Len(rs) + (i - Len(rs))
      BY <1>1, <2>3
    <3>2. m \in qs[i - Len(rs)].of
      BY <1>1, <2>1, <3>1
    <3>3. QED
      BY <1>1, <3>1, <3>2 DEF Told
  <2>4. QED
    BY <2>2, <2>3
<1>3. ASSUME NEW m \in Told(rs) PROVE m \in Told(all)
  <2>1. PICK i \in DOMAIN rs : m \in rs[i].of
    BY DEF Told
  <2>2. i \in DOMAIN all /\ all[i] = rs[i]
    BY <1>1
  <2>3. QED
    BY <2>1, <2>2 DEF Told
<1>4. ASSUME NEW m \in Told(qs) PROVE m \in Told(all)
  <2>1. PICK i \in DOMAIN qs : m \in qs[i].of
    BY DEF Told
  <2>2. Len(rs) + i \in DOMAIN all /\ all[Len(rs) + i] = qs[i]
    BY <1>1
  <2>3. QED
    BY <2>1, <2>2 DEF Told
<1>5. QED
  BY <1>2, <1>3, <1>4 DEF all

LEMMA OrderedConcat ==
    ASSUME NEW rs \in Seq(Row), NEW qs \in Seq(Row),
           Ordered(rs), Ordered(qs), Before(Told(rs), Told(qs))
    PROVE  Ordered(rs \o qs)
<1> DEFINE all == rs \o qs
<1>1. /\ DOMAIN rs = 1..Len(rs) /\ DOMAIN qs = 1..Len(qs) /\ DOMAIN all = 1..Len(rs) + Len(qs)
      /\ Len(rs) \in Nat /\ Len(qs) \in Nat
      /\ \A i \in 1..Len(rs) : all[i] = rs[i]
      /\ \A i \in 1..Len(qs) : all[Len(rs) + i] = qs[i]
  OBVIOUS
<1> HIDE DEF all
<1>2. SUFFICES ASSUME NEW i \in DOMAIN all, NEW j \in DOMAIN all, i < j,
                      NEW m \in all[i].of, NEW n \in all[j].of
               PROVE  m < n
  BY DEF Ordered, all
<1>3. ASSUME NEW k \in DOMAIN all, k \notin 1..Len(rs)
      PROVE  k - Len(rs) \in DOMAIN qs /\ all[k] = qs[k - Len(rs)]
  <2>1. k - Len(rs) \in 1..Len(qs) /\ k = Len(rs) + (k - Len(rs))
    BY <1>1, <1>3
  <2>2. QED
    BY <1>1, <2>1
<1>4. CASE j \in 1..Len(rs)
  <2>1. i \in DOMAIN rs /\ j \in DOMAIN rs /\ all[i] = rs[i] /\ all[j] = rs[j]
    BY <1>1, <1>2, <1>4
  <2>2. QED
    BY <1>2, <2>1 DEF Ordered
<1>5. CASE i \notin 1..Len(rs)
  <2>1. j \notin 1..Len(rs)
    BY <1>1, <1>2, <1>5
  <2>2. /\ i - Len(rs) \in DOMAIN qs /\ all[i] = qs[i - Len(rs)]
        /\ j - Len(rs) \in DOMAIN qs /\ all[j] = qs[j - Len(rs)]
    BY <1>3, <1>5, <2>1
  <2>3. i - Len(rs) < j - Len(rs)
    BY <1>1, <1>2
  <2>4. QED
    BY <1>2, <2>2, <2>3 DEF Ordered
<1>6. CASE i \in 1..Len(rs) /\ j \notin 1..Len(rs)
  <2>1. m \in Told(rs)
    BY <1>1, <1>2, <1>6 DEF Told
  <2>2. n \in Told(qs)
    BY <1>2, <1>3, <1>6 DEF Told
  <2>3. QED
    BY <2>1, <2>2 DEF Before
<1>7. QED
  BY <1>4, <1>5, <1>6

LEMMA TellsOne ==
    ASSUME NEW row \in Row
    PROVE  <<row>> \in Seq(Row) /\ Told(<<row>>) = row.of /\ Ordered(<<row>>)
<1>1. DOMAIN <<row>> = {1} /\ <<row>>[1] = row
  OBVIOUS
<1>2. QED
  BY <1>1 DEF Told, Ordered

\* The next message comes last.
LEMMA TellsNext ==
    ASSUME NEW rs \in Seq(Row), NEW n \in Nat, Tells(rs, n), n + 1 \in Message
    PROVE  Tells(Append(rs, Verbatim(n + 1)), n + 1)
<1> DEFINE row == Verbatim(n + 1)
<1>1. row \in Row /\ row.of = {n + 1}
  BY VerbatimIsRow DEF Verbatim
<1>2. Append(rs, row) = rs \o <<row>>
  BY <1>1
<1>3. Told(rs) \subseteq Message
  <2>1. \A i \in DOMAIN rs : rs[i] \in Row
    OBVIOUS
  <2>2. QED
    BY <2>1 DEF Told, Row
<1>4. ASSUME NEW m \in Told(rs) PROVE m < n + 1 /\ m <= n + 1
  <2>1. m \in Nat /\ m <= n
    BY <1>3 DEF Message, Tells
  <2>2. QED
    BY <2>1
<1>5. Before(Told(rs), {n + 1})
  BY <1>4 DEF Before
<1>6. Ordered(rs \o <<row>>) /\ Told(rs \o <<row>>) = Told(rs) \cup {n + 1}
  BY <1>1, <1>5, TellsOne, OrderedConcat, ToldConcat DEF Tells
<1> HIDE DEF row
<1>7. \A m \in Told(rs) \cup {n + 1} : m <= n + 1
  BY <1>4
<1>8. QED
  BY <1>2, <1>6, <1>7 DEF Tells, row

\* Cutting rows in three keeps the order between the parts.
LEMMA CutKeepsOrder ==
    ASSUME NEW rs \in Seq(Row), NEW n \in Nat, Tells(rs, n),
           Len(rs) >= ProtectHead + 4, NEW k \in 2..Len(rs) - ProtectHead - 1
    PROVE  CutTells(Cut(rs, k), n)
<1> DEFINE cut == Cut(rs, k)
           h == ProtectHead
           l == Len(rs)
<1>1. h \in Nat /\ l \in Nat /\ DOMAIN rs = 1..l
  BY CompactionAssumption
<1>2. /\ cut.head = SubSeq(rs, 1, h) /\ cut.middle = SubSeq(rs, h + 1, l - k)
      /\ cut.tail = SubSeq(rs, l - k + 1, l)
  BY DEF Cut
<1> HIDE DEF cut, h, l
<1> DEFINE Part(a, b) == SubSeq(rs, a, b)
<1>3. ASSUME NEW a \in Nat, NEW b \in Nat, 1 <= a, a <= b + 1, b <= l
      PROVE  /\ DOMAIN Part(a, b) = 1..b - a + 1
             /\ \A i \in 1..b - a + 1 : Part(a, b)[i] = rs[a + i - 1] /\ a + i - 1 \in a..b
  BY <1>1, <1>3 DEF l
<1> HIDE DEF Part
<1>4. ASSUME NEW a \in Nat, NEW b \in Nat, 1 <= a, a <= b + 1, b <= l
      PROVE  /\ \A m \in Told(Part(a, b)) : \E i \in a..b : m \in rs[i].of
             /\ Ordered(Part(a, b))
  <2>1. ASSUME NEW m \in Told(Part(a, b)) PROVE \E i \in a..b : m \in rs[i].of
    <3>1. PICK i \in 1..b - a + 1 : m \in Part(a, b)[i].of
      BY <1>3, <1>4 DEF Told
    <3>2. QED
      BY <1>3, <1>4, <3>1
  <2>2. Ordered(Part(a, b))
    <3>1. SUFFICES ASSUME NEW i \in 1..b - a + 1, NEW j \in 1..b - a + 1, i < j,
                          NEW m \in Part(a, b)[i].of, NEW x \in Part(a, b)[j].of
                   PROVE  m < x
      BY <1>3, <1>4 DEF Ordered
    <3>2. /\ a + i - 1 \in DOMAIN rs /\ a + j - 1 \in DOMAIN rs /\ a + i - 1 < a + j - 1
          /\ m \in rs[a + i - 1].of /\ x \in rs[a + j - 1].of
      <4>1. /\ a + i - 1 \in a..b /\ m \in rs[a + i - 1].of
            /\ a + j - 1 \in a..b /\ x \in rs[a + j - 1].of
        BY <1>3, <1>4, <3>1
      <4>2. \A p \in a..b : p \in 1..l
        BY <1>1, <1>4
      <4>3. a + i - 1 < a + j - 1
        BY <1>4, <3>1
      <4>4. QED
        BY <1>1, <4>1, <4>2, <4>3
    <3>3. QED
      BY <3>2 DEF Tells, Ordered
  <2>3. QED
    BY <2>1, <2>2
<1>5. ASSUME NEW a \in Nat, NEW b \in Nat, 1 <= a, a <= b + 1, b <= l,
             NEW m \in Told(Part(a, b))
      PROVE  m <= n
  <2>1. PICK i \in a..b : m \in rs[i].of
    BY <1>4, <1>5
  <2>2. i \in DOMAIN rs
    BY <1>1, <1>5
  <2>3. m \in Told(rs)
    BY <2>1, <2>2 DEF Told
  <2>4. QED
    BY <2>3 DEF Tells
<1>6. ASSUME NEW a \in Nat, NEW b \in Nat, NEW c \in Nat, NEW d \in Nat,
             1 <= a, a <= b + 1, b < c, c <= d + 1, d <= l, b <= l
      PROVE  Before(Told(Part(a, b)), Told(Part(c, d)))
  <2>1. SUFFICES ASSUME NEW m \in Told(Part(a, b)), NEW x \in Told(Part(c, d))
                 PROVE  m < x
    BY DEF Before
  <2>2. PICK i \in a..b : m \in rs[i].of
    BY <1>4, <1>6
  <2>3. PICK j \in c..d : x \in rs[j].of
    <3>1. 1 <= c
      BY <1>6
    <3>2. QED
      BY <1>4, <1>6, <3>1
  <2>4. i \in DOMAIN rs /\ j \in DOMAIN rs /\ i < j
    BY <1>1, <1>6
  <2>5. QED
    BY <2>2, <2>3, <2>4 DEF Tells, Ordered
<1>7. /\ k \in Nat /\ l - k \in Nat /\ h + 1 <= l - k /\ l - k < l
      /\ h + 1 \in Nat /\ l - k + 1 \in Nat /\ l - k + 1 <= l /\ h <= l
  BY <1>1 DEF h, l
<1>8. Ordered(Part(1, h)) /\ Ordered(Part(l - k + 1, l))
  BY <1>1, <1>4, <1>7
<1>9. /\ \A m \in Told(Part(1, h)) : m <= n
      /\ \A m \in Told(Part(h + 1, l - k)) : m <= n
      /\ \A m \in Told(Part(l - k + 1, l)) : m <= n
  BY <1>1, <1>5, <1>7
<1>10. /\ Before(Told(Part(1, h)), Told(Part(h + 1, l - k)))
       /\ Before(Told(Part(1, h)), Told(Part(l - k + 1, l)))
       /\ Before(Told(Part(h + 1, l - k)), Told(Part(l - k + 1, l)))
  BY <1>1, <1>6, <1>7
<1>11. QED
  BY <1>2, <1>8, <1>9, <1>10 DEF CutTells, Tells, cut, Part

\* The child's rows tell what the cut told, in its order.
LEMMA ChildRowsInOrder ==
    ASSUME NEW cut \in Snapshot, NEW n \in Nat, CutTells(cut, n)
    PROVE  Tells(ChildRows(cut), n)
<1> DEFINE note == [kind |-> "summary", of |-> UNION {cut.middle[i].of : i \in DOMAIN cut.middle}]
<1>1. cut.head \in Seq(Row) /\ cut.middle \in Seq(Row) /\ cut.tail \in Seq(Row)
  BY DEF Snapshot
<1>2. note.of = Told(cut.middle)
  BY DEF Told
<1>3. note \in Row
  <2>1. \A i \in DOMAIN cut.middle : cut.middle[i] \in Row
    BY <1>1
  <2>2. \A i \in DOMAIN cut.middle : cut.middle[i].of \subseteq Message
    BY <2>1 DEF Row
  <2>3. UNION {cut.middle[i].of : i \in DOMAIN cut.middle} \subseteq Message
    BY <2>2
  <2>4. QED
    BY <2>3 DEF Row
<1>4. ChildRows(cut) = (cut.head \o <<note>>) \o cut.tail
  BY DEF ChildRows
<1> HIDE DEF note
<1>5. <<note>> \in Seq(Row) /\ Told(<<note>>) = Told(cut.middle) /\ Ordered(<<note>>)
  BY <1>2, <1>3, TellsOne
<1>6. /\ cut.head \o <<note>> \in Seq(Row)
      /\ Told(cut.head \o <<note>>) = Told(cut.head) \cup Told(cut.middle)
      /\ Ordered(cut.head \o <<note>>)
  <2>1. cut.head \o <<note>> \in Seq(Row)
    BY <1>1, <1>5
  <2>2. Told(cut.head \o <<note>>) = Told(cut.head) \cup Told(cut.middle)
    BY <1>1, <1>5, ToldConcat
  <2>3. Ordered(cut.head) /\ Before(Told(cut.head), Told(<<note>>))
    BY <1>5 DEF CutTells, Tells
  <2>4. Ordered(cut.head \o <<note>>)
    BY <1>1, <1>5, <2>3, OrderedConcat
  <2>5. QED
    BY <2>1, <2>2, <2>4
<1>7. Before(Told(cut.head) \cup Told(cut.middle), Told(cut.tail))
  BY DEF CutTells, Before
<1>8. /\ Told(ChildRows(cut)) = Told(cut.head) \cup Told(cut.middle) \cup Told(cut.tail)
      /\ Ordered(ChildRows(cut))
  BY <1>1, <1>4, <1>6, <1>7, ToldConcat, OrderedConcat DEF CutTells, Tells
<1>9. QED
  BY <1>8 DEF CutTells, Tells

\* Rows that told what was said tell it still when more has been said.
LEMMA TellsMore ==
    ASSUME NEW n \in Nat, NEW k \in Nat, n <= k
    PROVE  /\ \A rs \in Seq(Row) : Tells(rs, n) => Tells(rs, k)
           /\ \A cut \in Snapshot : CutTells(cut, n) => CutTells(cut, k)
<1>1. ASSUME NEW ms \in SUBSET Message, \A m \in ms : m <= n
      PROVE  \A m \in ms : m <= k
  <2>1. \A m \in ms : m \in Nat
    BY DEF Message
  <2>2. QED
    BY <1>1, <2>1
<1>2. ASSUME NEW rs \in Seq(Row) PROVE Told(rs) \in SUBSET Message
  <2>1. \A i \in DOMAIN rs : rs[i] \in Row
    OBVIOUS
  <2>2. \A i \in DOMAIN rs : rs[i].of \subseteq Message
    BY <2>1 DEF Row
  <2>3. QED
    BY <2>2 DEF Told
<1>3. ASSUME NEW rs \in Seq(Row), Tells(rs, n) PROVE Tells(rs, k)
  BY <1>1, <1>2, <1>3 DEF Tells
<1>4. ASSUME NEW cut \in Snapshot, CutTells(cut, n) PROVE CutTells(cut, k)
  <2>1. cut.head \in Seq(Row) /\ cut.middle \in Seq(Row) /\ cut.tail \in Seq(Row)
    BY DEF Snapshot
  <2>2. Tells(cut.head, k) /\ Tells(cut.tail, k)
    BY <1>3, <1>4, <2>1 DEF CutTells
  <2>3. \A m \in Told(cut.middle) : m <= k
    BY <1>1, <1>2, <1>4, <2>1 DEF CutTells
  <2>4. QED
    BY <1>4, <2>2, <2>3 DEF CutTells
<1>5. QED
  BY <1>3, <1>4

LEMMA NothingTells == ASSUME NEW n \in Nat PROVE CutTells(Nothing, n) /\ Tells(<<>>, n)
  BY DEF Nothing, CutTells, Tells, Told, Ordered, Before

\* Rows and cuts tell what was said in the order it was said.
LEMMA OrderInvariant == Spec => []InOrder
<1> USE CompactionAssumption
<1>1. Init => InOrder
  <2> SUFFICES ASSUME Init, NEW s \in Session PROVE Tells(rows[s], said) /\ CutTells(snapshot[s], said)
    BY DEF InOrder
  <2>1. said \in Nat /\ said = History * Cardinality(Root) /\ snapshot[s] = Nothing
    BY FS_CardinalityType DEF Init
  <2>2. PICK number \in [Root -> 0..Cardinality(Root) - 1] :
            rows = [x \in Session |->
                       IF x \in Root
                       THEN [i \in 1..History |-> Verbatim(number[x] * History + i)]
                       ELSE <<>>]
    BY DEF Init
  <2>3. CASE s \in Root
    <3> DEFINE n == number[s]
    <3>1. n \in 0..Cardinality(Root) - 1 /\ n \in Nat
      BY <2>3, FS_CardinalityType
    <3> HIDE DEF n
    <3>2. rows[s] = [i \in 1..History |-> Verbatim(n * History + i)]
      BY <2>2, <2>3 DEF n
    <3>3. DOMAIN rows[s] = 1..History /\ \A i \in 1..History : rows[s][i].of = {n * History + i}
      BY <3>2 DEF Verbatim
    <3>4. n * History \in Nat
      BY <3>1
    <3>5. \A i, j \in 1..History : i < j => n * History + i < n * History + j
      BY <3>4
    <3>6. \A i \in 1..History : n * History + i <= said
      BY <2>1, <3>1, HistoriesNumbered
    <3>7. Ordered(rows[s])
      BY <3>3, <3>5 DEF Ordered
    <3>8. \A m \in Told(rows[s]) : m <= said
      BY <3>3, <3>6 DEF Told
    <3>9. QED
      BY <2>1, <3>7, <3>8, NothingTells DEF Tells
  <2>4. CASE s \notin Root
    BY <2>1, <2>2, <2>4, NothingTells
  <2>5. QED
    BY <2>3, <2>4
<1>2. TypeOK /\ Housed /\ InOrder /\ [Next]_vars => InOrder'
  <2> SUFFICES ASSUME TypeOK, Housed, InOrder, [Next]_vars,
                      NEW x \in Session
               PROVE  Tells(rows'[x], said') /\ CutTells(snapshot'[x], said')
    BY DEF InOrder
  <2>1. /\ rows \in [Session -> Seq(Row)] /\ rows[x] \in Seq(Row) /\ said \in Nat
        /\ snapshot \in [Session -> Snapshot] /\ snapshot[x] \in Snapshot
    BY DEF TypeOK
  <2>2. Tells(rows[x], said) /\ CutTells(snapshot[x], said)
    BY DEF InOrder
  <2>3. ASSUME NEW t \in Task, Resumes(t) \/ AfterAttachments(t)
        PROVE  Tells(rows'[x], said') /\ CutTells(snapshot'[x], said')
    <3>1. CASE Looks(t)
      BY <2>2, <3>1 DEF Looks
    <3>2. ASSUME NEW s \in sessions, Opens(t, s)
          PROVE  Tells(rows'[x], said') /\ CutTells(snapshot'[x], said')
      <4>1. said' = said + 1 /\ said + 1 \in Message /\ said + 1 \in Nat /\ snapshot' = snapshot
        BY <2>1, <3>2 DEF Opens, Message
      <4>2. rows'[x] = rows[x] \/ rows'[x] = Append(rows[x], Verbatim(said + 1))
        BY <2>1, <3>2 DEF Opens
      <4>3. Tells(rows[x], said + 1) /\ CutTells(snapshot[x], said + 1)
        BY <2>1, <2>2, <4>1, TellsMore
      <4>4. Tells(Append(rows[x], Verbatim(said + 1)), said + 1)
        BY <2>1, <2>2, <4>1, TellsNext
      <4>5. QED
        BY <4>1, <4>2, <4>3, <4>4
    <3>3. QED
      BY <2>3, <3>1, <3>2, Openings
  <2>4. ASSUME NEW t \in Task, TurnEnds(t)
        PROVE  Tells(rows'[x], said') /\ CutTells(snapshot'[x], said')
    <3> DEFINE s == sid[t]
               reply == Append(rows[s], Verbatim(said + 1))
               more == Append(reply, Verbatim(said + 2))
    <3>1. s \in Session /\ rows[s] \in Seq(Row) /\ Tells(rows[s], said)
      BY <2>4 DEF TurnEnds, TypeOK, InOrder, Working
    <3>2. said + 1 \in Message /\ said + 1 \in Nat
      BY <2>1, <2>4 DEF TurnEnds, Message
    <3>3. reply \in Seq(Row) /\ Tells(reply, said + 1)
      BY <2>1, <3>1, <3>2, VerbatimIsRow, TellsNext
    <3>4. MayCompact(s, reply)
      BY <2>4 DEF TurnEnds
    <3>5. \/ said' = said + 1 /\ rows' = [rows EXCEPT ![s] = reply]
          \/ said' = said + 2 /\ said + 2 <= MaxSaid /\ rows' = [rows EXCEPT ![s] = more]
      BY <2>4 DEF TurnEnds
    <3> HIDE DEF s, reply
    <3>6. CutTells(snapshot'[x], said + 1)
      <4>1. CASE snapshot' = snapshot
        BY <2>1, <2>2, <3>2, <4>1, TellsMore
      <4>2. CASE Compacts(s, reply)
        <5>1. PICK k \in 2..Len(reply) - ProtectHead - 1 : snapshot' = [snapshot EXCEPT ![s] = Cut(reply, k)]
          BY <4>2 DEF Compacts
        <5>2. CutTells(Cut(reply, k), said + 1)
          BY <3>2, <3>3, <4>2, CutKeepsOrder DEF Compacts
        <5>3. CutTells(snapshot[x], said + 1)
          BY <2>1, <2>2, <3>2, TellsMore
        <5>4. QED
          BY <2>1, <5>1, <5>2, <5>3
      <4>3. QED
        BY <3>4, <4>1, <4>2 DEF MayCompact
    <3>7. CASE said' = said + 1 /\ rows' = [rows EXCEPT ![s] = reply]
      <4>1. Tells(rows[x], said + 1)
        BY <2>1, <2>2, <3>2, TellsMore
      <4>2. QED
        BY <2>1, <3>3, <3>6, <3>7, <4>1
    <3>8. CASE said' = said + 2 /\ said + 2 <= MaxSaid /\ rows' = [rows EXCEPT ![s] = more]
      <4>1. said + 2 = (said + 1) + 1 /\ (said + 1) + 1 \in Message /\ said + 2 \in Nat
        BY <2>1, <3>8 DEF Message
      <4>2. Tells(more, said + 2)
        BY <3>2, <3>3, <4>1, TellsNext
      <4>3. Tells(rows[x], said + 2)
        BY <2>1, <2>2, <4>1, TellsMore
      <4>4. CutTells(snapshot'[x], said + 2)
        <5>1. snapshot'[x] \in Snapshot
          BY <2>1, <3>1, <3>3, <3>4, CompactsTypes DEF Rows
        <5>2. QED
          BY <3>2, <3>6, <4>1, <5>1, TellsMore
      <4> HIDE DEF more
      <4>5. QED
        BY <2>1, <3>8, <4>2, <4>3, <4>4
    <3>9. QED
      BY <3>5, <3>7, <3>8
  <2>5. ASSUME NEW s \in Session, NEW c \in Child, NEW saving \in {"low", "high"},
               RollsOver(s, c, saving)
        PROVE  Tells(rows'[x], said') /\ CutTells(snapshot'[x], said')
    <3>1. said' = said /\ rows' = [rows EXCEPT ![c] = ChildRows(snapshot[s])]
          /\ snapshot' = [snapshot EXCEPT ![s] = Nothing]
      BY <2>5 DEF RollsOver
    <3>2. Tells(ChildRows(snapshot[s]), said)
      BY <2>1, ChildRowsInOrder DEF InOrder
    <3>3. QED
      BY <2>1, <2>2, <3>1, <3>2, NothingTells
  <2>6. CASE Restart
    BY <2>1, <2>2, <2>6, NothingTells DEF Restart
  <2>7. CASE UNCHANGED <<rows, snapshot, said>>
    BY <2>2, <2>7
  <2>8. /\ \A t \in Task, r \in Root : Arrives(t, r) => UNCHANGED <<rows, snapshot, said>>
        /\ \A t \in Task : TurnFails(t) => UNCHANGED <<rows, snapshot, said>>
        /\ UNCHANGED vars => UNCHANGED <<rows, snapshot, said>>
    BY DEF Arrives, TurnFails, vars, loops, manager
  <2>9. QED
    BY <2>3, <2>4, <2>5, <2>6, <2>7, <2>8 DEF Next
<1>3. QED
  BY <1>1, <1>2, TypeCorrect, PTL DEF Spec

\* The conversation is told in the order it was said, in every session it has
\* been copied, summarised and continued in.
THEOREM OrderSurvives == Spec => []OrderIsKept
<1>1. TypeOK /\ InOrder => OrderIsKept
  BY DEF TypeOK, InOrder, Tells, Ordered, OrderIsKept
<1>2. QED
  BY <1>1, OrderInvariant, TypeCorrect, PTL

-----------------------------------------------------------------------------
\* Roots continue in different sessions, which share no message.
Apart ==
    /\ \A r \in Root : latest[r] \in {r} \cup Child
    /\ \A r, q \in Root : r # q => latest[r] # latest[q]
    /\ \A r, q \in Root : r # q => Told(rows[latest[r]]) \cap Told(rows[latest[q]]) = {}

\* What a session tells is told where some root continues, and what a root
\* tells where that root does.
Inherited ==
    /\ \A s \in sessions : \E r \in Root : Told(rows[s]) \subseteq Told(rows[latest[r]])
    /\ \A r \in Root : Told(rows[r]) \subseteq Told(rows[latest[r]])

\* Loops write where their roots continue; a compaction knows nothing its
\* session does not tell, and that of a root is the first of it.
OnHeirs ==
    /\ \A t \in Task : Working(t) => root[t] \in Root /\ sid[t] = latest[root[t]]
    /\ \A s \in pending : s \in Root => latest[s] = s
    /\ \A s \in pending :
          Told(snapshot[s].head) \cup Told(snapshot[s].middle) \cup Told(snapshot[s].tail)
              \subseteq Told(rows[s])

Inheritance == torn = {} /\ crashes = 0 => Apart /\ Inherited /\ OnHeirs

-----------------------------------------------------------------------------
LEMMA ToldTypes ==
    ASSUME NEW rs \in Seq(Row)
    PROVE  Told(rs) \in SUBSET Message
<1>1. \A i \in DOMAIN rs : rs[i] \in Row
  OBVIOUS
<1>2. \A i \in DOMAIN rs : rs[i].of \subseteq Message
  BY <1>1 DEF Row
<1>3. QED
  BY <1>2 DEF Told

LEMMA ToldNext ==
    ASSUME NEW rs \in Seq(Row), NEW m \in Message
    PROVE  /\ Append(rs, Verbatim(m)) \in Seq(Row)
           /\ Told(Append(rs, Verbatim(m))) = Told(rs) \cup {m}
<1> DEFINE row == Verbatim(m)
<1>1. row \in Row /\ row.of = {m}
  BY VerbatimIsRow DEF Verbatim
<1>2. Append(rs, row) = rs \o <<row>> /\ Append(rs, row) \in Seq(Row)
  BY <1>1
<1> HIDE DEF row
<1>3. Told(rs \o <<row>>) = Told(rs) \cup {m}
  BY <1>1, TellsOne, ToldConcat
<1>4. QED
  BY <1>2, <1>3 DEF row

\* A cut knows nothing its rows do not tell.
LEMMA ToldCut ==
    ASSUME NEW rs \in Seq(Row), Len(rs) >= ProtectHead + 4,
           NEW k \in 2..Len(rs) - ProtectHead - 1
    PROVE  Told(Cut(rs, k).head) \cup Told(Cut(rs, k).middle) \cup Told(Cut(rs, k).tail)
               \subseteq Told(rs)
<1> DEFINE h == ProtectHead
           l == Len(rs)
<1>1. h \in Nat /\ l \in Nat /\ DOMAIN rs = 1..l /\ k \in Nat
  BY CompactionAssumption
<1>2. ASSUME NEW a \in Nat, NEW b \in Nat, 1 <= a, a <= b + 1, b <= l
      PROVE  Told(SubSeq(rs, a, b)) \subseteq Told(rs)
  <2>1. /\ DOMAIN SubSeq(rs, a, b) = 1..b - a + 1
        /\ \A i \in 1..b - a + 1 : SubSeq(rs, a, b)[i] = rs[a + i - 1] /\ a + i - 1 \in 1..l
    BY <1>1, <1>2 DEF l
  <2>2. QED
    BY <1>1, <2>1 DEF Told
<1>3. /\ 1 <= h + 1 /\ h <= l /\ h + 1 \in Nat /\ l - k \in Nat /\ h + 1 <= l - k + 1 /\ l - k <= l
      /\ l - k + 1 \in Nat /\ 1 <= l - k + 1 /\ l - k + 1 <= l + 1
  BY <1>1 DEF h, l
<1>4. /\ Told(SubSeq(rs, 1, h)) \subseteq Told(rs)
      /\ Told(SubSeq(rs, h + 1, l - k)) \subseteq Told(rs)
      /\ Told(SubSeq(rs, l - k + 1, l)) \subseteq Told(rs)
  BY <1>1, <1>2, <1>3
<1>5. QED
  BY <1>4 DEF Cut, h, l

\* The child is told what the cut told.
LEMMA ToldChild ==
    ASSUME NEW cut \in Snapshot
    PROVE  Told(ChildRows(cut)) = Told(cut.head) \cup Told(cut.middle) \cup Told(cut.tail)
<1> DEFINE note == [kind |-> "summary", of |-> UNION {cut.middle[i].of : i \in DOMAIN cut.middle}]
<1>1. cut.head \in Seq(Row) /\ cut.middle \in Seq(Row) /\ cut.tail \in Seq(Row)
  BY DEF Snapshot
<1>2. note.of = Told(cut.middle)
  BY DEF Told
<1>3. note \in Row
  BY <1>1, <1>2, ToldTypes DEF Row, Told
<1>4. ChildRows(cut) = (cut.head \o <<note>>) \o cut.tail
  BY DEF ChildRows
<1> HIDE DEF note
<1>5. <<note>> \in Seq(Row) /\ Told(<<note>>) = Told(cut.middle)
  BY <1>2, <1>3, TellsOne
<1>6. cut.head \o <<note>> \in Seq(Row)
  BY <1>1, <1>5
<1>7. Told(cut.head \o <<note>>) = Told(cut.head) \cup Told(cut.middle)
  <2>1. Told(cut.head \o <<note>>) = Told(cut.head) \cup Told(<<note>>)
    BY <1>1, <1>5, ToldConcat, Zenon
  <2>2. QED
    BY <1>5, <2>1
<1>8. QED
  BY <1>1, <1>4, <1>6, <1>7, ToldConcat

\* The numbers two roots' histories have are not the same.
LEMMA HistoriesApart ==
    ASSUME NEW a \in Nat, NEW b \in Nat, a # b, NEW i \in 1..History, NEW j \in 1..History
    PROVE  a * History + i # b * History + j
<1>1. ASSUME NEW h \in Nat, NEW x \in Nat, NEW y \in Nat, x < y, NEW p \in 1..h, NEW q \in 1..h
      PROVE  x * h + p < y * h + q
  <2>1. PICK d \in Nat : y = x + 1 + d
    <3>1. y - x - 1 \in Nat /\ y = x + 1 + (y - x - 1)
      BY <1>1
    <3>2. QED
      BY <3>1
  <2>2. y * h = x * h + h + d * h /\ d * h \in Nat /\ x * h \in Nat
    BY <2>1
  <2>3. QED
    BY <2>2
<1>2. History \in Nat
  BY CompactionAssumption
<1>3. a < b \/ b < a
  OBVIOUS
<1>4. /\ a * History + i \in Nat /\ b * History + j \in Nat
  BY <1>2
<1>5. a < b => a * History + i < b * History + j
  BY <1>1, <1>2
<1>6. b < a => b * History + j < a * History + i
  BY <1>1, <1>2
<1>7. QED
  BY <1>3, <1>4, <1>5, <1>6

-----------------------------------------------------------------------------
\* Nothing that is said is told before it is said.
LEMMA NotYetTold ==
    ASSUME TypeOK, InOrder, NEW s \in Session, NEW m \in Nat, said < m
    PROVE  m \notin Told(rows[s])
<1>1. said \in Nat /\ Tells(rows[s], said)
  BY DEF TypeOK, InOrder
<1>2. QED
  BY <1>1 DEF Tells

\* Where a root's loops write, what is said there changes nothing of the rest.
LEMMA SaidAtHeir ==
    ASSUME TypeOK, TypeOK', Housed, InOrder, Apart, Inherited, OnHeirs,
           NEW q \in Root, NEW new \in SUBSET Message, \A m \in new : said < m,
           sessions' = sessions, latest' = latest,
           \A s \in Session : Told(rows'[s]) = IF s = latest[q] THEN Told(rows[s]) \cup new
                                               ELSE Told(rows[s])
    PROVE  Apart' /\ Inherited'
<1> Root \subseteq Session /\ Child \subseteq Session /\ Root \cap Child = {}
  BY CompactionAssumption DEF Session
<1>1. \A r \in Root : latest[r] \in Session
  BY DEF TypeOK
<1>2. \A s \in Session, m \in new : m \notin Told(rows[s])
  <2>1. MaxSaid \in Nat
    BY CompactionAssumption
  <2>2. \A m \in 1..MaxSaid : m \in Nat
    BY <2>1
  <2>3. \A m \in new : m \in Nat
    BY <2>2 DEF Message
  <2>4. QED
    BY <2>3, NotYetTold
<1>3. Apart'
  <2>1. ASSUME NEW r \in Root, NEW x \in Root, r # x
        PROVE  Told(rows'[latest[r]]) \cap Told(rows'[latest[x]]) = {}
    <3>1. /\ latest[r] # latest[x] /\ latest[r] \in Session /\ latest[x] \in Session
          /\ Told(rows[latest[r]]) \cap Told(rows[latest[x]]) = {}
      BY <1>1, <2>1 DEF Apart
    <3>2. QED
      BY <1>2, <3>1
  <2>2. QED
    BY <2>1 DEF Apart
<1>4. Inherited'
  <2>1. \A s \in Session : Told(rows[s]) \subseteq Told(rows'[s])
    OBVIOUS
  <2>2. ASSUME NEW s \in sessions
        PROVE  \E r \in Root : Told(rows'[s]) \subseteq Told(rows'[latest[r]])
    <3>1. s \in Session
      BY DEF TypeOK
    <3>2. CASE s = latest[q]
      BY <3>2
    <3>3. CASE s # latest[q]
      <4>1. PICK r \in Root : Told(rows[s]) \subseteq Told(rows[latest[r]])
        BY DEF Inherited
      <4>2. QED
        BY <1>1, <2>1, <3>1, <3>3, <4>1
    <3>4. QED
      BY <3>2, <3>3
  <2>3. ASSUME NEW r \in Root
        PROVE  Told(rows'[r]) \subseteq Told(rows'[latest[r]])
    <3>1. r \in Session /\ latest[r] \in Session /\ Told(rows[r]) \subseteq Told(rows[latest[r]])
      BY <1>1 DEF Inherited
    <3>2. CASE r = latest[q]
      <4>1. r = q
        BY <3>2 DEF Apart
      <4>2. QED
        BY <3>2, <4>1
    <3>3. CASE r # latest[q]
      BY <2>1, <3>1, <3>3
    <3>4. QED
      BY <3>2, <3>3
  <2>4. QED
    BY <2>2, <2>3 DEF Inherited
<1>5. QED
  BY <1>3, <1>4

LEMMA OpensInherits ==
    ASSUME TypeOK, TypeOK', Housed, InOrder, Apart, Inherited, OnHeirs,
           NEW t \in Task, NEW p \in sessions, Opens(t, p)
    PROVE  Apart' /\ Inherited' /\ OnHeirs'
<1> DEFINE q == root[t]
<1>1. /\ q \in Root /\ p = latest[q] /\ p \in Session
      /\ rows[p] \in Seq(Row) /\ said + 1 \in Message /\ said \in Nat
  <2>1. q \in Root /\ p = latest[q]
    BY DEF Opens, Housed, OnHeirs, Working
  <2>2. p \in Session
    BY DEF TypeOK
  <2>3. QED
    BY <2>1, <2>2 DEF Opens, TypeOK, Message
<1>2. /\ rows' = [rows EXCEPT ![p] = Append(rows[p], Verbatim(said + 1))]
      /\ sid' = [sid EXCEPT ![t] = p] /\ at' = [at EXCEPT ![t] = "turn"]
      /\ UNCHANGED <<sessions, root, latest, pending, snapshot>>
  BY DEF Opens
<1>3. \A s \in Session : Told(rows'[s]) = IF s = p THEN Told(rows[s]) \cup {said + 1} ELSE Told(rows[s])
  <2>1. Told(Append(rows[p], Verbatim(said + 1))) = Told(rows[p]) \cup {said + 1}
    BY <1>1, ToldNext
  <2>2. rows \in [Session -> Seq(Row)]
    BY DEF TypeOK
  <2>3. QED
    BY <1>1, <1>2, <2>1, <2>2
<1>4. Apart' /\ Inherited'
  <2>1. {said + 1} \in SUBSET Message /\ \A m \in {said + 1} : said < m
    BY <1>1
  <2>2. \A s \in Session : Told(rows'[s]) = IF s = latest[q] THEN Told(rows[s]) \cup {said + 1}
                                            ELSE Told(rows[s])
    BY <1>1, <1>3
  <2>3. sessions' = sessions /\ latest' = latest
    BY <1>2
  <2> HIDE DEF q
  <2>4. q \in Root
    BY <1>1
  <2>5. QED
    BY <2>1, <2>2, <2>3, <2>4, SaidAtHeir
<1>5. OnHeirs'
  <2>1. ASSUME NEW x \in Task, Working(x)' PROVE root'[x] \in Root /\ sid'[x] = latest'[root'[x]]
    <3>1. CASE x = t
      BY <1>1, <1>2, <3>1 DEF TypeOK
    <3>2. CASE x # t
      BY <1>2, <2>1, <3>2 DEF TypeOK, OnHeirs, Working
    <3>3. QED
      BY <3>1, <3>2
  <2>2. ASSUME NEW s \in pending
        PROVE  /\ s \in Root => latest'[s] = s
               /\ Told(snapshot'[s].head) \cup Told(snapshot'[s].middle) \cup Told(snapshot'[s].tail)
                      \subseteq Told(rows'[s])
    <3>1. s \in Session /\ Told(rows[s]) \subseteq Told(rows'[s])
      BY <1>3 DEF TypeOK
    <3>2. QED
      BY <1>2, <3>1 DEF OnHeirs
  <2>3. QED
    BY <1>2, <2>1, <2>2 DEF OnHeirs
<1>6. QED
  BY <1>4, <1>5

LEMMA TurnEndsInherits ==
    ASSUME TypeOK, TypeOK', Housed, InOrder, Apart, Inherited, OnHeirs,
           NEW t \in Task, TurnEnds(t)
    PROVE  Apart' /\ Inherited' /\ OnHeirs'
<1> DEFINE q == root[t]
           p == sid[t]
           reply == Append(rows[p], Verbatim(said + 1))
           more == Append(reply, Verbatim(said + 2))
<1>1. q \in Root /\ p = latest[q] /\ p \in Session /\ rows[p] \in Seq(Row) /\ said \in Nat
  <2>1. at[t] = "turn"
    BY DEF TurnEnds
  <2>2. q \in Root /\ p = latest[q] /\ p \in Session
    BY <2>1 DEF OnHeirs, TypeOK, Working
  <2>3. QED
    BY <2>2 DEF TypeOK
<1>2. said + 1 \in Message /\ (said + 2 <= MaxSaid => said + 2 \in Message)
  <2>1. said + 1 <= MaxSaid \/ said + 2 <= MaxSaid
    BY DEF TurnEnds
  <2>2. MaxSaid \in Nat
    BY CompactionAssumption
  <2>3. QED
    BY <1>1, <2>1, <2>2 DEF Message
<1>3. MayCompact(p, reply) /\ UNCHANGED <<sessions, root, sid, latest>>
  BY DEF TurnEnds
<1>4. \/ rows' = [rows EXCEPT ![p] = reply] /\ said' = said + 1
      \/ rows' = [rows EXCEPT ![p] = more] /\ said' = said + 2 /\ said + 2 <= MaxSaid
  BY DEF TurnEnds
<1>5. \A x \in Task : Working(x)' => Working(x)
  BY DEF TurnEnds, TypeOK, Working
<1>6. reply \in Seq(Row) /\ Told(reply) = Told(rows[p]) \cup {said + 1}
  BY <1>1, <1>2, ToldNext
<1>7. said + 2 <= MaxSaid => Told(more) = Told(rows[p]) \cup {said + 1, said + 2}
  <2>1. said + 2 <= MaxSaid => Told(more) = Told(reply) \cup {said + 2}
    BY <1>2, <1>6, ToldNext
  <2>2. QED
    BY <1>6, <2>1
<1> HIDE DEF q, p, reply, more
<1>8. PICK new \in SUBSET Message :
          /\ \A m \in new : said < m
          /\ said + 1 \in new
          /\ \A s \in Session : Told(rows'[s]) = IF s = p THEN Told(rows[s]) \cup new ELSE Told(rows[s])
  <2>1. rows \in [Session -> Seq(Row)]
    BY DEF TypeOK
  <2>2. CASE rows' = [rows EXCEPT ![p] = reply]
    <3>1. {said + 1} \in SUBSET Message /\ \A m \in {said + 1} : said < m
      BY <1>1, <1>2
    <3>2. \A s \in Session : Told(rows'[s]) = IF s = p THEN Told(rows[s]) \cup {said + 1} ELSE Told(rows[s])
      BY <1>1, <1>6, <2>1, <2>2
    <3>3. QED
      BY <3>1, <3>2
  <2>3. CASE rows' = [rows EXCEPT ![p] = more] /\ said + 2 <= MaxSaid
    <3>1. {said + 1, said + 2} \in SUBSET Message /\ \A m \in {said + 1, said + 2} : said < m
      BY <1>1, <1>2, <2>3
    <3>2. \A s \in Session : Told(rows'[s]) = IF s = p THEN Told(rows[s]) \cup {said + 1, said + 2}
                                              ELSE Told(rows[s])
      BY <1>1, <1>7, <2>1, <2>3
    <3>3. QED
      BY <3>1, <3>2
  <2>4. QED
    BY <1>4, <2>2, <2>3
<1>9. Apart' /\ Inherited'
  <2>1. \A s \in Session : Told(rows'[s]) = IF s = latest[q] THEN Told(rows[s]) \cup new
                                            ELSE Told(rows[s])
    BY <1>1, <1>8
  <2>2. sessions' = sessions /\ latest' = latest
    BY <1>3
  <2>3. QED
    BY <1>1, <1>8, <2>1, <2>2, SaidAtHeir
<1>10. OnHeirs'
  <2>1. ASSUME NEW x \in Task, Working(x)' PROVE root'[x] \in Root /\ sid'[x] = latest'[root'[x]]
    BY <1>3, <1>5, <2>1 DEF OnHeirs
  <2>2. ASSUME NEW s \in pending, snapshot'[s] = snapshot[s]
        PROVE  /\ s \in Root => latest'[s] = s
               /\ Told(snapshot'[s].head) \cup Told(snapshot'[s].middle) \cup Told(snapshot'[s].tail)
                      \subseteq Told(rows'[s])
    <3>1. s \in Session /\ Told(rows[s]) \subseteq Told(rows'[s])
      BY <1>8 DEF TypeOK
    <3>2. QED
      BY <1>3, <2>2, <3>1 DEF OnHeirs
  <2>3. CASE UNCHANGED <<pending, snapshot>>
    BY <2>1, <2>2, <2>3 DEF OnHeirs
  <2>4. CASE Compacts(p, reply)
    <3>1. PICK k \in 2..Len(reply) - ProtectHead - 1 : snapshot' = [snapshot EXCEPT ![p] = Cut(reply, k)]
      BY <2>4 DEF Compacts
    <3>2. pending' = pending \cup {p} /\ p \notin pending /\ Len(reply) >= ProtectHead + 4
      BY <2>4 DEF Compacts
    <3>3. snapshot' \in [Session -> Snapshot] /\ snapshot'[p] = Cut(reply, k)
          /\ \A s \in pending : snapshot'[s] = snapshot[s]
      BY <1>1, <3>1, <3>2 DEF TypeOK
    <3>4. p \in Root => latest'[p] = p
      <4>1. p \in Root => p = q
        BY <1>1, CompactionAssumption DEF Apart
      <4>2. QED
        BY <1>1, <1>3, <4>1
    <3>5. Told(snapshot'[p].head) \cup Told(snapshot'[p].middle) \cup Told(snapshot'[p].tail)
              \subseteq Told(rows'[p])
      <4>1. Told(reply) \subseteq Told(rows'[p])
        BY <1>1, <1>6, <1>8
      <4>2. Told(Cut(reply, k).head) \cup Told(Cut(reply, k).middle) \cup Told(Cut(reply, k).tail)
                \subseteq Told(reply)
        BY <1>6, <3>2, ToldCut
      <4>3. QED
        BY <3>3, <4>1, <4>2
    <3>6. QED
      BY <2>1, <2>2, <3>2, <3>3, <3>4, <3>5 DEF OnHeirs
  <2>5. QED
    BY <1>3, <2>3, <2>4 DEF MayCompact
<1>11. QED
  BY <1>9, <1>10

\* A session nobody has written to since hands all it told to the child, so
\* that each root goes on telling what it told.
LEMMA RollsOverInherits ==
    ASSUME TypeOK, TypeOK', Housed, Apart, Inherited, OnHeirs,
           NEW s \in Session, NEW c \in Child, NEW saving \in {"low", "high"},
           RollsOver(s, c, saving), Settled(s)
    PROVE  Apart' /\ Inherited' /\ OnHeirs'
<1> Root \subseteq Session /\ Child \subseteq Session /\ Root \cap Child = {}
  BY CompactionAssumption DEF Session
<1> DEFINE cut == snapshot[s]
<1>1. /\ s \in pending /\ s \in sessions /\ c \in Session \ sessions /\ s # c
      /\ rows \in [Session -> Seq(Row)] /\ cut \in Snapshot
  BY DEF RollsOver, Housed, TypeOK
<1>2. /\ sessions' = sessions \cup {c} /\ rows' = [rows EXCEPT ![c] = ChildRows(cut)]
      /\ latest' = [latest EXCEPT ![s] = c] /\ pending' = pending \ {s}
      /\ snapshot' = [snapshot EXCEPT ![s] = Nothing]
      /\ UNCHANGED <<root, sid>>
  BY DEF RollsOver
<1>3. \A x \in Task : Working(x)' => Working(x)
  BY DEF RollsOver, Wake, Working
<1>4. Told(ChildRows(cut)) = Told(rows[s])
  <2>1. cut.head \in Seq(Row) /\ cut.middle \in Seq(Row) /\ cut.tail \in Seq(Row)
    BY <1>1 DEF Snapshot
  <2>2. rows[s] = (cut.head \o cut.middle) \o cut.tail
    BY DEF Settled
  <2> HIDE DEF cut
  <2>3. cut.head \o cut.middle \in Seq(Row)
        /\ Told(cut.head \o cut.middle) = Told(cut.head) \cup Told(cut.middle)
    BY <2>1, ToldConcat
  <2>4. Told(rows[s]) = Told(cut.head) \cup Told(cut.middle) \cup Told(cut.tail)
    BY <2>1, <2>2, <2>3, ToldConcat
  <2>5. QED
    BY <1>1, <2>4, ToldChild
<1> HIDE DEF cut
<1>5. /\ Told(rows'[c]) = Told(rows[s])
      /\ \A x \in Session : x # c => Told(rows'[x]) = Told(rows[x])
  BY <1>1, <1>2, <1>4
<1>6. latest \in [Session -> Session] /\ \A r \in Root : latest[r] \in sessions /\ latest[r] # c
  BY <1>1 DEF TypeOK, Housed
<1>7. ASSUME NEW r \in Root
      PROVE  Told(rows'[latest'[r]]) = Told(rows[latest[r]])
  <2>1. CASE r = s
    BY <1>1, <1>2, <1>5, <1>6, <2>1 DEF OnHeirs
  <2>2. CASE r # s
    BY <1>2, <1>5, <1>6, <2>2
  <2>3. QED
    BY <2>1, <2>2
<1>8. Apart'
  <2>1. ASSUME NEW r \in Root PROVE latest'[r] \in {r} \cup Child
    BY <1>2, <1>6 DEF Apart
  <2>2. ASSUME NEW r \in Root, NEW q \in Root, r # q PROVE latest'[r] # latest'[q]
    BY <1>2, <1>6, <2>2 DEF Apart
  <2>3. ASSUME NEW r \in Root, NEW q \in Root, r # q
        PROVE  Told(rows'[latest'[r]]) \cap Told(rows'[latest'[q]]) = {}
    BY <1>7, <2>3 DEF Apart
  <2>4. QED
    BY <2>1, <2>2, <2>3 DEF Apart
<1>9. Inherited'
  <2>1. ASSUME NEW x \in sessions'
        PROVE  \E r \in Root : Told(rows'[x]) \subseteq Told(rows'[latest'[r]])
    <3>1. PICK y \in sessions : Told(rows'[x]) = Told(rows[y])
      <4>1. CASE x = c
        BY <1>1, <1>5, <4>1
      <4>2. CASE x # c
        <5>1. x \in sessions /\ x \in Session
          BY <1>2, <4>2 DEF TypeOK
        <5>2. QED
          BY <1>5, <4>2, <5>1
      <4>3. QED
        BY <4>1, <4>2
    <3>2. PICK r \in Root : Told(rows[y]) \subseteq Told(rows[latest[r]])
      BY DEF Inherited
    <3>3. QED
      BY <1>7, <3>1, <3>2
  <2>2. ASSUME NEW r \in Root PROVE Told(rows'[r]) \subseteq Told(rows'[latest'[r]])
    BY <1>5, <1>7 DEF Inherited
  <2>3. QED
    BY <2>1, <2>2 DEF Inherited
<1>10. OnHeirs'
  <2>1. ASSUME NEW t \in Task, Working(t)' PROVE root'[t] \in Root /\ sid'[t] = latest'[root'[t]]
    <3>1. Working(t) /\ root[t] \in Root /\ sid[t] = latest[root[t]]
      BY <1>3, <2>1 DEF OnHeirs
    <3>2. root[t] # s
      <4>1. sid[t] # s
        BY <3>1 DEF Settled
      <4>2. s \in Root => latest[s] = s
        BY <1>1 DEF OnHeirs
      <4>3. QED
        BY <3>1, <4>1, <4>2
    <3>3. QED
      BY <1>2, <1>6, <3>1, <3>2
  <2>2. ASSUME NEW x \in pending'
        PROVE  /\ x \in Root => latest'[x] = x
               /\ Told(snapshot'[x].head) \cup Told(snapshot'[x].middle) \cup Told(snapshot'[x].tail)
                      \subseteq Told(rows'[x])
    <3>1. x \in pending /\ x # s /\ x \in Session /\ x # c
      BY <1>1, <1>2, <2>2 DEF Housed, TypeOK
    <3>2. snapshot'[x] = snapshot[x] /\ latest'[x] = latest[x]
      BY <1>2, <3>1 DEF TypeOK
    <3>3. QED
      BY <1>5, <3>1, <3>2 DEF OnHeirs
  <2>3. QED
    BY <2>1, <2>2 DEF OnHeirs
<1>11. QED
  BY <1>8, <1>9, <1>10

\* ConversationIsWhole for any number of roots, children, tasks and messages:
\* what shares a message with a root is told where that root continues.
THEOREM NothingIsLost == Spec => []ConversationIsWhole
<1> USE CompactionAssumption
<1> Root \subseteq Session /\ Child \subseteq Session /\ Root \cap Child = {}
  BY DEF Session
<1>1. Init => Inheritance
  <2> SUFFICES ASSUME Init PROVE Apart /\ Inherited /\ OnHeirs
    BY DEF Inheritance
  <2>1. PICK number \in [Root -> 0..Cardinality(Root) - 1] :
            /\ \A r, s \in Root : number[r] = number[s] => r = s
            /\ rows = [x \in Session |->
                          IF x \in Root
                          THEN [i \in 1..History |-> Verbatim(number[x] * History + i)]
                          ELSE <<>>]
    BY DEF Init
  <2>2. sessions = Root /\ pending = {} /\ latest = [s \in Session |-> s] /\ at = [t \in Task |-> "new"]
    BY DEF Init
  <2>3. ASSUME NEW r \in Root, NEW m \in Told(rows[r])
        PROVE  \E i \in 1..History : m = number[r] * History + i
    <3>1. rows[r] = [i \in 1..History |-> Verbatim(number[r] * History + i)]
      BY <2>1
    <3>2. PICK i \in 1..History : m \in rows[r][i].of
      BY <3>1 DEF Told
    <3>3. rows[r][i].of = {number[r] * History + i}
      BY <3>1 DEF Verbatim
    <3>4. QED
      BY <3>2, <3>3
  <2>4. ASSUME NEW r \in Root, NEW q \in Root, r # q
        PROVE  Told(rows[r]) \cap Told(rows[q]) = {}
    <3>1. SUFFICES ASSUME NEW m \in Told(rows[r]), m \in Told(rows[q]) PROVE FALSE
      OBVIOUS
    <3>2. PICK i \in 1..History : m = number[r] * History + i
      BY <2>3
    <3>3. PICK j \in 1..History : m = number[q] * History + j
      BY <2>3, <3>1
    <3>4. number[r] \in Nat /\ number[q] \in Nat /\ number[r] # number[q]
      <4>1. Cardinality(Root) \in Nat
        BY FS_CardinalityType
      <4>2. number[r] \in 0..Cardinality(Root) - 1 /\ number[q] \in 0..Cardinality(Root) - 1
        BY <2>1
      <4>3. number[r] # number[q]
        BY <2>1, <2>4
      <4>4. QED
        BY <4>1, <4>2, <4>3
    <3>5. QED
      BY <3>2, <3>3, <3>4, HistoriesApart
  <2>5. Apart
    BY <2>2, <2>4 DEF Apart
  <2>6. Inherited
    BY <2>2 DEF Inherited
  <2>7. OnHeirs
    BY <2>2 DEF OnHeirs, Working
  <2>8. QED
    BY <2>5, <2>6, <2>7
<1>2. TypeOK /\ TypeOK' /\ Housed /\ InOrder /\ Inheritance /\ [Next]_vars => Inheritance'
  <2> SUFFICES ASSUME TypeOK, TypeOK', Housed, InOrder, Inheritance, [Next]_vars,
                      torn' = {}, crashes' = 0
               PROVE  Apart' /\ Inherited' /\ OnHeirs'
    BY DEF Inheritance
  <2>1. ASSUME torn = {}, crashes = 0 PROVE Apart /\ Inherited /\ OnHeirs
    BY <2>1 DEF Inheritance
  <2>2. ASSUME NEW t \in Task, NEW s \in sessions, Opens(t, s) PROVE Apart' /\ Inherited' /\ OnHeirs'
    <3>1. torn = {} /\ crashes = 0
      BY <2>2 DEF Opens
    <3>2. QED
      BY <2>1, <2>2, <3>1, OpensInherits
  <2>3. ASSUME NEW t \in Task, TurnEnds(t) PROVE Apart' /\ Inherited' /\ OnHeirs'
    <3>1. torn = {} /\ crashes = 0
      BY <2>3 DEF TurnEnds
    <3>2. QED
      BY <2>1, <2>3, <3>1, TurnEndsInherits
  <2>4. ASSUME NEW s \in Session, NEW c \in Child, NEW saving \in {"low", "high"},
               RollsOver(s, c, saving)
        PROVE  Apart' /\ Inherited' /\ OnHeirs'
    <3>1. torn = {} /\ crashes = 0 /\ Settled(s)
      BY <2>4 DEF RollsOver
    <3>2. QED
      BY <2>1, <2>4, <3>1, RollsOverInherits
  <2>5. CASE Restart
    BY <2>5 DEF Restart, TypeOK
  <2>6. ASSUME UNCHANGED <<sessions, rows, root, sid, manager, torn, crashes>>,
               \A t \in Task : Working(t)' => Working(t)
        PROVE  Apart' /\ Inherited' /\ OnHeirs'
    <3>1. Apart /\ Inherited /\ OnHeirs
      BY <2>1, <2>6
    <3>2. Apart'
      BY <2>6, <3>1 DEF Apart, manager
    <3>3. Inherited'
      BY <2>6, <3>1 DEF Inherited, manager
    <3>4. OnHeirs'
      BY <2>6, <3>1 DEF OnHeirs, manager
    <3>5. QED
      BY <3>2, <3>3, <3>4
  <2>7. ASSUME NEW t \in Task, NEW r \in Root, Arrives(t, r) PROVE Apart' /\ Inherited' /\ OnHeirs'
    <3>1. UNCHANGED <<sessions, rows, sid, manager, torn, crashes>>
      BY <2>7 DEF Arrives
    <3>2. \A x \in Task : Working(x)' => Working(x) /\ root'[x] = root[x]
      BY <2>7 DEF Arrives, TypeOK, Working
    <3>3. Apart /\ Inherited /\ OnHeirs
      BY <2>1, <3>1
    <3>4. Apart'
      BY <3>1, <3>3 DEF Apart, manager
    <3>5. Inherited'
      BY <3>1, <3>3 DEF Inherited, manager
    <3>6. OnHeirs'
      BY <3>1, <3>2, <3>3 DEF OnHeirs, manager
    <3>7. QED
      BY <3>4, <3>5, <3>6
  <2>8. ASSUME NEW t \in Task, TurnFails(t) PROVE Apart' /\ Inherited' /\ OnHeirs'
    <3>1. UNCHANGED <<sessions, rows, root, sid, manager, torn, crashes>>
      BY <2>8 DEF TurnFails
    <3>2. \A x \in Task : Working(x)' => Working(x)
      BY <2>8 DEF TurnFails, TypeOK, Working
    <3>3. QED
      BY <2>6, <3>1, <3>2
  <2>9. CASE UNCHANGED vars
    BY <2>6, <2>9 DEF vars, loops, Working
  <2>10. ASSUME NEW t \in Task, Looks(t) PROVE Apart' /\ Inherited' /\ OnHeirs'
    <3>1. UNCHANGED <<sessions, rows, root, manager, torn, crashes>>
      BY <2>10 DEF Looks, manager
    <3>2. Apart /\ Inherited /\ OnHeirs
      BY <2>1, <3>1
    <3>3. Apart' /\ Inherited'
      BY <3>1, <3>2 DEF Apart, Inherited, manager
    <3>4. ASSUME NEW x \in Task, Working(x)' PROVE root'[x] \in Root /\ sid'[x] = latest'[root'[x]]
      <4>1. CASE x = t
        BY <2>10, <3>1, <4>1 DEF Looks, Housed, TypeOK, manager
      <4>2. CASE x # t
        BY <2>10, <3>2, <3>4, <4>2 DEF Looks, OnHeirs, TypeOK, Working
      <4>3. QED
        BY <4>1, <4>2
    <3>5. OnHeirs'
      BY <3>1, <3>2, <3>4 DEF OnHeirs, manager
    <3>6. QED
      BY <3>3, <3>5
  <2>11. ASSUME NEW t \in Task, Resumes(t) \/ AfterAttachments(t) PROVE Apart' /\ Inherited' /\ OnHeirs'
    BY <2>2, <2>10, <2>11, Openings
  <2>12. QED
    BY <2>3, <2>4, <2>5, <2>7, <2>8, <2>9, <2>11 DEF Next
<1>3. TypeOK /\ Housed /\ Inheritance => ConversationIsWhole
  <2> SUFFICES ASSUME TypeOK, Housed, Apart, Inherited, NEW r \in Root, NEW s \in Lineage(r)
               PROVE  Represented(s) \subseteq Represented(latest[r])
    BY DEF Inheritance, ConversationIsWhole
  <2>1. \A x \in Session : Represented(x) = Told(rows[x])
    BY DEF Represented, Told
  <2>2. s \in sessions /\ s \in Session /\ r \in Session /\ Told(rows[s]) \cap Told(rows[r]) # {}
    BY <2>1 DEF Lineage, TypeOK
  <2>3. PICK m \in Told(rows[s]) : m \in Told(rows[r])
    BY <2>2
  <2>4. PICK q \in Root : Told(rows[s]) \subseteq Told(rows[latest[q]])
    BY <2>2 DEF Inherited
  <2>5. m \in Told(rows[latest[r]]) /\ m \in Told(rows[latest[q]])
    BY <2>3, <2>4 DEF Inherited
  <2>6. q = r
    BY <2>5 DEF Apart
  <2>7. latest[r] \in Session
    BY <2>2 DEF TypeOK
  <2>8. QED
    BY <2>1, <2>2, <2>4, <2>6, <2>7
<1>4. QED
  BY <1>1, <1>2, <1>3, TypeCorrect, OrderInvariant, PTL DEF Spec
=============================================================================
