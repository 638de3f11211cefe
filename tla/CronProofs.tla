----------------------------- MODULE CronProofs -----------------------------
(***************************************************************************)
(* Theorems about Cron for any number of jobs, slots, history rows and     *)
(* restarts, and about nextFire for any calendar.  Scheduling needs that a *)
(* slot that was fired is over and that a job switched on exists; the      *)
(* history needs that the newest row of an execution under way is its      *)
(* "running" row; the search needs that it comes only to places from which *)
(* nothing is skipped.                                                     *)
(***************************************************************************)
EXTENDS Schedules, WellFoundedInduction, TLAPS

\* What was fired is over, and only existing jobs are switched on.
Scheduling ==
    /\ \A j \in Job : consumed[j] <= now
    /\ \A j \in Job : enabled[j] => job[j] = "live"
    /\ OneExecution
    /\ SlotFiresOnce
    /\ OnlyEnabledScheduled

\* The newest row of an execution under way is its own; a job that never
\* existed runs nothing.
Newest ==
    \A j \in inflight :
        /\ job[j] # "none"
        /\ job[j] = "live" => runs[j] # <<>> /\ runs[j][Len(runs[j])] = "running"

\* A deleted job has no history, and gets none.
Gone == \A j \in Job : job[j] = "deleted" => runs[j] = <<>>

Verdict == {"success", "error"}

-----------------------------------------------------------------------------
\* What nextFire may answer is a slot that is still to come, or nothing.
LEMMA NextAfterComes ==
    ASSUME TypeOK, NEW on \in BOOLEAN, NEW t \in NextAfter(on)
    PROVE  t \in Slot \cup {None} /\ (t # None => on /\ t \in Slot /\ t > now)
  BY DEF NextAfter

\* Times are numbers.
LEMMA TimesAreNumbers ==
    ASSUME TypeOK
    PROVE  /\ \A t \in Slot : t \in Nat
           /\ now \in Nat
           /\ \A j \in Job : consumed[j] \in Nat
           /\ \A j \in Job : next[j] # None => next[j] \in Nat
<1>1. \A t \in Slot : t \in Nat
  BY CronAssumption
<1>2. \A t \in 0..MaxTime : t \in Nat
  OBVIOUS
<1>3. QED
  BY <1>1, <1>2 DEF TypeOK

\* Starting executions keeps the tables well typed.
LEMMA ExecuteTypes ==
    ASSUME TypeOK, NEW js \in SUBSET Job, Execute(js)
    PROVE  /\ inflight' \subseteq Job
           /\ awaiting' \in [Job -> Nat]
           /\ runs' \in [Job -> Seq({"running", "success", "error"})]
           /\ next' \in [Job -> Slot \cup {None}]
<1>1. \A j \in Job : Append(runs[j], "running") \in Seq({"running", "success", "error"})
  BY DEF TypeOK
<1>2. QED
  BY <1>1 DEF Execute, TypeOK

LEMMA FireDueTypes ==
    ASSUME TypeOK, FireDue
    PROVE  /\ inflight' \subseteq Job
           /\ awaiting' \in [Job -> Nat]
           /\ runs' \in [Job -> Seq({"running", "success", "error"})]
           /\ next' \in [Job -> Slot \cup {None}]
           /\ consumed' \in [Job -> {0} \cup Slot]
<1> DEFINE js == {j \in Job : Due(j)} \ inflight
<1>1. js \in SUBSET Job /\ Execute(js)
  BY DEF FireDue
<1>2. \A j \in js : next[j] \in Slot
  BY DEF Due, TypeOK
<1>3. consumed' \in [Job -> {0} \cup Slot]
  BY <1>2 DEF FireDue, TypeOK
<1> HIDE DEF js
<1>4. QED
  BY <1>1, <1>3, ExecuteTypes

-----------------------------------------------------------------------------
\* Every variable keeps its type.
THEOREM TypeCorrect == Spec => []TypeOK
<1> USE CronAssumption
<1>1. Init => TypeOK
  BY DEF Init, TypeOK
<1>2. TypeOK /\ [Next]_vars => TypeOK'
  <2> SUFFICES ASSUME TypeOK, [Next]_vars PROVE TypeOK'
    OBVIOUS
  <2>1. ASSUME NEW j \in Job, AddJob(j) \/ UpdateJob(j) PROVE TypeOK'
    <3>1. PICK on \in BOOLEAN : \E t \in NextAfter(on) :
              /\ enabled' = [enabled EXCEPT ![j] = on]
              /\ next' = [next EXCEPT ![j] = t]
      BY <2>1 DEF AddJob, UpdateJob
    <3>2. PICK t \in NextAfter(on) : next' = [next EXCEPT ![j] = t]
      BY <3>1
    <3>3. t \in Slot \cup {None}
      BY <3>2, NextAfterComes
    <3>4. QED
      BY <2>1, <3>1, <3>2, <3>3 DEF AddJob, UpdateJob, TypeOK, process
  <2>2. ASSUME NEW j \in Job, DeleteJob(j) PROVE TypeOK'
    BY <2>2 DEF DeleteJob, TypeOK, process
  <2>3. ASSUME NEW j \in Job, ForceRun(j) PROVE TypeOK'
    <3>1. {j} \in SUBSET Job
      OBVIOUS
    <3>2. QED
      BY <2>3, <3>1, ExecuteTypes DEF ForceRun, TypeOK
  <2>4. ASSUME NEW j \in Job, NEW v \in Verdict, Settle(j, v) PROVE TypeOK'
    <3>1. awaiting' \in [Job -> Nat] /\ inflight' \subseteq Job
      BY <2>4 DEF Settle, TypeOK
    <3>2. runs' \in [Job -> Seq({"running", "success", "error"})] /\ next' \in [Job -> Slot \cup {None}]
      <4>1. CASE job[j] = "live"
        <5>1. PICK t \in NextAfter(enabled[j]) : next' = [next EXCEPT ![j] = t]
          BY <2>4, <4>1 DEF Settle
        <5>2. t \in Slot \cup {None}
          BY <5>1, NextAfterComes DEF TypeOK
        <5>3. Append(runs[j], v) \in Seq({"running", "success", "error"})
          BY DEF TypeOK, Verdict
        <5>4. runs' = [runs EXCEPT ![j] = Append(@, v)]
          BY <2>4, <4>1 DEF Settle
        <5>5. QED
          BY <5>1, <5>2, <5>3, <5>4 DEF TypeOK
      <4>2. CASE job[j] # "live"
        BY <2>4, <4>2 DEF Settle, TypeOK
      <4>3. QED
        BY <4>1, <4>2
    <3>3. QED
      BY <2>4, <3>1, <3>2 DEF Settle, TypeOK
  <2>5. CASE Tick
    BY <2>5, FireDueTypes DEF Tick, TypeOK
  <2>6. CASE Start
    BY <2>6, FireDueTypes DEF Start, TypeOK
  <2>7. CASE Pass
    BY <2>7 DEF Pass, TypeOK, table, process
  <2>8. CASE Stop
    BY <2>8 DEF Stop, TypeOK, table
  <2>9. CASE Restart
    <3>1. crashes \in Nat /\ crashes' \in 0..MaxCrashes
      BY <2>9 DEF Restart, TypeOK
    <3>2. awaiting' \in [Job -> Nat] /\ inflight' \subseteq Job /\ timer' \in BOOLEAN
      BY <2>9 DEF Restart
    <3>3. UNCHANGED <<now, job, enabled, next, runs, consumed>>
      BY <2>9 DEF Restart, table
    <3>4. QED
      BY <3>1, <3>2, <3>3 DEF TypeOK
  <2>10. CASE UNCHANGED vars
    BY <2>10 DEF TypeOK, vars, table, process
  <2>11. QED
    BY <2>1, <2>2, <2>3, <2>4, <2>5, <2>6, <2>7, <2>8, <2>9, <2>10 DEF Next, Verdict
<1>3. QED
  BY <1>1, <1>2, PTL DEF Spec

-----------------------------------------------------------------------------
\* A sweep of the due jobs keeps the scheduling facts: what it fires is over,
\* what it schedules is to come, and it starts nothing that is in flight.
LEMMA FireDueSchedules ==
    ASSUME TypeOK, Scheduling, FireDue, UNCHANGED <<now, job, enabled>>
    PROVE  Scheduling'
<1> USE CronAssumption
<1> DEFINE js == {j \in Job : Due(j)} \ inflight
<1>1. /\ js \subseteq Job
      /\ Execute(js)
      /\ consumed' = [j \in Job |-> IF j \in js THEN next[j] ELSE consumed[j]]
  BY DEF FireDue
<1>2. \A j \in js : job[j] = "live" /\ enabled[j] /\ next[j] # None /\ next[j] <= now /\ j \notin inflight
  BY DEF Due
<1> HIDE DEF js
<1>3. OneExecution'
  BY <1>1, <1>2 DEF Execute, OneExecution, Scheduling
<1>4. \A j \in Job : consumed'[j] <= now /\ consumed'[j] \in Nat
  BY <1>1, <1>2, TimesAreNumbers DEF Scheduling
<1>5. \A j \in Job : IF j \in js THEN next'[j] = None \/ (next'[j] \in Slot /\ next'[j] > now)
                               ELSE next'[j] = next[j]
  <2>1. SUFFICES ASSUME NEW j \in js
                 PROVE  next'[j] = None \/ (next'[j] \in Slot /\ next'[j] > now)
    BY <1>1 DEF Execute
  <2>2. next'[j] \in NextAfter(enabled[j]) /\ enabled[j] \in BOOLEAN
    BY <1>1 DEF Execute, TypeOK
  <2>3. QED
    BY <2>2, NextAfterComes
<1>6. SlotFiresOnce'
  <2>1. SUFFICES ASSUME NEW j \in Job, next'[j] # None PROVE next'[j] > consumed'[j]
    BY DEF SlotFiresOnce
  <2>2. CASE j \in js
    <3>1. next'[j] \in Nat /\ next'[j] > now
      BY <2>1, <2>2, <1>5, TimesAreNumbers
    <3>2. QED
      BY <3>1, <1>4, TimesAreNumbers
  <2>3. CASE j \notin js
    BY <2>1, <2>3, <1>1, <1>5 DEF Scheduling, SlotFiresOnce
  <2>4. QED
    BY <2>2, <2>3
<1>7. OnlyEnabledScheduled'
  BY <1>1, <1>2, <1>5 DEF Scheduling, OnlyEnabledScheduled
<1>8. QED
  BY <1>3, <1>4, <1>6, <1>7 DEF Scheduling

\* Giving one existing job a new time to come, if it is switched on, keeps them.
LEMMA Reschedules ==
    ASSUME TypeOK, Scheduling,
           NEW j \in Job, NEW on \in BOOLEAN, NEW t \in NextAfter(on),
           job' = [job EXCEPT ![j] = "live"],
           enabled' = [enabled EXCEPT ![j] = on],
           next' = [next EXCEPT ![j] = t],
           OneExecution',
           UNCHANGED <<now, consumed>>
    PROVE  Scheduling'
<1> USE CronAssumption
<1>1. t = None \/ (on /\ t \in Slot /\ t > now)
  BY NextAfterComes
<1>2. consumed[j] \in Nat /\ now \in Nat /\ consumed[j] <= now
  BY TimesAreNumbers DEF Scheduling
<1>3. t # None => t > consumed[j]
  <2>1. t # None => t \in Nat
    BY <1>1, TimesAreNumbers
  <2>2. QED
    BY <1>1, <1>2, <2>1
<1>4. SlotFiresOnce'
  BY <1>3 DEF SlotFiresOnce, Scheduling, TypeOK
<1>5. OnlyEnabledScheduled'
  BY <1>1 DEF OnlyEnabledScheduled, Scheduling, TypeOK
<1>6. QED
  BY <1>4, <1>5 DEF Scheduling, TypeOK

\* Scheduling is inductive.
LEMMA SchedulingHolds == Spec => []Scheduling
<1> USE CronAssumption
<1>1. Init => Scheduling
  BY DEF Init, Scheduling, OneExecution, SlotFiresOnce, OnlyEnabledScheduled
<1>2. TypeOK /\ Scheduling /\ [Next]_vars => Scheduling'
  <2> SUFFICES ASSUME TypeOK, Scheduling, [Next]_vars PROVE Scheduling'
    OBVIOUS
  <2>1. ASSUME NEW j \in Job, AddJob(j) \/ UpdateJob(j) PROVE Scheduling'
    <3>1. PICK on \in BOOLEAN : \E t \in NextAfter(on) :
              /\ enabled' = [enabled EXCEPT ![j] = on]
              /\ next' = [next EXCEPT ![j] = t]
      BY <2>1 DEF AddJob, UpdateJob
    <3>2. PICK t \in NextAfter(on) : next' = [next EXCEPT ![j] = t]
      BY <3>1
    <3>3. job' = [job EXCEPT ![j] = "live"]
      BY <2>1 DEF AddJob, UpdateJob, TypeOK
    <3>4. OneExecution' /\ UNCHANGED <<now, consumed>>
      BY <2>1 DEF AddJob, UpdateJob, process, OneExecution, Scheduling
    <3>5. QED
      BY <3>1, <3>2, <3>3, <3>4, Reschedules
  <2>2. ASSUME NEW j \in Job, DeleteJob(j) PROVE Scheduling'
    BY <2>2 DEF DeleteJob, process, Scheduling, OneExecution, SlotFiresOnce, OnlyEnabledScheduled, TypeOK
  <2>3. ASSUME NEW j \in Job, ForceRun(j) PROVE Scheduling'
    <3>1. Execute({j}) /\ job[j] = "live" /\ j \notin inflight /\ UNCHANGED <<now, job, enabled, consumed>>
      BY <2>3 DEF ForceRun
    <3>2. OneExecution'
      BY <3>1 DEF Execute, OneExecution, Scheduling
    <3>3. next'[j] \in NextAfter(enabled[j]) /\ enabled[j] \in BOOLEAN
      BY <3>1 DEF Execute, TypeOK
    <3>4. next' = [next EXCEPT ![j] = next'[j]]
      BY <3>1 DEF Execute, TypeOK
    <3>5. job' = [job EXCEPT ![j] = "live"] /\ enabled' = [enabled EXCEPT ![j] = enabled[j]]
      BY <3>1 DEF TypeOK
    <3>6. QED
      BY <3>1, <3>2, <3>3, <3>4, <3>5, Reschedules
  <2>4. ASSUME NEW j \in Job, NEW v \in Verdict, Settle(j, v) PROVE Scheduling'
    <3>1. OneExecution'
      BY <2>4 DEF Settle, OneExecution, Scheduling, TypeOK
    <3>2. CASE job[j] = "live"
      <4>1. PICK t \in NextAfter(enabled[j]) : next' = [next EXCEPT ![j] = t]
        BY <2>4, <3>2 DEF Settle
      <4>2. enabled[j] \in BOOLEAN /\ enabled' = [enabled EXCEPT ![j] = enabled[j]]
            /\ job' = [job EXCEPT ![j] = "live"] /\ UNCHANGED <<now, consumed>>
        BY <2>4, <3>2 DEF Settle, TypeOK
      <4>3. QED
        BY <3>1, <4>1, <4>2, Reschedules
    <3>3. CASE job[j] # "live"
      BY <2>4, <3>1, <3>3 DEF Settle, Scheduling, SlotFiresOnce, OnlyEnabledScheduled
    <3>4. QED
      BY <3>2, <3>3
  <2>5. CASE Tick \/ Start
    BY <2>5, FireDueSchedules DEF Tick, Start
  <2>6. CASE Pass
    <3>1. now' = now + 1 /\ UNCHANGED <<job, enabled, next, inflight, awaiting, consumed>>
      BY <2>6 DEF Pass, table, process
    <3>2. \A j \in Job : consumed[j] <= now'
      BY <3>1, TimesAreNumbers DEF Scheduling
    <3>3. QED
      BY <3>1, <3>2 DEF Scheduling, OneExecution, SlotFiresOnce, OnlyEnabledScheduled
  <2>7. CASE Stop \/ UNCHANGED vars
    BY <2>7 DEF Stop, vars, table, process, Scheduling, OneExecution, SlotFiresOnce, OnlyEnabledScheduled
  <2>8. CASE Restart
    BY <2>8 DEF Restart, table, Scheduling, OneExecution, SlotFiresOnce, OnlyEnabledScheduled
  <2>9. QED
    BY <2>1, <2>2, <2>3, <2>4, <2>5, <2>6, <2>7, <2>8 DEF Next, Verdict
<1>3. QED
  BY <1>1, <1>2, TypeCorrect, PTL DEF Spec

\* However ticks, forced runs, stops and starts of the loop, deletions and
\* restarts interleave, a job has at most one execution under way.
THEOREM ExecutionIsSingle == Spec => []OneExecution
<1>1. Scheduling => OneExecution
  BY DEF Scheduling
<1>2. QED
  BY <1>1, SchedulingHolds, PTL

\* No slot fires a job twice.
THEOREM SlotsFireOnce == Spec => []SlotFiresOnce
<1>1. Scheduling => SlotFiresOnce
  BY DEF Scheduling
<1>2. QED
  BY <1>1, SchedulingHolds, PTL

\* A job that is switched off or deleted is not scheduled again by what was
\* under way.
THEOREM OffIsUnscheduled == Spec => []OnlyEnabledScheduled
<1>1. Scheduling => OnlyEnabledScheduled
  BY DEF Scheduling
<1>2. QED
  BY <1>1, SchedulingHolds, PTL
-----------------------------------------------------------------------------
\* A history with a verdict at i has its "running" row before it, and one with
\* a "running" row at i goes on with its verdict, or the row is the newest of
\* an execution under way, or of one that a restart killed.
Paired(rs, underway, crashed) ==
    \A i \in 1..Len(rs) :
        IF rs[i] = "running"
        THEN (i < Len(rs) /\ rs[i + 1] # "running") \/ (i = Len(rs) /\ underway) \/ crashed
        ELSE i > 1 /\ rs[i - 1] = "running"

LEMMA PairedHistories ==
    ASSUME TypeOK
    PROVE  HistoryPairs <=> \A j \in Job : Paired(runs[j], j \in inflight, crashes > 0)
<1>1. \A j \in Job : DOMAIN runs[j] = 1..Len(runs[j])
  BY DEF TypeOK
<1>2. QED
  BY <1>1, Zenon DEF HistoryPairs, Paired

\* An execution starts on a history with none under way.
LEMMA PairedStart ==
    ASSUME NEW rs \in Seq({"running", "success", "error"}), NEW c \in BOOLEAN,
           Paired(rs, FALSE, c)
    PROVE  Paired(Append(rs, "running"), TRUE, c)
<1> DEFINE new == Append(rs, "running")
<1>1. Len(new) = Len(rs) + 1 /\ new[Len(rs) + 1] = "running" /\ Len(rs) \in Nat
      /\ \A i \in 1..Len(rs) : new[i] = rs[i]
  OBVIOUS
<1> HIDE DEF new
<1>2. SUFFICES ASSUME NEW i \in 1..Len(new)
               PROVE  IF new[i] = "running"
                      THEN (i < Len(new) /\ new[i + 1] # "running") \/ i = Len(new) \/ c
                      ELSE i > 1 /\ new[i - 1] = "running"
  BY DEF Paired, new
<1>3. CASE i = Len(rs) + 1
  BY <1>1, <1>3
<1>4. CASE i \in 1..Len(rs)
  <2>1. IF rs[i] = "running" THEN (i < Len(rs) /\ rs[i + 1] # "running") \/ c
                             ELSE i > 1 /\ rs[i - 1] = "running"
    BY <1>4 DEF Paired
  <2>2. CASE rs[i] = "running"
    BY <2>1, <2>2, <1>1, <1>4
  <2>3. CASE rs[i] # "running"
    BY <2>1, <2>3, <1>1, <1>4
  <2>4. QED
    BY <2>2, <2>3
<1>5. QED
  BY <1>1, <1>3, <1>4

\* A verdict follows the newest row of its execution.
LEMMA PairedVerdict ==
    ASSUME NEW rs \in Seq({"running", "success", "error"}), NEW c \in BOOLEAN, NEW v \in Verdict,
           rs # <<>>, rs[Len(rs)] = "running", Paired(rs, TRUE, c)
    PROVE  Paired(Append(rs, v), FALSE, c)
<1> DEFINE new == Append(rs, v)
<1>1. /\ Len(new) = Len(rs) + 1 /\ new[Len(rs) + 1] = v /\ Len(rs) \in Nat /\ Len(rs) > 0
      /\ \A i \in 1..Len(rs) : new[i] = rs[i]
  OBVIOUS
<1>2. v # "running"
  BY DEF Verdict
<1> HIDE DEF new
<1>3. SUFFICES ASSUME NEW i \in 1..Len(new)
               PROVE  IF new[i] = "running"
                      THEN (i < Len(new) /\ new[i + 1] # "running") \/ c
                      ELSE i > 1 /\ new[i - 1] = "running"
  BY DEF Paired, new
<1>4. CASE i = Len(rs) + 1
  BY <1>1, <1>2, <1>4
<1>5. CASE i \in 1..Len(rs)
  <2>1. IF rs[i] = "running" THEN (i < Len(rs) /\ rs[i + 1] # "running") \/ i = Len(rs) \/ c
                             ELSE i > 1 /\ rs[i - 1] = "running"
    BY <1>5 DEF Paired
  <2>2. CASE rs[i] = "running"
    BY <2>1, <2>2, <1>1, <1>2, <1>5
  <2>3. CASE rs[i] # "running"
    BY <2>1, <2>3, <1>1, <1>5
  <2>4. QED
    BY <2>2, <2>3
<1>6. QED
  BY <1>1, <1>4, <1>5

History == Newest /\ Gone /\ \A j \in Job : Paired(runs[j], j \in inflight, crashes > 0)

\* Executions of idle jobs that exist start on histories without one under way.
LEMMA ExecuteKeepsHistory ==
    ASSUME TypeOK, History, NEW js \in SUBSET Job, Execute(js),
           \A j \in js : j \notin inflight /\ job[j] = "live",
           UNCHANGED <<job, crashes>>
    PROVE  History'
<1>1. \A j \in Job : runs[j] \in Seq({"running", "success", "error"})
  BY DEF TypeOK
<1>2. /\ inflight' = inflight \cup js
      /\ \A j \in js : runs'[j] = Append(runs[j], "running")
      /\ \A j \in Job \ js : runs'[j] = runs[j]
  BY DEF Execute
<1>3. Newest'
  <2>1. SUFFICES ASSUME NEW j \in inflight'
                 PROVE  /\ job[j] # "none"
                        /\ job[j] = "live" => runs'[j] # <<>> /\ runs'[j][Len(runs'[j])] = "running"
    BY DEF Newest
  <2>2. CASE j \in js
    <3>1. runs'[j] = Append(runs[j], "running") /\ runs[j] \in Seq({"running", "success", "error"})
      BY <1>1, <1>2, <2>2
    <3>2. runs'[j] # <<>> /\ runs'[j][Len(runs'[j])] = "running"
      BY <3>1
    <3>3. QED
      BY <2>2, <3>2
  <2>3. CASE j \notin js
    BY <1>2, <2>1, <2>3 DEF History, Newest, TypeOK
  <2>4. QED
    BY <2>2, <2>3
<1>4. ASSUME NEW j \in Job PROVE Paired(runs'[j], j \in inflight', crashes' > 0)
  <2>1. Paired(runs[j], j \in inflight, crashes > 0) /\ crashes' = crashes
    BY DEF History
  <2>2. CASE j \in js
    <3>1. (j \in inflight) = FALSE /\ (j \in inflight') = TRUE /\ (crashes > 0) \in BOOLEAN
      BY <1>2, <2>2
    <3>2. Paired(Append(runs[j], "running"), TRUE, crashes > 0)
      BY <1>1, <2>1, <3>1, PairedStart
    <3>3. QED
      BY <1>2, <2>1, <2>2, <3>1, <3>2
  <2>3. CASE j \notin js
    <3>1. (j \in inflight') = (j \in inflight) /\ runs'[j] = runs[j]
      BY <1>2, <2>3
    <3>2. QED
      BY <2>1, <3>1
  <2>4. QED
    BY <2>2, <2>3
<1>5. Gone'
  BY <1>2 DEF History, Gone
<1>6. QED
  BY <1>3, <1>4, <1>5 DEF History

\* An execution of an existing job settles on a history that ends with its row.
LEMMA SettleKeepsHistory ==
    ASSUME TypeOK, Scheduling, History, NEW j \in Job, NEW v \in Verdict, Settle(j, v)
    PROVE  History'
<1>1. j \in inflight /\ inflight' = inflight \ {j} /\ UNCHANGED <<job, crashes>>
  BY DEF Settle, Scheduling, OneExecution
<1>2. \A i \in Job \ {j} : runs'[i] = runs[i]
  BY DEF Settle, TypeOK
<1>3. Newest'
  BY <1>1, <1>2 DEF History, Newest, TypeOK
<1>4. ASSUME NEW i \in Job \ {j} PROVE Paired(runs'[i], i \in inflight', crashes' > 0)
  <2>1. (i \in inflight') = (i \in inflight) /\ runs'[i] = runs[i] /\ crashes' = crashes
    BY <1>1, <1>2
  <2>2. QED
    BY <2>1 DEF History
<1>5. Paired(runs'[j], FALSE, crashes > 0)
  <2>1. Paired(runs[j], TRUE, crashes > 0)
    <3>1. (j \in inflight) = TRUE
      BY <1>1
    <3>2. QED
      BY <3>1 DEF History
  <2>2. CASE job[j] = "live"
    <3>1. runs[j] # <<>> /\ runs[j][Len(runs[j])] = "running"
      BY <1>1, <2>2 DEF History, Newest
    <3>2. runs[j] \in Seq({"running", "success", "error"}) /\ (crashes > 0) \in BOOLEAN
      BY DEF TypeOK
    <3>3. runs'[j] = Append(runs[j], v)
      BY <2>2 DEF Settle, TypeOK
    <3>4. QED
      BY <2>1, <3>1, <3>2, <3>3, PairedVerdict
  <2>3. CASE job[j] = "deleted"
    <3>1. runs'[j] = <<>>
      BY <1>1, <2>3 DEF Settle, History, Gone
    <3>2. QED
      BY <3>1 DEF Paired
  <2>4. QED
    BY <1>1, <2>2, <2>3 DEF Settle
<1>6. Gone'
  BY <1>1, <1>2 DEF History, Gone, Settle
<1>7. (j \in inflight') = FALSE /\ crashes' = crashes
  BY <1>1
<1>8. QED
  BY <1>3, <1>4, <1>5, <1>6, <1>7 DEF History

\* The history pairs up: every verdict follows the "running" row of its own
\* execution, whatever overlaps and whatever is deleted.
THEOREM HistoryIsPaired == Spec => []HistoryPairs
<1> USE CronAssumption
<1>1. Init => History
  BY DEF Init, History, Newest, Gone, Paired
<1>2. TypeOK /\ Scheduling /\ History /\ [Next]_vars => History'
  <2> SUFFICES ASSUME TypeOK, Scheduling, History, [Next]_vars PROVE History'
    OBVIOUS
  <2>1. ASSUME NEW j \in Job, AddJob(j) PROVE History'
    <3>1. j \notin inflight /\ UNCHANGED <<runs, inflight, crashes>>
      BY <2>1 DEF AddJob, process, History, Newest
    <3>2. \A i \in Job : (i # j => job'[i] = job[i]) /\ job'[j] = "live"
      BY <2>1 DEF AddJob, TypeOK
    <3>3. QED
      BY <3>1, <3>2 DEF History, Newest, Gone, TypeOK
  <2>2. ASSUME NEW j \in Job, UpdateJob(j) PROVE History'
    BY <2>2 DEF UpdateJob, process, History, Newest, Gone
  <2>3. ASSUME NEW j \in Job, DeleteJob(j) PROVE History'
    <3>1. UNCHANGED <<inflight, crashes>> /\ job'[j] = "deleted" /\ runs'[j] = <<>>
      BY <2>3 DEF DeleteJob, process, TypeOK
    <3>2. \A i \in Job \ {j} : job'[i] = job[i] /\ runs'[i] = runs[i]
      BY <2>3 DEF DeleteJob, TypeOK
    <3>3. Paired(<<>>, j \in inflight', crashes' > 0)
      BY DEF Paired
    <3>4. \A i \in Job \ {j} : Paired(runs'[i], i \in inflight', crashes' > 0)
      BY <3>1, <3>2 DEF History
    <3>5. \A i \in Job : Paired(runs'[i], i \in inflight', crashes' > 0)
      BY <3>1, <3>3, <3>4
    <3>6. Newest' /\ Gone'
      BY <3>1, <3>2 DEF History, Newest, Gone, TypeOK
    <3>7. QED
      BY <3>5, <3>6 DEF History
  <2>4. ASSUME NEW j \in Job, ForceRun(j) PROVE History'
    <3>1. {j} \in SUBSET Job /\ \A i \in {j} : i \notin inflight /\ job[i] = "live"
      BY <2>4 DEF ForceRun
    <3>2. QED
      BY <2>4, <3>1, ExecuteKeepsHistory DEF ForceRun
  <2>5. ASSUME NEW j \in Job, NEW v \in Verdict, Settle(j, v) PROVE History'
    BY <2>5, SettleKeepsHistory
  <2>6. CASE Tick \/ Start
    <3> DEFINE js == {j \in Job : Due(j)} \ inflight
    <3>1. Execute(js) /\ UNCHANGED <<job, crashes>>
      BY <2>6 DEF Tick, Start, FireDue
    <3>2. js \in SUBSET Job /\ \A j \in js : j \notin inflight /\ job[j] = "live"
      BY DEF Due
    <3> HIDE DEF js
    <3>3. QED
      BY <3>1, <3>2, ExecuteKeepsHistory
  <2>7. CASE Pass \/ Stop \/ UNCHANGED vars
    BY <2>7 DEF Pass, Stop, vars, table, process, History, Newest, Gone
  <2>8. CASE Restart
    <3>1. inflight' = {} /\ UNCHANGED <<job, runs>> /\ crashes' > 0
      BY <2>8 DEF Restart, table, TypeOK
    <3>2. ASSUME NEW j \in Job PROVE Paired(runs[j], FALSE, TRUE)
      BY DEF History, Paired
    <3>3. (crashes' > 0) = TRUE /\ \A j \in Job : (j \in inflight') = FALSE
      BY <3>1
    <3>4. QED
      BY <3>1, <3>2, <3>3 DEF History, Newest, Gone
  <2>9. QED
    BY <2>1, <2>2, <2>3, <2>4, <2>5, <2>6, <2>7, <2>8 DEF Next, Verdict
<1>3. TypeOK /\ History => HistoryPairs
  BY PairedHistories DEF History
<1>4. QED
  BY <1>1, <1>2, <1>3, TypeCorrect, SchedulingHolds, PTL DEF Spec

-----------------------------------------------------------------------------
(* nextFire.                                                               *)

\* Induction over the numbers of a set.
LEMMA SetInduction ==
    ASSUME NEW S, 0 \in S, \A n \in Nat : n \in S => n + 1 \in S
    PROVE  Nat \subseteq S
<1> SUFFICES ASSUME Nat \ S # {} PROVE FALSE
  OBVIOUS
<1>1. PICK x \in Nat \ S : \A y \in Nat \ S : ~(<<y, x>> \in OpToRel(<, Nat))
  BY NatLessThanWellFounded, WFMin
<1>2. x \in Nat /\ x # 0
  BY <1>1
<1>3. x - 1 \in Nat /\ x - 1 < x /\ (x - 1) + 1 = x
  BY <1>2
<1>4. <<x - 1, x>> \in OpToRel(<, Nat)
  BY <1>2, <1>3 DEF OpToRel
<1>5. x - 1 \in S
  BY <1>1, <1>3, <1>4
<1> QED
  BY <1>1, <1>3, <1>5

\* The numbers of a division, and of one in two steps.
LEMMA DivModIs == ASSUME NEW n \in Nat, NEW b \in Nat \ {0}
                  PROVE n \div b \in Nat /\ n % b \in 0..(b - 1) /\ n = b * (n \div b) + (n % b)
OBVIOUS

LEMMA Monotone == ASSUME NEW b \in Nat, NEW q \in Nat, NEW p \in Nat, q + 1 <= p PROVE b * q + b <= b * p
OBVIOUS

LEMMA DivUnique ==
    ASSUME NEW b \in Nat \ {0}, NEW q \in Nat, NEW r \in 0..(b - 1), NEW n \in Nat, n = b * q + r
    PROVE  n \div b = q /\ n % b = r
OBVIOUS

LEMMA Multiple ==
    ASSUME NEW b \in Nat \ {0}, NEW q \in Nat, NEW n, n = b * q
    PROVE  n \in Nat /\ n \div b = q /\ n % b = 0
OBVIOUS

\* Of two blocks of b numbers the one with the smaller number comes first.
LEMMA BlockBefore ==
    ASSUME NEW b \in Nat \ {0}, NEW p \in Nat, NEW q \in Nat, NEW x \in 0..(b - 1)
    PROVE  b * p + x < b * q <=> p < q
<1>1. ASSUME q + 1 <= p PROVE b * q + b <= b * p
  BY <1>1, Monotone
<1>2. ASSUME p + 1 <= q PROVE b * p + b <= b * q
  BY <1>2, Monotone
<1>3. b * p \in Nat /\ b * q \in Nat
  OBVIOUS
<1>4. p = q => b * p = b * q
  OBVIOUS
<1> QED
  BY <1>1, <1>2, <1>3, <1>4

LEMMA Blocks ==
    ASSUME NEW b \in Nat \ {0}, NEW p \in Nat, NEW q \in Nat, NEW x \in 0..(b - 1), NEW y \in 0..(b - 1),
           b * p + x <= b * q + y
    PROVE  p <= q
<1>1. ASSUME q + 1 <= p PROVE b * q + b <= b * p
  BY <1>1, Monotone
<1>2. b * p \in Nat /\ b * q \in Nat
  OBVIOUS
<1> QED
  BY <1>1, <1>2

LEMMA Distributes ==
    ASSUME NEW a \in Nat, NEW b \in Nat, NEW c \in Nat, NEW d \in Nat
    PROVE  a * (b * c + d) = (a * b) * c + a * d
OBVIOUS

LEMMA SumIsZero ==
    ASSUME NEW a \in Nat \ {0}, NEW b \in Nat, NEW c \in Nat
    PROVE  a * b + c = 0 <=> b = 0 /\ c = 0
OBVIOUS

LEMMA DivNested ==
    ASSUME NEW a \in Nat \ {0}, NEW b \in Nat \ {0}, NEW n \in Nat
    PROVE  a * b \in Nat \ {0} /\ n \div (a * b) = (n \div a) \div b
OBVIOUS

\* Within b numbers from a multiple of b the quotient stays, and then it is one more.
LEMMA RoundStays ==
    ASSUME NEW b \in Nat \ {0}, NEW t \in Nat, t % b = 0
    PROVE  /\ \A u \in t..(t + b - 1) : u \in Nat /\ u \div b = t \div b
           /\ (t + b) % b = 0 /\ (t + b) \div b = t \div b + 1
<1> DEFINE q == t \div b
<1>1. q \in Nat /\ t = b * q
  BY DivModIs
<1> HIDE DEF q
<1>2. ASSUME NEW u \in t..(t + b - 1) PROVE u \in Nat /\ u \div b = q
  <2>1. u \in Nat /\ u - t \in 0..(b - 1) /\ u = b * q + (u - t)
    BY <1>1, <1>2
  <2> QED
    BY <1>1, <2>1, DivUnique
<1>3. PICK p \in Nat : p = q + 1
  BY <1>1
<1>4. PICK s \in Nat : s = t + b /\ s = b * p + 0
  BY <1>1, <1>3
<1>5. 0 \in 0..(b - 1)
  OBVIOUS
<1>6. s \div b = p /\ s % b = 0
  BY <1>4, <1>5, DivUnique
<1> QED
  BY <1>2, <1>3, <1>4, <1>6 DEF q

\* A minute later the quotient is the same, or a multiple of b is reached.
LEMMA RoundEnds ==
    ASSUME NEW b \in Nat \ {0}, NEW t \in Nat
    PROVE  (t + 1) \div b = t \div b \/ (t + 1) % b = 0
<1> DEFINE q == t \div b
           r == t % b
<1>1. q \in Nat /\ r \in 0..(b - 1) /\ t = b * q + r
  BY DivModIs
<1> HIDE DEF q, r
<1>2. CASE r + 1 = b
  <2>1. t + 1 = b * (q + 1) + 0 /\ 0 \in 0..(b - 1) /\ q + 1 \in Nat /\ t + 1 \in Nat
    BY <1>1, <1>2
  <2> QED
    BY <2>1, DivUnique
<1>3. CASE r + 1 # b
  <2>1. t + 1 = b * q + (r + 1) /\ r + 1 \in 0..(b - 1) /\ t + 1 \in Nat
    BY <1>1, <1>3
  <2>2. (t + 1) \div b = q
    BY <1>1, <2>1, DivUnique
  <2> QED
    BY <2>2 DEF q
<1> QED
  BY <1>2, <1>3

-----------------------------------------------------------------------------
Year == Time!DaysBefore[Len(MonthLens) + 1]
Day(t) == t \div Time!MinutesPerDay
Hour(t) == t \div HourLen

LEMMA Lengths ==
    /\ HourLen \in Nat \ {0} /\ DayLen \in Nat \ {0} /\ WeekLen \in Nat \ {0}
    /\ Time!MinutesPerDay \in Nat \ {0} /\ Time!MinutesPerDay = HourLen * DayLen
    /\ Len(MonthLens) \in Nat \ {0}
    /\ \A m \in 1..Len(MonthLens) : MonthLens[m] \in Nat \ {0}
<1>1. HourLen \in Nat \ {0} /\ DayLen \in Nat \ {0} /\ WeekLen \in Nat \ {0}
  BY SchedulesAssumption
<1>2. Time!MinutesPerDay \in Nat \ {0} /\ Time!MinutesPerDay = HourLen * DayLen
  BY <1>1, DivNested DEF Time!MinutesPerDay
<1> QED
  BY <1>1, <1>2, SchedulesAssumption

\* The months follow one another.
LEMMA DaysBeforeIs ==
    Time!DaysBefore = [m \in 1..(Len(MonthLens) + 1) |->
                          IF m = 1 THEN 0 ELSE Time!DaysBefore[m - 1] + MonthLens[m - 1]]
<1> DEFINE S == {k \in Nat : \E f : f = [m \in 1..(k + 1) |-> IF m = 1 THEN 0 ELSE f[m - 1] + MonthLens[m - 1]]}
<1>1. 0 \in S
  <2> DEFINE f == [m \in 1..(0 + 1) |-> 0]
  <2>1. f = [m \in 1..(0 + 1) |-> IF m = 1 THEN 0 ELSE f[m - 1] + MonthLens[m - 1]]
    OBVIOUS
  <2> HIDE DEF f
  <2> QED
    BY <2>1
<1>2. ASSUME NEW k \in Nat, k \in S PROVE k + 1 \in S
  <2>1. PICK f : f = [m \in 1..(k + 1) |-> IF m = 1 THEN 0 ELSE f[m - 1] + MonthLens[m - 1]]
    BY <1>2
  <2> DEFINE g == [m \in 1..(k + 1 + 1) |-> IF m = k + 2 THEN f[k + 1] + MonthLens[k + 1] ELSE f[m]]
  <2>2. \A m \in 1..(k + 1 + 1) : g[m] = IF m = 1 THEN 0 ELSE g[m - 1] + MonthLens[m - 1]
    <3> SUFFICES ASSUME NEW m \in 1..(k + 1 + 1)
                 PROVE  g[m] = IF m = 1 THEN 0 ELSE g[m - 1] + MonthLens[m - 1]
      OBVIOUS
    <3>1. CASE m = 1
      BY <2>1, <3>1
    <3>2. CASE m # 1 /\ m # k + 2
      <4>1. f[m] = f[m - 1] + MonthLens[m - 1]
        BY <2>1, <3>2
      <4>2. g[m] = f[m] /\ g[m - 1] = f[m - 1]
        BY <3>2
      <4> QED
        BY <3>2, <4>1, <4>2
    <3>3. CASE m = k + 2
      <4>1. g[m] = f[k + 1] + MonthLens[k + 1] /\ g[m - 1] = f[k + 1] /\ m - 1 = k + 1 /\ m # 1
        BY <3>3
      <4> QED
        BY <3>3, <4>1
    <3> QED
      BY <3>1, <3>2, <3>3
  <2>3. g = [m \in 1..(k + 1 + 1) |-> g[m]]
    OBVIOUS
  <2> HIDE DEF g
  <2>4. g = [m \in 1..(k + 1 + 1) |-> IF m = 1 THEN 0 ELSE g[m - 1] + MonthLens[m - 1]]
    BY <2>2, <2>3
  <2> QED
    BY <2>4
<1>3. Len(MonthLens) \in S
  <2> HIDE DEF S
  <2> QED
    BY <1>1, <1>2, Lengths, SetInduction
<1> QED
  BY <1>3 DEF Time!DaysBefore

LEMMA MonthsFollow ==
    /\ Time!DaysBefore[1] = 0
    /\ \A m \in 1..(Len(MonthLens) + 1) : Time!DaysBefore[m] \in Nat
    /\ \A m \in 1..Len(MonthLens) : Time!DaysBefore[m + 1] = Time!DaysBefore[m] + MonthLens[m]
    /\ \A m, n \in 1..(Len(MonthLens) + 1) : m <= n => Time!DaysBefore[m] <= Time!DaysBefore[n]
<1> DEFINE D == Time!DaysBefore
           L == Len(MonthLens)
<1>1. D[1] = 0 /\ \A m \in 1..L : D[m + 1] = D[m] + MonthLens[m]
  <2>1. 1 \in 1..(L + 1) /\ D[1] = 0
    BY DaysBeforeIs, Lengths
  <2>2. ASSUME NEW m \in 1..L PROVE D[m + 1] = D[m] + MonthLens[m]
    <3>1. m + 1 \in 1..(L + 1) /\ m + 1 # 1 /\ (m + 1) - 1 = m
      BY Lengths
    <3> QED
      BY <3>1, DaysBeforeIs
  <2> QED
    BY <2>1, <2>2
<1> DEFINE S == {k \in Nat : k <= L => \A m \in 1..(k + 1) : D[m] \in Nat /\ D[m] <= D[k + 1]}
<1> HIDE DEF D
<1>2. 0 \in S
  BY <1>1
<1>3. ASSUME NEW k \in Nat, k \in S PROVE k + 1 \in S
  <2> SUFFICES ASSUME k + 1 <= L, NEW m \in 1..(k + 1 + 1)
               PROVE  D[m] \in Nat /\ D[m] <= D[k + 1 + 1]
    OBVIOUS
  <2>1. k + 1 \in 1..L /\ D[k + 1 + 1] = D[k + 1] + MonthLens[k + 1] /\ MonthLens[k + 1] \in Nat
    BY <1>1, Lengths
  <2>2. \A n \in 1..(k + 1) : D[n] \in Nat /\ D[n] <= D[k + 1]
    BY <1>3, Lengths
  <2>3. D[k + 1] \in Nat /\ k + 1 \in 1..(k + 1)
    BY <2>2
  <2>4. CASE m \in 1..(k + 1)
    BY <2>1, <2>2, <2>3, <2>4
  <2>5. CASE m = k + 1 + 1
    BY <2>1, <2>3, <2>5
  <2> QED
    BY <2>4, <2>5
<1>4. ASSUME NEW n \in 1..(L + 1) PROVE \A m \in 1..n : D[m] \in Nat /\ D[m] <= D[n]
  <2>1. PICK k \in Nat : n = k + 1 /\ k <= L
    <3>1. n - 1 \in Nat /\ n = (n - 1) + 1 /\ n - 1 <= L
      BY Lengths
    <3> QED
      BY <3>1
  <2>2. k \in S
    <3> HIDE DEF S
    <3> QED
      BY <1>2, <1>3, SetInduction
  <2> QED
    BY <2>1, <2>2
<1>5. \A n \in 1..(L + 1) : n \in 1..n
  BY Lengths
<1> QED
  BY <1>1, <1>4, <1>5, Lengths DEF D

-----------------------------------------------------------------------------
\* Each day of the year is in one month.
LEMMA MonthIs ==
    ASSUME NEW y \in Nat, y < Year
    PROVE  \E m \in 1..Len(MonthLens) :
               /\ Time!DaysBefore[m] <= y /\ y < Time!DaysBefore[m + 1]
               /\ \A k \in DOMAIN MonthLens :
                     Time!DaysBefore[k] <= y /\ y < Time!DaysBefore[k + 1] => k = m
<1> DEFINE D == Time!DaysBefore
           L == Len(MonthLens)
           S == {k \in Nat : k <= L /\ y < D[k + 1] => \E m \in 1..L : D[m] <= y /\ y < D[m + 1]}
<1>0. /\ D[1] = 0 /\ \A m \in 1..(L + 1) : D[m] \in Nat
      /\ \A m, n \in 1..(L + 1) : m <= n => D[m] <= D[n]
  BY MonthsFollow
<1> HIDE DEF D
<1>1. 0 \in S
  BY <1>0, Lengths
<1>2. ASSUME NEW k \in Nat, k \in S PROVE k + 1 \in S
  <2> SUFFICES ASSUME k + 1 <= L, y < D[k + 1 + 1] PROVE \E m \in 1..L : D[m] <= y /\ y < D[m + 1]
    OBVIOUS
  <2>1. k + 1 \in 1..L /\ D[k + 1] \in Nat
    BY <1>0, Lengths
  <2>2. CASE y < D[k + 1]
    BY <1>2, <2>1, <2>2, Lengths
  <2>3. CASE D[k + 1] <= y
    BY <2>1, <2>3
  <2> QED
    BY <2>1, <2>2, <2>3
<1>3. PICK m \in 1..L : D[m] <= y /\ y < D[m + 1]
  <2>1. L \in S
    <3> HIDE DEF S
    <3> QED
      BY <1>1, <1>2, Lengths, SetInduction
  <2> QED
    BY <2>1, Lengths DEF Year, D
<1>4. ASSUME NEW k \in DOMAIN MonthLens, D[k] <= y, y < D[k + 1] PROVE k = m
  <2>1. k \in 1..L /\ k \in 1..(L + 1) /\ k + 1 \in 1..(L + 1) /\ m \in 1..(L + 1) /\ m + 1 \in 1..(L + 1)
    BY SchedulesAssumption, Lengths
  <2>2. ~(k + 1 <= m) /\ ~(m + 1 <= k)
    BY <1>0, <1>3, <1>4, <2>1
  <2> QED
    BY <2>1, <2>2
<1> QED
  BY <1>3, <1>4 DEF D

LEMMA YearIs == Year \in Nat \ {0}
<1>1. /\ 1 \in 1..Len(MonthLens) /\ 2 \in 1..(Len(MonthLens) + 1) /\ Len(MonthLens) + 1 \in 1..(Len(MonthLens) + 1)
      /\ 2 <= Len(MonthLens) + 1 /\ 1 + 1 = 2
  BY Lengths
<1>2. Time!DaysBefore[2] = Time!DaysBefore[1] + MonthLens[1] /\ MonthLens[1] \in Nat \ {0}
  BY <1>1, MonthsFollow, Lengths
<1>3. Time!DaysBefore[2] <= Year /\ Year \in Nat
  BY <1>1, MonthsFollow DEF Year
<1> QED
  BY <1>2, <1>3, MonthsFollow

-----------------------------------------------------------------------------
\* Where a minute of a clock is, by its hour and its day.
OfYear(t) == Day(t) % Year
MonthOf(t) == CHOOSE k \in DOMAIN MonthLens :
                  Time!DaysBefore[k] <= OfYear(t) /\ OfYear(t) < Time!DaysBefore[k + 1]

LEMMA CalendarIs ==
    ASSUME NEW t \in Nat
    PROVE  Time!Calendar(t) = [minute |-> t % HourLen, hour |-> Hour(t) % DayLen,
                               day |-> OfYear(t) - Time!DaysBefore[MonthOf(t)] + 1,
                               month |-> MonthOf(t), dow |-> Day(t) % WeekLen]
BY DEF Time!Calendar, Hour, Day, OfYear, MonthOf, Year

\* What a machine makes of it: the weekday too is that of the day.
SeenDow(p, t) == IF p.west THEN ((Day(t) % WeekLen) + (WeekLen - 1)) % WeekLen ELSE Day(t) % WeekLen

LEMMA LocalIs ==
    ASSUME NEW p, NEW t \in Nat
    PROVE  /\ Time!Seen(p, t).minute = t % HourLen /\ Time!Seen(p, t).hour = Hour(t) % DayLen
           /\ Time!Seen(p, t).day = OfYear(t) - Time!DaysBefore[MonthOf(t)] + 1
           /\ Time!Seen(p, t).month = MonthOf(t) /\ Time!Seen(p, t).dow = SeenDow(p, t)
BY CalendarIs DEF Time!Seen, SeenDow

LEMMA Units ==
    ASSUME NEW t \in Nat
    PROVE  Hour(t) \in Nat /\ Day(t) \in Nat /\ Day(t) = Hour(t) \div DayLen
<1>1. Hour(t) \in Nat /\ Day(t) \in Nat
  BY Lengths, DivModIs DEF Hour, Day
<1> QED
  BY <1>1, Lengths, DivNested DEF Hour, Day

LEMMA SameDay ==
    ASSUME NEW p, NEW f, NEW t \in Nat, NEW u \in Nat, Day(u) = Day(t)
    PROVE  Time!DayMatches(f, Time!Seen(p, u)) <=> Time!DayMatches(f, Time!Seen(p, t))
<1>1. OfYear(u) = OfYear(t) /\ MonthOf(u) = MonthOf(t)
  BY DEF OfYear, MonthOf
<1>2. SeenDow(p, u) = SeenDow(p, t)
  BY DEF SeenDow
<1> QED
  BY <1>1, <1>2, LocalIs DEF Time!DayMatches

LEMMA SameHour ==
    ASSUME NEW p, NEW f, NEW t \in Nat, NEW u \in Nat, Hour(u) = Hour(t)
    PROVE  /\ Day(u) = Day(t)
           /\ Time!HourMatches(f, Time!Seen(p, u)) <=> Time!HourMatches(f, Time!Seen(p, t))
<1>1. Day(u) = Day(t)
  BY Units
<1> QED
  BY <1>1, SameDay, LocalIs DEF Time!HourMatches

\* The first minute of a day is the first of its first hour.
LEMMA Midnight ==
    ASSUME NEW t \in Nat
    PROVE  t % Time!MinutesPerDay = 0 <=> t % HourLen = 0 /\ Hour(t) % DayLen = 0
<1> DEFINE q == Hour(t)
           d == Day(t)
           M == Time!MinutesPerDay
<1>1. q \in Nat /\ t % HourLen \in 0..(HourLen - 1) /\ t = HourLen * q + (t % HourLen)
  BY Lengths, DivModIs DEF Hour
<1>2. d \in Nat /\ t % M \in 0..(M - 1) /\ t = M * d + (t % M)
  BY Lengths, DivModIs DEF Day
<1>3. q % DayLen \in 0..(DayLen - 1) /\ q = DayLen * d + (q % DayLen)
  BY <1>1, Lengths, DivModIs, Units
<1>4. M = HourLen * DayLen
  BY Lengths
<1> HIDE DEF q, d, M
<1>5. PICK x \in Nat : x = q % DayLen /\ q = DayLen * d + x
  BY <1>3, Lengths
<1>6. PICK r \in Nat : r = t % HourLen /\ t = HourLen * q + r
  BY <1>1, Lengths
<1>7. HourLen * (DayLen * d + x) = (HourLen * DayLen) * d + HourLen * x
  BY <1>2, Lengths, Distributes
<1>8. t = M * d + HourLen * x + r /\ HourLen * x \in Nat
  <2>1. HourLen * q = HourLen * (DayLen * d + x)
    BY <1>5
  <2>2. HourLen * q = M * d + HourLen * x
    BY <1>4, <1>7, <2>1
  <2>3. HourLen * x \in Nat
    BY Lengths
  <2> QED
    BY <1>6, <2>2, <2>3
<1>9. t % M = HourLen * x + r
  <2>1. M * d \in Nat
    BY <1>2, Lengths DEF M
  <2> QED
    BY <1>2, <1>8, <2>1
<1>10. HourLen * x + r = 0 <=> x = 0 /\ r = 0
  BY Lengths, SumIsZero
<1> QED
  BY <1>5, <1>6, <1>9, <1>10 DEF q, M

\* Until NextFirst it is the same month, and then it is midnight.
LEMMA MonthAhead ==
    ASSUME NEW t \in Nat
    PROVE  /\ Time!NextFirst(t) \in Nat /\ t < Time!NextFirst(t) /\ Time!NextFirst(t) % Time!MinutesPerDay = 0
           /\ \A u \in t..(Time!NextFirst(t) - 1) : u \in Nat /\ MonthOf(u) = MonthOf(t)
<1> DEFINE d == Day(t)
           y == OfYear(t)
           D == Time!DaysBefore
           M == Time!MinutesPerDay
<1>1. d \in Nat /\ t % M \in 0..(M - 1) /\ t = M * d + (t % M) /\ M \in Nat \ {0}
  BY Lengths, DivModIs DEF Day
<1>2. PICK n \in Nat : d = Year * n + y /\ y \in 0..(Year - 1)
  BY <1>1, YearIs, DivModIs DEF OfYear
<1>3. y \in Nat /\ y < Year
  BY <1>2, YearIs
<1>4. PICK m \in 1..Len(MonthLens) :
          /\ D[m] <= y /\ y < D[m + 1]
          /\ \A k \in DOMAIN MonthLens : D[k] <= y /\ y < D[k + 1] => k = m
  BY <1>3, MonthIs
<1>5. DOMAIN MonthLens = 1..Len(MonthLens)
  BY SchedulesAssumption
<1>6. MonthOf(t) = m
  BY <1>4, <1>5 DEF MonthOf
<1>7. /\ D[m] \in Nat /\ D[m + 1] \in Nat /\ D[m + 1] = D[m] + MonthLens[m] /\ MonthLens[m] \in Nat
      /\ D[m + 1] <= Year
  <2>1. m \in 1..(Len(MonthLens) + 1) /\ m + 1 \in 1..(Len(MonthLens) + 1)
        /\ Len(MonthLens) + 1 \in 1..(Len(MonthLens) + 1) /\ m + 1 <= Len(MonthLens) + 1
    BY Lengths
  <2> QED
    BY <2>1, MonthsFollow, Lengths DEF Year
<1>8. PICK e \in Nat : e = Year * n + D[m + 1] /\ d < e /\ Time!NextFirst(t) = e * M
  <2>1. Time!NextFirst(t) = (d - ((y - D[m] + 1) - 1) + MonthLens[m]) * M
    BY <1>6, CalendarIs DEF Time!NextFirst, Day
  <2>2. Year * n \in Nat
    BY YearIs
  <2>3. d - ((y - D[m] + 1) - 1) + MonthLens[m] = Year * n + D[m + 1]
    BY <1>2, <1>3, <1>7, <2>2
  <2>4. PICK e \in Nat : e = Year * n + D[m + 1]
    BY <1>7, <2>2
  <2>5. d < e
    BY <1>2, <1>3, <1>4, <1>7, <2>2, <2>4
  <2> QED
    BY <2>1, <2>3, <2>4, <2>5
<1> HIDE DEF d, y, D, M
<1>9. PICK z \in Nat : z = e * M /\ t < z /\ z % M = 0
  <2>1. PICK z \in Nat : z = M * e /\ z = e * M
    BY <1>1
  <2>2. PICK x \in 0..(M - 1) : t = M * d + x /\ 0 \in 0..(M - 1)
    BY <1>1
  <2>3. t < z
    <3>1. M * d + M <= M * e
      <4>1. M \in Nat /\ d \in Nat /\ d + 1 <= e
        BY <1>1, <1>8
      <4> QED
        BY <4>1, Monotone
    <3>2. M * d \in Nat /\ x < M
      BY <1>1
    <3> QED
      BY <1>1, <2>1, <2>2, <3>1, <3>2
  <2>4. z % M = 0
    BY <1>1, <2>1, Multiple
  <2> QED
    BY <2>1, <2>3, <2>4
<1>10. ASSUME NEW u \in t..(z - 1) PROVE u \in Nat /\ MonthOf(u) = m
  <2>1. u \in Nat /\ t <= u /\ u < z
    BY <1>9, <1>10
  <2>2. PICK v \in Nat : v = Day(u) /\ \E x \in 0..(M - 1) : u = M * v + x
    <3>1. Day(u) \in Nat /\ u % M \in 0..(M - 1) /\ u = M * Day(u) + (u % M)
      BY <1>1, <2>1, DivModIs DEF Day, M
    <3> QED
      BY <3>1
  <2>10. PICK x \in 0..(M - 1) : u = M * v + x
    BY <2>2
  <2>11. PICK x0 \in 0..(M - 1) : t = M * d + x0
    BY <1>1
  <2>3. d <= v
    BY <1>1, <2>1, <2>10, <2>11, Blocks
  <2>4. v < e
    <3>1. M * v + x < M * e
      BY <1>1, <1>9, <2>1, <2>10
    <3> QED
      BY <1>1, <1>8, <2>2, <3>1, BlockBefore
  <2>5. PICK w \in Nat : v = Year * n + w /\ D[m] <= w /\ w < D[m + 1]
    <3>1. PICK p \in Nat : p = Year * n
      BY YearIs
    <3>2. d = p + y /\ e = p + D[m + 1]
      BY <1>2, <1>8, <3>1
    <3>3. PICK w \in Nat : w = v - p /\ v = p + w
      BY <1>1, <1>3, <2>3, <3>2
    <3>4. y <= w /\ w < D[m + 1]
      BY <1>3, <1>7, <2>3, <2>4, <3>2, <3>3
    <3>5. D[m] <= w
      BY <1>3, <1>4, <1>7, <3>4
    <3> QED
      BY <3>1, <3>3, <3>4, <3>5
  <2>6. w \in 0..(Year - 1) /\ w < Year
    BY <1>7, <2>5, YearIs
  <2>7. OfYear(u) = w
    <3>1. Year \in Nat \ {0} /\ n \in Nat /\ w \in 0..(Year - 1) /\ v \in Nat /\ v = Year * n + w
      BY <2>5, <2>6, YearIs
    <3>2. v % Year = w
      BY <3>1, DivUnique
    <3> QED
      BY <2>2, <3>2 DEF OfYear
  <2>8. PICK k \in 1..Len(MonthLens) : \A j \in DOMAIN MonthLens : D[j] <= w /\ w < D[j + 1] => j = k
    BY <2>6, MonthIs DEF D
  <2>9. MonthOf(u) = m
    BY <1>5, <2>5, <2>7, <2>8 DEF MonthOf, D
  <2> QED
    BY <2>1, <2>9
<1>11. Time!NextFirst(t) = z
  BY <1>8, <1>9
<1> QED
  BY <1>6, <1>9, <1>10, <1>11 DEF M

-----------------------------------------------------------------------------
\* What the search does, by the clock of a zone that is never changed.
Hit(p, f, c) == Time!MinuteMatches(f, Time!Seen(p, c))
Leap(p, f, c) ==
    IF Time!Seen(p, c).month \notin f.months THEN Time!NextFirst(c)
    ELSE IF ~Time!DayMatches(f, Time!Seen(p, c)) THEN Time!NextDay(c)
    ELSE IF ~Time!HourMatches(f, Time!Seen(p, c)) THEN Time!NextHour(c)
    ELSE c + 1

\* The search goes forward; from where it may begin it skips no minute that matches
\* and comes to such a place again: within an hour that matches, at the full hour of
\* a day that matches, or at midnight.
Aligned(p, f, t) ==
    \/ Time!HourMatches(f, Time!Seen(p, t))
    \/ t % HourLen = 0 /\ Time!DayMatches(f, Time!Seen(p, t))
    \/ t % Time!MinutesPerDay = 0

LEMMA LeapMoves ==
    ASSUME NEW p, NEW f, NEW t \in Nat
    PROVE  Leap(p, f, t) \in Nat /\ t < Leap(p, f, t)
<1>1. Time!NextFirst(t) \in Nat /\ t < Time!NextFirst(t)
  BY MonthAhead
<1>2. Time!NextDay(t) \in Nat /\ t < Time!NextDay(t)
  BY Lengths DEF Time!NextDay
<1>3. Time!NextHour(t) \in Nat /\ t < Time!NextHour(t)
  BY Lengths DEF Time!NextHour
<1>4. t + 1 \in Nat /\ t < t + 1
  OBVIOUS
<1>5. Leap(p, f, t) \in {Time!NextFirst(t), Time!NextDay(t), Time!NextHour(t), t + 1}
  BY DEF Leap
<1> QED
  BY <1>1, <1>2, <1>3, <1>4, <1>5

LEMMA DayAhead ==
    ASSUME NEW p, NEW f, NEW t \in Nat, t % Time!MinutesPerDay = 0, ~Time!DayMatches(f, Time!Seen(p, t))
    PROVE  /\ \A u \in t..(Time!NextDay(t) - 1) : ~Hit(p, f, u)
           /\ Aligned(p, f, Time!NextDay(t))
<1>1. /\ \A u \in t..(t + Time!MinutesPerDay - 1) : u \in Nat /\ Day(u) = Day(t)
      /\ (t + Time!MinutesPerDay) % Time!MinutesPerDay = 0
  BY Lengths, RoundStays DEF Day
<1>2. \A u \in t..(t + Time!MinutesPerDay - 1) : ~Time!DayMatches(f, Time!Seen(p, u))
  BY <1>1, SameDay
<1>3. \A u \in t..(t + Time!MinutesPerDay - 1) : ~Hit(p, f, u)
  BY <1>2 DEF Hit, Time!MinuteMatches, Time!HourMatches
<1>4. Aligned(p, f, t + Time!MinutesPerDay)
  BY <1>1 DEF Aligned
<1> QED
  BY <1>3, <1>4, Lengths DEF Time!NextDay

LEMMA HourAhead ==
    ASSUME NEW p, NEW f, NEW t \in Nat, t % HourLen = 0, Time!DayMatches(f, Time!Seen(p, t)),
           ~Time!HourMatches(f, Time!Seen(p, t))
    PROVE  /\ \A u \in t..(Time!NextHour(t) - 1) : ~Hit(p, f, u)
           /\ Aligned(p, f, Time!NextHour(t))
<1>1. PICK v \in Nat : v = t + HourLen
  BY Lengths
<1>2. /\ \A u \in t..(t + HourLen - 1) : u \in Nat /\ Hour(u) = Hour(t)
      /\ v % HourLen = 0 /\ Hour(v) = Hour(t) + 1
  BY <1>1, Lengths, RoundStays DEF Hour
<1>3. \A u \in t..(t + HourLen - 1) : ~Time!HourMatches(f, Time!Seen(p, u))
  BY <1>2, SameHour
<1>4. Day(v) = Day(t) \/ Hour(v) % DayLen = 0
  <2>1. (Hour(t) + 1) \div DayLen = Hour(t) \div DayLen \/ (Hour(t) + 1) % DayLen = 0
    BY Units, Lengths, RoundEnds
  <2> QED
    BY <1>2, <2>1, Units
<1>5. Aligned(p, f, v)
  <2>1. CASE Day(v) = Day(t)
    BY <1>2, <2>1, SameDay DEF Aligned
  <2>2. CASE Hour(v) % DayLen = 0
    BY <1>2, <2>2, Midnight DEF Aligned
  <2> QED
    BY <1>4, <2>1, <2>2
<1>6. \A u \in t..(t + HourLen - 1) : ~Hit(p, f, u)
  BY <1>3 DEF Hit, Time!MinuteMatches
<1>7. Aligned(p, f, t + HourLen)
  BY <1>1, <1>5
<1> QED
  BY <1>6, <1>7, Lengths DEF Time!NextHour

LEMMA MinuteAhead ==
    ASSUME NEW p, NEW f, NEW t \in Nat, Time!HourMatches(f, Time!Seen(p, t))
    PROVE  Aligned(p, f, t + 1)
<1>1. PICK v \in Nat : v = t + 1
  OBVIOUS
<1>2. Hour(v) = Hour(t) \/ v % HourLen = 0
  BY <1>1, Lengths, RoundEnds DEF Hour
<1>3. CASE Hour(v) = Hour(t)
  BY <1>1, <1>3, SameHour DEF Aligned
<1>4. CASE v % HourLen = 0
  <2>1. Day(v) = Day(t) \/ v % Time!MinutesPerDay = 0
    BY <1>1, Lengths, RoundEnds DEF Day
  <2>2. CASE Day(v) = Day(t)
    BY <1>1, <1>4, <2>2, SameDay DEF Aligned, Time!HourMatches
  <2> QED
    BY <1>1, <2>1, <2>2 DEF Aligned
<1> QED
  BY <1>2, <1>3, <1>4

LEMMA LeapSkipsNone ==
    ASSUME NEW p, NEW f, NEW t \in Nat, Aligned(p, f, t), ~Hit(p, f, t)
    PROVE  /\ \A u \in t..(Leap(p, f, t) - 1) : ~Hit(p, f, u)
           /\ Aligned(p, f, Leap(p, f, t))
<1>1. CASE ~Time!DayMatches(f, Time!Seen(p, t))
  <2>1. t % Time!MinutesPerDay = 0
    BY <1>1 DEF Aligned, Time!HourMatches
  <2>2. CASE Time!Seen(p, t).month \in f.months
    BY <1>1, <2>1, <2>2, DayAhead DEF Leap
  <2>3. CASE Time!Seen(p, t).month \notin f.months
    <3>1. \A u \in t..(Time!NextFirst(t) - 1) : ~Hit(p, f, u)
      BY <2>3, MonthAhead, LocalIs DEF Hit, Time!MinuteMatches, Time!HourMatches, Time!DayMatches
    <3>2. Aligned(p, f, Time!NextFirst(t))
      BY MonthAhead DEF Aligned
    <3> QED
      BY <2>3, <3>1, <3>2 DEF Leap
  <2> QED
    BY <2>2, <2>3
<1>2. CASE Time!DayMatches(f, Time!Seen(p, t)) /\ ~Time!HourMatches(f, Time!Seen(p, t))
  <2>1. t % HourLen = 0
    BY <1>2, Midnight DEF Aligned
  <2>2. Leap(p, f, t) = Time!NextHour(t)
    BY <1>2 DEF Leap, Time!DayMatches
  <2> QED
    BY <1>2, <2>1, <2>2, HourAhead
<1>3. CASE Time!HourMatches(f, Time!Seen(p, t))
  <2>1. Leap(p, f, t) = t + 1
    BY <1>3 DEF Leap, Time!HourMatches, Time!DayMatches
  <2>2. \A u \in t..(t + 1 - 1) : u = t
    OBVIOUS
  <2> QED
    BY <1>3, <2>1, <2>2, MinuteAhead
<1> QED
  BY <1>1, <1>2, <1>3

-----------------------------------------------------------------------------
\* By the minutes counted the search is as far from the clock as the zone.
LEMMA ClockIs ==
    ASSUME NEW p \in Places, NEW t \in Int
    PROVE  /\ Time!Offset(p, t) \in Nat /\ Time!Clock(p, t) = t + Time!Offset(p, t)
           /\ p.summer = {} => Time!Offset(p, t) = p.standard
<1>1. p.standard \in Nat /\ HourLen \in Nat
  BY SchedulesAssumption
<1>2. Time!Offset(p, t) \in {p.standard, p.standard + HourLen}
      /\ (p.summer = {} => Time!Offset(p, t) = p.standard)
  BY <1>1 DEF Time!Offset
<1> QED
  BY <1>1, <1>2 DEF Time!Clock

LEMMA MatchesIs ==
    ASSUME NEW p, NEW f, NEW t
    PROVE  Time!Matches(p, f, t) <=> Hit(p, f, Time!Clock(p, t))
BY DEF Time!Matches, Time!Local, Hit

LEMMA NextMonthIs ==
    ASSUME NEW p \in Places, NEW t \in Nat
    PROVE  /\ Time!NextMonth(p, t) \in Int
           /\ Steady(p) => Time!NextMonth(p, t) = Time!NextFirst(Time!Clock(p, t)) - p.standard
<1>1. PICK c \in Nat : c = Time!Clock(p, t)
  BY ClockIs
<1>2. PICK first \in Nat : first = Time!NextFirst(c)
  BY <1>1, MonthAhead
<1>3. PICK rough \in Int : rough = first - Utc
  BY SchedulesAssumption
<1>4. PICK o \in Nat : o = Time!Offset(p, rough) /\ (p.summer = {} => o = p.standard)
  BY <1>3, ClockIs
<1>5. PICK late \in Nat : /\ late = IF p.h24 /\ o = Utc THEN Time!MinutesPerDay ELSE 0
                          /\ Steady(p) => late = 0
  BY <1>4, Lengths DEF Steady
<1>6. Time!NextMonth(p, t) = first - (o + late)
  BY <1>1, <1>2, <1>3, <1>4, <1>5 DEF Time!NextMonth, Time!DateInTimezone
<1> QED
  BY <1>1, <1>2, <1>4, <1>5, <1>6 DEF Steady

LEMMA AheadMoves ==
    ASSUME NEW p \in Places, NEW f, NEW t \in Nat
    PROVE  /\ Time!Ahead(p, f, t) \in Int
           /\ Steady(p) => t < Time!Ahead(p, f, t)
                           /\ Time!Ahead(p, f, t) = Leap(p, f, Time!Clock(p, t)) - p.standard
<1>1. PICK z \in Nat : z = p.standard
  BY SchedulesAssumption
<1>2. Steady(p) => Time!Clock(p, t) = t + z
  BY <1>1, ClockIs DEF Steady
<1>3. /\ Time!NextMonth(p, t) \in Int /\ Time!NextDay(t) \in Int /\ Time!NextHour(t) \in Int /\ t + 1 \in Int
      /\ Time!NextDay(t) = t + Time!MinutesPerDay /\ Time!NextHour(t) = t + HourLen
  BY NextMonthIs, Lengths DEF Time!NextDay, Time!NextHour
<1>4. Time!Ahead(p, f, t) \in Int
  BY <1>3 DEF Time!Ahead
<1>5. ASSUME Steady(p)
      PROVE  t < Time!Ahead(p, f, t) /\ Time!Ahead(p, f, t) = Leap(p, f, Time!Clock(p, t)) - p.standard
  <2>1. PICK c \in Nat : c = Time!Clock(p, t) /\ c = t + z
    BY <1>2, <1>5
  <2>2. Leap(p, f, c) \in Nat /\ c < Leap(p, f, c)
    BY <2>1, LeapMoves
  <2>3. Time!NextMonth(p, t) = Time!NextFirst(c) - z
    BY <1>1, <1>5, <2>1, NextMonthIs
  <2>4. Time!NextDay(t) = Time!NextDay(c) - z /\ Time!NextHour(t) = Time!NextHour(c) - z /\ t + 1 = (c + 1) - z
    BY <1>3, <2>1, Lengths DEF Time!NextDay, Time!NextHour
  <2>5. Time!Ahead(p, f, t) = Leap(p, f, c) - z
    BY <2>1, <2>3, <2>4 DEF Time!Ahead, Time!Local, Leap
  <2> QED
    BY <1>1, <2>1, <2>2, <2>5
<1> QED
  BY <1>4, <1>5

LEMMA AheadSkipsNone ==
    ASSUME NEW p \in Places, NEW f, NEW t \in Nat, Steady(p),
           Aligned(p, f, Time!Clock(p, t)), ~Time!Matches(p, f, t)
    PROVE  /\ \A u \in t..(Time!Ahead(p, f, t) - 1) : ~Time!Matches(p, f, u)
           /\ Aligned(p, f, Time!Clock(p, Time!Ahead(p, f, t)))
<1>1. PICK z \in Nat : z = p.standard /\ \A u \in Int : Time!Clock(p, u) = u + z
  BY SchedulesAssumption, ClockIs DEF Steady
<1>2. PICK c \in Nat : c = t + z /\ c = Time!Clock(p, t)
  BY <1>1
<1>3. PICK d \in Nat : d = Leap(p, f, c) /\ c < d
  BY LeapMoves
<1>4. (\A u \in c..(d - 1) : ~Hit(p, f, u)) /\ Aligned(p, f, d)
  <2>1. ~Hit(p, f, c) /\ Aligned(p, f, c)
    BY <1>2, MatchesIs
  <2> QED
    BY <1>3, <2>1, LeapSkipsNone
<1>5. PICK v \in Int : v = Time!Ahead(p, f, t) /\ v = d - z
  BY <1>1, <1>2, <1>3, AheadMoves
<1>6. ASSUME NEW u \in t..(v - 1) PROVE ~Time!Matches(p, f, u)
  <2>1. u \in Int /\ u + z \in c..(d - 1) /\ Time!Clock(p, u) = u + z
    BY <1>1, <1>2, <1>3, <1>5
  <2> QED
    BY <1>4, <2>1, MatchesIs
<1>7. Time!Clock(p, v) = d
  BY <1>1, <1>3, <1>5
<1> QED
  BY <1>4, <1>5, <1>6, <1>7

-----------------------------------------------------------------------------
\* What the machine matches, and what the expression names.
LEMMA ToldMatches ==
    ASSUME NEW p \in Places, NEW f \in Fields, NEW t \in Nat
    PROVE  /\ Time!Matches(p, f, t) => Time!Names(p, Told(p, f), t)
           /\ Told(p, f) = f => (Time!Matches(p, f, t) <=> Time!Names(p, f, t))
           /\ Told(p, f) = f /\ Time!HourMatches(f, Time!Calendar(Time!Clock(p, t)))
              => Time!HourMatches(f, Time!Seen(p, Time!Clock(p, t)))
<1>1. PICK c \in Nat : c = Time!Clock(p, t)
  BY ClockIs
<1> DEFINE l == Time!Calendar(c)
           s == Time!Seen(p, c)
           days == 0..(WeekLen - 1)
<1>2. /\ s.minute = l.minute /\ s.hour = l.hour /\ s.day = l.day /\ s.month = l.month
      /\ l.dow = Day(c) % WeekLen /\ s.dow = SeenDow(p, c)
  BY CalendarIs, LocalIs
<1>3. l.dow \in days /\ s.dow \in days
  <2>1. PICK d \in days : d = Day(c) % WeekLen
    BY Lengths, Units, DivModIs
  <2>2. (d + (WeekLen - 1)) % WeekLen \in days
    BY Lengths
  <2> QED
    BY <1>2, <2>1, <2>2 DEF SeenDow
<1>4. ~p.west => s.dow = l.dow
  BY <1>2 DEF SeenDow
<1>5. /\ Told(p, f).minutes = f.minutes /\ Told(p, f).hours = f.hours /\ Told(p, f).days = f.days
      /\ Told(p, f).months = f.months /\ Told(p, f).dows = IF p.west THEN days ELSE f.dows
  BY SchedulesAssumption DEF Told
<1> HIDE DEF l, s, days
<1>6. Time!MinuteMatches(f, s) => Time!MinuteMatches(Told(p, f), l)
  BY <1>2, <1>3, <1>4, <1>5 DEF Time!MinuteMatches, Time!HourMatches, Time!DayMatches
<1>7. ASSUME Told(p, f) = f PROVE s.dow \in f.dows <=> l.dow \in f.dows
  BY <1>3, <1>4, <1>5, <1>7
<1>8. Told(p, f) = f => /\ Time!MinuteMatches(f, s) <=> Time!MinuteMatches(f, l)
                        /\ Time!HourMatches(f, s) <=> Time!HourMatches(f, l)
  BY <1>2, <1>7 DEF Time!MinuteMatches, Time!HourMatches, Time!DayMatches
<1>9. /\ Time!Matches(p, f, t) <=> Time!MinuteMatches(f, s)
      /\ \A g : Time!Names(p, g, t) <=> Time!MinuteMatches(g, l)
  BY <1>1 DEF Time!Matches, Time!Local, Time!Names, l, s
<1>10. Time!Calendar(Time!Clock(p, t)) = l /\ Time!Seen(p, Time!Clock(p, t)) = s
  BY <1>1 DEF l, s
<1> QED
  BY <1>6, <1>8, <1>9, <1>10

-----------------------------------------------------------------------------
\* The search, as a recursive function.
Turn(p, f, after, s, t) ==
    IF t >= after + Horizon THEN None
    ELSE IF Time!Matches(p, f, t) THEN t
    ELSE IF Time!Ahead(p, f, t) <= t THEN Endless
    ELSE s[Time!Ahead(p, f, t)]

Search(p, f, after) ==
    LET search[t \in Nat] ==
            IF t >= after + Horizon THEN None
            ELSE IF Time!Matches(p, f, t) THEN t
            ELSE IF Time!Ahead(p, f, t) <= t THEN Endless
            ELSE search[Time!Ahead(p, f, t)]
    IN  search

\* It is defined from its end backwards.
LEMMA SearchIs ==
    ASSUME NEW p \in Places, NEW f, NEW after \in Nat
    PROVE  Search(p, f, after) = [t \in Nat |-> Turn(p, f, after, Search(p, f, after), t)]
<1> DEFINE cap == after + Horizon
           From(n) == {t \in Nat : cap <= t + n}
           S == {n \in Nat : \E s : s = [t \in From(n) |-> Turn(p, f, after, s, t)]}
<1>0. cap \in Nat
  BY SchedulesAssumption
<1>1. 0 \in S
  <2> DEFINE s == [t \in From(0) |-> None]
  <2>1. s = [t \in From(0) |-> Turn(p, f, after, s, t)]
    BY <1>0 DEF Turn
  <2> HIDE DEF s
  <2> QED
    BY <2>1
<1>2. ASSUME NEW n \in Nat, n \in S PROVE n + 1 \in S
  <2>1. PICK s : s = [t \in From(n) |-> Turn(p, f, after, s, t)]
    BY <1>2
  <2> DEFINE g == [t \in From(n + 1) |-> IF t \in From(n) THEN s[t] ELSE Turn(p, f, after, s, t)]
  <2>2. ASSUME NEW t \in From(n + 1) PROVE g[t] = Turn(p, f, after, g, t)
    <3>1. t \in Nat /\ Time!Ahead(p, f, t) \in Int
      BY AheadMoves
    <3>2. ~(Time!Ahead(p, f, t) <= t) =>
             Time!Ahead(p, f, t) \in From(n) /\ Time!Ahead(p, f, t) \in From(n + 1)
      BY <1>0, <2>2, <3>1
    <3>3. ~(Time!Ahead(p, f, t) <= t) => g[Time!Ahead(p, f, t)] = s[Time!Ahead(p, f, t)]
      BY <3>2
    <3>4. g[t] = Turn(p, f, after, s, t)
      BY <2>1, <2>2
    <3> QED
      BY <3>3, <3>4 DEF Turn
  <2>3. g = [t \in From(n + 1) |-> g[t]]
    OBVIOUS
  <2> HIDE DEF g
  <2>4. g = [t \in From(n + 1) |-> Turn(p, f, after, g, t)]
    BY <2>2, <2>3
  <2> QED
    BY <2>4
<1>3. cap \in S
  <2> HIDE DEF S, cap
  <2> QED
    BY <1>0, <1>1, <1>2, SetInduction
<1>4. From(cap) = Nat
  BY <1>0
<1>5. \E s : s = [t \in Nat |-> Turn(p, f, after, s, t)]
  <2> HIDE DEF From, cap
  <2> QED
    BY <1>3, <1>4
<1> QED
  BY <1>5 DEF Search, Turn

\* r is the first minute from t on that matches, or there is none before the horizon.
First(p, f, after, t, r) ==
    \/ r = None /\ \A u \in t..(after + Horizon - 1) : ~Time!Matches(p, f, u)
    \/ r \in t..(after + Horizon - 1) /\ Time!Matches(p, f, r) /\ \A u \in t..(r - 1) : ~Time!Matches(p, f, u)

LEMMA SearchFinds ==
    ASSUME NEW p \in Places, NEW f, NEW after \in Nat, NEW t \in Nat
    PROVE  LET r == Search(p, f, after)[t]
           IN  /\ r \notin {None, Endless} => r \in Nat /\ t <= r /\ Time!Matches(p, f, r)
               /\ Steady(p) => r # Endless
               /\ Steady(p) /\ Aligned(p, f, Time!Clock(p, t)) => First(p, f, after, t, r)
<1> DEFINE cap == after + Horizon
           s == Search(p, f, after)
           Found(u) ==
              /\ s[u] \notin {None, Endless} => s[u] \in Nat /\ u <= s[u] /\ Time!Matches(p, f, s[u])
              /\ Steady(p) => s[u] # Endless
              /\ Steady(p) /\ Aligned(p, f, Time!Clock(p, u)) => First(p, f, after, u, s[u])
           S == {n \in Nat : \A u \in Nat : cap <= u + n => Found(u)}
<1>0. cap \in Nat /\ Horizon \in Nat /\ Endless \notin Nat /\ Endless # None
  BY SchedulesAssumption
<1>1. \A u \in Nat : s[u] = Turn(p, f, after, s, u)
  BY SearchIs
<1> HIDE DEF s
<1>2. 0 \in S
  BY <1>0, <1>1 DEF Turn, First
<1>3. ASSUME NEW n \in Nat, n \in S PROVE n + 1 \in S
  <2> SUFFICES ASSUME NEW u \in Nat, cap <= u + (n + 1) PROVE Found(u)
    OBVIOUS
  <2>1. CASE u >= cap
    BY <1>0, <1>1, <2>1 DEF Turn, First
  <2>2. CASE ~(u >= cap) /\ Time!Matches(p, f, u)
    <3>1. s[u] = u
      BY <1>1, <2>2 DEF Turn
    <3>2. u \in u..(cap - 1) /\ u..(u - 1) = {}
      BY <1>0, <2>2
    <3>3. First(p, f, after, u, u)
      <4>1. \A w \in u..(u - 1) : ~Time!Matches(p, f, w)
        BY <3>2
      <4>2. u \in u..(after + Horizon - 1) /\ Time!Matches(p, f, u)
        BY <1>0, <2>2, <3>2
      <4> QED
        BY <4>1, <4>2 DEF First
    <3> QED
      BY <1>0, <2>2, <3>1, <3>3
  <2>3. CASE ~(u >= cap) /\ ~Time!Matches(p, f, u) /\ Time!Ahead(p, f, u) <= u
    <3>1. s[u] = Endless
      BY <1>1, <2>3 DEF Turn
    <3>2. ~Steady(p)
      BY <2>3, AheadMoves
    <3> QED
      BY <3>1, <3>2
  <2>4. CASE ~(u >= cap) /\ ~Time!Matches(p, f, u) /\ ~(Time!Ahead(p, f, u) <= u)
    <3>1. PICK v \in Nat : v = Time!Ahead(p, f, u) /\ u < v
      BY <2>4, AheadMoves
    <3>2. s[u] = s[v]
      BY <1>1, <2>4, <3>1 DEF Turn
    <3>3. Found(v)
      <4>1. cap <= v + n
        BY <1>0, <3>1
      <4> QED
        BY <1>3, <4>1
    <3>4. ASSUME Steady(p), Aligned(p, f, Time!Clock(p, u)) PROVE First(p, f, after, u, s[u])
      <4>1. Aligned(p, f, Time!Clock(p, v)) /\ \A w \in u..(v - 1) : ~Time!Matches(p, f, w)
        BY <2>4, <3>1, <3>4, AheadSkipsNone
      <4>2. First(p, f, after, v, s[v])
        BY <3>3, <3>4, <4>1
      <4>3. CASE s[v] = None /\ \A w \in v..(after + Horizon - 1) : ~Time!Matches(p, f, w)
        BY <1>0, <3>1, <3>2, <4>1, <4>3 DEF First
      <4>4. CASE /\ s[v] \in v..(after + Horizon - 1) /\ Time!Matches(p, f, s[v])
                 /\ \A w \in v..(s[v] - 1) : ~Time!Matches(p, f, w)
        BY <1>0, <3>1, <3>2, <4>1, <4>4 DEF First
      <4> QED
        BY <4>2, <4>3, <4>4 DEF First
    <3> QED
      BY <3>1, <3>2, <3>3, <3>4
  <2> QED
    BY <2>1, <2>2, <2>3, <2>4
<1>4. cap \in S
  <2> HIDE DEF S, cap
  <2> QED
    BY <1>0, <1>2, <1>3, SetInduction
<1>5. Found(t)
  BY <1>0, <1>4
<1> QED
  BY <1>5 DEF s

LEMMA EarliestIsFirst ==
    ASSUME NEW p \in Places, NEW f \in Fields, Told(p, f) = f, NEW after \in Nat, NEW r,
           First(p, f, after, after + 1, r)
    PROVE  r = Time!Earliest(p, f, after)
<1> DEFINE due == {t \in (after + 1)..(after + Horizon - 1) : Time!Names(p, f, t)}
<1>0. Time!Earliest(p, f, after) = IF due = {} THEN None ELSE CHOOSE t \in due : \A u \in due : t <= u
  BY DEF Time!Earliest
<1>1. \A u \in Nat : Time!Matches(p, f, u) <=> Time!Names(p, f, u)
  BY ToldMatches
<1>2. Horizon \in Nat
  BY SchedulesAssumption
<1>3. CASE r = None /\ \A u \in (after + 1)..(after + Horizon - 1) : ~Time!Matches(p, f, u)
  <2>1. due = {}
    BY <1>1, <1>2, <1>3
  <2> QED
    BY <1>0, <1>3, <2>1
<1>4. CASE /\ r \in (after + 1)..(after + Horizon - 1) /\ Time!Matches(p, f, r)
           /\ \A u \in (after + 1)..(r - 1) : ~Time!Matches(p, f, u)
  <2>1. r \in due /\ \A u \in due : u \in Nat /\ r <= u
    BY <1>1, <1>2, <1>4
  <2>2. \A t \in due : (\A u \in due : t <= u) => t = r
    BY <2>1
  <2> QED
    BY <1>0, <2>1, <2>2
<1> QED
  BY <1>3, <1>4 DEF First

\* Whatever the calendar, the expression, the zone and the machine: what nextFire answers is
\* a later minute the expression names, but for the weekday on a machine west of UTC, and the
\* first of them if the search begins within an hour that matches and the zone keeps its
\* clock; and it does answer where midnight is not written as 24 in UTC (cronParser.ts).
THEOREM NextFireIsRight == Spec => []NextFireIsSound
<1>1. ASSUME NEW p, NEW f, NEW t \in Nat
      PROVE  Time!NextFire(p, f, t) = Search(p, f, t)[t + 1] /\ t + 1 \in Nat
  BY DEF Time!NextFire, Search
<1>2. FiresOnlyWhenDue
  <2> SUFFICES ASSUME NEW p \in Places, NEW f \in Fields, NEW t \in Reference,
                      Time!NextFire(p, f, t) \notin {None, Endless}
               PROVE  Time!NextFire(p, f, t) > t /\ Time!Names(p, Told(p, f), Time!NextFire(p, f, t))
    BY DEF FiresOnlyWhenDue
  <2>1. t \in Nat
    BY SchedulesAssumption
  <2>2. PICK u \in Nat : u = t + 1 /\ Time!NextFire(p, f, t) = Search(p, f, t)[u]
    BY <1>1, <2>1
  <2>3. PICK fire \in Nat : fire = Time!NextFire(p, f, t) /\ u <= fire /\ Time!Matches(p, f, fire)
    BY <2>1, <2>2, SearchFinds
  <2>4. Time!Names(p, Told(p, f), fire)
    BY <2>3, ToldMatches
  <2> QED
    BY <2>1, <2>2, <2>3, <2>4
<1>3. ExactWithinFiringHour
  <2> SUFFICES ASSUME NEW p \in Places, NEW f \in Fields, NEW t \in Reference,
                      Steady(p), Told(p, f) = f, Time!HourMatches(f, Time!Calendar(Time!Clock(p, t + 1)))
               PROVE  Time!NextFire(p, f, t) = Time!Earliest(p, f, t)
    BY DEF ExactWithinFiringHour
  <2>1. t \in Nat
    BY SchedulesAssumption
  <2>2. PICK u \in Nat : u = t + 1 /\ Time!NextFire(p, f, t) = Search(p, f, t)[u]
    BY <1>1, <2>1
  <2>3. Aligned(p, f, Time!Clock(p, u))
    BY <2>2, ToldMatches DEF Aligned
  <2>4. First(p, f, t, u, Time!NextFire(p, f, t))
    BY <2>1, <2>2, <2>3, SearchFinds
  <2> QED
    BY <2>1, <2>2, <2>4, EarliestIsFirst
<1>4. SearchEnds
  <2> SUFFICES ASSUME NEW p \in Places, NEW f \in Fields, NEW t \in Reference, Steady(p)
               PROVE  Time!NextFire(p, f, t) # Endless
    BY DEF SearchEnds
  <2>1. t \in Nat
    BY SchedulesAssumption
  <2>2. PICK u \in Nat : u = t + 1 /\ Time!NextFire(p, f, t) = Search(p, f, t)[u]
    BY <1>1, <2>1
  <2> QED
    BY <2>1, <2>2, SearchFinds
<1>5. NextFireIsSound
  BY <1>2, <1>3, <1>4 DEF NextFireIsSound
<1> QED
  BY <1>5, PTL
=============================================================================
