-------------------------------- MODULE Cron --------------------------------
(***************************************************************************)
(* Scheduled jobs: CronScheduler and CronStore (src/src/cron), and the      *)
(* broken-job check Heartbeat makes on their history.  A job runs the       *)
(* callback onDue, one await whose outcome is open.  Time is in the unit of *)
(* the jobs' slots; the polling timer may tick at any moment it is on.      *)
(* What nextFire returns is any later slot of the job, or none: module      *)
(* CronTime says which, and shows that it is not always the first.          *)
(***************************************************************************)
EXTENDS Naturals, Sequences, FiniteSets

CONSTANTS
    Job,
    Slot,        \* times the expressions of the jobs name
    MaxTime,     \* the clock stops here
    MaxRows,     \* forced runs stop when a job has this many history rows
    MaxCrashes,  \* bound on process restarts
    None

ASSUME CronAssumption ==
    /\ MaxTime \in Nat /\ MaxRows \in Nat /\ MaxCrashes \in Nat
    /\ Slot \subseteq 1..MaxTime
    /\ None \notin Nat

VARIABLES
    now,
    job,        \* does the job's row exist
    enabled,    \* cron_jobs.enabled
    next,       \* cron_jobs.next_run_at
    runs,       \* cron_runs.status of the job's rows, oldest first
    inflight,   \* CronScheduler.inflight
    awaiting,   \* pending onDue promises of each job
    timer,      \* is the polling loop on
    consumed,   \* the slot each job was last fired for, 0 at first
    crashes     \* restarts so far

table == <<job, enabled, next, runs>>
process == <<inflight, awaiting, timer>>
vars == <<now, table, process, consumed, crashes>>

TypeOK ==
    /\ now \in 0..MaxTime
    /\ job \in [Job -> {"none", "live", "deleted"}]
    /\ enabled \in [Job -> BOOLEAN]
    /\ next \in [Job -> Slot \cup {None}]
    /\ runs \in [Job -> Seq({"running", "success", "error"})]
    /\ inflight \subseteq Job
    /\ awaiting \in [Job -> Nat]
    /\ timer \in BOOLEAN
    /\ consumed \in [Job -> {0} \cup Slot]
    /\ crashes \in 0..MaxCrashes

Init ==
    /\ now = 0
    /\ job = [j \in Job |-> "none"]
    /\ enabled = [j \in Job |-> FALSE]
    /\ next = [j \in Job |-> None]
    /\ runs = [j \in Job |-> <<>>]
    /\ inflight = {}
    /\ awaiting = [j \in Job |-> 0]
    /\ timer = TRUE
    /\ consumed = [j \in Job |-> 0]
    /\ crashes = 0

\* nextFire for a job that is on; null for one that is off.
NextAfter(on) == IF on THEN {t \in Slot : t > now} \cup {None} ELSE {None}

Due(j) == job[j] = "live" /\ enabled[j] /\ next[j] # None /\ next[j] <= now

-----------------------------------------------------------------------------
(* Jobs, from the API and the cron tool.                                   *)

AddJob(j) ==
    /\ job[j] = "none"
    /\ job' = [job EXCEPT ![j] = "live"]
    /\ \E on \in BOOLEAN :
          /\ enabled' = [enabled EXCEPT ![j] = on]
          /\ \E t \in NextAfter(on) : next' = [next EXCEPT ![j] = t]
    /\ UNCHANGED <<now, runs, process, consumed, crashes>>

\* Any update recomputes the next firing from now.
UpdateJob(j) ==
    /\ job[j] = "live"
    /\ \E on \in BOOLEAN :
          /\ enabled' = [enabled EXCEPT ![j] = on]
          /\ \E t \in NextAfter(on) : next' = [next EXCEPT ![j] = t]
    /\ UNCHANGED <<now, job, runs, process, consumed, crashes>>

DeleteJob(j) ==
    /\ job[j] = "live"
    /\ job' = [job EXCEPT ![j] = "deleted"]
    /\ enabled' = [enabled EXCEPT ![j] = FALSE]
    /\ next' = [next EXCEPT ![j] = None]
    /\ runs' = [runs EXCEPT ![j] = <<>>]
    /\ UNCHANGED <<now, process, consumed, crashes>>

-----------------------------------------------------------------------------
(* Executions.                                                             *)

\* Mutant of Execute: recordRun("running") does not move next_run_at.
ExecuteKeepsNext(js) ==
    /\ inflight' = inflight \cup js
    /\ awaiting' = [j \in Job |-> IF j \in js THEN awaiting[j] + 1 ELSE awaiting[j]]
    /\ runs' = [j \in Job |-> IF j \in js THEN Append(runs[j], "running") ELSE runs[j]]
    /\ next' = next

\* execute() of each job of js, up to its await: recordRun("running") inserts a
\* row and recomputes the next firing.
Execute(js) ==
    /\ inflight' = inflight \cup js
    /\ awaiting' = [j \in Job |-> IF j \in js THEN awaiting[j] + 1 ELSE awaiting[j]]
    /\ runs' = [j \in Job |-> IF j \in js THEN Append(runs[j], "running") ELSE runs[j]]
    /\ next' \in [Job -> Slot \cup {None}]
    /\ \A j \in Job : IF j \in js THEN next'[j] \in NextAfter(enabled[j]) ELSE next'[j] = next[j]

\* tick(): all due jobs that are not in flight are started in one sweep.
FireDue ==
    LET js == {j \in Job : Due(j)} \ inflight
    IN  /\ Execute(js)
        /\ consumed' = [j \in Job |-> IF j \in js THEN next[j] ELSE consumed[j]]

Tick ==
    /\ timer
    /\ {j \in Job : Due(j)} \ inflight # {}
    /\ FireDue
    /\ UNCHANGED <<now, job, enabled, timer, crashes>>

\* Mutant of ForceRun: the in-flight check is missing.
ForceRunUnchecked(j) ==
    /\ job[j] = "live"
    /\ Len(runs[j]) < MaxRows
    /\ Execute({j})
    /\ UNCHANGED <<now, job, enabled, timer, consumed, crashes>>

\* forceRun, whether the job is enabled or not.
ForceRun(j) ==
    /\ job[j] = "live"
    /\ j \notin inflight
    /\ Len(runs[j]) < MaxRows
    /\ Execute({j})
    /\ UNCHANGED <<now, job, enabled, timer, consumed, crashes>>

\* Mutant of Settle: the finally is missing.
SettleLeaksInflight(j, verdict) ==
    /\ awaiting[j] > 0
    /\ awaiting' = [awaiting EXCEPT ![j] = @ - 1]
    /\ IF job[j] = "live"
       THEN /\ runs' = [runs EXCEPT ![j] = Append(@, verdict)]
            /\ \E t \in NextAfter(enabled[j]) : next' = [next EXCEPT ![j] = t]
       ELSE UNCHANGED <<runs, next>>
    /\ UNCHANGED <<now, job, enabled, inflight, timer, consumed, crashes>>

\* onDue settles: a row with the verdict, the next firing from now on, and the
\* job is no longer in flight.  For a job deleted meanwhile the row is refused,
\* in the catch block too: execute rejects with nobody to see it.
Settle(j, verdict) ==
    /\ awaiting[j] > 0
    /\ awaiting' = [awaiting EXCEPT ![j] = @ - 1]
    /\ inflight' = inflight \ {j}
    /\ \/ /\ job[j] = "live"
          /\ runs' = [runs EXCEPT ![j] = Append(@, verdict)]
          /\ \E t \in NextAfter(enabled[j]) : next' = [next EXCEPT ![j] = t]
       \/ job[j] = "deleted" /\ UNCHANGED <<runs, next>>
    /\ UNCHANGED <<now, job, enabled, timer, consumed, crashes>>

-----------------------------------------------------------------------------
(* The clock, the polling loop and the process.                            *)

Pass ==
    /\ now < MaxTime
    /\ now' = now + 1
    /\ UNCHANGED <<table, process, consumed, crashes>>

Stop ==
    /\ timer
    /\ timer' = FALSE
    /\ UNCHANGED <<now, table, inflight, awaiting, consumed, crashes>>

\* start() ticks at once.
Start ==
    /\ ~timer
    /\ timer' = TRUE
    /\ FireDue
    /\ UNCHANGED <<now, job, enabled, crashes>>

\* The process dies and comes back with its loop off, until start().  Executions
\* under way are gone, and their rows stay "running".
Restart ==
    /\ crashes < MaxCrashes
    /\ crashes' = crashes + 1
    /\ inflight' = {}
    /\ awaiting' = [j \in Job |-> 0]
    /\ timer' = FALSE
    /\ UNCHANGED <<now, table, consumed>>

Next ==
    \/ \E j \in Job : AddJob(j) \/ UpdateJob(j) \/ DeleteJob(j) \/ ForceRun(j)
    \/ \E j \in Job : \E v \in {"success", "error"} : Settle(j, v)
    \/ Tick \/ Pass \/ Stop \/ Start \/ Restart

Spec == Init /\ [][Next]_vars

\* The timer ticks while it is on, and onDue settles.
FairSpec ==
    /\ Spec
    /\ WF_vars(Tick)
    /\ \A j \in Job : WF_vars(\E v \in {"success", "error"} : Settle(j, v))

-----------------------------------------------------------------------------
(* Properties.                                                             *)

\* A job has at most one execution under way, and is marked in flight exactly
\* while it has one: ticks, forced runs, stop and start of the loop overlap
\* without starting it twice or blocking it for good.
OneExecution == \A j \in Job : awaiting[j] = (IF j \in inflight THEN 1 ELSE 0)

\* A slot fires a job at most once: what is scheduled is always later than what
\* was fired, through updates, forced runs and restarts.
SlotFiresOnce ==
    \A j \in Job : next[j] # None => next[j] > consumed[j]

\* Only jobs that are switched on are scheduled, whatever finishes after they
\* were switched off or deleted.
OnlyEnabledScheduled ==
    \A j \in Job : next[j] # None => enabled[j] /\ job[j] = "live"

\* The history pairs up: every verdict follows the "running" row of the same
\* execution, and a "running" row without a verdict belongs to the execution
\* under way or to one a restart killed.
HistoryPairs ==
    \A j \in Job : \A i \in DOMAIN runs[j] :
        IF runs[j][i] = "running"
        THEN \/ i < Len(runs[j]) /\ runs[j][i + 1] # "running"
             \/ i = Len(runs[j]) /\ j \in inflight
             \/ crashes > 0
        ELSE i > 1 /\ runs[j][i - 1] = "running"

\* A due job is started, or someone has changed it; an execution under way only
\* postpones it to a later slot.
DueIsServed == \A j \in Job : Due(j) /\ timer ~> ~Due(j) \/ ~timer

\* brokenCrons: the last three rows of an enabled job are errors.
Broken(j) ==
    /\ job[j] = "live" /\ enabled[j]
    /\ Len(runs[j]) >= 3
    /\ \A i \in Len(runs[j]) - 2 .. Len(runs[j]) : runs[j][i] = "error"

\* CronStore.ts: listRuns is "Used by Heartbeat to detect consecutive-error
\* patterns that suggest a broken job."
BrokenIsReported ==
    \A j \in Job :
        LET verdicts == SelectSeq(runs[j], LAMBDA s : s # "running")
            n == Len(verdicts)
        IN  (/\ enabled[j] /\ j \notin inflight
             /\ n >= 3 /\ \A i \in n - 2 .. n : verdicts[i] = "error") => Broken(j)
=============================================================================
