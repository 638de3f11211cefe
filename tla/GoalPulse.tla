----------------------------- MODULE GoalPulse -----------------------------
(***************************************************************************)
(* The checks of goals (src/src/scheduler/GoalPulse.ts, goals/GoalStore.ts): *)
(* a tick a minute takes the goals that are due and sends them, one after    *)
(* the other, to the "main" session, waiting for each task.  A tick does not *)
(* wait for the one before.  That a goal's cron has passed since its last     *)
(* check is a flag: a check clears it and time sets it.  A task may end here   *)
(* between two sends a tick makes without a pause, which adds behaviours and   *)
(* takes none away.                                                          *)
(***************************************************************************)
EXTENDS Naturals, FiniteSets

CONSTANTS
    Goal,
    Tick,          \* ticks that may be under way at once, a bound
    MaxFailures,
    None

VARIABLES
    active,      \* goals whose status is "active"; others are paused, completed or deleted
    due,         \* goals whose cron has passed
    tick,        \* ticks under way: the goals left, and the one whose task is awaited
    failures,    \* GoalPulse.failures
    chat,        \* does a task of somebody else run in the session
    checks,      \* checks of each goal since it became due
    overlapped   \* goals two ticks have taken at once since, or still have

vars == <<active, due, tick, failures, chat, checks, overlapped>>

\* A task is unknown to the session until it has registered itself.
Task == {"none", "starting", "running"}

Check == [left : SUBSET Goal, at : Goal \cup {None}, task : Task]

TypeOK ==
    /\ active \subseteq Goal
    /\ due \subseteq Goal
    /\ tick \in [Tick -> {None} \cup Check]
    /\ failures \in [Goal -> 0..MaxFailures - 1]
    /\ chat \in BOOLEAN
    /\ checks \in [Goal -> 0..2]
    /\ overlapped \subseteq Goal

Init ==
    /\ active = Goal
    /\ due = {}
    /\ tick = [k \in Tick |-> None]
    /\ failures = [g \in Goal |-> 0]
    /\ chat = FALSE
    /\ checks = [g \in Goal |-> 0]
    /\ overlapped = {}

UnderWay == {k \in Tick : tick[k] # None}
Quiet == \A k \in UnderWay : tick[k].at # None

\* The goals a tick has taken and not finished.
Taken(k) == tick[k].left \cup ({tick[k].at} \ {None})

Shared(g) == \E j, k \in UnderWay : j # k /\ g \in Taken(j) \cap Taken(k)

\* send() injects into a running loop of the session.
Busy == chat \/ \E k \in UnderWay : tick[k].task = "running"

\* A tick with these goals left goes on, or is over.
Rest(left) == IF left = {} THEN None ELSE [left |-> left, at |-> None, task |-> "none"]

Counted(g) == checks' = [checks EXCEPT ![g] = IF @ < 2 THEN @ + 1 ELSE @]

-----------------------------------------------------------------------------

\* tick() up to its loop.
Begin(k) ==
    /\ Quiet /\ tick[k] = None
    /\ LET found == due \cap active
       IN  /\ found # {}
           /\ tick' = [tick EXCEPT ![k] = [left |-> found, at |-> None, task |-> "none"]]
           /\ overlapped' = overlapped \cup (found \cap UNION {Taken(j) : j \in UnderWay})
    /\ UNCHANGED <<active, due, failures, chat, checks>>

\* Mutant of Send: an injected check is not recorded.
SendUnmarked(k, g) ==
    /\ tick[k] # None /\ tick[k].at = None /\ g \in tick[k].left
    /\ Counted(g)
    /\ IF Busy
       THEN /\ tick' = [tick EXCEPT ![k] = Rest(@.left \ {g})]
            /\ failures' = [failures EXCEPT ![g] = 0]
       ELSE /\ tick' = [tick EXCEPT ![k] = [left |-> @.left \ {g}, at |-> g, task |-> "starting"]]
            /\ UNCHANGED failures
    /\ UNCHANGED <<active, due, chat, overlapped>>

\* The loop's next goal, as the tick found it, whatever has become of it: an
\* injected check is done, and counts as a success.
Send(k, g) ==
    /\ tick[k] # None /\ tick[k].at = None /\ g \in tick[k].left
    /\ Counted(g)
    /\ IF Busy
       THEN /\ tick' = [tick EXCEPT ![k] = Rest(@.left \ {g})]
            /\ due' = due \ {g}
            /\ failures' = [failures EXCEPT ![g] = 0]
       ELSE /\ tick' = [tick EXCEPT ![k] = [left |-> @.left \ {g}, at |-> g, task |-> "starting"]]
            /\ UNCHANGED <<due, failures>>
    /\ UNCHANGED <<active, chat, overlapped>>

Registered(k) ==
    /\ tick[k] # None /\ tick[k].task = "starting"
    /\ tick' = [tick EXCEPT ![k].task = "running"]
    /\ UNCHANGED <<active, due, failures, chat, checks, overlapped>>

Resume(k) == tick' = [tick EXCEPT ![k] = Rest(@.left)]

\* Mutant of Progressed: a check that made progress is not recorded.
ProgressedUnmarked(k) ==
    /\ tick[k] # None /\ tick[k].task = "running"
    /\ failures' = [failures EXCEPT ![tick[k].at] = 0]
    /\ Resume(k)
    /\ UNCHANGED <<active, due, chat, checks, overlapped>>

\* The task ended without a failure.
Progressed(k) ==
    /\ tick[k] # None /\ tick[k].task = "running"
    /\ due' = due \ {tick[k].at}
    /\ failures' = [failures EXCEPT ![tick[k].at] = 0]
    /\ Resume(k)
    /\ UNCHANGED <<active, chat, checks, overlapped>>

\* The task failed: the last of too many failures in a row pauses the goal, whatever
\* its status has become.
CheckFailed(k) ==
    /\ tick[k] # None /\ tick[k].task # "none"
    /\ LET g == tick[k].at
           last == failures[g] + 1 >= MaxFailures
       IN  /\ failures' = [failures EXCEPT ![g] = IF last THEN 0 ELSE @ + 1]
           /\ active' = IF last THEN active \ {g} ELSE active
           /\ due' = due \ {g}
    /\ Resume(k)
    /\ UNCHANGED <<chat, checks, overlapped>>

\* The user changes a goal's status, or deletes it (update, delete).
Edit(g) ==
    /\ Quiet
    /\ active' \in {active \cup {g}, active \ {g}}
    /\ UNCHANGED <<due, tick, failures, chat, checks, overlapped>>

TimePasses(g) ==
    /\ Quiet /\ g \notin due
    /\ due' = due \cup {g}
    /\ checks' = [checks EXCEPT ![g] = 0]
    /\ overlapped' = IF Shared(g) THEN overlapped ELSE overlapped \ {g}
    /\ UNCHANGED <<active, tick, failures, chat>>

Chat ==
    /\ Quiet
    /\ chat' = ~chat
    /\ UNCHANGED <<active, due, tick, failures, checks, overlapped>>

Next ==
    \/ \E k \in Tick : Begin(k) \/ Registered(k) \/ Progressed(k) \/ CheckFailed(k)
    \/ \E k \in Tick, g \in Goal : Send(k, g)
    \/ \E g \in Goal : Edit(g) \/ TimePasses(g)
    \/ Chat

Spec == Init /\ [][Next]_vars

\* A tick comes every minute, its loop runs, and tasks end.
Fairness ==
    /\ SF_vars(\E k \in Tick : Begin(k))
    /\ \A k \in Tick : /\ WF_vars(\E g \in Goal : Send(k, g))
                       /\ WF_vars(Registered(k)) /\ WF_vars(Progressed(k) \/ CheckFailed(k))

FairSpec == Spec /\ Fairness

-----------------------------------------------------------------------------

\* A goal is checked once each time its cron passes, unless a tick found it due
\* while an earlier one was still at it.
OncePerSlot == \A g \in Goal : checks[g] > 1 => g \in overlapped

\* A goal that stays active and due is checked, however long the checks of others
\* take and however they end.
DueIsServed == \A g \in Goal : g \in due \cap active ~> g \notin due \cap active

=============================================================================
