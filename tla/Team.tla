-------------------------------- MODULE Team --------------------------------
(***************************************************************************)
(* A team of workers and the runs of it: TeamRunner.runTeam and TeamStore   *)
(* (src/src/teams).  One team row is followed from createTeam on.  A run is *)
(* a call of runTeam; the code before its first await, and from one wave's  *)
(* Promise.allSettled to the next wave, is one step.  What a worker's crew  *)
(* does is one await that resolves or rejects.  Result texts are abstracted *)
(* to who has one.                                                         *)
(***************************************************************************)
EXTENDS TeamDag

CONSTANTS
    Offered,     \* the definitions validateDAG is asked about
    Definition,  \* the definitions createTeam may be called with
    Run,         \* calls of runTeam
    MaxCrashes   \* bound on process restarts

ASSUME TeamAssumption ==
    /\ Offered \cup Definition \subseteq Seq(Worker)
    /\ MaxCrashes \in Nat

VARIABLES
    team,      \* teams.status
    worker,    \* team_workers.status, by name
    texts,     \* workers whose team_workers.result is a non-empty text
    blockers   \* team_workers.blocked_by

VARIABLES
    at,        \* where each run is
    wave,      \* the workers of its current Promise.allSettled
    outcome,   \* how the crew run of each of them has settled
    known,     \* the workers its completedResults has a non-empty text of
    failures,  \* its failedWorkers
    aborted,   \* runs whose signal or time-out has fired
    context,   \* the results each worker's prompt was built from
    crashes    \* restarts so far

store == <<team, worker, texts, blockers>>
local == <<at, wave, outcome, known, failures>>
vars == <<store, local, aborted, context, crashes>>

TypeOK ==
    /\ team \in {"none", "active", "completed", "failed", "deleted"}
    /\ worker \in [Name -> {"absent", "pending", "running", "completed", "failed"}]
    /\ texts \subseteq Name
    /\ blockers \in [Name -> SUBSET Name]
    /\ at \in [Run -> {"idle", "wave", "done", "dead"}]
    /\ wave \in [Run -> SUBSET Name]
    /\ outcome \in [Run -> [Name -> {"open", "text", "blank", "error"}]]
    /\ known \in [Run -> SUBSET Name]
    /\ failures \in [Run -> SUBSET Name]
    /\ aborted \subseteq Run
    /\ context \in [Name -> SUBSET Name]
    /\ crashes \in 0..MaxCrashes

Init ==
    /\ team = "none"
    /\ worker = [n \in Name |-> "absent"]
    /\ texts = {}
    /\ blockers = [n \in Name |-> {}]
    /\ at = [r \in Run |-> "idle"]
    /\ wave = [r \in Run |-> {}]
    /\ outcome = [r \in Run |-> [n \in Name |-> "open"]]
    /\ known = [r \in Run |-> {}]
    /\ failures = [r \in Run |-> {}]
    /\ aborted = {}
    /\ context = [n \in Name |-> {}]
    /\ crashes = 0

\* createTeam: team and workers are inserted in one transaction, and only when
\* validateDAG accepts the definition.
CreateTeam(d) ==
    /\ team = "none"
    /\ Accepted(d)
    /\ team' = "active"
    /\ worker' = [n \in Name |-> IF n \in Named(d) THEN "pending" ELSE "absent"]
    /\ blockers' = [n \in Name |-> BlockersIn(d, n)]
    /\ UNCHANGED <<texts, local, aborted, context, crashes>>

\* getReadyWorkers, for worker statuses w.
Ready(w) ==
    {n \in Name : w[n] = "pending" /\ \A b \in blockers[n] : w[b] = "completed"}

\* isTeamComplete: a team without worker rows, a deleted one too, is complete.
Complete(w) == \A n \in Name : w[n] \in {"absent", "completed", "failed"}

\* Mutant of Verdict: failed workers do not count.
VerdictIgnoresFailed(w, failed) ==
    IF \E n \in Name : w[n] = "pending" THEN "failed" ELSE "completed"

Verdict(w, failed) ==
    IF failed # {} \/ \E n \in Name : w[n] = "pending" THEN "failed" ELSE "completed"

\* Mutant of Stops: the loop does not break when no worker is ready.
StopsOnlyComplete(r, w) == Complete(w) \/ r \in aborted

Stops(r, w) == Complete(w) \/ r \in aborted \/ Ready(w) = {}

\* The loop of run r from its test on, with worker statuses w and failures f:
\* all ready workers start in one synchronous sweep, or the run ends.
StartWave(r, w) ==
    /\ ~Stops(r, w)
    /\ worker' = [n \in Name |-> IF n \in Ready(w) THEN "running" ELSE w[n]]
    /\ wave' = [wave EXCEPT ![r] = Ready(w)]
    /\ outcome' = [outcome EXCEPT ![r] = [n \in Name |-> "open"]]
    /\ context' = [n \in Name |-> IF n \in Ready(w) THEN blockers[n] \cap known'[r]
                                  ELSE context[n]]
    /\ at' = [at EXCEPT ![r] = "wave"]
    /\ UNCHANGED team

\* completeTeam on a team that was deleted meanwhile updates no row.
EndRun(r, w, f) ==
    /\ Stops(r, w)
    /\ worker' = w
    /\ team' = IF team = "deleted" THEN team ELSE Verdict(w, f)
    /\ wave' = [wave EXCEPT ![r] = {}]
    /\ at' = [at EXCEPT ![r] = "done"]
    /\ UNCHANGED <<outcome, context>>

Iterate(r, w, f) == StartWave(r, w) \/ EndRun(r, w, f)

\* runTeam, up to its first await.  A team that is not active is refused.
RunTeam(r) ==
    /\ at[r] = "idle"
    /\ team = "active"
    /\ known' = known /\ failures' = failures
    /\ Iterate(r, worker, {})
    /\ UNCHANGED <<texts, blockers, aborted, crashes>>

\* The crew run of a worker resolves or rejects.
WorkerSettles(r, n) ==
    /\ at[r] = "wave"
    /\ n \in wave[r]
    /\ outcome[r][n] = "open"
    /\ \E o \in {"text", "blank", "error"} : outcome' = [outcome EXCEPT ![r][n] = o]
    /\ UNCHANGED <<store, at, wave, known, failures, aborted, context, crashes>>

\* Mutant of Settled: the row of a deleted worker is written again.
SettledUpserts(r) ==
    [n \in Name |->
        IF n \in wave[r]
        THEN (IF outcome[r][n] = "error" THEN "failed" ELSE "completed")
        ELSE worker[n]]

\* updateWorkerStatus for each worker of the wave that still has a row.
Settled(r) ==
    [n \in Name |->
        IF n \in wave[r] /\ worker[n] # "absent"
        THEN (IF outcome[r][n] = "error" THEN "failed" ELSE "completed")
        ELSE worker[n]]

\* Mutant of WaveSettles: only the results of the last wave are kept.
WaveForgets(r) ==
    /\ at[r] = "wave"
    /\ \A n \in wave[r] : outcome[r][n] # "open"
    /\ known' = [known EXCEPT ![r] = {n \in wave[r] : outcome[r][n] = "text"}]
    /\ failures' = [failures EXCEPT ![r] = @ \cup {n \in wave[r] : outcome[r][n] = "error"}]
    /\ texts' = texts \cup {n \in wave[r] : outcome[r][n] = "text" /\ worker[n] # "absent"}
    /\ Iterate(r, Settled(r), failures'[r])
    /\ UNCHANGED <<blockers, aborted, crashes>>

\* The last one settles: results are recorded and the loop goes on.
WaveSettles(r) ==
    /\ at[r] = "wave"
    /\ \A n \in wave[r] : outcome[r][n] # "open"
    /\ known' = [known EXCEPT ![r] = @ \cup {n \in wave[r] : outcome[r][n] = "text"}]
    /\ failures' = [failures EXCEPT ![r] = @ \cup {n \in wave[r] : outcome[r][n] = "error"}]
    /\ texts' = texts \cup {n \in wave[r] : outcome[r][n] = "text" /\ worker[n] # "absent"}
    /\ Iterate(r, Settled(r), failures'[r])
    /\ UNCHANGED <<blockers, aborted, crashes>>

\* The caller's signal or the team time-out.
Abort(r) ==
    /\ at[r] \in {"idle", "wave"}
    /\ r \notin aborted
    /\ aborted' = aborted \cup {r}
    /\ UNCHANGED <<store, local, context, crashes>>

\* deleteTeam, from the API or the team tool, whatever the team is doing.
DeleteTeam ==
    /\ team \in {"active", "completed", "failed"}
    /\ team' = "deleted"
    /\ worker' = [n \in Name |-> "absent"]
    /\ texts' = {}
    /\ UNCHANGED <<blockers, local, aborted, context, crashes>>

\* The process dies and restarts: the tables survive, no run does.
Restart ==
    /\ crashes < MaxCrashes
    /\ crashes' = crashes + 1
    /\ at' = [r \in Run |-> IF at[r] = "wave" THEN "dead" ELSE at[r]]
    /\ wave' = [r \in Run |-> {}]
    /\ UNCHANGED <<store, outcome, known, failures, aborted, context>>

Next ==
    \/ \E d \in Definition : CreateTeam(d)
    \/ \E r \in Run : RunTeam(r) \/ WaveSettles(r) \/ Abort(r)
    \/ \E r \in Run : \E n \in Name : WorkerSettles(r, n)
    \/ DeleteTeam
    \/ Restart

Spec == Init /\ [][Next]_vars

\* Crew runs settle and the runner goes on; nothing else has to happen.
FairSpec ==
    /\ Spec
    /\ \A r \in Run : WF_vars(WaveSettles(r)) /\ \A n \in Name : WF_vars(WorkerSettles(r, n))

-----------------------------------------------------------------------------
(* Properties.                                                             *)

Started == {n \in Name : worker[n] \in {"running", "completed", "failed"}}

\* No worker is in the wave of two runs, and every worker of a wave is running
\* unless the team was deleted: concurrent runs of one team never do the same
\* work, because a run claims its wave before its first await.
WavesDisjoint ==
    \A r \in Run : at[r] = "wave" =>
        /\ \A q \in Run \ {r} : wave[q] \cap wave[r] = {}
        /\ \A n \in wave[r] : worker[n] = (IF team = "deleted" THEN "absent" ELSE "running")

\* A worker's status only moves forward, and a wave claims only workers that
\* were pending: no worker is started twice, and no verdict on one is revised.
StatusMovesForward ==
    [][/\ \A n \in Started :
             worker[n]' \in {worker[n], "absent"}
                            \cup (IF worker[n] = "running" THEN {"completed", "failed"} ELSE {})
       /\ \A r \in Run : wave[r]' # wave[r] => \A n \in wave[r]' : worker[n] = "pending"]_vars

\* The team's only run so far, and no restart under it.
Undisturbed == crashes = 0 /\ \A r, q \in Run : at[r] # "idle" /\ at[q] # "idle" => r = q

\* A team with one undisturbed run is reported completed only when all its
\* workers completed.
CompletedMeansAllDone ==
    Undisturbed /\ team = "completed" =>
        \A n \in Name : worker[n] \in {"absent", "completed"}

\* And it is reported failed only if a worker failed or the run was aborted: a
\* definition that validateDAG accepts never stalls by itself.
FailedHasCause ==
    Undisturbed /\ team = "failed" =>
        aborted # {} \/ \E n \in Name : worker[n] = "failed"

\* What an undisturbed run reports of a team is what became of its workers.  The
\* verdict is counted from two places, the rows and the run's own failures, which
\* a failed blocker, a skipped worker or a time-out must not set apart.
VerdictIsRight == CompletedMeansAllDone /\ FailedHasCause

\* What validateDAG says of a definition is right; they are judged before a team
\* exists.
AcceptsExactlyDags == team = "none" /\ crashes = 0 => \A d \in Offered : JudgedRight(d)

\* TeamRunner.ts on buildWorkerContext: "prepending results from completed
\* dependency workers so the crew has full context."  An empty text is left out
\* of it.  completedResults is a local of one runTeam call, yet no second run,
\* before or after a restart, starts a worker without the results of a blocker:
\* a wave takes every ready worker, so what an interrupted run leaves pending
\* is blocked for good.
FullContext == \A n \in Started : context[n] = blockers[n] \cap texts

\* Every run ends, failures and stalled workers notwithstanding.
RunEnds == \A r \in Run : at[r] = "wave" ~> at[r] \in {"done", "dead"}

\* Team implements DagSchedule: the order of the blocking relation is kept.
Schedule == INSTANCE DagSchedule
KeepsSchedule == Schedule!Spec
=============================================================================
