----------------------------- MODULE DagSchedule -----------------------------
(***************************************************************************)
(* What a team run promises, without runs, waves, signals or tables: the   *)
(* workers of a blocking relation start in an order it allows, each at most *)
(* once, and what became of one is never revised.                          *)
(***************************************************************************)
CONSTANT Name

VARIABLES blockers, worker

Status == {"absent", "pending", "running", "completed", "failed"}

Init ==
    /\ blockers = [n \in Name |-> {}]
    /\ worker = [n \in Name |-> "absent"]

\* The team is defined: its workers are pending.
Define ==
    /\ \A n \in Name : worker[n] = "absent"
    /\ worker' \in [Name -> {"absent", "pending"}]
    /\ blockers' \in [Name -> SUBSET Name]

\* Some running workers end and some pending ones start, all of whose blockers
\* have completed by then.
Advance ==
    /\ blockers' = blockers
    /\ worker' \in [Name -> Status]
    /\ \A n \in Name :
          \/ worker'[n] = worker[n]
          \/ worker[n] = "running" /\ worker'[n] \in {"completed", "failed"}
          \/ /\ worker[n] = "pending" /\ worker'[n] = "running"
             /\ \A b \in blockers[n] : worker'[b] = "completed"

\* The team is disbanded.
Disband ==
    /\ worker' = [n \in Name |-> "absent"]
    /\ blockers' = blockers

Next == Define \/ Advance \/ Disband

Spec == Init /\ [][Next]_<<blockers, worker>>
=============================================================================
