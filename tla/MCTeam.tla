------------------------------- MODULE MCTeam -------------------------------
(* Instances of Team: the runs start from every team of three named workers  *)
(* in which each may be blocked by any of the three, cyclic ones included;   *)
(* validateDAG is offered every definition of up to three workers with up to *)
(* two listed blockers each, repeated names and blockers included.           *)
EXTENDS Team, SequencesExt
CONSTANTS a, b, c, r1, r2

Definitions ==
    {<<[name |-> a, blockedBy |-> SetToSeq(A)],
       [name |-> b, blockedBy |-> SetToSeq(B)],
       [name |-> c, blockedBy |-> SetToSeq(C)]>> :
         A \in SUBSET Name, B \in SUBSET Name, C \in SUBSET Name}
    \cup {<<>>}

Lists == UNION {[1..k -> Name] : k \in 0..2}
AllOffered == UNION {[1..k -> [name : Name, blockedBy : Lists]] : k \in 0..3}
=============================================================================
