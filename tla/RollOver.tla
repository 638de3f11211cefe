------------------------------ MODULE RollOver ------------------------------
(***************************************************************************)
(* What compaction promises the run loop: for each session at most one      *)
(* compaction at a time, which ends with the session as it is or with the   *)
(* session rolled over to a child no one has used; nothing else moves the   *)
(* session a conversation continues in, and a restart forgets it.           *)
(***************************************************************************)
CONSTANT Session

VARIABLES
    sessions,    \* session rows in the database
    compacting,  \* sessions with a compaction in flight
    latest       \* where the conversation of each session continues

Starts(s) ==
    /\ s \notin compacting
    /\ compacting' = compacting \cup {s}
    /\ UNCHANGED latest

Settles(s) ==
    /\ s \in compacting
    /\ compacting' = compacting \ {s}
    /\ \/ UNCHANGED latest
       \/ \E c \in Session \ sessions :
              /\ latest[c] = c
              /\ sessions' = sessions \cup {c}
              /\ latest' = [latest EXCEPT ![s] = c]

Forgets ==
    /\ compacting' = {}
    /\ latest' = [s \in Session |-> s]

Spec ==
    /\ compacting = {} /\ latest = [s \in Session |-> s]
    /\ [][(\E s \in Session : Starts(s) \/ Settles(s)) \/ Forgets]_<<compacting, latest>>
=============================================================================
