---------------------------- MODULE MCTaskRunner ----------------------------
(* Instances of TaskRunner for TLC: m1, m2, m3 are messages, main a session *)
(* and kid the child compaction may roll it to.  In the run that uses the   *)
(* symmetry m1 and m2 are in none of the sets that tell messages apart.     *)
EXTENDS TaskRunner, TLC
CONSTANTS m1, m2, m3, main, kid

Alike == Permutations({m1, m2})
=============================================================================
