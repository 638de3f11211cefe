---------------------------- MODULE MCCompaction ----------------------------
(* Instances of Compaction: one root session, children c1, c2, c3, tasks t1, *)
(* t2; the children and the tasks are interchangeable.                       *)
EXTENDS Compaction, TLC
CONSTANTS main, c1, c2, c3, t1, t2, t3

Symmetric == Permutations({c1, c2, c3}) \cup Permutations({t1, t2, t3})
=============================================================================
