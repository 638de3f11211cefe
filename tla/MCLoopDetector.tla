--------------------------- MODULE MCLoopDetector ---------------------------
(* Three calls of one task: what the tools of a verify-fix cycle are given   *)
(* never changes.                                                            *)
EXTENDS LoopDetector

Plain(tool, shape, rest) == [tool |-> tool, action |-> "none", shape |-> shape, rest |-> rest]
EditRunRead ==
    {{Plain("edit_file", 1, 1), Plain("execute_command", 1, 1), Plain("read_file", 1, 1)}}
=============================================================================
