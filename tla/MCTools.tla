------------------------------ MODULE MCTools ------------------------------
(***************************************************************************)
(* An instance of Tools.  Of the crew runs only r3 is ever in Fresh and only *)
(* s1 in Deletable, so the others are interchangeable.                       *)
(***************************************************************************)
EXTENDS Tools, TLC

CONSTANTS r1, r2, r3, c1, c2, s1, s2, s3, a1, a2

Symmetric == Permutations({r1, r2}) \cup Permutations({c1, c2}) \cup Permutations({s2, s3}) \cup Permutations({a1, a2})

\* Tools that are value-sensitive, one that is not, and one with actions.
Repertoires ==
    LET plain(tool, shape, rest) == [tool |-> tool, action |-> "none", shape |-> shape, rest |-> rest]
        browser(action, rest) == [tool |-> "browser", action |-> action, shape |-> action, rest |-> rest]
        read == plain("read_file", 1, 1)
        edit == plain("edit_file", 1, 1)
        canvas == plain("canvas", 1, 1)
        snapshot == browser("snapshot", 1)
    IN  {{read, edit, plain("edit_file", 2, 1)},
         {read, edit, plain("execute_command", 1, 1)},
         {canvas, plain("canvas", 1, 2), read},
         {snapshot, browser("upload", 1), canvas}}
=============================================================================
