---------------------------- MODULE LoopDetector ----------------------------
(***************************************************************************)
(* What LoopDetector (src/src/core/LoopDetector.ts) lets one task's model    *)
(* call: every tool call goes through record() first, which keeps the last    *)
(* ten and refuses the call if they look like a loop.  A call is known by     *)
(* what the detector tells apart: its tool, the action of a tool that         *)
(* dispatches by one, its shape (the names of the parameters, with the first   *)
(* 80 characters of the values for a value-sensitive tool), and the rest.     *)
(***************************************************************************)
EXTENDS Naturals, Sequences, FiniteSets

CONSTANTS
    Repertoire,   \* sets of calls a task's model may choose from
    Sensitive,    \* VALUE_SENSITIVE_TOOLS
    MultiAction   \* MULTI_ACTION_TOOLS

WINDOW_SIZE == 10

VARIABLES
    words,        \* the calls this task's model chooses from
    history,      \* LoopDetector.history of the task
    blocked       \* was the last call refused

vars == <<words, history, blocked>>

Call == UNION Repertoire

TypeOK ==
    /\ words \in Repertoire
    /\ history \in Seq(words) /\ Len(history) <= WINDOW_SIZE
    /\ blocked \in BOOLEAN

Init == words \in Repertoire /\ history = <<>> /\ blocked = FALSE

-----------------------------------------------------------------------------
\* The patterns, over a history that ends with the call in question.

Recent(h, n) == SubSeq(h, Len(h) + 1 - n, Len(h))
Latest(h) == h[Len(h)]
Hash(c) == <<c.tool, c.shape>>
Hashes(h) == {Hash(h[i]) : i \in DOMAIN h}
Tools(h) == {h[i].tool : i \in DOMAIN h}

ExactRepeat(h) == Len(h) >= 3 /\ \A i \in 1..3 : Recent(h, 3)[i] = Latest(h)

\* Mutant of PingPong: rounds of three are not looked for.
PingPongOfTwo(h) ==
    /\ Len(h) >= 4
    /\ LET l == Recent(h, 4) IN l[1].tool = l[3].tool /\ l[2].tool = l[4].tool /\ l[1].tool # l[2].tool

\* The same two tools in turn, or the same three.
PingPong(h) ==
    \/ /\ Len(h) >= 4
       /\ LET l == Recent(h, 4) IN l[1].tool = l[3].tool /\ l[2].tool = l[4].tool /\ l[1].tool # l[2].tool
    \/ /\ Len(h) >= 6
       /\ LET l == Recent(h, 6) IN (\A i \in 1..3 : l[i].tool = l[i + 3].tool) /\ Cardinality(Tools(l)) > 1

\* Mutant of VerifyFix: off by one.
VerifyFixOfFour(h) ==
    LET l == Recent(h, 4) IN Tools(l) \subseteq Sensitive /\ Cardinality(Hashes(l)) > 3

\* "Different params each time on value-sensitive tools = legit verify-fix cycle".
VerifyFix(h) ==
    LET l == Recent(h, 4) IN Tools(l) \subseteq Sensitive /\ Cardinality(Hashes(l)) > 2

SemanticRepeat(h) ==
    Cardinality({i \in DOMAIN h : Hash(h[i]) = Hash(Latest(h))}) >= 6

Polling(h) ==
    LET c == Latest(h)
    IN  Cardinality({i \in DOMAIN h : /\ h[i].tool = c.tool
                                      /\ c.tool \in MultiAction => h[i].action = c.action}) >= 8

Blocks(h) == ExactRepeat(h) \/ (PingPong(h) /\ ~VerifyFix(h)) \/ SemanticRepeat(h) \/ Polling(h)

-----------------------------------------------------------------------------

\* record(), before the tool runs; a refused call is remembered like any other.
Record(c) ==
    /\ history' = IF Len(history) = WINDOW_SIZE THEN Append(Tail(history), c) ELSE Append(history, c)
    /\ blocked' = Blocks(history')
    /\ UNCHANGED words

\* cleanup() where the task's loop ends; the next task begins anew.
Cleanup ==
    /\ words' \in Repertoire
    /\ history' = <<>> /\ blocked' = FALSE

Next == Cleanup \/ \E c \in words : Record(c)

Spec == Init /\ [][Next]_vars

-----------------------------------------------------------------------------

\* h repeats itself every p calls.
GoesRound(h, p) == \A i \in 1..(Len(h) - p) : h[i] = h[i + p]

\* Two rounds slip through for ever: three calls of value-sensitive tools pass for a
\* verify-fix cycle, and the actions of one tool are no ping-pong.
Excused(h) ==
    LET l == Recent(h, 3)
    IN  \/ Tools(l) \subseteq Sensitive /\ Cardinality(Tools(l)) > 1 /\ Cardinality(Hashes(l)) = 3
       \/ /\ Tools(l) \subseteq MultiAction /\ Cardinality(Tools(l)) = 1
          /\ Cardinality({l[i].action : i \in 1..3}) > 1

\* "Prevents the agent from burning tokens in repetitive tool call patterns": a
\* model that goes round one, two or three calls is stopped within the window,
\* whichever patterns it slips through, but for the rounds that are excused.
ShortLoopsEnd ==
    \A p \in 1..3 : Len(history) = WINDOW_SIZE /\ GoesRound(history, p) => blocked \/ Excused(history)

\* Work that is new to the window is let through: a call of a value-sensitive tool
\* after others, and another action of a tool that was only asked for some, are
\* refused only for polling ("legit verify-fix cycle", "a recovery snapshot").
NewWorkPasses ==
    LET c == Latest(history)
        earlier == SubSeq(history, 1, Len(history) - 1)
    IN  /\ history # <<>> /\ Hash(c) \notin Hashes(earlier)
        /\ \/ Tools(Recent(history, IF Len(history) < 4 THEN Len(history) ELSE 4)) \subseteq Sensitive
           \/ /\ Tools(history) \subseteq MultiAction /\ Cardinality(Tools(history)) = 1
              /\ \A i \in DOMAIN earlier : earlier[i].action # c.action
        => ~blocked \/ Polling(history)

\* LoopDetector.ts, of the second pattern: "A<->B or A->B->C->A->B->C".  A model that
\* has gone round the same three calls twice is stopped.  Refuted.
RoundsOfThreeAreBlocked ==
    Len(history) >= 6 /\ Cardinality(Tools(Recent(history, 6))) > 1 /\ GoesRound(Recent(history, 6), 3) => blocked
=============================================================================
