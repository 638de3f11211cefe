------------------------------ MODULE TeamDag ------------------------------
(***************************************************************************)
(* TeamStore.validateDAG (src/src/teams/TeamStore.ts): what a team          *)
(* definition must satisfy before anything is persisted.  A definition is   *)
(* a sequence of workers, each with a name and the list of the names it is  *)
(* blocked by; the list may repeat a name, as the JSON callers send may.    *)
(***************************************************************************)
EXTENDS Naturals, Sequences, FiniteSets

CONSTANT Name   \* names a definition may use, for its workers or its blockers

ASSUME NameFinite == IsFiniteSet(Name)

Worker == [name : Name, blockedBy : Seq(Name)]

Named(d) == {d[i].name : i \in DOMAIN d}

ReferencesOK(d) ==
    /\ Cardinality(Named(d)) = Len(d)
    /\ \A i \in DOMAIN d : \A k \in DOMAIN d[i].blockedBy :
           d[i].blockedBy[k] \in Named(d) \ {d[i].name}

BlockedBy(d, n) == d[CHOOSE j \in DOMAIN d : d[j].name = n].blockedBy

\* The names of F, in definition order.
InOrder(d, F) ==
    LET upto[k \in 0..Len(d)] ==
            IF k = 0 THEN <<>>
            ELSE IF d[k].name \in F THEN Append(upto[k - 1], d[k].name) ELSE upto[k - 1]
    IN  upto[Len(d)]

Occurrences(n, s) == Cardinality({k \in DOMAIN s : s[k] = n})

\* Mutant of Degrees: a blocker listed twice is counted once.
DegreesOfSet(d) ==
    [n \in Named(d) |-> Cardinality({BlockedBy(d, n)[k] : k \in DOMAIN BlockedBy(d, n)})]

\* inDegree counts the entries of the list, not the distinct blockers.
Degrees(d) == [n \in Named(d) |-> Len(BlockedBy(d, n))]

\* One turn of Kahn's loop: the head of the queue is processed, each of its
\* entries in a dependent's list takes one off that dependent's degree, and
\* dependents that reach zero join the queue in definition order.
Process(d, st) ==
    LET less  == [n \in Named(d) |-> st.degree[n] - Occurrences(Head(st.queue), BlockedBy(d, n))]
        freed == {n \in Named(d) : st.degree[n] # 0 /\ less[n] = 0}
    IN  [queue |-> Tail(st.queue) \o InOrder(d, freed), degree |-> less, done |-> st.done + 1]

KahnStart(d) ==
    [queue  |-> InOrder(d, {n \in Named(d) : Degrees(d)[n] = 0}),
     degree |-> Degrees(d),
     done   |-> 0]

\* The loop pops one name per turn and enqueues each name at most once, so it
\* has stopped after Len(d) turns.
KahnTurn(d, st) == IF st.queue = <<>> THEN st ELSE Process(d, st)

KahnAfter(d) ==
    LET turn[k \in 0..Len(d)] == IF k = 0 THEN KahnStart(d) ELSE KahnTurn(d, turn[k - 1])
    IN  turn[Len(d)]

Accepted(d) == ReferencesOK(d) /\ KahnAfter(d).done = Len(d)

BlockersIn(d, n) ==
    UNION {{d[i].blockedBy[k] : k \in DOMAIN d[i].blockedBy} :
              i \in {j \in DOMAIN d : d[j].name = n}}

-----------------------------------------------------------------------------
\* The reference definition: in every non-empty set of workers at least one
\* is blocked by nobody of the set.
WellFounded(d) ==
    \A S \in (SUBSET Named(d)) \ {{}} : \E n \in S : BlockersIn(d, n) \cap S = {}

\* validateDAG accepts a definition exactly when its names are distinct, its
\* blockers are other workers of the team, and the blocking relation has no
\* cycle; a name listed twice among the blockers of a worker changes nothing.
\* Kahn's loop empties its queue and never counts a worker twice, so a cycle
\* cannot be hidden.
JudgedRight(d) ==
    /\ Accepted(d) <=> ReferencesOK(d) /\ WellFounded(d)
    /\ ReferencesOK(d) => KahnAfter(d).queue = <<>> /\ KahnAfter(d).done <= Len(d)
=============================================================================
