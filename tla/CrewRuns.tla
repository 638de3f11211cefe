------------------------------ MODULE CrewRuns ------------------------------
(***************************************************************************)
(* Delegated runs of specialist crews: CrewAgentRunner                      *)
(* (src/src/crew/CrewAgentRunner.ts), the stop_crew tool's way into it, and *)
(* the session every run of a crew shares.  A provider stream is one await. *)
(* The Set of controllers that a crew's activeRuns entry holds is an object *)
(* with an identity, and a run keeps the one it joined: sets are named by   *)
(* the run that created them, controllers by their run.                     *)
(***************************************************************************)
EXTENDS Naturals, Sequences, FiniteSets, SequencesExt

CONSTANTS
    Run,         \* calls of run(), from use_crew, parallel_crew and others
    Crew,
    Sess,        \* ids the database may give to crew sessions
    Fresh,       \* runs that ask for a fresh session
    Deletable,   \* sessions a user may delete
    MaxCrashes,  \* bound on process restarts
    None

ASSUME CrewRunsAssumption ==
    /\ None \notin Run \cup Crew \cup Sess
    /\ Fresh \subseteq Run /\ Deletable \subseteq Sess
    /\ MaxCrashes \in Nat

VARIABLES
    recency,    \* session rows, least recently touched first
    source,     \* the crew each session row was created for
    rows        \* session_messages of each session

VARIABLES
    cache,      \* crewSessionIds
    index,      \* activeRuns: the Set object of each crew
    members     \* the controllers in each Set object

VARIABLES
    at,         \* where each run is
    crew,       \* its crew,
    used,       \* its session
    mine,       \* and the Set object it joined
    stopped,    \* runs aborted by stop() or stopAll()
    crashes     \* restarts so far

tables == <<recency, source, rows>>
registry == <<index, members>>
locals == <<crew, used, mine>>
vars == <<tables, cache, registry, at, locals, stopped, crashes>>

Row == [by : Run, kind : {"task", "call", "result", "text", "summarise"}]

TypeOK ==
    /\ recency \in Seq(Sess)
    /\ source \in [Sess -> Crew \cup {None}]
    /\ rows \in [Sess -> Seq(Row)]
    /\ cache \in [Crew -> Sess \cup {None}]
    /\ index \in [Crew -> Run \cup {None}]
    /\ members \in [Run -> SUBSET Run]
    /\ at \in [Run -> {"new", "primary", "summary", "ended", "lost"}]
    /\ crew \in [Run -> Crew \cup {None}]
    /\ used \in [Run -> Sess \cup {None}]
    /\ mine \in [Run -> Run \cup {None}]
    /\ stopped \subseteq Run
    /\ crashes \in 0..MaxCrashes

Init ==
    /\ recency = <<>>
    /\ source = [s \in Sess |-> None]
    /\ rows = [s \in Sess |-> <<>>]
    /\ cache = [c \in Crew |-> None]
    /\ index = [c \in Crew |-> None]
    /\ members = [r \in Run |-> {}]
    /\ at = [r \in Run |-> "new"]
    /\ crew = [r \in Run |-> None]
    /\ used = [r \in Run |-> None]
    /\ mine = [r \in Run |-> None]
    /\ stopped = {}
    /\ crashes = 0

InFlight == {r \in Run : at[r] \in {"primary", "summary"}}
Exists(s) == \E i \in DOMAIN recency : recency[i] = s
Without(s) ==
    IF Exists(s) THEN RemoveAt(recency, CHOOSE i \in DOMAIN recency : recency[i] = s)
    ELSE recency
Touched(s) == Append(Without(s), s)

\* findLatestSessionBySource
LatestOf(c) ==
    LET own == {i \in DOMAIN recency : source[recency[i]] = c}
    IN  IF own = {} THEN None ELSE recency[CHOOSE i \in own : \A j \in own : j <= i]

\* Mutant of SessionFor: the database is not asked.
SessionFromCacheOnly(r, c) ==
    IF r \notin Fresh /\ cache[c] # None /\ Exists(cache[c]) THEN {cache[c]}
    ELSE {s \in Sess : ~Exists(s) /\ rows[s] = <<>>}

\* The session a run of c works in: the cached one, else the crew's latest row,
\* else a new one.  An id is given to at most one row.
SessionFor(r, c) ==
    IF r \notin Fresh /\ cache[c] # None /\ Exists(cache[c]) THEN {cache[c]}
    ELSE IF r \notin Fresh /\ LatestOf(c) # None THEN {LatestOf(c)}
    ELSE {s \in Sess : ~Exists(s) /\ source[s] = None}

\* Mutant of Join: every run registers a Set of its own.
JoinAlone(r, c) ==
    /\ mine' = [mine EXCEPT ![r] = r]
    /\ index' = [index EXCEPT ![c] = r]
    /\ members' = [members EXCEPT ![r] = {r}]

\* The crew's Set of controllers, or a new one, gets r's controller.
Join(r, c) ==
    LET o == IF index[c] = None THEN r ELSE index[c]
    IN  /\ mine' = [mine EXCEPT ![r] = o]
        /\ index' = [index EXCEPT ![c] = o]
        /\ members' = [members EXCEPT ![o] = @ \cup {r}]

\* run() up to its first await: session, delegation row, registration.
Begin(r, c) ==
    /\ at[r] = "new"
    /\ \E s \in SessionFor(r, c) :
          /\ recency' = Touched(s)
          /\ source' = [source EXCEPT ![s] = c]
          /\ rows' = [rows EXCEPT ![s] = Append(@, [by |-> r, kind |-> "task"])]
          /\ cache' = [cache EXCEPT ![c] = s]
          /\ used' = [used EXCEPT ![r] = s]
    /\ Join(r, c)
    /\ crew' = [crew EXCEPT ![r] = c]
    /\ at' = [at EXCEPT ![r] = "primary"]
    /\ UNCHANGED <<stopped, crashes>>

\* The finally block.  It empties the Set this run joined, then deletes the
\* crew's entry, which may by now hold another Set.
Finally(r) ==
    /\ members' = [members EXCEPT ![mine[r]] = @ \ {r}]
    /\ index' = IF members'[mine[r]] = {} THEN [index EXCEPT ![crew[r]] = None] ELSE index
    /\ at' = [at EXCEPT ![r] = "ended"]

\* A stream error, an abort, an unknown model, or a session deleted meanwhile.
RunFails(r) ==
    /\ at[r] \in {"primary", "summary"}
    /\ Finally(r)
    /\ UNCHANGED <<tables, cache, locals, stopped, crashes>>

Block(r) == <<[by |-> r, kind |-> "call"], [by |-> r, kind |-> "result"]>>

\* The stream ends: its response is appended in one synchronous loop.  Without
\* a final text the run asks once for a summary.
Stores(r, new) ==
    /\ Exists(used[r])
    /\ rows' = [rows EXCEPT ![used[r]] = @ \o new]
    /\ recency' = Touched(used[r])

PrimaryEnds(r) ==
    /\ at[r] = "primary"
    /\ Stores(r, Append(Block(r), [by |-> r, kind |-> "text"]))
    /\ Finally(r)
    /\ UNCHANGED <<source, cache, locals, stopped, crashes>>

PrimaryLacksText(r) ==
    /\ at[r] = "primary"
    /\ Stores(r, Append(Block(r), [by |-> r, kind |-> "summarise"]))
    /\ at' = [at EXCEPT ![r] = "summary"]
    /\ UNCHANGED <<source, cache, registry, locals, stopped, crashes>>

SummaryEnds(r) ==
    /\ at[r] = "summary"
    /\ Stores(r, <<[by |-> r, kind |-> "text"]>>)
    /\ Finally(r)
    /\ UNCHANGED <<source, cache, locals, stopped, crashes>>

\* stop(crewId): aborts the controllers of the crew's Set, empties it and
\* deletes the entry.  The runs themselves are still unwinding.
Stop(c) ==
    /\ index[c] # None
    /\ stopped' = stopped \cup members[index[c]]
    /\ members' = [members EXCEPT ![index[c]] = {}]
    /\ index' = [index EXCEPT ![c] = None]
    /\ UNCHANGED <<tables, cache, at, locals, crashes>>

\* stopAll()
StopAll ==
    LET sets == {index[c] : c \in Crew} \ {None}
    IN  /\ sets # {}
        /\ stopped' = stopped \cup UNION {members[o] : o \in sets}
        /\ members' = [o \in Run |-> IF o \in sets THEN {} ELSE members[o]]
        /\ index' = [c \in Crew |-> None]
        /\ UNCHANGED <<tables, cache, at, locals, crashes>>

DeleteSession(s) ==
    /\ s \in Deletable /\ Exists(s)
    /\ recency' = Without(s)
    /\ rows' = [rows EXCEPT ![s] = <<>>]
    /\ UNCHANGED <<source, cache, registry, at, locals, stopped, crashes>>

Restart ==
    /\ crashes < MaxCrashes
    /\ crashes' = crashes + 1
    /\ at' = [r \in Run |-> IF r \in InFlight THEN "lost" ELSE at[r]]
    /\ cache' = [c \in Crew |-> None]
    /\ index' = [c \in Crew |-> None]
    /\ members' = [r \in Run |-> {}]
    /\ UNCHANGED <<tables, locals, stopped>>

RunStep(r) == RunFails(r) \/ PrimaryEnds(r) \/ PrimaryLacksText(r) \/ SummaryEnds(r)

Next ==
    \/ \E r \in Run : RunStep(r) \/ \E c \in Crew : Begin(r, c)
    \/ \E c \in Crew : Stop(c)
    \/ StopAll
    \/ \E s \in Sess : DeleteSession(s)
    \/ Restart

Spec == Init /\ [][Next]_vars

-----------------------------------------------------------------------------
(* Properties.                                                             *)

Reachable(r) == index[crew[r]] # None /\ r \in members[index[crew[r]]]

\* What stop() counts and listActive() shows is real: a crew's entry holds
\* controllers of runs of that crew that are still running and not yet stopped,
\* and at least one, however runs and stops overlap.
EntryIsLive ==
    \A c \in Crew : index[c] # None =>
        LET held == members[index[c]]
        IN  /\ held # {}
            /\ \A r \in held : r \in InFlight \ stopped /\ crew[r] = c

\* A running crew is out of reach of stop_crew only if it was stopped, or if
\* an earlier run of the crew that had been stopped has unwound since.
LostOnlyBehindStopped ==
    \A r \in InFlight \ stopped :
        Reachable(r) \/ \E q \in stopped : crew[q] = crew[r] /\ at[q] = "ended"

\* SessionStore.ts warns that a user row between a tool call and its result
\* corrupts the conversation; runs that share a session never cause it.
CallsKeepResults ==
    \A s \in Sess : \A i \in DOMAIN rows[s] :
        rows[s][i].kind = "call" =>
            /\ i < Len(rows[s])
            /\ rows[s][i + 1] = [by |-> rows[s][i].by, kind |-> "result"]

\* A crew keeps working in one session, across deletions and restarts: it has a
\* second one only if a run asked for a fresh one.
OneSessionPerCrew ==
    \A c \in Crew :
        Cardinality({s \in Sess : Exists(s) /\ source[s] = c}) <=
            1 + Cardinality({r \in Fresh : crew[r] = c})

\* CrewAgentRunner.ts: "Each `run()` registers its local controller so the main
\* agent can stop a running crew via the `stop_crew` tool".
RunningIsStoppable == \A r \in InFlight \ stopped : Reachable(r)
=============================================================================
