----------------------------- MODULE Compaction -----------------------------
(***************************************************************************)
(* CompactionManager (src/src/core/Compaction.ts) under the loops that      *)
(* start it and write to the sessions it reads: a session over the          *)
(* threshold is summarised in the background and its conversation rolled    *)
(* over to a child session.  Messages are numbered as they are said; a row  *)
(* holds one of them or the summary of several.  Whether a session is over  *)
(* the threshold, how much of its tail fits the budget and what a pass      *)
(* saves are open choices, as token counts are not modelled.                *)
(***************************************************************************)
EXTENDS Naturals, Sequences, FiniteSets

CONSTANTS
    Root,        \* session ids callers address
    Child,       \* ids compaction may give to child sessions
    Task,        \* tasks, each on one session
    ProtectHead, \* PROTECT_HEAD
    History,     \* messages each root holds at first
    MaxSaid,     \* bound on the number of messages
    MaxCrashes,  \* bound on process restarts
    None

Session == Root \cup Child
Message == 1..MaxSaid

ASSUME CompactionAssumption ==
    /\ Root \cap Child = {} /\ None \notin Session
    /\ ProtectHead \in Nat /\ History \in Nat /\ MaxSaid \in Nat /\ MaxCrashes \in Nat
    /\ IsFiniteSet(Root) /\ History * Cardinality(Root) <= MaxSaid

VARIABLES
    sessions,   \* session rows
    rows,       \* session_messages of each session
    said,       \* messages so far
    at,         \* where each task is
    root,       \* the session it was addressed to
    sid         \* the session it reads and writes

VARIABLES
    pending,    \* sessions with a compaction promise in flight
    snapshot,   \* what that compaction has read: its head, middle and tail
    savings,    \* recentSavings of each session, "low" below MIN_SAVINGS_PCT
    latest,     \* latestSessionId
    torn,       \* sessions rolled over with a loop on them, or newer rows
    crashes     \* restarts so far

loops == <<said, at, root, sid>>
manager == <<pending, snapshot, savings, latest>>
vars == <<sessions, rows, loops, manager, torn, crashes>>

Verbatim(m) == [kind |-> "message", of |-> {m}]
Row == [kind : {"message", "summary"}, of : SUBSET Message]

Nothing == [head |-> <<>>, middle |-> <<>>, tail |-> <<>>]
Snapshot == [head : Seq(Row), middle : Seq(Row), tail : Seq(Row)]

\* The task has looked up the session it goes on in.
Working(t) == at[t] \in {"files", "turn"}

TypeOK ==
    /\ sessions \subseteq Session
    /\ rows \in [Session -> Seq(Row)]
    /\ said \in 0..MaxSaid
    /\ at \in [Task -> {"new", "waiting", "resuming", "files", "turn", "over"}]
    /\ root \in [Task -> Root \cup {None}]
    /\ sid \in [Task -> Session \cup {None}]
    /\ \A t \in Task : Working(t) => sid[t] \in Session
    /\ pending \subseteq Session
    /\ snapshot \in [Session -> Snapshot]
    /\ savings \in [Session -> Seq({"low", "high"})]
    /\ latest \in [Session -> Session]
    /\ torn \subseteq Session
    /\ crashes \in 0..MaxCrashes

\* Each root starts with a history of its own.
Init ==
    /\ sessions = Root
    /\ \E number \in [Root -> 0..Cardinality(Root) - 1] :
          /\ \A r, s \in Root : number[r] = number[s] => r = s
          /\ rows = [s \in Session |->
                        IF s \in Root
                        THEN [i \in 1..History |-> Verbatim(number[s] * History + i)]
                        ELSE <<>>]
    /\ said = History * Cardinality(Root)
    /\ at = [t \in Task |-> "new"]
    /\ root = [t \in Task |-> None]
    /\ sid = [t \in Task |-> None]
    /\ pending = {}
    /\ snapshot = [s \in Session |-> Nothing]
    /\ savings = [s \in Session |-> <<>>]
    /\ latest = [s \in Session |-> s]
    /\ torn = {}
    /\ crashes = 0

-----------------------------------------------------------------------------
(* The start of a compaction: maybeCompactInBackground and runCompaction up *)
(* to the summary call.                                                     *)

\* The last two passes saved less than the minimum.
Thrashing(s) ==
    LET n == Len(savings[s]) IN n >= 2 /\ savings[s][n] = "low" /\ savings[s][n - 1] = "low"

\* rs, with its first ProtectHead rows and its last k rows protected.
Cut(rs, k) ==
    [head   |-> SubSeq(rs, 1, ProtectHead),
     middle |-> SubSeq(rs, ProtectHead + 1, Len(rs) - k),
     tail   |-> SubSeq(rs, Len(rs) - k + 1, Len(rs))]

\* rs are the rows of s.  The tail has two rows or as many as its budget takes.
Compacts(s, rs) ==
    /\ s \notin pending
    /\ ~Thrashing(s)
    /\ Len(rs) >= ProtectHead + 4
    /\ pending' = pending \cup {s}
    /\ \E k \in 2..Len(rs) - ProtectHead - 1 : snapshot' = [snapshot EXCEPT ![s] = Cut(rs, k)]

\* Below the threshold, under way already, or skipped for a reason: a promise
\* that settles before any other step of a loop.
MayCompact(s, rs) == Compacts(s, rs) \/ UNCHANGED <<pending, snapshot>>

-----------------------------------------------------------------------------
(* Loops: TaskRunner._execute, as far as it reads and writes sessions.      *)

\* awaitPending is asked about the session the caller addressed.
Arrives(t, r) ==
    /\ at[t] = "new"
    /\ root' = [root EXCEPT ![t] = r]
    /\ at' = [at EXCEPT ![t] = IF r \in pending THEN "waiting" ELSE "resuming"]
    /\ UNCHANGED <<sessions, rows, said, sid, manager, torn, crashes>>

\* currentSessionId
Current(r) == latest[r]

\* The user's message is written to s and the first turn begins.
Begins(t, s) ==
    /\ said < MaxSaid
    /\ said' = said + 1
    /\ rows' = [rows EXCEPT ![s] = Append(@, Verbatim(said + 1))]
    /\ at' = [at EXCEPT ![t] = "turn"]

\* The task continues where currentSessionId says: at once, or when the files
\* that came with its message have been processed.
Resumes(t) ==
    /\ at[t] = "resuming"
    /\ sid' = [sid EXCEPT ![t] = Current(root[t])]
    /\ \/ Begins(t, Current(root[t]))
       \/ at' = [at EXCEPT ![t] = "files"] /\ UNCHANGED <<said, rows>>
    /\ UNCHANGED <<sessions, root, manager, torn, crashes>>

\* They have: the session may have been rolled over meanwhile.
AfterAttachments(t) ==
    /\ at[t] = "files"
    /\ Begins(t, sid[t])
    /\ UNCHANGED <<sessions, root, sid, manager, torn, crashes>>

\* A turn of the loop ends: its reply is persisted and compaction considered.
\* The loop is over, or goes on with the inputs that have arrived.
TurnEnds(t) ==
    /\ at[t] = "turn"
    /\ LET reply == Append(rows[sid[t]], Verbatim(said + 1))
       IN  /\ MayCompact(sid[t], reply)
           /\ \/ /\ said + 1 <= MaxSaid
                 /\ said' = said + 1
                 /\ rows' = [rows EXCEPT ![sid[t]] = reply]
                 /\ at' = [at EXCEPT ![t] = "over"]
              \/ /\ said + 2 <= MaxSaid
                 /\ said' = said + 2
                 /\ rows' = [rows EXCEPT ![sid[t]] = Append(reply, Verbatim(said + 2))]
                 /\ UNCHANGED at
    /\ UNCHANGED <<sessions, root, sid, savings, latest, torn, crashes>>

TurnFails(t) ==
    /\ at[t] = "turn"
    /\ at' = [at EXCEPT ![t] = "over"]
    /\ UNCHANGED <<sessions, rows, said, root, sid, manager, torn, crashes>>

-----------------------------------------------------------------------------
(* The end of a compaction.                                                 *)

\* Mutants of ChildRows: the tail is forgotten; the summary comes first.
ChildRowsWithoutTail(cut) ==
    cut.head \o <<[kind |-> "summary", of |-> UNION {cut.middle[i].of : i \in DOMAIN cut.middle}]>>

ChildRowsSummaryFirst(cut) ==
    <<[kind |-> "summary", of |-> UNION {cut.middle[i].of : i \in DOMAIN cut.middle}]>>
    \o cut.head \o cut.tail

\* One row stands for the middle: the summary, or when the call failed the note
\* that so many older messages were pruned.
ChildRows(cut) ==
    cut.head
    \o <<[kind |-> "summary", of |-> UNION {cut.middle[i].of : i \in DOMAIN cut.middle}]>>
    \o cut.tail

Wake(s) == [t \in Task |-> IF at[t] = "waiting" /\ root[t] = s THEN "resuming" ELSE at[t]]

\* Nobody has written to s since its compaction began, and nobody is about to.
Settled(s) ==
    /\ rows[s] = snapshot[s].head \o snapshot[s].middle \o snapshot[s].tail
    /\ \A t \in Task : ~(Working(t) /\ sid[t] = s)

\* Mutant of RollsOver: the promise stays in the map when it has settled.
RollsOverStaysPending(s, c, saving) ==
    /\ s \in pending /\ c \in Child \ sessions
    /\ sessions' = sessions \cup {c}
    /\ rows' = [rows EXCEPT ![c] = ChildRows(snapshot[s])]
    /\ savings' = [savings EXCEPT ![s] = Append(@, saving)]
    /\ latest' = [latest EXCEPT ![s] = c]
    /\ at' = Wake(s)
    /\ UNCHANGED <<said, root, sid, pending, snapshot, torn, crashes>>

\* The summary has arrived, or failed: the child is filled from the snapshot.
RollsOver(s, c, saving) ==
    /\ s \in pending /\ c \in Child \ sessions
    /\ sessions' = sessions \cup {c}
    /\ rows' = [rows EXCEPT ![c] = ChildRows(snapshot[s])]
    /\ savings' = [savings EXCEPT ![s] = Append(@, saving)]
    /\ latest' = [latest EXCEPT ![s] = c]
    /\ torn' = IF Settled(s) THEN torn ELSE torn \cup {s}
    /\ pending' = pending \ {s}
    /\ snapshot' = [snapshot EXCEPT ![s] = Nothing]
    /\ at' = Wake(s)
    /\ UNCHANGED <<said, root, sid, crashes>>

\* The process restarts: the tables survive, the manager's map does not.
Restart ==
    /\ crashes < MaxCrashes
    /\ crashes' = crashes + 1
    /\ at' = [t \in Task |-> IF at[t] = "new" THEN "new" ELSE "over"]
    /\ pending' = {}
    /\ snapshot' = [s \in Session |-> Nothing]
    /\ savings' = [s \in Session |-> <<>>]
    /\ latest' = [s \in Session |-> s]
    /\ UNCHANGED <<sessions, rows, said, root, sid, torn>>

Next ==
    \/ \E t \in Task : \E r \in Root : Arrives(t, r)
    \/ \E t \in Task : Resumes(t) \/ AfterAttachments(t) \/ TurnEnds(t) \/ TurnFails(t)
    \/ \E s \in Session, c \in Child, saving \in {"low", "high"} : RollsOver(s, c, saving)
    \/ Restart

Spec == Init /\ [][Next]_vars

-----------------------------------------------------------------------------
(* Properties.                                                             *)

\* What a reader of s learns of, message by message, in a summary, or in the
\* note a failed summary leaves.
Represented(s) == UNION {rows[s][i].of : i \in DOMAIN rows[s]}

\* The sessions the conversation of r has gone through, as far as rows tell:
\* those that share a message with it.
Lineage(r) == {s \in sessions : Represented(s) \cap Represented(r) # {}}

\* A conversation loses nothing by being rolled over, however often and with
\* whatever turns in between, as long as no session was written to from the
\* start of its compaction on and the process has not restarted: the session
\* new turns continue in represents all that was said in it.
ConversationIsWhole ==
    torn = {} /\ crashes = 0 =>
        \A r \in Root : \A s \in Lineage(r) : Represented(s) \subseteq Represented(latest[r])

\* A conversation tells its messages in the order they were said, also after
\* its rows have been copied, summarised and continued elsewhere.
OrderIsKept ==
    \A s \in sessions : \A i, j \in DOMAIN rows[s] :
        i < j => \A m \in rows[s][i].of, n \in rows[s][j].of : m < n

\* Compaction.ts: "the original session stays intact for audit."
OriginalIntact ==
    [][\A s \in Session :
          /\ Len(rows[s]) <= Len(rows[s]')
          /\ \A i \in DOMAIN rows[s] : rows[s]'[i] = rows[s][i]]_vars

\* Compactions that save little are given up: no three passes in a row over one
\* session do, since the two before are known when the third is considered.
ThrashingStops ==
    \A s \in Session : \A i \in 3..Len(savings[s]) :
        \E j \in i - 2 .. i : savings[s][j] = "high"

\* The manager keeps what it promises the run loop.
Promise == INSTANCE RollOver WITH compacting <- pending
KeepsPromise == Promise!Spec

\* Compaction.ts: currentSessionId is "The session id a new turn should
\* READ/WRITE from."
CurrentIsNewest == \A r \in Root : latest[Current(r)] = Current(r)
=============================================================================
