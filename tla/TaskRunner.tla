----------------------------- MODULE TaskRunner -----------------------------
(***************************************************************************)
(* The agent's run loop: src/src/core/TaskRunner.ts with the part of       *)
(* SessionStore it drives (session rows, message rows, the in-memory inbox *)
(* of pending inputs), the status column of TaskStore, and the session     *)
(* roll-over CompactionManager performs behind its back.                   *)
(*                                                                         *)
(* JavaScript runs one callback at a time, so an action is the code        *)
(* between two awaits.  A task is named by the message that spawned it.    *)
(* A model turn (agent.run, its event stream, responseMessages) is one     *)
(* await: what comes out of the provider is a nondeterministic choice.     *)
(* The text of a row, token counts, tool-call rows and the local SSE       *)
(* events are abstracted; a child session starts empty here (what          *)
(* compaction copies into it is the subject of module Compaction).         *)
(***************************************************************************)
EXTENDS Naturals, Sequences, FiniteSets

CONSTANTS
    Msg,        \* user messages; each is handed to the runner at most once
    Root,       \* session ids callers address ("main", a chat, a channel)
    Child,      \* ids compaction may give to the child sessions it creates
    DirectRun,  \* messages whose caller uses run() (channels, watchers, webhooks)
    WithFiles,  \* messages that carry attachments
    OnChannel,  \* messages whose caller set opts.channel
    Quiet,      \* messages whose task may have turns that end without a message
    Deletable,  \* sessions a user may delete through the API
    Overlap,    \* may a message arrive while another task is being set up?
    MaxCrashes, \* bound on process restarts
    None        \* no task

Session == Root \cup Child

ASSUME TaskRunnerAssumption ==
    /\ None \notin Msg
    /\ Root \cap Child = {}
    /\ DirectRun \subseteq Msg /\ WithFiles \subseteq Msg /\ OnChannel \subseteq Msg /\ Quiet \subseteq Msg
    /\ Deletable \subseteq Session
    /\ Overlap \in BOOLEAN
    /\ MaxCrashes \in Nat

VARIABLES
    sessions,   \* session rows in the database
    rows,       \* session_messages, per session, in seq order
    status      \* task_log.status of the task each message spawned

VARIABLES
    at,         \* where the _execute call of each message is
    sid,        \* its local variable sessionId
    retried,    \* tasks that used their forcedSummaryRetry
    mute,       \* history: how long the conversation was when the last turn
                \* of each task that produced no message at all ended
    replies     \* task:reply:needed events emitted for each task

VARIABLES
    inflight,   \* tasks with a live AbortController
    aborted,    \* tasks whose AbortController fired
    active,     \* activeBySession
    pending,    \* SessionStore.pending: inputs waiting for a safe boundary
    compacting, \* sessions with a compaction promise in flight
    latest,     \* CompactionManager's latestSessionId
    crashes     \* restarts so far

tables == <<sessions, rows, status>>
memory == <<inflight, aborted, active, pending, compacting, latest>>
vars == <<tables, at, sid, retried, mute, replies, memory, crashes>>

Where == {"new", "queued", "awaiting", "resuming", "files", "turn", "stillborn",
          "done", "rejected", "lost"}

UserRow(t, ms) == [role |-> "user", by |-> t, carries |-> ms]
SummariseRow(t) == [role |-> "user", by |-> t, carries |-> <<>>]
ReplyRow(t) == [role |-> "reply", by |-> t, carries |-> <<>>]
Row == [role : {"user", "reply"}, by : Msg, carries : Seq(Msg)]

TypeOK ==
    /\ sessions \subseteq Session
    /\ rows \in [Session -> Seq(Row)]
    /\ status \in [Msg -> {"none", "running", "completed", "failed"}]
    /\ at \in [Msg -> Where]
    /\ sid \in [Msg -> Session \cup {None}]
    /\ retried \subseteq Msg
    /\ mute \in [Msg -> Nat]
    /\ replies \in [Msg -> Seq({"answer", "sorry"})]
    /\ inflight \subseteq Msg
    /\ aborted \subseteq Msg
    /\ active \in [Session -> Msg \cup {None}]
    /\ pending \in [Session -> Seq(Msg)]
    /\ compacting \subseteq Session
    /\ latest \in [Session -> Session]
    /\ crashes \in 0..MaxCrashes

Init ==
    /\ sessions = {}
    /\ rows = [s \in Session |-> <<>>]
    /\ status = [m \in Msg |-> "none"]
    /\ at = [m \in Msg |-> "new"]
    /\ sid = [m \in Msg |-> None]
    /\ retried = {}
    /\ mute = [m \in Msg |-> 0]
    /\ replies = [m \in Msg |-> <<>>]
    /\ inflight = {}
    /\ aborted = {}
    /\ active = [s \in Session |-> None]
    /\ pending = [s \in Session |-> <<>>]
    /\ compacting = {}
    /\ latest = [s \in Session |-> s]
    /\ crashes = 0

-----------------------------------------------------------------------------
(* Delivery: send() and run().                                             *)

SettingUp == {m \in Msg : at[m] \in {"awaiting", "resuming", "files"}}

\* The environment hands m over, addressed to s; resolveSession creates s.
Arrives(m, s) ==
    /\ at[m] = "new"
    /\ Overlap \/ SettingUp = {}
    /\ sessions' = sessions \cup {s}

\* send() finds a loop on the session: the text goes to the inbox.  Only the
\* text: an attachment of m is not queued with it.
Inject(m, s) ==
    /\ Arrives(m, s)
    /\ m \notin DirectRun
    /\ active[s] # None
    /\ pending' = [pending EXCEPT ![s] = Append(@, m)]
    /\ at' = [at EXCEPT ![m] = "queued"]
    /\ UNCHANGED <<rows, status, sid, retried, mute, replies, inflight, aborted,
                   active, compacting, latest, crashes>>

\* run(), or send() on a session with no loop: _execute up to its first await.
Spawn(m, s) ==
    /\ Arrives(m, s)
    /\ m \in DirectRun \/ active[s] = None
    /\ status' = [status EXCEPT ![m] = "running"]
    /\ sid' = [sid EXCEPT ![m] = s]
    /\ at' = [at EXCEPT ![m] = IF s \in compacting THEN "awaiting" ELSE "resuming"]
    /\ UNCHANGED <<rows, retried, mute, replies, memory, crashes>>

-----------------------------------------------------------------------------
(* Set-up: after awaitPending, and after the attachment processor.         *)

\* Mutant of Register: the session index is not written.
RegisterWithoutIndex(m, s) ==
    \/ /\ s \in sessions
       /\ rows' = [rows EXCEPT ![s] = Append(@, UserRow(m, <<m>>))]
       /\ inflight' = inflight \cup {m}
       /\ at' = [at EXCEPT ![m] = "turn"]
       /\ UNCHANGED active
    \/ /\ s \notin sessions
       /\ at' = [at EXCEPT ![m] = "rejected"]
       /\ UNCHANGED <<rows, inflight, active>>

\* The user row is written, then the task enters both indexes and starts its
\* first turn.  A session deleted meanwhile rejects the row: _execute has not
\* reached its try, so the promise rejects and nothing is cleaned up.
Register(m, s) ==
    \/ /\ s \in sessions
       /\ rows' = [rows EXCEPT ![s] = Append(@, UserRow(m, <<m>>))]
       /\ inflight' = inflight \cup {m}
       /\ active' = [active EXCEPT ![s] = m]
       /\ at' = [at EXCEPT ![m] = "turn"]
    \/ /\ s \notin sessions
       /\ at' = [at EXCEPT ![m] = "rejected"]
       /\ UNCHANGED <<rows, inflight, active>>

AfterCompaction(m) ==
    /\ at[m] = "resuming"
    /\ LET s == latest[sid[m]]
       IN  /\ sid' = [sid EXCEPT ![m] = s]
           /\ \/ /\ m \in WithFiles
                 /\ at' = [at EXCEPT ![m] = "files"]
                 /\ UNCHANGED <<rows, inflight, active>>
              \/ m \notin WithFiles /\ Register(m, s)
    /\ UNCHANGED <<sessions, status, retried, mute, replies, aborted, pending,
                   compacting, latest, crashes>>

AfterAttachments(m) ==
    /\ at[m] = "files"
    /\ Register(m, sid[m])
    /\ UNCHANGED <<sessions, status, sid, retried, mute, replies, aborted, pending,
                   compacting, latest, crashes>>

-----------------------------------------------------------------------------
(* The end of a turn.                                                      *)

\* Mutant of Finally: the controller is not deleted.
FinallyKeepsController(m) ==
    /\ active' = [active EXCEPT ![sid[m]] = None]
    /\ at' = [at EXCEPT ![m] = "done"]
    /\ UNCHANGED inflight

\* The finally block: the task leaves inflight, and whatever entry its
\* session has in activeBySession is deleted.
Finally(m) ==
    /\ inflight' = inflight \ {m}
    /\ active' = [active EXCEPT ![sid[m]] = None]
    /\ at' = [at EXCEPT ![m] = "done"]

ReplyOnChannel(m, r) ==
    replies' = IF m \in OnChannel THEN [replies EXCEPT ![m] = Append(@, r)] ELSE replies

\* Mutant of TurnReportsError: the missing return lets the loop go on.
ErrorFallsThrough(m) ==
    /\ at[m] = "turn" /\ status[m] = "running"
    /\ status' = [status EXCEPT ![m] = "failed"]
    /\ replies' = [replies EXCEPT ![m] = Append(@, "sorry")]
    /\ UNCHANGED <<sessions, rows, at, sid, retried, mute, memory, crashes>>

\* An error event in the stream: the reply is emitted with or without a channel.
TurnReportsError(m) ==
    /\ at[m] = "turn"
    /\ status' = [status EXCEPT ![m] = "failed"]
    /\ replies' = [replies EXCEPT ![m] = Append(@, "sorry")]
    /\ Finally(m)
    /\ UNCHANGED <<sessions, rows, sid, retried, mute, aborted, pending, compacting,
                   latest, crashes>>

\* An exception: the provider's, an abort's, or a row refused by the database.
TurnThrows(m) ==
    /\ at[m] \in {"turn", "stillborn"}
    /\ status' = [status EXCEPT ![m] = "failed"]
    /\ ReplyOnChannel(m, "sorry")
    /\ Finally(m)
    /\ UNCHANGED <<sessions, rows, sid, retried, mute, aborted, pending, compacting,
                   latest, crashes>>

\* Mutant of Persist: the next prompt is written before the response block.
PersistPromptFirst(m, next) ==
    /\ at[m] = "turn" /\ sid[m] \in sessions
    /\ rows' = [rows EXCEPT ![sid[m]] = @ \o next \o <<ReplyRow(m)>>]
    /\ UNCHANGED mute

\* The response block of m's turn is persisted, then the user row of its next
\* turn, when it has one.  A provider may end a turn without a single message:
\* there is no block then, and nothing to refuse when the session is gone.
Persist(m, next) ==
    /\ at[m] = "turn"
    /\ \/ /\ sid[m] \in sessions
          /\ rows' = [rows EXCEPT ![sid[m]] = @ \o <<ReplyRow(m)>> \o next]
          /\ UNCHANGED mute
       \/ /\ m \in Quiet
          /\ sid[m] \in sessions \/ next = <<>>
          /\ rows' = [rows EXCEPT ![sid[m]] = @ \o next]
          /\ mute' = [mute EXCEPT ![m] = Len(rows[sid[m]])]

\* maybeCompactInBackground: above the threshold or not, at most one at a time.
MayStartCompaction(m) ==
    compacting' \in {compacting, compacting \cup {sid[m]}}

\* The next turn.  The provider refuses to start it once the signal is aborted.
NextTurn(m) ==
    at' = [at EXCEPT ![m] = IF m \in aborted THEN "stillborn" ELSE "turn"]

\* Tool calls but no text: one synthetic turn asks for a summary.
TurnLacksText(m) ==
    /\ m \notin retried
    /\ Persist(m, <<SummariseRow(m)>>)
    /\ MayStartCompaction(m)
    /\ retried' = retried \cup {m}
    /\ NextTurn(m)
    /\ UNCHANGED <<sessions, status, sid, replies, inflight, aborted, active,
                   pending, latest, crashes>>

\* Mutant of TurnDrains: the inbox is read and not emptied.
DrainKeepsInbox(m) ==
    /\ Persist(m, <<UserRow(m, pending[sid[m]])>>)
    /\ pending[sid[m]] # <<>> /\ Len(rows[sid[m]]) < 6
    /\ MayStartCompaction(m)
    /\ NextTurn(m)
    /\ UNCHANGED <<sessions, status, sid, retried, replies, inflight, aborted,
                   active, pending, latest, crashes>>

\* Safe boundary with inputs waiting: all of them become one user row.
TurnDrains(m) ==
    /\ Persist(m, <<UserRow(m, pending[sid[m]])>>)
    /\ pending[sid[m]] # <<>>
    /\ MayStartCompaction(m)
    /\ pending' = [pending EXCEPT ![sid[m]] = <<>>]
    /\ NextTurn(m)
    /\ UNCHANGED <<sessions, status, sid, retried, replies, inflight, aborted,
                   active, latest, crashes>>

\* Mutants of TurnCompletes: hasPending is not asked; or the inbox is drained
\* into the conversation and the task completes all the same.
CompletesWithInbox(m) ==
    /\ Persist(m, <<>>)
    /\ MayStartCompaction(m)
    /\ status' = [status EXCEPT ![m] = "completed"]
    /\ ReplyOnChannel(m, "answer")
    /\ Finally(m)
    /\ UNCHANGED <<sessions, sid, retried, aborted, pending, latest, crashes>>

CompletesAfterDrain(m) ==
    /\ Persist(m, IF pending[sid[m]] = <<>> THEN <<>>
                  ELSE <<UserRow(m, pending[sid[m]])>>)
    /\ MayStartCompaction(m)
    /\ status' = [status EXCEPT ![m] = "completed"]
    /\ pending' = [pending EXCEPT ![sid[m]] = <<>>]
    /\ ReplyOnChannel(m, "answer")
    /\ Finally(m)
    /\ UNCHANGED <<sessions, sid, retried, aborted, latest, crashes>>

\* Safe boundary with an empty inbox: the task completes.
TurnCompletes(m) ==
    /\ Persist(m, <<>>)
    /\ pending[sid[m]] = <<>>
    /\ MayStartCompaction(m)
    /\ status' = [status EXCEPT ![m] = "completed"]
    /\ ReplyOnChannel(m, "answer")
    /\ Finally(m)
    /\ UNCHANGED <<sessions, sid, retried, aborted, pending, latest, crashes>>

-----------------------------------------------------------------------------
(* Cancellation, compaction, deletion, restart.                            *)

\* cancel() from the API or the Supervisor, or the TASK_TIMEOUT_MS timer.
Abort(m) ==
    /\ m \in inflight \ aborted
    /\ aborted' = aborted \cup {m}
    /\ UNCHANGED <<tables, at, sid, retried, mute, replies, inflight, active, pending,
                   compacting, latest, crashes>>

\* Mutant of Wake: the compaction promise never settles for its waiters.
WakeNobody(s) == at

Wake(s) == [m \in Msg |-> IF at[m] = "awaiting" /\ sid[m] = s THEN "resuming" ELSE at[m]]

\* The compaction promise of s settles without rolling the session.
CompactionSkips(s) ==
    /\ s \in compacting
    /\ compacting' = compacting \ {s}
    /\ at' = Wake(s)
    /\ UNCHANGED <<tables, sid, retried, mute, replies, inflight, aborted, active,
                   pending, latest, crashes>>

\* It settles having created the child c.
CompactionRolls(s, c) ==
    /\ s \in compacting
    /\ c \in Child \ sessions
    /\ rows[c] = <<>> /\ latest[c] = c
    /\ compacting' = compacting \ {s}
    /\ sessions' = sessions \cup {c}
    /\ latest' = [latest EXCEPT ![s] = c]
    /\ at' = Wake(s)
    /\ UNCHANGED <<rows, status, sid, retried, mute, replies, inflight, aborted,
                   active, pending, crashes>>

\* DELETE /api/sessions/:id.  The message rows go with it (ON DELETE CASCADE);
\* the inbox, the indexes and the compaction state are not told.
DeleteSession(s) ==
    /\ s \in sessions \cap Deletable
    /\ sessions' = sessions \ {s}
    /\ rows' = [rows EXCEPT ![s] = <<>>]
    /\ mute' = [m \in Msg |-> IF sid[m] = s THEN 0 ELSE mute[m]]
    /\ UNCHANGED <<status, at, sid, retried, replies, memory, crashes>>

\* The process dies and restarts: the tables survive, everything else is gone.
Restart ==
    /\ crashes < MaxCrashes
    /\ crashes' = crashes + 1
    /\ at' = [m \in Msg |->
                IF at[m] \in {"awaiting", "resuming", "files", "turn", "stillborn"}
                   \/ \E s \in Session : \E i \in DOMAIN pending[s] : pending[s][i] = m
                THEN "lost" ELSE at[m]]
    /\ inflight' = {}
    /\ aborted' = {}
    /\ active' = [s \in Session |-> None]
    /\ pending' = [s \in Session |-> <<>>]
    /\ compacting' = {}
    /\ latest' = [s \in Session |-> s]
    /\ UNCHANGED <<tables, sid, retried, mute, replies>>

TaskStep(m) ==
    \/ AfterCompaction(m) \/ AfterAttachments(m)
    \/ TurnReportsError(m) \/ TurnThrows(m)
    \/ TurnLacksText(m) \/ TurnDrains(m) \/ TurnCompletes(m)

CompactionStep(s) == CompactionSkips(s) \/ \E c \in Child : CompactionRolls(s, c)

Next ==
    \/ \E m \in Msg, s \in Root : Inject(m, s) \/ Spawn(m, s)
    \/ \E m \in Msg : TaskStep(m) \/ Abort(m)
    \/ \E s \in Session : CompactionStep(s) \/ DeleteSession(s)
    \/ Restart

Spec == Init /\ [][Next]_vars

\* Every await settles: a provider call ends, an attachment is processed, a
\* compaction returns.  Nothing obliges a message to arrive, a task to be
\* aborted, a session to be deleted or the process to die.
FairSpec ==
    /\ Spec
    /\ \A m \in Msg : WF_vars(TaskStep(m))
    /\ \A s \in Session : WF_vars(CompactionStep(s))

\* A provider that may hang: only the turns of aborted tasks have to end.
HangingSpec ==
    /\ Spec
    /\ \A m \in Msg : WF_vars(m \in aborted /\ TaskStep(m))

-----------------------------------------------------------------------------
(* Properties.                                                             *)

Loops(s) == {m \in inflight : sid[m] = s}

\* The index never names a task that is no longer driving that session: an
\* injected input always joins the inbox of a live loop, whatever parallel
\* loops, roll-overs and deletions did before.
ActiveIsLive ==
    \A s \in Session : active[s] # None => active[s] \in Loops(s)

\* An input waits in the inbox of a session nobody is driving only if a loop
\* of that session failed: no interleaving of parallel loops, each leaving at
\* its own safe boundary, forgets an input (TaskRunner.send / _execute).
StrandedOnlyByFailure ==
    \A s \in Session :
        pending[s] # <<>> /\ Loops(s) = {} =>
            \E t \in Msg : sid[t] = s /\ status[t] = "failed"

\* Where m is kept: <<s, 0, i>> for an inbox, <<s, n, i>> for a message row.
Places(m) ==
    UNION {{<<s, 0, i>> : i \in {k \in DOMAIN pending[s] : pending[s][k] = m}}
           \cup UNION {{<<s, n, i>> : i \in {k \in DOMAIN rows[s][n].carries :
                                                rows[s][n].carries[k] = m}}
                       : n \in DOMAIN rows[s]}
           : s \in Session}

\* An injected input is never dropped or duplicated on its way from the inbox
\* into the conversation, whichever of several parallel loops drains it; only
\* deleting the session or a restart before the drain loses it.
InputKeptOnce ==
    \A m \in Msg :
        /\ Cardinality(Places(m)) <= 1
        /\ at[m] = "queued" /\ Deletable = {} => Places(m) # {}

\* A completed task has answered everything it put into the conversation (its
\* first message, the synthetic summary request and every batch it drained):
\* behind each of these rows there is a response block of its own, or else a
\* later turn of the task ran to its end and the provider had nothing to say.
CompletedAnswersAll ==
    \A s \in Session : \A i \in DOMAIN rows[s] :
        LET r == rows[s][i] IN
        r.role = "user" /\ status[r.by] = "completed" =>
            \/ \E j \in DOMAIN rows[s] : j > i /\ rows[s][j] = ReplyRow(r.by)
            \/ i <= mute[r.by]

\* A channel task whose loop is over has sent its channel exactly one reply, and
\* the apology exactly when the task row says it failed; any other task, one
\* that was rejected before its loop among them, has sent none.
OneReplyPerChannelTask ==
    \A m \in OnChannel :
        replies[m] = IF at[m] # "done" THEN <<>>
                     ELSE IF status[m] = "completed" THEN <<"answer">> ELSE <<"sorry">>

\* The verdict in the task table never changes once written, whatever cancel,
\* a parallel loop or a restart does later.
VerdictIsFinal ==
    [][\A m \in Msg :
          status[m] \in {"completed", "failed"} => status[m]' = status[m]]_vars

Accepted(m) == at[m] \in {"awaiting", "resuming", "files", "turn", "stillborn"}

\* Every task the runner accepts comes to an end with a verdict in the table:
\* it is never left waiting for a compaction, and the drain and summary retries
\* of its loop run out.  Two things alone take it away without a verdict: a
\* restart, and the deletion of its session while it is being set up.
EveryTaskSettles ==
    \A m \in Msg :
        Accepted(m) ~> \/ at[m] = "done" /\ status[m] \in {"completed", "failed"}
                       \/ at[m] = "lost"
                       \/ at[m] = "rejected" /\ sid[m] \notin sessions

\* Cancelling, or timing out, a task ends it even when its provider hangs and
\* however many inputs are waiting for it.
AbortEndsTask == \A m \in Msg : m \in aborted ~> m \notin inflight

Waiting(m) == \E s \in Session : \E i \in DOMAIN pending[s] : pending[s][i] = m

\* An injected input does not wait in its inbox for ever, unless a loop of the
\* session it was queued on fails.
InjectedIsAbsorbed ==
    \A m \in Msg : Waiting(m) ~> ~Waiting(m) \/ \E t \in Msg : status[t] = "failed"

\* chat.ts: "No parallel tasks per session — one continuous conversation."
OneLoopPerSession == \A s \in Session : Cardinality(Loops(s)) <= 1

\* The conditions under which it does hold: callers use send(), no session is
\* rolled, and no message arrives inside the set-up of another task.
Serial == DirectRun = {} /\ Child = {} /\ ~Overlap

SerialOneLoop ==
    Serial => \A t \in inflight : active[sid[t]] = t

\* In such a process, unless a session is deleted under a running loop, the
\* conversation is continuous: each response block comes directly after the
\* user row it answers.
SerialRepliesFollowPrompt ==
    Serial /\ Deletable = {} =>
        \A s \in Session : \A i \in DOMAIN rows[s] :
            rows[s][i].role = "reply" =>
                /\ i > 1
                /\ rows[s][i - 1].role = "user" /\ rows[s][i - 1].by = rows[s][i].by
=============================================================================
